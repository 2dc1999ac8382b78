----------------------- MODULE LoggerLifecycleProofs -----------------------
(***************************************************************************)
(* Proofs about LoggerLifecycle: its types and the exactness of the count  *)
(* for any number of hosts, and the safety of the logger's life for one.   *)
(***************************************************************************)
EXTENDS LoggerLifecycle, FiniteSetTheorems, TLAPS

USE ConstantsAssumption DEF kOff, Level, OutputFormat

-----------------------------------------------------------------------------
(* Types and the count.  Neither is inductive alone: a call subtracts from  *)
(* the count without looking, and only CountIsExact keeps it a natural.     *)

TypeAndCount == TypeOK /\ CountIsExact

\* Of an action that takes no call into or out of the counted part.
LEMMA SameCounted ==
    ASSUME CountIsExact, Counted' = Counted,
           active_log_calls' = active_log_calls, leaked' = leaked
    PROVE  CountIsExact'
BY DEF CountIsExact

\* The counted calls are logging threads, and those are finitely many.
LEMMA CountedFinite == IsFiniteSet(Counted) /\ Cardinality(Counted) \in Nat
<1>1. Counted \subseteq Loggers
  BY DEF Counted
<1> QED
  BY <1>1, FS_Subset, FS_CardinalityType

\* A call that is counted is one of the count.
LEMMA CountedIsPositive ==
    ASSUME TypeOK, CountIsExact, NEW t \in Counted
    PROVE  /\ active_log_calls \in Nat \ {0}
           /\ Cardinality(Counted \ {t}) = Cardinality(Counted) - 1
<1>1. Cardinality(Counted \ {t}) = Cardinality(Counted) - 1
  BY CountedFinite, FS_RemoveElement
<1>2. Cardinality(Counted \ {t}) \in Nat
  BY CountedFinite, FS_RemoveElement, FS_CardinalityType
<1> QED
  BY <1>1, <1>2, CountedFinite DEF TypeOK, CountIsExact

\* A thread outside a log call has locals too.
LEMMA NoCallIsCall == NoCall \in LogCall
BY DEF NoCall, LogCall

\* A step of a log call keeps the types and the exactness of the count.
LEMMA LoggerTypes ==
    ASSUME TypeAndCount, NEW t \in Loggers, Call(t) \/ Throw(t) \/ LoggerStep(t)
    PROVE  TypeAndCount'
<1> USE DEF TypeAndCount, Goto, loggerFrame, guarded, atomics, LoggerPC
<1>1. CASE Call(t)
  <2>1. TypeOK'
    BY <1>1 DEF Call, TypeOK, LogCall
  <2>2. Counted' = Counted
    BY <1>1 DEF Call, TypeOK, Counted
  <2> QED
    BY <1>1, <2>1, <2>2, SameCounted DEF Call
<1>2. CASE CheckLevel(t)
  <2>1. TypeOK'
    BY <1>2, NoCallIsCall DEF CheckLevel, TypeOK
  <2>2. Counted' = Counted
    BY <1>2 DEF CheckLevel, TypeOK, Counted
  <2> QED
    BY <1>2, <2>1, <2>2, SameCounted DEF CheckLevel
<1>3. CASE LoadLogger(t)
  <2>1. TypeOK'
    BY <1>3, NoCallIsCall DEF LoadLogger, TypeOK, LogCall
  <2>2. Counted' = Counted
    BY <1>3 DEF LoadLogger, TypeOK, Counted
  <2> QED
    BY <1>3, <2>1, <2>2, SameCounted DEF LoadLogger
<1>4. CASE Enter(t)
  <2>1. TypeOK'
    BY <1>4 DEF Enter, TypeOK
  <2>2. Counted' = Counted \cup {t} /\ t \notin Counted
    BY <1>4 DEF Enter, TypeOK, Counted
  <2>3. Cardinality(Counted') = Cardinality(Counted) + 1
    BY <2>2, CountedFinite, FS_AddElement
  <2> QED
    BY <1>4, <2>1, <2>3, CountedFinite DEF Enter, TypeOK, CountIsExact
<1>5. CASE Validate(t)
  <2>1. TypeOK'
    BY <1>5 DEF Validate, TypeOK
  <2>2. Counted' = Counted
    BY <1>5 DEF Validate, TypeOK, Counted
  <2> QED
    BY <1>5, <2>1, <2>2, SameCounted DEF Validate
<1>6. CASE Retract(t) \/ EndLog(t)
  <2>1. t \in Counted
    BY <1>6 DEF Retract, EndLog, Leave, Counted
  <2>2. /\ active_log_calls \in Nat \ {0}
        /\ Cardinality(Counted \ {t}) = Cardinality(Counted) - 1
    BY <2>1, CountedIsPositive
  <2>3. active_log_calls' = active_log_calls - 1 /\ leaked' = leaked
    BY <1>6 DEF Retract, EndLog, Leave
  <2>4. TypeOK'
    BY <1>6, <2>2, NoCallIsCall DEF Retract, EndLog, Leave, TypeOK
  <2>5. Counted' = Counted \ {t}
    BY <1>6 DEF Retract, EndLog, Leave, TypeOK, Counted
  <2> QED
    BY <2>2, <2>3, <2>4, <2>5, CountedFinite DEF TypeOK, CountIsExact
<1>7. CASE Notify(t)
  <2>1. TypeOK'
    BY <1>7 DEF Notify, TypeOK
  <2>2. Counted' = Counted
    BY <1>7 DEF Notify, TypeOK, Counted
  <2> QED
    BY <1>7, <2>1, <2>2, SameCounted DEF Notify
<1>8. CASE ReadFormat(t)
  <2>1. TypeOK'
    BY <1>8 DEF ReadFormat, TypeOK, LogCall
  <2>2. Counted' = Counted
    BY <1>8 DEF ReadFormat, TypeOK, Counted
  <2> QED
    BY <1>8, <2>1, <2>2, SameCounted DEF ReadFormat
<1>9. CASE Emit(t)
  <2> DEFINE object == heap[call[t].logger]
             emitted == object # None /\ call[t].level >= object.level
  <2>0. call' = [call EXCEPT ![t].emitted = emitted] /\ emitted \in BOOLEAN
    BY <1>9 DEF Emit
  <2>1. TypeOK'
    <3> HIDE DEF emitted
    <3>1. call' \in [Loggers -> LogCall]
      BY <2>0 DEF TypeOK, LogCall
    <3> QED
      BY <1>9, <3>1 DEF Emit, TypeOK
  <2>2. Counted' = Counted
    BY <1>9 DEF Emit, TypeOK, Counted
  <2> QED
    BY <1>9, <2>1, <2>2, SameCounted DEF Emit
<1>10. CASE Throw(t)
  <2>1. t \in Counted
    BY <1>10 DEF Throw, Counted
  <2>2. /\ active_log_calls \in Nat \ {0}
        /\ Cardinality(Counted \ {t}) = Cardinality(Counted) - 1
    BY <2>1, CountedIsPositive
  <2>3. TypeOK'
    <3>1. leaked' \in 0 .. MaxLeaks
      BY <1>10 DEF Throw, TypeOK
    <3>2. call' \in [Loggers -> LogCall]
      BY <1>10, NoCallIsCall DEF Throw, TypeOK
    <3> QED
      BY <1>10, <3>1, <3>2 DEF Throw, TypeOK
  <2>4. Counted' = Counted \ {t}
    BY <1>10 DEF Throw, TypeOK, Counted
  <2> QED
    BY <1>10, <2>2, <2>3, <2>4, CountedFinite DEF Throw, TypeOK, CountIsExact
<1> QED
  BY <1>1, <1>2, <1>3, <1>4, <1>5, <1>6, <1>7, <1>8, <1>9, <1>10 DEF LoggerStep

\* The threads that log are not moved by a host.
LEMMA HostFrame ==
    ASSUME TypeOK, NEW h \in Hosts, Start(h) \/ SpuriousWake(h) \/ HostStep(h)
    PROVE  /\ UNCHANGED hostFrame
           /\ \A g \in Loggers \cup Hosts : g # h => pc'[g] = pc[g]
           /\ Counted' = Counted /\ Using' = Using
<1>1. UNCHANGED hostFrame
  BY DEF hostFrame, Start, SpuriousWake, HostStep, Lock, UnpublishLevel, UnpublishLogger,
         CheckActive, Sleep, Wake, FlushUnlocked, ResetState, ResetFormat, CreateLogger,
         CreateFails, PublishFormat, PublishLevel, PublishLogger, Unlock
<1>2. pc' = pc \/ \E to \in HostPC : pc' = [pc EXCEPT ![h] = to]
  BY DEF Goto, HostPC, Start, SpuriousWake, HostStep, Lock, UnpublishLevel, UnpublishLogger,
         CheckActive, Sleep, Wake, FlushUnlocked, ResetState, ResetFormat, CreateLogger,
         CreateFails, PublishFormat, PublishLevel, PublishLogger, Unlock
<1>3. \A g \in Loggers \cup Hosts : g # h => pc'[g] = pc[g]
  BY <1>2 DEF TypeOK
<1> QED
  BY <1>1, <1>3 DEF Counted, Using

\* What a host remembers of its operation stays a Job.
LEMMA JobTypes ==
    /\ DefaultConfiguration \in Configuration
    /\ NoJob \in Job
    /\ \A op \in Ops, c \in Requests :
         LET job1 == [NoJob EXCEPT !.op = op, !.config = IF op = "configure" THEN c ELSE @]
         IN  job1 \in Job /\ job1.op = op
    /\ \A j \in Job : [j EXCEPT !.failed = TRUE] \in Job
<1>1. DefaultConfiguration \in Configuration
  BY DEF DefaultConfiguration, Configuration
<1>2. NoJob \in Job
  BY <1>1 DEF NoJob, Job, Ops
<1>3. ASSUME NEW op \in Ops, NEW c \in Requests
      PROVE  LET job1 == [NoJob EXCEPT !.op = op, !.config = IF op = "configure" THEN c ELSE @]
             IN  job1 \in Job /\ job1.op = op
  <2>1. c \in Configuration
    OBVIOUS
  <2> QED
    BY <1>1, <2>1 DEF NoJob, Job
<1>4. ASSUME NEW j \in Job
      PROVE  [j EXCEPT !.failed = TRUE] \in Job
  BY <1>4 DEF Job
<1> QED
  BY <1>1, <1>2, <1>3, <1>4

\* A step of a host keeps the types.
LEMMA HostTypes ==
    ASSUME TypeOK, NEW h \in Hosts, Start(h) \/ SpuriousWake(h) \/ HostStep(h)
    PROVE  TypeOK'
<1> USE DEF Goto, hostFrame, guarded, atomics, HostPC
<1>1. CASE Start(h)
  <2>1. PICK op \in Ops \ {"none"}, c \in Requests :
          job' = [job EXCEPT ![h] = [NoJob EXCEPT !.op = op,
                      !.config = IF op = "configure" THEN c ELSE @]]
    BY <1>1 DEF Start
  <2>2. job' \in [Hosts -> Job]
    BY <2>1, JobTypes DEF TypeOK
  <2>3. /\ Goto(h, "idle", "lock")
        /\ UNCHANGED <<hostFrame, mutex, waiters, guarded, atomics>>
    BY <1>1 DEF Start
  <2> QED
    BY <2>2, <2>3 DEF TypeOK
<1>2. CASE SpuriousWake(h)
  BY <1>2 DEF SpuriousWake, TypeOK
<1>3. CASE Lock(h)
  BY <1>3 DEF Lock, TypeOK
<1>4. CASE UnpublishLevel(h)
  BY <1>4 DEF UnpublishLevel, TypeOK
<1>5. CASE UnpublishLogger(h)
  BY <1>5 DEF UnpublishLogger, TypeOK
<1>6. CASE CheckActive(h)
  BY <1>6 DEF CheckActive, TypeOK
<1>7. CASE Sleep(h)
  BY <1>7 DEF Sleep, TypeOK
<1>8. CASE Wake(h)
  BY <1>8 DEF Wake, TypeOK
<1>9. CASE FlushUnlocked(h)
  BY <1>9 DEF FlushUnlocked, TypeOK
<1>10. CASE ResetState(h)
  BY <1>10, JobTypes DEF ResetState, TypeOK
<1>11. CASE ResetFormat(h)
  BY <1>11 DEF ResetFormat, TypeOK
<1>12. CASE CreateLogger(h)
  BY <1>12 DEF CreateLogger, TypeOK, Job
<1>13. CASE CreateFails(h)
  <2>1. configuration' \in Configuration
    BY <1>13 DEF CreateFails, TypeOK, Job
  <2>2. [job[h] EXCEPT !.failed = TRUE] \in Job
    BY JobTypes DEF TypeOK
  <2>3. job' \in [Hosts -> Job]
    BY <1>13, <2>2 DEF CreateFails, TypeOK
  <2> QED
    BY <1>13, <2>1, <2>3 DEF CreateFails, TypeOK
<1>14. CASE PublishFormat(h)
  BY <1>14 DEF PublishFormat, TypeOK, Configuration
<1>15. CASE PublishLevel(h)
  BY <1>15 DEF PublishLevel, TypeOK, Configuration
<1>16. CASE PublishLogger(h)
  BY <1>16 DEF PublishLogger, TypeOK
<1>17. CASE Unlock(h)
  BY <1>17, JobTypes DEF Unlock, TypeOK
<1> QED
  BY <1>1, <1>2, <1>3, <1>4, <1>5, <1>6, <1>7, <1>8, <1>9, <1>10, <1>11, <1>12, <1>13, <1>14, <1>15, <1>16, <1>17 DEF HostStep

\* Types and count together are inductive.
LEMMA TypeAndCountInductive ==
    /\ Init => TypeAndCount
    /\ TypeAndCount /\ [Next]_vars => TypeAndCount'
<1>1. Init => TypeAndCount
  <2> SUFFICES ASSUME Init PROVE TypeAndCount
    OBVIOUS
  <2>1. Counted = {}
    BY DEF Init, Counted
  <2>2. TypeOK
    <3>1. /\ configuration \in Configuration
          /\ call \in [Loggers -> LogCall]
          /\ job \in [Hosts -> Job]
          /\ heap \in [Addrs -> Configuration \cup {None}]
      BY JobTypes, NoCallIsCall DEF Init
    <3>2. /\ pc \in [Loggers \cup Hosts -> LoggerPC \cup HostPC]
          /\ \A t \in Loggers : pc[t] \in LoggerPC
          /\ \A h \in Hosts : pc[h] \in HostPC
      BY DEF Init, LoggerPC, HostPC
    <3>3. leaked \in 0 .. MaxLeaks /\ active_log_calls \in Nat
      BY DEF Init
    <3>4. /\ mutex \in Hosts \cup {None} /\ waiters \subseteq Hosts
          /\ logger \in Addrs \cup {None} /\ published_logger \in Addrs \cup {None}
          /\ published_level \in Level /\ published_output_format \in OutputFormat
      BY DEF Init
    <3>5. configured \in BOOLEAN
      BY DEF Init
    <3> QED
      BY <3>1, <3>2, <3>3, <3>4, <3>5 DEF TypeOK
  <2> QED
    BY <2>1, <2>2, FS_EmptySet DEF Init, CountIsExact, TypeAndCount
<1>2. TypeAndCount /\ [Next]_vars => TypeAndCount'
  <2> SUFFICES ASSUME TypeAndCount, [Next]_vars PROVE TypeAndCount'
    OBVIOUS
  <2>1. ASSUME NEW t \in Loggers, Call(t) \/ Throw(t) \/ LoggerStep(t)
        PROVE  TypeAndCount'
    BY <2>1, LoggerTypes
  <2>2. ASSUME NEW h \in Hosts, Start(h) \/ SpuriousWake(h) \/ HostStep(h)
        PROVE  TypeAndCount'
    <3>1. TypeOK'
      BY <2>2, HostTypes DEF TypeAndCount
    <3>2. CountIsExact'
      BY <2>2, HostFrame, SameCounted DEF TypeAndCount, hostFrame
    <3> QED
      BY <3>1, <3>2 DEF TypeAndCount
  <2>3. CASE UNCHANGED vars
    BY <2>3 DEF vars, guarded, atomics, TypeAndCount, TypeOK, CountIsExact, Counted
  <2> QED
    BY <2>1, <2>2, <2>3 DEF Next
<1> QED
  BY <1>1, <1>2

\* Every variable keeps its type, for any number of logging threads and hosts.
THEOREM TypeCorrect == Spec => []TypeOK
<1>1. TypeAndCount => TypeOK
  BY DEF TypeAndCount
<1> QED
  BY <1>1, TypeAndCountInductive, PTL DEF Spec

\* active_log_calls counts the calls between BeginLog's increment and the matching
\* decrement, plus the calls an exception took out: BeginLog's retry and EndLog never
\* lose or double one, for any number of logging threads and hosts.
THEOREM CountCorrect == Spec => []CountIsExact
<1>1. TypeAndCount => CountIsExact
  BY DEF TypeAndCount
<1> QED
  BY <1>1, TypeAndCountInductive, PTL DEF Spec

-----------------------------------------------------------------------------
(* The logger's life, for one host thread.  The argument: a host that has   *)
(* emptied published_logger and then read a count of zero is alone, since   *)
(* a call that counts itself later finds the pointer empty and retracts.    *)

Parts ==
    /\ MutexInv /\ JobInv /\ OwnedInv /\ PublishedInv /\ FormatInv /\ RestInv
    /\ CallInv /\ HostWorksAlone

\* A step of a log call keeps the parts of IInv.
LEMMA LoggerKeepsParts ==
    ASSUME IInv, TypeOK', NEW t \in Loggers, Call(t) \/ Throw(t) \/ LoggerStep(t)
    PROVE  Parts'
<1> USE DEF loggerFrame, guarded, atomics
<1>1. /\ UNCHANGED loggerFrame
      /\ \A g \in Loggers \cup Hosts : g # t => pc'[g] = pc[g] 
      /\ \A g \in Loggers \ {t} : call'[g] = call[g]
  BY DEF Goto, Call, Throw, LoggerStep, CheckLevel, LoadLogger, Enter, Validate, Leave,
         Retract, Notify, ReadFormat, Emit, EndLog, IInv, TypeOK
<1>2. \A h \in Hosts : pc'[h] = pc[h]
  BY <1>1
<1>3. MutexInv' /\ JobInv' /\ OwnedInv' /\ PublishedInv' /\ FormatInv' /\ RestInv'
  BY <1>1, <1>2 DEF IInv, MutexInv, JobInv, OwnedInv, PublishedInv, FormatInv, RestInv
<1>4. CallInv' /\ HostWorksAlone'
  <2> USE DEF IInv, TypeOK, LogCall, Goto
  <2>1. CASE Call(t)
    BY <1>1, <1>2, <2>1 DEF Call, CallInv, HostWorksAlone, Using
  <2>2. CASE Throw(t)
    BY <1>1, <1>2, <2>2 DEF Throw, NoCall, CallInv, HostWorksAlone, Using
  <2>3. CASE CheckLevel(t)
    BY <1>1, <1>2, <2>3 DEF CheckLevel, NoCall, CallInv, HostWorksAlone, Using
  <2>4. CASE LoadLogger(t)
    BY <1>1, <1>2, <2>4 DEF LoadLogger, NoCall, CallInv, HostWorksAlone, Using
  <2>5. CASE Enter(t)
    BY <1>1, <1>2, <2>5 DEF Enter, CallInv, HostWorksAlone, Using
  <2>6. CASE Validate(t)
    <3>1. CASE pc'[t] = "retract"
      BY <1>1, <1>2, <2>6, <3>1 DEF Validate, CallInv, HostWorksAlone, Using
    <3>2. CASE pc'[t] = "format"
      <4>1. call[t].logger = published_logger /\ published_logger # None
        BY <2>6, <3>2 DEF Validate, CallInv
      <4>2. logger # None /\ call[t].logger = logger
        BY <4>1 DEF PublishedInv
      <4>3. \A h \in Hosts : pc'[h] \notin Exclusive
        BY <1>2, <4>1 DEF PublishedInv, Retired
      <4>4. CallInv'
        BY <1>1, <2>6, <3>2, <4>2 DEF Validate, CallInv, Using
      <4> QED
        BY <4>3, <4>4 DEF HostWorksAlone
    <3> QED
      BY <2>6, <3>1, <3>2 DEF Validate
  <2>7. CASE Retract(t)
    BY <1>1, <1>2, <2>7 DEF Retract, Leave, CallInv, HostWorksAlone, Using
  <2>8. CASE Notify(t)
    BY <1>1, <1>2, <2>8 DEF Notify, CallInv, HostWorksAlone, Using
  <2>9. CASE ReadFormat(t)
    <3>1. t \in Using
      BY <2>9 DEF ReadFormat, Using
    <3>2. published_output_format = configuration.format
      BY <3>1 DEF HostWorksAlone, Exclusive, FormatInv, CallInv
    <3>3. Using' = Using
      BY <2>9 DEF ReadFormat, Using
    <3>4. CallInv'
      BY <1>1, <2>9, <3>2, <3>3 DEF ReadFormat, CallInv, Using
    <3> QED
      BY <1>2, <3>3, <3>4 DEF HostWorksAlone
  <2>10. CASE Emit(t)
    <3> DEFINE object == heap[call[t].logger]
               emitted == object # None /\ call[t].level >= object.level
    <3>1. call' = [call EXCEPT ![t].emitted = emitted]
      BY <2>10 DEF Emit
    <3>2. t \in Using /\ Using' = Using
      BY <2>10 DEF Emit, Using
    <3>3. emitted => IsLevelEnabled(call[t].level, configuration.level)
      BY <3>2 DEF CallInv, OwnedInv, IsLevelEnabled, Configuration
    <3> HIDE DEF emitted
    <3>4. CallInv'
      BY <1>1, <2>10, <3>1, <3>2, <3>3 DEF Emit, CallInv, Using
    <3> QED
      BY <1>2, <3>2, <3>4 DEF HostWorksAlone
  <2>11. CASE EndLog(t)
    BY <1>1, <1>2, <2>11 DEF EndLog, Leave, NoCall, CallInv, HostWorksAlone, Using
  <2> QED
    BY <2>1, <2>2, <2>3, <2>4, <2>5, <2>6, <2>7, <2>8, <2>9, <2>10, <2>11 DEF LoggerStep
<1> QED
  BY <1>3, <1>4 DEF Parts

\* With the count at zero no log call is inside.
LEMMA ZeroMeansAlone ==
    ASSUME TypeOK, CountIsExact, active_log_calls = 0
    PROVE  Using = {}
<1>1. Counted = {}
  BY CountedFinite, FS_EmptySet DEF TypeOK, CountIsExact
<1> QED
  BY <1>1 DEF Counted, Using

\* While no call is inside, whatever a host does happens to no call.
LEMMA AloneKeepsCalls ==
    ASSUME CallInv, Using = {}, Using' = Using, UNCHANGED call,
           \A t \in Loggers : pc'[t] = pc[t]
    PROVE  CallInv' /\ HostWorksAlone'
BY DEF CallInv, HostWorksAlone, Using

\* A step of the only host keeps the parts of IInv.
LEMMA HostKeepsParts ==
    ASSUME SingleHost, IInv, TypeOK', NEW h \in Hosts,
           Start(h) \/ SpuriousWake(h) \/ HostStep(h)
    PROVE  Parts'
<1>1. \A g \in Hosts : g = h
  BY DEF SingleHost
<1>2. UNCHANGED hostFrame /\ Using' = Using /\ \A t \in Loggers : pc'[t] = pc[t]
  BY HostFrame DEF IInv
<1> USE DEF IInv, TypeOK, Goto, hostFrame, guarded, atomics
<1>3. CASE Start(h)
  <2>0. Goto(h, "idle", "lock") /\ UNCHANGED <<mutex, guarded, atomics>>
    BY <1>3 DEF Start
  <2>4. job'[h].op # "none"
    <3>1. PICK op \in Ops \ {"none"}, c \in Requests :
            job' = [job EXCEPT ![h] = [NoJob EXCEPT !.op = op,
                        !.config = IF op = "configure" THEN c ELSE @]]
      BY <1>3 DEF Start
    <3> QED
      BY <3>1, JobTypes
  <2>1. MutexInv' /\ JobInv' /\ OwnedInv'
    BY <1>1, <2>0, <2>4 DEF MutexInv, JobInv, Teardown, OwnedInv, Inside, HostPC
  <2>2. PublishedInv' /\ FormatInv' /\ RestInv'
    BY <1>1, <2>0 DEF PublishedInv, FormatInv, RestInv, Retired, Exclusive
  <2>3. CallInv' /\ HostWorksAlone'
    BY <1>1, <1>2, <2>0 DEF CallInv, HostWorksAlone, Exclusive
  <2> QED
    BY <2>1, <2>2, <2>3 DEF Parts
<1>4. CASE SpuriousWake(h)
  <2>1. MutexInv' /\ JobInv' /\ OwnedInv'
    BY <1>1, <1>4 DEF SpuriousWake, MutexInv, JobInv, Teardown, OwnedInv, Inside, HostPC
  <2>2. PublishedInv' /\ FormatInv' /\ RestInv'
    BY <1>1, <1>4 DEF SpuriousWake, PublishedInv, FormatInv, RestInv, Retired, Exclusive, OwnedInv
  <2>3. CallInv' /\ HostWorksAlone'
    BY <1>1, <1>2, <1>4 DEF SpuriousWake, CallInv, HostWorksAlone, Exclusive
  <2> QED
    BY <2>1, <2>2, <2>3 DEF Parts
<1>5. CASE Lock(h)
  <2>1. MutexInv' /\ JobInv' /\ OwnedInv'
    <3>1. HasWork(h) /\ configured => job[h].op \in {"flush", "shutdown"}
      BY <1>5 DEF Lock, HasWork, JobInv, Job, Ops
    <3>2. HasWork(h) /\ job[h].op = "flush" => logger # None
      BY DEF HasWork
    <3>3. MutexInv' /\ JobInv'
      BY <1>1, <1>5, <3>1 DEF Lock, MutexInv, JobInv, Teardown, Inside, HostPC
    <3>4. OwnedInv'
      BY <1>1, <1>5, <3>2 DEF Lock, OwnedInv, Inside, HostPC
    <3> QED
      BY <3>3, <3>4
  <2>2. PublishedInv' /\ FormatInv' /\ RestInv'
    BY <1>1, <1>5 DEF Lock, PublishedInv, FormatInv, RestInv, Retired, Exclusive, OwnedInv
  <2>3. CallInv' /\ HostWorksAlone'
    BY <1>1, <1>2, <1>5 DEF Lock, CallInv, HostWorksAlone, Exclusive
  <2> QED
    BY <2>1, <2>2, <2>3 DEF Parts
<1>6. CASE UnpublishLevel(h)
  <2>1. MutexInv' /\ JobInv' /\ OwnedInv'
    BY <1>1, <1>6 DEF UnpublishLevel, MutexInv, JobInv, Teardown, OwnedInv, Inside, HostPC
  <2>2. PublishedInv' /\ FormatInv' /\ RestInv'
    BY <1>1, <1>6 DEF UnpublishLevel, PublishedInv, FormatInv, RestInv, Retired, Exclusive, OwnedInv
  <2>3. CallInv' /\ HostWorksAlone'
    BY <1>1, <1>2, <1>6 DEF UnpublishLevel, CallInv, HostWorksAlone, Exclusive
  <2> QED
    BY <2>1, <2>2, <2>3 DEF Parts
<1>7. CASE UnpublishLogger(h)
  <2>1. MutexInv' /\ JobInv' /\ OwnedInv'
    BY <1>1, <1>7 DEF UnpublishLogger, MutexInv, JobInv, Teardown, OwnedInv, Inside, HostPC
  <2>2. PublishedInv' /\ FormatInv' /\ RestInv'
    BY <1>1, <1>7 DEF UnpublishLogger, PublishedInv, FormatInv, RestInv, Retired, Exclusive, OwnedInv
  <2>3. CallInv' /\ HostWorksAlone'
    BY <1>1, <1>2, <1>7 DEF UnpublishLogger, CallInv, HostWorksAlone, Exclusive
  <2> QED
    BY <2>1, <2>2, <2>3 DEF Parts
<1>8. CASE CheckActive(h)
  <2>1. MutexInv' /\ JobInv' /\ OwnedInv'
    BY <1>1, <1>8 DEF CheckActive, MutexInv, JobInv, Teardown, OwnedInv, Inside, HostPC
  <2>2. PublishedInv' /\ FormatInv' /\ RestInv'
    BY <1>1, <1>8 DEF CheckActive, PublishedInv, FormatInv, RestInv, Retired, Exclusive, OwnedInv
  <2>3. CallInv' /\ HostWorksAlone'
    BY <1>1, <1>2, <1>8, ZeroMeansAlone DEF CheckActive, CallInv, HostWorksAlone, Exclusive
  <2> QED
    BY <2>1, <2>2, <2>3 DEF Parts
<1>9. CASE Sleep(h)
  <2>1. MutexInv' /\ JobInv' /\ OwnedInv'
    BY <1>1, <1>9 DEF Sleep, MutexInv, JobInv, Teardown, OwnedInv, Inside, HostPC
  <2>2. PublishedInv' /\ FormatInv' /\ RestInv'
    BY <1>1, <1>9 DEF Sleep, PublishedInv, FormatInv, RestInv, Retired, Exclusive, OwnedInv
  <2>3. CallInv' /\ HostWorksAlone'
    BY <1>1, <1>2, <1>9 DEF Sleep, CallInv, HostWorksAlone, Exclusive
  <2> QED
    BY <2>1, <2>2, <2>3 DEF Parts
<1>10. CASE Wake(h)
  <2>1. MutexInv' /\ JobInv' /\ OwnedInv'
    BY <1>1, <1>10 DEF Wake, MutexInv, JobInv, Teardown, OwnedInv, Inside, HostPC
  <2>2. PublishedInv' /\ FormatInv' /\ RestInv'
    BY <1>1, <1>10 DEF Wake, PublishedInv, FormatInv, RestInv, Retired, Exclusive, OwnedInv
  <2>3. CallInv' /\ HostWorksAlone'
    BY <1>1, <1>2, <1>10 DEF Wake, CallInv, HostWorksAlone, Exclusive
  <2> QED
    BY <2>1, <2>2, <2>3 DEF Parts
<1>11. CASE FlushUnlocked(h)
  <2>1. MutexInv' /\ JobInv' /\ OwnedInv'
    BY <1>1, <1>11 DEF FlushUnlocked, MutexInv, JobInv, Teardown, OwnedInv, Inside, HostPC
  <2>2. PublishedInv' /\ FormatInv' /\ RestInv'
    BY <1>1, <1>11 DEF FlushUnlocked, PublishedInv, FormatInv, RestInv, Retired, Exclusive, OwnedInv
  <2>3. CallInv' /\ HostWorksAlone'
    BY <1>1, <1>2, <1>11 DEF FlushUnlocked, CallInv, HostWorksAlone, Exclusive
  <2> QED
    BY <2>1, <2>2, <2>3 DEF Parts
<1>12. CASE ResetState(h)
  <2>1. MutexInv' /\ JobInv' /\ OwnedInv'
    <3>1. MutexInv' /\ JobInv'
      BY <1>1, <1>12 DEF ResetState, MutexInv, JobInv, Teardown, Inside, HostPC
    <3>2. OwnedInv'
      BY <1>1, <1>12 DEF ResetState, OwnedInv, JobInv, Inside, HostPC
    <3> QED
      BY <3>1, <3>2
  <2>2. PublishedInv' /\ FormatInv' /\ RestInv'
    BY <1>1, <1>12 DEF ResetState, PublishedInv, FormatInv, RestInv, Retired, Exclusive, OwnedInv
  <2>3. CallInv' /\ HostWorksAlone'
    BY <1>2, <1>12, AloneKeepsCalls DEF ResetState, HostWorksAlone, Exclusive
  <2> QED
    BY <2>1, <2>2, <2>3 DEF Parts
<1>13. CASE ResetFormat(h)
  <2>1. MutexInv' /\ JobInv' /\ OwnedInv'
    BY <1>1, <1>13 DEF ResetFormat, MutexInv, JobInv, Teardown, OwnedInv, Inside, HostPC
  <2>2. PublishedInv' /\ FormatInv' /\ RestInv'
    BY <1>1, <1>13 DEF ResetFormat, PublishedInv, FormatInv, RestInv, Retired, Exclusive, OwnedInv,
                     DefaultConfiguration
  <2>3. CallInv' /\ HostWorksAlone'
    BY <1>1, <1>2, <1>13 DEF ResetFormat, CallInv, HostWorksAlone, Exclusive
  <2> QED
    BY <2>1, <2>2, <2>3 DEF Parts
<1>14. CASE CreateLogger(h)
  <2>1. MutexInv' /\ JobInv' /\ OwnedInv'
    BY <1>1, <1>14 DEF CreateLogger, MutexInv, JobInv, Teardown, OwnedInv, Inside, HostPC
  <2>2. PublishedInv' /\ FormatInv' /\ RestInv'
    BY <1>1, <1>14 DEF CreateLogger, PublishedInv, FormatInv, RestInv, Retired, Exclusive, OwnedInv
  <2>3. CallInv' /\ HostWorksAlone'
    BY <1>2, <1>14, AloneKeepsCalls DEF CreateLogger, HostWorksAlone, Exclusive
  <2> QED
    BY <2>1, <2>2, <2>3 DEF Parts
<1>15. CASE CreateFails(h)
  <2>1. MutexInv' /\ JobInv' /\ OwnedInv'
    BY <1>1, <1>15 DEF CreateFails, MutexInv, JobInv, Teardown, OwnedInv, Inside, HostPC
  <2>2. PublishedInv' /\ FormatInv' /\ RestInv'
    BY <1>1, <1>15 DEF CreateFails, PublishedInv, FormatInv, RestInv, Retired, Exclusive, OwnedInv
  <2>3. CallInv' /\ HostWorksAlone'
    BY <1>2, <1>15, AloneKeepsCalls DEF CreateFails, HostWorksAlone, Exclusive
  <2> QED
    BY <2>1, <2>2, <2>3 DEF Parts
<1>16. CASE PublishFormat(h)
  <2>1. MutexInv' /\ JobInv' /\ OwnedInv'
    BY <1>1, <1>16 DEF PublishFormat, MutexInv, JobInv, Teardown, OwnedInv, Inside, HostPC
  <2>2. PublishedInv' /\ FormatInv' /\ RestInv'
    BY <1>1, <1>16 DEF PublishFormat, PublishedInv, FormatInv, RestInv, Retired, Exclusive, OwnedInv
  <2>3. CallInv' /\ HostWorksAlone'
    BY <1>1, <1>2, <1>16 DEF PublishFormat, CallInv, HostWorksAlone, Exclusive
  <2> QED
    BY <2>1, <2>2, <2>3 DEF Parts
<1>17. CASE PublishLevel(h)
  <2>1. MutexInv' /\ JobInv' /\ OwnedInv'
    BY <1>1, <1>17 DEF PublishLevel, MutexInv, JobInv, Teardown, OwnedInv, Inside, HostPC
  <2>2. PublishedInv' /\ FormatInv' /\ RestInv'
    BY <1>1, <1>17 DEF PublishLevel, PublishedInv, FormatInv, RestInv, Retired, Exclusive, OwnedInv
  <2>3. CallInv' /\ HostWorksAlone'
    BY <1>1, <1>2, <1>17 DEF PublishLevel, CallInv, HostWorksAlone, Exclusive
  <2> QED
    BY <2>1, <2>2, <2>3 DEF Parts
<1>18. CASE PublishLogger(h)
  <2>1. MutexInv' /\ JobInv' /\ OwnedInv'
    BY <1>1, <1>18 DEF PublishLogger, MutexInv, JobInv, Teardown, OwnedInv, Inside, HostPC
  <2>2. PublishedInv' /\ FormatInv' /\ RestInv'
    BY <1>1, <1>18 DEF PublishLogger, PublishedInv, FormatInv, RestInv, Retired, Exclusive, OwnedInv
  <2>3. CallInv' /\ HostWorksAlone'
    BY <1>1, <1>2, <1>18 DEF PublishLogger, CallInv, HostWorksAlone, Exclusive
  <2> QED
    BY <2>1, <2>2, <2>3 DEF Parts
<1>19. CASE Unlock(h)
  <2>1. MutexInv' /\ JobInv' /\ OwnedInv'
    BY <1>1, <1>19 DEF Unlock, MutexInv, JobInv, Teardown, OwnedInv, Inside, HostPC
  <2>2. PublishedInv' /\ FormatInv' /\ RestInv'
    BY <1>1, <1>19 DEF Unlock, PublishedInv, FormatInv, RestInv, Retired, Exclusive, OwnedInv
  <2>3. CallInv' /\ HostWorksAlone'
    BY <1>1, <1>2, <1>19 DEF Unlock, CallInv, HostWorksAlone, Exclusive
  <2> QED
    BY <2>1, <2>2, <2>3 DEF Parts
<1> QED
  BY <1>3, <1>4, <1>5, <1>6, <1>7, <1>8, <1>9, <1>10, <1>11, <1>12, <1>13, <1>14, <1>15, <1>16, <1>17, <1>18, <1>19 DEF HostStep

\* A step of a log call changes nothing that DefaultsInv is about.
LEMMA LoggerKeepsDefaults ==
    ASSUME IInv, NEW t \in Loggers, Call(t) \/ Throw(t) \/ LoggerStep(t)
    PROVE  DefaultsInv'
<1>1. UNCHANGED loggerFrame /\ \A h \in Hosts : pc'[h] = pc[h]
  BY ConstantsAssumption DEF Goto, loggerFrame, guarded, atomics, Call, Throw, LoggerStep, CheckLevel,
         LoadLogger, Enter, Validate, Leave, Retract, Notify, ReadFormat, Emit, EndLog, IInv, TypeOK
<1> QED
  BY <1>1 DEF DefaultsInv, loggerFrame, guarded, IInv

\* A step of the only host keeps DefaultsInv: the handler of a failed Configure stays in
\* the teardown until it has reset the configuration.
LEMMA HostKeepsDefaults ==
    ASSUME SingleHost, IInv, NEW h \in Hosts,
           Start(h) \/ SpuriousWake(h) \/ HostStep(h)
    PROVE  DefaultsInv'
<1>1. \A g \in Hosts : g = h
  BY DEF SingleHost
<1> USE DEF IInv, TypeOK, Goto, hostFrame, guarded, atomics, DefaultsInv, Teardown
<1>2. CASE CreateFails(h)
  <2>1. pc'[h] = "unpublish_level" /\ job'[h].failed
    BY <1>2 DEF CreateFails, Job
  <2> QED
    BY <2>1
<1>3. CASE FlushUnlocked(h)
  <2>1. job[h].op = "flush" => configured
    BY <1>3 DEF FlushUnlocked, OwnedInv, Inside, HostPC
  <2> QED
    BY <1>1, <1>3, <2>1 DEF FlushUnlocked
<1>4. CASE ResetState(h) \/ CreateLogger(h)
  BY <1>4 DEF ResetState, CreateLogger
<1>5. CASE Start(h) \/ Unlock(h)
  BY <1>1, <1>5 DEF Start, Unlock
<1>6. CASE Lock(h) \/ UnpublishLevel(h) \/ UnpublishLogger(h) \/ CheckActive(h)
  BY <1>1, <1>6 DEF Lock, UnpublishLevel, UnpublishLogger, CheckActive
<1>7. CASE Sleep(h) \/ Wake(h) \/ SpuriousWake(h)
  BY <1>1, <1>7 DEF Sleep, Wake, SpuriousWake
<1>8. CASE ResetFormat(h) \/ PublishFormat(h) \/ PublishLevel(h) \/ PublishLogger(h)
  BY <1>1, <1>8 DEF ResetFormat, PublishFormat, PublishLevel, PublishLogger
<1> QED
  BY <1>2, <1>3, <1>4, <1>5, <1>6, <1>7, <1>8 DEF HostStep

\* IInv is inductive when there is one host.
LEMMA IInvInductive ==
    ASSUME SingleHost
    PROVE  /\ Init => IInv
           /\ IInv /\ [Next]_vars => IInv'
<1>1. Init => IInv
  <2> SUFFICES ASSUME Init PROVE IInv
    OBVIOUS
  <2>1. TypeOK /\ CountIsExact
    BY TypeAndCountInductive DEF TypeAndCount
  <2>2. MutexInv /\ JobInv /\ OwnedInv /\ PublishedInv
    BY DEF Init, MutexInv, JobInv, Teardown, OwnedInv, PublishedInv, Inside, Retired, Exclusive
  <2>3. FormatInv /\ RestInv
    BY DEF Init, FormatInv, RestInv, DefaultConfiguration
  <2>4. CallInv /\ HostWorksAlone
    BY DEF Init, CallInv, HostWorksAlone, Using, Exclusive, NoCall
  <2>5. DefaultsInv
    BY DEF Init, DefaultsInv
  <2> QED
    BY <2>1, <2>2, <2>3, <2>4, <2>5 DEF IInv
<1>2. IInv /\ [Next]_vars => IInv'
  <2> SUFFICES ASSUME IInv, [Next]_vars PROVE IInv'
    OBVIOUS
  <2>1. TypeOK' /\ CountIsExact'
    BY TypeAndCountInductive DEF TypeAndCount, IInv
  <2>2. Parts'
    <3>1. ASSUME NEW t \in Loggers, Call(t) \/ Throw(t) \/ LoggerStep(t)
          PROVE  Parts'
      BY <2>1, <3>1, LoggerKeepsParts
    <3>2. ASSUME NEW h \in Hosts, Start(h) \/ SpuriousWake(h) \/ HostStep(h)
          PROVE  Parts'
      BY <2>1, <3>2, HostKeepsParts
    <3>3. CASE UNCHANGED vars
      BY <3>3 DEF vars, guarded, atomics, IInv, Parts, MutexInv, JobInv, OwnedInv, PublishedInv,
                  FormatInv, RestInv, CallInv, HostWorksAlone, Using
    <3> QED
      BY <3>1, <3>2, <3>3 DEF Next
  <2>3. DefaultsInv'
    <3>1. ASSUME NEW t \in Loggers, Call(t) \/ Throw(t) \/ LoggerStep(t)
          PROVE  DefaultsInv'
      BY <3>1, LoggerKeepsDefaults
    <3>2. ASSUME NEW h \in Hosts, Start(h) \/ SpuriousWake(h) \/ HostStep(h)
          PROVE  DefaultsInv'
      BY <3>2, HostKeepsDefaults
    <3>3. CASE UNCHANGED vars
      BY <3>3 DEF vars, guarded, IInv, DefaultsInv
    <3> QED
      BY <3>1, <3>2, <3>3 DEF Next
  <2> QED
    BY <2>1, <2>2, <2>3 DEF IInv, Parts
<1> QED
  BY <1>1, <1>2

\* The inductive invariant, for any number of logging threads and one host thread.
THEOREM IInvCorrect ==
    ASSUME SingleHost PROVE Spec => []IInv
BY IInvInductive, PTL DEF Spec

\* BeginLog's count and second look protect the logger: it is not freed while a
\* log call works on it.
THEOREM LoggerSafe ==
    ASSUME SingleHost PROVE Spec => []LoggerAliveWhileInUse
<1>1. IInv => LoggerAliveWhileInUse
  BY DEF IInv, TypeOK, CallInv, OwnedInv, LoggerAliveWhileInUse, Using
<1> QED
  BY <1>1, IInvCorrect, PTL

\* A record is rendered in the format of the logger that writes it.
THEOREM FormatSafe ==
    ASSUME SingleHost PROVE Spec => []FormatMatchesLogger
<1>1. IInv => FormatMatchesLogger
  BY DEF IInv, CallInv, OwnedInv, FormatMatchesLogger, Using
<1> QED
  BY <1>1, IInvCorrect, PTL

\* What is emitted is at or above the effective level of the configuration in force.
THEOREM LevelSafe ==
    ASSUME SingleHost PROVE Spec => []EmitsOnlyEnabledLevels
<1>1. IInv => EmitsOnlyEnabledLevels
  BY DEF IInv, CallInv, EmitsOnlyEnabledLevels, Using
<1> QED
  BY <1>1, IInvCorrect, PTL

\* The published pointer never points to a destroyed logger.
THEOREM PointerSafe ==
    ASSUME SingleHost PROVE Spec => []PublishedNeverDangles
<1>1. IInv => PublishedNeverDangles
  BY DEF IInv, TypeOK, PublishedInv, OwnedInv, PublishedNeverDangles
<1> QED
  BY <1>1, IInvCorrect, PTL

\* Between operations what is published is what the guarded members of State say.
THEOREM PublicationSafe ==
    ASSUME SingleHost PROVE Spec => []PublicationMatchesState
<1>1. IInv => PublicationMatchesState
  BY DEF IInv, OwnedInv, RestInv, PublicationMatchesState
<1> QED
  BY <1>1, IInvCorrect, PTL

\* IsConfigured and CurrentConfiguration, which take the mutex, find a logger of the
\* configuration they report, or none and the defaults, also while an operation waits.
THEOREM ReadersSafe ==
    ASSUME SingleHost PROVE Spec => []ReadersSeeWholeState
<1>1. IInv => ReadersSeeWholeState
  <2> SUFFICES ASSUME IInv, mutex = None PROVE ReadersSeeWholeState
    BY DEF ReadersSeeWholeState
  <2>1. \A h \in Hosts : pc[h] \in Teardown => pc[h] = "waiting"
    BY ConstantsAssumption DEF IInv, MutexInv, Inside, HostPC, Teardown
  <2>2. (configured <=> logger # None) /\ (configured => heap[logger] = configuration)
    BY DEF IInv, OwnedInv
  <2> QED
    BY <2>1, <2>2 DEF ReadersSeeWholeState, IInv, DefaultsInv
<1> QED
  BY <1>1, IInvCorrect, PTL

\* A host that has seen a count of zero after retiring the pointer works alone.
THEOREM AloneSafe ==
    ASSUME SingleHost PROVE Spec => []HostWorksAlone
<1>1. IInv => HostWorksAlone
  BY DEF IInv
<1> QED
  BY <1>1, IInvCorrect, PTL

\* Shutdown frees the logger only when every call that BeginLog let in has ended.
THEOREM ShutdownSafe ==
    ASSUME SingleHost PROVE Spec => ShutdownWaitsForCalls
<1>1. IInv => \A h \in Hosts :
               pc[h] = "reset" /\ job[h].op = "shutdown" /\ logger' # logger => Using = {}
  BY DEF IInv, HostWorksAlone, Exclusive
<1> QED
  BY <1>1, IInvCorrect, PTL DEF Spec, ShutdownWaitsForCalls

\* Only Shutdown takes down a configuration: a second Configure returns false and
\* leaves the first in force.
THEOREM ConfigurationSafe ==
    ASSUME SingleHost PROVE Spec => OnlyShutdownUnconfigures
<1>1. IInv /\ [Next]_vars =>
        (configured /\ ~configured' =>
            \E h \in Hosts : pc[h] = "reset" /\ job[h].op = "shutdown")
  <2> SUFFICES ASSUME IInv, [Next]_vars, configured, ~configured'
               PROVE  \E h \in Hosts : pc[h] = "reset" /\ job[h].op = "shutdown"
    OBVIOUS
  <2> USE DEF loggerFrame, hostFrame, guarded, atomics
  <2>1. PICK h \in Hosts : ResetState(h)
    BY DEF Next, vars, Call, Throw, LoggerStep, CheckLevel, LoadLogger, Enter, Validate,
           Retract, EndLog, Leave, Notify, ReadFormat, Emit, Start, SpuriousWake, HostStep,
           Lock, UnpublishLevel, UnpublishLogger, CheckActive, Sleep, Wake, FlushUnlocked,
           ResetFormat, CreateLogger, CreateFails, PublishFormat, PublishLevel,
           PublishLogger, Unlock
  <2>2. pc[h] = "reset"
    BY <2>1 DEF ResetState, Goto
  <2> QED
    BY <2>2 DEF IInv, JobInv, Teardown
<1> QED
  BY <1>1, IInvCorrect, PTL DEF Spec, OnlyShutdownUnconfigures

\* The lifecycle implements the door, for any number of logging threads and one host
\* thread: no call gets in while it is shut, and the host works only when it is shut
\* and nobody is inside.
LEMMA DoorInit == Init => Door!Init
BY DEF Init, Door!Init, Using, Exclusive

\* A step of a call lets it in, takes it out, or changes neither.
LEMMA LoggerAtDoor ==
    ASSUME IInv, NEW t \in Loggers, Call(t) \/ Throw(t) \/ LoggerStep(t)
    PROVE  [Door!Next]_(Door!avars)
<1> USE DEF IInv, TypeOK, Goto, loggerFrame, guarded, atomics
<1>1. /\ UNCHANGED published_logger
      /\ \A h \in Hosts : pc'[h] = pc[h]
      /\ \A u \in Loggers : u # t => pc'[u] = pc[u]
  BY DEF Call, Throw, LoggerStep, CheckLevel, LoadLogger, Enter, Validate, Retract, Leave,
         Notify, ReadFormat, Emit, EndLog
<1>2. CASE Validate(t) /\ pc'[t] = "format"
  <2>1. published_logger # None
    BY <1>2 DEF Validate, CallInv
  <2>2. t \notin Using /\ Using' = Using \cup {t}
    BY <1>1, <1>2 DEF Validate, Using
  <2>3. Door!Admit(t)
    BY <1>1, <2>1, <2>2 DEF Door!Admit
  <2> QED
    BY <2>3 DEF Door!Next
<1>3. CASE Throw(t) \/ EndLog(t)
  <2>1. t \in Using /\ Using' = Using \ {t}
    BY <1>1, <1>3 DEF Throw, EndLog, Leave, Using
  <2>2. Door!Leave(t)
    BY <1>1, <2>1 DEF Door!Leave
  <2> QED
    BY <2>2 DEF Door!Next
<1>4. CASE \/ Call(t) \/ CheckLevel(t) \/ LoadLogger(t) \/ Enter(t) \/ Retract(t) \/ Notify(t)
           \/ ReadFormat(t) \/ Emit(t) \/ (Validate(t) /\ pc'[t] # "format")
  <2>1. Using' = Using
    BY <1>1, <1>4 DEF Call, CheckLevel, LoadLogger, Enter, Validate, Retract, Leave, Notify,
           ReadFormat, Emit, Using
  <2> QED
    BY <1>1, <2>1 DEF Door!avars
<1> QED
  BY <1>2, <1>3, <1>4 DEF LoggerStep

\* A step of the host shuts the door, begins or ends its work, or changes neither.
LEMMA HostAtDoor ==
    ASSUME SingleHost, IInv, NEW h \in Hosts, Start(h) \/ SpuriousWake(h) \/ HostStep(h)
    PROVE  [Door!Next]_(Door!avars)
<1> DEFINE Working == \E g \in Hosts : pc[g] \in Exclusive
<1>1. /\ \A g \in Hosts : g = h
      /\ Working <=> pc[h] \in Exclusive
      /\ Working' <=> pc'[h] \in Exclusive
  BY DEF SingleHost
<1>2. UNCHANGED hostFrame /\ Using' = Using
  BY HostFrame DEF IInv
<1> USE DEF IInv, TypeOK, Goto, hostFrame, guarded, atomics, Exclusive
<1>3. CASE UnpublishLogger(h)
  <2>1. ~Working /\ ~Working' /\ published_logger' = None
    BY <1>1, <1>3 DEF UnpublishLogger
  <2>2. Door!Shut \/ UNCHANGED Door!avars
    BY <1>2, <2>1 DEF Door!Shut, Door!avars
  <2> QED
    BY <2>2 DEF Door!Next
<1>4. CASE CheckActive(h) /\ pc'[h] = "flush"
  <2>1. Using = {} /\ published_logger = None
    BY <1>4, ZeroMeansAlone DEF CheckActive, PublishedInv, Retired
  <2>2. ~Working /\ Working' /\ UNCHANGED published_logger
    BY <1>1, <1>4 DEF CheckActive
  <2>3. Door!StartWork
    BY <1>2, <2>1, <2>2 DEF Door!StartWork
  <2> QED
    BY <2>3 DEF Door!Next
<1>5. CASE \/ CreateFails(h) \/ PublishLogger(h) \/ (ResetFormat(h) /\ pc'[h] = "unlock")
  <2>1. Working /\ ~Working'
    BY <1>1, <1>5 DEF CreateFails, PublishLogger, ResetFormat
  <2>2. Door!FinishWork
    BY <1>2, <2>1 DEF Door!FinishWork
  <2> QED
    BY <2>2 DEF Door!Next
<1>6. CASE \/ FlushUnlocked(h) \/ ResetState(h) \/ (ResetFormat(h) /\ pc'[h] # "unlock")
           \/ CreateLogger(h) \/ PublishFormat(h) \/ PublishLevel(h)
  <2>1. Working /\ Working' /\ UNCHANGED published_logger
    BY <1>1, <1>6 DEF FlushUnlocked, ResetState, ResetFormat, CreateLogger, PublishFormat,
           PublishLevel
  <2> QED
    BY <1>2, <2>1 DEF Door!avars
<1>7. CASE \/ Start(h) \/ SpuriousWake(h) \/ Lock(h) \/ UnpublishLevel(h) \/ Sleep(h) \/ Wake(h)
           \/ Unlock(h) \/ (CheckActive(h) /\ pc'[h] # "flush")
  <2>1. /\ pc[h] \in Exclusive <=> pc'[h] \in Exclusive
        /\ UNCHANGED published_logger
    <3>1. CASE Start(h)
      BY <3>1 DEF Start
    <3>2. CASE Lock(h)
      BY <3>2 DEF Lock
    <3>3. CASE \/ SpuriousWake(h) \/ UnpublishLevel(h) \/ Sleep(h) \/ Wake(h) \/ Unlock(h)
               \/ (CheckActive(h) /\ pc'[h] # "flush")
      BY <3>3 DEF SpuriousWake, UnpublishLevel, Sleep, Wake, Unlock, CheckActive
    <3> QED
      BY <1>7, <3>1, <3>2, <3>3
  <2> QED
    BY <1>1, <1>2, <2>1 DEF Door!avars
<1> QED
  BY <1>3, <1>4, <1>5, <1>6, <1>7 DEF HostStep

\* With one host, the atomics, the count and the wait of LoggerLifecycle amount to the
\* door of Admission: nobody is inside while the host works on the logger, and nobody
\* gets in before it is done.
THEOREM AdmissionImplemented ==
    ASSUME SingleHost PROVE Spec => ImplementsAdmission
<1>1. IInv /\ [Next]_vars => [Door!Next]_(Door!avars)
  <2> SUFFICES ASSUME IInv, [Next]_vars PROVE [Door!Next]_(Door!avars)
    OBVIOUS
  <2>1. CASE UNCHANGED vars
    BY <2>1 DEF vars, atomics, Door!avars, Using
  <2> QED
    BY <2>1, LoggerAtDoor, HostAtDoor DEF Next
<1> QED
  BY <1>1, DoorInit, IInvCorrect, PTL DEF Spec, ImplementsAdmission, Door!Spec

\* If no log call leaves by an exception, a host goes to sleep only for a call that is
\* still in flight, for any number of logging threads and hosts.
THEOREM WaitSafe ==
    ASSUME MaxLeaks = 0 PROVE Spec => WaitsOnlyForCallsInFlight
<1>1. TypeAndCount /\ [Next]_vars =>
        \A h \in Hosts : pc[h] = "check_active" /\ pc'[h] = "sleep" => Counted # {}
  <2> SUFFICES ASSUME TypeAndCount, [Next]_vars, NEW h \in Hosts,
                      pc[h] = "check_active", pc'[h] = "sleep", Counted = {}
               PROVE  FALSE
    OBVIOUS
  <2>1. active_log_calls = 0
    BY FS_EmptySet DEF TypeAndCount, TypeOK, CountIsExact
  <2> USE DEF TypeAndCount, TypeOK, Goto
  <2>2. ~ UNCHANGED vars
    BY DEF vars
  <2>3. ASSUME NEW t \in Loggers, Call(t) \/ Throw(t) \/ LoggerStep(t) PROVE FALSE
    BY <2>3 DEF Call, Throw, LoggerStep, CheckLevel, LoadLogger, Enter, Validate, Leave,
           Retract, Notify, ReadFormat, Emit, EndLog
  <2>4. ASSUME NEW g \in Hosts, Start(g) \/ SpuriousWake(g) \/ HostStep(g) PROVE FALSE
    <3>1. g = h
      BY <2>4, HostFrame
    <3>2. CheckActive(h)
      BY <2>4, <3>1 DEF Start, SpuriousWake, HostStep, Lock, UnpublishLevel, UnpublishLogger,
           Sleep, Wake, FlushUnlocked, ResetState, ResetFormat, CreateLogger,
           CreateFails, PublishFormat, PublishLevel, PublishLogger, Unlock
    <3> QED
      BY <2>1, <3>2 DEF CheckActive
  <2> QED
    BY <2>2, <2>3, <2>4 DEF Next
<1> QED
  BY <1>1, TypeAndCountInductive, PTL DEF Spec, WaitsOnlyForCallsInFlight

=============================================================================
