-------------------------- MODULE LoggerLifecycle --------------------------
(***************************************************************************)
(* The life of the process-wide logger of src/logger.cpp: how Configure,   *)
(* Flush and Shutdown create, publish, retire and destroy the spdlog       *)
(* logger while other threads are inside Log().                            *)
(*                                                                         *)
(* Host threads run the lifecycle operations under State::mutex.  Logging  *)
(* threads never take that mutex: BeginLog reads the published atomics,    *)
(* counts itself in active_log_calls, and reads the published pointer a    *)
(* second time; EndLog takes the call out of the count again and notifies  *)
(* the condition variable on which a host waits for the count to be zero.  *)
(*                                                                         *)
(* One action is one access to an atomic, or one critical section's access *)
(* to the data the mutex protects.  Memory is sequentially consistent.     *)
(***************************************************************************)
EXTENDS Naturals, FiniteSets

CONSTANTS
    Loggers,    \* threads that write log records
    Hosts,      \* threads that call Configure, Flush and Shutdown
    Addrs,      \* addresses at which a spdlog::logger may be allocated
    CallLevels, \* levels at which records are written
    Requests,   \* configurations that Configure is called with
    MaxLeaks,   \* bound: log calls that leave by an exception
    None        \* the null pointer; also "no thread" as a mutex owner

kOff == 6
Level == 0 .. kOff                     \* kTrace = 0, ..., kCritical = 5
OutputFormat == {"text", "json"}

(***************************************************************************)
(* What the lifecycle sees of a Configuration: the effective level that    *)
(* ComputeEffectiveLevel derives from the enabled sinks, the output        *)
(* format, and whether ValidateConfiguration accepts it.                   *)
(***************************************************************************)
Configuration == [level : Level, format : OutputFormat, valid : BOOLEAN]
DefaultConfiguration == [level |-> 2, format |-> "text", valid |-> TRUE]

ASSUME ConstantsAssumption ==
    /\ IsFiniteSet(Loggers)
    /\ Loggers \cap Hosts = {}
    /\ None \notin Addrs \cup Hosts
    /\ None \notin Configuration
    /\ CallLevels \subseteq Level \ {kOff}
    /\ Requests \subseteq Configuration
    /\ MaxLeaks \in Nat

VARIABLES
    mutex,                   \* owner of State::mutex
    waiters,                 \* hosts blocked on State::no_active_logs
    configured,              \* State::configured
    configuration,           \* State::configuration
    logger,                  \* State::logger, the only owning pointer
    heap,                    \* the logger object at an address, or None when freed
    published_logger,
    published_level,
    published_output_format,
    active_log_calls,
    pc,                      \* where each thread is
    call,                    \* a logging thread's level and LogSite
    job,                     \* a host's operation and its arguments
    leaked                   \* history: calls that left by an exception

atomics == <<published_logger, published_level, published_output_format>>
guarded == <<configured, configuration, logger, heap>>
vars == <<mutex, waiters, guarded, atomics, active_log_calls, pc, call, job, leaked>>

LoggerPC == {"idle", "level", "load", "add", "validate", "retract", "renotify",
             "format", "emit", "end", "notify"}
HostPC == {"idle", "lock", "unpublish_level", "unpublish_logger", "check_active",
           "sleep", "waiting", "flush", "reset", "reset_format", "create",
           "publish_format", "publish_level", "publish_logger", "unlock"}
Ops == {"none", "configure", "flush", "shutdown"}

LogCall == [level : Level, logger : Addrs \cup {None},
            format : OutputFormat, emitted : BOOLEAN]
Job == [op : Ops, config : Configuration, failed : BOOLEAN]
NoCall == [level |-> 0, logger |-> None, format |-> "text", emitted |-> FALSE]
NoJob == [op |-> "none", config |-> DefaultConfiguration, failed |-> FALSE]

TypeOK ==
    /\ mutex \in Hosts \cup {None}
    /\ waiters \subseteq Hosts
    /\ configured \in BOOLEAN
    /\ configuration \in Configuration
    /\ logger \in Addrs \cup {None}
    /\ heap \in [Addrs -> Configuration \cup {None}]
    /\ published_logger \in Addrs \cup {None}
    /\ published_level \in Level
    /\ published_output_format \in OutputFormat
    /\ active_log_calls \in Nat
    /\ pc \in [Loggers \cup Hosts -> LoggerPC \cup HostPC]
    /\ \A t \in Loggers : pc[t] \in LoggerPC
    /\ \A h \in Hosts : pc[h] \in HostPC
    /\ call \in [Loggers -> LogCall]
    /\ job \in [Hosts -> Job]
    /\ leaked \in 0 .. MaxLeaks

Init ==
    /\ mutex = None
    /\ waiters = {}
    /\ configured = FALSE
    /\ configuration = DefaultConfiguration
    /\ logger = None
    /\ heap = [a \in Addrs |-> None]
    /\ published_logger = None
    /\ published_level = kOff
    /\ published_output_format = "text"
    /\ active_log_calls = 0
    /\ pc = [t \in Loggers \cup Hosts |-> "idle"]
    /\ call = [t \in Loggers |-> NoCall]
    /\ job = [h \in Hosts |-> NoJob]
    /\ leaked = 0

Goto(t, from, to) == pc[t] = from /\ pc' = [pc EXCEPT ![t] = to]

IsLevelEnabled(requested, effective) == effective # kOff /\ requested >= effective

-----------------------------------------------------------------------------
(* Logging threads: BeginLog, LogMessage, EndLog.                          *)

loggerFrame == <<mutex, guarded, atomics, job>>

Call(t) ==
    \E l \in CallLevels :
        /\ Goto(t, "idle", "level")
        /\ call' = [call EXCEPT ![t].level = l]
        /\ UNCHANGED <<loggerFrame, waiters, active_log_calls, leaked>>

\* BeginLog: the level filter, the first read of shared state.
CheckLevel(t) ==
    /\ \/ /\ IsLevelEnabled(call[t].level, published_level)
          /\ Goto(t, "level", "load")
          /\ UNCHANGED call
       \/ /\ ~IsLevelEnabled(call[t].level, published_level)
          /\ Goto(t, "level", "idle")
          /\ call' = [call EXCEPT ![t] = NoCall]
    /\ UNCHANGED <<loggerFrame, waiters, active_log_calls, leaked>>

\* Mutant: an empty pointer makes the call try again instead of returning.
LoadLogger_TriesAgain(t) ==
    /\ published_logger # None
    /\ Goto(t, "load", "add")
    /\ call' = [call EXCEPT ![t].logger = published_logger]
    /\ UNCHANGED <<loggerFrame, waiters, active_log_calls, leaked>>

LoadLogger(t) ==
    /\ \/ /\ published_logger # None
          /\ Goto(t, "load", "add")
          /\ call' = [call EXCEPT ![t].logger = published_logger]
       \/ /\ published_logger = None
          /\ Goto(t, "load", "idle")
          /\ call' = [call EXCEPT ![t] = NoCall]
    /\ UNCHANGED <<loggerFrame, waiters, active_log_calls, leaked>>

\* Mutant: fetch_add is missing.
Enter_NotCounted(t) ==
    /\ Goto(t, "add", "validate")
    /\ UNCHANGED <<loggerFrame, waiters, active_log_calls, call, leaked>>

Enter(t) ==
    /\ Goto(t, "add", "validate")
    /\ active_log_calls' = active_log_calls + 1
    /\ UNCHANGED <<loggerFrame, waiters, call, leaked>>

\* Mutant: no second look at published_logger.
Validate_NoSecondLook(t) ==
    /\ Goto(t, "validate", "format")
    /\ UNCHANGED <<loggerFrame, waiters, active_log_calls, call, leaked>>

Validate(t) ==
    /\ \/ call[t].logger = published_logger /\ Goto(t, "validate", "format")
       \/ call[t].logger # published_logger /\ Goto(t, "validate", "retract")
    /\ UNCHANGED <<loggerFrame, waiters, active_log_calls, call, leaked>>

\* fetch_sub(1), and whether it saw 1 and must notify.
Leave(t, from, notify, next) ==
    /\ Goto(t, from, IF active_log_calls = 1 THEN notify ELSE next)
    /\ active_log_calls' = active_log_calls - 1
    /\ UNCHANGED <<loggerFrame, waiters, leaked>>

\* Mutant: the retry forgets fetch_sub.
Retract_StillCounted(t) ==
    /\ Goto(t, "retract", "load")
    /\ UNCHANGED <<loggerFrame, waiters, active_log_calls, call, leaked>>

Retract(t) == Leave(t, "retract", "renotify", "load") /\ UNCHANGED call

Notify(t) ==
    /\ Goto(t, "renotify", "load") \/ Goto(t, "notify", "idle")
    /\ waiters' = {}
    /\ UNCHANGED <<loggerFrame, active_log_calls, call, leaked>>

ReadFormat(t) ==
    /\ Goto(t, "format", "emit")
    /\ call' = [call EXCEPT ![t].format = published_output_format]
    /\ UNCHANGED <<loggerFrame, waiters, active_log_calls, leaked>>

\* LogMessage down to spdlog's logger::log, which filters by the logger's own level.
Emit(t) ==
    LET object == heap[call[t].logger] IN
    /\ Goto(t, "emit", "end")
    /\ call' = [call EXCEPT ![t].emitted = object # None /\ call[t].level >= object.level]
    /\ UNCHANGED <<loggerFrame, waiters, active_log_calls, leaked>>

\* Formatting the record throws (fmt, json dump): no EndLog runs on the way out.
Throw(t) ==
    /\ leaked < MaxLeaks
    /\ Goto(t, "emit", "idle")
    /\ call' = [call EXCEPT ![t] = NoCall]
    /\ leaked' = leaked + 1
    /\ UNCHANGED <<loggerFrame, waiters, active_log_calls>>

\* Mutant: the last call does not notify.
EndLog_Silent(t) ==
    /\ Leave(t, "end", "idle", "idle")
    /\ call' = [call EXCEPT ![t] = NoCall]

EndLog(t) ==
    /\ Leave(t, "end", "notify", "idle")
    /\ call' = [call EXCEPT ![t] = NoCall]

LoggerStep(t) ==
    \/ CheckLevel(t) \/ LoadLogger(t) \/ Enter(t) \/ Validate(t) \/ Retract(t)
    \/ Notify(t) \/ ReadFormat(t) \/ Emit(t) \/ EndLog(t)

-----------------------------------------------------------------------------
(* Host threads: Configure, Flush, Shutdown.                               *)

hostFrame == <<call, active_log_calls, leaked>>

Start(h) ==
    \E op \in Ops \ {"none"}, c \in Requests :
        /\ Goto(h, "idle", "lock")
        /\ job' = [job EXCEPT ![h] = [NoJob EXCEPT !.op = op,
                       !.config = IF op = "configure" THEN c ELSE @]]
        /\ UNCHANGED <<hostFrame, mutex, waiters, guarded, atomics>>

\* Take the mutex and decide, from the data it guards, whether there is work to do.
\* Mutant: Configure does not look at State::configured.
HasWork_Reconfigures(h) ==
    CASE job[h].op = "configure" -> job[h].config.valid
      [] job[h].op = "flush"     -> logger # None
      [] OTHER                   -> TRUE

HasWork(h) ==
    CASE job[h].op = "configure" -> ~configured /\ job[h].config.valid
      [] job[h].op = "flush"     -> logger # None
      [] OTHER                   -> TRUE

Lock(h) ==
    /\ mutex = None
    /\ mutex' = h
    /\ Goto(h, "lock", IF HasWork(h) THEN "unpublish_level" ELSE "unlock")
    /\ UNCHANGED <<hostFrame, waiters, guarded, atomics, job>>

UnpublishLevel(h) ==
    /\ Goto(h, "unpublish_level", "unpublish_logger")
    /\ published_level' = kOff
    /\ UNCHANGED <<hostFrame, mutex, waiters, guarded, job, published_logger, published_output_format>>

\* Mutant: the pointer stays published.
UnpublishLogger_Forgotten(h) ==
    /\ Goto(h, "unpublish_logger", "check_active")
    /\ UNCHANGED <<hostFrame, mutex, waiters, guarded, job, atomics>>

UnpublishLogger(h) ==
    /\ Goto(h, "unpublish_logger", "check_active")
    /\ published_logger' = None
    /\ UNCHANGED <<hostFrame, mutex, waiters, guarded, job, published_level, published_output_format>>

\* condition_variable::wait evaluates its predicate with the mutex held ...
\* Mutant: off by one.
CheckActive_IgnoresOne(h) ==
    /\ Goto(h, "check_active", IF active_log_calls <= 1 THEN "flush" ELSE "sleep")
    /\ UNCHANGED <<hostFrame, mutex, waiters, guarded, atomics, job>>

CheckActive(h) ==
    /\ Goto(h, "check_active", IF active_log_calls = 0 THEN "flush" ELSE "sleep")
    /\ UNCHANGED <<hostFrame, mutex, waiters, guarded, atomics, job>>

\* ... and blocks in a later step, which releases the mutex and joins the wait set.
Sleep(h) ==
    /\ Goto(h, "sleep", "waiting")
    /\ mutex' = None
    /\ waiters' = waiters \cup {h}
    /\ UNCHANGED <<hostFrame, guarded, atomics, job>>

Wake(h) ==
    /\ h \notin waiters
    /\ mutex = None
    /\ Goto(h, "waiting", "check_active")
    /\ mutex' = h
    /\ UNCHANGED <<hostFrame, waiters, guarded, atomics, job>>

SpuriousWake(h) ==
    /\ h \in waiters
    /\ waiters' = waiters \ {h}
    /\ UNCHANGED <<hostFrame, mutex, guarded, atomics, pc, job>>

\* FlushUnlocked on the retired logger; AsyncDelivery has its steps.
FlushUnlocked(h) ==
    /\ Goto(h, "flush", IF job[h].op = "flush" THEN "publish_format" ELSE "reset")
    /\ UNCHANGED <<hostFrame, mutex, waiters, guarded, atomics, job>>

\* Mutant: configuration = Configuration{} is missing.
ResetState_KeepsConfiguration(h) ==
    /\ Goto(h, "reset", "reset_format")
    /\ logger' = None
    /\ heap' = [a \in Addrs |-> IF a = logger THEN None ELSE heap[a]]
    /\ configured' = FALSE
    /\ UNCHANGED <<hostFrame, mutex, waiters, atomics, job, configuration>>

ResetState(h) ==
    /\ Goto(h, "reset", "reset_format")
    /\ logger' = None
    /\ heap' = [a \in Addrs |-> IF a = logger THEN None ELSE heap[a]]
    /\ configured' = FALSE
    /\ configuration' = DefaultConfiguration
    /\ UNCHANGED <<hostFrame, mutex, waiters, atomics, job>>

\* Mutant: the published format survives the reset.
ResetFormat_Forgotten(h) ==
    /\ Goto(h, "reset_format",
            IF job[h].op = "configure" /\ ~job[h].failed THEN "create" ELSE "unlock")
    /\ UNCHANGED <<hostFrame, mutex, waiters, guarded, job, atomics>>

ResetFormat(h) ==
    /\ Goto(h, "reset_format",
            IF job[h].op = "configure" /\ ~job[h].failed THEN "create" ELSE "unlock")
    /\ published_output_format' = "text"
    /\ UNCHANGED <<hostFrame, mutex, waiters, guarded, job, published_logger, published_level>>

\* Mutant: set_level is missing, so the new logger has spdlog's default.
CreateLogger_DefaultLevel(h) ==
    \E a \in Addrs :
        /\ heap[a] = None
        /\ Goto(h, "create", "publish_format")
        /\ heap' = [heap EXCEPT ![a] = [job[h].config EXCEPT !.level = 2]]
        /\ logger' = a
        /\ configuration' = job[h].config
        /\ configured' = TRUE
        /\ UNCHANGED <<hostFrame, mutex, waiters, atomics, job>>

CreateLogger(h) ==
    \E a \in Addrs :
        /\ heap[a] = None
        /\ Goto(h, "create", "publish_format")
        /\ heap' = [heap EXCEPT ![a] = job[h].config]
        /\ logger' = a
        /\ configuration' = job[h].config
        /\ configured' = TRUE
        /\ UNCHANGED <<hostFrame, mutex, waiters, atomics, job>>

\* A directory, sink, thread pool or formatter cannot be made: the handler resets again.
CreateFails(h) ==
    /\ Goto(h, "create", "unpublish_level")
    /\ configuration' \in {configuration, job[h].config}
    /\ job' = [job EXCEPT ![h].failed = TRUE]
    /\ UNCHANGED <<hostFrame, mutex, waiters, atomics, configured, logger, heap>>

\* Mutant: the format is not published with the logger.
PublishFormat_Forgotten(h) ==
    /\ Goto(h, "publish_format", "publish_level")
    /\ UNCHANGED <<hostFrame, mutex, waiters, guarded, job, atomics>>

PublishFormat(h) ==
    /\ Goto(h, "publish_format", "publish_level")
    /\ published_output_format' = configuration.format
    /\ UNCHANGED <<hostFrame, mutex, waiters, guarded, job, published_logger, published_level>>

\* Mutant: the level of the argument is published, also by Flush, which has none.
PublishLevel_OfArgument(h) ==
    /\ Goto(h, "publish_level", "publish_logger")
    /\ published_level' = job[h].config.level
    /\ UNCHANGED <<hostFrame, mutex, waiters, guarded, job, published_logger, published_output_format>>

PublishLevel(h) ==
    /\ Goto(h, "publish_level", "publish_logger")
    /\ published_level' = configuration.level
    /\ UNCHANGED <<hostFrame, mutex, waiters, guarded, job, published_logger, published_output_format>>

PublishLogger(h) ==
    /\ Goto(h, "publish_logger", "unlock")
    /\ published_logger' = logger
    /\ UNCHANGED <<hostFrame, mutex, waiters, guarded, job, published_level, published_output_format>>

Unlock(h) ==
    /\ Goto(h, "unlock", "idle")
    /\ mutex' = None
    /\ job' = [job EXCEPT ![h] = NoJob]
    /\ UNCHANGED <<hostFrame, waiters, guarded, atomics>>

HostStep(h) ==
    \/ Lock(h) \/ UnpublishLevel(h) \/ UnpublishLogger(h) \/ CheckActive(h)
    \/ Sleep(h) \/ Wake(h) \/ FlushUnlocked(h) \/ ResetState(h) \/ ResetFormat(h)
    \/ CreateLogger(h) \/ CreateFails(h)
    \/ PublishFormat(h) \/ PublishLevel(h) \/ PublishLogger(h) \/ Unlock(h)

Next ==
    \/ \E t \in Loggers : Call(t) \/ Throw(t) \/ LoggerStep(t)
    \/ \E h \in Hosts : Start(h) \/ SpuriousWake(h) \/ HostStep(h)

Spec == Init /\ [][Next]_vars

-----------------------------------------------------------------------------
(* Fairness: the scheduler runs every thread that can run.  It makes no     *)
(* thread log, call a lifecycle operation or throw, and it produces no      *)
(* spurious wake-up.  Lock and Wake contend for the mutex, so they need     *)
(* strong fairness when several hosts run.                                  *)

Fairness ==
    /\ \A t \in Loggers : WF_vars(LoggerStep(t))
    /\ \A h \in Hosts : /\ WF_vars(HostStep(h))
                        /\ SF_vars(Lock(h))
                        /\ SF_vars(Wake(h))

FairSpec == Spec /\ Fairness

-----------------------------------------------------------------------------
(* Properties.                                                             *)

\* Calls counted in active_log_calls; calls that have passed BeginLog.
Counted == {t \in Loggers : pc[t] \in {"validate", "retract", "format", "emit", "end"}}
Using == {t \in Loggers : pc[t] \in {"format", "emit", "end"}}

\* The count that hosts wait on is exactly the number of calls between the
\* two atomic operations that bracket them, plus those an exception took out.
CountIsExact == active_log_calls = Cardinality(Counted) + leaked

\* A log call that BeginLog let in works on the logger the library still owns,
\* whatever host operation runs meanwhile: the object is never freed under it.
LoggerAliveWhileInUse ==
    \A t \in Using : /\ call[t].logger = logger
                     /\ heap[call[t].logger] # None

\* A record is rendered in the output format of the logger that writes it.
\* published_output_format is read on its own, so a record could pair the
\* format of one configuration with the sinks of another.
FormatMatchesLogger ==
    \A t \in Using :
        pc[t] # "format" /\ heap[call[t].logger] # None
            => call[t].format = heap[call[t].logger].format

\* What reaches the sinks is at or above the effective level of the configuration
\* in force, although BeginLog compared with published_level before it knew which
\* logger it would get.
EmitsOnlyEnabledLevels ==
    \A t \in Using : call[t].emitted => IsLevelEnabled(call[t].level, configuration.level)

\* Other threads never see a pointer to a logger that has been destroyed.
PublishedNeverDangles ==
    published_logger # None => heap[published_logger] # None

\* A host that has seen the count at zero works on the logger alone until it
\* publishes again: no log call overlaps the flush, the reset or the creation.
Exclusive == {"flush", "reset", "reset_format", "create", "publish_format",
              "publish_level", "publish_logger"}
HostWorksAlone == (\E h \in Hosts : pc[h] \in Exclusive) => Using = {}

\* Between operations the atomics agree with the state the mutex guards: after
\* a successful Configure or a Flush logging is on with this configuration, after
\* Shutdown or a failed Configure it is off.
PublicationMatchesState ==
    (\A h \in Hosts : pc[h] \in {"idle", "lock"}) =>
        /\ configured <=> logger # None
        /\ published_logger = logger
        /\ published_level = IF configured THEN configuration.level ELSE kOff
        /\ published_output_format = configuration.format

\* IsConfigured and CurrentConfiguration may run whenever the mutex is free, also in
\* the middle of an operation that waits: they then find the logger of the
\* configuration they report, and the defaults when there is none, except while the
\* handler of a failed Configure waits to reset.
ReadersSeeWholeState ==
    mutex = None =>
        /\ configured <=> logger # None
        /\ configured => heap[logger] = configuration
        /\ ~configured /\ configuration # DefaultConfiguration =>
            \E h \in Hosts : pc[h] = "waiting" /\ job[h].failed

\* Once a Configure call has succeeded every other one fails and leaves its
\* configuration alone: only Shutdown takes it down (README.md, usage conventions).
\* That holds for one host.  Configure looks at configured before it waits and not
\* after, so with a second host in the wait it is not so.
OnlyShutdownUnconfigures ==
    [][configured /\ ~configured' =>
        \E h \in Hosts : pc[h] = "reset" /\ job[h].op = "shutdown"]_vars

\* The published pointer is a door: nobody gets in while it is shut, and the host
\* flushes, frees and replaces the logger only while it is shut and nobody is inside.
\* A call leaves by EndLog or by an exception.
Door == INSTANCE Admission WITH
    Calls <- Loggers,
    open <- published_logger # None,
    inside <- Using,
    working <- \E h \in Hosts : pc[h] \in Exclusive
ImplementsAdmission == Door!Spec

\* A host goes to sleep only because of a log call that is still in flight.
WaitsOnlyForCallsInFlight ==
    [][\A h \in Hosts : pc[h] = "check_active" /\ pc'[h] = "sleep" => Counted # {}]_vars

\* Shutdown destroys the logger only when every log call that BeginLog let in has
\* ended (include/platform_logging/logger.h).
ShutdownWaitsForCalls ==
    [][\A h \in Hosts : pc[h] = "reset" /\ job[h].op = "shutdown" /\ logger' # logger
        => Using = {}]_vars

\* A record at an enabled level, written while logging is configured and some
\* host flushes, is not thrown away.
FlushKeepsRecords ==
    [][\A t \in Loggers, h \in Hosts :
        /\ pc[t] \in {"level", "load"} /\ pc'[t] = "idle"
        /\ job[h].op = "flush" /\ configured
        => ~IsLevelEnabled(call[t].level, configuration.level)]_vars

\* BeginLog retries while the published pointer changes under it, so a call could
\* spin.  If from some time on no host is on its way to change the pointer (it is
\* idle, or blocked in a wait), every log call returns.
HostsAtRest == \A h \in Hosts : pc[h] \in {"idle", "waiting"}
LogCallsReturn == <>[]HostsAtRest => \A t \in Loggers : []<>(pc[t] = "idle")

\* Shutdown returns once the log calls it waits for have finished.
ShutdownReturns ==
    \A h \in Hosts : job[h].op = "shutdown" ~> job[h].op = "none"

\* The only ways for an operation to hang are a log call that an exception has left
\* counted and the window between the predicate and the wait set: unless a call leaks,
\* or the count drops to zero after a host has read it and before the host has joined
\* the wait set, every operation returns.
MissesNotify(h) == pc[h] = "sleep" /\ active_log_calls = 0
OperationReturnsOrMissesNotify ==
    \A h \in Hosts : pc[h] = "lock" ~> pc[h] = "idle" \/ MissesNotify(h) \/ leaked # 0

-----------------------------------------------------------------------------
(* The inductive invariant behind the safety properties, for a process in  *)
(* which one host thread runs all lifecycle operations.                    *)

SingleHost == \A g, h \in Hosts : g = h

\* The mutex is owned exactly by the host inside a critical section.
Inside == HostPC \ {"idle", "lock", "waiting"}
MutexInv == \A h \in Hosts : mutex = h <=> pc[h] \in Inside

\* A logger is torn down by Shutdown, or by a Configure that has none to tear down.
Teardown == {"unpublish_level", "unpublish_logger", "check_active", "sleep", "waiting",
             "flush", "reset"}
JobInv ==
    \A h \in Hosts :
        /\ pc[h] = "lock" => job[h].op # "none"
        /\ pc[h] \in {"reset", "reset_format", "create"} => job[h].op # "flush"
        /\ pc[h] \in Teardown /\ configured => job[h].op \in {"flush", "shutdown"}

\* The owned logger is the live object built from the current configuration.
OwnedInv ==
    /\ configured <=> logger # None
    /\ logger # None => heap[logger] = configuration
    /\ \A h \in Hosts :
        /\ pc[h] \in {"reset_format", "create"} => logger = None
        /\ pc[h] = "reset_format" => configuration = DefaultConfiguration
        /\ pc[h] \in {"publish_format", "publish_level", "publish_logger"} => logger # None
        /\ pc[h] \in Inside \cup {"waiting"} /\ pc[h] # "unlock" /\ job[h].op = "flush"
            => logger # None

\* From UnpublishLogger to PublishLogger nothing is published.
Retired == Exclusive \cup {"check_active", "sleep", "waiting"}
PublishedInv ==
    /\ published_logger \in {None, logger}
    /\ \A h \in Hosts :
        /\ pc[h] \in Retired => published_logger = None
        /\ pc[h] \in (Retired \cup {"unpublish_logger"}) \ {"publish_logger"}
            => published_level = kOff
        /\ pc[h] = "publish_logger" => published_level = configuration.level

\* The published format is the owned logger's, from its publication to its reset.
FormatInv ==
    logger # None /\ (\A h \in Hosts : pc[h] # "publish_format")
        => published_output_format = configuration.format

RestInv ==
    (\A h \in Hosts : pc[h] \in {"idle", "lock", "unlock"}) =>
        /\ published_logger = logger
        /\ published_level = IF configured THEN configuration.level ELSE kOff
        /\ published_output_format = configuration.format

CallInv ==
    \A t \in Loggers :
        /\ call[t].level # kOff
        /\ pc[t] \in {"add", "validate"} => call[t].logger # None
        /\ t \in Using => logger # None /\ call[t].logger = logger
        /\ t \in Using /\ pc[t] # "format" => call[t].format = configuration.format
        /\ call[t].emitted =>
            pc[t] = "end" /\ IsLevelEnabled(call[t].level, configuration.level)

\* Without a logger the configuration is the default one, until the handler of a failed
\* Configure has reset what CreateFails left.
DefaultsInv ==
    ~configured /\ configuration # DefaultConfiguration =>
        \E h \in Hosts : pc[h] \in Teardown /\ job[h].failed

IInv ==
    /\ TypeOK /\ CountIsExact /\ MutexInv /\ JobInv /\ OwnedInv
    /\ PublishedInv /\ FormatInv /\ RestInv /\ CallInv /\ HostWorksAlone
    /\ DefaultsInv
=============================================================================
