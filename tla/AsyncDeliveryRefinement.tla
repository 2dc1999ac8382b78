---------------------- MODULE AsyncDeliveryRefinement ----------------------
(***************************************************************************)
(* AsyncDelivery implements Admission and LogService, for any number of    *)
(* writers, workers, sinks, records and slots of the queue.                *)
(***************************************************************************)
EXTENDS AsyncDeliveryProofs

-----------------------------------------------------------------------------
(* Refinement of Admission: the door.                                       *)

\* The steps of writers and workers are the door's, or none of its business.
LEMMA DeliveringAtDoor ==
    ASSUME TypeOK,
           \/ \E w \in Writers : Log(w) \/ Post(w) \/ Leave(w)
           \/ \E k \in Workers : Dequeue(k)
           \/ \E t \in Delivering : Write(t)
           \/ \E t \in Delivering : FlushSink(t),
           HandInv
    PROVE  [Door!Next]_(Door!avars)
<1> USE ThreadKinds
<1>1. ASSUME published' = published, op' = op, pc'[Host] = pc[Host], Inside' = Inside
      PROVE  UNCHANGED Door!avars
  BY <1>1 DEF Door!avars, Working
<1>2. ASSUME NEW w \in Writers, Log(w) PROVE Door!Admit(w)
  <2>1. /\ \A u \in Writers : u # w => pc'[u] = pc[u]
        /\ pc[w] = "idle" /\ pc'[w] # "idle" /\ pc'[Host] = pc[Host]
        /\ published /\ published' = published /\ op' = op
    BY <1>2, LogEffect DEF Steady
  <2>2. w \notin Inside /\ Inside' = Inside \cup {w}
    BY <2>1 DEF Inside
  <2> QED
    BY <2>1, <2>2 DEF Door!Admit, Working
<1>3. ASSUME NEW w \in Writers, Leave(w) PROVE Door!Leave(w)
  <2>1. /\ \A u \in Writers : u # w => pc'[u] = pc[u]
        /\ pc[w] = "leave" /\ pc'[w] = "idle" /\ pc'[Host] = pc[Host]
        /\ published' = published /\ op' = op
    BY <1>3, Moved DEF Leave
  <2>2. w \in Inside /\ Inside' = Inside \ {w}
    BY <2>1 DEF Inside
  <2> QED
    BY <2>1, <2>2 DEF Door!Leave, Working
<1>4. ASSUME NEW w \in Writers, Post(w) PROVE UNCHANGED Door!avars
  <2>1. /\ \A u \in Threads : u # w => pc'[u] = pc[u]
        /\ pc[w] = "post" /\ pc'[w] = "leave"
        /\ published' = published /\ op' = op
    BY <1>4, PostEffect DEF Steady
  <2>2. Inside' = Inside
    BY <2>1 DEF Inside
  <2> QED
    BY <1>1, <2>1, <2>2
<1>5. ASSUME NEW k \in Workers, Dequeue(k) PROVE UNCHANGED Door!avars
  <2>1. /\ \A u \in Threads : u # k => pc'[u] = pc[u]
        /\ published' = published /\ op' = op
    BY <1>5, DequeueEffect DEF Steady
  <2>2. Inside' = Inside
    BY <2>1 DEF Inside
  <2> QED
    BY <1>1, <2>1, <2>2
<1>6. ASSUME NEW t \in Delivering, Write(t) \/ FlushSink(t) PROVE UNCHANGED Door!avars
  <2>1. /\ \A u \in Threads : u # t => pc'[u] = pc[u]
        /\ pc[t] # "idle" /\ pc'[t] \in {"write", "flush", Done(t)}
        /\ published' = published /\ op' = op
    BY <1>6, WriteEffect, FlushEffect DEF Steady
  <2>2. t \in Writers => pc'[t] # "idle"
    BY <2>1, DoneTypes
  <2>3. Inside' = Inside
    BY <2>1, <2>2 DEF Inside
  <2> QED
    BY <1>1, <2>1, <2>3
<1> QED
  BY <1>2, <1>3, <1>4, <1>5, <1>6 DEF Door!Next

\* So are the host's.
LEMMA HostAtDoor ==
    ASSUME TypeOK, PhaseInv, HostAlone \/ FlushSink(Host)
    PROVE  [Door!Next]_(Door!avars)
<1> USE ThreadKinds DEF config
<1>1. published \in BOOLEAN
  BY DEF TypeOK
<1>2. ASSUME \A w \in Writers : pc'[w] = pc[w] PROVE Inside' = Inside
  BY <1>2 DEF Inside
<1>3. ASSUME NEW o \in {"flush", "shutdown", "exit"}, pc[Host] = "idle", configured,
             op' = o, published' = FALSE, Inside' = Inside, o # "exit" => pc'[Host] = "wait"
      PROVE  Door!Shut
  <2>1. published /\ ~Working /\ ~Working'
    BY <1>3 DEF PhaseInv, Working
  <2> QED
    BY <1>3, <2>1 DEF Door!Shut, Working
<1>4. ASSUME NEW o \in {"flush", "shutdown"}, Begin(o) PROVE Door!Shut
  BY <1>2, <1>3, <1>4, Moved DEF Begin
<1>5. ASSUME Exit PROVE Door!Shut
  <2>1. pc[Host] = "idle" /\ configured /\ op' = "exit" /\ published' = FALSE
    BY <1>5, Moved DEF Exit
  <2>2. \A w \in Writers : pc'[w] = pc[w]
    BY <1>5, Moved DEF Exit
  <2> QED
    BY <1>2, <1>3, <2>1, <2>2
<1>6. CASE Configure
  <2>1. /\ \A w \in Writers : pc'[w] = pc[w]
        /\ pc'[Host] = "idle" /\ published' = TRUE /\ op' = op
    BY <1>6 DEF Configure
  <2>2. ~published /\ op = "none" /\ Inside = {}
    BY <1>6 DEF PhaseInv, Configure, Inside
  <2> QED
    BY <1>2, <2>1, <2>2 DEF Door!Next, Door!FinishWork, Working
<1>7. CASE WaitForActiveLogs
  <2>1. /\ \A w \in Writers : pc'[w] = pc[w]
        /\ pc[Host] = "wait" /\ pc'[Host] # "wait"
        /\ published' = published /\ op' = op
        /\ Inside = {}
    BY <1>7, Moved DEF WaitForActiveLogs, Inside
  <2>2. ~published
    BY <2>1 DEF PhaseInv
  <2> QED
    BY <1>2, <2>1, <2>2 DEF Door!Next, Door!StartWork, Door!avars, Working
<1>8. CASE PostFlush \/ Poll \/ FlushSink(Host)
  <2>1. /\ \A w \in Writers : pc'[w] = pc[w]
        /\ pc[Host] # "wait" /\ pc'[Host] # "wait"
        /\ published' = published /\ op' = op
    BY <1>8, Moved, FlushEffect, DoneTypes DEF PostFlush, Poll, Steady
  <2> QED
    BY <1>2, <2>1 DEF Door!avars, Working
<1>9. CASE PostTerminate
  BY <1>2, <1>9 DEF PostTerminate, Door!avars, Working
<1>10. CASE Resume
  <2>1. /\ \A w \in Writers : pc'[w] = pc[w]
        /\ pc[Host] = "resume" /\ published' = TRUE /\ op' = "none"
    BY <1>10, Moved DEF Resume
  <2>2. Working
    BY <2>1 DEF PhaseInv, Working
  <2> QED
    BY <1>2, <2>1, <2>2 DEF Door!Next, Door!FinishWork, Working
<1>11. CASE Release \/ Join
  <2>1. /\ \A w \in Writers : pc'[w] = pc[w]
        /\ pc[Host] \in {"release", "stop"} /\ published' = published
        /\ \/ op' = "none"
           \/ op' = op /\ pc'[Host] = "stop"
    BY <1>11, Moved DEF Release, Join, Closed
  <2>2. op \in {"shutdown", "exit"}
    BY <2>1 DEF PhaseInv, TypeOK, Ops
  <2> QED
    BY <1>1, <1>2, <2>1, <2>2 DEF Door!Next, Door!FinishWork, Door!avars, Working
<1> QED
  BY <1>4, <1>5, <1>6, <1>7, <1>8, <1>9, <1>10, <1>11 DEF HostAlone, Door!Next

\* The one-variable door of this module keeps the promise LoggerLifecycle's atomics keep:
\* the host works on the logger while nobody is inside.
THEOREM AdmissionImplemented == Spec => ImplementsAdmission
<1>1. Init => Door!Init
  <2>1. ASSUME Init PROVE Door!Init
    <3>1. \A w \in Writers : pc[w] = "idle"
      BY <2>1, ThreadKinds DEF Init
    <3>2. Inside = {} /\ ~Working
      BY <2>1, <3>1 DEF Init, Inside, Working
    <3> QED
      BY <2>1, <3>2 DEF Init, Door!Init
  <2> QED
    BY <2>1
<1>2. IInv /\ [Next]_vars => [Door!Next]_(Door!avars)
  <2> SUFFICES ASSUME IInv, [Next]_vars PROVE [Door!Next]_(Door!avars)
    OBVIOUS
  <2>1. CASE UNCHANGED vars
    <3>1. UNCHANGED <<published, op, pc>>
      BY <2>1 DEF vars
    <3> QED
      BY <3>1 DEF Door!avars, Inside, Working
  <2>2. CASE Next
    BY <2>2, Steps, DeliveringAtDoor, HostAtDoor DEF IInv, Threads, Delivering
  <2> QED
    BY <2>1, <2>2
<1> QED
  BY <1>1, <1>2, Invariance, PTL DEF Spec, ImplementsAdmission, Door!Spec

-----------------------------------------------------------------------------
(* Refinement of LogService: the records.                                   *)

\* The pool has a worker.
LEMMA AtLeastOneWorker == Cardinality(Workers) <= 1 => Cardinality(Workers) = 1
BY FS_CardinalityType, FS_EmptySet, DeliveryAssumption

\* A record is on its way to a sink in a hand or in the queue.
OnItsWay(r, s) ==
    \/ \E t \in Delivering : Holds(t) /\ hand[t].record = r /\ ComesTo(t, s)
    \/ \E i \in DOMAIN queue : IsLog(i) /\ queue[i].record = r

\* What is pending at a sink.
LEMMA PendingMeans ==
    TypeOK => /\ Pending = [s \in Sinks |-> Pending[s]]
              /\ \A s \in Sinks : \A r : r \in Pending[s] <=> r \in Accepted /\ OnItsWay(r, s)
<1> SUFFICES ASSUME TypeOK, NEW s \in Sinks, NEW r
             PROVE  r \in Pending[s] <=> r \in Accepted /\ OnItsWay(r, s)
  BY DEF Pending
<1>1. r \in Pending[s] <=> r \in Accepted /\ (Holders(r, s) # {} \/ Queued(r) # {})
  BY DEF Pending
<1>2. CASE r \in Record
  <2>1. /\ \A t : t \in Holders(r, s) <=>
                t \in Delivering /\ Holds(t) /\ hand[t].record = r /\ ComesTo(t, s)
        /\ \A i : i \in Queued(r) <=> i \in DOMAIN queue /\ IsLog(i) /\ queue[i].record = r
    BY <1>2, Places
  <2> QED
    BY <1>1, <2>1 DEF OnItsWay
<1>3. CASE r \notin Record
  BY <1>1, <1>3 DEF Accepted
<1> QED
  BY <1>2, <1>3

\* The same of the next state.
LEMMA PendingMeansNext ==
    (TypeOK => /\ Pending = [s \in Sinks |-> Pending[s]]
               /\ \A s \in Sinks : \A r : r \in Pending[s] <=> r \in Accepted /\ OnItsWay(r, s))'
BY PendingMeans, PTL

\* Pending stays when no record changes its way.
LEMMA SamePending ==
    ASSUME TypeOK, TypeOK', Accepted' = Accepted,
           \A s \in Sinks, r \in Accepted : OnItsWay(r, s)' <=> OnItsWay(r, s)
    PROVE  Pending' = Pending
<1>1. ASSUME NEW s \in Sinks PROVE Pending'[s] = Pending[s]
  <2>1. \A r : r \in Pending'[s] <=> r \in Pending[s]
    BY PendingMeans, PendingMeansNext
  <2> QED
    BY <2>1
<1>2. Pending' = [s \in Sinks |-> Pending'[s]] /\ Pending = [s \in Sinks |-> Pending[s]]
  BY PendingMeans, PendingMeansNext
<1> QED
  BY <1>1, <1>2

\* Log accepts a record and makes it pending at every sink.
LEMMA LogAccepts ==
    ASSUME TypeOK, TypeOK', PhaseInv, HandInv, NEW w \in Writers, Log(w)
    PROVE  \E r \in Record : Service!Accept(r)
<1> USE ThreadKinds
<1> DEFINE r == hand'[w].record
<1>1. /\ \A u \in Delivering : u # w => pc'[u] = pc[u] /\ hand'[u] = hand[u]
      /\ pc[w] = "idle" /\ pc'[w] \in {"post", "write"} /\ Holds(w)'
      /\ published /\ Steady
      /\ UNCHANGED <<at, queue, written, flushed, broken>>
  BY LogEffect DEF Holds
<1>2. r \in Record /\ r \notin Accepted /\ \A q : q \in Accepted' <=> q \in Accepted \/ q = r
  BY NextRecordIsNew
<1>3. ~Holds(w) /\ at[w] = 1 /\ w \in Delivering
  BY <1>1 DEF HandInv
<1>4. \A s \in Sinks : ComesTo(w, s)'
  BY <1>1, <1>3 DEF ComesTo, Sinks
<1>5. \A s \in Sinks : \A q : OnItsWay(q, s)' <=> OnItsWay(q, s) \/ q = r
  BY <1>1, <1>3, <1>4 DEF OnItsWay, Holds, ComesTo, IsLog
<1> HIDE DEF r
<1>6. Accepted' = Accepted \cup {r}
  BY <1>2
<1>7. \A s \in Sinks : Pending'[s] = Pending[s] \cup {r}
  <2>1. \A s \in Sinks : \A q : q \in Pending'[s] <=> q \in Pending[s] \/ q = r
    BY <1>2, <1>5, PendingMeans, PendingMeansNext
  <2> QED
    BY <2>1
<1>8. Pending' = [s \in Sinks |-> Pending'[s]]
  BY PendingMeansNext
<1>9. Pending' = [s \in Sinks |-> Pending[s] \cup {r}]
  BY <1>7, <1>8
<1>10. Status = "on" /\ Status' = Status
  BY <1>1 DEF PhaseInv, Status, Steady
<1>11. Service!Accept(r)
  BY <1>1, <1>2, <1>6, <1>9, <1>10 DEF Service!Accept
<1> QED
  BY <1>2, <1>11

\* With one worker a record is written after those its thread logged before.
LEMMA WriteInOrder ==
    ASSUME IInv, OrderInv, Cardinality(Workers) = 1,
           NEW t \in Delivering, Write(t), NEW q \in Accepted, OnItsWay(q, at[t])
    PROVE  ~Before(q, hand[t].record)
<1>1. TypeOK /\ PhaseInv /\ HandInv /\ PlaceInv
  BY DEF IInv
<1>2. Holds(t) /\ pc[t] = "write" /\ hand[t].record \in Accepted
  BY <1>1, WriteEffect DEF PlaceInv
<1>3. ASSUME NEW u \in Writers, Holds(u), hand[u].record = q PROVE ~Before(q, hand[t].record)
  BY <1>1, <1>2, <1>3, LastRecord
<1>4. t \in Writers => queue = <<>> /\ \A k \in Workers : ~Holds(k)
  <2>1. t \in Writers => ~async
    BY <1>1, <1>2 DEF PhaseInv
  <2> QED
    BY <1>1, <2>1, ThreadKinds DEF PhaseInv, HandInv
<1>5. ASSUME NEW k \in Workers, Holds(k), hand[k].record = q PROVE ~Before(q, hand[t].record)
  <2>1. t = k
    BY <1>4, <1>5, OneWorker DEF Delivering
  <2>2. q.n \in Nat
    BY Records DEF Accepted
  <2> QED
    BY <1>5, <2>1, <2>2 DEF Before
<1>6. ASSUME NEW i \in DOMAIN queue, IsLog(i), queue[i].record = q
      PROVE  ~Before(q, hand[t].record)
  <2>1. t \in Workers
    BY <1>4, <1>6 DEF Delivering
  <2> QED
    BY <1>2, <1>6, <2>1 DEF OrderInv
<1> QED
  BY <1>3, <1>5, <1>6 DEF OnItsWay, Delivering

\* Write takes the record off the sink's pending ones, stored or not.
LEMMA WriteStores ==
    ASSUME IInv, IInv', OneWorkerIInv, NEW t \in Delivering, Write(t)
    PROVE  \E r \in Record, s \in Sinks : Service!Store(s, r)
<1> USE ThreadKinds
<1>1. TypeOK /\ PhaseInv /\ HandInv /\ PlaceInv /\ TypeOK'
  BY DEF IInv
<1>2. PICK s \in Sinks : s = at[t]
  BY <1>1, WriteEffect
<1>3. PICK r \in Record : r = hand[t].record
  BY <1>1, WriteEffect
<1>4. /\ \A u \in Delivering : u # t => /\ pc'[u] = pc[u]
                                        /\ hand'[u] = hand[u] /\ at'[u] = at[u]
      /\ pc[t] = "write" /\ Holds(t)
      /\ at[t] < SinkCount => pc'[t] = "write" /\ hand'[t] = hand[t] /\ at'[t] = at[t] + 1
      /\ ~(at[t] < SinkCount) => at'[t] = 1 /\ pc'[t] # "write" /\ pc'[t] # "post"
      /\ Steady /\ UNCHANGED <<queue, sent, flushed, broken>>
  BY <1>1, WriteEffect, DoneTypes DEF Delivering
<1>5. Accepted' = Accepted /\ r \in Accepted
  BY <1>1, <1>3, <1>4 DEF Accepted, PlaceInv
<1>6. \A z \in Sinks : Holds(t)' /\ ComesTo(t, z)' /\ hand'[t].record = r
                        <=> ComesTo(t, z) /\ z # s
  BY <1>2, <1>3, <1>4, DeliveryAssumption DEF ComesTo, Holds, Sinks
<1>7. \A z \in Sinks : ~(Holds(t)' /\ ComesTo(t, z)' /\ hand'[t].record # r)
  BY <1>2, <1>3, <1>4, DeliveryAssumption DEF ComesTo, Holds, Sinks
<1>8. /\ \A u \in Delivering : u # t /\ Holds(u) => hand[u].record # r
      /\ \A i \in DOMAIN queue : IsLog(i) => queue[i].record # r
  BY <1>1, <1>3, <1>4 DEF PlaceInv
<1>9. \A z \in Sinks : \A q : OnItsWay(q, z)' <=> OnItsWay(q, z) /\ ~(z = s /\ q = r)
  <2>1. SUFFICES ASSUME NEW z \in Sinks, NEW q
                 PROVE  OnItsWay(q, z)' <=> OnItsWay(q, z) /\ ~(z = s /\ q = r)
    OBVIOUS
  <2>2. \A u \in Delivering : u # t => Holds(u)' = Holds(u) /\ ComesTo(u, z)' = ComesTo(u, z)
    BY <1>4 DEF Holds, ComesTo
  <2>3. \A i : IsLog(i)' = IsLog(i)
    BY <1>4 DEF IsLog
  <2>4. CASE q = r
    <3>1. OnItsWay(q, z)' <=> Holds(t)' /\ ComesTo(t, z)' /\ hand'[t].record = r
      BY <1>4, <1>8, <2>2, <2>3, <2>4 DEF OnItsWay
    <3>2. OnItsWay(q, z) <=> ComesTo(t, z)
      BY <1>3, <1>4, <1>8, <2>4 DEF OnItsWay
    <3> QED
      BY <1>6, <2>4, <3>1, <3>2
  <2>5. CASE q # r
    BY <1>3, <1>4, <1>7, <2>2, <2>3, <2>5 DEF OnItsWay
  <2> QED
    BY <2>4, <2>5
<1>10. Pending' = [Pending EXCEPT ![s] = @ \ {r}]
  <2>1. \A z \in Sinks : \A q : q \in Pending'[z] <=> q \in Pending[z] /\ ~(z = s /\ q = r)
    BY <1>1, <1>5, <1>9, PendingMeans, PendingMeansNext
  <2>2. \A z \in Sinks : Pending'[z] = IF z = s THEN Pending[z] \ {r} ELSE Pending[z]
    BY <2>1
  <2>3. Pending' = [z \in Sinks |-> Pending'[z]] /\ Pending = [z \in Sinks |-> Pending[z]]
    BY <1>1, PendingMeans, PendingMeansNext
  <2> QED
    BY <2>2, <2>3
<1>11. r \in Pending[s]
  <2>1. OnItsWay(r, s)
    BY <1>2, <1>3, <1>4 DEF OnItsWay, ComesTo, Sinks
  <2> QED
    BY <1>1, <1>5, <2>1, PendingMeans
<1>12. Cardinality(Workers) <= 1 => \A q \in Pending[s] : ~Service!Earlier(q, r)
  <2>1. SUFFICES ASSUME Cardinality(Workers) <= 1, NEW q \in Pending[s]
                 PROVE  ~Before(q, r)
    BY DEF Service!Earlier, Before
  <2>2. Cardinality(Workers) = 1
    BY <2>1, AtLeastOneWorker
  <2>3. q \in Accepted /\ OnItsWay(q, at[t])
    BY <1>1, <1>2, PendingMeans
  <2> QED
    BY <1>3, <2>2, <2>3, WriteInOrder DEF OneWorkerIInv
<1>13. written' \in {written, [written EXCEPT ![s] = Append(@, r)]}
  BY <1>2, <1>3 DEF Write
<1>14. Status' = Status
  BY <1>4 DEF Status, Steady
<1>15. Service!Store(s, r)
  BY <1>4, <1>5, <1>10, <1>11, <1>12, <1>13, <1>14 DEF Service!Store
<1> QED
  BY <1>15

\* A flush of one sink persists what it has stored, or fails.
LEMMA FlushPersists ==
    ASSUME TypeOK, TypeOK', HandInv, NEW t \in Threads, FlushSink(t)
    PROVE  \E s \in Sinks : Service!Persist(s) \/ Service!PersistFails(s)
<1> USE ThreadKinds
<1>1. PICK s \in Sinks : s = at[t]
  BY FlushEffect
<1>2. /\ \A u \in Threads : u # t => /\ pc'[u] = pc[u]
                                     /\ hand'[u] = hand[u] /\ at'[u] = at[u]
      /\ pc[t] = "flush" /\ pc'[t] \in {"flush", Done(t)}
      /\ Steady /\ UNCHANGED <<queue, sent, written>>
  BY FlushEffect
<1>3. t \in Delivering => pc'[t] # "post" /\ pc'[t] # "write"
  BY <1>2, DoneTypes DEF Delivering
<1>4. Accepted' = Accepted
  BY <1>2 DEF Accepted
<1>5. \A z \in Sinks : \A r : OnItsWay(r, z)' <=> OnItsWay(r, z)
  BY <1>2, <1>3 DEF OnItsWay, Holds, ComesTo, IsLog
<1>6. Pending' = Pending /\ Status' = Status
  BY <1>2, <1>4, <1>5, SamePending DEF Status, Steady
<1>7. \/ flushed' = [flushed EXCEPT ![s] = Len(written[s])] /\ broken' = broken \ {s}
      \/ broken' = broken \cup {s} /\ flushed' = flushed
  BY <1>1 DEF FlushSink, FlushOrFail
<1> QED
  BY <1>2, <1>4, <1>6, <1>7 DEF Service!Persist, Service!PersistFails

\* Post, Leave and Dequeue are none of the service's business.
LEMMA HandingOver ==
    ASSUME TypeOK, TypeOK', HandInv,
           \/ \E w \in Writers : Post(w) \/ Leave(w)
           \/ \E k \in Workers : Dequeue(k)
    PROVE  UNCHANGED Service!svars
<1> USE ThreadKinds
<1>1. ASSUME Accepted' = Accepted, \A s \in Sinks : \A r : OnItsWay(r, s)' <=> OnItsWay(r, s),
             Steady, UNCHANGED <<written, flushed, broken>>
      PROVE  UNCHANGED Service!svars
  <2>1. Pending' = Pending
    BY <1>1, SamePending
  <2> QED
    BY <1>1, <2>1 DEF Service!svars, Status, Steady
<1>2. ASSUME NEW w \in Writers, Post(w) PROVE UNCHANGED Service!svars
  <2>1. /\ \A u \in Delivering : u # w => pc'[u] = pc[u] /\ hand'[u] = hand[u]
        /\ pc[w] = "post" /\ hand'[w].kind # "log"
        /\ Steady /\ UNCHANGED <<at, sent, written, flushed, broken>>
    BY <1>2, PostEffect, Items
  <2>2. /\ Len(queue) \in Nat
        /\ DOMAIN queue = 1 .. Len(queue) /\ DOMAIN queue' = 1 .. Len(queue) + 1
        /\ \A i \in DOMAIN queue : queue'[i] = queue[i]
        /\ queue'[Len(queue) + 1] = hand[w]
    BY <1>2, PostEffect
  <2>3. Holds(w) /\ w \in Delivering /\ \A s \in Sinks : ComesTo(w, s)
    BY <2>1 DEF HandInv, ComesTo
  <2>4. Accepted' = Accepted
    BY <2>1 DEF Accepted
  <2>5. \A r : (\E i \in DOMAIN queue' : IsLog(i)' /\ queue'[i].record = r)
                <=> \/ \E i \in DOMAIN queue : IsLog(i) /\ queue[i].record = r
                    \/ r = hand[w].record
    BY <2>2, <2>3 DEF IsLog, Holds
  <2>6. \A s \in Sinks : \A r : OnItsWay(r, s)' <=> OnItsWay(r, s)
    BY <2>1, <2>3, <2>5 DEF OnItsWay, Holds, ComesTo
  <2> QED
    BY <1>1, <2>1, <2>4, <2>6
<1>3. ASSUME NEW w \in Writers, Leave(w) PROVE UNCHANGED Service!svars
  <2>1. /\ \A u \in Delivering : u # w => pc'[u] = pc[u]
        /\ pc[w] = "leave" /\ pc'[w] = "idle"
        /\ Steady /\ UNCHANGED <<hand, at, queue, sent, written, flushed, broken>>
    BY <1>3, Moved DEF Leave, Steady, config, sinkVars
  <2>2. Accepted' = Accepted
    BY <2>1 DEF Accepted
  <2>3. \A s \in Sinks : \A r : OnItsWay(r, s)' <=> OnItsWay(r, s)
    BY <2>1 DEF OnItsWay, Holds, ComesTo, IsLog
  <2> QED
    BY <1>1, <2>1, <2>2, <2>3
<1>4. ASSUME NEW k \in Workers, Dequeue(k) PROVE UNCHANGED Service!svars
  <2>1. /\ \A u \in Delivering : u # k => pc'[u] = pc[u] /\ hand'[u] = hand[u]
        /\ pc[k] = "idle" /\ k \in Delivering
        /\ Steady /\ UNCHANGED <<at, sent, written, flushed, broken>>
    BY <1>4, DequeueEffect
  <2>2. /\ Len(queue) \in Nat \ {0}
        /\ DOMAIN queue = 1 .. Len(queue) /\ DOMAIN queue' = 1 .. Len(queue) - 1
        /\ \A i \in DOMAIN queue' : queue'[i] = queue[i + 1]
    BY <1>4, DequeueEffect
  <2>3. ~Holds(k) /\ at[k] = 1
    BY <2>1 DEF HandInv
  <2>4. IF IsLog(1) THEN hand'[k] = queue[1] /\ pc'[k] = "write" ELSE ~Holds(k)'
    BY <1>4, DequeueEffect, Items DEF IsLog, Holds
  <2>5. \A r : (\E i \in DOMAIN queue : IsLog(i) /\ queue[i].record = r)
                <=> \/ IsLog(1) /\ queue[1].record = r
                    \/ \E i \in DOMAIN queue' : IsLog(i)' /\ queue'[i].record = r
    <3>1. \A i \in DOMAIN queue : i = 1 \/ (i - 1 \in DOMAIN queue' /\ queue'[i - 1] = queue[i])
      BY <2>2
    <3>2. 1 \in DOMAIN queue /\ \A i \in DOMAIN queue' : i + 1 \in DOMAIN queue
      BY <2>2
    <3> QED
      BY <2>2, <3>1, <3>2 DEF IsLog
  <2>6. \A s \in Sinks : \A r : OnItsWay(r, s)' <=> OnItsWay(r, s)
    <3>1. SUFFICES ASSUME NEW s \in Sinks, NEW r
                   PROVE  OnItsWay(r, s)' <=> OnItsWay(r, s)
      OBVIOUS
    <3>2. \A u \in Delivering : u # k =>
            /\ Holds(u)' = Holds(u) /\ ComesTo(u, s)' = ComesTo(u, s) /\ hand'[u] = hand[u]
      BY <2>1 DEF Holds, ComesTo
    <3>3. Holds(k)' /\ hand'[k].record = r /\ ComesTo(k, s)' <=> IsLog(1) /\ queue[1].record = r
      BY <2>1, <2>3, <2>4 DEF Holds, ComesTo, IsLog, Sinks
    <3> QED
      BY <2>1, <2>3, <2>5, <3>2, <3>3 DEF OnItsWay
  <2>7. Accepted' = Accepted
    BY <2>1 DEF Accepted
  <2> QED
    BY <1>1, <2>1, <2>6, <2>7
<1> QED
  BY <1>2, <1>3, <1>4

\* The host opens, pauses, resumes and closes the service.
LEMMA HostServes ==
    ASSUME IInv, TypeOK', OneWorkerIInv, HostAlone
    PROVE  [Service!Next]_(Service!svars)
<1> USE ThreadKinds
<1>1. TypeOK /\ PhaseInv /\ StopInv /\ HandInv
  BY DEF IInv
<1>2. /\ UNCHANGED <<hand, at, sent, written>>
      /\ \A t \in Delivering : Holds(t) => pc'[t] = pc[t]
      /\ \A i \in DOMAIN queue : i \in DOMAIN queue' /\ queue'[i] = queue[i]
      /\ \A i \in DOMAIN queue' : i \in DOMAIN queue \/ queue'[i].kind # "log"
  BY <1>1, HostEffect
<1>3. Accepted' = Accepted
  BY <1>2 DEF Accepted
<1>4. \A s \in Sinks : \A r : OnItsWay(r, s)' <=> OnItsWay(r, s)
  BY <1>2 DEF OnItsWay, Holds, ComesTo, IsLog
<1>5. Pending' = Pending
  BY <1>1, <1>3, <1>4, SamePending
<1>6. CASE Configure
  <2>1. Status = "off" /\ Status' = "on" /\ UNCHANGED <<flushed, broken>>
    BY <1>6 DEF Configure, Status, sinkVars
  <2> QED
    BY <1>2, <1>3, <1>5, <2>1 DEF Service!Next, Service!Open
<1>7. ASSUME NEW o \in {"flush", "shutdown"}, Begin(o) \/ Exit PROVE Service!Pause
  <2>1. pc[Host] = "idle" /\ configured /\ configured' = configured /\ published' = FALSE
        /\ UNCHANGED <<flushed, broken>>
    BY <1>1, <1>7, Moved DEF Begin, Exit, config, sinkVars
  <2>2. published
    BY <1>1, <2>1 DEF PhaseInv
  <2>3. Status = "on" /\ Status' = "paused"
    BY <2>1, <2>2 DEF Status
  <2> QED
    BY <1>2, <1>3, <1>5, <2>1, <2>3 DEF Service!Pause
<1>8. CASE Resume
  <2>1. /\ pc[Host] = "resume" /\ configured' = configured /\ published' = TRUE
        /\ UNCHANGED <<flushed, broken>>
    BY <1>1, <1>8, Moved DEF Resume, config, sinkVars
  <2>2. configured /\ ~published
    BY <1>1, <2>1 DEF PhaseInv
  <2>3. Status = "paused" /\ Status' = "on"
    BY <2>1, <2>2 DEF Status
  <2>4. Cardinality(Workers) <= 1 => Service!Drained
    <3>1. SUFFICES ASSUME Cardinality(Workers) <= 1, NEW s \in Sinks
                   PROVE  Pending[s] = {} /\ (flushed[s] = Len(written[s]) \/ s \in broken)
      BY DEF Service!Drained
    <3>2. FlushDelivers
      BY <3>1, AtLeastOneWorker, DrainedIsDelivered
    <3>3. Pending[s] = {}
      BY <2>1, <3>2 DEF Pending, FlushDelivers
    <3> QED
      BY <2>1, <3>2, <3>3 DEF FlushDelivers
  <2> QED
    BY <1>2, <1>3, <1>5, <2>1, <2>3, <2>4 DEF Service!Next, Service!Resume
<1>9. ASSUME Closed, pc[Host] \in {"release", "stop"}, queue = <<>>,
             \A t \in Delivering : ~Holds(t)
      PROVE  Service!Close
  <2>1. \A s \in Sinks : Pending[s] = {}
    BY <1>1, <1>9, PendingMeans DEF OnItsWay
  <2>2. configured /\ ~published
    BY <1>1, <1>9 DEF PhaseInv
  <2>3. Status = "paused" /\ Status' = "off"
    BY <1>9, <2>2 DEF Closed, Status
  <2> QED
    BY <1>2, <1>3, <1>5, <1>9, <2>1, <2>3 DEF Closed, Service!Close
<1>10. pc[Host] \in {"release", "stop"} => \A w \in Writers : ~Holds(w)
  BY <1>1 DEF PhaseInv, HandInv
<1>11. CASE Join
  <2>1. pc[Host] = "stop" /\ Closed /\ \A k \in Workers : pc[k] = "stopped"
    BY <1>1, <1>11, Moved DEF Join
  <2>2. queue = <<>>
    BY <1>1, <1>11, JoinFindsQueueEmpty
  <2>3. \A k \in Workers : ~Holds(k)
    BY <1>1, <2>1 DEF HandInv
  <2> QED
    BY <1>9, <1>10, <2>1, <2>2, <2>3 DEF Delivering, Service!Next
<1>12. CASE Release /\ ~async
  <2>1. pc[Host] = "release" /\ Closed
    BY <1>1, <1>12, Moved DEF Release
  <2>2. queue = <<>> /\ \A k \in Workers : ~Holds(k)
    BY <1>1, <1>12 DEF PhaseInv, HandInv
  <2> QED
    BY <1>9, <1>10, <2>1, <2>2 DEF Delivering, Service!Next
<1>13. CASE WaitForActiveLogs \/ PostFlush \/ Poll \/ PostTerminate \/ (Release /\ async)
  <2>1. UNCHANGED <<configured, published, flushed, broken>>
    BY <1>13 DEF WaitForActiveLogs, PostFlush, Poll, PostTerminate, Release, config, sinkVars
  <2> QED
    BY <1>2, <1>3, <1>5, <2>1 DEF Service!svars, Status
<1> QED
  BY <1>6, <1>7, <1>8, <1>11, <1>12, <1>13 DEF HostAlone, Service!Next

\* The library keeps the promise of LogService: an accepted record gets to each sink once
\* or is lost to an error of that sink; closing waits for all; and with one worker a sink
\* has each thread's records in order and Flush drains.
THEOREM LogServiceImplemented == Spec => ImplementsLogService
<1>1. Init => Service!Init
  <2>1. ASSUME Init PROVE Service!Init
    <3>1. TypeOK /\ \A w \in Writers : sent[w] = 0
      BY <2>1, InitIInv DEF IInv, Init
    <3>2. Accepted = {}
      BY <3>1, Records DEF Accepted
    <3>3. \A s \in Sinks : Pending[s] = {}
      BY <3>2 DEF Pending
    <3>4. Pending = [s \in Sinks |-> {}]
      BY <3>1, <3>3, PendingMeans
    <3>5. Status = "off"
      BY <2>1 DEF Init, Status
    <3> QED
      BY <2>1, <3>2, <3>4, <3>5 DEF Init, Service!Init
  <2> QED
    BY <2>1
<1>2. IInv /\ IInv' /\ OneWorkerIInv /\ [Next]_vars => [Service!Next]_(Service!svars)
  <2> SUFFICES ASSUME IInv, IInv', OneWorkerIInv, [Next]_vars
               PROVE  [Service!Next]_(Service!svars)
    OBVIOUS
  <2>1. TypeOK /\ PhaseInv /\ HandInv /\ TypeOK'
    BY DEF IInv
  <2>2. CASE UNCHANGED vars
    <3>1. UNCHANGED <<configured, published, pc, hand, at, queue, sent, written, flushed, broken>>
      BY <2>2 DEF vars, config
    <3>2. Pending' = Pending /\ Accepted' = Accepted /\ Status' = Status
      BY <3>1 DEF Pending, Accepted, Holders, Queued, Status
    <3> QED
      BY <3>1, <3>2 DEF Service!svars
  <2>3. ASSUME NEW w \in Writers, Log(w) PROVE [Service!Next]_(Service!svars)
    BY <2>1, <2>3, LogAccepts DEF Service!Next
  <2>4. ASSUME NEW t \in Delivering, Write(t) PROVE [Service!Next]_(Service!svars)
    BY <2>4, WriteStores DEF Service!Next
  <2>5. ASSUME NEW t \in Threads, FlushSink(t) PROVE [Service!Next]_(Service!svars)
    BY <2>1, <2>5, FlushPersists DEF Service!Next
  <2>6. CASE HostAlone
    BY <2>1, <2>6, HostServes
  <2>7. ASSUME \/ \E w \in Writers : Post(w) \/ Leave(w)
               \/ \E k \in Workers : Dequeue(k)
        PROVE  [Service!Next]_(Service!svars)
    BY <2>1, <2>7, HandingOver
  <2> QED
    BY <2>2, <2>3, <2>4, <2>5, <2>6, <2>7, Steps
<1> QED
  BY <1>1, <1>2, Invariance, OneWorkerInvariance, PTL
     DEF Spec, ImplementsLogService, Service!Spec
=============================================================================
