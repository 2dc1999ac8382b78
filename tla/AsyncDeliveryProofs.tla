------------------------ MODULE AsyncDeliveryProofs ------------------------
(***************************************************************************)
(* Proofs about AsyncDelivery, for any number of writers, workers, sinks,  *)
(* records and slots of the queue.                                         *)
(***************************************************************************)
EXTENDS AsyncDelivery, SequenceTheorems, FiniteSetTheorems, TLAPS

-----------------------------------------------------------------------------
(* Constants, items and the queue.                                          *)

\* The kinds of threads do not overlap.
LEMMA ThreadKinds ==
    /\ Delivering \subseteq Threads /\ Host \in Threads
    /\ Writers \subseteq Delivering /\ Workers \subseteq Delivering
    /\ Host \notin Delivering
    /\ \A t \in Workers : t \notin Writers
    /\ \A t \in Writers : t \notin Workers
BY DeliveryAssumption DEF Threads, Delivering

\* What the queue and the hands hold are items, and a log item is its record.
LEMMA Items ==
    /\ Nothing \in Item /\ Nothing.kind = "none"
    /\ [kind |-> "flush"] \in Item /\ [kind |-> "terminate"] \in Item
    /\ \A w \in Writers, n \in 1 .. MaxRecords :
        /\ [writer |-> w, n |-> n] \in Record
        /\ LogItem(w, n) \in Item /\ LogItem(w, n).kind = "log"
        /\ LogItem(w, n).record = [writer |-> w, n |-> n]
    /\ \A x \in Item :
        /\ x.kind \in {"log", "none", "flush", "terminate"}
        /\ x.kind = "log" => x.record \in Record
        /\ \A r \in Record : x = [kind |-> "log", record |-> r] <=> x.kind = "log" /\ x.record = r
BY DEF Item, Nothing, LogItem, Record

\* Records are pairs of a writer and a number.
LEMMA Records ==
    /\ \A r \in Record : r.writer \in Writers /\ r.n \in 1 .. MaxRecords
    /\ \A q, r \in Record : q.writer = r.writer /\ q.n = r.n => q = r
BY DEF Record

\* What appending does to the places of a queue.
LEMMA Appended ==
    ASSUME NEW S, NEW q \in Seq(S), NEW x \in S, NEW qq, qq = Append(q, x)
    PROVE  /\ qq \in Seq(S) /\ Len(qq) = Len(q) + 1 /\ qq # <<>>
           /\ Len(q) \in Nat /\ DOMAIN q = 1 .. Len(q) /\ DOMAIN qq = 1 .. Len(q) + 1
           /\ \A i \in 1 .. Len(q) : qq[i] = q[i]
           /\ qq[Len(q) + 1] = x
BY AppendProperties, LenProperties

\* What taking the first item away does to them.
LEMMA Shifted ==
    ASSUME NEW S, NEW q \in Seq(S), q # <<>>, NEW qq, qq = Tail(q)
    PROVE  /\ qq \in Seq(S) /\ Len(q) \in Nat \ {0} /\ Len(qq) = Len(q) - 1
           /\ DOMAIN q = 1 .. Len(q) /\ DOMAIN qq = 1 .. Len(q) - 1
           /\ Head(q) = q[1] /\ Head(q) \in S
           /\ \A i \in 1 .. Len(q) - 1 : qq[i] = q[i + 1]
BY HeadTailProperties, LenProperties, EmptySeq

-----------------------------------------------------------------------------
(* Types.                                                                   *)

\* Where a thread goes when it is done with the sinks.
LEMMA DoneTypes ==
    /\ \A w \in Writers : Done(w) = "leave"
    /\ \A k \in Workers : Done(k) = "idle"
    /\ Done(Host) = IF op = "flush" THEN "resume" ELSE "release"
BY ThreadKinds DEF Done, Delivering

\* The part of TypeOK about pc.
PCOK ==
    /\ pc \in [Threads -> WriterPC \cup WorkerPC \cup HostPC]
    /\ \A w \in Writers : pc[w] \in WriterPC
    /\ \A k \in Workers : pc[k] \in WorkerPC
    /\ pc[Host] \in HostPC

\* Where a thread may be.
MayBeAt(t, v) ==
    \/ t \in Writers /\ v \in WriterPC
    \/ t \in Workers /\ v \in WorkerPC
    \/ t = Host /\ v \in HostPC

\* A step of one thread keeps pc's type.
LEMMA MoveTypes ==
    ASSUME PCOK, NEW t \in Threads, NEW v, MayBeAt(t, v), pc' = [pc EXCEPT ![t] = v]
    PROVE  PCOK'
<1>1. v \in WriterPC \cup WorkerPC \cup HostPC
  BY DEF MayBeAt
<1>2. pc' \in [Threads -> WriterPC \cup WorkerPC \cup HostPC]
  BY <1>1 DEF PCOK
<1>3. \A u \in Threads : pc'[u] = IF u = t THEN v ELSE pc[u]
  BY DEF PCOK
<1> QED
  BY <1>2, <1>3, ThreadKinds DEF PCOK, MayBeAt

\* TypeOK in parts.
LEMMA TypeParts ==
    TypeOK <=> /\ configured \in BOOLEAN /\ async \in BOOLEAN /\ published \in BOOLEAN
               /\ op \in Ops
               /\ PCOK
               /\ hand \in [Threads -> Item]
               /\ at \in [Threads -> Sinks]
               /\ queue \in Seq(Item) /\ Len(queue) <= QueueSize
               /\ sent \in [Writers -> 0 .. MaxRecords]
               /\ written \in [Sinks -> Seq(Record)]
               /\ flushed \in [Sinks -> Nat]
               /\ failures \in 0 .. MaxFailures
               /\ broken \subseteq Sinks
BY DEF TypeOK, PCOK

\* A thread at the sinks keeps the types wherever it goes next.
LEMMA NextSinkTypes ==
    ASSUME PCOK, hand \in [Threads -> Item], at \in [Threads -> Sinks],
           NEW t \in Threads, NEW then, MayBeAt(t, then), NextSink(t, then)
    PROVE  /\ at' \in [Threads -> Sinks]
           /\ hand' \in [Threads -> Item]
           /\ PCOK'
<1>1. CASE at[t] < SinkCount
  <2>1. at[t] + 1 \in Sinks
    BY <1>1, DeliveryAssumption DEF Sinks
  <2> QED
    BY <1>1, <2>1 DEF NextSink, PCOK
<1>2. CASE ~(at[t] < SinkCount)
  <2>1. 1 \in Sinks
    BY DeliveryAssumption DEF Sinks
  <2>2. (IF then = "flush" THEN hand[t] ELSE Nothing) \in Item
    BY Items
  <2>3. /\ at' = [at EXCEPT ![t] = 1]
        /\ pc' = [pc EXCEPT ![t] = then]
        /\ hand' = [hand EXCEPT ![t] = IF then = "flush" THEN hand[t] ELSE Nothing]
    BY <1>2 DEF NextSink
  <2>4. PCOK'
    BY <2>3, MoveTypes
  <2> QED
    BY <2>1, <2>2, <2>3, <2>4
<1> QED
  BY <1>1, <1>2

\* A flush keeps the types.
LEMMA FlushTypes ==
    ASSUME TypeOK, NEW t \in Threads, FlushSink(t)
    PROVE  TypeOK'
<1>1. MayBeAt(t, Done(t))
  BY DoneTypes DEF WriterPC, WorkerPC, HostPC, MayBeAt, Threads
<1>2. at[t] \in Sinks /\ written[at[t]] \in Seq(Record)
  BY DEF TypeOK
<1>3. flushed' \in [Sinks -> Nat] /\ broken' \subseteq Sinks
  <2>1. Len(written[at[t]]) \in Nat
    BY <1>2, LenProperties
  <2> QED
    BY <1>2, <2>1, TypeParts DEF FlushSink, FlushOrFail
<1>4. at' \in [Threads -> Sinks] /\ hand' \in [Threads -> Item] /\ PCOK'
  BY <1>1, NextSinkTypes, TypeParts DEF FlushSink
<1>5. UNCHANGED <<config, published, op, queue, sent, written, failures>>
  BY DEF FlushSink
<1> QED
  BY <1>3, <1>4, <1>5 DEF TypeOK, PCOK, config

\* A write keeps the types.
LEMMA WriteTypes ==
    ASSUME TypeOK, HandInv, NEW t \in Delivering, Write(t)
    PROVE  TypeOK'
<1>1. t \in Threads /\ MayBeAt(t, Done(t)) /\ MayBeAt(t, "flush")
  BY DoneTypes, ThreadKinds DEF WriterPC, WorkerPC, MayBeAt, Delivering
<1>2. at[t] \in Sinks /\ hand[t] \in Item /\ Holds(t)
  BY <1>1 DEF TypeOK, HandInv, Write
<1>3. hand[t].record \in Record
  BY <1>2, Items DEF Holds
<1>4. written' \in [Sinks -> Seq(Record)]
  <2>1. written \in [Sinks -> Seq(Record)] /\ written[at[t]] \in Seq(Record)
    BY <1>2 DEF TypeOK
  <2>2. Append(written[at[t]], hand[t].record) \in Seq(Record)
    BY <1>3, <2>1, AppendProperties
  <2> QED
    BY <2>1, <2>2 DEF Write
<1>5. failures' \in 0 .. MaxFailures
  <2>1. IsFiniteSet(broken)
    <3>1. IsFiniteSet(Sinks)
      BY FS_Interval, DeliveryAssumption DEF Sinks
    <3> QED
      BY <3>1, FS_Subset DEF TypeOK
  <2>2. Cardinality(broken) \in Nat
    BY <2>1, FS_CardinalityType
  <2>3. failures \in 0 .. MaxFailures
    BY DEF TypeOK
  <2> QED
    BY <2>2, <2>3, DeliveryAssumption DEF Write
<1>6. at' \in [Threads -> Sinks] /\ hand' \in [Threads -> Item] /\ PCOK'
  BY <1>1, NextSinkTypes, TypeParts DEF Write
<1>7. UNCHANGED <<config, published, op, queue, sent, flushed, broken>>
  BY DEF Write
<1> QED
  BY <1>4, <1>5, <1>6, <1>7 DEF TypeOK, PCOK, config

\* The other steps of writers and workers keep the types.
LEMMA DeliveringTypes ==
    ASSUME TypeOK, HandInv,
           \/ \E w \in Writers : Log(w) \/ Post(w) \/ Leave(w)
           \/ \E k \in Workers : Dequeue(k)
    PROVE  TypeOK'
<1> USE ThreadKinds, TypeParts, MoveTypes DEF Goto, config, sinkVars, WriterPC, WorkerPC, MayBeAt
<1>1. ASSUME NEW w \in Writers, Log(w) PROVE TypeOK'
  <2>1. sent[w] \in 0 .. MaxRecords /\ sent[w] + 1 \in 1 .. MaxRecords
    BY <1>1, DeliveryAssumption DEF Log
  <2>2. LogItem(w, sent[w] + 1) \in Item
    BY <2>1, Items
  <2>3. PCOK'
    BY <1>1 DEF Log
  <2> QED
    BY <1>1, <2>1, <2>2, <2>3 DEF Log, TypeOK, PCOK
<1>2. ASSUME NEW w \in Writers, Post(w) PROVE TypeOK'
  <2>1. hand[w] \in Item
    OBVIOUS
  <2>2. queue' \in Seq(Item) /\ Len(queue') <= QueueSize
    BY <1>2, <2>1, Appended, DeliveryAssumption DEF Post
  <2>3. PCOK'
    BY <1>2 DEF Post
  <2> QED
    BY <1>2, <2>2, <2>3, Items DEF Post, TypeOK, PCOK
<1>3. ASSUME NEW w \in Writers, Leave(w) PROVE TypeOK'
  <2>1. PCOK'
    BY <1>3 DEF Leave
  <2> QED
    BY <1>3, <2>1 DEF Leave, TypeOK, PCOK
<1>4. ASSUME NEW k \in Workers, Dequeue(k) PROVE TypeOK'
  <2>1. queue' \in Seq(Item) /\ Len(queue') <= QueueSize /\ Head(queue) \in Item
    BY <1>4, Shifted, DeliveryAssumption DEF Dequeue
  <2>2. PCOK'
    BY <1>4 DEF Dequeue
  <2> QED
    BY <1>4, <2>1, <2>2, Items DEF Dequeue, TypeOK, PCOK
<1> QED
  BY <1>1, <1>2, <1>3, <1>4

\* So do the host's.
LEMMA HostTypes ==
    ASSUME TypeOK,
           \/ Configure \/ Begin("flush") \/ Begin("shutdown") \/ Exit
           \/ WaitForActiveLogs \/ PostFlush \/ Poll \/ Resume
           \/ Release \/ PostTerminate \/ Join
    PROVE  TypeOK'
<1> USE ThreadKinds, TypeParts, MoveTypes DEF Goto, config, sinkVars, HostPC, MayBeAt
<1>1. CASE Configure
  <2>1. \A t \in Threads : pc'[t] = IF t \in Workers /\ async' THEN "idle" ELSE pc[t]
    BY <1>1 DEF Configure
  <2>2. PCOK'
    BY <1>1, <2>1 DEF Configure, WorkerPC, PCOK
  <2> QED
    BY <1>1, <2>2 DEF Configure, TypeOK, PCOK
<1>2. CASE Begin("flush") \/ Begin("shutdown")
  <2>1. PCOK'
    BY <1>2 DEF Begin
  <2> QED
    BY <1>2, <2>1 DEF Begin, Ops, TypeOK, PCOK
<1>3. CASE Exit
  <2>1. PCOK'
    BY <1>3 DEF Exit
  <2> QED
    BY <1>3, <2>1 DEF Exit, Ops, TypeOK, PCOK
<1>4. CASE WaitForActiveLogs \/ Poll
  <2>1. PCOK'
    BY <1>4 DEF WaitForActiveLogs, Poll
  <2> QED
    BY <1>4, <2>1 DEF WaitForActiveLogs, Poll, TypeOK, PCOK
<1>5. CASE Resume
  <2>1. PCOK'
    BY <1>5 DEF Resume
  <2> QED
    BY <1>5, <2>1 DEF Resume, Ops, TypeOK, PCOK
<1>6. CASE PostFlush \/ PostTerminate
  <2>1. queue' \in Seq(Item) /\ Len(queue') <= QueueSize
    BY <1>6, Items, Appended, DeliveryAssumption DEF PostFlush, PostTerminate
  <2>2. PCOK'
    BY <1>6 DEF PostFlush, PostTerminate, PCOK
  <2> QED
    BY <1>6, <2>1, <2>2 DEF PostFlush, PostTerminate, TypeOK, PCOK
<1>7. CASE Release \/ Join
  <2>1. PCOK'
    BY <1>7 DEF Release, Join
  <2>2. ASSUME Closed PROVE TypeOK'
    <3>1. \A s \in Sinks : Len(written[s]) \in Nat
      BY LenProperties
    <3>2. flushed' \in [Sinks -> Nat] /\ broken' \subseteq Sinks
      BY <2>2, <3>1 DEF Closed
    <3> QED
      BY <2>1, <2>2, <3>2 DEF Closed, Ops, TypeOK, PCOK
  <2> QED
    BY <1>7, <2>1, <2>2 DEF Release, Join, TypeOK, PCOK
<1> QED
  BY <1>1, <1>2, <1>3, <1>4, <1>5, <1>6, <1>7

-----------------------------------------------------------------------------
(* One step of one thread, position by position.                            *)

\* Goto moves its thread and no other.
LEMMA Moved ==
    ASSUME TypeOK, NEW t \in Threads, NEW from, NEW to, Goto(t, from, to)
    PROVE  /\ pc[t] = from /\ pc'[t] = to
           /\ \A u \in Threads : u # t => pc'[u] = pc[u]
BY DEF TypeOK, Goto

\* NextSink takes its thread to the next sink or on to what follows.
LEMMA Stepped ==
    ASSUME TypeOK, NEW t \in Threads, NEW then, NextSink(t, then)
    PROVE  /\ \A u \in Threads : u # t => /\ pc'[u] = pc[u]
                                          /\ hand'[u] = hand[u] /\ at'[u] = at[u]
           /\ at[t] < SinkCount => /\ at'[t] = at[t] + 1
                                   /\ pc'[t] = pc[t] /\ hand'[t] = hand[t]
           /\ ~(at[t] < SinkCount) =>
                /\ at'[t] = 1 /\ pc'[t] = then
                /\ hand'[t] = IF then = "flush" THEN hand[t] ELSE Nothing
<1>1. hand \in [Threads -> Item] /\ at \in [Threads -> Sinks]
      /\ pc \in [Threads -> WriterPC \cup WorkerPC \cup HostPC]
  BY DEF TypeOK
<1>2. CASE at[t] < SinkCount
  BY <1>1, <1>2 DEF NextSink
<1>3. CASE ~(at[t] < SinkCount)
  BY <1>1, <1>3 DEF NextSink
<1> QED
  BY <1>2, <1>3

-----------------------------------------------------------------------------
(* The phases of the host.                                                  *)

\* When all workers have stopped nothing is left in the queue.
LEMMA JoinFindsQueueEmpty ==
    ASSUME TypeOK, PhaseInv, StopInv, Join
    PROVE  queue = <<>>
<1>1. async /\ \A k \in Workers : pc[k] = "stopped"
  BY DEF Join, Goto, PhaseInv
<1>2. \A i \in DOMAIN queue : queue[i].kind = "terminate"
  BY <1>1, DeliveryAssumption DEF StopInv
<1>3. Stopped = Workers
  BY <1>1 DEF Stopped
<1>4. Terminates = DOMAIN queue
  BY <1>2 DEF Terminates
<1>5. DOMAIN queue = 1 .. Len(queue) /\ Len(queue) \in Nat
  BY LenProperties DEF TypeOK
<1>6. Cardinality(1 .. Len(queue)) = Len(queue)
  <2>1. 1 \in Int /\ Len(queue) \in Int
    BY <1>5
  <2>2. Cardinality(1 .. Len(queue)) = IF 1 > Len(queue) THEN 0 ELSE Len(queue) - 1 + 1
    BY <2>1, FS_Interval
  <2> QED
    BY <1>5, <2>2
<1>7. Cardinality(Workers) \in Nat
  BY FS_CardinalityType, DeliveryAssumption
<1>8. Len(queue) = 0
  BY <1>3, <1>4, <1>5, <1>6, <1>7 DEF StopInv, Stops
<1> QED
  BY <1>8, EmptySeq DEF TypeOK

-----------------------------------------------------------------------------
(* What a step of a writer or worker does, position by position.            *)

\* The variables no step of a writer or worker changes.
Steady == UNCHANGED <<configured, async, published, op>>

\* Log gives the writer its next record.
LEMMA LogEffect ==
    ASSUME TypeOK, NEW w \in Writers, Log(w)
    PROVE  /\ published /\ sent[w] \in Nat /\ sent[w] + 1 \in 1 .. MaxRecords
           /\ pc[w] = "idle" /\ pc'[w] = IF async THEN "post" ELSE "write"
           /\ hand'[w].kind = "log" /\ hand'[w].record = [writer |-> w, n |-> sent'[w]]
           /\ sent'[w] = sent[w] + 1
           /\ \A u \in Threads : u # w => pc'[u] = pc[u] /\ hand'[u] = hand[u]
           /\ \A u \in Writers : u # w => sent'[u] = sent[u]
           /\ Steady /\ UNCHANGED <<at, queue, written, flushed, failures, broken>>
<1>1. w \in Threads
  BY ThreadKinds
<1>2. hand \in [Threads -> Item] /\ sent \in [Writers -> 0 .. MaxRecords]
  BY DEF TypeOK
<1>3. sent[w] + 1 \in 1 .. MaxRecords /\ sent[w] \in Nat
  BY <1>2, DeliveryAssumption DEF Log
<1>4. /\ pc[w] = "idle" /\ pc'[w] = IF async THEN "post" ELSE "write"
      /\ \A u \in Threads : u # w => pc'[u] = pc[u]
  BY <1>1, Moved DEF Log
<1>5. hand'[w] = LogItem(w, sent[w] + 1)
  BY <1>1, <1>2 DEF Log
<1>6. sent'[w] = sent[w] + 1
  BY <1>2 DEF Log
<1>7. hand'[w].kind = "log" /\ hand'[w].record = [writer |-> w, n |-> sent'[w]]
  BY <1>3, <1>5, <1>6, Items
<1>8. \A u \in Threads : u # w => hand'[u] = hand[u]
  BY <1>2 DEF Log
<1>9. \A u \in Writers : u # w => sent'[u] = sent[u]
  BY <1>2 DEF Log
<1> QED
  BY <1>3, <1>4, <1>6, <1>7, <1>8, <1>9 DEF Log, Steady, config, sinkVars

\* Post puts the writer's item at the end of the queue.
LEMMA PostEffect ==
    ASSUME TypeOK, NEW w \in Writers, Post(w)
    PROVE  /\ pc[w] = "post" /\ pc'[w] = "leave"
           /\ hand'[w] = Nothing
           /\ \A u \in Threads : u # w => pc'[u] = pc[u] /\ hand'[u] = hand[u]
           /\ Len(queue) \in Nat /\ Len(queue) < QueueSize
           /\ DOMAIN queue = 1 .. Len(queue) /\ DOMAIN queue' = 1 .. Len(queue) + 1
           /\ \A i \in DOMAIN queue : queue'[i] = queue[i]
           /\ queue'[Len(queue) + 1] = hand[w]
           /\ Steady /\ UNCHANGED <<at, sent, written, flushed, failures, broken>>
<1>1. w \in Threads
  BY ThreadKinds
<1>2. hand \in [Threads -> Item] /\ queue \in Seq(Item) /\ hand[w] \in Item
  BY <1>1 DEF TypeOK
<1>3. /\ pc[w] = "post" /\ pc'[w] = "leave"
      /\ \A u \in Threads : u # w => pc'[u] = pc[u]
  BY <1>1, Moved DEF Post
<1>4. hand'[w] = Nothing /\ \A u \in Threads : u # w => hand'[u] = hand[u]
  BY <1>1, <1>2 DEF Post
<1>5. /\ Len(queue) \in Nat
      /\ DOMAIN queue = 1 .. Len(queue) /\ DOMAIN queue' = 1 .. Len(queue) + 1
      /\ \A i \in DOMAIN queue : queue'[i] = queue[i]
      /\ queue'[Len(queue) + 1] = hand[w]
  BY <1>2, Appended DEF Post
<1> QED
  BY <1>3, <1>4, <1>5 DEF Post, Steady, config, sinkVars

\* Dequeue gives the worker the first item of the queue.
LEMMA DequeueEffect ==
    ASSUME TypeOK, NEW k \in Workers, Dequeue(k)
    PROVE  /\ pc[k] = "idle"
           /\ queue # <<>> /\ Len(queue) \in Nat \ {0}
           /\ DOMAIN queue = 1 .. Len(queue) /\ DOMAIN queue' = 1 .. Len(queue) - 1
           /\ \A i \in DOMAIN queue' : i + 1 \in DOMAIN queue /\ queue'[i] = queue[i + 1]
           /\ 1 \in DOMAIN queue
           /\ queue[1].kind = "log" => pc'[k] = "write" /\ hand'[k] = queue[1]
           /\ queue[1].kind = "flush" => pc'[k] = "flush" /\ hand'[k] = Nothing
           /\ queue[1].kind \notin {"log", "flush"} => pc'[k] = "stopped" /\ hand'[k] = Nothing
           /\ \A u \in Threads : u # k => pc'[u] = pc[u] /\ hand'[u] = hand[u]
           /\ Steady /\ UNCHANGED <<at, sent, written, flushed, failures, broken>>
<1>1. k \in Threads
  BY ThreadKinds
<1>2. hand \in [Threads -> Item] /\ queue \in Seq(Item) /\ queue # <<>>
  BY DEF TypeOK, Dequeue
<1>3. /\ Len(queue) \in Nat \ {0} /\ Head(queue) = queue[1]
      /\ DOMAIN queue = 1 .. Len(queue) /\ DOMAIN queue' = 1 .. Len(queue) - 1
      /\ \A i \in 1 .. Len(queue) - 1 : queue'[i] = queue[i + 1]
  BY <1>2, Shifted DEF Dequeue
<1>4. /\ pc[k] = "idle"
      /\ pc'[k] = CASE queue[1].kind = "log"   -> "write"
                    [] queue[1].kind = "flush" -> "flush"
                    [] OTHER                   -> "stopped"
      /\ \A u \in Threads : u # k => pc'[u] = pc[u]
  BY <1>1, <1>3, Moved DEF Dequeue
<1>5. /\ hand'[k] = IF queue[1].kind = "log" THEN queue[1] ELSE Nothing
      /\ \A u \in Threads : u # k => hand'[u] = hand[u]
  BY <1>1, <1>2, <1>3 DEF Dequeue
<1>6. Steady /\ UNCHANGED <<at, sent, written, flushed, failures, broken>>
  BY DEF Dequeue, Steady, config, sinkVars
<1>7. /\ queue[1].kind = "log" => pc'[k] = "write" /\ hand'[k] = queue[1]
      /\ queue[1].kind = "flush" => pc'[k] = "flush" /\ hand'[k] = Nothing
      /\ queue[1].kind \notin {"log", "flush"} => pc'[k] = "stopped" /\ hand'[k] = Nothing
  BY <1>4, <1>5
<1>8. /\ 1 \in DOMAIN queue
      /\ \A i \in DOMAIN queue' : i + 1 \in DOMAIN queue /\ queue'[i] = queue[i + 1]
  BY <1>3
<1> QED
  BY <1>2, <1>3, <1>4, <1>5, <1>6, <1>7, <1>8

\* Write appends the thread's record to its sink, or counts a failure.
LEMMA WriteEffect ==
    ASSUME TypeOK, HandInv, NEW t \in Delivering, Write(t)
    PROVE  /\ t \in Threads /\ pc[t] = "write" /\ at[t] \in Sinks /\ Holds(t)
           /\ hand[t].record \in Record
           /\ \A u \in Threads : u # t => /\ pc'[u] = pc[u]
                                          /\ hand'[u] = hand[u] /\ at'[u] = at[u]
           /\ at[t] < SinkCount => at'[t] = at[t] + 1 /\ pc'[t] = "write" /\ hand'[t] = hand[t]
           /\ ~(at[t] < SinkCount) =>
                /\ at'[t] = 1
                /\ IF hand[t].record \in Urgent
                   THEN pc'[t] = "flush" /\ hand'[t] = hand[t]
                   ELSE pc'[t] = Done(t) /\ hand'[t] = Nothing
           /\ Steady /\ UNCHANGED <<queue, sent, flushed, broken>>
<1>1. t \in Threads /\ Done(t) # "flush"
  BY DoneTypes, ThreadKinds DEF Delivering
<1>2. at[t] \in Sinks /\ hand[t] \in Item /\ Holds(t) /\ pc[t] = "write"
  BY <1>1 DEF TypeOK, HandInv, Write
<1>3. hand[t].record \in Record
  BY <1>2, Items DEF Holds
<1>4. NextSink(t, IF hand[t].record \in Urgent THEN "flush" ELSE Done(t))
      /\ Steady /\ UNCHANGED <<queue, sent, flushed, broken>>
  BY DEF Write, Steady, config
<1> QED
  BY <1>1, <1>2, <1>3, <1>4, Stepped

\* What happens to the sink's file: it gets the record at its end, or an error is counted.
LEMMA WrittenEffect ==
    ASSUME TypeOK, HandInv, NEW t \in Delivering, Write(t)
    PROVE  \/ /\ \A s \in Sinks : s # at[t] => written'[s] = written[s]
              /\ Len(written[at[t]]) \in Nat
              /\ written'[at[t]] = Append(written[at[t]], hand[t].record)
              /\ Len(written'[at[t]]) = Len(written[at[t]]) + 1
              /\ DOMAIN written[at[t]] = 1 .. Len(written[at[t]])
              /\ DOMAIN written'[at[t]] = 1 .. Len(written[at[t]]) + 1
              /\ \A i \in DOMAIN written[at[t]] : written'[at[t]][i] = written[at[t]][i]
              /\ written'[at[t]][Len(written[at[t]]) + 1] = hand[t].record
              /\ failures' = failures
           \/ written' = written /\ failures' = failures + 1
<1>1. at[t] \in Sinks /\ hand[t].record \in Record
  BY WriteEffect
<1>2. written \in [Sinks -> Seq(Record)] /\ written[at[t]] \in Seq(Record)
  BY <1>1 DEF TypeOK
<1>3. CASE written' = [written EXCEPT ![at[t]] = Append(@, hand[t].record)] /\ UNCHANGED failures
  <2>1. /\ written'[at[t]] = Append(written[at[t]], hand[t].record)
        /\ \A s \in Sinks : s # at[t] => written'[s] = written[s]
    BY <1>1, <1>2, <1>3
  <2> QED
    BY <1>1, <1>2, <1>3, <2>1, Appended
<1>4. CASE failures' = failures + 1 /\ UNCHANGED written
  BY <1>4
<1> QED
  BY <1>3, <1>4 DEF Write

\* FlushSink flushes the thread's sink, or the sink is broken.
LEMMA FlushEffect ==
    ASSUME TypeOK, NEW t \in Threads, FlushSink(t)
    PROVE  /\ pc[t] = "flush" /\ at[t] \in Sinks
           /\ \A u \in Threads : u # t => /\ pc'[u] = pc[u]
                                          /\ hand'[u] = hand[u] /\ at'[u] = at[u]
           /\ at[t] < SinkCount => at'[t] = at[t] + 1 /\ pc'[t] = "flush" /\ hand'[t] = hand[t]
           /\ ~(at[t] < SinkCount) => /\ at'[t] = 1
                                      /\ pc'[t] = Done(t) /\ hand'[t] = Nothing
           /\ flushed'[at[t]] = Len(written[at[t]]) \/ at[t] \in broken'
           /\ flushed'[at[t]] \in {Len(written[at[t]]), flushed[at[t]]}
           /\ \A s \in Sinks : s # at[t] => /\ flushed'[s] = flushed[s]
                                            /\ s \in broken' <=> s \in broken
           /\ Steady /\ UNCHANGED <<queue, sent, written, failures>>
<1>1. Done(t) # "flush"
  BY DoneTypes, ThreadKinds DEF Threads
<1>2. at[t] \in Sinks /\ flushed \in [Sinks -> Nat] /\ pc[t] = "flush"
  BY DEF TypeOK, FlushSink
<1>3. NextSink(t, Done(t)) /\ Steady /\ UNCHANGED <<queue, sent, written, failures>>
  BY DEF FlushSink, Steady, config
<1>4. /\ flushed'[at[t]] = Len(written[at[t]]) \/ at[t] \in broken'
      /\ flushed'[at[t]] \in {Len(written[at[t]]), flushed[at[t]]}
      /\ \A s \in Sinks : s # at[t] => /\ flushed'[s] = flushed[s]
                                       /\ s \in broken' <=> s \in broken
  BY <1>2 DEF FlushSink, FlushOrFail
<1> QED
  BY <1>1, <1>2, <1>3, <1>4, Stepped

-----------------------------------------------------------------------------
(* PhaseInv is inductive.                                                   *)

\* The steps of writers and workers keep the phase.
LEMMA DeliveringPhase ==
    ASSUME TypeOK, PhaseInv, HandInv,
           \/ \E w \in Writers : Log(w) \/ Post(w) \/ Leave(w)
           \/ \E k \in Workers : Dequeue(k)
           \/ \E t \in Delivering : Write(t)
           \/ \E t \in Threads : FlushSink(t)
    PROVE  PhaseInv'
<1>1. ASSUME NEW w \in Writers, Log(w) PROVE PhaseInv'
  <2>1. /\ \A u \in Threads : u # w => pc'[u] = pc[u]
        /\ published /\ pc'[w] = IF async THEN "post" ELSE "write"
        /\ Steady /\ queue' = queue
    BY <1>1, LogEffect
  <2> QED
    BY <2>1, ThreadKinds DEF PhaseInv, Steady
<1>2. ASSUME NEW w \in Writers, Post(w) PROVE PhaseInv'
  <2>1. /\ \A u \in Threads : u # w => pc'[u] = pc[u]
        /\ pc[w] = "post" /\ pc'[w] = "leave" /\ Steady
    BY <1>2, PostEffect
  <2> QED
    BY <2>1, ThreadKinds DEF PhaseInv, Steady
<1>3. ASSUME NEW w \in Writers, Leave(w) PROVE PhaseInv'
  <2>1. /\ \A u \in Threads : u # w => pc'[u] = pc[u]
        /\ pc'[w] = "idle" /\ Steady /\ queue' = queue
    BY <1>3, Moved, ThreadKinds DEF Leave, Steady, config
  <2> QED
    BY <2>1, ThreadKinds DEF PhaseInv, Steady
<1>4. ASSUME NEW k \in Workers, Dequeue(k) PROVE PhaseInv'
  <2>1. /\ \A u \in Threads : u # k => pc'[u] = pc[u]
        /\ queue # <<>> /\ Steady
    BY <1>4, DequeueEffect
  <2> QED
    BY <2>1, ThreadKinds DEF PhaseInv, Steady
<1>5. ASSUME NEW t \in Delivering, Write(t) PROVE PhaseInv'
  <2>1. /\ \A u \in Threads : u # t => pc'[u] = pc[u]
        /\ pc[t] = "write" /\ pc'[t] \in {"write", "flush", Done(t)}
        /\ Steady /\ queue' = queue
    BY <1>5, WriteEffect
  <2>2. t \in Writers => Done(t) = "leave"
    BY DoneTypes
  <2> QED
    BY <2>1, <2>2, ThreadKinds DEF PhaseInv, Steady, Delivering
<1>6. ASSUME NEW t \in Threads, FlushSink(t) PROVE PhaseInv'
  <2>1. /\ \A u \in Threads : u # t => pc'[u] = pc[u]
        /\ pc[t] = "flush" /\ pc'[t] \in {"flush", Done(t)}
        /\ Steady /\ queue' = queue
    BY <1>6, FlushEffect
  <2>2. /\ t \in Writers => Done(t) = "leave"
        /\ t = Host => Done(t) = IF op = "flush" THEN "resume" ELSE "release"
    BY DoneTypes
  <2> QED
    BY <2>1, <2>2, ThreadKinds DEF PhaseInv, Steady, Threads
<1> QED
  BY <1>1, <1>2, <1>3, <1>4, <1>5, <1>6

\* The host's steps follow its phases.
LEMMA HostPhase ==
    ASSUME TypeOK, PhaseInv, StopInv,
           \/ Configure \/ Begin("flush") \/ Begin("shutdown") \/ Exit
           \/ WaitForActiveLogs \/ PostFlush \/ Poll \/ Resume
           \/ Release \/ PostTerminate \/ Join
    PROVE  PhaseInv'
<1> USE ThreadKinds DEF config
<1>1. CASE Configure
  <2>1. \A t \in Threads : pc'[t] = IF t \in Workers /\ async' THEN "idle" ELSE pc[t]
    BY <1>1 DEF Configure
  <2> QED
    BY <1>1, <2>1 DEF Configure, PhaseInv
<1>2. ASSUME NEW o \in {"flush", "shutdown"}, Begin(o) PROVE PhaseInv'
  <2>1. pc[Host] = "idle" /\ pc'[Host] = "wait" /\ \A u \in Delivering : pc'[u] = pc[u]
    BY <1>2, Moved DEF Begin
  <2> QED
    BY <1>2, <2>1 DEF Begin, PhaseInv
<1>3. CASE Exit
  <2>1. pc[Host] = "idle" /\ pc'[Host] = "release" /\ \A u \in Delivering : pc'[u] = pc[u]
    BY <1>3, Moved DEF Exit
  <2> QED
    BY <1>3, <2>1 DEF Exit, PhaseInv
<1>4. CASE WaitForActiveLogs
  <2>1. /\ pc[Host] = "wait" /\ pc'[Host] = IF async THEN "post_flush" ELSE "flush"
        /\ \A u \in Delivering : pc'[u] = pc[u]
    BY <1>4, Moved DEF WaitForActiveLogs
  <2> QED
    BY <1>4, <2>1 DEF WaitForActiveLogs, PhaseInv
<1>5. CASE PostFlush
  <2>1. /\ pc[Host] = "post_flush" /\ pc'[Host] = "poll"
        /\ \A u \in Delivering : pc'[u] = pc[u]
    BY <1>5, Moved DEF PostFlush
  <2> QED
    BY <1>5, <2>1 DEF PostFlush, PhaseInv
<1>6. CASE Poll
  <2>1. /\ pc[Host] = "poll" /\ pc'[Host] = "flush"
        /\ \A u \in Delivering : pc'[u] = pc[u]
    BY <1>6, Moved DEF Poll
  <2> QED
    BY <1>6, <2>1 DEF Poll, PhaseInv
<1>7. CASE Resume
  <2>1. /\ pc[Host] = "resume" /\ pc'[Host] = "idle"
        /\ \A u \in Delivering : pc'[u] = pc[u]
    BY <1>7, Moved DEF Resume
  <2> QED
    BY <1>7, <2>1 DEF Resume, PhaseInv
<1>8. CASE ~async /\ Goto(Host, "release", "idle") /\ Closed
  <2>1. /\ pc[Host] = "release" /\ pc'[Host] = "idle"
        /\ \A u \in Delivering : pc'[u] = pc[u]
    BY <1>8, Moved
  <2> QED
    BY <1>8, <2>1 DEF Closed, PhaseInv
<1>9. CASE async /\ Goto(Host, "release", "stop") /\ Release
  <2>1. /\ pc[Host] = "release" /\ pc'[Host] = "stop"
        /\ \A u \in Delivering : pc'[u] = pc[u]
    BY <1>9, Moved
  <2> QED
    BY <1>9, <2>1 DEF Release, PhaseInv
<1>10. CASE PostTerminate
  BY <1>10 DEF PostTerminate, PhaseInv
<1>11. CASE Join
  <2>1. /\ pc[Host] = "stop" /\ pc'[Host] = "idle"
        /\ \A u \in Delivering : pc'[u] = pc[u]
    BY <1>11, Moved DEF Join
  <2>2. queue = <<>> /\ queue' = queue
    BY <1>11, JoinFindsQueueEmpty DEF Join, Closed
  <2> QED
    BY <1>11, <2>1, <2>2 DEF Join, Closed, PhaseInv
<1> QED
  BY <1>1, <1>2, <1>3, <1>4, <1>5, <1>6, <1>7, <1>8, <1>9, <1>10, <1>11 DEF Release

-----------------------------------------------------------------------------
(* StopInv is inductive.                                                    *)

\* Cardinality of the places of a queue.
LEMMA CountPlaces ==
    ASSUME NEW n \in Nat
    PROVE  IsFiniteSet(1 .. n) /\ Cardinality(1 .. n) = n
<1>1. 1 \in Int /\ n \in Int
  OBVIOUS
<1>2. IsFiniteSet(1 .. n) /\ Cardinality(1 .. n) = IF 1 > n THEN 0 ELSE n - 1 + 1
  BY <1>1, FS_Interval
<1> QED
  BY <1>2

\* Stops counts two finite sets.
LEMMA StopsFinite ==
    ASSUME TypeOK
    PROVE  /\ IsFiniteSet(Stopped) /\ Cardinality(Stopped) \in Nat
           /\ IsFiniteSet(Terminates) /\ Cardinality(Terminates) \in Nat
           /\ Stops \in Nat
<1>1. Stopped \in SUBSET Workers
  BY DEF Stopped
<1>2. IsFiniteSet(Stopped)
  BY <1>1, FS_Subset, DeliveryAssumption
<1>3. DOMAIN queue = 1 .. Len(queue) /\ Len(queue) \in Nat
  BY LenProperties DEF TypeOK
<1>4. Terminates \in SUBSET (1 .. Len(queue))
  BY <1>3 DEF Terminates
<1>5. IsFiniteSet(Terminates)
  BY <1>3, <1>4, CountPlaces, FS_Subset
<1> QED
  BY <1>2, <1>5, FS_CardinalityType DEF Stops

\* Dequeue of anything but a terminate item leaves no more of them.
LEMMA FewerTerminates ==
    ASSUME TypeOK, NEW k \in Workers, Dequeue(k)
    PROVE  /\ IsFiniteSet(Terminates') /\ Cardinality(Terminates') \in Nat
           /\ Cardinality(Terminates') <= Cardinality(Terminates)
<1>1. \A i \in DOMAIN queue' : i \in Nat /\ i + 1 \in DOMAIN queue /\ queue'[i] = queue[i + 1]
  BY DequeueEffect
<1>2. \A i \in Terminates' : i \in Nat /\ i + 1 \in Terminates
  BY <1>1 DEF Terminates
<1> DEFINE f == [i \in Terminates' |-> i + 1]
<1>3. f \in Injection(Terminates', Terminates)
  <2>1. f \in [Terminates' -> Terminates] /\ \A i \in Terminates' : f[i] = i + 1
    BY <1>2
  <2> HIDE DEF f
  <2>2. \A i, j \in Terminates' : f[i] = f[j] => i = j
    BY <1>2, <2>1
  <2> QED
    BY <2>1, <2>2 DEF Injection, IsInjective
<1>4. IsFiniteSet(Terminates)
  BY StopsFinite
<1> HIDE DEF f
<1> QED
  BY <1>3, <1>4, FS_Injection, FS_CardinalityType

\* The steps of writers and workers keep the terminate items in order and in number.
LEMMA DeliveringStops ==
    ASSUME TypeOK, PhaseInv, StopInv, HandInv,
           \/ \E w \in Writers : Log(w) \/ Post(w) \/ Leave(w)
           \/ \E k \in Workers : Dequeue(k)
           \/ \E t \in Delivering : Write(t)
           \/ \E t \in Threads : FlushSink(t)
    PROVE  StopInv'
<1> USE ThreadKinds
<1>1. ASSUME queue' = queue, async' = async, pc'[Host] = pc[Host] \/ pc[Host] # "stop",
             \A k \in Workers : pc'[k] = "stopped" <=> pc[k] = "stopped"
      PROVE  StopInv'
  <2>1. Stopped' = Stopped /\ Terminates' = Terminates
    BY <1>1 DEF Stopped, Terminates
  <2>2. Stops' = Stops
    BY <2>1 DEF Stops
  <2> QED
    BY <1>1, <2>2 DEF StopInv
<1>2. ASSUME NEW w \in Writers, Log(w) PROVE StopInv'
  BY <1>1, <1>2, LogEffect DEF Steady
<1>3. ASSUME NEW w \in Writers, Leave(w) PROVE StopInv'
  BY <1>1, <1>3, Moved DEF Leave, config
<1>4. ASSUME NEW t \in Delivering, Write(t) PROVE StopInv'
  BY <1>1, <1>4, WriteEffect, DoneTypes DEF Steady
<1>5. ASSUME NEW t \in Threads, FlushSink(t) PROVE StopInv'
  BY <1>1, <1>5, FlushEffect, DoneTypes DEF Steady
<1>6. ASSUME NEW w \in Writers, Post(w) PROVE StopInv'
  <2>1. pc[Host] # "stop" /\ pc[w] = "post"
    BY <1>6, PostEffect DEF PhaseInv
  <2>2. \A i \in DOMAIN queue : queue[i].kind # "terminate"
    BY <2>1 DEF StopInv
  <2>3. hand[w].kind = "log"
    BY <2>1 DEF HandInv, Holds
  <2>4. \A i \in DOMAIN queue' : queue'[i].kind # "terminate"
    BY <1>6, <2>2, <2>3, PostEffect
  <2>5. Terminates = {} /\ Terminates' = {}
    BY <2>2, <2>4 DEF Terminates
  <2>6. pc'[Host] = pc[Host] /\ async' = async
        /\ \A k \in Workers : pc'[k] = pc[k]
    BY <1>6, PostEffect DEF Steady
  <2>7. Stopped' = Stopped
    BY <2>6 DEF Stopped
  <2>8. Stops' = Stops
    BY <2>5, <2>7 DEF Stops
  <2> QED
    BY <2>1, <2>4, <2>6, <2>8 DEF StopInv
<1>7. ASSUME NEW k \in Workers, Dequeue(k) PROVE StopInv'
  <2>1. /\ pc[k] = "idle" /\ pc'[Host] = pc[Host] /\ async' = async
        /\ \A u \in Workers : u # k => pc'[u] = pc[u]
        /\ 1 \in DOMAIN queue
        /\ Len(queue) \in Nat \ {0}
        /\ DOMAIN queue = 1 .. Len(queue) /\ DOMAIN queue' = 1 .. Len(queue) - 1
        /\ \A i \in DOMAIN queue' : i + 1 \in DOMAIN queue /\ queue'[i] = queue[i + 1]
    BY <1>7, DequeueEffect DEF Steady
  <2>2. queue[1].kind \in {"log", "flush", "terminate"}
    BY <2>1, Items, LenProperties DEF TypeOK, HandInv
  <2>3. \A i, j \in DOMAIN queue' :
            i < j /\ queue'[i].kind = "terminate" => queue'[j].kind = "terminate"
    BY <2>1 DEF StopInv
  <2>4. \A i \in DOMAIN queue' : queue'[i].kind = "terminate" => pc'[Host] = "stop"
    BY <2>1 DEF StopInv
  <2>5. CASE queue[1].kind = "terminate"
    <3>1. \A i \in DOMAIN queue : queue[i].kind = "terminate"
      BY <2>1, <2>5 DEF StopInv
    <3>2. \A i \in DOMAIN queue' : queue'[i].kind = "terminate"
      BY <2>1, <3>1
    <3>3. Terminates = 1 .. Len(queue) /\ Terminates' = 1 .. (Len(queue) - 1)
      BY <2>1, <3>1, <3>2 DEF Terminates
    <3>4. Cardinality(Terminates) = Len(queue) /\ Cardinality(Terminates') = Len(queue) - 1
      BY <2>1, <3>3, CountPlaces
    <3>5. pc'[k] = "stopped"
      BY <1>7, <2>5, DequeueEffect
    <3>6. Stopped' = Stopped \cup {k} /\ k \notin Stopped
      BY <2>1, <3>5 DEF Stopped
    <3>7. IsFiniteSet(Stopped) /\ Cardinality(Stopped) \in Nat
      BY StopsFinite
    <3>8. Cardinality(Stopped') = Cardinality(Stopped) + 1
      BY <3>6, <3>7, FS_AddElement
    <3>9. Stops' = Stops
      BY <2>1, <3>4, <3>7, <3>8 DEF Stops
    <3>10. pc[Host] = "stop"
      BY <2>1, <3>1 DEF StopInv
    <3> QED
      BY <2>1, <2>3, <2>4, <3>2, <3>9, <3>10 DEF StopInv
  <2>6. CASE queue[1].kind # "terminate"
    <3>1. pc'[k] # "stopped"
      BY <1>7, <2>2, <2>6, DequeueEffect
    <3>2. Stopped' = Stopped
      BY <2>1, <3>1 DEF Stopped
    <3>3. Stops' <= Cardinality(Workers)
      BY <1>7, <3>2, FewerTerminates, StopsFinite, FS_CardinalityType, DeliveryAssumption
         DEF Stops, StopInv
    <3>4. ~ (async /\ \E u \in Workers : pc[u] = "stopped")
      BY <2>1, <2>6 DEF StopInv
    <3> QED
      BY <2>1, <2>3, <2>4, <3>1, <3>3, <3>4 DEF StopInv
  <2> QED
    BY <2>5, <2>6
<1> QED
  BY <1>2, <1>3, <1>4, <1>5, <1>6, <1>7

\* So do the host's.
LEMMA HostStops ==
    ASSUME TypeOK, PhaseInv, StopInv,
           \/ Configure \/ Begin("flush") \/ Begin("shutdown") \/ Exit
           \/ WaitForActiveLogs \/ PostFlush \/ Poll \/ Resume
           \/ Release \/ PostTerminate \/ Join
    PROVE  StopInv'
<1> USE ThreadKinds DEF config
<1>1. ASSUME queue' = queue, async' = async, pc[Host] # "stop",
             \A k \in Workers : pc'[k] = pc[k]
      PROVE  StopInv'
  <2>1. Stopped' = Stopped /\ Terminates' = Terminates
    BY <1>1 DEF Stopped, Terminates
  <2>2. Stops' = Stops
    BY <2>1 DEF Stops
  <2> QED
    BY <1>1, <2>2 DEF StopInv
<1>2. ASSUME NEW o \in {"flush", "shutdown"}, Begin(o) PROVE StopInv'
  BY <1>1, <1>2, Moved DEF Begin
<1>3. CASE Exit \/ WaitForActiveLogs \/ Poll \/ Resume
  BY <1>1, <1>3, Moved DEF Exit, WaitForActiveLogs, Poll, Resume
<1>4. CASE Configure
  <2>1. \A t \in Threads : pc'[t] = IF t \in Workers /\ async' THEN "idle" ELSE pc[t]
    BY <1>4 DEF Configure
  <2>2. queue = <<>> /\ queue' = queue
    BY <1>4 DEF Configure, PhaseInv
  <2>3. Terminates = {} /\ Terminates' = {}
    BY <2>2 DEF Terminates
  <2>4. Stopped' \in SUBSET Workers
    BY DEF Stopped
  <2>5. Cardinality(Stopped') <= Cardinality(Workers) /\ Cardinality(Stopped') \in Nat
    BY <2>4, FS_Subset, FS_CardinalityType, DeliveryAssumption
  <2>6. Stops' <= Cardinality(Workers)
    BY <2>3, <2>5, FS_EmptySet DEF Stops
  <2>7. async' => ~ \E k \in Workers : pc'[k] = "stopped"
    BY <2>1
  <2> QED
    BY <2>2, <2>6, <2>7 DEF StopInv
<1>5. ASSUME queue' = queue, Goto(Host, "release", "idle") \/ Goto(Host, "release", "stop"),
             async' \in {async, FALSE}
      PROVE  StopInv'
  <2>1. pc[Host] = "release" /\ \A k \in Workers : pc'[k] = pc[k]
    BY <1>5, Moved
  <2>2. Stopped' = Stopped /\ Terminates' = Terminates
    BY <1>5, <2>1 DEF Stopped, Terminates
  <2>3. Stops' = Stops
    BY <2>2 DEF Stops
  <2>4. \A i \in DOMAIN queue' : queue'[i].kind # "terminate"
    BY <1>5, <2>1 DEF StopInv
  <2>5. ~ (async' /\ \E k \in Workers : pc'[k] = "stopped")
    BY <1>5, <2>1 DEF StopInv, TypeOK
  <2> QED
    BY <2>3, <2>4, <2>5 DEF StopInv
<1>6. CASE PostFlush
  <2>1. pc[Host] = "post_flush" /\ \A k \in Workers : pc'[k] = pc[k]
    BY <1>6, Moved DEF PostFlush
  <2>2. \A i \in DOMAIN queue : queue[i].kind # "terminate"
    BY <2>1 DEF StopInv
  <2>3. \A i \in DOMAIN queue' : queue'[i].kind # "terminate"
    BY <1>6, <2>2, Appended, Items DEF PostFlush, TypeOK
  <2>4. Terminates = {} /\ Terminates' = {} /\ Stopped' = Stopped
    BY <2>1, <2>2, <2>3 DEF Terminates, Stopped
  <2>5. Stops' = Stops
    BY <2>4 DEF Stops
  <2> QED
    BY <1>6, <2>1, <2>3, <2>5 DEF PostFlush, StopInv
<1>7. CASE PostTerminate
  <2>1. /\ DOMAIN queue = 1 .. Len(queue) /\ DOMAIN queue' = 1 .. Len(queue) + 1
        /\ Len(queue) \in Nat
        /\ \A i \in DOMAIN queue : queue'[i] = queue[i]
        /\ queue'[Len(queue) + 1].kind = "terminate"
    <3>1. queue \in Seq(Item) /\ [kind |-> "terminate"] \in Item
      BY Items DEF TypeOK
    <3> QED
      BY <1>7, <3>1, Appended DEF PostTerminate
  <2>2. Terminates' = Terminates \cup {Len(queue) + 1}
    BY <2>1 DEF Terminates
  <2>3. Cardinality(Terminates') <= Cardinality(Terminates) + 1 /\ Cardinality(Terminates') \in Nat
    <3>1. IsFiniteSet(Terminates) /\ Cardinality(Terminates) \in Nat
      BY StopsFinite
    <3>2. IsFiniteSet(Terminates') /\ Cardinality(Terminates') =
            IF Len(queue) + 1 \in Terminates THEN Cardinality(Terminates)
                                             ELSE Cardinality(Terminates) + 1
      BY <2>2, <3>1, FS_AddElement
    <3> QED
      BY <3>1, <3>2
  <2>4. Stopped' = Stopped
    BY <1>7 DEF PostTerminate, Stopped
  <2>5. Stops' <= Cardinality(Workers)
    BY <1>7, <2>3, <2>4, StopsFinite, FS_CardinalityType, DeliveryAssumption
       DEF PostTerminate, Stops
  <2> QED
    BY <1>7, <2>1, <2>5 DEF PostTerminate, StopInv
<1>8. CASE Join
  <2>1. queue = <<>> /\ queue' = queue /\ ~async' /\ \A k \in Workers : pc'[k] = pc[k]
    BY <1>8, JoinFindsQueueEmpty, Moved DEF Join, Closed
  <2>2. Terminates' = Terminates /\ Stopped' = Stopped
    BY <2>1 DEF Terminates, Stopped
  <2>3. Stops' = Stops
    BY <2>2 DEF Stops
  <2> QED
    BY <2>1, <2>3 DEF StopInv
<1> QED
  BY <1>2, <1>3, <1>4, <1>5, <1>6, <1>7, <1>8 DEF Release, Closed

-----------------------------------------------------------------------------
(* HandInv is inductive.                                                    *)

\* The steps of writers and workers keep the hands and positions right.
LEMMA DeliveringHands ==
    ASSUME TypeOK, PhaseInv, HandInv,
           \/ \E w \in Writers : Log(w) \/ Post(w) \/ Leave(w)
           \/ \E k \in Workers : Dequeue(k)
           \/ \E t \in Delivering : Write(t)
           \/ \E t \in Threads : FlushSink(t)
    PROVE  HandInv'
<1> USE ThreadKinds, Items
<1>1. ASSUME NEW w \in Writers, Log(w) PROVE HandInv'
  <2>1. /\ \A u \in Threads : u # w => pc'[u] = pc[u] /\ hand'[u] = hand[u]
        /\ \A u \in Writers : u # w => sent'[u] = sent[u]
        /\ pc[w] = "idle" /\ pc'[w] \in {"post", "write"}
        /\ hand'[w].kind = "log" /\ hand'[w].record = [writer |-> w, n |-> sent'[w]]
        /\ at' = at /\ queue' = queue
    BY <1>1, LogEffect
  <2> QED
    BY <2>1 DEF HandInv, Holds
<1>2. ASSUME NEW w \in Writers, Post(w) PROVE HandInv'
  <2>1. /\ \A u \in Threads : u # w => pc'[u] = pc[u] /\ hand'[u] = hand[u]
        /\ pc[w] = "post" /\ pc'[w] = "leave" /\ hand'[w] = Nothing
        /\ at' = at /\ sent' = sent
    BY <1>2, PostEffect
  <2>2. hand[w].kind = "log"
    BY <2>1 DEF HandInv, Holds
  <2>3. \A i \in DOMAIN queue' : queue'[i].kind # "none"
    BY <1>2, <2>2, PostEffect DEF HandInv
  <2> QED
    BY <2>1, <2>3 DEF HandInv, Holds
<1>3. ASSUME NEW w \in Writers, Leave(w) PROVE HandInv'
  <2>1. /\ \A u \in Threads : u # w => pc'[u] = pc[u]
        /\ pc[w] = "leave" /\ pc'[w] = "idle"
        /\ hand' = hand /\ at' = at /\ queue' = queue /\ sent' = sent
    BY <1>3, Moved DEF Leave
  <2> QED
    BY <2>1 DEF HandInv, Holds
<1>4. ASSUME NEW k \in Workers, Dequeue(k) PROVE HandInv'
  <2>1. /\ \A u \in Threads : u # k => pc'[u] = pc[u] /\ hand'[u] = hand[u]
        /\ pc[k] = "idle" /\ at' = at /\ sent' = sent
    BY <1>4, DequeueEffect
  <2>2. \/ pc'[k] = "write" /\ hand'[k].kind = "log"
        \/ pc'[k] \in {"flush", "stopped"} /\ hand'[k] = Nothing
    BY <1>4, DequeueEffect
  <2>3. \A i \in DOMAIN queue' : queue'[i].kind # "none"
    BY <1>4, DequeueEffect DEF HandInv
  <2> QED
    BY <2>1, <2>2, <2>3 DEF HandInv, Holds
<1>5. ASSUME NEW t \in Delivering, Write(t) PROVE HandInv'
  <2>1. /\ \A u \in Threads : u # t => /\ pc'[u] = pc[u]
                                       /\ hand'[u] = hand[u] /\ at'[u] = at[u]
        /\ pc[t] = "write" /\ Holds(t)
        /\ \/ pc'[t] = "write" /\ hand'[t] = hand[t]
           \/ pc'[t] = "flush" /\ hand'[t] = hand[t] /\ at'[t] = 1
           \/ pc'[t] = Done(t) /\ hand'[t] = Nothing /\ at'[t] = 1
        /\ queue' = queue /\ sent' = sent
    BY <1>5, WriteEffect
  <2>2. Done(t) \in {"idle", "leave"}
    BY DoneTypes DEF Delivering
  <2> QED
    BY <2>1, <2>2 DEF HandInv, Holds
<1>6. ASSUME NEW t \in Threads, FlushSink(t) PROVE HandInv'
  <2>1. /\ \A u \in Threads : u # t => /\ pc'[u] = pc[u]
                                       /\ hand'[u] = hand[u] /\ at'[u] = at[u]
        /\ pc[t] = "flush"
        /\ \/ pc'[t] = "flush" /\ hand'[t] = hand[t]
           \/ pc'[t] = Done(t) /\ hand'[t] = Nothing /\ at'[t] = 1
        /\ queue' = queue /\ sent' = sent
    BY <1>6, FlushEffect
  <2>2. t \in Delivering => Done(t) \in {"idle", "leave"}
    BY DoneTypes DEF Delivering
  <2> QED
    BY <2>1, <2>2 DEF HandInv, Holds
<1> QED
  BY <1>1, <1>2, <1>3, <1>4, <1>5, <1>6

\* The host's steps touch no hand, and leave its own position at the first sink.
LEMMA HostHands ==
    ASSUME TypeOK, PhaseInv, HandInv,
           \/ Configure \/ Begin("flush") \/ Begin("shutdown") \/ Exit
           \/ WaitForActiveLogs \/ PostFlush \/ Poll \/ Resume
           \/ Release \/ PostTerminate \/ Join
    PROVE  HandInv'
<1> USE ThreadKinds
<1>1. ASSUME pc[Host] # "flush", hand' = hand, at' = at, sent' = sent,
             \A t \in Delivering : pc'[t] = pc[t],
             \A i \in DOMAIN queue' : queue'[i].kind # "none"
      PROVE  HandInv'
  BY <1>1 DEF HandInv, Holds
<1>2. ASSUME queue' = queue
      PROVE  \A i \in DOMAIN queue' : queue'[i].kind # "none"
  BY <1>2 DEF HandInv
<1>3. ASSUME NEW o \in {"flush", "shutdown"}, Begin(o) PROVE HandInv'
  BY <1>1, <1>2, <1>3, Moved DEF Begin, sinkVars
<1>4. CASE Exit \/ WaitForActiveLogs \/ Poll \/ Resume
  BY <1>1, <1>2, <1>4, Moved DEF Exit, WaitForActiveLogs, Poll, Resume
<1>5. CASE PostFlush
  <2>1. \A i \in DOMAIN queue' : queue'[i].kind # "none"
    BY <1>5, Appended, Items DEF PostFlush, HandInv, TypeOK
  <2> QED
    BY <1>1, <1>5, <2>1, Moved DEF PostFlush
<1>6. CASE PostTerminate
  <2>1. \A i \in DOMAIN queue' : queue'[i].kind # "none"
    BY <1>6, Appended, Items DEF PostTerminate, HandInv, TypeOK
  <2> QED
    BY <1>1, <1>6, <2>1 DEF PostTerminate
<1>7. CASE Release \/ Join
  <2>1. pc[Host] \in {"release", "stop"} /\ \A t \in Delivering : pc'[t] = pc[t]
    BY <1>7, Moved DEF Release, Join
  <2> QED
    BY <1>1, <1>2, <1>7, <2>1 DEF Release, Join, Closed
<1>8. CASE Configure
  <2>1. /\ \A t \in Threads : pc'[t] = IF t \in Workers /\ async' THEN "idle" ELSE pc[t]
        /\ hand' = hand /\ at' = at /\ queue' = queue /\ sent' = sent /\ pc[Host] = "idle"
    BY <1>8 DEF Configure
  <2>2. \A k \in Workers : pc[k] = "stopped"
    BY <1>8 DEF PhaseInv, Configure
  <2> QED
    BY <2>1, <2>2 DEF HandInv, Holds
<1> QED
  BY <1>3, <1>4, <1>5, <1>6, <1>7, <1>8

-----------------------------------------------------------------------------
(* PlaceInv is inductive.                                                   *)

\* The steps that are the host's alone.
HostAlone ==
    \/ Configure \/ Begin("flush") \/ Begin("shutdown") \/ Exit
    \/ WaitForActiveLogs \/ PostFlush \/ Poll \/ Resume
    \/ Release \/ PostTerminate \/ Join

\* They leave every record where it is; what they append to the queue is no record.
LEMMA HostEffect ==
    ASSUME TypeOK, PhaseInv, HandInv, HostAlone
    PROVE  /\ UNCHANGED <<hand, at, sent, written, failures>>
           /\ \A t \in Delivering : Holds(t) => pc'[t] = pc[t]
           /\ \A i \in DOMAIN queue : i \in DOMAIN queue' /\ queue'[i] = queue[i]
           /\ \A i \in DOMAIN queue' : i \in DOMAIN queue \/ queue'[i].kind # "log"
<1> USE ThreadKinds DEF sinkVars
<1> DEFINE Goal == /\ UNCHANGED <<hand, at, sent, written, failures>>
                   /\ \A t \in Delivering : Holds(t) => pc'[t] = pc[t]
                   /\ \A i \in DOMAIN queue : i \in DOMAIN queue' /\ queue'[i] = queue[i]
                   /\ \A i \in DOMAIN queue' : i \in DOMAIN queue \/ queue'[i].kind # "log"
<1>1. ASSUME NEW x \in Item, x.kind # "log", queue' = Append(queue, x)
      PROVE  /\ \A i \in DOMAIN queue : i \in DOMAIN queue' /\ queue'[i] = queue[i]
             /\ \A i \in DOMAIN queue' : i \in DOMAIN queue \/ queue'[i].kind # "log"
  <2>1. queue \in Seq(Item)
    BY DEF TypeOK
  <2>2. /\ Len(queue) \in Nat
        /\ DOMAIN queue = 1 .. Len(queue) /\ DOMAIN queue' = 1 .. Len(queue) + 1
        /\ \A i \in 1 .. Len(queue) : queue'[i] = queue[i]
        /\ queue'[Len(queue) + 1] = x
    BY <1>1, <2>1, Appended
  <2> QED
    BY <1>1, <2>2
<1>2. ASSUME NEW o \in {"flush", "shutdown"}, Begin(o) PROVE Goal
  BY <1>2, Moved DEF Begin
<1>3. CASE Exit \/ WaitForActiveLogs \/ Poll \/ Resume
  BY <1>3, Moved DEF Exit, WaitForActiveLogs, Poll, Resume
<1>4. CASE PostFlush
  BY <1>1, <1>4, Moved, Items DEF PostFlush
<1>5. CASE PostTerminate
  BY <1>1, <1>5, Items DEF PostTerminate
<1>6. CASE Release \/ Join
  BY <1>6, Moved DEF Release, Join, Closed
<1>7. CASE Configure
  <2>1. /\ \A t \in Threads : pc'[t] = IF t \in Workers /\ async' THEN "idle" ELSE pc[t]
        /\ UNCHANGED <<hand, at, sent, written, failures, queue>>
    BY <1>7 DEF Configure
  <2>2. \A k \in Workers : ~Holds(k)
    BY <1>7 DEF PhaseInv, HandInv, Configure
  <2> QED
    BY <2>1, <2>2 DEF Delivering
<1> QED
  BY <1>2, <1>3, <1>4, <1>5, <1>6, <1>7 DEF HostAlone

\* A record that was not let in is nowhere.
LEMMA NextRecordIsNew ==
    ASSUME TypeOK, NEW w \in Writers, Log(w)
    PROVE  /\ hand'[w].record \in Record /\ hand'[w].record \notin Accepted
           /\ \A r : r \in Accepted' <=> r \in Accepted \/ r = hand'[w].record
<1>1. /\ hand'[w].record = [writer |-> w, n |-> sent'[w]]
      /\ sent[w] \in Nat /\ sent'[w] = sent[w] + 1 /\ sent'[w] \in 1 .. MaxRecords
      /\ \A u \in Writers : u # w => sent'[u] = sent[u]
  BY LogEffect
<1>2. /\ hand'[w].record \in Record
      /\ hand'[w].record.writer = w /\ hand'[w].record.n = sent'[w]
  BY <1>1, Items
<1>3. \A u \in Writers : sent[u] \in Nat
  BY DeliveryAssumption DEF TypeOK
<1> QED
  BY <1>1, <1>2, <1>3, Records DEF Accepted

\* Log, Post and Leave keep every record in one place.
LEMMA WriterPlaces ==
    ASSUME TypeOK, PhaseInv, HandInv, PlaceInv,
           \E w \in Writers : Log(w) \/ Post(w) \/ Leave(w)
    PROVE  PlaceInv'
<1> USE ThreadKinds
<1>1. ASSUME NEW w \in Writers, Log(w) PROVE PlaceInv'
  <2>1. /\ \A u \in Delivering : u # w => pc'[u] = pc[u] /\ hand'[u] = hand[u]
        /\ at' = at /\ queue' = queue /\ written' = written
    BY <1>1, LogEffect
  <2>2. /\ hand'[w].record \notin Accepted
        /\ \A r : r \in Accepted' <=> r \in Accepted \/ r = hand'[w].record
    BY <1>1, NextRecordIsNew
  <2> QED
    BY <2>1, <2>2 DEF PlaceInv, Holds, IsLog, ComesTo
<1>2. ASSUME NEW w \in Writers, Post(w) PROVE PlaceInv'
  <2>1. /\ \A u \in Delivering : u # w => pc'[u] = pc[u] /\ hand'[u] = hand[u]
        /\ pc[w] = "post" /\ hand'[w].kind # "log"
        /\ at' = at /\ sent' = sent /\ written' = written
    BY <1>2, PostEffect, Items
  <2>2. /\ Len(queue) \in Nat
        /\ DOMAIN queue = 1 .. Len(queue) /\ DOMAIN queue' = 1 .. Len(queue) + 1
        /\ \A i \in DOMAIN queue : queue'[i] = queue[i]
        /\ queue'[Len(queue) + 1] = hand[w]
    BY <1>2, PostEffect
  <2>3. Holds(w) /\ w \in Delivering /\ \A s \in Sinks : ComesTo(w, s)
    BY <2>1 DEF HandInv, ComesTo
  <2>4. Accepted' = Accepted
    BY <2>1 DEF Accepted
  <2> QED
    BY <2>1, <2>2, <2>3, <2>4 DEF PlaceInv, Holds, IsLog, ComesTo
<1>3. ASSUME NEW w \in Writers, Leave(w) PROVE PlaceInv'
  <2>1. /\ \A u \in Threads : u # w => pc'[u] = pc[u]
        /\ pc[w] = "leave" /\ pc'[w] = "idle"
        /\ hand' = hand /\ at' = at /\ queue' = queue /\ sent' = sent /\ written' = written
    BY <1>3, Moved DEF Leave, sinkVars
  <2>2. Accepted' = Accepted
    BY <2>1 DEF Accepted
  <2> QED
    BY <2>1, <2>2 DEF PlaceInv, Holds, IsLog, ComesTo
<1> QED
  BY <1>1, <1>2, <1>3

\* Dequeue moves a record from the queue to a hand.
LEMMA DequeuePlaces ==
    ASSUME TypeOK, PhaseInv, HandInv, PlaceInv, NEW k \in Workers, Dequeue(k)
    PROVE  PlaceInv'
<1>1. /\ \A u \in Delivering : u # k => pc'[u] = pc[u] /\ hand'[u] = hand[u]
      /\ k \in Delivering
      /\ at' = at /\ sent' = sent /\ written' = written
  BY DequeueEffect, ThreadKinds
<1>2. /\ Len(queue) \in Nat \ {0}
      /\ DOMAIN queue = 1 .. Len(queue) /\ DOMAIN queue' = 1 .. Len(queue) - 1
      /\ 1 \in DOMAIN queue
      /\ \A i \in DOMAIN queue' : i + 1 \in DOMAIN queue /\ queue'[i] = queue[i + 1]
  BY DequeueEffect
<1>3. hand'[k].kind = "log" => queue[1].kind = "log" /\ hand'[k] = queue[1]
  BY DequeueEffect, Items
<1>4. Accepted' = Accepted
  BY <1>1 DEF Accepted
<1> QED
  BY <1>1, <1>2, <1>3, <1>4 DEF PlaceInv, Holds, IsLog, ComesTo

\* The part of PlaceInv about one sink.
SinkPlaces(s) ==
    \A i \in DOMAIN written[s] :
        /\ written[s][i] \in Accepted
        /\ \A j \in DOMAIN written[s] : i # j => written[s][i] # written[s][j]
        /\ \A u \in Delivering : Holds(u) /\ ComesTo(u, s) => written[s][i] # hand[u].record
        /\ \A j \in DOMAIN queue : IsLog(j) => written[s][i] # queue[j].record

\* Write puts a record behind those the sink has; it is not among them.
LEMMA WritePlaces ==
    ASSUME TypeOK, HandInv, PlaceInv, NEW t \in Delivering, Write(t)
    PROVE  PlaceInv'
<1>1. /\ \A u \in Delivering : u # t => /\ pc'[u] = pc[u]
                                        /\ hand'[u] = hand[u] /\ at'[u] = at[u]
      /\ pc[t] = "write" /\ at[t] \in Sinks /\ Holds(t)
      /\ \/ pc'[t] = "write" /\ hand'[t] = hand[t] /\ at'[t] = at[t] + 1
         \/ pc'[t] = "flush" /\ hand'[t] = hand[t]
         \/ pc'[t] = Done(t) /\ hand'[t] = Nothing
      /\ queue' = queue /\ sent' = sent
  BY WriteEffect, ThreadKinds
<1>2. Accepted' = Accepted
  BY <1>1 DEF Accepted
<1>3. \A s \in Sinks : ComesTo(t, s)' /\ Holds(t)' => at[t] < s
  BY <1>1, Items, DeliveryAssumption DEF ComesTo, Holds, Sinks
<1>4. \A u \in Delivering : Holds(u)' => Holds(u) /\ hand'[u] = hand[u]
  BY <1>1, Items DEF Holds
<1>5. \A s \in Sinks : \A u \in Delivering : Holds(u)' /\ ComesTo(u, s)' => ComesTo(u, s)
  BY <1>1, <1>3, DeliveryAssumption DEF ComesTo, Holds, Sinks
<1>6. /\ \A u, v \in Delivering :
            u # v /\ Holds(u)' /\ Holds(v)' => hand'[u].record # hand'[v].record
      /\ \A i, j \in DOMAIN queue' :
            i # j /\ IsLog(i)' /\ IsLog(j)' => queue'[i].record # queue'[j].record
      /\ \A u \in Delivering, i \in DOMAIN queue' :
            Holds(u)' /\ IsLog(i)' => hand'[u].record # queue'[i].record
      /\ \A u \in Delivering : Holds(u)' => hand'[u].record \in Accepted'
      /\ \A i \in DOMAIN queue' : IsLog(i)' => queue'[i].record \in Accepted'
  BY <1>1, <1>2, <1>4 DEF PlaceInv, IsLog
<1>7. ASSUME NEW s \in Sinks, written'[s] = written[s]
      PROVE  SinkPlaces(s)'
  BY <1>1, <1>2, <1>4, <1>5, <1>7 DEF PlaceInv, SinkPlaces, IsLog
<1>8. ASSUME NEW s \in Sinks, s = at[t], NEW n \in Nat,
             DOMAIN written[s] = 1 .. n, DOMAIN written'[s] = 1 .. n + 1,
             \A i \in DOMAIN written[s] : written'[s][i] = written[s][i],
             written'[s][n + 1] = hand[t].record
      PROVE  SinkPlaces(s)'
  <2>1. s \in Nat /\ ComesTo(t, s)
    BY <1>1, <1>8 DEF ComesTo, Sinks
  <2>2. \A i \in DOMAIN written[s] : written[s][i] # hand[t].record
    BY <1>1, <2>1 DEF PlaceInv
  <2>3. \A i \in DOMAIN written'[s] : i \in DOMAIN written[s] \/ i = n + 1
    BY <1>8
  <2>4. \A i \in DOMAIN written'[s] : written'[s][i] \in Accepted'
    BY <1>1, <1>2, <1>8, <2>3 DEF PlaceInv
  <2>5. \A i, j \in DOMAIN written'[s] : i # j => written'[s][i] # written'[s][j]
    BY <1>8, <2>2, <2>3 DEF PlaceInv
  <2>6. ~ (Holds(t)' /\ ComesTo(t, s)')
    BY <1>3, <1>8, <2>1
  <2>7. \A i \in DOMAIN written'[s] : \A u \in Delivering :
            Holds(u)' /\ ComesTo(u, s)' => written'[s][i] # hand'[u].record
    BY <1>1, <1>4, <1>5, <1>8, <2>3, <2>6 DEF PlaceInv
  <2>8. \A i \in DOMAIN written'[s] : \A j \in DOMAIN queue' :
            IsLog(j)' => written'[s][i] # queue'[j].record
    BY <1>1, <1>8, <2>3 DEF PlaceInv, IsLog
  <2> QED
    BY <2>4, <2>5, <2>7, <2>8 DEF SinkPlaces
<1>9. \A s \in Sinks : SinkPlaces(s)'
  <2>1. CASE written' = written
    BY <1>7, <2>1
  <2>2. CASE written' # written
    <3>1. /\ \A s \in Sinks : s # at[t] => written'[s] = written[s]
          /\ Len(written[at[t]]) \in Nat
          /\ DOMAIN written[at[t]] = 1 .. Len(written[at[t]])
          /\ DOMAIN written'[at[t]] = 1 .. Len(written[at[t]]) + 1
          /\ \A i \in DOMAIN written[at[t]] : written'[at[t]][i] = written[at[t]][i]
          /\ written'[at[t]][Len(written[at[t]]) + 1] = hand[t].record
      BY <2>2, WrittenEffect
    <3>2. \A s \in Sinks : s = at[t] => SinkPlaces(s)'
      BY <1>8, <3>1
    <3> QED
      BY <1>7, <3>1, <3>2
  <2> QED
    BY <2>1, <2>2
<1> QED
  BY <1>6, <1>9 DEF PlaceInv, SinkPlaces

\* A flush and the host's steps leave all records where they are.
LEMMA OtherPlaces ==
    ASSUME TypeOK, PhaseInv, HandInv, PlaceInv,
           HostAlone \/ \E t \in Threads : FlushSink(t)
    PROVE  PlaceInv'
<1>1. CASE HostAlone
  <2>1. /\ UNCHANGED <<hand, at, sent, written>>
        /\ \A t \in Delivering : Holds(t) => pc'[t] = pc[t]
        /\ \A i \in DOMAIN queue : i \in DOMAIN queue' /\ queue'[i] = queue[i]
        /\ \A i \in DOMAIN queue' : i \in DOMAIN queue \/ queue'[i].kind # "log"
    BY <1>1, HostEffect
  <2>2. Accepted' = Accepted
    BY <2>1 DEF Accepted
  <2>3. /\ \A t \in Delivering : Holds(t)' = Holds(t)
        /\ \A t \in Delivering, s \in Sinks : Holds(t) => ComesTo(t, s)' = ComesTo(t, s)
        /\ \A i \in DOMAIN queue' : IsLog(i)' => i \in DOMAIN queue /\ IsLog(i)
    BY <2>1 DEF Holds, ComesTo, IsLog
  <2> QED
    BY <2>1, <2>2, <2>3 DEF PlaceInv
<1>2. ASSUME NEW t \in Threads, FlushSink(t) PROVE PlaceInv'
  <2>1. /\ \A u \in Threads : u # t => /\ pc'[u] = pc[u]
                                       /\ hand'[u] = hand[u] /\ at'[u] = at[u]
        /\ pc[t] = "flush"
        /\ \/ pc'[t] = "flush" /\ hand'[t] = hand[t]
           \/ pc'[t] = Done(t) /\ hand'[t] = Nothing
        /\ queue' = queue /\ sent' = sent /\ written' = written
    BY <1>2, FlushEffect
  <2>2. Accepted' = Accepted
    BY <2>1 DEF Accepted
  <2>3. \A u \in Delivering : Holds(u)' => Holds(u) /\ hand'[u] = hand[u]
    BY <2>1, Items, ThreadKinds DEF Holds
  <2>4. \A u \in Delivering, s \in Sinks : Holds(u)' /\ ComesTo(u, s)' => ComesTo(u, s)
    BY <2>1, Items, ThreadKinds DEF Holds, ComesTo
  <2> QED
    BY <2>1, <2>2, <2>3, <2>4 DEF PlaceInv, IsLog
<1> QED
  BY <1>1, <1>2

-----------------------------------------------------------------------------
(* MissingInv is inductive.                                                 *)

\* What keeps r from missing in sink s: a hand, a place of the queue, the sink itself.
Reaches(r, s) ==
    \/ \E t \in Delivering : Holds(t) /\ hand[t].record = r /\ ComesTo(t, s)
    \/ \E i \in DOMAIN queue : IsLog(i) /\ queue[i].record = r
    \/ \E i \in DOMAIN written[s] : written[s][i] = r

\* The sets of places EachRecordOnce counts, by what is in them.
LEMMA Places ==
    TypeOK => \A r \in Record, s \in Sinks :
        /\ \A t : t \in Holders(r, s) <=>
                    t \in Delivering /\ Holds(t) /\ hand[t].record = r /\ ComesTo(t, s)
        /\ \A i : i \in Queued(r) <=> i \in DOMAIN queue /\ IsLog(i) /\ queue[i].record = r
        /\ \A i : i \in Stored(r, s) <=> i \in DOMAIN written[s] /\ written[s][i] = r
<1> SUFFICES ASSUME TypeOK, NEW r \in Record, NEW s \in Sinks
             PROVE  /\ \A t : t \in Holders(r, s) <=>
                        t \in Delivering /\ Holds(t) /\ hand[t].record = r /\ ComesTo(t, s)
                    /\ \A i : i \in Queued(r) <=>
                        i \in DOMAIN queue /\ IsLog(i) /\ queue[i].record = r
                    /\ \A i : i \in Stored(r, s) <=>
                        i \in DOMAIN written[s] /\ written[s][i] = r
  OBVIOUS
<1>1. \A t \in Delivering : hand[t] \in Item
  BY ThreadKinds DEF TypeOK
<1>2. \A i \in DOMAIN queue : queue[i] \in Item
  BY LenProperties DEF TypeOK
<1>3. \A t : t \in Holders(r, s) <=>
                t \in Delivering /\ Holds(t) /\ hand[t].record = r /\ ComesTo(t, s)
  BY <1>1, Items DEF Holders, Holds, ComesTo, Delivering
<1>4. \A i : i \in Queued(r) <=> i \in DOMAIN queue /\ IsLog(i) /\ queue[i].record = r
  BY <1>2, Items DEF Queued, IsLog
<1>5. \A i : i \in Stored(r, s) <=> i \in DOMAIN written[s] /\ written[s][i] = r
  BY DEF Stored
<1> QED
  BY <1>3, <1>4, <1>5

\* A record misses a sink when it was let in and does not reach it.
LEMMA MissingMeans ==
    TypeOK => \A s \in Sinks : \A r : r \in Missing(s) <=> r \in Accepted /\ ~Reaches(r, s)
<1> SUFFICES ASSUME TypeOK, NEW s \in Sinks, NEW r
             PROVE  r \in Missing(s) <=> r \in Accepted /\ ~Reaches(r, s)
  OBVIOUS
<1>1. CASE r \in Record
  <2>1. /\ \A t : t \in Holders(r, s) <=>
                t \in Delivering /\ Holds(t) /\ hand[t].record = r /\ ComesTo(t, s)
        /\ \A i : i \in Queued(r) <=> i \in DOMAIN queue /\ IsLog(i) /\ queue[i].record = r
        /\ \A i : i \in Stored(r, s) <=> i \in DOMAIN written[s] /\ written[s][i] = r
    BY <1>1, Places
  <2>2. Reaches(r, s) <=> Holders(r, s) # {} \/ Queued(r) # {} \/ Stored(r, s) # {}
    BY <2>1 DEF Reaches
  <2> QED
    BY <2>2 DEF Missing
<1>2. CASE r \notin Record
  BY <1>2 DEF Missing, Accepted
<1> QED
  BY <1>1, <1>2

\* The same of the next state.
LEMMA MissingMeansNext ==
    (TypeOK => \A s \in Sinks : \A r : r \in Missing(s) <=> r \in Accepted /\ ~Reaches(r, s))'
BY MissingMeans, PTL

\* No step but a failing write takes a record away from a sink.
LEMMA MissingShrinks ==
    ASSUME TypeOK, TypeOK', MissingInv, NEW s \in Sinks, failures' = failures,
           \A r : r \in Accepted' /\ ~Reaches(r, s)' => r \in Accepted /\ ~Reaches(r, s)
    PROVE  IsFiniteSet(Missing(s)') /\ Cardinality(Missing(s)') <= failures'
<1>1. \A r : r \in Missing(s)' <=> r \in Accepted' /\ ~Reaches(r, s)'
  BY MissingMeansNext
<1>2. \A r : r \in Missing(s) <=> r \in Accepted /\ ~Reaches(r, s)
  BY MissingMeans
<1>3. Missing(s)' \in SUBSET Missing(s)
  BY <1>1, <1>2
<1>4. IsFiniteSet(Missing(s)) /\ Cardinality(Missing(s)) <= failures /\ failures \in Nat
  BY DeliveryAssumption DEF MissingInv, TypeOK
<1>5. /\ IsFiniteSet(Missing(s)') /\ Cardinality(Missing(s)') <= Cardinality(Missing(s))
      /\ Cardinality(Missing(s)) \in Nat /\ Cardinality(Missing(s)') \in Nat
  BY <1>3, <1>4, FS_Subset, FS_CardinalityType
<1> QED
  BY <1>4, <1>5

\* The steps of writers and workers but Write take no record away.
LEMMA DeliveringReach ==
    ASSUME TypeOK, HandInv, NEW s \in Sinks,
           \/ \E w \in Writers : Log(w) \/ Post(w) \/ Leave(w)
           \/ \E k \in Workers : Dequeue(k)
           \/ \E t \in Threads : FlushSink(t)
    PROVE  \A r : r \in Accepted' /\ ~Reaches(r, s)' => r \in Accepted /\ ~Reaches(r, s)
<1> USE ThreadKinds
<1> SUFFICES ASSUME NEW r \in Accepted', ~Reaches(r, s)'
             PROVE  r \in Accepted /\ ~Reaches(r, s)
  OBVIOUS
<1>1. ASSUME NEW w \in Writers, Log(w) PROVE r \in Accepted /\ ~Reaches(r, s)
  <2>1. /\ \A u \in Delivering : u # w => pc'[u] = pc[u] /\ hand'[u] = hand[u]
        /\ pc[w] = "idle" /\ pc'[w] \in {"post", "write"}
        /\ Holds(w)'
        /\ at' = at /\ queue' = queue /\ written' = written
    BY <1>1, LogEffect DEF Holds
  <2>2. ~Holds(w) /\ at[w] = 1 /\ w \in Delivering
    BY <2>1 DEF HandInv
  <2>3. ComesTo(w, s)'
    BY <2>1, <2>2 DEF ComesTo, Sinks
  <2>4. r # hand'[w].record
    BY <2>1, <2>2, <2>3 DEF Reaches
  <2>5. r \in Accepted
    BY <1>1, <2>4, NextRecordIsNew
  <2> QED
    BY <2>1, <2>2, <2>5 DEF Reaches, Holds, ComesTo, IsLog
<1>2. ASSUME NEW w \in Writers, Post(w) PROVE r \in Accepted /\ ~Reaches(r, s)
  <2>1. /\ \A u \in Delivering : u # w => pc'[u] = pc[u] /\ hand'[u] = hand[u]
        /\ at' = at /\ sent' = sent /\ written' = written
    BY <1>2, PostEffect
  <2>2. /\ Len(queue) \in Nat
        /\ DOMAIN queue = 1 .. Len(queue) /\ DOMAIN queue' = 1 .. Len(queue) + 1
        /\ \A i \in DOMAIN queue : queue'[i] = queue[i]
        /\ queue'[Len(queue) + 1] = hand[w]
    BY <1>2, PostEffect
  <2>3. r \in Accepted
    BY <2>1 DEF Accepted
  <2>4. ~(Holds(w) /\ hand[w].record = r)
    BY <2>2 DEF Reaches, Holds, IsLog
  <2> QED
    BY <2>1, <2>2, <2>3, <2>4 DEF Reaches, Holds, ComesTo, IsLog
<1>3. ASSUME NEW w \in Writers, Leave(w) PROVE r \in Accepted /\ ~Reaches(r, s)
  <2>1. /\ \A u \in Threads : u # w => pc'[u] = pc[u]
        /\ pc[w] = "leave"
        /\ hand' = hand /\ at' = at /\ queue' = queue /\ sent' = sent /\ written' = written
    BY <1>3, Moved DEF Leave, sinkVars
  <2>2. r \in Accepted
    BY <2>1 DEF Accepted
  <2> QED
    BY <2>1, <2>2 DEF Reaches, Holds, ComesTo, IsLog
<1>4. ASSUME NEW k \in Workers, Dequeue(k) PROVE r \in Accepted /\ ~Reaches(r, s)
  <2>1. /\ \A u \in Delivering : u # k => pc'[u] = pc[u] /\ hand'[u] = hand[u]
        /\ pc[k] = "idle"
        /\ at' = at /\ sent' = sent /\ written' = written
    BY <1>4, DequeueEffect
  <2>2. /\ Len(queue) \in Nat \ {0}
        /\ DOMAIN queue = 1 .. Len(queue) /\ DOMAIN queue' = 1 .. Len(queue) - 1
        /\ \A i \in DOMAIN queue' : queue'[i] = queue[i + 1]
    BY <1>4, DequeueEffect
  <2>3. ~Holds(k) /\ at[k] = 1 /\ k \in Delivering
    BY <2>1 DEF HandInv
  <2>4. r \in Accepted
    BY <2>1 DEF Accepted
  <2>5. ~(IsLog(1) /\ queue[1].record = r)
    <3>1. SUFFICES ASSUME IsLog(1), queue[1].record = r PROVE FALSE
      OBVIOUS
    <3>2. hand'[k] = queue[1] /\ pc'[k] = "write"
      BY <1>4, <3>1, DequeueEffect DEF IsLog
    <3>3. Holds(k)' /\ ComesTo(k, s)' /\ hand'[k].record = r
      BY <2>1, <2>3, <3>1, <3>2 DEF Holds, ComesTo, IsLog, Sinks
    <3> QED
      BY <2>3, <3>3 DEF Reaches
  <2>6. \A i \in DOMAIN queue : ~(IsLog(i) /\ queue[i].record = r)
    <3>1. TAKE i \in DOMAIN queue
    <3>2. CASE i = 1
      BY <2>5, <3>2
    <3>3. CASE i # 1
      <4>1. i - 1 \in DOMAIN queue' /\ queue'[i - 1] = queue[i]
        BY <2>2, <3>3
      <4> QED
        BY <4>1 DEF Reaches, IsLog
    <3> QED
      BY <3>2, <3>3
  <2> QED
    BY <2>1, <2>3, <2>4, <2>6 DEF Reaches, Holds, ComesTo
<1>5. ASSUME NEW t \in Threads, FlushSink(t) PROVE r \in Accepted /\ ~Reaches(r, s)
  <2>1. /\ \A u \in Threads : u # t => /\ pc'[u] = pc[u]
                                       /\ hand'[u] = hand[u] /\ at'[u] = at[u]
        /\ pc[t] = "flush"
        /\ queue' = queue /\ sent' = sent /\ written' = written
    BY <1>5, FlushEffect
  <2>2. r \in Accepted
    BY <2>1 DEF Accepted
  <2> QED
    BY <2>1, <2>2 DEF Reaches, Holds, ComesTo, IsLog
<1> QED
  BY <1>1, <1>2, <1>3, <1>4, <1>5

\* Nor do the host's.
LEMMA HostReach ==
    ASSUME TypeOK, PhaseInv, HandInv, HostAlone, NEW s \in Sinks
    PROVE  \A r : r \in Accepted' /\ ~Reaches(r, s)' => r \in Accepted /\ ~Reaches(r, s)
<1>1. /\ UNCHANGED <<hand, at, sent, written>>
      /\ \A t \in Delivering : Holds(t) => pc'[t] = pc[t]
      /\ \A i \in DOMAIN queue : i \in DOMAIN queue' /\ queue'[i] = queue[i]
  BY HostEffect
<1>2. Accepted' = Accepted
  BY <1>1 DEF Accepted
<1>3. \A r : Reaches(r, s) => Reaches(r, s)'
  BY <1>1 DEF Reaches, Holds, ComesTo, IsLog
<1> QED
  BY <1>2, <1>3

\* A write takes its record away from the sink where it fails, and counts that.
LEMMA WriteMisses ==
    ASSUME TypeOK, TypeOK', HandInv, MissingInv, NEW t \in Delivering, Write(t), NEW s \in Sinks
    PROVE  IsFiniteSet(Missing(s)') /\ Cardinality(Missing(s)') <= failures'
<1>1. /\ \A u \in Delivering : u # t => /\ pc'[u] = pc[u]
                                        /\ hand'[u] = hand[u] /\ at'[u] = at[u]
      /\ pc[t] = "write" /\ at[t] \in Sinks /\ Holds(t)
      /\ at[t] < SinkCount => pc'[t] = "write" /\ hand'[t] = hand[t] /\ at'[t] = at[t] + 1
      /\ queue' = queue /\ sent' = sent
  BY WriteEffect, ThreadKinds
<1>2. Accepted' = Accepted
  BY <1>1 DEF Accepted
<1>3. s # at[t] /\ ComesTo(t, s) =>
        Holds(t)' /\ hand'[t].record = hand[t].record /\ ComesTo(t, s)'
  BY <1>1, DeliveryAssumption DEF Holds, ComesTo, Sinks
<1>4. \A i \in DOMAIN written[s] : i \in DOMAIN written'[s] /\ written'[s][i] = written[s][i]
  BY WrittenEffect
<1>5. \A r : Reaches(r, s) /\ ~(s = at[t] /\ r = hand[t].record) => Reaches(r, s)'
  <2>1. SUFFICES ASSUME NEW r, Reaches(r, s), ~(s = at[t] /\ r = hand[t].record)
                 PROVE  Reaches(r, s)'
    OBVIOUS
  <2>2. ASSUME NEW u \in Delivering, Holds(u), hand[u].record = r, ComesTo(u, s)
        PROVE  Reaches(r, s)'
    <3>1. CASE u = t
      BY <1>3, <2>1, <2>2, <3>1 DEF Reaches
    <3>2. CASE u # t
      BY <1>1, <2>2, <3>2 DEF Reaches, Holds, ComesTo
    <3> QED
      BY <3>1, <3>2
  <2>3. ASSUME NEW i \in DOMAIN queue, IsLog(i), queue[i].record = r PROVE Reaches(r, s)'
    BY <1>1, <2>3 DEF Reaches, IsLog
  <2>4. ASSUME NEW i \in DOMAIN written[s], written[s][i] = r PROVE Reaches(r, s)'
    BY <1>4, <2>4 DEF Reaches
  <2> QED
    BY <2>1, <2>2, <2>3, <2>4 DEF Reaches
<1>6. CASE failures' = failures
  <2>1. failures # failures + 1
    BY DEF TypeOK
  <2>2. ASSUME NEW r, s = at[t], r = hand[t].record PROVE Reaches(r, s)'
    <3>1. /\ Len(written[s]) \in Nat /\ DOMAIN written'[s] = 1 .. Len(written[s]) + 1
          /\ written'[s][Len(written[s]) + 1] = r
      BY <1>6, <2>1, <2>2, WrittenEffect
    <3>2. Len(written[s]) + 1 \in DOMAIN written'[s]
      BY <3>1
    <3> QED
      BY <3>1, <3>2 DEF Reaches
  <2>3. \A r : Reaches(r, s) => Reaches(r, s)'
    BY <1>5, <2>2
  <2> QED
    BY <1>2, <1>6, <2>3, MissingShrinks
<1>7. CASE failures' = failures + 1
  <2>1. \A r : r \in Missing(s)' <=> r \in Accepted' /\ ~Reaches(r, s)'
    BY MissingMeansNext
  <2>2. \A r : r \in Missing(s) <=> r \in Accepted /\ ~Reaches(r, s)
    BY MissingMeans
  <2>3. Missing(s)' \in SUBSET (Missing(s) \cup {hand[t].record})
    BY <1>2, <1>5, <2>1, <2>2
  <2>4. IsFiniteSet(Missing(s)) /\ Cardinality(Missing(s)) <= failures /\ failures \in Nat
    BY DeliveryAssumption DEF MissingInv, TypeOK
  <2>5. /\ IsFiniteSet(Missing(s) \cup {hand[t].record})
        /\ Cardinality(Missing(s)) \in Nat
        /\ Cardinality(Missing(s) \cup {hand[t].record}) \in Nat
        /\ Cardinality(Missing(s) \cup {hand[t].record}) <= Cardinality(Missing(s)) + 1
    <3>1. Cardinality(Missing(s)) \in Nat
      BY <2>4, FS_CardinalityType
    <3>2. /\ IsFiniteSet(Missing(s) \cup {hand[t].record})
          /\ Cardinality(Missing(s) \cup {hand[t].record}) =
                IF hand[t].record \in Missing(s) THEN Cardinality(Missing(s))
                                                 ELSE Cardinality(Missing(s)) + 1
      BY <2>4, FS_AddElement
    <3> QED
      BY <3>1, <3>2
  <2>6. /\ IsFiniteSet(Missing(s)') /\ Cardinality(Missing(s)') \in Nat
        /\ Cardinality(Missing(s)') <= Cardinality(Missing(s) \cup {hand[t].record})
    BY <2>3, <2>5, FS_Subset, FS_CardinalityType
  <2> QED
    BY <1>7, <2>4, <2>5, <2>6
<1> QED
  BY <1>6, <1>7, WrittenEffect

-----------------------------------------------------------------------------
(* FlushInv and UrgentIsFlushed are inductive.                              *)

\* UrgentIsFlushed by the places of the files.
UrgentPlaces ==
    \A s \in Sinks : \A i \in DOMAIN written[s] :
        written[s][i] \in Urgent =>
            Durable(s, i) \/ \E t \in Delivering : Holds(t) /\ hand[t].record = written[s][i]

\* It says the same.
LEMMA UrgentMeans == TypeOK => (UrgentIsFlushed <=> UrgentPlaces)
<1> SUFFICES ASSUME TypeOK PROVE UrgentIsFlushed <=> UrgentPlaces
  OBVIOUS
<1>1. \A t \in Delivering, r \in Record :
          hand[t] = [kind |-> "log", record |-> r] <=> Holds(t) /\ hand[t].record = r
  <2>1. \A t \in Delivering : hand[t] \in Item
    BY ThreadKinds DEF TypeOK
  <2> QED
    BY <2>1, Items DEF Holds
<1>2. Urgent \subseteq Record
  BY DeliveryAssumption
<1>3. \A r \in Urgent, s \in Sinks : \A i : i \in Stored(r, s) <=> i \in DOMAIN written[s] /\ written[s][i] = r
  BY DEF Stored
<1>4. ASSUME NEW r \in Urgent
      PROVE  (\E t \in Writers \cup Workers : hand[t] = [kind |-> "log", record |-> r])
                <=> \E t \in Delivering : Holds(t) /\ hand[t].record = r
  BY <1>1, <1>2 DEF Delivering
<1>5. ASSUME UrgentIsFlushed PROVE UrgentPlaces
  <2>1. SUFFICES ASSUME NEW s \in Sinks, NEW i \in DOMAIN written[s], written[s][i] \in Urgent,
                        ~Durable(s, i)
                 PROVE  \E t \in Delivering : Holds(t) /\ hand[t].record = written[s][i]
    BY DEF UrgentPlaces
  <2>2. i \in Stored(written[s][i], s)
    BY <1>3, <2>1
  <2>3. \E t \in Writers \cup Workers : hand[t] = [kind |-> "log", record |-> written[s][i]]
    BY <1>5, <2>1, <2>2 DEF UrgentIsFlushed, Durable
  <2> QED
    BY <1>4, <2>1, <2>3
<1>6. ASSUME UrgentPlaces PROVE UrgentIsFlushed
  BY <1>3, <1>4, <1>6 DEF UrgentIsFlushed, UrgentPlaces, Durable
<1> QED
  BY <1>5, <1>6

\* The same of the next state.
LEMMA UrgentMeansNext == (TypeOK => (UrgentIsFlushed <=> UrgentPlaces))'
BY UrgentMeans, PTL

\* The places of a file are numbers up to its length.
LEMMA FilePlaces ==
    ASSUME TypeOK, NEW s \in Sinks
    PROVE  /\ Len(written[s]) \in Nat /\ flushed[s] \in Nat
           /\ DOMAIN written[s] = 1 .. Len(written[s])
           /\ \A i \in DOMAIN written[s] : written[s][i] \in Record
<1>1. written[s] \in Seq(Record) /\ flushed[s] \in Nat
  BY DEF TypeOK
<1> QED
  BY <1>1, LenProperties

\* The steps of writers and workers that flush nothing and write nothing.
LEMMA QuietFlushes ==
    ASSUME TypeOK, TypeOK', HandInv, PlaceInv, FlushInv, UrgentIsFlushed,
           \/ \E w \in Writers : Log(w) \/ Post(w) \/ Leave(w)
           \/ \E k \in Workers : Dequeue(k)
    PROVE  FlushInv' /\ UrgentIsFlushed'
<1> USE ThreadKinds
<1>1. ASSUME NEW t \in Delivering, UNCHANGED <<at, written, flushed, broken>>,
             \A u \in Delivering : u # t => pc'[u] = pc[u] /\ hand'[u] = hand[u],
             pc'[t] = "flush" => ~Holds(t)',
             ~Holds(t) \/ hand'[t] = hand[t] \/ \A s \in Sinks : ComesTo(t, s)
      PROVE  FlushInv' /\ UrgentIsFlushed'
  <2>1. FlushInv'
    BY <1>1 DEF FlushInv, Holds, Durable
  <2>2. UrgentPlaces
    BY UrgentMeans
  <2>3. ASSUME NEW s \in Sinks, NEW i \in DOMAIN written[s], written[s][i] \in Urgent,
               NEW u \in Delivering, Holds(u), hand[u].record = written[s][i]
        PROVE  Holds(u)' /\ hand'[u].record = written[s][i]
    BY <1>1, <2>3 DEF PlaceInv, Holds
  <2>4. UrgentPlaces'
    BY <1>1, <2>2, <2>3 DEF UrgentPlaces, Durable
  <2> QED
    BY <2>1, <2>4, UrgentMeansNext
<1>2. ASSUME NEW w \in Writers, Log(w) PROVE FlushInv' /\ UrgentIsFlushed'
  <2>1. /\ \A u \in Delivering : u # w => pc'[u] = pc[u] /\ hand'[u] = hand[u]
        /\ pc'[w] # "flush" /\ pc[w] = "idle"
        /\ UNCHANGED <<at, written, flushed, broken>>
    BY <1>2, LogEffect
  <2>2. ~Holds(w) /\ w \in Delivering
    BY <2>1 DEF HandInv
  <2> QED
    BY <1>1, <2>1, <2>2
<1>3. ASSUME NEW w \in Writers, Post(w) PROVE FlushInv' /\ UrgentIsFlushed'
  <2>1. /\ \A u \in Delivering : u # w => pc'[u] = pc[u] /\ hand'[u] = hand[u]
        /\ pc[w] = "post" /\ pc'[w] # "flush"
        /\ UNCHANGED <<at, written, flushed, broken>>
    BY <1>3, PostEffect
  <2>2. w \in Delivering /\ \A s \in Sinks : ComesTo(w, s)
    BY <2>1 DEF ComesTo
  <2> QED
    BY <1>1, <2>1, <2>2
<1>4. ASSUME NEW w \in Writers, Leave(w) PROVE FlushInv' /\ UrgentIsFlushed'
  <2>1. /\ \A u \in Delivering : u # w => pc'[u] = pc[u] /\ hand'[u] = hand[u]
        /\ pc'[w] # "flush" /\ hand' = hand
        /\ UNCHANGED <<at, written, flushed, broken>>
    BY <1>4, Moved DEF Leave, sinkVars
  <2> QED
    BY <1>1, <2>1
<1>5. ASSUME NEW k \in Workers, Dequeue(k) PROVE FlushInv' /\ UrgentIsFlushed'
  <2>1. /\ \A u \in Delivering : u # k => pc'[u] = pc[u] /\ hand'[u] = hand[u]
        /\ pc[k] = "idle"
        /\ UNCHANGED <<at, written, flushed, broken>>
    BY <1>5, DequeueEffect
  <2>2. ~Holds(k) /\ k \in Delivering
    BY <2>1 DEF HandInv
  <2>3. pc'[k] = "flush" => ~Holds(k)'
    BY <1>5, DequeueEffect, Items DEF Holds
  <2> QED
    BY <1>1, <2>1, <2>2, <2>3
<1> QED
  BY <1>2, <1>3, <1>4, <1>5

\* What a thread writes it holds until it is done with it, and if it is urgent until it
\* has flushed it.
LEMMA WriteFlushes ==
    ASSUME TypeOK, TypeOK', HandInv, PlaceInv, FlushInv, UrgentIsFlushed,
           NEW t \in Delivering, Write(t)
    PROVE  FlushInv' /\ UrgentIsFlushed'
<1>1. /\ \A u \in Delivering : u # t => /\ pc'[u] = pc[u]
                                        /\ hand'[u] = hand[u] /\ at'[u] = at[u]
      /\ at[t] \in Sinks /\ Holds(t)
      /\ \/ pc'[t] = "write" /\ hand'[t] = hand[t]
         \/ pc'[t] = "flush" /\ hand'[t] = hand[t] /\ at'[t] = 1
         \/ hand[t].record \notin Urgent /\ hand'[t] = Nothing
      /\ flushed' = flushed /\ broken' = broken
  BY WriteEffect, ThreadKinds
<1>2. \A s \in Sinks :
        /\ Len(written[s]) <= Len(written'[s])
        /\ \A i \in DOMAIN written[s] : written'[s][i] = written[s][i]
        /\ \A i \in DOMAIN written'[s] :
              i \in DOMAIN written[s] \/ written'[s][i] = hand[t].record
  <2>1. SUFFICES ASSUME NEW s \in Sinks
                 PROVE  /\ Len(written[s]) <= Len(written'[s])
                        /\ \A i \in DOMAIN written[s] : written'[s][i] = written[s][i]
                        /\ \A i \in DOMAIN written'[s] :
                              i \in DOMAIN written[s] \/ written'[s][i] = hand[t].record
    OBVIOUS
  <2>2. Len(written[s]) \in Nat
    BY FilePlaces
  <2>3. CASE s = at[t] /\ written' # written
    BY <2>2, <2>3, WrittenEffect
  <2>4. CASE s # at[t] \/ written' = written
    BY <2>2, <2>4, WrittenEffect
  <2> QED
    BY <2>3, <2>4
<1>3. \A u \in Delivering : Holds(u)' => Holds(u) /\ hand'[u] = hand[u]
  BY <1>1, Items DEF Holds
<1>4. FlushInv'
  <2>1. ASSUME NEW s \in Sinks PROVE flushed'[s] <= Len(written'[s])
    <3>1. flushed[s] \in Nat /\ Len(written[s]) \in Nat /\ Len(written'[s]) \in Nat
      BY FilePlaces DEF TypeOK
    <3> QED
      BY <1>1, <1>2, <3>1 DEF FlushInv
  <2>2. ASSUME NEW s \in Sinks, NEW i \in DOMAIN written'[s], NEW u \in Delivering,
               Holds(u)', written'[s][i] = hand'[u].record, pc'[u] = "flush", s < at'[u]
        PROVE  Durable(s, i)'
    <3>1. u # t
      BY <1>1, <2>2, Items DEF Holds, Sinks
    <3>2. hand[u].record # hand[t].record
      BY <1>1, <1>3, <2>2, <3>1 DEF PlaceInv
    <3>3. i \in DOMAIN written[s] /\ written[s][i] = hand[u].record
      BY <1>2, <1>3, <2>2, <3>2
    <3>4. Durable(s, i)
      BY <1>1, <1>3, <2>2, <3>1, <3>3 DEF FlushInv
    <3> QED
      BY <1>1, <3>4 DEF Durable
  <2> QED
    BY <2>1, <2>2 DEF FlushInv
<1>5. UrgentPlaces'
  <2>1. UrgentPlaces
    BY UrgentMeans
  <2>2. SUFFICES ASSUME NEW s \in Sinks, NEW i \in DOMAIN written'[s], written'[s][i] \in Urgent
                 PROVE  \/ Durable(s, i)'
                        \/ \E u \in Delivering : Holds(u)' /\ hand'[u].record = written'[s][i]
    BY DEF UrgentPlaces
  <2>3. \A u \in Delivering : Holds(u) /\ hand[u].record \in Urgent =>
                                Holds(u)' /\ hand'[u] = hand[u]
    BY <1>1 DEF Holds
  <2>4. CASE i \in DOMAIN written[s]
    BY <1>1, <1>2, <2>1, <2>2, <2>3, <2>4 DEF UrgentPlaces, Durable
  <2>5. CASE i \notin DOMAIN written[s]
    BY <1>1, <1>2, <2>2, <2>3, <2>5
  <2> QED
    BY <2>4, <2>5
<1> QED
  BY <1>4, <1>5, UrgentMeansNext

\* A flush makes all that its sink has durable, or leaves the sink broken.
LEMMA FlushFlushes ==
    ASSUME TypeOK, TypeOK', HandInv, PlaceInv, FlushInv, UrgentIsFlushed,
           NEW t \in Threads, FlushSink(t)
    PROVE  FlushInv' /\ UrgentIsFlushed'
<1>1. /\ \A u \in Threads : u # t => /\ pc'[u] = pc[u]
                                     /\ hand'[u] = hand[u] /\ at'[u] = at[u]
      /\ pc[t] = "flush" /\ at[t] \in Sinks
      /\ \/ pc'[t] = "flush" /\ hand'[t] = hand[t] /\ at'[t] = at[t] + 1
         \/ at[t] = SinkCount /\ hand'[t] = Nothing
      /\ written' = written
  BY FlushEffect, DeliveryAssumption DEF Sinks
<1>2. /\ flushed'[at[t]] = Len(written[at[t]]) \/ at[t] \in broken'
      /\ flushed'[at[t]] \in {Len(written[at[t]]), flushed[at[t]]}
      /\ \A s \in Sinks : s # at[t] => /\ flushed'[s] = flushed[s]
                                       /\ s \in broken' <=> s \in broken
  BY FlushEffect
<1>3. \A s \in Sinks : \A i \in DOMAIN written[s] : s = at[t] => Durable(s, i)'
  <2>1. SUFFICES ASSUME NEW s \in Sinks, NEW i \in DOMAIN written[s], s = at[t]
                 PROVE  Durable(s, i)'
    OBVIOUS
  <2>2. i \in 1 .. Len(written[s]) /\ Len(written[s]) \in Nat
    BY FilePlaces
  <2> QED
    BY <1>2, <2>1, <2>2 DEF Durable
<1>4. \A s \in Sinks : \A i \in DOMAIN written[s] : Durable(s, i) => Durable(s, i)'
  BY <1>2, <1>3 DEF Durable
<1>5. FlushInv'
  <2>1. ASSUME NEW s \in Sinks PROVE flushed'[s] <= Len(written'[s])
    <3>1. flushed[s] <= Len(written[s]) /\ Len(written[s]) \in Nat
      BY FilePlaces DEF FlushInv
    <3> QED
      BY <1>1, <1>2, <3>1
  <2>2. ASSUME NEW s \in Sinks, NEW i \in DOMAIN written'[s], NEW u \in Delivering,
               Holds(u)', written'[s][i] = hand'[u].record, pc'[u] = "flush", s < at'[u]
        PROVE  Durable(s, i)'
    <3>1. Holds(u) /\ hand'[u] = hand[u] /\ pc[u] = "flush"
      BY <1>1, <2>2, Items, ThreadKinds DEF Holds
    <3>2. s < at[u] \/ s = at[t]
      BY <1>1, <2>2, Items, ThreadKinds DEF Holds, Sinks
    <3> QED
      BY <1>1, <1>3, <1>4, <2>2, <3>1, <3>2 DEF FlushInv
  <2> QED
    BY <2>1, <2>2 DEF FlushInv
<1>6. UrgentPlaces'
  <2>1. UrgentPlaces
    BY UrgentMeans
  <2>2. SUFFICES ASSUME NEW s \in Sinks, NEW i \in DOMAIN written'[s], written'[s][i] \in Urgent
                 PROVE  \/ Durable(s, i)'
                        \/ \E u \in Delivering : Holds(u)' /\ hand'[u].record = written'[s][i]
    BY DEF UrgentPlaces
  <2>3. CASE Durable(s, i)
    BY <1>1, <1>4, <2>2, <2>3
  <2>4. ASSUME NEW u \in Delivering, Holds(u), hand[u].record = written[s][i]
        PROVE  Durable(s, i)' \/ (Holds(u)' /\ hand'[u].record = written'[s][i])
    <3>1. CASE hand'[u] = hand[u]
      BY <1>1, <2>4, <3>1 DEF Holds
    <3>2. CASE hand'[u] # hand[u]
      <4>1. u = t /\ at[t] = SinkCount
        BY <1>1, <3>2, ThreadKinds
      <4>2. s = at[t] \/ s < at[t]
        BY <4>1, DeliveryAssumption DEF Sinks
      <4>3. CASE s < at[t]
        BY <1>1, <1>4, <2>2, <2>4, <4>1, <4>3 DEF FlushInv
      <4> QED
        BY <1>1, <1>3, <2>2, <4>2, <4>3
    <3> QED
      BY <3>1, <3>2
  <2> QED
    BY <1>1, <2>1, <2>2, <2>3, <2>4 DEF UrgentPlaces
<1> QED
  BY <1>5, <1>6, UrgentMeansNext

\* The host alone flushes only by closing the sinks.
LEMMA HostFlushes ==
    ASSUME TypeOK, TypeOK', PhaseInv, HandInv, FlushInv, UrgentIsFlushed, HostAlone
    PROVE  FlushInv' /\ UrgentIsFlushed'
<1>1. /\ UNCHANGED <<hand, at, written>>
      /\ \A t \in Delivering : Holds(t) => pc'[t] = pc[t]
  BY HostEffect
<1>2. /\ \A s \in Sinks : flushed'[s] <= Len(written[s])
      /\ \A s \in Sinks : \A i \in DOMAIN written[s] : Durable(s, i) => Durable(s, i)'
  <2>1. CASE UNCHANGED <<flushed, broken>>
    BY <2>1 DEF FlushInv, Durable
  <2>2. CASE Closed
    <3>1. SUFFICES ASSUME NEW s \in Sinks
                   PROVE  /\ flushed'[s] <= Len(written[s])
                          /\ \A i \in DOMAIN written[s] : Durable(s, i)'
      OBVIOUS
    <3>2. /\ flushed[s] \in Nat /\ Len(written[s]) \in Nat /\ flushed[s] <= Len(written[s])
          /\ DOMAIN written[s] = 1 .. Len(written[s])
      BY FilePlaces DEF FlushInv
    <3>3. flushed'[s] = IF s \in broken' THEN flushed[s] ELSE Len(written[s])
      BY <2>2 DEF Closed
    <3> QED
      BY <3>2, <3>3 DEF Durable
  <2> QED
    BY <2>1, <2>2 DEF HostAlone, Configure, Begin, Exit, WaitForActiveLogs, PostFlush, Poll,
       Resume, Release, PostTerminate, Join, sinkVars
<1>3. \A t \in Delivering : Holds(t)' = Holds(t)
  BY <1>1 DEF Holds
<1>4. FlushInv'
  BY <1>1, <1>2, <1>3 DEF FlushInv
<1>5. UrgentPlaces'
  BY <1>1, <1>2, <1>3, UrgentMeans DEF UrgentPlaces
<1> QED
  BY <1>4, <1>5, UrgentMeansNext

-----------------------------------------------------------------------------
(* The inductive invariant.                                                 *)

\* Every step is one of these five kinds.
LEMMA Steps ==
    ASSUME Next
    PROVE  \/ \E w \in Writers : Log(w) \/ Post(w) \/ Leave(w)
           \/ \E k \in Workers : Dequeue(k)
           \/ \E t \in Delivering : Write(t)
           \/ \E t \in Threads : FlushSink(t)
           \/ HostAlone
BY ThreadKinds DEF Next, WriterStep, WorkerStep, HostStep, HostAlone

\* It holds when the process starts.
LEMMA InitIInv == Init => IInv
<1> SUFFICES ASSUME Init PROVE IInv
  OBVIOUS
<1>1. /\ \A t \in Threads : hand[t] = Nothing /\ at[t] = 1
      /\ \A t \in Workers : pc[t] = "stopped"
      /\ \A t \in Writers \cup {Host} : pc[t] = "idle"
      /\ queue = <<>> /\ DOMAIN queue = {}
      /\ \A w \in Writers : sent[w] = 0
      /\ \A s \in Sinks : written[s] = <<>> /\ DOMAIN written[s] = {} /\ flushed[s] = 0
  BY ThreadKinds DEF Init, Threads
<1>2. TypeOK
  <2>1. 1 \in Sinks
    BY DeliveryAssumption DEF Sinks
  <2>2. <<>> \in Seq(Item) /\ <<>> \in Seq(Record) /\ Len(<<>>) = 0
    BY EmptySeq
  <2>3. pc \in [Threads -> WriterPC \cup WorkerPC \cup HostPC]
    BY DEF Init, WriterPC, WorkerPC, HostPC
  <2>4. /\ hand \in [Threads -> Item] /\ at \in [Threads -> Sinks]
        /\ sent \in [Writers -> 0 .. MaxRecords]
        /\ written \in [Sinks -> Seq(Record)] /\ flushed \in [Sinks -> Nat]
        /\ failures \in 0 .. MaxFailures
    BY <2>1, <2>2, Items, DeliveryAssumption DEF Init
  <2>5. /\ \A w \in Writers : pc[w] \in WriterPC
        /\ \A k \in Workers : pc[k] \in WorkerPC
        /\ pc[Host] \in HostPC
    BY <1>1 DEF WriterPC, WorkerPC, HostPC
  <2>6. /\ configured \in BOOLEAN /\ async \in BOOLEAN /\ published \in BOOLEAN /\ op \in Ops
        /\ queue \in Seq(Item) /\ Len(queue) <= QueueSize /\ broken \subseteq Sinks
    <3>1. queue = <<>> /\ 0 <= QueueSize
      BY DeliveryAssumption DEF Init
    <3>2. queue \in Seq(Item) /\ Len(queue) <= QueueSize
      BY <2>2, <3>1
    <3> QED
      BY <3>2 DEF Init, Ops
  <2> QED
    BY <2>3, <2>4, <2>5, <2>6 DEF TypeOK
<1>3. PhaseInv
  BY <1>1 DEF Init, PhaseInv
<1>4. StopInv
  <2>1. Terminates = {}
    BY <1>1 DEF Terminates
  <2>2. Stopped = Workers
    BY <1>1 DEF Stopped
  <2>3. Cardinality(Workers) \in Nat
    BY FS_CardinalityType, DeliveryAssumption
  <2>4. Stops = Cardinality(Workers)
    BY <2>1, <2>2, <2>3, FS_EmptySet DEF Stops
  <2> QED
    BY <1>1, <2>3, <2>4 DEF Init, StopInv
<1>5. \A t \in Threads : ~Holds(t)
  BY <1>1, Items DEF Holds
<1>6. HandInv
  <2>1. hand[Host] = Nothing /\ at[Host] = 1
    BY <1>1, ThreadKinds
  <2>2. \A t \in Delivering : /\ hand[t].kind = "none" /\ ~Holds(t) /\ at[t] = 1
                              /\ pc[t] \in {"idle", "stopped"}
    BY <1>1, <1>5, Items, ThreadKinds DEF Delivering
  <2> QED
    BY <1>1, <2>1, <2>2, ThreadKinds DEF HandInv
<1>7. PlaceInv
  BY <1>1, <1>5, ThreadKinds DEF PlaceInv
<1>8. Accepted = {}
  BY <1>1, Records DEF Accepted
<1>9. MissingInv
  <2>1. \A s \in Sinks : Missing(s) = {}
    BY <1>8 DEF Missing
  <2>2. failures = 0 /\ IsFiniteSet({}) /\ Cardinality({}) = 0
    BY FS_EmptySet DEF Init
  <2>3. \A s \in Sinks : IsFiniteSet(Missing(s)) /\ Cardinality(Missing(s)) = 0
    BY <2>1, <2>2
  <2> QED
    BY <2>2, <2>3 DEF MissingInv
<1>10. FlushInv
  <2>1. Len(<<>>) = 0
    BY EmptySeq
  <2> QED
    BY <1>1, <2>1 DEF FlushInv
<1>11. UrgentIsFlushed
  BY <1>1, <1>2, UrgentMeans DEF UrgentPlaces
<1> QED
  BY <1>2, <1>3, <1>4, <1>6, <1>7, <1>9, <1>10, <1>11 DEF IInv

\* A step of another system leaves it as it is.
LEMMA StutterIInv ==
    ASSUME IInv, UNCHANGED vars
    PROVE  IInv'
<1>1. /\ UNCHANGED <<configured, async, published, op, pc, hand, at, queue>>
      /\ UNCHANGED <<sent, written, flushed, failures, broken>>
  BY DEF vars, config
<1>2. TypeOK'
  BY <1>1 DEF IInv, TypeOK
<1>3. PhaseInv'
  BY <1>1 DEF IInv, PhaseInv
<1>4. StopInv'
  BY <1>1 DEF IInv, StopInv, Stops, Stopped, Terminates
<1>5. HandInv'
  BY <1>1 DEF IInv, HandInv, Holds
<1>6. PlaceInv'
  BY <1>1 DEF IInv, PlaceInv, Holds, IsLog, ComesTo, Accepted
<1>7. MissingInv'
  BY <1>1 DEF IInv, MissingInv, Missing, Accepted, Holders, Queued, Stored
<1>8. FlushInv'
  BY <1>1 DEF IInv, FlushInv, Holds, Durable
<1>9. UrgentIsFlushed'
  BY <1>1 DEF IInv, UrgentIsFlushed, Stored
<1> QED
  BY <1>2, <1>3, <1>4, <1>5, <1>6, <1>7, <1>8, <1>9 DEF IInv

\* Every step keeps it.
LEMMA NextIInv ==
    ASSUME IInv, Next
    PROVE  IInv'
<1>1. TypeOK /\ PhaseInv /\ StopInv /\ HandInv /\ PlaceInv /\ MissingInv /\ FlushInv /\ UrgentIsFlushed
  BY DEF IInv
<1>2. ASSUME \E w \in Writers : Log(w) \/ Post(w) \/ Leave(w) PROVE IInv'
  <2>1. TypeOK'
    BY <1>1, <1>2, DeliveringTypes
  <2>2. PhaseInv' /\ StopInv' /\ HandInv'
    BY <1>1, <1>2, DeliveringPhase, DeliveringStops, DeliveringHands
  <2>3. PlaceInv'
    BY <1>1, <1>2, WriterPlaces
  <2>4. failures' = failures
    BY <1>2 DEF Log, Post, Leave, sinkVars
  <2>5. MissingInv'
    BY <1>1, <1>2, <2>1, <2>4, DeliveringReach, MissingShrinks DEF MissingInv
  <2>6. FlushInv' /\ UrgentIsFlushed'
    BY <1>1, <1>2, <2>1, QuietFlushes
  <2> QED
    BY <2>1, <2>2, <2>3, <2>5, <2>6 DEF IInv
<1>3. ASSUME NEW k \in Workers, Dequeue(k) PROVE IInv'
  <2>1. TypeOK'
    BY <1>1, <1>3, DeliveringTypes
  <2>2. PhaseInv' /\ StopInv' /\ HandInv'
    BY <1>1, <1>3, DeliveringPhase, DeliveringStops, DeliveringHands
  <2>3. PlaceInv'
    BY <1>1, <1>3, DequeuePlaces
  <2>4. failures' = failures
    BY <1>3 DEF Dequeue, sinkVars
  <2>5. MissingInv'
    BY <1>1, <1>3, <2>1, <2>4, DeliveringReach, MissingShrinks DEF MissingInv
  <2>6. FlushInv' /\ UrgentIsFlushed'
    BY <1>1, <1>3, <2>1, QuietFlushes
  <2> QED
    BY <2>1, <2>2, <2>3, <2>5, <2>6 DEF IInv
<1>4. ASSUME NEW t \in Delivering, Write(t) PROVE IInv'
  <2>1. TypeOK'
    BY <1>1, <1>4, WriteTypes
  <2>2. PhaseInv' /\ StopInv' /\ HandInv'
    BY <1>1, <1>4, DeliveringPhase, DeliveringStops, DeliveringHands
  <2>3. PlaceInv'
    BY <1>1, <1>4, WritePlaces
  <2>4. MissingInv'
    BY <1>1, <1>4, <2>1, WriteMisses DEF MissingInv
  <2>5. FlushInv' /\ UrgentIsFlushed'
    BY <1>1, <1>4, <2>1, WriteFlushes
  <2> QED
    BY <2>1, <2>2, <2>3, <2>4, <2>5 DEF IInv
<1>5. ASSUME NEW t \in Threads, FlushSink(t) PROVE IInv'
  <2>1. TypeOK'
    BY <1>1, <1>5, FlushTypes
  <2>2. PhaseInv' /\ StopInv' /\ HandInv'
    BY <1>1, <1>5, DeliveringPhase, DeliveringStops, DeliveringHands
  <2>3. PlaceInv'
    BY <1>1, <1>5, OtherPlaces
  <2>4. failures' = failures
    BY <1>5 DEF FlushSink
  <2>5. MissingInv'
    BY <1>1, <1>5, <2>1, <2>4, DeliveringReach, MissingShrinks DEF MissingInv
  <2>6. FlushInv' /\ UrgentIsFlushed'
    BY <1>1, <1>5, <2>1, FlushFlushes
  <2> QED
    BY <2>1, <2>2, <2>3, <2>5, <2>6 DEF IInv
<1>6. ASSUME HostAlone PROVE IInv'
  <2>1. TypeOK'
    BY <1>1, <1>6, HostTypes DEF HostAlone
  <2>2. PhaseInv' /\ StopInv' /\ HandInv'
    BY <1>1, <1>6, HostPhase, HostStops, HostHands DEF HostAlone
  <2>3. PlaceInv'
    BY <1>1, <1>6, OtherPlaces
  <2>4. failures' = failures
    BY <1>1, <1>6, HostEffect
  <2>5. MissingInv'
    BY <1>1, <1>6, <2>1, <2>4, HostReach, MissingShrinks DEF MissingInv
  <2>6. FlushInv' /\ UrgentIsFlushed'
    BY <1>1, <1>6, <2>1, HostFlushes
  <2> QED
    BY <2>1, <2>2, <2>3, <2>5, <2>6 DEF IInv
<1> QED
  BY <1>2, <1>3, <1>4, <1>5, <1>6, Steps

\* The inductive invariant holds throughout, for every number of threads, sinks, records
\* and slots.
THEOREM Invariance == Spec => []IInv
<1>1. Init => IInv
  BY InitIInv
<1>2. IInv /\ [Next]_vars => IInv'
  BY NextIInv, StutterIInv
<1> QED
  BY <1>1, <1>2, PTL DEF Spec

\* Every variable keeps its type, the queue its limit.
THEOREM TypeCorrect == Spec => []TypeOK
<1>1. IInv => TypeOK
  BY DEF IInv
<1> QED
  BY <1>1, Invariance, PTL

\* flush_on: a record at or above flush_level is on disk as soon as the thread that wrote
\* it goes on.
THEOREM UrgentRecordsAreFlushed == Spec => []UrgentIsFlushed
<1>1. IInv => UrgentIsFlushed
  BY DEF IInv
<1> QED
  BY <1>1, Invariance, PTL

-----------------------------------------------------------------------------
(* Each record once.                                                        *)

\* A set of at most one element.
LEMMA AtMostOne ==
    ASSUME NEW S, \A x, y \in S : x = y
    PROVE  IsFiniteSet(S) /\ Cardinality(S) = IF S = {} THEN 0 ELSE 1
<1>1. CASE S = {}
  BY <1>1, FS_EmptySet
<1>2. CASE S # {}
  <2>1. PICK x : S = {x}
    BY <1>2
  <2> QED
    BY <1>2, <2>1, FS_Singleton
<1> QED
  BY <1>1, <1>2

\* How many places a record has for a sink.
NumberOfPlaces(r, s) ==
    Cardinality(Holders(r, s)) + Cardinality(Queued(r)) + Cardinality(Stored(r, s))

\* It is one for a record that was let in and does not miss the sink, and zero for others.
LEMMA OnePlace ==
    ASSUME TypeOK, PlaceInv, NEW r \in Record, NEW s \in Sinks
    PROVE  /\ NumberOfPlaces(r, s) \in Nat
           /\ NumberOfPlaces(r, s) <= IF r \in Accepted THEN 1 ELSE 0
           /\ NumberOfPlaces(r, s) = 0 <=>
                Holders(r, s) = {} /\ Queued(r) = {} /\ Stored(r, s) = {}
<1>1. /\ \A t \in Holders(r, s) :
            t \in Delivering /\ Holds(t) /\ hand[t].record = r /\ ComesTo(t, s)
      /\ \A i \in Queued(r) : i \in DOMAIN queue /\ IsLog(i) /\ queue[i].record = r
      /\ \A i \in Stored(r, s) : i \in DOMAIN written[s] /\ written[s][i] = r
  BY Places
<1>2. /\ \A t, u \in Holders(r, s) : t = u
      /\ \A i, j \in Queued(r) : i = j
      /\ \A i, j \in Stored(r, s) : i = j
  BY <1>1 DEF PlaceInv
<1>3. /\ Holders(r, s) # {} => r \in Accepted /\ Queued(r) = {} /\ Stored(r, s) = {}
      /\ Queued(r) # {} => r \in Accepted /\ Holders(r, s) = {} /\ Stored(r, s) = {}
      /\ Stored(r, s) # {} => r \in Accepted /\ Holders(r, s) = {} /\ Queued(r) = {}
  BY <1>1 DEF PlaceInv
<1>4. /\ Cardinality(Holders(r, s)) = IF Holders(r, s) = {} THEN 0 ELSE 1
      /\ Cardinality(Queued(r)) = IF Queued(r) = {} THEN 0 ELSE 1
      /\ Cardinality(Stored(r, s)) = IF Stored(r, s) = {} THEN 0 ELSE 1
  BY <1>2, AtMostOne
<1> QED
  BY <1>3, <1>4 DEF NumberOfPlaces

\* No sink gets a record twice, a record on its way is in one place, and no more records
\* are missing from a sink than writes have thrown.
THEOREM RecordsAreNeitherLostNorDoubled == Spec => []EachRecordOnce
<1>1. ASSUME IInv PROVE EachRecordOnce
  <2>1. TypeOK /\ PlaceInv /\ MissingInv
    BY <1>1 DEF IInv
  <2>2. ASSUME NEW s \in Sinks
        PROVE  /\ \A r \in Record : NumberOfPlaces(r, s) <= IF r \in Accepted THEN 1 ELSE 0
               /\ Cardinality({r \in Accepted : NumberOfPlaces(r, s) = 0}) <= failures
    <3>1. \A r \in Record : NumberOfPlaces(r, s) <= IF r \in Accepted THEN 1 ELSE 0
      BY <2>1, OnePlace
    <3>2. \A r \in Accepted : NumberOfPlaces(r, s) = 0 <=>
                Holders(r, s) = {} /\ Queued(r) = {} /\ Stored(r, s) = {}
      BY <2>1, OnePlace DEF Accepted
    <3>3. {r \in Accepted : NumberOfPlaces(r, s) = 0} = Missing(s)
      BY <3>2 DEF Missing
    <3>4. Cardinality(Missing(s)) <= failures
      BY <2>1 DEF MissingInv
    <3> QED
      BY <3>1, <3>3, <3>4
  <2> QED
    BY <2>2 DEF EachRecordOnce, NumberOfPlaces
<1> QED
  BY <1>1, Invariance, PTL

-----------------------------------------------------------------------------
(* One worker: the order of the queue, and what Flush waits for.            *)

\* The only worker.
LEMMA OneWorker ==
    ASSUME Cardinality(Workers) = 1
    PROVE  \A j, k \in Workers : j = k
BY FS_Singleton, DeliveryAssumption

\* A record in a writer's hand is the writer's last.
LEMMA LastRecord ==
    ASSUME TypeOK, HandInv, NEW w \in Writers, Holds(w), NEW r \in Accepted
    PROVE  ~Before(hand[w].record, r)
<1>1. hand[w].record = [writer |-> w, n |-> sent[w]]
  BY DEF HandInv
<1>2. hand[w].record.writer = w /\ hand[w].record.n = sent[w] /\ sent[w] \in Nat
  BY <1>1, DeliveryAssumption DEF TypeOK
<1>3. r.n \in Nat /\ r.n <= sent[r.writer]
  BY Records, DeliveryAssumption DEF Accepted
<1> QED
  BY <1>2, <1>3 DEF Before

\* The queue keeps each writer's order, and the worker is ahead of it.
LEMMA NextOrder ==
    ASSUME IInv, OrderInv, Cardinality(Workers) = 1, Next
    PROVE  OrderInv'
<1> USE ThreadKinds
<1>1. TypeOK /\ PhaseInv /\ HandInv /\ PlaceInv
  BY DEF IInv
<1>2. ASSUME \A i \in DOMAIN queue' : IsLog(i)' => i \in DOMAIN queue /\ queue'[i] = queue[i],
             \A k \in Workers : Holds(k)' => Holds(k) /\ hand'[k] = hand[k]
      PROVE  OrderInv'
  BY <1>2 DEF OrderInv, IsLog
<1>3. ASSUME NEW w \in Writers, Log(w) PROVE OrderInv'
  BY <1>1, <1>2, <1>3, LogEffect, ZenonT(30) DEF Holds
<1>4. ASSUME NEW w \in Writers, Leave(w) PROVE OrderInv'
  BY <1>2, <1>4 DEF Leave, Holds
<1>5. ASSUME NEW w \in Writers, Post(w) PROVE OrderInv'
  <2>1. /\ \A k \in Workers : hand'[k] = hand[k]
        /\ pc[w] = "post" /\ Len(queue) \in Nat
        /\ DOMAIN queue = 1 .. Len(queue) /\ DOMAIN queue' = 1 .. Len(queue) + 1
        /\ \A i \in DOMAIN queue : queue'[i] = queue[i]
        /\ queue'[Len(queue) + 1] = hand[w]
    BY <1>1, <1>5, PostEffect
  <2>2. Holds(w) /\ w \in Delivering
    BY <1>1, <2>1 DEF HandInv
  <2>3. \A r \in Accepted : ~Before(hand[w].record, r)
    BY <1>1, <2>2, LastRecord
  <2>4. \A i \in DOMAIN queue : IsLog(i) => ~Before(hand[w].record, queue[i].record)
    BY <1>1, <2>3 DEF PlaceInv
  <2>5. \A k \in Workers : Holds(k) => ~Before(hand[w].record, hand[k].record)
    BY <1>1, <2>3 DEF PlaceInv
  <2>6. \A i, j \in DOMAIN queue' :
            i < j /\ IsLog(i)' /\ IsLog(j)' => ~Before(queue'[j].record, queue'[i].record)
    BY <2>1, <2>4 DEF OrderInv, IsLog
  <2>7. \A k \in Workers, i \in DOMAIN queue' :
            Holds(k)' /\ IsLog(i)' => ~Before(queue'[i].record, hand'[k].record)
    BY <2>1, <2>5 DEF OrderInv, IsLog, Holds
  <2> QED
    BY <2>6, <2>7 DEF OrderInv, Before
<1>6. ASSUME NEW k \in Workers, Dequeue(k) PROVE OrderInv'
  <2>1. /\ Len(queue) \in Nat \ {0} /\ 1 \in DOMAIN queue
        /\ DOMAIN queue = 1 .. Len(queue) /\ DOMAIN queue' = 1 .. Len(queue) - 1
        /\ \A i \in DOMAIN queue' : i + 1 \in DOMAIN queue /\ queue'[i] = queue[i + 1]
    BY <1>1, <1>6, DequeueEffect
  <2>2. hand'[k].kind = "log" => IsLog(1) /\ hand'[k] = queue[1]
    BY <1>1, <1>6, DequeueEffect, Items DEF IsLog
  <2>3. \A i, j \in DOMAIN queue' :
            i < j /\ IsLog(i)' /\ IsLog(j)' => ~Before(queue'[j].record, queue'[i].record)
    BY <2>1 DEF OrderInv, IsLog
  <2>4. \A i \in DOMAIN queue' :
            Holds(k)' /\ IsLog(i)' => ~Before(queue'[i].record, hand'[k].record)
    BY <2>1, <2>2 DEF OrderInv, IsLog, Holds
  <2> QED
    BY <2>3, <2>4, OneWorker DEF OrderInv, Before
<1>7. ASSUME NEW t \in Delivering, Write(t) PROVE OrderInv'
  <2>1. queue' = queue /\ \A u \in Delivering : Holds(u)' => hand'[u] = hand[u]
    BY <1>1, <1>7, WriteEffect, Items DEF Holds
  <2> QED
    BY <1>2, <2>1 DEF Holds
<1>8. ASSUME NEW t \in Threads, FlushSink(t) PROVE OrderInv'
  <2>1. queue' = queue /\ \A u \in Delivering : Holds(u)' => hand'[u] = hand[u]
    BY <1>1, <1>8, FlushEffect, Items DEF Holds
  <2> QED
    BY <1>2, <2>1 DEF Holds
<1>9. CASE HostAlone
  BY <1>1, <1>2, <1>9, HostEffect DEF Holds, IsLog
<1> QED
  BY <1>3, <1>4, <1>5, <1>6, <1>7, <1>8, <1>9, Steps

\* While the host drains and flushes, no call is inside.
LEMMA DrainingAlone ==
    ASSUME TypeOK, PhaseInv, HandInv, pc[Host] \in {"poll", "flush", "resume"}
    PROVE  ~published /\ \A w \in Writers : pc[w] = "idle" /\ ~Holds(w)
BY ThreadKinds DEF PhaseInv, HandInv

\* The part of DrainInv about one sink.
Drained(s) == flushed[s] = Len(written[s]) \/ s \in broken

\* The steps of writers and the worker keep what the host has drained.
LEMMA DeliveringDrain ==
    ASSUME TypeOK, PhaseInv, HandInv, DrainInv, Cardinality(Workers) = 1,
           \/ \E w \in Writers : Log(w) \/ Post(w) \/ Leave(w)
           \/ \E k \in Workers : Dequeue(k)
           \/ \E t \in Delivering : Write(t)
           \/ \E t \in Delivering : FlushSink(t)
    PROVE  DrainInv'
<1> USE ThreadKinds
<1>1. ASSUME pc[Host] \notin {"poll", "flush", "resume"}, pc'[Host] = pc[Host]
      PROVE  DrainInv'
  BY <1>1 DEF DrainInv
<1>2. ASSUME pc[Host] \in {"poll", "flush", "resume"}
      PROVE  ~ \E w \in Writers : Log(w) \/ Post(w) \/ Leave(w) \/ Write(w) \/ FlushSink(w)
  BY <1>2, DrainingAlone DEF Log, Post, Leave, Write, FlushSink, Goto
<1>3. ASSUME NEW w \in Writers, Log(w) \/ Post(w) \/ Leave(w) PROVE DrainInv'
  <2>1. pc'[Host] = pc[Host]
    BY <1>3, LogEffect, PostEffect, Moved DEF Leave
  <2> QED
    BY <1>1, <1>2, <1>3, <2>1
<1>4. ASSUME NEW k \in Workers, Dequeue(k) PROVE DrainInv'
  <2>1. /\ pc'[Host] = pc[Host] /\ pc[k] = "idle"
        /\ queue # <<>> /\ Len(queue) \in Nat \ {0}
        /\ DOMAIN queue' = 1 .. Len(queue) - 1
        /\ \A i \in DOMAIN queue' : queue'[i] = queue[i + 1]
        /\ queue[1].kind = "flush" => hand'[k] = Nothing
        /\ UNCHANGED <<at, written, flushed, broken>>
    BY <1>4, DequeueEffect
  <2>2. pc[Host] \notin {"flush", "resume"}
    BY <2>1 DEF DrainInv
  <2>3. CASE pc[Host] = "poll"
    <3>1. queue[Len(queue)].kind = "flush"
      BY <2>1, <2>3 DEF DrainInv
    <3>2. queue' \in Seq(Item) /\ Len(queue') = Len(queue) - 1
      BY <1>4, <2>1, Shifted DEF Dequeue, TypeOK
    <3>3. CASE queue' = <<>>
      <4>1. Len(queue) = 1
        BY <2>1, <3>2, <3>3, EmptySeq
      <4>2. ~Holds(k)'
        BY <2>1, <3>1, <4>1, Items DEF Holds
      <4> QED
        BY <2>1, <2>3, <3>3, <4>2, OneWorker DEF DrainInv
    <3>4. CASE queue' # <<>>
      <4>1. Len(queue') # 0
        BY <3>2, <3>4, EmptySeq
      <4>2. Len(queue') \in DOMAIN queue' /\ queue'[Len(queue')] = queue[Len(queue)]
        BY <2>1, <3>2, <4>1
      <4> QED
        BY <2>1, <2>3, <3>1, <3>4, <4>2 DEF DrainInv
    <3> QED
      BY <3>3, <3>4
  <2> QED
    BY <1>1, <2>1, <2>2, <2>3
<1>5. ASSUME NEW t \in Delivering, Write(t) PROVE DrainInv'
  <2>1. /\ pc'[Host] = pc[Host] /\ Holds(t) /\ queue' = queue /\ at'[Host] = at[Host]
        /\ \A u \in Delivering : Holds(u)' => Holds(u)
    BY <1>5, WriteEffect, Items DEF Holds
  <2>2. pc[Host] \in {"poll", "flush", "resume"} => t \in Workers
    BY <1>2, <1>5 DEF Delivering
  <2>3. pc[Host] \notin {"flush", "resume"}
    BY <2>1, <2>2 DEF DrainInv
  <2>4. CASE pc[Host] = "poll"
    BY <2>1, <2>4 DEF DrainInv
  <2> QED
    BY <1>1, <2>1, <2>3, <2>4
<1>6. ASSUME NEW t \in Delivering, FlushSink(t) PROVE DrainInv'
  <2>1. /\ pc'[Host] = pc[Host] /\ queue' = queue /\ at'[Host] = at[Host] /\ written' = written
        /\ \A u \in Delivering : Holds(u)' => Holds(u)
    BY <1>6, FlushEffect, Items DEF Holds
  <2>2. \A s \in Sinks : Drained(s) => Drained(s)'
    BY <1>6, FlushEffect DEF Drained
  <2> QED
    BY <2>1, <2>2 DEF DrainInv, Drained
<1> QED
  BY <1>3, <1>4, <1>5, <1>6

\* The host goes on to flush when the queue is empty and the worker has no record.
LEMMA HostDrain ==
    ASSUME TypeOK, PhaseInv, HandInv, DrainInv, HostAlone \/ FlushSink(Host)
    PROVE  DrainInv'
<1> USE ThreadKinds
<1>1. ASSUME pc'[Host] \notin {"poll", "flush", "resume"} PROVE DrainInv'
  BY <1>1 DEF DrainInv
<1>2. ASSUME NEW o \in {"flush", "shutdown"}, Begin(o) PROVE DrainInv'
  BY <1>1, <1>2, Moved DEF Begin
<1>3. CASE Exit \/ Resume
  BY <1>1, <1>3, Moved DEF Exit, Resume
<1>4. CASE Release \/ Join
  BY <1>1, <1>4, Moved DEF Release, Join
<1>5. CASE Configure
  <2>1. pc'[Host] = "idle"
    BY <1>5 DEF Configure
  <2> QED
    BY <1>1, <2>1
<1>6. CASE PostTerminate
  BY <1>1, <1>6 DEF PostTerminate
<1>7. CASE WaitForActiveLogs
  <2>1. pc[Host] = "wait" /\ pc'[Host] = IF async THEN "post_flush" ELSE "flush"
    BY <1>7, Moved DEF WaitForActiveLogs
  <2>2. UNCHANGED <<hand, at, queue>> /\ at[Host] = 1
    BY <1>7, <2>1 DEF WaitForActiveLogs, HandInv
  <2>3. CASE async
    BY <1>1, <2>1, <2>3
  <2>4. CASE ~async
    <3>1. queue = <<>> /\ \A k \in Workers : ~Holds(k)
      BY <2>4 DEF PhaseInv, HandInv
    <3> QED
      BY <2>1, <2>2, <2>4, <3>1 DEF DrainInv, Holds, Sinks
  <2> QED
    BY <2>3, <2>4
<1>8. CASE PostFlush
  <2>1. pc'[Host] = "poll"
    BY <1>8, Moved DEF PostFlush
  <2>2. queue' # <<>> /\ queue'[Len(queue')].kind = "flush"
    <3>1. queue \in Seq(Item) /\ [kind |-> "flush"] \in Item
      BY Items DEF TypeOK
    <3> QED
      BY <1>8, <3>1, Appended DEF PostFlush
  <2> QED
    BY <2>1, <2>2 DEF DrainInv
<1>9. CASE Poll
  <2>1. pc[Host] = "poll" /\ pc'[Host] = "flush"
    BY <1>9, Moved DEF Poll
  <2>2. UNCHANGED <<hand, at, queue>> /\ at[Host] = 1 /\ queue = <<>>
    BY <1>9, <2>1 DEF Poll, HandInv
  <2>3. \A k \in Workers : ~Holds(k)
    BY <2>1, <2>2 DEF DrainInv
  <2> QED
    BY <2>1, <2>2, <2>3 DEF DrainInv, Holds, Sinks
<1>10. CASE FlushSink(Host)
  <2>1. /\ pc[Host] = "flush" /\ queue' = queue /\ written' = written
        /\ at[Host] \in Sinks
        /\ \A k \in Workers : hand'[k] = hand[k]
        /\ \/ at[Host] < SinkCount /\ pc'[Host] = "flush" /\ at'[Host] = at[Host] + 1
           \/ at[Host] = SinkCount /\ pc'[Host] \in {"resume", "release"}
    BY <1>10, FlushEffect, DoneTypes, DeliveryAssumption DEF Sinks
  <2>2. queue = <<>> /\ \A k \in Workers : ~Holds(k)
    BY <2>1 DEF DrainInv
  <2>3. \A s \in Sinks : s = at[Host] \/ Drained(s) => Drained(s)'
    BY <1>10, <2>1, FlushEffect DEF Drained
  <2>4. \A s \in Sinks : s < at[Host] => Drained(s)
    BY <2>1 DEF DrainInv, Drained
  <2>5. \A s \in Sinks : pc'[Host] = "resume" \/ (pc'[Host] = "flush" /\ s < at'[Host]) =>
            Drained(s)'
    BY <2>1, <2>3, <2>4, DeliveryAssumption DEF Sinks
  <2> QED
    BY <2>1, <2>2, <2>5 DEF DrainInv, Drained, Holds
<1> QED
  BY <1>2, <1>3, <1>4, <1>5, <1>6, <1>7, <1>8, <1>9, <1>10 DEF HostAlone

\* With one worker the queue is in order and drained when Flush goes on.
THEOREM OneWorkerInvariance == Spec => []OneWorkerIInv
<1>1. Init => OneWorkerIInv
  <2>1. ASSUME Init PROVE OrderInv /\ DrainInv
    <3>1. queue = <<>> /\ DOMAIN queue = {} /\ pc[Host] = "idle"
      BY <2>1, ThreadKinds DEF Init
    <3> QED
      BY <3>1 DEF OrderInv, DrainInv
  <2> QED
    BY <2>1 DEF OneWorkerIInv
<1>2. IInv /\ OneWorkerIInv /\ [Next]_vars => OneWorkerIInv'
  <2>1. ASSUME IInv, OrderInv, DrainInv, Cardinality(Workers) = 1, Next
        PROVE  OrderInv' /\ DrainInv'
    <3>1. TypeOK /\ PhaseInv /\ HandInv
      BY <2>1 DEF IInv
    <3>2. OrderInv'
      BY <2>1, NextOrder
    <3>3. DrainInv'
      BY <2>1, <3>1, Steps, DeliveringDrain, HostDrain DEF Threads, Delivering
    <3> QED
      BY <3>2, <3>3
  <2>2. ASSUME OrderInv, DrainInv, UNCHANGED vars
        PROVE  OrderInv' /\ DrainInv'
    <3>1. UNCHANGED <<pc, hand, at, queue, written, flushed, broken>>
      BY <2>2 DEF vars
    <3> QED
      BY <2>2, <3>1 DEF OrderInv, DrainInv, IsLog, Holds
  <2> QED
    BY <2>1, <2>2 DEF OneWorkerIInv
<1> QED
  BY <1>1, <1>2, Invariance, PTL DEF Spec

\* What Flush promises follows from the two invariants.
LEMMA DrainedIsDelivered ==
    ASSUME IInv, OneWorkerIInv, Cardinality(Workers) = 1
    PROVE  FlushDelivers
<1>1. SUFFICES ASSUME pc[Host] = "resume", NEW s \in Sinks
               PROVE  /\ \A r \in Accepted : Holders(r, s) = {} /\ Queued(r) = {}
                      /\ flushed[s] = Len(written[s]) \/ s \in broken
  BY DEF FlushDelivers
<1>2. TypeOK /\ PhaseInv /\ HandInv /\ DrainInv
  BY DEF IInv, OneWorkerIInv
<1>3. queue = <<>> /\ DOMAIN queue = {} /\ \A k \in Workers : ~Holds(k)
  BY <1>1, <1>2 DEF DrainInv
<1>4. \A t \in Delivering : ~Holds(t)
  BY <1>1, <1>2, <1>3, DrainingAlone DEF Delivering
<1>5. \A r \in Accepted : Holders(r, s) = {} /\ Queued(r) = {}
  BY <1>2, <1>3, <1>4, Places DEF Accepted
<1> QED
  BY <1>1, <1>2, <1>5 DEF DrainInv

\* With one worker Flush comes back when every record of a finished call is in the sinks
\* and flushed.
THEOREM FlushDeliversWithOneWorker ==
    ASSUME Cardinality(Workers) = 1
    PROVE  Spec => []FlushDelivers
<1>1. IInv /\ OneWorkerIInv => FlushDelivers
  BY DrainedIsDelivered
<1> QED
  BY <1>1, Invariance, OneWorkerInvariance, PTL
=============================================================================
