--------------------------- MODULE AsyncDelivery ---------------------------
(***************************************************************************)
(* The way of a record from Log() to the sinks, and how Flush and Shutdown *)
(* wait for it (src/logger.cpp).                                           *)
(*                                                                         *)
(* With Configuration::async a call posts the record to spdlog's bounded   *)
(* queue, blocking while it is full, and worker threads take records out   *)
(* and write them to each sink.  Without it the calling thread writes to   *)
(* the sinks itself.                                                       *)
(*                                                                         *)
(* LoggerLifecycle has the steps by which a host retires the logger and    *)
(* waits for the calls that are inside; here the door is one variable,     *)
(* published, and WaitForActiveLogs one step.                              *)
(***************************************************************************)
EXTENDS Naturals, Sequences, FiniteSets

CONSTANTS
    Writers,     \* threads that call Log
    Workers,     \* threads of the pool, Configuration::async_worker_count of them
    Host,        \* the thread that calls Configure, Flush and Shutdown
    SinkCount,   \* State::sinks, in their order
    QueueSize,   \* Configuration::queue_size
    MaxRecords,  \* bound: records per writer
    MaxFailures, \* bound: writes to a sink that throw, plus sinks whose last flush threw
    Urgent       \* records at or above Configuration::flush_level

Sinks == 1 .. SinkCount
Record == [writer : Writers, n : 1 .. MaxRecords]
Item == [kind : {"log"}, record : Record] \cup [kind : {"none", "flush", "terminate"}]
Nothing == [kind |-> "none"]
LogItem(w, n) == [kind |-> "log", record |-> [writer |-> w, n |-> n]]

ASSUME DeliveryAssumption ==
    /\ IsFiniteSet(Workers) /\ Workers # {}
    /\ Writers \cap Workers = {}
    /\ Host \notin Writers \cup Workers
    /\ SinkCount \in Nat \ {0}
    /\ QueueSize \in Nat \ {0}
    /\ MaxRecords \in Nat /\ MaxFailures \in Nat
    /\ Urgent \subseteq Record

Threads == Writers \cup Workers \cup {Host}

VARIABLES
    configured,  \* State::configured
    async,       \* Configuration::async of the configuration in force
    published,   \* whether BeginLog lets calls in
    op,          \* the operation the host is in
    pc,
    hand,        \* the item a thread works on
    at,          \* the sink it is at
    queue,       \* the pool's queue
    sent,        \* how many records of a writer were let in
    written,     \* by sink, the records it has written
    flushed,     \* by sink, how many of them it has flushed
    failures,    \* writes that threw
    broken       \* sinks whose last flush threw

config == <<configured, async>>
vars == <<config, published, op, pc, hand, at, queue, sent, written, flushed, failures, broken>>
sinkVars == <<written, flushed, failures, broken>>

WriterPC == {"idle", "post", "write", "flush", "leave"}
WorkerPC == {"idle", "write", "flush", "stopped"}
HostPC == {"idle", "wait", "post_flush", "poll", "flush", "resume", "release", "stop"}
Ops == {"none", "flush", "shutdown", "exit"}

TypeOK ==
    /\ configured \in BOOLEAN /\ async \in BOOLEAN /\ published \in BOOLEAN
    /\ op \in Ops
    /\ pc \in [Threads -> WriterPC \cup WorkerPC \cup HostPC]
    /\ \A w \in Writers : pc[w] \in WriterPC
    /\ \A k \in Workers : pc[k] \in WorkerPC
    /\ pc[Host] \in HostPC
    /\ hand \in [Threads -> Item]
    /\ at \in [Threads -> Sinks]
    /\ queue \in Seq(Item) /\ Len(queue) <= QueueSize
    /\ sent \in [Writers -> 0 .. MaxRecords]
    /\ written \in [Sinks -> Seq(Record)]
    /\ flushed \in [Sinks -> Nat]
    /\ failures \in 0 .. MaxFailures
    /\ broken \subseteq Sinks

Init ==
    /\ configured = FALSE /\ async = FALSE /\ published = FALSE
    /\ op = "none"
    /\ pc = [t \in Threads |-> IF t \in Workers THEN "stopped" ELSE "idle"]
    /\ hand = [t \in Threads |-> Nothing]
    /\ at = [t \in Threads |-> 1]
    /\ queue = <<>>
    /\ sent = [w \in Writers |-> 0]
    /\ written = [s \in Sinks |-> <<>>]
    /\ flushed = [s \in Sinks |-> 0]
    /\ failures = 0
    /\ broken = {}

Goto(t, from, to) == pc[t] = from /\ pc' = [pc EXCEPT ![t] = to]

-----------------------------------------------------------------------------
(* A thread at the sinks: a worker, a writer without a pool, or the host.   *)

\* Where a thread goes when it is done with the last sink.
Done(t) ==
    CASE t \in Workers -> "idle"
      [] t \in Writers -> "leave"
      [] OTHER         -> IF op = "flush" THEN "resume" ELSE "release"

\* The next sink, or after the last one on to what follows.
NextSink(t, then) ==
    IF at[t] < SinkCount
    THEN at' = [at EXCEPT ![t] = @ + 1] /\ UNCHANGED <<pc, hand>>
    ELSE /\ at' = [at EXCEPT ![t] = 1]
         /\ pc' = [pc EXCEPT ![t] = then]
         /\ hand' = [hand EXCEPT ![t] = IF then = "flush" THEN @ ELSE Nothing]

\* Mutant: flush_on is not set.
Write_NoFlushOn(t) ==
    /\ pc[t] = "write"
    /\ written' = [written EXCEPT ![at[t]] = Append(@, hand[t].record)]
    /\ NextSink(t, Done(t))
    /\ UNCHANGED <<config, published, op, queue, sent, flushed, failures, broken>>

\* A sink's error is caught by the logger, and the next sink gets the record.
Write(t) ==
    /\ pc[t] = "write"
    /\ \/ /\ written' = [written EXCEPT ![at[t]] = Append(@, hand[t].record)]
          /\ UNCHANGED failures
       \/ /\ failures + Cardinality(broken) < MaxFailures
          /\ failures' = failures + 1
          /\ UNCHANGED written
    /\ NextSink(t, IF hand[t].record \in Urgent THEN "flush" ELSE Done(t))
    /\ UNCHANGED <<config, published, op, queue, sent, flushed, broken>>

FlushOrFail(s) ==
    \/ /\ flushed' = [flushed EXCEPT ![s] = Len(written[s])]
       /\ broken' = broken \ {s}
    \/ /\ failures + Cardinality(broken \cup {s}) <= MaxFailures
       /\ broken' = broken \cup {s}
       /\ UNCHANGED flushed

\* Mutant: the try block is around the loop, so an error hides the sinks after it.
FlushSink_StopsAtError(t) ==
    /\ pc[t] = "flush"
    /\ FlushOrFail(at[t])
    /\ IF at[t] \notin broken' THEN NextSink(t, Done(t))
       ELSE /\ at' = [at EXCEPT ![t] = 1]
            /\ pc' = [pc EXCEPT ![t] = Done(t)]
            /\ hand' = [hand EXCEPT ![t] = Nothing]
    /\ UNCHANGED <<config, published, op, queue, sent, written, failures>>

\* Mutant: after an error the loop starts again from the first sink.
FlushSink_StartsOver(t) ==
    /\ pc[t] = "flush"
    /\ FlushOrFail(at[t])
    /\ IF at[t] \notin broken' THEN NextSink(t, Done(t))
       ELSE at' = [at EXCEPT ![t] = 1] /\ UNCHANGED <<pc, hand>>
    /\ UNCHANGED <<config, published, op, queue, sent, written, failures>>

\* A flush that throws is caught for this sink; the loop goes on with the next.
FlushSink(t) ==
    /\ pc[t] = "flush"
    /\ FlushOrFail(at[t])
    /\ NextSink(t, Done(t))
    /\ UNCHANGED <<config, published, op, queue, sent, written, failures>>

-----------------------------------------------------------------------------
(* Writers and workers.                                                     *)

Log(w) ==
    /\ published
    /\ sent[w] < MaxRecords
    /\ Goto(w, "idle", IF async THEN "post" ELSE "write")
    /\ sent' = [sent EXCEPT ![w] = @ + 1]
    /\ hand' = [hand EXCEPT ![w] = LogItem(w, sent[w] + 1)]
    /\ UNCHANGED <<config, published, op, at, queue, sinkVars>>

\* Mutant: the queue has no limit.
Post_Unbounded(w) ==
    /\ Goto(w, "post", "leave")
    /\ queue' = Append(queue, hand[w])
    /\ hand' = [hand EXCEPT ![w] = Nothing]
    /\ UNCHANGED <<config, published, op, at, sent, sinkVars>>

\* Mutant: async_overflow_policy::overrun_oldest instead of block.
Post_OverrunOldest(w) ==
    /\ Goto(w, "post", "leave")
    /\ queue' = Append(IF Len(queue) < QueueSize THEN queue ELSE Tail(queue), hand[w])
    /\ hand' = [hand EXCEPT ![w] = Nothing]
    /\ UNCHANGED <<config, published, op, at, sent, sinkVars>>

Post(w) ==
    /\ Len(queue) < QueueSize
    /\ Goto(w, "post", "leave")
    /\ queue' = Append(queue, hand[w])
    /\ hand' = [hand EXCEPT ![w] = Nothing]
    /\ UNCHANGED <<config, published, op, at, sent, sinkVars>>

Leave(w) ==
    /\ Goto(w, "leave", "idle")
    /\ UNCHANGED <<config, published, op, hand, at, queue, sent, sinkVars>>

Dequeue(k) ==
    /\ queue # <<>>
    /\ Goto(k, "idle", CASE Head(queue).kind = "log"   -> "write"
                         [] Head(queue).kind = "flush" -> "flush"
                         [] OTHER                      -> "stopped")
    /\ hand' = [hand EXCEPT ![k] = IF Head(queue).kind = "log" THEN Head(queue) ELSE Nothing]
    /\ queue' = Tail(queue)
    /\ UNCHANGED <<config, published, op, at, sent, sinkVars>>

-----------------------------------------------------------------------------
(* The host.                                                               *)

Configure ==
    /\ pc[Host] = "idle" /\ ~configured
    /\ configured' = TRUE /\ async' \in BOOLEAN /\ published' = TRUE
    /\ pc' = [t \in Threads |-> IF t \in Workers /\ async' THEN "idle" ELSE pc[t]]
    /\ UNCHANGED <<op, hand, at, queue, sent, sinkVars>>

\* Flush and Shutdown retire the logger first.
Begin(o) ==
    /\ configured
    /\ Goto(Host, "idle", "wait")
    /\ op' = o
    /\ published' = FALSE
    /\ UNCHANGED <<config, hand, at, queue, sent, sinkVars>>

\* Mutant: no wait for the calls inside.
WaitForActiveLogs_Skipped ==
    /\ Goto(Host, "wait", IF async THEN "post_flush" ELSE "flush")
    /\ UNCHANGED <<config, published, op, hand, at, queue, sent, sinkVars>>

WaitForActiveLogs ==
    /\ \A w \in Writers : pc[w] = "idle"
    /\ Goto(Host, "wait", IF async THEN "post_flush" ELSE "flush")
    /\ UNCHANGED <<config, published, op, hand, at, queue, sent, sinkVars>>

\* logger->flush() only posts a request.
PostFlush ==
    /\ Len(queue) < QueueSize
    /\ Goto(Host, "post_flush", "poll")
    /\ queue' = Append(queue, [kind |-> "flush"])
    /\ UNCHANGED <<config, published, op, hand, at, sent, sinkVars>>

\* Mutant: no loop over queue_size().
Poll_Skipped ==
    /\ Goto(Host, "poll", "flush")
    /\ UNCHANGED <<config, published, op, hand, at, queue, sent, sinkVars>>

\* The loop over queue_size(), left when it is zero; the sinks are flushed next.
Poll ==
    /\ queue = <<>>
    /\ Goto(Host, "poll", "flush")
    /\ UNCHANGED <<config, published, op, hand, at, queue, sent, sinkVars>>

Resume ==
    /\ Goto(Host, "resume", "idle")
    /\ published' = TRUE
    /\ op' = "none"
    /\ UNCHANGED <<config, hand, at, queue, sent, sinkVars>>

\* The sinks are gone, which closes their files and so flushes them; a sink that could
\* not be flushed may fail here too.
Closed ==
    /\ configured' = FALSE /\ async' = FALSE
    /\ op' = "none"
    /\ broken' \in SUBSET broken
    /\ flushed' = [s \in Sinks |-> IF s \in broken' THEN flushed[s] ELSE Len(written[s])]
    /\ UNCHANGED <<published, hand, at, queue, sent, written, failures>>

\* logger.reset() and sinks.clear() close the sinks, unless there is a pool whose
\* items may still hold the logger; then ~thread_pool() runs.
Release ==
    \/ ~async /\ Goto(Host, "release", "idle") /\ Closed
    \/ /\ async /\ Goto(Host, "release", "stop")
       /\ UNCHANGED <<config, published, op, hand, at, queue, sent, sinkVars>>

\* ~thread_pool(): one terminate item for each worker, then join.
Stopped == {k \in Workers : pc[k] = "stopped"}
Terminates == {i \in DOMAIN queue : queue[i].kind = "terminate"}
Stops == Cardinality(Stopped) + Cardinality(Terminates)

\* Mutant: one terminate item for the whole pool.
PostTerminate_Once ==
    /\ pc[Host] = "stop"
    /\ Stops < 1
    /\ Len(queue) < QueueSize
    /\ queue' = Append(queue, [kind |-> "terminate"])
    /\ UNCHANGED <<config, published, op, pc, hand, at, sent, sinkVars>>

PostTerminate ==
    /\ pc[Host] = "stop"
    /\ Stops < Cardinality(Workers)
    /\ Len(queue) < QueueSize
    /\ queue' = Append(queue, [kind |-> "terminate"])
    /\ UNCHANGED <<config, published, op, pc, hand, at, sent, sinkVars>>

Join ==
    /\ \A k \in Workers : pc[k] = "stopped"
    /\ Goto(Host, "stop", "idle")
    /\ Closed

\* The process ends without Shutdown.  No thread logs any more; the members of State
\* are destroyed in reverse order, so the pool drains and joins before the logger and
\* the sinks go.  Afterwards another process may start and configure.
Exit ==
    /\ configured
    /\ \A w \in Writers : pc[w] = "idle"
    /\ Goto(Host, "idle", "release")
    /\ op' = "exit"
    /\ published' = FALSE
    /\ UNCHANGED <<config, hand, at, queue, sent, sinkVars>>

-----------------------------------------------------------------------------

WriterStep(w) == Write(w) \/ FlushSink(w) \/ Post(w) \/ Leave(w)
WorkerStep(k) == Write(k) \/ FlushSink(k) \/ Dequeue(k)
HostStep ==
    \/ WaitForActiveLogs \/ PostFlush \/ Poll \/ FlushSink(Host) \/ Resume
    \/ Release \/ PostTerminate \/ Join

Next ==
    \/ \E w \in Writers : Log(w) \/ WriterStep(w)
    \/ \E k \in Workers : WorkerStep(k)
    \/ Configure \/ Begin("flush") \/ Begin("shutdown") \/ Exit \/ HostStep

Spec == Init /\ [][Next]_vars

\* Every thread that can run does; nobody has to call the library.
Fairness ==
    /\ \A w \in Writers : WF_vars(WriterStep(w))
    /\ \A k \in Workers : WF_vars(WorkerStep(k))
    /\ WF_vars(HostStep)

FairSpec == Spec /\ Fairness

-----------------------------------------------------------------------------
(* Properties.                                                             *)

Accepted == {r \in Record : r.n <= sent[r.writer]}

\* The threads that hold r and have not yet come past sink s, and the places of
\* r in the queue.
Holders(r, s) == {t \in Writers \cup Workers :
                    /\ hand[t] = [kind |-> "log", record |-> r]
                    /\ pc[t] = "post" \/ (pc[t] = "write" /\ at[t] <= s)}
Queued(r) == {i \in DOMAIN queue : queue[i] = [kind |-> "log", record |-> r]}
Stored(r, s) == {i \in DOMAIN written[s] : written[s][i] = r}

\* No sink gets a record twice, none is missing but those whose write threw, and
\* every record on its way is in one place only.
EachRecordOnce ==
    \A s \in Sinks :
        LET Places(r) == Cardinality(Holders(r, s)) + Cardinality(Queued(r))
                         + Cardinality(Stored(r, s))
            missing == {r \in Accepted : Places(r) = 0}
        IN  /\ \A r \in Record : Places(r) <= IF r \in Accepted THEN 1 ELSE 0
            /\ Cardinality(missing) <= failures

\* A record at or above flush_level is on disk, with all that the sink wrote before
\* it, as soon as the thread that wrote it has gone on (flush_on), unless the flush of
\* this very sink failed.
UrgentIsFlushed ==
    \A r \in Urgent, s \in Sinks : \A i \in Stored(r, s) :
        i <= flushed[s] \/ s \in broken \/ \E t \in Writers \cup Workers :
                               hand[t] = [kind |-> "log", record |-> r]

\* When Flush comes back, every record of a finished Log call is in the sinks and
\* flushed (include/platform_logging/logger.h: "drains pending async work, and
\* flushes all active sinks"); an error in one sink does not keep it from the others.
FlushDelivers ==
    pc[Host] = "resume" =>
        \A s \in Sinks : /\ \A r \in Accepted : Holders(r, s) = {} /\ Queued(r) = {}
                         /\ flushed[s] = Len(written[s]) \/ s \in broken

\* Flush and Shutdown return: nobody waits for a slot of the queue that the workers
\* will not free, and every worker gets its terminate item.
OperationReturns == op # "none" ~> op = "none"

\* A record that was let in gets through all sinks, also if nobody ever flushes.
AcceptedIsDelivered ==
    \A r \in Record :
        r \in Accepted ~> \A s \in Sinks : Holders(r, s) = {} /\ Queued(r) = {}

\* The door that LoggerLifecycle implements in detail is the one this module has: the
\* steps in which it is shut, waited at and opened keep its promise.  Nobody is at it
\* when the process exits.
Inside == {w \in Writers : pc[w] # "idle"}
Working == op \in {"flush", "shutdown"} /\ pc[Host] # "wait"
Door == INSTANCE Admission WITH
    Calls <- Writers,
    open <- published,
    inside <- Inside,
    working <- Working
ImplementsAdmission == Door!Spec

\* The library implements LogService.  With one worker, or no pool, a sink has each
\* thread's records in their order and Flush drains; with more neither is promised.
Status == IF ~configured THEN "off" ELSE IF published THEN "on" ELSE "paused"
Pending == [s \in Sinks |-> {r \in Accepted : Holders(r, s) # {} \/ Queued(r) # {}}]
Service == INSTANCE LogService WITH
    Records <- Record,
    Ordered <- Cardinality(Workers) <= 1,
    FlushDrains <- Cardinality(Workers) <= 1,
    status <- Status,
    accepted <- Accepted,
    pending <- Pending,
    stored <- written,
    durable <- flushed,
    failing <- broken
ImplementsLogService == Service!Spec

-----------------------------------------------------------------------------
(* Why the properties hold: an inductive invariant.  AsyncDeliveryProofs has *)
(* the proofs.                                                               *)

Delivering == Writers \cup Workers
Holds(t) == hand[t].kind = "log"
IsLog(i) == queue[i].kind = "log"
ComesTo(t, s) == pc[t] = "post" \/ (pc[t] = "write" /\ at[t] <= s)
Before(q, r) == q.writer = r.writer /\ q.n < r.n

\* The host works behind a shut door.  A writer is inside only while the door is open
\* or the host waits for it; without a pool nothing is queued and no worker runs.
PhaseInv ==
    /\ op = "none" <=> pc[Host] = "idle"
    /\ published <=> configured /\ pc[Host] = "idle"
    /\ pc[Host] # "idle" \/ async => configured
    /\ pc[Host] \in {"post_flush", "poll", "stop"} => async
    /\ pc[Host] = "resume" => op = "flush"
    /\ pc[Host] \in {"release", "stop"} => op # "flush"
    /\ \A w \in Writers : pc[w] # "idle" => published \/ pc[Host] = "wait"
    /\ \A w \in Writers : /\ pc[w] = "post" => async
                          /\ pc[w] \in {"write", "flush"} => ~async
    /\ ~async => queue = <<>> /\ \A k \in Workers : pc[k] = "stopped"

\* The terminate items come last and are no more than there are workers.
StopInv ==
    /\ \A i, j \in DOMAIN queue :
        i < j /\ queue[i].kind = "terminate" => queue[j].kind = "terminate"
    /\ \A i \in DOMAIN queue : queue[i].kind = "terminate" => pc[Host] = "stop"
    /\ async /\ (\E k \in Workers : pc[k] = "stopped") =>
        /\ pc[Host] = "stop"
        /\ \A i \in DOMAIN queue : queue[i].kind = "terminate"
    /\ Stops <= Cardinality(Workers)

\* A thread has a record in its hand exactly while it posts or writes it, or flushes
\* after it; its own position is the first sink everywhere else.
HandInv ==
    /\ hand[Host] = Nothing
    /\ \A t \in Delivering :
        /\ hand[t].kind \in {"none", "log"}
        /\ pc[t] \in {"post", "write"} => Holds(t)
        /\ Holds(t) => pc[t] \in {"post", "write", "flush"}
        /\ pc[t] \notin {"write", "flush"} => at[t] = 1
    /\ pc[Host] # "flush" => at[Host] = 1
    /\ \A w \in Writers : Holds(w) => hand[w].record = [writer |-> w, n |-> sent[w]]
    /\ \A i \in DOMAIN queue : queue[i].kind # "none"

\* A record is in one hand or at one place of the queue; it is in no sink that it has
\* not yet come to, and in no sink twice.
PlaceInv ==
    /\ \A t, u \in Delivering :
        t # u /\ Holds(t) /\ Holds(u) => hand[t].record # hand[u].record
    /\ \A i, j \in DOMAIN queue :
        i # j /\ IsLog(i) /\ IsLog(j) => queue[i].record # queue[j].record
    /\ \A t \in Delivering, i \in DOMAIN queue :
        Holds(t) /\ IsLog(i) => hand[t].record # queue[i].record
    /\ \A t \in Delivering : Holds(t) => hand[t].record \in Accepted
    /\ \A i \in DOMAIN queue : IsLog(i) => queue[i].record \in Accepted
    /\ \A s \in Sinks : \A i \in DOMAIN written[s] :
        /\ written[s][i] \in Accepted
        /\ \A j \in DOMAIN written[s] : i # j => written[s][i] # written[s][j]
        /\ \A t \in Delivering :
            Holds(t) /\ ComesTo(t, s) => written[s][i] # hand[t].record
        /\ \A j \in DOMAIN queue : IsLog(j) => written[s][i] # queue[j].record

\* The accepted records that are neither on their way to a sink nor in it.
Missing(s) == {r \in Accepted : Holders(r, s) = {} /\ Queued(r) = {} /\ Stored(r, s) = {}}
MissingInv ==
    \A s \in Sinks : IsFiniteSet(Missing(s)) /\ Cardinality(Missing(s)) <= failures

\* What a thread that flushes has come past is flushed.
Durable(s, i) == i <= flushed[s] \/ s \in broken
FlushInv ==
    /\ \A s \in Sinks : flushed[s] <= Len(written[s])
    /\ \A s \in Sinks : \A i \in DOMAIN written[s] : \A t \in Delivering :
        /\ Holds(t) /\ written[s][i] = hand[t].record /\ pc[t] = "flush" /\ s < at[t]
        => Durable(s, i)

\* A record that EmitPayload hands to spdlog is in one hand or one place of the queue
\* until every sink has had its turn with it, whoever runs: writers, the workers of
\* the pool, and the host that flushes or takes everything down behind the shut door.
IInv == TypeOK /\ PhaseInv /\ StopInv /\ HandInv /\ PlaceInv /\ MissingInv /\ FlushInv
        /\ UrgentIsFlushed

\* With one worker the queue is the order of the records, and the host's flush request
\* is the last item of it.
OrderInv ==
    /\ \A i, j \in DOMAIN queue :
        i < j /\ IsLog(i) /\ IsLog(j) => ~Before(queue[j].record, queue[i].record)
    /\ \A k \in Workers, i \in DOMAIN queue :
        Holds(k) /\ IsLog(i) => ~Before(queue[i].record, hand[k].record)

DrainInv ==
    /\ pc[Host] = "poll" => IF queue = <<>> THEN \A k \in Workers : ~Holds(k)
                            ELSE queue[Len(queue)].kind = "flush"
    /\ pc[Host] \in {"flush", "resume"} => queue = <<>> /\ \A k \in Workers : ~Holds(k)
    /\ \A s \in Sinks : pc[Host] = "resume" \/ (pc[Host] = "flush" /\ s < at[Host]) =>
        flushed[s] = Len(written[s]) \/ s \in broken

\* What FlushUnlocked relies on when it asks for nothing but an empty queue: with one
\* worker its flush request is the last item, so that the queue is empty only when
\* the worker has put down every record.
OneWorkerIInv == Cardinality(Workers) = 1 => OrderInv /\ DrainInv
=============================================================================
