----------------------------- MODULE LogService -----------------------------
(***************************************************************************)
(* What the library promises about the records it accepts, as the comments *)
(* of include/platform_logging/logger.h put it: Shutdown and Flush block   *)
(* new calls, drain the pending work and flush every sink.  It knows no    *)
(* threads and no queue: an accepted record is pending at each sink until  *)
(* the sink stores it, once, or fails to.                                  *)
(***************************************************************************)
EXTENDS Naturals, Sequences

CONSTANTS
    Records,     \* records [writer, n]: the n-th record of a thread
    Sinks,
    Ordered,     \* whether a sink stores a thread's records in their order
    FlushDrains  \* whether Flush, like Shutdown, waits for the pending records

VARIABLES
    status,      \* "off", "on", or "paused" inside Flush and Shutdown
    accepted,    \* the records of calls that were let in
    pending,     \* by sink, the accepted records still on their way
    stored,      \* by sink, the records it has written, in order
    durable,     \* by sink, how many of them it has flushed
    failing      \* sinks that could not be flushed when it was last tried

svars == <<status, accepted, pending, stored, durable, failing>>

Earlier(q, r) == q.writer = r.writer /\ q.n < r.n

Init ==
    /\ status = "off"
    /\ accepted = {}
    /\ pending = [s \in Sinks |-> {}]
    /\ stored = [s \in Sinks |-> <<>>]
    /\ durable = [s \in Sinks |-> 0]
    /\ failing = {}

Drained == \A s \in Sinks : /\ pending[s] = {}
                            /\ durable[s] = Len(stored[s]) \/ s \in failing

Open ==
    /\ status = "off"
    /\ status' = "on"
    /\ UNCHANGED <<accepted, pending, stored, durable, failing>>

Pause ==
    /\ status = "on"
    /\ status' = "paused"
    /\ UNCHANGED <<accepted, pending, stored, durable, failing>>

Resume ==
    /\ status = "paused"
    /\ FlushDrains => Drained
    /\ status' = "on"
    /\ UNCHANGED <<accepted, pending, stored, durable, failing>>

Close ==
    /\ status = "paused"
    /\ \A s \in Sinks : pending[s] = {}
    /\ status' = "off"
    /\ failing' \in SUBSET failing
    /\ durable' = [s \in Sinks |-> IF s \in failing' THEN durable[s] ELSE Len(stored[s])]
    /\ UNCHANGED <<accepted, pending, stored>>

Accept(r) ==
    /\ status = "on"
    /\ r \notin accepted
    /\ accepted' = accepted \cup {r}
    /\ pending' = [s \in Sinks |-> pending[s] \cup {r}]
    /\ UNCHANGED <<status, stored, durable, failing>>

\* A sink that throws keeps nothing of the record, and the other sinks get theirs.
Store(s, r) ==
    /\ r \in pending[s]
    /\ Ordered => \A q \in pending[s] : ~Earlier(q, r)
    /\ pending' = [pending EXCEPT ![s] = @ \ {r}]
    /\ stored' \in {stored, [stored EXCEPT ![s] = Append(@, r)]}
    /\ UNCHANGED <<status, accepted, durable, failing>>

Persist(s) ==
    /\ durable' = [durable EXCEPT ![s] = Len(stored[s])]
    /\ failing' = failing \ {s}
    /\ UNCHANGED <<status, accepted, pending, stored>>

PersistFails(s) ==
    /\ failing' = failing \cup {s}
    /\ UNCHANGED <<status, accepted, pending, stored, durable>>

Next ==
    \/ Open \/ Pause \/ Resume \/ Close
    \/ \E r \in Records : Accept(r) \/ \E s \in Sinks : Store(s, r)
    \/ \E s \in Sinks : Persist(s) \/ PersistFails(s)

Spec == Init /\ [][Next]_svars
=============================================================================
