--------------------------- MODULE PublicationTSO ---------------------------
(***************************************************************************)
(* LoggerLifecycle on a machine that delays stores.                        *)
(*                                                                         *)
(* The host retires the logger with release stores and then reads          *)
(* active_log_calls with an acquire load; nothing in src/logger.cpp orders *)
(* a release store before a later acquire load of another atomic.  Here    *)
(* the host's stores to the published atomics wait in a store buffer, as   *)
(* on x86: they reach memory in their order, at any time, and at the       *)
(* latest when the host locks or unlocks a mutex.  BeginLog's fetch_add is *)
(* a locked instruction, so the logging threads need no buffer.            *)
(***************************************************************************)
EXTENDS LoggerLifecycle, Sequences

VARIABLE buffer  \* stores of the mutex's owner that no other thread sees yet

tvars == <<vars, buffer>>

TInit == Init /\ buffer = <<>>

Store(h, from, to, atomic, value) ==
    /\ Goto(h, from, to)
    /\ buffer' = Append(buffer, [atomic |-> atomic, value |-> value])
    /\ UNCHANGED <<hostFrame, mutex, waiters, guarded, atomics, job>>

\* The oldest store reaches memory.
Drain ==
    /\ buffer # <<>>
    /\ LET store == Head(buffer) IN
       /\ published_logger' = IF store.atomic = "logger" THEN store.value ELSE published_logger
       /\ published_level' = IF store.atomic = "level" THEN store.value ELSE published_level
       /\ published_output_format' =
              IF store.atomic = "format" THEN store.value ELSE published_output_format
    /\ buffer' = Tail(buffer)
    /\ UNCHANGED <<hostFrame, mutex, waiters, guarded, pc, job>>

TUnpublishLevel(h) == Store(h, "unpublish_level", "unpublish_logger", "level", kOff)

TUnpublishLogger(h) == Store(h, "unpublish_logger", "check_active", "logger", None)

TResetFormat(h) ==
    Store(h, "reset_format",
          IF job[h].op = "configure" /\ ~job[h].failed THEN "create" ELSE "unlock",
          "format", "text")

TPublishFormat(h) ==
    Store(h, "publish_format", "publish_level", "format", configuration.format)
TPublishLevel(h) ==
    Store(h, "publish_level", "publish_logger", "level", configuration.level)
TPublishLogger(h) == Store(h, "publish_logger", "unlock", "logger", logger)

\* FlushUnlocked on a logger locks the mutex of the queue or of a sink.
Fence(h) == \/ Lock(h) \/ Sleep(h) \/ Wake(h) \/ Unlock(h)
            \/ logger # None /\ FlushUnlocked(h)

TSOHostStep(h) ==
    \/ TUnpublishLevel(h) \/ TUnpublishLogger(h) \/ TResetFormat(h)
    \/ TPublishFormat(h) \/ TPublishLevel(h) \/ TPublishLogger(h)
    \/ buffer = <<>> /\ Fence(h) /\ UNCHANGED buffer
    \/ /\ \/ Start(h) \/ SpuriousWake(h) \/ CheckActive(h) \/ ResetState(h)
          \/ CreateLogger(h) \/ CreateFails(h) \/ (logger = None /\ FlushUnlocked(h))
       /\ UNCHANGED buffer

TNext ==
    \/ Drain
    \/ \E t \in Loggers : (Call(t) \/ LoggerStep(t)) /\ UNCHANGED buffer
    \/ \E h \in Hosts : TSOHostStep(h)

TSpec == TInit /\ [][TNext]_tvars

-----------------------------------------------------------------------------
\* Shutdown destroys the logger only when every log call that BeginLog let in has
\* ended, on a machine with a store buffer.
TSOShutdownWaitsForCalls ==
    [][\A h \in Hosts : pc[h] = "reset" /\ job[h].op = "shutdown" /\ logger' # logger
        => Using = {}]_tvars
=============================================================================
