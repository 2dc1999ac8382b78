# platform_logging in TLA+

Specifications, model-checking configurations and proofs for the C++ logging
library in `src/` (paths below are relative to the repository, so the
library's main file is `src/src/logger.cpp`).

## The system

The library is one process-wide logger on top of spdlog. A *host* configures
it, flushes it and shuts it down; any thread writes records through it. All
its state is the `State` singleton (`logger.cpp:104-116`).

| Part | State | Operations | Talks to |
|---|---|---|---|
| Lifecycle (`logger.cpp:393-464, 542-664`) | `mutex`, `no_active_logs`, `configured`, `configuration`, `logger`, `sinks`, `thread_pool` | `Configure`, `Flush`, `Shutdown` (and `IsConfigured`, `CurrentConfiguration`, which read) | log calls through three atomics and `active_log_calls`; spdlog |
| Log calls (`logger.cpp:684-795`, `logging.h:102-289`) | a `LogSite` per call, `active_log_calls` | `BeginLog`, `LogMessage`/`LogFormatted`, `EndLog`, and the templates and macros around them | the atomics, without the mutex; the condition variable |
| Delivery (`logger.cpp:375-387, 430-453, 547-549`, spdlog) | the pool's bounded queue, worker threads, what the sinks hold | post a record, dequeue, write, flush, drain, destroy the pool | log calls (which block on a full queue), the host (which polls the queue) |
| Sink routing (`logger.cpp:124-195, 234-247, 350-373, 409-428, 555-577`) | the sink list, levels, channel lists, formatters | build the sinks, encode and open the channel envelope, filter | configuration, delivery |
| Configuration (`config.cpp`, `logger.cpp:466-540`) | none | `LoadConfiguration`, `ValidateConfiguration`, level and format names | lifecycle |
| Rendering (`logger.cpp:43-102, 222-348`, `logging.h:19-92, 204-289`, `field.h`) | none | format arguments and fields, text and JSON of a record, the `%l` flag | log calls |

What is hard in it, and what makes each part correct:

* **Lifecycle against log calls.** No lock is shared. A call reads the level,
  reads the pointer, counts itself, reads the pointer again; a host empties
  the pointer, waits for the count to be zero, destroys the logger and maybe
  puts a new one at the same address. Right means: the logger outlives the
  calls on it; level and format belong to the logger that is used; everyone
  who waits is woken.
* **The wait in the middle of an operation.** `condition_variable::wait`
  releases the mutex, so operations of several hosts interleave in the middle.
* **Delivery.** One queue carries records, the flush request and the terminate
  items; the same host waits for writers that wait for a slot. Right means:
  each record reaches each sink once, nothing accepted is lost by `Shutdown`,
  and everybody gets on.
* **Errors in the middle.** A sink may throw on a write or a flush, a formatter
  in a call, the file system in `Configure`. Right means: the other sinks, the
  other calls and the next operation notice nothing.
* **Routing.** A record passes five filters, computed in different places from
  the same configuration, and its channel travels inside its text.
* **Rendering.** The compiler splits the arguments of a call, from the back.
  Right means: every argument is in the record, once, where it belongs.

`PROJECT.json` lists each of these hazards at its line with the properties
that would show it.

## The modules

| Module | What it is |
|---|---|
| `LoggerLifecycle` | `Configure`, `Flush`, `Shutdown` and log calls, one action per access to shared memory |
| `LoggerLifecycleProofs` | theorems about it, checked by TLAPS, as in the other modules of proofs |
| `PublicationTSO` | extends it: the host's stores to the atomics wait in a store buffer |
| `Admission` | the abstract door that `LoggerLifecycle` and `AsyncDelivery` both implement |
| `AsyncDelivery` | the way of a record to the sinks, with and without a pool |
| `LogService` | the abstract promise that `AsyncDelivery` implements |
| `AsyncDeliveryProofs` | safety of delivery, from an inductive invariant |
| `AsyncDeliveryRefinement` | the proofs that it implements `Admission` and `LogService` |
| `SinkRouting` | which sink writes a record, and what |
| `Rendering` | operators: from the arguments of a call to the text or JSON of a record |
| `SinkRoutingProofs` | theorems about both, and about the envelope |
| `ConfigLoading` | loading and validating a configuration |
| `ConfigLoadingProofs` | theorems about it |
| `PathProofs` | lemmas about paths: what normalising one keeps |
| `OperatorLemmas` | lemmas about `Min`, `Max`, concatenation, `FlattenSeq`, `SetToSeq`, folds; induction |
| `MC*` | the constants for model checking |

Operators whose comment begins with "Mutant:" are defective versions of the
definition that follows them. Nothing uses them; `PROJECT.json` pairs each
property with one that breaks it.

### LoggerLifecycle

`mutex`, `waiters`, `configured`, `configuration`, `logger`, `published_*` and
`active_log_calls` are the members of `State`; `waiters` is the wait set of
`no_active_logs`. `heap` says which logger object is at which address, so that
"use after free" and address reuse can be stated. `pc`, `call` and `job` are
the threads' positions and locals, `leaked` a history variable.

A log call is `Call, CheckLevel, LoadLogger, Enter, Validate`, then `ReadFormat,
Emit, EndLog`, or after a failed second look `Retract` and back to
`LoadLogger`; `Notify` follows when the count dropped to zero. `Throw` leaves
by an exception of the formatting, as the code does, without `EndLog`. A host
operation is `Lock`, the two stores of `UnpublishLoggerUnlocked`,
`CheckActive` (the wait's predicate), `Sleep`/`Wake`/`SpuriousWake` (the rest
of the wait), `FlushUnlocked`, the reset, the creation, the three stores of
`PublishLoggerUnlocked`, `Unlock`. `CreateFails` is the exception handler of
`Configure`, which resets once more. Evaluating the predicate and blocking are
two steps because a notifier does not hold the mutex. What the mutex guards is
changed in one step; what log calls can see is changed in one step per store.

A configuration is reduced to what the lifecycle tells apart: effective level,
output format, and whether it is valid. `FlushUnlocked` is one step, because
`HostWorksAlone` (proved) says nobody else is at the logger then; its inside is
the subject of `AsyncDelivery`. Memory is sequentially consistent here and not
in `PublicationTSO`.

`IsConfigured` and `CurrentConfiguration` take the mutex and only read, so they
are no actions: `ReadersSeeWholeState` says what they find whenever the mutex
is free, which includes the middle of an operation that waits. The exception in
it is real: after a failed `Configure`, while its handler waits to reset,
`CurrentConfiguration` returns the configuration that failed.

### Admission

A door with calls inside it and a host that works when nobody is. It is how
`LoggerLifecycle` and `AsyncDelivery` are composed: the first implements it with
its atomics, in many steps, and the second with one variable and one step. Both
have it as a property, under their own mapping: the door is open when the
published pointer is not null, the calls inside are those that passed the second
look, and the host works from the moment it has seen a count of zero until it
publishes. A product of the two modules would multiply their states and add no
behaviour that this door does not have. What it leaves out is the blocking: a
host waits for a call that waits for a slot of the queue. That chain is inside
`AsyncDelivery` (`OperationReturns`), where a call does not leave before it has
its slot.

### PublicationTSO

All actions of `LoggerLifecycle` but the six that store to an atomic; those
append to `buffer`, and `Drain` applies the oldest store. Mutex operations, also
those inside a flush of an existing logger, need an empty buffer. This is what
an x86 build does; other machines allow more. The module exists for one
question, whether the logger is retired before the count is read; the answer
is no.

### AsyncDelivery and LogService

Each `Configure` chooses whether there is a pool (`async`). `published` is the
door of `BeginLog`, and `WaitForActiveLogs` one step: the
steps in between are in `LoggerLifecycle`. A thread at the sinks (`Write`,
`FlushSink`) is a worker, or a writer when there is no pool, or the host in the
loop over the sinks at the end of `FlushUnlocked`. `hand` is the item it holds,
`at` the sink it is at. `queue` is spdlog's queue with the policy `block`;
`Dequeue`, `PostTerminate` and `Join` are the thread pool, which is not in this
repository and is modelled from how it is used. A write or a flush
of a sink may throw (`MaxFailures`): it is caught for this sink, and the next
sink gets its turn. `broken` holds the sinks whose last flush threw. `flushed`
counts what has been flushed; closing the sinks at the end of `Shutdown` flushes
too. Only calls that are let in are counted. Without a pool `FlushUnlocked`
flushes the sinks twice in a row, once through the logger; the model has one
pass. The early return of `FlushUnlocked` when `logger->flush()` throws is not
taken, because spdlog's logger catches the errors of its sinks itself.

`Exit` is the end of the process without `Shutdown`: the members of `State` are
destroyed in reverse order (`logger.cpp:104-116`), so the pool drains and joins
before the logger and the sinks go. That no thread logs any more is assumed.
After it the model starts again as a new process that keeps what is in the
sinks.

`LogService` says what this amounts to: an accepted record is pending at every
sink until the sink stores it, once, or fails to; `Close` (the end of
`Shutdown` or of the process) needs that nothing is pending; `Resume` (the end of `Flush`) needs
that nothing is pending and everything is flushed, but for sinks that fail, if
`FlushDrains`; a sink
stores the records of one thread in their order, if `Ordered`. Both hold with
at most one worker (the default) and neither with two.

### SinkRouting

Configure, log one record, shut down, over all pairs of sink configurations.
A call is its level, channel, format string, arguments and source file; `Log`
renders it, puts the envelope around it and lets every sink decide. Explicit
`Fields`, which the functions but none of the macros take, and trailing `kv(...)`
arguments end in the same vector, so a call has only the latter.

Text is a sequence of tokens. The ones that mean something to the code are the
envelope's prefix and separator, the two brackets of a format string, the path
separators and a number that is not finite; everything else is opaque. A number or a letter has a second text, the
digits that the cast in `kv` leaves of it: a `char` becomes its code, a `float`
shows the digits of a `double`, and a `long double` may stop being finite.
`Quote` hides the marks of the envelope, which is what `nlohmann::json::dump`
does to control characters. Three things the code does may surprise: a format
string without format arguments is not formatted, so it keeps its `{{`; of two
fields with the same key JSON keeps the last and text both; a number that is not
finite is `null` in both.

What a sink wrote is a function of its position: `Writers` are the positions
that write, `Output` what each of them writes, so that order and number of the
sinks are part of the state and of the properties.

`RoutingAssumption` is that texts are sequences and what the compiler checks of
a call. Texts and channels may hold the marks of the envelope, because neither
`EmitPayload` nor `DecodeChannelPayload` looks for them (`logger.cpp:163-180,
563-577`). `Misread` names the records for which that matters, and the
properties say what becomes of them:

* a record without a channel whose text begins with the prefix and holds a
  separator is taken for an envelope: the sinks get only what follows the
  separator, and route it by the channel it seems to name, although a record
  without a channel should go to `default`;
* a channel that holds the separator is cut at it: the sinks route by its first
  part, and the rest stands before the record.

Even these are written at most once by each sink, and never below its level.
Every other record arrives exactly as it was rendered, whatever it holds. The
prefix begins with a control character, so that no ordinary text starts with it
by chance; for this reason it is an exception in the properties and no finding.

### ConfigLoading

A document is a function from the fields it has to typed JSON values; `Schema`
lists the fields in the order in which `LoadConfiguration` looks at them, with
their readers and limits. `Begin`, one `ReadField` for each field the document
has, and `Finish` are the steps of a load, `NoOutput` and `OpenFails` those that end before
a field is read (no `Configuration` to write to; no file, no JSON or no object);
`parsed` is the function's local variable and `configuration` the caller's. `FillIn` is a caller that sets the
fields itself, `Validate` the check of `Configure`. An error message is the
field it names; `Checks` and `Holds` are the checks of `ValidateConfiguration`
in their order and what each asks. A path is absolute or not and a sequence of
parts; `Push`, `NormalParts` and `LexicallyNormal` are the standard library's
`lexically_normal`. `LoadingAssumption` says of the constants what their types
say in the code: an integer of a document is one, a path is one, and a
configuration that a caller fills in has for each field a value of its C++ type
(`HasType`: the numbers of the file sink are `int`, so a caller may set them
below zero). `Strings` are the values of `std::string`, `CurrentDirs` the
directories in which the process may be when it opens the file. `queue_size` and `async_worker_count` are read up to
`SizeMax`, which is the largest `std::size_t` in the code and a number above
every other limit in the run.

## What is checked

Bounds are constants of the modules; each run's are in its `.cfg`.

| Run | Result | Shows |
|---|---|---|
| `lifecycle` | pass | two logging threads, one host, two addresses, one leaked call: all safety properties, that `IInv` is an invariant, that the protocol implements `Admission`, that log calls return, and that a host hangs only by missing a notify or on the leaked call (220,703 states) |
| `lost_wakeup` | violated | a host does miss it: `Shutdown` never returns |
| `leaked_call` | violated | an exception in a log call makes the next host wait for ever |
| `flush_drops` | violated | records logged during a `Flush` are dropped |
| `flush_races_shutdown` | violated | with two hosts, `Flush` publishes again what `Shutdown` then frees |
| `two_configures` | violated | with two hosts, both calls of `Configure` succeed, and the one that waited takes down what the other set up |
| `tso_retire` | violated | the count is read before the emptied pointer is visible: the logger is freed in use |
| `delivery_one_worker` | pass | without a pool and with a pool of one: once, in order, drained by `Flush`, also when a sink fails; what is let in gets through; that `IInv` is an invariant; implements `LogService` and `Admission` (151,566 states) |
| `delivery_two_workers` | pass | once, and complete at `Shutdown`; implements the weaker `LogService`; `Flush` and `Shutdown` return although records, the flush request and the terminate items share a queue of one (143,210 states) |
| `flush_two_workers` | violated | `Flush` returns while a worker still holds a record |
| `routing` | pass | every sink writes exactly what it is configured for, unchanged, with every argument of the call, in a level field as wide as its pattern says; what a misread envelope costs (49,187 states) |
| `config_loading` | pass | a load changes all or nothing, errors belong to the last call, `Configure` refuses a loaded configuration for one of five reasons only, paths lead from `base_dir`; that `IInv` is an invariant (403,200 states) |

A violated run checks one property that states what a comment in
`include/platform_logging/logger.h`, or for `two_configures` `README.md:127` and
the message in `logger.cpp:586-588`, says; the findings in `PROJECT.json` quote
it. `flush_races_shutdown` and `two_configures` need a second host.

Why the bounds are enough to be of interest. Two logging threads are needed
for one call to bring the count down while another is inside. Two addresses
and one host give every order of freeing and reusing an address. Two
configurations differ in level and format, so a mix-up shows, a third is
invalid. A queue of one or two items with two writers of two records, the flush
request and the terminate items does get full. Two sinks show
different orders, and a failure of a write or a flush in the first sink only. With two workers three
writers with one record each contend for one slot. Routing has levels on
both sides of `warn`, `off`, and messages with every position of the marks, also
one that is a whole envelope, and a channel with a separator in it;
calls with no, one and two format arguments before no to three fields, a key
that comes twice, and values of every type; paths with separators of both kinds;
every padding that spdlog has, of widths 0 to 64.
Documents have every field once with values on both sides of its limits, and
pairs of fields where two faults, or two fields that go together, matter;
current directories are both shallower and deeper than their paths go up.

Deadlock is checked in every run: some thread can always call the library.

### Fairness

`Fairness` in `LoggerLifecycle` is weak fairness of the next step of every
thread inside a call, and strong fairness of taking the mutex (`Lock`, `Wake`):
the operating system runs every thread that can run, and a mutex does not
starve a waiter for ever. No thread has to start a call, to throw, or to be
woken spuriously. In `AsyncDelivery` weak fairness is enough, because the
writers that compete with the host or with each other for a slot of the queue
cannot come back while the door is shut. It needs no fairness of `Flush`:
`AcceptedIsDelivered` holds although nobody ever calls it. A call lost to an exception
(`leaked`) excuses a host that waits, because no code could wake it
(`OperationReturnsOrMissesNotify`), but not a log call. `LogCallsReturn` assumes that hosts
come to rest: `BeginLog`'s loop does retry for as long as hosts keep replacing
the logger between its two looks, and the code has no bound for that.

## What is proved

`LoggerLifecycleProofs` holds for every number of threads, addresses, levels
and configurations allowed by `ConstantsAssumption`.

* `TypeCorrect`, `CountCorrect`, for any number of hosts. Neither `TypeOK` nor
  `CountIsExact` is inductive alone: that a decrement leaves a natural number
  needs the count to be exact. They are proved together
  (`TypeAndCountInductive`), with the cardinality of the set of counted calls
  changing by one in `Enter`, `Retract`, `EndLog` and `Throw`.
* `WaitSafe`, from these two, for any number of hosts: if no call throws, a host
  goes to sleep only for a call in flight. With throwing calls it does not hold, as
  `leaked_call` shows.
* `IInvCorrect`, for one host (`SingleHost`). The argument is in two steps. A
  host between `UnpublishLogger` and `PublishLogger` has `published_logger`
  empty (`PublishedInv`), so `Validate`, which compares with a pointer that is
  not null, admits nobody; and a count of zero in `CheckActive` means that
  nobody was inside (`ZeroMeansAlone`). Hence `HostWorksAlone`, and with it
  whatever the host does to logger, configuration and format from then on
  happens to no call (`AloneKeepsCalls`). `FormatInv` and `OwnedInv` say that
  what a call finds when it is let in belongs together; `JobInv` that only
  `Shutdown` gets to reset a configured library.
* `AdmissionImplemented`, for one host. Under `IInv` every step is a step of the
  door or a stutter. For a log call only `Validate` (in), `EndLog` and `Throw`
  (out) are visible, and `Validate` finds the pointer published, hence no host at
  work. For the host `UnpublishLogger` shuts the door, `CheckActive` starts the
  work (`ZeroMeansAlone`), and the work ends where the door is opened or the
  operation is over, with nobody inside by `HostWorksAlone`.
* `LoggerSafe`, `FormatSafe`, `LevelSafe`, `PointerSafe`, `PublicationSafe`,
  `AloneSafe`, `ShutdownSafe`, `ConfigurationSafe` follow from `IInvCorrect`. `SingleHost`
  cannot be dropped. `flush_races_shutdown` is a counterexample to
  `ShutdownSafe` with two hosts, and `two_configures` one to
  `ConfigurationSafe`: of two `Configure` calls that both find the library
  unconfigured, one waits for a log call, the other succeeds meanwhile, and the
  first takes its configuration down (`configured` is not looked at again after the
  wait).
* `ReadersSafe`, from `DefaultsInv`, a conjunct of `IInv`: without a logger the
  configuration is the default one, except until the handler of a failed
  `Configure` has reset what `CreateFails` left.

### Delivery

`AsyncDeliveryProofs` and `AsyncDeliveryRefinement` hold for every finite set of
workers, any writers, sinks, slots, records and failures (`DeliveryAssumption`).

* `EachRecordOnce` counts records over the queue, the hands of threads and the
  sinks. It is not inductive: that a `Write` doubles nothing needs to know that no
  other place holds the same record. `PlaceInv` says that, of every two places a
  record can be in; `HandInv` which threads hold one; `MissingInv` that the
  accepted records which are nowhere are no more than the failures. With
  `PhaseInv` (the host works behind a shut door, without a pool nothing is
  queued) and `StopInv` (the terminate items are last, and with the workers that
  have stopped they are no more than the workers) they are inductive. `StopInv` is what makes
  `Shutdown` lossless: `Join` finds an empty queue.
* `UrgentIsFlushed` needs `FlushInv`, that a thread has flushed what it has come
  past since its write, and is inductive with it.
* `FlushDelivers` needs one worker; the theorem says so, and `flush_two_workers`
  is a counterexample with two. `OrderInv` says that queue and worker hold the
  records of a writer in their order, `DrainInv` that the flush request is the
  last item while the host polls; when the queue is empty, so is the worker's hand.
* `AdmissionImplemented`: `Log` and `Leave` are a call that enters and leaves,
  `Begin` shuts the door, `WaitForActiveLogs` starts the work, and the door opens
  with nobody inside, by `PhaseInv`.
* `LogServiceImplemented`, for any number of workers: `Configure` is `Open`,
  `Begin` `Pause`, `Log` `Accept` (for all sinks at once, new by `HandInv`), a
  write `Store`, which keeps nothing if the sink throws, a flush `Persist` or
  `PersistFails`, the end of `Flush` `Resume` and that of `Shutdown` `Close`. The
  rest (`Post`, `Dequeue`, `Leave` and the host's other steps) is a stutter: it
  moves a record between hand and queue, and `pending` does not look where it is.
  With one worker the order of `Store` and the drain before `Resume` follow from
  `OrderInv` and `DrainInv`; with more the mapping sets `Ordered` and
  `FlushDrains` to `FALSE`.

### Routing and rendering

`SinkRoutingProofs` holds for every set of levels and channels and every set of
calls that `RoutingAssumption` allows. The state is a function of the
configuration in force and the last call; the invariant says which. What is to
prove is about the operators, for texts of any length:

* `Routing`. The effective level is never above the level of an enabled sink
  (`EffectiveLevel`), so the first two filters hide nothing that a sink asks for;
  the envelope's channel is the call's, unless it is misread (`EnvelopeKeeps`); a sink that is asked for
  has exactly one writer in the list (`OneWriter`).
* `MessageKept`. `EnvelopeOpens`: decoding an encoded text gives back channel and
  text, whatever marks the text has, if the channel has no separator: the first one
  is then the envelope's. If it has one, the first is in the channel, and the record
  is what ends the decoded text (`EnvelopeMisread`). A text without a channel passes
  as it is, unless it looks like an envelope; then its end does (`LookAlikeIsRead`).
* `ArgumentsHeld`. The arguments that are not fields come first (`FieldsAreLast`),
  the holes of the format are as many (`HoleNumber`), and the pieces are
  flattened into one text that has each of them as a part (`FlattenSeqHolds`). In
  JSON, of fields with one key the last is kept.
* `OwnPattern`, `SourceNamed`, `LevelFlag`: the sink formats with its own pattern,
  the source is what follows the last separator of either kind, the padded level
  has the width of the flag, or the name's if that is longer.

### Configuration loading

`ConfigLoadingProofs` holds for every set of documents, base directories and own
configurations that `LoadingAssumption` allows, and every `SizeMax` of at least
65535, the smallest that the C++ standard allows.

* `AllOrNothing` and `ErrorsAreCurrent` from `ParsedInv`: in the middle of a load
  the local configuration is the document up to the field it has come to, and the
  readers have accepted all of these. That the next field is the *first* of those
  left (`NextField`), and the one that is named the first refused, is `Min` of a
  set of numbers being its least element (`MinIsLeast`).
* `TypeCorrect`: what the readers accept has the type of its field
  (`HasType`), as have the defaults; a number within its reader's limit fits
  (`LimitsFit`).
* `FiveChecksRemain` from `Readable`, what every reader lets through; the defaults
  have it too. Five of the ten checks of `ValidateConfiguration` then hold,
  and the other five are what is left. Two of these are limits of
  numbers: `queue_size` and `async_worker_count` are read up to `SizeMax` and down to
  0 (`config.cpp:377-385`), and refused later if the logger is asynchronous
  (`logger.cpp:492-509`).
* `PathsLead`. `PathProofs` shows, part by part, that normalising leads where the
  path leads from every directory, or from the root for an absolute path
  (`PushedLeads`), for which what is done must be in normal form at every part: a
  `..` takes away a name and never another `..`. A path in normal form stays as it
  is (`NormalStays`). A path behind `base_dir` leads from where `base_dir` leads
  (`DownAcross`). `CurrentDirs` is any set of directories.

### Induction

The prover cannot instantiate the library's induction theorems, which take an
operator. `OperatorLemmas` states induction for a *set* instead
(`SetInduction`, `SeqInduction`), from the well-foundedness of the natural numbers,
and uses it for `FlattenSeq` and for folds: their recursive functions exist
(`FlattensExists`, `FoldExists`), so that the `CHOOSE` in them is one, and each
result is one step from the one before (`PartialResults`, `FoldAppend`).

### Only model-checked

* Liveness, which is out of the prover's reach: `LogCallsReturn`,
  `OperationReturnsOrMissesNotify`, `AcceptedIsDelivered`, `OperationReturns`.
* The runs that end in a violation; that of `PublicationTSO` is all there is to
  say about it.

Every other property of a passing run is the subject of a theorem. `lifecycle` and
the theorems about it have one host, but for `TypeCorrect`, `CountCorrect` and
`WaitSafe`; what more hosts do is in the two runs that need them.

## Not modelled

* spdlog's inside: file rotation, terminal output, pattern formatting other than
  the library's own `%l`; that `queue_size + 1` slots wrap to none for the largest
  value of `queue_size`.
* The bytes of text and JSON, timestamps, process and thread ids, line numbers.
* JSON syntax; exceptions of the JSON library and of the file system while a
  configuration is loaded. `LoggerLifecycle` takes from a configuration only
  whether it is valid.
* Other static objects that log while the process ends.
* A formatter of a logged argument that calls the library. A log call from
  inside a log call behaves like one of another thread that returns before the
  outer one goes on. `Flush` or `Shutdown` from there waits for its own caller;
  no code in the repository does it.
* Machines that reorder more than `PublicationTSO` does. The one reordering it
  has breaks the protocol already.
* The macros (`logging.h:293-463`), which add the caller's file and line and
  forward; build files and export macros, which do nothing at run time.

## Plan

In this order, the most important behaviour first; all are done.

1. `LoggerLifecycle` and its proofs.
2. `PublicationTSO`.
3. `AsyncDelivery` against `LogService`.
4. `SinkRouting`.
5. `ConfigLoading`.
6. `Rendering`, used by `SinkRouting`.
7. `Admission`, the door between lifecycle and delivery.
8. Proofs: `AsyncDelivery` and its refinements, `ReadersSeeWholeState`, routing and
   rendering, `ConfigLoading` with its paths.

Left: what holds of the lifecycle for more than one host. `HostWorksAlone` and
`OwnedInv` fail there: a `Flush` that waits does not know that another one has
published the logger again, or that a `Shutdown` has taken it away. A theorem
would have to say which pairs of operations are harmless.
