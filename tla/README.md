# Formal models of the SignalDesk export worker

TLA+ modules for the worker in `src/signaldesk_export_worker/`: what it does
with an export event from the moment Redis hands it over until it is
acknowledged or dead-lettered, checked by TLC on small instances and, for the
safety properties, proved by TLAPS for every instance.

Paths below are relative to the repository.

## 1. The system

One worker process is sequential. Several processes share a Redis consumer
group, a control API and an object store, and each may be killed, stalled or
restarted at any point. The hard part is what they do to each other through
those three shared states.

| Component | State | Operations | Talks to |
|---|---|---|---|
| Stream group (Redis, and the Lua scripts of `consumer.py:21-47`) | stream, group's last id, pending entries list (PEL: owner, delivery count, idle time), dead-letter stream | XREADGROUP, XAUTOCLAIM, XPENDING, acknowledge / dead-letter / renew scripts | called by the consumer |
| `ExportConsumer` (`consumer.py`) | identity, XAUTOCLAIM cursor, the entry in hand and its delivery count, stop event | `setup`, `run`, `process_once`, `_process_entry`, `_ack`, `_renew`, `_dead_letter` | Redis; calls the processor, lends it `_renew` as a callback |
| `ExportProcessor` (`processor.py`) | the scope, the rendered bytes, the stored artifact, the deadline | `process`, `_completion_recovery`, `_guard` | control API, renderer, store; renews through the callback before each external phase |
| `ControlApiClient` (`control_client.py`) | none between calls | `claim`, `fetch`, `diagnostics` (a paging loop), `complete` | control API over the deadline transport |
| `ArtifactStore` (`object_store.py`) | none; the bucket holds it | `put_or_verify`, `_canonicalize` | S3 HEAD, GET, conditional PUT |
| Deadline HTTP transport (`_deadline_http.py`) | one absolute deadline per request | resolve in a child process, connect, TLS, read, write | sockets |
| Rendering (`rendering.py`) | none | `render_export`, `_protect` | pure |
| Work window (`settings.py:189-226`) | configuration | `validate_work_window`, `max_work_seconds` | bounds the lease and the deadline |
| Process lifecycle (`cli.py`) | open resources, signal handlers | `create_consumer`, `run_worker`, `main` | all of the above |

### What makes it hard

* **Takeover.** An entry whose holder does not renew for `stale_idle_ms` is
  handed to another process by XAUTOCLAIM. The old holder does not notice; it
  may wake up at any point, also between its delivery-count query and its work.
* **Lost replies.** A Redis, HTTP or S3 call that times out may have been
  applied, may be applied later, or never. redis-py repeats the command.
* **Crash and restart.** What a process was handed stays pending under an
  identity that will not come back.
* **Convergence.** Two attempts at one job must end with one object and one
  completion that names it, also when they rendered different bytes.
* **Ceilings.** A transient failure is retried `max_deliveries` times; the count
  is Redis' delivery count, which handovers alone increase.
* **Time.** The lease must outlive each phase between two renewals, and the
  whole-message deadline must cover every phase.

PROJECT.json lists each of these as a hazard at the line where it bites, with
the properties that would catch it.

## 2. The modules

| Module | Stands for |
|---|---|
| `StreamGroup` | the Redis side: one operator per command or script, each atomic |
| `ExportConsumer` (extends `StreamGroup`) | the worker processes of one group, the commands in flight, time as far as an idle entry becomes stale |
| `ArtifactStore` | the attempts of one job at `put_or_verify`, one action per request to the bucket |
| `ArtifactContract` | what `put_or_verify` promises, without requests, races or replies |
| `ExportProcessor` (extends `ArtifactContract`) | the attempts of one job at `process()`, over the API's job record and the store's contract |
| `ExportSystem` (extends `ExportConsumer`, instantiates `ExportProcessor`) | the composition: each call of `process()` by a worker is an attempt at the job |
| `ExportJob` | what the workers together promise about a job and its events |
| `WorkWindow` | the time the work on one entry takes, against `stale_idle_ms` and `max_work_seconds` |
| `DiagnosticsPaging` | the paging loop of `ControlApiClient.diagnostics` and the API's result set |
| `DeadlineTransport` | one HTTP request under its absolute deadline, resolver child to last byte |
| `WorkerLifecycle` | `main`, `run_worker`, `create_consumer` and `_close_resources` |
| `WorkerProcess` (extends `WorkerLifecycle`, instantiates `DeadlineTransport`) | the process with its calls to the API, signals during a call included |
| `CellProtection` | `_protect`, the loop that keeps spreadsheets from reading a cell as a formula |
| `MC...` | instances for TLC |
| `ExportConsumerProofs`, `ArtifactStoreProofs`, `ExportProcessorProofs`, `WorkWindowProofs`, `DeadlineTransportProofs` | the theorems about the module each is named after |
| `ExportSystemProofs` (extends `ExportConsumerProofs`, instantiates `ExportProcessorProofs`) | the theorems about the composition |
| `WorkerProcessProofs` (instantiates `DeadlineTransportProofs`) | the theorems about `WorkerLifecycle` and `WorkerProcess` |
| `ExportContentProofs` | the theorems about `DiagnosticsPaging` and `CellProtection`, which are what an export contains |

`ExportConsumer` sees the processor as something that renews the lease, any
number of times, and returns a verdict. `ExportProcessor` sees the consumer's
lease as something that may end an attempt at any guard. `ExportProcessor` uses
the store through `ArtifactContract`, and the property `KeepsContract` shows
that `ArtifactStore` implements that contract (its own `canonical`, `final`,
`outcome` and `returned` mapped from bucket and steps). `ExportSystem` puts the
two together and implements `ExportJob`. `WorkerProcess` puts the transport's
calls into the life of the process. `WorkWindow`, `DiagnosticsPaging` and
`CellProtection` stand alone: each is one sequential piece of code against an
adversary (time, the API, the text of a cell).

### StreamGroup and ExportConsumer

An entry is a number, its position in the stream. `pending`, `owner`,
`timesDelivered` and `stale` are the PEL; the idle time is abstracted to
whether it has reached `stale_idle_ms`. `taker` is a history variable, the
process Redis last handed the entry to. A `Process` is an incarnation: its
consumer identity is the pair of the configured label, equal for all, and
itself, which stands for the uuid of `consumer.py:66`. A restart is another
member of `Process`.

The steps of a process are its Redis commands: `Claim`, `Read`,
`CountDeliveries`, `Renew`, `Settle`, and the local decisions between them
(`Loop`, `NextEntry`, `BatchDone`, `Return`, `GuardFails`). `Setup` creates the
group or fails the topology check; `Crash` is a kill or any exception that
leaves `process_once()`; `Stop` is the signal handler.

`LoseReply` leaves a copy of the command a process is at in `inflight`, to be
applied later or never by `ApplyLate`; the process then repeats the command (its
ordinary step) or dies (`Crash`). Applying the copy before the repetition is the
case of a command that was applied and whose reply was lost.

Left out: the bytes of events (whether the validation fails is the constant
`Malformed`), stream trimming and XDEL, failover to a replica, and the
`_atomic` check of script replies beyond "lost lease" and "raises" (a crash).

### ArtifactStore and ArtifactContract

The keys are the job's final key and one canonical key per snapshot. An object
is what its metadata claims (`snapshot`, `sha256`) and its bytes; digests are
identified with bytes. `Garbled` metadata is any that `_head` or the identity
checks reject. `Unavailable` is a failed request (or the death of the worker); a
PUT among them may be applied later by `ApplyLate`. The two guards
(`before_create`, `before_race_verify`) may deny at each of their four places.

Left out: the size limit, the media type (fixed by the job's format), and
identity fields other than the snapshot, which are fixed by the job.

### ExportProcessor

An action is one request to the API, the rendering, or one effect of
`put_or_verify`. A guard is not a step: `Interrupt` may end an attempt before
any of its requests, which is what every denying guard, expired deadline,
failed request and crash amounts to; the request it was at may still be applied
(`LatePost`, `LatePut`). The control API is external: it is modelled by what
`control_client.py` accepts and by the recovery contract of the README
(README.md:13-53). That contract has one immutable snapshot per job
(`JobReclaimable = FALSE`); the safety run also drops it.

### ExportSystem and ExportJob

`ExportSystem` joins the two views. Its variables are those of both modules;
`call` says which attempt a process is in. `Begin` is `CountDeliveries` plus a
new attempt; `Guard` is `Renew` together with either clearance for one phase or
the end of the attempt; `Request` is a step of the attempt that spends the
clearance, and, when `process()` returns with it, the consumer's `Return` with
the matching verdict; `Kill` is `Crash` and the end of the attempt in hand. A
phase is one request to the API, all pages of the diagnostics, the rendering, or
what the store is asked up to and including one PUT. The module's `Step` of the
store is the contract of `ArtifactContract`, whose two effects are the two PUTs.

All entries of the instance ask for the same job, which is the interesting case
(a republished or redelivered event). `Misaddressed` is empty here. `ExportJob` is seen
through the object under the final key, the artifact the API recorded, and for
each event whether it is open, acknowledged or dead-lettered.

### WorkWindow

Time is in units of 100 ms, the granularity of the margins in `settings.py`.
`at` is the next call of the worker, `After` the calls that may follow it, and
`Guarded` those with a guard of their own. `_request` and the paging loop are cut
at the message's deadline; rendering and the store are not, which is why
`process()` looks at the clock after them. `idle` is Redis' idle time of the
entry: zero when the renewal script runs, which is anywhere between the sending
of the command and its reply. A renewal may also fail, and the entry be
dead-lettered after that (`RenewalFails`).

A batch is worked through one entry after the other, and only the entry in hand
is renewed (`consumer.py:121-125`): an entry with n others before it comes in
hand idle for what the work on these took (`Waiting`). `covered` says that the
entry was the first or has been renewed since; the lease is claimed for such
entries only, since the code promises nothing for the others.

A call takes any time up to its timeout (`Durations`). A request to the store may
take one timeout to connect and another to read (`ObjectTimeout`,
`cli.py:65-66`). Only the requests to the API are sure to end by their timeout:
`render_timeout_seconds` is a budget that nothing enforces
(`processor.py:172-174`), a peer that answers byte by byte or a name with several
addresses stretches a request to the store, and redis-py may connect again and
repeat. Such a call may take longer in the model (`Overruns`); `overran` then
becomes true, and it is a premise of the properties that it has not.

### DiagnosticsPaging

Rows are a time, an identifier and an organization. The API answers a page by
position: `Ahead` is the number of rows before a row, `Served` the one page that
has the rows of the positions asked for, taken from the result set of that
moment; `Move` inserts and removes rows. If `honest` is false any sequence of rows may come
back. Bytes are counted in rows, an empty page as one.

### DeadlineTransport

`stage` is the wait the call is in; `armed` says the wait has begun, with the
remaining time as its timeout. `Expire` is the deadline. The peer's actions owe
nothing: it may reset, send a piece, or never send. After a call ("ended") the
next one may begin. `child` is the resolver,
`sockets` counts open sockets. TLS rounds, `send` and `recv` are rounds of
`Transferred`. Closing the connection at the end of the `with` blocks is httpx
and httpcore, which are external.

### WorkerLifecycle

`opened`, `queue` and `closed` follow the three resources through creation, run
and closing. A signal sets the stop event once its handler is in; before and
after it takes the process down, by termination or by the exception it raises.
The argument `--once` is a variable, so that one run covers both.

### WorkerProcess

While the process is in `run()` it makes calls, one after the other; a signal
that comes during one sets the stop event and the call goes on. `run()` is left
between two calls: asked to, by an error, or because the API rejected the
credential ("fatal"), which no handler in `consumer.py` catches.

### CellProtection

A character is one of the five classes `_protect` tells apart. `index` is the
loop's variable; one step is one round.

## 3. What the runs check

| Run | Instance | Shows |
|---|---|---|
| `consumer_safety` | 2 processes, 2 entries (one malformed), batch 2, ceiling 2, 3 handovers, 1 lost reply | `ExactlyOneFate`, `CeilingRespected`, `OnlyHolderSettles`, `BudgetSpentOnHandoverOnly` |
| `consumer_liveness` | 2 processes (one `--once`), 2 entries, batch 1, ceiling 3, 5 handovers, 1 lost reply, fairness | `EveryEventSettled`, `StopDrains` |
| `store_empty` | 3 attempts, 2 snapshots, 2 bodies of equal length, empty bucket | `FinalIsCanonical`, `StoredIsFinal`, `MismatchIsAnotherSnapshot`, `WrittenOnce`, `KeepsContract` |
| `store_occupied` | the same, 7 buckets with earlier objects, sound and unsound | `FinalIsCanonical` (bytes and size, with the exception section 5 names), `StoredIsFinal` |
| `processor_safety` | 4 attempts (one misaddressed), 3 snapshots (one unrenderable), deletion, reclaiming, 2 interruptions | `CompletedIsStored`, `AckOnlyWhenCompleted`, `TerminalHasCause` |
| `processor_liveness` | 3 attempts, 2 interruptions, the API's contract, fairness | `EventuallyCompleted`, `TerminalHasCause` |
| `system_safety` | 2 workers (one `--once`), 1 event, ceiling 2, 3 handovers, 3 calls of `process()`, 2 bodies, 2 interruptions, leases that expire at any time | `AckedJobIsCompleted`, `OnePhaseAfterLoss`, `ImplementsExportJob` |
| `system_liveness` | the same with ceiling 4, 4 handovers and calls, 1 body, leases that hold, fairness | `EventuallyAcknowledged` |
| `work_window` | an entry of a batch of 2, with 65 settings that are accepted: the defaults, the same with just enough room, 48 small ones, 3 with a slow Redis and 12 with which the deadline falls into the work; 46 of these have a lease with room and 32 a deadline with room; every duration of short calls, the extremes of long ones, and calls of one unit that take two | `LeaseOutlivesPhases`, `DeadlineCoversWork`, `EndsSoonAfterDeadline` |
| `window_lease` | accepted settings with a slow store behind a fast Redis | `StaleIdleCoversPhases` is violated |
| `paging` | an honest API with up to 6 rows in pages of 2 and 2 moves, and one that answers any rows of 2 organizations, repeated and unordered; limits on pages, rows and bytes | `RowsAreSound`, `NothingLost`, `RefusedOnlyIfTooBig` |
| `worker_process` | 3 resources, 2 signals, `--once` or not, 2 calls, 3 addresses, bodies of up to 2 chunks, fairness | `NothingLeaks`, `ClosedOnce`, `PrimaryErrorSurvives`, `CallEnds`, `StopEnds` |

The type invariant is checked once per module.

**The violation** is about settings that `settings.py` accepts.
`validate_work_window` says `stale_idle_ms` "must exceed each renewed external
phase, Redis timeout, and 100ms margin" (`settings.py:212`) and counts two
timeouts of the object store for its phase. After the guard `before_object_head`
the store may be asked four times before the next guard: HEAD of the final key,
of the canonical key twice, and GET (`object_store.py:97-161`), each with a
timeout to connect and one to read. The run's settings (a `stale_idle_ms` of
20000, timeouts of 3 s for the store, 0.1 s for Redis, 1 s for the API, 10 s for
the diagnostics and 2 s for rendering) allow 24 s for these four. Even then no
safety property fails: the fences hold, and `system_safety` has no assumption on
leases. What is lost is work.

`RoomyLease` and `RoomyDeadline` state what would have to be validated besides;
they are the premises of `LeaseOutlivesPhases` and `DeadlineCoversWork`.
`RoomyLease` asks for three timeouts of Redis besides the longest phase: the
reply to the renewal before it, a renewal after it that fails, and the
settlement that follows. Before the first renewal the phase is itself a call of
Redis, the delivery count, after the reply that handed the entry over
(`consumer.py:100-132`). With Redis nine times as slow as everything else
(`SlowRedis`) the entry is exposed at any `stale_idle_ms` of 36 units or less; 15
are accepted. The defaults have neither room (section 5).

**Bounds.** `MaxHandovers` caps the deliveries of an entry: it becomes stale
only below that count. It is above the ceiling in every run, so an entry passes
the ceiling, is reclaimed from a worker that gave up, and, in the liveness run,
has two handovers to spare for those that a crash or a lost reply wastes.
`MaxFaults` caps lost replies: one late script is enough to meet every state of
an entry and both processes. `MaxInterruptions` caps failed attempts; it is one
less than the attempts in the liveness run, because an event whose every
attempt fails is not completed by any worker. Two processes suffice for takeover
and a third party adds no new relation to an entry, which has one owner; three
attempts at the store allow a winner, a loser and a dead one.
In `system_safety` one event has three deliveries, so that a worker whose lease
expired, its successor and the first one again can all be at work;
`MaxCalls` equals the handovers and cuts nothing. In `system_liveness` two
attempts may fail and a stop, a kill or a leaving `--once` may waste a third
delivery; with a ceiling of four the event must still be acknowledged.
Three pages reach a first, a middle and a last one, and each of the three limits
is met in some instance. Three addresses have a first, a middle and a last one.
Timeouts in `work_window` are small numbers in every combination, and
`stale_idle_ms` is at or next to what the lease of some of them needs: the
inequalities they are to satisfy are homogeneous but for the margin of one unit,
and all other settings are covered by the theorems of `WorkWindowProofs`. With
`BatchSize` 2 an entry is the first of its batch or is not; a third would only
wait longer. `Overruns` lets calls with a timeout of one unit take two, which is
enough for every kind of call to overrun with some of the settings.
The symmetry sets permute processes, attempts, bodies and snapshots, none of
which the safety properties name; the liveness runs use none.

**Deadlock** is not checked: processes may all be down, and attempts end.

**Fairness.** `consumer_liveness` assumes weak fairness of each process'
steps; that work on an entry ends (the API's requests end by their deadline,
rendering computes on bounded data, and Redis and the store are taken to answer
or to fail at some time); and that an entry nobody holds becomes
stale, which is the passing of time. It does not assume that a process is
restarted, that one is never killed, or that a reply arrives:
`EveryEventSettled` has the premise that from some moment on a worker is up.
`LeaseHolds` says that the entry in hand does not become stale: that is what
`validate_work_window` is for, and what `RoomyLease` grants while calls keep their
timeouts. It is claimed for a batch of one, because entries that wait in a batch
are not renewed. `processor_liveness` assumes that
an attempt that is not interrupted takes its next step. `system_liveness`
assumes both for the composition. `worker_process` assumes that time passes and
that the process runs, nothing of the peer or of the resolver child; and that
`run()` returns once it is asked to stop (which is `StopDrains`) or its
credential is rejected.

Every property has a mutant in PROJECT.json: a plausible slip in a
mapped definition (the fence without the delivery count, a renewal that counts,
an acknowledgement on any conflict, a cursor saved only when something was
reclaimed) under which TLC finds it violated.

## 4. What is proved

For every value of the constants that satisfies the named assumptions
(`ConfigAssumption`, `ConsumerAssumption`, `StoreAssumption`,
`ContractAssumption`, `ProcessorAssumption`, `SystemAssumption`,
`LifecycleAssumption`, `ProcessAssumption`, `WindowAssumption`,
`PagingAssumption`):

* **`ExportConsumerProofs`**: the type invariant, `ExactlyOneFate`,
  `CeilingRespected`, `OnlyHolderSettles`, `BudgetSpentOnHandoverOnly`. None of
  the safety properties but the type invariant is inductive alone. The
  strengthening adds that nothing is delivered before the group exists, that
  the owner of a pending entry is the identity of its `taker`, and that every
  dead-letter command being sent or in flight already respects the ceiling for
  the delivery count it carries: the script's fence then makes that count the
  true one at the moment it is applied. Steps of the processes are first
  reduced to the few ways the stream can change (`StreamStep`).
* **`ArtifactStoreProofs`**: the type invariant, `FinalIsCanonical`,
  `StoredIsFinal`, `MismatchIsAnotherSnapshot`, `WrittenOnce`. The bucket only
  grows, and by objects that are proper for their key, PUTs still on their way
  included; hence what an attempt has learnt stays true whatever others do.
  `FinalIsCanonical` compares bytes and sizes; the one exception it names is a
  canonical object that was in the bucket before the attempts.
  `ContractTheorem` is the refinement: at a bucket that was empty every request
  of every attempt is a step of `ArtifactContract` or changes nothing it sees.
  The bucket of `store_empty` is its premise; with earlier objects the contract
  does not hold, and `FinalIsCanonical` and `StoredIsFinal` are what remains.
* **`ExportProcessorProofs`**: the type invariant, `CompletedIsStored`,
  `AckOnlyWhenCompleted`, `TerminalHasCause`. The strengthening says that what
  the store returned, and what any completion on its way reports, is the final
  object; that a completed job has an artifact; and that without reclaiming all
  scopes and the final object are of the job's one snapshot.
* **`ExportSystemProofs`**: the type invariant, `AckedJobIsCompleted`,
  `OnePhaseAfterLoss` and the refinement `ImplementsExportJob` (`JobTheorem`).
  `Composition` comes first: every behaviour of the system is one of
  `ExportConsumer` and one of `ExportProcessor`, so that the invariants of both
  are invariants of the system (`PartsKeepTheirPromises` restates them for it).
  What is new is what relates the two sides: a process that works is in a call
  of its own; a verdict in the consumer's hands, or in a command in flight, is
  the one its call returned; hence an acknowledgement, sent or late, means a
  completed job; and an attempt whose entry was handed on is cleared for one
  phase or for none.
* **`WorkWindowProofs`**: the type invariant, `LeaseOutlivesPhases`,
  `DeadlineCoversWork`, `EndsSoonAfterDeadline`, for all settings, batch sizes and
  durations of calls. The invariant bounds, at every call, the idle time by what
  the calls since the last renewal may have taken, and the time since the start
  by the longest path to that call; it speaks of the time until a call first
  overruns, and of the idle time of entries that are `covered`.
* **`DeadlineTransportProofs`**: the type invariant, that a call leaves nothing
  behind, `NothingBegunLate` and `OnlyWholeResponses`, for any number of
  addresses and any cap (`Sized`). The strengthening ties what a call holds to
  the wait it is in: exactly one socket from the first address on, and an
  unreaped child in the resolving stage only. The two action properties are
  proved and have no run of their own.
* **`WorkerProcessProofs`**: the type invariant, `NothingLeaks`, `ClosedOnce`,
  `PrimaryErrorSurvives`, for any number of signals and calls. The strengthening
  says that a resource was asked to close exactly if it is open and no longer
  queued, that the queue holds open resources, each once, and that a process in
  a call is in `run()`. What is true of a call comes from
  `DeadlineTransportProofs` by instance: `CallsAreRequests` shows that a
  behaviour of the process is one of `DeadlineTransport`, so that
  `NothingBegunLate` and `OnlyWholeResponses` hold of a process and its calls
  (`CallsKeepTheirPromises`).
* **`ExportContentProofs`**, the rows: the type invariant, `RowsAreSound`,
  `NothingLost`, `RefusedOnlyIfTooBig`, for any rows, limits and movements. Rows
  have positions (`Ahead`), which grow with the order and decide it. A page is
  checked row by row against the row before; that all rows are in order is
  proved by taking the least row that is not. All pages but the last are full,
  so the offset counts the rows taken. `NothingSkipped` is the strengthening
  behind `NothingLost`: unless a row was removed, a row that was there all along
  and is not taken comes after all that are; these are still in the result set,
  so its position is the offset or more, and it is on the next page or behind it.
  Without movement the rows are in place (`InPlace`), no page fails a check, and
  a count of different rows within the result set bounds its size
  (`Pigeonhole`), and with the pages requested the bytes of the answers.
* **`ExportContentProofs`**, the cells: what `_protect` returns is never read as
  a formula, and a cell that is not dangerous is returned unchanged, for cells
  of any length. The loop invariant says that all characters passed so far are
  skipped by a spreadsheet too.

Each inductive invariant was checked by TLC on the runs' instances before it
was proved, but for that of the cells, which has no run. The library's induction
theorems take an operator as a parameter, which the provers cannot instantiate;
where an argument goes along a page, it takes the least element of a set of
counterexamples instead (`LeastNumber`, from `WFMin`).

**Only model-checked:** the liveness properties (`EveryEventSettled`,
`StopDrains`, `EventuallyCompleted`, `EventuallyAcknowledged`, `CallEnds`,
`StopEnds`): fairness is out of the prover's reach. All invariants and all
safety properties of actions that the runs check are proved, and both
refinements.

## 5. What the models show that a reader may not expect

These are consequences of the code. Where a doc or a docstring says otherwise it
is quoted; of the others none speaks.

* A dead-lettered event's job may be completed: the last allowed attempt's
  completion was applied and its reply lost, or a worker that lost its lease
  sends a completion after another gave up.
* Delivery budget is spent by handovers that process nothing: entries waiting
  in a batch, left behind at a stop or a crash, or lost with a reply. The
  ceiling counts handovers, not attempts.
* The ceiling is looked at only after the processor returned; an event whose
  processing kills the worker is redelivered without bound.
* A misaddressed event claims the job before it is dead-lettered.
* A final object that already existed is accepted by its size and metadata; its
  bytes are never fetched.
* A canonical object whose size and metadata are those of the bytes an attempt
  rendered is not fetched either (`object_store.py:159`): the attempt goes on with
  its own bytes. README.md:62-65 says of a losing writer that it "HEADs and
  bounded-GETs the winner, verifies the exact identity metadata, length, media
  type, and body digest, and then uses those canonical bytes". It makes a
  difference only for a canonical object whose bytes are not those of its digest,
  which no attempt creates: of such an object, there before, `FinalIsCanonical`
  has an exception, and the final object is then no copy of it.
* If the API claimed a job again at another snapshot after it was stored, the
  job could never be completed: the event ends in `existing_object_mismatch`.
* A worker that lost its lease goes through with the phase it was cleared for.
  A phase can be all pages of the diagnostics, or one PUT, or the completion:
  fencing bounds what a stalled worker does, it does not stop it.
* With the default `page_size` of 100 and `max_pages` of 100, a result set of
  exactly `max_rows` = 10,000 rows is refused: the hundredth page is full, so it
  is not known to be the last ("too many diagnostic pages").
* A row removed behind the offset makes the loop skip another one without
  noticing; one inserted there is noticed as a repetition. The API's contract
  (one immutable snapshot) excludes both.
* `max_work_seconds` is documented as the "conservative whole-message deadline
  including every worst-case phase" (`settings.py:218`). The longest path has
  seven requests to the store of two timeouts each and twelve calls of Redis
  before the settlement, where six timeouts and nine are granted; the sixteen API
  timeouts granted, of which four are needed, make up for it only if the API's
  timeout is large beside the others (`RoomyDeadline`). With the defaults the
  longest path takes 222 s and is cut at 212.1 s: a job whose every call nearly
  reaches its timeout ends as a transient failure.
* With the defaults the entry in hand may be idle for up to 70 s, over a
  `stale_idle_ms` of 60 s, if every call between two renewals takes its timeouts,
  and the renewal after them fails.
* The entries of a batch behind the first are idle for the work of those before
  them when they come in hand, with the defaults longer than `stale_idle_ms` if
  that work is slow; another worker may have been handed them by then, and the
  first renewal finds out.
* `_protect` is not injective: `=1` and `'=1` are written alike.
* Resources are asked to close once, not successfully closed: a failure is
  counted and not repeated.
* A second signal does nothing more than the first; only the end of the entry in
  hand ends the process, at most one request to the store and two calls of Redis
  after `max_work_seconds` while every call keeps its timeout.

## 6. Plan

Done: all modules above, their instances, and the proofs of section 4. Next:

1. Safety halves of the liveness properties: that a worker asked to stop takes
   no further entry, and that a job that is not completed keeps an event that is
   not acknowledged.
2. The store itself in place of its contract in `ExportSystem`: the attempts of
   `ArtifactStore`, one request at a time, under the leases of the workers.

## 7. Not modelled

Packaging, image and CI; the field validators of `Settings`, of events and of
API responses; the layout of CSV and JSON, the size limit of an export and the
JSON depth check; HTTP header checks beyond the declared length; the TLS engine,
httpx, httpcore, botocore and redis-py, beyond what the code makes of them. The
validators and the layout compute on data without state: whether they accept is
a choice in the models (`Malformed`, `Unrenderable`, a failed request). The
libraries are external; the models assume that their timeouts work and that
`with` blocks close what they opened.

Three hazards in PROJECT.json have no property that a run checks. For two the
code promises nothing: an event that kills its worker is redelivered without
bound (`consumer.py:170`), and entries waiting in a batch are not renewed
(`consumer.py:121`). The third, a cell whose formula hides behind whitespace
(`rendering.py:64`), is covered by the theorems about `CellProtection`.
