# A TLA+ model of cbr

cbr is a provider of evidence-backed memory and context: one process over one
SQLite store and one object store, serving sessions over standard input or a
Unix socket, with an optional model runtime that asks a paid provider
questions and an optional evidence peer that keeps its packets. This directory
models the parts of it whose correctness depends on the order of steps: threads
that share the store, refused writes, kills and restarts, slow consumers,
cursors that outlive connections, commands sent again after a lost answer,
files and rows that are not one transaction, and authorities that change hands.

The code is `crates/cbr-provider`, `crates/cbr-memory`, `crates/cbr-encoding`,
`crates/cbr-identity` and `crates/cbr-cli`. `PROJECT.json` maps every
definition to the lines it models, and lists the runs, the mutants, the
finding, the hazards and the theorems.

## Inventory

| Component | State | Operations | What is hard | What makes it correct |
|---|---|---|---|---|
| Model runtime and token ledger (`model.rs`, `budget.rs`, `wire/record.rs`) | ledger rows and notes in the store; settlements the store refused, in memory | ask, count, admit, send, settle, repair, flush, reconcile | threads share a ledger across connections; any write can be refused; a kill between the answer and its settlement | ceilings hold; a bill above its reservation stops admission; nothing spent is forgotten; every question ends |
| Processing lock (`provider.rs`, `socket.rs`) | two counters, cancelled tickets, armed wakes | wait, idle reservation, wake, release, cancel | an atomic counter read outside the mutex; reservations given back in the middle; sessions that end | one turn at a time, in order; no abandoned ticket; no lost wake; every request served |
| Event stream (`store.rs`, `provider.rs`) | events, epochs, the retention watermark, revisions | commits, new epoch, retention, capability event, `core.events.read` | a start in several transactions, cut short; positions recomputed from the rows left; cursors older than the start | no silent gap; each event once and in order; a cursor stays valid |
| Session delivery and outbox (`session.rs`, `outbox.rs`, `provider.rs`) | subscriptions, the pending frames, the writer's hand | subscribe, respond, drain, stall, notice, abandon, close | a room measured before it is used; a writer that goes on meanwhile; a grant that lapses; a consumer that never reads | bounded output; response before its events; withheld, never skipped; nothing after authority ends |
| Command admission, grants, effects, clock (`provider.rs`, `grants.rs`, `effects.rs`, `clock.rs`) | command records by generation, revisions, the authority's epoch, grant trees, obligations, the clock file | the checks of a command in order, commit, replay, issue, delegate, revoke, observe, abort, overdue, start | a retry across starts that discard records; parents and epochs read at use; a clock file written backwards; three ways for one wait to end | applied once and replayed; a delegate does no more than its parent; a refusal discloses nothing; what ended stays ended |
| Evidence (`evidence.rs`, `evidence_ops.rs`, `store.rs`) | artifacts, chunks, holds, object and staging files | prepare, append, seal, abandon, hold, release, purge, expire, collect, inspect, fetch, list | files and rows are not one transaction; equal bytes are one object; a listing read page by page while records change | bytes that are owed are there; purged bytes are gone; held bytes stay; verdicts and listings are true |
| Context preparation, work pool, peer (`context_ops.rs`, `context.rs`, `work.rs`, `peer.rs`) | jobs, requests, packets, slots of the pool, what the peer sealed | submit, join, cancel, tick, compile, ask, publish, seal, refuse | work over several ticks, each composing from the start; a peer that fails between seal and commit; corrections between a section and its publication | a request never stays preparing; a published packet is sealed, fits and says what is current; no question twice |
| Knowledge (`knowledge.rs`, `knowledge_ops.rs`) | claims, decisions, conflicts, bindings, evaluations | propose, revise, bind, decide, open, resolve, evaluate, carry | a binding that moves under a decision; claims that rest on one another | only the bound authority decides; one chain of decisions; an applicable claim rests on something checked |
| Projection (`projection.rs`, `context_ops.rs`) | none between requests; a plan and its answers within one | read, cut, pack, offer, ask, render | sizes that change with the answer; a group larger than a part; one of several parts failing | a failure is carried or declared; a model only adds |
| Sessions and credentials (`credentials.rs`, `provider.rs`, `main.rs`) | digests in the store, handoff and staging files, a session's authentication and selection | issue, rotate, revoke, start, authenticate, negotiate, gates | several processes; a crash between file and row; gates whose order tells something | what is live was handed over; a start recovers; nothing is learnt early |
| Retrieval, encoding, identity, wire, configuration, keychain, framing, command line | none or files | | byte-level detail | see "Not modelled" |

How they interact. Every session has a thread and a `Provider` of its own over
the same store; the processing lock lets one of them handle a request or drain
its subscriptions at a time. A request passes the session's gates, then the
checks of a command, and what its handler commits it appends to the event
stream in the same transaction. A session's drain reads the stream for its
subscriptions and pushes notifications into the session's outbox, whose writer
is a second thread. Ticks of time-driven work (effects, evidence, context) run
at the start of a turn: of a request's, and of an idle session's poll while it
has subscriptions or owes maintenance; context jobs ask the model runtime through the work
pool, whose threads reach the ledger on connections of their own, outside the
processing lock; packets become evidence here or at the peer and carry claims,
whose state a reader is told anew when it reads them.

## Modules

| Module | Models | Used by |
|---|---|---|
| `BudgetLedger` | rows of the token ledger, what admission reads and settlement writes | `ModelRuntime` |
| `ModelRuntime` | `ask`, `call`, `count`, `settle_completion`, admission and settlement transactions, kept overruns, reconciliation, kill and start | `MCModelRuntime`, `ModelRuntimeProofs` |
| `ModelRuntimeProofs` | theorems: types, the stop after an overrun, rows, ceilings, charges and prices | |
| `FifoTurns` | the abstract promise: turns in order, one at a time, reservations given back | `ProcessingQueue` |
| `ProcessingQueue` | tickets, waiting and idle turns, wakes, cancellation, the session loop's waits | `MCProcessingQueue`, `ProcessingQueueProofs` |
| `ProcessingQueueProofs` | theorems: no turn is lost, one at a time, `ProcessingQueue` implements `FifoTurns` | |
| `EventStore` | commits, epochs, retention, `read_events`, cursors | `EventFollower` |
| `EventFollower` | what a caller that follows the stream keeps and has been told | `EventReaders`, `Delivery` |
| `EventReaders` | `core.events.read` across restarts | `MCEventReaders`, `DeliveryProofs` |
| `Delivery` | session loop, subscriptions, outbox and writer, a consumer that reconnects | `MCDelivery`, `DeliveryProofs` |
| `DeliveryProofs` | theorems: positions, the loop of a read, what readers and consumers are told, what waits for the writer, lapsed grants | |
| `Grants` | one grant: coverage, use, delegation | `Commands` |
| `Commands` | admission, deduplication, grants in use, effects, the clock file, starts | `MCCommands`, `CommandsProofs` |
| `CommandsProofs` | theorems: commands, grants, refusals, effects | |
| `Evidence` | uploads, objects, holds, purges, the pass, collection, manifests, listings | `MCEvidence`, `EvidenceProofs` |
| `EvidenceProofs` | theorems: owed bytes, holds, verdicts, listings | |
| `WorkPool` | slots, their deadlines and their release | `ContextJobs` |
| `Packets` | what one packet revision carries and says of its items | `ContextJobs` |
| `ContextJobs` | requests, jobs, the tick, compiling, publication here and at a peer | `MCContext`, `ContextJobsProofs` |
| `ContextJobsProofs` | theorems: preparing, publication, sealing, captures, what a packet says is satisfied | |
| `Claims` | what is worked out from claim records | `Knowledge`, `Comparisons` |
| `Knowledge` | claims, bindings, decisions, conflicts, evaluations, a packet's reader | `MCKnowledge`, `KnowledgeProofs` |
| `Comparisons` | records and support that become better known, compared again | `MCKnowledge`, `KnowledgeProofs` |
| `KnowledgeProofs` | theorems: decisions, grounds, readers, comparisons, support | |
| `Projections` | the projection of a test log and the item it decides | `MCKnowledge` |
| `Sessions` | credentials and their files, authentication, negotiation, the gates | `MCSessions`, `SessionsProofs` |
| `SessionsProofs` | theorems: credentials, starts, negotiation | |

### ModelRuntime and BudgetLedger

A thread's place in the code is `pc[w]`, and what its question holds is `q[w]`.
A SQLite write transaction is the span between taking `lock` and giving it
back, so threads interleave between a transaction's begin, its checks and its
commit only where the store lets them. `Fault` is a write that the store
refuses; it is possible at each write (admission, settlement, note, flush), up
to `MaxFaults`. `Crash` drops everything but `rows` and `notes`; `Reconcile` is
what the start does with reservations whose answer was recorded. A provider's
bill is any member of `Bills`, reported or not. Each question counts in the way
its caller chose (`Ask::counting`): before every completion, or only where a
count could admit what the local bound did not. Data left out: prompts, texts,
keys, the wording of refusals.

### ProcessingQueue and FifoTurns

`next` and `serving` are the atomic counters, `cancelled` and `armed` what the
mutex guards. The look of `try_take` at the counter and the arming of the wake
are two steps; so are taking the wake out in `release` and signalling it. The
session loop appears where it holds or waits for a place: reading, handling,
delivering, stalling on a consumer, closing. An idle session polls only while
it has subscriptions or owes maintenance, as `poll_idle` does. `Turns` maps the
tickets that are still someone's, in order, to the line of `FifoTurns`.

### EventStore, EventFollower, EventReaders

`log` remembers every event ever committed; `rows` is the table that retention
leaves. A commit is one step, since a handler holds the processing turn and
one transaction. A start is a step per transaction (epoch, retention,
capabilities), with `Crash` possible after each. `ReadEvents` is the loop of
`read_events` as a recursive function of the number of its iterations.
`EventFollower` keeps the cursor a caller received, and, as history, what it
was told: events, revisions from a gap's snapshot, and events that an epoch
change gave up. `Accounted` says that an event reached it in one of these ways
or was not for it.

### Delivery

The session's thread (`at`) and the writer's (`writer`) run side by side. A
drain is one step because it holds the processing turn; its `room` and `whole`
were measured in an earlier one. Frame sizes are small numbers: a notification
counts its items, a response and an ending one unit. Stall and notice deadlines
may pass at any time. A consumer that lost its connection, or whose provider
was killed, subscribes again from the cursor it received last; a frame that was
discarded was never received.

### Commands and Grants

`db` is the store: revisions, bound command ids with the generation they were
applied in, grants and effects. A request is one step, since it runs under the
processing lock and commits in one transaction: `TickEffects`, then `Handle`
with `Admission` in the order of the code (shape, digest, replay and window,
authorisation, capability, epoch, preconditions), then `Commit`. A crash is
therefore a `Start`, which advances the generation and discards what left the
window. A caller may send a committed command again at any time, under the
generation it was first sent with. `clock` is the clock file beside the last
instant that was read from it, so a malformed or backward write is an input. An
answer is its code, its reason and the revisions it shows; two answers that
differ in nothing else are the same to a caller. Subject ids are sequences of
characters because a resource may be narrowed by a prefix.

### Evidence

A digest stands for the bytes it is the digest of. A transaction is one step; a
seal is `Seal`, `Publish` (the file) and `CommitSeal` (the row), a purge commits
and `DeleteIfUnreferenced` follows, and `Crash` may come between any two of
them; `Collect` and `Start` are the start-time collection. `Spoil` is a disk
that alters a file, so a seal may find an object that no longer verifies.
`BeginTick` to `EndTick` is the pass that every request and every poll of a
session that has something to poll for begins with; it ends with what context
jobs seal (`SealRow`: derivations and cited sources). `polling` is whether there
is such a session: on a socket, one that subscribed or whose own prepare, hold
or purge was answered; `Close` ends it, a kill does, and over standard input
there is none. A refused row leaves the object it was to name (`RefuseSeal`,
`left`) until a deletion, another row or the next start.

A derivation is read only by who may also read all that it was made from
(`under`, `Covers`); `Inspect` and `Fetch` deny it to others and `Page` hides it,
as the code does at these three doors. `Completeness` asks only for the right to
the artifact, as the code does (below, 12). `Inspect`, `Fetch` and `Page` are
functions of the state; a lister follows its cursors one request at a time, and
`filtered` is set as far as the scan goes. Two simplifications: the code
publishes every object of a context tick and then commits one batch, and here each
row of a pass is a batch of its own; and what a derivation may be read under is a
set of rights of the reader's grant, since the repositories a launch serves do
not change while it serves.

### ContextJobs, WorkPool, Packets

A request subscribes to a job; `Tick` takes the running jobs in order, advances
each one (`advance`: its steps, its deadline), holds what it would publish in
`tick`, keeps the capture instants, seals here or at the peer, and commits the
batch. The owner's lock keeps commands out of a tick; pool threads (`Finish`),
the clock (`Advance`) and `Crash` go on. `polling` is as in `Evidence`: a submit
over a socket leaves its session owing maintenance, `Subscribe` and `Close` are
what other sessions do, and a start has none. A production job compiles: every tick
does it again from the start, and each question is found again by its key in
the pool. A scripted job (the conformance launch) takes the steps that production
does not reach: corrections, waits, stalls, sections outside the grammar. What
ranks first and how an excerpt is cut are values of `Want`. The check before
publication looks at the ids of sections, omissions, authority and conditions,
and for ids named twice; in `Packets` one flag of a section stands for all that
comes with it.

### Claims, Knowledge, Comparisons

Commands name any revision, digest, epoch or decision, as senders that saw an
older state do, and the guards say which are admitted. A record's digest is the
name of the draft it was made from. `Carry` is a packet that carries a claim;
what its reader is told later is a function of the state then (`Changes`). A
reread that fails, which the code tells as `unverified`, is left out: a claim of
this provider is always there to be read.
`Comparisons` restates a record, or completes a support entry, and compares
again.

### Projections

A log is a sequence of line classes, each a byte long, or bytes that are not
text. `is_libtest` says whether the lines are the test harness's output; if so
`libtest` finds its blocks, and otherwise every line is an ordinary one
(`plain`), also one that begins with `error:`. `push` and `cut` make units and parts of it, `floor` is what
the rule carries, `offer` what a model may add, `render` what is drawn; `Read`,
`Lost`, `Decide`, `Ask`, `Answer` and `Conclude` are the call site over several
ticks, with bytes that may be gone at any of them and parts that fail.

### Sessions

An issue is `Stage`, `Rename` and `Rotate`, by administrators or by the start of
the serving process, and any process may be killed between two of them. A
credential is a number. A session of the launch's own pipe is authenticated by
the launch; one on the socket authenticates. `Negotiation` and `Gate` are
functions of the request, in the order of the code.

## Runs

| Run | Checks | Bounds that make the cases happen |
|---|---|---|
| `ledger_overrun` | `TypeOK`, `NoGrantAfterOverrun`, `OverrunRowPerBill`, `SpendCounted`, `ChargedAgrees`, `QuestionsEnd` | two fair threads, three questions, two refused writes, one kill; a bill of 3 against a reservation of 2 |
| `question_prices` | `QuestionsPriced` (of an attempt, a question and an answer), `CeilingsHold` | two threads, two jobs, two instants, and every ceiling (job 10, window 10, month 14, run 14) between one question's worst, 9, and two: counts are asked for while the other thread frees room; both ways of counting, every outcome of a call, repairs |
| `queue` | `NoTurnLost` (no abandoned ticket, the front is woken), `GivesTurnsInOrder` (the refinement), `RequestsServed` | three fair sessions: one inside, one waiting, one with a reservation; two frames, a poll, a stall |
| `event_reads` | `ReadsAreWhole` (no silent gap, once and in order, an empty answer is the end), `PositionsHold` (positions follow commits, cursors stay valid) | three events, epochs and starts; retention of one or two rows; a hidden subject |
| `reconnects` | `FollowsStream` (no silent gap, once and in order) | two connections over two starts, a new epoch, retention; an event larger than the bound |
| `backpressure` | `OutputOrderly` (bounded, response first), `NothingAfterLapse`, `FollowerCatchesUp` | fair threads; two subscriptions, one under a grant; an event larger than the bound and than one consumer's limit, and one frame besides |
| `commands` | `AppliedOnce` (applied once, replayed, never denied), `DelegatesNoMore`, `RefusalTellsNothing`, `OverdueOnce`, `EndedStaysEnded` (grants and waits) | three generations with two retained; a chain of three grants, with a grant wider than its parent asked for; two obligations with different deadlines; a clock file with a malformed instant and two good ones |
| `evidence` | `BytesFollowRecords` (owed bytes are there, purged ones gone, uploads' discarded), `HeldIsKept`, `ReadsAreTrue` (verdicts and listings), `PurgesEnd` | two artifacts with equal bytes, a hold, a kill, a disk that alters a file, a refused row, two configurations, one of them over standard input; an upload and a derivation with equal bytes, sealed by a pass; a manifest with three required children, one of them a derivation, and one elsewhere; two readers, neither of whom covers the derivation and one of whom lacks a child, and pages of one |
| `held_reprepared` | `HeldIsKept`, which is violated | as `evidence`, with callers that prepare again under a sealed artifact's revision |
| `context` | `PublicationSound` (preparing means prepared, published means sealed, sent means captured), `InvestigationKept`, `PacketsTrue` (capacity, current sections), `RequestsEnd` | five launches: two requests that share a compiled job, two that compete for two slots, scripted jobs sealed at a peer, scripted jobs that go wrong, a job alone whose packet cannot be published; one kill or failure anywhere; sessions that subscribe and close, and one launch over standard input; threads and time go on, and ticks while a session polls |
| `knowledge` | `DecisionsSound` (by the authority, one chain, real conflicts), `GroundedApplicability`, `ReadTimeAgrees`, `ProjectionAccounts` (failures, parts, counts), `ModelOnlyAdds`, `SupportSound`, `ApartStaysApart` | two claims of two revisions that may rest on one another, two authorities and epochs, three decisions or evaluations, a conflict; pairs of records with every open part; up to three support entries; logs of up to fourteen lines, in the harness's form or not |
| `sessions` | `CredentialsSound` (one live credential, and handed over), `AnswersSound` (selection, nothing learnt early), `WorksWhileLive` (a start recovers, only a live credential opens) | two administrators and a server, two principals, three credentials, two crashes; every request of two profiles and those of three |

A property of several parts is the conjunction of named invariants, each with
its own comment; `TypeOK` is a part of one of them in every module but
`ModelRuntime`, where it is a theorem of its own.

Every property has a mutant: a plausible wrong form of one mapped definition
under which the same run reports that property violated. The mutated forms
stand before the definitions they replace.

`commands`, `evidence`, `context`, `knowledge` and `sessions` are made of
stories (`scenario`, `story`, `launch`): a behaviour begins in one and stays in
it, so that unrelated inputs do not multiply. What the stories of a run share
is checked in each of them. In `knowledge` three parts that share no variable
are in one run for that reason alone: the records, the comparisons and the
projections; a part's state rests while another's story runs.

Runs with `CHECK_DEADLOCK FALSE` end because the inputs are bounded: no frames,
events, connections or claims are left, and the code would wait for more.

Bounds, and why they are enough. Two threads suffice for the ledger's races
because a transaction excludes all others and every hazard is between one
thread's decision and another's write; the third question is what arrives after
both. Three sessions are the smallest queue with a place in its middle. Three
events cover one discarded, one given up and one kept. Three generations with
two retained are one that is discarded while a caller still retries it. Three
grants are the shortest chain in which a revocation has to reach a grant that
is not a child. Two artifacts with equal bytes are the case in which a deletion
must look at another row, and one kill shows every half-done operation. Two
slots and two jobs of several questions defer one. Three decisions are two that
go on from the same one. In a log, up to three lines of any
class come before eleven ordinary ones, and up to one before and two after them,
so each class follows each other one within a block, across its end and at a
unit's bound, in the harness's output and outside it; four or five headings and
failed lines before nine ordinary ones are more failures than there are excerpts.
A unit takes two lines, a group of ordinary lines six, a part three units and
eight bytes, and a projection fifteen, so no log with the eleven fits whole, both
of a part's bounds and both of a projection's bind, and blocks and errors are
carried in part, or declared without room, beside failed lines and headings. A
group cut between two parts is asked in two questions. Up to three questions come
of a log, of which an investigation pays for two. Symmetry of threads, which no definition tells
apart, is used in `question_prices`, and never where liveness is checked.

Inputs the passing runs leave out, each because the code then departs from what
its documents say (below): `Retain` is one or more, readers have room for a
snapshot (`Enough`), callers of `evidence` name a taken id only where its record
has ended (`Over`), the joiner of a context job has the job's capacity
(`SmallCapacity`), no packet's identifier is taken (`Taken`), requests are not
submitted again (`Resubmitted`), and one process at a time issues for a
principal (`Alone`). Each is a constant of its module, so the departure can be
looked at by changing one line of the run's `.cfg`.

## Fairness

* `ledger_overrun`: weak fairness of each thread's steps and of the start. The
  operating system runs threads; a provider's answer arrives or times out.
* `queue`: weak fairness of each session's steps. A stall ends by its deadline
  (`backpressure_notice_ms`, `DRAIN_ON_EXIT`, 30 s), and an idle session that
  has subscriptions or owes maintenance wakes by its 40 ms poll at the latest.
  No fairness is asked of consumers.
* `backpressure`: the session's thread moves unless it waits for a request
  with nothing to poll for, and the writer's moves while it has a frame: a
  write ends by being read or by the connection's end. Fairness is stated of
  `at` and `writer` alone, since each step of a thread changes its place.
* `evidence`: a session that polls goes on polling (weak fairness of the pass
  while `polling`), the rest of a request and of a start goes on, time passes,
  and a process that was killed is started again. Nobody need send anything.
  `poll_idle` returns at once unless its session has a subscription or
  `idle_maintenance_owed`, which is false when a session opens and set only by
  its own submit, prepare, hold or purge (`provider.rs:735`, 771, 1482, 2620).
  So after a restart, once such sessions are closed, and over standard input,
  nothing that only time makes due is promised until a request arrives, and
  `PurgesEnd` promises a pending purge no more than that.
* `context`: ticks go on while a session polls and a job runs (`TicksGoOn`),
  for the same reason and with the same limit: `RequestsEnd` is about a request
  that is preparing while a session polls. Strong fairness of the pool's threads
  and of time, because ticks come between their steps and a step of theirs may
  be disabled for as long as one lasts.

## Proved

Each theorem is for every value of the constants its module declares, so for
any number of threads, sessions, principals, commands and artifacts, and for
behaviours of any length: the bounds (`MaxQuestions`, `MaxCrashes`,
`MaxGeneration` and the like) are any naturals.

### The token ledger (`ModelRuntimeProofs`)

Assumptions: `CeilingAssumption` and `RuntimeAssumption`, by which figures are
naturals and the names that stand for "none" are not values. The invariants below
also hold in TLC on both of the ledger's runs.

* `TypeCorrect`: `[]TypeOK`, from `ShapeHolds`: `[]Shape`. `TypeOK` is not
  inductive: settling a call writes at the row `q[w].res`, which must be there.
  `Shape` adds that a thread whose call is out has a reservation among the rows
  (`Flight`), that what the process keeps, and what threads copied to write,
  names rows (`Keeping`), and that a thread past its exchange has an answer
  (`Answered`).
* `OverrunStops`: `NoGrantAfterOverrun`. Once a bill above a reservation was
  seen, the stop exists in one of three places: an overrun row, the process's
  memory (`holdsStop`), or, while the process is starting, a recorded answer
  that `Reconcile` will settle; and a thread whose refused settlement is being
  rolled back still holds it. `StopHolds` shows this `Stop` inductive with
  `Shape`; an admission that finds any of the three cannot decide "grant"
  (`GrantMeansNoStop`).
* `AccountsHold`: `[]Accounts`, on which the rest stands. `Courses` says where
  each call is: its row is one of the question's own and nobody else's, at the
  figure that was admitted, with nothing in it but what the answer said; the
  figure is the local bound for a count and no more than the send leaves for a
  completion. `Above`: a bill that is kept, or copied to be written, is above
  its reservation. `Covered`: a reservation holds its estimate, and a settled
  row the bill, up to the estimate.
* `SpendIsCounted`: `SpendCounted`, from `Covered`.
* `OverrunsAreRecorded`: `OverrunRowPerBill`. A settlement appends an overrun
  row exactly when it turns a reservation into a usage row above its estimate,
  and never meets that row again.
* `CeilingsAreKept`: `CeilingsHold`. A job, a position of the window, a month
  and a run are classes of rows. `Envelope` bounds what each class holds within
  its reservations, at every instant there may ever be, and not only at those
  that admissions read; `Fit` says that a thread about to commit a grant, under
  the write lock, still finds room for it. A thread may reserve at an instant
  older than one already admitted, which is why the window is bounded at every
  position: rows later than a thread's instant count against it.
* `ChargesAgree`: `ChargedAgrees`. `Balance` says what a question was charged
  at any moment: what the ledger holds for its ended calls. A reservation with
  a kept bill holds that bill, so `KeptWell` is needed: one bill is kept for a
  reservation, what a thread copied stays kept while its reservation stands,
  what it wrote stands no more, and between keeping and rollback the bill that
  is kept is the settlement's own.
* `QuestionsArePriced`: `QuestionsPriced`. Its first part follows from
  `Courses` (`AttemptsArePriced`); the second from `Prices`, what a question
  holds at each point of an attempt beside its prior attempts and its count
  (`QuestionsAreWithinWorst`); the third from `Clean`, that a question goes on
  only with calls that were not billed above their reservations, and that
  nothing is kept for one (`AnswersAreWithin`).

Sums are over a set of rows in the order in which the community modules' fold
takes them. `SumUnfolds`, `SumAdds` and `SumSame` are proved from the
definition of the fold; where an induction over the size of the set is needed,
the proof takes a counterexample of the least size.

### The processing lock (`ProcessingQueueProofs`)

Assumption: `QueueAssumption`.

* `QueueLosesNoTurn`: `NoTurnLost`, and `OneTurnAtATime`, that no two sessions
  are inside a turn at once, from `QueueInv`: tickets go with where threads
  are; a place is given out, not passed, not given back and nobody else's; a
  wake is only left for a reservation whose turn has not come; a session that
  reads with a reservation has left its wake, or its turn has come and its
  wake is taken out and will be signalled.
* `QueueImplementsTurns`: `GivesTurnsInOrder`. `Turns` maps the tickets that
  are someone's, sorted, to the line of `FifoTurns`. The lemmas say what
  sorting gives when the greatest ticket is added and when one is given back or
  passed; then every action is a step of `FifoTurns` or changes nothing of it.

### The event stream and its readers (`DeliveryProofs`)

Assumptions: `StoreAssumption`, by which every event has a size,
`ReaderAssumption`, `LimitAssumption`, and `KeepsSome`, that a launch that discards events keeps one, without which the
theorems are false of the code (below, 3). The last one also needs `HasRoom`,
that a response has room for a snapshot of what its reader may see (below, 4).

* `PositionsKeep`: `PositionsHold`. `StoreInv` says that retention has left the
  last rows, the very last event among them (`Retained`), so the number that a
  commit takes from the rows left is after every number of the epoch, those
  discarded included (`EpochEnd`); every event is at a revision its subject has
  reached. `Grows` is what any step of the store leaves to whoever has read:
  events stay, new ones are behind no valid cursor, and valid cursors stay valid.
* `StreamIsFollowed`: `FollowsStream`. `ReadInv` holds at each iteration of
  `read_events`: every event between where the read began and where it is was
  taken, in order, or is shown by the gap's snapshot, or was given up with its
  epoch, or is not for this reader. The next event is found where nothing before
  it was passed over (`NothingBefore`, `NotMissing`); a gap's snapshot shows
  every subject an event was about (`GapTells`).
* `ReadsLeaveNothingOut`: `ReadsAreWhole`. `Ends` counts: a read that has taken
  nothing has passed one row in each iteration, so after as many as there are
  rows it has stopped, and with room for a snapshot it stops only at the end.

The loop is a recursive function. `ReadRuns` gives, by the least number for
which there is none, a function that satisfies its definition, and the
invariant of the loop is proved of it by the least iteration that breaks it.

### Delivery (`DeliveryProofs`)

Assumptions: `StoreAssumption`, `ReaderAssumption`, `DeliveryAssumption`, and
`KeepsSome` as above. No room for a snapshot is assumed.

* `DeliveryIsFollowed`: `FollowsStream`, of consumers that are cut off, whose
  provider is killed, and that subscribe again from the cursor they received
  last. What they were told (`Reached`) says nothing of what is on its way, so
  `Delivering` does. `Coming` is the frames that the consumer is still to
  receive: the outbox, but none once the writer failed, and after an abandoned
  outbox the one in the writer's hand. Each position in it, of a frame or of a
  subscription behind all of them, is `Upto`: whatever the consumer asked for
  before it has reached it or is brought by a frame in between. The items of a
  frame are behind all that came before and before its own cursor (`Fits`).
* `NothingIsToldAfterLapse`: `NothingAfterLapse`, from the same invariant: a
  frame of a grant that has lapsed may still wait for the writer, and every
  event in it was committed under the grant.
* `OutputStaysOrderly`: `OutputOrderly`. A drain fills a room that was measured
  in an earlier step, while the writer goes on. `Owes` says what the session
  knows where it is, that the room it measured is still there (the pending
  frames only become fewer) and that a whole frame of any size is only pushed
  into an outbox that was empty.

A drain is a loop whose turn takes a page for one subscription, ends it, goes on
to the next one or withholds. `DrainTurn` says what a turn does, `Drains` is
what holds of what was produced after each (`DrainKeeps`), `DrainCarries` that
the frames produced so far, behind those of before, keep `OnItsWay`, and
`DrainIsWhole` says both of the function that satisfies the loop's definition
(`DrainRuns`), after any number of turns. Weights are sums over the queue;
`WeightOf` and `WeightJoined` say what a push and a pop do to them.

### Commands, grants and effects (`CommandsProofs`)

Assumptions: `CommandAssumption`; `KeyAssumption` and `EnvelopeAssumption`, that
an operation names a subject of its own kind, which the code takes from the
operation or refuses before it reads any state; `EffectAssumption`, that a
producer commits an effect with its waits open.

`CommandsInv` says of the store that it is typed, of the window that it is the
generations since `Retain` starts ago, of each committed request that its
record is bound, with its result, while its generation is in the window, of
each grant that it is within its parent and revoked if its parent is, and of
each obligation that its announcements agree with its state.

* `CommandsApplyOnce`: `AppliedOnce`. `GrantsDelegateNoMore`:
  `DelegatesNoMore`, through any chain. `OverdueIsToldOnce`: `OverdueOnce`.
* `RefusalsTellNothing`: `RefusalTellsNothing`: a refused request is handled
  alike in the store in which the hidden subject was never made.
* `WhatEndedStaysEnded`: `EndedStaysEnded`, an action property: within a
  process `Now` never goes back whatever the clock file says, revocation
  reaches every descendant, and no commit touches a wait that is closed.

### Evidence (`EvidenceProofs`)

Assumptions: `EvidenceAssumption`; `OrderAssumption`, that the store keeps
artifacts in one order; `TickRowAssumption`, that a pass seals an artifact under
a set of rights. The first two theorems are under
`"sealed" \notin Over`, that nobody prepares over a sealed artifact: without it
they are false of the code, as `held_reprepared` shows.

* `BytesAreKept`: `BytesFollowRecords`, and `HoldsKeep`: `HeldIsKept`, from
  `EvidenceInv`: what the step under way promises between a file and its row
  (an object about to be named is there and its upload staged), and what keeps
  an object whose purge is confirmed and which no record names, namely the step
  that will delete it, a seal that will name it, or the next start.
* `VerdictsAgree`: `VerdictsHold`, a part of `ReadsAreTrue`, in every state: a
  reader who is told that a manifest is complete is served each required child,
  except the derivations made from what it may not read, which it is denied
  (below, 12); and nobody else is told that the manifest is incomplete.
* `ReadersAreToldTrue`: `ReadsAreTrue`, with the listings, for any page size: who
  follows a listing to its end has been shown all that was there when it began
  and that it could read then, and nothing that an inspection would refuse it.
  `ListingInv` says between two pages what the last one promised: whatever was
  there when the listing began, is up to the item that the cursor names, and may
  be read by this lister, has been shown (`ShownUpTo`), and of a derivation among
  the rest some page has said that it was filtered. It holds because the cursor is
  a place in the order and not a count, so records that appear or are purged in
  between move nothing past it, and because no artifact's readers become fewer
  while it is there: what a row is to be read under (`RowUnderWay`) is that of an
  artifact that was not there, or is empty.

### Context preparation (`ContextJobsProofs`)

Assumptions: `ContextAssumption`, that wants and scripts are finite, sizes and
limits are natural numbers and no request has the empty id; that a script has
the steps a harness may name, which a compile is not among, and its sections are
whole (`IsSection`). The theorems are under `Resubmitted = {}`: a request that is
submitted again while it is live replaces the record its job goes on with, and
the job's other subscribers are left behind.

* `PublicationIsSound`: `PublicationSound`, for any requests, sources, scripts,
  deadlines, launches and pool, from `ContextInv`, which TLC also found to hold
  in the run's states. The three parts of the property speak of what is stored,
  and a tick stores at its end what it worked out in several steps, while time,
  threads and kills go on. So `Holding` says of a tick under way that the
  requests it holds differ from those stored only by what it prepared and
  published since: a request it still prepares is one that is preparing in the
  store, a request whose job it has ended is not preparing any more, and every
  packet is sealed, or among what is to be sealed (`Placed`). `Ticking` says
  when the captures are kept, before anything is sent.
* `SatisfactionIsCurrent`: `SatisfiedByCurrent`, a part of `PacketsTrue`, of
  every packet a tick composes (`IsTrue`), and so of every one that is stored.
* `PacketsAreTrue`: `PacketsTrue`, which adds `CapacityKept`: a packet has the
  size its reader asked for at most. `inclusion` carries what a required item
  needs before it counts, so this rests on the refusal at submit, which was made
  for the sections the script would produce, long before they exist. `Fits`
  follows that bound through a job: what its whole script would make for
  required items fits (`Needs`), and what it holds for them is no more than its
  past steps made (a correction only takes away, `CorrectedFits`). A
  compile has no script to refuse, and is the only step of one: it writes within
  the capacity itself (`WrittenFits`). `PacketFits` is then about one loop: what
  was required, plus each section that still had room. The theorem is also under
  `SharersHaveRoom`, without which it is false: a request that joins a job has
  the capacity of the job's first (departure 7 below).

A tick is made of loops: the items that are decided, the keys that are put into
the pool, the steps of a job, the subscribers that are told. Each is a recursive
function with a lemma that gives a function satisfying its definition, and a
lemma that says what a turn of it keeps; `CountUp` goes through the turns.

### Sessions and credentials (`SessionsProofs`)

Assumptions: `ProcessAssumption`, `CredentialAssumption`; `ServedAssumption`,
that the profiles a provider serves depend on `core` at most, as the table of
the code does; `OperationsAssumption`, that a method is known or not whoever
calls it. The second and third theorems are under `Alone`, that no two
processes issue for one principal at once, without which they are false of the
code (below, 11).

* `TypeCorrect`: `[]TypeOK`, with at most one live credential for a principal.
* `LiveIsHanded`: `CredentialsSound`, from `IssuesApart`: between the steps of
  an issue its files hold the credential it will record.
* `StartsAndSessionsWork`: `WorksWhileLive`, an action property, from the same.
* `AnswersAreSound`: `AnswersSound`, for every table and every request: a
  session's selection is the answer to the request it negotiated, and the
  answer to any request holds all that is required and all it needs.

### Knowledge (`KnowledgeProofs`)

Assumptions: `ContentAssumption`, that a draft is of a scope there is and that
a reference to another provider's claim names none of this one's;
`SupportAssumption`, that a support entry has a completeness and a set of roots.
The run `knowledge` evaluates both.

* `KnowledgeHolds`: `[]KnowledgeInv`, the invariant the next three need. The
  properties alone are not inductive: that a decision is by the authority of its
  epoch survives a rebinding only because epochs are appended (`Epochs`), that a
  chain has one end only because each decision supersedes the latest one about
  the same revision (`Chain`), and that an evaluation is grounded only because
  the evaluation a dependency's finding was taken from is an earlier one
  (`Rested`). `Known` says that every recorded reference names a revision that
  exists, by its digest; with `Lineages`, by which revisions are only appended,
  what a record was found from is there to be found again.
* `DecisionsHold`: `DecisionsSound`. That a conflict is real whichever revision
  is named first needs `CompareSymmetric`: `compare` looks for the least reason,
  and each of its reasons is symmetric.
* `ApplicabilityHolds`: `GroundedApplicability`. `Grounded` is a recursion over
  the evaluations: the proof gives a function that satisfies its definition,
  then takes the least evaluation that is applicable and not grounded and finds
  an earlier one (`AllGrounded`).
* `ReadsHold`: `ReadTimeAgrees`: what a reader is told is a function of the
  snapshot a packet carries and the state then, and the two agree.
* `ApartHolds`: `ApartStaysApart`, an action property: `Apart` says of two
  records, of any shape, that there is a reason not to compare them, and every
  reason is between things both state, so it survives when either states more
  (`ApartKept`).
* `SupportHolds`: `SupportSound`: entries found disjoint share no origin in any
  reading of what they leave open (`DisjointIsDisjoint`), and a common root is a
  common origin in every reading.

### Only model-checked

* Liveness (`QuestionsEnd`, `RequestsServed`, `FollowerCatchesUp`, `PurgesEnd`,
  `RequestsEnd`) and the fairness it rests on, which the prover does not reach.
* `InvestigationKept` and the properties of `Projections`, which are about sums
  over calls and units: induction over data needs an operator as a parameter,
  which no installed prover can instantiate. What can be done is what was done
  for `read_events`, for a drain, for a tick and for the sizes of a packet, a
  function that satisfies the definition and a least counterexample, one
  recursion at a time.

## Where the code and its documents disagree

`held_reprepared` is the disagreement a run shows: `evidence_prepare` writes a
staged record whatever the artifact was, so a prepare that names the current
revision of a sealed and held artifact makes it an upload again, which may be
abandoned, and the next start collects the bytes while the hold is active.
`PROJECT.json` quotes the lines.

The others were met with the same modules, and the models have the behaviour;
paths are under `crates/cbr-provider/src`.

1. A stop that is lost (`model.rs:617`; the comment at 1169 says that "no
   further model call is admitted"). An input is billed above its bound and the
   settlement lands; the store refuses the one write of the note, whose failure
   is dropped; the store goes on admitting.
2. A consumer that stalls others (`session.rs:129`; `outbox.rs:5`: it "can stall
   only its own delivery"). A session has an idle reservation; its input ends
   and it drains for up to 30 s, or it waits for room to answer an invalid
   frame; the sessions before it finish, its ticket is at the front, and nobody
   is served until the wait ends.
3. Retention of nothing (`store.rs:628`, 677). With `events.retain_last` 0 a
   start discards the last row of the epoch; the next event is numbered from the
   rows left and is 1 again; a reader whose cursor was at 0 is handed it at a
   position that was discarded, without a gap. (`Retain = {0}` in
   `event_reads.cfg`: `PositionsHold`, and `NoSilentGap` when that is not checked.)
4. A gap larger than the caller's limit (`store.rs:1980`; the comment at 1896
   says that the caller "is told so rather than handed a truncated view"). The
   gap's snapshot does not fit, and the answer has no items, the same cursor and
   no error, like the end of the stream. (`Budget <- Little`, the
   `NoMoreIsTheEnd` of `ReadsAreWhole`.)
5. A revision shown to a delegate (`provider.rs:1669`; its comment says that
   "only an authority principal reaches an operation without a grant in force").
   A holder delegates under an id that is taken by a grant it may not read; no
   grant is in force for an issue, so `precondition_failed` shows the revision.
6. A hold that changes hands (`evidence_ops.rs:1268`; 203 lets only the owner,
   an authority or a grant for it release one). A hold command that names the
   current revision of someone's active hold replaces its owner, its artifact
   and its expiry.
7. A packet above its reader's capacity (`context.rs:925`; its comment says that
   "the refusal at submit is what keeps the reservation within the capacity").
   A request with a smaller output capacity joins a job (725 does not compare
   capacities) and is published the job's required sections whole.
   (`SmallCapacity = TRUE` in `context.cfg`, the `CapacityKept` of
   `PacketsTrue`.)
8. A deadline that is not looked at (`context_ops.rs:1758`: "`advance` already
   publishes what a job has when it passes"). A compile whose index or answers
   are not ready returns from `advance` before the deadlines at 3931; until it
   is ready, the job's subscribers are published nothing.
9. Questions asked again (`context_ops.rs:2682` and the comment of
   `context_cancel`). The keys of questions carry the id of the job's first
   subscriber; when it cancels and the job goes on for another one, every
   question is asked and paid for again under the next id.
10. One packet that stops every job (`context_ops.rs:4187`; 203 says that "one
    bad packet must not stop every other job on the provider, which routing it
    through `Protocol` would"). An artifact already has the id of a packet; the
    error is a protocol one, ends the tick for the jobs behind it, and comes
    again at every tick. Each of them also compiles and asks again, and pays
    again: a compile releases the answers it has read (`context_ops.rs:632`:
    "compiling happens once per job"), and what it made is dropped with its tick.
    (`Taken = {"t1"}` in `context.cfg`, `RequestsEnd`.)
11. Two administrators at once (`credentials.rs:55`, 67; the comment at 40 says
    "never a working credential nobody holds"; `main.rs:192` takes no lock). A
    writes the staging file, B writes it over, A renames B's credential into
    place and records the digest of its own: live, and in no file.
    (`Alone = FALSE` in `sessions.cfg`, the `LiveWasHanded` of
    `CredentialsSound`.)
12. A manifest that is complete and cannot be read (`evidence_ops.rs:980`, 1128;
    the comment at 958 says that a child the reader may not read is told as
    withheld). `completeness` asks `may_read` of each child and not
    `covers_derivation`, so a reader is told "complete" of a manifest one of whose
    required children is a derivation that inspection and fetching deny it.
    (`VerdictsHold` says so; the manifest of `evidence` has such a child.)
13. A page that does not say it was filtered (`evidence_ops.rs:1064`; the comment
    at 1058 says that "`filtered` says whether authorization hid anything at
    all"). A derivation at or before the cursor is passed over before line 1075
    looks at it, so a later page is not marked for it, though it is for any other
    hidden artifact. (`ListingIsComplete` says so of `filtered` and `hid`.)
14. Bytes that come back after a purge (`context_ops.rs:4045`; the comment at
    `evidence_ops.rs:1605` says that "no reader can observe `purged` while those
    bytes remain"). A pass publishes an object with the bytes of a purged
    artifact and its batch is dropped, or the store refuses a seal's transaction;
    the object has no row and stays until a start, while the artifact is told as
    purged. (`RefuseSeal`; `PurgedIsGone` without `left` does not hold.)

Smaller observations, with no document against them. A retry past the deadline
of a job with a `wait_until` step composes other bytes than those the peer may
have sealed, which then refuses them at every tick. A request submitted again
under the id of a live one overwrites its record and leaves the job's other
subscribers behind. A joiner's investigation limit and deadline do not change
what the job compiles. A launch whose `dedupe.retain_generations` grows reopens
generations whose records were discarded. The slot of an index build that
failed stays failed until a restart. Claims evaluated from a dependency keep
their result when it is evaluated again. A failed status line inside a block is
carried with the block and not among the names a projection counts.

## Plan

Done: the modules above, one run for each question, and the theorems of the
ledger, the lock, the event stream, delivery, commands, evidence, context
preparation, sessions and knowledge. Left for proofs, in order:

1. `ContextJobs`: `InvestigationKept`.
2. An abstract ledger that admits atomically, implemented by `ModelRuntime`.

Left for models: the JSON formats of projections, which are cut by their own
structure; the steps of the packet compiler (`compiler.rs`), whose choices are
values of `Want`; the session with an evidence peer, of which only the outcome
is modelled.

## Not modelled

* Byte-level code (canonical JSON, digests, HTTP, TLS, redaction), ranking and
  text indexing, Git object reading, files and permissions, launch parsing, the
  keychain and the command line client are data or I/O: the models take what
  they produce as values.
* Failures of the disk other than a refused ledger write, a failing peer and an
  altered object: the handlers answer them with an internal error and change
  nothing.
* The shape checks of an envelope and a descriptor, whose refusals come before
  any state is read.
* What the conformance launch alone adds, except the test subjects of
  `Commands`, the scripts of `ContextJobs` and the test profile of `Sessions`:
  they are the only producers of effects and of scripted steps there are.
* `core.describe`, which prints tables, and a `core.negotiate` sent before
  authentication, which the gates refuse like any other operation.
* A failed reread of a packet's claim, and which of a packet's ids is outside the
  grammar (see `Claims, Knowledge, Comparisons` and `ContextJobs`).
* What only time makes due while no session polls and no request arrives: it
  waits, in the code and in the models.
