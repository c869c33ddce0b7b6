---------------------------- MODULE ModelRuntime ----------------------------
(***************************************************************************)
(* The model call path: Runtime::ask, call, count and settle_completion of *)
(* crates/cbr-provider/src/model.rs over the durable token ledger of       *)
(* budget.rs, recorded by wire/record.rs.  Questions run on the pool's     *)
(* threads (Worker), each with its own connection to one SQLite store, so  *)
(* a transaction is the span between taking and releasing the store's      *)
(* write lock.  The store may refuse any write (a fault), and the process  *)
(* may be killed at any point and started again.                           *)
(***************************************************************************)
EXTENDS BudgetLedger, FiniteSets

CONSTANTS
    Worker,        \* threads of the work pool
    NoWorker,      \* the write lock is free
    Local,         \* input bound of the question's body (budget::input_bound)
    Generation,    \* generation limit the body declares
    Instruction,   \* what the repair instruction adds to the input bound
    Margin,        \* SAFETY_MARGIN_TOKENS
    Floor,         \* below it a provider's count is implausible
    Countings,     \* how questions may count: a subset of Counting
    HasCount,      \* the dialect has a counting endpoint
    Bills,         \* what a provider may charge for a call
    Inputs,        \* what it may say the input cost
    Counts,        \* what its counting endpoint may say
    Outcomes,      \* how a call may end: a subset of AnswerType
    Readings,      \* what a completion may be read as: a subset of Reading
    MaxQuestions,  \* bound: questions asked in a behaviour
    MaxFaults,     \* bound: writes the store refuses
    MaxCrashes,    \* bound: times the process is killed
    MaxClock       \* bound: last instant

AnswerType == {"counted", "completed", "exhausted", "not_sent", "failed"}

Reading == {"usable", "truncated", "unstructured", "unusable"}

\* Ask::counting: before every completion, or only when it could admit.
Counting == {"always", "could_admit"}

ASSUME RuntimeAssumption ==
    /\ NoWorker \notin Worker
    /\ Local \in Nat /\ Generation \in Nat /\ Instruction \in Nat
    /\ Margin \in Nat /\ Floor \in Nat
    /\ Countings \subseteq Counting /\ HasCount \in BOOLEAN
    /\ Bills \subseteq Nat /\ Inputs \subseteq Nat /\ Counts \subseteq Nat
    /\ Outcomes \subseteq AnswerType /\ Readings \subseteq Reading
    /\ MaxQuestions \in Nat /\ MaxFaults \in Nat
    /\ MaxCrashes \in Nat /\ MaxClock \in Nat

VARIABLES
    rows,       \* durable: model_ledger, with what model_calls recorded
    notes,      \* durable: kinds of the note rows that are read back
    lock,       \* who holds the store's write lock
    kept,       \* this process: overruns the store did not take (UNWRITTEN)
    holdsStop,  \* this process: UNWRITTEN has an entry for this store
    phase,      \* "starting" until the start has reconciled, then "up"
    pc,         \* where each thread is
    q,          \* what each thread's question holds
    seen,       \* history: what a provider has been seen to bill
    clock, asked, faults, crashes

store == <<rows, notes>>
process == <<kept, holdsStop, phase>>
bounds == <<clock, asked, crashes>>
vars == <<rows, notes, lock, kept, holdsStop, phase, pc, q, seen,
          clock, asked, faults, crashes>>

-----------------------------------------------------------------------------
(* Types. *)

PC == {"idle", "call", "admit", "flush", "begin", "check", "commit", "refused",
       "send", "settle", "settling", "rollback", "counted", "completed", "done"}

Answer == [type  : AnswerType \cup {"none"},
           usage : Figure,
           input : Figure,
           read  : Reading]

NoAnswer == [type |-> "none", usage |-> Silent, input |-> Silent, read |-> "usable"]

Kept == [id : Nat, tokens : Nat]

Question ==
    [job      : Job,
     counting : Counting,
     now      : Nat,            \* read once, when the question is asked
     local    : Nat,            \* input bound of this attempt's body
     gen      : Nat,            \* generation limit of this attempt's body
     repairs  : Nat,
     call     : {"count", "completion"},
     want     : Nat,            \* estimate being admitted
     decision : Decision,
     refusal  : Decision,       \* why the local bound was refused
     res      : Nat,            \* reservation of the call that is out
     on       : Figure,         \* admitted_on
     answer   : Answer,
     held     : Nat,            \* charges.count of this attempt
     charged  : Nat,            \* Cost::charged of the question so far
     mine     : SUBSET Nat,     \* history: reservations of this question
     flush    : SUBSET Kept,    \* write_unwritten's copy, still to write
     written  : SUBSET Nat,
     outcome  : {"none", "answered", "unmet", "refused"}]

Fresh(j, t, c) ==
    [job |-> j, counting |-> c, now |-> t, local |-> Local, gen |-> Generation, repairs |-> 0,
     call |-> "completion", want |-> 0, decision |-> "grant", refusal |-> "grant",
     res |-> 0, on |-> Silent, answer |-> NoAnswer, held |-> 0, charged |-> 0,
     mine |-> {}, flush |-> {}, written |-> {}, outcome |-> "none"]

AnyJob == CHOOSE j \in Job : TRUE

\* Type correctness of the whole state.
TypeOK ==
    /\ rows \in Seq(Row)
    /\ notes \subseteq NoteKind
    /\ lock \in Worker \cup {NoWorker}
    /\ kept \subseteq Kept
    /\ holdsStop \in BOOLEAN
    /\ phase \in {"starting", "up"}
    /\ pc \in [Worker -> PC]
    /\ q \in [Worker -> Question]
    /\ seen \in [overrun : BOOLEAN, bound : BOOLEAN]
    /\ clock \in Nat /\ asked \in Nat /\ faults \in Nat /\ crashes \in Nat

Init ==
    /\ rows = <<>>
    /\ notes = {}
    /\ lock = NoWorker
    /\ kept = {}
    /\ holdsStop = FALSE
    /\ phase = "starting"
    /\ pc = [w \in Worker |-> "idle"]
    /\ q = [w \in Worker |-> Fresh(AnyJob, 0, "could_admit")]
    /\ seen = [overrun |-> FALSE, bound |-> FALSE]
    /\ clock = 0 /\ asked = 0 /\ faults = 0 /\ crashes = 0

-----------------------------------------------------------------------------
(* Shorthands of the actions. *)

\* The store refuses an operation: the disk is full, or the write lock was
\* not had within the busy timeout.
Fault == faults < MaxFaults /\ faults' = faults + 1

NoFault == UNCHANGED faults

At(w, where) == phase = "up" /\ pc[w] = where

Goto(w, where) == pc' = [pc EXCEPT ![w] = where]

\* The question is over.  What it was charged and what it reserved stay for
\* the caller; the rest of the thread's frame is gone.
End(w, new, outcome) ==
    /\ Goto(w, "done")
    /\ q' = [q EXCEPT ![w] = [Fresh(new.job, new.now, new.counting) EXCEPT
                                 !.charged = new.charged,
                                 !.mine = new.mine,
                                 !.outcome = outcome]]

\* A reservation of the local bound (budget::reservation).
Send(local, gen) == local + gen + Margin

Always(w) == q[w].counting = "always"

\* Ask the ledger to admit "want" for a call.
Admitting(new, call, want) == [new EXCEPT !.call = call, !.want = want]

-----------------------------------------------------------------------------
(* Runtime::ask and Runtime::call, up to the first admission. *)

Ask(w, j, c) ==
    /\ phase = "up"
    /\ pc[w] \in {"idle", "done"}
    /\ asked < MaxQuestions
    /\ asked' = asked + 1
    /\ q' = [q EXCEPT ![w] = Fresh(j, clock, c)]
    /\ Goto(w, "call")
    /\ UNCHANGED <<store, lock, process, seen, clock, faults, crashes>>

\* One attempt starts.  Counting::Always counts first; otherwise nothing is
\* admitted on a bound known to be wrong.  A ledger that cannot be read here
\* is taken not to have said so, and the admission asks again.
Call(w) ==
    /\ At(w, "call")
    /\ \/ /\ Always(w) /\ HasCount
          /\ q' = [q EXCEPT ![w] = Admitting(@, "count", @.local)]
          /\ Goto(w, "admit") /\ NoFault
       \/ /\ ~(Always(w) /\ HasCount)
          /\ \/ "bound_unsound" \notin notes /\ NoFault
             \/ "bound_unsound" \in notes /\ Fault
          /\ q' = [q EXCEPT ![w] = Admitting(@, "completion", Send(@.local, @.gen))]
          /\ Goto(w, "admit")
       \/ /\ ~(Always(w) /\ HasCount)
          /\ "bound_unsound" \in notes
          /\ End(w, q[w], "unmet") /\ NoFault
    /\ UNCHANGED <<store, lock, process, seen, bounds>>

-----------------------------------------------------------------------------
(* Ledger::admit. *)

\* Add an overrun to what this process keeps, once per reservation.
Keep(id, tokens) ==
    /\ kept' = IF \E k \in kept : k.id = id THEN kept
               ELSE kept \cup {[id |-> id, tokens |-> tokens]}
    /\ holdsStop' = TRUE

\* write_unwritten copies what is kept ...
FlushCopy(w) ==
    /\ At(w, "admit")
    /\ q' = [q EXCEPT ![w].flush = kept, ![w].written = {}]
    /\ Goto(w, IF kept = {} THEN "begin" ELSE "flush")
    /\ UNCHANGED <<store, lock, process, seen, bounds, faults>>

\* ... settles each where the store takes it, a transaction of its own ...
FlushOne(w) ==
    /\ At(w, "flush")
    /\ \E k \in q[w].flush :
          \/ /\ lock = NoWorker
             /\ rows' = Settled(rows, k.id, Usage(k.tokens), rows[k.id].at)
             /\ q' = [q EXCEPT ![w].flush = @ \ {k}, ![w].written = @ \cup {k.id}]
             /\ NoFault /\ UNCHANGED <<kept, holdsStop>>
          \/ /\ Fault
             /\ Keep(k.id, k.tokens)
             /\ q' = [q EXCEPT ![w].flush = @ \ {k}]
             /\ UNCHANGED rows
    /\ UNCHANGED <<notes, lock, phase, pc, seen, bounds>>

\* ... and forgets the ones that were written.  The stop stays.
FlushRetain(w) ==
    /\ At(w, "flush")
    /\ q[w].flush = {}
    /\ kept' = {k \in kept : k.id \notin q[w].written}
    /\ q' = [q EXCEPT ![w].written = {}]
    /\ Goto(w, "begin")
    /\ UNCHANGED <<store, lock, holdsStop, phase, seen, bounds, faults>>

\* Mutant: a deferred BEGIN takes no lock, so two admissions read one spend.
AdmitBeginDeferred(w) ==
    /\ At(w, "begin")
    /\ Goto(w, "check")
    /\ UNCHANGED <<store, lock, process, q, seen, bounds, faults>>

\* BEGIN IMMEDIATE takes the write lock before anything is read.
AdmitBegin(w) ==
    /\ At(w, "begin")
    /\ lock = NoWorker
    /\ lock' = w
    /\ Goto(w, "check")
    /\ UNCHANGED <<store, process, q, seen, bounds, faults>>

\* The stops and the ceilings, read under the lock.
AdmitCheck(w) ==
    /\ At(w, "check")
    /\ q' = [q EXCEPT ![w].decision =
                AdmitDecision(rows, notes, holdsStop, q[w].now, q[w].job, q[w].want)]
    /\ Goto(w, "commit")
    /\ UNCHANGED <<store, lock, process, seen, bounds, faults>>

\* COMMIT: a grant leaves its reservation, a refusal leaves no spend.
AdmitCommit(w) ==
    /\ At(w, "commit")
    /\ lock' = NoWorker
    /\ \/ /\ q[w].decision = "grant"
          /\ rows' = Reserved(rows, q[w].now, q[w].job, q[w].want)
          /\ q' = [q EXCEPT ![w].res = Len(rows) + 1,
                            ![w].mine = @ \cup {Len(rows) + 1}]
          /\ Goto(w, "send")
       \/ /\ q[w].decision # "grant"
          /\ Goto(w, "refused")
          /\ UNCHANGED <<rows, q>>
    /\ UNCHANGED <<notes, process, seen, bounds, faults>>

\* The store cannot be asked, or its answer does not commit.  A process that
\* holds a stop refuses; otherwise the ledger is unavailable.
AdmitFail(w) ==
    /\ phase = "up"
    /\ pc[w] \in {"begin", "check", "commit"}
    /\ Fault
    /\ lock' = IF lock = w THEN NoWorker ELSE lock
    /\ \/ /\ holdsStop
          /\ q' = [q EXCEPT ![w].decision = "reservation_overrun"]
          /\ Goto(w, "refused")
       \/ /\ ~holdsStop
          /\ End(w, q[w], "unmet")
    /\ UNCHANGED <<store, process, seen, bounds>>

\* The refusal of a serving completion on a counter that a tighter figure
\* could satisfy is answered by a count, unless the store has closed the
\* count path.  Every other refusal stands.
Refused(w) ==
    /\ At(w, "refused")
    /\ LET countable == /\ q[w].call = "completion" /\ q[w].refusal = "grant"
                        /\ ~Always(w) /\ HasCount
                        /\ ATighterFigureCouldAdmit(q[w].decision)
       IN  \/ /\ countable
              /\ "count_unsound" \notin notes
              /\ q' = [q EXCEPT ![w] = [Admitting(@, "count", @.local)
                                          EXCEPT !.refusal = q[w].decision]]
              /\ Goto(w, "admit") /\ NoFault
           \/ /\ ~countable \/ "count_unsound" \in notes
              /\ End(w, q[w], "refused") /\ NoFault
           \/ countable /\ Fault /\ End(w, q[w], "refused")
    /\ UNCHANGED <<store, lock, process, seen, bounds>>

-----------------------------------------------------------------------------
(* The exchange and its record. *)

\* What the transport may answer.  An answer of the other kind (a completion
\* to a count) is settled and ends like a failure that reports nothing.
Answers(call) ==
    LET reports == {Silent} \cup Bills
        kind    == IF call = "count" THEN "counted" ELSE "completed"
    IN  {a \in {[NoAnswer EXCEPT !.type = t] : t \in {"exhausted", "not_sent"}}
              \cup {[NoAnswer EXCEPT !.type = "failed", !.usage = u] : u \in reports}
              \cup {[NoAnswer EXCEPT !.type = "counted", !.usage = n] : n \in Counts}
              \cup [type : {"completed"}, usage : reports,
                    input : {Silent} \cup Inputs, read : Readings] :
            /\ a.type \in Outcomes
            /\ a.type \in {"counted", "completed"} => a.type = kind
            /\ a.usage = Silent => a.input = Silent}

\* What the provider really charged for an answer: what it reported, anything
\* when it was silent, nothing for a call it refused or never received.  A
\* count is priced at nothing.
Charges(a) ==
    CASE a.type \in {"exhausted", "not_sent", "counted"} -> {0}
      [] a.type \in {"failed", "completed"} /\ a.usage # Silent -> {a.usage}
      [] OTHER -> Bills

\* The usage that a recorded exchange reports for its reservation.  Quota
\* answers name no reservation, and a count's response reports no usage.
Reports(a) == IF a.type \in {"failed", "completed"} THEN a.usage ELSE Silent

\* The provider answers, and the recording boundary writes the exchange
\* before the call path sees it.  A record that fails to write is dropped.
Exchange(w) ==
    /\ At(w, "send")
    /\ \E a \in Answers(q[w].call) : \E b \in Charges(a) :
          /\ \/ /\ lock = NoWorker /\ NoFault
                /\ rows' = [rows EXCEPT ![q[w].res].said = Reports(a),
                                        ![q[w].res].billed = b]
             \/ /\ Fault
                /\ rows' = [rows EXCEPT ![q[w].res].billed = b]
          /\ q' = [q EXCEPT ![w].answer = a]
    /\ Goto(w, "settle")
    /\ UNCHANGED <<notes, lock, process, seen, bounds>>

-----------------------------------------------------------------------------
(* Runtime::finish and Ledger::settle. *)

\* Mutant: silence is read as nothing spent.
SilenceSpendsNothing(w) ==
    LET a == q[w].answer
    IN  CASE a.type = "exhausted" -> ProviderExhausted
          [] a.type = "counted" -> Usage(Min({a.usage, q[w].local}))
          [] OTHER -> IF a.usage = Silent THEN NothingSpent ELSE Usage(a.usage)

\* What an answer settles its reservation to.  A count settles at no more
\* than its input bound, and a failure at what the provider said it charged.
SettlementOf(w) ==
    LET a == q[w].answer
    IN  CASE a.type = "exhausted" -> ProviderExhausted
          [] a.type = "not_sent"  -> NothingSpent
          [] a.type = "counted"   -> Usage(Min({a.usage, q[w].local}))
          [] OTHER -> IF a.usage = Silent THEN UsageUnknown ELSE Usage(a.usage)

\* Mutant: a call nobody priced is charged nothing at all.
HoldsWhatWasSaid(settlement, estimate) ==
    IF settlement.kind = "unknown" THEN Silent ELSE settlement.tokens

\* What the ledger holds for a settlement that landed, or that is kept.
Holds(settlement, estimate) ==
    IF settlement.kind = "unknown" THEN estimate ELSE settlement.tokens

\* The question is charged, and the call path reads its answer.
Charge(w, amount) ==
    /\ q' = [q EXCEPT ![w].charged = @ + amount,
                      ![w].held = IF q[w].call = "count" THEN amount ELSE @]
    /\ Goto(w, IF q[w].call = "count" THEN "counted" ELSE "completed")

SettleBegin(w) ==
    /\ At(w, "settle")
    /\ lock = NoWorker
    /\ lock' = w
    /\ Goto(w, "settling")
    /\ UNCHANGED <<store, process, q, seen, bounds, faults>>

\* The settled row and its overrun commit together.
SettleCommit(w) ==
    /\ At(w, "settling")
    /\ LET s   == SettlementOf(w)
           row == rows[q[w].res]
       IN  /\ rows' = Settled(rows, q[w].res, s, q[w].now)
           /\ Charge(w, Holds(s, row.est))
           /\ seen' = [seen EXCEPT !.overrun = @ \/ Overran(s, row.est)]
    /\ lock' = NoWorker
    /\ UNCHANGED <<notes, process, bounds, faults>>

\* keep: a bill above its reservation that the store did not take.
KeepIfOverran(w) ==
    IF Overran(SettlementOf(w), rows[q[w].res].est)
    THEN Keep(q[w].res, SettlementOf(w).tokens)
    ELSE UNCHANGED <<kept, holdsStop>>

\* The settlement's transaction fails: it is kept before the rollback, while
\* the write lock is still held ...
SettleRefused(w) ==
    /\ At(w, "settling")
    /\ Fault
    /\ KeepIfOverran(w)
    /\ Goto(w, "rollback")
    /\ UNCHANGED <<store, lock, phase, q, seen, bounds>>

\* Mutant: a settlement that did not land is always charged its estimate.
UnsettledAtEstimate(w) ==
    LET est == rows[q[w].res].est
    IN  /\ Charge(w, est)
        /\ seen' = [seen EXCEPT !.overrun = @ \/ Overran(SettlementOf(w), est)]

\* What an unsettled reservation is charged: the bill that was kept, or the
\* estimate at which the row still stands.
Unsettled(w) ==
    LET s == SettlementOf(w)
        est == rows[q[w].res].est
    IN  /\ Charge(w, IF Overran(s, est) THEN s.tokens ELSE est)
        /\ seen' = [seen EXCEPT !.overrun = @ \/ Overran(s, est)]

\* Mutant: the failed settlement's transaction is never rolled back.
NoRollback(w) ==
    /\ At(w, "rollback")
    /\ Unsettled(w)
    /\ UNCHANGED <<store, lock, process, bounds, faults>>

\* ... and only then does the lock come free.
Rollback(w) ==
    /\ At(w, "rollback")
    /\ lock' = NoWorker
    /\ Unsettled(w)
    /\ UNCHANGED <<store, process, bounds, faults>>

\* BEGIN IMMEDIATE fails, so the settlement is kept without the lock.
SettleBusy(w) ==
    /\ At(w, "settle")
    /\ Fault
    /\ KeepIfOverran(w)
    /\ Unsettled(w)
    /\ UNCHANGED <<store, lock, phase, bounds>>

-----------------------------------------------------------------------------
(* What the call path makes of a settled answer. *)

\* The provider billed above the reservation (overran, model.rs).
OverranCall(w) ==
    LET a == q[w].answer
    IN  a.type \in {"failed", "completed"} /\ a.usage > rows[q[w].res].est

\* A note row is written, or the write fails and nothing says so.
Note(kind) ==
    \/ lock = NoWorker /\ NoFault /\ notes' = notes \cup {kind}
    \/ Fault /\ UNCHANGED notes

\* The count believed for the completion: the local bound when it is
\* implausibly low, and never more than the local bound.
Believed(w) ==
    LET n == q[w].answer.usage
    IN  IF n < Floor THEN q[w].local ELSE Min({n, q[w].local})

\* Mutant: the ledger alone decides what an attempt may hold.
FitsLedgerOnly(w, wanted) == TRUE

\* The per-attempt rule of the serving path: the count's charge and the
\* completion's reservation together hold no more than the send refused.
FitsSend(w, wanted) == Always(w) \/ q[w].held + wanted <= Send(q[w].local, q[w].gen)

\* After a count: any answer but a count ends the question.  The serving
\* path looks again whether counts are trusted, and refuses a completion that
\* would hold, with the count, more than the send that was refused.
AfterCount(w) ==
    /\ At(w, "counted")
    /\ LET wanted == Send(Believed(w), q[w].gen)
           open   == Always(w) \/ "count_unsound" \notin notes
           fits   == FitsSend(w, wanted)
       IN  \/ /\ q[w].answer.type # "counted"
              /\ End(w, q[w], "unmet") /\ NoFault
           \/ /\ q[w].answer.type = "counted"
              /\ open /\ fits /\ NoFault
              /\ q' = [q EXCEPT ![w] = [Admitting(@, "completion", wanted) EXCEPT
                           !.on = IF Always(w) THEN Silent ELSE Believed(w),
                           !.answer = NoAnswer]]
              /\ Goto(w, "admit")
           \/ /\ q[w].answer.type = "counted"
              /\ ~(open /\ fits) /\ NoFault
              /\ End(w, q[w], "refused")
           \/ /\ q[w].answer.type = "counted" /\ ~Always(w)
              /\ Fault /\ End(w, q[w], "refused")
    /\ UNCHANGED <<store, lock, process, seen, bounds>>

\* The request a repair sends: more room after a truncation, CBR's own
\* sentence after any other repairable outcome.
Repaired(new, read) ==
    LET body == IF read = "truncated" THEN [new EXCEPT !.gen = 2 * @]
                ELSE [new EXCEPT !.local = @ + Instruction]
    IN  [body EXCEPT !.repairs = @ + 1, !.res = 0, !.on = Silent, !.held = 0,
                     !.answer = NoAnswer, !.refusal = "grant"]

\* How often an unusable answer is asked for again (REPAIRS).
Repairs == 1

\* The tripwire: the provider charged more for the input than the bound said
\* it could.  The call ends, and the note that stops the store is written
\* after the settlement, in a transaction of its own.
BoundTripped(w) ==
    /\ At(w, "completed")
    /\ q[w].answer.type = "completed" /\ q[w].answer.input > q[w].local
    /\ Note("bound_unsound")
    /\ seen' = [seen EXCEPT !.bound = TRUE]
    /\ End(w, q[w], "unmet")
    /\ UNCHANGED <<rows, lock, process, bounds>>

\* After any other completion: an input billed above the count it was
\* admitted on closes the count path; an overrun or a failure ends the
\* question, an answer that cannot be used is asked for once more.
AfterCompletion(w) ==
    /\ At(w, "completed")
    /\ LET a == q[w].answer
           unsound == /\ a.type = "completed" /\ q[w].on # Silent
                      /\ a.input > q[w].on + Margin
           stands  == a.type = "completed" /\ ~OverranCall(w)
           repair  == /\ stands /\ a.read \in {"truncated", "unstructured"}
                      /\ q[w].repairs < Repairs
       IN  /\ ~(a.type = "completed" /\ a.input > q[w].local)
           /\ IF unsound THEN Note("count_unsound") ELSE NoFault /\ UNCHANGED notes
           /\ \/ /\ repair
                 /\ q' = [q EXCEPT ![w] = Repaired(@, a.read)]
                 /\ Goto(w, "call")
              \/ /\ ~repair
                 /\ End(w, q[w], IF stands /\ a.read = "usable"
                                 THEN "answered" ELSE "unmet")
    /\ UNCHANGED <<rows, lock, process, seen, bounds>>

-----------------------------------------------------------------------------
(* Process start and kill. *)

\* The process is killed: its threads, its lock and what it kept are gone.
\* What has been seen to be billed above a reservation is from here on what
\* the store can still show.
Crash ==
    /\ phase = "up"
    /\ crashes < MaxCrashes
    /\ crashes' = crashes + 1
    /\ phase' = "starting"
    /\ lock' = NoWorker
    /\ kept' = {}
    /\ holdsStop' = FALSE
    /\ pc' = [w \in Worker |-> "idle"]
    /\ q' = [w \in Worker |-> Fresh(AnyJob, 0, "could_admit")]
    /\ seen' = [overrun |-> HasOverrunRow(rows) \/ ToReconcile(rows) # {},
                bound |-> "bound_unsound" \in notes]
    /\ UNCHANGED <<store, clock, asked, faults>>

\* A start settles each reservation whose recorded answer billed above it,
\* in the order of their ids.  One that fails ends the start, and the next
\* start begins from what was written.
Reconcile ==
    /\ phase = "starting"
    /\ ToReconcile(rows) # {}
    /\ LET id == Min(ToReconcile(rows))
       IN  rows' = Settled(rows, id, Usage(rows[id].said), rows[id].at)
    /\ UNCHANGED <<notes, lock, process, pc, q, seen, bounds, faults>>

Serve ==
    /\ phase = "starting"
    /\ ToReconcile(rows) = {}
    /\ phase' = "up"
    /\ UNCHANGED <<store, lock, kept, holdsStop, pc, q, seen, bounds, faults>>

Tick ==
    /\ clock < MaxClock
    /\ clock' = clock + 1
    /\ UNCHANGED <<store, lock, process, pc, q, seen, asked, faults, crashes>>

-----------------------------------------------------------------------------
Step(w) ==
    \/ Call(w)
    \/ FlushCopy(w) \/ FlushOne(w) \/ FlushRetain(w)
    \/ AdmitBegin(w) \/ AdmitCheck(w) \/ AdmitCommit(w) \/ AdmitFail(w)
    \/ Refused(w)
    \/ Exchange(w)
    \/ SettleBegin(w) \/ SettleCommit(w) \/ SettleRefused(w)
    \/ Rollback(w) \/ SettleBusy(w)
    \/ AfterCount(w) \/ BoundTripped(w) \/ AfterCompletion(w)

\* Every question of the behaviour has ended.
Quiescent ==
    /\ phase = "up" /\ clock = MaxClock /\ asked = MaxQuestions
    /\ \A w \in Worker : pc[w] \in {"idle", "done"}
    /\ UNCHANGED vars

Next ==
    \/ \E w \in Worker : Step(w) \/ \E j \in Job, c \in Countings : Ask(w, j, c)
    \/ Crash \/ Reconcile \/ Serve \/ Tick \/ Quiescent

Spec == Init /\ [][Next]_vars

\* A thread that is running a question goes on, and a start goes on.
Fairness ==
    /\ \A w \in Worker : WF_vars(Step(w))
    /\ WF_vars(Reconcile) /\ WF_vars(Serve)

FairSpec == Spec /\ Fairness

-----------------------------------------------------------------------------
(* Properties. *)

\* What each row holds within its reservation: the bill above it is the one
\* thing that may pass a ceiling.
Within == [i \in DOMAIN rows |-> Min({rows[i].tokens, rows[i].est})]

\* The spend within their reservations that some rows stand for.
SumWithin(ids) == SumFunctionOnSet(Within, ids)

\* The spend of a job, at a position of the rolling window, and of the month
\* of an instant.
OfJob(j) == {i \in SpentRows(rows) : rows[i].job = j}

InWindow(t) == {i \in SpentRows(rows) : t - WindowLen < rows[i].at /\ rows[i].at <= t}

InMonth(t) == {i \in SpentRows(rows) : MonthOf(rows[i].at) = MonthOf(t)}

\* The envelope (admit_locked, budget.rs): whatever threads admit and settle
\* concurrently, and in whichever order their instants were read, no job, no
\* position of the rolling window, no month and no run ever holds more than
\* its ceiling, bills above a reservation apart.
CeilingsHold ==
    /\ \A j \in Job : SumWithin(OfJob(j)) <= PerJob
    /\ \A t \in 0 .. MaxClock : /\ SumWithin(InWindow(t)) <= WindowTokens
                                /\ SumWithin(InMonth(t)) <= MonthTokens
    /\ RunCeiling # NoCeiling => SumWithin(SpentRows(rows)) <= RunCeiling

\* The overrun stop (Ledger::admit, settle_once and record::reconcile): once a
\* bill above its reservation has been settled, or its settlement refused, no
\* admission decides to grant, through refused writes, a thread already waiting
\* on the lock, and a kill and restart whenever the answer was recorded.
NoGrantAfterOverrun ==
    [][\A w \in Worker :
          pc[w] = "check" /\ pc'[w] = "commit" /\ q'[w].decision = "grant"
             => ~seen.overrun]_vars

\* A settlement lands once, and its overrun with it (settle_locked): there is
\* one overrun row for each settled bill above its reservation, and no other,
\* however many threads write the same kept settlement.
OverrunRowPerBill ==
    Cardinality({i \in DOMAIN rows : rows[i].kind = "overrun"}) =
    Cardinality({i \in DOMAIN rows : rows[i].kind = "usage"
                                      /\ rows[i].tokens > rows[i].est})

\* No spend is forgotten (admit writes before the send; UsageUnknown keeps the
\* estimate): through silence, failure, refused writes and kills, a reserved
\* call counts for what was really charged, up to its reservation.
SpendCounted ==
    \A i \in DOMAIN rows :
        rows[i].kind \in Spent => rows[i].tokens >= Min({rows[i].billed, rows[i].est})

\* What the ledger holds for each reservation: the bill kept for it, or its row.
LedgerHolds ==
    [i \in DOMAIN rows |->
        IF rows[i].kind = "reservation" /\ \E k \in kept : k.id = i
        THEN (CHOOSE k \in kept : k.id = i).tokens
        ELSE rows[i].tokens]

\* The cost a question reports is what the ledger holds for its reservations
\* (finish and Cost::charged, model.rs), over counts, repairs, refused
\* settlements, and other threads writing what this one left behind.
ChargedAgrees ==
    \A w \in Worker :
        pc[w] = "done" => q[w].charged = SumFunctionOnSet(LedgerHolds, q[w].mine)

\* The most a question can hold on the serving path (question_worst): its
\* first send and the widest repair after it.
QuestionWorst ==
    LET truncated == Repaired(Fresh(AnyJob, 0, "could_admit"), "truncated")
        reworded  == Repaired(Fresh(AnyJob, 0, "could_admit"), "unstructured")
    IN  Send(Local, Generation) +
        Max({Send(truncated.local, truncated.gen), Send(reworded.local, reworded.gen)})

\* What one attempt reserves (m5-settle, model.rs): the count's charge and the
\* completion's reservation together are within the send that the local bound
\* refused, even when other threads free room while the count is out; under
\* Counting::Always they are within the send and one more input bound.
AttemptWithinSend ==
    \A w \in Worker :
        pc[w] \in {"send", "settle", "settling", "rollback", "completed"}
          /\ q[w].call = "completion"
        => q[w].held + rows[q[w].res].est
             <= Send(q[w].local, q[w].gen) + (IF Always(w) THEN q[w].local ELSE 0)

\* A question's rows hold no more than question_worst prices from its body
\* alone, bills above a reservation apart, however room is freed on the
\* counters while its count is out.
QuestionWithinWorst ==
    \A w \in Worker : ~Always(w) => SumWithin(q[w].mine) <= QuestionWorst

\* An answer is only given to a question none of whose calls billed above its
\* reservation (settle_completion ends the call on an overrun, and on an input
\* above its bound, also when its settlement was refused).
AnswerWithinReservations ==
    \A w \in Worker : q[w].outcome = "answered" =>
        \A i \in q[w].mine : rows[i].said <= rows[i].est /\ rows[i].tokens <= rows[i].est

\* What question_worst and the settlement of a call promise of prices: every
\* attempt, every question and every answer is within what was reserved for it,
\* over counts and repairs beside another thread that takes and frees room.
QuestionsPriced == AttemptWithinSend /\ QuestionWithinWorst /\ AnswerWithinReservations

\* Every question ends: no thread keeps the write lock, and none waits for a
\* lock nobody releases (admit_once and settle_once release it on every path).
QuestionsEnd ==
    \A w \in Worker : pc[w] \notin {"idle", "done"} ~> pc[w] \in {"idle", "done"}

=============================================================================
