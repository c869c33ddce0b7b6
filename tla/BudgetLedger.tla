---------------------------- MODULE BudgetLedger ----------------------------
(***************************************************************************)
(* The rows of the token ledger of crates/cbr-provider/src/budget.rs, and  *)
(* what a call reads from them and writes to them.  The table model_ledger *)
(* is a sequence of rows; a row's index is its id.  A row is the join of   *)
(* the ledger row with the model_calls row that names it as its            *)
(* reservation (wire/record.rs): "said" is the usage that the recorded     *)
(* exchange reports.  "billed" is not in the code: it is what the provider *)
(* really charged, which is what the ledger has to account for.            *)
(*                                                                         *)
(* Rows that carry no spend and are never read back (refusals, anomalies,  *)
(* which figure admitted a call) are left out.  The note rows that are     *)
(* read back are a set of kinds, since every reader asks for existence.    *)
(***************************************************************************)
EXTENDS Integers, Sequences, FiniteSetsExt

CONSTANTS
    Job,            \* preparation jobs
    PerRequest,     \* PER_REQUEST_TOKENS
    PerJob,         \* PER_JOB_TOKENS
    WindowTokens,   \* WINDOW_TOKENS
    WindowLen,      \* WINDOW_SECONDS
    MonthTokens,    \* MONTH_TOKENS
    MonthLen,       \* length of a calendar month on the model's clock
    RunCeiling,     \* the launch's run ceiling, or NoCeiling
    NoCeiling

ASSUME CeilingAssumption ==
    /\ Job # {}
    /\ PerRequest \in Nat
    /\ PerJob \in Nat
    /\ WindowTokens \in Nat
    /\ WindowLen \in Nat \ {0}
    /\ MonthTokens \in Nat
    /\ MonthLen \in Nat \ {0}
    /\ NoCeiling \notin Nat
    /\ RunCeiling \in Nat \cup {NoCeiling}

\* A provider that did not say what something cost.
Silent == -1

Figure == Nat \cup {Silent}

\* Kinds that count against the envelope.
Spent == {"reservation", "usage", "unknown", "provider_exhausted", "not_sent"}

RowKind == Spent \cup {"overrun"}

Row == [kind   : RowKind,
        job    : Job,
        tokens : Nat,
        est    : Nat,
        at     : Nat,
        said   : Figure,
        billed : Nat]

\* The kinds of note row that a later call reads back.
NoteKind == {"bound_unsound", "count_unsound"}

\* What a reservation becomes when its call has ended.
Settlement == [kind : {"usage"}, tokens : Nat]
              \cup [kind : {"unknown", "not_sent", "provider_exhausted"},
                    tokens : {0}]

Usage(n) == [kind |-> "usage", tokens |-> n]

UsageUnknown == [kind |-> "unknown", tokens |-> 0]

NothingSpent == [kind |-> "not_sent", tokens |-> 0]

ProviderExhausted == [kind |-> "provider_exhausted", tokens |-> 0]

-----------------------------------------------------------------------------
(* Reading the ledger. *)

\* The rows that count as spend.
SpentRows(rows) == {i \in DOMAIN rows : rows[i].kind \in Spent}

\* SELECT SUM(tokens) over some of them.
SumTokens(rows, ids) ==
    SumFunctionOnSet([i \in DOMAIN rows |-> rows[i].tokens], ids)

MonthOf(t) == t \div MonthLen

\* What the ledger says has been spent in the window, in the month, by a job
\* and by the run, for an admission whose instant is "now".
WindowSpend(rows, now) ==
    SumTokens(rows, {i \in SpentRows(rows) : rows[i].at > now - WindowLen})

MonthSpend(rows, now) ==
    SumTokens(rows, {i \in SpentRows(rows) : MonthOf(rows[i].at) = MonthOf(now)})

JobSpend(rows, job) ==
    SumTokens(rows, {i \in SpentRows(rows) : rows[i].job = job})

RunSpend(rows) == SumTokens(rows, SpentRows(rows))

\* The store has recorded a bill above its reservation.
HasOverrunRow(rows) == \E i \in DOMAIN rows : rows[i].kind = "overrun"

\* Refusals in the order an admission looks for them: the stops, then the
\* ceilings, the one no envelope would allow first and the launch's own last.
RefusalOrder == <<"local_bound_unsound", "reservation_overrun", "request",
                  "job", "window", "month", "run">>

Refusal == {RefusalOrder[i] : i \in DOMAIN RefusalOrder}

Decision == Refusal \cup {"grant"}

\* Mutant: the stop this process holds is not read under the lock.
RefusalHoldsStoreOnly(rows, notes, holdsStop, now, job, estimate) ==
    [local_bound_unsound |-> "bound_unsound" \in notes,
     reservation_overrun |-> HasOverrunRow(rows),
     request |-> estimate > PerRequest,
     job     |-> JobSpend(rows, job) + estimate > PerJob,
     window  |-> WindowSpend(rows, now) + estimate > WindowTokens,
     month   |-> MonthSpend(rows, now) + estimate > MonthTokens,
     run     |-> RunCeiling # NoCeiling /\ RunSpend(rows) + estimate > RunCeiling]

\* Which refusals hold for an admission of "estimate".  holdsStop says that
\* this process keeps an overrun that the store did not take.
RefusalHolds(rows, notes, holdsStop, now, job, estimate) ==
    [local_bound_unsound |-> "bound_unsound" \in notes,
     reservation_overrun |-> HasOverrunRow(rows) \/ holdsStop,
     request |-> estimate > PerRequest,
     job     |-> JobSpend(rows, job) + estimate > PerJob,
     window  |-> WindowSpend(rows, now) + estimate > WindowTokens,
     month   |-> MonthSpend(rows, now) + estimate > MonthTokens,
     run     |-> RunCeiling # NoCeiling /\ RunSpend(rows) + estimate > RunCeiling]

AdmitDecision(rows, notes, holdsStop, now, job, estimate) ==
    LET holds == RefusalHolds(rows, notes, holdsStop, now, job, estimate)
        found == {i \in DOMAIN RefusalOrder : holds[RefusalOrder[i]]}
    IN  IF found = {} THEN "grant" ELSE RefusalOrder[Min(found)]

\* Which refusals a smaller figure could turn into a grant.
ATighterFigureCouldAdmit(refusal) == refusal \in {"job", "window", "month", "run"}

-----------------------------------------------------------------------------
(* Writing the ledger. *)

\* The reservation row an admission writes before anything is sent.
Reserved(rows, now, job, estimate) ==
    Append(rows, [kind |-> "reservation", job |-> job, tokens |-> estimate,
                  est |-> estimate, at |-> now, said |-> Silent, billed |-> 0])

\* Whether a settlement is a bill above its reservation.
Overran(settlement, estimate) ==
    settlement.kind = "usage" /\ settlement.tokens > estimate

\* Mutant: a settlement is applied to a row that is already settled.
SettledAgain(rows, id, settlement, now) ==
    LET paid == [rows[id] EXCEPT !.kind = settlement.kind,
                                 !.tokens = IF settlement.kind = "unknown"
                                            THEN @ ELSE settlement.tokens,
                                 !.at = now]
        new  == [rows EXCEPT ![id] = paid]
    IN  IF Overran(settlement, paid.est)
        THEN Append(new, [paid EXCEPT !.kind = "overrun"])
        ELSE new

\* The settlement of reservation id: the row becomes the settlement, and a
\* bill above the reservation adds its overrun row in the same transaction.
\* A row that is no longer a reservation takes nothing more.
Settled(rows, id, settlement, now) ==
    LET row  == rows[id]
        paid == [row EXCEPT !.kind   = settlement.kind,
                            !.tokens = IF settlement.kind = "unknown"
                                       THEN @ ELSE settlement.tokens,
                            !.at     = now]
        new  == [rows EXCEPT ![id] = paid]
    IN  IF row.kind # "reservation" THEN rows
        ELSE IF Overran(settlement, row.est)
             THEN Append(new, [paid EXCEPT !.kind = "overrun"])
             ELSE new

\* Reservations that a start settles: standing, with a recorded answer that
\* billed above them.
ToReconcile(rows) ==
    {i \in DOMAIN rows : rows[i].kind = "reservation" /\ rows[i].said > rows[i].est}

=============================================================================
