------------------------- MODULE ModelRuntimeProofs -------------------------
(***************************************************************************)
(* Proofs about the model call path and its ledger, for every set of       *)
(* threads and jobs, every ceiling and every bill: first the path of a     *)
(* call, then what the ledger adds up to, namely what is reserved, what is *)
(* billed, what a question is charged, and the envelope of the sums.       *)
(***************************************************************************)
EXTENDS ModelRuntime, WellFoundedInduction, FiniteSetTheorems, TLAPS

-----------------------------------------------------------------------------
(* Facts about the library's Min. *)

\* A nonempty set of naturals has its smallest element as Min.
LEMMA MinOfNaturals ==
    ASSUME NEW S \in SUBSET Nat, S # {}
    PROVE  Min(S) \in S /\ \A y \in S : Min(S) <= y
<1> DEFINE R == {ss \in Nat \X Nat : ss[1] < ss[2]}
<1>1. IsWellFoundedOn(R, Nat)
  BY NatLessThanWellFounded, Zenon DEF OpToRel
<1>2. \E x \in S : \A y \in S : ~ (<<y, x>> \in R)
  BY <1>1, WFMin, Zenon
<1>3. PICK x \in S : \A y \in S : ~ (<<y, x>> \in R)
  BY <1>2
<1>4. ASSUME NEW y \in S PROVE x <= y
  <2>1. ~ (y < x)
    BY <1>3 DEF R
  <2> QED
    BY <2>1
<1> QED
  BY <1>4 DEF Min

\* The minimum of two naturals is a natural below both.
LEMMA MinOfPair ==
    ASSUME NEW a \in Nat, NEW b \in Nat
    PROVE  Min({a, b}) \in Nat /\ Min({a, b}) <= a /\ Min({a, b}) <= b
<1>1. {a, b} \in SUBSET Nat /\ {a, b} # {}
  OBVIOUS
<1> QED
  BY <1>1, MinOfNaturals

-----------------------------------------------------------------------------
(* Typing of the operators on rows. *)

\* An admission decides one of the named refusals, or a grant.
LEMMA DecisionType ==
    ASSUME NEW r, NEW n, NEW h, NEW t, NEW j, NEW e
    PROVE  AdmitDecision(r, n, h, t, j, e) \in Decision
<1> DEFINE holds == RefusalHolds(r, n, h, t, j, e)
           found == {i \in DOMAIN RefusalOrder : holds[RefusalOrder[i]]}
<1>1. CASE found = {}
  BY <1>1 DEF AdmitDecision, Decision
<1>2. CASE found # {}
  <2>1. found \in SUBSET Nat /\ found \subseteq DOMAIN RefusalOrder
    BY DEF RefusalOrder
  <2>2. Min(found) \in DOMAIN RefusalOrder
    BY <1>2, <2>1, MinOfNaturals
  <2> QED
    BY <1>2, <2>2 DEF AdmitDecision, Decision, Refusal
<1> QED
  BY <1>1, <1>2

\* What a grant means: no stop holds, in the store or in this process.
LEMMA GrantMeansNoStop ==
    ASSUME NEW r, NEW n, NEW h \in BOOLEAN, NEW t, NEW j, NEW e,
           AdmitDecision(r, n, h, t, j, e) = "grant"
    PROVE  ~ (HasOverrunRow(r) \/ h) /\ "bound_unsound" \notin n
<1> DEFINE holds == RefusalHolds(r, n, h, t, j, e)
           found == {i \in DOMAIN RefusalOrder : holds[RefusalOrder[i]]}
<1>1. found = {}
  <2> SUFFICES ASSUME found # {} PROVE FALSE
    OBVIOUS
  <2>1. found \in SUBSET Nat /\ found \subseteq DOMAIN RefusalOrder
    BY DEF RefusalOrder
  <2>2. Min(found) \in DOMAIN RefusalOrder
    BY <2>1, MinOfNaturals
  <2>3. AdmitDecision(r, n, h, t, j, e) = RefusalOrder[Min(found)]
    BY DEF AdmitDecision
  <2> QED
    BY <2>2, <2>3 DEF RefusalOrder
<1>2. 1 \in DOMAIN RefusalOrder /\ 2 \in DOMAIN RefusalOrder
  BY DEF RefusalOrder
<1>3. ~ holds[RefusalOrder[1]] /\ ~ holds[RefusalOrder[2]]
  BY <1>1, <1>2
<1>4. RefusalOrder[1] = "local_bound_unsound" /\ RefusalOrder[2] = "reservation_overrun"
  BY DEF RefusalOrder
<1>5. /\ holds["local_bound_unsound"] = ("bound_unsound" \in n)
      /\ holds["reservation_overrun"] = (HasOverrunRow(r) \/ h)
  BY DEF RefusalHolds
<1> QED
  BY <1>3, <1>4, <1>5

\* A grant appends one reservation.
LEMMA ReservedType ==
    ASSUME NEW r, NEW t \in Nat, NEW j \in Job, NEW e \in Nat
    PROVE  \E row \in Row : row.kind = "reservation" /\ row.est = e
                             /\ Reserved(r, t, j, e) = Append(r, row)
<1> DEFINE new == [kind |-> "reservation", job |-> j, tokens |-> e,
                   est |-> e, at |-> t, said |-> Silent, billed |-> 0]
<1>1. new \in Row
  BY DEF Row, RowKind, Spent, Figure, Silent
<1>2. Reserved(r, t, j, e) = Append(r, new)
  BY DEF Reserved
<1> QED
  BY <1>1, <1>2

\* A settlement changes one row's kind, tokens and instant, and may add a row.
LEMMA SettledType ==
    ASSUME NEW r \in Seq(Row), NEW id \in 1 .. Len(r), NEW s \in Settlement, NEW t \in Nat
    PROVE  /\ Settled(r, id, s, t) \in Seq(Row)
           /\ Len(Settled(r, id, s, t)) >= Len(r)
           /\ \A i \in 1 .. Len(r) : Settled(r, id, s, t)[i].est = r[i].est
           /\ \A i \in 1 .. Len(r) : i # id => Settled(r, id, s, t)[i] = r[i]
           /\ r[id].kind # "reservation" => Settled(r, id, s, t) = r
           /\ r[id].kind = "reservation" /\ Overran(s, r[id].est)
                => HasOverrunRow(Settled(r, id, s, t))
<1> DEFINE paid == [r[id] EXCEPT !.kind = s.kind,
                                 !.tokens = IF s.kind = "unknown" THEN @ ELSE s.tokens,
                                 !.at = t]
           new  == [r EXCEPT ![id] = paid]
           over == [paid EXCEPT !.kind = "overrun"]
<1>1. r[id] \in Row
  OBVIOUS
<1>2. paid \in Row /\ paid.est = r[id].est
  <2>1. s.kind \in {"usage", "unknown", "not_sent", "provider_exhausted"} /\ s.tokens \in Nat
    BY DEF Settlement
  <2> DEFINE k == s.kind
             n == IF s.kind = "unknown" THEN r[id].tokens ELSE s.tokens
  <2>2. k \in RowKind
    BY <2>1 DEF RowKind, Spent
  <2>3. n \in Nat
    BY <1>1, <2>1 DEF Row
  <2> HIDE DEF k, n
  <2>4. [r[id] EXCEPT !.kind = k, !.tokens = n, !.at = t] \in Row
    BY <1>1, <2>2, <2>3 DEF Row
  <2>5. [r[id] EXCEPT !.kind = k, !.tokens = n, !.at = t].est = r[id].est
    BY <1>1 DEF Row
  <2> QED
    BY <2>4, <2>5 DEF k, n
<1>3. over \in Row /\ over.kind = "overrun"
  BY <1>2 DEF Row, RowKind
<1>4. new \in Seq(Row) /\ Len(new) = Len(r) /\ DOMAIN new = 1 .. Len(r)
  BY <1>2
<1>5. \A i \in 1 .. Len(r) : new[i].est = r[i].est /\ (i # id => new[i] = r[i])
  BY <1>2
<1>6. CASE r[id].kind # "reservation"
  BY <1>6 DEF Settled
<1>7. CASE r[id].kind = "reservation" /\ ~ Overran(s, r[id].est)
  <2>1. Settled(r, id, s, t) = new
    BY <1>7 DEF Settled
  <2> HIDE DEF new
  <2> QED
    BY <2>1, <1>4, <1>5, <1>7
<1>8. CASE r[id].kind = "reservation" /\ Overran(s, r[id].est)
  <2>1. Settled(r, id, s, t) = Append(new, over)
    BY <1>8 DEF Settled
  <2> HIDE DEF new, over
  <2>2. /\ Append(new, over) \in Seq(Row)
        /\ Len(Append(new, over)) = Len(r) + 1
        /\ \A i \in 1 .. Len(r) : Append(new, over)[i] = new[i]
        /\ Append(new, over)[Len(r) + 1] = over
    BY <1>3, <1>4
  <2>3. HasOverrunRow(Append(new, over))
    BY <2>2, <1>3 DEF HasOverrunRow
  <2> QED
    BY <2>1, <2>2, <2>3, <1>5, <1>8
<1> QED
  BY <1>6, <1>7, <1>8

\* An overrun row stays.
LEMMA SettledKeepsOverrun ==
    ASSUME NEW r \in Seq(Row), NEW id \in 1 .. Len(r), NEW s \in Settlement, NEW t \in Nat,
           HasOverrunRow(r)
    PROVE  HasOverrunRow(Settled(r, id, s, t))
<1>1. PICK i \in 1 .. Len(r) : r[i].kind = "overrun"
  BY DEF HasOverrunRow
<1>2. CASE i = id
  BY <1>1, <1>2, SettledType
<1>3. CASE i # id
  <2>1. Settled(r, id, s, t)[i] = r[i] /\ i \in DOMAIN Settled(r, id, s, t)
    BY <1>3, SettledType
  <2> QED
    BY <1>1, <2>1 DEF HasOverrunRow
<1> QED
  BY <1>2, <1>3

-----------------------------------------------------------------------------
(* The first invariant: types, and where the reservations of the calls that *)
(* are out stand.                                                           *)

\* Where a thread is while its reservation waits for a settlement.
InFlight == {"send", "settle", "settling"}

\* A call that is out has a row of its own, still a reservation, and a start
\* has no threads.
Flight ==
    /\ phase = "starting" => \A w \in Worker : pc[w] = "idle"
    /\ \A w \in Worker : pc[w] \in InFlight \cup {"rollback"} => q[w].res \in 1 .. Len(rows)
    /\ \A w \in Worker : pc[w] \in InFlight => rows[q[w].res].kind = "reservation"
    /\ \A v, w \in Worker :
          v # w /\ pc[v] \in InFlight /\ pc[w] \in InFlight => q[v].res # q[w].res

\* k names a row that no call in flight is waiting to settle.
Apart(k) ==
    /\ k.id \in 1 .. Len(rows)
    /\ \A w \in Worker : pc[w] \in InFlight => q[w].res # k.id

\* What is kept, and what a thread copied of it, was kept after its call.
Keeping ==
    /\ \A k \in kept : Apart(k)
    /\ \A v \in Worker : \A k \in q[v].flush : Apart(k)

\* A count that was answered says a figure.
Answered ==
    \A w \in Worker : q[w].answer.type = "counted" => q[w].answer.usage \in Nat

\* The inductive invariant.
Shape == TypeOK /\ Flight /\ Keeping /\ Answered

\* A question starts well typed, with nothing to flush and no answer.
LEMMA FreshType ==
    ASSUME NEW j \in Job, NEW t \in Nat, NEW c \in Counting
    PROVE  Fresh(j, t, c) \in Question /\ Fresh(j, t, c).flush = {}
           /\ Fresh(j, t, c).answer.type = "none"
  BY RuntimeAssumption
  DEF Fresh, Question, NoAnswer, Answer, Reading, Figure, Silent, Decision

\* There is a job.
LEMMA AnyJobType == AnyJob \in Job
  BY CeilingAssumption DEF AnyJob

\* The first start: an empty ledger and idle threads.
LEMMA ShapeInit == Init => Shape
<1> SUFFICES ASSUME Init PROVE Shape
  OBVIOUS
<1>1. Fresh(AnyJob, 0, "could_admit") \in Question /\ Fresh(AnyJob, 0, "could_admit").flush = {}
      /\ Fresh(AnyJob, 0, "could_admit").answer.type = "none"
  BY AnyJobType, FreshType DEF Counting
<1> HIDE DEF Fresh
<1>2. TypeOK
  <2>1. q \in [Worker -> Question] /\ pc \in [Worker -> PC]
    BY <1>1 DEF Init, PC
  <2>2. seen \in [overrun : BOOLEAN, bound : BOOLEAN] /\ holdsStop \in BOOLEAN
    BY DEF Init
  <2>3. rows \in Seq(Row) /\ notes \subseteq NoteKind /\ kept \subseteq Kept
    BY DEF Init
  <2>4. lock \in Worker \cup {NoWorker} /\ phase \in {"starting", "up"}
        /\ clock \in Nat /\ asked \in Nat /\ faults \in Nat /\ crashes \in Nat
    BY DEF Init
  <2> QED
    BY <2>1, <2>2, <2>3, <2>4 DEF TypeOK
<1>3. Flight
  BY DEF Init, Flight, InFlight
<1>4. Keeping /\ Answered
  BY <1>1 DEF Init, Keeping, Answered
<1> QED
  BY <1>2, <1>3, <1>4 DEF Shape

\* Every answer the transport may give is well typed, and so is its bill.
LEMMA AnswersType ==
    ASSUME NEW c, NEW a \in Answers(c)
    PROVE  /\ a \in Answer
           /\ a.type = "counted" => a.usage \in Nat
           /\ Charges(a) \subseteq Nat
           /\ Reports(a) \in Figure
<1> DEFINE reports == {Silent} \cup Bills
<1>1. reports \subseteq Figure /\ Inputs \subseteq Figure /\ Counts \subseteq Nat
      /\ Readings \subseteq Reading /\ Silent \in Figure /\ Bills \subseteq Nat
  BY RuntimeAssumption DEF Figure
<1>2. \/ \E t \in {"exhausted", "not_sent"} : a = [NoAnswer EXCEPT !.type = t]
      \/ \E u \in reports : a = [NoAnswer EXCEPT !.type = "failed", !.usage = u]
      \/ \E n \in Counts : a = [NoAnswer EXCEPT !.type = "counted", !.usage = n]
      \/ a \in [type : {"completed"}, usage : reports,
                 input : {Silent} \cup Inputs, read : Readings]
  BY DEF Answers
<1>3. a \in Answer
  BY <1>1, <1>2 DEF Answer, AnswerType, NoAnswer, Reading, Figure
<1>4. a.type = "counted" => a.usage \in Nat
  BY <1>1, <1>2 DEF NoAnswer
<1>5. Charges(a) \subseteq Nat
  BY <1>1, <1>3 DEF Charges, Answer, AnswerType, Figure
<1>6. Reports(a) \in Figure
  BY <1>1, <1>3 DEF Reports, Answer
<1> QED
  BY <1>3, <1>4, <1>5, <1>6

\* settle_completion's reading of an answer is a settlement.
LEMMA SettlementType ==
    ASSUME Shape, NEW w \in Worker
    PROVE  SettlementOf(w) \in Settlement
<1>1. q[w] \in Question /\ q[w].answer \in Answer /\ q[w].local \in Nat
  BY DEF Shape, TypeOK, Question
<1>2. CASE q[w].answer.type = "counted"
  <2>1. q[w].answer.usage \in Nat
    BY <1>2 DEF Shape, Answered
  <2>2. Min({q[w].answer.usage, q[w].local}) \in Nat
    BY <2>1, <1>1, MinOfPair
  <2> QED
    BY <1>2, <2>2 DEF SettlementOf, Settlement, Usage
<1>3. CASE q[w].answer.type # "counted"
  BY <1>1, <1>3 DEF SettlementOf, Settlement, Usage, ProviderExhausted, NothingSpent,
                    UsageUnknown, Answer, Figure
<1> QED
  BY <1>2, <1>3

\* What a step of thread w that leaves it at c with question "new" has to
\* show for the invariant to survive it.
LEMMA ThreadStep ==
    ASSUME Shape, NEW w \in Worker, NEW new \in Question, NEW c \in PC,
           phase = "up", phase' = phase,
           q' = [q EXCEPT ![w] = new], pc' = [pc EXCEPT ![w] = c],
           rows' \in Seq(Row), Len(rows') >= Len(rows),
           \A v \in Worker \ {w} :
               pc[v] \in InFlight => rows'[q[v].res].kind = "reservation",
           c \in InFlight \cup {"rollback"} => new.res \in 1 .. Len(rows'),
           c \in InFlight =>
               /\ rows'[new.res].kind = "reservation"
               /\ kept' = kept /\ new.flush \subseteq q[w].flush
               /\ \A v \in Worker \ {w} : pc[v] \in InFlight => q[v].res # new.res
               /\ \A k \in kept : k.id # new.res
               /\ \A v \in Worker : \A k \in q[v].flush : k.id # new.res,
           new.flush \subseteq q[w].flush \cup kept,
           new.answer.type = "counted" => new.answer.usage \in Nat,
           kept' \subseteq Kept,
           \A k \in kept' : k \in kept \/
               /\ k.id \in 1 .. Len(rows')
               /\ \A v \in Worker \ {w} : pc[v] \in InFlight => q[v].res # k.id,
           notes' \subseteq NoteKind, lock' \in Worker \cup {NoWorker},
           holdsStop' \in BOOLEAN, seen' \in [overrun : BOOLEAN, bound : BOOLEAN],
           clock' \in Nat, asked' \in Nat, faults' \in Nat, crashes' \in Nat
    PROVE  Shape'
<1> USE DEF Shape
<1>1. TypeOK'
  BY DEF TypeOK
<1>2. /\ q'[w] = new /\ pc'[w] = c
      /\ \A v \in Worker \ {w} : q'[v] = q[v] /\ pc'[v] = pc[v]
      /\ 1 .. Len(rows) \subseteq 1 .. Len(rows')
  BY DEF TypeOK
<1>3. Flight'
  BY <1>2 DEF Flight
<1>4. \A k : Apart(k) /\ (c \in InFlight => k.id # new.res) => Apart(k)'
  BY <1>2 DEF Apart
<1>5. \A k \in kept' : Apart(k)'
  <2> TAKE k \in kept'
  <2>1. CASE k \in kept
    BY <2>1, <1>4 DEF Keeping
  <2>2. CASE k \notin kept
    BY <2>2, <1>2 DEF Apart
  <2> QED
    BY <2>1, <2>2
<1>6. \A v \in Worker : \A k \in q'[v].flush : Apart(k)'
  <2> TAKE v \in Worker
  <2> TAKE k \in q'[v].flush
  <2>1. k \in q[v].flush \/ k \in kept
    BY <1>2
  <2>2. Apart(k)
    BY <2>1 DEF Keeping
  <2> QED
    BY <1>4, <2>1, <2>2
<1>7. Keeping'
  BY <1>5, <1>6 DEF Keeping
<1>8. Answered'
  BY <1>2 DEF Answered
<1> QED
  BY <1>1, <1>3, <1>7, <1>8

\* The same for a step that writes no row and keeps nothing, and after which
\* no call of w is out.
LEMMA LocalStep ==
    ASSUME Shape, NEW w \in Worker, NEW new \in Question,
           NEW c \in PC \ (InFlight \cup {"rollback"}),
           phase = "up", phase' = phase, rows' = rows, kept' = kept, holdsStop' = holdsStop,
           q' = [q EXCEPT ![w] = new], pc' = [pc EXCEPT ![w] = c],
           new.flush \subseteq q[w].flush \cup kept,
           new.answer.type = "counted" => new.answer.usage \in Nat,
           notes' \subseteq NoteKind, lock' \in Worker \cup {NoWorker},
           seen' \in [overrun : BOOLEAN, bound : BOOLEAN],
           clock' \in Nat, asked' \in Nat, faults' \in Nat, crashes' \in Nat
    PROVE  Shape'
<1>1. rows' \in Seq(Row) /\ Len(rows') >= Len(rows) /\ kept' \subseteq Kept
      /\ holdsStop' \in BOOLEAN
  BY DEF Shape, TypeOK
<1>2. \A v \in Worker \ {w} : pc[v] \in InFlight => rows'[q[v].res].kind = "reservation"
  BY DEF Shape, Flight
<1> QED
  BY <1>1, <1>2, ThreadStep

\* Facts every step of a thread starts from.
LEMMA Typed ==
    ASSUME Shape, NEW w \in Worker
    PROVE  /\ q[w] \in Question /\ q[w].answer \in Answer /\ q[w].job \in Job
           /\ q[w].counting \in Counting
           /\ q[w].now \in Nat /\ q[w].local \in Nat /\ q[w].gen \in Nat
           /\ q[w].charged \in Nat /\ q[w].held \in Nat /\ q[w].want \in Nat
           /\ rows \in Seq(Row) /\ notes \subseteq NoteKind /\ kept \subseteq Kept
           /\ lock \in Worker \cup {NoWorker} /\ holdsStop \in BOOLEAN
           /\ seen \in [overrun : BOOLEAN, bound : BOOLEAN]
           /\ clock \in Nat /\ asked \in Nat /\ faults \in Nat /\ crashes \in Nat
           /\ q[w].answer.type = "counted" => q[w].answer.usage \in Nat
           /\ q[w].answer.usage \in Int
<1>1. q[w] \in Question
  BY DEF Shape, TypeOK
<1>2. /\ q[w].answer \in Answer /\ q[w].job \in Job /\ q[w].counting \in Counting
      /\ q[w].now \in Nat /\ q[w].local \in Nat /\ q[w].gen \in Nat
      /\ q[w].charged \in Nat /\ q[w].held \in Nat /\ q[w].want \in Nat
  BY <1>1 DEF Question
<1>3. q[w].answer.usage \in Int
  BY <1>2 DEF Answer, Figure, Silent
<1>4. q[w].answer.type = "counted" => q[w].answer.usage \in Nat
  BY DEF Shape, Answered
<1> QED
  BY <1>1, <1>2, <1>3, <1>4 DEF Shape, TypeOK

\* The end of a question is a local step.
LEMMA EndStep ==
    ASSUME Shape, NEW w \in Worker, NEW o \in {"answered", "unmet", "refused"},
           phase = "up", phase' = phase, rows' = rows, kept' = kept, holdsStop' = holdsStop,
           End(w, q[w], o),
           notes' \subseteq NoteKind, lock' \in Worker \cup {NoWorker},
           seen' \in [overrun : BOOLEAN, bound : BOOLEAN],
           clock' \in Nat, asked' \in Nat, faults' \in Nat, crashes' \in Nat
    PROVE  Shape'
<1> DEFINE f   == Fresh(q[w].job, q[w].now, q[w].counting)
           new == [f EXCEPT !.charged = q[w].charged, !.mine = q[w].mine, !.outcome = o]
<1>1. f \in Question /\ f.flush = {} /\ f.answer.type = "none"
  BY FreshType, Typed
<1>2. q[w].charged \in Nat /\ q[w].mine \in SUBSET Nat
  BY Typed DEF Question
<1>3. q' = [q EXCEPT ![w] = new] /\ pc' = [pc EXCEPT ![w] = "done"]
  BY DEF End, Goto
<1> HIDE DEF f
<1>4. new \in Question /\ new.flush = {} /\ new.answer.type = "none"
  BY <1>1, <1>2 DEF Question
<1> HIDE DEF new
<1>5. "done" \in PC \ (InFlight \cup {"rollback"})
  BY DEF PC, InFlight
<1> QED
  BY <1>3, <1>4, <1>5, LocalStep

\* The count of refused writes stays a natural.
LEMMA FaultType ==
    ASSUME Shape, Fault \/ NoFault
    PROVE  faults' \in Nat
  BY DEF Shape, TypeOK, Fault, NoFault

\* A reservation is a natural.
LEMMA SendType ==
    ASSUME NEW l \in Nat, NEW g \in Nat PROVE Send(l, g) \in Nat
  BY RuntimeAssumption DEF Send

\* Runtime::ask puts a fresh question on a thread that has none.
LEMMA ShapeAsk ==
    ASSUME Shape, NEW w \in Worker, NEW j \in Job, NEW c \in Countings, Ask(w, j, c) PROVE Shape'
<1>1. Fresh(j, clock, c) \in Question /\ Fresh(j, clock, c).flush = {}
      /\ Fresh(j, clock, c).answer.type = "none"
  BY FreshType, Typed, RuntimeAssumption
<1>2. "call" \in PC \ (InFlight \cup {"rollback"})
  BY DEF PC, InFlight
<1>3. /\ phase = "up" /\ phase' = phase /\ rows' = rows /\ kept' = kept
      /\ holdsStop' = holdsStop /\ notes' = notes /\ lock' = lock /\ seen' = seen
      /\ clock' = clock /\ asked' = asked + 1 /\ faults' = faults /\ crashes' = crashes
      /\ q' = [q EXCEPT ![w] = Fresh(j, clock, c)] /\ pc' = [pc EXCEPT ![w] = "call"]
  BY DEF Ask, Goto, store, process
<1>4. /\ notes' \subseteq NoteKind /\ lock' \in Worker \cup {NoWorker}
      /\ seen' \in [overrun : BOOLEAN, bound : BOOLEAN]
      /\ clock' \in Nat /\ asked' \in Nat /\ faults' \in Nat /\ crashes' \in Nat
  BY <1>3, Typed
<1> QED
  BY <1>1, <1>2, <1>3, <1>4, LocalStep

\* Runtime::call names the figure to admit, or ends the question.
LEMMA ShapeCall ==
    ASSUME Shape, NEW w \in Worker, Call(w) PROVE Shape'
<1> USE DEF Call, At, Goto, store, process, bounds
<1>1. faults' \in Nat
  BY FaultType
<1>2. CASE End(w, q[w], "unmet")
  BY <1>1, <1>2, Typed, EndStep
<1>3. CASE ~ End(w, q[w], "unmet")
  <2>1. PICK cl \in {"count", "completion"}, n \in Nat :
            /\ q' = [q EXCEPT ![w] = Admitting(q[w], cl, n)]
            /\ pc' = [pc EXCEPT ![w] = "admit"]
    BY <1>3, Typed, SendType
  <2>2. /\ Admitting(q[w], cl, n) \in Question
        /\ Admitting(q[w], cl, n).flush = q[w].flush
        /\ Admitting(q[w], cl, n).answer = q[w].answer
    BY ZenonT(60), Typed DEF Admitting, Question
  <2>3. "admit" \in PC \ (InFlight \cup {"rollback"})
    BY DEF PC, InFlight
  <2> QED
    BY <1>1, <2>1, <2>2, <2>3, Typed, LocalStep
<1> QED
  BY <1>2, <1>3

\* write_unwritten copies what is kept, which names no call that is out.
LEMMA ShapeFlushCopy ==
    ASSUME Shape, NEW w \in Worker, FlushCopy(w) PROVE Shape'
<1> DEFINE new == [q[w] EXCEPT !.flush = kept, !.written = {}]
<1>1. new \in Question /\ new.flush = kept /\ new.answer = q[w].answer
  BY ZenonT(60), Typed DEF Question
<1>2. q' = [q EXCEPT ![w] = new]
  BY DEF FlushCopy, Shape, TypeOK, Question
<1>3. PICK c \in {"begin", "flush"} : pc' = [pc EXCEPT ![w] = c]
  BY DEF FlushCopy, Goto
<1>4. c \in PC \ (InFlight \cup {"rollback"})
  BY DEF PC, InFlight
<1> HIDE DEF new
<1> QED
  BY <1>1, <1>2, <1>3, <1>4, Typed, LocalStep
  DEF FlushCopy, At, store, process, bounds

\* write_unwritten forgets only what was written.
LEMMA ShapeFlushRetain ==
    ASSUME Shape, NEW w \in Worker, FlushRetain(w) PROVE Shape'
<1> DEFINE new == [q[w] EXCEPT !.written = {}]
<1>1. new \in Question /\ new.flush = q[w].flush /\ new.answer = q[w].answer
  BY ZenonT(60), Typed DEF Question
<1>2. q' = [q EXCEPT ![w] = new] /\ pc' = [pc EXCEPT ![w] = "begin"]
  BY DEF FlushRetain, Shape, TypeOK, Question, Goto
<1>3. "begin" \in PC \ (InFlight \cup {"rollback"})
  BY DEF PC, InFlight
<1>4. kept' \subseteq kept
  BY DEF FlushRetain
<1>5. \A v \in Worker \ {w} : pc[v] \in InFlight => rows[q[v].res].kind = "reservation"
  BY DEF Shape, Flight
<1>6. /\ phase = "up" /\ phase' = phase /\ rows' = rows
      /\ holdsStop' = holdsStop /\ notes' = notes /\ lock' = lock /\ seen' = seen
      /\ clock' = clock /\ asked' = asked /\ faults' = faults /\ crashes' = crashes
  BY DEF FlushRetain, At, store, process, bounds
<1>7. kept' \subseteq Kept /\ Len(rows') >= Len(rows) /\ rows' \in Seq(Row)
  BY <1>4, <1>6, Typed
<1> HIDE DEF new
<1> QED
  BY <1>1, <1>2, <1>3, <1>4, <1>5, <1>6, <1>7, Typed, ThreadStep

\* BEGIN IMMEDIATE moves one thread and the lock.
LEMMA ShapeAdmitBegin ==
    ASSUME Shape, NEW w \in Worker, AdmitBegin(w) PROVE Shape'
<1>1. q' = [q EXCEPT ![w] = q[w]] /\ pc' = [pc EXCEPT ![w] = "check"]
  BY DEF AdmitBegin, Shape, TypeOK, Goto
<1>2. "check" \in PC \ (InFlight \cup {"rollback"})
  BY DEF PC, InFlight
<1> QED
  BY <1>1, <1>2, Typed, LocalStep DEF AdmitBegin, At, store, process, bounds

\* The reading of stops and ceilings changes the thread's decision only.
LEMMA ShapeAdmitCheck ==
    ASSUME Shape, NEW w \in Worker, AdmitCheck(w) PROVE Shape'
<1>1. PICK d \in Decision : q' = [q EXCEPT ![w].decision = d]
  BY DecisionType DEF AdmitCheck
<1> DEFINE new == [q[w] EXCEPT !.decision = d]
<1>2. new \in Question /\ new.flush = q[w].flush /\ new.answer = q[w].answer
  BY ZenonT(60), Typed DEF Question
<1>3. q' = [q EXCEPT ![w] = new] /\ pc' = [pc EXCEPT ![w] = "commit"]
  BY <1>1 DEF AdmitCheck, Shape, TypeOK, Question, Goto
<1>4. "commit" \in PC \ (InFlight \cup {"rollback"})
  BY DEF PC, InFlight
<1> HIDE DEF new
<1> QED
  BY <1>2, <1>3, <1>4, Typed, LocalStep DEF AdmitCheck, At, store, process, bounds

\* What keep adds is about its own reservation.
LEMMA KeepAdds ==
    ASSUME kept \subseteq Kept, NEW id \in Nat, NEW n \in Nat, Keep(id, n)
    PROVE  kept' \subseteq Kept /\ holdsStop' = TRUE
           /\ \A m \in kept' : m \in kept \/ m.id = id
<1>1. [id |-> id, tokens |-> n] \in Kept
  BY DEF Kept
<1>2. kept' = kept \/ kept' = kept \cup {[id |-> id, tokens |-> n]}
  BY DEF Keep
<1> QED
  BY <1>1, <1>2 DEF Keep

\* The settlement of a kept overrun touches a row that no call in flight owns.
LEMMA ShapeFlushOne ==
    ASSUME Shape, NEW w \in Worker, FlushOne(w) PROVE Shape'
<1>1. PICK k \in q[w].flush :
          \/ /\ rows' = Settled(rows, k.id, Usage(k.tokens), rows[k.id].at)
             /\ q' = [q EXCEPT ![w].flush = @ \ {k}, ![w].written = @ \cup {k.id}]
             /\ NoFault /\ kept' = kept /\ holdsStop' = holdsStop
          \/ /\ Fault /\ Keep(k.id, k.tokens)
             /\ q' = [q EXCEPT ![w].flush = @ \ {k}]
             /\ rows' = rows
  BY DEF FlushOne
<1>2. /\ phase = "up" /\ pc[w] = "flush" /\ phase' = phase /\ notes' = notes
      /\ lock' = lock /\ pc' = pc /\ seen' = seen
      /\ clock' = clock /\ asked' = asked /\ crashes' = crashes
  BY DEF FlushOne, At, bounds
<1>3. k \in Kept /\ k.id \in 1 .. Len(rows) /\ rows[k.id] \in Row
      /\ \A v \in Worker : pc[v] \in InFlight => q[v].res # k.id
  <2>1. q[w].flush \subseteq Kept
    BY Typed DEF Question
  <2>2. Apart(k)
    BY DEF Shape, Keeping
  <2> QED
    BY <2>1, <2>2, Typed DEF Apart
<1>4. Usage(k.tokens) \in Settlement /\ rows[k.id].at \in Nat /\ k.id \in Nat /\ k.tokens \in Nat
  BY <1>3 DEF Usage, Settlement, Kept, Row
<1>5. /\ rows' \in Seq(Row) /\ Len(rows') >= Len(rows)
      /\ \A i \in 1 .. Len(rows) : i # k.id => rows'[i] = rows[i]
  <2>1. CASE rows' = Settled(rows, k.id, Usage(k.tokens), rows[k.id].at)
    <3>1. rows \in Seq(Row)
      BY Typed
    <3> QED
      BY <2>1, <3>1, <1>3, <1>4, SettledType
  <2>2. CASE rows' = rows
    BY <2>2, Typed
  <2> QED
    BY <1>1, <2>1, <2>2
<1>6. \A v \in Worker \ {w} : pc[v] \in InFlight => rows'[q[v].res].kind = "reservation"
  BY <1>3, <1>5 DEF Shape, Flight
<1>7. kept' \subseteq Kept /\ holdsStop' \in BOOLEAN
      /\ \A m \in kept' : m \in kept \/ m.id = k.id
  BY <1>1, <1>4, Typed, KeepAdds
<1>8. PICK new \in Question : /\ q' = [q EXCEPT ![w] = new]
                              /\ new.flush \subseteq q[w].flush
                              /\ new.answer = q[w].answer
  <2>1. CASE rows' = Settled(rows, k.id, Usage(k.tokens), rows[k.id].at)
             /\ q' = [q EXCEPT ![w].flush = @ \ {k}, ![w].written = @ \cup {k.id}]
    <3> DEFINE n == [q[w] EXCEPT !.flush = @ \ {k}, !.written = @ \cup {k.id}]
    <3>a. /\ q[w].flush \ {k} \subseteq Kept
          /\ q[w].written \cup {k.id} \subseteq Nat
      BY <1>4, Typed DEF Question
    <3>b. n \in Question
      <4> DEFINE m == [q[w] EXCEPT !.flush = q[w].flush \ {k}]
      <4>1. m \in Question /\ m.written = q[w].written
        BY ZenonT(60), <3>a, Typed DEF Question
      <4>2. n = [m EXCEPT !.written = q[w].written \cup {k.id}]
        BY Typed DEF Question
      <4> HIDE DEF m, n
      <4> QED
        BY <3>a, <4>1, <4>2 DEF Question
    <3>c. n.flush = q[w].flush \ {k} /\ n.answer = q[w].answer
      BY Typed DEF Question
    <3>1. n \in Question /\ n.flush \subseteq q[w].flush /\ n.answer = q[w].answer
      BY <3>b, <3>c
    <3>2. q' = [q EXCEPT ![w] = n]
      BY <2>1, Typed DEF Shape, TypeOK, Question
    <3> QED
      BY <3>1, <3>2
  <2>2. CASE q' = [q EXCEPT ![w].flush = @ \ {k}]
    <3> DEFINE n == [q[w] EXCEPT !.flush = @ \ {k}]
    <3>1. n \in Question /\ n.flush \subseteq q[w].flush /\ n.answer = q[w].answer
      BY ZenonT(60), Typed DEF Question
    <3>2. q' = [q EXCEPT ![w] = n]
      BY <2>2, Typed DEF Shape, TypeOK, Question
    <3> QED
      BY <3>1, <3>2
  <2> QED
    BY <1>1, <2>1, <2>2
<1>9. pc' = [pc EXCEPT ![w] = "flush"] /\ "flush" \in PC
      /\ "flush" \notin InFlight \cup {"rollback"}
  BY <1>2 DEF Shape, TypeOK, PC, InFlight
<1>10. faults' \in Nat
  BY <1>1, FaultType
<1>11. /\ notes' \subseteq NoteKind /\ lock' \in Worker \cup {NoWorker}
       /\ seen' \in [overrun : BOOLEAN, bound : BOOLEAN]
       /\ clock' \in Nat /\ asked' \in Nat /\ crashes' \in Nat
  BY <1>2, Typed
<1>12. \A m \in kept' : m \in kept \/
           /\ m.id \in 1 .. Len(rows')
           /\ \A v \in Worker \ {w} : pc[v] \in InFlight => q[v].res # m.id
  BY <1>3, <1>5, <1>7
<1>13. new.answer.type = "counted" => new.answer.usage \in Nat
  BY <1>8, Typed
<1> QED
  BY <1>2, <1>5, <1>6, <1>7, <1>8, <1>9, <1>10, <1>11, <1>12, <1>13, ThreadStep

\* A grant's reservation is a new row: no call, kept or copied overrun names it.
LEMMA ShapeAdmitCommit ==
    ASSUME Shape, NEW w \in Worker, AdmitCommit(w) PROVE Shape'
<1>1. /\ phase = "up" /\ phase' = phase /\ notes' = notes /\ lock' = NoWorker
      /\ kept' = kept /\ holdsStop' = holdsStop /\ seen' = seen /\ faults' = faults
      /\ clock' = clock /\ asked' = asked /\ crashes' = crashes
  BY DEF AdmitCommit, At, process, bounds
<1>2. /\ notes' \subseteq NoteKind /\ lock' \in Worker \cup {NoWorker}
      /\ kept' \subseteq Kept /\ holdsStop' \in BOOLEAN
      /\ seen' \in [overrun : BOOLEAN, bound : BOOLEAN]
      /\ clock' \in Nat /\ asked' \in Nat /\ faults' \in Nat /\ crashes' \in Nat
  BY <1>1, Typed
<1>3. CASE q[w].decision # "grant"
  <2>1. /\ rows' = rows /\ q' = [q EXCEPT ![w] = q[w]]
        /\ pc' = [pc EXCEPT ![w] = "refused"]
    BY <1>3 DEF AdmitCommit, Goto, Shape, TypeOK
  <2>2. "refused" \in PC \ (InFlight \cup {"rollback"})
    BY DEF PC, InFlight
  <2> QED
    BY <1>1, <1>2, <2>1, <2>2, Typed, LocalStep
<1>4. CASE q[w].decision = "grant"
  <2> DEFINE id  == Len(rows) + 1
             new == [q[w] EXCEPT !.res = id, !.mine = @ \cup {id}]
  <2>1. rows' = Reserved(rows, q[w].now, q[w].job, q[w].want)
        /\ pc' = [pc EXCEPT ![w] = "send"]
    BY <1>4 DEF AdmitCommit, Goto
  <2>2. q' = [q EXCEPT ![w] = new]
    BY <1>4 DEF AdmitCommit, Shape, TypeOK, Question
  <2>3. /\ rows' \in Seq(Row) /\ Len(rows') = id
        /\ \A i \in 1 .. Len(rows) : rows'[i] = rows[i]
        /\ rows'[id].kind = "reservation"
    <3>1. rows \in Seq(Row) /\ q[w].now \in Nat /\ q[w].job \in Job /\ q[w].want \in Nat
      BY Typed
    <3>2. PICK row \in Row : row.kind = "reservation" /\ rows' = Append(rows, row)
      BY <2>1, <3>1, ReservedType
    <3> QED
      BY <3>1, <3>2
  <2>4. id \in Nat /\ Len(rows) \in Nat
    BY Typed
  <2>5. new \in Question /\ new.res = id /\ new.flush = q[w].flush
        /\ new.answer = q[w].answer
    BY ZenonT(60), <2>4, Typed DEF Question
  <2>6. \A v \in Worker : pc[v] \in InFlight => q[v].res \in 1 .. Len(rows)
        /\ rows[q[v].res].kind = "reservation"
    BY DEF Shape, Flight
  <2>7. /\ \A k \in kept : k.id \in 1 .. Len(rows)
        /\ \A v \in Worker : \A k \in q[v].flush : k.id \in 1 .. Len(rows)
    BY DEF Shape, Keeping, Apart
  <2> HIDE DEF new, id
  <2>8. \A i \in 1 .. Len(rows) : i # id
    BY <2>4 DEF id
  <2>9. id \in 1 .. Len(rows') /\ Len(rows') >= Len(rows)
    BY <2>3, <2>4 DEF id
  <2>10. /\ \A v \in Worker \ {w} : pc[v] \in InFlight => rows'[q[v].res].kind = "reservation"
         /\ \A v \in Worker \ {w} : pc[v] \in InFlight => q[v].res # id
         /\ \A k \in kept : k.id # id
         /\ \A v \in Worker : \A k \in q[v].flush : k.id # id
    BY <2>3, <2>6, <2>7, <2>8
  <2>11. "send" \in PC /\ (new.answer.type = "counted" => new.answer.usage \in Nat)
    BY <2>5, Typed DEF PC
  <2>12. /\ new.res \in 1 .. Len(rows')
         /\ rows'[new.res].kind = "reservation"
         /\ kept' = kept /\ new.flush \subseteq q[w].flush
         /\ \A v \in Worker \ {w} : pc[v] \in InFlight => q[v].res # new.res
         /\ \A k \in kept : k.id # new.res
         /\ \A v \in Worker : \A k \in q[v].flush : k.id # new.res
         /\ \A k \in kept' : k \in kept
    BY <1>1, <2>3, <2>5, <2>9, <2>10
  <2> QED
    BY <1>1, <1>2, <2>1, <2>2, <2>3, <2>5, <2>9, <2>10, <2>11, <2>12, ThreadStep
<1> QED
  BY <1>3, <1>4

\* A store that cannot be asked leaves the rows alone.
LEMMA ShapeAdmitFail ==
    ASSUME Shape, NEW w \in Worker, AdmitFail(w) PROVE Shape'
<1>1. /\ phase = "up" /\ phase' = phase /\ notes' = notes /\ rows' = rows
      /\ kept' = kept /\ holdsStop' = holdsStop /\ seen' = seen
      /\ clock' = clock /\ asked' = asked /\ crashes' = crashes
  BY DEF AdmitFail, process, bounds, store
<1>2. /\ notes' \subseteq NoteKind
      /\ seen' \in [overrun : BOOLEAN, bound : BOOLEAN]
      /\ clock' \in Nat /\ asked' \in Nat /\ crashes' \in Nat
  BY <1>1, Typed
<1>3. faults' \in Nat
  BY FaultType DEF AdmitFail
<1>4. lock' \in Worker \cup {NoWorker}
  BY Typed DEF AdmitFail
<1>5. CASE End(w, q[w], "unmet")
  BY <1>1, <1>2, <1>3, <1>4, <1>5, EndStep
<1>6. CASE q' = [q EXCEPT ![w].decision = "reservation_overrun"] /\ Goto(w, "refused")
  <2> DEFINE new == [q[w] EXCEPT !.decision = "reservation_overrun"]
  <2>0. "reservation_overrun" \in Decision
    <3>1. RefusalOrder[2] = "reservation_overrun" /\ 2 \in DOMAIN RefusalOrder
      BY DEF RefusalOrder
    <3> QED
      BY <3>1 DEF Decision, Refusal
  <2>1. new \in Question /\ new.flush = q[w].flush /\ new.answer = q[w].answer
    BY ZenonT(60), <2>0, Typed DEF Question
  <2>2. q' = [q EXCEPT ![w] = new] /\ pc' = [pc EXCEPT ![w] = "refused"]
    BY <1>6 DEF Goto, Shape, TypeOK, Question
  <2>3. "refused" \in PC \ (InFlight \cup {"rollback"})
    BY DEF PC, InFlight
  <2> HIDE DEF new
  <2> QED
    BY <1>1, <1>2, <1>3, <1>4, <2>1, <2>2, <2>3, Typed, LocalStep
<1> QED
  BY <1>5, <1>6 DEF AdmitFail

\* A refusal turns to a count or ends the question.
LEMMA ShapeRefused ==
    ASSUME Shape, NEW w \in Worker, Refused(w) PROVE Shape'
<1>1. /\ phase = "up" /\ phase' = phase /\ notes' = notes /\ rows' = rows
      /\ kept' = kept /\ holdsStop' = holdsStop /\ seen' = seen /\ lock' = lock
      /\ clock' = clock /\ asked' = asked /\ crashes' = crashes
  BY DEF Refused, process, bounds, store, At
<1>2. /\ notes' \subseteq NoteKind /\ lock' \in Worker \cup {NoWorker}
      /\ seen' \in [overrun : BOOLEAN, bound : BOOLEAN]
      /\ clock' \in Nat /\ asked' \in Nat /\ crashes' \in Nat
  BY <1>1, Typed
<1>3. faults' \in Nat
  BY FaultType DEF Refused
<1>4. CASE End(w, q[w], "refused")
  BY <1>1, <1>2, <1>3, <1>4, EndStep
<1> DEFINE new == [Admitting(q[w], "count", q[w].local) EXCEPT !.refusal = q[w].decision]
<1>5. CASE q' = [q EXCEPT ![w] = new] /\ Goto(w, "admit")
  <2>1. new \in Question /\ new.flush = q[w].flush /\ new.answer = q[w].answer
    BY ZenonT(60), Typed DEF Question, Admitting
  <2>2. pc' = [pc EXCEPT ![w] = "admit"] /\ "admit" \in PC \ (InFlight \cup {"rollback"})
    BY <1>5 DEF Goto, PC, InFlight
  <2> HIDE DEF new
  <2> QED
    BY <1>1, <1>2, <1>3, <1>5, <2>1, <2>2, Typed, LocalStep
<1> QED
  BY <1>4, <1>5 DEF Refused

\* What a thread whose call is out knows of its reservation.
LEMMA FlightFacts ==
    ASSUME Shape, NEW w \in Worker, pc[w] \in InFlight \cup {"rollback"}
    PROVE  /\ q[w].res \in 1 .. Len(rows) /\ rows[q[w].res] \in Row
           /\ q[w].res \in Nat /\ rows[q[w].res].est \in Nat
           /\ pc[w] \in InFlight =>
                 /\ rows[q[w].res].kind = "reservation"
                 /\ \A v \in Worker \ {w} : pc[v] \in InFlight => q[v].res # q[w].res
                 /\ \A k \in kept : k.id # q[w].res
                 /\ \A v \in Worker : \A k \in q[v].flush : k.id # q[w].res
           /\ \A v \in Worker \ {w} : pc[v] \in InFlight =>
                 q[v].res \in 1 .. Len(rows) /\ rows[q[v].res].kind = "reservation"
<1>1. q[w].res \in 1 .. Len(rows)
  BY DEF Shape, Flight
<1>2. rows[q[w].res] \in Row
  BY <1>1, Typed
<1>3. q[w].res \in Nat /\ rows[q[w].res].est \in Nat
  <2>1. rows[q[w].res].est \in Nat
    BY <1>2 DEF Row
  <2>2. q[w].res \in Nat
    BY Typed DEF Question
  <2> QED
    BY <2>1, <2>2
<1> QED
  BY <1>1, <1>2, <1>3 DEF Shape, Flight, Keeping, Apart

\* The record of an exchange leaves the reservation standing.
LEMMA ShapeExchange ==
    ASSUME Shape, NEW w \in Worker, Exchange(w) PROVE Shape'
<1>1. /\ phase = "up" /\ pc[w] = "send" /\ phase' = phase /\ notes' = notes
      /\ lock' = lock /\ kept' = kept /\ holdsStop' = holdsStop /\ seen' = seen
      /\ clock' = clock /\ asked' = asked /\ crashes' = crashes
      /\ pc' = [pc EXCEPT ![w] = "settle"]
  BY DEF Exchange, At, Goto, process, bounds
<1> DEFINE id == q[w].res
<1>a. PICK a \in Answers(q[w].call) : \E b \in Charges(a) :
          /\ \/ NoFault /\ rows' = [rows EXCEPT ![id].said = Reports(a), ![id].billed = b]
             \/ Fault /\ rows' = [rows EXCEPT ![id].billed = b]
          /\ q' = [q EXCEPT ![w].answer = a]
  BY DEF Exchange
<1>2. PICK b \in Charges(a) :
          /\ \/ NoFault /\ rows' = [rows EXCEPT ![id].said = Reports(a), ![id].billed = b]
             \/ Fault /\ rows' = [rows EXCEPT ![id].billed = b]
          /\ q' = [q EXCEPT ![w].answer = a]
  BY <1>a
<1>3. a \in Answer /\ (a.type = "counted" => a.usage \in Nat) /\ b \in Nat
      /\ Reports(a) \in Figure
  BY AnswersType
<1>4. /\ id \in 1 .. Len(rows) /\ rows[id] \in Row /\ rows[id].kind = "reservation"
      /\ rows \in Seq(Row)
      /\ \A v \in Worker \ {w} : pc[v] \in InFlight => q[v].res # id
      /\ \A k \in kept : k.id # id
      /\ \A v \in Worker : \A k \in q[v].flush : k.id # id
      /\ \A v \in Worker \ {w} : pc[v] \in InFlight =>
            q[v].res \in 1 .. Len(rows) /\ rows[q[v].res].kind = "reservation"
  BY <1>1, FlightFacts, Typed DEF InFlight
<1> DEFINE new == [q[w] EXCEPT !.answer = a]
<1>5. new \in Question /\ new.answer = a /\ new.flush = q[w].flush /\ new.res = id
  BY ZenonT(60), <1>3, Typed DEF Question
<1>6. q' = [q EXCEPT ![w] = new]
  BY <1>2 DEF Shape, TypeOK, Question
<1>7. PICK row \in Row : row.kind = "reservation" /\ rows' = [rows EXCEPT ![id] = row]
  <2>1. CASE rows' = [rows EXCEPT ![id].said = Reports(a), ![id].billed = b]
    <3> DEFINE r == [rows[id] EXCEPT !.said = Reports(a), !.billed = b]
    <3>1. r \in Row /\ r.kind = "reservation"
      BY <1>3, <1>4 DEF Row
    <3>2. rows' = [rows EXCEPT ![id] = r]
      BY <2>1, <1>4 DEF Row
    <3> QED
      BY <3>1, <3>2
  <2>2. CASE rows' = [rows EXCEPT ![id].billed = b]
    <3> DEFINE r == [rows[id] EXCEPT !.billed = b]
    <3>1. r \in Row /\ r.kind = "reservation"
      BY <1>3, <1>4 DEF Row
    <3>2. rows' = [rows EXCEPT ![id] = r]
      BY <2>2, <1>4 DEF Row
    <3> QED
      BY <3>1, <3>2
  <2> QED
    BY <1>2, <2>1, <2>2
<1> HIDE DEF new, id
<1>8. /\ rows' \in Seq(Row) /\ Len(rows') = Len(rows) /\ rows'[id].kind = "reservation"
      /\ \A i \in 1 .. Len(rows) : i # id => rows'[i] = rows[i]
  BY <1>4, <1>7
<1>9. /\ notes' \subseteq NoteKind /\ lock' \in Worker \cup {NoWorker}
      /\ kept' \subseteq Kept /\ holdsStop' \in BOOLEAN
      /\ seen' \in [overrun : BOOLEAN, bound : BOOLEAN]
      /\ clock' \in Nat /\ asked' \in Nat /\ crashes' \in Nat /\ Len(rows) \in Nat
  BY <1>1, Typed
<1>10. faults' \in Nat
  BY <1>2, FaultType
<1>11. "settle" \in PC
  BY DEF PC
<1>12. \A v \in Worker \ {w} : pc[v] \in InFlight => rows'[q[v].res].kind = "reservation"
  BY <1>4, <1>8
<1>13. /\ new.res \in 1 .. Len(rows')
       /\ rows'[new.res].kind = "reservation"
       /\ kept' = kept /\ new.flush \subseteq q[w].flush
       /\ \A v \in Worker \ {w} : pc[v] \in InFlight => q[v].res # new.res
       /\ \A k \in kept : k.id # new.res
       /\ \A v \in Worker : \A k \in q[v].flush : k.id # new.res
       /\ \A k \in kept' : k \in kept
       /\ Len(rows') >= Len(rows)
       /\ new.answer.type = "counted" => new.answer.usage \in Nat
  BY <1>1, <1>3, <1>4, <1>5, <1>8, <1>9
<1> QED
  BY <1>1, <1>5, <1>6, <1>8, <1>9, <1>10, <1>11, <1>12, <1>13, ThreadStep

\* A settlement's BEGIN moves one thread and the lock.
LEMMA ShapeSettleBegin ==
    ASSUME Shape, NEW w \in Worker, SettleBegin(w) PROVE Shape'
<1>1. /\ phase = "up" /\ pc[w] = "settle" /\ phase' = phase /\ notes' = notes /\ rows' = rows
      /\ lock' = w /\ kept' = kept /\ holdsStop' = holdsStop /\ seen' = seen
      /\ clock' = clock /\ asked' = asked /\ crashes' = crashes /\ faults' = faults
      /\ pc' = [pc EXCEPT ![w] = "settling"]
  BY DEF SettleBegin, At, Goto, process, bounds, store
<1>2. q' = [q EXCEPT ![w] = q[w]]
  BY DEF SettleBegin, Shape, TypeOK
<1>3. "settling" \in PC /\ "settle" \in InFlight
  BY DEF PC, InFlight
<1>4. /\ \A v \in Worker \ {w} : pc[v] \in InFlight => rows'[q[v].res].kind = "reservation"
      /\ q[w].res \in 1 .. Len(rows') /\ rows'[q[w].res].kind = "reservation"
      /\ \A v \in Worker \ {w} : pc[v] \in InFlight => q[v].res # q[w].res
      /\ \A k \in kept : k.id # q[w].res
      /\ \A v \in Worker : \A k \in q[v].flush : k.id # q[w].res
      /\ \A k \in kept' : k \in kept
      /\ Len(rows') >= Len(rows) /\ rows' \in Seq(Row)
  BY <1>1, <1>3, FlightFacts, Typed
<1> QED
  BY <1>1, <1>2, <1>3, <1>4, Typed, ThreadStep

\* What charging a question does to the thread.
LEMMA ChargeFacts ==
    ASSUME Shape, NEW w \in Worker, NEW n \in Nat, Charge(w, n)
    PROVE  \E new \in Question, c \in {"counted", "completed"} :
              /\ q' = [q EXCEPT ![w] = new] /\ pc' = [pc EXCEPT ![w] = c]
              /\ new.flush = q[w].flush /\ new.answer = q[w].answer /\ new.res = q[w].res
              /\ c \in PC \ (InFlight \cup {"rollback"})
<1> DEFINE h   == IF q[w].call = "count" THEN n ELSE q[w].held
           c   == IF q[w].call = "count" THEN "counted" ELSE "completed"
           new == [q[w] EXCEPT !.charged = @ + n, !.held = h]
<1>1. h \in Nat /\ q[w].charged + n \in Nat
  BY Typed
<1>2. q' = [q EXCEPT ![w] = new]
  BY DEF Charge, Shape, TypeOK, Question
<1>3. pc' = [pc EXCEPT ![w] = c]
  BY DEF Charge, Goto
<1>4. c \in {"counted", "completed"} /\ c \in PC \ (InFlight \cup {"rollback"})
  BY DEF PC, InFlight
<1> HIDE DEF h, c
<1>5. new \in Question /\ new.flush = q[w].flush /\ new.answer = q[w].answer
      /\ new.res = q[w].res
  BY ZenonT(60), <1>1, Typed DEF Question
<1> QED
  BY <1>2, <1>3, <1>4, <1>5

\* What the ledger holds for a settlement is a natural.
LEMMA HoldsType ==
    ASSUME NEW s \in Settlement, NEW e \in Nat
    PROVE  Holds(s, e) \in Nat
  BY DEF Holds, Settlement

\* A settlement that lands ends the flight of its call and of no other.
LEMMA ShapeSettleCommit ==
    ASSUME Shape, NEW w \in Worker, SettleCommit(w) PROVE Shape'
<1> DEFINE s  == SettlementOf(w)
           id == q[w].res
<1>1. /\ phase = "up" /\ pc[w] = "settling" /\ phase' = phase /\ notes' = notes
      /\ lock' = NoWorker /\ kept' = kept /\ holdsStop' = holdsStop
      /\ clock' = clock /\ asked' = asked /\ crashes' = crashes /\ faults' = faults
      /\ rows' = Settled(rows, id, s, q[w].now)
      /\ Charge(w, Holds(s, rows[id].est))
      /\ seen' = [seen EXCEPT !.overrun = @ \/ Overran(s, rows[id].est)]
  BY DEF SettleCommit, At, process, bounds
<1>2. s \in Settlement
  BY SettlementType
<1>3. "settling" \in InFlight
  BY DEF InFlight
<1>4. /\ id \in 1 .. Len(rows) /\ rows[id].est \in Nat /\ rows \in Seq(Row) /\ q[w].now \in Nat
      /\ \A v \in Worker \ {w} : pc[v] \in InFlight => q[v].res # id
      /\ \A v \in Worker \ {w} : pc[v] \in InFlight =>
            q[v].res \in 1 .. Len(rows) /\ rows[q[v].res].kind = "reservation"
  BY <1>1, <1>3, FlightFacts, Typed
<1> HIDE DEF s, id
<1>5. /\ rows' \in Seq(Row) /\ Len(rows') >= Len(rows)
      /\ \A i \in 1 .. Len(rows) : i # id => rows'[i] = rows[i]
  BY <1>1, <1>2, <1>4, SettledType
<1>6. PICK new \in Question, c \in {"counted", "completed"} :
          /\ q' = [q EXCEPT ![w] = new] /\ pc' = [pc EXCEPT ![w] = c]
          /\ new.flush = q[w].flush /\ new.answer = q[w].answer
          /\ c \in PC \ (InFlight \cup {"rollback"})
  BY <1>1, <1>2, <1>4, HoldsType, ChargeFacts
<1>7. seen' \in [overrun : BOOLEAN, bound : BOOLEAN]
  BY <1>1, Typed DEF Overran
<1>8. \A v \in Worker \ {w} : pc[v] \in InFlight => rows'[q[v].res].kind = "reservation"
  BY <1>4, <1>5
<1>9. /\ notes' \subseteq NoteKind /\ lock' \in Worker \cup {NoWorker}
      /\ kept' \subseteq Kept /\ holdsStop' \in BOOLEAN /\ \A k \in kept' : k \in kept
      /\ clock' \in Nat /\ asked' \in Nat /\ crashes' \in Nat /\ faults' \in Nat
      /\ new.answer.type = "counted" => new.answer.usage \in Nat
  BY <1>1, <1>6, Typed
<1> QED
  BY <1>1, <1>5, <1>6, <1>7, <1>8, <1>9, ThreadStep

\* keep adds at most the thread's own reservation, and never lifts the stop.
LEMMA KeepIfOverranFacts ==
    ASSUME Shape, NEW w \in Worker, pc[w] \in InFlight, KeepIfOverran(w)
    PROVE  /\ kept' \subseteq Kept /\ holdsStop' \in BOOLEAN
           /\ holdsStop => holdsStop'
           /\ Overran(SettlementOf(w), rows[q[w].res].est) => holdsStop'
           /\ \A m \in kept' : m \in kept \/ m.id = q[w].res
<1>1. SettlementOf(w) \in Settlement /\ q[w].res \in Nat
  BY SettlementType, FlightFacts
<1>2. SettlementOf(w).tokens \in Nat
  BY <1>1 DEF Settlement
<1>3. CASE Overran(SettlementOf(w), rows[q[w].res].est)
  <2>1. Keep(q[w].res, SettlementOf(w).tokens)
    BY <1>3 DEF KeepIfOverran
  <2> QED
    BY <2>1, <1>1, <1>2, <1>3, KeepAdds, Typed
<1>4. CASE ~ Overran(SettlementOf(w), rows[q[w].res].est)
  BY <1>4, Typed DEF KeepIfOverran
<1> QED
  BY <1>3, <1>4

\* A settlement that is refused keeps its reservation, which is in flight no more.
LEMMA ShapeSettleRefused ==
    ASSUME Shape, NEW w \in Worker, SettleRefused(w) PROVE Shape'
<1>1. /\ phase = "up" /\ pc[w] = "settling" /\ phase' = phase /\ notes' = notes /\ rows' = rows
      /\ lock' = lock /\ seen' = seen /\ KeepIfOverran(w)
      /\ clock' = clock /\ asked' = asked /\ crashes' = crashes
      /\ pc' = [pc EXCEPT ![w] = "rollback"]
  BY DEF SettleRefused, At, Goto, bounds, store
<1>2. q' = [q EXCEPT ![w] = q[w]]
  BY DEF SettleRefused, Shape, TypeOK
<1>3. pc[w] \in InFlight /\ "rollback" \in PC /\ "rollback" \notin InFlight
  BY <1>1 DEF InFlight, PC
<1>4. faults' \in Nat
  BY FaultType DEF SettleRefused
<1>5. /\ kept' \subseteq Kept /\ holdsStop' \in BOOLEAN
      /\ \A m \in kept' : m \in kept \/ m.id = q[w].res
  BY <1>1, <1>3, KeepIfOverranFacts
<1>6. /\ q[w].res \in 1 .. Len(rows') /\ rows' \in Seq(Row) /\ Len(rows') >= Len(rows)
      /\ \A v \in Worker \ {w} : pc[v] \in InFlight => rows'[q[v].res].kind = "reservation"
      /\ \A v \in Worker \ {w} : pc[v] \in InFlight => q[v].res # q[w].res
  BY <1>1, <1>3, FlightFacts, Typed
<1>7. \A k \in kept' : k \in kept \/
           /\ k.id \in 1 .. Len(rows')
           /\ \A v \in Worker \ {w} : pc[v] \in InFlight => q[v].res # k.id
  BY <1>5, <1>6
<1> QED
  BY <1>1, <1>2, <1>3, <1>4, <1>5, <1>6, <1>7, Typed, ThreadStep

\* A question is charged a natural for a settlement that did not land.
LEMMA UnsettledFacts ==
    ASSUME Shape, NEW w \in Worker, pc[w] \in InFlight \cup {"rollback"}, Unsettled(w)
    PROVE  /\ \E n \in Nat : Charge(w, n)
           /\ seen' \in [overrun : BOOLEAN, bound : BOOLEAN]
<1>1. SettlementOf(w) \in Settlement /\ rows[q[w].res].est \in Nat
  BY SettlementType, FlightFacts
<1>2. SettlementOf(w).tokens \in Nat
  BY <1>1 DEF Settlement
<1> QED
  BY <1>1, <1>2, Typed DEF Unsettled, Overran

\* The rollback frees the lock and charges the question.
LEMMA ShapeRollback ==
    ASSUME Shape, NEW w \in Worker, Rollback(w) PROVE Shape'
<1>1. /\ phase = "up" /\ pc[w] = "rollback" /\ phase' = phase /\ notes' = notes /\ rows' = rows
      /\ lock' = NoWorker /\ kept' = kept /\ holdsStop' = holdsStop /\ Unsettled(w)
      /\ clock' = clock /\ asked' = asked /\ crashes' = crashes /\ faults' = faults
  BY DEF Rollback, At, process, bounds, store
<1>2. PICK n \in Nat : Charge(w, n)
  BY <1>1, UnsettledFacts
<1>3. PICK new \in Question, c \in {"counted", "completed"} :
          /\ q' = [q EXCEPT ![w] = new] /\ pc' = [pc EXCEPT ![w] = c]
          /\ new.flush = q[w].flush /\ new.answer = q[w].answer
          /\ c \in PC \ (InFlight \cup {"rollback"})
  BY <1>2, ChargeFacts
<1>4. seen' \in [overrun : BOOLEAN, bound : BOOLEAN]
  BY <1>1, UnsettledFacts
<1> QED
  BY <1>1, <1>3, <1>4, Typed, LocalStep

\* A settlement that cannot begin is kept and charged in one step.
LEMMA ShapeSettleBusy ==
    ASSUME Shape, NEW w \in Worker, SettleBusy(w) PROVE Shape'
<1>1. /\ phase = "up" /\ pc[w] = "settle" /\ phase' = phase /\ notes' = notes /\ rows' = rows
      /\ lock' = lock /\ KeepIfOverran(w) /\ Unsettled(w)
      /\ clock' = clock /\ asked' = asked /\ crashes' = crashes
  BY DEF SettleBusy, At, bounds, store
<1>2. pc[w] \in InFlight
  BY <1>1 DEF InFlight
<1>3. PICK n \in Nat : Charge(w, n)
  BY <1>1, <1>2, UnsettledFacts
<1>4. PICK new \in Question, c \in {"counted", "completed"} :
          /\ q' = [q EXCEPT ![w] = new] /\ pc' = [pc EXCEPT ![w] = c]
          /\ new.flush = q[w].flush /\ new.answer = q[w].answer
          /\ c \in PC \ (InFlight \cup {"rollback"})
  BY <1>3, ChargeFacts
<1>5. seen' \in [overrun : BOOLEAN, bound : BOOLEAN]
  BY <1>1, <1>2, UnsettledFacts
<1>6. faults' \in Nat
  BY FaultType DEF SettleBusy
<1>7. /\ kept' \subseteq Kept /\ holdsStop' \in BOOLEAN
      /\ \A m \in kept' : m \in kept \/ m.id = q[w].res
  BY <1>1, <1>2, KeepIfOverranFacts
<1>8. /\ q[w].res \in 1 .. Len(rows') /\ rows' \in Seq(Row) /\ Len(rows') >= Len(rows)
      /\ \A v \in Worker \ {w} : pc[v] \in InFlight => rows'[q[v].res].kind = "reservation"
      /\ \A v \in Worker \ {w} : pc[v] \in InFlight => q[v].res # q[w].res
  BY <1>1, <1>2, FlightFacts, Typed
<1>9. \A k \in kept' : k \in kept \/
           /\ k.id \in 1 .. Len(rows')
           /\ \A v \in Worker \ {w} : pc[v] \in InFlight => q[v].res # k.id
  BY <1>7, <1>8
<1>10. new.answer.type = "counted" => new.answer.usage \in Nat
  BY <1>4, Typed
<1>11. /\ notes' \subseteq NoteKind /\ lock' \in Worker \cup {NoWorker}
       /\ clock' \in Nat /\ asked' \in Nat /\ crashes' \in Nat
  BY <1>1, Typed
<1> QED
  BY <1>1, <1>4, <1>5, <1>6, <1>7, <1>8, <1>9, <1>10, <1>11, ThreadStep

\* The count that is believed is never above the local bound.
LEMMA BelievedType ==
    ASSUME Shape, NEW w \in Worker, q[w].answer.type = "counted"
    PROVE  Believed(w) \in Nat /\ Believed(w) <= q[w].local
<1>1. q[w].answer.usage \in Nat /\ q[w].local \in Nat
  BY Typed
<1>2. Min({q[w].answer.usage, q[w].local}) \in Nat
      /\ Min({q[w].answer.usage, q[w].local}) <= q[w].local
  BY <1>1, MinOfPair
<1> QED
  BY <1>1, <1>2 DEF Believed

\* After a count: the completion's admission, or the end.
LEMMA ShapeAfterCount ==
    ASSUME Shape, NEW w \in Worker, AfterCount(w) PROVE Shape'
<1>1. /\ phase = "up" /\ phase' = phase /\ notes' = notes /\ rows' = rows
      /\ kept' = kept /\ holdsStop' = holdsStop /\ seen' = seen /\ lock' = lock
      /\ clock' = clock /\ asked' = asked /\ crashes' = crashes
  BY DEF AfterCount, process, bounds, store, At
<1>2. /\ notes' \subseteq NoteKind /\ lock' \in Worker \cup {NoWorker}
      /\ seen' \in [overrun : BOOLEAN, bound : BOOLEAN]
      /\ clock' \in Nat /\ asked' \in Nat /\ crashes' \in Nat
  BY <1>1, Typed
<1>3. faults' \in Nat
  BY FaultType DEF AfterCount
<1>4. CASE \E o \in {"unmet", "refused"} : End(w, q[w], o)
  BY <1>1, <1>2, <1>3, <1>4, EndStep
<1> DEFINE wanted == Send(Believed(w), q[w].gen)
           on  == IF Always(w) THEN Silent ELSE Believed(w)
           new == [Admitting(q[w], "completion", wanted) EXCEPT
                      !.on = on, !.answer = NoAnswer]
<1>5. CASE /\ q[w].answer.type = "counted"
           /\ q' = [q EXCEPT ![w] = new] /\ Goto(w, "admit")
  <2>1. wanted \in Nat /\ on \in Figure
    BY <1>5, BelievedType, SendType, Typed DEF Figure
  <2>2. NoAnswer \in Answer /\ NoAnswer.type = "none"
    BY DEF NoAnswer, Answer, Figure, Reading
  <2> HIDE DEF wanted, on
  <2>3. new \in Question /\ new.flush = q[w].flush /\ new.answer = NoAnswer
    BY ZenonT(60), <2>1, <2>2, Typed DEF Question, Admitting
  <2>4. pc' = [pc EXCEPT ![w] = "admit"] /\ "admit" \in PC \ (InFlight \cup {"rollback"})
    BY <1>5 DEF Goto, PC, InFlight
  <2> HIDE DEF new
  <2> QED
    BY <1>1, <1>2, <1>3, <1>5, <2>2, <2>3, <2>4, LocalStep
<1> QED
  BY <1>4, <1>5 DEF AfterCount

\* A note row is one of the kinds that are read back.
LEMMA NoteType ==
    ASSUME Shape, NEW kind \in NoteKind, Note(kind)
    PROVE  notes' \subseteq NoteKind /\ faults' \in Nat
  BY FaultType DEF Shape, TypeOK, Note

\* The tripwire writes a note and ends the question.
LEMMA ShapeBoundTripped ==
    ASSUME Shape, NEW w \in Worker, BoundTripped(w) PROVE Shape'
<1>1. /\ phase = "up" /\ phase' = phase /\ rows' = rows /\ kept' = kept
      /\ holdsStop' = holdsStop /\ lock' = lock
      /\ seen' = [seen EXCEPT !.bound = TRUE] /\ End(w, q[w], "unmet")
      /\ clock' = clock /\ asked' = asked /\ crashes' = crashes
  BY DEF BoundTripped, process, bounds, At
<1>2. notes' \subseteq NoteKind /\ faults' \in Nat
  BY NoteType DEF BoundTripped, NoteKind
<1> QED
  BY <1>1, <1>2, Typed, EndStep

\* A repair's request is a question again, with no answer yet.
LEMMA RepairedType ==
    ASSUME NEW new \in Question, NEW read
    PROVE  /\ Repaired(new, read) \in Question
           /\ Repaired(new, read).flush = new.flush
           /\ Repaired(new, read).answer = NoAnswer
<1> DEFINE body == IF read = "truncated" THEN [new EXCEPT !.gen = 2 * @]
                   ELSE [new EXCEPT !.local = @ + Instruction]
<1>1. body \in Question /\ body.flush = new.flush
  BY RuntimeAssumption DEF Question
<1>2. NoAnswer \in Answer /\ Silent \in Figure /\ "grant" \in Decision
  BY DEF NoAnswer, Answer, Figure, Reading, Decision
<1> HIDE DEF body
<1>a. body.repairs + 1 \in Nat /\ 0 \in Nat
  BY <1>1 DEF Question
<1>b. \A n \in Nat : [body EXCEPT !.repairs = n, !.res = 0, !.held = 0] \in Question
  BY <1>1 DEF Question
<1>c. \A b \in Question :
          [b EXCEPT !.on = Silent, !.answer = NoAnswer, !.refusal = "grant"] \in Question
  <2> TAKE b \in Question
  <2> HIDE DEF NoAnswer, Silent
  <2> QED
    BY <1>2 DEF Question
<1>3. [body EXCEPT !.repairs = @ + 1, !.res = 0, !.on = Silent, !.held = 0,
                   !.answer = NoAnswer, !.refusal = "grant"] \in Question
  <2> DEFINE n == body.repairs + 1
             b == [body EXCEPT !.repairs = n, !.res = 0, !.held = 0]
  <2>1. b \in Question
    BY <1>a, <1>b
  <2>2. [b EXCEPT !.on = Silent, !.answer = NoAnswer, !.refusal = "grant"] =
        [body EXCEPT !.repairs = n, !.res = 0, !.on = Silent, !.held = 0,
                     !.answer = NoAnswer, !.refusal = "grant"]
    BY <1>1 DEF Question
  <2> QED
    BY <1>c, <2>1, <2>2
<1>4. /\ [body EXCEPT !.repairs = @ + 1, !.res = 0, !.on = Silent, !.held = 0,
                      !.answer = NoAnswer, !.refusal = "grant"].flush = body.flush
      /\ [body EXCEPT !.repairs = @ + 1, !.res = 0, !.on = Silent, !.held = 0,
                      !.answer = NoAnswer, !.refusal = "grant"].answer = NoAnswer
  BY <1>1 DEF Question
<1> QED
  BY <1>1, <1>3, <1>4 DEF Repaired, body

\* After a completion: a repair, or the end.
LEMMA ShapeAfterCompletion ==
    ASSUME Shape, NEW w \in Worker, AfterCompletion(w) PROVE Shape'
<1>1. /\ phase = "up" /\ phase' = phase /\ rows' = rows /\ kept' = kept
      /\ holdsStop' = holdsStop /\ lock' = lock /\ seen' = seen
      /\ clock' = clock /\ asked' = asked /\ crashes' = crashes
  BY DEF AfterCompletion, process, bounds, At
<1>2. notes' \subseteq NoteKind /\ faults' \in Nat
  <2>1. Note("count_unsound") \/ (NoFault /\ notes' = notes)
    BY DEF AfterCompletion
  <2> QED
    BY <2>1, NoteType, FaultType, Typed DEF NoteKind
<1>3. /\ lock' \in Worker \cup {NoWorker}
      /\ seen' \in [overrun : BOOLEAN, bound : BOOLEAN]
      /\ clock' \in Nat /\ asked' \in Nat /\ crashes' \in Nat
  BY <1>1, Typed
<1>4. CASE \E o \in {"answered", "unmet"} : End(w, q[w], o)
  BY <1>1, <1>2, <1>3, <1>4, EndStep
<1> DEFINE new == Repaired(q[w], q[w].answer.read)
<1>5. CASE q' = [q EXCEPT ![w] = new] /\ Goto(w, "call")
  <2>1. new \in Question /\ new.flush = q[w].flush /\ new.answer = NoAnswer
    BY RepairedType, Typed
  <2>2. NoAnswer.type = "none"
    BY DEF NoAnswer
  <2>3. pc' = [pc EXCEPT ![w] = "call"] /\ "call" \in PC \ (InFlight \cup {"rollback"})
    BY <1>5 DEF Goto, PC, InFlight
  <2> HIDE DEF new
  <2> QED
    BY <1>1, <1>2, <1>3, <1>5, <2>1, <2>2, <2>3, LocalStep
<1> QED
  BY <1>4, <1>5 DEF AfterCompletion

\* A step outside the threads: no thread moves and the rows of the calls that
\* are out stand.
LEMMA IdleStep ==
    ASSUME Shape, pc' = pc, q' = q, phase' \in {"starting", "up"},
           phase' = "starting" => phase = "starting",
           rows' \in Seq(Row), Len(rows') >= Len(rows),
           \A v \in Worker : pc[v] \in InFlight => rows'[q[v].res].kind = "reservation",
           kept' = kept, holdsStop' = holdsStop, notes' = notes, lock' = lock,
           seen' = seen, clock' \in Nat, asked' = asked, faults' = faults,
           crashes' = crashes
    PROVE  Shape'
<1> USE DEF Shape
<1>1. TypeOK'
  BY DEF TypeOK
<1>2. 1 .. Len(rows) \subseteq 1 .. Len(rows')
  BY DEF TypeOK
<1>3. Flight'
  BY <1>2 DEF Flight
<1>4. Keeping' /\ Answered'
  BY <1>2 DEF Keeping, Apart, Answered
<1> QED
  BY <1>1, <1>3, <1>4

\* A kill leaves the store as it was, and no threads.
LEMMA ShapeCrash ==
    ASSUME Shape, Crash PROVE Shape'
<1>1. Fresh(AnyJob, 0, "could_admit") \in Question /\ Fresh(AnyJob, 0, "could_admit").flush = {}
      /\ Fresh(AnyJob, 0, "could_admit").answer.type = "none"
  BY AnyJobType, FreshType DEF Counting
<1>2. TypeOK'
  <2>1. q' \in [Worker -> Question] /\ pc' \in [Worker -> PC]
    BY <1>1 DEF Crash, PC
  <2>2. seen' \in [overrun : BOOLEAN, bound : BOOLEAN] /\ holdsStop' \in BOOLEAN
    <3> DEFINE o == HasOverrunRow(rows) \/ ToReconcile(rows) # {}
               b == "bound_unsound" \in notes
    <3>1. o \in BOOLEAN /\ b \in BOOLEAN
      BY DEF HasOverrunRow
    <3>2. seen' = [overrun |-> o, bound |-> b] /\ holdsStop' = FALSE
      BY DEF Crash
    <3> HIDE DEF o, b
    <3> QED
      BY <3>1, <3>2
  <2>3. rows' \in Seq(Row) /\ notes' \subseteq NoteKind /\ kept' \subseteq Kept
    BY DEF Crash, store, Shape, TypeOK
  <2>4. lock' \in Worker \cup {NoWorker} /\ phase' \in {"starting", "up"}
        /\ clock' \in Nat /\ asked' \in Nat /\ faults' \in Nat /\ crashes' \in Nat
    BY DEF Crash, Shape, TypeOK
  <2> QED
    BY <2>1, <2>2, <2>3, <2>4 DEF TypeOK
<1>3. Flight'
  BY DEF Crash, Flight, InFlight
<1>4. Keeping' /\ Answered'
  BY <1>1 DEF Crash, Keeping, Answered
<1> QED
  BY <1>2, <1>3, <1>4 DEF Shape

\* What a start settles is a standing reservation with a bill.
LEMMA ReconcileFacts ==
    ASSUME Shape, ToReconcile(rows) # {}
    PROVE  LET id == Min(ToReconcile(rows))
           IN  /\ id \in 1 .. Len(rows) /\ rows[id].kind = "reservation"
               /\ rows[id].at \in Nat /\ Usage(rows[id].said) \in Settlement
               /\ Overran(Usage(rows[id].said), rows[id].est)
<1> DEFINE id == Min(ToReconcile(rows))
<1>1. rows \in Seq(Row)
  BY DEF Shape, TypeOK
<1>2. ToReconcile(rows) \in SUBSET Nat
  BY <1>1 DEF ToReconcile
<1>3. id \in ToReconcile(rows)
  BY <1>2, MinOfNaturals
<1> HIDE DEF id
<1>4. id \in 1 .. Len(rows) /\ rows[id].kind = "reservation" /\ rows[id].said > rows[id].est
  BY <1>1, <1>3 DEF ToReconcile
<1>5. rows[id] \in Row
  BY <1>1, <1>4
<1>6. rows[id].at \in Nat /\ rows[id].est \in Nat /\ rows[id].said \in Figure
  BY <1>5 DEF Row
<1>7. rows[id].said \in Nat
  BY <1>4, <1>6 DEF Figure, Silent
<1>8. Usage(rows[id].said) \in Settlement /\ Overran(Usage(rows[id].said), rows[id].est)
  BY <1>4, <1>7 DEF Usage, Settlement, Overran
<1> QED
  BY <1>4, <1>6, <1>8 DEF id

\* A start settles rows while there are no threads.
LEMMA ShapeReconcile ==
    ASSUME Shape, Reconcile PROVE Shape'
<1> DEFINE id == Min(ToReconcile(rows))
<1>1. /\ phase = "starting" /\ phase' = phase /\ pc' = pc /\ q' = q /\ kept' = kept
      /\ holdsStop' = holdsStop /\ notes' = notes /\ lock' = lock /\ seen' = seen
      /\ clock' = clock /\ asked' = asked /\ faults' = faults /\ crashes' = crashes
      /\ ToReconcile(rows) # {}
      /\ rows' = Settled(rows, id, Usage(rows[id].said), rows[id].at)
  BY DEF Reconcile, process, bounds
<1>2. /\ id \in 1 .. Len(rows) /\ rows[id].at \in Nat /\ Usage(rows[id].said) \in Settlement
  BY <1>1, ReconcileFacts
<1>3. rows \in Seq(Row) /\ clock \in Nat
  BY DEF Shape, TypeOK
<1> HIDE DEF id
<1>4. rows' \in Seq(Row) /\ Len(rows') >= Len(rows)
  BY <1>1, <1>2, <1>3, SettledType
<1>5. \A v \in Worker : pc[v] \notin InFlight
  BY <1>1 DEF Shape, Flight, InFlight
<1> QED
  BY <1>1, <1>3, <1>4, <1>5, IdleStep

\* The start is over: the threads are idle.
LEMMA ShapeServe ==
    ASSUME Shape, Serve PROVE Shape'
<1>1. /\ phase' = "up" /\ pc' = pc /\ q' = q /\ kept' = kept /\ rows' = rows
      /\ holdsStop' = holdsStop /\ notes' = notes /\ lock' = lock /\ seen' = seen
      /\ clock' = clock /\ asked' = asked /\ faults' = faults /\ crashes' = crashes
  BY DEF Serve, store, bounds
<1>2. /\ rows \in Seq(Row) /\ clock \in Nat /\ Len(rows) >= Len(rows)
      /\ \A v \in Worker : pc[v] \in InFlight => rows[q[v].res].kind = "reservation"
  BY DEF Shape, TypeOK, Flight
<1> QED
  BY <1>1, <1>2, IdleStep

\* The clock moves, nothing else does.
LEMMA ShapeTick ==
    ASSUME Shape, Tick PROVE Shape'
<1>1. /\ phase' = phase /\ pc' = pc /\ q' = q /\ kept' = kept /\ rows' = rows
      /\ holdsStop' = holdsStop /\ notes' = notes /\ lock' = lock /\ seen' = seen
      /\ clock' = clock + 1 /\ asked' = asked /\ faults' = faults /\ crashes' = crashes
  BY DEF Tick, store, process
<1>2. /\ rows \in Seq(Row) /\ clock \in Nat /\ Len(rows) >= Len(rows) /\ phase \in {"starting", "up"}
      /\ \A v \in Worker : pc[v] \in InFlight => rows[q[v].res].kind = "reservation"
  BY DEF Shape, TypeOK, Flight
<1> QED
  BY <1>1, <1>2, IdleStep

\* A step that changes nothing.
LEMMA ShapeStutter ==
    ASSUME Shape, UNCHANGED vars PROVE Shape'
  BY DEF Shape, TypeOK, Flight, Keeping, Apart, Answered, vars

\* Any step of a thread keeps the shape.
LEMMA ShapeThread ==
    ASSUME Shape, NEW w \in Worker, Step(w) PROVE Shape'
  BY ShapeCall, ShapeFlushCopy, ShapeFlushOne, ShapeFlushRetain, ShapeAdmitBegin,
     ShapeAdmitCheck, ShapeAdmitCommit, ShapeAdmitFail, ShapeRefused, ShapeExchange,
     ShapeSettleBegin, ShapeSettleCommit, ShapeSettleRefused, ShapeRollback,
     ShapeSettleBusy, ShapeAfterCount, ShapeBoundTripped, ShapeAfterCompletion
  DEF Step

\* Any step keeps the shape.
LEMMA ShapeNext ==
    ASSUME Shape, [Next]_vars PROVE Shape'
<1>1. CASE \E w \in Worker : Step(w)
  BY <1>1, ShapeThread
<1>2. CASE \E w \in Worker : \E j \in Job, c \in Countings : Ask(w, j, c)
  BY <1>2, ShapeAsk
<1>3. CASE Crash
  BY <1>3, ShapeCrash
<1>4. CASE Reconcile
  BY <1>4, ShapeReconcile
<1>5. CASE Serve
  BY <1>5, ShapeServe
<1>6. CASE Tick
  BY <1>6, ShapeTick
<1>7. CASE UNCHANGED vars
  BY <1>7, ShapeStutter
<1> QED
  BY <1>1, <1>2, <1>3, <1>4, <1>5, <1>6, <1>7 DEF Next, Quiescent

\* Every reachable state is well typed, each call that is out has its own
\* standing reservation, and what is kept names none of those.
THEOREM ShapeHolds == Spec => []Shape
<1>1. Init => Shape
  BY ShapeInit
<1>2. Shape /\ [Next]_vars => Shape'
  BY ShapeNext
<1> QED
  BY <1>1, <1>2, PTL DEF Spec

\* Type correctness (TypeOK).
THEOREM TypeCorrect == Spec => []TypeOK
<1>1. Shape => TypeOK
  BY DEF Shape
<1> QED
  BY <1>1, ShapeHolds, PTL

-----------------------------------------------------------------------------
(* The overrun stop. *)

\* A settlement of v whose bill is above its reservation.
BillAbove(v) == Overran(SettlementOf(v), rows[q[v].res].est)

\* Once a bill above its reservation was seen, the stop is somewhere an
\* admission reads it: in a row or in this process, and before a start has
\* reconciled, in a record that it still has to settle.  A thread whose
\* settlement was refused has left the stop before it lets the lock go.
Stop ==
    /\ phase = "up" /\ seen.overrun => HasOverrunRow(rows) \/ holdsStop
    /\ phase = "starting" /\ seen.overrun => HasOverrunRow(rows) \/ ToReconcile(rows) # {}
    /\ \A v \in Worker : pc[v] = "rollback" => holdsStop \/ ~ BillAbove(v)

\* What a step of thread w has to show for the stop to survive it.
LEMMA StopStep ==
    ASSUME Shape, Stop, NEW w \in Worker, phase = "up", phase' = "up",
           HasOverrunRow(rows) => HasOverrunRow(rows'), holdsStop => holdsStop',
           seen'.overrun => seen.overrun \/ HasOverrunRow(rows') \/ holdsStop',
           \A v \in Worker \ {w} : q'[v] = q[v] /\ pc'[v] = pc[v],
           \A i \in 1 .. Len(rows) : rows'[i].est = rows[i].est,
           pc'[w] = "rollback" => holdsStop' \/ ~ BillAbove(w)'
    PROVE  Stop'
<1>1. phase' = "up" /\ seen'.overrun => HasOverrunRow(rows') \/ holdsStop'
  BY DEF Stop
<1>2. ASSUME NEW v \in Worker, pc'[v] = "rollback" PROVE holdsStop' \/ ~ BillAbove(v)'
  <2>1. CASE v = w
    BY <1>2, <2>1
  <2>2. CASE v # w
    <3>1. q'[v] = q[v] /\ pc[v] = "rollback"
      BY <1>2, <2>2
    <3>2. SettlementOf(v)' = SettlementOf(v)
      BY <3>1 DEF SettlementOf
    <3>3. rows'[q'[v].res].est = rows[q[v].res].est
      BY <3>1, FlightFacts
    <3>4. BillAbove(v)' = BillAbove(v)
      BY <3>2, <3>3 DEF BillAbove, Overran
    <3> QED
      BY <3>1, <3>4 DEF Stop
  <2> QED
    BY <2>1, <2>2
<1> QED
  BY <1>1, <1>2 DEF Stop

\* The steps that touch neither the rows nor the stop.
LEMMA StopQuiet ==
    ASSUME Shape, Stop, NEW w \in Worker, phase = "up", phase' = phase,
           rows' = rows, holdsStop' = holdsStop, seen'.overrun = seen.overrun,
           \A v \in Worker \ {w} : q'[v] = q[v] /\ pc'[v] = pc[v],
           pc'[w] # "rollback"
    PROVE  Stop'
  BY StopStep

\* The steps of a thread that only move that thread.
Quiet(w) ==
    \/ Call(w) \/ FlushCopy(w) \/ FlushRetain(w) \/ AdmitBegin(w) \/ AdmitCheck(w)
    \/ AdmitFail(w) \/ Refused(w) \/ SettleBegin(w) \/ AfterCount(w)
    \/ BoundTripped(w) \/ AfterCompletion(w) \/ \E j \in Job, c \in Countings : Ask(w, j, c)

\* None of the quiet steps can lose the stop.
LEMMA StopQuietSteps ==
    ASSUME Shape, Stop, NEW w \in Worker, Quiet(w) PROVE Stop'
<1>0. q \in [Worker -> Question] /\ pc \in [Worker -> PC]
      /\ seen \in [overrun : BOOLEAN, bound : BOOLEAN]
  BY DEF Shape, TypeOK
<1>1. phase = "up" /\ phase' = phase /\ rows' = rows /\ holdsStop' = holdsStop
  BY DEF Quiet, Call, FlushCopy, FlushRetain, AdmitBegin, AdmitCheck, AdmitFail, Refused,
         SettleBegin, AfterCount, BoundTripped, AfterCompletion, Ask, At, store, process
<1>2. seen'.overrun = seen.overrun
  BY <1>0 DEF Quiet, Call, FlushCopy, FlushRetain, AdmitBegin, AdmitCheck, AdmitFail, Refused,
         SettleBegin, AfterCount, BoundTripped, AfterCompletion, Ask
<1>3. \E c \in PC \ {"rollback"} : pc' = [pc EXCEPT ![w] = c]
  BY DEF Quiet, Call, FlushCopy, FlushRetain, AdmitBegin, AdmitCheck, AdmitFail, Refused,
         SettleBegin, AfterCount, BoundTripped, AfterCompletion, Ask, End, Goto, PC
<1>4. \E x : q' = [q EXCEPT ![w] = x]
  <2>1. CASE q' = q
    BY <2>1, <1>0
  <2>2. CASE Call(w) \/ Refused(w) \/ AfterCount(w) \/ BoundTripped(w)
             \/ AfterCompletion(w) \/ \E j \in Job, c \in Countings : Ask(w, j, c)
    BY <2>2 DEF Call, Refused, AfterCount, BoundTripped, AfterCompletion, Ask, End
  <2>3. CASE FlushCopy(w) \/ FlushRetain(w) \/ AdmitCheck(w) \/ AdmitFail(w)
    BY <2>3, <1>0 DEF FlushCopy, FlushRetain, AdmitCheck, AdmitFail, End
  <2> QED
    BY <2>1, <2>2, <2>3 DEF Quiet, AdmitBegin, SettleBegin
<1>5. /\ \A v \in Worker \ {w} : q'[v] = q[v] /\ pc'[v] = pc[v]
      /\ pc'[w] # "rollback"
  BY <1>0, <1>3, <1>4
<1> QED
  BY <1>1, <1>2, <1>5, StopQuiet

\* A thread writes one kept settlement: an overrun row stays, and a write that
\* is refused keeps it again.
LEMMA StopFlushOne ==
    ASSUME Shape, Stop, NEW w \in Worker, FlushOne(w) PROVE Stop'
<1>0. q \in [Worker -> Question] /\ rows \in Seq(Row) /\ pc[w] = "flush"
      /\ pc' = pc /\ phase = "up" /\ phase' = phase /\ seen' = seen
  BY DEF Shape, TypeOK, FlushOne, At
<1>1. PICK k \in q[w].flush :
          \/ /\ rows' = Settled(rows, k.id, Usage(k.tokens), rows[k.id].at)
             /\ holdsStop' = holdsStop
          \/ rows' = rows /\ holdsStop'
  BY DEF FlushOne, Keep
<1>2. \A v \in Worker \ {w} : q'[v] = q[v] /\ pc'[v] = pc[v]
  BY <1>0 DEF FlushOne
<1>3. k \in Kept /\ k.id \in 1 .. Len(rows) /\ rows[k.id] \in Row
  <2>1. q[w].flush \subseteq Kept
    BY Typed DEF Question
  <2>2. Apart(k)
    BY DEF Shape, Keeping
  <2> QED
    BY <2>1, <2>2, <1>0 DEF Apart
<1>4. Usage(k.tokens) \in Settlement /\ rows[k.id].at \in Nat
  BY <1>3 DEF Usage, Settlement, Kept, Row
<1>5. /\ HasOverrunRow(rows) => HasOverrunRow(rows')
      /\ \A i \in 1 .. Len(rows) : rows'[i].est = rows[i].est
  <2>1. CASE rows' = Settled(rows, k.id, Usage(k.tokens), rows[k.id].at)
    BY <2>1, <1>0, <1>3, <1>4, SettledType, SettledKeepsOverrun
  <2>2. CASE rows' = rows
    BY <2>2
  <2> QED
    BY <1>1, <2>1, <2>2
<1> QED
  BY <1>0, <1>1, <1>2, <1>5, StopStep

\* A grant adds a row and takes none away.
LEMMA StopAdmitCommit ==
    ASSUME Shape, Stop, NEW w \in Worker, AdmitCommit(w) PROVE Stop'
<1>0. /\ q \in [Worker -> Question] /\ pc \in [Worker -> PC] /\ rows \in Seq(Row)
      /\ phase = "up" /\ phase' = phase /\ holdsStop' = holdsStop /\ seen' = seen
  BY DEF Shape, TypeOK, AdmitCommit, At, process
<1>1. /\ \A v \in Worker \ {w} : q'[v] = q[v] /\ pc'[v] = pc[v]
      /\ pc'[w] # "rollback"
  BY <1>0 DEF AdmitCommit, Goto
<1>2. rows' = rows \/ \E row \in Row : rows' = Append(rows, row)
  <2>1. q[w].now \in Nat /\ q[w].job \in Job /\ q[w].want \in Nat
    BY Typed
  <2>2. rows' = rows \/ rows' = Reserved(rows, q[w].now, q[w].job, q[w].want)
    BY DEF AdmitCommit
  <2>3. CASE rows' = Reserved(rows, q[w].now, q[w].job, q[w].want)
    <3>1. \E row \in Row : row.kind = "reservation" /\ row.est = q[w].want
            /\ Reserved(rows, q[w].now, q[w].job, q[w].want) = Append(rows, row)
      BY <2>1, ReservedType
    <3> QED
      BY <2>3, <3>1
  <2> QED
    BY <2>2, <2>3
<1>3. \A i \in 1 .. Len(rows) : rows'[i] = rows[i] /\ i \in 1 .. Len(rows')
  BY <1>0, <1>2
<1>4. /\ HasOverrunRow(rows) => HasOverrunRow(rows')
      /\ \A i \in 1 .. Len(rows) : rows'[i].est = rows[i].est
  <2>1. DOMAIN rows = 1 .. Len(rows) /\ DOMAIN rows' = 1 .. Len(rows')
    BY <1>0, <1>2
  <2> QED
    BY <1>3, <2>1 DEF HasOverrunRow
<1> QED
  BY <1>0, <1>1, <1>4, StopStep

\* An exchange writes what was said and billed, and no kind.
LEMMA StopExchange ==
    ASSUME Shape, Stop, NEW w \in Worker, Exchange(w) PROVE Stop'
<1>0. /\ q \in [Worker -> Question] /\ pc \in [Worker -> PC] /\ rows \in Seq(Row)
      /\ phase = "up" /\ phase' = phase /\ holdsStop' = holdsStop /\ seen' = seen
  BY DEF Shape, TypeOK, Exchange, At, process
<1>1. /\ \A v \in Worker \ {w} : q'[v] = q[v] /\ pc'[v] = pc[v]
      /\ pc'[w] # "rollback"
  BY <1>0 DEF Exchange, Goto
<1> DEFINE id == q[w].res
<1>2. id \in 1 .. Len(rows) /\ rows[id] \in Row
  BY FlightFacts DEF Exchange, At, InFlight
<1>3. \E x, b : \/ rows' = [rows EXCEPT ![id].said = x, ![id].billed = b]
                \/ rows' = [rows EXCEPT ![id].billed = b]
  BY DEF Exchange
<1> HIDE DEF id
<1>a. PICK r : rows' = [rows EXCEPT ![id] = r]
               /\ r.est = rows[id].est /\ r.kind = rows[id].kind
  <2>1. PICK x, b : \/ rows' = [rows EXCEPT ![id].said = x, ![id].billed = b]
                    \/ rows' = [rows EXCEPT ![id].billed = b]
    BY <1>3
  <2>2. CASE rows' = [rows EXCEPT ![id].said = x, ![id].billed = b]
    <3> DEFINE r == [rows[id] EXCEPT !.said = x, !.billed = b]
    <3>1. r.est = rows[id].est /\ r.kind = rows[id].kind
      BY <1>2 DEF Row
    <3>2. rows' = [rows EXCEPT ![id] = r]
      BY <2>2, <1>2 DEF Row
    <3> QED
      BY <3>1, <3>2
  <2>3. CASE rows' = [rows EXCEPT ![id].billed = b]
    <3> DEFINE r == [rows[id] EXCEPT !.billed = b]
    <3>1. r.est = rows[id].est /\ r.kind = rows[id].kind
      BY <1>2 DEF Row
    <3>2. rows' = [rows EXCEPT ![id] = r]
      BY <2>3, <1>2 DEF Row
    <3> QED
      BY <3>1, <3>2
  <2> QED
    BY <2>1, <2>2, <2>3
<1>4. /\ DOMAIN rows' = DOMAIN rows
      /\ \A i \in DOMAIN rows : rows'[i].est = rows[i].est /\ rows'[i].kind = rows[i].kind
  BY <1>0, <1>2, <1>a
<1>5. /\ HasOverrunRow(rows) => HasOverrunRow(rows')
      /\ \A i \in 1 .. Len(rows) : rows'[i].est = rows[i].est
  BY <1>0, <1>4 DEF HasOverrunRow
<1> QED
  BY <1>0, <1>1, <1>5, StopStep

\* Charging a question moves no other thread.
LEMMA ChargeOthers ==
    ASSUME Shape, NEW w \in Worker, NEW n, Charge(w, n)
    PROVE  /\ \A v \in Worker \ {w} : q'[v] = q[v] /\ pc'[v] = pc[v]
           /\ pc'[w] # "rollback"
  BY DEF Charge, Goto, Shape, TypeOK

\* A settlement that lands brings its overrun row with it.
LEMMA StopSettleCommit ==
    ASSUME Shape, Stop, NEW w \in Worker, SettleCommit(w) PROVE Stop'
<1> DEFINE s  == SettlementOf(w)
           id == q[w].res
<1>1. /\ phase = "up" /\ pc[w] = "settling" /\ phase' = phase /\ holdsStop' = holdsStop
      /\ rows' = Settled(rows, id, s, q[w].now)
      /\ Charge(w, Holds(s, rows[id].est))
      /\ seen' = [seen EXCEPT !.overrun = @ \/ Overran(s, rows[id].est)]
  BY DEF SettleCommit, At, process
<1>2. s \in Settlement /\ rows \in Seq(Row) /\ q[w].now \in Nat
      /\ seen \in [overrun : BOOLEAN, bound : BOOLEAN]
  BY SettlementType, Typed
<1>3. id \in 1 .. Len(rows) /\ rows[id].kind = "reservation"
  BY <1>1, FlightFacts DEF InFlight
<1>4. \A v \in Worker \ {w} : q'[v] = q[v] /\ pc'[v] = pc[v]
  BY <1>1, ChargeOthers
<1>5. pc'[w] # "rollback"
  BY <1>1, ChargeOthers
<1> HIDE DEF s, id
<1>6. /\ HasOverrunRow(rows) => HasOverrunRow(rows')
      /\ \A i \in 1 .. Len(rows) : rows'[i].est = rows[i].est
      /\ Overran(s, rows[id].est) => HasOverrunRow(rows')
  BY <1>1, <1>2, <1>3, SettledType, SettledKeepsOverrun
<1>7. seen'.overrun => seen.overrun \/ HasOverrunRow(rows')
  BY <1>1, <1>2, <1>6
<1> QED
  BY <1>1, <1>4, <1>5, <1>6, <1>7, StopStep

\* A settlement that is refused keeps its bill before it rolls back ...
LEMMA StopSettleRefused ==
    ASSUME Shape, Stop, NEW w \in Worker, SettleRefused(w) PROVE Stop'
<1>1. /\ phase = "up" /\ pc[w] = "settling" /\ phase' = phase /\ rows' = rows
      /\ q' = q /\ seen' = seen /\ KeepIfOverran(w) /\ pc' = [pc EXCEPT ![w] = "rollback"]
  BY DEF SettleRefused, At, Goto, store
<1>2. (holdsStop => holdsStop') /\ (BillAbove(w) => holdsStop')
  BY <1>1, KeepIfOverranFacts DEF InFlight, BillAbove
<1>3. \A v \in Worker \ {w} : q'[v] = q[v] /\ pc'[v] = pc[v]
  BY <1>1 DEF Shape, TypeOK
<1>4. BillAbove(w)' = BillAbove(w)
  BY <1>1 DEF BillAbove, SettlementOf
<1> QED
  BY <1>1, <1>2, <1>3, <1>4, StopStep

\* ... so its thread leaves the rollback with the stop held.
LEMMA StopRollback ==
    ASSUME Shape, Stop, NEW w \in Worker, Rollback(w) PROVE Stop'
<1>1. /\ phase = "up" /\ pc[w] = "rollback" /\ phase' = phase /\ rows' = rows
      /\ holdsStop' = holdsStop /\ Unsettled(w)
  BY DEF Rollback, At, process, store
<1>2. PICK n \in Nat : Charge(w, n)
  BY <1>1, UnsettledFacts
<1>3. /\ \A v \in Worker \ {w} : q'[v] = q[v] /\ pc'[v] = pc[v]
      /\ pc'[w] # "rollback"
  BY <1>2, ChargeOthers
<1>4. seen'.overrun => seen.overrun \/ BillAbove(w)
  BY <1>1, Typed DEF Unsettled, BillAbove
<1>5. BillAbove(w) => holdsStop
  BY <1>1 DEF Stop
<1> QED
  BY <1>1, <1>3, <1>4, <1>5, StopStep

\* A settlement that cannot begin keeps its bill in the same step.
LEMMA StopSettleBusy ==
    ASSUME Shape, Stop, NEW w \in Worker, SettleBusy(w) PROVE Stop'
<1>1. /\ phase = "up" /\ pc[w] = "settle" /\ phase' = phase /\ rows' = rows
      /\ KeepIfOverran(w) /\ Unsettled(w)
  BY DEF SettleBusy, At, store
<1>2. pc[w] \in InFlight
  BY <1>1 DEF InFlight
<1>3. PICK n \in Nat : Charge(w, n)
  BY <1>1, <1>2, UnsettledFacts
<1>4. /\ \A v \in Worker \ {w} : q'[v] = q[v] /\ pc'[v] = pc[v]
      /\ pc'[w] # "rollback"
  BY <1>3, ChargeOthers
<1>5. seen'.overrun => seen.overrun \/ BillAbove(w)
  BY <1>1, Typed DEF Unsettled, BillAbove
<1>6. (holdsStop => holdsStop') /\ (BillAbove(w) => holdsStop')
  BY <1>1, <1>2, KeepIfOverranFacts DEF BillAbove
<1> QED
  BY <1>1, <1>4, <1>5, <1>6, StopStep

\* A kill loses what the process held; what the store can still show is there.
LEMMA StopCrash ==
    ASSUME Shape, Stop, Crash PROVE Stop'
<1>1. /\ phase' = "starting" /\ rows' = rows
      /\ seen'.overrun => HasOverrunRow(rows) \/ ToReconcile(rows) # {}
      /\ \A v \in Worker : pc'[v] = "idle"
  BY DEF Crash, store
<1> QED
  BY <1>1 DEF Stop

\* A start that settles a recorded bill leaves its overrun row.
LEMMA StopReconcile ==
    ASSUME Shape, Stop, Reconcile PROVE Stop'
<1> DEFINE id == Min(ToReconcile(rows))
           s  == Usage(rows[id].said)
<1>1. /\ phase = "starting" /\ phase' = "starting" /\ pc' = pc
      /\ ToReconcile(rows) # {} /\ rows' = Settled(rows, id, s, rows[id].at)
  BY DEF Reconcile, process
<1>2. /\ id \in 1 .. Len(rows) /\ rows[id].kind = "reservation" /\ rows[id].at \in Nat
      /\ s \in Settlement /\ Overran(s, rows[id].est) /\ rows \in Seq(Row)
  BY <1>1, ReconcileFacts DEF Shape, TypeOK
<1> HIDE DEF id, s
<1>3. HasOverrunRow(rows')
  BY <1>1, <1>2, SettledType
<1>4. \A v \in Worker : pc'[v] = "idle"
  BY <1>1 DEF Shape, Flight
<1> QED
  BY <1>1, <1>3, <1>4 DEF Stop

\* A start that has nothing left to reconcile serves with the stop in a row.
LEMMA StopServe ==
    ASSUME Shape, Stop, Serve PROVE Stop'
<1>1. /\ phase = "starting" /\ phase' = "up" /\ pc' = pc /\ rows' = rows /\ seen' = seen
      /\ ToReconcile(rows) = {}
  BY DEF Serve, store
<1>2. \A v \in Worker : pc'[v] = "idle"
  BY <1>1 DEF Shape, Flight
<1>3. seen'.overrun => HasOverrunRow(rows')
  BY <1>1 DEF Stop
<1> QED
  BY <1>1, <1>2, <1>3 DEF Stop

\* Steps that leave everything the stop is about.
LEMMA StopStutter ==
    ASSUME Stop, Tick \/ UNCHANGED vars PROVE Stop'
<1>1. phase' = phase /\ rows' = rows /\ holdsStop' = holdsStop /\ seen' = seen
      /\ pc' = pc /\ q' = q
  BY DEF Tick, vars, store, process
<1>2. \A v \in Worker : BillAbove(v)' = BillAbove(v)
  BY <1>1 DEF BillAbove, SettlementOf
<1> QED
  BY <1>1, <1>2 DEF Stop

\* No step loses the stop.
LEMMA StopNext ==
    ASSUME Shape, Stop, [Next]_vars PROVE Stop'
<1>1. CASE \E w \in Worker : Quiet(w)
  BY <1>1, StopQuietSteps
<1>2. CASE \E w \in Worker : FlushOne(w) \/ AdmitCommit(w) \/ Exchange(w)
  BY <1>2, StopFlushOne, StopAdmitCommit, StopExchange
<1>3. CASE \E w \in Worker : SettleCommit(w) \/ SettleRefused(w) \/ Rollback(w) \/ SettleBusy(w)
  BY <1>3, StopSettleCommit, StopSettleRefused, StopRollback, StopSettleBusy
<1>4. CASE Crash \/ Reconcile \/ Serve
  BY <1>4, StopCrash, StopReconcile, StopServe
<1>5. CASE Tick \/ UNCHANGED vars
  BY <1>5, StopStutter
<1> QED
  BY <1>1, <1>2, <1>3, <1>4, <1>5 DEF Next, Step, Quiet, Quiescent

\* At the first start no bill has been seen.
LEMMA StopInit == Init => Stop
  BY DEF Init, Stop

\* The stop is always where an admission, or the start before it, looks.
THEOREM StopHolds == Spec => [](Shape /\ Stop)
<1>1. Init => Shape /\ Stop
  BY ShapeInit, StopInit
<1>2. Shape /\ Stop /\ [Next]_vars => Shape' /\ Stop'
  BY ShapeNext, StopNext
<1> QED
  BY <1>1, <1>2, PTL DEF Spec

\* Only the reading of the ledger takes a thread from "check" to "commit".
LEMMA OnlyAdmitCheck ==
    ASSUME Shape, Next, NEW w \in Worker, pc[w] = "check", pc'[w] = "commit"
    PROVE  AdmitCheck(w)
<1>0. pc \in [Worker -> PC]
  BY DEF Shape, TypeOK
<1>1. ASSUME NEW v \in Worker, Step(v) PROVE v = w
  <2>1. \E c : pc' = [pc EXCEPT ![v] = c]
    <3>1. CASE pc' = pc
      BY <3>1, <1>0
    <3>2. CASE pc' # pc
      BY <1>1, <3>2 DEF Step, Call, FlushCopy, FlushOne, FlushRetain, AdmitBegin, AdmitCheck,
         AdmitCommit, AdmitFail, Refused, Exchange, SettleBegin, SettleCommit, SettleRefused,
         Rollback, SettleBusy, AfterCount, BoundTripped, AfterCompletion,
         Charge, Unsettled, End, Goto
    <3> QED
      BY <3>1, <3>2
  <2> QED
    BY <2>1, <1>0
<1>2. ASSUME Step(w) PROVE AdmitCheck(w)
  <2>1. CASE AdmitCheck(w) \/ AdmitFail(w)
    BY <2>1, <1>0 DEF AdmitFail, End, Goto
  <2> QED
    BY <1>2, <2>1 DEF Step, Call, FlushCopy, FlushOne, FlushRetain, AdmitBegin, AdmitCommit,
       Refused, Exchange, SettleBegin, SettleCommit, SettleRefused,
       Rollback, SettleBusy, AfterCount, BoundTripped, AfterCompletion, At
<1>3. ~ \E v \in Worker : \E j \in Job, c \in Countings : Ask(v, j, c)
  BY <1>0 DEF Ask, Goto
<1>4. ~ (Crash \/ Reconcile \/ Serve \/ Tick \/ Quiescent)
  BY DEF Crash, Reconcile, Serve, Tick, Quiescent, vars
<1> QED
  BY <1>1, <1>2, <1>3, <1>4 DEF Next

\* The overrun stop (NoGrantAfterOverrun): for any number of threads, refused
\* writes and kills, no admission is granted once a bill above its reservation
\* was settled or refused a settlement.
THEOREM OverrunStops == Spec => NoGrantAfterOverrun
<1>1. ASSUME Shape, Stop, [Next]_vars
      PROVE  [\A w \in Worker :
                 pc[w] = "check" /\ pc'[w] = "commit" /\ q'[w].decision = "grant"
                    => ~ seen.overrun]_vars
  <2> SUFFICES ASSUME Next, NEW w \in Worker, pc[w] = "check", pc'[w] = "commit",
                      q'[w].decision = "grant"
               PROVE  ~ seen.overrun
    BY <1>1
  <2> DEFINE d == AdmitDecision(rows, notes, holdsStop, q[w].now, q[w].job, q[w].want)
  <2>1. AdmitCheck(w)
    BY <1>1, OnlyAdmitCheck
  <2>2. phase = "up" /\ q' = [q EXCEPT ![w].decision = d]
    BY <2>1 DEF AdmitCheck, At
  <2> HIDE DEF d
  <2>3. q'[w].decision = d
    BY <1>1, <2>2 DEF Shape, TypeOK, Question
  <2>4. ~ (HasOverrunRow(rows) \/ holdsStop)
    BY <1>1, <2>3, GrantMeansNoStop, Typed DEF d
  <2> QED
    BY <1>1, <2>2, <2>4 DEF Stop
<1> QED
  BY <1>1, StopHolds, PTL DEF Spec, NoGrantAfterOverrun


-----------------------------------------------------------------------------
(* The fold of the community modules, by its parts.                        *)

\* The element that a fold takes first.
First(s) == CHOOSE x \in s : TRUE

\* What a fold over S sums for each of its subsets.
IsSum(f, S, g) ==
    g = [s \in SUBSET S |-> IF s = {} THEN 0 ELSE f[First(s)] + g[s \ {First(s)}]]

\* The sums that the fold computes.
Partial(f, S) == CHOOSE g : IsSum(f, S, g)

\* The community modules' sum of a function is the sum of a set by its parts.
LEMMA SumIsPartial ==
    ASSUME NEW f, NEW S
    PROVE  SumFunctionOnSet(f, S) = Partial(f, S)[S]
BY DEF SumFunctionOnSet, FoldFunctionOnSet, MapThenFoldSet, Partial, IsSum, First

\* The element that a sum takes first is one of the set.
LEMMA FirstOf ==
    ASSUME NEW s, s # {} PROVE First(s) \in s
BY DEF First

\* The parts of a set of at most n elements.
Small(S, n) == {s \in SUBSET S : Cardinality(s) <= n}

\* A function g that sums each of them as the fold does.
SmallSum(f, S, n, g) ==
    g = [s \in Small(S, n) |-> IF s = {} THEN 0 ELSE f[First(s)] + g[s \ {First(s)}]]

\* What taking an element out of a part of a finite set leaves.
LEMMA SubsetOf ==
    ASSUME NEW S, IsFiniteSet(S), NEW s \in SUBSET S
    PROVE  /\ IsFiniteSet(s) /\ Cardinality(s) \in Nat /\ Cardinality(s) <= Cardinality(S)
           /\ s = {} <=> Cardinality(s) = 0
           /\ \A x \in s : /\ s \ {x} \in SUBSET S
                           /\ Cardinality(s \ {x}) = Cardinality(s) - 1
BY FS_Subset, FS_CardinalityType, FS_EmptySet, FS_RemoveElement

\* For every size there is a sum of the subsets up to it.
LEMMA SmallSumExists ==
    ASSUME NEW f, NEW S, IsFiniteSet(S), NEW n \in Nat
    PROVE  \E g : SmallSum(f, S, n, g)
<1> DEFINE Bad == {m \in Nat : ~ \E g : SmallSum(f, S, m, g)}
<1> SUFFICES ASSUME n \in Bad PROVE FALSE
    OBVIOUS
<1>1. PICK m \in Bad : \A k \in Bad : m <= k
    <2>1. Bad \in SUBSET Nat /\ Bad # {}
        OBVIOUS
    <2> HIDE DEF Bad
    <2> QED BY <2>1, MinOfNaturals
<1>2. CASE m = 0
    <2> DEFINE g == [s \in Small(S, 0) |-> 0]
    <2>1. \A s \in Small(S, 0) : s = {}
        BY SubsetOf DEF Small
    <2>2. SmallSum(f, S, 0, g)
        BY <2>1, Zenon DEF SmallSum
    <2> QED BY <1>2, <2>2
<1>3. CASE m # 0
    <2>1. m - 1 \in Nat /\ ~(m <= m - 1)
        BY <1>3
    <2>2. PICK g : SmallSum(f, S, m - 1, g)
        BY <1>1, <2>1
    <2> DEFINE Term(s) == IF s = {} THEN 0 ELSE f[First(s)] + g[s \ {First(s)}]
               h == [s \in Small(S, m) |-> Term(s)]
    <2>3. \A s \in Small(S, m - 1) : s \in Small(S, m) /\ h[s] = g[s]
        <3>1. Small(S, m - 1) \subseteq Small(S, m)
            BY <2>1, SubsetOf DEF Small
        <3>2. \A s \in Small(S, m - 1) : g[s] = Term(s)
            BY <2>2, Zenon DEF SmallSum
        <3> QED BY <3>1, <3>2
    <2>4. ASSUME NEW s \in Small(S, m), s # {}
          PROVE  s \ {First(s)} \in Small(S, m - 1)
        BY <1>3, <2>4, FirstOf, SubsetOf DEF Small
    <2>5. ASSUME NEW s \in Small(S, m)
          PROVE  h[s] = IF s = {} THEN 0 ELSE f[First(s)] + h[s \ {First(s)}]
        <3>1. CASE s = {}
            BY <3>1
        <3>2. CASE s # {}
            <4>1. h[s] = f[First(s)] + g[s \ {First(s)}]
                BY <3>2
            <4> HIDE DEF h
            <4> QED BY <2>3, <2>4, <3>2, <4>1
        <3> QED BY <3>1, <3>2
    <2>6. h = [s \in Small(S, m) |-> IF s = {} THEN 0 ELSE f[First(s)] + h[s \ {First(s)}]]
        <3>1. \A s \in Small(S, m) : Term(s) = IF s = {} THEN 0 ELSE f[First(s)] + h[s \ {First(s)}]
            BY <2>5
        <3> QED BY <3>1, Zenon
    <2>7. SmallSum(f, S, m, h)
        <3> HIDE DEF h
        <3> QED BY <2>6, Zenon DEF SmallSum
    <2> QED BY <2>7
<1> QED BY <1>2, <1>3

\* A function g that sums each part of a set.
Sums(f, S, g) ==
    \A s \in SUBSET S :
        g[s] = IF s = {} THEN 0 ELSE f[First(s)] + g[s \ {First(s)}]

\* Every finite set has a sum by its parts.
LEMMA PartialExists ==
    ASSUME NEW f, NEW S, IsFiniteSet(S)
    PROVE  Sums(f, S, Partial(f, S))
<1> DEFINE n == Cardinality(S)
<1>1. n \in Nat
    BY FS_CardinalityType
<1>2. Small(S, n) = SUBSET S
    BY SubsetOf DEF Small
<1>3. PICK g : SmallSum(f, S, n, g)
    BY <1>1, SmallSumExists
<1>4. IsSum(f, S, g)
    BY <1>2, <1>3, Zenon DEF SmallSum, IsSum
<1>5. IsSum(f, S, Partial(f, S))
    BY <1>4, Zenon DEF Partial
<1>6. PICK p : p = Partial(f, S)
    OBVIOUS
<1>7. p = [s \in SUBSET S |-> IF s = {} THEN 0 ELSE f[First(s)] + p[s \ {First(s)}]]
    BY <1>5, <1>6, Zenon DEF IsSum
<1>8. \A s \in SUBSET S : p[s] = IF s = {} THEN 0 ELSE f[First(s)] + p[s \ {First(s)}]
    BY <1>7, Zenon
<1> QED BY <1>6, <1>8 DEF Sums

\* The sums of a set's subsets are those of a larger set's.
LEMMA PartialAgrees ==
    ASSUME NEW f, NEW S, IsFiniteSet(S), NEW T \in SUBSET S
    PROVE  Partial(f, T)[T] = Partial(f, S)[T]
<1>1. IsFiniteSet(T)
    BY SubsetOf
<1> DEFINE p == Partial(f, S)
           r == Partial(f, T)
           Bad == {Cardinality(s) : s \in {s \in SUBSET T : r[s] # p[s]}}
<1> SUFFICES ASSUME r[T] # p[T] PROVE FALSE
    OBVIOUS
<1>2. Bad \in SUBSET Nat /\ Bad # {}
    BY <1>1, SubsetOf
<1>3. PICK n \in Bad : \A m \in Bad : n <= m
    <2> HIDE DEF Bad
    <2> QED BY <1>2, MinOfNaturals
<1>4. PICK s \in SUBSET T : r[s] # p[s] /\ n = Cardinality(s)
    BY <1>3
<1>5. s \in SUBSET S
    OBVIOUS
<1>6. Sums(f, T, r) /\ Sums(f, S, p)
    BY <1>1, PartialExists
<1>7. /\ s # {}
      /\ r[s] = f[First(s)] + r[s \ {First(s)}]
      /\ p[s] = f[First(s)] + p[s \ {First(s)}]
    <2> HIDE DEF r, p
    <2> QED BY <1>4, <1>5, <1>6 DEF Sums
<1> DEFINE t == s \ {First(s)}
<1>8. t \in SUBSET T /\ Cardinality(t) = n - 1 /\ n \in Nat
    BY <1>1, <1>4, <1>7, FirstOf, SubsetOf
<1>9. r[t] = p[t]
    <2> SUFFICES ASSUME r[t] # p[t] PROVE FALSE
        OBVIOUS
    <2>1. Cardinality(t) \in Bad
        BY <1>8
    <2> QED BY <1>3, <1>8, <2>1
<1> QED BY <1>4, <1>7, <1>9

-----------------------------------------------------------------------------
(* What a sum is.                                                          *)

Numbers(f, S) == \A x \in S : f[x] \in Int

\* A sum is the element taken first and the sum of the others.
LEMMA SumUnfolds ==
    ASSUME NEW f, NEW S, IsFiniteSet(S)
    PROVE  /\ S = {} => SumFunctionOnSet(f, S) = 0
           /\ S # {} => SumFunctionOnSet(f, S) =
                            f[First(S)] + SumFunctionOnSet(f, S \ {First(S)})
<1>1. SumFunctionOnSet(f, S) = Partial(f, S)[S]
    BY SumIsPartial
<1> DEFINE p == Partial(f, S)
<1>2. Sums(f, S, p)
    BY PartialExists
<1> HIDE DEF p
<1>3. CASE S = {}
    BY <1>1, <1>2, <1>3 DEF Sums, p
<1>4. CASE S # {}
    <2> DEFINE T == S \ {First(S)}
    <2>1. SumFunctionOnSet(f, T) = Partial(f, T)[T]
        BY SumIsPartial
    <2>2. Partial(f, T)[T] = p[T]
        BY PartialAgrees DEF p
    <2>3. p[S] = f[First(S)] + p[T]
        BY <1>2, <1>4 DEF Sums
    <2> QED BY <1>1, <1>4, <2>1, <2>2, <2>3 DEF p
<1> QED BY <1>3, <1>4

\* A statement of every finite set holds if no smallest set refutes it: the sets of
\* a size are compared by the subsets of one set.
LEMMA SmallestSubset ==
    ASSUME NEW S, IsFiniteSet(S), NEW Bad \in SUBSET (SUBSET S), Bad # {}
    PROVE  \E s \in Bad : \A t \in Bad : Cardinality(s) <= Cardinality(t)
<1> DEFINE Sizes == {Cardinality(s) : s \in Bad}
<1>1. Sizes \in SUBSET Nat /\ Sizes # {}
    BY SubsetOf
<1>2. PICK n \in Sizes : \A m \in Sizes : n <= m
    <2> HIDE DEF Sizes
    <2> QED BY <1>1, MinOfNaturals
<1> QED BY <1>2

\* A sum of numbers is a number.
LEMMA SumType ==
    ASSUME NEW f, NEW S, IsFiniteSet(S), Numbers(f, S)
    PROVE  SumFunctionOnSet(f, S) \in Int
<1> DEFINE Bad == {s \in SUBSET S : SumFunctionOnSet(f, s) \notin Int}
<1> SUFFICES ASSUME S \in Bad PROVE FALSE
    OBVIOUS
<1>1. PICK s \in Bad : \A t \in Bad : Cardinality(s) <= Cardinality(t)
    <2> Bad \in SUBSET (SUBSET S) /\ Bad # {}
        OBVIOUS
    <2> HIDE DEF Bad
    <2> QED BY SmallestSubset
<1> DEFINE t == s \ {First(s)}
<1>2. IsFiniteSet(s) /\ s # {}
    <2>1. IsFiniteSet(s)
        BY SubsetOf
    <2>2. s = {} => SumFunctionOnSet(f, s) = 0
        BY <2>1, SumUnfolds
    <2> QED BY <2>1, <2>2
<1>3. First(s) \in s /\ f[First(s)] \in Int
    BY <1>2, FirstOf DEF Numbers
<1>4. t \in SUBSET S /\ Cardinality(t) = Cardinality(s) - 1 /\ Cardinality(s) \in Nat
    BY <1>3, SubsetOf
<1>5. SumFunctionOnSet(f, t) \in Int
    BY <1>1, <1>4
<1>6. SumFunctionOnSet(f, s) = f[First(s)] + SumFunctionOnSet(f, t)
    BY <1>2, SumUnfolds
<1> QED BY <1>3, <1>5, <1>6

\* Any element may be taken first.
LEMMA SumSplits ==
    ASSUME NEW f, NEW S, IsFiniteSet(S), Numbers(f, S), NEW x \in S
    PROVE  SumFunctionOnSet(f, S) = f[x] + SumFunctionOnSet(f, S \ {x})
<1> DEFINE Sum(s) == SumFunctionOnSet(f, s)
           Bad == {s \in SUBSET S : \E y \in s : Sum(s) # f[y] + Sum(s \ {y})}
<1> SUFFICES ASSUME S \in Bad PROVE FALSE
    OBVIOUS
<1>1. PICK s \in Bad : \A t \in Bad : Cardinality(s) <= Cardinality(t)
    <2> Bad \in SUBSET (SUBSET S) /\ Bad # {}
        OBVIOUS
    <2> HIDE DEF Bad
    <2> QED BY SmallestSubset
<1>2. PICK y \in s : Sum(s) # f[y] + Sum(s \ {y})
    OBVIOUS
<1> DEFINE c == First(s)
<1>3. IsFiniteSet(s) /\ s \in SUBSET S /\ c \in s
    BY SubsetOf, FirstOf
<1>4. Sum(s) = f[c] + Sum(s \ {c})
    BY <1>3, SumUnfolds
<1>5. c # y
    BY <1>2, <1>4
<1> HIDE DEF c
<1>6. /\ s \ {c} \in SUBSET S /\ Cardinality(s \ {c}) = Cardinality(s) - 1
      /\ s \ {y} \in SUBSET S /\ Cardinality(s \ {y}) = Cardinality(s) - 1
      /\ Cardinality(s) \in Nat
    BY <1>3, SubsetOf
<1>7. s \ {c} \notin Bad /\ s \ {y} \notin Bad
    <2> HIDE DEF Bad
    <2> QED BY <1>1, <1>6
<1>8. Sum(s \ {c}) = f[y] + Sum((s \ {c}) \ {y})
    BY <1>5, <1>6, <1>7
<1>9. Sum(s \ {y}) = f[c] + Sum((s \ {y}) \ {c})
    BY <1>3, <1>5, <1>6, <1>7
<1>10. (s \ {c}) \ {y} = (s \ {y}) \ {c}
    OBVIOUS
<1>11. /\ f[c] \in Int /\ f[y] \in Int /\ Sum((s \ {c}) \ {y}) \in Int
    <2>1. f[c] \in Int /\ f[y] \in Int
        BY <1>3 DEF Numbers
    <2>2. (s \ {c}) \ {y} \in SUBSET S
        BY <1>3
    <2>3. IsFiniteSet((s \ {c}) \ {y}) /\ Numbers(f, (s \ {c}) \ {y})
        BY <2>2, SubsetOf DEF Numbers
    <2> QED BY <2>1, <2>3, SumType
<1>12. PICK u \in Int : u = Sum((s \ {c}) \ {y})
    BY <1>11
<1>13. Sum(s) = f[c] + (f[y] + u) /\ f[y] + Sum(s \ {y}) = f[y] + (f[c] + u)
    BY <1>4, <1>8, <1>9, <1>10, <1>12
<1> HIDE DEF Sum
<1> QED BY <1>2, <1>11, <1>13

\* One more element adds its value to a sum, whichever is taken first.
LEMMA SumAdds ==
    ASSUME NEW f, NEW S, IsFiniteSet(S), NEW x, x \notin S, Numbers(f, S \cup {x})
    PROVE  SumFunctionOnSet(f, S \cup {x}) = f[x] + SumFunctionOnSet(f, S)
<1>1. IsFiniteSet(S \cup {x}) /\ (S \cup {x}) \ {x} = S
    BY FS_AddElement
<1> QED BY <1>1, SumSplits

\* A sum is no more than that of terms that are no less over a set that has no
\* fewer, and as much as that of the same terms.
LEMMA SumMonotone ==
    ASSUME NEW S, IsFiniteSet(S), NEW f, NEW g, Numbers(f, S), Numbers(g, S),
           \A x \in S : f[x] <= g[x]
    PROVE  SumFunctionOnSet(f, S) <= SumFunctionOnSet(g, S)
<1> DEFINE Bad == {s \in SUBSET S : ~(SumFunctionOnSet(f, s) <= SumFunctionOnSet(g, s))}
<1> SUFFICES ASSUME S \in Bad PROVE FALSE
    OBVIOUS
<1>1. PICK s \in Bad : \A t \in Bad : Cardinality(s) <= Cardinality(t)
    <2> Bad \in SUBSET (SUBSET S) /\ Bad # {}
        OBVIOUS
    <2> HIDE DEF Bad
    <2> QED BY SmallestSubset
<1> DEFINE c == First(s)
           t == s \ {c}
<1>2. IsFiniteSet(s) /\ s # {}
    <2>1. IsFiniteSet(s)
        BY SubsetOf
    <2>2. s = {} => SumFunctionOnSet(f, s) = 0 /\ SumFunctionOnSet(g, s) = 0
        BY <2>1, SumUnfolds
    <2> QED BY <2>1, <2>2
<1>3. c \in s /\ f[c] \in Int /\ g[c] \in Int /\ f[c] <= g[c]
    BY <1>2, FirstOf DEF Numbers
<1>4. t \in SUBSET S /\ Cardinality(t) = Cardinality(s) - 1 /\ Cardinality(s) \in Nat
    BY <1>3, SubsetOf
<1>5. SumFunctionOnSet(f, t) <= SumFunctionOnSet(g, t)
    BY <1>1, <1>4
<1>6. /\ SumFunctionOnSet(f, s) = f[c] + SumFunctionOnSet(f, t)
      /\ SumFunctionOnSet(g, s) = g[c] + SumFunctionOnSet(g, t)
    BY <1>2, SumUnfolds
<1>7. SumFunctionOnSet(f, t) \in Int /\ SumFunctionOnSet(g, t) \in Int
    <2>1. IsFiniteSet(t) /\ Numbers(f, t) /\ Numbers(g, t)
        BY <1>4, SubsetOf DEF Numbers
    <2> QED BY <2>1, SumType
<1> HIDE DEF c, t
<1> QED BY <1>3, <1>5, <1>6, <1>7

\* Two functions that agree on a set have one sum over it.
LEMMA SumSame ==
    ASSUME NEW S, IsFiniteSet(S), NEW f, NEW g, Numbers(f, S),
           \A x \in S : f[x] = g[x]
    PROVE  SumFunctionOnSet(f, S) = SumFunctionOnSet(g, S)
<1>1. Numbers(g, S)
    BY DEF Numbers
<1>2. \A x \in S : f[x] <= g[x] /\ g[x] <= f[x]
    BY DEF Numbers
<1>3. /\ SumFunctionOnSet(f, S) <= SumFunctionOnSet(g, S)
      /\ SumFunctionOnSet(g, S) <= SumFunctionOnSet(f, S)
    BY <1>1, <1>2, SumMonotone
<1>4. SumFunctionOnSet(f, S) \in Int /\ SumFunctionOnSet(g, S) \in Int
    BY <1>1, SumType
<1> QED BY <1>3, <1>4

\* A sum of naturals over fewer is no more.
LEMMA SumSubset ==
    ASSUME NEW S, IsFiniteSet(S), NEW f, \A x \in S : f[x] \in Nat, NEW T \in SUBSET S
    PROVE  /\ SumFunctionOnSet(f, T) \in Nat
           /\ SumFunctionOnSet(f, T) <= SumFunctionOnSet(f, S)
<1> DEFINE Grows(s, t) == /\ SumFunctionOnSet(f, t) \in Nat
                          /\ SumFunctionOnSet(f, t) <= SumFunctionOnSet(f, s)
           Bad == {s \in SUBSET S : \E t \in SUBSET s : ~Grows(s, t)}
<1> SUFFICES ASSUME S \in Bad PROVE FALSE
    OBVIOUS
<1>1. PICK s \in Bad : \A t \in Bad : Cardinality(s) <= Cardinality(t)
    <2> Bad \in SUBSET (SUBSET S) /\ Bad # {}
        OBVIOUS
    <2> HIDE DEF Bad
    <2> QED BY SmallestSubset
<1>2. PICK t \in SUBSET s : ~Grows(s, t)
    OBVIOUS
<1>3. IsFiniteSet(s) /\ s \in SUBSET S /\ Numbers(f, s)
    BY SubsetOf DEF Numbers
<1>4. CASE s = {}
    <2>1. t = {} /\ SumFunctionOnSet(f, s) = 0
        BY <1>3, <1>4, SumUnfolds
    <2> QED BY <1>2, <1>4, <2>1
<1>5. ASSUME NEW c \in s
      PROVE  /\ \A u \in SUBSET (s \ {c}) : Grows(s \ {c}, u)
             /\ SumFunctionOnSet(f, s) = f[c] + SumFunctionOnSet(f, s \ {c})
             /\ f[c] \in Nat
             /\ SumFunctionOnSet(f, s \ {c}) \in Nat
    <2>1. /\ s \ {c} \in SUBSET S /\ Cardinality(s \ {c}) = Cardinality(s) - 1
          /\ Cardinality(s) \in Nat
        BY <1>3, SubsetOf
    <2>2. s \ {c} \notin Bad
        <3> HIDE DEF Bad
        <3> QED BY <1>1, <2>1
    <2>3. \A u \in SUBSET (s \ {c}) : Grows(s \ {c}, u)
        BY <2>1, <2>2
    <2>4. SumFunctionOnSet(f, s) = f[c] + SumFunctionOnSet(f, s \ {c})
        BY <1>3, SumSplits
    <2> QED BY <1>3, <2>3, <2>4
<1>6. CASE s # {}
    <2>1. CASE t = s
        <3>1. PICK c \in s : TRUE
            BY <1>6
        <3>2. /\ SumFunctionOnSet(f, s) = f[c] + SumFunctionOnSet(f, s \ {c})
              /\ f[c] \in Nat /\ SumFunctionOnSet(f, s \ {c}) \in Nat
            BY <1>5
        <3>3. Grows(s, s)
            BY <3>2
        <3> HIDE DEF Grows
        <3> QED BY <1>2, <2>1, <3>3
    <2>2. CASE t # s
        <3>1. PICK c \in s : c \notin t
            BY <2>2
        <3>2. Grows(s \ {c}, t)
            BY <1>5, <3>1
        <3>3. /\ SumFunctionOnSet(f, s) = f[c] + SumFunctionOnSet(f, s \ {c})
              /\ f[c] \in Nat /\ SumFunctionOnSet(f, s \ {c}) \in Nat
            BY <1>5
        <3>4. Grows(s, t)
            BY <3>2, <3>3
        <3> QED BY <1>2, <3>4
    <2> QED BY <2>1, <2>2
<1> QED BY <1>4, <1>6

-----------------------------------------------------------------------------
(* How the steps of a thread change the rows.                              *)

\* The fields of a row that a recorded exchange leaves as they were.
SameTerms(a, b) ==
    /\ a.kind = b.kind /\ a.job = b.job /\ a.tokens = b.tokens
    /\ a.est = b.est /\ a.at = b.at

\* What a settlement makes of a standing reservation: the row is paid, and a
\* bill above it adds one row of kind "overrun".
LEMMA SettledRow ==
    ASSUME NEW r \in Seq(Row), NEW id \in 1 .. Len(r), NEW s \in Settlement, NEW t \in Nat,
           r[id].kind = "reservation", NEW new, new = Settled(r, id, s, t)
    PROVE  /\ new \in Seq(Row)
           /\ ~Overran(s, r[id].est) => Len(new) = Len(r)
           /\ Overran(s, r[id].est) => /\ Len(new) = Len(r) + 1
                                       /\ new[Len(r) + 1].kind = "overrun"
           /\ \A i \in 1 .. Len(r) : i # id => new[i] = r[i]
           /\ new[id].kind = s.kind /\ new[id].at = t
           /\ new[id].tokens = IF s.kind = "unknown" THEN r[id].tokens ELSE s.tokens
           /\ new[id].job = r[id].job /\ new[id].est = r[id].est
           /\ new[id].said = r[id].said /\ new[id].billed = r[id].billed
<1> DEFINE k == s.kind
           n == IF s.kind = "unknown" THEN r[id].tokens ELSE s.tokens
           paid == [r[id] EXCEPT !.kind = k, !.tokens = n, !.at = t]
           laid == [r EXCEPT ![id] = paid]
           over == [paid EXCEPT !.kind = "overrun"]
<1>1. r[id] \in Row
    OBVIOUS
<1>p. s.kind \in RowKind /\ s.tokens \in Nat
    BY DEF Settlement, RowKind, Spent
<1>t. r[id].tokens \in Nat
    BY <1>1 DEF Row
<1>2. k \in RowKind /\ n \in Nat
    BY <1>p, <1>t
<1>3. new = IF Overran(s, r[id].est) THEN Append(laid, over) ELSE laid
    BY Zenon DEF Settled
<1>4. k = s.kind /\ n = IF s.kind = "unknown" THEN r[id].tokens ELSE s.tokens
    OBVIOUS
<1> HIDE DEF k, n
<1>5. /\ paid \in Row /\ paid.kind = k /\ paid.tokens = n /\ paid.at = t
      /\ paid.job = r[id].job /\ paid.est = r[id].est
      /\ paid.said = r[id].said /\ paid.billed = r[id].billed
    BY <1>1, <1>2 DEF Row
<1>6. over \in Row /\ over.kind = "overrun"
    BY <1>5 DEF Row, RowKind
<1> HIDE DEF paid, over
<1>7. /\ laid \in Seq(Row) /\ Len(laid) = Len(r) /\ laid[id] = paid
      /\ \A i \in 1 .. Len(r) : i # id => laid[i] = r[i]
    BY <1>5
<1> HIDE DEF laid
<1>8. CASE ~Overran(s, r[id].est)
    <2>1. new = laid
        BY <1>3, <1>8
    <2> QED BY <1>4, <1>5, <1>7, <1>8, <2>1
<1>9. CASE Overran(s, r[id].est)
    <2>1. new = Append(laid, over)
        BY <1>3, <1>9
    <2>a. /\ Append(laid, over) \in Seq(Row)
          /\ Len(Append(laid, over)) = Len(r) + 1
          /\ \A i \in 1 .. Len(r) : Append(laid, over)[i] = laid[i]
          /\ Append(laid, over)[Len(r) + 1] = over
        BY <1>6, <1>7
    <2>2. /\ new \in Seq(Row) /\ Len(new) = Len(r) + 1
          /\ \A i \in 1 .. Len(r) : new[i] = laid[i]
          /\ new[Len(r) + 1] = over
        BY <2>1, <2>a
    <2> QED BY <1>4, <1>5, <1>6, <1>7, <1>9, <2>2
<1> QED BY <1>8, <1>9

\* The record of an exchange: what was said and billed, and nothing else.
LEMMA ExchangeRow ==
    ASSUME Shape, NEW w \in Worker, Exchange(w)
    PROVE  \E a \in Answers(q[w].call) : \E b \in Charges(a) : \E row \in Row :
              /\ rows' = [rows EXCEPT ![q[w].res] = row]
              /\ SameTerms(row, rows[q[w].res])
              /\ row.said \in {rows[q[w].res].said, Reports(a)} /\ row.billed = b
              /\ q' = [q EXCEPT ![w] = [q[w] EXCEPT !.answer = a]]
<1> DEFINE id == q[w].res
<1>1. id \in 1 .. Len(rows) /\ rows[id] \in Row /\ rows \in Seq(Row)
    BY FlightFacts, Typed DEF Exchange, At, InFlight
<1>2. PICK a \in Answers(q[w].call) : \E b \in Charges(a) :
          /\ \/ rows' = [rows EXCEPT ![id].said = Reports(a), ![id].billed = b]
             \/ rows' = [rows EXCEPT ![id].billed = b]
          /\ q' = [q EXCEPT ![w].answer = a]
    BY DEF Exchange
<1>3. PICK b \in Charges(a) :
          /\ \/ rows' = [rows EXCEPT ![id].said = Reports(a), ![id].billed = b]
             \/ rows' = [rows EXCEPT ![id].billed = b]
          /\ q' = [q EXCEPT ![w].answer = a]
    BY <1>2
<1>4. b \in Nat /\ Reports(a) \in Figure
    BY AnswersType
<1>5. q' = [q EXCEPT ![w] = [q[w] EXCEPT !.answer = a]]
    BY <1>3 DEF Shape, TypeOK, Question
<1>6. \E row \in Row : /\ rows' = [rows EXCEPT ![id] = row]
                       /\ SameTerms(row, rows[id])
                       /\ row.said \in {rows[id].said, Reports(a)} /\ row.billed = b
    <2>1. CASE rows' = [rows EXCEPT ![id].said = Reports(a), ![id].billed = b]
        <3> DEFINE row == [rows[id] EXCEPT !.said = Reports(a), !.billed = b]
        <3>1. /\ row \in Row /\ SameTerms(row, rows[id])
              /\ row.said = Reports(a) /\ row.billed = b
            BY <1>1, <1>4 DEF Row, SameTerms
        <3>2. rows' = [rows EXCEPT ![id] = row]
            BY <2>1, <1>1 DEF Row
        <3> QED BY <3>1, <3>2
    <2>2. CASE rows' = [rows EXCEPT ![id].billed = b]
        <3> DEFINE row == [rows[id] EXCEPT !.billed = b]
        <3>1. /\ row \in Row /\ SameTerms(row, rows[id])
              /\ row.said = rows[id].said /\ row.billed = b
            BY <1>1, <1>4 DEF Row, SameTerms
        <3>2. rows' = [rows EXCEPT ![id] = row]
            BY <2>2, <1>1 DEF Row
        <3> QED BY <3>1, <3>2
    <2> QED BY <1>3, <2>1, <2>2
<1> QED BY <1>5, <1>6

\* A grant adds the reservation it was asked for.
LEMMA GrantRow ==
    ASSUME Shape, NEW w \in Worker, AdmitCommit(w), q[w].decision = "grant"
    PROVE  \E row \in Row :
              /\ rows' = Append(rows, row)
              /\ row.kind = "reservation" /\ row.job = q[w].job /\ row.at = q[w].now
              /\ row.tokens = q[w].want /\ row.est = q[w].want
              /\ row.said = Silent /\ row.billed = 0
              /\ q' = [q EXCEPT ![w] = [q[w] EXCEPT !.res = Len(rows) + 1,
                                                     !.mine = @ \cup {Len(rows) + 1}]]
              /\ pc' = [pc EXCEPT ![w] = "send"]
<1> DEFINE row == [kind |-> "reservation", job |-> q[w].job, tokens |-> q[w].want,
                   est |-> q[w].want, at |-> q[w].now, said |-> Silent, billed |-> 0]
<1>1. row \in Row
    BY Typed DEF Row, RowKind, Spent, Figure, Silent
<1>2. rows' = Append(rows, row)
    BY DEF AdmitCommit, Reserved
<1>3. q' = [q EXCEPT ![w] = [q[w] EXCEPT !.res = Len(rows) + 1,
                                         !.mine = @ \cup {Len(rows) + 1}]]
    BY DEF AdmitCommit, Shape, TypeOK, Question
<1>4. pc' = [pc EXCEPT ![w] = "send"]
    BY DEF AdmitCommit, Goto
<1> QED BY <1>1, <1>2, <1>3, <1>4

\* A thread that settles writes the settlement of its own reservation.
LEMMA CommitRow ==
    ASSUME Shape, NEW w \in Worker, SettleCommit(w)
    PROVE  /\ q[w].res \in 1 .. Len(rows) /\ rows[q[w].res].kind = "reservation"
           /\ SettlementOf(w) \in Settlement /\ q[w].now \in Nat
           /\ rows' = Settled(rows, q[w].res, SettlementOf(w), q[w].now)
  BY FlightFacts, SettlementType, Typed DEF SettleCommit, At, InFlight

\* A thread that flushes writes one of the settlements it copied, or keeps it.
LEMMA FlushRow ==
    ASSUME Shape, NEW w \in Worker, FlushOne(w)
    PROVE  \E k \in q[w].flush :
              /\ k \in Kept /\ k.id \in 1 .. Len(rows)
              /\ Usage(k.tokens) \in Settlement /\ rows[k.id].at \in Nat
              /\ \A v \in Worker : pc[v] \in InFlight => q[v].res # k.id
              /\ \/ /\ lock = NoWorker
                    /\ rows' = Settled(rows, k.id, Usage(k.tokens), rows[k.id].at)
                    /\ q' = [q EXCEPT ![w] = [q[w] EXCEPT !.flush = @ \ {k},
                                                          !.written = @ \cup {k.id}]]
                    /\ kept' = kept
                 \/ /\ rows' = rows /\ Keep(k.id, k.tokens)
                    /\ q' = [q EXCEPT ![w] = [q[w] EXCEPT !.flush = @ \ {k}]]
<1>1. PICK k \in q[w].flush :
          \/ /\ lock = NoWorker
             /\ rows' = Settled(rows, k.id, Usage(k.tokens), rows[k.id].at)
             /\ q' = [q EXCEPT ![w].flush = @ \ {k}, ![w].written = @ \cup {k.id}]
             /\ kept' = kept
          \/ /\ rows' = rows /\ Keep(k.id, k.tokens)
             /\ q' = [q EXCEPT ![w].flush = @ \ {k}]
    BY DEF FlushOne
<1>2. /\ k \in Kept /\ k.id \in 1 .. Len(rows)
      /\ \A v \in Worker : pc[v] \in InFlight => q[v].res # k.id
    <2>1. q[w].flush \subseteq Kept
        BY Typed DEF Question
    <2> QED BY <2>1 DEF Shape, Keeping, Apart
<1>3. Usage(k.tokens) \in Settlement /\ rows[k.id].at \in Nat
    <2>1. rows[k.id] \in Row
        BY <1>2, Typed
    <2> QED BY <1>2, <2>1 DEF Usage, Settlement, Kept, Row
<1>4. \/ /\ lock = NoWorker
         /\ rows' = Settled(rows, k.id, Usage(k.tokens), rows[k.id].at)
         /\ q' = [q EXCEPT ![w] = [q[w] EXCEPT !.flush = @ \ {k},
                                               !.written = @ \cup {k.id}]]
         /\ kept' = kept
      \/ /\ rows' = rows /\ Keep(k.id, k.tokens)
         /\ q' = [q EXCEPT ![w] = [q[w] EXCEPT !.flush = @ \ {k}]]
    BY <1>1 DEF Shape, TypeOK, Question
<1> QED BY <1>2, <1>3, <1>4

\* No row comes or goes but by a grant, a settlement and an overrun, and what
\* was reserved is never changed.
LEMMA RowsStay ==
    ASSUME Shape, [Next]_vars
    PROVE  /\ rows' \in Seq(Row) /\ Len(rows') >= Len(rows)
           /\ \A i \in 1 .. Len(rows) : rows'[i].est = rows[i].est
<1> DEFINE Stays == /\ rows' \in Seq(Row) /\ Len(rows') >= Len(rows)
                    /\ \A i \in 1 .. Len(rows) : rows'[i].est = rows[i].est
<1> SUFFICES Stays
    OBVIOUS
<1>1. rows \in Seq(Row) /\ Len(rows) \in Nat
    BY DEF Shape, TypeOK
<1>2. CASE rows' = rows
    BY <1>1, <1>2
<1>3. ASSUME NEW w \in Worker, Exchange(w) PROVE Stays
    <2>1. q[w].res \in 1 .. Len(rows)
        BY <1>3, FlightFacts DEF Exchange, At, InFlight
    <2>2. PICK row \in Row : /\ rows' = [rows EXCEPT ![q[w].res] = row]
                             /\ SameTerms(row, rows[q[w].res])
        BY <1>3, ExchangeRow
    <2> QED BY <1>1, <2>1, <2>2 DEF SameTerms
<1>4. ASSUME NEW w \in Worker, AdmitCommit(w), rows' # rows PROVE Stays
    <2>1. q[w].decision = "grant"
        BY <1>4 DEF AdmitCommit
    <2>2. PICK row \in Row : rows' = Append(rows, row)
        BY <1>4, <2>1, GrantRow
    <2> QED BY <1>1, <2>2
<1>5. ASSUME NEW w \in Worker, SettleCommit(w) PROVE Stays
    BY <1>1, <1>5, CommitRow, SettledType
<1>6. ASSUME NEW w \in Worker, FlushOne(w), rows' # rows PROVE Stays
    <2>1. PICK k \in q[w].flush : /\ k.id \in 1 .. Len(rows)
              /\ Usage(k.tokens) \in Settlement /\ rows[k.id].at \in Nat
              /\ rows' = Settled(rows, k.id, Usage(k.tokens), rows[k.id].at)
        BY <1>6, FlushRow
    <2> QED BY <1>1, <2>1, SettledType
<1>7. ASSUME Reconcile PROVE Stays
    <2> DEFINE id == Min(ToReconcile(rows))
    <2>1. ToReconcile(rows) # {} /\ rows' = Settled(rows, id, Usage(rows[id].said), rows[id].at)
        BY <1>7 DEF Reconcile
    <2>2. id \in 1 .. Len(rows) /\ rows[id].at \in Nat /\ Usage(rows[id].said) \in Settlement
        BY <2>1, ReconcileFacts
    <2> HIDE DEF id
    <2> QED BY <1>1, <2>1, <2>2, SettledType
<1>8. \/ rows' = rows \/ Reconcile
      \/ \E w \in Worker : Exchange(w) \/ AdmitCommit(w) \/ SettleCommit(w) \/ FlushOne(w)
    BY ZenonT(60) DEF Next, Step, Call, FlushCopy, FlushRetain, AdmitBegin, AdmitCheck, AdmitFail, Refused,
       SettleBegin, SettleRefused, Rollback, SettleBusy, AfterCount, BoundTripped,
       AfterCompletion, Ask, Crash, Serve, Tick, Quiescent, store, vars
<1> HIDE DEF Stays
<1> QED BY <1>2, <1>3, <1>4, <1>5, <1>6, <1>7, <1>8

\* A thread's step moves no other thread, and a thread only runs when the
\* start is over.
LEMMA OthersStay ==
    ASSUME Shape, NEW w \in Worker, Step(w) \/ \E j \in Job, c \in Countings : Ask(w, j, c)
    PROVE  /\ \A v \in Worker \ {w} : q'[v] = q[v] /\ pc'[v] = pc[v]
           /\ phase = "up" /\ phase' = "up"
<1>0. q \in [Worker -> Question] /\ pc \in [Worker -> PC]
    BY DEF Shape, TypeOK
<1>1. phase = "up" /\ phase' = "up"
    BY DEF Step, Call, FlushCopy, FlushOne, FlushRetain, AdmitBegin, AdmitCheck,
       AdmitCommit, AdmitFail, Refused, Exchange, SettleBegin, SettleCommit, SettleRefused,
       Rollback, SettleBusy, AfterCount, BoundTripped, AfterCompletion, Ask, At, process
<1>2. \A v \in Worker \ {w} : pc'[v] = pc[v]
    BY <1>0 DEF Step, Call, FlushCopy, FlushOne, FlushRetain, AdmitBegin, AdmitCheck,
       AdmitCommit, AdmitFail, Refused, Exchange, SettleBegin, SettleCommit, SettleRefused,
       Rollback, SettleBusy, AfterCount, BoundTripped, AfterCompletion, Ask, End, Goto,
       Unsettled, Charge
<1>3. \A v \in Worker \ {w} : q'[v] = q[v]
    <2>1. CASE q' = q
        BY <2>1, <1>0
    <2>2. CASE Call(w) \/ Refused(w) \/ AfterCount(w) \/ BoundTripped(w)
               \/ AfterCompletion(w) \/ \E j \in Job, c \in Countings : Ask(w, j, c)
        BY <2>2, <1>0 DEF Call, Refused, AfterCount, BoundTripped, AfterCompletion, Ask, End
    <2>3. CASE FlushCopy(w) \/ FlushRetain(w) \/ AdmitCheck(w) \/ AdmitFail(w)
               \/ FlushOne(w) \/ AdmitCommit(w) \/ Exchange(w)
        BY <2>3, <1>0 DEF FlushCopy, FlushRetain, AdmitCheck, AdmitFail, End, FlushOne,
           AdmitCommit, Exchange
    <2>4. CASE SettleCommit(w) \/ Rollback(w) \/ SettleBusy(w)
        BY <2>4, <1>0 DEF SettleCommit, Rollback, SettleBusy, Unsettled, Charge
    <2> QED BY <2>1, <2>2, <2>3, <2>4 DEF Step, AdmitBegin, SettleBegin, SettleRefused
<1> QED BY <1>1, <1>2, <1>3

-----------------------------------------------------------------------------
(* What each thread knows of its own call.                                 *)

\* Where a thread has a transaction open.
Holding == {"check", "commit", "settling", "rollback"}

\* Where it is having a figure admitted.
Asking == {"admit", "flush", "begin", "check", "commit", "refused"}

\* Where its reservation is the row of the call it is at, and where it has
\* the answer of that call.
Heard == {"settle", "settling", "rollback", "counted", "completed"}

Billed == Heard \cup {"send"}

\* The write lock is held from its BEGIN to its COMMIT or ROLLBACK.
HasLock(w) == pc[w] \in Holding => lock = w

\* The row of the call is one of the question's own, reserved for the figure
\* that was admitted, and says what the answer said, or nothing yet.
OwnRow(w) ==
    /\ q[w].mine \subseteq 1 .. Len(rows)
    /\ pc[w] \in Billed => /\ q[w].res \in q[w].mine
                           /\ rows[q[w].res].est = q[w].want
    /\ pc[w] \in InFlight => rows[q[w].res].at = q[w].now
    /\ pc[w] = "send" => rows[q[w].res].said = Silent
    /\ pc[w] \in Heard => /\ q[w].answer \in Answers(q[w].call)
                          /\ rows[q[w].res].said \in {Silent, Reports(q[w].answer)}
    /\ pc[w] \in {"settle", "settling"} => rows[q[w].res].billed \in Charges(q[w].answer)

\* A thread without a question has spent nothing and answered nothing.
OwnFrame(w) ==
    /\ phase = "starting" \/ pc[w] = "idle" => q[w].mine = {} /\ q[w].charged = 0
    /\ pc[w] # "done" => q[w].outcome = "none"

\* The bodies that a question sends: its own, and the one of its repair.
OwnBody(w) ==
    \/ q[w].repairs = 0 /\ q[w].local = Local /\ q[w].gen = Generation
    \/ q[w].repairs = 1 /\ q[w].local = Local /\ q[w].gen = 2 * Generation
    \/ q[w].repairs = 1 /\ q[w].local = Local + Instruction /\ q[w].gen = Generation

\* What an attempt may hold above its send: the count that always comes first.
Extra(w) == IF q[w].counting = "always" THEN q[w].local ELSE 0

\* A count is admitted for the local bound, and a completion for no more than
\* the send leaves after the count.
OwnPrice(w) ==
    /\ pc[w] \notin {"idle", "done"} => OwnBody(w)
    /\ pc[w] = "call" => q[w].held = 0
    /\ pc[w] \in Asking \cup Billed /\ q[w].call = "count" => q[w].want = q[w].local
    /\ pc[w] \in Asking \cup (Billed \ {"counted"}) /\ q[w].call = "count" => q[w].held = 0
    /\ pc[w] \in Asking \cup Billed /\ q[w].call = "completion" =>
          q[w].held + q[w].want <= Send(q[w].local, q[w].gen) + Extra(w)
    /\ pc[w] \in Asking \cup Billed /\ q[w].refusal = "grant" /\ q[w].counting # "always" =>
          q[w].call = "completion" /\ q[w].held = 0
    /\ pc[w] = "counted" => q[w].call = "count"
    /\ pc[w] = "completed" => q[w].call = "completion"
    /\ pc[w] = "counted" /\ q[w].answer.type = "counted" => q[w].held <= q[w].local

Course(w) == HasLock(w) /\ OwnRow(w) /\ OwnFrame(w) /\ OwnPrice(w)

\* No two questions share a reservation.
OwnRows == \A v, w \in Worker : v # w => q[v].mine \cap q[w].mine = {}

Courses == OwnRows /\ \A w \in Worker : Course(w)

\* A step of thread w is seen by the others as rows that are not theirs.
LEMMA CoursesStep ==
    ASSUME Shape, Courses, NEW w \in Worker, [Next]_vars,
           \A v \in Worker \ {w} : q'[v] = q[v] /\ pc'[v] = pc[v],
           phase = "up", phase' = "up",
           lock' = lock \/ lock = NoWorker \/ lock = w,
           \A i \in 1 .. Len(rows) : i \notin q[w].mine =>
               rows'[i].said = rows[i].said /\ rows'[i].billed = rows[i].billed,
           \A v \in Worker \ {w} : pc[v] \in InFlight => rows'[q[v].res].at = rows[q[v].res].at,
           \A i \in q'[w].mine : i \in q[w].mine \/ i \notin 1 .. Len(rows),
           Course(w)'
    PROVE  Courses'
<1>1. /\ rows \in Seq(Row) /\ rows' \in Seq(Row) /\ Len(rows') >= Len(rows)
      /\ 1 .. Len(rows) \subseteq 1 .. Len(rows')
      /\ \A i \in 1 .. Len(rows) : rows'[i].est = rows[i].est
    BY RowsStay DEF Shape, TypeOK
<1>2. ASSUME NEW v \in Worker \ {w} PROVE Course(v)'
    <2>0. q'[v] = q[v] /\ pc'[v] = pc[v] /\ Course(v)
        BY DEF Courses
    <2>1. HasLock(v)'
        <3>1. v # w /\ v # NoWorker
            BY RuntimeAssumption
        <3> QED BY <2>0, <3>1 DEF Course, HasLock
    <2>2. OwnFrame(v)' /\ OwnPrice(v)'
        BY <2>0 DEF Course, OwnFrame, OwnPrice, OwnBody, Extra
    <2>3. OwnRow(v)'
        <3>1. q[v].mine \subseteq 1 .. Len(rows)
              /\ \A i \in q[v].mine : i \notin q[w].mine
            BY <2>0 DEF Courses, OwnRows, Course, OwnRow
        <3>2. pc[v] \in Billed =>
                 /\ q[v].res \in 1 .. Len(rows) /\ q[v].res \notin q[w].mine
            BY <2>0, <3>1 DEF Course, OwnRow
        <3>3. pc[v] \in Billed =>
                 /\ rows'[q[v].res].said = rows[q[v].res].said
                 /\ rows'[q[v].res].billed = rows[q[v].res].billed
                 /\ rows'[q[v].res].est = rows[q[v].res].est
            BY <1>1, <3>2
        <3>4. InFlight \subseteq Billed /\ Heard \subseteq Billed
              /\ {"send", "settle", "settling"} \subseteq Billed
            BY DEF InFlight, Billed, Heard
        <3>5. q'[v].mine \subseteq 1 .. Len(rows')
            BY <1>1, <2>0, <3>1
        <3>6. pc[v] \in InFlight => rows'[q[v].res].at = q[v].now
            BY <2>0 DEF Course, OwnRow
        <3> QED BY <2>0, <3>3, <3>4, <3>5, <3>6 DEF Course, OwnRow
    <2> QED BY <2>1, <2>2, <2>3 DEF Course
<1>3. \A v \in Worker : Course(v)'
    BY <1>2
<1>4. OwnRows'
    <2>1. ASSUME NEW v \in Worker, NEW u \in Worker, v # u PROVE q'[v].mine \cap q'[u].mine = {}
        <3>1. \A x \in Worker : q[x].mine \subseteq 1 .. Len(rows)
            BY DEF Courses, Course, OwnRow
        <3>2. q[v].mine \cap q[u].mine = {}
            BY <2>1 DEF Courses, OwnRows
        <3>3. CASE v # w /\ u # w
            BY <3>2, <3>3
        <3>4. CASE v = w
            BY <2>1, <3>1, <3>2, <3>4
        <3>5. CASE u = w
            BY <2>1, <3>1, <3>2, <3>5
        <3> QED BY <3>3, <3>4, <3>5
    <2> QED BY <2>1 DEF OwnRows
<1> QED BY <1>3, <1>4 DEF Courses

\* What a step of thread w does outside its own question.
LEMMA CourseSides ==
    ASSUME Shape, Courses, NEW w \in Worker,
           Step(w) \/ \E j \in Job, c \in Countings : Ask(w, j, c)
    PROVE  /\ lock' = lock \/ lock = NoWorker \/ lock = w
           /\ \A i \in 1 .. Len(rows) : i \notin q[w].mine =>
                  rows'[i].said = rows[i].said /\ rows'[i].billed = rows[i].billed
           /\ \A v \in Worker \ {w} : pc[v] \in InFlight =>
                  rows'[q[v].res].at = rows[q[v].res].at
<1>0. rows \in Seq(Row) /\ Course(w)
      /\ \A v \in Worker \ {w} : pc[v] \in InFlight =>
             /\ q[v].res \in 1 .. Len(rows)
             /\ pc[w] \in InFlight => q[v].res # q[w].res
    BY DEF Shape, TypeOK, Flight, Courses
<1>1. lock' = lock \/ lock = NoWorker \/ lock = w
    BY <1>0 DEF Course, HasLock, Holding, At,
       Step, Call, FlushCopy, FlushOne, FlushRetain, AdmitBegin, AdmitCheck,
       AdmitCommit, AdmitFail, Refused, Exchange, SettleBegin, SettleCommit, SettleRefused,
       Rollback, SettleBusy, AfterCount, BoundTripped, AfterCompletion, Ask
<1> DEFINE Apartly ==
              /\ \A i \in 1 .. Len(rows) : i \notin q[w].mine =>
                    rows'[i].said = rows[i].said /\ rows'[i].billed = rows[i].billed
              /\ \A v \in Worker \ {w} : pc[v] \in InFlight =>
                    rows'[q[v].res].at = rows[q[v].res].at
<1>2. CASE rows' = rows
    BY <1>1, <1>2
<1>3. CASE Exchange(w)
    <2>1. pc[w] = "send" /\ q[w].res \in 1 .. Len(rows) /\ q[w].res \in q[w].mine
        BY <1>0, <1>3, FlightFacts DEF Exchange, At, InFlight, Course, OwnRow, Billed
    <2>2. PICK row \in Row : /\ rows' = [rows EXCEPT ![q[w].res] = row]
                             /\ SameTerms(row, rows[q[w].res])
        BY <1>3, ExchangeRow
    <2>3. \A i \in 1 .. Len(rows) : /\ i # q[w].res => rows'[i] = rows[i]
                                    /\ rows'[i].at = rows[i].at
        BY <1>0, <2>1, <2>2 DEF SameTerms
    <2>4. Apartly
        BY <1>0, <2>1, <2>3
    <2> QED BY <1>1, <2>4
<1>4. CASE AdmitCommit(w) /\ rows' # rows
    <2>1. q[w].decision = "grant"
        BY <1>4 DEF AdmitCommit
    <2>2. PICK row \in Row : rows' = Append(rows, row)
        BY <1>4, <2>1, GrantRow
    <2>3. \A i \in 1 .. Len(rows) : rows'[i] = rows[i]
        BY <1>0, <2>2
    <2>4. Apartly
        BY <1>0, <2>3
    <2> QED BY <1>1, <2>4
<1>5. CASE SettleCommit(w) \/ (FlushOne(w) /\ rows' # rows)
    <2>1. \E id \in 1 .. Len(rows), s \in Settlement, t \in Nat :
             /\ rows' = Settled(rows, id, s, t)
             /\ \A v \in Worker \ {w} : pc[v] \in InFlight => q[v].res # id
        <3>1. CASE SettleCommit(w)
            <4>1. pc[w] \in InFlight
                BY <3>1 DEF SettleCommit, At, InFlight
            <4>2. \A v \in Worker \ {w} : pc[v] \in InFlight => q[v].res # q[w].res
                BY <1>0, <4>1
            <4>3. /\ q[w].res \in 1 .. Len(rows)
                  /\ SettlementOf(w) \in Settlement /\ q[w].now \in Nat
                  /\ rows' = Settled(rows, q[w].res, SettlementOf(w), q[w].now)
                BY <3>1, CommitRow
            <4> QED BY <4>2, <4>3, Zenon
        <3>2. CASE FlushOne(w) /\ rows' # rows
            <4>1. PICK k \in q[w].flush :
                      /\ k.id \in 1 .. Len(rows)
                      /\ Usage(k.tokens) \in Settlement /\ rows[k.id].at \in Nat
                      /\ \A v \in Worker : pc[v] \in InFlight => q[v].res # k.id
                      /\ rows' = Settled(rows, k.id, Usage(k.tokens), rows[k.id].at)
                BY <3>2, FlushRow
            <4> QED BY <4>1, Zenon
        <3> QED BY <1>5, <3>1, <3>2
    <2>2. PICK id \in 1 .. Len(rows), s \in Settlement, t \in Nat :
             /\ rows' = Settled(rows, id, s, t)
             /\ \A v \in Worker \ {w} : pc[v] \in InFlight => q[v].res # id
        BY <2>1
    <2>3. \A i \in 1 .. Len(rows) : /\ i # id => rows'[i] = rows[i]
                                    /\ rows'[i].said = rows[i].said
                                    /\ rows'[i].billed = rows[i].billed
        <3>1. CASE rows[id].kind = "reservation"
            BY <1>0, <2>2, <3>1, SettledRow
        <3>2. CASE rows[id].kind # "reservation"
            BY <2>2, <3>2 DEF Settled
        <3> QED BY <3>1, <3>2
    <2>4. Apartly
        BY <1>0, <2>2, <2>3
    <2> QED BY <1>1, <2>4
<1>6. \/ rows' = rows \/ Exchange(w) \/ SettleCommit(w)
      \/ (AdmitCommit(w) /\ rows' # rows) \/ (FlushOne(w) /\ rows' # rows)
    BY DEF Step, Call, FlushCopy, FlushRetain, AdmitBegin, AdmitCheck, AdmitFail, Refused,
       SettleBegin, SettleRefused, Rollback, SettleBusy, AfterCount, BoundTripped,
       AfterCompletion, Ask, store
<1> QED BY <1>1, <1>2, <1>3, <1>4, <1>5, <1>6

\* What a question keeps while its figure is being admitted.
SameCall(x, y) ==
    /\ x.counting = y.counting /\ x.now = y.now /\ x.local = y.local /\ x.gen = y.gen
    /\ x.repairs = y.repairs /\ x.call = y.call /\ x.want = y.want /\ x.res = y.res
    /\ x.answer = y.answer /\ x.held = y.held /\ x.charged = y.charged
    /\ x.mine = y.mine /\ x.outcome = y.outcome /\ x.job = y.job
    /\ x.refusal = y.refusal

\* A thread that only goes on asking stays on its course.
LEMMA CourseMoves ==
    ASSUME Shape, Courses, [Next]_vars, NEW w \in Worker, phase' = "up",
           SameCall(q'[w], q[w]), pc[w] \in Asking, pc'[w] \in Asking,
           pc'[w] \in Holding => lock' = w
    PROVE  Course(w)'
<1>1. Course(w) /\ 1 .. Len(rows) \subseteq 1 .. Len(rows')
    BY RowsStay DEF Courses, Shape, TypeOK
<1>2. pc[w] \notin {"idle", "done", "call", "counted", "completed"}
      /\ pc'[w] \notin Billed /\ pc'[w] \notin InFlight /\ pc'[w] \notin Heard
      /\ pc'[w] \notin {"idle", "done", "call", "counted", "completed", "send", "settle", "settling"}
    BY DEF Asking, Billed, Heard, InFlight
<1>3. HasLock(w)'
    BY DEF HasLock
<1>4. OwnRow(w)'
    BY <1>1, <1>2 DEF OwnRow, Course, SameCall
<1>5. OwnFrame(w)'
    BY <1>1, <1>2 DEF OwnFrame, Course, SameCall
<1>6. OwnPrice(w)'
    BY <1>1, <1>2 DEF OwnPrice, OwnBody, Extra, Course, SameCall
<1> QED BY <1>3, <1>4, <1>5, <1>6 DEF Course

\* The end of a question leaves what it reserved.
LEMMA CourseEnd ==
    ASSUME Shape, Courses, [Next]_vars, NEW w \in Worker, phase' = "up", NEW o,
           End(w, q[w], o)
    PROVE  Course(w)' /\ q'[w].mine = q[w].mine
<1>1. Course(w) /\ 1 .. Len(rows) \subseteq 1 .. Len(rows')
      /\ q \in [Worker -> Question] /\ pc \in [Worker -> PC]
    BY RowsStay DEF Courses, Shape, TypeOK
<1> DEFINE f == Fresh(q[w].job, q[w].now, q[w].counting)
           new == [f EXCEPT !.charged = q[w].charged, !.mine = q[w].mine, !.outcome = o]
<1>2. q'[w] = new /\ pc'[w] = "done"
    BY <1>1 DEF End, Goto
<1>3. new.mine = q[w].mine
    BY DEF Fresh
<1> HIDE DEF new
<1>4. HasLock(w)' /\ OwnRow(w)' /\ OwnFrame(w)' /\ OwnPrice(w)'
    BY <1>1, <1>2, <1>3
    DEF HasLock, Holding, OwnRow, Billed, Heard, InFlight, OwnFrame, OwnPrice, Asking, Course
<1> QED BY <1>2, <1>3, <1>4 DEF Course

\* A question that is asked begins on its course, with no row of its own.
LEMMA CourseAsk ==
    ASSUME Shape, Courses, [Next]_vars, NEW w \in Worker, NEW j \in Job, NEW c \in Countings,
           Ask(w, j, c)
    PROVE  Course(w)' /\ q'[w].mine = {}
<1>1. q \in [Worker -> Question] /\ pc \in [Worker -> PC] /\ rows' \in Seq(Row)
    BY RowsStay DEF Shape, TypeOK
<1>2. q'[w] = Fresh(j, clock, c) /\ pc'[w] = "call" /\ phase' = "up"
    BY <1>1 DEF Ask, Goto, process
<1>3. /\ Fresh(j, clock, c).mine = {} /\ Fresh(j, clock, c).charged = 0
      /\ Fresh(j, clock, c).outcome = "none" /\ Fresh(j, clock, c).held = 0
      /\ Fresh(j, clock, c).repairs = 0 /\ Fresh(j, clock, c).local = Local
      /\ Fresh(j, clock, c).gen = Generation
    BY DEF Fresh
<1>4. HasLock(w)' /\ OwnRow(w)' /\ OwnFrame(w)' /\ OwnPrice(w)'
    BY <1>2, <1>3 DEF HasLock, Holding, OwnRow, Billed, Heard, InFlight, OwnFrame, OwnPrice,
       OwnBody, Asking
<1> QED BY <1>2, <1>3, <1>4 DEF Course

\* A call or a count asks for its figure.
LEMMA CourseAdmits ==
    ASSUME Shape, Courses, [Next]_vars, NEW w \in Worker, phase' = "up",
           pc[w] \notin {"idle", "done"}, pc'[w] = "admit",
           NEW new, q'[w] = new,
           new.mine = q[w].mine, new.repairs = q[w].repairs, new.local = q[w].local,
           new.gen = q[w].gen, new.held = q[w].held, new.outcome = q[w].outcome,
           new.counting = q[w].counting,
           new.refusal = "grant" /\ new.counting # "always" =>
               new.call = "completion" /\ new.held = 0,
           \/ new.call = "count" /\ new.want = q[w].local /\ q[w].held = 0
           \/ /\ new.call = "completion"
              /\ q[w].held + new.want <= Send(q[w].local, q[w].gen) + Extra(w)
    PROVE  Course(w)' /\ q'[w].mine = q[w].mine
<1>1. Course(w) /\ 1 .. Len(rows) \subseteq 1 .. Len(rows')
    BY RowsStay DEF Courses, Shape, TypeOK
<1>2. HasLock(w)' /\ OwnRow(w)' /\ OwnFrame(w)'
    BY <1>1 DEF HasLock, Holding, OwnRow, Billed, Heard, InFlight, OwnFrame, Asking, Course
<1>3. OwnPrice(w)'
    BY <1>1 DEF Course, OwnPrice, OwnBody, Asking, Billed, Heard, Extra
<1> QED BY <1>2, <1>3 DEF Course

\* What an attempt may hold above its send, and the send itself, are numbers.
LEMMA ExtraType ==
    ASSUME Shape, NEW w \in Worker
    PROVE  Extra(w) \in Nat /\ Send(q[w].local, q[w].gen) \in Nat
  BY Typed, SendType DEF Extra

\* The start of an attempt (Runtime::call) stays on its course.
LEMMA CourseCall ==
    ASSUME Shape, Courses, [Next]_vars, NEW w \in Worker, Call(w)
    PROVE  Course(w)' /\ q'[w].mine = q[w].mine
<1>1. pc[w] = "call" /\ phase' = "up" /\ q \in [Worker -> Question] /\ pc \in [Worker -> PC]
      /\ Course(w)
    BY DEF Call, At, process, Shape, TypeOK, Courses
<1>2. CASE End(w, q[w], "unmet")
    BY <1>1, <1>2, CourseEnd
<1>3. CASE ~End(w, q[w], "unmet")
    <2>1. PICK cl, n :
              /\ cl \in {"count", "completion"}
              /\ q' = [q EXCEPT ![w] = Admitting(q[w], cl, n)]
              /\ pc' = [pc EXCEPT ![w] = "admit"]
              /\ n = IF cl = "count" THEN q[w].local ELSE Send(q[w].local, q[w].gen)
              /\ cl = "count" => q[w].counting = "always"
        BY <1>3 DEF Call, Goto, Always
    <2> DEFINE new == Admitting(q[w], cl, n)
    <2>2. /\ new.mine = q[w].mine /\ new.repairs = q[w].repairs /\ new.local = q[w].local
          /\ new.gen = q[w].gen /\ new.held = q[w].held /\ new.outcome = q[w].outcome
          /\ new.counting = q[w].counting
          /\ new.call = cl /\ new.want = n
        BY Typed DEF Admitting, Question
    <2>3. q'[w] = new /\ pc'[w] = "admit"
        BY <1>1, <2>1
    <2>4. q[w].held = 0
        BY <1>1 DEF Course, OwnPrice
    <2>5. \/ new.call = "count" /\ new.want = q[w].local /\ q[w].held = 0
          \/ /\ new.call = "completion"
             /\ q[w].held + new.want <= Send(q[w].local, q[w].gen) + Extra(w)
        BY <2>1, <2>2, <2>4, ExtraType
    <2>6. new.refusal = "grant" /\ new.counting # "always" =>
              new.call = "completion" /\ new.held = 0
        BY <2>1, <2>2, <2>4
    <2> HIDE DEF new
    <2> QED BY <1>1, <2>2, <2>3, <2>5, <2>6, CourseAdmits
<1> QED BY <1>2, <1>3

\* A refusal, and the count it may be answered by, stay on their course.
LEMMA CourseRefused ==
    ASSUME Shape, Courses, [Next]_vars, NEW w \in Worker, Refused(w)
    PROVE  Course(w)' /\ q'[w].mine = q[w].mine
<1>1. pc[w] = "refused" /\ phase' = "up" /\ q \in [Worker -> Question] /\ pc \in [Worker -> PC]
      /\ Course(w)
    BY DEF Refused, At, process, Shape, TypeOK, Courses
<1>2. CASE End(w, q[w], "refused")
    BY <1>1, <1>2, CourseEnd
<1>3. CASE ~End(w, q[w], "refused")
    <2> DEFINE new == [Admitting(q[w], "count", q[w].local) EXCEPT !.refusal = q[w].decision]
    <2>1. /\ q' = [q EXCEPT ![w] = new] /\ pc' = [pc EXCEPT ![w] = "admit"]
          /\ q[w].refusal = "grant" /\ ATighterFigureCouldAdmit(q[w].decision) /\ ~Always(w)
        BY <1>3 DEF Refused, Goto
    <2>2. /\ new.mine = q[w].mine /\ new.repairs = q[w].repairs /\ new.local = q[w].local
          /\ new.gen = q[w].gen /\ new.held = q[w].held /\ new.outcome = q[w].outcome
          /\ new.counting = q[w].counting
          /\ new.call = "count" /\ new.want = q[w].local /\ new.refusal = q[w].decision
        BY Typed DEF Admitting, Question
    <2>3. q'[w] = new /\ pc'[w] = "admit"
        BY <1>1, <2>1
    <2> HIDE DEF new
    <2>4. q[w].held = 0 /\ new.refusal # "grant"
        BY <1>1, <2>1, <2>2
        DEF Course, OwnPrice, Asking, Always, ATighterFigureCouldAdmit
    <2> QED BY <1>1, <2>2, <2>3, <2>4, CourseAdmits
<1> QED BY <1>2, <1>3

\* The steps that only pass the admission on.
LEMMA CourseAsking ==
    ASSUME Shape, Courses, [Next]_vars, NEW w \in Worker,
           FlushCopy(w) \/ FlushOne(w) \/ FlushRetain(w) \/ AdmitBegin(w) \/ AdmitCheck(w)
    PROVE  Course(w)' /\ q'[w].mine = q[w].mine
<1>1. q \in [Worker -> Question] /\ pc \in [Worker -> PC] /\ Course(w) /\ q[w] \in Question
    BY DEF Shape, TypeOK, Courses
<1>2. /\ phase' = "up" /\ pc[w] \in Asking /\ pc'[w] \in Asking
      /\ pc'[w] \in Holding => lock' = w
    BY <1>1 DEF FlushCopy, FlushOne, FlushRetain, AdmitBegin, AdmitCheck, At, Goto, process,
       Asking, Holding, Course, HasLock
<1>3. SameCall(q'[w], q[w])
    <2>1. CASE FlushOne(w)
        <3>1. PICK k \in q[w].flush :
                  \/ q' = [q EXCEPT ![w] = [q[w] EXCEPT !.flush = @ \ {k},
                                                       !.written = @ \cup {k.id}]]
                  \/ q' = [q EXCEPT ![w] = [q[w] EXCEPT !.flush = @ \ {k}]]
            BY <2>1, FlushRow
        <3>2. /\ SameCall([q[w] EXCEPT !.flush = @ \ {k}], q[w])
              /\ SameCall([q[w] EXCEPT !.flush = @ \ {k}, !.written = @ \cup {k.id}], q[w])
            BY <1>1 DEF SameCall, Question
        <3> QED BY <1>1, <3>1, <3>2
    <2>2. CASE FlushCopy(w) \/ FlushRetain(w)
        BY <1>1, <2>2 DEF FlushCopy, FlushRetain, SameCall, Question
    <2>a. CASE AdmitCheck(w)
        <3>1. PICK d : q' = [q EXCEPT ![w].decision = d]
            BY <2>a DEF AdmitCheck
        <3>2. \A dec : SameCall([q[w] EXCEPT !.decision = dec], q[w])
            BY <1>1 DEF SameCall, Question
        <3>3. q'[w] = [q[w] EXCEPT !.decision = d]
            BY <1>1, <3>1
        <3> QED BY <3>2, <3>3
    <2>3. CASE AdmitBegin(w)
        BY <2>3 DEF AdmitBegin, SameCall
    <2> QED BY <2>1, <2>2, <2>a, <2>3
<1> QED BY <1>2, <1>3, CourseMoves DEF SameCall

\* An admission that the store does not take stays on its course.
LEMMA CourseAdmitFail ==
    ASSUME Shape, Courses, [Next]_vars, NEW w \in Worker, AdmitFail(w)
    PROVE  Course(w)' /\ q'[w].mine = q[w].mine
<1>1. q \in [Worker -> Question] /\ pc \in [Worker -> PC] /\ q[w] \in Question /\ phase' = "up"
    BY DEF Shape, TypeOK, AdmitFail, process
<1>2. CASE End(w, q[w], "unmet")
    BY <1>1, <1>2, CourseEnd
<1>3. CASE ~End(w, q[w], "unmet")
    <2>1. q' = [q EXCEPT ![w].decision = "reservation_overrun"] /\ pc'[w] = "refused"
          /\ pc[w] \in {"begin", "check", "commit"}
        BY <1>1, <1>3 DEF AdmitFail, Goto
    <2>2. SameCall(q'[w], q[w])
        BY <1>1, <2>1 DEF SameCall, Question
    <2>3. pc[w] \in Asking /\ pc'[w] \in Asking /\ pc'[w] \notin Holding
        BY <2>1 DEF Asking, Holding
    <2> QED BY <1>1, <2>2, <2>3, CourseMoves DEF SameCall
<1> QED BY <1>2, <1>3

\* A grant's reservation is a row that no question has.
LEMMA CourseAdmitCommit ==
    ASSUME Shape, Courses, [Next]_vars, NEW w \in Worker, AdmitCommit(w)
    PROVE  /\ Course(w)'
           /\ \A i \in q'[w].mine : i \in q[w].mine \/ i \notin 1 .. Len(rows)
<1>1. /\ q \in [Worker -> Question] /\ pc \in [Worker -> PC] /\ q[w] \in Question /\ phase' = "up"
      /\ Course(w) /\ rows \in Seq(Row) /\ pc[w] = "commit" /\ Len(rows) \in Nat
    BY DEF Shape, TypeOK, AdmitCommit, process, At, Courses
<1>2. CASE q[w].decision # "grant"
    <2>1. SameCall(q'[w], q[w]) /\ pc'[w] = "refused"
        BY <1>1, <1>2 DEF AdmitCommit, Goto, SameCall
    <2>2. pc[w] \in Asking /\ pc'[w] \in Asking /\ pc'[w] \notin Holding
        BY <1>1, <2>1 DEF Asking, Holding
    <2> QED BY <1>1, <2>1, <2>2, CourseMoves DEF SameCall
<1>3. CASE q[w].decision = "grant"
    <2> DEFINE n == Len(rows) + 1
    <2>1. PICK row \in Row :
              /\ rows' = Append(rows, row)
              /\ row.at = q[w].now /\ row.est = q[w].want /\ row.said = Silent
              /\ q' = [q EXCEPT ![w] = [q[w] EXCEPT !.res = n, !.mine = @ \cup {n}]]
              /\ pc' = [pc EXCEPT ![w] = "send"]
        BY <1>3, GrantRow
    <2>2. /\ q'[w].res = n /\ q'[w].mine = q[w].mine \cup {n} /\ q'[w].now = q[w].now
          /\ q'[w].want = q[w].want /\ q'[w].call = q[w].call /\ q'[w].held = q[w].held
          /\ q'[w].local = q[w].local /\ q'[w].gen = q[w].gen /\ q'[w].repairs = q[w].repairs
          /\ q'[w].counting = q[w].counting /\ q'[w].outcome = q[w].outcome
          /\ q'[w].refusal = q[w].refusal
        BY <1>1, <2>1 DEF Question
    <2>3. pc'[w] = "send"
        BY <1>1, <2>1
    <2>4. /\ Len(rows') = n /\ rows'[n] = row /\ n \in 1 .. Len(rows')
          /\ 1 .. Len(rows) \subseteq 1 .. Len(rows') /\ n \notin 1 .. Len(rows)
        BY <1>1, <2>1
    <2> HIDE DEF n
    <2>5. HasLock(w)' /\ OwnFrame(w)'
        BY <1>1, <2>2, <2>3 DEF HasLock, Holding, OwnFrame, Course
    <2>6. OwnRow(w)'
        BY <1>1, <2>1, <2>2, <2>3, <2>4 DEF OwnRow, Course, Billed, Heard, InFlight
    <2>7. OwnPrice(w)'
        BY <1>1, <2>2, <2>3 DEF OwnPrice, OwnBody, Extra, Course, Asking, Billed, Heard
    <2> QED BY <2>2, <2>4, <2>5, <2>6, <2>7 DEF Course
<1> QED BY <1>2, <1>3

\* An exchange and its record stay on their course.
LEMMA CourseExchange ==
    ASSUME Shape, Courses, [Next]_vars, NEW w \in Worker, Exchange(w)
    PROVE  Course(w)' /\ q'[w].mine = q[w].mine
<1>1. /\ q \in [Worker -> Question] /\ pc \in [Worker -> PC] /\ q[w] \in Question /\ phase' = "up"
      /\ Course(w) /\ rows \in Seq(Row) /\ pc[w] = "send" /\ pc' = [pc EXCEPT ![w] = "settle"]
    BY DEF Shape, TypeOK, Exchange, process, At, Courses, Goto
<1> DEFINE id == q[w].res
<1>2. id \in 1 .. Len(rows)
    BY <1>1, FlightFacts DEF InFlight
<1>3. PICK a \in Answers(q[w].call) : \E b \in Charges(a) : \E row \in Row :
              /\ rows' = [rows EXCEPT ![id] = row]
              /\ SameTerms(row, rows[id])
              /\ row.said \in {rows[id].said, Reports(a)} /\ row.billed = b
              /\ q' = [q EXCEPT ![w] = [q[w] EXCEPT !.answer = a]]
    BY ExchangeRow
<1>4. PICK b \in Charges(a) : \E row \in Row :
              /\ rows' = [rows EXCEPT ![id] = row]
              /\ SameTerms(row, rows[id])
              /\ row.said \in {rows[id].said, Reports(a)} /\ row.billed = b
              /\ q' = [q EXCEPT ![w] = [q[w] EXCEPT !.answer = a]]
    BY <1>3
<1>5. PICK row \in Row :
              /\ rows' = [rows EXCEPT ![id] = row]
              /\ SameTerms(row, rows[id])
              /\ row.said \in {rows[id].said, Reports(a)} /\ row.billed = b
              /\ q' = [q EXCEPT ![w] = [q[w] EXCEPT !.answer = a]]
    BY <1>4
<1>6. /\ q'[w].res = id /\ q'[w].mine = q[w].mine /\ q'[w].now = q[w].now
      /\ q'[w].want = q[w].want /\ q'[w].call = q[w].call /\ q'[w].held = q[w].held
      /\ q'[w].local = q[w].local /\ q'[w].gen = q[w].gen /\ q'[w].repairs = q[w].repairs
      /\ q'[w].counting = q[w].counting /\ q'[w].outcome = q[w].outcome
      /\ q'[w].refusal = q[w].refusal /\ q'[w].answer = a
    BY <1>1, <1>5 DEF Question
<1>7. pc'[w] = "settle"
    BY <1>1
<1>8. /\ Len(rows') = Len(rows) /\ rows'[id] = row
      /\ row.est = rows[id].est /\ row.at = rows[id].at
    BY <1>1, <1>2, <1>5 DEF SameTerms
<1>9. HasLock(w)' /\ OwnFrame(w)'
    BY <1>1, <1>6, <1>7 DEF HasLock, Holding, OwnFrame, Course
<1>10. OwnRow(w)'
    <2>1. /\ q[w].mine \subseteq 1 .. Len(rows) /\ id \in q[w].mine
          /\ rows[id].est = q[w].want /\ rows[id].at = q[w].now /\ rows[id].said = Silent
        BY <1>1 DEF Course, OwnRow, Billed, InFlight
    <2> HIDE DEF id
    <2> QED BY <1>5, <1>6, <1>7, <1>8, <2>1 DEF OwnRow
<1>11. OwnPrice(w)'
    BY <1>1, <1>6, <1>7 DEF OwnPrice, OwnBody, Extra, Course, Asking, Billed, Heard
<1> QED BY <1>6, <1>9, <1>10, <1>11 DEF Course

\* The settlement takes the lock, or fails with it held.
LEMMA CourseSettles ==
    ASSUME Shape, Courses, [Next]_vars, NEW w \in Worker, SettleBegin(w) \/ SettleRefused(w)
    PROVE  Course(w)' /\ q'[w].mine = q[w].mine
<1>1. /\ pc \in [Worker -> PC] /\ phase' = "up" /\ Course(w) /\ q' = q /\ rows' = rows
      /\ \/ pc[w] = "settle" /\ pc'[w] = "settling" /\ lock' = w
         \/ pc[w] = "settling" /\ pc'[w] = "rollback" /\ lock' = lock
    BY DEF Shape, TypeOK, SettleBegin, SettleRefused, process, store, At, Courses, Goto
<1>2. HasLock(w)' /\ OwnFrame(w)'
    BY <1>1 DEF HasLock, Holding, OwnFrame, Course
<1>3. OwnRow(w)'
    BY <1>1 DEF OwnRow, Course, Billed, Heard, InFlight
<1>4. OwnPrice(w)'
    BY <1>1 DEF OwnPrice, OwnBody, Extra, Course, Asking, Billed, Heard
<1> QED BY <1>1, <1>2, <1>3, <1>4 DEF Course

\* A count settles at no more than its input bound.
LEMMA CountSettles ==
    ASSUME Shape, NEW w \in Worker, q[w].answer.type = "counted"
    PROVE  /\ SettlementOf(w).kind = "usage" /\ SettlementOf(w).tokens \in Nat
           /\ SettlementOf(w).tokens <= q[w].local
<1>1. q[w].answer.usage \in Nat /\ q[w].local \in Nat
    BY Typed
<1>2. SettlementOf(w) = Usage(Min({q[w].answer.usage, q[w].local}))
    BY DEF SettlementOf
<1>3. /\ Min({q[w].answer.usage, q[w].local}) \in Nat
      /\ Min({q[w].answer.usage, q[w].local}) <= q[w].local
    BY <1>1, MinOfPair
<1> QED BY <1>2, <1>3 DEF Usage

\* What a question is charged for a call, landed or not.
LEMMA ChargeTaken ==
    ASSUME Shape, NEW w \in Worker, NEW n \in Nat, Charge(w, n)
    PROVE  /\ pc'[w] = IF q[w].call = "count" THEN "counted" ELSE "completed"
           /\ q'[w].charged = q[w].charged + n
           /\ q'[w].held = IF q[w].call = "count" THEN n ELSE q[w].held
           /\ q'[w].counting = q[w].counting /\ q'[w].now = q[w].now
           /\ q'[w].local = q[w].local /\ q'[w].gen = q[w].gen
           /\ q'[w].repairs = q[w].repairs /\ q'[w].call = q[w].call
           /\ q'[w].want = q[w].want /\ q'[w].res = q[w].res
           /\ q'[w].answer = q[w].answer /\ q'[w].mine = q[w].mine
           /\ q'[w].outcome = q[w].outcome /\ q'[w].refusal = q[w].refusal
           /\ q'[w].flush = q[w].flush /\ q'[w].written = q[w].written
           /\ q'[w].job = q[w].job
<1> DEFINE h   == IF q[w].call = "count" THEN n ELSE q[w].held
           m   == q[w].charged + n
           new == [q[w] EXCEPT !.charged = m, !.held = h]
<1>1. h \in Nat /\ m \in Nat /\ q[w] \in Question
    BY Typed
<1>2. q'[w] = new
    BY DEF Charge, Shape, TypeOK, Question
<1>3. pc'[w] = IF q[w].call = "count" THEN "counted" ELSE "completed"
    BY DEF Charge, Goto, Shape, TypeOK
<1>4. m = q[w].charged + n /\ h = IF q[w].call = "count" THEN n ELSE q[w].held
    OBVIOUS
<1> HIDE DEF h, m
<1>5. /\ new.charged = m /\ new.held = h
      /\ new.counting = q[w].counting /\ new.now = q[w].now
      /\ new.local = q[w].local /\ new.gen = q[w].gen
      /\ new.repairs = q[w].repairs /\ new.call = q[w].call
      /\ new.want = q[w].want /\ new.res = q[w].res
      /\ new.answer = q[w].answer /\ new.mine = q[w].mine
      /\ new.outcome = q[w].outcome /\ new.refusal = q[w].refusal
      /\ new.flush = q[w].flush /\ new.written = q[w].written
      /\ new.job = q[w].job
    BY <1>1 DEF Question
<1> HIDE DEF new
<1> QED BY <1>2, <1>3, <1>4, <1>5

\* A settled call is heard, and a count that was answered charged its bound
\* at the most.
LEMMA CourseCharged ==
    ASSUME Shape, Courses, [Next]_vars, NEW w \in Worker, phase' = "up",
           pc[w] \in {"settle", "settling", "rollback"}, NEW n \in Nat, Charge(w, n),
           rows'[q[w].res].said = rows[q[w].res].said,
           q[w].call = "count" /\ q[w].answer.type = "counted" => n <= q[w].local
    PROVE  Course(w)' /\ q'[w].mine = q[w].mine
<1>1. /\ Course(w) /\ rows \in Seq(Row) /\ 1 .. Len(rows) \subseteq 1 .. Len(rows')
      /\ \A i \in 1 .. Len(rows) : rows'[i].est = rows[i].est
    BY RowsStay DEF Courses, Shape, TypeOK
<1>a. q[w].call \in {"count", "completion"}
    BY Typed DEF Question
<1>2. /\ pc'[w] = IF q[w].call = "count" THEN "counted" ELSE "completed"
      /\ q'[w].held = IF q[w].call = "count" THEN n ELSE q[w].held
      /\ q'[w].counting = q[w].counting
      /\ q'[w].local = q[w].local /\ q'[w].gen = q[w].gen
      /\ q'[w].repairs = q[w].repairs /\ q'[w].call = q[w].call
      /\ q'[w].want = q[w].want /\ q'[w].res = q[w].res
      /\ q'[w].answer = q[w].answer /\ q'[w].mine = q[w].mine
      /\ q'[w].outcome = q[w].outcome /\ q'[w].refusal = q[w].refusal
    BY ChargeTaken
<1>3. HasLock(w)' /\ OwnFrame(w)'
    BY <1>1, <1>2 DEF HasLock, Holding, OwnFrame, Course
<1>4. OwnRow(w)'
    <2>1. /\ q[w].mine \subseteq 1 .. Len(rows) /\ q[w].res \in q[w].mine
          /\ rows[q[w].res].est = q[w].want /\ q[w].answer \in Answers(q[w].call)
          /\ rows[q[w].res].said \in {Silent, Reports(q[w].answer)}
        BY <1>1 DEF Course, OwnRow, Billed, Heard
    <2>2. rows'[q[w].res].est = rows[q[w].res].est
        BY <1>1, <2>1
    <2> QED BY <1>1, <1>2, <2>1, <2>2 DEF OwnRow, Billed, Heard, InFlight
<1>5. OwnPrice(w)'
    <2>1. pc[w] \in Billed /\ pc[w] \notin {"idle", "done", "counted"}
          /\ pc'[w] \in Billed /\ pc'[w] \notin {"idle", "done", "call"}
        BY <1>2 DEF Billed, Heard
    <2>2. OwnBody(w)'
        BY <1>1, <1>2, <2>1 DEF Course, OwnPrice, OwnBody
    <2>3. q[w].call = "count" =>
             q[w].want = q[w].local /\ ~(q[w].refusal = "grant" /\ q[w].counting # "always")
        BY <1>1, <2>1 DEF Course, OwnPrice
    <2>4. q[w].call = "completion" =>
             /\ q[w].held + q[w].want <= Send(q[w].local, q[w].gen) + Extra(w)
             /\ q[w].refusal = "grant" /\ q[w].counting # "always" => q[w].held = 0
        BY <1>1, <2>1 DEF Course, OwnPrice
    <2>5. Extra(w)' = Extra(w)
        BY <1>2 DEF Extra
    <2>6. CASE q[w].call = "count"
        <3>1. /\ pc'[w] = "counted" /\ q'[w].call = "count" /\ q'[w].want = q'[w].local
              /\ ~(q'[w].refusal = "grant" /\ q'[w].counting # "always")
            BY <1>2, <2>3, <2>6
        <3>2. q'[w].answer.type = "counted" => q'[w].held <= q'[w].local
            BY <1>2, <2>6
        <3> QED BY <2>2, <3>1, <3>2 DEF OwnPrice, Asking
    <2>7. CASE q[w].call = "completion"
        <3>1. /\ pc'[w] = "completed" /\ q'[w].call = "completion"
              /\ q'[w].held + q'[w].want <= Send(q'[w].local, q'[w].gen) + Extra(w)'
              /\ q'[w].refusal = "grant" /\ q'[w].counting # "always" => q'[w].held = 0
            BY <1>2, <2>4, <2>5, <2>7
        <3> QED BY <2>2, <3>1 DEF OwnPrice
    <2> QED BY <1>a, <2>6, <2>7
<1> QED BY <1>2, <1>3, <1>4, <1>5 DEF Course

\* What a settlement that did not land charges.
LEMMA UnsettledTaken ==
    ASSUME Shape, Courses, NEW w \in Worker, pc[w] \in {"settle", "settling", "rollback"},
           Unsettled(w)
    PROVE  \E n \in Nat :
              /\ Charge(w, n)
              /\ n = IF Overran(SettlementOf(w), rows[q[w].res].est)
                     THEN SettlementOf(w).tokens ELSE rows[q[w].res].est
              /\ q[w].call = "count" /\ q[w].answer.type = "counted" => n <= q[w].local
<1> DEFINE s == SettlementOf(w)
           e == rows[q[w].res].est
           n == IF Overran(s, e) THEN s.tokens ELSE e
<1>1. s \in Settlement /\ e \in Nat
    BY SettlementType, FlightFacts DEF InFlight
<1>2. s.tokens \in Nat
    BY <1>1 DEF Settlement
<1>3. Charge(w, n)
    BY DEF Unsettled
<1>4. ASSUME q[w].call = "count", q[w].answer.type = "counted" PROVE n <= q[w].local
    <2>1. e = q[w].local /\ q[w].local \in Nat
        BY <1>4, Typed DEF Courses, Course, OwnRow, OwnPrice, Billed, Heard
    <2>2. s.tokens <= q[w].local
        BY <1>4, CountSettles
    <2> HIDE DEF s, e
    <2> QED BY <1>2, <2>1, <2>2
<1>5. n \in Nat
    BY <1>1, <1>2
<1> QED BY <1>3, <1>4, <1>5

\* A settlement that did not land stays on its course.
LEMMA CourseUnsettled ==
    ASSUME Shape, Courses, [Next]_vars, NEW w \in Worker, Rollback(w) \/ SettleBusy(w)
    PROVE  Course(w)' /\ q'[w].mine = q[w].mine
<1>1. /\ phase' = "up" /\ pc[w] \in {"settle", "settling", "rollback"} /\ rows' = rows
      /\ Unsettled(w)
    BY DEF Rollback, SettleBusy, At, process, store
<1>2. PICK n \in Nat :
              /\ Charge(w, n)
              /\ q[w].call = "count" /\ q[w].answer.type = "counted" => n <= q[w].local
    BY <1>1, UnsettledTaken
<1> QED BY <1>1, <1>2, CourseCharged

\* A settlement that lands stays on its course.
LEMMA CourseSettleCommit ==
    ASSUME Shape, Courses, [Next]_vars, NEW w \in Worker, SettleCommit(w)
    PROVE  Course(w)' /\ q'[w].mine = q[w].mine
<1> DEFINE s  == SettlementOf(w)
           id == q[w].res
           n  == Holds(s, rows[id].est)
<1>1. /\ phase' = "up" /\ pc[w] = "settling" /\ Charge(w, n)
    BY DEF SettleCommit, At, process
<1>2. /\ id \in 1 .. Len(rows) /\ rows[id].kind = "reservation" /\ s \in Settlement
      /\ q[w].now \in Nat /\ rows' = Settled(rows, id, s, q[w].now) /\ rows \in Seq(Row)
      /\ rows[id].est \in Nat
    BY <1>1, CommitRow, FlightFacts, Typed DEF InFlight
<1>3. n \in Nat
    BY <1>2, HoldsType
<1>4. q[w].call = "count" /\ q[w].answer.type = "counted" => n <= q[w].local
    BY CountSettles DEF Holds
<1>5. rows'[id].said = rows[id].said
    <2> HIDE DEF s, id
    <2> QED BY <1>2, SettledRow
<1> HIDE DEF n
<1> QED BY <1>1, <1>3, <1>4, <1>5, CourseCharged

\* The completion that follows a count fits into what the send leaves.
LEMMA CourseAfterCount ==
    ASSUME Shape, Courses, [Next]_vars, NEW w \in Worker, AfterCount(w)
    PROVE  Course(w)' /\ q'[w].mine = q[w].mine
<1>1. /\ phase' = "up" /\ pc[w] = "counted" /\ q \in [Worker -> Question]
      /\ pc \in [Worker -> PC] /\ Course(w)
    BY DEF AfterCount, At, process, Shape, TypeOK, Courses
<1>2. CASE \E o \in {"unmet", "refused"} : End(w, q[w], o)
    BY <1>1, <1>2, CourseEnd
<1> DEFINE wanted == Send(Believed(w), q[w].gen)
           on  == IF Always(w) THEN Silent ELSE Believed(w)
           new == [Admitting(q[w], "completion", wanted) EXCEPT
                      !.on = on, !.answer = NoAnswer]
<1>3. CASE ~ \E o \in {"unmet", "refused"} : End(w, q[w], o)
    <2>1. /\ q[w].answer.type = "counted" /\ FitsSend(w, wanted)
          /\ q' = [q EXCEPT ![w] = new] /\ pc' = [pc EXCEPT ![w] = "admit"]
        BY <1>3 DEF AfterCount, Goto
    <2>2. /\ Believed(w) \in Nat /\ Believed(w) <= q[w].local /\ wanted \in Nat
          /\ q[w].local \in Nat /\ q[w].gen \in Nat /\ q[w].held \in Nat
        BY <2>1, BelievedType, SendType, Typed
    <2>3. wanted <= Send(q[w].local, q[w].gen)
        BY <2>2, RuntimeAssumption DEF Send
    <2>4. q[w].held <= q[w].local /\ q[w].call = "count"
          /\ ~(q[w].refusal = "grant" /\ q[w].counting # "always")
        BY <1>1, <2>1 DEF Course, OwnPrice, Billed, Heard
    <2>5. q[w].held + wanted <= Send(q[w].local, q[w].gen) + Extra(w)
        <3>1. Send(q[w].local, q[w].gen) \in Nat
            BY <2>2, SendType
        <3>2. CASE Always(w)
            <4>1. Extra(w) = q[w].local
                BY <3>2 DEF Extra, Always
            <4> HIDE DEF wanted
            <4> QED BY <2>2, <2>3, <2>4, <3>1, <4>1
        <3>3. CASE ~Always(w)
            <4>1. Extra(w) = 0 /\ q[w].held + wanted <= Send(q[w].local, q[w].gen)
                BY <2>1, <3>3 DEF Extra, Always, FitsSend
            <4> HIDE DEF wanted
            <4> QED BY <2>2, <3>1, <4>1
        <3> QED BY <3>2, <3>3
    <2> HIDE DEF wanted, on
    <2>6. /\ new.mine = q[w].mine /\ new.repairs = q[w].repairs /\ new.local = q[w].local
          /\ new.gen = q[w].gen /\ new.held = q[w].held /\ new.outcome = q[w].outcome
          /\ new.counting = q[w].counting /\ new.refusal = q[w].refusal
          /\ new.call = "completion" /\ new.want = wanted
        BY Typed DEF Admitting, Question
    <2>7. q'[w] = new /\ pc'[w] = "admit"
        BY <1>1, <2>1
    <2> HIDE DEF new
    <2> QED BY <1>1, <2>4, <2>5, <2>6, <2>7, CourseAdmits
<1> QED BY <1>2, <1>3

\* What a repair sends.
LEMMA RepairedBody ==
    ASSUME NEW x \in Question, NEW read, NEW new, new = Repaired(x, read)
    PROVE  /\ new.mine = x.mine /\ new.charged = x.charged /\ new.outcome = x.outcome
           /\ new.counting = x.counting /\ new.held = 0 /\ new.repairs = x.repairs + 1
           /\ new.flush = x.flush /\ new.written = x.written
           /\ \/ new.local = x.local /\ new.gen = 2 * x.gen
              \/ new.local = x.local + Instruction /\ new.gen = x.gen
<1> DEFINE body == IF read = "truncated" THEN [x EXCEPT !.gen = 2 * @]
                   ELSE [x EXCEPT !.local = @ + Instruction]
<1>1. /\ body \in Question /\ body.mine = x.mine /\ body.charged = x.charged
      /\ body.outcome = x.outcome /\ body.counting = x.counting /\ body.repairs = x.repairs
      /\ body.flush = x.flush /\ body.written = x.written
      /\ \/ body.local = x.local /\ body.gen = 2 * x.gen
         \/ body.local = x.local + Instruction /\ body.gen = x.gen
    BY RuntimeAssumption DEF Question
<1> HIDE DEF body
<1>2. new = [body EXCEPT !.repairs = @ + 1, !.res = 0, !.on = Silent, !.held = 0,
                         !.answer = NoAnswer, !.refusal = "grant"]
    BY Zenon DEF Repaired, body
<1>3. /\ new.mine = body.mine /\ new.charged = body.charged /\ new.outcome = body.outcome
      /\ new.counting = body.counting /\ new.held = 0 /\ new.repairs = body.repairs + 1
      /\ new.flush = body.flush /\ new.written = body.written
      /\ new.local = body.local /\ new.gen = body.gen
    BY <1>1, <1>2 DEF Question
<1> QED BY <1>1, <1>3

\* A repair is a new attempt, and there is one.
LEMMA CourseCompleted ==
    ASSUME Shape, Courses, [Next]_vars, NEW w \in Worker, BoundTripped(w) \/ AfterCompletion(w)
    PROVE  Course(w)' /\ q'[w].mine = q[w].mine
<1>1. /\ phase' = "up" /\ pc[w] = "completed" /\ q \in [Worker -> Question] /\ rows' = rows
      /\ pc \in [Worker -> PC] /\ Course(w) /\ q[w] \in Question
    BY DEF BoundTripped, AfterCompletion, At, process, Shape, TypeOK, Courses
<1>2. CASE \E o : End(w, q[w], o)
    BY <1>1, <1>2, CourseEnd
<1> DEFINE new == Repaired(q[w], q[w].answer.read)
<1>3. CASE ~ \E o : End(w, q[w], o)
    <2>1. q[w].repairs < Repairs /\ q' = [q EXCEPT ![w] = new] /\ pc' = [pc EXCEPT ![w] = "call"]
        BY <1>3 DEF BoundTripped, AfterCompletion, Goto
    <2>2. q'[w] = new /\ pc'[w] = "call"
        BY <1>1, <2>1
    <2>3. /\ new.mine = q[w].mine /\ new.charged = q[w].charged /\ new.outcome = q[w].outcome
          /\ new.held = 0 /\ new.repairs = q[w].repairs + 1
          /\ \/ new.local = q[w].local /\ new.gen = 2 * q[w].gen
             \/ new.local = q[w].local + Instruction /\ new.gen = q[w].gen
        BY <1>1, RepairedBody
    <2>4. q[w].repairs = 0 /\ q[w].local = Local /\ q[w].gen = Generation
        BY <1>1, <2>1 DEF Course, OwnPrice, OwnBody, Repairs
    <2> HIDE DEF new
    <2>5. HasLock(w)' /\ OwnRow(w)' /\ OwnFrame(w)'
        BY <1>1, <2>2, <2>3
        DEF HasLock, Holding, OwnRow, OwnFrame, Course, Billed, Heard, InFlight
    <2>6. OwnPrice(w)'
        BY <2>2, <2>3, <2>4 DEF OwnPrice, OwnBody, Asking, Billed, Heard
    <2> QED BY <2>2, <2>3, <2>5, <2>6 DEF Course
<1> QED BY <1>2, <1>3

\* No question runs when the program begins.
LEMMA CoursesInit == Init => Courses
<1> SUFFICES ASSUME Init PROVE Courses
    OBVIOUS
<1>1. \A w \in Worker : pc[w] = "idle" /\ q[w].mine = {} /\ q[w].charged = 0
                         /\ q[w].outcome = "none"
    BY DEF Init, Fresh
<1>2. ASSUME NEW w \in Worker PROVE Course(w)
    BY <1>1 DEF Course, HasLock, Holding, OwnRow, OwnFrame, OwnPrice, Asking, Billed, Heard,
       InFlight
<1> QED BY <1>1, <1>2 DEF Courses, OwnRows

\* Every step keeps what the threads know of their calls.
LEMMA CoursesNext ==
    ASSUME Shape, Courses, [Next]_vars PROVE Courses'
<1>1. ASSUME NEW w \in Worker, Step(w) PROVE Courses'
    <2>1. /\ Course(w)'
          /\ \A i \in q'[w].mine : i \in q[w].mine \/ i \notin 1 .. Len(rows)
        BY <1>1, CourseCall, CourseAsking, CourseAdmitCommit, CourseAdmitFail, CourseRefused,
           CourseExchange, CourseSettles, CourseSettleCommit, CourseUnsettled,
           CourseAfterCount, CourseCompleted DEF Step
    <2> QED BY <1>1, <2>1, CourseSides, OthersStay, CoursesStep
<1>2. ASSUME NEW w \in Worker, NEW j \in Job, NEW c \in Countings, Ask(w, j, c) PROVE Courses'
    <2>1. Course(w)' /\ q'[w].mine = {}
        BY <1>2, CourseAsk
    <2>2. /\ \A v \in Worker \ {w} : q'[v] = q[v] /\ pc'[v] = pc[v]
          /\ phase = "up" /\ phase' = "up"
        BY <1>2, OthersStay
    <2> QED BY <1>2, <2>1, <2>2, CourseSides, CoursesStep
<1>3. CASE Crash
    <2>1. \A w \in Worker : pc'[w] = "idle" /\ q'[w].mine = {} /\ q'[w].charged = 0
                             /\ q'[w].outcome = "none"
        BY <1>3 DEF Crash, Fresh
    <2>2. ASSUME NEW w \in Worker PROVE Course(w)'
        BY <2>1 DEF Course, HasLock, Holding, OwnRow, OwnFrame, OwnPrice, Asking, Billed, Heard,
           InFlight
    <2> QED BY <2>1, <2>2 DEF Courses, OwnRows
<1>4. CASE Reconcile \/ Serve
    <2>1. /\ phase = "starting" /\ pc' = pc /\ q' = q
          /\ \A w \in Worker : pc[w] = "idle"
        BY <1>4 DEF Reconcile, Serve, process, Shape, Flight
    <2>2. \A w \in Worker : q[w].mine = {} /\ q[w].charged = 0 /\ q[w].outcome = "none"
        BY <2>1 DEF Courses, Course, OwnFrame
    <2>3. ASSUME NEW w \in Worker PROVE Course(w)'
        BY <2>1, <2>2 DEF Course, HasLock, Holding, OwnRow, OwnFrame, OwnPrice, Asking, Billed,
           Heard, InFlight
    <2> QED BY <2>1, <2>2, <2>3 DEF Courses, OwnRows
<1>5. CASE Tick \/ UNCHANGED vars
    <2>1. phase' = phase /\ pc' = pc /\ q' = q /\ rows' = rows /\ lock' = lock
        BY <1>5 DEF Tick, vars, store, process
    <2>2. ASSUME NEW w \in Worker PROVE Course(w)'
        <3>1. Course(w)
            BY DEF Courses
        <3> QED BY <2>1, <3>1 DEF Course, HasLock, OwnRow, OwnFrame, OwnPrice, OwnBody, Extra
    <2> QED BY <2>1, <2>2 DEF Courses, OwnRows
<1> QED BY <1>1, <1>2, <1>3, <1>4, <1>5 DEF Next, Quiescent

\* Each call knows its row, its price and whether it has the lock.
THEOREM CoursesHold == Spec => [](Shape /\ Courses)
<1>1. Init => Shape /\ Courses
    BY ShapeInit, CoursesInit
<1>2. Shape /\ Courses /\ [Next]_vars => Shape' /\ Courses'
    BY ShapeNext, CoursesNext
<1> QED BY <1>1, <1>2, PTL DEF Spec

-----------------------------------------------------------------------------
(* What the rows hold covers what was billed.                              *)

\* A bill that is kept, or copied to be written, is above its reservation.
Above ==
    /\ \A k \in kept : k.tokens > rows[k.id].est
    /\ \A v \in Worker : \A k \in q[v].flush : k.tokens > rows[k.id].est

\* A reservation holds what was reserved, and a settled row what was billed,
\* up to its reservation.
Covers(r) ==
    /\ r.kind = "reservation" => r.tokens = r.est
    /\ r.kind \in Spent => r.tokens >= r.billed \/ r.tokens >= r.est

Covered == \A i \in 1 .. Len(rows) : Covers(rows[i])

\* A step that changes no row but for what was said and billed of a call that
\* is out.
Recorded ==
    /\ Len(rows') = Len(rows)
    /\ \A i \in 1 .. Len(rows) :
          /\ SameTerms(rows'[i], rows[i])
          /\ rows[i].kind # "reservation" => rows'[i].billed = rows[i].billed

\* A step that adds the reservation of thread w.
Granted(w) ==
    /\ AdmitCommit(w) /\ q[w].decision = "grant"
    /\ Len(rows') = Len(rows) + 1
    /\ \A i \in 1 .. Len(rows) : rows'[i] = rows[i]
    /\ rows'[Len(rows) + 1].kind = "reservation"
    /\ rows'[Len(rows) + 1].job = q[w].job
    /\ rows'[Len(rows) + 1].at = q[w].now
    /\ rows'[Len(rows) + 1].tokens = q[w].want
    /\ rows'[Len(rows) + 1].est = q[w].want
    /\ rows'[Len(rows) + 1].said = Silent

\* A step that settles reservation id, for no less than was billed within it.
Paid(id, s) ==
    /\ rows[id].kind = "reservation"
    /\ s.kind = "unknown" \/ s.tokens >= rows[id].billed \/ s.tokens >= rows[id].est
    /\ ~Overran(s, rows[id].est) => Len(rows') = Len(rows)
    /\ Overran(s, rows[id].est) => /\ Len(rows') = Len(rows) + 1
                                   /\ rows'[Len(rows) + 1].kind = "overrun"
    /\ \A i \in 1 .. Len(rows) : i # id => rows'[i] = rows[i]
    /\ rows'[id].kind = s.kind
    /\ rows'[id].tokens = IF s.kind = "unknown" THEN rows[id].tokens ELSE s.tokens
    /\ rows'[id].job = rows[id].job /\ rows'[id].est = rows[id].est
    /\ rows'[id].at = rows[id].at /\ rows'[id].said = rows[id].said
    /\ rows'[id].billed = rows[id].billed

\* A settlement of a reservation at its own instant pays it.
LEMMA PaidRow ==
    ASSUME Shape, NEW id \in 1 .. Len(rows), NEW s \in Settlement,
           rows[id].kind = "reservation", rows' = Settled(rows, id, s, rows[id].at),
           s.kind = "unknown" \/ s.tokens >= rows[id].billed \/ s.tokens >= rows[id].est
    PROVE  Paid(id, s)
<1>1. rows \in Seq(Row) /\ rows[id] \in Row
    BY DEF Shape, TypeOK
<1>2. rows[id].at \in Nat
    BY <1>1 DEF Row
<1> QED BY <1>1, <1>2, SettledRow DEF Paid

\* What an answer settles its reservation to is no less than what was billed.
LEMMA SettlementCovers ==
    ASSUME Shape, NEW w \in Worker, q[w].answer \in Answers(q[w].call),
           NEW b \in Charges(q[w].answer)
    PROVE  SettlementOf(w).kind = "unknown" \/ SettlementOf(w).tokens >= b
<1>1. q[w].answer \in Answer /\ Charges(q[w].answer) \subseteq Nat
    BY AnswersType
<1>2. q[w].answer.type \in {"counted", "completed", "exhausted", "not_sent", "failed"}
    BY RuntimeAssumption DEF Answers, AnswerType
<1>3. CASE q[w].answer.type \in {"exhausted", "not_sent", "counted"}
    <2>1. b = 0
        BY <1>3 DEF Charges
    <2>2. SettlementOf(w) \in Settlement
        BY SettlementType
    <2> QED BY <2>1, <2>2 DEF Settlement
<1>4. CASE q[w].answer.type \in {"failed", "completed"} /\ q[w].answer.usage = Silent
    BY <1>4 DEF SettlementOf, UsageUnknown
<1>5. CASE q[w].answer.type \in {"failed", "completed"} /\ q[w].answer.usage # Silent
    <2>1. b = q[w].answer.usage
        BY <1>5 DEF Charges
    <2>2. SettlementOf(w).tokens = q[w].answer.usage
        BY <1>5 DEF SettlementOf, Usage
    <2> QED BY <1>1, <2>1, <2>2
<1> QED BY <1>2, <1>3, <1>4, <1>5

\* The commit of a settlement pays the reservation of its call.
LEMMA CommitPaid ==
    ASSUME Shape, Courses, NEW w \in Worker, SettleCommit(w)
    PROVE  /\ Paid(q[w].res, SettlementOf(w)) /\ q[w].res \in 1 .. Len(rows)
           /\ SettlementOf(w) \in Settlement
<1>1. pc[w] = "settling"
    BY DEF SettleCommit, At
<1>2. /\ rows[q[w].res].at = q[w].now
      /\ q[w].answer \in Answers(q[w].call) /\ rows[q[w].res].billed \in Charges(q[w].answer)
    BY <1>1 DEF Courses, Course, OwnRow, InFlight, Heard
<1>3. SettlementOf(w).kind = "unknown" \/ SettlementOf(w).tokens >= rows[q[w].res].billed
    BY <1>2, SettlementCovers
<1> QED BY <1>2, <1>3, CommitRow, PaidRow

\* It charges the question what the ledger holds for it.
LEMMA CommitCharges ==
    ASSUME Shape, NEW w \in Worker, SettleCommit(w)
    PROVE  \E n \in Nat : /\ Charge(w, n)
                          /\ n = Holds(SettlementOf(w), rows[q[w].res].est)
<1>1. Charge(w, Holds(SettlementOf(w), rows[q[w].res].est))
    BY DEF SettleCommit
<1>2. Holds(SettlementOf(w), rows[q[w].res].est) \in Nat
    BY SettlementType, FlightFacts, HoldsType DEF SettleCommit, At, InFlight
<1> QED BY <1>1, <1>2

\* A thread that flushes pays a reservation, or leaves the rows alone.
LEMMA FlushPaid ==
    ASSUME Shape, Above, NEW w \in Worker, FlushOne(w), rows' # rows
    PROVE  \E k \in q[w].flush :
              /\ k \in Kept /\ k.id \in 1 .. Len(rows) /\ Paid(k.id, Usage(k.tokens))
              /\ Usage(k.tokens) \in Settlement
              /\ q' = [q EXCEPT ![w] = [q[w] EXCEPT !.flush = @ \ {k},
                                                    !.written = @ \cup {k.id}]]
              /\ kept' = kept
<1>1. PICK k \in q[w].flush :
              /\ k \in Kept /\ k.id \in 1 .. Len(rows)
              /\ Usage(k.tokens) \in Settlement /\ rows[k.id].at \in Nat
              /\ rows' = Settled(rows, k.id, Usage(k.tokens), rows[k.id].at)
              /\ q' = [q EXCEPT ![w] = [q[w] EXCEPT !.flush = @ \ {k},
                                                    !.written = @ \cup {k.id}]]
              /\ kept' = kept
    BY FlushRow
<1>2. rows[k.id].kind = "reservation"
    BY <1>1 DEF Settled
<1>3. k.tokens > rows[k.id].est /\ Usage(k.tokens).tokens = k.tokens
    BY DEF Above, Usage
<1>4. rows[k.id] \in Row
    BY <1>1 DEF Shape, TypeOK
<1>5. Usage(k.tokens).tokens >= rows[k.id].est
    BY <1>1, <1>3, <1>4 DEF Row, Kept
<1>6. Paid(k.id, Usage(k.tokens))
    BY <1>1, <1>2, <1>5, PaidRow
<1> QED BY <1>1, <1>6

\* A start pays the reservation it reconciles.
LEMMA ReconcilePaid ==
    ASSUME Shape, Reconcile
    PROVE  \E id \in 1 .. Len(rows), s \in Settlement : Paid(id, s)
<1> DEFINE id == Min(ToReconcile(rows))
           s  == Usage(rows[id].said)
<1>1. /\ id \in 1 .. Len(rows) /\ rows[id].kind = "reservation"
      /\ s \in Settlement /\ Overran(s, rows[id].est)
      /\ rows' = Settled(rows, id, s, rows[id].at)
    BY ReconcileFacts DEF Reconcile
<1> HIDE DEF id
<1>2. rows[id] \in Row
    BY <1>1 DEF Shape, TypeOK
<1>3. s.tokens >= rows[id].est
    BY <1>1, <1>2 DEF Overran, Row, Settlement
<1> HIDE DEF s
<1>4. Paid(id, s)
    BY <1>1, <1>3, PaidRow
<1> QED BY <1>1, <1>4

\* The record of an exchange settles nothing.
LEMMA ExchangeRecorded ==
    ASSUME Shape, NEW w \in Worker, Exchange(w)
    PROVE  Recorded
<1>1. rows \in Seq(Row) /\ Len(rows) \in Nat
    BY DEF Shape, TypeOK
<1>2. q[w].res \in 1 .. Len(rows) /\ rows[q[w].res].kind = "reservation"
    BY FlightFacts DEF Exchange, At, InFlight
<1>3. PICK row \in Row : /\ rows' = [rows EXCEPT ![q[w].res] = row]
                         /\ SameTerms(row, rows[q[w].res])
    BY ExchangeRow
<1>4. /\ Len(rows') = Len(rows)
      /\ \A i \in 1 .. Len(rows) : rows'[i] = IF i = q[w].res THEN row ELSE rows[i]
    BY <1>1, <1>2, <1>3
<1> QED BY <1>2, <1>3, <1>4 DEF Recorded, SameTerms

\* Every step leaves the rows, reserves one, or pays one.
LEMMA RowsMove ==
    ASSUME Shape, Courses, Above, [Next]_vars
    PROVE  \/ Recorded \/ \E w \in Worker : Granted(w)
           \/ \E id \in 1 .. Len(rows), s \in Settlement : Paid(id, s)
<1>1. rows \in Seq(Row) /\ Len(rows) \in Nat
    BY DEF Shape, TypeOK
<1>2. CASE rows' = rows
    BY <1>2 DEF Recorded, SameTerms
<1>3. ASSUME NEW w \in Worker, Exchange(w) PROVE Recorded
    BY <1>3, ExchangeRecorded
<1>4. ASSUME NEW w \in Worker, AdmitCommit(w), rows' # rows PROVE Granted(w)
    <2>1. q[w].decision = "grant"
        BY <1>4 DEF AdmitCommit
    <2>2. PICK row \in Row :
              /\ rows' = Append(rows, row)
              /\ row.kind = "reservation" /\ row.job = q[w].job /\ row.at = q[w].now
              /\ row.tokens = q[w].want /\ row.est = q[w].want /\ row.said = Silent
        BY <1>4, <2>1, GrantRow
    <2>3. /\ Len(rows') = Len(rows) + 1 /\ rows'[Len(rows) + 1] = row
          /\ \A i \in 1 .. Len(rows) : rows'[i] = rows[i]
        BY <1>1, <2>2
    <2> QED BY <1>4, <2>1, <2>2, <2>3 DEF Granted
<1>5. ASSUME NEW w \in Worker, SettleCommit(w)
      PROVE  \E id \in 1 .. Len(rows), s \in Settlement : Paid(id, s)
    BY <1>5, CommitPaid
<1>6. ASSUME NEW w \in Worker, FlushOne(w), rows' # rows
      PROVE  \E id \in 1 .. Len(rows), s \in Settlement : Paid(id, s)
    BY <1>6, FlushPaid
<1>7. \/ rows' = rows \/ Reconcile
      \/ \E w \in Worker : Exchange(w) \/ AdmitCommit(w) \/ SettleCommit(w) \/ FlushOne(w)
    BY ZenonT(60) DEF Next, Step, Call, FlushCopy, FlushRetain, AdmitBegin, AdmitCheck, AdmitFail, Refused,
       SettleBegin, SettleRefused, Rollback, SettleBusy, AfterCount, BoundTripped,
       AfterCompletion, Ask, Crash, Serve, Tick, Quiescent, store, vars
<1> QED BY <1>2, <1>3, <1>4, <1>5, <1>6, <1>7, ReconcilePaid

\* Every step leaves each row at what was charged for it, or at its estimate.
LEMMA CoveredNext ==
    ASSUME Shape, Courses, Above, Covered, [Next]_vars PROVE Covered'
<1>1. rows \in Seq(Row) /\ rows' \in Seq(Row) /\ Len(rows) \in Nat
    BY RowsStay DEF Shape, TypeOK
<1>2. \A i \in 1 .. Len(rows) : Covers(rows[i]) /\ rows[i] \in Row
    BY <1>1 DEF Covered
<1>3. CASE Recorded
    BY <1>2, <1>3 DEF Recorded, Covered, Covers, SameTerms, Row
<1>4. ASSUME NEW w \in Worker, Granted(w) PROVE Covered'
    <2>1. Covers(rows'[Len(rows) + 1])
        BY <1>4, Typed DEF Granted, Covers
    <2> QED BY <1>1, <1>2, <1>4, <2>1 DEF Granted, Covered
<1>5. ASSUME NEW id \in 1 .. Len(rows), NEW s \in Settlement, Paid(id, s) PROVE Covered'
    <2>1. /\ rows[id].tokens = rows[id].est /\ rows[id].est \in Nat
          /\ s.kind # "reservation" /\ s.tokens \in Nat
        BY <1>2, <1>5 DEF Covers, Paid, Row, Settlement
    <2>2. Covers(rows'[id])
        BY <1>5, <2>1 DEF Covers, Paid
    <2>3. \A i \in 1 .. Len(rows) : Covers(rows'[i])
        BY <1>2, <1>5, <2>2 DEF Paid
    <2>4. CASE Overran(s, rows[id].est)
        <3>1. Covers(rows'[Len(rows) + 1])
            BY <1>5, <2>4 DEF Covers, Paid, Spent
        <3> QED BY <1>1, <1>5, <2>3, <2>4, <3>1 DEF Paid, Covered
    <2>5. CASE ~Overran(s, rows[id].est)
        BY <1>1, <1>5, <2>3, <2>5 DEF Paid, Covered
    <2> QED BY <2>4, <2>5
<1> QED BY <1>3, <1>4, <1>5, RowsMove

\* What a question that ends leaves of it.
LEMMA EndTaken ==
    ASSUME Shape, NEW w \in Worker, NEW o, End(w, q[w], o)
    PROVE  /\ pc'[w] = "done" /\ q'[w].charged = q[w].charged /\ q'[w].mine = q[w].mine
           /\ q'[w].flush = {} /\ q'[w].written = {} /\ q'[w].outcome = o
           /\ q'[w].counting = q[w].counting
<1> DEFINE f   == Fresh(q[w].job, q[w].now, q[w].counting)
           new == [f EXCEPT !.charged = q[w].charged, !.mine = q[w].mine, !.outcome = o]
<1>1. f \in Question /\ f.flush = {} /\ f.written = {} /\ f.counting = q[w].counting
    BY FreshType, Typed DEF Fresh
<1>2. q'[w] = new /\ pc'[w] = "done"
    BY DEF End, Goto, Shape, TypeOK
<1> HIDE DEF f
<1>3. /\ new.charged = q[w].charged /\ new.mine = q[w].mine /\ new.flush = f.flush
      /\ new.written = f.written /\ new.outcome = o /\ new.counting = f.counting
    BY <1>1 DEF Question
<1> HIDE DEF new
<1> QED BY <1>1, <1>2, <1>3

\* The steps of a thread that only read the rows and what is kept.
Reads(w) ==
    \/ Call(w) \/ Refused(w) \/ AfterCount(w) \/ BoundTripped(w) \/ AfterCompletion(w)
    \/ AdmitBegin(w) \/ AdmitCheck(w) \/ AdmitFail(w)

\* They change nothing of what the question reserved, paid and has to write.
LEMMA ReadsTaken ==
    ASSUME Shape, NEW w \in Worker, Reads(w)
    PROVE  /\ rows' = rows /\ kept' = kept
           /\ q'[w].charged = q[w].charged /\ q'[w].mine = q[w].mine
           /\ q'[w].flush \subseteq q[w].flush /\ q'[w].written \subseteq q[w].written
           /\ q'[w].counting = q[w].counting
           /\ pc'[w] \in {"call", "admit", "check", "commit", "refused", "done"}
<1> DEFINE Kind == /\ q'[w].charged = q[w].charged /\ q'[w].mine = q[w].mine
                   /\ q'[w].flush \subseteq q[w].flush /\ q'[w].written \subseteq q[w].written
                   /\ q'[w].counting = q[w].counting
                   /\ pc'[w] \in {"call", "admit", "check", "commit", "refused", "done"}
<1>1. rows' = rows /\ kept' = kept
    BY DEF Reads, Call, Refused, AfterCount, BoundTripped, AfterCompletion, AdmitBegin,
       AdmitCheck, AdmitFail, store, process
<1> SUFFICES Kind
    BY <1>1
<1>2. q \in [Worker -> Question] /\ pc \in [Worker -> PC] /\ q[w] \in Question
    BY DEF Shape, TypeOK
<1>3. CASE \E o : End(w, q[w], o)
    BY <1>3, EndTaken
<1> DEFINE Same(new) == /\ new.charged = q[w].charged /\ new.mine = q[w].mine
                        /\ new.flush = q[w].flush /\ new.written = q[w].written
                        /\ new.counting = q[w].counting
<1>4. CASE ~(\E o : End(w, q[w], o)) /\ (Call(w) \/ Refused(w) \/ AfterCount(w))
    <2>1. CASE Call(w)
        <3>1. PICK cl, n : /\ q' = [q EXCEPT ![w] = Admitting(q[w], cl, n)]
                           /\ pc' = [pc EXCEPT ![w] = "admit"]
            BY <1>4, <2>1 DEF Call, Goto
        <3> DEFINE new == Admitting(q[w], cl, n)
        <3>2. Same(new)
            BY <1>2 DEF Admitting, Question
        <3>3. q'[w] = new /\ pc'[w] = "admit"
            BY <1>2, <3>1
        <3> HIDE DEF new
        <3> QED BY <3>2, <3>3
    <2>2. CASE Refused(w)
        <3> DEFINE new == [Admitting(q[w], "count", q[w].local) EXCEPT !.refusal = q[w].decision]
        <3>1. q'[w] = new /\ pc'[w] = "admit"
            BY <1>2, <1>4, <2>2 DEF Refused, Goto
        <3>2. Same(new)
            BY <1>2 DEF Admitting, Question
        <3> HIDE DEF new
        <3> QED BY <3>1, <3>2
    <2>3. CASE AfterCount(w)
        <3>1. PICK n, o :
                 /\ q' = [q EXCEPT ![w] = [Admitting(q[w], "completion", n) EXCEPT
                                               !.on = o, !.answer = NoAnswer]]
                 /\ pc' = [pc EXCEPT ![w] = "admit"]
            BY <1>4, <2>3 DEF AfterCount, Goto
        <3> DEFINE new == [Admitting(q[w], "completion", n) EXCEPT !.on = o, !.answer = NoAnswer]
        <3>2. Same(new)
            BY <1>2 DEF Admitting, Question
        <3>3. q'[w] = new /\ pc'[w] = "admit"
            BY <1>2, <3>1
        <3> HIDE DEF new
        <3> QED BY <3>2, <3>3
    <2> QED BY <1>4, <2>1, <2>2, <2>3
<1>5. CASE ~(\E o : End(w, q[w], o)) /\ (BoundTripped(w) \/ AfterCompletion(w))
    <2> DEFINE new == Repaired(q[w], q[w].answer.read)
    <2>1. q'[w] = new /\ pc'[w] = "call"
        BY <1>2, <1>5 DEF BoundTripped, AfterCompletion, Goto
    <2>2. /\ new.charged = q[w].charged /\ new.mine = q[w].mine /\ new.flush = q[w].flush
          /\ new.written = q[w].written /\ new.counting = q[w].counting
        BY <1>2, RepairedBody
    <2> HIDE DEF new
    <2> QED BY <2>1, <2>2
<1>6. CASE ~(\E o : End(w, q[w], o)) /\ (AdmitBegin(w) \/ AdmitCheck(w) \/ AdmitFail(w))
    <2>1. PICK d : /\ q'[w] = [q[w] EXCEPT !.decision = d]
                   /\ pc'[w] \in {"check", "commit", "refused"}
        <3>1. CASE AdmitBegin(w)
            <4>1. q'[w] = q[w] /\ pc'[w] = "check"
                BY <1>2, <3>1 DEF AdmitBegin, Goto
            <4>2. q[w] = [q[w] EXCEPT !.decision = q[w].decision]
                BY <1>2 DEF Question
            <4> QED BY <4>1, <4>2
        <3>2. CASE AdmitCheck(w)
            <4>1. PICK d : q' = [q EXCEPT ![w].decision = d]
                BY <3>2 DEF AdmitCheck
            <4>2. pc'[w] = "commit"
                BY <1>2, <3>2 DEF AdmitCheck, Goto
            <4> QED BY <1>2, <4>1, <4>2
        <3>3. CASE AdmitFail(w)
            <4>1. /\ q' = [q EXCEPT ![w].decision = "reservation_overrun"]
                  /\ pc'[w] = "refused"
                BY <1>2, <1>6, <3>3 DEF AdmitFail, Goto
            <4> QED BY <1>2, <4>1
        <3> QED BY <1>6, <3>1, <3>2, <3>3
    <2> DEFINE new == [q[w] EXCEPT !.decision = d]
    <2>2. /\ new.charged = q[w].charged /\ new.mine = q[w].mine /\ new.flush = q[w].flush
          /\ new.written = q[w].written /\ new.counting = q[w].counting
        BY <1>2 DEF Question
    <2> HIDE DEF new
    <2>3. q'[w] = new
        BY <2>1 DEF new
    <2> QED BY <2>1, <2>2, <2>3
<1> HIDE DEF Kind
<1> QED BY <1>3, <1>4, <1>5, <1>6 DEF Reads

\* A grant adds its reservation to the question's own.
LEMMA GrantTaken ==
    ASSUME Shape, NEW w \in Worker, AdmitCommit(w), q[w].decision = "grant"
    PROVE  /\ q'[w].mine = q[w].mine \cup {Len(rows) + 1} /\ q'[w].res = Len(rows) + 1
           /\ q'[w].charged = q[w].charged /\ q'[w].counting = q[w].counting
           /\ q'[w].flush = q[w].flush /\ q'[w].written = q[w].written
           /\ q'[w].held = q[w].held /\ q'[w].call = q[w].call /\ pc'[w] = "send"
           /\ q'[w].repairs = q[w].repairs /\ kept' = kept /\ phase' = "up"
<1>1. q \in [Worker -> Question] /\ pc \in [Worker -> PC] /\ q[w] \in Question
      /\ kept' = kept /\ phase' = "up" /\ Len(rows) + 1 \in Nat
    BY DEF Shape, TypeOK, AdmitCommit, process, At
<1>2. /\ q' = [q EXCEPT ![w] = [q[w] EXCEPT !.res = Len(rows) + 1,
                                            !.mine = @ \cup {Len(rows) + 1}]]
      /\ pc' = [pc EXCEPT ![w] = "send"]
    BY GrantRow
<1> QED BY <1>1, <1>2 DEF Question

\* The record of an answer, and the lock that a settlement takes.
LEMMA CallTaken ==
    ASSUME Shape, NEW w \in Worker, Exchange(w) \/ SettleBegin(w) \/ SettleRefused(w)
    PROVE  /\ q'[w].charged = q[w].charged /\ q'[w].mine = q[w].mine
           /\ q'[w].flush = q[w].flush /\ q'[w].written = q[w].written
           /\ q'[w].res = q[w].res /\ q'[w].counting = q[w].counting
           /\ q'[w].held = q[w].held /\ q'[w].call = q[w].call
<1>1. q \in [Worker -> Question] /\ q[w] \in Question
    BY DEF Shape, TypeOK
<1>2. CASE Exchange(w)
    <2>1. PICK a \in Answers(q[w].call) : q' = [q EXCEPT ![w] = [q[w] EXCEPT !.answer = a]]
        BY <1>2, ExchangeRow
    <2> QED BY <1>1, <2>1 DEF Question
<1>3. CASE SettleBegin(w) \/ SettleRefused(w)
    BY <1>3 DEF SettleBegin, SettleRefused, process
<1> QED BY <1>2, <1>3

\* A thread keeps bills above their reservations only.
LEMMA AboveNext ==
    ASSUME Shape, Above, [Next]_vars PROVE Above'
<1>1. /\ \A i \in 1 .. Len(rows) : rows'[i].est = rows[i].est
      /\ \A k \in kept : k.id \in 1 .. Len(rows)
      /\ \A v \in Worker : \A k \in q[v].flush : k.id \in 1 .. Len(rows)
    BY RowsStay DEF Shape, Keeping, Apart
<1> DEFINE Big(k) == k.id \in 1 .. Len(rows) /\ k.tokens > rows[k.id].est
<1>2. /\ \A k \in kept : Big(k)
      /\ \A v \in Worker : \A k \in q[v].flush : Big(k)
    BY <1>1 DEF Above
<1>3. /\ \A k \in kept' : Big(k)
      /\ \A v \in Worker : \A k \in q'[v].flush : Big(k)
    <2>0. q \in [Worker -> Question] /\ kept \subseteq Kept
        BY DEF Shape, TypeOK
    <2>1. ASSUME NEW w \in Worker, Step(w) \/ \E j \in Job, c \in Countings : Ask(w, j, c)
          PROVE  /\ \A k \in kept' : Big(k)
                 /\ \A k \in q'[w].flush : Big(k)
        <3>1. ASSUME NEW k, NEW tokens, Keep(k, tokens), Big([id |-> k, tokens |-> tokens])
              PROVE  \A m \in kept' : Big(m)
            BY <1>2, <3>1 DEF Keep
        <3>2. CASE SettleRefused(w) \/ SettleBusy(w)
            <4>1. q[w].res \in 1 .. Len(rows)
                BY <3>2, FlightFacts DEF SettleRefused, SettleBusy, At, InFlight
            <4>2. KeepIfOverran(w)
                BY <3>2 DEF SettleRefused, SettleBusy
            <4>3. \A k \in kept' : Big(k)
                <5>1. CASE Overran(SettlementOf(w), rows[q[w].res].est)
                    BY <4>1, <4>2, <5>1, <3>1 DEF KeepIfOverran, Overran
                <5>2. CASE ~Overran(SettlementOf(w), rows[q[w].res].est)
                    BY <1>2, <4>2, <5>2 DEF KeepIfOverran
                <5> QED BY <5>1, <5>2
            <4>4. q'[w].flush = q[w].flush
                <5>1. CASE SettleRefused(w)
                    BY <5>1 DEF SettleRefused
                <5>2. CASE SettleBusy(w)
                    <6>1. PICK n \in Nat : Charge(w, n)
                        BY <5>2, UnsettledFacts DEF SettleBusy, At, InFlight
                    <6> QED BY <6>1, ChargeTaken
                <5> QED BY <3>2, <5>1, <5>2
            <4> QED BY <1>2, <4>3, <4>4
        <3>3. CASE FlushOne(w)
            <4>1. PICK k \in q[w].flush :
                 \/ /\ q' = [q EXCEPT ![w] = [q[w] EXCEPT !.flush = @ \ {k},
                                                          !.written = @ \cup {k.id}]]
                    /\ kept' = kept
                 \/ /\ Keep(k.id, k.tokens)
                    /\ q' = [q EXCEPT ![w] = [q[w] EXCEPT !.flush = @ \ {k}]]
                BY <3>3, FlushRow
            <4>2. q'[w].flush \subseteq q[w].flush
                <5> DEFINE put   == [q[w] EXCEPT !.flush = @ \ {k}, !.written = @ \cup {k.id}]
                           saved == [q[w] EXCEPT !.flush = @ \ {k}]
                <5>1. put.flush = q[w].flush \ {k} /\ saved.flush = q[w].flush \ {k}
                    BY <2>0 DEF Question
                <5>2. q'[w] = put \/ q'[w] = saved
                    BY <2>0, <4>1
                <5> HIDE DEF put, saved
                <5> QED BY <5>1, <5>2
            <4>3. \A m \in kept' : Big(m)
                BY <1>2, <4>1, <3>1
            <4> QED BY <1>2, <4>2, <4>3
        <3>4. CASE FlushCopy(w) \/ FlushRetain(w)
            <4>1. kept' \subseteq kept /\ q'[w].flush \subseteq kept \cup q[w].flush
                BY <2>0, <3>4 DEF FlushCopy, FlushRetain, Question, process
            <4> QED BY <1>2, <4>1
        <3>5. CASE ~(SettleRefused(w) \/ SettleBusy(w) \/ FlushOne(w) \/ FlushCopy(w)
                     \/ FlushRetain(w))
            <4>1. kept' = kept
                BY <2>1, <3>5 DEF Step, Call, AdmitBegin, AdmitCheck, AdmitCommit, AdmitFail,
                   Refused, Exchange, SettleBegin, SettleCommit, Rollback, AfterCount,
                   BoundTripped, AfterCompletion, Ask, process
            <4>2. q'[w].flush \subseteq q[w].flush
                <5>1. CASE Reads(w)
                    BY <5>1, ReadsTaken
                <5>2. CASE Exchange(w) \/ SettleBegin(w)
                    BY <5>2, CallTaken
                <5>3. CASE AdmitCommit(w)
                    <6>1. CASE q[w].decision # "grant"
                        BY <5>3, <6>1 DEF AdmitCommit
                    <6>2. CASE q[w].decision = "grant"
                        BY <5>3, <6>2, GrantTaken
                    <6> QED BY <6>1, <6>2
                <5>4. CASE SettleCommit(w)
                    <6>1. PICK n \in Nat : Charge(w, n)
                        BY <5>4, CommitCharges
                    <6> QED BY <6>1, ChargeTaken
                <5>5. CASE Rollback(w)
                    <6>1. PICK n \in Nat : Charge(w, n)
                        BY <5>5, UnsettledFacts DEF Rollback, At
                    <6> QED BY <6>1, ChargeTaken
                <5>6. CASE \E j \in Job, c \in Countings : Ask(w, j, c)
                    <6>1. PICK j \in Job, c \in Countings : Ask(w, j, c)
                        BY <5>6
                    <6>2. q'[w] = Fresh(j, clock, c)
                        BY <2>0, <6>1 DEF Ask
                    <6> QED BY <6>2 DEF Fresh
                <5> QED BY <2>1, <3>5, <5>1, <5>2, <5>3, <5>4, <5>5, <5>6 DEF Step, Reads
            <4> QED BY <1>2, <4>1, <4>2
        <3> QED BY <3>2, <3>3, <3>4, <3>5
    <2>2. CASE Crash
        BY <2>2, FreshType, AnyJobType, RuntimeAssumption DEF Crash, Fresh
    <2>3. CASE Reconcile \/ Serve \/ Tick \/ UNCHANGED vars
        BY <1>2, <2>3 DEF Reconcile, Serve, Tick, vars, process
    <2> QED BY <1>2, <2>1, <2>2, <2>3, OthersStay DEF Next, Quiescent
<1> QED BY <1>1, <1>3 DEF Above

\* The rows that stop the store, and the bills that they stand for.
Stopping == {i \in DOMAIN rows : rows[i].kind = "overrun"}

Exceeding == {i \in DOMAIN rows : rows[i].kind = "usage" /\ rows[i].tokens > rows[i].est}

\* The rows are the numbers up to their length, and finitely many.
LEMMA RowsFinite ==
    ASSUME NEW r \in Seq(Row)
    PROVE  /\ DOMAIN r = 1 .. Len(r) /\ Len(r) \in Nat /\ IsFiniteSet(DOMAIN r)
           /\ \A i \in 1 .. Len(r) : r[i] \in Row
  BY FS_Interval

\* A settlement above its reservation adds one of each, and nothing else does.
LEMMA StopsNext ==
    ASSUME Shape, Courses, Above, OverrunRowPerBill, [Next]_vars
    PROVE  OverrunRowPerBill'
<1>1. /\ rows \in Seq(Row) /\ rows' \in Seq(Row) /\ Len(rows) \in Nat
      /\ DOMAIN rows = 1 .. Len(rows) /\ DOMAIN rows' = 1 .. Len(rows')
      /\ IsFiniteSet(DOMAIN rows)
    BY RowsStay, RowsFinite DEF Shape, TypeOK
<1>2. /\ Cardinality(Stopping) = Cardinality(Exceeding)
      /\ IsFiniteSet(Stopping) /\ IsFiniteSet(Exceeding)
    BY <1>1, FS_Subset DEF OverrunRowPerBill, Stopping, Exceeding
<1>3. CASE Stopping' = Stopping /\ Exceeding' = Exceeding
    BY <1>2, <1>3 DEF OverrunRowPerBill, Stopping, Exceeding
<1>4. CASE \E x, y : /\ x \notin Stopping /\ Stopping' = Stopping \cup {x}
                     /\ y \notin Exceeding /\ Exceeding' = Exceeding \cup {y}
    <2>1. PICK x, y : /\ x \notin Stopping /\ Stopping' = Stopping \cup {x}
                      /\ y \notin Exceeding /\ Exceeding' = Exceeding \cup {y}
        BY <1>4
    <2>2. Cardinality(Stopping') = Cardinality(Exceeding')
        <3>1. Cardinality(Stopping \cup {x}) = Cardinality(Stopping) + 1
            BY <1>2, <2>1, FS_AddElement
        <3>2. Cardinality(Exceeding \cup {y}) = Cardinality(Exceeding) + 1
            BY <1>2, <2>1, FS_AddElement
        <3> QED BY <1>2, <2>1, <3>1, <3>2
    <2> QED BY <2>2 DEF OverrunRowPerBill, Stopping, Exceeding
<1>5. CASE Recorded
    <2>1. Stopping' = Stopping /\ Exceeding' = Exceeding
        BY <1>1, <1>5 DEF Recorded, SameTerms, Stopping, Exceeding
    <2> QED BY <1>3, <2>1
<1>6. ASSUME NEW w \in Worker, Granted(w) PROVE OverrunRowPerBill'
    <2>1. DOMAIN rows' = DOMAIN rows \cup {Len(rows) + 1} /\ Len(rows) + 1 \notin DOMAIN rows
        BY <1>1, <1>6 DEF Granted
    <2>2. Stopping' = Stopping /\ Exceeding' = Exceeding
        BY <1>1, <1>6, <2>1 DEF Granted, Stopping, Exceeding
    <2> QED BY <1>3, <2>2
<1>7. ASSUME NEW id \in 1 .. Len(rows), NEW s \in Settlement, Paid(id, s)
      PROVE  OverrunRowPerBill'
    <2>1. id \notin Stopping /\ id \notin Exceeding /\ s.kind # "overrun"
        BY <1>7 DEF Paid, Stopping, Exceeding, Settlement
    <2>2. CASE Overran(s, rows[id].est)
        <3>1. /\ DOMAIN rows' = DOMAIN rows \cup {Len(rows) + 1}
              /\ Len(rows) + 1 \notin DOMAIN rows
            BY <1>1, <1>7, <2>2 DEF Paid
        <3>2. Stopping' = Stopping \cup {Len(rows) + 1}
            BY <1>1, <1>7, <2>1, <2>2, <3>1 DEF Paid, Stopping
        <3>3. Exceeding' = Exceeding \cup {id}
            BY <1>1, <1>7, <2>1, <2>2, <3>1 DEF Paid, Exceeding, Overran
        <3>4. Len(rows) + 1 \notin Stopping
            BY <3>1 DEF Stopping
        <3> QED BY <1>4, <2>1, <3>2, <3>3, <3>4
    <2>3. CASE ~Overran(s, rows[id].est)
        <3>1. DOMAIN rows' = DOMAIN rows
            BY <1>1, <1>7, <2>3 DEF Paid
        <3>2. Stopping' = Stopping
            BY <1>1, <1>7, <2>1, <3>1 DEF Paid, Stopping
        <3>3. Exceeding' = Exceeding
            BY <1>1, <1>7, <2>1, <2>3, <3>1 DEF Paid, Exceeding, Overran
        <3> QED BY <1>3, <3>2, <3>3
    <2> QED BY <2>2, <2>3
<1> QED BY <1>5, <1>6, <1>7, RowsMove

\* What the ledger has to account for.
Accounts == Shape /\ Courses /\ Above /\ Covered

\* The empty ledger is in order.
LEMMA AccountsInit == Init => Accounts /\ OverrunRowPerBill
<1> SUFFICES ASSUME Init PROVE Accounts /\ OverrunRowPerBill
    OBVIOUS
<1>1. rows = <<>> /\ kept = {} /\ \A w \in Worker : q[w].flush = {}
    BY DEF Init, Fresh
<1>2. Above /\ Covered
    BY <1>1 DEF Above, Covered
<1>3. OverrunRowPerBill
    BY <1>1 DEF OverrunRowPerBill
<1> QED BY <1>2, <1>3, ShapeInit, CoursesInit DEF Accounts

\* Every step leaves the ledger in order.
LEMMA AccountsNext ==
    ASSUME Accounts, [Next]_vars PROVE Accounts'
  BY ShapeNext, CoursesNext, AboveNext, CoveredNext DEF Accounts

\* The ledger is in order: types, the course of each call, what is kept, and
\* what each row stands at (Shape, Courses, Above, Covered).
THEOREM AccountsHold == Spec => []Accounts
<1>1. Init => Accounts
    BY AccountsInit
<1>2. Accounts /\ [Next]_vars => Accounts'
    BY AccountsNext
<1> QED BY <1>1, <1>2, PTL DEF Spec

\* No spend is forgotten (admit writes before the send, UsageUnknown keeps the
\* estimate): a reserved call counts for what was really charged, up to its
\* reservation, through silence, failure, refused writes and kills.
THEOREM SpendIsCounted == Spec => []SpendCounted
<1>1. ASSUME Accounts PROVE SpendCounted
    <2>1. rows \in Seq(Row)
        BY <1>1 DEF Accounts, Shape, TypeOK
    <2>2. ASSUME NEW i \in DOMAIN rows, rows[i].kind \in Spent
          PROVE  rows[i].tokens >= Min({rows[i].billed, rows[i].est})
        <3>1. /\ rows[i].tokens \in Nat /\ rows[i].billed \in Nat /\ rows[i].est \in Nat
              /\ rows[i].tokens >= rows[i].billed \/ rows[i].tokens >= rows[i].est
            <4>1. rows[i] \in Row /\ Covers(rows[i])
                BY <1>1, <2>1, RowsFinite DEF Accounts, Covered
            <4> QED BY <2>2, <4>1 DEF Covers, Row
        <3>2. /\ Min({rows[i].billed, rows[i].est}) \in Nat
              /\ Min({rows[i].billed, rows[i].est}) <= rows[i].billed
              /\ Min({rows[i].billed, rows[i].est}) <= rows[i].est
            BY <3>1, MinOfPair
        <3> QED BY <3>1, <3>2
    <2> QED BY <2>2 DEF SpendCounted
<1>2. Accounts => SpendCounted
    BY <1>1
<1> QED BY <1>2, AccountsHold, PTL

\* A settlement lands once, and its overrun with it (settle_locked): there is
\* one overrun row for each settled bill above its reservation, and no other,
\* however many threads write the same kept settlement.
THEOREM OverrunsAreRecorded == Spec => []OverrunRowPerBill
<1>1. Init => Accounts /\ OverrunRowPerBill
    BY AccountsInit
<1>2. Accounts /\ OverrunRowPerBill /\ [Next]_vars => OverrunRowPerBill'
    BY StopsNext DEF Accounts
<1> QED BY <1>1, <1>2, AccountsHold, PTL DEF Spec

-----------------------------------------------------------------------------
(* The envelope: sums over the rows that count for it.                     *)

\* Rows that count as spend, of the jobs and the instants in K.
Class(K) == {i \in SpentRows(rows) : <<rows[i].job, rows[i].at>> \in K}

\* What they hold, and what they hold within their reservations.
Spend(K) == SumTokens(rows, Class(K))

HeldBy(K) == SumWithin(Class(K))

JobKey(j) == {j} \X Nat
WindowKey(t) == Job \X {a \in Nat : t - WindowLen < a /\ a <= t}
SinceKey(t) == Job \X {a \in Nat : a > t - WindowLen}
MonthKey(t) == Job \X {a \in Nat : MonthOf(a) = MonthOf(t)}
RunKey == Job \X Nat

Terms(r) == [i \in DOMAIN r |-> r[i].tokens]

\* A row's terms are naturals, and it holds no more within its reservation.
LEMMA RowTerms ==
    ASSUME rows \in Seq(Row), NEW i \in DOMAIN rows
    PROVE  /\ Terms(rows)[i] = rows[i].tokens /\ rows[i].tokens \in Nat /\ rows[i].est \in Nat
           /\ Within[i] = Min({rows[i].tokens, rows[i].est})
           /\ Within[i] \in Nat /\ Within[i] <= rows[i].tokens /\ Within[i] <= rows[i].est
           /\ rows[i].job \in Job /\ rows[i].at \in Nat
<1>1. rows[i] \in Row
    BY RowsFinite
<1>2. rows[i].tokens \in Nat /\ rows[i].est \in Nat /\ rows[i].job \in Job /\ rows[i].at \in Nat
    BY <1>1 DEF Row
<1>3. Terms(rows)[i] = rows[i].tokens /\ Within[i] = Min({rows[i].tokens, rows[i].est})
    BY DEF Terms, Within
<1> QED BY <1>2, <1>3, MinOfPair

\* Any rows are finitely many, and their sums are naturals.
LEMMA ClassFacts ==
    ASSUME rows \in Seq(Row), NEW S \in SUBSET DOMAIN rows
    PROVE  /\ IsFiniteSet(S)
           /\ Numbers(Within, S) /\ Numbers(Terms(rows), S)
           /\ SumWithin(S) \in Nat /\ SumTokens(rows, S) \in Nat
           /\ SumTokens(rows, S) = SumFunctionOnSet(Terms(rows), S)
           /\ SumWithin(S) <= SumTokens(rows, S)
<1>1. IsFiniteSet(S)
    BY RowsFinite, FS_Subset
<1>2. \A i \in S : Within[i] \in Nat /\ Terms(rows)[i] \in Nat /\ Within[i] <= Terms(rows)[i]
    BY RowTerms
<1>3. Numbers(Within, S) /\ Numbers(Terms(rows), S)
    BY <1>2 DEF Numbers
<1>4. SumTokens(rows, S) = SumFunctionOnSet(Terms(rows), S)
    BY DEF SumTokens, Terms
<1>5. SumFunctionOnSet(Within, S) \in Nat /\ SumFunctionOnSet(Terms(rows), S) \in Nat
    BY <1>1, <1>2, SumSubset
<1>6. SumFunctionOnSet(Within, S) <= SumFunctionOnSet(Terms(rows), S)
    BY <1>1, <1>2, <1>3, SumMonotone
<1> QED BY <1>1, <1>3, <1>4, <1>5, <1>6 DEF SumWithin

\* The rows of a class are rows.
LEMMA ClassRows ==
    ASSUME NEW K PROVE Class(K) \in SUBSET DOMAIN rows
  BY DEF Class, SpentRows

\* The spend of a job, a window, a month and a run are sums over classes.
LEMMA SpendKeys ==
    ASSUME rows \in Seq(Row)
    PROVE  /\ \A j \in Job : JobSpend(rows, j) = Spend(JobKey(j)) /\ OfJob(j) = Class(JobKey(j))
           /\ \A t \in Nat : /\ WindowSpend(rows, t) = Spend(SinceKey(t))
                             /\ InWindow(t) = Class(WindowKey(t))
                             /\ MonthSpend(rows, t) = Spend(MonthKey(t))
                             /\ InMonth(t) = Class(MonthKey(t))
           /\ RunSpend(rows) = Spend(RunKey) /\ SpentRows(rows) = Class(RunKey)
<1>1. \A i \in SpentRows(rows) : rows[i].job \in Job /\ rows[i].at \in Nat
    BY RowTerms DEF SpentRows
<1>2. ASSUME NEW j \in Job
      PROVE  JobSpend(rows, j) = Spend(JobKey(j)) /\ OfJob(j) = Class(JobKey(j))
    <2>1. OfJob(j) = Class(JobKey(j))
        BY <1>1 DEF OfJob, Class, JobKey
    <2> QED BY <2>1 DEF JobSpend, Spend, OfJob
<1>3. ASSUME NEW t \in Nat
      PROVE  /\ WindowSpend(rows, t) = Spend(SinceKey(t))
             /\ InWindow(t) = Class(WindowKey(t))
             /\ MonthSpend(rows, t) = Spend(MonthKey(t))
             /\ InMonth(t) = Class(MonthKey(t))
    <2>1. InWindow(t) = Class(WindowKey(t)) /\ InMonth(t) = Class(MonthKey(t))
        BY <1>1 DEF InWindow, InMonth, Class, WindowKey, MonthKey
    <2>2. {i \in SpentRows(rows) : rows[i].at > t - WindowLen} = Class(SinceKey(t))
        BY <1>1 DEF Class, SinceKey
    <2> QED BY <2>1, <2>2 DEF WindowSpend, MonthSpend, Spend, InMonth
<1>4. RunSpend(rows) = Spend(RunKey) /\ SpentRows(rows) = Class(RunKey)
    <2>1. SpentRows(rows) = Class(RunKey)
        BY <1>1 DEF Class, RunKey
    <2> QED BY <2>1 DEF RunSpend, Spend
<1> QED BY <1>2, <1>3, <1>4

\* A step that keeps the terms of all rows keeps every sum.
LEMMA SpendRecorded ==
    ASSUME rows \in Seq(Row), rows' \in Seq(Row), Recorded, NEW K
    PROVE  Spend(K)' = Spend(K) /\ HeldBy(K)' = HeldBy(K)
<1>1. DOMAIN rows' = DOMAIN rows /\ \A i \in DOMAIN rows : SameTerms(rows'[i], rows[i])
    BY RowsFinite DEF Recorded
<1>2. Class(K)' = Class(K)
    BY <1>1 DEF Class, SpentRows, SameTerms
<1>3. Terms(rows)' = Terms(rows) /\ Within' = Within
    BY <1>1 DEF Terms, Within, SameTerms
<1> QED BY <1>2, <1>3 DEF Spend, HeldBy, SumTokens, SumWithin, Terms

\* A settlement lets no class hold more within its reservations.
LEMMA HeldPaid ==
    ASSUME rows \in Seq(Row), rows' \in Seq(Row), Covered,
           NEW id \in 1 .. Len(rows), NEW s \in Settlement, Paid(id, s), NEW K
    PROVE  HeldBy(K)' <= HeldBy(K)
<1>1. DOMAIN rows = 1 .. Len(rows) /\ DOMAIN rows' = 1 .. Len(rows') /\ Len(rows) \in Nat
    BY RowsFinite
<1>2. /\ 1 .. Len(rows) \subseteq 1 .. Len(rows')
      /\ \A i \in 1 .. Len(rows') : i \in 1 .. Len(rows) \/ rows'[i].kind \notin Spent
    <2>1. CASE Overran(s, rows[id].est)
        <3>1. Len(rows') = Len(rows) + 1 /\ rows'[Len(rows) + 1].kind = "overrun"
            BY <2>1 DEF Paid
        <3>2. rows'[Len(rows) + 1].kind \notin Spent
            BY <3>1 DEF Spent
        <3>3. 1 .. Len(rows') = 1 .. Len(rows) \cup {Len(rows) + 1}
            BY <1>1, <3>1
        <3> QED BY <3>2, <3>3
    <2>2. CASE ~Overran(s, rows[id].est)
        <3>1. Len(rows') = Len(rows)
            BY <2>2 DEF Paid
        <3> QED BY <1>1, <3>1
    <2> QED BY <2>1, <2>2
<1>3. \A i \in 1 .. Len(rows) :
         /\ rows'[i].kind \in Spent <=> rows[i].kind \in Spent
         /\ rows'[i].job = rows[i].job /\ rows'[i].at = rows[i].at
    BY DEF Paid, Spent, Settlement
<1>4. Class(K)' = Class(K)
    <2>1. \A i \in DOMAIN rows' : i \in 1 .. Len(rows) \/ rows'[i].kind \notin Spent
        BY <1>1, <1>2
    <2>2. DOMAIN rows \subseteq DOMAIN rows'
        BY <1>1, <1>2
    <2> QED BY <1>1, <1>3, <2>1, <2>2 DEF Class, SpentRows
<1>5. \A i \in Class(K) : Within'[i] <= Within[i]
    <2>1. Within[id] = rows[id].est
        <3>1. rows[id].tokens = rows[id].est /\ rows[id].est \in Nat
            BY <1>1, RowTerms DEF Paid, Covered, Covers
        <3>2. {rows[id].tokens, rows[id].est} \in SUBSET Nat
              /\ {rows[id].tokens, rows[id].est} # {}
            BY <3>1
        <3>3. Min({rows[id].tokens, rows[id].est}) = rows[id].est
            BY <3>1, <3>2, MinOfNaturals
        <3> QED BY <1>1, <3>3 DEF Within
    <2>2. Within'[id] <= rows[id].est
        <3>1. id \in DOMAIN rows' /\ rows'[id].est = rows[id].est
            BY <1>1, <1>2 DEF Paid
        <3>2. rows'[id] \in Row
            BY <1>1, <3>1
        <3>3. rows'[id].tokens \in Nat /\ rows'[id].est \in Nat
            BY <3>2 DEF Row
        <3>4. Within'[id] = Min({rows'[id].tokens, rows'[id].est})
            BY <3>1 DEF Within
        <3> QED BY <3>1, <3>3, <3>4, MinOfPair
    <2>3. \A i \in 1 .. Len(rows) : i # id => Within'[i] = Within[i]
        BY <1>1, <1>2 DEF Paid, Within
    <2>4. \A i \in Class(K) : Within[i] \in Nat
        BY ClassRows, RowTerms
    <2>5. Class(K) \subseteq 1 .. Len(rows)
        BY <1>1, ClassRows
    <2> QED BY <2>1, <2>2, <2>3, <2>4, <2>5
<1>6. IsFiniteSet(Class(K)) /\ Numbers(Within, Class(K)) /\ Numbers(Within', Class(K))
    <2>1. Class(K) \in SUBSET DOMAIN rows /\ DOMAIN rows \subseteq DOMAIN rows'
        BY <1>1, <1>2, ClassRows
    <2>2. ASSUME NEW i \in Class(K) PROVE Within'[i] \in Int
        <3>1. i \in DOMAIN rows' /\ rows'[i] \in Row
            BY <1>1, <2>1
        <3>2. Within'[i] = Min({rows'[i].tokens, rows'[i].est})
            BY <3>1 DEF Within
        <3>3. rows'[i].tokens \in Nat /\ rows'[i].est \in Nat
            BY <3>1 DEF Row
        <3>4. Min({rows'[i].tokens, rows'[i].est}) \in Nat
            BY <3>3, MinOfPair
        <3> QED BY <3>2, <3>4
    <2> QED BY <2>1, <2>2, ClassFacts DEF Numbers
<1>7. SumFunctionOnSet(Within', Class(K)) <= SumFunctionOnSet(Within, Class(K))
    BY <1>5, <1>6, SumMonotone
<1> QED BY <1>4, <1>7 DEF HeldBy, SumWithin

\* A grant adds its figure to the classes that it belongs to.
LEMMA HeldGranted ==
    ASSUME rows \in Seq(Row), rows' \in Seq(Row), NEW w \in Worker, Granted(w),
           q[w].want \in Nat, NEW K
    PROVE  /\ <<q[w].job, q[w].now>> \notin K => HeldBy(K)' = HeldBy(K)
           /\ <<q[w].job, q[w].now>> \in K => HeldBy(K)' = HeldBy(K) + q[w].want
<1> DEFINE n == Len(rows) + 1
<1>1. /\ DOMAIN rows = 1 .. Len(rows) /\ DOMAIN rows' = DOMAIN rows \cup {n}
      /\ n \notin DOMAIN rows /\ rows'[n].kind \in Spent
    BY RowsFinite DEF Granted, Spent
<1>2. \A i \in DOMAIN rows : rows'[i] = rows[i]
    BY <1>1 DEF Granted
<1>3. Class(K)' = IF <<q[w].job, q[w].now>> \in K THEN Class(K) \cup {n} ELSE Class(K)
    <2>1. <<rows'[n].job, rows'[n].at>> = <<q[w].job, q[w].now>>
        BY DEF Granted
    <2> HIDE DEF n
    <2> QED BY <1>1, <1>2, <2>1 DEF Class, SpentRows
<1>4. Within'[n] = q[w].want /\ \A i \in DOMAIN rows : Within'[i] = Within[i]
    <2>1. Min({q[w].want, q[w].want}) = q[w].want
        <3>1. {q[w].want} \in SUBSET Nat /\ {q[w].want} # {} /\ {q[w].want, q[w].want} = {q[w].want}
            OBVIOUS
        <3> QED BY <3>1, MinOfNaturals
    <2>2. Within'[n] = Min({rows'[n].tokens, rows'[n].est})
        BY <1>1 DEF Within
    <2>3. rows'[n].tokens = q[w].want /\ rows'[n].est = q[w].want
        BY DEF Granted
    <2> HIDE DEF n
    <2>4. \A i \in DOMAIN rows : Within'[i] = Within[i]
        BY <1>1, <1>2 DEF Within
    <2> QED BY <2>1, <2>2, <2>3, <2>4
<1>5. /\ Class(K) \in SUBSET DOMAIN rows /\ IsFiniteSet(Class(K)) /\ n \notin Class(K)
      /\ Numbers(Within, Class(K))
    BY <1>1, ClassRows, ClassFacts
<1> HIDE DEF n
<1>6. SumFunctionOnSet(Within', Class(K)) = SumFunctionOnSet(Within, Class(K))
    <2>1. \A i \in Class(K) : Within[i] = Within'[i]
        BY <1>4, <1>5
    <2> QED BY <1>5, <2>1, SumSame
<1>7. Numbers(Within', Class(K) \cup {n})
    <2>1. \A i \in Class(K) : Within'[i] = Within[i]
        BY <1>4, <1>5
    <2> QED BY <1>4, <1>5, <2>1 DEF Numbers
<1>8. SumFunctionOnSet(Within', Class(K) \cup {n}) =
      q[w].want + SumFunctionOnSet(Within', Class(K))
    BY <1>4, <1>5, <1>7, SumAdds
<1>9. SumFunctionOnSet(Within, Class(K)) \in Int
    BY <1>5, SumType
<1> QED BY <1>3, <1>6, <1>8, <1>9 DEF HeldBy, SumWithin

\* A thread whose grant waits to commit has its figure fit under the lock.
Fits(w) ==
    pc[w] = "commit" /\ q[w].decision = "grant" =>
        /\ Spend(JobKey(q[w].job)) + q[w].want <= PerJob
        /\ Spend(SinceKey(q[w].now)) + q[w].want <= WindowTokens
        /\ Spend(MonthKey(q[w].now)) + q[w].want <= MonthTokens
        /\ RunCeiling # NoCeiling => Spend(RunKey) + q[w].want <= RunCeiling

Fit == \A w \in Worker : Fits(w)

\* The envelope, of every instant there will be.
Envelope ==
    /\ \A j \in Job : HeldBy(JobKey(j)) <= PerJob
    /\ \A t \in Nat : /\ HeldBy(WindowKey(t)) <= WindowTokens
                      /\ HeldBy(MonthKey(t)) <= MonthTokens
    /\ RunCeiling # NoCeiling => HeldBy(RunKey) <= RunCeiling

\* What a grant means: no ceiling is passed.
LEMMA GrantMeansFits ==
    ASSUME NEW r, NEW n, NEW h, NEW t, NEW j, NEW e,
           AdmitDecision(r, n, h, t, j, e) = "grant"
    PROVE  /\ ~(JobSpend(r, j) + e > PerJob) /\ ~(WindowSpend(r, t) + e > WindowTokens)
           /\ ~(MonthSpend(r, t) + e > MonthTokens)
           /\ ~(RunCeiling # NoCeiling /\ RunSpend(r) + e > RunCeiling)
<1> DEFINE holds == RefusalHolds(r, n, h, t, j, e)
           found == {i \in DOMAIN RefusalOrder : holds[RefusalOrder[i]]}
<1>1. found = {}
    <2> SUFFICES ASSUME found # {} PROVE FALSE
        OBVIOUS
    <2>1. found \in SUBSET Nat /\ found \subseteq DOMAIN RefusalOrder
        BY DEF RefusalOrder
    <2>2. Min(found) \in DOMAIN RefusalOrder
        BY <2>1, MinOfNaturals
    <2>3. AdmitDecision(r, n, h, t, j, e) = RefusalOrder[Min(found)]
        BY DEF AdmitDecision
    <2> QED BY <2>2, <2>3 DEF RefusalOrder
<1>2. /\ \A i \in {4, 5, 6, 7} : i \in DOMAIN RefusalOrder
      /\ RefusalOrder[4] = "job" /\ RefusalOrder[5] = "window"
      /\ RefusalOrder[6] = "month" /\ RefusalOrder[7] = "run"
    BY DEF RefusalOrder
<1>3. ~holds["job"] /\ ~holds["window"] /\ ~holds["month"] /\ ~holds["run"]
    BY <1>1, <1>2
<1>4. /\ holds["job"] = (JobSpend(r, j) + e > PerJob)
      /\ holds["window"] = (WindowSpend(r, t) + e > WindowTokens)
      /\ holds["month"] = (MonthSpend(r, t) + e > MonthTokens)
      /\ holds["run"] = (RunCeiling # NoCeiling /\ RunSpend(r) + e > RunCeiling)
    BY DEF RefusalHolds
<1> HIDE DEF holds
<1> QED BY <1>3, <1>4

\* While a thread is in its transaction, no other changes a row's terms.
LEMMA LockedRows ==
    ASSUME Shape, Courses, [Next]_vars, NEW w \in Worker, pc[w] \in Holding, pc'[w] = pc[w]
    PROVE  Recorded
<1>1. rows \in Seq(Row) /\ Len(rows) \in Nat /\ pc \in [Worker -> PC]
    BY DEF Shape, TypeOK
<1>2. lock = w /\ w # NoWorker /\ pc[w] # "idle"
    BY RuntimeAssumption DEF Courses, Course, HasLock, Holding
<1>3. CASE rows' = rows
    BY <1>3 DEF Recorded, SameTerms
<1>4. ASSUME NEW v \in Worker, Exchange(v) PROVE Recorded
    BY <1>4, ExchangeRecorded
<1>5. ~Reconcile
    BY <1>2 DEF Reconcile, Shape, Flight
<1>6. ASSUME NEW v \in Worker, AdmitCommit(v) \/ SettleCommit(v) PROVE FALSE
    <2>1. pc[v] \in {"commit", "settling"}
        BY <1>6 DEF AdmitCommit, SettleCommit, At
    <2>2. v = w
        BY <1>2, <2>1 DEF Courses, Course, HasLock, Holding
    <2>3. pc'[v] # pc[v]
        BY <1>1, <1>6, <2>1 DEF AdmitCommit, SettleCommit, Charge, Goto, At
    <2> QED BY <2>2, <2>3
<1>7. ASSUME NEW v \in Worker, FlushOne(v), rows' # rows PROVE FALSE
    BY <1>2, <1>7 DEF FlushOne
<1>8. \/ rows' = rows \/ Reconcile
      \/ \E v \in Worker : Exchange(v) \/ AdmitCommit(v) \/ SettleCommit(v) \/ FlushOne(v)
    BY ZenonT(60) DEF Next, Step, Call, FlushCopy, FlushRetain, AdmitBegin, AdmitCheck, AdmitFail, Refused,
       SettleBegin, SettleRefused, Rollback, SettleBusy, AfterCount, BoundTripped,
       AfterCompletion, Ask, Crash, Serve, Tick, Quiescent, store, vars
<1> QED BY <1>3, <1>4, <1>5, <1>6, <1>7, <1>8

\* A thread waits to commit when it has read the ledger, and as it did before.
LEMMA OnlyAdmitWaits ==
    ASSUME Shape, [Next]_vars, NEW w \in Worker, pc'[w] = "commit"
    PROVE  AdmitCheck(w) \/ (pc[w] = "commit" /\ q'[w] = q[w])
<1>1. q \in [Worker -> Question] /\ pc \in [Worker -> PC]
    BY DEF Shape, TypeOK
<1>2. CASE Step(w)
    BY <1>1, <1>2 DEF Step, Call, FlushCopy, FlushOne, FlushRetain, AdmitBegin, AdmitCommit,
       AdmitFail, Refused, Exchange, SettleBegin, SettleCommit, SettleRefused,
       Rollback, SettleBusy, AfterCount, BoundTripped, AfterCompletion, At,
       Charge, Unsettled, End, Goto
<1>3. CASE \E j \in Job, c \in Countings : Ask(w, j, c)
    BY <1>1, <1>3 DEF Ask, Goto
<1>4. ASSUME NEW v \in Worker \ {w},
             Step(v) \/ \E j \in Job, c \in Countings : Ask(v, j, c)
      PROVE  pc[w] = "commit" /\ q'[w] = q[w]
    BY <1>4, OthersStay
<1>5. CASE Crash
    BY <1>5 DEF Crash
<1>6. CASE Reconcile \/ Serve \/ Tick \/ UNCHANGED vars
    BY <1>6 DEF Reconcile, Serve, Tick, vars, process
<1> QED BY <1>2, <1>3, <1>4, <1>5, <1>6 DEF Next, Quiescent

\* What was read under the lock holds until the commit.
LEMMA FitNext ==
    ASSUME Accounts, Fit, [Next]_vars PROVE Fit'
<1>1. /\ Shape /\ Courses /\ Above
      /\ rows \in Seq(Row) /\ rows' \in Seq(Row) /\ q \in [Worker -> Question]
    BY RowsStay DEF Accounts, Shape, TypeOK
<1>2. ASSUME NEW w \in Worker, pc'[w] = "commit" /\ q'[w].decision = "grant" PROVE Fits(w)'
    <2>1. Recorded
        <3>1. CASE AdmitCheck(w)
            <4>1. rows' = rows
                BY <3>1 DEF AdmitCheck, store
            <4> QED BY <4>1 DEF Recorded, SameTerms
        <3>2. CASE pc[w] = "commit" /\ q'[w] = q[w]
            BY <1>1, <1>2, <3>2, LockedRows DEF Holding
        <3> QED BY <1>1, <1>2, <3>1, <3>2, OnlyAdmitWaits
    <2>2. \A K : Spend(K)' = Spend(K)
        BY <1>1, <2>1, SpendRecorded
    <2>3. /\ Spend(JobKey(q'[w].job)) + q'[w].want <= PerJob
          /\ Spend(SinceKey(q'[w].now)) + q'[w].want <= WindowTokens
          /\ Spend(MonthKey(q'[w].now)) + q'[w].want <= MonthTokens
          /\ RunCeiling # NoCeiling => Spend(RunKey) + q'[w].want <= RunCeiling
        <3>1. CASE AdmitCheck(w)
            <4>1. PICK d : /\ d = AdmitDecision(rows, notes, holdsStop,
                                               q[w].now, q[w].job, q[w].want)
                           /\ q' = [q EXCEPT ![w].decision = d]
                BY <3>1 DEF AdmitCheck
            <4>2. /\ q'[w].decision = d /\ q'[w].job = q[w].job /\ q'[w].now = q[w].now
                  /\ q'[w].want = q[w].want
                BY <1>1, <4>1 DEF Question
            <4>3. d = "grant" /\ q[w].job \in Job /\ q[w].now \in Nat /\ q[w].want \in Nat
                BY <1>1, <1>2, <4>2, Typed
            <4>4. /\ ~(Spend(JobKey(q[w].job)) + q[w].want > PerJob)
                  /\ ~(Spend(SinceKey(q[w].now)) + q[w].want > WindowTokens)
                  /\ ~(Spend(MonthKey(q[w].now)) + q[w].want > MonthTokens)
                  /\ ~(RunCeiling # NoCeiling /\ Spend(RunKey) + q[w].want > RunCeiling)
                BY <1>1, <4>1, <4>3, GrantMeansFits, SpendKeys
            <4>5. \A K : Spend(K) \in Nat
                BY <1>1, ClassRows, ClassFacts DEF Spend
            <4> QED BY <4>2, <4>3, <4>4, <4>5, CeilingAssumption
        <3>2. CASE pc[w] = "commit" /\ q'[w] = q[w]
            BY <1>2, <3>2 DEF Fit, Fits
        <3> QED BY <1>1, <1>2, <3>1, <3>2, OnlyAdmitWaits
    <2>4. PICK j, t : j = q'[w].job /\ t = q'[w].now
        OBVIOUS
    <2>5. /\ Spend(JobKey(j))' = Spend(JobKey(j)) /\ Spend(SinceKey(t))' = Spend(SinceKey(t))
          /\ Spend(MonthKey(t))' = Spend(MonthKey(t)) /\ Spend(RunKey)' = Spend(RunKey)
        BY <2>2
    <2>6. /\ Spend(JobKey(j))' + q'[w].want <= PerJob
          /\ Spend(SinceKey(t))' + q'[w].want <= WindowTokens
          /\ Spend(MonthKey(t))' + q'[w].want <= MonthTokens
          /\ RunCeiling # NoCeiling => Spend(RunKey)' + q'[w].want <= RunCeiling
        BY <2>3, <2>4, <2>5
    <2> QED BY <2>4, <2>6 DEF Fits
<1> QED BY <1>2 DEF Fit, Fits

\* What a class holds is a natural.
HeldNumbers == \A K : HeldBy(K) \in Nat

\* What the rows hold within their reservations are numbers.
LEMMA HeldType == Accounts => HeldNumbers
<1> SUFFICES ASSUME Accounts, NEW K PROVE HeldBy(K) \in Nat
    BY DEF HeldNumbers
<1>1. rows \in Seq(Row)
    BY DEF Accounts, Shape, TypeOK
<1> QED BY <1>1, ClassRows, ClassFacts DEF HeldBy

\* A class holds no more than its limit, when each grant that falls into it
\* is within the limit.
LEMMA KeyHolds ==
    ASSUME Accounts, [Next]_vars, NEW K, NEW L \in Nat, HeldBy(K) <= L,
           \A w \in Worker : Granted(w) /\ <<q[w].job, q[w].now>> \in K
                                => HeldBy(K) + q[w].want <= L
    PROVE  HeldBy(K)' <= L
<1>1. /\ Shape /\ Courses /\ Above /\ Covered
      /\ rows \in Seq(Row) /\ rows' \in Seq(Row)
    BY RowsStay DEF Accounts, Shape, TypeOK
<1>2. HeldBy(K) \in Nat
    BY <1>1, ClassRows, ClassFacts DEF HeldBy
<1>3. CASE Recorded
    BY <1>1, <1>3, SpendRecorded
<1>4. ASSUME NEW w \in Worker, Granted(w) PROVE HeldBy(K)' <= L
    BY <1>1, <1>4, HeldGranted, Typed
<1>5. ASSUME NEW id \in 1 .. Len(rows), NEW s \in Settlement, Paid(id, s)
      PROVE  HeldBy(K)' <= L
    <2>1. HeldBy(K)' <= HeldBy(K)
        BY <1>1, <1>5, HeldPaid
    <2>2. HeldBy(K)' \in Nat
        <3>1. Accounts'
            BY AccountsNext
        <3>2. HeldNumbers'
            BY <3>1, HeldType, PTL
        <3> QED BY <3>2 DEF HeldNumbers
    <2> QED BY <1>2, <2>1, <2>2
<1> QED BY <1>1, <1>3, <1>4, <1>5, RowsMove

\* A class whose rows another has holds no more than that one spends.
LEMMA HeldWithin ==
    ASSUME rows \in Seq(Row), NEW K, NEW M, K \subseteq M
    PROVE  HeldBy(K) <= Spend(M) /\ HeldBy(K) \in Nat /\ Spend(M) \in Nat
<1>1. /\ Class(K) \in SUBSET DOMAIN rows /\ Class(M) \in SUBSET DOMAIN rows
      /\ Class(K) \in SUBSET Class(M)
    BY ClassRows DEF Class
<1>2. /\ HeldBy(K) <= SumWithin(Class(M)) /\ HeldBy(K) \in Nat
    <2>1. IsFiniteSet(Class(M)) /\ \A i \in Class(M) : Within[i] \in Nat
        BY <1>1, ClassFacts, RowTerms
    <2> QED BY <1>1, <2>1, SumSubset DEF HeldBy, SumWithin
<1>3. SumWithin(Class(M)) \in Nat /\ Spend(M) \in Nat /\ SumWithin(Class(M)) <= Spend(M)
    BY <1>1, ClassFacts DEF Spend
<1> QED BY <1>2, <1>3

\* Every step keeps every class of rows within its ceiling.
LEMMA EnvelopeNext ==
    ASSUME Accounts, Fit, Envelope, [Next]_vars PROVE Envelope'
<1>1. /\ rows \in Seq(Row)
      /\ PerJob \in Nat /\ WindowTokens \in Nat /\ MonthTokens \in Nat
      /\ RunCeiling # NoCeiling => RunCeiling \in Nat
    BY CeilingAssumption DEF Accounts, Shape, TypeOK
<1>2. ASSUME NEW w \in Worker, Granted(w)
      PROVE  /\ Spend(JobKey(q[w].job)) + q[w].want <= PerJob
             /\ Spend(SinceKey(q[w].now)) + q[w].want <= WindowTokens
             /\ Spend(MonthKey(q[w].now)) + q[w].want <= MonthTokens
             /\ RunCeiling # NoCeiling => Spend(RunKey) + q[w].want <= RunCeiling
             /\ q[w].want \in Nat /\ q[w].now \in Nat /\ q[w].job \in Job
    BY <1>2, Typed DEF Granted, AdmitCommit, At, Fit, Fits, Accounts
<1>3. ASSUME NEW j \in Job PROVE HeldBy(JobKey(j))' <= PerJob
    <2> DEFINE K == JobKey(j)
    <2>1. ASSUME NEW w \in Worker, Granted(w), <<q[w].job, q[w].now>> \in K
          PROVE  HeldBy(K) + q[w].want <= PerJob
        <3>1. j = q[w].job
            BY <2>1 DEF JobKey
        <3>2. HeldBy(K) <= Spend(K) /\ HeldBy(K) \in Nat /\ Spend(K) \in Nat
            BY <1>1, HeldWithin
        <3> QED BY <1>1, <1>2, <2>1, <3>1, <3>2
    <2>2. HeldBy(K) <= PerJob
        BY DEF Envelope
    <2> HIDE DEF K
    <2>3. HeldBy(K)' <= PerJob
        BY <1>1, <2>1, <2>2, KeyHolds
    <2> QED BY <2>3 DEF K
<1>4. ASSUME NEW t \in Nat PROVE HeldBy(WindowKey(t))' <= WindowTokens
    <2> DEFINE K == WindowKey(t)
    <2>1. ASSUME NEW w \in Worker, Granted(w), <<q[w].job, q[w].now>> \in K
          PROVE  HeldBy(K) + q[w].want <= WindowTokens
        <3>1. q[w].now \in Nat /\ q[w].now <= t /\ WindowLen \in Nat
            BY <2>1, CeilingAssumption DEF WindowKey
        <3>2. K \subseteq SinceKey(q[w].now)
            BY <3>1 DEF WindowKey, SinceKey
        <3>3. /\ HeldBy(K) <= Spend(SinceKey(q[w].now)) /\ HeldBy(K) \in Nat
              /\ Spend(SinceKey(q[w].now)) \in Nat
            BY <1>1, <3>2, HeldWithin
        <3> QED BY <1>1, <1>2, <2>1, <3>3
    <2>2. HeldBy(K) <= WindowTokens
        BY DEF Envelope
    <2> HIDE DEF K
    <2>3. HeldBy(K)' <= WindowTokens
        BY <1>1, <2>1, <2>2, KeyHolds
    <2> QED BY <2>3 DEF K
<1>5. ASSUME NEW t \in Nat PROVE HeldBy(MonthKey(t))' <= MonthTokens
    <2> DEFINE K == MonthKey(t)
    <2>1. ASSUME NEW w \in Worker, Granted(w), <<q[w].job, q[w].now>> \in K
          PROVE  HeldBy(K) + q[w].want <= MonthTokens
        <3>1. K \subseteq MonthKey(q[w].now)
            BY <2>1 DEF MonthKey
        <3>2. /\ HeldBy(K) <= Spend(MonthKey(q[w].now)) /\ HeldBy(K) \in Nat
              /\ Spend(MonthKey(q[w].now)) \in Nat
            BY <1>1, <3>1, HeldWithin
        <3> QED BY <1>1, <1>2, <2>1, <3>2
    <2>2. HeldBy(K) <= MonthTokens
        BY DEF Envelope
    <2> HIDE DEF K
    <2>3. HeldBy(K)' <= MonthTokens
        BY <1>1, <2>1, <2>2, KeyHolds
    <2> QED BY <2>3 DEF K
<1>6. ASSUME RunCeiling # NoCeiling PROVE HeldBy(RunKey)' <= RunCeiling
    <2>1. ASSUME NEW w \in Worker, Granted(w), <<q[w].job, q[w].now>> \in RunKey
          PROVE  HeldBy(RunKey) + q[w].want <= RunCeiling
        <3>1. HeldBy(RunKey) <= Spend(RunKey) /\ HeldBy(RunKey) \in Nat /\ Spend(RunKey) \in Nat
            BY <1>1, HeldWithin
        <3> QED BY <1>1, <1>2, <1>6, <2>1, <3>1
    <2>2. HeldBy(RunKey) <= RunCeiling
        BY <1>6 DEF Envelope
    <2> QED BY <1>1, <1>6, <2>1, <2>2, KeyHolds
<1> QED BY <1>3, <1>4, <1>5, <1>6 DEF Envelope

\* The envelope (admit_locked, budget.rs): whatever threads admit and settle
\* concurrently, and in whichever order their instants were read, no job, no
\* position of the rolling window, no month and no run ever holds more than
\* its ceiling, bills above a reservation apart.
THEOREM CeilingsAreKept == Spec => []CeilingsHold
<1>1. Init => Fit /\ Envelope
    <2> SUFFICES ASSUME Init PROVE Fit /\ Envelope
        OBVIOUS
    <2>1. rows = <<>> /\ \A w \in Worker : pc[w] = "idle"
        BY DEF Init
    <2>2. \A K : HeldBy(K) = 0
        <3>1. \A K : Class(K) = {}
            BY <2>1 DEF Class, SpentRows
        <3>2. SumFunctionOnSet(Within, {}) = 0
            BY FS_EmptySet, SumUnfolds
        <3> QED BY <3>1, <3>2 DEF HeldBy, SumWithin
    <2> QED BY <2>1, <2>2, CeilingAssumption DEF Fit, Fits, Envelope
<1>2. Accounts /\ Fit /\ Envelope /\ [Next]_vars => Fit' /\ Envelope'
    BY FitNext, EnvelopeNext
<1>3. Accounts /\ Envelope => CeilingsHold
    <2> SUFFICES ASSUME Accounts, Envelope PROVE CeilingsHold
        OBVIOUS
    <2>1. rows \in Seq(Row)
        BY DEF Accounts, Shape, TypeOK
    <2>2. \A j \in Job : SumWithin(OfJob(j)) <= PerJob
        BY <2>1, SpendKeys DEF Envelope, HeldBy
    <2>3. \A t \in Nat : /\ SumWithin(InWindow(t)) <= WindowTokens
                         /\ SumWithin(InMonth(t)) <= MonthTokens
        BY <2>1, SpendKeys DEF Envelope, HeldBy
    <2>4. RunCeiling # NoCeiling => SumWithin(SpentRows(rows)) <= RunCeiling
        BY <2>1, SpendKeys DEF Envelope, HeldBy
    <2>5. 0 .. MaxClock \subseteq Nat
        BY RuntimeAssumption
    <2> QED BY <2>2, <2>3, <2>4, <2>5 DEF CeilingsHold
<1> QED BY <1>1, <1>2, <1>3, AccountsHold, PTL DEF Spec

-----------------------------------------------------------------------------
(* What is kept in this process, and written later.                        *)

\* A reservation has one bill kept for it.
Unique == \A k, m \in kept : k.id = m.id => k = m

\* What a thread copied of it is kept as long as its reservation stands.
Copied ==
    \A v \in Worker : \A k \in q[v].flush :
        rows[k.id].kind = "reservation" => k \in kept

\* What a thread has written no longer stands.
Wrote ==
    \A v \in Worker : \A i \in q[v].written :
        i \in 1 .. Len(rows) /\ rows[i].kind # "reservation"

\* The bill of a settlement that was refused.
Bill(w) == [id |-> q[w].res, tokens |-> SettlementOf(w).tokens]

OverranOwn(w) == Overran(SettlementOf(w), rows[q[w].res].est)

\* Between keeping and rollback the reservation stands, and the bill above it
\* is the one that is kept.
Unpaid(w) ==
    pc[w] = "rollback" =>
        /\ rows[q[w].res].kind = "reservation"
        /\ OverranOwn(w) => Bill(w) \in kept
        /\ ~OverranOwn(w) => /\ \A k \in kept : k.id # q[w].res
                             /\ \A v \in Worker : \A k \in q[v].flush : k.id # q[w].res

KeptWell == Unique /\ Copied /\ Wrote /\ \A w \in Worker : Unpaid(w)

\* A row that does not stand does not stand again, and one that stands is as
\* it was.
LEMMA KindsStay ==
    ASSUME Accounts, [Next]_vars
    PROVE  \A i \in 1 .. Len(rows) : rows'[i].kind = "reservation" =>
               rows[i].kind = "reservation" /\ rows'[i].tokens = rows[i].tokens
<1>1. Shape /\ Courses /\ Above
    BY DEF Accounts
<1>2. CASE Recorded
    BY <1>2 DEF Recorded, SameTerms
<1>3. ASSUME NEW w \in Worker, Granted(w)
      PROVE  \A i \in 1 .. Len(rows) : rows'[i] = rows[i]
    BY <1>3 DEF Granted
<1>4. ASSUME NEW id \in 1 .. Len(rows), NEW s \in Settlement, Paid(id, s)
      PROVE  \A i \in 1 .. Len(rows) : rows'[i].kind = "reservation" =>
                 rows[i].kind = "reservation" /\ rows'[i].tokens = rows[i].tokens
    BY <1>4 DEF Paid, Settlement
<1> QED BY <1>1, <1>2, <1>3, <1>4, RowsMove

\* A thread's step keeps what the others know of what is kept.
LEMMA KeptStep ==
    ASSUME Accounts, KeptWell, [Next]_vars, NEW w \in Worker,
           \A v \in Worker \ {w} : q'[v] = q[v] /\ pc'[v] = pc[v],
           Unique',
           \A k \in kept : k \in kept' \/ rows[k.id].kind # "reservation",
           \A k \in kept' : k \in kept \/ k \in q[w].flush \/ k.id \in q[w].mine,
           \A k \in q'[w].flush : k \in kept \/ k \in q[w].flush,
           \A k \in q'[w].flush : rows'[k.id].kind = "reservation" => k \in kept',
           \A i \in q'[w].written : i \in 1 .. Len(rows) /\ rows'[i].kind # "reservation",
           Unpaid(w)'
    PROVE  KeptWell'
<1>1. /\ rows \in Seq(Row) /\ rows' \in Seq(Row) /\ 1 .. Len(rows) \subseteq 1 .. Len(rows')
      /\ \A i \in 1 .. Len(rows) : rows'[i].est = rows[i].est
      /\ Shape /\ Courses
    BY RowsStay DEF Accounts, Shape, TypeOK
<1>2. \A i \in 1 .. Len(rows) : rows'[i].kind = "reservation" => rows[i].kind = "reservation"
    BY KindsStay
<1>3. Copied'
    <2>1. ASSUME NEW v \in Worker \ {w}, NEW k \in q'[v].flush, rows'[k.id].kind = "reservation"
          PROVE  k \in kept'
        <3>1. k \in q[v].flush /\ k.id \in 1 .. Len(rows)
            BY <1>1 DEF Shape, Keeping, Apart
        <3>2. rows[k.id].kind = "reservation"
            BY <1>2, <2>1, <3>1
        <3> QED BY <3>1, <3>2 DEF KeptWell, Copied
    <2> QED BY <2>1 DEF Copied
<1>4. Wrote'
    <2>1. ASSUME NEW v \in Worker \ {w}, NEW i \in q'[v].written
          PROVE  i \in 1 .. Len(rows') /\ rows'[i].kind # "reservation"
        <3>1. i \in 1 .. Len(rows) /\ rows[i].kind # "reservation"
            BY DEF KeptWell, Wrote
        <3> QED BY <1>1, <1>2, <3>1
    <2> QED BY <1>1, <2>1 DEF Wrote
<1>5. ASSUME NEW v \in Worker \ {w} PROVE Unpaid(v)'
    <2>0. SUFFICES ASSUME pc[v] = "rollback" PROVE Unpaid(v)'
        BY DEF Unpaid
    <2>1. q'[v] = q[v] /\ pc'[v] = pc[v] /\ Unpaid(v)
        BY DEF KeptWell
    <2>2. q[v].res \in 1 .. Len(rows)
        BY <1>1, <2>0, FlightFacts
    <2>3. rows'[q[v].res].kind = "reservation" /\ rows[q[v].res].kind = "reservation"
          /\ rows'[q[v].res].est = rows[q[v].res].est
        <3>1. Recorded
            BY <1>1, <2>0, <2>1, LockedRows DEF Holding
        <3> QED BY <2>0, <2>1, <2>2, <3>1 DEF Recorded, SameTerms, Unpaid
    <2>4. SettlementOf(v)' = SettlementOf(v)
        BY <2>1 DEF SettlementOf
    <2>5. OverranOwn(v)' = OverranOwn(v) /\ Bill(v)' = Bill(v)
        BY <2>1, <2>3, <2>4 DEF OverranOwn, Bill, Overran
    <2>6. OverranOwn(v) => Bill(v) \in kept'
        <3>1. OverranOwn(v) => Bill(v) \in kept
            BY <2>0, <2>1 DEF Unpaid
        <3>2. Bill(v).id = q[v].res
            BY DEF Bill
        <3> QED BY <2>3, <3>1, <3>2
    <2>7. ASSUME ~OverranOwn(v)
          PROVE  /\ \A k \in kept' : k.id # q[v].res
                 /\ \A u \in Worker : \A k \in q'[u].flush : k.id # q[v].res
        <3>1. /\ \A k \in kept : k.id # q[v].res
              /\ \A u \in Worker : \A k \in q[u].flush : k.id # q[v].res
            BY <2>0, <2>1, <2>7 DEF Unpaid
        <3>2. q[v].res \notin q[w].mine
            <4>1. q[v].res \in q[v].mine
                BY <1>1, <2>0 DEF Courses, Course, OwnRow, Billed, Heard
            <4> QED BY <1>1, <4>1 DEF Courses, OwnRows
        <3>3. ASSUME NEW u \in Worker, NEW k \in q'[u].flush PROVE k.id # q[v].res
            <4>1. CASE u = w
                BY <3>1, <3>3, <4>1
            <4>2. CASE u # w
                BY <3>1, <3>3, <4>2
            <4> QED BY <4>1, <4>2
        <3>4. \A k \in kept' : k.id # q[v].res
            BY <3>1, <3>2
        <3> QED BY <3>3, <3>4
    <2> QED BY <2>0, <2>1, <2>3, <2>5, <2>6, <2>7 DEF Unpaid
<1> QED BY <1>3, <1>4, <1>5 DEF KeptWell

\* A bill is kept once.
LEMMA KeepOnce ==
    ASSUME Unique, NEW id, NEW n, Keep(id, n)
    PROVE  /\ Unique'
           /\ kept \subseteq kept'
           /\ \A k \in kept' : k \in kept \/ (k.id = id /\ k.tokens = n /\ kept' = kept \cup {k})
           /\ (\A k \in kept : k.id # id) => [id |-> id, tokens |-> n] \in kept'
           /\ (\E k \in kept : k.id = id) => kept' = kept
<1> DEFINE r == [id |-> id, tokens |-> n]
<1>1. r.id = id /\ r.tokens = n
    OBVIOUS
<1>2. kept' = IF \E k \in kept : k.id = id THEN kept ELSE kept \cup {r}
    BY DEF Keep
<1> HIDE DEF r
<1>3. CASE \E k \in kept : k.id = id
    BY <1>2, <1>3 DEF Unique
<1>4. CASE ~ \E k \in kept : k.id = id
    <2>1. kept' = kept \cup {r}
        BY <1>2, <1>4
    <2>2. Unique'
        BY <1>1, <1>4, <2>1 DEF Unique
    <2>3. [id |-> id, tokens |-> n] \in kept'
        BY <2>1 DEF r
    <2> QED BY <1>1, <1>4, <2>1, <2>2, <2>3
<1> QED BY <1>3, <1>4

\* A settlement that is refused has its bill kept, and nothing else.
LEMMA RefusedKeeps ==
    ASSUME Shape, Unique, NEW w \in Worker, KeepIfOverran(w), pc[w] \in InFlight
    PROVE  /\ Unique' /\ kept \subseteq kept'
           /\ \A k \in kept' : k \in kept \/ k.id = q[w].res
           /\ OverranOwn(w) => Bill(w) \in kept'
           /\ ~OverranOwn(w) => kept' = kept
<1>1. CASE OverranOwn(w)
    <2>1. Keep(q[w].res, SettlementOf(w).tokens)
        BY <1>1 DEF KeepIfOverran, OverranOwn
    <2>2. \A k \in kept : k.id # q[w].res
        BY FlightFacts
    <2> QED BY <1>1, <2>1, <2>2, KeepOnce DEF Bill
<1>2. CASE ~OverranOwn(w)
    <2>1. kept' = kept
        BY <1>2 DEF KeepIfOverran, OverranOwn
    <2> QED BY <1>2, <2>1 DEF Unique
<1> QED BY <1>1, <1>2

\* What a thread that flushes does to what is kept.
LEMMA FlushTaken ==
    ASSUME Accounts, KeptWell, NEW w \in Worker, FlushOne(w)
    PROVE  \E k \in q[w].flush :
              /\ k \in Kept /\ k.id \in 1 .. Len(rows)
              /\ q'[w].flush = q[w].flush \ {k}
              /\ q'[w].charged = q[w].charged /\ q'[w].mine = q[w].mine
              /\ q'[w].counting = q[w].counting /\ pc'[w] = "flush"
              /\ \/ /\ kept' = kept /\ q'[w].written = q[w].written \cup {k.id}
                    /\ rows' = rows /\ rows[k.id].kind # "reservation"
                 \/ /\ kept' = kept /\ q'[w].written = q[w].written \cup {k.id}
                    /\ Paid(k.id, Usage(k.tokens))
                 \/ /\ Keep(k.id, k.tokens) /\ q'[w].written = q[w].written
                    /\ rows' = rows
<1>1. Shape /\ Above /\ q \in [Worker -> Question] /\ q[w] \in Question
      /\ rows \in Seq(Row)
    BY DEF Accounts, Shape, TypeOK
<1>2. pc'[w] = "flush"
    BY <1>1 DEF FlushOne, At
<1>3. PICK k \in q[w].flush :
              /\ k \in Kept /\ k.id \in 1 .. Len(rows)
              /\ Usage(k.tokens) \in Settlement /\ rows[k.id].at \in Nat
              /\ \/ /\ rows' = Settled(rows, k.id, Usage(k.tokens), rows[k.id].at)
                    /\ q' = [q EXCEPT ![w] = [q[w] EXCEPT !.flush = @ \ {k},
                                                          !.written = @ \cup {k.id}]]
                    /\ kept' = kept
                 \/ /\ rows' = rows /\ Keep(k.id, k.tokens)
                    /\ q' = [q EXCEPT ![w] = [q[w] EXCEPT !.flush = @ \ {k}]]
    BY <1>1, FlushRow
<1> DEFINE put   == [q[w] EXCEPT !.flush = @ \ {k}, !.written = @ \cup {k.id}]
           saved == [q[w] EXCEPT !.flush = @ \ {k}]
<1>4. /\ put.flush = q[w].flush \ {k} /\ put.charged = q[w].charged /\ put.mine = q[w].mine
      /\ put.counting = q[w].counting /\ put.written = q[w].written \cup {k.id}
      /\ saved.flush = q[w].flush \ {k} /\ saved.charged = q[w].charged
      /\ saved.mine = q[w].mine /\ saved.counting = q[w].counting
      /\ saved.written = q[w].written
    BY <1>1 DEF Question
<1>5. CASE /\ rows' = Settled(rows, k.id, Usage(k.tokens), rows[k.id].at)
           /\ q' = [q EXCEPT ![w] = put] /\ kept' = kept
    <2>1. q'[w] = put
        BY <1>1, <1>5
    <2>2. CASE rows[k.id].kind # "reservation"
        <3>1. rows' = rows
            BY <1>5, <2>2 DEF Settled
        <3> HIDE DEF put, saved
        <3> QED BY <1>2, <1>3, <1>4, <1>5, <2>1, <2>2, <3>1
    <2>3. CASE rows[k.id].kind = "reservation"
        <3>1. k.tokens > rows[k.id].est /\ Usage(k.tokens).tokens = k.tokens
            BY <1>1 DEF Above, Usage
        <3>2. rows[k.id].est \in Nat /\ k.tokens \in Nat
            <4>1. rows[k.id] \in Row
                BY <1>1, <1>3
            <4> QED BY <1>3, <4>1 DEF Row, Kept
        <3>3. Usage(k.tokens).tokens >= rows[k.id].est
            BY <3>1, <3>2
        <3>4. Paid(k.id, Usage(k.tokens))
            BY <1>1, <1>3, <1>5, <2>3, <3>3, PaidRow
        <3> HIDE DEF put, saved
        <3> QED BY <1>2, <1>3, <1>4, <1>5, <2>1, <3>4
    <2> QED BY <2>2, <2>3
<1>6. CASE /\ rows' = rows /\ Keep(k.id, k.tokens) /\ q' = [q EXCEPT ![w] = saved]
    <2>1. q'[w] = saved
        BY <1>1, <1>6
    <2> HIDE DEF put, saved
    <2> QED BY <1>2, <1>3, <1>4, <1>6, <2>1
<1> QED BY <1>3, <1>5, <1>6

\* A step that keeps nothing and forgets nothing of what is kept.
LEMMA KeptCalm ==
    ASSUME Accounts, KeptWell, [Next]_vars, NEW w \in Worker,
           \A v \in Worker \ {w} : q'[v] = q[v] /\ pc'[v] = pc[v],
           kept' = kept, q'[w].flush \subseteq q[w].flush,
           q'[w].written \subseteq q[w].written, pc'[w] # "rollback"
    PROVE  KeptWell'
<1>1. Unique' /\ Unpaid(w)'
    BY DEF KeptWell, Unique, Unpaid
<1>2. \A k \in q'[w].flush : rows'[k.id].kind = "reservation" => k \in kept'
    <2>1. ASSUME NEW k \in q'[w].flush, rows'[k.id].kind = "reservation" PROVE k \in kept'
        <3>1. k \in q[w].flush /\ k.id \in 1 .. Len(rows)
            BY DEF Accounts, Shape, Keeping, Apart
        <3> QED BY <2>1, <3>1, KindsStay DEF KeptWell, Copied
    <2> QED BY <2>1
<1>3. \A i \in q'[w].written : i \in 1 .. Len(rows) /\ rows'[i].kind # "reservation"
    BY KindsStay DEF KeptWell, Wrote
<1> QED BY <1>1, <1>2, <1>3, KeptStep

\* The steps of a thread that settle its call charge it.
LEMMA SettlesTaken ==
    ASSUME Shape, NEW w \in Worker, SettleCommit(w) \/ Rollback(w) \/ SettleBusy(w)
    PROVE  /\ pc[w] \in {"settle", "settling", "rollback"}
           /\ pc'[w] \in {"counted", "completed"}
           /\ q'[w].flush = q[w].flush /\ q'[w].written = q[w].written
           /\ q'[w].mine = q[w].mine /\ q'[w].counting = q[w].counting
           /\ q'[w].res = q[w].res
<1>1. pc[w] \in {"settle", "settling", "rollback"}
    BY DEF SettleCommit, Rollback, SettleBusy, At
<1>2. \E n \in Nat : Charge(w, n)
    BY <1>1, CommitCharges, UnsettledFacts DEF Rollback, SettleBusy, InFlight
<1> QED BY <1>1, <1>2, ChargeTaken

\* A settlement that the store refused keeps its bill.
LEMMA KeptRefused ==
    ASSUME Accounts, KeptWell, [Next]_vars, NEW w \in Worker,
           \A v \in Worker \ {w} : q'[v] = q[v] /\ pc'[v] = pc[v],
           SettleRefused(w) \/ SettleBusy(w)
    PROVE  KeptWell'
<1>1. /\ KeepIfOverran(w) /\ pc[w] \in InFlight /\ rows' = rows /\ Shape /\ Courses
      /\ pc[w] \in {"settle", "settling"} /\ pc \in [Worker -> PC]
    BY DEF SettleRefused, SettleBusy, At, InFlight, store, Accounts, Shape, TypeOK
<1>2. /\ Unique' /\ kept \subseteq kept'
      /\ \A k \in kept' : k \in kept \/ k.id = q[w].res
      /\ OverranOwn(w) => Bill(w) \in kept'
      /\ ~OverranOwn(w) => kept' = kept
    BY <1>1, RefusedKeeps DEF KeptWell
<1>3. q[w].res \in q[w].mine
    BY <1>1 DEF Courses, Course, OwnRow, Billed, Heard
<1>4. q'[w].flush = q[w].flush /\ q'[w].written = q[w].written
    BY <1>1, CallTaken, SettlesTaken
<1>5. Unpaid(w)'
    <2>1. CASE SettleBusy(w)
        <3>1. pc'[w] # "rollback"
            BY <1>1, <2>1, SettlesTaken
        <3> QED BY <3>1 DEF Unpaid
    <2>2. CASE SettleRefused(w)
        <3>1. q' = q
            BY <2>2 DEF SettleRefused
        <3>2. /\ rows[q[w].res].kind = "reservation"
              /\ \A k \in kept : k.id # q[w].res
              /\ \A v \in Worker : \A k \in q[v].flush : k.id # q[w].res
            BY <1>1, FlightFacts
        <3> QED BY <1>1, <1>2, <3>1, <3>2 DEF Unpaid, OverranOwn, Bill, SettlementOf
    <2> QED BY <2>1, <2>2
<1>6. \A k \in q'[w].flush : rows'[k.id].kind = "reservation" => k \in kept'
    BY <1>1, <1>2, <1>4 DEF KeptWell, Copied
<1>7. \A i \in q'[w].written : i \in 1 .. Len(rows) /\ rows'[i].kind # "reservation"
    BY <1>1, <1>4 DEF KeptWell, Wrote
<1> QED BY <1>2, <1>3, <1>4, <1>5, <1>6, <1>7, KeptStep

\* What is copied is kept, and what is forgotten was written.
LEMMA KeptFlush ==
    ASSUME Accounts, KeptWell, [Next]_vars, NEW w \in Worker,
           \A v \in Worker \ {w} : q'[v] = q[v] /\ pc'[v] = pc[v],
           FlushCopy(w) \/ FlushOne(w) \/ FlushRetain(w)
    PROVE  KeptWell'
<1>1. /\ Shape /\ q \in [Worker -> Question] /\ pc \in [Worker -> PC] /\ q[w] \in Question
      /\ Unique
    BY DEF Accounts, Shape, TypeOK, KeptWell
<1>2. CASE FlushCopy(w)
    <2>1. /\ rows' = rows /\ kept' = kept /\ pc'[w] # "rollback"
          /\ q'[w].flush = kept /\ q'[w].written = {}
        BY <1>1, <1>2 DEF FlushCopy, store, process, Goto, Question
    <2> QED BY <1>1, <2>1, KeptStep DEF Unique, Unpaid
<1>3. CASE FlushRetain(w)
    <2>1. /\ rows' = rows /\ kept' = {k \in kept : k.id \notin q[w].written}
          /\ pc'[w] # "rollback" /\ q'[w].flush = {} /\ q'[w].written = {}
        BY <1>1, <1>3 DEF FlushRetain, store, Goto, Question
    <2>2. \A k \in kept : k \in kept' \/ rows[k.id].kind # "reservation"
        BY <2>1 DEF KeptWell, Wrote
    <2>3. Unique' /\ Unpaid(w)'
        BY <1>1, <2>1 DEF Unique, Unpaid
    <2>4. \A k \in kept' : k \in kept
        BY <2>1
    <2> QED BY <2>1, <2>2, <2>3, <2>4, KeptStep
<1>4. CASE FlushOne(w)
    <2>1. PICK k \in q[w].flush :
              /\ k \in Kept /\ k.id \in 1 .. Len(rows)
              /\ q'[w].flush = q[w].flush \ {k} /\ pc'[w] = "flush"
              /\ \/ /\ kept' = kept /\ q'[w].written = q[w].written \cup {k.id}
                    /\ rows' = rows /\ rows[k.id].kind # "reservation"
                 \/ /\ kept' = kept /\ q'[w].written = q[w].written \cup {k.id}
                    /\ Paid(k.id, Usage(k.tokens))
                 \/ /\ Keep(k.id, k.tokens) /\ q'[w].written = q[w].written
                    /\ rows' = rows
        BY <1>4, FlushTaken
    <2>2. Unpaid(w)'
        BY <2>1 DEF Unpaid
    <2>3. CASE kept' = kept /\ q'[w].written = q[w].written \cup {k.id}
        <3>1. rows'[k.id].kind # "reservation"
            <4>1. CASE rows' = rows /\ rows[k.id].kind # "reservation"
                BY <4>1
            <4>2. CASE Paid(k.id, Usage(k.tokens))
                <5>1. rows'[k.id].kind = Usage(k.tokens).kind
                    BY <4>2 DEF Paid
                <5> QED BY <5>1 DEF Usage
            <4>3. CASE q'[w].written = q[w].written /\ rows' = rows
                <5>1. k.id \in q[w].written
                    BY <2>3, <4>3
                <5> QED BY <4>3, <5>1 DEF KeptWell, Wrote
            <4> QED BY <2>1, <4>1, <4>2, <4>3
        <3>2. \A m \in q'[w].flush : rows'[m.id].kind = "reservation" => m \in kept'
            <4>1. ASSUME NEW m \in q'[w].flush, rows'[m.id].kind = "reservation"
                  PROVE  m \in kept'
                <5>1. m \in q[w].flush /\ m.id \in 1 .. Len(rows)
                    BY <1>1, <2>1 DEF Shape, Keeping, Apart
                <5> QED BY <2>3, <4>1, <5>1, KindsStay DEF KeptWell, Copied
            <4> QED BY <4>1
        <3>3. \A i \in q'[w].written : i \in 1 .. Len(rows) /\ rows'[i].kind # "reservation"
            BY <2>1, <2>3, <3>1, KindsStay DEF KeptWell, Wrote
        <3>4. Unique'
            BY <1>1, <2>3 DEF Unique
        <3> QED BY <2>1, <2>2, <2>3, <3>2, <3>3, <3>4, KeptStep
    <2>4. CASE Keep(k.id, k.tokens) /\ q'[w].written = q[w].written /\ rows' = rows
        <3>1. /\ Unique' /\ kept \subseteq kept'
              /\ \A m \in kept' : m \in kept \/ (m.id = k.id /\ m.tokens = k.tokens)
            <4>1. PICK i, n : i = k.id /\ n = k.tokens
                OBVIOUS
            <4>2. Keep(i, n)
                BY <2>4, <4>1
            <4>3. /\ Unique' /\ kept \subseteq kept'
                  /\ \A m \in kept' : m \in kept \/ (m.id = i /\ m.tokens = n /\ kept' = kept \cup {m})
                BY <1>1, <4>2, KeepOnce
            <4> QED BY <4>1, <4>3
        <3>2. \A m \in kept' : m \in kept \/ m = k
            <4>1. ASSUME NEW m \in kept', m \notin kept PROVE m = k
                <5>1. kept' \subseteq Kept
                    BY <1>1, <2>1, <2>4, KeepAdds DEF Kept, Shape, TypeOK
                <5> QED BY <2>1, <3>1, <4>1, <5>1 DEF Kept
            <4> QED BY <4>1
        <3>3. \A m \in q'[w].flush : rows'[m.id].kind = "reservation" => m \in kept'
            BY <2>1, <2>4, <3>1 DEF KeptWell, Copied
        <3>4. \A i \in q'[w].written : i \in 1 .. Len(rows) /\ rows'[i].kind # "reservation"
            BY <2>4 DEF KeptWell, Wrote
        <3> QED BY <2>1, <2>2, <3>1, <3>2, <3>3, <3>4, KeptStep
    <2> QED BY <2>1, <2>3, <2>4
<1> QED BY <1>2, <1>3, <1>4

\* What is kept stays in order.
LEMMA KeptNext ==
    ASSUME Accounts, KeptWell, [Next]_vars PROVE KeptWell'
<1>0. Shape /\ q \in [Worker -> Question] /\ pc \in [Worker -> PC]
    BY DEF Accounts, Shape, TypeOK
<1>1. ASSUME NEW w \in Worker, Step(w) PROVE KeptWell'
    <2>0. \A v \in Worker \ {w} : q'[v] = q[v] /\ pc'[v] = pc[v]
        BY <1>0, <1>1, OthersStay
    <2>1. CASE Reads(w)
        BY <1>0, <2>0, <2>1, ReadsTaken, KeptCalm
    <2>2. CASE Exchange(w) \/ SettleBegin(w)
        <3>1. kept' = kept /\ pc'[w] # "rollback"
            BY <1>0, <2>2 DEF Exchange, SettleBegin, process, Goto
        <3> QED BY <1>0, <2>0, <2>2, <3>1, CallTaken, KeptCalm
    <2>3. CASE AdmitCommit(w)
        <3>1. /\ kept' = kept /\ pc'[w] # "rollback"
              /\ q'[w].flush = q[w].flush /\ q'[w].written = q[w].written
            <4>1. CASE q[w].decision = "grant"
                BY <1>0, <2>3, <4>1, GrantTaken
            <4>2. CASE q[w].decision # "grant"
                BY <1>0, <2>3, <4>2 DEF AdmitCommit, process, Goto
            <4> QED BY <4>1, <4>2
        <3> QED BY <2>0, <3>1, KeptCalm
    <2>4. CASE SettleCommit(w) \/ Rollback(w)
        <3>1. kept' = kept
            BY <2>4 DEF SettleCommit, Rollback, process
        <3> QED BY <1>0, <2>0, <2>4, <3>1, SettlesTaken, KeptCalm
    <2>5. CASE SettleRefused(w) \/ SettleBusy(w)
        BY <2>0, <2>5, KeptRefused
    <2>6. CASE FlushCopy(w) \/ FlushOne(w) \/ FlushRetain(w)
        BY <2>0, <2>6, KeptFlush
    <2> QED BY <1>1, <2>1, <2>2, <2>3, <2>4, <2>5, <2>6 DEF Step, Reads
<1>2. ASSUME NEW w \in Worker, NEW j \in Job, NEW c \in Countings, Ask(w, j, c) PROVE KeptWell'
    <2>1. /\ q'[w] = Fresh(j, clock, c) /\ kept' = kept /\ pc'[w] = "call"
        BY <1>0, <1>2 DEF Ask, process, Goto
    <2>2. q'[w].flush = {} /\ q'[w].written = {}
        BY <2>1 DEF Fresh
    <2> QED BY <1>0, <1>2, <2>1, <2>2, OthersStay, KeptCalm
<1>3. CASE Crash
    <2>1. /\ kept' = {} /\ \A w \in Worker : pc'[w] = "idle" /\ q'[w].flush = {} /\ q'[w].written = {}
        BY <1>3 DEF Crash, Fresh
    <2> QED BY <2>1 DEF KeptWell, Unique, Copied, Wrote, Unpaid
<1>4. CASE Reconcile
    <2>1. q' = q /\ pc' = pc /\ kept' = kept /\ \A w \in Worker : pc[w] = "idle"
        BY <1>0, <1>4 DEF Reconcile, process, Shape, Flight
    <2>2. Unique' /\ \A w \in Worker : Unpaid(w)'
        BY <2>1 DEF KeptWell, Unique, Unpaid
    <2>3. Copied'
        <3>1. \A v \in Worker : \A k \in q[v].flush : k.id \in 1 .. Len(rows)
            BY <1>0 DEF Shape, Keeping, Apart
        <3> QED BY <2>1, <3>1, KindsStay DEF KeptWell, Copied
    <2>4. Wrote'
        <3>1. 1 .. Len(rows) \subseteq 1 .. Len(rows')
            BY <1>0, RowsStay DEF Shape, TypeOK
        <3> QED BY <2>1, <3>1, KindsStay DEF KeptWell, Wrote
    <2> QED BY <2>2, <2>3, <2>4 DEF KeptWell
<1>5. CASE Serve \/ Tick \/ UNCHANGED vars
    <2>1. q' = q /\ pc' = pc /\ kept' = kept /\ rows' = rows
        BY <1>5 DEF Serve, Tick, vars, process, store
    <2> QED BY <2>1 DEF KeptWell, Unique, Copied, Wrote, Unpaid, OverranOwn, Bill, SettlementOf
<1> QED BY <1>1, <1>2, <1>3, <1>4, <1>5 DEF Next, Quiescent

-----------------------------------------------------------------------------
(* What a question is charged.                                             *)

\* The reservations of a question whose calls have been charged.
Ended(w) ==
    IF pc[w] \in InFlight \cup {"rollback"} THEN q[w].mine \ {q[w].res} ELSE q[w].mine

\* A question is charged what the ledger holds for them.
Balanced(w) == q[w].charged = SumFunctionOnSet(LedgerHolds, Ended(w))

Balance == \A w \in Worker : Balanced(w)

\* What the ledger holds for a reservation: the bill that is kept for it as
\* long as it stands, and its row otherwise.
HoldsKnown ==
    \A i \in 1 .. Len(rows) :
        /\ LedgerHolds[i] \in Nat
        /\ \A k \in kept : k.id = i /\ rows[i].kind = "reservation" => LedgerHolds[i] = k.tokens
        /\ rows[i].kind # "reservation" \/ (\A k \in kept : k.id # i)
              => LedgerHolds[i] = rows[i].tokens

\* It holds by the one bill that is kept for each.
LEMMA HoldsFacts == Accounts /\ KeptWell => HoldsKnown
<1> SUFFICES ASSUME Accounts, KeptWell PROVE HoldsKnown
    OBVIOUS
<1>1. /\ rows \in Seq(Row) /\ DOMAIN rows = 1 .. Len(rows) /\ kept \subseteq Kept /\ Unique
    BY RowsFinite DEF Accounts, Shape, TypeOK, KeptWell
<1> SUFFICES ASSUME NEW i \in 1 .. Len(rows)
             PROVE  /\ LedgerHolds[i] \in Nat
                    /\ \A k \in kept : k.id = i /\ rows[i].kind = "reservation"
                           => LedgerHolds[i] = k.tokens
                    /\ rows[i].kind # "reservation" \/ (\A k \in kept : k.id # i)
                           => LedgerHolds[i] = rows[i].tokens
    BY DEF HoldsKnown
<1>2. rows[i].tokens \in Nat
    <2>1. rows[i] \in Row
        BY <1>1
    <2> QED BY <2>1 DEF Row
<1>3. LedgerHolds[i] = IF rows[i].kind = "reservation" /\ \E k \in kept : k.id = i
                       THEN (CHOOSE k \in kept : k.id = i).tokens ELSE rows[i].tokens
    BY <1>1, Zenon DEF LedgerHolds
<1>4. CASE rows[i].kind = "reservation" /\ \E k \in kept : k.id = i
    <2>1. PICK k \in kept : k.id = i
        BY <1>4
    <2> DEFINE c == CHOOSE m \in kept : m.id = i
    <2>2. c \in kept /\ c.id = i
        BY <2>1
    <2>3. \A m \in kept : m.id = i => m = c
        BY <1>1, <2>2 DEF Unique
    <2>4. LedgerHolds[i] = c.tokens
        BY <1>3, <1>4
    <2>5. c.tokens \in Nat
        BY <1>1, <2>2 DEF Kept
    <2> HIDE DEF c
    <2> QED BY <1>4, <2>1, <2>3, <2>4, <2>5
<1>5. CASE ~(rows[i].kind = "reservation" /\ \E k \in kept : k.id = i)
    <2>1. LedgerHolds[i] = rows[i].tokens
        BY <1>3, <1>5
    <2> QED BY <1>2, <1>5, <2>1
<1> QED BY <1>4, <1>5

\* A row that stays as it was, with the bill that is kept for it, holds what
\* it held.
LEMMA HoldsSame ==
    ASSUME HoldsKnown, HoldsKnown', NEW i \in 1 .. Len(rows), i \in 1 .. Len(rows'),
           rows'[i].kind = rows[i].kind, rows'[i].tokens = rows[i].tokens,
           rows[i].kind = "reservation" =>
               /\ \A k \in kept : k.id = i => k \in kept'
               /\ \A k \in kept' : k.id = i => k \in kept
    PROVE  LedgerHolds'[i] = LedgerHolds[i]
<1>1. CASE rows[i].kind # "reservation" \/ \A k \in kept : k.id # i
    <2>1. LedgerHolds[i] = rows[i].tokens
        BY <1>1 DEF HoldsKnown
    <2>2. rows'[i].kind # "reservation" \/ \A k \in kept' : k.id # i
        BY <1>1
    <2>3. LedgerHolds'[i] = rows'[i].tokens
        BY <2>2 DEF HoldsKnown
    <2> QED BY <2>1, <2>3
<1>2. ASSUME rows[i].kind = "reservation", NEW k \in kept, k.id = i
      PROVE  LedgerHolds'[i] = LedgerHolds[i]
    <2>1. LedgerHolds[i] = k.tokens
        BY <1>2 DEF HoldsKnown
    <2>2. k \in kept' /\ rows'[i].kind = "reservation"
        BY <1>2
    <2>3. LedgerHolds'[i] = k.tokens
        BY <1>2, <2>2 DEF HoldsKnown
    <2> QED BY <2>1, <2>3
<1> QED BY <1>1, <1>2

\* The steps of a thread that settle its own reservation.
Settles(w) == SettleCommit(w) \/ SettleRefused(w) \/ SettleBusy(w)

\* Every other step leaves what the ledger holds for a reservation.
LEMMA HoldsStay ==
    ASSUME Accounts, KeptWell, HoldsKnown, HoldsKnown', [Next]_vars, NEW w \in Worker,
           Step(w) \/ \E j \in Job, c \in Countings : Ask(w, j, c),
           NEW i \in 1 .. Len(rows), Settles(w) => i # q[w].res
    PROVE  LedgerHolds'[i] = LedgerHolds[i]
<1>1. /\ Shape /\ Courses /\ Above /\ Unique /\ i \in 1 .. Len(rows')
      /\ rows \in Seq(Row) /\ Len(rows) \in Nat
    BY RowsStay DEF Accounts, Shape, TypeOK, KeptWell
<1>2. ASSUME rows'[i].kind = rows[i].kind, rows'[i].tokens = rows[i].tokens,
             \A k \in kept : k.id = i /\ rows[i].kind = "reservation" => k \in kept',
             \A k \in kept' : k.id = i /\ rows[i].kind = "reservation" => k \in kept
      PROVE  LedgerHolds'[i] = LedgerHolds[i]
    BY <1>1, <1>2, HoldsSame
<1>3. CASE Reads(w) \/ FlushCopy(w) \/ SettleBegin(w) \/ Rollback(w)
           \/ \E j \in Job, c \in Countings : Ask(w, j, c)
    <2>1. rows' = rows /\ kept' = kept
        BY <1>1, <1>3, ReadsTaken
           DEF FlushCopy, SettleBegin, Rollback, Ask, store, process
    <2> QED BY <1>2, <2>1
<1>4. CASE Exchange(w)
    <2>1. Recorded /\ kept' = kept
        BY <1>1, <1>4, ExchangeRecorded DEF Exchange, process
    <2>2. SameTerms(rows'[i], rows[i])
        BY <2>1 DEF Recorded
    <2> QED BY <1>2, <2>1, <2>2 DEF SameTerms
<1>5. CASE AdmitCommit(w)
    <2>1. kept' = kept
        BY <1>5 DEF AdmitCommit, process
    <2>2. rows'[i] = rows[i]
        <3>1. CASE q[w].decision = "grant"
            <4>1. PICK row \in Row : rows' = Append(rows, row)
                BY <1>1, <1>5, <3>1, GrantRow
            <4> QED BY <1>1, <4>1
        <3>2. CASE q[w].decision # "grant"
            BY <1>5, <3>2 DEF AdmitCommit
        <3> QED BY <3>1, <3>2
    <2> QED BY <1>2, <2>1, <2>2
<1>6. CASE SettleCommit(w)
    <2>1. /\ Paid(q[w].res, SettlementOf(w)) /\ kept' = kept /\ i # q[w].res
        BY <1>1, <1>6, CommitPaid DEF SettleCommit, process, Settles
    <2>2. rows'[i] = rows[i]
        BY <2>1 DEF Paid
    <2> QED BY <1>2, <2>1, <2>2
<1>7. CASE SettleRefused(w) \/ SettleBusy(w)
    <2>1. /\ KeepIfOverran(w) /\ pc[w] \in InFlight /\ rows' = rows /\ i # q[w].res
        BY <1>7 DEF SettleRefused, SettleBusy, At, InFlight, store, Settles
    <2>2. kept \subseteq kept' /\ \A k \in kept' : k \in kept \/ k.id = q[w].res
        BY <1>1, <2>1, RefusedKeeps
    <2> QED BY <1>2, <2>1, <2>2
<1>8. CASE FlushRetain(w)
    <2>1. rows' = rows /\ kept' = {k \in kept : k.id \notin q[w].written}
        BY <1>8 DEF FlushRetain, store
    <2>2. \A k \in kept : rows[k.id].kind = "reservation" => k \in kept'
        BY <2>1 DEF KeptWell, Wrote
    <2> QED BY <1>2, <2>1, <2>2
<1>9. CASE FlushOne(w)
    <2>1. PICK k \in q[w].flush :
              /\ k \in Kept /\ k.id \in 1 .. Len(rows)
              /\ \/ /\ kept' = kept /\ rows' = rows /\ rows[k.id].kind # "reservation"
                 \/ /\ kept' = kept /\ Paid(k.id, Usage(k.tokens))
                 \/ /\ Keep(k.id, k.tokens) /\ rows' = rows
        BY <1>9, FlushTaken
    <2>2. rows[k.id].kind = "reservation" => k \in kept
        BY DEF KeptWell, Copied
    <2>3. CASE kept' = kept /\ rows' = rows
        BY <1>2, <2>3
    <2>4. CASE kept' = kept /\ Paid(k.id, Usage(k.tokens))
        <3>1. CASE i # k.id
            <4>1. rows'[i] = rows[i]
                BY <2>4, <3>1 DEF Paid
            <4> QED BY <1>2, <2>4, <4>1
        <3>2. CASE i = k.id
            <4>1. /\ rows[i].kind = "reservation" /\ rows'[i].kind = Usage(k.tokens).kind
                  /\ rows'[i].tokens = IF Usage(k.tokens).kind = "unknown" THEN rows[i].tokens
                                       ELSE Usage(k.tokens).tokens
                BY <2>4, <3>2 DEF Paid
            <4>2. rows'[i].kind = "usage" /\ rows'[i].tokens = k.tokens
                BY <4>1 DEF Usage
            <4>3. LedgerHolds[i] = k.tokens
                BY <2>2, <3>2, <4>1 DEF HoldsKnown
            <4>4. LedgerHolds'[i] = rows'[i].tokens
                BY <1>1, <4>2 DEF HoldsKnown
            <4> QED BY <4>2, <4>3, <4>4
        <3> QED BY <3>1, <3>2
    <2>5. CASE Keep(k.id, k.tokens) /\ rows' = rows
        <3>1. PICK id, n : id = k.id /\ n = k.tokens
            OBVIOUS
        <3>2. Keep(id, n)
            BY <2>5, <3>1
        <3>3. /\ kept \subseteq kept'
              /\ \A m \in kept' : m \in kept \/ m.id = id
              /\ (\E m \in kept : m.id = id) => kept' = kept
            BY <1>1, <3>2, KeepOnce
        <3>4. ASSUME rows[i].kind = "reservation", NEW m \in kept', m.id = i PROVE m \in kept
            <4>1. CASE i = k.id
                BY <2>2, <3>1, <3>3, <3>4, <4>1
            <4>2. CASE i # k.id
                BY <3>1, <3>3, <3>4, <4>2
            <4> QED BY <4>1, <4>2
        <3> QED BY <1>2, <2>5, <3>3, <3>4
    <2> QED BY <2>1, <2>3, <2>4, <2>5
<1> QED BY <1>3, <1>4, <1>5, <1>6, <1>7, <1>8, <1>9 DEF Step, Reads

\* The charged reservations of a question are rows with a figure.
LEMMA EndedRows ==
    ASSUME Accounts, HoldsKnown, NEW w \in Worker
    PROVE  /\ Ended(w) \subseteq q[w].mine /\ q[w].mine \subseteq 1 .. Len(rows)
           /\ IsFiniteSet(Ended(w)) /\ Numbers(LedgerHolds, Ended(w))
           /\ SumFunctionOnSet(LedgerHolds, Ended(w)) \in Int
<1>1. Ended(w) \subseteq q[w].mine /\ q[w].mine \subseteq 1 .. Len(rows)
    BY DEF Ended, Accounts, Courses, Course, OwnRow
<1>2. IsFiniteSet(Ended(w))
    <2>1. rows \in Seq(Row)
        BY DEF Accounts, Shape, TypeOK
    <2> QED BY <1>1, <2>1, RowsFinite, FS_Subset
<1>3. Numbers(LedgerHolds, Ended(w))
    BY <1>1 DEF Numbers, HoldsKnown
<1> QED BY <1>1, <1>2, <1>3, SumType

\* A question that charges nothing is charged as long as its rows hold.
LEMMA BalanceKept ==
    ASSUME Accounts, HoldsKnown, NEW w \in Worker, Balanced(w),
           q'[w].charged = q[w].charged, Ended(w)' = Ended(w),
           \A i \in Ended(w) : LedgerHolds'[i] = LedgerHolds[i]
    PROVE  Balanced(w)'
<1> DEFINE S == Ended(w)
           f == LedgerHolds
           g == LedgerHolds'
<1>1. IsFiniteSet(S) /\ Numbers(f, S) /\ \A i \in S : f[i] = g[i]
    BY EndedRows
<1>2. q[w].charged = SumFunctionOnSet(f, S)
    BY DEF Balanced
<1> HIDE DEF S, f, g
<1>3. SumFunctionOnSet(f, S) = SumFunctionOnSet(g, S)
    BY <1>1, SumSame
<1>4. q'[w].charged = SumFunctionOnSet(g, S)
    BY <1>2, <1>3
<1> QED BY <1>4 DEF Balanced, S, g

\* A question that is charged what its call's row then holds is charged.
LEMMA BalanceCharged ==
    ASSUME Accounts, HoldsKnown, NEW w \in Worker, Balanced(w),
           pc[w] \in {"settle", "settling", "rollback"},
           NEW n \in Nat, Charge(w, n), LedgerHolds'[q[w].res] = n,
           \A i \in Ended(w) : LedgerHolds'[i] = LedgerHolds[i]
    PROVE  Balanced(w)'
<1> DEFINE S  == Ended(w)
           id == q[w].res
           f  == LedgerHolds
           g  == LedgerHolds'
<1>1. Shape /\ Courses
    BY DEF Accounts
<1>2. id \in q[w].mine /\ id \notin S /\ q[w].mine = S \cup {id}
    BY <1>1 DEF Ended, InFlight, Courses, Course, OwnRow, Billed, Heard
<1>3. /\ q'[w].charged = q[w].charged + n /\ q'[w].mine = q[w].mine
      /\ pc'[w] \in {"counted", "completed"}
    BY <1>1, ChargeTaken
<1>4. Ended(w)' = S \cup {id}
    BY <1>2, <1>3 DEF Ended, InFlight
<1>5. /\ IsFiniteSet(S) /\ Numbers(f, S) /\ (\A i \in S : f[i] = g[i]) /\ g[id] = n
      /\ SumFunctionOnSet(f, S) \in Int
    BY EndedRows
<1>6. q[w].charged = SumFunctionOnSet(f, S)
    BY DEF Balanced
<1> HIDE DEF S, f, g, id
<1>7. SumFunctionOnSet(f, S) = SumFunctionOnSet(g, S)
    BY <1>5, SumSame
<1>8. Numbers(g, S \cup {id})
    BY <1>5 DEF Numbers
<1>9. SumFunctionOnSet(g, S \cup {id}) = g[id] + SumFunctionOnSet(g, S)
    BY <1>2, <1>5, <1>8, SumAdds
<1>10. q'[w].charged = SumFunctionOnSet(g, S \cup {id})
    BY <1>3, <1>5, <1>6, <1>7, <1>9
<1> QED BY <1>4, <1>10 DEF Balanced, g

\* What a thread that settles is charged is what the ledger holds then.
LEMMA SettlesBalanced ==
    ASSUME Accounts, KeptWell, KeptWell', Accounts', HoldsKnown, HoldsKnown', [Next]_vars,
           NEW w \in Worker, Balanced(w),
           SettleCommit(w) \/ SettleBusy(w) \/ Rollback(w)
    PROVE  Balanced(w)'
<1> DEFINE s == SettlementOf(w)
           id == q[w].res
           e == rows[id].est
<1>1. Shape /\ Courses /\ Covered /\ Unique /\ rows \in Seq(Row)
    BY DEF Accounts, KeptWell, Shape, TypeOK
<1>2. /\ pc[w] \in {"settle", "settling", "rollback"}
      /\ SettleCommit(w) => pc[w] = "settling"
      /\ SettleBusy(w) => pc[w] = "settle"
      /\ Rollback(w) => pc[w] = "rollback"
    BY DEF SettleCommit, SettleBusy, Rollback, At
<1>3. id \in 1 .. Len(rows) /\ id \in 1 .. Len(rows')
    <2>1. id \in 1 .. Len(rows)
        BY <1>1, <1>2, FlightFacts DEF InFlight
    <2> QED BY <1>1, <2>1, RowsStay
<1>4. rows[id].kind = "reservation" /\ rows[id].tokens = e
    <2>1. rows[id].kind = "reservation"
        BY <1>1, <1>2, FlightFacts DEF InFlight, KeptWell, Unpaid
    <2> QED BY <1>1, <1>3, <2>1 DEF Covered, Covers
<1>5. \A i \in Ended(w) : LedgerHolds'[i] = LedgerHolds[i]
    <2>1. \A i \in Ended(w) : i \in 1 .. Len(rows) /\ i # id
        BY <1>2, EndedRows DEF Ended, InFlight
    <2>2. Step(w)
        BY DEF Step
    <2> QED BY <2>1, <2>2, HoldsStay
<1>6. CASE SettleCommit(w)
    <2>1. PICK n \in Nat : Charge(w, n) /\ n = Holds(s, e)
        BY <1>1, <1>6, CommitCharges
    <2>2. Paid(id, s) /\ s \in Settlement
        BY <1>1, <1>6, CommitPaid
    <2>3. /\ rows'[id].kind # "reservation"
          /\ rows'[id].tokens = IF s.kind = "unknown" THEN rows[id].tokens ELSE s.tokens
        <3>1. s.kind # "reservation"
            BY <2>2 DEF Settlement
        <3> HIDE DEF s, id
        <3> QED BY <2>2, <3>1 DEF Paid
    <2>4. LedgerHolds'[id] = rows'[id].tokens
        BY <1>3, <2>3 DEF HoldsKnown
    <2>5. LedgerHolds'[id] = n
        <3> HIDE DEF s, id, e
        <3> QED BY <1>4, <2>1, <2>3, <2>4 DEF Holds
    <2> QED BY <1>2, <1>5, <2>1, <2>5, BalanceCharged
<1>7. CASE SettleBusy(w) \/ Rollback(w)
    <2>1. PICK n \in Nat : /\ Charge(w, n)
                           /\ n = IF Overran(s, e) THEN s.tokens ELSE e
        BY <1>1, <1>2, <1>7, UnsettledTaken DEF SettleBusy, Rollback
    <2>2. rows' = rows
        BY <1>7 DEF SettleBusy, Rollback, store
    <2>3. /\ Overran(s, e) => Bill(w) \in kept'
          /\ ~Overran(s, e) => \A k \in kept' : k.id # id
        <3>1. CASE SettleBusy(w)
            <4>1. KeepIfOverran(w) /\ pc[w] \in InFlight
                BY <1>2, <3>1 DEF SettleBusy, InFlight, At
            <4>2. \A k \in kept : k.id # id
                BY <1>1, <4>1, FlightFacts
            <4> QED BY <1>1, <4>1, <4>2, RefusedKeeps DEF OverranOwn
        <3>2. CASE Rollback(w)
            <4>1. kept' = kept
                BY <3>2 DEF Rollback, process
            <4> QED BY <1>2, <3>2, <4>1 DEF KeptWell, Unpaid, OverranOwn
        <3> QED BY <1>7, <3>1, <3>2
    <2>4. LedgerHolds'[id] = n
        <3>1. CASE Overran(s, e)
            <4>1. PICK k \in kept' : k = Bill(w)
                BY <2>3, <3>1
            <4>2. k.id = id /\ k.tokens = s.tokens
                BY <4>1 DEF Bill
            <4>3. LedgerHolds'[id] = k.tokens
                BY <1>3, <1>4, <2>2, <4>2 DEF HoldsKnown
            <4> QED BY <2>1, <3>1, <4>2, <4>3
        <3>2. CASE ~Overran(s, e)
            <4>1. LedgerHolds'[id] = rows'[id].tokens
                BY <1>3, <2>3, <3>2 DEF HoldsKnown
            <4> QED BY <1>4, <2>1, <2>2, <3>2, <4>1
        <3> QED BY <3>1, <3>2
    <2> QED BY <1>2, <1>5, <2>1, <2>4, BalanceCharged
<1> QED BY <1>6, <1>7

\* A step of thread w leaves the questions of the others charged.
LEMMA BalanceOthers ==
    ASSUME Accounts, KeptWell, HoldsKnown, HoldsKnown', [Next]_vars, NEW w \in Worker,
           Step(w) \/ \E j \in Job, c \in Countings : Ask(w, j, c),
           NEW v \in Worker \ {w}, Balanced(v)
    PROVE  Balanced(v)'
<1>1. Shape /\ Courses
    BY DEF Accounts
<1>2. q'[v] = q[v] /\ pc'[v] = pc[v]
    BY <1>1, OthersStay
<1>3. Ended(v)' = Ended(v)
    BY <1>2 DEF Ended
<1>4. ASSUME NEW i \in Ended(v) PROVE LedgerHolds'[i] = LedgerHolds[i]
    <2>1. i \in q[v].mine /\ i \in 1 .. Len(rows)
        BY EndedRows
    <2>2. Settles(w) => i # q[w].res
        <3>1. ASSUME Settles(w) PROVE q[w].res \in q[w].mine
            <4>1. pc[w] \in {"settle", "settling"}
                BY <3>1 DEF Settles, SettleCommit, SettleRefused, SettleBusy, At
            <4> QED BY <1>1, <4>1 DEF Courses, Course, OwnRow, Billed, Heard
        <3>2. i \notin q[w].mine
            BY <1>1, <2>1 DEF Courses, OwnRows
        <3> QED BY <3>1, <3>2
    <2> QED BY <2>1, <2>2, HoldsStay
<1> QED BY <1>2, <1>3, <1>4, BalanceKept

\* A step of a thread leaves its own question charged.
LEMMA BalanceOwn ==
    ASSUME Accounts, KeptWell, Accounts', KeptWell', HoldsKnown, HoldsKnown', [Next]_vars,
           NEW w \in Worker, Step(w), Balanced(w)
    PROVE  Balanced(w)'
<1>1. /\ Shape /\ Courses /\ q \in [Worker -> Question] /\ pc \in [Worker -> PC]
      /\ q[w] \in Question /\ Len(rows) \in Nat
    BY DEF Accounts, Shape, TypeOK
<1>2. ASSUME q'[w].charged = q[w].charged, Ended(w)' = Ended(w),
             Settles(w) => pc[w] \in InFlight \cup {"rollback"}
      PROVE  Balanced(w)'
    <2>1. \A i \in Ended(w) : LedgerHolds'[i] = LedgerHolds[i]
        <3>1. \A i \in Ended(w) : i \in 1 .. Len(rows) /\ (Settles(w) => i # q[w].res)
            BY <1>2, EndedRows DEF Ended
        <3> QED BY <3>1, HoldsStay
    <2> QED BY <1>2, <2>1, BalanceKept
<1>3. CASE SettleCommit(w) \/ SettleBusy(w) \/ Rollback(w)
    BY <1>3, SettlesBalanced
<1>4. CASE Reads(w)
    <2>1. pc[w] \notin InFlight \cup {"rollback"} /\ ~Settles(w)
        BY <1>4 DEF Reads, Call, Refused, AfterCount, BoundTripped, AfterCompletion,
           AdmitBegin, AdmitCheck, AdmitFail, At, InFlight, Settles, SettleCommit,
           SettleRefused, SettleBusy
    <2>2. /\ q'[w].charged = q[w].charged /\ q'[w].mine = q[w].mine
          /\ pc'[w] \in {"call", "admit", "check", "commit", "refused", "done"}
        BY <1>1, <1>4, ReadsTaken
    <2>3. Ended(w)' = Ended(w)
        BY <2>1, <2>2 DEF Ended, InFlight
    <2> QED BY <1>2, <2>1, <2>2, <2>3
<1>5. CASE FlushCopy(w) \/ FlushOne(w) \/ FlushRetain(w)
    <2>1. pc[w] \in {"admit", "flush"} /\ ~Settles(w)
        BY <1>5 DEF FlushCopy, FlushOne, FlushRetain, At, Settles, SettleCommit,
           SettleRefused, SettleBusy
    <2>2. /\ q'[w].charged = q[w].charged /\ q'[w].mine = q[w].mine
          /\ pc'[w] \in {"flush", "begin"}
        <3>1. CASE FlushCopy(w) \/ FlushRetain(w)
            BY <1>1, <3>1 DEF FlushCopy, FlushRetain, Goto, Question
        <3>2. CASE FlushOne(w)
            BY <3>2, FlushTaken
        <3> QED BY <1>5, <3>1, <3>2
    <2>3. Ended(w)' = Ended(w)
        BY <2>1, <2>2 DEF Ended, InFlight
    <2> QED BY <1>2, <2>1, <2>2, <2>3
<1>6. CASE Exchange(w) \/ SettleBegin(w) \/ SettleRefused(w)
    <2>1. pc[w] \in InFlight /\ pc'[w] \in {"settle", "settling", "rollback"}
        BY <1>1, <1>6 DEF Exchange, SettleBegin, SettleRefused, At, Goto, InFlight
    <2>2. q'[w].charged = q[w].charged /\ q'[w].mine = q[w].mine /\ q'[w].res = q[w].res
        BY <1>1, <1>6, CallTaken
    <2>3. Ended(w)' = Ended(w)
        BY <2>1, <2>2 DEF Ended, InFlight
    <2> QED BY <1>2, <2>1, <2>2, <2>3
<1>7. CASE AdmitCommit(w)
    <2>1. pc[w] = "commit" /\ ~Settles(w)
        BY <1>7 DEF AdmitCommit, At, Settles, SettleCommit, SettleRefused, SettleBusy
    <2>2. CASE q[w].decision = "grant"
        <3>1. /\ q'[w].mine = q[w].mine \cup {Len(rows) + 1} /\ q'[w].res = Len(rows) + 1
              /\ q'[w].charged = q[w].charged /\ pc'[w] = "send"
            BY <1>1, <1>7, <2>2, GrantTaken
        <3>2. Len(rows) + 1 \notin q[w].mine
            <4>1. q[w].mine \subseteq 1 .. Len(rows)
                BY EndedRows
            <4> QED BY <1>1, <4>1
        <3>3. Ended(w)' = Ended(w)
            BY <2>1, <3>1, <3>2 DEF Ended, InFlight
        <3> QED BY <1>2, <2>1, <3>1, <3>3
    <2>3. CASE q[w].decision # "grant"
        <3>1. q' = q /\ pc'[w] = "refused"
            BY <1>1, <1>7, <2>3 DEF AdmitCommit, Goto
        <3>2. Ended(w)' = Ended(w)
            BY <2>1, <3>1 DEF Ended, InFlight
        <3> QED BY <1>2, <2>1, <3>1, <3>2
    <2> QED BY <2>2, <2>3
<1> QED BY <1>3, <1>4, <1>5, <1>6, <1>7 DEF Step, Reads

\* A question that has not started has nothing to be charged.
LEMMA BalanceFresh ==
    ASSUME NEW w \in Worker, q[w].mine = {}, q[w].charged = 0 PROVE Balanced(w)
<1>1. Ended(w) = {}
    BY DEF Ended
<1> QED BY <1>1, SumUnfolds, FS_EmptySet DEF Balanced

\* Every step leaves every question charged.
LEMMA BalanceNext ==
    ASSUME Accounts, KeptWell, Accounts', KeptWell', HoldsKnown, HoldsKnown', Balance,
           \A w \in Worker : q'[w].mine = {} /\ q'[w].charged = 0 => Balanced(w)',
           [Next]_vars
    PROVE  Balance'
<1>1. /\ Shape /\ Courses /\ q \in [Worker -> Question] /\ pc \in [Worker -> PC]
      /\ \A w \in Worker : Balanced(w)
    BY DEF Accounts, Shape, TypeOK, Balance
<1>2. ASSUME NEW w \in Worker, Step(w) PROVE Balance'
    <2>1. Balanced(w)'
        BY <1>1, <1>2, BalanceOwn
    <2>2. \A v \in Worker \ {w} : Balanced(v)'
        BY <1>1, <1>2, BalanceOthers
    <2> QED BY <2>1, <2>2 DEF Balance
<1>3. ASSUME NEW w \in Worker, NEW j \in Job, NEW c \in Countings, Ask(w, j, c) PROVE Balance'
    <2>1. q'[w] = Fresh(j, clock, c)
        BY <1>1, <1>3 DEF Ask
    <2>2. Balanced(w)'
        BY <2>1 DEF Fresh
    <2>3. \A v \in Worker \ {w} : Balanced(v)'
        BY <1>1, <1>3, BalanceOthers
    <2> QED BY <2>2, <2>3 DEF Balance
<1>4. CASE Crash
    <2>1. \A w \in Worker : q'[w].mine = {} /\ q'[w].charged = 0
        BY <1>4 DEF Crash, Fresh
    <2> QED BY <2>1 DEF Balance
<1>5. CASE Reconcile
    <2>1. \A w \in Worker : q'[w].mine = {} /\ q'[w].charged = 0
        BY <1>1, <1>5 DEF Reconcile, Courses, Course, OwnFrame
    <2> QED BY <2>1 DEF Balance
<1>6. CASE Serve \/ Tick \/ UNCHANGED vars
    <2>1. q' = q /\ pc' = pc /\ kept' = kept /\ rows' = rows
        BY <1>6 DEF Serve, Tick, vars, process, store
    <2>2. LedgerHolds' = LedgerHolds
        BY <2>1 DEF LedgerHolds
    <2>3. \A w \in Worker : Ended(w)' = Ended(w)
        BY <2>1 DEF Ended
    <2> QED BY <1>1, <2>1, <2>2, <2>3 DEF Balance, Balanced
<1> QED BY <1>2, <1>3, <1>4, <1>5, <1>6 DEF Next, Quiescent

\* Nothing has started, and nothing is kept.
LEMMA BalanceInit == Init => KeptWell /\ Balance
<1> SUFFICES ASSUME Init PROVE KeptWell /\ Balance
    OBVIOUS
<1>1. /\ kept = {} /\ \A w \in Worker : /\ q[w].mine = {} /\ q[w].charged = 0
                                        /\ q[w].flush = {} /\ q[w].written = {}
                                        /\ pc[w] = "idle"
    BY DEF Init, Fresh
<1>2. KeptWell
    BY <1>1 DEF KeptWell, Unique, Copied, Wrote, Unpaid
<1>3. Balance
    BY <1>1, BalanceFresh DEF Balance
<1> QED BY <1>2, <1>3

\* No question has nothing to be charged and is charged.
FreshBalanced == \A w \in Worker : q[w].mine = {} /\ q[w].charged = 0 => Balanced(w)

\* The cost a question reports is what the ledger holds for its reservations
\* (finish and Cost::charged, model.rs), over counts, repairs, refused
\* settlements, and other threads writing what this one left behind.
THEOREM ChargesAgree == Spec => []ChargedAgrees
<1>1. Init => KeptWell /\ Balance
    BY BalanceInit
<1>2. Accounts /\ KeptWell /\ [Next]_vars => KeptWell'
    BY KeptNext
<1>3. Accounts /\ KeptWell => HoldsKnown
    BY HoldsFacts
<1>4. FreshBalanced
    BY BalanceFresh DEF FreshBalanced
<1>5. Accounts /\ KeptWell /\ Accounts' /\ KeptWell' /\ HoldsKnown /\ HoldsKnown'
        /\ Balance /\ FreshBalanced' /\ [Next]_vars => Balance'
    <2>1. ASSUME Accounts, KeptWell, Accounts', KeptWell', HoldsKnown, HoldsKnown', Balance,
                 FreshBalanced', [Next]_vars
          PROVE  Balance'
        <3>1. \A w \in Worker : q'[w].mine = {} /\ q'[w].charged = 0 => Balanced(w)'
            BY <2>1 DEF FreshBalanced
        <3> QED BY <2>1, <3>1, BalanceNext
    <2> QED BY <2>1
<1>6. Balance => ChargedAgrees
    <2>1. ASSUME Balance, NEW w \in Worker, pc[w] = "done"
          PROVE  q[w].charged = SumFunctionOnSet(LedgerHolds, q[w].mine)
        BY <2>1 DEF Balance, Balanced, Ended, InFlight
    <2> QED BY <2>1 DEF ChargedAgrees
<1> QED BY <1>1, <1>2, <1>3, <1>4, <1>5, <1>6, AccountsHold, PTL DEF Spec

-----------------------------------------------------------------------------
(* What a question's attempts may hold.                                    *)

\* The larger of two figures.
LEMMA MaxOfPair ==
    ASSUME NEW a \in Nat, NEW b \in Nat
    PROVE  Max({a, b}) \in Nat /\ a <= Max({a, b}) /\ b <= Max({a, b})
<1>1. \E x \in {a, b} : \A y \in {a, b} : x >= y
    OBVIOUS
<1>2. Max({a, b}) \in {a, b} /\ \A y \in {a, b} : Max({a, b}) >= y
    BY <1>1 DEF Max
<1> QED BY <1>2

\* The bodies that question_worst prices: more room, or CBR's own sentence.
LEMMA WorstBodies ==
    /\ Repaired(Fresh(AnyJob, 0, "could_admit"), "truncated").local = Local
    /\ Repaired(Fresh(AnyJob, 0, "could_admit"), "truncated").gen = 2 * Generation
    /\ Repaired(Fresh(AnyJob, 0, "could_admit"), "unstructured").local = Local + Instruction
    /\ Repaired(Fresh(AnyJob, 0, "could_admit"), "unstructured").gen = Generation
<1> DEFINE x == Fresh(AnyJob, 0, "could_admit")
           wide == [x EXCEPT !.gen = 2 * @]
           long == [x EXCEPT !.local = @ + Instruction]
<1>1. x \in Question /\ x.local = Local /\ x.gen = Generation
    BY AnyJobType, FreshType DEF Counting, Fresh
<1> HIDE DEF x
<1>2. /\ wide \in Question /\ wide.local = Local /\ wide.gen = 2 * Generation
      /\ long \in Question /\ long.local = Local + Instruction /\ long.gen = Generation
    BY <1>1, RuntimeAssumption DEF Question
<1> HIDE DEF wide, long
<1>3. ASSUME NEW body \in Question, NEW new,
             new = [body EXCEPT !.repairs = @ + 1, !.res = 0, !.on = Silent, !.held = 0,
                                !.answer = NoAnswer, !.refusal = "grant"]
      PROVE  new.local = body.local /\ new.gen = body.gen
    BY <1>3 DEF Question
<1>4. Repaired(x, "truncated") =
          [wide EXCEPT !.repairs = @ + 1, !.res = 0, !.on = Silent, !.held = 0,
                       !.answer = NoAnswer, !.refusal = "grant"]
    BY Zenon DEF Repaired, wide
<1>5. Repaired(x, "unstructured") =
          [long EXCEPT !.repairs = @ + 1, !.res = 0, !.on = Silent, !.held = 0,
                       !.answer = NoAnswer, !.refusal = "grant"]
    <2>1. "unstructured" # "truncated"
        OBVIOUS
    <2> QED BY <2>1, Zenon DEF Repaired, long
<1>6. Repaired(x, "truncated").local = wide.local /\ Repaired(x, "truncated").gen = wide.gen
    BY <1>2, <1>3, <1>4
<1>7. Repaired(x, "unstructured").local = long.local /\ Repaired(x, "unstructured").gen = long.gen
    BY <1>2, <1>3, <1>5
<1> QED BY <1>2, <1>6, <1>7 DEF x

\* What the attempts before this one reserved.
Prior(w) == IF q[w].repairs = 0 THEN 0 ELSE Send(Local, Generation)

\* An attempt's send, after what was reserved before it, is within the worst.
LEMMA WorstPrice ==
    ASSUME Shape, NEW w \in Worker, OwnBody(w)
    PROVE  /\ Prior(w) \in Nat /\ Send(q[w].local, q[w].gen) \in Nat /\ QuestionWorst \in Nat
           /\ q[w].local <= Send(q[w].local, q[w].gen)
           /\ Prior(w) + Send(q[w].local, q[w].gen) <= QuestionWorst
<1> DEFINE A == Send(Local, Generation)
           B == Send(Local, 2 * Generation)
           C == Send(Local + Instruction, Generation)
<1>1. A \in Nat /\ B \in Nat /\ C \in Nat
    BY RuntimeAssumption DEF Send
<1>2. QuestionWorst = A + Max({B, C})
    BY WorstBodies DEF QuestionWorst
<1>3. Max({B, C}) \in Nat /\ B <= Max({B, C}) /\ C <= Max({B, C})
    <2> HIDE DEF B, C
    <2> QED BY <1>1, MaxOfPair
<1>4. q[w].local \in Nat /\ q[w].gen \in Nat
    BY Typed
<1>5. Send(q[w].local, q[w].gen) \in Nat /\ q[w].local <= Send(q[w].local, q[w].gen)
    BY <1>4, RuntimeAssumption DEF Send
<1>6. \/ Prior(w) = 0 /\ Send(q[w].local, q[w].gen) = A
      \/ Prior(w) = A /\ Send(q[w].local, q[w].gen) \in {B, C}
    BY DEF OwnBody, Prior
<1> HIDE DEF A, B, C
<1> QED BY <1>1, <1>2, <1>3, <1>5, <1>6

\* What one attempt reserves (m5-settle, model.rs): the count's charge and the
\* completion's reservation together are within the send that the local bound
\* refused, even when other threads free room while the count is out; under
\* Counting::Always they are within the send and one more input bound.
THEOREM AttemptsArePriced == Spec => []AttemptWithinSend
<1>1. ASSUME Accounts, NEW w \in Worker,
             pc[w] \in {"send", "settle", "settling", "rollback", "completed"},
             q[w].call = "completion"
      PROVE  q[w].held + rows[q[w].res].est
                 <= Send(q[w].local, q[w].gen) + (IF Always(w) THEN q[w].local ELSE 0)
    <2>1. Course(w) /\ pc[w] \in Billed
        BY <1>1 DEF Accounts, Courses, Billed, Heard
    <2>2. rows[q[w].res].est = q[w].want
        BY <2>1 DEF Course, OwnRow
    <2>3. q[w].held + q[w].want <= Send(q[w].local, q[w].gen) + Extra(w)
        BY <1>1, <2>1 DEF Course, OwnPrice
    <2> QED BY <2>2, <2>3 DEF Extra, Always
<1>2. Accounts => AttemptWithinSend
    BY <1>1 DEF AttemptWithinSend
<1> QED BY <1>2, AccountsHold, PTL

\* A question ends without an answer.
GivesUp(w) ==
    /\ pc[w] \in Asking \cup {"call", "counted", "completed"}
    /\ pc'[w] = "done" /\ q'[w].outcome \in {"unmet", "refused"}

\* A question ends with an answer that was billed within its reservation.
GivesAnswer(w) ==
    /\ pc[w] = "completed" /\ q[w].answer.type = "completed" /\ ~OverranCall(w)
    /\ pc'[w] = "done"

\* A call has a figure asked for, or asks on.
AsksOn(w) ==
    /\ \/ pc[w] \in Asking \cup {"call"}
       \/ pc[w] = "counted" /\ q[w].answer.type = "counted"
    /\ pc'[w] \in Asking
    /\ q'[w].held = q[w].held /\ q'[w].repairs = q[w].repairs

\* An answer that cannot be used is asked for again.
AsksAgain(w) ==
    /\ pc[w] = "completed" /\ q[w].answer.type = "completed" /\ ~OverranCall(w)
    /\ q[w].repairs = 0 /\ q'[w].repairs = 1
    /\ pc'[w] = "call" /\ q'[w].held = 0

\* The steps of a thread that only read are these.
LEMMA ReadsKinds ==
    ASSUME Shape, NEW w \in Worker, Reads(w)
    PROVE  GivesUp(w) \/ GivesAnswer(w) \/ AsksOn(w) \/ AsksAgain(w)
<1>1. q \in [Worker -> Question] /\ pc \in [Worker -> PC] /\ q[w] \in Question
      /\ q[w].repairs \in Nat
    BY DEF Shape, TypeOK, Question
<1>2. ASSUME NEW o, End(w, q[w], o)
      PROVE  /\ pc'[w] = "done" /\ q'[w].outcome = o
    BY <1>2, EndTaken
<1>3. CASE Call(w)
    <2>1. pc[w] = "call"
        BY <1>3 DEF Call, At
    <2>2. CASE End(w, q[w], "unmet")
        BY <1>2, <2>1, <2>2 DEF GivesUp
    <2>3. CASE ~End(w, q[w], "unmet")
        <3>1. PICK cl, n : /\ q' = [q EXCEPT ![w] = Admitting(q[w], cl, n)]
                           /\ pc' = [pc EXCEPT ![w] = "admit"]
            BY <1>3, <2>3 DEF Call, Goto
        <3> DEFINE new == Admitting(q[w], cl, n)
        <3>2. new.held = q[w].held /\ new.repairs = q[w].repairs
            BY <1>1 DEF Admitting, Question
        <3>3. q'[w] = new /\ pc'[w] = "admit"
            BY <1>1, <3>1
        <3> HIDE DEF new
        <3> QED BY <2>1, <3>2, <3>3 DEF AsksOn, Asking
    <2> QED BY <2>2, <2>3
<1>4. CASE Refused(w)
    <2>1. pc[w] = "refused"
        BY <1>4 DEF Refused, At
    <2>2. CASE End(w, q[w], "refused")
        BY <1>2, <2>1, <2>2 DEF GivesUp, Asking
    <2>3. CASE ~End(w, q[w], "refused")
        <3> DEFINE new == [Admitting(q[w], "count", q[w].local) EXCEPT !.refusal = q[w].decision]
        <3>1. q'[w] = new /\ pc'[w] = "admit"
            BY <1>1, <1>4, <2>3 DEF Refused, Goto
        <3>2. new.held = q[w].held /\ new.repairs = q[w].repairs
            BY <1>1 DEF Admitting, Question
        <3> HIDE DEF new
        <3> QED BY <2>1, <3>1, <3>2 DEF AsksOn, Asking
    <2> QED BY <2>2, <2>3
<1>5. CASE AfterCount(w)
    <2>1. pc[w] = "counted"
        BY <1>5 DEF AfterCount, At
    <2>2. CASE End(w, q[w], "unmet") \/ End(w, q[w], "refused")
        BY <1>2, <2>1, <2>2 DEF GivesUp
    <2>3. CASE ~(End(w, q[w], "unmet") \/ End(w, q[w], "refused"))
        <3>1. PICK n, o :
                 /\ q' = [q EXCEPT ![w] = [Admitting(q[w], "completion", n) EXCEPT
                                               !.on = o, !.answer = NoAnswer]]
                 /\ pc' = [pc EXCEPT ![w] = "admit"]
            BY <1>5, <2>3 DEF AfterCount, Goto
        <3>2. q[w].answer.type = "counted"
            BY <1>5, <2>3 DEF AfterCount
        <3> DEFINE new == [Admitting(q[w], "completion", n) EXCEPT !.on = o, !.answer = NoAnswer]
        <3>3. new.held = q[w].held /\ new.repairs = q[w].repairs
            BY <1>1 DEF Admitting, Question
        <3>4. q'[w] = new /\ pc'[w] = "admit"
            BY <1>1, <3>1
        <3> HIDE DEF new
        <3> QED BY <2>1, <3>2, <3>3, <3>4 DEF AsksOn, Asking
    <2> QED BY <2>2, <2>3
<1>6. CASE BoundTripped(w)
    <2>1. pc[w] = "completed" /\ End(w, q[w], "unmet")
        BY <1>6 DEF BoundTripped, At
    <2> QED BY <1>2, <2>1 DEF GivesUp
<1>7. CASE AfterCompletion(w)
    <2>1. pc[w] = "completed"
        BY <1>7 DEF AfterCompletion, At
    <2>2. CASE End(w, q[w], "unmet")
        BY <1>2, <2>1, <2>2 DEF GivesUp
    <2>3. CASE End(w, q[w], "answered") /\ ~End(w, q[w], "unmet")
        <3>1. q[w].answer.type = "completed" /\ ~OverranCall(w)
            <4>1. q'[w].outcome = "answered" /\ pc'[w] = "done"
                BY <1>2, <2>3
            <4>2. ASSUME pc' = [pc EXCEPT ![w] = "call"] PROVE FALSE
                BY <1>1, <4>1, <4>2
            <4> QED BY <1>7, <2>3, <4>2 DEF AfterCompletion, Goto
        <3> QED BY <1>2, <2>1, <2>3, <3>1 DEF GivesAnswer
    <2>4. CASE ~(End(w, q[w], "unmet") \/ End(w, q[w], "answered"))
        <3> DEFINE new == Repaired(q[w], q[w].answer.read)
        <3>1. /\ q' = [q EXCEPT ![w] = new] /\ pc' = [pc EXCEPT ![w] = "call"]
              /\ q[w].repairs < Repairs
              /\ q[w].answer.type = "completed" /\ ~OverranCall(w)
            BY <1>7, <2>4 DEF AfterCompletion, Goto
        <3>2. new.held = 0 /\ new.repairs = q[w].repairs + 1
            BY <1>1, RepairedBody
        <3>3. q'[w] = new /\ pc'[w] = "call"
            BY <1>1, <3>1
        <3> HIDE DEF new
        <3>4. q[w].repairs = 0
            BY <1>1, <3>1 DEF Repairs
        <3> QED BY <2>1, <3>1, <3>2, <3>3, <3>4 DEF AsksAgain
    <2> QED BY <2>2, <2>3, <2>4
<1>8. CASE AdmitBegin(w) \/ AdmitCheck(w) \/ AdmitFail(w)
    <2>1. pc[w] \in Asking
        BY <1>8 DEF AdmitBegin, AdmitCheck, AdmitFail, At, Asking
    <2>2. CASE End(w, q[w], "unmet")
        BY <1>2, <2>1, <2>2 DEF GivesUp
    <2>3. CASE ~End(w, q[w], "unmet")
        <3>1. PICK d : /\ q'[w] = [q[w] EXCEPT !.decision = d]
                       /\ pc'[w] \in Asking
            <4>1. CASE AdmitBegin(w)
                <5>1. q'[w] = q[w] /\ pc'[w] = "check"
                    BY <1>1, <4>1 DEF AdmitBegin, Goto
                <5>2. q[w] = [q[w] EXCEPT !.decision = q[w].decision]
                    BY <1>1 DEF Question
                <5> QED BY <5>1, <5>2 DEF Asking
            <4>2. CASE AdmitCheck(w)
                <5>1. PICK d : q' = [q EXCEPT ![w].decision = d]
                    BY <4>2 DEF AdmitCheck
                <5>2. pc'[w] = "commit"
                    BY <1>1, <4>2 DEF AdmitCheck, Goto
                <5> QED BY <1>1, <5>1, <5>2 DEF Asking
            <4>3. CASE AdmitFail(w)
                <5>1. /\ q' = [q EXCEPT ![w].decision = "reservation_overrun"]
                      /\ pc'[w] = "refused"
                    BY <1>1, <2>3, <4>3 DEF AdmitFail, Goto
                <5> QED BY <1>1, <5>1 DEF Asking
            <4> QED BY <1>8, <4>1, <4>2, <4>3
        <3> DEFINE new == [q[w] EXCEPT !.decision = d]
        <3>2. new.held = q[w].held /\ new.repairs = q[w].repairs
            BY <1>1 DEF Question
        <3> HIDE DEF new
        <3>3. q'[w] = new
            BY <3>1 DEF new
        <3> QED BY <2>1, <3>1, <3>2, <3>3 DEF AsksOn
    <2> QED BY <2>2, <2>3
<1> QED BY <1>3, <1>4, <1>5, <1>6, <1>7, <1>8 DEF Reads

\* What the rows of a question hold within their reservations, at each point
\* of an attempt: no more than its prior attempts and its count, and never
\* more than the worst.
Prices(w) ==
    q[w].counting # "always" =>
        /\ pc[w] \in {"idle", "done"} => SumWithin(q[w].mine) <= QuestionWorst
        /\ pc[w] \in Asking \cup {"call"} => SumWithin(q[w].mine) <= Prior(w) + q[w].held
        /\ pc[w] \in Billed =>
              SumWithin(q[w].mine \ {q[w].res})
                  <= Prior(w) + (IF q[w].call = "count" THEN 0 ELSE q[w].held)
        /\ pc[w] = "counted" => Within[q[w].res] <= q[w].held

Priced == \A w \in Worker : Prices(w)

\* The worst is a figure.
LEMMA WorstIsNat == QuestionWorst \in Nat
<1> DEFINE B == Send(Local, 2 * Generation)
           C == Send(Local + Instruction, Generation)
<1>1. Send(Local, Generation) \in Nat /\ B \in Nat /\ C \in Nat
    BY RuntimeAssumption DEF Send
<1>2. QuestionWorst = Send(Local, Generation) + Max({B, C})
    BY WorstBodies DEF QuestionWorst
<1> HIDE DEF B, C
<1> QED BY <1>1, <1>2, MaxOfPair

\* No step lets a row hold more within its reservation.
LEMMA WithinShrinks ==
    ASSUME Accounts, [Next]_vars, NEW i \in 1 .. Len(rows)
    PROVE  /\ Within[i] \in Nat /\ Within'[i] \in Nat /\ Within'[i] <= Within[i]
<1>1. /\ rows \in Seq(Row) /\ rows' \in Seq(Row) /\ i \in DOMAIN rows /\ i \in DOMAIN rows'
      /\ Shape /\ Courses /\ Above /\ Covered
    BY RowsStay, RowsFinite DEF Accounts, Shape, TypeOK
<1>2. /\ Within[i] = Min({rows[i].tokens, rows[i].est}) /\ Within[i] \in Nat
      /\ rows[i].tokens \in Nat /\ rows[i].est \in Nat
    BY <1>1, RowTerms
<1>3. /\ Within'[i] = Min({rows'[i].tokens, rows'[i].est})
      /\ rows'[i].tokens \in Nat /\ rows'[i].est \in Nat
    <2>1. rows'[i] \in Row
        BY <1>1, RowsFinite
    <2> QED BY <1>1, <2>1 DEF Within, Row
<1>4. Within'[i] \in Nat /\ Within'[i] <= rows'[i].est
    BY <1>3, MinOfPair
<1>5. CASE rows'[i].tokens = rows[i].tokens /\ rows'[i].est = rows[i].est
    BY <1>2, <1>3, <1>5
<1>6. CASE Recorded
    BY <1>1, <1>5, <1>6 DEF Recorded, SameTerms
<1>7. ASSUME NEW w \in Worker, Granted(w) PROVE Within'[i] <= Within[i]
    BY <1>1, <1>5, <1>7 DEF Granted
<1>8. ASSUME NEW id \in 1 .. Len(rows), NEW s \in Settlement, Paid(id, s)
      PROVE  Within'[i] <= Within[i]
    <2>1. CASE i # id
        BY <1>5, <1>8, <2>1 DEF Paid
    <2>2. CASE i = id
        <3>1. rows[i].kind = "reservation" /\ rows'[i].est = rows[i].est
            BY <1>8, <2>2 DEF Paid
        <3>2. rows[i].tokens = rows[i].est
            BY <1>1, <3>1 DEF Covered, Covers
        <3>3. Within[i] = rows[i].est
            <4>1. {rows[i].tokens, rows[i].est} = {rows[i].est}
                BY <3>2
            <4>2. \A n \in Nat : Min({n, n}) = n
                <5>1. ASSUME NEW n \in Nat PROVE Min({n, n}) = n
                    <6>1. {n, n} \in SUBSET Nat /\ {n, n} # {}
                        OBVIOUS
                    <6>2. Min({n, n}) \in {n, n}
                        BY <6>1, MinOfNaturals
                    <6> QED BY <6>2
                <5> QED BY <5>1
            <4>3. Min({rows[i].est, rows[i].est}) = rows[i].est
                BY <1>2, <4>2
            <4> QED BY <1>2, <3>2, <4>3
        <3> QED BY <1>4, <3>1, <3>3
    <2> QED BY <2>1, <2>2
<1> QED BY <1>1, <1>2, <1>4, <1>6, <1>7, <1>8, RowsMove

\* No step lets any rows hold more.
LEMMA SumShrinks ==
    ASSUME Accounts, [Next]_vars, NEW S \in SUBSET (1 .. Len(rows))
    PROVE  /\ SumFunctionOnSet(Within, S) \in Nat /\ SumFunctionOnSet(Within', S) \in Nat
           /\ SumFunctionOnSet(Within', S) <= SumFunctionOnSet(Within, S)
<1>1. IsFiniteSet(S)
    <2>1. rows \in Seq(Row)
        BY DEF Accounts, Shape, TypeOK
    <2> QED BY <2>1, RowsFinite, FS_Subset
<1>2. \A i \in S : Within[i] \in Nat /\ Within'[i] \in Nat /\ Within'[i] <= Within[i]
    BY WithinShrinks
<1> DEFINE f == Within
           g == Within'
<1>3. Numbers(f, S) /\ Numbers(g, S) /\ \A i \in S : f[i] \in Nat /\ g[i] \in Nat /\ g[i] <= f[i]
    BY <1>2 DEF Numbers
<1> HIDE DEF f, g
<1>4. SumFunctionOnSet(f, S) \in Nat /\ SumFunctionOnSet(g, S) \in Nat
    BY <1>1, <1>3, SumSubset
<1>5. SumFunctionOnSet(g, S) <= SumFunctionOnSet(f, S)
    BY <1>1, <1>3, SumMonotone
<1> QED BY <1>4, <1>5 DEF f, g

\* A question's rows are its last call's and those before it.
LEMMA SumOfCall ==
    ASSUME Accounts, NEW w \in Worker, pc[w] \in Billed
    PROVE  /\ SumWithin(q[w].mine) = Within[q[w].res] + SumWithin(q[w].mine \ {q[w].res})
           /\ SumWithin(q[w].mine \ {q[w].res}) \in Nat /\ Within[q[w].res] \in Nat
           /\ Within[q[w].res] <= q[w].want
<1>1. /\ q[w].mine \subseteq 1 .. Len(rows) /\ q[w].res \in q[w].mine
      /\ rows[q[w].res].est = q[w].want
    BY DEF Accounts, Courses, Course, OwnRow
<1>2. rows \in Seq(Row) /\ DOMAIN rows = 1 .. Len(rows)
    BY RowsFinite DEF Accounts, Shape, TypeOK
<1>3. IsFiniteSet(q[w].mine) /\ Numbers(Within, q[w].mine)
    BY <1>1, <1>2, ClassFacts
<1>4. SumWithin(q[w].mine \ {q[w].res}) \in Nat
    BY <1>1, <1>2, ClassFacts
<1>5. Within[q[w].res] \in Nat /\ Within[q[w].res] <= q[w].want
    BY <1>1, <1>2, RowTerms
<1>6. SumWithin(q[w].mine) = Within[q[w].res] + SumWithin(q[w].mine \ {q[w].res})
    <2> DEFINE f == Within
               S == q[w].mine
               x == q[w].res
    <2>1. IsFiniteSet(S) /\ Numbers(f, S) /\ x \in S
        BY <1>1, <1>3
    <2> HIDE DEF f, S, x
    <2>2. SumFunctionOnSet(f, S) = f[x] + SumFunctionOnSet(f, S \ {x})
        BY <2>1, SumSplits
    <2> QED BY <2>2 DEF SumWithin, f, S, x
<1> QED BY <1>4, <1>5, <1>6

\* A step that keeps a question's own keeps its prices.
LEMMA PricesStay ==
    ASSUME Accounts, [Next]_vars, NEW v \in Worker, Prices(v), q'[v] = q[v], pc'[v] = pc[v]
    PROVE  Prices(v)'
<1>1. /\ q[v].mine \subseteq 1 .. Len(rows)
      /\ pc[v] \in Billed => q[v].res \in q[v].mine
      /\ q[v].held \in Nat
    BY Typed DEF Accounts, Courses, Course, OwnRow
<1>2. PICK m, r : m = q[v].mine /\ r = q[v].res
    OBVIOUS
<1>3. /\ SumWithin(m) \in Nat /\ SumWithin(m)' \in Nat /\ SumWithin(m)' <= SumWithin(m)
    BY <1>1, <1>2, SumShrinks DEF SumWithin
<1>4. /\ SumWithin(m \ {r}) \in Nat /\ SumWithin(m \ {r})' \in Nat
      /\ SumWithin(m \ {r})' <= SumWithin(m \ {r})
    <2>1. m \ {r} \in SUBSET (1 .. Len(rows))
        BY <1>1, <1>2
    <2> QED BY <2>1, SumShrinks DEF SumWithin
<1>5. pc[v] = "counted" =>
          Within[r] \in Nat /\ Within'[r] \in Nat /\ Within'[r] <= Within[r]
    <2>1. pc[v] = "counted" => r \in 1 .. Len(rows)
        BY <1>1, <1>2 DEF Billed, Heard
    <2> QED BY <2>1, WithinShrinks
<1>6. Prior(v)' = Prior(v) /\ Prior(v) \in Nat /\ QuestionWorst \in Nat /\ QuestionWorst' = QuestionWorst
    <2>1. Prior(v)' = Prior(v)
        BY DEF Prior
    <2>2. Prior(v) \in Nat
        BY RuntimeAssumption DEF Prior, Send
    <2>3. QuestionWorst \in Nat
        BY WorstIsNat
    <2> QED BY <2>1, <2>2, <2>3
<1>7. CASE q[v].counting = "always"
    BY <1>7 DEF Prices
<1>8. CASE q[v].counting # "always"
    <2>1. pc[v] \in {"idle", "done"} => SumWithin(m)' <= QuestionWorst
        BY <1>2, <1>3, <1>6, <1>8 DEF Prices
    <2>2. pc[v] \in Asking \cup {"call"} => SumWithin(m)' <= Prior(v) + q[v].held
        BY <1>1, <1>2, <1>3, <1>6, <1>8 DEF Prices
    <2>3. pc[v] \in Billed =>
              SumWithin(m \ {r})' <= Prior(v) + (IF q[v].call = "count" THEN 0 ELSE q[v].held)
        BY <1>1, <1>2, <1>4, <1>6, <1>8 DEF Prices
    <2>4. pc[v] = "counted" => Within'[r] <= q[v].held
        BY <1>1, <1>2, <1>5, <1>8 DEF Prices
    <2>5. q'[v].mine = m /\ q'[v].res = r
        BY <1>2
    <2>6. SumWithin(q[v].mine)' = SumWithin(m)' /\ SumWithin(q[v].mine \ {q[v].res})' = SumWithin(m \ {r})'
        BY <2>5 DEF SumWithin
    <2> QED BY <1>6, <2>1, <2>2, <2>3, <2>4, <2>5, <2>6 DEF Prices
<1> QED BY <1>7, <1>8

\* What a step leaves of a question's rows: none holds more, and no other is
\* its own but the one that is granted.
LEMMA MineShrinks ==
    ASSUME Accounts, [Next]_vars, NEW w \in Worker, q'[w].mine = q[w].mine
    PROVE  /\ SumWithin(q[w].mine) \in Nat /\ SumWithin(q[w].mine)' \in Nat
           /\ SumWithin(q[w].mine)' <= SumWithin(q[w].mine)
<1>1. PICK m : m = q[w].mine
    OBVIOUS
<1>2. m \in SUBSET (1 .. Len(rows))
    BY <1>1 DEF Accounts, Courses, Course, OwnRow
<1>3. /\ SumWithin(m) \in Nat /\ SumWithin(m)' \in Nat /\ SumWithin(m)' <= SumWithin(m)
    BY <1>2, SumShrinks DEF SumWithin
<1>4. SumWithin(q[w].mine)' = SumWithin(m)'
    BY <1>1 DEF SumWithin
<1> QED BY <1>1, <1>3, <1>4

\* So of the rows before its last call's.
LEMMA PriorShrinks ==
    ASSUME Accounts, [Next]_vars, NEW w \in Worker,
           q'[w].mine \ {q'[w].res} = q[w].mine \ {q[w].res}
    PROVE  /\ SumWithin(q[w].mine \ {q[w].res}) \in Nat
           /\ SumWithin(q[w].mine \ {q[w].res})' \in Nat
           /\ SumWithin(q[w].mine \ {q[w].res})' <= SumWithin(q[w].mine \ {q[w].res})
<1>1. PICK m : m = q[w].mine \ {q[w].res}
    OBVIOUS
<1>2. m \in SUBSET (1 .. Len(rows))
    BY <1>1 DEF Accounts, Courses, Course, OwnRow
<1>3. /\ SumWithin(m) \in Nat /\ SumWithin(m)' \in Nat /\ SumWithin(m)' <= SumWithin(m)
    BY <1>2, SumShrinks DEF SumWithin
<1>4. SumWithin(q[w].mine \ {q[w].res})' = SumWithin(m)'
    BY <1>1 DEF SumWithin
<1> QED BY <1>1, <1>3, <1>4

\* The steps that only read keep the prices.
LEMMA PricesRead ==
    ASSUME Accounts, [Next]_vars, NEW w \in Worker, Prices(w), Reads(w)
    PROVE  Prices(w)'
<1>1. /\ Shape /\ Course(w) /\ QuestionWorst \in Nat /\ q[w].held \in Nat /\ q[w].want \in Nat
      /\ q'[w].mine = q[w].mine /\ q'[w].counting = q[w].counting
    BY Typed, ReadsTaken, WorstIsNat DEF Accounts, Courses
<1> SUFFICES ASSUME q[w].counting # "always" PROVE Prices(w)'
    BY <1>1 DEF Prices
<1> DEFINE m  == SumWithin(q[w].mine)
           s  == Send(q[w].local, q[w].gen)
<1>2. m \in Nat /\ m' \in Nat /\ m' <= m
    BY <1>1, MineShrinks
<1>3. GivesUp(w) \/ GivesAnswer(w) \/ AsksOn(w) \/ AsksAgain(w)
    BY <1>1, ReadsKinds
<1>4. /\ pc[w] \in Asking \cup {"call", "counted", "completed"}
    BY <1>3 DEF GivesUp, GivesAnswer, AsksOn, AsksAgain
<1>5. /\ Prior(w) \in Nat /\ s \in Nat /\ q[w].local <= s /\ q[w].local \in Nat
      /\ Prior(w) + s <= QuestionWorst
    <2>1. OwnBody(w)
        BY <1>1, <1>4 DEF Course, OwnPrice, Asking
    <2> QED BY <1>1, <2>1, WorstPrice, Typed
<1> HIDE DEF s
\* What the question held before the step.
<1>6. /\ pc[w] \in Asking \cup {"call"} => m <= Prior(w) + q[w].held /\ q[w].held <= s
      /\ pc[w] = "counted" => m <= Prior(w) + q[w].held /\ m <= Prior(w) + s
      /\ pc[w] = "completed" => m <= Prior(w) + s
    <2>1. CASE pc[w] = "call"
        <3>1. q[w].held = 0
            BY <1>1, <2>1 DEF Course, OwnPrice
        <3>2. m <= Prior(w) + q[w].held
            BY <2>1 DEF Prices
        <3> HIDE DEF m
        <3> QED BY <1>5, <2>1, <3>1, <3>2
    <2>2. CASE pc[w] \in Asking
        <3>1. m <= Prior(w) + q[w].held
            BY <2>2 DEF Prices
        <3>2. q[w].held <= s
            <4>1. q[w].call \in {"count", "completion"} /\ Extra(w) = 0
                BY <1>1, Typed DEF Question, Extra
            <4>2. /\ q[w].call = "count" => q[w].held = 0
                  /\ q[w].call = "completion" => q[w].held + q[w].want <= s + Extra(w)
                BY <1>1, <2>2 DEF Course, OwnPrice, s
            <4> QED BY <1>1, <1>5, <4>1, <4>2
        <3> HIDE DEF m
        <3> QED BY <2>2, <3>1, <3>2 DEF Asking
    <2>3. CASE pc[w] \in {"counted", "completed"}
        <3> DEFINE b == SumWithin(q[w].mine \ {q[w].res})
                   x == Within[q[w].res]
        <3>1. m = x + b /\ b \in Nat /\ x \in Nat /\ x <= q[w].want
            BY <2>3, SumOfCall DEF Billed, Heard
        <3>2. CASE pc[w] = "counted"
            <4>1. q[w].call = "count" /\ q[w].want = q[w].local
                BY <1>1, <3>2 DEF Course, OwnPrice, Billed, Heard
            <4>2. b <= Prior(w) + 0 /\ x <= q[w].held
                BY <3>2, <4>1 DEF Prices, Billed, Heard
            <4> HIDE DEF m, b, x
            <4> QED BY <1>1, <1>5, <3>1, <3>2, <4>1, <4>2 DEF Asking
        <3>3. CASE pc[w] = "completed"
            <4>1. q[w].call = "completion" /\ q[w].held + q[w].want <= s + 0
                BY <1>1, <3>3 DEF Course, OwnPrice, Billed, Heard, Extra, s
            <4>2. b <= Prior(w) + q[w].held
                BY <3>3, <4>1 DEF Prices, Billed, Heard
            <4> HIDE DEF m, b, x
            <4> QED BY <1>1, <1>5, <3>1, <3>3, <4>1, <4>2 DEF Asking
        <3> QED BY <2>3, <3>2, <3>3
    <2> HIDE DEF m
    <2> QED BY <1>4, <2>1, <2>2, <2>3 DEF Asking
<1>7. m' = SumWithin(q[w].mine)'
    OBVIOUS
<1>8. CASE GivesUp(w) \/ GivesAnswer(w)
    <2>1. pc'[w] = "done"
        BY <1>8 DEF GivesUp, GivesAnswer
    <2>2. m' <= QuestionWorst
        <3> HIDE DEF m
        <3> QED BY <1>1, <1>2, <1>4, <1>5, <1>6
    <2> QED BY <2>1, <2>2 DEF Prices, Asking, Billed, Heard
<1>9. CASE AsksOn(w)
    <2>1. /\ pc'[w] \in Asking /\ pc[w] \in Asking \cup {"call", "counted"}
          /\ q'[w].held = q[w].held /\ Prior(w)' = Prior(w)
        BY <1>9 DEF AsksOn, Prior
    <2>2. m' <= Prior(w) + q[w].held
        <3> HIDE DEF m
        <3> QED BY <1>1, <1>2, <1>5, <1>6, <2>1
    <2> QED BY <2>1, <2>2 DEF Prices, Asking, Billed, Heard
<1>10. CASE AsksAgain(w)
    <2>1. /\ pc'[w] = "call" /\ pc[w] = "completed" /\ q'[w].held = 0
          /\ Prior(w) = 0 /\ Prior(w)' = Send(Local, Generation)
        BY <1>10 DEF AsksAgain, Prior
    <2>2. s = Send(Local, Generation)
        BY <1>1, <1>10, <2>1 DEF AsksAgain, Course, OwnPrice, OwnBody, s
    <2>3. m' <= Prior(w)' + q'[w].held
        <3> HIDE DEF m
        <3> QED BY <1>2, <1>5, <1>6, <2>1, <2>2
    <2> QED BY <2>1, <2>3 DEF Prices, Asking, Billed, Heard
<1> QED BY <1>3, <1>8, <1>9, <1>10

\* What a flush and an exchange leave of the attempt.
LEMMA AttemptStays ==
    ASSUME Shape, NEW w \in Worker,
           FlushCopy(w) \/ FlushOne(w) \/ FlushRetain(w) \/ Exchange(w) \/ SettleBegin(w)
           \/ SettleRefused(w)
    PROVE  /\ q'[w].mine = q[w].mine /\ q'[w].counting = q[w].counting
           /\ q'[w].held = q[w].held /\ q'[w].repairs = q[w].repairs
           /\ q'[w].call = q[w].call /\ q'[w].res = q[w].res
           /\ \/ pc[w] \in Asking /\ pc'[w] \in Asking
              \/ pc[w] \in Billed /\ pc'[w] \in Billed \ {"counted"}
<1>1. q \in [Worker -> Question] /\ pc \in [Worker -> PC] /\ q[w] \in Question
    BY DEF Shape, TypeOK
<1>2. CASE FlushCopy(w) \/ FlushRetain(w)
    BY <1>1, <1>2 DEF FlushCopy, FlushRetain, At, Goto, Question, Asking
<1>3. CASE FlushOne(w)
    <2>1. PICK k \in q[w].flush :
              \/ q' = [q EXCEPT ![w] = [q[w] EXCEPT !.flush = @ \ {k},
                                                    !.written = @ \cup {k.id}]]
              \/ q' = [q EXCEPT ![w] = [q[w] EXCEPT !.flush = @ \ {k}]]
        BY <1>3, FlushRow
    <2> DEFINE put   == [q[w] EXCEPT !.flush = @ \ {k}, !.written = @ \cup {k.id}]
               saved == [q[w] EXCEPT !.flush = @ \ {k}]
               Same(new) == /\ new.mine = q[w].mine /\ new.counting = q[w].counting
                            /\ new.held = q[w].held /\ new.repairs = q[w].repairs
                            /\ new.call = q[w].call /\ new.res = q[w].res
    <2>2. Same(put) /\ Same(saved)
        BY <1>1 DEF Question
    <2>3. q'[w] = put \/ q'[w] = saved
        BY <1>1, <2>1
    <2>4. pc[w] \in Asking /\ pc'[w] \in Asking
        BY <1>3 DEF FlushOne, At, Asking
    <2> HIDE DEF put, saved
    <2> QED BY <2>2, <2>3, <2>4
<1>4. CASE Exchange(w)
    <2>1. PICK a \in Answers(q[w].call) : q' = [q EXCEPT ![w] = [q[w] EXCEPT !.answer = a]]
        BY <1>4, ExchangeRow
    <2> DEFINE new == [q[w] EXCEPT !.answer = a]
    <2>2. /\ new.mine = q[w].mine /\ new.counting = q[w].counting
          /\ new.held = q[w].held /\ new.repairs = q[w].repairs
          /\ new.call = q[w].call /\ new.res = q[w].res
        BY <1>1 DEF Question
    <2>3. q'[w] = new
        BY <1>1, <2>1
    <2>4. pc[w] \in Billed /\ pc'[w] \in Billed \ {"counted"}
        BY <1>1, <1>4 DEF Exchange, At, Goto, Billed, Heard
    <2> HIDE DEF new
    <2> QED BY <2>2, <2>3, <2>4
<1>5. CASE SettleBegin(w) \/ SettleRefused(w)
    BY <1>1, <1>5 DEF SettleBegin, SettleRefused, At, Goto, Billed, Heard
<1> QED BY <1>2, <1>3, <1>4, <1>5

\* A step of a thread keeps its own prices.
LEMMA PricesOwn ==
    ASSUME Accounts, Accounts', [Next]_vars, NEW w \in Worker, Prices(w), Step(w)
    PROVE  Prices(w)'
<1>1. /\ Shape /\ Courses /\ Course(w) /\ QuestionWorst \in Nat /\ q[w].held \in Nat
      /\ q[w].call \in {"count", "completion"} /\ q[w].want \in Nat
      /\ Prior(w) \in Nat /\ Len(rows) \in Nat /\ rows \in Seq(Row)
      /\ pc \in [Worker -> PC]
    <2>1. Shape /\ Courses /\ Course(w)
        BY DEF Accounts, Courses
    <2>2. /\ q[w].held \in Nat /\ q[w].want \in Nat /\ rows \in Seq(Row) /\ q[w] \in Question
        BY <2>1, Typed
    <2>3. q[w].call \in {"count", "completion"}
        BY <2>2 DEF Question
    <2>4. Prior(w) \in Nat
        BY RuntimeAssumption, SendType DEF Prior
    <2> QED BY <2>1, <2>2, <2>3, <2>4, WorstIsNat DEF Shape, TypeOK
<1> DEFINE m  == SumWithin(q[w].mine)
           b  == SumWithin(q[w].mine \ {q[w].res})
<1>2. CASE Reads(w)
    BY <1>2, PricesRead
<1>3. CASE FlushCopy(w) \/ FlushOne(w) \/ FlushRetain(w) \/ Exchange(w) \/ SettleBegin(w)
           \/ SettleRefused(w)
    <2>1. /\ q'[w].mine = q[w].mine /\ q'[w].counting = q[w].counting
          /\ q'[w].held = q[w].held /\ Prior(w)' = Prior(w)
          /\ q'[w].call = q[w].call /\ q'[w].res = q[w].res
          /\ \/ pc[w] \in Asking /\ pc'[w] \in Asking
             \/ pc[w] \in Billed /\ pc'[w] \in Billed \ {"counted"}
        BY <1>1, <1>3, AttemptStays DEF Prior
    <2>2. /\ m \in Nat /\ m' \in Nat /\ m' <= m
          /\ b \in Nat /\ b' \in Nat /\ b' <= b
        BY <2>1, MineShrinks, PriorShrinks
    <2>3. CASE q[w].counting = "always"
        BY <2>1, <2>3 DEF Prices
    <2>4. CASE q[w].counting # "always"
        <3>1. pc[w] \in Asking => m <= Prior(w) + q[w].held
            BY <2>4 DEF Prices
        <3>2. pc[w] \in Billed => b <= Prior(w) + (IF q[w].call = "count" THEN 0 ELSE q[w].held)
            BY <2>4 DEF Prices
        <3>3. /\ pc'[w] \in Asking => m' <= Prior(w)' + q'[w].held
              /\ pc'[w] \in Billed =>
                    b' <= Prior(w)' + (IF q'[w].call = "count" THEN 0 ELSE q'[w].held)
            <4>1. Asking \cap Billed = {}
                BY DEF Asking, Billed, Heard
            <4> HIDE DEF m, b
            <4> QED BY <1>1, <2>1, <2>2, <3>1, <3>2, <4>1
        <3>4. pc'[w] \notin {"idle", "done", "call", "counted"}
            BY <2>1 DEF Asking, Billed, Heard
        <3> QED BY <3>3, <3>4 DEF Prices
    <2> QED BY <2>3, <2>4
<1>4. CASE AdmitCommit(w)
    <2>0. pc[w] = "commit"
        BY <1>4 DEF AdmitCommit, At
    <2>1. CASE q[w].decision = "grant"
        <3>1. /\ q'[w].mine = q[w].mine \cup {Len(rows) + 1} /\ q'[w].res = Len(rows) + 1
              /\ q'[w].counting = q[w].counting /\ q'[w].held = q[w].held
              /\ q'[w].call = q[w].call /\ pc'[w] = "send" /\ Prior(w)' = Prior(w)
            BY <1>1, <1>4, <2>1, GrantTaken DEF Prior
        <3>2. q'[w].mine \ {q'[w].res} = q[w].mine
            <4>1. q[w].mine \subseteq 1 .. Len(rows)
                BY <1>1 DEF Course, OwnRow
            <4>2. Len(rows) + 1 \notin q[w].mine
                BY <1>1, <4>1
            <4> QED BY <3>1, <4>2
        <3>3. PICK n : n = q[w].mine
            OBVIOUS
        <3>4. n \in SUBSET (1 .. Len(rows))
            BY <1>1, <3>3 DEF Course, OwnRow
        <3>5. SumWithin(n) \in Nat /\ SumWithin(n)' \in Nat /\ SumWithin(n)' <= SumWithin(n)
            BY <3>4, SumShrinks DEF SumWithin
        <3>6. b' = SumWithin(n)'
            BY <3>2, <3>3 DEF SumWithin
        <3>7. SumWithin(n) = m
            BY <3>3
        <3>8. CASE q[w].counting = "always"
            BY <3>1, <3>8 DEF Prices
        <3>9. CASE q[w].counting # "always"
            <4>1. m <= Prior(w) + q[w].held /\ (q[w].call = "count" => q[w].held = 0)
                BY <1>1, <2>0, <3>9 DEF Prices, Asking, Course, OwnPrice
            <4>2. b' <= Prior(w)' + (IF q'[w].call = "count" THEN 0 ELSE q'[w].held)
                <5> HIDE DEF m, b
                <5> QED BY <1>1, <3>1, <3>5, <3>6, <3>7, <4>1
            <4> QED BY <3>1, <4>2 DEF Prices, Asking
        <3> QED BY <3>8, <3>9
    <2>2. CASE q[w].decision # "grant"
        <3>1. q' = q /\ pc'[w] = "refused" /\ rows' = rows
            BY <1>1, <1>4, <2>2 DEF AdmitCommit, Goto
        <3>2. m' = m /\ Prior(w)' = Prior(w)
            BY <3>1 DEF SumWithin, Within, Prior
        <3>3. q[w].counting # "always" => m <= Prior(w) + q[w].held
            BY <2>0 DEF Prices, Asking
        <3> HIDE DEF m, b
        <3>4. q'[w].counting # "always" => m' <= Prior(w)' + q'[w].held
            BY <3>1, <3>2, <3>3
        <3> QED BY <3>1, <3>4 DEF Prices, Asking, Billed, Heard, m
    <2> QED BY <2>1, <2>2
<1>5. CASE SettleCommit(w) \/ Rollback(w) \/ SettleBusy(w)
    <2>1. pc[w] \in {"settle", "settling", "rollback"}
        BY <1>5 DEF SettleCommit, Rollback, SettleBusy, At
    <2>2. q[w].res \in 1 .. Len(rows) /\ q[w].res \in 1 .. Len(rows')
        <3>1. q[w].res \in 1 .. Len(rows)
            BY <1>1, <2>1, FlightFacts DEF InFlight
        <3> QED BY <1>1, <3>1, RowsStay
    <2>3. PICK n \in Nat : Charge(w, n) /\ Within'[q[w].res] <= n
        <3>1. /\ Within'[q[w].res] = Min({rows'[q[w].res].tokens, rows'[q[w].res].est})
              /\ rows'[q[w].res].tokens \in Nat /\ rows'[q[w].res].est \in Nat
              /\ rows'[q[w].res].est = rows[q[w].res].est
              /\ rows[q[w].res].tokens \in Nat /\ rows[q[w].res].est \in Nat
            <4>1. rows' \in Seq(Row) /\ rows'[q[w].res].est = rows[q[w].res].est
                BY <1>1, <2>2, RowsStay
            <4>2. rows'[q[w].res] \in Row /\ rows[q[w].res] \in Row
                BY <1>1, <2>2, <4>1
            <4>3. q[w].res \in DOMAIN rows'
                BY <2>2, <4>1
            <4> QED BY <4>1, <4>2, <4>3 DEF Within, Row
        <3>2. /\ Within'[q[w].res] \in Nat
              /\ Within'[q[w].res] <= rows'[q[w].res].tokens
              /\ Within'[q[w].res] <= rows[q[w].res].est
            BY <3>1, MinOfPair
        <3>3. CASE SettleCommit(w)
            <4>1. PICK n \in Nat :
                     Charge(w, n) /\ n = Holds(SettlementOf(w), rows[q[w].res].est)
                BY <1>1, <3>3, CommitCharges
            <4>2. Paid(q[w].res, SettlementOf(w))
                BY <1>1, <3>3, CommitPaid
            <4>3. n >= Within'[q[w].res]
                <5>1. CASE SettlementOf(w).kind = "unknown"
                    <6>1. n = rows[q[w].res].est
                        BY <4>1, <5>1 DEF Holds
                    <6> QED BY <3>2, <6>1
                <5>2. CASE SettlementOf(w).kind # "unknown"
                    <6>1. n = rows'[q[w].res].tokens
                        BY <4>1, <4>2, <5>2 DEF Holds, Paid
                    <6> QED BY <3>2, <6>1
                <5> QED BY <5>1, <5>2
            <4> QED BY <3>2, <4>1, <4>3
        <3>4. CASE Rollback(w) \/ SettleBusy(w)
            <4>1. Unsettled(w)
                BY <3>4 DEF Rollback, SettleBusy
            <4>2. PICK n \in Nat :
                     /\ Charge(w, n)
                     /\ n = IF Overran(SettlementOf(w), rows[q[w].res].est)
                            THEN SettlementOf(w).tokens ELSE rows[q[w].res].est
                BY <1>1, <2>1, <4>1, UnsettledTaken
            <4>3. n >= rows[q[w].res].est
                BY <3>1, <4>2 DEF Overran
            <4> QED BY <3>1, <3>2, <4>2, <4>3
        <3> QED BY <1>5, <3>3, <3>4
    <2>4. /\ pc'[w] = IF q[w].call = "count" THEN "counted" ELSE "completed"
          /\ q'[w].held = IF q[w].call = "count" THEN n ELSE q[w].held
          /\ q'[w].counting = q[w].counting /\ Prior(w)' = Prior(w)
          /\ q'[w].call = q[w].call /\ q'[w].res = q[w].res /\ q'[w].mine = q[w].mine
        BY <1>1, <2>3, ChargeTaken DEF Prior
    <2>5. b \in Nat /\ b' \in Nat /\ b' <= b
        BY <2>4, PriorShrinks
    <2>6. CASE q[w].counting = "always"
        BY <2>4, <2>6 DEF Prices
    <2>7. CASE q[w].counting # "always"
        <3>1. b <= Prior(w) + (IF q[w].call = "count" THEN 0 ELSE q[w].held)
            BY <2>1, <2>7 DEF Prices, Billed, Heard
        <3>2. b' <= Prior(w)' + (IF q'[w].call = "count" THEN 0 ELSE q'[w].held)
            <4> HIDE DEF m, b
            <4> QED BY <1>1, <2>4, <2>5, <3>1
        <3>3. pc'[w] = "counted" => Within'[q'[w].res] <= q'[w].held
            BY <2>3, <2>4
        <3> QED BY <2>4, <3>2, <3>3 DEF Prices, Asking
    <2> QED BY <2>6, <2>7
<1> QED BY <1>2, <1>3, <1>4, <1>5 DEF Step, Reads

\* A question that has no row holds nothing.
LEMMA PricesFresh ==
    ASSUME NEW w \in Worker, q[w].mine = {}, pc[w] \in {"idle", "call"},
           q[w].held = 0, q[w].repairs = 0
    PROVE  Prices(w)
<1>1. SumWithin(q[w].mine) = 0
    BY SumUnfolds, FS_EmptySet DEF SumWithin
<1>2. Prior(w) = 0 /\ QuestionWorst \in Nat
    BY WorstIsNat DEF Prior
<1> QED BY <1>1, <1>2 DEF Prices, Asking, Billed, Heard

\* No question that starts holds anything.
FreshPriced ==
    \A w \in Worker : q[w].mine = {} /\ pc[w] \in {"idle", "call"} /\ q[w].held = 0
                      /\ q[w].repairs = 0 => Prices(w)

\* Every step keeps the prices of every question.
LEMMA PricesNext ==
    ASSUME Accounts, Accounts', Priced, FreshPriced', [Next]_vars PROVE Priced'
<1>1. /\ Shape /\ q \in [Worker -> Question] /\ pc \in [Worker -> PC]
      /\ \A w \in Worker : Prices(w)
      /\ \A w \in Worker : q'[w].mine = {} /\ pc'[w] \in {"idle", "call"} /\ q'[w].held = 0
                           /\ q'[w].repairs = 0 => Prices(w)'
    BY DEF Accounts, Shape, TypeOK, Priced, FreshPriced
<1>2. ASSUME NEW w \in Worker, Step(w) PROVE Priced'
    <2>1. Prices(w)'
        BY <1>1, <1>2, PricesOwn
    <2>2. \A v \in Worker \ {w} : Prices(v)'
        BY <1>1, <1>2, OthersStay, PricesStay
    <2> QED BY <2>1, <2>2 DEF Priced
<1>3. ASSUME NEW w \in Worker, NEW j \in Job, NEW c \in Countings, Ask(w, j, c) PROVE Priced'
    <2>1. q'[w] = Fresh(j, clock, c) /\ pc'[w] = "call"
        BY <1>1, <1>3 DEF Ask, Goto
    <2>2. q'[w].mine = {} /\ q'[w].held = 0 /\ q'[w].repairs = 0
        BY <2>1 DEF Fresh
    <2>3. Prices(w)'
        BY <1>1, <2>1, <2>2
    <2>4. \A v \in Worker \ {w} : Prices(v)'
        BY <1>1, <1>3, OthersStay, PricesStay
    <2> QED BY <2>3, <2>4 DEF Priced
<1>4. CASE Crash
    <2>1. \A w \in Worker : /\ q'[w] = Fresh(AnyJob, 0, "could_admit") /\ pc'[w] = "idle"
        BY <1>4 DEF Crash
    <2>2. \A w \in Worker : q'[w].mine = {} /\ q'[w].held = 0 /\ q'[w].repairs = 0
        BY <2>1 DEF Fresh
    <2> QED BY <1>1, <2>1, <2>2 DEF Priced
<1>5. CASE Reconcile \/ Serve \/ Tick \/ UNCHANGED vars
    <2>1. q' = q /\ pc' = pc
        BY <1>5 DEF Reconcile, Serve, Tick, vars, process
    <2>2. \A v \in Worker : Prices(v)'
        BY <1>1, <2>1, PricesStay
    <2> QED BY <2>2 DEF Priced
<1> QED BY <1>2, <1>3, <1>4, <1>5 DEF Next, Quiescent

\* No question has asked for anything.
LEMMA PricesInit == Init => Priced
<1> SUFFICES ASSUME Init PROVE Priced
    OBVIOUS
<1>1. \A w \in Worker : /\ q[w].mine = {} /\ q[w].held = 0 /\ q[w].repairs = 0
                        /\ pc[w] = "idle"
    BY DEF Init, Fresh
<1> QED BY <1>1, PricesFresh DEF Priced

\* A question's prices are what its rows hold within the worst.
LEMMA PricesBound == Accounts /\ Priced => QuestionWithinWorst
<1> SUFFICES ASSUME Accounts, Priced, NEW w \in Worker, q[w].counting # "always"
             PROVE  SumWithin(q[w].mine) <= QuestionWorst
    BY DEF QuestionWithinWorst, Always
<1>1. /\ Shape /\ Course(w) /\ Prices(w) /\ q[w].held \in Nat /\ q[w].want \in Nat
      /\ q[w].call \in {"count", "completion"} /\ pc[w] \in PC /\ QuestionWorst \in Nat
      /\ q[w].local \in Nat
    BY Typed, WorstIsNat DEF Accounts, Courses, Priced, Shape, TypeOK, Question
<1>2. CASE pc[w] \in {"idle", "done"}
    BY <1>1, <1>2 DEF Prices
<1>3. CASE pc[w] \notin {"idle", "done"}
    <2> DEFINE m == SumWithin(q[w].mine)
               b == SumWithin(q[w].mine \ {q[w].res})
               s == Send(q[w].local, q[w].gen)
               x == Within[q[w].res]
    <2>1. /\ Prior(w) \in Nat /\ s \in Nat /\ q[w].local <= s
          /\ Prior(w) + s <= QuestionWorst
        BY <1>1, <1>3, WorstPrice DEF Course, OwnPrice
    <2>2. m \in Nat
        <3>1. q[w].mine \subseteq DOMAIN rows /\ rows \in Seq(Row)
            BY <1>1, RowsFinite DEF Course, OwnRow, Shape, TypeOK
        <3> QED BY <3>1, ClassFacts
    <2>3. CASE pc[w] \in Asking \cup {"call"}
        <3>1. m <= Prior(w) + q[w].held
            BY <1>1, <2>3 DEF Prices
        <3>2. q[w].held <= s
            <4>1. pc[w] = "call" => q[w].held = 0
                BY <1>1 DEF Course, OwnPrice
            <4>2. pc[w] \in Asking => \/ q[w].held = 0
                                      \/ q[w].held + q[w].want <= s + 0
                BY <1>1 DEF Course, OwnPrice, Extra, s
            <4> HIDE DEF s
            <4> QED BY <1>1, <2>1, <2>3, <4>1, <4>2
        <3> HIDE DEF m, s
        <3> QED BY <1>1, <2>1, <2>2, <3>1, <3>2 DEF m
    <2>4. CASE pc[w] \in Billed
        <3>1. m = x + b /\ b \in Nat /\ x \in Nat /\ x <= q[w].want
            BY <2>4, SumOfCall
        <3>2. b <= Prior(w) + (IF q[w].call = "count" THEN 0 ELSE q[w].held)
            BY <1>1, <2>4 DEF Prices
        <3>3. (IF q[w].call = "count" THEN 0 ELSE q[w].held) + q[w].want <= s
            <4>1. q[w].call = "count" => q[w].want = q[w].local
                BY <1>1, <2>4 DEF Course, OwnPrice
            <4>2. q[w].call = "completion" => q[w].held + q[w].want <= s + 0
                BY <1>1, <2>4 DEF Course, OwnPrice, Extra, s
            <4> HIDE DEF s
            <4> QED BY <1>1, <2>1, <4>1, <4>2
        <3> HIDE DEF m, b, s, x
        <3>4. m <= QuestionWorst
            BY <1>1, <2>1, <2>2, <3>1, <3>2, <3>3
        <3> QED BY <3>4 DEF m
    <2> QED BY <1>1, <1>3, <2>3, <2>4 DEF PC, Asking, Billed, Heard
<1> QED BY <1>2, <1>3

\* A question's rows hold no more than question_worst prices from its body
\* alone, bills above a reservation apart, however room is freed on the
\* counters while its count is out.
THEOREM QuestionsAreWithinWorst == Spec => []QuestionWithinWorst
<1>1. Init => Priced
    BY PricesInit
<1>2. FreshPriced
    BY PricesFresh DEF FreshPriced
<1>3. Accounts /\ Accounts' /\ Priced /\ FreshPriced' /\ [Next]_vars => Priced'
    BY PricesNext
<1>4. Accounts /\ Priced => QuestionWithinWorst
    BY PricesBound
<1> QED BY <1>1, <1>2, <1>3, <1>4, AccountsHold, PTL DEF Spec

-----------------------------------------------------------------------------
(* Answers: calls that were not billed above their reservations.           *)

\* No bill is kept, or copied to be written, for row i.
Uncopied(i) ==
    /\ \A k \in kept : k.id # i
    /\ \A v \in Worker : \A k \in q[v].flush : k.id # i

\* Row i was not billed above its reservation, and will not be.
NotAbove(i) ==
    /\ rows[i].said <= rows[i].est /\ rows[i].tokens <= rows[i].est
    /\ Uncopied(i)

\* A question goes on, and is answered, on calls that were not billed above
\* their reservations.
Clean(w) ==
    /\ pc[w] # "done" => \A i \in q[w].mine \ {q[w].res} : NotAbove(i)
    /\ pc[w] \in {"rollback", "counted", "completed"} /\ ~OverranOwn(w) =>
          rows[q[w].res].tokens <= rows[q[w].res].est /\ Uncopied(q[w].res)
    /\ pc[w] \in Asking \cup {"call"} \/ q[w].outcome = "answered" =>
          \A i \in q[w].mine : NotAbove(i)

AllClean == \A w \in Worker : Clean(w)

\* A row that no bill is kept for is changed by its own call only.
LEMMA RowUntouched ==
    ASSUME Accounts, KeptWell, [Next]_vars, NEW w \in Worker,
           Step(w) \/ \E j \in Job, c \in Countings : Ask(w, j, c),
           NEW i \in 1 .. Len(rows), Uncopied(i), Settles(w) \/ Exchange(w) => i # q[w].res
    PROVE  rows'[i] = rows[i] /\ Uncopied(i)'
<1>1. /\ Shape /\ Courses /\ Above /\ Unique /\ q \in [Worker -> Question]
      /\ rows \in Seq(Row) /\ Len(rows) \in Nat /\ q[w] \in Question
    BY DEF Accounts, Shape, TypeOK, KeptWell
<1>2. ASSUME \A k \in kept' : k \in kept \/ k \in q[w].flush \/ k.id # i,
             \A k \in q'[w].flush : k \in kept \/ k \in q[w].flush
      PROVE  Uncopied(i)'
    <2>1. /\ \A k \in kept : k.id # i
          /\ \A v \in Worker : \A k \in q[v].flush : k.id # i
        BY DEF Uncopied
    <2>2. ASSUME NEW v \in Worker, NEW k \in q'[v].flush PROVE k.id # i
        <3>1. CASE v = w
            BY <1>2, <2>1, <2>2, <3>1
        <3>2. CASE v # w
            <4>1. q'[v] = q[v]
                BY <1>1, <3>2, OthersStay
            <4> QED BY <2>1, <2>2, <4>1
        <3> QED BY <3>1, <3>2
    <2>3. \A k \in kept' : k.id # i
        BY <1>2, <2>1
    <2> QED BY <2>2, <2>3 DEF Uncopied
<1>3. CASE Reads(w) \/ FlushCopy(w) \/ FlushRetain(w) \/ SettleBegin(w)
           \/ \E j \in Job, c \in Countings : Ask(w, j, c)
    <2>1. rows' = rows
        BY <1>1, <1>3, ReadsTaken DEF FlushCopy, FlushRetain, SettleBegin, Ask, store
    <2>2. /\ \A k \in kept' : k \in kept
          /\ \A k \in q'[w].flush : k \in kept \/ k \in q[w].flush
        <3>1. CASE Reads(w)
            BY <1>1, <3>1, ReadsTaken
        <3>2. CASE FlushCopy(w) \/ FlushRetain(w)
            <4>1. CASE FlushCopy(w)
                <5>1. kept' = kept /\ q'[w].flush = kept
                    BY <1>1, <4>1 DEF FlushCopy, process, Question
                <5> QED BY <5>1
            <4>2. CASE FlushRetain(w)
                <5>1. /\ kept' = {k \in kept : k.id \notin q[w].written}
                      /\ q'[w].flush = q[w].flush
                    BY <1>1, <4>2 DEF FlushRetain, Question
                <5> QED BY <5>1
            <4> QED BY <3>2, <4>1, <4>2
        <3>3. CASE SettleBegin(w)
            BY <1>1, <3>3 DEF SettleBegin, process
        <3>4. ASSUME NEW j \in Job, NEW c \in Countings, Ask(w, j, c)
              PROVE  kept' = kept /\ q'[w].flush = {}
            <4>1. q'[w] = Fresh(j, clock, c) /\ kept' = kept
                BY <1>1, <3>4 DEF Ask, process
            <4> QED BY <4>1 DEF Fresh
        <3>5. CASE \E j \in Job, c \in Countings : Ask(w, j, c)
            <4>1. kept' = kept /\ q'[w].flush = {}
                BY <3>4, <3>5
            <4> QED BY <4>1
        <3> QED BY <1>3, <3>1, <3>2, <3>3, <3>5
    <2> QED BY <1>2, <2>1, <2>2
<1>4. CASE Exchange(w)
    <2>1. kept' = kept /\ q'[w].flush = q[w].flush
        BY <1>1, <1>4, CallTaken DEF Exchange, process
    <2>2. PICK row \in Row : rows' = [rows EXCEPT ![q[w].res] = row]
        BY <1>1, <1>4, ExchangeRow
    <2>3. i # q[w].res
        BY <1>4
    <2>4. rows'[i] = rows[i]
        BY <1>1, <2>2, <2>3
    <2> QED BY <1>2, <2>1, <2>4
<1>5. CASE AdmitCommit(w)
    <2>1. kept' = kept
        BY <1>5 DEF AdmitCommit, process
    <2>2. CASE q[w].decision = "grant"
        <3>1. PICK row \in Row : rows' = Append(rows, row)
            BY <1>1, <1>5, <2>2, GrantRow
        <3>2. rows'[i] = rows[i]
            BY <1>1, <3>1
        <3>3. q'[w].flush = q[w].flush
            BY <1>1, <1>5, <2>2, GrantTaken
        <3> QED BY <1>2, <2>1, <3>2, <3>3
    <2>3. CASE q[w].decision # "grant"
        <3>1. rows' = rows /\ q' = q
            BY <1>5, <2>3 DEF AdmitCommit
        <3> QED BY <1>2, <2>1, <3>1
    <2> QED BY <2>2, <2>3
<1>6. CASE SettleCommit(w) \/ Rollback(w)
    <2>1. kept' = kept /\ q'[w].flush = q[w].flush
        BY <1>1, <1>6, SettlesTaken DEF SettleCommit, Rollback, process
    <2>2. CASE SettleCommit(w)
        <3>1. Paid(q[w].res, SettlementOf(w)) /\ i # q[w].res
            BY <1>1, <2>2, CommitPaid DEF Settles
        <3>2. rows'[i] = rows[i]
            BY <3>1 DEF Paid
        <3> QED BY <1>2, <2>1, <3>2
    <2>3. CASE Rollback(w)
        <3>1. rows' = rows
            BY <2>3 DEF Rollback, store
        <3> QED BY <1>2, <2>1, <3>1
    <2> QED BY <1>6, <2>2, <2>3
<1>7. CASE SettleRefused(w) \/ SettleBusy(w)
    <2>1. /\ KeepIfOverran(w) /\ pc[w] \in InFlight /\ rows' = rows /\ i # q[w].res
        BY <1>7 DEF SettleRefused, SettleBusy, At, InFlight, store, Settles
    <2>2. \A k \in kept' : k \in kept \/ k.id = q[w].res
        BY <1>1, <2>1, RefusedKeeps
    <2>3. q'[w].flush = q[w].flush
        BY <1>1, <1>7, CallTaken, SettlesTaken
    <2> QED BY <1>2, <2>1, <2>2, <2>3
<1>8. CASE FlushOne(w)
    <2>1. PICK k \in q[w].flush :
              /\ k \in Kept /\ k.id \in 1 .. Len(rows)
              /\ q'[w].flush = q[w].flush \ {k}
              /\ \/ /\ kept' = kept /\ rows' = rows /\ rows[k.id].kind # "reservation"
                 \/ /\ kept' = kept /\ Paid(k.id, Usage(k.tokens))
                 \/ /\ Keep(k.id, k.tokens) /\ rows' = rows
        BY <1>8, FlushTaken
    <2>2. k.id # i
        BY DEF Uncopied
    <2>3. rows'[i] = rows[i]
        BY <2>1, <2>2 DEF Paid
    <2>4. \A m \in kept' : m \in kept \/ m.id = k.id
        <3>1. CASE kept' = kept
            BY <3>1
        <3>2. CASE Keep(k.id, k.tokens)
            <4>1. PICK id, n : id = k.id /\ n = k.tokens
                OBVIOUS
            <4>2. Keep(id, n)
                BY <3>2, <4>1
            <4> QED BY <1>1, <4>1, <4>2, KeepOnce
        <3> QED BY <2>1, <3>1, <3>2
    <2> QED BY <1>2, <2>1, <2>2, <2>3, <2>4
<1> QED BY <1>3, <1>4, <1>5, <1>6, <1>7, <1>8 DEF Step, Reads

\* So it stays within its reservation.
LEMMA CleanRow ==
    ASSUME Accounts, KeptWell, [Next]_vars, NEW w \in Worker,
           Step(w) \/ \E j \in Job, c \in Countings : Ask(w, j, c),
           NEW i \in 1 .. Len(rows), NotAbove(i), Settles(w) \/ Exchange(w) => i # q[w].res
    PROVE  NotAbove(i)'
<1>1. rows'[i] = rows[i] /\ Uncopied(i)'
    BY RowUntouched DEF NotAbove
<1> QED BY <1>1 DEF NotAbove

\* A step of thread w leaves the questions of the others clean.
LEMMA CleanOthers ==
    ASSUME Accounts, KeptWell, [Next]_vars, NEW w \in Worker,
           Step(w) \/ \E j \in Job, c \in Countings : Ask(w, j, c),
           NEW v \in Worker \ {w}, Clean(v)
    PROVE  Clean(v)'
<1>1. /\ Shape /\ Courses /\ q[v].mine \subseteq 1 .. Len(rows)
      /\ pc[v] \in Billed => q[v].res \in q[v].mine
    BY DEF Accounts, Courses, Course, OwnRow
<1>2. q'[v] = q[v] /\ pc'[v] = pc[v]
    BY <1>1, OthersStay
<1>3. ASSUME NEW i \in q[v].mine PROVE Settles(w) \/ Exchange(w) => i # q[w].res
    <2>1. ASSUME Settles(w) \/ Exchange(w) PROVE q[w].res \in q[w].mine
        <3>1. pc[w] \in {"send", "settle", "settling"}
            BY <2>1 DEF Settles, SettleCommit, SettleRefused, SettleBusy, Exchange, At
        <3> QED BY <1>1, <3>1 DEF Courses, Course, OwnRow, Billed, Heard
    <2>2. i \notin q[w].mine
        BY <1>1 DEF Courses, OwnRows
    <2> QED BY <2>1, <2>2
<1>4. ASSUME NEW i \in q[v].mine, NotAbove(i) PROVE NotAbove(i)'
    BY <1>1, <1>3, <1>4, CleanRow
<1>5. ASSUME pc[v] \in {"rollback", "counted", "completed"}, ~OverranOwn(v)'
      PROVE  (rows[q[v].res].tokens <= rows[q[v].res].est)' /\ Uncopied(q[v].res)'
    <2>1. PICK i : i = q[v].res
        OBVIOUS
    <2>2. i \in q[v].mine /\ i \in 1 .. Len(rows)
        BY <1>1, <1>5, <2>1 DEF Billed, Heard
    <2>3. rows'[i].est = rows[i].est
        BY <1>1, <2>2, RowsStay
    <2>4. SettlementOf(v)' = SettlementOf(v)
        BY <1>2 DEF SettlementOf
    <2>5. ~OverranOwn(v)
        BY <1>2, <1>5, <2>1, <2>3, <2>4 DEF OverranOwn, Overran
    <2>6. rows[i].tokens <= rows[i].est /\ Uncopied(i)
        BY <1>5, <2>1, <2>5 DEF Clean
    <2>7. rows'[i] = rows[i] /\ Uncopied(i)'
        BY <1>3, <2>2, <2>6, RowUntouched
    <2>8. Uncopied(q[v].res)'
        BY <1>2, <2>1, <2>7 DEF Uncopied
    <2> QED BY <1>2, <2>1, <2>6, <2>7, <2>8
<1>6. pc[v] # "done" => \A i \in q[v].mine \ {q[v].res} : NotAbove(i)'
    BY <1>4 DEF Clean
<1>7. pc[v] \in Asking \cup {"call"} \/ q[v].outcome = "answered" =>
          \A i \in q[v].mine : NotAbove(i)'
    BY <1>4 DEF Clean
<1> QED BY <1>2, <1>5, <1>6, <1>7 DEF Clean

\* A call that was not billed above its reservation leaves no row that was.
LEMMA CallWithin ==
    ASSUME Accounts, NEW w \in Worker, Clean(w),
           \/ pc[w] = "counted" /\ q[w].answer.type = "counted"
           \/ pc[w] = "completed" /\ q[w].answer.type = "completed" /\ ~OverranCall(w)
    PROVE  \A i \in q[w].mine : NotAbove(i)
<1>1. /\ Shape /\ Course(w) /\ pc[w] \in Heard /\ pc[w] \in Billed /\ pc[w] # "done"
    BY DEF Accounts, Courses, Heard, Billed
<1>2. /\ q[w].res \in q[w].mine /\ rows[q[w].res].est = q[w].want
      /\ rows[q[w].res].said \in {Silent, Reports(q[w].answer)}
      /\ q[w].want \in Nat /\ q[w].local \in Nat /\ q[w].answer.usage \in Int
    BY <1>1, Typed DEF Course, OwnRow
<1>3. CASE pc[w] = "counted" /\ q[w].answer.type = "counted"
    <2>1. rows[q[w].res].said = Silent
        BY <1>2, <1>3 DEF Reports
    <2>2. q[w].want = q[w].local
        BY <1>1, <1>3 DEF Course, OwnPrice
    <2>3. ~OverranOwn(w)
        <3>1. SettlementOf(w).tokens \in Nat /\ SettlementOf(w).tokens <= q[w].local
            BY <1>1, <1>3, CountSettles
        <3> QED BY <1>2, <2>2, <3>1 DEF OverranOwn, Overran
    <2>4. NotAbove(q[w].res)
        <3>1. rows[q[w].res].tokens <= rows[q[w].res].est /\ Uncopied(q[w].res)
            BY <1>3, <2>3 DEF Clean
        <3>2. rows[q[w].res].said <= rows[q[w].res].est
            BY <1>2, <2>1 DEF Silent
        <3> QED BY <3>1, <3>2 DEF NotAbove
    <2> QED BY <1>1, <2>4 DEF Clean
<1>4. CASE pc[w] = "completed" /\ q[w].answer.type = "completed" /\ ~OverranCall(w)
    <2>1. q[w].answer.usage <= rows[q[w].res].est
        BY <1>2, <1>4 DEF OverranCall
    <2>2. rows[q[w].res].said <= rows[q[w].res].est
        BY <1>2, <1>4, <2>1 DEF Reports, Silent
    <2>3. ~OverranOwn(w)
        <3>1. SettlementOf(w) = IF q[w].answer.usage = Silent THEN UsageUnknown
                                ELSE Usage(q[w].answer.usage)
            BY <1>4 DEF SettlementOf
        <3> QED BY <1>2, <2>1, <3>1 DEF OverranOwn, Overran, Usage, UsageUnknown
    <2>4. NotAbove(q[w].res)
        <3>1. rows[q[w].res].tokens <= rows[q[w].res].est /\ Uncopied(q[w].res)
            BY <1>4, <2>3 DEF Clean
        <3> QED BY <2>2, <3>1 DEF NotAbove
    <2> QED BY <1>1, <2>4 DEF Clean
<1> QED BY <1>3, <1>4

\* A call that is charged, or whose settlement was refused, leaves its row
\* within its reservation unless it was billed above it.
LEMMA CallSettled ==
    ASSUME Accounts, Accounts', KeptWell, [Next]_vars, NEW w \in Worker, Clean(w),
           SettleCommit(w) \/ SettleRefused(w) \/ SettleBusy(w) \/ Rollback(w), ~OverranOwn(w)
    PROVE  rows'[q[w].res].tokens <= rows'[q[w].res].est /\ Uncopied(q[w].res)'
<1> DEFINE id == q[w].res
           s  == SettlementOf(w)
<1>1. /\ Shape /\ Courses /\ Covered /\ Unique /\ rows \in Seq(Row) /\ q \in [Worker -> Question]
    BY DEF Accounts, KeptWell, Shape, TypeOK
<1>2. /\ pc[w] \in {"settle", "settling", "rollback"}
      /\ ~Rollback(w) => pc[w] \in InFlight
      /\ Rollback(w) => pc[w] = "rollback"
    BY DEF SettleCommit, SettleRefused, SettleBusy, Rollback, At, InFlight
<1>3. id \in 1 .. Len(rows) /\ rows[id].est \in Nat
    BY <1>1, <1>2, FlightFacts DEF InFlight
<1>4. Uncopied(id)
    <2>1. CASE Rollback(w)
        BY <1>2, <2>1 DEF Clean
    <2>2. CASE ~Rollback(w)
        BY <1>1, <1>2, <2>2, FlightFacts DEF Uncopied
    <2> QED BY <2>1, <2>2
<1>5. kept' = kept /\ q'[w].flush = q[w].flush
    <2>1. CASE SettleCommit(w) \/ Rollback(w)
        BY <1>1, <2>1, SettlesTaken DEF SettleCommit, Rollback, process
    <2>2. CASE SettleRefused(w) \/ SettleBusy(w)
        <3>1. KeepIfOverran(w)
            BY <2>2 DEF SettleRefused, SettleBusy
        <3>2. kept' = kept
            BY <3>1 DEF KeepIfOverran, OverranOwn
        <3>3. q'[w].flush = q[w].flush
            BY <1>1, <2>2, CallTaken, SettlesTaken
        <3> QED BY <3>2, <3>3
    <2> QED BY <2>1, <2>2
<1>6. Uncopied(id)'
    <2>1. PICK i : i = id
        OBVIOUS
    <2>2. \A v \in Worker \ {w} : q'[v] = q[v]
        <3>1. Step(w)
            BY DEF Step
        <3> QED BY <1>1, <3>1, OthersStay
    <2>3. \A v \in Worker : q'[v].flush = q[v].flush
        BY <1>5, <2>2
    <2>4. q'[w].res = id
        <3>1. CASE SettleRefused(w)
            BY <1>1, <3>1, CallTaken
        <3>2. CASE ~SettleRefused(w)
            BY <1>1, <3>2, SettlesTaken
        <3> QED BY <3>1, <3>2
    <2>5. Uncopied(i)'
        BY <1>4, <1>5, <2>1, <2>3 DEF Uncopied
    <2> QED BY <2>1, <2>4, <2>5 DEF Uncopied
<1>7. CASE SettleCommit(w)
    <2>1. Paid(id, s) /\ s \in Settlement
        BY <1>1, <1>7, CommitPaid
    <2>2. /\ rows[id].kind = "reservation" /\ rows'[id].est = rows[id].est
          /\ rows'[id].tokens = IF s.kind = "unknown" THEN rows[id].tokens ELSE s.tokens
        <3> HIDE DEF id, s
        <3> QED BY <2>1 DEF Paid
    <2>3. rows[id].tokens = rows[id].est
        BY <1>1, <1>3, <2>2 DEF Covered, Covers
    <2>4. s.kind = "usage" => s.tokens <= rows[id].est
        <3>1. ~(s.kind = "usage" /\ s.tokens > rows[id].est)
            BY DEF OverranOwn, Overran
        <3>2. s.tokens \in Nat
            <4> HIDE DEF s
            <4> QED BY <2>1 DEF Settlement
        <3> HIDE DEF s, id
        <3> QED BY <1>3, <3>1, <3>2
    <2>5. s.kind # "usage" => s.kind = "unknown" \/ s.tokens = 0
        <3> HIDE DEF s
        <3> QED BY <2>1 DEF Settlement
    <2>6. rows'[id].tokens <= rows'[id].est
        <3> HIDE DEF s, id
        <3> QED BY <1>3, <2>2, <2>3, <2>4, <2>5
    <2> QED BY <1>6, <2>6
<1>8. CASE SettleRefused(w) \/ SettleBusy(w) \/ Rollback(w)
    <2>1. rows' = rows
        BY <1>8 DEF SettleRefused, SettleBusy, Rollback, store
    <2>2. rows[id].tokens <= rows[id].est
        <3>1. CASE Rollback(w)
            BY <1>2, <3>1 DEF Clean
        <3>2. CASE ~Rollback(w)
            <4>1. rows[id].kind = "reservation"
                BY <1>1, <1>2, <3>2, FlightFacts
            <4> QED BY <1>1, <1>3, <4>1 DEF Covered, Covers
        <3> QED BY <3>1, <3>2
    <2> QED BY <1>6, <2>1, <2>2
<1> QED BY <1>7, <1>8

\* A question goes on, or answers, on calls that were within their reservations.
LEMMA CleanReads ==
    ASSUME Accounts, Accounts', KeptWell, [Next]_vars, NEW w \in Worker, Clean(w), Reads(w)
    PROVE  Clean(w)'
<1>0. pc'[w] # "done" => q'[w].outcome = "none"
    BY DEF Accounts, Courses, Course, OwnFrame
<1>1. /\ Shape /\ q'[w].mine = q[w].mine /\ q[w].mine \subseteq 1 .. Len(rows)
      /\ pc'[w] # "done" => q'[w].outcome = "none"
    BY <1>0, ReadsTaken DEF Accounts, Courses, Course, OwnRow
<1>2. GivesUp(w) \/ GivesAnswer(w) \/ AsksOn(w) \/ AsksAgain(w)
    BY <1>1, ReadsKinds
<1>3. pc[w] \in Asking \cup {"call", "counted", "completed"}
    BY <1>2 DEF GivesUp, GivesAnswer, AsksOn, AsksAgain
<1>4. ~(Settles(w) \/ Exchange(w))
    BY <1>3 DEF Settles, SettleCommit, SettleRefused, SettleBusy, Exchange, At, Asking
<1>5. ASSUME NEW i \in q[w].mine, NotAbove(i) PROVE NotAbove(i)'
    BY <1>1, <1>4, <1>5, CleanRow DEF Step, Reads
<1>6. CASE GivesUp(w)
    BY <1>6 DEF GivesUp, Clean, Asking
<1>7. CASE GivesAnswer(w) \/ AsksOn(w) \/ AsksAgain(w)
    <2>1. \A i \in q[w].mine : NotAbove(i)
        <3>1. CASE pc[w] \in Asking \cup {"call"}
            BY <3>1 DEF Clean
        <3>2. CASE pc[w] \notin Asking \cup {"call"}
            BY <1>7, <3>2, CallWithin DEF GivesAnswer, AsksOn, AsksAgain
        <3> QED BY <3>1, <3>2
    <2>2. \A i \in q'[w].mine : NotAbove(i)'
        BY <1>1, <1>5, <2>1
    <2>3. pc'[w] \notin {"rollback", "counted", "completed"}
        BY <1>7 DEF GivesAnswer, AsksOn, AsksAgain, Asking
    <2> QED BY <2>2, <2>3 DEF Clean
<1> QED BY <1>2, <1>6, <1>7

\* A question that is at a call stays clean while the call is out.
LEMMA CleanCall ==
    ASSUME Accounts, Accounts', KeptWell, [Next]_vars, NEW w \in Worker, Clean(w),
           FlushCopy(w) \/ FlushOne(w) \/ FlushRetain(w) \/ Exchange(w) \/ SettleBegin(w)
           \/ SettleRefused(w)
    PROVE  Clean(w)'
<1>0. pc'[w] # "done" => q'[w].outcome = "none"
    BY DEF Accounts, Courses, Course, OwnFrame
<1>1. /\ Shape /\ q \in [Worker -> Question] /\ pc \in [Worker -> PC] /\ q[w] \in Question
      /\ q[w].mine \subseteq 1 .. Len(rows)
      /\ pc'[w] # "done" => q'[w].outcome = "none"
    BY <1>0 DEF Accounts, Courses, Course, OwnRow, Shape, TypeOK
<1>2. /\ q'[w].mine = q[w].mine /\ q'[w].res = q[w].res
      /\ \/ pc[w] \in Asking /\ pc'[w] \in Asking
         \/ pc[w] \in Billed /\ pc'[w] \in Billed \ {"counted"}
    BY <1>1, AttemptStays
<1>3. ASSUME NEW i \in q[w].mine, NotAbove(i), Settles(w) \/ Exchange(w) => i # q[w].res
      PROVE  NotAbove(i)'
    BY <1>1, <1>3, CleanRow DEF Step
<1>4. CASE pc[w] \in Asking
    <2>1. ~(Settles(w) \/ Exchange(w))
        BY <1>4 DEF Settles, SettleCommit, SettleRefused, SettleBusy, Exchange, At, Asking
    <2>2. \A i \in q[w].mine : NotAbove(i)'
        BY <1>3, <1>4, <2>1 DEF Clean
    <2>3. pc'[w] \notin {"rollback", "counted", "completed"}
        BY <1>2, <1>4 DEF Asking, Billed, Heard
    <2> QED BY <1>2, <2>2, <2>3 DEF Clean
<1>5. CASE pc[w] \in Billed
    <2>1. \A i \in q'[w].mine \ {q'[w].res} : NotAbove(i)'
        BY <1>2, <1>3, <1>5 DEF Clean, Billed, Heard
    <2>2. pc'[w] \notin Asking \cup {"call"} /\ pc'[w] # "done"
        BY <1>2, <1>5 DEF Asking, Billed, Heard
    <2>3. ASSUME pc'[w] \in {"rollback", "counted", "completed"}, ~OverranOwn(w)'
          PROVE  (rows[q[w].res].tokens <= rows[q[w].res].est)' /\ Uncopied(q[w].res)'
        <3>1. SettleRefused(w)
            BY <1>1, <1>5, <2>3 DEF FlushCopy, FlushOne, FlushRetain, Exchange, SettleBegin, At,
                                    Goto, Billed, Heard
        <3>2. q' = q /\ rows' = rows
            BY <3>1 DEF SettleRefused, store
        <3>3. ~OverranOwn(w)
            BY <2>3, <3>2 DEF OverranOwn, SettlementOf
        <3>4. rows'[q[w].res].tokens <= rows'[q[w].res].est /\ Uncopied(q[w].res)'
            BY <3>1, <3>3, CallSettled
        <3> QED BY <3>2, <3>4
    <2> QED BY <1>1, <2>1, <2>2, <2>3 DEF Clean
<1> QED BY <1>2, <1>4, <1>5

\* A question that is granted a reservation stays clean.
LEMMA CleanAdmit ==
    ASSUME Accounts, Accounts', KeptWell, [Next]_vars, NEW w \in Worker, Clean(w),
           AdmitCommit(w)
    PROVE  Clean(w)'
<1>0. pc'[w] # "done" => q'[w].outcome = "none"
    BY DEF Accounts, Courses, Course, OwnFrame
<1>1. /\ Shape /\ q \in [Worker -> Question] /\ pc \in [Worker -> PC]
      /\ q[w].mine \subseteq 1 .. Len(rows)
      /\ pc'[w] # "done" => q'[w].outcome = "none"
    BY <1>0 DEF Accounts, Courses, Course, OwnRow, Shape, TypeOK
<1>2. pc[w] = "commit" /\ \A i \in q[w].mine : NotAbove(i)
    BY DEF AdmitCommit, At, Clean, Asking
<1>3. ~(Settles(w) \/ Exchange(w))
    BY <1>2 DEF Settles, SettleCommit, SettleRefused, SettleBusy, Exchange, At
<1>4. \A i \in q[w].mine : NotAbove(i)'
    BY <1>1, <1>2, <1>3, CleanRow DEF Step
<1>5. CASE q[w].decision = "grant"
    <2>1. /\ q'[w].mine = q[w].mine \cup {Len(rows) + 1} /\ q'[w].res = Len(rows) + 1
          /\ pc'[w] = "send"
        BY <1>1, <1>5, GrantTaken
    <2> QED BY <1>1, <1>4, <2>1 DEF Clean, Asking
<1>6. CASE q[w].decision # "grant"
    <2>1. q' = q /\ pc'[w] = "refused"
        BY <1>1, <1>6 DEF AdmitCommit, Goto
    <2> QED BY <1>4, <2>1 DEF Clean
<1> QED BY <1>5, <1>6

\* A question that is charged for a call stays clean.
LEMMA CleanCharge ==
    ASSUME Accounts, Accounts', KeptWell, [Next]_vars, NEW w \in Worker, Clean(w),
           SettleCommit(w) \/ SettleBusy(w) \/ Rollback(w)
    PROVE  Clean(w)'
<1>0. pc'[w] # "done" => q'[w].outcome = "none"
    BY DEF Accounts, Courses, Course, OwnFrame
<1>1. /\ Shape /\ Courses /\ q \in [Worker -> Question] /\ pc \in [Worker -> PC]
      /\ q[w].mine \subseteq 1 .. Len(rows)
      /\ pc'[w] # "done" => q'[w].outcome = "none"
    BY <1>0 DEF Accounts, Courses, Course, OwnRow, Shape, TypeOK
<1>2. /\ pc[w] \in {"settle", "settling", "rollback"} /\ pc'[w] \in {"counted", "completed"}
      /\ q'[w].mine = q[w].mine /\ q'[w].res = q[w].res
    BY <1>1, SettlesTaken
<1>3. ASSUME NEW i \in q[w].mine \ {q[w].res} PROVE NotAbove(i)'
    <2>1. NotAbove(i)
        BY <1>2 DEF Clean
    <2> QED BY <1>1, <2>1, CleanRow DEF Step
<1>4. q'[w].answer = q[w].answer /\ q'[w].local = q[w].local
    <2>1. ASSUME NEW n, Charge(w, n) PROVE q'[w].answer = q[w].answer /\ q'[w].local = q[w].local
        BY <1>1, <2>1 DEF Charge, Question
    <2> QED BY <2>1 DEF SettleCommit, SettleBusy, Rollback, Unsettled
<1>5. ASSUME ~OverranOwn(w)'
      PROVE  (rows[q[w].res].tokens <= rows[q[w].res].est)' /\ Uncopied(q[w].res)'
    <2>1. PICK i : i = q[w].res
        OBVIOUS
    <2>2. i \in 1 .. Len(rows)
        BY <1>1, <1>2, <2>1, FlightFacts DEF InFlight
    <2>3. rows'[i].est = rows[i].est
        BY <1>1, <2>2, RowsStay
    <2>4. SettlementOf(w)' = SettlementOf(w)
        BY <1>4 DEF SettlementOf
    <2>5. ~OverranOwn(w)
        BY <1>2, <1>5, <2>1, <2>3, <2>4 DEF OverranOwn
    <2>6. rows'[i].tokens <= rows'[i].est /\ Uncopied(q[w].res)'
        BY <2>1, <2>5, CallSettled
    <2> QED BY <1>2, <2>1, <2>6
<1>6. \A i \in q'[w].mine \ {q'[w].res} : NotAbove(i)'
    BY <1>2, <1>3
<1>7. pc'[w] \notin Asking \cup {"call"} /\ pc'[w] # "done"
    BY <1>2 DEF Asking
<1> QED BY <1>1, <1>5, <1>6, <1>7 DEF Clean

\* Every step keeps every question clean.
LEMMA CleanNext ==
    ASSUME Accounts, Accounts', KeptWell, AllClean, [Next]_vars PROVE AllClean'
<1>1. /\ Shape /\ q \in [Worker -> Question] /\ pc \in [Worker -> PC]
      /\ \A w \in Worker : Clean(w)
    BY DEF Accounts, Shape, TypeOK, AllClean
<1>2. ASSUME NEW w \in Worker, Step(w) PROVE AllClean'
    <2>1. Clean(w)'
        BY <1>1, <1>2, CleanReads, CleanCall, CleanAdmit, CleanCharge DEF Step, Reads
    <2>2. \A v \in Worker \ {w} : Clean(v)'
        BY <1>1, <1>2, CleanOthers
    <2> QED BY <2>1, <2>2 DEF AllClean
<1>3. ASSUME NEW w \in Worker, NEW j \in Job, NEW c \in Countings, Ask(w, j, c)
      PROVE  AllClean'
    <2>1. q'[w] = Fresh(j, clock, c) /\ pc'[w] = "call"
        BY <1>1, <1>3 DEF Ask, Goto
    <2>2. q'[w].mine = {}
        BY <2>1 DEF Fresh
    <2>3. Clean(w)'
        BY <2>1, <2>2 DEF Clean
    <2>4. \A v \in Worker \ {w} : Clean(v)'
        BY <1>1, <1>3, CleanOthers
    <2> QED BY <2>3, <2>4 DEF AllClean
<1>4. CASE Crash
    <2>1. \A w \in Worker : q'[w] = Fresh(AnyJob, 0, "could_admit") /\ pc'[w] = "idle"
        BY <1>4 DEF Crash
    <2>2. \A w \in Worker : q'[w].mine = {}
        BY <2>1 DEF Fresh
    <2> QED BY <2>1, <2>2 DEF AllClean, Clean
<1>5. CASE Reconcile
    <2>1. /\ phase = "starting" /\ q' = q /\ pc' = pc
        BY <1>5 DEF Reconcile, process
    <2>2. \A w \in Worker : q'[w].mine = {} /\ pc'[w] = "idle"
        BY <2>1 DEF Accounts, Courses, Course, OwnFrame, Shape, Flight
    <2> QED BY <2>2 DEF AllClean, Clean
<1>6. CASE Serve \/ Tick \/ UNCHANGED vars
    <2>1. rows' = rows /\ kept' = kept /\ q' = q /\ pc' = pc
        BY <1>6 DEF Serve, Tick, vars, store, process
    <2>2. \A w \in Worker : OverranOwn(w)' = OverranOwn(w)
        BY <2>1 DEF OverranOwn, SettlementOf
    <2>3. \A i : NotAbove(i) => NotAbove(i)'
        BY <2>1 DEF NotAbove, Uncopied
    <2>4. \A i : Uncopied(i) => Uncopied(i)'
        BY <2>1 DEF Uncopied
    <2>5. ASSUME NEW w \in Worker PROVE Clean(w)'
        BY <1>1, <2>1, <2>2, <2>3, <2>4, <2>5 DEF Clean
    <2> QED BY <2>5 DEF AllClean
<1> QED BY <1>2, <1>3, <1>4, <1>5, <1>6 DEF Next, Quiescent

\* No question has a row.
LEMMA CleanInit == Init => AllClean
<1> SUFFICES ASSUME Init PROVE AllClean
    OBVIOUS
<1>1. \A w \in Worker : /\ q[w].mine = {} /\ pc[w] = "idle"
    BY DEF Init, Fresh
<1> QED BY <1>1 DEF AllClean, Clean

\* What a process keeps of bills that the store did not take stays in order.
THEOREM KeptHolds == Spec => []KeptWell
<1>1. Init => KeptWell
    BY BalanceInit
<1>2. Accounts /\ KeptWell /\ [Next]_vars => KeptWell'
    BY KeptNext
<1> QED BY <1>1, <1>2, AccountsHold, PTL DEF Spec

\* An answer is only given to a question none of whose calls billed above its
\* reservation, also when the settlement of the call was refused.
THEOREM AnswersAreWithin == Spec => []AnswerWithinReservations
<1>1. Init => AllClean
    BY CleanInit
<1>2. Accounts /\ Accounts' /\ KeptWell /\ AllClean /\ [Next]_vars => AllClean'
    BY CleanNext
<1>3. AllClean => AnswerWithinReservations
    BY DEF AllClean, Clean, NotAbove, AnswerWithinReservations
<1> QED BY <1>1, <1>2, <1>3, AccountsHold, KeptHolds, PTL DEF Spec

\* What question_worst and the settlement of a call promise of prices: every
\* attempt, every question and every answer is within what was reserved for it,
\* over counts and repairs beside other threads that take and free room.
THEOREM QuestionsArePriced == Spec => []QuestionsPriced
<1>1. AttemptWithinSend /\ QuestionWithinWorst /\ AnswerWithinReservations => QuestionsPriced
    BY DEF QuestionsPriced
<1> QED BY <1>1, AttemptsArePriced, QuestionsAreWithinWorst, AnswersAreWithin, PTL

=============================================================================
