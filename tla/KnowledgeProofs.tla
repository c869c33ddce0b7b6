-------------------------- MODULE KnowledgeProofs --------------------------
(***************************************************************************)
(* Proofs about claims, decisions, conflicts and evaluations, for every    *)
(* set of claims, scopes and principals, every content, and every right.   *)
(***************************************************************************)
EXTENDS Knowledge, Comparisons, WellFoundedInduction, TLAPS

-----------------------------------------------------------------------------
(* The latest of some records.                                             *)

\* A nonempty set of naturals has a smallest element.
LEMMA SmallestOf ==
    ASSUME NEW S \in SUBSET Nat, S # {}
    PROVE  \E x \in S : \A y \in S : x <= y
<1> DEFINE R == {ss \in Nat \X Nat : ss[1] < ss[2]}
<1>1. IsWellFoundedOn(R, Nat)
    BY NatLessThanWellFounded, Zenon DEF OpToRel
<1>2. PICK x \in S : \A y \in S : ~ (<<y, x>> \in R)
    BY <1>1, WFMin, Zenon
<1>3. ASSUME NEW y \in S PROVE x <= y
    <2>1. ~ (y < x)
        BY <1>2 DEF R
    <2> QED BY <2>1
<1> QED BY <1>3

\* A nonempty set of positions has a largest one.
LEMMA LargestOf ==
    ASSUME NEW n \in Nat, NEW at \in SUBSET (1 .. n), at # {}
    PROVE  \E k \in at : \A m \in at : m <= k
<1> DEFINE Left == {n - k : k \in at}
<1>1. Left \in SUBSET Nat /\ Left # {}
    <2>1. \A k \in at : n - k \in Nat
        OBVIOUS
    <2> QED BY <2>1
<1>2. PICK x \in Left : \A y \in Left : x <= y
    <2> HIDE DEF Left
    <2> QED BY <1>1, SmallestOf
<1>3. PICK k \in at : x = n - k
    BY <1>2
<1>4. ASSUME NEW m \in at PROVE m <= k
    <2>1. n - k <= n - m
        BY <1>2, <1>3
    <2> QED BY <2>1
<1> QED BY <1>4

\* What the latest of the positions `at` of a sequence is.
Latest(k, at) ==
    /\ at = {} => k = 0
    /\ at # {} => k \in at /\ \A m \in at : m <= k

DecisionsOf(ref) == {n \in DOMAIN decisions : decisions[n].claim = ref}
EvaluationsOf(ref, t) ==
    {n \in DOMAIN evaluations : evaluations[n].claim = ref /\ evaluations[n].target = t}

\* latest_decision finds the last decision about exactly a reference.
LEMMA LatestDecision ==
    ASSUME NEW S, decisions \in Seq(S), NEW ref
    PROVE  Latest(latest_decision(ref), DecisionsOf(ref))
<1> DEFINE at == DecisionsOf(ref)
<1>1. at \in SUBSET (1 .. Len(decisions)) /\ Len(decisions) \in Nat
    BY DEF DecisionsOf
<1>2. latest_decision(ref) = IF at = {} THEN 0 ELSE CHOOSE n \in at : \A m \in at : m <= n
    BY Zenon DEF latest_decision, LastOf, DecisionsOf
<1> HIDE DEF at
<1>3. at # {} => \E n \in at : \A m \in at : m <= n
    BY <1>1, LargestOf
<1>4. Latest(latest_decision(ref), at)
    BY <1>2, <1>3 DEF Latest
<1> QED BY <1>4 DEF at

\* latest_evaluation finds the last evaluation of a reference for a target.
LEMMA LatestEvaluation ==
    ASSUME NEW S, evaluations \in Seq(S), NEW ref, NEW t
    PROVE  Latest(latest_evaluation(ref, t), EvaluationsOf(ref, t))
<1> DEFINE at == EvaluationsOf(ref, t)
<1>1. at \in SUBSET (1 .. Len(evaluations)) /\ Len(evaluations) \in Nat
    BY DEF EvaluationsOf
<1>2. latest_evaluation(ref, t) = IF at = {} THEN 0 ELSE CHOOSE n \in at : \A m \in at : m <= n
    BY Zenon DEF latest_evaluation, LastOf, EvaluationsOf
<1> HIDE DEF at
<1>3. at # {} => \E n \in at : \A m \in at : m <= n
    BY <1>1, LargestOf
<1>4. Latest(latest_evaluation(ref, t), at)
    BY <1>2, <1>3 DEF Latest
<1> QED BY <1>4 DEF at

-----------------------------------------------------------------------------
(* What is worked out from two records, and from findings.                 *)

Symmetric(a, b) ==
    /\ Separations(a, b) = Separations(b, a)
    /\ Drift(a, b) = Drift(b, a)
    /\ Uncertain(a, b) = {} <=> Uncertain(b, a) = {}

\* What separates two records, and what leaves it open, does not depend on
\* their order.
LEMMA ComparisonSymmetric ==
    ASSUME NEW a, NEW b
    PROVE  Symmetric(a, b)
<1>1. Agree(a.qualifiers, b.qualifiers) <=> Agree(b.qualifiers, a.qualifiers)
    BY DEF Agree
<1>2. Agree(a.anchors, b.anchors) <=> Agree(b.anchors, a.anchors)
    BY DEF Agree
<1>3. Separations(a, b) = Separations(b, a)
    <2>1. (a.about # b.about) = (b.about # a.about)
        OBVIOUS
    <2>2. (a.scope # b.scope) = (b.scope # a.scope)
        OBVIOUS
    <2>3. (~Agree(a.qualifiers, b.qualifiers)) = (~Agree(b.qualifiers, a.qualifiers))
        BY <1>1
    <2>4. ("none" \notin {a.basis, b.basis} /\ ~Agree(a.anchors, b.anchors))
             = ("none" \notin {b.basis, a.basis} /\ ~Agree(b.anchors, a.anchors))
        BY <1>2
    <2>5. (/\ <<>> \notin {a.validity, b.validity}
           /\ ~(a.validity[1] < b.validity[2] /\ b.validity[1] < a.validity[2]))
             = (/\ <<>> \notin {b.validity, a.validity}
                /\ ~(b.validity[1] < a.validity[2] /\ a.validity[1] < b.validity[2]))
        OBVIOUS
    <2>6. ("multiple" \in {a.cardinality, b.cardinality})
             = ("multiple" \in {b.cardinality, a.cardinality})
        OBVIOUS
    <2>7. (a.value = b.value) = (b.value = a.value)
        OBVIOUS
    <2> QED BY <2>1, <2>2, <2>3, <2>4, <2>5, <2>6, <2>7, Zenon DEF Separations
<1>4. Drift(a, b) = Drift(b, a)
    BY DEF Drift
<1>5. Uncertain(a, b) = {} <=> Uncertain(b, a) = {}
    BY <1>4 DEF Uncertain
<1> QED BY <1>3, <1>4, <1>5 DEF Symmetric

\* compare gives the same of two records in either order.
LEMMA CompareSymmetric ==
    ASSUME NEW a, NEW b
    PROVE  compare(a, b) = compare(b, a)
BY ComparisonSymmetric, Zenon DEF compare, Symmetric

\* Two records that can be in conflict are of one scope.
LEMMA ComparableScope ==
    ASSUME NEW a, NEW b, Comparable(a, b)
    PROVE  a.scope = b.scope
<1> DEFINE found == Separations(a, b)
<1>1. DOMAIN found = 1 .. 7 /\ (a.scope # b.scope => found[2].is = TRUE)
    <2>1. DOMAIN found = 1 .. 7
        BY DEF Separations
    <2>2. found[2] = [is |-> a.scope # b.scope, reason |-> "scope_differs"]
        BY DEF Separations
    <2>3. a.scope # b.scope => found[2] = [is |-> TRUE, reason |-> "scope_differs"]
        BY <2>2, Zenon
    <2> HIDE DEF found
    <2>4. a.scope # b.scope => found[2].is = TRUE
        BY <2>3
    <2> QED BY <2>1, <2>4
<1> HIDE DEF found
<1>2. {n \in DOMAIN found : found[n].is} = {}
    <2>1. {n \in DOMAIN found : found[n].is} # {} => compare(a, b).kind = "none"
        BY DEF compare, found
    <2> QED BY <2>1 DEF Comparable
<1> QED BY <1>1, <1>2

\* Only findings with a match and nothing else come to "applicable".
LEMMA ApplicableFindings ==
    ASSUME NEW findings, result_of(findings) = "applicable",
           findings \subseteq {"match", "mismatch", "missing_anchor", "unsupported", "unchecked"}
    PROVE  "match" \in findings
BY DEF result_of

-----------------------------------------------------------------------------
(* The inductive invariant.                                                *)

Ref == Claim \X (Nat \ {0}) \X DOMAIN Draft
Revision == [draft : DOMAIN Draft, producer : Principal, base : Bases]
Decision == [claim : Ref, value : {v[1] : v \in Values}, use : {v[2] : v \in Values},
             supersedes : Nat, decider : Principal, author : BOOLEAN, epoch : Nat]
Results == {"applicable", "invalid_for_target", "needs_check", "unknown"}
Evaluation == [claim : Ref, target : DOMAIN Target, result : Results, supersedes : Nat]
Compared == {compare(Draft[d], Draft[e]) : d, e \in DOMAIN Draft}
Conflict == [kind : {f.kind : f \in Compared}, status : {f.status : f \in Compared},
             revisions : Ref \X Ref, state : {"open", "resolved"},
             selected : Ref \cup {<<>>}, by : Principal \cup {"none"}]

Shape ==
    /\ lineage \in [Claim -> Seq(Revision)]
    /\ binding \in [Scope -> Seq(Principal)]
    /\ decisions \in Seq(Decision)
    /\ evaluations \in Seq(Evaluation)
    /\ conflicts \in Seq(Conflict)

\* Every revision but the first is based on the one before it.
Lineages ==
    \A c \in Claim : \A n \in DOMAIN lineage[c] :
        /\ lineage[c][n].draft \in Writes[c]
        /\ lineage[c][n].base = IF n = 1 THEN <<0, "">> ELSE <<n - 1, lineage[c][n - 1].draft>>

\* That the lineages L have the revision that a reference names by its digest, and
\* what a reference that is exact names.
ExactIn(L, ref) ==
    ref[1] \in Claim /\ ref[2] \in DOMAIN L[ref[1]] /\ L[ref[1]][ref[2]].draft = ref[3]
What(ref) == Draft[ref[3]]

\* What is recorded names revisions that exist, by their digests.
Known ==
    /\ \A n \in DOMAIN decisions : ExactIn(lineage, decisions[n].claim)
    /\ \A n \in DOMAIN evaluations : ExactIn(lineage, evaluations[n].claim)
    /\ \A n \in DOMAIN conflicts : \A k \in 1 .. 2 : ExactIn(lineage, conflicts[n].revisions[k])

\* A decision is by the authority of its epoch, in the bindings B.
ByAuthority(B, d) ==
    d.epoch \in DOMAIN B[What(d.claim).scope] /\ d.decider = B[What(d.claim).scope][d.epoch]

\* Later decisions of a scope are of later epochs.
NoLater(d, e) == What(d.claim).scope = What(e.claim).scope => d.epoch <= e.epoch

Epochs ==
    /\ \A n \in DOMAIN decisions : ByAuthority(binding, decisions[n])
    /\ \A n \in DOMAIN decisions : \A m \in 1 .. n : NoLater(decisions[m], decisions[n])

\* A decision supersedes the one before it about the same revision.
Follows(D, n) ==
    LET s == D[n].supersedes IN
    /\ s < n
    /\ s # 0 => D[s].claim = D[n].claim
    /\ \A m \in s + 1 .. n - 1 : D[m].claim # D[n].claim

Chain == \A n \in DOMAIN decisions : Follows(decisions, n)

\* A conflict is the comparison of its two revisions.
IsComparison(r, kind, status) ==
    LET found == compare(What(r[1]), What(r[2])) IN
    r[1] # r[2] /\ kind = found.kind /\ status = found.status /\ kind # "none"

Disputes ==
    \A n \in DOMAIN conflicts :
        IsComparison(conflicts[n].revisions, conflicts[n].kind, conflicts[n].status)

\* Whoever resolved a conflict was an authority of its first revision's scope.
WasAuthority(B, x) ==
    \E k \in DOMAIN B[What(x.revisions[1]).scope] : B[What(x.revisions[1]).scope][k] = x.by

Resolved ==
    \A n \in DOMAIN conflicts : conflicts[n].state = "resolved" => WasAuthority(binding, conflicts[n])

\* An applicable evaluation has a match of its own, or rests on an applicable one
\* that was there before.
Matched(e) ==
    \E c \in What(e.claim).conditions : condition_finding(c, Target[e.target], Kinds) = "match"
Leans(e, dep) == dep.claim \in What(e.claim).deps /\ dep.target = e.target /\ dep.result = "applicable"

Rests(E, n) ==
    E[n].result = "applicable" => Matched(E[n]) \/ \E m \in 1 .. n - 1 : Leans(E[n], E[m])

Rested == \A n \in DOMAIN evaluations : Rests(evaluations, n)

\* A packet says of its item what the snapshot it carries says.
Packed(ref, t, wanted, snapshot) ==
    [claim |-> ref, target |-> t, wanted |-> wanted, snapshot |-> snapshot,
     satisfied |-> ClaimSatisfies(wanted, snapshot)]

Carried == packet = <<>> \/ \E ref, t, wanted, snapshot : packet = <<Packed(ref, t, wanted, snapshot)>>

KnowledgeInv ==
    Shape /\ Lineages /\ Known /\ Epochs /\ Chain /\ Disputes /\ Resolved /\ Rested /\ Carried

-----------------------------------------------------------------------------
(* What one step changes.                                                  *)

\* Revisions are only added, one to a claim.
LEMMA LineageStep ==
    ASSUME [Next]_vars
    PROVE  \/ UNCHANGED lineage
           \/ /\ UNCHANGED <<binding, decisions, evaluations, conflicts, packet>>
              /\ \E p \in Principal, c \in Claim, base \in Bases : \E d \in Writes[c] :
                     knowledge_claim(p, c, d, base)
BY Zenon DEF Next, vars, knowledge_claim, knowledge_authority, knowledge_decision,
   knowledge_conflict_open, knowledge_conflict_resolve, knowledge_evaluate, Carry

\* Authorities are only added, one to a scope.
LEMMA BindingStep ==
    ASSUME [Next]_vars
    PROVE  \/ UNCHANGED binding
           \/ /\ UNCHANGED <<lineage, decisions, evaluations, conflicts, packet>>
              /\ \E p, a \in Principal, s \in Scope, epoch \in 0 .. MaxEpoch :
                     knowledge_authority(p, s, a, epoch)
BY Zenon DEF Next, vars, knowledge_claim, knowledge_authority, knowledge_decision,
   knowledge_conflict_open, knowledge_conflict_resolve, knowledge_evaluate, Carry

\* Decisions change only by knowledge_decision.
LEMMA DecisionStep ==
    ASSUME [Next]_vars
    PROVE  \/ UNCHANGED decisions
           \/ /\ UNCHANGED <<lineage, binding, evaluations, conflicts, packet>>
              /\ \E p \in Principal, ref \in Named, v \in Values, seen \in 0 .. MaxDecisions,
                    epoch \in 0 .. MaxEpoch : knowledge_decision(p, ref, v[1], v[2], seen, epoch)
BY Zenon DEF Next, vars, knowledge_claim, knowledge_authority, knowledge_decision,
   knowledge_conflict_open, knowledge_conflict_resolve, knowledge_evaluate, Carry

\* Conflicts change when one is opened or resolved.
LEMMA ConflictStep ==
    ASSUME [Next]_vars
    PROVE  \/ UNCHANGED conflicts
           \/ /\ UNCHANGED <<lineage, binding, decisions, evaluations, packet>>
              /\ \/ \E p \in Principal, a, b \in Named : knowledge_conflict_open(p, a, b)
                 \/ \E p \in Principal, n \in DOMAIN conflicts, epoch \in 0 .. MaxEpoch :
                        \E selected \in Named \cup {<<>>} :
                            knowledge_conflict_resolve(p, n, selected, epoch)
BY Zenon DEF Next, vars, knowledge_claim, knowledge_authority, knowledge_decision,
   knowledge_conflict_open, knowledge_conflict_resolve, knowledge_evaluate, Carry

\* Evaluations change only by knowledge_evaluate.
LEMMA EvaluationStep ==
    ASSUME [Next]_vars
    PROVE  \/ UNCHANGED evaluations
           \/ /\ UNCHANGED <<lineage, binding, decisions, conflicts, packet>>
              /\ \E p \in Principal, ref \in Named, t \in DOMAIN Target : knowledge_evaluate(p, ref, t)
BY Zenon DEF Next, vars, knowledge_claim, knowledge_authority, knowledge_decision,
   knowledge_conflict_open, knowledge_conflict_resolve, knowledge_evaluate, Carry

\* A packet is carried once.
LEMMA PacketStep ==
    ASSUME [Next]_vars
    PROVE  \/ UNCHANGED packet
           \/ \E ref \in Named, t \in DOMAIN Target, wanted \in Wanted : Carry(ref, t, wanted)
BY Zenon DEF Next, vars, knowledge_claim, knowledge_authority, knowledge_decision,
   knowledge_conflict_open, knowledge_conflict_resolve, knowledge_evaluate, Carry

-----------------------------------------------------------------------------
(* Types.                                                                  *)

\* A reference that a command names and the provider holds is to a revision.
LEMMA HeldIsRef ==
    ASSUME NEW ref \in Named, held_revision(ref)
    PROVE  ref \in Ref
<1>1. ref \notin Remote
    BY ContentAssumption DEF held_revision
<1> QED BY <1>1 DEF Named, Ref

\* What a reference that is held names.
LEMMA RefHolds ==
    ASSUME Shape, NEW ref \in Ref, held_revision(ref)
    PROVE  /\ ref[1] \in Claim /\ ref[2] \in 1 .. Len(lineage[ref[1]])
           /\ lineage[ref[1]][ref[2]] \in Revision
           /\ Record(ref) = Draft[lineage[ref[1]][ref[2]].draft]
           /\ lineage[ref[1]][ref[2]].draft \in DOMAIN Draft
           /\ ScopeOf(ref) \in Scope
<1>1. ref[1] \in Claim /\ ref[2] \in 1 .. Len(lineage[ref[1]])
    BY DEF held_revision, Shape
<1>2. lineage[ref[1]][ref[2]] \in Revision
    BY <1>1 DEF Shape
<1>3. lineage[ref[1]][ref[2]].draft \in DOMAIN Draft
    BY <1>2 DEF Revision
<1> QED BY ContentAssumption, <1>1, <1>2, <1>3 DEF Record, ScopeOf

\* The finding of an evaluation is one of its results.
LEMMA ResultType ==
    ASSUME NEW findings PROVE result_of(findings) \in Results
BY DEF result_of, Results

\* The invariant of the types.
LEMMA ShapeHolds ==
    ASSUME Shape, [Next]_vars
    PROVE  Shape'
<1>1. lineage' \in [Claim -> Seq(Revision)]
    <2>1. CASE UNCHANGED lineage
        BY <2>1 DEF Shape
    <2>2. ASSUME NEW p \in Principal, NEW c \in Claim, NEW base \in Bases, NEW d \in Writes[c],
                 knowledge_claim(p, c, d, base)
          PROVE  lineage' \in [Claim -> Seq(Revision)]
        <3> DEFINE new == [draft |-> d, producer |-> p, base |-> base]
        <3>1. new \in Revision
            BY ContentAssumption DEF Revision
        <3>2. lineage' = [lineage EXCEPT ![c] = Append(@, new)]
            BY <2>2, Zenon DEF knowledge_claim
        <3> HIDE DEF new
        <3> QED BY <3>1, <3>2 DEF Shape
    <2> QED BY <2>1, <2>2, LineageStep
<1>2. binding' \in [Scope -> Seq(Principal)]
    <2>1. CASE UNCHANGED binding
        BY <2>1 DEF Shape
    <2>2. ASSUME NEW p \in Principal, NEW a \in Principal, NEW s \in Scope, NEW epoch,
                 knowledge_authority(p, s, a, epoch)
          PROVE  binding' \in [Scope -> Seq(Principal)]
        BY <2>2 DEF Shape, knowledge_authority
    <2> QED BY <2>1, <2>2, BindingStep
<1>3. decisions' \in Seq(Decision)
    <2>1. CASE UNCHANGED decisions
        BY <2>1 DEF Shape
    <2>2. ASSUME NEW p \in Principal, NEW ref \in Named, NEW v \in Values, NEW seen, NEW epoch,
                 knowledge_decision(p, ref, v[1], v[2], seen, epoch)
          PROVE  decisions' \in Seq(Decision)
        <3>1. ref \in Ref /\ ScopeOf(ref) \in Scope
            BY <2>2, HeldIsRef, RefHolds DEF knowledge_decision
        <3>2. seen \in Nat
            <4>1. seen = latest_decision(ref) /\ Latest(seen, DecisionsOf(ref))
                BY <2>2, LatestDecision DEF knowledge_decision, Shape
            <4>2. DecisionsOf(ref) \subseteq Nat
                BY DEF DecisionsOf, Shape
            <4> QED BY <4>1, <4>2 DEF Latest
        <3>3. PICK b \in BOOLEAN : b = (lineage[ref[1]][ref[2]].producer = p)
            OBVIOUS
        <3>4. PICK e \in Nat : e = Len(binding[ScopeOf(ref)])
            BY <3>1 DEF Shape
        <3> DEFINE new == [claim |-> ref, value |-> v[1], use |-> v[2], supersedes |-> seen,
                           decider |-> p, author |-> b, epoch |-> e]
        <3>5. new \in Decision
            BY <3>1, <3>2, <3>3, <3>4 DEF Decision
        <3>6. decisions' = Append(decisions, new)
            BY <2>2, <3>3, <3>4, Zenon DEF knowledge_decision
        <3> HIDE DEF new
        <3> QED BY <3>5, <3>6 DEF Shape
    <2> QED BY <2>1, <2>2, DecisionStep
<1>4. evaluations' \in Seq(Evaluation)
    <2>1. CASE UNCHANGED evaluations
        BY <2>1 DEF Shape
    <2>2. ASSUME NEW p \in Principal, NEW ref \in Named, NEW t \in DOMAIN Target,
                 knowledge_evaluate(p, ref, t)
          PROVE  evaluations' \in Seq(Evaluation)
        <3>1. ref \in Ref
            BY <2>2, HeldIsRef DEF knowledge_evaluate
        <3>2. PICK s \in Nat : s = latest_evaluation(ref, t)
            <4>1. Latest(latest_evaluation(ref, t), EvaluationsOf(ref, t))
                BY LatestEvaluation DEF Shape
            <4>2. EvaluationsOf(ref, t) \subseteq Nat
                BY DEF EvaluationsOf, Shape
            <4> QED BY <4>1, <4>2 DEF Latest
        <3>3. PICK r \in Results :
                  evaluations' = Append(evaluations,
                                     [claim |-> ref, target |-> t, result |-> r, supersedes |-> s])
            BY <2>2, <3>2, ResultType, Zenon DEF knowledge_evaluate
        <3> DEFINE new == [claim |-> ref, target |-> t, result |-> r, supersedes |-> s]
        <3>4. new \in Evaluation
            BY <3>1 DEF Evaluation
        <3> HIDE DEF new
        <3> QED BY <3>3, <3>4 DEF Shape, new
    <2> QED BY <2>1, <2>2, EvaluationStep
<1>5. conflicts' \in Seq(Conflict)
    <2>1. CASE UNCHANGED conflicts
        BY <2>1 DEF Shape
    <2>2. ASSUME NEW p \in Principal, NEW a \in Named, NEW b \in Named,
                 knowledge_conflict_open(p, a, b)
          PROVE  conflicts' \in Seq(Conflict)
        <3>1. a \in Ref /\ b \in Ref /\ held_revision(a) /\ held_revision(b)
            BY <2>2, HeldIsRef DEF knowledge_conflict_open, Exact
        <3>2. PICK f \in Compared : f = compare(Record(a), Record(b))
            BY <3>1, RefHolds DEF Compared
        <3>3. PICK k, s : /\ k = f.kind /\ s = f.status
                          /\ k \in {g.kind : g \in Compared} /\ s \in {g.status : g \in Compared}
            OBVIOUS
        <3> DEFINE new == [kind |-> k, status |-> s, revisions |-> <<a, b>>,
                           state |-> "open", selected |-> <<>>, by |-> "none"]
        <3>4. new \in Conflict
            BY <3>1, <3>3 DEF Conflict
        <3>5. conflicts' = Append(conflicts, new)
            BY <2>2, <3>2, <3>3, Zenon DEF knowledge_conflict_open
        <3> HIDE DEF new
        <3> QED BY <3>4, <3>5 DEF Shape
    <2>3. ASSUME NEW p \in Principal, NEW n \in DOMAIN conflicts, NEW epoch, NEW selected,
                 knowledge_conflict_resolve(p, n, selected, epoch)
          PROVE  conflicts' \in Seq(Conflict)
        <3>1. n \in 1 .. Len(conflicts) /\ conflicts[n] \in Conflict
            BY DEF Shape
        <3>2. selected \in {<<>>} \cup ToSet(conflicts[n].revisions)
            BY <2>3 DEF knowledge_conflict_resolve
        <3>3. conflicts[n].revisions \in Ref \X Ref
            BY <3>1 DEF Conflict
        <3>4. ToSet(conflicts[n].revisions) \subseteq Ref
            BY <3>3 DEF ToSet
        <3>5. selected \in Ref \cup {<<>>}
            BY <3>2, <3>4
        <3>6. conflicts' = [conflicts EXCEPT ![n].state = "resolved", ![n].selected = selected,
                                             ![n].by = p]
            BY <2>3 DEF knowledge_conflict_resolve
        <3> DEFINE new == [conflicts[n] EXCEPT !.state = "resolved", !.selected = selected, !.by = p]
        <3>7. new \in Conflict
            BY <3>1, <3>5 DEF Conflict
        <3>8. conflicts' = [conflicts EXCEPT ![n] = new]
            BY <3>6
        <3> HIDE DEF new
        <3> QED BY <3>1, <3>7, <3>8 DEF Shape
    <2> QED BY <2>1, <2>2, <2>3, ConflictStep
<1> QED BY <1>1, <1>2, <1>3, <1>4, <1>5 DEF Shape

-----------------------------------------------------------------------------
(* What is recorded stays.                                                 *)

\* A revision of a claim stays as it was recorded.
LEMMA LineageKept ==
    ASSUME Shape, [Next]_vars, NEW c \in Claim, NEW n \in DOMAIN lineage[c]
    PROVE  n \in DOMAIN lineage'[c] /\ lineage'[c][n] = lineage[c][n]
<1>1. CASE UNCHANGED lineage
    BY <1>1
<1>2. ASSUME NEW p, NEW e \in Claim, NEW base, NEW d, knowledge_claim(p, e, d, base)
      PROVE  n \in DOMAIN lineage'[c] /\ lineage'[c][n] = lineage[c][n]
    <2>1. PICK new : lineage' = [lineage EXCEPT ![e] = Append(@, new)]
        BY <1>2 DEF knowledge_claim
    <2>2. lineage[c] \in Seq(Revision) /\ lineage[e] \in Seq(Revision)
        BY DEF Shape
    <2>3. CASE c = e
        <3>1. lineage'[c] = Append(lineage[c], new)
            BY <2>1, <2>3 DEF Shape
        <3> QED BY <2>2, <3>1
    <2>4. CASE c # e
        BY <2>1, <2>4 DEF Shape
    <2> QED BY <2>3, <2>4
<1> QED BY <1>1, <1>2, LineageStep

\* An authority of a scope stays that of its epoch.
LEMMA BindingKept ==
    ASSUME Shape, [Next]_vars, NEW s \in Scope, NEW k \in DOMAIN binding[s]
    PROVE  k \in DOMAIN binding'[s] /\ binding'[s][k] = binding[s][k]
<1>1. CASE UNCHANGED binding
    BY <1>1
<1>2. ASSUME NEW p, NEW a \in Principal, NEW z \in Scope, NEW epoch,
             knowledge_authority(p, z, a, epoch)
      PROVE  k \in DOMAIN binding'[s] /\ binding'[s][k] = binding[s][k]
    <2>1. binding' = [binding EXCEPT ![z] = Append(@, a)]
        BY <1>2 DEF knowledge_authority
    <2>2. binding[s] \in Seq(Principal) /\ binding[z] \in Seq(Principal)
        BY DEF Shape
    <2>3. CASE s = z
        <3>1. binding'[s] = Append(binding[s], a)
            BY <2>1, <2>3 DEF Shape
        <3> QED BY <2>2, <3>1
    <2>4. CASE s # z
        BY <2>1, <2>4 DEF Shape
    <2> QED BY <2>3, <2>4
<1> QED BY <1>1, <1>2, BindingStep

\* What a reference names stays what it names.
LEMMA RefKept ==
    ASSUME Shape, [Next]_vars, NEW ref \in Ref, ExactIn(lineage, ref)
    PROVE  ExactIn(lineage', ref)
BY LineageKept DEF ExactIn, Ref

\* A reference that the provider has by its digest is to the draft of that name.
LEMMA ExactIs ==
    ASSUME Shape, NEW ref \in Ref
    PROVE  /\ Exact(ref) <=> ExactIn(lineage, ref)
           /\ Exact(ref) => /\ Record(ref) = What(ref) /\ ScopeOf(ref) = What(ref).scope
                            /\ What(ref).scope \in Scope
<1>1. Exact(ref) <=> ExactIn(lineage, ref)
    BY DEF Exact, ExactIn, held_revision, SameDigest
<1>2. ASSUME Exact(ref)
      PROVE  /\ Record(ref) = What(ref) /\ ScopeOf(ref) = What(ref).scope
             /\ What(ref).scope \in Scope
    <2>1. Record(ref) = What(ref)
        BY <1>2 DEF Exact, SameDigest, Record, What
    <2>2. What(ref).scope \in Scope
        BY ContentAssumption DEF What, Ref
    <2> QED BY <2>1, <2>2 DEF ScopeOf
<1> QED BY <1>1, <1>2

\* Every revision is of a draft its claim's producers write, and based on the one before.
LEMMA LineagesHold ==
    ASSUME Shape, Lineages, [Next]_vars
    PROVE  Lineages'
<1>1. CASE UNCHANGED lineage
    BY <1>1 DEF Lineages
<1>2. ASSUME NEW p \in Principal, NEW c \in Claim, NEW base \in Bases, NEW d \in Writes[c],
             knowledge_claim(p, c, d, base)
      PROVE  Lineages'
    <2> DEFINE new == [draft |-> d, producer |-> p, base |-> base]
               n == Len(lineage[c])
    <2>1. /\ lineage' = [lineage EXCEPT ![c] = Append(@, new)]
          /\ base = IF n = 0 THEN <<0, "">> ELSE <<n, lineage[c][n].draft>>
        BY <1>2, Zenon DEF knowledge_claim
    <2>2. new.draft = d /\ new.base = base
        OBVIOUS
    <2>3. lineage[c] \in Seq(Revision) /\ n \in Nat
        BY DEF Shape
    <2> HIDE DEF new, n
    <2>4. SUFFICES ASSUME NEW e \in Claim, NEW k \in DOMAIN lineage'[e]
                   PROVE  /\ lineage'[e][k].draft \in Writes[e]
                          /\ lineage'[e][k].base =
                                 IF k = 1 THEN <<0, "">> ELSE <<k - 1, lineage'[e][k - 1].draft>>
        BY DEF Lineages
    <2>5. CASE e # c
        BY <2>1, <2>5 DEF Lineages, Shape
    <2>6. CASE e = c
        <3>1. lineage'[c] = Append(lineage[c], new)
            BY <2>1 DEF Shape
        <3>2. CASE k = n + 1
            <4>1. lineage'[c][k] = new
                BY <2>3, <3>1, <3>2 DEF n
            <4>2. n # 0 => lineage'[c][n] = lineage[c][n]
                BY <2>3, <3>1 DEF n
            <4>3. k - 1 = n /\ (k = 1 <=> n = 0)
                BY <2>3, <3>2
            <4> QED BY <2>1, <2>2, <2>6, <4>1, <4>2, <4>3
        <3>3. CASE k # n + 1
            <4>1. k \in 1 .. n
                BY <2>3, <2>6, <3>1, <3>3 DEF n
            <4>2. lineage'[c][k] = lineage[c][k] /\ (k # 1 => lineage'[c][k - 1] = lineage[c][k - 1])
                BY <2>3, <3>1, <4>1 DEF n
            <4>3. /\ lineage[c][k].draft \in Writes[c]
                  /\ lineage[c][k].base = IF k = 1 THEN <<0, "">> ELSE <<k - 1, lineage[c][k - 1].draft>>
                <5>1. k \in DOMAIN lineage[c]
                    BY <2>3, <4>1 DEF n
                <5> QED BY <5>1, Zenon DEF Lineages
            <4> QED BY <2>6, <4>2, <4>3
        <3> QED BY <3>2, <3>3
    <2> QED BY <2>5, <2>6
<1> QED BY <1>1, <1>2, LineageStep

\* A new decision is about a revision that is there, by its scope's authority of now.
LEMMA DecisionAdds ==
    ASSUME Shape, NEW p \in Principal, NEW ref \in Named, NEW value, NEW use,
           NEW seen, NEW epoch, knowledge_decision(p, ref, value, use, seen, epoch)
    PROVE  \E d : /\ decisions' = Append(decisions, d)
                  /\ d.claim = ref /\ d.supersedes = latest_decision(ref) /\ d.decider = p
                  /\ d.epoch = Len(binding[What(ref).scope])
                  /\ ref \in Ref /\ ExactIn(lineage, ref) /\ What(ref).scope \in Scope
                  /\ ByAuthority(binding, d)
<1>1. /\ ref \in Ref /\ ExactIn(lineage, ref) /\ ScopeOf(ref) = What(ref).scope
      /\ What(ref).scope \in Scope
    BY HeldIsRef, ExactIs DEF knowledge_decision, Exact
<1>2. PICK e \in Nat : /\ e = Len(binding[ScopeOf(ref)]) /\ e \in DOMAIN binding[ScopeOf(ref)]
                       /\ binding[ScopeOf(ref)][e] = p
    <2>1. binding[ScopeOf(ref)] \in Seq(Principal) /\ binding[ScopeOf(ref)] # <<>>
          /\ Last(binding[ScopeOf(ref)]) = p
        BY <1>1 DEF Shape, knowledge_decision, bound_to_caller
    <2> QED BY <2>1 DEF Last
<1>3. PICK a : a = (lineage[ref[1]][ref[2]].producer = p)
    OBVIOUS
<1> DEFINE new == [claim |-> ref, value |-> value, use |-> use, supersedes |-> seen,
                   decider |-> p, author |-> a, epoch |-> e]
<1>4. decisions' = Append(decisions, new) /\ seen = latest_decision(ref)
    BY <1>2, <1>3, Zenon DEF knowledge_decision
<1>5. new.claim = ref /\ new.supersedes = seen /\ new.decider = p /\ new.epoch = e
    OBVIOUS
<1> HIDE DEF new
<1>6. ByAuthority(binding, new)
    BY <1>1, <1>2, <1>5 DEF ByAuthority
<1> QED BY <1>1, <1>2, <1>4, <1>5, <1>6

\* What a reference in a record is.
LEMMA RecordedRefs ==
    ASSUME Shape
    PROVE  /\ \A n \in DOMAIN decisions : decisions[n] \in Decision /\ decisions[n].claim \in Ref
           /\ \A n \in DOMAIN evaluations : evaluations[n] \in Evaluation /\ evaluations[n].claim \in Ref
           /\ \A n \in DOMAIN conflicts : /\ conflicts[n] \in Conflict
                                          /\ conflicts[n].revisions[1] \in Ref
                                          /\ conflicts[n].revisions[2] \in Ref
<1>1. \A n \in DOMAIN decisions : decisions[n] \in Decision /\ decisions[n].claim \in Ref
    <2>1. \A n \in DOMAIN decisions : decisions[n] \in Decision
        BY DEF Shape
    <2>2. \A r \in Decision : r.claim \in Ref
        BY DEF Decision
    <2> QED BY <2>1, <2>2, Zenon
<1>2. \A n \in DOMAIN evaluations : evaluations[n] \in Evaluation /\ evaluations[n].claim \in Ref
    <2>1. \A n \in DOMAIN evaluations : evaluations[n] \in Evaluation
        BY DEF Shape
    <2>2. \A r \in Evaluation : r.claim \in Ref
        BY DEF Evaluation
    <2> QED BY <2>1, <2>2, Zenon
<1>3. \A n \in DOMAIN conflicts : conflicts[n] \in Conflict /\ conflicts[n].revisions \in Ref \X Ref
    <2>1. \A n \in DOMAIN conflicts : conflicts[n] \in Conflict
        BY DEF Shape
    <2>2. \A r \in Conflict : r.revisions \in Ref \X Ref
        BY DEF Conflict
    <2> QED BY <2>1, <2>2, Zenon
<1> QED BY <1>1, <1>2, <1>3

\* A conflict that is opened is the comparison of two revisions that are there.
LEMMA ConflictAdds ==
    ASSUME Shape, NEW p, NEW a \in Named, NEW b \in Named,
           knowledge_conflict_open(p, a, b)
    PROVE  \E x : /\ conflicts' = Append(conflicts, x)
                  /\ x.revisions = <<a, b>> /\ x.state = "open"
                  /\ a \in Ref /\ b \in Ref /\ ExactIn(lineage, a) /\ ExactIn(lineage, b)
                  /\ IsComparison(<<a, b>>, x.kind, x.status)
<1>1. /\ a \in Ref /\ b \in Ref /\ ExactIn(lineage, a) /\ ExactIn(lineage, b) /\ a # b
      /\ Record(a) = What(a) /\ Record(b) = What(b) /\ Comparable(What(a), What(b))
    BY HeldIsRef, ExactIs DEF knowledge_conflict_open, Exact
<1>2. PICK f : f = compare(What(a), What(b))
    OBVIOUS
<1>3. PICK k, s : k = f.kind /\ s = f.status
    OBVIOUS
<1> DEFINE new == [kind |-> k, status |-> s, revisions |-> <<a, b>>,
                   state |-> "open", selected |-> <<>>, by |-> "none"]
<1>4. conflicts' = Append(conflicts, new)
    BY <1>1, <1>2, <1>3, Zenon DEF knowledge_conflict_open
<1>5. new.kind = k /\ new.status = s /\ new.revisions = <<a, b>> /\ new.state = "open"
    OBVIOUS
<1> HIDE DEF new
<1>6. IsComparison(<<a, b>>, k, s)
    BY <1>1, <1>2, <1>3 DEF IsComparison, Comparable
<1> QED BY <1>1, <1>4, <1>5, <1>6

\* A resolution changes one open conflict, and not what it is between.
LEMMA ConflictCloses ==
    ASSUME Shape, NEW p, NEW n \in DOMAIN conflicts, NEW epoch, NEW selected,
           knowledge_conflict_resolve(p, n, selected, epoch)
    PROVE  /\ DOMAIN conflicts' = DOMAIN conflicts
           /\ \A k \in DOMAIN conflicts : /\ conflicts'[k].revisions = conflicts[k].revisions
                                          /\ conflicts'[k].kind = conflicts[k].kind
                                          /\ conflicts'[k].status = conflicts[k].status
                                          /\ k # n => conflicts'[k] = conflicts[k]
           /\ conflicts'[n].by = p
           /\ bound_to_caller(p, ScopeOf(conflicts[n].revisions[1]))
<1>1. n \in 1 .. Len(conflicts) /\ conflicts[n] \in Conflict
    BY DEF Shape
<1> DEFINE new == [conflicts[n] EXCEPT !.state = "resolved", !.selected = selected, !.by = p]
<1>2. conflicts' = [conflicts EXCEPT ![n] = new]
    BY <1>1 DEF knowledge_conflict_resolve
<1>3. /\ new.revisions = conflicts[n].revisions /\ new.kind = conflicts[n].kind
      /\ new.status = conflicts[n].status /\ new.by = p
    BY <1>1 DEF Conflict
<1> HIDE DEF new
<1>4. conflicts'[n] = new /\ \A k \in DOMAIN conflicts : k # n => conflicts'[k] = conflicts[k]
    BY <1>1, <1>2 DEF Shape
<1>5. DOMAIN conflicts' = DOMAIN conflicts
    BY <1>2
<1>6. bound_to_caller(p, ScopeOf(conflicts[n].revisions[1]))
    BY DEF knowledge_conflict_resolve
<1> QED BY <1>1, <1>3, <1>4, <1>5, <1>6

-----------------------------------------------------------------------------
(* The references that are recorded.                                       *)

\* The findings of a record's conditions and dependencies for a target.
Findings(record, ref, t) ==
    {condition_finding(c, Target[t], Kinds) : c \in record.conditions}
    \cup {dependency_finding(ref, dep, t) : dep \in record.deps}

\* An evaluation of a reference for a target, from what the state finds of it.
Evaluated(e, ref, t) ==
    e.claim = ref /\ e.target = t /\ e.result = result_of(Findings(What(ref), ref, t))

\* An evaluation that is made is of a revision that is there, by its findings.
LEMMA EvaluationAdds ==
    ASSUME Shape, NEW p, NEW ref \in Named, NEW t,
           knowledge_evaluate(p, ref, t)
    PROVE  \E e : /\ evaluations' = Append(evaluations, e)
                  /\ e.claim = ref /\ ref \in Ref /\ ExactIn(lineage, ref)
                  /\ Evaluated(e, ref, t)
<1>1. ref \in Ref /\ ExactIn(lineage, ref) /\ Record(ref) = What(ref)
    BY HeldIsRef, ExactIs DEF knowledge_evaluate, Exact
<1>2. evaluations' = Append(evaluations,
          [claim |-> ref, target |-> t, result |-> result_of(Findings(Record(ref), ref, t)),
           supersedes |-> latest_evaluation(ref, t)])
    BY Zenon DEF knowledge_evaluate, Findings
<1>3. PICK r : r = result_of(Findings(What(ref), ref, t))
    OBVIOUS
<1>4. PICK s : s = latest_evaluation(ref, t)
    OBVIOUS
<1> DEFINE new == [claim |-> ref, target |-> t, result |-> r, supersedes |-> s]
<1>5. evaluations' = Append(evaluations, new)
    BY <1>1, <1>2, <1>3, <1>4, Zenon
<1>6. new.claim = ref /\ new.target = t /\ new.result = r
    OBVIOUS
<1> HIDE DEF new
<1>7. Evaluated(new, ref, t)
    BY <1>3, <1>6 DEF Evaluated
<1> QED BY <1>1, <1>5, <1>6, <1>7

\* What is recorded names revisions that exist, after a step too.
LEMMA KnownHolds ==
    ASSUME Shape, Known, [Next]_vars
    PROVE  Known'
<1>1. \A ref \in Ref : ExactIn(lineage, ref) => ExactIn(lineage', ref)
    BY RefKept
<1>2. \A n \in DOMAIN decisions' : ExactIn(lineage', decisions'[n].claim)
    <2>1. CASE UNCHANGED decisions
        BY <1>1, <2>1, RecordedRefs DEF Known
    <2>2. ASSUME NEW p \in Principal, NEW ref \in Named, NEW v \in Values, NEW seen, NEW epoch,
                 knowledge_decision(p, ref, v[1], v[2], seen, epoch)
          PROVE  \A n \in DOMAIN decisions' : ExactIn(lineage', decisions'[n].claim)
        <3>1. PICK d : /\ decisions' = Append(decisions, d) /\ d.claim = ref
                       /\ ref \in Ref /\ ExactIn(lineage, ref)
            BY <2>2, DecisionAdds
        <3>2. decisions \in Seq(Decision)
            BY DEF Shape
        <3>3. ASSUME NEW n \in DOMAIN decisions' PROVE ExactIn(lineage', decisions'[n].claim)
            <4>1. PICK r : r = decisions'[n].claim
                OBVIOUS
            <4>2. r \in Ref /\ ExactIn(lineage, r)
                <5>1. CASE n = Len(decisions) + 1
                    BY <3>1, <3>2, <4>1, <5>1
                <5>2. CASE n # Len(decisions) + 1
                    <6>1. n \in DOMAIN decisions /\ decisions'[n] = decisions[n]
                        BY <3>1, <3>2, <5>2
                    <6> QED BY <4>1, <6>1, RecordedRefs DEF Known
                <5> QED BY <5>1, <5>2
            <4> QED BY <1>1, <4>1, <4>2
        <3> QED BY <3>3
    <2> QED BY <2>1, <2>2, DecisionStep
<1>3. \A n \in DOMAIN evaluations' : ExactIn(lineage', evaluations'[n].claim)
    <2>1. CASE UNCHANGED evaluations
        BY <1>1, <2>1, RecordedRefs DEF Known
    <2>2. ASSUME NEW p \in Principal, NEW ref \in Named, NEW t, knowledge_evaluate(p, ref, t)
          PROVE  \A n \in DOMAIN evaluations' : ExactIn(lineage', evaluations'[n].claim)
        <3>1. PICK d : /\ evaluations' = Append(evaluations, d) /\ d.claim = ref
                       /\ ref \in Ref /\ ExactIn(lineage, ref)
            BY <2>2, EvaluationAdds
        <3>2. evaluations \in Seq(Evaluation)
            BY DEF Shape
        <3>3. ASSUME NEW n \in DOMAIN evaluations' PROVE ExactIn(lineage', evaluations'[n].claim)
            <4>1. PICK r : r = evaluations'[n].claim
                OBVIOUS
            <4>2. r \in Ref /\ ExactIn(lineage, r)
                <5>1. CASE n = Len(evaluations) + 1
                    BY <3>1, <3>2, <4>1, <5>1
                <5>2. CASE n # Len(evaluations) + 1
                    <6>1. n \in DOMAIN evaluations /\ evaluations'[n] = evaluations[n]
                        BY <3>1, <3>2, <5>2
                    <6> QED BY <4>1, <6>1, RecordedRefs DEF Known
                <5> QED BY <5>1, <5>2
            <4> QED BY <1>1, <4>1, <4>2
        <3> QED BY <3>3
    <2> QED BY <2>1, <2>2, EvaluationStep
<1>4. \A n \in DOMAIN conflicts' : \A k \in 1 .. 2 : ExactIn(lineage', conflicts'[n].revisions[k])
    <2>0. \A n \in DOMAIN conflicts : \A k \in 1 .. 2 :
              conflicts[n].revisions[k] \in Ref /\ ExactIn(lineage', conflicts[n].revisions[k])
        <3> SUFFICES ASSUME NEW n \in DOMAIN conflicts, NEW k \in 1 .. 2
                     PROVE  conflicts[n].revisions[k] \in Ref /\ ExactIn(lineage, conflicts[n].revisions[k])
            BY <1>1
        <3>1. k = 1 \/ k = 2
            OBVIOUS
        <3> QED BY <3>1, RecordedRefs DEF Known
    <2>1. CASE UNCHANGED conflicts
        BY <2>0, <2>1
    <2>2. ASSUME NEW p, NEW a \in Named, NEW b \in Named, knowledge_conflict_open(p, a, b)
          PROVE  \A n \in DOMAIN conflicts' : \A k \in 1 .. 2 : ExactIn(lineage', conflicts'[n].revisions[k])
        <3>1. PICK d : /\ conflicts' = Append(conflicts, d) /\ d.revisions = <<a, b>>
                       /\ a \in Ref /\ ExactIn(lineage, a) /\ b \in Ref /\ ExactIn(lineage, b)
            BY <2>2, ConflictAdds
        <3>2. conflicts \in Seq(Conflict)
            BY DEF Shape
        <3>3. ASSUME NEW n \in DOMAIN conflicts', NEW k \in 1 .. 2
              PROVE  ExactIn(lineage', conflicts'[n].revisions[k])
            <4>1. CASE n = Len(conflicts) + 1
                <5>1. conflicts'[n].revisions[k] \in {a, b}
                    BY <3>1, <3>2, <4>1
                <5> QED BY <1>1, <3>1, <5>1
            <4>2. CASE n # Len(conflicts) + 1
                <5>1. n \in DOMAIN conflicts /\ conflicts'[n] = conflicts[n]
                    BY <3>1, <3>2, <4>2
                <5> QED BY <2>0, <5>1
            <4> QED BY <4>1, <4>2
        <3> QED BY <3>3
    <2>3. ASSUME NEW p, NEW n \in DOMAIN conflicts, NEW epoch, NEW selected,
                 knowledge_conflict_resolve(p, n, selected, epoch)
          PROVE  \A i \in DOMAIN conflicts' : \A k \in 1 .. 2 : ExactIn(lineage', conflicts'[i].revisions[k])
        BY <2>0, <2>3, ConflictCloses
    <2> QED BY <2>1, <2>2, <2>3, ConflictStep
<1> QED BY <1>2, <1>3, <1>4 DEF Known

-----------------------------------------------------------------------------
(* Authorities, and the chain of decisions.                                *)

\* A sequence with one more element.
LEMMA AppendIs ==
    ASSUME NEW S, NEW s \in Seq(S), NEW e, NEW t, t = Append(s, e)
    PROVE  /\ Len(s) \in Nat /\ DOMAIN t = 1 .. Len(s) + 1 /\ DOMAIN s = 1 .. Len(s)
           /\ t[Len(s) + 1] = e
           /\ \A n \in 1 .. Len(s) : t[n] = s[n]
OBVIOUS

\* The scopes that recorded references name.
LEMMA RecordedScopes ==
    ASSUME Shape
    PROVE  /\ \A n \in DOMAIN decisions : /\ What(decisions[n].claim).scope \in Scope
                                          /\ decisions[n].epoch \in Nat
           /\ \A n \in DOMAIN conflicts : What(conflicts[n].revisions[1]).scope \in Scope
<1>1. \A ref \in Ref : What(ref).scope \in Scope
    BY ContentAssumption DEF Ref, What
<1>2. \A d \in Decision : d.epoch \in Nat
    BY DEF Decision
<1> QED BY <1>1, <1>2, RecordedRefs

\* Decisions stay those of the authorities of their epochs, in the order of epochs.
LEMMA EpochsHold ==
    ASSUME Shape, Epochs, [Next]_vars
    PROVE  Epochs'
<1>1. \A n \in DOMAIN decisions : ByAuthority(binding', decisions[n])
    BY BindingKept, RecordedScopes DEF Epochs, ByAuthority
<1>2. CASE UNCHANGED decisions
    BY <1>1, <1>2 DEF Epochs
<1>3. ASSUME NEW p \in Principal, NEW ref \in Named, NEW v \in Values, NEW seen, NEW epoch,
             knowledge_decision(p, ref, v[1], v[2], seen, epoch), UNCHANGED binding
      PROVE  Epochs'
    <2>1. PICK d : /\ decisions' = Append(decisions, d) /\ d.claim = ref
                   /\ d.epoch = Len(binding[What(ref).scope]) /\ ByAuthority(binding, d)
                   /\ What(ref).scope \in Scope
        BY <1>3, DecisionAdds
    <2> DEFINE l == Len(decisions)
               ds == decisions'
    <2>2. /\ l \in Nat /\ DOMAIN ds = 1 .. l + 1 /\ ds[l + 1] = d /\ DOMAIN decisions = 1 .. l
          /\ \A n \in 1 .. l : ds[n] = decisions[n]
        BY <2>1, AppendIs DEF Shape
    <2>3. \A n \in 1 .. l : NoLater(decisions[n], d)
        <3>1. d.epoch \in Nat /\ DOMAIN binding[What(ref).scope] = 1 .. d.epoch
            BY <2>1 DEF Shape
        <3> SUFFICES ASSUME NEW n \in 1 .. l, What(decisions[n].claim).scope = What(ref).scope
                     PROVE  decisions[n].epoch <= d.epoch
            BY <2>1 DEF NoLater
        <3>2. decisions[n].epoch \in DOMAIN binding[What(ref).scope]
            BY <2>2 DEF Epochs, ByAuthority
        <3> QED BY <3>1, <3>2
    <2>4. NoLater(d, d)
        <3>1. d.epoch \in Nat
            BY <2>1 DEF Shape
        <3> QED BY <3>1 DEF NoLater
    <2> HIDE DEF l, ds
    <2>5. \A n \in DOMAIN ds : ByAuthority(binding', ds[n])
        <3> TAKE n \in DOMAIN ds
        <3>1. n = l + 1 \/ n \in 1 .. l
            BY <2>2
        <3> QED BY <1>1, <1>3, <2>1, <2>2, <3>1
    <2>6. \A n \in DOMAIN ds : \A m \in 1 .. n : NoLater(ds[m], ds[n])
        <3> TAKE n \in DOMAIN ds
        <3> TAKE m \in 1 .. n
        <3>1. CASE n \in 1 .. l
            <4>1. m \in 1 .. l /\ ds[m] = decisions[m] /\ ds[n] = decisions[n]
                BY <2>2, <3>1
            <4> QED BY <2>2, <3>1, <4>1 DEF Epochs
        <3>2. CASE n = l + 1
            <4>1. m = l + 1 \/ m \in 1 .. l
                BY <2>2, <3>2
            <4> QED BY <2>2, <2>3, <2>4, <3>2, <4>1
        <3> QED BY <2>2, <3>1, <3>2
    <2> QED BY <2>5, <2>6 DEF Epochs, ds
<1> QED BY <1>2, <1>3, DecisionStep

\* Every decision follows the last one before it about the same revision.
LEMMA ChainHolds ==
    ASSUME Shape, Chain, [Next]_vars
    PROVE  Chain'
<1>1. CASE UNCHANGED decisions
    BY <1>1 DEF Chain
<1>2. ASSUME NEW p \in Principal, NEW ref \in Named, NEW v \in Values, NEW seen, NEW epoch,
             knowledge_decision(p, ref, v[1], v[2], seen, epoch)
      PROVE  Chain'
    <2>1. PICK d : /\ decisions' = Append(decisions, d) /\ d.claim = ref
                   /\ d.supersedes = latest_decision(ref)
        BY <1>2, DecisionAdds
    <2> DEFINE l == Len(decisions)
               ds == decisions'
               s == latest_decision(ref)
    <2>2. /\ l \in Nat /\ DOMAIN ds = 1 .. l + 1 /\ ds[l + 1] = d /\ DOMAIN decisions = 1 .. l
          /\ \A n \in 1 .. l : ds[n] = decisions[n]
        BY <2>1, AppendIs DEF Shape
    <2>3. Latest(s, DecisionsOf(ref))
        BY LatestDecision DEF Shape
    <2>4. \A n \in 1 .. l : decisions[n].supersedes \in Nat
        <3>1. \A e \in Decision : e.supersedes \in Nat
            BY DEF Decision
        <3> QED BY <2>2, <3>1, RecordedRefs
    <2> HIDE DEF l, ds, s
    <2>5. Follows(ds, l + 1)
        <3>1. CASE DecisionsOf(ref) = {}
            <4>1. s = 0 /\ \A m \in 1 .. l : decisions[m].claim # ref
                BY <2>2, <2>3, <3>1 DEF Latest, DecisionsOf
            <4>2. ds[l + 1].supersedes = 0 /\ ds[l + 1].claim = ref
                BY <2>1, <2>2, <4>1 DEF s
            <4>3. 0 < l + 1 /\ \A m \in 0 + 1 .. l + 1 - 1 : ds[m].claim # ref
                BY <2>2, <4>1
            <4> QED BY <2>2, <4>1, <4>2, <4>3 DEF Follows
        <3>2. CASE DecisionsOf(ref) # {}
            <4>1. s \in 1 .. l /\ decisions[s].claim = ref
                BY <2>2, <2>3, <3>2 DEF Latest, DecisionsOf
            <4>2. ASSUME NEW m \in s + 1 .. l + 1 - 1
                  PROVE  m \in 1 .. l /\ decisions[m].claim # ref
                <5>1. m \in 1 .. l /\ ~(m <= s)
                    BY <2>2, <4>1
                <5> QED BY <2>2, <2>3, <3>2, <5>1 DEF Latest, DecisionsOf
            <4>3. ds[l + 1].supersedes = s /\ ds[l + 1].claim = ref /\ ds[s].claim = ref
                BY <2>1, <2>2, <4>1 DEF s
            <4>4. s < l + 1
                BY <2>2, <4>1
            <4>5. \A m \in s + 1 .. l + 1 - 1 : ds[m].claim # ref
                BY <2>2, <4>2
            <4> QED BY <2>2, <4>1, <4>3, <4>4, <4>5 DEF Follows
        <3> QED BY <3>1, <3>2
    <2>6. ASSUME NEW n \in 1 .. l PROVE Follows(ds, n)
        <3>1. Follows(decisions, n) /\ decisions[n].supersedes \in Nat
            BY <2>2, <2>4 DEF Chain
        <3> DEFINE k == decisions[n].supersedes
        <3>2. k \in Nat /\ k < n /\ ds[n] = decisions[n] /\ n \in Nat /\ n <= l
            BY <2>2, <3>1 DEF Follows
        <3>3. k # 0 => k \in 1 .. l
            BY <2>2, <3>2
        <3>4. \A m \in k + 1 .. n - 1 : m \in 1 .. l
            BY <2>2, <3>2
        <3> QED BY <2>2, <3>1, <3>2, <3>3, <3>4 DEF Follows
    <2>7. ASSUME NEW n \in DOMAIN ds PROVE Follows(ds, n)
        <3>1. n = l + 1 \/ n \in 1 .. l
            BY <2>2
        <3> QED BY <2>5, <2>6, <3>1
    <2> QED BY <2>7 DEF Chain, ds
<1> QED BY <1>1, <1>2, DecisionStep

-----------------------------------------------------------------------------
(* Conflicts, evaluations and the packet.                                  *)

\* A conflict stays the comparison of its two revisions.
LEMMA DisputesHold ==
    ASSUME Shape, Disputes, [Next]_vars
    PROVE  Disputes'
<1>1. CASE UNCHANGED conflicts
    BY <1>1 DEF Disputes
<1>2. ASSUME NEW p, NEW a \in Named, NEW b \in Named, knowledge_conflict_open(p, a, b)
      PROVE  Disputes'
    <2>1. PICK x : /\ conflicts' = Append(conflicts, x) /\ x.revisions = <<a, b>>
                   /\ IsComparison(<<a, b>>, x.kind, x.status)
        BY <1>2, ConflictAdds
    <2> DEFINE l == Len(conflicts)
               xs == conflicts'
    <2>2. /\ l \in Nat /\ DOMAIN xs = 1 .. l + 1 /\ xs[l + 1] = x /\ DOMAIN conflicts = 1 .. l
          /\ \A n \in 1 .. l : xs[n] = conflicts[n]
        BY <2>1, AppendIs DEF Shape
    <2> HIDE DEF l, xs
    <2>3. ASSUME NEW n \in DOMAIN xs PROVE IsComparison(xs[n].revisions, xs[n].kind, xs[n].status)
        <3>1. n = l + 1 \/ n \in 1 .. l
            BY <2>2
        <3> QED BY <2>1, <2>2, <3>1 DEF Disputes
    <2> QED BY <2>3 DEF Disputes, xs
<1>3. ASSUME NEW p, NEW n \in DOMAIN conflicts, NEW epoch, NEW selected,
             knowledge_conflict_resolve(p, n, selected, epoch)
      PROVE  Disputes'
    BY <1>3, ConflictCloses DEF Disputes
<1> QED BY <1>1, <1>2, <1>3, ConflictStep

\* Whoever resolved a conflict stays one who was an authority.
LEMMA ResolvedHold ==
    ASSUME Shape, Known, Resolved, [Next]_vars
    PROVE  Resolved'
<1>1. ASSUME NEW n \in DOMAIN conflicts, WasAuthority(binding, conflicts[n])
      PROVE  WasAuthority(binding', conflicts[n])
    BY <1>1, BindingKept, RecordedScopes DEF WasAuthority
<1>2. CASE UNCHANGED conflicts
    BY <1>1, <1>2 DEF Resolved
<1>3. ASSUME NEW p, NEW a \in Named, NEW b \in Named, knowledge_conflict_open(p, a, b)
      PROVE  Resolved'
    <2>1. PICK x : conflicts' = Append(conflicts, x) /\ x.state = "open"
        BY <1>3, ConflictAdds
    <2> DEFINE l == Len(conflicts)
               xs == conflicts'
    <2>2. /\ l \in Nat /\ DOMAIN xs = 1 .. l + 1 /\ xs[l + 1] = x /\ DOMAIN conflicts = 1 .. l
          /\ \A n \in 1 .. l : xs[n] = conflicts[n]
        BY <2>1, AppendIs DEF Shape
    <2> HIDE DEF l, xs
    <2>3. ASSUME NEW n \in DOMAIN xs, xs[n].state = "resolved" PROVE WasAuthority(binding', xs[n])
        <3>1. n \in 1 .. l
            BY <2>1, <2>2, <2>3
        <3> QED BY <1>1, <2>2, <2>3, <3>1 DEF Resolved
    <2> QED BY <2>3 DEF Resolved, xs
<1>4. ASSUME NEW p, NEW n \in DOMAIN conflicts, NEW epoch, NEW selected,
             knowledge_conflict_resolve(p, n, selected, epoch), UNCHANGED binding
      PROVE  Resolved'
    <2>1. /\ DOMAIN conflicts' = DOMAIN conflicts
          /\ \A k \in DOMAIN conflicts : k # n => conflicts'[k] = conflicts[k]
          /\ conflicts'[n].by = p /\ conflicts'[n].revisions = conflicts[n].revisions
          /\ bound_to_caller(p, ScopeOf(conflicts[n].revisions[1]))
        BY <1>4, ConflictCloses
    <2> DEFINE r == conflicts[n].revisions[1]
    <2>2. r \in Ref /\ ExactIn(lineage, r)
        BY RecordedRefs DEF Known
    <2>3. ScopeOf(r) = What(r).scope /\ What(r).scope \in Scope
        BY <2>2, ExactIs
    <2>4. \E k \in DOMAIN binding[What(r).scope] : binding[What(r).scope][k] = p
        <3>1. /\ binding[What(r).scope] \in Seq(Principal) /\ binding[What(r).scope] # <<>>
              /\ Last(binding[What(r).scope]) = p
            BY <2>1, <2>3 DEF Shape, bound_to_caller
        <3> QED BY <3>1 DEF Last
    <2>5. WasAuthority(binding', conflicts'[n])
        BY <1>4, <2>1, <2>4 DEF WasAuthority
    <2>6. ASSUME NEW k \in DOMAIN conflicts, k # n, conflicts[k].state = "resolved"
          PROVE  WasAuthority(binding', conflicts'[k])
        BY <1>1, <2>1, <2>6 DEF Resolved
    <2>7. ASSUME NEW k \in DOMAIN conflicts', conflicts'[k].state = "resolved"
          PROVE  WasAuthority(binding', conflicts'[k])
        <3>1. k \in DOMAIN conflicts /\ (k # n => conflicts[k].state = "resolved")
            BY <2>1, <2>7
        <3> QED BY <2>5, <2>6, <3>1
    <2> QED BY <2>7 DEF Resolved
<1> QED BY <1>2, <1>3, <1>4, ConflictStep

\* The findings that come to "applicable" have a condition that matched, or a
\* dependency whose latest evaluation for the target is applicable.
LEMMA ApplicableRests ==
    ASSUME Shape, NEW ref \in Ref, NEW t, NEW e, Evaluated(e, ref, t), e.result = "applicable"
    PROVE  Matched(e) \/ \E m \in DOMAIN evaluations : Leans(e, evaluations[m])
<1> DEFINE fs == Findings(What(ref), ref, t)
<1>1. \A c : condition_finding(c, Target[t], Kinds) \in
                 {"match", "mismatch", "missing_anchor", "unsupported", "unchecked"}
    BY DEF condition_finding
<1>2. \A dep : dependency_finding(ref, dep, t) \in {"match", "mismatch", "unchecked"}
    BY DEF dependency_finding
<1>3. fs \subseteq {"match", "mismatch", "missing_anchor", "unsupported", "unchecked"}
    BY <1>1, <1>2 DEF Findings
<1>4. "match" \in fs
    BY <1>3, ApplicableFindings DEF Evaluated
<1>5. CASE \E c \in What(ref).conditions : condition_finding(c, Target[t], Kinds) = "match"
    BY <1>5 DEF Evaluated, Matched
<1>6. CASE \E dep \in What(ref).deps : dependency_finding(ref, dep, t) = "match"
    <2>1. PICK dep \in What(ref).deps : dependency_finding(ref, dep, t) = "match"
        BY <1>6
    <2>2. PICK k : k = latest_evaluation(dep, t)
        OBVIOUS
    <2>3. k # 0 /\ evaluations[k].result = "applicable"
        BY <2>1, <2>2 DEF dependency_finding
    <2>4. Latest(k, EvaluationsOf(dep, t))
        BY <2>2, LatestEvaluation DEF Shape
    <2>5. k \in EvaluationsOf(dep, t)
        BY <2>3, <2>4 DEF Latest
    <2> QED BY <2>1, <2>3, <2>5 DEF EvaluationsOf, Evaluated, Leans
<1>7. \/ \E c \in What(ref).conditions : condition_finding(c, Target[t], Kinds) = "match"
      \/ \E dep \in What(ref).deps : dependency_finding(ref, dep, t) = "match"
    BY <1>4, Zenon DEF Findings
<1> QED BY <1>5, <1>6, <1>7, Zenon

\* Every applicable evaluation rests on something, after a step too.
LEMMA RestedHold ==
    ASSUME Shape, Rested, [Next]_vars
    PROVE  Rested'
<1>1. CASE UNCHANGED evaluations
    BY <1>1 DEF Rested
<1>2. ASSUME NEW p \in Principal, NEW ref \in Named, NEW t \in DOMAIN Target,
             knowledge_evaluate(p, ref, t)
      PROVE  Rested'
    <2>1. PICK e : /\ evaluations' = Append(evaluations, e)
                   /\ ref \in Ref /\ Evaluated(e, ref, t)
        BY <1>2, EvaluationAdds
    <2> DEFINE l == Len(evaluations)
               es == evaluations'
    <2>2. /\ l \in Nat /\ DOMAIN es = 1 .. l + 1 /\ es[l + 1] = e /\ DOMAIN evaluations = 1 .. l
          /\ \A n \in 1 .. l : es[n] = evaluations[n]
        BY <2>1, AppendIs DEF Shape
    <2> HIDE DEF l, es
    <2>3. Rests(es, l + 1)
        <3>1. SUFFICES ASSUME e.result = "applicable"
                       PROVE  Matched(e) \/ \E m \in 1 .. l : Leans(e, es[m])
            BY <2>2 DEF Rests
        <3>2. Matched(e) \/ \E m \in DOMAIN evaluations : Leans(e, evaluations[m])
            BY <2>1, <3>1, ApplicableRests
        <3> QED BY <2>2, <3>2
    <2>4. ASSUME NEW n \in 1 .. l PROVE Rests(es, n)
        <3>1. Rests(evaluations, n) /\ es[n] = evaluations[n]
            BY <2>2 DEF Rested
        <3>2. \A m \in 1 .. n - 1 : m \in 1 .. l /\ es[m] = evaluations[m]
            BY <2>2
        <3> QED BY <3>1, <3>2 DEF Rests
    <2>5. ASSUME NEW n \in DOMAIN es PROVE Rests(es, n)
        <3>1. n = l + 1 \/ n \in 1 .. l
            BY <2>2
        <3> QED BY <2>3, <2>4, <3>1
    <2> QED BY <2>5 DEF Rested, es
<1> QED BY <1>1, <1>2, EvaluationStep

\* A packet says of its item what the snapshot it carries says.
LEMMA CarriedHolds ==
    ASSUME Carried, [Next]_vars
    PROVE  Carried'
<1>1. CASE UNCHANGED packet
    BY <1>1 DEF Carried
<1>2. ASSUME NEW ref, NEW t, NEW wanted, Carry(ref, t, wanted)
      PROVE  Carried'
    <2>1. PICK s : s = claim_snapshot(ref, t)
        OBVIOUS
    <2>2. packet' = <<Packed(ref, t, wanted, s)>>
        BY <1>2, <2>1, Zenon DEF Carry, Packed
    <2> QED BY <2>2, Zenon DEF Carried
<1> QED BY <1>1, <1>2, PacketStep

\* The invariant holds when the provider opens, and every step keeps it.
THEOREM KnowledgeHolds == Spec => []KnowledgeInv
<1>1. Init => KnowledgeInv
    <2> SUFFICES ASSUME Init PROVE KnowledgeInv
        OBVIOUS
    <2>1. Shape
        BY DEF Init, Shape
    <2>2. Lineages /\ Known /\ Epochs /\ Chain /\ Disputes /\ Resolved /\ Rested /\ Carried
        BY DEF Init, Lineages, Known, Epochs, Chain, Disputes, Resolved, Rested, Carried
    <2> QED BY <2>1, <2>2 DEF KnowledgeInv
<1>2. KnowledgeInv /\ [Next]_vars => KnowledgeInv'
    BY ShapeHolds, LineagesHold, KnownHolds, EpochsHold, ChainHolds, DisputesHold, ResolvedHold,
       RestedHold, CarriedHolds DEF KnowledgeInv
<1> QED BY <1>1, <1>2, PTL DEF Spec

-----------------------------------------------------------------------------
(* What the invariant says of decisions and conflicts.                     *)

\* A reference of a record is among those the provider has.
LEMMA RefIsReference ==
    ASSUME Shape, NEW ref \in Ref, ExactIn(lineage, ref)
    PROVE  ref \in References
<1>1. ref[1] \in Claim /\ ref[2] \in DOMAIN lineage[ref[1]]
    BY DEF ExactIn
<1>2. ref = reference(ref[1], ref[2])
    BY DEF ExactIn, Ref, reference
<1>3. ref \in {reference(ref[1], n) : n \in DOMAIN lineage[ref[1]]}
    BY <1>1, <1>2, Zenon
<1> QED BY <1>1, <1>3, Zenon DEF References

\* The type invariant of the model.
LEMMA Typed ==
    ASSUME KnowledgeInv PROVE TypeOK
<1>1. \A c \in Claim : \A n \in DOMAIN lineage[c] : lineage[c][n].producer \in Principal
    <2> SUFFICES ASSUME NEW c \in Claim, NEW n \in DOMAIN lineage[c]
                 PROVE  lineage[c][n].producer \in Principal
        OBVIOUS
    <2>1. lineage[c][n] \in Revision
        BY DEF KnowledgeInv, Shape
    <2> QED BY <2>1 DEF Revision
<1>2. Len(packet) <= 1
    <2>1. packet = <<>> \/ \E k : packet = <<k>>
        BY Zenon DEF KnowledgeInv, Carried
    <2>2. ASSUME NEW k, packet = <<k>> PROVE Len(packet) <= 1
        <3>1. Len(<<k>>) = 1
            OBVIOUS
        <3> QED BY <2>2, <3>1
    <2>3. Len(<<>>) = 0
        OBVIOUS
    <2> QED BY <2>1, <2>2, <2>3
<1>3. /\ \A n \in DOMAIN decisions : decisions[n].claim \in References
      /\ \A n \in DOMAIN evaluations : evaluations[n].claim \in References
    BY RecordedRefs, RefIsReference DEF KnowledgeInv, Known
<1>4. \A s \in Scope : binding[s] \in Seq(Principal)
    BY DEF KnowledgeInv, Shape
<1>5. Lineages
    BY DEF KnowledgeInv
<1> QED BY <1>1, <1>2, <1>3, <1>4, <1>5, Zenon DEF TypeOK, Lineages

\* What decided and resolved were the authorities of the scopes.
LEMMA ByAuthorities ==
    ASSUME KnowledgeInv PROVE DecidedByAuthority
<1>1. \A n \in DOMAIN decisions : ScopeOf(decisions[n].claim) = What(decisions[n].claim).scope
    BY RecordedRefs, ExactIs DEF KnowledgeInv, Known
<1>2. ASSUME NEW n \in DOMAIN decisions
      PROVE  /\ decisions[n].decider = binding[ScopeOf(decisions[n].claim)][decisions[n].epoch]
             /\ \A m \in 1 .. n :
                    ScopeOf(decisions[m].claim) = ScopeOf(decisions[n].claim) =>
                        decisions[m].epoch <= decisions[n].epoch
    <2>1. \A m \in 1 .. n : m \in DOMAIN decisions
        BY DEF KnowledgeInv, Shape
    <2> QED BY <1>1, <2>1 DEF KnowledgeInv, Epochs, ByAuthority, NoLater
<1>3. ASSUME NEW n \in DOMAIN conflicts, conflicts[n].state = "resolved", NEW k \in 1 .. 2
      PROVE  conflicts[n].by \in ToSet(binding[ScopeOf(conflicts[n].revisions[k])])
    <2> DEFINE r == conflicts[n].revisions
    <2>1. /\ r[1] \in Ref /\ ExactIn(lineage, r[1]) /\ r[2] \in Ref /\ ExactIn(lineage, r[2])
        BY RecordedRefs DEF KnowledgeInv, Known
    <2>2. ScopeOf(r[1]) = What(r[1]).scope /\ ScopeOf(r[2]) = What(r[2]).scope
        BY <2>1, ExactIs DEF KnowledgeInv
    <2>3. Comparable(What(r[1]), What(r[2]))
        BY DEF KnowledgeInv, Disputes, IsComparison, Comparable
    <2>4. What(r[1]).scope = What(r[2]).scope
        BY <2>3, ComparableScope
    <2>5. k = 1 \/ k = 2
        OBVIOUS
    <2>6. conflicts[n].by \in ToSet(binding[What(r[1]).scope])
        BY <1>3 DEF KnowledgeInv, Resolved, WasAuthority, ToSet
    <2> QED BY <2>2, <2>4, <2>5, <2>6
<1> QED BY <1>2, <1>3 DEF DecidedByAuthority

\* A chain has one end, the decision that was recorded last.
LEMMA OneEnd ==
    ASSUME KnowledgeInv PROVE OneCurrentDecision
<1> SUFFICES ASSUME NEW ref \in References, DecisionsOf(ref) # {}
             PROVE  {n \in DecisionsOf(ref) : \A m \in DecisionsOf(ref) : decisions[m].supersedes # n}
                       = {latest_decision(ref)}
    BY DEF OneCurrentDecision, DecisionsOf
<1> DEFINE about == DecisionsOf(ref)
           last == latest_decision(ref)
<1>1. about \in SUBSET Nat /\ \A n \in about : n # 0 /\ decisions[n].supersedes \in Nat
    <2>1. \A d \in Decision : d.supersedes \in Nat
        BY DEF Decision
    <2> QED BY <2>1, RecordedRefs DEF KnowledgeInv, Shape, DecisionsOf
<1>2. last \in about /\ \A m \in about : m <= last
    BY LatestDecision DEF KnowledgeInv, Shape, Latest
<1>3. \A n \in about : Follows(decisions, n) /\ decisions[n].claim = ref /\ n \in DOMAIN decisions
    BY DEF KnowledgeInv, Chain, DecisionsOf
<1>a. \A n : n \in DOMAIN decisions /\ decisions[n].claim = ref => n \in about
    BY DEF DecisionsOf
<1> HIDE DEF about, last
<1>4. ASSUME NEW m \in about PROVE decisions[m].supersedes # last
    <2>1. decisions[m].supersedes < m /\ m <= last
        BY <1>2, <1>3 DEF Follows
    <2> QED BY <1>1, <1>2, <2>1
<1>5. ASSUME NEW n \in about, n # last
      PROVE  \E m \in about : decisions[m].supersedes = n
    <2> DEFINE after == {k \in about : n < k}
    <2>1. after \in SUBSET Nat /\ after # {}
        <3>1. last \in about /\ last \in Nat /\ n \in Nat /\ n <= last
            BY <1>1, <1>2
        <3>2. last \in after
            BY <1>5, <3>1
        <3> QED BY <1>1, <3>2
    <2>2. PICK m \in after : \A k \in after : m <= k
        <3> HIDE DEF after
        <3> QED BY <2>1, SmallestOf
    <2>3. m \in about /\ n < m /\ \A k \in about : n < k => m <= k
        BY <2>2
    <2> DEFINE s == decisions[m].supersedes
    <2>4. s \in Nat /\ s < m /\ m \in Nat /\ n \in Nat /\ n # 0
        BY <1>1, <1>3, <2>3 DEF Follows
    <2>5. ~(s < n)
        <3> SUFFICES ASSUME s < n PROVE FALSE
            OBVIOUS
        <3>1. n \in s + 1 .. m - 1
            BY <2>3, <2>4
        <3>2. \A k \in s + 1 .. m - 1 : decisions[k].claim # decisions[m].claim
            BY <1>3, <2>3 DEF Follows
        <3> QED BY <1>3, <2>3, <3>1, <3>2
    <2>6. s \in about
        <3>1. s # 0 /\ s \in 1 .. m
            BY <2>4, <2>5
        <3>2. decisions[s].claim = ref
            BY <1>3, <2>3, <3>1 DEF Follows
        <3>3. s \in DOMAIN decisions
            <4>1. m \in 1 .. Len(decisions) /\ DOMAIN decisions = 1 .. Len(decisions)
                  /\ Len(decisions) \in Nat
                BY <1>3, <2>3 DEF KnowledgeInv, Shape
            <4> QED BY <2>4, <3>1, <4>1
        <3> QED BY <1>a, <3>2, <3>3
    <2>7. ~(n < s)
        BY <2>3, <2>4, <2>6
    <2>8. s = n
        BY <2>4, <2>5, <2>7
    <2> QED BY <2>3, <2>8
<1> QED BY <1>2, <1>4, <1>5 DEF about, last

\* A comparison is a kind and a status.
LEMMA CompareRecord ==
    ASSUME NEW a, NEW b, NEW f, f = compare(a, b)
    PROVE  f = [kind |-> f.kind, status |-> f.status]
<1>1. \E k, s : f = [kind |-> k, status |-> s]
    BY Zenon DEF compare
<1>2. PICK k, s : f = [kind |-> k, status |-> s]
    BY <1>1
<1> QED BY <1>2

\* Conflicts are between two revisions that are there, in either order.
LEMMA ConflictsReal ==
    ASSUME KnowledgeInv PROVE ConflictsAreReal
<1> SUFFICES ASSUME NEW n \in DOMAIN conflicts, NEW r, r = conflicts[n].revisions
             PROVE  /\ r[1] \in References /\ r[2] \in References /\ r[1] # r[2]
                    /\ compare(Record(r[2]), Record(r[1]))
                          = [kind |-> conflicts[n].kind, status |-> conflicts[n].status]
    BY Zenon DEF ConflictsAreReal
<1>1. r[1] \in Ref /\ ExactIn(lineage, r[1]) /\ r[2] \in Ref /\ ExactIn(lineage, r[2])
    BY RecordedRefs DEF KnowledgeInv, Known
<1>2. r[1] \in References /\ r[2] \in References
    BY <1>1, RefIsReference DEF KnowledgeInv
<1>3. Record(r[1]) = What(r[1]) /\ Record(r[2]) = What(r[2])
    BY <1>1, ExactIs DEF KnowledgeInv
<1>4. PICK f : f = compare(What(r[1]), What(r[2]))
    OBVIOUS
<1>5. r[1] # r[2] /\ conflicts[n].kind = f.kind /\ conflicts[n].status = f.status
    BY <1>4 DEF KnowledgeInv, Disputes, IsComparison
<1>6. compare(Record(r[2]), Record(r[1])) = f
    BY <1>3, <1>4, CompareSymmetric
<1>7. f = [kind |-> f.kind, status |-> f.status]
    BY <1>4, CompareRecord
<1> QED BY <1>2, <1>5, <1>6, <1>7, Zenon

\* Whatever its sender last saw, no decision or conflict is recorded that is not the
\* authority's, that forks the chain, or that is about what does not exist.
THEOREM DecisionsHold == Spec => []DecisionsSound
<1>1. KnowledgeInv => DecisionsSound
    BY Typed, ByAuthorities, OneEnd, ConflictsReal DEF DecisionsSound
<1> QED BY <1>1, KnowledgeHolds, PTL

-----------------------------------------------------------------------------
(* What grounds an evaluation.                                             *)

Applicable(n) == evaluations[n].result = "applicable"

\* What grounds an evaluation, when g tells which ones before it are grounded.
Ground(g, n) ==
    /\ Applicable(n)
    /\ \/ Matches(evaluations[n])
       \/ \E m \in 1 .. n - 1 : RestsOn(evaluations[n], evaluations[m]) /\ g[m]

IsGround(g) == g = [n \in DOMAIN evaluations |-> Ground(g, n)]

\* Grounded is a function that satisfies its own definition, if there is one.
LEMMA GroundedIs ==
    ASSUME NEW g, IsGround(g)
    PROVE  IsGround(Grounded)
<1>1. Grounded = CHOOSE h : IsGround(h)
    BY Zenon DEF Grounded, IsGround, Ground, Applicable
<1> QED BY <1>1, Zenon

\* The parts of the invariant, in the terms of the definition.
LEMMA RestsIs ==
    ASSUME KnowledgeInv, NEW n \in DOMAIN evaluations, Applicable(n)
    PROVE  \/ Matches(evaluations[n])
           \/ \E m \in 1 .. n - 1 : RestsOn(evaluations[n], evaluations[m]) /\ Applicable(m)
<1>1. Record(evaluations[n].claim) = What(evaluations[n].claim)
    BY RecordedRefs, ExactIs DEF KnowledgeInv, Known
<1>2. Matched(evaluations[n]) \/ \E m \in 1 .. n - 1 : Leans(evaluations[n], evaluations[m])
    BY DEF KnowledgeInv, Rested, Rests, Applicable
<1>3. CASE Matched(evaluations[n])
    BY <1>1, <1>3, Zenon DEF Matched, Matches
<1>4. CASE \E m \in 1 .. n - 1 : Leans(evaluations[n], evaluations[m])
    BY <1>1, <1>4, Zenon DEF Leans, RestsOn, Applicable
<1> QED BY <1>2, <1>3, <1>4

\* Every applicable evaluation is grounded.
LEMMA AllGrounded ==
    ASSUME KnowledgeInv PROVE GroundedApplicability
<1> DEFINE g == [n \in DOMAIN evaluations |-> Applicable(n)]
<1>1. \A n \in DOMAIN evaluations : \A m \in 1 .. n - 1 : m \in DOMAIN evaluations
    BY DEF KnowledgeInv, Shape
<1>2. \A n \in DOMAIN evaluations : Applicable(n) <=> Ground(g, n)
    <2> SUFFICES ASSUME NEW n \in DOMAIN evaluations PROVE Applicable(n) <=> Ground(g, n)
        OBVIOUS
    <2>1. \A m \in 1 .. n - 1 : g[m] = Applicable(m)
        BY <1>1, Zenon
    <2> HIDE DEF g
    <2>2. Applicable(n) => Ground(g, n)
        BY <2>1, RestsIs, Zenon DEF Ground
    <2> QED BY <2>2, Zenon DEF Ground
<1>3. IsGround(g)
    <2>1. \A n \in DOMAIN evaluations : Applicable(n) = Ground(g, n)
        BY <1>2, Zenon DEF Applicable, Ground
    <2>2. g = [n \in DOMAIN evaluations |-> Ground(g, n)]
        BY <2>1, Zenon
    <2> QED BY <2>2, Zenon DEF IsGround
<1>4. IsGround(Grounded)
    BY <1>3, GroundedIs, Zenon
<1>5. \A n \in DOMAIN evaluations : Grounded[n] = Ground(Grounded, n)
    BY <1>4, Zenon DEF IsGround
<1> DEFINE Bad == {n \in DOMAIN evaluations : Applicable(n) /\ ~Grounded[n]}
<1>6. Bad = {}
    <2> SUFFICES ASSUME Bad # {} PROVE FALSE
        OBVIOUS
    <2>1. Bad \in SUBSET Nat
        BY DEF KnowledgeInv, Shape
    <2>2. PICK n \in Bad : \A m \in Bad : n <= m
        <3> HIDE DEF Bad
        <3> QED BY <2>1, SmallestOf
    <2>3. n \in DOMAIN evaluations /\ Applicable(n) /\ ~Grounded[n]
        OBVIOUS
    <2>4. ASSUME NEW m \in 1 .. n - 1, Applicable(m) PROVE Grounded[m]
        <3>1. m \in DOMAIN evaluations /\ ~(n <= m)
            BY <1>1, <2>1, <2>3
        <3>2. m \notin Bad
            BY <2>2, <3>1
        <3> QED BY <2>4, <3>1, <3>2
    <2>5. Ground(Grounded, n)
        BY <2>3, <2>4, RestsIs, Zenon DEF Ground
    <2> QED BY <1>5, <2>3, <2>5, Zenon
<1> QED BY <1>6, Zenon DEF GroundedApplicability, Applicable

\* However the evaluations of claims that rest on one another follow each other, none
\* is applicable without a condition that matched behind it.
THEOREM ApplicabilityHolds == Spec => []GroundedApplicability
BY AllGrounded, KnowledgeHolds, PTL

-----------------------------------------------------------------------------
(* What a packet that is read again says of a claim.                       *)

\* Reading a claim again finds a reason exactly if the claim does not satisfy the
\* item any more.
LEMMA InvalidationAgrees ==
    ASSUME NEW wanted, NEW now
    PROVE  Invalidation(wanted, now) = "" <=> ClaimSatisfies(wanted, now)
<1> DEFINE short == claim_shortfall(wanted, now)
<1>1. short \in {"", "not_accepted", "invalid_for_target", "applicability_not_established"}
    BY DEF claim_shortfall
<1> HIDE DEF short
<1>2. ClaimSatisfies(wanted, now) <=> short = "" /\ ~Historical(now)
    BY DEF ClaimSatisfies, short
<1>3. Invalidation(wanted, now) = CASE short = "not_accepted" -> "permitted_use_lost"
                                    [] short \notin {"", "not_accepted"} -> short
                                    [] short = "" /\ Historical(now) -> "invalid_for_target"
                                    [] OTHER -> ""
    BY Zenon DEF Invalidation, short
<1> QED BY <1>1, <1>2, <1>3

\* Whether a claim satisfies an item depends on its reliance, use and applicability.
LEMMA SatisfiesBy ==
    ASSUME NEW wanted, NEW a, NEW b, a.reliance = b.reliance, a.use = b.use,
           a.applicability = b.applicability
    PROVE  ClaimSatisfies(wanted, a) <=> ClaimSatisfies(wanted, b)
BY DEF ClaimSatisfies, claim_shortfall, Historical

\* A change of what an item was satisfied by is among the changes that are told.
LEMMA ChangesTold ==
    ASSUME NEW old, NEW now, NEW revision,
           Changes(old, now, revision) \cap {"reliance_changed", "applicability_changed"} = {}
    PROVE  now.reliance = old.reliance /\ now.use = old.use /\ now.applicability = old.applicability
<1>1. <<now.reliance, now.use>> = <<old.reliance, old.use>>
    BY DEF Changes
<1>2. now.applicability = old.applicability
    BY DEF Changes
<1> QED BY <1>1, <1>2

\* What is recorded between a packet and its reading is told when it matters.
THEOREM ReadsHold == Spec => []ReadTimeAgrees
<1>1. KnowledgeInv => ReadTimeAgrees
    <2> SUFFICES ASSUME KnowledgeInv, packet # <<>>, packet[1].satisfied PROVE ReadTimeAgrees
        BY DEF ReadTimeAgrees
    <2>1. PICK ref, t, wanted, snapshot : packet = <<Packed(ref, t, wanted, snapshot)>>
        BY Zenon DEF KnowledgeInv, Carried
    <2>2. PICK sat : sat = ClaimSatisfies(wanted, snapshot)
        OBVIOUS
    <2>3. packet[1] = [claim |-> ref, target |-> t, wanted |-> wanted, snapshot |-> snapshot,
                       satisfied |-> sat]
        BY <2>1, <2>2 DEF Packed
    <2> DEFINE k == packet[1]
               now == claim_snapshot(k.claim, k.target)
               told == Invalidation(k.wanted, now)
    <2>4. k.wanted = wanted /\ k.snapshot = snapshot /\ k.satisfied = sat
        BY <2>3
    <2>5. ClaimSatisfies(k.wanted, k.snapshot)
        BY <2>2, <2>4
    <2> HIDE DEF k, now
    <2>6. told = "" <=> ClaimSatisfies(k.wanted, now)
        BY InvalidationAgrees
    <2>7. ASSUME told # ""
          PROVE  Changes(k.snapshot, now, k.claim[2])
                     \cap {"reliance_changed", "applicability_changed"} # {}
        <3> SUFFICES ASSUME Changes(k.snapshot, now, k.claim[2])
                                \cap {"reliance_changed", "applicability_changed"} = {}
                     PROVE  FALSE
            OBVIOUS
        <3>1. /\ now.reliance = k.snapshot.reliance /\ now.use = k.snapshot.use
              /\ now.applicability = k.snapshot.applicability
            BY ChangesTold
        <3>2. ClaimSatisfies(k.wanted, now)
            BY <2>5, <3>1, SatisfiesBy
        <3> QED BY <2>6, <2>7, <3>2
    <2> HIDE DEF told
    <2> QED BY <2>6, <2>7, Zenon DEF ReadTimeAgrees, k, now, told
<1> QED BY <1>1, KnowledgeHolds, PTL

-----------------------------------------------------------------------------
(* What separates two records, as they say more.                           *)

SubjectDiffers(a, b) == a.about # b.about
ScopeDiffers(a, b) == a.scope # b.scope
QualifiersDisjoint(a, b) == ~Agree(a.qualifiers, b.qualifiers)
BasisDisjoint(a, b) == "none" \notin {a.basis, b.basis} /\ ~Agree(a.anchors, b.anchors)
ValidityDisjoint(a, b) ==
    /\ <<>> \notin {a.validity, b.validity}
    /\ ~(a.validity[1] < b.validity[2] /\ b.validity[1] < a.validity[2])
MultiplePermitted(a, b) == "multiple" \in {a.cardinality, b.cardinality}
ValuesEqual(a, b) == a.value = b.value

Apart(a, b) ==
    \/ SubjectDiffers(a, b) \/ ScopeDiffers(a, b) \/ QualifiersDisjoint(a, b) \/ BasisDisjoint(a, b)
    \/ ValidityDisjoint(a, b) \/ MultiplePermitted(a, b) \/ ValuesEqual(a, b)

Separation(is, reason) == [is |-> is, reason |-> reason]

\* What a separation says of whether it is one.
LEMMA IsOf ==
    ASSUME NEW p \in BOOLEAN, NEW reason
    PROVE  Separation(p, reason).is = p
BY DEF Separation

\* There is no comparison of two records exactly if something separates them.
LEMMA NoneIsApart ==
    ASSUME NEW a, NEW b
    PROVE  compare(a, b).kind = "none" <=> Apart(a, b)
<1> DEFINE found == Separations(a, b)
<1>1. found = <<Separation(SubjectDiffers(a, b), "subject_differs"),
                Separation(ScopeDiffers(a, b), "scope_differs"),
                Separation(QualifiersDisjoint(a, b), "qualifiers_disjoint"),
                Separation(BasisDisjoint(a, b), "basis_disjoint"),
                Separation(ValidityDisjoint(a, b), "validity_disjoint"),
                Separation(MultiplePermitted(a, b), "multiple_values_permitted"),
                Separation(ValuesEqual(a, b), "values_equal")>>
    BY Zenon DEF Separations, Separation, SubjectDiffers, ScopeDiffers, QualifiersDisjoint, BasisDisjoint,
       ValidityDisjoint, MultiplePermitted, ValuesEqual
<1> HIDE DEF found
<1>2. /\ SubjectDiffers(a, b) \in BOOLEAN /\ ScopeDiffers(a, b) \in BOOLEAN
      /\ QualifiersDisjoint(a, b) \in BOOLEAN /\ BasisDisjoint(a, b) \in BOOLEAN
      /\ ValidityDisjoint(a, b) \in BOOLEAN /\ MultiplePermitted(a, b) \in BOOLEAN
      /\ ValuesEqual(a, b) \in BOOLEAN
    BY DEF SubjectDiffers, ScopeDiffers, QualifiersDisjoint, BasisDisjoint, ValidityDisjoint,
       MultiplePermitted, ValuesEqual
<1>3. DOMAIN found = 1 .. 7
    BY <1>1
<1>4. /\ found[1].is = SubjectDiffers(a, b) /\ found[2].is = ScopeDiffers(a, b)
      /\ found[3].is = QualifiersDisjoint(a, b) /\ found[4].is = BasisDisjoint(a, b)
      /\ found[5].is = ValidityDisjoint(a, b) /\ found[6].is = MultiplePermitted(a, b)
      /\ found[7].is = ValuesEqual(a, b)
    <2>1. /\ found[1] = Separation(SubjectDiffers(a, b), "subject_differs")
          /\ found[2] = Separation(ScopeDiffers(a, b), "scope_differs")
          /\ found[3] = Separation(QualifiersDisjoint(a, b), "qualifiers_disjoint")
          /\ found[4] = Separation(BasisDisjoint(a, b), "basis_disjoint")
          /\ found[5] = Separation(ValidityDisjoint(a, b), "validity_disjoint")
          /\ found[6] = Separation(MultiplePermitted(a, b), "multiple_values_permitted")
          /\ found[7] = Separation(ValuesEqual(a, b), "values_equal")
        BY <1>1
    <2> QED BY <1>2, <2>1, IsOf
<1>5. {n \in DOMAIN found : found[n].is} # {} <=> Apart(a, b)
    <2>1. \A n : n \in DOMAIN found <=> n \in {1, 2, 3, 4, 5, 6, 7}
        BY <1>3
    <2> QED BY <1>4, <2>1, Zenon DEF Apart
<1>6. {n \in DOMAIN found : found[n].is} # {} => compare(a, b).kind = "none"
    BY DEF compare, found
<1>7. {n \in DOMAIN found : found[n].is} = {} => compare(a, b).kind \in {"drift", "conflict"}
    BY DEF compare, found
<1> QED BY <1>5, <1>6, <1>7

\* Functions that differ where both are defined differ however they are extended.
LEMMA DisagreeKept ==
    ASSUME NEW f, NEW g, NEW h, Extends(f, h), ~Agree(f, g)
    PROVE  ~Agree(h, g)
BY DEF Extends, Agree

\* Two records that are apart stay apart when one of them says more.
LEMMA ApartKept ==
    ASSUME NEW a, NEW b, NEW c, Refines(a, c), Apart(a, b)
    PROVE  Apart(c, b)
<1>1. a.about = c.about /\ a.scope = c.scope /\ a.value = c.value
    BY DEF Refines
<1>2. CASE QualifiersDisjoint(a, b)
    BY <1>2, DisagreeKept DEF Refines, QualifiersDisjoint, Apart
<1>3. CASE BasisDisjoint(a, b)
    <2>1. c.basis # "none" /\ b.basis # "none"
        BY <1>3 DEF Refines, BasisDisjoint
    <2>2. ~Agree(c.anchors, b.anchors)
        BY <1>3, DisagreeKept DEF Refines, BasisDisjoint
    <2> QED BY <2>1, <2>2 DEF BasisDisjoint, Apart
<1>4. CASE ValidityDisjoint(a, b)
    <2>1. c.validity = a.validity
        BY <1>4 DEF Refines, ValidityDisjoint
    <2>2. ValidityDisjoint(c, b)
        BY <1>4, <2>1, Zenon DEF ValidityDisjoint
    <2> QED BY <2>2 DEF Apart
<1>5. CASE MultiplePermitted(a, b)
    BY <1>5 DEF Refines, MultiplePermitted, Apart
<1>6. CASE SubjectDiffers(a, b) \/ ScopeDiffers(a, b) \/ ValuesEqual(a, b)
    BY <1>1, <1>6 DEF SubjectDiffers, ScopeDiffers, ValuesEqual, Apart
<1> QED BY <1>2, <1>3, <1>4, <1>5, <1>6 DEF Apart

\* A comparison is of two contents, or a class is of some support.
Judging ==
    /\ \/ pair = <<>> /\ support \in Seq(Entry)
       \/ pair # <<>> /\ pair \in Contents \X Contents /\ support = <<>>
    /\ finding = Judged

\* What is found is what is there to be judged, after every restatement.
LEMMA JudgingHolds == CompareSpec => []Judging
<1>1. CompareInit => Judging
    <2> SUFFICES ASSUME CompareInit PROVE Judging
        OBVIOUS
    <2>1. CASE pair \in Contents \X Contents /\ support = <<>>
        <3>1. pair # <<>>
            BY <2>1
        <3> QED BY <2>1, <3>1 DEF CompareInit, Judging
    <2>2. CASE pair = <<>> /\ support \in Supports
        BY <2>2, SupportAssumption DEF CompareInit, Judging
    <2> QED BY <2>1, <2>2 DEF CompareInit
<1>2. Judging /\ [CompareNext]_comparing => Judging'
    <2> SUFFICES ASSUME Judging, [CompareNext]_comparing PROVE Judging'
        OBVIOUS
    <2>1. CASE UNCHANGED comparing
        BY <2>1 DEF Judging, Judged, comparing
    <2>2. ASSUME NEW side \in {1, 2}, Restate(side) PROVE Judging'
        <3>1. PICK c \in Contents : pair' = [pair EXCEPT ![side] = c]
            BY <2>2 DEF Restate
        <3>2. pair \in Contents \X Contents /\ support' = <<>>
            BY <2>2 DEF Restate, Judging
        <3>3. pair' \in Contents \X Contents
            BY <3>1, <3>2
        <3>4. pair' # <<>>
            BY <3>3
        <3>5. finding' = compare(pair'[1], pair'[2])
            BY <2>2 DEF Restate
        <3> QED BY <3>2, <3>3, <3>4, <3>5 DEF Judging, Judged
    <2>3. ASSUME NEW i \in DOMAIN support, Complete(i) PROVE Judging'
        <3>1. pair = <<>> /\ support \in Seq(Entry)
            BY DEF Judging
        <3>2. PICK e : e = [support[i] EXCEPT !.completeness = "complete"]
            OBVIOUS
        <3>3. support[i] \in Entry
            BY <3>1
        <3>4. e \in Entry
            BY <3>2, <3>3 DEF Entry
        <3>5. support' = [support EXCEPT ![i] = e]
            BY <2>3, <3>1, <3>2 DEF Complete
        <3>6. support' \in Seq(Entry)
            BY <3>1, <3>4, <3>5
        <3>7. pair' = <<>> /\ finding' = support_class(support')
            BY <2>3, <3>1 DEF Complete
        <3> QED BY <3>6, <3>7 DEF Judging, Judged
    <2> QED BY <2>1, <2>2, <2>3 DEF CompareNext
<1> QED BY <1>1, <1>2, PTL DEF CompareSpec

\* Nothing that is left open is counted against a comparison: a conflict is not missed
\* because a record was written early.
THEOREM ApartHolds == CompareSpec => ApartStaysApart
<1> DEFINE Stays == pair # <<>> /\ finding.kind = "none" => finding'.kind = "none"
<1>1. Judging /\ [CompareNext]_comparing => [Stays]_comparing
    <2> SUFFICES ASSUME Judging, CompareNext, pair # <<>>, finding.kind = "none"
                 PROVE  finding'.kind = "none"
        OBVIOUS
    <2>1. pair \in Contents \X Contents /\ support = <<>> /\ finding = compare(pair[1], pair[2])
        BY DEF Judging, Judged
    <2>2. ASSUME NEW i \in DOMAIN support PROVE FALSE
        BY <2>1, <2>2
    <2>3. PICK side \in {1, 2} : Restate(side)
        BY <2>2 DEF CompareNext
    <2>4. PICK c \in Contents : Refines(pair[side], c) /\ pair' = [pair EXCEPT ![side] = c]
        BY <2>3 DEF Restate
    <2>5. finding' = compare(pair'[1], pair'[2])
        BY <2>3 DEF Restate
    <2>6. Apart(pair[1], pair[2]) /\ Apart(pair[2], pair[1])
        BY <2>1, NoneIsApart, CompareSymmetric
    <2>7. CASE side = 1
        <3>1. pair'[1] = c /\ pair'[2] = pair[2] /\ Apart(c, pair[2])
            BY <2>1, <2>4, <2>6, <2>7, ApartKept
        <3> QED BY <2>5, <3>1, NoneIsApart
    <2>8. CASE side = 2
        <3>1. pair'[2] = c /\ pair'[1] = pair[1] /\ Apart(c, pair[1])
            BY <2>1, <2>4, <2>6, <2>8, ApartKept
        <3>2. compare(pair[1], c) = compare(c, pair[1])
            BY CompareSymmetric
        <3> QED BY <2>5, <3>1, <3>2, NoneIsApart
    <2> QED BY <2>7, <2>8
<1> QED BY <1>1, JudgingHolds, PTL DEF CompareSpec, ApartStaysApart
-----------------------------------------------------------------------------
(* Support: a class that is stated holds however the origins are read.      *)

Shared(a, b) == a.roots \cap b.roots # {}

\* What a stated class says of the entries.
LEMMA SingleSays ==
    ASSUME NEW s, support_class(s) = "single_lineage"
    PROVE  \E r \in s[1].roots : \A i \in DOMAIN s : r \in s[i].roots
BY SMTT(30) DEF support_class

\* Several lineages: two entries are found disjoint.
LEMMA MultipleSays ==
    ASSUME NEW s, support_class(s) = "multiple_lineages"
    PROVE  \E i, k \in DOMAIN s : relation(s[i], s[k]) = "disjoint"
<1>1. PICK p \in (DOMAIN s) \X (DOMAIN s) : relation(s[p[1]], s[p[2]]) = "disjoint"
    BY SMTT(30) DEF support_class
<1>2. p[1] \in DOMAIN s /\ p[2] \in DOMAIN s
    BY <1>1
<1> QED BY <1>1, <1>2

\* Overlapping lineages: any two entries have a root in common.
LEMMA OverlappingSays ==
    ASSUME NEW s \in Seq(Entry), support_class(s) = "overlapping_lineages"
    PROVE  Len(s) >= 2 /\ \A i, k \in DOMAIN s : i < k => Shared(s[i], s[k])
<1>1. Len(s) >= 2
    BY SMTT(30) DEF support_class
<1>2. ASSUME NEW i \in DOMAIN s, NEW k \in DOMAIN s, i < k PROVE Shared(s[i], s[k])
    <2>1. PICK p : p = <<i, k>>
        OBVIOUS
    <2>2. p \in {q \in (DOMAIN s) \X (DOMAIN s) : q[1] < q[2]} /\ p[1] = i /\ p[2] = k
        BY <1>2, <2>1
    <2>3. relation(s[i], s[k]) # "undetermined" /\ relation(s[i], s[k]) # "disjoint"
        BY <2>2, SMTT(30) DEF support_class
    <2> QED BY <2>3 DEF relation, Shared
<1> QED BY <1>1, <1>2

\* A root two entries have is one origin of both, whichever reading.
LEMMA RootIsOrigin ==
    ASSUME NEW i, NEW reading, NEW r \in support[i].roots
    PROVE  OriginOf(r, reading[1]) \in OriginsOf(i, reading)
BY DEF OriginsOf

\* Entries with a root in common share an origin, whichever reading.
LEMMA SharedIsShared ==
    ASSUME NEW i, NEW k, NEW reading, Shared(support[i], support[k])
    PROVE  OriginsOf(i, reading) \cap OriginsOf(k, reading) # {}
BY RootIsOrigin DEF Shared

\* An entry that is complete has the origins of its roots, no other.
LEMMA CompleteNames ==
    ASSUME NEW i \in DOMAIN support, support[i].completeness = "complete",
           NEW reading \in Readings, NEW o \in OriginsOf(i, reading)
    PROVE  \E r \in support[i].roots : o = OriginOf(r, reading[1])
<1>1. reading[2][i] = {}
    BY DEF Readings
<1> QED BY <1>1 DEF OriginsOf

\* Two roots that are one origin are one root, or have equal bytes.
LEMMA OneOrigin ==
    ASSUME NEW r, NEW q, NEW merged, OriginOf(r, merged) = OriginOf(q, merged)
    PROVE  r = q \/ r.digest = q.digest
BY DEF OriginOf

\* Entries found disjoint share no origin, whichever reading.
LEMMA DisjointIsDisjoint ==
    ASSUME NEW i \in DOMAIN support, NEW k \in DOMAIN support, NEW reading \in Readings,
           relation(support[i], support[k]) = "disjoint"
    PROVE  OriginsOf(i, reading) \cap OriginsOf(k, reading) = {}
<1>1. /\ support[i].roots \cap support[k].roots = {}
      /\ support[i].completeness = "complete" /\ support[k].completeness = "complete"
      /\ Digests(support[i]) \cap Digests(support[k]) = {}
    BY DEF relation
<1> SUFFICES ASSUME NEW o \in OriginsOf(i, reading), o \in OriginsOf(k, reading) PROVE FALSE
    OBVIOUS
<1>2. PICK r \in support[i].roots : o = OriginOf(r, reading[1])
    BY <1>1, CompleteNames
<1>3. PICK q \in support[k].roots : o = OriginOf(q, reading[1])
    BY <1>1, CompleteNames
<1>4. r.digest \in Digests(support[i]) /\ q.digest \in Digests(support[k])
    BY DEF Digests
<1> QED BY <1>1, <1>2, <1>3, <1>4, OneOrigin

\* The lineages a support class tells apart, or says are one, are so in every reading of
\* what the entries leave open.
THEOREM SupportHolds == CompareSpec => []SupportSound
<1>1. Judging => SupportSound
    <2> SUFFICES ASSUME Judging, pair = <<>> PROVE SupportSound
        BY DEF SupportSound
    <2>1. support \in Seq(Entry) /\ finding = support_class(support)
        BY DEF Judging, Judged
    <2>2. ASSUME finding = "multiple_lineages"
          PROVE  \E i, k \in DOMAIN support : \A reading \in Readings :
                     ~(OriginsOf(i, reading) \cap OriginsOf(k, reading) # {})
        <3>1. PICK i \in DOMAIN support, k \in DOMAIN support :
                  relation(support[i], support[k]) = "disjoint"
            BY <2>1, <2>2, MultipleSays
        <3>2. \A reading \in Readings : ~(OriginsOf(i, reading) \cap OriginsOf(k, reading) # {})
            BY <3>1, DisjointIsDisjoint
        <3> QED BY <3>2
    <2>3. ASSUME finding = "single_lineage", NEW reading \in Readings
          PROVE  \E o \in OriginsOf(1, reading) :
                     \A i \in DOMAIN support : o \in OriginsOf(i, reading)
        <3>1. PICK r \in support[1].roots : \A i \in DOMAIN support : r \in support[i].roots
            BY <2>1, <2>3, SingleSays
        <3>2. OriginOf(r, reading[1]) \in OriginsOf(1, reading)
            BY RootIsOrigin
        <3>3. \A i \in DOMAIN support : OriginOf(r, reading[1]) \in OriginsOf(i, reading)
            BY <3>1, RootIsOrigin
        <3> QED BY <3>2, <3>3
    <2>4. ASSUME finding = "overlapping_lineages", NEW i \in DOMAIN support,
                 NEW k \in DOMAIN support, NEW reading \in Readings
          PROVE  OriginsOf(i, reading) \cap OriginsOf(k, reading) # {}
        <3>1. Len(support) >= 2 /\ \A m, n \in DOMAIN support : m < n => Shared(support[m], support[n])
            BY <2>1, <2>4, OverlappingSays
        <3>2. i \in 1 .. Len(support) /\ k \in 1 .. Len(support) /\ DOMAIN support = 1 .. Len(support)
            BY <2>1
        <3>3. CASE i = k
            <4>1. PICK n \in DOMAIN support : i < n \/ n < i
                <5>1. 1 \in DOMAIN support /\ 2 \in DOMAIN support
                    BY <2>1, <3>1, <3>2
                <5> QED BY <3>2, <5>1
            <4>2. support[i].roots # {}
                BY <3>1, <4>1 DEF Shared
            <4> QED BY <3>3, <4>2, RootIsOrigin
        <3>4. CASE i # k
            <4>1. Shared(support[i], support[k])
                BY <3>1, <3>2, <3>4 DEF Shared
            <4> QED BY <4>1, SharedIsShared
        <3> QED BY <3>3, <3>4
    <2> QED BY <2>2, <2>3, <2>4 DEF SupportSound
<1> QED BY <1>1, JudgingHolds, PTL DEF CompareSpec

=============================================================================
