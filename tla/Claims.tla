------------------------------- MODULE Claims -------------------------------
(***************************************************************************)
(* What the provider works out from claim records (knowledge.rs), and what *)
(* a packet that carries a claim says of it (context.rs).                  *)
(*                                                                         *)
(* A claim record has                                                      *)
(*   about        its subject and predicate                                *)
(*   scope        the scope whose authority decides about it               *)
(*   qualifiers   names -> values                                          *)
(*   anchors      repositories and environment -> tree or digest           *)
(*   basis        "none", "partial" or "complete"                          *)
(*   validity     <<from, until>>, or <<>> when one of them is not known   *)
(*   cardinality, value, plane                                             *)
(*   conditions   records with a kind, the anchor they read and the value  *)
(*                they expect                                              *)
(*   deps         the claim references it rests on                         *)
(***************************************************************************)
EXTENDS Integers, Sequences, FiniteSets, SequencesExt

-----------------------------------------------------------------------------
(* Comparing two revisions.                                                *)

\* Mutant: what only one of the two names counts as different.
SameNames(f, g) == f = g

\* What both name, they give the same value.
Agree(f, g) == \A n \in DOMAIN f \cap DOMAIN g : f[n] = g[n]

\* What separates two records, in the order it is looked for.
Separations(a, b) ==
    <<[is |-> a.about # b.about, reason |-> "subject_differs"],
      [is |-> a.scope # b.scope, reason |-> "scope_differs"],
      [is |-> ~Agree(a.qualifiers, b.qualifiers), reason |-> "qualifiers_disjoint"],
      [is |-> "none" \notin {a.basis, b.basis} /\ ~Agree(a.anchors, b.anchors), reason |-> "basis_disjoint"],
      [is |-> /\ <<>> \notin {a.validity, b.validity}
              /\ ~(a.validity[1] < b.validity[2] /\ b.validity[1] < a.validity[2]),
       reason |-> "validity_disjoint"],
      [is |-> "multiple" \in {a.cardinality, b.cardinality}, reason |-> "multiple_values_permitted"],
      [is |-> a.value = b.value, reason |-> "values_equal"]>>

Drift(a, b) == {a.plane, b.plane} = {"normative", "observed"}

\* What leaves it open whether they are about the same.
Uncertain(a, b) ==
    (IF a.qualifiers # b.qualifiers THEN {"qualifiers"} ELSE {})
    \cup (IF a.basis = "complete" /\ b.basis = "complete" /\ a.anchors = b.anchors THEN {} ELSE {"basis"})
    \cup (IF <<>> \in {a.validity, b.validity} THEN {"validity"} ELSE {})
    \cup (IF a.cardinality = "single" /\ b.cardinality = "single" THEN {} ELSE {"cardinality"})
    \cup (IF a.plane = b.plane \/ Drift(a, b) THEN {} ELSE {"plane"})

\* The comparison, or the first reason there is none.
compare(a, b) ==
    LET found == Separations(a, b)
        apart == {n \in DOMAIN found : found[n].is} IN
    IF apart # {} THEN [kind |-> "none", status |-> found[Min(apart)].reason]
    ELSE [kind |-> IF Drift(a, b) THEN "drift" ELSE "conflict",
          status |-> IF Uncertain(a, b) = {} THEN "demonstrated" ELSE "potential"]

Comparable(a, b) == compare(a, b).kind # "none"

-----------------------------------------------------------------------------
(* Support.  An entry has a completeness and the set of its roots, and a    *)
(* root is a reference and the digest of its bytes.                        *)

Digests(e) == {r.digest : r \in e.roots}

\* Mutant: bytes that are equal count as two origins when two references name them.
ByReference(a, b) ==
    IF a.roots \cap b.roots # {} THEN "shared"
    ELSE IF a.completeness = "complete" /\ b.completeness = "complete" THEN "disjoint"
    ELSE "undetermined"

relation(a, b) ==
    IF a.roots \cap b.roots # {} THEN "shared"
    ELSE IF a.completeness = "complete" /\ b.completeness = "complete" /\ Digests(a) \cap Digests(b) = {}
         THEN "disjoint"
    ELSE "undetermined"

support_class(support) ==
    LET pairs == {p \in (DOMAIN support) \X (DOMAIN support) : p[1] < p[2]}
        Some(what) == \E p \in pairs : relation(support[p[1]], support[p[2]]) = what
        unknown == \E i \in DOMAIN support : support[i].completeness = "unknown"
        common == \E r \in support[1].roots : \A i \in DOMAIN support : r \in support[i].roots
    IN IF support = <<>> THEN "unsupported"
       ELSE IF unknown /\ ~Some("disjoint") THEN "undetermined"
       ELSE IF common THEN "single_lineage"
       ELSE IF Some("disjoint") THEN "multiple_lineages"
       ELSE IF Len(support) >= 2 /\ ~Some("undetermined") THEN "overlapping_lineages"
       ELSE "undetermined"

\* What is observed of the support artifacts, as one state.
availability(observed) ==
    LET Count(what) == Cardinality({i \in DOMAIN observed : observed[i] = what})
        total == Len(observed)
    IN IF total = 0 THEN "unknown"
       ELSE IF Count("available") = total THEN "complete"
       ELSE IF Count("available") > 0 THEN "partial"
       ELSE IF Count("unknown") > 0 THEN "unknown"
       ELSE IF Count("purged") = total THEN "purged"
       ELSE "unavailable"

-----------------------------------------------------------------------------
(* Applicability.                                                          *)

\* The finding of one condition against a target, a function of anchors, for
\* an evaluator that implements `kinds`.
condition_finding(c, target, kinds) ==
    IF c.kind \notin kinds THEN "unsupported"
    ELSE IF c.anchor \notin DOMAIN target THEN "missing_anchor"
    ELSE IF target[c.anchor] = c.expected THEN "match" ELSE "mismatch"

\* Mutant: nothing found wrong is taken as applicable.
NothingWrong(findings) ==
    IF "mismatch" \in findings THEN "invalid_for_target"
    ELSE IF findings \cap {"missing_anchor", "unsupported"} # {} THEN "unknown"
    ELSE IF "unchecked" \in findings THEN "needs_check"
    ELSE "applicable"

result_of(findings) ==
    IF "mismatch" \in findings THEN "invalid_for_target"
    ELSE IF findings \cap {"missing_anchor", "unsupported"} # {} THEN "unknown"
    ELSE IF "unchecked" \in findings THEN "needs_check"
    ELSE IF findings = {} THEN "unknown"
    ELSE "applicable"

-----------------------------------------------------------------------------
(* A claim in a packet.  A snapshot has the reliance, the permitted use     *)
(* ("" for none), the applicability at the packet's basis, the open         *)
(* conflicts and the lineage's current revision.                           *)

rank(use) ==
    CASE use = "binding" -> 4 [] use = "evidence" -> 3 [] use = "hypothesis" -> 2
      [] use = "reference" -> 1 [] OTHER -> 0

\* Why a snapshot falls short of the reliance an item asks for, "" if it does not.
claim_shortfall(wanted, snapshot) ==
    IF wanted \in {"binding", "evidence"}
    THEN IF snapshot.reliance # "accepted_for_use" \/ rank(snapshot.use) < rank(wanted) THEN "not_accepted"
         ELSE IF snapshot.applicability = "invalid_for_target" THEN "invalid_for_target"
         ELSE IF snapshot.applicability # "applicable" THEN "applicability_not_established"
         ELSE ""
    ELSE IF snapshot.reliance = "rejected" THEN "not_accepted" ELSE ""

\* attach_claim: a claim that is invalid for the target makes its section historical.
Historical(snapshot) == snapshot.applicability = "invalid_for_target"

\* Whether a section with this claim satisfies an item that asks for it.
ClaimSatisfies(wanted, snapshot) == claim_shortfall(wanted, snapshot) = "" /\ ~Historical(snapshot)

\* Mutant: a claim that became invalid matters only where a shortfall says so.
ShortfallOnly(wanted, now) ==
    CASE claim_shortfall(wanted, now) = "not_accepted" -> "permitted_use_lost"
      [] claim_shortfall(wanted, now) = "" -> ""
      [] OTHER -> claim_shortfall(wanted, now)

\* What reading the claim again says of an item it satisfied: a reason it is
\* invalidated or unverified, or "".
Invalidation(wanted, now) ==
    LET short == claim_shortfall(wanted, now) IN
    CASE short = "not_accepted" -> "permitted_use_lost"
      [] short \notin {"", "not_accepted"} -> short
      [] short = "" /\ Historical(now) -> "invalid_for_target"
      [] OTHER -> ""

\* claim_changes: what is different from the snapshot in the packet.
Changes(old, now, revision) ==
    (IF <<now.reliance, now.use>> # <<old.reliance, old.use>> THEN {"reliance_changed"} ELSE {})
    \cup (IF now.applicability # old.applicability THEN {"applicability_changed"} ELSE {})
    \cup (IF now.conflicts \subseteq old.conflicts THEN {} ELSE {"conflict_opened"})
    \cup (IF now.current > revision THEN {"lineage_revised"} ELSE {})
=============================================================================
