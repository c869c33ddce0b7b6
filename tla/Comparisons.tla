----------------------------- MODULE Comparisons -----------------------------
(***************************************************************************)
(* What is worked out from two claim records, or from the support of one,  *)
(* as the records become better known: a claimant may state a qualifier, a *)
(* basis, a validity or a cardinality it left open in an earlier revision, *)
(* and a support entry may be completed.                                   *)
(***************************************************************************)
EXTENDS Claims

CONSTANTS Contents,  \* the claim records compared
          Supports   \* the sequences of support entries classified

(* A support entry names some of the roots there are.                      *)
Entry ==
  [completeness : {"unknown", "partial", "complete"},
   roots : SUBSET UNION {UNION {e.roots : e \in ToSet(s)} : s \in Supports}]

ASSUME SupportAssumption == Supports \subseteq Seq(Entry)

VARIABLES pair,      \* the two records, <<>> when support is classified
          support,   \* the support entries
          finding    \* the comparison, or the support class
comparing == <<pair, support, finding>>

(* The comparison a conflict is opened on, or the class an inspection      *)
(* tells.  The two steps below stand for claimants who write again.        *)
Judged == IF pair = << >> THEN support_class(support) ELSE compare(pair[1], pair[2])

CompareInit ==
  /\ \/ pair \in Contents \X Contents /\ support = << >>
     \/ pair = << >> /\ support \in Supports
  /\ finding = Judged

Extends(f, g) == DOMAIN f \subseteq DOMAIN g /\ \A n \in DOMAIN f : f[n] = g[n]

\* Whether `b` says all that `a` says, and as much or more of what `a` left open.
Refines(a, b) ==
  /\ <<a.about, a.scope, a.value, a.plane>> = <<b.about, b.scope, b.value, b.plane>>
  /\ Extends(a.qualifiers, b.qualifiers) /\ Extends(a.anchors, b.anchors)
  /\ a.basis # b.basis => <<a.basis, b.basis>> \in {<<"none", "partial">>, <<"none", "complete">>, <<"partial", "complete">>}
  /\ a.basis = "complete" => a.anchors = b.anchors
  /\ a.validity \in {<< >>, b.validity}
  /\ a.cardinality \in {"unknown", b.cardinality}

(* A later revision of one of the two records, compared again.             *)
Restate(side) ==
  /\ pair # << >>
  /\ \E c \in Contents :
       /\ Refines(pair[side], c) /\ c # pair[side]
       /\ pair' = [pair EXCEPT ![side] = c]
  /\ UNCHANGED support
  /\ finding' = compare(pair'[1], pair'[2])

(* A support entry is completed: its roots are all named.                  *)
Complete(i) ==
  /\ support[i].completeness # "complete" /\ support[i].roots # {}
  /\ support' = [support EXCEPT ![i].completeness = "complete"]
  /\ UNCHANGED pair
  /\ finding' = support_class(support')

CompareNext ==
  \/ \E side \in {1, 2} : Restate(side)
  \/ \E i \in DOMAIN support : Complete(i)

CompareSpec == CompareInit /\ [][CompareNext]_comparing

-----------------------------------------------------------------------------
(* What support entries may stand for.  A root is an origin, and two roots *)
(* of equal bytes may be one origin or two; an entry that is not complete  *)
(* may have further origins.                                               *)

Origins == {"x", "y"}
Roots == UNION {support[i].roots : i \in DOMAIN support}

\* One reading: the digests whose roots are one origin, and the origins each
\* entry did not name.
Readings ==
  {reading \in (SUBSET {r.digest : r \in Roots}) \X [DOMAIN support -> SUBSET Origins] :
     \A i \in DOMAIN support : support[i].completeness = "complete" => reading[2][i] = {}}

OriginOf(r, merged) ==
  IF r.digest \in merged THEN <<"bytes", r.digest>> ELSE <<"root", r>>

OriginsOf(i, reading) ==
  {OriginOf(r, reading[1]) : r \in support[i].roots} \cup {<<"unnamed", o>> : o \in reading[2][i]}

(* support_class: a class that is stated holds however the origins are     *)
(* read.  Several lineages: two entries that share no origin; a single     *)
(* one: an origin every entry has; overlapping: any two entries share one. *)
SupportSound ==
  pair = << >> =>
    LET entries == DOMAIN support
        shared(i, k, reading) == OriginsOf(i, reading) \cap OriginsOf(k, reading) # {}
    IN  /\ finding = "multiple_lineages" =>
             \E i, k \in entries : \A reading \in Readings : ~shared(i, k, reading)
        /\ finding = "single_lineage" =>
             \A reading \in Readings : \E o \in OriginsOf(1, reading) :
               \A i \in entries : o \in OriginsOf(i, reading)
        /\ finding = "overlapping_lineages" =>
             \A i, k \in entries : \A reading \in Readings : shared(i, k, reading)

(* compare: two records that are apart stay apart however much more either *)
(* one states: nothing unstated is ever counted against a comparison, so a *)
(* conflict is not missed because a record was written early.              *)
ApartStaysApart ==
  [][pair # << >> /\ finding.kind = "none" => finding'.kind = "none"]_comparing

==============================================================================
