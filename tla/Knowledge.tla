----------------------------- MODULE Knowledge -----------------------------
(***************************************************************************)
(* Knowledge (provider/knowledge_ops.rs): claims with their revisions, the *)
(* authorities of scopes, decisions, conflicts and evaluations, and a      *)
(* reader that carries a claim in a packet and reads it again later.       *)
(*                                                                         *)
(* Commands run one at a time under the owner's lock; what is open is what *)
(* their senders last saw, so a command names any revision, epoch or       *)
(* decision, and the guards say which it is admitted with.  A reference is *)
(* <<claim, revision, digest>>, and a record's digest is the name of the   *)
(* draft it was made from.  A reference to a claim outside Claim is to     *)
(* another provider's.                                                     *)
(***************************************************************************)
EXTENDS Claims

CONSTANTS
    Claim, Scope, Principal,
    Draft,        \* name -> the content of a revision
    Writes,       \* claim -> the drafts its producers write
    Owner,        \* the principals that bind authorities
    May,          \* right -> the principals that have it
    Target,       \* name -> what an evaluation is asked about
    Kinds,        \* the condition kinds the evaluator implements
    Uses,         \* the permitted uses deciders give
    Remote,       \* references to claims of another provider
    Wanted,       \* the reliances an item may ask for
    MaxRevisions, MaxEpoch, MaxDecisions, MaxEvaluations, MaxConflicts   \* bounds

\* Producers write drafts of a scope, and what is another provider's is no claim here.
ASSUME ContentAssumption ==
    /\ Writes \in [Claim -> SUBSET DOMAIN Draft]
    /\ \A d \in DOMAIN Draft : Draft[d].scope \in Scope
    /\ \A ref \in Remote : ref[1] \notin Claim

VARIABLES
    lineage,      \* claim -> its revisions, each with its draft, producer and base
    binding,      \* scope -> its authorities so far; the epoch is how many
    decisions, evaluations, conflicts,   \* in the order they were recorded
    packet        \* what a reader carried, if it did

vars == <<lineage, binding, decisions, evaluations, conflicts, packet>>

-----------------------------------------------------------------------------
(* Records.                                                                *)

reference(c, n) == <<c, n, lineage[c][n].draft>>
References == UNION {{reference(c, n) : n \in DOMAIN lineage[c]} : c \in Claim}

\* Callers may also name a revision with the digest of another one.
Named == {ref \in Claim \X (1 .. MaxRevisions) \X (DOMAIN Draft) : ref[3] \in Writes[ref[1]]} \cup Remote

\* By claim and revision: the digest is compared where it matters.
held_revision(ref) == ref[1] \in Claim /\ ref[2] \in DOMAIN lineage[ref[1]]
SameDigest(ref) == lineage[ref[1]][ref[2]].draft = ref[3]
Exact(ref) == held_revision(ref) /\ SameDigest(ref)

Record(ref) == Draft[lineage[ref[1]][ref[2]].draft]
ScopeOf(ref) == Record(ref).scope

LastOf(seq, Test(_)) ==
    LET at == {n \in DOMAIN seq : Test(seq[n])} IN
    IF at = {} THEN 0 ELSE CHOOSE n \in at : \A m \in at : m <= n

latest_decision(ref) == LastOf(decisions, LAMBDA d : d.claim = ref)
latest_evaluation(ref, t) == LastOf(evaluations, LAMBDA e : e.claim = ref /\ e.target = t)

\* The epoch a command must carry: the binding's, once the scope is bound.
EpochOk(ref, epoch) ==
    held_revision(ref) /\ binding[ScopeOf(ref)] # <<>> => epoch = Len(binding[ScopeOf(ref)])

bound_to_caller(p, scope) == binding[scope] # <<>> /\ Last(binding[scope]) = p

-----------------------------------------------------------------------------
(* Commands.                                                               *)

\* knowledge.claim.propose and .revise: `base` is the revision the producer
\* saw, <<0, "">> when it saw none.
knowledge_claim(p, c, d, base) ==
    LET n == Len(lineage[c]) IN
    /\ p \in May["propose"] /\ n < MaxRevisions
    /\ base = IF n = 0 THEN <<0, "">> ELSE <<n, lineage[c][n].draft>>
    /\ lineage' = [lineage EXCEPT ![c] = Append(@, [draft |-> d, producer |-> p, base |-> base])]
    /\ UNCHANGED <<binding, decisions, evaluations, conflicts, packet>>

\* knowledge.authority.bind and .transfer, by the epoch the owner saw.
knowledge_authority(p, s, authority, epoch) ==
    /\ p \in Owner /\ epoch = Len(binding[s]) /\ epoch < MaxEpoch
    /\ binding' = [binding EXCEPT ![s] = Append(@, authority)]
    /\ UNCHANGED <<lineage, decisions, evaluations, conflicts, packet>>

\* Mutant: a decision need not know the one before it.
DecidesBlindly(p, ref, value, use, supersedes, epoch) ==
    /\ p \in May["decide"] \cap May["read"] /\ EpochOk(ref, epoch)
    /\ held_revision(ref) /\ bound_to_caller(p, ScopeOf(ref)) /\ SameDigest(ref)
    /\ decisions' = Append(decisions,
           [claim |-> ref, value |-> value, use |-> use, supersedes |-> supersedes, decider |-> p,
            author |-> lineage[ref[1]][ref[2]].producer = p, epoch |-> Len(binding[ScopeOf(ref)])])
    /\ UNCHANGED <<lineage, binding, evaluations, conflicts, packet>>

\* `supersedes` is the decision the decider saw last, 0 for none.
knowledge_decision(p, ref, value, use, supersedes, epoch) ==
    /\ p \in May["decide"] \cap May["read"] /\ EpochOk(ref, epoch)
    /\ held_revision(ref) /\ bound_to_caller(p, ScopeOf(ref)) /\ SameDigest(ref)
    /\ supersedes = latest_decision(ref)
    /\ decisions' = Append(decisions,
           [claim |-> ref, value |-> value, use |-> use, supersedes |-> supersedes, decider |-> p,
            author |-> lineage[ref[1]][ref[2]].producer = p, epoch |-> Len(binding[ScopeOf(ref)])])
    /\ UNCHANGED <<lineage, binding, evaluations, conflicts, packet>>

knowledge_conflict_open(p, a, b) ==
    /\ p \in May["propose"] \cap May["read"] /\ a # b
    /\ Exact(a) /\ Exact(b)
    /\ Comparable(Record(a), Record(b))
    /\ LET found == compare(Record(a), Record(b)) IN
       conflicts' = Append(conflicts,
           [kind |-> found.kind, status |-> found.status, revisions |-> <<a, b>>,
            state |-> "open", selected |-> <<>>, by |-> "none"])
    /\ UNCHANGED <<lineage, binding, decisions, evaluations, packet>>

\* The authority of the first revision's scope resolves; `selected` is one of
\* the two, or <<>> for another resolution.
knowledge_conflict_resolve(p, n, selected, epoch) ==
    LET first == conflicts[n].revisions[1] IN
    /\ p \in May["decide"] /\ EpochOk(first, epoch)
    /\ conflicts[n].state = "open" /\ bound_to_caller(p, ScopeOf(first))
    /\ selected \in {<<>>} \cup ToSet(conflicts[n].revisions)
    /\ conflicts' = [conflicts EXCEPT ![n].state = "resolved", ![n].selected = selected, ![n].by = p]
    /\ UNCHANGED <<lineage, binding, decisions, evaluations, packet>>

\* A dependency is judged by the latest evaluation of exactly that reference
\* for the same target.
dependency_finding(ref, dep, t) ==
    LET e == latest_evaluation(dep, t) IN
    IF dep[1] \notin Claim \/ (dep[1] = ref[1] /\ dep[2] = ref[2]) \/ ~Exact(dep) \/ e = 0 THEN "unchecked"
    ELSE CASE evaluations[e].result = "applicable" -> "match"
           [] evaluations[e].result = "invalid_for_target" -> "mismatch"
           [] OTHER -> "unchecked"

knowledge_evaluate(p, ref, t) ==
    /\ p \in May["propose"] \cap May["read"]
    /\ held_revision(ref) /\ SameDigest(ref)
    /\ LET findings == {condition_finding(c, Target[t], Kinds) : c \in Record(ref).conditions}
                       \cup {dependency_finding(ref, dep, t) : dep \in Record(ref).deps} IN
       evaluations' = Append(evaluations,
           [claim |-> ref, target |-> t, result |-> result_of(findings), supersedes |-> latest_evaluation(ref, t)])
    /\ UNCHANGED <<lineage, binding, decisions, conflicts, packet>>

-----------------------------------------------------------------------------
(* Reads.                                                                  *)

\* Every facet from its own records.
knowledge_inspect(ref, t) ==
    LET d == latest_decision(ref)
        e == latest_evaluation(ref, t) IN
    [reliance |-> IF d = 0 THEN "proposed" ELSE decisions[d].value,
     use |-> IF d = 0 THEN "" ELSE decisions[d].use,
     applicability |-> IF e = 0 THEN "unknown" ELSE evaluations[e].result,
     conflicts |-> {n \in DOMAIN conflicts : conflicts[n].state = "open" /\ ref \in ToSet(conflicts[n].revisions)},
     current |-> Len(lineage[ref[1]])]

\* A packet carries a claim that was read as exactly the revision it names.
\* Read again later, a claim of this provider is always there: the entries the
\* code calls `unverified`, for a reread that fails, have no counterpart here.
claim_snapshot(ref, t) == knowledge_inspect(ref, t)

Carry(ref, t, wanted) ==
    /\ packet = <<>> /\ Exact(ref)
    /\ packet' = <<[claim |-> ref, target |-> t, wanted |-> wanted, snapshot |-> claim_snapshot(ref, t),
                    satisfied |-> ClaimSatisfies(wanted, claim_snapshot(ref, t))]>>
    /\ UNCHANGED <<lineage, binding, decisions, evaluations, conflicts>>

Init ==
    /\ lineage = [c \in Claim |-> <<>>] /\ binding = [s \in Scope |-> <<>>]
    /\ decisions = <<>> /\ evaluations = <<>> /\ conflicts = <<>> /\ packet = <<>>

Values == {<<"accepted_for_use", u>> : u \in Uses} \cup {<<"rejected", "">>, <<"superseded", "">>}
Bases == {<<0, "">>} \cup ((1 .. MaxRevisions) \X (DOMAIN Draft))

Next ==
    \/ \E p \in Principal, c \in Claim, base \in Bases : \E d \in Writes[c] : knowledge_claim(p, c, d, base)
    \/ \E p, a \in Principal, s \in Scope, epoch \in 0 .. MaxEpoch : knowledge_authority(p, s, a, epoch)
    \/ /\ Len(decisions) < MaxDecisions
       /\ \E p \in Principal, ref \in Named, v \in Values, seen \in 0 .. MaxDecisions, epoch \in 0 .. MaxEpoch :
              knowledge_decision(p, ref, v[1], v[2], seen, epoch)
    \/ Len(conflicts) < MaxConflicts /\ \E p \in Principal, a, b \in Named : knowledge_conflict_open(p, a, b)
    \/ \E p \in Principal, n \in DOMAIN conflicts, epoch \in 0 .. MaxEpoch :
           \E selected \in Named \cup {<<>>} : knowledge_conflict_resolve(p, n, selected, epoch)
    \/ /\ Len(evaluations) < MaxEvaluations
       /\ \E p \in Principal, ref \in Named, t \in DOMAIN Target : knowledge_evaluate(p, ref, t)
    \/ \E ref \in Named, t \in DOMAIN Target, wanted \in Wanted : Carry(ref, t, wanted)

Spec == Init /\ [][Next]_vars

-----------------------------------------------------------------------------
(* Properties.                                                             *)

TypeOK ==
    /\ \A c \in Claim : \A n \in DOMAIN lineage[c] :
           /\ lineage[c][n].draft \in Writes[c] /\ lineage[c][n].producer \in Principal
           /\ lineage[c][n].base = IF n = 1 THEN <<0, "">> ELSE <<n - 1, lineage[c][n - 1].draft>>
    /\ \A s \in Scope : binding[s] \in Seq(Principal)
    /\ \A n \in DOMAIN decisions : decisions[n].claim \in References
    /\ \A n \in DOMAIN evaluations : evaluations[n].claim \in References
    /\ Len(packet) <= 1

\* Only the authority of a scope decides about its claims: whoever decided was
\* bound to the claim's scope at the epoch the decision carries, and whoever
\* resolved a conflict was an authority of both revisions' scopes, though the
\* code asks about the first one's only.
DecidedByAuthority ==
    /\ \A n \in DOMAIN decisions : LET d == decisions[n] IN
           /\ d.decider = binding[ScopeOf(d.claim)][d.epoch]
           /\ \A m \in 1 .. n : ScopeOf(decisions[m].claim) = ScopeOf(d.claim) => decisions[m].epoch <= d.epoch
    /\ \A n \in DOMAIN conflicts : conflicts[n].state = "resolved" =>
           \A k \in 1 .. 2 : conflicts[n].by \in ToSet(binding[ScopeOf(conflicts[n].revisions[k])])

\* The decisions about one revision are a chain: two deciders that saw the same
\* one do not both go on from it, and the one that no other supersedes is the
\* one a read reports.
OneCurrentDecision ==
    \A ref \in References :
        LET about == {n \in DOMAIN decisions : decisions[n].claim = ref}
            ends == {n \in about : \A m \in about : decisions[m].supersedes # n} IN
        about # {} => ends = {latest_decision(ref)}

\* What grounds an evaluation: a condition that matched, or one it rests on.
Matches(e) ==
    \E c \in Record(e.claim).conditions : condition_finding(c, Target[e.target], Kinds) = "match"

RestsOn(e, dep) == dep.claim \in Record(e.claim).deps /\ dep.target = e.target

Grounded[n \in DOMAIN evaluations] ==
    /\ evaluations[n].result = "applicable"
    /\ \/ Matches(evaluations[n])
       \/ \E m \in 1 .. n - 1 : RestsOn(evaluations[n], evaluations[m]) /\ Grounded[m]

\* A claim is applicable only where something was checked: behind every
\* applicable evaluation, along the evaluations it took its dependencies'
\* findings from, there is a condition that matched the target.  No claims are
\* applicable because of one another.
GroundedApplicability ==
    \A n \in DOMAIN evaluations : evaluations[n].result = "applicable" => Grounded[n]

\* A recorded conflict is between two different revisions that exist as named,
\* of one scope, and stays one when they are named in the other order.
ConflictsAreReal ==
    \A n \in DOMAIN conflicts : LET r == conflicts[n].revisions IN
        /\ r[1] \in References /\ r[2] \in References /\ r[1] # r[2]
        /\ compare(Record(r[2]), Record(r[1])) = [kind |-> conflicts[n].kind, status |-> conflicts[n].status]

\* What is recorded of authority is sound, whatever epoch, decision or revision a
\* sender last saw (knowledge_decision, knowledge_conflict_open and
\* knowledge_conflict_resolve): decisions are the authority's and form one
\* chain, and what is in conflict exists.
DecisionsSound == TypeOK /\ DecidedByAuthority /\ OneCurrentDecision /\ ConflictsAreReal

\* Whatever was recorded since a packet was prepared, reading it reports an item
\* its claim satisfied exactly when the claim would not satisfy it any more, and
\* then also says what changed.
ReadTimeAgrees ==
    packet # <<>> /\ packet[1].satisfied =>
        LET k == packet[1]
            now == claim_snapshot(k.claim, k.target)
            told == Invalidation(k.wanted, now) IN
        /\ told = "" <=> ClaimSatisfies(k.wanted, now)
        /\ told # "" => Changes(k.snapshot, now, k.claim[2]) \cap {"reliance_changed", "applicability_changed"} # {}
=============================================================================
