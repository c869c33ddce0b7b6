---------------------------- MODULE MCKnowledge ----------------------------
(***************************************************************************)
(* Two claims.  The first is about a tree, and its second revision rests   *)
(* on the second claim; the second claim rests on the first one's first    *)
(* revision, contradicts it, or is of another scope.  A story is what the  *)
(* callers of a behaviour do with them.  Two further stories are about     *)
(* what is worked out from what the provider keeps: from two claim records *)
(* or one claim's support, and from a sealed log of up to fourteen lines.  *)
(* A story leaves the state of the others as it began.                     *)
(***************************************************************************)
EXTENDS Knowledge, Comparisons, Projections, TLC

VARIABLE story

Nothing == [n \in {} |-> ""]
Tree(expected) == [kind |-> "repository_tree", anchor |-> "r", expected |-> expected]

Content(scope, value, plane, conditions, deps) ==
    [about |-> "q", scope |-> scope, qualifiers |-> Nothing, anchors |-> Nothing, basis |-> "none",
     validity |-> <<>>, cardinality |-> "single", value |-> value, plane |-> plane,
     conditions |-> conditions, deps |-> deps]

MCDraft ==
    [first |-> Content("s", "v", "normative", {Tree("t1")}, {}),
     over |-> Content("s", "v", "normative", {}, {<<"c2", 1, "leaning">>}),
     leaning |-> Content("s", "v", "observed", {}, {<<"c1", 1, "first">>}),
     rival |-> Content("s", "w", "observed", {}, {}),
     elsewhere |-> Content("z", "w", "observed", {}, {<<"c2", 1, "rival">>, <<"far", 1, "first">>})]

MCWrites == [c1 |-> {"first", "over"}, c2 |-> {"leaning", "rival", "elsewhere"}]
MCMay == [propose |-> {"a"}, decide |-> {"a", "b"}, read |-> {"a", "b"}]
MCTarget == [here |-> [r |-> "t1"], there |-> [r |-> "t2"]]
MCRemote == {<<"far", 1, "first">>}

\* What is written, and what is done and how often, in each story.
Written ==
    [deciding |-> {"first", "over"}, disputing |-> {"first", "rival", "elsewhere"},
     applying |-> DOMAIN MCDraft, reading |-> {"first"}]
Often ==
    [deciding |-> [bind |-> MaxEpoch, decide |-> MaxDecisions, evaluate |-> 0, open |-> 0],
     disputing |-> [bind |-> MaxEpoch, decide |-> 0, evaluate |-> 0, open |-> MaxConflicts],
     applying |-> [bind |-> 0, decide |-> 0, evaluate |-> MaxEvaluations, open |-> 0],
     reading |-> [bind |-> 1, decide |-> MaxDecisions, evaluate |-> MaxEvaluations - 1, open |-> 0]]

Revises(c) == story = "reading" \/ (story = "applying" /\ c = "c2") => lineage[c] = <<>>
Binds(s) == Len(binding[s]) < Often[story].bind /\ (s = "s" \/ story = "disputing")

-----------------------------------------------------------------------------
(* What is compared and projected.                                         *)

Lines(classes, n) == UNION {[1 .. k -> classes] : k \in 0 .. n}

Others(n) == [i \in 1 .. n |-> "other"]

\* Logs that fit whole, and logs that do not: of every class of line before eleven
\* ordinary ones and around them, and with more failures than there are excerpts.
MCTexts ==
  {[text |-> TRUE, lines |-> l] : l \in Lines(Classes, 2)}
  \cup {[text |-> TRUE, lines |-> l \o Others(11)] : l \in Lines(Classes, 3)}
  \cup {[text |-> TRUE, lines |-> l \o Others(11) \o m] : l \in Lines(Classes, 1), m \in Lines(Classes, 2)}
  \cup {[text |-> TRUE, lines |-> l \o Others(9)] : l \in UNION {[1 .. n -> {"run", "failed"}] : n \in {4, 5}}}
  \cup {[text |-> FALSE, lines |-> Others(n)] : n \in {0, 1, 45}}

Partial(S, T) == UNION {[D -> T] : D \in SUBSET S}

StatedBases ==
  {[basis |-> "none", anchors |-> << >>]}
  \cup {[basis |-> b, anchors |-> a] : b \in {"partial", "complete"}, a \in Partial({"repo"}, {"t1", "t2"})}

Stated(q, b, v, c, plane) ==
  [about |-> "q", scope |-> "s", qualifiers |-> q, anchors |-> b.anchors, basis |-> b.basis,
   validity |-> v, cardinality |-> c, value |-> plane, plane |-> plane]

\* An observed record is compared with a normative one of another value.
MCContents ==
  {Stated(q, b, v, c, plane) :
     q \in Partial({"os"}, {"linux", "mac"}), b \in StatedBases, v \in {<< >>, <<0, 2>>, <<2, 4>>},
     c \in {"unknown", "single"}, plane \in {"observed", "normative"}}

MCRoots == {[ref |-> "r1", digest |-> "d1"], [ref |-> "r2", digest |-> "d1"], [ref |-> "r3", digest |-> "d2"]}

MCEntries ==
  {[completeness |-> "unknown", roots |-> {}]}
  \cup {[completeness |-> c, roots |-> r] : c \in {"partial", "complete"}, r \in SUBSET MCRoots \ {{}}}

MCSupports == UNION {[1 .. n -> MCEntries] : n \in 0 .. 3}

NoPair == pair = << >> /\ support = << >> /\ finding = ""
NoLog ==
    /\ log = [text |-> FALSE, lines |-> << >>] /\ may_ask = FALSE
    /\ plan = Unplanned /\ replies = << >> /\ outcome = Open

-----------------------------------------------------------------------------

MCInit ==
    /\ Init
    /\ \/ story \in DOMAIN Often /\ NoPair /\ NoLog
       \/ /\ story = "comparing" /\ NoLog /\ CompareInit
          /\ pair # << >> => pair[1].plane = "observed" /\ pair[2].plane = "normative"
       \/ story = "projecting" /\ NoPair /\ ProjectInit

Recording ==
    /\ story \in DOMAIN Often
    /\ \/ \E p \in Principal, c \in Claim, base \in Bases : \E d \in Writes[c] \cap Written[story] :
              Revises(c) /\ knowledge_claim(p, c, d, base)
       \/ \E p, a \in Principal, s \in Scope, epoch \in 0 .. MaxEpoch :
              Binds(s) /\ knowledge_authority(p, s, a, epoch)
       \/ /\ Len(decisions) < Often[story].decide
          /\ \E p \in Principal, ref \in Named, v \in Values, seen \in 0 .. MaxDecisions, epoch \in 0 .. MaxEpoch :
                 knowledge_decision(p, ref, v[1], v[2], seen, epoch)
       \/ /\ Len(conflicts) < Often[story].open
          /\ \E p \in Principal, a, b \in Named : knowledge_conflict_open(p, a, b)
       \/ \E p \in Principal, n \in DOMAIN conflicts, epoch \in 0 .. MaxEpoch : \E selected \in Named \cup {<<>>} :
              knowledge_conflict_resolve(p, n, selected, epoch)
       \/ /\ Len(evaluations) < Often[story].evaluate
          /\ \E p \in Principal, ref \in Named, t \in DOMAIN Target : knowledge_evaluate(p, ref, t)
       \/ \E ref \in Named, t \in DOMAIN Target, wanted \in Wanted : story = "reading" /\ Carry(ref, t, wanted)

MCNext ==
    /\ UNCHANGED story
    /\ \/ Recording /\ UNCHANGED <<comparing, projecting>>
       \/ story = "comparing" /\ CompareNext /\ UNCHANGED <<vars, projecting>>
       \/ story = "projecting" /\ ProjectNext /\ UNCHANGED <<vars, comparing>>

MCSpec == MCInit /\ [][MCNext]_<<vars, comparing, projecting, story>>

=============================================================================
