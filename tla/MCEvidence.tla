----------------------------- MODULE MCEvidence -----------------------------
(***************************************************************************)
(* Small instances of Evidence.  "shared": two artifacts with equal bytes, *)
(* holds and purges, and crashes.  "derived": an upload and a derivation   *)
(* with equal bytes.  "manifest": a manifest, its children, one of them a  *)
(* derivation, and a lister.  Each behaviour stays in the scenario it      *)
(* begins in.                                                              *)
(***************************************************************************)
EXTENDS Evidence

CONSTANT Scenarios   \* those a run begins in

VARIABLE scenario

MCArtifact == <<"a", "der", "f", "m">>
MCSize == [d \in Digest |-> IF d = "d" THEN 2 ELSE 1]
MCChildren ==
    [d \in Digest |->
        IF d # "list" THEN {}
        ELSE {[artifact |-> "a", digest |-> "d", required |-> TRUE, elsewhere |-> FALSE],
              [artifact |-> "f", digest |-> "e", required |-> TRUE, elsewhere |-> FALSE],
              [artifact |-> "der", digest |-> "e", required |-> TRUE, elsewhere |-> FALSE],
              [artifact |-> "x", digest |-> "e", required |-> FALSE, elsewhere |-> TRUE]}]
\* q may not read "a", and neither q nor r what the derivation was made from.
MCRights ==
    [p \in Principal |->
        IF p = "q" THEN {<<"evidence.hold", "a">>, <<"evidence.hold", "f">>, <<"evidence.purge", "f">>}
                        \cup ({"evidence.read"} \X {"der", "f", "m"})
        ELSE IF p = "r" THEN {"evidence.read"} \X {"a", "der", "f", "m"}
        ELSE {}]

\* A derivation made from a repository, with the bytes of an upload.
MCTickRow == {[artifact |-> "der", digest |-> "e", under |-> {<<"context.read", "app">>}]}

Times == {[timeout |-> NoTimeout, delay |-> 0, socket |-> FALSE, unavailable |-> {}],
          [timeout |-> NoTimeout, delay |-> 0, socket |-> FALSE, unavailable |-> {"f"}],
          [timeout |-> 1, delay |-> 1, socket |-> TRUE, unavailable |-> {}]}

\* Who prepares what in which scenario.
Sent == [shared   |-> {<<"a", "e">>, <<"f", "e">>},
         derived  |-> {<<"a", "e">>},
         manifest |-> {<<"a", "d">>, <<"f", "e">>, <<"m", "list">>}]

Read == scenario = "manifest"

Fits(c) == IF Read THEN c.delay = 0 ELSE c.unavailable = {}

MCInit == Init /\ scenario \in Scenarios /\ Fits(config)

Restart == \E c \in Config : Fits(c) /\ Start(c)

\* No job seals anything in "shared".
Passes == Tick /\ (scenario = "shared" => doing'.op \notin {"publish", "seal"})

Requested ==
    \/ \E x \in Sent[scenario] : Prepare("root", x[1], x[2])
    \/ \E a \in Ids, of \in Digest, at \in 0..2, len \in 0..MaxChunk :
           /\ art[a].state = "staged"
           /\ of # art[a].digest => scenario = "shared" /\ a = "a"
           /\ len > 0
           /\ AppendChunk("root", a, of, at, len)
    \/ \E a \in Ids : Seal("root", a)
    \/ \E a \in Ids : scenario = "shared" /\ Abandon("root", a)
    \/ \E who \in Principal, h \in Hold, a \in Ids, e \in {NoTimeout, 1} :
           ~Read /\ PlaceHold(who, h, a, e)
    \/ \E who \in Principal, h \in Hold : Release(who, h)
    \/ \E who \in Principal, a \in Ids, named \in SUBSET Hold :
           /\ now + config.delay <= MaxNow   \* bound: it falls due in time
           /\ Read => a \in {"f", "der"}
           /\ Purge(who, a, named)
    \/ Read /\ \E who \in {"q", "r"} : List(who)

Surroundings == RefuseSeal \/ Subscribe \/ Close \/ Advance \/ Crash \/ \E d \in Digest : Spoil(d)

MCNext ==
    /\ \/ Passes \/ Finish \/ Requested \/ Restart
       \/ ~Read /\ Surroundings
       \/ \E d \in Digest : Collect(d)
    /\ UNCHANGED scenario

\* A session that polls goes on polling, the rest of a request or of a start goes
\* on, time passes and a process that was killed is started again; nobody need
\* send anything, and then only the sessions that poll begin a pass.
MCFairness ==
    /\ WF_vars(Poll) /\ WF_vars(Finish) /\ WF_vars(~Read /\ Advance)
    /\ WF_vars(\E d \in Digest : Collect(d)) /\ WF_vars(Restart)

MCSpec == MCInit /\ [][MCNext]_<<vars, scenario>> /\ MCFairness
=============================================================================
