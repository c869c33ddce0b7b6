----------------------------- MODULE MCCommands -----------------------------
(***************************************************************************)
(* Small sets of requests for the command path.  The scenarios are the     *)
(* parts of one run: each behaviour stays in the scenario it begins in.    *)
(***************************************************************************)
EXTENDS Commands, TLC

VARIABLE scenario

Subject(id) == [kind |-> "core-test.subject", id |-> id]
A == Subject(<<"a">>)
AB == Subject(<<"a", "b">>)
C == Subject(<<"c">>)
G1 == GrantKey(<<"g1">>)
G2 == GrantKey(<<"g2">>)
G3 == GrantKey(<<"g3">>)
E1 == EffectKey(<<"e1">>)

MCKey == {A, AB, C, AuthorityKey, G1, G2, G3, E1}
MCAuthority == {"root"}

MCNewEffect == <<"e1">> :> [target |-> AB, status |-> "pending",
    obligations |-> "o1" :> [expects |-> "outcome", deadline |-> 2, state |-> "open"]
                 @@ "o2" :> [expects |-> "receipt", deadline |-> 1, state |-> "open"]]

\* Every request is a change of this one.
Sent(who, cid, change) ==
    change @@ [who |-> who, cid |-> cid, body |-> "1", digest |-> "right", op |-> "put",
               key |-> A, pre |-> A :> 0, epoch |-> 0, grant |-> NoParent]

Issue(key, holder, parent, rights, resource, expires, binding, depth) ==
    [op |-> "issue", key |-> key, pre |-> key :> 0,
     issue |-> [holder |-> holder, rights |-> rights, resources |-> {resource},
                expires |-> expires, binding |-> binding, allowed |-> TRUE,
                depth |-> depth, parent |-> parent, constraints |-> {}]]

Under(key, prefix) == Resource("core-test.subject", "prefix", prefix)
RW == {"core-test.read", "core-test.write"}
W == {"core-test.write"}

Retries ==
       "put" :> Sent("root", "1", [body |-> "1"])
    @@ "other" :> Sent("root", "1", [body |-> "2"])
    @@ "again" :> Sent("root", "2", [key |-> A, pre |-> A :> 1])
    @@ "claim" :> Sent("root", "3", [op |-> "claim", key |-> AuthorityKey, pre |-> AuthorityKey :> 0])
    @@ "wrong" :> Sent("root", "4", [digest |-> "wrong"])

Delegations ==
       "g1" :> Sent("root", "g1", Issue(G1, "p", NoParent, RW, Under(A, <<"a">>), 2, 0, 2))
    @@ "g2" :> Sent("p", "g2", Issue(G2, "q", G1.id, W, Under(A, <<"a", "b">>), 2, 0, 1))
    @@ "g3" :> Sent("q", "g3", Issue(G3, "p", G2.id, W, Resource("core-test.subject", "id", <<"a", "b">>), 2, 0, 0))
    @@ "wide" :> Sent("p", "wide", Issue(G2, "q", G1.id, RW, Under(A, <<"a">>), 2, Unbound, 1))
    @@ "r1" :> Sent("root", "r1", [op |-> "revoke", key |-> G1, pre |-> G1 :> 1])
    @@ "r2" :> Sent("p", "r2", [op |-> "revoke", key |-> G2, pre |-> G2 :> 1])
    @@ "take" :> Sent("root", "claim", [op |-> "claim", key |-> AuthorityKey, pre |-> AuthorityKey :> 0])
    @@ "under" :> Sent("q", "put", [key |-> AB, pre |-> AB :> 0, grant |-> G2.id])

Waits ==
       "allow" :> Sent("root", "g1", Issue(G1, "p", NoParent, RW \cup {"core.effects.abort_obligation"},
                              Under(A, <<"a">>), NoExpiry, Unbound, 0))
    @@ "stop" :> Sent("p", "a1", [op |-> "abort", key |-> E1, pre |-> E1 :> 1, grant |-> G1.id, obligation |-> "o1"])
    @@ "stop2" :> Sent("root", "a2", [op |-> "abort", key |-> E1, pre |-> E1 :> 2, obligation |-> "o1"])
    @@ "see" :> Sent("p", "", [op |-> "effects_get", key |-> E1, grant |-> G1.id])

\* Asked of every state, and never sent.
Probes ==
       "probe0" :> Sent("x", "p1", [op |-> "get"])
    @@ "probe1" :> Sent("x", "p2", [op |-> "get", grant |-> G1.id])
    @@ "probe2" :> Sent("q", "p3", [op |-> "get", key |-> C, grant |-> G2.id])
    @@ "probe3" :> Sent("q", "p4", [key |-> C, pre |-> C :> 0, grant |-> G2.id])
    @@ "probe4" :> Sent("q", "p5", [key |-> AB, pre |-> AB :> 0 @@ C :> 0, grant |-> G2.id])
    @@ "probe5" :> Sent("x", "p6", [op |-> "revoke", key |-> G1, pre |-> G1 :> 1])
    @@ "probe6" :> Sent("x", "p7", [op |-> "grant_get", key |-> G2])
    @@ "probe7" :> Sent("x", "p8", [op |-> "abort", key |-> E1, pre |-> E1 :> 1, grant |-> G1.id, obligation |-> "o1"])
    @@ "probe8" :> Sent("q", "p9", [op |-> "effects_get", key |-> E1, grant |-> G2.id])
    @@ "probeA" :> Sent("q", "pb", Issue(G1, "x", G2.id, W, Under(A, <<"a", "b">>), 2, 0, 0))
    @@ "probe9" :> Sent("x", "pa", Issue(G3, "x", G1.id, W, Under(A, <<"a">>), 2, 0, 0))

MCEnvelope == Retries @@ Delegations @@ Waits @@ Probes
MCRequest == DOMAIN MCEnvelope

Scenario ==
    [retries |-> DOMAIN Retries, delegations |-> DOMAIN Delegations, waits |-> DOMAIN Waits]

MCInit == Init /\ scenario \in DOMAIN Scenario

MCNext ==
    /\ \/ \E r \in Scenario[scenario] : Send(r)
       \/ Idle
       \/ scenario # "retries" /\ \E t \in Instant : SetClock(t)
       \/ scenario = "waits" /\ \E e \in DOMAIN NewEffect : Produce(e)
       \/ scenario = "waits" /\ \E e \in DOMAIN NewEffect, status \in {"succeeded", "unknown"} :
                                  ObserveEffect(e, status)
       \/ Start
    /\ UNCHANGED scenario

MCSpec == MCInit /\ [][MCNext]_<<vars, scenario>>
=============================================================================
