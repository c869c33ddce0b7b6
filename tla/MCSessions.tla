------------------------------ MODULE MCSessions ------------------------------
(***************************************************************************)
(* Two stories: the credentials of two principals, whose sessions only     *)
(* authenticate; and one session of the launch's own pipe, which           *)
(* negotiates and calls.  A step of a story keeps the other's state as it  *)
(* is.                                                                     *)
(***************************************************************************)
EXTENDS Sessions

VARIABLE story

MCServed ==
  [core |-> [major |-> 1, features |-> {"core.events", "core.grants"}, depends |-> << >>],
   evidence |-> [major |-> 1, features |-> {"evidence.manifests"},
                 depends |-> [core |-> {"core.events"}]],
   knowledge |-> [major |-> 1, features |-> {}, depends |-> [core |-> {"core.events"}]]]
  @@ ("core-test" :> [major |-> 1, features |-> {}, depends |-> [core |-> {}]])

MCUnsupported == {"coordination"}

Entry(name, required, major, needs, likes) ==
  [name |-> name, required |-> required, majors |-> {major}, needs |-> needs, likes |-> likes]

Entries ==
  {Entry("core", FALSE, 1, {}, likes) : likes \in SUBSET {"core.events", "core.grants"}}
  \cup {Entry("core", FALSE, 1, {"core.events"}, {}), Entry("core", FALSE, 2, {}, {})}
  \cup {Entry("evidence", r, 1, {}, {"evidence.manifests", "evidence.later"}) : r \in BOOLEAN}
  \cup {Entry("evidence", r, 1, {"evidence.later"}, {}) : r \in BOOLEAN}
  \cup {Entry("evidence", r, 2, {}, {}) : r \in BOOLEAN}
  \cup {Entry(n, r, 1, {}, {}) : n \in {"knowledge", "core-test", "coordination", "execution"}, r \in BOOLEAN}

MCRequests ==
  {<< >>} \cup {<<e>> : e \in Entries} \cup {<<e, f>> : e, f \in Entries}
  \cup {<<e, f, g>> : e \in {x \in Entries : x.name = "core"},
                      f \in {x \in Entries : x.name = "evidence"},
                      g \in {x \in Entries : x.name = "knowledge"}}

Op(method, profile, known, early, grant, requires) ==
  [method |-> method, profile |-> profile, known |-> known, early |-> early, grant |-> grant,
   requires |-> requires]

MCOperations ==
  {Op("core.describe", "core", TRUE, TRUE, FALSE, {}),
   Op("core.absent", "core", FALSE, FALSE, FALSE, {}),
   Op("core.events.read", "core", TRUE, FALSE, FALSE, {"core.events"}),
   Op("core.grant.issue", "core", TRUE, FALSE, TRUE, {}),
   Op("evidence.seal", "evidence", TRUE, FALSE, FALSE, {"vendor/extension"}),
   Op("evidence.fetch", "evidence", TRUE, FALSE, FALSE, {}),
   Op("core-test.subject.put", "core-test", TRUE, FALSE, FALSE, {})}

Named == {"core.describe", "core.absent", "core-test.subject.put"}

Credentialed ==
  /\ story = "credentials"
  /\ \/ \E i \in Issuer : Administer(i)
     \/ Start \/ Started
     \/ \E i \in Process : Crash(i)
     \/ \E s \in Session :
          /\ serving \in {"up", "piped"}
          /\ \/ Connect(s) \/ Disconnect(s)
             \/ \E c \in 0 .. issued : authenticate(s, c)
             \/ \E op \in Operations : op.method \in Named /\ Call(s, op)
          /\ UNCHANGED <<credentials, serving, crashes>>

Negotiating ==
  /\ story = "negotiation"
  /\ \/ Start
     \/ \E s \in Session :
          /\ serving = "piped"
          /\ \/ Connect(s)
             \/ \E c \in {0} : authenticate(s, c)
             \/ \E request \in Requests, limit \in 0 .. 1 : negotiate(s, request, limit)
             \/ \E op \in Operations : Call(s, op)
          /\ UNCHANGED <<credentials, serving, crashes>>

MCNext == (Credentialed \/ Negotiating) /\ UNCHANGED story
MCInit == Init /\ story \in {"credentials", "negotiation"}
MCSpec == MCInit /\ [][MCNext]_<<vars, story>>

=============================================================================
