--------------------------- MODULE SessionsProofs ---------------------------
(***************************************************************************)
(* Proofs about credentials, sessions and negotiation, for every set of    *)
(* principals, processes and sessions, every table of served profiles and  *)
(* every request.                                                          *)
(***************************************************************************)
EXTENDS Sessions, TLAPS

-----------------------------------------------------------------------------
(* What the proofs strengthen the properties with.                         *)

Step == [stage : {"idle", "staged", "renamed"}, principal : Principal, credential : 0 .. issued]
Row  == [credential : 1 .. issued, principal : Principal, revoked : BOOLEAN]

CredentialsTyped ==
  /\ issued \in 0 .. MaxCredentials
  /\ file \in [Principal -> 0 .. issued]
  /\ staged \in [Principal -> 0 .. issued]
  /\ handed \subseteq 1 .. issued
  /\ rows \subseteq Row
  /\ issuing \in [Process -> Step]
  /\ \A i \in Process : issuing[i].stage # "idle" => issuing[i].credential \in 1 .. issued

OneLive ==
  \A r, q \in rows : r.principal = q.principal /\ ~r.revoked /\ ~q.revoked => r = q

Replies ==
  {"", "done", "already_authenticated", "authentication_failed", "already_negotiated",
   "method_not_found", "authentication_required", "negotiation_required",
   "profile_not_negotiated", "invalid_envelope", "unsupported_required_feature"}
  \cup {Negotiation(request).answer : request \in Requests}

OpenSession ==
  [open : {TRUE}, shared : BOOLEAN, authenticated : BOOLEAN, principal : Principal,
   credential : 0 .. issued, negotiated : BOOLEAN, request : Requests \cup {<< >>},
   selected : {Negotiation(request).selected : request \in Requests} \cup {<< >>},
   unselected : {Negotiation(request).unselected : request \in Requests} \cup {{}},
   limit : 0 .. 1,
   asked : {"", "core.authenticate", "core.negotiate"} \cup {op.method : op \in Operations},
   answer : Replies]

SessionsTyped ==
  /\ serving \in {"down", "starting", "up", "piped"}
  /\ session \in [Session -> {Closed} \cup OpenSession]
  /\ \A s \in Session : session[s].open => serving \in {"up", "piped"}

(* The serving process issues while it is starting, and for its owner.     *)
StartIssues ==
  /\ (serving = "starting") <=> (issuing[Server].stage # "idle")
  /\ serving = "starting" => issuing[Server].principal = Owner

(* Nobody touches a principal's files between the steps of its issue.      *)
IssuesApart ==
  /\ \A i, k \in Process : i # k /\ issuing[i].stage # "idle" /\ issuing[k].stage # "idle"
                           => issuing[i].principal # issuing[k].principal
  /\ \A i \in Process :
       /\ issuing[i].stage = "staged" => staged[issuing[i].principal] = issuing[i].credential
       /\ issuing[i].stage = "renamed" => /\ file[issuing[i].principal] = issuing[i].credential
                                          /\ issuing[i].credential \in handed

(* A session's selection is the answer to the request it negotiated.       *)
SelectionAnswers ==
  \A s \in Session : session[s].open /\ session[s].negotiated =>
    LET n == Negotiation(session[s].request) IN
    /\ session[s].request \in Requests
    /\ n.answer = "done" /\ session[s].selected = n.selected /\ session[s].unselected = n.unselected

Learnt(me) ==
  \A op \in Operations :
    me.asked = op.method /\ op.known /\ op.method \notin BeforeAuthentication =>
      me.answer = "authentication_required"

TypedInv == CredentialsTyped /\ OneLive /\ SessionsTyped /\ StartIssues
HandedInv == TypedInv /\ IssuesApart /\ LiveWasHanded

-----------------------------------------------------------------------------
(* Negotiation, of any request against any table.                          *)

\* The items that stand against an entry are about its profile.
LEMMA UnmetNames ==
    ASSUME NEW e, NEW i \in Unmet(e)
    PROVE  i.profile = e.name
<1>1. \E f, reason : i = Item(e, f, reason)
  BY Zenon DEF Unmet
<1>2. PICK f, reason : i = [profile |-> e.name, feature |-> f, reason |-> reason]
  BY <1>1, Zenon DEF Item
<1> QED
  BY <1>2

\* An entry against which nothing stands is served with all it needs.
LEMMA NothingUnmet ==
    ASSUME NEW e, Unmet(e) = {}
    PROVE  e.name \in ServedProfiles /\ e.needs \subseteq Features(e.name)
<1>1. e.name \in ServedProfiles
  BY DEF Unmet
<1>2. Served[e.name].major \in e.majors
  BY <1>1 DEF Unmet
<1>3. {Item(e, f, "unknown_feature") : f \in e.needs \ Features(e.name)} = {}
  BY <1>1, <1>2 DEF Unmet
<1> QED
  BY <1>1, <1>3, Zenon

\* What is chosen of an entry includes what it needs, and is served.
LEMMA ChosenServed ==
    ASSUME NEW e, Unmet(e) = {}
    PROVE  e.needs \subseteq Chosen(e) /\ Chosen(e) \subseteq Features(e.name)
BY NothingUnmet DEF Chosen

\* What a profile misses is reported under its name, and a profile that
\* misses nothing has all it depends on chosen.
LEMMA DependencyItems ==
    ASSUME NEW n, NEW chosen
    PROVE  /\ \A i \in MissingDependencies(n, chosen) : i.profile = n
           /\ MissingDependencies(n, chosen) = {} =>
                \A d \in DOMAIN Served[n].depends :
                  d \in DOMAIN chosen /\ Served[n].depends[d] \subseteq chosen[d]
<1> DEFINE depends == Served[n].depends
           missing(d) == IF d \notin DOMAIN chosen THEN {""} ELSE depends[d] \ chosen[d]
           item(f) == [profile |-> n, feature |-> f, reason |-> "dependency_not_selected"]
           all == UNION {missing(d) : d \in DOMAIN depends}
<1>1. MissingDependencies(n, chosen) = {item(f) : f \in all}
  BY DEF MissingDependencies
<1>2. ASSUME NEW i \in MissingDependencies(n, chosen) PROVE i.profile = n
  <2>1. PICK f \in all : i = item(f)
    <3> HIDE DEF item, all
    <3> QED
      BY <1>1
  <2> QED
    BY <2>1
<1>3. ASSUME MissingDependencies(n, chosen) = {}, NEW d \in DOMAIN depends
      PROVE  d \in DOMAIN chosen /\ depends[d] \subseteq chosen[d]
  <2>1. all = {}
    <3> HIDE DEF item, all
    <3> QED
      BY <1>1, <1>3, Zenon
  <2>2. missing(d) = {}
    <3> HIDE DEF missing
    <3> QED
      BY <2>1, <1>3
  <2> QED
    BY <2>2
<1> QED
  BY <1>2, <1>3

\* What a granted negotiation returns.
NegotiationSound(request, selected, unselected) ==
  /\ "core" \in DOMAIN selected
  /\ \A n \in DOMAIN selected :
       /\ n \in ServedProfiles /\ selected[n] \subseteq Features(n)
       /\ \A d \in DOMAIN Served[n].depends :
            d \in DOMAIN selected /\ Served[n].depends[d] \subseteq selected[d]
  /\ \A e \in ToSet(request) :
       /\ Required(e) => e.name \in DOMAIN selected /\ e.needs \subseteq selected[e.name]
       /\ e.name \in DOMAIN selected \/ \E i \in unselected : i.profile = e.name

\* A negotiation that is granted selects everything required with what it
\* needs, reports everything it leaves out, and has every dependency of what
\* it selects in that same selection.
LEMMA GrantedNegotiation ==
    ASSUME NEW request
    PROVE  Negotiation(request).answer = "done" =>
             NegotiationSound(request, Negotiation(request).selected, Negotiation(request).unselected)
<1> DEFINE entries   == ToSet(request)
           named     == {e.name : e \in entries}
           refused   == UNION {Unmet(e) : e \in {x \in entries : Required(x)}}
           taken     == {e \in entries : Unmet(e) = {}}
           chosen    == [n \in {e.name : e \in taken} \cup {"core"} |->
                           UNION {Chosen(e) : e \in {x \in taken : x.name = n}}]
           missing   == [n \in DOMAIN chosen |-> MissingDependencies(n, chosen)]
           lacking   == {n \in DOMAIN chosen : missing[n] # {}}
           must      == {e.name : e \in {x \in taken : Required(x)}}
           left      == UNION {UNION {Unmet(e) : e \in entries \ taken},
                               UNION {{Item(e, f, "unknown_feature") : f \in e.likes \ Features(e.name)} :
                                        e \in taken},
                               UNION {missing[n] : n \in lacking}}
           answer(code) == [answer |-> code, selected |-> << >>, unselected |-> {}]
           selected  == [n \in DOMAIN chosen \ lacking |-> chosen[n]]
<1>1. Negotiation(request) =
        IF request = << >> \/ Cardinality(named) # Len(request) THEN answer("invalid_envelope")
        ELSE IF refused # {} THEN answer(RefusalCode(refused))
        ELSE IF lacking \cap must # {} THEN answer("unsupported_profile")
        ELSE [answer |-> "done", unselected |-> left,
              selected |-> [n \in DOMAIN chosen \ lacking |-> chosen[n]]]
  BY Zenon DEF Negotiation
<1> HIDE DEF left, lacking, must, refused, named
<1>2. RefusalCode(refused) # "done"
  BY DEF RefusalCode
<1>3. ASSUME Negotiation(request).answer = "done"
      PROVE  /\ refused = {} /\ lacking \cap must = {}
             /\ Negotiation(request).selected = selected /\ Negotiation(request).unselected = left
  <2> HIDE DEF chosen
  <2> QED
    BY <1>1, <1>2, <1>3
<1> SUFFICES ASSUME Negotiation(request).answer = "done"
             PROVE  NegotiationSound(request, Negotiation(request).selected,
                                     Negotiation(request).unselected)
  OBVIOUS
<1> HIDE DEF selected
<1>4. ASSUME NEW e \in entries, Required(e)
      PROVE  e \in taken /\ e.name \in must /\ e.name \notin lacking
  <2>1. Unmet(e) = {}
    <3>1. e \in {x \in entries : Required(x)}
      BY <1>4
    <3>2. Unmet(e) \subseteq refused
      <4> HIDE DEF entries
      <4> QED
        BY <3>1, Zenon DEF refused
    <3> QED
      BY <3>2, <1>3
  <2>2. e \in taken
    BY <2>1
  <2>3. e.name \in must
    <3> HIDE DEF taken
    <3> QED
      BY <2>2, <1>4, Zenon DEF must
  <2> QED
    BY <2>2, <2>3, <1>3
<1>5. ASSUME NEW e \in taken
      PROVE  /\ e.name \in DOMAIN chosen /\ e.name \in ServedProfiles
             /\ Chosen(e) \subseteq chosen[e.name] /\ e.needs \subseteq chosen[e.name]
  <2>1. e.name \in {x.name : x \in taken}
    BY Zenon
  <2>2. e.name \in DOMAIN chosen
    BY <2>1
  <2>3. chosen[e.name] = UNION {Chosen(f) : f \in {x \in taken : x.name = e.name}}
    BY <2>1
  <2>4. Chosen(e) \subseteq chosen[e.name]
    <3>1. e \in {x \in taken : x.name = e.name}
      OBVIOUS
    <3> HIDE DEF taken, chosen
    <3> QED
      BY <2>3, <3>1, Zenon
  <2> QED
    BY <2>2, <2>4, NothingUnmet, ChosenServed
<1>6. ASSUME NEW n \in DOMAIN chosen
      PROVE  n \in ServedProfiles /\ chosen[n] \subseteq Features(n)
  <2>1. n \in ServedProfiles
    <3>1. CASE n = "core"
      BY <3>1, ServedAssumption DEF ServedProfiles
    <3>2. CASE n # "core"
      <4>1. PICK e \in taken : e.name = n
        BY <3>2
      <4> QED
        BY <4>1, <1>5
    <3> QED
      BY <3>1, <3>2
  <2>2. ASSUME NEW f \in chosen[n] PROVE f \in Features(n)
    <3>1. chosen[n] = UNION {Chosen(e) : e \in {x \in taken : x.name = n}}
      OBVIOUS
    <3>2. PICK e \in {x \in taken : x.name = n} : f \in Chosen(e)
      <4> HIDE DEF taken, chosen
      <4> QED
        BY <3>1, <2>2, Zenon
    <3> QED
      BY <3>2, ChosenServed
  <2> QED
    BY <2>1, <2>2
<1>7. /\ DOMAIN selected = DOMAIN chosen \ lacking
      /\ \A n \in DOMAIN selected : selected[n] = chosen[n]
  BY DEF selected
<1>8. ASSUME NEW n \in DOMAIN chosen
      PROVE  n \in lacking <=> MissingDependencies(n, chosen) # {}
  BY DEF lacking
<1> HIDE DEF chosen, missing
<1>9. "core" \in DOMAIN selected
  <2>1. "core" \in DOMAIN chosen
    BY DEF chosen
  <2>2. MissingDependencies("core", chosen) = {}
    BY ServedAssumption DEF MissingDependencies
  <2> QED
    BY <2>1, <2>2, <1>7, <1>8
<1>10. ASSUME NEW n \in DOMAIN selected, NEW d \in DOMAIN Served[n].depends
       PROVE  d \in DOMAIN selected /\ Served[n].depends[d] \subseteq selected[d]
  <2>1. n \in DOMAIN chosen /\ MissingDependencies(n, chosen) = {}
    BY <1>7, <1>8
  <2>2. d \in DOMAIN chosen /\ Served[n].depends[d] \subseteq chosen[d]
    BY <2>1, DependencyItems
  <2>3. d = "core"
    BY <1>6, <2>1, ServedAssumption DEF ServedProfiles
  <2> QED
    BY <2>2, <2>3, <1>7, <1>9
<1>11. ASSUME NEW e \in entries
       PROVE  e.name \in DOMAIN selected \/ \E i \in left : i.profile = e.name
  <2>1. CASE e \notin taken
    <3>1. PICK i : i \in Unmet(e)
      BY <2>1
    <3>2. i \in left
      <4>1. e \in entries \ taken
        BY <2>1
      <4> HIDE DEF entries, taken
      <4> QED
        BY <3>1, <4>1, Zenon DEF left
    <3> QED
      BY <3>1, <3>2, UnmetNames
  <2>2. CASE e \in taken /\ e.name \in lacking
    <3>1. e.name \in DOMAIN chosen
      BY <2>2, <1>5
    <3>2. PICK i : i \in MissingDependencies(e.name, chosen)
      BY <3>1, <2>2, <1>8
    <3>3. i \in left
      <4>1. missing[e.name] = MissingDependencies(e.name, chosen)
        BY <3>1 DEF missing
      <4>2. e.name \in lacking /\ i \in missing[e.name]
        BY <2>2, <3>2, <4>1
      <4> HIDE DEF entries, taken
      <4>3. i \in UNION {missing[n] : n \in lacking}
        BY <4>2, Zenon
      <4> QED
        BY <4>3 DEF left
    <3> QED
      BY <3>2, <3>3, DependencyItems
  <2>3. CASE e \in taken /\ e.name \notin lacking
    BY <2>3, <1>5, <1>7
  <2> QED
    BY <2>1, <2>2, <2>3
<1>12. ASSUME NEW e \in entries, Required(e)
       PROVE  e.name \in DOMAIN selected /\ e.needs \subseteq selected[e.name]
  BY <1>4, <1>12, <1>5, <1>7
<1>13. ASSUME NEW n \in DOMAIN selected
       PROVE  n \in ServedProfiles /\ selected[n] \subseteq Features(n)
  BY <1>6, <1>7
<1> HIDE DEF taken
<1> QED
  BY <1>3, <1>9, <1>10, <1>11, <1>12, <1>13 DEF NegotiationSound

-----------------------------------------------------------------------------
(* The tables of credentials.                                              *)

\* Revocation keeps rows rows, and leaves the principal nothing live.
LEMMA RevocationRows ==
    ASSUME NEW p \in Principal, rows \subseteq Row, OneLive
    PROVE  /\ revoke_credentials(p) \subseteq Row
           /\ \A r \in revoke_credentials(p) : ~r.revoked => r \in rows /\ r.principal # p
<1> DEFINE mark(r) == IF r.principal = p THEN [r EXCEPT !.revoked = TRUE] ELSE r
<1>1. ASSUME NEW q \in revoke_credentials(p)
      PROVE  q \in Row /\ (~q.revoked => q \in rows /\ q.principal # p)
  <2>1. PICK r \in rows : q = mark(r)
    BY <1>1 DEF revoke_credentials
  <2>2. r \in Row
    OBVIOUS
  <2> QED
    BY <2>1, <2>2 DEF Row
<1> QED
  BY <1>1

\* Rotation leaves the principal the new credential, and nothing else live.
LEMMA RotationRows ==
    ASSUME NEW p \in Principal, NEW c \in 1 .. issued, rows \subseteq Row, OneLive
    PROVE  /\ rotate_credential(p, c) \subseteq Row
           /\ \A r \in rotate_credential(p, c) :
                ~r.revoked => \/ r \in rows /\ r.principal # p
                              \/ r = [credential |-> c, principal |-> p, revoked |-> FALSE]
           /\ [credential |-> c, principal |-> p, revoked |-> FALSE] \in rotate_credential(p, c)
<1>1. [credential |-> c, principal |-> p, revoked |-> FALSE] \in Row
  BY DEF Row
<1> QED
  BY <1>1, RevocationRows DEF rotate_credential

\* Issuing keeps the tables typed, with one live row for a principal.
LEMMA StageTyped ==
    ASSUME CredentialsTyped, OneLive, NEW i \in Process, NEW p \in Principal, Stage(i, p)
    PROVE  CredentialsTyped' /\ OneLive'
<1>1. issued \in Nat /\ issued' = issued + 1 /\ issued' \in 0 .. MaxCredentials
  BY CredentialAssumption DEF CredentialsTyped, Stage
<1>2. 0 .. issued \subseteq 0 .. issued' /\ 1 .. issued \subseteq 1 .. issued'
  BY <1>1
<1>3. issued + 1 \in 0 .. issued' /\ issued + 1 \in 1 .. issued'
  BY <1>1
<1>4. file' \in [Principal -> 0 .. issued'] /\ handed' \subseteq 1 .. issued'
  BY <1>2 DEF CredentialsTyped, Stage
<1>5. staged' \in [Principal -> 0 .. issued']
  BY <1>2, <1>3 DEF CredentialsTyped, Stage
<1>6. rows' \subseteq Row'
  BY <1>2 DEF CredentialsTyped, Stage, Row
<1>7. issuing \in [Process -> Step']
  BY <1>2 DEF CredentialsTyped, Step
<1>8. [stage |-> "staged", principal |-> p, credential |-> issued + 1] \in Step'
  BY <1>3 DEF Step
<1>9. issuing' \in [Process -> Step']
  BY <1>7, <1>8 DEF Stage
<1>10. \A k \in Process : issuing'[k].stage # "idle" => issuing'[k].credential \in 1 .. issued'
  BY <1>2, <1>3, <1>7 DEF CredentialsTyped, Stage
<1> QED
  BY <1>1, <1>4, <1>5, <1>6, <1>9, <1>10 DEF CredentialsTyped, OneLive, Stage

\* Renaming the staging file over the handoff file keeps the tables typed.
LEMMA RenameTyped ==
    ASSUME CredentialsTyped, OneLive, NEW i \in Process, Rename(i)
    PROVE  CredentialsTyped' /\ OneLive'
<1> DEFINE p == issuing[i].principal
<1>1. p \in Principal /\ issuing[i] \in Step /\ staged[p] \in 0 .. issued
  BY DEF CredentialsTyped, Step
<1>2. issued' = issued /\ rows' = rows /\ Step' = Step /\ Row' = Row
  BY DEF Rename, Step, Row
<1>3. CASE staged[p] = 0
  <2>1. issuing' = [issuing EXCEPT ![i] = Idle] /\ UNCHANGED <<file, handed, staged>>
    BY <1>3 DEF Rename
  <2>2. Idle \in Step
    BY ProcessAssumption, CredentialAssumption DEF Idle, Step, CredentialsTyped
  <2>3. issuing' \in [Process -> Step]
    BY <2>1, <2>2 DEF CredentialsTyped
  <2>4. \A k \in Process : issuing'[k].stage # "idle" => issuing'[k].credential \in 1 .. issued
    BY <2>1 DEF CredentialsTyped, Idle
  <2> QED
    BY <1>2, <2>1, <2>3, <2>4 DEF CredentialsTyped, OneLive
<1>4. CASE staged[p] # 0
  <2>1. /\ file' = [file EXCEPT ![p] = staged[p]] /\ handed' = handed \cup {staged[p]}
        /\ staged' = [staged EXCEPT ![p] = 0]
        /\ issuing' = [issuing EXCEPT ![i].stage = "renamed"]
    BY <1>4 DEF Rename
  <2>2. staged[p] \in 1 .. issued /\ 0 \in 0 .. issued
    BY <1>1, <1>4, CredentialAssumption DEF CredentialsTyped
  <2>3. file' \in [Principal -> 0 .. issued] /\ staged' \in [Principal -> 0 .. issued]
    BY <1>1, <2>1, <2>2 DEF CredentialsTyped
  <2>4. handed' \subseteq 1 .. issued
    BY <2>1, <2>2 DEF CredentialsTyped
  <2>5. issuing' \in [Process -> Step]
    BY <2>1 DEF CredentialsTyped, Step
  <2>6. \A k \in Process : issuing'[k].stage # "idle" => issuing'[k].credential \in 1 .. issued
    BY <2>1 DEF CredentialsTyped, Step, Rename
  <2> QED
    BY <1>2, <2>3, <2>4, <2>5, <2>6 DEF CredentialsTyped, OneLive
<1> QED
  BY <1>3, <1>4

\* Recording the digest keeps the tables typed, with one live row for a principal.
LEMMA RotateTyped ==
    ASSUME CredentialsTyped, OneLive, NEW i \in Process, Rotate(i)
    PROVE  CredentialsTyped' /\ OneLive'
<1> DEFINE p == issuing[i].principal
           c == issuing[i].credential
<1>1. p \in Principal /\ c \in 1 .. issued
  BY DEF CredentialsTyped, Step, Rotate, Written
<1>2. issued' = issued /\ rows' = rotate_credential(p, c) /\ Step' = Step /\ Row' = Row
  BY DEF Rotate, Step, Row
<1>3. rows' \subseteq Row
  BY <1>1, <1>2, RotationRows DEF CredentialsTyped
<1>4. OneLive'
  <2> SUFFICES ASSUME NEW r \in rows', NEW q \in rows', r.principal = q.principal,
                      ~r.revoked, ~q.revoked
               PROVE  r = q
    BY DEF OneLive
  <2> DEFINE new == [credential |-> c, principal |-> p, revoked |-> FALSE]
  <2>1. /\ (r \in rows /\ r.principal # p) \/ r = new
        /\ (q \in rows /\ q.principal # p) \/ q = new
    BY <1>1, <1>2, RotationRows DEF CredentialsTyped
  <2>2. new.principal = p
    OBVIOUS
  <2>3. CASE r = new \/ q = new
    <3> HIDE DEF new
    <3> QED
      BY <2>1, <2>2, <2>3
  <2>4. CASE r \in rows /\ q \in rows
    BY <2>4 DEF OneLive
  <2> QED
    BY <2>1, <2>3, <2>4
<1>5. Idle \in Step
  BY ProcessAssumption, CredentialAssumption DEF Idle, Step, CredentialsTyped
<1>6. issuing' \in [Process -> Step]
  BY <1>5 DEF CredentialsTyped, Rotate
<1>7. \A k \in Process : issuing'[k].stage # "idle" => issuing'[k].credential \in 1 .. issued
  BY DEF CredentialsTyped, Idle, Rotate
<1> QED
  BY <1>2, <1>3, <1>4, <1>6, <1>7 DEF CredentialsTyped, Rotate

\* Revoking on demand keeps the tables typed, with one live row for a principal.
LEMMA RevokeTyped ==
    ASSUME CredentialsTyped, OneLive, NEW p \in Principal, rows' = revoke_credentials(p),
           UNCHANGED <<file, staged, handed, issuing, issued>>
    PROVE  CredentialsTyped' /\ OneLive'
<1>1. rows' \subseteq Row /\ Row' = Row /\ Step' = Step
  BY RevocationRows DEF CredentialsTyped, Row, Step
<1>2. OneLive'
  BY RevocationRows DEF CredentialsTyped, OneLive
<1> QED
  BY <1>1, <1>2 DEF CredentialsTyped

-----------------------------------------------------------------------------
(* Sessions.                                                               *)

\* A gate answers one of the protocol's codes.
LEMMA GateReplies ==
    ASSUME NEW me, NEW op
    PROVE  Gate(me, op) \in Replies
BY Zenon DEF Gate, Replies

\* What a session that connects is.
LEMMA ConnectedTyped ==
    ASSUME NEW shared \in BOOLEAN, issued \in Nat
    PROVE  Connected(shared) \in OpenSession /\ ~Connected(shared).negotiated
           /\ Connected(shared).credential = 0
<1> DEFINE asks == {Negotiation(q).selected : q \in Requests} \cup {<< >>}
           leaves == {Negotiation(q).unselected : q \in Requests} \cup {{}}
           methods == {"", "core.authenticate", "core.negotiate"} \cup {op.method : op \in Operations}
           requests == Requests \cup {<< >>}
<1>1. /\ 0 \in 0 .. issued /\ 0 \in 0 .. 1 /\ "" \in Replies /\ Owner \in Principal
      /\ << >> \in asks /\ {} \in leaves /\ "" \in methods /\ << >> \in requests
  BY ProcessAssumption DEF Replies
<1>2. (~shared) \in BOOLEAN
  OBVIOUS
<1> DEFINE empty == << >>
           nothing == {}
           authenticated == ~shared
<1>3. Connected(shared) =
        [open |-> TRUE, shared |-> shared, authenticated |-> authenticated,
         principal |-> Owner, credential |-> 0, negotiated |-> FALSE, request |-> empty,
         selected |-> empty, unselected |-> nothing, limit |-> 0, asked |-> "", answer |-> ""]
  BY Zenon DEF Connected
<1>4. OpenSession =
        [open : {TRUE}, shared : BOOLEAN, authenticated : BOOLEAN, principal : Principal,
         credential : 0 .. issued, negotiated : BOOLEAN, request : requests,
         selected : asks, unselected : leaves, limit : 0 .. 1, asked : methods, answer : Replies]
  BY Zenon DEF OpenSession
<1>5. empty \in asks /\ nothing \in leaves /\ empty \in requests /\ authenticated \in BOOLEAN
  BY <1>1, <1>2
<1> HIDE DEF asks, leaves, methods, requests, empty, nothing, authenticated
<1>6. FALSE \in BOOLEAN /\ TRUE \in {TRUE}
  OBVIOUS
<1>7. [open |-> TRUE, shared |-> shared, authenticated |-> authenticated,
       principal |-> Owner, credential |-> 0, negotiated |-> FALSE, request |-> empty,
       selected |-> empty, unselected |-> nothing, limit |-> 0, asked |-> "", answer |-> ""]
      \in [open : {TRUE}, shared : BOOLEAN, authenticated : BOOLEAN, principal : Principal,
           credential : 0 .. issued, negotiated : BOOLEAN, request : requests,
           selected : asks, unselected : leaves, limit : 0 .. 1, asked : methods, answer : Replies]
  BY <1>1, <1>5, <1>6, Zenon
<1>8. Connected(shared).negotiated = FALSE /\ Connected(shared).credential = 0
  BY DEF Connected
<1> QED
  BY <1>3, <1>4, <1>7, <1>8, Zenon

\* A credential opens the session as its own principal, live in the table.
LEMMA AuthenticateTyped ==
    ASSUME CredentialsTyped, NEW s \in Session, session[s] \in OpenSession,
           session \in [Session -> {Closed} \cup OpenSession],
           NEW c \in 0 .. issued, authenticate(s, c)
    PROVE  /\ session'[s] \in OpenSession
           /\ session' = [session EXCEPT ![s] = session'[s]]
           /\ session'[s].credential # session[s].credential =>
                LiveFor(session'[s].credential, session'[s].principal)
           /\ session'[s].request = session[s].request
           /\ session'[s].negotiated = session[s].negotiated
           /\ session'[s].selected = session[s].selected
           /\ session'[s].unselected = session[s].unselected
           /\ session'[s].asked = "core.authenticate"
<1> DEFINE me == session[s]
           r  == CHOOSE r \in Matched(c) : TRUE
<1>1. "already_authenticated" \in Replies /\ "authentication_failed" \in Replies /\ "done" \in Replies
  BY DEF Replies
<1>2. CASE me.authenticated
  <2>1. session' = [session EXCEPT ![s] = [me EXCEPT !.asked = "core.authenticate", !.answer = "already_authenticated"]]
    BY <1>2 DEF authenticate
  <2> QED
    BY <1>1, <2>1 DEF OpenSession
<1>3. CASE ~me.authenticated /\ Matched(c) = {}
  <2>1. session' = [session EXCEPT ![s] = [me EXCEPT !.asked = "core.authenticate", !.answer = "authentication_failed"]]
    BY <1>3 DEF authenticate
  <2> QED
    BY <1>1, <2>1 DEF OpenSession
<1>4. CASE ~me.authenticated /\ Matched(c) # {}
  <2>1. r \in Matched(c)
    BY <1>4
  <2>2. r \in rows /\ r.credential = c /\ ~r.revoked /\ r.principal \in Principal
    BY <2>1 DEF Matched, CredentialsTyped, Row
  <2>3. session' = [session EXCEPT ![s] = [me EXCEPT !.authenticated = TRUE, !.credential = c,
                      !.principal = r.principal, !.asked = "core.authenticate", !.answer = "done"]]
    BY <1>4 DEF authenticate
  <2>4. LiveFor(c, r.principal)
    BY <2>2 DEF LiveFor
  <2> HIDE DEF r
  <2> QED
    BY <1>1, <2>2, <2>3, <2>4 DEF OpenSession
<1> QED
  BY <1>2, <1>3, <1>4

\* A negotiation keeps who the session is, and selects what it answers.
LEMMA NegotiateTyped ==
    ASSUME NEW s \in Session, session[s] \in OpenSession,
           session \in [Session -> {Closed} \cup OpenSession],
           NEW request \in Requests, NEW limit \in 0 .. 1, negotiate(s, request, limit)
    PROVE  /\ session'[s] \in OpenSession
           /\ session' = [session EXCEPT ![s] = session'[s]]
           /\ session'[s].authenticated /\ session[s].authenticated
           /\ session'[s].credential = session[s].credential
           /\ session'[s].negotiated =>
                \/ /\ session[s].negotiated /\ session'[s].request = session[s].request
                   /\ session'[s].selected = session[s].selected
                   /\ session'[s].unselected = session[s].unselected
                \/ /\ Negotiation(request).answer = "done"
                   /\ session'[s].request = request
                   /\ session'[s].selected = Negotiation(request).selected
                   /\ session'[s].unselected = Negotiation(request).unselected
<1> DEFINE me == session[s]
           n  == Negotiation(request)
<1> HIDE DEF n
<1>1. "already_negotiated" \in Replies /\ n.answer \in Replies /\ me.authenticated
  BY DEF Replies, n, negotiate
<1>2. CASE me.negotiated
  <2>1. session' = [session EXCEPT ![s] = [me EXCEPT !.asked = "core.negotiate", !.answer = "already_negotiated"]]
    BY <1>2 DEF negotiate, n
  <2> QED
    BY <1>1, <1>2, <2>1 DEF OpenSession
<1>3. CASE ~me.negotiated
  <2> DEFINE held == IF limit = 0 THEN me.limit ELSE limit
             kept == IF n.answer = "done" THEN request ELSE << >>
             done == n.answer = "done"
  <2>1. session' = [session EXCEPT ![s] = [me EXCEPT !.asked = "core.negotiate", !.answer = n.answer,
                      !.negotiated = done, !.limit = held, !.request = kept,
                      !.selected = n.selected, !.unselected = n.unselected]]
    BY <1>3 DEF negotiate, n
  <2>2. held \in 0 .. 1 /\ kept \in Requests \cup {<< >>} /\ done \in BOOLEAN
    BY DEF OpenSession
  <2>3. /\ n.selected \in {Negotiation(q).selected : q \in Requests}
        /\ n.unselected \in {Negotiation(q).unselected : q \in Requests}
    BY DEF n
  <2>4. done => kept = request
    OBVIOUS
  <2>5. done <=> n.answer = "done"
    OBVIOUS
  <2> HIDE DEF held, kept, done
  <2>6. /\ session'[s] \in OpenSession
        /\ session'[s].negotiated = done /\ session'[s].request = kept
        /\ session'[s].selected = n.selected /\ session'[s].unselected = n.unselected
        /\ session'[s].authenticated = me.authenticated
        /\ session'[s].credential = me.credential
        /\ session' = [session EXCEPT ![s] = session'[s]]
    BY <1>1, <2>1, <2>2, <2>3 DEF OpenSession
  <2> QED
    BY <1>1, <1>3, <2>4, <2>5, <2>6 DEF n
<1> QED
  BY <1>2, <1>3

\* A call changes only what was asked last and its answer.
LEMMA CallTyped ==
    ASSUME NEW s \in Session, session[s] \in OpenSession,
           session \in [Session -> {Closed} \cup OpenSession],
           NEW op \in Operations, Call(s, op)
    PROVE  /\ session'[s] \in OpenSession
           /\ session' = [session EXCEPT ![s] = session'[s]]
           /\ session'[s].authenticated = session[s].authenticated
           /\ session'[s].credential = session[s].credential
           /\ session'[s].negotiated = session[s].negotiated
           /\ session'[s].request = session[s].request
           /\ session'[s].selected = session[s].selected
           /\ session'[s].unselected = session[s].unselected
           /\ session'[s].asked = op.method
           /\ session'[s].answer = Gate(session[s], op)
<1> DEFINE answer == Gate(session[s], op)
<1>1. answer \in Replies
  BY GateReplies
<1>2. session' = [session EXCEPT ![s].asked = op.method, ![s].answer = answer]
  BY DEF Call
<1>3. op.method \in {o.method : o \in Operations}
  OBVIOUS
<1> HIDE DEF answer
<1>4. /\ session'[s] \in OpenSession
      /\ session' = [session EXCEPT ![s] = session'[s]]
      /\ session'[s].authenticated = session[s].authenticated
      /\ session'[s].credential = session[s].credential
      /\ session'[s].negotiated = session[s].negotiated
      /\ session'[s].request = session[s].request
      /\ session'[s].selected = session[s].selected
      /\ session'[s].unselected = session[s].unselected
      /\ session'[s].asked = op.method
      /\ session'[s].answer = answer
  BY <1>1, <1>2, <1>3 DEF OpenSession
<1> QED
  BY <1>4 DEF answer

-----------------------------------------------------------------------------
(* The typed state, whatever the processes do.                             *)

\* Sessions and the state of the server stay typed while credentials grow.
LEMMA KeptSessions ==
    ASSUME issued \in Nat, issued' \in Nat, issued <= issued', SessionsTyped, UNCHANGED session,
           serving' \in {"down", "starting", "up", "piped"},
           serving \in {"up", "piped"} => serving' \in {"up", "piped"}
    PROVE  SessionsTyped'
<1>1. 0 .. issued \subseteq 0 .. issued'
  OBVIOUS
<1>2. OpenSession \subseteq OpenSession'
  BY <1>1 DEF OpenSession
<1> QED
  BY <1>2 DEF SessionsTyped

\* The tables stay typed in every step, and credentials only grow.
LEMMA CredentialSteps ==
    ASSUME CredentialsTyped, OneLive, [Next]_vars
    PROVE  CredentialsTyped' /\ OneLive' /\ issued \in Nat /\ issued' \in Nat /\ issued <= issued'
<1>1. issued \in Nat
  BY CredentialAssumption DEF CredentialsTyped
<1>2. ASSUME UNCHANGED credentials
      PROVE  CredentialsTyped' /\ OneLive' /\ issued' = issued
  BY <1>2 DEF credentials, CredentialsTyped, OneLive, Step, Row
<1>3. ASSUME NEW i \in Process, NEW p \in Principal, Stage(i, p)
      PROVE  CredentialsTyped' /\ OneLive' /\ issued' = issued + 1
  BY <1>3, StageTyped DEF Stage
<1>4. ASSUME NEW i \in Process, Rename(i)
      PROVE  CredentialsTyped' /\ OneLive' /\ issued' = issued
  BY <1>4, RenameTyped DEF Rename
<1>5. ASSUME NEW i \in Process, Rotate(i)
      PROVE  CredentialsTyped' /\ OneLive' /\ issued' = issued
  BY <1>5, RotateTyped DEF Rotate
<1>6. ASSUME NEW i \in Issuer, Administer(i)
      PROVE  CredentialsTyped' /\ OneLive' /\ issued' \in {issued, issued + 1}
  <2>1. i \in Process
    BY DEF Process
  <2> QED
    BY <1>6, <2>1, <1>3, <1>4, <1>5, RevokeTyped DEF Administer
<1>7. Server \in Process /\ Owner \in Principal
  BY ProcessAssumption DEF Process
<1>8. ASSUME Start
      PROVE  CredentialsTyped' /\ OneLive' /\ issued' \in {issued, issued + 1}
  BY <1>8, <1>2, <1>3, <1>7 DEF Start
<1>9. ASSUME Started
      PROVE  CredentialsTyped' /\ OneLive' /\ issued' \in {issued, issued + 1}
  BY <1>9, <1>4, <1>5, <1>7 DEF Started
<1>10. ASSUME NEW i \in Process, Crash(i)
       PROVE  CredentialsTyped' /\ OneLive' /\ issued' = issued
  <2>1. Idle \in Step /\ Step' = Step /\ Row' = Row
    BY <1>10, <1>1, ProcessAssumption DEF Idle, Step, Row, Crash
  <2>2. issuing' \in [Process -> Step]
    BY <1>10, <2>1 DEF Crash, CredentialsTyped
  <2>3. \A k \in Process : issuing'[k].stage # "idle" => issuing'[k].credential \in 1 .. issued
    BY <1>10 DEF Crash, CredentialsTyped, Idle
  <2> QED
    BY <1>10, <2>1, <2>2, <2>3 DEF Crash, CredentialsTyped, OneLive
<1>11. ASSUME NEW s \in Session, Serve(s)
       PROVE  CredentialsTyped' /\ OneLive' /\ issued' = issued
  BY <1>11, <1>2 DEF Serve
<1>12. ASSUME UNCHANGED vars
       PROVE  CredentialsTyped' /\ OneLive' /\ issued' = issued
  BY <1>12, <1>2 DEF vars
<1>13. CredentialsTyped' /\ OneLive' /\ issued' \in {issued, issued + 1}
  BY <1>6, <1>8, <1>9, <1>10, <1>11, <1>12 DEF Next
<1> QED
  BY <1>1, <1>13

\* What a step of the serving process or of a crash does to its own issue.
LEMMA StartSteps ==
    ASSUME CredentialsTyped, StartIssues, serving \in {"down", "starting", "up", "piped"}, [Next]_vars
    PROVE  /\ StartIssues' /\ serving' \in {"down", "starting", "up", "piped"}
           /\ UNCHANGED session \/ serving \in {"up", "piped"} \/ session' = [s \in Session |-> Closed]
<1>1. Server \in Process
  BY DEF Process
<1>2. ASSUME NEW i \in Issuer, Administer(i)
      PROVE  issuing'[Server] = issuing[Server] /\ UNCHANGED <<serving, session>>
  <2>1. i # Server /\ i \in Process
    BY ProcessAssumption DEF Process
  <2>2. CASE \E p \in Principal : Stage(i, p)
    BY <1>1, <1>2, <2>1, <2>2 DEF Administer, Stage, CredentialsTyped
  <2>3. CASE Rename(i)
    BY <1>1, <1>2, <2>1, <2>3 DEF Administer, Rename, CredentialsTyped
  <2>4. CASE Rotate(i)
    BY <1>1, <1>2, <2>1, <2>4 DEF Administer, Rotate, CredentialsTyped
  <2>5. CASE UNCHANGED issuing
    BY <1>2, <2>5 DEF Administer
  <2> QED
    BY <1>2, <2>2, <2>3, <2>4, <2>5 DEF Administer
<1>3. CASE \E i \in Issuer : Administer(i)
  BY <1>2, <1>3 DEF StartIssues
<1>4. CASE Start
  <2>1. CASE serving' \in {"piped", "up"} /\ UNCHANGED credentials
    BY <1>4, <2>1 DEF Start, StartIssues, credentials
  <2>2. CASE serving' = "starting" /\ Stage(Server, Owner)
    BY <1>1, <1>4, <2>2 DEF Start, StartIssues, Stage, CredentialsTyped
  <2> QED
    BY <1>4, <2>1, <2>2 DEF Start
<1>5. CASE Started
  <2>1. CASE Rename(Server) /\ serving' = IF staged[Owner] = 0 THEN "down" ELSE "starting"
    <3>1. issuing[Server].principal = Owner /\ issuing[Server] \in Step
      BY <1>1, <1>5 DEF Started, StartIssues, CredentialsTyped
    <3>2. CASE staged[Owner] = 0
      BY <1>1, <1>5, <2>1, <3>1, <3>2 DEF Started, StartIssues, Rename, Idle, CredentialsTyped
    <3>3. CASE staged[Owner] # 0
      <4>1. issuing' = [issuing EXCEPT ![Server].stage = "renamed"] /\ serving' = "starting"
        BY <2>1, <3>1, <3>3 DEF Rename
      <4>2. issuing'[Server].stage = "renamed" /\ issuing'[Server].principal = Owner
        BY <1>1, <3>1, <4>1 DEF CredentialsTyped, Step
      <4> QED
        BY <1>5, <4>1, <4>2 DEF Started, StartIssues
    <3> QED
      BY <3>2, <3>3
  <2>2. CASE Rotate(Server) /\ serving' = "up"
    BY <1>1, <1>5, <2>2 DEF Started, StartIssues, Rotate, Idle, CredentialsTyped
  <2> QED
    BY <1>5, <2>1, <2>2 DEF Started
<1>6. ASSUME NEW i \in Process, Crash(i)
      PROVE  /\ StartIssues' /\ serving' \in {"down", "starting", "up", "piped"}
             /\ UNCHANGED session \/ serving \in {"up", "piped"} \/ session' = [s \in Session |-> Closed]
  <2>1. CASE i = Server
    BY <1>1, <1>6, <2>1 DEF Crash, StartIssues, Idle, CredentialsTyped
  <2>2. CASE i # Server
    BY <1>1, <1>6, <2>2 DEF Crash, StartIssues, Idle, CredentialsTyped
  <2> QED
    BY <2>1, <2>2
<1>7. CASE \E s \in Session : Serve(s)
  BY <1>7 DEF Serve, StartIssues, credentials
<1>8. CASE UNCHANGED vars
  BY <1>8 DEF vars, StartIssues, credentials
<1> QED
  BY <1>3, <1>4, <1>5, <1>6, <1>7, <1>8 DEF Next

\* What a session's own step makes of it, and of the others.
LEMMA ServeTyped ==
    ASSUME CredentialsTyped, SessionsTyped, NEW s \in Session, Serve(s)
    PROVE  /\ session'[s] \in {Closed} \cup OpenSession
           /\ session' = [session EXCEPT ![s] = session'[s]]
<1>1. session \in [Session -> {Closed} \cup OpenSession] /\ Closed.open = FALSE /\ issued \in Nat
  BY CredentialAssumption DEF SessionsTyped, Closed, CredentialsTyped
<1>2. CASE Connect(s)
  <2>1. (serving = "up") \in BOOLEAN
    OBVIOUS
  <2>2. Connected(serving = "up") \in OpenSession
    BY <1>1, <2>1, ConnectedTyped
  <2> QED
    BY <1>1, <1>2, <2>2 DEF Connect
<1>3. CASE Disconnect(s)
  BY <1>1, <1>3 DEF Disconnect
<1>4. CASE \E c \in 0 .. issued : authenticate(s, c)
  <2>1. session[s] \in OpenSession
    BY <1>1, <1>4 DEF authenticate
  <2> QED
    BY <1>1, <1>4, <2>1, AuthenticateTyped
<1>5. CASE \E request \in Requests, limit \in 0 .. 1 : negotiate(s, request, limit)
  <2>1. session[s] \in OpenSession
    BY <1>1, <1>5 DEF negotiate
  <2> QED
    BY <1>1, <1>5, <2>1, NegotiateTyped
<1>6. CASE \E op \in Operations : Call(s, op)
  <2>1. session[s] \in OpenSession
    BY <1>1, <1>6 DEF Call
  <2> QED
    BY <1>1, <1>6, <2>1, CallTyped
<1> QED
  BY <1>2, <1>3, <1>4, <1>5, <1>6 DEF Serve

\* The typed invariant holds at first.
LEMMA TypedInit == Init => TypedInv
<1> SUFFICES ASSUME Init PROVE TypedInv
  OBVIOUS
<1>1. issued = 0 /\ 0 \in 0 .. MaxCredentials /\ 0 \in 0 .. issued
  BY CredentialAssumption DEF Init
<1>2. Idle \in Step /\ Idle.stage = "idle"
  BY <1>1, ProcessAssumption DEF Idle, Step
<1>3. CredentialsTyped
  BY <1>1, <1>2 DEF Init, CredentialsTyped
<1>4. SessionsTyped
  BY DEF Init, SessionsTyped, Closed
<1>5. OneLive
  BY DEF Init, OneLive
<1>6. StartIssues
  BY <1>2 DEF Init, StartIssues, Process
<1> QED
  BY <1>3, <1>4, <1>5, <1>6 DEF TypedInv

\* The typed invariant is kept by every step.
LEMMA TypedStep == TypedInv /\ [Next]_vars => TypedInv'
<1> SUFFICES ASSUME TypedInv, [Next]_vars PROVE TypedInv'
  OBVIOUS
<1>1. CredentialsTyped /\ OneLive /\ SessionsTyped /\ StartIssues
  BY DEF TypedInv
<1>2. CredentialsTyped' /\ OneLive' /\ issued \in Nat /\ issued' \in Nat /\ issued <= issued'
  BY <1>1, CredentialSteps
<1>3. /\ StartIssues' /\ serving' \in {"down", "starting", "up", "piped"}
      /\ UNCHANGED session \/ serving \in {"up", "piped"} \/ session' = [s \in Session |-> Closed]
  BY <1>1, StartSteps DEF SessionsTyped
<1>4. CASE session' = [s \in Session |-> Closed]
  BY <1>2, <1>3, <1>4 DEF TypedInv, SessionsTyped, Closed
<1>5. CASE \E s \in Session : Serve(s)
  <2>1. PICK s \in Session : Serve(s)
    BY <1>5
  <2>2. /\ session'[s] \in {Closed} \cup OpenSession
        /\ session' = [session EXCEPT ![s] = session'[s]]
    BY <1>1, <2>1, ServeTyped
  <2>3. UNCHANGED <<serving, issued>> /\ OpenSession' = OpenSession /\ serving \in {"up", "piped"}
    BY <2>1 DEF Serve, OpenSession, credentials
  <2>4. session' \in [Session -> {Closed} \cup OpenSession]
    BY <1>1, <2>2 DEF SessionsTyped
  <2> QED
    BY <1>1, <1>2, <1>3, <2>3, <2>4 DEF TypedInv, SessionsTyped
<1>6. CASE UNCHANGED session /\ (serving \in {"up", "piped"} => serving' \in {"up", "piped"})
  BY <1>1, <1>2, <1>3, <1>6, KeptSessions DEF TypedInv
<1>7. \/ session' = [s \in Session |-> Closed] \/ \E s \in Session : Serve(s)
      \/ UNCHANGED session /\ (serving \in {"up", "piped"} => serving' \in {"up", "piped"})
  <2>1. CASE \E i \in Issuer : Administer(i)
    BY <2>1 DEF Administer
  <2>2. CASE Start \/ Started
    BY <2>2 DEF Start, Started
  <2>3. CASE \E i \in Process : Crash(i)
    BY <2>3 DEF Crash
  <2>4. CASE UNCHANGED vars
    BY <2>4 DEF vars
  <2> QED
    BY <2>1, <2>2, <2>3, <2>4 DEF Next
<1> QED
  BY <1>2, <1>3, <1>4, <1>5, <1>6, <1>7 DEF TypedInv

\* The tables are always what their types say, and of a principal's
\* credentials one is live at most: rotate_credential "leaves exactly one
\* live credential, and never zero or two".
THEOREM TypeCorrect == Spec => []TypeOK
<1>1. TypedInv => TypeOK
  <2> SUFFICES ASSUME TypedInv PROVE TypeOK
    OBVIOUS
  <2>1. \A r \in rows : r.credential \in 1 .. issued /\ r.principal \in Principal
    BY DEF TypedInv, CredentialsTyped, Row
  <2> QED
    BY <2>1 DEF TypedInv, CredentialsTyped, OneLive, SessionsTyped, TypeOK
<1> QED
  BY TypedInit, TypedStep, <1>1, PTL DEF Spec

-----------------------------------------------------------------------------
(* What is live was handed over, when nobody else issues for a principal   *)
(* between the steps of an issue.                                          *)

\* An issue that begins finds the principal's files its own.
LEMMA StageApart ==
    ASSUME Alone, CredentialsTyped, IssuesApart, LiveWasHanded,
           NEW i \in Process, NEW p \in Principal, Stage(i, p)
    PROVE  IssuesApart' /\ LiveWasHanded'
<1>1. issuing' = [issuing EXCEPT ![i] = [stage |-> "staged", principal |-> p, credential |-> issued + 1]]
  BY DEF Stage
<1>2. /\ issuing'[i].stage = "staged" /\ issuing'[i].principal = p /\ issuing'[i].credential = issued + 1
      /\ \A k \in Process : k # i => issuing'[k] = issuing[k]
  BY <1>1 DEF CredentialsTyped
<1>3. \A k \in Process : k # i => issuing[k].stage = "idle" \/ issuing[k].principal # p
  BY DEF Stage, MayIssue
<1>4. /\ staged'[p] = issued + 1 /\ \A q \in Principal : q # p => staged'[q] = staged[q]
      /\ file' = file /\ handed' = handed /\ rows' = rows
  BY DEF Stage, CredentialsTyped
<1>5. \A k \in Process : issuing[k].principal \in Principal
  BY DEF CredentialsTyped, Step
<1> HIDE DEF IssuesApart
<1>6. \A k, j \in Process : k # j /\ issuing'[k].stage # "idle" /\ issuing'[j].stage # "idle"
                            => issuing'[k].principal # issuing'[j].principal
  BY <1>2, <1>3 DEF IssuesApart
<1>7. \A k \in Process :
        /\ issuing'[k].stage = "staged" => staged'[issuing'[k].principal] = issuing'[k].credential
        /\ issuing'[k].stage = "renamed" => /\ file'[issuing'[k].principal] = issuing'[k].credential
                                            /\ issuing'[k].credential \in handed'
  BY <1>2, <1>3, <1>4, <1>5 DEF IssuesApart
<1> QED
  BY <1>4, <1>6, <1>7 DEF IssuesApart, LiveWasHanded

\* The staging file renamed is the issuer's own: its credential is handed over.
LEMMA RenameApart ==
    ASSUME CredentialsTyped, IssuesApart, LiveWasHanded, NEW i \in Process, Rename(i)
    PROVE  IssuesApart' /\ LiveWasHanded'
<1> DEFINE p == issuing[i].principal
           c == issuing[i].credential
<1>1. p \in Principal /\ issuing[i].stage = "staged" /\ staged[p] = c /\ c # 0
  BY DEF CredentialsTyped, Step, Rename, IssuesApart
<1>2. /\ file' = [file EXCEPT ![p] = c] /\ handed' = handed \cup {c}
      /\ staged' = [staged EXCEPT ![p] = 0] /\ rows' = rows
      /\ issuing' = [issuing EXCEPT ![i].stage = "renamed"]
  BY <1>1 DEF Rename
<1>3. /\ issuing'[i].stage = "renamed" /\ issuing'[i].principal = p /\ issuing'[i].credential = c
      /\ \A k \in Process : k # i => issuing'[k] = issuing[k]
  BY <1>2 DEF CredentialsTyped, Step
<1>4. \A k \in Process : k # i => issuing[k].stage = "idle" \/ issuing[k].principal # p
  BY <1>1 DEF IssuesApart
<1>5. /\ file'[p] = c
      /\ \A q \in Principal : q # p => file'[q] = file[q] /\ staged'[q] = staged[q]
  BY <1>1, <1>2 DEF CredentialsTyped
<1>6. \A k \in Process : issuing[k].principal \in Principal
  BY DEF CredentialsTyped, Step
<1> HIDE DEF p, c
<1>7. \A k, j \in Process : k # j /\ issuing'[k].stage # "idle" /\ issuing'[j].stage # "idle"
                            => issuing'[k].principal # issuing'[j].principal
  BY <1>3, <1>4 DEF IssuesApart
<1>8. \A k \in Process :
        /\ issuing'[k].stage = "staged" => staged'[issuing'[k].principal] = issuing'[k].credential
        /\ issuing'[k].stage = "renamed" => /\ file'[issuing'[k].principal] = issuing'[k].credential
                                            /\ issuing'[k].credential \in handed'
  <2> SUFFICES ASSUME NEW k \in Process
               PROVE  /\ issuing'[k].stage = "staged" => staged'[issuing'[k].principal] = issuing'[k].credential
                      /\ issuing'[k].stage = "renamed" => /\ file'[issuing'[k].principal] = issuing'[k].credential
                                                          /\ issuing'[k].credential \in handed'
    OBVIOUS
  <2>1. CASE k = i
    BY <1>2, <1>3, <1>5, <2>1
  <2>2. CASE k # i
    BY <1>2, <1>3, <1>4, <1>5, <1>6, <2>2 DEF IssuesApart
  <2> QED
    BY <2>1, <2>2
<1>9. LiveWasHanded'
  BY <1>2 DEF LiveWasHanded
<1> QED
  BY <1>7, <1>8, <1>9 DEF IssuesApart

\* Fewer issues under way, the files as they were.
LEMMA IdleApart ==
    ASSUME CredentialsTyped, IssuesApart, NEW i \in Process, issuing' = [issuing EXCEPT ![i] = Idle],
           UNCHANGED <<file, staged, handed>>
    PROVE  IssuesApart'
<1>1. issuing'[i].stage = "idle" /\ \A k \in Process : k # i => issuing'[k] = issuing[k]
  BY DEF CredentialsTyped, Idle
<1> QED
  BY <1>1 DEF IssuesApart

\* The credential whose digest is recorded was handed over.
LEMMA RotateApart ==
    ASSUME CredentialsTyped, OneLive, IssuesApart, LiveWasHanded, NEW i \in Process, Rotate(i)
    PROVE  /\ IssuesApart' /\ LiveWasHanded'
           /\ \E r \in rows' : /\ r.credential = issuing[i].credential
                               /\ r.principal = issuing[i].principal /\ ~r.revoked
           /\ file'[issuing[i].principal] = issuing[i].credential
<1> DEFINE p == issuing[i].principal
           c == issuing[i].credential
           new == [credential |-> c, principal |-> p, revoked |-> FALSE]
<1>1. /\ p \in Principal /\ c \in 1 .. issued /\ c \in handed /\ file[p] = c
      /\ rows' = rotate_credential(p, c) /\ handed' = handed /\ file' = file
  BY DEF CredentialsTyped, Step, Rotate, Written, IssuesApart
<1>2. IssuesApart'
  BY IdleApart DEF Rotate
<1>3. /\ \A r \in rows' : ~r.revoked => r \in rows \/ r = new
      /\ new \in rows'
  BY <1>1, RotationRows DEF CredentialsTyped
<1>4. LiveWasHanded'
  BY <1>1, <1>3 DEF LiveWasHanded
<1>5. \E r \in rows' : r.credential = c /\ r.principal = p /\ ~r.revoked
  BY <1>3
<1> QED
  BY <1>1, <1>2, <1>4, <1>5

\* No step leaves a live credential nobody was handed.
LEMMA HandedStep == Alone /\ HandedInv /\ [Next]_vars => HandedInv'
<1> SUFFICES ASSUME Alone, HandedInv, [Next]_vars PROVE HandedInv'
  OBVIOUS
<1>1. CredentialsTyped /\ OneLive /\ IssuesApart /\ LiveWasHanded /\ TypedInv'
  BY TypedStep DEF HandedInv, TypedInv
<1>2. Server \in Process /\ Owner \in Principal /\ \A i \in Issuer : i \in Process
  BY ProcessAssumption DEF Process
<1>3. ASSUME UNCHANGED credentials PROVE IssuesApart' /\ LiveWasHanded'
  BY <1>1, <1>3 DEF credentials, IssuesApart, LiveWasHanded
<1>4. ASSUME NEW i \in Issuer, Administer(i) PROVE IssuesApart' /\ LiveWasHanded'
  <2>1. ASSUME NEW p \in Principal, rows' = revoke_credentials(p),
               UNCHANGED <<file, staged, handed, issuing, issued>>
        PROVE  IssuesApart' /\ LiveWasHanded'
    <3>1. LiveWasHanded'
      BY <1>1, <2>1, RevocationRows DEF LiveWasHanded, CredentialsTyped
    <3> QED
      BY <1>1, <2>1, <3>1 DEF IssuesApart
  <2> QED
    BY <1>1, <1>2, <1>4, <2>1, StageApart, RenameApart, RotateApart DEF Administer
<1>5. ASSUME Start PROVE IssuesApart' /\ LiveWasHanded'
  BY <1>1, <1>2, <1>3, <1>5, StageApart DEF Start
<1>6. ASSUME Started PROVE IssuesApart' /\ LiveWasHanded'
  BY <1>1, <1>2, <1>6, RenameApart, RotateApart DEF Started
<1>7. ASSUME NEW i \in Process, Crash(i) PROVE IssuesApart' /\ LiveWasHanded'
  BY <1>1, <1>7, IdleApart DEF Crash, LiveWasHanded
<1>8. ASSUME NEW s \in Session, Serve(s) PROVE IssuesApart' /\ LiveWasHanded'
  BY <1>3, <1>8 DEF Serve
<1>9. ASSUME UNCHANGED vars PROVE IssuesApart' /\ LiveWasHanded'
  BY <1>3, <1>9 DEF vars
<1>10. IssuesApart' /\ LiveWasHanded'
  BY <1>4, <1>5, <1>6, <1>7, <1>8, <1>9 DEF Next
<1> QED
  BY <1>1, <1>10 DEF HandedInv

\* Nothing is handed over or live at first.
LEMMA HandedInit == Init => HandedInv
<1> SUFFICES ASSUME Init PROVE HandedInv
  OBVIOUS
<1>1. \A i \in Process : issuing[i].stage = "idle"
  BY DEF Init, Idle
<1> QED
  BY <1>1, TypedInit DEF Init, HandedInv, IssuesApart, LiveWasHanded

\* issue: "never a working credential nobody holds".  When no two processes
\* issue for one principal at once, what the store accepts has been in its
\* principal's handoff file, and one credential of a principal is live at
\* most, wherever an issue was cut short.
THEOREM LiveIsHanded == Alone => (Spec => []CredentialsSound)
<1>1. TypedInv => TypeOK
  <2> SUFFICES ASSUME TypedInv PROVE TypeOK
    OBVIOUS
  <2>1. \A r \in rows : r.credential \in 1 .. issued /\ r.principal \in Principal
    BY DEF TypedInv, CredentialsTyped, Row
  <2> QED
    BY <2>1 DEF TypedInv, CredentialsTyped, OneLive, SessionsTyped, TypeOK
<1>2. HandedInv => CredentialsSound
  BY <1>1 DEF HandedInv, CredentialsSound
<1> SUFFICES ASSUME Alone PROVE Spec => []CredentialsSound
  OBVIOUS
<1>3. HandedInv /\ [Next]_vars => HandedInv'
  BY HandedStep
<1> QED
  BY HandedInit, <1>2, <1>3, PTL DEF Spec

-----------------------------------------------------------------------------
(* What starts and what authenticates works.                               *)

\* A session that opens by a credential opens by one that is live.
LEMMA OpensByLive ==
    ASSUME TypedInv, [Next]_vars, NEW s \in Session, session'[s].open, session'[s].credential # 0,
           session[s].open => session[s].credential = 0
    PROVE  LiveFor(session'[s].credential, session'[s].principal) /\ rows' = rows
<1>1. /\ session \in [Session -> {Closed} \cup OpenSession] /\ Closed.open = FALSE
      /\ CredentialsTyped /\ SessionsTyped /\ issued \in Nat
  BY CredentialAssumption DEF TypedInv, SessionsTyped, Closed, CredentialsTyped
<1>2. session'[s] # session[s]
  OBVIOUS
<1>3. PICK t \in Session : Serve(t)
  <2>1. CASE \E i \in Issuer : Administer(i)
    BY <1>2, <2>1 DEF Administer
  <2>2. CASE Start \/ Started
    BY <1>2, <2>2 DEF Start, Started
  <2>3. CASE \E i \in Process : Crash(i)
    BY <1>1, <1>2, <2>3 DEF Crash
  <2>4. CASE UNCHANGED vars
    BY <1>2, <2>4 DEF vars
  <2> QED
    BY <2>1, <2>2, <2>3, <2>4 DEF Next
<1>4. t = s /\ rows' = rows
  <2>1. session' = [session EXCEPT ![t] = session'[t]]
    BY <1>1, <1>3, ServeTyped
  <2> QED
    BY <1>1, <1>2, <1>3, <2>1 DEF Serve, credentials
<1>5. CASE Connect(s)
  <2>1. (serving = "up") \in BOOLEAN
    OBVIOUS
  <2>2. session'[s] = Connected(serving = "up")
    BY <1>1, <1>5 DEF Connect
  <2> QED
    BY <1>1, <2>1, <2>2, ConnectedTyped
<1>6. CASE Disconnect(s)
  BY <1>1, <1>6 DEF Disconnect
<1>7. CASE \E c \in 0 .. issued : authenticate(s, c)
  <2>1. session[s] \in OpenSession
    BY <1>1, <1>7 DEF authenticate
  <2>2. session[s].open
    BY <1>7 DEF authenticate
  <2> QED
    BY <1>1, <1>4, <1>7, <2>1, <2>2, AuthenticateTyped
<1>8. CASE \E request \in Requests, limit \in 0 .. 1 : negotiate(s, request, limit)
  <2>1. session[s] \in OpenSession /\ session[s].open
    BY <1>1, <1>8 DEF negotiate
  <2> QED
    BY <1>1, <1>8, <2>1, NegotiateTyped
<1>9. CASE \E op \in Operations : Call(s, op)
  <2>1. session[s] \in OpenSession /\ session[s].open
    BY <1>1, <1>9 DEF Call
  <2> QED
    BY <1>1, <1>9, <2>1, CallTyped
<1> QED
  BY <1>3, <1>4, <1>5, <1>6, <1>7, <1>8, <1>9 DEF Serve

\* A start that ends on a socket leaves the owner a handoff file that works.
LEMMA StartRecovers ==
    ASSUME HandedInv, [Next]_vars, serving # "up", serving' = "up", ~Conformance
    PROVE  LiveFor(file[Owner], Owner)'
<1>1. CredentialsTyped /\ OneLive /\ IssuesApart /\ LiveWasHanded /\ StartIssues /\ Server \in Process
  BY DEF HandedInv, TypedInv, Process
<1>2. CASE Start
  BY <1>2 DEF Start, FileWorks, LiveFor, credentials
<1>3. CASE Started
  <2>1. Rotate(Server) /\ issuing[Server].principal = Owner
    BY <1>1, <1>3 DEF Started, StartIssues
  <2>2. /\ file'[Owner] = issuing[Server].credential
        /\ \E r \in rows' : r.credential = issuing[Server].credential /\ r.principal = Owner /\ ~r.revoked
    BY <1>1, <2>1, RotateApart
  <2> QED
    BY <2>2 DEF LiveFor
<1>4. Start \/ Started
  BY DEF Next, vars, Administer, Crash, Serve
<1> QED
  BY <1>2, <1>3, <1>4

\* ensure, authenticate: a start on a socket leaves the owner a handoff file
\* that works, and a session is only ever opened by a credential that is live
\* then, for its own principal.
THEOREM StartsAndSessionsWork == Alone => (Spec => WorksWhileLive)
<1> SUFFICES ASSUME Alone PROVE Spec => WorksWhileLive
  OBVIOUS
<1>1. HandedInv /\ [Next]_vars => HandedInv'
  BY HandedStep
<1>2. HandedInv /\ [Next]_vars =>
        [/\ serving # "up" /\ serving' = "up" /\ ~Conformance => LiveFor(file[Owner], Owner)'
         /\ \A s \in Session :
              session'[s].open /\ session'[s].credential # 0
              /\ (session[s].open => session[s].credential = 0)
              => LiveFor(session'[s].credential, session'[s].principal)]_vars
  <2> SUFFICES ASSUME HandedInv, [Next]_vars
               PROVE  /\ serving # "up" /\ serving' = "up" /\ ~Conformance => LiveFor(file[Owner], Owner)'
                      /\ \A s \in Session :
                           session'[s].open /\ session'[s].credential # 0
                           /\ (session[s].open => session[s].credential = 0)
                           => LiveFor(session'[s].credential, session'[s].principal)
    OBVIOUS
  <2>1. TypedInv
    BY DEF HandedInv
  <2> QED
    BY <2>1, StartRecovers, OpensByLive
<1> QED
  BY HandedInit, <1>1, <1>2, PTL DEF Spec, WorksWhileLive

-----------------------------------------------------------------------------
(* What a session is told.                                                 *)

AnswersInv == TypedInv /\ SelectionAnswers /\ LearnsNothing

\* A session that has not authenticated is refused what the protocol knows.
LEMMA GateBeforeAuthentication ==
    ASSUME NEW me, NEW op, ~me.authenticated, op.known, op.method \notin BeforeAuthentication
    PROVE  Gate(me, op) = "authentication_required"
BY DEF Gate

\* One session's own step keeps its answers sound.
LEMMA ServeAnswers ==
    ASSUME AnswersInv, NEW s \in Session, Serve(s), session'[s].open
    PROVE  /\ session'[s].negotiated =>
                LET n == Negotiation(session'[s].request) IN
                /\ session'[s].request \in Requests /\ n.answer = "done"
                /\ session'[s].selected = n.selected /\ session'[s].unselected = n.unselected
           /\ ~session'[s].authenticated =>
                \A op \in Operations :
                  session'[s].asked = op.method /\ op.known /\ op.method \notin BeforeAuthentication =>
                    session'[s].answer = "authentication_required"
<1>1. /\ session \in [Session -> {Closed} \cup OpenSession] /\ Closed.open = FALSE
      /\ CredentialsTyped /\ SessionsTyped /\ issued \in Nat
  BY CredentialAssumption DEF AnswersInv, TypedInv, SessionsTyped, Closed, CredentialsTyped
<1> DEFINE Sound(me) == me.negotiated =>
             /\ me.request \in Requests /\ Negotiation(me.request).answer = "done"
             /\ me.selected = Negotiation(me.request).selected
             /\ me.unselected = Negotiation(me.request).unselected
           Silent(me) == ~me.authenticated =>
             \A op \in Operations :
               me.asked = op.method /\ op.known /\ op.method \notin BeforeAuthentication =>
                 me.answer = "authentication_required"
<1> SUFFICES Sound(session'[s]) /\ Silent(session'[s])
  OBVIOUS
<1>2. session[s].open => Sound(session[s]) /\ Silent(session[s])
  BY DEF AnswersInv, SelectionAnswers, LearnsNothing
<1>3. CASE Connect(s)
  <2>1. session'[s] = Connected(serving = "up")
    BY <1>1, <1>3 DEF Connect
  <2>2. Connected(serving = "up").negotiated = FALSE /\ Connected(serving = "up").asked = ""
    BY DEF Connected
  <2> QED
    BY <2>1, <2>2, OperationsAssumption
<1>4. CASE Disconnect(s)
  BY <1>1, <1>4 DEF Disconnect
<1>5. CASE \E c \in 0 .. issued : authenticate(s, c)
  <2>1. session[s] \in OpenSession /\ session[s].open
    BY <1>1, <1>5 DEF authenticate
  <2>2. /\ session'[s].request = session[s].request
        /\ session'[s].negotiated = session[s].negotiated
        /\ session'[s].selected = session[s].selected
        /\ session'[s].unselected = session[s].unselected
        /\ session'[s].asked = "core.authenticate"
    BY <1>1, <1>5, <2>1, AuthenticateTyped
  <2> QED
    BY <1>2, <2>1, <2>2 DEF BeforeAuthentication
<1>6. CASE \E request \in Requests, limit \in 0 .. 1 : negotiate(s, request, limit)
  <2>1. session[s] \in OpenSession /\ session[s].open
    BY <1>1, <1>6 DEF negotiate
  <2>2. PICK request \in Requests, limit \in 0 .. 1 : negotiate(s, request, limit)
    BY <1>6
  <2>3. /\ session'[s].authenticated
        /\ session'[s].negotiated =>
             \/ /\ session[s].negotiated /\ session'[s].request = session[s].request
                /\ session'[s].selected = session[s].selected
                /\ session'[s].unselected = session[s].unselected
             \/ /\ Negotiation(request).answer = "done"
                /\ session'[s].request = request
                /\ session'[s].selected = Negotiation(request).selected
                /\ session'[s].unselected = Negotiation(request).unselected
    BY <1>1, <2>1, <2>2, NegotiateTyped
  <2> QED
    BY <1>2, <2>1, <2>3
<1>7. CASE \E op \in Operations : Call(s, op)
  <2>1. session[s] \in OpenSession /\ session[s].open
    BY <1>1, <1>7 DEF Call
  <2>2. PICK op \in Operations : Call(s, op)
    BY <1>7
  <2>3. /\ session'[s].authenticated = session[s].authenticated
        /\ session'[s].negotiated = session[s].negotiated
        /\ session'[s].request = session[s].request
        /\ session'[s].selected = session[s].selected
        /\ session'[s].unselected = session[s].unselected
        /\ session'[s].asked = op.method
        /\ session'[s].answer = Gate(session[s], op)
    BY <1>1, <2>1, <2>2, CallTyped
  <2>4. Silent(session'[s])
    <3> SUFFICES ASSUME ~session[s].authenticated, NEW o \in Operations, op.method = o.method,
                        o.known, o.method \notin BeforeAuthentication
                 PROVE  Gate(session[s], op) = "authentication_required"
      BY <2>3
    <3>1. op.known
      BY OperationsAssumption
    <3> QED
      BY <3>1, GateBeforeAuthentication
  <2> QED
    BY <1>2, <2>1, <2>3, <2>4
<1> QED
  BY <1>3, <1>4, <1>5, <1>6, <1>7 DEF Serve

\* Every step keeps the answers sound.
LEMMA AnswersStep == AnswersInv /\ [Next]_vars => AnswersInv'
<1> SUFFICES ASSUME AnswersInv, [Next]_vars PROVE AnswersInv'
  OBVIOUS
<1>1. TypedInv /\ TypedInv' /\ SelectionAnswers /\ LearnsNothing
  BY TypedStep DEF AnswersInv
<1>2. CASE UNCHANGED session
  BY <1>1, <1>2 DEF AnswersInv, SelectionAnswers, LearnsNothing
<1>3. CASE session' = [s \in Session |-> Closed]
  BY <1>1, <1>3 DEF AnswersInv, SelectionAnswers, LearnsNothing, Closed
<1>4. CASE \E s \in Session : Serve(s)
  <2>1. PICK s \in Session : Serve(s)
    BY <1>4
  <2>2. session' = [session EXCEPT ![s] = session'[s]] /\ session \in [Session -> {Closed} \cup OpenSession]
    BY <1>1, <2>1, ServeTyped DEF TypedInv, SessionsTyped
  <2>3. \A t \in Session : t # s => session'[t] = session[t]
    BY <2>2
  <2>4. SelectionAnswers'
    BY <1>1, <2>1, <2>3, ServeAnswers DEF SelectionAnswers
  <2>5. LearnsNothing'
    BY <1>1, <2>1, <2>3, ServeAnswers DEF LearnsNothing
  <2> QED
    BY <1>1, <2>4, <2>5 DEF AnswersInv
<1>5. UNCHANGED session \/ session' = [s \in Session |-> Closed] \/ \E s \in Session : Serve(s)
  BY DEF Next, vars, Administer, Start, Started, Crash
<1> QED
  BY <1>2, <1>3, <1>4, <1>5

\* negotiate, handle: whatever was asked of it, a session selected everything
\* it required with what that needs and depends on, left nothing out without
\* a report, and told nothing of itself before it had authenticated.
THEOREM AnswersAreSound == Spec => []AnswersSound
<1>1. Init => AnswersInv
  <2> SUFFICES ASSUME Init PROVE AnswersInv
    OBVIOUS
  <2> QED
    BY TypedInit DEF Init, AnswersInv, SelectionAnswers, LearnsNothing, Closed
<1>2. AnswersInv => AnswersSound
  <2> SUFFICES ASSUME AnswersInv PROVE AnswersSound
    OBVIOUS
  <2>1. ASSUME NEW s \in Session, session[s].open, session[s].negotiated
        PROVE  NegotiationSound(session[s].request, session[s].selected, session[s].unselected)
    BY <2>1, GrantedNegotiation DEF AnswersInv, SelectionAnswers
  <2>2. SelectionSound
    BY <2>1, Zenon DEF SelectionSound, NegotiationSound
  <2> QED
    BY <2>2 DEF AnswersInv, AnswersSound
<1> QED
  BY <1>1, <1>2, AnswersStep, PTL DEF Spec

=============================================================================
