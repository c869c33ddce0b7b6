------------------------------- MODULE Sessions -------------------------------
(***************************************************************************)
(* Who may open a session and what it may call: the credentials the store  *)
(* keeps the digests of and the handoff files that hold them               *)
(* (credentials.rs, Store::rotate_credential), authentication, negotiation *)
(* and the gates every request passes before its envelope is read          *)
(* (Provider::authenticate, negotiate, handle).                            *)
(*                                                                         *)
(* A credential is a number, handed out in order: equal numbers stand for  *)
(* equal digests.  An issuer is a process that issues one credential: an   *)
(* administrator's, or the serving process itself at its start.            *)
(***************************************************************************)
EXTENDS Integers, Sequences, FiniteSets, SequencesExt

CONSTANTS Principal, Owner,   \* the principals, and the one the server runs as
          Issuer, Server,     \* the administrators' processes, and the serving one
          Session, Requests,  \* what callers may ask to negotiate
          Operations,         \* the operations they call
          Served, Unsupported,\* SERVED, by profile, and UNSUPPORTED
          Conformance,        \* whether this is a conformance launch
          Alone,              \* whether no two processes issue for one principal at once
          MaxCredentials, MaxCrashes

VARIABLES rows,     \* the credentials table: [credential, principal, revoked]
          file,     \* principal -> the credential in its handoff file, 0 for none
          staged,   \* principal -> the credential in its staging file, 0 for none
          handed,   \* every credential that was ever in a handoff file
          issuing,  \* process -> how far its issue is
          issued,   \* credentials generated so far
          serving,  \* "down", "starting", "up" on a socket, or "piped"
          session,  \* session -> its authentication, selection and last answer
          crashes
credentials == <<rows, file, staged, handed, issuing, issued>>
vars == <<credentials, serving, session, crashes>>

ASSUME ProcessAssumption == Owner \in Principal /\ Server \notin Issuer
ASSUME CredentialAssumption == MaxCredentials \in Nat

(* The table of served profiles: `core` depends on nothing, and nothing    *)
(* that is served depends on more than `core`.                             *)
ASSUME ServedAssumption ==
  /\ "core" \in DOMAIN Served /\ DOMAIN Served["core"].depends = {}
  /\ \A n \in DOMAIN Served : DOMAIN Served[n].depends \subseteq {"core"}

(* A method is known or not, whoever calls it.                             *)
ASSUME OperationsAssumption ==
  \A op, other \in Operations :
    op.method # "" /\ (op.method = other.method => op.known = other.known)

Process == Issuer \cup {Server}

Idle == [stage |-> "idle", principal |-> Owner, credential |-> 0]

Closed == [open |-> FALSE]

(* connect: a further session on the socket; Provider::open: the one of a  *)
(* process that serves its own pipe, which its launch authenticated.       *)
Connected(shared) ==
  [open |-> TRUE, shared |-> shared, authenticated |-> ~shared,
   principal |-> Owner, credential |-> 0, negotiated |-> FALSE, request |-> << >>,
   selected |-> << >>, unselected |-> {}, limit |-> 0, asked |-> "", answer |-> ""]

Init ==
  /\ rows = {}
  /\ file = [p \in Principal |-> 0]
  /\ staged = [p \in Principal |-> 0]
  /\ handed = {}
  /\ issuing = [i \in Process |-> Idle]
  /\ issued = 0
  /\ serving = "down"
  /\ session = [s \in Session |-> Closed]
  /\ crashes = 0

-----------------------------------------------------------------------------
(* Issuing.                                                                *)

LiveFor(c, p) == \E r \in rows : r.credential = c /\ r.principal = p /\ ~r.revoked

MayIssue(i, p) ==
  Alone => \A k \in Process \ {i} : issuing[k].stage = "idle" \/ issuing[k].principal # p

(* issue, generate: a new credential is written to the staging file, which *)
(* is the principal's whoever writes it.                                   *)
Stage(i, p) ==
  /\ issuing[i].stage = "idle" /\ MayIssue(i, p)
  /\ issued < MaxCredentials
  /\ issued' = issued + 1
  /\ staged' = [staged EXCEPT ![p] = issued + 1]
  /\ issuing' = [issuing EXCEPT ![i] = [stage |-> "staged", principal |-> p, credential |-> issued + 1]]
  /\ UNCHANGED <<rows, file, handed>>

(* What the process does after its staging file is renamed over the        *)
(* handoff file: a rename that finds no staging file fails the issue.      *)
Rename(i) ==
  LET p == issuing[i].principal IN
  /\ issuing[i].stage = "staged"
  /\ IF staged[p] = 0
     THEN /\ issuing' = [issuing EXCEPT ![i] = Idle]
          /\ UNCHANGED <<file, handed, staged>>
     ELSE /\ file' = [file EXCEPT ![p] = staged[p]]
          /\ handed' = handed \cup {staged[p]}
          /\ staged' = [staged EXCEPT ![p] = 0]
          /\ issuing' = [issuing EXCEPT ![i].stage = "renamed"]
  /\ UNCHANGED <<rows, issued>>

(* Every row of the principal, revoked.                                    *)
revoke_credentials(p) ==
  {IF r.principal = p THEN [r EXCEPT !.revoked = TRUE] ELSE r : r \in rows}

(* rotate_credential: one transaction, which is the last step of an issue. *)
rotate_credential(p, c) ==
  revoke_credentials(p) \cup {[credential |-> c, principal |-> p, revoked |-> FALSE]}

(* Mutant: the digest may be recorded before the file is written.          *)
EitherOrder(i) == issuing[i].stage \in {"staged", "renamed"}

Written(i) == issuing[i].stage = "renamed"

Rotate(i) ==
  /\ Written(i)
  /\ rows' = rotate_credential(issuing[i].principal, issuing[i].credential)
  /\ issuing' = [issuing EXCEPT ![i] = Idle]
  /\ UNCHANGED <<file, staged, handed, issued>>

Administer(i) ==
  /\ \/ \E p \in Principal : Stage(i, p)
     \/ Rename(i) \/ Rotate(i)
     \/ \E p \in Principal :
          /\ rows' = revoke_credentials(p)
          /\ issuing[i].stage = "idle"
          /\ UNCHANGED <<file, staged, handed, issuing, issued>>
  /\ UNCHANGED <<serving, session, crashes>>

-----------------------------------------------------------------------------
(* Starting.                                                               *)

(* Mutant: any handoff file will do.                                       *)
FileExists == file[Owner] # 0

(* ensure: whether the owner's file holds a credential that works.         *)
FileWorks == LiveFor(file[Owner], Owner)

(* A start on a socket: with a file that works it serves, and otherwise it *)
(* issues a credential first.  A conformance launch brings its own, and a  *)
(* launch that serves its own pipe needs none.                             *)
Start ==
  /\ serving = "down"
  /\ \/ serving' = "piped" /\ UNCHANGED credentials
     \/ /\ MayIssue(Server, Owner)
        /\ IF Conformance \/ FileWorks
           THEN serving' = "up" /\ UNCHANGED credentials
           ELSE serving' = "starting" /\ Stage(Server, Owner)
  /\ UNCHANGED <<session, crashes>>

(* The start goes on once its issue is done, and fails with it.            *)
Started ==
  /\ serving = "starting"
  /\ \/ Rename(Server) /\ serving' = IF staged[Owner] = 0 THEN "down" ELSE "starting"
     \/ Rotate(Server) /\ serving' = "up"
  /\ UNCHANGED <<session, crashes>>

(* A process ends, whatever it was doing.                                  *)
Crash(i) ==
  /\ crashes < MaxCrashes
  /\ crashes' = crashes + 1
  /\ issuing' = [issuing EXCEPT ![i] = Idle]
  /\ IF i = Server
     THEN /\ serving # "down" /\ serving' = "down"
          /\ session' = [s \in Session |-> Closed]
     ELSE /\ issuing[i].stage # "idle"
          /\ UNCHANGED <<serving, session>>
  /\ UNCHANGED <<rows, file, staged, handed, issued>>

-----------------------------------------------------------------------------
(* Authenticating.                                                         *)

(* The rows a presented credential matches and that are not revoked, read  *)
(* from the store at every attempt.                                        *)
Matched(c) == {r \in rows : r.credential = c /\ ~r.revoked}

authenticate(s, c) ==
  LET me == session[s] IN
  /\ me.open
  /\ session' = [session EXCEPT ![s] =
       IF me.authenticated THEN [me EXCEPT !.asked = "core.authenticate", !.answer = "already_authenticated"]
       ELSE IF Matched(c) = {} THEN [me EXCEPT !.asked = "core.authenticate", !.answer = "authentication_failed"]
       ELSE [me EXCEPT !.authenticated = TRUE, !.credential = c,
                       !.principal = (CHOOSE r \in Matched(c) : TRUE).principal,
                       !.asked = "core.authenticate", !.answer = "done"]]

-----------------------------------------------------------------------------
(* Negotiating.  An entry of a request names a profile, whether it is      *)
(* required, the majors it takes, the features it needs and those it likes.*)

ServedProfiles == {n \in DOMAIN Served : Conformance \/ n # "core-test"}
Features(n) == Served[n].features
Required(e) == e.name = "core" \/ e.required

Item(e, feature, reason) == [profile |-> e.name, feature |-> feature, reason |-> reason]

(* Why an entry cannot be selected as it stands.                           *)
Unmet(e) ==
  IF e.name \notin ServedProfiles
  THEN {Item(e, "", IF e.name \in Unsupported THEN "declared_unsupported" ELSE "unknown_profile")}
  ELSE IF Served[e.name].major \notin e.majors THEN {Item(e, "", "no_common_major")}
  ELSE {Item(e, f, "unknown_feature") : f \in e.needs \ Features(e.name)}

(* The code of a refusal, the one that outranks the others.                *)
RefusalCode(items) ==
  LET reasons == {i.reason : i \in items} IN
  IF reasons \cap {"declared_unsupported", "unknown_profile"} # {} THEN "unsupported_profile"
  ELSE IF "no_common_major" \in reasons THEN "unsupported_version"
  ELSE "unsupported_required_feature"

Chosen(e) == e.needs \cup (e.likes \cap Features(e.name))

(* What a selected profile depends on and is not selected with it.         *)
MissingDependencies(n, chosen) ==
  LET depends == Served[n].depends
      missing(d) == IF d \notin DOMAIN chosen THEN {""} ELSE depends[d] \ chosen[d]
  IN  {[profile |-> n, feature |-> f, reason |-> "dependency_not_selected"] :
         f \in UNION {missing(d) : d \in DOMAIN depends}}

(* negotiate: the answer, and the selection when it is not a refusal.      *)
Negotiation(request) ==
  LET entries   == ToSet(request)
      named     == {e.name : e \in entries}
      refused   == UNION {Unmet(e) : e \in {x \in entries : Required(x)}}
      taken     == {e \in entries : Unmet(e) = {}}
      chosen    == [n \in {e.name : e \in taken} \cup {"core"} |->
                      UNION {Chosen(e) : e \in {x \in taken : x.name = n}}]
      missing   == [n \in DOMAIN chosen |-> MissingDependencies(n, chosen)]
      lacking   == {n \in DOMAIN chosen : missing[n] # {}}
      must      == {e.name : e \in {x \in taken : Required(x)}}
      left      == UNION {UNION {Unmet(e) : e \in entries \ taken},
                          UNION {{Item(e, f, "unknown_feature") : f \in e.likes \ Features(e.name)} :
                                   e \in taken},
                          UNION {missing[n] : n \in lacking}}
      answer(code) == [answer |-> code, selected |-> << >>, unselected |-> {}]
  IN  IF request = << >> \/ Cardinality(named) # Len(request) THEN answer("invalid_envelope")
      ELSE IF refused # {} THEN answer(RefusalCode(refused))
      ELSE IF lacking \cap must # {} THEN answer("unsupported_profile")
      ELSE [answer |-> "done", unselected |-> left,
            selected |-> [n \in DOMAIN chosen \ lacking |-> chosen[n]]]

(* A refused negotiation keeps the receive limit it named.                 *)
negotiate(s, request, limit) ==
  LET me == session[s]
      n  == Negotiation(request)
  IN  /\ me.open /\ me.authenticated
      /\ session' = [session EXCEPT ![s] =
           IF me.negotiated THEN [me EXCEPT !.asked = "core.negotiate", !.answer = "already_negotiated"]
           ELSE [me EXCEPT !.asked = "core.negotiate", !.answer = n.answer,
                           !.negotiated = n.answer = "done",
                           !.limit = IF limit = 0 THEN @ ELSE limit,
                           !.request = IF n.answer = "done" THEN request ELSE << >>,
                           !.selected = n.selected, !.unselected = n.unselected]]

-----------------------------------------------------------------------------
(* The gates of `handle`, in their order.  An operation has a method, a    *)
(* profile, whether it is known and needs no negotiation, whether it       *)
(* carries a grant, and the features its envelope requires.                *)

SelectedFeatures(me) == UNION {me.selected[n] : n \in DOMAIN me.selected}

BeforeAuthentication == {"core.describe", "core.authenticate"}

(* Mutant: what the launch serves is decided before who is asking.         *)
LaunchFirst(me, op) ==
  IF ~op.known THEN "method_not_found"
  ELSE IF op.profile = "core-test" /\ ~Conformance THEN "method_not_found"
  ELSE IF ~me.authenticated /\ op.method \notin BeforeAuthentication THEN "authentication_required"
  ELSE IF ~me.negotiated /\ ~op.early THEN "negotiation_required"
  ELSE IF ~op.early /\ op.profile \notin DOMAIN me.selected THEN "profile_not_negotiated"
  ELSE IF op.grant /\ "core.grants" \notin SelectedFeatures(me) THEN "invalid_envelope"
  ELSE IF ~(op.requires \subseteq SelectedFeatures(me)) THEN "unsupported_required_feature"
  ELSE "done"

Gate(me, op) ==
  IF ~op.known THEN "method_not_found"
  ELSE IF ~me.authenticated /\ op.method \notin BeforeAuthentication THEN "authentication_required"
  ELSE IF op.profile = "core-test" /\ ~Conformance THEN "method_not_found"
  ELSE IF ~me.negotiated /\ ~op.early THEN "negotiation_required"
  ELSE IF ~op.early /\ op.profile \notin DOMAIN me.selected THEN "profile_not_negotiated"
  ELSE IF op.grant /\ "core.grants" \notin SelectedFeatures(me) THEN "invalid_envelope"
  ELSE IF ~(op.requires \subseteq SelectedFeatures(me)) THEN "unsupported_required_feature"
  ELSE "done"

Call(s, op) ==
  /\ session[s].open
  /\ session' = [session EXCEPT ![s].asked = op.method, ![s].answer = Gate(session[s], op)]

Connect(s) == ~session[s].open /\ session' = [session EXCEPT ![s] = Connected(serving = "up")]
Disconnect(s) == session[s].open /\ session' = [session EXCEPT ![s] = Closed]

Serve(s) ==
  /\ serving \in {"up", "piped"}
  /\ \/ Connect(s) \/ Disconnect(s)
     \/ \E c \in 0 .. issued : authenticate(s, c)
     \/ \E request \in Requests, limit \in 0 .. 1 : negotiate(s, request, limit)
     \/ \E op \in Operations : Call(s, op)
  /\ UNCHANGED <<credentials, serving, crashes>>

Next ==
  \/ \E i \in Issuer : Administer(i)
  \/ Start \/ Started
  \/ \E i \in Process : Crash(i)
  \/ \E s \in Session : Serve(s)

Spec == Init /\ [][Next]_vars

-----------------------------------------------------------------------------
(* Properties.                                                             *)

(* The tables, and at most one live credential for a principal: rotation   *)
(* "leaves exactly one live credential, and never zero or two"             *)
(* (Store::rotate_credential).                                             *)
TypeOK ==
  /\ issued \in 0 .. MaxCredentials
  /\ file \in [Principal -> 0 .. issued]
  /\ staged \in [Principal -> 0 .. issued]
  /\ handed \subseteq 1 .. issued
  /\ \A r \in rows : r.credential \in 1 .. issued /\ r.principal \in Principal
  /\ \A r, q \in rows : r.principal = q.principal /\ ~r.revoked /\ ~q.revoked => r = q
  /\ serving \in {"down", "starting", "up", "piped"}
  /\ \A s \in Session : session[s].open => serving \in {"up", "piped"}

(* issue: "never a working credential nobody holds" (credentials.rs).  A   *)
(* credential the store accepts has been in its principal's handoff file,  *)
(* wherever an issue was cut short.                                        *)
LiveWasHanded == \A r \in rows : ~r.revoked => r.credential \in handed

(* issue, rotate_credential: of the credentials of a principal one is live *)
(* at most, and it was handed over, wherever an issue was cut short.       *)
CredentialsSound == TypeOK /\ LiveWasHanded

(* ensure: a start on a socket leaves the owner a handoff file that works, *)
(* though the issue before it crashed between the file and the digest, or  *)
(* the credential was revoked.  authenticate: a session is only ever       *)
(* opened by a credential that is live then, for its own principal: a      *)
(* rotation made while the provider runs applies to the next attempt.      *)
WorksWhileLive ==
  [][/\ serving # "up" /\ serving' = "up" /\ ~Conformance => LiveFor(file[Owner], Owner)'
     /\ \A s \in Session :
          session'[s].open /\ session'[s].credential # 0
          /\ (session[s].open => session[s].credential = 0)
          => LiveFor(session'[s].credential, session'[s].principal)]_vars

(* negotiate: what a session negotiated is what it asked for.  Everything  *)
(* required is selected with what it needs; everything else is selected or *)
(* reported; and a selected profile has everything it depends on selected  *)
(* in the selection that was returned, not in one before profiles were     *)
(* dropped from it.                                                        *)
SelectionSound ==
  \A s \in Session : session[s].open /\ session[s].negotiated =>
    LET me == session[s] IN
    /\ "core" \in DOMAIN me.selected
    /\ \A n \in DOMAIN me.selected :
         /\ n \in ServedProfiles /\ me.selected[n] \subseteq Features(n)
         /\ \A d \in DOMAIN Served[n].depends :
              d \in DOMAIN me.selected /\ Served[n].depends[d] \subseteq me.selected[d]
    /\ \A e \in ToSet(me.request) :
         /\ Required(e) => e.name \in DOMAIN me.selected /\ e.needs \subseteq me.selected[e.name]
         /\ e.name \in DOMAIN me.selected \/ \E i \in me.unselected : i.profile = e.name

(* handle: before authentication nothing is learnt of the launch or of the *)
(* session: an operation the protocol knows is refused alike whether this  *)
(* launch serves it or not (CORE section 18.2).                            *)
LearnsNothing ==
  \A s \in Session : session[s].open /\ ~session[s].authenticated =>
    \A op \in Operations :
      session[s].asked = op.method /\ op.known /\ op.method \notin BeforeAuthentication =>
        session[s].answer = "authentication_required"

(* negotiate, handle: a session is told what it may use, no more and no    *)
(* less, and nothing before it has authenticated.                          *)
AnswersSound == SelectionSound /\ LearnsNothing

=============================================================================
