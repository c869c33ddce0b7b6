------------------------------ MODULE Commands ------------------------------
(***************************************************************************)
(* The command path of the provider (provider.rs, handle and               *)
(* admit_command), over the subjects that the core profile keeps: those of *)
(* the test profile, the authority, grants and effects.                    *)
(*                                                                         *)
(* A caller sends a command under a generation it was given and, because   *)
(* it cannot know whether an answer was lost, may send a command that was  *)
(* committed again, under the same generation, at any time.  A request     *)
(* runs under the processing lock, so it is one step: the time-driven      *)
(* changes, the admission and the commit, which is one transaction.  A     *)
(* crash is therefore a Start.                                             *)
(***************************************************************************)
EXTENDS Grants, FiniteSets, FiniteSetsExt

CONSTANTS
    Authority,     \* the principals that act without a grant
    Request,       \* the names of the commands and queries that callers may send
    Envelope,      \* name -> the command or query
    Key,           \* the subject keys that they name
    NewEffect,     \* effect id -> the record a producer commits
    Instant,       \* the instants the clock file may hold; 0 is malformed
    Retain,        \* dedupe.retain_generations
    MaxGeneration, \* bound: the last generation a start reaches
    MaxRevision    \* bound: the last revision of a subject

ASSUME CommandAssumption ==
    /\ Retain \in Nat \ {0}
    /\ MaxGeneration \in Nat \ {0}
    /\ Instant \subseteq Nat

VARIABLES
    db,        \* the store
    window,    \* the deduplication window this process issues
    clock,     \* the clock file, and the last good instant read from it
    sent,      \* the generation a committed request was sent under, or 0
    commits,   \* history: how often a request was committed
    results,   \* history: what its first commit answered
    overdue    \* history: the overdue events of each obligation

vars == <<db, window, clock, sent, commits, results, overdue>>

Commands == {"put", "claim", "issue", "revoke", "abort"}
GrantKey(id) == [kind |-> "core.grant", id |-> id]
AuthorityKey == [kind |-> "core-test.authority", id |-> <<"core-test">>]
EffectKey(id) == [kind |-> "core.effect", id |-> id]

ASSUME KeyAssumption ==
    /\ AuthorityKey \in Key
    /\ \A key \in Key : key = [kind |-> key.kind, id |-> key.id] /\ key.id \in Seq(STRING)

\* An operation names a subject of the kind it is about; the code takes the kind
\* from the operation, or refuses another one before step 6.
ASSUME EnvelopeAssumption ==
    \A r \in Request :
        LET c == Envelope[r]
        IN  /\ c.key \in Key
            /\ c.op \in Commands \cup {"get", "grant_get", "effects_get"}
            /\ c.op = "put" => c.key.kind = "core-test.subject"
            /\ c.op = "claim" => c.key = AuthorityKey
            /\ c.op \in {"issue", "revoke", "grant_get"} => c.key.kind = "core.grant"
            /\ c.op \in {"abort", "effects_get"} => c.key.kind = "core.effect"
            /\ c.op = "issue" => IsIssue(c.issue)

NoDeadline == -1
Obligation == [expects : {"outcome", "receipt"}, deadline : Nat \cup {NoDeadline},
               state : {"open", "overdue", "satisfied", "aborted"}]
IsEffect(effect) ==
    effect \in [target : {effect.target}, status : {effect.status},
                obligations : [DOMAIN effect.obligations -> Obligation]]

\* A producer commits an effect with its waits open.
ASSUME EffectAssumption ==
    \A e \in DOMAIN NewEffect :
        /\ EffectKey(e) \in Key
        /\ IsEffect(NewEffect[e])
        /\ \A o \in DOMAIN NewEffect[e].obligations :
               NewEffect[e].obligations[o].state = "open"

\* Mutant: the clock file is believed as it is.
NowFile == clock.file

Now == Max({clock.file, clock.last})
Epoch(s) == s.rev[AuthorityKey]

-----------------------------------------------------------------------------
(* Effects (effects.rs). *)

Waiting(obligation) == obligation.state \in {"open", "overdue"}

Passed(obligation, now) ==
    /\ obligation.state = "open"
    /\ obligation.deadline # NoDeadline /\ obligation.deadline <= now

\* Mutant: the obligation is announced and stays open.
MarkOverdueKeepsOpen(effect, now) == effect

\* mark_overdue: an open obligation whose deadline has come.
MarkOverdue(effect, now) ==
    [effect EXCEPT !.obligations =
        [o \in DOMAIN @ |-> IF Passed(@[o], now) THEN [@[o] EXCEPT !.state = "overdue"]
                                                 ELSE @[o]]]

\* abort: the wait is closed; the status is not touched.
AbortWait(effect, obligation) ==
    [effect EXCEPT !.obligations[obligation].state = "aborted"]

\* observe: a settled outcome satisfies the waits that expect one.
Observed(effect, status) ==
    [effect EXCEPT
        !.status = status,
        !.obligations = [o \in DOMAIN @ |->
            IF /\ status \in {"succeeded", "failed"}
               /\ @[o].expects = "outcome"
               /\ Waiting(@[o])
            THEN [@[o] EXCEPT !.state = "satisfied"]
            ELSE @[o]]]

\* tick_effects: one provider change for each effect with a passed deadline.
Due(s, now) ==
    {e \in DOMAIN s.effects : \E o \in DOMAIN s.effects[e].obligations :
                                  Passed(s.effects[e].obligations[o], now)}

TickEffects(s, now) ==
    [s EXCEPT
        !.effects = [e \in DOMAIN @ |-> MarkOverdue(@[e], now)],
        !.rev = [k \in Key |-> IF k \in {EffectKey(e) : e \in Due(s, now)}
                               THEN @[k] + 1 ELSE @[k]]]

Announce(s, now) ==
    overdue' = [e \in DOMAIN overdue |-> [o \in DOMAIN overdue[e] |->
        IF e \in Due(s, now) /\ Passed(s.effects[e].obligations[o], now)
        THEN overdue[e][o] + 1 ELSE overdue[e][o]]]

-----------------------------------------------------------------------------
(* Step 6: authorisation. *)

Need(right, key) == [right |-> right, over |-> {key}]

\* command_needs and query_needs.
Needs(c) ==
    IF c.op = "put"
    THEN {Need("core-test.write", c.key)}
            \cup {Need("core-test.read", k) : k \in DOMAIN c.pre \ {c.key}}
    ELSE IF c.op = "claim" THEN {Need("core-test.claim", c.key)}
    ELSE {Need("core-test.read", c.key)}

Exists(s, id) == id \in DOMAIN s.grants

\* Mutant: a grant held by another is found, and its state is told.
HeldGrantOfAnyone(s, c) ==
    IF Exists(s, c.grant) THEN Usable(s.grants[c.grant], Now, Epoch(s)) ELSE "grant_not_found"

\* A grant is found only by its holder: held by someone else it is as if it did
\* not exist.  "found" or the reason.
HeldGrant(s, c) ==
    IF Exists(s, c.grant) /\ s.grants[c.grant].holder = c.who
    THEN Usable(s.grants[c.grant], Now, Epoch(s))
    ELSE "grant_not_found"

\* A request that names no grant acts as an authority or not at all.
WithoutGrant(c) == IF c.who \in Authority THEN "ok" ELSE "grant_required"

\* authorize
Authorize(s, c) ==
    IF c.grant = NoParent THEN WithoutGrant(c)
    ELSE IF HeldGrant(s, c) # "ok" THEN HeldGrant(s, c)
    ELSE Permits(s.grants[c.grant], Needs(c))

\* authorize_issue: the validity checks, then the issuing rules.
AuthorizeIssue(s, c) ==
    LET child == Issued(c.issue, c.who)
        parent == s.grants[child.parent]
    IN  IF child.expires # NoExpiry /\ child.expires <= Now THEN "invalid_envelope"
        ELSE IF child.parent = NoParent
             THEN IF c.who \in Authority THEN "ok" ELSE "not_authority"
        ELSE IF ~Exists(s, child.parent) THEN "grant_not_found"
        ELSE IF parent.holder # c.who THEN "grant_not_found"
        ELSE IF Usable(parent, Now, Epoch(s)) # "ok" THEN Usable(parent, Now, Epoch(s))
        ELSE IF ~MayDelegateTo(parent, child) THEN "delegation_exceeded"
        ELSE "ok"

\* authorize_revoke: who asks is decided before what the grant's state is.
AuthorizeRevoke(s, c) ==
    IF /\ c.who \notin Authority
       /\ ~(Exists(s, c.key.id) /\ s.grants[c.key.id].issuer = c.who)
    THEN "not_authority"
    ELSE IF Exists(s, c.key.id) /\ s.grants[c.key.id].revoked THEN "revoked"
    ELSE "ok"

\* An effect is read with the right to read its target.
ReadTarget(grant, key) == GrantMayRead(grant, key, "core-test.read")

\* authorize_effect_read: "out_of_scope" whether or not there is an effect.
AuthorizeEffectRead(s, c) ==
    IF c.grant = NoParent THEN WithoutGrant(c)
    ELSE IF HeldGrant(s, c) # "ok" THEN HeldGrant(s, c)
    ELSE IF c.key.id \notin DOMAIN s.effects THEN "out_of_scope"
    ELSE IF ~ReadTarget(s.grants[c.grant], s.effects[c.key.id].target) THEN "out_of_scope"
    ELSE "ok"

\* authorize_abort: the right, whose name is fixed, before the target.
AuthorizeAbort(s, c) ==
    IF c.grant = NoParent THEN WithoutGrant(c)
    ELSE IF HeldGrant(s, c) # "ok" THEN HeldGrant(s, c)
    ELSE IF "core.effects.abort_obligation" \notin s.grants[c.grant].rights
         THEN "right_missing"
    ELSE IF c.key.id \notin DOMAIN s.effects THEN "out_of_scope"
    ELSE IF ~GrantCovers(s.grants[c.grant], s.effects[c.key.id].target) THEN "out_of_scope"
    ELSE "ok"

\* core.grant.get is answered `not_found` rather than refused.
Step6(s, c) ==
    CASE c.op = "issue"       -> AuthorizeIssue(s, c)
      [] c.op = "revoke"      -> AuthorizeRevoke(s, c)
      [] c.op = "abort"       -> AuthorizeAbort(s, c)
      [] c.op = "effects_get" -> AuthorizeEffectRead(s, c)
      [] c.op = "grant_get"   -> "ok"
      [] OTHER                -> Authorize(s, c)

\* The grant that step 6 leaves in force: none for an authority, for an issue
\* and for a revoke.
InForce(s, c) ==
    IF c.op \in {"issue", "revoke"} \/ c.grant = NoParent THEN {} ELSE {s.grants[c.grant]}

\* may_read: with no grant in force every subject is readable.
MayRead(s, c, key) ==
    \A grant \in InForce(s, c) :
        CASE key.kind = "core.grant"  -> /\ Exists(s, key.id)
                                         /\ c.who \in {s.grants[key.id].holder,
                                                       s.grants[key.id].issuer}
          [] key.kind = "core.effect" -> /\ key.id \in DOMAIN s.effects
                                         /\ ReadTarget(grant, s.effects[key.id].target)
          [] OTHER                    -> ReadTarget(grant, key)

-----------------------------------------------------------------------------
(* Steps 2 to 7. *)

Answer(code, reason, shown) == [code |-> code, reason |-> reason, shown |-> shown]
Refuse(code) == Answer(code, "", {})
Admitted == Refuse("admitted")

\* Step 2 for the operations on a grant and on an effect: one precondition, on
\* the subject itself, of revision 0 for an issue and of at least 1 for a revoke.
WellFormed(c) ==
    /\ c.op \in {"issue", "revoke", "abort"} => DOMAIN c.pre = {c.key}
    /\ c.op = "issue" => c.pre[c.key] = 0 /\ WellFormedIssue(c.issue)
    /\ c.op = "revoke" => c.pre[c.key] >= 1

\* The operations that act under the authority of core-test carry its epoch; a
\* claim does not, and is ordered by its precondition.
EpochChecked(c) == c.op = "put"

Stale(s, c) == {k \in DOMAIN c.pre : s.rev[k] # c.pre[k]}

Shown(s, c, keys) == {<<k, s.rev[k]>> : k \in {k \in keys : MayRead(s, c, k)}}

\* admit_command, steps 6 and 7: authorisation, the capability, the authority
\* epoch, then the preconditions, whose current revisions are shown to a reader.
Authorised(s, c) ==
    IF Step6(s, c) = "invalid_envelope" THEN Refuse("invalid_envelope")
    ELSE IF Step6(s, c) # "ok" THEN Answer("permission_denied", Step6(s, c), {})
    ELSE IF c.op = "put" /\ s.writes # "supported" THEN Refuse("capability_unavailable")
    ELSE IF EpochChecked(c) /\ c.epoch < Epoch(s)
         THEN Answer("stale_authority_epoch", "", Shown(s, c, {AuthorityKey}))
    ELSE IF EpochChecked(c) /\ c.epoch > Epoch(s) THEN Refuse("unknown_authority_epoch")
    ELSE IF c.key \notin DOMAIN c.pre THEN Refuse("invalid_envelope")
    ELSE IF Stale(s, c) # {}
         THEN Answer("precondition_failed", "", Shown(s, c, Stale(s, c)))
    ELSE Admitted

\* A command id belongs to the principal that chose it.
CommandKey(c) == <<c.who, c.cid>>
Bound(s, c) == CommandKey(c) \in DOMAIN s.bound

\* Mutant: authorisation before deduplication.
AdmissionAuthorisesFirst(s, c, generation) ==
    IF Step6(s, c) # "ok" THEN Answer("permission_denied", Step6(s, c), {})
    ELSE IF Bound(s, c) THEN Refuse("replayed")
    ELSE IF generation < window.oldest THEN Refuse("dedupe_history_unavailable")
    ELSE Authorised(s, c)

\* admit_command, steps 4 and 5: the digest, then deduplication, which comes
\* before authorisation so that a caller's own bound command replays.
Admission(s, c, generation) ==
    IF ~WellFormed(c) THEN Refuse("invalid_envelope")
    ELSE IF c.digest # "right" THEN Refuse("digest_mismatch")
    ELSE IF generation > window.current THEN Refuse("invalid_envelope")
    ELSE IF Bound(s, c)
         THEN IF s.bound[CommandKey(c)].body = c.body
              THEN Refuse("replayed") ELSE Refuse("idempotency_conflict")
    ELSE IF generation < window.oldest THEN Refuse("dedupe_history_unavailable")
    ELSE Authorised(s, c)

\* What a command finds once it is admitted: an abort needs an effect
\* with a waiting obligation, and a refusal here binds nothing.
Found(s, c) ==
    c.op = "abort" => /\ c.key.id \in DOMAIN s.effects
                      /\ c.obligation \in DOMAIN s.effects[c.key.id].obligations
                      /\ Waiting(s.effects[c.key.id].obligations[c.obligation])

\* grant_get, subject_get, applied_count and effects_get, after step 6.
Visible(s, c) ==
    IF c.op = "grant_get"
    THEN /\ Exists(s, c.key.id)
         /\ c.who \in Authority \cup {s.grants[c.key.id].holder, s.grants[c.key.id].issuer}
    ELSE s.rev[c.key] > 0

Handle(s, c, generation) ==
    IF c.op \in Commands
    THEN IF Admission(s, c, generation) = Admitted /\ ~Found(s, c)
         THEN Refuse("not_found")
         ELSE Admission(s, c, generation)
    ELSE IF Step6(s, c) # "ok" THEN Answer("permission_denied", Step6(s, c), {})
    ELSE IF ~Visible(s, c) THEN Refuse("not_found")
    ELSE Answer("ok", "", {<<c.key, s.rev[c.key]>>})

-----------------------------------------------------------------------------
(* Step 8: what an admitted command commits, in one transaction. *)

\* active_descendants: the walk goes through revoked grants.  What it visits is
\* the least set that holds the children of the root and of its own members.
Children(s, ids) == {id \in DOMAIN s.grants : s.grants[id].parent \in ids}

\* Mutant: the cascade reaches the children only.
DescendantsDirect(s, root) == Children(s, {root})

Descendants(s, root) ==
    {id \in DOMAIN s.grants \ {root} :
        \A ids \in SUBSET DOMAIN s.grants :
            Children(s, ids \cup {root}) \subseteq ids => id \in ids}

Cascade(s, root) ==
    {root} \cup {id \in Descendants(s, root) : ~s.grants[id].revoked}

\* The subjects a command changes: a claim raises the authority's epoch.
Changed(s, c) ==
    CASE c.op = "claim"  -> {AuthorityKey}
      [] c.op = "revoke" -> {GrantKey(id) : id \in Cascade(s, c.key.id)}
      [] OTHER           -> {c.key}

GrantsAfter(s, c) ==
    CASE c.op = "issue"  -> With(s.grants, c.key.id, Issued(c.issue, c.who))
      [] c.op = "revoke" -> [id \in DOMAIN s.grants |->
                                IF id \in Cascade(s, c.key.id)
                                THEN [s.grants[id] EXCEPT !.revoked = TRUE]
                                ELSE s.grants[id]]
      [] OTHER           -> s.grants

EffectsAfter(s, c) ==
    IF c.op = "abort" THEN [s.effects EXCEPT ![c.key.id] = AbortWait(@, c.obligation)]
                      ELSE s.effects

\* The acknowledgment: the revision the transaction produced, and what a revoke
\* lists as revoked.
Result(s, c) ==
    [rev     |-> s.rev[IF c.op = "claim" THEN AuthorityKey ELSE c.key] + 1,
     changed |-> Changed(s, c)]

\* commit_command: the state, the events and the command's record.
Commit(s, c, generation) ==
    [s EXCEPT
        !.rev = [k \in Key |-> IF k \in Changed(s, c) THEN @[k] + 1 ELSE @[k]],
        !.grants = GrantsAfter(s, c),
        !.effects = EffectsAfter(s, c),
        !.bound = With(@, CommandKey(c),
                       [body |-> c.body, generation |-> generation,
                        result |-> Result(s, c)])]

-----------------------------------------------------------------------------

Init ==
    /\ db = [rev |-> [k \in Key |-> 0], grants |-> <<>>, effects |-> <<>>,
             bound |-> <<>>, generation |-> 1, writes |-> "supported"]
    /\ window = [current |-> 1, oldest |-> Max({0, 1 - Retain + 1})]
    /\ \E t \in Instant \ {0} : clock = [file |-> t, last |-> t]
    /\ sent = [r \in Request |-> 0]
    /\ commits = [r \in Request |-> 0]
    /\ results = <<>>
    /\ overdue = [e \in DOMAIN NewEffect |-> [o \in DOMAIN NewEffect[e].obligations |-> 0]]

\* Every request reads the clock, marks what is overdue, and is then answered.
Send(r) ==
    LET c == Envelope[r]
        s == TickEffects(db, Now)
    IN  \E generation \in IF sent[r] = 0 THEN 1 .. window.current ELSE {sent[r]} :
            /\ \A k \in Key : s.rev[k] < MaxRevision
            /\ Announce(db, Now)
            /\ clock' = [clock EXCEPT !.last = Now]
            /\ UNCHANGED window
            /\ IF c.op \in Commands /\ Handle(s, c, generation) = Admitted
               THEN /\ db' = Commit(s, c, generation)
                    /\ sent' = [sent EXCEPT ![r] = generation]
                    /\ commits' = [commits EXCEPT ![r] = @ + 1]
                    /\ results' = IF r \in DOMAIN results THEN results
                                  ELSE With(results, r, Result(s, c))
               ELSE db' = s /\ UNCHANGED <<sent, commits, results>>

\* tick_locked: an idle session does the time-driven work too.
Idle ==
    /\ Due(db, Now) # {}
    /\ Announce(db, Now)
    /\ clock' = [clock EXCEPT !.last = Now]
    /\ db' = TickEffects(db, Now)
    /\ UNCHANGED <<window, sent, commits, results>>

\* The clock file is replaced; an instant that is earlier, or malformed, does
\* not move the clock.
SetClock(t) ==
    /\ t # clock.file
    /\ clock' = [clock EXCEPT !.file = t]
    /\ UNCHANGED <<db, window, sent, commits, results, overdue>>

\* A producer commits an effect (NewEffect) and observes its outcome; nothing in
\* the program does so yet but its tests.
Produce(e) ==
    /\ e \notin DOMAIN db.effects
    /\ db' = [db EXCEPT !.effects = With(@, e, NewEffect[e]), !.rev[EffectKey(e)] = 1]
    /\ UNCHANGED <<window, clock, sent, commits, results, overdue>>

ObserveEffect(e, status) ==
    /\ e \in DOMAIN db.effects
    /\ db.rev[EffectKey(e)] < MaxRevision
    /\ db' = [db EXCEPT !.effects[e] = Observed(@, status), !.rev[EffectKey(e)] = @ + 1]
    /\ UNCHANGED <<window, clock, sent, commits, results, overdue>>

\* open, start_generation and reconcile_capabilities: a process starts, with the
\* capability its launch configuration states; the generation advances and the
\* records that leave the window are discarded, in one transaction.
StartGeneration(s) ==
    LET current == s.generation + 1
        oldest == Max({0, current - Retain + 1})
    IN  /\ window' = [current |-> current, oldest |-> oldest]
        /\ \E writes \in {"supported", "lost"} :
               db' = [s EXCEPT
                        !.generation = current,
                        !.writes = writes,
                        !.bound = [b \in {b \in DOMAIN @ : @[b].generation >= oldest} |-> @[b]]]

Start ==
    /\ db.generation < MaxGeneration
    /\ clock.file # 0
    /\ StartGeneration(db)
    /\ clock' = [clock EXCEPT !.last = clock.file]
    /\ UNCHANGED <<sent, commits, results, overdue>>

Next ==
    \/ \E r \in Request : Send(r)
    \/ Idle
    \/ \E t \in Instant : SetClock(t)
    \/ \E e \in DOMAIN NewEffect : Produce(e)
    \/ \E e \in DOMAIN NewEffect, status \in {"succeeded", "unknown"} : ObserveEffect(e, status)
    \/ Start

Spec == Init /\ [][Next]_vars

-----------------------------------------------------------------------------
(* Properties. *)

TypeOK ==
    /\ db.rev \in [Key -> Nat]
    /\ \A id \in DOMAIN db.grants : GrantKey(id) \in Key
    /\ \A b \in DOMAIN db.bound : db.bound[b].generation \in 1 .. db.generation
    /\ window.current = db.generation /\ window.oldest \in 0 .. window.current
    /\ sent \in [Request -> 0 .. MaxGeneration]
    /\ commits \in [Request -> Nat]
    /\ DOMAIN results \subseteq Request

\* A command that was applied is never told that it was refused for another
\* reason: once its record is discarded the caller learns that the history is
\* gone, or that its id now belongs to a later command (admit_command, step 5,
\* and start_generation).  It is not applied again.
AppliedIsNotDenied ==
    \A r \in Request :
        commits[r] > 0 =>
            /\ commits[r] = 1
            /\ Handle(db, Envelope[r], sent[r]).code \in
                  {"replayed", "dedupe_history_unavailable", "idempotency_conflict"}

\* A committed command whose generation is still in the window is answered with
\* the result of its commit, whatever was revoked, lost, claimed or changed since
\* (admit_command, "a replay of a caller's own bound command still returns its
\* stored result").
AppliedIsReplayed ==
    \A r \in Request :
        LET c == Envelope[r]
        IN  commits[r] > 0 /\ sent[r] >= window.oldest =>
                /\ Handle(db, c, sent[r]) = Refuse("replayed")
                /\ db.bound[CommandKey(c)].result = results[r]

\* A command is applied once, however often it is sent again across lost answers
\* and starts, and its sender is told so for as long as the window lasts
\* (admit_command, start_generation).
AppliedOnce == TypeOK /\ AppliedIsNotDenied /\ AppliedIsReplayed

\* A grant never does what its parent could not do at the same instant: while it
\* is usable its parent is, and what it permits its parent permits.  Revocation
\* cascades; expiry and the bound epoch are inherited (may_delegate_to).
DelegatesNoMore ==
    \A id \in DOMAIN db.grants :
        LET child == db.grants[id]
            parent == db.grants[child.parent]
        IN  child.parent # NoParent /\ Usable(child, Now, Epoch(db)) = "ok" =>
                /\ Usable(parent, Now, Epoch(db)) = "ok"
                /\ parent.constraints \subseteq child.constraints
                /\ \A right \in child.rights, key \in Key :
                       Permits(child, {Need(right, key)}) = "ok" =>
                           Permits(parent, {Need(right, key)}) = "ok"

\* The store as it would be if a subject had never existed.
Forget(s, key) ==
    [s EXCEPT !.rev[key] = 0,
              !.grants = [id \in {id \in DOMAIN @ : GrantKey(id) # key} |-> @[id]],
              !.effects = [e \in {e \in DOMAIN @ : EffectKey(e) # key} |-> @[e]]]

Hidden(c, key) ==
    /\ key # AuthorityKey
    /\ key.kind = "core.grant" /\ Exists(db, key.id) =>
           /\ c.who \notin Authority \cup {db.grants[key.id].holder, db.grants[key.id].issuer}

\* A principal that is refused learns nothing of what it may not see: the same
\* refusal is given whether or not the subject exists (step 6 precedes every
\* lookup; a grant held by another "never existed").
RefusalTellsNothing ==
    \A r \in Request :
        LET c == Envelope[r]
            answer == Handle(db, c, window.current)
        IN  answer.code = "permission_denied" =>
                \A key \in {key \in Key : Hidden(c, key)} :
                    Handle(Forget(db, key), c, window.current) = answer

\* An obligation is announced overdue once, and is overdue only if announced.
OverdueOnce ==
    \A e \in DOMAIN db.effects : \A o \in DOMAIN db.effects[e].obligations :
        /\ overdue[e][o] <= 1
        /\ db.effects[e].obligations[o].state = "overdue" => overdue[e][o] = 1

\* What has ended stays ended.  Within one process a grant that was seen to have
\* expired, or was revoked, never becomes usable again, whatever is written to
\* the clock file (Clock::now); a late outcome does not satisfy a wait that was
\* aborted, and an abort does not undo one that was satisfied.
EndedStaysEnded ==
    [][/\ window' = window =>
              \A id \in DOMAIN db.grants :
                  Usable(db.grants[id], clock.last, Epoch(db)) \in {"revoked", "expired"} =>
                      Usable(db.grants[id], Now, Epoch(db))' \in {"revoked", "expired"}
       /\ \A e \in DOMAIN db.effects : \A o \in DOMAIN db.effects[e].obligations :
              ~Waiting(db.effects[e].obligations[o]) =>
                  db'.effects[e].obligations[o] = db.effects[e].obligations[o]]_vars
=============================================================================
