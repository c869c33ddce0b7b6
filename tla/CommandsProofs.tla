--------------------------- MODULE CommandsProofs ---------------------------
(***************************************************************************)
(* Proofs about the command path (Commands).  One inductive invariant,     *)
(* CommandsInv, carries the theorems at the end of the module: a command   *)
(* is applied once, a grant delegates no more than it has, an obligation   *)
(* is announced overdue once, and what has ended stays ended.              *)
(***************************************************************************)
EXTENDS Commands, TLAPS

-----------------------------------------------------------------------------
(* The larger of two numbers. *)

\* The larger of two numbers.
LEMMA MaxOfTwo ==
    ASSUME NEW a \in Int, NEW b \in Int
    PROVE  /\ Max({a, b}) = IF a >= b THEN a ELSE b
           /\ Max({a, b}) \in Int
<1> DEFINE m == IF a >= b THEN a ELSE b
<1>1. /\ m \in {a, b}
      /\ \A y \in {a, b} : m >= y
    OBVIOUS
<1>2. \A x \in {a, b} : (\A y \in {a, b} : x >= y) => x = m
    OBVIOUS
<1>3. Max({a, b}) = CHOOSE x \in {a, b} : \A y \in {a, b} : x >= y
    BY DEF Max
<1> QED BY <1>1, <1>2, <1>3

-----------------------------------------------------------------------------
(* The store, and what the time-driven changes and a commit do to it. *)

IsStore(s) ==
    s \in [rev : [Key -> Nat], grants : {s.grants}, effects : {s.effects},
          bound : {s.bound}, generation : {s.generation}, writes : {s.writes}]

\* A store gives every subject a revision.
LEMMA StoreHasRevisions ==
    ASSUME NEW s, IsStore(s)
    PROVE  s.rev \in [Key -> Nat]
BY DEF IsStore

Marked(effects, now) == [e \in DOMAIN effects |-> MarkOverdue(effects[e], now)]

\* The time-driven changes touch the effects, and the revisions of those that
\* have a wait whose deadline has come (tick_effects).
LEMMA TickedStore ==
    ASSUME NEW s, IsStore(s), NEW now, NEW t, t = TickEffects(s, now)
    PROVE  /\ IsStore(t)
           /\ t.grants = s.grants /\ t.bound = s.bound
           /\ t.generation = s.generation /\ t.writes = s.writes
           /\ t.effects = Marked(s.effects, now)
           /\ \A k \in Key : t.rev[k] >= s.rev[k]
           /\ \A k \in Key : k.kind # "core.effect" => t.rev[k] = s.rev[k]
<1>1. s \in [rev : [Key -> Nat], grants : {s.grants}, effects : {s.effects},
            bound : {s.bound}, generation : {s.generation},
            writes : {s.writes}]
    BY DEF IsStore
<1> DEFINE due == {EffectKey(e) : e \in Due(s, now)}
           rev2 == [k \in Key |-> IF k \in due THEN s.rev[k] + 1 ELSE s.rev[k]]
           effects2 == [e \in DOMAIN s.effects |-> MarkOverdue(s.effects[e], now)]
<1>2. t = [s EXCEPT !.effects = effects2, !.rev = rev2]
    BY Zenon DEF TickEffects
<1>3. \A k \in due : k.kind = "core.effect"
    BY DEF EffectKey
<1>4. /\ rev2 \in [Key -> Nat]
      /\ \A k \in Key : rev2[k] >= s.rev[k]
      /\ \A k \in Key : k.kind # "core.effect" => rev2[k] = s.rev[k]
    BY <1>1, <1>3
<1> HIDE DEF rev2, effects2, due
<1>5. /\ t \in [rev : [Key -> Nat], grants : {s.grants}, effects : {effects2}, bound : {s.bound},
                generation : {s.generation}, writes : {s.writes}]
      /\ t.grants = s.grants /\ t.bound = s.bound
      /\ t.generation = s.generation /\ t.writes = s.writes
      /\ t.effects = effects2 /\ t.rev = rev2
    BY <1>1, <1>2, <1>4
<1>6. IsStore(t)
    BY <1>5 DEF IsStore
<1> QED BY <1>4, <1>5, <1>6 DEF effects2, Marked

\* A commit raises the revisions of the subjects it changes and binds the command.
Record(s, c, generation) ==
    [body |-> c.body, generation |-> generation, result |-> Result(s, c)]

\* What a commit leaves of a store, and that revisions only grow.
LEMMA CommittedStore ==
    ASSUME NEW s, IsStore(s), NEW c, NEW generation, NEW t, t = Commit(s, c, generation)
    PROVE  /\ IsStore(t)
           /\ t.generation = s.generation /\ t.writes = s.writes
           /\ t.grants = GrantsAfter(s, c)
           /\ t.effects = EffectsAfter(s, c)
           /\ \A k \in Key : t.rev[k] >= s.rev[k]
           /\ \A k \in Key : k \in Changed(s, c) => t.rev[k] > 0
           /\ t.bound = With(s.bound, CommandKey(c), Record(s, c, generation))
<1>1. s \in [rev : [Key -> Nat], grants : {s.grants}, effects : {s.effects},
            bound : {s.bound}, generation : {s.generation},
            writes : {s.writes}]
    BY DEF IsStore
<1> DEFINE rev2 == [k \in Key |-> IF k \in Changed(s, c) THEN s.rev[k] + 1 ELSE s.rev[k]]
           bound2 == With(s.bound, CommandKey(c), Record(s, c, generation))
           grants2 == GrantsAfter(s, c)
           effects2 == EffectsAfter(s, c)
<1>2. t = [s EXCEPT !.rev = rev2, !.grants = grants2, !.effects = effects2, !.bound = bound2]
    BY Zenon DEF Commit, Record
<1>3. /\ rev2 \in [Key -> Nat]
      /\ \A k \in Key : rev2[k] >= s.rev[k]
      /\ \A k \in Key : k \in Changed(s, c) => rev2[k] > 0
    BY <1>1
<1> HIDE DEF rev2, grants2, effects2, bound2
<1>5. /\ t \in [rev : [Key -> Nat], grants : {grants2}, effects : {effects2},
                bound : {bound2}, generation : {s.generation}, writes : {s.writes}]
      /\ t.generation = s.generation /\ t.writes = s.writes
      /\ t.rev = rev2 /\ t.grants = grants2 /\ t.effects = effects2 /\ t.bound = bound2
    BY <1>1, <1>2, <1>3
<1>6. IsStore(t)
    BY <1>5 DEF IsStore
<1> QED BY <1>3, <1>5, <1>6 DEF grants2, effects2, bound2

-----------------------------------------------------------------------------
(* The inductive invariant. *)

WindowOK ==
    /\ db.generation \in 1 .. MaxGeneration
    /\ window = [current |-> db.generation,
                 oldest  |-> Max({0, db.generation - Retain + 1})]

ClockOK == clock \in [file : Nat, last : Nat]

\* What is known of a request that was committed: while its generation is in the
\* window its record is bound, and it is the record of this very request.
Applied(r) ==
    LET c == Envelope[r]
        b == CommandKey(c)
    IN  /\ c.op \in Commands /\ WellFormed(c) /\ c.digest = "right"
        /\ sent[r] \in 1 .. db.generation
        /\ sent[r] >= window.oldest =>
               /\ b \in DOMAIN db.bound
               /\ db.bound[b] = [body |-> c.body, generation |-> sent[r],
                                 result |-> results[r]]

HistoryOK ==
    /\ sent \in [Request -> 0 .. MaxGeneration]
    /\ commits \in [Request -> {0, 1}]
    /\ DOMAIN results = {r \in Request : commits[r] = 1}
    /\ \A b \in DOMAIN db.bound : db.bound[b].generation \in 1 .. db.generation
    /\ \A r \in Request : IF commits[r] = 1 THEN Applied(r) ELSE sent[r] = 0

\* A grant within another: what may_delegate_to leaves of the child.
Within(child, parent) ==
    /\ child.rights \subseteq parent.rights
    /\ \A narrower \in child.resources :
           \E resource \in parent.resources : CoversResource(resource, narrower)
    /\ parent.expires # NoExpiry =>
           child.expires # NoExpiry /\ child.expires <= parent.expires
    /\ parent.constraints \subseteq child.constraints
    /\ parent.binding # Unbound => child.binding = parent.binding

IsGrant(grant) ==
    /\ grant \in [issuer : {grant.issuer}, revoked : BOOLEAN, holder : {grant.holder},
                  rights : {grant.rights}, resources : {grant.resources},
                  expires : Nat \cup {NoExpiry}, binding : {grant.binding},
                  allowed : {grant.allowed}, depth : Int, parent : {grant.parent},
                  constraints : {grant.constraints}]
    /\ \A resource \in grant.resources : IsResource(resource)

\* A grant is within its parent, and revoked when its parent is.
Descends(grants, id) ==
    grants[id].parent # NoParent =>
        /\ grants[id].parent \in DOMAIN grants
        /\ Within(grants[id], grants[grants[id].parent])
        /\ grants[grants[id].parent].revoked => grants[id].revoked

GrantsOK(s) ==
    \A id \in DOMAIN s.grants :
        /\ GrantKey(id) \in Key /\ s.rev[GrantKey(id)] > 0
        /\ IsGrant(s.grants[id])
        /\ Descends(s.grants, id)

\* An obligation, and how often it was announced overdue.
Announced(obligation, times) ==
    /\ times \in {0, 1}
    /\ obligation.state = "open" => times = 0
    /\ obligation.state = "overdue" => times = 1

EffectsOK(effects, times) ==
    /\ DOMAIN times = DOMAIN NewEffect
    /\ DOMAIN effects \subseteq DOMAIN NewEffect
    /\ \A e \in DOMAIN NewEffect :
           /\ times[e] \in [DOMAIN NewEffect[e].obligations -> {0, 1}]
           /\ e \notin DOMAIN effects =>
                  \A o \in DOMAIN NewEffect[e].obligations : times[e][o] = 0
           /\ e \in DOMAIN effects =>
                  /\ IsEffect(effects[e])
                  /\ DOMAIN effects[e].obligations = DOMAIN NewEffect[e].obligations
                  /\ \A o \in DOMAIN NewEffect[e].obligations :
                         Announced(effects[e].obligations[o], times[e][o])

CommandsInv ==
    /\ IsStore(db)
    /\ WindowOK
    /\ ClockOK
    /\ HistoryOK
    /\ GrantsOK(db)
    /\ EffectsOK(db.effects, overdue)

-----------------------------------------------------------------------------
(* The clock, and the steps of an effect. *)

\* The clock does not go back before what was read from it (Clock::now).
LEMMA NowIsLater ==
    ASSUME ClockOK
    PROVE  Now \in Nat /\ Now >= clock.last
<1>1. clock.file \in Nat /\ clock.last \in Nat
    BY DEF ClockOK
<1> QED BY <1>1, MaxOfTwo DEF Now

\* mark_overdue touches the waits whose deadline has come.
LEMMA MarkedEffect ==
    ASSUME NEW x, IsEffect(x), NEW now
    PROVE  LET y == MarkOverdue(x, now)
           IN  /\ IsEffect(y)
               /\ DOMAIN y.obligations = DOMAIN x.obligations
               /\ \A o \in DOMAIN x.obligations :
                      IF Passed(x.obligations[o], now)
                      THEN y.obligations[o].state = "overdue"
                      ELSE y.obligations[o] = x.obligations[o]
<1> DEFINE D == DOMAIN x.obligations
           after == [o \in D |-> IF Passed(x.obligations[o], now)
                                 THEN [x.obligations[o] EXCEPT !.state = "overdue"]
                                 ELSE x.obligations[o]]
           y == MarkOverdue(x, now)
<1>1. x \in [target : {x.target}, status : {x.status}, obligations : [D -> Obligation]]
    BY DEF IsEffect
<1>2. y = [x EXCEPT !.obligations = after]
    BY Zenon DEF MarkOverdue
<1>3. \A o \in D : x.obligations[o] \in Obligation
    BY <1>1
<1>4. \A o \in D : /\ [x.obligations[o] EXCEPT !.state = "overdue"] \in Obligation
                   /\ [x.obligations[o] EXCEPT !.state = "overdue"].state = "overdue"
    BY <1>3 DEF Obligation
<1>5. after \in [D -> Obligation]
    BY <1>3, <1>4
<1>6. \A o \in D : IF Passed(x.obligations[o], now) THEN after[o].state = "overdue"
                                                   ELSE after[o] = x.obligations[o]
    BY <1>4
<1> HIDE DEF after, D, y
<1>7. /\ y \in [target : {x.target}, status : {x.status}, obligations : [D -> Obligation]]
      /\ y.obligations = after
    BY <1>1, <1>2, <1>5
<1>8. DOMAIN y.obligations = D /\ y.target = x.target /\ y.status = x.status
    BY <1>7
<1>9. IsEffect(y)
    BY <1>7, <1>8 DEF IsEffect
<1> QED BY <1>6, <1>7, <1>8, <1>9 DEF D, y

\* abort closes one wait, and touches no other.
LEMMA AbortedEffect ==
    ASSUME NEW x, IsEffect(x), NEW q \in DOMAIN x.obligations
    PROVE  LET y == AbortWait(x, q)
           IN  /\ IsEffect(y)
               /\ DOMAIN y.obligations = DOMAIN x.obligations
               /\ y.obligations[q].state = "aborted"
               /\ \A o \in DOMAIN x.obligations :
                      o # q => y.obligations[o] = x.obligations[o]
<1> DEFINE D == DOMAIN x.obligations
           closed == [x.obligations[q] EXCEPT !.state = "aborted"]
           after == [x.obligations EXCEPT ![q] = closed]
           y == AbortWait(x, q)
<1>1. x \in [target : {x.target}, status : {x.status}, obligations : [D -> Obligation]]
    BY DEF IsEffect
<1>2. y = [x EXCEPT !.obligations = after]
    BY Zenon DEF AbortWait
<1>3. closed \in Obligation /\ closed.state = "aborted"
    <2>1. x.obligations[q] \in Obligation
        BY <1>1
    <2> QED BY <2>1 DEF Obligation
<1> HIDE DEF closed
<1>4. /\ after \in [D -> Obligation]
      /\ after[q] = closed
      /\ \A o \in D : o # q => after[o] = x.obligations[o]
    BY <1>1, <1>3
<1> HIDE DEF after, D, y
<1>5. /\ y \in [target : {x.target}, status : {x.status}, obligations : [D -> Obligation]]
      /\ y.obligations = after
    BY <1>1, <1>2, <1>4
<1>6. DOMAIN y.obligations = D /\ y.target = x.target /\ y.status = x.status
    BY <1>5
<1>7. IsEffect(y)
    BY <1>5, <1>6 DEF IsEffect
<1> QED BY <1>3, <1>4, <1>5, <1>6, <1>7 DEF D, y

\* observe touches the waits that are open or overdue, and satisfies them.
LEMMA ObservedEffect ==
    ASSUME NEW x, IsEffect(x), NEW status
    PROVE  LET y == Observed(x, status)
           IN  /\ IsEffect(y)
               /\ DOMAIN y.obligations = DOMAIN x.obligations
               /\ \A o \in DOMAIN x.obligations :
                      \/ y.obligations[o] = x.obligations[o]
                      \/ /\ Waiting(x.obligations[o])
                         /\ y.obligations[o].state = "satisfied"
<1> DEFINE D == DOMAIN x.obligations
           Settles(o) == /\ status \in {"succeeded", "failed"}
                         /\ x.obligations[o].expects = "outcome"
                         /\ Waiting(x.obligations[o])
           after == [o \in D |-> IF Settles(o)
                                 THEN [x.obligations[o] EXCEPT !.state = "satisfied"]
                                 ELSE x.obligations[o]]
           y == Observed(x, status)
<1>1. x \in [target : {x.target}, status : {x.status}, obligations : [D -> Obligation]]
    BY DEF IsEffect
<1>2. y = [x EXCEPT !.status = status, !.obligations = after]
    BY Zenon DEF Observed
<1>3. \A o \in D : x.obligations[o] \in Obligation
    BY <1>1
<1>4. \A o \in D : /\ [x.obligations[o] EXCEPT !.state = "satisfied"] \in Obligation
                   /\ [x.obligations[o] EXCEPT !.state = "satisfied"].state = "satisfied"
    BY <1>3 DEF Obligation
<1>5. \A o \in D : Settles(o) => Waiting(x.obligations[o])
    OBVIOUS
<1> HIDE DEF Settles
<1>6. after \in [D -> Obligation]
    BY <1>3, <1>4
<1>7. \A o \in D : \/ after[o] = x.obligations[o]
                   \/ Waiting(x.obligations[o]) /\ after[o].state = "satisfied"
    BY <1>4, <1>5
<1> HIDE DEF after, D, y
<1>8. /\ y \in [target : {x.target}, status : {status}, obligations : [D -> Obligation]]
      /\ y.obligations = after
    BY <1>1, <1>2, <1>6
<1>9. DOMAIN y.obligations = D /\ y.target = x.target /\ y.status = status
    BY <1>8
<1>10. IsEffect(y)
    BY <1>8, <1>9 DEF IsEffect
<1> QED BY <1>7, <1>8, <1>9, <1>10 DEF D, y

\* The time-driven changes announce what they make overdue, and nothing else
\* (tick_effects).
LEMMA TickKeepsEffects ==
    ASSUME NEW s, IsStore(s), NEW now, EffectsOK(s.effects, overdue), Announce(s, now)
    PROVE  EffectsOK(TickEffects(s, now).effects, overdue')
<1> DEFINE after == TickEffects(s, now).effects
           Came(e, o) == e \in Due(s, now) /\ Passed(s.effects[e].obligations[o], now)
<1>1. after = [e \in DOMAIN s.effects |-> MarkOverdue(s.effects[e], now)]
    BY TickedStore DEF Marked
<1>2. /\ DOMAIN overdue = DOMAIN NewEffect
      /\ DOMAIN s.effects \subseteq DOMAIN NewEffect
    BY DEF EffectsOK
<1>3. overdue' = [e \in DOMAIN NewEffect |-> [o \in DOMAIN overdue[e] |->
                     IF Came(e, o) THEN overdue[e][o] + 1 ELSE overdue[e][o]]]
    BY <1>2 DEF Announce
<1> HIDE DEF after, Came
<1>4. ASSUME NEW e \in DOMAIN NewEffect
      PROVE  /\ overdue'[e] \in [DOMAIN NewEffect[e].obligations -> {0, 1}]
             /\ e \notin DOMAIN after =>
                    \A o \in DOMAIN NewEffect[e].obligations : overdue'[e][o] = 0
             /\ e \in DOMAIN after =>
                    /\ IsEffect(after[e])
                    /\ DOMAIN after[e].obligations = DOMAIN NewEffect[e].obligations
                    /\ \A o \in DOMAIN NewEffect[e].obligations :
                           Announced(after[e].obligations[o], overdue'[e][o])
    <2> DEFINE D == DOMAIN NewEffect[e].obligations
               x == s.effects[e]
               y == MarkOverdue(x, now)
    <2>1. overdue[e] \in [D -> {0, 1}]
        BY DEF EffectsOK
    <2>2. overdue'[e] = [o \in D |-> IF Came(e, o) THEN overdue[e][o] + 1 ELSE overdue[e][o]]
        BY <1>3, <2>1
    <2>3. CASE e \notin DOMAIN s.effects
        <3>1. \A o \in D : ~Came(e, o) /\ overdue[e][o] = 0
            BY <2>3 DEF EffectsOK, Came, Due
        <3>2. e \notin DOMAIN after
            BY <1>1, <2>3
        <3> QED BY <2>1, <2>2, <3>1, <3>2
    <2>4. CASE e \in DOMAIN s.effects
        <3>1. /\ IsEffect(x) /\ DOMAIN x.obligations = D
              /\ \A o \in D : Announced(x.obligations[o], overdue[e][o])
            BY <2>4 DEF EffectsOK
        <3>2. after[e] = y /\ e \in DOMAIN after
            BY <1>1, <2>4
        <3>3. /\ IsEffect(y) /\ DOMAIN y.obligations = D
              /\ \A o \in D : IF Passed(x.obligations[o], now)
                               THEN y.obligations[o].state = "overdue"
                               ELSE y.obligations[o] = x.obligations[o]
            BY <3>1, MarkedEffect
        <3>4. \A o \in D : Came(e, o) <=> Passed(x.obligations[o], now)
            BY <2>4, <3>1 DEF Came, Due
        <3>5. \A o \in D : Passed(x.obligations[o], now) => overdue[e][o] = 0
            BY <3>1 DEF Announced, Passed
        <3> HIDE DEF x, y, D
        <3>6. \A o \in D : overdue'[e][o] = IF Passed(x.obligations[o], now) THEN 1
                                            ELSE overdue[e][o]
            BY <2>2, <3>4, <3>5
        <3>7. \A o \in D : Announced(y.obligations[o], overdue'[e][o])
            BY <3>1, <3>3, <3>6 DEF Announced
        <3>8. overdue'[e] \in [D -> {0, 1}]
            BY <2>1, <2>2, <3>4, <3>5
        <3> QED BY <3>2, <3>3, <3>7, <3>8 DEF D
    <2> QED BY <2>3, <2>4
<1>5. DOMAIN overdue' = DOMAIN NewEffect /\ DOMAIN after \subseteq DOMAIN NewEffect
    BY <1>1, <1>2, <1>3
<1> QED BY <1>4, <1>5, Zenon DEF EffectsOK, after

-----------------------------------------------------------------------------
(* Admission, and what an admitted command does to effects and grants. *)

\* An admitted command passed every step of the admission (admit_command).
LEMMA AdmittedMeans ==
    ASSUME NEW s, NEW c, NEW generation, c.op \in Commands,
           Handle(s, c, generation) = Admitted
    PROVE  /\ WellFormed(c) /\ c.digest = "right"
           /\ ~(generation > window.current) /\ ~(generation < window.oldest)
           /\ ~Bound(s, c)
           /\ Step6(s, c) = "ok"
           /\ c.key \in DOMAIN c.pre
           /\ Stale(s, c) = {}
           /\ Found(s, c)
<1>1. \A code : Refuse(code) = Admitted => code = "admitted"
    BY DEF Refuse, Admitted, Answer
<1>2. \A code, reason, shown : Answer(code, reason, shown) = Admitted => code = "admitted"
    BY DEF Refuse, Admitted, Answer
<1>3. Admission(s, c, generation) = Admitted /\ Found(s, c)
    BY <1>1 DEF Handle
<1>4. /\ WellFormed(c) /\ c.digest = "right"
      /\ ~(generation > window.current) /\ ~(generation < window.oldest)
      /\ ~Bound(s, c)
      /\ Authorised(s, c) = Admitted
    BY <1>1, <1>3 DEF Admission
<1>5. /\ Step6(s, c) = "ok"
      /\ c.key \in DOMAIN c.pre
      /\ Stale(s, c) = {}
    BY <1>1, <1>2, <1>4 DEF Authorised
<1> QED BY <1>3, <1>4, <1>5

\* An abort that is admitted finds a wait that is open or overdue.
LEMMA CommitKeepsEffects ==
    ASSUME NEW s, NEW c, Found(s, c), NEW times, EffectsOK(s.effects, times)
    PROVE  EffectsOK(EffectsAfter(s, c), times)
<1>1. CASE c.op # "abort"
    BY <1>1 DEF EffectsAfter
<1>2. CASE c.op = "abort"
    <2> DEFINE e0 == c.key.id
               x == s.effects[e0]
               y == AbortWait(x, c.obligation)
               after == EffectsAfter(s, c)
    <2>1. e0 \in DOMAIN s.effects /\ c.obligation \in DOMAIN x.obligations
        BY <1>2 DEF Found
    <2>2. after = [s.effects EXCEPT ![e0] = y]
        BY <1>2, Zenon DEF EffectsAfter
    <2>3. IsEffect(x) /\ DOMAIN x.obligations = DOMAIN NewEffect[e0].obligations
        BY <2>1 DEF EffectsOK
    <2>4. /\ IsEffect(y) /\ DOMAIN y.obligations = DOMAIN x.obligations
          /\ y.obligations[c.obligation].state = "aborted"
          /\ \A o \in DOMAIN x.obligations :
                 o # c.obligation => y.obligations[o] = x.obligations[o]
        BY <2>1, <2>3, AbortedEffect
    <2>5. /\ DOMAIN after = DOMAIN s.effects /\ after[e0] = y
          /\ \A e \in DOMAIN s.effects : e # e0 => after[e] = s.effects[e]
        <3> HIDE DEF y, after
        <3> QED BY <2>1, <2>2
    <2> HIDE DEF y, after, x
    <2>6. ASSUME NEW o \in DOMAIN NewEffect[e0].obligations
          PROVE  Announced(y.obligations[o], times[e0][o])
        <3>1. Announced(x.obligations[o], times[e0][o])
            BY <2>1 DEF EffectsOK, x
        <3> QED BY <2>3, <2>4, <3>1 DEF Announced
    <2>7. ASSUME NEW e \in DOMAIN NewEffect
          PROVE  /\ times[e] \in [DOMAIN NewEffect[e].obligations -> {0, 1}]
                 /\ e \notin DOMAIN after =>
                        \A o \in DOMAIN NewEffect[e].obligations : times[e][o] = 0
                 /\ e \in DOMAIN after =>
                        /\ IsEffect(after[e])
                        /\ DOMAIN after[e].obligations = DOMAIN NewEffect[e].obligations
                        /\ \A o \in DOMAIN NewEffect[e].obligations :
                               Announced(after[e].obligations[o], times[e][o])
        <3>1. CASE e = e0
            BY <2>1, <2>3, <2>4, <2>5, <2>6, <3>1 DEF EffectsOK
        <3>2. CASE e # e0
            BY <2>5, <3>2 DEF EffectsOK
        <3> QED BY <3>1, <3>2
    <2>8. DOMAIN times = DOMAIN NewEffect /\ DOMAIN after \subseteq DOMAIN NewEffect
        BY <2>5 DEF EffectsOK
    <2> QED BY <2>7, <2>8, Zenon DEF EffectsOK, after
<1> QED BY <1>1, <1>2

\* Whatever descends from a revoked grant is revoked with it
\* (active_descendants).
LEMMA CascadeClosed ==
    ASSUME NEW s, NEW root, NEW id \in DOMAIN s.grants,
           s.grants[id].parent \in Cascade(s, root)
    PROVE  id \in Cascade(s, root) \/ s.grants[id].revoked
<1>1. CASE id = root
    BY <1>1 DEF Cascade
<1>2. CASE id # root
    <2>1. ASSUME NEW ids \in SUBSET DOMAIN s.grants,
                 Children(s, ids \cup {root}) \subseteq ids
          PROVE  id \in ids
        <3>1. s.grants[id].parent \in ids \cup {root}
            BY <2>1 DEF Cascade, Descendants
        <3> QED BY <2>1, <3>1 DEF Children
    <2>2. id \in Descendants(s, root)
        BY <1>2, <2>1 DEF Descendants
    <2> QED BY <2>2 DEF Cascade
<1> QED BY <1>1, <1>2

\* An issue is admitted for a key that was never issued, under a parent that is
\* usable and that it does not exceed (authorize_issue).
LEMMA IssueIsWithin ==
    ASSUME NEW s, IsStore(s), GrantsOK(s), NEW r \in Request, NEW generation,
           Envelope[r].op = "issue",
           Handle(s, Envelope[r], generation) = Admitted
    PROVE  LET c == Envelope[r]
               child == Issued(c.issue, c.who)
           IN  /\ c.key = GrantKey(c.key.id)
               /\ c.key.id \notin DOMAIN s.grants
               /\ IsGrant(child)
               /\ child.parent # NoParent =>
                      /\ child.parent \in DOMAIN s.grants
                      /\ Within(child, s.grants[child.parent])
                      /\ ~s.grants[child.parent].revoked
<1> DEFINE c == Envelope[r]
           child == Issued(c.issue, c.who)
           parent == s.grants[child.parent]
<1>1. /\ c.key \in Key /\ c.key.kind = "core.grant"
      /\ c.op \in Commands
      /\ IsIssue(c.issue)
    BY EnvelopeAssumption DEF Commands
<1>2. c.key = GrantKey(c.key.id)
    BY <1>1, KeyAssumption DEF GrantKey
<1>3. WellFormed(c) /\ Step6(s, c) = "ok" /\ Stale(s, c) = {} /\ c.key \in DOMAIN c.pre
    BY <1>1, AdmittedMeans
<1>4. s.rev[c.key] = 0
    <2>1. c.pre[c.key] = 0
        BY <1>3 DEF WellFormed
    <2> QED BY <1>3, <2>1 DEF Stale
<1>5. c.key.id \notin DOMAIN s.grants
    <2>1. s.rev[c.key] \in Nat
        BY <1>1, StoreHasRevisions
    <2> QED BY <1>2, <1>4, <2>1 DEF GrantsOK
<1>6. AuthorizeIssue(s, c) = "ok"
    BY <1>3 DEF Step6
<1>7. /\ child.parent # NoParent => Exists(s, child.parent)
      /\ child.parent # NoParent => Usable(parent, Now, Epoch(s)) = "ok"
      /\ child.parent # NoParent => MayDelegateTo(parent, child)
    <2> HIDE DEF child
    <2> QED BY <1>6 DEF AuthorizeIssue, child
<1>8. IsGrant(child)
    <2>1. /\ c.issue.expires \in Nat \cup {NoExpiry} /\ c.issue.depth \in Int
          /\ \A resource \in c.issue.resources : IsResource(resource)
        BY <1>1 DEF IsIssue
    <2> QED BY <2>1 DEF IsGrant, Issued
<1>9. child.parent # NoParent => Within(child, parent) /\ ~parent.revoked
    <2> HIDE DEF child, parent
    <2> QED BY <1>7 DEF MayDelegateTo, Within, Usable
<1> QED BY <1>2, <1>5, <1>7, <1>8, <1>9 DEF Exists

\* A revocation reaches whatever descends from the grant.
LEMMA RevokeKeepsGrants ==
    ASSUME NEW s, NEW t, NEW c, GrantsOK(s), c.op = "revoke",
           t.grants = GrantsAfter(s, c),
           \A k \in Key : t.rev[k] >= s.rev[k],
           s.rev \in [Key -> Nat], t.rev \in [Key -> Nat]
    PROVE  GrantsOK(t)
<1> DEFINE gone == Cascade(s, c.key.id)
           Revoke(grant) == [grant EXCEPT !.revoked = TRUE]
<1>1. t.grants = [id \in DOMAIN s.grants |-> IF id \in gone THEN Revoke(s.grants[id])
                                                            ELSE s.grants[id]]
    BY DEF GrantsAfter
<1>2. ASSUME NEW grant, IsGrant(grant)
      PROVE  /\ IsGrant(Revoke(grant)) /\ Revoke(grant).revoked
             /\ Revoke(grant).parent = grant.parent
             /\ \A other : Within(Revoke(grant), other) <=> Within(grant, other)
             /\ \A other : Within(other, Revoke(grant)) <=> Within(other, grant)
    <2> DEFINE g == Revoke(grant)
    <2>1. grant \in [issuer : {grant.issuer}, revoked : BOOLEAN, holder : {grant.holder},
                     rights : {grant.rights}, resources : {grant.resources},
                     expires : Nat \cup {NoExpiry}, binding : {grant.binding},
                     allowed : {grant.allowed}, depth : Int, parent : {grant.parent},
                     constraints : {grant.constraints}]
        BY <1>2 DEF IsGrant
    <2>2. /\ g.issuer = grant.issuer /\ g.revoked = TRUE /\ g.holder = grant.holder
          /\ g.rights = grant.rights /\ g.resources = grant.resources
          /\ g.expires = grant.expires /\ g.binding = grant.binding
          /\ g.allowed = grant.allowed /\ g.depth = grant.depth
          /\ g.parent = grant.parent /\ g.constraints = grant.constraints
          /\ g \in [issuer : {grant.issuer}, revoked : BOOLEAN, holder : {grant.holder},
                    rights : {grant.rights}, resources : {grant.resources},
                    expires : Nat \cup {NoExpiry}, binding : {grant.binding},
                    allowed : {grant.allowed}, depth : Int, parent : {grant.parent},
                    constraints : {grant.constraints}]
        BY <2>1
    <2> HIDE DEF g
    <2>3. IsGrant(g)
        BY <1>2, <2>2 DEF IsGrant
    <2> QED BY <2>2, <2>3 DEF Within, g
<1> HIDE DEF Revoke
<1>3. ASSUME NEW id \in DOMAIN t.grants
      PROVE  /\ GrantKey(id) \in Key /\ t.rev[GrantKey(id)] > 0
             /\ IsGrant(t.grants[id])
             /\ Descends(t.grants, id)
    <2> DEFINE up == s.grants[id].parent
    <2>1. /\ id \in DOMAIN s.grants /\ GrantKey(id) \in Key /\ s.rev[GrantKey(id)] > 0
          /\ IsGrant(s.grants[id]) /\ Descends(s.grants, id)
        BY <1>1 DEF GrantsOK
    <2>2. IsGrant(t.grants[id]) /\ t.grants[id].parent = up
        BY <1>1, <1>2, <2>1
    <2>3. t.rev[GrantKey(id)] > 0
        BY <2>1
    <2>4. Descends(t.grants, id)
        <3> SUFFICES ASSUME up # NoParent
                     PROVE  /\ up \in DOMAIN t.grants
                            /\ Within(t.grants[id], t.grants[up])
                            /\ t.grants[up].revoked => t.grants[id].revoked
            BY <2>2 DEF Descends
        <3>1. /\ up \in DOMAIN s.grants
              /\ Within(s.grants[id], s.grants[up])
              /\ s.grants[up].revoked => s.grants[id].revoked
            BY <2>1 DEF Descends
        <3>2. IsGrant(s.grants[up])
            BY <3>1 DEF GrantsOK
        <3>3. Within(t.grants[id], t.grants[up])
            BY <1>1, <1>2, <2>1, <3>1, <3>2
        <3>4. t.grants[up].revoked => up \in gone \/ s.grants[up].revoked
            BY <1>1, <3>1
        <3>5. up \in gone => id \in gone \/ s.grants[id].revoked
            BY <2>1, CascadeClosed
        <3>6. id \in gone \/ s.grants[id].revoked => t.grants[id].revoked
            BY <1>1, <1>2, <2>1
        <3> QED BY <1>1, <3>1, <3>3, <3>4, <3>5, <3>6
    <2> QED BY <2>1, <2>2, <2>3, <2>4
<1> QED BY <1>3, Zenon DEF GrantsOK

\* A step that writes no grant leaves them as they were; revisions only grow.
LEMMA SameGrants ==
    ASSUME NEW s, NEW t, GrantsOK(s), t.grants = s.grants,
           s.rev \in [Key -> Nat], t.rev \in [Key -> Nat],
           \A k \in Key : k.kind = "core.grant" => t.rev[k] >= s.rev[k]
    PROVE  GrantsOK(t)
<1>1. ASSUME NEW id \in DOMAIN t.grants
      PROVE  /\ GrantKey(id) \in Key /\ t.rev[GrantKey(id)] > 0
             /\ IsGrant(t.grants[id])
             /\ Descends(t.grants, id)
    <2>1. /\ GrantKey(id) \in Key /\ s.rev[GrantKey(id)] > 0
          /\ IsGrant(s.grants[id]) /\ Descends(s.grants, id)
        BY DEF GrantsOK
    <2>2. GrantKey(id).kind = "core.grant"
        BY DEF GrantKey
    <2> QED BY <2>1, <2>2
<1> QED BY <1>1, Zenon DEF GrantsOK

\* An issue writes a grant that descends from the one it names.
LEMMA IssueKeepsGrants ==
    ASSUME NEW s, IsStore(s), GrantsOK(s), NEW r \in Request, NEW generation,
           Envelope[r].op = "issue",
           Handle(s, Envelope[r], generation) = Admitted,
           NEW t, t = Commit(s, Envelope[r], generation)
    PROVE  GrantsOK(t)
<1> DEFINE c == Envelope[r]
           id0 == c.key.id
           child == Issued(c.issue, c.who)
<1>1. /\ c.key = GrantKey(id0) /\ id0 \notin DOMAIN s.grants /\ IsGrant(child)
      /\ child.parent # NoParent =>
             /\ child.parent \in DOMAIN s.grants
             /\ Within(child, s.grants[child.parent])
             /\ ~s.grants[child.parent].revoked
    BY IssueIsWithin
<1>2. /\ IsStore(t) /\ t.grants = GrantsAfter(s, c)
      /\ \A k \in Key : t.rev[k] >= s.rev[k]
      /\ \A k \in Key : k \in Changed(s, c) => t.rev[k] > 0
    BY CommittedStore
<1>3. c.key \in Key /\ Changed(s, c) = {c.key}
    BY EnvelopeAssumption DEF Changed
<1>4. t.grants = [id \in DOMAIN s.grants \cup {id0} |-> IF id = id0 THEN child ELSE s.grants[id]]
    BY <1>2, Zenon DEF GrantsAfter, With
<1>5. s.rev \in [Key -> Nat] /\ t.rev \in [Key -> Nat]
    BY <1>2, StoreHasRevisions
<1> HIDE DEF child, id0, c
<1>6. /\ t.grants[id0] = child /\ DOMAIN t.grants = DOMAIN s.grants \cup {id0}
      /\ \A id \in DOMAIN s.grants : t.grants[id] = s.grants[id]
    BY <1>1, <1>4
<1>7. ASSUME NEW id \in DOMAIN t.grants
      PROVE  /\ GrantKey(id) \in Key /\ t.rev[GrantKey(id)] > 0
             /\ IsGrant(t.grants[id])
             /\ Descends(t.grants, id)
    <2>1. CASE id = id0
        <3>1. Descends(t.grants, id0)
            BY <1>1, <1>6 DEF Descends
        <3> QED BY <1>1, <1>2, <1>3, <1>6, <2>1, <3>1
    <2>2. CASE id # id0
        <3>1. /\ id \in DOMAIN s.grants /\ GrantKey(id) \in Key /\ s.rev[GrantKey(id)] > 0
              /\ IsGrant(s.grants[id]) /\ Descends(s.grants, id)
            BY <1>6, <2>2 DEF GrantsOK
        <3>2. t.grants[id] = s.grants[id]
            BY <1>6, <3>1
        <3>3. Descends(t.grants, id)
            BY <1>6, <3>1, <3>2 DEF Descends
        <3> QED BY <1>2, <1>5, <3>1, <3>2, <3>3
    <2> QED BY <2>1, <2>2
<1> QED BY <1>7, Zenon DEF GrantsOK

\* An admitted command leaves every grant within its parent.
LEMMA CommitKeepsGrants ==
    ASSUME NEW s, IsStore(s), GrantsOK(s), NEW r \in Request, NEW generation,
           Handle(s, Envelope[r], generation) = Admitted,
           NEW t, t = Commit(s, Envelope[r], generation)
    PROVE  GrantsOK(t)
<1> DEFINE c == Envelope[r]
<1>1. /\ IsStore(t) /\ t.grants = GrantsAfter(s, c)
      /\ \A k \in Key : t.rev[k] >= s.rev[k]
    BY CommittedStore
<1>2. s.rev \in [Key -> Nat] /\ t.rev \in [Key -> Nat]
    BY <1>1, StoreHasRevisions
<1>3. c.op = "issue" => GrantsOK(t)
    BY IssueKeepsGrants
<1> HIDE DEF c
<1>4. CASE c.op = "revoke"
    BY <1>1, <1>2, <1>4, RevokeKeepsGrants
<1>5. CASE c.op \notin {"issue", "revoke"}
    <2>1. t.grants = s.grants
        BY <1>1, <1>5 DEF GrantsAfter
    <2> QED BY <1>1, <1>2, <2>1, SameGrants
<1> QED BY <1>3, <1>4, <1>5

-----------------------------------------------------------------------------
(* What is kept of the commands. *)

\* The window only moves forward.
LEMMA OldestOnlyGrows ==
    ASSUME NEW g \in Nat, NEW h \in Nat, g <= h
    PROVE  /\ Max({0, g - Retain + 1}) \in Nat
           /\ Max({0, g - Retain + 1}) <= Max({0, h - Retain + 1})
           /\ g > 0 => Max({0, g - Retain + 1}) <= g
<1>1. Retain \in Nat /\ Retain > 0
    BY CommandAssumption
<1>2. g - Retain + 1 \in Int /\ h - Retain + 1 \in Int /\ g - Retain + 1 <= h - Retain + 1
      /\ g - Retain + 1 <= g
    BY <1>1
<1> DEFINE a == g - Retain + 1
           b == h - Retain + 1
<1> HIDE DEF a, b
<1>3. /\ Max({0, a}) = IF 0 >= a THEN 0 ELSE a
      /\ Max({0, b}) = IF 0 >= b THEN 0 ELSE b
    BY <1>2, MaxOfTwo DEF a, b
<1>4. a \in Int /\ b \in Int /\ a <= b /\ a <= g
    BY <1>2 DEF a, b
<1>5. /\ Max({0, a}) \in Nat
      /\ Max({0, a}) <= Max({0, b})
      /\ g > 0 => Max({0, a}) <= g
    BY <1>3, <1>4
<1> QED BY <1>5 DEF a, b

\* A step that sends nothing and leaves the records and the window alone.
LEMMA SameHistory ==
    ASSUME HistoryOK, UNCHANGED <<window, sent, commits, results>>,
           db'.bound = db.bound, db'.generation = db.generation
    PROVE  HistoryOK'
<1>1. \A r \in Request : commits'[r] = 1 => Applied(r)'
    BY DEF HistoryOK, Applied
<1>2. \A r \in Request : commits'[r] # 1 => sent'[r] = 0
    BY DEF HistoryOK
<1>3. /\ sent' \in [Request -> 0 .. MaxGeneration]
      /\ commits' \in [Request -> {0, 1}]
      /\ DOMAIN results' = {r \in Request : commits'[r] = 1}
      /\ \A b \in DOMAIN db'.bound : db'.bound[b].generation \in 1 .. db'.generation
    BY DEF HistoryOK
<1> QED BY <1>1, <1>2, <1>3 DEF HistoryOK

\* An admitted command was not committed before: its generation is in the window
\* and it is not bound, while a committed command whose generation is in the
\* window is (admit_command, step 5).
LEMMA AdmittedIsNew ==
    ASSUME WindowOK, HistoryOK, NEW r \in Request, NEW s, s.bound = db.bound,
           NEW generation \in IF sent[r] = 0 THEN 1 .. window.current ELSE {sent[r]},
           Envelope[r].op \in Commands,
           Handle(s, Envelope[r], generation) = Admitted
    PROVE  /\ commits[r] = 0
           /\ generation \in 1 .. db.generation
           /\ CommandKey(Envelope[r]) \notin DOMAIN db.bound
<1> DEFINE c == Envelope[r]
<1>1. ~(generation < window.oldest) /\ ~Bound(s, c)
    BY AdmittedMeans
<1>2. CommandKey(c) \notin DOMAIN db.bound
    BY <1>1 DEF Bound
<1>3. window.oldest \in Nat /\ window.current = db.generation /\ db.generation \in Nat
    <2>1. db.generation \in Nat
        BY CommandAssumption DEF WindowOK
    <2> QED BY <2>1, OldestOnlyGrows DEF WindowOK
<1>4. sent[r] \in Nat /\ commits[r] \in {0, 1}
    BY CommandAssumption DEF HistoryOK
<1>5. commits[r] # 1
    <2> SUFFICES ASSUME commits[r] = 1 PROVE FALSE
        OBVIOUS
    <2>1. /\ sent[r] \in 1 .. db.generation
          /\ sent[r] >= window.oldest => CommandKey(c) \in DOMAIN db.bound
        BY DEF HistoryOK, Applied
    <2>2. generation = sent[r]
        BY <1>3, <1>4, <2>1
    <2> QED BY <1>1, <1>2, <1>3, <1>4, <2>1, <2>2
<1>6. sent[r] = 0
    BY <1>5 DEF HistoryOK
<1> QED BY <1>2, <1>3, <1>4, <1>5, <1>6

\* A commit binds the command for the first time, and unbinds none.
LEMMA CommitKeepsHistory ==
    ASSUME WindowOK, HistoryOK, NEW r \in Request,
           NEW s, IsStore(s), s.bound = db.bound, s.generation = db.generation,
           NEW generation \in IF sent[r] = 0 THEN 1 .. window.current ELSE {sent[r]},
           Envelope[r].op \in Commands,
           Handle(s, Envelope[r], generation) = Admitted,
           db' = Commit(s, Envelope[r], generation),
           UNCHANGED window,
           sent' = [sent EXCEPT ![r] = generation],
           commits' = [commits EXCEPT ![r] = @ + 1],
           results' = IF r \in DOMAIN results THEN results
                      ELSE With(results, r, Result(s, Envelope[r]))
    PROVE  HistoryOK'
<1> DEFINE c == Envelope[r]
           b == CommandKey(c)
<1>1. /\ commits[r] = 0 /\ generation \in 1 .. db.generation
      /\ b \notin DOMAIN db.bound
    BY AdmittedIsNew
<1>2. WellFormed(c) /\ c.digest = "right"
    BY AdmittedMeans
<1>3. /\ db'.bound = With(db.bound, b, Record(s, c, generation))
      /\ db'.generation = db.generation
    BY CommittedStore
<1>4. /\ db'.bound[b] = Record(s, c, generation)
      /\ DOMAIN db'.bound = DOMAIN db.bound \cup {b}
      /\ \A q \in DOMAIN db.bound : db'.bound[q] = db.bound[q]
    <2> HIDE DEF b, c
    <2> QED BY <1>1, <1>3 DEF With
<1>5. /\ sent'[r] = generation /\ commits'[r] = 1
      /\ \A q \in Request : q # r => sent'[q] = sent[q] /\ commits'[q] = commits[q]
      /\ sent' \in [Request -> 0 .. MaxGeneration]
      /\ commits' \in [Request -> {0, 1}]
    <2>1. generation \in 0 .. MaxGeneration
        BY <1>1, CommandAssumption DEF WindowOK
    <2> QED BY <1>1, <2>1 DEF HistoryOK
<1>6. /\ results'[r] = Result(s, c)
      /\ DOMAIN results' = DOMAIN results \cup {r}
      /\ \A q \in DOMAIN results : results'[q] = results[q]
    <2>1. r \notin DOMAIN results
        BY <1>1 DEF HistoryOK
    <2> QED BY <2>1 DEF With
<1>7. DOMAIN results' = {q \in Request : commits'[q] = 1}
    BY <1>5, <1>6 DEF HistoryOK
<1>8. ASSUME NEW q \in DOMAIN db'.bound
      PROVE  db'.bound[q].generation \in 1 .. db'.generation
    <2>1. CASE q = b
        BY <1>1, <1>3, <1>4, <2>1 DEF Record
    <2>2. CASE q # b
        BY <1>3, <1>4, <2>2 DEF HistoryOK
    <2> QED BY <2>1, <2>2
<1> HIDE DEF b, c
<1>9. Applied(r)'
    <2>1. /\ sent'[r] \in 1 .. db'.generation
          /\ b \in DOMAIN db'.bound
          /\ db'.bound[b] = [body |-> c.body, generation |-> sent'[r],
                             result |-> results'[r]]
        BY <1>1, <1>3, <1>4, <1>5, <1>6 DEF Record
    <2> QED BY <1>2, <2>1 DEF Applied, b, c
<1>10. ASSUME NEW q \in Request, q # r, commits'[q] = 1
       PROVE  Applied(q)'
    <2>1. Applied(q) /\ sent'[q] = sent[q] /\ results'[q] = results[q]
        BY <1>5, <1>6, <1>10 DEF HistoryOK
    <2> QED BY <1>3, <1>4, <2>1 DEF Applied
<1>11. \A q \in Request : IF commits'[q] = 1 THEN Applied(q)' ELSE sent'[q] = 0
    <2>1. \A q \in Request : commits'[q] # 1 => sent'[q] = 0
        BY <1>5 DEF HistoryOK
    <2> QED BY <1>9, <1>10, <2>1
<1> QED BY <1>5, <1>7, <1>8, <1>11 DEF HistoryOK

-----------------------------------------------------------------------------
(* The steps. *)

\* A start moves the window by one and discards the records that leave it.
LEMMA StartedStore ==
    ASSUME IsStore(db), WindowOK, db.generation < MaxGeneration, StartGeneration(db)
    PROVE  /\ IsStore(db)' /\ WindowOK'
           /\ db'.grants = db.grants /\ db'.effects = db.effects /\ db'.rev = db.rev
           /\ db'.generation = db.generation + 1
           /\ window'.oldest >= window.oldest
           /\ DOMAIN db'.bound \subseteq DOMAIN db.bound
           /\ \A b \in DOMAIN db'.bound : db'.bound[b] = db.bound[b]
           /\ \A b \in DOMAIN db.bound :
                  db.bound[b].generation >= window'.oldest => b \in DOMAIN db'.bound
<1> DEFINE current == db.generation + 1
           oldest == Max({0, current - Retain + 1})
           kept == {b \in DOMAIN db.bound : db.bound[b].generation >= oldest}
           bound2 == [b \in kept |-> db.bound[b]]
<1>1. db.generation \in Nat /\ current \in 1 .. MaxGeneration /\ db.generation <= current
      /\ current \in Nat
    BY CommandAssumption DEF WindowOK
<1>2. window' = [current |-> current, oldest |-> oldest]
    BY DEF StartGeneration
<1>3. PICK writes : db' = [db EXCEPT !.generation = current, !.writes = writes,
                                    !.bound = bound2]
    BY DEF StartGeneration
<1>4. db \in [rev : [Key -> Nat], grants : {db.grants}, effects : {db.effects},
            bound : {db.bound}, generation : {db.generation},
            writes : {db.writes}]
    BY DEF IsStore
<1>5. window'.oldest = oldest /\ oldest >= window.oldest
    <2>1. Max({0, db.generation - Retain + 1}) <= oldest
        BY <1>1, OldestOnlyGrows
    <2>2. oldest \in Nat /\ Max({0, db.generation - Retain + 1}) \in Nat
        BY <1>1, OldestOnlyGrows
    <2> QED BY <1>2, <2>1, <2>2 DEF WindowOK
<1>6. /\ DOMAIN bound2 \subseteq DOMAIN db.bound
      /\ \A b \in DOMAIN bound2 : bound2[b] = db.bound[b]
      /\ \A b \in DOMAIN db.bound : db.bound[b].generation >= oldest => b \in DOMAIN bound2
    OBVIOUS
<1> HIDE DEF oldest, bound2, kept
<1>7. /\ db' \in [rev : [Key -> Nat], grants : {db.grants}, effects : {db.effects}, bound : {bound2},
                  generation : {current}, writes : {writes}]
      /\ db'.grants = db.grants /\ db'.effects = db.effects /\ db'.rev = db.rev
      /\ db'.bound = bound2 /\ db'.generation = current
    <2> HIDE DEF current
    <2> QED BY <1>3, <1>4
<1>8. IsStore(db)'
    BY <1>7 DEF IsStore
<1>9. WindowOK'
    BY <1>1, <1>2, <1>7 DEF WindowOK, oldest
<1> QED BY <1>5, <1>6, <1>7, <1>8, <1>9

\* A start discards the records of generations that leave the window, no other.
LEMMA StartKeepsHistory ==
    ASSUME IsStore(db), WindowOK, HistoryOK, db.generation < MaxGeneration,
           StartGeneration(db), UNCHANGED <<sent, commits, results>>
    PROVE  HistoryOK'
<1>1. /\ db'.generation = db.generation + 1
      /\ window'.oldest >= window.oldest
      /\ DOMAIN db'.bound \subseteq DOMAIN db.bound
      /\ \A b \in DOMAIN db'.bound : db'.bound[b] = db.bound[b]
      /\ \A b \in DOMAIN db.bound :
             db.bound[b].generation >= window'.oldest => b \in DOMAIN db'.bound
      /\ WindowOK'
    BY StartedStore
<1>2. /\ db.generation \in Nat /\ window.oldest \in Nat
      /\ db'.generation \in Nat /\ window'.oldest \in Nat
    <2>1. db.generation \in Nat /\ db'.generation \in Nat
        BY <1>1, CommandAssumption DEF WindowOK
    <2>2. Max({0, db.generation - Retain + 1}) \in Nat
        BY <2>1, OldestOnlyGrows
    <2>3. Max({0, db'.generation - Retain + 1}) \in Nat
        BY <2>1, OldestOnlyGrows
    <2> QED BY <1>1, <2>1, <2>2, <2>3 DEF WindowOK
<1>3. ASSUME NEW q \in Request, commits'[q] = 1
      PROVE  Applied(q)'
    <2> DEFINE c == Envelope[q]
               b == CommandKey(c)
    <2>1. /\ WellFormed(c) /\ c.digest = "right" /\ c.op \in Commands
          /\ sent[q] \in 1 .. db.generation
          /\ sent[q] >= window.oldest =>
                 /\ b \in DOMAIN db.bound
                 /\ db.bound[b] = [body |-> c.body, generation |-> sent[q],
                                   result |-> results[q]]
        BY <1>3 DEF HistoryOK, Applied
    <2> HIDE DEF c, b
    <2>2. sent'[q] \in 1 .. db'.generation
        BY <1>1, <1>2, <2>1
    <2>3. ASSUME sent'[q] >= window'.oldest
          PROVE  /\ b \in DOMAIN db'.bound
                 /\ db'.bound[b] = [body |-> c.body, generation |-> sent'[q],
                                    result |-> results'[q]]
        <3>1. sent[q] >= window.oldest
            BY <1>1, <1>2, <2>1, <2>3
        <3>2. db.bound[b].generation = sent[q]
            BY <2>1, <3>1
        <3> QED BY <1>1, <2>1, <2>3, <3>1, <3>2
    <2> QED BY <2>1, <2>2, <2>3 DEF Applied, c, b
<1>4. \A b \in DOMAIN db'.bound : db'.bound[b].generation \in 1 .. db'.generation
    BY <1>1, <1>2 DEF HistoryOK
<1>5. \A q \in Request : IF commits'[q] = 1 THEN Applied(q)' ELSE sent'[q] = 0
    BY <1>3 DEF HistoryOK
<1> QED BY <1>4, <1>5 DEF HistoryOK

\* A producer's writes: an effect that is new, or one whose outcome it observed.
LEMMA ProducedStore ==
    ASSUME IsStore(db), NEW effects, NEW key, key.kind = "core.effect", NEW n \in Nat,
           db' = [db EXCEPT !.effects = effects, !.rev[key] = n]
    PROVE  /\ IsStore(db)'
           /\ db'.grants = db.grants /\ db'.effects = effects /\ db'.bound = db.bound
           /\ db'.generation = db.generation /\ db'.writes = db.writes
           /\ \A k \in Key : k.kind # "core.effect" => db'.rev[k] = db.rev[k]
<1>1. db \in [rev : [Key -> Nat], grants : {db.grants}, effects : {db.effects},
            bound : {db.bound}, generation : {db.generation},
            writes : {db.writes}]
    BY DEF IsStore
<1> DEFINE rev2 == [db.rev EXCEPT ![key] = n]
<1>2. db' = [db EXCEPT !.effects = effects, !.rev = rev2]
    OBVIOUS
<1>3. /\ rev2 \in [Key -> Nat]
      /\ \A k \in Key : k.kind # "core.effect" => rev2[k] = db.rev[k]
    BY <1>1
<1> HIDE DEF rev2
<1>4. /\ db' \in [rev : [Key -> Nat], grants : {db.grants}, effects : {effects}, bound : {db.bound},
                  generation : {db.generation}, writes : {db.writes}]
      /\ db'.grants = db.grants /\ db'.effects = effects /\ db'.bound = db.bound
      /\ db'.generation = db.generation /\ db'.writes = db.writes /\ db'.rev = rev2
    BY <1>1, <1>2, <1>3
<1>5. IsStore(db)'
    BY <1>4 DEF IsStore
<1> QED BY <1>3, <1>4, <1>5

\* A new effect has announced nothing; what is observed of one announces nothing.
LEMMA ProduceKeepsEffects ==
    ASSUME NEW effects, NEW times, EffectsOK(effects, times),
           NEW e0 \in DOMAIN NewEffect, e0 \notin DOMAIN effects
    PROVE  EffectsOK(With(effects, e0, NewEffect[e0]), times)
<1> DEFINE after == With(effects, e0, NewEffect[e0])
<1>1. /\ DOMAIN after = DOMAIN effects \cup {e0} /\ after[e0] = NewEffect[e0]
      /\ \A e \in DOMAIN effects : after[e] = effects[e]
    BY DEF With
<1> HIDE DEF after
<1>2. \A o \in DOMAIN NewEffect[e0].obligations :
          Announced(NewEffect[e0].obligations[o], times[e0][o])
    BY EffectAssumption DEF EffectsOK, Announced
<1>3. ASSUME NEW e \in DOMAIN NewEffect
      PROVE  /\ times[e] \in [DOMAIN NewEffect[e].obligations -> {0, 1}]
             /\ e \notin DOMAIN after =>
                    \A o \in DOMAIN NewEffect[e].obligations : times[e][o] = 0
             /\ e \in DOMAIN after =>
                    /\ IsEffect(after[e])
                    /\ DOMAIN after[e].obligations = DOMAIN NewEffect[e].obligations
                    /\ \A o \in DOMAIN NewEffect[e].obligations :
                           Announced(after[e].obligations[o], times[e][o])
    <2>1. CASE e = e0
        BY <1>1, <1>2, <2>1, EffectAssumption DEF EffectsOK
    <2>2. CASE e # e0
        BY <1>1, <2>2 DEF EffectsOK
    <2> QED BY <2>1, <2>2
<1>4. DOMAIN times = DOMAIN NewEffect /\ DOMAIN after \subseteq DOMAIN NewEffect
    BY <1>1 DEF EffectsOK
<1> QED BY <1>3, <1>4, Zenon DEF EffectsOK, after

\* A change of status leaves announcements that agree with the obligations.
LEMMA ObserveKeepsEffects ==
    ASSUME NEW effects, NEW times, EffectsOK(effects, times),
           NEW e0 \in DOMAIN effects, NEW status
    PROVE  EffectsOK([effects EXCEPT ![e0] = Observed(effects[e0], status)], times)
<1> DEFINE x == effects[e0]
           y == Observed(x, status)
           after == [effects EXCEPT ![e0] = y]
<1>1. IsEffect(x) /\ DOMAIN x.obligations = DOMAIN NewEffect[e0].obligations
    BY DEF EffectsOK
<1>2. /\ IsEffect(y) /\ DOMAIN y.obligations = DOMAIN x.obligations
      /\ \A o \in DOMAIN x.obligations :
             \/ y.obligations[o] = x.obligations[o]
             \/ Waiting(x.obligations[o]) /\ y.obligations[o].state = "satisfied"
    BY <1>1, ObservedEffect
<1> HIDE DEF y
<1>3. /\ DOMAIN after = DOMAIN effects /\ after[e0] = y
      /\ \A e \in DOMAIN effects : e # e0 => after[e] = effects[e]
    OBVIOUS
<1> HIDE DEF after, x
<1>4. ASSUME NEW o \in DOMAIN NewEffect[e0].obligations
      PROVE  Announced(y.obligations[o], times[e0][o])
    <2>1. Announced(x.obligations[o], times[e0][o])
        BY DEF EffectsOK, x
    <2> QED BY <1>1, <1>2, <2>1 DEF Announced
<1>5. ASSUME NEW e \in DOMAIN NewEffect
      PROVE  /\ times[e] \in [DOMAIN NewEffect[e].obligations -> {0, 1}]
             /\ e \notin DOMAIN after =>
                    \A o \in DOMAIN NewEffect[e].obligations : times[e][o] = 0
             /\ e \in DOMAIN after =>
                    /\ IsEffect(after[e])
                    /\ DOMAIN after[e].obligations = DOMAIN NewEffect[e].obligations
                    /\ \A o \in DOMAIN NewEffect[e].obligations :
                           Announced(after[e].obligations[o], times[e][o])
    <2>1. CASE e = e0
        BY <1>1, <1>2, <1>3, <1>4, <2>1 DEF EffectsOK
    <2>2. CASE e # e0
        BY <1>3, <2>2 DEF EffectsOK
    <2> QED BY <2>1, <2>2
<1>6. DOMAIN times = DOMAIN NewEffect /\ DOMAIN after \subseteq DOMAIN NewEffect
    BY <1>3 DEF EffectsOK
<1>7. EffectsOK(after, times)
    BY <1>5, <1>6, Zenon DEF EffectsOK
<1> QED BY <1>7 DEF after, y, x

\* The invariant holds of the initial store.
LEMMA CommandsInit == Init => CommandsInv
<1> SUFFICES ASSUME Init PROVE CommandsInv
    OBVIOUS
<1>1. IsStore(db)
    BY DEF Init, IsStore
<1>2. WindowOK
    BY CommandAssumption DEF Init, WindowOK
<1>3. ClockOK
    BY CommandAssumption DEF Init, ClockOK
<1>4. HistoryOK
    <2>1. DOMAIN results = {} /\ DOMAIN db.bound = {}
        BY DEF Init
    <2>2. 0 \in 0 .. MaxGeneration
        BY CommandAssumption
    <2>3. /\ sent = [r \in Request |-> 0] /\ commits = [r \in Request |-> 0]
        BY DEF Init
    <2> QED BY <2>1, <2>2, <2>3 DEF HistoryOK
<1>5. GrantsOK(db)
    <2>1. DOMAIN db.grants = {}
        BY DEF Init
    <2> QED BY <2>1 DEF GrantsOK
<1>6. EffectsOK(db.effects, overdue)
    <2>1. DOMAIN db.effects = {}
        BY DEF Init
    <2>2. overdue = [e \in DOMAIN NewEffect |-> [o \in DOMAIN NewEffect[e].obligations |-> 0]]
        BY DEF Init
    <2> QED BY <2>1, <2>2 DEF EffectsOK
<1> QED BY <1>1, <1>2, <1>3, <1>4, <1>5, <1>6 DEF CommandsInv

\* What every request and every idle session begins with.
LEMMA TickKeeps ==
    ASSUME CommandsInv, Announce(db, Now), NEW s, s = TickEffects(db, Now)
    PROVE  /\ IsStore(s) /\ GrantsOK(s) /\ EffectsOK(s.effects, overdue')
           /\ s.bound = db.bound /\ s.generation = db.generation
<1>1. IsStore(db) /\ GrantsOK(db) /\ EffectsOK(db.effects, overdue)
    BY DEF CommandsInv
<1>2. /\ IsStore(s) /\ s.grants = db.grants /\ s.bound = db.bound
      /\ s.generation = db.generation
      /\ \A k \in Key : s.rev[k] >= db.rev[k]
    BY <1>1, TickedStore
<1>3. EffectsOK(s.effects, overdue')
    BY <1>1, TickKeepsEffects
<1>4. db.rev \in [Key -> Nat] /\ s.rev \in [Key -> Nat]
    BY <1>1, <1>2, StoreHasRevisions
<1>5. GrantsOK(s)
    BY <1>1, <1>2, <1>4, SameGrants
<1> QED BY <1>2, <1>3, <1>5

\* Every request, sent for the first time or again, keeps the invariant.
LEMMA SendStep ==
    ASSUME CommandsInv, NEW r \in Request, Send(r)
    PROVE  CommandsInv'
<1> DEFINE c == Envelope[r]
<1>1. PICK s : s = TickEffects(db, Now)
    OBVIOUS
<1>2. PICK generation \in IF sent[r] = 0 THEN 1 .. window.current ELSE {sent[r]} :
          /\ Announce(db, Now)
          /\ clock' = [clock EXCEPT !.last = Now]
          /\ UNCHANGED window
          /\ IF c.op \in Commands /\ Handle(s, c, generation) = Admitted
             THEN /\ db' = Commit(s, c, generation)
                  /\ sent' = [sent EXCEPT ![r] = generation]
                  /\ commits' = [commits EXCEPT ![r] = @ + 1]
                  /\ results' = IF r \in DOMAIN results THEN results
                                ELSE With(results, r, Result(s, c))
             ELSE db' = s /\ UNCHANGED <<sent, commits, results>>
    BY <1>1, Zenon DEF Send
<1>3. /\ IsStore(s) /\ GrantsOK(s) /\ EffectsOK(s.effects, overdue')
      /\ s.bound = db.bound /\ s.generation = db.generation
    BY <1>1, <1>2, TickKeeps
<1>4. ClockOK'
    BY <1>2, NowIsLater DEF ClockOK, CommandsInv
<1>5. WindowOK /\ HistoryOK
    BY DEF CommandsInv
<1> HIDE DEF c
<1>6. CASE c.op \in Commands /\ Handle(s, c, generation) = Admitted
    <2>1. db' = Commit(s, c, generation)
        BY <1>2, <1>6
    <2>2. IsStore(db)' /\ db'.effects = EffectsAfter(s, c) /\ db'.generation = s.generation
        BY <1>3, <2>1, CommittedStore
    <2>3. GrantsOK(db)'
        BY <1>3, <1>6, <2>1, CommitKeepsGrants DEF c
    <2>4. EffectsOK(db.effects, overdue)'
        <3>1. Found(s, c)
            BY <1>6, AdmittedMeans
        <3> QED BY <1>3, <2>2, <3>1, CommitKeepsEffects
    <2>5. HistoryOK'
        BY <1>2, <1>3, <1>5, <1>6, CommitKeepsHistory DEF c
    <2>6. WindowOK'
        BY <1>2, <1>3, <1>5, <2>2 DEF WindowOK
    <2> QED BY <1>4, <2>2, <2>3, <2>4, <2>5, <2>6 DEF CommandsInv
<1>7. CASE ~(c.op \in Commands /\ Handle(s, c, generation) = Admitted)
    <2>1. db' = s /\ UNCHANGED <<window, sent, commits, results>>
        BY <1>2, <1>7
    <2>2. HistoryOK'
        BY <1>3, <1>5, <2>1, SameHistory
    <2>3. WindowOK'
        BY <1>3, <1>5, <2>1 DEF WindowOK
    <2> QED BY <1>3, <1>4, <2>1, <2>2, <2>3 DEF CommandsInv
<1> QED BY <1>6, <1>7

\* An idle session that marks what is overdue keeps the invariant.
LEMMA IdleStep ==
    ASSUME CommandsInv, Idle
    PROVE  CommandsInv'
<1>1. /\ Announce(db, Now) /\ db' = TickEffects(db, Now)
      /\ clock' = [clock EXCEPT !.last = Now]
      /\ UNCHANGED <<window, sent, commits, results>>
    BY DEF Idle
<1>2. /\ IsStore(db') /\ GrantsOK(db') /\ EffectsOK(db'.effects, overdue')
      /\ db'.bound = db.bound /\ db'.generation = db.generation
    BY <1>1, TickKeeps
<1>3. ClockOK'
    BY <1>1, NowIsLater DEF ClockOK, CommandsInv
<1>4. HistoryOK'
    BY <1>1, <1>2, SameHistory DEF CommandsInv
<1>5. WindowOK'
    BY <1>1, <1>2 DEF WindowOK, CommandsInv
<1> QED BY <1>2, <1>3, <1>4, <1>5 DEF CommandsInv

\* What a producer commits or observes keeps the invariant.
LEMMA EffectStep ==
    ASSUME CommandsInv, NEW e \in DOMAIN NewEffect, NEW status,
           Produce(e) \/ ObserveEffect(e, status)
    PROVE  CommandsInv'
<1>1. /\ IsStore(db) /\ WindowOK /\ ClockOK /\ HistoryOK /\ GrantsOK(db)
      /\ EffectsOK(db.effects, overdue)
    BY DEF CommandsInv
<1>2. EffectKey(e).kind = "core.effect"
    BY DEF EffectKey
<1>3. UNCHANGED <<window, clock, sent, commits, results, overdue>>
    BY DEF Produce, ObserveEffect
<1>4. \E effects : \E n \in Nat :
          /\ db' = [db EXCEPT !.effects = effects, !.rev[EffectKey(e)] = n]
          /\ EffectsOK(effects, overdue)
    <2>1. CASE Produce(e)
        <3>1. /\ e \notin DOMAIN db.effects
              /\ db' = [db EXCEPT !.effects = With(db.effects, e, NewEffect[e]),
                                  !.rev[EffectKey(e)] = 1]
            BY <2>1, Zenon DEF Produce
        <3>2. EffectsOK(With(db.effects, e, NewEffect[e]), overdue)
            BY <1>1, <3>1, ProduceKeepsEffects
        <3> QED BY <3>1, <3>2
    <2>2. CASE ObserveEffect(e, status)
        <3> DEFINE effects == [db.effects EXCEPT ![e] = Observed(db.effects[e], status)]
        <3>1. /\ e \in DOMAIN db.effects
              /\ db' = [db EXCEPT !.effects = effects,
                                  !.rev[EffectKey(e)] = db.rev[EffectKey(e)] + 1]
            BY <2>2, Zenon DEF ObserveEffect
        <3>2. EffectsOK(effects, overdue)
            BY <1>1, <3>1, ObserveKeepsEffects
        <3> HIDE DEF effects
        <3>3. PICK n \in Nat : n = db.rev[EffectKey(e)] + 1
            BY <1>1, EffectAssumption, StoreHasRevisions
        <3> QED BY <3>1, <3>2, <3>3
    <2> QED BY <2>1, <2>2
<1>5. PICK effects : \E n \in Nat :
          /\ db' = [db EXCEPT !.effects = effects, !.rev[EffectKey(e)] = n]
          /\ EffectsOK(effects, overdue)
    BY <1>4
<1>6. PICK n \in Nat : db' = [db EXCEPT !.effects = effects, !.rev[EffectKey(e)] = n]
    BY <1>5
<1>7. /\ IsStore(db)' /\ db'.grants = db.grants /\ db'.effects = effects
      /\ db'.bound = db.bound /\ db'.generation = db.generation
      /\ \A k \in Key : k.kind # "core.effect" => db'.rev[k] = db.rev[k]
    BY <1>1, <1>2, <1>6, ProducedStore
<1>8. GrantsOK(db)'
    <2>1. db.rev \in [Key -> Nat] /\ db'.rev \in [Key -> Nat]
        BY <1>1, <1>7, StoreHasRevisions
    <2>2. \A k \in Key : k.kind = "core.grant" => db'.rev[k] >= db.rev[k]
        BY <1>7, <2>1
    <2> QED BY <1>1, <1>7, <2>1, <2>2, SameGrants
<1>9. HistoryOK'
    BY <1>1, <1>3, <1>7, SameHistory
<1>10. EffectsOK(db.effects, overdue)'
    BY <1>3, <1>5, <1>7
<1>11. WindowOK' /\ ClockOK'
    BY <1>1, <1>3, <1>7 DEF WindowOK, ClockOK
<1> QED BY <1>7, <1>8, <1>9, <1>10, <1>11 DEF CommandsInv

\* A start keeps the invariant.
LEMMA StartStep ==
    ASSUME CommandsInv, Start
    PROVE  CommandsInv'
<1>1. /\ IsStore(db) /\ WindowOK /\ ClockOK /\ HistoryOK /\ GrantsOK(db)
      /\ EffectsOK(db.effects, overdue)
    BY DEF CommandsInv
<1>2. /\ db.generation < MaxGeneration /\ StartGeneration(db)
      /\ clock' = [clock EXCEPT !.last = clock.file]
      /\ UNCHANGED <<sent, commits, results, overdue>>
    BY DEF Start
<1>3. /\ IsStore(db)' /\ WindowOK'
      /\ db'.grants = db.grants /\ db'.effects = db.effects /\ db'.rev = db.rev
    BY <1>1, <1>2, StartedStore
<1>4. HistoryOK'
    BY <1>1, <1>2, StartKeepsHistory
<1>5. GrantsOK(db)'
    <2>1. db.rev \in [Key -> Nat]
        BY <1>1, StoreHasRevisions
    <2>2. \A k \in Key : db'.rev[k] >= db.rev[k]
        BY <1>3, <2>1
    <2> QED BY <1>1, <1>3, <2>1, <2>2, SameGrants
<1>6. ClockOK'
    BY <1>1, <1>2 DEF ClockOK
<1> QED BY <1>1, <1>2, <1>3, <1>4, <1>5, <1>6 DEF CommandsInv

\* Every step keeps the invariant.
LEMMA CommandsStep ==
    ASSUME CommandsInv, [Next]_vars
    PROVE  CommandsInv'
<1>1. ASSUME NEW r \in Request, Send(r) PROVE CommandsInv'
    BY <1>1, SendStep
<1>2. CASE Idle
    BY <1>2, IdleStep
<1>3. ASSUME NEW t \in Instant, SetClock(t) PROVE CommandsInv'
    <2>1. /\ clock' = [clock EXCEPT !.file = t]
          /\ UNCHANGED <<db, window, sent, commits, results, overdue>>
        BY <1>3 DEF SetClock
    <2>2. ClockOK'
        BY <2>1, CommandAssumption DEF ClockOK, CommandsInv
    <2>3. HistoryOK'
        BY <2>1, SameHistory DEF CommandsInv
    <2> QED BY <2>1, <2>2, <2>3 DEF CommandsInv, WindowOK
<1>4. ASSUME NEW e \in DOMAIN NewEffect, Produce(e) PROVE CommandsInv'
    BY <1>4, EffectStep
<1>5. ASSUME NEW e \in DOMAIN NewEffect, NEW status \in {"succeeded", "unknown"},
             ObserveEffect(e, status)
      PROVE  CommandsInv'
    BY <1>5, EffectStep
<1>6. CASE Start
    BY <1>6, StartStep
<1>7. CASE UNCHANGED vars
    <2>1. UNCHANGED <<db, window, clock, sent, commits, results, overdue>>
        BY <1>7 DEF vars
    <2>2. HistoryOK'
        BY <2>1, SameHistory DEF CommandsInv
    <2> QED BY <2>1, <2>2 DEF CommandsInv, WindowOK, ClockOK
<1> QED BY <1>1, <1>2, <1>3, <1>4, <1>5, <1>6, <1>7 DEF Next

\* The invariant of commands, grants and effects holds in every reachable state.
LEMMA CommandsHold == Spec => []CommandsInv
<1>1. Init => CommandsInv
    BY CommandsInit
<1>2. CommandsInv /\ [Next]_vars => CommandsInv'
    BY CommandsStep
<1> QED BY <1>1, <1>2, PTL DEF Spec

-----------------------------------------------------------------------------
(* A command is applied once. *)

\* The window is a range of generations up to the current one.
LEMMA WindowIsNat ==
    ASSUME WindowOK
    PROVE  /\ db.generation \in Nat /\ db.generation <= MaxGeneration
           /\ window.current = db.generation
           /\ window.oldest \in 0 .. window.current
<1>1. db.generation \in Nat /\ db.generation > 0 /\ db.generation <= MaxGeneration
    BY CommandAssumption DEF WindowOK
<1>2. /\ Max({0, db.generation - Retain + 1}) \in Nat
      /\ Max({0, db.generation - Retain + 1}) <= db.generation
    BY <1>1, OldestOnlyGrows
<1> QED BY <1>1, <1>2 DEF WindowOK

\* A command that was committed and is sent again never reaches step 6.
LEMMA AgainIsAnswered ==
    ASSUME CommandsInv, NEW r \in Request, commits[r] = 1
    PROVE  LET c == Envelope[r]
           IN  Handle(db, c, sent[r]) =
                   IF Bound(db, c)
                   THEN IF db.bound[CommandKey(c)].body = c.body
                        THEN Refuse("replayed") ELSE Refuse("idempotency_conflict")
                   ELSE Refuse("dedupe_history_unavailable")
<1> DEFINE c == Envelope[r]
<1>1. /\ c.op \in Commands /\ WellFormed(c) /\ c.digest = "right"
      /\ sent[r] \in 1 .. db.generation
      /\ sent[r] >= window.oldest => Bound(db, c)
    BY DEF CommandsInv, HistoryOK, Applied, Bound
<1>2. /\ db.generation \in Nat /\ window.current = db.generation /\ window.oldest \in Nat
    BY WindowIsNat DEF CommandsInv
<1>3. ~(sent[r] > window.current) /\ (~Bound(db, c) => sent[r] < window.oldest)
    BY <1>1, <1>2
<1> HIDE DEF c
<1>4. Admission(db, c, sent[r]) =
          IF Bound(db, c)
          THEN IF db.bound[CommandKey(c)].body = c.body
               THEN Refuse("replayed") ELSE Refuse("idempotency_conflict")
          ELSE Refuse("dedupe_history_unavailable")
    BY <1>1, <1>3 DEF Admission
<1>5. \A code \in {"replayed", "idempotency_conflict", "dedupe_history_unavailable"} :
          Refuse(code) # Admitted
    BY DEF Refuse, Admitted, Answer
<1>6. Handle(db, c, sent[r]) = Admission(db, c, sent[r])
    BY <1>1, <1>4, <1>5 DEF Handle
<1> QED BY <1>4, <1>6 DEF c

\* With the invariant a command is applied once, and its sender is told so.
LEMMA InvAppliedOnce == CommandsInv => AppliedOnce
<1> SUFFICES ASSUME CommandsInv PROVE AppliedOnce
    OBVIOUS
<1>1. TypeOK
    <2>1. db.rev \in [Key -> Nat]
        BY StoreHasRevisions DEF CommandsInv
    <2>2. \A id \in DOMAIN db.grants : GrantKey(id) \in Key
        BY DEF CommandsInv, GrantsOK
    <2>3. /\ \A b \in DOMAIN db.bound : db.bound[b].generation \in 1 .. db.generation
          /\ sent \in [Request -> 0 .. MaxGeneration]
          /\ commits \in [Request -> {0, 1}]
          /\ DOMAIN results \subseteq Request
        BY DEF CommandsInv, HistoryOK
    <2>4. window.current = db.generation /\ window.oldest \in 0 .. window.current
        BY WindowIsNat DEF CommandsInv
    <2>5. commits \in [Request -> Nat]
        BY <2>3
    <2> QED BY <2>1, <2>2, <2>3, <2>4, <2>5 DEF TypeOK
<1>2. \A r \in Request : commits[r] > 0 => commits[r] = 1
    BY DEF CommandsInv, HistoryOK
<1>3. AppliedIsNotDenied
    <2>1. \A code : Refuse(code).code = code
        BY DEF Refuse, Answer
    <2>2. ASSUME NEW r \in Request, commits[r] > 0
          PROVE  Handle(db, Envelope[r], sent[r]).code \in
                     {"replayed", "dedupe_history_unavailable", "idempotency_conflict"}
        BY <1>2, <2>1, <2>2, AgainIsAnswered
    <2> QED BY <1>2, <2>2 DEF AppliedIsNotDenied
<1>4. AppliedIsReplayed
    <2>1. ASSUME NEW r \in Request, commits[r] > 0, sent[r] >= window.oldest
          PROVE  /\ Handle(db, Envelope[r], sent[r]) = Refuse("replayed")
                 /\ db.bound[CommandKey(Envelope[r])].result = results[r]
        <3> DEFINE c == Envelope[r]
                   b == CommandKey(c)
        <3>1. commits[r] = 1
            BY <1>2, <2>1
        <3>2. b \in DOMAIN db.bound
              /\ db.bound[b] = [body |-> c.body, generation |-> sent[r], result |-> results[r]]
            BY <2>1, <3>1 DEF CommandsInv, HistoryOK, Applied
        <3> HIDE DEF b
        <3>3. db.bound[b].body = c.body /\ db.bound[b].result = results[r]
            BY <3>2
        <3> QED BY <3>1, <3>2, <3>3, AgainIsAnswered DEF Bound, b
    <2> QED BY <2>1 DEF AppliedIsReplayed
<1> QED BY <1>1, <1>3, <1>4 DEF AppliedOnce

\* A command is applied once, however often it is sent again across lost answers
\* and starts, for as long as the window lasts (admit_command, step 5).
THEOREM CommandsApplyOnce == Spec => []AppliedOnce
<1>1. Spec => []CommandsInv
    BY CommandsHold
<1>2. CommandsInv => AppliedOnce
    BY InvAppliedOnce
<1> QED BY <1>1, <1>2, PTL

-----------------------------------------------------------------------------
(* An obligation is announced overdue once. *)

\* An obligation is announced overdue at most once, and is overdue only if it
\* was announced (tick_effects, mark_overdue).
THEOREM OverdueIsToldOnce == Spec => []OverdueOnce
<1>1. Spec => []CommandsInv
    BY CommandsHold
<1>2. CommandsInv => OverdueOnce
    BY DEF CommandsInv, EffectsOK, Announced, OverdueOnce
<1> QED BY <1>1, <1>2, PTL

-----------------------------------------------------------------------------
(* A grant delegates no more than it has. *)

\* Delegation chains: a prefix of a prefix is a prefix.
LEMMA PrefixOfPrefix ==
    ASSUME NEW a \in Seq(STRING), NEW b \in Seq(STRING), NEW c \in Seq(STRING),
           IsPrefix(a, b), IsPrefix(b, c)
    PROVE  IsPrefix(a, c)
<1>1. Len(a) <= Len(b) /\ Len(b) <= Len(c)
    BY DEF IsPrefix
<1>2. \A i \in 1 .. Len(a) : a[i] = b[i]
    <2>1. SubSeq(a, 1, Len(a)) = SubSeq(b, 1, Len(a))
        BY DEF IsPrefix
    <2> QED BY <1>1, <2>1
<1>3. \A i \in 1 .. Len(b) : b[i] = c[i]
    <2>1. SubSeq(b, 1, Len(b)) = SubSeq(c, 1, Len(b))
        BY DEF IsPrefix
    <2> QED BY <1>1, <2>1
<1>4. SubSeq(a, 1, Len(a)) = SubSeq(c, 1, Len(a))
    BY <1>1, <1>2, <1>3
<1> QED BY <1>1, <1>4 DEF IsPrefix

\* What a narrower resource covers, the wider one covers.
LEMMA CoversMore ==
    ASSUME NEW resource, NEW narrower, NEW key, IsResource(resource), IsResource(narrower),
           key.id \in Seq(STRING),
           CoversResource(resource, narrower), Covers(narrower, key)
    PROVE  Covers(resource, key)
<1>1. resource.kind = key.kind
    BY DEF CoversResource, Covers
<1>2. CASE resource.narrowing = "none"
    BY <1>1, <1>2 DEF Covers
<1>3. CASE resource.narrowing = "id"
    BY <1>3 DEF CoversResource
<1>4. CASE resource.narrowing = "prefix"
    <2>1. /\ narrower.narrowing \in {"id", "prefix"} /\ IsPrefix(resource.of, narrower.of)
          /\ narrower.of \in Seq(STRING) /\ resource.of \in Seq(STRING)
        BY <1>4 DEF CoversResource, IsResource
    <2>2. CASE narrower.narrowing = "id"
        <3>1. narrower.of = key.id
            BY <2>2 DEF Covers
        <3> QED BY <1>1, <1>4, <2>1, <3>1 DEF Covers
    <2>3. CASE narrower.narrowing = "prefix"
        <3>1. IsPrefix(narrower.of, key.id)
            BY <2>3 DEF Covers
        <3>2. IsPrefix(resource.of, key.id)
            BY <2>1, <3>1, PrefixOfPrefix
        <3> QED BY <1>1, <1>4, <3>2 DEF Covers
    <2> QED BY <2>1, <2>2, <2>3
<1> QED BY <1>2, <1>3, <1>4 DEF IsResource

\* What a child permits over a key, the grant it is within permits.
LEMMA PermitsMore ==
    ASSUME NEW parent, NEW child, IsGrant(parent), IsGrant(child), Within(child, parent),
           NEW right, NEW key \in Key,
           Permits(child, {Need(right, key)}) = "ok"
    PROVE  Permits(parent, {Need(right, key)}) = "ok"
<1>1. \A need \in {Need(right, key)} : need.right = right /\ need.over = {key}
    BY DEF Need
<1>2. right \in child.rights /\ GrantCovers(child, key)
    BY <1>1 DEF Permits
<1>3. right \in parent.rights
    BY <1>2 DEF Within
<1>4. GrantCovers(parent, key)
    <2>1. PICK narrower \in child.resources : Covers(narrower, key)
        BY <1>2 DEF GrantCovers
    <2>2. PICK resource \in parent.resources : CoversResource(resource, narrower)
        BY <2>1 DEF Within
    <2>3. Covers(resource, key)
        BY <2>1, <2>2, CoversMore, KeyAssumption DEF IsGrant
    <2> QED BY <2>2, <2>3 DEF GrantCovers
<1> QED BY <1>1, <1>3, <1>4 DEF Permits

\* A grant never does what its parent could not do at the same instant: while it
\* is usable its parent is, and what it permits its parent permits
\* (may_delegate_to, active_descendants).
THEOREM GrantsDelegateNoMore == Spec => []DelegatesNoMore
<1>1. Spec => []CommandsInv
    BY CommandsHold
<1>2. CommandsInv => DelegatesNoMore
    <2> SUFFICES ASSUME CommandsInv, NEW id \in DOMAIN db.grants,
                        db.grants[id].parent # NoParent,
                        Usable(db.grants[id], Now, Epoch(db)) = "ok"
                 PROVE  LET child == db.grants[id]
                            parent == db.grants[child.parent]
                        IN  /\ Usable(parent, Now, Epoch(db)) = "ok"
                            /\ parent.constraints \subseteq child.constraints
                            /\ \A right \in child.rights, key \in Key :
                                   Permits(child, {Need(right, key)}) = "ok" =>
                                       Permits(parent, {Need(right, key)}) = "ok"
        BY DEF DelegatesNoMore
    <2> DEFINE child == db.grants[id]
               parent == db.grants[child.parent]
    <2>1. /\ IsGrant(child) /\ IsGrant(parent) /\ Within(child, parent)
          /\ parent.revoked => child.revoked
        BY DEF CommandsInv, GrantsOK, Descends
    <2>2. Now \in Nat
        BY NowIsLater DEF CommandsInv
    <2> HIDE DEF child, parent
    <2>3. Usable(child, Now, Epoch(db)) = "ok"
        BY DEF child
    <2>4. /\ ~child.revoked
          /\ ~(child.expires # NoExpiry /\ Now >= child.expires)
          /\ ~(child.binding # Unbound /\ Epoch(db) # child.binding)
        BY <2>3 DEF Usable
    <2>5. child.expires \in Nat \cup {NoExpiry} /\ parent.expires \in Nat \cup {NoExpiry}
        BY <2>1 DEF IsGrant
    <2>6. ~(parent.expires # NoExpiry /\ Now >= parent.expires)
        BY <2>1, <2>2, <2>4, <2>5 DEF Within, NoExpiry
    <2>7. ~(parent.binding # Unbound /\ Epoch(db) # parent.binding)
        BY <2>1, <2>4 DEF Within
    <2>8. Usable(parent, Now, Epoch(db)) = "ok"
        BY <2>1, <2>4, <2>6, <2>7 DEF Usable
    <2>9. parent.constraints \subseteq child.constraints
        BY <2>1 DEF Within
    <2>10. \A right \in child.rights, key \in Key :
               Permits(child, {Need(right, key)}) = "ok" =>
                   Permits(parent, {Need(right, key)}) = "ok"
        BY <2>1, PermitsMore
    <2> QED BY <2>8, <2>9, <2>10 DEF child, parent
<1> QED BY <1>1, <1>2, PTL

-----------------------------------------------------------------------------
(* A refusal tells nothing. *)

\* The store without a subject is the store but for that subject.
LEMMA ForgottenStore ==
    ASSUME IsStore(db), NEW key \in Key, key # AuthorityKey,
           NEW f, f = Forget(db, key)
    PROVE  /\ f.bound = db.bound /\ f.writes = db.writes
           /\ Epoch(f) = Epoch(db)
           /\ DOMAIN f.grants = {id \in DOMAIN db.grants : GrantKey(id) # key}
           /\ \A id \in DOMAIN f.grants : f.grants[id] = db.grants[id]
           /\ DOMAIN f.effects = {e \in DOMAIN db.effects : EffectKey(e) # key}
           /\ \A e \in DOMAIN f.effects : f.effects[e] = db.effects[e]
<1> DEFINE grants2 == [id \in {id \in DOMAIN db.grants : GrantKey(id) # key} |-> db.grants[id]]
           effects2 == [e \in {e \in DOMAIN db.effects : EffectKey(e) # key} |-> db.effects[e]]
           rev2 == [db.rev EXCEPT ![key] = 0]
<1>1. db \in [rev : [Key -> Nat], grants : {db.grants}, effects : {db.effects},
              bound : {db.bound}, generation : {db.generation}, writes : {db.writes}]
    BY DEF IsStore
<1>2. f = [db EXCEPT !.rev = rev2, !.grants = grants2, !.effects = effects2]
    BY Zenon DEF Forget
<1>3. rev2[AuthorityKey] = db.rev[AuthorityKey]
    BY <1>1, KeyAssumption
<1>4. /\ DOMAIN grants2 = {id \in DOMAIN db.grants : GrantKey(id) # key}
      /\ \A id \in DOMAIN grants2 : grants2[id] = db.grants[id]
      /\ DOMAIN effects2 = {e \in DOMAIN db.effects : EffectKey(e) # key}
      /\ \A e \in DOMAIN effects2 : effects2[e] = db.effects[e]
    OBVIOUS
<1> HIDE DEF grants2, effects2, rev2
<1>5. /\ f.bound = db.bound /\ f.writes = db.writes /\ f.rev = rev2
      /\ f.grants = grants2 /\ f.effects = effects2
    BY <1>1, <1>2
<1> QED BY <1>3, <1>4, <1>5 DEF Epoch

\* The grant a request names is found, or not, with the hidden subject and without.
LEMMA HeldGrantHides ==
    ASSUME IsStore(db), NEW c, NEW key \in Key, Hidden(c, key), NEW f, f = Forget(db, key)
    PROVE  /\ HeldGrant(f, c) = HeldGrant(db, c)
           /\ HeldGrant(db, c) = "ok" => f.grants[c.grant] = db.grants[c.grant]
<1>1. /\ Epoch(f) = Epoch(db)
      /\ DOMAIN f.grants = {id \in DOMAIN db.grants : GrantKey(id) # key}
      /\ \A id \in DOMAIN f.grants : f.grants[id] = db.grants[id]
    BY ForgottenStore DEF Hidden
<1>2. \A id \in DOMAIN db.grants : GrantKey(id) = key => c.who # db.grants[id].holder
    BY DEF Hidden, GrantKey, Exists
<1>3. CASE Exists(db, c.grant) /\ db.grants[c.grant].holder = c.who
    BY <1>1, <1>2, <1>3 DEF HeldGrant, Exists
<1>4. CASE ~(Exists(db, c.grant) /\ db.grants[c.grant].holder = c.who)
    BY <1>1, <1>4 DEF HeldGrant, Exists
<1> QED BY <1>3, <1>4

\* Step 6 refuses for the same reason with the hidden subject and without.
LEMMA Step6Hides ==
    ASSUME IsStore(db), NEW c, NEW key \in Key, Hidden(c, key), NEW f, f = Forget(db, key),
           Step6(db, c) # "ok"
    PROVE  Step6(f, c) = Step6(db, c)
<1>1. /\ Epoch(f) = Epoch(db)
      /\ DOMAIN f.grants = {id \in DOMAIN db.grants : GrantKey(id) # key}
      /\ \A id \in DOMAIN f.grants : f.grants[id] = db.grants[id]
      /\ DOMAIN f.effects = {e \in DOMAIN db.effects : EffectKey(e) # key}
      /\ \A e \in DOMAIN f.effects : f.effects[e] = db.effects[e]
    BY ForgottenStore DEF Hidden
<1>2. /\ HeldGrant(f, c) = HeldGrant(db, c)
      /\ HeldGrant(db, c) = "ok" => f.grants[c.grant] = db.grants[c.grant]
    BY HeldGrantHides
<1>3. \A id \in DOMAIN db.grants : GrantKey(id) = key =>
          c.who # db.grants[id].holder /\ c.who # db.grants[id].issuer
    BY DEF Hidden, GrantKey, Exists
<1>4. CASE c.op = "issue"
    <2> DEFINE child == Issued(c.issue, c.who)
    <2>1. Step6(db, c) = AuthorizeIssue(db, c) /\ Step6(f, c) = AuthorizeIssue(f, c)
        BY <1>4 DEF Step6
    <2> HIDE DEF child
    <2>2. CASE Exists(db, child.parent) /\ db.grants[child.parent].holder = c.who
        <3>1. Exists(f, child.parent) /\ f.grants[child.parent] = db.grants[child.parent]
            BY <1>1, <1>3, <2>2 DEF Exists
        <3> QED BY <1>1, <2>1, <2>2, <3>1 DEF AuthorizeIssue, child
    <2>3. CASE ~(Exists(db, child.parent) /\ db.grants[child.parent].holder = c.who)
        <3>1. ~(Exists(f, child.parent) /\ f.grants[child.parent].holder = c.who)
            BY <1>1, <2>3 DEF Exists
        <3> QED BY <2>1, <2>3, <3>1 DEF AuthorizeIssue, child
    <2> QED BY <2>2, <2>3
<1>5. CASE c.op = "revoke"
    <2> DEFINE id == c.key.id
    <2>1. Step6(db, c) = AuthorizeRevoke(db, c) /\ Step6(f, c) = AuthorizeRevoke(f, c)
        BY <1>5 DEF Step6
    <2>2. CASE Exists(db, id) /\ GrantKey(id) = key
        <3>1. c.who \notin Authority
            BY <2>2 DEF Hidden, GrantKey
        <3>2. ~Exists(f, id) /\ db.grants[id].issuer # c.who
            BY <1>1, <1>3, <2>2 DEF Exists
        <3> QED BY <2>1, <3>1, <3>2 DEF AuthorizeRevoke
    <2>3. CASE ~(Exists(db, id) /\ GrantKey(id) = key)
        <3>1. Exists(f, id) <=> Exists(db, id)
            BY <1>1, <2>3 DEF Exists
        <3>2. Exists(f, id) => f.grants[id] = db.grants[id]
            BY <1>1 DEF Exists
        <3> QED BY <2>1, <3>1, <3>2 DEF AuthorizeRevoke
    <2> QED BY <2>2, <2>3
<1>6. CASE c.op = "abort"
    <2>1. Step6(db, c) = AuthorizeAbort(db, c) /\ Step6(f, c) = AuthorizeAbort(f, c)
        BY <1>6 DEF Step6
    <2> QED BY <1>1, <1>2, <2>1 DEF AuthorizeAbort
<1>7. CASE c.op = "effects_get"
    <2>1. /\ Step6(db, c) = AuthorizeEffectRead(db, c)
          /\ Step6(f, c) = AuthorizeEffectRead(f, c)
        BY <1>7 DEF Step6
    <2> QED BY <1>1, <1>2, <2>1 DEF AuthorizeEffectRead
<1>8. CASE c.op = "grant_get"
    BY <1>8 DEF Step6
<1>9. CASE c.op \notin {"issue", "revoke", "abort", "effects_get", "grant_get"}
    <2>1. Step6(db, c) = Authorize(db, c) /\ Step6(f, c) = Authorize(f, c)
        BY <1>9 DEF Step6
    <2> QED BY <1>2, <2>1 DEF Authorize
<1> QED BY <1>4, <1>5, <1>6, <1>7, <1>8, <1>9

\* Only step 6 denies a permission, and its answer carries its reason alone.
LEMMA DeniedByStep6 ==
    ASSUME NEW s, NEW c, NEW generation,
           Handle(s, c, generation).code = "permission_denied"
    PROVE  /\ Step6(s, c) # "ok"
           /\ Handle(s, c, generation) = Answer("permission_denied", Step6(s, c), {})
           /\ c.op \in Commands =>
                  /\ WellFormed(c) /\ c.digest = "right"
                  /\ ~(generation > window.current) /\ ~(generation < window.oldest)
                  /\ ~Bound(s, c)
                  /\ Step6(s, c) # "invalid_envelope"
<1>1. \A code : Refuse(code).code = code
    BY DEF Refuse, Answer
<1>2. \A code, reason, shown : Answer(code, reason, shown).code = code
    BY DEF Answer
<1>3. Admitted.code = "admitted"
    BY DEF Admitted, Refuse, Answer
<1>4. CASE c.op \in Commands
    <2>1. Handle(s, c, generation) = Admission(s, c, generation)
        BY <1>1, <1>4 DEF Handle
    <2>2. /\ WellFormed(c) /\ c.digest = "right"
          /\ ~(generation > window.current) /\ ~(generation < window.oldest)
          /\ ~Bound(s, c)
          /\ Admission(s, c, generation) = Authorised(s, c)
        BY <1>1, <2>1 DEF Admission
    <2>3. /\ Step6(s, c) # "ok" /\ Step6(s, c) # "invalid_envelope"
          /\ Authorised(s, c) = Answer("permission_denied", Step6(s, c), {})
        <3>1. Authorised(s, c).code = "permission_denied"
            BY <2>1, <2>2
        <3>2. Step6(s, c) # "invalid_envelope"
            BY <1>1, <3>1 DEF Authorised
        <3>3. ASSUME Step6(s, c) = "ok"
              PROVE  Authorised(s, c).code \in
                         {"capability_unavailable", "stale_authority_epoch",
                          "unknown_authority_epoch", "invalid_envelope",
                          "precondition_failed", "admitted"}
            <4> DEFINE shown1 == Shown(s, c, {AuthorityKey})
                       shown2 == Shown(s, c, Stale(s, c))
            <4>1. Authorised(s, c) \in
                        {Refuse("capability_unavailable"),
                         Answer("stale_authority_epoch", "", shown1),
                         Refuse("unknown_authority_epoch"), Refuse("invalid_envelope"),
                         Answer("precondition_failed", "", shown2), Admitted}
                BY <3>3 DEF Authorised
            <4> HIDE DEF shown1, shown2
            <4>2. /\ Answer("stale_authority_epoch", "", shown1).code = "stale_authority_epoch"
                  /\ Answer("precondition_failed", "", shown2).code = "precondition_failed"
                  /\ Refuse("capability_unavailable").code = "capability_unavailable"
                  /\ Refuse("unknown_authority_epoch").code = "unknown_authority_epoch"
                  /\ Refuse("invalid_envelope").code = "invalid_envelope"
                BY <1>1, <1>2
            <4>3. PICK answer : answer = Authorised(s, c)
                OBVIOUS
            <4> QED BY <1>3, <4>1, <4>2, <4>3
        <3>4. Step6(s, c) # "ok"
            BY <3>1, <3>3
        <3> QED BY <3>2, <3>4 DEF Authorised
    <2> QED BY <2>1, <2>2, <2>3
<1>5. CASE c.op \notin Commands
    BY <1>1, <1>2, <1>5 DEF Handle
<1> QED BY <1>4, <1>5

\* A principal that is refused learns nothing of what it may not see: the same
\* refusal is given whether or not the subject exists (admit_command, step 6).
THEOREM RefusalsTellNothing == Spec => []RefusalTellsNothing
<1>1. Spec => []CommandsInv
    BY CommandsHold
<1>2. CommandsInv => RefusalTellsNothing
    <2> SUFFICES ASSUME CommandsInv, NEW r \in Request, NEW key \in Key,
                        Handle(db, Envelope[r], window.current).code = "permission_denied",
                        Hidden(Envelope[r], key)
                 PROVE  Handle(Forget(db, key), Envelope[r], window.current) =
                            Handle(db, Envelope[r], window.current)
        BY Zenon DEF RefusalTellsNothing
    <2>1. PICK c : c = Envelope[r]
        OBVIOUS
    <2>2. PICK g : g = window.current
        OBVIOUS
    <2>3. PICK f : f = Forget(db, key)
        OBVIOUS
    <2>4. /\ Step6(db, c) # "ok"
          /\ Handle(db, c, g) = Answer("permission_denied", Step6(db, c), {})
          /\ c.op \in Commands =>
                 /\ WellFormed(c) /\ c.digest = "right"
                 /\ ~(g > window.current) /\ ~(g < window.oldest)
                 /\ ~Bound(db, c)
                 /\ Step6(db, c) # "invalid_envelope"
        BY <2>1, <2>2, DeniedByStep6
    <2>5. IsStore(db) /\ Hidden(c, key)
        BY <2>1 DEF CommandsInv
    <2>6. Step6(f, c) = Step6(db, c)
        BY <2>3, <2>4, <2>5, Step6Hides
    <2>7. ~Bound(db, c) => ~Bound(f, c)
        <3>1. f.bound = db.bound
            BY <2>3, <2>5, ForgottenStore DEF Hidden
        <3> QED BY <3>1 DEF Bound
    <2>8. Handle(f, c, g) = Answer("permission_denied", Step6(db, c), {})
        <3>1. Answer("permission_denied", Step6(db, c), {}) # Admitted
            BY DEF Admitted, Refuse, Answer
        <3>2. c.op \in Commands =>
                  Admission(f, c, g) = Answer("permission_denied", Step6(db, c), {})
            BY <2>4, <2>6, <2>7 DEF Admission, Authorised
        <3> QED BY <2>4, <2>6, <3>1, <3>2 DEF Handle
    <2> QED BY <2>1, <2>2, <2>3, <2>4, <2>8
<1> QED BY <1>1, <1>2, PTL

-----------------------------------------------------------------------------
(* What has ended stays ended. *)

\* A grant is not rewritten, but that it may be revoked; a wait that is closed is
\* not touched.
GrantsLast(before, after) ==
    \A id \in DOMAIN before :
        /\ id \in DOMAIN after
        /\ after[id].expires = before[id].expires
        /\ before[id].revoked => after[id].revoked

WaitsLast(before, after) ==
    \A e \in DOMAIN before : \A o \in DOMAIN before[e].obligations :
        ~Waiting(before[e].obligations[o]) =>
            after[e].obligations[o] = before[e].obligations[o]

\* An admitted command brings no grant back.
LEMMA CommitLeavesGrants ==
    ASSUME NEW s, IsStore(s), GrantsOK(s), NEW r \in Request, NEW generation,
           Handle(s, Envelope[r], generation) = Admitted
    PROVE  GrantsLast(s.grants, GrantsAfter(s, Envelope[r]))
<1> DEFINE c == Envelope[r]
<1>1. CASE c.op = "issue"
    <2>1. c.key.id \notin DOMAIN s.grants
        BY <1>1, IssueIsWithin
    <2>2. GrantsAfter(s, c) = With(s.grants, c.key.id, Issued(c.issue, c.who))
        BY <1>1 DEF GrantsAfter
    <2> HIDE DEF c
    <2>3. /\ DOMAIN s.grants \subseteq DOMAIN GrantsAfter(s, c)
          /\ \A id \in DOMAIN s.grants : GrantsAfter(s, c)[id] = s.grants[id]
        BY <2>1, <2>2 DEF With
    <2>4. GrantsLast(s.grants, GrantsAfter(s, c))
        BY <2>3 DEF GrantsLast
    <2> QED BY <2>4 DEF c
<1>2. CASE c.op = "revoke"
    <2> DEFINE gone == Cascade(s, c.key.id)
               Revoke(grant) == [grant EXCEPT !.revoked = TRUE]
               after == GrantsAfter(s, c)
    <2>1. after = [id \in DOMAIN s.grants |-> IF id \in gone THEN Revoke(s.grants[id])
                                                             ELSE s.grants[id]]
        BY <1>2 DEF GrantsAfter
    <2>2. ASSUME NEW id \in DOMAIN s.grants
          PROVE  /\ Revoke(s.grants[id]).expires = s.grants[id].expires
                 /\ Revoke(s.grants[id]).revoked
        BY DEF GrantsOK, IsGrant
    <2> HIDE DEF Revoke, gone, after
    <2>3. GrantsLast(s.grants, after)
        BY <2>1, <2>2 DEF GrantsLast
    <2> QED BY <2>3 DEF after
<1>3. CASE c.op \notin {"issue", "revoke"}
    BY <1>3 DEF GrantsAfter, GrantsLast
<1> QED BY <1>1, <1>2, <1>3

\* What time marks overdue reopens no wait.
LEMMA TickLeavesWaits ==
    ASSUME NEW s, IsStore(s), NEW times, EffectsOK(s.effects, times), NEW now,
           NEW t, t = TickEffects(s, now)
    PROVE  /\ WaitsLast(s.effects, t.effects)
           /\ DOMAIN t.effects = DOMAIN s.effects
           /\ \A e \in DOMAIN s.effects :
                  DOMAIN t.effects[e].obligations = DOMAIN s.effects[e].obligations
<1>1. t.effects = Marked(s.effects, now)
    BY TickedStore
<1>2. \A e \in DOMAIN s.effects : IsEffect(s.effects[e])
    BY DEF EffectsOK
<1>3. /\ DOMAIN t.effects = DOMAIN s.effects
      /\ \A e \in DOMAIN s.effects : t.effects[e] = MarkOverdue(s.effects[e], now)
    BY <1>1 DEF Marked
<1>4. ASSUME NEW e \in DOMAIN s.effects
      PROVE  /\ DOMAIN t.effects[e].obligations = DOMAIN s.effects[e].obligations
             /\ \A o \in DOMAIN s.effects[e].obligations :
                    ~Waiting(s.effects[e].obligations[o]) =>
                        t.effects[e].obligations[o] = s.effects[e].obligations[o]
    <2> DEFINE x == s.effects[e]
               y == MarkOverdue(x, now)
    <2>1. /\ DOMAIN y.obligations = DOMAIN x.obligations
          /\ \A o \in DOMAIN x.obligations :
                 IF Passed(x.obligations[o], now)
                 THEN y.obligations[o].state = "overdue"
                 ELSE y.obligations[o] = x.obligations[o]
        BY <1>2, MarkedEffect
    <2> QED BY <1>3, <2>1 DEF Passed, Waiting
<1> QED BY <1>3, <1>4 DEF WaitsLast

\* An admitted command reopens no wait.
LEMMA CommitLeavesWaits ==
    ASSUME NEW s, NEW c, Found(s, c), NEW times, EffectsOK(s.effects, times)
    PROVE  WaitsLast(s.effects, EffectsAfter(s, c))
<1>1. CASE c.op # "abort"
    BY <1>1 DEF EffectsAfter, WaitsLast
<1>2. CASE c.op = "abort"
    <2> DEFINE e0 == c.key.id
               x == s.effects[e0]
               y == AbortWait(x, c.obligation)
               after == EffectsAfter(s, c)
    <2>1. /\ e0 \in DOMAIN s.effects /\ c.obligation \in DOMAIN x.obligations
          /\ Waiting(x.obligations[c.obligation])
        BY <1>2 DEF Found
    <2>2. after = [s.effects EXCEPT ![e0] = y]
        BY <1>2, Zenon DEF EffectsAfter
    <2>3. \A o \in DOMAIN x.obligations :
              o # c.obligation => y.obligations[o] = x.obligations[o]
        BY <2>1, AbortedEffect DEF EffectsOK
    <2>4. after[e0] = y /\ \A e \in DOMAIN s.effects : e # e0 => after[e] = s.effects[e]
        <3> HIDE DEF y, after
        <3> QED BY <2>1, <2>2
    <2> HIDE DEF y, after
    <2>5. WaitsLast(s.effects, after)
        BY <2>1, <2>3, <2>4 DEF WaitsLast
    <2> QED BY <2>5 DEF after
<1> QED BY <1>1, <1>2

\* A change of status reopens no wait.
LEMMA ObserveLeavesWaits ==
    ASSUME NEW effects, NEW times, EffectsOK(effects, times),
           NEW e0 \in DOMAIN effects, NEW status
    PROVE  WaitsLast(effects, [effects EXCEPT ![e0] = Observed(effects[e0], status)])
<1> DEFINE x == effects[e0]
           y == Observed(x, status)
           after == [effects EXCEPT ![e0] = y]
<1>1. \A o \in DOMAIN x.obligations :
          ~Waiting(x.obligations[o]) => y.obligations[o] = x.obligations[o]
    BY ObservedEffect DEF EffectsOK
<1> HIDE DEF y
<1>2. after[e0] = y /\ \A e \in DOMAIN effects : e # e0 => after[e] = effects[e]
    OBVIOUS
<1> HIDE DEF after
<1>3. WaitsLast(effects, after)
    BY <1>1, <1>2 DEF WaitsLast
<1> QED BY <1>3 DEF after, y

\* What lasts through two changes lasts through both.
LEMMA WaitsLastTwice ==
    ASSUME NEW a, NEW b, NEW d, WaitsLast(a, b), WaitsLast(b, d),
           DOMAIN b = DOMAIN a,
           \A e \in DOMAIN a : DOMAIN b[e].obligations = DOMAIN a[e].obligations
    PROVE  WaitsLast(a, d)
BY DEF WaitsLast

\* What a step leaves of the grants, of the waits and of the clock.
LEMMA SendLasts ==
    ASSUME CommandsInv, NEW r \in Request, Send(r)
    PROVE  /\ GrantsLast(db.grants, db'.grants)
           /\ WaitsLast(db.effects, db'.effects)
           /\ clock'.last >= clock.last
<1> DEFINE c == Envelope[r]
<1>1. PICK s : s = TickEffects(db, Now)
    OBVIOUS
<1>2. PICK generation \in IF sent[r] = 0 THEN 1 .. window.current ELSE {sent[r]} :
          /\ Announce(db, Now)
          /\ clock' = [clock EXCEPT !.last = Now]
          /\ \/ /\ c.op \in Commands /\ Handle(s, c, generation) = Admitted
                /\ db' = Commit(s, c, generation)
             \/ db' = s
    BY <1>1, Zenon DEF Send
<1>3. IsStore(s) /\ GrantsOK(s) /\ EffectsOK(s.effects, overdue')
    BY <1>1, <1>2, TickKeeps
<1>4. s.grants = db.grants
    BY <1>1, TickedStore DEF CommandsInv
<1>5. /\ WaitsLast(db.effects, s.effects)
      /\ DOMAIN s.effects = DOMAIN db.effects
      /\ \A e \in DOMAIN db.effects :
             DOMAIN s.effects[e].obligations = DOMAIN db.effects[e].obligations
    BY <1>1, TickLeavesWaits DEF CommandsInv
<1>6. clock'.last >= clock.last
    BY <1>2, NowIsLater DEF CommandsInv, ClockOK
<1>7. CASE db' = s
    <2>1. GrantsLast(s.grants, s.grants)
        BY DEF GrantsLast
    <2> QED BY <1>4, <1>5, <1>6, <1>7, <2>1
<1>8. CASE /\ c.op \in Commands /\ Handle(s, c, generation) = Admitted
           /\ db' = Commit(s, c, generation)
    <2>1. db'.grants = GrantsAfter(s, c) /\ db'.effects = EffectsAfter(s, c)
        BY <1>3, <1>8, CommittedStore
    <2>2. GrantsLast(db.grants, GrantsAfter(s, c))
        BY <1>3, <1>4, <1>8, CommitLeavesGrants
    <2>3. Found(s, c)
        BY <1>8, AdmittedMeans
    <2>4. WaitsLast(s.effects, EffectsAfter(s, c))
        BY <1>3, <2>3, CommitLeavesWaits
    <2>5. WaitsLast(db.effects, db'.effects)
        BY <1>5, <2>1, <2>4, WaitsLastTwice
    <2> QED BY <1>6, <2>1, <2>2, <2>5
<1> QED BY <1>2, <1>7, <1>8

\* A producer's step touches no grant and reopens no wait.
LEMMA EffectLasts ==
    ASSUME CommandsInv, NEW e \in DOMAIN NewEffect, NEW status,
           Produce(e) \/ ObserveEffect(e, status)
    PROVE  /\ db'.grants = db.grants
           /\ WaitsLast(db.effects, db'.effects)
<1>1. IsStore(db) /\ EffectsOK(db.effects, overdue)
    BY DEF CommandsInv
<1>2. EffectKey(e).kind = "core.effect"
    BY DEF EffectKey
<1>3. CASE Produce(e)
    <2> DEFINE effects == With(db.effects, e, NewEffect[e])
    <2>1. /\ e \notin DOMAIN db.effects
          /\ db' = [db EXCEPT !.effects = effects, !.rev[EffectKey(e)] = 1]
        BY <1>3, Zenon DEF Produce
    <2>2. \A x \in DOMAIN db.effects : effects[x] = db.effects[x]
        BY <2>1 DEF With
    <2> HIDE DEF effects
    <2>3. db'.grants = db.grants /\ db'.effects = effects
        BY <1>1, <1>2, <2>1, ProducedStore
    <2> QED BY <2>2, <2>3 DEF WaitsLast
<1>4. CASE ObserveEffect(e, status)
    <2> DEFINE effects == [db.effects EXCEPT ![e] = Observed(db.effects[e], status)]
    <2>1. /\ e \in DOMAIN db.effects
          /\ db' = [db EXCEPT !.effects = effects,
                              !.rev[EffectKey(e)] = db.rev[EffectKey(e)] + 1]
        BY <1>4, Zenon DEF ObserveEffect
    <2>2. WaitsLast(db.effects, effects)
        BY <1>1, <2>1, ObserveLeavesWaits
    <2> HIDE DEF effects
    <2>3. PICK n \in Nat : n = db.rev[EffectKey(e)] + 1
        BY <1>1, EffectAssumption, StoreHasRevisions
    <2>4. db' = [db EXCEPT !.effects = effects, !.rev[EffectKey(e)] = n]
        BY <2>1, <2>3
    <2>5. db'.grants = db.grants /\ db'.effects = effects
        BY <1>1, <1>2, <2>4, ProducedStore
    <2> QED BY <2>2, <2>5
<1> QED BY <1>3, <1>4

\* No step brings a grant back or reopens a wait, and time does not go back within a process.
LEMMA StepLasts ==
    ASSUME CommandsInv, [Next]_vars
    PROVE  /\ GrantsLast(db.grants, db'.grants)
           /\ WaitsLast(db.effects, db'.effects)
           /\ window' = window => clock'.last >= clock.last
<1>1. /\ IsStore(db) /\ WindowOK /\ ClockOK /\ EffectsOK(db.effects, overdue)
      /\ clock.last \in Nat
    BY DEF CommandsInv, ClockOK
<1>2. GrantsLast(db.grants, db.grants) /\ WaitsLast(db.effects, db.effects)
    BY DEF GrantsLast, WaitsLast
<1> DEFINE Lasts == /\ GrantsLast(db.grants, db'.grants)
                    /\ WaitsLast(db.effects, db'.effects)
                    /\ window' = window => clock'.last >= clock.last
<1>3. ASSUME NEW r \in Request, Send(r) PROVE Lasts
    BY <1>3, SendLasts
<1>4. CASE Idle
    <2>1. db' = TickEffects(db, Now) /\ clock' = [clock EXCEPT !.last = Now]
        BY <1>4 DEF Idle
    <2>2. db'.grants = db.grants
        BY <1>1, <2>1, TickedStore
    <2>3. WaitsLast(db.effects, db'.effects)
        BY <1>1, <2>1, TickLeavesWaits
    <2>4. clock'.last >= clock.last
        BY <1>1, <2>1, NowIsLater DEF ClockOK
    <2> QED BY <1>2, <2>2, <2>3, <2>4
<1>5. ASSUME NEW t \in Instant, SetClock(t) PROVE Lasts
    <2>1. clock' = [clock EXCEPT !.file = t] /\ db' = db
        BY <1>5 DEF SetClock
    <2>2. clock'.last = clock.last
        BY <1>1, <2>1 DEF ClockOK
    <2> QED BY <1>1, <1>2, <2>1, <2>2
<1>6. ASSUME NEW e \in DOMAIN NewEffect, NEW status, Produce(e) \/ ObserveEffect(e, status)
      PROVE  Lasts
    <2>1. clock' = clock
        BY <1>6 DEF Produce, ObserveEffect
    <2> QED BY <1>1, <1>2, <1>6, <2>1, EffectLasts
<1>7. CASE Start
    <2>1. db.generation < MaxGeneration /\ StartGeneration(db)
        BY <1>7 DEF Start
    <2>2. /\ db'.grants = db.grants /\ db'.effects = db.effects /\ WindowOK'
          /\ db'.generation = db.generation + 1
        BY <1>1, <2>1, StartedStore
    <2>3. window.current = db.generation /\ window'.current = db'.generation
        BY <1>1, <2>2 DEF WindowOK
    <2>4. db.generation \in Nat
        BY <1>1, CommandAssumption DEF WindowOK
    <2>5. window' # window
        BY <2>2, <2>3, <2>4
    <2> QED BY <1>2, <2>2, <2>5
<1>8. CASE UNCHANGED vars
    <2>1. db' = db /\ clock' = clock
        BY <1>8 DEF vars
    <2> QED BY <1>1, <1>2, <2>1
<1> QED BY <1>3, <1>4, <1>5, <1>6, <1>7, <1>8 DEF Next

\* A grant is revoked or expired by its record and the time alone.
LEMMA EndedMeans ==
    ASSUME NEW grant, NEW now, NEW epoch
    PROVE  Usable(grant, now, epoch) \in {"revoked", "expired"} <=>
               grant.revoked \/ (grant.expires # NoExpiry /\ now >= grant.expires)
BY DEF Usable

\* What has ended stays ended.  Within one process a grant that was seen to have
\* expired, or was revoked, never becomes usable again, whatever is written to
\* the clock file (Clock::now); a late outcome does not satisfy a wait that was
\* aborted, and an abort does not undo one that was satisfied.
THEOREM WhatEndedStaysEnded == Spec => EndedStaysEnded
<1> DEFINE Ended ==
        /\ window' = window =>
               \A id \in DOMAIN db.grants :
                   Usable(db.grants[id], clock.last, Epoch(db)) \in {"revoked", "expired"} =>
                       Usable(db.grants[id], Now, Epoch(db))' \in {"revoked", "expired"}
        /\ \A e \in DOMAIN db.effects : \A o \in DOMAIN db.effects[e].obligations :
               ~Waiting(db.effects[e].obligations[o]) =>
                   db'.effects[e].obligations[o] = db.effects[e].obligations[o]
<1>1. CommandsInv /\ [Next]_vars => Ended
    <2> SUFFICES ASSUME CommandsInv, [Next]_vars PROVE Ended
        OBVIOUS
    <2>1. /\ GrantsLast(db.grants, db'.grants)
          /\ WaitsLast(db.effects, db'.effects)
          /\ window' = window => clock'.last >= clock.last
        BY StepLasts
    <2>2. CommandsInv'
        BY CommandsStep
    <2>3. clock'.file \in Nat /\ clock'.last \in Nat /\ clock.last \in Nat
        BY <2>2 DEF CommandsInv, ClockOK
    <2>4. PICK now \in Nat : now = Now' /\ now >= clock'.last
        <3>1. PICK file \in Nat, last \in Nat : file = clock'.file /\ last = clock'.last
            BY <2>3
        <3>2. Now' = Max({file, last})
            BY <3>1 DEF Now
        <3> QED BY <3>1, <3>2, MaxOfTwo
    <2>5. ASSUME window' = window, NEW id \in DOMAIN db.grants,
                 Usable(db.grants[id], clock.last, Epoch(db)) \in {"revoked", "expired"}
          PROVE  Usable(db.grants[id], Now, Epoch(db))' \in {"revoked", "expired"}
        <3> DEFINE before == db.grants[id]
                   after == db'.grants[id]
        <3>1. after.expires = before.expires /\ (before.revoked => after.revoked)
            BY <2>1 DEF GrantsLast
        <3>2. before.expires \in Nat \cup {NoExpiry}
            BY DEF CommandsInv, GrantsOK, IsGrant
        <3>3. before.revoked \/ (before.expires # NoExpiry /\ clock.last >= before.expires)
            BY <2>5, EndedMeans
        <3> HIDE DEF before, after
        <3>4. after.revoked \/ (after.expires # NoExpiry /\ now >= after.expires)
            BY <2>1, <2>3, <2>4, <2>5, <3>1, <3>2, <3>3 DEF NoExpiry
        <3>5. \A epoch : Usable(after, now, epoch) \in {"revoked", "expired"}
            BY <3>4, EndedMeans
        <3> QED BY <2>4, <3>5 DEF after
    <2> QED BY <2>1, <2>5 DEF WaitsLast
<1>2. CommandsInv /\ [Next]_vars => [Ended]_vars
    BY <1>1
<1>3. Spec => []CommandsInv
    BY CommandsHold
<1> QED BY <1>2, <1>3, PTL DEF Spec, EndedStaysEnded
=============================================================================
