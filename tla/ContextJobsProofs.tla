------------------------- MODULE ContextJobsProofs -------------------------
(***************************************************************************)
(* That what jobs prepare is published whole: a request is prepared by a   *)
(* running job until it has an end, and what it is given was sealed first. *)
(* Then, from Sizes on, that it fits: what required items take is counted  *)
(* before a job begins, and no step of it takes more.                      *)
(***************************************************************************)
EXTENDS ContextJobs, WellFoundedInduction, TLAPS

-----------------------------------------------------------------------------
(* The invariant.                                                          *)

RequestStates == {"none", "preparing", "refused", "cancelled"} \cup Published

Slots == {"running", "finished", "spoilt", "broken"} \cup Settled

\* An item a packet says is satisfied has a section of the packet that is current.
IsTrue(r, p) ==
    \A i \in DOMAIN Items(r) :
        p.items[i][1] = "satisfied" =>
            \E m \in DOMAIN p.sections : p.sections[m].item = i /\ ~p.sections[m].historical

RequestOK(r, q) ==
    /\ DOMAIN q = DOMAIN NoRequest
    /\ q.state \in RequestStates
    /\ q.state = "none" <=> q = NoRequest
    /\ q.job \in Request \cup {""} /\ (q.state = "preparing" => q.job \in Request)
    /\ IsSequence(q.packets)
    /\ \A n \in DOMAIN q.packets : IsTrue(r, q.packets[n])

JobOK(j) ==
    /\ DOMAIN j = DOMAIN NoJob
    /\ j.state \in {"none", "running", "ended"}
    /\ j.requests \in Seq(Request) /\ (j.state = "running" => j.requests # <<>>)
    /\ IsSequence(j.script) /\ j.cursor \in 1 .. Len(j.script) + 1
    /\ IsSequence(j.sections)
    /\ j.state = "none" => DOMAIN j.captures = {}

\* Where a packet is, with what a tick is about to seal.
Placed(r, n, packet, out, seals) ==
    IF Here.peer THEN (<<r, n>> \in DOMAIN peer /\ peer[<<r, n>>].packet = packet) \/ <<r, n>> \in ToSet(out)
    ELSE <<r, n>> \in sealed \cup seals

\* The records, and that every job began for a request.
Records ==
    /\ DOMAIN req = Request /\ DOMAIN job = Request
    /\ \A r \in Request : RequestOK(r, req[r]) /\ JobOK(job[r])
    /\ \A r \in Request : job[r].state # "none" => req[r].state # "none"
    /\ order \in Seq(Request) /\ ToSet(order) = {r \in Request : job[r].state # "none"}

Machine ==
    /\ launch \in DOMAIN Launch /\ now \in 0 .. MaxNow /\ faults \in 0 .. MaxFaults
    /\ \A k \in DOMAIN pool : pool[k] \in Slots
    /\ \A k \in DOMAIN calls : calls[k] \in Nat \ {0}

\* Why a tick is dropped.
Errors == {"", "invalid", "protocol"}

\* What a tick holds for the job it is at: the job's record and the requests, which
\* differ from what is stored by what was prepared and published since.
Holding(t) ==
    /\ DOMAIN t = DOMAIN NoTick
    /\ t.todo \in Seq(Request) /\ t.todo # <<>>
    /\ \A n \in DOMAIN t.todo : job[t.todo[n]].state # "none" /\ job[t.todo[n]].requests # <<>>
    /\ JobOK(t.rec) /\ t.rec.state # "none"
    /\ t.rec.requests = job[Head(t.todo)].requests
    /\ t.rec.captures = job[Head(t.todo)].captures
    /\ DOMAIN t.reqs = Request
    /\ \A r \in Request :
           /\ RequestOK(r, t.reqs[r])
           /\ t.reqs[r].job = req[r].job
           /\ t.reqs[r].state = "none" <=> req[r].state = "none"
           /\ t.reqs[r].state = "preparing" => req[r].state = "preparing"
           /\ t.reqs[r].state = "preparing" /\ t.reqs[r].job = Head(t.todo) => t.rec.state = "running"
           /\ \A n \in DOMAIN t.reqs[r].packets : Placed(r, n, t.reqs[r].packets[n], t.out, t.seals)
    /\ IsSequence(t.out) /\ t.error \in Errors

Ticking ==
    /\ tick.phase \in {"idle", "steps", "captures", "seal", "invalid", "protocol"}
    /\ tick.phase # "idle" => Holding(tick)
    /\ tick.phase = "seal" /\ Here.peer => ToSet(tick.out) \subseteq DOMAIN tick.rec.captures

ContextInv ==
    Records /\ Machine /\ Ticking /\ PreparingIsPrepared /\ PublishedIsSealed /\ CapturedBeforeSent

-----------------------------------------------------------------------------
(* Sequences.                                                              *)

\* Counting up from 0.
LEMMA CountUp ==
    ASSUME NEW n \in Nat, NEW S, 0 \in S, \A k \in 1 .. n : k - 1 \in S => k \in S
    PROVE  \A k \in 0 .. n : k \in S
<1> DEFINE Missed == {k \in 0 .. n : k \notin S}
           R == {ss \in Nat \X Nat : ss[1] < ss[2]}
<1> SUFFICES ASSUME Missed # {} PROVE FALSE
    OBVIOUS
<1>1. IsWellFoundedOn(R, Nat)
    BY NatLessThanWellFounded, Zenon DEF OpToRel
<1>2. PICK m \in Missed : \A k \in Missed : <<k, m>> \notin R
    <2>1. Missed \in SUBSET Nat
        OBVIOUS
    <2> HIDE DEF Missed, R
    <2> QED BY <1>1, <2>1, WFMin, Zenon
<1>3. m \in 1 .. n /\ m - 1 \in 0 .. n /\ <<m - 1, m>> \in R
    OBVIOUS
<1>4. m - 1 \in S
    BY <1>2, <1>3
<1> QED BY <1>3, <1>4

\* What is a sequence of anything is one of its own elements.
LEMMA SequenceFrom ==
    ASSUME NEW S, NEW s \in Seq(S)
    PROVE  IsSequence(s) /\ ToSet(s) \subseteq S /\ ToSet(s) = {s[i] : i \in 1 .. Len(s)}
<1>1. ToSet(s) = {s[i] : i \in 1 .. Len(s)}
    BY DEF ToSet
<1>2. s \in Seq(ToSet(s))
    <2>1. \A i \in 1 .. Len(s) : s[i] \in ToSet(s)
        BY <1>1
    <2>2. Len(s) \in Nat /\ s = [i \in 1 .. Len(s) |-> s[i]]
        OBVIOUS
    <2> HIDE DEF ToSet
    <2> QED BY <2>1, <2>2
<1> QED BY <1>1, <1>2 DEF IsSequence

LEMMA EmptySequence == IsSequence(<<>>) /\ ToSet(<<>>) = {} /\ Len(<<>>) = 0
<1>1. PICK e : e = <<>>
    OBVIOUS
<1>2. e \in Seq({1}) /\ Len(e) = 0
    BY <1>1
<1>3. ToSet(e) = {e[i] : i \in 1 .. Len(e)} /\ IsSequence(e)
    BY <1>2, SequenceFrom
<1>4. ToSet(e) = {}
    BY <1>2, <1>3
<1> QED BY <1>1, <1>2, <1>3, <1>4

LEMMA SequenceOfOne ==
    ASSUME NEW x
    PROVE  IsSequence(<<x>>)
<1>1. PICK q : q = <<x>>
    OBVIOUS
<1>2. q \in Seq({x})
    BY <1>1
<1>3. IsSequence(q)
    BY <1>2, SequenceFrom
<1> QED BY <1>1, <1>3

LEMMA SequencesMore ==
    ASSUME NEW s, NEW e, IsSequence(s)
    PROVE  /\ IsSequence(Append(s, e)) /\ Len(Append(s, e)) = Len(s) + 1
           /\ Len(s) \in Nat /\ DOMAIN s = 1 .. Len(s)
           /\ \A i \in 1 .. Len(s) : Append(s, e)[i] = s[i]
           /\ Append(s, e)[Len(s) + 1] = e
           /\ ToSet(Append(s, e)) = ToSet(s) \cup {e}
<1> DEFINE T == ToSet(s) \cup {e}
<1>1. s \in Seq(T) /\ e \in T
    BY DEF IsSequence
<1> DEFINE a == Append(s, e)
<1>2. /\ a \in Seq(T) /\ Len(a) = Len(s) + 1 /\ Len(s) \in Nat /\ DOMAIN s = 1 .. Len(s)
      /\ \A i \in 1 .. Len(s) : a[i] = s[i]
      /\ a[Len(s) + 1] = e
    <2> HIDE DEF T
    <2> QED BY <1>1
<1>3. ToSet(a) = {a[i] : i \in 1 .. Len(a)} /\ IsSequence(a)
    BY <1>2, SequenceFrom
<1>4. ToSet(s) = {s[i] : i \in 1 .. Len(s)}
    BY <1>1, SequenceFrom
<1> HIDE DEF a
<1>5. ToSet(a) = ToSet(s) \cup {e}
    BY <1>2, <1>3, <1>4
<1> QED BY <1>2, <1>3, <1>5 DEF a

LEMMA SequencesJoined ==
    ASSUME NEW s, NEW t, IsSequence(s), IsSequence(t)
    PROVE  IsSequence(s \o t) /\ Len(s \o t) = Len(s) + Len(t) /\ Len(s) \in Nat /\ Len(t) \in Nat
<1> DEFINE T == ToSet(s) \cup ToSet(t)
<1>1. s \in Seq(T) /\ t \in Seq(T)
    BY DEF IsSequence
<1>2. s \o t \in Seq(T) /\ Len(s \o t) = Len(s) + Len(t) /\ Len(s) \in Nat /\ Len(t) \in Nat
    <2> HIDE DEF T
    <2> QED BY <1>1
<1> QED BY <1>2, SequenceFrom

LEMMA SequencesTail ==
    ASSUME NEW s, IsSequence(s), s # <<>>
    PROVE  /\ IsSequence(Tail(s)) /\ Head(s) = s[1] /\ Len(s) \in Nat \ {0}
           /\ ToSet(s) = {Head(s)} \cup ToSet(Tail(s))
           /\ Len(Tail(s)) = Len(s) - 1 /\ \A i \in 1 .. Len(s) - 1 : Tail(s)[i] = s[i + 1]
<1>1. s \in Seq(ToSet(s))
    BY DEF IsSequence
<1> DEFINE T == ToSet(s)
<1>2. /\ Tail(s) \in Seq(T) /\ Head(s) = s[1] /\ Len(s) \in Nat \ {0}
      /\ Len(Tail(s)) = Len(s) - 1 /\ \A i \in 1 .. Len(s) - 1 : Tail(s)[i] = s[i + 1]
    <2>1. s \in Seq(T)
        BY <1>1
    <2> HIDE DEF T
    <2> QED BY <2>1
<1>3. ToSet(s) = {s[i] : i \in 1 .. Len(s)}
    BY <1>1, SequenceFrom
<1>4. IsSequence(Tail(s)) /\ ToSet(Tail(s)) = {Tail(s)[i] : i \in 1 .. Len(Tail(s))}
    BY <1>2, SequenceFrom
<1>5. ToSet(s) = {Head(s)} \cup ToSet(Tail(s))
    <2>1. ASSUME NEW i \in 1 .. Len(s) PROVE s[i] \in {Head(s)} \cup ToSet(Tail(s))
        <3>1. CASE i = 1
            BY <3>1, <1>2
        <3>2. CASE i # 1
            <4>1. i - 1 \in 1 .. Len(s) - 1 /\ Tail(s)[i - 1] = s[i]
                BY <3>2, <1>2
            <4> QED BY <4>1, <1>2, <1>4
        <3> QED BY <3>1, <3>2
    <2>2. ASSUME NEW i \in 1 .. Len(Tail(s)) PROVE Tail(s)[i] \in ToSet(s)
        BY <1>2, <1>3
    <2>3. Head(s) \in ToSet(s)
        BY <1>2, <1>3
    <2>4. ToSet(s) \subseteq {Head(s)} \cup ToSet(Tail(s))
        BY <2>1, <1>3
    <2>5. ToSet(Tail(s)) \subseteq ToSet(s)
        BY <2>2, <1>4
    <2> QED BY <2>3, <2>4, <2>5
<1> QED BY <1>2, <1>4, <1>5

\* f[k] is what is left of the first k elements of s, for k up to n.
IsLeft(f, s, S, n) ==
    f = [k \in 0 .. n |->
            IF k = 0 THEN <<>> ELSE IF s[k] \in S THEN Append(f[k - 1], s[k]) ELSE f[k - 1]]

LEMMA WhereIs ==
    ASSUME NEW s, NEW S
    PROVE  Where(s, S) = (CHOOSE f : IsLeft(f, s, S, Len(s)))[Len(s)]
BY Zenon DEF Where, IsLeft

LEMMA LeftRuns ==
    ASSUME NEW s, NEW S, NEW n \in Nat
    PROVE  \E f : IsLeft(f, s, S, n)
<1> DEFINE Runs == {m \in 0 .. n : \E f : IsLeft(f, s, S, m)}
<1>1. 0 \in Runs
    <2> DEFINE f == [k \in 0 .. 0 |-> <<>>]
    <2>1. f = [k \in 0 .. 0 |-> IF k = 0 THEN <<>> ELSE IF s[k] \in S THEN Append(f[k - 1], s[k]) ELSE f[k - 1]]
        OBVIOUS
    <2> HIDE DEF f
    <2>2. IsLeft(f, s, S, 0)
        BY <2>1, Zenon DEF IsLeft
    <2> QED BY <2>2
<1>2. ASSUME NEW m \in 1 .. n, m - 1 \in Runs PROVE m \in Runs
    <2>1. PICK f : IsLeft(f, s, S, m - 1)
        BY <1>2
    <2> DEFINE last == IF s[m] \in S THEN Append(f[m - 1], s[m]) ELSE f[m - 1]
               g == [k \in 0 .. m |-> IF k = m THEN last ELSE f[k]]
    <2>2. \A k \in 0 .. m - 1 :
              f[k] = IF k = 0 THEN <<>> ELSE IF s[k] \in S THEN Append(f[k - 1], s[k]) ELSE f[k - 1]
        BY <2>1 DEF IsLeft
    <2>3. ASSUME NEW k \in 0 .. m
          PROVE  g[k] = IF k = 0 THEN <<>> ELSE IF s[k] \in S THEN Append(g[k - 1], s[k]) ELSE g[k - 1]
        <3>1. CASE k = m
            <4>1. g[k] = last /\ g[k - 1] = f[m - 1] /\ k # 0
                BY <3>1
            <4> HIDE DEF g
            <4> QED BY <3>1, <4>1
        <3>2. CASE k # m
            <4>1. k \in 0 .. m - 1 /\ g[k] = f[k] /\ (k # 0 => g[k - 1] = f[k - 1])
                BY <3>2
            <4> HIDE DEF g
            <4> QED BY <2>2, <4>1
        <3> QED BY <3>1, <3>2
    <2>4. g = [k \in 0 .. m |-> g[k]]
        OBVIOUS
    <2> HIDE DEF g
    <2>5. g = [k \in 0 .. m |-> IF k = 0 THEN <<>> ELSE IF s[k] \in S THEN Append(g[k - 1], s[k]) ELSE g[k - 1]]
        BY <2>3, <2>4
    <2>6. IsLeft(g, s, S, m)
        BY <2>5, Zenon DEF IsLeft
    <2> QED BY <2>6
<1>3. n \in Runs
    <2> HIDE DEF Runs
    <2>1. \A k \in 0 .. n : k \in Runs
        BY <1>1, <1>2, CountUp
    <2> QED BY <2>1
<1> QED BY <1>3

\* What is left of s is a sequence, of what is in s and in S.
LEMMA WhereKeeps ==
    ASSUME NEW s, IsSequence(s), NEW S
    PROVE  IsSequence(Where(s, S)) /\ ToSet(Where(s, S)) = ToSet(s) \cap S
<1> DEFINE n == Len(s)
<1>1. n \in Nat /\ DOMAIN s = 1 .. n /\ ToSet(s) = {s[i] : i \in 1 .. n}
    BY SequenceFrom DEF IsSequence
<1>2. PICK f : IsLeft(f, s, S, n) /\ Where(s, S) = f[n]
    <2>1. \E f : IsLeft(f, s, S, n)
        BY <1>1, LeftRuns
    <2> QED BY <2>1, WhereIs
<1> HIDE DEF n
<1>3. \A k \in 0 .. n :
          f[k] = IF k = 0 THEN <<>> ELSE IF s[k] \in S THEN Append(f[k - 1], s[k]) ELSE f[k - 1]
    BY <1>2 DEF IsLeft
<1> DEFINE Good == {k \in 0 .. n : IsSequence(f[k]) /\ ToSet(f[k]) = {s[i] : i \in 1 .. k} \cap S}
<1>4. 0 \in Good
    <2>2. IsSequence(<<>>) /\ ToSet(<<>>) = {}
        BY EmptySequence
    <2>3. f[0] = <<>>
        BY <1>1, <1>3
    <2> QED BY <1>1, <2>2, <2>3
<1>5. ASSUME NEW k \in 1 .. n, k - 1 \in Good PROVE k \in Good
    <2>1. IsSequence(f[k - 1]) /\ ToSet(f[k - 1]) = {s[i] : i \in 1 .. k - 1} \cap S
        BY <1>5
    <2>2. {s[i] : i \in 1 .. k} = {s[i] : i \in 1 .. k - 1} \cup {s[k]}
        <3>1. \A i \in 1 .. k : i \in 1 .. k - 1 \/ i = k
            BY <1>1
        <3>2. \A i \in 1 .. k - 1 : i \in 1 .. k
            BY <1>1
        <3>3. k \in 1 .. k
            BY <1>1
        <3> QED BY <3>1, <3>2, <3>3
    <2>3. CASE s[k] \in S
        <3>1. f[k] = Append(f[k - 1], s[k])
            <4>1. k \in 0 .. n /\ k # 0
                BY <1>1
            <4> QED BY <1>3, <2>3, <4>1
        <3>2. IsSequence(f[k]) /\ ToSet(f[k]) = ToSet(f[k - 1]) \cup {s[k]}
            BY <2>1, <3>1, SequencesMore
        <3> QED BY <1>1, <2>1, <2>2, <2>3, <3>2
    <2>4. CASE s[k] \notin S
        <3>1. f[k] = f[k - 1]
            BY <1>1, <1>3, <2>4
        <3> QED BY <1>1, <2>1, <2>2, <2>4, <3>1
    <2> QED BY <2>3, <2>4
<1>6. n \in Good
    <2> HIDE DEF Good
    <2>1. \A k \in 0 .. n : k \in Good
        BY <1>1, <1>4, <1>5, CountUp
    <2> QED BY <1>1, <2>1
<1> QED BY <1>1, <1>2, <1>6

-----------------------------------------------------------------------------
(* The pool, and what a compile makes of it.                               *)

PoolOK(p) == \A k \in DOMAIN p : p[k] \in Slots

LEMMA Progresses ==
    ASSUME NEW p, PoolOK(p), NEW k, NEW past, NEW bound
    PROVE  PoolOK(progress(p, k, past, bound))
<1>1. CASE k \in DOMAIN p
    <2>1. progress(p, k, past, bound) = [p EXCEPT ![k] = Settle(p[k], past)]
        BY <1>1 DEF progress
    <2>2. p[k] \in Slots
        BY <1>1 DEF PoolOK
    <2>3. Settle(p[k], past) \in Slots
        BY <2>2 DEF Settle, Slots, Settled
    <2> QED BY <1>1, <2>1, <2>3 DEF PoolOK
<1>2. CASE k \notin DOMAIN p
    <2>1. progress(p, k, past, bound) = p \/ progress(p, k, past, bound) = Over(p, Only(k, "running"))
        BY <1>2 DEF progress
    <2>2. "running" \in Slots
        BY DEF Slots
    <2>3. PoolOK(Over(p, Only(k, "running")))
        BY <2>2 DEF PoolOK, Over, Only
    <2> QED BY <2>1, <2>3
<1> QED BY <1>1, <1>2

LEMMA Releases ==
    ASSUME NEW p, PoolOK(p), NEW keys
    PROVE  PoolOK(release_all(p, keys))
BY DEF PoolOK, release_all, Restrict

\* f[k] is the pool after k of the keys, for k up to n.
IsPut(f, p, keys, past, n) ==
    f = [k \in 0 .. n |-> IF k = 0 THEN p ELSE progress(f[k - 1], keys[k], past, Bound)]

LEMMA PutRuns ==
    ASSUME NEW p, NEW keys, NEW past, NEW n \in Nat
    PROVE  \E f : IsPut(f, p, keys, past, n)
<1> DEFINE Runs == {m \in 0 .. n : \E f : IsPut(f, p, keys, past, m)}
<1>1. 0 \in Runs
    <2> DEFINE f == [k \in 0 .. 0 |-> p]
    <2>1. f = [k \in 0 .. 0 |-> IF k = 0 THEN p ELSE progress(f[k - 1], keys[k], past, Bound)]
        OBVIOUS
    <2> HIDE DEF f
    <2>2. IsPut(f, p, keys, past, 0)
        BY <2>1, Zenon DEF IsPut
    <2> QED BY <2>2
<1>2. ASSUME NEW m \in 1 .. n, m - 1 \in Runs PROVE m \in Runs
    <2>1. PICK f : IsPut(f, p, keys, past, m - 1)
        BY <1>2
    <2> DEFINE last == progress(f[m - 1], keys[m], past, Bound)
               g == [k \in 0 .. m |-> IF k = m THEN last ELSE f[k]]
    <2>2. \A k \in 0 .. m - 1 : f[k] = IF k = 0 THEN p ELSE progress(f[k - 1], keys[k], past, Bound)
        BY <2>1 DEF IsPut
    <2>3. ASSUME NEW k \in 0 .. m
          PROVE  g[k] = IF k = 0 THEN p ELSE progress(g[k - 1], keys[k], past, Bound)
        <3>1. CASE k = m
            <4>1. g[k] = last /\ g[k - 1] = f[m - 1] /\ k # 0
                BY <3>1
            <4> HIDE DEF g
            <4> QED BY <3>1, <4>1
        <3>2. CASE k # m
            <4>1. k \in 0 .. m - 1 /\ g[k] = f[k] /\ (k # 0 => g[k - 1] = f[k - 1])
                BY <3>2
            <4> HIDE DEF g
            <4> QED BY <2>2, <4>1
        <3> QED BY <3>1, <3>2
    <2>4. g = [k \in 0 .. m |-> g[k]]
        OBVIOUS
    <2> HIDE DEF g
    <2>5. g = [k \in 0 .. m |-> IF k = 0 THEN p ELSE progress(g[k - 1], keys[k], past, Bound)]
        BY <2>3, <2>4
    <2>6. IsPut(g, p, keys, past, m)
        BY <2>5, Zenon DEF IsPut
    <2> QED BY <2>6
<1>3. n \in Runs
    <2> HIDE DEF Runs
    <2>1. \A k \in 0 .. n : k \in Runs
        BY <1>1, <1>2, CountUp
    <2> QED BY <2>1
<1> QED BY <1>3

\* What a compile knows while it goes through its items.
AccOK(acc) == DOMAIN acc = {"pool", "waiting", "spent", "unmet", "seals"} /\ PoolOK(acc.pool)

LEMMA AskSteps ==
    ASSUME NEW acc, AccOK(acc), NEW name, NEW keys, Len(keys) \in Nat
    PROVE  AccOK(ask_step(acc, name, keys))
<1> DEFINE n == Len(keys)
           past == tick.at >= Ask[First].deadline
<1>1. PICK asked : /\ asked = (CHOOSE f : IsPut(f, acc.pool, keys, past, n))[n]
                   /\ \E unmet, seals, waiting, spent :
                        ask_step(acc, name, keys) =
                            [acc EXCEPT !.pool = asked, !.spent = spent, !.waiting = waiting,
                                        !.unmet = unmet, !.seals = seals]
    BY Zenon DEF ask_step, IsPut
<1>2. PICK f : IsPut(f, acc.pool, keys, past, n) /\ asked = f[n]
    <2>1. \E f : IsPut(f, acc.pool, keys, past, n)
        BY PutRuns
    <2> QED BY <1>1, <2>1
<1> HIDE DEF n, past
<1>3. \A k \in 0 .. n : f[k] = IF k = 0 THEN acc.pool ELSE progress(f[k - 1], keys[k], past, Bound)
    BY <1>2 DEF IsPut
<1> DEFINE Good == {k \in 0 .. n : PoolOK(f[k])}
<1>4. n \in Nat
    BY DEF n
<1>5. 0 \in Good
    <2>1. f[0] = acc.pool
        BY <1>3, <1>4
    <2> QED BY <1>4, <2>1 DEF AccOK
<1>6. ASSUME NEW k \in 1 .. n, k - 1 \in Good PROVE k \in Good
    <2>1. f[k] = progress(f[k - 1], keys[k], past, Bound)
        <3>1. k \in 0 .. n /\ k # 0
            BY <1>4
        <3> QED BY <1>3, <3>1
    <2>2. PoolOK(f[k])
        BY <1>6, <2>1, Progresses
    <2> QED BY <1>4, <2>2
<1>7. PoolOK(asked)
    <2> HIDE DEF Good
    <2>1. \A k \in 0 .. n : k \in Good
        BY <1>4, <1>5, <1>6, CountUp
    <2>2. n \in Good
        BY <1>4, <2>1
    <2> QED BY <1>2, <2>2 DEF Good
<1>8. PICK r : /\ r = ask_step(acc, name, keys) /\ DOMAIN r = DOMAIN acc
               /\ r.pool = asked
    <2>1. PICK unmet, seals, waiting, spent :
              ask_step(acc, name, keys) = [acc EXCEPT !.pool = asked, !.spent = spent, !.waiting = waiting,
                                                      !.unmet = unmet, !.seals = seals]
        BY <1>1
    <2> QED BY <2>1 DEF AccOK
<1> QED BY <1>7, <1>8 DEF AccOK

LEMMA DecidesItem ==
    ASSUME NEW acc, AccOK(acc), NEW it, it.parts \in Nat
    PROVE  AccOK(decide_item(acc, it))
<1>1. \A u : AccOK([acc EXCEPT !.unmet = u])
    BY DEF AccOK
<1>2. AccOK(project(acc, it))
    <2> DEFINE keys == [n \in 1 .. it.parts |-> Question(it.id, n)]
    <2>1. Len(keys) \in Nat
        OBVIOUS
    <2> HIDE DEF keys
    <2>2. AccOK(ask_step(acc, it.id, keys))
        BY <2>1, AskSteps
    <2> QED BY <1>1, <2>2 DEF project, keys
<1> QED BY <1>1, <1>2 DEF decide_item

LEMMA AsksOne ==
    ASSUME NEW acc, AccOK(acc), NEW name, NEW q
    PROVE  AccOK(ask_step(acc, name, <<q>>))
<1>1. Len(<<q>>) \in Nat
    OBVIOUS
<1> QED BY <1>1, AskSteps

LEMMA AssistsDiscovery ==
    ASSUME NEW acc, AccOK(acc)
    PROVE  AccOK(assist_discovery(acc))
<1>1. PICK terms : terms = ask_step(acc, "terms", <<Question("terms", 1)>>) /\ AccOK(terms)
    <2>1. PICK terms : terms = ask_step(acc, "terms", <<Question("terms", 1)>>)
        OBVIOUS
    <2>2. AccOK(terms)
        BY <2>1, AsksOne
    <2> QED BY <2>1, <2>2
<1>2. AccOK(ask_step(terms, "choice", <<Question("choice", 1)>>))
    BY <1>1, AsksOne
<1> QED BY <1>1, <1>2 DEF assist_discovery

\* f[k] is a compile after k of the items, for k up to n.
IsDecided(f, start, items, n) ==
    f = [k \in 0 .. n |-> IF k = 0 THEN start ELSE decide_item(f[k - 1], items[k])]

LEMMA DecidedRuns ==
    ASSUME NEW start, NEW items, NEW n \in Nat
    PROVE  \E f : IsDecided(f, start, items, n)
<1> DEFINE Runs == {m \in 0 .. n : \E f : IsDecided(f, start, items, m)}
<1>1. 0 \in Runs
    <2> DEFINE f == [k \in 0 .. 0 |-> start]
    <2>1. f = [k \in 0 .. 0 |-> IF k = 0 THEN start ELSE decide_item(f[k - 1], items[k])]
        OBVIOUS
    <2> HIDE DEF f
    <2>2. IsDecided(f, start, items, 0)
        BY <2>1, Zenon DEF IsDecided
    <2> QED BY <2>2
<1>2. ASSUME NEW m \in 1 .. n, m - 1 \in Runs PROVE m \in Runs
    <2>1. PICK f : IsDecided(f, start, items, m - 1)
        BY <1>2
    <2> DEFINE last == decide_item(f[m - 1], items[m])
               g == [k \in 0 .. m |-> IF k = m THEN last ELSE f[k]]
    <2>2. \A k \in 0 .. m - 1 : f[k] = IF k = 0 THEN start ELSE decide_item(f[k - 1], items[k])
        BY <2>1 DEF IsDecided
    <2>3. ASSUME NEW k \in 0 .. m
          PROVE  g[k] = IF k = 0 THEN start ELSE decide_item(g[k - 1], items[k])
        <3>1. CASE k = m
            <4>1. g[k] = last /\ g[k - 1] = f[m - 1] /\ k # 0
                BY <3>1
            <4> HIDE DEF g
            <4> QED BY <3>1, <4>1
        <3>2. CASE k # m
            <4>1. k \in 0 .. m - 1 /\ g[k] = f[k] /\ (k # 0 => g[k - 1] = f[k - 1])
                BY <3>2
            <4> HIDE DEF g
            <4> QED BY <2>2, <4>1
        <3> QED BY <3>1, <3>2
    <2>4. g = [k \in 0 .. m |-> g[k]]
        OBVIOUS
    <2> HIDE DEF g
    <2>5. g = [k \in 0 .. m |-> IF k = 0 THEN start ELSE decide_item(g[k - 1], items[k])]
        BY <2>3, <2>4
    <2>6. IsDecided(g, start, items, m)
        BY <2>5, Zenon DEF IsDecided
    <2> QED BY <2>6
<1>3. n \in Runs
    <2> HIDE DEF Runs
    <2>1. \A k \in 0 .. n : k \in Runs
        BY <1>1, <1>2, CountUp
    <2> QED BY <2>1
<1> QED BY <1>3

LEMMA Decides ==
    ASSUME NEW start, AccOK(start), NEW items, IsSequence(items),
           \A it \in ToSet(items) : it.parts \in Nat
    PROVE  /\ Len(items) \in Nat
           /\ AccOK((CHOOSE f : IsDecided(f, start, items, Len(items)))[Len(items)])
<1> DEFINE n == Len(items)
<1>1. n \in Nat /\ ToSet(items) = {items[i] : i \in 1 .. n}
    BY SequenceFrom DEF IsSequence
<1>2. PICK f : f = (CHOOSE g : IsDecided(g, start, items, n)) /\ IsDecided(f, start, items, n)
    <2>1. \E f : IsDecided(f, start, items, n)
        BY <1>1, DecidedRuns
    <2> QED BY <2>1
<1> HIDE DEF n
<1>3. \A k \in 0 .. n : f[k] = IF k = 0 THEN start ELSE decide_item(f[k - 1], items[k])
    BY <1>2 DEF IsDecided
<1> DEFINE Good == {k \in 0 .. n : AccOK(f[k])}
<1>4. 0 \in Good
    <2>1. f[0] = start
        BY <1>1, <1>3
    <2> QED BY <1>1, <2>1
<1>5. ASSUME NEW k \in 1 .. n, k - 1 \in Good PROVE k \in Good
    <2>1. k \in 0 .. n /\ k # 0
        BY <1>1
    <2>2. f[k] = decide_item(f[k - 1], items[k])
        BY <1>3, <2>1
    <2>3. items[k].parts \in Nat
        BY <1>1
    <2> QED BY <1>5, <2>1, <2>2, <2>3, DecidesItem
<1>6. AccOK(f[n])
    <2> HIDE DEF Good
    <2>1. \A k \in 0 .. n : k \in Good
        BY <1>1, <1>4, <1>5, CountUp
    <2>2. n \in Good
        BY <1>1, <2>1
    <2> QED BY <2>2 DEF Good
<1> QED BY <1>1, <1>2, <1>6 DEF n

\* The steps that the compiler writes.
LEMMA StepsWritten ==
    ASSUME IsSequence(Kind(First).items), NEW unmet
    PROVE  IsSequence(WithinCapacity(steps(unmet)))
<1> DEFINE items == Kind(First).items
           found == Where(items, {it \in ToSet(items) : it.id \notin DOMAIN unmet})
           lacking == Where(items, {it \in ToSet(items) : it.id \in DOMAIN unmet})
           a == [n \in DOMAIN found |-> <<"section", Selected(found[n])>>]
           b == [n \in DOMAIN lacking |-> <<"unmet", lacking[n].id, unmet[lacking[n].id]>>]
<1>1. IsSequence(found) /\ IsSequence(lacking)
    BY WhereKeeps
<1> HIDE DEF found, lacking
<1>2. DOMAIN found = 1 .. Len(found) /\ Len(found) \in Nat
    BY <1>1 DEF IsSequence
<1>3. DOMAIN lacking = 1 .. Len(lacking) /\ Len(lacking) \in Nat
    BY <1>1 DEF IsSequence
<1>4. IsSequence(a)
    <2>1. \A n \in 1 .. Len(found) : a[n] \in {a[i] : i \in 1 .. Len(found)}
        OBVIOUS
    <2>2. a = [n \in 1 .. Len(found) |-> a[n]]
        BY <1>2
    <2> HIDE DEF a
    <2>3. a \in Seq({a[i] : i \in 1 .. Len(found)})
        BY <1>2, <2>1, <2>2
    <2> QED BY <2>3, SequenceFrom
<1>5. IsSequence(b)
    <2>1. \A n \in 1 .. Len(lacking) : b[n] \in {b[i] : i \in 1 .. Len(lacking)}
        OBVIOUS
    <2>2. b = [n \in 1 .. Len(lacking) |-> b[n]]
        BY <1>3
    <2> HIDE DEF b
    <2>3. b \in Seq({b[i] : i \in 1 .. Len(lacking)})
        BY <1>3, <2>1, <2>2
    <2> QED BY <2>3, SequenceFrom
<1> HIDE DEF a, b
<1>6. \A x : IsSequence(<<x>>)
    BY SequenceOfOne
<1>7. steps(unmet) = a \o b \o <<<<"publish">>>>
    BY Zenon DEF steps, a, b, found, lacking
<1>8. IsSequence(a \o b)
    BY <1>4, <1>5, SequencesJoined
<1>9. IsSequence(a \o b \o <<<<"publish">>>>)
    BY <1>6, <1>8, SequencesJoined
<1> QED BY <1>6, <1>7, <1>9 DEF WithinCapacity

LEMMA IndexEnsured ==
    ASSUME PoolOK(pool)
    PROVE  PoolOK(ensure_index.pool)
<1> DEFINE k == Index(Head(tick.todo))
           asked == progress(pool, k, FALSE, Bound)
<1>1. PoolOK(asked) /\ PoolOK(release_all(asked, {k}))
    BY Progresses, Releases
<1>2. ensure_index.pool \in {pool, asked, release_all(asked, {k})}
    BY DEF ensure_index
<1> HIDE DEF asked
<1> QED BY <1>1, <1>2

\* What a tick is at.
LEMMA TickFacts ==
    ASSUME ContextInv, tick.phase # "idle"
    PROVE  /\ Head(tick.todo) \in Request /\ Len(tick.todo) \in Nat \ {0}
           /\ DOMAIN tick = DOMAIN NoTick /\ DOMAIN tick.rec = DOMAIN NoJob
           /\ tick.rec.requests \in Seq(Request) /\ tick.rec.requests # <<>>
           /\ First \in Request
           /\ tick.rec.cursor \in Nat \ {0} /\ Len(tick.rec.script) \in Nat
           /\ IsSequence(tick.rec.script)
<1>1. Holding(tick)
    BY DEF ContextInv, Ticking
<1>2. tick.todo \in Seq(Request) /\ tick.todo # <<>>
    BY <1>1 DEF Holding
<1>3. Head(tick.todo) \in Request /\ Len(tick.todo) \in Nat \ {0} /\ Head(tick.todo) = tick.todo[1]
      /\ 1 \in DOMAIN tick.todo
    BY <1>2
<1>4. tick.rec.requests = job[Head(tick.todo)].requests /\ JobOK(tick.rec)
    BY <1>1 DEF Holding
<1>5. tick.rec.requests \in Seq(Request) /\ tick.rec.requests # <<>>
    <2>1. job[tick.todo[1]].requests # <<>>
        BY <1>1, <1>3 DEF Holding
    <2> QED BY <1>3, <1>4, <2>1 DEF JobOK
<1>6. First \in Request
    BY <1>5 DEF First
<1>7. IsSequence(tick.rec.script) /\ tick.rec.cursor \in 1 .. Len(tick.rec.script) + 1
    BY <1>4 DEF JobOK
<1>8. Len(tick.rec.script) \in Nat
    BY <1>7, SequencesJoined
<1>9. DOMAIN tick = DOMAIN NoTick /\ DOMAIN tick.rec = DOMAIN NoJob
    BY <1>1, <1>4 DEF Holding, JobOK
<1> QED BY <1>3, <1>5, <1>6, <1>7, <1>8, <1>9

LEMMA Compiles ==
    ASSUME ContextInv, compile
    PROVE  /\ At("compile") /\ UNCHANGED Stored /\ PoolOK(pool')
           /\ \A k \in DOMAIN calls' : calls'[k] \in Nat \ {0}
           /\ \/ tick' = NextJob(req)
              \/ \E script, seals :
                     /\ IsSequence(script) /\ tick.rec.cursor \in 1 .. Len(script) + 1
                     /\ tick' = [tick EXCEPT !.rec.script = script, !.seals = @ \cup seals]
<1> DEFINE start == [pool |-> ensure_index.pool, waiting |-> ~ensure_index.ready,
                     spent |-> 0, unmet |-> <<>>, seals |-> {}]
           items == Kind(First).items
           n == Len(items)
           script == tick.rec.script
           c == tick.rec.cursor
<1>1. At("compile") /\ UNCHANGED Stored
    BY DEF compile
<1>2. PoolOK(pool) /\ \A k \in DOMAIN calls : calls[k] \in Nat \ {0}
    BY DEF ContextInv, Machine, PoolOK
<1>3. /\ First \in Request /\ IsSequence(script) /\ c \in Nat \ {0} /\ c <= Len(script)
      /\ Len(script) \in Nat
    <2>1. tick.phase # "idle" /\ c <= Len(script)
        BY <1>1 DEF At, Left
    <2> QED BY <2>1, TickFacts
<1>4. AccOK(start)
    BY <1>2, IndexEnsured DEF AccOK
<1>5. IsSequence(items) /\ \A it \in ToSet(items) : it.parts \in Nat
    BY <1>3, ContextAssumption DEF Kind
<1>6. AccOK((CHOOSE f : IsDecided(f, start, items, n))[n])
    <2> HIDE DEF start, items
    <2> QED BY <1>4, <1>5, Decides
<1>7. PICK asked :
        /\ asked = assist_discovery((CHOOSE f : IsDecided(f, start, items, n))[n])
        /\ \E started :
              calls' = [k \in DOMAIN calls \cup started |->
                           (IF k \in DOMAIN calls THEN calls[k] ELSE 0) + (IF k \in started THEN 1 ELSE 0)]
        /\ IF asked.waiting
           THEN pool' = asked.pool /\ tick' = NextJob(req)
           ELSE /\ \E keys : pool' = release_all(asked.pool, keys)
                /\ tick' = [tick EXCEPT
                       !.rec.script = SubSeq(script, 1, c - 1) \o WithinCapacity(steps(asked.unmet))
                                      \o SubSeq(script, c + 1, Len(script)),
                       !.seals = @ \cup asked.seals]
    BY Zenon DEF compile, IsDecided, Kept
<1>8. AccOK(asked)
    BY <1>6, <1>7, AssistsDiscovery
<1>9. PoolOK(pool')
    <2>1. PoolOK(asked.pool)
        BY <1>8 DEF AccOK
    <2>2. PICK p : p = asked.pool
        OBVIOUS
    <2>3. pool' = p \/ \E keys : pool' = release_all(p, keys)
        BY <1>7, <2>2
    <2>4. PoolOK(p) /\ \A keys : PoolOK(release_all(p, keys))
        BY <2>1, <2>2, Releases
    <2>5. PICK q : q = pool'
        OBVIOUS
    <2>6. PoolOK(q)
        BY <2>3, <2>4, <2>5
    <2> QED BY <2>5, <2>6
<1>10. \A k \in DOMAIN calls' : calls'[k] \in Nat \ {0}
    <2>1. PICK started :
              calls' = [k \in DOMAIN calls \cup started |->
                           (IF k \in DOMAIN calls THEN calls[k] ELSE 0) + (IF k \in started THEN 1 ELSE 0)]
        BY <1>7
    <2> QED BY <1>2, <2>1
<1>11. CASE asked.waiting
    BY <1>1, <1>7, <1>9, <1>10, <1>11
<1>12. CASE ~asked.waiting
    <2> DEFINE made == WithinCapacity(steps(asked.unmet))
               rest == SubSeq(script, c + 1, Len(script))
               whole == SubSeq(script, 1, c - 1) \o made \o rest
    <2>1. IsSequence(made)
        BY <1>5, StepsWritten
    <2>2. script \in Seq(ToSet(script))
        BY <1>3 DEF IsSequence
    <2>3. /\ SubSeq(script, 1, c - 1) \in Seq(ToSet(script)) /\ Len(SubSeq(script, 1, c - 1)) = c - 1
          /\ SubSeq(script, c + 1, Len(script)) \in Seq(ToSet(script))
        <3> DEFINE S == ToSet(script)
        <3>1. PICK x : x = script /\ x \in Seq(S)
            BY <2>2
        <3> HIDE DEF S
        <3>2. SubSeq(x, 1, c - 1) \in Seq(S) /\ Len(SubSeq(x, 1, c - 1)) = c - 1
              /\ SubSeq(x, c + 1, Len(x)) \in Seq(S)
            BY <1>3, <3>1
        <3> QED BY <3>1, <3>2 DEF S
    <2>4. IsSequence(SubSeq(script, 1, c - 1)) /\ IsSequence(SubSeq(script, c + 1, Len(script)))
        BY <2>3, SequenceFrom
    <2>5. /\ IsSequence(SubSeq(script, 1, c - 1) \o made)
          /\ Len(SubSeq(script, 1, c - 1) \o made) = c - 1 + Len(made) /\ Len(made) \in Nat
        BY <2>1, <2>3, <2>4, SequencesJoined
    <2>6. IsSequence(whole) /\ c \in 1 .. Len(whole) + 1
        <3> HIDE DEF made, rest
        <3>0. IsSequence(rest)
            BY <2>4 DEF rest
        <3>1. IsSequence(whole) /\ Len(rest) \in Nat /\ Len(whole) = c - 1 + Len(made) + Len(rest)
            BY <2>5, <3>0, SequencesJoined
        <3>2. PICK l : l = Len(whole)
            OBVIOUS
        <3>3. l = c - 1 + Len(made) + Len(rest) /\ Len(made) \in Nat /\ Len(rest) \in Nat /\ c \in Nat \ {0}
            BY <1>3, <2>5, <3>1, <3>2
        <3>4. c \in 1 .. l + 1
            BY <3>3
        <3> QED BY <3>1, <3>2, <3>4
    <2>7. tick' = [tick EXCEPT !.rec.script = whole, !.seals = @ \cup asked.seals]
        BY <1>7, <1>12
    <2> HIDE DEF whole, rest
    <2> QED BY <1>1, <1>9, <1>10, <2>6, <2>7
<1> QED BY <1>11, <1>12

-----------------------------------------------------------------------------
(* Packets, and publishing them.                                           *)

\* A packet has an end for its request, and carries what it says satisfies an item.
LEMMA PacketIs ==
    ASSUME NEW r, NEW sections, IsSequence(sections), NEW capacity, NEW corrections, NEW unmet, NEW reason,
           NEW packet, packet = compile_packet(sections, Items(r), capacity, corrections, unmet, reason)
    PROVE  packet.state \in Published /\ IsTrue(r, packet)
<1> DEFINE in == inclusion(sections, Items(r), capacity)
           results == item_results(sections, Items(r), capacity, corrections, unmet, TRUE, reason)
           all == [n \in DOMAIN sections |-> n]
           carried == Where(all, in)
<1>1. packet = [items |-> results, state |-> state_of(results),
                sections |-> [n \in DOMAIN carried |-> sections[carried[n]]]]
    BY DEF compile_packet
<1>2. DOMAIN sections = 1 .. Len(sections) /\ Len(sections) \in Nat
    BY DEF IsSequence
<1>3. IsSequence(all) /\ ToSet(all) = DOMAIN sections
    <2>1. all \in Seq(Nat)
        BY <1>2
    <2>2. Len(all) = Len(sections) /\ \A i \in 1 .. Len(sections) : all[i] = i
        BY <1>2
    <2>3. IsSequence(all) /\ ToSet(all) = {all[i] : i \in 1 .. Len(all)}
        BY <2>1, SequenceFrom
    <2> HIDE DEF all
    <2> QED BY <1>2, <2>2, <2>3
<1>4. IsSequence(carried) /\ ToSet(carried) = DOMAIN sections \cap in
    <2> HIDE DEF all, in
    <2> QED BY <1>3, WhereKeeps
<1>5. state_of(results) \in Published
    <2> HIDE DEF results
    <2> QED BY DEF state_of, Published
<1>6. ASSUME NEW i \in DOMAIN Items(r), results[i][1] = "satisfied"
      PROVE  \E m \in DOMAIN packet.sections :
                 packet.sections[m].item = i /\ ~packet.sections[m].historical
    <2>1. Satisfied(sections, Items(r), capacity, corrections, i)
        <3> DEFINE Met == Satisfied(sections, Items(r), capacity, corrections, i)
        <3>1. PICK cause :
                 results[i] = IF Met THEN <<"satisfied", "">>
                              ELSE IF unmet[i] # "" THEN <<"unmet", unmet[i]>>
                              ELSE <<IF is_required(Items(r), i) THEN "unmet" ELSE "degraded", cause>>
            BY Zenon, <1>6 DEF item_results
        <3>2. \A y : <<"unmet", y>>[1] # "satisfied" /\ <<"degraded", y>>[1] # "satisfied"
            OBVIOUS
        <3> HIDE DEF Met, results
        <3>3. ASSUME ~Met PROVE FALSE
            <4>1. \E y : results[i] = <<"unmet", y>> \/ results[i] = <<"degraded", y>>
                BY <3>1, <3>3
            <4> QED BY <1>6, <3>2, <4>1
        <3>4. Met
            BY <3>3
        <3> QED BY <3>4 DEF Met
    <2>2. PICK n \in in : sections[n].item = i /\ ~sections[n].historical
        BY <2>1 DEF Satisfied
    <2>3. n \in DOMAIN sections
        BY <2>2, Zenon DEF inclusion
    <2> HIDE DEF in
    <2>4. n \in ToSet(carried)
        BY <1>4, <2>2, <2>3
    <2> HIDE DEF carried
    <2>5. PICK m \in DOMAIN carried : carried[m] = n
        BY <2>4 DEF ToSet
    <2>6. m \in DOMAIN packet.sections /\ packet.sections[m] = sections[n]
        BY <1>1, <2>5
    <2> QED BY <2>2, <2>6
<1> HIDE DEF results
<1>7. packet.items = results /\ packet.state = state_of(results)
    BY <1>1
<1> QED BY <1>5, <1>6, <1>7 DEF IsTrue

\* A tick that is at the same job, with as much of it done.
Beside(u, t) ==
    /\ Holding(u)
    /\ u.rec = t.rec /\ u.todo = t.todo /\ u.phase = t.phase /\ u.ended = t.ended
    /\ u.error = "" => t.error = ""
    /\ \A r \in Request : u.reqs[r].state = "preparing" => t.reqs[r].state = "preparing"

\* The tick once a request was given a packet.
Told(t, r, packet, x) ==
    LET q == t.reqs[r]
        a == <<r, Len(q.packets) + 1>>
    IN [t EXCEPT !.reqs[r] = [q EXCEPT !.packets = Append(q.packets, packet), !.state = packet.state, !.items = x],
                 !.out = Append(@, a), !.seals = IF Here.peer THEN @ ELSE @ \cup {a}]

\* What publishing to a request comes to: nothing, an error, or one more packet.
Given(u, t, r, packet) ==
    LET q == t.reqs[r] IN
    \/ u = t /\ (t.error # "" \/ q.state # "preparing")
    \/ /\ q.state \in {"preparing"} \cup Published
       /\ \E e \in Errors \ {""} : u = [t EXCEPT !.error = e]
    \/ /\ q.state \in {"preparing"} \cup Published
       /\ t.error = ""
       /\ \E x : u = Told(t, r, packet, x)

LEMMA PublishesAs ==
    ASSUME NEW t, NEW r, NEW reason, NEW u, u = publish_one(t, r, reason)
    PROVE  \E packet, why :
               /\ packet = compile_packet(t.rec.sections, Items(r), Capacity(r), t.rec.corrections, t.rec.unmet, why)
               /\ Given(u, t, r, packet)
<1> DEFINE q == t.reqs[r]
           a == <<r, Len(q.packets) + 1>>
<1> DEFINE due == q.state = "preparing" \/ (q.state \in Published /\ Ask[r].updates)
           at == IF a \in DOMAIN t.rec.captures THEN t.rec.captures[a] ELSE t.at
           w == IF reason = "" /\ at >= Ask[r].deadline THEN "deadline_passed" ELSE reason
           pk == compile_packet(t.rec.sections, Items(r), Capacity(r), t.rec.corrections, t.rec.unmet, w)
           done == [t EXCEPT
                      !.reqs[r] = [q EXCEPT !.packets = Append(q.packets, pk), !.state = pk.state, !.items = pk.items],
                      !.out = Append(@, a), !.seals = IF Here.peer THEN @ ELSE @ \cup {a}]
<1>1. u = IF t.error # "" \/ ~due THEN t
          ELSE IF ids_outside_grammar(pk) THEN [t EXCEPT !.error = "invalid"]
          ELSE IF ~Here.peer /\ a \in sealed \cup t.seals THEN [t EXCEPT !.error = "protocol"]
          ELSE done
    BY DEF publish_one
<1>2. due => q.state \in {"preparing"} \cup Published
    OBVIOUS
<1>3. ~due => q.state # "preparing"
    OBVIOUS
<1>4. \E x : done = Told(t, r, pk, x)
    BY DEF Told
<1>5. "invalid" \in Errors \ {""} /\ "protocol" \in Errors \ {""}
    BY DEF Errors
<1> HIDE DEF due, done, pk
<1>6. \/ u = t /\ (t.error # "" \/ q.state # "preparing")
      \/ /\ q.state \in {"preparing"} \cup Published
         /\ \E e \in Errors \ {""} : u = [t EXCEPT !.error = e]
      \/ /\ q.state \in {"preparing"} \cup Published
         /\ t.error = ""
         /\ u = done
    BY <1>1, <1>2, <1>3, <1>5
<1>7. pk = compile_packet(t.rec.sections, Items(r), Capacity(r), t.rec.corrections, t.rec.unmet, w)
    BY DEF pk
<1>8. PICK x : done = Told(t, r, pk, x)
    BY <1>4
<1>9. Given(u, t, r, pk)
    BY <1>6, <1>8, Zenon DEF Given
<1> QED BY <1>7, <1>9

LEMMA PublishesOne ==
    ASSUME NEW t, Holding(t), NEW r \in Request, NEW reason, NEW u, u = publish_one(t, r, reason)
    PROVE  Beside(u, t) /\ (u.error = "" => u.reqs[r].state # "preparing")
<1>0. /\ DOMAIN t = DOMAIN NoTick /\ DOMAIN t.reqs = Request
      /\ t.todo \in Seq(Request) /\ t.todo # <<>>
      /\ JobOK(t.rec) /\ IsSequence(t.rec.sections) /\ IsSequence(t.out) /\ t.error \in Errors
      /\ \A s \in Request :
           /\ RequestOK(s, t.reqs[s])
           /\ t.reqs[s].job = req[s].job
           /\ t.reqs[s].state = "none" <=> req[s].state = "none"
           /\ t.reqs[s].state = "preparing" => req[s].state = "preparing"
           /\ t.reqs[s].state = "preparing" /\ t.reqs[s].job = Head(t.todo) => t.rec.state = "running"
           /\ \A n \in DOMAIN t.reqs[s].packets : Placed(s, n, t.reqs[s].packets[n], t.out, t.seals)
    BY DEF Holding, JobOK
<1> DEFINE q == t.reqs[r]
           a == <<r, Len(q.packets) + 1>>
<1>1. PICK packet, why :
        /\ packet = compile_packet(t.rec.sections, Items(r), Capacity(r), t.rec.corrections, t.rec.unmet, why)
        /\ Given(u, t, r, packet)
    BY PublishesAs
<1>2. packet.state \in Published /\ IsTrue(r, packet)
    BY <1>0, <1>1, PacketIs
<1>3. CASE u = t /\ (t.error # "" \/ q.state # "preparing")
    BY <1>3 DEF Beside
<1>4. ASSUME NEW e \in Errors \ {""}, u = [t EXCEPT !.error = e] PROVE Beside(u, t) /\ u.error # ""
    <2>1. /\ u.error = e /\ u.rec = t.rec /\ u.todo = t.todo /\ u.phase = t.phase /\ u.ended = t.ended
          /\ u.reqs = t.reqs /\ u.out = t.out /\ u.seals = t.seals /\ DOMAIN u = DOMAIN t
        BY <1>0, <1>4 DEF NoTick
    <2>3. u.error \in Errors
        BY <2>1
    <2>4. DOMAIN u = DOMAIN NoTick
        BY <1>0, <2>1
    <2> HIDE DEF q, a
    <2>2. Holding(u)
        <3>1. /\ u.todo \in Seq(Request) /\ u.todo # <<>>
              /\ \A n \in DOMAIN u.todo : job[u.todo[n]].state # "none" /\ job[u.todo[n]].requests # <<>>
              /\ JobOK(u.rec) /\ u.rec.state # "none"
              /\ u.rec.requests = job[Head(u.todo)].requests
              /\ u.rec.captures = job[Head(u.todo)].captures
            BY <2>1 DEF Holding
        <3>2. \A s \in Request :
                  /\ RequestOK(s, u.reqs[s])
                  /\ u.reqs[s].job = req[s].job
                  /\ u.reqs[s].state = "none" <=> req[s].state = "none"
                  /\ u.reqs[s].state = "preparing" => req[s].state = "preparing"
                  /\ u.reqs[s].state = "preparing" /\ u.reqs[s].job = Head(u.todo) => u.rec.state = "running"
                  /\ \A n \in DOMAIN u.reqs[s].packets : Placed(s, n, u.reqs[s].packets[n], u.out, u.seals)
            <4>1. u.reqs = t.reqs /\ u.todo = t.todo /\ u.rec = t.rec /\ u.out = t.out /\ u.seals = t.seals
                BY <2>1
            <4> TAKE s \in Request
            <4>2. u.reqs[s] = t.reqs[s]
                BY <4>1
            <4>3. \A n \in DOMAIN u.reqs[s].packets : Placed(s, n, u.reqs[s].packets[n], u.out, u.seals)
                BY <1>0, <4>1, <4>2
            <4> QED BY <1>0, <4>1, <4>2, <4>3
        <3>3. DOMAIN u.reqs = Request /\ IsSequence(u.out)
            BY <1>0, <2>1
        <3> QED BY <2>3, <2>4, <3>1, <3>2, <3>3, Zenon DEF Holding
    <2> QED BY <1>4, <2>1, <2>2 DEF Beside
<1>5. ASSUME q.state \in {"preparing"} \cup Published, t.error = "",
             NEW x, u = Told(t, r, packet, x)
      PROVE  Beside(u, t) /\ u.reqs[r].state # "preparing"
    <2> DEFINE q2 == [q EXCEPT !.packets = Append(q.packets, packet), !.state = packet.state, !.items = x]
    <2>1. /\ u.rec = t.rec /\ u.todo = t.todo /\ u.phase = t.phase /\ u.ended = t.ended /\ u.error = t.error
          /\ u.reqs = [t.reqs EXCEPT ![r] = q2]
          /\ u.out = Append(t.out, a)
          /\ u.seals = (IF Here.peer THEN t.seals ELSE t.seals \cup {a})
          /\ DOMAIN u = DOMAIN t
        <3> HIDE DEF q2
        <3>1. u = [t EXCEPT !.reqs = [t.reqs EXCEPT ![r] = q2],
                            !.out = Append(t.out, a), !.seals = IF Here.peer THEN t.seals ELSE t.seals \cup {a}]
            BY <1>0, <1>5 DEF NoTick, q2, Told
        <3> QED BY <1>0, <3>1 DEF NoTick
    <2>2. DOMAIN q = DOMAIN NoRequest
        BY <1>0 DEF RequestOK
    <2>3. /\ DOMAIN q2 = DOMAIN NoRequest /\ q2.packets = Append(q.packets, packet)
          /\ q2.state = packet.state /\ q2.job = q.job
        BY <2>2 DEF NoRequest
    <2>4. u.reqs[r] = q2 /\ \A s \in Request \ {r} : u.reqs[s] = t.reqs[s]
        BY <1>0, <2>1
    <2>5. IsSequence(q.packets) /\ \A n \in DOMAIN q.packets : IsTrue(r, q.packets[n])
        BY <1>0 DEF RequestOK
    <2>6. /\ IsSequence(q2.packets) /\ Len(q2.packets) = Len(q.packets) + 1 /\ Len(q.packets) \in Nat
          /\ DOMAIN q.packets = 1 .. Len(q.packets)
          /\ DOMAIN q2.packets = 1 .. Len(q.packets) + 1
          /\ \A n \in 1 .. Len(q.packets) : q2.packets[n] = q.packets[n]
          /\ q2.packets[Len(q.packets) + 1] = packet
        <3>1. PICK p2 : p2 = Append(q.packets, packet)
            OBVIOUS
        <3>2. /\ IsSequence(p2) /\ Len(p2) = Len(q.packets) + 1 /\ Len(q.packets) \in Nat
              /\ DOMAIN q.packets = 1 .. Len(q.packets)
              /\ \A n \in 1 .. Len(q.packets) : p2[n] = q.packets[n]
              /\ p2[Len(q.packets) + 1] = packet
            BY <2>5, <3>1, SequencesMore
        <3>3. DOMAIN p2 = 1 .. Len(p2)
            BY <3>2 DEF IsSequence
        <3> QED BY <2>3, <3>1, <3>2, <3>3
    <2>7. IsSequence(u.out) /\ ToSet(u.out) = ToSet(t.out) \cup {a}
        <3>1. PICK o : o = t.out /\ IsSequence(o)
            BY <1>0
        <3> HIDE DEF a
        <3> QED BY <2>1, <3>1, SequencesMore
    <2>8. packet.state \notin {"none", "preparing"} /\ packet.state \in RequestStates
        BY <1>2 DEF Published, RequestStates
    <2>9. q.state # "none"
        BY <1>5 DEF Published
    <2>10. RequestOK(r, q2)
        <3>1. q2 # NoRequest
            <4>1. NoRequest.state = "none"
                BY DEF NoRequest
            <4> QED BY <2>3, <2>8, <4>1
        <3>2. \A n \in DOMAIN q2.packets : IsTrue(r, q2.packets[n])
            BY <1>2, <2>5, <2>6
        <3>3. q.job \in Request \cup {""}
            BY <1>0 DEF RequestOK
        <3> HIDE DEF q2
        <3> QED BY <2>3, <2>6, <2>8, <3>1, <3>2, <3>3 DEF RequestOK
    <2>11. ASSUME NEW s, NEW n, NEW k, Placed(s, n, k, t.out, t.seals)
           PROVE  Placed(s, n, k, u.out, u.seals)
        BY <2>1, <2>7, <2>11 DEF Placed
    <2>12. ASSUME NEW n \in DOMAIN q2.packets PROVE Placed(r, n, q2.packets[n], u.out, u.seals)
        <3>1. CASE n = Len(q.packets) + 1
            <4>1. <<r, n>> \in ToSet(u.out)
                BY <2>7, <3>1
            <4>2. ~Here.peer => <<r, n>> \in u.seals
                BY <2>1, <3>1
            <4> QED BY <4>1, <4>2 DEF Placed
        <3>2. CASE n # Len(q.packets) + 1
            <4>1. n \in DOMAIN q.packets /\ q2.packets[n] = q.packets[n]
                BY <2>6, <3>2
            <4>2. Placed(r, n, q.packets[n], t.out, t.seals)
                BY <1>0, <4>1
            <4> QED BY <2>11, <4>1, <4>2
        <3> QED BY <3>1, <3>2
    <2> HIDE DEF q2
    <2>13. ASSUME NEW s \in Request
           PROVE  /\ RequestOK(s, u.reqs[s])
                  /\ u.reqs[s].job = req[s].job
                  /\ u.reqs[s].state = "none" <=> req[s].state = "none"
                  /\ u.reqs[s].state = "preparing" => req[s].state = "preparing"
                  /\ u.reqs[s].state = "preparing" /\ u.reqs[s].job = Head(u.todo) => u.rec.state = "running"
                  /\ \A n \in DOMAIN u.reqs[s].packets : Placed(s, n, u.reqs[s].packets[n], u.out, u.seals)
                  /\ u.reqs[s].state = "preparing" => t.reqs[s].state = "preparing"
        <3>1. CASE s = r
            <4>1. req[r].state # "none"
                BY <1>0, <2>9
            <4> QED BY <1>0, <2>3, <2>4, <2>8, <2>10, <2>12, <3>1, <4>1
        <3>2. CASE s # r
            <4>1. u.reqs[s] = t.reqs[s] /\ u.rec = t.rec /\ u.todo = t.todo
                BY <2>1, <2>4, <3>2
            <4>2. \A n \in DOMAIN u.reqs[s].packets : Placed(s, n, u.reqs[s].packets[n], u.out, u.seals)
                BY <1>0, <2>11, <4>1
            <4> QED BY <1>0, <4>1, <4>2
        <3> QED BY <3>1, <3>2
    <2>14. DOMAIN u.reqs = Request
        BY <1>0, <2>1
    <2>15. Holding(u)
        <3>1. \A s \in Request :
                  /\ RequestOK(s, u.reqs[s])
                  /\ u.reqs[s].job = req[s].job
                  /\ u.reqs[s].state = "none" <=> req[s].state = "none"
                  /\ u.reqs[s].state = "preparing" => req[s].state = "preparing"
                  /\ u.reqs[s].state = "preparing" /\ u.reqs[s].job = Head(u.todo) => u.rec.state = "running"
                  /\ \A n \in DOMAIN u.reqs[s].packets : Placed(s, n, u.reqs[s].packets[n], u.out, u.seals)
            BY <2>13
        <3>2. /\ u.todo \in Seq(Request) /\ u.todo # <<>>
              /\ \A n \in DOMAIN u.todo : job[u.todo[n]].state # "none" /\ job[u.todo[n]].requests # <<>>
              /\ JobOK(u.rec) /\ u.rec.state # "none"
              /\ u.rec.requests = job[Head(u.todo)].requests
              /\ u.rec.captures = job[Head(u.todo)].captures
            BY <2>1 DEF Holding
        <3>3. DOMAIN u = DOMAIN NoTick /\ IsSequence(u.out) /\ u.error \in Errors
            BY <1>0, <2>1, <2>7
        <3> QED BY <2>14, <3>1, <3>2, <3>3, Zenon DEF Holding
    <2> QED BY <2>1, <2>3, <2>4, <2>8, <2>13, <2>15 DEF Beside
<1>6. \/ u = t /\ (t.error # "" \/ q.state # "preparing")
      \/ \E e \in Errors \ {""} : u = [t EXCEPT !.error = e]
      \/ Beside(u, t) /\ u.reqs[r].state # "preparing"
    BY <1>1, <1>5, Zenon DEF Given
<1> HIDE DEF q, a
<1> QED BY <1>3, <1>4, <1>6

\* f[k] is a tick after k of the requests were published to, for k up to n.
IsToldTo(f, t, requests, reason, n) ==
    f = [k \in 0 .. n |-> IF k = 0 THEN t ELSE publish_one(f[k - 1], requests[k], reason)]

LEMMA ToldRuns ==
    ASSUME NEW t, NEW requests, NEW reason, NEW n \in Nat
    PROVE  \E f : IsToldTo(f, t, requests, reason, n)
<1> DEFINE Runs == {m \in 0 .. n : \E f : IsToldTo(f, t, requests, reason, m)}
<1>1. 0 \in Runs
    <2> DEFINE f == [k \in 0 .. 0 |-> t]
    <2>1. f = [k \in 0 .. 0 |-> IF k = 0 THEN t ELSE publish_one(f[k - 1], requests[k], reason)]
        OBVIOUS
    <2> HIDE DEF f
    <2>2. IsToldTo(f, t, requests, reason, 0)
        BY <2>1, Zenon DEF IsToldTo
    <2> QED BY <2>2
<1>2. ASSUME NEW m \in 1 .. n, m - 1 \in Runs PROVE m \in Runs
    <2>1. PICK f : IsToldTo(f, t, requests, reason, m - 1)
        BY <1>2
    <2> DEFINE last == publish_one(f[m - 1], requests[m], reason)
               g == [k \in 0 .. m |-> IF k = m THEN last ELSE f[k]]
    <2>2. \A k \in 0 .. m - 1 : f[k] = IF k = 0 THEN t ELSE publish_one(f[k - 1], requests[k], reason)
        BY <2>1 DEF IsToldTo
    <2>3. ASSUME NEW k \in 0 .. m
          PROVE  g[k] = IF k = 0 THEN t ELSE publish_one(g[k - 1], requests[k], reason)
        <3>1. CASE k = m
            <4>1. g[k] = last /\ g[k - 1] = f[m - 1] /\ k # 0
                BY <3>1
            <4> HIDE DEF g
            <4> QED BY <3>1, <4>1
        <3>2. CASE k # m
            <4>1. k \in 0 .. m - 1 /\ g[k] = f[k] /\ (k # 0 => g[k - 1] = f[k - 1])
                BY <3>2
            <4> HIDE DEF g
            <4> QED BY <2>2, <4>1
        <3> QED BY <3>1, <3>2
    <2>4. g = [k \in 0 .. m |-> g[k]]
        OBVIOUS
    <2> HIDE DEF g
    <2>5. g = [k \in 0 .. m |-> IF k = 0 THEN t ELSE publish_one(g[k - 1], requests[k], reason)]
        BY <2>3, <2>4
    <2>6. IsToldTo(g, t, requests, reason, m)
        BY <2>5, Zenon DEF IsToldTo
    <2> QED BY <2>6
<1>3. n \in Runs
    <2> HIDE DEF Runs
    <2>1. \A k \in 0 .. n : k \in Runs
        BY <1>1, <1>2, CountUp
    <2> QED BY <2>1
<1> QED BY <1>3

\* Whoever is published to is no longer preparing, unless publishing failed.
LEMMA PublishesTo ==
    ASSUME NEW t, Holding(t), NEW requests, requests \in Seq(Request), NEW reason,
           NEW u, u = PublishTo(t, requests, reason)
    PROVE  Beside(u, t) /\ (u.error = "" => \A r \in ToSet(requests) : u.reqs[r].state # "preparing")
<1> DEFINE n == Len(requests)
<1>1. n \in Nat /\ ToSet(requests) = {requests[i] : i \in 1 .. n} /\ \A i \in 1 .. n : requests[i] \in Request
    BY SequenceFrom
<1>2. PICK f : IsToldTo(f, t, requests, reason, n) /\ u = f[n]
    <2>1. u = (CHOOSE f : IsToldTo(f, t, requests, reason, n))[n]
        BY Zenon DEF PublishTo, IsToldTo
    <2>2. \E f : IsToldTo(f, t, requests, reason, n)
        BY <1>1, ToldRuns
    <2> QED BY <2>1, <2>2
<1> HIDE DEF n
<1>3. \A k \in 0 .. n : f[k] = IF k = 0 THEN t ELSE publish_one(f[k - 1], requests[k], reason)
    BY <1>2 DEF IsToldTo
<1> DEFINE Fine(k) ==
               /\ Beside(f[k], t)
               /\ f[k].error = "" => \A i \in 1 .. k : f[k].reqs[requests[i]].state # "preparing"
           Good == {k \in 0 .. n : Fine(k)}
<1>4. 0 \in Good
    <2>1. f[0] = t
        BY <1>1, <1>3
    <2>2. Beside(t, t)
        BY DEF Beside
    <2>3. Fine(0)
        BY <2>1, <2>2
    <2> HIDE DEF Fine
    <2> QED BY <1>1, <2>3
<1>5. ASSUME NEW k \in 1 .. n, k - 1 \in Good PROVE k \in Good
    <2>1. PICK before, after : before = f[k - 1] /\ after = f[k]
        OBVIOUS
    <2>2. after = publish_one(before, requests[k], reason)
        <3>1. k \in 0 .. n /\ k # 0
            BY <1>1
        <3> QED BY <1>3, <2>1, <3>1
    <2>3. /\ Beside(before, t)
          /\ before.error = "" => \A i \in 1 .. k - 1 : before.reqs[requests[i]].state # "preparing"
        BY <1>5, <2>1
    <2>4. Holding(before) /\ requests[k] \in Request
        BY <1>1, <2>3 DEF Beside
    <2>5. Beside(after, before) /\ (after.error = "" => after.reqs[requests[k]].state # "preparing")
        BY <2>2, <2>4, PublishesOne
    <2>6. Beside(after, t)
        BY <2>3, <2>5 DEF Beside
    <2>7. ASSUME after.error = "", NEW i \in 1 .. k PROVE after.reqs[requests[i]].state # "preparing"
        <3>1. CASE i = k
            BY <2>5, <2>7, <3>1
        <3>2. CASE i # k
            <4>1. i \in 1 .. k - 1 /\ requests[i] \in Request
                BY <1>1, <3>2
            <4>2. before.error = ""
                BY <2>5, <2>7 DEF Beside
            <4>3. before.reqs[requests[i]].state # "preparing"
                BY <2>3, <4>1, <4>2
            <4> QED BY <2>5, <4>1, <4>3 DEF Beside
        <3> QED BY <3>1, <3>2
    <2>8. Fine(k)
        BY <2>1, <2>6, <2>7
    <2> HIDE DEF Fine
    <2> QED BY <1>1, <2>8
<1>6. n \in Good
    <2> HIDE DEF Good
    <2>1. \A k \in 0 .. n : k \in Good
        BY <1>1, <1>4, <1>5, CountUp
    <2> QED BY <1>1, <2>1
<1> QED BY <1>1, <1>2, <1>6

-----------------------------------------------------------------------------
(* The steps of a tick that leave what is stored alone.                    *)

\* A tick that is at the same job, whose record was worked on.
Onward(u, t) ==
    /\ DOMAIN u = DOMAIN NoTick
    /\ u.todo = t.todo /\ u.reqs = t.reqs /\ u.out = t.out /\ t.seals \subseteq u.seals /\ u.error = t.error
    /\ DOMAIN u.rec = DOMAIN NoJob
    /\ u.rec.state = t.rec.state /\ u.rec.requests = t.rec.requests /\ u.rec.captures = t.rec.captures
    /\ IsSequence(u.rec.sections) /\ IsSequence(u.rec.script)
    /\ u.rec.cursor \in 1 .. Len(u.rec.script) + 1

LEMMA GoesOn ==
    ASSUME NEW t, Holding(t), NEW u, Onward(u, t)
    PROVE  Holding(u)
<1>1. JobOK(u.rec) /\ u.rec.state # "none"
    BY DEF JobOK, Onward, Holding
<1>2. ASSUME NEW r, NEW n, NEW packet, Placed(r, n, packet, t.out, t.seals)
      PROVE  Placed(r, n, packet, u.out, u.seals)
    BY <1>2 DEF Placed, Onward
<1>3. ASSUME NEW r \in Request
      PROVE  \A n \in DOMAIN u.reqs[r].packets : Placed(r, n, u.reqs[r].packets[n], u.out, u.seals)
    <2>1. \A n \in DOMAIN t.reqs[r].packets : Placed(r, n, t.reqs[r].packets[n], t.out, t.seals)
        BY DEF Holding
    <2> QED BY <1>2, <2>1 DEF Onward
<1>4. /\ u.todo = t.todo /\ u.reqs = t.reqs /\ u.out = t.out /\ DOMAIN u = DOMAIN NoTick /\ u.error = t.error
      /\ u.rec.state = t.rec.state /\ u.rec.requests = t.rec.requests /\ u.rec.captures = t.rec.captures
    BY DEF Onward
<1> QED BY <1>1, <1>3, <1>4 DEF Holding

LEMMA HoldingStays ==
    ASSUME NEW t, Holding(t), UNCHANGED Stored
    PROVE  Holding(t)'
BY DEF Holding, Stored, Placed, Here

\* A step that changes nothing stored keeps the invariant when the tick it leaves is
\* idle or holds what it must.
LEMMA StoredStays ==
    ASSUME ContextInv, UNCHANGED Stored, PoolOK(pool'), \A k \in DOMAIN calls' : calls'[k] \in Nat \ {0},
           NEW t, t = tick',
           \/ t = NoTick
           \/ /\ t.phase \in {"steps", "captures", "invalid", "protocol"}
              /\ Holding(t)
           \/ /\ t.phase = "seal" /\ Holding(t)
              /\ Here.peer => ToSet(t.out) \subseteq DOMAIN t.rec.captures
    PROVE  ContextInv'
<1>1. Records' /\ PreparingIsPrepared' /\ PublishedIsSealed' /\ CapturedBeforeSent'
    BY DEF ContextInv, Stored, Records, PreparingIsPrepared, PublishedIsSealed, CapturedBeforeSent, Here
<1>2. Machine'
    BY DEF ContextInv, Machine, Stored, PoolOK
<1>3. Ticking'
    <2>1. t = NoTick \/ Holding(t)'
        BY HoldingStays
    <2>2. NoTick.phase = "idle"
        BY DEF NoTick
    <2>3. Here' = Here
        BY DEF Stored, Here
    <2>4. /\ t.phase \in {"idle", "steps", "captures", "seal", "invalid", "protocol"}
          /\ t.phase # "idle" => Holding(t)'
          /\ t.phase = "seal" /\ Here.peer => ToSet(t.out) \subseteq DOMAIN t.rec.captures
        BY <2>1, <2>2
    <2> QED BY <2>3, <2>4 DEF Ticking
<1> QED BY <1>1, <1>2, <1>3 DEF ContextInv

\* What a step of a job starts from.
LEMMA StepFacts ==
    ASSUME ContextInv, tick.phase = "steps"
    PROVE  /\ Holding(tick) /\ DOMAIN tick = DOMAIN NoTick /\ DOMAIN tick.rec = DOMAIN NoJob
           /\ IsSequence(tick.rec.sections) /\ IsSequence(tick.rec.script)
           /\ tick.rec.cursor \in Nat \ {0} /\ Len(tick.rec.script) \in Nat
           /\ PoolOK(pool) /\ \A k \in DOMAIN calls : calls[k] \in Nat \ {0}
<1>1. Holding(tick)
    BY DEF ContextInv, Ticking
<1>2. IsSequence(tick.rec.sections)
    BY <1>1 DEF Holding, JobOK
<1>3. PoolOK(pool) /\ \A k \in DOMAIN calls : calls[k] \in Nat \ {0}
    BY DEF ContextInv, Machine, PoolOK
<1> QED BY <1>1, <1>2, <1>3, TickFacts

\* Past the step at the cursor.
LEMMA GoesPast ==
    ASSUME NEW t, Onward(t, tick), DOMAIN t = DOMAIN NoTick, t.phase = "steps",
           t.rec.cursor = tick.rec.cursor, t.rec.script = tick.rec.script,
           tick.rec.cursor \in Nat \ {0}, Len(tick.rec.script) \in Nat,
           tick.rec.cursor <= Len(tick.rec.script),
           NEW u, u = Past(t)
    PROVE  Onward(u, tick) /\ u.phase = "steps"
<1>1. DOMAIN t.rec = DOMAIN NoJob
    BY DEF Onward
<1>2. /\ DOMAIN u = DOMAIN t /\ u.phase = t.phase /\ u.todo = t.todo /\ u.reqs = t.reqs /\ u.out = t.out
      /\ u.seals = t.seals /\ u.error = t.error /\ u.rec = [t.rec EXCEPT !.cursor = t.rec.cursor + 1]
    BY DEF Past, NoTick
<1>3. /\ DOMAIN u.rec = DOMAIN NoJob /\ u.rec.state = t.rec.state /\ u.rec.requests = t.rec.requests
      /\ u.rec.captures = t.rec.captures /\ u.rec.sections = t.rec.sections /\ u.rec.script = t.rec.script
      /\ u.rec.cursor = t.rec.cursor + 1
    BY <1>1, <1>2 DEF NoJob
<1>4. u.rec.cursor \in 1 .. Len(u.rec.script) + 1
    BY <1>3
<1> QED BY <1>1, <1>2, <1>3, <1>4 DEF Onward

LEMMA CorrectedKeeps ==
    ASSUME NEW sections, IsSequence(sections), NEW item, NEW rev
    PROVE  IsSequence(Corrected(sections, item, rev))
<1>1. PICK c : c = Corrected(sections, item, rev) /\ DOMAIN c = DOMAIN sections /\ c = [n \in DOMAIN sections |-> c[n]]
    BY DEF Corrected
<1>2. DOMAIN sections = 1 .. Len(sections) /\ Len(sections) \in Nat
    BY DEF IsSequence
<1>3. c \in Seq({c[n] : n \in 1 .. Len(sections)})
    BY <1>1, <1>2
<1> QED BY <1>1, <1>3, SequenceFrom

LEMMA PrepareKeeps ==
    ASSUME ContextInv, Prepare
    PROVE  ContextInv'
<1>1. /\ tick.phase = "steps" /\ tick.rec.cursor <= Len(tick.rec.script)
      /\ UNCHANGED Stored /\ pool' = pool /\ calls' = calls
    BY DEF Prepare, At, Left
<1>2. /\ Holding(tick) /\ DOMAIN tick = DOMAIN NoTick /\ DOMAIN tick.rec = DOMAIN NoJob
      /\ IsSequence(tick.rec.sections) /\ IsSequence(tick.rec.script)
      /\ tick.rec.cursor \in Nat \ {0} /\ Len(tick.rec.script) \in Nat
      /\ PoolOK(pool) /\ \A k \in DOMAIN calls : calls[k] \in Nat \ {0}
    BY <1>1, StepFacts
<1>3. PICK t : /\ tick' = Past(t) /\ DOMAIN t = DOMAIN NoTick /\ t.phase = "steps"
               /\ Onward(t, tick) /\ t.rec.cursor = tick.rec.cursor /\ t.rec.script = tick.rec.script
    <2>1. CASE tick' = Past([tick EXCEPT !.rec.sections = Append(@, Section(Step[2]))])
        <3>1. PICK t : t = [tick EXCEPT !.rec.sections = Append(@, Section(Step[2]))]
            OBVIOUS
        <3>2. /\ DOMAIN t = DOMAIN tick /\ t.phase = tick.phase /\ t.todo = tick.todo /\ t.reqs = tick.reqs
              /\ t.out = tick.out /\ t.seals = tick.seals /\ t.error = tick.error
              /\ t.rec = [tick.rec EXCEPT !.sections = Append(tick.rec.sections, Section(Step[2]))]
            BY <1>2, <3>1 DEF NoTick
        <3>3. /\ DOMAIN t.rec = DOMAIN NoJob /\ t.rec.state = tick.rec.state
              /\ t.rec.requests = tick.rec.requests /\ t.rec.captures = tick.rec.captures
              /\ t.rec.script = tick.rec.script /\ t.rec.cursor = tick.rec.cursor
              /\ t.rec.sections = Append(tick.rec.sections, Section(Step[2]))
            BY <1>2, <3>2 DEF NoJob
        <3>4. IsSequence(t.rec.sections)
            BY <1>2, <3>3, SequencesMore
        <3>5. t.rec.cursor \in 1 .. Len(t.rec.script) + 1
            BY <1>1, <1>2, <3>3
        <3> QED BY <1>1, <1>2, <2>1, <3>1, <3>2, <3>3, <3>4, <3>5 DEF Onward
    <2>2. CASE tick' = Past([tick EXCEPT !.rec.unmet[Step[2]] = Step[3]])
        <3>1. PICK t : t = [tick EXCEPT !.rec.unmet[Step[2]] = Step[3]]
            OBVIOUS
        <3>2. /\ DOMAIN t = DOMAIN tick /\ t.phase = tick.phase /\ t.todo = tick.todo /\ t.reqs = tick.reqs
              /\ t.out = tick.out /\ t.seals = tick.seals /\ t.error = tick.error
              /\ t.rec = [tick.rec EXCEPT !.unmet = [tick.rec.unmet EXCEPT ![Step[2]] = Step[3]]]
            BY <1>2, <3>1 DEF NoTick
        <3>3. /\ DOMAIN t.rec = DOMAIN NoJob /\ t.rec.state = tick.rec.state
              /\ t.rec.requests = tick.rec.requests /\ t.rec.captures = tick.rec.captures
              /\ t.rec.script = tick.rec.script /\ t.rec.cursor = tick.rec.cursor
              /\ t.rec.sections = tick.rec.sections
            BY <1>2, <3>2 DEF NoJob
        <3>4. t.rec.cursor \in 1 .. Len(t.rec.script) + 1
            BY <1>1, <1>2, <3>3
        <3> QED BY <1>1, <1>2, <2>2, <3>1, <3>2, <3>3, <3>4 DEF Onward
    <2>3. CASE tick' = Past([tick EXCEPT !.rec.corrections[Step[2]] = Step[3],
                                         !.rec.sections = Corrected(@, Step[2], Step[3])])
        <3>1. PICK t : t = [tick EXCEPT !.rec.corrections[Step[2]] = Step[3],
                                        !.rec.sections = Corrected(@, Step[2], Step[3])]
            OBVIOUS
        <3>2. /\ DOMAIN t = DOMAIN tick /\ t.phase = tick.phase /\ t.todo = tick.todo /\ t.reqs = tick.reqs
              /\ t.out = tick.out /\ t.seals = tick.seals /\ t.error = tick.error
              /\ DOMAIN t.rec = DOMAIN NoJob /\ t.rec.state = tick.rec.state
              /\ t.rec.requests = tick.rec.requests /\ t.rec.captures = tick.rec.captures
              /\ t.rec.script = tick.rec.script /\ t.rec.cursor = tick.rec.cursor
              /\ t.rec.sections = Corrected(tick.rec.sections, Step[2], Step[3])
            <4>1. PICK v : v = [tick EXCEPT !.rec.corrections[Step[2]] = Step[3]]
                OBVIOUS
            <4>2. /\ DOMAIN v = DOMAIN tick /\ v.phase = tick.phase /\ v.todo = tick.todo /\ v.reqs = tick.reqs
                  /\ v.out = tick.out /\ v.seals = tick.seals /\ v.error = tick.error
                  /\ v.rec = [tick.rec EXCEPT !.corrections = [tick.rec.corrections EXCEPT ![Step[2]] = Step[3]]]
                BY <1>2, <4>1 DEF NoTick
            <4>3. /\ DOMAIN v.rec = DOMAIN NoJob /\ v.rec.state = tick.rec.state
                  /\ v.rec.requests = tick.rec.requests /\ v.rec.captures = tick.rec.captures
                  /\ v.rec.script = tick.rec.script /\ v.rec.cursor = tick.rec.cursor
                  /\ v.rec.sections = tick.rec.sections
                BY <1>2, <4>2 DEF NoJob
            <4>4. t = [v EXCEPT !.rec.sections = Corrected(v.rec.sections, Step[2], Step[3])]
                BY <1>2, <3>1, <4>1, <4>2 DEF NoTick
            <4>5. /\ DOMAIN t = DOMAIN v /\ t.phase = v.phase /\ t.todo = v.todo /\ t.reqs = v.reqs
                  /\ t.out = v.out /\ t.seals = v.seals /\ t.error = v.error
                  /\ t.rec = [v.rec EXCEPT !.sections = Corrected(v.rec.sections, Step[2], Step[3])]
                BY <1>2, <4>2, <4>4 DEF NoTick
            <4>6. /\ DOMAIN t.rec = DOMAIN NoJob /\ t.rec.state = v.rec.state
                  /\ t.rec.requests = v.rec.requests /\ t.rec.captures = v.rec.captures
                  /\ t.rec.script = v.rec.script /\ t.rec.cursor = v.rec.cursor
                  /\ t.rec.sections = Corrected(v.rec.sections, Step[2], Step[3])
                BY <4>3, <4>5 DEF NoJob
            <4> QED BY <4>2, <4>3, <4>5, <4>6
        <3>3. IsSequence(t.rec.sections)
            BY <1>2, <3>2, CorrectedKeeps
        <3>4. t.rec.cursor \in 1 .. Len(t.rec.script) + 1
            BY <1>1, <1>2, <3>2
        <3> QED BY <1>1, <1>2, <2>3, <3>1, <3>2, <3>3, <3>4 DEF Onward
    <2>4. CASE tick' = Past(tick)
        <3>1. tick.rec.cursor \in 1 .. Len(tick.rec.script) + 1
            BY <1>1, <1>2
        <3> QED BY <1>1, <1>2, <2>4, <3>1 DEF Onward
    <2> QED BY <2>1, <2>2, <2>3, <2>4 DEF Prepare
<1>4. PICK u : u = tick' /\ u = Past(t)
    BY <1>3
<1>5. Onward(u, tick) /\ u.phase = "steps"
    BY <1>1, <1>2, <1>3, <1>4, GoesPast
<1>6. Holding(u)
    BY <1>2, <1>5, GoesOn
<1> QED BY <1>1, <1>2, <1>4, <1>5, <1>6, StoredStays

\* Publishing leaves a tick that goes on, or one that is dropped for its error.
LEMMA Publishes ==
    ASSUME ContextInv, tick.phase = "steps", NEW t, Onward(t, tick), t.phase = "steps",
           NEW requests, requests \in Seq(Request), NEW reason, NEW p, p = PublishTo(t, requests, reason)
    PROVE  /\ Beside(p, t) /\ p.phase = "steps"
           /\ p.error = "" => \A r \in ToSet(requests) : p.reqs[r].state # "preparing"
           /\ DOMAIN p = DOMAIN NoTick /\ DOMAIN p.rec = DOMAIN NoJob
<1>1. Holding(t)
    BY GoesOn, StepFacts
<1>2. Beside(p, t) /\ (p.error = "" => \A r \in ToSet(requests) : p.reqs[r].state # "preparing")
    BY <1>1, PublishesTo
<1> QED BY <1>2 DEF Beside, Holding, JobOK

\* A tick that was published from is dropped for its error, or goes on.
LEMMA JudgedKeeps ==
    ASSUME ContextInv, UNCHANGED Stored, pool' = pool, calls' = calls, tick.phase = "steps",
           NEW p, DOMAIN p = DOMAIN NoTick, Holding(p), p.phase \in {"steps", "captures"},
           tick' = Judged(p)
    PROVE  ContextInv'
<1>1. p.error \in Errors
    BY DEF Holding
<1>2. PICK t : t = tick' /\ t = Judged(p)
    OBVIOUS
<1>3. PoolOK(pool') /\ \A k \in DOMAIN calls' : calls'[k] \in Nat \ {0}
    BY StepFacts
<1>4. CASE p.error = ""
    BY <1>2, <1>3, <1>4, StoredStays DEF Judged
<1>5. CASE p.error # ""
    <2>1. t = [p EXCEPT !.phase = p.error]
        BY <1>2, <1>5 DEF Judged
    <2>2. /\ DOMAIN t = DOMAIN NoTick /\ t.phase = p.error /\ t.todo = p.todo /\ t.reqs = p.reqs /\ t.out = p.out
          /\ t.seals = p.seals /\ t.error = p.error /\ t.rec = p.rec
        BY <2>1 DEF NoTick
    <2>3. Holding(t)
        BY <2>2 DEF Holding
    <2>4. t.phase \in {"invalid", "protocol"}
        BY <1>1, <1>5, <2>2 DEF Errors
    <2> QED BY <1>2, <1>3, <2>3, <2>4, StoredStays
<1> QED BY <1>4, <1>5

LEMMA PublishAllKeeps ==
    ASSUME ContextInv, publish_all
    PROVE  ContextInv'
<1>1. /\ tick.phase = "steps" /\ tick.rec.cursor <= Len(tick.rec.script)
      /\ UNCHANGED Stored /\ pool' = pool /\ calls' = calls
    BY DEF publish_all, At, Left
<1>2. /\ Holding(tick) /\ DOMAIN tick = DOMAIN NoTick /\ DOMAIN tick.rec = DOMAIN NoJob
      /\ IsSequence(tick.rec.sections) /\ IsSequence(tick.rec.script)
      /\ tick.rec.cursor \in Nat \ {0} /\ Len(tick.rec.script) \in Nat
    BY <1>1, StepFacts
<1>3. Onward(tick, tick)
    BY <1>1, <1>2 DEF Onward
<1>4. tick.rec.requests \in Seq(Request)
    BY <1>1, TickFacts
<1>5. PICK p : p = PublishTo(tick, tick.rec.requests, "")
    OBVIOUS
<1>6. Beside(p, tick) /\ p.phase = "steps" /\ DOMAIN p = DOMAIN NoTick /\ DOMAIN p.rec = DOMAIN NoJob
    BY <1>1, <1>3, <1>4, <1>5, Publishes
<1>7. tick' = Judged(IF p.error = "" THEN Past([p EXCEPT !.rec.published = TRUE]) ELSE p)
    BY <1>5 DEF publish_all
<1>8. CASE p.error # ""
    BY <1>1, <1>6, <1>7, <1>8, JudgedKeeps DEF Beside
<1>9. CASE p.error = ""
    <2>1. PICK v : v = [p EXCEPT !.rec.published = TRUE]
        OBVIOUS
    <2>2. PICK u : u = Past(v)
        OBVIOUS
    <2>3. /\ DOMAIN v = DOMAIN NoTick /\ v.phase = "steps" /\ v.todo = p.todo /\ v.reqs = p.reqs
          /\ v.out = p.out /\ v.seals = p.seals /\ v.error = p.error
          /\ v.rec = [p.rec EXCEPT !.published = TRUE]
        BY <1>6, <2>1 DEF NoTick
    <2>4. /\ DOMAIN v.rec = DOMAIN NoJob /\ v.rec.state = p.rec.state
          /\ v.rec.requests = p.rec.requests /\ v.rec.captures = p.rec.captures
          /\ v.rec.script = p.rec.script /\ v.rec.cursor = p.rec.cursor
          /\ v.rec.sections = p.rec.sections
        BY <1>6, <2>3 DEF NoJob
    <2>5. p.rec = tick.rec
        BY <1>6 DEF Beside
    <2>6. Holding(p)
        BY <1>6 DEF Beside
    <2>7. Onward(u, p) /\ DOMAIN u = DOMAIN NoTick /\ u.phase = "steps"
        <3>1. v.rec.cursor \in 1 .. Len(v.rec.script) + 1
            BY <1>1, <1>2, <2>4, <2>5
        <3>2. /\ DOMAIN u = DOMAIN v /\ u.phase = v.phase /\ u.todo = v.todo /\ u.reqs = v.reqs /\ u.out = v.out
              /\ u.seals = v.seals /\ u.error = v.error /\ u.rec = [v.rec EXCEPT !.cursor = v.rec.cursor + 1]
            BY <2>2, <2>3 DEF Past, NoTick
        <3>3. /\ DOMAIN u.rec = DOMAIN NoJob /\ u.rec.state = v.rec.state /\ u.rec.requests = v.rec.requests
              /\ u.rec.captures = v.rec.captures /\ u.rec.sections = v.rec.sections /\ u.rec.script = v.rec.script
              /\ u.rec.cursor = v.rec.cursor + 1
            BY <2>4, <3>2 DEF NoJob
        <3>4. u.rec.cursor \in 1 .. Len(u.rec.script) + 1
            BY <1>1, <1>2, <2>4, <2>5, <3>3
        <3>5. IsSequence(u.rec.sections) /\ IsSequence(u.rec.script)
            BY <1>2, <2>4, <2>5, <3>3
        <3> QED BY <2>3, <2>4, <3>2, <3>3, <3>4, <3>5 DEF Onward
    <2>8. Holding(u)
        BY <2>6, <2>7, GoesOn
    <2>9. tick' = Judged(u)
        BY <1>7, <1>9, <2>1, <2>2
    <2> QED BY <1>1, <2>7, <2>8, <2>9, JudgedKeeps
<1> QED BY <1>8, <1>9

\* A job that ends is published to everyone it is for, so nobody is left preparing.
LEMMA FinishKeeps ==
    ASSUME ContextInv, UNCHANGED Stored, pool' = pool, calls' = calls, tick.phase = "steps",
           NEW t, Onward(t, tick), t.phase = "steps", NEW reason, tick' = finish(t, reason)
    PROVE  ContextInv'
<1>1. /\ Holding(tick) /\ DOMAIN tick = DOMAIN NoTick /\ tick.rec.requests \in Seq(Request)
      /\ Head(tick.todo) \in Request
    BY StepFacts, TickFacts
<1>2. t.rec.requests = tick.rec.requests /\ t.todo = tick.todo
    BY DEF Onward
<1>3. PICK p : p = PublishTo(t, t.rec.requests, reason)
    OBVIOUS
<1>4. /\ Beside(p, t) /\ p.phase = "steps" /\ DOMAIN p = DOMAIN NoTick /\ DOMAIN p.rec = DOMAIN NoJob
      /\ p.error = "" => \A r \in ToSet(t.rec.requests) : p.reqs[r].state # "preparing"
    <2>1. PICK rs \in Seq(Request) : rs = t.rec.requests
        BY <1>1, <1>2
    <2>2. p = PublishTo(t, rs, reason)
        BY <1>3, <2>1
    <2>3. Holding(t)
        BY <1>1, GoesOn
    <2>4. Beside(p, t) /\ (p.error = "" => \A r \in ToSet(rs) : p.reqs[r].state # "preparing")
        BY <2>1, <2>2, <2>3, PublishesTo
    <2>5. p.phase = "steps" /\ DOMAIN p = DOMAIN NoTick /\ DOMAIN p.rec = DOMAIN NoJob
        BY <2>4 DEF Beside, Holding, JobOK
    <2> QED BY <2>1, <2>4, <2>5
<1>5. Holding(p) /\ p.rec = t.rec /\ p.todo = t.todo
    BY <1>4 DEF Beside
<1>6. tick' = Judged(IF p.error # "" THEN p
                     ELSE [p EXCEPT !.rec.published = TRUE, !.rec.state = "ended", !.ended = TRUE,
                                    !.phase = "captures"])
    BY <1>3 DEF finish
<1>7. CASE p.error # ""
    BY <1>4, <1>5, <1>6, <1>7, JudgedKeeps
<1>8. CASE p.error = ""
    <2>1. PICK v : v = [p EXCEPT !.rec.published = TRUE, !.rec.state = "ended", !.ended = TRUE, !.phase = "captures"]
        OBVIOUS
    <2>2. /\ DOMAIN v = DOMAIN NoTick /\ v.phase = "captures" /\ v.todo = p.todo /\ v.reqs = p.reqs
          /\ v.out = p.out /\ v.seals = p.seals /\ v.error = p.error
          /\ DOMAIN v.rec = DOMAIN NoJob /\ v.rec.state = "ended"
          /\ v.rec.requests = p.rec.requests /\ v.rec.captures = p.rec.captures
          /\ v.rec.script = p.rec.script /\ v.rec.cursor = p.rec.cursor
          /\ v.rec.sections = p.rec.sections
        <3>1. PICK w : w = [p EXCEPT !.rec.published = TRUE]
            OBVIOUS
        <3>2. /\ DOMAIN w = DOMAIN NoTick /\ w.phase = p.phase /\ w.todo = p.todo /\ w.reqs = p.reqs
              /\ w.out = p.out /\ w.seals = p.seals /\ w.error = p.error
              /\ w.rec = [p.rec EXCEPT !.published = TRUE]
            BY <1>4, <3>1 DEF NoTick
        <3>3. /\ DOMAIN w.rec = DOMAIN NoJob
              /\ w.rec.requests = p.rec.requests /\ w.rec.captures = p.rec.captures
              /\ w.rec.script = p.rec.script /\ w.rec.cursor = p.rec.cursor
              /\ w.rec.sections = p.rec.sections
            BY <1>4, <3>2 DEF NoJob
        <3>4. v = [w EXCEPT !.rec.state = "ended", !.ended = TRUE, !.phase = "captures"]
            BY <1>4, <2>1, <3>1 DEF NoTick
        <3>5. /\ DOMAIN v = DOMAIN NoTick /\ v.phase = "captures" /\ v.todo = w.todo /\ v.reqs = w.reqs
              /\ v.out = w.out /\ v.seals = w.seals /\ v.error = w.error
              /\ v.rec = [w.rec EXCEPT !.state = "ended"]
            BY <3>2, <3>4 DEF NoTick
        <3>6. /\ DOMAIN v.rec = DOMAIN NoJob /\ v.rec.state = "ended"
              /\ v.rec.requests = w.rec.requests /\ v.rec.captures = w.rec.captures
              /\ v.rec.script = w.rec.script /\ v.rec.cursor = w.rec.cursor
              /\ v.rec.sections = w.rec.sections
            BY <3>3, <3>5 DEF NoJob
        <3> QED BY <3>2, <3>3, <3>5, <3>6
    <2>3. JobOK(v.rec) /\ v.rec.state # "none"
        <3>1. JobOK(p.rec) /\ p.rec.requests \in Seq(Request)
            BY <1>5 DEF Holding, JobOK
        <3> QED BY <2>2, <3>1 DEF JobOK
    <2>4. ASSUME NEW r \in Request, p.reqs[r].state = "preparing", p.reqs[r].job = Head(p.todo) PROVE FALSE
        <3>1. req[r].state = "preparing" /\ req[r].job = Head(tick.todo)
            BY <1>2, <1>5, <2>4 DEF Holding
        <3>2. r \in ToSet(job[Head(tick.todo)].requests)
            BY <3>1 DEF ContextInv, PreparingIsPrepared
        <3>3. r \in ToSet(t.rec.requests)
            BY <1>1, <1>2, <3>2 DEF Holding
        <3> QED BY <1>4, <1>8, <2>4, <3>3
    <2>5. Holding(v)
        <3>1. /\ v.todo \in Seq(Request) /\ v.todo # <<>>
              /\ \A n \in DOMAIN v.todo : job[v.todo[n]].state # "none" /\ job[v.todo[n]].requests # <<>>
              /\ v.rec.requests = job[Head(v.todo)].requests
              /\ v.rec.captures = job[Head(v.todo)].captures
            BY <1>5, <2>2 DEF Holding
        <3>2. ASSUME NEW s \in Request
              PROVE  /\ RequestOK(s, v.reqs[s])
                     /\ v.reqs[s].job = req[s].job
                     /\ v.reqs[s].state = "none" <=> req[s].state = "none"
                     /\ v.reqs[s].state = "preparing" => req[s].state = "preparing"
                     /\ v.reqs[s].state = "preparing" /\ v.reqs[s].job = Head(v.todo) => v.rec.state = "running"
                     /\ \A n \in DOMAIN v.reqs[s].packets : Placed(s, n, v.reqs[s].packets[n], v.out, v.seals)
            <4>1. v.reqs = p.reqs /\ v.todo = p.todo /\ v.out = p.out /\ v.seals = p.seals
                BY <2>2
            <4>2. \A n \in DOMAIN p.reqs[s].packets : Placed(s, n, p.reqs[s].packets[n], p.out, p.seals)
                BY <1>5 DEF Holding
            <4>3. /\ RequestOK(s, p.reqs[s])
                  /\ p.reqs[s].job = req[s].job
                  /\ p.reqs[s].state = "none" <=> req[s].state = "none"
                  /\ p.reqs[s].state = "preparing" => req[s].state = "preparing"
                BY <1>5 DEF Holding
            <4>4. ~(p.reqs[s].state = "preparing" /\ p.reqs[s].job = Head(p.todo))
                BY <2>4
            <4> QED BY <4>1, <4>2, <4>3, <4>4
        <3>3. DOMAIN v = DOMAIN NoTick /\ DOMAIN v.reqs = Request /\ IsSequence(v.out) /\ v.error \in Errors
            BY <1>5, <2>2 DEF Holding
        <3> QED BY <2>3, <3>1, <3>2, <3>3, Zenon DEF Holding
    <2>6. tick' = Judged(v)
        BY <1>6, <1>8, <2>1
    <2> QED BY <2>2, <2>5, <2>6, JudgedKeeps
<1> QED BY <1>7, <1>8

LEMMA EndKeeps ==
    ASSUME ContextInv, End
    PROVE  ContextInv'
<1>1. /\ tick.phase = "steps" /\ tick.rec.cursor <= Len(tick.rec.script)
      /\ UNCHANGED Stored /\ pool' = pool /\ calls' = calls
    BY DEF End, At, Left
<1>2. /\ Holding(tick) /\ DOMAIN tick = DOMAIN NoTick /\ DOMAIN tick.rec = DOMAIN NoJob
      /\ IsSequence(tick.rec.sections) /\ IsSequence(tick.rec.script)
      /\ tick.rec.cursor \in Nat \ {0} /\ Len(tick.rec.script) \in Nat
      /\ PoolOK(pool) /\ \A k \in DOMAIN calls : calls[k] \in Nat \ {0}
    BY <1>1, StepFacts
<1>3. Onward(tick, tick)
    BY <1>1, <1>2 DEF Onward
<1>4. CASE tick' = finish(tick, Step[2])
    BY <1>1, <1>3, <1>4, FinishKeeps
<1>5. ASSUME NEW spent,
             tick' = IF spent > Ask[Head(tick.todo)].investigation
                     THEN finish([tick EXCEPT !.rec.spent = spent], "investigation_exhausted")
                     ELSE Past([tick EXCEPT !.rec.spent = spent])
      PROVE  ContextInv'
    <2>1. PICK t : t = [tick EXCEPT !.rec.spent = spent]
        OBVIOUS
    <2>2. /\ DOMAIN t = DOMAIN NoTick /\ t.phase = "steps" /\ t.todo = tick.todo /\ t.reqs = tick.reqs
          /\ t.out = tick.out /\ t.seals = tick.seals /\ t.error = tick.error
          /\ t.rec = [tick.rec EXCEPT !.spent = spent]
        BY <1>1, <1>2, <2>1 DEF NoTick
    <2>3. /\ DOMAIN t.rec = DOMAIN NoJob /\ t.rec.state = tick.rec.state
          /\ t.rec.requests = tick.rec.requests /\ t.rec.captures = tick.rec.captures
          /\ t.rec.script = tick.rec.script /\ t.rec.cursor = tick.rec.cursor
          /\ t.rec.sections = tick.rec.sections
        BY <1>2, <2>2 DEF NoJob
    <2>4. t.rec.cursor \in 1 .. Len(t.rec.script) + 1
        BY <1>1, <1>2, <2>3
    <2>5. Onward(t, tick)
        BY <1>2, <2>2, <2>3, <2>4 DEF Onward
    <2>6. CASE tick' = finish(t, "investigation_exhausted")
        BY <1>1, <2>2, <2>5, <2>6, FinishKeeps
    <2>7. CASE tick' = Past(t)
        <3>1. PICK u : u = tick' /\ u = Past(t)
            BY <2>7
        <3>2. Onward(u, tick) /\ u.phase = "steps"
            BY <1>1, <1>2, <2>2, <2>3, <2>5, <3>1, GoesPast
        <3>3. Holding(u)
            BY <1>2, <3>2, GoesOn
        <3> QED BY <1>1, <1>2, <3>1, <3>2, <3>3, StoredStays
    <2> QED BY <1>5, <2>1, <2>6, <2>7
<1> QED BY <1>4, <1>5 DEF End

LEMMA SequenceInto ==
    ASSUME NEW S, NEW s, IsSequence(s), ToSet(s) \subseteq S
    PROVE  s \in Seq(S)
<1>1. PICK T : T = ToSet(s) /\ s \in Seq(T)
    BY DEF IsSequence
<1> QED BY <1>1

LEMMA RestKeeps ==
    ASSUME ContextInv, Rest
    PROVE  ContextInv'
<1>1. tick.phase = "steps" /\ UNCHANGED Stored /\ pool' = pool /\ calls' = calls
    BY DEF Rest, At, Left
<1>2. /\ Holding(tick) /\ DOMAIN tick = DOMAIN NoTick /\ tick.rec.requests \in Seq(Request)
    BY <1>1, StepFacts, TickFacts
<1>3. PICK late :
        /\ \E S : late = Where(tick.rec.requests, S)
        /\ tick' = Judged([PublishTo(tick, late, "deadline_passed") EXCEPT !.phase = "captures"])
    BY Zenon DEF Rest
<1>4. late \in Seq(Request)
    <2>1. IsSequence(tick.rec.requests) /\ ToSet(tick.rec.requests) \subseteq Request
        BY <1>2, SequenceFrom
    <2>2. IsSequence(late) /\ ToSet(late) \subseteq ToSet(tick.rec.requests)
        BY <1>3, <2>1, WhereKeeps
    <2> QED BY <2>1, <2>2, SequenceInto
<1>5. PICK p : p = PublishTo(tick, late, "deadline_passed")
    OBVIOUS
<1>6. Holding(p) /\ DOMAIN p = DOMAIN NoTick
    <2>1. Beside(p, tick)
        BY <1>2, <1>4, <1>5, PublishesTo
    <2>2. Holding(p)
        BY <2>1 DEF Beside
    <2> QED BY <2>2 DEF Holding
<1>7. PICK v : v = [p EXCEPT !.phase = "captures"]
    OBVIOUS
<1>8. /\ DOMAIN v = DOMAIN NoTick /\ v.phase = "captures" /\ v.todo = p.todo /\ v.reqs = p.reqs /\ v.out = p.out
      /\ v.seals = p.seals /\ v.error = p.error /\ v.rec = p.rec
    BY <1>6, <1>7 DEF NoTick
<1>9. Holding(v)
    BY <1>6, <1>8 DEF Holding
<1>10. tick' = Judged(v)
    BY <1>3, <1>5, <1>7
<1> QED BY <1>1, <1>8, <1>9, <1>10, JudgedKeeps

LEMMA StopKeeps ==
    ASSUME ContextInv, Stop
    PROVE  ContextInv'
<1>1. UNCHANGED Stored /\ pool' = pool /\ calls' = calls /\ tick' = NoTick
    BY DEF Stop
<1>2. PoolOK(pool) /\ \A k \in DOMAIN calls : calls[k] \in Nat \ {0}
    BY DEF ContextInv, Machine, PoolOK
<1> QED BY <1>1, <1>2, StoredStays

-----------------------------------------------------------------------------
(* From one job of a tick to the next.                                     *)

\* A step that leaves what jobs recorded of their subscribers and packets, and makes
\* no request prepare anew.
JobsStay ==
    /\ \A j \in Request : job[j].state # "none" =>
           job'[j].state # "none" /\ job'[j].requests = job[j].requests /\ job'[j].captures = job[j].captures
    /\ \A r \in Request : req'[r].state = "preparing" => req[r].state = "preparing" /\ req'[r].job = req[r].job

\* The tick at the first of some jobs holds what it must, whatever has just been
\* committed.
LEMMA Turns ==
    ASSUME ContextInv, JobsStay, Records', PublishedIsSealed',
           NEW todo, todo \in Seq(Request),
           \A n \in DOMAIN todo : job[todo[n]].state # "none" /\ job[todo[n]].requests # <<>>,
           NEW reqs, reqs = req', NEW t, t = Turn(todo, reqs)
    PROVE  \/ t = NoTick
           \/ DOMAIN t = DOMAIN NoTick /\ t.phase = "steps" /\ Holding(t)'
<1>1. CASE todo = <<>>
    BY <1>1 DEF Turn
<1>2. CASE todo # <<>>
    <2>1. PICK j : j = Head(todo) /\ j \in Request /\ job[j].state # "none" /\ job[j].requests # <<>>
        <3>1. Head(todo) = todo[1] /\ 1 \in DOMAIN todo /\ Head(todo) \in Request
            BY <1>2
        <3> QED BY <3>1
    <2>2. /\ DOMAIN t = DOMAIN NoTick /\ t.phase = "steps" /\ t.todo = todo /\ t.rec = job[j] /\ t.reqs = reqs
          /\ t.out = <<>> /\ t.seals = {} /\ t.error = ""
        BY <1>2, <2>1 DEF Turn, NoTick
    <2>3. /\ JobOK(job[j]) /\ job'[j].requests = job[j].requests /\ job'[j].captures = job[j].captures
        BY <2>1 DEF ContextInv, Records, JobsStay
    <2>4. \A n \in DOMAIN todo : job'[todo[n]].state # "none" /\ job'[todo[n]].requests # <<>>
        BY DEF JobsStay
    <2>5. ASSUME NEW r \in Request
          PROVE  /\ RequestOK(r, reqs[r])
                 /\ reqs[r].state = "preparing" /\ reqs[r].job = j => job[j].state = "running"
                 /\ \A n \in DOMAIN reqs[r].packets : Placed(r, n, reqs[r].packets[n], <<>>, {})'
        <3>1. RequestOK(r, reqs[r])
            BY DEF Records
        <3>2. ASSUME reqs[r].state = "preparing", reqs[r].job = j PROVE job[j].state = "running"
            <4>1. req[r].state = "preparing" /\ req[r].job = j
                BY <3>2 DEF JobsStay
            <4> QED BY <4>1 DEF ContextInv, PreparingIsPrepared
        <3>3. \A n \in DOMAIN reqs[r].packets : Placed(r, n, reqs[r].packets[n], <<>>, {})'
            BY DEF PublishedIsSealed, Placed
        <3> QED BY <3>1, <3>2, <3>3
    <2>6. IsSequence(<<>>) /\ "" \in Errors
        BY EmptySequence DEF Errors
    <2>7. DOMAIN reqs = Request
        BY DEF Records
    <2>8. Holding(t)'
        <3>1. /\ (t.todo \in Seq(Request) /\ t.todo # <<>>)
              /\ \A n \in DOMAIN t.todo : job'[t.todo[n]].state # "none" /\ job'[t.todo[n]].requests # <<>>
              /\ JobOK(t.rec) /\ t.rec.state # "none"
              /\ t.rec.requests = job'[Head(t.todo)].requests
              /\ t.rec.captures = job'[Head(t.todo)].captures
            BY <1>2, <2>1, <2>2, <2>3, <2>4
        <3>2. ASSUME NEW s \in Request
              PROVE  /\ RequestOK(s, t.reqs[s])
                     /\ t.reqs[s].job = req'[s].job
                     /\ t.reqs[s].state = "none" <=> req'[s].state = "none"
                     /\ t.reqs[s].state = "preparing" => req'[s].state = "preparing"
                     /\ t.reqs[s].state = "preparing" /\ t.reqs[s].job = Head(t.todo) => t.rec.state = "running"
                     /\ \A n \in DOMAIN t.reqs[s].packets : Placed(s, n, t.reqs[s].packets[n], t.out, t.seals)'
            <4>1. t.reqs = reqs /\ t.out = <<>> /\ t.seals = {}
                BY <2>2
            <4>2. \A n \in DOMAIN reqs[s].packets : Placed(s, n, reqs[s].packets[n], <<>>, {})'
                BY <2>5
            <4>3. \A n \in DOMAIN t.reqs[s].packets : Placed(s, n, t.reqs[s].packets[n], t.out, t.seals)'
                BY <4>1, <4>2
            <4> QED BY <2>1, <2>2, <2>5, <4>3
        <3>3. DOMAIN t = DOMAIN NoTick /\ DOMAIN t.reqs = Request /\ IsSequence(t.out) /\ t.error \in Errors
            BY <2>2, <2>6, <2>7
        <3> QED BY <3>1, <3>2, <3>3, Zenon DEF Holding
    <2> QED BY <2>2, <2>8
<1> QED BY <1>1, <1>2

\* The tick goes on to its next job, if there is one.
LEMMA NextJobKeeps ==
    ASSUME ContextInv, tick.phase # "idle", JobsStay, Records', PublishedIsSealed', tick' = NextJob(req')
    PROVE  Ticking'
<1>1. PICK todo : todo = Tail(tick.todo)
    OBVIOUS
<1>2. Holding(tick)
    BY DEF ContextInv, Ticking
<1>3. PICK all : all = tick.todo /\ all \in Seq(Request) /\ all # <<>>
                 /\ \A n \in DOMAIN all : job[all[n]].state # "none" /\ job[all[n]].requests # <<>>
    BY <1>2 DEF Holding
<1>4. /\ todo \in Seq(Request)
      /\ \A n \in DOMAIN todo : n + 1 \in DOMAIN all /\ todo[n] = all[n + 1]
    BY <1>1, <1>3
<1>5. \A n \in DOMAIN todo : job[todo[n]].state # "none" /\ job[todo[n]].requests # <<>>
    BY <1>3, <1>4
<1>6. PICK reqs, t : reqs = req' /\ t = tick' /\ t = Turn(todo, reqs)
    BY <1>1 DEF NextJob
<1>7. \/ t = NoTick
      \/ DOMAIN t = DOMAIN NoTick /\ t.phase = "steps" /\ Holding(t)'
    BY <1>4, <1>5, <1>6, Turns
<1>8. NoTick.phase = "idle"
    BY DEF NoTick
<1>9. t.phase \in {"idle", "steps"} /\ (t.phase # "idle" => Holding(t)')
    BY <1>7, <1>8
<1> QED BY <1>6, <1>9 DEF Ticking

LEMMA TickBegins ==
    ASSUME ContextInv, tick_context
    PROVE  ContextInv'
<1>1. UNCHANGED Stored /\ pool' = pool /\ calls' = calls
    BY DEF tick_context, Stored
<1>2. /\ Records' /\ Machine' /\ PreparingIsPrepared' /\ PublishedIsSealed' /\ CapturedBeforeSent' /\ JobsStay
    BY <1>1 DEF ContextInv, Stored, Records, Machine, PreparingIsPrepared, PublishedIsSealed,
                CapturedBeforeSent, Here, JobsStay
<1>3. PICK todo : todo = Where(order, {j \in Request : job[j].state = "running"}) /\ tick' = Turn(todo, req)
    BY DEF tick_context
<1>4. todo \in Seq(Request) /\ \A j \in ToSet(todo) : j \in Request /\ job[j].state = "running"
    <2>1. order \in Seq(Request)
        BY DEF ContextInv, Records
    <2>2. IsSequence(order) /\ ToSet(order) \subseteq Request
        BY <2>1, SequenceFrom
    <2>3. IsSequence(todo) /\ ToSet(todo) = ToSet(order) \cap {j \in Request : job[j].state = "running"}
        BY <1>3, <2>2, WhereKeeps
    <2> QED BY <2>2, <2>3, SequenceInto
<1>5. \A n \in DOMAIN todo : job[todo[n]].state # "none" /\ job[todo[n]].requests # <<>>
    <2>1. ASSUME NEW n \in DOMAIN todo PROVE job[todo[n]].state # "none" /\ job[todo[n]].requests # <<>>
        <3>1. todo[n] \in ToSet(todo)
            BY DEF ToSet
        <3>2. todo[n] \in Request /\ job[todo[n]].state = "running"
            BY <1>4, <3>1
        <3>3. JobOK(job[todo[n]])
            BY <3>2 DEF ContextInv, Records
        <3> QED BY <3>2, <3>3 DEF JobOK
    <2> QED BY <2>1
<1>6. PICK reqs, t : reqs = req' /\ t = tick' /\ t = Turn(todo, reqs)
    BY <1>1, <1>3 DEF Stored
<1>7. \/ t = NoTick
      \/ DOMAIN t = DOMAIN NoTick /\ t.phase = "steps" /\ Holding(t)'
    BY <1>2, <1>4, <1>5, <1>6, Turns
<1>8. NoTick.phase = "idle"
    BY DEF NoTick
<1>9. t.phase \in {"idle", "steps"} /\ (t.phase # "idle" => Holding(t)')
    BY <1>7, <1>8
<1>10. Ticking'
    BY <1>6, <1>9 DEF Ticking
<1> QED BY <1>2, <1>10 DEF ContextInv

LEMMA CompileKeeps ==
    ASSUME ContextInv, compile
    PROVE  ContextInv'
<1>1. /\ At("compile") /\ UNCHANGED Stored /\ PoolOK(pool')
      /\ \A k \in DOMAIN calls' : calls'[k] \in Nat \ {0}
      /\ \/ tick' = NextJob(req)
         \/ \E script, seals :
                /\ IsSequence(script) /\ tick.rec.cursor \in 1 .. Len(script) + 1
                /\ tick' = [tick EXCEPT !.rec.script = script, !.seals = @ \cup seals]
    BY Compiles
<1>2. tick.phase = "steps"
    BY <1>1 DEF At, Left
<1>3. CASE tick' = NextJob(req)
    <2>1. /\ Records' /\ Machine' /\ PreparingIsPrepared' /\ PublishedIsSealed' /\ CapturedBeforeSent' /\ JobsStay
        BY <1>1 DEF ContextInv, Stored, Records, Machine, PreparingIsPrepared, PublishedIsSealed,
                    CapturedBeforeSent, Here, JobsStay, PoolOK
    <2>2. tick' = NextJob(req')
        BY <1>1, <1>3 DEF Stored
    <2>3. Ticking'
        BY <1>2, <2>1, <2>2, NextJobKeeps
    <2> QED BY <2>1, <2>3 DEF ContextInv
<1>4. ASSUME NEW script, NEW seals, IsSequence(script), tick.rec.cursor \in 1 .. Len(script) + 1,
             tick' = [tick EXCEPT !.rec.script = script, !.seals = @ \cup seals]
      PROVE  ContextInv'
    <2>1. /\ Holding(tick) /\ DOMAIN tick = DOMAIN NoTick /\ DOMAIN tick.rec = DOMAIN NoJob
          /\ IsSequence(tick.rec.sections)
        BY <1>2, StepFacts
    <2>2. PICK u : u = tick'
        OBVIOUS
    <2>3. /\ DOMAIN u = DOMAIN NoTick /\ u.phase = "steps" /\ u.todo = tick.todo /\ u.reqs = tick.reqs
          /\ u.out = tick.out /\ u.seals = tick.seals \cup seals /\ u.error = tick.error
          /\ u.rec = [tick.rec EXCEPT !.script = script]
        BY <1>2, <1>4, <2>1, <2>2 DEF NoTick
    <2>4. /\ DOMAIN u.rec = DOMAIN NoJob /\ u.rec.state = tick.rec.state
          /\ u.rec.requests = tick.rec.requests /\ u.rec.captures = tick.rec.captures
          /\ u.rec.script = script /\ u.rec.cursor = tick.rec.cursor
          /\ u.rec.sections = tick.rec.sections
        BY <2>1, <2>3 DEF NoJob
    <2>5. Onward(u, tick)
        BY <1>4, <2>1, <2>3, <2>4 DEF Onward
    <2>6. Holding(u)
        BY <2>1, <2>5, GoesOn
    <2> QED BY <1>1, <2>2, <2>3, <2>6, StoredStays
<1> QED BY <1>1, <1>3, <1>4

-----------------------------------------------------------------------------
(* What a tick leaves behind.                                              *)

\* What a tick holds when its records stay and only packets leave it.
LEMMA HoldingMoves ==
    ASSUME NEW t, Holding(t), NEW u,
           req' = req,
           \A j \in Request : job'[j].state = job[j].state /\ job'[j].requests = job[j].requests,
           DOMAIN u = DOMAIN NoTick, u.todo = t.todo, u.reqs = t.reqs, u.error = t.error, IsSequence(u.out),
           JobOK(u.rec), u.rec.state = t.rec.state, u.rec.requests = t.rec.requests,
           u.rec.captures = job'[Head(t.todo)].captures,
           \A r \in Request : \A n \in DOMAIN t.reqs[r].packets :
               Placed(r, n, t.reqs[r].packets[n], u.out, u.seals)'
    PROVE  Holding(u)'
<1>1. \A n \in DOMAIN t.todo : t.todo[n] \in Request
    BY DEF Holding
<1>2. Head(t.todo) \in Request
    BY DEF Holding
<1>3. /\ (u.todo \in Seq(Request) /\ u.todo # <<>>)
      /\ \A n \in DOMAIN u.todo : job'[u.todo[n]].state # "none" /\ job'[u.todo[n]].requests # <<>>
      /\ JobOK(u.rec) /\ u.rec.state # "none"
      /\ u.rec.requests = job'[Head(u.todo)].requests
      /\ u.rec.captures = job'[Head(u.todo)].captures
    BY <1>1, <1>2 DEF Holding
<1>4. ASSUME NEW s \in Request
      PROVE  /\ RequestOK(s, u.reqs[s])
             /\ u.reqs[s].job = req'[s].job
             /\ u.reqs[s].state = "none" <=> req'[s].state = "none"
             /\ u.reqs[s].state = "preparing" => req'[s].state = "preparing"
             /\ u.reqs[s].state = "preparing" /\ u.reqs[s].job = Head(u.todo) => u.rec.state = "running"
             /\ \A n \in DOMAIN u.reqs[s].packets : Placed(s, n, u.reqs[s].packets[n], u.out, u.seals)'
    <2>1. \A n \in DOMAIN u.reqs[s].packets : Placed(s, n, u.reqs[s].packets[n], u.out, u.seals)'
        OBVIOUS
    <2>2. /\ RequestOK(s, t.reqs[s])
          /\ t.reqs[s].job = req[s].job
          /\ t.reqs[s].state = "none" <=> req[s].state = "none"
          /\ t.reqs[s].state = "preparing" => req[s].state = "preparing"
          /\ t.reqs[s].state = "preparing" /\ t.reqs[s].job = Head(t.todo) => t.rec.state = "running"
        BY DEF Holding
    <2> QED BY <2>1, <2>2
<1>5. DOMAIN u.reqs = Request /\ u.error \in Errors
    BY DEF Holding
<1> QED BY <1>3, <1>4, <1>5, Zenon DEF Holding

LEMMA Faults ==
    ASSUME ContextInv, Fault \/ faults' = faults
    PROVE  faults' \in 0 .. MaxFaults
<1>1. MaxFaults \in Nat
    BY ContextAssumption
<1>2. faults \in 0 .. MaxFaults
    BY DEF ContextInv, Machine
<1> QED BY <1>1, <1>2 DEF Fault

LEMMA OverHas ==
    ASSUME NEW f, NEW g
    PROVE  /\ DOMAIN Over(f, g) = DOMAIN f \cup DOMAIN g
           /\ \A x \in DOMAIN f : Over(f, g)[x] = f[x]
           /\ \A x \in DOMAIN g \ DOMAIN f : Over(f, g)[x] = g[x]
BY DEF Over

LEMMA CapturesKept ==
    ASSUME ContextInv, keep_outgoing_captures
    PROVE  ContextInv'
<1>1. /\ tick.phase = "captures" /\ req' = req /\ pool' = pool /\ calls' = calls
      /\ UNCHANGED <<launch, order, sealed, indexed, peer, now>>
    BY DEF keep_outgoing_captures
<1>2. /\ Holding(tick) /\ DOMAIN tick = DOMAIN NoTick /\ DOMAIN tick.rec = DOMAIN NoJob
      /\ Head(tick.todo) \in Request
    BY <1>1, TickFacts DEF ContextInv, Ticking
<1>3. Here' = Here
    BY <1>1 DEF Here
<1>4. Machine'
    <2>1. Fault \/ faults' = faults
        BY DEF keep_outgoing_captures
    <2> QED BY <1>1, <2>1, Faults DEF ContextInv, Machine
<1>5. CASE job' = job /\ tick' = NoTick
    <2>1. Ticking'
        <3>1. NoTick.phase = "idle"
            BY DEF NoTick
        <3> QED BY <1>5, <3>1 DEF Ticking
    <2> QED BY <1>1, <1>3, <1>4, <1>5, <2>1 DEF ContextInv, Records, PreparingIsPrepared, PublishedIsSealed,
                                                CapturedBeforeSent
<1>6. ASSUME NEW kept,
             Here.peer => ToSet(tick.out) \subseteq DOMAIN kept,
             DOMAIN job[Head(tick.todo)].captures \subseteq DOMAIN kept,
             \A a \in DOMAIN job[Head(tick.todo)].captures : kept[a] = job[Head(tick.todo)].captures[a],
             tick' = [tick EXCEPT !.phase = "seal", !.rec.captures = kept],
             job' = [job EXCEPT ![Head(tick.todo)].captures = kept]
      PROVE  ContextInv'
    <2>1. PICK j : j = Head(tick.todo) /\ j \in Request
        BY <1>2
    <2>2. DOMAIN job = Request /\ JobOK(job[j]) /\ job[j].state # "none"
        <3>1. Head(tick.todo) = tick.todo[1] /\ 1 \in DOMAIN tick.todo
            BY <1>2 DEF Holding
        <3> QED BY <1>2, <2>1, <3>1 DEF ContextInv, Records, Holding
    <2>3. /\ DOMAIN job' = Request
          /\ \A r \in Request \ {j} : job'[r] = job[r]
          /\ job'[j] = [job[j] EXCEPT !.captures = kept]
        BY <1>6, <2>1, <2>2
    <2>4. /\ DOMAIN job'[j] = DOMAIN NoJob /\ job'[j].captures = kept /\ job'[j].state = job[j].state
          /\ job'[j].requests = job[j].requests /\ job'[j].script = job[j].script
          /\ job'[j].cursor = job[j].cursor /\ job'[j].sections = job[j].sections
        BY <2>2, <2>3 DEF JobOK, NoJob
    <2>5. JobOK(job'[j])
        BY <2>2, <2>4 DEF JobOK
    <2>6. \A r \in Request : job'[r].state = job[r].state /\ job'[r].requests = job[r].requests
        BY <2>3, <2>4
    <2>7. Records'
        BY <1>1, <2>3, <2>5, <2>6 DEF ContextInv, Records
    <2>8. PreparingIsPrepared'
        <3>1. \A r \in Request : req[r].state = "preparing" => req[r].job \in Request
            BY DEF ContextInv, Records, RequestOK
        <3> QED BY <1>1, <2>6, <3>1 DEF ContextInv, PreparingIsPrepared
    <2>9. PublishedIsSealed'
        BY <1>1, <1>3 DEF ContextInv, PublishedIsSealed
    <2>10. CapturedBeforeSent'
        <3>1. ASSUME NEW a \in DOMAIN peer
              PROVE  \E i \in Request : a \in DOMAIN job'[i].captures /\ job'[i].captures[a] = peer[a].captured
            <4>1. PICK i \in Request : a \in DOMAIN job[i].captures /\ job[i].captures[a] = peer[a].captured
                BY DEF ContextInv, CapturedBeforeSent
            <4>2. CASE i = j
                BY <1>6, <2>1, <2>4, <4>1, <4>2
            <4>3. CASE i # j
                BY <2>3, <4>1, <4>3
            <4> QED BY <4>2, <4>3
        <3> QED BY <1>1, <3>1 DEF CapturedBeforeSent
    <2>11. PICK u : u = tick'
        OBVIOUS
    <2>12. /\ DOMAIN u = DOMAIN NoTick /\ u.phase = "seal" /\ u.todo = tick.todo /\ u.reqs = tick.reqs
           /\ u.out = tick.out /\ u.seals = tick.seals /\ u.error = tick.error
           /\ u.rec = [tick.rec EXCEPT !.captures = kept]
        BY <1>2, <1>6, <2>11 DEF NoTick
    <2>13. /\ DOMAIN u.rec = DOMAIN NoJob /\ u.rec.state = tick.rec.state
           /\ u.rec.requests = tick.rec.requests /\ u.rec.captures = kept
           /\ u.rec.script = tick.rec.script /\ u.rec.cursor = tick.rec.cursor
           /\ u.rec.sections = tick.rec.sections
        BY <1>2, <2>12 DEF NoJob
    <2>14. JobOK(u.rec)
        <3>1. JobOK(tick.rec) /\ tick.rec.state # "none"
            BY <1>2 DEF Holding
        <3> QED BY <2>13, <3>1 DEF JobOK
    <2>16. Holding(u)'
        <3>1. PICK t : t = tick
            OBVIOUS
        <3>2. ASSUME NEW r \in Request, NEW n \in DOMAIN t.reqs[r].packets
              PROVE  Placed(r, n, t.reqs[r].packets[n], u.out, u.seals)'
            <4>1. Placed(r, n, t.reqs[r].packets[n], t.out, t.seals)
                BY <1>2, <3>1 DEF Holding
            <4>2. Placed(r, n, t.reqs[r].packets[n], u.out, u.seals)
                BY <2>12, <3>1, <4>1
            <4> QED BY <1>1, <1>3, <4>2 DEF Placed
        <3>3. /\ Holding(t) /\ u.todo = t.todo /\ u.reqs = t.reqs /\ u.error = t.error
              /\ u.rec.state = t.rec.state /\ u.rec.requests = t.rec.requests /\ IsSequence(u.out)
              /\ u.rec.captures = job'[Head(t.todo)].captures
            BY <1>2, <2>1, <2>4, <2>12, <2>13, <3>1 DEF Holding
        <3> QED BY <1>1, <2>6, <2>12, <2>14, <3>2, <3>3, HoldingMoves
    <2>17. Ticking'
        <3>1. u.phase \in {"seal"} /\ Holding(u)' /\ (Here.peer => ToSet(u.out) \subseteq DOMAIN u.rec.captures)
            BY <1>6, <2>12, <2>13, <2>16
        <3> QED BY <1>3, <2>11, <3>1 DEF Ticking
    <2> QED BY <1>4, <2>7, <2>8, <2>9, <2>10, <2>17 DEF ContextInv
<1>7. tick.rec.captures = job[Head(tick.todo)].captures
    BY <1>2 DEF Holding
<1>8. CASE /\ ~Here.peer
           /\ tick' = [tick EXCEPT !.phase = "seal", !.rec.captures = tick.rec.captures]
           /\ job' = [job EXCEPT ![Head(tick.todo)].captures = tick.rec.captures]
    <2>1. PICK kept : kept = tick.rec.captures
        OBVIOUS
    <2> QED BY <1>6, <1>7, <1>8, <2>1
<1>9. CASE /\ Here.peer
           /\ tick' = [tick EXCEPT !.phase = "seal",
                                   !.rec.captures = Over(tick.rec.captures, [a \in Uncaptured |-> tick.at])]
           /\ job' = [job EXCEPT ![Head(tick.todo)].captures =
                                     Over(tick.rec.captures, [a \in Uncaptured |-> tick.at])]
    <2>1. PICK new : new = [a \in Uncaptured |-> tick.at]
        OBVIOUS
    <2>6. DOMAIN new = ToSet(tick.out) \ DOMAIN tick.rec.captures
        BY <2>1 DEF Uncaptured
    <2>2. PICK kept : kept = Over(tick.rec.captures, new)
        OBVIOUS
    <2>3. /\ DOMAIN kept = DOMAIN tick.rec.captures \cup DOMAIN new
          /\ \A a \in DOMAIN tick.rec.captures : kept[a] = tick.rec.captures[a]
        BY <2>2, OverHas
    <2>4. ToSet(tick.out) \subseteq DOMAIN kept
        BY <2>3, <2>6
    <2>5. /\ tick' = [tick EXCEPT !.phase = "seal", !.rec.captures = kept]
          /\ job' = [job EXCEPT ![Head(tick.todo)].captures = kept]
        BY <1>9, <2>1, <2>2
    <2> QED BY <1>6, <1>7, <2>3, <2>4, <2>5
<1>10. \/ job' = job /\ tick' = NoTick
       \/ /\ ~Here.peer
          /\ tick' = [tick EXCEPT !.phase = "seal", !.rec.captures = tick.rec.captures]
          /\ job' = [job EXCEPT ![Head(tick.todo)].captures = tick.rec.captures]
       \/ /\ Here.peer
          /\ tick' = [tick EXCEPT !.phase = "seal",
                                  !.rec.captures = Over(tick.rec.captures, [a \in Uncaptured |-> tick.at])]
          /\ job' = [job EXCEPT ![Head(tick.todo)].captures =
                                    Over(tick.rec.captures, [a \in Uncaptured |-> tick.at])]
    BY <1>7 DEF keep_outgoing_captures
<1> QED BY <1>5, <1>8, <1>9, <1>10

\* What the peer sealed stays, and it has what it is sent.
LEMMA PeerSeals ==
    ASSUME NEW a, Seals(a), peer' = Over(Only(a, ToPeer(a)), peer)
    PROVE  /\ DOMAIN peer' = DOMAIN peer \cup {a} /\ peer'[a] = ToPeer(a)
           /\ \A b \in DOMAIN peer : peer'[b] = peer[b]
<1>1. PICK f : f = Only(a, ToPeer(a)) /\ DOMAIN f = {a} /\ f[a] = ToPeer(a)
    BY DEF Only
<1>2. /\ DOMAIN peer' = DOMAIN f \cup DOMAIN peer
      /\ \A x \in DOMAIN f : peer'[x] = f[x]
      /\ \A x \in DOMAIN peer \ DOMAIN f : peer'[x] = peer[x]
    <2>1. PICK g, p : g = peer /\ p = peer' /\ p = Over(f, g)
        BY <1>1
    <2>2. /\ DOMAIN p = DOMAIN f \cup DOMAIN g
          /\ \A x \in DOMAIN f : p[x] = f[x]
          /\ \A x \in DOMAIN g \ DOMAIN f : p[x] = g[x]
        BY <2>1 DEF Over
    <2> QED BY <2>1, <2>2
<1>3. a \in DOMAIN peer => peer[a] = ToPeer(a)
    BY DEF Seals
<1> QED BY <1>1, <1>2, <1>3

LEMMA SealKeeps ==
    ASSUME ContextInv, seal_packets
    PROVE  ContextInv'
<1>1. /\ tick.phase = "seal" /\ tick.out # <<>> /\ Here.peer
      /\ UNCHANGED <<launch, req, job, order, sealed, indexed, pool, now, calls>>
    BY DEF seal_packets
<1>2. PICK a : a = Head(tick.out)
    OBVIOUS
<1>3. \/ Seals(a) /\ peer' = Over(Only(a, ToPeer(a)), peer)
      \/ peer' = peer
    BY <1>2 DEF seal_packets
<1>4. Fault \/ faults' = faults
    BY DEF seal_packets
<1>5. \/ tick' = NextJob(req)
      \/ /\ Seals(a) /\ peer' = Over(Only(a, ToPeer(a)), peer)
         /\ tick' = [tick EXCEPT !.out = Tail(@)]
    BY <1>2 DEF seal_packets
<1>6. /\ Holding(tick) /\ DOMAIN tick = DOMAIN NoTick /\ Head(tick.todo) \in Request
      /\ ToSet(tick.out) \subseteq DOMAIN tick.rec.captures
    BY <1>1, TickFacts DEF ContextInv, Ticking
<1>7. Here' = Here
    BY <1>1 DEF Here
<1>8. /\ IsSequence(Tail(tick.out)) /\ a \in ToSet(tick.out) /\ ToSet(tick.out) = {a} \cup ToSet(Tail(tick.out))
    <2>1. PICK s : s = tick.out /\ IsSequence(s) /\ s # <<>>
        BY <1>1, <1>6 DEF Holding
    <2>2. IsSequence(Tail(s)) /\ ToSet(s) = {Head(s)} \cup ToSet(Tail(s))
        BY <2>1, SequencesTail
    <2> QED BY <1>2, <2>1, <2>2
<1>9. /\ \A b \in DOMAIN peer : b \in DOMAIN peer' /\ peer'[b] = peer[b]
      /\ \A b \in DOMAIN peer' : b \in DOMAIN peer \/ (b = a /\ peer'[b] = ToPeer(a))
    BY <1>3, PeerSeals
<1>10. Machine' /\ Records' /\ PreparingIsPrepared' /\ JobsStay
    <2>1. faults' \in 0 .. MaxFaults
        BY <1>4, Faults
    <2> QED BY <1>1, <2>1 DEF ContextInv, Machine, Records, PreparingIsPrepared, JobsStay
<1>11. PublishedIsSealed'
    <2>1. ASSUME NEW r \in Request, NEW n \in DOMAIN req[r].packets
          PROVE  <<r, n>> \in DOMAIN peer' /\ peer'[<<r, n>>].packet = req[r].packets[n]
        <3>1. <<r, n>> \in DOMAIN peer /\ peer[<<r, n>>].packet = req[r].packets[n]
            BY <1>1 DEF ContextInv, PublishedIsSealed
        <3> QED BY <1>9, <3>1
    <2> QED BY <1>1, <1>7, <2>1 DEF PublishedIsSealed
<1>12. CapturedBeforeSent'
    <2>1. ASSUME NEW b \in DOMAIN peer'
          PROVE  \E j \in Request : b \in DOMAIN job[j].captures /\ job[j].captures[b] = peer'[b].captured
        <3>1. CASE b \in DOMAIN peer
            <4>1. PICK j \in Request : b \in DOMAIN job[j].captures /\ job[j].captures[b] = peer[b].captured
                BY <3>1 DEF ContextInv, CapturedBeforeSent
            <4> QED BY <1>9, <3>1, <4>1
        <3>2. CASE b = a /\ peer'[b] = ToPeer(a)
            <4>1. tick.rec.captures = job[Head(tick.todo)].captures
                BY <1>6 DEF Holding
            <4>2. peer'[b].captured = tick.rec.captures[a]
                BY <3>2 DEF ToPeer
            <4> QED BY <1>6, <1>8, <3>2, <4>1, <4>2
        <3> QED BY <1>9, <3>1, <3>2
    <2> QED BY <1>1, <2>1 DEF CapturedBeforeSent
<1>13. Ticking'
    <2>1. CASE tick' = NextJob(req)
        <3>1. tick' = NextJob(req') /\ tick.phase # "idle"
            BY <1>1, <2>1
        <3> QED BY <1>10, <1>11, <3>1, NextJobKeeps
    <2>2. CASE Seals(a) /\ peer' = Over(Only(a, ToPeer(a)), peer) /\ tick' = [tick EXCEPT !.out = Tail(@)]
        <3>1. PICK t, u : t = tick /\ u = tick'
            OBVIOUS
        <3>2. /\ DOMAIN u = DOMAIN NoTick /\ u.phase = "seal" /\ u.todo = t.todo /\ u.reqs = t.reqs
              /\ u.out = Tail(t.out) /\ u.seals = t.seals /\ u.error = t.error /\ u.rec = t.rec
            BY <1>1, <1>6, <2>2, <3>1 DEF NoTick
        <3>3. ASSUME NEW r \in Request, NEW n \in DOMAIN t.reqs[r].packets
              PROVE  Placed(r, n, t.reqs[r].packets[n], u.out, u.seals)'
            <4>1. Placed(r, n, t.reqs[r].packets[n], t.out, t.seals)
                BY <1>6, <3>1 DEF Holding
            <4>2. \/ <<r, n>> \in DOMAIN peer /\ peer[<<r, n>>].packet = t.reqs[r].packets[n]
                  \/ <<r, n>> \in ToSet(t.out)
                BY <1>1, <4>1 DEF Placed
            <4>3. CASE <<r, n>> = a
                <5>1. peer'[a] = ToPeer(a) /\ a \in DOMAIN peer'
                    BY <2>2, PeerSeals
                <5>2. ToPeer(a).packet = t.reqs[r].packets[n]
                    BY <3>1, <4>3 DEF ToPeer
                <5> QED BY <1>1, <1>7, <4>3, <5>1, <5>2 DEF Placed
            <4>4. CASE <<r, n>> \in DOMAIN peer /\ peer[<<r, n>>].packet = t.reqs[r].packets[n]
                <5>1. <<r, n>> \in DOMAIN peer' /\ peer'[<<r, n>>].packet = t.reqs[r].packets[n]
                    BY <1>9, <4>4
                <5> QED BY <1>1, <1>7, <5>1 DEF Placed
            <4>5. CASE <<r, n>> \in ToSet(u.out)
                BY <1>1, <1>7, <4>5 DEF Placed
            <4> QED BY <1>8, <3>1, <3>2, <4>2, <4>3, <4>4, <4>5
        <3>4. /\ JobOK(u.rec) /\ u.rec.state = t.rec.state /\ u.rec.requests = t.rec.requests
              /\ u.rec.captures = job'[Head(t.todo)].captures
            BY <1>1, <1>6, <3>1, <3>2 DEF Holding
        <3>5. IsSequence(u.out) /\ ToSet(u.out) \subseteq DOMAIN u.rec.captures
            BY <1>6, <1>8, <3>1, <3>2
        <3>6. Holding(t) /\ req' = req
              /\ \A j \in Request : job'[j].state = job[j].state /\ job'[j].requests = job[j].requests
            BY <1>1, <1>6, <3>1
        <3>7. Holding(u)'
            BY <3>2, <3>3, <3>4, <3>5, <3>6, HoldingMoves
        <3> QED BY <3>1, <3>2, <3>5, <3>7 DEF Ticking
    <2> QED BY <1>5, <2>1, <2>2
<1> QED BY <1>10, <1>11, <1>12, <1>13 DEF ContextInv

\* A tick that is dropped leaves everything as it is stored.
LEMMA Dropped ==
    ASSUME ContextInv, UNCHANGED <<launch, req, job, order, sealed, indexed, peer, now>>,
           PoolOK(pool'), \A k \in DOMAIN calls' : calls'[k] \in Nat \ {0},
           Fault \/ faults' = faults, tick' = NoTick
    PROVE  ContextInv'
<1>1. faults' \in 0 .. MaxFaults
    BY Faults
<1>2. NoTick.phase = "idle"
    BY DEF NoTick
<1>3. Ticking'
    BY <1>2 DEF Ticking
<1> QED BY <1>1, <1>3 DEF ContextInv, Machine, PoolOK, Records, PreparingIsPrepared, PublishedIsSealed,
                          CapturedBeforeSent, Here

LEMMA PoolKept ==
    ASSUME ContextInv
    PROVE  /\ PoolOK(pool) /\ \A k \in DOMAIN calls : calls[k] \in Nat \ {0}
           /\ \A j : release_job(j) => PoolOK(pool')
<1>1. PoolOK(pool) /\ \A k \in DOMAIN calls : calls[k] \in Nat \ {0}
    BY DEF ContextInv, Machine, PoolOK
<1>2. ASSUME NEW j, release_job(j) PROVE PoolOK(pool')
    <2>1. PICK keys, p : keys = Of(j) /\ p = pool' /\ p = release_all(pool, keys)
        BY <1>2 DEF release_job
    <2>2. PoolOK(p)
        BY <1>1, <2>1, Releases
    <2> QED BY <2>1, <2>2
<1> QED BY <1>1, <1>2

LEMMA CommitKeeps ==
    ASSUME ContextInv, commit
    PROVE  ContextInv'
<1>1. /\ tick.phase = "seal" /\ (tick.out = <<>> \/ ~Here.peer)
      /\ UNCHANGED <<launch, order, indexed, peer, now, calls>>
    BY DEF commit
<1>2. PoolOK(pool') /\ \A k \in DOMAIN calls' : calls'[k] \in Nat \ {0}
    <2>1. release_job(Head(tick.todo)) \/ pool' = pool
        BY DEF commit
    <2> QED BY <1>1, <2>1, PoolKept
<1>3. CASE Fault /\ tick' = NoTick /\ UNCHANGED <<req, job, sealed>>
    BY <1>1, <1>2, <1>3, Dropped
<1>4. CASE /\ req' = tick.reqs /\ job' = [job EXCEPT ![Head(tick.todo)] = tick.rec]
           /\ sealed' = sealed \cup tick.seals /\ tick' = NextJob(tick.reqs) /\ faults' = faults
    <2>1. PICK t, j : t = tick /\ j = Head(t.todo)
        OBVIOUS
    <2>2. /\ Holding(t) /\ j \in Request /\ job[j].state # "none"
        <3>1. Holding(t) /\ Head(t.todo) = t.todo[1] /\ 1 \in DOMAIN t.todo /\ Head(t.todo) \in Request
            <4>1. Holding(t) /\ t.todo \in Seq(Request) /\ t.todo # <<>>
                BY <1>1, <2>1 DEF ContextInv, Ticking, Holding
            <4> QED BY <4>1
        <3> QED BY <2>1, <3>1 DEF Holding
    <2>3. DOMAIN job = Request
        BY DEF ContextInv, Records
    <2>4. /\ req' = t.reqs /\ DOMAIN job' = Request /\ job'[j] = t.rec
          /\ \A i \in Request \ {j} : job'[i] = job[i]
          /\ sealed' = sealed \cup t.seals /\ tick' = NextJob(req')
        BY <1>4, <2>1, <2>2, <2>3
    <2>5. /\ JobOK(t.rec) /\ t.rec.state # "none" /\ t.rec.requests = job[j].requests
          /\ t.rec.captures = job[j].captures /\ DOMAIN t.reqs = Request
        BY <2>1, <2>2 DEF Holding
    <2>6. \A r \in Request :
            /\ RequestOK(r, t.reqs[r])
            /\ t.reqs[r].job = req[r].job
            /\ t.reqs[r].state = "none" <=> req[r].state = "none"
            /\ t.reqs[r].state = "preparing" => req[r].state = "preparing"
            /\ t.reqs[r].state = "preparing" /\ t.reqs[r].job = j => t.rec.state = "running"
        BY <2>1, <2>2 DEF Holding
    <2>7. Records'
        <3>1. \A i \in Request : (job'[i].state # "none" <=> job[i].state # "none") /\ JobOK(job'[i])
            BY <2>2, <2>4, <2>5 DEF ContextInv, Records
        <3>2. /\ order \in Seq(Request) /\ ToSet(order) = {r \in Request : job[r].state # "none"}
              /\ \A r \in Request : job[r].state # "none" => req[r].state # "none"
            BY DEF ContextInv, Records
        <3>3. \A r \in Request : job'[r].state # "none" => req'[r].state # "none"
            BY <2>4, <2>6, <3>1, <3>2
        <3>4. ToSet(order) = {r \in Request : job'[r].state # "none"}
            BY <3>1, <3>2
        <3>5. DOMAIN req' = Request /\ \A r \in Request : RequestOK(r, req'[r])
            BY <2>4, <2>5, <2>6
        <3> QED BY <1>1, <2>4, <3>1, <3>2, <3>3, <3>4, <3>5 DEF Records
    <2>8. Machine'
        BY <1>1, <1>2, <1>4 DEF ContextInv, Machine, PoolOK
    <2>9. PreparingIsPrepared'
        <3>1. ASSUME NEW r \in Request, t.reqs[r].state = "preparing"
              PROVE  /\ job'[t.reqs[r].job].state = "running"
                     /\ r \in ToSet(job'[t.reqs[r].job].requests)
            <4>1. req[r].state = "preparing" /\ t.reqs[r].job = req[r].job
                BY <2>6, <3>1
            <4>2. job[req[r].job].state = "running" /\ r \in ToSet(job[req[r].job].requests) /\ req[r].job \in Request
                BY <4>1 DEF ContextInv, PreparingIsPrepared, Records, RequestOK
            <4>3. CASE req[r].job = j
                BY <2>4, <2>5, <2>6, <3>1, <4>1, <4>2, <4>3
            <4>4. CASE req[r].job # j
                BY <2>4, <4>1, <4>2, <4>4
            <4> QED BY <4>3, <4>4
        <3> QED BY <2>4, <3>1 DEF PreparingIsPrepared
    <2>10. PublishedIsSealed'
        <3>1. Here' = Here
            BY <1>1 DEF Here
        <3>2. ASSUME NEW r \in Request, NEW n \in DOMAIN t.reqs[r].packets
              PROVE  IF Here.peer THEN <<r, n>> \in DOMAIN peer /\ peer[<<r, n>>].packet = t.reqs[r].packets[n]
                     ELSE <<r, n>> \in sealed \cup t.seals
            <4>1. Placed(r, n, t.reqs[r].packets[n], t.out, t.seals)
                BY <2>2 DEF Holding
            <4>2. Here.peer => ToSet(t.out) = {}
                <5>1. ToSet(<<>>) = {}
                    BY EmptySequence
                <5> QED BY <1>1, <2>1, <5>1
            <4> QED BY <4>1, <4>2 DEF Placed
        <3> QED BY <1>1, <2>4, <3>1, <3>2 DEF PublishedIsSealed
    <2>11. CapturedBeforeSent'
        <3>1. \A i \in Request : job'[i].captures = job[i].captures
            BY <2>4, <2>5
        <3> QED BY <1>1, <3>1 DEF ContextInv, CapturedBeforeSent
    <2>12. JobsStay
        BY <2>4, <2>5, <2>6 DEF JobsStay
    <2>13. Ticking'
        BY <1>1, <2>4, <2>7, <2>10, <2>12, NextJobKeeps
    <2> QED BY <2>7, <2>8, <2>9, <2>10, <2>11, <2>13 DEF ContextInv
<1> QED BY <1>3, <1>4 DEF commit

LEMMA RefusedKeeps ==
    ASSUME ContextInv, end_refused_job
    PROVE  ContextInv'
<1>1. /\ tick.phase = "invalid"
      /\ UNCHANGED <<launch, order, sealed, indexed, peer, now, calls>>
    BY DEF end_refused_job
<1>2. PICK j, refused : j = Head(tick.todo)
                        /\ refused = {r \in ToSet(job[j].requests) : req[r].state = "preparing"}
    OBVIOUS
<1>3. CASE Fault /\ tick' = NoTick /\ UNCHANGED <<req, job, pool>>
    BY <1>1, <1>3, PoolKept, Dropped
<1>4. ASSUME NEW results,
             req' = [r \in Request |->
                       IF r \in refused THEN [req[r] EXCEPT !.state = "refused", !.items = results[r]] ELSE req[r]],
             job' = [job EXCEPT ![j].state = "ended"], release_job(j), tick' = NextJob(req'), faults' = faults
      PROVE  ContextInv'
    <2>1. j \in Request /\ job[j].state # "none"
        <3>1. Holding(tick) /\ tick.todo \in Seq(Request) /\ tick.todo # <<>>
            BY <1>1 DEF ContextInv, Ticking, Holding
        <3>2. Head(tick.todo) = tick.todo[1] /\ 1 \in DOMAIN tick.todo /\ Head(tick.todo) \in Request
            BY <3>1
        <3> QED BY <1>2, <3>1, <3>2 DEF Holding
    <2>2. /\ DOMAIN job = Request /\ \A i \in Request : JobOK(job[i])
          /\ DOMAIN req = Request /\ \A r \in Request : RequestOK(r, req[r])
        BY DEF ContextInv, Records
    <2>3. /\ DOMAIN job' = Request /\ \A i \in Request \ {j} : job'[i] = job[i]
          /\ job'[j] = [job[j] EXCEPT !.state = "ended"]
        BY <1>4, <2>1, <2>2
    <2>4. /\ DOMAIN job'[j] = DOMAIN NoJob /\ job'[j].captures = job[j].captures /\ job'[j].state = "ended"
          /\ job'[j].requests = job[j].requests /\ job'[j].script = job[j].script
          /\ job'[j].cursor = job[j].cursor /\ job'[j].sections = job[j].sections
        BY <2>1, <2>2, <2>3 DEF JobOK, NoJob
    <2>5. JobOK(job'[j])
        BY <2>1, <2>2, <2>4 DEF JobOK
    <2>6. ASSUME NEW r \in Request
          PROVE  /\ RequestOK(r, req'[r]) /\ req'[r].packets = req[r].packets /\ req'[r].job = req[r].job
                 /\ (req'[r].state # "none" <=> req[r].state # "none")
                 /\ req'[r].state = "preparing" => req[r].state = "preparing" /\ r \notin refused
        <3>1. CASE r \notin refused
            <4>1. req'[r] = req[r]
                BY <1>4, <3>1
            <4> QED BY <2>2, <3>1, <4>1
        <3>2. CASE r \in refused
            <4>1. req'[r] = [req[r] EXCEPT !.state = "refused", !.items = results[r]] /\ req[r].state = "preparing"
                BY <1>2, <1>4, <3>2
            <4>2. DOMAIN req[r] = DOMAIN NoRequest
                BY <2>2 DEF RequestOK
            <4>3. PICK q : q = req'[r] /\ DOMAIN q = DOMAIN NoRequest /\ q.state = "refused" /\ q.packets = req[r].packets
                         /\ q.job = req[r].job
                BY <4>1, <4>2 DEF NoRequest
            <4>4. q # NoRequest
                <5>1. NoRequest.state = "none"
                    BY DEF NoRequest
                <5> QED BY <4>3, <5>1
            <4>5. RequestOK(r, q)
                BY <2>2, <4>3, <4>4 DEF RequestOK, RequestStates
            <4> QED BY <4>1, <4>3, <4>5
        <3> QED BY <3>1, <3>2
    <2>7. Records'
        <3>1. \A i \in Request : (job'[i].state # "none" <=> job[i].state # "none") /\ JobOK(job'[i])
            BY <2>1, <2>2, <2>3, <2>4, <2>5
        <3>2. /\ order \in Seq(Request) /\ ToSet(order) = {r \in Request : job[r].state # "none"}
              /\ \A r \in Request : job[r].state # "none" => req[r].state # "none"
            BY DEF ContextInv, Records
        <3>3. \A r \in Request : job'[r].state # "none" => req'[r].state # "none"
            BY <2>6, <3>1, <3>2
        <3>4. ToSet(order) = {r \in Request : job'[r].state # "none"}
            BY <3>1, <3>2
        <3>5. DOMAIN req' = Request /\ \A r \in Request : RequestOK(r, req'[r])
            BY <1>4, <2>6
        <3> QED BY <1>1, <2>3, <3>1, <3>2, <3>3, <3>4, <3>5 DEF Records
    <2>8. Machine'
        <3>1. PoolOK(pool')
            BY <1>4, PoolKept
        <3> QED BY <1>1, <1>4, <3>1 DEF ContextInv, Machine, PoolOK
    <2>9. PreparingIsPrepared'
        <3>1. ASSUME NEW r \in Request, req'[r].state = "preparing"
              PROVE  job'[req'[r].job].state = "running" /\ r \in ToSet(job'[req'[r].job].requests)
            <4>1. req[r].state = "preparing" /\ req'[r].job = req[r].job /\ r \notin refused
                BY <2>6, <3>1
            <4>2. job[req[r].job].state = "running" /\ r \in ToSet(job[req[r].job].requests) /\ req[r].job \in Request
                BY <4>1 DEF ContextInv, PreparingIsPrepared, Records, RequestOK
            <4>3. req[r].job # j
                BY <1>2, <4>1, <4>2
            <4> QED BY <2>3, <4>1, <4>2, <4>3
        <3> QED BY <3>1 DEF PreparingIsPrepared
    <2>10. PublishedIsSealed'
        <3>1. Here' = Here
            BY <1>1 DEF Here
        <3> QED BY <1>1, <2>6, <3>1 DEF ContextInv, PublishedIsSealed
    <2>11. CapturedBeforeSent'
        <3>1. \A i \in Request : job'[i].captures = job[i].captures
            BY <2>3, <2>4
        <3> QED BY <1>1, <3>1 DEF ContextInv, CapturedBeforeSent
    <2>12. JobsStay
        BY <2>3, <2>4, <2>6 DEF JobsStay
    <2>13. Ticking'
        BY <1>1, <1>4, <2>7, <2>10, <2>12, NextJobKeeps
    <2> QED BY <2>7, <2>8, <2>9, <2>10, <2>11, <2>13 DEF ContextInv
<1>5. ASSUME ~(Fault /\ tick' = NoTick /\ UNCHANGED <<req, job, pool>>)
      PROVE  ContextInv'
    <2>1. PICK results : results = [r \in Request |-> refused_items(Items(r), "packet_invalid")]
        OBVIOUS
    <2>2. /\ req' = [r \in Request |->
                       IF r \in refused
                       THEN [req[r] EXCEPT !.state = "refused", !.items = refused_items(Items(r), "packet_invalid")]
                       ELSE req[r]]
          /\ job' = [job EXCEPT ![j].state = "ended"] /\ release_job(j) /\ tick' = NextJob(req') /\ faults' = faults
        BY <1>2, <1>5 DEF end_refused_job
    <2>3. req' = [r \in Request |->
                    IF r \in refused THEN [req[r] EXCEPT !.state = "refused", !.items = results[r]] ELSE req[r]]
        BY <2>1, <2>2
    <2> QED BY <1>4, <2>2, <2>3
<1> QED BY <1>3, <1>5

-----------------------------------------------------------------------------
(* Between ticks.                                                          *)

\* While there is no tick, what it holds says nothing.
LEMMA IdleTicks ==
    ASSUME ContextInv, Idle, tick' = tick
    PROVE  Ticking'
BY DEF Ticking, Idle

LEMMA UnitEnds ==
    ASSUME ContextInv, NEW k \in DOMAIN pool, Finish(k)
    PROVE  ContextInv'
<1>1. Idle /\ tick' = tick /\ UNCHANGED <<launch, req, job, order, sealed, peer, now, faults, calls>>
    BY DEF Finish
<1>2. PICK how : how \in Slots /\ pool' = [pool EXCEPT ![k] = how]
    <2>1. Outcomes \subseteq {"finished", "spoilt", "broken"}
        BY ContextAssumption
    <2>2. PICK how \in {"finished", "broken"} \cup Outcomes : pool' = [pool EXCEPT ![k] = how]
        BY DEF Finish
    <2> QED BY <2>1, <2>2 DEF Slots
<1>3. \A x \in DOMAIN pool' : pool'[x] \in Slots
    BY <1>2, PoolKept DEF PoolOK
<1>4. Ticking'
    BY <1>1, IdleTicks
<1> QED BY <1>1, <1>3, <1>4 DEF ContextInv, Records, Machine, PreparingIsPrepared, PublishedIsSealed,
                                CapturedBeforeSent, Here

LEMMA TimePasses ==
    ASSUME ContextInv, Advance
    PROVE  ContextInv'
<1>1. /\ Idle /\ tick' = tick /\ now' = now + 1 /\ now < MaxNow
      /\ UNCHANGED <<launch, req, job, order, sealed, indexed, peer, pool, faults, calls>>
    BY DEF Advance
<1>2. MaxNow \in Nat
    BY ContextAssumption
<1>3. now' \in 0 .. MaxNow
    <2>1. now \in 0 .. MaxNow
        BY DEF ContextInv, Machine
    <2> QED BY <1>1, <1>2, <2>1
<1>4. Ticking'
    BY <1>1, IdleTicks
<1> QED BY <1>1, <1>3, <1>4 DEF ContextInv, Records, Machine, PreparingIsPrepared, PublishedIsSealed,
                                CapturedBeforeSent, Here

LEMMA CrashKeeps ==
    ASSUME ContextInv, Crash
    PROVE  ContextInv'
<1>1. UNCHANGED <<launch, req, job, order, sealed, indexed, peer, now>> /\ Fault /\ tick' = NoTick
    BY DEF Crash
<1>2. PoolOK(pool')
    BY DEF Crash, Empty, PoolOK
<1>3. \A k \in DOMAIN calls' : calls'[k] \in Nat \ {0}
    <2>1. PICK c : c = calls' /\ c = <<>>
        BY DEF Crash
    <2>2. DOMAIN c = {}
        BY <2>1
    <2> QED BY <2>1, <2>2
<1> QED BY <1>1, <1>2, <1>3, Dropped

LEMMA CancelKeeps ==
    ASSUME ContextInv, NEW r \in Request, context_cancel(r)
    PROVE  ContextInv'
<1>1. /\ Idle /\ req[r].state = "preparing" /\ tick' = tick
      /\ UNCHANGED <<launch, order, sealed, indexed, peer, now, faults, calls>>
    BY DEF context_cancel
<1>2. PICK j, others : j = req[r].job /\ others = Where(job[j].requests, Request \ {r})
    OBVIOUS
<1>3. /\ req' = [req EXCEPT ![r].state = "cancelled"]
      /\ job' = [job EXCEPT ![j].requests = others, ![j].state = IF others = <<>> THEN "ended" ELSE @]
      /\ release_job(j) \/ pool' = pool
    BY <1>2 DEF context_cancel
<1>4. /\ DOMAIN job = Request /\ \A i \in Request : JobOK(job[i])
      /\ DOMAIN req = Request /\ \A s \in Request : RequestOK(s, req[s])
    BY DEF ContextInv, Records
<1>5. j \in Request /\ job[j].state = "running"
    BY <1>1, <1>2, <1>4 DEF ContextInv, PreparingIsPrepared, RequestOK
<1>6. others \in Seq(Request) /\ ToSet(others) = ToSet(job[j].requests) \ {r}
    <2>1. PICK s : s = job[j].requests /\ s \in Seq(Request)
        BY <1>4, <1>5 DEF JobOK
    <2>2. IsSequence(s) /\ ToSet(s) \subseteq Request
        BY <2>1, SequenceFrom
    <2>3. others = Where(s, Request \ {r})
        BY <1>2, <2>1
    <2>4. IsSequence(others) /\ ToSet(others) = ToSet(s) \cap (Request \ {r})
        BY <2>2, <2>3, WhereKeeps
    <2>5. others \in Seq(Request)
        BY <2>4, SequenceInto
    <2> QED BY <2>1, <2>2, <2>4, <2>5
<1>7. /\ DOMAIN job' = Request /\ \A i \in Request \ {j} : job'[i] = job[i]
      /\ DOMAIN job'[j] = DOMAIN NoJob /\ job'[j].requests = others
      /\ job'[j].state = (IF others = <<>> THEN "ended" ELSE "running")
      /\ job'[j].script = job[j].script /\ job'[j].cursor = job[j].cursor
      /\ job'[j].sections = job[j].sections /\ job'[j].captures = job[j].captures
    <2>1. DOMAIN job[j] = DOMAIN NoJob
        BY <1>4, <1>5 DEF JobOK
    <2>2. PICK b : b = [job EXCEPT ![j].requests = others]
        OBVIOUS
    <2>3. job' = [b EXCEPT ![j].state = IF others = <<>> THEN "ended" ELSE b[j].state]
        BY <1>3, <2>2
    <2>4. /\ DOMAIN b = Request /\ \A i \in Request \ {j} : b[i] = job[i]
          /\ b[j] = [job[j] EXCEPT !.requests = others]
        BY <1>4, <1>5, <2>2
    <2>5. /\ DOMAIN b[j] = DOMAIN NoJob /\ b[j].requests = others /\ b[j].state = "running"
          /\ b[j].script = job[j].script /\ b[j].cursor = job[j].cursor
          /\ b[j].sections = job[j].sections /\ b[j].captures = job[j].captures
        BY <1>5, <2>1, <2>4 DEF NoJob
    <2>6. /\ DOMAIN job' = Request /\ \A i \in Request \ {j} : job'[i] = b[i]
          /\ job'[j] = [b[j] EXCEPT !.state = IF others = <<>> THEN "ended" ELSE b[j].state]
        BY <1>5, <2>3, <2>4
    <2>7. /\ DOMAIN job'[j] = DOMAIN NoJob /\ job'[j].requests = b[j].requests
          /\ job'[j].state = (IF others = <<>> THEN "ended" ELSE b[j].state)
          /\ job'[j].script = b[j].script /\ job'[j].cursor = b[j].cursor
          /\ job'[j].sections = b[j].sections /\ job'[j].captures = b[j].captures
        BY <2>5, <2>6 DEF NoJob
    <2> QED BY <2>4, <2>5, <2>6, <2>7
<1>8. \A i \in Request : JobOK(job'[i]) /\ (job'[i].state # "none" <=> job[i].state # "none")
    <2>1. JobOK(job'[j])
        BY <1>4, <1>5, <1>6, <1>7 DEF JobOK
    <2> QED BY <1>4, <1>5, <1>7, <2>1
<1>9. ASSUME NEW s \in Request
      PROVE  /\ RequestOK(s, req'[s]) /\ req'[s].packets = req[s].packets /\ req'[s].job = req[s].job
             /\ (req'[s].state # "none" <=> req[s].state # "none")
             /\ req'[s].state = "preparing" => req[s].state = "preparing" /\ s # r
    <2>1. CASE s # r
        <3>1. req'[s] = req[s]
            BY <1>3, <1>4, <2>1
        <3> QED BY <1>4, <2>1, <3>1
    <2>2. CASE s = r
        <3>1. DOMAIN req[r] = DOMAIN NoRequest
            BY <1>4 DEF RequestOK
        <3>2. req'[r] = [req[r] EXCEPT !.state = "cancelled"]
            BY <1>3, <1>4
        <3>3. PICK q : q = req'[r] /\ DOMAIN q = DOMAIN NoRequest /\ q.state = "cancelled" /\ q.packets = req[r].packets
                     /\ q.job = req[r].job
            BY <3>1, <3>2 DEF NoRequest
        <3>4. q # NoRequest
            <4>1. NoRequest.state = "none"
                BY DEF NoRequest
            <4> QED BY <3>3, <4>1
        <3>5. RequestOK(r, q)
            BY <1>4, <3>3, <3>4 DEF RequestOK, RequestStates
        <3> QED BY <1>1, <2>2, <3>3, <3>5
    <2> QED BY <2>1, <2>2
<1>10. Records'
    <2>1. /\ order \in Seq(Request) /\ ToSet(order) = {s \in Request : job[s].state # "none"}
          /\ \A s \in Request : job[s].state # "none" => req[s].state # "none"
        BY DEF ContextInv, Records
    <2>2. \A s \in Request : job'[s].state # "none" => req'[s].state # "none"
        BY <1>8, <1>9, <2>1
    <2>3. ToSet(order) = {s \in Request : job'[s].state # "none"}
        BY <1>8, <2>1
    <2>4. DOMAIN req' = Request /\ \A s \in Request : RequestOK(s, req'[s])
        BY <1>3, <1>4, <1>9
    <2> QED BY <1>1, <1>7, <1>8, <2>1, <2>2, <2>3, <2>4 DEF Records
<1>11. Machine'
    <2>1. PoolOK(pool')
        BY <1>3, PoolKept
    <2> QED BY <1>1, <2>1 DEF ContextInv, Machine, PoolOK
<1>12. PreparingIsPrepared'
    <2>1. ASSUME NEW s \in Request, req'[s].state = "preparing"
          PROVE  job'[req'[s].job].state = "running" /\ s \in ToSet(job'[req'[s].job].requests)
        <3>1. req[s].state = "preparing" /\ req'[s].job = req[s].job /\ s # r
            BY <1>9, <2>1
        <3>2. job[req[s].job].state = "running" /\ s \in ToSet(job[req[s].job].requests) /\ req[s].job \in Request
            BY <3>1 DEF ContextInv, PreparingIsPrepared, Records, RequestOK
        <3>3. CASE req[s].job = j
            <4>1. s \in ToSet(others)
                BY <1>6, <3>1, <3>2, <3>3
            <4>2. others # <<>>
                BY <4>1, EmptySequence
            <4> QED BY <1>7, <3>1, <3>3, <4>1, <4>2
        <3>4. CASE req[s].job # j
            BY <1>7, <3>1, <3>2, <3>4
        <3> QED BY <3>3, <3>4
    <2> QED BY <2>1 DEF PreparingIsPrepared
<1>13. PublishedIsSealed'
    <2>1. Here' = Here
        BY <1>1 DEF Here
    <2>2. ASSUME NEW s \in Request, NEW n \in DOMAIN req'[s].packets
          PROVE  IF Here.peer THEN <<s, n>> \in DOMAIN peer /\ peer[<<s, n>>].packet = req'[s].packets[n]
                 ELSE <<s, n>> \in sealed
        <3>1. n \in DOMAIN req[s].packets /\ req'[s].packets[n] = req[s].packets[n]
            BY <1>9
        <3> QED BY <3>1 DEF ContextInv, PublishedIsSealed
    <2> QED BY <1>1, <2>1, <2>2 DEF PublishedIsSealed
<1>14. CapturedBeforeSent'
    <2>1. \A i \in Request : job'[i].captures = job[i].captures
        BY <1>7
    <2> QED BY <1>1, <2>1 DEF ContextInv, CapturedBeforeSent
<1>15. Ticking'
    BY <1>1, IdleTicks
<1> QED BY <1>10, <1>11, <1>12, <1>13, <1>14, <1>15 DEF ContextInv

\* The records before anything was asked for.
LEMMA NoneYet ==
    /\ DOMAIN <<>> = {}
    /\ \A r : RequestOK(r, NoRequest)
    /\ JobOK(NoJob)
<1>1. DOMAIN <<>> = {} /\ IsSequence(<<>>) /\ Len(<<>>) = 0
    BY EmptySequence
<1>2. \A r : RequestOK(r, NoRequest)
    <2>1. NoRequest.state = "none" /\ NoRequest.job = "" /\ NoRequest.packets = <<>>
        BY DEF NoRequest
    <2>2. "none" \in RequestStates
        BY DEF RequestStates
    <2> QED BY <1>1, <2>1, <2>2 DEF RequestOK
<1>3. JobOK(NoJob)
    <2>4. /\ NoJob.state = "none" /\ NoJob.requests = <<>> /\ NoJob.script = <<>> /\ NoJob.cursor = 1
          /\ NoJob.sections = <<>> /\ NoJob.captures = <<>>
        BY DEF NoJob
    <2>1. PICK j : /\ j = NoJob /\ j.state = "none" /\ j.requests = <<>> /\ j.script = <<>> /\ j.cursor = 1
                   /\ j.sections = <<>> /\ j.captures = <<>>
        BY <2>4
    <2>2. j.requests \in Seq(Request)
        BY <2>1
    <2>3. j.cursor \in 1 .. Len(j.script) + 1
        BY <1>1, <2>1
    <2> QED BY <1>1, <2>1, <2>2, <2>3 DEF JobOK
<1> QED BY <1>1, <1>2, <1>3

LEMMA NewJob ==
    ASSUME launch \in DOMAIN Launch, NEW r \in Request, NEW j, j = new_job(r)
    PROVE  JobOK(j) /\ j.state = "running" /\ r \in ToSet(j.requests)
<1>1. IsSequence(script_for(r)) /\ IsSequence(<<<<"compile">>>>)
    BY ContextAssumption, SequenceOfOne DEF script_for, Here
<1>2. PICK script, unmet, corrections :
        /\ IsSequence(script)
        /\ j = [NoJob EXCEPT !.state = "running", !.requests = <<r>>, !.script = script,
                             !.unmet = unmet, !.corrections = corrections]
    BY <1>1 DEF new_job
<1>3. /\ DOMAIN j = DOMAIN NoJob /\ j.state = "running" /\ j.requests = <<r>> /\ j.script = script
      /\ j.cursor = 1 /\ j.sections = <<>>
    BY <1>2 DEF NoJob
<1>4. PICK one : one = <<r>>
    OBVIOUS
<1>5. /\ one \in Seq(Request) /\ Len(one) = 1 /\ one[1] = r
      /\ ToSet(one) = {one[i] : i \in 1 .. Len(one)}
    <2>1. one \in Seq(Request) /\ Len(one) = 1 /\ one[1] = r
        BY <1>4
    <2> QED BY <2>1, SequenceFrom
<1>6. one # <<>> /\ r \in ToSet(one)
    BY <1>5
<1>7. Len(script) \in Nat
    BY <1>2, SequencesMore
<1>8. IsSequence(<<>>)
    BY EmptySequence
<1> QED BY <1>2, <1>3, <1>4, <1>5, <1>6, <1>7, <1>8 DEF JobOK

\* A request that was refused or that began, whether it joined a job or not.
LEMMA SubmitKeeps ==
    ASSUME ContextInv, Resubmitted = {}, NEW r \in Request, context_submit(r)
    PROVE  ContextInv'
<1>1. /\ Idle /\ req[r].state = "none" /\ tick' = tick
      /\ UNCHANGED <<launch, sealed, indexed, peer, pool, now, faults, calls>>
    BY DEF context_submit
<1>2. /\ DOMAIN job = Request /\ \A i \in Request : JobOK(job[i])
      /\ DOMAIN req = Request /\ \A s \in Request : RequestOK(s, req[s])
      /\ \A s \in Request : job[s].state # "none" => req[s].state # "none"
      /\ order \in Seq(Request) /\ ToSet(order) = {s \in Request : job[s].state # "none"}
    BY DEF ContextInv, Records
<1>3. job[r].state = "none" /\ DOMAIN job[r].captures = {}
    <2>1. job[r].state = "none"
        BY <1>1, <1>2
    <2>2. JobOK(job[r])
        BY <1>2
    <2> QED BY <2>1, <2>2 DEF JobOK
<1>4. Here' = Here /\ Machine' /\ Ticking'
    <2>1. Ticking'
        BY <1>1, IdleTicks
    <2> QED BY <1>1, <2>1 DEF ContextInv, Machine, Here
<1>5. ASSUME NEW q, DOMAIN q = DOMAIN NoRequest, q.packets = <<>>, req' = [req EXCEPT ![r] = q],
             q.state \in {"refused", "preparing"}, q.job \in Request \cup {""},
             q.state = "preparing" =>
                 /\ q.job \in Request /\ job'[q.job].state = "running" /\ r \in ToSet(job'[q.job].requests),
             DOMAIN job' = Request,
             \A i \in Request : JobOK(job'[i]),
             \A i \in Request : i # r => (job'[i].state = "none" <=> job[i].state = "none"),
             \A i \in Request : job[i].state = "running" =>
                 job'[i].state = "running" /\ ToSet(job[i].requests) \subseteq ToSet(job'[i].requests),
             \A i \in Request : i # r => job'[i].captures = job[i].captures,
             order' \in Seq(Request), ToSet(order') = {s \in Request : job'[s].state # "none"}
      PROVE  ContextInv'
    <2>1. RequestOK(r, q) /\ q.state # "none"
        <3>1. q # NoRequest
            <4>1. NoRequest.state = "none"
                BY DEF NoRequest
            <4> QED BY <1>5, <4>1
        <3>2. IsSequence(q.packets) /\ DOMAIN q.packets = {}
            BY <1>5, NoneYet, EmptySequence
        <3>3. q.state \in RequestStates
            BY <1>5 DEF RequestStates
        <3> QED BY <1>5, <3>1, <3>2, <3>3 DEF RequestOK
    <2>2. DOMAIN req' = Request /\ req'[r] = q /\ \A s \in Request \ {r} : req'[s] = req[s]
        BY <1>2, <1>5
    <2>3. Records'
        <3>1. \A s \in Request : RequestOK(s, req'[s])
            BY <1>2, <2>1, <2>2
        <3>2. \A s \in Request : job'[s].state # "none" => req'[s].state # "none"
            BY <1>2, <1>5, <2>1, <2>2
        <3> QED BY <1>5, <2>2, <3>1, <3>2 DEF Records
    <2>4. PreparingIsPrepared'
        <3>1. ASSUME NEW s \in Request, req'[s].state = "preparing"
              PROVE  job'[req'[s].job].state = "running" /\ s \in ToSet(job'[req'[s].job].requests)
            <4>1. CASE s = r
                BY <1>5, <2>2, <3>1, <4>1
            <4>2. CASE s # r
                <5>1. req'[s] = req[s]
                    BY <2>2, <4>2
                <5>2. job[req[s].job].state = "running" /\ s \in ToSet(job[req[s].job].requests) /\ req[s].job \in Request
                    BY <3>1, <5>1 DEF ContextInv, PreparingIsPrepared, Records, RequestOK
                <5> QED BY <1>5, <5>1, <5>2
            <4> QED BY <4>1, <4>2
        <3> QED BY <3>1 DEF PreparingIsPrepared
    <2>5. PublishedIsSealed'
        <3>1. ASSUME NEW s \in Request, NEW n \in DOMAIN req'[s].packets
              PROVE  IF Here.peer THEN <<s, n>> \in DOMAIN peer /\ peer[<<s, n>>].packet = req'[s].packets[n]
                     ELSE <<s, n>> \in sealed
            <4>1. s # r
                BY <1>5, <2>2, <3>1, NoneYet
            <4>2. n \in DOMAIN req[s].packets /\ req'[s].packets[n] = req[s].packets[n]
                BY <2>2, <3>1, <4>1
            <4> QED BY <4>2 DEF ContextInv, PublishedIsSealed
        <3> QED BY <1>1, <1>4, <3>1 DEF PublishedIsSealed
    <2>6. CapturedBeforeSent'
        <3>1. ASSUME NEW a \in DOMAIN peer
              PROVE  \E i \in Request : a \in DOMAIN job'[i].captures /\ job'[i].captures[a] = peer[a].captured
            <4>1. PICK i \in Request : a \in DOMAIN job[i].captures /\ job[i].captures[a] = peer[a].captured
                BY DEF ContextInv, CapturedBeforeSent
            <4>2. i # r
                BY <1>3, <4>1
            <4> QED BY <1>5, <4>1, <4>2
        <3> QED BY <1>1, <3>1 DEF CapturedBeforeSent
    <2> QED BY <1>4, <2>3, <2>4, <2>5, <2>6 DEF ContextInv
<1>6. CASE req' = [req EXCEPT ![r] = [NoRequest EXCEPT !.state = "refused"]] /\ job' = job /\ order' = order
    <2>1. PICK q : q = [NoRequest EXCEPT !.state = "refused"]
        OBVIOUS
    <2>2. DOMAIN q = DOMAIN NoRequest /\ q.packets = <<>> /\ q.state = "refused" /\ q.job = ""
        BY <2>1 DEF NoRequest
    <2> QED BY <1>2, <1>5, <1>6, <2>1, <2>2
<1>7. ASSUME NEW j \in Request,
             req' = [req EXCEPT ![r] = [NoRequest EXCEPT !.state = "preparing", !.job = j]],
             DOMAIN job' = Request, \A i \in Request \ {j} : job'[i] = job[i],
             JobOK(job'[j]), job'[j].state = "running", r \in ToSet(job'[j].requests),
             j # r => /\ job[j].state = "running" /\ job'[j].captures = job[j].captures
                      /\ ToSet(job[j].requests) \subseteq ToSet(job'[j].requests),
             order' = IF j \in ToSet(order) THEN order ELSE Append(order, j)
      PROVE  ContextInv'
    <2>1. PICK q : q = [NoRequest EXCEPT !.state = "preparing", !.job = j]
        OBVIOUS
    <2>2. DOMAIN q = DOMAIN NoRequest /\ q.packets = <<>> /\ q.state = "preparing" /\ q.job = j
        BY <2>1 DEF NoRequest
    <2>3. order' \in Seq(Request) /\ ToSet(order') = ToSet(order) \cup {j}
        <3>1. CASE j \in ToSet(order)
            BY <1>2, <1>7, <3>1
        <3>2. CASE j \notin ToSet(order)
            <4>1. PICK o, p : o = order /\ p = order' /\ p = Append(o, j) /\ o \in Seq(Request)
                BY <1>2, <1>7, <3>2
            <4>2. IsSequence(o)
                BY <4>1, SequenceFrom
            <4>3. ToSet(p) = ToSet(o) \cup {j} /\ p \in Seq(Request)
                BY <4>1, <4>2, SequencesMore
            <4> QED BY <4>1, <4>3
        <3> QED BY <3>1, <3>2
    <2>4. ToSet(order') = {s \in Request : job'[s].state # "none"}
        <3>1. \A s \in Request \ {j} : job'[s].state = job[s].state
            BY <1>7
        <3>2. job'[j].state # "none"
            BY <1>7
        <3> QED BY <1>2, <2>3, <3>1, <3>2
    <2>5. \A i \in Request : JobOK(job'[i])
        BY <1>2, <1>7
    <2>6. \A i \in Request : i # r => (job'[i].state = "none" <=> job[i].state = "none")
        BY <1>7
    <2>7. \A i \in Request : job[i].state = "running" =>
              job'[i].state = "running" /\ ToSet(job[i].requests) \subseteq ToSet(job'[i].requests)
        <3>1. ASSUME NEW i \in Request, job[i].state = "running"
              PROVE  job'[i].state = "running" /\ ToSet(job[i].requests) \subseteq ToSet(job'[i].requests)
            <4>1. i # r
                BY <1>3, <3>1
            <4>2. CASE i = j
                BY <1>7, <4>1, <4>2
            <4>3. CASE i # j
                BY <1>7, <3>1, <4>3
            <4> QED BY <4>2, <4>3
        <3> QED BY <3>1
    <2>8. \A i \in Request : i # r => job'[i].captures = job[i].captures
        BY <1>7
    <2>9. /\ req' = [req EXCEPT ![r] = q] /\ q.state \in {"refused", "preparing"} /\ q.job \in Request \cup {""}
          /\ q.job \in Request /\ job'[q.job].state = "running" /\ r \in ToSet(job'[q.job].requests)
        BY <1>7, <2>1, <2>2
    <2> QED BY <1>5, <1>7, <2>2, <2>3, <2>4, <2>5, <2>6, <2>7, <2>8, <2>9
<1>8. CASE /\ req' = [req EXCEPT ![r] = [NoRequest EXCEPT !.state = "preparing", !.job = r]]
           /\ job' = [job EXCEPT ![r] = new_job(r)]
           /\ order' = IF r \in ToSet(order) THEN order ELSE Append(order, r)
    <2>1. launch \in DOMAIN Launch
        BY DEF ContextInv, Machine
    <2>2. /\ DOMAIN job' = Request /\ job'[r] = new_job(r) /\ \A i \in Request \ {r} : job'[i] = job[i]
        BY <1>2, <1>8
    <2>3. PICK j : j = job'[r]
        OBVIOUS
    <2>4. JobOK(j) /\ j.state = "running" /\ r \in ToSet(j.requests)
        BY <2>1, <2>2, <2>3, NewJob
    <2> QED BY <1>7, <1>8, <2>2, <2>3, <2>4
<1>9. CASE \E j \in ToSet(Joined(r)) :
              /\ req' = [req EXCEPT ![r] = [NoRequest EXCEPT !.state = "preparing", !.job = j]]
              /\ job' = [job EXCEPT ![j].requests = Append(@, r)]
              /\ order' = IF j \in ToSet(order) THEN order ELSE Append(order, j)
    <2>1. PICK j \in ToSet(Joined(r)) :
              /\ req' = [req EXCEPT ![r] = [NoRequest EXCEPT !.state = "preparing", !.job = j]]
              /\ job' = [job EXCEPT ![j].requests = Append(@, r)]
              /\ order' = IF j \in ToSet(order) THEN order ELSE Append(order, j)
        BY <1>9
    <2>2. j \in Request /\ job[j].state = "running"
        <3>1. IsSequence(order)
            BY <1>2, SequenceFrom
        <3>2. ToSet(Where(order, {i \in Request : may_join(i, r)})) \subseteq {i \in Request : may_join(i, r)}
            BY <3>1, WhereKeeps
        <3>3. ToSet(<<>>) = {}
            BY EmptySequence
        <3> QED BY <2>1, <3>2, <3>3 DEF Joined, may_join
    <2>3. j # r
        BY <1>3, <2>2
    <2>4. /\ DOMAIN job' = Request /\ \A i \in Request \ {j} : job'[i] = job[i]
          /\ job'[j] = [job[j] EXCEPT !.requests = Append(job[j].requests, r)]
        BY <1>2, <2>1, <2>2
    <2>5. DOMAIN job[j] = DOMAIN NoJob /\ job[j].requests \in Seq(Request)
        BY <1>2, <2>2 DEF JobOK
    <2>6. /\ DOMAIN job'[j] = DOMAIN NoJob /\ job'[j].requests = Append(job[j].requests, r)
          /\ job'[j].state = "running"
          /\ job'[j].script = job[j].script /\ job'[j].cursor = job[j].cursor
          /\ job'[j].sections = job[j].sections /\ job'[j].captures = job[j].captures
        BY <2>2, <2>4, <2>5 DEF NoJob
    <2>7. PICK a, b : a = job[j].requests /\ b = job'[j].requests /\ a \in Seq(Request) /\ b = Append(a, r)
        BY <2>5, <2>6
    <2>8. b \in Seq(Request) /\ b # <<>> /\ ToSet(b) = ToSet(a) \cup {r}
        <3>1. IsSequence(a)
            BY <2>7, SequenceFrom
        <3> QED BY <2>7, <3>1, SequencesMore
    <2>9. JobOK(job'[j])
        <3>1. JobOK(job[j])
            BY <1>2, <2>2
        <3> QED BY <2>6, <2>7, <2>8, <3>1 DEF JobOK
    <2>10. ToSet(job[j].requests) \subseteq ToSet(job'[j].requests) /\ r \in ToSet(job'[j].requests)
        BY <2>7, <2>8
    <2> QED BY <1>7, <2>1, <2>2, <2>4, <2>6, <2>9, <2>10
<1>10. CASE Joined(r) = <<>>
    <2>1. (IF Joined(r) = <<>> THEN r ELSE Head(Joined(r))) = r
        BY <1>10
    <2> QED BY <1>6, <1>8, <1>10, <2>1 DEF context_submit
<1>11. CASE Joined(r) # <<>>
    <2>1. PICK s : s = Joined(r) /\ s # <<>>
        BY <1>11
    <2>2. IsSequence(s)
        <3>1. IsSequence(order)
            BY <1>2, SequenceFrom
        <3>2. IsSequence(Where(order, {i \in Request : may_join(i, r)}))
            BY <3>1, WhereKeeps
        <3> QED BY <2>1, <3>2, EmptySequence DEF Joined
    <2>3. Head(s) \in ToSet(s)
        BY <2>1, <2>2, SequencesTail
    <2>4. Head(Joined(r)) \in ToSet(Joined(r))
        BY <2>1, <2>3
    <2>5. \/ req' = [req EXCEPT ![r] = [NoRequest EXCEPT !.state = "refused"]] /\ job' = job /\ order' = order
          \/ /\ req' = [req EXCEPT ![r] = [NoRequest EXCEPT !.state = "preparing", !.job = Head(Joined(r))]]
             /\ job' = [job EXCEPT ![Head(Joined(r))].requests = Append(@, r)]
             /\ order' = IF Head(Joined(r)) \in ToSet(order) THEN order ELSE Append(order, Head(Joined(r)))
        BY <1>11 DEF context_submit
    <2> QED BY <1>6, <1>9, <2>4, <2>5
<1> QED BY <1>10, <1>11

-----------------------------------------------------------------------------
(* The invariant holds, and publication is sound.                          *)

LEMMA ContextInit ==
    ASSUME Init
    PROVE  ContextInv
<1>1. Records
    <2>1. NoJob.state = "none" /\ ToSet(<<>>) = {}
        BY EmptySequence DEF NoJob
    <2>2. order \in Seq(Request) /\ ToSet(order) = {}
        BY <2>1 DEF Init
    <2>3. DOMAIN req = Request /\ DOMAIN job = Request /\ \A r \in Request : req[r] = NoRequest /\ job[r] = NoJob
        BY DEF Init
    <2> QED BY <2>1, <2>2, <2>3, NoneYet DEF Records
<1>2. Machine
    <2>1. calls = <<>> /\ DOMAIN pool = {} /\ now = 0 /\ faults = 0 /\ launch \in DOMAIN Launch
        BY DEF Init, Empty
    <2>2. MaxNow \in Nat /\ MaxFaults \in Nat
        BY ContextAssumption
    <2>3. DOMAIN calls = {}
        BY <2>1, NoneYet
    <2> QED BY <2>1, <2>2, <2>3 DEF Machine
<1>3. Ticking
    <2>1. tick = NoTick /\ NoTick.phase = "idle"
        BY DEF Init, NoTick
    <2> QED BY <2>1 DEF Ticking
<1>4. PreparingIsPrepared /\ PublishedIsSealed
    <2>1. \A r \in Request : req[r] = NoRequest
        BY DEF Init
    <2>2. NoRequest.state = "none" /\ NoRequest.packets = <<>>
        BY DEF NoRequest
    <2> QED BY <2>1, <2>2, NoneYet DEF PreparingIsPrepared, PublishedIsSealed
<1>5. CapturedBeforeSent
    <2>1. DOMAIN peer = {}
        BY NoneYet DEF Init
    <2> QED BY <2>1 DEF CapturedBeforeSent
<1> QED BY <1>1, <1>2, <1>3, <1>4, <1>5 DEF ContextInv

LEMMA ContextNext ==
    ASSUME ContextInv, Resubmitted = {}, [Next]_vars
    PROVE  ContextInv'
<1>1. CASE tick_context
    BY <1>1, TickBegins
<1>2. CASE Prepare
    BY <1>2, PrepareKeeps
<1>3. CASE publish_all
    BY <1>3, PublishAllKeeps
<1>4. CASE End
    BY <1>4, EndKeeps
<1>5. CASE Rest
    BY <1>5, RestKeeps
<1>6. CASE compile
    BY <1>6, CompileKeeps
<1>7. CASE keep_outgoing_captures
    BY <1>7, CapturesKept
<1>8. CASE seal_packets
    BY <1>8, SealKeeps
<1>9. CASE commit
    BY <1>9, CommitKeeps
<1>10. CASE end_refused_job
    BY <1>10, RefusedKeeps
<1>11. CASE Stop
    BY <1>11, StopKeeps
<1>12. ASSUME NEW r \in Request, context_submit(r) \/ context_cancel(r)
       PROVE  ContextInv'
    BY <1>12, SubmitKeeps, CancelKeeps
<1>13. ASSUME NEW k \in DOMAIN pool, Finish(k)
       PROVE  ContextInv'
    BY <1>13, UnitEnds
<1>14. CASE Advance
    BY <1>14, TimePasses
<1>15. CASE Crash
    BY <1>15, CrashKeeps
<1>16. CASE Subscribe \/ Close \/ UNCHANGED vars
    <2>1. tick' = tick /\ UNCHANGED Stored /\ pool' = pool /\ calls' = calls
        BY <1>16 DEF Subscribe, Close, vars, Stored
    <2>2. Ticking'
        <3>1. PICK t : t = tick
            OBVIOUS
        <3>2. t.phase # "idle" => Holding(t)
            BY <3>1 DEF ContextInv, Ticking
        <3>3. t.phase # "idle" => Holding(t)'
            BY <2>1, <3>2, HoldingStays
        <3>4. Here' = Here
            BY <2>1 DEF Stored, Here
        <3> QED BY <2>1, <3>1, <3>3, <3>4 DEF ContextInv, Ticking
    <2> QED BY <2>1, <2>2 DEF Stored, ContextInv, Records, Machine, PreparingIsPrepared, PublishedIsSealed,
                              CapturedBeforeSent, Here
<1> QED BY <1>1, <1>2, <1>3, <1>4, <1>5, <1>6, <1>7, <1>8, <1>9, <1>10, <1>11, <1>12, <1>13, <1>14, <1>15, <1>16
        DEF Next, Tick

\* Publication has no half-done state that lasts: a request is prepared by a running
\* job it subscribes to until it has an end, what it was given is sealed as it was
\* composed, and what was sent is what would be sent again (tick_context,
\* seal_packets, end_refused_job) - whatever the jobs, the deadlines, the launches,
\* the size of the pool, the peer and the failures, if no id is submitted again.
THEOREM PublicationIsSound ==
    ASSUME Resubmitted = {}
    PROVE  Spec => []PublicationSound
<1>1. Init => ContextInv
    BY ContextInit
<1>2. ContextInv /\ [Next]_vars => ContextInv'
    BY ContextNext
<1>3. ContextInv => PublicationSound
    <2> SUFFICES ASSUME ContextInv PROVE PublicationSound
        OBVIOUS
    <2>1. TypeOK
        <3>1. ASSUME NEW r \in Request
              PROVE  /\ req[r].state \in {"none", "preparing", "refused", "cancelled"} \cup Published
                     /\ req[r].state = "none" <=> req[r] = NoRequest
                     /\ req[r].job \in Request \cup {""}
            BY DEF ContextInv, Records, RequestOK, RequestStates
        <3>2. ASSUME NEW r \in Request
              PROVE  /\ job[r].state \in {"none", "running", "ended"}
                     /\ ToSet(job[r].requests) \subseteq Request
                     /\ job[r].cursor \in 1 .. Len(job[r].script) + 1
            <4>1. JobOK(job[r])
                BY DEF ContextInv, Records
            <4>2. PICK s : s = job[r].requests /\ s \in Seq(Request)
                BY <4>1 DEF JobOK
            <4>3. ToSet(s) \subseteq Request
                BY <4>2, SequenceFrom
            <4> QED BY <4>1, <4>2, <4>3 DEF JobOK
        <3>3. /\ ToSet(order) = {r \in Request : job[r].state # "none"}
              /\ launch \in DOMAIN Launch /\ now \in 0 .. MaxNow /\ faults \in 0 .. MaxFaults
              /\ tick.phase \in {"idle", "steps", "captures", "seal", "invalid", "protocol"}
              /\ \A k \in DOMAIN calls : calls[k] \in Nat \ {0}
            BY DEF ContextInv, Records, Machine, Ticking
        <3>4. \A k \in DOMAIN pool : pool[k] \in {"running", "finished", "spoilt", "broken"} \cup Settled
            BY DEF ContextInv, Machine, Slots
        <3> QED BY <3>1, <3>2, <3>3, <3>4 DEF TypeOK
    <2> QED BY <2>1 DEF ContextInv, PublicationSound
<1> QED BY <1>1, <1>2, <1>3, PTL DEF Spec

\* A packet that says an item is satisfied carries a section for the item that is
\* current and not one that a correction made historical (inclusion, item_results,
\* compile_packet) - whatever was prepared, corrected and asked for.
THEOREM SatisfactionIsCurrent ==
    ASSUME Resubmitted = {}
    PROVE  Spec => []SatisfiedByCurrent
<1>1. Init => ContextInv
    BY ContextInit
<1>2. ContextInv /\ [Next]_vars => ContextInv'
    BY ContextNext
<1>3. ContextInv => SatisfiedByCurrent
    BY DEF ContextInv, Records, RequestOK, IsTrue, SatisfiedByCurrent
<1> QED BY <1>1, <1>2, <1>3, PTL DEF Spec

-----------------------------------------------------------------------------
(* Sizes.                                                                  *)

\* f[k] is the size of the first k elements of s, for k up to n.
IsTotal(f, s, n) == f = [k \in 0 .. n |-> IF k = 0 THEN 0 ELSE f[k - 1] + s[k].size]

\* Total is the last value of a function that satisfies its definition.
LEMMA TotalIs ==
    ASSUME NEW s
    PROVE  Total(s) = (CHOOSE f : IsTotal(f, s, Len(s)))[Len(s)]
BY Zenon DEF Total, IsTotal

\* There is such a function: it adds the sizes up one after the other.
LEMMA TotalRuns ==
    ASSUME NEW s, NEW n \in Nat
    PROVE  \E f : IsTotal(f, s, n)
<1> DEFINE Runs == {m \in 0 .. n : \E f : IsTotal(f, s, m)}
<1>1. 0 \in Runs
    <2> DEFINE f == [k \in 0 .. 0 |-> 0]
    <2>1. f = [k \in 0 .. 0 |-> IF k = 0 THEN 0 ELSE f[k - 1] + s[k].size]
        OBVIOUS
    <2> HIDE DEF f
    <2>2. IsTotal(f, s, 0)
        BY <2>1, Zenon DEF IsTotal
    <2> QED BY <2>2
<1>2. ASSUME NEW m \in 1 .. n, m - 1 \in Runs PROVE m \in Runs
    <2>1. PICK f : IsTotal(f, s, m - 1)
        BY <1>2
    <2> DEFINE last == f[m - 1] + s[m].size
               g == [k \in 0 .. m |-> IF k = m THEN last ELSE f[k]]
    <2>2. \A k \in 0 .. m - 1 : f[k] = IF k = 0 THEN 0 ELSE f[k - 1] + s[k].size
        BY <2>1 DEF IsTotal
    <2>3. ASSUME NEW k \in 0 .. m
          PROVE  g[k] = IF k = 0 THEN 0 ELSE g[k - 1] + s[k].size
        <3>1. CASE k = m
            <4>1. g[k] = last /\ g[k - 1] = f[m - 1] /\ k # 0
                BY <3>1
            <4> HIDE DEF g
            <4> QED BY <3>1, <4>1
        <3>2. CASE k # m
            <4>1. k \in 0 .. m - 1 /\ g[k] = f[k] /\ (k # 0 => g[k - 1] = f[k - 1])
                BY <3>2
            <4> HIDE DEF g
            <4> QED BY <2>2, <4>1
        <3> QED BY <3>1, <3>2
    <2>4. g = [k \in 0 .. m |-> g[k]]
        OBVIOUS
    <2> HIDE DEF g
    <2>5. g = [k \in 0 .. m |-> IF k = 0 THEN 0 ELSE g[k - 1] + s[k].size]
        BY <2>3, <2>4
    <2>6. IsTotal(g, s, m)
        BY <2>5, Zenon DEF IsTotal
    <2> QED BY <2>6
<1>3. n \in Runs
    <2> HIDE DEF Runs
    <2>1. \A k \in 0 .. n : k \in Runs
        BY <1>1, <1>2, CountUp
    <2> QED BY <2>1
<1> QED BY <1>3

\* Sections, or any sequence of what has a size.
Sized(s) == IsSequence(s) /\ \A n \in 1 .. Len(s) : s[n].size \in Nat

\* Total is what any function that adds the sizes up ends with.
LEMMA TotalFrom ==
    ASSUME NEW s, Sized(s)
    PROVE  /\ Len(s) \in Nat
           /\ \E f : /\ \A k \in 0 .. Len(s) : f[k] = IF k = 0 THEN 0 ELSE f[k - 1] + s[k].size
                     /\ \A k \in 0 .. Len(s) : f[k] \in Nat
                     /\ Total(s) = f[Len(s)]
<1> DEFINE n == Len(s)
<1>1. n \in Nat
    BY DEF Sized, IsSequence
<1>2. PICK f : IsTotal(f, s, n) /\ Total(s) = f[n]
    <2>1. \E f : IsTotal(f, s, n)
        BY <1>1, TotalRuns
    <2> QED BY <2>1, TotalIs
<1>5. \A k \in 1 .. n : s[k].size \in Nat
    BY DEF Sized
<1> HIDE DEF n
<1>3. \A k \in 0 .. n : f[k] = IF k = 0 THEN 0 ELSE f[k - 1] + s[k].size
    BY <1>2 DEF IsTotal
<1> DEFINE Good == {k \in 0 .. n : f[k] \in Nat}
<1>4. \A k \in 0 .. n : k \in Good
    <2>1. 0 \in Good
        BY <1>1, <1>3
    <2>2. ASSUME NEW k \in 1 .. n, k - 1 \in Good PROVE k \in Good
        <3>1. f[k - 1] \in Nat /\ s[k].size \in Nat /\ k \in 0 .. n /\ k # 0
            BY <1>5, <2>2
        <3>2. f[k] = f[k - 1] + s[k].size
            BY <1>3, <3>1
        <3> QED BY <3>1, <3>2
    <2> HIDE DEF Good
    <2> QED BY <1>1, <2>1, <2>2, CountUp
<1>6. \A k \in 0 .. n : f[k] \in Nat
    BY <1>4
<1>7. Len(s) = n
    BY DEF n
<1> QED BY <1>1, <1>2, <1>3, <1>6, <1>7

\* Nothing has no size.
LEMMA TotalNone == Sized(<<>>) /\ Total(<<>>) = 0
<1>1. PICK e : e = <<>>
    OBVIOUS
<1>2. IsSequence(e) /\ Len(e) = 0
    BY <1>1, EmptySequence
<1>3. Sized(e)
    BY <1>2 DEF Sized
<1>4. PICK f : f[0] = 0 /\ Total(e) = f[0]
    <2>1. PICK f : /\ \A k \in 0 .. Len(e) : f[k] = IF k = 0 THEN 0 ELSE f[k - 1] + e[k].size
                   /\ Total(e) = f[Len(e)]
        BY <1>3, TotalFrom
    <2>2. f[0] = 0 /\ Total(e) = f[0]
        BY <1>2, <2>1
    <2> QED BY <2>2
<1> QED BY <1>1, <1>3, <1>4

\* One more element adds its size.
LEMMA TotalMore ==
    ASSUME NEW s, Sized(s), NEW x, x.size \in Nat
    PROVE  Sized(Append(s, x)) /\ Total(Append(s, x)) = Total(s) + x.size /\ Total(s) \in Nat
<1> DEFINE t == Append(s, x)
           n == Len(s)
<1>1. /\ IsSequence(t) /\ Len(t) = n + 1 /\ n \in Nat
      /\ \A i \in 1 .. n : t[i] = s[i]
      /\ t[n + 1] = x
    BY SequencesMore DEF Sized
<1> HIDE DEF t
<1>2. Sized(t)
    <2>1. \A i \in 1 .. n + 1 : i \in 1 .. n \/ i = n + 1
        BY <1>1
    <2> QED BY <1>1, <2>1 DEF Sized
<1>3. PICK f : /\ \A k \in 0 .. n : f[k] = IF k = 0 THEN 0 ELSE f[k - 1] + s[k].size
               /\ \A k \in 0 .. n : f[k] \in Nat
               /\ Total(s) = f[n]
    BY TotalFrom
<1>4. PICK g : /\ \A k \in 0 .. n + 1 : g[k] = IF k = 0 THEN 0 ELSE g[k - 1] + t[k].size
               /\ Total(t) = g[n + 1]
    BY <1>1, <1>2, TotalFrom
<1> HIDE DEF n
<1> DEFINE Good == {k \in 0 .. n : g[k] = f[k]}
<1>5. \A k \in 0 .. n : k \in Good
    <2>1. 0 \in Good
        BY <1>1, <1>3, <1>4
    <2>2. ASSUME NEW k \in 1 .. n, k - 1 \in Good PROVE k \in Good
        <3>1. k \in 0 .. n /\ k \in 0 .. n + 1 /\ k # 0 /\ t[k] = s[k] /\ g[k - 1] = f[k - 1]
            BY <1>1, <2>2
        <3>2. f[k] = f[k - 1] + s[k].size
            BY <1>3, <3>1
        <3>3. g[k] = g[k - 1] + t[k].size
            BY <1>4, <3>1
        <3> QED BY <3>1, <3>2, <3>3
    <2> HIDE DEF Good
    <2> QED BY <1>1, <2>1, <2>2, CountUp
<1>6. g[n] = f[n] /\ f[n] \in Nat
    BY <1>1, <1>3, <1>5
<1>7. g[n + 1] = g[n] + x.size
    <2>1. n + 1 \in 0 .. n + 1 /\ n + 1 # 0 /\ (n + 1) - 1 = n
        BY <1>1
    <2> QED BY <1>1, <1>4, <2>1
<1>8. Total(t) = Total(s) + x.size /\ Total(s) \in Nat
    BY <1>3, <1>4, <1>6, <1>7
<1> QED BY <1>2, <1>8 DEF t

-----------------------------------------------------------------------------
(* Parts of sequences.                                                     *)

\* The first k elements of s.
Part(s, k) == [i \in 1 .. k |-> s[i]]

\* The first k elements are the first k - 1 and the k-th.
LEMMA PartMore ==
    ASSUME NEW s, IsSequence(s)
    PROVE  /\ Len(s) \in Nat /\ Part(s, 0) = <<>> /\ Part(s, Len(s)) = s
           /\ \A k \in 0 .. Len(s) : /\ IsSequence(Part(s, k)) /\ Len(Part(s, k)) = k
                                    /\ ToSet(Part(s, k)) = {s[i] : i \in 1 .. k}
           /\ \A k \in 1 .. Len(s) : Part(s, k) = Append(Part(s, k - 1), s[k])
<1>1. Len(s) \in Nat /\ s \in Seq(ToSet(s)) /\ s = [i \in 1 .. Len(s) |-> s[i]]
    BY DEF IsSequence
<1>2. \A i \in 1 .. Len(s) : s[i] \in ToSet(s)
    BY <1>1
<1>3. ASSUME NEW k \in 0 .. Len(s)
      PROVE  /\ Part(s, k) \in Seq(ToSet(s)) /\ Len(Part(s, k)) = k
             /\ IsSequence(Part(s, k)) /\ ToSet(Part(s, k)) = {s[i] : i \in 1 .. k}
    <2>1. PICK p : p = Part(s, k)
        OBVIOUS
    <2>2. p = [i \in 1 .. k |-> s[i]]
        BY <2>1 DEF Part
    <2>3. p \in Seq(ToSet(s)) /\ Len(p) = k /\ \A i \in 1 .. k : p[i] = s[i]
        BY <1>1, <1>2, <2>2
    <2>4. IsSequence(p) /\ ToSet(p) = {p[i] : i \in 1 .. k}
        BY <2>3, SequenceFrom
    <2>5. {p[i] : i \in 1 .. k} = {s[i] : i \in 1 .. k}
        BY <2>3
    <2> QED BY <2>1, <2>3, <2>4, <2>5
<1>4. Part(s, 0) = <<>>
    <2>1. Part(s, 0) = [i \in 1 .. 0 |-> s[i]]
        BY DEF Part
    <2>2. 1 .. 0 = {}
        OBVIOUS
    <2>3. [i \in 1 .. 0 |-> s[i]] = <<>>
        OBVIOUS
    <2> QED BY <2>1, <2>3
<1>5. Part(s, Len(s)) = s
    BY <1>1 DEF Part
<1>6. ASSUME NEW k \in 1 .. Len(s) PROVE Part(s, k) = Append(Part(s, k - 1), s[k])
    <2>1. PICK p, q : p = Part(s, k - 1) /\ q = Part(s, k)
        OBVIOUS
    <2>2. /\ p \in Seq(ToSet(s)) /\ Len(p) = k - 1 /\ q \in Seq(ToSet(s)) /\ Len(q) = k /\ s[k] \in ToSet(s)
          /\ \A i \in 1 .. k - 1 : p[i] = s[i]
          /\ \A i \in 1 .. k : q[i] = s[i]
        <3>1. k - 1 \in 0 .. Len(s) /\ k \in 0 .. Len(s)
            BY <1>1
        <3> QED BY <1>2, <1>3, <2>1, <3>1 DEF Part
    <2>3. q = Append(p, s[k])
        BY <1>1, <2>2
    <2> QED BY <2>1, <2>3
<1> QED BY <1>1, <1>3, <1>4, <1>5, <1>6

\* One more element is kept if it is asked for, behind the others.
LEMMA WhereMore ==
    ASSUME NEW s, IsSequence(s), NEW x, NEW U
    PROVE  Where(Append(s, x), U) = IF x \in U THEN Append(Where(s, U), x) ELSE Where(s, U)
<1> DEFINE t == Append(s, x)
           n == Len(s)
<1>1. /\ IsSequence(t) /\ Len(t) = n + 1 /\ n \in Nat
      /\ \A i \in 1 .. n : t[i] = s[i]
      /\ t[n + 1] = x
    BY SequencesMore
<1> HIDE DEF t
<1>2. PICK f : IsLeft(f, s, U, n) /\ Where(s, U) = f[n]
    <2>1. \E f : IsLeft(f, s, U, n)
        BY <1>1, LeftRuns
    <2> QED BY <2>1, WhereIs
<1>3. PICK g : IsLeft(g, t, U, n + 1) /\ Where(t, U) = g[n + 1]
    <2>1. n + 1 \in Nat
        BY <1>1
    <2>2. \E g : IsLeft(g, t, U, n + 1)
        BY <2>1, LeftRuns
    <2> QED BY <1>1, <2>2, WhereIs
<1> HIDE DEF n
<1>4. \A k \in 0 .. n :
          f[k] = IF k = 0 THEN <<>> ELSE IF s[k] \in U THEN Append(f[k - 1], s[k]) ELSE f[k - 1]
    BY <1>2 DEF IsLeft
<1>5. \A k \in 0 .. n + 1 :
          g[k] = IF k = 0 THEN <<>> ELSE IF t[k] \in U THEN Append(g[k - 1], t[k]) ELSE g[k - 1]
    BY <1>3 DEF IsLeft
<1> DEFINE Good == {k \in 0 .. n : g[k] = f[k]}
<1>6. \A k \in 0 .. n : k \in Good
    <2>1. 0 \in Good
        BY <1>1, <1>4, <1>5
    <2>2. ASSUME NEW k \in 1 .. n, k - 1 \in Good PROVE k \in Good
        <3>1. k \in 0 .. n /\ k \in 0 .. n + 1 /\ k # 0 /\ t[k] = s[k] /\ g[k - 1] = f[k - 1]
            BY <1>1, <2>2
        <3>2. f[k] = IF s[k] \in U THEN Append(f[k - 1], s[k]) ELSE f[k - 1]
            BY <1>4, <3>1
        <3>3. g[k] = IF t[k] \in U THEN Append(g[k - 1], t[k]) ELSE g[k - 1]
            BY <1>5, <3>1
        <3>4. g[k] = f[k]
            BY <3>1, <3>2, <3>3
        <3> QED BY <3>1, <3>4
    <2> HIDE DEF Good
    <2> QED BY <1>1, <2>1, <2>2, CountUp
<1>7. g[n] = f[n]
    BY <1>1, <1>6
<1>8. g[n + 1] = IF x \in U THEN Append(g[n], x) ELSE g[n]
    <2>1. n + 1 \in 0 .. n + 1 /\ n + 1 # 0 /\ (n + 1) - 1 = n
        BY <1>1
    <2> QED BY <1>1, <1>5, <2>1
<1> QED BY <1>2, <1>3, <1>7, <1>8 DEF t

\* Of nothing, nothing is kept.
LEMMA WhereNone ==
    ASSUME NEW S
    PROVE  Where(<<>>, S) = <<>>
<1>1. PICK e : e = <<>> /\ Len(e) = 0
    BY EmptySequence
<1>2. PICK f : IsLeft(f, e, S, 0) /\ Where(e, S) = f[0]
    <2>1. \E f : IsLeft(f, e, S, 0)
        BY LeftRuns
    <2> QED BY <1>1, <2>1, WhereIs
<1>3. f[0] = <<>>
    BY <1>2 DEF IsLeft
<1> QED BY <1>1, <1>2, <1>3

\* What is left of s depends on the elements of s alone.
LEMMA WhereSame ==
    ASSUME NEW s, IsSequence(s), NEW S, NEW T, \A x \in ToSet(s) : x \in S <=> x \in T
    PROVE  Where(s, S) = Where(s, T)
<1> DEFINE Good == {k \in 0 .. Len(s) : Where(Part(s, k), S) = Where(Part(s, k), T)}
<1>1. 0 \in Good
    BY PartMore, WhereNone
<1>2. ASSUME NEW k \in 1 .. Len(s), k - 1 \in Good PROVE k \in Good
    <2>1. k - 1 \in 0 .. Len(s) /\ k \in 0 .. Len(s) /\ s[k] \in ToSet(s)
        BY PartMore DEF IsSequence
    <2>2. IsSequence(Part(s, k - 1)) /\ Part(s, k) = Append(Part(s, k - 1), s[k])
        BY <2>1, PartMore
    <2>3. PICK p : p = Part(s, k - 1) /\ Where(p, S) = Where(p, T)
        BY <1>2
    <2>4. Where(Append(p, s[k]), S) = Where(Append(p, s[k]), T)
        <3>0. IsSequence(p)
            BY <2>2, <2>3
        <3> HIDE DEF Good
        <3>1. \A y, V : Where(Append(p, y), V) = IF y \in V THEN Append(Where(p, V), y) ELSE Where(p, V)
            BY <3>0, WhereMore
        <3>3. Where(Append(p, s[k]), S) = IF s[k] \in S THEN Append(Where(p, S), s[k]) ELSE Where(p, S)
            BY <3>1
        <3>4. Where(Append(p, s[k]), T) = IF s[k] \in T THEN Append(Where(p, T), s[k]) ELSE Where(p, T)
            BY <3>1
        <3>2. s[k] \in S <=> s[k] \in T
            BY <2>1
        <3> QED BY <2>3, <3>2, <3>3, <3>4
    <2> QED BY <2>1, <2>2, <2>3, <2>4
<1>3. Len(s) \in Good
    <2> HIDE DEF Good
    <2>1. Len(s) \in Nat
        BY PartMore
    <2>2. \A k \in 0 .. Len(s) : k \in Good
        BY <1>1, <1>2, <2>1, CountUp
    <2> QED BY <2>1, <2>2
<1> QED BY <1>3, PartMore

-----------------------------------------------------------------------------
(* What required items take, and what a packet carries.                    *)

\* What a section takes of the room kept for required items.
Weight(x, items) == IF is_required(items, x.item) THEN x.size ELSE 0

\* A part of elements that have sizes, and what is kept of them, have sizes.
LEMMA SizedParts ==
    ASSUME NEW s, Sized(s), NEW S
    PROVE  /\ Sized(Where(s, S)) /\ \A k \in 0 .. Len(s) : Sized(Part(s, k))
           /\ \A x \in ToSet(s) : x.size \in Nat
<1>1. IsSequence(s) /\ Len(s) \in Nat /\ ToSet(s) = {s[i] : i \in 1 .. Len(s)}
    <2>1. s \in Seq(ToSet(s))
        BY DEF Sized, IsSequence
    <2> QED BY <2>1, SequenceFrom DEF Sized
<1>2. \A x \in ToSet(s) : x.size \in Nat
    BY <1>1 DEF Sized
<1>3. Sized(Where(s, S))
    <2>1. PICK w : w = Where(s, S) /\ IsSequence(w) /\ ToSet(w) \subseteq ToSet(s)
        BY <1>1, WhereKeeps
    <2>2. w \in Seq(ToSet(w))
        BY <2>1 DEF IsSequence
    <2>3. \A i \in 1 .. Len(w) : w[i] \in ToSet(w)
        BY <2>2, SequenceFrom
    <2> QED BY <1>2, <2>1, <2>3 DEF Sized
<1>4. ASSUME NEW k \in 0 .. Len(s) PROVE Sized(Part(s, k))
    <2>1. IsSequence(Part(s, k)) /\ Len(Part(s, k)) = k
        BY <1>1, PartMore
    <2>2. \A i \in 1 .. k : Part(s, k)[i] = s[i] /\ i \in 1 .. Len(s)
        BY <1>1 DEF Part
    <2> QED BY <2>1, <2>2 DEF Sized
<1> QED BY <1>2, <1>3, <1>4

\* One more section adds its size to what is required, if its item is.
LEMMA MandatoryMore ==
    ASSUME NEW s, Sized(s), NEW x, x.size \in Nat, NEW items
    PROVE  /\ mandatory_size(s, items) \in Nat /\ Weight(x, items) \in Nat
           /\ mandatory_size(Append(s, x), items) = mandatory_size(s, items) + Weight(x, items)
<1> DEFINE R(t) == {y \in ToSet(t) : is_required(items, y.item)}
           t == Append(s, x)
<1>1. IsSequence(s) /\ IsSequence(t) /\ ToSet(t) = ToSet(s) \cup {x}
    BY SequencesMore DEF Sized
<1>2. Where(s, R(t)) = Where(s, R(s))
    <2>1. \A y \in ToSet(s) : y \in R(t) <=> y \in R(s)
        BY <1>1
    <2> HIDE DEF R, t
    <2> QED BY <1>1, <2>1, WhereSame
<1>3. Where(t, R(t)) = IF x \in R(t) THEN Append(Where(s, R(t)), x) ELSE Where(s, R(t))
    <2> HIDE DEF R
    <2> QED BY <1>1, WhereMore
<1>4. x \in R(t) <=> is_required(items, x.item)
    BY <1>1
<1>5. mandatory_size(s, items) = Total(Where(s, R(s))) /\ mandatory_size(t, items) = Total(Where(t, R(t)))
    BY DEF mandatory_size
<1>6. Sized(Where(s, R(s)))
    <2> HIDE DEF R
    <2> QED BY SizedParts
<1> HIDE DEF R
<1>7. PICK w : w = Where(s, R(s)) /\ Sized(w)
    BY <1>6
<1>8. Total(w) \in Nat /\ Total(Append(w, x)) = Total(w) + x.size
    BY <1>7, TotalMore
<1>9. CASE is_required(items, x.item)
    BY <1>2, <1>3, <1>4, <1>5, <1>7, <1>8, <1>9 DEF Weight
<1>10. CASE ~is_required(items, x.item)
    BY <1>2, <1>3, <1>4, <1>5, <1>7, <1>8, <1>10 DEF Weight
<1> QED BY <1>9, <1>10

\* Nothing requires nothing.
LEMMA MandatoryNone ==
    ASSUME NEW items
    PROVE  mandatory_size(<<>>, items) = 0
<1>1. PICK S : mandatory_size(<<>>, items) = Total(Where(<<>>, S))
    BY DEF mandatory_size
<1> QED BY <1>1, WhereNone, TotalNone

\* Sections that differ in neither item nor size take as much.
LEMMA MandatoryAlike ==
    ASSUME NEW s, Sized(s), NEW t, Sized(t), Len(s) = Len(t),
           \A n \in 1 .. Len(s) : s[n].item = t[n].item /\ s[n].size = t[n].size, NEW items
    PROVE  mandatory_size(s, items) = mandatory_size(t, items)
<1> DEFINE M(p) == mandatory_size(p, items)
           Good == {k \in 0 .. Len(s) : M(Part(s, k)) = M(Part(t, k))}
<1>0. IsSequence(s) /\ IsSequence(t) /\ Len(s) \in Nat
    BY PartMore DEF Sized
<1>1. 0 \in Good
    BY <1>0, PartMore, MandatoryNone
<1>2. ASSUME NEW k \in 1 .. Len(s), k - 1 \in Good PROVE k \in Good
    <2>1. k - 1 \in 0 .. Len(s) /\ k \in 0 .. Len(s)
        BY <1>0
    <2>2. PICK p, q : p = Part(s, k - 1) /\ q = Part(t, k - 1)
        OBVIOUS
    <2>3. Sized(p) /\ Sized(q) /\ s[k].size \in Nat /\ t[k].size \in Nat
        <3>1. Sized(Part(s, k - 1)) /\ Sized(Part(t, k - 1))
            BY <2>1, SizedParts
        <3> QED BY <2>2, <3>1 DEF Sized
    <2>4. Part(s, k) = Append(p, s[k]) /\ Part(t, k) = Append(q, t[k])
        BY <1>0, <2>2, PartMore
    <2>5. M(p) = M(q)
        BY <1>2, <2>2
    <2> HIDE DEF Good
    <2>6. M(Append(p, s[k])) = M(p) + Weight(s[k], items) /\ M(Append(q, t[k])) = M(q) + Weight(t[k], items)
        BY <2>3, MandatoryMore
    <2>7. Weight(s[k], items) = Weight(t[k], items)
        BY DEF Weight
    <2>8. M(Part(s, k)) = M(Part(t, k))
        BY <2>4, <2>5, <2>6, <2>7
    <2> QED BY <2>1, <2>8 DEF Good
<1>3. Len(s) \in Good
    <2> HIDE DEF Good
    <2>2. \A k \in 0 .. Len(s) : k \in Good
        BY <1>0, <1>1, <1>2, CountUp
    <2> QED BY <1>0, <2>2
<1>4. M(Part(s, Len(s))) = M(Part(t, Len(t)))
    BY <1>3
<1> QED BY <1>0, <1>4, PartMore

\* f[k] is the room that k sections leave, for k up to n, where room is what those of
\* required items leave of the capacity.
IsRoom(f, sections, items, room, n) ==
    f = [k \in 0 .. n |->
            IF k = 0 THEN room
            ELSE IF /\ Carried(sections[k]) /\ ~(Carried(sections[k]) /\ is_required(items, sections[k].item))
                    /\ sections[k].size <= f[k - 1]
                 THEN f[k - 1] - sections[k].size ELSE f[k - 1]]

\* There is a function that gives out the room, section by section.
LEMMA RoomRuns ==
    ASSUME NEW s, NEW items, NEW room, NEW n \in Nat
    PROVE  \E f : IsRoom(f, s, items, room, n)
<1> DEFINE Runs == {m \in 0 .. n : \E f : IsRoom(f, s, items, room, m)}
           Extra(x) == Carried(x) /\ ~(Carried(x) /\ is_required(items, x.item))
           Then(a, x) == IF Extra(x) /\ x.size <= a THEN a - x.size ELSE a
<1>0. \A f, m : IsRoom(f, s, items, room, m) <=> f = [k \in 0 .. m |-> IF k = 0 THEN room ELSE Then(f[k - 1], s[k])]
    BY Zenon DEF IsRoom
<1> HIDE DEF Then
<1>1. 0 \in Runs
    <2> DEFINE f == [k \in 0 .. 0 |-> room]
    <2>1. f = [k \in 0 .. 0 |-> IF k = 0 THEN room ELSE Then(f[k - 1], s[k])]
        OBVIOUS
    <2> HIDE DEF f
    <2>2. IsRoom(f, s, items, room, 0)
        BY <1>0, <2>1
    <2> QED BY <2>2
<1>2. ASSUME NEW m \in 1 .. n, m - 1 \in Runs PROVE m \in Runs
    <2>1. PICK f : IsRoom(f, s, items, room, m - 1)
        BY <1>2
    <2> DEFINE last == Then(f[m - 1], s[m])
               g == [k \in 0 .. m |-> IF k = m THEN last ELSE f[k]]
    <2>2. \A k \in 0 .. m - 1 : f[k] = IF k = 0 THEN room ELSE Then(f[k - 1], s[k])
        <3>1. f = [k \in 0 .. m - 1 |-> IF k = 0 THEN room ELSE Then(f[k - 1], s[k])]
            BY <1>0, <2>1
        <3> QED BY <3>1
    <2>3. ASSUME NEW k \in 0 .. m
          PROVE  g[k] = IF k = 0 THEN room ELSE Then(g[k - 1], s[k])
        <3>1. CASE k = m
            <4>1. g[k] = last /\ g[k - 1] = f[m - 1] /\ k # 0
                BY <3>1
            <4> HIDE DEF g
            <4> QED BY <3>1, <4>1
        <3>2. CASE k # m
            <4>1. k \in 0 .. m - 1 /\ g[k] = f[k] /\ (k # 0 => g[k - 1] = f[k - 1])
                BY <3>2
            <4> HIDE DEF g
            <4> QED BY <2>2, <4>1
        <3> QED BY <3>1, <3>2
    <2>4. g = [k \in 0 .. m |-> g[k]]
        OBVIOUS
    <2> HIDE DEF g
    <2>5. g = [k \in 0 .. m |-> IF k = 0 THEN room ELSE Then(g[k - 1], s[k])]
        BY <2>3, <2>4
    <2>6. IsRoom(g, s, items, room, m)
        BY <1>0, <2>5
    <2> QED BY <2>6
<1>3. n \in Runs
    <2> HIDE DEF Runs
    <2>1. \A k \in 0 .. n : k \in Runs
        BY <1>1, <1>2, CountUp
    <2> QED BY <2>1
<1> QED BY <1>3

\* What is carried for required items is within what they take.
LEMMA NeededFits ==
    ASSUME NEW s, Sized(s), NEW items,
           NEW S, \A x \in S : is_required(items, x.item)
    PROVE  /\ \A k \in 0 .. Len(s) : Total(Where(Part(s, k), S)) \in Nat
           /\ Total(Where(s, S)) <= mandatory_size(s, items) /\ mandatory_size(s, items) \in Nat
<1> DEFINE M(p) == mandatory_size(p, items)
           N(p) == Total(Where(p, S))
           Fits(p) == N(p) \in Nat /\ M(p) \in Nat /\ N(p) <= M(p)
           Good == {k \in 0 .. Len(s) : Fits(Part(s, k))}
<1>0. IsSequence(s) /\ Len(s) \in Nat
    BY PartMore DEF Sized
<1>1. 0 \in Good
    <2>1. Fits(<<>>)
        BY MandatoryNone, WhereNone, TotalNone
    <2> HIDE DEF Fits
    <2> QED BY <1>0, <2>1, PartMore
<1>2. ASSUME NEW k \in 1 .. Len(s), k - 1 \in Good PROVE k \in Good
    <2>1. k - 1 \in 0 .. Len(s) /\ k \in 0 .. Len(s)
        BY <1>0
    <2>2. PICK p, x : p = Part(s, k - 1) /\ x = s[k]
        OBVIOUS
    <2>3. Sized(p) /\ x.size \in Nat
        <3>1. Sized(Part(s, k - 1))
            BY <2>1, SizedParts
        <3> QED BY <2>2, <3>1 DEF Sized
    <2>4. Part(s, k) = Append(p, x)
        BY <1>0, <2>2, PartMore
    <2>5. Fits(p)
        BY <1>2, <2>2
    <2>6. M(Append(p, x)) = M(p) + Weight(x, items) /\ Weight(x, items) \in Nat
        BY <2>3, MandatoryMore
    <2>7. Where(Append(p, x), S) = IF x \in S THEN Append(Where(p, S), x) ELSE Where(p, S)
        BY <2>3, WhereMore DEF Sized
    <2>8. Sized(Where(p, S))
        BY <2>3, SizedParts
    <2>9. Total(Append(Where(p, S), x)) = Total(Where(p, S)) + x.size
        BY <2>3, <2>8, TotalMore
    <2>10. x \in S => Weight(x, items) = x.size
        BY DEF Weight
    <2>11. Fits(Append(p, x))
        <3>1. CASE x \in S
            BY <2>3, <2>5, <2>6, <2>7, <2>9, <2>10, <3>1
        <3>2. CASE x \notin S
            BY <2>3, <2>5, <2>6, <2>7, <3>2
        <3> QED BY <3>1, <3>2
    <2> HIDE DEF Fits
    <2> QED BY <2>1, <2>4, <2>11
<1>3. \A k \in 0 .. Len(s) : k \in Good
    <2> HIDE DEF Good
    <2> QED BY <1>0, <1>1, <1>2, CountUp
<1>4. Part(s, Len(s)) = s /\ Len(s) \in 0 .. Len(s)
    BY <1>0, PartMore
<1>5. Fits(s)
    <2> HIDE DEF Fits
    <2> QED BY <1>3, <1>4
<1> QED BY <1>3, <1>5

\* A packet fits, if what required items take does.
LEMMA PacketFits ==
    ASSUME NEW sections, Sized(sections), NEW items, NEW capacity \in Nat,
           mandatory_size(sections, items) <= capacity,
           NEW corrections, NEW unmet, NEW reason,
           NEW packet, packet = compile_packet(sections, items, capacity, corrections, unmet, reason)
    PROVE  Total(packet.sections) <= capacity
<1> DEFINE in == inclusion(sections, items, capacity)
           all == [n \in DOMAIN sections |-> n]
           Needed(x) == Carried(x) /\ is_required(items, x.item)
           S == {x \in ToSet(sections) : Needed(x)}
           reserved == Total(Where(sections, S))
           n == Len(sections)
           Gather(c) == [m \in DOMAIN c |-> sections[c[m]]]
<1>1. packet.sections = Gather(Where(all, in))
    BY DEF compile_packet
<1>2. IsSequence(sections) /\ n \in Nat /\ DOMAIN sections = 1 .. n
    BY PartMore DEF Sized, IsSequence
<1>3. IsSequence(all) /\ Len(all) = n /\ \A k \in 1 .. n : all[k] = k
    <2>1. all \in Seq(Nat) /\ Len(all) = n
        BY <1>2
    <2>2. \A k \in 1 .. n : all[k] = k
        BY <1>2
    <2> HIDE DEF all
    <2> QED BY <2>1, <2>2, SequenceFrom
<1>21. \A k \in 1 .. n : IsSequence(Part(all, k - 1)) /\ Part(all, k) = Append(Part(all, k - 1), k)
    <2> HIDE DEF all
    <2> TAKE k \in 1 .. n
    <2>1. k - 1 \in 0 .. Len(all) /\ k \in 1 .. Len(all) /\ all[k] = k
        BY <1>2, <1>3
    <2>2. IsSequence(Part(all, k - 1))
        BY <1>3, <2>1, PartMore
    <2>3. Part(all, k) = Append(Part(all, k - 1), all[k])
        BY <1>3, <2>1, PartMore
    <2> QED BY <2>1, <2>2, <2>3
<1>4. /\ \A k \in 0 .. n : Total(Where(Part(sections, k), S)) \in Nat
      /\ reserved <= mandatory_size(sections, items) /\ mandatory_size(sections, items) \in Nat
    <2>1. \A x \in S : is_required(items, x.item)
        OBVIOUS
    <2> HIDE DEF S
    <2> QED BY <2>1, NeededFits
<1>5. PICK f : /\ IsRoom(f, sections, items, capacity - reserved, n)
               /\ in = {k \in DOMAIN sections :
                           Needed(sections[k]) \/ (Carried(sections[k]) /\ sections[k].size <= f[k - 1])}
    <2>1. \E f : IsRoom(f, sections, items, capacity - reserved, n)
        BY <1>2, RoomRuns
    <2>2. in = {k \in DOMAIN sections :
                  Needed(sections[k])
                    \/ (Carried(sections[k])
                        /\ sections[k].size <= (CHOOSE f : IsRoom(f, sections, items, capacity - reserved, n))[k - 1])}
        BY Zenon DEF inclusion, IsRoom
    <2> HIDE DEF in, reserved, n
    <2> QED BY <2>1, <2>2
<1>6. \A k \in 0 .. n :
          f[k] = IF k = 0 THEN capacity - reserved
                 ELSE IF Carried(sections[k]) /\ ~Needed(sections[k]) /\ sections[k].size <= f[k - 1]
                      THEN f[k - 1] - sections[k].size ELSE f[k - 1]
    <2> HIDE DEF reserved, n
    <2> QED BY <1>5 DEF IsRoom
<1>7. \A k \in 1 .. n : sections[k].size \in Nat /\ sections[k] \in ToSet(sections)
    <2>1. \A k \in 1 .. n : sections[k] \in ToSet(sections)
        BY <1>2 DEF IsSequence
    <2> QED BY <2>1 DEF Sized
<1>8. reserved \in Nat /\ capacity - reserved \in Nat
    <2>1. reserved = Total(Where(Part(sections, n), S)) /\ n \in 0 .. n
        BY <1>2, PartMore
    <2> HIDE DEF reserved, S, n
    <2> QED BY <1>4, <2>1
<1> DEFINE N(k) == Total(Where(Part(sections, k), S))
           C(k) == Where(Part(all, k), in)
           Fits(k) == /\ IsSequence(C(k)) /\ Sized(Gather(C(k))) /\ f[k] \in Nat
                      /\ Total(Gather(C(k))) = N(k) + (capacity - reserved) - f[k]
           Good == {k \in 0 .. n : Fits(k)}
<1>9. \A k \in 0 .. n : N(k) \in Nat
    BY <1>4
<1>10. \A k \in 1 .. n : N(k) = IF sections[k] \in S THEN N(k - 1) + sections[k].size ELSE N(k - 1)
    <2> TAKE k \in 1 .. n
    <2>1. k - 1 \in 0 .. n
        BY <1>2
    <2>2. PICK p, x : p = Part(sections, k - 1) /\ x = sections[k]
        OBVIOUS
    <2>3. Part(sections, k) = Append(p, x)
        BY <1>2, <2>2, PartMore
    <2>4. Sized(p) /\ x.size \in Nat
        <3>1. Sized(Part(sections, k - 1))
            BY <2>1, SizedParts
        <3> QED BY <1>7, <2>2, <3>1
    <2> HIDE DEF S
    <2>5. Where(Append(p, x), S) = IF x \in S THEN Append(Where(p, S), x) ELSE Where(p, S)
        BY <2>4, WhereMore DEF Sized
    <2>6. Sized(Where(p, S))
        BY <2>4, SizedParts
    <2>7. Total(Append(Where(p, S), x)) = Total(Where(p, S)) + x.size
        BY <2>4, <2>6, TotalMore
    <2> QED BY <2>2, <2>3, <2>5, <2>7
<1>11. \A k \in 1 .. n : sections[k] \in S <=> Needed(sections[k])
    BY <1>7
<1>12. \A k \in 1 .. n : k \in in <=> Needed(sections[k]) \/ (Carried(sections[k]) /\ sections[k].size <= f[k - 1])
    <2> HIDE DEF in, n, Needed
    <2> QED BY <1>2, <1>5
<1>13. N(0) = 0 /\ IsSequence(C(0)) /\ Sized(Gather(C(0))) /\ Total(Gather(C(0))) = 0
    <2>1. Part(sections, 0) = <<>> /\ Part(all, 0) = <<>>
        <3> HIDE DEF all
        <3> QED BY <1>2, <1>3, PartMore
    <2>2. C(0) = <<>>
        <3> HIDE DEF in, all
        <3> QED BY <2>1, WhereNone
    <2>3. Gather(<<>>) = <<>>
        OBVIOUS
    <2> HIDE DEF C, Gather, S
    <2> QED BY <2>1, <2>2, <2>3, WhereNone, TotalNone, EmptySequence
<1>14. ASSUME NEW k \in 1 .. n, IsSequence(C(k - 1)), k \in in
       PROVE  IsSequence(C(k)) /\ Gather(C(k)) = Append(Gather(C(k - 1)), sections[k])
    <2>1. PICK p : p = Part(all, k - 1)
        OBVIOUS
    <2>2. IsSequence(p) /\ Part(all, k) = Append(p, k)
        <3> HIDE DEF all, n
        <3> QED BY <1>21, <2>1
    <2>3. C(k) = Append(C(k - 1), k)
        <3> HIDE DEF in, all, n
        <3> QED BY <1>14, <2>1, <2>2, WhereMore
    <2>4. PICK c, d : c = C(k - 1) /\ d = C(k)
        OBVIOUS
    <2> HIDE DEF C, in, n
    <2>5. /\ IsSequence(d) /\ Len(d) = Len(c) + 1 /\ Len(c) \in Nat /\ DOMAIN c = 1 .. Len(c)
          /\ \A i \in 1 .. Len(c) : d[i] = c[i]
          /\ d[Len(c) + 1] = k
        <3>1. IsSequence(c) /\ d = Append(c, k)
            BY <1>14, <2>3, <2>4
        <3> QED BY <3>1, SequencesMore
    <2>6. DOMAIN d = 1 .. Len(c) + 1
        BY <2>5 DEF IsSequence
    <2>7. PICK a, b, x : a = Gather(c) /\ b = Gather(d) /\ x = sections[k]
        OBVIOUS
    <2>8. /\ DOMAIN a = 1 .. Len(c) /\ DOMAIN b = 1 .. Len(c) + 1
          /\ \A i \in 1 .. Len(c) : b[i] = a[i]
          /\ b[Len(c) + 1] = x
          /\ a = [i \in 1 .. Len(c) |-> a[i]] /\ b = [i \in 1 .. Len(c) + 1 |-> b[i]]
        BY <2>5, <2>6, <2>7
    <2> HIDE DEF Gather
    <2>9. b = Append(a, x)
        <3>1. PICK T : T = {a[i] : i \in 1 .. Len(c)} \cup {x}
            OBVIOUS
        <3>2. a \in Seq(T) /\ Len(a) = Len(c) /\ b \in Seq(T) /\ Len(b) = Len(c) + 1
            BY <2>5, <2>8, <3>1
        <3> QED BY <2>5, <2>8, <3>2
    <2> QED BY <2>4, <2>5, <2>7, <2>9
<1>15. ASSUME NEW k \in 1 .. n, IsSequence(C(k - 1)), k \notin in PROVE C(k) = C(k - 1)
    <2>1. PICK p : p = Part(all, k - 1)
        OBVIOUS
    <2>2. IsSequence(p) /\ Part(all, k) = Append(p, k)
        <3> HIDE DEF all, n
        <3> QED BY <1>21, <2>1
    <2> HIDE DEF in, all, n
    <2> QED BY <1>15, <2>1, <2>2, WhereMore
<1>16. 0 \in Good
    <2>1. f[0] = capacity - reserved
        <3>1. 0 \in 0 .. n
            BY <1>2
        <3> HIDE DEF reserved, n
        <3> QED BY <1>6, <3>1
    <2> HIDE DEF N, C, reserved, Gather
    <2>2. Fits(0)
        BY <1>8, <1>13, <2>1
    <2> HIDE DEF Fits
    <2> QED BY <1>2, <2>2
<1>17. ASSUME NEW k \in 1 .. n, k - 1 \in Good PROVE k \in Good
    <2>0. k \in 0 .. n /\ k # 0 /\ k - 1 \in 0 .. n
        BY <1>2
    <2>1. Fits(k - 1)
        BY <1>17
    <2> HIDE DEF N, C, reserved, Gather, S, in, n, Good
    <2>2. IsSequence(C(k - 1)) /\ Sized(Gather(C(k - 1))) /\ f[k - 1] \in Nat
          /\ Total(Gather(C(k - 1))) = N(k - 1) + (capacity - reserved) - f[k - 1]
        BY <2>1
    <2> DEFINE x == sections[k]
    <2>3. x.size \in Nat
        BY <1>7
    <2>4. f[k] = IF Carried(x) /\ ~Needed(x) /\ x.size <= f[k - 1] THEN f[k - 1] - x.size ELSE f[k - 1]
        BY <1>6, <2>0
    <2>5. N(k) = IF Needed(x) THEN N(k - 1) + x.size ELSE N(k - 1)
        BY <1>10, <1>11
    <2>6. k \in in <=> Needed(x) \/ (Carried(x) /\ x.size <= f[k - 1])
        BY <1>12
    <2>7. N(k) \in Nat /\ N(k - 1) \in Nat
        BY <1>9, <2>0
    <2>8. k \in in => /\ IsSequence(C(k)) /\ Sized(Gather(C(k)))
                      /\ Total(Gather(C(k))) = Total(Gather(C(k - 1))) + x.size
        <3> SUFFICES ASSUME k \in in PROVE /\ IsSequence(C(k)) /\ Sized(Gather(C(k)))
                                           /\ Total(Gather(C(k))) = Total(Gather(C(k - 1))) + x.size
            OBVIOUS
        <3>1. IsSequence(C(k)) /\ Gather(C(k)) = Append(Gather(C(k - 1)), x)
            BY <1>14, <2>2
        <3>2. PICK a : a = Gather(C(k - 1))
            OBVIOUS
        <3>3. Sized(Append(a, x)) /\ Total(Append(a, x)) = Total(a) + x.size
            BY <2>2, <2>3, <3>2, TotalMore
        <3> QED BY <3>1, <3>2, <3>3
    <2>9. k \notin in => C(k) = C(k - 1)
        BY <1>15, <2>2
    <2> HIDE DEF Needed, x
    <2>10. Fits(k)
        <3>1. CASE Needed(x)
            BY <1>8, <2>2, <2>3, <2>4, <2>5, <2>6, <2>7, <2>8, <3>1
        <3>2. CASE ~Needed(x) /\ Carried(x) /\ x.size <= f[k - 1]
            BY <1>8, <2>2, <2>3, <2>4, <2>5, <2>6, <2>7, <2>8, <3>2
        <3>3. CASE ~Needed(x) /\ ~(Carried(x) /\ x.size <= f[k - 1])
            BY <1>8, <2>2, <2>3, <2>4, <2>5, <2>6, <2>7, <2>9, <3>3
        <3> QED BY <3>1, <3>2, <3>3
    <2> HIDE DEF Fits
    <2> QED BY <2>0, <2>10 DEF Good
<1>18. Fits(n) /\ n \in 0 .. n
    <2>1. n \in 0 .. n
        BY <1>2
    <2> HIDE DEF Good, n
    <2>2. \A k \in 0 .. n : k \in Good
        BY <1>2, <1>16, <1>17, CountUp
    <2>3. n \in Good
        BY <2>1, <2>2
    <2> QED BY <2>1, <2>3 DEF Good
<1>19. Part(all, n) = all /\ Part(sections, n) = sections
    <2> HIDE DEF all
    <2> QED BY <1>2, <1>3, PartMore
<1>20. N(n) = reserved /\ C(n) = Where(all, in)
    BY <1>19
<1> HIDE DEF N, C, reserved, Gather, n, in, all, S
<1> QED BY <1>1, <1>8, <1>18, <1>20

-----------------------------------------------------------------------------
(* What the sections of a script take.                                     *)

ScriptOK(s) == IsSequence(s) /\ \A n \in 1 .. Len(s) : s[n][1] = "section" => s[n][2].size \in Nat

Needs(s, items) == mandatory_size(Sections(s), items)

StepWeight(x, items) == IF x[1] = "section" THEN Weight(x[2], items) ELSE 0

\* One more step adds its section, if it has one.
LEMMA SectionsMore ==
    ASSUME NEW s, IsSequence(s), NEW x
    PROVE  Sections(Append(s, x)) = IF x[1] = "section" THEN Append(Sections(s), x[2]) ELSE Sections(s)
<1> DEFINE R(t) == {y \in ToSet(t) : y[1] = "section"}
           t == Append(s, x)
           Gather(c) == [n \in DOMAIN c |-> c[n][2]]
<1>1. IsSequence(t) /\ ToSet(t) = ToSet(s) \cup {x}
    BY SequencesMore
<1>2. Where(s, R(t)) = Where(s, R(s))
    <2>1. \A y \in ToSet(s) : y \in R(t) <=> y \in R(s)
        BY <1>1
    <2> HIDE DEF R, t
    <2> QED BY <2>1, WhereSame
<1>3. Where(t, R(t)) = IF x \in R(t) THEN Append(Where(s, R(t)), x) ELSE Where(s, R(t))
    <2> HIDE DEF R
    <2> QED BY WhereMore
<1>4. x \in R(t) <=> x[1] = "section"
    BY <1>1
<1>5. Sections(s) = Gather(Where(s, R(s))) /\ Sections(t) = Gather(Where(t, R(t)))
    BY DEF Sections
<1>6. PICK c : c = Where(s, R(s)) /\ IsSequence(c)
    <2> HIDE DEF R
    <2> QED BY WhereKeeps
<1>7. Gather(Append(c, x)) = Append(Gather(c), x[2])
    <2>1. PICK d : d = Append(c, x)
        OBVIOUS
    <2>2. /\ IsSequence(d) /\ Len(d) = Len(c) + 1 /\ Len(c) \in Nat /\ DOMAIN c = 1 .. Len(c)
          /\ \A i \in 1 .. Len(c) : d[i] = c[i]
          /\ d[Len(c) + 1] = x
        BY <1>6, <2>1, SequencesMore
    <2>3. DOMAIN d = 1 .. Len(c) + 1
        BY <2>2 DEF IsSequence
    <2>4. PICK a, b, e : a = Gather(c) /\ b = Gather(d) /\ e = x[2]
        OBVIOUS
    <2>5. /\ DOMAIN a = 1 .. Len(c) /\ DOMAIN b = 1 .. Len(c) + 1
          /\ \A i \in 1 .. Len(c) : b[i] = a[i]
          /\ b[Len(c) + 1] = e
          /\ a = [i \in 1 .. Len(c) |-> a[i]] /\ b = [i \in 1 .. Len(c) + 1 |-> b[i]]
        BY <2>2, <2>3, <2>4
    <2> HIDE DEF Gather, R, t
    <2>6. b = Append(a, e)
        <3>1. PICK T : T = {a[i] : i \in 1 .. Len(c)} \cup {e}
            OBVIOUS
        <3>2. a \in Seq(T) /\ Len(a) = Len(c) /\ b \in Seq(T) /\ Len(b) = Len(c) + 1
            <4>1. PICK m : m = Len(c) /\ m \in Nat
                BY <2>2
            <4>2. a = [i \in 1 .. m |-> a[i]] /\ b = [i \in 1 .. m + 1 |-> b[i]]
                BY <2>5, <4>1
            <4>3. \A i \in 1 .. m : a[i] \in T
                BY <3>1, <4>1
            <4>4. \A i \in 1 .. m + 1 : b[i] \in T
                BY <2>5, <3>1, <4>1
            <4>5. a \in Seq(T) /\ Len(a) = m
                BY <4>1, <4>2, <4>3
            <4>6. b \in Seq(T) /\ Len(b) = m + 1
                <5>1. m + 1 \in Nat
                    BY <4>1
                <5> QED BY <4>2, <4>4, <5>1
            <4> QED BY <4>1, <4>5, <4>6
        <3> QED BY <2>2, <2>5, <3>2
    <2> QED BY <2>1, <2>4, <2>6
<1> HIDE DEF R, Gather
<1>8. CASE x[1] = "section"
    BY <1>2, <1>3, <1>4, <1>5, <1>6, <1>7, <1>8
<1>9. CASE x[1] # "section"
    BY <1>2, <1>3, <1>4, <1>5, <1>6, <1>9
<1> QED BY <1>8, <1>9

\* Without steps there are no sections.
LEMMA SectionsNone == Sections(<<>>) = <<>>
<1>1. PICK S : Sections(<<>>) = [n \in DOMAIN Where(<<>>, S) |-> Where(<<>>, S)[n][2]]
    BY DEF Sections
<1>2. Where(<<>>, S) = <<>>
    BY WhereNone
<1>3. [n \in DOMAIN <<>> |-> <<>>[n][2]] = <<>>
    OBVIOUS
<1> QED BY <1>1, <1>2, <1>3

\* A script without steps needs no room.
LEMMA NeedsNone ==
    ASSUME NEW items
    PROVE  Needs(<<>>, items) = 0
BY SectionsNone, MandatoryNone DEF Needs

\* What the sections of a script take grows with every step.
LEMMA NeedsMore ==
    ASSUME NEW s, ScriptOK(s), NEW items
    PROVE  /\ Sized(Sections(s))
           /\ \A k \in 0 .. Len(s) : Needs(Part(s, k), items) \in Nat
           /\ \A k \in 1 .. Len(s) : /\ StepWeight(s[k], items) \in Nat
                                    /\ Needs(Part(s, k), items) = Needs(Part(s, k - 1), items) + StepWeight(s[k], items)
           /\ Part(s, Len(s)) = s /\ Len(s) \in Nat
<1>0. IsSequence(s) /\ Len(s) \in Nat /\ Part(s, 0) = <<>> /\ Part(s, Len(s)) = s
    BY PartMore DEF ScriptOK
<1> DEFINE Good == {k \in 0 .. Len(s) : Sized(Sections(Part(s, k))) /\ Needs(Part(s, k), items) \in Nat}
<1>1. 0 \in Good
    BY <1>0, SectionsNone, NeedsNone, TotalNone
<1>2. ASSUME NEW k \in 1 .. Len(s), Sized(Sections(Part(s, k - 1)))
      PROVE  /\ Sized(Sections(Part(s, k))) /\ Needs(Part(s, k), items) \in Nat
             /\ StepWeight(s[k], items) \in Nat
             /\ Needs(Part(s, k), items) = Needs(Part(s, k - 1), items) + StepWeight(s[k], items)
    <2>1. k - 1 \in 0 .. Len(s)
        BY <1>0
    <2>2. PICK p, x : p = Part(s, k - 1) /\ x = s[k]
        OBVIOUS
    <2>3. IsSequence(p) /\ Part(s, k) = Append(p, x)
        <3>1. IsSequence(Part(s, k - 1))
            BY <1>0, <2>1, PartMore
        <3> QED BY <1>0, <2>2, <3>1, PartMore
    <2>4. x[1] = "section" => x[2].size \in Nat
        BY <2>2 DEF ScriptOK
    <2>5. Sections(Append(p, x)) = IF x[1] = "section" THEN Append(Sections(p), x[2]) ELSE Sections(p)
        BY <2>3, SectionsMore
    <2>6. PICK u, y : u = Sections(p) /\ Sized(u) /\ y = x[2]
        BY <1>2, <2>2
    <2>7. mandatory_size(u, items) \in Nat
        <3>1. PICK z : z.size \in Nat
            <4>1. [size |-> 0].size \in Nat
                OBVIOUS
            <4> QED BY <4>1
        <3> QED BY <2>6, <3>1, MandatoryMore
    <2>8. CASE x[1] = "section"
        <3>1. /\ Sized(Append(u, y)) /\ Weight(y, items) \in Nat
              /\ mandatory_size(Append(u, y), items) = mandatory_size(u, items) + Weight(y, items)
            BY <2>4, <2>6, <2>8, TotalMore, MandatoryMore
        <3>2. Sections(Part(s, k)) = Append(u, y)
            BY <2>3, <2>5, <2>6, <2>8
        <3>3. StepWeight(s[k], items) = Weight(y, items)
            BY <2>2, <2>6, <2>8 DEF StepWeight
        <3> QED BY <2>2, <2>6, <2>7, <3>1, <3>2, <3>3 DEF Needs
    <2>9. CASE x[1] # "section"
        <3>1. Sections(Part(s, k)) = u
            BY <2>3, <2>5, <2>6, <2>9
        <3>2. StepWeight(s[k], items) = 0
            BY <2>2, <2>9 DEF StepWeight
        <3> QED BY <2>2, <2>6, <2>7, <3>1, <3>2 DEF Needs
    <2> QED BY <2>8, <2>9
<1>3. ASSUME NEW k \in 1 .. Len(s), k - 1 \in Good PROVE k \in Good
    <2>1. k \in 0 .. Len(s)
        BY <1>0
    <2> QED BY <1>2, <1>3, <2>1
<1>4. \A k \in 0 .. Len(s) : Sized(Sections(Part(s, k))) /\ Needs(Part(s, k), items) \in Nat
    <2>1. \A k \in 0 .. Len(s) : k \in Good
        <3> HIDE DEF Good
        <3> QED BY <1>0, <1>1, <1>3, CountUp
    <2> QED BY <2>1
<1>5. Sized(Sections(s))
    BY <1>0, <1>4
<1>6. \A k \in 1 .. Len(s) : k - 1 \in 0 .. Len(s)
    BY <1>0
<1>7. \A k \in 1 .. Len(s) : /\ StepWeight(s[k], items) \in Nat
                            /\ Needs(Part(s, k), items) = Needs(Part(s, k - 1), items) + StepWeight(s[k], items)
    BY <1>2, <1>4, <1>6
<1> QED BY <1>0, <1>4, <1>5, <1>7

\* The first steps of a script need no more than all of them.
LEMMA NeedsWithin ==
    ASSUME NEW s, ScriptOK(s), NEW items, NEW c \in 0 .. Len(s)
    PROVE  Needs(Part(s, c), items) <= Needs(s, items) /\ Needs(s, items) \in Nat
<1> DEFINE n == Len(s)
           N(k) == Needs(Part(s, k), items)
           Good == {d \in 0 .. n - c : N(c) <= N(c + d)}
<1>1. /\ n \in Nat /\ Part(s, n) = s
      /\ \A k \in 0 .. n : N(k) \in Nat
      /\ \A k \in 1 .. n : StepWeight(s[k], items) \in Nat /\ N(k) = N(k - 1) + StepWeight(s[k], items)
    BY NeedsMore
<1> HIDE DEF N, n
<1>2. 0 \in Good
    BY <1>1 DEF n
<1>3. ASSUME NEW d \in 1 .. n - c, d - 1 \in Good PROVE d \in Good
    <2>1. /\ c + d \in 1 .. n /\ c + d \in 0 .. n /\ (c + d) - 1 = c + (d - 1) /\ c \in 0 .. n
          /\ c + (d - 1) \in 0 .. n /\ d \in 0 .. n - c
        BY <1>1 DEF n
    <2>2. N(c + d) = N(c + (d - 1)) + StepWeight(s[c + d], items) /\ StepWeight(s[c + d], items) \in Nat
        BY <1>1, <2>1
    <2>3. N(c) <= N(c + (d - 1)) /\ N(c) \in Nat /\ N(c + (d - 1)) \in Nat
        BY <1>1, <1>3, <2>1
    <2> QED BY <2>1, <2>2, <2>3
<1>4. n - c \in Nat
    BY <1>1 DEF n
<1>5. n - c \in Good
    <2> HIDE DEF Good
    <2>1. \A d \in 0 .. n - c : d \in Good
        BY <1>2, <1>3, <1>4, CountUp
    <2> QED BY <1>4, <2>1
<1>6. N(c) <= N(n) /\ N(n) \in Nat
    <2>1. c + (n - c) = n /\ n \in 0 .. n
        BY <1>1 DEF n
    <2> QED BY <1>1, <1>5, <2>1
<1> QED BY <1>1, <1>6 DEF N

-----------------------------------------------------------------------------
(* That packets fit.                                                       *)

\* A request that shares a job has room for what the job prepares.
SharersHaveRoom ==
    \A j, r \in Request : Ask[r].shared /\ Ask[j].kind = Ask[r].kind => Ask[j].capacity <= Ask[r].capacity

\* What job j prepares is for request r.
Serves(j, r) == Ask[r].kind = Ask[j].kind /\ Ask[j].capacity <= Ask[r].capacity

\* A script whose sections are whole, and a compile its only step.
CanRun(script) ==
    /\ IsSequence(script)
    /\ \A n \in 1 .. Len(script) : /\ script[n][1] = "section" => IsSection(script[n][2])
                                   /\ script[n][1] = "compile" => Len(script) = 1

Whole(sections) == IsSequence(sections) /\ \A n \in 1 .. Len(sections) : IsSection(sections[n])

\* The record of job j: what its script makes for required items fits the job, and
\* what it has is from the steps it is past.
Fits(j, rec) ==
    /\ \A r \in ToSet(rec.requests) : Serves(j, r)
    /\ CanRun(rec.script) /\ Whole(rec.sections)
    /\ mandatory_size(rec.sections, Items(j)) <= Needs(Part(rec.script, rec.cursor - 1), Items(j))
    /\ Needs(rec.script, Items(j)) <= Ask[j].capacity

Within(reqs) ==
    \A r \in Request : \A n \in DOMAIN reqs[r].packets : Total(reqs[r].packets[n].sections) <= Capacity(r)

HeldFits(t) == Fits(Head(t.todo), t.rec) /\ Within(t.reqs)

FitInv ==
    /\ Within(req)
    /\ \A j \in Request : job[j].state # "none" => Fits(j, job[j])
    /\ tick.phase # "idle" => HeldFits(tick)

\* Those a job serves ask for the same items.
LEMMA ServesAlike ==
    ASSUME NEW j, NEW r, Serves(j, r)
    PROVE  Items(r) = Items(j)
BY DEF Serves, Items, Kind

\* Whole sections have sizes.
LEMMA WholeSized ==
    /\ \A s : Whole(s) => Sized(s)
    /\ \A s : CanRun(s) => ScriptOK(s)
BY DEF Whole, Sized, CanRun, ScriptOK, IsSection

\* What required items have fits the job.
LEMMA FitsJob ==
    ASSUME NEW j \in Request, NEW rec, JobOK(rec), Fits(j, rec)
    PROVE  /\ mandatory_size(rec.sections, Items(j)) <= Ask[j].capacity
           /\ mandatory_size(rec.sections, Items(j)) \in Nat
<1> DEFINE items == Items(j)
<1>1. rec.cursor \in 1 .. Len(rec.script) + 1 /\ Len(rec.script) \in Nat
    BY SequencesJoined DEF JobOK
<1>2. PICK c : c = rec.cursor - 1 /\ c \in 0 .. Len(rec.script)
    BY <1>1
<1>3. PICK s, x, a, b, m :
        /\ s = rec.script /\ x = rec.sections /\ a = Needs(Part(s, c), items) /\ b = Needs(s, items)
        /\ m = mandatory_size(x, items)
    OBVIOUS
<1>4. ScriptOK(s) /\ Sized(x) /\ m <= a /\ b <= Ask[j].capacity
    BY <1>2, <1>3, WholeSized DEF Fits
<1> HIDE DEF items
<1>5. a <= b /\ b \in Nat
    BY <1>2, <1>3, <1>4, NeedsWithin
<1>6. a \in Nat
    BY <1>2, <1>3, <1>4, NeedsMore
<1>7. m \in Nat
    <2>1. PICK y : y = [size |-> 0]
        OBVIOUS
    <2>2. y.size \in Nat
        BY <2>1
    <2> QED BY <1>3, <1>4, <2>2, MandatoryMore
<1>8. Ask[j].capacity \in Nat
    BY ContextAssumption
<1>9. m <= Ask[j].capacity
    BY <1>4, <1>5, <1>6, <1>7, <1>8
<1> QED BY <1>3, <1>7, <1>9 DEF items

\* A subscriber is published a packet that fits, and what a tick holds still does (publish_one).
LEMMA FitsOne ==
    ASSUME NEW t, Holding(t), HeldFits(t), NEW r \in Request, Serves(Head(t.todo), r),
           NEW reason, NEW u, u = publish_one(t, r, reason)
    PROVE  HeldFits(u)
<1>0. /\ DOMAIN t = DOMAIN NoTick /\ DOMAIN t.reqs = Request /\ JobOK(t.rec)
      /\ Head(t.todo) \in Request
      /\ RequestOK(r, t.reqs[r])
    BY DEF Holding
<1>1. PICK j, rec : j = Head(t.todo) /\ rec = t.rec /\ Fits(j, rec) /\ JobOK(rec) /\ j \in Request
    BY <1>0 DEF HeldFits
<1>2. u.rec = t.rec /\ u.todo = t.todo
    <2>1. Beside(u, t)
        BY PublishesOne
    <2> QED BY <2>1 DEF Beside
<1> DEFINE q == t.reqs[r]
<1>3. PICK packet, why :
        /\ packet = compile_packet(t.rec.sections, Items(r), Capacity(r), t.rec.corrections, t.rec.unmet, why)
        /\ Given(u, t, r, packet)
    BY PublishesAs
<1>4. Total(packet.sections) <= Capacity(r)
    <2>1. PICK sections, items, capacity, corrections, unmet :
            /\ sections = rec.sections /\ items = Items(r) /\ capacity = Capacity(r)
            /\ corrections = rec.corrections /\ unmet = rec.unmet
        OBVIOUS
    <2>2. capacity \in Nat /\ Ask[j].capacity \in Nat /\ Ask[j].capacity <= capacity
        BY <1>1, <2>1, ContextAssumption DEF Capacity, Serves
    <2>3. items = Items(j)
        BY <1>1, <2>1, ServesAlike
    <2>4. Sized(sections)
        BY <1>1, <2>1, WholeSized DEF Fits
    <2>5. mandatory_size(sections, items) <= Ask[j].capacity /\ mandatory_size(sections, items) \in Nat
        BY <1>1, <2>1, <2>3, FitsJob
    <2>6. mandatory_size(sections, items) <= capacity
        BY <2>2, <2>5
    <2>7. packet = compile_packet(sections, items, capacity, corrections, unmet, why)
        BY <1>1, <1>3, <2>1
    <2>8. Total(packet.sections) <= capacity
        BY <2>2, <2>4, <2>6, <2>7, PacketFits
    <2> QED BY <2>1, <2>8
<1>5. Within(t.reqs)
    BY DEF HeldFits
<1>6. Within(u.reqs)
    <2>1. CASE u = t
        BY <1>5, <2>1
    <2>2. CASE \E e \in Errors \ {""} : u = [t EXCEPT !.error = e]
        <3>1. u.reqs = t.reqs
            BY <1>0, <2>2 DEF NoTick
        <3> QED BY <1>5, <3>1
    <2>3. CASE \E x : u = Told(t, r, packet, x)
        <3>1. PICK x : u = Told(t, r, packet, x)
            BY <2>3
        <3>2. PICK made : made = [q EXCEPT !.packets = Append(q.packets, packet), !.state = packet.state, !.items = x]
            OBVIOUS
        <3>3. DOMAIN q = DOMAIN NoRequest /\ IsSequence(q.packets)
            BY <1>0 DEF RequestOK
        <3>4. made.packets = Append(q.packets, packet)
            BY <3>2, <3>3 DEF NoRequest
        <3>5. u.reqs = [t.reqs EXCEPT ![r] = made]
            BY <1>0, <3>1, <3>2 DEF Told, NoTick
        <3>6. u.reqs[r] = made /\ \A s \in Request \ {r} : u.reqs[s] = t.reqs[s]
            BY <1>0, <3>5
        <3>7. ASSUME NEW s \in Request, NEW n \in DOMAIN u.reqs[s].packets
              PROVE  Total(u.reqs[s].packets[n].sections) <= Capacity(s)
            <4>1. CASE s # r
                BY <1>5, <3>6, <3>7, <4>1 DEF Within
            <4>2. CASE s = r
                <5>1. PICK p, more : p = q.packets /\ more = Append(p, packet) /\ more = u.reqs[s].packets
                    BY <3>4, <3>6, <4>2
                <5>2. IsSequence(p) /\ \A m \in DOMAIN p : Total(p[m].sections) <= Capacity(r)
                    BY <1>5, <3>3, <5>1 DEF Within
                <5>3. /\ IsSequence(more) /\ Len(more) = Len(p) + 1 /\ Len(p) \in Nat /\ DOMAIN p = 1 .. Len(p)
                      /\ \A i \in 1 .. Len(p) : more[i] = p[i]
                      /\ more[Len(p) + 1] = packet
                    <6>1. PICK a : a = Append(p, packet)
                        OBVIOUS
                    <6>2. /\ IsSequence(a) /\ Len(a) = Len(p) + 1 /\ Len(p) \in Nat /\ DOMAIN p = 1 .. Len(p)
                          /\ \A i \in 1 .. Len(p) : a[i] = p[i]
                          /\ a[Len(p) + 1] = packet
                        BY <5>2, <6>1, SequencesMore
                    <6> QED BY <5>1, <6>1, <6>2
                <5>4. n \in 1 .. Len(p) + 1
                    <6>1. DOMAIN more = 1 .. Len(more)
                        BY <5>3, SequencesMore
                    <6> QED BY <3>7, <5>1, <5>3, <6>1
                <5>5. CASE n = Len(p) + 1
                    BY <1>4, <4>2, <5>1, <5>3, <5>5
                <5>6. CASE n # Len(p) + 1
                    <6>1. n \in 1 .. Len(p)
                        BY <5>3, <5>4, <5>6
                    <6> QED BY <4>2, <5>1, <5>2, <5>3, <6>1
                <5> QED BY <5>5, <5>6
            <4> QED BY <4>1, <4>2
        <3> QED BY <3>7 DEF Within
    <2> QED BY <1>3, <2>1, <2>2, <2>3, Zenon DEF Given
<1> QED BY <1>1, <1>2, <1>6 DEF HeldFits

\* So are all subscribers, one after the other (publish).
LEMMA FitsAll ==
    ASSUME NEW t, Holding(t), HeldFits(t), NEW requests, requests \in Seq(Request),
           \A r \in ToSet(requests) : Serves(Head(t.todo), r),
           NEW reason, NEW u, u = PublishTo(t, requests, reason)
    PROVE  HeldFits(u)
<1> DEFINE n == Len(requests)
<1>1. n \in Nat /\ ToSet(requests) = {requests[i] : i \in 1 .. n} /\ \A i \in 1 .. n : requests[i] \in Request
    BY SequenceFrom
<1>2. PICK f : IsToldTo(f, t, requests, reason, n) /\ u = f[n]
    <2>1. u = (CHOOSE f : IsToldTo(f, t, requests, reason, n))[n]
        BY Zenon DEF PublishTo, IsToldTo
    <2>2. \E f : IsToldTo(f, t, requests, reason, n)
        BY <1>1, ToldRuns
    <2> QED BY <2>1, <2>2
<1> HIDE DEF n
<1>3. \A k \in 0 .. n : f[k] = IF k = 0 THEN t ELSE publish_one(f[k - 1], requests[k], reason)
    BY <1>2 DEF IsToldTo
<1> DEFINE Fine(k) == Holding(f[k]) /\ HeldFits(f[k]) /\ f[k].todo = t.todo
           Good == {k \in 0 .. n : Fine(k)}
<1>4. 0 \in Good
    BY <1>1, <1>3
<1>5. ASSUME NEW k \in 1 .. n, k - 1 \in Good PROVE k \in Good
    <2>1. PICK before, after : before = f[k - 1] /\ after = f[k]
        OBVIOUS
    <2>2. after = publish_one(before, requests[k], reason)
        <3>1. k \in 0 .. n /\ k # 0
            BY <1>1
        <3> QED BY <1>3, <2>1, <3>1
    <2>3. Holding(before) /\ HeldFits(before) /\ before.todo = t.todo /\ requests[k] \in Request
        BY <1>1, <1>5, <2>1
    <2>4. Serves(Head(before.todo), requests[k])
        BY <1>1, <2>3
    <2>5. Holding(after) /\ after.todo = before.todo
        <3>1. Beside(after, before)
            BY <2>2, <2>3, PublishesOne
        <3> QED BY <3>1 DEF Beside
    <2>6. HeldFits(after)
        BY <2>2, <2>3, <2>4, FitsOne
    <2>7. Fine(k)
        BY <2>1, <2>3, <2>5, <2>6
    <2> HIDE DEF Fine
    <2> QED BY <1>1, <2>7
<1>6. n \in Good
    <2> HIDE DEF Good
    <2>1. \A k \in 0 .. n : k \in Good
        BY <1>1, <1>4, <1>5, CountUp
    <2> QED BY <1>1, <2>1
<1> QED BY <1>2, <1>6

\* A step that stores nothing keeps what fits when the tick it leaves does.
LEMMA FitStays ==
    ASSUME FitInv, UNCHANGED <<req, job>>, NEW t, t = tick', t = NoTick \/ HeldFits(t)
    PROVE  FitInv'
<1>1. NoTick.phase = "idle"
    BY DEF NoTick
<1> QED BY <1>1 DEF FitInv

\* What a step of a job starts from.
LEMMA HeldFacts ==
    ASSUME ContextInv, FitInv, tick.phase = "steps"
    PROVE  /\ HeldFits(tick) /\ Fits(Head(tick.todo), tick.rec) /\ Within(tick.reqs)
           /\ Head(tick.todo) \in Request /\ JobOK(tick.rec) /\ Holding(tick)
<1>1. Holding(tick) /\ HeldFits(tick)
    BY DEF ContextInv, Ticking, FitInv
<1>2. Head(tick.todo) \in Request
    BY TickFacts
<1> QED BY <1>1, <1>2 DEF HeldFits, Holding

\* Past a step, with no more than what the step weighs.
LEMMA PastFits ==
    ASSUME NEW j \in Request, NEW rec, JobOK(rec), Fits(j, rec), rec.cursor <= Len(rec.script),
           NEW new, new.requests = rec.requests, new.script = rec.script, new.cursor = rec.cursor + 1,
           Whole(new.sections),
           mandatory_size(new.sections, Items(j)) <=
               mandatory_size(rec.sections, Items(j)) + StepWeight(rec.script[rec.cursor], Items(j))
    PROVE  Fits(j, new)
<1>1. PICK s, c, items, x : /\ s = rec.script /\ c = rec.cursor /\ items = Items(j) /\ x = new.sections
    OBVIOUS
<1>2. c \in 1 .. Len(s) /\ Len(s) \in Nat
    <2>1. rec.cursor \in 1 .. Len(rec.script) + 1 /\ Len(rec.script) \in Nat
        BY SequencesJoined DEF JobOK
    <2> QED BY <1>1, <2>1
<1>3. PICK a, b, w, m, n :
        /\ a = Needs(Part(s, c - 1), items) /\ b = Needs(Part(s, c), items) /\ w = StepWeight(s[c], items)
        /\ m = mandatory_size(rec.sections, items) /\ n = mandatory_size(x, items)
    OBVIOUS
<1>4. /\ ScriptOK(s) /\ m <= a /\ Sized(rec.sections) /\ Sized(x)
    BY <1>1, <1>3, WholeSized DEF Fits
<1>5. w \in Nat /\ b = a + w /\ a \in Nat
    <2>1. c - 1 \in 0 .. Len(s)
        BY <1>2
    <2> QED BY <1>2, <1>3, <1>4, <2>1, NeedsMore
<1>6. m \in Nat /\ n \in Nat
    <2>1. PICK y : y = [size |-> 0]
        OBVIOUS
    <2>2. y.size \in Nat
        BY <2>1
    <2> QED BY <1>1, <1>3, <1>4, <2>2, MandatoryMore
<1>7. n <= m + w
    BY <1>1, <1>3
<1>8. n <= b
    BY <1>4, <1>5, <1>6, <1>7
<1>9. new.cursor - 1 = c
    BY <1>1, <1>2
<1> QED BY <1>1, <1>3, <1>4, <1>8, <1>9 DEF Fits

\* Nothing more than there was is within what any step weighs.
LEMMA StepWeighs ==
    ASSUME NEW j \in Request, NEW rec, JobOK(rec), Fits(j, rec), rec.cursor <= Len(rec.script)
    PROVE  /\ StepWeight(rec.script[rec.cursor], Items(j)) \in Nat
           /\ mandatory_size(rec.sections, Items(j)) <=
                  mandatory_size(rec.sections, Items(j)) + StepWeight(rec.script[rec.cursor], Items(j))
           /\ mandatory_size(rec.sections, Items(j)) \in Nat
           /\ rec.script[rec.cursor][1] = "section" => IsSection(rec.script[rec.cursor][2])
<1>1. PICK s, c, items : s = rec.script /\ c = rec.cursor /\ items = Items(j)
    OBVIOUS
<1>2. c \in 1 .. Len(s) /\ Len(s) \in Nat
    <2>1. rec.cursor \in 1 .. Len(rec.script) + 1 /\ Len(rec.script) \in Nat
        BY SequencesJoined DEF JobOK
    <2> QED BY <1>1, <2>1
<1>3. ScriptOK(s) /\ CanRun(s)
    BY <1>1, WholeSized DEF Fits
<1>4. PICK w, m : w = StepWeight(s[c], items) /\ m = mandatory_size(rec.sections, items)
    OBVIOUS
<1>5. w \in Nat
    BY <1>2, <1>3, <1>4, NeedsMore
<1>6. m \in Nat
    BY <1>1, <1>4, FitsJob
<1>7. m <= m + w
    BY <1>5, <1>6
<1>8. s[c][1] = "section" => IsSection(s[c][2])
    BY <1>2, <1>3 DEF CanRun
<1> QED BY <1>1, <1>4, <1>5, <1>6, <1>7, <1>8

\* The section a step of a script is for.
LEMMA SectionOf ==
    ASSUME NEW s, IsSection(s), NEW x, x = Section(s)
    PROVE  IsSection(x) /\ x.item = s.item /\ x.size = s.size
<1>1. x \in {s, [s EXCEPT !.historical = TRUE]}
    BY DEF Section
<1> QED BY <1>1 DEF IsSection

\* A correction makes sections historical: none gets larger or changes its item.
LEMMA CorrectedFits ==
    ASSUME NEW s, Whole(s), NEW item, NEW rev, NEW items
    PROVE  /\ Whole(Corrected(s, item, rev))
           /\ mandatory_size(Corrected(s, item, rev), items) = mandatory_size(s, items)
<1>1. PICK c : c = Corrected(s, item, rev) /\ DOMAIN c = DOMAIN s
               /\ \A n \in DOMAIN s : c[n] \in {s[n], [s[n] EXCEPT !.historical = TRUE]}
    BY DEF Corrected
<1>2. IsSequence(c)
    BY <1>1, CorrectedKeeps DEF Whole
<1>3. /\ Len(c) = Len(s) /\ Len(s) \in Nat /\ DOMAIN s = 1 .. Len(s)
    BY <1>1, <1>2, SequencesMore DEF Whole
<1>4. ASSUME NEW n \in 1 .. Len(s) PROVE IsSection(c[n]) /\ s[n].item = c[n].item /\ s[n].size = c[n].size
    <2>1. IsSection(s[n])
        BY DEF Whole
    <2> QED BY <1>1, <1>3, <2>1 DEF IsSection
<1>5. Whole(c)
    BY <1>2, <1>3, <1>4 DEF Whole
<1>6. Sized(s) /\ Sized(c)
    BY <1>5, WholeSized
<1>7. mandatory_size(s, items) = mandatory_size(c, items)
    BY <1>3, <1>4, <1>6, MandatoryAlike
<1> QED BY <1>1, <1>5, <1>7

\* A step of a script adds what it was counted for at submit (advance).
LEMMA PrepareFits ==
    ASSUME ContextInv, FitInv, Prepare
    PROVE  FitInv'
<1>1. tick.phase = "steps" /\ tick.rec.cursor <= Len(tick.rec.script) /\ UNCHANGED <<req, job>>
    BY DEF Prepare, At, Left, Stored
<1>2. /\ HeldFits(tick) /\ Fits(Head(tick.todo), tick.rec) /\ Within(tick.reqs)
      /\ Head(tick.todo) \in Request /\ JobOK(tick.rec) /\ Holding(tick)
      /\ DOMAIN tick = DOMAIN NoTick /\ DOMAIN tick.rec = DOMAIN NoJob
    BY <1>1, HeldFacts, StepFacts
<1>3. PICK j, rec, items, step :
        /\ j = Head(tick.todo) /\ rec = tick.rec /\ items = Items(j) /\ step = rec.script[rec.cursor]
        /\ j \in Request /\ Fits(j, rec) /\ JobOK(rec) /\ rec.cursor <= Len(rec.script)
    BY <1>1, <1>2
<1>4. /\ StepWeight(step, items) \in Nat
      /\ mandatory_size(rec.sections, items) \in Nat
      /\ mandatory_size(rec.sections, items) <= mandatory_size(rec.sections, items) + StepWeight(step, items)
      /\ step[1] = "section" => IsSection(step[2])
    BY <1>3, StepWeighs
<1>5. Step = step
    BY <1>3 DEF Step
<1>6. Whole(rec.sections) /\ Sized(rec.sections)
    BY <1>3, WholeSized DEF Fits
<1>7. ASSUME NEW t, DOMAIN t = DOMAIN NoTick, t.todo = tick.todo, t.reqs = tick.reqs,
             DOMAIN t.rec = DOMAIN NoJob, t.rec.requests = rec.requests,
             t.rec.script = rec.script, t.rec.cursor = rec.cursor, Whole(t.rec.sections),
             mandatory_size(t.rec.sections, items) <= mandatory_size(rec.sections, items) + StepWeight(step, items),
             tick' = Past(t)
      PROVE  FitInv'
    <2>1. PICK u, new : u = tick' /\ u = Past(t) /\ new = u.rec
        BY <1>7
    <2>2. u.todo = t.todo /\ u.reqs = t.reqs /\ u.rec = [t.rec EXCEPT !.cursor = t.rec.cursor + 1]
        BY <1>7, <2>1 DEF Past, NoTick
    <2>3. /\ new.requests = t.rec.requests /\ new.script = t.rec.script /\ new.sections = t.rec.sections
          /\ new.cursor = t.rec.cursor + 1
        BY <1>7, <2>1, <2>2 DEF NoJob
    <2>4. Fits(j, new)
        <3>1. PICK x, y : x = new.sections /\ y = rec.sections
            OBVIOUS
        <3>2. Whole(x) /\ mandatory_size(x, items) <= mandatory_size(y, items) + StepWeight(step, items)
            BY <1>7, <2>3, <3>1
        <3> QED BY <1>3, <1>7, <2>3, <3>1, <3>2, PastFits
    <2>5. HeldFits(u)
        BY <1>2, <1>3, <1>7, <2>1, <2>2, <2>4 DEF HeldFits
    <2> QED BY <1>1, <2>1, <2>5, FitStays
<1>8. CASE At("section") /\ tick' = Past([tick EXCEPT !.rec.sections = Append(@, Section(Step[2]))])
    <2>1. PICK x : x = Section(step[2])
        OBVIOUS
    <2>2. PICK t : t = [tick EXCEPT !.rec.sections = Append(@, x)]
        OBVIOUS
    <2>3. t.todo = tick.todo /\ t.reqs = tick.reqs /\ DOMAIN t = DOMAIN NoTick
          /\ t.rec = [rec EXCEPT !.sections = Append(rec.sections, x)]
        BY <1>2, <1>3, <2>2 DEF NoTick
    <2>4. /\ DOMAIN t.rec = DOMAIN NoJob /\ t.rec.requests = rec.requests /\ t.rec.script = rec.script
          /\ t.rec.cursor = rec.cursor /\ t.rec.sections = Append(rec.sections, x)
        BY <1>2, <1>3, <2>3 DEF NoJob
    <2>5. step[1] = "section" /\ IsSection(step[2])
        BY <1>4, <1>5, <1>8 DEF At
    <2>6. IsSection(x) /\ x.item = step[2].item /\ x.size = step[2].size
        BY <2>1, <2>5, SectionOf
    <2>7. x.size \in Nat /\ Weight(x, items) = StepWeight(step, items)
        BY <2>5, <2>6 DEF IsSection, Weight, StepWeight
    <2>8. PICK a, s : s = rec.sections /\ a = Append(s, x) /\ a = t.rec.sections
        BY <2>4
    <2>9. Whole(a)
        <3>1. IsSequence(s)
            BY <1>6, <2>8 DEF Whole
        <3>2. /\ IsSequence(a) /\ Len(a) = Len(s) + 1 /\ Len(s) \in Nat
              /\ \A i \in 1 .. Len(s) : a[i] = s[i]
              /\ a[Len(s) + 1] = x
            <4>1. PICK b : b = Append(s, x)
                OBVIOUS
            <4>2. /\ IsSequence(b) /\ Len(b) = Len(s) + 1 /\ Len(s) \in Nat
                  /\ \A i \in 1 .. Len(s) : b[i] = s[i]
                  /\ b[Len(s) + 1] = x
                BY <3>1, <4>1, SequencesMore
            <4> QED BY <2>8, <4>1, <4>2
        <3>3. ASSUME NEW n \in 1 .. Len(s) + 1 PROVE IsSection(a[n])
            <4>1. CASE n = Len(s) + 1
                BY <2>6, <3>2, <4>1
            <4>2. CASE n # Len(s) + 1
                <5>1. n \in 1 .. Len(s)
                    BY <3>2, <4>2
                <5> QED BY <1>6, <2>8, <3>2, <5>1 DEF Whole
            <4> QED BY <4>1, <4>2
        <3> QED BY <3>2, <3>3 DEF Whole
    <2>10. mandatory_size(a, items) = mandatory_size(s, items) + StepWeight(step, items)
        BY <1>6, <2>7, <2>8, MandatoryMore
    <2>11. mandatory_size(a, items) \in Nat
        BY <1>3, <1>4, <2>8, <2>10
    <2>12. mandatory_size(t.rec.sections, items) <= mandatory_size(rec.sections, items) + StepWeight(step, items)
        BY <2>8, <2>10, <2>11
    <2>13. tick' = Past(t)
        BY <1>5, <1>8, <2>1, <2>2
    <2>14. Whole(t.rec.sections)
        BY <2>8, <2>9
    <2> QED BY <1>7, <2>3, <2>4, <2>12, <2>13, <2>14
<1>9. CASE tick' = Past([tick EXCEPT !.rec.unmet[Step[2]] = Step[3]])
    <2>1. PICK t : t = [tick EXCEPT !.rec.unmet[Step[2]] = Step[3]]
        OBVIOUS
    <2>2. t.todo = tick.todo /\ t.reqs = tick.reqs /\ DOMAIN t = DOMAIN NoTick
          /\ t.rec = [rec EXCEPT !.unmet = [rec.unmet EXCEPT ![Step[2]] = Step[3]]]
        BY <1>2, <1>3, <2>1 DEF NoTick
    <2>3. /\ DOMAIN t.rec = DOMAIN NoJob /\ t.rec.requests = rec.requests /\ t.rec.script = rec.script
          /\ t.rec.cursor = rec.cursor /\ t.rec.sections = rec.sections
        BY <1>2, <1>3, <2>2 DEF NoJob
    <2>4. tick' = Past(t)
        BY <1>9, <2>1
    <2> QED BY <1>4, <1>6, <1>7, <2>2, <2>3, <2>4
<1>10. CASE tick' = Past([tick EXCEPT !.rec.corrections[Step[2]] = Step[3],
                                      !.rec.sections = Corrected(@, Step[2], Step[3])])
    <2>1. PICK item, rev : item = Step[2] /\ rev = Step[3]
        OBVIOUS
    <2>2. PICK v : v = [tick EXCEPT !.rec.corrections[item] = rev]
        OBVIOUS
    <2>3. /\ DOMAIN v = DOMAIN NoTick /\ v.todo = tick.todo /\ v.reqs = tick.reqs
          /\ v.rec = [tick.rec EXCEPT !.corrections = [tick.rec.corrections EXCEPT ![item] = rev]]
        BY <1>2, <2>2 DEF NoTick
    <2>4. /\ DOMAIN v.rec = DOMAIN NoJob /\ v.rec.requests = rec.requests /\ v.rec.script = rec.script
          /\ v.rec.cursor = rec.cursor /\ v.rec.sections = rec.sections
        BY <1>2, <1>3, <2>3 DEF NoJob
    <2>5. PICK t : t = [v EXCEPT !.rec.sections = Corrected(v.rec.sections, item, rev)]
        OBVIOUS
    <2>6. /\ DOMAIN t = DOMAIN NoTick /\ t.todo = v.todo /\ t.reqs = v.reqs
          /\ t.rec = [v.rec EXCEPT !.sections = Corrected(v.rec.sections, item, rev)]
        BY <2>3, <2>5 DEF NoTick
    <2>7. /\ DOMAIN t.rec = DOMAIN NoJob /\ t.rec.requests = rec.requests /\ t.rec.script = rec.script
          /\ t.rec.cursor = rec.cursor /\ t.rec.sections = Corrected(rec.sections, item, rev)
        BY <2>4, <2>6 DEF NoJob
    <2>8. tick' = Past(t)
        <3>1. t = [tick EXCEPT !.rec.corrections[item] = rev, !.rec.sections = Corrected(@, item, rev)]
            BY <1>2, <2>2, <2>3, <2>5 DEF NoTick
        <3> QED BY <1>10, <2>1, <3>1
    <2>9. PICK a, s : s = rec.sections /\ a = Corrected(s, item, rev) /\ a = t.rec.sections
        BY <2>7
    <2>10. Whole(a) /\ mandatory_size(a, items) = mandatory_size(s, items)
        <3>1. Whole(s)
            BY <1>6, <2>9
        <3>2. PICK b : b = Corrected(s, item, rev)
            OBVIOUS
        <3>3. Whole(b) /\ mandatory_size(b, items) = mandatory_size(s, items)
            BY <3>1, <3>2, CorrectedFits
        <3> QED BY <2>9, <3>2, <3>3
    <2> QED BY <1>4, <1>7, <2>3, <2>6, <2>7, <2>8, <2>9, <2>10
<1>11. CASE tick' = Past(tick)
    BY <1>2, <1>3, <1>4, <1>6, <1>7, <1>11
<1> QED BY <1>8, <1>9, <1>10, <1>11 DEF Prepare

\* Whoever is published to, the tick that is left fits.
LEMMA JudgedFits ==
    ASSUME FitInv, UNCHANGED <<req, job>>, NEW p, DOMAIN p = DOMAIN NoTick, HeldFits(p), tick' = Judged(p)
    PROVE  FitInv'
<1>1. PICK u : u = tick' /\ u \in {p, [p EXCEPT !.phase = p.error]}
    BY DEF Judged
<1>2. u.todo = p.todo /\ u.rec = p.rec /\ u.reqs = p.reqs
    BY <1>1 DEF NoTick
<1>3. HeldFits(u)
    BY <1>2 DEF HeldFits
<1> QED BY <1>1, <1>3, FitStays

\* Publishing to subscribers of the job at hand.
LEMMA PublishFits ==
    ASSUME NEW t, Holding(t), HeldFits(t), NEW requests, requests \in Seq(Request),
           ToSet(requests) \subseteq ToSet(t.rec.requests), NEW reason, NEW p, p = PublishTo(t, requests, reason)
    PROVE  HeldFits(p) /\ Holding(p) /\ p.rec = t.rec /\ p.todo = t.todo
<1>1. \A r \in ToSet(requests) : Serves(Head(t.todo), r)
    BY DEF HeldFits, Fits
<1>2. HeldFits(p)
    BY <1>1, FitsAll
<1>3. Beside(p, t)
    BY PublishesTo
<1> QED BY <1>2, <1>3 DEF Beside

\* A job record with another state or fewer subscribers, or that is published, or
\* that spent.
LEMMA FitsAlike ==
    ASSUME NEW j, NEW rec, Fits(j, rec), NEW new, ToSet(new.requests) \subseteq ToSet(rec.requests), new.script = rec.script,
           new.sections = rec.sections, new.cursor = rec.cursor
    PROVE  Fits(j, new)
BY DEF Fits

\* A publish step gives each subscriber a packet that fits.
LEMMA PublishAllFits ==
    ASSUME ContextInv, FitInv, publish_all
    PROVE  FitInv'
<1>1. tick.phase = "steps" /\ tick.rec.cursor <= Len(tick.rec.script) /\ UNCHANGED <<req, job>>
    BY DEF publish_all, At, Left, Stored
<1>2. /\ HeldFits(tick) /\ Holding(tick) /\ DOMAIN tick = DOMAIN NoTick /\ JobOK(tick.rec)
      /\ tick.rec.requests \in Seq(Request) /\ Head(tick.todo) \in Request
    BY <1>1, HeldFacts, TickFacts
<1>3. PICK p : p = PublishTo(tick, tick.rec.requests, "")
    OBVIOUS
<1>4. HeldFits(p) /\ Holding(p) /\ p.rec = tick.rec /\ p.todo = tick.todo
    <2>1. PICK rs \in Seq(Request) : rs = tick.rec.requests
        BY <1>2
    <2>2. PICK t, reason : t = tick /\ Holding(t) /\ HeldFits(t) /\ p = PublishTo(t, rs, reason)
                           /\ ToSet(rs) \subseteq ToSet(t.rec.requests)
        BY <1>2, <1>3, <2>1
    <2>3. HeldFits(p) /\ Holding(p) /\ p.rec = t.rec /\ p.todo = t.todo
        BY <2>2, PublishFits
    <2> QED BY <2>2, <2>3
<1>5. DOMAIN p = DOMAIN NoTick /\ DOMAIN p.rec = DOMAIN NoJob
    BY <1>4 DEF Holding, JobOK
<1>6. tick' = Judged(IF p.error = "" THEN Past([p EXCEPT !.rec.published = TRUE]) ELSE p)
    BY <1>3 DEF publish_all
<1>7. CASE p.error # ""
    BY <1>1, <1>4, <1>5, <1>6, <1>7, JudgedFits
<1>8. CASE p.error = ""
    <2>1. PICK v : v = [p EXCEPT !.rec.published = TRUE]
        OBVIOUS
    <2>2. PICK u, new : u = Past(v) /\ new = u.rec
        OBVIOUS
    <2>3. DOMAIN v = DOMAIN NoTick /\ v.todo = p.todo /\ v.reqs = p.reqs /\ v.rec = [p.rec EXCEPT !.published = TRUE]
        BY <1>5, <2>1 DEF NoTick
    <2>4. /\ DOMAIN v.rec = DOMAIN NoJob /\ v.rec.requests = p.rec.requests
          /\ v.rec.script = p.rec.script /\ v.rec.cursor = p.rec.cursor /\ v.rec.sections = p.rec.sections
        BY <1>5, <2>3 DEF NoJob
    <2>5. /\ DOMAIN u = DOMAIN NoTick /\ u.todo = v.todo /\ u.reqs = v.reqs
          /\ u.rec = [v.rec EXCEPT !.cursor = v.rec.cursor + 1]
        BY <2>2, <2>3 DEF Past, NoTick
    <2>6. /\ new.requests = v.rec.requests /\ new.script = v.rec.script /\ new.sections = v.rec.sections
          /\ new.cursor = v.rec.cursor + 1
        BY <2>2, <2>4, <2>5 DEF NoJob
    <2>7. PICK j, rec : j = Head(tick.todo) /\ rec = tick.rec /\ j \in Request /\ Fits(j, rec) /\ JobOK(rec)
                        /\ rec.cursor <= Len(rec.script)
        BY <1>1, <1>2 DEF HeldFits
    <2>8. /\ new.requests = rec.requests /\ new.script = rec.script /\ new.cursor = rec.cursor + 1
          /\ new.sections = rec.sections
        BY <1>4, <2>4, <2>6, <2>7
    <2>9. Whole(rec.sections)
        BY <2>7 DEF Fits
    <2>10. mandatory_size(rec.sections, Items(j)) <=
               mandatory_size(rec.sections, Items(j)) + StepWeight(rec.script[rec.cursor], Items(j))
        BY <2>7, StepWeighs
    <2>11. Fits(j, new)
        BY <2>7, <2>8, <2>9, <2>10, PastFits
    <2>12. HeldFits(u)
        BY <1>4, <2>2, <2>3, <2>5, <2>7, <2>11 DEF HeldFits
    <2>13. tick' = Judged(u)
        BY <1>6, <1>8, <2>1, <2>2
    <2> QED BY <1>1, <2>5, <2>12, <2>13, JudgedFits
<1> QED BY <1>7, <1>8

\* What a job ends with is published like the rest (finish).
LEMMA FinishFits ==
    ASSUME FitInv, UNCHANGED <<req, job>>, NEW t, Holding(t), HeldFits(t),
           NEW reason, tick' = finish(t, reason)
    PROVE  FitInv'
<1>1. t.rec.requests \in Seq(Request)
    BY DEF Holding, JobOK
<1>2. PICK p : p = PublishTo(t, t.rec.requests, reason)
    OBVIOUS
<1>3. HeldFits(p) /\ Holding(p) /\ p.rec = t.rec /\ p.todo = t.todo
    <2>1. PICK rs \in Seq(Request) : rs = t.rec.requests
        BY <1>1
    <2>2. p = PublishTo(t, rs, reason)
        BY <1>2, <2>1
    <2> QED BY <2>1, <2>2, PublishFits
<1>4. DOMAIN p = DOMAIN NoTick /\ DOMAIN p.rec = DOMAIN NoJob
    BY <1>3 DEF Holding, JobOK
<1>5. tick' = Judged(IF p.error # "" THEN p
                     ELSE [p EXCEPT !.rec.published = TRUE, !.rec.state = "ended", !.ended = TRUE,
                                    !.phase = "captures"])
    BY <1>2 DEF finish
<1>6. CASE p.error # ""
    BY <1>3, <1>4, <1>5, <1>6, JudgedFits
<1>7. CASE p.error = ""
    <2>1. PICK v : v = [p EXCEPT !.rec.published = TRUE, !.rec.state = "ended", !.ended = TRUE, !.phase = "captures"]
        OBVIOUS
    <2>2. PICK w : w = [p EXCEPT !.rec.published = TRUE]
        OBVIOUS
    <2>3. DOMAIN w = DOMAIN NoTick /\ w.todo = p.todo /\ w.reqs = p.reqs /\ w.rec = [p.rec EXCEPT !.published = TRUE]
        BY <1>4, <2>2 DEF NoTick
    <2>4. /\ DOMAIN w.rec = DOMAIN NoJob /\ w.rec.requests = p.rec.requests
          /\ w.rec.script = p.rec.script /\ w.rec.cursor = p.rec.cursor /\ w.rec.sections = p.rec.sections
        BY <1>4, <2>3 DEF NoJob
    <2>5. v = [w EXCEPT !.rec.state = "ended", !.ended = TRUE, !.phase = "captures"]
        BY <1>4, <2>1, <2>2 DEF NoTick
    <2>6. /\ DOMAIN v = DOMAIN NoTick /\ v.todo = w.todo /\ v.reqs = w.reqs
          /\ v.rec = [w.rec EXCEPT !.state = "ended"]
        BY <2>3, <2>5 DEF NoTick
    <2>7. PICK new : new = v.rec /\ new.requests = w.rec.requests
                     /\ new.script = w.rec.script /\ new.cursor = w.rec.cursor /\ new.sections = w.rec.sections
        BY <2>4, <2>6 DEF NoJob
    <2>8. PICK j, rec : j = Head(p.todo) /\ rec = p.rec /\ Fits(j, rec)
        BY <1>3 DEF HeldFits
    <2>9. Fits(j, new)
        BY <2>4, <2>7, <2>8, FitsAlike
    <2>10. HeldFits(v)
        BY <1>3, <2>3, <2>6, <2>7, <2>8, <2>9 DEF HeldFits
    <2>11. tick' = Judged(v)
        BY <1>5, <1>7, <2>1
    <2> QED BY <2>6, <2>10, <2>11, JudgedFits
<1> QED BY <1>6, <1>7

\* An end the script or a deadline asks for publishes packets that fit.
LEMMA EndFits ==
    ASSUME ContextInv, FitInv, End
    PROVE  FitInv'
<1>1. tick.phase = "steps" /\ tick.rec.cursor <= Len(tick.rec.script) /\ UNCHANGED <<req, job>>
    BY DEF End, At, Left, Stored
<1>2. /\ HeldFits(tick) /\ Holding(tick) /\ DOMAIN tick = DOMAIN NoTick /\ JobOK(tick.rec)
      /\ DOMAIN tick.rec = DOMAIN NoJob /\ Head(tick.todo) \in Request
    BY <1>1, HeldFacts, StepFacts
<1>3. PICK j, rec : j = Head(tick.todo) /\ rec = tick.rec /\ j \in Request /\ Fits(j, rec) /\ JobOK(rec)
                    /\ rec.cursor <= Len(rec.script)
    BY <1>1, <1>2 DEF HeldFits
<1>4. CASE tick' = finish(tick, Step[2])
    BY <1>1, <1>2, <1>4, FinishFits
<1>5. ASSUME NEW spent,
             tick' = IF spent > Ask[Head(tick.todo)].investigation
                     THEN finish([tick EXCEPT !.rec.spent = spent], "investigation_exhausted")
                     ELSE Past([tick EXCEPT !.rec.spent = spent])
      PROVE  FitInv'
    <2>1. PICK t : t = [tick EXCEPT !.rec.spent = spent]
        OBVIOUS
    <2>2. /\ DOMAIN t = DOMAIN NoTick /\ t.phase = "steps" /\ t.todo = tick.todo /\ t.reqs = tick.reqs
          /\ t.out = tick.out /\ t.seals = tick.seals /\ t.error = tick.error
          /\ t.rec = [tick.rec EXCEPT !.spent = spent]
        BY <1>1, <1>2, <2>1 DEF NoTick
    <2>3. /\ DOMAIN t.rec = DOMAIN NoJob /\ t.rec.state = tick.rec.state
          /\ t.rec.requests = tick.rec.requests /\ t.rec.captures = tick.rec.captures
          /\ t.rec.script = tick.rec.script /\ t.rec.cursor = tick.rec.cursor
          /\ t.rec.sections = tick.rec.sections
        BY <1>2, <2>2 DEF NoJob
    <2>4. Holding(t)
        <3>1. Onward(t, tick)
            BY <1>2, <2>2, <2>3 DEF Onward, JobOK
        <3> QED BY <1>2, <3>1, GoesOn
    <2>5. PICK held : held = t.rec /\ held.requests = rec.requests /\ held.script = rec.script
                      /\ held.sections = rec.sections /\ held.cursor = rec.cursor
        BY <1>3, <2>3
    <2>6. HeldFits(t)
        <3>1. Fits(j, held)
            BY <1>3, <2>5, FitsAlike
        <3> QED BY <1>2, <1>3, <2>2, <2>5, <3>1 DEF HeldFits
    <2>7. CASE tick' = finish(t, "investigation_exhausted")
        BY <1>1, <2>4, <2>6, <2>7, FinishFits
    <2>8. CASE tick' = Past(t)
        <3>1. PICK u, new : u = tick' /\ u = Past(t) /\ new = u.rec
            BY <2>8
        <3>2. u.todo = t.todo /\ u.reqs = t.reqs /\ u.rec = [t.rec EXCEPT !.cursor = t.rec.cursor + 1]
            BY <2>2, <3>1 DEF Past, NoTick
        <3>3. /\ new.requests = rec.requests /\ new.script = rec.script /\ new.cursor = rec.cursor + 1
              /\ new.sections = rec.sections
            BY <1>3, <2>3, <3>1, <3>2 DEF NoJob
        <3>4. Whole(rec.sections)
            BY <1>3 DEF Fits
        <3>5. mandatory_size(rec.sections, Items(j)) <=
                  mandatory_size(rec.sections, Items(j)) + StepWeight(rec.script[rec.cursor], Items(j))
            BY <1>3, StepWeighs
        <3>6. Fits(j, new)
            BY <1>3, <3>3, <3>4, <3>5, PastFits
        <3>7. HeldFits(u)
            BY <1>2, <1>3, <2>2, <3>1, <3>2, <3>6 DEF HeldFits
        <3> QED BY <1>1, <3>1, <3>7, FitStays
    <2> QED BY <1>5, <2>1, <2>7, <2>8
<1> QED BY <1>4, <1>5 DEF End

\* Those whose deadline has passed are published what fits, and the job rests.
LEMMA RestFits ==
    ASSUME ContextInv, FitInv, Rest
    PROVE  FitInv'
<1>1. tick.phase = "steps" /\ UNCHANGED <<req, job>>
    BY DEF Rest, At, Left, Stored
<1>2. HeldFits(tick) /\ Holding(tick) /\ tick.rec.requests \in Seq(Request)
    BY <1>1, HeldFacts, TickFacts
<1>3. PICK late :
        /\ \E S : late = Where(tick.rec.requests, S)
        /\ tick' = Judged([PublishTo(tick, late, "deadline_passed") EXCEPT !.phase = "captures"])
    BY Zenon DEF Rest
<1>4. late \in Seq(Request) /\ ToSet(late) \subseteq ToSet(tick.rec.requests)
    <2>1. IsSequence(tick.rec.requests) /\ ToSet(tick.rec.requests) \subseteq Request
        BY <1>2, SequenceFrom
    <2>2. IsSequence(late) /\ ToSet(late) \subseteq ToSet(tick.rec.requests)
        BY <1>3, <2>1, WhereKeeps
    <2> QED BY <2>1, <2>2, SequenceInto
<1>5. PICK p, v : p = PublishTo(tick, late, "deadline_passed") /\ v = [p EXCEPT !.phase = "captures"]
    OBVIOUS
<1>6. HeldFits(p) /\ Holding(p)
    BY <1>2, <1>4, <1>5, PublishFits
<1>7. DOMAIN p = DOMAIN NoTick
    BY <1>6 DEF Holding
<1>8. DOMAIN v = DOMAIN NoTick /\ v.todo = p.todo /\ v.reqs = p.reqs /\ v.rec = p.rec
    BY <1>5, <1>7 DEF NoTick
<1>9. HeldFits(v)
    BY <1>6, <1>8 DEF HeldFits
<1>10. tick' = Judged(v)
    BY <1>3, <1>5
<1> QED BY <1>1, <1>8, <1>9, <1>10, JudgedFits

\* The tick at the first of the jobs left to do.
LEMMA TurnFits ==
    ASSUME FitInv, NEW todo \in Seq(Request),
           \A n \in DOMAIN todo : job[todo[n]].state # "none",
           NEW reqs, Within(reqs), NEW t, t = Turn(todo, reqs)
    PROVE  t = NoTick \/ HeldFits(t)
<1>1. CASE todo = <<>>
    BY <1>1 DEF Turn
<1>2. CASE todo # <<>>
    <2>1. PICK j : j = Head(todo) /\ j \in Request /\ job[j].state # "none"
        <3>1. Head(todo) = todo[1] /\ 1 \in DOMAIN todo /\ Head(todo) \in Request
            BY <1>2
        <3> QED BY <3>1
    <2>2. t.todo = todo /\ t.rec = job[j] /\ t.reqs = reqs
        BY <1>2, <2>1 DEF Turn, NoTick
    <2>3. Fits(j, job[j])
        BY <2>1 DEF FitInv
    <2> QED BY <2>1, <2>2, <2>3 DEF HeldFits
<1> QED BY <1>1, <1>2

\* The tick goes on to a job as it is stored.
LEMMA NextJobFits ==
    ASSUME ContextInv, FitInv, tick.phase # "idle", NEW reqs, Within(reqs), NEW t, t = NextJob(reqs)
    PROVE  t = NoTick \/ HeldFits(t)
<1>1. Holding(tick)
    BY DEF ContextInv, Ticking
<1>2. PICK all : all = tick.todo /\ all \in Seq(Request) /\ all # <<>>
                 /\ \A n \in DOMAIN all : job[all[n]].state # "none"
    BY <1>1 DEF Holding
<1>3. PICK todo : todo = Tail(all)
    OBVIOUS
<1>4. todo \in Seq(Request) /\ \A n \in DOMAIN todo : n + 1 \in DOMAIN all /\ todo[n] = all[n + 1]
    BY <1>2, <1>3
<1>5. \A n \in DOMAIN todo : job[todo[n]].state # "none"
    BY <1>2, <1>4
<1>6. t = Turn(todo, reqs)
    BY <1>2, <1>3 DEF NextJob
<1> QED BY <1>4, <1>5, <1>6, TurnFits

\* What fits is kept by a step that leaves the jobs as they are, or ends one.
LEMMA FitsKept ==
    ASSUME FitInv, Within(req'), \A j \in Request : job'[j].state # "none" => Fits(j, job'[j]),
           NEW t, t = tick', t = NoTick \/ HeldFits(t)
    PROVE  FitInv'
<1>1. NoTick.phase = "idle"
    BY DEF NoTick
<1> QED BY <1>1 DEF FitInv

\* A tick begins with what is stored.
LEMMA TickBeginFits ==
    ASSUME ContextInv, FitInv, tick_context
    PROVE  FitInv'
<1>1. UNCHANGED <<req, job>> /\ Within(req)
    BY DEF tick_context, FitInv
<1>2. PICK todo : todo = Where(order, {j \in Request : job[j].state = "running"}) /\ tick' = Turn(todo, req)
    BY DEF tick_context
<1>3. todo \in Seq(Request) /\ \A j \in ToSet(todo) : j \in Request /\ job[j].state = "running"
    <2>1. order \in Seq(Request)
        BY DEF ContextInv, Records
    <2>2. IsSequence(order) /\ ToSet(order) \subseteq Request
        BY <2>1, SequenceFrom
    <2>3. IsSequence(todo) /\ ToSet(todo) = ToSet(order) \cap {j \in Request : job[j].state = "running"}
        BY <1>2, <2>2, WhereKeeps
    <2> QED BY <2>2, <2>3, SequenceInto
<1>4. \A n \in DOMAIN todo : job[todo[n]].state # "none"
    BY <1>3 DEF ToSet
<1>5. PICK t, reqs : t = tick' /\ reqs = req /\ t = Turn(todo, reqs) /\ Within(reqs)
    BY <1>1, <1>2
<1>6. t = NoTick \/ HeldFits(t)
    BY <1>3, <1>4, <1>5, TurnFits
<1> QED BY <1>1, <1>5, <1>6, FitStays

\* One job changes, and not what fits of it.
LEMMA JobFits ==
    ASSUME FitInv, NEW j \in Request, NEW new, job'[j] = new, \A i \in Request \ {j} : job'[i] = job[i],
           new.state # "none" => job[j].state # "none",
           ToSet(new.requests) \subseteq ToSet(job[j].requests), new.script = job[j].script,
           new.sections = job[j].sections, new.cursor = job[j].cursor
    PROVE  \A i \in Request : job'[i].state # "none" => Fits(i, job'[i])
<1>1. \A i \in Request : job[i].state # "none" => Fits(i, job[i])
    BY DEF FitInv
<1>2. job'[j].state # "none" => Fits(j, job'[j])
    <2>1. PICK rec : rec = job[j]
        OBVIOUS
    <2>2. new.state # "none" => Fits(j, new)
        BY <1>1, <2>1, FitsAlike
    <2> QED BY <2>2
<1> QED BY <1>1, <1>2

\* Keeping the captures changes no section and no packet.
LEMMA CapturesFits ==
    ASSUME ContextInv, FitInv, keep_outgoing_captures
    PROVE  FitInv'
<1>1. tick.phase # "idle" /\ req' = req /\ Within(req)
    BY DEF keep_outgoing_captures, FitInv
<1>2. /\ Holding(tick) /\ HeldFits(tick) /\ DOMAIN tick = DOMAIN NoTick /\ DOMAIN tick.rec = DOMAIN NoJob
      /\ Head(tick.todo) \in Request
    BY <1>1, TickFacts DEF ContextInv, Ticking, FitInv
<1>3. CASE job' = job /\ tick' = NoTick
    <2>1. PICK t : t = tick' /\ t = NoTick
        BY <1>3
    <2> QED BY <1>1, <1>3, <2>1, FitStays
<1>4. ASSUME NEW kept, NEW stored,
             tick' = [tick EXCEPT !.phase = "seal", !.rec.captures = kept],
             job' = [job EXCEPT ![Head(tick.todo)].captures = stored]
      PROVE  FitInv'
    <2>1. PICK j : j = Head(tick.todo) /\ j \in Request
        BY <1>2
    <2>2. PICK new : new = [job[j] EXCEPT !.captures = stored]
        OBVIOUS
    <2>3. DOMAIN job[j] = DOMAIN NoJob
        BY <2>1 DEF ContextInv, Records, JobOK
    <2>4. /\ new.state = job[j].state /\ new.requests = job[j].requests /\ new.script = job[j].script
          /\ new.sections = job[j].sections /\ new.cursor = job[j].cursor
        BY <2>2, <2>3 DEF NoJob
    <2>5. job'[j] = new /\ \A i \in Request \ {j} : job'[i] = job[i]
        <3>1. DOMAIN job = Request
            BY DEF ContextInv, Records
        <3> QED BY <1>4, <2>1, <2>2, <3>1
    <2>6. \A i \in Request : job'[i].state # "none" => Fits(i, job'[i])
        BY <2>1, <2>4, <2>5, JobFits
    <2>7. PICK u : u = tick'
        OBVIOUS
    <2>8. u.todo = tick.todo /\ u.reqs = tick.reqs /\ u.rec = [tick.rec EXCEPT !.captures = kept]
        BY <1>2, <1>4, <2>7 DEF NoTick
    <2>9. PICK held, rec : held = u.rec /\ rec = tick.rec /\ held.requests = rec.requests /\ held.script = rec.script
                           /\ held.sections = rec.sections /\ held.cursor = rec.cursor
        BY <1>2, <2>8 DEF NoJob
    <2>10. Fits(j, held)
        BY <1>2, <2>1, <2>9, FitsAlike DEF HeldFits
    <2>11. HeldFits(u)
        BY <1>2, <2>1, <2>8, <2>9, <2>10 DEF HeldFits
    <2> QED BY <1>1, <2>6, <2>7, <2>11, FitsKept
<1>5. \/ job' = job /\ tick' = NoTick
      \/ \E kept, stored : /\ tick' = [tick EXCEPT !.phase = "seal", !.rec.captures = kept]
                           /\ job' = [job EXCEPT ![Head(tick.todo)].captures = stored]
    <2>1. PICK kept, stored :
              /\ kept = IF Here.peer THEN Over(tick.rec.captures, [a \in Uncaptured |-> tick.at])
                        ELSE tick.rec.captures
              /\ stored = IF Here.peer THEN Over(job[Head(tick.todo)].captures, [a \in Uncaptured |-> tick.at])
                          ELSE job[Head(tick.todo)].captures
        OBVIOUS
    <2>2. \/ job' = job /\ tick' = NoTick
          \/ /\ tick' = [tick EXCEPT !.phase = "seal", !.rec.captures = kept]
             /\ job' = [job EXCEPT ![Head(tick.todo)].captures = stored]
        BY <2>1, Zenon DEF keep_outgoing_captures
    <2> QED BY <2>2
<1> QED BY <1>3, <1>4, <1>5

\* Sealing changes no section and no packet.
LEMMA SealFits ==
    ASSUME ContextInv, FitInv, seal_packets
    PROVE  FitInv'
<1>1. tick.phase # "idle" /\ UNCHANGED <<req, job>> /\ Within(req)
    BY DEF seal_packets, FitInv
<1>2. HeldFits(tick) /\ DOMAIN tick = DOMAIN NoTick
    BY <1>1, TickFacts DEF FitInv
<1>3. PICK t : t = tick' /\ (t = NextJob(req) \/ t = [tick EXCEPT !.out = Tail(@)])
    BY DEF seal_packets
<1>4. CASE t = NextJob(req)
    <2>1. PICK reqs : reqs = req /\ Within(reqs) /\ t = NextJob(reqs)
        BY <1>1, <1>4
    <2>2. t = NoTick \/ HeldFits(t)
        BY <1>1, <2>1, NextJobFits
    <2> QED BY <1>1, <1>3, <2>2, FitStays
<1>5. CASE t = [tick EXCEPT !.out = Tail(@)]
    <2>1. t.todo = tick.todo /\ t.reqs = tick.reqs /\ t.rec = tick.rec
        BY <1>2, <1>5 DEF NoTick
    <2>2. HeldFits(t)
        BY <1>2, <2>1 DEF HeldFits
    <2> QED BY <1>1, <1>3, <2>2, FitStays
<1> QED BY <1>3, <1>4, <1>5

\* What is stored is what the tick held.
LEMMA CommitFits ==
    ASSUME ContextInv, FitInv, commit
    PROVE  FitInv'
<1>1. tick.phase # "idle" /\ tick.phase = "seal"
    BY DEF commit
<1>2. HeldFits(tick) /\ Holding(tick) /\ Head(tick.todo) \in Request
    BY <1>1, TickFacts DEF FitInv, ContextInv, Ticking
<1>3. CASE tick' = NoTick /\ UNCHANGED <<req, job>>
    <2>1. PICK t : t = tick' /\ t = NoTick
        BY <1>3
    <2> QED BY <1>3, <2>1, FitStays
<1>4. CASE /\ req' = tick.reqs /\ job' = [job EXCEPT ![Head(tick.todo)] = tick.rec]
           /\ tick' = NextJob(tick.reqs)
    <2>1. PICK j, rec, reqs : j = Head(tick.todo) /\ rec = tick.rec /\ reqs = tick.reqs
        OBVIOUS
    <2>2. Fits(j, rec) /\ Within(reqs) /\ j \in Request
        BY <1>2, <2>1 DEF HeldFits
    <2>3. DOMAIN job = Request
        BY DEF ContextInv, Records
    <2>4. job'[j] = rec /\ \A i \in Request \ {j} : job'[i] = job[i]
        BY <1>4, <2>1, <2>2, <2>3
    <2>5. \A i \in Request : job'[i].state # "none" => Fits(i, job'[i])
        BY <2>2, <2>4 DEF FitInv
    <2>6. PICK t : t = tick' /\ t = NextJob(reqs)
        BY <1>4, <2>1
    <2>7. t = NoTick \/ HeldFits(t)
        BY <1>1, <2>2, <2>6, NextJobFits
    <2>8. Within(req')
        BY <1>4, <2>1, <2>2
    <2> QED BY <2>5, <2>6, <2>7, <2>8, FitsKept
<1> QED BY <1>3, <1>4 DEF commit

\* A job that is ended because its packet was refused leaves its packets as they were.
LEMMA RefusedFits ==
    ASSUME ContextInv, FitInv, end_refused_job
    PROVE  FitInv'
<1>1. tick.phase # "idle"
    BY DEF end_refused_job
<1>2. PICK j : j = Head(tick.todo) /\ j \in Request /\ job[j].state # "none"
    <2>1. Holding(tick) /\ tick.todo \in Seq(Request) /\ tick.todo # <<>>
        BY <1>1 DEF ContextInv, Ticking, Holding
    <2>2. Head(tick.todo) = tick.todo[1] /\ 1 \in DOMAIN tick.todo /\ Head(tick.todo) \in Request
        BY <2>1
    <2> QED BY <2>1, <2>2 DEF Holding
<1>3. CASE Fault /\ tick' = NoTick /\ UNCHANGED <<req, job, pool>>
    <2>1. PICK t : t = tick' /\ t = NoTick
        BY <1>3
    <2> QED BY <1>3, <2>1, FitStays
<1>4. ASSUME NEW refused, NEW results,
             req' = [r \in Request |->
                       IF r \in refused THEN [req[r] EXCEPT !.state = "refused", !.items = results[r]] ELSE req[r]],
             job' = [job EXCEPT ![j].state = "ended"], tick' = NextJob(req')
      PROVE  FitInv'
    <2>1. DOMAIN job = Request /\ DOMAIN job[j] = DOMAIN NoJob
        BY <1>2 DEF ContextInv, Records, JobOK
    <2>2. PICK new : new = [job[j] EXCEPT !.state = "ended"] /\ job'[j] = new
                     /\ \A i \in Request \ {j} : job'[i] = job[i]
        BY <1>2, <1>4, <2>1
    <2>3. /\ new.requests = job[j].requests /\ new.script = job[j].script
          /\ new.sections = job[j].sections /\ new.cursor = job[j].cursor
        BY <2>1, <2>2 DEF NoJob
    <2>4. \A i \in Request : job'[i].state # "none" => Fits(i, job'[i])
        BY <1>2, <2>2, <2>3, JobFits
    <2>5. \A r \in Request : req'[r].packets = req[r].packets
        <3>1. \A r \in Request : DOMAIN req[r] = DOMAIN NoRequest
            BY DEF ContextInv, Records, RequestOK
        <3> QED BY <1>4, <3>1 DEF NoRequest
    <2>6. PICK reqs : reqs = req' /\ Within(reqs)
        <3>1. Within(req)
            BY DEF FitInv
        <3> QED BY <2>5, <3>1 DEF Within
    <2>7. PICK t : t = tick' /\ t = NextJob(reqs)
        BY <1>4, <2>6
    <2>8. t = NoTick \/ HeldFits(t)
        BY <1>1, <2>6, <2>7, NextJobFits
    <2> QED BY <2>4, <2>6, <2>7, <2>8, FitsKept
<1>5. ASSUME ~(Fault /\ tick' = NoTick /\ UNCHANGED <<req, job, pool>>)
      PROVE  FitInv'
    <2>1. PICK refused, results :
              /\ refused = {r \in ToSet(job[j].requests) : req[r].state = "preparing"}
              /\ results = [r \in Request |-> refused_items(Items(r), "packet_invalid")]
        OBVIOUS
    <2>2. /\ req' = [r \in Request |->
                       IF r \in refused
                       THEN [req[r] EXCEPT !.state = "refused", !.items = refused_items(Items(r), "packet_invalid")]
                       ELSE req[r]]
          /\ job' = [job EXCEPT ![j].state = "ended"] /\ tick' = NextJob(req')
        BY <1>2, <1>5, <2>1 DEF end_refused_job
    <2>3. req' = [r \in Request |->
                    IF r \in refused THEN [req[r] EXCEPT !.state = "refused", !.items = results[r]] ELSE req[r]]
        BY <2>1, <2>2
    <2> QED BY <1>4, <2>2, <2>3
<1> QED BY <1>3, <1>5

\* A job goes on for fewer subscribers, or ends (context_cancel).
LEMMA CancelFits ==
    ASSUME ContextInv, FitInv, NEW r \in Request, context_cancel(r)
    PROVE  FitInv'
<1>1. Idle /\ req[r].state = "preparing" /\ tick' = tick
    BY DEF context_cancel
<1>2. PICK j, others : j = req[r].job /\ others = Where(job[j].requests, Request \ {r})
    OBVIOUS
<1>3. /\ req' = [req EXCEPT ![r].state = "cancelled"]
      /\ job' = [job EXCEPT ![j].requests = others, ![j].state = IF others = <<>> THEN "ended" ELSE @]
    BY <1>2 DEF context_cancel
<1>4. /\ DOMAIN job = Request /\ \A i \in Request : JobOK(job[i])
      /\ DOMAIN req = Request /\ \A s \in Request : RequestOK(s, req[s])
    BY DEF ContextInv, Records
<1>5. j \in Request /\ job[j].state = "running"
    BY <1>1, <1>2, <1>4 DEF ContextInv, PreparingIsPrepared, RequestOK
<1>6. ToSet(others) \subseteq ToSet(job[j].requests)
    <2>1. PICK s : s = job[j].requests /\ s \in Seq(Request)
        BY <1>4, <1>5 DEF JobOK
    <2>2. IsSequence(s)
        BY <2>1, SequenceFrom
    <2>3. others = Where(s, Request \ {r})
        BY <1>2, <2>1
    <2>4. ToSet(others) = ToSet(s) \cap (Request \ {r})
        BY <2>2, <2>3, WhereKeeps
    <2> QED BY <2>1, <2>4
<1>7. /\ \A i \in Request \ {j} : job'[i] = job[i]
      /\ job'[j].requests = others /\ job'[j].script = job[j].script
      /\ job'[j].sections = job[j].sections /\ job'[j].cursor = job[j].cursor
    <2>1. DOMAIN job[j] = DOMAIN NoJob
        BY <1>4, <1>5 DEF JobOK
    <2>2. PICK b : b = [job EXCEPT ![j].requests = others]
        OBVIOUS
    <2>3. job' = [b EXCEPT ![j].state = IF others = <<>> THEN "ended" ELSE b[j].state]
        BY <1>3, <2>2
    <2>4. /\ DOMAIN b = Request /\ \A i \in Request \ {j} : b[i] = job[i]
          /\ b[j] = [job[j] EXCEPT !.requests = others]
        BY <1>4, <1>5, <2>2
    <2>5. /\ DOMAIN b[j] = DOMAIN NoJob /\ b[j].requests = others /\ b[j].script = job[j].script
          /\ b[j].cursor = job[j].cursor /\ b[j].sections = job[j].sections
        BY <2>1, <2>4 DEF NoJob
    <2>6. PICK st : job' = [b EXCEPT ![j].state = st]
        BY <2>3
    <2>7. /\ \A i \in Request \ {j} : job'[i] = b[i]
          /\ job'[j] = [b[j] EXCEPT !.state = st]
        BY <1>5, <2>4, <2>6
    <2>8. /\ job'[j].requests = others /\ job'[j].script = job[j].script
          /\ job'[j].cursor = job[j].cursor /\ job'[j].sections = job[j].sections
        BY <2>5, <2>7 DEF NoJob
    <2> QED BY <2>4, <2>7, <2>8
<1>8. \A i \in Request : job'[i].state # "none" => Fits(i, job'[i])
    <2>1. PICK new : new = job'[j]
        OBVIOUS
    <2>2. job[j].state # "none" /\ ToSet(new.requests) \subseteq ToSet(job[j].requests)
        BY <1>5, <1>6, <1>7, <2>1
    <2> QED BY <1>5, <1>7, <2>1, <2>2, JobFits
<1>9. Within(req')
    <2>1. DOMAIN req[r] = DOMAIN NoRequest
        BY <1>4 DEF RequestOK
    <2>2. \A s \in Request : req'[s].packets = req[s].packets
        BY <1>3, <1>4, <2>1 DEF NoRequest
    <2>3. Within(req)
        BY DEF FitInv
    <2> QED BY <2>2, <2>3 DEF Within
<1> QED BY <1>1, <1>8, <1>9 DEF Idle, FitInv

-----------------------------------------------------------------------------
(* What a compile writes fits.                                             *)

\* Steps that can stand in any script.
Plain(s) ==
    /\ IsSequence(s)
    /\ \A x \in ToSet(s) : x[1] # "compile" /\ (x[1] = "section" => IsSection(x[2]))

\* A script without a compile can run.
LEMMA PlainRuns ==
    ASSUME NEW s, Plain(s)
    PROVE  CanRun(s)
<1>1. IsSequence(s) /\ \A n \in 1 .. Len(s) : s[n] \in ToSet(s)
    <2>1. IsSequence(s)
        BY DEF Plain
    <2>2. PICK S : S = ToSet(s) /\ s \in Seq(S)
        BY <2>1 DEF IsSequence
    <2>3. ToSet(s) = {s[i] : i \in 1 .. Len(s)}
        BY <2>2, SequenceFrom
    <2> QED BY <2>1, <2>3
<1> QED BY <1>1 DEF Plain, CanRun

\* Two such scripts make one.
LEMMA PlainJoined ==
    ASSUME NEW s, NEW t, Plain(s), Plain(t)
    PROVE  Plain(s \o t)
<1>1. PICK S, T : S = ToSet(s) /\ T = ToSet(t) /\ s \in Seq(S \cup T) /\ t \in Seq(S \cup T)
    <2>1. IsSequence(s) /\ IsSequence(t)
        BY DEF Plain
    <2>2. PICK S, T : S = ToSet(s) /\ T = ToSet(t)
        OBVIOUS
    <2>3. s \in Seq(S) /\ t \in Seq(T)
        BY <2>1, <2>2 DEF IsSequence
    <2>4. s \in Seq(S \cup T) /\ t \in Seq(S \cup T)
        BY <2>3
    <2> QED BY <2>2, <2>4
<1>2. PICK w : w = s \o t
    OBVIOUS
<1>3. w \in Seq(S \cup T)
    BY <1>1, <1>2
<1>4. IsSequence(w) /\ ToSet(w) \subseteq S \cup T
    BY <1>3, SequenceFrom
<1>5. Plain(w)
    BY <1>1, <1>4 DEF Plain
<1> QED BY <1>2, <1>5

\* One step that is neither a compile nor a section is such a script.
LEMMA PlainOne ==
    ASSUME NEW x, x[1] # "compile", x[1] = "section" => IsSection(x[2])
    PROVE  Plain(<<x>>)
<1>1. PICK q : q = <<x>>
    OBVIOUS
<1>2. q \in Seq({x})
    BY <1>1
<1>3. IsSequence(q) /\ ToSet(q) \subseteq {x}
    BY <1>2, SequenceFrom
<1>4. Plain(q)
    BY <1>3 DEF Plain
<1> QED BY <1>1, <1>4

\* A sequence made from another one, step by step.
LEMMA PlainMade ==
    ASSUME NEW s, IsSequence(s), NEW f, f = [n \in DOMAIN s |-> f[n]],
           \A n \in DOMAIN s : f[n][1] # "compile" /\ (f[n][1] = "section" => IsSection(f[n][2]))
    PROVE  Plain(f)
<1>1. DOMAIN s = 1 .. Len(s) /\ Len(s) \in Nat
    BY DEF IsSequence
<1> DEFINE S == {f[i] : i \in 1 .. Len(s)}
<1>2. \A n \in 1 .. Len(s) : f[n] \in S
    OBVIOUS
<1>3. f = [n \in 1 .. Len(s) |-> f[n]]
    BY <1>1
<1>4. \A x \in S : x[1] # "compile" /\ (x[1] = "section" => IsSection(x[2]))
    BY <1>1
<1> HIDE DEF S
<1>5. f \in Seq(S)
    BY <1>1, <1>2, <1>3
<1>6. IsSequence(f) /\ ToSet(f) \subseteq S
    BY <1>5, SequenceFrom
<1> QED BY <1>4, <1>6 DEF Plain

\* So is what the compiler writes.
LEMMA StepsPlain ==
    ASSUME IsSequence(Kind(First).items), \A it \in ToSet(Kind(First).items) : it.size \in Nat, NEW unmet
    PROVE  Plain(steps(unmet))
<1> DEFINE items == Kind(First).items
           found == Where(items, {it \in ToSet(items) : it.id \notin DOMAIN unmet})
           lacking == Where(items, {it \in ToSet(items) : it.id \in DOMAIN unmet})
           a == [n \in DOMAIN found |-> <<"section", Selected(found[n])>>]
           b == [n \in DOMAIN lacking |-> <<"unmet", lacking[n].id, unmet[lacking[n].id]>>]
<1>1. IsSequence(found) /\ ToSet(found) \subseteq ToSet(items) /\ IsSequence(lacking)
    BY WhereKeeps
<1>2. steps(unmet) = a \o b \o <<<<"publish">>>>
    BY Zenon DEF steps
<1> HIDE DEF found, lacking
<1>3. Plain(a)
    <2>1. ASSUME NEW n \in DOMAIN found
          PROVE  a[n][1] # "compile" /\ (a[n][1] = "section" => IsSection(a[n][2]))
        <3>1. found[n] \in ToSet(found)
            BY DEF ToSet
        <3>2. found[n].size \in Nat
            BY <1>1, <3>1
        <3>3. IsSection(Selected(found[n]))
            BY <3>2 DEF IsSection, Selected
        <3>4. a[n] = <<"section", Selected(found[n])>>
            OBVIOUS
        <3> QED BY <3>3, <3>4
    <2>2. a = [n \in DOMAIN found |-> a[n]]
        OBVIOUS
    <2> HIDE DEF a
    <2> QED BY <1>1, <2>1, <2>2, PlainMade
<1>4. Plain(b)
    <2>1. \A n \in DOMAIN lacking : b[n][1] = "unmet"
        OBVIOUS
    <2>2. b = [n \in DOMAIN lacking |-> b[n]]
        OBVIOUS
    <2> HIDE DEF b
    <2> QED BY <1>1, <2>1, <2>2, PlainMade
<1>5. Plain(<<<<"publish">>>>)
    <2>1. PICK x : x = <<"publish">>
        OBVIOUS
    <2>2. x[1] = "publish"
        BY <2>1
    <2>3. Plain(<<x>>)
        BY <2>2, PlainOne
    <2> QED BY <2>1, <2>3
<1> HIDE DEF a, b
<1>6. Plain(a \o b)
    BY <1>3, <1>4, PlainJoined
<1>7. PICK x, y : x = a \o b /\ y = <<<<"publish">>>> /\ Plain(x) /\ Plain(y)
    BY <1>5, <1>6
<1>8. Plain(x \o y)
    BY <1>7, PlainJoined
<1> QED BY <1>2, <1>7, <1>8

\* A step that is no section takes no room.
LEMMA NeedsOne ==
    ASSUME NEW x, x[1] # "section", NEW items
    PROVE  Needs(<<x>>, items) = 0
<1>1. PICK e : e = <<>> /\ IsSequence(e) /\ Needs(e, items) = 0
    BY EmptySequence, NeedsNone
<1>2. PICK s : s = Append(e, x) /\ s = <<x>>
    <2>1. PICK s : s = <<x>>
        OBVIOUS
    <2>2. Append(<<>>, x) = <<x>>
        OBVIOUS
    <2> QED BY <1>1, <2>1, <2>2
<1>3. Sections(s) = Sections(e)
    BY <1>1, <1>2, SectionsMore
<1>4. Needs(s, items) = Needs(e, items)
    BY <1>3 DEF Needs
<1> QED BY <1>1, <1>2, <1>4

\* What the compiler leaves of that needs no more room than the job has.
LEMMA WrittenFits ==
    ASSUME IsSequence(Kind(First).items), \A it \in ToSet(Kind(First).items) : it.size \in Nat, NEW unmet,
           Ask[Head(tick.todo)].capacity \in Nat
    PROVE  /\ Plain(WithinCapacity(steps(unmet)))
           /\ Needs(WithinCapacity(steps(unmet)), Items(First)) <= Ask[Head(tick.todo)].capacity
<1>1. PICK s, items, capacity, made :
        /\ s = steps(unmet) /\ items = Items(First) /\ capacity = Ask[Head(tick.todo)].capacity
        /\ made = WithinCapacity(s)
    OBVIOUS
<1>2. Plain(s) /\ CanRun(s) /\ ScriptOK(s)
    BY <1>1, StepsPlain, PlainRuns, WholeSized
<1>3. PICK n : n = Needs(s, items) /\ n \in Nat
    <2>1. PICK k : k = Len(s) /\ k \in Nat /\ Part(s, k) = s
        BY <1>2, NeedsMore
    <2>2. k \in 0 .. Len(s)
        BY <2>1
    <2>3. Needs(Part(s, k), items) \in Nat
        BY <1>2, <2>2, NeedsMore
    <2> QED BY <2>1, <2>3
<1>4. made = IF n > capacity THEN <<<<"end", "budget_insufficient">>>> ELSE s
    BY <1>1, <1>3 DEF WithinCapacity, Needs
<1>5. CASE n > capacity
    <2>1. PICK x : x = <<"end", "budget_insufficient">>
        OBVIOUS
    <2>2. Plain(<<x>>) /\ Needs(<<x>>, items) = 0
        <3>1. x[1] = "end"
            BY <2>1
        <3> QED BY <3>1, PlainOne, NeedsOne
    <2>3. made = <<x>>
        BY <1>4, <1>5, <2>1
    <2>4. Plain(made) /\ Needs(made, items) = 0
        BY <2>2, <2>3
    <2>5. Needs(made, items) <= capacity
        BY <1>1, <2>4
    <2> QED BY <1>1, <2>4, <2>5
<1>6. CASE ~(n > capacity)
    <2>1. made = s
        BY <1>4, <1>6
    <2>2. n <= capacity
        BY <1>1, <1>3, <1>6
    <2>3. Plain(made) /\ Needs(made, items) <= capacity
        BY <1>2, <1>3, <2>1, <2>2
    <2> QED BY <1>1, <2>3
<1> QED BY <1>5, <1>6

\* What a compile leaves of the script.
LEMMA CompilesTo ==
    ASSUME compile
    PROVE  /\ At("compile") /\ UNCHANGED Stored
           /\ \/ tick' = NextJob(req)
              \/ \E unmet, seals :
                    tick' = [tick EXCEPT
                        !.rec.script = SubSeq(tick.rec.script, 1, tick.rec.cursor - 1) \o WithinCapacity(steps(unmet))
                                       \o SubSeq(tick.rec.script, tick.rec.cursor + 1, Len(tick.rec.script)),
                        !.seals = @ \cup seals]
<1>1. At("compile") /\ UNCHANGED Stored
    BY DEF compile
<1>2. PICK asked :
        IF asked.waiting THEN tick' = NextJob(req)
        ELSE tick' = [tick EXCEPT
                 !.rec.script = SubSeq(tick.rec.script, 1, tick.rec.cursor - 1) \o WithinCapacity(steps(asked.unmet))
                                \o SubSeq(tick.rec.script, tick.rec.cursor + 1, Len(tick.rec.script)),
                 !.seals = @ \cup asked.seals]
    BY Zenon DEF compile
<1>3. CASE asked.waiting
    BY <1>1, <1>2, <1>3
<1>4. CASE ~asked.waiting
    <2>1. PICK unmet, seals : unmet = asked.unmet /\ seals = asked.seals
        OBVIOUS
    <2>2. tick' = [tick EXCEPT
              !.rec.script = SubSeq(tick.rec.script, 1, tick.rec.cursor - 1) \o WithinCapacity(steps(unmet))
                             \o SubSeq(tick.rec.script, tick.rec.cursor + 1, Len(tick.rec.script)),
              !.seals = @ \cup seals]
        BY <1>2, <1>4, <2>1, Zenon
    <2> QED BY <1>1, <2>2
<1> QED BY <1>3, <1>4

\* What is written in place of a script's only step is the script.
LEMMA OnlyStep ==
    ASSUME NEW s, IsSequence(s), Len(s) = 1, NEW made, IsSequence(made)
    PROVE  SubSeq(s, 1, 0) \o made \o SubSeq(s, 2, 1) = made
<1>1. PICK S : s \in Seq(S)
    BY DEF IsSequence
<1>2. SubSeq(s, 1, 0) = <<>> /\ SubSeq(s, 2, 1) = <<>>
    BY <1>1
<1>3. PICK M : made \in Seq(M)
    BY DEF IsSequence
<1>4. <<>> \o made = made /\ made \o <<>> = made
    BY <1>3
<1> QED BY <1>2, <1>4

\* A compile replaces itself, the only step there is, by steps that fit.
LEMMA CompileFits ==
    ASSUME ContextInv, FitInv, compile
    PROVE  FitInv'
<1>1. /\ At("compile") /\ UNCHANGED Stored
      /\ \/ tick' = NextJob(req)
         \/ \E unmet, seals :
               tick' = [tick EXCEPT
                   !.rec.script = SubSeq(tick.rec.script, 1, tick.rec.cursor - 1) \o WithinCapacity(steps(unmet))
                                  \o SubSeq(tick.rec.script, tick.rec.cursor + 1, Len(tick.rec.script)),
                   !.seals = @ \cup seals]
    BY Zenon, CompilesTo
<1>2. /\ tick.phase = "steps" /\ tick.rec.cursor <= Len(tick.rec.script)
      /\ tick.rec.script[tick.rec.cursor][1] = "compile" /\ UNCHANGED <<req, job>>
    BY <1>1 DEF At, Left, Step, Stored
<1>3. /\ HeldFits(tick) /\ Holding(tick) /\ DOMAIN tick = DOMAIN NoTick /\ DOMAIN tick.rec = DOMAIN NoJob
      /\ Head(tick.todo) \in Request /\ JobOK(tick.rec) /\ First \in Request
      /\ tick.rec.requests \in Seq(Request) /\ tick.rec.requests # <<>>
    BY <1>2, HeldFacts, TickFacts
<1>4. CASE tick' = NextJob(req)
    <2>1. PICK t, reqs : t = tick' /\ reqs = req /\ t = NextJob(reqs) /\ Within(reqs)
        BY <1>4 DEF FitInv
    <2>2. t = NoTick \/ HeldFits(t)
        BY <1>2, <2>1, NextJobFits
    <2> QED BY <1>2, <2>1, <2>2, FitStays
<1>5. ASSUME NEW unmet, NEW seals,
             tick' = [tick EXCEPT
                 !.rec.script = SubSeq(tick.rec.script, 1, tick.rec.cursor - 1) \o WithinCapacity(steps(unmet))
                                \o SubSeq(tick.rec.script, tick.rec.cursor + 1, Len(tick.rec.script)),
                 !.seals = @ \cup seals]
      PROVE  FitInv'
    <2>1. PICK j, rec, script, c :
              /\ j = Head(tick.todo) /\ rec = tick.rec /\ script = rec.script /\ c = rec.cursor
              /\ j \in Request /\ Fits(j, rec) /\ JobOK(rec)
        BY <1>3 DEF HeldFits
    <2>2. c = 1 /\ Len(script) = 1 /\ IsSequence(script)
        <3>1. c \in 1 .. Len(script) + 1 /\ Len(script) \in Nat /\ IsSequence(script)
            BY <2>1, SequencesJoined DEF JobOK
        <3>2. c \in 1 .. Len(script) /\ script[c][1] = "compile"
            BY <1>2, <2>1, <3>1
        <3>3. Len(script) = 1
            BY <2>1, <3>2 DEF Fits, CanRun
        <3> QED BY <3>1, <3>2, <3>3
    <2>3. IsSequence(Kind(First).items) /\ (\A it \in ToSet(Kind(First).items) : it.size \in Nat)
          /\ Ask[Head(tick.todo)].capacity \in Nat
        BY <1>3, ContextAssumption DEF Kind
    <2>4. PICK made : made = WithinCapacity(steps(unmet))
        OBVIOUS
    <2>5. Plain(made) /\ Needs(made, Items(j)) <= Ask[j].capacity
        <3>1. Plain(made) /\ Needs(made, Items(First)) <= Ask[j].capacity
            BY <2>1, <2>3, <2>4, WrittenFits
        <3>2. First \in ToSet(rec.requests)
            <4>1. PICK rs : rs = rec.requests /\ rs \in Seq(Request) /\ rs # <<>> /\ First = Head(rs)
                BY <1>3, <2>1 DEF First
            <4>2. IsSequence(rs)
                BY <4>1, SequenceFrom
            <4>3. Head(rs) \in ToSet(rs)
                BY <4>1, <4>2, SequencesTail
            <4> QED BY <4>1, <4>3
        <3>3. Items(First) = Items(j)
            <4>1. Serves(j, First)
                BY <2>1, <3>2 DEF Fits
            <4> QED BY <4>1, ServesAlike
        <3> QED BY <3>1, <3>3
    <2>6. tick' = [tick EXCEPT !.rec.script = made, !.seals = @ \cup seals]
        <3>1. SubSeq(script, 1, c - 1) \o made \o SubSeq(script, c + 1, Len(script)) = made
            <4>1. IsSequence(made) /\ c - 1 = 0 /\ c + 1 = 2
                BY <2>2, <2>5 DEF Plain
            <4>2. SubSeq(script, 1, 0) \o made \o SubSeq(script, 2, 1) = made
                BY <2>2, <4>1, OnlyStep
            <4> QED BY <2>2, <4>1, <4>2
        <3>2. tick' = [tick EXCEPT
                  !.rec.script = SubSeq(script, 1, c - 1) \o made \o SubSeq(script, c + 1, Len(script)),
                  !.seals = @ \cup seals]
            BY <1>5, <2>1, <2>4
        <3> QED BY <3>1, <3>2
    <2>7. PICK u, new : u = tick' /\ new = u.rec
        OBVIOUS
    <2>8. u.todo = tick.todo /\ u.reqs = tick.reqs /\ u.rec = [tick.rec EXCEPT !.script = made]
        BY <1>3, <2>6, <2>7 DEF NoTick
    <2>9. /\ new.requests = rec.requests /\ new.script = made /\ new.sections = rec.sections
          /\ new.cursor = rec.cursor
        BY <1>3, <2>1, <2>7, <2>8 DEF NoJob
    <2>10. Fits(j, new)
        <3>1. CanRun(made) /\ IsSequence(made)
            BY <2>5, PlainRuns DEF Plain
        <3>2. Part(made, 0) = <<>> /\ Part(script, 0) = <<>>
            BY <2>2, <3>1, PartMore
        <3>3. new.cursor - 1 = 0 /\ rec.cursor - 1 = 0
            <4>1. PICK a, b : a = new.cursor /\ b = rec.cursor /\ a = 1 /\ b = 1
                BY <2>1, <2>2, <2>9
            <4>2. a - 1 = 0 /\ b - 1 = 0
                BY <4>1
            <4> QED BY <4>1, <4>2
        <3>4. mandatory_size(rec.sections, Items(j)) <= Needs(Part(script, 0), Items(j))
            BY <2>1, <3>3 DEF Fits
        <3>5. mandatory_size(new.sections, Items(j)) <= Needs(Part(new.script, new.cursor - 1), Items(j))
            BY <2>9, <3>2, <3>3, <3>4
        <3>6. (\A r \in ToSet(new.requests) : Serves(j, r)) /\ Whole(new.sections)
            BY <2>1, <2>9 DEF Fits
        <3> QED BY <2>5, <2>9, <3>1, <3>5, <3>6 DEF Fits
    <2>11. HeldFits(u)
        BY <1>3, <2>1, <2>7, <2>8, <2>10 DEF HeldFits
    <2> QED BY <1>2, <2>7, <2>11, FitStays
<1> QED BY <1>1, <1>4, <1>5

-----------------------------------------------------------------------------
(* Requests.                                                               *)

\* A job that was not refused begins with a script that fits (context_submit).
LEMMA NewJobFits ==
    ASSUME launch \in DOMAIN Launch, NEW r \in Request, NEW j, j = new_job(r),
           ~(mandatory_size(Sections(script_for(r)), Items(r)) > Ask[r].capacity)
    PROVE  Fits(r, j)
<1>1. PICK given, items : given = script_for(r) /\ items = Items(r)
    OBVIOUS
<1>2. /\ IsSequence(given)
      /\ \A s \in ToSet(given) : s[1] # "compile" /\ (s[1] = "section" => IsSection(s[2]))
      /\ Ask[r].capacity \in Nat
    BY <1>1, ContextAssumption DEF script_for, Here
<1>3. Plain(given) /\ ScriptOK(given)
    BY <1>2, PlainRuns, WholeSized DEF Plain
<1>4. Needs(given, items) <= Ask[r].capacity
    <2>1. PICK n : n = Needs(given, items) /\ n \in Nat
        <3>1. PICK k : k = Len(given) /\ k \in Nat /\ Part(given, k) = given
            BY <1>3, NeedsMore
        <3>2. k \in 0 .. Len(given)
            BY <3>1
        <3>3. Needs(Part(given, k), items) \in Nat
            BY <1>3, <3>2, NeedsMore
        <3> QED BY <3>1, <3>3
    <2>2. ~(n > Ask[r].capacity)
        BY <1>1, <2>1 DEF Needs
    <2>3. n <= Ask[r].capacity
        BY <1>2, <2>1, <2>2
    <2> QED BY <2>1, <2>3
<1>5. PICK marker : marker = <<"compile">> /\ marker[1] = "compile"
    <2>1. PICK marker : marker = <<"compile">>
        OBVIOUS
    <2>2. marker[1] = "compile"
        BY <2>1
    <2> QED BY <2>1, <2>2
<1>6. PICK alone : alone = <<marker>>
    OBVIOUS
<1>7. CanRun(alone) /\ Needs(alone, items) = 0
    <2>1. alone \in Seq({marker}) /\ Len(alone) = 1 /\ alone[1] = marker
        BY <1>6
    <2>2. IsSequence(alone)
        BY <2>1, SequenceFrom
    <2>3. Needs(alone, items) = 0
        BY <1>5, <1>6, NeedsOne
    <2> QED BY <1>5, <2>1, <2>2, <2>3 DEF CanRun
<1>8. PICK script, unmet, corrections :
        /\ script = IF script_for(r) = <<>> /\ Here.compiling THEN <<<<"compile">>>> ELSE script_for(r)
        /\ unmet = [i \in DOMAIN Items(r) |-> ""]
        /\ corrections = [i \in DOMAIN Items(r) |-> 0]
    OBVIOUS
<1>9. script \in {alone, given}
    <2>1. alone = <<<<"compile">>>>
        BY <1>5, <1>6
    <2> QED BY <1>1, <1>8, <2>1
<1>10. j = [NoJob EXCEPT !.state = "running", !.requests = <<r>>, !.script = script,
                         !.unmet = unmet, !.corrections = corrections]
    BY <1>8 DEF new_job
<1>11. j.requests = <<r>> /\ j.script = script /\ j.cursor = 1 /\ j.sections = <<>>
    BY <1>10 DEF NoJob
<1>12. CanRun(script) /\ Needs(script, items) <= Ask[r].capacity /\ IsSequence(script)
    <2>1. 0 <= Ask[r].capacity
        BY <1>2
    <2>2. CanRun(given)
        BY <1>3, PlainRuns
    <2> QED BY <1>4, <1>7, <1>9, <2>1, <2>2 DEF CanRun
<1>13. \A s \in ToSet(j.requests) : Serves(r, s)
    <2>1. PICK one : one = <<r>>
        OBVIOUS
    <2>2. one \in Seq({r})
        BY <2>1
    <2>3. ToSet(one) \subseteq {r}
        BY <2>2, SequenceFrom
    <2>4. Serves(r, r)
        BY <1>2 DEF Serves
    <2> QED BY <1>11, <2>1, <2>3, <2>4
<1>14. Whole(j.sections)
    BY <1>11, EmptySequence DEF Whole
<1>15. mandatory_size(j.sections, items) <= Needs(Part(j.script, j.cursor - 1), items)
    <2>1. Part(script, 0) = <<>>
        BY <1>12, PartMore
    <2>2. mandatory_size(<<>>, items) = 0 /\ Needs(<<>>, items) = 0
        BY MandatoryNone, NeedsNone
    <2>3. j.cursor - 1 = 0
        BY <1>11
    <2>4. mandatory_size(j.sections, items) = 0 /\ Needs(Part(j.script, j.cursor - 1), items) = 0
        BY <1>11, <2>1, <2>2, <2>3
    <2> QED BY <2>4
<1> QED BY <1>1, <1>11, <1>12, <1>13, <1>14, <1>15 DEF Fits

\* A request joins a job only with room for what the job prepares.
LEMMA SubmitFits ==
    ASSUME ContextInv, FitInv, SharersHaveRoom, NEW r \in Request, context_submit(r)
    PROVE  FitInv'
<1>1. Idle /\ tick' = tick
    BY DEF context_submit
<1>2. /\ DOMAIN job = Request /\ \A i \in Request : JobOK(job[i])
      /\ DOMAIN req = Request /\ order \in Seq(Request)
    BY DEF ContextInv, Records
<1>3. ASSUME NEW q, q.packets = <<>>, req' = [req EXCEPT ![r] = q]
      PROVE  Within(req')
    <2>1. req'[r] = q /\ \A s \in Request \ {r} : req'[s] = req[s]
        BY <1>2, <1>3
    <2>2. Within(req)
        BY DEF FitInv
    <2>3. ASSUME NEW s \in Request, NEW n \in DOMAIN req'[s].packets
          PROVE  Total(req'[s].packets[n].sections) <= Capacity(s)
        <3>1. s # r
            <4>1. DOMAIN q.packets = {}
                BY <1>3, NoneYet
            <4> QED BY <2>1, <2>3, <4>1
        <3> QED BY <2>1, <2>2, <2>3, <3>1 DEF Within
    <2> QED BY <2>3 DEF Within
<1>4. ASSUME Within(req'), \A i \in Request : job'[i].state # "none" => Fits(i, job'[i])
      PROVE  FitInv'
    BY <1>1, <1>4 DEF Idle, FitInv
<1>5. \A i \in Request : job[i].state # "none" => Fits(i, job[i])
    BY DEF FitInv
<1>6. CASE mandatory_size(Sections(script_for(r)), Items(r)) > Ask[r].capacity
    <2>1. req' = [req EXCEPT ![r] = [NoRequest EXCEPT !.state = "refused"]] /\ job' = job
        BY <1>6 DEF context_submit
    <2>2. [NoRequest EXCEPT !.state = "refused"].packets = <<>>
        BY DEF NoRequest
    <2>3. Within(req')
        BY <1>3, <2>1, <2>2
    <2> QED BY <1>4, <1>5, <2>1, <2>3
<1>7. CASE ~(mandatory_size(Sections(script_for(r)), Items(r)) > Ask[r].capacity) /\ Joined(r) = <<>>
    <2>1. req' = [req EXCEPT ![r] = [NoRequest EXCEPT !.state = "preparing", !.job = r]]
          /\ job' = [job EXCEPT ![r] = new_job(r)]
        BY <1>7 DEF context_submit
    <2>2. Within(req')
        <3>1. [NoRequest EXCEPT !.state = "preparing", !.job = r].packets = <<>>
            BY DEF NoRequest
        <3> QED BY <1>3, <2>1, <3>1
    <2>3. PICK j : j = new_job(r)
        OBVIOUS
    <2>4. Fits(r, j)
        BY <1>7, <2>3, NewJobFits DEF ContextInv, Machine
    <2>5. job'[r] = j /\ \A i \in Request \ {r} : job'[i] = job[i]
        BY <1>2, <2>1, <2>3
    <2> QED BY <1>4, <1>5, <2>2, <2>4, <2>5
<1>8. CASE ~(mandatory_size(Sections(script_for(r)), Items(r)) > Ask[r].capacity) /\ Joined(r) # <<>>
    <2>1. PICK j : j = Head(Joined(r))
        OBVIOUS
    <2>2. req' = [req EXCEPT ![r] = [NoRequest EXCEPT !.state = "preparing", !.job = j]]
          /\ job' = [job EXCEPT ![j].requests = Append(@, r)]
        BY <1>8, <2>1 DEF context_submit
    <2>3. Within(req')
        <3>1. [NoRequest EXCEPT !.state = "preparing", !.job = j].packets = <<>>
            BY DEF NoRequest
        <3> QED BY <1>3, <2>2, <3>1
    <2>4. Ask[r].shared /\ j \in Request /\ may_join(j, r)
        <3>1. Ask[r].shared /\ Joined(r) = Where(order, {i \in Request : may_join(i, r)})
            BY <1>8 DEF Joined
        <3>2. PICK s, o : s = Joined(r) /\ o = order /\ o \in Seq(Request) /\ s # <<>>
                          /\ s = Where(o, {i \in Request : may_join(i, r)})
            BY <1>2, <1>8, <3>1
        <3>3. IsSequence(o)
            BY <3>2, SequenceFrom
        <3>4. IsSequence(s) /\ ToSet(s) \subseteq {i \in Request : may_join(i, r)}
            BY <3>2, <3>3, WhereKeeps
        <3>5. Head(s) \in ToSet(s)
            BY <3>2, <3>4, SequencesTail
        <3> QED BY <2>1, <3>1, <3>2, <3>4, <3>5
    <2>5. Serves(j, r) /\ job[j].state = "running"
        BY <2>4 DEF may_join, SharersHaveRoom, Serves
    <2>6. PICK rec, new : /\ rec = job[j] /\ new = [rec EXCEPT !.requests = Append(rec.requests, r)]
                          /\ job'[j] = new /\ \A i \in Request \ {j} : job'[i] = job[i]
        BY <1>2, <2>2, <2>4
    <2>7. Fits(j, rec) /\ JobOK(rec)
        BY <1>2, <1>5, <2>4, <2>5, <2>6
    <2>8. /\ new.requests = Append(rec.requests, r) /\ new.script = rec.script
          /\ new.sections = rec.sections /\ new.cursor = rec.cursor
        BY <2>6, <2>7 DEF JobOK, NoJob
    <2>9. \A s \in ToSet(new.requests) : Serves(j, s)
        <3>1. PICK a, b : a = rec.requests /\ b = Append(a, r) /\ b = new.requests /\ a \in Seq(Request)
            BY <2>7, <2>8 DEF JobOK
        <3>2. IsSequence(a)
            BY <3>1, SequenceFrom
        <3>3. ToSet(b) = ToSet(a) \cup {r}
            BY <3>1, <3>2, SequencesMore
        <3> QED BY <2>5, <2>7, <3>1, <3>3 DEF Fits
    <2>10. Fits(j, new)
        BY <2>7, <2>8, <2>9 DEF Fits
    <2> QED BY <1>4, <1>5, <2>3, <2>4, <2>6, <2>10
<1> QED BY <1>6, <1>7, <1>8

\* At the start there are no packets and no jobs.
LEMMA FitInit ==
    ASSUME Init
    PROVE  FitInv
<1>1. \A r \in Request : req[r] = NoRequest /\ job[r] = NoJob
    BY DEF Init
<1>2. NoRequest.packets = <<>> /\ NoJob.state = "none" /\ NoTick.phase = "idle"
    BY DEF NoRequest, NoJob, NoTick
<1>3. Within(req)
    BY <1>1, <1>2, NoneYet DEF Within
<1> QED BY <1>1, <1>2, <1>3 DEF FitInv, Init

\* Every step keeps what fits.
LEMMA FitNext ==
    ASSUME ContextInv, FitInv, SharersHaveRoom, [Next]_vars
    PROVE  FitInv'
<1>1. CASE tick_context
    BY <1>1, TickBeginFits
<1>2. CASE Prepare
    BY <1>2, PrepareFits
<1>3. CASE publish_all
    BY <1>3, PublishAllFits
<1>4. CASE End
    BY <1>4, EndFits
<1>5. CASE Rest
    BY <1>5, RestFits
<1>6. CASE compile
    BY <1>6, CompileFits
<1>7. CASE keep_outgoing_captures
    BY <1>7, CapturesFits
<1>8. CASE seal_packets
    BY <1>8, SealFits
<1>9. CASE commit
    BY <1>9, CommitFits
<1>10. CASE end_refused_job
    BY <1>10, RefusedFits
<1>11. ASSUME UNCHANGED <<req, job>>, tick' \in {tick, NoTick} PROVE FitInv'
    <2>1. PICK t : t = tick' /\ t \in {tick, NoTick}
        BY <1>11
    <2>2. NoTick.phase = "idle"
        BY DEF NoTick
    <2> QED BY <1>11, <2>1, <2>2 DEF FitInv
<1>12. CASE Stop
    BY <1>11, <1>12 DEF Stop, Stored
<1>13. ASSUME NEW r \in Request, context_submit(r) \/ context_cancel(r)
       PROVE  FitInv'
    BY <1>13, SubmitFits, CancelFits
<1>14. ASSUME NEW k \in DOMAIN pool, Finish(k)
       PROVE  FitInv'
    BY <1>11, <1>14 DEF Finish
<1>15. CASE Advance
    BY <1>11, <1>15 DEF Advance
<1>16. CASE Crash
    BY <1>11, <1>16 DEF Crash
<1>17. CASE Subscribe \/ Close \/ UNCHANGED vars
    BY <1>11, <1>17 DEF Subscribe, Close, Stored, vars
<1> QED BY <1>1, <1>2, <1>3, <1>4, <1>5, <1>6, <1>7, <1>8, <1>9, <1>10, <1>12, <1>13, <1>14, <1>15, <1>16, <1>17
        DEF Next, Tick

\* What a packet says is so: its sections fit the output capacity its reader gave,
\* though sections of required items are carried whatever room there is (inclusion),
\* and an item it says is satisfied has a current section.  What is required was
\* counted from the script before the job began (context_submit) or by the compiler,
\* so this holds whatever is corrected, replaced, cut short or retried since, if no
\* id is submitted again and who joins a job has room for what it prepares.
THEOREM PacketsAreTrue ==
    ASSUME Resubmitted = {}, SharersHaveRoom
    PROVE  Spec => []PacketsTrue
<1>1. Init => ContextInv /\ FitInv
    BY ContextInit, FitInit
<1>2. ContextInv /\ FitInv /\ [Next]_vars => ContextInv' /\ FitInv'
    BY ContextNext, FitNext
<1>3. ContextInv /\ FitInv => PacketsTrue
    BY DEF ContextInv, Records, RequestOK, IsTrue, SatisfiedByCurrent, FitInv, Within, CapacityKept, PacketsTrue
<1> QED BY <1>1, <1>2, <1>3, PTL DEF Spec

=============================================================================
