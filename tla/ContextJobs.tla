---------------------------- MODULE ContextJobs ----------------------------
(***************************************************************************)
(* Context preparation (provider/context_ops.rs): requests subscribe to    *)
(* jobs, the tick advances every running job step by step, work that takes *)
(* long leaves it for the pool, and what a job prepared is published as    *)
(* packets sealed here or at an evidence peer.                             *)
(*                                                                         *)
(* A tick runs under the owner's lock, so no command runs inside it; the   *)
(* threads of the pool, the clock and a crash do.  What the tick worked    *)
(* out for a job is in `tick` until its batch commits.                     *)
(***************************************************************************)
EXTENDS WorkPool, Packets

CONSTANTS
    Request,      \* request ids; a job has the id of the request it began for
    Ask,          \* what each request submits: its kind, deadline, output capacity,
                  \* investigation, and whether it takes updates, waits for its
                  \* advisory items and shares jobs
    Want,         \* what the requests of a kind want: their items, each with an
                  \* id, an obligation, the questions choosing for it takes and the
                  \* size of what is found, and whether discovery has trees to search
    Launch,       \* name of a launch -> whether it serves a socket, has a peer,
                  \* compiles and has a model, its scripts, and what is sealed and
                  \* indexed before it
    Outcomes,     \* how a question to a model can end
    Resubmitted,  \* the requests callers submit again
    Bound,        \* CONCURRENCY
    MaxNow, MaxFaults   \* bounds: the clock, crashes and failures

IsSequence(s) == s \in Seq(ToSet(s))

IsSection(s) == DOMAIN s = {"item", "size", "rev", "historical", "claim", "ids"} /\ s.size \in Nat

ASSUME ContextAssumption ==
    /\ "" \notin Request /\ MaxNow \in Nat /\ MaxFaults \in Nat
    /\ \A l \in DOMAIN Launch, r \in Request :
           /\ IsSequence(Launch[l].scripts[r])
           /\ \A s \in ToSet(Launch[l].scripts[r]) :   \* the vocabulary of scripts
                  s[1] # "compile" /\ (s[1] = "section" => IsSection(s[2]))
    /\ \A r \in Request :
           /\ Ask[r].capacity \in Nat /\ Ask[r].investigation \in Nat
           /\ IsSequence(Want[Ask[r].kind].items)
           /\ \A it \in ToSet(Want[Ask[r].kind].items) : it.parts \in Nat /\ it.size \in Nat
    /\ Outcomes \subseteq {"finished", "spoilt", "broken"}

VARIABLES
    launch,   \* the launch this process and its successors have
    req,      \* request records
    job,      \* job records
    order,    \* the jobs, in the order they were first recorded
    sealed,   \* artifacts of this store: packets <<r, n>> and derivations (keys)
    indexed,  \* the kinds whose repositories have an index of their tree
    peer,     \* what the evidence peer sealed: artifact -> packet and capture instant
    pool, now, faults,
    polling,  \* whether an open session polls: it subscribed, or owes maintenance
    tick,     \* the tick in progress
    calls     \* how often each question was put to a model while nothing failed

vars == <<launch, req, job, order, sealed, indexed, peer, pool, now, faults, polling, tick, calls>>

Published == {"ready", "partial", "unmet"}
NoRequest == [state |-> "none", job |-> "", packets |-> <<>>, items |-> <<>>]
NoJob == [state |-> "none", requests |-> <<>>, script |-> <<>>, cursor |-> 1, spent |-> 0, sections |-> <<>>,
          unmet |-> <<>>, corrections |-> <<>>, published |-> FALSE, captures |-> <<>>]
NoTick == [phase |-> "idle", todo |-> <<>>, at |-> 0, rec |-> NoJob, reqs |-> <<>>, out |-> <<>>,
           seals |-> {}, ended |-> FALSE, error |-> ""]

Kind(r) == Want[Ask[r].kind]
Items(r) == [i \in {it.id : it \in ToSet(Kind(r).items)} |->
                (CHOOSE it \in ToSet(Kind(r).items) : it.id = i).obligation]
Here == Launch[launch]

-----------------------------------------------------------------------------
(* Requests.                                                               *)

\* A script is a sequence of steps, tuples that begin with the step's name.
script_for(r) == Here.scripts[r]

Sections(script) ==
    LET made == Where(script, {s \in ToSet(script) : s[1] = "section"}) IN [n \in DOMAIN made |-> made[n][2]]

new_job(r) ==
    [NoJob EXCEPT !.state = "running", !.requests = <<r>>,
                  !.script = IF script_for(r) = <<>> /\ Here.compiling THEN <<<<"compile">>>> ELSE script_for(r),
                  !.unmet = [i \in DOMAIN Items(r) |-> ""], !.corrections = [i \in DOMAIN Items(r) |-> 0]]

\* `kind` stands for the principal, the basis, the items and the access scope.
may_join(j, r) ==
    job[j].state = "running" /\ ~job[j].published /\ Ask[j].kind = Ask[r].kind

Joined(r) == IF Ask[r].shared THEN Where(order, {j \in Request : may_join(j, r)}) ELSE <<>>

Idle == tick.phase = "idle"

\* Nothing in the code asks that the request be new; `Resubmitted` says which
\* ones a caller submits again.
context_submit(r) ==
    /\ Idle
    /\ req[r].state = "none" \/ r \in Resubmitted
    /\ IF mandatory_size(Sections(script_for(r)), Items(r)) > Ask[r].capacity
       THEN /\ req' = [req EXCEPT ![r] = [NoRequest EXCEPT !.state = "refused"]]
            /\ UNCHANGED <<job, order>>
       ELSE LET j == IF Joined(r) = <<>> THEN r ELSE Head(Joined(r)) IN
            /\ req' = [req EXCEPT ![r] = [NoRequest EXCEPT !.state = "preparing", !.job = j]]
            /\ job' = IF Joined(r) = <<>> THEN [job EXCEPT ![j] = new_job(r)]
                      ELSE [job EXCEPT ![j].requests = Append(@, r)]
            /\ order' = IF j \in ToSet(order) THEN order ELSE Append(order, j)
    /\ polling' = (polling \/ Here.socket)   \* the session owes maintenance from now on
    /\ UNCHANGED <<launch, sealed, indexed, peer, pool, now, faults, tick, calls>>

\* The keys of everything a job asked a model.
Of(j) == {k \in DOMAIN pool : k[1] = "model" /\ k[2] = j}

release_job(j) == pool' = release_all(pool, Of(j))

context_cancel(r) ==
    LET j == req[r].job
        others == Where(job[j].requests, Request \ {r}) IN
    /\ Idle /\ req[r].state = "preparing"
    /\ req' = [req EXCEPT ![r].state = "cancelled"]
    /\ job' = [job EXCEPT ![j].requests = others, ![j].state = IF others = <<>> THEN "ended" ELSE @]
    /\ IF others = <<>> THEN release_job(j) ELSE UNCHANGED pool
    /\ UNCHANGED <<launch, polling, order, sealed, indexed, peer, now, faults, tick, calls>>

-----------------------------------------------------------------------------
(* The tick, and the steps of a job.                                       *)

\* The tick at the first of the jobs left to do.
Turn(todo, reqs) ==
    IF todo = <<>> THEN NoTick
    ELSE [NoTick EXCEPT !.phase = "steps", !.todo = todo, !.at = now, !.rec = job[Head(todo)], !.reqs = reqs]

NextJob(reqs) == Turn(Tail(tick.todo), reqs)

tick_context ==
    LET running == Where(order, {j \in Request : job[j].state = "running"}) IN
    /\ Idle /\ running # <<>>
    /\ tick' = Turn(running, req)
    /\ UNCHANGED <<launch, polling, req, job, order, sealed, indexed, peer, pool, now, faults, calls>>

Left == tick.phase = "steps" /\ tick.rec.cursor <= Len(tick.rec.script)
Step == tick.rec.script[tick.rec.cursor]
At(name) == Left /\ Step[1] = name

Stored == <<launch, req, job, order, sealed, indexed, peer, now, faults>>

\* Past the step, with the job record it made.
Past(t) == [t EXCEPT !.rec.cursor = @ + 1]

Section(s) ==
    IF s.rev # 0 /\ s.item # "" /\ tick.rec.corrections[s.item] > s.rev
    THEN [s EXCEPT !.historical = TRUE] ELSE s

\* What was prepared from older revisions than the corrected one is historical.
Corrected(sections, item, rev) ==
    [n \in DOMAIN sections |->
        LET s == sections[n] IN
        IF s.item = item /\ s.rev # 0 /\ s.rev < rev THEN [s EXCEPT !.historical = TRUE] ELSE s]

\* The steps that only change the job.
Prepare ==
    /\ \/ /\ At("section")
          /\ tick' = Past([tick EXCEPT !.rec.sections = Append(@, Section(Step[2]))])
       \/ /\ At("unmet")
          /\ tick' = Past([tick EXCEPT !.rec.unmet[Step[2]] = Step[3]])
       \/ /\ At("correction")
          /\ tick' = Past([tick EXCEPT
                 !.rec.corrections[Step[2]] = Step[3],
                 !.rec.sections = Corrected(@, Step[2], Step[3])])
       \/ /\ At("wait_until") /\ Step[2] <= tick.at
          /\ tick' = Past(tick)
       \/ /\ At("note")   \* coverage, an omission, a condition: carried as they are
          /\ tick' = Past(tick)
    /\ UNCHANGED <<Stored, polling, pool, calls>>

Capacity(r) == Ask[r].capacity

\* The next packet of a request, if it is due one.
publish_one(t, r, reason) ==
    LET rec == t.reqs[r]
        due == rec.state = "preparing" \/ (rec.state \in Published /\ Ask[r].updates)
        a == <<r, Len(rec.packets) + 1>>
        composed_at == IF a \in DOMAIN t.rec.captures THEN t.rec.captures[a] ELSE t.at
        why == IF reason = "" /\ composed_at >= Ask[r].deadline THEN "deadline_passed" ELSE reason
        packet == compile_packet(t.rec.sections, Items(r), Capacity(r), t.rec.corrections, t.rec.unmet, why)
    IN IF t.error # "" \/ ~due THEN t
       ELSE IF ids_outside_grammar(packet) THEN [t EXCEPT !.error = "invalid"]
       ELSE IF ~Here.peer /\ a \in sealed \cup t.seals THEN [t EXCEPT !.error = "protocol"]
       ELSE [t EXCEPT !.reqs[r] = [rec EXCEPT !.packets = Append(rec.packets, packet), !.state = packet.state,
                                              !.items = packet.items],
                      !.out = Append(@, a),
                      !.seals = IF Here.peer THEN @ ELSE @ \cup {a}]

PublishTo(t, requests, reason) ==
    LET told[n \in 0 .. Len(requests)] ==
            IF n = 0 THEN t ELSE publish_one(told[n - 1], requests[n], reason)
    IN told[Len(requests)]

\* A tick that failed is dropped for what its error says.
Judged(t) == IF t.error = "" THEN t ELSE [t EXCEPT !.phase = t.error]

\* A subscriber whose advisory items are not there yet, and who waits for them.
Waits(r) ==
    /\ tick.reqs[r].state = "preparing" /\ Ask[r].waits /\ tick.at < Ask[r].deadline
    /\ LET now_ == item_results(tick.rec.sections, Items(r), Capacity(r), tick.rec.corrections,
                                tick.rec.unmet, FALSE, "")
       IN \E i \in DOMAIN now_ : ~is_required(Items(r), i) /\ now_[i][1] # "satisfied"

publish_all ==
    /\ At("publish") /\ ~\E r \in ToSet(tick.rec.requests) : Waits(r)
    /\ LET t == PublishTo(tick, tick.rec.requests, "") IN
       tick' = Judged(IF t.error = "" THEN Past([t EXCEPT !.rec.published = TRUE]) ELSE t)
    /\ UNCHANGED <<Stored, polling, pool, calls>>

\* Every subscriber is published what there is, and the job ends.
finish(t, reason) ==
    LET p == PublishTo(t, t.rec.requests, reason) IN
    Judged(IF p.error # "" THEN p
           ELSE [p EXCEPT !.rec.published = TRUE, !.rec.state = "ended", !.ended = TRUE, !.phase = "captures"])

End ==
    /\ \/ At("end") /\ tick' = finish(tick, Step[2])
       \/ /\ At("investigate")
          /\ LET spent == tick.rec.spent + Step[2]
                 t == [tick EXCEPT !.rec.spent = spent] IN
             tick' = IF spent > Ask[Head(tick.todo)].investigation
                     THEN finish(t, "investigation_exhausted") ELSE Past(t)
    /\ UNCHANGED <<Stored, polling, pool, calls>>

\* No step goes on: the subscribers whose deadline has passed are published
\* what there is.
Rest ==
    LET late == Where(tick.rec.requests, {r \in Request :
                    tick.reqs[r].state = "preparing" /\ tick.at >= Ask[r].deadline}) IN
    /\ \/ tick.phase = "steps" /\ ~Left
       \/ At("stall")
       \/ At("wait_until") /\ Step[2] > tick.at
       \/ At("publish") /\ \E r \in ToSet(tick.rec.requests) : Waits(r)
    /\ tick' = Judged([PublishTo(tick, late, "deadline_passed") EXCEPT !.phase = "captures"])
    /\ UNCHANGED <<Stored, polling, pool, calls>>

-----------------------------------------------------------------------------
(* Compiling: the step that asks the pool.                                 *)

Index(j) == <<"index", Ask[j].kind, "", "", 0>>
First == Head(tick.rec.requests)   \* the subscriber whose task and deadline count
Question(item, n) == <<"model", tick.reqs[First].job, First, item, n>>
Investigation == Ask[Head(tick.todo)].investigation

\* A model is asked only by a launch that has one, for a request that authorised
\* an investigation.
Assisted == Here.model /\ Investigation > 0

room_for(acc, count) == acc.spent + count <= Investigation

\* The exchanges among `keys` whose answer was taken, which are sealed with the
\* batch of the tick, usable or not.
seal_derivation(asked, keys) ==
    {k \in keys : k \in DOMAIN asked /\ asked[k] \in {"done", "useless"}}

\* Questions put to the pool in order, all of them started before any is waited
\* for.  One whose answer cannot be used, that failed or that timed out leaves
\* `name` unmet.
ask_step(acc, name, keys) ==
    LET put[n \in 0 .. Len(keys)] ==
            IF n = 0 THEN acc.pool ELSE progress(put[n - 1], keys[n], tick.at >= Ask[First].deadline, Bound)
        asked == put[Len(keys)]
        ready == \A n \in DOMAIN keys : Answered(asked, keys[n])
    IN [acc EXCEPT
           !.pool = asked, !.spent = @ + Len(keys), !.waiting = ~ready,
           !.unmet = IF ready /\ \E n \in DOMAIN keys : asked[keys[n]] # "done" THEN Over(@, Only(name, "model")) ELSE @,
           !.seals = @ \cup seal_derivation(asked, ToSet(keys))]

\* The parts of an item are claimed together; an item the investigation has no
\* room for is unmet, and is not given what ranked first.
project(acc, it) ==
    IF room_for(acc, it.parts) THEN ask_step(acc, it.id, [n \in 1 .. it.parts |-> Question(it.id, n)])
    ELSE [acc EXCEPT !.unmet = Over(@, Only(it.id, "investigation_exhausted"))]

\* One item.  `parts` is how many questions choosing for it takes, 0 when there
\* is nothing to choose between; `size` is what is found for it, 0 for nothing.
\* Once a question has no answer yet, the compile ends there.
decide_item(acc, it) ==
    IF acc.waiting THEN acc
    ELSE IF it.size = 0 THEN [acc EXCEPT !.unmet = Over(@, Only(it.id, "source_absent_at_basis"))]
    ELSE IF it.parts = 0 \/ ~Assisted THEN acc
    ELSE project(acc, it)

\* Discovery asks for terms and then for a choice, or for neither when there is
\* room for one question only.
assist_discovery(acc) ==
    IF acc.waiting \/ ~Assisted \/ ~Kind(First).discovers \/ ~room_for(acc, 2) THEN acc
    ELSE LET terms == ask_step(acc, "terms", <<Question("terms", 1)>>) IN
         IF terms.waiting \/ "terms" \in DOMAIN terms.unmet THEN terms
         ELSE ask_step(terms, "choice", <<Question("choice", 1)>>)

\* The section of an item's selection.
Selected(it) ==
    [item |-> it.id, size |-> it.size, rev |-> 0, historical |-> FALSE, claim |-> "none", ids |-> TRUE]

\* The steps the compiler replaces its marker by: a section for each item that
\* has one, the reasons of the others, and the publication.
steps(unmet) ==
    LET found == Where(Kind(First).items, {it \in ToSet(Kind(First).items) : it.id \notin DOMAIN unmet})
        lacking == Where(Kind(First).items, {it \in ToSet(Kind(First).items) : it.id \in DOMAIN unmet})
    IN [n \in DOMAIN found |-> <<"section", Selected(found[n])>>]
       \o [n \in DOMAIN lacking |-> <<"unmet", lacking[n].id, unmet[lacking[n].id]>>]
       \o <<<<"publish">>>>

\* A compiled request learns that what it must have does not fit only now.
WithinCapacity(script) ==
    IF mandatory_size(Sections(script), Items(First)) > Ask[Head(tick.todo)].capacity
    THEN <<<<"end", "budget_insufficient">>>> ELSE script

\* Mutant: an answer is let go of as soon as it was read.
ReadsAndReleases(acc) == release_all(acc.pool, acc.seals)

\* What the pool keeps of a compile that has to wait.
Kept(acc) == acc.pool

\* A repository that is not indexed yet is left to the pool first, with no
\* deadline; an answer is released once it was taken.
ensure_index ==
    LET k == Index(Head(tick.todo))
        asked == progress(pool, k, FALSE, Bound)
    IN IF k[2] \in indexed THEN [pool |-> pool, ready |-> TRUE]
       ELSE IF Answered(asked, k) /\ asked[k] = "done" THEN [pool |-> release_all(asked, {k}), ready |-> TRUE]
       ELSE [pool |-> asked, ready |-> Answered(asked, k)]

compile ==
    LET start == [pool |-> ensure_index.pool, waiting |-> ~ensure_index.ready,
                  spent |-> 0, unmet |-> <<>>, seals |-> {}]
        items == Kind(First).items
        decided[n \in 0 .. Len(items)] ==
            IF n = 0 THEN start ELSE decide_item(decided[n - 1], items[n])
        asked == assist_discovery(decided[Len(items)])
        started == {k \in DOMAIN asked.pool \ DOMAIN pool : faults = 0 /\ k[1] = "model"}
        script == tick.rec.script
        c == tick.rec.cursor
    IN /\ At("compile")
       /\ calls' = [k \in DOMAIN calls \cup started |->
                       (IF k \in DOMAIN calls THEN calls[k] ELSE 0) + (IF k \in started THEN 1 ELSE 0)]
       /\ IF asked.waiting
          THEN /\ pool' = Kept(asked)
               /\ tick' = NextJob(req)
          ELSE /\ pool' = release_all(asked.pool, {k \in DOMAIN asked.pool :
                                                      k[1] = "model" /\ k[2] = tick.reqs[First].job})
               /\ tick' = [tick EXCEPT
                      !.rec.script = SubSeq(script, 1, c - 1) \o WithinCapacity(steps(asked.unmet))
                                     \o SubSeq(script, c + 1, Len(script)),
                      !.seals = @ \cup asked.seals]
       /\ UNCHANGED <<Stored, polling>>

-----------------------------------------------------------------------------
(* What a tick leaves behind.                                              *)

\* Whether something the environment may do MaxFaults times happens.
Fault == faults < MaxFaults /\ faults' = faults + 1

Uncaptured == ToSet(tick.out) \ DOMAIN tick.rec.captures

\* The capture instants of the packets bound for the peer are kept first, in a
\* commit of their own.
keep_outgoing_captures ==
    LET kept == IF Here.peer THEN Over(tick.rec.captures, [a \in Uncaptured |-> tick.at])
                ELSE tick.rec.captures
        stored == IF Here.peer THEN Over(job[Head(tick.todo)].captures, [a \in Uncaptured |-> tick.at])
                  ELSE job[Head(tick.todo)].captures
    IN /\ tick.phase = "captures"
       /\ \/ /\ tick' = [tick EXCEPT !.phase = "seal", !.rec.captures = kept]
             /\ job' = [job EXCEPT ![Head(tick.todo)].captures = stored]
             /\ UNCHANGED faults
          \/ Here.peer /\ Uncaptured # {} /\ Fault /\ tick' = NoTick /\ UNCHANGED job
       /\ UNCHANGED <<launch, polling, req, order, sealed, indexed, peer, pool, now, calls>>

ToPeer(a) == [packet |-> tick.reqs[a[1]].packets[a[2]], captured |-> tick.rec.captures[a]]

\* The peer seals what it is sent, answers a command it has seen again, and
\* refuses other bytes under an id it sealed.
Seals(a) == a \in DOMAIN peer => peer[a] = ToPeer(a)

\* Mutant: a packet the peer did not seal is taken as sealed.
TakenAsSealed ==
    /\ tick.phase = "seal" /\ tick.out # <<>> /\ Here.peer
    /\ LET a == Head(tick.out) IN
       \/ Seals(a) /\ peer' = Over(Only(a, ToPeer(a)), peer) /\ UNCHANGED faults
       \/ UNCHANGED peer /\ IF Seals(a) THEN Fault ELSE UNCHANGED faults
    /\ tick' = [tick EXCEPT !.out = Tail(@)]
    /\ UNCHANGED <<launch, polling, req, job, order, sealed, indexed, pool, now, calls>>

\* One packet leaves.  The peer may be away, and its answer may be lost.
seal_packets ==
    /\ tick.phase = "seal" /\ tick.out # <<>> /\ Here.peer
    /\ LET a == Head(tick.out) IN
       \/ /\ Seals(a)
          /\ peer' = Over(Only(a, ToPeer(a)), peer)
          /\ \/ tick' = [tick EXCEPT !.out = Tail(@)] /\ UNCHANGED faults
             \/ tick' = NextJob(req) /\ Fault
       \/ /\ UNCHANGED peer
          /\ tick' = NextJob(req)
          /\ IF Seals(a) THEN Fault ELSE UNCHANGED faults
    /\ UNCHANGED <<launch, polling, req, job, order, sealed, indexed, pool, now, calls>>

\* The batch of a tick that ran to the end: what a job that ended asked is let
\* go of, and all is committed at once, or, the store failing, nothing is.
commit ==
    LET j == Head(tick.todo) IN
    /\ tick.phase = "seal" /\ (tick.out = <<>> \/ ~Here.peer)
    /\ IF tick.ended THEN release_job(j) ELSE UNCHANGED pool
    /\ \/ /\ req' = tick.reqs
          /\ job' = [job EXCEPT ![j] = tick.rec]
          /\ sealed' = sealed \cup tick.seals
          /\ tick' = NextJob(tick.reqs)
          /\ UNCHANGED faults
       \/ Fault /\ tick' = NoTick /\ UNCHANGED <<req, job, sealed>>
    /\ UNCHANGED <<launch, polling, order, indexed, peer, now, calls>>

\* Mutant: a job whose packet was refused is left for a later tick.
LeftForLater ==
    /\ tick.phase = "invalid"
    /\ tick' = NextJob(req)
    /\ UNCHANGED <<Stored, polling, pool, calls>>

\* A packet the guard refused ends its job, from what is stored, and the tick
\* goes on to the next one.
end_refused_job ==
    LET j == Head(tick.todo)
        refused == {r \in ToSet(job[j].requests) : req[r].state = "preparing"} IN
    /\ tick.phase = "invalid"
    /\ \/ /\ req' = [r \in Request |->
                       IF r \in refused
                       THEN [req[r] EXCEPT !.state = "refused", !.items = refused_items(Items(r), "packet_invalid")]
                       ELSE req[r]]
          /\ job' = [job EXCEPT ![j].state = "ended"]
          /\ release_job(j)
          /\ tick' = NextJob(req')
          /\ UNCHANGED faults
       \/ Fault /\ tick' = NoTick /\ UNCHANGED <<req, job, pool>>
    /\ UNCHANGED <<launch, polling, order, sealed, indexed, peer, now, calls>>

\* Any other failure ends the whole tick, the jobs that were left too.
Stop ==
    /\ tick.phase = "protocol"
    /\ tick' = NoTick
    /\ UNCHANGED <<Stored, polling, pool, calls>>

-----------------------------------------------------------------------------
(* The threads of the pool, the clock and the process.                     *)

\* A unit ends; it is seen by the next tick that asks.  The build of an index has written its manifest by then.
Finish(k) ==
    /\ Idle /\ pool[k] = "running"
    /\ \E how \in IF k[1] = "index" THEN {"finished", "broken"} ELSE Outcomes :
           /\ pool' = [pool EXCEPT ![k] = how]
           /\ indexed' = IF k[1] = "index" /\ how = "finished" THEN indexed \cup {k[2]} ELSE indexed
    /\ UNCHANGED <<launch, polling, req, job, order, sealed, peer, now, faults, tick, calls>>

\* Time passes between ticks: each job of a tick is advanced at one instant.
Advance ==
    /\ Idle /\ now < MaxNow
    /\ now' = now + 1
    /\ UNCHANGED <<launch, polling, req, job, order, sealed, indexed, peer, pool, faults, tick, calls>>

\* A session at the socket subscribes; the last of those that poll ends.  What a
\* session owes goes with it, and a tick under way does not ask who polls.
Subscribe ==
    /\ Idle /\ Here.socket /\ ~polling
    /\ polling' = TRUE
    /\ UNCHANGED <<Stored, pool, tick, calls>>

Close ==
    /\ Idle /\ polling
    /\ polling' = FALSE
    /\ UNCHANGED <<Stored, pool, tick, calls>>

\* The process is killed and started again: what it had in memory is gone.
\* Until a tick has kept an instant it has left nothing behind, and a crash then
\* is one before it.
Crash ==
    /\ tick.phase \in {"idle", "seal"} /\ Fault
    /\ tick' = NoTick /\ pool' = Empty /\ calls' = <<>> /\ polling' = FALSE
    /\ UNCHANGED <<launch, req, job, order, sealed, indexed, peer, now>>

Init ==
    /\ launch \in DOMAIN Launch
    /\ req = [r \in Request |-> NoRequest]
    /\ job = [r \in Request |-> NoJob]
    /\ order = <<>> /\ sealed = Here.taken /\ indexed = Here.indexed /\ peer = <<>>
    /\ pool = Empty /\ now = 0 /\ faults = 0 /\ polling = FALSE /\ tick = NoTick /\ calls = <<>>

Tick ==
    \/ tick_context \/ Prepare \/ publish_all \/ End \/ Rest \/ compile
    \/ keep_outgoing_captures \/ seal_packets \/ commit \/ end_refused_job \/ Stop

Next ==
    \/ Tick
    \/ \E r \in Request : context_submit(r) \/ context_cancel(r)
    \/ \E k \in DOMAIN pool : Finish(k)
    \/ Advance \/ Subscribe \/ Close \/ Crash

\* A tick comes with every request, and with the polls of a session that has
\* something to poll for (poll_idle); one that began goes on.  Nobody need send
\* anything, so ticks are sure to come while a session polls and a job runs, and
\* not otherwise.  (Every step of Tick changes `tick`.)
NoneDue == Idle /\ (~polling \/ \A j \in Request : job[j].state # "running")
TicksGoOn == []<>NoneDue \/ []<><<TRUE>>_tick

\* A unit of work ends, a model call because its waits are bounded; time passes,
\* also between ticks.
Fairness == TicksGoOn /\ SF_vars(\E k \in DOMAIN pool : Finish(k)) /\ SF_vars(Advance)

Spec == Init /\ [][Next]_vars /\ Fairness

-----------------------------------------------------------------------------
(* Properties.                                                             *)

TypeOK ==
    /\ launch \in DOMAIN Launch /\ now \in 0 .. MaxNow /\ faults \in 0 .. MaxFaults
    /\ \A r \in Request :
           /\ req[r].state \in {"none", "preparing", "refused", "cancelled"} \cup Published
           /\ req[r].state = "none" <=> req[r] = NoRequest
           /\ req[r].job \in Request \cup {""}
           /\ job[r].state \in {"none", "running", "ended"}
           /\ ToSet(job[r].requests) \subseteq Request
           /\ job[r].cursor \in 1 .. Len(job[r].script) + 1
    /\ ToSet(order) = {r \in Request : job[r].state # "none"}
    /\ \A k \in DOMAIN pool : pool[k] \in {"running", "finished", "spoilt", "broken"} \cup Settled
    /\ tick.phase \in {"idle", "steps", "captures", "seal", "invalid", "protocol"}
    /\ \A k \in DOMAIN calls : calls[k] \in Nat \ {0}

\* "An ended job never leaves a subscriber `preparing`: the next tick skips it"
\* (end_refused_job), however it ended, and a request that is preparing is a
\* subscriber of the job it names.
PreparingIsPrepared ==
    \A r \in Request : req[r].state = "preparing" =>
        job[req[r].job].state = "running" /\ r \in ToSet(job[req[r].job].requests)

\* Every packet a request was given is sealed, whole and as it was composed, at
\* the peer or in this store: nothing is published before it was sealed, and a
\* retry after a crash or a lost answer does not publish other bytes.
PublishedIsSealed ==
    \A r \in Request : \A n \in DOMAIN req[r].packets :
        IF Here.peer THEN <<r, n>> \in DOMAIN peer /\ peer[<<r, n>>].packet = req[r].packets[n]
        ELSE <<r, n>> \in sealed

\* What the peer has was captured at the instant the job keeps for it, so the
\* same commands are sent again ("so a send that the batch never follows is
\* retried with the same bytes", tick_context).
CapturedBeforeSent ==
    \A a \in DOMAIN peer : \E j \in Request :
        a \in DOMAIN job[j].captures /\ job[j].captures[a] = peer[a].captured

\* Publication has no half-done state that lasts (tick_context, seal_packets,
\* end_refused_job): a request is prepared by a running job until it has an end,
\* what it was given is sealed, and what was sent is what would be sent again.
PublicationSound == TypeOK /\ PreparingIsPrepared /\ PublishedIsSealed /\ CapturedBeforeSent

\* The sections of a packet fit the output capacity its request gave.
CapacityKept ==
    \A r \in Request : \A n \in DOMAIN req[r].packets :
        Total(req[r].packets[n].sections) <= Capacity(r)

Calls(j, rs) == MapThenSumSet(LAMBDA k : calls[k], {k \in DOMAIN calls : k[2] = j /\ k[3] \in rs})

\* While nothing fails, what a job puts to a model on behalf of one subscriber
\* stays within the investigation the job was given, over all the ticks it takes:
\* an answer is not asked for a second time.
InvestigationKept ==
    faults = 0 => \A j, r \in Request : Calls(j, {r}) <= Ask[j].investigation

\* A result that says an item is satisfied rests on a section of the packet that
\* is current and derives from the last revision its authority gave.
SatisfiedByCurrent ==
    \A r \in Request : \A n \in DOMAIN req[r].packets : \A i \in DOMAIN Items(r) :
        LET p == req[r].packets[n] IN
        p.items[i][1] = "satisfied" =>
            \E m \in DOMAIN p.sections : p.sections[m].item = i /\ ~p.sections[m].historical

\* What a packet says of itself and its items is so (inclusion, item_results).
PacketsTrue == CapacityKept /\ SatisfiedByCurrent

\* Every request gets an end as long as a session polls: a packet, a refusal or a
\* cancellation, whatever fails or is killed in between, and though packets of the
\* jobs before it are refused, their questions fail or their peer is away.  (One
\* whose packet's identifier somebody's evidence has taken is not published, and
\* while it prepares the jobs behind it are not either: no such job has others
\* behind it where this is checked.)
RequestsEnd ==
    \A r \in Request :
        (req[r].state = "preparing" /\ polling /\ <<r, 1>> \notin Here.taken) ~>
            (req[r].state # "preparing" \/ ~polling)

=============================================================================
