------------------------------ MODULE Delivery ------------------------------
(***************************************************************************)
(* Delivery of subscribed events over a connection: the session loop of    *)
(* crates/cbr-provider/src/session.rs, the subscriptions of provider.rs    *)
(* and the bounded outbox with its writer thread (outbox.rs), for one      *)
(* consumer that reconnects from the cursors it received last.             *)
(*                                                                         *)
(* A drain holds the processing turn, so it is one step.  Its room is      *)
(* measured before, and the writer goes on in between.  The deadlines of a *)
(* stall and of its notices are steps that may happen at any time.         *)
(***************************************************************************)
EXTENDS EventFollower

CONSTANTS
    Granted,      \* the readers that act under a grant, not as an authority
    Bound,        \* max_pending_notification_bytes
    Page,         \* events that a drain reads at a time (1000 in the code)
    MaxConnects,  \* bound: connections
    MaxPlain      \* bound: frames that change nothing here, on a connection

ASSUME DeliveryAssumption ==
    /\ Granted \subseteq Reader
    /\ Bound \in Nat \ {0} /\ Page \in Nat \ {0} /\ MaxConnects \in Nat
    /\ MaxPlain \in Nat

VARIABLES
    link,        \* the connection, as the consumer has it
    at,          \* where the session's thread is
    resume,      \* where it goes on once there is room
    owes,        \* the event of the command it has to answer, or 0
    after,       \* where it goes on once it has answered
    plain,       \* frames that changed nothing here
    room, whole, \* what the next drain may produce
    subs,        \* the subscriptions, in order
    asked,       \* who subscribed on this connection
    negotiated,  \* core.events.backpressure
    queue,       \* Outbox: frames not yet written
    abandoned, failed,
    writer,      \* where the writer's thread is
    hand,        \* the frame it writes
    auth,        \* whose grant still authorizes
    lapsed,      \* history: the events there were when it ceased to
    over,        \* who was told that the subscription cannot go on
    connects

session == <<at, resume, owes, after, plain, room, whole, subs, asked, negotiated>>
outbox == <<queue, abandoned, failed, writer, hand>>
vars == <<log, rows, vouched, discarded, rev, phase, starts,
          cursor, since, told, known, lost,
          link, at, resume, owes, after, plain, room, whole, subs, asked, negotiated,
          queue, abandoned, failed, writer, hand, auth, lapsed, over, connects>>

-----------------------------------------------------------------------------
NoFrame == [kind |-> "none"]

Response(cause) ==
    [kind |-> "response", reader |-> {}, cause |-> cause, items |-> <<>>,
     at |-> Nothing, again |-> TRUE, size |-> 1]

\* notification(): items and the cursor after them.
Notify(r, read) ==
    [kind |-> "notify", reader |-> {r}, cause |-> 0, items |-> read.items,
     at |-> read.at, again |-> TRUE, size |-> read.used]

\* ending_notification(): where delivery stopped, and whether a consumer may
\* subscribe again.
Ending(r, position, again) ==
    [kind |-> "ended", reader |-> {r}, cause |-> 0, items |-> <<>>,
     at |-> position, again |-> again, size |-> 1]

\* What the frames of some kinds weigh.
Weight(frames, kinds) ==
    LET weight[k \in 0 .. Len(frames)] ==
            IF k = 0 THEN 0
            ELSE IF frames[k].kind \in kinds THEN weight[k - 1] + frames[k].size
            ELSE weight[k - 1]
    IN  weight[Len(frames)]

\* Outbox::pending: bytes produced and not yet written.
Pending == Weight(queue, {"response", "notify", "ended"})

\* Where the two threads may be.
Places == {"none", "read", "respond", "push", "measure", "drain", "room",
           "notices", "abandon", "shutdown", "close", "over"}

WriterPlaces == {"idle", "writing", "wrote", "stopped"}

\* Type correctness of the session, the outbox and the consumer.
TypeOK ==
    /\ StoreTypeOK /\ FollowerTypeOK
    /\ link \in {"none", "open", "half", "gone"}
    /\ at \in Places
    /\ resume \in {"push", "measure"}
    /\ owes \in Nat /\ after \in {"measure", "read", "close"} /\ plain \in Nat
    /\ room \in 0 .. Bound /\ whole \in BOOLEAN
    /\ subs \in Seq([reader : Reader, cursor : Position])
    /\ asked \subseteq Reader /\ negotiated \in BOOLEAN
    /\ \A k \in DOMAIN queue : queue[k].kind \in {"response", "notify", "ended"}
    /\ abandoned \in BOOLEAN /\ failed \in BOOLEAN
    /\ writer \in WriterPlaces
    /\ hand = NoFrame <=> writer \in {"idle", "stopped"}
    /\ auth \subseteq Reader /\ over \subseteq Reader
    /\ lapsed \in [Reader -> Nat]
    /\ connects \in Nat

Init ==
    /\ StoreInit /\ FollowerInit
    /\ link = "none" /\ at = "none" /\ resume = "measure" /\ owes = 0
    /\ after = "measure" /\ plain = 0
    /\ room = 0 /\ whole = FALSE
    /\ subs = <<>> /\ asked = {} /\ negotiated = FALSE
    /\ queue = <<>> /\ abandoned = FALSE /\ failed = FALSE
    /\ writer = "stopped" /\ hand = NoFrame
    /\ auth = Reader /\ over = {}
    /\ lapsed = [r \in Reader |-> 0]
    /\ connects = 0

\* The subscriptions but those of some readers (retain).
Without(entries, gone) ==
    LET kept[k \in 0 .. Len(entries)] ==
            IF k = 0 THEN <<>>
            ELSE IF entries[k].reader \in gone THEN kept[k - 1]
            ELSE Append(kept[k - 1], entries[k])
    IN  kept[Len(entries)]

Subscribed == {subs[k].reader : k \in DOMAIN subs}

-----------------------------------------------------------------------------
(* The consumer, and the rest of the provider. *)

Connect ==
    /\ phase = "up" /\ link = "none" /\ connects < MaxConnects
    /\ connects' = connects + 1
    /\ link' = "open" /\ at' = "read"
    /\ negotiated' \in BOOLEAN
    /\ writer' = "idle"
    /\ UNCHANGED <<store, followers, resume, owes, after, plain, room, whole, subs, asked,
                   queue, abandoned, failed, hand, auth, lapsed, over>>

\* The consumer ends its input and reads on, or goes away.
EndInput ==
    /\ link = "open"
    /\ link' \in {"half", "gone"}
    /\ UNCHANGED <<store, followers, session, outbox, auth, lapsed, over, connects>>

Hangup ==
    /\ link = "half"
    /\ link' = "gone"
    /\ UNCHANGED <<store, followers, session, outbox, auth, lapsed, over, connects>>

\* What a connection leaves behind is dropped once its session is over.
Reset ==
    /\ at' = "none" /\ link' = "none"
    /\ subs' = <<>> /\ asked' = {} /\ owes' = 0 /\ resume' = "measure"
    /\ after' = "measure" /\ plain' = 0
    /\ room' = 0 /\ whole' = FALSE /\ negotiated' = FALSE
    /\ queue' = <<>> /\ abandoned' = FALSE /\ failed' = FALSE
    /\ writer' = "stopped" /\ hand' = NoFrame

Gone ==
    /\ at = "over" /\ link = "gone"
    /\ Reset
    /\ UNCHANGED <<store, followers, auth, lapsed, over, connects>>

\* A command on another connection, and a grant that is revoked or expires.
Elsewhere ==
    /\ \E s \in Subject : CommitCommand(s, 0, {}, {})
    /\ UNCHANGED <<followers, link, session, outbox, auth, lapsed, over, connects>>

Lapse(r) ==
    /\ r \in Granted \cap auth
    /\ auth' = auth \ {r}
    /\ lapsed' = [lapsed EXCEPT ![r] = Len(log)]
    /\ UNCHANGED <<store, followers, link, session, outbox, over, connects>>

\* The process dies, and what it held in memory with it; or it is starting.
ProcessDies ==
    /\ Crash
    /\ Reset
    /\ UNCHANGED <<followers, auth, lapsed, over, connects>>

Starting ==
    /\ \/ Open \/ SameEpoch \/ RetainAll \/ ReconcileCapabilities
       \/ \E u \in Unvouched : StartNewEpoch(u)
       \/ \E n \in Retain : RetainLastEvents(n)
    /\ UNCHANGED <<followers, link, session, outbox, auth, lapsed, over, connects>>

-----------------------------------------------------------------------------
(* The writer's thread (Outbox::start). *)

\* The front frame stays in the queue until it is written.
Pick ==
    /\ writer = "idle" /\ ~ abandoned /\ queue # <<>>
    /\ hand' = Head(queue)
    /\ writer' = "writing"
    /\ UNCHANGED <<store, followers, link, session, queue, abandoned, failed,
                   auth, lapsed, over, connects>>

\* The consumer reads the frame, and keeps the cursor that came with it.
Written ==
    /\ writer = "writing" /\ link \in {"open", "half"}
    /\ writer' = "wrote"
    /\ IF hand.kind = "response" THEN UNCHANGED <<cursor, told, known, lost, over>>
       ELSE \E r \in hand.reader :
                /\ Learn(r, hand.items, hand.at)
                /\ over' = IF hand.again THEN over ELSE over \cup {r}
    /\ UNCHANGED <<store, since, link, session, queue, abandoned, failed, hand,
                   auth, lapsed, connects>>

\* Then it is taken out, unless the connection was abandoned meanwhile.
Popped ==
    /\ writer = "wrote"
    /\ hand' = NoFrame
    /\ \/ abandoned /\ writer' = "stopped" /\ UNCHANGED queue
       \/ ~ abandoned /\ writer' = "idle" /\ queue' = Tail(queue)
    /\ UNCHANGED <<store, followers, link, session, abandoned, failed,
                   auth, lapsed, over, connects>>

\* The peer is gone.
WriteFails ==
    /\ writer = "writing" /\ link = "gone"
    /\ failed' = (failed \/ ~ abandoned)
    /\ writer' = "stopped" /\ hand' = NoFrame
    /\ UNCHANGED <<store, followers, link, session, queue, abandoned,
                   auth, lapsed, over, connects>>

\* push(): nothing is queued once writing failed or the outbox was abandoned.
Push(frames) == queue' = IF failed \/ abandoned THEN queue ELSE queue \o frames

-----------------------------------------------------------------------------
(* The session's thread: requests. *)

\* What the session's steps mostly leave alone.
rest == <<link, after, plain, room, whole, negotiated, abandoned, failed, writer, hand,
              auth, lapsed, over, connects>>

\* Mutant: subscriptions are drained before the command is answered.
CommandDrains(s) ==
    /\ at = "read" /\ link = "open"
    /\ CommitCommand(s, 0, {}, {})
    /\ owes' = Len(log) + 1
    /\ at' = "measure"
    /\ UNCHANGED <<followers, resume, subs, asked, queue, rest>>

Command(s) ==
    /\ at = "read" /\ link = "open"
    /\ CommitCommand(s, 0, {}, {})
    /\ owes' = Len(log) + 1
    /\ at' = "respond"
    /\ UNCHANGED <<followers, resume, subs, asked, queue, rest>>

\* events_subscribe: from the start, from now, or from a cursor.  A consumer
\* that has received nothing yet has no cursor.
Subscribe(r) ==
    /\ at = "read" /\ link = "open"
    /\ r \in auth /\ r \notin asked \cup over
    /\ asked' = asked \cup {r}
    /\ \E from \in {"start", "now", "cursor"} :
        LET position == CASE from = "start" -> StreamStart
                          [] from = "now" -> Now
                          [] from = "cursor" -> cursor[r]
        IN  /\ from = "cursor" <=> cursor[r] # Nothing
            /\ ValidCursor(position)
            /\ subs' = Append(subs, [reader |-> r, cursor |-> position])
            /\ since' = [since EXCEPT ![r] = CASE from = "start" -> 1
                                               [] from = "now" -> Len(log) + 1
                                               [] from = "cursor" -> @]
    /\ owes' = 0 /\ at' = "respond"
    /\ UNCHANGED <<store, cursor, told, known, lost, resume, queue, rest>>

Unsubscribe(r) ==
    /\ at = "read" /\ link = "open" /\ r \in Subscribed
    /\ subs' = Without(subs, {r})
    /\ owes' = 0 /\ at' = "respond"
    /\ UNCHANGED <<store, followers, resume, asked, queue, rest>>

\* An idle poll of a session that has subscriptions.
Poll ==
    /\ at = "read" /\ subs # <<>> /\ link = "open"
    /\ at' = "measure"
    /\ UNCHANGED <<store, followers, resume, owes, subs, asked, queue, rest>>

\* What else a consumer sends: a request that changes nothing here, a request
\* that is no request, or a frame that cannot be read, after which the provider
\* answers once and reads no more (frame_failure).
Plain ==
    /\ at = "read" /\ link = "open" /\ plain < MaxPlain
    /\ plain' = plain + 1
    /\ after' \in {"measure", "read", "close"}
    /\ owes' = 0 /\ at' = "respond"
    /\ UNCHANGED <<store, followers, link, resume, room, whole, subs, asked, negotiated,
                   outbox, auth, lapsed, over, connects>>

\* The response is queued, and the session goes on.
Answered ==
    /\ Push(<<Response(owes)>>)
    /\ owes' = 0 /\ at' = after /\ after' = "measure"
    /\ UNCHANGED resume

\* respond(): wait for room if the response would exceed the bound.
Respond ==
    /\ at = "respond"
    /\ \/ /\ Pending > 0 /\ Pending + 1 > Bound
          /\ at' = "room" /\ resume' = "push"
          /\ UNCHANGED <<queue, owes, after>>
       \/ /\ Pending = 0 \/ Pending + 1 <= Bound
          /\ Answered
    /\ UNCHANGED <<store, followers, subs, asked, link, plain, room, whole, negotiated,
                   abandoned, failed, writer, hand, auth, lapsed, over, connects>>

RespondAfterRoom ==
    /\ at = "push"
    /\ Answered
    /\ UNCHANGED <<store, followers, subs, asked, link, plain, room, whole, negotiated,
                   abandoned, failed, writer, hand, auth, lapsed, over, connects>>

-----------------------------------------------------------------------------
(* The session's thread: delivery (deliver_with). *)

Measure ==
    /\ at = "measure"
    /\ room' = Max({Bound - Pending, 0})
    /\ whole' = (Pending = 0)
    /\ at' = "drain"
    /\ UNCHANGED <<store, followers, resume, owes, after, plain, subs, asked, queue, link, negotiated,
                   abandoned, failed, writer, hand, auth, lapsed, over, connects>>

\* Mutant: a withheld notification is passed over.
DrainItemSkipping(d) ==
    LET sub == d.subs[d.k]
        r == sub.reader
        read == ReadEvents(sub.cursor, Page, Sees[r], Wants[r], Budget[r])
        end(position) == [d EXCEPT !.k = @ + 1, !.ended = @ \cup {r},
                                   !.frames = Append(@, Ending(r, position, FALSE))]
    IN  IF d.withheld \/ d.k > Len(d.subs) THEN d
        ELSE IF r \notin auth THEN end(sub.cursor)
        ELSE IF read.tooLarge THEN end(read.at)
        ELSE IF read.items = <<>> THEN [d EXCEPT !.k = @ + 1]
        ELSE IF d.produced + read.used > room /\ ~ (d.produced = 0 /\ whole)
        THEN [d EXCEPT !.withheld = TRUE, !.subs[d.k].cursor = read.at]
        ELSE [d EXCEPT !.produced = @ + read.used, !.subs[d.k].cursor = read.at,
                       !.frames = Append(@, Notify(r, read))]

\* Mutant: authorization is what it was when the subscription was made.
DrainItemUnchecked(d) ==
    LET sub == d.subs[d.k]
        r == sub.reader
        read == ReadEvents(sub.cursor, Page, Sees[r], Wants[r], Budget[r])
        end(position) == [d EXCEPT !.k = @ + 1, !.ended = @ \cup {r},
                                   !.frames = Append(@, Ending(r, position, FALSE))]
    IN  IF d.withheld \/ d.k > Len(d.subs) THEN d
        ELSE IF read.tooLarge THEN end(read.at)
        ELSE IF read.items = <<>> THEN [d EXCEPT !.k = @ + 1]
        ELSE IF d.produced + read.used > room /\ ~ (d.produced = 0 /\ whole)
        THEN [d EXCEPT !.withheld = TRUE]
        ELSE [d EXCEPT !.produced = @ + read.used, !.subs[d.k].cursor = read.at,
                       !.frames = Append(@, Notify(r, read))]

\* Mutant: a subscription stays where it was after a delivery.
DrainItemRepeating(d) ==
    LET sub == d.subs[d.k]
        r == sub.reader
        read == ReadEvents(sub.cursor, Page, Sees[r], Wants[r], Budget[r])
    IN  IF d.k > Len(d.subs) THEN d
        ELSE IF read.items = <<>> \/ r \notin auth THEN [d EXCEPT !.k = @ + 1]
        ELSE [d EXCEPT !.k = @ + 1, !.frames = Append(@, Notify(r, read))]

\* One turn of the drain's loop: authorization is checked before each delivery,
\* an item that can never fit ends the subscription, and a notification without
\* room is withheld, with its subscription where it was.
DrainItem(d) ==
    LET sub == d.subs[d.k]
        r == sub.reader
        read == ReadEvents(sub.cursor, Page, Sees[r], Wants[r], Budget[r])
        end(position) == [d EXCEPT !.k = @ + 1, !.ended = @ \cup {r},
                                   !.frames = Append(@, Ending(r, position, FALSE))]
    IN  IF d.withheld \/ d.k > Len(d.subs) THEN d
        ELSE IF r \notin auth THEN end(sub.cursor)
        ELSE IF read.tooLarge THEN end(read.at)
        ELSE IF read.items = <<>> THEN [d EXCEPT !.k = @ + 1]
        ELSE IF d.produced + read.used > room /\ ~ (d.produced = 0 /\ whole)
        THEN [d EXCEPT !.withheld = TRUE]
        ELSE [d EXCEPT !.produced = @ + read.used, !.subs[d.k].cursor = read.at,
                       !.frames = Append(@, Notify(r, read))]

\* drain_subscriptions_locked.  Every turn of the loop takes a row, an epoch or
\* a subscription.
Drained ==
    LET turns == Len(subs) * (Cardinality(rows) + Epoch + 2)
        d[n \in 0 .. turns] ==
            IF n = 0 THEN [k |-> 1, subs |-> subs, frames |-> <<>>, produced |-> 0,
                           withheld |-> FALSE, ended |-> {}]
            ELSE DrainItem(d[n - 1])
    IN  d[turns]

Drain ==
    /\ at = "drain"
    /\ \E d \in {Drained} :
        /\ Push(d.frames)
        /\ subs' = Without(d.subs, d.ended)
        /\ \/ d.withheld /\ at' = "room" /\ resume' = "measure"
           \/ ~ d.withheld /\ at' = "read" /\ UNCHANGED resume
    /\ UNCHANGED <<store, followers, owes, asked, rest>>

-----------------------------------------------------------------------------
(* The session's thread: a consumer that does not read, and the end. *)

\* make_room(): everything pending was written in time.
RoomMade ==
    /\ at = "room" /\ queue = <<>>
    /\ at' = resume
    /\ UNCHANGED <<store, followers, resume, owes, subs, asked, queue, rest>>

\* close_too_slow(): the deadline passed or writing failed.  Every subscription
\* ends, with a notice each if the session understands it.
TooSlow ==
    LET notices == [k \in DOMAIN subs |-> Ending(subs[k].reader, subs[k].cursor, TRUE)]
    IN  /\ at = "room" /\ queue # <<>>
        /\ subs' = <<>>
        /\ \/ negotiated /\ Push(notices) /\ at' = "notices"
           \/ ~ negotiated /\ at' = "abandon" /\ UNCHANGED queue
        /\ UNCHANGED <<store, followers, resume, owes, asked, rest>>

\* The notices were written, or their one budget ended.
NoticesEnd ==
    /\ at = "notices"
    /\ at' = "abandon"
    /\ UNCHANGED <<store, followers, resume, owes, subs, asked, queue, rest>>

\* abandon(): nothing more is written but the frame in the writer's hand.
Abandon ==
    /\ at = "abandon"
    /\ queue' = <<>> /\ abandoned' = TRUE
    /\ at' = "shutdown"
    /\ UNCHANGED <<store, followers, link, resume, owes, after, plain, room, whole, subs,
                   asked, negotiated, failed, writer, hand, auth, lapsed, over, connects>>

\* serve(): the socket is shut down, which unblocks the writer.
Shutdown ==
    /\ at = "shutdown"
    /\ at' = "over" /\ link' = "gone"
    /\ UNCHANGED <<store, followers, resume, owes, after, plain, room, whole, subs, asked,
                   negotiated, outbox, auth, lapsed, over, connects>>

\* End of input: the session waits for what it produced, for a while.  The
\* writer goes on with what is left.
Eof ==
    /\ at = "read" /\ link \in {"half", "gone"}
    /\ at' = "close"
    /\ UNCHANGED <<store, followers, resume, owes, subs, asked, queue, rest>>

Close ==
    /\ at = "close"
    /\ at' = "over"
    /\ UNCHANGED <<store, followers, resume, owes, subs, asked, queue, rest>>

-----------------------------------------------------------------------------
Session ==
    \/ \E s \in Subject : Command(s)
    \/ \E r \in Reader : Subscribe(r) \/ Unsubscribe(r)
    \/ Plain \/ Poll \/ Respond \/ RespondAfterRoom \/ Measure \/ Drain
    \/ RoomMade \/ TooSlow \/ NoticesEnd \/ Abandon \/ Shutdown
    \/ Eof \/ Close

Writer == Pick \/ Written \/ Popped \/ WriteFails

Next ==
    \/ Connect \/ EndInput \/ Hangup \/ Gone
    \/ Elsewhere \/ \E r \in Reader : Lapse(r)
    \/ ProcessDies \/ Starting
    \/ Writer \/ Session

Spec == Init /\ [][Next]_vars

\* Both threads of a connection run, and its consumer reads what was written.
\* The session's thread waits for a request only while it has nothing to poll
\* for; every step of a thread moves it, so fairness is stated of its place.
SessionRuns ==
    /\ at \notin {"none", "over"}
    /\ at = "read" => subs # <<>> \/ link # "open"
    /\ at' \in Places \ {at}

WriterRuns ==
    /\ writer \in {"writing", "wrote"} \/ (writer = "idle" /\ ~ abandoned /\ queue # <<>>)
    /\ writer' \in WriterPlaces \ {writer}

FairSpec == Spec /\ WF_at(SessionRuns) /\ WF_writer(WriterRuns)

-----------------------------------------------------------------------------
(* Properties. *)

\* Bounded pending output (respond, deliver_with): what is pending is within
\* the bound, or a single frame that had no other before it.  Ending notices
\* are the one thing allowed past it.
PendingBounded ==
    \/ Weight(queue, {"response", "notify"}) <= Bound
    \/ \E k \in DOMAIN queue : \A j \in DOMAIN queue : queue[j].kind # "ended" => j = k

Carries(frame, i) == \E k \in DOMAIN frame.items :
    frame.items[k].type = "event" /\ frame.items[k].event = i

\* A notification with an event that a command on this connection caused comes
\* after that command's response (serve_frames).
ResponseFirst ==
    \A k \in DOMAIN queue : \A i \in DOMAIN log : Carries(queue[k], i) =>
        /\ owes # i
        /\ \A j \in k .. Len(queue) : queue[j].kind = "response" => queue[j].cause # i

\* What waits for the writer is bounded, and in the order the protocol gives
\* responses and their events (respond, deliver_with, serve_frames).
OutputOrderly == TypeOK /\ PendingBounded /\ ResponseFirst

\* Nothing that was committed after a consumer's authority ended reaches it
\* (drain_subscriptions_locked re-checks under the turn that reads).
NothingAfterLapse ==
    \A r \in Reader \ auth : \A k \in DOMAIN told[r] : told[r][k] <= lapsed[r]

\* A subscribed consumer is told of every event that it asked for, while it
\* stays subscribed and connected (poll_idle, drain_subscriptions_locked).
FollowerCatchesUp ==
    \A r \in Reader, i \in 1 .. MaxEvents :
        LET waits == /\ r \in Subscribed /\ i \in since[r] .. Len(log)
                     /\ link = "open" /\ at \notin {"close", "over"}
        IN  waits ~> (~ waits \/ Accounted(r, i))

=============================================================================
