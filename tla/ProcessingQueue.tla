--------------------------- MODULE ProcessingQueue ---------------------------
(***************************************************************************)
(* The processing lock of crates/cbr-provider/src/provider.rs: tickets     *)
(* served in order, which serialize the sessions of the socket transport.  *)
(* A request waits for its turn on a condition variable.  An idle session  *)
(* reserves a ticket, never waits, and is woken through a socket of its    *)
(* own when its turn comes (socket.rs).  A session that ends gives its     *)
(* reservation back.                                                       *)
(*                                                                         *)
(* A session reads its socket before its wake, so what arrives is modelled *)
(* by kind.  What a turn does to the store is not this module's subject;   *)
(* where a session waits for its consumer to read is.                      *)
(***************************************************************************)
EXTENDS Integers, FiniteSets, Sequences, FiniteSetsExt

CONSTANTS
    Session,     \* connections, each served by a thread of its own
    NoSession,
    MaxFrames,   \* bound: frames that consumers send
    MaxPolls,    \* bound: idle polls that reserve a ticket
    MaxStalls    \* bound: times a consumer leaves no room

ASSUME QueueAssumption ==
    /\ NoSession \notin Session
    /\ MaxFrames \in Nat /\ MaxPolls \in Nat /\ MaxStalls \in Nat

VARIABLES
    next, serving,  \* the atomic counters
    cancelled,      \* tickets given back before their turn
    armed,          \* idle_wakes: <<ticket, session>> to wake when it is served
    woken,          \* the session's wake socket can be read
    arrived,        \* the frame its socket holds, or "none"
    ticket,         \* idle_processing_ticket, or NoTicket
    turn,           \* the ticket its thread is waiting for or serving
    doing,          \* what the thread is about
    pc,             \* where the thread is
    owed,           \* the wake a release took out and has yet to signal
    frames, polls, stalls

shared == <<next, serving, cancelled, armed>>
limits == <<frames, polls, stalls>>
vars == <<next, serving, cancelled, armed, woken, arrived, ticket, turn,
          doing, pc, owed, frames, polls, stalls>>

-----------------------------------------------------------------------------
NoTicket == -1

Ticket == Nat \cup {NoTicket}

\* A request, input that no turn is taken for (a blank frame, a notification),
\* input that is answered without a turn, input that cannot be a frame, and
\* the end of input.
Frame == {"request", "ignored", "invalid", "broken", "eof"}

PC == {"read", "disarm", "wait", "asleep", "serve", "try", "arm", "taken",
       "notify", "signal", "after", "stall", "drop", "gone"}

Doing == {"nothing", "handle", "deliver", "poll", "answer", "refuse",
          "close", "drop"}

\* Type correctness of the queue and of every session.
TypeOK ==
    /\ next \in Nat /\ serving \in Nat
    /\ cancelled \subseteq Nat
    /\ armed \subseteq Nat \X Session
    /\ woken \in [Session -> BOOLEAN]
    /\ arrived \in [Session -> Frame \cup {"none"}]
    /\ ticket \in [Session -> Ticket]
    /\ turn \in [Session -> Ticket]
    /\ doing \in [Session -> Doing]
    /\ pc \in [Session -> PC]
    /\ owed \in [Session -> Session \cup {NoSession}]
    /\ frames \in Nat /\ polls \in Nat /\ stalls \in Nat

Init ==
    /\ next = 0 /\ serving = 0 /\ cancelled = {} /\ armed = {}
    /\ woken = [s \in Session |-> FALSE]
    /\ arrived = [s \in Session |-> "none"]
    /\ ticket = [s \in Session |-> NoTicket]
    /\ turn = [s \in Session |-> NoTicket]
    /\ doing = [s \in Session |-> "nothing"]
    /\ pc = [s \in Session |-> "read"]
    /\ owed = [s \in Session |-> NoSession]
    /\ frames = 0 /\ polls = 0 /\ stalls = 0

At(s, where) == pc[s] = where

Goto(s, where) == pc' = [pc EXCEPT ![s] = where]

About(s, what) == doing' = [doing EXCEPT ![s] = what]

-----------------------------------------------------------------------------
(* ProcessingLock. *)

\* Mutant: the newest ticket is served first.
SucceedNewest(t) == IF t + 1 < next THEN next - 1 ELSE t + 1

\* The ticket after t that nobody gave back.  No ticket at or above "next"
\* was ever given out, so the loop ends there at the latest.
Succeed(t) == Min({n \in (t + 1) .. (IF t < next THEN next ELSE t + 1) :
                      n \notin cancelled})

\* The next turn begins: skipped tickets are forgotten, and the wake of the
\* ticket now served is taken out, to be signalled after the mutex is free.
Advance(s, t, arms) ==
    /\ serving' = Succeed(t)
    /\ cancelled' = cancelled \ (t .. Succeed(t))
    /\ LET wake == {a \in arms : a[1] = Succeed(t)}
       IN  /\ armed' = arms \ wake
           /\ owed' = [owed EXCEPT ![s] = IF wake = {} THEN NoSession
                                          ELSE (CHOOSE a \in wake : TRUE)[2]]

Disarmed(t) == {a \in armed : a[1] # t}

\* processing(): a request takes the place its idle poll reserved, or joins
\* the end of the queue.
TakeTurn(s) ==
    \/ /\ ticket[s] # NoTicket
       /\ turn' = [turn EXCEPT ![s] = ticket[s]]
       /\ ticket' = [ticket EXCEPT ![s] = NoTicket]
       /\ Goto(s, "disarm")
       /\ UNCHANGED next
    \/ /\ ticket[s] = NoTicket
       /\ turn' = [turn EXCEPT ![s] = next]
       /\ next' = next + 1
       /\ Goto(s, "wait")
       /\ UNCHANGED ticket

Disarm(s) ==
    /\ At(s, "disarm")
    /\ armed' = Disarmed(turn[s])
    /\ Goto(s, "wait")
    /\ UNCHANGED <<next, serving, cancelled, woken, arrived, ticket, turn, doing,
                   owed, limits>>

\* wait(): under the mutex, the turn has come or the thread sleeps.
Wait(s) ==
    /\ At(s, "wait")
    /\ Goto(s, IF serving = turn[s] THEN "serve" ELSE "asleep")
    /\ UNCHANGED <<shared, woken, arrived, ticket, turn, doing, owed, limits>>

\* The guard is dropped: the turn ends under the mutex ...
Release(s) ==
    /\ At(s, "serve")
    /\ Advance(s, serving, armed)
    /\ turn' = [turn EXCEPT ![s] = NoTicket]
    /\ Goto(s, "notify")
    /\ UNCHANGED <<next, woken, arrived, ticket, doing, limits>>

\* ... then every waiter is notified ...
Notify(s) ==
    /\ At(s, "notify")
    /\ pc' = [w \in Session |->
                IF w = s THEN IF owed[s] = NoSession THEN "after" ELSE "signal"
                ELSE IF pc[w] = "asleep" THEN "wait" ELSE pc[w]]
    /\ UNCHANGED <<shared, woken, arrived, ticket, turn, doing, owed, limits>>

\* ... and the idle session whose turn has come is woken.
Signal(s) ==
    /\ At(s, "signal")
    /\ woken' = [woken EXCEPT ![owed[s]] = TRUE]
    /\ owed' = [owed EXCEPT ![s] = NoSession]
    /\ Goto(s, "after")
    /\ UNCHANGED <<shared, arrived, ticket, turn, doing, limits>>

-----------------------------------------------------------------------------
(* idle_processing(): reserve, try, and leave a wake behind. *)

\* A poll goes on with the ticket it has, or reserves one.  A session with
\* neither subscriptions nor time-driven work reserves nothing.
PollTurn(s) ==
    \/ /\ ticket[s] # NoTicket
       /\ Goto(s, "try")
       /\ UNCHANGED <<next, ticket, polls>>
    \/ /\ ticket[s] = NoTicket
       /\ polls < MaxPolls /\ polls' = polls + 1
       /\ ticket' = [ticket EXCEPT ![s] = next]
       /\ next' = next + 1
       /\ Goto(s, "try")
    \/ /\ ticket[s] = NoTicket
       /\ Goto(s, "read")
       /\ UNCHANGED <<next, ticket, polls>>

\* try_take() looks without the mutex.
Try(s) ==
    /\ At(s, "try")
    /\ Goto(s, IF serving = ticket[s] THEN "taken" ELSE "arm")
    /\ UNCHANGED <<shared, woken, arrived, ticket, turn, doing, owed, limits>>

\* Mutant: the wake is left without looking again.
ArmBlindly(s) ==
    /\ At(s, "arm")
    /\ armed' = armed \cup {<<ticket[s], s>>}
    /\ Goto(s, "read") /\ About(s, "nothing")
    /\ UNCHANGED <<next, serving, cancelled, woken, arrived, ticket, turn, owed, limits>>

\* arm_idle_wake() looks again under the mutex, since the turn may have come
\* in between, and then wakes itself.
Arm(s) ==
    /\ At(s, "arm")
    /\ \/ /\ serving = ticket[s]
          /\ woken' = [woken EXCEPT ![s] = TRUE]
          /\ UNCHANGED armed
       \/ /\ serving # ticket[s]
          /\ armed' = armed \cup {<<ticket[s], s>>}
          /\ UNCHANGED woken
    /\ Goto(s, "read") /\ About(s, "nothing")
    /\ UNCHANGED <<next, serving, cancelled, arrived, ticket, turn, owed, limits>>

\* The turn was there: its wake is disarmed and the reservation is spent.
Taken(s) ==
    /\ At(s, "taken")
    /\ armed' = Disarmed(ticket[s])
    /\ turn' = [turn EXCEPT ![s] = ticket[s]]
    /\ ticket' = [ticket EXCEPT ![s] = NoTicket]
    /\ Goto(s, "serve")
    /\ UNCHANGED <<next, serving, cancelled, woken, arrived, doing, owed, limits>>

\* Mutant: the turn a session gives back is not announced to the waiters.
CancelQuietly(s) ==
    /\ At(s, "drop") /\ ticket[s] # NoTicket
    /\ ticket' = [ticket EXCEPT ![s] = NoTicket]
    /\ \/ /\ ticket[s] = serving
          /\ Advance(s, serving, Disarmed(ticket[s]))
          /\ Goto(s, IF owed'[s] = NoSession THEN "after" ELSE "signal")
       \/ /\ ticket[s] > serving
          /\ cancelled' = cancelled \cup {ticket[s]}
          /\ armed' = Disarmed(ticket[s])
          /\ Goto(s, "after")
          /\ UNCHANGED <<serving, owed>>
    /\ UNCHANGED <<next, woken, arrived, turn, doing, limits>>

\* cancel(): a session that ends gives its reservation back.  The return for a
\* ticket that was already served is never taken: tickets are given out in
\* order, and the one served is passed only by its owner.
Cancel(s) ==
    /\ At(s, "drop") /\ ticket[s] # NoTicket
    /\ ticket' = [ticket EXCEPT ![s] = NoTicket]
    /\ \/ /\ ticket[s] = serving
          /\ Advance(s, serving, Disarmed(ticket[s]))
          /\ Goto(s, "notify")
       \/ /\ ticket[s] > serving
          /\ cancelled' = cancelled \cup {ticket[s]}
          /\ armed' = Disarmed(ticket[s])
          /\ Goto(s, "notify")
          /\ UNCHANGED <<serving, owed>>
    /\ UNCHANGED <<next, woken, arrived, turn, doing, limits>>

\* A session without a reservation has nothing to give back.
Drop(s) ==
    /\ At(s, "drop") /\ ticket[s] = NoTicket
    /\ Goto(s, "after")
    /\ UNCHANGED <<shared, woken, arrived, ticket, turn, doing, owed, limits>>

-----------------------------------------------------------------------------
(* The session's loop (session.rs and PollingStream). *)

\* A consumer sends a frame, or ends its input.
Arrive(s, f) ==
    /\ frames < MaxFrames
    /\ arrived[s] = "none" /\ pc[s] # "gone"
    /\ doing[s] \notin {"refuse", "close", "drop"}
    /\ arrived' = [arrived EXCEPT ![s] = f]
    /\ frames' = frames + 1
    /\ UNCHANGED <<shared, woken, ticket, turn, doing, pc, owed, polls, stalls>>

\* The consumer has left no room for what the session has to send, or has not
\* taken what is pending: the session waits for it, up to a deadline.
Stall(s, what) ==
    /\ stalls < MaxStalls /\ stalls' = stalls + 1
    /\ Goto(s, "stall") /\ About(s, what)

NoStall == UNCHANGED stalls

\* A request is read and takes its turn.
ReadRequest(s) ==
    /\ At(s, "read") /\ arrived[s] = "request"
    /\ arrived' = [arrived EXCEPT ![s] = "none"]
    /\ About(s, "handle")
    /\ TakeTurn(s)
    /\ UNCHANGED <<serving, cancelled, armed, woken, owed, limits>>

\* A blank frame or a notification is passed over.
ReadIgnored(s) ==
    /\ At(s, "read") /\ arrived[s] = "ignored"
    /\ arrived' = [arrived EXCEPT ![s] = "none"]
    /\ UNCHANGED <<shared, woken, ticket, turn, doing, pc, owed, limits>>

\* What is not a request is answered, once there is room, without a turn.
ReadInvalid(s) ==
    /\ At(s, "read") /\ arrived[s] = "invalid"
    /\ arrived' = [arrived EXCEPT ![s] = "none"]
    /\ \/ NoStall /\ UNCHANGED <<pc, doing>>
       \/ Stall(s, "answer")
    /\ UNCHANGED <<shared, woken, ticket, turn, owed, frames, polls>>

\* A frame-level failure is answered once and closes the connection.
ReadBroken(s) ==
    /\ At(s, "read") /\ arrived[s] = "broken"
    /\ arrived' = [arrived EXCEPT ![s] = "none"]
    /\ \/ NoStall /\ Goto(s, "drop") /\ About(s, "drop")
       \/ \E what \in {"refuse", "close"} : Stall(s, what)
    /\ UNCHANGED <<shared, woken, ticket, turn, owed, frames, polls>>

\* At the end of input the session waits for what it produced to be written.
ReadEof(s) ==
    /\ At(s, "read") /\ arrived[s] = "eof"
    /\ arrived' = [arrived EXCEPT ![s] = "none"]
    /\ \/ NoStall /\ Goto(s, "drop") /\ About(s, "drop")
       \/ Stall(s, "close")
    /\ UNCHANGED <<shared, woken, ticket, turn, owed, frames, polls>>

\* Nothing arrived: the wake was readable, or the poll interval passed.
Idle(s) ==
    /\ At(s, "read") /\ arrived[s] = "none"
    /\ woken' = [woken EXCEPT ![s] = FALSE]
    /\ About(s, "poll")
    /\ PollTurn(s)
    /\ UNCHANGED <<serving, cancelled, armed, arrived, turn, owed, frames, stalls>>

\* After a turn: a response is queued and what is owed to subscriptions is
\* delivered, in a turn of its own.  A notification without room is withheld.
After(s) ==
    /\ At(s, "after")
    /\ \/ /\ doing[s] = "handle"
          /\ \/ NoStall /\ About(s, "deliver") /\ TakeTurn(s)
             \/ Stall(s, "handle") /\ UNCHANGED <<next, ticket, turn>>
       \/ /\ doing[s] \in {"deliver", "poll"}
          /\ \/ NoStall /\ About(s, "nothing") /\ Goto(s, "read")
             \/ Stall(s, doing[s])
          /\ UNCHANGED <<next, ticket, turn>>
       \/ /\ doing[s] = "drop"
          /\ NoStall /\ Goto(s, "gone")
          /\ UNCHANGED <<next, ticket, turn, doing>>
    /\ UNCHANGED <<serving, cancelled, armed, woken, arrived, owed, frames, polls>>

\* The consumer made room in time: the session goes on where it waited.
RoomMade(s) ==
    /\ At(s, "stall")
    /\ \/ /\ doing[s] \in {"handle", "deliver"}
          /\ About(s, "deliver") /\ TakeTurn(s)
          /\ UNCHANGED polls
       \/ doing[s] = "poll" /\ PollTurn(s) /\ UNCHANGED <<turn, doing>>
       \/ /\ doing[s] = "answer"
          /\ About(s, "nothing") /\ Goto(s, "read")
          /\ UNCHANGED <<next, ticket, turn, polls>>
       \/ /\ doing[s] = "refuse"
          /\ About(s, "close") /\ UNCHANGED <<next, ticket, turn, pc, polls>>
       \/ /\ doing[s] \in {"refuse", "close"}
          /\ About(s, "drop") /\ Goto(s, "drop")
          /\ UNCHANGED <<next, ticket, turn, polls>>
    /\ UNCHANGED <<serving, cancelled, armed, woken, arrived, owed, frames, stalls>>

\* The deadline passed: the connection is closed, and the session ends.
TooSlow(s) ==
    /\ At(s, "stall")
    /\ About(s, "drop") /\ Goto(s, "drop")
    /\ UNCHANGED <<shared, woken, arrived, ticket, turn, owed, limits>>

-----------------------------------------------------------------------------
\* A step of the session's own thread.
Step(s) ==
    \/ Disarm(s) \/ Wait(s) \/ Release(s) \/ Notify(s) \/ Signal(s)
    \/ Try(s) \/ Arm(s) \/ Taken(s) \/ Cancel(s) \/ Drop(s)
    \/ ReadRequest(s) \/ ReadIgnored(s) \/ ReadInvalid(s) \/ ReadBroken(s)
    \/ ReadEof(s) \/ Idle(s)
    \/ After(s) \/ RoomMade(s) \/ TooSlow(s)

Next == \E s \in Session : Step(s) \/ \E f \in Frame : Arrive(s, f)

Spec == Init /\ [][Next]_vars

\* Every thread goes on: a turn ends, a wait for a consumer has a deadline,
\* and a reader that has no input wakes at its poll interval.
FairSpec == Spec /\ \A s \in Session : WF_vars(Step(s))

-----------------------------------------------------------------------------
(* Properties. *)

\* A session whose turn has begun.
Inside(s) == pc[s] \in {"serve", "taken"}

\* The place a session has in the queue, as a waiter, the one inside, or an
\* idle session with a reservation.
Place(s) == IF turn[s] # NoTicket THEN turn[s] ELSE ticket[s]

\* No abandoned ticket can stop the queue (Drop for Provider, cancel): every
\* ticket from the one served on is some session's, or was given back.
NoAbandonedTicket ==
    \A t \in serving .. (next - 1) :
        t \in cancelled \ {serving} \/ \E s \in Session : pc[s] # "gone" /\ Place(s) = t

\* Reaching the front wakes an idle session (arm_idle_wake, release, cancel):
\* one whose turn has come while it reads has its wake, or is about to get it,
\* and need not wait for its poll interval.
FrontIsWoken ==
    \A s \in Session :
        pc[s] = "read" /\ ticket[s] # NoTicket /\ ticket[s] = serving =>
            \/ woken[s]
            \/ \E r \in Session : owed[r] = s /\ pc[r] \in {"notify", "signal"}

\* No turn is lost (Drop for Provider, arm_idle_wake, release, cancel): the
\* queue waits for nobody who is gone, and whom it waits for knows it.
NoTurnLost == TypeOK /\ NoAbandonedTicket /\ FrontIsWoken

\* The tickets from the one served on that are somebody's place.
Owners(t) == {s \in Session : Place(s) = t}
Held == {t \in serving .. (next - 1) : Owners(t) # {}}

\* Their owners, in the order of the tickets.
Nth(tickets, i) == CHOOSE t \in tickets : Cardinality({u \in tickets : u <= t}) = i
Line == [i \in 1 .. Cardinality(Held) |-> CHOOSE s \in Owners(Nth(Held, i)) : TRUE]

Turns == INSTANCE FifoTurns WITH
    Client <- Session, line <- Line, inside <- {s \in Session : Inside(s)}

\* The tickets, the skipping of the ones given back, the mutex, the condition
\* variable and the wakes implement turns given in order, one at a time.
GivesTurnsInOrder == Turns!Spec

\* A request gets its turn although idle sessions hold places before it, and
\* sessions come and go (wait is notified, reservations are taken or given back).
RequestsServed ==
    \A s \in Session : pc[s] \in {"disarm", "wait", "asleep"} ~> pc[s] = "serve"

=============================================================================
