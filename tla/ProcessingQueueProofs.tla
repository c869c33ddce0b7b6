------------------------ MODULE ProcessingQueueProofs ------------------------
(***************************************************************************)
(* Proofs about the processing lock, for every set of sessions, whatever   *)
(* arrives at them, and every interleaving of requests, idle polls, wakes, *)
(* cancellations and slow consumers: no turn is lost, and every step is a  *)
(* step of FifoTurns or changes nothing of it.                             *)
(***************************************************************************)
EXTENDS ProcessingQueue, SequencesExt, FiniteSetTheorems, SequenceTheorems,
        WellFoundedInduction, TLAPS

-----------------------------------------------------------------------------
(* What the proofs strengthen the properties with.                         *)

\* Where a thread has a turn of its own, and where it holds a reservation
\* that it is about to try or arm.
Queueing  == {"disarm", "wait", "asleep", "serve"}
Reserving == {"try", "arm", "taken"}

\* Tickets go with where the thread is.
TicketsFollowThreads ==
    \A s \in Session :
        /\ turn[s] # NoTicket <=> pc[s] \in Queueing
        /\ ticket[s] # NoTicket => pc[s] \in Reserving \cup {"read", "stall", "drop"}
        /\ pc[s] \in Reserving => ticket[s] # NoTicket
        /\ pc[s] = "serve" => turn[s] = serving
        /\ pc[s] = "taken" => ticket[s] = serving

\* A place is a ticket that was given out, is not yet passed and was not given
\* back, and it is nobody else's.
PlacesSound ==
    /\ \A s \in Session : Place(s) # NoTicket =>
           serving <= Place(s) /\ Place(s) < next /\ Place(s) \notin cancelled
    /\ \A s, r \in Session : Place(s) = Place(r) /\ Place(s) # NoTicket => s = r

CountersSound ==
    /\ serving <= next
    /\ \A t \in cancelled : serving < t /\ t < next

\* A wake is only left behind for a reservation whose turn has not come.
ArmedReserved ==
    \A n \in Nat, s \in Session : <<n, s>> \in armed =>
        /\ n # serving
        /\ ticket[s] = n \/ (turn[s] = n /\ pc[s] = "disarm")

\* A thread that took a wake out has yet to signal it.
OwesWake(s) == owed[s] # NoSession /\ pc[s] \in {"notify", "signal"}

OwedFollowsThreads ==
    \A s \in Session : /\ owed[s] # NoSession => pc[s] \in {"notify", "signal"}
                       /\ pc[s] = "signal" => owed[s] # NoSession

\* A session that reads, or waits to answer before it reads again.
Reads(s) == pc[s] = "read" \/ (pc[s] = "stall" /\ doing[s] = "answer")

\* One that holds a reservation has left a wake behind, or its turn has come
\* and it has its wake, or is about to get it.
ReadersWoken ==
    \A s \in Session : Reads(s) /\ ticket[s] # NoTicket =>
        IF ticket[s] = serving
        THEN woken[s] \/ \E r \in Session : owed[r] = s
        ELSE <<ticket[s], s>> \in armed

QueueInv ==
    /\ TypeOK /\ TicketsFollowThreads /\ PlacesSound /\ CountersSound
    /\ ArmedReserved /\ OwedFollowsThreads /\ ReadersWoken /\ NoAbandonedTicket

-----------------------------------------------------------------------------
(* Facts about tickets.                                                    *)

\* Every set of naturals has a least one.
LEMMA LeastOfNaturals ==
    ASSUME NEW S \in SUBSET Nat, S # {}
    PROVE  \E x \in S : \A y \in S : x <= y
<1> DEFINE R == OpToRel(<, Nat)
<1>1. IsWellFoundedOn(R, Nat)
  BY NatLessThanWellFounded
<1>2. PICK x \in S : \A y \in S : ~(<<y, x>> \in R)
  <2> HIDE DEF R
  <2> QED  BY <1>1, WFMin, Zenon
<1>3. \A a, b \in Nat : a < b => <<a, b>> \in R
  BY DEF OpToRel
<1> HIDE DEF R
<1>4. ASSUME NEW y \in S PROVE x <= y
  <2>1. <<y, x>> \notin R
    BY <1>2
  <2>2. y < x => <<y, x>> \in R
    BY <1>3
  <2> QED
    BY <2>1, <2>2
<1> QED
  BY <1>4

\* The turn after t is the first ticket after it that was not given back, and
\* the ticket yet to be given out at the latest.
LEMMA SucceedsInOrder ==
    ASSUME QueueInv, NEW t \in Nat, t < next
    PROVE  /\ Succeed(t) \in Nat /\ t < Succeed(t) /\ Succeed(t) <= next
           /\ Succeed(t) \notin cancelled
           /\ \A n \in Nat : t < n /\ n < Succeed(t) => n \in cancelled
<1> DEFINE S == {n \in (t + 1) .. (IF t < next THEN next ELSE t + 1) : n \notin cancelled}
<1>1. S \subseteq Nat /\ next \in S
  BY DEF QueueInv, TypeOK, CountersSound
<1>2. \E x \in S : \A y \in S : x <= y
  <2> HIDE DEF S
  <2> QED  BY <1>1, LeastOfNaturals
<1>3. Succeed(t) \in S /\ \A y \in S : Succeed(t) <= y
  BY <1>2 DEF Succeed, Min
<1>4. \A n \in Nat : t < n /\ n < Succeed(t) => n \notin S /\ n <= next
  BY <1>1, <1>3 DEF QueueInv, TypeOK
<1> QED
  BY <1>3, <1>4 DEF QueueInv, TypeOK

\* A session that is gone, or has ended a turn, has no place.
LEMMA PlaceOfThread ==
    ASSUME QueueInv, NEW s \in Session
    PROVE  /\ Place(s) \in Ticket
           /\ pc[s] \in {"notify", "signal", "after", "gone"} => Place(s) = NoTicket
           /\ Place(s) = NoTicket <=> turn[s] = NoTicket /\ ticket[s] = NoTicket
           /\ turn[s] # NoTicket => ticket[s] = NoTicket
BY DEF QueueInv, TypeOK, TicketsFollowThreads, Place, Queueing, Reserving

-----------------------------------------------------------------------------
(* Steps of one thread that pass no turn.                                  *)

\* What such a step leaves alone.
Apart(s) ==
    /\ serving' = serving /\ cancelled' = cancelled /\ armed' = armed /\ owed' = owed
    /\ \A r \in Session : r # s =>
           /\ turn'[r] = turn[r] /\ ticket'[r] = ticket[r] /\ woken'[r] = woken[r]
           /\ pc'[r] = pc[r] /\ doing'[r] = doing[r]

\* Where it leads: the thread is where its tickets say, its reservation is the
\* one a wake was left behind for, and no wake is lost.
ThreadSound(s) ==
    /\ turn'[s] # NoTicket <=> pc'[s] \in Queueing
    /\ ticket'[s] # NoTicket => pc'[s] \in Reserving \cup {"read", "stall", "drop"}
    /\ pc'[s] \in Reserving => ticket'[s] # NoTicket
    /\ pc'[s] = "serve" => turn'[s] = serving
    /\ pc'[s] = "taken" => ticket'[s] = serving
    /\ owed[s] # NoSession => pc'[s] \in {"notify", "signal"}
    /\ pc'[s] # "signal"
    /\ ticket[s] # NoTicket =>
           ticket'[s] = ticket[s] \/ (turn'[s] = ticket[s] /\ pc'[s] = "disarm")
    /\ turn[s] # NoTicket /\ pc[s] = "disarm" => turn'[s] = turn[s] /\ pc'[s] = "disarm"
    /\ pc'[s] = "read" \/ (pc'[s] = "stall" /\ doing'[s] = "answer") =>
           \/ ticket'[s] = NoTicket
           \/ Reads(s) /\ ticket'[s] = ticket[s] /\ woken'[s] = woken[s]

\* The place stays what it was, or is the ticket given out next.
PlaceKept(s) ==
    \/ Place(s)' = Place(s) /\ next' = next
    \/ Place(s) = NoTicket /\ Place(s)' = next /\ next' = next + 1

\* Places stay sound, and nobody abandons one.
LEMMA PlacesStaySound ==
    ASSUME QueueInv, NEW s \in Session, Apart(s), ThreadSound(s), PlaceKept(s), TypeOK'
    PROVE  PlacesSound' /\ CountersSound' /\ NoAbandonedTicket'
<1>1. \A r \in Session : r # s => Place(r)' = Place(r)
  BY DEF Apart, Place
<1>2. /\ serving \in Nat /\ next \in Nat /\ next' \in Nat /\ next <= next' /\ next' <= next + 1
      /\ serving' = serving /\ cancelled' = cancelled /\ cancelled \subseteq Nat
      /\ \A r \in Session : Place(r) \in Ticket
      /\ \A t \in cancelled : serving < t /\ t < next
      /\ serving <= next
  BY PlaceOfThread DEF QueueInv, TypeOK, Apart, CountersSound, PlaceKept
<1>3. /\ \A r \in Session : Place(r) # NoTicket =>
             serving <= Place(r) /\ Place(r) < next /\ Place(r) \notin cancelled
      /\ \A q, r \in Session : Place(q) = Place(r) /\ Place(q) # NoTicket => q = r
  BY DEF QueueInv, PlacesSound
<1>4. PlacesSound'
  <2>1. \A r \in Session : Place(r)' # NoTicket =>
            serving <= Place(r)' /\ Place(r)' < next' /\ Place(r)' \notin cancelled
    BY <1>1, <1>2, <1>3 DEF PlaceKept, Ticket, NoTicket
  <2>2. ASSUME NEW q \in Session, NEW r \in Session, Place(q)' = Place(r)', Place(q)' # NoTicket, q # r
        PROVE  FALSE
    BY <1>1, <1>2, <1>3, <2>2 DEF PlaceKept, Ticket, NoTicket
  <2> QED
    BY <1>2, <2>1, <2>2 DEF PlacesSound
<1>5. CountersSound'
  BY <1>2 DEF CountersSound
<1>6. NoAbandonedTicket'
  <2>1. \A r \in Session : Place(r)' # NoTicket => pc'[r] # "gone"
    BY PlaceOfThread, <1>1 DEF ThreadSound, Apart, Place, Queueing, Reserving
  <2>2. ASSUME NEW t \in Nat, serving <= t, t < next'
        PROVE  t \in cancelled \ {serving} \/ \E r \in Session : pc'[r] # "gone" /\ Place(r)' = t
    <3>1. t # NoTicket
      BY DEF NoTicket
    <3>2. CASE t < next
      <4>1. t \in cancelled \ {serving} \/ \E r \in Session : Place(r) = t
        BY <1>2, <2>2, <3>2 DEF QueueInv, NoAbandonedTicket
      <4>2. \A r \in Session : Place(r) # NoTicket => Place(r)' = Place(r)
        BY <1>1 DEF PlaceKept
      <4> QED
        BY <2>1, <3>1, <4>1, <4>2
    <3>3. CASE t >= next
      <4>1. next' # next /\ t = next
        BY <1>2, <2>2, <3>3
      <4>2. Place(s)' = t
        BY <4>1 DEF PlaceKept
      <4> QED
        BY <2>1, <3>1, <4>2
    <3> QED
      BY <1>2, <3>1, <3>2, <3>3
  <2>3. \A t \in serving .. (next' - 1) : t \in Nat /\ serving <= t /\ t < next'
    <3>1. PICK m \in Nat : next' = m
      BY <1>2
    <3>2. serving \in Nat
      BY <1>2
    <3> QED
      BY <3>1, <3>2
  <2> QED
    BY <1>2, <2>2, <2>3 DEF NoAbandonedTicket
<1> QED
  BY <1>4, <1>5, <1>6

\* Such a step keeps the invariant.
LEMMA StepOfOne ==
    ASSUME QueueInv, NEW s \in Session, Apart(s), ThreadSound(s), PlaceKept(s), TypeOK'
    PROVE  QueueInv'
<1>1. PlacesSound' /\ CountersSound' /\ NoAbandonedTicket'
  BY PlacesStaySound
<1>2. TicketsFollowThreads'
  BY DEF QueueInv, TicketsFollowThreads, Apart, ThreadSound
<1>3. OwedFollowsThreads'
  BY DEF QueueInv, OwedFollowsThreads, Apart, ThreadSound
<1>4. ArmedReserved'
  <2> SUFFICES ASSUME NEW n \in Nat, NEW r \in Session, <<n, r>> \in armed
               PROVE  n # serving /\ (ticket'[r] = n \/ (turn'[r] = n /\ pc'[r] = "disarm"))
    BY DEF ArmedReserved, Apart
  <2>1. n # serving /\ (ticket[r] = n \/ (turn[r] = n /\ pc[r] = "disarm")) /\ n # NoTicket
    BY DEF QueueInv, ArmedReserved, NoTicket
  <2> QED
    BY <2>1 DEF Apart, ThreadSound
<1>5. ReadersWoken'
  BY DEF QueueInv, ReadersWoken, Reads, Apart, ThreadSound
<1> QED
  BY <1>1, <1>2, <1>3, <1>4, <1>5 DEF QueueInv

-----------------------------------------------------------------------------
(* The threads, action by action.                                          *)

\* processing(): a request takes the place its idle poll reserved, or the next.
LEMMA TakeTurnMoves ==
    ASSUME QueueInv, NEW s \in Session, TakeTurn(s), turn[s] = NoTicket,
           owed[s] = NoSession
    PROVE  /\ next' \in Nat /\ turn' \in [Session -> Ticket] /\ ticket' \in [Session -> Ticket]
           /\ pc' \in [Session -> PC]
           /\ \A r \in Session : r # s =>
                  turn'[r] = turn[r] /\ ticket'[r] = ticket[r] /\ pc'[r] = pc[r]
           /\ ThreadSound(s) /\ PlaceKept(s)
<1>1. CASE ticket[s] # NoTicket
  <2>1. /\ turn' = [turn EXCEPT ![s] = ticket[s]] /\ ticket' = [ticket EXCEPT ![s] = NoTicket]
        /\ pc' = [pc EXCEPT ![s] = "disarm"] /\ next' = next
    BY <1>1 DEF TakeTurn, Goto
  <2> QED
    BY <1>1, <2>1 DEF QueueInv, TypeOK, TicketsFollowThreads, ThreadSound, PlaceKept, Place,
                      Queueing, Reserving, PC, Ticket, NoTicket
<1>2. CASE ticket[s] = NoTicket
  <2>1. /\ turn' = [turn EXCEPT ![s] = next] /\ ticket' = ticket
        /\ pc' = [pc EXCEPT ![s] = "wait"] /\ next' = next + 1
    BY <1>2 DEF TakeTurn, Goto
  <2> QED
    BY <1>2, <2>1 DEF QueueInv, TypeOK, TicketsFollowThreads, ThreadSound, PlaceKept, Place,
                      Queueing, Reserving, PC, Ticket, NoTicket
<1> QED
  BY <1>1, <1>2

\* idle_processing(): a poll goes on with its reservation, or reserves, or rests.
LEMMA PollTurnMoves ==
    ASSUME QueueInv, NEW s \in Session, PollTurn(s), pc[s] \in {"read", "stall"}
    PROVE  /\ next' \in Nat /\ (polls' \in Nat \/ polls' = polls)
           /\ ticket' \in [Session -> Ticket] /\ pc' \in [Session -> PC]
           /\ \A r \in Session : r # s => ticket'[r] = ticket[r] /\ pc'[r] = pc[r]
           /\ turn' = turn => ThreadSound(s) /\ PlaceKept(s)
<1>1. CASE ticket[s] # NoTicket
  <2>1. pc' = [pc EXCEPT ![s] = "try"] /\ ticket' = ticket /\ next' = next /\ polls' = polls
    BY <1>1 DEF PollTurn, Goto
  <2> QED
    BY <1>1, <2>1 DEF QueueInv, TypeOK, TicketsFollowThreads, OwedFollowsThreads, ThreadSound,
                      PlaceKept, Place, Queueing, Reserving, PC, Ticket, NoTicket
<1>2. CASE ticket[s] = NoTicket /\ ticket' = [ticket EXCEPT ![s] = next]
  <2>1. pc' = [pc EXCEPT ![s] = "try"] /\ next' = next + 1 /\ polls' = polls + 1
    BY <1>2 DEF PollTurn, Goto, QueueInv, TypeOK, Ticket, NoTicket
  <2> QED
    BY <1>2, <2>1 DEF QueueInv, TypeOK, TicketsFollowThreads, OwedFollowsThreads, ThreadSound,
                      PlaceKept, Place, Queueing, Reserving, PC, Ticket, NoTicket
<1>3. CASE ticket[s] = NoTicket /\ ticket' # [ticket EXCEPT ![s] = next]
  <2>1. pc' = [pc EXCEPT ![s] = "read"] /\ ticket' = ticket /\ next' = next /\ polls' = polls
    BY <1>3 DEF PollTurn, Goto
  <2> QED
    BY <1>3, <2>1 DEF QueueInv, TypeOK, TicketsFollowThreads, OwedFollowsThreads, ThreadSound,
                      PlaceKept, Place, Queueing, Reserving, PC, Ticket, NoTicket
<1> QED
  BY <1>1, <1>2, <1>3

\* A wait, under the mutex, and a look without it.
LEMMA LooksStep ==
    ASSUME QueueInv, NEW s \in Session, Wait(s) \/ Try(s) \/ Drop(s)
    PROVE  QueueInv'
<1>1. UNCHANGED <<next, serving, cancelled, armed, woken, arrived, ticket, turn, doing, owed, frames, polls, stalls>>
  BY DEF Wait, Try, Drop, shared, limits
<1>2. pc' = [pc EXCEPT ![s] = pc'[s]]
  BY DEF Wait, Try, Drop, Goto, QueueInv, TypeOK
<1>3. TypeOK'
  <2>1. pc' \in [Session -> PC]
    BY DEF Wait, Try, Drop, Goto, QueueInv, TypeOK, PC
  <2> QED
    BY <1>1, <2>1 DEF QueueInv, TypeOK
<1>4. ThreadSound(s)
  BY <1>1 DEF Wait, Try, Drop, Goto, At, QueueInv, TypeOK, TicketsFollowThreads, OwedFollowsThreads,
              ThreadSound, Queueing, Reserving, Reads
<1>5. Apart(s) /\ PlaceKept(s)
  BY <1>1, <1>2 DEF Apart, PlaceKept, Place, QueueInv, TypeOK
<1> QED
  BY <1>3, <1>4, <1>5, StepOfOne

\* What arrives at a session takes nothing from anyone.
LEMMA ArriveStep ==
    ASSUME QueueInv, NEW s \in Session, NEW f \in Frame, Arrive(s, f)
    PROVE  QueueInv'
<1>1. UNCHANGED <<next, serving, cancelled, armed, woken, ticket, turn, doing, pc, owed, polls, stalls>>
  BY DEF Arrive, shared
<1>2. TypeOK'
  BY <1>1 DEF Arrive, QueueInv, TypeOK
<1> QED
  BY <1>1, <1>2 DEF QueueInv, TicketsFollowThreads, PlacesSound, CountersSound, ArmedReserved,
                    OwedFollowsThreads, ReadersWoken, NoAbandonedTicket, Place, Reads

\* What is read from the socket.
LEMMA ReadStep ==
    ASSUME QueueInv, NEW s \in Session,
           ReadIgnored(s) \/ ReadInvalid(s) \/ ReadBroken(s) \/ ReadEof(s) \/ TooSlow(s)
    PROVE  QueueInv'
<1>1. UNCHANGED <<next, serving, cancelled, armed, woken, ticket, turn, owed, frames, polls>>
  BY DEF ReadIgnored, ReadInvalid, ReadBroken, ReadEof, TooSlow, shared, limits
<1>2. /\ pc[s] \in {"read", "stall"}
      /\ pc'[s] \in {"stall", "drop"} \/ (pc[s] = "read" /\ pc'[s] = "read")
      /\ pc'[s] = "stall" => pc[s] = "read"
      /\ pc' = [pc EXCEPT ![s] = pc'[s]]
      /\ doing' = [doing EXCEPT ![s] = doing'[s]] /\ doing'[s] \in Doing
  BY DEF ReadIgnored, ReadInvalid, ReadBroken, ReadEof, TooSlow, At, Goto, About, Stall, NoStall,
         QueueInv, TypeOK, Doing
<1>3. arrived' \in [Session -> Frame \cup {"none"}] /\ stalls' \in Nat
  BY DEF ReadIgnored, ReadInvalid, ReadBroken, ReadEof, TooSlow, Stall, NoStall, QueueInv, TypeOK, limits
<1>4. TypeOK'
  <2>1. pc' \in [Session -> PC] /\ doing' \in [Session -> Doing]
    BY <1>2 DEF QueueInv, TypeOK, PC
  <2> QED
    BY <1>1, <1>3, <2>1 DEF QueueInv, TypeOK
<1>5. ThreadSound(s)
  BY <1>1, <1>2 DEF QueueInv, TypeOK, TicketsFollowThreads, OwedFollowsThreads,
              ThreadSound, Queueing, Reserving, Reads
<1>6. Apart(s) /\ PlaceKept(s)
  BY <1>1, <1>2 DEF Apart, PlaceKept, Place, QueueInv, TypeOK
<1> QED
  BY <1>4, <1>5, <1>6, StepOfOne

\* A request is read, and takes its turn.
LEMMA ReadRequestStep ==
    ASSUME QueueInv, NEW s \in Session, ReadRequest(s)
    PROVE  QueueInv'
<1>1. UNCHANGED <<serving, cancelled, armed, woken, owed, frames, polls, stalls>> /\ pc[s] = "read"
  BY DEF ReadRequest, At, limits
<1>2. /\ arrived' = [arrived EXCEPT ![s] = "none"] /\ doing' = [doing EXCEPT ![s] = "handle"]
      /\ TakeTurn(s)
  BY DEF ReadRequest, About
<1>3. turn[s] = NoTicket /\ owed[s] = NoSession
  BY <1>1 DEF QueueInv, TicketsFollowThreads, OwedFollowsThreads, Queueing
<1>4. /\ next' \in Nat /\ turn' \in [Session -> Ticket] /\ ticket' \in [Session -> Ticket]
      /\ pc' \in [Session -> PC] /\ ThreadSound(s) /\ PlaceKept(s)
      /\ \A r \in Session : r # s => turn'[r] = turn[r] /\ ticket'[r] = ticket[r] /\ pc'[r] = pc[r]
  BY <1>2, <1>3, TakeTurnMoves
<1>5. TypeOK'
  BY <1>1, <1>2, <1>4 DEF QueueInv, TypeOK, Doing
<1>6. Apart(s)
  BY <1>1, <1>2, <1>4 DEF Apart, QueueInv, TypeOK
<1> QED
  BY <1>4, <1>5, <1>6, StepOfOne

\* An idle session clears its wake and polls.
LEMMA IdleStep ==
    ASSUME QueueInv, NEW s \in Session, Idle(s)
    PROVE  QueueInv'
<1>1. UNCHANGED <<serving, cancelled, armed, arrived, turn, owed, frames, stalls>> /\ pc[s] = "read"
  BY DEF Idle, At
<1>2. /\ woken' = [woken EXCEPT ![s] = FALSE] /\ doing' = [doing EXCEPT ![s] = "poll"]
      /\ PollTurn(s)
  BY DEF Idle, About
<1>3. /\ next' \in Nat /\ (polls' \in Nat \/ polls' = polls) /\ ticket' \in [Session -> Ticket]
      /\ pc' \in [Session -> PC] /\ ThreadSound(s) /\ PlaceKept(s)
      /\ \A r \in Session : r # s => ticket'[r] = ticket[r] /\ pc'[r] = pc[r]
  BY <1>1, <1>2, PollTurnMoves
<1>4. TypeOK'
  BY <1>1, <1>2, <1>3 DEF QueueInv, TypeOK, Doing
<1>5. Apart(s)
  BY <1>1, <1>2, <1>3 DEF Apart, QueueInv, TypeOK
<1> QED
  BY <1>3, <1>4, <1>5, StepOfOne

\* After a turn the session answers, delivers in a turn of its own, and reads.
LEMMA AfterStep ==
    ASSUME QueueInv, NEW s \in Session, After(s)
    PROVE  QueueInv'
<1>1. UNCHANGED <<serving, cancelled, armed, woken, arrived, owed, frames, polls>> /\ pc[s] = "after"
  BY DEF After, At
<1>2. turn[s] = NoTicket /\ owed[s] = NoSession /\ ticket[s] = NoTicket
  BY <1>1 DEF QueueInv, TicketsFollowThreads, OwedFollowsThreads, Queueing, Reserving
<1>3. /\ doing' \in [Session -> Doing] /\ stalls' \in Nat
      /\ \A r \in Session : r # s => doing'[r] = doing[r]
  BY DEF After, About, Stall, NoStall, QueueInv, TypeOK, Doing
<1>4. /\ next' \in Nat /\ turn' \in [Session -> Ticket] /\ ticket' \in [Session -> Ticket]
      /\ pc' \in [Session -> PC] /\ ThreadSound(s) /\ PlaceKept(s)
      /\ \A r \in Session : r # s => turn'[r] = turn[r] /\ ticket'[r] = ticket[r] /\ pc'[r] = pc[r]
  <2>1. CASE TakeTurn(s)
    BY <1>2, <2>1, TakeTurnMoves
  <2>2. CASE ~TakeTurn(s)
    <3>1. UNCHANGED <<next, ticket, turn>>
      BY <2>2 DEF After
    <3>2. pc' = [pc EXCEPT ![s] = "stall"] \/ pc' = [pc EXCEPT ![s] = "read"] \/ pc' = [pc EXCEPT ![s] = "gone"]
      BY <2>2 DEF After, Stall, Goto
    <3> QED
      BY <1>1, <1>2, <3>1, <3>2 DEF QueueInv, TypeOK, ThreadSound, PlaceKept, Place, PC, Queueing, Reserving
  <2> QED
    BY <2>1, <2>2
<1>5. TypeOK'
  BY <1>1, <1>3, <1>4 DEF QueueInv, TypeOK
<1>6. Apart(s)
  BY <1>1, <1>3, <1>4 DEF Apart
<1> QED
  BY <1>4, <1>5, <1>6, StepOfOne

\* The consumer made room: the session goes on where it waited.
LEMMA RoomMadeStep ==
    ASSUME QueueInv, NEW s \in Session, RoomMade(s)
    PROVE  QueueInv'
<1>1. UNCHANGED <<serving, cancelled, armed, woken, arrived, owed, frames, stalls>> /\ pc[s] = "stall"
  BY DEF RoomMade, At
<1>2. turn[s] = NoTicket /\ owed[s] = NoSession
  BY <1>1 DEF QueueInv, TicketsFollowThreads, OwedFollowsThreads, Queueing
<1>3. /\ doing' \in [Session -> Doing]
      /\ \A r \in Session : r # s => doing'[r] = doing[r]
  BY DEF RoomMade, About, QueueInv, TypeOK, Doing
<1>4. /\ next' \in Nat /\ turn' \in [Session -> Ticket] /\ ticket' \in [Session -> Ticket]
      /\ (polls' \in Nat \/ polls' = polls)
      /\ pc' \in [Session -> PC] /\ ThreadSound(s) /\ PlaceKept(s)
      /\ \A r \in Session : r # s => turn'[r] = turn[r] /\ ticket'[r] = ticket[r] /\ pc'[r] = pc[r]
  <2>1. CASE TakeTurn(s) /\ polls' = polls
    BY <1>2, <2>1, TakeTurnMoves
  <2>2. CASE PollTurn(s) /\ turn' = turn
    <3>1. /\ next' \in Nat /\ (polls' \in Nat \/ polls' = polls)
          /\ ticket' \in [Session -> Ticket] /\ pc' \in [Session -> PC]
          /\ \A r \in Session : r # s => ticket'[r] = ticket[r] /\ pc'[r] = pc[r]
          /\ ThreadSound(s) /\ PlaceKept(s)
      BY <1>1, <2>2, PollTurnMoves
    <3> QED
      BY <2>2, <3>1 DEF QueueInv, TypeOK
  <2>3. CASE ~(TakeTurn(s) /\ polls' = polls) /\ ~(PollTurn(s) /\ turn' = turn)
    <3>1. UNCHANGED <<next, ticket, turn, polls>>
      BY <2>3 DEF RoomMade
    <3>2. \/ pc' = [pc EXCEPT ![s] = "read"] /\ doing[s] = "answer"
          \/ pc' = pc /\ doing' = [doing EXCEPT ![s] = "close"]
          \/ pc' = [pc EXCEPT ![s] = "drop"]
      BY <2>3 DEF RoomMade, Goto, About
    <3>3. /\ pc' \in [Session -> PC]
          /\ \A r \in Session : r # s => pc'[r] = pc[r]
      BY <3>2 DEF QueueInv, TypeOK, PC
    <3>4. ThreadSound(s)
      BY <1>1, <1>2, <3>1, <3>2 DEF QueueInv, TypeOK, ThreadSound, Queueing, Reserving, Reads
    <3> QED
      BY <3>1, <3>3, <3>4 DEF QueueInv, TypeOK, PlaceKept, Place
  <2> QED
    BY <2>1, <2>2, <2>3
<1>5. TypeOK'
  BY <1>1, <1>3, <1>4 DEF QueueInv, TypeOK
<1>6. Apart(s)
  BY <1>1, <1>3, <1>4 DEF Apart
<1> QED
  BY <1>4, <1>5, <1>6, StepOfOne

-----------------------------------------------------------------------------
(* Wakes are left behind, taken back and signalled.                        *)

\* As long as everyone's place stays what it was, places stay sound.
LEMMA PlacesUntouched ==
    ASSUME QueueInv, UNCHANGED <<next, serving, cancelled>>,
           \A r \in Session : Place(r)' = Place(r) /\ (pc'[r] = "gone" => pc[r] = "gone")
    PROVE  PlacesSound' /\ CountersSound' /\ NoAbandonedTicket'
BY DEF QueueInv, PlacesSound, CountersSound, NoAbandonedTicket

\* processing(): a request that takes its reserved place needs no wake.
LEMMA DisarmStep ==
    ASSUME QueueInv, NEW s \in Session, Disarm(s)
    PROVE  QueueInv'
<1>1. /\ UNCHANGED <<next, serving, cancelled, woken, arrived, ticket, turn, doing, owed, frames, polls, stalls>>
      /\ armed' = {a \in armed : a[1] # turn[s]} /\ pc[s] = "disarm" /\ pc' = [pc EXCEPT ![s] = "wait"]
  BY DEF Disarm, Disarmed, At, Goto, limits
<1>2. TypeOK'
  <2>1. armed' \subseteq Nat \X Session /\ pc' \in [Session -> PC]
    BY <1>1 DEF QueueInv, TypeOK, PC
  <2> QED
    BY <1>1, <2>1 DEF QueueInv, TypeOK
<1>3. TicketsFollowThreads'
  BY <1>1 DEF QueueInv, TypeOK, TicketsFollowThreads, Queueing, Reserving
<1>4. OwedFollowsThreads'
  BY <1>1 DEF QueueInv, TypeOK, OwedFollowsThreads
<1>5. \A r \in Session : Place(r)' = Place(r) /\ (pc'[r] = "gone" => pc[r] = "gone")
  BY <1>1 DEF QueueInv, TypeOK, Place
<1>6. PlacesSound' /\ CountersSound' /\ NoAbandonedTicket'
  BY <1>1, <1>5, PlacesUntouched
<1>7. turn[s] # NoTicket /\ ticket[s] = NoTicket /\ Place(s) = turn[s]
  BY <1>1 DEF QueueInv, TicketsFollowThreads, Queueing, Reserving, Place
<1>8. ArmedReserved'
  <2> SUFFICES ASSUME NEW n \in Nat, NEW r \in Session, <<n, r>> \in armed'
               PROVE  n # serving /\ (ticket[r] = n \/ (turn[r] = n /\ pc'[r] = "disarm"))
    BY <1>1 DEF ArmedReserved
  <2>1. <<n, r>> \in armed /\ n # turn[s]
    BY <1>1
  <2>2. n # serving /\ (ticket[r] = n \/ (turn[r] = n /\ pc[r] = "disarm"))
    BY <2>1 DEF QueueInv, ArmedReserved
  <2> QED
    BY <1>1, <2>1, <2>2 DEF QueueInv, TypeOK
<1>9. ReadersWoken'
  <2> SUFFICES ASSUME NEW r \in Session, Reads(r)', ticket[r] # NoTicket
               PROVE  IF ticket[r] = serving THEN woken[r] \/ \E q \in Session : owed[q] = r
                      ELSE <<ticket[r], r>> \in armed'
    BY <1>1 DEF ReadersWoken
  <2>1. r # s /\ Reads(r)
    BY <1>1 DEF Reads, QueueInv, TypeOK
  <2>2. Place(r) = ticket[r]
    BY <2>1, PlaceOfThread DEF Place
  <2>3. ticket[r] # turn[s]
    BY <1>7, <2>1, <2>2 DEF QueueInv, PlacesSound
  <2> QED
    BY <1>1, <2>1, <2>3 DEF QueueInv, ReadersWoken
<1> QED
  BY <1>2, <1>3, <1>4, <1>6, <1>8, <1>9 DEF QueueInv

\* arm_idle_wake(): the wake is left behind, or the turn has come meanwhile.
LEMMA ArmStep ==
    ASSUME QueueInv, NEW s \in Session, Arm(s)
    PROVE  QueueInv'
<1>1. /\ UNCHANGED <<next, serving, cancelled, arrived, ticket, turn, owed, frames, polls, stalls>>
      /\ pc[s] = "arm" /\ pc' = [pc EXCEPT ![s] = "read"] /\ doing' = [doing EXCEPT ![s] = "nothing"]
  BY DEF Arm, At, Goto, About, limits
<1>2. \/ serving = ticket[s] /\ woken' = [woken EXCEPT ![s] = TRUE] /\ armed' = armed
      \/ serving # ticket[s] /\ woken' = woken /\ armed' = armed \cup {<<ticket[s], s>>}
  BY DEF Arm
<1>3. turn[s] = NoTicket /\ ticket[s] # NoTicket /\ ticket[s] \in Nat /\ owed[s] = NoSession
  BY <1>1 DEF QueueInv, TypeOK, TicketsFollowThreads, OwedFollowsThreads, Queueing, Reserving, Ticket
<1>4. TypeOK'
  <2>1. woken' \in [Session -> BOOLEAN]
    BY <1>2 DEF QueueInv, TypeOK
  <2>3. armed' \subseteq Nat \X Session
    <3>1. <<ticket[s], s>> \in Nat \X Session
      BY <1>3
    <3> QED
      BY <1>2, <3>1 DEF QueueInv, TypeOK
  <2>2. pc' \in [Session -> PC] /\ doing' \in [Session -> Doing]
    BY <1>1 DEF QueueInv, TypeOK, PC, Doing
  <2> QED
    BY <1>1, <2>1, <2>2, <2>3 DEF QueueInv, TypeOK
<1>5. TicketsFollowThreads' /\ OwedFollowsThreads'
  BY <1>1, <1>3 DEF QueueInv, TypeOK, TicketsFollowThreads, OwedFollowsThreads, Queueing, Reserving
<1>6. \A r \in Session : Place(r)' = Place(r) /\ (pc'[r] = "gone" => pc[r] = "gone")
  BY <1>1 DEF QueueInv, TypeOK, Place
<1>7. PlacesSound' /\ CountersSound' /\ NoAbandonedTicket'
  BY <1>1, <1>6, PlacesUntouched
<1>8. ArmedReserved'
  <2> SUFFICES ASSUME NEW n \in Nat, NEW r \in Session, <<n, r>> \in armed'
               PROVE  n # serving /\ (ticket[r] = n \/ (turn[r] = n /\ pc'[r] = "disarm"))
    BY <1>1 DEF ArmedReserved
  <2>1. CASE <<n, r>> \in armed
    BY <1>1, <2>1 DEF QueueInv, TypeOK, ArmedReserved
  <2>2. CASE <<n, r>> \notin armed
    BY <1>2, <2>2
  <2> QED
    BY <2>1, <2>2
<1>9. ReadersWoken'
  <2> SUFFICES ASSUME NEW r \in Session, Reads(r)', ticket[r] # NoTicket
               PROVE  IF ticket[r] = serving THEN woken'[r] \/ \E q \in Session : owed[q] = r
                      ELSE <<ticket[r], r>> \in armed'
    BY <1>1 DEF ReadersWoken
  <2>1. CASE r = s
    BY <1>2, <2>1 DEF QueueInv, TypeOK
  <2>2. CASE r # s
    <3>1. Reads(r)
      BY <1>1, <2>2 DEF Reads, QueueInv, TypeOK
    <3>2. woken'[r] = woken[r] /\ armed \subseteq armed'
      BY <1>2, <2>2 DEF QueueInv, TypeOK
    <3> QED
      BY <3>1, <3>2 DEF QueueInv, ReadersWoken
  <2> QED
    BY <2>1, <2>2
<1> QED
  BY <1>4, <1>5, <1>7, <1>8, <1>9 DEF QueueInv

\* try_take(): the turn was there, and the reservation is spent.
LEMMA TakenStep ==
    ASSUME QueueInv, NEW s \in Session, Taken(s)
    PROVE  QueueInv'
<1>1. /\ UNCHANGED <<next, serving, cancelled, woken, arrived, doing, owed, frames, polls, stalls>>
      /\ armed' = {a \in armed : a[1] # ticket[s]} /\ pc[s] = "taken" /\ pc' = [pc EXCEPT ![s] = "serve"]
      /\ turn' = [turn EXCEPT ![s] = ticket[s]] /\ ticket' = [ticket EXCEPT ![s] = NoTicket]
  BY DEF Taken, Disarmed, At, Goto, limits
<1>2. turn[s] = NoTicket /\ ticket[s] # NoTicket /\ ticket[s] = serving /\ owed[s] = NoSession
  BY <1>1 DEF QueueInv, TicketsFollowThreads, OwedFollowsThreads, Queueing, Reserving
<1>3. TypeOK'
  <2>1. armed' \subseteq Nat \X Session /\ pc' \in [Session -> PC]
    BY <1>1 DEF QueueInv, TypeOK, PC
  <2>2. turn' \in [Session -> Ticket] /\ ticket' \in [Session -> Ticket]
    BY <1>1 DEF QueueInv, TypeOK, Ticket
  <2> QED
    BY <1>1, <2>1, <2>2 DEF QueueInv, TypeOK
<1>4. TicketsFollowThreads' /\ OwedFollowsThreads'
  BY <1>1, <1>2 DEF QueueInv, TypeOK, TicketsFollowThreads, OwedFollowsThreads, Queueing, Reserving
<1>5. \A r \in Session : Place(r)' = Place(r) /\ (pc'[r] = "gone" => pc[r] = "gone")
  BY <1>1, <1>2 DEF QueueInv, TypeOK, Place
<1>6. PlacesSound' /\ CountersSound' /\ NoAbandonedTicket'
  BY <1>1, <1>5, PlacesUntouched
<1>7. ArmedReserved'
  <2> SUFFICES ASSUME NEW n \in Nat, NEW r \in Session, <<n, r>> \in armed'
               PROVE  n # serving /\ (ticket'[r] = n \/ (turn'[r] = n /\ pc'[r] = "disarm"))
    BY <1>1 DEF ArmedReserved
  <2>1. <<n, r>> \in armed /\ n # ticket[s]
    BY <1>1
  <2>2. n # serving /\ (ticket[r] = n \/ (turn[r] = n /\ pc[r] = "disarm"))
    BY <2>1 DEF QueueInv, ArmedReserved
  <2> QED
    BY <1>1, <1>2, <2>1, <2>2 DEF QueueInv, TypeOK
<1>8. ReadersWoken'
  <2> SUFFICES ASSUME NEW r \in Session, Reads(r)', ticket'[r] # NoTicket
               PROVE  IF ticket'[r] = serving THEN woken[r] \/ \E q \in Session : owed[q] = r
                      ELSE <<ticket'[r], r>> \in armed'
    BY <1>1 DEF ReadersWoken
  <2>1. r # s /\ Reads(r) /\ ticket'[r] = ticket[r]
    BY <1>1 DEF Reads, QueueInv, TypeOK
  <2> QED
    BY <1>1, <1>2, <2>1 DEF QueueInv, ReadersWoken
<1> QED
  BY <1>3, <1>4, <1>6, <1>7, <1>8 DEF QueueInv

\* The session whose wake was taken out gets it.
LEMMA SignalStep ==
    ASSUME QueueInv, NEW s \in Session, Signal(s)
    PROVE  QueueInv'
<1>1. /\ UNCHANGED <<next, serving, cancelled, armed, arrived, ticket, turn, doing, frames, polls, stalls>>
      /\ pc[s] = "signal" /\ pc' = [pc EXCEPT ![s] = "after"]
      /\ woken' = [woken EXCEPT ![owed[s]] = TRUE] /\ owed' = [owed EXCEPT ![s] = NoSession]
  BY DEF Signal, At, Goto, limits, shared
<1>2. TypeOK'
  <2>1. pc' \in [Session -> PC] /\ woken' \in [Session -> BOOLEAN] /\ owed' \in [Session -> Session \cup {NoSession}]
    BY <1>1 DEF QueueInv, TypeOK, PC
  <2> QED
    BY <1>1, <2>1 DEF QueueInv, TypeOK
<1>3. TicketsFollowThreads' /\ OwedFollowsThreads' /\ ArmedReserved'
  BY <1>1 DEF QueueInv, TypeOK, TicketsFollowThreads, OwedFollowsThreads, ArmedReserved, Queueing, Reserving
<1>4. \A r \in Session : Place(r)' = Place(r) /\ (pc'[r] = "gone" => pc[r] = "gone")
  BY <1>1 DEF QueueInv, TypeOK, Place
<1>5. PlacesSound' /\ CountersSound' /\ NoAbandonedTicket'
  BY <1>1, <1>4, PlacesUntouched
<1>6. ReadersWoken'
  <2> SUFFICES ASSUME NEW r \in Session, Reads(r)', ticket[r] # NoTicket
               PROVE  IF ticket[r] = serving THEN woken'[r] \/ \E q \in Session : owed'[q] = r
                      ELSE <<ticket[r], r>> \in armed
    BY <1>1 DEF ReadersWoken
  <2>1. Reads(r)
    BY <1>1 DEF Reads, QueueInv, TypeOK
  <2>2. CASE woken[r] \/ r = owed[s]
    <3>1. woken'[r]
      BY <1>1, <2>2 DEF QueueInv, TypeOK
    <3> QED
      BY <2>1, <3>1 DEF QueueInv, ReadersWoken
  <2>3. CASE ~woken[r] /\ r # owed[s]
    BY <1>1, <2>1, <2>3 DEF QueueInv, TypeOK, ReadersWoken
  <2> QED
    BY <2>2, <2>3
<1> QED
  BY <1>2, <1>3, <1>5, <1>6 DEF QueueInv

\* Every waiter looks again.
LEMMA NotifyStep ==
    ASSUME QueueInv, NEW s \in Session, Notify(s)
    PROVE  QueueInv'
<1>1. /\ UNCHANGED <<next, serving, cancelled, armed, woken, arrived, ticket, turn, doing, owed, frames, polls, stalls>>
      /\ pc[s] = "notify"
      /\ pc' = [w \in Session |-> IF w = s THEN IF owed[s] = NoSession THEN "after" ELSE "signal"
                                  ELSE IF pc[w] = "asleep" THEN "wait" ELSE pc[w]]
  BY DEF Notify, At, limits, shared
<1>2. \A w \in Session : \/ w = s /\ pc[w] = "notify" /\ pc'[w] = IF owed[w] = NoSession THEN "after" ELSE "signal"
                         \/ w # s /\ pc[w] = "asleep" /\ pc'[w] = "wait"
                         \/ w # s /\ pc[w] # "asleep" /\ pc'[w] = pc[w]
  BY <1>1
<1>3. TypeOK'
  <2>1. pc' \in [Session -> PC]
    BY <1>1 DEF QueueInv, TypeOK, PC
  <2> QED
    BY <1>1, <2>1 DEF QueueInv, TypeOK
<1>4. TicketsFollowThreads'
  BY <1>1, <1>2 DEF QueueInv, TicketsFollowThreads, Queueing, Reserving
<1>5. OwedFollowsThreads' /\ ArmedReserved' /\ ReadersWoken'
  BY <1>1, <1>2 DEF QueueInv, OwedFollowsThreads, ArmedReserved, ReadersWoken, Reads
<1>6. \A r \in Session : Place(r)' = Place(r) /\ (pc'[r] = "gone" => pc[r] = "gone")
  BY <1>1, <1>2 DEF Place
<1>7. PlacesSound' /\ CountersSound' /\ NoAbandonedTicket'
  BY <1>1, <1>6, PlacesUntouched
<1> QED
  BY <1>3, <1>4, <1>5, <1>7 DEF QueueInv

-----------------------------------------------------------------------------
(* The turn passes, and places are given back.                             *)

\* release() and cancel() at the front: the turn goes to the first ticket that
\* was not given back, and the wake left behind for it is taken out.
LEMMA TurnPasses ==
    ASSUME QueueInv, NEW s \in Session, NEW arms, Advance(s, serving, arms),
           Place(s) = serving, arms \subseteq armed, \A a \in armed : a[1] # serving => a \in arms,
           UNCHANGED <<next, woken, arrived, doing, frames, polls, stalls>>,
           turn' \in [Session -> Ticket], turn'[s] = NoTicket,
           ticket' \in [Session -> Ticket], ticket'[s] = NoTicket,
           \A r \in Session : r # s => turn'[r] = turn[r] /\ ticket'[r] = ticket[r],
           pc' = [pc EXCEPT ![s] = "notify"]
    PROVE  QueueInv'
<1> DEFINE u == Succeed(serving)
           wake == {a \in arms : a[1] = u}
<1>1. /\ serving \in Nat /\ next \in Nat /\ serving < next /\ serving # NoTicket
      /\ cancelled \subseteq Nat /\ armed \subseteq Nat \X Session
  BY DEF QueueInv, TypeOK, PlacesSound, NoTicket
<1>2. /\ u \in Nat /\ serving < u /\ u <= next /\ u \notin cancelled
      /\ \A n \in Nat : serving < n /\ n < u => n \in cancelled
  BY <1>1, SucceedsInOrder
<1>3. /\ serving' = u /\ cancelled' = cancelled \ (serving .. u) /\ armed' = arms \ wake
      /\ owed' = [owed EXCEPT ![s] = IF wake = {} THEN NoSession ELSE (CHOOSE a \in wake : TRUE)[2]]
  BY DEF Advance
<1> HIDE DEF u
<1>4. \A r \in Session : r # s => Place(r)' = Place(r)
  BY DEF Place
<1>5. Place(s)' = NoTicket
  BY DEF Place
<1>6. ASSUME NEW r \in Session, r # s, Place(r) # NoTicket
      PROVE  Place(r) \in Nat /\ u <= Place(r) /\ Place(r) < next /\ Place(r) \notin cancelled
  <2>1. serving <= Place(r) /\ Place(r) < next /\ Place(r) \notin cancelled /\ Place(r) # serving
    BY <1>1, <1>6 DEF QueueInv, PlacesSound
  <2>2. Place(r) \in Nat
    BY <1>6, PlaceOfThread DEF Ticket
  <2> QED
    BY <1>1, <1>2, <2>1, <2>2
<1>7. \A t \in cancelled' : t \in cancelled /\ t \in Nat /\ u < t /\ t < next
  <2> SUFFICES ASSUME NEW t \in cancelled' PROVE t \in cancelled /\ t \in Nat /\ u < t /\ t < next
    OBVIOUS
  <2>1. t \in cancelled /\ t \in Nat /\ serving < t /\ t < next /\ t \notin serving .. u
    BY <1>1, <1>3 DEF QueueInv, CountersSound
  <2> QED
    BY <1>1, <1>2, <2>1
<1>8. \A t \in cancelled : t \in Nat /\ u < t => t \in cancelled'
  BY <1>1, <1>2, <1>3
<1>9. \A a \in armed : /\ a = <<a[1], a[2]>> /\ a[1] \in Nat /\ a[2] \in Session /\ a[1] # serving
                       /\ Place(a[2]) = a[1] /\ a[2] # s
  <2> SUFFICES ASSUME NEW a \in armed
               PROVE  /\ a = <<a[1], a[2]>> /\ a[1] \in Nat /\ a[2] \in Session /\ a[1] # serving
                      /\ Place(a[2]) = a[1] /\ a[2] # s
    OBVIOUS
  <2>1. a \in Nat \X Session
    BY <1>1
  <2>2. PICK n \in Nat, q \in Session : a = <<n, q>>
    BY <2>1
  <2>3. n # serving /\ (ticket[q] = n \/ (turn[q] = n /\ pc[q] = "disarm")) /\ n # NoTicket
    BY <2>2 DEF QueueInv, ArmedReserved, NoTicket
  <2>4. Place(q) = n
    BY <2>3, PlaceOfThread DEF Place
  <2> QED
    BY <2>2, <2>3, <2>4
<1>10. \A a, b \in wake : a = b
  BY <1>2, <1>9 DEF QueueInv, PlacesSound, NoTicket
<1>11. wake # {} => /\ owed'[s] \in Session /\ wake = {<<u, owed'[s]>>}
  <2> SUFFICES ASSUME wake # {} PROVE owed'[s] \in Session /\ wake = {<<u, owed'[s]>>}
    OBVIOUS
  <2> DEFINE a == CHOOSE x \in wake : TRUE
  <2>1. a \in wake
    OBVIOUS
  <2>2. owed'[s] = a[2]
    BY <1>3 DEF QueueInv, TypeOK
  <2> HIDE DEF a
  <2>3. a \in armed /\ a[1] = u
    BY <2>1
  <2>4. a = <<u, a[2]>> /\ a[2] \in Session
    BY <1>9, <2>3
  <2> QED
    BY <1>10, <2>1, <2>2, <2>4
<1>12. wake = {} => owed'[s] = NoSession
  BY <1>3 DEF QueueInv, TypeOK
<1>13. TypeOK'
  <2>1. owed' \in [Session -> Session \cup {NoSession}]
    <3>1. owed' = [owed EXCEPT ![s] = owed'[s]] /\ owed'[s] \in Session \cup {NoSession}
      BY <1>3, <1>11, <1>12 DEF QueueInv, TypeOK
    <3> QED
      BY <3>1 DEF QueueInv, TypeOK
  <2>2. pc' \in [Session -> PC] /\ armed' \subseteq Nat \X Session /\ cancelled' \subseteq Nat
    BY <1>1, <1>3 DEF QueueInv, TypeOK, PC
  <2> QED
    BY <1>2, <1>3, <2>1, <2>2 DEF QueueInv, TypeOK
<1> HIDE DEF wake
<1>14. PlacesSound'
  <2>1. \A r \in Session : Place(r)' # NoTicket => r # s /\ u <= Place(r)' /\ Place(r)' < next /\ Place(r)' \notin cancelled'
    BY <1>3, <1>4, <1>5, <1>6
  <2>2. \A q, r \in Session : Place(q)' = Place(r)' /\ Place(q)' # NoTicket => q = r
    BY <1>4, <1>5 DEF QueueInv, PlacesSound
  <2> QED
    BY <1>3, <2>1, <2>2 DEF PlacesSound
<1>15. CountersSound'
  BY <1>2, <1>3, <1>7 DEF CountersSound
<1>16. NoAbandonedTicket'
  <2>1. ASSUME NEW t \in Nat, u <= t, t < next
        PROVE  t \in cancelled' \ {u} \/ \E r \in Session : pc'[r] # "gone" /\ Place(r)' = t
    <3>1. t \in serving .. (next - 1) /\ t # serving
      BY <1>1, <1>2, <2>1
    <3>2. CASE t \in cancelled
      BY <1>2, <1>8, <2>1, <3>2
    <3>3. CASE t \notin cancelled
      <4>1. PICK r \in Session : pc[r] # "gone" /\ Place(r) = t
        BY <3>1, <3>3 DEF QueueInv, NoAbandonedTicket
      <4>2. r # s
        BY <3>1, <4>1
      <4> QED
        BY <1>4, <4>1, <4>2
    <3> QED
      BY <3>2, <3>3
  <2>2. \A t \in u .. (next - 1) : t \in Nat /\ u <= t /\ t < next
    BY <1>1, <1>2
  <2> QED
    BY <1>3, <2>1, <2>2 DEF NoAbandonedTicket
<1>17. TicketsFollowThreads'
  <2>1. ASSUME NEW r \in Session, r # s PROVE ~(pc[r] = "serve") /\ ~(pc[r] = "taken")
    BY <1>1, <2>1, PlaceOfThread DEF QueueInv, TicketsFollowThreads, PlacesSound, Place, Queueing, Reserving
  <2> QED
    BY <2>1 DEF QueueInv, TypeOK, TicketsFollowThreads, Queueing, Reserving
<1>18. OwedFollowsThreads'
  BY <1>3 DEF QueueInv, TypeOK, OwedFollowsThreads
<1>19. ArmedReserved'
  <2> SUFFICES ASSUME NEW n \in Nat, NEW r \in Session, <<n, r>> \in armed'
               PROVE  n # u /\ (ticket'[r] = n \/ (turn'[r] = n /\ pc'[r] = "disarm"))
    BY <1>3 DEF ArmedReserved
  <2>1. <<n, r>> \in armed /\ <<n, r>> \notin wake /\ <<n, r>> \in arms
    BY <1>3
  <2>2. n # u
    BY <2>1 DEF wake
  <2>3. r # s
    BY <1>9, <2>1
  <2>4. ticket[r] = n \/ (turn[r] = n /\ pc[r] = "disarm")
    BY <2>1 DEF QueueInv, ArmedReserved
  <2> QED
    BY <2>2, <2>3, <2>4 DEF QueueInv, TypeOK
<1>20. ReadersWoken'
  <2> SUFFICES ASSUME NEW r \in Session, Reads(r)', ticket'[r] # NoTicket
               PROVE  IF ticket'[r] = u THEN woken[r] \/ \E q \in Session : owed'[q] = r
                      ELSE <<ticket'[r], r>> \in armed'
    BY <1>3 DEF ReadersWoken
  <2>1. r # s /\ Reads(r) /\ ticket'[r] = ticket[r]
    BY DEF Reads, QueueInv, TypeOK
  <2>2. Place(r) = ticket[r] /\ ticket[r] # serving
    <3>1. Place(r) = ticket[r]
      BY <2>1, PlaceOfThread DEF Place
    <3> QED
      BY <1>1, <2>1, <3>1 DEF QueueInv, PlacesSound
  <2>3. <<ticket[r], r>> \in armed
    BY <2>1, <2>2 DEF QueueInv, ReadersWoken
  <2>4. <<ticket[r], r>> \in arms
    BY <2>2, <2>3
  <2>5. CASE ticket[r] = u
    <3>1. <<u, r>> \in wake
      BY <2>4, <2>5 DEF wake
    <3>2. owed'[s] = r
      BY <1>11, <3>1
    <3> QED
      BY <2>1, <2>5, <3>2
  <2>6. CASE ticket[r] # u
    BY <1>3, <2>1, <2>4, <2>6 DEF wake
  <2> QED
    BY <2>5, <2>6
<1> QED
  BY <1>13, <1>14, <1>15, <1>16, <1>17, <1>18, <1>19, <1>20 DEF QueueInv

\* The turn ends with the guard that held it.
LEMMA ReleaseStep ==
    ASSUME QueueInv, NEW s \in Session, Release(s)
    PROVE  QueueInv'
<1>1. /\ UNCHANGED <<next, woken, arrived, ticket, doing, frames, polls, stalls>>
      /\ turn' = [turn EXCEPT ![s] = NoTicket] /\ pc' = [pc EXCEPT ![s] = "notify"] /\ pc[s] = "serve"
      /\ Advance(s, serving, armed)
  BY DEF Release, At, Goto, limits
<1>2. turn[s] # NoTicket /\ turn[s] = serving /\ ticket[s] = NoTicket /\ Place(s) = serving
  BY <1>1 DEF QueueInv, TicketsFollowThreads, Queueing, Reserving, Place
<1>3. /\ turn' \in [Session -> Ticket] /\ turn'[s] = NoTicket
      /\ ticket' \in [Session -> Ticket] /\ ticket'[s] = NoTicket
      /\ \A r \in Session : r # s => turn'[r] = turn[r] /\ ticket'[r] = ticket[r]
  BY <1>1, <1>2 DEF QueueInv, TypeOK, Ticket
<1> QED
  BY <1>1, <1>2, <1>3, TurnPasses

\* cancel(): a session that ends gives its reservation back.
LEMMA CancelStep ==
    ASSUME QueueInv, NEW s \in Session, Cancel(s)
    PROVE  QueueInv'
<1>1. /\ UNCHANGED <<next, woken, arrived, turn, doing, frames, polls, stalls>>
      /\ ticket' = [ticket EXCEPT ![s] = NoTicket] /\ pc' = [pc EXCEPT ![s] = "notify"]
      /\ pc[s] = "drop" /\ ticket[s] # NoTicket
  BY DEF Cancel, At, Goto, limits
<1>2. turn[s] = NoTicket /\ owed[s] = NoSession /\ Place(s) = ticket[s] /\ ticket[s] \in Nat
  BY <1>1 DEF QueueInv, TypeOK, TicketsFollowThreads, OwedFollowsThreads, Queueing, Place, Ticket
<1>3. /\ turn' \in [Session -> Ticket] /\ turn'[s] = NoTicket
      /\ ticket' \in [Session -> Ticket] /\ ticket'[s] = NoTicket
      /\ \A r \in Session : r # s => turn'[r] = turn[r] /\ ticket'[r] = ticket[r]
  BY <1>1, <1>2 DEF QueueInv, TypeOK, Ticket
<1>4. CASE ticket[s] = serving /\ Advance(s, serving, Disarmed(ticket[s]))
  <2> DEFINE arms == Disarmed(ticket[s])
  <2>1. arms \subseteq armed /\ \A a \in armed : a[1] # serving => a \in arms
    BY <1>4 DEF Disarmed
  <2>2. Advance(s, serving, arms)
    BY <1>4
  <2>3. Place(s) = serving
    BY <1>2, <1>4
  <2> HIDE DEF arms
  <2> QED
    BY <1>1, <1>3, <2>1, <2>2, <2>3, TurnPasses
<1>5. CASE ~(ticket[s] = serving /\ Advance(s, serving, Disarmed(ticket[s])))
  <2>1. /\ ticket[s] > serving /\ cancelled' = cancelled \cup {ticket[s]}
        /\ armed' = {a \in armed : a[1] # ticket[s]} /\ serving' = serving /\ owed' = owed
    BY <1>5 DEF Cancel, Disarmed
  <2>2. TypeOK'
    <3>1. pc' \in [Session -> PC] /\ armed' \subseteq Nat \X Session /\ cancelled' \subseteq Nat
      BY <1>1, <1>2, <2>1 DEF QueueInv, TypeOK, PC
    <3> QED
      BY <1>1, <1>3, <2>1, <3>1 DEF QueueInv, TypeOK
  <2>3. Place(s)' = NoTicket /\ \A r \in Session : r # s => Place(r)' = Place(r)
    BY <1>3 DEF Place
  <2>4. /\ serving \in Nat /\ next \in Nat /\ serving < ticket[s] /\ ticket[s] < next
        /\ \A r \in Session : r # s => Place(r) # ticket[s]
    BY <1>1, <1>2, <2>1 DEF QueueInv, TypeOK, PlacesSound
  <2>5. PlacesSound'
    BY <1>1, <2>1, <2>3, <2>4 DEF QueueInv, PlacesSound
  <2>6. CountersSound'
    BY <1>1, <2>1, <2>4 DEF QueueInv, CountersSound
  <2>7. NoAbandonedTicket'
    <3> SUFFICES ASSUME NEW t \in serving .. (next - 1)
                 PROVE  t \in cancelled' \ {serving} \/ \E r \in Session : pc'[r] # "gone" /\ Place(r)' = t
      BY <1>1, <2>1 DEF NoAbandonedTicket
    <3>1. CASE t \in cancelled \ {serving} \/ t = ticket[s]
      BY <2>1, <2>4, <3>1
    <3>2. CASE ~(t \in cancelled \ {serving}) /\ t # ticket[s]
      <4>1. PICK r \in Session : pc[r] # "gone" /\ Place(r) = t
        BY <3>2 DEF QueueInv, NoAbandonedTicket
      <4>2. r # s
        BY <1>2, <3>2, <4>1
      <4> QED
        BY <1>1, <2>3, <4>1, <4>2
    <3> QED
      BY <3>1, <3>2
  <2>8. TicketsFollowThreads' /\ OwedFollowsThreads'
    BY <1>1, <1>2, <2>1 DEF QueueInv, TypeOK, TicketsFollowThreads, OwedFollowsThreads, Queueing, Reserving
  <2>9. ArmedReserved'
    <3> SUFFICES ASSUME NEW n \in Nat, NEW r \in Session, <<n, r>> \in armed'
                 PROVE  n # serving /\ (ticket'[r] = n \/ (turn'[r] = n /\ pc'[r] = "disarm"))
      BY <2>1 DEF ArmedReserved
    <3>1. <<n, r>> \in armed /\ n # ticket[s] /\ n # NoTicket
      BY <2>1 DEF NoTicket
    <3>2. n # serving /\ (ticket[r] = n \/ (turn[r] = n /\ pc[r] = "disarm"))
      BY <3>1 DEF QueueInv, ArmedReserved
    <3> QED
      BY <1>1, <1>2, <3>1, <3>2 DEF QueueInv, TypeOK
  <2>10. ReadersWoken'
    <3> SUFFICES ASSUME NEW r \in Session, Reads(r)', ticket'[r] # NoTicket
                 PROVE  IF ticket'[r] = serving THEN woken[r] \/ \E q \in Session : owed[q] = r
                        ELSE <<ticket'[r], r>> \in armed'
      BY <1>1, <2>1 DEF ReadersWoken
    <3>1. r # s /\ Reads(r) /\ ticket'[r] = ticket[r]
      BY <1>1 DEF Reads, QueueInv, TypeOK
    <3>2. ticket[r] # ticket[s]
      BY <2>4, <3>1, PlaceOfThread DEF Place
    <3> QED
      BY <2>1, <3>1, <3>2 DEF QueueInv, ReadersWoken
  <2> QED
    BY <2>2, <2>5, <2>6, <2>7, <2>8, <2>9, <2>10 DEF QueueInv
<1> QED
  BY <1>4, <1>5

-----------------------------------------------------------------------------
(* The theorem.                                                            *)

\* Nobody has a ticket at first.
LEMMA QueueInit == Init => QueueInv
<1> SUFFICES ASSUME Init PROVE QueueInv
  OBVIOUS
<1>1. TypeOK
  BY DEF Init, TypeOK, Ticket, Doing, PC
<1>2. TicketsFollowThreads /\ OwedFollowsThreads /\ ArmedReserved /\ ReadersWoken /\ CountersSound
  BY DEF Init, TicketsFollowThreads, OwedFollowsThreads, ArmedReserved, ReadersWoken, CountersSound,
         Queueing, Reserving
<1>3. \A s \in Session : Place(s) = NoTicket
  BY DEF Init, Place
<1>4. PlacesSound
  BY <1>3 DEF PlacesSound
<1>5. serving .. (next - 1) = {}
  BY DEF Init
<1> QED
  BY <1>1, <1>2, <1>4, <1>5 DEF QueueInv, NoAbandonedTicket

\* No step breaks it.
LEMMA QueueStep == QueueInv /\ [Next]_vars => QueueInv'
<1> SUFFICES ASSUME QueueInv, [Next]_vars PROVE QueueInv'
  OBVIOUS
<1>1. ASSUME NEW s \in Session, Step(s) PROVE QueueInv'
  <2>1. CASE Wait(s) \/ Try(s) \/ Drop(s)
    BY <2>1, LooksStep
  <2>2. CASE ReadIgnored(s) \/ ReadInvalid(s) \/ ReadBroken(s) \/ ReadEof(s) \/ TooSlow(s)
    BY <2>2, ReadStep
  <2>3. CASE Disarm(s) \/ Arm(s) \/ Taken(s)
    BY <2>3, DisarmStep, ArmStep, TakenStep
  <2>4. CASE Release(s) \/ Cancel(s) \/ Notify(s) \/ Signal(s)
    BY <2>4, ReleaseStep, CancelStep, NotifyStep, SignalStep
  <2>5. CASE ReadRequest(s) \/ Idle(s) \/ After(s) \/ RoomMade(s)
    BY <2>5, ReadRequestStep, IdleStep, AfterStep, RoomMadeStep
  <2> QED
    BY <1>1, <2>1, <2>2, <2>3, <2>4, <2>5 DEF Step
<1>2. ASSUME NEW s \in Session, NEW f \in Frame, Arrive(s, f) PROVE QueueInv'
  BY <1>2, ArriveStep
<1>3. CASE UNCHANGED vars
  <2>1. UNCHANGED <<next, serving, cancelled, armed, woken, arrived, ticket, turn, doing, pc, owed, frames, polls, stalls>>
    BY <1>3 DEF vars
  <2>2. TypeOK' /\ OwedFollowsThreads' /\ CountersSound' /\ ArmedReserved'
    BY <2>1 DEF QueueInv, TypeOK, OwedFollowsThreads, CountersSound, ArmedReserved
  <2>3. TicketsFollowThreads' /\ ReadersWoken'
    BY <2>1 DEF QueueInv, TicketsFollowThreads, ReadersWoken, Reads
  <2>4. PlacesSound' /\ NoAbandonedTicket'
    BY <2>1, PlacesUntouched DEF Place
  <2> QED
    BY <2>2, <2>3, <2>4 DEF QueueInv
<1> QED
  BY <1>1, <1>2, <1>3 DEF Next

\* Drop for Provider, arm_idle_wake, release, cancel: for any number of
\* sessions, every ticket from the one served on is a session's that is not
\* gone, or was given back, and an idle session at the front has its wake or is
\* about to get it.
THEOREM QueueLosesNoTurn == Spec => []NoTurnLost
<1>1. QueueInv => NoTurnLost
  <2> SUFFICES ASSUME QueueInv PROVE NoTurnLost
    OBVIOUS
  <2>1. FrontIsWoken
    <3> SUFFICES ASSUME NEW s \in Session, pc[s] = "read", ticket[s] # NoTicket, ticket[s] = serving, ~woken[s]
                 PROVE  \E r \in Session : owed[r] = s /\ pc[r] \in {"notify", "signal"}
      BY DEF FrontIsWoken
    <3>1. PICK r \in Session : owed[r] = s
      BY DEF QueueInv, ReadersWoken, Reads
    <3>2. owed[r] # NoSession
      BY <3>1, QueueAssumption
    <3> QED
      BY <3>1, <3>2 DEF QueueInv, OwedFollowsThreads
  <2> QED
    BY <2>1 DEF QueueInv, NoTurnLost
<1> QED
  BY <1>1, QueueInit, QueueStep, PTL DEF Spec

\* processing(), try_take: turns are given one at a time, for any number of
\* sessions.
THEOREM OneTurnAtATime == Spec => [](\A s, r \in Session : Inside(s) /\ Inside(r) => s = r)
<1>1. QueueInv => \A s, r \in Session : Inside(s) /\ Inside(r) => s = r
  <2> SUFFICES ASSUME QueueInv, NEW s \in Session, NEW r \in Session, Inside(s), Inside(r)
               PROVE  s = r
    OBVIOUS
  <2>1. ASSUME NEW q \in Session, Inside(q) PROVE Place(q) = serving /\ Place(q) # NoTicket
    BY <2>1 DEF QueueInv, TicketsFollowThreads, Inside, Place, Queueing, Reserving
  <2> QED
    BY <2>1 DEF QueueInv, PlacesSound
<1> QED
  BY <1>1, QueueInit, QueueStep, PTL DEF Spec

-----------------------------------------------------------------------------
(* Tickets in order.                                                       *)

Upto(H, t) == {u \in H : u <= t}

Rank(H, t) == Cardinality(Upto(H, t))

\* Ranks grow with the tickets, and a ticket is the one of its rank.
LEMMA RanksInOrder ==
    ASSUME NEW H \in SUBSET Nat, IsFiniteSet(H)
    PROVE  /\ \A t \in H : Rank(H, t) \in 1 .. Cardinality(H)
           /\ \A t, u \in H : t < u => Rank(H, t) < Rank(H, u)
<1>1. Cardinality(H) \in Nat
  BY FS_CardinalityType
<1>2. ASSUME NEW t \in H
      PROVE  IsFiniteSet(Upto(H, t)) /\ Rank(H, t) \in Nat /\ Rank(H, t) <= Cardinality(H) /\ Rank(H, t) # 0
  <2>1. Upto(H, t) \in SUBSET H /\ t \in Upto(H, t)
    BY DEF Upto
  <2>2. IsFiniteSet(Upto(H, t)) /\ Cardinality(Upto(H, t)) <= Cardinality(H)
    BY <2>1, FS_Subset
  <2>3. Cardinality(Upto(H, t)) \in Nat /\ Cardinality(Upto(H, t)) # 0
    BY <2>1, <2>2, FS_CardinalityType, FS_EmptySet
  <2> QED
    BY <2>2, <2>3 DEF Rank
<1>3. ASSUME NEW t \in H, NEW u \in H, t < u PROVE Rank(H, t) < Rank(H, u)
  <2>1. Upto(H, t) \in SUBSET Upto(H, u)
    <3>1. \A x \in H : x <= t => x <= u
      BY <1>3
    <3> QED
      BY <3>1 DEF Upto
  <2>2. u \in Upto(H, u) /\ u \notin Upto(H, t)
    BY <1>3 DEF Upto
  <2>3. Rank(H, t) <= Rank(H, u) /\ (Rank(H, u) = Rank(H, t) => Upto(H, u) = Upto(H, t))
    BY <1>2, <2>1, FS_Subset DEF Rank
  <2> QED
    BY <1>2, <2>2, <2>3
<1> QED
  BY <1>1, <1>2, <1>3

\* The ticket of a rank is the one Nth names.
LEMMA NthOfRank ==
    ASSUME NEW H \in SUBSET Nat, IsFiniteSet(H), NEW t \in H
    PROVE  Nth(H, Rank(H, t)) = t
<1>1. \A u \in H : Rank(H, u) = Rank(H, t) => u = t
  <2> SUFFICES ASSUME NEW u \in H, Rank(H, u) = Rank(H, t), u # t PROVE FALSE
    OBVIOUS
  <2>1. Rank(H, u) < Rank(H, t) \/ Rank(H, t) < Rank(H, u)
    BY RanksInOrder
  <2>2. Rank(H, t) \in Nat
    BY RanksInOrder, FS_CardinalityType
  <2> QED
    BY <2>1, <2>2
<1>2. Nth(H, Rank(H, t)) = CHOOSE u \in H : Rank(H, u) = Rank(H, t)
  BY DEF Nth, Rank, Upto
<1> QED
  BY <1>1, <1>2

\* Every rank is some ticket's.
LEMMA RanksTaken ==
    ASSUME NEW H \in SUBSET Nat, IsFiniteSet(H), NEW i \in 1 .. Cardinality(H)
    PROVE  Nth(H, i) \in H /\ Rank(H, Nth(H, i)) = i
<1> DEFINE n == Cardinality(H)
           f == [t \in H |-> Rank(H, t)]
<1>1. n \in Nat /\ IsFiniteSet(1 .. n) /\ Cardinality(1 .. n) = n
  BY FS_CardinalityType, FS_Interval
<1>2. f \in [H -> 1 .. n]
  BY RanksInOrder
<1>3. ASSUME NEW t \in H, NEW u \in H, t # u PROVE f[t] # f[u]
  <2>1. Rank(H, t) < Rank(H, u) \/ Rank(H, u) < Rank(H, t)
    BY <1>3, RanksInOrder
  <2>2. Rank(H, t) \in Nat /\ Rank(H, u) \in Nat
    BY <1>1, RanksInOrder
  <2> QED
    BY <2>1, <2>2
<1>4. f \in Injection(H, 1 .. n)
  BY <1>2, <1>3 DEF Injection, IsInjective
<1>5. f \in Surjection(H, 1 .. n)
  BY <1>1, <1>4, FS_Injection
<1>6. PICK t \in H : f[t] = i
  BY <1>5 DEF Surjection
<1> QED
  BY <1>6, NthOfRank

\* When a ticket goes, those behind it move up by one.
LEMMA NthRemoved ==
    ASSUME NEW H \in SUBSET Nat, IsFiniteSet(H), NEW t \in H, NEW i \in 1 .. (Cardinality(H) - 1)
    PROVE  Nth(H \ {t}, i) = IF i < Rank(H, t) THEN Nth(H, i) ELSE Nth(H, i + 1)
<1> DEFINE G == H \ {t}
           j == IF i < Rank(H, t) THEN i ELSE i + 1
           v == Nth(H, j)
<1>1. Cardinality(H) \in Nat /\ Rank(H, t) \in 1 .. Cardinality(H)
  BY FS_CardinalityType, RanksInOrder
<1>2. j \in 1 .. Cardinality(H) /\ j # Rank(H, t)
  BY <1>1
<1> HIDE DEF j
<1>3. v \in H /\ Rank(H, v) = j
  BY <1>2, RanksTaken
<1>4. v \in G /\ IsFiniteSet(G) /\ G \in SUBSET Nat
  BY <1>2, <1>3, FS_RemoveElement
<1>5. v < t <=> j < Rank(H, t)
  <2>1. v \in Nat /\ t \in Nat /\ v # t /\ j \in Nat /\ Rank(H, t) \in Nat
    <3> HIDE DEF v
    <3>1. v \in Nat /\ t \in Nat
      BY <1>3
    <3>2. v # t
      BY <1>2, <1>3
    <3>3. j \in Nat /\ Rank(H, t) \in Nat
      BY <1>1, <1>2
    <3> QED
      BY <3>1, <3>2, <3>3
  <2>2. (v < t => j < Rank(H, t)) /\ (t < v => Rank(H, t) < j)
    BY <1>3, RanksInOrder
  <2> HIDE DEF v
  <2> QED
    BY <2>1, <2>2
<1>6. IsFiniteSet(Upto(H, v)) /\ Rank(H, v) \in Nat
  BY <1>2, <1>3, FS_Subset DEF Upto
<1> HIDE DEF v
<1>7. Upto(G, v) = Upto(H, v) \ {t}
  BY DEF Upto
<1>8. Rank(G, v) = IF t \in Upto(H, v) THEN Rank(H, v) - 1 ELSE Rank(H, v)
  BY <1>6, <1>7, FS_RemoveElement DEF Rank
<1>9. t \in Upto(H, v) <=> ~(v < t)
  BY <1>3 DEF Upto
<1>10. Rank(G, v) = i
  BY <1>1, <1>3, <1>5, <1>8, <1>9 DEF j
<1> HIDE DEF G
<1>11. Nth(G, i) = v
  BY <1>4, <1>10, NthOfRank
<1> QED
  BY <1>11 DEF G, v, j

\* A ticket above all others comes last.
LEMMA NthAdded ==
    ASSUME NEW H \in SUBSET Nat, IsFiniteSet(H), NEW n \in Nat, \A u \in H : u < n
    PROVE  /\ Cardinality(H \cup {n}) = Cardinality(H) + 1 /\ IsFiniteSet(H \cup {n})
           /\ Nth(H \cup {n}, Cardinality(H) + 1) = n
           /\ \A i \in 1 .. Cardinality(H) : Nth(H \cup {n}, i) = Nth(H, i)
<1> DEFINE G == H \cup {n}
<1>1. n \notin H
  OBVIOUS
<1>2. Cardinality(G) = Cardinality(H) + 1 /\ IsFiniteSet(G) /\ G \in SUBSET Nat
  BY <1>1, FS_AddElement
<1>3. Upto(G, n) = G
  <2>1. \A u \in G : u <= n
    OBVIOUS
  <2> HIDE DEF G
  <2> QED  BY <2>1 DEF Upto
<1>4. Rank(G, n) = Cardinality(H) + 1
  BY <1>2, <1>3 DEF Rank
<1>5. Nth(G, Cardinality(H) + 1) = n
  <2>1. n \in G
    OBVIOUS
  <2> HIDE DEF G
  <2> QED  BY <1>2, <1>4, <2>1, NthOfRank
<1>6. ASSUME NEW i \in 1 .. Cardinality(H) PROVE Nth(G, i) = Nth(H, i)
  <2> DEFINE v == Nth(H, i)
  <2>1. v \in H /\ Rank(H, v) = i
    BY RanksTaken
  <2> HIDE DEF v
  <2>2. Upto(G, v) = Upto(H, v) /\ v \in G
    BY <2>1 DEF Upto
  <2>3. Rank(G, v) = i
    BY <2>1, <2>2 DEF Rank
  <2> HIDE DEF G
  <2>4. Nth(G, i) = v
    BY <1>2, <2>2, <2>3, NthOfRank
  <2> QED
    BY <2>4 DEF v
<1> QED
  BY <1>2, <1>5, <1>6

-----------------------------------------------------------------------------
(* The line, for the tickets that are held and their owners.               *)

\* A place is a held ticket, of one owner, and every held
\* ticket is some session's place.
HeldSound ==
    /\ Held \in SUBSET Nat /\ IsFiniteSet(Held)
    /\ \A t \in Held : serving <= t /\ t < next
    /\ \A s \in Session : Place(s) # NoTicket => Place(s) \in Held
    /\ \A s \in Session : Place(s) # NoTicket => (CHOOSE r \in Owners(Place(s)) : TRUE) = s
    /\ \A t \in Held : \E s \in Session : Place(s) = t /\ t # NoTicket

\* So it is in a queue that keeps its invariant.
LEMMA HeldPlaces == QueueInv => HeldSound
<1> SUFFICES ASSUME QueueInv PROVE HeldSound
  OBVIOUS
<1>1. serving \in Nat /\ next \in Nat
  BY DEF QueueInv, TypeOK
<1>2. /\ Held \subseteq serving .. (next - 1)
      /\ \A t \in serving .. (next - 1) : t \in Nat /\ serving <= t /\ t < next
  BY <1>1 DEF Held
<1>3. IsFiniteSet(Held)
  <2>1. IsFiniteSet(serving .. (next - 1))
    BY <1>1, FS_Interval
  <2> QED
    BY <1>2, <2>1, FS_Subset
<1>4. ASSUME NEW s \in Session, Place(s) # NoTicket
      PROVE  Place(s) \in Held /\ (CHOOSE r \in Owners(Place(s)) : TRUE) = s
  <2>1. Owners(Place(s)) = {s}
    BY <1>4 DEF QueueInv, PlacesSound, Owners
  <2>2. Place(s) \in Nat /\ serving <= Place(s) /\ Place(s) < next
    BY <1>4, PlaceOfThread DEF QueueInv, PlacesSound, Ticket
  <2>3. Place(s) \in serving .. (next - 1)
    BY <1>1, <2>2
  <2>4. Place(s) \in Held
    BY <2>1, <2>3 DEF Held
  <2> QED
    BY <2>1, <2>4
<1>5. \A t \in Held : (\E s \in Session : Place(s) = t) /\ t # NoTicket
  BY <1>2 DEF Held, Owners, NoTicket
<1> QED
  BY <1>2, <1>3, <1>4, <1>5 DEF HeldSound

\* The line is a sequence of sessions: each one that has a place, at the rank
\* of its ticket.
LineSound ==
    /\ Cardinality(Held) \in Nat
    /\ Line \in Seq(Session) /\ Len(Line) = Cardinality(Held)
    /\ \A i \in 1 .. Cardinality(Held) : Place(Line[i]) = Nth(Held, i)
    /\ \A s \in Session : Place(s) # NoTicket =>
           Rank(Held, Place(s)) \in 1 .. Cardinality(Held) /\ Line[Rank(Held, Place(s))] = s

\* So it is in a queue that keeps its invariant.
LEMMA LineOfPlaces == QueueInv => LineSound
<1> SUFFICES ASSUME QueueInv, HeldSound PROVE LineSound
  BY HeldPlaces
<1>1. Cardinality(Held) \in Nat
  BY FS_CardinalityType DEF HeldSound
<1>2. ASSUME NEW i \in 1 .. Cardinality(Held)
      PROVE  Line[i] \in Session /\ Place(Line[i]) = Nth(Held, i)
  <2>1. Line[i] = CHOOSE r \in Owners(Nth(Held, i)) : TRUE
    BY DEF Line
  <2>2. Nth(Held, i) \in Held
    BY RanksTaken DEF HeldSound
  <2>3. PICK s \in Session : Place(s) = Nth(Held, i) /\ Place(s) # NoTicket
    BY <2>2 DEF HeldSound
  <2>4. (CHOOSE r \in Owners(Place(s)) : TRUE) = s
    BY <2>3 DEF HeldSound
  <2> QED
    BY <2>1, <2>3, <2>4
<1>3. Line \in [1 .. Cardinality(Held) -> Session]
  BY <1>2 DEF Line
<1>4. Line \in Seq(Session) /\ Len(Line) = Cardinality(Held)
  BY <1>1, <1>3
<1>5. ASSUME NEW s \in Session, Place(s) # NoTicket
      PROVE  Rank(Held, Place(s)) \in 1 .. Cardinality(Held) /\ Line[Rank(Held, Place(s))] = s
  <2>1. Place(s) \in Held
    BY <1>5 DEF HeldSound
  <2>2. Rank(Held, Place(s)) \in 1 .. Cardinality(Held) /\ Nth(Held, Rank(Held, Place(s))) = Place(s)
    BY <2>1, RanksInOrder, NthOfRank DEF HeldSound
  <2>3. Line[Rank(Held, Place(s))] = CHOOSE r \in Owners(Place(s)) : TRUE
    BY <2>2 DEF Line
  <2> QED
    BY <1>5, <2>2, <2>3 DEF HeldSound
<1> QED
  BY <1>1, <1>2, <1>4, <1>5 DEF LineSound

\* The same of the queue after a step.
LEMMA SoundNext == QueueInv' => HeldSound' /\ LineSound'
BY HeldPlaces, LineOfPlaces, PTL

\* As long as everyone keeps the place it has, the line stays.
LEMMA LineStays ==
    ASSUME QueueInv, QueueInv', \A s \in Session : Place(s)' = Place(s)
    PROVE  Line' = Line
<1>1. Held' = Held
  <2>1. \A t : t \in Held <=> \E s \in Session : Place(s) = t /\ t # NoTicket
    BY HeldPlaces DEF HeldSound
  <2>2. \A t : t \in Held' <=> \E s \in Session : Place(s)' = t /\ t # NoTicket
    BY SoundNext DEF HeldSound
  <2> QED
    BY <2>1, <2>2
<1>2. \A t : Owners(t)' = Owners(t)
  BY DEF Owners
<1> QED
  BY <1>1, <1>2 DEF Line

\* A ticket given out is the last of the line.
LEMMA LineGrows ==
    ASSUME QueueInv, QueueInv', NEW s \in Session,
           Place(s) = NoTicket, Place(s)' = next, next' = next + 1,
           \A r \in Session : r # s => Place(r)' = Place(r)
    PROVE  Line' = Append(Line, s) /\ ~Contains(Line, s)
<1> DEFINE n == Cardinality(Held)
<1>1. HeldSound /\ HeldSound' /\ LineSound /\ LineSound' /\ next \in Nat /\ next # NoTicket
  BY HeldPlaces, LineOfPlaces, SoundNext DEF QueueInv, TypeOK, NoTicket
<1>2. Held' = Held \cup {next}
  <2>1. \A t : t \in Held <=> \E r \in Session : Place(r) = t /\ t # NoTicket
    BY <1>1 DEF HeldSound
  <2>2. \A t : t \in Held' <=> \E r \in Session : Place(r)' = t /\ t # NoTicket
    BY <1>1 DEF HeldSound
  <2> QED
    BY <1>1, <2>1, <2>2
<1>3. /\ Held \in SUBSET Nat /\ IsFiniteSet(Held) /\ \A u \in Held : u < next
  BY <1>1 DEF HeldSound
<1>4. /\ Cardinality(Held') = n + 1 /\ Nth(Held', n + 1) = next
      /\ \A i \in 1 .. n : Nth(Held', i) = Nth(Held, i) /\ Nth(Held, i) \in Held
  BY <1>1, <1>2, <1>3, NthAdded, RanksTaken
<1>5. /\ n \in Nat /\ Line \in Seq(Session) /\ Len(Line) = n
      /\ Line' \in Seq(Session) /\ Len(Line') = n + 1
      /\ \A i \in 1 .. n : Line[i] \in Session /\ Place(Line[i]) = Nth(Held, i)
      /\ \A i \in 1 .. (n + 1) : Line'[i] \in Session
  BY <1>1, <1>4 DEF LineSound
<1>6. \A q \in Session : \A i \in 1 .. (n + 1) : Line'[i] = q => Place(q)' = Nth(Held', i)
  BY <1>1, <1>4 DEF LineSound
<1>7. \A q, r \in Session : Place(q)' = Place(r)' /\ Place(q)' # NoTicket => q = r
  BY DEF QueueInv, PlacesSound
<1> HIDE DEF n
<1>8. ASSUME NEW i \in 1 .. n PROVE Line'[i] = Line[i] /\ Line[i] # s
  <2>1. i \in 1 .. (n + 1)
    BY <1>5
  <2>2. Place(Line[i]) = Nth(Held, i) /\ Nth(Held, i) # NoTicket /\ Line[i] \in Session
    BY <1>1, <1>4, <1>5 DEF HeldSound
  <2>3. PICK q \in Session : q = Line[i]
    BY <2>2
  <2>4. q # s /\ Place(q)' = Nth(Held, i)
    BY <2>2, <2>3
  <2> QED
    BY <1>4, <1>5, <1>6, <1>7, <2>1, <2>2, <2>3, <2>4
<1>9. Line'[n + 1] = s
  <2>1. n + 1 \in 1 .. (n + 1)
    BY <1>5
  <2> QED
    BY <1>1, <1>4, <1>5, <1>6, <1>7, <2>1
<1>10. Line' = Append(Line, s)
  <2>1. /\ Append(Line, s) \in Seq(Session) /\ Len(Append(Line, s)) = n + 1
        /\ \A i \in 1 .. (n + 1) : Append(Line, s)[i] = IF i <= n THEN Line[i] ELSE s
    BY <1>5
  <2>2. \A i \in 1 .. (n + 1) : Line'[i] = Append(Line, s)[i]
    BY <1>5, <1>8, <1>9, <2>1
  <2> QED
    BY <1>5, <2>1, <2>2, SeqEqual
<1> QED
  BY <1>5, <1>8, <1>10 DEF Contains

\* A place that is given up leaves the line, and the others as they were.
LEMMA LineShrinks ==
    ASSUME QueueInv, QueueInv', NEW s \in Session,
           Place(s) # NoTicket, Place(s)' = NoTicket,
           \A r \in Session : r # s => Place(r)' = Place(r)
    PROVE  LET k == Rank(Held, Place(s))
           IN  /\ k \in 1 .. Len(Line) /\ Line[k] = s
               /\ Line \in Seq(Session) /\ Line' \in Seq(Session)
               /\ Len(Line') = Len(Line) - 1
               /\ \A i \in 1 .. (Len(Line) - 1) : Line'[i] = IF i < k THEN Line[i] ELSE Line[i + 1]
<1> DEFINE n == Cardinality(Held)
           t == Place(s)
           k == Rank(Held, t)
<1>1. HeldSound /\ HeldSound' /\ LineSound /\ LineSound' /\ t \in Held
  BY HeldPlaces, LineOfPlaces, SoundNext DEF HeldSound
<1>2. Held' = Held \ {t}
  <2> HIDE DEF n, k, t
  <2>1. \A u : u \in Held <=> \E r \in Session : Place(r) = u /\ u # NoTicket
    <3>1. HeldSound
      BY <1>1
    <3>2. \A r \in Session : Place(r) # NoTicket => Place(r) \in Held
      BY <3>1 DEF HeldSound
    <3>3. \A u \in Held : \E r \in Session : Place(r) = u /\ u # NoTicket
      BY <3>1 DEF HeldSound
    <3> QED
      BY <3>2, <3>3
  <2>2. \A u : u \in Held' <=> \E r \in Session : Place(r)' = u /\ u # NoTicket
    BY <1>1 DEF HeldSound
  <2>3. \A r \in Session : Place(r) = Place(s) => r = s
    BY DEF QueueInv, PlacesSound
  <2> QED
    BY <2>1, <2>2, <2>3 DEF t
<1>3. Held \in SUBSET Nat /\ IsFiniteSet(Held)
  BY <1>1 DEF HeldSound
<1>4. /\ n \in Nat /\ k \in 1 .. n /\ Line[k] = s
      /\ Line \in Seq(Session) /\ Len(Line) = n /\ Line' \in Seq(Session) /\ Len(Line') = Cardinality(Held')
      /\ \A i \in 1 .. n : Line[i] \in Session /\ Place(Line[i]) = Nth(Held, i) /\ Nth(Held, i) \in Held
  BY <1>1, <1>3, RanksTaken DEF LineSound
<1>5. Cardinality(Held') = n - 1
  BY <1>1, <1>2, <1>3, FS_RemoveElement
<1>6. \A i \in 1 .. (n - 1) : Nth(Held', i) = IF i < k THEN Nth(Held, i) ELSE Nth(Held, i + 1)
  BY <1>1, <1>2, <1>3, NthRemoved
<1>7. \A q \in Session : \A i \in 1 .. (n - 1) : Line'[i] = q => Place(q)' = Nth(Held', i)
  BY <1>1, <1>5 DEF LineSound
<1>8. \A q, r \in Session : Place(q)' = Place(r)' /\ Place(q)' # NoTicket => q = r
  BY DEF QueueInv, PlacesSound
<1>9. \A i \in 1 .. (n - 1) : Line'[i] \in Session
  BY <1>4, <1>5
<1>10. \A i, j \in 1 .. n : i # j => Nth(Held, i) # Nth(Held, j)
  <2>1. \A i \in 1 .. n : Rank(Held, Nth(Held, i)) = i
    BY <1>3, RanksTaken
  <2> HIDE DEF n
  <2> QED
    BY <2>1
<1> HIDE DEF n, k, t
<1>11. ASSUME NEW i \in 1 .. (n - 1), NEW j \in 1 .. n, j = IF i < k THEN i ELSE i + 1
       PROVE  Line'[i] = Line[j]
  <2>1. Nth(Held', i) = Nth(Held, j)
    BY <1>6, <1>11
  <2>2. Line[j] \in Session /\ Place(Line[j]) = Nth(Held, j) /\ Nth(Held, j) # NoTicket
    BY <1>1, <1>4 DEF HeldSound
  <2>3. j # k
    BY <1>4, <1>11
  <2>4. Place(s) = Nth(Held, k)
    BY <1>4
  <2>5. Line[j] # s
    BY <1>4, <1>10, <2>2, <2>3, <2>4
  <2>6. PICK q \in Session : q = Line[j]
    BY <2>2
  <2>7. q # s /\ Place(q)' = Nth(Held, j)
    BY <2>2, <2>5, <2>6
  <2> QED
    BY <1>7, <1>8, <1>9, <2>1, <2>2, <2>6, <2>7
<1>12. \A i \in 1 .. (n - 1) : Line'[i] = IF i < k THEN Line[i] ELSE Line[i + 1]
  <2> SUFFICES ASSUME NEW i \in 1 .. (n - 1) PROVE Line'[i] = IF i < k THEN Line[i] ELSE Line[i + 1]
    OBVIOUS
  <2>1. i \in 1 .. n /\ i + 1 \in 1 .. n
    BY <1>4
  <2> QED
    BY <1>11, <2>1
<1> QED
  BY <1>4, <1>5, <1>12 DEF k, t

-----------------------------------------------------------------------------
(* Steps of the queue as steps of FifoTurns.                               *)

Insiders == {s \in Session : Inside(s)}

\* A turn is taken by the session whose place is served, the first of the line.
LEMMA InsideIsFirst ==
    ASSUME QueueInv
    PROVE  /\ \A s \in Session : Inside(s) => Place(s) = serving /\ Place(s) # NoTicket
           /\ \A s, r \in Session : Inside(s) /\ Place(r) = Place(s) => r = s
           /\ \A s \in Session : Place(s) # NoTicket /\ Place(s) = serving =>
                  Rank(Held, Place(s)) = 1 /\ Line # <<>> /\ Head(Line) = s
<1>1. HeldSound /\ LineSound /\ serving \in Nat
  BY HeldPlaces, LineOfPlaces DEF QueueInv, TypeOK
<1>2. \A s \in Session : Inside(s) => Place(s) = serving /\ Place(s) # NoTicket
  BY DEF QueueInv, TicketsFollowThreads, Inside, Place, Queueing, Reserving
<1>3. \A s, r \in Session : Inside(s) /\ Place(r) = Place(s) => r = s
  BY <1>2 DEF QueueInv, PlacesSound
<1>4. ASSUME NEW s \in Session, Place(s) # NoTicket, Place(s) = serving
      PROVE  Rank(Held, Place(s)) = 1 /\ Line # <<>> /\ Head(Line) = s
  <2>1. serving \in Held /\ \A t \in Held : t \in Nat /\ serving <= t
    BY <1>1, <1>4 DEF HeldSound
  <2>2. Upto(Held, serving) = {serving}
    <3>1. \A t \in Held : t <= serving <=> t = serving
      BY <1>1, <2>1
    <3> QED
      BY <2>1, <3>1 DEF Upto
  <2>3. Rank(Held, serving) = 1
    BY <2>2, FS_Singleton DEF Rank
  <2>4. Line \in Seq(Session) /\ 1 \in 1 .. Len(Line) /\ Line[1] = s
    BY <1>1, <1>4, <2>3 DEF LineSound
  <2> QED
    BY <1>4, <2>3, <2>4
<1> QED
  BY <1>2, <1>3, <1>4

\* A step that enters or leaves no turn takes a place at the end, or nothing.
LEMMA JoinOrStay ==
    ASSUME QueueInv, QueueInv', NEW s \in Session, PlaceKept(s),
           \A r \in Session : r # s => Place(r)' = Place(r), Insiders' = Insiders
    PROVE  [Turns!Next]_(Turns!turns)
<1>1. CASE Place(s)' = Place(s)
  <2>1. Line' = Line
    BY <1>1, LineStays
  <2> QED
    BY <2>1 DEF Turns!turns, Insiders
<1>2. CASE Place(s)' # Place(s)
  <2>1. Line' = Append(Line, s) /\ ~Contains(Line, s)
    BY <1>2, LineGrows DEF PlaceKept
  <2>2. Turns!Join(s)
    BY <2>1 DEF Turns!Join, Insiders, Contains, Turns!Contains
  <2> QED
    BY <2>2 DEF Turns!Next
<1> QED
  BY <1>1, <1>2

\* A step that changes nobody's place, nor whose turn it is.
LEMMA StayStep ==
    ASSUME QueueInv, QueueInv', \A r \in Session : Place(r)' = Place(r),
           \A r \in Session : Inside(r)' <=> Inside(r)
    PROVE  [Turns!Next]_(Turns!turns)
<1>1. Line' = Line
  BY LineStays
<1> QED
  BY <1>1 DEF Turns!turns

\* wait(), try_take(): the first of the line enters when nobody is inside.
LEMMA EnterStep ==
    ASSUME QueueInv, QueueInv', NEW s \in Session, ~Inside(s), Place(s) # NoTicket, Place(s) = serving,
           Inside(s)', \A r \in Session : Place(r)' = Place(r) /\ (r # s => (Inside(r)' <=> Inside(r)))
    PROVE  Turns!Enter(s)
<1>1. Line' = Line
  BY LineStays
<1>2. \A r \in Session : ~Inside(r)
  BY InsideIsFirst
<1>3. Line # <<>> /\ Head(Line) = s
  BY InsideIsFirst
<1> QED
  BY <1>1, <1>2, <1>3 DEF Turns!Enter

\* release(): the turn ends, and the line moves up.
LEMMA LeaveStep ==
    ASSUME QueueInv, QueueInv', NEW s \in Session, Inside(s), Place(s)' = NoTicket, ~Inside(s)',
           \A r \in Session : r # s => Place(r)' = Place(r) /\ (Inside(r)' <=> Inside(r))
    PROVE  Turns!Leave(s)
<1>1. Place(s) = serving /\ Place(s) # NoTicket /\ \A r \in Session : Inside(r) => r = s
  BY InsideIsFirst
<1>2. Rank(Held, Place(s)) = 1 /\ Line # <<>> /\ Head(Line) = s
  BY <1>1, InsideIsFirst
<1>3. /\ Line \in Seq(Session) /\ Line' \in Seq(Session) /\ Len(Line) \in Nat /\ Len(Line') = Len(Line) - 1
      /\ \A i \in 1 .. (Len(Line) - 1) : Line'[i] = Line[i + 1]
  BY <1>1, <1>2, LineShrinks
<1>4. Line' = Tail(Line)
  <2>1. /\ Tail(Line) \in Seq(Session) /\ Len(Tail(Line)) = Len(Line) - 1
        /\ \A i \in 1 .. (Len(Line) - 1) : Tail(Line)[i] = Line[i + 1]
    BY <1>2, <1>3
  <2> QED
    BY <1>3, <2>1, SeqEqual
<1>5. {r \in Session : Inside(r)} = {s} /\ {r \in Session : Inside(r)'} = {}
  BY <1>1
<1> QED
  BY <1>4, <1>5 DEF Turns!Leave

\* cancel(): a place is given up by a session whose turn has not begun.
LEMMA QuitStep ==
    ASSUME QueueInv, QueueInv', NEW s \in Session, ~Inside(s), Place(s) # NoTicket, Place(s)' = NoTicket,
           ~Inside(s)', \A r \in Session : r # s => Place(r)' = Place(r) /\ (Inside(r)' <=> Inside(r))
    PROVE  Turns!Quit(s)
<1> DEFINE k == Rank(Held, Place(s))
           rest == RemoveAt(Line, k)
<1>1. /\ k \in 1 .. Len(Line) /\ Line[k] = s
      /\ Line \in Seq(Session) /\ Line' \in Seq(Session) /\ Len(Line) \in Nat
      /\ Len(Line') = Len(Line) - 1
      /\ \A i \in 1 .. (Len(Line) - 1) : Line'[i] = IF i < k THEN Line[i] ELSE Line[i + 1]
  BY LineShrinks
<1> HIDE DEF k
<1>2. Line' = rest
  <2> DEFINE front == SubSeq(Line, 1, k - 1)
             back == SubSeq(Line, k + 1, Len(Line))
  <2>1. /\ front \in Seq(Session) /\ Len(front) = k - 1
        /\ \A i \in 1 .. (k - 1) : front[i] = Line[i]
    BY <1>1
  <2>2. /\ back \in Seq(Session) /\ Len(back) = Len(Line) - k
        /\ \A i \in 1 .. (Len(Line) - k) : back[i] = Line[k + i]
    BY <1>1
  <2> HIDE DEF front, back
  <2>3. /\ front \o back \in Seq(Session) /\ Len(front \o back) = Len(Line) - 1
        /\ \A i \in 1 .. (Len(Line) - 1) : (front \o back)[i] = IF i < k THEN Line[i] ELSE Line[i + 1]
    <3>1. /\ front \o back \in Seq(Session) /\ Len(front \o back) = Len(front) + Len(back)
          /\ \A i \in 1 .. (Len(front) + Len(back)) :
                 (front \o back)[i] = IF i <= Len(front) THEN front[i] ELSE back[i - Len(front)]
      BY <2>1, <2>2, ConcatProperties
    <3>2. k \in Nat /\ Len(Line) \in Nat /\ 1 <= k /\ k <= Len(Line)
      BY <1>1
    <3>3. ASSUME NEW i \in 1 .. (Len(Line) - 1)
          PROVE  (front \o back)[i] = IF i < k THEN Line[i] ELSE Line[i + 1]
      <4>1. i \in 1 .. (Len(front) + Len(back))
        BY <2>1, <2>2, <3>2
      <4>2. CASE i < k
        <5>1. i <= Len(front) /\ i \in 1 .. (k - 1)
          BY <2>1, <3>2, <4>2
        <5> QED
          BY <2>1, <3>1, <4>1, <4>2, <5>1
      <4>3. CASE ~(i < k)
        <5>1. ~(i <= Len(front)) /\ i - Len(front) \in 1 .. (Len(Line) - k) /\ k + (i - Len(front)) = i + 1
          BY <2>1, <3>2, <4>3
        <5> QED
          BY <2>2, <3>1, <4>1, <4>3, <5>1
      <4> QED
        BY <4>2, <4>3
    <3> QED
      BY <2>1, <2>2, <3>1, <3>2, <3>3
  <2>4. Line' = front \o back
    <3>1. PICK new \in Seq(Session) : new = Line'
      BY <1>1
    <3>2. Len(new) = Len(front \o back) /\ \A i \in 1 .. Len(new) : new[i] = (front \o back)[i]
      BY <1>1, <2>3, <3>1
    <3> QED
      BY <2>3, <3>1, <3>2, SeqEqual
  <2> QED
    BY <2>4 DEF front, back, RemoveAt
<1>3. {r \in Session : Inside(r)'} = {r \in Session : Inside(r)}
  OBVIOUS
<1> QED
  BY <1>1, <1>2, <1>3 DEF Turns!Quit, RemoveAt, Turns!RemoveAt

-----------------------------------------------------------------------------
(* The queue's actions.                                                    *)

\* A thread that moves outside its turn, with the place it has or the next.
LEMMA MoveSimulates ==
    ASSUME QueueInv, QueueInv', NEW s \in Session, PlaceKept(s),
           \A r \in Session : r # s =>
               turn'[r] = turn[r] /\ ticket'[r] = ticket[r] /\ pc'[r] = pc[r],
           pc[s] \notin {"serve", "taken"}, pc'[s] \notin {"serve", "taken"}
    PROVE  [Turns!Next]_(Turns!turns)
<1>1. \A r \in Session : r # s => Place(r)' = Place(r)
  BY DEF Place
<1>2. Insiders' = Insiders
  BY DEF Insiders, Inside
<1> QED
  BY <1>1, <1>2, JoinOrStay

\* Where TakeTurn and PollTurn lead is outside a turn.
LEMMA QueuesOutside ==
    ASSUME QueueInv, NEW s \in Session
    PROVE  /\ TakeTurn(s) => pc'[s] \in {"disarm", "wait"}
           /\ PollTurn(s) => pc'[s] \in {"try", "read"}
BY DEF TakeTurn, PollTurn, Goto, QueueInv, TypeOK

\* Requests, polls and what follows a turn.
LEMMA LoopSimulates ==
    ASSUME QueueInv, QueueInv', NEW s \in Session,
           ReadRequest(s) \/ Idle(s) \/ After(s) \/ RoomMade(s)
    PROVE  [Turns!Next]_(Turns!turns)
<1>1. pc[s] \in {"read", "after", "stall"} /\ turn[s] = NoTicket /\ owed[s] = NoSession
  BY DEF ReadRequest, Idle, After, RoomMade, At, QueueInv, TicketsFollowThreads, OwedFollowsThreads, Queueing
<1>2. CASE TakeTurn(s)
  BY <1>1, <1>2, TakeTurnMoves, QueuesOutside, MoveSimulates
<1>3. CASE PollTurn(s) /\ turn' = turn /\ pc[s] \in {"read", "stall"}
  BY <1>1, <1>3, PollTurnMoves, QueuesOutside, MoveSimulates
<1>4. CASE ~TakeTurn(s) /\ ~(PollTurn(s) /\ turn' = turn /\ pc[s] \in {"read", "stall"})
  <2>1. UNCHANGED <<next, ticket, turn>>
    BY <1>4 DEF ReadRequest, Idle, After, RoomMade, At
  <2>2. pc' = pc \/ \E where \in {"stall", "read", "gone", "drop"} : pc' = [pc EXCEPT ![s] = where]
    BY <1>4 DEF ReadRequest, Idle, After, RoomMade, At, Goto, Stall
  <2>3. pc'[s] \notin {"serve", "taken"} /\ \A r \in Session : r # s => pc'[r] = pc[r]
    BY <1>1, <2>2 DEF QueueInv, TypeOK
  <2>4. PlaceKept(s)
    BY <2>1 DEF PlaceKept, Place
  <2> QED
    BY <1>1, <2>1, <2>3, <2>4, MoveSimulates
<1> QED
  BY <1>2, <1>3, <1>4

\* A turn is entered, by a request that waited or a poll that tried.
LEMMA LooksSimulate ==
    ASSUME QueueInv, QueueInv', NEW s \in Session, Wait(s) \/ Try(s)
    PROVE  [Turns!Next]_(Turns!turns)
<1>1. UNCHANGED <<next, serving, cancelled, ticket, turn>>
  BY DEF Wait, Try, shared
<1>2. /\ pc[s] \in {"wait", "try"} /\ pc'[s] \in {"serve", "taken", "asleep", "arm"}
      /\ pc'[s] \in {"serve", "taken"} <=> Place(s) = serving
      /\ \A r \in Session : r # s => pc'[r] = pc[r]
      /\ Place(s) # NoTicket
  BY DEF Wait, Try, At, Goto, QueueInv, TypeOK, TicketsFollowThreads, Place, Queueing, Reserving
<1>3. \A r \in Session : Place(r)' = Place(r)
  BY <1>1 DEF Place
<1>4. CASE Place(s) = serving
  <2>1. Turns!Enter(s)
    BY <1>2, <1>3, <1>4, EnterStep DEF Inside
  <2> QED
    BY <2>1 DEF Turns!Next
<1>5. CASE Place(s) # serving
  BY <1>2, <1>3, <1>5, StayStep DEF Inside
<1> QED
  BY <1>4, <1>5

\* Every step of the queue is one of FifoTurns, or changes nothing of it.
LEMMA TurnsStep == QueueInv /\ QueueInv' /\ [Next]_vars => [Turns!Next]_(Turns!turns)
<1> SUFFICES ASSUME QueueInv, QueueInv', [Next]_vars PROVE [Turns!Next]_(Turns!turns)
  OBVIOUS
<1>1. ASSUME NEW s \in Session, Step(s) PROVE [Turns!Next]_(Turns!turns)
  <2>1. CASE ReadRequest(s) \/ Idle(s) \/ After(s) \/ RoomMade(s)
    BY <2>1, LoopSimulates
  <2>2. CASE Wait(s) \/ Try(s)
    BY <2>2, LooksSimulate
  <2>3. CASE Drop(s) \/ ReadIgnored(s) \/ ReadInvalid(s) \/ ReadBroken(s) \/ ReadEof(s) \/ TooSlow(s) \/ Disarm(s) \/ Arm(s) \/ Signal(s)
    <3>1. UNCHANGED <<next, ticket, turn>>
      BY <2>3 DEF Drop, ReadIgnored, ReadInvalid, ReadBroken, ReadEof, TooSlow, Disarm, Arm, Signal, shared
    <3>2. /\ pc[s] \in {"drop", "read", "stall", "disarm", "arm", "signal"}
          /\ pc' = pc \/ \E where \in {"after", "drop", "stall", "wait", "read"} : pc' = [pc EXCEPT ![s] = where]
      BY <2>3 DEF Drop, ReadIgnored, ReadInvalid, ReadBroken, ReadEof, TooSlow, Disarm, Arm, Signal, At, Goto, Stall, NoStall
    <3>3. /\ pc[s] \notin {"serve", "taken"} /\ pc'[s] \notin {"serve", "taken"}
          /\ \A r \in Session : r # s => pc'[r] = pc[r]
      BY <3>2 DEF QueueInv, TypeOK
    <3>4. PlaceKept(s)
      BY <3>1 DEF PlaceKept, Place
    <3> QED
      BY <3>1, <3>3, <3>4, MoveSimulates
  <2>4. CASE Notify(s)
    <3>1. \A r \in Session : Place(r)' = Place(r)
      BY <2>4 DEF Notify, Place
    <3>2. \A r \in Session : Inside(r)' <=> Inside(r)
      BY <2>4 DEF Notify, Inside, At
    <3> QED
      BY <3>1, <3>2, StayStep
  <2>5. CASE Taken(s)
    <3>1. /\ turn' = [turn EXCEPT ![s] = ticket[s]] /\ ticket' = [ticket EXCEPT ![s] = NoTicket]
          /\ pc[s] = "taken" /\ pc' = [pc EXCEPT ![s] = "serve"]
      BY <2>5 DEF Taken, At, Goto
    <3>2. \A r \in Session : Place(r)' = Place(r) /\ (Inside(r)' <=> Inside(r))
      BY <3>1 DEF QueueInv, TypeOK, TicketsFollowThreads, Place, Inside, Queueing, Reserving
    <3> QED
      BY <3>2, StayStep
  <2>6. CASE Release(s)
    <3>1. /\ turn' = [turn EXCEPT ![s] = NoTicket] /\ ticket' = ticket
          /\ pc[s] = "serve" /\ pc' = [pc EXCEPT ![s] = "notify"]
      BY <2>6 DEF Release, At, Goto
    <3>2. ticket[s] = NoTicket
      BY <3>1 DEF QueueInv, TicketsFollowThreads, Reserving
    <3>3. /\ Inside(s) /\ ~Inside(s)' /\ Place(s)' = NoTicket
          /\ \A r \in Session : r # s => Place(r)' = Place(r) /\ (Inside(r)' <=> Inside(r))
      BY <3>1, <3>2 DEF QueueInv, TypeOK, Place, Inside
    <3>4. Turns!Leave(s)
      BY <3>3, LeaveStep
    <3> QED
      BY <3>4 DEF Turns!Next
  <2>7. CASE Cancel(s)
    <3>1. /\ turn' = turn /\ ticket' = [ticket EXCEPT ![s] = NoTicket] /\ ticket[s] # NoTicket
          /\ pc[s] = "drop" /\ pc' = [pc EXCEPT ![s] = "notify"]
      BY <2>7 DEF Cancel, At, Goto
    <3>2. turn[s] = NoTicket
      BY <3>1 DEF QueueInv, TicketsFollowThreads, Queueing
    <3>3. /\ ~Inside(s) /\ ~Inside(s)' /\ Place(s) # NoTicket /\ Place(s)' = NoTicket
          /\ \A r \in Session : r # s => Place(r)' = Place(r) /\ (Inside(r)' <=> Inside(r))
      BY <3>1, <3>2 DEF QueueInv, TypeOK, Place, Inside
    <3>4. Turns!Quit(s)
      BY <3>3, QuitStep
    <3> QED
      BY <3>4 DEF Turns!Next
  <2> QED
    BY <1>1, <2>1, <2>2, <2>3, <2>4, <2>5, <2>6, <2>7 DEF Step
<1>2. ASSUME NEW s \in Session, NEW f \in Frame, Arrive(s, f) PROVE [Turns!Next]_(Turns!turns)
  <2>1. UNCHANGED <<turn, ticket, pc>>
    BY <1>2 DEF Arrive
  <2> QED
    BY <2>1, StayStep DEF Place, Inside
<1>3. CASE UNCHANGED vars
  <2>1. UNCHANGED <<turn, ticket, pc>>
    BY <1>3 DEF vars
  <2> QED
    BY <2>1, StayStep DEF Place, Inside
<1> QED
  BY <1>1, <1>2, <1>3 DEF Next

\* processing(), wait, release, cancel: the tickets, the skipping of the ones
\* given back, the mutex, the condition variable and the wakes implement turns
\* given in the order they were asked for, one at a time, for any number of
\* sessions.
THEOREM QueueImplementsTurns == Spec => GivesTurnsInOrder
<1>1. Init => Turns!Init
  <2> SUFFICES ASSUME Init, LineSound, HeldSound PROVE Turns!Init
    BY QueueInit, LineOfPlaces, HeldPlaces
  <2>1. \A s \in Session : Place(s) = NoTicket /\ ~Inside(s)
    BY DEF Init, Place, Inside
  <2>2. Held = {}
    BY <2>1 DEF HeldSound
  <2>3. Line \in Seq(Session) /\ Len(Line) = 0
    BY <2>2, FS_EmptySet DEF LineSound
  <2>4. Line = <<>>
    BY <2>3, EmptySeq
  <2> QED
    BY <2>1, <2>4 DEF Turns!Init
<1>2. QueueInv /\ QueueInv' /\ [Next]_vars => [Turns!Next]_(Turns!turns)
  BY TurnsStep
<1> QED
  BY <1>1, <1>2, QueueInit, QueueStep, PTL DEF Spec, GivesTurnsInOrder, Turns!Spec

=============================================================================
