---------------------------- MODULE EventFollower ----------------------------
(***************************************************************************)
(* What a caller that follows the event stream keeps, and what it has been *)
(* told: shared by the callers of core.events.read (EventReaders) and the  *)
(* consumers of subscriptions (Delivery).  A caller keeps the cursor of    *)
(* what it received last.  The rest is history: the events it was given,   *)
(* the revisions it knows from a gap's snapshot, and the events it was     *)
(* told are no longer vouched for.                                         *)
(***************************************************************************)
EXTENDS EventStore

CONSTANTS
    Reader,
    Sees,     \* the subjects that a reader may read
    Wants,    \* the kinds of subject that it asks for
    Budget    \* its receive limit, less the envelope

ASSUME ReaderAssumption ==
    /\ Sees \in [Reader -> SUBSET Subject]
    /\ Wants \in [Reader -> SUBSET Subject]
    /\ Budget \in [Reader -> Nat]

VARIABLES
    cursor,   \* the cursor it received last
    since,    \* the first event that it asked for, or 0
    told,     \* the events it was given, in order
    known,    \* the revisions that snapshots gave it
    lost      \* the events it was told are not vouched for

followers == <<cursor, since, told, known, lost>>

FollowerTypeOK ==
    /\ cursor \in [Reader -> Position]
    /\ since \in [Reader -> Nat]
    /\ told \in [Reader -> Seq(Nat)]
    /\ known \in [Reader -> [Subject -> Nat]]
    /\ lost \in [Reader -> SUBSET Nat]

FollowerInit ==
    /\ cursor = [r \in Reader |-> Nothing]
    /\ since = [r \in Reader |-> 0]
    /\ told = [r \in Reader |-> <<>>]
    /\ known = [r \in Reader |-> [s \in Subject |-> 0]]
    /\ lost = [r \in Reader |-> {}]

-----------------------------------------------------------------------------
(* What a reader learns from an answer. *)

Given(items) ==
    LET given[k \in 0 .. Len(items)] ==
            IF k = 0 THEN << >>
            ELSE IF items[k].type = "event" THEN Append(given[k - 1], items[k].event)
            ELSE given[k - 1]
    IN  given[Len(items)]

Learned(items, s) ==
    Max({0} \cup {items[k].subjects[s] : k \in {k \in DOMAIN items :
                      items[k].type = "gap" /\ s \in DOMAIN items[k].subjects}})

GivenUp(items) ==
    {i \in DOMAIN log : \E k \in DOMAIN items :
        /\ items[k].type = "epoch_change"
        /\ items[k].from = log[i].epoch
        /\ items[k].vouched < log[i].seq}

\* A reader takes in items and the cursor that came with them.
Learn(r, items, at) ==
    /\ cursor' = [cursor EXCEPT ![r] = at]
    /\ told' = [told EXCEPT ![r] = @ \o Given(items)]
    /\ known' = [known EXCEPT ![r] = [s \in Subject |-> Max({@[s], Learned(items, s)})]]
    /\ lost' = [lost EXCEPT ![r] = @ \cup GivenUp(items)]

-----------------------------------------------------------------------------
(* Properties of every follower. *)

\* A reader has been given an event, or may not or did not want to see it, or
\* has its subject at that revision or a later one from a snapshot, or was told
\* that it is not vouched for.
Accounted(r, i) ==
    \/ i \in Range(told[r])
    \/ log[i].subject \notin Sees[r] \cap Wants[r]
    \/ known[r][log[i].subject] >= log[i].rev
    \/ i \in lost[r]

\* No silent gaps (retain_last_events, read_events): a reader is "never handed
\* the next surviving event as though nothing were missing".  Every event it
\* asked for that is behind its cursor is accounted for.
NoSilentGap ==
    \A r \in Reader : \A i \in DOMAIN log :
        since[r] \in 1 .. i /\ Before(Place(i), cursor[r]) => Accounted(r, i)

\* Resuming from a cursor never repeats and never reorders an event.
DeliveredOnceInOrder ==
    \A r \in Reader : \A j, k \in DOMAIN told[r] : j < k => told[r][j] < told[r][k]

\* A cursor that the provider issued stays valid (decode_cursor), whatever the
\* later starts did to the stream.
CursorsStayValid ==
    \A r \in Reader : since[r] > 0 => ValidCursor(cursor[r])

\* Whoever follows the stream by its cursors is told of everything it asked for,
\* once and in order (read_events, drain_subscriptions_locked).
FollowsStream == NoSilentGap /\ DeliveredOnceInOrder

=============================================================================
