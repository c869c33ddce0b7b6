----------------------------- MODULE EventStore -----------------------------
(***************************************************************************)
(* The event stream of crates/cbr-provider/src/store.rs: what commands and *)
(* the provider append, the epochs and the retention a process start       *)
(* applies, and read_events, which a read and a subscription go through.   *)
(*                                                                         *)
(* Commands run one at a time (ProcessingQueue), and each is one SQLite    *)
(* transaction, so a commit is one step.  A start is a transaction per     *)
(* step and may be cut short after any of them.                            *)
(*                                                                         *)
(* "log" remembers every event ever committed, by the number of its        *)
(* commit; the table "events" holds the rows that retention has left.      *)
(***************************************************************************)
EXTENDS Integers, FiniteSets, Sequences, SequencesExt, FiniteSetsExt

CONSTANTS
    Subject,       \* what commands change
    Capabilities,  \* the subject of the provider's capability snapshot
    Retain,        \* the values of events.retain_last that launches use
    Unvouched,     \* the values of events.unvouched_last that launches use
    EventSize,     \* the size of an event, by its subject
    MaxEvents,     \* bound: events committed
    MaxRevision,   \* bound: revisions of a subject
    MaxEpochs,     \* bound: epochs of the stream
    MaxStarts      \* bound: process starts

ASSUME StoreAssumption ==
    /\ IsFiniteSet(Subject) /\ Capabilities \in Subject
    /\ Retain \subseteq Nat /\ Unvouched \subseteq Nat
    /\ EventSize \in [Subject -> Nat \ {0}]
    /\ MaxEvents \in Nat /\ MaxRevision \in Nat
    /\ MaxEpochs \in Nat /\ MaxStarts \in Nat

VARIABLES
    log,        \* history: every event, in the order of its commit
    rows,       \* the events table: the numbers of the retained events
    vouched,    \* epochs: vouched_through of every closed epoch
    discarded,  \* the watermark of retention
    rev,        \* the revision of each subject
    phase,      \* where the process is
    starts

store == <<log, rows, vouched, discarded, rev, phase, starts>>

-----------------------------------------------------------------------------
Position == [epoch : Nat, seq : Nat]

Event == [epoch : Nat, seq : Nat, subject : Subject, rev : Nat]

Phase == {"down", "epoch", "retain", "reconcile", "up"}

\* Before anything was discarded: a position that no reader is at or before.
Nothing == [epoch |-> 0, seq |-> 0]

StoreTypeOK ==
    /\ log \in Seq(Event)
    /\ rows \subseteq DOMAIN log
    /\ vouched \in Seq(Nat)
    /\ discarded \in Position
    /\ rev \in [Subject -> Nat]
    /\ phase \in Phase
    /\ starts \in Nat

StoreInit ==
    /\ log = <<>> /\ rows = {} /\ vouched = <<>>
    /\ discarded = Nothing
    /\ rev = [s \in Subject |-> 0]
    /\ phase = "down" /\ starts = 0

Before(p, q) == p.epoch < q.epoch \/ (p.epoch = q.epoch /\ p.seq < q.seq)

Place(i) == [epoch |-> log[i].epoch, seq |-> log[i].seq]

\* current_epoch, and the epochs that were closed.
Epoch == Len(vouched) + 1

Closed(e) == e < Epoch

RowsOf(e) == {i \in rows : log[i].epoch = e}

\* last_sequence: of the rows that are there, or 0.
LastSequence(e) == Max({0} \cup {log[i].seq : i \in RowsOf(e)})

StreamHead == [epoch |-> Epoch, seq |-> LastSequence(Epoch)]

After(p) == [p EXCEPT !.seq = @ + 1]

-----------------------------------------------------------------------------
(* Commits. *)

\* Mutant: every event of a change is given the first one's number.
AppendOnce(changes) ==
    LET new == [k \in 1 .. Len(changes) |->
                    [epoch |-> Epoch, seq |-> LastSequence(Epoch) + 1,
                     subject |-> changes[k].subject, rev |-> changes[k].rev]]
    IN  /\ Len(log) + Len(changes) <= MaxEvents
        /\ log' = log \o new
        /\ rows' = rows \cup ((Len(log) + 1) .. (Len(log) + Len(changes)))

\* One event for each change, numbered on from the last of the epoch.
AppendEvents(changes) ==
    LET new == [k \in 1 .. Len(changes) |->
                    [epoch |-> Epoch, seq |-> LastSequence(Epoch) + k,
                     subject |-> changes[k].subject, rev |-> changes[k].rev]]
    IN  /\ Len(log) + Len(changes) <= MaxEvents
        /\ log' = log \o new
        /\ rows' = rows \cup ((Len(log) + 1) .. (Len(log) + Len(changes)))

Raised(s) == [subject |-> s, rev |-> rev[s] + 1]

\* commit_command: the subject, further events at its revision, and further
\* subjects, each with its event or with none.
CommitCommand(s, more, also, told) ==
    /\ phase = "up" /\ Capabilities \notin {s} \cup also /\ s \notin also
    /\ told \subseteq also
    /\ \A t \in {s} \cup also : rev[t] < MaxRevision
    /\ rev' = [t \in Subject |-> IF t \in {s} \cup also THEN rev[t] + 1 ELSE rev[t]]
    /\ AppendEvents(<<Raised(s)>> \o [k \in 1 .. more |-> Raised(s)]
                        \o [k \in 1 .. Cardinality(told) |-> Raised(SetToSeq(told)[k])])
    /\ UNCHANGED <<vouched, discarded, phase, starts>>

\* commit_provider_change: a subject that exists, and any number of events at
\* the one revision.
CommitProviderChange(s, events) ==
    /\ phase = "up" /\ s # Capabilities
    /\ rev[s] \in 1 .. (MaxRevision - 1)
    /\ rev' = [rev EXCEPT ![s] = @ + 1]
    /\ AppendEvents([k \in 1 .. events |-> Raised(s)])
    /\ UNCHANGED <<vouched, discarded, phase, starts>>

\* Some of the first n numbers, in order.
SomeOf(n) ==
    {some \in UNION {[1 .. m -> 1 .. n] : m \in 0 .. n} :
        \A j, k \in DOMAIN some : j < k => some[j] < some[k]}

\* commit_provider_batch: a subject passes through several revisions, each
\* with an event or with none: `told` numbers those with one.
CommitBatch(s, revisions, told) ==
    /\ phase = "up" /\ s # Capabilities
    /\ rev[s] + revisions <= MaxRevision
    /\ rev' = [rev EXCEPT ![s] = @ + revisions]
    /\ AppendEvents([k \in DOMAIN told |-> [subject |-> s, rev |-> rev[s] + told[k]]])
    /\ UNCHANGED <<vouched, discarded, phase, starts>>

-----------------------------------------------------------------------------
(* Provider::open, a transaction at a time. *)

Crash ==
    /\ phase # "down"
    /\ phase' = "down"
    /\ UNCHANGED <<log, rows, vouched, discarded, rev, starts>>

Open ==
    /\ phase = "down" /\ starts < MaxStarts
    /\ starts' = starts + 1
    /\ phase' = "epoch"
    /\ UNCHANGED <<log, rows, vouched, discarded, rev>>

\* start_new_epoch, where the launch asks for one.  The last events may be
\* given up: they stay in the table and are never delivered again.
StartNewEpoch(unvouched) ==
    /\ phase = "epoch" /\ Epoch < MaxEpochs
    /\ vouched' = Append(vouched, Max({LastSequence(Epoch) - unvouched, 0}))
    /\ phase' = "retain"
    /\ UNCHANGED <<log, rows, discarded, rev, starts>>

SameEpoch ==
    /\ phase = "epoch"
    /\ phase' = "retain"
    /\ UNCHANGED <<log, rows, vouched, discarded, rev, starts>>

\* The last rows of the table, in the order of their positions.
LastRows(n) == {i \in rows : Cardinality({j \in rows : Before(Place(i), Place(j))}) < n}

\* Mutant: the watermark is the first position that is discarded.
RetainLowMark(n) ==
    LET doomed == rows \ LastRows(n)
    IN  /\ phase = "retain"
        /\ rows' = LastRows(n)
        /\ discarded' = IF doomed = {} THEN discarded
                        ELSE Place(CHOOSE i \in doomed : \A j \in doomed \ {i} :
                                       Before(Place(i), Place(j)))
        /\ phase' = "reconcile"
        /\ UNCHANGED <<log, vouched, rev, starts>>

\* retain_last_events: the highest position discarded is the watermark.
RetainLastEvents(n) ==
    LET doomed == rows \ LastRows(n)
    IN  /\ phase = "retain"
        /\ rows' = LastRows(n)
        /\ discarded' = IF doomed = {} THEN discarded
                        ELSE Place(CHOOSE i \in doomed : \A j \in doomed \ {i} :
                                       Before(Place(j), Place(i)))
        /\ phase' = "reconcile"
        /\ UNCHANGED <<log, vouched, rev, starts>>

RetainAll ==
    /\ phase = "retain"
    /\ phase' = "reconcile"
    /\ UNCHANGED <<log, rows, vouched, discarded, rev, starts>>

\* reconcile_capabilities: the first snapshot is revision 1 and no event; the
\* same snapshot is no change; another one raises the revision with an event.
ReconcileCapabilities ==
    /\ phase = "reconcile"
    /\ phase' = "up"
    /\ \/ /\ rev[Capabilities] = 0
          /\ rev' = [rev EXCEPT ![Capabilities] = 1]
          /\ UNCHANGED <<log, rows>>
       \/ /\ rev[Capabilities] > 0
          /\ UNCHANGED <<log, rows, rev>>
       \/ /\ rev[Capabilities] > 0
          /\ rev' = [rev EXCEPT ![Capabilities] = @ + 1]
          /\ AppendEvents(<<Raised(Capabilities)>>)
    /\ UNCHANGED <<vouched, discarded, starts>>

StoreNext ==
    \/ \E s \in Subject, more \in 0 .. 1, also \in SUBSET Subject :
          Cardinality(also) < 2 /\ \E told \in SUBSET also : CommitCommand(s, more, also, told)
    \/ \E s \in Subject, events \in 0 .. 2 : CommitProviderChange(s, events)
    \/ \E s \in Subject, revisions \in 1 .. 2 :
          \E told \in SomeOf(revisions) : CommitBatch(s, revisions, told)
    \/ Crash \/ Open
    \/ \E u \in Unvouched : StartNewEpoch(u)
    \/ SameEpoch
    \/ \E n \in Retain : RetainLastEvents(n)
    \/ RetainAll
    \/ ReconcileCapabilities

-----------------------------------------------------------------------------
(* read_events. *)

\* snapshot_subjects: every visible subject that has a row; the capability
\* snapshot once it has changed.
Snapshot(sees) == {s \in sees : rev[s] > (IF s = Capabilities THEN 1 ELSE 0)}

EventItem(i) == [type |-> "event", event |-> i]

ChangeItem(e) == [type |-> "epoch_change", from |-> e, vouched |-> vouched[e]]

GapItem(from, sees) ==
    [type |-> "gap", from |-> from, to |-> StreamHead,
     subjects |-> [s \in Snapshot(sees) |-> rev[s]]]

\* An item's share of the response.  A gap carries the subjects it shows.
Size(item) ==
    CASE item.type = "event" -> EventSize[log[item.event].subject]
      [] item.type = "gap" -> 1 + Cardinality(DOMAIN item.subjects)
      [] OTHER -> 1

\* The rows still to deliver in the epoch of a position.
Ahead(at) ==
    {i \in RowsOf(at.epoch) :
        log[i].seq >= at.seq /\ (Closed(at.epoch) => log[i].seq <= vouched[at.epoch])}

\* Events of this epoch are missing from the position on.
Missing(at) ==
    /\ \A i \in RowsOf(at.epoch) : at.seq < log[i].seq
    /\ ~ Before(discarded, at)

\* Add an item if it fits, or stop before it.
Take(read, budget, item, next) ==
    IF read.used + Size(item) > budget THEN [read EXCEPT !.open = FALSE]
    ELSE [read EXCEPT !.at = next, !.used = @ + Size(item), !.items = Append(@, item)]

\* An event that does not fit stops the read at its own position, and the
\* caller is told if it is the first item.
TakeEvent(read, budget, i) ==
    IF read.used + Size(EventItem(i)) > budget
    THEN [read EXCEPT !.open = FALSE, !.at = Place(i), !.tooLarge = (read.items = <<>>)]
    ELSE Take(read, budget, EventItem(i), After(Place(i)))

\* One item: the end of a closed epoch, a gap with its snapshot, or the next
\* event, which is passed over if the reader may not see it.
ReadItem(read, limit, sees, wants, budget) ==
    LET at == read.at
        change == Take(read, budget, ChangeItem(at.epoch), [epoch |-> at.epoch + 1, seq |-> 1])
        gap == Take([read EXCEPT !.filtered = @ \/ Snapshot(sees) # Snapshot(Subject)],
                    budget, GapItem(at, sees), After(StreamHead))
        first == CHOOSE i \in Ahead(at) : \A j \in Ahead(at) : log[i].seq <= log[j].seq
    IN  IF ~ read.open \/ at.epoch > Epoch \/ Len(read.items) >= limit
        THEN [read EXCEPT !.open = FALSE]
        ELSE IF Closed(at.epoch) /\ at.seq > vouched[at.epoch] THEN change
        ELSE IF Missing(at) THEN gap
        ELSE IF Ahead(at) # {}
        THEN IF log[first].subject \in sees \cap wants
             THEN TakeEvent(read, budget, first)
             ELSE [read EXCEPT !.at = After(Place(first)), !.filtered = TRUE]
        ELSE IF Closed(at.epoch) THEN change
        ELSE [read EXCEPT !.open = FALSE]

\* What a read from a position returns.  Every step but the last takes a row,
\* an epoch or the gap, so the number of steps is bounded.
ReadEvents(start, limit, sees, wants, budget) ==
    LET read[n \in 0 .. (Cardinality(rows) + Epoch + 2)] ==
            IF n = 0
            THEN [at |-> start, items |-> <<>>, used |-> 0, open |-> TRUE,
                  filtered |-> FALSE, tooLarge |-> FALSE]
            ELSE ReadItem(read[n - 1], limit, sees, wants, budget)
    IN  read[Cardinality(rows) + Epoch + 2]

\* decode_cursor refuses a position past the end of the stream.
ValidCursor(p) ==
    /\ p.epoch <= Epoch
    /\ p.epoch = Epoch => p.seq <= LastSequence(Epoch) + 1

\* stream_start, and the position that "from now" names.
StreamStart == [epoch |-> 1, seq |-> 1]

Now == After(StreamHead)

=============================================================================
