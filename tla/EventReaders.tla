---------------------------- MODULE EventReaders ----------------------------
(***************************************************************************)
(* Callers of core.events.read (events_read in provider.rs) that follow    *)
(* the stream by its cursors, across restarts, new epochs and retention.   *)
(***************************************************************************)
EXTENDS EventFollower

CONSTANT Limit    \* the values of "limit" that readers ask with

ASSUME LimitAssumption == Limit \subseteq Nat \ {0}

VARIABLE upto     \* history: the events there were when it was last told no more

readerVars == <<log, rows, vouched, discarded, rev, phase, starts,
          cursor, since, told, known, lost, upto>>

\* Type correctness of the store and of what readers keep.
ReadersTypeOK == StoreTypeOK /\ FollowerTypeOK /\ upto \in [Reader -> Nat]

ReadersInit == StoreInit /\ FollowerInit /\ upto = [r \in Reader |-> 0]

\* events_read: an answer with its items and the next cursor, or an error when
\* not even the first event fits, which leaves the reader where it was.
Answer(r, start, limit) ==
    LET read == ReadEvents(start, limit, Sees[r], Wants[r], Budget[r])
    IN  /\ ~ read.tooLarge
        /\ Learn(r, read.items, read.at)
        /\ upto' = [upto EXCEPT ![r] = IF read.items = <<>> THEN Len(log) ELSE @]
        /\ UNCHANGED store

\* The first read, from the start of the stream or from now on.
ReadFrom(r, limit) ==
    /\ phase = "up" /\ since[r] = 0
    /\ \/ Answer(r, StreamStart, limit) /\ since' = [since EXCEPT ![r] = 1]
       \/ Answer(r, Now, limit) /\ since' = [since EXCEPT ![r] = Len(log) + 1]

\* A later read goes on from the cursor of the last.
ReadOn(r, limit) ==
    /\ phase = "up" /\ since[r] > 0
    /\ ValidCursor(cursor[r])
    /\ Answer(r, cursor[r], limit)
    /\ UNCHANGED since

ReadersNext ==
    \/ StoreNext /\ UNCHANGED <<followers, upto>>
    \/ \E r \in Reader, limit \in Limit : ReadFrom(r, limit) \/ ReadOn(r, limit)

ReadersSpec == ReadersInit /\ [][ReadersNext]_readerVars

-----------------------------------------------------------------------------
(* Properties. *)

\* An answer without items is the end of the stream (read_events: "if not even
\* the first one fits the caller is told so"): all that was committed by then
\* is accounted for.
NoMoreIsTheEnd ==
    \A r \in Reader : \A i \in since[r] .. upto[r] :
        since[r] > 0 => Accounted(r, i)

\* Positions follow commits, so none is used twice, and within an epoch the
\* rows have no holes.
PositionsFollowCommits ==
    /\ \A i, j \in DOMAIN log : i < j => Before(Place(i), Place(j))
    /\ \A i, j \in rows : log[i].epoch = log[j].epoch => i .. j \subseteq rows

\* A reader that asks again with the cursor of its last answer (events_read) is
\* told of everything once and in order, and an answer without items is the end.
ReadsAreWhole == FollowsStream /\ NoMoreIsTheEnd

\* Positions keep their meaning across starts, epochs and retention
\* (append_events, start_new_epoch, retain_last_events, decode_cursor): the next
\* one is after all that were given out, and one that was given out stays valid.
PositionsHold == ReadersTypeOK /\ PositionsFollowCommits /\ CursorsStayValid

=============================================================================
