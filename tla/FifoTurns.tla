----------------------------- MODULE FifoTurns -----------------------------
(***************************************************************************)
(* What the provider's processing lock promises its sessions: turns are    *)
(* given in the order they were asked for, one at a time, and a session    *)
(* that goes away gives up its place without disturbing the others.        *)
(***************************************************************************)
EXTENDS Sequences, SequencesExt

CONSTANT Client

VARIABLES
    line,     \* who has asked, first come first
    inside    \* whose turn it is: one client at most

turns == <<line, inside>>

Init == line = <<>> /\ inside = {}

\* A session asks for a turn, once at a time.
Join(c) ==
    /\ ~ Contains(line, c)
    /\ line' = Append(line, c)
    /\ UNCHANGED inside

\* The first of the line enters ...
Enter(c) ==
    /\ line # <<>> /\ Head(line) = c
    /\ inside = {}
    /\ inside' = {c}
    /\ UNCHANGED line

\* ... and gives its turn to the next.
Leave(c) ==
    /\ inside = {c}
    /\ inside' = {}
    /\ line' = Tail(line)

\* One that is not inside gives up its place.
Quit(c) ==
    /\ c \notin inside
    /\ \E i \in 1 .. Len(line) : line[i] = c /\ line' = RemoveAt(line, i)
    /\ UNCHANGED inside

Next == \E c \in Client : Join(c) \/ Enter(c) \/ Leave(c) \/ Quit(c)

Spec == Init /\ [][Next]_turns

=============================================================================
