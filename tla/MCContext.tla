----------------------------- MODULE MCContext -----------------------------
(***************************************************************************)
(* Small instances of ContextJobs.  "compiled" and "contended" are         *)
(* production launches with a model: two requests that may share a job,    *)
(* and two of different kinds that compete for the pool, which nobody that *)
(* polls leaves but by a crash.                                            *)
(* "sent" scripts jobs and seals their packets at an evidence peer.        *)
(* "scripted" scripts the steps that go wrong, sealing in this store.      *)
(* "alone" has one request, on stdio, whose packet's identifier is taken:  *)
(* nothing of it is ever published.                                        *)
(***************************************************************************)
EXTENDS ContextJobs

CONSTANTS
    Launches,
    SmallCapacity,   \* whether the request that joins has less room than the job's first
    Taken            \* requests whose first packet's identifier is some other artifact's

Section1(item, size, rev, claim, ids) ==
    <<"section", [item |-> item, size |-> size, rev |-> rev, historical |-> FALSE, claim |-> claim, ids |-> ids]>>

None == [r \in Request |-> <<>>]
Scripts ==
    [sent |->
        [None EXCEPT
         !["s1"] = <<Section1("a", 1, 1, "none", TRUE), <<"publish">>, <<"wait_until", 1>>,
                     <<"correction", "a", 2>>, Section1("a", 1, 1, "none", TRUE), <<"publish">>,
                     Section1("a", 1, 2, "none", TRUE), <<"end", "complete">>>>,
         !["s2"] = <<<<"stall">>>>],
     scripted |->
        [None EXCEPT
         !["t1"] = <<<<"wait_until", 1>>, Section1("e", 1, 0, "none", TRUE), Section1("d", 2, 0, "read", TRUE),
                     <<"publish">>, <<"end", "complete">>>>,
         !["t2"] = <<Section1("d", 1, 0, "unread", TRUE), <<"publish">>, Section1("e", 1, 0, "none", FALSE),
                     <<"publish">>>>,
         !["t3"] = <<<<"note">>, <<"unmet", "e", "why">>, Section1("", 1, 0, "none", FALSE), <<"investigate", 2>>>>]]

Production == {"compiled", "contended"}

MCLaunch ==
    [l \in Launches |->
        [socket |-> l # "alone", peer |-> l = "sent", compiling |-> l \in Production, model |-> l \in Production,
         scripts |-> IF l \in Production THEN None ELSE IF l = "alone" THEN Scripts.scripted ELSE Scripts[l],
         taken |-> {<<r, 1>> : r \in IF l = "alone" THEN {"t1"} ELSE Taken}, indexed |-> {"l"}]]

Asked(kind, deadline, capacity, investigation, updates, waits) ==
    [kind |-> kind, deadline |-> deadline, capacity |-> capacity, investigation |-> investigation,
     updates |-> updates, waits |-> waits, shared |-> TRUE]

MCAsk ==
    [r1 |-> Asked("k", 1, 3, 2, FALSE, FALSE),
     r2 |-> Asked("k", 1, IF SmallCapacity THEN 1 ELSE 3, 0, FALSE, FALSE),
     r3 |-> Asked("l", 1, 1, 2, FALSE, TRUE),
     s1 |-> Asked("s", 1, 3, 0, TRUE, FALSE),
     s2 |-> Asked("s", 1, 3, 0, FALSE, FALSE),
     t1 |-> Asked("t", 1, 2, 0, FALSE, TRUE),
     t2 |-> Asked("u", 1, 2, 0, TRUE, FALSE),
     t3 |-> Asked("v", 1, 2, 1, FALSE, FALSE)]

Item(id, obligation, parts, size) == [id |-> id, obligation |-> obligation, parts |-> parts, size |-> size]

MCWant ==
    [k |-> [items |-> <<Item("a", "required", 2, 2)>>, discovers |-> TRUE],
     l |-> [items |-> <<Item("b", "advisory", 0, 0), Item("c", "required", 0, 1)>>, discovers |-> TRUE],
     s |-> [items |-> <<Item("a", "required", 0, 1)>>, discovers |-> FALSE],
     t |-> [items |-> <<Item("d", "required", 0, 1), Item("e", "advisory", 0, 1)>>, discovers |-> FALSE],
     u |-> [items |-> <<Item("d", "required", 0, 1), Item("e", "advisory", 0, 1)>>, discovers |-> FALSE],
     v |-> [items |-> <<Item("e", "advisory", 0, 1)>>, discovers |-> FALSE]]

\* Who submits in which launch.
Submits ==
    [compiled |-> {"r1", "r2"}, contended |-> {"r1", "r3"}, sent |-> {"s1", "s2"}, scripted |-> {"t1", "t2", "t3"},
     alone |-> {"t1"}]

MCNext ==
    \/ Tick
    \/ \E r \in Submits[launch] : context_submit(r) \/ context_cancel(r)
    \/ \E k \in DOMAIN pool : Finish(k)
    \/ Advance \/ Subscribe \/ Crash
    \/ launch # "contended" /\ Close

MCSpec == Init /\ [][MCNext]_vars /\ Fairness
=============================================================================
