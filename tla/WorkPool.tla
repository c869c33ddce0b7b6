------------------------------ MODULE WorkPool ------------------------------
(***************************************************************************)
(* The pool of work that left the preparation tick (work.rs): a map from a *)
(* key to the slot of its unit.  A slot is                                 *)
(*   "running"                       its thread has not finished           *)
(*   "finished", "spoilt", "broken"  its thread has, and nobody asked since *)
(*   "done", "useless", "failed", "timedout"   settled                     *)
(* "spoilt" and "useless" are an answer that was recorded and cannot be    *)
(* used, "broken" and "failed" a unit that returned an error or died.  A   *)
(* thread whose slot was timed out or taken away goes on, and what it      *)
(* returns is read by nobody, so it is not part of the pool.               *)
(***************************************************************************)
EXTENDS Naturals, FiniteSets, Functions

\* f, and g of what f says nothing of.
Over(f, g) == [x \in DOMAIN f \cup DOMAIN g |-> IF x \in DOMAIN f THEN f[x] ELSE g[x]]

\* What says b of a alone.
Only(a, b) == [x \in {a} |-> b]

Empty == [k \in {} |-> "running"]

InFlight(pool) == {k \in DOMAIN pool : pool[k] = "running"}

\* What asking about a slot makes of it, `past` being whether the deadline of
\* the one who asks has passed.
Settle(slot, past) ==
    CASE slot = "finished" -> "done"
      [] slot = "spoilt" -> "useless"
      [] slot = "broken" -> "failed"
      [] slot = "running" /\ past -> "timedout"
      [] OTHER -> slot

\* The pool once `k` was asked for: settled if it can be, started if there is
\* room.  A key that is in no slot after it was deferred.
progress(pool, k, past, bound) ==
    IF k \in DOMAIN pool THEN [pool EXCEPT ![k] = Settle(@, past)]
    ELSE IF Cardinality(InFlight(pool)) < bound THEN Over(pool, Only(k, "running"))
    ELSE pool

Settled == {"done", "useless", "failed", "timedout"}

Answered(pool, k) == k \in DOMAIN pool /\ pool[k] \in Settled

release_all(pool, keys) == Restrict(pool, DOMAIN pool \ keys)
=============================================================================
