----------------------------- MODULE MCDelivery -----------------------------
EXTENDS Delivery

CONSTANTS a, b, caps, r1, r2

\* An event of b exceeds the bound on pending output.
Sizes == [s \in {a, b, caps} |-> IF s = b THEN 3 ELSE 1]

\* r1 sees everything and can receive any event; r2 cannot receive one of b.
SeesAll == [r \in Reader |-> {a, b, caps}]
WantsAll == [r \in Reader |-> {a, b, caps}]
Receives == [r \in Reader |-> IF r = r1 THEN 4 ELSE 2]

=============================================================================
