--------------------------- MODULE MCEventReaders ---------------------------
EXTENDS EventReaders

CONSTANTS a, b, caps, r

\* An event of the capabilities is larger than one of a or b.
Sizes == [s \in {a, b, caps} |-> IF s = caps THEN 2 ELSE 1]

\* The reader may see a and the capabilities.  What it sees fits a snapshot.
SeesSome == [x \in {r} |-> {a, caps}]
WantsAll == [x \in {r} |-> {a, b, caps}]
Enough == [x \in {r} |-> 3]

\* Room for no snapshot of what the reader sees.
Little == [x \in {r} |-> 1]

=============================================================================
