--------------------------- MODULE DeliveryProofs ---------------------------
(***************************************************************************)
(* Proofs about the event stream, whoever reads it by its cursors and the  *)
(* delivery of subscribed events, for every set of subjects, readers and   *)
(* grants, every limit, budget and bound on pending output, any number of  *)
(* connections, and any number of commits, epochs and starts that keep at  *)
(* least one event.                                                        *)
(***************************************************************************)
EXTENDS EventReaders, Delivery, FiniteSetTheorems, WellFoundedInduction, TLAPS

\* A launch that discards events keeps the last one.  Without it a number may
\* be given out twice.
KeepsSome == 0 \notin Retain

-----------------------------------------------------------------------------
(* Greatest elements.                                                      *)

\* A nonempty set of naturals has a smallest element.
LEMMA SmallestOf ==
    ASSUME NEW S \in SUBSET Nat, S # {}
    PROVE  \E x \in S : \A y \in S : x <= y
<1> DEFINE R == {ss \in Nat \X Nat : ss[1] < ss[2]}
<1>1. IsWellFoundedOn(R, Nat)
    BY NatLessThanWellFounded, Zenon DEF OpToRel
<1>2. PICK x \in S : \A y \in S : ~ (<<y, x>> \in R)
    BY <1>1, WFMin, Zenon
<1>3. ASSUME NEW y \in S PROVE x <= y
    <2>1. ~ (y < x)
        BY <1>2 DEF R
    <2> QED BY <2>1
<1> QED BY <1>3

\* Max of naturals up to a bound is the greatest of them.
LEMMA MaxOf ==
    ASSUME NEW n \in Nat, NEW S \in SUBSET (0 .. n), S # {}
    PROVE  /\ Max(S) \in S
           /\ \A y \in S : y <= Max(S)
<1> DEFINE Left == {n - k : k \in S}
<1>1. Left \in SUBSET Nat /\ Left # {}
    <2>1. \A k \in S : n - k \in Nat
        OBVIOUS
    <2> QED BY <2>1
<1>2. PICK x \in Left : \A y \in Left : x <= y
    <2> HIDE DEF Left
    <2> QED BY <1>1, SmallestOf
<1>3. PICK k \in S : x = n - k
    BY <1>2
<1>4. ASSUME NEW m \in S PROVE k >= m
    <2>1. n - k <= n - m
        BY <1>2, <1>3
    <2> QED BY <2>1
<1>5. Max(S) \in S /\ \A y \in S : Max(S) >= y
    BY <1>3, <1>4, Zenon DEF Max
<1> QED BY <1>5

\* The greatest of some positions of a sequence.
LEMMA LargestOf ==
    ASSUME NEW n \in Nat, NEW S \in SUBSET (1 .. n), S # {}
    PROVE  \E k \in S : \A m \in S : m <= k
<1>1. S \in SUBSET (0 .. n)
    OBVIOUS
<1> QED BY <1>1, MaxOf

-----------------------------------------------------------------------------
(* The store.                                                              *)

\* The events, the rows and the revisions are of their types.
Stored ==
    /\ log \in Seq(Event)
    /\ rows \subseteq DOMAIN log
    /\ vouched \in Seq(Nat)
    /\ discarded \in Position
    /\ rev \in [Subject -> Nat]

\* Positions follow commits, in the epochs there are.
Ordered ==
    /\ \A i, j \in DOMAIN log : i < j => Before(Place(i), Place(j))
    /\ \A i \in DOMAIN log : log[i].epoch \in 1 .. Epoch /\ log[i].seq >= 1

\* A subject is at the revision of its last event or at a later one.  The first
\* snapshot of the capabilities has no event.
Revised ==
    \A i \in DOMAIN log :
        /\ log[i].rev \in 1 .. rev[log[i].subject]
        /\ log[i].subject = Capabilities => log[i].rev >= 2

\* Retention has left the last rows, and the watermark is behind what it discarded.
Retained ==
    /\ \A i \in rows : \A j \in DOMAIN log : i <= j => j \in rows
    /\ Len(log) > 0 => Len(log) \in rows
    /\ \A i \in DOMAIN log \ rows : ~Before(discarded, Place(i))

StoreInv == Stored /\ Ordered /\ Revised /\ Retained

\* What every step of the store leaves to those who have read from it.
Grows ==
    /\ Len(log) <= Len(log') /\ \A i \in DOMAIN log : log'[i] = log[i]
    /\ Epoch <= Epoch'
    /\ \A i \in DOMAIN log' \ DOMAIN log :
           log'[i].epoch = Epoch /\ log'[i].seq > LastSequence(Epoch)
    /\ LastSequence(Epoch) \in Nat
    /\ \A p \in Position : ValidCursor(p) => ValidCursor(p)'

\* Positions are of their type.
LEMMA PlaceType ==
    ASSUME Stored, NEW i \in DOMAIN log
    PROVE  /\ Place(i) \in Position
           /\ Place(i).epoch = log[i].epoch /\ Place(i).seq = log[i].seq
           /\ log[i].epoch \in Nat /\ log[i].seq \in Nat
           /\ log[i].subject \in Subject /\ log[i].rev \in Nat
<1>1. log[i] \in Event
    BY DEF Stored
<1>2. /\ log[i].epoch \in Nat /\ log[i].seq \in Nat
      /\ log[i].subject \in Subject /\ log[i].rev \in Nat
    BY <1>1 DEF Event
<1> QED BY <1>1, <1>2 DEF Place, Position

\* Before is a strict total order of positions.
LEMMA BeforeOrder ==
    ASSUME NEW p \in Position, NEW q \in Position
    PROVE  /\ ~Before(p, p)
           /\ Before(p, q) => ~Before(q, p)
           /\ p = q \/ Before(p, q) \/ Before(q, p)
BY DEF Before, Position

\* Before is transitive, and so is what is not before.
LEMMA BeforeTransitive ==
    ASSUME NEW p \in Position, NEW q \in Position, NEW s \in Position
    PROVE  /\ Before(p, q) /\ Before(q, s) => Before(p, s)
           /\ Before(p, q) /\ ~Before(s, q) => Before(p, s)
           /\ ~Before(q, p) /\ Before(q, s) => Before(p, s)
           /\ ~Before(q, p) /\ ~Before(s, q) => ~Before(s, p)
BY DEF Before, Position

\* The last sequence of an epoch is the sequence of its last row, or 0.
LEMMA LastIs ==
    ASSUME Stored, Ordered, NEW e
    PROVE  /\ LastSequence(e) \in Nat
           /\ \A i \in RowsOf(e) : log[i].seq <= LastSequence(e)
           /\ RowsOf(e) = {} => LastSequence(e) = 0
           /\ RowsOf(e) # {} => \E i \in RowsOf(e) : LastSequence(e) = log[i].seq
<1> DEFINE S == {0} \cup {log[i].seq : i \in RowsOf(e)}
<1>1. LastSequence(e) = Max(S)
    BY DEF LastSequence
<1>2. \A i \in RowsOf(e) : i \in DOMAIN log /\ log[i].epoch = e /\ log[i].seq \in Nat /\ e \in Nat
    BY PlaceType DEF RowsOf, Stored
<1>3. CASE RowsOf(e) = {}
    <2>1. S \in SUBSET (0 .. 0) /\ S # {}
        BY <1>3
    <2>2. Max(S) \in S
        BY <2>1, MaxOf
    <2> QED BY <1>1, <1>3, <2>1, <2>2
<1>4. CASE RowsOf(e) # {}
    <2>1. RowsOf(e) \in SUBSET (1 .. Len(log)) /\ Len(log) \in Nat
        BY <1>2 DEF Stored
    <2>2. PICK k \in RowsOf(e) : \A m \in RowsOf(e) : m <= k
        BY <1>4, <2>1, LargestOf
    <2> HIDE DEF S
    <2>3. ASSUME NEW m \in RowsOf(e) PROVE log[m].seq <= log[k].seq
        <3>1. m = k \/ Before(Place(m), Place(k))
            BY <1>2, <2>1, <2>2 DEF Ordered
        <3>2. Place(m).epoch = e /\ Place(k).epoch = e
            BY <1>2, PlaceType
        <3>3. Place(m).seq = log[m].seq /\ Place(k).seq = log[k].seq
            BY <1>2, PlaceType
        <3>4. m = k \/ log[m].seq < log[k].seq
            BY <1>2, <3>1, <3>2, <3>3 DEF Before
        <3> QED BY <1>2, <3>4
    <2>4. S \in SUBSET (0 .. log[k].seq) /\ S # {} /\ log[k].seq \in S
        <3>1. \A i \in RowsOf(e) : log[i].seq \in 0 .. log[k].seq
            BY <1>2, <2>3
        <3> QED BY <1>2, <3>1 DEF S
    <2>5. Max(S) \in S /\ \A y \in S : y <= Max(S)
        <3> QED BY <1>2, <2>2, <2>4, MaxOf
    <2>6. Max(S) = log[k].seq
        <3>1. Max(S) <= log[k].seq /\ log[k].seq <= Max(S) /\ Max(S) \in Nat /\ log[k].seq \in Nat
            <4>1. Max(S) \in 0 .. log[k].seq
                BY <2>4, <2>5
            <4>2. log[k].seq <= Max(S)
                BY <2>4, <2>5
            <4> QED BY <1>2, <2>2, <4>1, <4>2
        <3> QED BY <3>1
    <2>7. \A i \in RowsOf(e) : log[i].seq <= LastSequence(e)
        BY <1>1, <2>3, <2>6
    <2> QED BY <1>1, <1>2, <1>4, <2>2, <2>6, <2>7
<1> QED BY <1>3, <1>4

\* What LastIs says of every epoch.
LastFacts ==
    \A e \in Nat :
        /\ LastSequence(e) \in Nat
        /\ \A i \in RowsOf(e) : log[i].seq <= LastSequence(e)
        /\ RowsOf(e) = {} => LastSequence(e) = 0
        /\ RowsOf(e) # {} => \E i \in RowsOf(e) : LastSequence(e) = log[i].seq

PlacesNat == \A i \in DOMAIN log : log[i].epoch \in Nat /\ log[i].seq \in Nat

\* The numbers of positions, in a form that can be stated of the next state.
LEMMA PlacesEver == Stored => PlacesNat
BY PlaceType DEF PlacesNat

\* What makes a cursor valid, for a position that does not change.
ValidFacts ==
    \A p \in Position :
        ValidCursor(p) <=>
            p.epoch <= Epoch /\ (p.epoch = Epoch => p.seq <= LastSequence(p.epoch) + 1)

\* The same of cursors.
LEMMA ValidEver == ValidFacts
BY DEF ValidFacts, ValidCursor

\* The same of last sequences.
LEMMA LastIsEver == Stored /\ Ordered => LastFacts
BY LastIs DEF LastFacts

\* The current epoch is a number, and an event of it is numbered up to its last sequence.
LEMMA EpochEnd ==
    ASSUME StoreInv
    PROVE  /\ Epoch \in Nat /\ Epoch >= 1 /\ LastSequence(Epoch) \in Nat
           /\ \A i \in DOMAIN log : log[i].epoch = Epoch => log[i].seq <= LastSequence(Epoch)
<1>1. Epoch \in Nat /\ Epoch >= 1
    BY DEF StoreInv, Stored, Epoch
<1>2. ASSUME NEW i \in DOMAIN log, log[i].epoch = Epoch PROVE log[i].seq <= LastSequence(Epoch)
    <2> DEFINE n == Len(log)
    <2>1. i \in 1 .. n /\ n \in DOMAIN log /\ n \in rows /\ n \in Nat
        BY DEF StoreInv, Stored, Retained
    <2>2. /\ log[i].epoch \in Nat /\ log[n].epoch \in Nat /\ log[n].epoch <= Epoch
          /\ log[i].seq \in Nat /\ log[n].seq \in Nat
        BY <2>1, PlaceType DEF StoreInv, Ordered
    <2>3. i = n \/ Before(Place(i), Place(n))
        BY <2>1 DEF StoreInv, Ordered
    <2>4. /\ Place(i).epoch = log[i].epoch /\ Place(i).seq = log[i].seq
          /\ Place(n).epoch = log[n].epoch /\ Place(n).seq = log[n].seq
        BY <2>1, PlaceType DEF StoreInv
    <2> HIDE DEF n
    <2>5. log[n].epoch = Epoch /\ log[i].seq <= log[n].seq
        BY <1>1, <1>2, <2>2, <2>3, <2>4 DEF Before
    <2>6. n \in RowsOf(Epoch)
        BY <2>1, <2>5 DEF RowsOf
    <2>7. log[n].seq <= LastSequence(Epoch) /\ LastSequence(Epoch) \in Nat
        BY <2>6, LastIs DEF StoreInv
    <2> QED BY <2>2, <2>5, <2>7
<1>3. LastSequence(Epoch) \in Nat
    BY LastIs DEF StoreInv
<1> QED BY <1>1, <1>2, <1>3

\* What is appended.
Change == [subject : Subject, rev : Nat]

\* What appending changes leaves in the log.
LEMMA Appended ==
    ASSUME StoreInv, NEW changes \in Seq(Change), AppendEvents(changes)
    PROVE  /\ log' \in Seq(Event) /\ Len(log') = Len(log) + Len(changes)
           /\ \A i \in DOMAIN log : log'[i] = log[i]
           /\ \A k \in 1 .. Len(changes) :
                  /\ log'[Len(log) + k].epoch = Epoch
                  /\ log'[Len(log) + k].seq = LastSequence(Epoch) + k
                  /\ log'[Len(log) + k].subject = changes[k].subject
                  /\ log'[Len(log) + k].rev = changes[k].rev
           /\ rows' = rows \cup ((Len(log) + 1) .. (Len(log) + Len(changes)))
<1> DEFINE new == [k \in 1 .. Len(changes) |->
                      [epoch |-> Epoch, seq |-> LastSequence(Epoch) + k,
                       subject |-> changes[k].subject, rev |-> changes[k].rev]]
<1>1. log' = log \o new /\ rows' = rows \cup ((Len(log) + 1) .. (Len(log) + Len(changes)))
    BY DEF AppendEvents
<1>2. ASSUME NEW k \in 1 .. Len(changes) PROVE changes[k] \in Change
    OBVIOUS
<1>3. ASSUME NEW k \in 1 .. Len(changes)
      PROVE  /\ new[k] \in Event
             /\ new[k].epoch = Epoch /\ new[k].seq = LastSequence(Epoch) + k
             /\ new[k].subject = changes[k].subject /\ new[k].rev = changes[k].rev
    <2>1. Epoch \in Nat /\ LastSequence(Epoch) \in Nat
        BY EpochEnd
    <2>2. changes[k].subject \in Subject /\ changes[k].rev \in Nat
        BY <1>2 DEF Change
    <2>3. LastSequence(Epoch) + k \in Nat
        BY <2>1
    <2> QED BY <2>1, <2>2, <2>3 DEF Event
<1>4. new \in Seq(Event) /\ Len(new) = Len(changes) /\ log \in Seq(Event)
    <2>1. Len(changes) \in Nat /\ \A k \in 1 .. Len(changes) : new[k] \in Event
        BY <1>3
    <2>2. new \in [1 .. Len(changes) -> Event]
        BY <2>1
    <2> HIDE DEF new
    <2> QED BY <2>1, <2>2 DEF StoreInv, Stored
<1> HIDE DEF new
<1>5. /\ Len(log \o new) = Len(log) + Len(changes) /\ log \o new \in Seq(Event)
      /\ \A i \in DOMAIN log : (log \o new)[i] = log[i]
      /\ \A k \in 1 .. Len(changes) : (log \o new)[Len(log) + k] = new[k]
    BY <1>4
<1> QED BY <1>1, <1>3, <1>5

\* Appending events leaves the store in order and what was read valid.
LEMMA AppendKeeps ==
    ASSUME StoreInv, NEW changes \in Seq(Change), AppendEvents(changes),
           UNCHANGED <<vouched, discarded>>, rev' \in [Subject -> Nat],
           \A s \in Subject : rev[s] <= rev'[s],
           \A k \in 1 .. Len(changes) :
               /\ changes[k].rev \in 1 .. rev'[changes[k].subject]
               /\ changes[k].subject = Capabilities => changes[k].rev >= 2
    PROVE  StoreInv' /\ Grows
<1> DEFINE n == Len(log)
           m == Len(log')
           place == LastSequence(Epoch)
<1>1. n \in Nat /\ m \in Nat /\ DOMAIN log = 1 .. n /\ DOMAIN log' = 1 .. m /\ n <= m
    BY Appended DEF StoreInv, Stored
<1>2. \A i \in 1 .. n : log'[i] = log[i]
    BY <1>1, Appended
<1>3. \A i \in n + 1 .. m :
          /\ log'[i].epoch = Epoch /\ log'[i].seq = place + (i - n)
          /\ log'[i].rev \in 1 .. rev'[log'[i].subject]
          /\ log'[i].subject = Capabilities => log'[i].rev >= 2
    <2> SUFFICES ASSUME NEW i \in n + 1 .. m
                 PROVE  /\ log'[i].epoch = Epoch /\ log'[i].seq = place + (i - n)
                        /\ log'[i].rev \in 1 .. rev'[log'[i].subject]
                        /\ log'[i].subject = Capabilities => log'[i].rev >= 2
        OBVIOUS
    <2>1. m = n + Len(changes) /\ Len(changes) \in Nat
        BY Appended
    <2>2. PICK k \in 1 .. Len(changes) : k = i - n /\ i = n + k
        <3> HIDE DEF n, m
        <3>1. i - n \in 1 .. Len(changes) /\ i = n + (i - n)
            BY <1>1, <2>1
        <3> QED BY <3>1
    <2>3. /\ log'[i].epoch = Epoch /\ log'[i].seq = place + k
          /\ log'[i].subject = changes[k].subject /\ log'[i].rev = changes[k].rev
        BY <2>2, Appended
    <2> QED BY <2>2, <2>3
<1>4. Epoch' = Epoch /\ Epoch \in Nat /\ place \in Nat
    BY EpochEnd DEF Epoch
<1>5. Stored'
    <2>1. rows' \subseteq 1 .. m
        <3>1. rows \subseteq 1 .. n /\ m = n + Len(changes)
            BY <1>1, Appended DEF StoreInv, Stored
        <3>2. rows' = rows \cup (n + 1 .. n + Len(changes))
            BY Appended
        <3>3. Len(changes) \in Nat
            OBVIOUS
        <3> HIDE DEF n, m
        <3> SUFFICES ASSUME NEW i \in rows' PROVE i \in 1 .. m
            OBVIOUS
        <3>4. i \in 1 .. n \/ i \in n + 1 .. n + Len(changes)
            BY <3>1, <3>2
        <3> QED BY <1>1, <3>1, <3>3, <3>4
    <2> QED BY <1>1, <2>1, Appended DEF StoreInv, Stored
<1>6. \A i \in 1 .. m : log'[i].epoch \in Nat /\ log'[i].seq \in Nat
    <2>1. PlacesNat'
        BY <1>5, PlacesEver, PTL
    <2> QED BY <1>1, <2>1 DEF PlacesNat
<1> HIDE DEF n, m, place
<1>7. Ordered'
    <2>1. ASSUME NEW i \in 1 .. m PROVE log'[i].epoch \in 1 .. Epoch' /\ log'[i].seq >= 1
        <3>1. CASE i \in 1 .. n
            BY <1>1, <1>2, <1>4, <3>1 DEF StoreInv, Ordered
        <3>2. CASE i \in n + 1 .. m
            <4>1. Epoch >= 1
                BY EpochEnd
            <4> QED BY <1>1, <1>3, <1>4, <3>2, <4>1
        <3> QED BY <1>1, <3>1, <3>2
    <2>2. ASSUME NEW i \in 1 .. m, NEW j \in 1 .. m, i < j PROVE Before(Place(i)', Place(j)')
        <3>1. /\ Place(i)'.epoch = log'[i].epoch /\ Place(i)'.seq = log'[i].seq
              /\ Place(j)'.epoch = log'[j].epoch /\ Place(j)'.seq = log'[j].seq
            BY DEF Place
        <3>2. CASE j \in 1 .. n
            <4>1. i \in 1 .. n
                BY <1>1, <2>2, <3>2
            <4>2. Before(Place(i), Place(j))
                BY <1>1, <2>2, <3>2, <4>1 DEF StoreInv, Ordered
            <4>3. Place(i)' = Place(i) /\ Place(j)' = Place(j)
                BY <1>2, <3>2, <4>1 DEF Place
            <4> QED BY <4>2, <4>3
        <3>3. CASE i \in 1 .. n /\ j \in n + 1 .. m
            <4>1. log[i].epoch <= Epoch /\ (log[i].epoch = Epoch => log[i].seq <= place)
                <5>1. i \in DOMAIN log
                BY <1>1, <3>3
            <5> QED BY <1>4, <5>1, EpochEnd DEF StoreInv, Ordered, place
            <4>2. log'[j].epoch = Epoch /\ log'[j].seq > place
                BY <1>1, <1>3, <1>4, <3>3
            <4>3. log'[i] = log[i]
                BY <1>2, <3>3
            <4> QED BY <1>4, <1>6, <3>1, <4>1, <4>2, <4>3 DEF Before
        <3>4. CASE i \in n + 1 .. m
            <4>1. j \in n + 1 .. m
                BY <1>1, <2>2, <3>4
            <4>2. log'[i].seq < log'[j].seq /\ log'[i].epoch = log'[j].epoch
                BY <1>1, <1>3, <1>4, <2>2, <3>4, <4>1
            <4> QED BY <3>1, <4>2 DEF Before
        <3> QED BY <1>1, <2>2, <3>2, <3>3, <3>4
    <2> QED BY <1>1, <2>1, <2>2 DEF Ordered, Before, m
<1>8. Revised'
    <2> SUFFICES ASSUME NEW i \in 1 .. m
                 PROVE  /\ log'[i].rev \in 1 .. rev'[log'[i].subject]
                        /\ log'[i].subject = Capabilities => log'[i].rev >= 2
        BY <1>1 DEF Revised
    <2>1. CASE i \in 1 .. n
        <3>1. log[i].subject \in Subject /\ log[i].rev \in Nat
            BY <1>1, <2>1, PlaceType DEF StoreInv
        <3>2. log[i].rev \in 1 .. rev[log[i].subject] /\ (log[i].subject = Capabilities => log[i].rev >= 2)
            BY <1>1, <2>1 DEF StoreInv, Revised
        <3>3. rev[log[i].subject] <= rev'[log[i].subject]
              /\ rev[log[i].subject] \in Nat /\ rev'[log[i].subject] \in Nat
            BY <3>1 DEF StoreInv, Stored
        <3> QED BY <1>2, <2>1, <3>1, <3>2, <3>3
    <2> QED BY <1>1, <1>3, <2>1
<1>9. rows' = rows \cup (n + 1 .. m)
    BY Appended DEF n, m
<1>10. Retained'
    <2>1. ASSUME NEW i \in rows', NEW j \in 1 .. m, i <= j PROVE j \in rows'
        <3>1. CASE j \in 1 .. n
            <4>1. i \in rows
                BY <1>1, <1>9, <2>1, <3>1
            <4> QED BY <1>1, <1>9, <2>1, <3>1, <4>1 DEF StoreInv, Retained
        <3> QED BY <1>1, <1>9, <3>1
    <2>2. m > 0 => m \in rows'
        BY <1>1, <1>9 DEF StoreInv, Retained, n
    <2>3. ASSUME NEW i \in 1 .. m, i \notin rows' PROVE ~Before(discarded', Place(i)')
        <3>1. i \in 1 .. n /\ i \notin rows
            BY <1>1, <1>9, <2>3
        <3>2. ~Before(discarded, Place(i)) /\ Place(i)' = Place(i)
            BY <1>1, <1>2, <3>1 DEF StoreInv, Retained, Place
        <3> QED BY <3>2
    <2> QED BY <1>1, <2>1, <2>2, <2>3 DEF Retained, m, Before
<1>11. \A p \in Position : ValidCursor(p) => ValidCursor(p)'
    <2> SUFFICES ASSUME NEW p \in Position, ValidCursor(p) PROVE ValidCursor(p)'
        OBVIOUS
    <2>1. LastFacts'
        BY <1>5, <1>7, LastIsEver, PTL
    <2>2. ValidFacts'
        BY ValidEver, PTL
    <2>3. p.epoch \in Nat /\ p.seq \in Nat /\ p.epoch <= Epoch /\ (p.epoch = Epoch => p.seq <= place + 1)
        BY DEF ValidCursor, place, Position
    <2>4. ASSUME p.epoch = Epoch PROVE p.seq <= LastSequence(p.epoch)' + 1
        <3>1. LastSequence(p.epoch)' \in Nat
            BY <2>1, <2>3 DEF LastFacts
        <3>2. CASE RowsOf(p.epoch) = {}
            <4>1. place = 0
                BY <2>4, <3>2, LastIs DEF StoreInv, place
            <4> QED BY <2>3, <2>4, <3>1, <4>1
        <3>3. CASE RowsOf(p.epoch) # {}
            <4>1. PICK i \in RowsOf(p.epoch) : place = log[i].seq
                BY <2>4, <3>3, LastIs DEF StoreInv, place
            <4>2. i \in rows /\ i \in 1 .. n /\ log[i].epoch = p.epoch
                BY <1>1, <4>1 DEF RowsOf, StoreInv, Stored
            <4>3. i \in rows' /\ log'[i] = log[i]
                BY <1>2, <1>9, <4>2
            <4>4. i \in RowsOf(p.epoch)'
                BY <4>2, <4>3 DEF RowsOf
            <4>5. log'[i].seq <= LastSequence(p.epoch)'
                BY <2>1, <2>3, <4>4 DEF LastFacts
            <4> QED BY <1>4, <2>3, <2>4, <3>1, <4>1, <4>3, <4>5
        <3> QED BY <3>2, <3>3
    <2> QED BY <1>4, <2>2, <2>3, <2>4 DEF ValidFacts
<1> QED BY <1>1, <1>2, <1>3, <1>4, <1>5, <1>7, <1>8, <1>10, <1>11 DEF StoreInv, Grows, n, m, place

-----------------------------------------------------------------------------
(* Every step of the store.                                                *)

\* A command raises its subjects, and tells of what it raised.
LEMMA CommandKeeps ==
    ASSUME StoreInv, NEW s \in Subject, NEW more \in Nat, NEW also \in SUBSET Subject,
           NEW tells \in SUBSET also, CommitCommand(s, more, also, tells)
    PROVE  StoreInv' /\ Grows
<1> DEFINE f == SetToSeq(tells)
           n == Cardinality(tells)
           one == <<Raised(s)>>
           few == [k \in 1 .. more |-> Raised(s)]
           all == [k \in 1 .. n |-> Raised(f[k])]
           Rise == {c \in Change : c.subject \in {s} \cup also /\ c.rev = rev[c.subject] + 1}
<1>1. n \in Nat /\ f \in [1 .. n -> tells]
    <2>1. IsFiniteSet(tells)
        BY StoreAssumption, FS_Subset
    <2>2. n \in Nat /\ ExistsBijection(1 .. n, tells)
        BY <2>1, FS_CardinalityType
    <2>3. PICK g : g \in Bijection(1 .. n, tells)
        BY <2>2 DEF ExistsBijection
    <2>4. g \in [1 .. n -> tells] /\ IsInjective(g)
        BY <2>3 DEF Bijection, Injection, IsInjective
    <2>5. f \in [1 .. n -> tells]
        BY <2>4, Zenon DEF SetToSeq
    <2> QED BY <2>2, <2>5
<1>2. ASSUME NEW t \in {s} \cup also PROVE Raised(t) \in Rise
    <2>1. t \in Subject /\ rev[t] + 1 \in Nat
        BY DEF StoreInv, Stored
    <2>2. Raised(t) = [subject |-> t, rev |-> rev[t] + 1]
        BY DEF Raised
    <2> QED BY <2>1, <2>2 DEF Change
<1>3. one \in Seq(Rise) /\ few \in Seq(Rise) /\ all \in Seq(Rise)
    <2>1. \A k \in 1 .. n : f[k] \in {s} \cup also
        BY <1>1
    <2>2. \A k \in 1 .. n : Raised(f[k]) \in Rise
        BY <1>2, <2>1
    <2>3. Raised(s) \in Rise
        BY <1>2
    <2> HIDE DEF f, n, Rise
    <2> QED BY <1>1, <2>2, <2>3
<1>4. \E changes \in Seq(Rise) : AppendEvents(changes)
    <2>1. (one \o few) \o all \in Seq(Rise)
        <3> HIDE DEF one, few, all, Rise
        <3> QED BY <1>3
    <2>2. AppendEvents((one \o few) \o all)
        BY DEF CommitCommand
    <2> HIDE DEF one, few, all, Rise
    <2> QED BY <2>1, <2>2
<1>5. PICK changes \in Seq(Rise) : AppendEvents(changes)
    BY <1>4
<1>6. /\ rev' = [t \in Subject |-> IF t \in {s} \cup also THEN rev[t] + 1 ELSE rev[t]]
      /\ UNCHANGED <<vouched, discarded>> /\ Capabilities \notin {s} \cup also
      /\ rev \in [Subject -> Nat]
    BY DEF CommitCommand, StoreInv, Stored
<1>7. rev' \in [Subject -> Nat] /\ \A t \in Subject : rev[t] <= rev'[t]
    BY <1>6
<1>8. \A k \in 1 .. Len(changes) :
          /\ changes[k].rev \in 1 .. rev'[changes[k].subject]
          /\ changes[k].subject = Capabilities => changes[k].rev >= 2
    <2> SUFFICES ASSUME NEW k \in 1 .. Len(changes)
                 PROVE  /\ changes[k].rev \in 1 .. rev'[changes[k].subject]
                        /\ changes[k].subject = Capabilities => changes[k].rev >= 2
        OBVIOUS
    <2>1. changes[k] \in Rise
        <3> HIDE DEF Rise
        <3> QED BY <1>5
    <2>2. /\ changes[k].subject \in {s} \cup also /\ changes[k].rev = rev[changes[k].subject] + 1
          /\ changes[k].subject \in Subject
        BY <2>1 DEF Change
    <2> QED BY <1>6, <2>2
<1>9. changes \in Seq(Change)
    <2>1. Rise \subseteq Change
        OBVIOUS
    <2> HIDE DEF Rise
    <2> QED BY <1>5, <2>1
<1> QED BY <1>5, <1>6, <1>7, <1>8, <1>9, AppendKeeps

\* The provider raises one subject, and tells of some of its revisions.
LEMMA RaiseKeeps ==
    ASSUME StoreInv, NEW s \in Subject, NEW by \in Nat, NEW first \in Nat, first >= 1,
           s = Capabilities => first >= 2, rev' = [rev EXCEPT ![s] = @ + by],
           UNCHANGED <<vouched, discarded>>,
           NEW changes \in Seq({c \in Change : c.subject = s /\ c.rev \in first .. rev[s] + by}),
           AppendEvents(changes)
    PROVE  StoreInv' /\ Grows
<1> DEFINE Some == {c \in Change : c.subject = s /\ c.rev \in first .. rev[s] + by}
<1>1. rev \in [Subject -> Nat]
    BY DEF StoreInv, Stored
<1>2. rev' \in [Subject -> Nat] /\ \A t \in Subject : rev[t] <= rev'[t]
    BY <1>1
<1>3. \A k \in 1 .. Len(changes) :
          /\ changes[k].rev \in 1 .. rev'[changes[k].subject]
          /\ changes[k].subject = Capabilities => changes[k].rev >= 2
    <2> SUFFICES ASSUME NEW k \in 1 .. Len(changes)
                 PROVE  /\ changes[k].rev \in 1 .. rev'[changes[k].subject]
                        /\ changes[k].subject = Capabilities => changes[k].rev >= 2
        OBVIOUS
    <2>1. changes[k] \in Some
        <3> HIDE DEF Some
        <3>1. changes \in Seq(Some)
            BY DEF Some
        <3> QED BY <3>1
    <2>2. changes[k].subject = s /\ changes[k].rev \in first .. rev[s] + by
        BY <2>1
    <2>3. rev'[s] = rev[s] + by /\ rev[s] \in Nat
        BY <1>1
    <2> QED BY <2>2, <2>3
<1>4. changes \in Seq(Change)
    <2>1. Some \subseteq Change
        OBVIOUS
    <2> HIDE DEF Some
    <2>2. changes \in Seq(Some)
        BY DEF Some
    <2> QED BY <2>1, <2>2
<1> QED BY <1>2, <1>3, <1>4, AppendKeeps

\* A change of the provider, with events at one revision.
LEMMA ProviderChangeKeeps ==
    ASSUME StoreInv, NEW s \in Subject, NEW events \in Nat, CommitProviderChange(s, events)
    PROVE  StoreInv' /\ Grows
<1> DEFINE first == rev[s] + 1
           Some == {c \in Change : c.subject = s /\ c.rev \in first .. rev[s] + 1}
           changes == [k \in 1 .. events |-> Raised(s)]
<1>1. rev[s] \in Nat /\ first \in Nat /\ first >= 1 /\ s # Capabilities
    BY DEF CommitProviderChange, StoreInv, Stored
<1>2. Raised(s) \in Some
    <2>1. Raised(s) = [subject |-> s, rev |-> first]
        BY DEF Raised
    <2> QED BY <1>1, <2>1 DEF Change
<1>3. changes \in Seq(Some)
    <2> HIDE DEF Some
    <2> QED BY <1>2
<1>4. AppendEvents(changes) /\ rev' = [rev EXCEPT ![s] = @ + 1] /\ UNCHANGED <<vouched, discarded>>
    BY DEF CommitProviderChange
<1> HIDE DEF changes, first
<1> QED BY <1>1, <1>3, <1>4, RaiseKeeps

\* A batch of the provider, with events at some of its revisions.
LEMMA BatchKeeps ==
    ASSUME StoreInv, NEW s \in Subject, NEW revisions \in Nat, NEW tells \in SomeOf(revisions),
           CommitBatch(s, revisions, tells)
    PROVE  StoreInv' /\ Grows
<1> DEFINE first == rev[s] + 1
           Some == {c \in Change : c.subject = s /\ c.rev \in first .. rev[s] + revisions}
           changes == [k \in DOMAIN tells |-> [subject |-> s, rev |-> rev[s] + tells[k]]]
<1>1. rev[s] \in Nat /\ first \in Nat /\ first >= 1 /\ s # Capabilities
    BY DEF CommitBatch, StoreInv, Stored
<1>2. PICK m \in Nat : tells \in [1 .. m -> 1 .. revisions]
    BY DEF SomeOf
<1>3. \A k \in 1 .. m : [subject |-> s, rev |-> rev[s] + tells[k]] \in Some
    <2> SUFFICES ASSUME NEW k \in 1 .. m
                 PROVE  [subject |-> s, rev |-> rev[s] + tells[k]] \in Some
        OBVIOUS
    <2>1. tells[k] \in 1 .. revisions
        BY <1>2
    <2>2. rev[s] + tells[k] \in first .. rev[s] + revisions /\ rev[s] + tells[k] \in Nat
        BY <1>1, <2>1
    <2> QED BY <2>2 DEF Change
<1>4. changes \in Seq(Some)
    <2> HIDE DEF Some
    <2>1. changes \in [1 .. m -> Some]
        BY <1>2, <1>3
    <2> QED BY <2>1
<1>5. /\ AppendEvents(changes) /\ rev' = [rev EXCEPT ![s] = @ + revisions]
      /\ UNCHANGED <<vouched, discarded>>
    BY DEF CommitBatch
<1> HIDE DEF changes, first
<1> QED BY <1>1, <1>4, <1>5, RaiseKeeps

\* A step that adds no event and drops none.
LEMMA StillKeeps ==
    ASSUME StoreInv, UNCHANGED <<log, rows, vouched, discarded>>, rev' \in [Subject -> Nat],
           \A s \in Subject : rev[s] <= rev'[s]
    PROVE  StoreInv' /\ Grows
<1>1. Stored' /\ Ordered' /\ Retained'
    BY DEF StoreInv, Stored, Ordered, Retained, Place, Epoch
<1>2. Revised'
    <2> SUFFICES ASSUME NEW i \in DOMAIN log
                 PROVE  /\ log[i].rev \in 1 .. rev'[log[i].subject]
                        /\ log[i].subject = Capabilities => log[i].rev >= 2
        BY DEF Revised
    <2>1. log[i].subject \in Subject
        BY PlaceType DEF StoreInv
    <2>2. log[i].rev \in 1 .. rev[log[i].subject] /\ (log[i].subject = Capabilities => log[i].rev >= 2)
        BY DEF StoreInv, Revised
    <2> QED BY <2>1, <2>2 DEF StoreInv, Stored
<1>3. Grows
    <2>1. Epoch' = Epoch /\ Epoch \in Nat /\ LastSequence(Epoch) \in Nat
        BY EpochEnd DEF Epoch
    <2>2. \A p \in Position : ValidCursor(p) => ValidCursor(p)'
        BY DEF ValidCursor, LastSequence, RowsOf, Epoch
    <2>3. Len(log) \in Nat
        BY DEF StoreInv, Stored
    <2> QED BY <2>1, <2>2, <2>3 DEF Grows
<1> QED BY <1>1, <1>2, <1>3 DEF StoreInv

\* The capability snapshot of a start.
LEMMA ReconcileKeeps ==
    ASSUME StoreInv, ReconcileCapabilities
    PROVE  StoreInv' /\ Grows
<1> DEFINE c == Capabilities
<1>1. c \in Subject /\ rev \in [Subject -> Nat] /\ UNCHANGED <<vouched, discarded>>
    BY StoreAssumption DEF ReconcileCapabilities, StoreInv, Stored
<1>2. CASE rev' = [rev EXCEPT ![c] = 1] /\ rev[c] = 0 /\ UNCHANGED <<log, rows>>
    BY <1>1, <1>2, StillKeeps
<1>3. CASE UNCHANGED <<log, rows, rev>>
    BY <1>1, <1>3, StillKeeps
<1>4. CASE rev[c] > 0 /\ rev' = [rev EXCEPT ![c] = @ + 1] /\ AppendEvents(<<Raised(c)>>)
    <2> DEFINE first == rev[c] + 1
               Some == {x \in Change : x.subject = c /\ x.rev \in first .. rev[c] + 1}
    <2>1. first \in Nat /\ first >= 2
        BY <1>1, <1>4
    <2>2. Raised(c) = [subject |-> c, rev |-> first]
        BY DEF Raised
    <2>3. Raised(c) \in Some
        BY <1>1, <2>1, <2>2 DEF Change
    <2>4. <<Raised(c)>> \in Seq(Some)
        <3> HIDE DEF Some
        <3> QED BY <2>3
    <2> DEFINE changes == <<Raised(c)>>
    <2>5. changes \in Seq(Some) /\ AppendEvents(changes)
        BY <1>4, <2>4
    <2>6. changes \in Seq({x \in Change : x.subject = c /\ x.rev \in first .. rev[c] + 1})
        BY <2>5
    <2>7. first >= 1
        BY <2>1
    <2> HIDE DEF first, changes, Some
    <2> QED BY <1>1, <1>4, <2>1, <2>5, <2>6, <2>7, RaiseKeeps
<1> QED BY <1>2, <1>3, <1>4 DEF ReconcileCapabilities

\* The last row of the current epoch is the last event.
LEMMA LastRowEnds ==
    ASSUME StoreInv, RowsOf(Epoch) # {}
    PROVE  /\ Len(log) \in RowsOf(Epoch) /\ Len(log) \in DOMAIN log
           /\ log[Len(log)].seq = LastSequence(Epoch)
<1> DEFINE n == Len(log)
<1>1. PICK i \in RowsOf(Epoch) : LastSequence(Epoch) = log[i].seq
    BY LastIs DEF StoreInv
<1>2. i \in 1 .. n /\ n \in DOMAIN log /\ n \in rows /\ n \in Nat /\ log[i].epoch = Epoch
    BY <1>1 DEF StoreInv, Stored, Retained, RowsOf
<1>3. /\ log[n].epoch \in Nat /\ log[n].epoch <= Epoch /\ log[i].seq \in Nat /\ log[n].seq \in Nat
      /\ Epoch \in Nat
    BY <1>2, PlaceType, EpochEnd DEF StoreInv, Ordered
<1>4. i = n \/ Before(Place(i), Place(n))
    BY <1>2 DEF StoreInv, Ordered
<1>5. /\ Place(i).epoch = log[i].epoch /\ Place(i).seq = log[i].seq
      /\ Place(n).epoch = log[n].epoch /\ Place(n).seq = log[n].seq
    BY <1>2, PlaceType DEF StoreInv
<1> HIDE DEF n
<1>6. log[n].epoch = Epoch /\ log[i].seq <= log[n].seq
    BY <1>2, <1>3, <1>4, <1>5 DEF Before
<1>7. n \in RowsOf(Epoch)
    BY <1>2, <1>6 DEF RowsOf
<1>8. log[n].seq <= LastSequence(Epoch)
    BY <1>7, LastIs DEF StoreInv
<1>9. log[n].seq = LastSequence(Epoch)
    BY <1>1, <1>3, <1>6, <1>8
<1> QED BY <1>2, <1>7, <1>9 DEF n

\* Retention keeps the last rows, the last event among them, and its watermark is
\* behind everything that was ever discarded.
LEMMA RetainKeeps ==
    ASSUME StoreInv, NEW count \in Nat, count >= 1, RetainLastEvents(count)
    PROVE  StoreInv' /\ Grows
<1> DEFINE n == Len(log)
           Later(i) == {j \in rows : Before(Place(i), Place(j))}
           doomed == rows \ LastRows(count)
           Highest(i) == i \in doomed /\ \A j \in doomed \ {i} : Before(Place(j), Place(i))
<1>1. /\ n \in Nat /\ DOMAIN log = 1 .. n /\ rows \subseteq 1 .. n /\ IsFiniteSet(rows)
      /\ UNCHANGED <<log, vouched, rev>> /\ rows' = LastRows(count)
    <2>1. n \in Nat /\ DOMAIN log = 1 .. n /\ rows \subseteq 1 .. n
        BY DEF StoreInv, Stored
    <2>2. IsFiniteSet(1 .. n)
        BY <2>1, FS_Interval
    <2>3. IsFiniteSet(rows)
        BY <2>1, <2>2, FS_Subset
    <2> QED BY <2>1, <2>3 DEF RetainLastEvents
<1>2. \A i, j \in 1 .. n : Before(Place(i), Place(j)) <=> i < j
    <2> SUFFICES ASSUME NEW i \in 1 .. n, NEW j \in 1 .. n
                 PROVE  Before(Place(i), Place(j)) <=> i < j
        OBVIOUS
    <2>1. i < j => Before(Place(i), Place(j))
        BY <1>1 DEF StoreInv, Ordered
    <2>2. j < i => Before(Place(j), Place(i))
        BY <1>1 DEF StoreInv, Ordered
    <2>3. Place(i) \in Position /\ Place(j) \in Position
        BY <1>1, PlaceType DEF StoreInv
    <2>4. i < j \/ j < i \/ i = j
        BY <1>1
    <2> QED BY <2>1, <2>2, <2>3, <2>4, BeforeOrder
<1>3. \A i \in rows : i \in LastRows(count) <=> Cardinality(Later(i)) < count
    BY DEF LastRows
<1>4. \A i \in rows : IsFiniteSet(Later(i)) /\ Cardinality(Later(i)) \in Nat
    <2> SUFFICES ASSUME NEW i \in rows PROVE IsFiniteSet(Later(i)) /\ Cardinality(Later(i)) \in Nat
        OBVIOUS
    <2>1. Later(i) \in SUBSET rows
        OBVIOUS
    <2> HIDE DEF Later
    <2>2. IsFiniteSet(Later(i))
        BY <1>1, <2>1, FS_Subset
    <2> QED BY <2>2, FS_CardinalityType
<1>5. \A i \in LastRows(count) : \A j \in rows : i <= j => j \in LastRows(count)
    <2> SUFFICES ASSUME NEW i \in LastRows(count), NEW j \in rows, i <= j
                 PROVE  j \in LastRows(count)
        OBVIOUS
    <2>1. i \in rows
        BY DEF LastRows
    <2>2. Later(j) \in SUBSET Later(i)
        <3> SUFFICES ASSUME NEW k \in rows, Before(Place(j), Place(k)) PROVE Before(Place(i), Place(k))
            OBVIOUS
        <3>1. i \in 1 .. n /\ j \in 1 .. n /\ k \in 1 .. n /\ i <= j
            BY <1>1, <2>1
        <3>2. j < k
            BY <1>2, <3>1
        <3>3. i < k
            BY <1>1, <3>1, <3>2
        <3> QED BY <1>2, <3>1, <3>3
    <2> HIDE DEF Later
    <2>3. Cardinality(Later(j)) <= Cardinality(Later(i))
        BY <1>4, <2>1, <2>2, FS_Subset
    <2> QED BY <1>3, <1>4, <2>1, <2>3
<1>6. n > 0 => n \in LastRows(count)
    <2> SUFFICES ASSUME n > 0 PROVE n \in LastRows(count)
        OBVIOUS
    <2>1. n \in rows
        BY DEF StoreInv, Retained
    <2>2. Later(n) = {}
        <3> SUFFICES ASSUME NEW k \in rows, Before(Place(n), Place(k)) PROVE FALSE
            OBVIOUS
        <3>1. n \in 1 .. n /\ k \in 1 .. n
            BY <1>1, <2>1
        <3>2. n < k
            BY <1>2, <3>1
        <3> QED BY <1>1, <3>1, <3>2
    <2>3. Cardinality(Later(n)) = 0
        <3> HIDE DEF Later
        <3> QED BY <2>2, FS_EmptySet
    <2> QED BY <1>3, <2>1, <2>3
<1>7. /\ discarded' \in Position
      /\ \A i \in 1 .. n : i \notin LastRows(count) => ~Before(discarded', Place(i))
    <2>1. CASE doomed = {}
        <3>1. discarded' = discarded /\ rows \subseteq LastRows(count)
            BY <2>1 DEF RetainLastEvents
        <3> QED BY <1>1, <3>1 DEF StoreInv, Stored, Retained
    <2>2. CASE doomed # {}
        <3>1. PICK k \in doomed : \A m \in doomed : m <= k
            <4>1. doomed \in SUBSET (1 .. n)
                BY <1>1
            <4> HIDE DEF doomed
            <4> QED BY <1>1, <2>2, <4>1, LargestOf
        <3>2. \A m \in doomed \ {k} : m < k
            BY <1>1, <3>1
        <3>3. Highest(k)
            BY <1>1, <1>2, <3>1, <3>2
        <3>4. discarded' = Place(CHOOSE i \in doomed : \A j \in doomed \ {i} : Before(Place(j), Place(i)))
            BY <2>2 DEF RetainLastEvents
        <3>5. PICK d : d = CHOOSE i \in doomed : \A j \in doomed \ {i} : Before(Place(j), Place(i))
            OBVIOUS
        <3>6. Highest(d) /\ discarded' = Place(d)
            <4> HIDE DEF doomed
            <4> QED BY <3>3, <3>4, <3>5, Zenon
        <3>7. d \in 1 .. n /\ d \in rows /\ Place(d) \in Position
            BY <1>1, <3>6, PlaceType DEF StoreInv
        <3>8. ASSUME NEW i \in 1 .. n, i \notin LastRows(count) PROVE ~Before(Place(d), Place(i))
            <4>1. Place(i) \in Position
                BY <1>1, PlaceType DEF StoreInv
            <4>2. CASE i \in rows
                <5>1. i = d \/ Before(Place(i), Place(d))
                    BY <3>6, <3>8, <4>2
                <5> QED BY <3>7, <4>1, <5>1, BeforeOrder
            <4>3. CASE i \notin rows
                <5>1. ~(d < i)
                    BY <1>1, <3>7, <4>3 DEF StoreInv, Retained
                <5> QED BY <1>2, <3>7, <5>1
            <4> QED BY <4>2, <4>3
        <3> QED BY <3>6, <3>7, <3>8
    <2> QED BY <2>1, <2>2
<1>8. rows' \subseteq rows
    BY <1>1 DEF LastRows
<1>9. Stored' /\ Ordered' /\ Revised'
    BY <1>1, <1>7, <1>8 DEF StoreInv, Stored, Ordered, Revised, Place, Epoch
<1>10. Retained'
    <2>1. \A i \in rows' : \A j \in DOMAIN log' : i <= j => j \in rows'
        BY <1>1, <1>5, <1>8 DEF StoreInv, Retained
    <2>2. Len(log') > 0 => Len(log') \in rows'
        BY <1>1, <1>6
    <2>3. \A i \in DOMAIN log' \ rows' : ~Before(discarded', Place(i)')
        BY <1>1, <1>7 DEF Place
    <2> QED BY <2>1, <2>2, <2>3 DEF Retained, Before, Place
<1>11. Grows
    <2>1. Epoch' = Epoch /\ Epoch \in Nat /\ LastSequence(Epoch) \in Nat
        BY <1>1, EpochEnd DEF Epoch
    <2>2. LastFacts' /\ ValidFacts'
        BY <1>9, LastIsEver, ValidEver, PTL
    <2>3. ASSUME NEW p \in Position, ValidCursor(p) PROVE ValidCursor(p)'
        <3>1. p.epoch \in Nat /\ p.seq \in Nat /\ p.epoch <= Epoch
              /\ (p.epoch = Epoch => p.seq <= LastSequence(Epoch) + 1)
            BY <2>3 DEF ValidCursor, Position
        <3>2. ASSUME p.epoch = Epoch PROVE p.seq <= LastSequence(p.epoch)' + 1
            <4>1. LastSequence(p.epoch)' \in Nat
                BY <2>2, <3>1 DEF LastFacts
            <4>2. CASE RowsOf(Epoch) = {}
                <5>1. LastSequence(Epoch) = 0
                    BY <4>2, LastIs DEF StoreInv
                <5> QED BY <3>1, <3>2, <4>1, <5>1
            <4>3. CASE RowsOf(Epoch) # {}
                <5>1. /\ n \in RowsOf(Epoch) /\ n \in 1 .. n
                      /\ log[n].seq = LastSequence(Epoch)
                    BY <1>1, <4>3, LastRowEnds
                <5>2. n \in rows' /\ log[n].epoch = p.epoch
                    BY <1>1, <1>6, <3>2, <5>1 DEF RowsOf
                <5>3. n \in RowsOf(p.epoch)'
                    BY <1>1, <5>2 DEF RowsOf
                <5>4. log'[n].seq <= LastSequence(p.epoch)'
                    BY <2>2, <3>1, <5>3 DEF LastFacts
                <5>5. LastSequence(Epoch) <= LastSequence(p.epoch)'
                    BY <1>1, <5>1, <5>4
                <5> HIDE DEF n
                <5> QED BY <2>1, <3>1, <3>2, <4>1, <5>5
            <4> QED BY <4>2, <4>3
        <3> QED BY <2>1, <2>2, <3>1, <3>2 DEF ValidFacts
    <2> QED BY <1>1, <2>1, <2>3 DEF Grows
<1> QED BY <1>9, <1>10, <1>11 DEF StoreInv

\* The greater of two numbers.
LEMMA MaxPair ==
    ASSUME NEW a \in Int, NEW b \in Int
    PROVE  /\ Max({a, b}) = IF a >= b THEN a ELSE b
           /\ Max({a, b}) \in Int
<1> DEFINE m == IF a >= b THEN a ELSE b
<1>1. m \in {a, b} /\ \A y \in {a, b} : m >= y
    OBVIOUS
<1>2. Max({a, b}) \in {a, b} /\ \A y \in {a, b} : Max({a, b}) >= y
    BY <1>1, Zenon DEF Max
<1> QED BY <1>2

\* A new epoch gives nothing out and leaves every cursor valid.
LEMMA NewEpochKeeps ==
    ASSUME StoreInv, NEW unvouched \in Nat, StartNewEpoch(unvouched)
    PROVE  StoreInv' /\ Grows
<1> DEFINE vouch == Max({LastSequence(Epoch) - unvouched, 0})
<1>1. /\ vouched' = Append(vouched, vouch) /\ UNCHANGED <<log, rows, discarded, rev>>
      /\ Epoch \in Nat /\ LastSequence(Epoch) \in Nat /\ Len(log) \in Nat
    BY EpochEnd DEF StartNewEpoch, StoreInv, Stored
<1>2. vouch \in Nat
    <2>1. LastSequence(Epoch) - unvouched \in Int
        BY <1>1
    <2> QED BY <2>1, MaxPair
<1> HIDE DEF vouch
<1>3. vouched' \in Seq(Nat) /\ Epoch' = Epoch + 1
    BY <1>1, <1>2 DEF StoreInv, Stored, Epoch
<1>4. Stored' /\ Revised' /\ Retained'
    BY <1>1, <1>3 DEF StoreInv, Stored, Revised, Retained, Place
<1>5. Ordered'
    BY <1>1, <1>3 DEF StoreInv, Ordered, Place
<1>6. \A p \in Position : ValidCursor(p) => ValidCursor(p)'
    <2> SUFFICES ASSUME NEW p \in Position, ValidCursor(p) PROVE ValidCursor(p)'
        OBVIOUS
    <2>1. ValidFacts'
        BY ValidEver, PTL
    <2>2. p.epoch \in Nat /\ p.epoch <= Epoch
        BY DEF ValidCursor, Position
    <2> QED BY <1>1, <1>3, <2>1, <2>2 DEF ValidFacts
<1>7. Grows
    BY <1>1, <1>3, <1>6 DEF Grows
<1> QED BY <1>4, <1>5, <1>7 DEF StoreInv

\* Every step of the store, with retention that keeps something.
LEMMA StoreStep ==
    ASSUME StoreInv, KeepsSome, StoreNext \/ UNCHANGED store
    PROVE  StoreInv' /\ Grows
<1>1. ASSUME NEW s \in Subject, NEW more \in 0 .. 1, NEW also \in SUBSET Subject,
             NEW tells \in SUBSET also, CommitCommand(s, more, also, tells)
      PROVE  StoreInv' /\ Grows
    BY <1>1, CommandKeeps
<1>2. ASSUME NEW s \in Subject, NEW events \in 0 .. 2, CommitProviderChange(s, events)
      PROVE  StoreInv' /\ Grows
    BY <1>2, ProviderChangeKeeps
<1>3. ASSUME NEW s \in Subject, NEW revisions \in 1 .. 2, NEW tells \in SomeOf(revisions),
             CommitBatch(s, revisions, tells)
      PROVE  StoreInv' /\ Grows
    BY <1>3, BatchKeeps
<1>4. CASE UNCHANGED <<log, rows, vouched, discarded, rev>>
    BY <1>4, StillKeeps DEF StoreInv, Stored
<1>5. ASSUME NEW u \in Unvouched, StartNewEpoch(u) PROVE StoreInv' /\ Grows
    BY <1>5, NewEpochKeeps, StoreAssumption
<1>6. ASSUME NEW n \in Retain, RetainLastEvents(n) PROVE StoreInv' /\ Grows
    <2>1. n \in Nat /\ n >= 1
        BY StoreAssumption DEF KeepsSome
    <2> QED BY <1>6, <2>1, RetainKeeps
<1>7. CASE ReconcileCapabilities
    BY <1>7, ReconcileKeeps
<1>8. CASE UNCHANGED store
    BY <1>4, <1>8 DEF store
<1>9. CASE Crash \/ Open \/ SameEpoch \/ RetainAll
    BY <1>4, <1>9 DEF Crash, Open, SameEpoch, RetainAll
<1> QED BY <1>1, <1>2, <1>3, <1>5, <1>6, <1>7, <1>8, <1>9, Zenon DEF StoreNext

-----------------------------------------------------------------------------
(* What a read passes over and what it takes, an item at a time.           *)

Item ==
    [type : {"event"}, event : Nat]
    \cup [type : {"epoch_change"}, from : Nat, vouched : Nat]
    \cup [type : {"gap"}, from : Position, to : Position,
          subjects : UNION {[S -> Nat] : S \in SUBSET Subject}]

Read == [at : Position, items : Seq(Item), used : Nat, open : BOOLEAN,
         filtered : BOOLEAN, tooLarge : BOOLEAN]

\* An item tells of an event: it is the event, a snapshot at its revision or a later
\* one, or the end of an epoch that gave it up.
Tells(item, i) ==
    \/ item.type = "event" /\ item.event = i
    \/ /\ item.type = "gap" /\ log[i].subject \in DOMAIN item.subjects
       /\ item.subjects[log[i].subject] >= log[i].rev
    \/ item.type = "epoch_change" /\ item.from = log[i].epoch /\ item.vouched < log[i].seq

Covers(items, i, shown) == log[i].subject \notin shown \/ \E k \in DOMAIN items : Tells(items[k], i)

\* An item is of events from p on and before q, and shows no revision there is not.
Within(item, p, q) ==
    /\ item.type = "event" =>
          /\ item.event \in DOMAIN log
          /\ ~Before(Place(item.event), p) /\ Before(Place(item.event), q)
    /\ item.type = "gap" => \A s \in DOMAIN item.subjects : item.subjects[s] <= rev[s]

InOrder(items) ==
    \A j, k \in DOMAIN items :
        j < k /\ items[j].type = "event" /\ items[k].type = "event" => items[j].event < items[k].event

\* A position that a cursor may name.
Sound(p) == p \in Position /\ p.epoch >= 1 /\ ValidCursor(p)

\* A read has used something as soon as it has items, and stops with none when
\* not even one fits.
Paid(read) ==
    /\ read.items = <<>> <=> read.used = 0
    /\ read.tooLarge => read.items = <<>> /\ ~read.open

\* Everything shown between where a read started and where it is was taken, in order.
ReadInv(read, start, shown) ==
    /\ read \in Read /\ Sound(read.at) /\ ~Before(read.at, start)
    /\ \A k \in DOMAIN read.items : Within(read.items[k], start, read.at)
    /\ InOrder(read.items)
    /\ \A i \in DOMAIN log :
           ~Before(Place(i), start) /\ Before(Place(i), read.at) => Covers(read.items, i, shown)
    /\ Paid(read)

\* Positions are in the order of the commits.
LEMMA PlacesFollow ==
    ASSUME StoreInv, NEW i \in DOMAIN log, NEW j \in DOMAIN log
    PROVE  /\ Before(Place(i), Place(j)) <=> i < j
           /\ Place(i) = Place(j) => i = j
<1>1. i < j => Before(Place(i), Place(j))
    BY DEF StoreInv, Ordered
<1>2. j < i => Before(Place(j), Place(i))
    BY DEF StoreInv, Ordered
<1>3. Place(i) \in Position /\ Place(j) \in Position
    BY PlaceType DEF StoreInv
<1>4. i < j \/ j < i \/ i = j
    BY DEF StoreInv, Stored
<1> QED BY <1>1, <1>2, <1>3, <1>4, BeforeOrder

\* A read that moves to a position and takes an item that tells of all between.
LEMMA TakeKeeps ==
    ASSUME StoreInv, NEW start \in Position, NEW shown, NEW read, ReadInv(read, start, shown),
           NEW item \in Item, NEW t \in Read, t.items = Append(read.items, item),
           t.used >= 1, ~t.tooLarge,
           Sound(t.at), ~Before(t.at, read.at), Within(item, read.at, t.at),
           \A i \in DOMAIN log :
               ~Before(Place(i), read.at) /\ Before(Place(i), t.at) /\ log[i].subject \in shown
                  => Tells(item, i)
    PROVE  ReadInv(t, start, shown) /\ t.items # <<>>
<1> DEFINE n == Len(read.items)
<1>1. /\ read.items \in Seq(Item) /\ read.at \in Position /\ t.at \in Position /\ n \in Nat
      /\ DOMAIN t.items = 1 .. n + 1 /\ DOMAIN read.items = 1 .. n
      /\ \A k \in 1 .. n : t.items[k] = read.items[k]
      /\ t.items[n + 1] = item
    BY DEF ReadInv, Read, Sound
<1>2. t.items # <<>>
    <2>1. Len(Append(read.items, item)) = n + 1
        BY <1>1
    <2>2. Len(<<>>) = 0
        OBVIOUS
    <2> HIDE DEF n
    <2> QED BY <1>1, <2>1, <2>2
<1> HIDE DEF n
<1>3. ~Before(t.at, start)
    BY <1>1, BeforeTransitive DEF ReadInv
<1>4. ASSUME NEW k \in 1 .. n + 1 PROVE Within(t.items[k], start, t.at)
    <2>1. CASE k \in 1 .. n
        <3>1. Within(read.items[k], start, read.at)
            BY <1>1, <2>1 DEF ReadInv
        <3>2. ASSUME NEW i \in DOMAIN log, Before(Place(i), read.at) PROVE Before(Place(i), t.at)
            <4>1. Place(i) \in Position
                BY PlaceType DEF StoreInv
            <4> QED BY <1>1, <3>2, <4>1, BeforeTransitive
        <3> QED BY <1>1, <2>1, <3>1, <3>2 DEF Within
    <2>2. CASE k = n + 1
        <3>1. ASSUME NEW i \in DOMAIN log, ~Before(Place(i), read.at) PROVE ~Before(Place(i), start)
            <4>1. Place(i) \in Position
                BY PlaceType DEF StoreInv
            <4> QED BY <1>1, <3>1, <4>1, BeforeTransitive DEF ReadInv
        <3> QED BY <1>1, <2>2, <3>1 DEF Within
    <2> QED BY <1>1, <2>1, <2>2
<1>5. InOrder(t.items)
    <2> SUFFICES ASSUME NEW j \in 1 .. n + 1, NEW k \in 1 .. n + 1, j < k,
                        t.items[j].type = "event", t.items[k].type = "event"
                 PROVE  t.items[j].event < t.items[k].event
        BY <1>1 DEF InOrder
    <2>1. CASE k \in 1 .. n
        <3>1. j \in 1 .. n /\ t.items[j] = read.items[j] /\ t.items[k] = read.items[k]
            BY <1>1, <2>1
        <3>2. InOrder(read.items)
            BY DEF ReadInv
        <3> QED BY <1>1, <2>1, <3>1, <3>2 DEF InOrder
    <2>2. CASE k = n + 1
        <3>1. j \in 1 .. n
            BY <1>1, <2>2
        <3>2. PICK e : e = t.items[j].event
            OBVIOUS
        <3>3. e \in DOMAIN log /\ Before(Place(e), read.at)
            BY <1>1, <3>1, <3>2 DEF ReadInv, Within
        <3>4. PICK f : f = t.items[k].event
            OBVIOUS
        <3>5. f \in DOMAIN log /\ ~Before(Place(f), read.at)
            BY <1>1, <2>2, <3>4 DEF Within
        <3>6. Before(Place(e), Place(f))
            <4>1. Place(e) \in Position /\ Place(f) \in Position
                BY <3>3, <3>5, PlaceType DEF StoreInv
            <4> QED BY <1>1, <3>3, <3>5, <4>1, BeforeTransitive
        <3> QED BY <3>2, <3>3, <3>4, <3>5, <3>6, PlacesFollow
    <2> QED BY <1>1, <2>1, <2>2
<1>6. ASSUME NEW i \in DOMAIN log, ~Before(Place(i), start), Before(Place(i), t.at)
      PROVE  Covers(t.items, i, shown)
    <2>1. CASE Before(Place(i), read.at)
        <3>1. Covers(read.items, i, shown)
            BY <1>6, <2>1 DEF ReadInv
        <3>2. ASSUME NEW k \in 1 .. n, Tells(read.items[k], i)
              PROVE  \E m \in 1 .. n + 1 : Tells(t.items[m], i)
            <4>1. k \in 1 .. n + 1 /\ t.items[k] = read.items[k]
                BY <1>1
            <4> QED BY <3>2, <4>1, Zenon
        <3> QED BY <1>1, <3>1, <3>2, Zenon DEF Covers
    <2>2. CASE ~Before(Place(i), read.at)
        <3>1. log[i].subject \in shown => Tells(t.items[n + 1], i)
            BY <1>1, <1>6, <2>2
        <3> QED BY <1>1, <3>1 DEF Covers
    <2> QED BY <2>1, <2>2
<1>7. Paid(t)
    BY <1>2 DEF Paid, Read
<1> QED BY <1>1, <1>2, <1>3, <1>4, <1>5, <1>6, <1>7 DEF ReadInv

\* A read that moves to a position and takes nothing, since nothing between is shown.
LEMMA PassKeeps ==
    ASSUME StoreInv, NEW start \in Position, NEW shown, NEW read, ReadInv(read, start, shown),
           NEW t \in Read, t.items = read.items, Paid(t),
           Sound(t.at), ~Before(t.at, read.at),
           \A i \in DOMAIN log :
               ~Before(Place(i), read.at) /\ Before(Place(i), t.at) => log[i].subject \notin shown
    PROVE  ReadInv(t, start, shown)
<1>1. read.at \in Position /\ t.at \in Position
    BY DEF ReadInv, Read, Sound
<1>2. ~Before(t.at, start)
    BY <1>1, BeforeTransitive DEF ReadInv
<1>3. ASSUME NEW k \in DOMAIN t.items PROVE Within(t.items[k], start, t.at)
    <2>1. Within(read.items[k], start, read.at)
        BY DEF ReadInv
    <2>2. ASSUME NEW i \in DOMAIN log, Before(Place(i), read.at) PROVE Before(Place(i), t.at)
        <3>1. Place(i) \in Position
            BY PlaceType DEF StoreInv
        <3> QED BY <1>1, <2>2, <3>1, BeforeTransitive
    <2> QED BY <2>1, <2>2 DEF Within
<1>4. ASSUME NEW i \in DOMAIN log, ~Before(Place(i), start), Before(Place(i), t.at)
      PROVE  Covers(t.items, i, shown)
    <2>1. CASE Before(Place(i), read.at)
        BY <1>4, <2>1 DEF ReadInv
    <2>2. CASE ~Before(Place(i), read.at)
        BY <1>4, <2>2 DEF Covers
    <2> QED BY <2>1, <2>2
<1> QED BY <1>2, <1>3, <1>4 DEF ReadInv

\* What is not missing at a position is in the table.
LEMMA NotMissing ==
    ASSUME StoreInv, NEW place \in Position, ~Missing(place),
           NEW i \in DOMAIN log, log[i].epoch = place.epoch, log[i].seq >= place.seq
    PROVE  i \in rows
<1>1. /\ Place(i) \in Position /\ Place(i).epoch = place.epoch /\ Place(i).seq = log[i].seq
      /\ log[i].seq \in Nat
    BY PlaceType DEF StoreInv
<1>2. CASE Before(discarded, place)
    <2>1. ~Before(Place(i), place)
        BY <1>1 DEF Before, Position
    <2>2. discarded \in Position
        BY DEF StoreInv, Stored
    <2>3. Before(discarded, Place(i))
        BY <1>1, <1>2, <2>1, <2>2, BeforeTransitive
    <2> QED BY <2>3 DEF StoreInv, Retained
<1>3. CASE \E j \in RowsOf(place.epoch) : ~(place.seq < log[j].seq)
    <2>1. PICK j \in RowsOf(place.epoch) : ~(place.seq < log[j].seq)
        BY <1>3
    <2>2. j \in rows /\ j \in DOMAIN log /\ log[j].epoch = place.epoch
        BY <2>1 DEF RowsOf, StoreInv, Stored
    <2>3. Place(j).epoch = place.epoch /\ Place(j).seq = log[j].seq /\ log[j].seq \in Nat
        BY <2>2, PlaceType DEF StoreInv
    <2>4. ~Before(Place(i), Place(j))
        BY <1>1, <2>1, <2>3 DEF Before, Position
    <2>5. j <= i
        BY <2>2, <2>4, PlacesFollow DEF StoreInv, Stored
    <2> QED BY <2>2, <2>5 DEF StoreInv, Retained
<1> QED BY <1>2, <1>3 DEF Missing

\* The next event ahead of a position.
First(place) == CHOOSE i \in Ahead(place) : \A j \in Ahead(place) : log[i].seq <= log[j].seq

\* It is there, and the first by its number.
LEMMA FirstIs ==
    ASSUME StoreInv, NEW place \in Position, Ahead(place) # {}
    PROVE  /\ First(place) \in Ahead(place) /\ First(place) \in DOMAIN log
           /\ \A j \in Ahead(place) : log[First(place)].seq <= log[j].seq
           /\ log[First(place)].epoch = place.epoch /\ log[First(place)].seq >= place.seq
           /\ First(place) \in RowsOf(place.epoch)
<1>1. \A i \in Ahead(place) : /\ i \in rows /\ i \in DOMAIN log /\ log[i].epoch = place.epoch
                              /\ log[i].seq >= place.seq /\ i \in RowsOf(place.epoch)
    BY DEF Ahead, RowsOf, StoreInv, Stored
<1>2. PICK k \in Ahead(place) : \A m \in Ahead(place) : k <= m
    <2>1. Ahead(place) \in SUBSET Nat
        BY <1>1 DEF StoreInv, Stored
    <2> QED BY <2>1, SmallestOf
<1>3. ASSUME NEW m \in Ahead(place) PROVE log[k].seq <= log[m].seq
    <2>1. k = m \/ Before(Place(k), Place(m))
        BY <1>1, <1>2, PlacesFollow DEF StoreInv, Stored
    <2>2. /\ Place(k).epoch = place.epoch /\ Place(k).seq = log[k].seq /\ log[k].seq \in Nat
          /\ Place(m).epoch = place.epoch /\ Place(m).seq = log[m].seq /\ log[m].seq \in Nat
        BY <1>1, PlaceType DEF StoreInv
    <2> QED BY <2>1, <2>2 DEF Before, Position
<1>4. First(place) \in Ahead(place) /\ \A j \in Ahead(place) : log[First(place)].seq <= log[j].seq
    BY <1>3, Zenon DEF First
<1> QED BY <1>1, <1>4

\* Nothing is passed over before the next event.
LEMMA NothingBefore ==
    ASSUME StoreInv, NEW place \in Position, ~Missing(place), Ahead(place) # {},
           NEW i \in DOMAIN log, ~Before(Place(i), place)
    PROVE  /\ ~Before(Place(i), Place(First(place)))
           /\ Before(Place(i), After(Place(First(place)))) => i = First(place)
<1> DEFINE f == First(place)
<1>1. /\ f \in Ahead(place) /\ f \in DOMAIN log /\ log[f].epoch = place.epoch /\ f \in RowsOf(place.epoch)
      /\ \A j \in Ahead(place) : log[f].seq <= log[j].seq
    BY FirstIs
<1> HIDE DEF f
<1>2. /\ Place(i) \in Position /\ Place(i).epoch = log[i].epoch /\ Place(i).seq = log[i].seq
      /\ Place(f) \in Position /\ Place(f).epoch = place.epoch /\ Place(f).seq = log[f].seq
      /\ log[i].epoch \in Nat /\ log[i].seq \in Nat /\ log[f].seq \in Nat
    BY <1>1, PlaceType DEF StoreInv
<1>3. place.epoch \in Nat /\ place.seq \in Nat
    BY DEF Position
<1>4. ASSUME Before(Place(i), Place(f)) PROVE FALSE
    <2>1. log[i].epoch = place.epoch /\ log[i].seq >= place.seq /\ log[i].seq < log[f].seq
        BY <1>2, <1>3, <1>4 DEF Before
    <2>2. i \in rows
        BY <2>1, NotMissing
    <2>3. Closed(place.epoch) => log[i].seq <= vouched[place.epoch]
        <3>1. Closed(place.epoch) => log[f].seq <= vouched[place.epoch]
            BY <1>1 DEF Ahead
        <3>2. Closed(place.epoch) => vouched[place.epoch] \in Nat \/ place.epoch = 0
            BY <1>3 DEF Closed, Epoch, StoreInv, Stored
        <3>3. place.epoch >= 1
            BY <2>1 DEF StoreInv, Ordered
        <3> QED BY <1>2, <1>3, <2>1, <3>1, <3>2, <3>3
    <2>4. i \in Ahead(place)
        BY <2>1, <2>2, <2>3 DEF Ahead, RowsOf
    <2> QED BY <1>1, <1>2, <2>1, <2>4
<1>5. ASSUME Before(Place(i), After(Place(f))) PROVE i = f
    <2>1. After(Place(f)).epoch = place.epoch /\ After(Place(f)).seq = log[f].seq + 1
        BY <1>2 DEF After, Position
    <2>2. ~Before(Place(i), Place(f))
        BY <1>4
    <2>3. Place(i).epoch = Place(f).epoch /\ Place(i).seq = Place(f).seq
        BY <1>2, <1>3, <1>5, <2>1, <2>2 DEF Before
    <2>4. Place(i) = Place(f)
        BY <1>2, <2>3 DEF Position
    <2> QED BY <1>1, <2>4, PlacesFollow
<1> QED BY <1>4, <1>5 DEF f

\* A read that stops before an item, or that takes it.
Stopped(t, read) ==
    /\ t.open = FALSE /\ t.at = read.at /\ t.items = read.items
    /\ t.used = read.used /\ t.tooLarge = read.tooLarge

Taken(t, read, item, next) ==
    /\ t.at = next /\ t.items = Append(read.items, item)
    /\ t.used = read.used + Size(item)
    /\ t.open = read.open /\ t.tooLarge = read.tooLarge

\* Take does one or the other, by what is left of the budget.
LEMMA TakeIs ==
    ASSUME NEW read \in Read, NEW budget \in Nat, NEW item \in Item, Size(item) \in Nat,
           NEW next \in Position, NEW t, t = Take(read, budget, item, next)
    PROVE  /\ t \in Read
           /\ read.used + Size(item) > budget => Stopped(t, read)
           /\ ~(read.used + Size(item) > budget) => Taken(t, read, item, next)
<1>1. CASE read.used + Size(item) > budget
    <2>1. t = [read EXCEPT !.open = FALSE]
        BY <1>1 DEF Take
    <2> QED BY <1>1, <2>1 DEF Read, Stopped
<1>2. CASE ~(read.used + Size(item) > budget)
    <2>1. PICK items : items = Append(read.items, item)
        OBVIOUS
    <2>2. PICK used : used = read.used + Size(item)
        OBVIOUS
    <2>3. t = [read EXCEPT !.at = next, !.used = used, !.items = items]
        BY <1>2, <2>1, <2>2 DEF Take
    <2>4. items \in Seq(Item) /\ used \in Nat
        BY <2>1, <2>2 DEF Read
    <2>5. /\ t.at = next /\ t.items = items /\ t.open = read.open /\ t.used = used
          /\ t.tooLarge = read.tooLarge /\ t \in Read
        BY <2>3, <2>4 DEF Read
    <2> QED BY <1>2, <2>1, <2>2, <2>5 DEF Taken
<1> QED BY <1>1, <1>2

\* What the items of a read weigh.
LEMMA ChangeIs ==
    ASSUME StoreInv, NEW e \in Nat, e >= 1, Closed(e)
    PROVE  /\ ChangeItem(e) \in Item /\ Size(ChangeItem(e)) = 1 /\ vouched[e] \in Nat
           /\ ChangeItem(e).type = "epoch_change"
           /\ ChangeItem(e).from = e /\ ChangeItem(e).vouched = vouched[e]
<1>1. vouched[e] \in Nat
    BY DEF StoreInv, Stored, Closed, Epoch
<1> QED BY <1>1 DEF ChangeItem, Item, Size

\* The same of an event.
LEMMA EventIs ==
    ASSUME StoreInv, NEW i \in DOMAIN log
    PROVE  /\ EventItem(i) \in Item /\ Size(EventItem(i)) \in Nat /\ Size(EventItem(i)) >= 1
           /\ EventItem(i).type = "event" /\ EventItem(i).event = i
<1>1. i \in Nat /\ log[i].subject \in Subject
    BY PlaceType DEF StoreInv, Stored
<1>2. EventItem(i) \in Item /\ EventItem(i).type = "event" /\ EventItem(i).event = i
    BY <1>1 DEF EventItem, Item
<1>3. Size(EventItem(i)) = EventSize[log[i].subject]
    BY <1>2 DEF Size
<1> QED BY <1>1, <1>2, <1>3, StoreAssumption

\* Every event is before the head of the stream.
LEMMA HeadIs ==
    ASSUME StoreInv
    PROVE  /\ After(StreamHead) \in Position /\ StreamHead \in Position
           /\ After(StreamHead).epoch = Epoch
           /\ After(StreamHead).seq = LastSequence(Epoch) + 1
           /\ Sound(After(StreamHead))
           /\ \A i \in DOMAIN log : Before(Place(i), After(StreamHead))
<1>1. Epoch \in Nat /\ Epoch >= 1 /\ LastSequence(Epoch) \in Nat
    BY EpochEnd
<1>2. /\ StreamHead \in Position
      /\ StreamHead.epoch = Epoch /\ StreamHead.seq = LastSequence(Epoch)
    BY <1>1 DEF StreamHead, Position
<1>3. /\ After(StreamHead) \in Position /\ After(StreamHead).epoch = Epoch
      /\ After(StreamHead).seq = LastSequence(Epoch) + 1
    BY <1>1, <1>2 DEF After, Position
<1>4. Sound(After(StreamHead))
    BY <1>1, <1>3 DEF Sound, ValidCursor
<1>5. ASSUME NEW i \in DOMAIN log PROVE Before(Place(i), After(StreamHead))
    <2>1. /\ Place(i).epoch = log[i].epoch /\ Place(i).seq = log[i].seq
          /\ log[i].epoch \in Nat /\ log[i].seq \in Nat /\ log[i].epoch <= Epoch
        BY PlaceType DEF StoreInv, Ordered
    <2>2. log[i].epoch = Epoch => log[i].seq <= LastSequence(Epoch)
        BY EpochEnd
    <2> QED BY <1>1, <1>3, <2>1, <2>2 DEF Before
<1> QED BY <1>2, <1>3, <1>4, <1>5

\* A gap weighs no more than a snapshot of all that may be seen.
LEMMA GapIs ==
    ASSUME StoreInv, NEW place \in Position, NEW sees \in SUBSET Subject
    PROVE  /\ GapItem(place, sees) \in Item /\ Size(GapItem(place, sees)) \in Nat
           /\ Size(GapItem(place, sees)) >= 1
           /\ Size(GapItem(place, sees)) <= 1 + Cardinality(sees)
           /\ GapItem(place, sees).type = "gap"
           /\ DOMAIN GapItem(place, sees).subjects = Snapshot(sees)
           /\ \A s \in Snapshot(sees) : s \in Subject /\ GapItem(place, sees).subjects[s] = rev[s]
<1> DEFINE shows == [s \in Snapshot(sees) |-> rev[s]]
           item == GapItem(place, sees)
<1>1. Snapshot(sees) \in SUBSET sees /\ rev \in [Subject -> Nat]
    BY DEF Snapshot, StoreInv, Stored
<1>2. /\ shows \in [Snapshot(sees) -> Nat] /\ DOMAIN shows = Snapshot(sees)
      /\ \A s \in Snapshot(sees) : s \in Subject /\ shows[s] = rev[s]
    BY <1>1
<1>3. item = [type |-> "gap", from |-> place, to |-> StreamHead, subjects |-> shows]
    BY DEF GapItem
<1>4. shows \in UNION {[S -> Nat] : S \in SUBSET Subject}
    <2>1. Snapshot(sees) \in SUBSET Subject
        BY <1>1
    <2> HIDE DEF shows
    <2> QED BY <1>2, <2>1
<1> HIDE DEF shows
<1>5. item \in Item /\ item.type = "gap" /\ item.subjects = shows
    BY <1>3, <1>4, HeadIs DEF Item
<1>6. IsFiniteSet(sees)
    BY StoreAssumption, FS_Subset
<1>7. /\ Cardinality(Snapshot(sees)) \in Nat /\ Cardinality(sees) \in Nat
      /\ Cardinality(Snapshot(sees)) <= Cardinality(sees)
    <2>1. IsFiniteSet(Snapshot(sees)) /\ Cardinality(Snapshot(sees)) <= Cardinality(sees)
        BY <1>1, <1>6, FS_Subset
    <2> QED BY <1>6, <2>1, FS_CardinalityType
<1>8. Size(item) = 1 + Cardinality(Snapshot(sees))
    BY <1>2, <1>5 DEF Size
<1> QED BY <1>2, <1>5, <1>7, <1>8

\* The end of a closed epoch: what was not delivered of it was given up.
ChangeDue(place) ==
    /\ Closed(place.epoch)
    /\ place.seq > vouched[place.epoch] \/ (~Missing(place) /\ Ahead(place) = {})

NextEpoch(place) == [epoch |-> place.epoch + 1, seq |-> 1]

\* The end of an epoch tells of every event between it and the next epoch.
LEMMA ChangeTells ==
    ASSUME StoreInv, NEW place, Sound(place), ChangeDue(place)
    PROVE  /\ NextEpoch(place) \in Position /\ Sound(NextEpoch(place)) /\ ~Before(NextEpoch(place), place)
           /\ Within(ChangeItem(place.epoch), place, NextEpoch(place))
           /\ \A i \in DOMAIN log :
                  ~Before(Place(i), place) /\ Before(Place(i), NextEpoch(place)) => Tells(ChangeItem(place.epoch), i)
<1> DEFINE item == ChangeItem(place.epoch)
           v == vouched[place.epoch]
<1>1. place \in Position /\ place.epoch \in Nat /\ place.seq \in Nat /\ place.epoch >= 1 /\ Closed(place.epoch)
    BY DEF Sound, Position, ChangeDue
<1>2. item.type = "epoch_change" /\ item.from = place.epoch /\ item.vouched = v /\ v \in Nat
    BY <1>1, ChangeIs
<1>3. /\ NextEpoch(place) \in Position /\ NextEpoch(place).epoch = place.epoch + 1 /\ NextEpoch(place).seq = 1
    BY <1>1 DEF NextEpoch, Position
<1>4. Sound(NextEpoch(place))
    <2>1. place.epoch + 1 <= Epoch /\ LastSequence(Epoch) \in Nat
        BY <1>1, EpochEnd DEF Closed
    <2> QED BY <1>1, <1>3, <2>1 DEF Sound, ValidCursor
<1>5. ~Before(NextEpoch(place), place)
    BY <1>1, <1>3 DEF Before
<1> HIDE DEF item, v
<1>6. Within(item, place, NextEpoch(place))
    BY <1>2 DEF Within
<1>7. ASSUME NEW i \in DOMAIN log, ~Before(Place(i), place), Before(Place(i), NextEpoch(place))
      PROVE  Tells(item, i)
    <2>1. /\ Place(i).epoch = log[i].epoch /\ Place(i).seq = log[i].seq
          /\ log[i].epoch \in Nat /\ log[i].seq \in Nat /\ log[i].seq >= 1
        BY PlaceType DEF StoreInv, Ordered
    <2>2. log[i].epoch = place.epoch /\ log[i].seq >= place.seq
        BY <1>1, <1>3, <1>7, <2>1 DEF Before
    <2>3. v < log[i].seq
        <3>1. CASE place.seq > v
            BY <1>1, <1>2, <2>1, <2>2, <3>1
        <3>2. CASE ~Missing(place) /\ Ahead(place) = {}
            <4>1. i \in rows
                BY <1>1, <2>2, <3>2, NotMissing
            <4>2. ~(log[i].seq <= v)
                BY <2>2, <3>2, <4>1 DEF Ahead, RowsOf, v
            <4> QED BY <1>2, <2>1, <4>2
        <3> QED BY <3>1, <3>2 DEF ChangeDue, v
    <2> QED BY <1>2, <2>2, <2>3 DEF Tells
<1> QED BY <1>3, <1>4, <1>5, <1>6, <1>7 DEF item

\* A gap: the snapshot has every subject shown that an event was about.
LEMMA GapTells ==
    ASSUME StoreInv, NEW place, Sound(place), NEW sees \in SUBSET Subject
    PROVE  /\ ~Before(After(StreamHead), place)
           /\ Within(GapItem(place, sees), place, After(StreamHead))
           /\ \A i \in DOMAIN log : log[i].subject \in sees => Tells(GapItem(place, sees), i)
<1> DEFINE item == GapItem(place, sees)
<1>1. place \in Position /\ place.epoch \in Nat /\ place.seq \in Nat /\ ValidCursor(place)
    BY DEF Sound, Position
<1>2. /\ item.type = "gap" /\ DOMAIN item.subjects = Snapshot(sees)
      /\ \A s \in Snapshot(sees) : s \in Subject /\ item.subjects[s] = rev[s]
    BY <1>1, GapIs
<1>3. ~Before(After(StreamHead), place)
    <2>1. Epoch \in Nat /\ LastSequence(Epoch) \in Nat
        BY EpochEnd
    <2> QED BY <1>1, <2>1, HeadIs DEF Before, ValidCursor
<1> HIDE DEF item
<1>4. Within(item, place, After(StreamHead))
    <2>1. \A s \in Subject : rev[s] \in Nat
        BY DEF StoreInv, Stored
    <2> QED BY <1>2, <2>1 DEF Within
<1>5. ASSUME NEW i \in DOMAIN log, log[i].subject \in sees PROVE Tells(item, i)
    <2> DEFINE s == log[i].subject
    <2>1. /\ s \in Subject /\ log[i].rev \in Nat /\ log[i].rev \in 1 .. rev[s]
          /\ s = Capabilities => log[i].rev >= 2
        BY PlaceType DEF StoreInv, Revised
    <2>2. rev[s] \in Nat
        BY <2>1 DEF StoreInv, Stored
    <2>3. s \in Snapshot(sees)
        BY <1>5, <2>1, <2>2 DEF Snapshot
    <2> QED BY <1>2, <2>1, <2>2, <2>3 DEF Tells
<1> QED BY <1>3, <1>4, <1>5 DEF item

-----------------------------------------------------------------------------
(* The loop of a read.                                                     *)

\* The rows that a read has passed.
Passed(p) == {i \in rows : Before(Place(i), p)}

AtEnd(p) == \A i \in DOMAIN log : Before(Place(i), p)

\* A read that has taken nothing is at the end, or has passed a row in each step;
\* `enough` says that there was room for a snapshot.
Ends(read, n, enough) ==
    read.items = <<>> /\ ~read.tooLarge =>
        IF read.open THEN Cardinality(Passed(read.at)) >= n ELSE enough => AtEnd(read.at)

\* What a step of a read is given: a limit and a budget, and whether there is room for
\* a snapshot.
Asked(limit, sees, budget, enough) ==
    /\ limit \in Nat \ {0} /\ sees \in SUBSET Subject /\ budget \in Nat
    /\ enough \in BOOLEAN /\ (enough => budget >= 1 + Cardinality(sees))

\* A read that stops.
LEMMA StopStep ==
    ASSUME NEW start, NEW shown, NEW n \in Nat, NEW enough,
           NEW read, ReadInv(read, start, shown), Ends(read, n, enough),
           read.open /\ read.items = <<>> /\ ~read.tooLarge /\ enough => AtEnd(read.at),
           NEW t \in Read, t.open = FALSE, t.at = read.at, t.items = read.items,
           t.used = read.used, t.tooLarge = read.tooLarge
    PROVE  ReadInv(t, start, shown) /\ Ends(t, n + 1, enough)
BY DEF ReadInv, Ends, Paid

\* A read that has come as far, with the same items.
Alike(like, read) ==
    /\ like \in Read /\ like.at = read.at /\ like.items = read.items
    /\ like.used = read.used /\ like.open = read.open /\ like.tooLarge = read.tooLarge

\* A read that takes the end of an epoch, or a gap.
LEMMA TakeStep ==
    ASSUME StoreInv, NEW start \in Position, NEW limit, NEW sees, NEW wants, NEW budget,
           NEW n \in Nat, NEW enough, Asked(limit, sees, budget, enough),
           NEW read, ReadInv(read, start, sees \cap wants), Ends(read, n, enough), read.open,
           NEW like, Alike(like, read),
           NEW item \in Item, Size(item) \in Nat, Size(item) >= 1, Size(item) <= 1 + Cardinality(sees),
           NEW next \in Position, Sound(next), ~Before(next, read.at), Within(item, read.at, next),
           \A i \in DOMAIN log :
               /\ ~Before(Place(i), read.at) /\ Before(Place(i), next)
               /\ log[i].subject \in sees \cap wants
               => Tells(item, i),
           NEW t, t = Take(like, budget, item, next)
    PROVE  ReadInv(t, start, sees \cap wants) /\ Ends(t, n + 1, enough)
<1> DEFINE shown == sees \cap wants
<1>1. /\ budget \in Nat /\ read \in Read /\ (read.items = <<>> => read.used = 0) /\ ~read.tooLarge
      /\ like \in Read /\ like.at = read.at /\ like.items = read.items
      /\ like.used = read.used /\ like.open = read.open /\ like.tooLarge = read.tooLarge
    BY DEF Asked, ReadInv, Alike, Paid
<1>2. t \in Read
    BY <1>1, TakeIs
<1>3. CASE like.used + Size(item) > budget
    <2>1. ASSUME read.items = <<>>, enough PROVE FALSE
        <3>1. IsFiniteSet(sees)
            BY StoreAssumption, FS_Subset DEF Asked
        <3>2. Cardinality(sees) \in Nat
            BY <3>1, FS_CardinalityType
        <3> QED BY <1>1, <1>3, <2>1, <3>2 DEF Asked
    <2>2. Stopped(t, like)
        BY <1>1, <1>3, TakeIs
    <2>3. /\ t.open = FALSE /\ t.at = read.at /\ t.items = read.items
          /\ t.used = read.used /\ t.tooLarge = read.tooLarge
        BY <1>1, <2>2 DEF Stopped
    <2> QED BY <1>2, <2>1, <2>3, StopStep
<1>4. CASE ~(like.used + Size(item) > budget)
    <2>1. Taken(t, like, item, next)
        BY <1>1, <1>4, TakeIs
    <2>2. t.at = next /\ t.items = Append(read.items, item) /\ t.used >= 1 /\ ~t.tooLarge
        BY <1>1, <2>1 DEF Taken, Read
    <2>3. /\ Sound(t.at) /\ ~Before(t.at, read.at) /\ Within(item, read.at, t.at)
          /\ \A i \in DOMAIN log :
                 ~Before(Place(i), read.at) /\ Before(Place(i), t.at) /\ log[i].subject \in shown
                    => Tells(item, i)
        BY <2>2
    <2> HIDE DEF shown
    <2>4. ReadInv(t, start, shown) /\ t.items # <<>>
        <3>1. ReadInv(read, start, shown)
            BY DEF shown
        <3> QED BY <1>2, <2>2, <2>3, <3>1, TakeKeeps
    <2> QED BY <2>4 DEF Ends, shown
<1> QED BY <1>3, <1>4

\* A read that takes the next event, or stops before one that does not fit.
LEMMA EventStep ==
    ASSUME StoreInv, NEW start \in Position, NEW limit, NEW sees, NEW wants, NEW budget,
           NEW n \in Nat, NEW enough, Asked(limit, sees, budget, enough),
           NEW read, ReadInv(read, start, sees \cap wants), Ends(read, n, enough), read.open,
           ~Missing(read.at), Ahead(read.at) # {},
           NEW t, t = TakeEvent(read, budget, First(read.at))
    PROVE  ReadInv(t, start, sees \cap wants) /\ Ends(t, n + 1, enough)
<1> DEFINE shown == sees \cap wants
           place == read.at
           f == First(place)
<1>1. /\ budget \in Nat /\ read \in Read /\ place \in Position /\ read.items \in Seq(Item)
      /\ place.epoch \in Nat /\ place.seq \in Nat /\ place.epoch >= 1 /\ place.epoch <= Epoch
    BY DEF Asked, ReadInv, Read, Position, Sound, ValidCursor
<1>13. read.used \in Nat /\ ~read.tooLarge /\ (read.items = <<>> <=> read.used = 0)
    BY DEF ReadInv, Read, Paid
<1>2. f \in DOMAIN log /\ log[f].epoch = place.epoch /\ log[f].seq >= place.seq /\ f \in RowsOf(place.epoch)
    BY <1>1, FirstIs
<1>3. /\ Place(f) \in Position /\ Place(f).epoch = place.epoch /\ Place(f).seq = log[f].seq
      /\ log[f].seq \in Nat
    BY <1>2, PlaceType DEF StoreInv
<1>4. log[f].epoch = Epoch => log[f].seq <= LastSequence(Epoch)
    BY <1>2, EpochEnd
<1>5. /\ After(Place(f)) \in Position
      /\ After(Place(f)).epoch = place.epoch /\ After(Place(f)).seq = log[f].seq + 1
    BY <1>1, <1>3 DEF After, Position
<1>6. LastSequence(Epoch) \in Nat
    BY EpochEnd
<1> HIDE DEF f
<1>7. Sound(Place(f)) /\ Sound(After(Place(f)))
    BY <1>1, <1>2, <1>3, <1>4, <1>5, <1>6 DEF Sound, ValidCursor
<1>8. /\ ~Before(Place(f), place) /\ ~Before(After(Place(f)), place) /\ Before(Place(f), After(Place(f)))
    BY <1>1, <1>2, <1>3, <1>5 DEF Before
<1>9. \A i \in DOMAIN log : ~Before(Place(i), place) =>
          ~Before(Place(i), Place(f)) /\ (Before(Place(i), After(Place(f))) => i = f)
    BY <1>1, NothingBefore DEF f
<1>10. EventItem(f) \in Item /\ Size(EventItem(f)) \in Nat /\ Size(EventItem(f)) >= 1
       /\ EventItem(f).type = "event" /\ EventItem(f).event = f
    BY <1>2, EventIs
<1>11. CASE read.used + Size(EventItem(f)) > budget
    <2>1. PICK none \in BOOLEAN : none = (read.items = <<>>)
        OBVIOUS
    <2>2. t = [read EXCEPT !.open = FALSE, !.at = Place(f), !.tooLarge = none]
        BY <1>11, <2>1 DEF TakeEvent, f
    <2>3. /\ t \in Read /\ t.at = Place(f) /\ t.items = read.items /\ t.used = read.used
          /\ t.tooLarge = none /\ t.open = FALSE /\ Paid(t)
        BY <1>1, <1>3, <1>13, <2>1, <2>2 DEF Read, Paid
    <2>4. ReadInv(t, start, shown)
        BY <1>7, <1>8, <1>9, <2>3, PassKeeps
    <2> QED BY <2>1, <2>3, <2>4 DEF Ends
<1>12. CASE ~(read.used + Size(EventItem(f)) > budget)
    <2>1. t = Take(read, budget, EventItem(f), After(Place(f)))
        BY <1>12 DEF TakeEvent, f
    <2>2. /\ t \in Read /\ t.at = After(Place(f)) /\ t.items = Append(read.items, EventItem(f))
          /\ t.used >= 1 /\ ~t.tooLarge
        <3> DEFINE next == After(Place(f))
                   item == EventItem(f)
        <3>1. /\ next \in Position /\ item \in Item /\ Size(item) \in Nat /\ Size(item) >= 1
              /\ ~(read.used + Size(item) > budget) /\ t = Take(read, budget, item, next)
            BY <1>5, <1>10, <1>12, <2>1
        <3> HIDE DEF next, item
        <3>2. t \in Read /\ Taken(t, read, item, next)
            BY <1>1, <3>1, TakeIs
        <3>3. t.used >= 1 /\ ~t.tooLarge
            BY <1>13, <3>1, <3>2 DEF Taken
        <3> QED BY <3>2, <3>3 DEF Taken, next, item
    <2>3. Within(EventItem(f), place, After(Place(f)))
        BY <1>2, <1>8, <1>10 DEF Within
    <2>4. \A i \in DOMAIN log :
              ~Before(Place(i), place) /\ Before(Place(i), t.at) => Tells(EventItem(f), i)
        BY <1>9, <1>10, <2>2 DEF Tells
    <2>5. ReadInv(t, start, shown) /\ t.items # <<>>
        BY <1>7, <1>8, <1>10, <2>2, <2>3, <2>4, TakeKeeps
    <2> QED BY <2>5 DEF Ends
<1> QED BY <1>11, <1>12

\* The table is finite, and so is what a read has passed of it.
LEMMA PassedFinite ==
    ASSUME StoreInv
    PROVE  /\ IsFiniteSet(rows) /\ Cardinality(rows) \in Nat
           /\ \A p : /\ IsFiniteSet(Passed(p)) /\ Cardinality(Passed(p)) \in Nat
                     /\ Cardinality(Passed(p)) <= Cardinality(rows)
<1>1. IsFiniteSet(rows)
    <2>1. rows \subseteq 1 .. Len(log) /\ Len(log) \in Nat
        BY DEF StoreInv, Stored
    <2>2. IsFiniteSet(1 .. Len(log))
        BY <2>1, FS_Interval
    <2> QED BY <2>1, <2>2, FS_Subset
<1>2. ASSUME NEW p
      PROVE  /\ IsFiniteSet(Passed(p)) /\ Cardinality(Passed(p)) \in Nat
             /\ Cardinality(Passed(p)) <= Cardinality(rows)
    <2>1. Passed(p) \in SUBSET rows
        BY DEF Passed
    <2>2. IsFiniteSet(Passed(p)) /\ Cardinality(Passed(p)) <= Cardinality(rows)
        BY <1>1, <2>1, FS_Subset
    <2> QED BY <2>2, FS_CardinalityType
<1> QED BY <1>1, <1>2, FS_CardinalityType

\* A read that passes over an event that is not shown has passed one more row.
LEMMA PassStep ==
    ASSUME StoreInv, NEW start \in Position, NEW shown,
           NEW n \in Nat, NEW enough,
           NEW read, ReadInv(read, start, shown), Ends(read, n, enough), read.open,
           ~Missing(read.at), Ahead(read.at) # {}, log[First(read.at)].subject \notin shown,
           NEW t, t = [read EXCEPT !.at = After(Place(First(read.at))), !.filtered = TRUE]
    PROVE  ReadInv(t, start, shown) /\ Ends(t, n + 1, enough)
<1> DEFINE place == read.at
           f == First(place)
           next == After(Place(f))
<1>1. /\ read \in Read /\ place \in Position
      /\ place.epoch \in Nat /\ place.seq \in Nat /\ place.epoch >= 1 /\ place.epoch <= Epoch
    BY DEF ReadInv, Read, Position, Sound, ValidCursor
<1>2. f \in DOMAIN log /\ log[f].epoch = place.epoch /\ log[f].seq >= place.seq /\ f \in RowsOf(place.epoch)
    BY <1>1, FirstIs
<1>3. /\ Place(f) \in Position /\ Place(f).epoch = place.epoch /\ Place(f).seq = log[f].seq
      /\ log[f].seq \in Nat
    BY <1>2, PlaceType DEF StoreInv
<1>4. log[f].epoch = Epoch => log[f].seq <= LastSequence(Epoch)
    BY <1>2, EpochEnd
<1>5. next \in Position /\ next.epoch = place.epoch /\ next.seq = log[f].seq + 1
    BY <1>1, <1>3 DEF After, Position
<1>6. LastSequence(Epoch) \in Nat
    BY EpochEnd
<1>7. \A i \in DOMAIN log : ~Before(Place(i), place) => (Before(Place(i), next) => i = f)
    BY <1>1, NothingBefore
<1>8. t = [read EXCEPT !.at = next, !.filtered = TRUE]
    OBVIOUS
<1> HIDE DEF f, next
<1>9. Sound(next)
    BY <1>1, <1>2, <1>3, <1>4, <1>5, <1>6 DEF Sound, ValidCursor
<1>10. ~Before(Place(f), place) /\ ~Before(next, place) /\ Before(Place(f), next)
    BY <1>1, <1>2, <1>3, <1>5 DEF Before
<1>11. /\ t \in Read /\ t.at = next /\ t.items = read.items /\ t.used = read.used
       /\ t.open = read.open /\ t.tooLarge = read.tooLarge
    BY <1>1, <1>5, <1>8 DEF Read
<1>12. ReadInv(t, start, shown)
    <2>1. Paid(t)
        BY <1>11 DEF ReadInv, Paid
    <2> QED BY <1>7, <1>9, <1>10, <1>11, <2>1, PassKeeps DEF f
<1>13. Cardinality(Passed(next)) >= Cardinality(Passed(place)) + 1
       /\ Cardinality(Passed(next)) \in Nat /\ Cardinality(Passed(place)) \in Nat
    <2>1. IsFiniteSet(rows) /\ IsFiniteSet(Passed(next)) /\ IsFiniteSet(Passed(place))
        BY PassedFinite
    <2>3. f \in rows /\ f \notin Passed(place)
        BY <1>2, <1>10 DEF Passed, RowsOf
    <2>4. Passed(place) \cup {f} \in SUBSET Passed(next)
        <3>1. ASSUME NEW i \in rows, Before(Place(i), place) PROVE Before(Place(i), next)
            <4>1. Place(i) \in Position
                BY PlaceType DEF StoreInv, Stored
            <4> QED BY <1>1, <1>5, <1>10, <3>1, <4>1, BeforeTransitive
        <3> QED BY <1>10, <2>3, <3>1 DEF Passed
    <2>5. Cardinality(Passed(place) \cup {f}) = Cardinality(Passed(place)) + 1
        BY <2>1, <2>3, FS_AddElement
    <2>6. Cardinality(Passed(place) \cup {f}) <= Cardinality(Passed(next))
        BY <2>1, <2>4, FS_Subset
    <2>7. Cardinality(Passed(next)) \in Nat /\ Cardinality(Passed(place)) \in Nat
        BY <2>1, FS_CardinalityType
    <2> QED BY <2>5, <2>6, <2>7
<1> HIDE DEF place
<1>14. Ends(t, n + 1, enough)
    <2> SUFFICES ASSUME t.items = <<>>, ~t.tooLarge PROVE Cardinality(Passed(t.at)) >= n + 1
        BY <1>11 DEF Ends
    <2>1. Cardinality(Passed(place)) >= n
        BY <1>11 DEF Ends, place
    <2> QED BY <1>11, <1>13, <2>1
<1> QED BY <1>12, <1>14

\* A step of a read.
LEMMA ReadStep ==
    ASSUME StoreInv, NEW start \in Position, NEW limit, NEW sees, NEW wants, NEW budget,
           NEW n \in Nat, NEW enough, Asked(limit, sees, budget, enough),
           NEW read, ReadInv(read, start, sees \cap wants), Ends(read, n, enough),
           NEW t, t = ReadItem(read, limit, sees, wants, budget)
    PROVE  ReadInv(t, start, sees \cap wants) /\ Ends(t, n + 1, enough)
<1> DEFINE place == read.at
           shown == sees \cap wants
<1>1. /\ read \in Read /\ Sound(place) /\ place \in Position /\ place.epoch \in Nat /\ place.seq \in Nat
      /\ place.epoch >= 1 /\ place.epoch <= Epoch /\ sees \in SUBSET Subject
      /\ read.items \in Seq(Item) /\ read.used \in Nat /\ read.open \in BOOLEAN
      /\ budget \in Nat /\ Cardinality(sees) \in Nat
    <2>1. IsFiniteSet(sees)
        BY StoreAssumption, FS_Subset DEF Asked
    <2>2. Cardinality(sees) \in Nat
        BY <2>1, FS_CardinalityType
    <2> QED BY <2>2 DEF ReadInv, Read, Sound, Position, ValidCursor, Asked
<1>2. CASE /\ t = [read EXCEPT !.open = FALSE]
           /\ read.open /\ read.items = <<>> /\ ~read.tooLarge /\ enough => AtEnd(read.at)
    <2>1. /\ t \in Read /\ t.at = read.at /\ t.items = read.items /\ t.used = read.used
          /\ t.open = FALSE /\ t.tooLarge = read.tooLarge
        BY <1>1, <1>2 DEF Read
    <2> QED BY <1>2, <2>1, StopStep
<1>3. CASE /\ ~read.open \/ place.epoch > Epoch \/ Len(read.items) >= limit
           /\ t = [read EXCEPT !.open = FALSE]
    <2>1. ~(read.open /\ read.items = <<>>)
        BY <1>1, <1>3, EpochEnd DEF Asked
    <2> QED BY <1>2, <1>3, <2>1
<1>4. CASE read.open /\ ChangeDue(place) /\ t = Take(read, budget, ChangeItem(place.epoch), NextEpoch(place))
    <2>1. ChangeItem(place.epoch) \in Item /\ Size(ChangeItem(place.epoch)) = 1
        BY <1>1, <1>4, ChangeIs DEF ChangeDue
    <2>2. 1 <= 1 + Cardinality(sees)
        BY <1>1
    <2>3. /\ NextEpoch(place) \in Position /\ Sound(NextEpoch(place)) /\ ~Before(NextEpoch(place), place)
          /\ Within(ChangeItem(place.epoch), place, NextEpoch(place))
          /\ \A i \in DOMAIN log :
                 ~Before(Place(i), place) /\ Before(Place(i), NextEpoch(place)) => Tells(ChangeItem(place.epoch), i)
        BY <1>1, <1>4, ChangeTells
    <2> DEFINE item == ChangeItem(place.epoch)
               next == NextEpoch(place)
    <2>4. /\ item \in Item /\ Size(item) \in Nat /\ Size(item) >= 1 /\ Size(item) <= 1 + Cardinality(sees)
          /\ next \in Position /\ Sound(next) /\ ~Before(next, read.at)
          /\ Within(item, read.at, next) /\ t = Take(read, budget, item, next)
          /\ \A i \in DOMAIN log :
                 ~Before(Place(i), read.at) /\ Before(Place(i), next) => Tells(item, i)
        BY <1>4, <2>1, <2>2, <2>3
    <2>5. Alike(read, read)
        BY <1>1 DEF Alike
    <2> HIDE DEF item, next
    <2> QED BY <1>1, <1>4, <2>4, <2>5, TakeStep
<1>5. CASE /\ read.open
           /\ t = Take([read EXCEPT !.filtered = @ \/ Snapshot(sees) # Snapshot(Subject)],
                       budget, GapItem(place, sees), After(StreamHead))
    <2>1. PICK filtered \in BOOLEAN : filtered = (read.filtered \/ Snapshot(sees) # Snapshot(Subject))
        OBVIOUS
    <2>2. PICK like : like = [read EXCEPT !.filtered = filtered]
        OBVIOUS
    <2>3. /\ like \in Read /\ like.at = read.at /\ like.items = read.items /\ like.used = read.used
          /\ like.open = read.open /\ like.tooLarge = read.tooLarge
        BY <1>1, <2>1, <2>2 DEF Read
    <2>4. t = Take(like, budget, GapItem(place, sees), After(StreamHead))
        BY <1>5, <2>1, <2>2
    <2>5. /\ GapItem(place, sees) \in Item /\ Size(GapItem(place, sees)) \in Nat
          /\ Size(GapItem(place, sees)) >= 1
          /\ Size(GapItem(place, sees)) <= 1 + Cardinality(sees)
        BY <1>1, GapIs
    <2>6. /\ ~Before(After(StreamHead), place) /\ Within(GapItem(place, sees), place, After(StreamHead))
          /\ \A i \in DOMAIN log : log[i].subject \in sees => Tells(GapItem(place, sees), i)
        BY <1>1, GapTells
    <2>7. After(StreamHead) \in Position /\ Sound(After(StreamHead))
        BY HeadIs
    <2>8. \A i \in DOMAIN log :
              /\ ~Before(Place(i), place) /\ Before(Place(i), After(StreamHead))
              /\ log[i].subject \in shown
              => Tells(GapItem(place, sees), i)
        BY <2>6
    <2> DEFINE item == GapItem(place, sees)
               next == After(StreamHead)
    <2>9. /\ item \in Item /\ Size(item) \in Nat /\ Size(item) >= 1 /\ Size(item) <= 1 + Cardinality(sees)
          /\ next \in Position /\ Sound(next) /\ ~Before(next, read.at)
          /\ Within(item, read.at, next) /\ t = Take(like, budget, item, next)
          /\ \A i \in DOMAIN log :
                 /\ ~Before(Place(i), read.at) /\ Before(Place(i), next)
                 /\ log[i].subject \in sees \cap wants
                 => Tells(item, i)
        BY <2>4, <2>5, <2>6, <2>7, <2>8
    <2>10. Alike(like, read)
        BY <2>3 DEF Alike
    <2> HIDE DEF item, next, place, shown
    <2> QED BY <1>5, <2>9, <2>10, TakeStep
<1>6. CASE /\ ~Missing(place) /\ Ahead(place) # {} /\ read.open
           /\ IF log[First(place)].subject \in sees \cap wants
              THEN t = TakeEvent(read, budget, First(place))
              ELSE t = [read EXCEPT !.at = After(Place(First(place))), !.filtered = TRUE]
    <2>1. CASE log[First(place)].subject \in sees \cap wants
        <3>1. t = TakeEvent(read, budget, First(read.at))
            BY <1>6, <2>1
        <3>2. ~Missing(read.at) /\ Ahead(read.at) # {}
            BY <1>6
        <3> QED BY <1>6, <3>1, <3>2, EventStep
    <2>2. CASE log[First(place)].subject \notin sees \cap wants
        BY <1>6, <2>2, PassStep
    <2> QED BY <2>1, <2>2
<1>7. CASE /\ ~Closed(place.epoch) /\ ~Missing(place) /\ Ahead(place) = {}
           /\ t = [read EXCEPT !.open = FALSE]
    <2>1. AtEnd(place)
        <3> SUFFICES ASSUME NEW i \in DOMAIN log, ~Before(Place(i), place) PROVE FALSE
            BY DEF AtEnd
        <3>1. /\ Place(i).epoch = log[i].epoch /\ Place(i).seq = log[i].seq
              /\ log[i].epoch \in Nat /\ log[i].seq \in Nat /\ log[i].epoch <= Epoch
            BY PlaceType DEF StoreInv, Ordered
        <3>2. place.epoch = Epoch
            BY <1>1, <1>7, EpochEnd DEF Closed
        <3>3. log[i].epoch = place.epoch /\ log[i].seq >= place.seq
            BY <1>1, <3>1, <3>2 DEF Before
        <3>4. i \in rows
            BY <1>1, <1>7, <3>3, NotMissing
        <3> QED BY <1>7, <3>3, <3>4 DEF Ahead, RowsOf
    <2> QED BY <1>2, <1>7, <2>1
<1> DEFINE change == Take(read, budget, ChangeItem(place.epoch), NextEpoch(place))
           gap == Take([read EXCEPT !.filtered = @ \/ Snapshot(sees) # Snapshot(Subject)],
                       budget, GapItem(place, sees), After(StreamHead))
           stop == [read EXCEPT !.open = FALSE]
           take == TakeEvent(read, budget, First(place))
           pass == [read EXCEPT !.at = After(Place(First(place))), !.filtered = TRUE]
<1>8. t = IF ~read.open \/ place.epoch > Epoch \/ Len(read.items) >= limit THEN stop
          ELSE IF Closed(place.epoch) /\ place.seq > vouched[place.epoch] THEN change
          ELSE IF Missing(place) THEN gap
          ELSE IF Ahead(place) # {}
          THEN IF log[First(place)].subject \in sees \cap wants THEN take ELSE pass
          ELSE IF Closed(place.epoch) THEN change
          ELSE stop
    BY Zenon DEF ReadItem, First, NextEpoch
<1> HIDE DEF change, gap, stop, take, pass, place
<1>9. \/ /\ ~read.open \/ place.epoch > Epoch \/ Len(read.items) >= limit
         /\ t = stop
      \/ read.open /\ ChangeDue(place) /\ t = change
      \/ read.open /\ t = gap
      \/ /\ ~Missing(place) /\ Ahead(place) # {} /\ read.open
         /\ IF log[First(place)].subject \in sees \cap wants THEN t = take ELSE t = pass
      \/ ~Closed(place.epoch) /\ ~Missing(place) /\ Ahead(place) = {} /\ t = stop
    BY <1>8, Zenon DEF ChangeDue
<1> QED BY <1>3, <1>4, <1>5, <1>6, <1>7, <1>9, Zenon DEF change, gap, stop, take, pass

-----------------------------------------------------------------------------
(* A whole read.                                                           *)

Begin(start) ==
    [at |-> start, items |-> <<>>, used |-> 0, open |-> TRUE,
     filtered |-> FALSE, tooLarge |-> FALSE]

\* f[k] is a read from `start` after k steps, for k up to n.
IsRead(f, n, start, limit, sees, wants, budget) ==
    f = [k \in 0 .. n |-> IF k = 0 THEN Begin(start)
                          ELSE ReadItem(f[k - 1], limit, sees, wants, budget)]

Steps == Cardinality(rows) + Epoch + 2

\* read_events is such a read after enough steps.
LEMMA ReadIs ==
    ASSUME NEW start, NEW limit, NEW sees, NEW wants, NEW budget
    PROVE  ReadEvents(start, limit, sees, wants, budget)
               = (CHOOSE f : IsRead(f, Steps, start, limit, sees, wants, budget))[Steps]
BY Zenon DEF ReadEvents, IsRead, Begin, Steps

\* A read may take any number of steps.
LEMMA ReadRuns ==
    ASSUME NEW n \in Nat, NEW start, NEW limit, NEW sees, NEW wants, NEW budget
    PROVE  \E f : IsRead(f, n, start, limit, sees, wants, budget)
<1> DEFINE Runs(m) == \E f : IsRead(f, m, start, limit, sees, wants, budget)
           S == {m \in Nat : ~Runs(m)}
<1> SUFFICES ASSUME S # {} PROVE FALSE
    OBVIOUS
<1>1. PICK m \in S : \A k \in S : m <= k
    <2> HIDE DEF Runs
    <2> QED BY SmallestOf
<1>2. m \in Nat /\ ~Runs(m)
    OBVIOUS
<1>3. CASE m = 0
    <2> DEFINE f == [k \in 0 .. 0 |-> Begin(start)]
    <2>1. f = [k \in 0 .. 0 |-> IF k = 0 THEN Begin(start)
                                ELSE ReadItem(f[k - 1], limit, sees, wants, budget)]
        OBVIOUS
    <2> HIDE DEF f
    <2>2. IsRead(f, 0, start, limit, sees, wants, budget)
        BY <2>1, Zenon DEF IsRead
    <2> QED BY <1>2, <1>3, <2>2
<1>4. CASE m # 0
    <2>1. m - 1 \in Nat /\ m - 1 \notin S
        BY <1>1, <1>2, <1>4
    <2>2. PICK f : IsRead(f, m - 1, start, limit, sees, wants, budget)
        BY <2>1
    <2> DEFINE last == ReadItem(f[m - 1], limit, sees, wants, budget)
               g == [k \in 0 .. m |-> IF k = m THEN last ELSE f[k]]
    <2>3. \A k \in 0 .. m - 1 : f[k] = IF k = 0 THEN Begin(start)
                                       ELSE ReadItem(f[k - 1], limit, sees, wants, budget)
        BY <2>2 DEF IsRead
    <2>4. ASSUME NEW k \in 0 .. m
          PROVE  g[k] = IF k = 0 THEN Begin(start)
                        ELSE ReadItem(g[k - 1], limit, sees, wants, budget)
        <3>1. CASE k = m
            <4>1. g[k] = last /\ g[k - 1] = f[m - 1]
                BY <1>2, <1>4, <3>1
            <4> HIDE DEF g
            <4> QED BY <1>4, <3>1, <4>1
        <3>2. CASE k # m
            <4>1. k \in 0 .. m - 1
                BY <1>2, <3>2
            <4>2. g[k] = f[k]
                BY <3>2
            <4>3. k # 0 => g[k - 1] = f[k - 1]
                BY <1>2, <3>2
            <4> HIDE DEF g
            <4> QED BY <2>3, <4>1, <4>2, <4>3
        <3> QED BY <3>1, <3>2
    <2>5. g = [k \in 0 .. m |-> g[k]]
        OBVIOUS
    <2> HIDE DEF g
    <2>6. g = [k \in 0 .. m |-> IF k = 0 THEN Begin(start)
                                ELSE ReadItem(g[k - 1], limit, sees, wants, budget)]
        BY <2>4, <2>5
    <2>7. IsRead(g, m, start, limit, sees, wants, budget)
        BY <2>6, Zenon DEF IsRead
    <2> QED BY <1>2, <2>7
<1> QED BY <1>3, <1>4

\* Before its first step.
LEMMA BeginStep ==
    ASSUME StoreInv, NEW start, Sound(start), NEW shown, NEW enough
    PROVE  ReadInv(Begin(start), start, shown) /\ Ends(Begin(start), 0, enough)
<1> DEFINE t == Begin(start)
<1>1. start \in Position
    BY DEF Sound
<1>2. /\ t \in Read /\ t.at = start /\ t.items = <<>> /\ t.used = 0 /\ t.open = TRUE /\ t.tooLarge = FALSE
    <2>1. <<>> \in Seq(Item)
        OBVIOUS
    <2> QED BY <1>1, <2>1 DEF Begin, Read
<1> HIDE DEF t
<1>3. ~Before(start, start) /\ \A i \in DOMAIN log : ~(~Before(Place(i), start) /\ Before(Place(i), start))
    BY <1>1, BeforeOrder
<1>4. ReadInv(t, start, shown)
    <2>1. DOMAIN t.items = {}
        BY <1>2
    <2> QED BY <1>2, <1>3, <2>1 DEF ReadInv, InOrder, Paid
<1>5. Cardinality(Passed(start)) >= 0
    BY PassedFinite
<1> QED BY <1>2, <1>4, <1>5 DEF Ends, t

\* What a whole read returns.  With room for a snapshot, nothing is the end.
LEMMA ReadIsWhole ==
    ASSUME StoreInv, NEW start, Sound(start), NEW limit, NEW sees, NEW wants, NEW budget,
           NEW enough, Asked(limit, sees, budget, enough),
           NEW read, read = ReadEvents(start, limit, sees, wants, budget)
    PROVE  /\ ReadInv(read, start, sees \cap wants)
           /\ read.items = <<>> /\ ~read.tooLarge /\ enough => AtEnd(read.at)
<1> DEFINE shown == sees \cap wants
           n == Steps
<1>1. n \in Nat /\ Cardinality(rows) \in Nat /\ n > Cardinality(rows)
    BY PassedFinite, EpochEnd DEF Steps
<1>2. PICK f : IsRead(f, n, start, limit, sees, wants, budget) /\ read = f[n]
    <2> HIDE DEF n
    <2> DEFINE f == CHOOSE f : IsRead(f, n, start, limit, sees, wants, budget)
    <2>1. \E g : IsRead(g, n, start, limit, sees, wants, budget)
        BY <1>1, ReadRuns
    <2>2. IsRead(f, n, start, limit, sees, wants, budget)
        BY <2>1, Zenon
    <2>3. read = f[n]
        BY ReadIs, Zenon DEF n
    <2> QED BY <2>2, <2>3, Zenon
<1> HIDE DEF n
<1>3. \A k \in 0 .. n : f[k] = IF k = 0 THEN Begin(start)
                               ELSE ReadItem(f[k - 1], limit, sees, wants, budget)
    BY <1>2 DEF IsRead
<1> DEFINE Good(k) == ReadInv(f[k], start, shown) /\ Ends(f[k], k, enough)
           S == {k \in 0 .. n : ~Good(k)}
<1>4. S = {}
    <2> SUFFICES ASSUME S # {} PROVE FALSE
        OBVIOUS
    <2>1. PICK m \in S : \A k \in S : m <= k
        <3>1. S \in SUBSET Nat
            OBVIOUS
        <3> HIDE DEF S
        <3> QED BY <3>1, SmallestOf
    <2>2. m \in 0 .. n /\ ~Good(m)
        OBVIOUS
    <2>3. CASE m = 0
        <3>1. f[m] = Begin(start)
            BY <1>3, <2>2, <2>3
        <3> QED BY <2>2, <2>3, <3>1, BeginStep
    <2>4. CASE m # 0
        <3> DEFINE was == f[m - 1]
                   t == f[m]
                   k == m - 1
        <3>1. k \in Nat /\ k \in 0 .. n /\ k + 1 = m /\ ~(m <= k)
            BY <1>1, <2>2, <2>4
        <3>2. Good(k)
            <4>1. k \notin S
                <5> HIDE DEF S
                <5> QED BY <2>1, <3>1
            <4> HIDE DEF Good
            <4> QED BY <3>1, <4>1
        <3>3. t = ReadItem(was, limit, sees, wants, budget)
            BY <1>3, <2>2, <2>4
        <3>4. ReadInv(was, start, sees \cap wants) /\ Ends(was, k, enough)
            BY <3>2
        <3>5. start \in Position
            BY DEF Sound
        <3> HIDE DEF was, t, k
        <3>6. ReadInv(t, start, sees \cap wants) /\ Ends(t, k + 1, enough)
            BY <3>1, <3>3, <3>4, <3>5, ReadStep
        <3> QED BY <2>2, <3>1, <3>6 DEF t
    <2> QED BY <2>3, <2>4
<1>5. ReadInv(read, start, shown) /\ Ends(read, n, enough)
    <2>1. n \in 0 .. n
        BY <1>1
    <2>2. Good(n)
        <3> HIDE DEF Good
        <3> QED BY <1>4, <2>1
    <2> QED BY <1>2, <2>2
<1>6. ASSUME read.items = <<>>, ~read.tooLarge, enough PROVE AtEnd(read.at)
    <2>1. Cardinality(Passed(read.at)) <= Cardinality(rows) /\ Cardinality(Passed(read.at)) \in Nat
        BY PassedFinite
    <2> QED BY <1>1, <1>5, <1>6, <2>1 DEF Ends
<1> QED BY <1>5, <1>6

-----------------------------------------------------------------------------
(* The events of an answer.                                                *)

\* f[k] is the events of the first k items, for k up to n.
IsGiven(f, n, items) ==
    f = [k \in 0 .. n |->
            IF k = 0 THEN << >>
            ELSE IF items[k].type = "event" THEN Append(f[k - 1], items[k].event)
            ELSE f[k - 1]]

\* Given is that, of all items.
LEMMA GivenIs ==
    ASSUME NEW items
    PROVE  Given(items) = (CHOOSE f : IsGiven(f, Len(items), items))[Len(items)]
BY Zenon DEF Given, IsGiven

\* There is one, for any number of items.
LEMMA GivenRuns ==
    ASSUME NEW n \in Nat, NEW items
    PROVE  \E f : IsGiven(f, n, items)
<1> DEFINE Runs(m) == \E f : IsGiven(f, m, items)
           S == {m \in Nat : ~Runs(m)}
<1> SUFFICES ASSUME S # {} PROVE FALSE
    OBVIOUS
<1>1. PICK m \in S : \A k \in S : m <= k
    <2> HIDE DEF Runs
    <2> QED BY SmallestOf
<1>2. m \in Nat /\ ~Runs(m)
    OBVIOUS
<1>3. CASE m = 0
    <2> DEFINE f == [k \in 0 .. 0 |-> << >>]
    <2>1. f = [k \in 0 .. 0 |->
                  IF k = 0 THEN << >>
                  ELSE IF items[k].type = "event" THEN Append(f[k - 1], items[k].event)
                  ELSE f[k - 1]]
        OBVIOUS
    <2> HIDE DEF f
    <2>2. IsGiven(f, 0, items)
        BY <2>1, Zenon DEF IsGiven
    <2> QED BY <1>2, <1>3, <2>2
<1>4. CASE m # 0
    <2>1. m - 1 \in Nat /\ m - 1 \notin S
        BY <1>1, <1>2, <1>4
    <2>2. PICK f : IsGiven(f, m - 1, items)
        BY <2>1
    <2> DEFINE last == IF items[m].type = "event" THEN Append(f[m - 1], items[m].event)
                       ELSE f[m - 1]
               g == [k \in 0 .. m |-> IF k = m THEN last ELSE f[k]]
               More(h, k) == IF k = 0 THEN << >>
                              ELSE IF items[k].type = "event" THEN Append(h[k - 1], items[k].event)
                              ELSE h[k - 1]
    <2>3. \A k \in 0 .. m - 1 : f[k] = More(f, k)
        BY <2>2 DEF IsGiven
    <2>4. ASSUME NEW k \in 0 .. m PROVE g[k] = More(g, k)
        <3>1. CASE k = m
            <4>1. g[k] = last /\ g[k - 1] = f[m - 1]
                BY <1>2, <1>4, <3>1
            <4> HIDE DEF g
            <4> QED BY <1>4, <3>1, <4>1
        <3>2. CASE k # m
            <4>1. k \in 0 .. m - 1
                BY <1>2, <3>2
            <4>2. g[k] = f[k]
                BY <3>2
            <4>3. k # 0 => g[k - 1] = f[k - 1]
                BY <1>2, <3>2
            <4> HIDE DEF g
            <4> QED BY <2>3, <4>1, <4>2, <4>3
        <3> QED BY <3>1, <3>2
    <2>5. g = [k \in 0 .. m |-> g[k]]
        OBVIOUS
    <2> HIDE DEF g
    <2>6. g = [k \in 0 .. m |-> More(g, k)]
        BY <2>4, <2>5
    <2>7. IsGiven(g, m, items)
        BY <2>6, Zenon DEF IsGiven
    <2> QED BY <1>2, <2>7
<1> QED BY <1>3, <1>4

\* The events of the first n items, in order.
Gives(events, items, n) ==
    /\ events \in Seq(Nat)
    /\ \A j \in DOMAIN events :
           \E k \in 1 .. n : items[k].type = "event" /\ items[k].event = events[j]
    /\ \A k \in 1 .. n :
           items[k].type = "event" => \E j \in DOMAIN events : events[j] = items[k].event
    /\ \A j, k \in DOMAIN events : j < k => events[j] < events[k]

\* One more item.
LEMMA GivesMore ==
    ASSUME NEW items \in Seq(Item), InOrder(items),
           NEW n \in 1 .. Len(items), NEW was, Gives(was, items, n - 1),
           NEW events,
           events = IF items[n].type = "event" THEN Append(was, items[n].event) ELSE was
    PROVE  Gives(events, items, n)
<1>1. was \in Seq(Nat) /\ n \in Nat /\ n \in DOMAIN items /\ items[n] \in Item
    BY DEF Gives
<1>2. CASE items[n].type = "event"
    <2>1. PICK e : e = items[n].event
        OBVIOUS
    <2> DEFINE l == Len(was)
    <2>2. e \in Nat
        BY <1>1, <1>2, <2>1 DEF Item
    <2>3. /\ events = Append(was, e) /\ l \in Nat
          /\ events \in Seq(Nat) /\ DOMAIN events = 1 .. l + 1 /\ DOMAIN was = 1 .. l
          /\ \A j \in 1 .. l : events[j] = was[j]
          /\ events[l + 1] = e
        BY <1>1, <1>2, <2>1, <2>2
    <2> HIDE DEF l
    <2>4. ASSUME NEW j \in 1 .. l + 1
          PROVE  \E k \in 1 .. n : items[k].type = "event" /\ items[k].event = events[j]
        <3>1. CASE j \in 1 .. l
            <4>1. PICK k \in 1 .. n - 1 : items[k].type = "event" /\ items[k].event = was[j]
                BY <2>3, <3>1 DEF Gives
            <4>2. k \in 1 .. n
                BY <1>1
            <4> QED BY <2>3, <3>1, <4>1, <4>2
        <3>2. CASE j = l + 1
            <4>1. n \in 1 .. n
                BY <1>1
            <4> QED BY <1>2, <2>1, <2>3, <3>2, <4>1
        <3> QED BY <2>3, <3>1, <3>2
    <2>5. ASSUME NEW k \in 1 .. n, items[k].type = "event"
          PROVE  \E j \in 1 .. l + 1 : events[j] = items[k].event
        <3>1. CASE k \in 1 .. n - 1
            <4>1. \E j \in DOMAIN was : was[j] = items[k].event
                BY <2>5, <3>1 DEF Gives
            <4>2. PICK j \in 1 .. l : was[j] = items[k].event
                BY <2>3, <4>1
            <4>3. j \in 1 .. l + 1 /\ events[j] = was[j]
                BY <2>3
            <4> QED BY <4>2, <4>3
        <3>2. CASE k = n
            <4>1. l + 1 \in 1 .. l + 1
                BY <2>3
            <4> QED BY <2>1, <2>3, <3>2, <4>1
        <3>3. k \in 1 .. n - 1 \/ k = n
            BY <1>1
        <3> QED BY <3>1, <3>2, <3>3, Zenon
    <2>6. ASSUME NEW j \in 1 .. l + 1, NEW k \in 1 .. l + 1, j < k PROVE events[j] < events[k]
        <3>1. CASE k \in 1 .. l
            <4>1. j \in 1 .. l
                BY <2>3, <2>6, <3>1
            <4> QED BY <2>3, <2>6, <3>1, <4>1 DEF Gives
        <3>2. CASE k = l + 1
            <4>1. j \in 1 .. l
                BY <2>3, <2>6, <3>2
            <4>2. PICK i \in 1 .. n - 1 : items[i].type = "event" /\ items[i].event = was[j]
                BY <2>3, <4>1 DEF Gives
            <4>3. i \in DOMAIN items /\ i < n
                BY <1>1
            <4>4. items[i].event < items[n].event
                BY <1>1, <1>2, <4>2, <4>3 DEF InOrder
            <4> QED BY <2>1, <2>3, <3>2, <4>1, <4>2, <4>4
        <3> QED BY <2>3, <3>1, <3>2
    <2> QED BY <2>3, <2>4, <2>5, <2>6 DEF Gives
<1>3. CASE items[n].type # "event"
    <2>1. events = was
        BY <1>3
    <2>2. \A k \in 1 .. n : items[k].type = "event" => k \in 1 .. n - 1
        BY <1>1, <1>3
    <2>3. \A k \in 1 .. n - 1 : k \in 1 .. n
        BY <1>1
    <2> QED BY <2>1, <2>2, <2>3 DEF Gives
<1> QED BY <1>2, <1>3

\* The events that an answer gives are those of its items, in their order.
LEMMA GivenGives ==
    ASSUME NEW items \in Seq(Item), InOrder(items)
    PROVE  Gives(Given(items), items, Len(items))
<1> DEFINE n == Len(items)
<1>1. n \in Nat
    OBVIOUS
<1>2. PICK f : IsGiven(f, n, items) /\ Given(items) = f[n]
    <2> DEFINE f == CHOOSE f : IsGiven(f, n, items)
    <2>1. Given(items) = f[n]
        BY GivenIs, Zenon
    <2> HIDE DEF n
    <2>2. \E g : IsGiven(g, n, items)
        BY <1>1, GivenRuns
    <2>3. IsGiven(f, n, items)
        BY <2>2, Zenon
    <2> QED BY <2>1, <2>3, Zenon
<1> DEFINE Good(k) == Gives(f[k], items, k)
           S == {k \in 0 .. n : ~Good(k)}
<1>3. \A k \in 0 .. n : f[k] = IF k = 0 THEN << >>
                               ELSE IF items[k].type = "event" THEN Append(f[k - 1], items[k].event)
                               ELSE f[k - 1]
    BY <1>2 DEF IsGiven
<1>4. S = {}
    <2> SUFFICES ASSUME S # {} PROVE FALSE
        OBVIOUS
    <2>1. PICK m \in S : \A k \in S : m <= k
        <3>1. S \in SUBSET Nat
            OBVIOUS
        <3> HIDE DEF S
        <3> QED BY <3>1, SmallestOf
    <2>2. m \in 0 .. n /\ ~Good(m)
        OBVIOUS
    <2>3. CASE m = 0
        <3>1. f[m] = << >>
            BY <1>3, <2>2, <2>3
        <3>2. << >> \in Seq(Nat) /\ DOMAIN << >> = {} /\ 1 .. 0 = {}
            OBVIOUS
        <3> QED BY <2>2, <2>3, <3>1, <3>2 DEF Gives
    <2>4. CASE m # 0
        <3> DEFINE was == f[m - 1]
                   t == f[m]
        <3>1. m - 1 \in 0 .. n /\ m \in 1 .. n /\ m \in Nat /\ ~(m <= m - 1)
            BY <1>1, <2>2, <2>4
        <3>2. Good(m - 1)
            <4>1. m - 1 \notin S
                <5> HIDE DEF S
                <5> QED BY <2>1, <3>1
            <4> HIDE DEF Good
            <4> QED BY <3>1, <4>1
        <3>3. t = IF items[m].type = "event" THEN Append(was, items[m].event) ELSE was
            BY <1>3, <2>2, <2>4
        <3>4. Gives(was, items, m - 1)
            BY <3>2
        <3> HIDE DEF was, t
        <3>5. Gives(t, items, m)
            BY <3>1, <3>3, <3>4, GivesMore
        <3> QED BY <2>2, <3>5 DEF t
    <2> QED BY <2>3, <2>4
<1>5. Good(n)
    <2>1. n \in 0 .. n
        BY <1>1
    <2> HIDE DEF Good
    <2> QED BY <1>4, <2>1
<1> QED BY <1>2, <1>5

-----------------------------------------------------------------------------
(* Followers.                                                              *)

\* The revisions of a subject that the snapshots of an answer show.
LEMMA LearnedIs ==
    ASSUME NEW items, NEW s, NEW top \in Nat,
           \A k \in DOMAIN items : items[k].type = "gap" /\ s \in DOMAIN items[k].subjects
               => items[k].subjects[s] \in 0 .. top
    PROVE  /\ Learned(items, s) \in Nat
           /\ \A k \in DOMAIN items : items[k].type = "gap" /\ s \in DOMAIN items[k].subjects
               => items[k].subjects[s] <= Learned(items, s)
<1> DEFINE K == {k \in DOMAIN items : items[k].type = "gap" /\ s \in DOMAIN items[k].subjects}
           S == {0} \cup {items[k].subjects[s] : k \in K}
<1>1. Learned(items, s) = Max(S)
    BY Zenon DEF Learned
<1>2. S \in SUBSET (0 .. top) /\ S # {}
    OBVIOUS
<1>3. ASSUME NEW k \in K PROVE items[k].subjects[s] \in S
    OBVIOUS
<1> HIDE DEF S
<1>4. Max(S) \in 0 .. top /\ \A y \in S : y <= Max(S)
    BY <1>2, MaxOf
<1> QED BY <1>1, <1>3, <1>4

\* What a follower was given is behind its cursor, in order.
Orderly(r) ==
    /\ \A j \in DOMAIN told[r] : told[r][j] \in DOMAIN log /\ Before(Place(told[r][j]), cursor[r])
    /\ \A j, k \in DOMAIN told[r] : j < k => told[r][j] < told[r][k]

\* What it asked for and has passed is accounted for.
Caught(r) ==
    \A i \in DOMAIN log : since[r] \in 1 .. i /\ Before(Place(i), cursor[r]) => Accounted(r, i)

Follows(r) ==
    /\ since[r] = 0 => told[r] = << >>
    /\ since[r] > 0 => Sound(cursor[r])
    /\ Orderly(r) /\ Caught(r)

\* What is accounted for stays so.
Remembers(r) ==
    /\ Range(told[r]) \subseteq Range(told'[r])
    /\ \A s \in Subject : known[r][s] <= known'[r][s]
    /\ lost[r] \subseteq lost'[r]

\* An event that is accounted for is so after an answer.
LEMMA AccountedStays ==
    ASSUME NEW r \in Reader, Remembers(r), FollowerTypeOK, FollowerTypeOK',
           NEW i \in DOMAIN log, log[i].subject \in Subject, log[i].rev \in Nat,
           log'[i] = log[i], Accounted(r, i)
    PROVE  Accounted(r, i)'
<1>1. known[r][log[i].subject] \in Nat /\ known'[r][log[i].subject] \in Nat
    BY DEF FollowerTypeOK
<1> QED BY <1>1 DEF Accounted, Remembers

\* Followers when the store makes a step.
LEMMA StoreFollowed ==
    ASSUME StoreInv, StoreInv', Grows, FollowerTypeOK, UNCHANGED followers,
           NEW r \in Reader, Follows(r)
    PROVE  /\ Follows(r)'
           /\ \A i \in DOMAIN log : Accounted(r, i) => Accounted(r, i)'
<1>1. PICK p : p = cursor[r]
    OBVIOUS
<1>2. PICK t : t = told[r]
    OBVIOUS
<1>3. p \in Position /\ p = cursor'[r] /\ t = told'[r] /\ t \in Seq(Nat) /\ since'[r] = since[r]
    BY <1>1, <1>2 DEF FollowerTypeOK, followers
<1>4. /\ DOMAIN log = 1 .. Len(log) /\ DOMAIN log' = 1 .. Len(log') /\ Len(log) \in Nat
      /\ Len(log') \in Nat /\ Len(log) <= Len(log')
      /\ \A i \in DOMAIN log : i \in DOMAIN log' /\ log'[i] = log[i]
      /\ \A i \in DOMAIN log' : log'[i].epoch \in Nat /\ log'[i].seq \in Nat
    <2>1. PlacesNat'
        BY PlacesEver, PTL DEF StoreInv
    <2>2. log \in Seq(Event) /\ log' \in Seq(Event)
        BY DEF StoreInv, Stored
    <2> QED BY <2>1, <2>2 DEF Grows, PlacesNat
<1>5. \A i \in DOMAIN log : Place(i)' = Place(i)
    BY <1>4 DEF Place
<1>6. ASSUME NEW i \in DOMAIN log, Accounted(r, i) PROVE Accounted(r, i)'
    BY <1>4, <1>6 DEF Accounted, followers
<1>7. since'[r] > 0 => Sound(p)'
    BY <1>1, <1>3 DEF Follows, Sound, Grows
<1>8. Orderly(r)'
    <2>1. ASSUME NEW j \in DOMAIN t PROVE t[j] \in DOMAIN log' /\ Before(Place(t[j])', p)
        <3>1. t[j] \in DOMAIN log /\ Before(Place(t[j]), p)
            BY <1>1, <1>2 DEF Follows, Orderly
        <3> QED BY <1>4, <1>5, <3>1
    <2>2. \A j, k \in DOMAIN t : j < k => t[j] < t[k]
        BY <1>2 DEF Follows, Orderly
    <2> QED BY <1>3, <2>1, <2>2 DEF Orderly, Before
<1>9. Caught(r)'
    <2> SUFFICES ASSUME NEW i \in DOMAIN log', since[r] \in 1 .. i, Before(Place(i)', p)
                 PROVE  Accounted(r, i)'
        BY <1>3 DEF Caught, Before
    <2>1. CASE i \in DOMAIN log
        <3>1. Before(Place(i), p)
            BY <1>5, <2>1
        <3>2. Accounted(r, i)
            BY <1>1, <2>1, <3>1 DEF Follows, Caught
        <3> QED BY <1>6, <2>1, <3>2
    <2>2. CASE i \notin DOMAIN log
        <3>1. /\ log'[i].epoch = Epoch /\ log'[i].seq > LastSequence(Epoch)
              /\ LastSequence(Epoch) \in Nat /\ log'[i].epoch \in Nat /\ log'[i].seq \in Nat
            BY <1>4, <2>2 DEF Grows
        <3>2. Place(i)'.epoch = log'[i].epoch /\ Place(i)'.seq = log'[i].seq
            BY DEF Place
        <3>3. since[r] > 0
            OBVIOUS
        <3>4. p.epoch <= Epoch /\ (p.epoch = Epoch => p.seq <= LastSequence(Epoch) + 1)
            BY <1>1, <3>3 DEF Follows, Sound, ValidCursor
        <3>5. Epoch \in Nat /\ p.epoch \in Nat /\ p.seq \in Nat
            BY <1>3, EpochEnd DEF Position
        <3> QED BY <3>1, <3>2, <3>4, <3>5 DEF Before
    <2> QED BY <2>1, <2>2
<1> QED BY <1>1, <1>2, <1>3, <1>6, <1>7, <1>8, <1>9 DEF Follows, followers

\* What a reader keeps after an answer.
LEMMA LearnIs ==
    ASSUME StoreInv, FollowerTypeOK, NEW r \in Reader, NEW items \in Seq(Item), InOrder(items),
           NEW p, NEW q, \A k \in DOMAIN items : Within(items[k], p, q),
           NEW place \in Position, Learn(r, items, place), since' \in [Reader -> Nat]
    PROVE  /\ FollowerTypeOK' /\ Remembers(r)
           /\ cursor'[r] = place /\ told'[r] = told[r] \o Given(items)
           /\ \A s \in Subject : Learned(items, s) \in Nat /\ Learned(items, s) <= known'[r][s]
           /\ \A k \in DOMAIN items : \A s \in Subject :
                  items[k].type = "gap" /\ s \in DOMAIN items[k].subjects
                      => items[k].subjects[s] <= Learned(items, s)
           /\ lost'[r] = lost[r] \cup GivenUp(items)
           /\ \A o \in Reader \ {r} : /\ cursor'[o] = cursor[o] /\ told'[o] = told[o]
                                      /\ known'[o] = known[o] /\ lost'[o] = lost[o]
<1> DEFINE more == Given(items)
           up == GivenUp(items)
           shows == [s \in Subject |-> Max({known[r][s], Learned(items, s)})]
<1>1. cursor' = [cursor EXCEPT ![r] = place] /\ told' = [told EXCEPT ![r] = @ \o more]
    BY DEF Learn
<1>2. known' = [known EXCEPT ![r] = shows] /\ lost' = [lost EXCEPT ![r] = @ \cup up]
    BY Zenon DEF Learn
<1>3. /\ cursor \in [Reader -> Position] /\ told \in [Reader -> Seq(Nat)]
      /\ known \in [Reader -> [Subject -> Nat]] /\ lost \in [Reader -> SUBSET Nat]
    BY DEF FollowerTypeOK
<1>4. more \in Seq(Nat)
    BY GivenGives DEF Gives
<1>5. up \in SUBSET Nat
    BY DEF GivenUp, StoreInv, Stored
<1>6. ASSUME NEW s \in Subject
      PROVE  /\ Learned(items, s) \in Nat
             /\ \A k \in DOMAIN items : items[k].type = "gap" /\ s \in DOMAIN items[k].subjects
                    => items[k].subjects[s] <= Learned(items, s)
    <2> DEFINE top == rev[s]
    <2>1. top \in Nat
        BY DEF StoreInv, Stored
    <2>2. ASSUME NEW k \in DOMAIN items, items[k].type = "gap", s \in DOMAIN items[k].subjects
          PROVE  items[k].subjects[s] \in 0 .. top
        <3>1. items[k].subjects[s] <= top
            BY <2>2 DEF Within
        <3>2. items[k] \in [type : {"gap"}, from : Position, to : Position,
                            subjects : UNION {[S -> Nat] : S \in SUBSET Subject}]
            <4>1. items[k] \in Item
                OBVIOUS
            <4> QED BY <2>2, <4>1 DEF Item
        <3>3. items[k].subjects[s] \in Nat
            BY <2>2, <3>2
        <3> QED BY <2>1, <3>1, <3>3
    <2> HIDE DEF top
    <2> QED BY <2>1, <2>2, LearnedIs
<1>7. ASSUME NEW s \in Subject
      PROVE  shows[s] \in Nat /\ known[r][s] <= shows[s] /\ Learned(items, s) <= shows[s]
    <2> DEFINE a == known[r][s]
               b == Learned(items, s)
    <2>1. a \in Nat /\ b \in Nat /\ shows[s] = Max({a, b})
        BY <1>3, <1>6
    <2> HIDE DEF a, b, shows
    <2>2. Max({a, b}) = IF a >= b THEN a ELSE b
        BY <2>1, MaxPair
    <2> QED BY <2>1, <2>2 DEF a, b
<1>8. shows \in [Subject -> Nat]
    <2>1. shows = [s \in Subject |-> shows[s]]
        OBVIOUS
    <2> HIDE DEF shows
    <2> QED BY <1>7, <2>1
<1> HIDE DEF more, up, shows
<1>9. told[r] \o more \in Seq(Nat) /\ told[r] \in Seq(Nat)
    BY <1>3, <1>4
<1>10. /\ cursor'[r] = place /\ told'[r] = told[r] \o more /\ known'[r] = shows
       /\ lost'[r] = lost[r] \cup up
    BY <1>1, <1>2, <1>3
<1>11. FollowerTypeOK'
    <2>1. cursor' \in [Reader -> Position] /\ told' \in [Reader -> Seq(Nat)]
        BY <1>1, <1>3, <1>9
    <2>2. known' \in [Reader -> [Subject -> Nat]]
        BY <1>2, <1>3, <1>8
    <2>3. lost' \in [Reader -> SUBSET Nat]
        <3>1. lost[r] \cup up \in SUBSET Nat
            BY <1>3, <1>5
        <3> QED BY <1>2, <1>3, <3>1
    <2> QED BY <2>1, <2>2, <2>3 DEF FollowerTypeOK
<1>12. Remembers(r)
    <2>1. Range(told[r]) \subseteq Range(told'[r])
        <3> DEFINE t == told[r]
                   all == told'[r]
        <3>1. t \in Seq(Nat) /\ all = t \o more
            BY <1>9, <1>10
        <3> HIDE DEF t, all
        <3>2. ASSUME NEW j \in DOMAIN t PROVE j \in DOMAIN all /\ all[j] = t[j]
            BY <1>4, <3>1
        <3>3. Range(t) \subseteq Range(all)
            BY <3>2 DEF Range
        <3> QED BY <3>3 DEF t, all
    <2> QED BY <1>7, <1>10, <2>1 DEF Remembers
<1>13. \A o \in Reader \ {r} : /\ cursor'[o] = cursor[o] /\ told'[o] = told[o]
                               /\ known'[o] = known[o] /\ lost'[o] = lost[o]
    BY <1>1, <1>2, <1>3
<1> QED BY <1>6, <1>7, <1>10, <1>11, <1>12, <1>13 DEF more, up

\* What a follower has after it took in items that begin where it was, and that tell
\* of all that it did not have.
LEMMA LearnFollowed ==
    ASSUME StoreInv, FollowerTypeOK, UNCHANGED <<log, rows, vouched, discarded, rev>>,
           NEW r \in Reader, NEW items \in Seq(Item), InOrder(items),
           NEW start \in Position, NEW place \in Position, ~Before(place, start),
           \A k \in DOMAIN items : Within(items[k], start, place),
           Orderly(r), \A j \in DOMAIN told[r] : Before(Place(told[r][j]), start),
           Learn(r, items, place), since' \in [Reader -> Nat],
           \A i \in DOMAIN log : since'[r] \in 1 .. i /\ Before(Place(i), place) =>
               Accounted(r, i) \/ \E k \in DOMAIN items : Tells(items[k], i)
    PROVE  /\ FollowerTypeOK' /\ Remembers(r) /\ cursor'[r] = place
           /\ \A i \in DOMAIN log :
                  Accounted(r, i) \/ (\E k \in DOMAIN items : Tells(items[k], i))
                      => Accounted(r, i)'
           /\ Orderly(r)' /\ Caught(r)'
<1>1. DOMAIN items = 1 .. Len(items)
    OBVIOUS
<1>2. PICK events : events = Given(items)
    OBVIOUS
<1>3. PICK t : t = told[r]
    OBVIOUS
<1>5. /\ FollowerTypeOK' /\ Remembers(r) /\ cursor'[r] = place /\ told'[r] = t \o events
      /\ \A s \in Subject : Learned(items, s) \in Nat /\ Learned(items, s) <= known'[r][s]
      /\ \A k \in DOMAIN items : \A s \in Subject :
             items[k].type = "gap" /\ s \in DOMAIN items[k].subjects
                 => items[k].subjects[s] <= Learned(items, s)
      /\ lost'[r] = lost[r] \cup GivenUp(items)
    BY <1>2, <1>3, LearnIs
<1>6. Gives(events, items, Len(items))
    BY <1>2, GivenGives
<1>7. t \in Seq(Nat) /\ events \in Seq(Nat)
    BY <1>3, <1>6 DEF FollowerTypeOK, Gives
<1>10. \A i \in DOMAIN log : Place(i)' = Place(i)
    BY DEF Place
<1>11. ASSUME NEW j \in DOMAIN t
       PROVE  t[j] \in DOMAIN log /\ Before(Place(t[j]), start) /\ Before(Place(t[j]), place)
    <2>2. t[j] \in DOMAIN log /\ Before(Place(t[j]), start)
        BY <1>3 DEF Orderly
    <2>3. Place(t[j]) \in Position
        BY <2>2, PlaceType DEF StoreInv
    <2> QED BY <2>2, <2>3, BeforeTransitive
<1>12. ASSUME NEW j \in DOMAIN events
       PROVE  /\ events[j] \in DOMAIN log /\ ~Before(Place(events[j]), start)
              /\ Before(Place(events[j]), place)
    <2>1. PICK k \in 1 .. Len(items) : items[k].type = "event" /\ items[k].event = events[j]
        BY <1>6 DEF Gives
    <2>2. Within(items[k], start, place)
        BY <1>1
    <2> QED BY <2>1, <2>2 DEF Within
<1> DEFINE l == Len(t)
           all == t \o events
<1>13. /\ l \in Nat /\ DOMAIN t = 1 .. l /\ DOMAIN all = 1 .. l + Len(events) /\ Len(events) \in Nat
       /\ \A j \in 1 .. l : all[j] = t[j]
       /\ \A j \in DOMAIN all : j > l => j - l \in DOMAIN events /\ all[j] = events[j - l]
       /\ \A j \in DOMAIN events : l + j \in DOMAIN all /\ all[l + j] = events[j]
    BY <1>7
<1> HIDE DEF l, all
<1>14. \A j \in DOMAIN all : all[j] \in DOMAIN log /\ Before(Place(all[j]), place)
    <2> SUFFICES ASSUME NEW j \in DOMAIN all PROVE all[j] \in DOMAIN log /\ Before(Place(all[j]), place)
        OBVIOUS
    <2>1. CASE j \in 1 .. l
        BY <1>11, <1>13, <2>1
    <2>2. CASE j > l
        BY <1>12, <1>13, <2>2
    <2> QED BY <1>13, <2>1, <2>2
<1>15. \A j, k \in DOMAIN all : j < k => all[j] < all[k]
    <2> SUFFICES ASSUME NEW j \in DOMAIN all, NEW k \in DOMAIN all, j < k PROVE all[j] < all[k]
        OBVIOUS
    <2>1. CASE k \in 1 .. l
        BY <1>3, <1>13, <2>1 DEF Orderly
    <2>2. CASE j > l
        <3>1. j - l \in DOMAIN events /\ k - l \in DOMAIN events /\ j - l < k - l
            BY <1>13, <2>2
        <3>2. all[j] = events[j - l] /\ all[k] = events[k - l]
            BY <1>13, <2>2
        <3> QED BY <1>6, <3>1, <3>2 DEF Gives
    <2>3. CASE j \in 1 .. l /\ k > l
        <3> DEFINE i == t[j]
                   m == events[k - l]
        <3>1. all[j] = i /\ all[k] = m /\ j \in DOMAIN t /\ k - l \in DOMAIN events
            BY <1>13, <2>3
        <3>2. i \in DOMAIN log /\ m \in DOMAIN log /\ Before(Place(i), start) /\ ~Before(Place(m), start)
            BY <1>11, <1>12, <3>1
        <3> HIDE DEF i, m
        <3>3. Place(i) \in Position /\ Place(m) \in Position
            BY <3>2, PlaceType DEF StoreInv
        <3>4. Before(Place(i), Place(m))
            BY <3>2, <3>3, BeforeTransitive
        <3> QED BY <3>1, <3>2, <3>4, PlacesFollow
    <2> QED BY <1>13, <2>1, <2>2, <2>3
<1>16. Orderly(r)'
    BY <1>5, <1>10, <1>14, <1>15 DEF Orderly, Before, all
<1>17. ASSUME NEW i \in DOMAIN log, Accounted(r, i) \/ \E k \in DOMAIN items : Tells(items[k], i)
       PROVE  Accounted(r, i)'
    <2>1. log[i].subject \in Subject /\ log[i].rev \in Nat /\ log'[i] = log[i]
        BY PlaceType DEF StoreInv
    <2>2. CASE Accounted(r, i)
        BY <1>5, <2>1, <2>2, AccountedStays
    <2>3. CASE \E k \in DOMAIN items : Tells(items[k], i)
        <3>1. PICK k \in DOMAIN items : Tells(items[k], i)
            BY <2>3
        <3>2. CASE items[k].type = "event" /\ items[k].event = i
            <4>1. PICK j \in DOMAIN events : events[j] = i
                BY <1>1, <1>6, <3>2 DEF Gives
            <4>2. i \in Range(told'[r])
                BY <1>5, <1>13, <4>1 DEF Range, all
            <4> QED BY <4>2 DEF Accounted
        <3>3. CASE /\ items[k].type = "gap" /\ log[i].subject \in DOMAIN items[k].subjects
                   /\ items[k].subjects[log[i].subject] >= log[i].rev
            <4> DEFINE s == log[i].subject
            <4>1. /\ items[k].subjects[s] <= Learned(items, s) /\ Learned(items, s) \in Nat
                  /\ Learned(items, s) <= known'[r][s] /\ known'[r][s] \in Nat
                BY <1>5, <2>1, <3>3 DEF FollowerTypeOK
            <4>2. items[k].subjects[s] \in Nat
                <5>1. items[k] \in Item
                    BY <1>1
                <5>2. items[k] \in [type : {"gap"}, from : Position, to : Position,
                                    subjects : UNION {[S -> Nat] : S \in SUBSET Subject}]
                    BY <3>3, <5>1 DEF Item
                <5> QED BY <3>3, <5>2
            <4>3. known'[r][s] >= log[i].rev
                BY <2>1, <3>3, <4>1, <4>2
            <4> QED BY <2>1, <4>3 DEF Accounted
        <3>4. CASE /\ items[k].type = "epoch_change" /\ items[k].from = log[i].epoch
                   /\ items[k].vouched < log[i].seq
            <4>1. i \in GivenUp(items)
                BY <3>4 DEF GivenUp
            <4> QED BY <1>5, <4>1 DEF Accounted
        <3> QED BY <3>1, <3>2, <3>3, <3>4 DEF Tells
    <2> QED BY <1>17, <2>2, <2>3
<1>18. Caught(r)'
    <2> SUFFICES ASSUME NEW i \in DOMAIN log, since'[r] \in 1 .. i, Before(Place(i), place)
                 PROVE  Accounted(r, i)'
        BY <1>5, <1>10 DEF Caught, Before
    <2> QED BY <1>17
<1> QED BY <1>5, <1>16, <1>17, <1>18

\* A reader that takes in an answer has it all, in order.
LEMMA AnswerFollowed ==
    ASSUME StoreInv, FollowerTypeOK, UNCHANGED store, NEW r \in Reader, Follows(r),
           NEW start, Sound(start),
           NEW read, ReadInv(read, start, Sees[r] \cap Wants[r]),
           Learn(r, read.items, read.at), since' \in [Reader -> Nat],
           \/ since[r] = 0 /\ \A i \in DOMAIN log : since'[r] \in 1 .. i => ~Before(Place(i), start)
           \/ since[r] > 0 /\ since'[r] = since[r] /\ start = cursor[r]
    PROVE  /\ FollowerTypeOK' /\ Remembers(r)
           /\ since'[r] > 0 => Follows(r)'
           /\ cursor'[r] = read.at
<1> DEFINE items == read.items
           place == read.at
<1>1. /\ read \in Read /\ items \in Seq(Item) /\ place \in Position /\ Sound(place) /\ ~Before(place, start)
      /\ InOrder(items) /\ \A k \in DOMAIN items : Within(items[k], start, place)
      /\ Learn(r, items, place) /\ start \in Position
    BY DEF ReadInv, Read, Sound
<1>2. UNCHANGED <<log, rows, vouched, discarded, rev>>
    BY DEF store
<1>3. \A i \in DOMAIN log :
           ~Before(Place(i), start) /\ Before(Place(i), place) => Covers(items, i, Sees[r] \cap Wants[r])
    BY DEF ReadInv
<1> HIDE DEF items, place
<1>4. Orderly(r) /\ \A j \in DOMAIN told[r] : Before(Place(told[r][j]), start)
    <2>1. CASE since[r] = 0
        <3>1. DOMAIN told[r] = {}
            BY <2>1 DEF Follows
        <3> QED BY <3>1 DEF Follows
    <2>2. CASE since[r] > 0
        BY <2>2 DEF Follows, Orderly
    <2> QED BY <2>1, <2>2
<1>5. ASSUME NEW i \in DOMAIN log, since'[r] \in 1 .. i, Before(Place(i), place)
      PROVE  Accounted(r, i) \/ \E k \in DOMAIN items : Tells(items[k], i)
    <2>1. CASE ~Before(Place(i), start)
        BY <1>3, <1>5, <2>1, Zenon DEF Covers, Accounted
    <2>2. CASE Before(Place(i), start)
        <3>1. since'[r] = since[r] /\ start = cursor[r]
            BY <1>5, <2>2
        <3> QED BY <1>5, <2>2, <3>1 DEF Follows, Caught
    <2> QED BY <2>1, <2>2
<1>6. FollowerTypeOK' /\ Remembers(r) /\ cursor'[r] = place /\ Orderly(r)' /\ Caught(r)'
    BY <1>1, <1>2, <1>4, <1>5, LearnFollowed
<1>7. Sound(place)'
    BY <1>1, <1>2 DEF Sound, ValidCursor, Epoch, LastSequence, RowsOf
<1>8. since'[r] > 0 => Follows(r)'
    BY <1>6, <1>7 DEF Follows
<1> QED BY <1>6, <1>8 DEF place

-----------------------------------------------------------------------------
(* The readers of core.events.read.                                        *)

\* There is room for a snapshot of what a reader may see.
HasRoom(r) == Budget[r] >= 1 + Cardinality(Sees[r])

\* Up to where a reader was told that there is no more, it has everything.
Ended(r) ==
    /\ upto[r] <= Len(log)
    /\ since[r] = 0 => upto[r] = 0
    /\ HasRoom(r) => \A i \in since[r] .. upto[r] : since[r] > 0 => Accounted(r, i)

ReadersInv ==
    /\ ReadersTypeOK /\ StoreInv
    /\ \A r \in Reader : Follows(r) /\ Ended(r)

\* The phases of a process.
LEMMA PhaseStep ==
    ASSUME phase \in Phase, starts \in Nat, StoreNext \/ UNCHANGED store
    PROVE  phase' \in Phase /\ starts' \in Nat
<1>1. ASSUME NEW s, NEW more, NEW also, NEW tells, CommitCommand(s, more, also, tells)
      PROVE  UNCHANGED <<phase, starts>>
    BY <1>1 DEF CommitCommand
<1>2. ASSUME NEW s, NEW events, CommitProviderChange(s, events)
      PROVE  UNCHANGED <<phase, starts>>
    BY <1>2 DEF CommitProviderChange
<1>3. ASSUME NEW s, NEW revisions, NEW tells, CommitBatch(s, revisions, tells)
      PROVE  UNCHANGED <<phase, starts>>
    BY <1>3 DEF CommitBatch
<1>4. Crash => phase' = "down" /\ starts' = starts
    BY DEF Crash
<1>5. Open => phase' = "epoch" /\ starts' = starts + 1
    BY DEF Open
<1>6. \A u : StartNewEpoch(u) => phase' = "retain" /\ starts' = starts
    BY DEF StartNewEpoch
<1>7. SameEpoch => phase' = "retain" /\ starts' = starts
    BY DEF SameEpoch
<1>8. \A n : RetainLastEvents(n) => phase' = "reconcile" /\ starts' = starts
    BY DEF RetainLastEvents
<1>9. RetainAll => phase' = "reconcile" /\ starts' = starts
    BY DEF RetainAll
<1>10. ReconcileCapabilities => phase' = "up" /\ starts' = starts
    BY DEF ReconcileCapabilities
<1>11. /\ phase' \in {phase, "down", "epoch", "retain", "reconcile", "up"}
       /\ starts' \in {starts, starts + 1}
    BY <1>1, <1>2, <1>3, <1>4, <1>5, <1>6, <1>7, <1>8, <1>9, <1>10 DEF StoreNext, store
<1> QED BY <1>11 DEF Phase

\* The initial states.
LEMMA ReadersStart ==
    ReadersInit => ReadersInv
<1> SUFFICES ASSUME ReadersInit PROVE ReadersInv
    OBVIOUS
<1>1. /\ log = << >> /\ rows = {} /\ vouched = << >> /\ discarded = Nothing
      /\ rev = [s \in Subject |-> 0] /\ phase = "down" /\ starts = 0
      /\ cursor = [r \in Reader |-> Nothing] /\ since = [r \in Reader |-> 0]
      /\ told = [r \in Reader |-> << >>] /\ known = [r \in Reader |-> [s \in Subject |-> 0]]
      /\ lost = [r \in Reader |-> {}] /\ upto = [r \in Reader |-> 0]
    BY DEF ReadersInit, StoreInit, FollowerInit
<1>2. Nothing \in Position
    BY DEF Nothing, Position
<1>3. /\ << >> \in Seq(Event) /\ << >> \in Seq(Nat) /\ DOMAIN << >> = {} /\ Len(<< >>) = 0
    OBVIOUS
<1>4. Stored
    BY <1>1, <1>2, <1>3 DEF Stored
<1>5. StoreInv
    BY <1>1, <1>3, <1>4 DEF StoreInv, Ordered, Revised, Retained
<1>6. ReadersTypeOK
    BY <1>1, <1>2, <1>3, <1>4 DEF ReadersTypeOK, StoreTypeOK, FollowerTypeOK, Stored, Phase
<1>7. ASSUME NEW r \in Reader PROVE Follows(r) /\ Ended(r)
    <2>1. told[r] = << >> /\ since[r] = 0 /\ upto[r] = 0 /\ Len(log) = 0 /\ DOMAIN log = {}
        BY <1>1, <1>3
    <2>2. DOMAIN told[r] = {}
        BY <1>3, <2>1
    <2> QED BY <2>1, <2>2 DEF Follows, Orderly, Caught, Ended
<1> QED BY <1>5, <1>6, <1>7 DEF ReadersInv

\* A step of the store.
LEMMA ReadersStoreStep ==
    ASSUME ReadersInv, KeepsSome, StoreNext \/ UNCHANGED store, UNCHANGED <<followers, upto>>
    PROVE  ReadersInv'
<1>1. StoreInv /\ StoreInv' /\ Grows /\ FollowerTypeOK
    BY StoreStep DEF ReadersInv, ReadersTypeOK
<1>2. ReadersTypeOK'
    <2>1. phase' \in Phase /\ starts' \in Nat
        BY PhaseStep DEF ReadersInv, ReadersTypeOK, StoreTypeOK
    <2> QED BY <1>1, <2>1 DEF ReadersInv, ReadersTypeOK, StoreTypeOK, StoreInv, Stored, FollowerTypeOK, followers
<1>3. ASSUME NEW r \in Reader PROVE Follows(r)' /\ Ended(r)'
    <2>1. Follows(r) /\ Ended(r)
        BY DEF ReadersInv
    <2>2. Follows(r)' /\ \A i \in DOMAIN log : Accounted(r, i) => Accounted(r, i)'
        BY <1>1, <2>1, StoreFollowed
    <2>3. since' = since /\ upto' = upto /\ since[r] \in Nat /\ upto[r] \in Nat
        BY DEF followers, ReadersInv, ReadersTypeOK, FollowerTypeOK
    <2>4. DOMAIN log = 1 .. Len(log) /\ Len(log) \in Nat /\ Len(log') \in Nat /\ Len(log) <= Len(log')
        BY <1>1 DEF StoreInv, Stored, Grows
    <2>5. ASSUME HasRoom(r), NEW i \in since[r] .. upto[r], since[r] > 0 PROVE Accounted(r, i)'
        <3>1. i \in DOMAIN log
            BY <2>1, <2>3, <2>4, <2>5 DEF Ended
        <3> QED BY <2>1, <2>2, <2>5, <3>1 DEF Ended
    <2>6. Ended(r)'
        BY <2>1, <2>3, <2>4, <2>5 DEF Ended, HasRoom
    <2> QED BY <2>2, <2>6
<1> QED BY <1>1, <1>2, <1>3 DEF ReadersInv

\* An answer to a reader that asks from a position.
LEMMA ReadersAnswerStep ==
    ASSUME ReadersInv, NEW r \in Reader, NEW limit \in Limit, NEW start, Sound(start),
           Answer(r, start, limit),
           since' \in [Reader -> Nat], since'[r] > 0,
           \A o \in Reader \ {r} : since'[o] = since[o],
           \/ since[r] = 0 /\ \A i \in DOMAIN log : since'[r] \in 1 .. i => ~Before(Place(i), start)
           \/ since[r] > 0 /\ since'[r] = since[r] /\ start = cursor[r]
    PROVE  ReadersInv'
<1> DEFINE sees == Sees[r]
           wants == Wants[r]
           budget == Budget[r]
<1>1. PICK enough \in BOOLEAN : enough <=> HasRoom(r)
    OBVIOUS
<1>2. PICK read : read = ReadEvents(start, limit, sees, wants, budget)
    OBVIOUS
<1>3. ~read.tooLarge /\ Learn(r, read.items, read.at) /\ UNCHANGED store
    BY <1>2 DEF Answer
<1>4. upto' = [upto EXCEPT ![r] = IF read.items = <<>> THEN Len(log) ELSE @]
    BY <1>2 DEF Answer
<1>5. StoreInv /\ FollowerTypeOK /\ upto \in [Reader -> Nat] /\ Follows(r) /\ Ended(r)
    BY DEF ReadersInv, ReadersTypeOK
<1>6. Asked(limit, sees, budget, enough)
    BY <1>1, ReaderAssumption, LimitAssumption DEF Asked, HasRoom
<1> HIDE DEF sees, wants, budget
<1>7. /\ ReadInv(read, start, sees \cap wants)
      /\ read.items = <<>> /\ ~read.tooLarge /\ enough => AtEnd(read.at)
    BY <1>2, <1>5, <1>6, ReadIsWhole
<1>8. /\ FollowerTypeOK' /\ Remembers(r) /\ Follows(r)' /\ cursor'[r] = read.at
    BY <1>3, <1>5, <1>7, AnswerFollowed DEF sees, wants
<1>9. \A o \in Reader \ {r} : /\ cursor'[o] = cursor[o] /\ told'[o] = told[o]
                              /\ known'[o] = known[o] /\ lost'[o] = lost[o]
    <2> DEFINE items == read.items
               place == read.at
    <2>1. /\ items \in Seq(Item) /\ InOrder(items) /\ place \in Position
          /\ \A k \in DOMAIN items : Within(items[k], start, place)
          /\ Learn(r, items, place)
        BY <1>3, <1>7 DEF ReadInv, Read
    <2> HIDE DEF items, place
    <2> QED BY <1>5, <2>1, LearnIs
<1>10. Len(log) \in Nat /\ DOMAIN log = 1 .. Len(log)
    BY <1>5 DEF StoreInv, Stored
<1>11. /\ upto' \in [Reader -> Nat]
       /\ upto'[r] = IF read.items = <<>> THEN Len(log) ELSE upto[r]
       /\ \A o \in Reader \ {r} : upto'[o] = upto[o]
    BY <1>4, <1>5, <1>10
<1>12. ReadersTypeOK' /\ StoreInv'
    <2>1. UNCHANGED <<log, rows, vouched, discarded, rev, phase, starts>>
        BY <1>3 DEF store
    <2>2. StoreInv'
        BY <1>5, <2>1 DEF StoreInv, Stored, Ordered, Revised, Retained, Place, Epoch, Before
    <2>3. StoreTypeOK'
        BY <2>1 DEF ReadersInv, ReadersTypeOK, StoreTypeOK
    <2> QED BY <1>8, <1>11, <2>2, <2>3 DEF ReadersTypeOK
<1>13. ASSUME NEW o \in Reader \ {r} PROVE Follows(o)' /\ Ended(o)'
    <2>1. Follows(o) /\ Ended(o)
        BY DEF ReadersInv
    <2>2. /\ cursor'[o] = cursor[o] /\ told'[o] = told[o] /\ known'[o] = known[o]
          /\ lost'[o] = lost[o] /\ since'[o] = since[o] /\ upto'[o] = upto[o]
          /\ UNCHANGED <<log, rows, vouched, discarded, rev>>
        BY <1>3, <1>9, <1>11 DEF store
    <2>3. \A i : Accounted(o, i)' <=> Accounted(o, i)
        BY <2>2 DEF Accounted
    <2>4. Follows(o)'
        BY <2>1, <2>2, <2>3 DEF Follows, Orderly, Caught, Sound, ValidCursor, Epoch,
                                LastSequence, RowsOf, Place, Before
    <2> QED BY <2>1, <2>2, <2>3, <2>4 DEF Ended, HasRoom
<1>14. Ended(r)'
    <2>1. UNCHANGED <<log, rows, vouched, discarded, rev>>
        BY <1>3 DEF store
    <2>2. upto'[r] <= Len(log')
        BY <1>5, <1>10, <1>11, <2>1 DEF Ended
    <2>3. ASSUME HasRoom(r), NEW i \in since'[r] .. upto'[r] PROVE Accounted(r, i)'
        <3>1. since'[r] \in Nat /\ upto'[r] \in Nat /\ upto[r] \in Nat /\ since[r] \in Nat
            BY <1>5, <1>11 DEF FollowerTypeOK
        <3>2. i \in DOMAIN log /\ i \in Nat /\ since'[r] \in 1 .. i
            BY <1>10, <2>1, <2>2, <2>3, <3>1
        <3>3. CASE read.items = <<>>
            <4>1. AtEnd(read.at)
                BY <1>1, <1>3, <1>7, <2>3, <3>3
            <4>2. Before(Place(i), cursor[r])'
                BY <1>8, <2>1, <3>2, <4>1 DEF AtEnd, Place, Before
            <4> QED BY <1>8, <2>1, <3>2, <4>2 DEF Follows, Caught
        <3>4. CASE read.items # <<>>
            <4>1. i \in since'[r] .. upto[r]
                BY <1>11, <2>3, <3>4
            <4>2. since[r] > 0
                BY <1>5, <3>1, <3>2, <4>1 DEF Ended
            <4>3. since'[r] = since[r]
                BY <4>2
            <4>4. Accounted(r, i)
                BY <1>5, <2>3, <4>1, <4>2, <4>3 DEF Ended
            <4>5. log[i].subject \in Subject /\ log[i].rev \in Nat /\ log'[i] = log[i]
                BY <1>5, <2>1, <3>2, PlaceType DEF StoreInv
            <4> QED BY <1>5, <1>8, <3>2, <4>4, <4>5, AccountedStays
        <3> QED BY <3>3, <3>4
    <2> QED BY <2>2, <2>3 DEF Ended, HasRoom
<1> QED BY <1>8, <1>12, <1>13, <1>14 DEF ReadersInv

\* Every step.
LEMMA ReadersStep ==
    ASSUME ReadersInv, KeepsSome, [ReadersNext]_readerVars
    PROVE  ReadersInv'
<1> USE DEF ReadersInv
<1>1. CASE StoreNext /\ UNCHANGED <<followers, upto>>
    BY <1>1, ReadersStoreStep
<1>2. CASE UNCHANGED readerVars
    <2>1. UNCHANGED store /\ UNCHANGED <<followers, upto>>
        BY <1>2 DEF readerVars, store, followers
    <2> QED BY <2>1, ReadersStoreStep
<1>3. ASSUME NEW r \in Reader, NEW limit \in Limit, ReadFrom(r, limit) PROVE ReadersInv'
    <2>1. since[r] = 0 /\ since \in [Reader -> Nat] /\ StoreInv
        BY <1>3 DEF ReadFrom, ReadersTypeOK, FollowerTypeOK
    <2>2. CASE Answer(r, StreamStart, limit) /\ since' = [since EXCEPT ![r] = 1]
        <3>1. /\ since' \in [Reader -> Nat] /\ since'[r] = 1
              /\ \A o \in Reader \ {r} : since'[o] = since[o]
            BY <2>1, <2>2
        <3>2. /\ StreamStart \in Position /\ StreamStart.epoch = 1 /\ StreamStart.seq = 1
            BY DEF StreamStart, Position
        <3>3. Sound(StreamStart)
            BY <2>1, <3>2, EpochEnd DEF Sound, ValidCursor
        <3>4. ASSUME NEW i \in DOMAIN log PROVE ~Before(Place(i), StreamStart)
            <4>1. /\ Place(i).epoch = log[i].epoch /\ Place(i).seq = log[i].seq
                  /\ log[i].epoch \in Nat /\ log[i].seq \in Nat
                  /\ log[i].epoch >= 1 /\ log[i].seq >= 1
                BY <2>1, PlaceType DEF StoreInv, Ordered
            <4> QED BY <3>2, <4>1 DEF Before
        <3>5. PICK start : start = StreamStart
            OBVIOUS
        <3> QED BY <2>1, <2>2, <3>1, <3>3, <3>4, <3>5, ReadersAnswerStep
    <2>3. CASE Answer(r, Now, limit) /\ since' = [since EXCEPT ![r] = Len(log) + 1]
        <3>1. Len(log) \in Nat /\ DOMAIN log = 1 .. Len(log)
            BY <2>1 DEF StoreInv, Stored
        <3>2. /\ since' \in [Reader -> Nat] /\ since'[r] = Len(log) + 1
              /\ \A o \in Reader \ {r} : since'[o] = since[o]
            BY <2>1, <2>3, <3>1
        <3>3. Sound(Now)
            BY <2>1, HeadIs DEF Now
        <3>4. \A i \in DOMAIN log : ~(since'[r] \in 1 .. i)
            BY <3>1, <3>2
        <3>5. PICK start : start = Now
            OBVIOUS
        <3>6. since'[r] > 0
            BY <3>1, <3>2
        <3> QED BY <2>1, <2>3, <3>2, <3>3, <3>4, <3>5, <3>6, ReadersAnswerStep
    <2> QED BY <1>3, <2>2, <2>3 DEF ReadFrom
<1>4. ASSUME NEW r \in Reader, NEW limit \in Limit, ReadOn(r, limit) PROVE ReadersInv'
    <2>1. /\ since \in [Reader -> Nat] /\ since' = since /\ since[r] > 0 /\ Follows(r)
          /\ Answer(r, cursor[r], limit)
        BY <1>4 DEF ReadOn, ReadersTypeOK, FollowerTypeOK
    <2>2. PICK start : start = cursor[r]
        OBVIOUS
    <2>3. Sound(start) /\ Answer(r, start, limit)
        BY <2>1, <2>2 DEF Follows
    <2>4. since' \in [Reader -> Nat] /\ since'[r] > 0 /\ since'[r] = since[r]
        BY <2>1
    <2> QED BY <2>1, <2>2, <2>3, <2>4, ReadersAnswerStep
<1> QED BY <1>1, <1>2, <1>3, <1>4 DEF ReadersNext

-----------------------------------------------------------------------------
(* Theorems.                                                               *)

\* The invariant that the theorems rest on.
LEMMA ReadersAlways ==
    ASSUME KeepsSome
    PROVE  ReadersSpec => []ReadersInv
<1>1. ReadersInit => ReadersInv
    BY ReadersStart
<1>2. ReadersInv /\ [ReadersNext]_readerVars => ReadersInv'
    BY ReadersStep
<1> QED BY <1>1, <1>2, PTL DEF ReadersSpec

\* Positions keep their meaning across starts, epochs and retention
\* (append_events, start_new_epoch, retain_last_events, decode_cursor), if a
\* launch that discards events keeps one: each is after all that were given out,
\* and a cursor that was given out stays valid.
THEOREM PositionsKeep ==
    ASSUME KeepsSome
    PROVE  ReadersSpec => []PositionsHold
<1>1. ReadersInv => PositionsHold
    <2> SUFFICES ASSUME ReadersInv PROVE PositionsHold
        OBVIOUS
    <2>1. ReadersTypeOK /\ StoreInv
        BY DEF ReadersInv
    <2>2. CursorsStayValid
        BY DEF ReadersInv, Follows, Sound, CursorsStayValid
    <2>3. \A i, j \in rows : log[i].epoch = log[j].epoch => i .. j \subseteq rows
        <3> SUFFICES ASSUME NEW i \in rows, NEW j \in rows, NEW k \in i .. j PROVE k \in rows
            OBVIOUS
        <3>1. k \in DOMAIN log /\ i <= k
            BY <2>1 DEF StoreInv, Stored
        <3> QED BY <2>1, <3>1 DEF StoreInv, Retained
    <2> QED BY <2>1, <2>2, <2>3 DEF PositionsHold, PositionsFollowCommits, StoreInv, Ordered
<1> QED BY <1>1, ReadersAlways, PTL

\* A reader that asks again with the cursor of its last answer (events_read) is
\* given everything it asked for, once and in order, or is told what it was not.
THEOREM StreamIsFollowed ==
    ASSUME KeepsSome
    PROVE  ReadersSpec => []FollowsStream
<1>1. ReadersInv => FollowsStream
    BY DEF ReadersInv, Follows, Orderly, Caught, FollowsStream, NoSilentGap, DeliveredOnceInOrder
<1> QED BY <1>1, ReadersAlways, PTL

\* With room for a snapshot of what each reader may see, an answer without
\* items (read_events) means as well that nothing was left out.
THEOREM ReadsLeaveNothingOut ==
    ASSUME KeepsSome, \A r \in Reader : HasRoom(r)
    PROVE  ReadersSpec => []ReadsAreWhole
<1>1. ReadersInv => NoMoreIsTheEnd
    BY DEF ReadersInv, Ended, NoMoreIsTheEnd
<1>2. ReadersInv => ReadsAreWhole
    BY <1>1 DEF ReadersInv, Follows, Orderly, Caught, ReadsAreWhole, FollowsStream, NoSilentGap,
                DeliveredOnceInOrder
<1> QED BY <1>2, ReadersAlways, PTL

-----------------------------------------------------------------------------
(* What frames weigh, and who is left.                                     *)

\* Counting up to a number.
LEMMA CountUp ==
    ASSUME NEW n \in Nat, NEW S, 0 \in S, \A k \in 1 .. n : k - 1 \in S => k \in S
    PROVE  \A k \in 0 .. n : k \in S
<1> DEFINE Left == {k \in 0 .. n : k \notin S}
<1> SUFFICES ASSUME Left # {} PROVE FALSE
    OBVIOUS
<1>1. PICK m \in Left : \A k \in Left : m <= k
    <2>1. Left \in SUBSET Nat
        OBVIOUS
    <2> HIDE DEF Left
    <2> QED BY <2>1, SmallestOf
<1>2. m \in 1 .. n /\ m - 1 \in 0 .. n /\ ~(m <= m - 1)
    OBVIOUS
<1>3. m - 1 \in S
    BY <1>1, <1>2
<1> QED BY <1>2, <1>3

\* f[k] is the weight of the first k frames, for k up to n.
IsWeight(f, n, frames, kinds) ==
    f = [k \in 0 .. n |->
            IF k = 0 THEN 0
            ELSE IF frames[k].kind \in kinds THEN f[k - 1] + frames[k].size
            ELSE f[k - 1]]

\* Weight is that, of all frames.
LEMMA WeightIs ==
    ASSUME NEW frames, NEW kinds
    PROVE  Weight(frames, kinds)
               = (CHOOSE f : IsWeight(f, Len(frames), frames, kinds))[Len(frames)]
BY Zenon DEF Weight, IsWeight

\* There is one, for any number of frames.
LEMMA WeightRuns ==
    ASSUME NEW n \in Nat, NEW frames, NEW kinds
    PROVE  \E f : IsWeight(f, n, frames, kinds)
<1> DEFINE S == {m \in 0 .. n : \E f : IsWeight(f, m, frames, kinds)}
<1>1. 0 \in S
    <2> DEFINE f == [k \in 0 .. 0 |-> 0]
    <2>1. f = [k \in 0 .. 0 |->
                  IF k = 0 THEN 0
                  ELSE IF frames[k].kind \in kinds THEN f[k - 1] + frames[k].size
                  ELSE f[k - 1]]
        OBVIOUS
    <2> HIDE DEF f
    <2>2. IsWeight(f, 0, frames, kinds)
        BY <2>1, Zenon DEF IsWeight
    <2> QED BY <2>2
<1>2. ASSUME NEW m \in 1 .. n, m - 1 \in S PROVE m \in S
    <2>1. PICK f : IsWeight(f, m - 1, frames, kinds)
        BY <1>2
    <2> DEFINE last == IF frames[m].kind \in kinds THEN f[m - 1] + frames[m].size ELSE f[m - 1]
               g == [k \in 0 .. m |-> IF k = m THEN last ELSE f[k]]
    <2>2. \A k \in 0 .. m - 1 :
              f[k] = IF k = 0 THEN 0
                     ELSE IF frames[k].kind \in kinds THEN f[k - 1] + frames[k].size
                     ELSE f[k - 1]
        BY <2>1 DEF IsWeight
    <2>3. ASSUME NEW k \in 0 .. m
          PROVE  g[k] = IF k = 0 THEN 0
                        ELSE IF frames[k].kind \in kinds THEN g[k - 1] + frames[k].size
                        ELSE g[k - 1]
        <3>1. CASE k = m
            <4>1. g[k] = last /\ g[k - 1] = f[m - 1] /\ k # 0
                BY <3>1
            <4> HIDE DEF g
            <4> QED BY <3>1, <4>1
        <3>2. CASE k # m
            <4>1. k \in 0 .. m - 1
                BY <3>2
            <4>2. g[k] = f[k]
                BY <3>2
            <4>3. k # 0 => g[k - 1] = f[k - 1]
                BY <3>2
            <4> HIDE DEF g
            <4> QED BY <2>2, <4>1, <4>2, <4>3
        <3> QED BY <3>1, <3>2
    <2>4. g = [k \in 0 .. m |-> g[k]]
        OBVIOUS
    <2> HIDE DEF g
    <2>5. g = [k \in 0 .. m |->
                  IF k = 0 THEN 0
                  ELSE IF frames[k].kind \in kinds THEN g[k - 1] + frames[k].size
                  ELSE g[k - 1]]
        BY <2>3, <2>4
    <2>6. IsWeight(g, m, frames, kinds)
        BY <2>5, Zenon DEF IsWeight
    <2> QED BY <2>6
<1>3. n \in S
    <2> HIDE DEF S
    <2>1. \A k \in 0 .. n : k \in S
        BY <1>1, <1>2, CountUp
    <2> QED BY <2>1
<1> QED BY <1>3

\* A weight and what it is of, for k up to n.
Weighing(f, n, frames, kinds) ==
    \A k \in 0 .. n :
        f[k] = IF k = 0 THEN 0
               ELSE IF frames[k].kind \in kinds THEN f[k - 1] + frames[k].size
               ELSE f[k - 1]

\* The weight of frames is the last of a sequence of weights.
LEMMA WeightOf ==
    ASSUME NEW frames, NEW kinds, Len(frames) \in Nat
    PROVE  \E f : /\ Weighing(f, Len(frames), frames, kinds)
                  /\ Weight(frames, kinds) = f[Len(frames)]
<1> DEFINE n == Len(frames)
           f == CHOOSE f : IsWeight(f, n, frames, kinds)
<1>1. Weight(frames, kinds) = f[n]
    BY WeightIs, Zenon
<1>2. \E g : IsWeight(g, n, frames, kinds)
    <2> HIDE DEF n
    <2> QED BY WeightRuns DEF n
<1> HIDE DEF n
<1>3. IsWeight(f, n, frames, kinds)
    BY <1>2, Zenon
<1>4. Weighing(f, n, frames, kinds)
    <2> HIDE DEF f
    <2> QED BY <1>3 DEF IsWeight, Weighing
<1> QED BY <1>1, <1>4, Zenon DEF n

\* Frames that weigh.
Weighty(frames) ==
    /\ Len(frames) \in Nat
    /\ \A k \in 1 .. Len(frames) : frames[k].size \in Nat /\ frames[k].size >= 1

\* A weight is 0 just if there is no frame of those kinds.
LEMMA WeightNat ==
    ASSUME NEW frames, NEW kinds, Weighty(frames)
    PROVE  /\ Weight(frames, kinds) \in Nat
           /\ Weight(frames, kinds) = 0 <=> \A k \in 1 .. Len(frames) : frames[k].kind \notin kinds
<1> DEFINE n == Len(frames)
<1>1. n \in Nat /\ \A k \in 1 .. n : frames[k].size \in Nat /\ frames[k].size >= 1
    BY DEF Weighty
<1>2. PICK f : Weighing(f, n, frames, kinds) /\ Weight(frames, kinds) = f[n]
    BY <1>1, WeightOf
<1> DEFINE S == {k \in 0 .. n : /\ f[k] \in Nat
                                /\ f[k] = 0 <=> \A j \in 1 .. k : frames[j].kind \notin kinds}
<1> HIDE DEF n
<1>3. 0 \in S
    BY <1>1, <1>2 DEF Weighing
<1>4. ASSUME NEW k \in 1 .. n, k - 1 \in S PROVE k \in S
    <2>1. /\ f[k - 1] \in Nat /\ k - 1 \in 0 .. n /\ k \in 0 .. n
          /\ f[k - 1] = 0 <=> \A j \in 1 .. k - 1 : frames[j].kind \notin kinds
        BY <1>1, <1>4
    <2>2. f[k] = IF frames[k].kind \in kinds THEN f[k - 1] + frames[k].size ELSE f[k - 1]
        BY <1>1, <1>2 DEF Weighing
    <2>3. frames[k].size \in Nat /\ frames[k].size >= 1
        BY <1>1
    <2>4. \A j : j \in 1 .. k <=> j \in 1 .. k - 1 \/ j = k
        BY <1>1
    <2>5. f[k] \in Nat
        BY <2>1, <2>2, <2>3
    <2>6. CASE frames[k].kind \in kinds
        <3>1. f[k] # 0
            BY <2>1, <2>2, <2>3, <2>6
        <3> QED BY <2>1, <2>4, <2>5, <2>6, <3>1
    <2>7. CASE frames[k].kind \notin kinds
        <3>1. f[k] = f[k - 1]
            BY <2>2, <2>7
        <3> QED BY <2>1, <2>4, <2>5, <2>7, <3>1
    <2> QED BY <2>6, <2>7
<1>5. n \in S
    <2> HIDE DEF S
    <2>1. \A k \in 0 .. n : k \in S
        BY <1>1, <1>3, <1>4, CountUp
    <2> QED BY <1>1, <2>1
<1> QED BY <1>2, <1>5 DEF n

\* Frames of fewer kinds weigh no more.
LEMMA WeightFewer ==
    ASSUME NEW frames, NEW few, NEW kinds, Weighty(frames), few \subseteq kinds
    PROVE  Weight(frames, few) <= Weight(frames, kinds)
<1> DEFINE n == Len(frames)
<1>1. n \in Nat /\ \A k \in 1 .. n : frames[k].size \in Nat
    BY DEF Weighty
<1>2. PICK f : Weighing(f, n, frames, few) /\ Weight(frames, few) = f[n]
    BY <1>1, WeightOf
<1>3. PICK g : Weighing(g, n, frames, kinds) /\ Weight(frames, kinds) = g[n]
    BY <1>1, WeightOf
<1> DEFINE S == {k \in 0 .. n : f[k] \in Nat /\ g[k] \in Nat /\ f[k] <= g[k]}
<1> HIDE DEF n
<1>4. 0 \in S
    BY <1>1, <1>2, <1>3 DEF Weighing
<1>5. ASSUME NEW k \in 1 .. n, k - 1 \in S PROVE k \in S
    <2>1. f[k - 1] \in Nat /\ g[k - 1] \in Nat /\ f[k - 1] <= g[k - 1] /\ k \in 0 .. n
        BY <1>1, <1>5
    <2>2. f[k] = IF frames[k].kind \in few THEN f[k - 1] + frames[k].size ELSE f[k - 1]
        BY <1>1, <1>2 DEF Weighing
    <2>3. g[k] = IF frames[k].kind \in kinds THEN g[k - 1] + frames[k].size ELSE g[k - 1]
        BY <1>1, <1>3 DEF Weighing
    <2>4. frames[k].size \in Nat
        BY <1>1
    <2> QED BY <2>1, <2>2, <2>3, <2>4
<1>6. n \in S
    <2> HIDE DEF S
    <2>1. \A k \in 0 .. n : k \in S
        BY <1>1, <1>4, <1>5, CountUp
    <2> QED BY <1>1, <2>1
<1> QED BY <1>2, <1>3, <1>6

\* q followed by f, as frames.
Joined(all, q, f) ==
    /\ Len(q) \in Nat /\ Len(f) \in Nat /\ Len(all) = Len(q) + Len(f)
    /\ \A k \in 1 .. Len(q) : all[k] = q[k]
    /\ \A k \in 1 .. Len(f) : all[Len(q) + k] = f[k]

\* What follows adds its weight.
LEMMA WeightJoined ==
    ASSUME NEW all, NEW q, NEW f, NEW kinds, Joined(all, q, f), Weighty(q), Weighty(f)
    PROVE  Weight(all, kinds) = Weight(q, kinds) + Weight(f, kinds)
<1> DEFINE a == Len(q)
           b == Len(f)
           c == Len(all)
<1>1. /\ a \in Nat /\ b \in Nat /\ c \in Nat /\ c = a + b
      /\ \A k \in 1 .. a : all[k] = q[k]
      /\ \A k \in 1 .. b : all[a + k] = f[k]
      /\ \A k \in 1 .. b : f[k].size \in Nat
    BY DEF Joined, Weighty
<1>2. PICK u : Weighing(u, a, q, kinds) /\ Weight(q, kinds) = u[a]
    BY <1>1, WeightOf
<1>3. PICK v : Weighing(v, b, f, kinds) /\ Weight(f, kinds) = v[b]
    BY <1>1, WeightOf
<1>4. PICK w : Weighing(w, c, all, kinds) /\ Weight(all, kinds) = w[c]
    BY <1>1, WeightOf
<1>5. u[a] \in Nat
    BY <1>2, WeightNat
<1> DEFINE S == {k \in 0 .. a : w[k] = u[k]}
           T == {k \in 0 .. b : v[k] \in Nat /\ w[a + k] = u[a] + v[k]}
<1> HIDE DEF a, b, c
<1>6. \A k \in 0 .. a : k \in S
    <2>1. 0 \in S
        BY <1>1, <1>2, <1>4 DEF Weighing
    <2>2. ASSUME NEW k \in 1 .. a, k - 1 \in S PROVE k \in S
        <3>1. w[k - 1] = u[k - 1] /\ k \in 0 .. a /\ k \in 0 .. c /\ k # 0 /\ all[k] = q[k]
            BY <1>1, <2>2
        <3>2. u[k] = IF q[k].kind \in kinds THEN u[k - 1] + q[k].size ELSE u[k - 1]
            BY <1>2, <3>1 DEF Weighing
        <3>3. w[k] = IF all[k].kind \in kinds THEN w[k - 1] + all[k].size ELSE w[k - 1]
            BY <1>4, <3>1 DEF Weighing
        <3> QED BY <3>1, <3>2, <3>3
    <2> HIDE DEF S
    <2> QED BY <1>1, <2>1, <2>2, CountUp
<1>7. \A k \in 0 .. b : k \in T
    <2>1. 0 \in T
        <3>1. w[a] = u[a]
            BY <1>1, <1>6
        <3>2. v[0] = 0
            BY <1>1, <1>3 DEF Weighing
        <3> QED BY <1>1, <1>5, <3>1, <3>2
    <2>2. ASSUME NEW k \in 1 .. b, k - 1 \in T PROVE k \in T
        <3> DEFINE m == a + k
        <3>1. /\ v[k - 1] \in Nat /\ w[m - 1] = u[a] + v[k - 1]
              /\ k \in 0 .. b /\ m \in 0 .. c /\ k # 0 /\ m # 0 /\ all[m] = f[k] /\ f[k].size \in Nat
            <4>1. a + (k - 1) = m - 1
                BY <1>1
            <4> QED BY <1>1, <2>2, <4>1
        <3> HIDE DEF m
        <3>2. v[k] = IF f[k].kind \in kinds THEN v[k - 1] + f[k].size ELSE v[k - 1]
            BY <1>3, <3>1 DEF Weighing
        <3>3. w[m] = IF all[m].kind \in kinds THEN w[m - 1] + all[m].size ELSE w[m - 1]
            BY <1>4, <3>1 DEF Weighing
        <3>4. v[k] \in Nat /\ w[m] = u[a] + v[k]
            BY <1>5, <3>1, <3>2, <3>3
        <3> QED BY <3>1, <3>4 DEF m
    <2> HIDE DEF T
    <2> QED BY <1>1, <2>1, <2>2, CountUp
<1>8. b \in T
    <2> HIDE DEF T
    <2> QED BY <1>1, <1>7
<1> QED BY <1>1, <1>2, <1>3, <1>4, <1>8

-----------------------------------------------------------------------------
(* What is on its way to the consumer.                                     *)

Kinds == {"response", "notify", "ended"}

Governed == {"response", "notify"}

Frame ==
    [kind : Kinds, reader : SUBSET Reader, cause : Nat, items : Seq(Item), at : Position,
     again : BOOLEAN, size : Nat \ {0}]

Sub == [reader : Reader, cursor : Position]

\* A notification and a notice are for one reader, and only a notification has items.
Sane(frame) ==
    /\ frame \in Frame
    /\ frame.kind = "response" => frame.reader = {}
    /\ frame.kind # "response" => \E r \in Reader : frame.reader = {r}
    /\ frame.kind # "notify" => frame.items = <<>>

\* The frames that the consumer is still to receive: none once nobody writes, and
\* the one in the writer's hand once the connection was abandoned.
Coming ==
    IF writer = "stopped" THEN <<>>
    ELSE IF abandoned THEN IF writer = "writing" THEN <<hand>> ELSE <<>>
    ELSE IF writer = "wrote" THEN Tail(queue)
    ELSE queue

\* Where a reader is before the first n frames, and after each that is for it.
Stops(q, r, n) == {cursor[r]} \cup {q[j].at : j \in {j \in 1 .. n : q[j].reader = {r}}}

\* The first n frames tell a reader of an event.
Brought(q, r, n, i) ==
    \E j \in 1 .. n : q[j].reader = {r} /\ \E m \in DOMAIN q[j].items : Tells(q[j].items[m], i)

\* A position that a reader may go on from after n frames.
Upto(q, r, n, p) ==
    /\ Sound(p)
    /\ \A x \in Stops(q, r, n) : ~Before(p, x)
    /\ \A i \in DOMAIN log :
           since[r] \in 1 .. i /\ Before(Place(i), p) => Accounted(r, i) \/ Brought(q, r, n, i)

\* The items of frame k are of events behind all that came before it, and before its
\* own cursor, and their reader was authorized.
Fresh(q, k, r) ==
    /\ InOrder(q[k].items)
    /\ \A m \in DOMAIN q[k].items :
           /\ \A x \in Stops(q, r, k - 1) : Within(q[k].items[m], x, q[k].at)
           /\ r \notin auth /\ q[k].items[m].type = "event" => q[k].items[m].event <= lapsed[r]

Fits(q, k) ==
    /\ Sane(q[k])
    /\ \A r \in Reader : q[k].reader = {r} =>
           r \in asked /\ Upto(q, r, k, q[k].at) /\ Fresh(q, k, r)

\* The frames fit, and the subscriptions go on from them, but those of some readers.
OnItsWay(q, entries, gone) ==
    /\ \A k \in DOMAIN q : Fits(q, k)
    /\ \A s \in DOMAIN entries :
           entries[s].reader \notin gone => Upto(q, entries[s].reader, Len(q), entries[s].cursor)

\* What a consumer was told is in order and whole, and was said under its grant.
Reached(r) ==
    /\ cursor[r] = Nothing \/ Upto(<<>>, r, 0, cursor[r])
    /\ Orderly(r)
    /\ r \notin auth => \A k \in DOMAIN told[r] : told[r][k] <= lapsed[r]

\* One subscription each, of those that asked.
Distinct(entries) ==
    /\ entries \in Seq(Sub)
    /\ \A j, k \in DOMAIN entries : entries[j].reader = entries[k].reader => j = k
    /\ \A k \in DOMAIN entries : entries[k].reader \in asked /\ Sound(entries[k].cursor)

\* The subscriptions that somebody still writes for.
Live == IF writer = "stopped" THEN <<>> ELSE subs

Delivering ==
    /\ \A q, entries : q = Coming /\ entries = Live => OnItsWay(q, entries, {})
    /\ Distinct(subs)
    /\ \A r \in Reader : Reached(r)

-----------------------------------------------------------------------------
(* The session and the outbox.                                             *)

\* Before and after a connection there is nothing.
Vacant ==
    /\ link = "none" <=> at = "none"
    /\ at = "none" =>
           /\ writer = "stopped" /\ ~abandoned /\ ~failed /\ owes = 0
           /\ queue = <<>> /\ subs = <<>> /\ asked = {}

\* The writer stops for good, and the front frame is in its hand until then.
Writes ==
    /\ writer = "stopped" => at = "none" \/ failed \/ abandoned
    /\ failed => writer = "stopped"
    /\ writer \in {"writing", "wrote"} =>
           Sane(hand) /\ (~abandoned => queue # <<>> /\ hand = Head(queue))
    /\ abandoned => queue = <<>> /\ at \in {"shutdown", "over"}
    /\ abandoned \/ at \in {"notices", "abandon", "shutdown"} => subs = <<>>

\* A session that delivers has answered, and has room for what it is about to queue.
Owes ==
    /\ at \in {"read", "measure", "drain"} \/ (at = "room" /\ resume = "measure") => owes = 0
    /\ at = "push" => queue = <<>>
    /\ at = "drain" => (room = 0 \/ Pending + room <= Bound) /\ (whole => queue = <<>>)

\* Frames are of events that there are.
Known(frames) ==
    /\ frames \in Seq(Frame)
    /\ \A k \in DOMAIN frames :
           /\ Sane(frames[k])
           /\ \A m \in DOMAIN frames[k].items :
                  frames[k].items[m].type = "event" => frames[k].items[m].event \in DOMAIN log

\* The places, the flags and the numbers of TypeOK.
Typed ==
    /\ link \in {"none", "open", "half", "gone"}
    /\ at \in Places
    /\ resume \in {"push", "measure"}
    /\ owes \in Nat /\ after \in {"measure", "read", "close"} /\ plain \in Nat
    /\ room \in 0 .. Bound /\ whole \in BOOLEAN
    /\ asked \subseteq Reader /\ negotiated \in BOOLEAN
    /\ abandoned \in BOOLEAN /\ failed \in BOOLEAN
    /\ writer \in WriterPlaces
    /\ hand = NoFrame <=> writer \in {"idle", "stopped"}
    /\ auth \subseteq Reader /\ over \subseteq Reader
    /\ lapsed \in [Reader -> Nat]
    /\ connects \in Nat

Serving == Typed /\ Vacant /\ Writes /\ Owes

Queued == Known(queue) /\ PendingBounded /\ ResponseFirst

DeliveryInv ==
    /\ StoreTypeOK /\ StoreInv /\ FollowerTypeOK
    /\ Serving /\ Queued /\ Delivering

-----------------------------------------------------------------------------
(* Who is left of some subscriptions, and what a push leaves.              *)

\* f[k] is who is left of the first k entries, for k up to n.
IsKept(f, n, entries, gone) ==
    f = [k \in 0 .. n |->
            IF k = 0 THEN <<>>
            ELSE IF entries[k].reader \in gone THEN f[k - 1]
            ELSE Append(f[k - 1], entries[k])]

\* Without is that, of all entries.
LEMMA KeptIs ==
    ASSUME NEW entries, NEW gone
    PROVE  Without(entries, gone)
               = (CHOOSE f : IsKept(f, Len(entries), entries, gone))[Len(entries)]
BY Zenon DEF Without, IsKept

\* There is one, for any number of entries.
LEMMA KeptRuns ==
    ASSUME NEW n \in Nat, NEW entries, NEW gone
    PROVE  \E f : IsKept(f, n, entries, gone)
<1> DEFINE S == {m \in 0 .. n : \E f : IsKept(f, m, entries, gone)}
<1>1. 0 \in S
    <2> DEFINE f == [k \in 0 .. 0 |-> <<>>]
    <2>1. f = [k \in 0 .. 0 |->
                  IF k = 0 THEN <<>>
                  ELSE IF entries[k].reader \in gone THEN f[k - 1]
                  ELSE Append(f[k - 1], entries[k])]
        OBVIOUS
    <2> HIDE DEF f
    <2>2. IsKept(f, 0, entries, gone)
        BY <2>1, Zenon DEF IsKept
    <2> QED BY <2>2
<1>2. ASSUME NEW m \in 1 .. n, m - 1 \in S PROVE m \in S
    <2>1. PICK f : IsKept(f, m - 1, entries, gone)
        BY <1>2
    <2> DEFINE last == IF entries[m].reader \in gone THEN f[m - 1] ELSE Append(f[m - 1], entries[m])
               g == [k \in 0 .. m |-> IF k = m THEN last ELSE f[k]]
    <2>2. \A k \in 0 .. m - 1 :
              f[k] = IF k = 0 THEN <<>>
                     ELSE IF entries[k].reader \in gone THEN f[k - 1]
                     ELSE Append(f[k - 1], entries[k])
        BY <2>1 DEF IsKept
    <2>3. ASSUME NEW k \in 0 .. m
          PROVE  g[k] = IF k = 0 THEN <<>>
                        ELSE IF entries[k].reader \in gone THEN g[k - 1]
                        ELSE Append(g[k - 1], entries[k])
        <3>1. CASE k = m
            <4>1. g[k] = last /\ g[k - 1] = f[m - 1] /\ k # 0
                BY <3>1
            <4> HIDE DEF g
            <4> QED BY <3>1, <4>1
        <3>2. CASE k # m
            <4>1. k \in 0 .. m - 1
                BY <3>2
            <4>2. g[k] = f[k]
                BY <3>2
            <4>3. k # 0 => g[k - 1] = f[k - 1]
                BY <3>2
            <4> HIDE DEF g
            <4> QED BY <2>2, <4>1, <4>2, <4>3
        <3> QED BY <3>1, <3>2
    <2>4. g = [k \in 0 .. m |-> g[k]]
        OBVIOUS
    <2> HIDE DEF g
    <2>5. g = [k \in 0 .. m |->
                  IF k = 0 THEN <<>>
                  ELSE IF entries[k].reader \in gone THEN g[k - 1]
                  ELSE Append(g[k - 1], entries[k])]
        BY <2>3, <2>4
    <2>6. IsKept(g, m, entries, gone)
        BY <2>5, Zenon DEF IsKept
    <2> QED BY <2>6
<1>3. n \in S
    <2> HIDE DEF S
    <2>1. \A k \in 0 .. n : k \in S
        BY <1>1, <1>2, CountUp
    <2> QED BY <2>1
<1> QED BY <1>3

\* Some of the first n entries, a reader each.
SomeLeft(out, entries, n, gone) ==
    /\ out \in Seq(Sub)
    /\ \A j \in DOMAIN out : \E k \in 1 .. n : out[j] = entries[k] /\ entries[k].reader \notin gone
    /\ \A i, j \in DOMAIN out : out[i].reader = out[j].reader => i = j

\* Whoever is left had a subscription, and has one still.
LEMMA WithoutIs ==
    ASSUME NEW entries \in Seq(Sub), NEW gone,
           \A j, k \in DOMAIN entries : entries[j].reader = entries[k].reader => j = k
    PROVE  SomeLeft(Without(entries, gone), entries, Len(entries), gone)
<1> DEFINE n == Len(entries)
           f == CHOOSE f : IsKept(f, n, entries, gone)
<1>1. n \in Nat /\ DOMAIN entries = 1 .. n
    OBVIOUS
<1>2. Without(entries, gone) = f[n]
    BY KeptIs, Zenon
<1>3. \E g : IsKept(g, n, entries, gone)
    <2> HIDE DEF n
    <2> QED BY <1>1, KeptRuns
<1> HIDE DEF n
<1>4. IsKept(f, n, entries, gone)
    BY <1>3, Zenon
<1> HIDE DEF f
<1>5. \A k \in 0 .. n :
          f[k] = IF k = 0 THEN <<>>
                 ELSE IF entries[k].reader \in gone THEN f[k - 1]
                 ELSE Append(f[k - 1], entries[k])
    BY <1>4 DEF IsKept
<1> DEFINE S == {k \in 0 .. n : SomeLeft(f[k], entries, k, gone)}
<1>6. 0 \in S
    <2>1. 0 \in 0 .. n /\ f[0] = <<>>
        BY <1>1, <1>5
    <2>2. DOMAIN <<>> = {} /\ <<>> \in Seq(Sub)
        OBVIOUS
    <2>3. PICK out : out = <<>>
        OBVIOUS
    <2>4. SomeLeft(out, entries, 0, gone)
        BY <2>2, <2>3, Zenon DEF SomeLeft
    <2> QED BY <2>1, <2>3, <2>4
<1>7. ASSUME NEW k \in 1 .. n, k - 1 \in S PROVE k \in S
    <2>1. PICK was : was = f[k - 1]
        OBVIOUS
    <2>2. PICK new : new = f[k]
        OBVIOUS
    <2>3. SomeLeft(was, entries, k - 1, gone)
        BY <1>7, <2>1
    <2>4. k \in 0 .. n /\ k \in Nat /\ k \in DOMAIN entries /\ k # 0 /\ \A m \in 1 .. k - 1 : m \in 1 .. k /\ m # k
        BY <1>1
    <2>5. new = IF entries[k].reader \in gone THEN was ELSE Append(was, entries[k])
        BY <1>5, <2>1, <2>2, <2>4
    <2>6. ASSUME entries[k].reader \in gone PROVE SomeLeft(new, entries, k, gone)
        <3>1. new = was
            BY <2>5, <2>6
        <3>2. \A m \in 1 .. k - 1 : m \in 1 .. k
            BY <2>4
        <3> QED BY <2>3, <3>1, <3>2, Zenon DEF SomeLeft
    <2>7. ASSUME entries[k].reader \notin gone PROVE SomeLeft(new, entries, k, gone)
        <3> DEFINE l == Len(was)
        <3>1. was \in Seq(Sub) /\ entries[k] \in Sub /\ new = Append(was, entries[k])
            BY <2>3, <2>4, <2>5, <2>7 DEF SomeLeft
        <3>2. /\ l \in Nat /\ DOMAIN was = 1 .. l /\ DOMAIN new = 1 .. l + 1 /\ new \in Seq(Sub)
              /\ \A j \in 1 .. l : new[j] = was[j]
              /\ new[l + 1] = entries[k]
            BY <3>1
        <3> HIDE DEF l
        <3>3. ASSUME NEW j \in 1 .. l + 1
              PROVE  \E m \in 1 .. k : new[j] = entries[m] /\ entries[m].reader \notin gone
            <4>1. CASE j = l + 1
                BY <2>4, <2>7, <3>2, <4>1
            <4>2. CASE j \in 1 .. l
                BY <2>3, <2>4, <3>2, <4>2 DEF SomeLeft
            <4> QED BY <3>2, <4>1, <4>2
        <3>4. ASSUME NEW j \in 1 .. l PROVE new[j].reader # entries[k].reader
            <4>1. PICK m \in 1 .. k - 1 : new[j] = entries[m]
                BY <2>3, <3>2 DEF SomeLeft
            <4>2. m \in DOMAIN entries /\ m # k
                BY <1>1, <2>4, <4>1
            <4> QED BY <2>4, <4>1, <4>2
        <3>5. ASSUME NEW i \in 1 .. l + 1, NEW j \in 1 .. l + 1, new[i].reader = new[j].reader
              PROVE  i = j
            <4>1. CASE i \in 1 .. l /\ j \in 1 .. l
                BY <2>3, <3>2, <3>5, <4>1 DEF SomeLeft
            <4>2. CASE i = l + 1 \/ j = l + 1
                BY <3>2, <3>4, <3>5, <4>2
            <4> QED BY <3>2, <4>1, <4>2
        <3> QED BY <3>2, <3>3, <3>5, Zenon DEF SomeLeft
    <2>8. SomeLeft(new, entries, k, gone)
        BY <2>6, <2>7
    <2> QED BY <2>2, <2>4, <2>8
<1>8. n \in S
    <2> HIDE DEF S
    <2>1. \A k \in 0 .. n : k \in S
        BY <1>1, <1>6, <1>7, CountUp
    <2> QED BY <1>1, <2>1
<1> QED BY <1>2, <1>8 DEF n

\* Frames weigh.
LEMMA FramesWeigh ==
    ASSUME NEW frames \in Seq(Frame)
    PROVE  Weighty(frames)
<1>1. \A k \in 1 .. Len(frames) : frames[k] \in Frame
    OBVIOUS
<1>2. Len(frames) \in Nat
    OBVIOUS
<1> QED BY <1>1, <1>2 DEF Weighty, Frame

\* Frames pushed behind others, and frames without their first.
LEMMA JoinIs ==
    ASSUME NEW S, NEW q \in Seq(S), NEW f \in Seq(S)
    PROVE  /\ Joined(q \o f, q, f) /\ q \o f \in Seq(S)
           /\ q # <<>> => /\ Head(q) \in S /\ Tail(q) \in Seq(S)
                          /\ Joined(q, <<Head(q)>>, Tail(q))
<1>1. /\ q \o f \in Seq(S) /\ Len(q) \in Nat /\ Len(f) \in Nat /\ Len(q \o f) = Len(q) + Len(f)
      /\ \A k \in 1 .. Len(q) : (q \o f)[k] = q[k]
      /\ \A k \in 1 .. Len(f) : (q \o f)[Len(q) + k] = f[k]
    OBVIOUS
<1>2. ASSUME q # <<>> PROVE Head(q) \in S /\ Tail(q) \in Seq(S) /\ Joined(q, <<Head(q)>>, Tail(q))
    <2> DEFINE one == <<Head(q)>>
               tail == Tail(q)
    <2>1. /\ Head(q) \in S /\ tail \in Seq(S) /\ Len(one) = 1 /\ one[1] = q[1]
          /\ Len(q) = 1 + Len(tail) /\ Len(tail) \in Nat
          /\ \A k \in 1 .. Len(tail) : q[1 + k] = tail[k]
        BY <1>2
    <2> HIDE DEF one, tail
    <2>2. Joined(q, one, tail)
        BY <2>1 DEF Joined
    <2> QED BY <2>1, <2>2 DEF one, tail
<1> QED BY <1>1, <1>2 DEF Joined

\* One frame weighs what it weighs.
LEMMA WeightOne ==
    ASSUME NEW frame \in Frame, NEW kinds
    PROVE  /\ Weight(<<frame>>, kinds) = IF frame.kind \in kinds THEN frame.size ELSE 0
           /\ Weight(<<>>, kinds) = 0
<1> DEFINE one == <<frame>>
<1>1. Len(one) = 1 /\ one[1] = frame /\ frame.size \in Nat
    BY DEF Frame
<1> HIDE DEF one
<1>2. PICK f : Weighing(f, 1, one, kinds) /\ Weight(one, kinds) = f[1]
    <2>1. Len(one) \in Nat
        BY <1>1
    <2>2. PICK f : Weighing(f, Len(one), one, kinds) /\ Weight(one, kinds) = f[Len(one)]
        BY <2>1, WeightOf
    <2> QED BY <1>1, <2>2
<1>3. f[0] = 0
    BY <1>2 DEF Weighing
<1>4. f[1] = IF one[1].kind \in kinds THEN f[0] + one[1].size ELSE f[0]
    BY <1>2 DEF Weighing
<1>5. Weight(<<>>, kinds) = 0
    <2> DEFINE none == <<>>
    <2>1. Len(none) = 0
        OBVIOUS
    <2> HIDE DEF none
    <2>2. PICK g : Weighing(g, 0, none, kinds) /\ Weight(none, kinds) = g[0]
        BY <2>1, WeightOf
    <2>3. Weight(none, kinds) = 0
        BY <2>2 DEF Weighing
    <2> QED BY <2>3 DEF none
<1> QED BY <1>1, <1>2, <1>3, <1>4, <1>5 DEF one

-----------------------------------------------------------------------------
(* How what is on its way changes.                                         *)

\* A revision is never taken back.
LEMMA RevGrows ==
    ASSUME StoreInv, StoreNext \/ UNCHANGED store
    PROVE  \A s \in Subject : rev[s] <= rev'[s]
<1> SUFFICES ASSUME NEW x \in Subject PROVE rev[x] <= rev'[x]
    OBVIOUS
<1>1. rev \in [Subject -> Nat]
    BY DEF StoreInv, Stored
<1>2. ASSUME NEW s, NEW more, NEW also, NEW tells, CommitCommand(s, more, also, tells)
      PROVE  rev[x] <= rev'[x]
    BY <1>1, <1>2 DEF CommitCommand
<1>3. ASSUME NEW s, NEW events, CommitProviderChange(s, events) PROVE rev[x] <= rev'[x]
    BY <1>1, <1>3 DEF CommitProviderChange
<1>4. ASSUME NEW s, NEW revisions \in 1 .. 2, NEW tells, CommitBatch(s, revisions, tells)
      PROVE  rev[x] <= rev'[x]
    BY <1>1, <1>4 DEF CommitBatch
<1>5. ReconcileCapabilities => rev[x] <= rev'[x]
    BY <1>1 DEF ReconcileCapabilities
<1>6. CASE UNCHANGED rev
    BY <1>1, <1>6
<1>7. Crash \/ Open \/ SameEpoch \/ RetainAll \/ UNCHANGED store => UNCHANGED rev
    BY DEF Crash, Open, SameEpoch, RetainAll, store
<1>8. \A u : StartNewEpoch(u) => UNCHANGED rev
    BY DEF StartNewEpoch
<1>9. \A n : RetainLastEvents(n) => UNCHANGED rev
    BY DEF RetainLastEvents
<1> QED BY <1>2, <1>3, <1>4, <1>5, <1>6, <1>7, <1>8, <1>9, Zenon DEF StoreNext

\* The events there were keep their places, and a new one is behind every cursor.
LEMMA PlacesStay ==
    ASSUME StoreInv, StoreInv', Grows
    PROVE  /\ \A i \in DOMAIN log : /\ i \in DOMAIN log' /\ log'[i] = log[i]
                                    /\ Place(i)' = Place(i) /\ Place(i) \in Position
           /\ \A p : Sound(p) => Sound(p)'
           /\ \A p : Sound(p) => \A i \in DOMAIN log' : Before(Place(i)', p) => i \in DOMAIN log
<1>1. /\ DOMAIN log = 1 .. Len(log) /\ DOMAIN log' = 1 .. Len(log') /\ Len(log) \in Nat
      /\ Len(log') \in Nat /\ Len(log) <= Len(log')
      /\ \A i \in DOMAIN log : i \in DOMAIN log' /\ log'[i] = log[i]
      /\ \A i \in DOMAIN log' : log'[i].epoch \in Nat /\ log'[i].seq \in Nat
    <2>1. PlacesNat'
        BY PlacesEver, PTL DEF StoreInv
    <2>2. log \in Seq(Event) /\ log' \in Seq(Event)
        BY DEF StoreInv, Stored
    <2> QED BY <2>1, <2>2 DEF Grows, PlacesNat
<1>2. ASSUME NEW i \in DOMAIN log PROVE Place(i)' = Place(i) /\ Place(i) \in Position
    BY <1>1, PlaceType DEF Place, StoreInv
<1>3. ASSUME NEW p, Sound(p) PROVE Sound(p)'
    BY <1>3 DEF Sound, Grows
<1>4. ASSUME NEW p, Sound(p), NEW i \in DOMAIN log', Before(Place(i)', p) PROVE i \in DOMAIN log
    <2> SUFFICES ASSUME i \notin DOMAIN log PROVE FALSE
        OBVIOUS
    <2>1. /\ log'[i].epoch = Epoch /\ log'[i].seq > LastSequence(Epoch)
          /\ LastSequence(Epoch) \in Nat /\ log'[i].epoch \in Nat /\ log'[i].seq \in Nat
        BY <1>1 DEF Grows
    <2>2. Place(i)'.epoch = log'[i].epoch /\ Place(i)'.seq = log'[i].seq
        BY DEF Place
    <2>3. p.epoch <= Epoch /\ (p.epoch = Epoch => p.seq <= LastSequence(Epoch) + 1)
        BY <1>4 DEF Sound, ValidCursor
    <2>4. Epoch \in Nat /\ p.epoch \in Nat /\ p.seq \in Nat
        BY <1>4, EpochEnd DEF Sound, Position
    <2> QED BY <1>4, <2>1, <2>2, <2>3, <2>4 DEF Before
<1> QED BY <1>1, <1>2, <1>3, <1>4

\* A position to go on from stays one, when the stops before it become fewer and
\* nothing that was accounted for is forgotten.
LEMMA UptoMoves ==
    ASSUME StoreInv, StoreInv', Grows, NEW r \in Reader,
           NEW q, NEW n, NEW qq, NEW nn, NEW p, Upto(q, r, n, p),
           since'[r] = since[r],
           \A x \in Stops(qq, r, nn)' : x \in Stops(q, r, n),
           \A i \in DOMAIN log :
               Accounted(r, i) \/ Brought(q, r, n, i) => Accounted(r, i)' \/ Brought(qq, r, nn, i)'
    PROVE  Upto(qq, r, nn, p)'
<1>1. Sound(p) /\ \A x \in Stops(q, r, n) : ~Before(p, x)
    BY DEF Upto
<1>2. Sound(p)'
    BY <1>1, PlacesStay
<1>3. \A x \in Stops(qq, r, nn)' : ~Before(p, x)
    BY <1>1
<1>4. ASSUME NEW i \in DOMAIN log', since'[r] \in 1 .. i, Before(Place(i)', p)
      PROVE  Accounted(r, i)' \/ Brought(qq, r, nn, i)'
    <2>1. i \in DOMAIN log /\ Place(i)' = Place(i)
        BY <1>1, <1>4, PlacesStay
    <2>2. Accounted(r, i) \/ Brought(q, r, n, i)
        BY <1>4, <2>1 DEF Upto
    <2> QED BY <2>1, <2>2
<1>5. \A x : Before(p, x)' <=> Before(p, x)
    BY DEF Before
<1>6. \A i : Before(Place(i), p)' <=> Before(Place(i)', p)
    BY DEF Before
<1> QED BY <1>2, <1>3, <1>4, <1>5, <1>6 DEF Upto

\* A frame tells of the events that it told of.
LEMMA BroughtStays ==
    ASSUME StoreInv, StoreInv', Grows,
           NEW q, NEW r, NEW n, NEW i \in DOMAIN log
    PROVE  /\ Brought(q, r, n, i)' <=> Brought(q, r, n, i)
           /\ \A item : Tells(item, i)' <=> Tells(item, i)
<1>1. log'[i] = log[i]
    BY PlacesStay
<1>2. ASSUME NEW item PROVE Tells(item, i)' <=> Tells(item, i)
    BY <1>1 DEF Tells
<1> QED BY <1>2, Zenon DEF Brought

\* Who keeps what he was given, and whose authority ended no earlier than he was last
\* told.
Lapses ==
    \A r \in Reader : r \notin auth' =>
        \/ r \notin auth /\ lapsed'[r] = lapsed[r]
        \/ lapsed'[r] = Len(log)

\* What is on its way stays so when the store or a grant makes a step.
LEMMA WayStays ==
    ASSUME StoreInv, StoreInv', Grows, \A s \in Subject : rev[s] <= rev'[s],
           UNCHANGED followers, Lapses, asked \subseteq asked',
           NEW q, NEW entries \in Seq(Sub), NEW gone, OnItsWay(q, entries, gone)
    PROVE  OnItsWay(q, entries, gone)'
<1>1. ASSUME NEW r \in Reader, NEW n, NEW p, Upto(q, r, n, p) PROVE Upto(q, r, n, p)'
    <2>1. cursor' = cursor /\ since' = since
        BY DEF followers
    <2>2. \A x \in Stops(q, r, n)' : x \in Stops(q, r, n)
        BY <2>1 DEF Stops
    <2>3. ASSUME NEW i \in DOMAIN log, Accounted(r, i) PROVE Accounted(r, i)'
        <3>1. log'[i] = log[i]
            BY PlacesStay
        <3> QED BY <2>3, <3>1 DEF Accounted, followers
    <2>4. \A i \in DOMAIN log : Brought(q, r, n, i) => Brought(q, r, n, i)'
        BY BroughtStays
    <2>5. \A i \in DOMAIN log :
              Accounted(r, i) \/ Brought(q, r, n, i) => Accounted(r, i)' \/ Brought(q, r, n, i)'
        BY <2>3, <2>4
    <2> QED BY <1>1, <2>1, <2>2, <2>5, UptoMoves
<1>2. ASSUME NEW k \in DOMAIN q, NEW r \in Reader, q[k].reader = {r}, Fresh(q, k, r)
      PROVE  Fresh(q, k, r)'
    <2> DEFINE items == q[k].items
    <2>1. InOrder(items)'
        BY <1>2 DEF Fresh, InOrder
    <2>2. ASSUME NEW m \in DOMAIN items, NEW x, Within(items[m], x, q[k].at)
          PROVE  Within(items[m], x, q[k].at)'
        <3>1. items[m].type = "event" =>
                  /\ items[m].event \in DOMAIN log'
                  /\ ~Before(Place(items[m].event)', x) /\ Before(Place(items[m].event)', q[k].at)
            BY <2>2, PlacesStay DEF Within
        <3>2. items[m].type = "gap" => \A s \in DOMAIN items[m].subjects : items[m].subjects[s] <= rev'[s]
            <4> SUFFICES ASSUME items[m].type = "gap", NEW s \in DOMAIN items[m].subjects
                         PROVE  items[m].subjects[s] <= rev'[s]
                OBVIOUS
            <4>1. items[m].subjects[s] <= rev[s]
                BY <2>2 DEF Within
            <4>2. items[m] \in Item
                BY DEF OnItsWay, Fits, Sane, Frame
            <4>3. items[m] \in [type : {"gap"}, from : Position, to : Position,
                                subjects : UNION {[S -> Nat] : S \in SUBSET Subject}]
                BY <4>2 DEF Item
            <4>4. s \in Subject /\ items[m].subjects[s] \in Nat
                BY <4>3
            <4>5. rev[s] \in Nat /\ rev'[s] \in Nat /\ rev[s] <= rev'[s]
                BY <4>4 DEF StoreInv, Stored
            <4> QED BY <4>1, <4>4, <4>5
        <3>3. \A i : Before(Place(i), x)' <=> Before(Place(i)', x)
            BY DEF Before
        <3>4. \A i : Before(Place(i), q[k].at)' <=> Before(Place(i)', q[k].at)
            BY DEF Before
        <3> QED BY <3>1, <3>2, <3>3, <3>4 DEF Within
    <2>3. Stops(q, r, k - 1)' = Stops(q, r, k - 1)
        BY DEF Stops, followers
    <2>4. ASSUME NEW m \in DOMAIN items, r \notin auth', items[m].type = "event"
          PROVE  items[m].event <= lapsed'[r]
        <3>1. CASE r \notin auth /\ lapsed'[r] = lapsed[r]
            BY <1>2, <2>4, <3>1 DEF Fresh
        <3>2. CASE lapsed'[r] = Len(log)
            <4>1. items[m].event \in DOMAIN log
                BY <1>2, <2>4 DEF Fresh, Stops, Within
            <4>2. DOMAIN log = 1 .. Len(log) /\ Len(log) \in Nat
                BY DEF StoreInv, Stored
            <4> QED BY <3>2, <4>1, <4>2
        <3> QED BY <2>4, <3>1, <3>2 DEF Lapses
    <2>5. ASSUME NEW m \in DOMAIN items, NEW x \in Stops(q, r, k - 1)' PROVE Within(items[m], x, q[k].at)'
        BY <1>2, <2>2, <2>3, <2>5 DEF Fresh
    <2> QED BY <2>1, <2>4, <2>5 DEF Fresh
<1>3. ASSUME NEW k \in DOMAIN q PROVE Fits(q, k)'
    <2>1. Fits(q, k)
        BY DEF OnItsWay
    <2>2. Sane(q[k])'
        BY <2>1 DEF Fits, Sane
    <2>3. ASSUME NEW r \in Reader, q[k].reader = {r}
          PROVE  r \in asked' /\ Upto(q, r, k, q[k].at)' /\ Fresh(q, k, r)'
        <3>1. r \in asked /\ Upto(q, r, k, q[k].at) /\ Fresh(q, k, r)
            BY <2>1, <2>3 DEF Fits
        <3> QED BY <1>1, <1>2, <2>3, <3>1
    <2> QED BY <2>2, <2>3 DEF Fits
<1>4. ASSUME NEW s \in DOMAIN entries, entries[s].reader \notin gone
      PROVE  Upto(q, entries[s].reader, Len(q), entries[s].cursor)'
    <2>1. Upto(q, entries[s].reader, Len(q), entries[s].cursor)
        BY <1>4 DEF OnItsWay
    <2>2. entries[s] \in Sub
        OBVIOUS
    <2>3. entries[s].reader \in Reader
        BY <2>2 DEF Sub
    <2> QED BY <1>1, <2>1, <2>3
<1> QED BY <1>3, <1>4 DEF OnItsWay

\* And so does what was told.
LEMMA ReachedStays ==
    ASSUME StoreInv, StoreInv', Grows, FollowerTypeOK, UNCHANGED <<cursor, told, known, lost>>, Lapses,
           NEW r \in Reader, Reached(r), since'[r] = since[r] \/ cursor[r] = Nothing
    PROVE  Reached(r)'
<1>1. ASSUME cursor[r] # Nothing PROVE Upto(<<>>, r, 0, cursor[r])'
    <2>1. PICK p : p = cursor[r]
        OBVIOUS
    <2>2. PICK q : q = <<>>
        OBVIOUS
    <2>3. Upto(q, r, 0, p) /\ p = cursor'[r] /\ since'[r] = since[r]
        BY <1>1, <2>1, <2>2 DEF Reached
    <2>4. \A x \in Stops(q, r, 0)' : x \in Stops(q, r, 0)
        BY DEF Stops
    <2>5. ASSUME NEW i \in DOMAIN log, Accounted(r, i) PROVE Accounted(r, i)'
        <3>1. log'[i] = log[i]
            BY PlacesStay
        <3> QED BY <2>5, <3>1 DEF Accounted
    <2>6. \A i \in DOMAIN log :
              Accounted(r, i) \/ Brought(q, r, 0, i) => Accounted(r, i)' \/ Brought(q, r, 0, i)'
        BY <2>5, BroughtStays
    <2>7. Upto(q, r, 0, p)'
        BY <2>3, <2>4, <2>6, UptoMoves
    <2> QED BY <2>2, <2>3, <2>7
<1>2. PICK t : t = told[r]
    OBVIOUS
<1>3. PICK p : p = cursor[r]
    OBVIOUS
<1>4. t \in Seq(Nat) /\ told'[r] = t /\ cursor'[r] = p
    BY <1>2, <1>3 DEF FollowerTypeOK
<1>5. Orderly(r)'
    <2>1. ASSUME NEW j \in DOMAIN t PROVE t[j] \in DOMAIN log' /\ Before(Place(t[j])', p)
        <3>1. t[j] \in DOMAIN log /\ Before(Place(t[j]), p)
            BY <1>2, <1>3 DEF Reached, Orderly
        <3> QED BY <3>1, PlacesStay
    <2>2. \A j, k \in DOMAIN t : j < k => t[j] < t[k]
        BY <1>2 DEF Reached, Orderly
    <2>3. \A i : Before(Place(i), p)' <=> Before(Place(i)', p)
        BY DEF Before
    <2> QED BY <1>4, <2>1, <2>2, <2>3 DEF Orderly, Before
<1>6. ASSUME r \notin auth', NEW k \in DOMAIN t PROVE t[k] <= lapsed'[r]
    <2>1. CASE r \notin auth /\ lapsed'[r] = lapsed[r]
        BY <1>2, <2>1 DEF Reached
    <2>2. CASE lapsed'[r] = Len(log)
        <3>1. t[k] \in DOMAIN log
            BY <1>2 DEF Reached, Orderly
        <3>2. DOMAIN log = 1 .. Len(log) /\ Len(log) \in Nat
            BY DEF StoreInv, Stored
        <3> QED BY <2>2, <3>1, <3>2
    <2> QED BY <1>6, <2>1, <2>2 DEF Lapses
<1> QED BY <1>1, <1>4, <1>5, <1>6 DEF Reached

\* What is before the first n frames, and what they tell, depends on them alone.
LEMMA UptoSame ==
    ASSUME NEW q, NEW qq, NEW n \in Nat, \A j \in 1 .. n : qq[j] = q[j], NEW r
    PROVE  /\ \A p : Upto(q, r, n, p) => Upto(qq, r, n, p)
           /\ Stops(qq, r, n) = Stops(q, r, n)
           /\ \A i : Brought(q, r, n, i) => Brought(qq, r, n, i)
<1>1. Stops(qq, r, n) = Stops(q, r, n)
    BY DEF Stops
<1>2. ASSUME NEW i, Brought(q, r, n, i) PROVE Brought(qq, r, n, i)
    <2>1. PICK j \in 1 .. n : q[j].reader = {r} /\ \E m \in DOMAIN q[j].items : Tells(q[j].items[m], i)
        BY <1>2 DEF Brought
    <2>2. qq[j] = q[j]
        BY <2>1
    <2> QED BY <2>1, <2>2 DEF Brought
<1>3. ASSUME NEW p, Upto(q, r, n, p) PROVE Upto(qq, r, n, p)
    BY <1>1, <1>2, <1>3 DEF Upto
<1> QED BY <1>1, <1>2, <1>3

\* And so does whether one of them fits.
LEMMA FitsSame ==
    ASSUME NEW q, NEW qq, NEW k \in Nat, k >= 1, \A j \in 1 .. k : qq[j] = q[j], Fits(q, k)
    PROVE  Fits(qq, k)
<1>1. qq[k] = q[k]
    OBVIOUS
<1>2. Sane(qq[k])
    BY <1>1 DEF Fits
<1>3. ASSUME NEW r \in Reader, qq[k].reader = {r}
      PROVE  r \in asked /\ Upto(qq, r, k, qq[k].at) /\ Fresh(qq, k, r)
    <2>1. r \in asked /\ Upto(q, r, k, q[k].at) /\ Fresh(q, k, r)
        BY <1>1, <1>3 DEF Fits
    <2>2. k - 1 \in Nat /\ \A j \in 1 .. k - 1 : qq[j] = q[j]
        OBVIOUS
    <2>3. Stops(qq, r, k - 1) = Stops(q, r, k - 1)
        BY <2>2, UptoSame
    <2>4. Fresh(qq, k, r)
        BY <1>1, <2>1, <2>3 DEF Fresh
    <2>5. Upto(qq, r, k, q[k].at)
        BY <2>1, UptoSame
    <2> QED BY <1>1, <2>1, <2>4, <2>5
<1> QED BY <1>2, <1>3 DEF Fits

\* Frames for others do not move a reader.
LEMMA UptoMore ==
    ASSUME NEW q, NEW n \in Nat, NEW m \in Nat, n <= m, NEW r,
           \A j \in n + 1 .. m : q[j].reader # {r}, NEW p, Upto(q, r, n, p)
    PROVE  Upto(q, r, m, p)
<1>1. \A j \in 1 .. m : q[j].reader = {r} => j \in 1 .. n
    OBVIOUS
<1>2. \A j \in 1 .. n : j \in 1 .. m
    OBVIOUS
<1>3. Stops(q, r, m) = Stops(q, r, n)
    BY <1>1, <1>2 DEF Stops
<1>4. \A i : Brought(q, r, n, i) => Brought(q, r, m, i)
    BY <1>2 DEF Brought
<1> QED BY <1>3, <1>4 DEF Upto

\* A frame with what was read from where a reader was.
LEMMA Onward ==
    ASSUME StoreInv, cursor \in [Reader -> Position], NEW r \in Reader, NEW q, NEW n \in Nat,
           \A j \in 1 .. n : q[j].at \in Position,
           NEW start, Upto(q, r, n, start),
           NEW read, ReadInv(read, start, Sees[r] \cap Wants[r]),
           q[n + 1].reader = {r}, q[n + 1].items = read.items, q[n + 1].at = read.at
    PROVE  /\ Upto(q, r, n + 1, read.at)
           /\ r \in auth \/ read.items = <<>> => Fresh(q, n + 1, r)
<1>1. /\ Sound(start) /\ \A x \in Stops(q, r, n) : ~Before(start, x)
      /\ start \in Position /\ \A x \in Stops(q, r, n) : x \in Position
    BY DEF Upto, Sound, Stops
<1>2. read \in Read /\ Sound(read.at) /\ read.at \in Position /\ ~Before(read.at, start)
    BY DEF ReadInv, Sound
<1>3. ASSUME NEW x \in Stops(q, r, n) PROVE ~Before(read.at, x)
    BY <1>1, <1>2, <1>3, BeforeTransitive
<1>4. Stops(q, r, n + 1) = Stops(q, r, n) \cup {read.at}
    <2>1. \A j : j \in 1 .. n + 1 <=> j \in 1 .. n \/ j = n + 1
        OBVIOUS
    <2> QED BY <2>1 DEF Stops
<1>5. ~Before(read.at, read.at)
    BY <1>2, BeforeOrder
<1>6. ASSUME NEW i \in DOMAIN log, since[r] \in 1 .. i, Before(Place(i), read.at)
      PROVE  Accounted(r, i) \/ Brought(q, r, n + 1, i)
    <2>1. CASE Before(Place(i), start)
        <3>1. Accounted(r, i) \/ Brought(q, r, n, i)
            BY <1>6, <2>1 DEF Upto
        <3>2. \A j \in 1 .. n : j \in 1 .. n + 1
            OBVIOUS
        <3> QED BY <3>1, <3>2 DEF Brought
    <2>2. CASE ~Before(Place(i), start)
        <3>1. Covers(read.items, i, Sees[r] \cap Wants[r])
            BY <1>6, <2>2 DEF ReadInv
        <3>2. CASE log[i].subject \notin Sees[r] \cap Wants[r]
            BY <3>2 DEF Accounted
        <3>3. CASE \E k \in DOMAIN read.items : Tells(read.items[k], i)
            <4>1. n + 1 \in 1 .. n + 1
                OBVIOUS
            <4> QED BY <3>3, <4>1 DEF Brought
        <3> QED BY <3>1, <3>2, <3>3 DEF Covers
    <2> QED BY <2>1, <2>2
<1>7. Upto(q, r, n + 1, read.at)
    BY <1>2, <1>3, <1>4, <1>5, <1>6 DEF Upto
<1>8. ASSUME r \in auth \/ read.items = <<>> PROVE Fresh(q, n + 1, r)
    <2>1. PICK items : items = read.items
        OBVIOUS
    <2>2. InOrder(items) /\ q[n + 1].items = items /\ q[n + 1].at = read.at
        BY <2>1 DEF ReadInv
    <2>3. ASSUME NEW m \in DOMAIN items, NEW x \in Stops(q, r, n)
          PROVE  Within(items[m], x, read.at)
        <3>1. Within(items[m], start, read.at)
            BY <2>1 DEF ReadInv
        <3>2. ASSUME items[m].type = "event" PROVE ~Before(Place(items[m].event), x)
            <4>1. items[m].event \in DOMAIN log /\ ~Before(Place(items[m].event), start)
                BY <3>1, <3>2 DEF Within
            <4>2. Place(items[m].event) \in Position
                BY <4>1, PlaceType DEF StoreInv
            <4> QED BY <1>1, <4>1, <4>2, BeforeTransitive
        <3> QED BY <3>1, <3>2 DEF Within
    <2>4. (n + 1) - 1 = n
        OBVIOUS
    <2>5. ASSUME NEW m \in DOMAIN items PROVE ~(r \notin auth)
        <3>1. items # <<>>
            BY <2>5
        <3> QED BY <1>8, <2>1, <3>1
    <2> QED BY <2>2, <2>3, <2>4, <2>5 DEF Fresh
<1> QED BY <1>7, <1>8

\* qq is q and one more frame.
Longer(qq, q, frame) ==
    /\ q \in Seq(Frame) /\ frame \in Frame /\ qq \in Seq(Frame) /\ Len(qq) = Len(q) + 1
    /\ \A j \in 1 .. Len(q) : qq[j] = q[j]
    /\ qq[Len(q) + 1] = frame

\* The subscriptions after that frame: whoever it is not for stays where it was.
GoesOn(entries2, gone2, entries, gone, qq, n, frame) ==
    /\ entries \in Seq(Sub) /\ DOMAIN entries2 = DOMAIN entries /\ gone \subseteq gone2
    /\ \A s \in DOMAIN entries :
           /\ entries2[s].reader = entries[s].reader
           /\ \/ entries[s].reader \in gone2
              \/ frame.reader # {entries[s].reader} /\ entries2[s].cursor = entries[s].cursor
              \/ Upto(qq, entries[s].reader, n + 1, entries2[s].cursor)

\* One more frame on the way.
LEMMA WayAppend ==
    ASSUME NEW q, NEW entries, NEW gone, OnItsWay(q, entries, gone),
           NEW frame, NEW qq, Longer(qq, q, frame), Fits(qq, Len(q) + 1),
           NEW entries2, NEW gone2, GoesOn(entries2, gone2, entries, gone, qq, Len(q), frame)
    PROVE  OnItsWay(qq, entries2, gone2)
<1> DEFINE n == Len(q)
<1>1. /\ n \in Nat /\ DOMAIN q = 1 .. n /\ Len(qq) = n + 1 /\ DOMAIN qq = 1 .. n + 1
      /\ (\A j \in 1 .. n : qq[j] = q[j]) /\ qq[n + 1] = frame
    BY DEF Longer
<1> HIDE DEF n
<1>2. ASSUME NEW k \in 1 .. n + 1 PROVE Fits(qq, k)
    <2>1. CASE k = n + 1
        BY <1>1, <2>1 DEF n
    <2>2. CASE k # n + 1
        <3>1. k \in 1 .. n /\ k \in Nat /\ k >= 1 /\ \A j \in 1 .. k : j \in 1 .. n
            BY <1>1, <2>2
        <3>2. \A j \in 1 .. k : qq[j] = q[j]
            BY <1>1, <3>1
        <3>3. Fits(q, k)
            BY <1>1, <3>1 DEF OnItsWay
        <3> QED BY <3>1, <3>2, <3>3, FitsSame
    <2> QED BY <2>1, <2>2
<1>3. ASSUME NEW s \in DOMAIN entries, entries[s].reader \notin gone2
      PROVE  Upto(qq, entries[s].reader, n + 1, entries2[s].cursor)
    <2>1. PICK r : r = entries[s].reader
        OBVIOUS
    <2>2. CASE frame.reader # {r} /\ entries2[s].cursor = entries[s].cursor
        <3>1. Upto(q, r, n, entries[s].cursor)
            BY <1>3, <2>1 DEF OnItsWay, GoesOn, n
        <3>2. Upto(qq, r, n, entries[s].cursor)
            BY <1>1, <3>1, UptoSame
        <3>3. \A j \in n + 1 .. n + 1 : qq[j].reader # {r}
            BY <1>1, <2>2
        <3>4. PICK m : m = n + 1
            OBVIOUS
        <3>5. m \in Nat /\ n <= m /\ \A j \in n + 1 .. m : qq[j].reader # {r}
            BY <1>1, <3>3, <3>4
        <3>6. Upto(qq, r, m, entries[s].cursor)
            BY <1>1, <3>2, <3>5, UptoMore
        <3> QED BY <2>1, <2>2, <3>4, <3>6
    <2> QED BY <1>3, <2>1, <2>2 DEF n, GoesOn
<1> QED BY <1>1, <1>2, <1>3 DEF OnItsWay, GoesOn

\* The store stays as it was.
LEMMA StoreSame ==
    ASSUME StoreInv, UNCHANGED <<log, rows, vouched, discarded, rev>>
    PROVE  StoreInv' /\ Grows
<1>1. rev' \in [Subject -> Nat] /\ \A s \in Subject : rev[s] <= rev'[s]
    BY DEF StoreInv, Stored
<1> QED BY <1>1, StillKeeps

\* The first frame has been received.
LEMMA WayTail ==
    ASSUME StoreInv, UNCHANGED <<log, rows, vouched, discarded, rev, since, asked, auth, lapsed>>,
           NEW q \in Seq(Frame), q # <<>>, NEW tail, tail = Tail(q),
           NEW entries, DOMAIN entries \in SUBSET Nat, \A s \in DOMAIN entries : entries[s] \in Sub,
           NEW gone, OnItsWay(q, entries, gone),
           \A r \in Reader : cursor'[r] = IF q[1].reader = {r} THEN q[1].at ELSE cursor[r],
           \A r \in Reader : \A i \in DOMAIN log :
               \/ Accounted(r, i)
               \/ q[1].reader = {r} /\ \E m \in DOMAIN q[1].items : Tells(q[1].items[m], i)
               => Accounted(r, i)'
    PROVE  OnItsWay(tail, entries, gone)'
<1>1. StoreInv' /\ Grows
    BY StoreSame
<1>2. /\ tail \in Seq(Frame) /\ Len(q) \in Nat /\ Len(tail) \in Nat /\ Len(q) = Len(tail) + 1
      /\ DOMAIN tail = 1 .. Len(tail) /\ DOMAIN q = 1 .. Len(q)
      /\ \A j \in 1 .. Len(tail) : tail[j] = q[j + 1]
    OBVIOUS
<1>3. ASSUME NEW n \in 0 .. Len(tail), NEW r \in Reader, NEW x \in Stops(tail, r, n)'
      PROVE  x \in Stops(q, r, n + 1)
    <2>1. CASE x = cursor'[r]
        <3>1. 1 \in 1 .. n + 1
            BY <1>2
        <3> QED BY <2>1, <3>1 DEF Stops
    <2>2. CASE x # cursor'[r]
        <3>1. PICK j \in 1 .. n : tail[j].reader = {r} /\ x = tail[j].at
            BY <1>3, <2>2 DEF Stops
        <3>2. tail[j] = q[j + 1] /\ j + 1 \in 1 .. n + 1
            BY <1>2, <3>1
        <3> QED BY <3>1, <3>2 DEF Stops
    <2> QED BY <2>1, <2>2
<1>4. ASSUME NEW n \in 0 .. Len(tail), NEW r \in Reader, NEW i \in DOMAIN log,
             Accounted(r, i) \/ Brought(q, r, n + 1, i)
      PROVE  Accounted(r, i)' \/ Brought(tail, r, n, i)'
    <2>1. CASE Accounted(r, i)
        BY <2>1
    <2>2. CASE Brought(q, r, n + 1, i)
        <3>1. PICK j \in 1 .. n + 1 :
                  q[j].reader = {r} /\ \E m \in DOMAIN q[j].items : Tells(q[j].items[m], i)
            BY <2>2 DEF Brought
        <3>2. CASE j = 1
            BY <3>1, <3>2
        <3>3. CASE j # 1
            <4>1. j - 1 \in 1 .. n /\ tail[j - 1] = q[j]
                BY <1>2, <3>1, <3>3
            <4>2. Brought(tail, r, n, i)
                BY <3>1, <4>1 DEF Brought
            <4> QED BY <1>1, <4>2, BroughtStays
        <3> QED BY <3>2, <3>3
    <2> QED BY <1>4, <2>1, <2>2
<1>5. ASSUME NEW n \in 0 .. Len(tail), NEW r \in Reader, NEW p, Upto(q, r, n + 1, p)
      PROVE  Upto(tail, r, n, p)'
    <2>1. PICK m : m = n + 1
        OBVIOUS
    <2>2. \A x \in Stops(tail, r, n)' : x \in Stops(q, r, m)
        BY <1>3, <2>1
    <2>3. \A i \in DOMAIN log :
              Accounted(r, i) \/ Brought(q, r, m, i) => Accounted(r, i)' \/ Brought(tail, r, n, i)'
        BY <1>4, <2>1
    <2>4. Upto(q, r, m, p) /\ since'[r] = since[r]
        BY <1>5, <2>1
    <2> QED BY <1>1, <2>2, <2>3, <2>4, UptoMoves
<1>6. ASSUME NEW k \in 1 .. Len(tail) PROVE Fits(tail, k)'
    <2>1. k + 1 \in DOMAIN q /\ tail[k] = q[k + 1] /\ k \in 0 .. Len(tail) /\ k - 1 \in 0 .. Len(tail)
        BY <1>2
    <2>2. Fits(q, k + 1)
        BY <2>1 DEF OnItsWay
    <2>3. Sane(tail[k])
        BY <2>1, <2>2 DEF Fits
    <2>4. ASSUME NEW r \in Reader, tail[k].reader = {r}
          PROVE  r \in asked' /\ Upto(tail, r, k, tail[k].at)' /\ Fresh(tail, k, r)'
        <3>1. r \in asked /\ Upto(q, r, k + 1, q[k + 1].at) /\ Fresh(q, k + 1, r)
            BY <2>1, <2>2, <2>4 DEF Fits
        <3>2. Upto(tail, r, k, tail[k].at)'
            BY <1>5, <2>1, <3>1
        <3>3. \A x \in Stops(tail, r, k - 1)' : x \in Stops(q, r, k)
            <4>1. (k - 1) + 1 = k /\ (k + 1) - 1 = k
                BY <1>2
            <4> QED BY <1>3, <2>1, <4>1
        <3>4. (k + 1) - 1 = k
            BY <1>2
        <3>5. \A item : \A x : \A p : Within(item, x, p)' <=> Within(item, x, p)
            BY DEF Within, Place, Before
        <3>6. Fresh(tail, k, r)'
            <4>1. PICK frame : frame = tail[k] /\ frame = q[k + 1]
                BY <2>1
            <4>2. /\ InOrder(frame.items)
                  /\ \A m \in DOMAIN frame.items :
                         /\ \A x \in Stops(q, r, k) : Within(frame.items[m], x, frame.at)
                         /\ r \notin auth /\ frame.items[m].type = "event"
                                => frame.items[m].event <= lapsed[r]
                BY <3>1, <3>4, <4>1 DEF Fresh
            <4> QED BY <3>3, <3>5, <4>1, <4>2 DEF Fresh, InOrder
        <3> QED BY <3>1, <3>2, <3>6
    <2> QED BY <2>3, <2>4 DEF Fits, Sane
<1>7. ASSUME NEW s \in DOMAIN entries, entries[s].reader \notin gone
      PROVE  Upto(tail, entries[s].reader, Len(tail), entries[s].cursor)'
    <2>1. PICK r : r = entries[s].reader
        OBVIOUS
    <2>2. PICK p : p = entries[s].cursor
        OBVIOUS
    <2>3. Upto(q, r, Len(q), p)
        BY <1>7, <2>1, <2>2 DEF OnItsWay
    <2>4. entries[s] \in Sub
        OBVIOUS
    <2>5. r \in Reader
        BY <2>1, <2>4 DEF Sub
    <2>6. Upto(tail, r, Len(tail), p)'
        BY <1>2, <1>5, <2>3, <2>5
    <2> QED BY <2>1, <2>2, <2>6
<1> QED BY <1>2, <1>6, <1>7 DEF OnItsWay

\* What a consumer has after it received a frame.
LEMMA Received ==
    ASSUME StoreInv, FollowerTypeOK, \A o \in Reader : Reached(o),
           UNCHANGED <<log, rows, vouched, discarded, rev, since, asked, auth, lapsed>>,
           NEW q \in Seq(Frame), q # <<>>, Fits(q, 1),
           NEW r \in Reader, q[1].reader = {r}, Learn(r, q[1].items, q[1].at)
    PROVE  /\ FollowerTypeOK' /\ \A o \in Reader : Reached(o)'
           /\ cursor'[r] = q[1].at /\ \A o \in Reader \ {r} : cursor'[o] = cursor[o]
           /\ \A o \in Reader : \A i \in DOMAIN log :
                  \/ Accounted(o, i)
                  \/ q[1].reader = {o} /\ \E m \in DOMAIN q[1].items : Tells(q[1].items[m], i)
                  => Accounted(o, i)'
<1>1. PICK items : items = q[1].items
    OBVIOUS
<1>2. PICK p : p = q[1].at
    OBVIOUS
<1>3. PICK start : start = cursor[r]
    OBVIOUS
<1>4. q[1] \in Frame
    BY DEF Fits, Sane
<1>5. items \in Seq(Item) /\ p \in Position /\ start \in Position /\ since' \in [Reader -> Nat]
    BY <1>1, <1>2, <1>3, <1>4 DEF Frame, FollowerTypeOK
<1>6. Upto(q, r, 1, p) /\ Fresh(q, 1, r)
    BY <1>2 DEF Fits
<1>7. start \in Stops(q, r, 1) /\ start \in Stops(q, r, 0)
    BY <1>3 DEF Stops
<1>8. Sound(p) /\ ~Before(p, start)
    BY <1>6, <1>7 DEF Upto
<1>9. /\ InOrder(items)
      /\ \A k \in DOMAIN items : Within(items[k], start, p)
      /\ \A k \in DOMAIN items : r \notin auth /\ items[k].type = "event" => items[k].event <= lapsed[r]
    <2>1. 1 - 1 = 0
        OBVIOUS
    <2> QED BY <1>1, <1>2, <1>6, <1>7, <2>1 DEF Fresh
<1>10. Orderly(r) /\ \A j \in DOMAIN told[r] : Before(Place(told[r][j]), start)
    BY <1>3 DEF Reached, Orderly
<1>11. Learn(r, items, p)
    BY <1>1, <1>2
<1>12. \A i \in DOMAIN log : since'[r] \in 1 .. i /\ Before(Place(i), p) =>
           Accounted(r, i) \/ \E k \in DOMAIN items : Tells(items[k], i)
    <2> SUFFICES ASSUME NEW i \in DOMAIN log, since'[r] \in 1 .. i, Before(Place(i), p)
                 PROVE  Accounted(r, i) \/ \E k \in DOMAIN items : Tells(items[k], i)
        OBVIOUS
    <2>1. Accounted(r, i) \/ Brought(q, r, 1, i)
        BY <1>6 DEF Upto
    <2>2. \A j \in 1 .. 1 : j = 1
        OBVIOUS
    <2> QED BY <1>1, <2>1, <2>2 DEF Brought
<1>13. /\ FollowerTypeOK' /\ Remembers(r) /\ cursor'[r] = p
       /\ \A i \in DOMAIN log :
              Accounted(r, i) \/ (\E k \in DOMAIN items : Tells(items[k], i)) => Accounted(r, i)'
       /\ Orderly(r)' /\ Caught(r)'
    BY <1>5, <1>8, <1>9, <1>10, <1>11, <1>12, LearnFollowed
<1>14. /\ told'[r] = told[r] \o Given(items)
       /\ \A o \in Reader \ {r} : /\ cursor'[o] = cursor[o] /\ told'[o] = told[o]
                                  /\ known'[o] = known[o] /\ lost'[o] = lost[o]
    BY <1>5, <1>9, <1>11, LearnIs
<1>15. StoreInv' /\ Grows
    BY StoreSame
<1>16. ASSUME NEW o \in Reader \ {r} PROVE Reached(o)' /\ \A i : Accounted(o, i) => Accounted(o, i)'
    <2>1. Reached(o)
        OBVIOUS
    <2>2. \A i : Accounted(o, i)' <=> Accounted(o, i)
        BY <1>14 DEF Accounted
    <2>3. Orderly(o)'
        BY <1>14, <2>1 DEF Reached, Orderly, Place, Before
    <2>4. cursor[o] # Nothing => Upto(<<>>, o, 0, cursor[o])'
        <3>1. PICK none : none = <<>>
            OBVIOUS
        <3>2. PICK c : c = cursor[o]
            OBVIOUS
        <3>3. ASSUME c # Nothing PROVE Upto(none, o, 0, c)'
            <4>1. Upto(none, o, 0, c) /\ since'[o] = since[o]
                BY <2>1, <3>1, <3>2, <3>3 DEF Reached
            <4>2. \A x \in Stops(none, o, 0)' : x \in Stops(none, o, 0)
                BY <1>14 DEF Stops
            <4>3. \A i \in DOMAIN log :
                      Accounted(o, i) \/ Brought(none, o, 0, i)
                          => Accounted(o, i)' \/ Brought(none, o, 0, i)'
                BY <2>2, <1>15, BroughtStays
            <4> QED BY <1>15, <4>1, <4>2, <4>3, UptoMoves
        <3>4. cursor'[o] = c
            BY <1>14, <3>2
        <3> QED BY <3>1, <3>2, <3>3, <3>4
    <2>5. PICK t : t = told[o]
        OBVIOUS
    <2>6. o \notin auth' => \A k \in DOMAIN told'[o] : told'[o][k] <= lapsed'[o]
        BY <1>14, <2>1 DEF Reached
    <2>7. cursor'[o] = cursor[o]
        BY <1>14
    <2> QED BY <2>2, <2>3, <2>4, <2>6, <2>7 DEF Reached
<1>17. Reached(r)'
    <2>1. Upto(<<>>, r, 0, p)'
        <3>1. PICK none : none = <<>>
            OBVIOUS
        <3>2. Sound(p)'
            BY <1>8, <1>15, PlacesStay
        <3>3. \A x \in Stops(none, r, 0)' : x = p
            BY <1>13 DEF Stops
        <3>4. ~Before(p, p)
            BY <1>5, BeforeOrder
        <3>5. \A i \in DOMAIN log' : since'[r] \in 1 .. i /\ Before(Place(i), p)' => Accounted(r, i)'
            BY <1>13 DEF Caught, Before
        <3>6. Upto(none, r, 0, p)'
            BY <3>2, <3>3, <3>4, <3>5 DEF Upto, Before
        <3> QED BY <3>1, <3>6
    <2>2. ASSUME r \notin auth', NEW k \in DOMAIN told'[r] PROVE told'[r][k] <= lapsed'[r]
        <3>1. PICK t : t = told[r]
            OBVIOUS
        <3>2. PICK g : g = Given(items)
            OBVIOUS
        <3>3. t \in Seq(Nat) /\ Gives(g, items, Len(items))
            BY <1>5, <1>9, <3>1, <3>2, GivenGives DEF FollowerTypeOK
        <3>4. g \in Seq(Nat) /\ told'[r] = t \o g
            BY <1>14, <3>1, <3>2, <3>3 DEF Gives
        <3>5. CASE k \in 1 .. Len(t)
            <4>1. told'[r][k] = t[k] /\ k \in DOMAIN t
                BY <3>3, <3>4, <3>5
            <4>2. t[k] <= lapsed[r]
                BY <2>2, <3>1, <4>1 DEF Reached
            <4> QED BY <4>1, <4>2
        <3>6. CASE k \notin 1 .. Len(t)
            <4>1. PICK j \in DOMAIN g : told'[r][k] = g[j]
                <5>1. k \in 1 .. Len(t) + Len(g) /\ Len(t) \in Nat /\ Len(g) \in Nat /\ DOMAIN g = 1 .. Len(g)
                    BY <2>2, <3>3, <3>4
                <5>2. k - Len(t) \in DOMAIN g /\ (t \o g)[k] = g[k - Len(t)]
                    BY <3>3, <3>4, <3>6, <5>1
                <5> QED BY <3>4, <5>2
            <4>2. PICK m \in 1 .. Len(items) : items[m].type = "event" /\ items[m].event = g[j]
                BY <3>3, <4>1 DEF Gives
            <4>3. m \in DOMAIN items
                BY <1>5, <4>2
            <4> QED BY <1>9, <2>2, <4>1, <4>2, <4>3
        <3> QED BY <3>5, <3>6
    <2> QED BY <1>13, <2>1, <2>2 DEF Reached
<1>18. ASSUME NEW o \in Reader, NEW i \in DOMAIN log,
              \/ Accounted(o, i)
              \/ q[1].reader = {o} /\ \E m \in DOMAIN q[1].items : Tells(q[1].items[m], i)
       PROVE  Accounted(o, i)'
    <2>1. CASE o = r
        BY <1>1, <1>13, <1>18, <2>1
    <2>2. CASE o # r
        <3>1. Accounted(o, i)
            BY <1>18, <2>2
        <3> QED BY <1>16, <2>2, <3>1
    <2> QED BY <2>1, <2>2
<1>19. \A o \in Reader : Reached(o)'
    BY <1>16, <1>17
<1>20. cursor'[r] = q[1].at /\ \A o \in Reader \ {r} : cursor'[o] = cursor[o]
    BY <1>2, <1>13, <1>14
<1> QED BY <1>13, <1>18, <1>19, <1>20

\* A subscription starts where its consumer is, and nothing is on its way to him.
LEMMA WayBegins ==
    ASSUME StoreInv, cursor \in [Reader -> Position], since \in [Reader -> Nat],
           UNCHANGED <<log, rows, vouched, discarded, rev, cursor, told, known, lost, auth, lapsed>>,
           NEW q \in Seq(Frame), NEW entries, Distinct(entries), OnItsWay(q, entries, {}),
           NEW r \in Reader, r \notin asked, asked' = asked \cup {r}, Reached(r),
           NEW p, Sound(p), NEW first \in Nat, since' = [since EXCEPT ![r] = first],
           \/ cursor[r] = Nothing /\ \A i \in DOMAIN log : first \in 1 .. i => ~Before(Place(i), p)
           \/ cursor[r] # Nothing /\ p = cursor[r] /\ first = since[r],
           NEW entries2, entries2 = Append(entries, [reader |-> r, cursor |-> p])
    PROVE  OnItsWay(q, entries2, {})' /\ Distinct(entries2)'
<1>1. StoreInv' /\ Grows
    BY StoreSame
<1>2. PICK new : new = [reader |-> r, cursor |-> p]
    OBVIOUS
<1>3. new \in Sub /\ new.reader = r /\ new.cursor = p
    BY <1>2 DEF Sound, Sub
<1>4. /\ entries \in Seq(Sub)
      /\ \A j, k \in DOMAIN entries : entries[j].reader = entries[k].reader => j = k
      /\ \A k \in DOMAIN entries : entries[k].reader \in asked /\ Sound(entries[k].cursor)
    BY DEF Distinct
<1>5. /\ entries2 \in Seq(Sub) /\ Len(entries) \in Nat /\ DOMAIN entries = 1 .. Len(entries)
      /\ DOMAIN entries2 = 1 .. Len(entries) + 1
      /\ \A k \in 1 .. Len(entries) : entries2[k] = entries[k]
      /\ entries2[Len(entries) + 1] = new
    BY <1>2, <1>3, <1>4
<1>6. \A x : Sound(x) => Sound(x)'
    BY <1>1, PlacesStay
<1>7. Distinct(entries2)'
    <2>1. ASSUME NEW k \in DOMAIN entries2 PROVE entries2[k].reader \in asked' /\ Sound(entries2[k].cursor)'
        <3>1. CASE k = Len(entries) + 1
            BY <1>3, <1>5, <1>6, <3>1
        <3>2. CASE k # Len(entries) + 1
            <4>1. k \in DOMAIN entries /\ entries2[k] = entries[k]
                BY <1>5, <3>2
            <4> QED BY <1>4, <1>6, <4>1
        <3> QED BY <3>1, <3>2
    <2>2. ASSUME NEW j \in DOMAIN entries2, NEW k \in DOMAIN entries2,
                 entries2[j].reader = entries2[k].reader
          PROVE  j = k
        <3>1. ASSUME NEW m \in 1 .. Len(entries) PROVE entries2[m].reader # r
            BY <1>4, <1>5
        <3> QED BY <1>3, <1>4, <1>5, <2>2, <3>1
    <2> QED BY <1>5, <2>1, <2>2 DEF Distinct
<1>8. ASSUME NEW o \in Reader, o # r
      PROVE  /\ \A n : \A x : Upto(q, o, n, x) => Upto(q, o, n, x)'
             /\ \A k : Fresh(q, k, o) => Fresh(q, k, o)'
    <2>1. since'[o] = since[o]
        BY <1>8
    <2>2. \A n : Stops(q, o, n)' = Stops(q, o, n)
        BY DEF Stops
    <2>3. \A i : Accounted(o, i)' <=> Accounted(o, i)
        BY DEF Accounted
    <2>4. ASSUME NEW n, NEW x, Upto(q, o, n, x) PROVE Upto(q, o, n, x)'
        <3>1. \A y \in Stops(q, o, n)' : y \in Stops(q, o, n)
            BY <2>2
        <3>2. \A i \in DOMAIN log :
                  Accounted(o, i) \/ Brought(q, o, n, i) => Accounted(o, i)' \/ Brought(q, o, n, i)'
            BY <1>1, <2>3, BroughtStays
        <3> QED BY <1>1, <2>1, <2>4, <3>1, <3>2, UptoMoves
    <2>5. \A item : \A x : \A y : Within(item, x, y)' <=> Within(item, x, y)
        BY DEF Within, Place, Before
    <2>6. ASSUME NEW k, Fresh(q, k, o) PROVE Fresh(q, k, o)'
        BY <2>2, <2>5, <2>6 DEF Fresh, InOrder
    <2> QED BY <2>4, <2>6
<1>9. ASSUME NEW k \in DOMAIN q PROVE Fits(q, k)' /\ q[k].reader # {r}
    <2>1. Fits(q, k)
        BY DEF OnItsWay
    <2>2. q[k].reader # {r}
        BY <2>1 DEF Fits
    <2>3. ASSUME NEW o \in Reader, q[k].reader = {o}
          PROVE  o \in asked' /\ Upto(q, o, k, q[k].at)' /\ Fresh(q, k, o)'
        BY <1>8, <2>1, <2>2, <2>3 DEF Fits
    <2>4. Sane(q[k])'
        BY <2>1 DEF Fits, Sane
    <2> QED BY <2>2, <2>3, <2>4 DEF Fits
<1>10. Upto(q, r, Len(q), p)'
    <2>1. Len(q) \in Nat /\ DOMAIN q = 1 .. Len(q)
        OBVIOUS
    <2>2. \A x \in Stops(q, r, Len(q))' : x = cursor[r]
        BY <1>9, <2>1 DEF Stops
    <2>3. p \in Position /\ cursor[r] \in Position
        BY DEF Sound
    <2>4. ~Before(p, cursor[r])
        <3>1. CASE cursor[r] = Nothing
            BY <2>3, <3>1 DEF Before, Nothing, Position
        <3>2. CASE p = cursor[r]
            BY <2>3, <3>2, BeforeOrder
        <3> QED BY <3>1, <3>2
    <2>5. since'[r] = first
        OBVIOUS
    <2>6. ASSUME NEW i \in DOMAIN log', since'[r] \in 1 .. i, Before(Place(i), p)'
          PROVE  Accounted(r, i)'
        <3>1. i \in DOMAIN log /\ Before(Place(i), p) /\ first \in 1 .. i
            BY <2>5, <2>6 DEF Before, Place
        <3>2. cursor[r] # Nothing /\ p = cursor[r] /\ first = since[r]
            BY <3>1
        <3>3. PICK none : none = <<>>
            OBVIOUS
        <3>4. Upto(none, r, 0, p)
            BY <3>2, <3>3 DEF Reached
        <3>5. Accounted(r, i) \/ Brought(none, r, 0, i)
            BY <3>1, <3>2, <3>4 DEF Upto
        <3>6. ~Brought(none, r, 0, i)
            BY DEF Brought
        <3> QED BY <3>5, <3>6 DEF Accounted
    <2>7. \A x : Before(p, x)' <=> Before(p, x)
        BY DEF Before
    <2>8. Sound(p)'
        BY <1>6
    <2> QED BY <2>2, <2>4, <2>6, <2>7, <2>8 DEF Upto
<1>11. ASSUME NEW s \in DOMAIN entries2
       PROVE  Upto(q, entries2[s].reader, Len(q), entries2[s].cursor)'
    <2>1. CASE s = Len(entries) + 1
        BY <1>3, <1>5, <1>10, <2>1
    <2>2. CASE s # Len(entries) + 1
        <3>1. s \in DOMAIN entries /\ entries2[s] = entries[s]
            BY <1>5, <2>2
        <3>2. entries[s] \in Sub /\ entries[s].reader # r
            BY <1>4, <3>1
        <3>3. entries[s].reader \in Reader
            BY <3>2 DEF Sub
        <3>4. Upto(q, entries[s].reader, Len(q), entries[s].cursor)
            BY <3>1 DEF OnItsWay
        <3> QED BY <1>8, <3>1, <3>2, <3>3, <3>4
    <2> QED BY <2>1, <2>2
<1> QED BY <1>7, <1>9, <1>11 DEF OnItsWay

\* Whoever is left has one subscription.
LEMMA DistinctLeft ==
    ASSUME NEW entries, Distinct(entries), NEW gone, NEW out, out = Without(entries, gone)
    PROVE  /\ Distinct(out)
           /\ \A j \in DOMAIN out :
                  \E k \in DOMAIN entries : out[j] = entries[k] /\ entries[k].reader \notin gone
<1>1. /\ entries \in Seq(Sub) /\ DOMAIN entries = 1 .. Len(entries)
      /\ \A j, k \in DOMAIN entries : entries[j].reader = entries[k].reader => j = k
      /\ \A k \in DOMAIN entries : entries[k].reader \in asked /\ Sound(entries[k].cursor)
    BY DEF Distinct
<1>2. SomeLeft(out, entries, Len(entries), gone)
    BY <1>1, WithoutIs
<1>3. /\ out \in Seq(Sub)
      /\ \A j \in DOMAIN out : \E k \in DOMAIN entries : out[j] = entries[k] /\ entries[k].reader \notin gone
      /\ \A i, j \in DOMAIN out : out[i].reader = out[j].reader => i = j
    BY <1>1, <1>2 DEF SomeLeft
<1>4. Distinct(out)
    BY <1>1, <1>3 DEF Distinct
<1> QED BY <1>3, <1>4

\* And goes on from where it was.
LEMMA WayLeaves ==
    ASSUME NEW q, NEW entries, Distinct(entries), NEW gone, OnItsWay(q, entries, gone),
           NEW more, gone \subseteq more, NEW out, out = Without(entries, more)
    PROVE  OnItsWay(q, out, {}) /\ Distinct(out)
<1>1. /\ Distinct(out)
      /\ \A j \in DOMAIN out :
             \E k \in DOMAIN entries : out[j] = entries[k] /\ entries[k].reader \notin more
    BY DistinctLeft
<1>2. ASSUME NEW j \in DOMAIN out PROVE Upto(q, out[j].reader, Len(q), out[j].cursor)
    <2>1. PICK k \in DOMAIN entries : out[j] = entries[k] /\ entries[k].reader \notin more
        BY <1>1
    <2>2. entries[k].reader \notin gone
        BY <2>1
    <2> QED BY <2>1, <2>2 DEF OnItsWay
<1> QED BY <1>1, <1>2 DEF OnItsWay

\* A notice that a subscription ends.
EndsFor(frame, r, p) ==
    /\ frame \in Frame /\ Sane(frame) /\ frame.kind = "ended" /\ frame.reader = {r}
    /\ frame.at = p /\ frame.size = 1

\* It is for one reader.
LEMMA EndingIs ==
    ASSUME NEW r \in Reader, NEW p \in Position, NEW frame,
           frame = Ending(r, p, TRUE) \/ frame = Ending(r, p, FALSE)
    PROVE  EndsFor(frame, r, p)
<1>1. <<>> \in Seq(Item)
    OBVIOUS
<1>2. PICK none : none = <<>>
    OBVIOUS
<1>3. PICK again \in BOOLEAN :
          frame = [kind |-> "ended", reader |-> {r}, cause |-> 0, items |-> none,
                   at |-> p, again |-> again, size |-> 1]
    BY <1>2 DEF Ending
<1>4. frame \in Frame
    BY <1>1, <1>2, <1>3 DEF Frame, Kinds
<1>5. /\ frame.kind = "ended" /\ frame.reader = {r} /\ frame.items = none /\ frame.at = p
      /\ frame.size = 1
    BY <1>3
<1> QED BY <1>2, <1>4, <1>5 DEF Sane, EndsFor

\* The notices for all subscriptions: each is where its subscription was.
LEMMA WayEnds ==
    ASSUME StoreInv, cursor \in [Reader -> Position],
           NEW q \in Seq(Frame), NEW entries, Distinct(entries), OnItsWay(q, entries, {}),
           NEW f, Len(f) = Len(entries),
           \A k \in 1 .. Len(f) : f[k] = Ending(entries[k].reader, entries[k].cursor, TRUE),
           NEW qq \in Seq(Frame), Joined(qq, q, f), NEW none, none = <<>>
    PROVE  OnItsWay(qq, none, {})
<1> DEFINE n == Len(q)
           l == Len(f)
<1>1. /\ n \in Nat /\ DOMAIN q = 1 .. n
      /\ entries \in Seq(Sub) /\ l \in Nat /\ DOMAIN entries = 1 .. l /\ DOMAIN qq = 1 .. n + l
      /\ \A j \in 1 .. n : qq[j] = q[j]
      /\ \A k \in 1 .. l : qq[n + k] = f[k]
    BY DEF Joined, Distinct
<1>2. ASSUME NEW k \in 1 .. l
      PROVE  /\ qq[n + k] = Ending(entries[k].reader, entries[k].cursor, TRUE)
             /\ entries[k].reader \in Reader /\ entries[k].cursor \in Position
             /\ entries[k].reader \in asked /\ Sound(entries[k].cursor)
             /\ \A j \in 1 .. l : entries[j].reader = entries[k].reader => j = k
    <2>1. entries[k] \in Sub
        BY <1>1
    <2> QED BY <1>1, <2>1 DEF Distinct, Sub
<1> HIDE DEF n, l
<1>3. ASSUME NEW k \in 1 .. l PROVE Fits(qq, n + k)
    <2>1. PICK r \in Reader : r = entries[k].reader
        BY <1>2
    <2>2. PICK p \in Position : p = entries[k].cursor
        BY <1>2
    <2>3. PICK frame : frame = qq[n + k]
        OBVIOUS
    <2>4. frame = Ending(r, p, TRUE)
        BY <1>2, <2>1, <2>2, <2>3
    <2>5. Sane(frame) /\ frame.reader = {r} /\ frame.items = <<>> /\ frame.at = p
        <3>1. frame = Ending(r, p, TRUE) \/ frame = Ending(r, p, FALSE)
            BY <2>4, Zenon
        <3>2. EndsFor(frame, r, p)
            BY <3>1, EndingIs, Zenon
        <3> QED BY <3>2 DEF EndsFor, Sane
    <2>6. PICK m \in Nat : m = n + (k - 1) /\ m + 1 = n + k /\ n <= m
        BY <1>1
    <2>7. ASSUME NEW j \in n + 1 .. m PROVE qq[j].reader # {r}
        <3>1. j - n \in 1 .. l /\ j = n + (j - n) /\ j - n # k
            BY <1>1, <2>6
        <3>2. PICK i \in 1 .. l : j = n + i /\ i # k
            BY <3>1
        <3>3. PICK o \in Reader : o = entries[i].reader
            BY <1>2
        <3>4. PICK x \in Position : x = entries[i].cursor
            BY <1>2
        <3>5. PICK other : other = qq[j]
            OBVIOUS
        <3>6. other = Ending(o, x, TRUE)
            BY <1>2, <3>2, <3>3, <3>4, <3>5
        <3>7. other.reader = {o}
            <4>1. other = Ending(o, x, TRUE) \/ other = Ending(o, x, FALSE)
                BY <3>6, Zenon
            <4>2. EndsFor(other, o, x)
                BY <4>1, EndingIs, Zenon
            <4> QED BY <4>2 DEF EndsFor
        <3>8. o # r
            BY <1>2, <2>1, <3>2, <3>3
        <3> QED BY <3>5, <3>7, <3>8
    <2>8. Upto(qq, r, m, p)
        <3>1. Upto(q, r, n, p)
            BY <1>1, <2>1, <2>2 DEF OnItsWay, n
        <3>2. Upto(qq, r, n, p)
            BY <1>1, <3>1, UptoSame
        <3> QED BY <1>1, <2>6, <2>7, <3>2, UptoMore
    <2>9. PICK read : read = Begin(p)
        OBVIOUS
    <2>10. ReadInv(read, p, Sees[r] \cap Wants[r])
        BY <1>2, <2>2, <2>9, BeginStep
    <2>11. read.items = <<>> /\ read.at = p
        BY <2>9 DEF Begin
    <2>12. qq[m + 1].reader = {r} /\ qq[m + 1].items = read.items /\ qq[m + 1].at = read.at
        BY <2>3, <2>5, <2>6, <2>11
    <2>13. \A j \in 1 .. m : qq[j].at \in Position
        <3>1. \A j \in 1 .. m : j \in DOMAIN qq
            BY <1>1, <2>6
        <3>2. \A j \in DOMAIN qq : qq[j] \in Frame
            OBVIOUS
        <3> QED BY <3>1, <3>2 DEF Frame
    <2>14. Upto(qq, r, m + 1, read.at) /\ Fresh(qq, m + 1, r)
        BY <2>8, <2>10, <2>11, <2>12, <2>13, Onward
    <2>15. \A o : qq[n + k].reader = {o} => o = r
        BY <2>3, <2>5
    <2>16. Upto(qq, r, n + k, qq[n + k].at) /\ Fresh(qq, n + k, r) /\ Sane(qq[n + k])
        BY <2>3, <2>5, <2>6, <2>12, <2>14
    <2> QED BY <1>2, <2>1, <2>15, <2>16 DEF Fits
<1>4. ASSUME NEW k \in 1 .. n PROVE Fits(qq, k)
    <2>1. Fits(q, k)
        BY <1>1 DEF OnItsWay
    <2>2. k \in Nat /\ k >= 1 /\ \A j \in 1 .. k : qq[j] = q[j]
        BY <1>1
    <2> QED BY <2>1, <2>2, FitsSame
<1>5. ASSUME NEW k \in DOMAIN qq PROVE Fits(qq, k)
    <2>1. CASE k \in 1 .. n
        BY <1>4, <2>1
    <2>2. CASE k \notin 1 .. n
        <3>1. k - n \in 1 .. l /\ k = n + (k - n)
            BY <1>1, <2>2
        <3>2. PICK i \in 1 .. l : k = n + i
            BY <3>1
        <3> QED BY <1>3, <3>2
    <2> QED BY <2>1, <2>2
<1>6. DOMAIN none = {}
    OBVIOUS
<1> QED BY <1>5, <1>6 DEF OnItsWay

-----------------------------------------------------------------------------
(* What a drain produces.                                                  *)

DrainRec ==
    [k : Nat \ {0}, subs : Seq(Sub), frames : Seq(Frame), produced : Nat, withheld : BOOLEAN,
     ended : SUBSET Reader]

\* A turn that produces nothing.
Quiet(t, d) ==
    /\ t \in DrainRec /\ d.k <= t.k
    /\ t.subs = d.subs /\ t.frames = d.frames /\ t.produced = d.produced /\ t.ended = d.ended

\* A turn that ends the subscription it is at.
Ends1(t, d, r, frame) ==
    /\ t \in DrainRec /\ t.k = d.k + 1
    /\ t.subs = d.subs /\ t.produced = d.produced /\ t.ended = d.ended \cup {r}
    /\ t.frames = Append(d.frames, frame)

\* A turn that delivers what was read.
Gives1(t, d, read, frame) ==
    /\ t \in DrainRec /\ t.k = d.k
    /\ t.subs = [d.subs EXCEPT ![d.k].cursor = read.at]
    /\ t.produced = d.produced + read.used /\ t.ended = d.ended
    /\ t.frames = Append(d.frames, frame)

\* A notification with what was read.
NotifiesFor(frame, r, read) ==
    /\ frame \in Frame /\ Sane(frame) /\ frame.kind = "notify" /\ frame.reader = {r}
    /\ frame.items = read.items /\ frame.at = read.at /\ frame.size = read.used

\* A turn that produces a frame for the subscription it is at.
Turns(t, d, r, read, frame) ==
    /\ d.k \in DOMAIN d.subs /\ r = d.subs[d.k].reader
    /\ ReadInv(read, d.subs[d.k].cursor, Sees[r] \cap Wants[r])
    /\ \/ EndsFor(frame, r, read.at) /\ read.items = <<>> /\ Ends1(t, d, r, frame)
       \/ /\ r \in auth /\ NotifiesFor(frame, r, read) /\ Gives1(t, d, read, frame)
          /\ d.produced + read.used <= room \/ (d.produced = 0 /\ whole)

\* A notification is for one reader.
LEMMA NotifyIs ==
    ASSUME NEW r \in Reader, NEW read, read \in Read, Paid(read), read.items # <<>>,
           NEW frame, frame = Notify(r, read)
    PROVE  NotifiesFor(frame, r, read)
<1>1. /\ read.items \in Seq(Item) /\ read.at \in Position /\ read.used \in Nat
      /\ read.used # 0
    BY DEF Read, Paid
<1>2. PICK items : items = read.items
    OBVIOUS
<1>3. PICK p : p = read.at
    OBVIOUS
<1>4. PICK used : used = read.used
    OBVIOUS
<1>5. PICK again \in BOOLEAN :
          frame = [kind |-> "notify", reader |-> {r}, cause |-> 0, items |-> items,
                   at |-> p, again |-> again, size |-> used]
    BY <1>2, <1>3, <1>4 DEF Notify
<1>6. frame \in Frame
    BY <1>1, <1>2, <1>3, <1>4, <1>5 DEF Frame, Kinds
<1>7. /\ frame.kind = "notify" /\ frame.reader = {r} /\ frame.items = items /\ frame.at = p
      /\ frame.size = used
    BY <1>5
<1> QED BY <1>2, <1>3, <1>4, <1>6, <1>7 DEF Sane, NotifiesFor

\* How a turn that ends a subscription leaves the loop.
LEMMA EndsStep ==
    ASSUME NEW d, d \in DrainRec, NEW r \in Reader, NEW frame \in Frame,
           NEW t, t = [d EXCEPT !.k = @ + 1, !.ended = @ \cup {r}, !.frames = Append(@, frame)]
    PROVE  Ends1(t, d, r, frame)
<1>1. d.k \in Nat /\ d.frames \in Seq(Frame) /\ d.ended \in SUBSET Reader
    BY DEF DrainRec
<1>2. PICK k \in Nat \ {0} : k = d.k + 1
    BY <1>1
<1>3. PICK ended \in SUBSET Reader : ended = d.ended \cup {r}
    BY <1>1
<1>4. PICK frames \in Seq(Frame) : frames = Append(d.frames, frame)
    <2>1. PICK was \in Seq(Frame) : was = d.frames
        BY <1>1
    <2>2. Append(was, frame) \in Seq(Frame)
        OBVIOUS
    <2> QED BY <2>1, <2>2
<1>5. t = [d EXCEPT !.k = k, !.ended = ended, !.frames = frames]
    BY <1>2, <1>3, <1>4
<1>6. /\ t \in DrainRec /\ t.k = k /\ t.ended = ended /\ t.frames = frames
      /\ t.subs = d.subs /\ t.produced = d.produced
    BY <1>5 DEF DrainRec
<1> QED BY <1>2, <1>3, <1>4, <1>6 DEF Ends1

\* And one that delivers.
LEMMA GivesStep ==
    ASSUME NEW d, d \in DrainRec, NEW frame \in Frame, NEW entries \in Seq(Sub), NEW read,
           NEW p, p = read.at, NEW used \in Nat, used = read.used,
           entries = [d.subs EXCEPT ![d.k].cursor = p],
           NEW t, t = [d EXCEPT !.produced = @ + used, !.subs = entries, !.frames = Append(@, frame)]
    PROVE  Gives1(t, d, read, frame)
<1>1. d.produced \in Nat /\ d.frames \in Seq(Frame)
    BY DEF DrainRec
<1>2. PICK produced \in Nat : produced = d.produced + used
    BY <1>1
<1>3. PICK frames \in Seq(Frame) : frames = Append(d.frames, frame)
    <2>1. PICK was \in Seq(Frame) : was = d.frames
        BY <1>1
    <2>2. Append(was, frame) \in Seq(Frame)
        OBVIOUS
    <2> QED BY <2>1, <2>2
<1>4. t = [d EXCEPT !.produced = produced, !.subs = entries, !.frames = frames]
    BY <1>2, <1>3
<1>5. /\ t \in DrainRec /\ t.produced = produced /\ t.subs = entries /\ t.frames = frames
      /\ t.k = d.k /\ t.ended = d.ended
    BY <1>4 DEF DrainRec
<1> QED BY <1>2, <1>3, <1>5 DEF Gives1

\* What a turn of the loop does.
LEMMA DrainTurn ==
    ASSUME StoreInv, room \in 0 .. Bound,
           NEW d, d \in DrainRec, Distinct(d.subs), NEW t, t = DrainItem(d)
    PROVE  \/ Quiet(t, d)
           \/ \E r \in Reader : \E read, frame : Turns(t, d, r, read, frame)
<1>1. CASE d.withheld \/ d.k > Len(d.subs)
    <2>1. t = d
        BY <1>1 DEF DrainItem
    <2> QED BY <2>1 DEF Quiet, DrainRec
<1>2. CASE ~(d.withheld \/ d.k > Len(d.subs))
    <2>1. d.k \in DOMAIN d.subs /\ d.k \in Nat /\ d.subs[d.k] \in Sub
        BY <1>2 DEF DrainRec
    <2>2. PICK r \in Reader : r = d.subs[d.k].reader
        BY <2>1 DEF Sub
    <2>3. PICK start : start = d.subs[d.k].cursor
        OBVIOUS
    <2>4. Sound(start) /\ start \in Position
        BY <2>1, <2>3 DEF Distinct, Sound
    <2>5. PICK read : read = ReadEvents(start, Page, Sees[r], Wants[r], Budget[r])
        OBVIOUS
    <2>6. ReadInv(read, start, Sees[r] \cap Wants[r])
        <3>1. Asked(Page, Sees[r], Budget[r], FALSE)
            BY ReaderAssumption, DeliveryAssumption DEF Asked
        <3>2. PICK enough \in BOOLEAN : Asked(Page, Sees[r], Budget[r], enough)
            BY <3>1
        <3>3. PICK sees : sees = Sees[r]
            OBVIOUS
        <3>4. PICK wants : wants = Wants[r]
            OBVIOUS
        <3>5. PICK budget : budget = Budget[r]
            OBVIOUS
        <3>6. PICK limit : limit = Page
            OBVIOUS
        <3>7. Asked(limit, sees, budget, enough) /\ read = ReadEvents(start, limit, sees, wants, budget)
            BY <2>5, <3>2, <3>3, <3>4, <3>5, <3>6
        <3>8. ReadInv(read, start, sees \cap wants)
            BY <2>4, <3>7, ReadIsWhole
        <3> QED BY <3>3, <3>4, <3>8
    <2>7. read \in Read /\ read.at \in Position /\ Paid(read) /\ read.used \in Nat
        BY <2>6 DEF ReadInv, Read
    <2>8. CASE r \notin auth
        <3>1. PICK frame : frame = Ending(r, start, FALSE)
            OBVIOUS
        <3>2. EndsFor(frame, r, start)
            <4>1. frame = Ending(r, start, TRUE) \/ frame = Ending(r, start, FALSE)
                BY <3>1, Zenon
            <4> QED BY <2>4, <4>1, EndingIs, Zenon
        <3>3. t = [d EXCEPT !.k = @ + 1, !.ended = @ \cup {r}, !.frames = Append(@, frame)]
            BY <1>2, <2>2, <2>3, <2>8, <3>1 DEF DrainItem
        <3>4. frame \in Frame
            BY <3>2 DEF EndsFor
        <3>5. Ends1(t, d, r, frame)
            BY <3>3, <3>4, EndsStep
        <3>6. PICK begin : begin = Begin(start)
            OBVIOUS
        <3>7. ReadInv(begin, start, Sees[r] \cap Wants[r])
            BY <2>4, <3>6, BeginStep
        <3>8. begin.items = <<>> /\ begin.at = start
            BY <3>6 DEF Begin
        <3> QED BY <2>1, <2>2, <2>3, <3>2, <3>5, <3>7, <3>8 DEF Turns
    <2>9. CASE r \in auth /\ read.tooLarge
        <3>1. PICK p \in Position : p = read.at
            BY <2>7
        <3>2. PICK frame : frame = Ending(r, p, FALSE)
            OBVIOUS
        <3>3. EndsFor(frame, r, p)
            <4>1. frame = Ending(r, p, TRUE) \/ frame = Ending(r, p, FALSE)
                BY <3>2, Zenon
            <4> QED BY <4>1, EndingIs, Zenon
        <3>4. t = [d EXCEPT !.k = @ + 1, !.ended = @ \cup {r}, !.frames = Append(@, frame)]
            BY <1>2, <2>2, <2>3, <2>5, <2>9, <3>1, <3>2 DEF DrainItem
        <3>5. frame \in Frame
            BY <3>3 DEF EndsFor
        <3>6. Ends1(t, d, r, frame)
            BY <3>4, <3>5, EndsStep
        <3>7. read.items = <<>>
            BY <2>7, <2>9 DEF Paid
        <3> QED BY <2>1, <2>2, <2>3, <2>6, <3>1, <3>3, <3>6, <3>7 DEF Turns
    <2>10. CASE r \in auth /\ ~read.tooLarge /\ read.items = <<>>
        <3>1. t = [d EXCEPT !.k = @ + 1]
            BY <1>2, <2>2, <2>3, <2>5, <2>10 DEF DrainItem
        <3>2. PICK k \in Nat \ {0} : k = d.k + 1 /\ d.k <= k
            BY <2>1
        <3>3. t = [d EXCEPT !.k = k]
            BY <3>1, <3>2
        <3>4. Quiet(t, d)
            BY <3>2, <3>3 DEF Quiet, DrainRec
        <3> QED BY <3>4
    <2>11. CASE r \in auth /\ ~read.tooLarge /\ read.items # <<>>
        <3>1. CASE d.produced + read.used > room /\ ~ (d.produced = 0 /\ whole)
            <4>1. t = [d EXCEPT !.withheld = TRUE]
                BY <1>2, <2>2, <2>3, <2>5, <2>11, <3>1 DEF DrainItem
            <4>2. t \in DrainRec /\ t.k = d.k /\ t.subs = d.subs /\ t.frames = d.frames
                  /\ t.produced = d.produced /\ t.ended = d.ended
                BY <4>1 DEF DrainRec
            <4>3. Quiet(t, d)
                BY <2>1, <4>2 DEF Quiet
            <4> QED BY <4>3
        <3>2. CASE ~(d.produced + read.used > room /\ ~ (d.produced = 0 /\ whole))
            <4>1. PICK frame : frame = Notify(r, read)
                OBVIOUS
            <4>2. PICK p \in Position : p = read.at
                BY <2>7
            <4>3. PICK used \in Nat : used = read.used
                BY <2>7
            <4>4. t = [d EXCEPT !.produced = @ + used, !.subs[d.k].cursor = p,
                                !.frames = Append(@, frame)]
                BY <1>2, <2>2, <2>3, <2>5, <2>11, <3>2, <4>1, <4>2, <4>3 DEF DrainItem
            <4>5. NotifiesFor(frame, r, read)
                BY <2>7, <2>11, <4>1, NotifyIs
            <4>6. frame \in Frame
                BY <4>5 DEF NotifiesFor
            <4>7. PICK entries : entries = [d.subs EXCEPT ![d.k].cursor = p]
                OBVIOUS
            <4>8. entries \in Seq(Sub)
                <5>1. PICK was : was = d.subs
                    OBVIOUS
                <5>2. was \in Seq(Sub) /\ d.k \in DOMAIN was
                    BY <2>1, <5>1 DEF DrainRec
                <5>3. PICK old \in Sub : old = was[d.k]
                    BY <5>2
                <5>4. PICK sub : sub = [old EXCEPT !.cursor = p]
                    OBVIOUS
                <5>5. sub \in Sub
                    BY <5>4 DEF Sub
                <5>6. entries = [was EXCEPT ![d.k] = sub]
                    BY <4>7, <5>1, <5>3, <5>4
                <5> QED BY <5>2, <5>5, <5>6
            <4>9. t = [d EXCEPT !.produced = @ + used, !.subs = entries, !.frames = Append(@, frame)]
                BY <4>4, <4>7
            <4>10. Gives1(t, d, read, frame)
                BY <4>2, <4>3, <4>6, <4>7, <4>8, <4>9, GivesStep
            <4>11. d.produced + read.used <= room \/ (d.produced = 0 /\ whole)
                BY <2>7, <3>2, DeliveryAssumption DEF DrainRec
            <4> QED BY <2>1, <2>2, <2>3, <2>6, <2>11, <4>5, <4>10, <4>11 DEF Turns
        <3> QED BY <3>1, <3>2
    <2> QED BY <2>8, <2>9, <2>10, <2>11
<1> QED BY <1>1, <1>2

\* One more frame.
LEMMA AppendIs ==
    ASSUME NEW q \in Seq(Frame), NEW x \in Frame, NEW all, all = Append(q, x), NEW one, one = <<x>>
    PROVE  /\ all \in Seq(Frame) /\ one \in Seq(Frame) /\ Joined(all, q, one) /\ Longer(all, q, x)
           /\ Len(one) = 1 /\ one[1] = x /\ DOMAIN one = 1 .. 1
<1>1. /\ all \in Seq(Frame) /\ Len(q) \in Nat /\ Len(all) = Len(q) + 1
      /\ \A k \in 1 .. Len(q) : all[k] = q[k]
      /\ all[Len(q) + 1] = x
    OBVIOUS
<1>2. one \in Seq(Frame) /\ Len(one) = 1 /\ one[1] = x /\ DOMAIN one = 1 .. 1
    OBVIOUS
<1>3. Joined(all, q, one)
    BY <1>1, <1>2 DEF Joined
<1>4. Longer(all, q, x)
    BY <1>1 DEF Longer
<1> QED BY <1>1, <1>2, <1>3, <1>4

\* Frames of events that there are, one after the other.
LEMMA KnownJoined ==
    ASSUME NEW q, NEW f, NEW all \in Seq(Frame), Joined(all, q, f), Known(q), Known(f)
    PROVE  Known(all)
<1>1. /\ Len(q) \in Nat /\ Len(f) \in Nat /\ DOMAIN all = 1 .. Len(q) + Len(f)
      /\ DOMAIN q = 1 .. Len(q) /\ DOMAIN f = 1 .. Len(f)
    BY DEF Joined, Known
<1>2. ASSUME NEW k \in DOMAIN all
      PROVE  \/ \E j \in DOMAIN q : all[k] = q[j]
             \/ \E j \in DOMAIN f : all[k] = f[j]
    <2>1. CASE k \in 1 .. Len(q)
        BY <1>1, <2>1 DEF Joined
    <2>2. CASE k \notin 1 .. Len(q)
        <3>1. k - Len(q) \in 1 .. Len(f) /\ k = Len(q) + (k - Len(q))
            BY <1>1, <2>2
        <3>2. PICK j \in DOMAIN f : k = Len(q) + j
            BY <1>1, <3>1
        <3> QED BY <1>1, <3>2 DEF Joined
    <2> QED BY <2>1, <2>2
<1>3. ASSUME NEW k \in DOMAIN all
      PROVE  /\ Sane(all[k])
             /\ \A m \in DOMAIN all[k].items :
                    all[k].items[m].type = "event" => all[k].items[m].event \in DOMAIN log
    BY <1>2, Zenon DEF Known
<1> QED BY <1>3 DEF Known

\* What it weighs.
LEMMA WeightAppend ==
    ASSUME NEW q, NEW x, NEW all, Longer(all, q, x), NEW kinds
    PROVE  /\ Weight(q, kinds) \in Nat
           /\ x.kind \in kinds => Weight(all, kinds) = Weight(q, kinds) + x.size
           /\ x.kind \notin kinds => Weight(all, kinds) = Weight(q, kinds)
<1>1. PICK one : one = <<x>>
    OBVIOUS
<1>2. all \in Seq(Frame) /\ one \in Seq(Frame) /\ q \in Seq(Frame) /\ x \in Frame
    BY <1>1 DEF Longer
<1>3. Joined(all, q, one)
    BY <1>1, <1>2 DEF Longer, Joined
<1>4. Weighty(q) /\ Weighty(one)
    BY <1>2, FramesWeigh
<1>5. Weight(all, kinds) = Weight(q, kinds) + Weight(one, kinds)
    BY <1>2, <1>3, <1>4, WeightJoined
<1>6. Weight(one, kinds) = IF x.kind \in kinds THEN x.size ELSE 0
    BY <1>1, <1>2, WeightOne, Zenon
<1>7. Weight(q, kinds) \in Nat
    BY <1>4, WeightNat
<1> QED BY <1>5, <1>6, <1>7

\* All but one frame are notices.
Single(q) == \E k \in DOMAIN q : \A j \in DOMAIN q : q[j].kind # "ended" => j = k

Drains(d) ==
    /\ d \in DrainRec /\ Distinct(d.subs)
    /\ Known(d.frames) /\ \A k \in DOMAIN d.frames : d.frames[k].kind # "response"
    /\ \A s \in DOMAIN d.subs : s >= d.k => d.subs[s].reader \notin d.ended
    /\ Weight(d.frames, Governed) = d.produced
    /\ d.produced <= room \/ (whole /\ Single(d.frames))

\* A turn keeps within the room, or was the one thing produced.
LEMMA DrainKeeps ==
    ASSUME StoreInv, room \in 0 .. Bound, NEW d, Drains(d), NEW t, t = DrainItem(d)
    PROVE  Drains(t)
<1>1. /\ d \in DrainRec /\ Distinct(d.subs) /\ Known(d.frames)
      /\ \A k \in DOMAIN d.frames : d.frames[k].kind # "response"
      /\ \A s \in DOMAIN d.subs : s >= d.k => d.subs[s].reader \notin d.ended
      /\ Weight(d.frames, Governed) = d.produced
      /\ d.produced <= room \/ (whole /\ Single(d.frames))
    BY DEF Drains
<1>2. /\ d.k \in Nat /\ d.subs \in Seq(Sub) /\ d.frames \in Seq(Frame) /\ d.produced \in Nat
    BY <1>1 DEF DrainRec
<1>3. CASE Quiet(t, d)
    <2>1. t \in DrainRec /\ t.k \in Nat /\ d.k <= t.k /\ t.subs = d.subs /\ t.frames = d.frames
          /\ t.produced = d.produced /\ t.ended = d.ended
        BY <1>3 DEF Quiet, DrainRec
    <2>2. DOMAIN d.subs \in SUBSET Nat
        BY <1>2
    <2>3. \A s \in DOMAIN d.subs : s >= t.k => s >= d.k
        BY <1>2, <2>1, <2>2
    <2> QED BY <1>1, <2>1, <2>3 DEF Drains
<1>4. ASSUME NEW r \in Reader, NEW read, NEW frame, Turns(t, d, r, read, frame) PROVE Drains(t)
    <2>1. /\ d.k \in DOMAIN d.subs /\ r = d.subs[d.k].reader
          /\ ReadInv(read, d.subs[d.k].cursor, Sees[r] \cap Wants[r])
        BY <1>4 DEF Turns
    <2>2. read \in Read /\ Sound(read.at) /\ read.used \in Nat /\ Paid(read)
        BY <2>1 DEF ReadInv, Read
    <2>3. /\ frame \in Frame /\ Sane(frame) /\ frame.kind # "response"
          /\ frame.items = read.items
          /\ t.frames = Append(d.frames, frame) /\ t \in DrainRec
        BY <1>4 DEF Turns, EndsFor, NotifiesFor, Ends1, Gives1, Sane
    <2>4. PICK f : f = d.frames
        OBVIOUS
    <2>5. PICK all : all = Append(f, frame)
        OBVIOUS
    <2>6. PICK one : one = <<frame>>
        OBVIOUS
    <2>7. /\ f \in Seq(Frame) /\ all \in Seq(Frame) /\ one \in Seq(Frame) /\ Joined(all, f, one)
          /\ Longer(all, f, frame) /\ Len(one) = 1 /\ one[1] = frame /\ DOMAIN one = 1 .. 1
        BY <1>2, <2>3, <2>4, <2>5, <2>6, AppendIs
    <2>8. Known(one)
        <3>1. ASSUME NEW m \in DOMAIN read.items, read.items[m].type = "event"
              PROVE  read.items[m].event \in DOMAIN log
            BY <2>1, <3>1 DEF ReadInv, Within
        <3>2. \A k \in DOMAIN one : k = 1
            BY <2>7
        <3> QED BY <2>3, <2>7, <3>1, <3>2 DEF Known
    <2>9. Known(all)
        BY <1>1, <2>4, <2>7, <2>8, KnownJoined
    <2>10. /\ Len(f) \in Nat /\ DOMAIN f = 1 .. Len(f) /\ DOMAIN all = 1 .. Len(f) + 1
           /\ \A k \in 1 .. Len(f) : all[k] = f[k]
           /\ all[Len(f) + 1] = frame
        BY <2>5, <2>7
    <2>11. \A k \in DOMAIN all : all[k].kind # "response"
        <3> SUFFICES ASSUME NEW k \in DOMAIN all PROVE all[k].kind # "response"
            OBVIOUS
        <3>1. CASE k \in 1 .. Len(f)
            BY <1>1, <2>4, <2>10, <3>1
        <3>2. CASE k = Len(f) + 1
            BY <2>3, <2>10, <3>2
        <3> QED BY <2>10, <3>1, <3>2
    <2>12. /\ Weight(f, Governed) = d.produced
           /\ Weight(all, Governed) = d.produced + (IF frame.kind \in Governed THEN frame.size ELSE 0)
        <3>1. PICK kinds : kinds = Governed
            OBVIOUS
        <3>2. /\ frame.kind \in kinds => Weight(all, kinds) = Weight(f, kinds) + frame.size
              /\ frame.kind \notin kinds => Weight(all, kinds) = Weight(f, kinds)
            BY <2>7, WeightAppend
        <3> QED BY <1>1, <1>2, <2>4, <3>1, <3>2
    <2>13. CASE EndsFor(frame, r, read.at) /\ Ends1(t, d, r, frame)
        <3>1. /\ t.k = d.k + 1 /\ t.subs = d.subs /\ t.produced = d.produced
              /\ t.ended = d.ended \cup {r} /\ frame.kind = "ended"
            BY <2>13 DEF Ends1, EndsFor
        <3>2. ASSUME NEW s \in DOMAIN d.subs, s >= t.k PROVE d.subs[s].reader \notin t.ended
            <4>1. s \in Nat /\ s >= d.k /\ s # d.k
                BY <1>2, <3>1, <3>2
            <4>2. d.subs[s].reader # r
                BY <1>1, <2>1, <4>1 DEF Distinct
            <4> QED BY <1>1, <3>1, <4>1, <4>2
        <3>3. Weight(all, Governed) = d.produced
            BY <1>2, <2>12, <3>1 DEF Governed
        <3>4. ASSUME Single(f) PROVE Single(all)
            <4>1. PICK k \in DOMAIN f : \A j \in DOMAIN f : f[j].kind # "ended" => j = k
                BY <3>4 DEF Single
            <4>2. ASSUME NEW j \in DOMAIN all, all[j].kind # "ended" PROVE j = k
                <5>1. j # Len(f) + 1
                    BY <2>10, <3>1, <4>2
                <5>2. j \in DOMAIN f /\ all[j] = f[j]
                    BY <2>10, <5>1
                <5> QED BY <4>1, <4>2, <5>2
            <4>3. k \in DOMAIN all
                BY <2>10, <4>1
            <4> QED BY <4>2, <4>3 DEF Single
        <3>5. t.frames = all
            BY <2>3, <2>4, <2>5
        <3>6. t.produced <= room \/ (whole /\ Single(t.frames))
            BY <1>1, <2>4, <3>1, <3>4, <3>5
        <3> QED BY <1>1, <2>3, <2>9, <2>11, <3>1, <3>2, <3>3, <3>5, <3>6 DEF Drains
    <2>14. CASE /\ NotifiesFor(frame, r, read) /\ Gives1(t, d, read, frame)
                /\ d.produced + read.used <= room \/ (d.produced = 0 /\ whole)
        <3>1. /\ t.k = d.k /\ t.subs = [d.subs EXCEPT ![d.k].cursor = read.at]
              /\ t.produced = d.produced + read.used /\ t.ended = d.ended
              /\ frame.kind = "notify" /\ frame.size = read.used
            BY <2>14 DEF Gives1, NotifiesFor
        <3>2. PICK p \in Position : p = read.at
            BY <2>2 DEF Sound
        <3>3. PICK was \in Seq(Sub) : was = d.subs
            BY <1>2
        <3>4. PICK new \in Seq(Sub) : new = t.subs
            BY <2>3 DEF DrainRec
        <3>5. /\ DOMAIN new = DOMAIN was /\ DOMAIN was \in SUBSET Nat
              /\ \A s \in DOMAIN was :
                     /\ new[s].reader = was[s].reader
                     /\ new[s].cursor = IF s = d.k THEN p ELSE was[s].cursor
            <4>1. new = [was EXCEPT ![d.k].cursor = p]
                BY <3>1, <3>2, <3>3, <3>4
            <4>2. \A s \in DOMAIN was : was[s] \in Sub
                OBVIOUS
            <4> QED BY <4>1, <4>2 DEF Sub
        <3>6. Distinct(new)
            BY <1>1, <2>2, <3>2, <3>3, <3>5 DEF Distinct
        <3>7. \A s \in DOMAIN new : s >= t.k => new[s].reader \notin t.ended
            BY <1>1, <3>1, <3>3, <3>5
        <3>8. Weight(all, Governed) = t.produced
            BY <2>12, <3>1 DEF Governed
        <3>9. t.frames = all
            BY <2>3, <2>4, <2>5
        <3>10. ASSUME d.produced = 0 PROVE Single(all)
            <4>1. Weighty(f)
                BY <2>7, FramesWeigh
            <4>2. \A k \in 1 .. Len(f) : f[k].kind \notin Governed
                BY <2>12, <3>10, <4>1, WeightNat
            <4>3. ASSUME NEW j \in DOMAIN all, all[j].kind # "ended" PROVE j = Len(f) + 1
                <5> SUFFICES ASSUME j # Len(f) + 1 PROVE FALSE
                    OBVIOUS
                <5>1. j \in 1 .. Len(f) /\ all[j] = f[j] /\ f[j] \in Frame
                    BY <2>7, <2>10
                <5>2. f[j].kind \in Kinds
                    BY <5>1 DEF Frame
                <5> QED BY <4>2, <4>3, <5>1, <5>2 DEF Kinds, Governed
            <4>4. Len(f) + 1 \in DOMAIN all
                BY <2>10
            <4> QED BY <4>3, <4>4 DEF Single
        <3>11. t.produced <= room \/ (whole /\ Single(t.frames))
            BY <2>14, <3>1, <3>9, <3>10
        <3> QED BY <2>3, <2>9, <2>11, <3>4, <3>6, <3>7, <3>8, <3>9, <3>11 DEF Drains
    <2> QED BY <1>4, <2>13, <2>14 DEF Turns
<1> QED BY <1>1, <1>3, <1>4, DrainTurn

\* A turn leaves the subscriptions where its frames bring their consumers.
LEMMA DrainCarries ==
    ASSUME StoreInv, room \in 0 .. Bound, cursor \in [Reader -> Position],
           NEW d, Drains(d), NEW t, t = DrainItem(d),
           NEW q \in Seq(Frame), OnItsWay(q \o d.frames, d.subs, d.ended)
    PROVE  OnItsWay(q \o t.frames, t.subs, t.ended)
<1>1. d \in DrainRec /\ Distinct(d.subs) /\ d.subs \in Seq(Sub) /\ d.frames \in Seq(Frame) /\ d.k \in Nat
    BY DEF Drains, DrainRec
<1>2. CASE Quiet(t, d)
    BY <1>2 DEF Quiet
<1>3. ASSUME NEW r \in Reader, NEW read, NEW frame, Turns(t, d, r, read, frame)
      PROVE  OnItsWay(q \o t.frames, t.subs, t.ended)
    <2>1. /\ d.k \in DOMAIN d.subs /\ r = d.subs[d.k].reader
          /\ ReadInv(read, d.subs[d.k].cursor, Sees[r] \cap Wants[r])
          /\ r \in asked
        BY <1>1, <1>3 DEF Turns, Distinct
    <2>2. /\ frame \in Frame /\ Sane(frame) /\ frame.reader = {r} /\ frame.at = read.at
          /\ frame.items = read.items /\ (r \in auth \/ read.items = <<>>)
          /\ t.frames = Append(d.frames, frame) /\ t \in DrainRec
        BY <1>3 DEF Turns, EndsFor, NotifiesFor, Ends1, Gives1, Sane
    <2>3. PICK f \in Seq(Frame) : f = d.frames
        BY <1>1
    <2>4. PICK p : p = q \o f /\ p \in Seq(Frame)
        <3>1. q \o f \in Seq(Frame)
            OBVIOUS
        <3> QED BY <3>1
    <2>5. PICK qq : qq = Append(p, frame) /\ qq \in Seq(Frame)
        <3>1. frame \in Frame /\ p \in Seq(Frame)
            BY <2>2, <2>4
        <3>2. Append(p, frame) \in Seq(Frame)
            BY <3>1
        <3> QED BY <3>2
    <2>6. q \o t.frames = qq
        <3>1. q \o Append(f, frame) = Append(q \o f, frame)
            BY <2>2
        <3> QED BY <2>2, <2>3, <2>4, <2>5, <3>1
    <2>7. PICK n \in Nat : n = Len(p)
        BY <2>4
    <2>8. /\ \A j \in 1 .. n : qq[j] = p[j] /\ p[j] \in Frame
          /\ qq[n + 1] = frame /\ Len(qq) = n + 1
        BY <2>2, <2>4, <2>5, <2>7
    <2>9. d.k >= d.k /\ d.subs[d.k].reader \notin d.ended
        BY <1>1, <2>1 DEF Drains
    <2>10. Longer(qq, p, frame)
        BY <2>2, <2>4, <2>5, <2>7, <2>8 DEF Longer
    <2>11. OnItsWay(p, d.subs, d.ended)
        BY <2>3, <2>4
    <2>12. PICK start : start = d.subs[d.k].cursor
        OBVIOUS
    <2>13. Upto(p, r, n, start)
        BY <2>1, <2>7, <2>9, <2>11, <2>12 DEF OnItsWay
    <2>14. Upto(qq, r, n, start)
        BY <2>8, <2>13, UptoSame
    <2>15. \A j \in 1 .. n : qq[j].at \in Position
        BY <2>8 DEF Frame
    <2>16. Upto(qq, r, n + 1, read.at) /\ Fresh(qq, n + 1, r)
        <3>1. qq[n + 1].reader = {r} /\ qq[n + 1].items = read.items /\ qq[n + 1].at = read.at
            BY <2>2, <2>8
        <3> QED BY <2>1, <2>2, <2>12, <2>14, <2>15, <3>1, Onward
    <2>17. Fits(qq, Len(p) + 1)
        <3>1. \A o : qq[n + 1].reader = {o} => o = r
            BY <2>2, <2>8
        <3>2. Upto(qq, r, n + 1, qq[n + 1].at) /\ Sane(qq[n + 1])
            BY <2>2, <2>8, <2>16
        <3>3. Fits(qq, n + 1)
            BY <2>1, <2>16, <3>1, <3>2 DEF Fits
        <3> QED BY <2>7, <3>3
    <2>18. CASE Ends1(t, d, r, frame)
        <3>1. t.subs = d.subs /\ t.ended = d.ended \cup {r}
            BY <2>18 DEF Ends1
        <3>2. ASSUME NEW s \in DOMAIN d.subs
              PROVE  \/ d.subs[s].reader \in t.ended
                     \/ frame.reader # {d.subs[s].reader} /\ t.subs[s].cursor = d.subs[s].cursor
            BY <2>2, <3>1
        <3>3. PICK entries \in Seq(Sub) : entries = d.subs
            BY <1>1
        <3>4. PICK gone : gone = d.ended
            OBVIOUS
        <3>5. PICK gone2 : gone2 = t.ended
            OBVIOUS
        <3>6. OnItsWay(qq, entries, gone2)
            <4>1. OnItsWay(p, entries, gone) /\ gone \subseteq gone2
                BY <2>11, <3>1, <3>3, <3>4, <3>5
            <4>2. GoesOn(entries, gone2, entries, gone, qq, n, frame)
                BY <3>1, <3>2, <3>3, <3>5, <4>1 DEF GoesOn
            <4> QED BY <2>7, <2>10, <2>17, <4>1, <4>2, WayAppend
        <3> QED BY <2>6, <3>1, <3>3, <3>5, <3>6
    <2>19. CASE Gives1(t, d, read, frame)
        <3>1. t.subs = [d.subs EXCEPT ![d.k].cursor = read.at] /\ t.ended = d.ended
            BY <2>19 DEF Gives1
        <3>2. PICK entries \in Seq(Sub) : entries = d.subs
            BY <1>1
        <3>3. PICK entries2 \in Seq(Sub) : entries2 = t.subs
            BY <2>2 DEF DrainRec
        <3>4. PICK x \in Position : x = read.at
            BY <2>2 DEF Frame
        <3>5. /\ DOMAIN entries2 = DOMAIN entries
              /\ \A s \in DOMAIN entries :
                     /\ entries2[s].reader = entries[s].reader
                     /\ entries2[s].cursor = IF s = d.k THEN x ELSE entries[s].cursor
            <4>1. entries2 = [entries EXCEPT ![d.k].cursor = x]
                BY <3>1, <3>2, <3>3, <3>4
            <4>2. \A s \in DOMAIN entries : entries[s] \in Sub
                OBVIOUS
            <4> QED BY <4>1, <4>2 DEF Sub
        <3>6. PICK gone : gone = d.ended
            OBVIOUS
        <3>7. ASSUME NEW s \in DOMAIN entries
              PROVE  \/ frame.reader # {entries[s].reader} /\ entries2[s].cursor = entries[s].cursor
                     \/ Upto(qq, entries[s].reader, Len(p) + 1, entries2[s].cursor)
            <4>1. CASE s = d.k
                BY <2>1, <2>7, <2>16, <3>2, <3>4, <3>5, <4>1
            <4>2. CASE s # d.k
                <5>1. entries[s].reader # r
                    BY <1>1, <2>1, <3>2, <4>2 DEF Distinct
                <5> QED BY <2>2, <3>5, <4>2, <5>1
            <4> QED BY <4>1, <4>2
        <3>8. OnItsWay(qq, entries2, gone)
            <4>1. OnItsWay(p, entries, gone)
                BY <2>11, <3>2, <3>6
            <4>2. GoesOn(entries2, gone, entries, gone, qq, n, frame)
                BY <2>7, <3>5, <3>7 DEF GoesOn
            <4> QED BY <2>7, <2>10, <2>17, <4>1, <4>2, WayAppend
        <3> QED BY <2>6, <3>1, <3>3, <3>6, <3>8
    <2> QED BY <1>3, <2>18, <2>19 DEF Turns
<1> QED BY <1>1, <1>2, <1>3, DrainTurn DEF Drains

DrainBegin ==
    [k |-> 1, subs |-> subs, frames |-> <<>>, produced |-> 0, withheld |-> FALSE, ended |-> {}]

\* f[k] is the loop after k turns, for k up to n.
IsDrain(f, n) == f = [k \in 0 .. n |-> IF k = 0 THEN DrainBegin ELSE DrainItem(f[k - 1])]

TurnsOf == Len(subs) * (Cardinality(rows) + Epoch + 2)

\* A drain is the loop after enough turns.
LEMMA DrainIs == Drained = (CHOOSE f : IsDrain(f, TurnsOf))[TurnsOf]
BY Zenon DEF Drained, IsDrain, DrainBegin, TurnsOf

\* The loop may make any number of turns.
LEMMA DrainRuns ==
    ASSUME NEW n \in Nat
    PROVE  \E f : IsDrain(f, n)
<1> DEFINE S == {m \in 0 .. n : \E f : IsDrain(f, m)}
<1>1. 0 \in S
    <2> DEFINE f == [k \in 0 .. 0 |-> DrainBegin]
    <2>1. f = [k \in 0 .. 0 |-> IF k = 0 THEN DrainBegin ELSE DrainItem(f[k - 1])]
        OBVIOUS
    <2> HIDE DEF f
    <2>2. IsDrain(f, 0)
        BY <2>1, Zenon DEF IsDrain
    <2> QED BY <2>2
<1>2. ASSUME NEW m \in 1 .. n, m - 1 \in S PROVE m \in S
    <2>1. PICK f : IsDrain(f, m - 1)
        BY <1>2
    <2> DEFINE last == DrainItem(f[m - 1])
               g == [k \in 0 .. m |-> IF k = m THEN last ELSE f[k]]
    <2>2. \A k \in 0 .. m - 1 : f[k] = IF k = 0 THEN DrainBegin ELSE DrainItem(f[k - 1])
        BY <2>1 DEF IsDrain
    <2>3. ASSUME NEW k \in 0 .. m
          PROVE  g[k] = IF k = 0 THEN DrainBegin ELSE DrainItem(g[k - 1])
        <3>1. CASE k = m
            <4>1. g[k] = last /\ g[k - 1] = f[m - 1] /\ k # 0
                BY <3>1
            <4> HIDE DEF g
            <4> QED BY <3>1, <4>1
        <3>2. CASE k # m
            <4>1. k \in 0 .. m - 1
                BY <3>2
            <4>2. g[k] = f[k]
                BY <3>2
            <4>3. k # 0 => g[k - 1] = f[k - 1]
                BY <3>2
            <4> HIDE DEF g
            <4> QED BY <2>2, <4>1, <4>2, <4>3
        <3> QED BY <3>1, <3>2
    <2>4. g = [k \in 0 .. m |-> g[k]]
        OBVIOUS
    <2> HIDE DEF g
    <2>5. g = [k \in 0 .. m |-> IF k = 0 THEN DrainBegin ELSE DrainItem(g[k - 1])]
        BY <2>3, <2>4
    <2>6. IsDrain(g, m)
        BY <2>5, Zenon DEF IsDrain
    <2> QED BY <2>6
<1>3. n \in S
    <2> HIDE DEF S
    <2>1. \A k \in 0 .. n : k \in S
        BY <1>1, <1>2, CountUp
    <2> QED BY <2>1
<1> QED BY <1>3

\* What a whole drain produces, and where it leaves the subscriptions.
LEMMA DrainIsWhole ==
    ASSUME StoreInv, room \in 0 .. Bound, cursor \in [Reader -> Position], Distinct(subs),
           NEW d, d = Drained, NEW q \in Seq(Frame)
    PROVE  /\ Drains(d)
           /\ OnItsWay(q, subs, {}) => OnItsWay(q \o d.frames, d.subs, d.ended)
<1> DEFINE n == TurnsOf
<1>1. n \in Nat
    <2>1. Len(subs) \in Nat
        BY DEF Distinct
    <2>2. Cardinality(rows) + Epoch + 2 \in Nat
        BY PassedFinite, EpochEnd
    <2> QED BY <2>1, <2>2 DEF TurnsOf
<1>2. PICK f : IsDrain(f, n) /\ d = f[n]
    <2> HIDE DEF n
    <2> DEFINE f == CHOOSE f : IsDrain(f, n)
    <2>1. \E g : IsDrain(g, n)
        BY <1>1, DrainRuns
    <2>2. IsDrain(f, n)
        BY <2>1, Zenon
    <2>3. d = f[n]
        BY DrainIs, Zenon DEF n
    <2> QED BY <2>2, <2>3, Zenon
<1> HIDE DEF n
<1>3. \A k \in 0 .. n : f[k] = IF k = 0 THEN DrainBegin ELSE DrainItem(f[k - 1])
    BY <1>2 DEF IsDrain
<1> DEFINE Good(x) == /\ Drains(x)
                      /\ OnItsWay(q, subs, {}) => OnItsWay(q \o x.frames, x.subs, x.ended)
           S == {k \in 0 .. n : Good(f[k])}
<1>4. 0 \in S
    <2>1. PICK none : none = <<>>
        OBVIOUS
    <2>2. /\ none \in Seq(Frame) /\ DOMAIN none = {} /\ q \o none = q
        BY <2>1
    <2>3. Weight(none, Governed) = 0
        <3>1. Weighty(none)
            BY <2>2, FramesWeigh
        <3>2. \A k \in 1 .. Len(none) : none[k].kind \notin Governed
            BY <2>1
        <3> QED BY <3>1, <3>2, WeightNat
    <2>4. PICK b : b = DrainBegin
        OBVIOUS
    <2>5. /\ b.k = 1 /\ b.subs = subs /\ b.frames = none /\ b.produced = 0 /\ b.ended = {}
          /\ b \in DrainRec
        <3>1. subs \in Seq(Sub)
            BY DEF Distinct
        <3>2. b = [k |-> 1, subs |-> subs, frames |-> none, produced |-> 0, withheld |-> FALSE,
                   ended |-> {}]
            BY <2>1, <2>4 DEF DrainBegin
        <3> QED BY <2>2, <3>1, <3>2 DEF DrainRec
    <2>6. Known(none)
        BY <2>2 DEF Known
    <2>7. Drains(b)
        BY <2>2, <2>3, <2>5, <2>6 DEF Drains
    <2>8. f[0] = b /\ 0 \in 0 .. n
        BY <1>1, <1>3, <2>4
    <2>9. OnItsWay(q, subs, {}) => OnItsWay(q \o b.frames, b.subs, b.ended)
        BY <2>2, <2>5
    <2> QED BY <2>7, <2>8, <2>9
<1>5. ASSUME NEW k \in 1 .. n, k - 1 \in S PROVE k \in S
    <2>1. PICK was : was = f[k - 1]
        OBVIOUS
    <2>2. PICK t : t = f[k]
        OBVIOUS
    <2>3. t = DrainItem(was) /\ k \in 0 .. n
        BY <1>1, <1>3, <2>1, <2>2
    <2>4. Good(was)
        BY <1>5, <2>1
    <2>5. Drains(t)
        BY <2>3, <2>4, DrainKeeps
    <2>6. OnItsWay(q, subs, {}) => OnItsWay(q \o t.frames, t.subs, t.ended)
        BY <2>3, <2>4, DrainCarries
    <2> QED BY <2>2, <2>3, <2>5, <2>6
<1>6. n \in S
    <2> HIDE DEF S
    <2>1. \A k \in 0 .. n : k \in S
        BY <1>1, <1>4, <1>5, CountUp
    <2> QED BY <1>1, <2>1
<1> QED BY <1>2, <1>6

-----------------------------------------------------------------------------
(* What waits for the writer.                                              *)

Bounded(q) == Weight(q, Governed) <= Bound \/ Single(q)

\* What is pending is within the bound.
LEMMA BoundedIs ==
    /\ PendingBounded <=> Bounded(queue)
    /\ Pending = Weight(queue, Kinds)
<1>1. Weight(queue, {"response", "notify"}) = Weight(queue, Governed)
    BY DEF Governed
<1>2. Pending = Weight(queue, Kinds)
    <2>1. {"response", "notify", "ended"} = Kinds
        BY DEF Kinds
    <2> QED BY <2>1, Zenon DEF Pending
<1> QED BY <1>1, <1>2 DEF PendingBounded, Bounded, Single

\* Notices do not count.
LEMMA BoundedEnds ==
    ASSUME NEW q \in Seq(Frame), NEW f \in Seq(Frame), NEW all, Joined(all, q, f), Bounded(q),
           DOMAIN all = 1 .. Len(q) + Len(f),
           \A k \in DOMAIN f : f[k].kind = "ended"
    PROVE  Bounded(all)
<1>1. Weighty(q) /\ Weighty(f)
    BY FramesWeigh
<1>2. Weight(all, Governed) = Weight(q, Governed) + Weight(f, Governed)
    BY <1>1, WeightJoined
<1>3. Weight(f, Governed) = 0
    <2>1. \A k \in 1 .. Len(f) : f[k].kind \notin Governed
        BY DEF Governed
    <2> QED BY <1>1, <2>1, WeightNat
<1>4. Weight(q, Governed) \in Nat
    BY <1>1, WeightNat
<1>5. CASE Weight(q, Governed) <= Bound
    BY <1>2, <1>3, <1>4, <1>5 DEF Bounded
<1>6. CASE Single(q)
    <2>1. PICK k \in DOMAIN q : \A j \in DOMAIN q : q[j].kind # "ended" => j = k
        BY <1>6 DEF Single
    <2>2. ASSUME NEW j \in DOMAIN all, all[j].kind # "ended" PROVE j = k
        <3>1. CASE j \in 1 .. Len(q)
            BY <2>1, <2>2, <3>1 DEF Joined
        <3>2. CASE j \notin 1 .. Len(q)
            <4>1. j - Len(q) \in 1 .. Len(f) /\ j = Len(q) + (j - Len(q))
                BY <3>2
            <4>2. PICK i \in DOMAIN f : j = Len(q) + i
                BY <4>1
            <4>3. all[j] = f[i]
                BY <4>2 DEF Joined
            <4> QED BY <2>2, <4>3
        <3> QED BY <3>1, <3>2
    <2>3. k \in DOMAIN all
        BY <2>1
    <2> QED BY <2>2, <2>3 DEF Bounded, Single
<1> QED BY <1>5, <1>6 DEF Bounded

\* What is left after a frame was written.
LEMMA BoundedTail ==
    ASSUME NEW q \in Seq(Frame), q # <<>>, Bounded(q), NEW tail, tail = Tail(q)
    PROVE  /\ Bounded(tail) /\ \A kinds : Weight(tail, kinds) <= Weight(q, kinds)
           /\ tail \in Seq(Frame)
<1>1. PICK one : one = <<Head(q)>>
    OBVIOUS
<1>2. /\ Head(q) \in Frame /\ tail \in Seq(Frame) /\ Joined(q, <<Head(q)>>, tail)
    BY JoinIs
<1>3. one \in Seq(Frame) /\ Joined(q, one, tail) /\ Len(one) = 1 /\ one[1] = Head(q)
    BY <1>1, <1>2
<1>4. Weighty(one) /\ Weighty(tail)
    BY <1>2, <1>3, FramesWeigh
<1>5. \A kinds : /\ Weight(q, kinds) = Weight(one, kinds) + Weight(tail, kinds)
                 /\ Weight(one, kinds) \in Nat /\ Weight(tail, kinds) \in Nat
    BY <1>3, <1>4, WeightJoined, WeightNat
<1>6. \A kinds : Weight(tail, kinds) <= Weight(q, kinds)
    BY <1>5
<1>7. /\ Len(tail) \in Nat /\ DOMAIN tail = 1 .. Len(tail) /\ DOMAIN q = 1 .. Len(tail) + 1
      /\ \A k \in 1 .. Len(tail) : tail[k] = q[k + 1]
    BY <1>2
<1>8. Bounded(tail)
    <2>1. CASE Weight(q, Governed) <= Bound
        <3>1. /\ Weight(tail, Governed) <= Weight(q, Governed)
              /\ Weight(tail, Governed) \in Nat /\ Weight(q, Governed) \in Nat
            BY <1>5, <1>6
        <3> QED BY <2>1, <3>1, DeliveryAssumption DEF Bounded
    <2>2. CASE Single(q)
        <3>1. PICK k \in DOMAIN q : \A j \in DOMAIN q : q[j].kind # "ended" => j = k
            BY <2>2 DEF Single
        <3>2. CASE k = 1
            <4>1. \A j \in 1 .. Len(tail) : tail[j].kind = "ended"
                <5> SUFFICES ASSUME NEW j \in 1 .. Len(tail) PROVE tail[j].kind = "ended"
                    OBVIOUS
                <5>1. j + 1 \in DOMAIN q /\ j + 1 # k /\ tail[j] = q[j + 1]
                    BY <1>7, <3>2
                <5> QED BY <3>1, <5>1
            <4>2. \A j \in 1 .. Len(tail) : tail[j].kind \notin Governed
                BY <4>1 DEF Governed
            <4>3. Weight(tail, Governed) = 0
                BY <1>4, <4>2, WeightNat
            <4> QED BY <4>3, DeliveryAssumption DEF Bounded
        <3>3. CASE k # 1
            <4>1. k - 1 \in DOMAIN tail
                BY <1>7, <3>1, <3>3
            <4>2. ASSUME NEW j \in DOMAIN tail, tail[j].kind # "ended" PROVE j = k - 1
                <5>1. j + 1 \in DOMAIN q /\ tail[j] = q[j + 1]
                    BY <1>7
                <5>2. j + 1 = k
                    BY <3>1, <4>2, <5>1
                <5> QED BY <1>7, <5>2
            <4> QED BY <4>1, <4>2 DEF Bounded, Single
        <3> QED BY <3>2, <3>3
    <2> QED BY <2>1, <2>2 DEF Bounded
<1> QED BY <1>2, <1>6, <1>8

\* What a drain adds, with the room it was given.
LEMMA BoundedDrain ==
    ASSUME room \in 0 .. Bound, NEW d, Drains(d),
           NEW q \in Seq(Frame), Bounded(q), NEW all \in Seq(Frame), Joined(all, q, d.frames),
           room = 0 \/ Weight(q, Kinds) + room <= Bound, whole => q = <<>>
    PROVE  Bounded(all)
<1>1. PICK f : f = d.frames
    OBVIOUS
<1>2. PICK produced : produced = d.produced
    OBVIOUS
<1>3. /\ f \in Seq(Frame) /\ Joined(all, q, f) /\ produced \in Nat
      /\ Weight(f, Governed) = produced
      /\ produced <= room \/ (whole /\ Single(f))
    BY <1>1, <1>2 DEF Drains, DrainRec
<1>4. /\ Weighty(q) /\ Weighty(f) /\ Bound \in Nat
    BY <1>3, FramesWeigh, DeliveryAssumption
<1>5. Weight(all, Governed) = Weight(q, Governed) + produced
    BY <1>3, <1>4, WeightJoined
<1>6. /\ Weight(q, Governed) \in Nat /\ Weight(q, Kinds) \in Nat
      /\ Weight(q, Governed) <= Weight(q, Kinds)
    <2>1. Governed \subseteq Kinds
        BY DEF Governed, Kinds
    <2> QED BY <1>4, <2>1, WeightNat, WeightFewer
<1>7. CASE produced = 0
    <2>1. \A k \in 1 .. Len(f) : f[k].kind \notin Governed
        BY <1>3, <1>4, <1>7, WeightNat
    <2>2. \A k \in DOMAIN f : f[k].kind = "ended"
        <3> SUFFICES ASSUME NEW k \in DOMAIN f PROVE f[k].kind = "ended"
            OBVIOUS
        <3>1. f[k] \in Frame /\ k \in 1 .. Len(f)
            BY <1>3
        <3>2. f[k].kind \in Kinds /\ f[k].kind \notin Governed
            BY <2>1, <3>1 DEF Frame
        <3> QED BY <3>2 DEF Kinds, Governed
    <2>3. DOMAIN all = 1 .. Len(q) + Len(f)
        BY <1>3 DEF Joined
    <2> QED BY <1>3, <2>2, <2>3, BoundedEnds
<1>8. CASE produced # 0 /\ produced <= room
    BY <1>3, <1>4, <1>5, <1>6, <1>8 DEF Bounded
<1>9. CASE whole /\ Single(f)
    <2>1. q = <<>> /\ Len(q) = 0
        BY <1>9
    <2>2. DOMAIN all = DOMAIN f /\ \A k \in DOMAIN all : all[k] = f[k]
        <3>1. DOMAIN all = 1 .. Len(f) /\ DOMAIN f = 1 .. Len(f)
            BY <1>3, <2>1 DEF Joined
        <3>2. \A k \in 1 .. Len(f) : 0 + k = k
            BY <1>3
        <3> QED BY <1>3, <2>1, <3>1, <3>2 DEF Joined
    <2> QED BY <1>9, <2>2 DEF Bounded, Single
<1> QED BY <1>3, <1>7, <1>8, <1>9

\* A response that found room, or nothing else pending.
LEMMA BoundedResponse ==
    ASSUME NEW q, NEW x, NEW all, Longer(all, q, x), x.kind = "response", x.size = 1,
           q = <<>> \/ Weight(q, Kinds) + 1 <= Bound
    PROVE  Bounded(all)
<1>1. q \in Seq(Frame) /\ DOMAIN all = 1 .. Len(q) + 1
    BY DEF Longer
<1>2. CASE q = <<>>
    <2>1. DOMAIN all = 1 .. 1
        BY <1>1, <1>2
    <2>2. 1 \in DOMAIN all /\ \A j \in DOMAIN all : j = 1
        BY <2>1
    <2> QED BY <2>2 DEF Bounded, Single
<1>3. CASE Weight(q, Kinds) + 1 <= Bound
    <2>1. x.kind \in Governed /\ Governed \subseteq Kinds
        BY DEF Governed, Kinds
    <2>2. Weight(all, Governed) = Weight(q, Governed) + 1
        BY <2>1, WeightAppend
    <2>3. Weighty(q)
        BY <1>1, FramesWeigh
    <2>4. /\ Weight(q, Governed) \in Nat /\ Weight(q, Kinds) \in Nat
          /\ Weight(q, Governed) <= Weight(q, Kinds)
        BY <2>1, <2>3, WeightNat, WeightFewer
    <2> QED BY <1>3, <2>2, <2>4, DeliveryAssumption DEF Bounded
<1> QED BY <1>2, <1>3

\* Nothing waits.
LEMMA QueueEmpty ==
    ASSUME NEW q, q = <<>>, queue' = q
    PROVE  Queued'
<1>1. q \in Seq(Frame) /\ DOMAIN q = 1 .. 0 /\ Len(q) = 0
    OBVIOUS
<1>2. Known(queue)'
    BY <1>1 DEF Known
<1>3. PendingBounded'
    <2>1. Weighty(q)
        BY <1>1, FramesWeigh
    <2>2. Weight(q, Governed) = 0
        BY <1>1, <2>1, WeightNat
    <2>3. Weight(queue', {"response", "notify"}) = 0
        BY <2>2 DEF Governed
    <2> QED BY <2>3, DeliveryAssumption DEF PendingBounded
<1>4. ResponseFirst'
    BY <1>1 DEF ResponseFirst
<1> QED BY <1>2, <1>3, <1>4 DEF Queued

\* What waits stays, and there are more events, one of which may have to be answered.
LEMMA QueueStays ==
    ASSUME StoreInv, StoreInv', Grows, Queued, queue' = queue, owes' \in {owes, 0, Len(log) + 1}
    PROVE  Queued'
<1>1. /\ DOMAIN log = 1 .. Len(log) /\ DOMAIN log' = 1 .. Len(log')
      /\ Len(log) \in Nat /\ Len(log') \in Nat /\ Len(log) <= Len(log')
    BY DEF StoreInv, Stored, Grows
<1>2. Known(queue)'
    BY <1>1 DEF Queued, Known
<1>3. PendingBounded'
    BY DEF Queued, PendingBounded
<1>4. ASSUME NEW k \in DOMAIN queue, NEW i \in DOMAIN log', Carries(queue[k], i)
      PROVE  /\ owes' # i
             /\ \A j \in k .. Len(queue) : queue[j].kind = "response" => queue[j].cause # i
    <2>1. i \in DOMAIN log
        BY <1>4 DEF Carries, Queued, Known
    <2>2. /\ owes # i
          /\ \A j \in k .. Len(queue) : queue[j].kind = "response" => queue[j].cause # i
        BY <1>4, <2>1 DEF Queued, ResponseFirst
    <2> QED BY <1>1, <2>1, <2>2
<1>5. ResponseFirst'
    BY <1>4 DEF ResponseFirst, Carries
<1> QED BY <1>2, <1>3, <1>5 DEF Queued

\* The front frame was written.
LEMMA QueueShrinks ==
    ASSUME Queued, queue # <<>>, queue' = Tail(queue), UNCHANGED <<log, owes>>
    PROVE  Queued'
<1>1. PICK tail : tail = Tail(queue)
    OBVIOUS
<1>2. queue \in Seq(Frame) /\ Bounded(queue)
    BY BoundedIs DEF Queued, Known
<1>3. Bounded(tail) /\ tail \in Seq(Frame)
    BY <1>1, <1>2, BoundedTail
<1>4. /\ DOMAIN queue = 1 .. Len(tail) + 1 /\ DOMAIN tail = 1 .. Len(tail)
      /\ Len(queue) = Len(tail) + 1 /\ Len(tail) \in Nat
      /\ \A k \in 1 .. Len(tail) : tail[k] = queue[k + 1] /\ k + 1 \in DOMAIN queue
    BY <1>1, <1>2
<1>5. Known(tail)
    BY <1>3, <1>4 DEF Queued, Known
<1>6. Known(queue)'
    BY <1>1, <1>5 DEF Known
<1>7. PendingBounded'
    BY <1>1, <1>3 DEF PendingBounded, Bounded, Single, Governed
<1>8. ASSUME NEW k \in DOMAIN tail, NEW i \in DOMAIN log, Carries(tail[k], i)
      PROVE  owes # i /\ \A j \in k .. Len(tail) : tail[j].kind = "response" => tail[j].cause # i
    <2>1. /\ owes # i
          /\ \A j \in k + 1 .. Len(queue) : queue[j].kind = "response" => queue[j].cause # i
        BY <1>4, <1>8 DEF Queued, ResponseFirst
    <2>2. \A j \in k .. Len(tail) : j \in 1 .. Len(tail) /\ j + 1 \in k + 1 .. Len(queue)
        BY <1>4
    <2> QED BY <1>4, <2>1, <2>2
<1>9. ResponseFirst'
    BY <1>1, <1>8 DEF ResponseFirst, Carries
<1> QED BY <1>6, <1>7, <1>9 DEF Queued

\* What is pushed answers what was owed, or has no answers and nothing is owed.
Answers(f) ==
    \/ owes' = 0 /\ \A k \in DOMAIN f : f[k].kind # "response"
    \/ /\ owes' \in {0, owes}
       /\ \A k \in DOMAIN f : f[k].items = <<>> /\ (f[k].kind = "response" => f[k].cause = owes)

\* Frames are pushed.
LEMMA QueueGrows ==
    ASSUME StoreInv, Queued, UNCHANGED log, NEW f, Known(f), Answers(f), NEW all,
           Joined(all, queue, f), queue' = all, Bounded(all), all \in Seq(Frame)
    PROVE  Queued'
<1>1. Known(queue) /\ ResponseFirst
    BY DEF Queued
<1>2. Known(all)
    BY <1>1, KnownJoined
<1>3. Known(queue)'
    BY <1>2 DEF Known
<1>4. PendingBounded'
    BY DEF PendingBounded, Bounded, Single, Governed
<1>5. /\ Len(queue) \in Nat /\ Len(f) \in Nat /\ Len(all) = Len(queue) + Len(f)
      /\ DOMAIN queue = 1 .. Len(queue) /\ DOMAIN f = 1 .. Len(f) /\ DOMAIN all = 1 .. Len(all)
      /\ \A k \in 1 .. Len(queue) : all[k] = queue[k]
      /\ \A k \in 1 .. Len(f) : all[Len(queue) + k] = f[k]
    BY <1>1 DEF Known, Joined
<1>6. /\ DOMAIN log = 1 .. Len(log) /\ Len(log) \in Nat
    BY DEF StoreInv, Stored
<1>7. ASSUME NEW j \in 1 .. Len(all) PROVE j \in DOMAIN queue \/ \E m \in DOMAIN f : j = Len(queue) + m
    <2>1. CASE j <= Len(queue)
        BY <1>5, <2>1
    <2>2. CASE ~(j <= Len(queue))
        <3>1. j - Len(queue) \in DOMAIN f /\ j = Len(queue) + (j - Len(queue))
            BY <1>5, <2>2
        <3> QED BY <3>1
    <2> QED BY <2>1, <2>2
<1>8. ASSUME NEW k \in DOMAIN all, NEW i \in DOMAIN log, Carries(all[k], i)
      PROVE  owes' # i /\ \A j \in k .. Len(all) : all[j].kind = "response" => all[j].cause # i
    <2>1. CASE k \in DOMAIN queue
        <3>1. /\ owes # i
              /\ \A j \in k .. Len(queue) : queue[j].kind = "response" => queue[j].cause # i
            BY <1>1, <1>5, <1>8, <2>1 DEF ResponseFirst
        <3>2. owes' # i
            BY <1>6, <3>1 DEF Answers
        <3>3. ASSUME NEW j \in k .. Len(all), all[j].kind = "response" PROVE all[j].cause # i
            <4>1. j \in 1 .. Len(all)
                BY <1>5, <2>1
            <4>2. CASE j \in DOMAIN queue
                <5>1. j \in k .. Len(queue) /\ all[j] = queue[j]
                    BY <1>5, <4>2
                <5> QED BY <3>1, <3>3, <5>1
            <4>3. CASE \E m \in DOMAIN f : j = Len(queue) + m
                <5>1. PICK m \in DOMAIN f : j = Len(queue) + m
                    BY <4>3
                <5>2. f[m].kind = "response" /\ all[j] = f[m]
                    BY <1>5, <3>3, <5>1
                <5>3. f[m].cause = owes
                    BY <5>2 DEF Answers
                <5> QED BY <3>1, <5>2, <5>3
            <4> QED BY <1>7, <4>1, <4>2, <4>3
        <3> QED BY <3>2, <3>3
    <2>2. CASE k \notin DOMAIN queue
        <3>1. PICK n \in DOMAIN f : k = Len(queue) + n
            BY <1>5, <1>7, <2>2
        <3>2. Carries(f[n], i)
            BY <1>5, <1>8, <3>1
        <3>3. f[n].items # <<>>
            BY <3>2 DEF Carries
        <3>4. owes' = 0 /\ \A m \in DOMAIN f : f[m].kind # "response"
            BY <3>3 DEF Answers
        <3>5. ASSUME NEW j \in k .. Len(all) PROVE all[j].kind # "response"
            <4>1. j \in 1 .. Len(all) /\ j \notin DOMAIN queue
                BY <1>5, <3>1
            <4>2. PICK m \in DOMAIN f : j = Len(queue) + m
                BY <1>7, <4>1
            <4> QED BY <1>5, <3>4, <4>2
        <3> QED BY <1>6, <3>4, <3>5
    <2> QED BY <2>1, <2>2
<1>9. ResponseFirst'
    BY <1>8 DEF ResponseFirst, Carries
<1> QED BY <1>3, <1>4, <1>9 DEF Queued

-----------------------------------------------------------------------------
(* The invariant.                                                          *)

\* The store, the grants or the session make a step, and nothing is delivered.
LEMMA DeliveringStays ==
    ASSUME StoreInv, StoreInv', Grows, \A s \in Subject : rev[s] <= rev'[s], FollowerTypeOK,
           UNCHANGED followers, Lapses, Delivering, asked \subseteq asked',
           Coming' = Coming, Live' = Live, subs' = subs
    PROVE  Delivering'
<1>1. PICK q : q = Coming
    OBVIOUS
<1>2. PICK live : live = Live
    OBVIOUS
<1>3. PICK none : none = {}
    OBVIOUS
<1>4. subs \in Seq(Sub) /\ live \in Seq(Sub)
    BY <1>2 DEF Delivering, Distinct, Live
<1>5. OnItsWay(q, live, none)
    BY <1>1, <1>2, <1>3 DEF Delivering
<1>6. OnItsWay(q, live, none)'
    BY <1>4, <1>5, WayStays
<1>7. ASSUME NEW qq, NEW entries, qq = Coming', entries = Live' PROVE OnItsWay(qq, entries, {})'
    BY <1>1, <1>2, <1>3, <1>6, <1>7
<1>8. Distinct(subs)'
    BY PlacesStay DEF Delivering, Distinct
<1>9. ASSUME NEW r \in Reader PROVE Reached(r)'
    <2>1. Reached(r) /\ since'[r] = since[r]
        BY DEF Delivering, followers
    <2> QED BY <2>1, ReachedStays DEF followers
<1> QED BY <1>7, <1>8, <1>9 DEF Delivering

\* Nobody writes any more, or there is nothing to write.
LEMMA DeliveringStops ==
    ASSUME StoreInv, StoreInv', Grows, FollowerTypeOK, UNCHANGED followers, Lapses,
           \A r \in Reader : Reached(r), Distinct(subs)',
           NEW none, none = <<>>, Coming' = none, Live' = none
    PROVE  Delivering'
<1>1. DOMAIN none = {}
    OBVIOUS
<1>2. ASSUME NEW q, NEW entries, q = Coming', entries = Live' PROVE OnItsWay(q, entries, {})'
    BY <1>1, <1>2 DEF OnItsWay
<1>3. ASSUME NEW r \in Reader PROVE Reached(r)'
    <2>1. Reached(r) /\ since'[r] = since[r]
        BY DEF followers
    <2> QED BY <2>1, ReachedStays DEF followers
<1> QED BY <1>2, <1>3 DEF Delivering

\* What a step of the store leaves.
LEMMA Stepped ==
    ASSUME KeepsSome, StoreTypeOK, StoreInv, StoreNext \/ UNCHANGED store
    PROVE  StoreTypeOK' /\ StoreInv' /\ Grows /\ \A s \in Subject : rev[s] <= rev'[s]
<1>1. StoreInv' /\ Grows
    BY StoreStep
<1>2. phase' \in Phase /\ starts' \in Nat
    BY PhaseStep DEF StoreTypeOK
<1>3. \A s \in Subject : rev[s] <= rev'[s]
    BY RevGrows
<1> QED BY <1>1, <1>2, <1>3 DEF StoreTypeOK, StoreInv, Stored

\* A command of this kind is one that the store may commit.
LEMMA Commits ==
    ASSUME NEW s \in Subject, CommitCommand(s, 0, {}, {})
    PROVE  StoreNext
<1>1. Cardinality({}) = 0
    BY FS_EmptySet
<1>2. \E none \in SUBSET {} : CommitCommand(s, 0, {}, none)
    OBVIOUS
<1>3. \E also \in SUBSET Subject : Cardinality(also) < 2 /\ \E none \in SUBSET also : CommitCommand(s, 0, also, none)
    BY <1>1, <1>2
<1>4. \E more \in 0 .. 1, also \in SUBSET Subject :
          Cardinality(also) < 2 /\ \E none \in SUBSET also : CommitCommand(s, more, also, none)
    BY <1>3
<1> QED BY <1>4 DEF StoreNext

\* A step after which as much is on its way.
Quietly ==
    /\ UNCHANGED followers /\ Lapses /\ asked' = asked /\ subs' = subs
    /\ Coming' = Coming /\ Live' = Live
    /\ queue' = queue /\ owes' \in {owes, 0, Len(log) + 1}

LEMMA QuietStep ==
    ASSUME DeliveryInv, KeepsSome, StoreNext \/ UNCHANGED store, Quietly, Serving'
    PROVE  DeliveryInv'
<1>1. StoreTypeOK' /\ StoreInv' /\ Grows /\ \A s \in Subject : rev[s] <= rev'[s]
    BY Stepped DEF DeliveryInv
<1>2. FollowerTypeOK'
    BY DEF DeliveryInv, FollowerTypeOK, followers, Quietly
<1>3. Queued'
    BY <1>1, QueueStays DEF DeliveryInv, Quietly
<1>4. Delivering'
    BY <1>1, DeliveringStays DEF DeliveryInv, Quietly
<1> QED BY <1>1, <1>2, <1>3, <1>4 DEF DeliveryInv

\* Who has authority keeps it, unless it lapses.
LEMMA LapsesNone ==
    ASSUME UNCHANGED <<auth, lapsed>>
    PROVE  Lapses
BY DEF Lapses

\* Steps that leave the queue and the subscriptions alone.
LEMMA ConsumerSteps ==
    ASSUME DeliveryInv, KeepsSome, Connect \/ EndInput \/ Hangup
    PROVE  DeliveryInv'
<1>1. Serving /\ Typed /\ Vacant /\ Writes /\ Owes
    BY DEF DeliveryInv, Serving
<1>2. Lapses
    BY LapsesNone DEF Connect, EndInput, Hangup
<1>3. CASE Connect
    <2>1. /\ writer = "stopped" /\ ~abandoned /\ ~failed /\ owes = 0 /\ at = "none"
          /\ queue = <<>> /\ subs = <<>> /\ asked = {}
        BY <1>1, <1>3 DEF Connect, Vacant
    <2>2. Quietly
        BY <1>2, <1>3, <2>1 DEF Connect, Quietly, Coming, Live
    <2>3. Serving'
        <3>1. Typed'
            <4>1. negotiated' \in BOOLEAN /\ connects' \in Nat /\ link' \in {"none", "open", "half", "gone"}
                BY <1>1, <1>3 DEF Connect, Typed
            <4>2. at' \in Places /\ writer' \in WriterPlaces
                BY <1>3 DEF Connect, Places, WriterPlaces
            <4>3. hand' = NoFrame /\ writer' \in {"idle", "stopped"}
                BY <1>1, <1>3, <2>1 DEF Connect, Typed
            <4>4. hand' = NoFrame <=> writer' \in {"idle", "stopped"}
                BY <4>3, Zenon
            <4>5. /\ UNCHANGED <<resume, owes, after, plain, room, whole, asked, abandoned, failed>>
                  /\ UNCHANGED <<auth, over, lapsed>>
                BY <1>3 DEF Connect
            <4> QED BY <1>1, <4>1, <4>2, <4>4, <4>5 DEF Typed
        <3>2. Vacant' /\ Writes' /\ Owes'
            BY <1>1, <1>3, <2>1 DEF Connect, Vacant, Writes, Owes
        <3> QED BY <3>1, <3>2 DEF Serving
    <2> QED BY <1>3, <2>2, <2>3, QuietStep DEF Connect
<1>4. CASE EndInput \/ Hangup
    <2>1. Quietly /\ UNCHANGED store
        BY <1>2, <1>4 DEF EndInput, Hangup, Quietly, Coming, Live, session, outbox
    <2>2. Serving'
        <3>1. Typed'
            BY <1>1, <1>4 DEF EndInput, Hangup, Typed, session, outbox
        <3>2. Vacant' /\ Writes'
            BY <1>1, <1>4 DEF EndInput, Hangup, Vacant, Writes, session, outbox, Sane
        <3>3. Owes'
            BY <1>1, <1>4 DEF EndInput, Hangup, Owes, session, outbox, Pending
        <3> QED BY <3>1, <3>2, <3>3 DEF Serving
    <2> QED BY <2>1, <2>2, QuietStep
<1> QED BY <1>3, <1>4

LEMMA StoreSteps ==
    ASSUME DeliveryInv, KeepsSome, Elsewhere \/ Starting \/ \E r \in Reader : Lapse(r)
    PROVE  DeliveryInv'
<1>1. Serving /\ Typed /\ Vacant /\ Writes /\ Owes
    BY DEF DeliveryInv, Serving
<1>2. /\ UNCHANGED <<followers, link, session, outbox, over, connects>>
      /\ StoreNext \/ UNCHANGED store
      /\ auth' \subseteq Reader /\ lapsed' \in [Reader -> Nat] /\ Lapses
    <2>1. CASE Elsewhere
        BY <1>1, <2>1, Commits, LapsesNone DEF Elsewhere, Typed
    <2>2. CASE Starting
        BY <1>1, <2>2, LapsesNone DEF Starting, Typed, StoreNext
    <2>3. CASE \E r \in Reader : Lapse(r)
        <3>1. PICK r \in Reader : Lapse(r)
            BY <2>3
        <3>2. Len(log) \in Nat
            BY DEF DeliveryInv, StoreInv, Stored
        <3>3. lapsed' \in [Reader -> Nat] /\ auth' \subseteq Reader
            BY <1>1, <3>1, <3>2 DEF Lapse, Typed
        <3>4. Lapses
            BY <1>1, <3>1 DEF Lapse, Lapses, Typed
        <3> QED BY <3>1, <3>3, <3>4 DEF Lapse
    <2> QED BY <2>1, <2>2, <2>3
<1>3. Quietly
    BY <1>2 DEF Quietly, Coming, Live, session, outbox
<1>4. Serving'
    <2>1. Typed'
        BY <1>1, <1>2 DEF Typed, session, outbox
    <2>2. Vacant' /\ Writes'
        BY <1>1, <1>2 DEF Vacant, Writes, session, outbox, Sane
    <2>3. Owes'
        BY <1>1, <1>2 DEF Owes, session, outbox, Pending
    <2> QED BY <2>1, <2>2, <2>3 DEF Serving
<1> QED BY <1>2, <1>3, <1>4, QuietStep

\* What a connection leaves behind is dropped.
LEMMA ResetSteps ==
    ASSUME DeliveryInv, KeepsSome, Gone \/ ProcessDies
    PROVE  DeliveryInv'
<1>1. Serving /\ Typed
    BY DEF DeliveryInv, Serving
<1>2. /\ UNCHANGED <<followers, auth, lapsed, over, connects>> /\ Reset
      /\ StoreNext \/ UNCHANGED store
    BY DEF Gone, ProcessDies, StoreNext
<1>3. StoreTypeOK' /\ StoreInv' /\ Grows /\ \A s \in Subject : rev[s] <= rev'[s]
    BY <1>2, Stepped DEF DeliveryInv
<1>4. FollowerTypeOK'
    BY <1>2 DEF DeliveryInv, FollowerTypeOK, followers
<1>5. PICK none : none = <<>>
    OBVIOUS
<1>6. queue' = none /\ subs' = none /\ Coming' = none /\ Live' = none
    BY <1>2, <1>5 DEF Reset, Coming, Live
<1>7. Queued'
    BY <1>5, <1>6, QueueEmpty
<1>8. Distinct(subs)'
    <2>1. none \in Seq(Sub) /\ DOMAIN none = {}
        BY <1>5
    <2> QED BY <1>6, <2>1 DEF Distinct
<1>9. Delivering'
    <2>1. Lapses
        BY <1>2, LapsesNone
    <2>2. \A r \in Reader : Reached(r)
        BY DEF DeliveryInv, Delivering
    <2> QED BY <1>2, <1>3, <1>5, <1>6, <1>8, <2>1, <2>2, DeliveringStops DEF DeliveryInv
<1>10. Serving'
    <2>1. Typed'
        <3>1. hand' = NoFrame <=> writer' \in {"idle", "stopped"}
            <4>1. hand' = NoFrame /\ writer' \in {"idle", "stopped"}
                BY <1>2 DEF Reset
            <4> QED BY <4>1, Zenon
        <3>2. at' \in Places /\ writer' \in WriterPlaces
            BY <1>2 DEF Reset, Places, WriterPlaces
        <3>3. room' \in 0 .. Bound
            BY <1>2, DeliveryAssumption DEF Reset
        <3>4. /\ whole' \in BOOLEAN /\ negotiated' \in BOOLEAN
              /\ abandoned' \in BOOLEAN /\ failed' \in BOOLEAN
            BY <1>2, Zenon DEF Reset
        <3>5. /\ link' \in {"none", "open", "half", "gone"} /\ resume' \in {"push", "measure"}
              /\ owes' \in Nat /\ after' \in {"measure", "read", "close"} /\ plain' \in Nat
              /\ asked' \subseteq Reader
            BY <1>2 DEF Reset
        <3>6. auth' \subseteq Reader /\ over' \subseteq Reader /\ lapsed' \in [Reader -> Nat] /\ connects' \in Nat
            BY <1>1, <1>2 DEF Typed
        <3> QED BY <3>1, <3>2, <3>3, <3>4, <3>5, <3>6 DEF Typed
    <2>2. Vacant' /\ Writes' /\ Owes'
        BY <1>2 DEF Vacant, Writes, Owes, Reset
    <2> QED BY <2>1, <2>2 DEF Serving
<1> QED BY <1>3, <1>4, <1>7, <1>9, <1>10 DEF DeliveryInv

\* Steps of the session after which as much is on its way.
LEMMA SessionSteps ==
    ASSUME DeliveryInv, KeepsSome,
           \/ \E s \in Subject : Command(s)
           \/ Plain \/ Poll \/ RoomMade \/ NoticesEnd \/ Shutdown \/ Eof \/ Close
    PROVE  DeliveryInv'
<1>1. Serving /\ Typed /\ Vacant /\ Writes /\ Owes
    BY DEF DeliveryInv, Serving
<1>2. /\ StoreNext \/ UNCHANGED store
      /\ UNCHANGED <<followers, resume, room, whole, subs, asked, negotiated, outbox,
                     auth, lapsed, over, connects>>
      /\ owes' \in {owes, 0, Len(log) + 1}
    <2>1. CASE \E s \in Subject : Command(s)
        <3>1. PICK s \in Subject : Command(s)
            BY <2>1
        <3>2. StoreNext
            BY <3>1, Commits DEF Command
        <3> QED BY <3>1, <3>2 DEF Command, rest, outbox
    <2>2. CASE Plain \/ Poll \/ RoomMade \/ NoticesEnd \/ Shutdown \/ Eof \/ Close
        BY <2>2 DEF Plain, Poll, RoomMade, NoticesEnd, Shutdown, Eof, Close, rest, outbox
    <2> QED BY <2>1, <2>2
<1>3. Quietly
    <2>1. Lapses
        BY <1>2, LapsesNone
    <2> QED BY <1>2, <2>1 DEF Quietly, Coming, Live, outbox
<1>4. Typed'
    <2>1. owes' \in Nat
        BY <1>1, <1>2 DEF Typed, DeliveryInv, StoreInv, Stored
    <2>2. /\ link' \in {"none", "open", "half", "gone"} /\ at' \in Places
          /\ after' \in {"measure", "read", "close"} /\ plain' \in Nat
        BY <1>1 DEF Command, Plain, Poll, RoomMade, NoticesEnd, Shutdown, Eof, Close, rest, Typed, Places
    <2> QED BY <1>1, <1>2, <2>1, <2>2 DEF Typed, outbox
<1>5. Vacant'
    BY <1>1, <1>2 DEF Command, Plain, Poll, RoomMade, NoticesEnd, Shutdown, Eof, Close, rest, Typed, Vacant, outbox
<1>6. Writes'
    BY <1>1, <1>2 DEF Command, Plain, Poll, RoomMade, NoticesEnd, Shutdown, Eof, Close, rest, Typed, Writes, outbox, Sane
<1>7. Owes'
    BY <1>1, <1>2 DEF Command, Plain, Poll, RoomMade, NoticesEnd, Shutdown, Eof, Close, rest, Typed, Owes, outbox
<1> QED BY <1>2, <1>3, <1>4, <1>5, <1>6, <1>7, QuietStep DEF Serving

\* Everything that waits weighs something.
LEMMA PendingIs ==
    ASSUME Queued
    PROVE  /\ Pending \in Nat /\ Pending = Weight(queue, Kinds)
           /\ Pending = 0 => queue = <<>>
           /\ queue \in Seq(Frame) /\ Weighty(queue) /\ Bounded(queue)
<1>1. Weighty(queue) /\ queue \in Seq(Frame)
    BY FramesWeigh DEF Queued, Known
<1>2. Pending = Weight(queue, Kinds) /\ Bounded(queue)
    BY BoundedIs DEF Queued
<1>3. \A k \in 1 .. Len(queue) : queue[k].kind \in Kinds
    <2> SUFFICES ASSUME NEW k \in 1 .. Len(queue) PROVE queue[k].kind \in Kinds
        OBVIOUS
    <2>1. queue[k] \in Frame
        BY <1>1
    <2> QED BY <2>1 DEF Frame
<1>4. Weight(queue, Kinds) \in Nat
      /\ (Weight(queue, Kinds) = 0 => \A k \in 1 .. Len(queue) : FALSE)
    BY <1>1, <1>3, WeightNat
<1>5. (\A k \in 1 .. Len(queue) : FALSE) => queue = <<>>
    BY <1>1
<1> QED BY <1>1, <1>2, <1>4, <1>5

\* The room for the next drain.
LEMMA MeasureStep ==
    ASSUME DeliveryInv, KeepsSome, Measure
    PROVE  DeliveryInv'
<1>1. Serving /\ Typed /\ Vacant /\ Writes /\ Owes
    BY DEF DeliveryInv, Serving
<1>3. Pending \in Nat /\ (Pending = 0 => queue = <<>>)
    BY PendingIs DEF DeliveryInv
<1>4. PICK free : free = Bound - Pending
    OBVIOUS
<1>5. Bound \in Nat /\ free \in Int
    BY <1>3, <1>4, DeliveryAssumption
<1>6. room' = IF free >= 0 THEN free ELSE 0
    BY <1>4, <1>5, MaxPair DEF Measure
<1>7. room' \in 0 .. Bound /\ (room' = 0 \/ Pending + room' <= Bound)
    BY <1>3, <1>4, <1>5, <1>6
<1>8. whole' \in BOOLEAN /\ (whole' => queue = <<>>)
    BY <1>3 DEF Measure
<1>9. Quietly /\ UNCHANGED store
    BY LapsesNone DEF Measure, Quietly, Coming, Live
<1>10. Typed'
    BY <1>1, <1>7, <1>8 DEF Measure, Typed, Places
<1>11. Vacant'
    BY <1>1 DEF Measure, Vacant
<1>12. Writes'
    BY <1>1 DEF Measure, Writes, Sane
<1>13. Owes'
    <2>1. owes' = 0 /\ at' = "drain" /\ queue' = queue
        BY <1>1 DEF Measure, Owes
    <2>2. Pending' = Pending
        BY <2>1 DEF Pending
    <2> QED BY <1>7, <1>8, <2>1, <2>2 DEF Owes
<1> QED BY <1>9, <1>10, <1>11, <1>12, <1>13, QuietStep DEF Serving

\* The writer takes the front frame, or takes it out, or cannot write.
LEMMA WriterSteps ==
    ASSUME DeliveryInv, KeepsSome, Pick \/ Popped \/ WriteFails
    PROVE  DeliveryInv'
<1>1. Serving /\ Typed /\ Vacant /\ Writes /\ Owes
    BY DEF DeliveryInv, Serving
<1>2. CASE Pick
    <2>1. Sane(hand)' /\ queue # <<>> /\ ~abandoned /\ hand' = Head(queue) /\ writer' = "writing"
        <3>1. queue \in Seq(Frame) /\ queue # <<>> /\ hand' = Head(queue)
            BY <1>2 DEF Pick, DeliveryInv, Queued, Known
        <3>2. 1 \in DOMAIN queue /\ hand' = queue[1]
            BY <3>1
        <3>3. Sane(queue[1])
            BY <3>2 DEF DeliveryInv, Queued, Known
        <3> QED BY <1>2, <3>2, <3>3 DEF Pick, Sane
    <2>2. Quietly /\ UNCHANGED store
        BY <1>2, LapsesNone DEF Pick, Quietly, Coming, Live, session
    <2>3. hand' # NoFrame
        BY <2>1 DEF Sane, Frame, Kinds, NoFrame
    <2>4. Typed'
        <3>1. writer' \in WriterPlaces
            BY <1>2 DEF Pick, WriterPlaces
        <3>2. hand' = NoFrame <=> writer' \in {"idle", "stopped"}
            BY <2>1, <2>3
        <3>3. UNCHANGED <<link, session, abandoned, failed, auth, lapsed, over, connects>>
            BY <1>2 DEF Pick
        <3> QED BY <1>1, <3>1, <3>2, <3>3 DEF Typed, session
    <2>5. Vacant'
        BY <1>1, <1>2 DEF Pick, Vacant, session
    <2>6. Writes'
        BY <1>1, <1>2, <2>1 DEF Pick, Writes, session
    <2>7. Owes'
        BY <1>1, <1>2 DEF Pick, Owes, session, Pending
    <2> QED BY <2>2, <2>4, <2>5, <2>6, <2>7, QuietStep DEF Serving
<1>3. CASE Popped
    <2>1. Lapses
        BY <1>3, LapsesNone DEF Popped
    <2>2. /\ UNCHANGED <<log, rows, vouched, discarded, rev, owes, asked, subs, at, resume, room, whole>>
          /\ UNCHANGED store /\ UNCHANGED followers
        BY <1>3 DEF Popped, session, store
    <2>3. StoreTypeOK' /\ StoreInv' /\ Grows /\ \A s \in Subject : rev[s] <= rev'[s]
        BY <2>2, Stepped DEF DeliveryInv
    <2>4. FollowerTypeOK'
        BY <2>2 DEF DeliveryInv, FollowerTypeOK, followers
    <2>5. \/ abandoned /\ writer' = "stopped" /\ queue' = queue
          \/ ~abandoned /\ writer' = "idle" /\ queue # <<>> /\ queue' = Tail(queue)
        BY <1>1, <1>3 DEF Popped, Writes
    <2>6. Queued'
        BY <2>2, <2>3, <2>5, QueueStays, QueueShrinks DEF DeliveryInv
    <2>7. Coming' = Coming /\ Live' = Live
        <3>1. abandoned' = abandoned /\ writer = "wrote"
            BY <1>3 DEF Popped
        <3>2. abandoned => subs = <<>>
            BY <1>1 DEF Writes
        <3> QED BY <2>2, <2>5, <3>1, <3>2 DEF Coming, Live
    <2>8. Delivering'
        BY <2>1, <2>2, <2>3, <2>7, DeliveringStays DEF DeliveryInv
    <2>9. Typed'
        <3>1. writer' \in WriterPlaces
            BY <2>5 DEF WriterPlaces
        <3>2. hand' = NoFrame <=> writer' \in {"idle", "stopped"}
            BY <1>3, <2>5 DEF Popped
        <3>3. UNCHANGED <<link, session, abandoned, failed, auth, lapsed, over, connects>>
            BY <1>3 DEF Popped
        <3> QED BY <1>1, <3>1, <3>2, <3>3 DEF Typed, session
    <2>10. Vacant' /\ Writes'
        BY <1>1, <1>3, <2>5 DEF Popped, Vacant, Writes, session
    <2>11. Owes'
        <3>1. CASE abandoned
            BY <1>1, <2>2, <2>5, <3>1 DEF Owes, Writes
        <3>2. CASE ~abandoned
            <4>1. PICK tail : tail = Tail(queue)
                OBVIOUS
            <4>2. queue \in Seq(Frame) /\ Bounded(queue) /\ Weighty(queue)
                BY BoundedIs, FramesWeigh DEF DeliveryInv, Queued, Known
            <4>3. Weight(tail, Kinds) <= Weight(queue, Kinds) /\ tail \in Seq(Frame)
                BY <2>5, <3>2, <4>1, <4>2, BoundedTail
            <4>4. Weight(tail, Kinds) \in Nat /\ Weight(queue, Kinds) \in Nat
                BY <4>2, <4>3, FramesWeigh, WeightNat
            <4>5. Pending = Weight(queue, Kinds) /\ Pending' = Weight(tail, Kinds)
                BY <2>5, <3>2, <4>1 DEF Pending, Kinds
            <4>6. room \in Nat /\ Bound \in Nat
                BY <1>1, DeliveryAssumption DEF Typed
            <4>7. room = 0 \/ Pending + room <= Bound => room = 0 \/ Pending' + room <= Bound
                BY <4>3, <4>4, <4>5, <4>6
            <4> QED BY <1>1, <2>2, <2>5, <3>2, <4>7 DEF Owes
        <3> QED BY <3>1, <3>2
    <2> QED BY <2>3, <2>4, <2>6, <2>8, <2>9, <2>10, <2>11 DEF DeliveryInv, Serving
<1>4. CASE WriteFails
    <2>1. Lapses
        BY <1>4, LapsesNone DEF WriteFails
    <2>2. /\ UNCHANGED store /\ UNCHANGED followers
          /\ UNCHANGED <<asked, subs, queue, owes, link, session, abandoned, auth, lapsed, over, connects>>
          /\ writer = "writing" /\ writer' = "stopped" /\ hand' = NoFrame
        BY <1>4 DEF WriteFails, session
    <2>3. StoreTypeOK' /\ StoreInv' /\ Grows /\ \A s \in Subject : rev[s] <= rev'[s]
        BY <2>2, Stepped DEF DeliveryInv
    <2>4. FollowerTypeOK'
        BY <2>2 DEF DeliveryInv, FollowerTypeOK, followers
    <2>5. Queued'
        BY <2>2, <2>3, QueueStays DEF DeliveryInv
    <2>6. Delivering'
        <3>1. PICK none : none = <<>>
            OBVIOUS
        <3>2. Coming' = none /\ Live' = none
            BY <2>2, <3>1 DEF Coming, Live
        <3>3. Distinct(subs)'
            BY <2>2, <2>3, PlacesStay DEF DeliveryInv, Delivering, Distinct
        <3>4. \A r \in Reader : Reached(r)
            BY DEF DeliveryInv, Delivering
        <3> QED BY <2>1, <2>2, <2>3, <3>1, <3>2, <3>3, <3>4, DeliveringStops DEF DeliveryInv
    <2>7. Typed'
        <3>1. writer' \in WriterPlaces
            BY <2>2 DEF WriterPlaces
        <3>2. hand' = NoFrame <=> writer' \in {"idle", "stopped"}
            BY <2>2
        <3>3. failed' \in BOOLEAN
            BY <1>4 DEF WriteFails
        <3> QED BY <1>1, <2>2, <3>1, <3>2, <3>3 DEF Typed, session
    <2>8. Vacant'
        BY <1>1, <2>2 DEF Vacant, session
    <2>9. Writes'
        <3>1. failed' \/ abandoned'
            <4>1. failed' = (failed \/ ~abandoned) /\ abandoned' = abandoned
                BY <1>4 DEF WriteFails
            <4> QED BY <4>1, Zenon
        <3>2. writer' = "stopped" /\ UNCHANGED <<abandoned, queue, at, subs>>
            BY <2>2 DEF session
        <3> QED BY <1>1, <3>1, <3>2 DEF Writes
    <2>10. Owes'
        BY <1>1, <2>2 DEF Owes, session, Pending
    <2> QED BY <2>3, <2>4, <2>5, <2>6, <2>7, <2>8, <2>9, <2>10 DEF DeliveryInv, Serving
<1> QED BY <1>2, <1>3, <1>4

\* The consumer receives the frame in the writer's hand.
LEMMA WrittenStep ==
    ASSUME DeliveryInv, KeepsSome, Written
    PROVE  DeliveryInv'
<1>1. Serving /\ Typed /\ Vacant /\ Writes /\ Owes
    BY DEF DeliveryInv, Serving
<1>2. /\ UNCHANGED store /\ UNCHANGED <<log, rows, vouched, discarded, rev>>
      /\ UNCHANGED <<since, asked, subs, queue, owes, link, session, abandoned, failed, hand, auth, lapsed, connects>>
      /\ writer = "writing" /\ writer' = "wrote"
    BY DEF Written, session, store
<1>3. StoreTypeOK' /\ StoreInv' /\ Grows /\ \A s \in Subject : rev[s] <= rev'[s]
    BY <1>2, Stepped DEF DeliveryInv
<1>4. Queued'
    BY <1>2, <1>3, QueueStays DEF DeliveryInv
<1>5. Sane(hand) /\ hand \in Frame /\ hand.kind \in Kinds
    BY <1>1, <1>2 DEF Writes, Sane, Frame
\* What is on its way begins with what is in the writer's hand.
<1>6. PICK q \in Seq(Frame) : q = Coming
    <2>1. <<hand>> \in Seq(Frame) /\ queue \in Seq(Frame)
        BY <1>5 DEF DeliveryInv, Queued, Known
    <2> QED BY <1>2, <2>1 DEF Coming
<1>7. q # <<>> /\ q[1] = hand
    <2>1. CASE abandoned
        <3>1. q = <<hand>>
            BY <1>2, <1>6, <2>1 DEF Coming
        <3> QED BY <3>1
    <2>2. CASE ~abandoned
        <3>1. q = queue /\ queue # <<>> /\ hand = Head(queue)
            BY <1>1, <1>2, <1>6, <2>2 DEF Coming, Writes
        <3> QED BY <3>1
    <2> QED BY <2>1, <2>2
<1>8. PICK tail : tail = Tail(q)
    OBVIOUS
<1>9. Coming' = tail
    <2>1. CASE abandoned
        <3>1. q = <<hand>> /\ Coming' = <<>>
            BY <1>2, <1>6, <2>1 DEF Coming
        <3> QED BY <1>8, <3>1
    <2>2. CASE ~abandoned
        BY <1>2, <1>6, <1>8, <2>2 DEF Coming
    <2> QED BY <2>1, <2>2
<1>10. Live = subs /\ Live' = subs
    BY <1>2 DEF Live
<1>11. PICK none : none = {}
    OBVIOUS
<1>12. OnItsWay(q, subs, none)
    BY <1>6, <1>10, <1>11 DEF DeliveryInv, Delivering
<1>13. Fits(q, 1)
    <2>1. 1 \in DOMAIN q
        BY <1>6, <1>7
    <2> QED BY <1>12, <2>1 DEF OnItsWay
<1>14. DOMAIN subs \in SUBSET Nat /\ \A s \in DOMAIN subs : subs[s] \in Sub
    BY DEF DeliveryInv, Delivering, Distinct
<1>15. FollowerTypeOK /\ StoreInv /\ \A o \in Reader : Reached(o)
    BY DEF DeliveryInv, Delivering
\* What the consumer has then.
<1>16. /\ FollowerTypeOK' /\ over' \subseteq Reader /\ \A o \in Reader : Reached(o)'
       /\ \A r \in Reader : cursor'[r] = IF q[1].reader = {r} THEN q[1].at ELSE cursor[r]
       /\ \A r \in Reader : \A i \in DOMAIN log :
               \/ Accounted(r, i)
               \/ q[1].reader = {r} /\ \E m \in DOMAIN q[1].items : Tells(q[1].items[m], i)
               => Accounted(r, i)'
    <2>1. CASE hand.kind = "response"
        <3>1. UNCHANGED followers /\ over' = over /\ UNCHANGED <<cursor, told, known, lost>>
            BY <1>2, <2>1 DEF Written, followers
        <3>2. hand.reader = {}
            BY <1>5, <2>1 DEF Sane
        <3>3. FollowerTypeOK' /\ over' \subseteq Reader
            BY <1>1, <1>15, <3>1 DEF FollowerTypeOK, followers, Typed
        <3>4. ASSUME NEW o \in Reader PROVE Reached(o)'
            <4>1. Lapses /\ Reached(o) /\ since'[o] = since[o]
                BY <1>2, <1>15, LapsesNone
            <4> QED BY <1>3, <1>15, <3>1, <4>1, ReachedStays
        <3>5. ASSUME NEW r \in Reader, NEW i \in DOMAIN log, Accounted(r, i) PROVE Accounted(r, i)'
            BY <1>2, <3>1, <3>5 DEF Accounted
        <3>6. \A r \in Reader : hand.reader # {r}
            BY <3>2
        <3> QED BY <1>7, <3>1, <3>3, <3>4, <3>5, <3>6
    <2>2. CASE hand.kind # "response"
        <3>1. PICK r \in Reader : hand.reader = {r}
            BY <1>5, <2>2 DEF Sane
        <3>2. Learn(r, q[1].items, q[1].at) /\ over' \subseteq Reader
            <4>1. PICK o \in hand.reader : /\ Learn(o, hand.items, hand.at)
                                           /\ over' = IF hand.again THEN over ELSE over \cup {o}
                BY <2>2 DEF Written
            <4>2. o = r
                BY <3>1, <4>1
            <4> QED BY <1>1, <1>7, <4>1, <4>2 DEF Typed
        <3>3. q[1].reader = {r}
            BY <1>7, <3>1
        <3>4. /\ FollowerTypeOK' /\ \A o \in Reader : Reached(o)'
              /\ cursor'[r] = q[1].at /\ \A o \in Reader \ {r} : cursor'[o] = cursor[o]
              /\ \A o \in Reader : \A i \in DOMAIN log :
                     \/ Accounted(o, i)
                     \/ q[1].reader = {o} /\ \E m \in DOMAIN q[1].items : Tells(q[1].items[m], i)
                     => Accounted(o, i)'
            BY <1>2, <1>6, <1>7, <1>13, <1>15, <3>2, <3>3, Received
        <3>5. \A o \in Reader : q[1].reader = {o} <=> o = r
            BY <3>3
        <3> QED BY <3>2, <3>4, <3>5
    <2> QED BY <2>1, <2>2
<1>17. OnItsWay(tail, subs, none)'
    <2>1. PICK entries : entries = subs
        OBVIOUS
    <2>2. OnItsWay(tail, entries, none)'
        BY <1>2, <1>6, <1>7, <1>8, <1>12, <1>14, <1>15, <1>16, <2>1, WayTail
    <2> QED BY <1>2, <2>1, <2>2 DEF OnItsWay
<1>18. Delivering'
    <2>1. ASSUME NEW qq, NEW entries, qq = Coming', entries = Live' PROVE OnItsWay(qq, entries, {})'
        <3>1. qq = tail /\ entries = subs /\ subs' = subs
            BY <1>2, <1>9, <1>10, <2>1
        <3> QED BY <1>11, <1>17, <3>1 DEF OnItsWay
    <2>2. Distinct(subs)'
        BY <1>2, <1>3, PlacesStay DEF DeliveryInv, Delivering, Distinct
    <2> QED BY <1>16, <2>1, <2>2 DEF Delivering
<1>19. Typed'
    <2>1. writer' \in WriterPlaces
        BY <1>2 DEF WriterPlaces
    <2>2. hand' = NoFrame <=> writer' \in {"idle", "stopped"}
        BY <1>1, <1>2 DEF Typed
    <2> QED BY <1>1, <1>2, <1>16, <2>1, <2>2 DEF Typed, session
<1>20. Vacant' /\ Writes'
    BY <1>1, <1>2 DEF Vacant, Writes, session, Sane
<1>21. Owes'
    BY <1>1, <1>2 DEF Owes, session, Pending
<1> QED BY <1>3, <1>4, <1>16, <1>18, <1>19, <1>20, <1>21 DEF DeliveryInv, Serving

\* What a push leaves, while the session still writes.
LEMMA PushIs ==
    ASSUME DeliveryInv, at \notin {"none", "shutdown", "over"}, NEW f \in Seq(Frame), Push(f),
           UNCHANGED <<abandoned, failed, writer, hand>>
    PROVE  \/ failed /\ queue' = queue /\ writer = "stopped"
           \/ /\ ~failed /\ writer # "stopped" /\ queue' = queue \o f
              /\ Coming \in Seq(Frame) /\ Coming' = Coming \o f
<1>1. Typed /\ Writes /\ queue \in Seq(Frame)
    BY DEF DeliveryInv, Serving, Queued, Known
<1>2. ~abandoned
    BY <1>1 DEF Writes
<1>3. CASE failed
    BY <1>1, <1>2, <1>3 DEF Writes, Push
<1>4. CASE ~failed
    <2>1. writer # "stopped" /\ queue' = queue \o f
        BY <1>1, <1>2, <1>4 DEF Writes, Push
    <2>2. CASE writer = "wrote"
        <3>1. queue # <<>>
            BY <1>1, <1>2, <2>2 DEF Writes
        <3>2. Coming = Tail(queue) /\ Coming' = Tail(queue \o f)
            BY <1>2, <2>1, <2>2 DEF Coming
        <3>3. Tail(queue) \in Seq(Frame) /\ Tail(queue \o f) = Tail(queue) \o f
            BY <1>1, <3>1
        <3> QED BY <1>4, <2>1, <3>2, <3>3
    <2>3. CASE writer # "wrote"
        <3>1. Coming = queue /\ Coming' = queue \o f
            BY <1>2, <2>1, <2>3 DEF Coming
        <3> QED BY <1>1, <1>4, <2>1, <3>1
    <2> QED BY <2>2, <2>3
<1> QED BY <1>3, <1>4

\* A step of the session that pushes frames.
LEMMA PushStep ==
    ASSUME DeliveryInv, KeepsSome, at \notin {"none", "shutdown", "over"},
           UNCHANGED <<store, followers, asked, auth, lapsed, abandoned, failed, writer, hand>>,
           NEW f, Known(f), Answers(f), Push(f),
           NEW all, all = queue \o f, Bounded(all),
           NEW out, subs' = out, Distinct(out),
           \A q \in Seq(Frame) : OnItsWay(q, subs, {}) => OnItsWay(q \o f, out, {})
    PROVE  StoreTypeOK' /\ StoreInv' /\ FollowerTypeOK' /\ Queued' /\ Delivering'
<1>1. UNCHANGED <<log, rows, vouched, discarded, rev>>
    BY DEF store
<1>2. StoreTypeOK' /\ StoreInv' /\ Grows /\ \A s \in Subject : rev[s] <= rev'[s]
    BY Stepped DEF DeliveryInv
<1>3. FollowerTypeOK'
    BY DEF DeliveryInv, FollowerTypeOK, followers
<1>4. f \in Seq(Frame) /\ queue \in Seq(Frame)
    BY DEF Known, DeliveryInv, Queued
<1>5. Distinct(subs)'
    <2>1. Distinct(out)'
        BY <1>2, PlacesStay DEF DeliveryInv, Distinct
    <2> QED BY <2>1 DEF Distinct
<1>6. \A r \in Reader : Reached(r)
    BY DEF DeliveryInv, Delivering
<1>7. Lapses
    BY LapsesNone
<1>8. CASE failed /\ queue' = queue /\ writer = "stopped"
    <2>1. owes' \in {owes, 0, Len(log) + 1}
        BY DEF Answers
    <2>2. Queued'
        BY <1>2, <1>8, <2>1, QueueStays DEF DeliveryInv
    <2>3. PICK none : none = <<>>
        OBVIOUS
    <2>4. Coming' = none /\ Live' = none
        BY <1>8, <2>3 DEF Coming, Live
    <2>5. Delivering'
        BY <1>2, <1>5, <1>6, <1>7, <2>3, <2>4, DeliveringStops DEF DeliveryInv
    <2> QED BY <1>2, <1>3, <2>2, <2>5
<1>9. CASE /\ ~failed /\ writer # "stopped" /\ queue' = queue \o f
           /\ Coming \in Seq(Frame) /\ Coming' = Coming \o f
    <2>1. Joined(all, queue, f) /\ all \in Seq(Frame)
        BY <1>4, JoinIs
    <2>2. Queued'
        BY <1>1, <1>9, <2>1, QueueGrows DEF DeliveryInv
    <2>3. Live = subs /\ Live' = out
        BY <1>9 DEF Live
    <2>4. OnItsWay(Coming, subs, {})
        BY <2>3 DEF DeliveryInv, Delivering
    <2>5. PICK qq : qq = Coming \o f
        OBVIOUS
    <2>6. OnItsWay(qq, out, {})
        BY <1>9, <2>4, <2>5
    <2>7. PICK none : none = {}
        OBVIOUS
    <2>8. out \in Seq(Sub) /\ OnItsWay(qq, out, none)
        BY <2>6, <2>7 DEF Distinct
    <2>9. OnItsWay(qq, out, none)'
        BY <1>2, <1>7, <2>8, WayStays DEF DeliveryInv
    <2>10. ASSUME NEW q, NEW entries, q = Coming', entries = Live' PROVE OnItsWay(q, entries, {})'
        BY <1>9, <2>3, <2>5, <2>7, <2>9, <2>10
    <2>11. ASSUME NEW r \in Reader PROVE Reached(r)'
        <3>1. UNCHANGED <<cursor, told, known, lost>> /\ since'[r] = since[r]
            BY DEF followers
        <3> QED BY <1>2, <1>6, <1>7, <3>1, ReachedStays DEF DeliveryInv
    <2>12. Delivering'
        BY <1>5, <2>10, <2>11 DEF Delivering
    <2> QED BY <1>2, <1>3, <2>2, <2>12
<1> QED BY <1>4, <1>8, <1>9, PushIs

\* The frame in the writer's hand stays the front one.
LEMMA HandKeeps ==
    ASSUME Writes, ~abandoned, queue \in Seq(Frame), NEW f \in Seq(Frame), Push(f),
           UNCHANGED <<writer, hand>>
    PROVE  writer' \in {"writing", "wrote"} => queue' # <<>> /\ hand' = Head(queue')
<1>1. CASE writer \in {"writing", "wrote"}
    <2>1. queue # <<>> /\ hand = Head(queue) /\ ~failed /\ queue' = queue \o f
        BY <1>1 DEF Writes, Push
    <2>2. queue \o f # <<>> /\ Head(queue \o f) = Head(queue)
        BY <2>1
    <2> QED BY <2>1, <2>2
<1> QED BY <1>1

\* The response to a frame is queued.
LEMMA AnsweredStep ==
    ASSUME DeliveryInv, KeepsSome, at \in {"respond", "push"}, Answered,
           Pending = 0 \/ Pending + 1 <= Bound,
           UNCHANGED <<store, followers, subs, asked, link, plain, room, whole, negotiated,
                       abandoned, failed, writer, hand, auth, lapsed, over, connects>>
    PROVE  DeliveryInv'
<1>1. Serving /\ Typed /\ Vacant /\ Writes /\ Owes
    BY DEF DeliveryInv, Serving
<1>2. PICK x : x = Response(owes)
    OBVIOUS
<1>3. /\ x \in Frame /\ x.kind = "response" /\ x.reader = {} /\ x.cause = owes
      /\ x.items = <<>> /\ x.size = 1
    <2>0. <<>> \in Seq(Item)
        OBVIOUS
    <2>1. PICK none : none = <<>>
        OBVIOUS
    <2>2. x = [kind |-> "response", reader |-> {}, cause |-> owes, items |-> none,
               at |-> Nothing, again |-> TRUE, size |-> 1]
        BY <1>2, <2>1 DEF Response
    <2>3. Nothing \in Position /\ owes \in Nat
        BY <1>1 DEF Nothing, Position, Typed
    <2>4. x \in Frame
        BY <2>0, <2>1, <2>2, <2>3 DEF Frame, Kinds
    <2> QED BY <2>1, <2>2, <2>4
<1>4. Sane(x)
    BY <1>3 DEF Sane
<1>5. PICK f : f = <<x>>
    OBVIOUS
<1>6. f \in Seq(Frame) /\ Len(f) = 1 /\ DOMAIN f = 1 .. 1 /\ f[1] = x
    BY <1>3, <1>5
<1>7. \A k \in DOMAIN f : f[k] = x
    BY <1>6
<1>8. Known(f)
    <2>1. \A m \in DOMAIN x.items : FALSE
        BY <1>3
    <2> QED BY <1>4, <1>6, <1>7, <2>1 DEF Known
<1>9. Answers(f)
    BY <1>3, <1>7 DEF Answers, Answered
<1>10. Push(f)
    BY <1>2, <1>5 DEF Answered
<1>11. ASSUME NEW q \in Seq(Frame) PROVE q \o f = Append(q, x)
    BY <1>3, <1>5
<1>12. queue \in Seq(Frame) /\ Pending = Weight(queue, Kinds) /\ (Pending = 0 => queue = <<>>)
    BY PendingIs DEF DeliveryInv
<1>13. PICK all : all = queue \o f
    OBVIOUS
<1>14. Bounded(all)
    <2>1. all = Append(queue, x)
        BY <1>11, <1>12, <1>13
    <2>2. Longer(all, queue, x)
        BY <1>3, <1>5, <1>12, <2>1, AppendIs
    <2>3. queue = <<>> \/ Weight(queue, Kinds) + 1 <= Bound
        BY <1>12
    <2> QED BY <1>3, <2>2, <2>3, BoundedResponse
<1>15. PICK out : out = subs
    OBVIOUS
<1>16. subs' = out /\ Distinct(out)
    BY <1>15 DEF DeliveryInv, Delivering
<1>17. ASSUME NEW q \in Seq(Frame), OnItsWay(q, subs, {}) PROVE OnItsWay(q \o f, out, {})
    <2>1. PICK none : none = {}
        OBVIOUS
    <2>2. PICK qq : qq = q \o f
        OBVIOUS
    <2>3. qq = Append(q, x)
        BY <1>11, <2>2
    <2>4. Longer(qq, q, x)
        BY <1>3, <1>5, <2>3, AppendIs
    <2>5. qq[Len(q) + 1] = x
        BY <2>4 DEF Longer
    <2>6. Fits(qq, Len(q) + 1)
        <3>1. \A r \in Reader : x.reader # {r}
            BY <1>3
        <3> QED BY <1>4, <2>5, <3>1 DEF Fits
    <2>7. GoesOn(out, none, out, none, qq, Len(q), x)
        <3>1. out \in Seq(Sub)
            BY <1>16 DEF Distinct
        <3>2. \A s \in DOMAIN out : x.reader # {out[s].reader}
            BY <1>3
        <3> QED BY <3>1, <3>2 DEF GoesOn
    <2>8. OnItsWay(q, out, none)
        BY <1>15, <1>17, <2>1
    <2>9. OnItsWay(qq, out, none)
        BY <2>4, <2>6, <2>7, <2>8, WayAppend
    <2> QED BY <2>1, <2>2, <2>9
<1>18. StoreTypeOK' /\ StoreInv' /\ FollowerTypeOK' /\ Queued' /\ Delivering'
    BY <1>8, <1>9, <1>10, <1>13, <1>14, <1>16, <1>17, PushStep
<1>19. Typed'
    <2>1. at' \in Places /\ owes' \in Nat /\ after' \in {"measure", "read", "close"} /\ resume' = resume
        BY <1>1 DEF Answered, Typed, Places
    <2> QED BY <1>1, <2>1 DEF Typed
<1>20. Vacant'
    BY <1>1 DEF Vacant, Answered, Typed
<1>21. ~abandoned /\ (failed => writer = "stopped")
    BY <1>1 DEF Writes
<1>22. Writes'
    <2>1. writer' \in {"writing", "wrote"} => queue' # <<>> /\ hand' = Head(queue')
        BY <1>1, <1>6, <1>10, <1>12, <1>21, HandKeeps
    <2>2. at' \notin {"none", "notices", "abandon", "shutdown", "over"}
        BY <1>1 DEF Answered, Typed
    <2> QED BY <1>1, <1>21, <2>1, <2>2 DEF Writes, Sane
<1>23. Owes'
    BY <1>1 DEF Owes, Answered, Typed
<1> QED BY <1>18, <1>19, <1>20, <1>22, <1>23 DEF DeliveryInv, Serving

\* The session answers, or waits for room.
LEMMA RespondSteps ==
    ASSUME DeliveryInv, KeepsSome, Respond \/ RespondAfterRoom
    PROVE  DeliveryInv'
<1>1. Serving /\ Typed /\ Vacant /\ Writes /\ Owes
    BY DEF DeliveryInv, Serving
<1>2. UNCHANGED <<store, followers, subs, asked, link, plain, room, whole, negotiated,
                  abandoned, failed, writer, hand, auth, lapsed, over, connects>>
    BY DEF Respond, RespondAfterRoom
<1>3. CASE RespondAfterRoom
    <2>1. queue = <<>> /\ at = "push" /\ Answered
        BY <1>1, <1>3 DEF RespondAfterRoom, Owes
    <2>2. Pending = 0
        <3>1. queue \in Seq(Frame) /\ Weighty(queue) /\ Pending = Weight(queue, Kinds)
            BY PendingIs DEF DeliveryInv
        <3>2. \A k \in 1 .. Len(queue) : FALSE
            BY <2>1
        <3> QED BY <3>1, <3>2, WeightNat
    <2> QED BY <1>2, <2>1, <2>2, AnsweredStep
<1>4. CASE Respond /\ at' = "room" /\ resume' = "push" /\ UNCHANGED <<queue, owes, after>>
    <2>1. Quietly /\ UNCHANGED store
        BY <1>2, <1>4, LapsesNone DEF Quietly, Coming, Live
    <2>2. at = "respond"
        BY <1>4 DEF Respond
    <2>3. Typed'
        BY <1>1, <1>2, <1>4 DEF Typed, Places
    <2>4. Vacant' /\ Writes'
        BY <1>1, <1>2, <1>4, <2>2 DEF Vacant, Writes, Sane
    <2>5. Owes'
        BY <1>1, <1>2, <1>4 DEF Owes
    <2> QED BY <2>1, <2>3, <2>4, <2>5, QuietStep DEF Serving
<1>5. CASE Respond /\ (Pending = 0 \/ Pending + 1 <= Bound) /\ Answered
    <2>1. at = "respond"
        BY <1>5 DEF Respond
    <2> QED BY <1>2, <1>5, <2>1, AnsweredStep
<1> QED BY <1>3, <1>4, <1>5 DEF Respond

\* A drain's turns, queued.
LEMMA DrainStep ==
    ASSUME DeliveryInv, KeepsSome, Drain
    PROVE  DeliveryInv'
<1>1. Serving /\ Typed /\ Vacant /\ Writes /\ Owes
    BY DEF DeliveryInv, Serving
<1>2. PICK d : d = Drained
    OBVIOUS
<1>3. PICK f : f = d.frames
    OBVIOUS
<1>4. PICK out : out = Without(d.subs, d.ended)
    OBVIOUS
<1>5. /\ at = "drain" /\ Push(f) /\ subs' = out
      /\ \/ at' = "room" /\ resume' = "measure"
         \/ at' = "read" /\ resume' = resume
      /\ UNCHANGED <<store, followers, owes, asked, link, after, plain, room, whole, negotiated,
                     abandoned, failed, writer, hand, auth, lapsed, over, connects>>
    BY <1>2, <1>3, <1>4 DEF Drain, rest
<1>6. /\ owes = 0 /\ (room = 0 \/ Pending + room <= Bound) /\ (whole => queue = <<>>)
      /\ room \in 0 .. Bound
    BY <1>1, <1>5 DEF Owes, Typed
<1>7. /\ StoreInv /\ cursor \in [Reader -> Position] /\ Distinct(subs)
    BY DEF DeliveryInv, FollowerTypeOK, Delivering
<1>8. /\ queue \in Seq(Frame) /\ Pending = Weight(queue, Kinds) /\ Bounded(queue)
    BY PendingIs DEF DeliveryInv
<1>9. Drains(d)
    BY <1>2, <1>6, <1>7, <1>8, DrainIsWhole
<1>10. Known(f) /\ f \in Seq(Frame) /\ \A k \in DOMAIN f : f[k].kind # "response"
    BY <1>3, <1>9 DEF Drains, Known
<1>11. Answers(f)
    BY <1>5, <1>6, <1>10 DEF Answers
<1>12. PICK all : all = queue \o f
    OBVIOUS
<1>13. Bounded(all)
    <2>1. Joined(all, queue, d.frames) /\ all \in Seq(Frame)
        BY <1>3, <1>8, <1>10, <1>12, JoinIs
    <2>2. room = 0 \/ Weight(queue, Kinds) + room <= Bound
        BY <1>6, <1>8
    <2> QED BY <1>6, <1>8, <1>9, <2>1, <2>2, BoundedDrain
<1>14. ASSUME NEW q \in Seq(Frame), OnItsWay(q, subs, {}) PROVE OnItsWay(q \o f, out, {})
    <2>1. OnItsWay(q \o d.frames, d.subs, d.ended)
        BY <1>2, <1>6, <1>7, <1>14, DrainIsWhole
    <2>2. PICK qq : qq = q \o d.frames
        OBVIOUS
    <2>3. Distinct(d.subs)
        BY <1>9 DEF Drains
    <2>4. PICK entries : entries = d.subs
        OBVIOUS
    <2>5. PICK gone : gone = d.ended
        OBVIOUS
    <2>6. OnItsWay(qq, entries, gone) /\ Distinct(entries) /\ out = Without(entries, gone)
        BY <1>4, <2>1, <2>2, <2>3, <2>4, <2>5
    <2>7. OnItsWay(qq, out, {})
        BY <2>6, WayLeaves
    <2> QED BY <1>3, <2>2, <2>7
<1>15. Distinct(out)
    <2>1. PICK entries : entries = d.subs
        OBVIOUS
    <2>2. PICK gone : gone = d.ended
        OBVIOUS
    <2>3. Distinct(entries) /\ out = Without(entries, gone)
        BY <1>4, <1>9, <2>1, <2>2 DEF Drains
    <2> QED BY <2>3, DistinctLeft
<1>16. StoreTypeOK' /\ StoreInv' /\ FollowerTypeOK' /\ Queued' /\ Delivering'
    BY <1>5, <1>10, <1>11, <1>12, <1>13, <1>14, <1>15, PushStep
<1>17. ~abandoned /\ (failed => writer = "stopped")
    BY <1>1, <1>5 DEF Writes
<1>18. Typed'
    BY <1>1, <1>5 DEF Typed, Places
<1>19. Vacant'
    BY <1>1, <1>5 DEF Vacant
<1>20. Writes'
    <2>1. writer' \in {"writing", "wrote"} => queue' # <<>> /\ hand' = Head(queue')
        BY <1>1, <1>5, <1>8, <1>10, <1>17, HandKeeps
    <2> QED BY <1>1, <1>5, <1>17, <2>1 DEF Writes, Sane
<1>21. Owes'
    BY <1>1, <1>5, <1>6 DEF Owes
<1> QED BY <1>16, <1>18, <1>19, <1>20, <1>21 DEF DeliveryInv, Serving

\* Every subscription is told that it ends.
LEMMA TooSlowStep ==
    ASSUME DeliveryInv, KeepsSome, TooSlow
    PROVE  DeliveryInv'
<1>1. Serving /\ Typed /\ Vacant /\ Writes /\ Owes
    BY DEF DeliveryInv, Serving
<1>2. /\ at = "room" /\ at' \in {"notices", "abandon"} /\ subs' = <<>>
      /\ UNCHANGED <<store, followers, resume, owes, asked, link, after, plain, room, whole, negotiated,
                     abandoned, failed, writer, hand, auth, lapsed, over, connects>>
    BY DEF TooSlow, rest
<1>3. PICK f : f = [k \in DOMAIN subs |-> Ending(subs[k].reader, subs[k].cursor, TRUE)]
    OBVIOUS
<1>4. Push(f) \/ queue' = queue
    BY <1>3 DEF TooSlow
<1>5. /\ queue \in Seq(Frame) /\ Bounded(queue)
    BY PendingIs DEF DeliveryInv
<1>6. PICK none : none = <<>>
    OBVIOUS
<1>7. none \in Seq(Sub) /\ DOMAIN none = {} /\ Distinct(none)
    BY <1>6 DEF Distinct
<1>8. PICK entries : entries = subs
    OBVIOUS
<1>9. /\ entries \in Seq(Sub) /\ DOMAIN entries = 1 .. Len(entries) /\ Len(entries) \in Nat
      /\ Distinct(entries) /\ StoreInv /\ cursor \in [Reader -> Position]
    BY <1>8 DEF DeliveryInv, Delivering, Distinct, FollowerTypeOK
<1>10. /\ DOMAIN f = 1 .. Len(entries)
       /\ \A k \in 1 .. Len(entries) : f[k] = Ending(entries[k].reader, entries[k].cursor, TRUE)
    BY <1>3, <1>8, <1>9
<1>11. ASSUME NEW k \in DOMAIN f PROVE EndsFor(f[k], entries[k].reader, entries[k].cursor)
    <2>1. entries[k] \in Sub
        BY <1>9, <1>10
    <2>2. PICK r \in Reader : r = entries[k].reader
        BY <2>1 DEF Sub
    <2>3. PICK p \in Position : p = entries[k].cursor
        BY <2>1 DEF Sub
    <2>4. PICK frame : frame = f[k]
        OBVIOUS
    <2>5. frame = Ending(r, p, TRUE)
        BY <1>10, <2>2, <2>3, <2>4
    <2>6. frame = Ending(r, p, TRUE) \/ frame = Ending(r, p, FALSE)
        BY <2>5, Zenon
    <2>7. EndsFor(frame, r, p)
        BY <2>6, EndingIs, Zenon
    <2> QED BY <2>2, <2>3, <2>4, <2>7
<1>12. ASSUME NEW k \in DOMAIN f
       PROVE  f[k] \in Frame /\ Sane(f[k]) /\ f[k].kind = "ended" /\ f[k].items = <<>>
    BY <1>11 DEF EndsFor, Sane
<1>13. f \in Seq(Frame) /\ Len(f) = Len(entries)
    <2>1. f = [k \in 1 .. Len(entries) |-> f[k]]
        BY <1>3, <1>8, <1>9
    <2>2. \A k \in 1 .. Len(entries) : f[k] \in Frame
        BY <1>10, <1>12
    <2>3. f \in [1 .. Len(entries) -> Frame]
        BY <2>1, <2>2, Zenon
    <2> QED BY <1>9, <2>3
<1>14. Known(f)
    <2>1. \A k \in DOMAIN f : \A m \in DOMAIN f[k].items : FALSE
        BY <1>12
    <2> QED BY <1>12, <1>13, <2>1 DEF Known
<1>15. Answers(f)
    BY <1>2, <1>12 DEF Answers
<1>16. PICK all : all = queue \o f
    OBVIOUS
<1>17. Bounded(all)
    <2>1. Joined(all, queue, f) /\ all \in Seq(Frame)
        BY <1>5, <1>13, <1>16, JoinIs
    <2>2. DOMAIN all = 1 .. Len(queue) + Len(f)
        BY <2>1 DEF Joined
    <2> QED BY <1>5, <1>12, <1>13, <2>1, <2>2, BoundedEnds
<1>18. ASSUME NEW q \in Seq(Frame), OnItsWay(q, subs, {}) PROVE OnItsWay(q \o f, none, {})
    <2>1. PICK qq : qq = q \o f
        OBVIOUS
    <2>2. Joined(qq, q, f) /\ qq \in Seq(Frame)
        BY <1>13, <2>1, JoinIs
    <2>3. OnItsWay(q, entries, {})
        BY <1>8, <1>18
    <2>4. OnItsWay(qq, none, {})
        BY <1>6, <1>9, <1>10, <1>13, <2>2, <2>3, WayEnds
    <2> QED BY <2>1, <2>4
<1>19. subs' = none
    BY <1>2, <1>6
<1>20. ~abandoned
    BY <1>1, <1>2 DEF Writes
<1>21. /\ StoreTypeOK' /\ StoreInv' /\ FollowerTypeOK' /\ Queued' /\ Delivering'
       /\ writer' \in {"writing", "wrote"} => queue' # <<>> /\ hand' = Head(queue')
    <2>1. CASE Push(f)
        <3>1. StoreTypeOK' /\ StoreInv' /\ FollowerTypeOK' /\ Queued' /\ Delivering'
            BY <1>2, <1>7, <1>14, <1>15, <1>16, <1>17, <1>18, <1>19, <2>1, PushStep
        <3>2. writer' \in {"writing", "wrote"} => queue' # <<>> /\ hand' = Head(queue')
            BY <1>1, <1>2, <1>5, <1>13, <1>20, <2>1, HandKeeps
        <3> QED BY <3>1, <3>2
    <2>2. CASE queue' = queue
        <3>1. StoreTypeOK' /\ StoreInv' /\ Grows /\ \A s \in Subject : rev[s] <= rev'[s]
            BY <1>2, Stepped DEF DeliveryInv
        <3>2. Queued'
            BY <1>2, <2>2, <3>1, QueueStays DEF DeliveryInv
        <3>3. FollowerTypeOK'
            BY <1>2 DEF DeliveryInv, FollowerTypeOK, followers
        <3>4. Lapses
            BY <1>2, LapsesNone
        <3>5. PICK q : q = Coming
            OBVIOUS
        <3>6. PICK nobody : nobody = {}
            OBVIOUS
        <3>7. OnItsWay(q, none, nobody)
            <4>1. OnItsWay(q, Live, {})
                BY <3>5 DEF DeliveryInv, Delivering
            <4> QED BY <1>7, <4>1 DEF OnItsWay
        <3>8. OnItsWay(q, none, nobody)'
            BY <1>2, <1>7, <3>1, <3>4, <3>7, WayStays DEF DeliveryInv
        <3>9. Coming' = q /\ Live' = none
            BY <1>2, <1>6, <1>19, <2>2, <3>5 DEF Coming, Live
        <3>10. ASSUME NEW qq, NEW left, qq = Coming', left = Live' PROVE OnItsWay(qq, left, {})'
            BY <3>6, <3>8, <3>9, <3>10
        <3>11. Distinct(subs)'
            BY <1>7, <1>19 DEF Distinct
        <3>12. ASSUME NEW r \in Reader PROVE Reached(r)'
            <4>1. UNCHANGED <<cursor, told, known, lost>> /\ since'[r] = since[r] /\ Reached(r)
                BY <1>2 DEF followers, DeliveryInv, Delivering
            <4> QED BY <3>1, <3>4, <4>1, ReachedStays DEF DeliveryInv
        <3>13. Delivering'
            BY <3>10, <3>11, <3>12 DEF Delivering
        <3> QED BY <1>1, <1>2, <1>20, <2>2, <3>1, <3>2, <3>3, <3>13 DEF Writes
    <2> QED BY <1>4, <2>1, <2>2
<1>22. Typed'
    BY <1>1, <1>2 DEF Typed, Places
<1>23. Vacant'
    BY <1>1, <1>2 DEF Vacant
<1>24. Writes'
    BY <1>1, <1>2, <1>20, <1>21 DEF Writes, Sane
<1>25. Owes'
    BY <1>2 DEF Owes
<1> QED BY <1>21, <1>22, <1>23, <1>24, <1>25 DEF DeliveryInv, Serving

\* Nothing more is written but the frame in the writer's hand.
LEMMA AbandonStep ==
    ASSUME DeliveryInv, KeepsSome, Abandon
    PROVE  DeliveryInv'
<1>1. Serving /\ Typed /\ Vacant /\ Writes /\ Owes
    BY DEF DeliveryInv, Serving
<1>2. /\ at = "abandon" /\ at' = "shutdown" /\ abandoned' /\ queue' = <<>>
      /\ UNCHANGED <<store, followers, link, resume, owes, after, plain, room, whole, subs,
                     asked, negotiated, failed, writer, hand, auth, lapsed, over, connects>>
    BY DEF Abandon
<1>3. StoreTypeOK' /\ StoreInv' /\ Grows /\ \A s \in Subject : rev[s] <= rev'[s]
    BY <1>2, Stepped DEF DeliveryInv
<1>4. FollowerTypeOK'
    BY <1>2 DEF DeliveryInv, FollowerTypeOK, followers
<1>5. PICK none : none = <<>>
    OBVIOUS
<1>6. Queued'
    BY <1>2, <1>5, QueueEmpty
<1>7. subs = none /\ subs' = none /\ Live' = none /\ none \in Seq(Sub) /\ DOMAIN none = {}
    BY <1>1, <1>2, <1>5 DEF Writes, Live
<1>8. ~abandoned
    BY <1>1, <1>2 DEF Writes
<1>9. PICK q : q = Coming'
    OBVIOUS
<1>10. ASSUME NEW k \in DOMAIN q PROVE Fits(q, k)
    <2>1. writer = "writing" /\ q = <<hand>>
        <3>1. q = IF writer = "stopped" THEN <<>> ELSE IF writer = "writing" THEN <<hand>> ELSE <<>>
            BY <1>2, <1>9 DEF Coming
        <3> QED BY <1>10, <3>1
    <2>2. k = 1 /\ q[1] = hand
        BY <1>10, <2>1
    <2>3. queue # <<>> /\ hand = Head(queue) /\ Coming = queue /\ queue \in Seq(Frame)
        BY <1>1, <1>8, <2>1 DEF Writes, Coming, DeliveryInv, Queued, Known
    <2>4. 1 \in DOMAIN queue /\ queue[1] = hand
        BY <2>3
    <2>5. Fits(queue, 1)
        <3>1. PICK qq : qq = queue
            OBVIOUS
        <3>2. OnItsWay(qq, Live, {})
            BY <2>3, <3>1 DEF DeliveryInv, Delivering
        <3> QED BY <2>4, <3>1, <3>2 DEF OnItsWay
    <2>6. \A j \in 1 .. 1 : q[j] = queue[j]
        BY <2>2, <2>4
    <2>7. PICK qq : qq = queue
        OBVIOUS
    <2>8. Fits(q, 1)
        BY <2>5, <2>6, <2>7, FitsSame
    <2> QED BY <2>2, <2>8
<1>11. PICK nobody : nobody = {}
    OBVIOUS
<1>12. OnItsWay(q, none, nobody)
    BY <1>7, <1>10 DEF OnItsWay
<1>13. Lapses
    BY <1>2, LapsesNone
<1>14. OnItsWay(q, none, nobody)'
    BY <1>2, <1>3, <1>7, <1>12, <1>13, WayStays DEF DeliveryInv
<1>15. ASSUME NEW qq, NEW left, qq = Coming', left = Live' PROVE OnItsWay(qq, left, {})'
    BY <1>7, <1>9, <1>11, <1>14, <1>15
<1>16. Distinct(subs)'
    BY <1>7 DEF Distinct
<1>17. ASSUME NEW r \in Reader PROVE Reached(r)'
    <2>1. UNCHANGED <<cursor, told, known, lost>> /\ since'[r] = since[r] /\ Reached(r)
        BY <1>2 DEF followers, DeliveryInv, Delivering
    <2> QED BY <1>3, <1>13, <2>1, ReachedStays DEF DeliveryInv
<1>18. Delivering'
    BY <1>15, <1>16, <1>17 DEF Delivering
<1>19. Typed'
    <2>1. abandoned' = TRUE /\ at' \in Places
        BY DEF Abandon, Places
    <2> QED BY <1>1, <1>2, <2>1 DEF Typed
<1>20. Vacant' /\ Writes' /\ Owes'
    BY <1>1, <1>2 DEF Vacant, Writes, Owes, Sane
<1> QED BY <1>3, <1>4, <1>6, <1>18, <1>19, <1>20 DEF DeliveryInv, Serving

\* A subscription from the start, from now or from a cursor.
LEMMA SubscribeStep ==
    ASSUME DeliveryInv, KeepsSome, NEW r \in Reader, Subscribe(r)
    PROVE  DeliveryInv'
<1>1. Serving /\ Typed /\ Vacant /\ Writes /\ Owes
    BY DEF DeliveryInv, Serving
<1>2. /\ at = "read" /\ at' = "respond" /\ owes' = 0 /\ r \notin asked /\ asked' = asked \cup {r}
      /\ UNCHANGED <<store, cursor, told, known, lost, resume, queue>>
      /\ UNCHANGED <<link, after, plain, room, whole, negotiated, abandoned, failed, writer, hand,
                     auth, lapsed, over, connects>>
    BY DEF Subscribe, rest
<1>3. UNCHANGED <<log, rows, vouched, discarded, rev>>
    BY <1>2 DEF store
<1>4. StoreTypeOK' /\ StoreInv' /\ Grows /\ \A s \in Subject : rev[s] <= rev'[s]
    BY <1>2, Stepped DEF DeliveryInv
<1>5. /\ StoreInv /\ cursor \in [Reader -> Position] /\ since \in [Reader -> Nat] /\ FollowerTypeOK
      /\ Distinct(subs) /\ \A o \in Reader : Reached(o)
      /\ Len(log) \in Nat /\ DOMAIN log = 1 .. Len(log)
    BY DEF DeliveryInv, FollowerTypeOK, Delivering, StoreInv, Stored
\* Where it starts, and the first event that it asks for.
<1>6. PICK p \in Position, first \in Nat :
          /\ Sound(p) /\ subs' = Append(subs, [reader |-> r, cursor |-> p])
          /\ since' = [since EXCEPT ![r] = first]
          /\ \/ cursor[r] = Nothing /\ \A i \in DOMAIN log : first \in 1 .. i => ~Before(Place(i), p)
             \/ cursor[r] # Nothing /\ p = cursor[r] /\ first = since[r]
    <2>1. PICK from \in {"start", "now", "cursor"} :
              LET position == CASE from = "start" -> StreamStart
                                [] from = "now" -> Now
                                [] from = "cursor" -> cursor[r]
              IN  /\ from = "cursor" <=> cursor[r] # Nothing
                  /\ ValidCursor(position)
                  /\ subs' = Append(subs, [reader |-> r, cursor |-> position])
                  /\ since' = [since EXCEPT ![r] = CASE from = "start" -> 1
                                                     [] from = "now" -> Len(log) + 1
                                                     [] from = "cursor" -> @]
        BY DEF Subscribe
    <2>2. CASE from = "start"
        <3>1. PICK p : p = StreamStart
            OBVIOUS
        <3>2. /\ cursor[r] = Nothing /\ ValidCursor(p)
              /\ subs' = Append(subs, [reader |-> r, cursor |-> p])
              /\ since' = [since EXCEPT ![r] = 1]
            BY <2>1, <2>2, <3>1
        <3>3. /\ p \in Position /\ p.epoch = 1 /\ p.seq = 1
            BY <3>1 DEF StreamStart, Position
        <3>4. Sound(p)
            BY <3>2, <3>3 DEF Sound
        <3>5. ASSUME NEW i \in DOMAIN log PROVE ~Before(Place(i), p)
            <4>1. /\ Place(i).epoch = log[i].epoch /\ Place(i).seq = log[i].seq
                  /\ log[i].epoch \in Nat /\ log[i].seq \in Nat
                  /\ log[i].epoch >= 1 /\ log[i].seq >= 1
                BY <1>5, PlaceType DEF StoreInv, Ordered
            <4> QED BY <3>3, <4>1 DEF Before
        <3> QED BY <3>2, <3>3, <3>4, <3>5
    <2>3. CASE from = "now"
        <3>1. PICK p : p = Now
            OBVIOUS
        <3>2. PICK first \in Nat : first = Len(log) + 1
            BY <1>5
        <3>3. /\ cursor[r] = Nothing
              /\ subs' = Append(subs, [reader |-> r, cursor |-> p])
              /\ since' = [since EXCEPT ![r] = first]
            BY <2>1, <2>3, <3>1, <3>2
        <3>4. Sound(p) /\ p \in Position
            BY <1>5, <3>1, HeadIs DEF Now
        <3>5. \A i \in DOMAIN log : ~(first \in 1 .. i)
            BY <1>5, <3>2
        <3> QED BY <3>2, <3>3, <3>4, <3>5
    <2>4. CASE from = "cursor"
        <3>1. PICK p : p = cursor[r]
            OBVIOUS
        <3>2. PICK first \in Nat : first = since[r]
            BY <1>5
        <3>3. /\ cursor[r] # Nothing
              /\ subs' = Append(subs, [reader |-> r, cursor |-> p])
              /\ since' = [since EXCEPT ![r] = first]
            BY <2>1, <2>4, <3>1, <3>2
        <3>4. Sound(p) /\ p \in Position
            BY <1>5, <3>1, <3>3 DEF Reached, Upto
        <3> QED BY <3>1, <3>2, <3>3, <3>4
    <2> QED BY <2>1, <2>2, <2>3, <2>4
<1>7. FollowerTypeOK'
    <2>1. since' \in [Reader -> Nat]
        BY <1>5, <1>6
    <2> QED BY <1>2, <1>5, <2>1 DEF FollowerTypeOK
<1>8. Lapses
    BY <1>2, LapsesNone
<1>9. Queued'
    BY <1>2, <1>4, QueueStays DEF DeliveryInv
<1>10. ASSUME NEW o \in Reader PROVE Reached(o)'
    <2>1. since'[o] = since[o] \/ cursor[o] = Nothing
        BY <1>5, <1>6
    <2>2. Reached(o) /\ UNCHANGED <<cursor, told, known, lost>>
        BY <1>2, <1>5
    <2> QED BY <1>4, <1>5, <1>8, <2>1, <2>2, ReachedStays
<1>11. PICK entries : entries = subs
    OBVIOUS
<1>12. PICK entries2 : entries2 = Append(entries, [reader |-> r, cursor |-> p])
    OBVIOUS
<1>13. subs' = entries2
    BY <1>6, <1>11, <1>12
<1>14. ASSUME NEW q \in Seq(Frame), OnItsWay(q, entries, {})
       PROVE  OnItsWay(q, entries2, {})' /\ Distinct(entries2)'
    BY <1>2, <1>3, <1>5, <1>6, <1>11, <1>12, <1>14, WayBegins
<1>15. PICK none : none = <<>>
    OBVIOUS
<1>16. none \in Seq(Frame) /\ DOMAIN none = {}
    BY <1>15
<1>17. ~abandoned
    BY <1>1, <1>2 DEF Writes
\* The frames that nobody will write do not matter.
<1>18. Delivering'
    <2>1. CASE writer = "stopped"
        <3>1. Coming' = none /\ Live' = none
            BY <1>2, <1>15, <2>1 DEF Coming, Live
        <3>2. OnItsWay(none, none, {})'
            BY <1>16 DEF OnItsWay
        <3>3. ASSUME NEW qq, NEW left, qq = Coming', left = Live' PROVE OnItsWay(qq, left, {})'
            BY <3>1, <3>2, <3>3
        <3>4. Distinct(subs)'
            <4>1. p \in Position /\ Sound(p)'
                BY <1>4, <1>5, <1>6, PlacesStay
            <4>2. \A k \in DOMAIN entries : entries[k].reader \in asked /\ Sound(entries[k].cursor)'
                BY <1>4, <1>5, <1>11, PlacesStay DEF Distinct
            <4>3. PICK entry \in Sub : entry = [reader |-> r, cursor |-> p]
                BY DEF Sub
            <4>4. /\ entries2 = Append(entries, entry) /\ entry.reader = r /\ entry.cursor = p
                BY <1>12, <4>3
            <4>5. /\ entries \in Seq(Sub) /\ entries2 \in Seq(Sub) /\ DOMAIN entries2 = 1 .. Len(entries) + 1
                  /\ DOMAIN entries = 1 .. Len(entries) /\ Len(entries) \in Nat
                  /\ \A k \in 1 .. Len(entries) : entries2[k] = entries[k]
                  /\ entries2[Len(entries) + 1] = entry
                BY <1>5, <1>11, <4>3, <4>4 DEF Distinct
            <4>6. \A k \in DOMAIN entries2 : k \in DOMAIN entries \/ k = Len(entries) + 1
                BY <4>5
            <4>7. \A j, k \in DOMAIN entries : entries[j].reader = entries[k].reader => j = k
                BY <1>5, <1>11 DEF Distinct
            <4>8. \A k \in DOMAIN entries : entries[k].reader \in asked /\ entries[k].reader # r /\ Sound(entries[k].cursor)'
                BY <1>2, <4>2
            <4>9. \A j, k \in DOMAIN entries2 : entries2[j].reader = entries2[k].reader => j = k
                BY <4>4, <4>5, <4>6, <4>7, <4>8
            <4>10. \A k \in DOMAIN entries2 : entries2[k].reader \in asked' /\ Sound(entries2[k].cursor)'
                BY <1>2, <4>1, <4>4, <4>5, <4>6, <4>8
            <4> QED BY <1>13, <4>5, <4>9, <4>10 DEF Distinct
        <3> QED BY <1>10, <3>3, <3>4 DEF Delivering
    <2>2. CASE writer # "stopped"
        <3>1. PICK q \in Seq(Frame) : q = Coming
            <4>1. Tail(queue) \in Seq(Frame) \/ writer # "wrote"
                BY <1>1, <1>17 DEF DeliveryInv, Queued, Known, Writes
            <4>2. queue \in Seq(Frame)
                BY DEF DeliveryInv, Queued, Known
            <4> QED BY <1>17, <2>2, <4>1, <4>2 DEF Coming
        <3>2. Live = entries /\ Live' = entries2
            BY <1>2, <1>11, <1>13, <2>2 DEF Live
        <3>3. OnItsWay(q, entries, {})
            BY <3>1, <3>2 DEF DeliveryInv, Delivering
        <3>4. OnItsWay(q, entries2, {})' /\ Distinct(entries2)'
            BY <1>14, <3>3
        <3>5. Coming' = q
            BY <1>2, <3>1 DEF Coming
        <3>6. ASSUME NEW qq, NEW left, qq = Coming', left = Live' PROVE OnItsWay(qq, left, {})'
            BY <3>2, <3>4, <3>5, <3>6
        <3>7. Distinct(subs)'
            BY <1>13, <3>4 DEF Distinct
        <3> QED BY <1>10, <3>6, <3>7 DEF Delivering
    <2> QED BY <2>1, <2>2
<1>20. Typed'
    BY <1>1, <1>2 DEF Typed, Places
<1>21. Vacant'
    BY <1>1, <1>2 DEF Vacant
<1>22. Writes' /\ Owes'
    BY <1>1, <1>2 DEF Writes, Owes, Sane
<1> QED BY <1>4, <1>7, <1>9, <1>18, <1>20, <1>21, <1>22 DEF DeliveryInv, Serving

\* Whoever unsubscribes is delivered what is on its way to him, and no more.
LEMMA UnsubscribeStep ==
    ASSUME DeliveryInv, KeepsSome, NEW r \in Reader, Unsubscribe(r)
    PROVE  DeliveryInv'
<1>1. Serving /\ Typed /\ Vacant /\ Writes /\ Owes
    BY DEF DeliveryInv, Serving
<1>2. /\ at = "read" /\ at' = "respond" /\ owes' = 0 /\ subs' = Without(subs, {r})
      /\ UNCHANGED <<store, followers, resume, asked, queue, link, after, plain, room, whole, negotiated,
                     abandoned, failed, writer, hand, auth, lapsed, over, connects>>
    BY DEF Unsubscribe, rest
<1>3. StoreTypeOK' /\ StoreInv' /\ Grows /\ \A s \in Subject : rev[s] <= rev'[s]
    BY <1>2, Stepped DEF DeliveryInv
<1>4. FollowerTypeOK'
    BY <1>2 DEF DeliveryInv, FollowerTypeOK, followers
<1>5. Queued'
    BY <1>2, <1>3, QueueStays DEF DeliveryInv
<1>6. Lapses
    BY <1>2, LapsesNone
<1>7. PICK entries : entries = subs
    OBVIOUS
<1>8. PICK gone : gone = {r}
    OBVIOUS
<1>9. PICK none : none = {}
    OBVIOUS
<1>10. PICK out : out = Without(entries, gone)
    OBVIOUS
<1>11. subs' = out /\ Distinct(entries) /\ Distinct(out)
    <2>1. Distinct(entries)
        BY <1>7 DEF DeliveryInv, Delivering
    <2>2. Distinct(out)
        BY <1>10, <2>1, DistinctLeft
    <2> QED BY <1>2, <1>7, <1>8, <1>10, <2>1, <2>2
<1>12. Distinct(subs)'
    <2>1. Distinct(out)'
        BY <1>2, <1>3, <1>11, PlacesStay DEF DeliveryInv, Distinct
    <2> QED BY <1>11, <2>1 DEF Distinct
<1>13. PICK q : q = Coming
    OBVIOUS
<1>14. Coming' = q
    BY <1>2, <1>13 DEF Coming
<1>15. PICK left : left = Live'
    OBVIOUS
<1>16. OnItsWay(q, left, none) /\ left \in Seq(Sub)
    <2>1. OnItsWay(q, Live, none)
        BY <1>9, <1>13 DEF DeliveryInv, Delivering
    <2>2. CASE writer = "stopped"
        <3>1. Live = <<>> /\ left = <<>>
            BY <1>2, <1>15, <2>2 DEF Live
        <3> QED BY <2>1, <3>1
    <2>3. CASE writer # "stopped"
        <3>1. Live = entries /\ left = out
            BY <1>2, <1>7, <1>11, <1>15, <2>3 DEF Live
        <3>2. OnItsWay(q, entries, none) /\ none \subseteq gone
            BY <1>9, <2>1, <3>1
        <3>3. OnItsWay(q, out, {})
            BY <1>10, <1>11, <3>2, WayLeaves
        <3> QED BY <1>9, <1>11, <3>1, <3>3 DEF Distinct
    <2> QED BY <2>2, <2>3
<1>17. OnItsWay(q, left, none)'
    BY <1>2, <1>3, <1>6, <1>16, WayStays DEF DeliveryInv
<1>18. ASSUME NEW qq, NEW those, qq = Coming', those = Live' PROVE OnItsWay(qq, those, {})'
    BY <1>9, <1>14, <1>15, <1>17, <1>18
<1>19. ASSUME NEW o \in Reader PROVE Reached(o)'
    <2>1. UNCHANGED <<cursor, told, known, lost>> /\ since'[o] = since[o] /\ Reached(o)
        BY <1>2 DEF followers, DeliveryInv, Delivering
    <2> QED BY <1>3, <1>6, <2>1, ReachedStays DEF DeliveryInv
<1>20. Delivering'
    BY <1>12, <1>18, <1>19 DEF Delivering
<1>21. Typed'
    BY <1>1, <1>2 DEF Typed, Places
<1>22. Vacant'
    BY <1>1, <1>2 DEF Vacant
<1>23. Writes' /\ Owes'
    BY <1>1, <1>2 DEF Writes, Owes, Sane
<1> QED BY <1>3, <1>4, <1>5, <1>20, <1>21, <1>22, <1>23 DEF DeliveryInv, Serving

\* Before the first connection.
LEMMA DeliveryStart ==
    Init => DeliveryInv
<1> SUFFICES ASSUME Init PROVE DeliveryInv
    OBVIOUS
<1>1. StoreTypeOK /\ StoreInv /\ FollowerTypeOK
    <2>1. /\ log = <<>> /\ rows = {} /\ vouched = <<>> /\ discarded = Nothing
          /\ rev = [s \in Subject |-> 0] /\ phase = "down" /\ starts = 0
          /\ cursor = [r \in Reader |-> Nothing] /\ since = [r \in Reader |-> 0]
          /\ told = [r \in Reader |-> <<>>] /\ known = [r \in Reader |-> [s \in Subject |-> 0]]
          /\ lost = [r \in Reader |-> {}]
        BY DEF Init, StoreInit, FollowerInit
    <2>2. Nothing \in Position
        BY DEF Nothing, Position
    <2>3. /\ <<>> \in Seq(Event) /\ <<>> \in Seq(Nat) /\ DOMAIN <<>> = {} /\ Len(<<>>) = 0
        OBVIOUS
    <2>4. Stored
        BY <2>1, <2>2, <2>3 DEF Stored
    <2>5. StoreInv
        BY <2>1, <2>3, <2>4 DEF StoreInv, Ordered, Revised, Retained
    <2>6. StoreTypeOK /\ FollowerTypeOK
        BY <2>1, <2>2, <2>3, <2>4 DEF StoreTypeOK, FollowerTypeOK, Stored, Phase
    <2> QED BY <2>5, <2>6
<1>2. PICK none : none = <<>>
    OBVIOUS
<1>3. queue = none /\ subs = none /\ Coming = none /\ Live = none
    BY <1>2 DEF Init, Coming, Live
<1>4. /\ none \in Seq(Frame) /\ none \in Seq(Sub) /\ DOMAIN none = {} /\ Len(none) = 0
    BY <1>2
<1>5. Queued
    <2>1. Known(queue)
        BY <1>3, <1>4 DEF Known
    <2>2. Weight(none, Governed) = 0
        <3>1. Weighty(none)
            BY <1>4, FramesWeigh
        <3> QED BY <1>4, <3>1, WeightNat
    <2>3. PendingBounded
        <3>1. Bounded(queue)
            BY <1>3, <2>2, DeliveryAssumption DEF Bounded
        <3> QED BY <3>1, BoundedIs
    <2>4. ResponseFirst
        BY <1>3, <1>4 DEF ResponseFirst
    <2> QED BY <2>1, <2>3, <2>4 DEF Queued
<1>6. Delivering
    <2>1. ASSUME NEW q, NEW entries, q = Coming, entries = Live PROVE OnItsWay(q, entries, {})
        BY <1>3, <1>4, <2>1 DEF OnItsWay
    <2>2. Distinct(subs)
        BY <1>3, <1>4 DEF Distinct
    <2>3. ASSUME NEW r \in Reader PROVE Reached(r)
        <3>1. cursor[r] = Nothing /\ told[r] = <<>> /\ auth = Reader
            BY DEF Init, FollowerInit
        <3> QED BY <3>1 DEF Reached, Orderly
    <2> QED BY <2>1, <2>2, <2>3 DEF Delivering
<1>7. Typed
    <2>1. hand = NoFrame <=> writer \in {"idle", "stopped"}
        <3>1. hand = NoFrame /\ writer \in {"idle", "stopped"}
            BY DEF Init
        <3> QED BY <3>1, Zenon
    <2>2. at \in Places /\ writer \in WriterPlaces
        BY DEF Init, Places, WriterPlaces
    <2>3. room \in 0 .. Bound
        BY DeliveryAssumption DEF Init
    <2>4. whole \in BOOLEAN /\ negotiated \in BOOLEAN /\ abandoned \in BOOLEAN /\ failed \in BOOLEAN
        BY Zenon DEF Init
    <2>5. /\ link \in {"none", "open", "half", "gone"} /\ resume \in {"push", "measure"}
          /\ owes \in Nat /\ after \in {"measure", "read", "close"} /\ plain \in Nat
          /\ asked \subseteq Reader /\ auth \subseteq Reader /\ over \subseteq Reader
          /\ lapsed \in [Reader -> Nat] /\ connects \in Nat
        BY DEF Init
    <2> QED BY <2>1, <2>2, <2>3, <2>4, <2>5 DEF Typed
<1>8. Vacant /\ Writes /\ Owes
    BY DEF Init, Vacant, Writes, Owes
<1> QED BY <1>1, <1>5, <1>6, <1>7, <1>8 DEF DeliveryInv, Serving

\* Every step.
LEMMA DeliveryStep ==
    ASSUME DeliveryInv, KeepsSome, [Next]_vars
    PROVE  DeliveryInv'
<1>1. CASE Connect \/ EndInput \/ Hangup
    BY <1>1, ConsumerSteps
<1>2. CASE Gone \/ ProcessDies
    BY <1>2, ResetSteps
<1>3. CASE Elsewhere \/ Starting \/ \E r \in Reader : Lapse(r)
    BY <1>3, StoreSteps
<1>4. CASE Writer
    BY <1>4, WriterSteps, WrittenStep DEF Writer
<1>5. CASE Session
    <2>1. CASE \/ \E s \in Subject : Command(s)
               \/ Plain \/ Poll \/ RoomMade \/ NoticesEnd \/ Shutdown \/ Eof \/ Close
        BY <2>1, SessionSteps
    <2>2. CASE \E r \in Reader : Subscribe(r) \/ Unsubscribe(r)
        BY <2>2, SubscribeStep, UnsubscribeStep
    <2>3. CASE Respond \/ RespondAfterRoom
        BY <2>3, RespondSteps
    <2>4. CASE Measure \/ Drain \/ TooSlow \/ Abandon
        BY <2>4, MeasureStep, DrainStep, TooSlowStep, AbandonStep
    <2> QED BY <1>5, <2>1, <2>2, <2>3, <2>4 DEF Session
<1>6. CASE UNCHANGED vars
    <2>1. /\ UNCHANGED store /\ UNCHANGED followers /\ UNCHANGED <<asked, subs, queue, owes>>
          /\ UNCHANGED <<link, session, outbox, auth, lapsed, over, connects>>
        BY <1>6 DEF vars, store, followers, session, outbox
    <2>2. Quietly
        BY <2>1, LapsesNone DEF Quietly, Coming, Live, outbox
    <2>3. Serving'
        <3>1. Typed /\ Vacant /\ Writes /\ Owes
            BY DEF DeliveryInv, Serving
        <3>2. Typed'
            BY <2>1, <3>1 DEF Typed, session, outbox
        <3>3. Vacant' /\ Writes'
            BY <2>1, <3>1 DEF Vacant, Writes, session, outbox, Sane
        <3>4. Owes'
            BY <2>1, <3>1 DEF Owes, session, outbox, Pending
        <3> QED BY <3>2, <3>3, <3>4 DEF Serving
    <2> QED BY <2>1, <2>2, <2>3, QuietStep
<1> QED BY <1>1, <1>2, <1>3, <1>4, <1>5, <1>6 DEF Next

\* The invariant that the theorems rest on.
LEMMA DeliveryAlways ==
    ASSUME KeepsSome
    PROVE  Spec => []DeliveryInv
<1>1. DeliveryInv /\ [Next]_vars => DeliveryInv'
    BY KeepsSome, DeliveryStep
<1> QED BY <1>1, DeliveryStart, PTL DEF Spec

-----------------------------------------------------------------------------
(* What the invariant says.                                                *)

\* What waits for the writer (respond, deliver_with, make_room) is within the
\* bound or a single frame besides notices, and a response comes before the events
\* of its command (serve_frames), however the writer, a stalled consumer and the
\* rest of the provider get in between.
THEOREM OutputStaysOrderly ==
    ASSUME KeepsSome
    PROVE  Spec => []OutputOrderly
<1>1. DeliveryInv => OutputOrderly
    <2> SUFFICES ASSUME DeliveryInv PROVE OutputOrderly
        OBVIOUS
    <2>1. PendingBounded /\ ResponseFirst /\ Typed /\ StoreTypeOK /\ FollowerTypeOK
        BY DEF DeliveryInv, Queued, Serving
    <2>2. subs \in Seq([reader : Reader, cursor : Position])
        BY DEF DeliveryInv, Delivering, Distinct, Sub
    <2>3. \A k \in DOMAIN queue : queue[k].kind \in {"response", "notify", "ended"}
        <3> SUFFICES ASSUME NEW k \in DOMAIN queue
                     PROVE  queue[k].kind \in {"response", "notify", "ended"}
            OBVIOUS
        <3>1. queue[k] \in Frame
            BY DEF DeliveryInv, Queued, Known, Sane
        <3> QED BY <3>1 DEF Frame, Kinds
    <2>4. TypeOK
        BY <2>1, <2>2, <2>3 DEF TypeOK, Typed
    <2> QED BY <2>1, <2>4 DEF OutputOrderly
<1> QED BY <1>1, DeliveryAlways, PTL

\* Nothing that was committed after a consumer's authority ended reaches it
\* (drain_subscriptions_locked), with frames of before still in the outbox.
THEOREM NothingIsToldAfterLapse ==
    ASSUME KeepsSome
    PROVE  Spec => []NothingAfterLapse
<1>1. DeliveryInv => NothingAfterLapse
    BY DEF DeliveryInv, Delivering, Reached, NothingAfterLapse
<1> QED BY <1>1, DeliveryAlways, PTL

\* A consumer that subscribes, is cut off, and subscribes again from the cursor
\* that it received last (events_subscribe) is told of everything that it asked
\* for, once and in order, whatever was on its way when the connection ended.
THEOREM DeliveryIsFollowed ==
    ASSUME KeepsSome
    PROVE  Spec => []FollowsStream
<1>1. DeliveryInv => FollowsStream
    <2> SUFFICES ASSUME DeliveryInv PROVE FollowsStream
        OBVIOUS
    <2>1. ASSUME NEW r \in Reader, NEW i \in DOMAIN log,
                 since[r] \in 1 .. i, Before(Place(i), cursor[r])
          PROVE  Accounted(r, i)
        <3>1. Reached(r)
            BY DEF DeliveryInv, Delivering
        <3>2. cursor[r] # Nothing
            <4>1. Place(i) \in Position
                BY PlaceType DEF DeliveryInv, StoreInv
            <4>2. Nothing.epoch = 0 /\ Nothing.seq = 0
                BY DEF Nothing
            <4> QED BY <2>1, <4>1, <4>2 DEF Before, Position
        <3>3. PICK q : q = <<>>
            OBVIOUS
        <3>4. Upto(q, r, 0, cursor[r])
            BY <3>1, <3>2, <3>3 DEF Reached
        <3>5. Accounted(r, i) \/ Brought(q, r, 0, i)
            BY <2>1, <3>4 DEF Upto
        <3>6. ~Brought(q, r, 0, i)
            BY DEF Brought
        <3> QED BY <3>5, <3>6
    <2>2. ASSUME NEW r \in Reader PROVE \A j, k \in DOMAIN told[r] : j < k => told[r][j] < told[r][k]
        BY DEF DeliveryInv, Delivering, Reached, Orderly
    <2> QED BY <2>1, <2>2 DEF FollowsStream, NoSilentGap, DeliveredOnceInOrder
<1> QED BY <1>1, DeliveryAlways, PTL
=============================================================================
