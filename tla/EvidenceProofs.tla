--------------------------- MODULE EvidenceProofs ---------------------------
(***************************************************************************)
(* Proofs about artifacts, holds and their bytes, for every set of         *)
(* artifacts, holds, digests and principals, every grant, every manifest   *)
(* and every interleaving of requests, passes, crashes and disk faults.    *)
(***************************************************************************)
EXTENDS Evidence, FiniteSetTheorems, WellFoundedInduction, TLAPS

-----------------------------------------------------------------------------
(* What the proofs strengthen the properties with.                         *)

StagedRecord    == [state : {"staged"}, digest : Digest, received : Nat, at : Nat]
Unders          == {{}} \cup {row.under : row \in TickRow}
SealedRecord    == [state : {"sealed"}, digest : Digest, purge : {"no", "pending", "confirmed"}, due : Nat,
                    under : Unders]
AbandonedRecord == [state : {"abandoned"}, digest : Digest]
ArtifactRecord  == {NoArtifact} \cup StagedRecord \cup SealedRecord \cup AbandonedRecord

HoldRecord ==
    {NoHold} \cup [state : {"active", "released", "expired"}, artifact : Ids, owner : Principal,
                   expires : {NoTimeout} \cup Nat]

Rows == [artifact : Ids, digest : Digest, under : Unders]

Steps ==
    {Idle} \cup [op : {"publish", "seal"}, row : Rows] \cup [op : {"delete"}, digest : Digest]

RecordsTyped ==
    /\ art \in [Ids -> ArtifactRecord]
    /\ \A a \in Ids : art[a].state = "staged" => art[a].received <= Size[art[a].digest]
    /\ hold \in [Hold -> HoldRecord]
    /\ chunks \in [Ids -> SUBSET [offset : Nat, len : Nat, of : Digest]]
    /\ config \in Config /\ now \in Nat

FilesTyped ==
    /\ objects \in [Digest -> {"none", "good", "bad"}]
    /\ doing \in Steps

(* A step under way is of a process that serves; an object that is about   *)
(* to be named by a seal is there, and its record is not sealed yet.       *)
SealUnderWay ==
    /\ ~up => doing = Idle
    /\ doing.op \in {"publish", "seal"} => art[doing.row.artifact].state \in {"none", "staged"}
    /\ doing.op = "seal" => objects[doing.row.digest] = "good" \/ doing.row.digest \in spoiled

(* What keeps an object of a confirmed purge that no record names: the     *)
(* step that will delete it, one that will name it, one whose row was      *)
(* refused, or the start to come.                                          *)
Leftover(d) ==
    \/ ~up
    \/ doing.op = "delete" /\ doing.digest = d
    \/ doing.op \in {"publish", "seal"} /\ doing.row.digest = d
    \/ d \in left

PurgedIsLeftover ==
    \A a \in Ids : Sealed(a) /\ art[a].purge = "confirmed" /\ art[a].digest \notin Roots
                     => objects[art[a].digest] = "none" \/ Leftover(art[a].digest)

EvidenceInv ==
    /\ RecordsTyped /\ FilesTyped /\ NoBytesLeftBehind
    /\ SealUnderWay /\ OwedBytesKept /\ PurgedIsLeftover /\ HeldIsKept

-----------------------------------------------------------------------------
(* Facts about the records.                                                *)

\* What a record is follows from its state.
LEMMA RecordOfState ==
    ASSUME NEW r \in ArtifactRecord
    PROVE  /\ r.state = "sealed" => r \in SealedRecord
           /\ r.state = "staged" => r \in StagedRecord
           /\ r.state = "abandoned" => r \in AbandonedRecord
           /\ r.state \in {"none", "staged", "sealed", "abandoned"}
BY DEF ArtifactRecord, SealedRecord, StagedRecord, AbandonedRecord, NoArtifact

\* What a hold is follows from whether it was placed.
LEMMA HoldOfState ==
    ASSUME NEW r \in HoldRecord
    PROVE  /\ r.state \in {"none", "active", "released", "expired"}
           /\ r.state # "none" =>
                r \in [state : {"active", "released", "expired"}, artifact : Ids, owner : Principal,
                       expires : {NoTimeout} \cup Nat]
BY DEF HoldRecord, NoHold

\* The steps under way, by what they are.
LEMMA StepOfOp ==
    ASSUME NEW step \in Steps
    PROVE  /\ step.op \in {"none", "publish", "seal", "delete"}
           /\ step.op = "none" <=> step = Idle
           /\ step.op \in {"publish", "seal"} => step.row \in Rows
           /\ step.op = "delete" => step.digest \in Digest
BY DEF Steps, Idle

\* What a request leaves under way is a step.
LEMMA NewSteps ==
    /\ Idle \in Steps /\ Idle.op = "none"
    /\ \A row \in Rows : /\ [op |-> "publish", row |-> row] \in Steps
                         /\ [op |-> "seal", row |-> row] \in Steps
    /\ \A d \in Digest : [op |-> "delete", digest |-> d] \in Steps
BY DEF Steps, Idle

\* One record of a table replaced.
LEMMA OneRecord ==
    ASSUME NEW a \in Ids, NEW r \in ArtifactRecord, art \in [Ids -> ArtifactRecord],
           art' = [art EXCEPT ![a] = r]
    PROVE  /\ art' \in [Ids -> ArtifactRecord] /\ art'[a] = r
           /\ \A b \in Ids : b # a => art'[b] = art[b]
OBVIOUS

\* The digests that records name.
LEMMA RootsMember ==
    ASSUME NEW d
    PROVE  d \in Roots <=> \E a \in Ids : Sealed(a) /\ art[a].purge # "confirmed" /\ art[a].digest = d
BY DEF Roots, Root

\* The same digests, after a step.
LEMMA RootsMemberNext ==
    ASSUME NEW d
    PROVE  d \in Roots' <=>
             \E a \in Ids : art'[a].state = "sealed" /\ art'[a].purge # "confirmed" /\ art'[a].digest = d
BY DEF Roots, Root, Sealed

\* A record that is not sealed, before or after, names no object.
LEMMA RootsKept ==
    ASSUME NEW a \in Ids, \A b \in Ids : b # a => art'[b] = art[b],
           art[a].state # "sealed", art'[a].state # "sealed"
    PROVE  Roots' = Roots
<1>1. \A d : d \in Roots' <=> d \in Roots
  BY RootsMember, RootsMemberNext DEF Sealed
<1> QED
  BY <1>1

-----------------------------------------------------------------------------
(* Steps that change no record.                                            *)

\* Time, listers and the ends of a pass change nothing that is kept.
LEMMA NothingKept ==
    ASSUME EvidenceInv, now' \in Nat,
           UNCHANGED <<art, hold, chunks, objects, config, doing, up, spoiled, left>>
    PROVE  EvidenceInv'
BY DEF EvidenceInv, RecordsTyped, FilesTyped, NoBytesLeftBehind, SealUnderWay, OwedBytesKept,
       PurgedIsLeftover, HeldIsKept, Leftover, Roots, Root, Sealed, Kept, Active

\* Holds come and go; an active one is on an artifact that is kept.
LEMMA HoldsChange ==
    ASSUME EvidenceInv, hold' \in [Hold -> HoldRecord],
           \A h \in Hold : hold'[h].state = "active" => Kept(hold'[h].artifact),
           UNCHANGED <<art, chunks, objects, now, config, doing, up, spoiled, left>>
    PROVE  EvidenceInv'
<1>1. HeldIsKept'
  BY DEF HeldIsKept, Active, Kept, Sealed
<1> QED
  BY <1>1 DEF EvidenceInv, RecordsTyped, FilesTyped, NoBytesLeftBehind, SealUnderWay, OwedBytesKept,
       PurgedIsLeftover, Leftover, Roots, Root, Sealed

\* A hold whose time has come ends (tick_evidence).
LEMMA ExpireHoldStep ==
    ASSUME EvidenceInv, NEW h \in Hold, ExpireHold(h)
    PROVE  EvidenceInv'
<1> DEFINE r == [hold[h] EXCEPT !.state = "expired"]
<1>1. hold[h] \in HoldRecord /\ hold[h].state = "active"
  BY DEF EvidenceInv, RecordsTyped, ExpireHold, HoldDue, Active
<1>2. r \in HoldRecord /\ r.state = "expired"
  BY <1>1, HoldOfState DEF HoldRecord
<1>3. hold' = [hold EXCEPT ![h] = r]
  BY DEF ExpireHold
<1> HIDE DEF r
<1>4. /\ hold' \in [Hold -> HoldRecord]
      /\ \A k \in Hold : hold'[k].state = "active" => Kept(hold'[k].artifact)
  BY <1>2, <1>3 DEF EvidenceInv, RecordsTyped, HeldIsKept, Active
<1> QED
  BY <1>4, HoldsChange DEF ExpireHold

\* A hold is released by its owner, or by leave (evidence_release).
LEMMA ReleaseStep ==
    ASSUME EvidenceInv, NEW who, NEW h \in Hold, Release(who, h)
    PROVE  EvidenceInv'
<1> DEFINE r == [hold[h] EXCEPT !.state = "released"]
<1>1. hold[h] \in HoldRecord /\ hold[h].state = "active"
  BY DEF EvidenceInv, RecordsTyped, Release, Active
<1>2. r \in HoldRecord /\ r.state = "released"
  BY <1>1, HoldOfState DEF HoldRecord
<1>3. hold' = [hold EXCEPT ![h] = r]
  BY DEF Release
<1> HIDE DEF r
<1>4. /\ hold' \in [Hold -> HoldRecord]
      /\ \A k \in Hold : hold'[k].state = "active" => Kept(hold'[k].artifact)
  BY <1>2, <1>3 DEF EvidenceInv, RecordsTyped, HeldIsKept, Active
<1> QED
  BY <1>4, HoldsChange DEF Release

\* A hold is placed on an artifact that is kept (evidence_hold).
LEMMA PlaceHoldStep ==
    ASSUME EvidenceInv, NEW who \in Principal, NEW h \in Hold, NEW a \in Ids,
           NEW expires \in {NoTimeout} \cup Nat, PlaceHold(who, h, a, expires)
    PROVE  EvidenceInv'
<1> DEFINE r == [state |-> "active", artifact |-> a, owner |-> who, expires |-> expires]
<1>1. r \in HoldRecord /\ r.artifact = a /\ Kept(a)
  BY DEF HoldRecord, PlaceHold
<1>2. hold' = [hold EXCEPT ![h] = r]
  BY DEF PlaceHold
<1> HIDE DEF r
<1>3. /\ hold' \in [Hold -> HoldRecord]
      /\ \A k \in Hold : hold'[k].state = "active" => Kept(hold'[k].artifact)
  BY <1>1, <1>2 DEF EvidenceInv, RecordsTyped, HeldIsKept, Active
<1> QED
  BY <1>3, HoldsChange DEF PlaceHold

-----------------------------------------------------------------------------
(* Steps of an upload.                                                     *)

\* An upload that begins, grows or ends unsealed takes nothing from anyone.
LEMMA UploadChange ==
    ASSUME EvidenceInv, NEW a \in Ids, NEW r \in ArtifactRecord, art' = [art EXCEPT ![a] = r],
           art[a].state # "sealed", r.state # "sealed",
           r.state = "staged" => r.received <= Size[r.digest],
           NEW rows \in SUBSET [offset : Nat, len : Nat, of : Digest],
           rows # {} => r.state = "staged",
           chunks' = [chunks EXCEPT ![a] = rows],
           doing = Idle, UNCHANGED <<hold, objects, now, config, doing, up, spoiled, left>>
    PROVE  EvidenceInv'
<1>1. /\ art \in [Ids -> ArtifactRecord] /\ hold \in [Hold -> HoldRecord]
      /\ chunks \in [Ids -> SUBSET [offset : Nat, len : Nat, of : Digest]]
  BY DEF EvidenceInv, RecordsTyped
<1>2. /\ art' \in [Ids -> ArtifactRecord] /\ art'[a] = r
      /\ \A b \in Ids : b # a => art'[b] = art[b]
  BY <1>1, OneRecord
<1>3. Roots' = Roots
  BY <1>2, RootsKept
<1>4. RecordsTyped'
  BY <1>1, <1>2 DEF EvidenceInv, RecordsTyped
<1>5. NoBytesLeftBehind'
  BY <1>1, <1>2 DEF EvidenceInv, NoBytesLeftBehind
<1>6. doing.op = "none"
  BY NewSteps
<1>7. SealUnderWay' /\ FilesTyped'
  BY <1>6 DEF EvidenceInv, SealUnderWay, FilesTyped
<1>8. OwedBytesKept'
  BY <1>3 DEF EvidenceInv, OwedBytesKept
<1>9. PurgedIsLeftover'
  <2> SUFFICES ASSUME NEW b \in Ids, art'[b].state = "sealed", art'[b].purge = "confirmed",
                      art'[b].digest \notin Roots
               PROVE  objects[art'[b].digest] = "none" \/ ~up \/ art'[b].digest \in left
    BY <1>3 DEF PurgedIsLeftover, Leftover, Sealed
  <2>1. b # a /\ art'[b] = art[b]
    BY <1>2
  <2> QED
    BY <2>1, <1>6 DEF EvidenceInv, PurgedIsLeftover, Leftover, Sealed
<1>10. HeldIsKept'
  <2> SUFFICES ASSUME NEW h \in Hold, hold[h].state = "active"
               PROVE  art'[hold[h].artifact].state = "sealed" /\ art'[hold[h].artifact].purge = "no"
    BY DEF HeldIsKept, Active, Kept, Sealed
  <2>1. hold[h].artifact \in Ids
    BY <1>1, HoldOfState
  <2>2. art[hold[h].artifact].state = "sealed" /\ art[hold[h].artifact].purge = "no"
    BY DEF EvidenceInv, HeldIsKept, Active, Kept, Sealed
  <2> QED
    BY <1>2, <2>1, <2>2
<1> QED
  BY <1>4, <1>5, <1>7, <1>8, <1>9, <1>10 DEF EvidenceInv

\* An upload that is given up, by its owner or by time.
LEMMA AbandonedStep ==
    ASSUME EvidenceInv, NEW a \in Ids, art[a].state = "staged", doing = Idle, Abandoned(a),
           chunks' = [chunks EXCEPT ![a] = {}],
           UNCHANGED <<hold, objects, now, config, doing, up, spoiled, left>>
    PROVE  EvidenceInv'
<1> DEFINE r == [state |-> "abandoned", digest |-> art[a].digest]
<1>1. art[a] \in StagedRecord
  BY RecordOfState DEF EvidenceInv, RecordsTyped
<1>2. r \in ArtifactRecord /\ r.state = "abandoned"
  BY <1>1 DEF ArtifactRecord, StagedRecord, AbandonedRecord
<1>3. art' = [art EXCEPT ![a] = r]
  BY DEF Abandoned, EvidenceInv, RecordsTyped
<1> HIDE DEF r
<1> QED
  BY <1>2, <1>3, UploadChange

\* An upload is prepared, anew or over one that ended (evidence_prepare).
LEMMA PrepareStep ==
    ASSUME "sealed" \notin Over, EvidenceInv, NEW who, NEW a \in Ids, NEW d \in Digest, Prepare(who, a, d)
    PROVE  EvidenceInv'
<1> DEFINE r == [state |-> "staged", digest |-> d, received |-> 0, at |-> now]
<1>1. now \in Nat /\ Size[d] \in Nat
  BY EvidenceAssumption DEF EvidenceInv, RecordsTyped
<1>2. r \in ArtifactRecord /\ r.state = "staged" /\ r.received <= Size[r.digest]
  BY <1>1 DEF ArtifactRecord, StagedRecord
<1>3. art' = [art EXCEPT ![a] = r] /\ art[a].state # "sealed"
  BY DEF Prepare, Free
<1>4. chunks' = [chunks EXCEPT ![a] = chunks[a]] /\ chunks[a] \in SUBSET [offset : Nat, len : Nat, of : Digest]
  BY DEF Prepare, EvidenceInv, RecordsTyped
<1> HIDE DEF r
<1> QED
  BY <1>2, <1>3, <1>4, UploadChange DEF Prepare, Serving

\* A chunk is written behind what was received (evidence_append).
LEMMA AppendStep ==
    ASSUME EvidenceInv, NEW who, NEW a \in Ids, NEW of \in Digest, NEW offset \in Nat,
           NEW len \in 0..MaxChunk, AppendChunk(who, a, of, offset, len)
    PROVE  EvidenceInv'
<1> DEFINE r == [art[a] EXCEPT !.received = art[a].received + len]
           row == [offset |-> offset, len |-> len, of |-> of]
           rows == chunks[a] \cup {row}
<1>1. art[a] \in StagedRecord /\ len \in Nat
  BY EvidenceAssumption, RecordOfState DEF EvidenceInv, RecordsTyped, AppendChunk
<1>2. /\ r \in StagedRecord /\ r.state = "staged" /\ r.digest = art[a].digest
      /\ r.received = art[a].received + len
  BY <1>1 DEF StagedRecord
<1>3. r.received <= Size[r.digest]
  BY <1>2 DEF AppendChunk
<1>4. art' = [art EXCEPT ![a] = r]
  BY DEF AppendChunk, EvidenceInv, RecordsTyped
<1>5. row \in [offset : Nat, len : Nat, of : Digest]
  BY <1>1
<1>6. /\ chunks' = [chunks EXCEPT ![a] = rows]
      /\ rows \in SUBSET [offset : Nat, len : Nat, of : Digest]
  BY <1>5 DEF AppendChunk, EvidenceInv, RecordsTyped
<1>7. r \in ArtifactRecord /\ art[a].state # "sealed"
  BY <1>2 DEF ArtifactRecord, AppendChunk
<1>8. doing = Idle /\ UNCHANGED <<hold, objects, now, config, doing, up, spoiled, left>>
  BY DEF AppendChunk, Serving
<1> HIDE DEF r, rows
<1> QED
  BY <1>2, <1>3, <1>4, <1>6, <1>7, <1>8, UploadChange

-----------------------------------------------------------------------------
(* Steps of a seal.                                                        *)

\* What is sealed is a row: of an upload, or of a pass.
LEMMA RowsSealed ==
    /\ \A a \in Ids, d \in Digest : [artifact |-> a, digest |-> d, under |-> {}] \in Rows
    /\ TickRow \subseteq Rows
BY TickRowAssumption DEF Rows, Unders

\* The object is used as it is, or made room for.
LEMMA BeginSealStep ==
    ASSUME EvidenceInv, NEW row \in Rows, art[row.artifact].state \in {"none", "staged"},
           doing = Idle, up, BeginSeal(row),
           UNCHANGED <<art, hold, chunks, now, config, up, spoiled, left>>
    PROVE  EvidenceInv'
<1> DEFINE d == row.digest
<1>1. /\ d \in Digest /\ doing.op = "none"
      /\ objects \in [Digest -> {"none", "good", "bad"}]
  BY NewSteps DEF EvidenceInv, FilesTyped, Rows
<1>3. Roots' = Roots
  BY DEF Roots, Root, Sealed
<1>4. RecordsTyped' /\ NoBytesLeftBehind' /\ HeldIsKept'
  BY DEF EvidenceInv, RecordsTyped, NoBytesLeftBehind, HeldIsKept, Active, Kept, Sealed
<1>5. /\ \/ objects[d] = "good" /\ objects' = objects /\ doing' = [op |-> "seal", row |-> row]
         \/ /\ objects[d] # "good" /\ objects' = [objects EXCEPT ![d] = "none"]
            /\ doing' = [op |-> "publish", row |-> row]
  BY DEF BeginSeal
<1>6. doing'.op \in {"seal", "publish"} /\ doing'.row = row /\ doing' \in Steps
  <2>1. CASE doing' = [op |-> "seal", row |-> row]
    BY <2>1, NewSteps
  <2>2. CASE doing' = [op |-> "publish", row |-> row]
    BY <2>2, NewSteps
  <2> QED
    BY <1>5, <2>1, <2>2
<1>7. /\ objects' \in [Digest -> {"none", "good", "bad"}]
      /\ \A e \in Digest : e # d => objects'[e] = objects[e]
      /\ objects'[d] = IF objects[d] = "good" THEN "good" ELSE "none"
  BY <1>1, <1>5
<1>8. FilesTyped'
  BY <1>6, <1>7 DEF FilesTyped
<1>9. SealUnderWay'
  BY <1>5, <1>6, <1>7 DEF SealUnderWay
<1>10. OwedBytesKept'
  <2> SUFFICES ASSUME NEW e \in Roots, e \notin spoiled PROVE objects'[e] = "good"
    BY <1>3 DEF OwedBytesKept
  <2>1. objects[e] = "good"
    BY DEF EvidenceInv, OwedBytesKept
  <2>2. e \in Digest
    BY RootsMember, RecordOfState DEF EvidenceInv, RecordsTyped, Sealed, SealedRecord
  <2> QED
    BY <1>7, <2>1, <2>2
<1>11. PurgedIsLeftover'
  <2> SUFFICES ASSUME NEW b \in Ids, art[b].state = "sealed", art[b].purge = "confirmed",
                      art[b].digest \notin Roots
               PROVE  objects'[art[b].digest] = "none" \/ d = art[b].digest \/ art[b].digest \in left
    BY <1>3, <1>6 DEF PurgedIsLeftover, Leftover, Sealed
  <2>1. objects[art[b].digest] = "none" \/ art[b].digest \in left
    BY <1>1 DEF EvidenceInv, PurgedIsLeftover, Leftover, Sealed
  <2>2. art[b].digest \in Digest
    BY RecordOfState DEF EvidenceInv, RecordsTyped, SealedRecord
  <2> QED
    BY <1>7, <2>1, <2>2
<1> QED
  BY <1>4, <1>8, <1>9, <1>10, <1>11 DEF EvidenceInv

\* An upload that is whole is sealed (evidence_seal).
LEMMA SealStep ==
    ASSUME EvidenceInv, NEW who, NEW a \in Ids, Seal(who, a)
    PROVE  EvidenceInv'
<1>1. art[a] \in StagedRecord /\ art[a].state = "staged"
  BY RecordOfState DEF EvidenceInv, RecordsTyped, Seal
<1>2. art[a].digest \in Digest
  BY <1>1 DEF StagedRecord
<1>3. PICK row \in Rows : row = [artifact |-> a, digest |-> art[a].digest, under |-> {}]
  BY <1>2, RowsSealed
<1>4. BeginSeal(row) /\ row.artifact = a
  BY <1>3 DEF Seal
<1> QED
  BY <1>1, <1>4, BeginSealStep DEF Seal, Serving

\* A pass seals what a job leaves, under an id nothing has (seal_derivation).
LEMMA SealRowStep ==
    ASSUME EvidenceInv, NEW t \in TickRow, SealRow(t)
    PROVE  EvidenceInv'
<1>1. t \in Rows
  BY RowsSealed
<1> QED
  BY <1>1, BeginSealStep DEF SealRow

\* A staged file that verified is renamed into place.
LEMMA PublishStep ==
    ASSUME EvidenceInv, Publish
    PROVE  EvidenceInv'
<1>1. PICK row \in Rows : row = doing.row
  BY StepOfOp DEF EvidenceInv, FilesTyped, Publish
<1> DEFINE d == row.digest
<1>2. /\ d \in Digest /\ up /\ objects \in [Digest -> {"none", "good", "bad"}] /\ doing.op = "publish"
      /\ art[row.artifact].state \in {"none", "staged"}
  BY <1>1 DEF EvidenceInv, FilesTyped, SealUnderWay, Publish, Rows
<1>3. /\ UNCHANGED <<art, hold, chunks, now, config, up, left>> /\ spoiled' = spoiled \ {d}
      /\ objects' = [objects EXCEPT ![d] = "good"] /\ doing' = [op |-> "seal", row |-> row]
  BY <1>1 DEF Publish
<1>4. Roots' = Roots
  BY <1>3 DEF Roots, Root, Sealed
<1>5. RecordsTyped' /\ NoBytesLeftBehind' /\ HeldIsKept'
  BY <1>3 DEF EvidenceInv, RecordsTyped, NoBytesLeftBehind, HeldIsKept, Active, Kept, Sealed
<1>6. doing'.op = "seal" /\ doing'.row = row /\ doing' \in Steps
  BY <1>3, NewSteps
<1>7. /\ objects' \in [Digest -> {"none", "good", "bad"}] /\ objects'[d] = "good"
      /\ \A e \in Digest : e # d => objects'[e] = objects[e]
  BY <1>2, <1>3
<1>8. FilesTyped'
  BY <1>6, <1>7 DEF FilesTyped
<1>9. SealUnderWay'
  BY <1>2, <1>3, <1>6, <1>7 DEF SealUnderWay
<1>10. OwedBytesKept'
  <2> SUFFICES ASSUME NEW e \in Roots, e \notin spoiled' PROVE objects'[e] = "good"
    BY <1>4 DEF OwedBytesKept
  <2>1. e \in Digest
    BY RootsMember, RecordOfState DEF EvidenceInv, RecordsTyped, Sealed, SealedRecord
  <2>2. e = d \/ objects[e] = "good"
    BY <1>3 DEF EvidenceInv, OwedBytesKept
  <2> QED
    BY <1>7, <2>1, <2>2
<1>11. PurgedIsLeftover'
  <2> SUFFICES ASSUME NEW b \in Ids, art[b].state = "sealed", art[b].purge = "confirmed",
                      art[b].digest \notin Roots
               PROVE  objects'[art[b].digest] = "none" \/ d = art[b].digest \/ art[b].digest \in left
    BY <1>3, <1>4, <1>6 DEF PurgedIsLeftover, Leftover, Sealed
  <2>1. objects[art[b].digest] = "none" \/ d = art[b].digest \/ art[b].digest \in left
    BY <1>1, <1>2 DEF EvidenceInv, PurgedIsLeftover, Leftover, Sealed
  <2>2. art[b].digest \in Digest
    BY RecordOfState DEF EvidenceInv, RecordsTyped, SealedRecord
  <2> QED
    BY <1>7, <2>1, <2>2
<1> QED
  BY <1>5, <1>8, <1>9, <1>10, <1>11 DEF EvidenceInv

\* The row that names the object is written when the object is there.
LEMMA CommitSealStep ==
    ASSUME EvidenceInv, CommitSeal
    PROVE  EvidenceInv'
<1>0. PICK row \in Rows : row = doing.row
  BY StepOfOp DEF EvidenceInv, FilesTyped, CommitSeal
<1> DEFINE a == row.artifact
           d == row.digest
           r == [state |-> "sealed", digest |-> d, purge |-> "no", due |-> 0, under |-> row.under]
<1>1. /\ a \in Ids /\ art[a].state \in {"none", "staged"} /\ d \in Digest /\ up
      /\ doing.op = "seal" /\ (objects[d] = "good" \/ d \in spoiled)
  BY <1>0 DEF EvidenceInv, FilesTyped, SealUnderWay, CommitSeal, Rows
<1>2. /\ UNCHANGED <<hold, objects, now, config, up, spoiled>> /\ doing' = Idle
      /\ art' = [art EXCEPT ![a] = r] /\ chunks' = [chunks EXCEPT ![a] = {}] /\ left' = left \ {d}
  BY <1>0 DEF CommitSeal
<1>3. /\ r \in ArtifactRecord /\ r.state = "sealed" /\ r.digest = d /\ r.purge = "no"
  BY <1>1 DEF ArtifactRecord, SealedRecord, Rows
<1>4. art \in [Ids -> ArtifactRecord] /\ doing'.op = "none"
  BY <1>2, NewSteps DEF EvidenceInv, RecordsTyped
<1>01. \A e : doing.op \in {"publish", "seal"} /\ doing.row.digest = e => e = d
  BY <1>0
<1> HIDE DEF a, d, r
<1>5. /\ art' \in [Ids -> ArtifactRecord] /\ art'[a] = r
      /\ \A b \in Ids : b # a => art'[b] = art[b]
  BY <1>1, <1>2, <1>3, <1>4, OneRecord
<1>6. \A e : e \in Roots' <=> e \in Roots \/ e = d
  <2> SUFFICES ASSUME NEW e PROVE e \in Roots' <=> e \in Roots \/ e = d
    OBVIOUS
  <2> QED
    BY <1>1, <1>3, <1>5, RootsMember, RootsMemberNext DEF Sealed
<1>7. RecordsTyped'
  BY <1>1, <1>2, <1>3, <1>5 DEF EvidenceInv, RecordsTyped
<1>8. NoBytesLeftBehind'
  BY <1>1, <1>2, <1>5 DEF EvidenceInv, NoBytesLeftBehind, RecordsTyped
<1>9. FilesTyped' /\ SealUnderWay'
  BY <1>1, <1>2, <1>4, NewSteps DEF EvidenceInv, FilesTyped, SealUnderWay
<1>10. OwedBytesKept'
  BY <1>1, <1>2, <1>6 DEF EvidenceInv, OwedBytesKept
<1>11. PurgedIsLeftover'
  <2> SUFFICES ASSUME NEW b \in Ids, art'[b].state = "sealed", art'[b].purge = "confirmed",
                      art'[b].digest \notin Roots'
               PROVE  objects[art'[b].digest] = "none" \/ art'[b].digest \in left'
    BY <1>2 DEF PurgedIsLeftover, Leftover, Sealed
  <2>1. b # a /\ art'[b] = art[b] /\ art[b].digest \notin Roots /\ art[b].digest # d
    BY <1>3, <1>5, <1>6
  <2> QED
    BY <1>01, <1>1, <1>2, <2>1 DEF EvidenceInv, PurgedIsLeftover, Leftover, Sealed
<1>12. HeldIsKept'
  <2> SUFFICES ASSUME NEW h \in Hold, hold[h].state = "active"
               PROVE  art'[hold[h].artifact].state = "sealed" /\ art'[hold[h].artifact].purge = "no"
    BY <1>2 DEF HeldIsKept, Active, Kept, Sealed
  <2>1. hold[h].artifact \in Ids
    BY HoldOfState DEF EvidenceInv, RecordsTyped
  <2>2. art[hold[h].artifact].state = "sealed" /\ art[hold[h].artifact].purge = "no"
    BY DEF EvidenceInv, HeldIsKept, Active, Kept, Sealed
  <2> QED
    BY <1>1, <1>5, <2>1, <2>2
<1> QED
  BY <1>7, <1>8, <1>9, <1>10, <1>11, <1>12 DEF EvidenceInv

\* A row that is refused leaves its object to the next start.
LEMMA RefuseSealStep ==
    ASSUME EvidenceInv, RefuseSeal
    PROVE  EvidenceInv'
<1>1. /\ UNCHANGED <<art, hold, chunks, objects, now, config, up, spoiled>> /\ doing.op = "seal"
      /\ doing' = Idle /\ left' = left \cup {doing.row.digest} /\ doing' \in Steps /\ doing'.op = "none"
  BY NewSteps DEF RefuseSeal
<1>2. Roots' = Roots
  BY <1>1 DEF Roots, Root, Sealed
<1>3. RecordsTyped' /\ NoBytesLeftBehind' /\ HeldIsKept' /\ FilesTyped' /\ SealUnderWay' /\ OwedBytesKept'
  BY <1>1, <1>2 DEF EvidenceInv, RecordsTyped, NoBytesLeftBehind, HeldIsKept, FilesTyped, SealUnderWay,
     OwedBytesKept, Active, Kept, Sealed
<1>4. PurgedIsLeftover'
  BY <1>1, <1>2 DEF EvidenceInv, PurgedIsLeftover, Leftover, Sealed
<1> QED
  BY <1>3, <1>4 DEF EvidenceInv

-----------------------------------------------------------------------------
(* Steps of a purge.                                                       *)

\* A purge that is written down, confirmed with the step that deletes the
\* object or pending, while no active hold is left on the artifact.
LEMMA PurgeChange ==
    ASSUME EvidenceInv, NEW a \in Ids, NEW r \in SealedRecord, art[a].state = "sealed",
           r.digest = art[a].digest, art' = [art EXCEPT ![a] = r], doing.op = "none", up,
           \/ r.purge = "confirmed" /\ doing' = [op |-> "delete", digest |-> r.digest]
           \/ r.purge = "pending" /\ art[a].purge # "confirmed" /\ doing' = Idle,
           hold' \in [Hold -> HoldRecord],
           \A h \in Hold : hold'[h].state = "active" => Kept(hold'[h].artifact) /\ hold'[h].artifact # a,
           UNCHANGED <<chunks, objects, now, config, up, spoiled, left>>
    PROVE  EvidenceInv'
<1>1. art \in [Ids -> ArtifactRecord] /\ r \in ArtifactRecord /\ r.state = "sealed" /\ r.digest \in Digest
  BY DEF EvidenceInv, RecordsTyped, ArtifactRecord, SealedRecord
<1>2. /\ art' \in [Ids -> ArtifactRecord] /\ art'[a] = r
      /\ \A b \in Ids : b # a => art'[b] = art[b]
  BY <1>1, OneRecord
<1>3. doing' \in Steps /\ doing'.op \in {"delete", "none"}
  BY <1>1, NewSteps
<1>4. \A e : e \in Roots' => e \in Roots
  BY <1>1, <1>2, RootsMember, RootsMemberNext DEF Sealed
<1>5. \A e : e # r.digest /\ e \in Roots => e \in Roots'
  BY <1>1, <1>2, RootsMember, RootsMemberNext DEF Sealed
<1>6. r.purge = "pending" => r.digest \in Roots'
  BY <1>1, <1>2, RootsMemberNext
<1>7. RecordsTyped'
  BY <1>1, <1>2 DEF EvidenceInv, RecordsTyped
<1>8. NoBytesLeftBehind'
  BY <1>1, <1>2 DEF EvidenceInv, NoBytesLeftBehind
<1>9. FilesTyped' /\ SealUnderWay'
  BY <1>3 DEF EvidenceInv, FilesTyped, SealUnderWay
<1>10. OwedBytesKept'
  BY <1>4 DEF EvidenceInv, OwedBytesKept
<1>11. PurgedIsLeftover'
  <2> SUFFICES ASSUME NEW b \in Ids, art'[b].state = "sealed", art'[b].purge = "confirmed",
                      art'[b].digest \notin Roots'
               PROVE  objects[art'[b].digest] = "none" \/ art'[b].digest \in left
                      \/ (doing'.op = "delete" /\ doing'.digest = art'[b].digest)
    BY DEF PurgedIsLeftover, Leftover, Sealed
  <2>1. CASE art'[b].digest = r.digest
    <3>1. r.purge = "confirmed"
      BY <1>6, <2>1 DEF SealedRecord
    <3> QED
      BY <2>1, <3>1
  <2>2. CASE art'[b].digest # r.digest
    <3>1. b # a /\ art'[b] = art[b] /\ art[b].digest \notin Roots
      BY <1>2, <1>5, <2>2
    <3> QED
      BY <3>1 DEF EvidenceInv, PurgedIsLeftover, Leftover, Sealed
  <2> QED
    BY <2>1, <2>2
<1>12. HeldIsKept'
  <2> SUFFICES ASSUME NEW h \in Hold, hold'[h].state = "active"
               PROVE  art'[hold'[h].artifact].state = "sealed" /\ art'[hold'[h].artifact].purge = "no"
    BY DEF HeldIsKept, Active, Kept, Sealed
  <2>1. hold'[h].artifact \in Ids /\ hold'[h].artifact # a
    BY HoldOfState
  <2> QED
    BY <1>2, <2>1 DEF Kept, Sealed
<1> QED
  BY <1>7, <1>8, <1>9, <1>10, <1>11, <1>12 DEF EvidenceInv

\* A purge whose time has come is confirmed (tick_evidence).
LEMMA ConfirmPurgeStep ==
    ASSUME EvidenceInv, NEW a \in Ids, ConfirmPurge(a)
    PROVE  EvidenceInv'
<1> DEFINE r == [art[a] EXCEPT !.purge = "confirmed"]
<1>1. art[a] \in SealedRecord /\ art[a].state = "sealed" /\ art[a].purge = "pending" /\ doing.op = "none" /\ up
  BY RecordOfState, NewSteps DEF EvidenceInv, RecordsTyped, ConfirmPurge, PurgeDue, Sealed
<1>2. r \in SealedRecord /\ r.digest = art[a].digest /\ r.purge = "confirmed"
  BY <1>1 DEF SealedRecord
<1>3. /\ art' = [art EXCEPT ![a] = r] /\ doing' = [op |-> "delete", digest |-> r.digest]
      /\ UNCHANGED <<hold, chunks, objects, now, config, up, spoiled, left>>
  BY <1>2 DEF ConfirmPurge, EvidenceInv, RecordsTyped
<1> HIDE DEF r
<1>4. /\ hold' \in [Hold -> HoldRecord]
      /\ \A h \in Hold : hold'[h].state = "active" => Kept(hold'[h].artifact) /\ hold'[h].artifact # a
  BY <1>1, <1>3 DEF EvidenceInv, RecordsTyped, HeldIsKept, Active, Kept
<1> QED
  BY <1>1, <1>2, <1>3, <1>4, PurgeChange

\* A purge is accepted for an artifact that nothing else holds (evidence_purge).
LEMMA PurgeStep ==
    ASSUME EvidenceInv, NEW who, NEW a \in Ids, NEW named \in SUBSET Hold, Purge(who, a, named)
    PROVE  EvidenceInv'
<1> DEFINE to == IF config.delay = 0 THEN "confirmed" ELSE "pending"
           r == [art[a] EXCEPT !.purge = to, !.due = now + config.delay]
<1>1. /\ art[a] \in SealedRecord /\ art[a].state = "sealed" /\ art[a].purge = "no" /\ doing.op = "none" /\ up
      /\ now \in Nat /\ config.delay \in Nat
  BY EvidenceAssumption, RecordOfState, NewSteps DEF EvidenceInv, RecordsTyped, Purge, Kept, Sealed, Serving
<1>2. to \in {"no", "pending", "confirmed"} /\ now + config.delay \in Nat
  BY <1>1
<1>3. art' = [art EXCEPT ![a] = r] /\ doing' = IF config.delay = 0 THEN [op |-> "delete", digest |-> art[a].digest] ELSE Idle
  BY DEF Purge, EvidenceInv, RecordsTyped
<1>4. to = IF config.delay = 0 THEN "confirmed" ELSE "pending"
  OBVIOUS
<1> HIDE DEF to
<1>5. r \in SealedRecord /\ r.digest = art[a].digest /\ r.purge = to
  BY <1>1, <1>2 DEF SealedRecord
<1> HIDE DEF r
<1>6. UNCHANGED <<chunks, objects, now, config, up, spoiled, left>>
  BY DEF Purge
<1>7. ASSUME NEW h \in Hold
      PROVE  /\ hold'[h] \in HoldRecord
             /\ hold'[h].state = "active" => hold'[h] = hold[h] /\ h \notin named
  <2>1. hold'[h] = IF h \in named THEN [hold[h] EXCEPT !.state = "released"] ELSE hold[h]
    BY DEF Purge
  <2>2. hold[h] \in HoldRecord
    BY DEF EvidenceInv, RecordsTyped
  <2>3. CASE h \in named
    <3>1. hold[h].state # "none"
      BY <2>3 DEF Purge, HoldsOn
    <3> DEFINE q == [hold[h] EXCEPT !.state = "released"]
    <3>2. q \in HoldRecord /\ q.state = "released"
      BY <2>2, <3>1, HoldOfState DEF HoldRecord
    <3> QED
      BY <2>1, <2>3, <3>2
  <2>4. CASE h \notin named
    BY <2>1, <2>2, <2>4
  <2> QED
    BY <2>3, <2>4
<1>8. hold' \in [Hold -> HoldRecord]
  <2>1. DOMAIN hold' = Hold /\ hold' = [h \in Hold |-> hold'[h]]
    BY DEF Purge
  <2> QED
    BY <1>7, <2>1
<1>9. \A h \in Hold : hold'[h].state = "active" => Kept(hold'[h].artifact) /\ hold'[h].artifact # a
  <2> SUFFICES ASSUME NEW h \in Hold, hold'[h].state = "active"
               PROVE  Kept(hold'[h].artifact) /\ hold'[h].artifact # a
    OBVIOUS
  <2>1. hold'[h] = hold[h] /\ hold[h].state = "active" /\ h \notin named
    BY <1>7
  <2>2. h \notin HoldsOn(a)
    BY <2>1 DEF Purge, Active
  <2> QED
    BY <2>1, <2>2 DEF EvidenceInv, HeldIsKept, Active, HoldsOn
<1> QED
  BY <1>1, <1>3, <1>4, <1>5, <1>6, <1>8, <1>9, PurgeChange

\* The object goes only when no record names it.
LEMMA DeleteStep ==
    ASSUME EvidenceInv, DeleteIfUnreferenced
    PROVE  EvidenceInv'
<1> DEFINE d == doing.digest
<1>1. /\ d \in Digest /\ doing.op = "delete" /\ up /\ doing' = Idle /\ doing'.op = "none"
      /\ objects \in [Digest -> {"none", "good", "bad"}]
  BY StepOfOp, NewSteps DEF EvidenceInv, FilesTyped, DeleteIfUnreferenced
<1>2. UNCHANGED <<art, hold, chunks, now, config, up, spoiled>> /\ left' = left \ {d}
  BY DEF DeleteIfUnreferenced
<1>3. Roots' = Roots
  BY <1>2 DEF Roots, Root, Sealed
<1>4. RecordsTyped' /\ NoBytesLeftBehind' /\ HeldIsKept'
  BY <1>2 DEF EvidenceInv, RecordsTyped, NoBytesLeftBehind, HeldIsKept, Active, Kept, Sealed
<1>5. objects' = IF d \in Roots THEN objects ELSE [objects EXCEPT ![d] = "none"]
  BY DEF DeleteIfUnreferenced
<1>6. /\ objects' \in [Digest -> {"none", "good", "bad"}]
      /\ d \notin Roots => objects'[d] = "none"
      /\ \A e \in Digest : e # d \/ e \in Roots => objects'[e] = objects[e]
  BY <1>1, <1>5
<1>7. FilesTyped' /\ SealUnderWay'
  BY <1>1, <1>2, <1>6, NewSteps DEF FilesTyped, SealUnderWay
<1>8. \A b \in Ids : art[b].state = "sealed" => art[b].digest \in Digest
  BY RecordOfState DEF EvidenceInv, RecordsTyped, SealedRecord
<1>9. OwedBytesKept'
  BY <1>2, <1>3, <1>6, <1>8, RootsMember DEF EvidenceInv, OwedBytesKept, Sealed
<1>10. PurgedIsLeftover'
  <2> SUFFICES ASSUME NEW b \in Ids, art[b].state = "sealed", art[b].purge = "confirmed",
                      art[b].digest \notin Roots
               PROVE  objects'[art[b].digest] = "none" \/ art[b].digest \in left'
    BY <1>2, <1>3 DEF PurgedIsLeftover, Leftover, Sealed
  <2>1. objects[art[b].digest] = "none" \/ d = art[b].digest \/ art[b].digest \in left'
    BY <1>1, <1>2 DEF EvidenceInv, PurgedIsLeftover, Leftover, Sealed
  <2> QED
    BY <1>6, <1>8, <2>1
<1> QED
  BY <1>4, <1>7, <1>9, <1>10 DEF EvidenceInv

-----------------------------------------------------------------------------
(* The surroundings.                                                       *)

\* An object that no one may count on changes.
LEMMA ObjectChange ==
    ASSUME EvidenceInv, NEW d \in Digest, NEW o \in {"none", "good", "bad"},
           objects' = [objects EXCEPT ![d] = o],
           \/ o = "none" /\ ~up /\ d \notin Roots /\ spoiled' = spoiled
           \/ objects[d] = "good" /\ spoiled' = spoiled \cup {d},
           UNCHANGED <<art, hold, chunks, now, config, doing, up, left>>
    PROVE  EvidenceInv'
<1>1. /\ objects' \in [Digest -> {"none", "good", "bad"}]
      /\ \A e \in Digest : e # d => objects'[e] = objects[e]
      /\ objects'[d] = o
  BY DEF EvidenceInv, FilesTyped
<1>2. Roots' = Roots
  BY DEF Roots, Root, Sealed
<1>3. RecordsTyped' /\ NoBytesLeftBehind' /\ HeldIsKept' /\ FilesTyped'
  BY <1>1 DEF EvidenceInv, RecordsTyped, NoBytesLeftBehind, HeldIsKept, FilesTyped, Active, Kept, Sealed
<1>4. doing.op = "seal" => doing.row.digest \in Digest /\ up
  BY StepOfOp, NewSteps DEF EvidenceInv, FilesTyped, SealUnderWay, Rows
<1>5. SealUnderWay'
  BY <1>1, <1>4 DEF EvidenceInv, SealUnderWay
<1>6. \A b \in Ids : art[b].state = "sealed" => art[b].digest \in Digest
  BY RecordOfState DEF EvidenceInv, RecordsTyped, SealedRecord
<1>7. OwedBytesKept'
  BY <1>1, <1>2, <1>6, RootsMember DEF EvidenceInv, OwedBytesKept, Sealed
<1>8. PurgedIsLeftover'
  BY <1>1, <1>2, <1>6 DEF EvidenceInv, PurgedIsLeftover, Leftover, Sealed
<1> QED
  BY <1>3, <1>5, <1>7, <1>8 DEF EvidenceInv

\* A process that is killed has nothing under way, and keeps what it wrote.
LEMMA CrashStep ==
    ASSUME EvidenceInv, Crash
    PROVE  EvidenceInv'
<1>1. /\ up' = FALSE /\ doing' = Idle /\ doing'.op = "none" /\ doing' \in Steps
      /\ UNCHANGED <<art, hold, chunks, objects, now, config, spoiled, left>>
  BY NewSteps DEF Crash
<1>2. RecordsTyped' /\ NoBytesLeftBehind' /\ HeldIsKept' /\ FilesTyped'
  BY <1>1 DEF EvidenceInv, RecordsTyped, NoBytesLeftBehind, HeldIsKept, FilesTyped, Active, Kept, Sealed
<1>3. SealUnderWay' /\ PurgedIsLeftover'
  BY <1>1 DEF SealUnderWay, PurgedIsLeftover, Leftover
<1>4. OwedBytesKept'
  BY <1>1 DEF EvidenceInv, OwedBytesKept, Roots, Root, Sealed
<1> QED
  BY <1>2, <1>3, <1>4 DEF EvidenceInv

\* A start serves once nothing is left that no record names.
LEMMA StartStep ==
    ASSUME EvidenceInv, NEW c \in Config, Start(c)
    PROVE  EvidenceInv'
<1>1. /\ config' = c /\ UNCHANGED <<art, hold, chunks, objects, now, doing, spoiled>> /\ doing = Idle
      /\ up' /\ ~up /\ doing.op = "none"
  BY NewSteps DEF EvidenceInv, SealUnderWay, Start
<1>2. RecordsTyped' /\ NoBytesLeftBehind' /\ HeldIsKept' /\ FilesTyped'
  BY <1>1 DEF EvidenceInv, RecordsTyped, NoBytesLeftBehind, HeldIsKept, FilesTyped, Active, Kept, Sealed
<1>3. Roots' = Roots
  BY <1>1 DEF Roots, Root, Sealed
<1>4. SealUnderWay' /\ OwedBytesKept'
  BY <1>1, <1>3 DEF EvidenceInv, SealUnderWay, OwedBytesKept
<1>5. PurgedIsLeftover'
  <2> SUFFICES ASSUME NEW b \in Ids, art[b].state = "sealed", art[b].digest \notin Roots
               PROVE  objects[art[b].digest] = "none"
    BY <1>1, <1>3 DEF PurgedIsLeftover, Sealed
  <2>1. art[b].digest \in Digest
    BY RecordOfState DEF EvidenceInv, RecordsTyped, SealedRecord
  <2> QED
    BY <2>1 DEF Start, Garbage
<1> QED
  BY <1>2, <1>4, <1>5 DEF EvidenceInv

-----------------------------------------------------------------------------
(* The invariant.                                                          *)

\* An empty store satisfies the invariant.
LEMMA EvidenceInit == Init => EvidenceInv
<1> SUFFICES ASSUME Init PROVE EvidenceInv
  OBVIOUS
<1>1. NoArtifact \in ArtifactRecord /\ NoArtifact.state = "none" /\ NoHold \in HoldRecord /\ NoHold.state = "none"
  BY DEF ArtifactRecord, HoldRecord, NoArtifact, NoHold
<1>2. RecordsTyped
  BY <1>1 DEF Init, RecordsTyped
<1>3. FilesTyped /\ SealUnderWay
  BY NewSteps DEF Init, FilesTyped, SealUnderWay
<1>4. NoBytesLeftBehind /\ HeldIsKept /\ PurgedIsLeftover
  BY <1>1 DEF Init, NoBytesLeftBehind, HeldIsKept, Active, PurgedIsLeftover, Sealed
<1>5. OwedBytesKept
  BY <1>1 DEF Init, OwedBytesKept, Roots, Root, Sealed
<1> QED
  BY <1>2, <1>3, <1>4, <1>5 DEF EvidenceInv

\* No step breaks it, as long as no caller names a sealed artifact anew.
LEMMA EvidenceStep == "sealed" \notin Over /\ EvidenceInv /\ [Next]_vars => EvidenceInv'
<1> SUFFICES ASSUME "sealed" \notin Over, EvidenceInv, [Next]_vars PROVE EvidenceInv'
  OBVIOUS
<1>1. CASE Tick
  <2>1. ASSUME NEW a \in Ids, ExpireStaging(a) PROVE EvidenceInv'
    BY <2>1, AbandonedStep DEF ExpireStaging, StagingDue
  <2>2. CASE BeginTick \/ EndTick
    BY <2>2, NothingKept DEF BeginTick, EndTick, EvidenceInv, RecordsTyped
  <2> QED
    BY <1>1, <2>1, <2>2, ConfirmPurgeStep, ExpireHoldStep, SealRowStep DEF Tick
<1>2. CASE Finish \/ RefuseSeal
  BY <1>2, PublishStep, CommitSealStep, DeleteStep, RefuseSealStep DEF Finish
<1>3. ASSUME NEW who \in Principal, Request(who) PROVE EvidenceInv'
  <2>1. ASSUME NEW a \in Ids, Abandon(who, a) PROVE EvidenceInv'
    BY <2>1, AbandonedStep DEF Abandon, Serving
  <2>2. ASSUME List(who) PROVE EvidenceInv'
    BY <2>2, NothingKept DEF List, EvidenceInv, RecordsTyped
  <2> QED
    BY <1>3, <2>1, <2>2, PrepareStep, AppendStep, SealStep, PurgeStep, PlaceHoldStep, ReleaseStep
    DEF Request
<1>4. CASE Advance
  <2>1. now' \in Nat
    BY <1>4 DEF Advance, EvidenceInv, RecordsTyped
  <2> QED
    BY <1>4, <2>1, NothingKept DEF Advance
<1>5. ASSUME NEW d \in Digest, Spoil(d) PROVE EvidenceInv'
  BY <1>5, ObjectChange DEF Spoil
<1>6. ASSUME NEW d \in Digest, Collect(d) PROVE EvidenceInv'
  <2>1. CASE UNCHANGED objects
    BY <1>6, <2>1, NothingKept DEF Collect, EvidenceInv, RecordsTyped
  <2>2. CASE d \in Garbage /\ objects' = [objects EXCEPT ![d] = "none"]
    BY <1>6, <2>2, ObjectChange DEF Collect, Garbage
  <2> QED
    BY <1>6, <2>1, <2>2 DEF Collect
<1>7. CASE Subscribe \/ Close \/ UNCHANGED vars
  BY <1>7, NothingKept DEF Subscribe, Close, vars, EvidenceInv, RecordsTyped
<1> QED
  BY <1>1, <1>2, <1>3, <1>4, <1>5, <1>6, <1>7, CrashStep, StartStep DEF Next

\* What the invariant is for: bytes are there for every record that needs them.
LEMMA EvidenceImplies == EvidenceInv => BytesFollowRecords
<1> SUFFICES ASSUME EvidenceInv PROVE BytesFollowRecords
  OBVIOUS
<1>1. TypeOK
  <2>1. ASSUME NEW a \in Ids
        PROVE  /\ art[a].state \in {"none", "staged", "sealed", "abandoned"}
               /\ art[a].state = "staged" => art[a].received \in 0..Size[art[a].digest]
               /\ Sealed(a) => art[a].purge \in {"no", "pending", "confirmed"}
    <3>1. art[a] \in ArtifactRecord
      BY DEF EvidenceInv, RecordsTyped
    <3>2. art[a].state = "staged" =>
            art[a].received \in Nat /\ Size[art[a].digest] \in Nat /\ art[a].received <= Size[art[a].digest]
      BY <3>1, RecordOfState, EvidenceAssumption DEF EvidenceInv, RecordsTyped, StagedRecord
    <3>3. Sealed(a) => art[a].purge \in {"no", "pending", "confirmed"}
      BY <3>1, RecordOfState DEF Sealed, SealedRecord
    <3> QED
      BY <3>1, <3>2, <3>3, RecordOfState
  <2>2. \A h \in Hold : hold[h].state \in {"none", "active", "released", "expired"}
    BY HoldOfState DEF EvidenceInv, RecordsTyped
  <2>3. doing.op \in {"none", "publish", "seal", "delete"}
    BY StepOfOp DEF EvidenceInv, FilesTyped
  <2> QED
    BY <2>1, <2>2, <2>3 DEF TypeOK, EvidenceInv, FilesTyped
<1>2. PurgedIsGone
  BY NewSteps DEF EvidenceInv, PurgedIsLeftover, Leftover, PurgedIsGone, Serving
<1> QED
  BY <1>1, <1>2 DEF EvidenceInv, BytesFollowRecords

\* evidence_seal, delete_if_unreferenced, collect_unreferenced_objects: an
\* object is there for as long as a sealed artifact owes it and gone before
\* anyone is served once a purge is confirmed and nobody else names it, for
\* any artifacts, holds and principals, wherever the process is killed.
THEOREM BytesAreKept == "sealed" \notin Over => (Spec => []BytesFollowRecords)
<1> SUFFICES ASSUME "sealed" \notin Over PROVE Spec => []BytesFollowRecords
  OBVIOUS
<1>1. EvidenceInv /\ [Next]_vars => EvidenceInv'
  BY EvidenceStep
<1> QED
  BY EvidenceInit, <1>1, EvidenceImplies, PTL DEF Spec

\* evidence_hold, evidence_purge, tick_evidence: while a hold is active, no
\* purge of what it is on is requested or confirmed, whoever asks and however
\* requests, expiries and restarts interleave.
THEOREM HoldsKeep == "sealed" \notin Over => (Spec => []HeldIsKept)
<1> SUFFICES ASSUME "sealed" \notin Over PROVE Spec => []HeldIsKept
  OBVIOUS
<1>1. EvidenceInv /\ [Next]_vars => EvidenceInv'
  BY EvidenceStep
<1>2. EvidenceInv => HeldIsKept
  BY DEF EvidenceInv
<1> QED
  BY EvidenceInit, <1>1, <1>2, PTL DEF Spec

-----------------------------------------------------------------------------
(* Verdicts on a manifest.                                                 *)

\* completeness: who is told "complete" has every required child present, and
\* who is told "incomplete" has a required child missing.
LEMMA WhatVerdictsSay ==
    ASSUME NEW who, NEW m
    PROVE  /\ Told(who, m, "complete") =>
                \A c \in Children[art[m].digest] : c.required => ChildState(who, c) = "present"
           /\ Told(who, m, "incomplete") =>
                \E c \in Children[art[m].digest] : c.required /\ ChildState(who, c) = "missing"
<1> DEFINE told == IF Sealed(m) /\ Children[art[m].digest] # {} THEN Completeness(who, m) ELSE "not_a_manifest"
<1>1. \A verdict : Told(who, m, verdict) => told = verdict
  BY DEF Told, Inspect
<1>2. Completeness(who, m) = "complete" =>
        \A c \in Children[art[m].digest] : c.required => ChildState(who, c) = "present"
  BY DEF Completeness
<1>3. Completeness(who, m) = "incomplete" =>
        \E c \in Children[art[m].digest] : c.required /\ ChildState(who, c) = "missing"
  BY DEF Completeness
<1> QED
  BY <1>1, <1>2, <1>3

\* evidence_fetch serves whatever a reader was told is present, but a derivation
\* made from what he may not read.
LEMMA PresentIsFetched ==
    ASSUME NEW who, NEW c, ChildState(who, c) = "present"
    PROVE  /\ Kept(c.artifact) /\ art[c.artifact].digest = c.digest /\ ~c.elsewhere
           /\ Fetch(who, c.artifact, c.digest, 0, MaxChunk).answer =
                  IF Covers(who, c.artifact) THEN "bytes" ELSE "denied"
<1>1. /\ Kept(c.artifact) /\ art[c.artifact].digest = c.digest /\ ~c.elsewhere
      /\ Availability(c.artifact) = "available"
  BY DEF ChildState
<1>2. Sealed(c.artifact)
  BY <1>1 DEF Kept
<1> QED
  BY <1>1, <1>2 DEF Fetch

\* completeness, evidence_fetch: a verdict on a manifest holds for everyone.  A
\* reader that is told "complete" is served every required child, but for the
\* derivations made from what he may not read, which he is denied; and no other
\* reader is told "incomplete" of it, whatever each of them may read.  It needs
\* nothing of the state but what the operators read of it.
THEOREM VerdictsAgree == Spec => []VerdictsHold
<1>1. VerdictsHold
  <2> SUFFICES ASSUME NEW m \in Ids, NEW who \in Principal, Told(who, m, "complete")
               PROVE  /\ \A c \in Children[art[m].digest] : c.required =>
                            Fetch(who, c.artifact, c.digest, 0, MaxChunk).answer =
                                IF Covers(who, c.artifact) THEN "bytes" ELSE "denied"
                      /\ \A other \in Principal : ~Told(other, m, "incomplete")
    BY DEF VerdictsHold
  <2>1. \A c \in Children[art[m].digest] : c.required => ChildState(who, c) = "present"
    BY WhatVerdictsSay
  <2>2. ASSUME NEW other \in Principal, Told(other, m, "incomplete") PROVE FALSE
    <3>1. PICK c \in Children[art[m].digest] : c.required /\ ChildState(other, c) = "missing"
      BY <2>2, WhatVerdictsSay
    <3>2. Kept(c.artifact) /\ art[c.artifact].digest = c.digest
      BY <2>1, <3>1, PresentIsFetched
    <3> QED
      BY <3>1, <3>2 DEF ChildState
  <2> QED
    BY <2>1, <2>2, PresentIsFetched
<1> QED
  BY <1>1, PTL

-----------------------------------------------------------------------------
(* Greatest elements.                                                      *)

\* A nonempty set of naturals has a smallest element.
LEMMA SmallestOf ==
    ASSUME NEW S \in SUBSET Nat, S # {}
    PROVE  \E x \in S : \A y \in S : x <= y
<1> DEFINE R == {ss \in Nat \X Nat : ss[1] < ss[2]}
<1>1. IsWellFoundedOn(R, Nat)
    BY NatLessThanWellFounded, Zenon DEF OpToRel
<1>2. PICK x \in S : \A y \in S : ~ (<<y, x>> \in R)
    BY <1>1, WFMin, Zenon
<1>3. ASSUME NEW y \in S PROVE x <= y
    <2>1. ~ (y < x)
        BY <1>2 DEF R
    <2> QED BY <2>1
<1> QED BY <1>3

\* Max of naturals up to a bound is the greatest of them.
LEMMA MaxOf ==
    ASSUME NEW n \in Nat, NEW S \in SUBSET (0 .. n), S # {}
    PROVE  /\ Max(S) \in S
           /\ \A y \in S : y <= Max(S)
<1> DEFINE Left == {n - k : k \in S}
<1>1. Left \in SUBSET Nat /\ Left # {}
    <2>1. \A k \in S : n - k \in Nat
        OBVIOUS
    <2> QED BY <2>1
<1>2. PICK x \in Left : \A y \in Left : x <= y
    <2> HIDE DEF Left
    <2> QED BY <1>1, SmallestOf
<1>3. PICK k \in S : x = n - k
    BY <1>2
<1>4. ASSUME NEW m \in S PROVE k >= m
    <2>1. n - k <= n - m
        BY <1>2, <1>3
    <2> QED BY <2>1
<1>5. Max(S) \in S /\ \A y \in S : Max(S) >= y
    BY <1>3, <1>4, Zenon DEF Max
<1> QED BY <1>5

\* Min of naturals is the least of them.
LEMMA MinOf ==
    ASSUME NEW S \in SUBSET Nat, S # {}
    PROVE  Min(S) \in S /\ \A y \in S : Min(S) <= y
<1>1. PICK x \in S : \A y \in S : x <= y
    BY SmallestOf
<1> QED BY <1>1, Zenon DEF Min

\* The greatest of some positions of a sequence.
LEMMA LargestOf ==
    ASSUME NEW n \in Nat, NEW S \in SUBSET (1 .. n), S # {}
    PROVE  \E k \in S : \A m \in S : m <= k
<1>1. S \in SUBSET (0 .. n)
    OBVIOUS
<1> QED BY <1>1, MaxOf

-----------------------------------------------------------------------------
(* Listings, page by page.                                                 *)

(* What a lister has been shown: of what was there when it began,          *)
(* everything it could read up to the last item of a page, and whether     *)
(* a derivation up to there was hidden from it.                            *)
ShownUpTo(m) ==
    /\ \A i \in DOMAIN Artifact :
           i <= m /\ Artifact[i] \in listing.since => Artifact[i] \in listing.items
    /\ \A i \in DOMAIN Artifact :
           /\ i <= m /\ Artifact[i] \in listing.others /\ ~Covers(listing.who, Artifact[i])
           => listing.hid

Shown == \E m \in DOMAIN Artifact : Artifact[m] = listing.last /\ ShownUpTo(m)

ListingInv ==
    /\ \A a \in listing.others : a \in There
    /\ \A a \in listing.since \cup listing.items : a \in There /\ Covers(listing.who, a)
    /\ \A a \in listing.since : MayRead(listing.who, a)
    /\ listing.more => Shown
    /\ listing.who # "" /\ ~listing.more =>
        /\ listing.since \subseteq listing.items
        /\ (\E a \in listing.others : ~MayRead(listing.who, a)) => listing.filtered
        /\ (\E a \in listing.others : ~Covers(listing.who, a)) => listing.hid

(* What is read under rights becomes so when it is first sealed.           *)
RowUnderWay ==
    doing.op \in {"publish", "seal"} =>
        doing.row.under = {} \/ art[doing.row.artifact].state = "none"

(* Every record has a state, and a sealed one what it is read under.       *)
StatesThere ==
    /\ DOMAIN art = Ids
    /\ \A a \in Ids : "state" \in DOMAIN art[a] /\ (art[a].state = "sealed" => "under" \in DOMAIN art[a])

\* The places of the store's order.
LEMMA Places == Len(Artifact) \in Nat /\ DOMAIN Artifact = 1 .. Len(Artifact)
<1>1. Artifact \in Seq(STRING)
    BY OrderAssumption
<1>2. \A S : \A s \in Seq(S) : Len(s) \in Nat /\ DOMAIN s = 1 .. Len(s)
    OBVIOUS
<1> QED BY <1>1, <1>2, Zenon

\* And what is there: every id, once.
LEMMA Names ==
    /\ Ids = {Artifact[i] : i \in DOMAIN Artifact}
    /\ \A i, j \in DOMAIN Artifact : Artifact[i] = Artifact[j] => i = j
<1>1. IsInjective(Artifact) /\ "" \notin Ids
    BY OrderAssumption
<1>2. Ids = {Artifact[i] : i \in DOMAIN Artifact}
    BY DEF Ids, ToSet
<1>3. ASSUME NEW i \in DOMAIN Artifact, NEW j \in DOMAIN Artifact, Artifact[i] = Artifact[j] PROVE i = j
    BY <1>1, <1>3, Zenon DEF IsInjective
<1> QED BY <1>2, <1>3

\* No id is the empty one.
LEMMA NoneUnnamed == \A i \in DOMAIN Artifact : Artifact[i] # ""
BY OrderAssumption, Names

\* What fits on a page is what comes first, and something does.
LEMMA FittingFirst ==
    ASSUME NEW places \in SUBSET (DOMAIN Artifact)
    PROVE  /\ Fitting(places) \subseteq places
           /\ \A i \in places, m \in Fitting(places) : i <= m => i \in Fitting(places)
           /\ places # {} => Fitting(places) # {}
<1> DEFINE upto(i) == {j \in places : j <= i}
<1>1. places \subseteq 1 .. Len(Artifact) /\ places \in SUBSET Nat /\ IsFiniteSet(places)
    <2>1. \A i \in places : i \in 1 .. Len(Artifact) /\ i \in Nat
        BY Places
    <2>2. IsFiniteSet(1 .. Len(Artifact))
        BY Places, FS_Interval
    <2> QED BY <2>1, <2>2, FS_Subset
<1>2. \A i : IsFiniteSet(upto(i)) /\ Cardinality(upto(i)) \in Nat
    BY <1>1, FS_Subset, FS_CardinalityType
<1>3. Limit \in Nat \ {0}
    BY EvidenceAssumption
<1>4. ASSUME NEW i \in places, NEW m \in Fitting(places), i <= m PROVE i \in Fitting(places)
    <2>1. m \in places /\ Cardinality(upto(m)) <= Limit
        BY <1>4 DEF Fitting
    <2>2. upto(i) \subseteq upto(m)
        BY <1>1, <1>4, <2>1
    <2>3. Cardinality(upto(i)) <= Cardinality(upto(m))
        BY <1>2, <2>2, FS_Subset
    <2> HIDE DEF upto
    <2>4. Cardinality(upto(i)) <= Limit
        BY <1>2, <1>3, <2>1, <2>3
    <2> QED BY <2>4 DEF Fitting, upto
<1>5. ASSUME places # {} PROVE Fitting(places) # {}
    <2>1. PICK x \in places : \A y \in places : x <= y
        BY <1>1, <1>5, SmallestOf
    <2>2. upto(x) = {x}
        BY <1>1, <2>1
    <2>3. Cardinality(upto(x)) = 1
        BY <2>2, FS_Singleton
    <2>4. Cardinality(upto(x)) <= Limit
        BY <1>3, <2>3
    <2> QED BY <2>4 DEF Fitting
<1> QED BY <1>4, <1>5 DEF Fitting

\* evidence_query: what a page from behind the place `m` shows and says.
LEMMA PageShows ==
    ASSUME NEW who, NEW after, NEW m \in 0 .. Len(Artifact),
           \A j \in DOMAIN Artifact : Artifact[j] = after <=> j = m
    PROVE  LET page == Page(who, after) IN
           /\ \A a \in page.items : a \in There /\ Readable(who, a)
           /\ page.more => \E n \in DOMAIN Artifact :
                 /\ Artifact[n] = page.last
                 /\ \A i \in DOMAIN Artifact :
                        m < i /\ i <= n /\ Artifact[i] \in There /\ Readable(who, Artifact[i])
                        => Artifact[i] \in page.items
                 /\ \A i \in DOMAIN Artifact :
                        m < i /\ i <= n /\ Artifact[i] \in There /\ ~ Covers(who, Artifact[i])
                        => page.filtered
           /\ ~ page.more =>
                 /\ \A i \in DOMAIN Artifact :
                        m < i /\ Artifact[i] \in There /\ Readable(who, Artifact[i])
                        => Artifact[i] \in page.items
                 /\ \A i \in DOMAIN Artifact :
                        m < i /\ Artifact[i] \in There /\ ~ Covers(who, Artifact[i])
                        => page.filtered
                 /\ \A a \in There : ~ MayRead(who, a) => page.filtered
<1> DEFINE behind == Behind(who, after)
           fits == Fitting(behind)
           page == Page(who, after)
           over == behind \ fits
           last == IF page.more THEN Min(over) ELSE Len(Artifact)
<1>1. Later(after) = {i \in DOMAIN Artifact : Artifact[i] \in There /\ m < i}
    <2>1. \A i \in DOMAIN Artifact : (\A j \in DOMAIN Artifact : Artifact[j] = after => i > j) <=> m < i
        BY Places
    <2> QED BY <2>1 DEF Later
<1>2. behind = {i \in DOMAIN Artifact : Artifact[i] \in There /\ m < i /\ Readable(who, Artifact[i])}
    BY <1>1 DEF Behind
<1>3. /\ page.more = (behind # fits) /\ page.items = {Artifact[i] : i \in fits}
      /\ page.last = IF fits = {} THEN "" ELSE Artifact[Max(fits)]
    BY DEF Page
<1>4. page.filtered =
        (\/ \E i \in 1 .. last : Artifact[i] \in There /\ ~ MayRead(who, Artifact[i])
         \/ \E i \in (1 .. last) \cap Later(after) : ~ Covers(who, Artifact[i]))
    BY DEF Page
<1>5. /\ fits \subseteq behind
      /\ \A i \in behind, n \in fits : i <= n => i \in fits
      /\ behind # {} => fits # {}
    BY <1>2, FittingFirst
<1>6. \A i \in DOMAIN Artifact : i \in Nat /\ i >= 1 /\ i <= Len(Artifact)
    BY Places
<1> HIDE DEF behind, fits, page
<1>7. \A a \in page.items : a \in There /\ Readable(who, a)
    BY <1>2, <1>3, <1>5
<1>8. ASSUME page.more
      PROVE  \E n \in DOMAIN Artifact :
                 /\ Artifact[n] = page.last
                 /\ \A i \in DOMAIN Artifact :
                        m < i /\ i <= n /\ Artifact[i] \in There /\ Readable(who, Artifact[i])
                        => Artifact[i] \in page.items
                 /\ \A i \in DOMAIN Artifact :
                        m < i /\ i <= n /\ Artifact[i] \in There /\ ~ Covers(who, Artifact[i])
                        => page.filtered
    <2>1. fits # {} /\ fits \in SUBSET (0 .. Len(Artifact))
        <3>1. \A i \in DOMAIN Artifact : i \in 0 .. Len(Artifact)
            BY Places
        <3>2. \A i \in fits : i \in DOMAIN Artifact
            BY <1>2, <1>5
        <3> QED BY <1>3, <1>5, <1>8, <3>1, <3>2
    <2>2. Max(fits) \in fits
        BY <2>1, MaxOf, Places
    <2>3. Max(fits) \in DOMAIN Artifact /\ m < Max(fits) /\ Artifact[Max(fits)] = page.last
        BY <1>2, <1>3, <1>5, <2>1, <2>2
    <2>4. over # {} /\ over \in SUBSET Nat
        BY <1>2, <1>3, <1>5, <1>6, <1>8
    <2>5. last \in over
        BY <1>8, <2>4, MinOf
    <2>6. last \in Nat /\ Max(fits) < last
        BY <1>2, <1>5, <1>6, <2>2, <2>5
    <2>7. ASSUME NEW i \in DOMAIN Artifact, m < i, i <= Max(fits), Artifact[i] \in There,
                 Readable(who, Artifact[i])
          PROVE  Artifact[i] \in page.items
        BY <1>2, <1>3, <1>5, <2>2, <2>7
    <2>8. ASSUME NEW i \in DOMAIN Artifact, m < i, i <= Max(fits), Artifact[i] \in There,
                 ~ Covers(who, Artifact[i])
          PROVE  page.filtered
        <3>1. i \in 1 .. last
            <4> HIDE DEF last
            <4> QED BY <1>6, <2>3, <2>6, <2>8
        <3> QED BY <1>1, <1>4, <2>8, <3>1
    <2> HIDE DEF last
    <2> QED BY <2>3, <2>7, <2>8
<1>9. ASSUME ~ page.more
      PROVE  /\ \A i \in DOMAIN Artifact :
                    m < i /\ Artifact[i] \in There /\ Readable(who, Artifact[i])
                    => Artifact[i] \in page.items
             /\ \A i \in DOMAIN Artifact :
                    m < i /\ Artifact[i] \in There /\ ~ Covers(who, Artifact[i])
                    => page.filtered
             /\ \A a \in There : ~ MayRead(who, a) => page.filtered
    <2>1. \A i \in DOMAIN Artifact : i \in 1 .. last
        BY <1>9, Places
    <2> HIDE DEF last
    <2>2. behind = fits
        BY <1>3, <1>9
    <2>3. \A i \in behind : Artifact[i] \in page.items
        BY <1>3, <2>2
    <2>4. ASSUME NEW a \in There, ~ MayRead(who, a) PROVE page.filtered
        <3>1. PICK i \in DOMAIN Artifact : Artifact[i] = a
            BY Names DEF There
        <3> QED BY <1>4, <2>1, <2>4, <3>1
    <2> QED BY <1>1, <1>2, <1>4, <2>1, <2>3, <2>4
<1> QED BY <1>7, <1>8, <1>9 DEF page

\* What there is stays, and who could read it all still can: a record is never
\* deleted, and what it is read under comes with it when it is first sealed.
LEMMA RecordsStay ==
    ASSUME StatesThere, RowUnderWay, [Next]_vars
    PROVE  /\ StatesThere'
           /\ \A a \in Ids : art[a].state # "none" => art'[a].state # "none"
           /\ \A a \in There : \A who : Covers(who, a) => Covers(who, a)'
<1> DEFINE Stay == /\ StatesThere'
                   /\ \A a \in Ids : art[a].state # "none" => art'[a].state # "none"
                   /\ \A a \in There : \A who : Covers(who, a) => Covers(who, a)'
<1>1. ASSUME UNCHANGED art PROVE Stay
    BY <1>1 DEF StatesThere, There, Covers, Sealed, May
<1>2. ASSUME NEW a \in Ids, NEW r, "state" \in DOMAIN r, r.state # "none",
             r.state = "sealed" =>
                 "under" \in DOMAIN r /\ (r.under = {} \/ art[a].state = "none"),
             art' = [art EXCEPT ![a] = r]
      PROVE  Stay
    <2>1. art'[a] = r /\ \A b \in Ids : b # a => art'[b] = art[b]
        BY <1>2 DEF StatesThere
    <2>2. StatesThere' /\ \A b \in Ids : art[b].state # "none" => art'[b].state # "none"
        BY <1>2, <2>1 DEF StatesThere
    <2>3. ASSUME NEW b \in There, NEW who, Covers(who, b) PROVE Covers(who, b)'
        BY <1>2, <2>1, <2>3 DEF Covers, Sealed, There, May
    <2> QED BY <2>2, <2>3
<1>3. ASSUME NEW a \in Ids, Abandoned(a) PROVE Stay
    <2> DEFINE r == [state |-> "abandoned", digest |-> art[a].digest]
    <2>1. "state" \in DOMAIN r /\ r.state = "abandoned" /\ art' = [art EXCEPT ![a] = r]
        BY <1>3 DEF Abandoned
    <2> HIDE DEF r
    <2> QED BY <1>2, <2>1
<1>4. ASSUME NEW a \in Ids, NEW r, DOMAIN r = DOMAIN art[a], r.state = art[a].state,
             r.state = "sealed" => r.under = art[a].under, art' = [art EXCEPT ![a] = r]
      PROVE  Stay
    <2>1. art'[a] = r /\ \A b \in Ids : b # a => art'[b] = art[b]
        BY <1>4 DEF StatesThere
    <2>2. StatesThere' /\ \A b \in Ids : art[b].state # "none" => art'[b].state # "none"
        BY <1>4, <2>1 DEF StatesThere
    <2>3. ASSUME NEW b \in There, NEW who, Covers(who, b) PROVE Covers(who, b)'
        BY <1>4, <2>1, <2>3 DEF Covers, Sealed, There, May
    <2> QED BY <2>2, <2>3
<1>5. CASE Tick
    <2>1. ASSUME NEW a \in Ids, ExpireStaging(a) PROVE Stay
        BY <1>3, <2>1 DEF ExpireStaging
    <2>2. ASSUME NEW a \in Ids, ConfirmPurge(a) PROVE Stay
        <3> DEFINE r == [art[a] EXCEPT !.purge = "confirmed"]
        <3>1. /\ DOMAIN r = DOMAIN art[a] /\ r.state = art[a].state
              /\ art[a].state = "sealed" => r.under = art[a].under
            BY DEF StatesThere
        <3>2. art' = [art EXCEPT ![a] = r]
            BY <2>2 DEF ConfirmPurge
        <3> HIDE DEF r
        <3> QED BY <1>4, <3>1, <3>2
    <2> QED BY <1>1, <1>5, <2>1, <2>2 DEF Tick, ExpireHold, SealRow, BeginTick, EndTick
<1>6. CASE Finish
    <2>1. CASE CommitSeal
        <3> DEFINE b == doing.row.artifact
                   r == [state |-> "sealed", digest |-> doing.row.digest, purge |-> "no", due |-> 0,
                         under |-> doing.row.under]
        <3>1. /\ "state" \in DOMAIN r /\ "under" \in DOMAIN r /\ r.state # "none"
              /\ r.under = {} \/ art[b].state = "none"
              /\ art' = [art EXCEPT ![b] = r]
            BY <2>1 DEF CommitSeal, RowUnderWay
        <3> HIDE DEF b, r
        <3>2. CASE b \in Ids
            BY <1>2, <3>1, <3>2
        <3>3. CASE b \notin Ids
            <4>1. DOMAIN art' = Ids /\ \A a \in Ids : art'[a] = art[a]
                BY <3>1, <3>3 DEF StatesThere
            <4>2. \A a \in There : \A who : Covers(who, a) => Covers(who, a)'
                BY <4>1 DEF There, Covers, Sealed, May
            <4> QED BY <4>1, <4>2 DEF StatesThere
        <3> QED BY <3>2, <3>3
    <2> QED BY <1>1, <1>6, <2>1 DEF Finish, Publish, DeleteIfUnreferenced
<1>7. ASSUME NEW who \in Principal, Request(who) PROVE Stay
    <2>1. ASSUME NEW a \in Ids, NEW d \in Digest, Prepare(who, a, d) PROVE Stay
        <3> DEFINE r == [state |-> "staged", digest |-> d, received |-> 0, at |-> now]
        <3>1. "state" \in DOMAIN r /\ r.state = "staged" /\ art' = [art EXCEPT ![a] = r]
            BY <2>1 DEF Prepare
        <3> HIDE DEF r
        <3> QED BY <1>2, <3>1
    <2>2. ASSUME NEW a \in Ids, NEW of \in Digest, NEW offset \in Nat, NEW len \in 0 .. MaxChunk,
                 AppendChunk(who, a, of, offset, len)
          PROVE  Stay
        <3> DEFINE r == [art[a] EXCEPT !.received = @ + len]
        <3>1. DOMAIN r = DOMAIN art[a] /\ r.state = art[a].state /\ art[a].state # "sealed"
            BY <2>2 DEF StatesThere, AppendChunk
        <3>2. art' = [art EXCEPT ![a] = r]
            BY <2>2 DEF AppendChunk
        <3> HIDE DEF r
        <3> QED BY <1>4, <3>1, <3>2
    <2>3. ASSUME NEW a \in Ids, Abandon(who, a) PROVE Stay
        BY <1>3, <2>3 DEF Abandon
    <2>4. ASSUME NEW a \in Ids, NEW named \in SUBSET Hold, Purge(who, a, named) PROVE Stay
        <3> DEFINE state == IF config.delay = 0 THEN "confirmed" ELSE "pending"
                   r == [art[a] EXCEPT !.purge = state, !.due = now + config.delay]
        <3>1. /\ DOMAIN r = DOMAIN art[a] /\ r.state = art[a].state
              /\ art[a].state = "sealed" => r.under = art[a].under
            BY DEF StatesThere
        <3>2. art' = [art EXCEPT ![a].purge = state, ![a].due = now + config.delay]
            BY <2>4 DEF Purge
        <3>3. art' = [art EXCEPT ![a] = r]
            BY <3>2 DEF StatesThere
        <3> HIDE DEF r
        <3> QED BY <1>4, <3>1, <3>3
    <2> QED BY <1>1, <1>7, <2>1, <2>2, <2>3, <2>4 DEF Request, Seal, PlaceHold, Release, List
<1>8. ASSUME NEW d \in Digest, Spoil(d) \/ Collect(d) PROVE Stay
    BY <1>1, <1>8 DEF Spoil, Collect
<1>9. ASSUME NEW c \in Config, Start(c) PROVE Stay
    BY <1>1, <1>9 DEF Start
<1>10. CASE RefuseSeal \/ Subscribe \/ Close \/ Advance \/ Crash \/ UNCHANGED vars
    BY <1>1, <1>10 DEF RefuseSeal, Subscribe, Close, Advance, Crash, vars
<1> QED BY <1>5, <1>6, <1>7, <1>8, <1>9, <1>10 DEF Next

\* No step seals under rights what has a record.
LEMMA RowUnderWayStep ==
    ASSUME RowUnderWay, [Next]_vars
    PROVE  RowUnderWay'
<1>1. ASSUME UNCHANGED <<art, doing>> PROVE RowUnderWay'
    BY <1>1 DEF RowUnderWay
<1>2. ASSUME doing'.op \notin {"publish", "seal"} PROVE RowUnderWay'
    BY <1>2 DEF RowUnderWay
<1>3. ASSUME NEW row, BeginSeal(row), UNCHANGED art, row.under = {} \/ art[row.artifact].state = "none"
      PROVE  RowUnderWay'
    BY <1>3 DEF RowUnderWay, BeginSeal
<1>4. Idle.op \notin {"publish", "seal"}
    BY DEF Idle
<1>5. CASE Tick
    <2>1. ASSUME NEW row \in TickRow, SealRow(row) PROVE RowUnderWay'
        BY <1>3, <2>1 DEF SealRow
    <2>2. ASSUME NEW a \in Ids, ExpireStaging(a) \/ ConfirmPurge(a) PROVE RowUnderWay'
        BY <1>2, <1>4, <2>2 DEF ExpireStaging, ConfirmPurge
    <2>3. ASSUME NEW h \in Hold, ExpireHold(h) PROVE RowUnderWay'
        BY <1>1, <2>3 DEF ExpireHold
    <2>4. CASE BeginTick \/ EndTick
        BY <1>1, <2>4 DEF BeginTick, EndTick
    <2> QED BY <1>5, <2>1, <2>2, <2>3, <2>4 DEF Tick
<1>6. CASE Finish \/ RefuseSeal \/ Crash
    <2>1. CASE Publish
        BY <2>1 DEF Publish, RowUnderWay
    <2>2. CASE CommitSeal \/ DeleteIfUnreferenced \/ RefuseSeal \/ Crash
        BY <1>2, <1>4, <2>2 DEF CommitSeal, DeleteIfUnreferenced, RefuseSeal, Crash
    <2> QED BY <1>6, <2>1, <2>2 DEF Finish
<1>7. ASSUME NEW who \in Principal, Request(who) PROVE RowUnderWay'
    <2>1. ASSUME NEW a \in Ids, Seal(who, a) PROVE RowUnderWay'
        <3> DEFINE row == [artifact |-> a, digest |-> art[a].digest, under |-> {}]
        <3>1. BeginSeal(row) /\ row.under = {} /\ UNCHANGED art
            BY <2>1 DEF Seal
        <3> HIDE DEF row
        <3> QED BY <1>3, <3>1
    <2>2. ASSUME NEW a \in Ids, NEW named \in SUBSET Hold, Purge(who, a, named) PROVE RowUnderWay'
        BY <1>2, <1>4, <2>2 DEF Purge
    <2>3. ASSUME doing = Idle, UNCHANGED doing PROVE RowUnderWay'
        BY <1>2, <1>4, <2>3
    <2>4. ASSUME NEW a \in Ids, NEW d \in Digest, Prepare(who, a, d) PROVE RowUnderWay'
        BY <2>3, <2>4 DEF Prepare, Serving
    <2>5. ASSUME NEW a \in Ids, NEW of, NEW offset, NEW len, AppendChunk(who, a, of, offset, len)
          PROVE  RowUnderWay'
        BY <2>3, <2>5 DEF AppendChunk, Serving
    <2>6. ASSUME NEW a \in Ids, Abandon(who, a) PROVE RowUnderWay'
        BY <2>3, <2>6 DEF Abandon, Serving
    <2> QED BY <1>1, <1>7, <2>1, <2>2, <2>4, <2>5, <2>6 DEF Request, PlaceHold, Release, List
<1>8. ASSUME NEW d \in Digest, Spoil(d) \/ Collect(d) PROVE RowUnderWay'
    BY <1>1, <1>8 DEF Spoil, Collect
<1>9. ASSUME NEW c \in Config, Start(c) PROVE RowUnderWay'
    BY <1>1, <1>9 DEF Start
<1>10. CASE Subscribe \/ Close \/ Advance \/ UNCHANGED vars
    BY <1>1, <1>10 DEF Subscribe, Close, Advance, vars
<1> QED BY <1>5, <1>6, <1>7, <1>8, <1>9, <1>10 DEF Next

\* The next page, or the first one.
LEMMA ListStep ==
    ASSUME ListingInv, NEW who \in Principal, List(who)
    PROVE  ListingInv'
<1> DEFINE begins == ~ listing.more
           after == IF begins THEN "" ELSE listing.last
           page == Page(who, after)
           since == IF begins THEN {a \in There : Readable(who, a)} ELSE listing.since
           others == IF begins THEN {a \in There : ~ Readable(who, a)} ELSE listing.others
           items == IF begins THEN {} ELSE listing.items
           hid == IF begins THEN FALSE ELSE listing.hid
<1>1. /\ UNCHANGED art /\ (~ begins => listing.who = who)
      /\ listing'.who = who /\ listing'.more = page.more /\ listing'.last = page.last
      /\ listing'.filtered = page.filtered
      /\ listing'.hid = (hid \/ page.filtered) /\ listing'.items = items \cup page.items
      /\ listing'.since = since /\ listing'.others = others
    BY DEF List
<1>2. /\ There' = There
      /\ \A a : (Covers(who, a))' = Covers(who, a) /\ (MayRead(who, a))' = MayRead(who, a)
    BY <1>1 DEF There, Covers, Sealed, MayRead, May
<1>3. PICK m \in 0 .. Len(Artifact) :
        /\ \A j \in DOMAIN Artifact : Artifact[j] = after <=> j = m
        /\ \A i \in DOMAIN Artifact : i <= m /\ Artifact[i] \in since => Artifact[i] \in items
        /\ \A i \in DOMAIN Artifact :
               i <= m /\ Artifact[i] \in others /\ ~ Covers(who, Artifact[i]) => hid
    <2>1. CASE begins
        <3>1. \A j \in DOMAIN Artifact : Artifact[j] = after <=> j = 0
            <4>1. \A j \in DOMAIN Artifact : Artifact[j] # after
                BY <2>1, NoneUnnamed
            <4>2. \A j \in DOMAIN Artifact : j # 0
                BY Places
            <4> QED BY <4>1, <4>2
        <3>2. \A i \in DOMAIN Artifact : ~ (i <= 0)
            BY Places
        <3>3. 0 \in 0 .. Len(Artifact)
            BY Places
        <3> HIDE DEF after, since, others, items, hid, begins
        <3> QED BY <3>1, <3>2, <3>3
    <2>2. CASE ~ begins
        <3>1. PICK m \in DOMAIN Artifact : Artifact[m] = listing.last /\ ShownUpTo(m)
            BY <2>2 DEF ListingInv, Shown
        <3>2. m \in 0 .. Len(Artifact)
            BY Places
        <3>3. \A j \in DOMAIN Artifact : Artifact[j] = after <=> j = m
            BY <2>2, <3>1, Names
        <3>4. since = listing.since /\ others = listing.others /\ items = listing.items /\ hid = listing.hid
              /\ listing.who = who
            BY <1>1, <2>2
        <3> HIDE DEF after, since, others, items, hid, begins
        <3> QED BY <3>1, <3>2, <3>3, <3>4 DEF ShownUpTo
    <2> QED BY <2>1, <2>2
<1>4. /\ \A a \in page.items : a \in There /\ Readable(who, a)
      /\ page.more => \E n \in DOMAIN Artifact :
            /\ Artifact[n] = page.last
            /\ \A i \in DOMAIN Artifact :
                   m < i /\ i <= n /\ Artifact[i] \in There /\ Readable(who, Artifact[i])
                   => Artifact[i] \in page.items
            /\ \A i \in DOMAIN Artifact :
                   m < i /\ i <= n /\ Artifact[i] \in There /\ ~ Covers(who, Artifact[i])
                   => page.filtered
      /\ ~ page.more =>
            /\ \A i \in DOMAIN Artifact :
                   m < i /\ Artifact[i] \in There /\ Readable(who, Artifact[i])
                   => Artifact[i] \in page.items
            /\ \A i \in DOMAIN Artifact :
                   m < i /\ Artifact[i] \in There /\ ~ Covers(who, Artifact[i])
                   => page.filtered
            /\ \A a \in There : ~ MayRead(who, a) => page.filtered
    <2> HIDE DEF after
    <2> QED BY <1>3, PageShows
<1>5. /\ \A a \in since : a \in There /\ Readable(who, a)
      /\ \A a \in others : a \in There
      /\ \A a \in items : a \in There /\ Covers(who, a)
    <2>1. CASE begins
        BY <2>1
    <2>2. CASE ~ begins
        BY <1>1, <2>2 DEF ListingInv, Readable
    <2> QED BY <2>1, <2>2
<1> HIDE DEF after, page, since, others, items, hid, begins
<1>6. \A i \in DOMAIN Artifact : i \in Nat
    BY Places
<1>7. /\ \A a \in listing'.others : a \in There'
      /\ \A a \in listing'.since \cup listing'.items : a \in There' /\ (Covers(who, a))'
      /\ \A a \in listing'.since : MayRead(who, a)
    BY <1>1, <1>2, <1>4, <1>5 DEF Readable
<1>8. ASSUME listing'.more PROVE Shown'
    <2>1. PICK n \in DOMAIN Artifact :
            /\ Artifact[n] = page.last
            /\ \A i \in DOMAIN Artifact :
                   m < i /\ i <= n /\ Artifact[i] \in There /\ Readable(who, Artifact[i])
                   => Artifact[i] \in page.items
            /\ \A i \in DOMAIN Artifact :
                   m < i /\ i <= n /\ Artifact[i] \in There /\ ~ Covers(who, Artifact[i])
                   => page.filtered
        BY <1>1, <1>4, <1>8
    <2>2. ASSUME NEW i \in DOMAIN Artifact, i <= n, Artifact[i] \in since
          PROVE  Artifact[i] \in listing'.items
        <3>1. CASE i <= m
            BY <1>1, <1>3, <2>2, <3>1
        <3>2. CASE m < i
            BY <1>1, <1>5, <2>1, <2>2, <3>2
        <3> QED BY <1>6, <3>1, <3>2
    <2>3. ASSUME NEW i \in DOMAIN Artifact, i <= n, Artifact[i] \in others, ~ Covers(who, Artifact[i])
          PROVE  listing'.hid
        <3>1. CASE i <= m
            BY <1>1, <1>3, <2>3, <3>1
        <3>2. CASE m < i
            BY <1>1, <1>5, <2>1, <2>3, <3>2
        <3> QED BY <1>6, <3>1, <3>2
    <2>4. ShownUpTo(n)'
        BY <1>1, <1>2, <2>2, <2>3 DEF ShownUpTo
    <2> QED BY <1>1, <2>1, <2>4 DEF Shown
<1>9. ASSUME ~ listing'.more
      PROVE  /\ listing'.since \subseteq listing'.items
             /\ (\E a \in listing'.others : ~ MayRead(who, a)) => listing'.filtered
             /\ (\E a \in listing'.others : ~ Covers(who, a)) => listing'.hid
    <2>1. ASSUME NEW a \in since PROVE a \in listing'.items
        <3>1. PICK i \in DOMAIN Artifact : Artifact[i] = a
            BY <1>5, Names DEF There
        <3>2. CASE i <= m
            BY <1>1, <1>3, <2>1, <3>1, <3>2
        <3>3. CASE m < i
            BY <1>1, <1>4, <1>5, <1>9, <2>1, <3>1, <3>3
        <3> QED BY <1>6, <3>2, <3>3
    <2>2. (\E a \in others : ~ MayRead(who, a)) => listing'.filtered
        BY <1>1, <1>4, <1>5, <1>9
    <2>3. ASSUME NEW a \in others, ~ Covers(who, a) PROVE listing'.hid
        <3>1. PICK i \in DOMAIN Artifact : Artifact[i] = a
            BY <1>5, Names DEF There
        <3>2. CASE i <= m
            BY <1>1, <1>3, <2>3, <3>1, <3>2
        <3>3. CASE m < i
            BY <1>1, <1>4, <1>5, <1>9, <2>3, <3>1, <3>3
        <3> QED BY <1>6, <3>2, <3>3
    <2> QED BY <1>1, <2>1, <2>2, <2>3
<1> QED BY <1>1, <1>2, <1>7, <1>8, <1>9 DEF ListingInv

\* Any other step leaves the lister what it was shown.
LEMMA ListingStep ==
    ASSUME ListingInv, StatesThere, RowUnderWay, [Next]_vars
    PROVE  ListingInv'
<1>1. ASSUME UNCHANGED listing PROVE ListingInv'
    <2>1. There \subseteq There' /\ \A a \in There : \A who : Covers(who, a) => Covers(who, a)'
        BY RecordsStay DEF There
    <2>2. \A a : MayRead(listing.who, a)' = MayRead(listing.who, a)
        BY <1>1 DEF MayRead, May
    <2>3. \A m : ShownUpTo(m) /\ (\A a \in listing.others : a \in There) => ShownUpTo(m)'
        BY <1>1, <2>1 DEF ShownUpTo
    <2>4. listing'.more => Shown'
        BY <1>1, <2>3 DEF ListingInv, Shown
    <2> QED BY <1>1, <2>1, <2>2, <2>4 DEF ListingInv
<1>2. ASSUME NEW who \in Principal, Request(who) PROVE ListingInv'
    BY <1>1, <1>2, ListStep
    DEF Request, Prepare, AppendChunk, Seal, Abandon, Purge, PlaceHold, Release
<1>3. CASE Tick \/ Finish \/ RefuseSeal \/ Subscribe \/ Close \/ Advance \/ Crash
    BY <1>1, <1>3 DEF Tick, ExpireStaging, ConfirmPurge, ExpireHold, SealRow, BeginTick, EndTick,
       Finish, Publish, CommitSeal, DeleteIfUnreferenced, RefuseSeal, Subscribe, Close, Advance, Crash
<1>4. ASSUME NEW d \in Digest, Spoil(d) \/ Collect(d) PROVE ListingInv'
    BY <1>1, <1>4 DEF Spoil, Collect
<1>5. ASSUME NEW c \in Config, Start(c) PROVE ListingInv'
    BY <1>1, <1>5 DEF Start
<1>6. CASE UNCHANGED vars
    BY <1>1, <1>6 DEF vars
<1> QED BY <1>2, <1>3, <1>4, <1>5, <1>6 DEF Next

\* What the lister was shown is what inspection tells it of.
LEMMA ListingTold == ListingInv => ListingIsComplete
<1> SUFFICES ASSUME ListingInv PROVE ListingIsComplete
    OBVIOUS
<1>1. ASSUME NEW a \in listing.items PROVE Inspect(listing.who, a).answer = "told"
    <2>1. Covers(listing.who, a)
        BY <1>1 DEF ListingInv
    <2> QED BY <2>1 DEF Inspect
<1> QED BY <1>1 DEF ListingInv, ListingIsComplete

\* inspect, completeness, fetch, list: what readers are told is so.  A verdict
\* holds for everyone, but for the derivations it does not ask about; and who
\* follows a listing to its end was shown all that was there when it began and
\* that it could read, and nothing that inspection would refuse it, whatever is
\* prepared, sealed, purged, restarted or altered by the disk between two pages.
THEOREM ReadersAreToldTrue == Spec => []ReadsAreTrue
<1> DEFINE Inv == ListingInv /\ StatesThere /\ RowUnderWay
<1>1. Init => Inv
    <2> SUFFICES ASSUME Init PROVE Inv
        OBVIOUS
    <2>1. /\ art = [a \in Ids |-> NoArtifact] /\ doing = Idle
          /\ listing.who = "" /\ listing.more = FALSE /\ listing.items = {}
          /\ listing.since = {} /\ listing.others = {}
        BY DEF Init
    <2>2. StatesThere
        BY <2>1 DEF StatesThere, NoArtifact
    <2>3. ListingInv
        BY <2>1 DEF ListingInv
    <2>4. RowUnderWay
        BY <2>1 DEF RowUnderWay, Idle
    <2> QED BY <2>2, <2>3, <2>4
<1>2. Inv /\ [Next]_vars => Inv'
    BY ListingStep, RecordsStay, RowUnderWayStep
<1>3. Inv => ListingIsComplete
    BY ListingTold
<1>4. VerdictsHold /\ ListingIsComplete => ReadsAreTrue
    BY DEF ReadsAreTrue
<1> HIDE DEF Inv
<1> QED BY <1>1, <1>2, <1>3, <1>4, VerdictsAgree, PTL DEF Spec

=============================================================================
