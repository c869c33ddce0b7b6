------------------------------ MODULE Evidence ------------------------------
(***************************************************************************)
(* The evidence profile (provider/evidence_ops.rs) over the store's        *)
(* artifact and hold records, its table of staged chunks and its object    *)
(* files.                                                                  *)
(*                                                                         *)
(* Requests run one at a time under the processing lock, each after a pass *)
(* over what time has made due.  A database transaction is one step.  A    *)
(* file operation is not part of any transaction, so a seal and a purge    *)
(* take several steps (doing) and a crash may come between them; a start   *)
(* collects what no record names before it serves anyone.  A pass also     *)
(* seals what a context job leaves: derivations, read only by who may read *)
(* all they were made from, and cited sources.  Every command carries the  *)
(* current revisions as its preconditions: what a stale or repeated one    *)
(* meets is in Commands.                                                   *)
(***************************************************************************)
EXTENDS Integers, Sequences, FiniteSets, FiniteSetsExt, SequencesExt, TLC

CONSTANTS
    Artifact,    \* artifact ids, a sequence in the order the store lists them
    Hold,        \* hold ids
    Digest,      \* digests, each standing for the bytes it is the digest of
    Size,        \* digest -> the number of bytes
    Children,    \* digest -> the children its bytes list as a manifest
    Principal,   \* the principals that send requests
    Authority,   \* those that act without a grant
    Rights,      \* principal -> the rights <<right, id>> its grant gives it
    TickRow,     \* what a pass may seal: artifact, digest, and the rights to read it under
    Config,      \* the configurations a start may find
    Over,        \* the states in which a caller names an id that is taken
    Limit,       \* the page size a lister asks for
    MaxChunk,    \* chunk_limit
    MaxNow,      \* bound: the last instant
    MaxCrashes   \* bound: how often the process is killed

Ids == ToSet(Artifact)
NoTimeout == -1

\* An id is a key of the store's table, and "" is none.
ASSUME OrderAssumption == Artifact \in Seq(STRING) /\ IsInjective(Artifact) /\ "" \notin Ids

ASSUME EvidenceAssumption ==
    /\ Authority \subseteq Principal
    /\ MaxChunk \in Nat \ {0} /\ Limit \in Nat \ {0}
    /\ \A d \in Digest : Size[d] \in Nat
    /\ \A c \in Config : c.timeout \in Nat \cup {NoTimeout} /\ c.delay \in Nat /\ c.socket \in BOOLEAN

ASSUME TickRowAssumption ==
    TickRow \subseteq [artifact : Ids, digest : Digest, under : SUBSET (STRING \X STRING)]

VARIABLES
    art,      \* artifact id -> its record
    hold,     \* hold id -> its record
    chunks,   \* artifact id -> its rows of evidence_chunks
    objects,  \* digest -> the object file: none, good or bad
    staging,  \* the digests with a staging file beside their object
    now,      \* the clock
    config,   \* deletion delay, staging timeout and binding this process was given
    doing,    \* the step a request or a pass has still to take
    ticked,   \* whether a pass has ended since the last request
    polling,  \* whether an open session polls: it subscribed, or owes maintenance
    up,       \* whether the process serves
    crashes,  \* history: how often it was killed
    spoiled,  \* history: the digests whose file the disk has altered
    left,     \* history: the objects whose row was refused after they were published
    listing   \* a lister that follows cursors

vars == <<art, hold, chunks, objects, staging, now, config, doing, ticked, polling, up,
          crashes, spoiled, left, listing>>

NoArtifact == [state |-> "none"]
NoHold == [state |-> "none"]
Idle == [op |-> "none"]

May(who, right, id) == who \in Authority \/ <<right, id>> \in Rights[who]

-----------------------------------------------------------------------------
(* What the records say. *)

Sealed(a) == art[a].state = "sealed"
Kept(a) == Sealed(a) /\ art[a].purge = "no"

\* object_root: sealed, and its purge, if requested, is not yet confirmed.
Root(a) == Sealed(a) /\ art[a].purge # "confirmed"

Roots == {art[a].digest : a \in {b \in Ids : Root(b)}}

HoldsOn(a) == {h \in Hold : hold[h].state # "none" /\ hold[h].artifact = a}
Active(h) == hold[h].state = "active"

\* may_read, of an artifact
MayRead(who, a) == May(who, "evidence.read", a)

\* covers_derivation: a derivation shows what its job could read, so its reader
\* may read all of that too.  Uploads and cited sources carry no such set.
Covers(who, a) == Sealed(a) => \A x \in art[a].under : May(who, x[1], x[2])

\* hold_visible
HoldVisible(who, h) == hold[h].owner = who \/ MayRead(who, hold[h].artifact)

Availability(a) ==
    IF art[a].state = "abandoned" THEN "unavailable"
    ELSE IF art[a].state = "staged" THEN "available"
    ELSE IF Sealed(a) /\ art[a].purge = "confirmed" THEN "purged"
    ELSE IF Sealed(a) /\ art[a].purge = "pending" THEN "purge_pending"
    ELSE IF Sealed(a) /\ a \in config.unavailable THEN "unavailable"
    ELSE IF Kept(a) /\ objects[art[a].digest] = "good" THEN "available"
    ELSE "unavailable"

\* One child of a manifest, for one reader.
ChildState(who, c) ==
    IF c.elsewhere THEN "unverified"
    ELSE IF ~MayRead(who, c.artifact) THEN "withheld"
    ELSE IF ~Kept(c.artifact) \/ art[c.artifact].digest # c.digest THEN "missing"
    ELSE IF Availability(c.artifact) = "available" THEN "present" ELSE "unverified"

\* completeness: only the required children decide.
Completeness(who, a) ==
    LET required == {ChildState(who, c) : c \in {x \in Children[art[a].digest] : x.required}}
    IN  IF required \subseteq {"present"} THEN "complete"
        ELSE IF "missing" \in required THEN "incomplete"
        ELSE "undetermined"

\* loss_record: what a purge affects, and whether something was left out.
ListedBy(a) ==
    {m \in Ids : Sealed(m) /\ \E c \in Children[art[m].digest] : c.artifact = a /\ ~c.elsewhere}
Affected(who, a) ==
    [holds |-> {h \in HoldsOn(a) : HoldVisible(who, h)},
     manifests |-> {m \in ListedBy(a) : MayRead(who, m)},
     filtered |-> \/ \E h \in HoldsOn(a) : ~HoldVisible(who, h)
                  \/ \E m \in ListedBy(a) : ~MayRead(who, m)]

\* evidence_inspect, of an artifact that is there
Inspect(who, a) ==
    IF ~Covers(who, a) THEN [answer |-> "denied"]
    ELSE [answer |-> "told", availability |-> Availability(a),
          holds |-> {h \in HoldsOn(a) : HoldVisible(who, h)},
          loss |-> IF Sealed(a) /\ art[a].purge # "no" THEN {Affected(who, a)} ELSE {},
          completeness |-> IF Sealed(a) /\ Children[art[a].digest] # {}
                           THEN Completeness(who, a) ELSE "not_a_manifest"]

Told(who, a, verdict) == LET told == Inspect(who, a) IN told.answer = "told" /\ told.completeness = verdict

\* evidence_fetch: what is answered, and the offset to go on from.
Fetch(who, a, digest, offset, max) ==
    LET from == Min({offset, Size[digest]})
    IN  IF ~Covers(who, a) THEN [answer |-> "denied", next |-> 0]
        ELSE IF ~Sealed(a) \/ art[a].digest # digest THEN [answer |-> "refused", next |-> 0]
        ELSE IF Availability(a) # "available" THEN [answer |-> "nothing", next |-> from]
        ELSE [answer |-> "bytes", next |-> Min({from + max, Size[digest]})]

-----------------------------------------------------------------------------
(* evidence_query: one page.  The cursor is the last id on the page before. *)

There == {a \in Ids : art[a].state # "none"}

\* What a listing shows a reader.
Readable(who, a) == MayRead(who, a) /\ Covers(who, a)

\* The places in the store's order behind `after`, of what is there.
Later(after) ==
    {i \in DOMAIN Artifact :
        Artifact[i] \in There /\ \A j \in DOMAIN Artifact : Artifact[j] = after => i > j}

\* Mutant: a listing shows a derivation that inspection refuses.
BehindUnasked(who, after) == {i \in Later(after) : MayRead(who, Artifact[i])}

\* Those of what a reader may see.
Behind(who, after) == {i \in Later(after) : Readable(who, Artifact[i])}

\* Those of them that fit on a page.
Fitting(places) == {i \in places : Cardinality({j \in places : j <= i}) <= Limit}

\* `filtered` counts what the reader's grant hides wherever it stands, and a
\* derivation it hides only behind the cursor, and both as far as the scan goes:
\* to the first item that does not fit.
Page(who, after) ==
    LET behind == Behind(who, after)
        page == Fitting(behind)
        more == behind # page
        scanned == 1..(IF more THEN Min(behind \ page) ELSE Len(Artifact))
    IN  [items |-> {Artifact[i] : i \in page}, more |-> more,
         last |-> IF page = {} THEN "" ELSE Artifact[Max(page)],
         filtered |-> \/ \E i \in scanned : Artifact[i] \in There /\ ~MayRead(who, Artifact[i])
                      \/ \E i \in scanned \cap Later(after) : ~Covers(who, Artifact[i])]

-----------------------------------------------------------------------------
(* Time-driven changes (tick_evidence). *)

StagingDue(a) ==
    /\ art[a].state = "staged" /\ config.timeout # NoTimeout
    /\ art[a].at + config.timeout <= now

\* Mutant: a hold that has ended still keeps a purge waiting.
PurgeDueUnheld(a) ==
    Sealed(a) /\ art[a].purge = "pending" /\ art[a].due <= now /\ HoldsOn(a) = {}

PurgeDue(a) == Sealed(a) /\ art[a].purge = "pending" /\ art[a].due <= now

HoldDue(h) == Active(h) /\ hold[h].expires # NoTimeout /\ hold[h].expires <= now

Abandoned(a) == art' = [art EXCEPT ![a] = [state |-> "abandoned", digest |-> @.digest]]

ExpireStaging(a) ==
    /\ up /\ ~ticked /\ doing = Idle /\ StagingDue(a)
    /\ Abandoned(a)
    /\ chunks' = [chunks EXCEPT ![a] = {}]
    /\ UNCHANGED <<hold, objects, staging, now, config, doing, ticked, polling, up,
                   crashes, spoiled, left, listing>>

\* The purge is confirmed by a transaction; its object is deleted after.
ConfirmPurge(a) ==
    /\ up /\ ~ticked /\ doing = Idle /\ PurgeDue(a)
    /\ art' = [art EXCEPT ![a].purge = "confirmed"]
    /\ doing' = [op |-> "delete", digest |-> art[a].digest]
    /\ UNCHANGED <<hold, chunks, objects, staging, now, config, ticked, polling, up,
                   crashes, spoiled, left, listing>>

\* The holds come after the artifacts.
ExpireHold(h) ==
    /\ up /\ ~ticked /\ doing = Idle /\ HoldDue(h)
    /\ \A a \in Ids : ~StagingDue(a) /\ ~PurgeDue(a)
    /\ hold' = [hold EXCEPT ![h].state = "expired"]
    /\ UNCHANGED <<art, chunks, objects, staging, now, config, doing, ticked, polling, up,
                   crashes, spoiled, left, listing>>

\* What the two tables have due is done before a job seals anything.
NothingDue ==
    /\ \A a \in Ids : ~StagingDue(a) /\ ~PurgeDue(a)
    /\ \A h \in Hold : ~HoldDue(h)

\* The object of a row, before the row: one that verifies is used as it is; one
\* that does not is removed, and the bytes are staged beside it (publish_object).
BeginSeal(row) ==
    IF objects[row.digest] = "good"
    THEN doing' = [op |-> "seal", row |-> row] /\ UNCHANGED <<objects, staging>>
    ELSE /\ doing' = [op |-> "publish", row |-> row]
         /\ objects' = [objects EXCEPT ![row.digest] = "none"]
         /\ staging' = staging \cup {row.digest}

\* seal_derivation, seal_source: nothing that has a revision is sealed again.
SealRow(row) ==
    /\ up /\ ~ticked /\ doing = Idle /\ NothingDue
    /\ art[row.artifact].state = "none"
    /\ BeginSeal(row)
    /\ UNCHANGED <<art, hold, chunks, now, config, ticked, polling, up, crashes, spoiled, left, listing>>

\* A pass begins with a request that arrives (handle), or with a poll.
BeginTick ==
    /\ up /\ ticked /\ doing = Idle
    /\ ticked' = FALSE
    /\ UNCHANGED <<art, hold, chunks, objects, staging, now, config, doing, polling, up,
                   crashes, spoiled, left, listing>>

EndTick ==
    /\ up /\ ~ticked /\ doing = Idle /\ NothingDue
    /\ ticked' = TRUE
    /\ UNCHANGED <<art, hold, chunks, objects, staging, now, config, doing, polling, up,
                   crashes, spoiled, left, listing>>

-----------------------------------------------------------------------------
(* Commands.  Each is one that passes step 6, in a state where the code does *)
(* not refuse it: a refusal changes nothing.                                 *)

Serving == up /\ ticked /\ doing = Idle

\* A session at a socket that was answered one of these polls from now on.
OwesMaintenance == polling' = (polling \/ config.socket)

\* A caller names an id that is taken only as far as Over says.
Free(state) == state \in {"none"} \cup Over

\* evidence_prepare: the record is written whatever was there, and the chunks
\* and holds of what was there are not looked at.
Prepare(who, a, d) ==
    /\ Serving /\ May(who, "evidence.publish", a) /\ Free(art[a].state)
    /\ art' = [art EXCEPT ![a] = [state |-> "staged", digest |-> d, received |-> 0, at |-> now]]
    /\ ticked' = FALSE /\ OwesMaintenance
    /\ UNCHANGED <<hold, chunks, objects, staging, now, config, doing, up,
                   crashes, spoiled, left, listing>>

\* evidence_append: the bytes and the count in one transaction, which the key
\* of the chunk table refuses at an offset that has a row.
AppendChunk(who, a, of, offset, len) ==
    /\ Serving /\ May(who, "evidence.publish", a) /\ art[a].state = "staged"
    /\ len \in 0..MaxChunk /\ offset = art[a].received
    /\ art[a].received + len <= Size[art[a].digest]
    /\ \A c \in chunks[a] : c.offset # offset
    /\ art' = [art EXCEPT ![a].received = @ + len]
    /\ chunks' = [chunks EXCEPT ![a] = @ \cup {[offset |-> offset, len |-> len, of |-> of]}]
    /\ ticked' = FALSE
    /\ UNCHANGED <<hold, objects, staging, now, config, doing, polling, up, crashes, spoiled, left, listing>>

\* staged_bytes are those the digest names.
Whole(a) ==
    /\ \A c \in chunks[a] : c.of = art[a].digest \/ c.len = 0
    /\ MapThenSumSet(LAMBDA c : c.len, chunks[a]) = Size[art[a].digest]

\* evidence_seal
Seal(who, a) ==
    /\ Serving /\ May(who, "evidence.publish", a) /\ art[a].state = "staged"
    /\ art[a].received = Size[art[a].digest] /\ Whole(a)
    /\ BeginSeal([artifact |-> a, digest |-> art[a].digest, under |-> {}])
    /\ ticked' = FALSE
    /\ UNCHANGED <<art, hold, chunks, now, config, polling, up, crashes, spoiled, left, listing>>

\* publish_object: what was staged is verified from the disk and renamed.
Publish ==
    /\ up /\ doing.op = "publish"
    /\ objects' = [objects EXCEPT ![doing.row.digest] = "good"]
    /\ staging' = staging \ {doing.row.digest}
    /\ spoiled' = spoiled \ {doing.row.digest}
    /\ doing' = [op |-> "seal", row |-> doing.row]
    /\ UNCHANGED <<art, hold, chunks, now, config, ticked, polling, up, crashes, left, listing>>

\* The row that names the object, and the end of the chunks, in one transaction.
CommitSeal ==
    /\ up /\ doing.op = "seal"
    /\ art' = [art EXCEPT ![doing.row.artifact] =
                   [state |-> "sealed", digest |-> doing.row.digest, purge |-> "no", due |-> 0,
                    under |-> doing.row.under]]
    /\ chunks' = [chunks EXCEPT ![doing.row.artifact] = {}]
    /\ doing' = Idle /\ left' = left \ {doing.row.digest}
    /\ UNCHANGED <<hold, objects, staging, now, config, ticked, polling, up, crashes, spoiled, listing>>

\* The store refuses the transaction, or the pass that sealed is dropped with its
\* batch: the object stays.
RefuseSeal ==
    /\ up /\ doing.op = "seal"
    /\ doing' = Idle /\ left' = left \cup {doing.row.digest}
    /\ UNCHANGED <<art, hold, chunks, objects, staging, now, config, ticked, polling, up, crashes, spoiled, listing>>

\* evidence_abandon
Abandon(who, a) ==
    /\ Serving /\ May(who, "evidence.publish", a) /\ art[a].state = "staged"
    /\ Abandoned(a)
    /\ chunks' = [chunks EXCEPT ![a] = {}]
    /\ ticked' = FALSE
    /\ UNCHANGED <<hold, objects, staging, now, config, doing, polling, up, crashes, spoiled, left, listing>>

\* Mutant: a hold is placed on an artifact whose purge was requested.
PlaceHoldSealed(who, h, a, expires) ==
    /\ Serving /\ May(who, "evidence.hold", a) /\ Sealed(a) /\ Free(hold[h].state)
    /\ expires = NoTimeout \/ expires > now
    /\ hold' = [hold EXCEPT ![h] = [state |-> "active", artifact |-> a, owner |-> who,
                                    expires |-> expires]]
    /\ ticked' = FALSE /\ OwesMaintenance
    /\ UNCHANGED <<art, chunks, objects, staging, now, config, doing, up, crashes, spoiled, left, listing>>

\* evidence_hold
PlaceHold(who, h, a, expires) ==
    /\ Serving /\ May(who, "evidence.hold", a) /\ Kept(a) /\ Free(hold[h].state)
    /\ expires = NoTimeout \/ expires > now
    /\ hold' = [hold EXCEPT ![h] = [state |-> "active", artifact |-> a, owner |-> who,
                                    expires |-> expires]]
    /\ ticked' = FALSE /\ OwesMaintenance
    /\ UNCHANGED <<art, chunks, objects, staging, now, config, doing, up, crashes, spoiled, left, listing>>

\* authorize_release
MayRelease(who, h) ==
    \/ hold[h].state # "none" /\ hold[h].owner = who
    \/ May(who, "evidence.release", h)

\* evidence_release
Release(who, h) ==
    /\ Serving /\ MayRelease(who, h) /\ Active(h)
    /\ hold' = [hold EXCEPT ![h].state = "released"]
    /\ ticked' = FALSE
    /\ UNCHANGED <<art, chunks, objects, staging, now, config, doing, polling, up, crashes, spoiled, left, listing>>

\* evidence_purge: the holds it names are released with it, any other active
\* hold blocks it, and without a delay the object is deleted once the
\* transaction is done.
Purge(who, a, named) ==
    /\ Serving /\ May(who, "evidence.purge", a) /\ \A h \in named : MayRelease(who, h)
    /\ Kept(a)
    /\ named \subseteq HoldsOn(a) /\ {h \in HoldsOn(a) : Active(h)} = named
    /\ LET immediate == config.delay = 0
       IN  /\ art' = [art EXCEPT ![a].purge = IF immediate THEN "confirmed" ELSE "pending",
                                 ![a].due = now + config.delay]
           /\ doing' = IF immediate THEN [op |-> "delete", digest |-> art[a].digest] ELSE Idle
    /\ hold' = [h \in Hold |-> IF h \in named THEN [hold[h] EXCEPT !.state = "released"] ELSE hold[h]]
    /\ ticked' = FALSE /\ OwesMaintenance
    /\ UNCHANGED <<chunks, objects, staging, now, config, up, crashes, spoiled, left, listing>>

\* Mutant: the object goes with the first artifact that names it.
DeleteAlways ==
    /\ up /\ doing.op = "delete"
    /\ objects' = [objects EXCEPT ![doing.digest] = "none"]
    /\ doing' = Idle /\ left' = left \ {doing.digest}
    /\ UNCHANGED <<art, hold, chunks, staging, now, config, ticked, polling, up, crashes, spoiled, listing>>

\* delete_if_unreferenced: equal bytes are one object.
DeleteIfUnreferenced ==
    /\ up /\ doing.op = "delete"
    /\ objects' = IF doing.digest \in Roots THEN objects
                  ELSE [objects EXCEPT ![doing.digest] = "none"]
    /\ doing' = Idle /\ left' = left \ {doing.digest}
    /\ UNCHANGED <<art, hold, chunks, staging, now, config, ticked, polling, up, crashes, spoiled, listing>>

\* A lister asks for the next page, or begins again.
List(who) ==
    /\ Serving
    /\ LET begins == ~listing.more
           page == Page(who, IF begins THEN "" ELSE listing.last)
           was == IF begins THEN [items |-> {}, hid |-> FALSE,
                                  since |-> {a \in There : Readable(who, a)},
                                  others |-> {a \in There : ~Readable(who, a)}]
                  ELSE listing
       IN  /\ ~begins => listing.who = who
           /\ listing' =
                [who |-> who, more |-> page.more, last |-> page.last, filtered |-> page.filtered,
                 hid |-> was.hid \/ page.filtered, items |-> was.items \cup page.items,
                 since |-> was.since, others |-> was.others]
    /\ ticked' = FALSE
    /\ UNCHANGED <<art, hold, chunks, objects, staging, now, config, doing, polling, up, crashes, spoiled, left>>

-----------------------------------------------------------------------------
(* The surroundings, and starts. *)

Advance ==
    /\ now < MaxNow
    /\ now' = now + 1
    /\ UNCHANGED <<art, hold, chunks, objects, staging, config, doing, ticked, polling, up,
                   crashes, spoiled, left, listing>>

\* The disk alters a published file.
Spoil(d) ==
    /\ objects[d] = "good" /\ d \notin spoiled
    /\ objects' = [objects EXCEPT ![d] = "bad"]
    /\ spoiled' = spoiled \cup {d}
    /\ UNCHANGED <<art, hold, chunks, staging, now, config, doing, ticked, polling, up, crashes, left, listing>>

\* A session at the socket subscribes; the last of those that poll ends.
Subscribe ==
    /\ up /\ config.socket /\ polling' = TRUE
    /\ UNCHANGED <<art, hold, chunks, objects, staging, now, config, doing, ticked, up,
                   crashes, spoiled, left, listing>>

Close ==
    /\ up /\ polling' = FALSE
    /\ UNCHANGED <<art, hold, chunks, objects, staging, now, config, doing, ticked, up,
                   crashes, spoiled, left, listing>>

Crash ==
    /\ up /\ crashes < MaxCrashes
    /\ up' = FALSE /\ doing' = Idle /\ polling' = FALSE /\ crashes' = crashes + 1
    /\ UNCHANGED <<art, hold, chunks, objects, staging, now, config, ticked, spoiled, left, listing>>

Garbage == {d \in Digest : objects[d] # "none" /\ d \notin Roots}

\* collect_unreferenced_objects, one file at a time: a crash may end it early.
Collect(d) ==
    /\ ~up
    /\ \/ /\ d \in Garbage
          /\ objects' = [objects EXCEPT ![d] = "none"] /\ UNCHANGED staging
       \/ /\ Garbage = {} /\ d \in staging
          /\ staging' = staging \ {d} /\ UNCHANGED objects
    /\ UNCHANGED <<art, hold, chunks, now, config, doing, ticked, polling, up, crashes, spoiled, left, listing>>

Start(c) ==
    /\ ~up /\ Garbage = {} /\ staging = {}
    /\ up' = TRUE /\ config' = c /\ ticked' = FALSE /\ left' = {}
    /\ UNCHANGED <<art, hold, chunks, objects, staging, now, doing, polling, crashes, spoiled, listing>>

Init ==
    /\ art = [a \in Ids |-> NoArtifact]
    /\ hold = [h \in Hold |-> NoHold]
    /\ chunks = [a \in Ids |-> {}]
    /\ objects = [d \in Digest |-> "none"]
    /\ staging = {} /\ now = 0 /\ config \in Config
    /\ doing = Idle /\ ticked = FALSE /\ polling = FALSE /\ up = TRUE
    /\ crashes = 0 /\ spoiled = {} /\ left = {}
    /\ listing = [who |-> "", more |-> FALSE, last |-> "", filtered |-> FALSE, hid |-> FALSE,
                  items |-> {}, since |-> {}, others |-> {}]

Tick ==
    \/ \E a \in Ids : ExpireStaging(a) \/ ConfirmPurge(a)
    \/ \E h \in Hold : ExpireHold(h)
    \/ \E row \in TickRow : SealRow(row)
    \/ BeginTick \/ EndTick

\* poll_idle: it returns at once unless its session subscribed or owes maintenance.
Poll == polling /\ Tick

Finish == Publish \/ CommitSeal \/ DeleteIfUnreferenced

Request(who) ==
    \/ \E a \in Ids :
        \/ \E d \in Digest : Prepare(who, a, d)
        \/ \E of \in Digest, offset \in Nat, len \in 0..MaxChunk :
               AppendChunk(who, a, of, offset, len)
        \/ Seal(who, a) \/ Abandon(who, a)
        \/ \E named \in SUBSET Hold : Purge(who, a, named)
        \/ \E h \in Hold, expires \in {NoTimeout} \cup Nat : PlaceHold(who, h, a, expires)
    \/ \E h \in Hold : Release(who, h)
    \/ List(who)

\* Any request, of anyone, in any order.  The runs take those of a story.
Next ==
    \/ Tick \/ Finish \/ RefuseSeal \/ Subscribe \/ Close \/ Advance \/ Crash
    \/ \E who \in Principal : Request(who)
    \/ \E d \in Digest : Spoil(d) \/ Collect(d)
    \/ \E c \in Config : Start(c)

Spec == Init /\ [][Next]_vars

-----------------------------------------------------------------------------
(* Properties. *)

\* The shape of the records; an upload never holds more than it declared
\* (evidence_append), and only an upload under way has rows of chunks.
TypeOK ==
    /\ \A a \in Ids :
        /\ art[a].state \in {"none", "staged", "sealed", "abandoned"}
        /\ art[a].state = "staged" => art[a].received \in 0..Size[art[a].digest]
        /\ Sealed(a) => art[a].purge \in {"no", "pending", "confirmed"}
    /\ \A h \in Hold : hold[h].state \in {"none", "active", "released", "expired"}
    /\ \A d \in Digest : objects[d] \in {"none", "good", "bad"}
    /\ doing.op \in {"none", "publish", "seal", "delete"}

\* Bytes of an upload that ended are not left behind: a row of chunks belongs
\* to an upload that is still staged (evidence_abandon, evidence_seal,
\* tick_evidence each discard them with the record they write).
NoBytesLeftBehind == \A a \in Ids : chunks[a] # {} => art[a].state = "staged"

\* The bytes a record owes its readers are on the disk: wherever a crash falls
\* between publishing, committing, confirming and deleting, and whichever other
\* artifact with equal bytes is purged, an object that a sealed artifact names is
\* there, unless the disk itself altered it.
OwedBytesKept == \A d \in Roots \ spoiled : objects[d] = "good"

\* Once a purge is confirmed and no other artifact keeps the bytes, they are gone
\* before anyone is served again (collect_unreferenced_objects: "no reader can
\* observe `purged` while those bytes remain"), but for bytes that were published
\* again for a row that was then refused.
PurgedIsGone ==
    Serving => \A a \in Ids : Sealed(a) /\ art[a].purge = "confirmed" /\ art[a].digest \notin Roots \cup left
                                  => objects[art[a].digest] = "none"

\* Bytes are kept for as long as a record owes them and no longer, wherever a
\* crash falls between a file and its row (evidence_seal, tick_evidence,
\* delete_if_unreferenced, collect_unreferenced_objects).
BytesFollowRecords == TypeOK /\ NoBytesLeftBehind /\ OwedBytesKept /\ PurgedIsGone

\* An active hold keeps what it is on: the artifact is sealed and no purge of it
\* has been requested.
HeldIsKept == \A h \in Hold : Active(h) => Kept(hold[h].artifact)

\* Verdicts on a manifest: a reader that is told "complete" can fetch every
\* required child, but for a derivation made from what it may not read, which the
\* verdict does not ask about; and no other reader is told "incomplete" of it,
\* whatever each of them may read (completeness, evidence_fetch).
VerdictsHold ==
    \A m \in Ids : Sealed(m) =>
        \A who \in Principal : MayRead(who, m) /\ Told(who, m, "complete") =>
            /\ \A c \in Children[art[m].digest] : c.required =>
                   Fetch(who, c.artifact, c.digest, 0, MaxChunk).answer =
                       IF Covers(who, c.artifact) THEN "bytes" ELSE "denied"
            /\ \A other \in Principal : MayRead(other, m) => ~Told(other, m, "incomplete")

\* A lister that follows cursors to the end has been shown every artifact that was
\* there when it began and that it could read then, and none that inspection would
\* refuse it, whatever was prepared, purged, sealed or restarted in between.  The
\* last page says whether its grant hid anything; of a derivation that was hidden
\* some page says so.
ListingIsComplete ==
    /\ \A a \in listing.items : Inspect(listing.who, a).answer = "told"
    /\ listing.who # "" /\ ~listing.more =>
        /\ listing.since \subseteq listing.items
        /\ (\E a \in listing.others : ~MayRead(listing.who, a)) => listing.filtered
        /\ (\E a \in listing.others : ~Covers(listing.who, a)) => listing.hid

\* What readers are told is so, for each of them and over several requests
\* (inspect, completeness, fetch, list).
ReadsAreTrue == VerdictsHold /\ ListingIsComplete

\* A purge that was accepted is confirmed as long as a session polls, and once it
\* is confirmed its bytes go, whoever polls and wherever the process is killed,
\* unless another artifact keeps them or a row for them was refused.
PurgesEnd ==
    \A a \in Ids :
        (Sealed(a) /\ (art[a].purge = "confirmed" \/ (art[a].purge = "pending" /\ polling))) ~>
            (/\ Sealed(a)
             /\ \/ art[a].purge = "pending" /\ ~polling
                \/ /\ art[a].purge = "confirmed"
                   /\ art[a].digest \in Roots \cup left \/ objects[art[a].digest] = "none")
=============================================================================
