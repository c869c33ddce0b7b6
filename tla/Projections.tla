----------------------------- MODULE Projections -----------------------------
(***************************************************************************)
(* The projection of a large test log (projection.rs) and the call site    *)
(* that decides an `evidence_included` item with it (Provider::project).    *)
(*                                                                         *)
(* A log is a sequence of line classes, as `classify` names them, each     *)
(* line one byte long, or bytes that are not text.  It is cut into units,  *)
(* the units into parts, and the deterministic rule's excerpts are the     *)
(* floor a model may add to.  Widths the code counts in bytes of a         *)
(* rendering (the header, a frame around an excerpt, an omission's line)   *)
(* are constants; the JSON formats, which are cut by their own structure,  *)
(* are left out: their units meet the same partition, offer and render.    *)
(***************************************************************************)
EXTENDS Integers, Sequences, FiniteSets, SequencesExt

CONSTANTS UnitBytes, BlockLines, PartBytes, PartUnits, MaxParts,
          ProjectionBytes, MaxExcerpts,
          CandidateFrame,  \* what a part's body spends around one candidate
          Header,          \* the header of a projection
          ExcerptFrame,    \* the two lines around an excerpt
          Shorter, Longer, \* an omission's line, under not_selected and over_projection
          ModelLabel,      \* what the model arm's label adds before its list
          CutLine,         \* an unresolved line
          Texts, Investigation

VARIABLES log,      \* the artifact: [text, lines]
          may_ask,  \* a model is configured and the request authorised investigation
          plan,     \* its units, parts, cut groups, floor and questions
          replies,  \* the parts' answers, in the order of the questions
          outcome   \* what the item was decided with
projecting == <<log, may_ask, plan, replies, outcome>>

(* The members of `S`, in order; byte order where `S` is of units.         *)
InOrder(S, n) == SelectSeq([i \in 1 .. n |-> i], LAMBDA i : i \in S)

(* A heading is of a run (`Running`, `Doc-tests`), and so are its count of *)
(* tests and its result; a status is a test's that passed or was ignored.  *)
Identity == {"heading", "run"}
Ordinary == {"status", "failures", "blank", "other"}
Classes  == Identity \cup Ordinary \cup {"failed", "block", "error"}

(* A rendering may list every excerpt, an omission's longer reason is the  *)
(* longer one, and a projection of nothing fits.                           *)
ASSUME WidthsAssumption ==
  /\ {UnitBytes, BlockLines, PartBytes, PartUnits, MaxParts, MaxExcerpts} \subseteq Nat \ {0}
  /\ Shorter <= Longer
  /\ MaxParts < 10
  /\ Header + Longer <= ProjectionBytes

--------------------------------------------------------------------------
(* Reading: which block each line is read into.                            *)

(* is_libtest: a line that cargo's harness writes and nothing else much.   *)
(* A heading, a block or an error alone does not make a text its output.   *)
is_libtest(lines) == \E i \in DOMAIN lines : lines[i] \in {"run", "status", "failed"}

(* Whether a line goes on with the block the line before it is in.         *)
Continues(block, class) ==
  \/ block = "identity" /\ class = "blank"
  \/ block = "block" /\ class \notin {"block", "failures"} \cup Identity
  \/ block = "error" /\ class \notin {"blank"} \cup Identity
  \/ block = "other" /\ class \in Ordinary

Opens(class) ==
  CASE class \in Identity -> "identity" [] class \in Ordinary -> "other" [] OTHER -> class

(* libtest: the block of each line and the line the block starts at.       *)
libtest(lines) ==
  LET block[i \in 0 .. Len(lines)] ==
        IF i = 0 THEN [kind |-> "none", from |-> 0]
        ELSE IF Continues(block[i - 1].kind, lines[i]) THEN block[i - 1]
        ELSE [kind |-> Opens(lines[i]), from |-> i]
  IN  [i \in 1 .. Len(lines) |-> block[i]]

(* plain: any other text is ordinary lines, whatever they look like.       *)
plain(lines) == [i \in 1 .. Len(lines) |-> [kind |-> "other", from |-> 1]]

KindOf(block) ==
  CASE block = "identity" -> "identity"
    [] block = "other" -> "other"
    [] OTHER -> "failure"

(* The line a group, and a unit of it, start at: ordinary lines are cut    *)
(* into groups of BlockLines and every group into units of UnitBytes.      *)
GroupStart(block, i) ==
  IF block[i].kind = "other"
  THEN i - ((i - block[i].from) % BlockLines)
  ELSE block[i].from

UnitStart(block, i) == i - ((i - GroupStart(block, i)) % UnitBytes)

(* push: the units, in byte order, which tile the lines.                   *)
push(block) ==
  LET starts == InOrder({i \in DOMAIN block : UnitStart(block, i) = i}, Len(block))
  IN  [u \in 1 .. Len(starts) |->
         [start |-> starts[u],
          end   |-> IF u = Len(starts) THEN Len(block) ELSE starts[u + 1] - 1,
          kind  |-> KindOf(block[starts[u]].kind),
          group |-> GroupStart(block, starts[u])]]

Size(unit) == unit.end - unit.start + 1

(* read: an artifact that is not text has no units.                        *)
read(a) ==
  IF ~a.text THEN << >>
  ELSE push(IF is_libtest(a.lines) THEN libtest(a.lines) ELSE plain(a.lines))

Of(units, kind) == {u \in DOMAIN units : units[u].kind = kind}

too_large(a) == Len(a.lines) > MaxParts * PartBytes

--------------------------------------------------------------------------
(* Partitioning.                                                           *)

cost(unit) == Size(unit) + CandidateFrame

Total(units, members) ==
  FoldLeft(LAMBDA sum, u : sum + cost(units[u]), 0, members)

(* The units that are not run identity, group by group, in byte order.     *)
Groups(units) ==
  LET offerable == {u \in DOMAIN units : units[u].kind # "identity"}
      groups    == IF units = << >> THEN << >>
                   ELSE InOrder({units[u].group : u \in offerable}, units[Len(units)].end)
  IN  [g \in DOMAIN groups |->
         InOrder({u \in offerable : units[u].group = groups[g]}, Len(units))]

(* Whether `more` candidates of `bytes` overflow the part in progress.     *)
Overflows(p, bytes, more) ==
  /\ p.current # << >>
  /\ p.used + bytes > PartBytes \/ Len(p.current) + more > PartUnits

Closed(p) ==
  [p EXCEPT !.parts = Append(@, p.current), !.current = << >>, !.used = 0]

Place(p, members, bytes) ==
  LET at == IF Overflows(p, bytes, Len(members)) THEN Closed(p) ELSE p
  IN  [at EXCEPT !.current = @ \o members, !.used = @ + bytes]

(* A group that fits in one part goes into one whole; a larger one is cut  *)
(* piece by piece, which is recorded.                                      *)
CutGroup(units, p, members) ==
  LET bytes  == Total(units, members)
      pieces == FoldLeft(LAMBDA at, u : Place(at, <<u>>, cost(units[u])), p, members)
  IN  IF bytes <= PartBytes /\ Len(members) <= PartUnits
      THEN Place(p, members, bytes)
      ELSE [pieces EXCEPT !.split = Append(@, ToSet(members))]

cut(units) ==
  LET nothing == [parts |-> << >>, current |-> << >>, used |-> 0, split |-> << >>]
      last    == FoldLeft(LAMBDA p, members : CutGroup(units, p, members),
                          nothing, Groups(units))
  IN  [parts |-> IF last.current = << >> THEN last.parts
                 ELSE Append(last.parts, last.current),
       split |-> last.split]

--------------------------------------------------------------------------
(* Drawing.  `chooser` is the floor in the model arm, and {} elsewhere: a  *)
(* run of carried units is cut wherever the chooser changes.               *)

Starts(units, carried, chooser) ==
  {u \in DOMAIN units :
     \/ u = 1
     \/ (u \in carried) # ((u - 1) \in carried)
     \/ u \in carried /\ (u \in chooser) # ((u - 1) \in chooser)}

(* Where the run holding `u` starts, and the units of the run at `s`.      *)
RunStart(starts, u) == CHOOSE s \in starts : s <= u /\ \A t \in starts : t <= u => t <= s
Run(units, starts, s) == {u \in DOMAIN units : u >= s /\ RunStart(starts, u) = s}

reasons(over) == IF over THEN "over_projection" ELSE "not_selected"

(* The omitted runs over the projection: those holding anything chosen, or *)
(* run identity, and all of them where the widest rendering is measured.   *)
OverRuns(units, chosen, carried, starts, widest) ==
  IF widest THEN starts \ carried
  ELSE {RunStart(starts, u) : u \in (chosen \cup Of(units, "identity")) \ carried}

added_label(listed) == IF listed = 0 THEN 1 ELSE listed

(* What the model arm's header adds to the rule's.                         *)
Label(frame, listed) ==
  ModelLabel + CutLine * Cardinality(frame.split)
  + added_label(IF frame.widest THEN MaxExcerpts ELSE listed)

(* draw, measured: the bytes of a projection and its excerpts.             *)
Measure(units, by, chosen, carried, chooser, frame) ==
  LET starts   == Starts(units, carried, chooser)
      excerpts == starts \cap carried
      omitted  == starts \ carried
      over     == OverRuns(units, chosen, carried, starts, frame.widest)
  IN  [content  |-> Header
                    + (IF by = "model" THEN Label(frame, Cardinality(excerpts \ chooser)) ELSE 0)
                    + FoldFunction(+, 0, [u \in carried |-> Size(units[u])])
                    + ExcerptFrame * Cardinality(excerpts)
                    + Longer * Cardinality(over) + Shorter * Cardinality(omitted \ over),
       excerpts |-> Cardinality(excerpts)]

fits(measured) == measured.content <= ProjectionBytes /\ measured.excerpts <= MaxExcerpts

(* draw: the header's count of parts and unresolved lines, and the ledger. *)
draw(units, by, chosen, carried, chooser, frame) ==
  LET starts == Starts(units, carried, chooser)
      over   == OverRuns(units, chosen, carried, starts, frame.widest)
  IN  [by       |-> by, carried |-> carried, parts |-> frame.parts,
       split    |-> IF by = "model" THEN frame.split ELSE {},
       excerpts |-> {Run(units, starts, s) : s \in starts \cap carried},
       added    |-> IF by # "model" THEN {}
                    ELSE {Run(units, starts, s) : s \in (starts \cap carried) \ chooser},
       omitted  |-> {[units |-> Run(units, starts, s), reason |-> reasons(s \in over)] :
                     s \in starts \ carried},
       within   |-> fits(Measure(units, by, chosen, carried, chooser, frame))]

(* The groups the plan cut that were offered in more than one question.    *)
asked_split(p) ==
  {g \in ToSet(p.split) :
     Cardinality({q \in DOMAIN p.asked : ToSet(p.asked[q]) \cap g # {}}) > 1}

FrameOf(p) ==
  [parts |-> Len(p.asked), split |-> asked_split(p), widest |-> FALSE]

Widest(p) ==
  [parts |-> Len(p.parts), split |-> ToSet(p.split), widest |-> TRUE]

EverythingFits(p) ==
  LET every == DOMAIN p.units
  IN  fits(Measure(p.units, "everything", every, every, {}, FrameOf(p)))

--------------------------------------------------------------------------
(* Choosing.                                                               *)

choose_by_rule(units) == Of(units, "failure")

(* Mutant: what a model chooses replaces the rule's choice.                *)
Replaced(units, picked) == picked

choose_by_model(units, picked) == Of(units, "failure") \cup picked

(* Carry, after `base`, each unit of `order` that leaves a rendering that  *)
(* still fits.                                                             *)
Pack(p, by, chosen, base, chooser, order) ==
  LET keep(carried, u) ==
        IF fits(Measure(p.units, by, chosen, carried \cup {u}, chooser, FrameOf(p)))
        THEN carried \cup {u} ELSE carried
  IN  FoldLeft(keep, base, order)

(* floor: the failures and then run identity, each in byte order.          *)
floor(p) ==
  Pack(p, "rule", choose_by_rule(p.units), {}, {},
       InOrder(Of(p.units, "failure"), Len(p.units))
       \o InOrder(Of(p.units, "identity"), Len(p.units)))

(* offer: the units a model could add to the floor, each alone, drawn at   *)
(* the model arm's widest; none when the floor itself does not fit so.     *)
offer(p) ==
  LET measured(carried) ==
        Measure(p.units, "model", choose_by_model(p.units, {}), carried,
                p.rule, Widest(p))
  IN  IF fits(measured(p.rule))
      THEN {u \in Of(p.units, "other") : fits(measured(p.rule \cup {u}))}
      ELSE {}

(* questions: each part with only what could be added, none left empty.    *)
questions(p, addable) ==
  LET within == [i \in DOMAIN p.parts |->
                   SelectSeq(p.parts[i], LAMBDA u : u \in addable)]
  IN  SelectSeq(within, LAMBDA part : part # << >>)

(* work_out: the rule's floor and the questions that could add to it.      *)
work_out(p) ==
  LET floored == [p EXCEPT !.rule = floor(p)]
  IN  [floored EXCEPT !.asked = questions(floored, offer(floored))]

Insufficient(a, p) == Len(p.parts) > MaxParts \/ too_large(a)

(* partition: the parts, and the floor and the questions when a model may  *)
(* be asked about text within capacity that does not fit whole.            *)
partition(a, ask) ==
  LET units == read(a)
      p  == [units |-> units, parts |-> cut(units).parts, split |-> cut(units).split,
                asked |-> << >>, rule |-> {}, state |-> "planned"]
  IN  IF Insufficient(a, p) \/ ~a.text \/ ~ask \/ EverythingFits(p)
      THEN p ELSE work_out(p)

(* next: what is done about a read artifact, in the order that decides it. *)
next(a, p, ask) ==
  CASE Insufficient(a, p) -> "insufficient"
    [] ~a.text -> "not_text"
    [] EverythingFits(p) -> "everything"
    [] ~ask \/ p.asked = << >> -> "rule"
    [] OTHER -> "ask"

(* A plan made for a request that may ask nobody has its floor, and the    *)
(* questions its header counts, worked out where it is rendered.           *)
Worked(p) == IF p.asked = << >> THEN work_out(p) ELSE p

(* Mutant: the floor is packed again, in byte order, with what was chosen. *)
Repacked(p, by, picked) ==
  LET units   == p.units
      worked  == Worked(p)
      chosen  == IF by = "model" THEN choose_by_model(units, picked)
                 ELSE choose_by_rule(units)
      carried == Pack(worked, by, chosen, {}, {},
                      InOrder(Of(units, "identity") \cup chosen, Len(units)))
  IN  IF by = "everything"
      THEN draw(units, by, DOMAIN units, DOMAIN units, {}, FrameOf(p))
      ELSE draw(units, by, chosen, carried, worked.rule, FrameOf(worked))

(* render: what fits whole, whole; else the floor first, frozen, then the  *)
(* rest of what was chosen, in byte order, each kept only if the whole     *)
(* still fits.                                                             *)
render(p, by, picked) ==
  LET units   == p.units
      worked  == Worked(p)
      chosen  == IF by = "model" THEN choose_by_model(units, picked)
                 ELSE choose_by_rule(units)
      chooser == IF by = "model" THEN worked.rule ELSE {}
      rest    == InOrder((Of(units, "other") \cap chosen) \ worked.rule, Len(units))
      carried == Pack(worked, by, chosen, worked.rule, chooser, rest)
  IN  IF by = "everything"
      THEN draw(units, by, DOMAIN units, DOMAIN units, {}, FrameOf(p))
      ELSE draw(units, by, chosen, carried, chooser, FrameOf(worked))

(* Bytes that are not text: nothing carried, and all of it one omission.   *)
NotText(a) ==
  [by |-> "not_text", carried |-> {}, parts |-> 0, split |-> {}, excerpts |-> {},
   added |-> {}, within |-> TRUE,
   omitted |-> {[units |-> {}, reason |-> "not_text"] : i \in DOMAIN a.lines}]

--------------------------------------------------------------------------
(* Deciding the item, tick by tick.                                        *)

Open == [state |-> "open"]
Unmet(reason) == [state |-> "unmet", reason |-> reason]
Carried(drawn) == [state |-> "carried", drawn |-> drawn]

Unplanned == [state |-> "unplanned"]

Unanswered == [state |-> "waiting", picked |-> {}]

ProjectInit ==
  /\ log \in Texts
  /\ may_ask \in BOOLEAN
  /\ plan = Unplanned
  /\ replies = << >>
  /\ outcome = Open

(* An artifact too large is refused before a byte of it is read; otherwise *)
(* it is read and planned.                                                 *)
Read ==
  /\ outcome.state = "open" /\ plan.state = "unplanned"
  /\ IF too_large(log)
     THEN /\ outcome' = Unmet("insufficient_capacity")
          /\ UNCHANGED plan
     ELSE /\ plan' = partition(log, may_ask)
          /\ UNCHANGED outcome
  /\ UNCHANGED <<log, may_ask, replies>>

(* The bytes are read again at every tick of the item, and one may find    *)
(* them gone, or no longer the digest's: also while answers are awaited.   *)
Lost ==
  /\ outcome.state = "open" /\ ~too_large(log)
  /\ outcome' = Unmet("evidence_unavailable")
  /\ UNCHANGED <<log, may_ask, plan, replies>>

(* Decided without asking: over capacity, or a rendering nobody chooses.   *)
Decide ==
  /\ outcome.state = "open" /\ plan.state = "planned"
  /\ next(log, plan, may_ask) # "ask"
  /\ outcome' = CASE next(log, plan, may_ask) = "insufficient" -> Unmet("insufficient_capacity")
                  [] next(log, plan, may_ask) = "not_text" -> Carried(NotText(log))
                  [] OTHER -> Carried(render(plan, next(log, plan, may_ask), {}))
  /\ UNCHANGED <<log, may_ask, plan, replies>>

(* The questions are claimed together against the investigation's limit,   *)
(* and every one is started before any is waited for.                      *)
Ask ==
  /\ outcome.state = "open" /\ plan.state = "planned" /\ replies = << >>
  /\ next(log, plan, may_ask) = "ask"
  /\ IF Len(plan.asked) <= Investigation
     THEN /\ replies' = [q \in DOMAIN plan.asked |-> Unanswered]
          /\ UNCHANGED outcome
     ELSE /\ outcome' = Unmet("investigation_exhausted")
          /\ UNCHANGED replies
  /\ UNCHANGED <<log, may_ask, plan>>

(* chosen: a part's answer names some of what it was offered, or fails.    *)
Answer(q) ==
  /\ outcome.state = "open"
  /\ replies[q].state = "waiting"
  /\ \/ \E picked \in SUBSET ToSet(plan.asked[q]) :
          replies' = [replies EXCEPT ![q] = [state |-> "chose", picked |-> picked]]
     \/ replies' = [replies EXCEPT ![q].state = "failed"]
  /\ UNCHANGED <<log, may_ask, plan, outcome>>

(* Every part answered: one that failed ends the item, and otherwise what  *)
(* the model picked is added to the floor.                                 *)
Conclude ==
  /\ outcome.state = "open" /\ replies # << >>
  /\ \A q \in DOMAIN replies : replies[q].state # "waiting"
  /\ LET drawn == render(plan, "model", UNION {replies[q].picked : q \in DOMAIN replies})
     IN  outcome' = CASE \E q \in DOMAIN replies : replies[q].state = "failed" ->
                           Unmet("answer_failed")
                      [] drawn.within -> Carried(drawn)
                      [] OTHER -> Unmet("insufficient_capacity")
  /\ UNCHANGED <<log, may_ask, plan, replies>>

ProjectNext ==
  \/ Read \/ Lost \/ Decide \/ Ask \/ Conclude
  \/ \E q \in DOMAIN replies : Answer(q)

--------------------------------------------------------------------------
(* Properties.                                                             *)

Drawn == outcome.drawn
Projected == outcome.state = "carried" /\ log.text

(* project, draw: the ledger tiles the artifact (every unit in exactly one *)
(* excerpt or omission, whoever chose) and, in the harness's output, a     *)
(* line that names a failure or the run is carried or declared out of      *)
(* room, never `not_selected`, whatever a model answered and wherever the  *)
(* cutter put the line.  (In any other text such a line is an ordinary one *)
(* that nobody need select.)                                               *)
FailuresAccounted ==
  Projected =>
    LET units == plan.units
        runs  == Drawn.excerpts \cup {o.units : o \in Drawn.omitted}
    IN  /\ \A u \in DOMAIN units : Cardinality({r \in runs : u \in r}) = 1
        /\ \A i \in DOMAIN log.lines :
             is_libtest(log.lines) /\ log.lines[i] \in Classes \ Ordinary =>
               \A o \in Drawn.omitted :
                 (\E u \in o.units : i \in units[u].start .. units[u].end) =>
                   o.reason = "over_projection"

(* partition, offer, render: a model that was asked never costs the reader *)
(* anything.  Whatever it answers, the projection it adds to fits, carries *)
(* every unit the rule alone would have carried, and keeps the two         *)
(* choosers apart, so the label's list of the model's excerpts is exact.   *)
FloorKept ==
  /\ (outcome.state = "unmet" /\ replies # << >>) => outcome.reason # "insufficient_capacity"
  /\ Projected /\ replies # << >> =>
       LET rule == render(partition(log, FALSE), "rule", {}).carried
       IN  /\ rule \subseteq Drawn.carried
           /\ UNION Drawn.added = Drawn.carried \ rule

(* offer: a question no answer can change is not asked.  Every unit a      *)
(* model is offered is carried when it is the one picked.                  *)
OfferedIsAddable ==
  Projected /\ replies # << >> =>
    LET picked == UNION {replies[q].picked : q \in DOMAIN replies}
    IN  Cardinality(picked) = 1 => picked \subseteq Drawn.carried

(* render: the header counts the questions the input needs, and a request  *)
(* that may ask nobody prints the count a request that may ask prints.     *)
SameCount ==
  Projected /\ Drawn.by \in {"rule", "model"} =>
    Drawn.parts = IF replies # << >> THEN Len(replies) ELSE Len(partition(log, TRUE).asked)

(* cut, questions: what is put to a model.  Every unit that is not run     *)
(* identity is in exactly one part, a part is within its two bounds, a     *)
(* group that fits a part is in one, each question is part of a planned    *)
(* part, and a block a model saw in pieces is declared unresolved.         *)
PartsBounded ==
  log.text /\ plan.state = "planned" =>
    LET units == plan.units
        holding(u) == {p \in DOMAIN plan.parts : u \in ToSet(plan.parts[p])}
        together(g) == {u \in DOMAIN units : units[u].group = g}
    IN  /\ \A u \in DOMAIN units :
             Cardinality(holding(u)) = IF units[u].kind = "identity" THEN 0 ELSE 1
        /\ \A p \in DOMAIN plan.parts :
             Len(plan.parts[p]) <= PartUnits /\ Total(units, plan.parts[p]) <= PartBytes
        /\ \A u, v \in DOMAIN units :
             /\ units[u].kind # "identity" /\ units[u].group = units[v].group
             /\ together(units[u].group) \notin ToSet(plan.split)
             => holding(u) = holding(v)
        /\ \A q \in DOMAIN plan.asked : \E p \in DOMAIN plan.parts :
             ToSet(plan.asked[q]) \subseteq ToSet(plan.parts[p])
        /\ Projected /\ Drawn.by = "model" =>
             \A g \in {together(units[u].group) : u \in DOMAIN units} :
               Cardinality({q \in DOMAIN replies :
                              ToSet(plan.asked[q]) \cap g # {}}) > 1
               => g \in Drawn.split

(* What a projection says of its log and of the questions about it is so   *)
(* (cut, draw, render): nothing is left out in silence, the parts cover    *)
(* the log within their bounds, and the count it prints is the count.      *)
ProjectionAccounts == FailuresAccounted /\ PartsBounded /\ SameCount

(* A model only ever adds (offer, render): it costs the reader nothing the *)
(* rule would carry, and what it was offered it can add.                   *)
ModelOnlyAdds == FloorKept /\ OfferedIsAddable

==============================================================================
