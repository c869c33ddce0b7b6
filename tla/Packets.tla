------------------------------ MODULE Packets ------------------------------
(***************************************************************************)
(* What one packet revision carries and says of the items it was asked for *)
(* (context.rs).  A section is a record                                    *)
(*   item        the item it is for, or "" when it is attached to none     *)
(*   size        the bytes of its content                                  *)
(*   rev         the authority revision it derives from, 0 for none        *)
(*   historical  it is not current                                         *)
(*   claim       "none", or what reading its claim gave: "read", "short"   *)
(*               (below what the item asks), "unread"                      *)
(*   ids         whether every id it names is inside the grammar           *)
(* `items` maps an item to its obligation.                                 *)
(***************************************************************************)
EXTENDS Integers, Sequences, SequencesExt

\* The elements of s that are in S, in their order.
Where(s, S) ==
    LET Upto[n \in 0 .. Len(s)] ==
            IF n = 0 THEN <<>>
            ELSE IF s[n] \in S THEN Append(Upto[n - 1], s[n]) ELSE Upto[n - 1]
    IN Upto[Len(s)]

Supplied == 1   \* the revision of the authority content a request brings

is_required(items, i) == i \in DOMAIN items /\ items[i] # "advisory"

Total(sections) ==
    LET Sum[n \in 0 .. Len(sections)] == IF n = 0 THEN 0 ELSE Sum[n - 1] + sections[n].size
    IN Sum[Len(sections)]

\* The bytes the sections of required items take.
mandatory_size(sections, items) ==
    Total(Where(sections, {s \in ToSet(sections) : is_required(items, s.item)}))

Carried(s) == s.claim # "unread"

\* Which sections fit: all that required items need, then the others in order
\* while there is room.
inclusion(sections, items, capacity) ==
    LET Needed(s) == Carried(s) /\ is_required(items, s.item)
        reserved == Total(Where(sections, {s \in ToSet(sections) : Needed(s)}))
        Room[n \in 0 .. Len(sections)] ==
            IF n = 0 THEN capacity - reserved
            ELSE LET s == sections[n] IN
                 IF Carried(s) /\ ~Needed(s) /\ s.size <= Room[n - 1]
                 THEN Room[n - 1] - s.size ELSE Room[n - 1]
    IN {n \in DOMAIN sections :
            Needed(sections[n]) \/ (Carried(sections[n]) /\ sections[n].size <= Room[n - 1])}

\* Whether a section meets its item's check, with the revision the authority
\* corrected the item to (0 when it did not).
check_passes(s, corrected) ==
    /\ s.claim \in {"none", "read"}
    /\ s.rev = 0 \/ s.rev = IF corrected # 0 THEN corrected ELSE Supplied

\* The reason a claim check gives, from the first section that has a claim.
claim_reason(sections, i) ==
    LET ours == Where(sections, {s \in ToSet(sections) : s.item = i /\ s.claim # "none"}) IN
    IF ours = <<>> THEN ""
    ELSE CASE ours[1].claim = "unread" -> "knowledge_unavailable"
           [] ours[1].claim = "short" -> "insufficient_reliance"
           [] ours[1].claim = "read" -> IF ours[1].historical THEN "invalid_for_target" ELSE ""

\* Mutant: content from a revision that was corrected since still satisfies.
AnySatisfies(sections, items, capacity, corrections, i) ==
    \E n \in inclusion(sections, items, capacity) :
        sections[n].item = i /\ sections[n].claim \in {"none", "read"}

Satisfied(sections, items, capacity, corrections, i) ==
    \E n \in inclusion(sections, items, capacity) :
        /\ sections[n].item = i /\ ~sections[n].historical
        /\ check_passes(sections[n], corrections[i])

\* Each item's result and reason.  `unmet` holds the reasons preparation itself
\* gave ("" for none), `reason` why it ended.
item_results(sections, items, capacity, corrections, unmet, finishing, reason) ==
    LET Omitted(i) == \E n \in DOMAIN sections \ inclusion(sections, items, capacity) :
                          sections[n].item = i /\ ~sections[n].historical
        Cause(i) == IF claim_reason(sections, i) # "" THEN claim_reason(sections, i)
                    ELSE IF Omitted(i) THEN "output_capacity"
                    ELSE IF corrections[i] # 0 THEN "corrected_during_preparation"
                    ELSE IF reason # "" THEN reason ELSE "unavailable"
    IN [i \in DOMAIN items |->
            IF Satisfied(sections, items, capacity, corrections, i) THEN <<"satisfied", "">>
            ELSE IF unmet[i] # "" THEN <<"unmet", unmet[i]>>
            ELSE IF ~finishing THEN <<"pending", "">>
            ELSE <<IF is_required(items, i) THEN "unmet" ELSE "degraded", Cause(i)>>]

\* The results of a request that nothing was published to.
refused_items(items, reason) ==
    [i \in DOMAIN items |-> <<IF is_required(items, i) THEN "unmet" ELSE "degraded", reason>>]

state_of(results) ==
    LET Some(what) == \E i \in DOMAIN results : results[i][1] = what IN
    IF Some("unmet") THEN "unmet" ELSE IF Some("degraded") THEN "partial" ELSE "ready"

compile_packet(sections, items, capacity, corrections, unmet, reason) ==
    LET in == inclusion(sections, items, capacity)
        results == item_results(sections, items, capacity, corrections, unmet, TRUE, reason)
        carried == Where([n \in DOMAIN sections |-> n], in)
    IN [items |-> results, state |-> state_of(results),
        sections |-> [n \in DOMAIN carried |-> sections[carried[n]]]]

\* The last check before publication: an id outside the grammar.  The code
\* looks beyond the carried sections, at omissions, authority and conditions,
\* and at ids named twice; a section's flag stands for all of it.
ids_outside_grammar(packet) == \E n \in DOMAIN packet.sections : ~packet.sections[n].ids
=============================================================================
