------------------------------- MODULE Grants -------------------------------
(***************************************************************************)
(* A grant and the decisions read from it (grants.rs).                     *)
(*                                                                         *)
(* A subject key is [kind, id], an id a sequence of characters, so that a  *)
(* prefix is a prefix.  A resource is narrowed by an exact id, by a prefix *)
(* or not at all.  A decision is "ok" or the reason of the denial.         *)
(***************************************************************************)
EXTENDS Integers, Sequences, SequencesExt

NoExpiry == -1          \* expires_at is absent
Unbound == -1           \* authority_binding is absent; else the epoch it names
NoParent == <<>>        \* parent is absent

\* Resource: `narrowing` is "id", "prefix" or "none".
Resource(kind, narrowing, of) == [kind |-> kind, narrowing |-> narrowing, of |-> of]

\* A map with one entry written.
With(map, x, value) == [y \in DOMAIN map \cup {x} |-> IF y = x THEN value ELSE map[y]]

\* parse_resource: an id and a prefix are texts.
IsResource(resource) ==
    /\ resource.narrowing \in {"id", "prefix", "none"}
    /\ resource.narrowing # "none" => resource.of \in Seq(STRING)

Covers(resource, key) ==
    /\ resource.kind = key.kind
    /\ CASE resource.narrowing = "id"     -> resource.of = key.id
         [] resource.narrowing = "prefix" -> IsPrefix(resource.of, key.id)
         [] OTHER                         -> TRUE

\* An exact child under a prefixed parent, a longer prefix under a shorter one;
\* a child that is not narrowed is wider than any narrowed parent.
CoversResource(resource, narrower) ==
    /\ resource.kind = narrower.kind
    /\ CASE resource.narrowing = "none"   -> TRUE
         [] resource.narrowing = "id"     -> narrower = resource
         [] resource.narrowing = "prefix" -> /\ narrower.narrowing # "none"
                                             /\ IsPrefix(resource.of, narrower.of)

GrantCovers(grant, key) == \E resource \in grant.resources : Covers(resource, key)

\* Grant::usable: revocation, then expiry, then the epoch it is bound to.
Usable(grant, now, epoch) ==
    IF grant.revoked THEN "revoked"
    ELSE IF grant.expires # NoExpiry /\ now >= grant.expires THEN "expired"
    ELSE IF grant.binding # Unbound /\ epoch # grant.binding THEN "authority_epoch_stale"
    ELSE "ok"

\* Grant::permits: every right is looked at before any resource.  A need is a
\* right and the keys it is needed over, none of them for a right alone.
Permits(grant, needs) ==
    IF \E need \in needs : need.right \notin grant.rights THEN "right_missing"
    ELSE IF \E need \in needs : \E key \in need.over : ~GrantCovers(grant, key)
         THEN "out_of_scope"
    ELSE "ok"

GrantMayRead(grant, key, right) == right \in grant.rights /\ GrantCovers(grant, key)

\* Grant::may_delegate_to: a child never exceeds its parent.
MayDelegateTo(parent, child) ==
    /\ parent.allowed
    /\ parent.depth >= 1
    /\ child.rights \subseteq parent.rights
    /\ \A narrower \in child.resources :
           \E resource \in parent.resources : CoversResource(resource, narrower)
    /\ parent.expires # NoExpiry =>
           child.expires # NoExpiry /\ child.expires <= parent.expires
    /\ child.depth <= parent.depth - 1
    /\ parent.constraints \subseteq child.constraints
    /\ parent.binding # Unbound => child.binding = parent.binding

\* The values that an issue payload may hold.
IsIssue(payload) ==
    /\ \A resource \in payload.resources : IsResource(resource)
    /\ payload.expires \in Nat \cup {NoExpiry}
    /\ payload.depth \in Int

\* parse_issue: the record an issue payload describes, by the principal that
\* sends it.  Empty rights or resources, and a negative depth, are refused.
WellFormedIssue(payload) ==
    /\ payload.rights # {}
    /\ payload.resources # {}
    /\ payload.depth >= 0

Issued(payload, issuer) ==
    [issuer |-> issuer, revoked |-> FALSE,
     holder |-> payload.holder, rights |-> payload.rights,
     resources |-> payload.resources, expires |-> payload.expires,
     binding |-> payload.binding, allowed |-> payload.allowed, depth |-> payload.depth,
     parent |-> payload.parent, constraints |-> payload.constraints]
=============================================================================
