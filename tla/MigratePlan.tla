----------------------------- MODULE MigratePlan ------------------------------
(***************************************************************************)
(* migratePlan.ts: where each field that a new patch reads comes from while  *)
(* it fades in over an old patch with another schema.                        *)
(*                                                                         *)
(* A layout is a function from names to [kind, length, order]; the length of   *)
(* a scalar and the order of what is no trajectory are 0.  A rename is a       *)
(* function from old names to new ones.  Default values are left out.         *)
(***************************************************************************)

\* kindTsType
Category(kind) == IF kind \in {"u64", "i64"} THEN "bigint" ELSE "number"

Compatible(f, g) ==
    /\ Category(f.kind) = Category(g.kind)
    /\ f.length = g.length /\ f.order = g.order

Targets(rename) == {rename[from] : from \in DOMAIN rename}

\* Else it throws.
IsRename(old, new, rename) ==
    /\ DOMAIN rename \subseteq DOMAIN old /\ Targets(rename) \subseteq DOMAIN new
    /\ \A x, y \in DOMAIN rename : rename[x] = rename[y] => x = y

\* The old field that a new one is matched to, if there is one: of a renamed field
\* its source, and only that; of any other its namesake.
Counterparts(old, rename, to) ==
    IF to \in Targets(rename) THEN {from \in DOMAIN rename : rename[from] = to}
    ELSE {to} \cap DOMAIN old

Matches(old, new, rename) ==
    {m \in [from : DOMAIN old, to : DOMAIN new] : m.from \in Counterparts(old, rename, m.to)}

Blendable(old, new, rename) ==
    {m \in Matches(old, new, rename) : Compatible(old[m.from], new[m.to])}

Reshaped(old, new, rename) ==
    {m \in Matches(old, new, rename) : ~Compatible(old[m.from], new[m.to])}

BlendLaw(kind) == IF Category(kind) = "bigint" THEN "take-b" ELSE "numeric"

\* The plan's three lists.  A reshaped pair is two fields to it.
Crossfade(old, new, rename) ==
    {[from |-> m.from, to |-> m.to, blend |-> BlendLaw(new[m.to].kind)] :
        m \in Blendable(old, new, rename)}

RampIn(old, new, rename) ==
    {[to |-> m.to, reason |-> "incompatible"] : m \in Reshaped(old, new, rename)}
    \cup {[to |-> to, reason |-> "added"] :
          to \in {n \in DOMAIN new : Counterparts(old, rename, n) = {}}}

Drop(old, new, rename) ==
    {[from |-> m.from, reason |-> "incompatible"] : m \in Reshaped(old, new, rename)}
    \cup {[from |-> from, reason |-> "removed"] :
          from \in DOMAIN old \ {m.from : m \in Matches(old, new, rename)}}

-------------------------------------------------------------------------------
\* Every field of the new patch fades in from one source, an old field or a default
\* and never from two; and no field of the old one is forgotten.
EveryFieldIsPlanned(old, new, rename) ==
    /\ \A to \in DOMAIN new :
           (\E c \in Crossfade(old, new, rename) : c.to = to)
           <=> ~(\E r \in RampIn(old, new, rename) : r.to = to)
    /\ \A c, d \in Crossfade(old, new, rename) : c.to = d.to => c = d
    /\ \A q, r \in RampIn(old, new, rename) : q.to = r.to => q = r
    /\ \A from \in DOMAIN old :
           \/ \E c \in Crossfade(old, new, rename) : c.from = from
           \/ \E d \in Drop(old, new, rename) : d.from = from

\* A field that is dropped is in no blend, and no field is in two ("an a-field with no
\* compatible b target").
DropsAreSilent(old, new, rename) ==
    /\ \A d \in Drop(old, new, rename), c \in Crossfade(old, new, rename) : c.from # d.from
    /\ \A c, d \in Crossfade(old, new, rename) : c.from = d.from => c = d

\* No new field takes the name that a renamed one had, unless by a rename itself.
NamesMove(new, rename) ==
    \A from \in DOMAIN rename : from \in DOMAIN new => from \in Targets(rename)
===============================================================================
