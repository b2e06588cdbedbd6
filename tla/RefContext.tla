----------------------------- MODULE RefContext -----------------------------
(***************************************************************************)
(* The canonical reference context of a run (agentic/refs.py): the refs    *)
(* that the models see, each for a stored object or for one that is only   *)
(* planned, and the counters behind the refs that the backend allocates.   *)
(*                                                                         *)
(* A ref is Owner, a name that a planner chose, or <<kind, n>>, which      *)
(* stands for node_0001 and the like.  An operator that may raise a        *)
(* ValueError returns the context it leaves behind and the ref None.       *)
(***************************************************************************)
EXTENDS Naturals, Functions

CONSTANTS Owner, None

Kinds == {"node", "memory", "edge", "context"}

Empty == [entries |-> <<>>, counters |-> [k \in Kinds |-> 0]]

Refs(c) == DOMAIN c.entries

Bound(c) == {r \in Refs(c) : c.entries[r].id # None}

Naming(c, id) == {r \in Refs(c) : c.entries[r].id = id}

\* A variant that never finds the object.
NeverNamed(c, id) == None

\* ref_for_backend_id takes the first entry with that object.  Only the owner's
\* object has two, and OWNER is bound after the other one.
RefFor(c, id) ==
    CASE Naming(c, id) \ {Owner} # {} -> CHOOSE r \in Naming(c, id) : r # Owner
      [] Naming(c, id) = {Owner}     -> Owner
      [] OTHER                       -> None

AddEntry(c, r, k, id) ==
    [c EXCEPT !.entries = [s \in DOMAIN @ \cup {r} |-> IF s = r THEN [kind |-> k, id |-> id] ELSE @[s]]]

\* allocate_ref and add_entry: the number is used up also when the name is taken.
AddHydrated(c, k, id) ==
    LET n == c.counters[k] + 1
        d == [c EXCEPT !.counters[k] = n]
    IN  IF <<k, n>> \in Refs(c) THEN [ctx |-> d, ref |-> None]
        ELSE [ctx |-> AddEntry(d, <<k, n>>, k, id), ref |-> <<k, n>>]

RegisterExisting(c, id, k) ==
    LET r == RefFor(c, id)
    IN  IF r = None THEN AddHydrated(c, k, id)
        ELSE [ctx |-> c, ref |-> IF c.entries[r].kind = k THEN r ELSE None]

\* register_proposed: a name that a planner has chosen, which may be there already
\* with the same meaning.
RegisterProposed(c, r, k) ==
    IF r \notin Refs(c) THEN [ctx |-> AddEntry(c, r, k, None), ref |-> r]
    ELSE [ctx |-> c, ref |-> IF c.entries[r] = [kind |-> k, id |-> None] THEN r ELSE None]

ResolveBackendId(c, r, id) ==
    IF RefFor(c, id) \in {None, r} THEN [ctx |-> [c EXCEPT !.entries[r].id = id], ref |-> r]
                                   ELSE [ctx |-> c, ref |-> None]

\* bind_owner takes any object, also one that has a ref already.
BindOwner(c, id) == AddEntry(c, Owner, "node", id)

\* resolve: the object of a ref of that kind, or None
Resolve(c, r, k) ==
    IF r \in Refs(c) /\ c.entries[r].kind = k THEN c.entries[r].id ELSE None
=============================================================================
