---------------------------- MODULE MCEntityState ---------------------------
(* Small instances of EntityState. *)
EXTENDS EntityState, TLC

CONSTANTS g, s1, s2

By(id, slug, version) == [id |-> id, slug |-> slug, version |-> version]

ById == By(g, None, None)
IfMatch(v) == By(g, None, v)
BySlug(s) == By(None, s, None)

Transit(q) == [op |-> "transit", query |-> q, retry |-> TRUE]
TransitOnce(q) == [op |-> "transit", query |-> q, retry |-> FALSE]
AssignTo(q) == [op |-> "assign", query |-> q, retry |-> FALSE]
EnsureOf(s) == [op |-> "ensure", query |-> BySlug(s), retry |-> FALSE]

\* One record that everybody knows by its id.
JobsOnOne == {Transit(ById), TransitOnce(IfMatch(1)), AssignTo(IfMatch(2))}

\* Records found by criteria or created, under a unique index or without one.
JobsOnMany ==
    {Transit(None), Transit(BySlug(s1)), AssignTo(BySlug(s1)), EnsureOf(s1)}

Symmetry == Permutations(Calls)
=============================================================================
