---------------------------- MODULE MCGraphTools ----------------------------
\* The owner, the context of a relationship of theirs, and the edge between them.
\* The planner chooses a name that the backend may come to allocate.
EXTENDS GraphTools

MCPlannedRefs == {<<"node", 3>>}
MCPlannedKind == [r \in PlannedRefs |-> "node"]
MCStored ==
    << Node("Person", None), Node("RelationshipContext", None),
       Edge("HAS_RELATIONSHIP_CONTEXT", 1, 2, None) >>
=============================================================================
