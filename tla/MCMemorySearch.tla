---------------------------- MODULE MCMemorySearch ---------------------------
(* MemorySearch for TLC: person b is merged into person a, the owner; log l is *)
(* b's; p is a perception of a; v is an event at place q; c is connected to    *)
(* nothing at first; dup is being merged into a, but is not hidden yet.          *)
EXTENDS MemorySearch, TLC

CONSTANTS a, b, c, dup, l, p, v, q

MCNodes == {a, b, c, dup, l, p, v, q}
MCLabel == a :> "Person" @@ b :> "Person" @@ c :> "Person" @@ dup :> "Person"
           @@ l :> "MemoryLog" @@ p :> "Perception" @@ v :> "Event" @@ q :> "Place"

Edge(t, x, y) == [type |-> t, from |-> x, to |-> y]

MCPresent == {Edge("MERGED_INTO", b, a), Edge("MERGED_INTO", dup, a),
              Edge("HAS_MEMORY_LOG", b, l), Edge("PERCEPTION_OF", p, a),
              Edge("HAPPENED_AT", v, q), Edge("INVOLVES", v, a)}
MCEdges   == MCPresent \cup {Edge("MERGED_INTO", a, c), Edge("KNOWS", a, c)}
MCMerged  == {b}
MCRelated == [n \in MCNodes |-> IF n = p THEN <<a>> ELSE IF n = l THEN <<b, v>> ELSE <<>>]
MCHost    == [n \in MCNodes |-> IF n = l THEN b ELSE None]
MCEmbedded == {b, c, l}
MCMatching == {a, p}
MCTargets  == {q}
MCOptions  == {[archived |-> FALSE, history |-> FALSE, broad |-> TRUE],
               [archived |-> FALSE, history |-> TRUE, broad |-> FALSE],
               [archived |-> TRUE, history |-> FALSE, broad |-> TRUE]}
=============================================================================
