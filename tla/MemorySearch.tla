---------------------------- MODULE MemorySearch ----------------------------
(***************************************************************************)
(* What is read from the memory graph: the views of graph/query_service.py *)
(* and graph/projection.py, and the search of rag/search.py, which joins   *)
(* hits of the vector store, matches of properties, the neighborhood of    *)
(* what was found, and packages of context.                                *)
(*                                                                         *)
(* The views are reads of one moment.  A search is a job of several reads; *)
(* between them others archive, reactivate, connect and merge nodes.  The  *)
(* limits of rows, the times, the places' names and all texts are left     *)
(* out; scores are the order of the hits.                                  *)
(***************************************************************************)
EXTENDS Naturals, Sequences, FiniteSets, SequencesExt, FiniteSetsExt

CONSTANTS
    Nodes,
    Label,      \* [Nodes -> label]
    Edges,      \* relationships that may be there: [type, from, to]
    Present,    \* those that are there at the start
    Merged,     \* nodes that have been merged at the start, along an edge of Present
    Related,    \* [Nodes -> related_target_ids of its vector record]
    Host,       \* [Nodes -> the host of a memory log, or None]
    Owner,      \* the person who owns the graph
    Embedded,   \* nodes that have a vector
    Matching,   \* nodes whose properties match the query
    Targets,    \* nodes that a client restricts a search to
    Options,    \* how it is searched: [archived, history, broad: BOOLEAN]
    Limit,      \* hits that a search returns
    MaxHits,    \* bound: hits of the vector store
    MaxWrites,  \* bound: writes
    None

ASSUME SearchAssumption ==
    /\ IsFiniteSet(Nodes) /\ Nodes \cap Edges = {}
    /\ Edges \subseteq [type : STRING, from : Nodes, to : Nodes] /\ Present \subseteq Edges
    /\ Merged \subseteq Nodes /\ \A n \in Merged : \E e \in Present : e.type = "MERGED_INTO" /\ e.from = n
    /\ Targets \subseteq Nodes /\ Embedded \subseteq Nodes /\ Matching \subseteq Nodes
    /\ Options \subseteq [archived : BOOLEAN, history : BOOLEAN, broad : BOOLEAN]
    /\ Related \in [Nodes -> Seq(Nodes)] /\ Host \in [Nodes -> Nodes \cup {None}]
    /\ Owner \in Nodes /\ None \notin Nodes \cup {"active", "archived", "deleted"}
    /\ Limit \in Nat \ {0} /\ MaxHits \in Nat /\ MaxWrites \in Nat

VARIABLES
    life,    \* [Nodes -> lifecycle_state]
    into,    \* [Nodes -> merged_into_id, or None]
    edge,    \* [Edges -> lifecycle_state, or None if it is not there]
    entry,   \* [Embedded -> lifecycle_state of the vector record, or None]
    writes,  \* writes so far
    search,  \* the search under way, or None
    shown    \* what the last view or search returned, or None if there was a write since

graph == <<life, into, edge, entry>>
searchVars == <<graph, writes, search, shown>>

Lifecycles    == {"active", "archived", "deleted"}
HistoryLabels == {"RelationshipState", "ChangeRecord", "ContradictionRecord", "MergeRecord"}
ContextLabels == {"Claim", "Perception", "RelationshipContext", "RelationshipState", "ProfileMemory"}
NonDisplay    == ContextLabels \cup {"MemoryLog", "Source", "MediaAsset"}

Labelled(ls) == {n \in Nodes : Label[n] \in ls}
There        == {e \in Edges : edge[e] # None}
Typed(types) == {e \in There : e.type \in types}

SearchInit ==
    /\ life = [n \in Nodes |-> IF n \in Merged THEN "archived" ELSE "active"]
    /\ into = [n \in Nodes |-> IF n \in Merged
                               THEN (CHOOSE e \in Present : e.type = "MERGED_INTO" /\ e.from = n).to
                               ELSE None]
    /\ edge = [e \in Edges |-> IF e \in Present THEN "active" ELSE None]
    /\ entry = [n \in Embedded |-> "active"]
    /\ writes = 0 /\ search = None /\ shown = None

-----------------------------------------------------------------------------
(* Writes by others; a search remembers what was written while it ran.        *)

Writes(things) ==
    /\ writes < MaxWrites
    /\ writes' = writes + 1
    /\ search' = IF search = None THEN None ELSE [search EXCEPT !.written = @ \cup things]
    /\ shown' = None

Transition(n, l) ==
    /\ life[n] # l
    /\ Writes({n})
    /\ life' = [life EXCEPT ![n] = l]
    /\ UNCHANGED <<into, edge, entry>>

\* transition_relationship_lifecycle
TransitionEdge(e, l) ==
    /\ edge[e] \notin {None, l}
    /\ Writes({e, e.from, e.to})
    /\ edge' = [edge EXCEPT ![e] = l]
    /\ UNCHANGED <<life, into, entry>>

Connect(e) ==
    /\ edge[e] = None
    /\ Writes({e, e.from, e.to})
    /\ edge' = [edge EXCEPT ![e] = "active"]
    /\ UNCHANGED <<life, into, entry>>

\* A merge connects the nodes before it hides one of them (see GraphMemory).
HideMerged(e) ==
    /\ e \in Typed({"MERGED_INTO"}) /\ into[e.from] = None
    /\ Writes({e.from})
    /\ life' = [life EXCEPT ![e.from] = "archived"]
    /\ into' = [into EXCEPT ![e.from] = e.to]
    /\ UNCHANGED <<edge, entry>>

\* vectorize_targets, as a whole (see VectorIndex)
Vectorize(n) ==
    /\ Writes({n})
    /\ entry' = [entry EXCEPT ![n] = IF life[n] = "active" THEN "active" ELSE "archived"]
    /\ UNCHANGED <<life, into, edge>>

Write ==
    \/ \E n \in Nodes : \E l \in Lifecycles : Transition(n, l)
    \/ \E e \in Edges : Connect(e) \/ HideMerged(e) \/ \E l \in Lifecycles : TransitionEdge(e, l)
    \/ \E n \in Embedded : Vectorize(n)

-----------------------------------------------------------------------------
(* Neighborhoods and views *)

Touching(ns) == {e \in There : {e.from, e.to} \cap ns # {}}
Ends(es)     == UNION {{e.from, e.to} : e \in es}

\* get_neighborhood: all paths of up to depth relationships, whatever they lead
\* to.  A node without relationships has no path, so that it is not there itself.
Neighborhood(n, depth) ==
    LET reached[d \in 0 .. depth] == IF d = 0 THEN {n} ELSE reached[d - 1] \cup Ends(Touching(reached[d - 1]))
        es == Touching(reached[depth - 1])
    IN  [nodes |-> Ends(es), edges |-> es]

\* A variant that looks at the lifecycle only.
HiddenByLifecycle(n) == life[n] \in {"archived", "deleted"}

\* is_hidden_node and is_hidden_relationship
Hidden(n)     == life[n] \in {"archived", "deleted"} \/ into[n] # None
HiddenEdge(e) == edge[e] \in {"archived", "deleted"}

\* filter_visible_nodes
Visible(ns, o) ==
    {n \in ns : (o.history \/ Label[n] \notin HistoryLabels) /\ (o.archived \/ ~Hidden(n))}

\* to_graph_view_result
View(part, o) ==
    LET ns == Visible(part.nodes, o)
    IN  [nodes |-> ns,
         edges |-> {e \in part.edges : {e.from, e.to} \subseteq ns /\ (o.archived \/ ~HiddenEdge(e))}]

Default == [archived |-> FALSE, history |-> FALSE, broad |-> TRUE]

NeighborhoodView(n, depth, o) == View(Neighborhood(n, depth), o)

\* get_memories_for_node
Memories(n, o) == View(Neighborhood(n, 2), o)

\* A variant of the timeline of archived nodes too.
TimelineOfAll(n, history) == Visible(Neighborhood(n, 2).nodes, [archived |-> TRUE, history |-> history])

\* get_timeline_for_node: every node has a time, if only that of its creation.
Timeline(n, history) == Visible(Neighborhood(n, 2).nodes, [archived |-> FALSE, history |-> history])

\* find_map_records: the places that a filter matches, with the events there
MapRecords(matching) ==
    LET es == {e \in Typed({"HAPPENED_AT"}) : e.to \in matching /\ Label[e.from] = "Event"}
    IN  [nodes |-> matching \cup {e.from : e \in es}, edges |-> es]

\* get_map_view.  When no place is left, all events are.
MapView(part, matching) ==
    LET view   == View(part, Default)
        places == view.nodes \cap Labelled({"Place"}) \cap matching
        events == {n \in view.nodes \cap Labelled({"Event"}) :
                      places = {} \/ \E e \in view.edges :
                                        e.type = "HAPPENED_AT" /\ e.from = n /\ e.to \in places}
        onMap  == places \cup events
    IN  [nodes |-> onMap, edges |-> {e \in view.edges : {e.from, e.to} \subseteq onMap}]

\* find_perceptions_for_target and find_relationship_contexts_for_target
Perceptions(n) ==
    {e.from : e \in {e \in Typed({"PERCEPTION_OF"}) : e.to = n /\ Label[e.from] = "Perception"}}
    \cup {e.to : e \in {e \in Typed({"HAS_AFFECTIVE_CONTEXT"}) : e.from = n /\ Label[e.to] = "Perception"}}

Contexts(n) ==
    {e.from : e \in {e \in Typed({"RELATIONSHIP_WITH"}) : e.to = n}}
    \cup {e.to : e \in {e \in Typed({"HAS_RELATIONSHIP_CONTEXT"}) : e.from = n}}

Affective(n) == Perceptions(n) \cup Contexts(n)

\* find_sources_for_target
Sources(n) ==
    (Ends({e \in Typed({"MENTIONED_IN", "SUPPORTED_BY", "DERIVED_FROM"}) : n \in {e.from, e.to}}) \ {n})
        \cap Labelled({"Source"})

\* Relationships of a node that are not hidden, whatever is at their other end
Relationships(n, archived) == {e \in Touching({n}) : archived \/ ~HiddenEdge(e)}

\* get_entity_detail: what it says about the node
Detail(n, o) == [nodes |-> Visible(Affective(n), o), edges |-> Relationships(n, o.archived)]

\* find_memory_logs_for_target and count_nodes_by_label know "archived" only.
Logs(n, archived) ==
    {e.to : e \in {e \in Typed({"HAS_MEMORY_LOG"}) :
                      e.from = n /\ Label[e.to] = "MemoryLog" /\ (archived \/ life[e.to] # "archived")}}

Counted(archived) == {n \in Nodes : archived \/ (life[n] # "archived" /\ into[n] = None)}

\* top_connected_nodes
Connected(archived) == Counted(archived) \cap Ends(There)

\* get_analytics_summary
Analytics(archived) == {Counted(archived), Connected(archived)}

\* The nodes that get_memory_log_detail sorts by the role they have
LogDetail(n) ==
    Ends({e \in Typed({"HAS_MEMORY_LOG", "INVOLVES", "UPDATES_RELATIONSHIP", "HAS_MEDIA"}) :
             n \in {e.from, e.to}}) \ {n}

-----------------------------------------------------------------------------
(* Canonical nodes *)

Following(n) == {e.to : e \in {e \in Typed({"MERGED_INTO"}) : e.from = n}}

\* get_canonical_node: from a node to what it was merged into, until that was not
\* merged.  None is an error: there are several to go to, or after as many nodes as
\* there are one has been seen.
CanonicalAlong(next, n) ==
    LET resolve[left \in 0 .. Cardinality(Nodes)] ==
            [m \in Nodes |-> IF left = 0 \/ \E j, k \in next[m] : j # k THEN None
                             ELSE IF next[m] = {} THEN m
                             ELSE resolve[left - 1][CHOOSE k \in next[m] : TRUE]]
    IN  resolve[Cardinality(Nodes)][n]

Canonical(n) == CanonicalAlong([m \in Nodes |-> Following(m)], n)

\* A variant without canonical nodes.
Itself(n) == n

\* _canonical_for_node, or the node itself
CanonicalOr(n) == IF Canonical(n) = None THEN n ELSE Canonical(n)

\* get_context_package.  None is an error.
Package(n) ==
    IF Canonical(n) = None THEN None
    ELSE [nodes |-> {n, Canonical(n)} \cup Ends(Relationships(n, FALSE)) \cup Affective(n)
                    \cup Timeline(n, TRUE) \cup Sources(n),
          edges |-> Relationships(n, FALSE)]

-----------------------------------------------------------------------------
(* Browsing: views of one moment *)

Result(kind, o, view) == [kind |-> kind, o |-> o, nodes |-> view.nodes, edges |-> view.edges,
                          hits |-> <<>>, selected |-> 0, packed |-> {}, written |-> {}]

Nodeset(ns) == [nodes |-> ns, edges |-> {}]

Browse ==
    /\ search = None
    /\ \E o \in Options :
          \/ \E n \in Nodes :
                \/ \E depth \in 1 .. 3 : shown' = Result("view", o, NeighborhoodView(n, depth, o))
                \/ shown' = Result("view", o, Memories(n, o))
                \/ shown' = Result("view", Default, Nodeset(Timeline(n, o.history)))
                \/ \E matching \in SUBSET Labelled({"Place"}) :
                      shown' = Result("view", Default, MapView(Neighborhood(n, 2), matching))
                \/ Canonical(n) # None /\ shown' = Result("detail", o, Detail(n, o))
                \/ shown' = Result("logs", o, Nodeset(Logs(n, o.archived)))
                \/ Label[n] = "MemoryLog" /\ shown' = Result("log", o, Nodeset(LogDetail(n)))
          \/ \E matching \in SUBSET Labelled({"Place"}) :
                shown' = Result("view", Default, MapView(MapRecords(matching), matching))
          \/ \E ns \in Analytics(o.archived) : shown' = Result("count", o, Nodeset(ns))
    /\ UNCHANGED <<graph, writes, search>>

-----------------------------------------------------------------------------
(* Search *)

\* _expanded_allowed_ids.  Without any, the search is not restricted.
Allowed(targets) ==
    targets \cup {CanonicalOr(n) : n \in targets} \cup UNION {Neighborhood(n, 2).nodes : n \in targets}

\* The vector store returns hits, the best first; those before the cut are better
\* than a match of properties.
Begin(o, raw, cut, matching, targets) ==
    /\ search = None /\ shown = None   \* what was shown before makes no difference
    /\ IsInjective(raw) /\ cut <= Len(raw)
    /\ search' = [o |-> o, raw |-> raw, left |-> raw, cut |-> cut, matching |-> matching,
                  allowed |-> Allowed(targets), hits |-> <<>>, step |-> "hydrate", written |-> {}]
    /\ shown' = None
    /\ UNCHANGED <<graph, writes>>

\* _hydrate_related
RelatedNodes(n) == {CanonicalOr(r) : r \in ToSet(Related[n])}

\* _first_displayable_related, or the node itself
FirstDisplayable(n) ==
    LET at(i) == CanonicalOr(Related[n][i])
        shownAt == {i \in DOMAIN Related[n] : Label[at(i)] \notin NonDisplay}
    IN  IF shownAt # {} THEN at(Min(shownAt)) ELSE IF Related[n] # <<>> THEN at(1) ELSE n

\* _display_target_for_hit
Display(n) ==
    IF Label[n] \notin ContextLabels \cup {"MemoryLog"} THEN n
    ELSE IF Label[n] = "MemoryLog" /\ Host[n] # None THEN Host[n]
    ELSE FirstDisplayable(n)

\* _profile_hit_allowed
ProfileAllowed(n, related) == Label[n] # "ProfileMemory" \/ (life[n] = "active" /\ Owner \in related)

Score(s, n) == LET i == CHOOSE i \in DOMAIN s.raw : s.raw[i] = n
               IN  IF i <= s.cut THEN 2 * MaxHits + 1 - i ELSE MaxHits - i

PropertyScore == MaxHits

\* A variant that trusts the lifecycle state of the vector record.
AsRecorded(o, n) == TRUE

\* What a search may display
Displayable(o, n) == o.archived \/ ~Hidden(n)

\* _hydrate_raw_hit: the record must not be hidden, nor what is displayed; what
\* was matched may be, unless it is a profile memory.
Hydrated(s, n) ==
    LET display == CanonicalOr(Display(n))
    IN  IF /\ s.o.archived \/ entry[n] = "active"
           /\ ProfileAllowed(n, RelatedNodes(n))
           /\ Displayable(s.o, display)
        THEN <<[display |-> display, matched |-> {n}, score |-> Score(s, n),
                related |-> (ToSet(Related[n]) \cup RelatedNodes(n) \cup {n}) \ {display},
                ids |-> {n, CanonicalOr(n), display, Display(n)} \cup ToSet(Related[n])
                        \cup RelatedNodes(n)]>>
        ELSE <<>>

Hydrate ==
    /\ search # None /\ search.step = "hydrate" /\ search.left # <<>>
    /\ search' = [search EXCEPT !.left = Tail(@), !.hits = @ \o Hydrated(search, Head(search.left))]
    /\ UNCHANGED <<graph, writes, shown>>

\* _hit_intersects_allowed
Intersects(s, h) == s.allowed = {} \/ h.ids \cap s.allowed # {}

\* A variant that groups the hits by what was matched.
ByMatch(h) == h.matched

\* What a hit is shown as
Key(h) == h.display

\* Sorted by score, and of equal hits the first first
Before(hits, i, j) == hits[i].score > hits[j].score \/ (hits[i].score = hits[j].score /\ i < j)

\* The positions, in order, of the best of the hits at some positions
Rankings(hits, at) ==
    {order \in [1 .. Min({Limit, Cardinality(at)}) -> at] :
        /\ \A i, j \in DOMAIN order : i < j => Before(hits, order[i], order[j])
        /\ \A i \in at \ ToSet(order) : \A j \in DOMAIN order : Before(hits, order[j], i)}

\* The first for each target, of hits at some positions
Leading(hits, at) == {i \in at : \A j \in at \ {i} : Key(hits[j]) = Key(hits[i]) => Before(hits, i, j)}

\* _merge_hydrated_hits: the best hit of each target, with all matches
Grouped(s, i) ==
    LET group == {h \in ToSet(s.hits) : Intersects(s, h) /\ Key(h) = Key(s.hits[i])}
    IN  [s.hits[i] EXCEPT !.matched = UNION {h.matched : h \in group},
                          !.related = UNION {h.related : h \in group}]

\* _property_hits
PropertyHits(s) ==
    LET profileOf(n) == {CanonicalOr(m) : m \in Ends({e \in Typed({"DESCRIBES_USER"}) : n \in {e.from, e.to}}) \ {n}}
        of(n) == LET display == CanonicalOr(n)
                 IN  IF /\ ProfileAllowed(n, profileOf(n))
                        /\ s.allowed = {} \/ display \in s.allowed
                        /\ Displayable(s.o, display)
                     THEN <<[display |-> display, matched |-> {n}, score |-> PropertyScore,
                             related |-> {}, ids |-> {n, display}]>>
                     ELSE <<>>
    IN  FlattenSeq([i \in DOMAIN s.matching |-> of(s.matching[i])])

\* _merge_hydrated_hits and _dedupe_and_rank_hits
Match ==
    /\ search # None /\ search.step = "hydrate" /\ search.left = <<>>
    /\ LET hydrated == {i \in DOMAIN search.hits : Intersects(search, search.hits[i])}
       IN  \E order \in Rankings(search.hits, Leading(search.hits, hydrated)) :
              LET hits == [i \in DOMAIN order |-> Grouped(search, order[i])] \o PropertyHits(search)
              IN  \E rank \in Rankings(hits, Leading(hits, DOMAIN hits)) :
                     search' = [search EXCEPT !.hits = [i \in DOMAIN rank |-> hits[rank[i]]],
                                              !.step = "assemble"]
    /\ UNCHANGED <<graph, writes, shown>>

\* A variant that shows neighborhoods only.
NoSeed(seed, part) == {}

\* A node that is not in its own neighborhood
SeedItself(seed, part) == {seed} \ part.nodes

\* _expanded_neighborhood
Expanded(seeds, displays, o) ==
    LET keeps(n) == (Label[n] \notin NonDisplay \/ n \in displays) /\ (o.archived \/ ~Hidden(n))
        parts == {[part |-> Neighborhood(s, 1), seed |-> s] : s \in seeds}
        ns == {n \in UNION {p.part.nodes \cup SeedItself(p.seed, p.part) : p \in parts} : keeps(n)}
    IN  [nodes |-> ns,
         edges |-> {e \in UNION {p.part.edges : p \in parts} :
                       {e.from, e.to} \subseteq ns /\ (o.archived \/ ~HiddenEdge(e))}]

\* The selector: all hits, or a number of the best that depends on their scores
Selections(hits, o) == IF o.broad \/ Len(hits) <= 1 THEN {Len(hits)} ELSE 1 .. Len(hits)

Assemble ==
    /\ search # None /\ search.step = "assemble"
    /\ \E k \in Selections(search.hits, search.o) :
          LET selected == {search.hits[i] : i \in 1 .. k}
              displays == {h.display : h \in selected}
              seeds    == displays \cup IF search.o.broad THEN UNION {h.related : h \in selected} ELSE {}
              view     == View(Expanded(seeds, displays, search.o), search.o)
          IN  shown' = [Result("search", search.o, view) EXCEPT !.hits = search.hits, !.selected = k,
                                                                !.written = search.written]
    /\ search' = [search EXCEPT !.step = "pack"]
    /\ UNCHANGED <<graph, writes>>

\* _context_packages: an error leaves a package out.
Pack ==
    /\ search # None /\ search.step = "pack"
    /\ shown' = [Result("search", search.o, Nodeset({})) EXCEPT
                     !.hits = search.hits, !.written = search.written,
                     !.packed = {Package(h.display) : h \in ToSet(search.hits)} \ {None}]
    /\ search' = None
    /\ UNCHANGED <<graph, writes>>

SearchNext ==
    \/ Write
    \/ Browse
    \/ \E o \in Options, matching \in {<<>>} \cup {<<n>> : n \in Matching}, targets \in {{}} \cup {{n} : n \in Targets} :
          \E k \in 0 .. MaxHits : \E raw \in [1 .. k -> Embedded] : \E cut \in 0 .. k :
              Begin(o, raw, cut, matching, targets)
    \/ Hydrate \/ Match \/ Assemble \/ Pack

SearchSpec == SearchInit /\ [][SearchNext]_searchVars

-----------------------------------------------------------------------------
(* Properties *)

\* Out of sight: archived or deleted, or merged into another
OutOfSight(x) == IF x \in Nodes THEN life[x] # "active" \/ into[x] # None ELSE edge[x] # "active"

\* A view that was not asked for what is archived shows nothing that is out of
\* sight, and no relationship without its ends; the queries for logs and the
\* counts hide what is archived, and a count also what was merged.  That holds
\* however the nodes came to be hidden and whatever they are connected to.
ViewsHideHidden ==
    shown # None /\ ~shown.o.archived =>
        /\ shown.kind \in {"view", "search"} =>
              /\ \A n \in shown.nodes : ~OutOfSight(n)
              /\ \A e \in shown.edges : ~OutOfSight(e) /\ {e.from, e.to} \subseteq shown.nodes
        /\ shown.kind = "detail" => \A x \in shown.nodes \cup shown.edges : ~OutOfSight(x)
        /\ shown.kind \in {"logs", "count"} => \A n \in shown.nodes : life[n] # "archived"

\* A hit of a search that was not asked for what is archived is displayed as a
\* node that is in sight, unless that was written after the search read it:
\* a hit on a merged node is displayed as what it was merged into, and a hit
\* that describes another node as that.
DisplayedInSight ==
    shown # None /\ ~shown.o.archived =>
        \A i \in DOMAIN shown.hits : OutOfSight(shown.hits[i].display) => shown.hits[i].display \in shown.written

\* A search returns a memory once: no two hits are displayed as nodes that are
\* one after merges, unless they were written meanwhile, and the best are first.
OneHitPerMemory ==
    shown # None =>
        \A i, j \in DOMAIN shown.hits :
            LET d == shown.hits[i].display
                e == shown.hits[j].display
            IN  i < j => /\ shown.hits[i].score >= shown.hits[j].score
                         /\ d # e
                         /\ {d, e} \cap shown.written = {} =>
                               Canonical(d) = None \/ Canonical(d) # Canonical(e)

\* The graph that is drawn with a search has a node for every hit that was
\* selected, unless that is history that was not asked for, or it was written
\* meanwhile; also for one that is connected to nothing.
HitsAreInGraph ==
    shown # None =>
        \A i \in 1 .. shown.selected :
            LET d == shown.hits[i].display
            IN  d \in shown.nodes \/ d \in shown.written \/ (Label[d] \in HistoryLabels /\ ~shown.o.history)

\* What a search shows is in sight, and what it lists it draws.
HitsInSight == DisplayedInSight /\ HitsAreInGraph
=============================================================================
