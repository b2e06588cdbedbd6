----------------------------- MODULE GraphTools -----------------------------
(***************************************************************************)
(* The tools with which the agent writes the memory graph                  *)
(* (agentic/tools/bindings.py), the questions and lookups that share their *)
(* references (clarification/toolbox.py), and the reference context of the *)
(* run, from the retrieval that opens an ingestion to its last action.     *)
(*                                                                         *)
(* A tool checks its arguments, resolves their refs, writes the graph step *)
(* by step, has the vectors of what it wrote refreshed, which cannot make  *)
(* it fail (see VectorIndex), and binds what it created to a ref.  It      *)
(* catches every exception and tells the model whether to try again.  As   *)
(* nothing in a run writes between these steps, a call is one action, with *)
(* a choice of the write at which it fails.                                *)
(***************************************************************************)
EXTENDS RefContext, Sequences, SequencesExt, FiniteSets

CONSTANTS
    Unknown,     \* a ref that no context has
    PlannedRefs, \* the refs that planners choose
    PlannedKind, \* their kinds
    Stored,      \* the graph at the start: a sequence of objects, the first one is the owner
    MaxStored,   \* bound: objects in the graph
    MaxActions,  \* bound: actions of the plan that are run
    MaxCalls,    \* bound: tool calls
    MaxTargets,  \* bound: refs that an action or a call names, and objects that a lookup finds
    MaxLinks     \* bound: links of a memory log

\* The labels that the tools tell apart; "Person" stands for those of all other
\* nodes, "RELATED_TO" and "HAS_RELATIONSHIP_CONTEXT" for all other relationships.
Labels ==
    {"Person", "RelationshipContext", "RelationshipState", "MemoryLog",
     "RELATED_TO", "HAS_RELATIONSHIP_CONTEXT", "HAS_RELATIONSHIP_STATE",
     "HAS_MEMORY_LOG", "INVOLVES", "UPDATES_RELATIONSHIP"}

\* What a node or relationship keeps; data is what a memory log was made of, and
\* "primary" of the link to its main host.
Logs    == [hosts : SUBSET Nat, primary : Nat, involved : SUBSET Nat, contexts : SUBSET Nat]
Objects == [label : Labels, from : Nat, to : Nat, data : {None, "primary"} \cup Logs]

\* A planner may choose a name of the form that the backend allocates.
ASSUME ToolsAssumption ==
    /\ PlannedKind \in [PlannedRefs -> Kinds]
    /\ {Owner, None, Unknown} \cap (PlannedRefs \cup (Kinds \X Nat)) = {}
    /\ Owner # None /\ None \notin Nat \cup {"primary"}
    /\ Stored \in Seq(Objects) /\ Len(Stored) > 0
    /\ \A i \in DOMAIN Stored :
          \/ {Stored[i].from, Stored[i].to} = {0}
          \/ {Stored[i].from, Stored[i].to} \subseteq DOMAIN Stored
    /\ {MaxStored, MaxActions, MaxCalls, MaxTargets, MaxLinks} \subseteq Nat

VARIABLES
    graph,   \* nodes and relationships, in the order of their creation
    ctx,     \* the reference context
    doing,   \* "retrieve", "idle", "child", "clarifying" or "asking"
    targets, \* target_refs of the action that runs
    resumed, \* whether it has been interrupted
    copied,  \* the context in the continuation of the ingestion
    result,  \* how the last tool call ended
    actions, \* actions started
    calls    \* tool calls made

toolsVars == <<graph, ctx, doing, targets, resumed, copied, result, actions, calls>>

Node(label, data)         == [label |-> label, from |-> 0, to |-> 0, data |-> data]
Edge(label, from, to, data) == [label |-> label, from |-> from, to |-> to, data |-> data]

IsEdge(o) == o.from # 0

\* The kind under which _register_retrieval_object takes an object
KindOf(o) ==
    CASE IsEdge(o) -> "edge"
      [] o.label = "MemoryLog" -> "memory"
      [] o.label \in {"RelationshipContext", "RelationshipState"} -> "context"
      [] OTHER -> "node"

ToolsInit ==
    /\ graph = Stored /\ ctx = Empty
    /\ doing = "retrieve" /\ targets = <<>> /\ resumed = FALSE /\ copied = Empty
    /\ result = "none" /\ actions = 0 /\ calls = 0

-----------------------------------------------------------------------------
(* The course of an ingestion *)

\* The endpoints of a relationship are taken for entities, whatever they are.
RegisterEndpoint(c, id) == IF RefFor(c, id) = None THEN RegisterExisting(c, id, "node").ctx ELSE c

\* _register_retrieval_object
Register(c, id) ==
    LET o    == graph[id]
        ends == IF IsEdge(o) THEN RegisterEndpoint(RegisterEndpoint(c, o.from), o.to) ELSE c
    IN  RegisterExisting(ends, id, KindOf(o)).ctx

\* _semantic_retrieval: a search that fails, or is left out, finds nothing.
Retrievals == SUBSET DOMAIN graph

\* _graph_context_from_retrieval, in a context
RegisteredIn(c, found) == FoldLeft(Register, c, SetToSeq(found))

\* _ref_context_from_retrieval: what it begins with
Registered(found) == RegisteredIn(ctx, found)

\* ingest_memory registers what the search finds and binds the owner.  One
\* ingestion is modelled; a second one of the run goes on with its context, and
\* its search may find a log that a failure left without links.
Retrieve ==
    /\ doing = "retrieve"
    /\ \E found \in Retrievals : 
          ctx' = RegisteredIn(BindOwner(Registered(found), 1), found)
    /\ doing' = "idle"
    /\ UNCHANGED <<graph, targets, resumed, copied, result, actions, calls>>

\* _register_planned_refs leaves out the names that are there.
Plan ==
    /\ doing = "idle"
    /\ \E r \in PlannedRefs \ Refs(ctx) : ctx' = RegisterProposed(ctx, r, PlannedKind[r]).ctx
    /\ UNCHANGED <<graph, doing, targets, resumed, copied, result, actions, calls>>

Start ==
    /\ doing = "idle" /\ actions < MaxActions
    /\ targets' \in SeqOf(Refs(ctx), MaxTargets)
    /\ copied' = ctx
    /\ doing' = "child" /\ actions' = actions + 1
    /\ UNCHANGED <<graph, ctx, resumed, result, calls>>

\* The child goes on with the snapshot of its own frame, and so does its
\* clarification agent, which then has no references to look anything up with.
Answer ==
    /\ doing = "asking"
    /\ doing' = "child" /\ resumed' = TRUE /\ result' = "ok"
    /\ UNCHANGED <<graph, ctx, targets, copied, actions, calls>>

\* The ingestion goes on, after an interruption with the context it had copied
\* before the action.
End ==
    /\ doing = "child"
    /\ doing' = "idle"
    /\ ctx' = IF resumed THEN copied ELSE ctx
    /\ targets' = <<>> /\ resumed' = FALSE /\ copied' = Empty /\ result' = "none"
    /\ UNCHANGED <<graph, actions, calls>>

-----------------------------------------------------------------------------
(* Tool calls *)

\* A variant that lets the model try again whatever happened.
AlwaysRetry(e) == "retry"

\* _update_exception_result
Outcome(e) == IF e \in {"value", "validation"} THEN "retry" ELSE "blocked"

Reply(r) ==
    /\ result' = r
    /\ UNCHANGED <<graph, ctx>>

Refuse(e) == Reply(Outcome(e))

\* A variant that takes a ref that is bound already.
AnyTarget(c, r, k) == r \in Refs(c) /\ c.entries[r].kind = k

Awaits(c, r, k) == r \in Refs(c) /\ c.entries[r].kind = k /\ c.entries[r].id = None

\* _bind_created_ref: the first target of that kind that awaits an object, or a new ref
BindCreated(id, k) ==
    LET i == SelectInSeq(targets, LAMBDA r : Awaits(ctx, r, k))
    IN  IF i > 0 THEN ResolveBackendId(ctx, targets[i], id) ELSE RegisterExisting(ctx, id, k)

\* Not all the writes are done, or all are, and the first one is bound; the reply
\* to a write may be lost with the write or without it.
Write(writes, kind) ==
    /\ Len(graph) + Len(writes) <= MaxStored
    /\ \/ /\ \E k \in 0 .. Len(writes) : graph' = graph \o SubSeq(writes, 1, k)
          /\ result' = Outcome("backend")
          /\ UNCHANGED ctx
       \/ LET made == BindCreated(Len(graph) + 1, kind)
          IN  /\ graph' = graph \o writes
              /\ ctx' = made.ctx
              /\ result' = IF made.ref = None THEN Outcome("value") ELSE "ok"

Args == Refs(ctx) \cup {Unknown}

\* create_<label>_node: a name of one word is no identity, and no node is created
\* archived.
CreateNode ==
    \/ Refuse("validation") \/ Refuse("forbidden")
    \/ Write(<<Node("Person", None)>>, "node")

\* patch_<label>_node
PatchNode ==
    \E r \in Args :
        LET id == Resolve(ctx, r, "node")
        IN  IF id = None \/ graph[id].label # "Person" THEN Refuse("value")
            ELSE Reply("ok") \/ Refuse("validation") \/ Refuse("backend")

\* upsert_graph_relationship: its id is new, so it never updates one.
UpsertRelationship ==
    \/ Refuse("forbidden")
    \/ \E r, s \in Args :
        LET from == Resolve(ctx, r, "node")
            to   == Resolve(ctx, s, "node")
        IN  IF None \in {from, to} THEN Refuse("value")
            ELSE Write(<<Edge("RELATED_TO", from, to, None)>>, "edge")

\* create_relationship_state; its change record is left out.
CreateState ==
    \E r \in Args :
        LET id   == Resolve(ctx, r, "context")
            link == Edge("HAS_RELATIONSHIP_STATE", id, Len(graph) + 1, None)
        IN  IF id = None THEN Refuse("value")
            ELSE IF graph[id].label # "RelationshipContext" THEN Refuse("validation")
            ELSE Write(<<Node("RelationshipState", None), link>>, "context")

\* The objects that a ref of the context stands for as one of that kind.
Named(k) == {Resolve(ctx, r, k) : r \in Refs(ctx)} \ {None}

\* A variant that links the main host only.
PrimaryLink(id, log) == <<Edge("HAS_MEMORY_LOG", log.primary, id, "primary")>>

HostLinks(id, log) ==
    SetToSeq({Edge("HAS_MEMORY_LOG", h, id, IF h = log.primary THEN "primary" ELSE None) : h \in log.hosts})

LogLinks(id, log) ==
    HostLinks(id, log)
    \o SetToSeq({Edge("INVOLVES", id, i, None) : i \in log.involved})
    \o SetToSeq({Edge("UPDATES_RELATIONSHIP", id, c, None) : c \in log.contexts})

\* create_memory_log is refused when a ref is not resolved, when there is no host,
\* and when the main one is not among them or is left open among several.
CreateMemoryLog ==
    \/ Refuse("value")
    \/ \E hosts, involved \in SUBSET Named("node"), contexts \in SUBSET Named("context") :
          /\ hosts # {}
          /\ Cardinality(hosts) + Cardinality(involved) + Cardinality(contexts) <= MaxLinks
          /\ \E primary \in hosts :
                LET log == [hosts |-> hosts, primary |-> primary,
                            involved |-> involved, contexts |-> contexts]
                IN  Write(<<Node("MemoryLog", log)>> \o LogLinks(Len(graph) + 1, log), "memory")

\* The tools that read a view of the graph take the ids of the graph, not refs,
\* and never ask for another try.
ReadGraph == Reply("ok") \/ Reply("blocked")

\* resolve_graph_update_targets: the objects that the refs stand for or, without
\* any, what a search finds, under the ids of the graph: nothing gets a ref.
ResolveTargets ==
    \E refs \in SeqOf(Args, MaxTargets) :
        IF \E r \in ToSet(refs) : Resolve(ctx, r, "node") = None THEN Refuse("value")
        ELSE Reply("ok") \/ Refuse("validation") \/ Refuse("backend")

Call ==
    /\ doing = "child" /\ calls < MaxCalls
    /\ calls' = calls + 1
    /\ \/ CreateNode \/ PatchNode \/ UpsertRelationship \/ CreateState
       \/ CreateMemoryLog \/ ReadGraph \/ ResolveTargets
    /\ UNCHANGED <<doing, targets, resumed, copied, actions>>

-----------------------------------------------------------------------------
(* The clarification agent, in the context of the child that hands over *)

AllKnown(refs) == ToSet(refs) \subseteq Refs(ctx)

\* ask_clarification: the doubts name refs of the context.
AskClarification ==
    /\ doing = "child"
    /\ \E refs \in SeqOf(Args, MaxTargets) :
          IF AllKnown(refs) THEN doing' = "clarifying" /\ Reply("none")
                            ELSE doing' = doing /\ Refuse("value")
    /\ UNCHANGED <<targets, resumed, copied, actions, calls>>

\* register_node: what has no ref is taken for an entity, until one is refused.
Shown(view, id) ==
    IF ~view.ok \/ RefFor(view.ctx, id) # None THEN view
    ELSE LET made == RegisterExisting(view.ctx, id, "node")
         IN  [ctx |-> made.ctx, ok |-> made.ref # None]

Unseen == [ctx |-> ctx, ok |-> TRUE]

\* Its tools ask for another try whatever they raise.
Show(view) ==
    /\ ctx' = view.ctx
    /\ result' = IF view.ok THEN "ok" ELSE "retry"
    /\ UNCHANGED graph

Nodes == {i \in DOMAIN graph : ~IsEdge(graph[i])}

\* lookup_candidates, for an entity that may be only planned
LookUpCandidates ==
    \E r \in Args, found \in SeqOf(Nodes, MaxTargets) :
        IF r \in Refs(ctx) /\ ctx.entries[r].kind = "node"
        THEN Show(FoldLeft(Shown, Unseen, found))
        ELSE Reply("retry")

EdgesAt(id) == {i \in DOMAIN graph : id \in {graph[i].from, graph[i].to}}

\* project_entity_detail: an entity with its relationships
ShownDetail(view, r) ==
    LET id == Resolve(ctx, r, "node")
    IN  IF id = None THEN [view EXCEPT !.ok = FALSE]
        ELSE FoldLeft(LAMBDA v, e : Shown(Shown(v, graph[e].from), graph[e].to),
                      view, SetToSeq(EdgesAt(id)))

\* get_candidate_context: what was shown before a ref is refused stays registered.
CandidateContext ==
    \E refs \in SeqOf(Args, MaxTargets) :
        Show(IF refs = <<>> THEN [Unseen EXCEPT !.ok = FALSE]
             ELSE FoldLeft(ShownDetail, Unseen, refs))

\* get_relationship_context shows edges between two objects that have refs.
RelationshipContext ==
    \E r, s \in Args :
        IF None \in {Resolve(ctx, r, "node"), Resolve(ctx, s, "node")}
        THEN Reply("retry") ELSE Reply("ok")

LookUp ==
    /\ doing = "clarifying" /\ calls < MaxCalls
    /\ calls' = calls + 1
    /\ LookUpCandidates \/ CandidateContext \/ RelationshipContext
    /\ UNCHANGED <<doing, targets, resumed, copied, actions>>

\* build_question: a question names refs of the context, bound or not.
Question ==
    /\ doing = "clarifying"
    /\ \E refs \in SeqOf(Args, MaxTargets) :
          IF AllKnown(refs) THEN doing' = "asking" /\ Reply("none")
                            ELSE doing' = doing /\ Reply("retry")
    /\ UNCHANGED <<targets, resumed, copied, actions, calls>>

\* The agent reports without having asked.
Report ==
    /\ doing = "clarifying"
    /\ doing' = "child" /\ Reply("ok")
    /\ UNCHANGED <<targets, resumed, copied, actions, calls>>

ToolsNext ==
    \/ Retrieve \/ Plan \/ Start \/ Call \/ AskClarification \/ LookUp
    \/ Question \/ Report \/ Answer \/ End

ToolsSpec == ToolsInit /\ [][ToolsNext]_toolsVars

-----------------------------------------------------------------------------
(* Properties *)

\* "one ref-to-one object identity" (14-reference-coherence-and-recoverable-
\* validation.md): whatever was retrieved, looked up and created, no object has
\* two refs, but for the owner's, which has OWNER besides.
OneRefPerObject ==
    \A r, s \in Bound(ctx) \ {Owner} : ctx.entries[r].id = ctx.entries[s].id => r = s

\* In a context, a ref keeps the object that it was bound to: no later creation
\* takes it, and the context that an ingestion goes on with may not know the
\* ref, but does not have it for another object.
RefsKeepTheirObject ==
    [][\A r \in (Bound(ctx) \cap Bound(ctx')) \ {Owner} :
          ctx'.entries[r].id = ctx.entries[r].id]_toolsVars

\* The next ref that the backend allocates has been chosen by a planner.
NextRefTaken == \E k \in Kinds : <<k, ctx.counters[k] + 1>> \in Refs(ctx)

\* A tool that tells the model to correct its arguments and to try again has
\* written nothing, so that the second call cannot store a thing twice, unless
\* what it wrote got no ref because a planner had taken the name.
RetryAfterNoWrite == [][graph' # graph => result' # "retry" \/ NextRefTaken]_toolsVars

Into(id, label)  == {i \in DOMAIN graph : graph[i].label = label /\ graph[i].to = id}
OutOf(id, label) == {i \in DOMAIN graph : graph[i].label = label /\ graph[i].from = id}

\* A memory log that has a ref, so that edges and other logs can be planned with
\* it, is linked to all its hosts, one of them the main one, to all that it
\* involves and to the relationships it updates.
LogsAreLinked ==
    \A r \in Bound(ctx) :
        LET id  == ctx.entries[r].id
            log == graph[id].data
        IN  ctx.entries[r].kind = "memory" /\ id > Len(Stored) =>
              /\ {graph[i].from : i \in Into(id, "HAS_MEMORY_LOG")} = log.hosts
              /\ {graph[i].from : i \in {j \in Into(id, "HAS_MEMORY_LOG") : graph[j].data = "primary"}}
                   = {log.primary}
              /\ {graph[i].to : i \in OutOf(id, "INVOLVES")} = log.involved
              /\ {graph[i].to : i \in OutOf(id, "UPDATES_RELATIONSHIP")} = log.contexts
=============================================================================
