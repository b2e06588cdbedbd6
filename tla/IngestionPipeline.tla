-------------------------- MODULE IngestionPipeline -------------------------
(***************************************************************************)
(* The staged ingestion of one source (ingestion/runtime_pipeline.py and   *)
(* its mixins): entities are extracted and resolved, a memory log and a    *)
(* relationship are planned on top of them, each gets an action of its     *)
(* own, and a write plan is built, validated and executed.                 *)
(*                                                                         *)
(* Of the other candidates one memory log and one that a relationship      *)
(* planning leads to stand for all.  Execution is one action per write; a  *)
(* write may raise, and the caller may execute the plan again, since it    *)
(* stays a draft.                                                          *)
(***************************************************************************)
EXTENDS NodeResolution

CONSTANTS
    Mentioned, \* the candidates that logs and relationships mention
    Known,     \* the existing node that "update" takes, and that is patched by updates
    Owner,     \* the owner's node
    MaxRuns    \* bound: executions of the write plan

\* What a plan creates besides candidates: a log, a context or an assertion
NewIds == {"log", "context", "claim", "perception"}

ASSUME PipelineAssumption ==
    /\ Mentioned \subseteq Refs /\ Refs \cap NewIds = {}
    /\ {Known, Owner} \cap (Refs \cup {None}) = {}
    /\ MaxRuns \in Nat \ {0}

VARIABLES
    then,     \* where the pipeline goes on when the resolution ends
    log,      \* [host, with]: the memory log, its host and who it involves, or None
    relation, \* [shape, to]: what leads from the owner to a candidate, or None
    actions,  \* what the model does with the log and the relation
    plan,     \* the writes left to execute
    run,      \* executions of the plan so far
    nodes,    \* ids of the nodes in the graph
    edges     \* its relationships: <<id, from, to>>

planned == <<log, relation>>
graph   == <<run, nodes, edges>>
vars    == <<resolutionVars, then, planned, actions, plan, graph>>

\* _task_type_for_storage_shape; "note" is a metadata patch.
Shapes == {"relationship", "context", "claim", "perception", "note"}
Unset  == [log |-> None, relation |-> None]

Init ==
    /\ ResolutionInit
    /\ then = "logs"
    /\ log = None /\ relation = None
    /\ actions = Unset
    /\ plan = <<>> /\ run = 0
    /\ nodes = {Known, Owner} /\ edges = {}

-----------------------------------------------------------------------------
(* Stages.  Each may fail, with a result that says so, and each agent may ask *)
(* the user; only the resolution of nodes can take an answer.                *)

Asking == {"prepare", "logs", "logdrafts", "planning", "supplemental", "memory", "relationship"}

Ends(s) ==
    /\ stage' = s
    /\ UNCHANGED <<candidates, batch, acted, recent, askedFor, spent, used, results, question,
                   decided, excused, then, planned, actions, plan, graph>>

StageEnds == stage \in Asking \cup {"relations"} /\ Ends("invalid")
StageAsks == stage \in Asking /\ Ends("asked")

\* A stage that ends with a log and a relation, of which it sets one
Plans(s) ==
    /\ stage' = s
    /\ UNCHANGED <<candidates, batch, acted, recent, askedFor, spent, used, results, question,
                   decided, excused, then, actions, plan, graph>>

\* process_source up to the resolution
Prepare ==
    /\ stage = "prepare"
    /\ Resolve(Entities)
    /\ then' = "logs"
    /\ UNCHANGED <<excused, planned, actions, plan, graph>>

\* resume_pending starts _continue_after_node_resolution from its beginning.
ResumePending ==
    /\ Answer
    /\ then' = "logs"
    /\ log' = None
    /\ UNCHANGED <<relation, actions, plan, graph>>

\* _plan_memory_logs: a plan without a log leads to no extraction.
PlanLogs ==
    /\ stage = "logs"
    /\ \E s \in {"logdrafts", "planning"} : Plans(s)
    /\ UNCHANGED planned

\* _enrich_memory_log: whatever was planned, the links are those of the draft.
LogDrafts == [host : Mentioned, with : Mentioned \cup {None}]

\* _validate_memory_log: against the candidates of the first extraction, whatever
\* was decided for them.
LogIsValid(draft) == {draft.host, draft.with} \ {None} \subseteq ToSet(Entities)

\* _prepare_memory_logs
AfterLogs(draft) == IF LogIsValid(draft) THEN "planning" ELSE "invalid"

\* _extract_memory_logs: one draft for each task, or an issue
ExtractLogs ==
    /\ stage = "logdrafts"
    /\ \E draft \in LogDrafts :
          /\ log' = draft
          /\ Plans(AfterLogs(draft))
    /\ UNCHANGED relation

\* _relationship_endpoint_ref
Usable(r) == decided[r] \in {"create", "update"}

\* build_relationship_extraction_plan makes a task for a relationship whose
\* endpoints can be used, and an issue of any other.
TaskFor(rel) == rel = None \/ Usable(rel.to)

\* _plan_relationships
PlanRelationship ==
    /\ stage = "planning"
    /\ \E rel \in [shape : Shapes, to : Mentioned] \cup {None} :
          /\ relation' = rel
          /\ Plans(IF TaskFor(rel) THEN "relations" ELSE "invalid")
    /\ UNCHANGED log

\* _normalize_candidate_refs: the endpoint is the one the draft names.  That there
\* is one draft for each task is not checked.
RelationDrafts ==
    IF relation = None THEN {None} ELSE {None} \cup [shape : {relation.shape}, to : Mentioned]

\* _complete_relationship_candidate_preparation: to validate_candidate_graph any
\* candidate will do, a deferred one too.
AfterRelations(draft) ==
    IF draft = None \/ draft.to \in ToSet(candidates) THEN "memory" ELSE "invalid"

\* _extract_relationship_candidates
ExtractRelation ==
    /\ stage = "relations"
    /\ \E draft \in RelationDrafts :
          /\ relation' = draft
          /\ Plans(AfterRelations(draft))
    /\ UNCHANGED log

\* Missing entities are looked for once.
FirstPlan == then = "logs"

\* _plan_missing_entity and the extraction of what it plans; the logs are kept.
MissEntities ==
    /\ stage = "planning" /\ FirstPlan
    /\ Ends("supplemental")

\* _resolve_missing_entities_once resolves all entities again.
ResolveAgain ==
    /\ stage = "supplemental"
    /\ Resolve(Combined)
    /\ then' = "planning"
    /\ UNCHANGED <<excused, planned, actions, plan, graph>>

\* What is missing after that blocks the ingestion.
StillMissing ==
    /\ stage = "planning" /\ ~FirstPlan
    /\ Ends("blocked")

-----------------------------------------------------------------------------
(* The write plan *)

\* A variant that gives what is created another id, which None stands for, when
\* the plan is executed again.
IdOfRun(x) == IF run = 1 THEN x ELSE None

\* idempotency_key and deterministic_uuid: the id of what a source creates
\* depends on the source and the candidate, not on the execution.
IdOf(x) == x

\* local_ref_resolution, and the ids of the nodes that the plan creates
NodeFor(r) == IF decided[r] = "update" THEN Known ELSE IdOf(r)

Write(op, x, f, t) == [op |-> op, id |-> x, from |-> f, to |-> t]

EntityWrite(r)      == Write("node", r, None, None)
AssertionWrite(s)   == Write("node", s, None, None)
ContextWrite        == Write("node", "context", None, None)
MemoryLogWrite      == Write("node", "log", None, None)
NodeUpdate(r)       == Write("patch", None, None, r)
MetadataPatch(r)    == Write("patch", None, None, r)
RelationWrite(x, f, t) == Write("edge", x, f, t)

\* _memory_log_links and _memory_log_relationship_write: the host leads to the
\* log, and the log to who it involves.
LogLinks(draft) ==
    <<RelationWrite("hosts", draft.host, "log")>>
    \o (IF draft.with = None THEN <<>> ELSE <<RelationWrite("involves", "log", draft.with)>>)

When(condition, writes) == IF condition THEN writes ELSE <<>>

Shape(s) == relation # None /\ relation.shape = s

Assertion == Shape("claim") \/ Shape("perception")

Deferred(t) == t = "defer"
Updating(t) == t = "update"

\* build, in the order in which execute takes the parts: nodes, updates,
\* assertions, contexts, logs, patches, relationships.  A candidate taken as an
\* existing node is not written at all; an update of a log or a context leaves
\* its edges alone, and an update of a relationship is written as another one.
Writes(la, ra) ==
    FlattenSeq([i \in 1 .. Len(candidates) |->
                  When(decided[candidates[i]] = "create", <<EntityWrite(candidates[i])>>)])
    \o When((log # None /\ Updating(la)) \/ (Shape("context") /\ Updating(ra)), <<NodeUpdate(Known)>>)
    \o When(Assertion, <<AssertionWrite(relation.shape)>>)
    \o When(Shape("context") /\ ra = "create", <<ContextWrite>>)
    \o When(log # None /\ la = "create", <<MemoryLogWrite>>)
    \o When(Shape("note"), <<MetadataPatch(relation.to)>>)
    \o When(Assertion, <<RelationWrite("about", relation.shape, relation.to)>>)
    \o When(Shape("context") /\ ra = "create", <<RelationWrite("with", "context", relation.to)>>)
    \o When(log # None /\ la = "create", LogLinks(log))
    \o When(Shape("relationship") /\ ~Deferred(ra), <<RelationWrite("relates", Owner, relation.to)>>)

\* validate_write_plan: a candidate at the end of an edge is written by the plan,
\* or resolved.  The target of a metadata patch is not looked at.
Valid(writes) ==
    LET written == {writes[i].id : i \in {i \in DOMAIN writes : writes[i].op = "node"}}
    IN  \A i \in DOMAIN writes :
            writes[i].op = "edge" =>
                \A r \in {writes[i].from, writes[i].to} \cap Refs :
                    r \in written \/ decided[r] = "update"

\* _complete_write: merge_step_actions takes one action for the log and one for a
\* relationship or its context; assertions and patches have none.
ProposeMemory ==
    /\ stage = "memory"
    /\ \E t \in IF log = None THEN {"defer"} ELSE Tools : actions' = [Unset EXCEPT !.log = t]
    /\ stage' = "relationship"
    /\ UNCHANGED <<candidates, batch, acted, recent, askedFor, spent, used, results, question,
                   decided, excused, then, planned, plan, graph>>

\* relationship_endpoints: an update takes the endpoints of the action.  Those of
\* a creation are required, and ignored.
Endpoints(t) ==
    IF Shape("relationship") /\ Updating(t)
    THEN [shape : {"relationship"}, to : Mentioned \cap ToSet(candidates)]
    ELSE {relation}

ProposeRelation ==
    /\ stage = "relationship"
    /\ \E t \in IF Shape("relationship") \/ Shape("context") THEN Tools ELSE {"defer"} :
          /\ actions' = [actions EXCEPT !.relation = t]
          /\ relation' \in Endpoints(t)
    /\ stage' = "build"
    /\ UNCHANGED <<candidates, batch, acted, recent, askedFor, spent, used, results, question,
                   decided, excused, then, log, plan, graph>>

\* The plan is executed if it has writes and is valid.
Build ==
    /\ stage = "build"
    /\ LET writes == Writes(actions.log, actions.relation)
           runs   == writes # <<>> /\ Valid(writes)
       IN  /\ stage' = IF runs THEN "writing" ELSE "invalid"
           /\ plan' = IF runs THEN writes ELSE <<>>
           /\ run' = IF runs THEN 1 ELSE 0
    /\ UNCHANGED <<candidates, batch, acted, recent, askedFor, spent, used, results, question,
                   decided, excused, then, planned, actions, nodes, edges>>

-----------------------------------------------------------------------------
(* Execution *)

\* _resolve_ref, over the refs of the run and of this execution
Resolved(r) == IF r \in Refs THEN NodeFor(r) ELSE IF r \in {Owner, Known} THEN r ELSE IdOf(r)

\* What a write needs in the graph: the ends of an edge, the target of a patch
Needs(w) == IF w.op = "edge" THEN {Resolved(w.from), Resolved(w.to)}
            ELSE IF w.op = "patch" THEN {Resolved(w.to)} ELSE {}

Executable(w) == Needs(w) \subseteq nodes

WriteNext ==
    /\ stage = "writing" /\ plan # <<>> /\ Executable(Head(plan))
    /\ LET w == Head(plan)
       IN  /\ nodes' = IF w.op = "node" THEN nodes \cup {IdOf(w.id)} ELSE nodes
           /\ edges' = IF w.op = "edge"
                       THEN edges \cup {<<IdOf(w.id), Resolved(w.from), Resolved(w.to)>>}
                       ELSE edges
    /\ plan' = Tail(plan)
    /\ UNCHANGED <<resolutionVars, then, planned, actions, run>>

\* What a write raises ends the execution; the writes before it stay.
WriteFails ==
    /\ stage = "writing" /\ plan # <<>> /\ ~Executable(Head(plan))
    /\ Ends("failed")

\* So does a connection that is lost.
WriteRaises ==
    /\ stage = "writing" /\ plan # <<>> /\ Executable(Head(plan))
    /\ Ends("failed")

Executed == stage = "writing" /\ plan = <<>> /\ Ends("vectors")

\* _vectorize_written_result: whatever the vectorization raises, it is written.
Vectorize == stage = "vectors" /\ Ends("written")

\* The plan is still a draft, so it may be executed again, from its start.
ExecuteAgain ==
    /\ stage = "failed" /\ run < MaxRuns
    /\ stage' = "writing"
    /\ plan' = Writes(actions.log, actions.relation)
    /\ run' = run + 1
    /\ UNCHANGED <<candidates, batch, acted, recent, askedFor, spent, used, results, question,
                   decided, excused, then, planned, actions, nodes, edges>>

-----------------------------------------------------------------------------
ResolveStep(step) ==
    /\ step
    /\ UNCHANGED <<then, planned, actions, plan, graph>>

\* What a request does when nothing fails, whatever the model answers
Proceed ==
    \/ Prepare \/ ResolveStep(ResolutionStep(then))
    \/ PlanLogs \/ ExtractLogs
    \/ PlanRelationship \/ ExtractRelation \/ MissEntities \/ ResolveAgain \/ StillMissing
    \/ ProposeMemory \/ ProposeRelation \/ Build
    \/ WriteNext \/ WriteFails \/ Executed \/ Vectorize

\* What the model, the provider, the graph or the caller may do
Others ==
    \/ StageEnds \/ StageAsks \/ ResolveStep(SessionFails) \/ WriteRaises
    \/ ResumePending \/ ExecuteAgain

Next == Proceed \/ Others

\* A request runs until it returns; nothing else need happen.
Spec == Init /\ [][Next]_vars /\ WF_vars(Proceed)

-----------------------------------------------------------------------------
Running == Asking \cup {"resolving", "relations", "build", "writing", "vectors"}
Stopped == {"waiting", "asked", "invalid", "unresolved", "blocked", "failed", "written"}

\* What the decisions say that the graph shall be
DecidedNodes ==
    {Known, Owner} \cup {r \in ToSet(candidates) : decided[r] = "create"}
    \cup (IF log # None /\ actions.log = "create" THEN {"log"} ELSE {})
    \cup (IF Assertion \/ (Shape("context") /\ actions.relation = "create")
          THEN {relation.shape} ELSE {})

Decided(r) == IF decided[r] = "update" THEN Known ELSE r

DecidedEdges ==
    (IF log # None /\ actions.log = "create"
     THEN {<<"hosts", Decided(log.host), "log">>}
          \cup {<<"involves", "log", Decided(r)>> : r \in {log.with} \ {None}}
     ELSE {})
    \cup (IF Assertion THEN {<<"about", relation.shape, Decided(relation.to)>>} ELSE {})
    \cup (IF Shape("context") /\ actions.relation = "create"
          THEN {<<"with", "context", Decided(relation.to)>>} ELSE {})
    \cup (IF Shape("relationship") /\ actions.relation # "defer"
          THEN {<<"relates", Owner, Decided(relation.to)>>} ELSE {})

\* "Ingestion should be resumable and idempotent" (technical-principles.md):
\* after any number of executions that failed anywhere, the graph has nothing
\* that was not decided, and a written ingestion has all of it, once; no edge
\* leads to a candidate that was deferred, or to one that was created although
\* a later resolution took an existing node.  A plan that was validated meets no
\* edge whose ends are not there.
GraphIsAsDecided ==
    /\ nodes \subseteq DecidedNodes /\ edges \subseteq DecidedEdges
    /\ stage = "writing" /\ plan # <<>> /\ Head(plan).op = "edge" => Executable(Head(plan))
    /\ stage = "written" => nodes = DecidedNodes /\ edges = DecidedEdges

\* A request ends: it does not ask the model for missing actions for ever, and
\* each stage leads on, or to a result that says where the ingestion stopped.
RequestEnds == (stage \in Running) ~> (stage \in Stopped)

=============================================================================
