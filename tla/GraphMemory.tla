---------------------------- MODULE GraphMemory ----------------------------
(***************************************************************************)
(* The memory graph as its services write it (graph/): nodes and their     *)
(* lifecycle, merges of nodes that turn out to be one, and the states of   *)
(* relationship contexts.                                                  *)
(*                                                                         *)
(* Neo4j runs every repository call in a transaction of its own, and a     *)
(* service makes several of them.  So a merge or the creation of a state   *)
(* is a job of a worker, with one action per call that writes what some    *)
(* call reads, and any call may raise.  Change records, and the edges of   *)
(* the history, are written by the same jobs but read by none of them.     *)
(***************************************************************************)
EXTENDS Naturals, FiniteSets, Sequences, SequencesExt

CONSTANTS
    Persons,    \* nodes of one label, that merges may unify
    Memories,   \* nodes that belong to a person: logs and profile memories
    Records,    \* merge records
    States,     \* states of the one relationship context: numbers in order of creation
    Levels,     \* what a relationship state says, "none" if it says nothing
    Texts,      \* contents of a node: 0 is nothing worth a document
    Workers,    \* requests in progress at a time
    MaxOps,     \* bound: operations begun
    None

Lifecycles == {"active", "archived"}
Statuses   == {"proposed", "rejected", "applied"}

\* None is neither a node, a text or a level nor one of the records below.
ASSUME GraphAssumption ==
    /\ IsFiniteSet(Persons) /\ Persons \cap Memories = {}
    /\ Texts \subseteq Nat /\ States \subseteq Nat /\ 1 \in Texts /\ "none" \in Levels
    /\ MaxOps \in Nat
    /\ None \notin Persons \cup Memories \cup Levels \cup Nat
    /\ None \notin [canonical : Persons, merged : SUBSET Persons, status : Statuses]
    /\ None \notin [text : Texts, lifecycle : Lifecycles]

Nodes == Persons \cup Memories

VARIABLES
    node,       \* [Nodes -> their properties]
    mergedInto, \* MERGED_INTO: how many edges lead from one node to another
    record,     \* [Records -> merge record or None]
    context,    \* the level of the relationship context itself
    state,      \* [States -> relationship state]
    job,        \* [Workers -> the operation it is in]
    ops,        \* operations begun
    raced,      \* merges during which others wrote their nodes (history variable)
    torn        \* kinds of jobs that raised half-way             (history variable)

graphVars == <<node, mergedInto, record, context, state, raced>>

NoJob == [kind |-> "none"]
Idle(w) == job[w] = NoJob

NewNode(n)                == [lifecycle |-> "active", into |-> None, refs |-> {n}, text |-> 1]
NewState(current, level)  == [linked |-> FALSE, current |-> current, level |-> level]
NewMerge(canonical, merged) == [canonical |-> canonical, merged |-> merged, status |-> "proposed"]

GraphInit ==
    /\ node = [n \in Nodes |-> NewNode(n)]
    /\ mergedInto = [e \in Persons \X Persons |-> 0]
    /\ record = [r \in Records |-> None]
    /\ context = "none"
    /\ state = [s \in States |-> NewState(FALSE, None)]
    /\ job = [w \in Workers |-> NoJob]
    /\ ops = 0
    /\ raced = {}
    /\ torn = {}

Begin(w, started) ==
    /\ Idle(w) /\ ops < MaxOps
    /\ ops' = ops + 1
    /\ job' = [job EXCEPT ![w] = started]

Go(w, changed) == job' = [job EXCEPT ![w] = changed]

\* The merges of other workers that hold a copy of a node that is written now.
Racing(w, n) ==
    {job[v].record : v \in {v \in Workers \ {w} : job[v].kind = "merge" /\ n \in job[v].nodes}}

Write(w, n, changed) ==
    /\ node' = [node EXCEPT ![n] = changed]
    /\ raced' = raced \cup Racing(w, n)

\* What raises ends the request; nothing that was written is taken back.
Raise(w) ==
    /\ ~Idle(w)
    /\ Go(w, NoJob)
    /\ torn' = torn \cup {job[w].kind}
    /\ UNCHANGED <<graphVars, ops>>

-----------------------------------------------------------------------------
(* Nodes *)

\* transition_node_lifecycle: any state may follow any other.
Transition(w, n, lifecycle) ==
    /\ Idle(w) /\ ops < MaxOps /\ lifecycle # node[n].lifecycle
    /\ Write(w, n, [node[n] EXCEPT !.lifecycle = lifecycle])
    /\ ops' = ops + 1
    /\ UNCHANGED <<mergedInto, record, context, state, job, torn>>

\* patch_node with new contents
Patch(w, n, text) ==
    /\ Idle(w) /\ ops < MaxOps /\ text # node[n].text
    /\ Write(w, n, [node[n] EXCEPT !.text = text])
    /\ ops' = ops + 1
    /\ UNCHANGED <<mergedInto, record, context, state, job, torn>>

\* upsert_node on an id that exists.  The model of the label fills in what the
\* caller leaves out, so that the node is active again and has only the refs
\* given now; merged_into_id, which has no default, stays.
Upsert(w, n) ==
    /\ Idle(w) /\ ops < MaxOps
    /\ Write(w, n, [node[n] EXCEPT !.lifecycle = "active", !.refs = {n}])
    /\ ops' = ops + 1
    /\ UNCHANGED <<mergedInto, record, context, state, job, torn>>

-----------------------------------------------------------------------------
(* Merges *)

\* create_merge_record, with the checks of _validate_merge_nodes
CreateMerge(r, canonical, merged) ==
    /\ record[r] = None
    /\ merged # {} /\ canonical \notin merged
    /\ record' = [record EXCEPT ![r] = NewMerge(canonical, merged)]
    /\ UNCHANGED <<node, mergedInto, context, state, job, ops, raced, torn>>

\* update_merge_record takes any status but "applied", whatever the status is.
UpdateMerge(w, r, status) ==
    /\ Idle(w) /\ ops < MaxOps
    /\ record[r] # None /\ record[r].status # status
    /\ record' = [record EXCEPT ![r].status = status]
    /\ ops' = ops + 1
    /\ UNCHANGED <<node, mergedInto, context, state, job, raced, torn>>

\* apply_merge reads the record, then the canonical node and the merged ones.
ApplyMerge(w, r) ==
    /\ record[r] # None /\ record[r].status = "proposed"
    /\ LET r0 == record[r]
           merged == SetToSeq(r0.merged)
       IN  Begin(w, [kind |-> "merge", step |-> "read", record |-> r,
                     canonical |-> r0.canonical, merged |-> merged, refs |-> {}, own |-> {},
                     nodes |-> {}, left |-> <<r0.canonical>> \o merged])
    /\ UNCHANGED <<graphVars, torn>>

InMerge(w, step) == job[w].kind = "merge" /\ job[w].step = step

\* A variant that hides the merged nodes before they can be followed.
ArchiveFirst(step) ==
    CASE step = "read" -> "absorb" [] step = "absorb" -> "archive"
      [] step = "archive" -> "link" [] step = "link" -> "finish"

\* The order in which a merge is applied
NextStep(step) ==
    CASE step = "read" -> "link" [] step = "link" -> "absorb"
      [] step = "absorb" -> "archive" [] step = "archive" -> "finish"

\* The next node of this step, or the next step with all merged nodes
Advance(j) ==
    IF Len(j.left) > 1 THEN [j EXCEPT !.left = Tail(@)]
    ELSE [j EXCEPT !.step = NextStep(@), !.left = j.merged]

ReadNode(w) ==
    /\ InMerge(w, "read")
    /\ LET j == job[w]
           n == Head(j.left)
       IN  Go(w, Advance([j EXCEPT !.refs = @ \cup node[n].refs, !.nodes = @ \cup {n},
                            !.own = IF n = j.canonical THEN node[n].refs ELSE @]))
    /\ UNCHANGED <<graphVars, ops, torn>>

\* upsert_relationship of an edge with an id of its own: a second one for the
\* same nodes is one more edge.  Readers ask for two edges at most.
OneMoreEdge(from, to) == [mergedInto EXCEPT ![<<from, to>>] = IF @ < 2 THEN @ + 1 ELSE @]

LinkMerged(w) ==
    /\ InMerge(w, "link")
    /\ mergedInto' = OneMoreEdge(Head(job[w].left), job[w].canonical)
    /\ Go(w, Advance(job[w]))
    /\ UNCHANGED <<node, record, context, state, raced, ops, torn>>

\* A variant that patches the canonical node with what it has.
PatchedOwn(own, refs) == own

\* _safe_merge_patch: the lists of the canonical node, then those of the others
PatchedRefs(own, refs) == own \cup refs

\* The patch is computed from the copies; it is left out if it changes nothing.
Absorb(w) ==
    /\ InMerge(w, "absorb")
    /\ LET j    == job[w]
           refs == PatchedRefs(j.own, j.refs)
       IN  /\ IF refs = j.own THEN UNCHANGED <<node, raced>>
              ELSE Write(w, j.canonical, [node[j.canonical] EXCEPT !.refs = refs])
           /\ Go(w, [j EXCEPT !.step = NextStep(@)])
    /\ UNCHANGED <<mergedInto, record, context, state, ops, torn>>

ArchiveMerged(w) ==
    /\ InMerge(w, "archive")
    /\ LET j == job[w]
           n == Head(j.left)
       IN  /\ Write(w, n, [node[n] EXCEPT !.lifecycle = "archived", !.into = j.canonical])
           /\ Go(w, Advance(j))
    /\ UNCHANGED <<mergedInto, record, context, state, ops, torn>>

FinishMerge(w) ==
    /\ InMerge(w, "finish")
    /\ record' = [record EXCEPT ![job[w].record].status = "applied"]
    /\ Go(w, NoJob)
    /\ UNCHANGED <<node, mergedInto, context, state, raced, ops, torn>>

\* get_canonical_node, from a node and the nodes seen before it
Following(n) == {m \in Persons : mergedInto[n, m] > 0}

Canonical(n) ==
    LET resolve[seen \in SUBSET Persons, m \in Persons] ==
            LET next == Following(m)
            IN  IF m \in seen \/ Cardinality(next) > 1 THEN None
                ELSE IF next = {} THEN m
                ELSE LET k == CHOOSE k \in next : TRUE
                     IN  IF mergedInto[m, k] > 1 THEN None ELSE resolve[seen \cup {m}, k]
    IN  resolve[{}, n]

-----------------------------------------------------------------------------
(* Relationship states *)

\* Every state gets an id of its own.
IsUnused(s) ==
    /\ state[s].level = None
    /\ \A v \in Workers : job[v].kind = "state" => job[v].state # s

\* create_relationship_state reads the context first.
CreateState(w, s, level, makeCurrent) ==
    /\ IsUnused(s) /\ \A t \in States : t < s => ~IsUnused(t)
    /\ Begin(w, [kind |-> "state", step |-> "upsert", state |-> s, level |-> level,
                 makeCurrent |-> makeCurrent, read |-> context])
    /\ UNCHANGED <<graphVars, torn>>

InState(w, step) == job[w].kind = "state" /\ job[w].step = step

UpsertState(w) ==
    /\ InState(w, "upsert")
    /\ state' = [state EXCEPT ![job[w].state] = NewState(job[w].makeCurrent, job[w].level)]
    /\ Go(w, [job[w] EXCEPT !.step = "link"])
    /\ UNCHANGED <<node, mergedInto, record, context, raced, ops, torn>>

LinkState(w) ==
    /\ InState(w, "link")
    /\ state' = [state EXCEPT ![job[w].state].linked = TRUE]
    /\ Go(w, IF job[w].makeCurrent THEN [job[w] EXCEPT !.step = "clear"] ELSE NoJob)
    /\ UNCHANGED <<node, mergedInto, record, context, raced, ops, torn>>

\* A variant that clears the states that were created before.
ClearedOlder(s, kept) == s < kept /\ state[s].linked

\* clear_current_relationship_states: all others that are linked
Cleared(s, kept) == s # kept /\ state[s].linked

ClearOthers(w) ==
    /\ InState(w, "clear")
    /\ state' = [s \in States |-> IF Cleared(s, job[w].state)
                                  THEN [state[s] EXCEPT !.current = FALSE] ELSE state[s]]
    /\ Go(w, IF job[w].level # "none" /\ job[w].level # job[w].read
             THEN [job[w] EXCEPT !.step = "context"] ELSE NoJob)
    /\ UNCHANGED <<node, mergedInto, record, context, raced, ops, torn>>

PatchContext(w) ==
    /\ InState(w, "context")
    /\ context' = job[w].level
    /\ Go(w, NoJob)
    /\ UNCHANGED <<node, mergedInto, record, state, raced, ops, torn>>

-----------------------------------------------------------------------------
MergeStep(w) ==
    \/ ReadNode(w) \/ LinkMerged(w) \/ Absorb(w) \/ ArchiveMerged(w) \/ FinishMerge(w)

StateStep(w) == UpsertState(w) \/ LinkState(w) \/ ClearOthers(w) \/ PatchContext(w)

GraphNext ==
    \/ \E r \in Records, n \in Persons, merged \in SUBSET Persons : CreateMerge(r, n, merged)
    \/ \E w \in Workers :
          \/ MergeStep(w) \/ StateStep(w)
          \/ \E n \in Nodes : Upsert(w, n)
          \/ \E n \in Nodes, l \in Lifecycles : Transition(w, n, l)
          \/ \E n \in Nodes, t \in Texts : Patch(w, n, t)
          \/ \E r \in Records : ApplyMerge(w, r)
          \/ \E r \in Records, s \in {"proposed", "rejected"} : UpdateMerge(w, r, s)
          \/ \E s \in States, l \in Levels, b \in BOOLEAN : CreateState(w, s, l, b)

-----------------------------------------------------------------------------
\* A node that is hidden because it was merged can be followed to the node
\* that has replaced it, at any moment, whichever merges overlap or raise
\* half-way and whatever is written in between: else the memory would be lost.
MergedAreFollowable ==
    \A n \in Persons : node[n].into # None => mergedInto[n, node[n].into] > 0

\* "useful aliases/source references may be copied to the canonical node"
\* (docs/network/graph-model.md): when a merge becomes applied, at its first
\* attempt or after some that raised, the canonical node has every ref of the
\* merged ones, if no other request has written one of its nodes meanwhile.
MergeKeepsRefs ==
    [][\A r \in Records \ raced :
          (record[r] # record'[r] /\ record'[r].status = "applied") =>
              \A n \in record[r].merged : node'[n].refs \subseteq node'[record[r].canonical].refs
      ]_<<record, node>>

\* Two requests that each make their state the current one may end with none,
\* because each clears the other's.  They never end with two.
AtMostOneCurrent ==
    ((\A w \in Workers : job[w].kind # "state") /\ "state" \notin torn) =>
        Cardinality({s \in States : state[s].linked /\ state[s].current}) <= 1
=============================================================================
