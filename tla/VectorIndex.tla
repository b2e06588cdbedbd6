----------------------------- MODULE VectorIndex ----------------------------
(***************************************************************************)
(* The vectors of the memory graph (rag/vectorization.py), the relational  *)
(* records that describe them (rag/vector_records.py), and the search that *)
(* reads both and the graph (rag/search.py).                               *)
(*                                                                         *)
(* The vector store, the record store and the graph are three databases    *)
(* without a common transaction.  Vectorization is a job of a worker that  *)
(* reads a node, compares its document with the record, and writes vector  *)
(* and record one after the other, while other workers write the graph.    *)
(***************************************************************************)
EXTENDS GraphMemory

CONSTANTS
    Profiles,   \* the memories that are profile memories of the owner
    Host,       \* [Memories -> the person a memory is shown with]
    MaxTargets  \* bound: targets of one vectorization

ASSUME IndexAssumption ==
    /\ Profiles \subseteq Memories
    /\ Host \in [Memories -> Persons]
    /\ MaxTargets \in Nat \ {0}

VARIABLES
    vector,     \* [Nodes -> the text that the stored vector embeds, or None]
    entry,      \* [Nodes -> vector record or None]
    index       \* [Nodes -> what is known of their index]     (history variable)

vars == <<graphVars, job, ops, torn, vector, entry, index>>

\* index is "clean" if vector and record were written for the node as it is, "changed"
\* if it has been written since, "mixed" if they may be of different writes.
Init ==
    /\ GraphInit
    /\ vector = [n \in Nodes |-> None]
    /\ entry = [n \in Nodes |-> None]
    /\ index = [n \in Nodes |-> "changed"]

-----------------------------------------------------------------------------
(* Documents *)

\* build_for_node returns no document for a node with nothing to say, and an
\* archived one loses its vector.  Of a profile memory, "active" stands for all
\* that _profile_is_indexable asks: active, stable and allowed in prompts.
Indexable(n) == n.text # 0 /\ n.lifecycle = "active"

\* A variant that compares no checksum.
SameState(e, n) == e # None /\ e.lifecycle = n.lifecycle

\* The document is recorded already, as it is and with the same state.
Unchanged(e, n) == e # None /\ e.text = n.text /\ e.lifecycle = n.lifecycle

-----------------------------------------------------------------------------
(* Vectorization.  A job holds the targets left, the copy of the current one, *)
(* and the documents to store once all targets have been read.               *)

InVectorize(w, step) == job[w].kind = "vectorize" /\ job[w].step = step

\* Targets that two workers have in hand end with a vector of one and maybe the
\* record of the other; alone holds the targets that a job never shared.
StartVectorize(w, targets) ==
    /\ targets # <<>> /\ IsInjective(targets)
    /\ Idle(w) /\ ops < MaxOps
    /\ LET mine   == ToSet(targets)
           others == {v \in Workers \ {w} : job[v].kind = "vectorize"}
           shared == mine \cap UNION {job[v].targets : v \in others}
       IN  /\ job' = [v \in Workers |->
                IF v = w
                THEN [kind |-> "vectorize", step |-> "node", left |-> targets, copy |-> None,
                      documents |-> <<>>, targets |-> mine, alone |-> mine \ shared]
                ELSE IF v \in others THEN [job[v] EXCEPT !.alone = @ \ mine] ELSE job[v]]
           /\ index' = [n \in Nodes |-> IF n \in shared THEN "mixed" ELSE index[n]]
    /\ ops' = ops + 1
    /\ UNCHANGED <<graphVars, torn, vector, entry>>

\* The next target, or the documents, or the end
NextTarget(j) ==
    IF Len(j.left) > 1 THEN [j EXCEPT !.step = "node", !.left = Tail(@), !.copy = None]
    ELSE IF j.documents # <<>> THEN [j EXCEPT !.step = "vector", !.left = <<>>, !.copy = None]
    ELSE NoJob

ReadTarget(w) ==
    /\ InVectorize(w, "node")
    /\ LET j == job[w]
           n == node[Head(j.left)]
       IN  Go(w, [j EXCEPT !.copy = n, !.step = IF Indexable(n) THEN "record" ELSE "delete"])
    /\ UNCHANGED <<graphVars, ops, torn, vector, entry, index>>

\* Whether the index of a target is known to be right, once a job is done with it
Known(w, n, copy) ==
    [index EXCEPT ![n] = IF n \in job[w].alone
                         THEN IF node[n] = copy THEN "clean" ELSE "changed" ELSE @]

CompareRecord(w) ==
    /\ InVectorize(w, "record")
    /\ LET j == job[w]
           n == Head(j.left)
       IN  IF Unchanged(entry[n], j.copy)
           THEN /\ Go(w, NextTarget(j))
                /\ index' = IF index[n] = "mixed" THEN index ELSE Known(w, n, j.copy)
           ELSE /\ Go(w, NextTarget([j EXCEPT !.documents =
                              Append(@, [target |-> n, copy |-> j.copy])]))
                /\ UNCHANGED index
    /\ UNCHANGED <<graphVars, ops, torn, vector, entry>>

\* _archive_document and _archive_existing_records: an error of the vector store
\* is swallowed.
DeleteVector(w) ==
    /\ InVectorize(w, "delete")
    /\ LET n == Head(job[w].left)
       IN  \E deleted \in BOOLEAN :
              /\ vector' = IF deleted THEN [vector EXCEPT ![n] = None] ELSE vector
              /\ Go(w, [job[w] EXCEPT !.step = "mark"])
    /\ UNCHANGED <<graphVars, ops, torn, entry, index>>

MarkArchived(w) ==
    /\ InVectorize(w, "mark")
    /\ LET j == job[w]
           n == Head(j.left)
       IN  /\ entry' = IF entry[n] = None THEN entry
                       ELSE [entry EXCEPT ![n].lifecycle = "archived"]
           /\ Go(w, NextTarget(j))
           /\ index' = Known(w, n, j.copy)
    /\ UNCHANGED <<graphVars, ops, torn, vector>>

Embedded(n, text) == [vector EXCEPT ![n] = text]

StoreVector(w) ==
    /\ InVectorize(w, "vector")
    /\ LET d == Head(job[w].documents)
       IN  vector' = Embedded(d.target, d.copy.text)
    /\ Go(w, [job[w] EXCEPT !.step = "entry"])
    /\ UNCHANGED <<graphVars, ops, torn, entry, index>>

Recorded(n, copy) == [entry EXCEPT ![n] = [text |-> copy.text, lifecycle |-> copy.lifecycle]]

StoreRecord(w) ==
    /\ InVectorize(w, "entry")
    /\ LET j == job[w]
           d == Head(j.documents)
       IN  /\ entry' = Recorded(d.target, d.copy)
           /\ Go(w, IF Len(j.documents) > 1
                    THEN [j EXCEPT !.documents = Tail(@), !.step = "vector"] ELSE NoJob)
           /\ index' = Known(w, d.target, d.copy)
    /\ UNCHANGED <<graphVars, ops, torn, vector>>

\* What raises between the vector and its record, or between the deletion of the
\* one and the other, leaves them apart.
RaiseVectorize(w) ==
    /\ job[w].kind = "vectorize"
    /\ Raise(w)
    /\ index' = IF job[w].step \in {"mark", "entry"}
                THEN [index EXCEPT ![IF job[w].step = "mark" THEN Head(job[w].left)
                                     ELSE Head(job[w].documents).target] = "mixed"]
                ELSE index
    /\ UNCHANGED <<vector, entry>>

VectorStep(w) ==
    \/ ReadTarget(w) \/ CompareRecord(w) \/ DeleteVector(w) \/ MarkArchived(w)
    \/ StoreVector(w) \/ StoreRecord(w) \/ RaiseVectorize(w)

\* Nothing in the services of the graph refreshes the index; their callers may.
GraphStep ==
    /\ GraphNext \/ \E w \in Workers : job[w].kind # "vectorize" /\ Raise(w)
    /\ index' = [n \in Nodes |-> IF node'[n] = node[n] \/ index[n] = "mixed" THEN index[n]
                                ELSE "changed"]
    /\ UNCHANGED <<vector, entry>>

Next ==
    \/ GraphStep
    \/ \E w \in Workers :
          \/ VectorStep(w)
          \/ \E k \in 1 .. MaxTargets : \E targets \in [1 .. k -> Nodes] : StartVectorize(w, targets)

Spec == Init /\ [][Next]_vars

-----------------------------------------------------------------------------
(* Search, without archived nodes *)

\* is_hidden_node
Hidden(n) == node[n].lifecycle = "archived" \/ node[n].into # None

\* _canonical_for_node: an error in the resolution counts as "not merged"
CanonicalOr(n) == IF n \in Memories \/ Canonical(n) = None THEN n ELSE Canonical(n)

\* _display_target_for_hit: a person stands for itself, a log for its host and a
\* profile memory for the first related node, its owner
Display(n) == IF n \in Memories THEN Host[n] ELSE n

\* A variant that shows the node a memory was written for.
ShownUnresolved(n) == Display(n)

ShownAt(n) == CanonicalOr(Display(n))

\* _hydrate_raw_hit: the record must not be hidden, nor what is shown; of what
\* was matched, only a profile memory is looked at again.
Hit(n) ==
    /\ vector[n] # None
    /\ entry[n] # None /\ entry[n].lifecycle = "active"
    /\ n \in Profiles => node[n].lifecycle = "active"
    /\ ~Hidden(ShownAt(n))

Found(n) == {m \in Nodes : Hit(m) /\ ShownAt(m) = n}

-----------------------------------------------------------------------------
InSync(n) ==
    IF Indexable(node[n])
    THEN /\ vector[n] = node[n].text
         /\ entry[n] = [text |-> node[n].text, lifecycle |-> node[n].lifecycle]
    ELSE entry[n] = None \/ entry[n].lifecycle = "archived"

\* A vectorization that nobody shared leaves vector and record as the node is,
\* through any history of edits, archivings, reactivations, merges and earlier
\* vectorizations, until the node is written again.  Targets whose vector and
\* record were torn apart are trusted only after both were written again.
IndexFollowsGraph == \A n \in Nodes : index[n] = "clean" => InSync(n)

\* A memory stays where it can be found when its host is merged into another
\* node, as long as the canonical node can be resolved and is shown.
FoundAtCanonical ==
    \A n \in Memories :
        LET c == Canonical(Host[n])
        IN  (index[n] = "clean" /\ Indexable(node[n]) /\ c # None /\ ~Hidden(c)) => n \in Found(c)
=============================================================================
