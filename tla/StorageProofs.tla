---------------------------- MODULE StorageProofs ----------------------------
(***************************************************************************)
(* Proofs about what is stored.  First the graph, with its vectors and its *)
(* index (GraphMemory and VectorIndex): for any persons, memories, texts,  *)
(* workers, merges and any number of operations.  Then the two chat stores *)
(* (ChatStores): for any sessions, keys, frames and kinds of messages and  *)
(* any number of calls.                                                    *)
(***************************************************************************)
EXTENDS VectorIndex, ChatStores, SetLemmas

NodeT   == [lifecycle : Lifecycles, into : Persons \cup {None}, refs : SUBSET Nodes,
            text : Texts]
RecordT == [canonical : Persons, merged : SUBSET Persons, status : Statuses]
StateT  == [linked : BOOLEAN, current : BOOLEAN, level : Levels \cup {None}]
EntryT  == [text : Texts, lifecycle : Lifecycles]

MergeJob == [kind : {"merge"}, step : {"read", "link", "absorb", "archive", "finish"},
             record : Records, canonical : Persons, merged : Seq(Persons),
             refs : SUBSET Nodes, own : SUBSET Nodes, nodes : SUBSET Nodes,
             left : Seq(Persons)]

StateJob == [kind : {"state"}, step : {"upsert", "link", "clear", "context"},
             state : States, level : Levels, makeCurrent : BOOLEAN, read : Levels]

VectorJob == [kind : {"vectorize"},
              step : {"node", "record", "delete", "mark", "vector", "entry"},
              left : Seq(Nodes), copy : NodeT \cup {None},
              documents : Seq([target : Nodes, copy : NodeT]),
              targets : SUBSET Nodes, alone : SUBSET Nodes]

TypeOK ==
    /\ node \in [Nodes -> NodeT]
    /\ mergedInto \in [Persons \X Persons -> Nat]
    /\ record \in [Records -> RecordT \cup {None}]
    /\ context \in Levels
    /\ state \in [States -> StateT]
    /\ job \in [Workers -> MergeJob \cup StateJob \cup VectorJob \cup {NoJob}]
    /\ ops \in Nat
    /\ raced \subseteq Records
    /\ torn \subseteq {"merge", "state", "vectorize"}
    /\ vector \in [Nodes -> Texts \cup {None}]
    /\ entry \in [Nodes -> EntryT \cup {None}]
    /\ index \in [Nodes -> {"clean", "changed", "mixed"}]

Merging(w)     == job[w].kind = "merge"
Stating(w)     == job[w].kind = "state"
Vectorizing(w) == job[w].kind = "vectorize"

\* A step that works through nodes has one.
Shaped(j) ==
    /\ j.kind = "merge" =>
          /\ j.merged # <<>>
          /\ j.step \in {"read", "link", "absorb", "archive"} => j.left # <<>>
    /\ j.kind = "vectorize" =>
          /\ j.step \in {"node", "record", "delete", "mark"} => j.left # <<>>
          /\ j.step \in {"record", "delete", "mark"} => j.copy \in NodeT
          /\ j.step \in {"vector", "entry"} => j.documents # <<>>

ShapeInv == \A w \in Workers : Shaped(job[w])

-----------------------------------------------------------------------------
(* Merges *)

\* A merge works on what its record says.
RecordInv ==
    \A w \in Workers : Merging(w) =>
        LET r == record[job[w].record]
        IN  /\ r # None
            /\ r.canonical = job[w].canonical
            /\ r.merged = ToSet(job[w].merged)

RecordsHaveNodes == \A r \in Records : record[r] # None => record[r].merged # {}

Linked(n, c) == mergedInto[n, c] > 0

\* What is not left to link is linked.
LinksOf(j) ==
    /\ j.step = "link" => \A n \in ToSet(j.merged) : n \in ToSet(j.left) \/ Linked(n, j.canonical)
    /\ j.step \in {"absorb", "archive", "finish"} =>
          \A n \in ToSet(j.merged) : Linked(n, j.canonical)
    /\ j.step \in {"link", "absorb", "archive"} => ToSet(j.left) \subseteq ToSet(j.merged)

LinkInv == \A w \in Workers : Merging(w) => LinksOf(job[w])

\* Of a merge that nobody raced: the copies are what the nodes have, and once
\* they are absorbed the canonical node has it all.
NodesOf(j) == ToSet(j.merged) \cup {j.canonical}

RefsOf(j) ==
    /\ j.step = "read" => NodesOf(j) \subseteq j.nodes \cup ToSet(j.left)
    /\ j.step # "read" => NodesOf(j) \subseteq j.nodes
    /\ j.record \notin raced =>
          IF j.step \in {"read", "link", "absorb"}
          THEN /\ \A n \in j.nodes : node[n].refs \subseteq j.refs
               /\ j.canonical \in j.nodes => j.own = node[j.canonical].refs
          ELSE \A n \in j.nodes : node[n].refs \subseteq node[j.canonical].refs

RefsInv == \A w \in Workers : Merging(w) => RefsOf(job[w])

MergeInv == RecordInv /\ RecordsHaveNodes /\ LinkInv /\ MergedAreFollowable /\ RefsInv

-----------------------------------------------------------------------------
(* States *)

Current(s) == state[s].linked /\ state[s].current

\* No two jobs write the same state, and a state that must not become the
\* current one is not marked as current when it is linked.
StateJobInv ==
    /\ \A v, w \in Workers : v # w /\ Stating(v) /\ Stating(w) => job[v].state # job[w].state
    /\ \A w \in Workers : Stating(w) =>
          /\ job[w].step = "link" /\ ~job[w].makeCurrent => ~state[job[w].state].current
          /\ job[w].step = "clear" => job[w].makeCurrent

\* Of two current states, one has a job that is about to clear the other.
CurrentInv ==
    "state" \notin torn =>
        \A s, t \in States : s # t /\ Current(s) /\ Current(t) =>
            \E w \in Workers : Stating(w) /\ job[w].step = "clear" /\ job[w].state \in {s, t}

StateInv == StateJobInv /\ CurrentInv

-----------------------------------------------------------------------------
(* The index *)

\* Targets are worked on once by a job, and documents are of indexable copies.
TargetsOf(j) ==
    /\ ToSet(j.left) \subseteq j.targets /\ j.alone \subseteq j.targets
    /\ \A i \in DOMAIN j.documents :
          /\ j.documents[i].target \in j.targets \ ToSet(j.left)
          /\ Indexable(j.documents[i].copy)
    /\ IsInjective(j.left)
    /\ \A i, k \in DOMAIN j.documents :
          j.documents[i].target = j.documents[k].target => i = k
    /\ j.step = "record" => Indexable(j.copy)
    /\ j.step \in {"delete", "mark"} => ~Indexable(j.copy)

TargetsInv == \A w \in Workers : Vectorizing(w) => TargetsOf(job[w])

\* What a job has alone, no other has; what it shares is known to be mixed.
AloneInv ==
    \A w \in Workers : Vectorizing(w) =>
        /\ \A v \in Workers \ {w} : Vectorizing(v) => job[w].alone \cap job[v].targets = {}
        /\ \A n \in job[w].targets \ job[w].alone : index[n] = "mixed"

\* A target that is known to be right has not been written since it was read,
\* and nothing is to be stored for it.
CopyOf(j) ==
    /\ j.step \in {"record", "delete", "mark"} =>
          (index[Head(j.left)] = "clean" => j.copy = node[Head(j.left)])
    /\ \A i \in DOMAIN j.documents : index[j.documents[i].target] # "clean"
    /\ j.step = "entry" /\ Head(j.documents).target \in j.alone =>
          vector[Head(j.documents).target] = Head(j.documents).copy.text

CopyInv == \A w \in Workers : Vectorizing(w) => CopyOf(job[w])

\* The job is between the writes of vector and record of a node.
Between(w, n) ==
    /\ Vectorizing(w) /\ n \in job[w].alone
    /\ \/ job[w].step = "entry" /\ Head(job[w].documents).target = n
       \/ job[w].step = "mark" /\ Head(job[w].left) = n

\* The record of an indexed node describes its vector.
Described(n) ==
    entry[n] # None /\ entry[n].lifecycle = "active" => vector[n] = entry[n].text

PairInv ==
    \A n \in Nodes : index[n] # "mixed" => Described(n) \/ \E w \in Workers : Between(w, n)

IndexInv == TargetsInv /\ AloneInv /\ CopyInv /\ PairInv /\ IndexFollowsGraph

Inv == TypeOK /\ ShapeInv /\ MergeInv /\ StateInv /\ IndexInv

-----------------------------------------------------------------------------
(* Types *)

\* The kinds of jobs are told apart by their kind.
LEMMA JobKinds ==
    ASSUME TypeOK, NEW w \in Workers
    PROVE  /\ Merging(w) => job[w] \in MergeJob
           /\ Stating(w) => job[w] \in StateJob
           /\ Vectorizing(w) => job[w] \in VectorJob
           /\ Merging(w) \/ Stating(w) \/ Vectorizing(w) \/ Idle(w)
           /\ Idle(w) => ~Merging(w) /\ ~Stating(w) /\ ~Vectorizing(w)
<1>1. job[w] \in MergeJob \cup StateJob \cup VectorJob \cup {NoJob}
  BY DEF TypeOK
<1>2. /\ job[w] \in MergeJob => job[w].kind = "merge"
      /\ job[w] \in StateJob => job[w].kind = "state"
      /\ job[w] \in VectorJob => job[w].kind = "vectorize"
      /\ job[w] = NoJob => job[w].kind = "none"
  BY DEF MergeJob, StateJob, VectorJob, NoJob
<1> QED
  BY <1>1, <1>2 DEF Merging, Stating, Vectorizing, Idle

AnyJob == MergeJob \cup StateJob \cup VectorJob \cup {NoJob}

LEMMA NodesAndNone == None \notin Nodes /\ Persons \subseteq Nodes /\ Memories \subseteq Nodes
BY GraphAssumption DEF Nodes

\* A job that replaces that of one worker
LEMMA GoType ==
    ASSUME TypeOK, ShapeInv, NEW w \in Workers, NEW j \in AnyJob, Shaped(j), Go(w, j)
    PROVE  /\ job' \in [Workers -> AnyJob] /\ job'[w] = j
           /\ \A v \in Workers \ {w} : job'[v] = job[v]
           /\ ShapeInv'
BY DEF TypeOK, Go, AnyJob, ShapeInv

LEMMA BeginType ==
    ASSUME TypeOK, ShapeInv, NEW w \in Workers, NEW j \in AnyJob, Shaped(j), Begin(w, j)
    PROVE  /\ job' \in [Workers -> AnyJob] /\ job'[w] = j
           /\ \A v \in Workers \ {w} : job'[v] = job[v]
           /\ ops' \in Nat /\ Idle(w) /\ ShapeInv'
BY DEF TypeOK, Begin, AnyJob, ShapeInv

LEMMA WriteType ==
    ASSUME TypeOK, NEW w \in Workers, NEW n \in Nodes, NEW changed \in NodeT,
           Write(w, n, changed)
    PROVE  /\ node' \in [Nodes -> NodeT] /\ node'[n] = changed
           /\ \A m \in Nodes \ {n} : node'[m] = node[m]
           /\ raced' \subseteq Records
           /\ raced \subseteq raced'
           /\ \A v \in Workers \ {w} : Merging(v) /\ n \in job[v].nodes => job[v].record \in raced'
<1>1. Racing(w, n) \subseteq Records
  <2> SUFFICES ASSUME NEW v \in Workers \ {w}, job[v].kind = "merge"
               PROVE  job[v].record \in Records
    BY DEF Racing
  <2> QED
    BY JobKinds DEF Merging, MergeJob
<1> QED
  BY <1>1 DEF TypeOK, Write, Racing, Merging

\* The steps of a merge through its nodes
LEMMA AdvanceType ==
    ASSUME NEW j \in MergeJob, j.step \in {"read", "link", "archive"}, j.left # <<>>,
           j.merged # <<>>
    PROVE  /\ Advance(j) \in MergeJob /\ Advance(j).left # <<>>
           /\ Advance(j).record = j.record /\ Advance(j).canonical = j.canonical
           /\ Advance(j).merged = j.merged /\ Advance(j).refs = j.refs
           /\ Advance(j).own = j.own /\ Advance(j).nodes = j.nodes
           /\ \/ /\ Advance(j).step = j.step /\ Advance(j).left = Tail(j.left)
                 /\ ToSet(j.left) = {Head(j.left)} \cup ToSet(Tail(j.left))
              \/ /\ Advance(j).step = NextStep(j.step) /\ Advance(j).left = j.merged
                 /\ ToSet(j.left) = {Head(j.left)}
           /\ Head(j.left) \in Persons /\ Head(j.left) \in ToSet(j.left)
<1>1. /\ j.left \in Seq(Persons) /\ Head(j.left) \in Persons
      /\ Head(j.left) \in ToSet(j.left)
      /\ Tail(j.left) \in Seq(Persons)
      /\ ToSet(j.left) = {Head(j.left)} \cup ToSet(Tail(j.left))
  <2>1. j.left \in Seq(Persons)
    BY DEF MergeJob
  <2> QED
    BY <2>1, ToSetOfTail
<1>2. \/ Len(j.left) > 1 /\ Tail(j.left) # <<>>
      \/ ~(Len(j.left) > 1) /\ ToSet(j.left) = {Head(j.left)}
  <2>1. j.left \in Seq(Persons)
    BY DEF MergeJob
  <2> QED
    BY <2>1, ToSetOfTail
<1>3. CASE Len(j.left) > 1 /\ Tail(j.left) # <<>>
  <2>1. Advance(j) = [j EXCEPT !.left = Tail(j.left)]
    BY <1>3 DEF Advance, MergeJob
  <2> QED
    BY <1>1, <1>3, <2>1 DEF MergeJob
<1>4. CASE ~(Len(j.left) > 1) /\ ToSet(j.left) = {Head(j.left)}
  <2>1. Advance(j) = [j EXCEPT !.step = NextStep(j.step), !.left = j.merged]
    BY <1>4 DEF Advance, MergeJob
  <2>2. NextStep(j.step) \in {"link", "absorb", "finish"}
    BY DEF NextStep
  <2> QED
    BY <1>1, <1>4, <2>1, <2>2 DEF MergeJob
<1> QED
  BY <1>2, <1>3, <1>4

-----------------------------------------------------------------------------
(* Types are kept, action by action *)

LEMMA NoJobShape == NoJob \in AnyJob /\ Shaped(NoJob)
BY DEF NoJob, AnyJob, Shaped

LEMMA JobIsAny ==
    ASSUME TypeOK, ShapeInv, NEW w \in Workers
    PROVE  job[w] \in AnyJob /\ Shaped(job[w])
BY DEF TypeOK, ShapeInv, AnyJob

LEMMA TypeInit == Init => TypeOK /\ ShapeInv
<1> SUFFICES ASSUME Init
             PROVE  TypeOK /\ ShapeInv
  OBVIOUS
<1>1. \A n \in Nodes : NewNode(n) \in NodeT
  BY GraphAssumption DEF NewNode, NodeT, Lifecycles
<1>2. NewState(FALSE, None) \in StateT
  BY DEF NewState, StateT
<1>3. ShapeInv
  BY NoJobShape DEF Init, GraphInit, ShapeInv
<1> QED
  BY <1>1, <1>2, <1>3, GraphAssumption DEF Init, GraphInit, TypeOK

LEMMA RaiseType ==
    ASSUME TypeOK, ShapeInv, NEW w \in Workers, Raise(w)
    PROVE  job' \in [Workers -> AnyJob] /\ ShapeInv' /\ job'[w] = NoJob
           /\ torn' \subseteq {"merge", "state", "vectorize"}
           /\ \A v \in Workers \ {w} : job'[v] = job[v]
<1>1. job[w].kind \in {"merge", "state", "vectorize"}
  BY JobKinds DEF Raise, Merging, Stating, Vectorizing
<1> QED
  BY <1>1, GoType, NoJobShape DEF Raise, TypeOK

LEMMA NodeWritesType ==
    ASSUME TypeOK, ShapeInv, NEW w \in Workers, NEW n \in Nodes,
           \/ Upsert(w, n)
           \/ \E l \in Lifecycles : Transition(w, n, l)
           \/ \E t \in Texts : Patch(w, n, t)
    PROVE  /\ node' \in [Nodes -> NodeT] /\ raced' \subseteq Records /\ ops' \in Nat
           /\ UNCHANGED <<mergedInto, record, context, state, job, torn>>
           /\ \E changed \in NodeT :
                 Write(w, n, changed) /\ changed.into = node[n].into
                 /\ changed.refs \in {node[n].refs, {n}}
           /\ Idle(w)
<1>1. node[n] \in NodeT /\ ops \in Nat
  BY DEF TypeOK
<1>2. PICK changed \in NodeT :
          /\ Write(w, n, changed) /\ changed.into = node[n].into
          /\ changed.refs \in {node[n].refs, {n}}
  <2>1. ASSUME Upsert(w, n)
        PROVE  \E c \in NodeT : Write(w, n, c) /\ c.into = node[n].into /\ c.refs \in {node[n].refs, {n}}
    <3> DEFINE c == [node[n] EXCEPT !.lifecycle = "active", !.refs = {n}]
    <3>1. c \in NodeT /\ c.into = node[n].into /\ c.refs = {n}
      BY <1>1 DEF NodeT, Lifecycles
    <3>2. Write(w, n, c)
      BY <2>1 DEF Upsert
    <3> HIDE DEF c
    <3> QED
      BY <3>1, <3>2
  <2>2. ASSUME NEW l \in Lifecycles, Transition(w, n, l)
        PROVE  \E c \in NodeT : Write(w, n, c) /\ c.into = node[n].into /\ c.refs \in {node[n].refs, {n}}
    <3> DEFINE c == [node[n] EXCEPT !.lifecycle = l]
    <3>1. c \in NodeT /\ c.into = node[n].into /\ c.refs = node[n].refs
      BY <1>1 DEF NodeT
    <3>2. Write(w, n, c)
      BY <2>2 DEF Transition
    <3> HIDE DEF c
    <3> QED
      BY <3>1, <3>2
  <2>3. ASSUME NEW t \in Texts, Patch(w, n, t)
        PROVE  \E c \in NodeT : Write(w, n, c) /\ c.into = node[n].into /\ c.refs \in {node[n].refs, {n}}
    <3> DEFINE c == [node[n] EXCEPT !.text = t]
    <3>1. c \in NodeT /\ c.into = node[n].into /\ c.refs = node[n].refs
      BY <1>1 DEF NodeT
    <3>2. Write(w, n, c)
      BY <2>3 DEF Patch
    <3> HIDE DEF c
    <3> QED
      BY <3>1, <3>2
  <2> QED
    BY <2>1, <2>2, <2>3
<1>3. ops' = ops + 1 /\ Idle(w) /\ UNCHANGED <<mergedInto, record, context, state, job, torn>>
  BY DEF Upsert, Transition, Patch
<1> QED
  BY <1>1, <1>2, <1>3, WriteType

LEMMA CreateMergeType ==
    ASSUME TypeOK, NEW r \in Records, NEW n \in Persons, NEW merged \in SUBSET Persons,
           CreateMerge(r, n, merged)
    PROVE  record' \in [Records -> RecordT \cup {None}]
<1>1. NewMerge(n, merged) \in RecordT
  BY DEF NewMerge, RecordT, Statuses
<1> QED
  BY <1>1 DEF CreateMerge, TypeOK

LEMMA StatusType ==
    ASSUME TypeOK, NEW r \in Records, record[r] # None, NEW status \in Statuses,
           record' = [record EXCEPT ![r].status = status]
    PROVE  /\ record' \in [Records -> RecordT \cup {None}]
           /\ \A q \in Records :
                 /\ q # r => record'[q] = record[q]
                 /\ record[q] # None =>
                       /\ record'[q] # None /\ record'[q].canonical = record[q].canonical
                       /\ record'[q].merged = record[q].merged
           /\ record'[r].status = status
<1>1. record[r] \in RecordT
  BY DEF TypeOK
<1>2. [record[r] EXCEPT !.status = status] \in RecordT
  BY <1>1 DEF RecordT
<1>3. None \notin RecordT
  BY GraphAssumption DEF RecordT
<1>4. record'[r] = [record[r] EXCEPT !.status = status]
      /\ \A q \in Records \ {r} : record'[q] = record[q]
  BY DEF TypeOK
<1>5. record'[r].canonical = record[r].canonical /\ record'[r].merged = record[r].merged
      /\ record'[r].status = status
  BY <1>1, <1>4 DEF RecordT
<1>6. record' \in [Records -> RecordT \cup {None}]
  BY <1>2 DEF TypeOK
<1> QED
  BY <1>2, <1>3, <1>4, <1>5, <1>6

LEMMA ApplyMergeType ==
    ASSUME TypeOK, ShapeInv, RecordsHaveNodes, NEW w \in Workers, NEW r \in Records,
           ApplyMerge(w, r)
    PROVE  /\ job' \in [Workers -> AnyJob] /\ ShapeInv' /\ ops' \in Nat /\ Idle(w)
           /\ \A v \in Workers \ {w} : job'[v] = job[v]
           /\ job'[w] \in MergeJob
           /\ job'[w].step = "read" /\ job'[w].record = r
           /\ job'[w].canonical = record[r].canonical
           /\ ToSet(job'[w].merged) = record[r].merged
           /\ job'[w].nodes = {}
           /\ ToSet(job'[w].left) = {record[r].canonical} \cup record[r].merged
           /\ record[r] # None
<1>1. record[r] \in RecordT /\ record[r] # None /\ record[r].merged # {}
  BY DEF ApplyMerge, TypeOK, RecordsHaveNodes
<1> DEFINE c == record[r].canonical
           m == SetToSeq(record[r].merged)
           j == [kind |-> "merge", step |-> "read", record |-> r,
                 canonical |-> c, merged |-> m, refs |-> {}, own |-> {},
                 nodes |-> {}, left |-> <<c>> \o m]
<1>2. IsFiniteSet(record[r].merged) /\ c \in Persons /\ record[r].merged \subseteq Persons
  BY <1>1, GraphAssumption, FS_Subset DEF RecordT
<1>3. m \in Seq(record[r].merged) /\ ToSet(m) = record[r].merged
  BY <1>2, SetToSeqLists
<1>4. m \in Seq(Persons) /\ m # <<>>
  BY <1>1, <1>2, <1>3 DEF ToSet
<1>5. <<c>> \o m \in Seq(Persons) /\ <<c>> \o m # <<>> /\ ToSet(<<c>> \o m) = {c} \cup ToSet(m)
  BY <1>2, <1>4, ToSetOfCons
<1> HIDE DEF c, m
<1>6. j \in MergeJob /\ Shaped(j)
  BY <1>2, <1>4, <1>5 DEF MergeJob, Shaped
<1>7. Begin(w, j)
  BY DEF ApplyMerge, c, m
<1>8. j.step = "read" /\ j.record = r /\ j.canonical = c /\ j.merged = m /\ j.nodes = {}
      /\ j.left = <<c>> \o m
  OBVIOUS
<1> HIDE DEF j
<1>9. j \in AnyJob
  BY <1>6 DEF AnyJob
<1>10. /\ job' \in [Workers -> AnyJob] /\ job'[w] = j /\ ShapeInv' /\ ops' \in Nat /\ Idle(w)
       /\ \A v \in Workers \ {w} : job'[v] = job[v]
  BY <1>6, <1>7, <1>9, BeginType
<1> QED
  BY <1>1, <1>3, <1>5, <1>6, <1>8, <1>10 DEF c

-----------------------------------------------------------------------------
(* The steps of a merge *)

OthersKeep(w) == \A v \in Workers \ {w} : job'[v] = job[v]

JobType == job' \in [Workers -> AnyJob] /\ ShapeInv'

LEMMA ReadNodeFacts ==
    ASSUME TypeOK, ShapeInv, NEW w \in Workers, ReadNode(w)
    PROVE  /\ JobType /\ OthersKeep(w) /\ UNCHANGED <<graphVars, ops, torn>>
           /\ Merging(w) /\ job[w].step = "read" /\ job'[w] \in MergeJob
           /\ job'[w].record = job[w].record /\ job'[w].canonical = job[w].canonical
           /\ job'[w].merged = job[w].merged
           /\ LET n == Head(job[w].left)
              IN  /\ n \in Persons
                  /\ job'[w].refs = job[w].refs \cup node[n].refs
                  /\ job'[w].nodes = job[w].nodes \cup {n}
                  /\ job'[w].own = (IF n = job[w].canonical THEN node[n].refs ELSE job[w].own)
                  /\ \/ /\ job'[w].step = "read"
                        /\ ToSet(job[w].left) = {n} \cup ToSet(job'[w].left)
                     \/ /\ job'[w].step = "link" /\ job'[w].left = job[w].merged
                        /\ ToSet(job[w].left) = {n}
<1> DEFINE j == job[w]
           n == Head(j.left)
           k == [j EXCEPT !.refs = @ \cup node[n].refs, !.nodes = @ \cup {n},
                          !.own = IF n = j.canonical THEN node[n].refs ELSE @]
<1>1. j \in MergeJob /\ j.step = "read" /\ j.left # <<>> /\ j.merged # <<>> /\ Merging(w)
  BY JobKinds, JobIsAny DEF ReadNode, InMerge, Merging, Shaped
<1>2. n \in Persons /\ n \in Nodes
  BY <1>1, ToSetOfTail DEF MergeJob, Nodes
<1>3. node[n] \in NodeT /\ node[n].refs \subseteq Nodes
  BY <1>2 DEF TypeOK, NodeT
<1> HIDE DEF j, n
<1>4. /\ k \in MergeJob /\ k.step = "read" /\ k.left = j.left /\ k.merged = j.merged
      /\ k.record = j.record /\ k.canonical = j.canonical
      /\ k.refs = j.refs \cup node[n].refs /\ k.nodes = j.nodes \cup {n}
      /\ k.own = (IF n = j.canonical THEN node[n].refs ELSE j.own)
  BY <1>1, <1>2, <1>3 DEF MergeJob
<1>5. Go(w, Advance(k)) /\ UNCHANGED <<graphVars, ops, torn>>
  BY DEF ReadNode, j, n
<1> HIDE DEF k
<1>6. /\ Advance(k) \in MergeJob /\ Advance(k).left # <<>>
      /\ Advance(k).record = k.record /\ Advance(k).canonical = k.canonical
      /\ Advance(k).merged = k.merged /\ Advance(k).refs = k.refs
      /\ Advance(k).own = k.own /\ Advance(k).nodes = k.nodes
      /\ \/ /\ Advance(k).step = k.step /\ Advance(k).left = Tail(k.left)
            /\ ToSet(k.left) = {Head(k.left)} \cup ToSet(Tail(k.left))
         \/ /\ Advance(k).step = NextStep(k.step) /\ Advance(k).left = k.merged
            /\ ToSet(k.left) = {Head(k.left)}
  BY <1>1, <1>4, AdvanceType
<1>7. NextStep("read") = "link"
  BY DEF NextStep
<1>8. Shaped(Advance(k)) /\ Advance(k) \in AnyJob
  BY <1>1, <1>4, <1>6 DEF Shaped, AnyJob, MergeJob
<1>9. job' \in [Workers -> AnyJob] /\ job'[w] = Advance(k) /\ OthersKeep(w) /\ ShapeInv'
  BY <1>5, <1>8, GoType DEF OthersKeep
<1>10. \/ /\ job'[w].step = "read"
          /\ ToSet(j.left) = {n} \cup ToSet(job'[w].left)
       \/ /\ job'[w].step = "link" /\ job'[w].left = j.merged
          /\ ToSet(j.left) = {n}
  BY <1>4, <1>6, <1>7, <1>9 DEF n
<1> QED
  BY <1>1, <1>2, <1>4, <1>5, <1>6, <1>9, <1>10 DEF JobType, j, n

LEMMA LinkMergedFacts ==
    ASSUME TypeOK, ShapeInv, NEW w \in Workers, LinkMerged(w)
    PROVE  /\ JobType /\ OthersKeep(w)
           /\ UNCHANGED <<node, record, context, state, raced, ops, torn>>
           /\ Merging(w) /\ job[w].step = "link" /\ job'[w] \in MergeJob
           /\ job'[w].record = job[w].record /\ job'[w].canonical = job[w].canonical
           /\ job'[w].merged = job[w].merged /\ job'[w].refs = job[w].refs
           /\ job'[w].nodes = job[w].nodes /\ job'[w].own = job[w].own
           /\ mergedInto' \in [Persons \X Persons -> Nat]
           /\ \A n, c \in Persons : Linked(n, c) => mergedInto'[n, c] > 0
           /\ LET n == Head(job[w].left)
              IN  /\ n \in Persons /\ mergedInto'[n, job[w].canonical] > 0
                  /\ \/ /\ job'[w].step = "link"
                        /\ ToSet(job[w].left) = {n} \cup ToSet(job'[w].left)
                     \/ /\ job'[w].step = "absorb" /\ job'[w].left = job[w].merged
                        /\ ToSet(job[w].left) = {n}
<1> DEFINE j == job[w]
           n == Head(j.left)
<1>1. j \in MergeJob /\ j.step = "link" /\ j.left # <<>> /\ j.merged # <<>> /\ Merging(w)
  BY JobKinds, JobIsAny DEF LinkMerged, InMerge, Merging, Shaped
<1>2. n \in Persons /\ j.canonical \in Persons
  BY <1>1, ToSetOfTail DEF MergeJob
<1>3. Go(w, Advance(j)) /\ mergedInto' = OneMoreEdge(n, j.canonical)
      /\ UNCHANGED <<node, record, context, state, raced, ops, torn>>
  BY DEF LinkMerged
<1> HIDE DEF j, n
<1>4. /\ Advance(j) \in MergeJob /\ Advance(j).left # <<>>
      /\ Advance(j).record = j.record /\ Advance(j).canonical = j.canonical
      /\ Advance(j).merged = j.merged /\ Advance(j).refs = j.refs
      /\ Advance(j).own = j.own /\ Advance(j).nodes = j.nodes
      /\ \/ /\ Advance(j).step = j.step /\ Advance(j).left = Tail(j.left)
            /\ ToSet(j.left) = {Head(j.left)} \cup ToSet(Tail(j.left))
         \/ /\ Advance(j).step = NextStep(j.step) /\ Advance(j).left = j.merged
            /\ ToSet(j.left) = {Head(j.left)}
  BY <1>1, AdvanceType
<1>5. NextStep("link") = "absorb"
  BY DEF NextStep
<1>6. Shaped(Advance(j)) /\ Advance(j) \in AnyJob
  BY <1>1, <1>4 DEF Shaped, AnyJob, MergeJob
<1>7. job' \in [Workers -> AnyJob] /\ job'[w] = Advance(j) /\ OthersKeep(w) /\ ShapeInv'
  BY <1>3, <1>6, GoType DEF OthersKeep
<1>8. \/ /\ job'[w].step = "link"
         /\ ToSet(j.left) = {n} \cup ToSet(job'[w].left)
      \/ /\ job'[w].step = "absorb" /\ job'[w].left = j.merged
         /\ ToSet(j.left) = {n}
  BY <1>1, <1>4, <1>5, <1>7 DEF n
<1>9. /\ mergedInto' \in [Persons \X Persons -> Nat]
      /\ \A m, c \in Persons : mergedInto[m, c] > 0 => mergedInto'[m, c] > 0
      /\ mergedInto'[n, j.canonical] > 0
  <2>1. mergedInto \in [Persons \X Persons -> Nat]
    BY DEF TypeOK
  <2>2. mergedInto[<<n, j.canonical>>] \in Nat
    BY <1>2, <2>1
  <2>3. mergedInto' = [mergedInto EXCEPT ![<<n, j.canonical>>] =
                          IF mergedInto[<<n, j.canonical>>] < 2
                          THEN mergedInto[<<n, j.canonical>>] + 1
                          ELSE mergedInto[<<n, j.canonical>>]]
    BY <1>3 DEF OneMoreEdge
  <2> DEFINE more == IF mergedInto[<<n, j.canonical>>] < 2
                     THEN mergedInto[<<n, j.canonical>>] + 1
                     ELSE mergedInto[<<n, j.canonical>>]
  <2>4. more \in Nat /\ more > 0
    BY <2>2
  <2> HIDE DEF more
  <2>5. mergedInto' = [mergedInto EXCEPT ![<<n, j.canonical>>] = more]
    BY <2>3 DEF more
  <2> QED
    BY <1>2, <2>1, <2>4, <2>5
<1> QED
  BY <1>1, <1>2, <1>3, <1>4, <1>7, <1>8, <1>9 DEF JobType, Linked, j, n

LEMMA AbsorbFacts ==
    ASSUME TypeOK, ShapeInv, NEW w \in Workers, Absorb(w)
    PROVE  /\ JobType /\ OthersKeep(w)
           /\ UNCHANGED <<mergedInto, record, context, state, ops, torn>>
           /\ Merging(w) /\ job[w].step = "absorb" /\ job'[w] \in MergeJob
           /\ job'[w].record = job[w].record /\ job'[w].canonical = job[w].canonical
           /\ job'[w].merged = job[w].merged /\ job'[w].nodes = job[w].nodes
           /\ job'[w].step = "archive" /\ job'[w].left = job[w].left
           /\ \/ /\ job[w].own \cup job[w].refs = job[w].own
                 /\ UNCHANGED <<node, raced>>
              \/ \E changed \in NodeT :
                    /\ Write(w, job[w].canonical, changed)
                    /\ changed.refs = job[w].own \cup job[w].refs
                    /\ changed.into = node[job[w].canonical].into
<1> DEFINE j == job[w]
<1>1. j \in MergeJob /\ j.step = "absorb" /\ j.merged # <<>> /\ Merging(w)
  BY JobKinds, JobIsAny DEF Absorb, InMerge, Merging, Shaped
<1>2. j.canonical \in Nodes /\ j.refs \subseteq Nodes /\ j.own \subseteq Nodes
  BY <1>1 DEF MergeJob, Nodes
<1>3. /\ Go(w, [j EXCEPT !.step = NextStep(@)])
      /\ UNCHANGED <<mergedInto, record, context, state, ops, torn>>
      /\ IF j.own \cup j.refs = j.own THEN UNCHANGED <<node, raced>>
         ELSE Write(w, j.canonical, [node[j.canonical] EXCEPT !.refs = j.own \cup j.refs])
  BY DEF Absorb, PatchedRefs
<1> HIDE DEF j
<1> DEFINE k == [j EXCEPT !.step = NextStep(@)]
<1>4. NextStep("absorb") = "archive"
  BY DEF NextStep
<1>5. /\ k \in MergeJob /\ k.step = "archive" /\ k.record = j.record
      /\ k.canonical = j.canonical /\ k.merged = j.merged /\ k.nodes = j.nodes /\ k.left = j.left
  BY <1>1, <1>4 DEF MergeJob
<1>6. j.left # <<>>
  BY <1>1, JobIsAny DEF Shaped, j, MergeJob
<1> HIDE DEF k
<1>7. Shaped(k) /\ k \in AnyJob
  BY <1>1, <1>5, <1>6 DEF Shaped, AnyJob, MergeJob
<1>8. job' \in [Workers -> AnyJob] /\ job'[w] = k /\ OthersKeep(w) /\ ShapeInv'
  <2>1. Go(w, k)
    BY <1>3 DEF k
  <2> QED
    BY <1>7, <2>1, GoType DEF OthersKeep
<1>9. \/ /\ j.own \cup j.refs = j.own
         /\ UNCHANGED <<node, raced>>
      \/ \E changed \in NodeT :
            /\ Write(w, j.canonical, changed)
            /\ changed.refs = j.own \cup j.refs
            /\ changed.into = node[j.canonical].into
  <2>1. CASE j.own \cup j.refs = j.own
    BY <1>3, <2>1
  <2>2. CASE j.own \cup j.refs # j.own
    <3> DEFINE changed == [node[j.canonical] EXCEPT !.refs = j.own \cup j.refs]
    <3>1. node[j.canonical] \in NodeT
      BY <1>2 DEF TypeOK
    <3>2. changed \in NodeT /\ changed.refs = j.own \cup j.refs
          /\ changed.into = node[j.canonical].into
      BY <1>2, <3>1 DEF NodeT
    <3>3. Write(w, j.canonical, changed)
      BY <1>3, <2>2
    <3> HIDE DEF changed
    <3> QED
      BY <3>2, <3>3
  <2> QED
    BY <2>1, <2>2
<1> QED
  BY <1>1, <1>3, <1>5, <1>8, <1>9 DEF JobType, j

LEMMA ArchiveMergedFacts ==
    ASSUME TypeOK, ShapeInv, NEW w \in Workers, ArchiveMerged(w)
    PROVE  /\ JobType /\ OthersKeep(w)
           /\ UNCHANGED <<mergedInto, record, context, state, ops, torn>>
           /\ Merging(w) /\ job[w].step = "archive" /\ job'[w] \in MergeJob
           /\ job'[w].record = job[w].record /\ job'[w].canonical = job[w].canonical
           /\ job'[w].merged = job[w].merged /\ job'[w].nodes = job[w].nodes
           /\ LET n == Head(job[w].left)
              IN  /\ n \in Persons /\ n \in ToSet(job[w].left)
                  /\ \E changed \in NodeT :
                        /\ Write(w, n, changed)
                        /\ changed.refs = node[n].refs
                        /\ changed.into = job[w].canonical
                  /\ \/ /\ job'[w].step = "archive"
                        /\ ToSet(job[w].left) = {n} \cup ToSet(job'[w].left)
                     \/ job'[w].step = "finish"
<1> DEFINE j == job[w]
           n == Head(j.left)
<1>1. j \in MergeJob /\ j.step = "archive" /\ j.left # <<>> /\ j.merged # <<>> /\ Merging(w)
  BY JobKinds, JobIsAny DEF ArchiveMerged, InMerge, Merging, Shaped
<1>2. n \in Persons /\ n \in Nodes /\ n \in ToSet(j.left) /\ j.canonical \in Persons
  BY <1>1, ToSetOfTail DEF MergeJob, Nodes
<1>3. /\ Go(w, Advance(j))
      /\ Write(w, n, [node[n] EXCEPT !.lifecycle = "archived", !.into = j.canonical])
      /\ UNCHANGED <<mergedInto, record, context, state, ops, torn>>
  BY DEF ArchiveMerged
<1> HIDE DEF j, n
<1>4. /\ Advance(j) \in MergeJob /\ Advance(j).left # <<>>
      /\ Advance(j).record = j.record /\ Advance(j).canonical = j.canonical
      /\ Advance(j).merged = j.merged /\ Advance(j).refs = j.refs
      /\ Advance(j).own = j.own /\ Advance(j).nodes = j.nodes
      /\ \/ /\ Advance(j).step = j.step /\ Advance(j).left = Tail(j.left)
            /\ ToSet(j.left) = {Head(j.left)} \cup ToSet(Tail(j.left))
         \/ /\ Advance(j).step = NextStep(j.step) /\ Advance(j).left = j.merged
            /\ ToSet(j.left) = {Head(j.left)}
  BY <1>1, AdvanceType
<1>5. NextStep("archive") = "finish"
  BY DEF NextStep
<1>6. Shaped(Advance(j)) /\ Advance(j) \in AnyJob
  BY <1>1, <1>4 DEF Shaped, AnyJob, MergeJob
<1>7. job' \in [Workers -> AnyJob] /\ job'[w] = Advance(j) /\ OthersKeep(w) /\ ShapeInv'
  BY <1>3, <1>6, GoType DEF OthersKeep
<1>8. \/ /\ job'[w].step = "archive"
         /\ ToSet(j.left) = {n} \cup ToSet(job'[w].left)
      \/ job'[w].step = "finish"
  BY <1>1, <1>4, <1>5, <1>7 DEF n
<1>9. \E changed \in NodeT :
         /\ Write(w, n, changed) /\ changed.refs = node[n].refs /\ changed.into = j.canonical
  <2> DEFINE changed == [node[n] EXCEPT !.lifecycle = "archived", !.into = j.canonical]
  <2>1. node[n] \in NodeT
    BY <1>2 DEF TypeOK
  <2>2. changed \in NodeT /\ changed.refs = node[n].refs /\ changed.into = j.canonical
    BY <1>2, <2>1 DEF NodeT, Lifecycles
  <2>3. Write(w, n, changed)
    BY <1>3
  <2> HIDE DEF changed
  <2> QED
    BY <2>2, <2>3
<1> QED
  BY <1>1, <1>2, <1>3, <1>4, <1>7, <1>8, <1>9 DEF JobType, j, n

LEMMA FinishMergeFacts ==
    ASSUME TypeOK, ShapeInv, RecordInv, NEW w \in Workers, FinishMerge(w)
    PROVE  /\ JobType /\ OthersKeep(w) /\ job'[w] = NoJob
           /\ UNCHANGED <<node, mergedInto, context, state, raced, ops, torn>>
           /\ Merging(w) /\ job[w].step = "finish" /\ job[w].record \in Records
           /\ record' \in [Records -> RecordT \cup {None}]
           /\ record[job[w].record] # None
           /\ \A q \in Records :
                 /\ q # job[w].record => record'[q] = record[q]
                 /\ record[q] # None =>
                       /\ record'[q] # None /\ record'[q].canonical = record[q].canonical
                       /\ record'[q].merged = record[q].merged
<1>1. job[w] \in MergeJob /\ Merging(w) /\ job[w].step = "finish"
  BY JobKinds DEF FinishMerge, InMerge, Merging
<1>2. job[w].record \in Records /\ record[job[w].record] # None
  BY <1>1 DEF RecordInv, MergeJob
<1>3. record' = [record EXCEPT ![job[w].record].status = "applied"] /\ Go(w, NoJob)
      /\ UNCHANGED <<node, mergedInto, context, state, raced, ops, torn>>
  BY DEF FinishMerge
<1>4. "applied" \in Statuses
  BY DEF Statuses
<1>5. JobType /\ job'[w] = NoJob /\ OthersKeep(w)
  BY <1>3, GoType, NoJobShape DEF JobType, OthersKeep
<1> QED
  BY <1>1, <1>2, <1>3, <1>4, <1>5, StatusType

-----------------------------------------------------------------------------
(* The invariant of merges is kept *)

\* Jobs of a kind go on as they are or end.
Kept(kind) == \A v \in Workers : job'[v].kind = kind => job'[v] = job[v]

\* Steps that write no node and no edge.
LEMMA MergeFrame ==
    ASSUME TypeOK, MergeInv, Kept("merge"), UNCHANGED <<mergedInto, raced, node>>,
           \A q \in Records : record[q] # None =>
               /\ record'[q] # None /\ record'[q].canonical = record[q].canonical
               /\ record'[q].merged = record[q].merged,
           RecordsHaveNodes'
    PROVE  MergeInv'
<1>1. \A v \in Workers : Merging(v)' => Merging(v) /\ job'[v] = job[v] /\ job[v].record \in Records
  BY JobKinds DEF Kept, Merging, MergeJob
<1>2. RecordInv'
  BY <1>1 DEF MergeInv, RecordInv
<1>3. LinkInv'
  BY <1>1 DEF MergeInv, LinkInv, LinksOf, Linked
<1>4. RefsInv'
  BY <1>1 DEF MergeInv, RefsInv, RefsOf
<1>5. MergedAreFollowable'
  BY DEF MergeInv, MergedAreFollowable
<1> QED
  BY <1>2, <1>3, <1>4, <1>5 DEF MergeInv

LEMMA MergeInvFrame ==
    ASSUME TypeOK, MergeInv, Kept("merge"), UNCHANGED <<mergedInto, raced, node, record>>
    PROVE  MergeInv'
<1>1. RecordsHaveNodes'
  BY DEF MergeInv, RecordsHaveNodes
<1> QED
  BY <1>1, MergeFrame

\* What a merge in progress relies on, when another worker writes a node.
LEMMA OthersRefs ==
    ASSUME TypeOK, ShapeInv, MergeInv, NEW w \in Workers, NEW n \in Nodes, NEW changed \in NodeT,
           Write(w, n, changed), NEW v \in Workers \ {w}, Merging(v)
    PROVE  RefsOf(job[v])'  \/ job'[v] # job[v]
<1> SUFFICES ASSUME job'[v] = job[v]
             PROVE  RefsOf(job[v])'
  OBVIOUS
<1> DEFINE j == job[v]
<1>1. j \in MergeJob /\ RefsOf(j)
  BY JobKinds DEF MergeInv, RefsInv
<1>2. /\ \A m \in Nodes \ {n} : node'[m] = node[m]
      /\ raced \subseteq raced'
      /\ n \in j.nodes => j.record \in raced'
  BY WriteType
<1>3. j.nodes \subseteq Nodes /\ j.canonical \in Nodes
  BY <1>1 DEF MergeJob, Nodes
<1> HIDE DEF j
<1>4. ASSUME j.record \notin raced'
      PROVE  \A m \in j.nodes : node'[m] = node[m]
  BY <1>2, <1>3, <1>4
<1>5. j.step # "read" => j.canonical \in j.nodes
  BY <1>1 DEF RefsOf, NodesOf
<1>6. j' = j
  BY DEF j
<1>7. RefsOf(j)'
  BY <1>1, <1>2, <1>4, <1>5, <1>6 DEF RefsOf, NodesOf
<1> QED
  BY <1>7 DEF j

\* A node is written by a request that merges nothing.
LEMMA NodeWriteMerge ==
    ASSUME TypeOK, ShapeInv, MergeInv, NEW w \in Workers, NEW n \in Nodes, NEW changed \in NodeT,
           Write(w, n, changed), Idle(w), changed.into = node[n].into,
           UNCHANGED <<mergedInto, record, job>>
    PROVE  MergeInv'
<1>1. /\ \A m \in Nodes \ {n} : node'[m] = node[m]
      /\ node'[n].into = node[n].into
  BY WriteType
<1>2. MergedAreFollowable'
  BY <1>1, NodesAndNone DEF MergeInv, MergedAreFollowable
<1>3. RefsInv'
  <2> SUFFICES ASSUME NEW v \in Workers, Merging(v)'
               PROVE  RefsOf(job[v])'
    BY DEF RefsInv
  <2>1. Merging(v) /\ v # w
    BY JobKinds DEF Merging
  <2> QED
    BY <2>1, OthersRefs
<1>4. RecordInv' /\ RecordsHaveNodes' /\ LinkInv'
  BY DEF MergeInv, RecordInv, RecordsHaveNodes, LinkInv, LinksOf, Linked, Merging
<1> QED
  BY <1>2, <1>3, <1>4 DEF MergeInv

\* One step of a merge, given what it relies on afterwards.
LEMMA OneMerge ==
    ASSUME TypeOK, ShapeInv, MergeInv, NEW w \in Workers, OthersKeep(w), UNCHANGED record,
           Merging(w), job'[w] \in MergeJob,
           job'[w].record = job[w].record, job'[w].canonical = job[w].canonical,
           job'[w].merged = job[w].merged,
           \A n, c \in Persons : Linked(n, c) => mergedInto'[n, c] > 0,
           MergedAreFollowable',
           LinksOf(job[w])', RefsOf(job[w])',
           \A v \in Workers \ {w} : Merging(v) => RefsOf(job[v])'
    PROVE  MergeInv'
<1>1. \A v \in Workers \ {w} : Merging(v)' => Merging(v) /\ job'[v] = job[v]
  BY DEF OthersKeep, Merging
<1>2. RecordInv'
  <2>1. \A v \in Workers : Merging(v)' =>
            /\ Merging(v) /\ job'[v].record = job[v].record
            /\ job'[v].canonical = job[v].canonical /\ job'[v].merged = job[v].merged
    BY <1>1
  <2>2. \A v \in Workers : Merging(v) =>
            /\ record[job[v].record] # None
            /\ record[job[v].record].canonical = job[v].canonical
            /\ record[job[v].record].merged = ToSet(job[v].merged)
    BY DEF MergeInv, RecordInv
  <2> QED
    BY <2>1, <2>2 DEF RecordInv
<1>3. RecordsHaveNodes'
  BY DEF MergeInv, RecordsHaveNodes
<1>4. LinkInv'
  <2> SUFFICES ASSUME NEW v \in Workers \ {w}, Merging(v)'
               PROVE  LinksOf(job[v])'
    BY DEF LinkInv
  <2>1. Merging(v) /\ job'[v] = job[v] /\ job[v] \in MergeJob
    BY <1>1, JobKinds
  <2>2. LinksOf(job[v])
    BY <2>1 DEF MergeInv, LinkInv
  <2>3. job[v].canonical \in Persons /\ job[v].merged \in Seq(Persons)
    BY <2>1 DEF MergeJob
  <2>4. ToSet(job[v].merged) \subseteq Persons
    BY <2>3, ElementsOfSeq
  <2> QED
    BY <2>1, <2>2, <2>3, <2>4 DEF LinksOf, Linked
<1>5. RefsInv'
  BY <1>1 DEF RefsInv
<1> QED
  BY <1>2, <1>3, <1>4, <1>5 DEF MergeInv

LEMMA ReadNodeMerge ==
    ASSUME TypeOK, ShapeInv, MergeInv, NEW w \in Workers, ReadNode(w)
    PROVE  MergeInv'
<1> DEFINE j == job[w]
           n == Head(j.left)
<1>1. /\ OthersKeep(w) /\ UNCHANGED <<mergedInto, record, raced, node>>
      /\ Merging(w) /\ j.step = "read" /\ job'[w] \in MergeJob
      /\ job'[w].record = j.record /\ job'[w].canonical = j.canonical /\ job'[w].merged = j.merged
      /\ n \in Persons
      /\ job'[w].refs = j.refs \cup node[n].refs
      /\ job'[w].nodes = j.nodes \cup {n}
      /\ job'[w].own = (IF n = j.canonical THEN node[n].refs ELSE j.own)
      /\ \/ /\ job'[w].step = "read"
            /\ ToSet(j.left) = {n} \cup ToSet(job'[w].left)
         \/ /\ job'[w].step = "link" /\ job'[w].left = j.merged
            /\ ToSet(j.left) = {n}
  BY ReadNodeFacts DEF graphVars
<1>2. LinksOf(job[w])'
  BY <1>1 DEF LinksOf
<1>3. RefsOf(j) /\ j \in MergeJob
  BY <1>1, JobKinds DEF MergeInv, RefsInv
<1>4. RefsOf(job[w])'
  <2>1. NodesOf(j) \subseteq j.nodes \cup ToSet(j.left)
    BY <1>1, <1>3 DEF RefsOf
  <2>2. j.record \notin raced =>
            /\ \A m \in j.nodes : node[m].refs \subseteq j.refs
            /\ j.canonical \in j.nodes => j.own = node[j.canonical].refs
    BY <1>1, <1>3 DEF RefsOf
  <2>3. j.record \notin raced =>
            /\ \A m \in j.nodes \cup {n} : node[m].refs \subseteq job'[w].refs
            /\ j.canonical \in j.nodes \cup {n} => job'[w].own = node[j.canonical].refs
    BY <1>1, <2>2
  <2> HIDE DEF j, n
  <2>4. NodesOf(job[w])' = NodesOf(j)
    BY <1>1 DEF NodesOf
  <2> QED
    BY <1>1, <2>1, <2>3, <2>4 DEF RefsOf
<1>5. MergedAreFollowable'
  BY <1>1 DEF MergeInv, MergedAreFollowable
<1>6. ASSUME NEW v \in Workers \ {w}, Merging(v)
      PROVE  RefsOf(job[v])'
  BY <1>1, <1>6 DEF MergeInv, RefsInv, RefsOf, NodesOf, OthersKeep
<1>7. \A m, c \in Persons : Linked(m, c) => mergedInto'[m, c] > 0
  BY <1>1 DEF Linked
<1> QED
  BY <1>1, <1>2, <1>4, <1>5, <1>6, <1>7, OneMerge

LEMMA LinkMergedMerge ==
    ASSUME TypeOK, ShapeInv, MergeInv, NEW w \in Workers, LinkMerged(w)
    PROVE  MergeInv'
<1> DEFINE j == job[w]
           n == Head(j.left)
<1>1. /\ OthersKeep(w) /\ UNCHANGED <<record, raced, node>>
      /\ Merging(w) /\ j.step = "link" /\ job'[w] \in MergeJob
      /\ job'[w].record = j.record /\ job'[w].canonical = j.canonical /\ job'[w].merged = j.merged
      /\ job'[w].refs = j.refs /\ job'[w].nodes = j.nodes /\ job'[w].own = j.own
      /\ \A m, c \in Persons : Linked(m, c) => mergedInto'[m, c] > 0
      /\ n \in Persons /\ mergedInto'[n, j.canonical] > 0
      /\ \/ /\ job'[w].step = "link"
            /\ ToSet(j.left) = {n} \cup ToSet(job'[w].left)
         \/ /\ job'[w].step = "absorb" /\ job'[w].left = j.merged
            /\ ToSet(j.left) = {n}
  BY LinkMergedFacts
<1>2. RefsOf(j) /\ LinksOf(j) /\ j \in MergeJob
  BY <1>1, JobKinds DEF MergeInv, RefsInv, LinkInv
<1>3. j.canonical \in Persons /\ ToSet(j.merged) \subseteq Persons
  BY <1>2 DEF MergeJob, ToSet
<1>4. LinksOf(job[w])'
  <2>1. \A m \in ToSet(j.merged) : m \in ToSet(j.left) \/ Linked(m, j.canonical)
    BY <1>1, <1>2 DEF LinksOf
  <2>2. \A m \in ToSet(j.merged) :
            m \in ToSet(j.left) \ {n} \/ mergedInto'[m, j.canonical] > 0
    BY <1>1, <1>3, <2>1
  <2>3. ToSet(j.left) \subseteq ToSet(j.merged)
    BY <1>1, <1>2 DEF LinksOf
  <2> HIDE DEF j, n
  <2> QED
    BY <1>1, <2>2, <2>3 DEF LinksOf, Linked
<1>5. RefsOf(job[w])'
  <2> HIDE DEF j, n
  <2>1. NodesOf(job[w])' = NodesOf(j)
    BY <1>1 DEF NodesOf
  <2> QED
    BY <1>1, <1>2, <2>1 DEF RefsOf
<1>6. MergedAreFollowable'
  <2>1. \A m \in Persons : node[m].into \in Persons \cup {None}
    BY NodesAndNone DEF TypeOK, NodeT
  <2> QED
    BY <1>1, <2>1 DEF MergeInv, MergedAreFollowable, Linked
<1>7. ASSUME NEW v \in Workers \ {w}, Merging(v)
      PROVE  RefsOf(job[v])'
  BY <1>1, <1>7 DEF MergeInv, RefsInv, RefsOf, NodesOf, OthersKeep
<1> QED
  BY <1>1, <1>4, <1>5, <1>6, <1>7, OneMerge

\* The canonical node gets what it had and what the merge has copied.
LEMMA AbsorbMerge ==
    ASSUME TypeOK, ShapeInv, MergeInv, NEW w \in Workers, Absorb(w)
    PROVE  MergeInv'
<1> DEFINE j == job[w]
<1>1. /\ OthersKeep(w) /\ UNCHANGED <<mergedInto, record>>
      /\ Merging(w) /\ j.step = "absorb" /\ job'[w] \in MergeJob
      /\ job'[w].record = j.record /\ job'[w].canonical = j.canonical
      /\ job'[w].merged = j.merged /\ job'[w].nodes = j.nodes
      /\ job'[w].step = "archive" /\ job'[w].left = j.left
      /\ \/ /\ j.own \cup j.refs = j.own
            /\ UNCHANGED <<node, raced>>
         \/ \E changed \in NodeT :
               /\ Write(w, j.canonical, changed)
               /\ changed.refs = j.own \cup j.refs
               /\ changed.into = node[j.canonical].into
  BY AbsorbFacts
<1>2. RefsOf(j) /\ LinksOf(j) /\ j \in MergeJob
  BY <1>1, JobKinds DEF MergeInv, RefsInv, LinkInv
<1>3. j.canonical \in Persons /\ j.canonical \in Nodes /\ j.nodes \subseteq Nodes
  BY <1>2 DEF MergeJob, Nodes
<1> HIDE DEF j
<1>4. /\ raced \subseteq raced'
      /\ \A m \in Nodes \ {j.canonical} : node'[m] = node[m]
      /\ node'[j.canonical].into = node[j.canonical].into
      /\ j.own = node[j.canonical].refs => node'[j.canonical].refs = j.own \cup j.refs
  <2>1. CASE j.own \cup j.refs = j.own /\ UNCHANGED <<node, raced>>
    BY <2>1
  <2>2. ASSUME NEW changed \in NodeT, Write(w, j.canonical, changed),
               changed.refs = j.own \cup j.refs, changed.into = node[j.canonical].into
        PROVE  /\ raced \subseteq raced'
               /\ \A m \in Nodes \ {j.canonical} : node'[m] = node[m]
               /\ node'[j.canonical].into = node[j.canonical].into
               /\ node'[j.canonical].refs = j.own \cup j.refs
    BY <1>3, <2>2, WriteType
  <2> QED
    BY <1>1, <2>1, <2>2
<1>5. LinksOf(job[w])'
  BY <1>1, <1>2 DEF LinksOf, Linked, j
<1>6. RefsOf(job[w])'
  <2>1. NodesOf(j) \subseteq j.nodes
    BY <1>1, <1>2 DEF RefsOf
  <2>2. j.record \notin raced =>
            /\ \A m \in j.nodes : node[m].refs \subseteq j.refs
            /\ j.own = node[j.canonical].refs
    BY <1>1, <1>2, <2>1 DEF RefsOf, NodesOf
  <2>3. j.record \notin raced' =>
            \A m \in j.nodes : node'[m].refs \subseteq node'[j.canonical].refs
    BY <1>3, <1>4, <2>2
  <2>4. NodesOf(job[w])' = NodesOf(j)
    BY <1>1 DEF NodesOf
  <2> QED
    BY <1>1, <2>1, <2>3, <2>4 DEF RefsOf
<1>7. MergedAreFollowable'
  BY <1>1, <1>3, <1>4, NodesAndNone DEF MergeInv, MergedAreFollowable
<1>8. ASSUME NEW v \in Workers \ {w}, Merging(v)
      PROVE  RefsOf(job[v])'
  <2>1. job'[v] = job[v]
    BY <1>1 DEF OthersKeep
  <2>2. CASE UNCHANGED <<node, raced>>
    BY <1>8, <2>1, <2>2 DEF MergeInv, RefsInv, RefsOf, NodesOf
  <2>3. ASSUME NEW changed \in NodeT, Write(w, j.canonical, changed)
        PROVE  RefsOf(job[v])'
    BY <1>3, <1>8, <2>1, <2>3, OthersRefs
  <2> QED
    BY <1>1, <2>2, <2>3
<1>9. \A m, c \in Persons : Linked(m, c) => mergedInto'[m, c] > 0
  BY <1>1 DEF Linked
<1> QED
  BY <1>1, <1>5, <1>6, <1>7, <1>8, <1>9, OneMerge DEF j

\* A node is hidden only after it has been linked.
LEMMA ArchiveMergedMerge ==
    ASSUME TypeOK, ShapeInv, MergeInv, NEW w \in Workers, ArchiveMerged(w)
    PROVE  MergeInv'
<1> DEFINE j == job[w]
           n == Head(j.left)
<1>1. /\ OthersKeep(w) /\ UNCHANGED <<mergedInto, record>>
      /\ Merging(w) /\ j.step = "archive" /\ job'[w] \in MergeJob
      /\ job'[w].record = j.record /\ job'[w].canonical = j.canonical
      /\ job'[w].merged = j.merged /\ job'[w].nodes = j.nodes
      /\ n \in Persons /\ n \in ToSet(j.left)
      /\ \/ /\ job'[w].step = "archive"
            /\ ToSet(j.left) = {n} \cup ToSet(job'[w].left)
         \/ job'[w].step = "finish"
  BY ArchiveMergedFacts
<1>2. PICK changed \in NodeT :
         Write(w, n, changed) /\ changed.refs = node[n].refs /\ changed.into = j.canonical
  BY ArchiveMergedFacts
<1>3. RefsOf(j) /\ LinksOf(j) /\ j \in MergeJob
  BY <1>1, JobKinds DEF MergeInv, RefsInv, LinkInv
<1>4. j.canonical \in Nodes /\ j.nodes \subseteq Nodes /\ n \in Nodes
  BY <1>1, <1>3 DEF MergeJob, Nodes
<1> HIDE DEF j, n
<1>5. /\ raced \subseteq raced' /\ node'[n].refs = node[n].refs /\ node'[n].into = j.canonical
      /\ \A m \in Nodes \ {n} : node'[m] = node[m]
  BY <1>2, <1>4, WriteType
<1>6. Linked(n, j.canonical)
  BY <1>1, <1>3 DEF LinksOf
<1>7. LinksOf(job[w])'
  BY <1>1, <1>3 DEF LinksOf, Linked
<1>8. \A m \in Nodes : node'[m].refs = node[m].refs
  BY <1>5
<1>9. RefsOf(job[w])'
  <2>1. NodesOf(j) \subseteq j.nodes
    BY <1>1, <1>3 DEF RefsOf
  <2>2. j.record \notin raced' =>
            \A m \in j.nodes : node'[m].refs \subseteq node'[j.canonical].refs
    BY <1>1, <1>3, <1>4, <1>5, <1>8 DEF RefsOf
  <2>3. NodesOf(job[w])' = NodesOf(j)
    BY <1>1 DEF NodesOf
  <2> QED
    BY <1>1, <2>1, <2>2, <2>3 DEF RefsOf
<1>10. MergedAreFollowable'
  BY <1>1, <1>5, <1>6, NodesAndNone DEF MergeInv, MergedAreFollowable, Linked
<1>11. ASSUME NEW v \in Workers \ {w}, Merging(v)
       PROVE  RefsOf(job[v])'
  BY <1>1, <1>2, <1>4, <1>11, OthersRefs DEF OthersKeep
<1>12. \A m, c \in Persons : Linked(m, c) => mergedInto'[m, c] > 0
  BY <1>1 DEF Linked
<1> QED
  BY <1>1, <1>7, <1>9, <1>10, <1>11, <1>12, OneMerge DEF j

LEMMA FinishMergeMerge ==
    ASSUME TypeOK, ShapeInv, MergeInv, NEW w \in Workers, FinishMerge(w)
    PROVE  MergeInv'
<1>1. RecordInv
  BY DEF MergeInv
<1>2. /\ OthersKeep(w) /\ job'[w] = NoJob
      /\ UNCHANGED <<node, mergedInto, raced>>
      /\ record' \in [Records -> RecordT \cup {None}]
      /\ record[job[w].record] # None
      /\ \A q \in Records :
            /\ q # job[w].record => record'[q] = record[q]
            /\ record[q] # None =>
                  /\ record'[q] # None /\ record'[q].canonical = record[q].canonical
                  /\ record'[q].merged = record[q].merged
  BY <1>1, FinishMergeFacts
<1>3. Kept("merge")
  BY <1>2 DEF Kept, OthersKeep, NoJob
<1>4. RecordsHaveNodes'
  BY <1>2 DEF MergeInv, RecordsHaveNodes
<1> QED
  BY <1>2, <1>3, <1>4, MergeFrame

LEMMA UpdateMergeMerge ==
    ASSUME TypeOK, ShapeInv, MergeInv, NEW w \in Workers, NEW r \in Records,
           NEW status \in {"proposed", "rejected"}, UpdateMerge(w, r, status)
    PROVE  MergeInv' /\ record' \in [Records -> RecordT \cup {None}] /\ ops' \in Nat
           /\ \A q \in Records : record'[q] # record[q] => record'[q].status # "applied"
<1>1. /\ record[r] # None /\ record' = [record EXCEPT ![r].status = status]
      /\ UNCHANGED <<node, mergedInto, job, raced>> /\ ops' = ops + 1
  BY DEF UpdateMerge
<1>2. status \in Statuses /\ status # "applied"
  BY DEF Statuses
<1>3. /\ record' \in [Records -> RecordT \cup {None}]
      /\ \A q \in Records :
            /\ q # r => record'[q] = record[q]
            /\ record[q] # None =>
                  /\ record'[q] # None /\ record'[q].canonical = record[q].canonical
                  /\ record'[q].merged = record[q].merged
      /\ record'[r].status = status
  BY <1>1, <1>2, StatusType
<1>4. Kept("merge")
  BY <1>1 DEF Kept
<1>5. RecordsHaveNodes'
  BY <1>1, <1>3 DEF MergeInv, RecordsHaveNodes
<1>6. ops' \in Nat
  BY <1>1 DEF TypeOK
<1> QED
  BY <1>1, <1>2, <1>3, <1>4, <1>5, <1>6, MergeFrame

LEMMA CreateMergeMerge ==
    ASSUME TypeOK, ShapeInv, MergeInv, NEW r \in Records, NEW n \in Persons,
           NEW merged \in SUBSET Persons, CreateMerge(r, n, merged)
    PROVE  MergeInv' /\ \A q \in Records : record'[q] # record[q] => record'[q].status # "applied"
<1>1. /\ record[r] = None /\ merged # {}
      /\ record' = [record EXCEPT ![r] = NewMerge(n, merged)]
      /\ UNCHANGED <<node, mergedInto, job, raced>>
  BY DEF CreateMerge
<1>2. NewMerge(n, merged).merged = merged /\ NewMerge(n, merged).status = "proposed"
  BY DEF NewMerge
<1>3. record'[r] = NewMerge(n, merged) /\ \A q \in Records \ {r} : record'[q] = record[q]
  BY <1>1 DEF TypeOK
<1>4. Kept("merge")
  BY <1>1 DEF Kept
<1>5. RecordsHaveNodes'
  BY <1>1, <1>2, <1>3 DEF MergeInv, RecordsHaveNodes
<1> QED
  BY <1>1, <1>2, <1>3, <1>4, <1>5, MergeFrame

LEMMA ApplyMergeMerge ==
    ASSUME TypeOK, ShapeInv, MergeInv, NEW w \in Workers, NEW r \in Records, ApplyMerge(w, r)
    PROVE  MergeInv'
<1>1. /\ Idle(w) /\ OthersKeep(w) /\ job'[w] \in MergeJob
      /\ job'[w].step = "read" /\ job'[w].record = r
      /\ job'[w].canonical = record[r].canonical
      /\ ToSet(job'[w].merged) = record[r].merged
      /\ job'[w].nodes = {}
      /\ ToSet(job'[w].left) = {record[r].canonical} \cup record[r].merged
      /\ record[r] # None
  BY ApplyMergeType DEF OthersKeep, MergeInv
<1>2. UNCHANGED <<node, mergedInto, record, raced>>
  BY DEF ApplyMerge, graphVars
<1>3. \A v \in Workers \ {w} : Merging(v)' => Merging(v) /\ job'[v] = job[v]
  BY <1>1 DEF OthersKeep, Merging
<1>4. RecordInv'
  BY <1>1, <1>2, <1>3 DEF MergeInv, RecordInv, Merging
<1>5. LinkInv'
  <2> SUFFICES ASSUME NEW v \in Workers, Merging(v)'
               PROVE  LinksOf(job[v])'
    BY DEF LinkInv
  <2>1. CASE v = w
    BY <1>1, <2>1 DEF LinksOf
  <2>2. CASE v # w
    BY <1>2, <1>3, <2>2 DEF MergeInv, LinkInv, LinksOf, Linked
  <2> QED
    BY <2>1, <2>2
<1>6. RefsInv'
  <2> SUFFICES ASSUME NEW v \in Workers, Merging(v)'
               PROVE  RefsOf(job[v])'
    BY DEF RefsInv
  <2>1. RefsOf(job[w])'
    BY <1>1, <1>2 DEF RefsOf, NodesOf
  <2>2. CASE v # w
    BY <1>2, <1>3, <2>2 DEF MergeInv, RefsInv, RefsOf, NodesOf
  <2> QED
    BY <2>1, <2>2
<1>7. RecordsHaveNodes' /\ MergedAreFollowable'
  BY <1>2 DEF MergeInv, RecordsHaveNodes, MergedAreFollowable
<1> QED
  BY <1>4, <1>5, <1>6, <1>7 DEF MergeInv

\* What a merge that was not raced has done when its record becomes applied.
LEMMA FinishedKeepsRefs ==
    ASSUME TypeOK, ShapeInv, MergeInv, NEW w \in Workers, FinishMerge(w), NEW r \in Records \ raced,
           record[r] # record'[r]
    PROVE  \A n \in record[r].merged : node'[n].refs \subseteq node'[record[r].canonical].refs
<1>1. RecordInv
  BY DEF MergeInv
<1>2. /\ Merging(w) /\ job[w].step = "finish" /\ UNCHANGED node
      /\ r = job[w].record
  BY <1>1, FinishMergeFacts
<1>3. RefsOf(job[w])
  BY <1>2 DEF MergeInv, RefsInv
<1>4. record[r].canonical = job[w].canonical /\ record[r].merged = ToSet(job[w].merged)
  BY <1>1, <1>2 DEF RecordInv
<1> QED
  BY <1>2, <1>3, <1>4 DEF RefsOf, NodesOf

-----------------------------------------------------------------------------
(* The states of a relationship *)

\* Steps that write no state.
LEMMA StateFrame ==
    ASSUME TypeOK, StateInv, Kept("state"), UNCHANGED state, torn \subseteq torn',
           \A w \in Workers : Stating(w) /\ job[w].step = "clear" =>
                                  job'[w] = job[w] \/ "state" \in torn'
    PROVE  StateInv'
<1>1. \A v \in Workers : Stating(v)' => Stating(v) /\ job'[v] = job[v]
  BY DEF Kept, Stating
<1>2. StateJobInv'
  BY <1>1 DEF StateInv, StateJobInv
<1>3. CurrentInv'
  <2> SUFFICES ASSUME "state" \notin torn',
                      NEW s \in States, NEW t \in States, s # t, Current(s)', Current(t)'
               PROVE  \E w \in Workers : Stating(w)' /\ job'[w].step = "clear"
                                         /\ job'[w].state \in {s, t}
    BY DEF CurrentInv
  <2>1. Current(s) /\ Current(t) /\ "state" \notin torn
    BY DEF Current
  <2>2. PICK w \in Workers : Stating(w) /\ job[w].step = "clear" /\ job[w].state \in {s, t}
    BY <2>1 DEF StateInv, CurrentInv
  <2>3. job'[w] = job[w]
    BY <2>2
  <2> QED
    BY <2>2, <2>3 DEF Stating
<1> QED
  BY <1>2, <1>3 DEF StateInv

LEMMA StateJobFacts ==
    ASSUME TypeOK, NEW w \in Workers, Stating(w)
    PROVE  /\ job[w] \in StateJob /\ job[w].state \in States /\ job[w].level \in Levels
           /\ job[w].makeCurrent \in BOOLEAN
           /\ state[job[w].state] \in StateT
           /\ \A step \in {"upsert", "link", "clear", "context"} :
                 LET k == [job[w] EXCEPT !.step = step]
                 IN  /\ k \in StateJob /\ k.step = step /\ k.state = job[w].state
                     /\ k.makeCurrent = job[w].makeCurrent /\ k.kind = "state"
                     /\ k \in AnyJob /\ Shaped(k)
<1>1. job[w] \in StateJob
  BY JobKinds
<1>2. ASSUME NEW j \in StateJob
      PROVE  j \in AnyJob /\ Shaped(j)
  BY DEF AnyJob, Shaped, StateJob
<1>3. /\ job[w].state \in States /\ job[w].level \in Levels
      /\ job[w].makeCurrent \in BOOLEAN
  BY <1>1 DEF StateJob
<1>4. ASSUME NEW step \in {"upsert", "link", "clear", "context"}
      PROVE  LET k == [job[w] EXCEPT !.step = step]
             IN  /\ k \in StateJob /\ k.step = step /\ k.state = job[w].state
                 /\ k.makeCurrent = job[w].makeCurrent /\ k.kind = "state"
  BY <1>1 DEF StateJob
<1> QED
  BY <1>1, <1>2, <1>3, <1>4 DEF TypeOK

LEMMA CreateStateFacts ==
    ASSUME TypeOK, ShapeInv, StateInv, NEW w \in Workers, NEW s \in States, NEW level \in Levels,
           NEW makeCurrent \in BOOLEAN, CreateState(w, s, level, makeCurrent)
    PROVE  /\ JobType /\ OthersKeep(w) /\ ops' \in Nat /\ Idle(w) /\ job'[w].kind = "state"
           /\ StateInv'
<1> DEFINE j == [kind |-> "state", step |-> "upsert", state |-> s, level |-> level,
                 makeCurrent |-> makeCurrent, read |-> context]
<1>1. j \in StateJob /\ j.kind = "state" /\ j.step = "upsert" /\ j.state = s
  BY DEF StateJob, TypeOK
<1>2. Begin(w, j) /\ UNCHANGED <<state, torn>> /\ IsUnused(s)
  BY DEF CreateState, graphVars
<1> HIDE DEF j
<1>3. j \in AnyJob /\ Shaped(j)
  BY <1>1 DEF AnyJob, Shaped
<1>4. /\ job' \in [Workers -> AnyJob] /\ job'[w] = j /\ OthersKeep(w)
      /\ ops' \in Nat /\ Idle(w) /\ ShapeInv'
  BY <1>2, <1>3, BeginType DEF OthersKeep
<1>5. \A v \in Workers \ {w} : job'[v] = job[v] /\ (Stating(v) => job[v].state # s)
  BY <1>2, <1>4 DEF IsUnused, OthersKeep, Stating
<1>6. StateJobInv'
  BY <1>1, <1>2, <1>4, <1>5 DEF StateInv, StateJobInv, Stating
<1>7. ~Stating(w)
  BY <1>4, JobKinds
<1>8. CurrentInv'
  BY <1>2, <1>5, <1>7 DEF StateInv, CurrentInv, Current, Stating
<1> QED
  BY <1>1, <1>4, <1>6, <1>8 DEF JobType, StateInv

LEMMA UpsertStateFacts ==
    ASSUME TypeOK, ShapeInv, StateInv, NEW w \in Workers, UpsertState(w)
    PROVE  /\ JobType /\ OthersKeep(w) /\ state' \in [States -> StateT] /\ Stating(w)
           /\ job'[w].kind = "state" /\ StateInv'
<1> DEFINE s == job[w].state
           k == [job[w] EXCEPT !.step = "link"]
           new == NewState(job[w].makeCurrent, job[w].level)
<1>1. Stating(w) /\ job[w].step = "upsert" /\ Go(w, k) /\ UNCHANGED torn
      /\ state' = [state EXCEPT ![s] = new]
  BY DEF UpsertState, InState, Stating
<1>2. /\ s \in States /\ k \in AnyJob /\ Shaped(k) /\ k.step = "link" /\ k.state = s
      /\ k.makeCurrent = job[w].makeCurrent /\ k.kind = "state" /\ job[w].level \in Levels
      /\ job[w].makeCurrent \in BOOLEAN
  BY <1>1, StateJobFacts
<1>3. new \in StateT /\ ~new.linked /\ new.current = job[w].makeCurrent
  BY <1>2 DEF NewState, StateT
<1> HIDE DEF s, k, new
<1>4. JobType /\ job'[w] = k /\ OthersKeep(w)
  BY <1>1, <1>2, GoType DEF JobType, OthersKeep
<1>5. state' \in [States -> StateT] /\ state'[s] = new
      /\ \A t \in States \ {s} : state'[t] = state[t]
  BY <1>1, <1>2, <1>3 DEF TypeOK
<1>6. \A v \in Workers \ {w} : Stating(v) => job[v].state \in States /\ job[v].state # s
  BY <1>1, StateJobFacts DEF StateInv, StateJobInv, s
<1>7. StateJobInv'
  <2>1. \A v \in Workers \ {w} : job'[v] = job[v]
    BY <1>4 DEF OthersKeep
  <2>2. ASSUME NEW v \in Workers, NEW u \in Workers, v # u, Stating(v)', Stating(u)'
        PROVE  job'[v].state # job'[u].state
    BY <1>1, <1>2, <1>4, <1>6, <2>1, <2>2 DEF StateInv, StateJobInv, Stating
  <2>3. ASSUME NEW v \in Workers, Stating(v)'
        PROVE  /\ job'[v].step = "link" /\ ~job'[v].makeCurrent => ~state'[job'[v].state].current
               /\ job'[v].step = "clear" => job'[v].makeCurrent
    <3>1. CASE v = w
      BY <1>2, <1>3, <1>4, <1>5, <3>1, Zenon
    <3>2. CASE v # w
      <4>1. job'[v] = job[v] /\ Stating(v)
        BY <2>1, <2>3, <3>2 DEF Stating
      <4>2. state'[job[v].state] = state[job[v].state]
        BY <1>5, <1>6, <3>2, <4>1
      <4> QED
        BY <4>1, <4>2, Zenon DEF StateInv, StateJobInv
    <3> QED
      BY <3>1, <3>2
  <2> QED
    BY <2>2, <2>3 DEF StateJobInv
<1>8. CurrentInv'
  <2>1. \A t \in States : Current(t)' => Current(t) /\ t # s
    BY <1>3, <1>5 DEF Current
  <2>2. \A v \in Workers \ {w} : job'[v] = job[v]
    BY <1>4 DEF OthersKeep
  <2> QED
    BY <1>1, <2>1, <2>2 DEF StateInv, CurrentInv, Stating
<1> QED
  BY <1>1, <1>2, <1>4, <1>5, <1>7, <1>8 DEF StateInv

LEMMA LinkStateFacts ==
    ASSUME TypeOK, ShapeInv, StateInv, NEW w \in Workers, LinkState(w)
    PROVE  /\ JobType /\ OthersKeep(w) /\ state' \in [States -> StateT] /\ Stating(w)
           /\ job'[w].kind \in {"state", "none"} /\ StateInv'
<1> DEFINE s == job[w].state
           k == [job[w] EXCEPT !.step = "clear"]
           new == [state[s] EXCEPT !.linked = TRUE]
           next == IF job[w].makeCurrent THEN k ELSE NoJob
<1>1. Stating(w) /\ job[w].step = "link" /\ Go(w, next) /\ UNCHANGED torn
      /\ state' = [state EXCEPT ![s] = new]
  BY DEF LinkState, InState, Stating
<1>2. /\ s \in States /\ k \in AnyJob /\ Shaped(k) /\ k.step = "clear" /\ k.state = s
      /\ k.makeCurrent = job[w].makeCurrent /\ k.kind = "state" /\ state[s] \in StateT
  BY <1>1, StateJobFacts
<1>3. new \in StateT /\ new.current = state[s].current
  BY <1>2 DEF StateT
<1>4. NoJob \in AnyJob /\ Shaped(NoJob) /\ NoJob.kind = "none"
  BY NoJobShape DEF NoJob
<1> HIDE DEF k, new
<1>5. next \in AnyJob /\ Shaped(next)
  BY <1>2, <1>4
<1>6. JobType /\ job'[w] = next /\ OthersKeep(w)
  BY <1>1, <1>5, GoType DEF JobType, OthersKeep
<1>7. \/ job[w].makeCurrent /\ job'[w] = k
      \/ ~job[w].makeCurrent /\ job'[w].kind = "none" /\ ~state[s].current
  <2>1. ~job[w].makeCurrent => ~state[s].current
    BY <1>1, Zenon DEF StateInv, StateJobInv
  <2> QED
    BY <1>4, <1>6, <2>1
<1> HIDE DEF next, s
<1>8. state' \in [States -> StateT] /\ state'[s] = new
      /\ \A t \in States \ {s} : state'[t] = state[t]
  BY <1>1, <1>2, <1>3 DEF TypeOK
<1>9. \A v \in Workers \ {w} : Stating(v) => job[v].state \in States /\ job[v].state # s
  BY <1>1, StateJobFacts DEF StateInv, StateJobInv, s
<1>10. \A v \in Workers \ {w} : job'[v] = job[v]
  BY <1>6 DEF OthersKeep
<1>11. StateJobInv'
  <2>2. ASSUME NEW v \in Workers, NEW u \in Workers, v # u, Stating(v)', Stating(u)'
        PROVE  job'[v].state # job'[u].state
    BY <1>1, <1>2, <1>7, <1>9, <1>10, <2>2 DEF StateInv, StateJobInv, Stating
  <2>3. ASSUME NEW v \in Workers, Stating(v)'
        PROVE  /\ job'[v].step = "link" /\ ~job'[v].makeCurrent => ~state'[job'[v].state].current
               /\ job'[v].step = "clear" => job'[v].makeCurrent
    <3>1. CASE v = w
      BY <1>2, <1>7, <2>3, <3>1 DEF Stating
    <3>2. CASE v # w
      <4>1. job'[v] = job[v] /\ Stating(v)
        BY <1>10, <2>3, <3>2 DEF Stating
      <4>2. state'[job[v].state] = state[job[v].state]
        BY <1>8, <1>9, <3>2, <4>1
      <4> QED
        BY <4>1, <4>2, Zenon DEF StateInv, StateJobInv
    <3> QED
      BY <3>1, <3>2
  <2> QED
    BY <2>2, <2>3 DEF StateJobInv
<1>12. CurrentInv'
  <2> SUFFICES ASSUME "state" \notin torn',
                      NEW p \in States, NEW t \in States, p # t, Current(p)', Current(t)'
               PROVE  \E v \in Workers : Stating(v)' /\ job'[v].step = "clear"
                                         /\ job'[v].state \in {p, t}
    BY DEF CurrentInv
  <2>1. CASE job[w].makeCurrent /\ job'[w] = k /\ s \in {p, t}
    BY <1>2, <2>1 DEF Stating
  <2>2. CASE s \notin {p, t}
    <3>1. Current(p) /\ Current(t)
      BY <1>8, <2>2 DEF Current
    <3>2. PICK v \in Workers : Stating(v) /\ job[v].step = "clear" /\ job[v].state \in {p, t}
      BY <1>1, <3>1 DEF StateInv, CurrentInv
    <3>3. v # w
      BY <1>1, <3>2
    <3> QED
      BY <1>10, <3>2, <3>3 DEF Stating
  <2>3. CASE ~state[s].current
    BY <1>3, <1>8, <2>2, <2>3 DEF Current
  <2> QED
    BY <1>7, <2>1, <2>2, <2>3
<1> QED
  BY <1>1, <1>2, <1>6, <1>7, <1>8, <1>11, <1>12 DEF StateInv

\* After the others have been cleared, only the state that is kept may be current.
LEMMA ClearOthersFacts ==
    ASSUME TypeOK, ShapeInv, StateInv, NEW w \in Workers, ClearOthers(w)
    PROVE  /\ JobType /\ OthersKeep(w) /\ state' \in [States -> StateT] /\ Stating(w)
           /\ job'[w].kind \in {"state", "none"} /\ StateInv'
<1> DEFINE s == job[w].state
           k == [job[w] EXCEPT !.step = "context"]
           next == IF job[w].level # "none" /\ job[w].level # job[w].read THEN k ELSE NoJob
<1>1. Stating(w) /\ job[w].step = "clear" /\ Go(w, next) /\ UNCHANGED torn
      /\ state' = [t \in States |-> IF t # s /\ state[t].linked
                                    THEN [state[t] EXCEPT !.current = FALSE] ELSE state[t]]
  BY DEF ClearOthers, Cleared, InState, Stating
<1>2. /\ s \in States /\ k \in AnyJob /\ Shaped(k) /\ k.step = "context" /\ k.state = s
      /\ k.kind = "state"
  BY <1>1, StateJobFacts
<1>3. NoJob \in AnyJob /\ Shaped(NoJob) /\ NoJob.kind = "none"
  BY NoJobShape DEF NoJob
<1> HIDE DEF k, s
<1>4. next \in AnyJob /\ Shaped(next)
  BY <1>2, <1>3
<1>5. JobType /\ job'[w] = next /\ OthersKeep(w)
  BY <1>1, <1>4, GoType DEF JobType, OthersKeep
<1>6. job'[w] = k \/ job'[w].kind = "none"
  BY <1>3, <1>5
<1> HIDE DEF next
<1>7. ASSUME NEW t \in States
      PROVE  /\ state'[t] \in StateT
             /\ state'[t].linked /\ state'[t].current => t = s
             /\ ~state[t].current => ~state'[t].current
  <2>1. state[t] \in StateT
    BY DEF TypeOK
  <2>2. [state[t] EXCEPT !.current = FALSE] \in StateT
        /\ ~[state[t] EXCEPT !.current = FALSE].current
    BY <2>1 DEF StateT
  <2>3. state'[t] = (IF t # s /\ state[t].linked
                     THEN [state[t] EXCEPT !.current = FALSE] ELSE state[t])
    BY <1>1
  <2> QED
    BY <2>1, <2>2, <2>3
<1>8. state' \in [States -> StateT]
  BY <1>1, <1>7
<1>9. \A v \in Workers \ {w} : job'[v] = job[v]
  BY <1>5 DEF OthersKeep
<1>10. \A v \in Workers \ {w} : Stating(v) => job[v].state \in States /\ job[v].state # s
  BY <1>1, StateJobFacts DEF StateInv, StateJobInv, s
<1>11. StateJobInv'
  <2>2. ASSUME NEW v \in Workers, NEW u \in Workers, v # u, Stating(v)', Stating(u)'
        PROVE  job'[v].state # job'[u].state
    BY <1>1, <1>2, <1>6, <1>9, <1>10, <2>2 DEF StateInv, StateJobInv, Stating
  <2>3. ASSUME NEW v \in Workers, Stating(v)'
        PROVE  /\ job'[v].step = "link" /\ ~job'[v].makeCurrent => ~state'[job'[v].state].current
               /\ job'[v].step = "clear" => job'[v].makeCurrent
    <3>1. CASE v = w
      BY <1>2, <1>6, <2>3, <3>1 DEF Stating
    <3>2. CASE v # w
      BY <1>7, <1>10, <1>9, <2>3, <3>2, Zenon DEF StateInv, StateJobInv, Stating
    <3> QED
      BY <3>1, <3>2
  <2> QED
    BY <2>2, <2>3 DEF StateJobInv
<1>12. CurrentInv'
  BY <1>7 DEF CurrentInv, Current
<1> QED
  BY <1>1, <1>2, <1>5, <1>6, <1>8, <1>11, <1>12 DEF StateInv

LEMMA PatchContextFacts ==
    ASSUME TypeOK, ShapeInv, StateInv, NEW w \in Workers, PatchContext(w)
    PROVE  /\ JobType /\ OthersKeep(w) /\ context' \in Levels /\ Stating(w)
           /\ job'[w] = NoJob /\ StateInv'
<1>1. Stating(w) /\ job[w].step = "context" /\ Go(w, NoJob) /\ UNCHANGED <<state, torn>>
      /\ context' = job[w].level
  BY DEF PatchContext, InState, Stating
<1>2. JobType /\ job'[w] = NoJob /\ OthersKeep(w)
  BY <1>1, GoType, NoJobShape DEF JobType, OthersKeep
<1>3. Kept("state")
  BY <1>2 DEF Kept, OthersKeep, NoJob
<1>4. \A v \in Workers : Stating(v) /\ job[v].step = "clear" =>
                             job'[v] = job[v] \/ "state" \in torn'
  BY <1>1, <1>2 DEF OthersKeep
<1>5. StateInv'
  BY <1>1, <1>3, <1>4, StateFrame
<1> QED
  BY <1>1, <1>2, <1>5, StateJobFacts

LEMMA RaiseMergeState ==
    ASSUME TypeOK, ShapeInv, MergeInv, StateInv, NEW w \in Workers, Raise(w)
    PROVE  MergeInv' /\ StateInv'
<1>1. /\ job'[w] = NoJob /\ OthersKeep(w) /\ torn' = torn \cup {job[w].kind}
      /\ UNCHANGED <<mergedInto, raced, node, record, state>>
  BY RaiseType DEF Raise, graphVars, OthersKeep
<1>2. Kept("merge") /\ Kept("state")
  BY <1>1 DEF Kept, OthersKeep, NoJob
<1>3. \A v \in Workers : Stating(v) /\ job[v].step = "clear" =>
                             job'[v] = job[v] \/ "state" \in torn'
  BY <1>1 DEF OthersKeep, Stating
<1> QED
  BY <1>1, <1>2, <1>3, MergeInvFrame, StateFrame

-----------------------------------------------------------------------------
(* The steps of the services of the graph *)

GraphType ==
    /\ node \in [Nodes -> NodeT]
    /\ mergedInto \in [Persons \X Persons -> Nat]
    /\ record \in [Records -> RecordT \cup {None}]
    /\ context \in Levels
    /\ state \in [States -> StateT]
    /\ job \in [Workers -> AnyJob]
    /\ ops \in Nat
    /\ raced \subseteq Records
    /\ torn \subseteq {"merge", "state", "vectorize"}

IndexType ==
    /\ vector \in [Nodes -> Texts \cup {None}]
    /\ entry \in [Nodes -> EntryT \cup {None}]
    /\ index \in [Nodes -> {"clean", "changed", "mixed"}]

LEMMA TypeParts == TypeOK <=> GraphType /\ IndexType
BY DEF TypeOK, GraphType, IndexType, AnyJob

VectorJobsKeep == \A v \in Workers : Vectorizing(v) \/ Vectorizing(v)' => job'[v] = job[v]

\* A step of one worker that is in no vectorization
LEMMA OneJobKeeps ==
    ASSUME NEW w \in Workers, OthersKeep(w), NEW kind, job[w].kind # kind, job'[w].kind # kind
    PROVE  /\ Kept(kind)
           /\ \A v \in Workers : job[v].kind = kind => job'[v] = job[v]
BY DEF Kept, OthersKeep

LEMMA KeptStates ==
    ASSUME TypeOK, StateInv, NEW w \in Workers, OthersKeep(w), job[w].kind # "state",
           job'[w].kind # "state", UNCHANGED <<state, torn>>
    PROVE  StateInv'
<1>1. /\ Kept("state")
      /\ \A v \in Workers : Stating(v) => job'[v] = job[v]
  BY OneJobKeeps DEF Stating
<1> QED
  BY <1>1, StateFrame

LEMMA KeptMerges ==
    ASSUME TypeOK, MergeInv, NEW w \in Workers, OthersKeep(w), job[w].kind # "merge",
           job'[w].kind # "merge", UNCHANGED <<mergedInto, raced, node, record>>
    PROVE  MergeInv'
<1>1. Kept("merge")
  BY OneJobKeeps
<1> QED
  BY <1>1, MergeInvFrame

LEMMA KeptVectors ==
    ASSUME NEW w \in Workers, OthersKeep(w), job[w].kind # "vectorize", job'[w].kind # "vectorize"
    PROVE  VectorJobsKeep
BY DEF VectorJobsKeep, OthersKeep, Vectorizing

LEMMA KindsOfJobs ==
    /\ NoJob.kind = "none"
    /\ \A j \in MergeJob : j.kind = "merge"
    /\ \A j \in StateJob : j.kind = "state"
    /\ \A j \in VectorJob : j.kind = "vectorize"
BY DEF NoJob, MergeJob, StateJob, VectorJob

GraphPart == GraphType /\ ShapeInv /\ MergeInv /\ StateInv

LEMMA MergeStepInv ==
    ASSUME TypeOK, ShapeInv, MergeInv, StateInv, NEW w \in Workers, MergeStep(w)
    PROVE  GraphPart' /\ VectorJobsKeep
<1>1. GraphType
  BY TypeParts
<1>2. CASE ReadNode(w)
  <2>1. /\ JobType /\ OthersKeep(w) /\ UNCHANGED <<graphVars, ops, torn>>
        /\ Merging(w) /\ job'[w] \in MergeJob
    BY <1>2, ReadNodeFacts
  <2>2. job[w].kind = "merge" /\ job'[w].kind = "merge"
    BY <2>1, KindsOfJobs DEF Merging
  <2>3. GraphType'
    BY <1>1, <2>1 DEF GraphType, JobType, graphVars
  <2>4. StateInv' /\ VectorJobsKeep
    BY <2>1, <2>2, KeptStates, KeptVectors DEF graphVars
  <2> QED
    BY <1>2, <2>1, <2>3, <2>4, ReadNodeMerge DEF GraphPart, JobType
<1>3. CASE LinkMerged(w)
  <2>1. /\ JobType /\ OthersKeep(w) /\ UNCHANGED <<node, record, context, state, raced, ops, torn>>
        /\ Merging(w) /\ job'[w] \in MergeJob
        /\ mergedInto' \in [Persons \X Persons -> Nat]
    BY <1>3, LinkMergedFacts
  <2>2. job[w].kind = "merge" /\ job'[w].kind = "merge"
    BY <2>1, KindsOfJobs DEF Merging
  <2>3. GraphType'
    BY <1>1, <2>1 DEF GraphType, JobType
  <2>4. StateInv' /\ VectorJobsKeep
    BY <2>1, <2>2, KeptStates, KeptVectors
  <2> QED
    BY <1>3, <2>1, <2>3, <2>4, LinkMergedMerge DEF GraphPart, JobType
<1>4. CASE Absorb(w)
  <2>1. /\ JobType /\ OthersKeep(w) /\ UNCHANGED <<mergedInto, record, context, state, ops, torn>>
        /\ Merging(w) /\ job'[w] \in MergeJob
        /\ \/ UNCHANGED <<node, raced>>
           \/ \E changed \in NodeT : Write(w, job[w].canonical, changed)
    BY <1>4, AbsorbFacts
  <2>2. job[w].kind = "merge" /\ job'[w].kind = "merge" /\ job[w].canonical \in Nodes
    BY <2>1, KindsOfJobs, JobKinds DEF Merging, MergeJob, Nodes
  <2>3. node' \in [Nodes -> NodeT] /\ raced' \subseteq Records
    BY <1>1, <2>1, <2>2, WriteType DEF GraphType
  <2>4. GraphType'
    BY <1>1, <2>1, <2>3 DEF GraphType, JobType
  <2>5. StateInv' /\ VectorJobsKeep
    BY <2>1, <2>2, KeptStates, KeptVectors
  <2> QED
    BY <1>4, <2>1, <2>4, <2>5, AbsorbMerge DEF GraphPart, JobType
<1>5. CASE ArchiveMerged(w)
  <2>1. /\ JobType /\ OthersKeep(w) /\ UNCHANGED <<mergedInto, record, context, state, ops, torn>>
        /\ Merging(w) /\ job'[w] \in MergeJob
        /\ Head(job[w].left) \in Persons
        /\ \E changed \in NodeT : Write(w, Head(job[w].left), changed)
    BY <1>5, ArchiveMergedFacts
  <2>2. job[w].kind = "merge" /\ job'[w].kind = "merge" /\ Head(job[w].left) \in Nodes
    BY <2>1, KindsOfJobs DEF Merging, Nodes
  <2>3. node' \in [Nodes -> NodeT] /\ raced' \subseteq Records
    BY <2>1, <2>2, WriteType
  <2>4. GraphType'
    BY <1>1, <2>1, <2>3 DEF GraphType, JobType
  <2>5. StateInv' /\ VectorJobsKeep
    BY <2>1, <2>2, KeptStates, KeptVectors
  <2> QED
    BY <1>5, <2>1, <2>4, <2>5, ArchiveMergedMerge DEF GraphPart, JobType
<1>6. CASE FinishMerge(w)
  <2>1. RecordInv
    BY DEF MergeInv
  <2>2. /\ JobType /\ OthersKeep(w) /\ job'[w] = NoJob
        /\ UNCHANGED <<node, mergedInto, context, state, raced, ops, torn>>
        /\ Merging(w) /\ record' \in [Records -> RecordT \cup {None}]
    BY <1>6, <2>1, FinishMergeFacts
  <2>3. job[w].kind = "merge" /\ job'[w].kind = "none"
    BY <2>2, KindsOfJobs DEF Merging
  <2>4. GraphType'
    BY <1>1, <2>2 DEF GraphType, JobType
  <2>5. StateInv' /\ VectorJobsKeep
    BY <2>2, <2>3, KeptStates, KeptVectors
  <2> QED
    BY <1>6, <2>2, <2>4, <2>5, FinishMergeMerge DEF GraphPart, JobType
<1> QED
  BY <1>2, <1>3, <1>4, <1>5, <1>6 DEF MergeStep

LEMMA StateStepInv ==
    ASSUME TypeOK, ShapeInv, MergeInv, StateInv, NEW w \in Workers, StateStep(w)
    PROVE  GraphPart' /\ VectorJobsKeep /\ UNCHANGED <<node, record>>
<1>1. GraphType
  BY TypeParts
<1>2. /\ JobType /\ OthersKeep(w) /\ Stating(w) /\ job'[w].kind \in {"state", "none"} /\ StateInv'
      /\ state' \in [States -> StateT] /\ context' \in Levels
      /\ UNCHANGED <<node, mergedInto, record, raced, ops, torn>>
  <2>1. CASE UpsertState(w)
    BY <1>1, <2>1, UpsertStateFacts DEF UpsertState, GraphType
  <2>2. CASE LinkState(w)
    BY <1>1, <2>2, LinkStateFacts DEF LinkState, GraphType
  <2>3. CASE ClearOthers(w)
    BY <1>1, <2>3, ClearOthersFacts DEF ClearOthers, GraphType
  <2>4. CASE PatchContext(w)
    BY <1>1, <2>4, PatchContextFacts, KindsOfJobs DEF PatchContext, GraphType
  <2> QED
    BY <2>1, <2>2, <2>3, <2>4 DEF StateStep
<1>3. GraphType'
  BY <1>1, <1>2 DEF GraphType, JobType
<1>4. MergeInv' /\ VectorJobsKeep
  BY <1>2, KeptMerges, KeptVectors DEF Stating
<1> QED
  BY <1>2, <1>3, <1>4 DEF GraphPart, JobType

LEMMA GraphNextInv ==
    ASSUME TypeOK, ShapeInv, MergeInv, StateInv, GraphNext
    PROVE  GraphPart' /\ VectorJobsKeep
<1>1. GraphType
  BY TypeParts
<1>2. ASSUME NEW r \in Records, NEW n \in Persons, NEW merged \in SUBSET Persons,
             CreateMerge(r, n, merged)
      PROVE  GraphPart' /\ VectorJobsKeep
  <2>1. UNCHANGED <<node, mergedInto, context, state, job, ops, raced, torn>>
    BY <1>2 DEF CreateMerge
  <2>2. MergeInv' /\ record' \in [Records -> RecordT \cup {None}]
    BY <1>2, CreateMergeMerge, CreateMergeType
  <2>3. StateInv' /\ ShapeInv' /\ VectorJobsKeep
    BY <2>1, StateFrame DEF Kept, ShapeInv, VectorJobsKeep
  <2> QED
    BY <1>1, <2>1, <2>2, <2>3 DEF GraphPart, GraphType
<1> SUFFICES ASSUME NEW w \in Workers,
                 \/ \E n \in Nodes : Upsert(w, n)
                 \/ \E n \in Nodes, l \in Lifecycles : Transition(w, n, l)
                 \/ \E n \in Nodes, t \in Texts : Patch(w, n, t)
                 \/ \E r \in Records : ApplyMerge(w, r)
                 \/ \E r \in Records, s \in {"proposed", "rejected"} : UpdateMerge(w, r, s)
                 \/ \E s \in States, l \in Levels, b \in BOOLEAN : CreateState(w, s, l, b)
             PROVE  GraphPart' /\ VectorJobsKeep
  BY <1>2, MergeStepInv, StateStepInv DEF GraphNext
<1>3. ASSUME NEW n \in Nodes,
             \/ Upsert(w, n)
             \/ \E l \in Lifecycles : Transition(w, n, l)
             \/ \E t \in Texts : Patch(w, n, t)
      PROVE  GraphPart' /\ VectorJobsKeep
  <2>1. /\ node' \in [Nodes -> NodeT] /\ raced' \subseteq Records /\ ops' \in Nat
        /\ UNCHANGED <<mergedInto, record, context, state, job, torn>>
        /\ \E changed \in NodeT : Write(w, n, changed) /\ changed.into = node[n].into
        /\ Idle(w)
    BY <1>3, NodeWritesType
  <2>2. MergeInv'
    BY <2>1, NodeWriteMerge
  <2>3. StateInv' /\ ShapeInv' /\ VectorJobsKeep
    BY <2>1, StateFrame DEF Kept, ShapeInv, VectorJobsKeep
  <2> QED
    BY <1>1, <2>1, <2>2, <2>3 DEF GraphPart, GraphType
<1>4. ASSUME NEW r \in Records, ApplyMerge(w, r)
      PROVE  GraphPart' /\ VectorJobsKeep
  <2>1. JobType /\ ops' \in Nat /\ Idle(w) /\ OthersKeep(w) /\ job'[w] \in MergeJob
    BY <1>4, ApplyMergeType DEF OthersKeep, JobType, MergeInv
  <2>2. UNCHANGED <<graphVars, torn>>
    BY <1>4 DEF ApplyMerge
  <2>3. job[w].kind = "none" /\ job'[w].kind = "merge"
    BY <2>1, KindsOfJobs DEF Idle
  <2>4. StateInv' /\ VectorJobsKeep
    BY <2>1, <2>2, <2>3, KeptStates, KeptVectors DEF graphVars
  <2>5. GraphType'
    BY <1>1, <2>1, <2>2 DEF GraphType, JobType, graphVars
  <2> QED
    BY <1>4, <2>1, <2>4, <2>5, ApplyMergeMerge DEF GraphPart, JobType
<1>5. ASSUME NEW r \in Records, NEW s \in {"proposed", "rejected"}, UpdateMerge(w, r, s)
      PROVE  GraphPart' /\ VectorJobsKeep
  <2>1. UNCHANGED <<node, mergedInto, context, state, job, raced, torn>>
    BY <1>5 DEF UpdateMerge
  <2>2. MergeInv' /\ record' \in [Records -> RecordT \cup {None}] /\ ops' \in Nat
    BY <1>5, UpdateMergeMerge
  <2>3. StateInv' /\ ShapeInv' /\ VectorJobsKeep
    BY <2>1, StateFrame DEF Kept, ShapeInv, VectorJobsKeep
  <2> QED
    BY <1>1, <2>1, <2>2, <2>3 DEF GraphPart, GraphType
<1>6. ASSUME NEW s \in States, NEW l \in Levels, NEW b \in BOOLEAN, CreateState(w, s, l, b)
      PROVE  GraphPart' /\ VectorJobsKeep
  <2>1. /\ JobType /\ OthersKeep(w) /\ ops' \in Nat /\ Idle(w) /\ job'[w].kind = "state"
        /\ StateInv'
    BY <1>6, CreateStateFacts
  <2>2. UNCHANGED <<graphVars, torn>>
    BY <1>6 DEF CreateState
  <2>3. job[w].kind = "none"
    BY <2>1, KindsOfJobs DEF Idle
  <2>4. MergeInv' /\ VectorJobsKeep
    BY <2>1, <2>2, <2>3, KeptMerges, KeptVectors DEF graphVars
  <2>5. GraphType'
    BY <1>1, <2>1, <2>2 DEF GraphType, JobType, graphVars
  <2> QED
    BY <2>1, <2>4, <2>5 DEF GraphPart, JobType
<1> QED
  BY <1>3, <1>4, <1>5, <1>6

LEMMA GraphStepInv ==
    ASSUME TypeOK, ShapeInv, MergeInv, StateInv, GraphStep
    PROVE  GraphPart' /\ VectorJobsKeep /\ TypeOK'
<1>1. GraphPart' /\ VectorJobsKeep
  <2>1. ASSUME NEW w \in Workers, job[w].kind # "vectorize", Raise(w)
        PROVE  GraphPart' /\ VectorJobsKeep
    <3>1. /\ job' \in [Workers -> AnyJob] /\ ShapeInv' /\ job'[w] = NoJob
          /\ torn' \subseteq {"merge", "state", "vectorize"} /\ OthersKeep(w)
      BY <2>1, RaiseType DEF OthersKeep
    <3>2. UNCHANGED <<graphVars, ops>>
      BY <2>1 DEF Raise
    <3>3. GraphType'
      BY <3>1, <3>2, TypeParts DEF GraphType, graphVars
    <3>4. VectorJobsKeep
      BY <2>1, <3>1, KindsOfJobs, KeptVectors
    <3> QED
      BY <2>1, <3>1, <3>3, <3>4, RaiseMergeState DEF GraphPart
  <2> QED
    BY <2>1, GraphNextInv DEF GraphStep
<1>2. IndexType'
  BY DEF GraphStep, TypeOK, IndexType
<1>3. TypeOK'
  <2>1. GraphType'
    BY <1>1 DEF GraphPart
  <2> QED
    BY <1>2, <2>1 DEF TypeOK, GraphType, IndexType, AnyJob
<1> QED
  BY <1>1, <1>3

-----------------------------------------------------------------------------
(* The index is kept *)

\* What is written to a node makes its index no longer clean.
LEMMA GraphStepIndex ==
    ASSUME TypeOK, ShapeInv, IndexInv, GraphStep, VectorJobsKeep
    PROVE  IndexInv'
<1>1. UNCHANGED <<vector, entry>>
      /\ \A n \in Nodes : index'[n] = (IF node'[n] = node[n] \/ index[n] = "mixed"
                                       THEN index[n] ELSE "changed")
  BY DEF GraphStep
<1>2. \A v \in Workers : Vectorizing(v)' => Vectorizing(v) /\ job'[v] = job[v]
  BY DEF VectorJobsKeep, Vectorizing
<1>3. \A v \in Workers : Vectorizing(v) => Vectorizing(v)' /\ job'[v] = job[v]
  BY DEF VectorJobsKeep, Vectorizing
<1>4. \A n \in Nodes : /\ index'[n] = "clean" => index[n] = "clean" /\ node'[n] = node[n]
                       /\ index'[n] = "mixed" <=> index[n] = "mixed"
  BY <1>1
<1>5. \A v \in Workers : Vectorizing(v) =>
         job[v] \in VectorJob /\ TargetsOf(job[v]) /\ CopyOf(job[v]) /\ Shaped(job[v])
  BY JobKinds DEF IndexInv, TargetsInv, CopyInv, ShapeInv
<1>6. TargetsInv'
  <2> SUFFICES ASSUME NEW v \in Workers, Vectorizing(v)'
               PROVE  TargetsOf(job[v])'
    BY DEF TargetsInv
  <2> QED
    BY <1>2, <1>5 DEF TargetsOf, Indexable
<1>7. AloneInv'
  <2> SUFFICES ASSUME NEW v \in Workers, Vectorizing(v)'
               PROVE  /\ \A u \in Workers \ {v} : Vectorizing(u)' =>
                                job'[v].alone \cap job'[u].targets = {}
                      /\ \A n \in job'[v].targets \ job'[v].alone : index'[n] = "mixed"
    BY DEF AloneInv
  <2>1. job[v].targets \subseteq Nodes
    BY <1>2, <1>5 DEF VectorJob
  <2> QED
    BY <1>2, <1>4, <2>1 DEF IndexInv, AloneInv
<1>8. CopyInv'
  <2> SUFFICES ASSUME NEW v \in Workers, Vectorizing(v)'
               PROVE  CopyOf(job[v])'
    BY DEF CopyInv
  <2> DEFINE j == job[v]
  <2>1. j \in VectorJob /\ CopyOf(j) /\ job'[v] = j /\ Shaped(j) /\ j.kind = "vectorize"
    BY <1>2, <1>5 DEF Vectorizing
  <2> HIDE DEF j
  <2>2. j.step \in {"record", "delete", "mark"} => Head(j.left) \in Nodes
    BY <2>1 DEF VectorJob, Shaped
  <2>3. \A i \in DOMAIN j.documents : j.documents[i].target \in Nodes
    <3>1. j.documents \in Seq([target : Nodes, copy : NodeT])
      BY <2>1 DEF VectorJob
    <3>2. \A i \in DOMAIN j.documents : j.documents[i] \in [target : Nodes, copy : NodeT]
      BY <3>1, ElementsOfSeq
    <3> QED
      BY <3>2
  <2> QED
    BY <1>1, <1>4, <2>1, <2>2, <2>3 DEF CopyOf
<1>9. PairInv'
  <2> SUFFICES ASSUME NEW n \in Nodes, index'[n] # "mixed", ~Described(n)'
               PROVE  \E w \in Workers : Between(w, n)'
    BY DEF PairInv
  <2>1. PICK w \in Workers : Between(w, n)
    BY <1>1, <1>4 DEF IndexInv, PairInv, Described
  <2>2. Between(w, n)'
    BY <1>3, <2>1 DEF Between
  <2> QED
    BY <2>2
<1>10. IndexFollowsGraph'
  BY <1>1, <1>4 DEF IndexInv, IndexFollowsGraph, InSync, Indexable
<1> QED
  BY <1>6, <1>7, <1>8, <1>9, <1>10 DEF IndexInv

\* One step of a vectorization, given what it relies on afterwards.
LEMMA OneVector ==
    ASSUME TypeOK, ShapeInv, IndexInv, NEW w \in Workers, Vectorizing(w), OthersKeep(w),
           UNCHANGED node,
           \/ job'[w] = NoJob
           \/ /\ job'[w].targets = job[w].targets /\ job'[w].alone = job[w].alone
              /\ TargetsOf(job[w])' /\ CopyOf(job[w])',
           \A m \in Nodes : index'[m] # index[m] => index'[m] = "mixed" \/ m \in job[w].alone,
           \A m \in Nodes : vector'[m] # vector[m] => m \in job[w].targets,
           PairInv', IndexFollowsGraph'
    PROVE  IndexInv'
<1>1. \A v \in Workers \ {w} : job'[v] = job[v] /\ (Vectorizing(v)' <=> Vectorizing(v))
  BY DEF OthersKeep, Vectorizing
<1>2. \A v \in Workers : Vectorizing(v) =>
         /\ job[v] \in VectorJob /\ TargetsOf(job[v]) /\ CopyOf(job[v]) /\ Shaped(job[v])
         /\ job[v].kind = "vectorize"
  BY JobKinds DEF IndexInv, TargetsInv, CopyInv, ShapeInv, Vectorizing
<1>3. ~Vectorizing(w)' \/ /\ job'[w].targets = job[w].targets /\ job'[w].alone = job[w].alone
                          /\ TargetsOf(job[w])' /\ CopyOf(job[w])'
  BY KindsOfJobs DEF Vectorizing
<1>4. \A v \in Workers \ {w} : Vectorizing(v) =>
          /\ job[v].alone \cap job[w].targets = {} /\ job[w].alone \cap job[v].targets = {}
  BY DEF IndexInv, AloneInv
<1>5. TargetsInv'
  <2> SUFFICES ASSUME NEW v \in Workers, Vectorizing(v)'
               PROVE  TargetsOf(job[v])'
    BY DEF TargetsInv
  <2>1. CASE v = w
    BY <1>3, <2>1
  <2>2. CASE v # w
    <3>1. job'[v] = job[v] /\ TargetsOf(job[v])
      BY <1>1, <1>2, <2>2
    <3> QED
      BY <3>1 DEF TargetsOf, Indexable
  <2> QED
    BY <2>1, <2>2
<1>6. AloneInv'
  <2>1. \A v \in Workers : Vectorizing(v)' =>
            /\ Vectorizing(v) /\ job'[v].targets = job[v].targets /\ job'[v].alone = job[v].alone
    BY <1>1, <1>3
  <2> SUFFICES ASSUME NEW v \in Workers, Vectorizing(v)'
               PROVE  /\ \A u \in Workers \ {v} : Vectorizing(u)' =>
                                job'[v].alone \cap job'[u].targets = {}
                      /\ \A n \in job'[v].targets \ job'[v].alone : index'[n] = "mixed"
    BY DEF AloneInv
  <2>2. job[v].targets \subseteq Nodes
    BY <1>2, <2>1 DEF VectorJob
  <2>3. \A n \in job[v].targets \ job[v].alone : index[n] = "mixed" /\ n \notin job[w].alone
    BY <1>4, <2>1 DEF IndexInv, AloneInv
  <2> QED
    BY <2>1, <2>2, <2>3 DEF IndexInv, AloneInv
<1>7. CopyInv'
  <2> SUFFICES ASSUME NEW v \in Workers, Vectorizing(v)'
               PROVE  CopyOf(job[v])'
    BY DEF CopyInv
  <2>1. CASE v = w
    BY <1>3, <2>1
  <2>2. CASE v # w
    <3> DEFINE j == job[v]
    <3>1. /\ j \in VectorJob /\ TargetsOf(j) /\ CopyOf(j) /\ job'[v] = j /\ Shaped(j)
          /\ j.kind = "vectorize"
          /\ j.alone \cap job[w].targets = {} /\ job[w].alone \cap j.targets = {}
      BY <1>1, <1>2, <1>4, <2>2
    <3> HIDE DEF j
    <3>2. j.step \in {"record", "delete", "mark"} =>
              Head(j.left) \in Nodes /\ Head(j.left) \in j.targets
      <4>1. j.left \in Seq(Nodes) /\ ToSet(j.left) \subseteq j.targets
        BY <3>1 DEF VectorJob, TargetsOf
      <4>2. j.step \in {"record", "delete", "mark"} => j.left # <<>>
        BY <3>1 DEF Shaped
      <4> QED
        BY <4>1, <4>2, ToSetOfTail
    <3>3. \A i \in DOMAIN j.documents :
              j.documents[i].target \in Nodes /\ j.documents[i].target \in j.targets
      BY <3>1 DEF VectorJob, TargetsOf
    <3>4. j.alone \subseteq Nodes
      BY <3>1 DEF VectorJob
    <3>5. \A m \in j.targets \cap Nodes : index'[m] = "clean" => index[m] = "clean"
      BY <3>1
    <3>6. \A m \in j.alone : vector'[m] = vector[m]
      BY <3>1, <3>4
    <3> QED
      BY <3>1, <3>2, <3>3, <3>5, <3>6 DEF CopyOf
  <2> QED
    BY <2>1, <2>2
<1> QED
  BY <1>5, <1>6, <1>7 DEF IndexInv

\* What a vectorization knows of the target it has in hand.
LEMMA TargetFacts ==
    ASSUME TypeOK, ShapeInv, IndexInv, NEW w \in Workers, Vectorizing(w)
    PROVE  LET j == job[w] IN
           /\ j \in VectorJob /\ TargetsOf(j) /\ CopyOf(j) /\ Shaped(j) /\ j.kind = "vectorize"
           /\ j.targets \subseteq Nodes
           /\ \A n \in j.targets : n \notin j.alone => index[n] = "mixed"
           /\ \A v \in Workers \ {w}, n \in j.targets : ~Between(v, n)
           /\ j.left # <<>> => Head(j.left) \in j.targets
           /\ j.documents # <<>> =>
                 /\ Head(j.documents).target \in j.targets
                 /\ Head(j.documents).copy \in NodeT
                 /\ Indexable(Head(j.documents).copy)
                 /\ index[Head(j.documents).target] # "clean"
<1> DEFINE j == job[w]
<1>1. j \in VectorJob /\ TargetsOf(j) /\ CopyOf(j) /\ Shaped(j) /\ j.kind = "vectorize"
  BY JobKinds DEF IndexInv, TargetsInv, CopyInv, ShapeInv, Vectorizing
<1>2. j.targets \subseteq Nodes
  BY <1>1 DEF VectorJob
<1>3. \A n \in j.targets : n \notin j.alone => index[n] = "mixed"
  BY DEF IndexInv, AloneInv
<1>4. \A v \in Workers \ {w}, n \in j.targets : ~Between(v, n)
  BY DEF IndexInv, AloneInv, Between
<1> HIDE DEF j
<1>5. j.left # <<>> => Head(j.left) \in j.targets
  <2>1. j.left \in Seq(Nodes) /\ ToSet(j.left) \subseteq j.targets
    BY <1>1 DEF VectorJob, TargetsOf
  <2> QED
    BY <2>1, ToSetOfTail
<1>6. j.documents # <<>> =>
         /\ Head(j.documents).target \in j.targets
         /\ Head(j.documents).copy \in NodeT
         /\ Indexable(Head(j.documents).copy)
         /\ index[Head(j.documents).target] # "clean"
  <2>1. j.documents \in Seq([target : Nodes, copy : NodeT])
    BY <1>1 DEF VectorJob
  <2>2. j.documents # <<>> => 1 \in DOMAIN j.documents /\ Head(j.documents) = j.documents[1]
    BY <2>1
  <2>3. j.documents # <<>> => Head(j.documents) \in [target : Nodes, copy : NodeT]
    <3> DEFINE D == [target : Nodes, copy : NodeT]
               ds == j.documents
    <3>1. ds \in Seq(D)
      BY <2>1
    <3> HIDE DEF D, ds
    <3>2. ds # <<>> => Head(ds) \in D
      BY <3>1
    <3> QED
      BY <3>2 DEF D, ds
  <2> QED
    BY <1>1, <2>2, <2>3 DEF TargetsOf, CopyOf
<1> QED
  BY <1>1, <1>2, <1>3, <1>4, <1>5, <1>6 DEF j

\* From one target to the next, or to the documents, or to the end.
LEMMA NextTargetFacts ==
    ASSUME NEW j \in VectorJob, j.left # <<>>
    PROVE  LET k == NextTarget(j) IN
           /\ k \in AnyJob /\ Shaped(k)
           /\ \/ k = NoJob /\ j.documents = <<>>
              \/ /\ k \in VectorJob /\ k.step \in {"node", "vector"}
                 /\ k.targets = j.targets /\ k.alone = j.alone /\ k.documents = j.documents
                 /\ k.left \in {Tail(j.left), <<>>}
<1>1. j.left \in Seq(Nodes) /\ j.documents \in Seq([target : Nodes, copy : NodeT])
  BY DEF VectorJob
<1>2. Tail(j.left) \in Seq(Nodes) /\ (Len(j.left) > 1 => Tail(j.left) # <<>>)
  BY <1>1, ToSetOfTail
<1>3. CASE Len(j.left) > 1
  <2> DEFINE k == [j EXCEPT !.step = "node", !.left = Tail(j.left), !.copy = None]
  <2>1. NextTarget(j) = k
    BY <1>3 DEF NextTarget, VectorJob
  <2>2. k \in VectorJob /\ k.step = "node" /\ k.targets = j.targets /\ k.alone = j.alone
        /\ k.documents = j.documents /\ k.left = Tail(j.left) /\ k.kind = "vectorize"
    BY <1>2 DEF VectorJob
  <2> HIDE DEF k
  <2>3. Shaped(k)
    BY <1>2, <1>3, <2>2 DEF Shaped
  <2> QED
    BY <2>1, <2>2, <2>3 DEF AnyJob
<1>4. CASE ~(Len(j.left) > 1) /\ j.documents # <<>>
  <2> DEFINE k == [j EXCEPT !.step = "vector", !.left = <<>>, !.copy = None]
  <2>1. NextTarget(j) = k
    BY <1>4 DEF NextTarget
  <2>2. k \in VectorJob /\ k.step = "vector" /\ k.targets = j.targets /\ k.alone = j.alone
        /\ k.documents = j.documents /\ k.left = <<>> /\ k.kind = "vectorize"
    <3>1. <<>> \in Seq(Nodes)
      OBVIOUS
    <3> QED
      BY <3>1 DEF VectorJob
  <2> HIDE DEF k
  <2>3. Shaped(k)
    BY <1>4, <2>2 DEF Shaped
  <2> QED
    BY <2>1, <2>2, <2>3 DEF AnyJob
<1>5. CASE ~(Len(j.left) > 1) /\ j.documents = <<>>
  <2>1. NextTarget(j) = NoJob
    BY <1>5 DEF NextTarget
  <2> QED
    BY <1>5, <2>1, NoJobShape
<1> QED
  BY <1>3, <1>4, <1>5

LEMMA ReadTargetFacts ==
    ASSUME TypeOK, ShapeInv, IndexInv, NEW w \in Workers, ReadTarget(w)
    PROVE  JobType /\ OthersKeep(w) /\ Vectorizing(w) /\ job'[w].kind = "vectorize" /\ IndexInv'
<1> DEFINE j == job[w]
           h == Head(j.left)
           k == [j EXCEPT !.copy = node[h],
                          !.step = IF Indexable(node[h]) THEN "record" ELSE "delete"]
<1>1. Vectorizing(w) /\ j.step = "node" /\ Go(w, k)
      /\ UNCHANGED <<node, vector, entry, index>>
  BY DEF ReadTarget, InVectorize, Vectorizing, graphVars
<1>2. j \in VectorJob /\ TargetsOf(j) /\ CopyOf(j) /\ Shaped(j) /\ j.kind = "vectorize"
      /\ j.targets \subseteq Nodes /\ (j.left # <<>> => h \in j.targets)
  BY <1>1, TargetFacts
<1>3. j.left # <<>>
  BY <1>1, <1>2 DEF Shaped
<1>4. h \in Nodes /\ node[h] \in NodeT
  BY <1>2, <1>3 DEF TypeOK
<1> HIDE DEF j, h
<1>5. /\ k \in VectorJob /\ k.left = j.left /\ k.documents = j.documents /\ k.targets = j.targets
      /\ k.alone = j.alone /\ k.copy = node[h] /\ k.kind = "vectorize"
      /\ k.step = (IF Indexable(node[h]) THEN "record" ELSE "delete")
  BY <1>2, <1>4 DEF VectorJob
<1> HIDE DEF k
<1>6. k \in AnyJob /\ Shaped(k)
  BY <1>3, <1>4, <1>5 DEF AnyJob, Shaped
<1>7. JobType /\ job'[w] = k /\ OthersKeep(w)
  BY <1>1, <1>6, GoType DEF JobType, OthersKeep
<1>8. TargetsOf(job[w])'
  BY <1>2, <1>5, <1>7 DEF TargetsOf, Indexable
<1>9. CopyOf(job[w])'
  BY <1>1, <1>2, <1>5, <1>7 DEF CopyOf, h
<1>10. PairInv'
  <2> SUFFICES ASSUME NEW n \in Nodes, index'[n] # "mixed", ~Described(n)'
               PROVE  \E u \in Workers : Between(u, n)'
    BY DEF PairInv
  <2>1. PICK u \in Workers : Between(u, n)
    BY <1>1 DEF IndexInv, PairInv, Described
  <2>2. u # w
    BY <1>1, <2>1 DEF Between, j
  <2>3. Between(u, n)'
    BY <1>7, <2>1, <2>2 DEF Between, OthersKeep, Vectorizing
  <2> QED
    BY <2>3
<1>11. IndexFollowsGraph'
  BY <1>1 DEF IndexInv, IndexFollowsGraph, InSync
<1> QED
  BY <1>1, <1>5, <1>7, <1>8, <1>9, <1>10, <1>11, OneVector DEF j

\* A job that is between two writes goes on when another worker takes a step.
LEMMA PairOthers ==
    ASSUME TypeOK, PairInv, NEW w \in Workers, OthersKeep(w), NEW n \in Nodes, ~Between(w, n),
           index[n] # "mixed", vector'[n] = vector[n], entry'[n] = entry[n]
    PROVE  Described(n)' \/ \E u \in Workers : Between(u, n)'
<1> SUFFICES ASSUME ~Described(n)'
             PROVE  \E u \in Workers : Between(u, n)'
  OBVIOUS
<1>1. PICK u \in Workers : Between(u, n)
  BY DEF PairInv, Described
<1>2. Between(u, n)'
  BY <1>1 DEF Between, OthersKeep, Vectorizing
<1> QED
  BY <1>2

LEMMA InjectiveTail ==
    ASSUME NEW l \in Seq(Nodes), l # <<>>, IsInjective(l)
    PROVE  /\ ToSet(Tail(l)) \subseteq ToSet(l)
           /\ Head(l) \notin ToSet(Tail(l)) /\ IsInjective(Tail(l))
<1>1. \A i, k \in DOMAIN l : l[i] = l[k] => i = k
  BY DEF IsInjective
<1>2. /\ Tail(l) \in Seq(Nodes) /\ Len(Tail(l)) = Len(l) - 1 /\ Len(l) \in Nat /\ Len(l) >= 1
      /\ \A i \in 1 .. Len(l) - 1 : Tail(l)[i] = l[i + 1] /\ i + 1 \in DOMAIN l
      /\ DOMAIN Tail(l) = 1 .. Len(l) - 1 /\ Head(l) = l[1] /\ 1 \in DOMAIN l
  OBVIOUS
<1>3. IsInjective(Tail(l))
  <2> SUFFICES ASSUME NEW i \in 1 .. Len(l) - 1, NEW k \in 1 .. Len(l) - 1, Tail(l)[i] = Tail(l)[k]
               PROVE  i = k
    BY <1>2 DEF IsInjective
  <2>1. i + 1 = k + 1
    BY <1>1, <1>2
  <2> QED
    BY <1>2, <2>1
<1>4. Head(l) \notin ToSet(Tail(l))
  <2> SUFFICES ASSUME NEW i \in 1 .. Len(l) - 1, Tail(l)[i] = Head(l)
               PROVE  FALSE
    BY <1>2 DEF ToSet
  <2>1. i + 1 = 1
    BY <1>1, <1>2
  <2> QED
    BY <1>2, <2>1
<1>5. ToSet(Tail(l)) \subseteq ToSet(l)
  BY <1>1, <1>2 DEF ToSet
<1> QED
  BY <1>3, <1>4, <1>5

LEMMA NextTargetTargets ==
    ASSUME NEW j \in VectorJob, j.left # <<>>, TargetsOf(j)
    PROVE  LET k == NextTarget(j) IN
           k # NoJob =>
             /\ k.step \in {"node", "vector"} /\ k.targets = j.targets /\ k.alone = j.alone
             /\ ToSet(k.left) \subseteq ToSet(j.left) /\ Head(j.left) \notin ToSet(k.left)
             /\ IsInjective(k.left) /\ k.documents = j.documents
<1>1. /\ j.left \in Seq(Nodes) /\ IsInjective(j.left)
  BY DEF VectorJob, TargetsOf
<1>2. /\ ToSet(Tail(j.left)) \subseteq ToSet(j.left)
      /\ Head(j.left) \notin ToSet(Tail(j.left)) /\ IsInjective(Tail(j.left))
  BY <1>1, InjectiveTail
<1>3. ToSet(<<>>) = {} /\ IsInjective(<<>>)
  BY DEF ToSet, IsInjective
<1> QED
  BY <1>2, <1>3, NextTargetFacts

\* A target that is recorded as it is needs no document, and one that is not
\* recorded so is not known to be right.
LEMMA CompareRecordFacts ==
    ASSUME TypeOK, ShapeInv, IndexInv, NEW w \in Workers, CompareRecord(w)
    PROVE  /\ JobType /\ OthersKeep(w) /\ Vectorizing(w)
           /\ job'[w].kind \in {"vectorize", "none"} /\ IndexType' /\ IndexInv'
<1> DEFINE j == job[w]
           n == Head(j.left)
           d == [target |-> n, copy |-> j.copy]
           more == [j EXCEPT !.documents = Append(j.documents, d)]
<1>1. Vectorizing(w) /\ j.step = "record" /\ UNCHANGED <<node, vector, entry>>
      /\ \/ /\ Unchanged(entry[n], j.copy) /\ Go(w, NextTarget(j))
            /\ index' = IF index[n] = "mixed" THEN index ELSE Known(w, n, j.copy)
         \/ /\ ~Unchanged(entry[n], j.copy) /\ Go(w, NextTarget(more)) /\ UNCHANGED index
  BY DEF CompareRecord, InVectorize, Vectorizing, graphVars, VectorJob
<1>2. /\ j \in VectorJob /\ TargetsOf(j) /\ CopyOf(j) /\ Shaped(j) /\ j.kind = "vectorize"
      /\ j.targets \subseteq Nodes
      /\ \A m \in j.targets : m \notin j.alone => index[m] = "mixed"
      /\ \A v \in Workers \ {w}, m \in j.targets : ~Between(v, m)
      /\ (j.left # <<>> => n \in j.targets)
  BY <1>1, TargetFacts
<1>3. j.left # <<>> /\ j.copy \in NodeT /\ Indexable(j.copy) /\ n \in ToSet(j.left) /\ n \in Nodes
  <2>1. j.left # <<>> /\ j.copy \in NodeT
    BY <1>1, <1>2 DEF Shaped
  <2>2. j.left \in Seq(Nodes)
    BY <1>2 DEF VectorJob
  <2> QED
    BY <1>1, <1>2, <2>1, <2>2, ToSetOfTail DEF TargetsOf
<1>4. \A m \in Nodes : ~Between(w, m)
  BY <1>1 DEF Between
<1>5. index[n] = "clean" => j.copy = node[n]
  BY <1>1, <1>2 DEF CopyOf
<1> HIDE DEF j, n
<1>6. CASE Unchanged(entry[n], j.copy) /\ Go(w, NextTarget(j))
           /\ index' = (IF index[n] = "mixed" THEN index ELSE Known(w, n, j.copy))
  <2>1. /\ NextTarget(j) \in AnyJob /\ Shaped(NextTarget(j))
        /\ NextTarget(j) # NoJob =>
              /\ NextTarget(j).step \in {"node", "vector"} /\ NextTarget(j).targets = j.targets
              /\ NextTarget(j).alone = j.alone
              /\ ToSet(NextTarget(j).left) \subseteq ToSet(j.left)
              /\ n \notin ToSet(NextTarget(j).left)
              /\ IsInjective(NextTarget(j).left) /\ NextTarget(j).documents = j.documents
        /\ NextTarget(j).kind \in {"vectorize", "none"}
    BY <1>2, <1>3, NextTargetFacts, NextTargetTargets, KindsOfJobs DEF n
  <2>2. JobType /\ job'[w] = NextTarget(j) /\ OthersKeep(w)
    BY <1>6, <2>1, GoType DEF JobType, OthersKeep
  <2>3. /\ \A m \in Nodes \ {n} : index'[m] = index[m]
        /\ index'[n] # index[n] => n \in j.alone
        /\ index'[n] = "mixed" <=> index[n] = "mixed"
        /\ index'[n] = "clean" => node[n] = j.copy
        /\ IndexType'
    BY <1>1, <1>2, <1>3, <1>5, <1>6 DEF TypeOK, IndexType, Known, j
  <2>4. job'[w] = NoJob \/ TargetsOf(job[w])'
    BY <1>2, <2>1, <2>2 DEF TargetsOf, Indexable
  <2>5. job'[w] = NoJob \/ CopyOf(job[w])'
    <3>1. \A i \in DOMAIN j.documents :
              /\ j.documents[i].target # n /\ j.documents[i].target \in Nodes
              /\ index[j.documents[i].target] # "clean"
      BY <1>2, <1>3 DEF TargetsOf, CopyOf
    <3> QED
      BY <2>1, <2>2, <2>3, <3>1 DEF CopyOf
  <2>6. PairInv'
    <3> SUFFICES ASSUME NEW m \in Nodes, index'[m] # "mixed"
                 PROVE  Described(m)' \/ \E u \in Workers : Between(u, m)'
      BY DEF PairInv
    <3> QED
      BY <1>1, <1>4, <2>2, <2>3, PairOthers DEF IndexInv
  <2>7. IndexFollowsGraph'
    <3>1. \A m \in Nodes \ {n} : index'[m] = "clean" => InSync(m)'
      BY <1>1, <2>3 DEF IndexInv, IndexFollowsGraph, InSync
    <3>2. ASSUME NEW m \in Nodes, m = n, index'[m] = "clean"
          PROVE  InSync(m)'
      <4>1. index[n] # "mixed" /\ node[n] = j.copy
        BY <2>3, <3>2
      <4>2. Described(n)
        BY <1>2, <1>3, <1>4, <4>1 DEF IndexInv, PairInv
      <4>3. entry[n] # None /\ entry[n].text = j.copy.text /\ entry[n].lifecycle = j.copy.lifecycle
        BY <1>6 DEF Unchanged
      <4>4. entry[n] = [text |-> entry[n].text, lifecycle |-> entry[n].lifecycle]
        BY <1>3, <4>3 DEF TypeOK, EntryT
      <4>5. node[n].lifecycle = "active" /\ Indexable(node[n])
        BY <1>3, <4>1 DEF Indexable
      <4>6. vector[n] = node[n].text
        BY <4>1, <4>2, <4>3, <4>5 DEF Described
      <4>7. entry[n] = [text |-> node[n].text, lifecycle |-> node[n].lifecycle]
        BY <4>1, <4>3, <4>4
      <4> QED
        BY <1>1, <3>2, <4>5, <4>6, <4>7 DEF InSync, Indexable
    <3> HIDE DEF InSync
    <3>3. \A m \in Nodes : index'[m] = "clean" => InSync(m)'
      BY <3>1, <3>2
    <3> QED
      BY <3>3 DEF IndexFollowsGraph
  <2>8. /\ \A m \in Nodes : index'[m] # index[m] => index'[m] = "mixed" \/ m \in job[w].alone
        /\ \A m \in Nodes : vector'[m] # vector[m] => m \in job[w].targets
    BY <1>1, <2>3 DEF j
  <2>9. IndexInv'
    BY <1>1, <2>1, <2>2, <2>4, <2>5, <2>6, <2>7, <2>8, OneVector DEF j
  <2> QED
    BY <1>1, <2>1, <2>2, <2>3, <2>9
<1>7. CASE ~Unchanged(entry[n], j.copy) /\ Go(w, NextTarget(more)) /\ UNCHANGED index
  <2>1. index[n] # "clean"
    <3> SUFFICES ASSUME index[n] = "clean"
                 PROVE  FALSE
      OBVIOUS
    <3>1. node[n] = j.copy /\ InSync(n)
      BY <1>3, <1>5 DEF IndexInv, IndexFollowsGraph
    <3>2. entry[n] = [text |-> j.copy.text, lifecycle |-> j.copy.lifecycle]
      BY <1>3, <3>1 DEF InSync
    <3>3. entry[n] \in [text : Texts, lifecycle : Lifecycles]
      BY <1>3, <3>2 DEF NodeT
    <3>4. entry[n] # None
      BY <3>3, GraphAssumption
    <3> QED
      BY <1>7, <3>2, <3>4 DEF Unchanged
  <2>2. d \in [target : Nodes, copy : NodeT] /\ d.target = n /\ d.copy = j.copy
    BY <1>3
  <2>3. j.documents \in Seq([target : Nodes, copy : NodeT])
    BY <1>2 DEF VectorJob
  <2> DEFINE ds == Append(j.documents, d)
  <2> HIDE DEF d
  <2>4. /\ ds \in Seq([target : Nodes, copy : NodeT]) /\ ds # <<>>
        /\ \A i \in DOMAIN ds : \/ i \in DOMAIN j.documents /\ ds[i] = j.documents[i]
                                \/ i = Len(j.documents) + 1 /\ ds[i] = d
    BY <2>2, <2>3
  <2> HIDE DEF ds
  <2>5. /\ more \in VectorJob /\ more.left = j.left /\ more.targets = j.targets
        /\ more.alone = j.alone /\ more.documents = ds /\ more.step = j.step /\ more.copy = j.copy
        /\ more.kind = "vectorize"
    <3>1. more = [j EXCEPT !.documents = ds]
      BY DEF ds
    <3> HIDE DEF more
    <3> QED
      BY <1>2, <2>4, <3>1 DEF VectorJob
  <2> HIDE DEF more
  <2> DEFINE k == NextTarget(more)
  <2>6. /\ k \in AnyJob /\ Shaped(k) /\ k # NoJob /\ k \in VectorJob
        /\ k.step \in {"node", "vector"} /\ k.targets = j.targets
        /\ k.alone = j.alone /\ k.documents = ds /\ k.left \in {Tail(j.left), <<>>}
    BY <1>3, <2>4, <2>5, NextTargetFacts, KindsOfJobs
  <2>7. JobType /\ job'[w] = k /\ OthersKeep(w)
    BY <1>7, <2>6, GoType DEF JobType, OthersKeep
  <2>8. /\ ToSet(k.left) \subseteq ToSet(j.left) /\ n \notin ToSet(k.left) /\ IsInjective(k.left)
    <3>1. /\ ToSet(Tail(j.left)) \subseteq ToSet(j.left) /\ n \notin ToSet(Tail(j.left))
          /\ IsInjective(Tail(j.left))
      BY <1>2, <1>3, InjectiveTail DEF VectorJob, TargetsOf, n
    <3>2. ToSet(<<>>) = {} /\ IsInjective(<<>>)
      BY DEF ToSet, IsInjective
    <3> QED
      BY <2>6, <3>1, <3>2
  <2> HIDE DEF k
  <2>9. TargetsOf(job[w])'
    <3>1. \A i \in DOMAIN ds :
             /\ ds[i].target \in j.targets \ ToSet(k.left) /\ Indexable(ds[i].copy)
             /\ ds[i].target = n => i = Len(j.documents) + 1
      BY <1>2, <1>3, <2>2, <2>4, <2>8 DEF TargetsOf
    <3>2. \A i, m \in DOMAIN ds : ds[i].target = ds[m].target => i = m
      <4> SUFFICES ASSUME NEW i \in DOMAIN ds, NEW m \in DOMAIN ds, ds[i].target = ds[m].target
                   PROVE  i = m
        OBVIOUS
      <4>1. CASE ds[i].target = n
        BY <3>1, <4>1
      <4>2. CASE ds[i].target # n
        BY <1>2, <2>2, <2>4, <4>2 DEF TargetsOf
      <4> QED
        BY <4>1, <4>2
    <3> QED
      BY <1>2, <2>6, <2>7, <2>8, <3>1, <3>2 DEF TargetsOf, Indexable
  <2>10. CopyOf(job[w])'
    BY <1>1, <1>2, <1>7, <2>1, <2>2, <2>4, <2>6, <2>7 DEF CopyOf
  <2>11. PairInv'
    <3> SUFFICES ASSUME NEW m \in Nodes, index'[m] # "mixed"
                 PROVE  Described(m)' \/ \E u \in Workers : Between(u, m)'
      BY DEF PairInv
    <3> QED
      BY <1>1, <1>4, <1>7, <2>7, PairOthers DEF IndexInv
  <2>12. IndexFollowsGraph'
    BY <1>1, <1>7 DEF IndexInv, IndexFollowsGraph, InSync
  <2>13. IndexInv'
    BY <1>1, <1>7, <2>6, <2>7, <2>9, <2>10, <2>11, <2>12, OneVector DEF j
  <2>14. IndexType' /\ job'[w].kind = "vectorize"
    BY <1>1, <1>7, <2>6, <2>7, KindsOfJobs DEF TypeOK, IndexType
  <2> QED
    BY <1>1, <2>7, <2>13, <2>14
<1> QED
  BY <1>1, <1>6, <1>7

\* Where PairInv may fail for one node only.
LEMMA PairButOne ==
    ASSUME TypeOK, PairInv, NEW w \in Workers, OthersKeep(w), NEW n \in Nodes,
           \A m \in Nodes \ {n} : ~Between(w, m) /\ vector'[m] = vector[m] /\ entry'[m] = entry[m],
           \A m \in Nodes \ {n} : index'[m] # "mixed" => index[m] # "mixed",
           index'[n] # "mixed" => Described(n)' \/ \E u \in Workers : Between(u, n)'
    PROVE  PairInv'
<1> SUFFICES ASSUME NEW m \in Nodes, index'[m] # "mixed"
             PROVE  Described(m)' \/ \E u \in Workers : Between(u, m)'
  BY DEF PairInv
<1>1. CASE m = n
  BY <1>1
<1>2. CASE m # n
  BY <1>2, PairOthers
<1> QED
  BY <1>1, <1>2

LEMMA DeleteVectorFacts ==
    ASSUME TypeOK, ShapeInv, IndexInv, NEW w \in Workers, DeleteVector(w)
    PROVE  /\ JobType /\ OthersKeep(w) /\ Vectorizing(w)
           /\ job'[w].kind \in {"vectorize", "none"} /\ IndexType' /\ IndexInv'
<1> DEFINE j == job[w]
           h == Head(j.left)
           k == [j EXCEPT !.step = "mark"]
<1>1. Vectorizing(w) /\ j.step = "delete" /\ Go(w, k) /\ UNCHANGED <<node, entry, index>>
      /\ vector' \in {vector, [vector EXCEPT ![h] = None]}
  BY DEF DeleteVector, InVectorize, Vectorizing, graphVars
<1>2. /\ j \in VectorJob /\ TargetsOf(j) /\ CopyOf(j) /\ Shaped(j) /\ j.kind = "vectorize"
      /\ j.targets \subseteq Nodes
      /\ \A m \in j.targets : m \notin j.alone => index[m] = "mixed"
      /\ (j.left # <<>> => h \in j.targets)
  BY <1>1, TargetFacts
<1>3. j.left # <<>> /\ j.copy \in NodeT /\ h \in j.targets /\ h \in Nodes
  BY <1>1, <1>2 DEF Shaped
<1>4. \A m \in Nodes : ~Between(w, m)
  BY <1>1 DEF Between
<1>5. ~Indexable(j.copy) /\ (index[h] = "clean" => j.copy = node[h])
  BY <1>1, <1>2 DEF CopyOf, TargetsOf
<1> HIDE DEF j, h
<1>6. /\ k \in VectorJob /\ k.left = j.left /\ k.documents = j.documents /\ k.targets = j.targets
      /\ k.alone = j.alone /\ k.copy = j.copy /\ k.kind = "vectorize" /\ k.step = "mark"
  BY <1>2 DEF VectorJob
<1> HIDE DEF k
<1>7. k \in AnyJob /\ Shaped(k)
  BY <1>3, <1>6 DEF AnyJob, Shaped
<1>8. JobType /\ job'[w] = k /\ OthersKeep(w)
  BY <1>1, <1>7, GoType DEF JobType, OthersKeep
<1>9. TargetsOf(job[w])'
  BY <1>2, <1>5, <1>6, <1>8 DEF TargetsOf, Indexable
<1>10. CopyOf(job[w])'
  BY <1>1, <1>2, <1>5, <1>6, <1>8 DEF CopyOf, h
<1>11. /\ vector' \in [Nodes -> Texts \cup {None}]
       /\ \A m \in Nodes \ {h} : vector'[m] = vector[m]
  BY <1>1, <1>3 DEF TypeOK
<1>12. PairInv'
  <2>1. \A m \in Nodes : m = h /\ index'[m] # "mixed" => Between(w, m)'
    BY <1>1, <1>2, <1>3, <1>6, <1>8 DEF Between, Vectorizing, h
  <2>2. \A m \in Nodes : m = h => (index'[m] # "mixed" =>
            Described(m)' \/ \E u \in Workers : Between(u, m)')
    BY <2>1
  <2> SUFFICES ASSUME NEW n \in Nodes, n = h
               PROVE  PairInv'
    BY <1>3
  <2> QED
    BY <1>1, <1>4, <1>8, <1>11, <2>2, PairButOne DEF IndexInv
<1>13. IndexFollowsGraph'
  <2> SUFFICES ASSUME NEW m \in Nodes, index'[m] = "clean"
               PROVE  InSync(m)'
    BY DEF IndexFollowsGraph
  <2>1. InSync(m)
    BY <1>1 DEF IndexInv, IndexFollowsGraph
  <2>2. CASE m = h
    BY <1>1, <1>5, <2>1, <2>2 DEF InSync, Indexable
  <2>3. CASE m # h
    BY <1>1, <1>11, <2>1, <2>3 DEF InSync, Indexable
  <2> QED
    BY <2>2, <2>3
<1>14. IndexInv'
  BY <1>1, <1>2, <1>3, <1>6, <1>8, <1>9, <1>10, <1>11, <1>12, <1>13, OneVector DEF j
<1> QED
  BY <1>1, <1>6, <1>8, <1>11, <1>14 DEF TypeOK, IndexType

LEMMA MarkArchivedFacts ==
    ASSUME TypeOK, ShapeInv, IndexInv, NEW w \in Workers, MarkArchived(w)
    PROVE  /\ JobType /\ OthersKeep(w) /\ Vectorizing(w)
           /\ job'[w].kind \in {"vectorize", "none"} /\ IndexType' /\ IndexInv'
<1> DEFINE j == job[w]
           h == Head(j.left)
<1>1. Vectorizing(w) /\ j.step = "mark" /\ Go(w, NextTarget(j)) /\ UNCHANGED <<node, vector>>
      /\ entry' = (IF entry[h] = None THEN entry ELSE [entry EXCEPT ![h].lifecycle = "archived"])
      /\ index' = Known(w, h, j.copy)
  BY DEF MarkArchived, InVectorize, Vectorizing, graphVars
<1>2. /\ j \in VectorJob /\ TargetsOf(j) /\ CopyOf(j) /\ Shaped(j) /\ j.kind = "vectorize"
      /\ j.targets \subseteq Nodes
      /\ \A m \in j.targets : m \notin j.alone => index[m] = "mixed"
      /\ (j.left # <<>> => h \in j.targets)
  BY <1>1, TargetFacts
<1>3. j.left # <<>> /\ h \in j.targets /\ h \in Nodes /\ h \in ToSet(j.left)
  <2>1. j.left # <<>>
    BY <1>1, <1>2 DEF Shaped
  <2>2. j.left \in Seq(Nodes)
    BY <1>2 DEF VectorJob
  <2> QED
    BY <1>2, <2>1, <2>2, ToSetOfTail
<1>4. \A m \in Nodes \ {h} : ~Between(w, m)
  BY <1>1 DEF Between
<1>5. ~Indexable(j.copy)
  BY <1>1, <1>2 DEF TargetsOf
<1> HIDE DEF j, h
<1> DEFINE k == NextTarget(j)
<1>6. /\ k \in AnyJob /\ Shaped(k)
      /\ k # NoJob =>
            /\ k.step \in {"node", "vector"} /\ k.targets = j.targets /\ k.alone = j.alone
            /\ ToSet(k.left) \subseteq ToSet(j.left) /\ h \notin ToSet(k.left)
            /\ IsInjective(k.left) /\ k.documents = j.documents
      /\ k.kind \in {"vectorize", "none"}
  BY <1>2, <1>3, NextTargetFacts, NextTargetTargets, KindsOfJobs DEF h
<1>7. JobType /\ job'[w] = k /\ OthersKeep(w)
  BY <1>1, <1>6, GoType DEF JobType, OthersKeep
<1> HIDE DEF k
<1>8. /\ \A m \in Nodes \ {h} : index'[m] = index[m]
      /\ h \notin j.alone => index'[h] = index[h]
      /\ index' \in [Nodes -> {"clean", "changed", "mixed"}]
      /\ index'[h] = "clean" /\ h \in j.alone => node[h] = j.copy
  BY <1>1, <1>3 DEF TypeOK, Known, j
<1>9. /\ entry' \in [Nodes -> EntryT \cup {None}]
      /\ \A m \in Nodes \ {h} : entry'[m] = entry[m]
      /\ entry'[h] = None \/ entry'[h].lifecycle = "archived"
  <2>1. CASE entry[h] = None
    BY <1>1, <2>1 DEF TypeOK
  <2>2. CASE entry[h] # None
    <3>1. entry[h] \in EntryT /\ entry \in [Nodes -> EntryT \cup {None}]
      BY <1>3, <2>2 DEF TypeOK
    <3> DEFINE e == [entry[h] EXCEPT !.lifecycle = "archived"]
    <3>2. e \in EntryT /\ e.lifecycle = "archived"
      BY <3>1 DEF EntryT, Lifecycles
    <3>3. entry' = [entry EXCEPT ![h] = e]
      BY <1>1, <2>2
    <3> HIDE DEF e
    <3> QED
      BY <1>3, <3>1, <3>2, <3>3
  <2> QED
    BY <2>1, <2>2
<1>10. job'[w] = NoJob \/ TargetsOf(job[w])'
  BY <1>2, <1>6, <1>7 DEF TargetsOf, Indexable
<1>11. job'[w] = NoJob \/ CopyOf(job[w])'
  <2>1. \A i \in DOMAIN j.documents :
            /\ j.documents[i].target # h /\ j.documents[i].target \in Nodes
            /\ index[j.documents[i].target] # "clean"
    BY <1>2, <1>3 DEF TargetsOf, CopyOf
  <2> QED
    BY <1>6, <1>7, <1>8, <2>1 DEF CopyOf
<1>12. PairInv'
  <2>1. \A m \in Nodes : m = h => Described(m)'
    BY <1>9 DEF Described
  <2> SUFFICES ASSUME NEW n \in Nodes, n = h
               PROVE  PairInv'
    BY <1>3
  <2> QED
    BY <1>1, <1>4, <1>7, <1>8, <1>9, <2>1, PairButOne DEF IndexInv
<1>13. IndexFollowsGraph'
  <2> SUFFICES ASSUME NEW m \in Nodes, index'[m] = "clean"
               PROVE  InSync(m)'
    BY DEF IndexFollowsGraph
  <2>1. CASE m = h
    <3>1. h \in j.alone
      BY <1>2, <1>3, <1>8, <2>1
    <3> QED
      BY <1>1, <1>5, <1>8, <1>9, <2>1, <3>1 DEF InSync, Indexable
  <2>2. CASE m # h
    <3>1. InSync(m)
      BY <1>8, <2>2 DEF IndexInv, IndexFollowsGraph
    <3> QED
      BY <1>1, <1>9, <2>2, <3>1 DEF InSync, Indexable
  <2> QED
    BY <2>1, <2>2
<1>14. \A m \in Nodes : index'[m] # index[m] => m \in j.alone
  BY <1>8
<1>15. IndexInv'
  BY <1>1, <1>6, <1>7, <1>10, <1>11, <1>12, <1>13, <1>14, OneVector DEF j
<1> QED
  BY <1>1, <1>6, <1>7, <1>8, <1>9, <1>15 DEF TypeOK, IndexType

LEMMA StoreVectorFacts ==
    ASSUME TypeOK, ShapeInv, IndexInv, NEW w \in Workers, StoreVector(w)
    PROVE  /\ JobType /\ OthersKeep(w) /\ Vectorizing(w)
           /\ job'[w].kind \in {"vectorize", "none"} /\ IndexType' /\ IndexInv'
<1> DEFINE j == job[w]
           d == Head(j.documents)
           k == [j EXCEPT !.step = "entry"]
<1>1. Vectorizing(w) /\ j.step = "vector" /\ Go(w, k) /\ UNCHANGED <<node, entry, index>>
      /\ vector' = [vector EXCEPT ![d.target] = d.copy.text]
  BY DEF StoreVector, InVectorize, Vectorizing, graphVars, Embedded
<1>2. /\ j \in VectorJob /\ TargetsOf(j) /\ CopyOf(j) /\ Shaped(j) /\ j.kind = "vectorize"
      /\ j.targets \subseteq Nodes
      /\ \A m \in j.targets : m \notin j.alone => index[m] = "mixed"
      /\ j.documents # <<>> =>
            /\ d.target \in j.targets /\ d.copy \in NodeT /\ Indexable(d.copy)
            /\ index[d.target] # "clean"
  BY <1>1, TargetFacts
<1>3. /\ j.documents # <<>> /\ d.target \in j.targets /\ d.target \in Nodes
      /\ d.copy.text \in Texts /\ index[d.target] # "clean"
  <2>1. j.documents # <<>>
    BY <1>1, <1>2 DEF Shaped
  <2> QED
    BY <1>2, <2>1 DEF NodeT
<1>4. \A m \in Nodes : ~Between(w, m)
  BY <1>1 DEF Between
<1> HIDE DEF j, d
<1>5. /\ k \in VectorJob /\ k.left = j.left /\ k.documents = j.documents /\ k.targets = j.targets
      /\ k.alone = j.alone /\ k.copy = j.copy /\ k.kind = "vectorize" /\ k.step = "entry"
  BY <1>2 DEF VectorJob
<1> HIDE DEF k
<1>6. k \in AnyJob /\ Shaped(k)
  BY <1>3, <1>5 DEF AnyJob, Shaped
<1>7. JobType /\ job'[w] = k /\ OthersKeep(w)
  BY <1>1, <1>6, GoType DEF JobType, OthersKeep
<1>8. TargetsOf(job[w])'
  BY <1>2, <1>5, <1>7 DEF TargetsOf, Indexable
<1>9. /\ vector' \in [Nodes -> Texts \cup {None}] /\ vector'[d.target] = d.copy.text
      /\ \A m \in Nodes \ {d.target} : vector'[m] = vector[m]
  BY <1>1, <1>3 DEF TypeOK
<1>10. CopyOf(job[w])'
  BY <1>1, <1>2, <1>5, <1>7, <1>9 DEF CopyOf, d
<1>11. PairInv'
  <2>1. \A m \in Nodes : m = d.target /\ index'[m] # "mixed" => Between(w, m)'
    BY <1>1, <1>2, <1>3, <1>5, <1>7 DEF Between, Vectorizing, d
  <2> SUFFICES ASSUME NEW n \in Nodes, n = d.target
               PROVE  PairInv'
    BY <1>3
  <2> QED
    BY <1>1, <1>4, <1>7, <1>9, <2>1, PairButOne DEF IndexInv
<1>12. IndexFollowsGraph'
  <2> SUFFICES ASSUME NEW m \in Nodes, index'[m] = "clean"
               PROVE  InSync(m)'
    BY DEF IndexFollowsGraph
  <2>1. InSync(m) /\ m # d.target
    BY <1>1, <1>3 DEF IndexInv, IndexFollowsGraph
  <2> QED
    BY <1>1, <1>9, <2>1 DEF InSync, Indexable
<1>13. IndexInv'
  BY <1>1, <1>3, <1>5, <1>7, <1>8, <1>9, <1>10, <1>11, <1>12, OneVector DEF j
<1> QED
  BY <1>1, <1>5, <1>7, <1>9, <1>13 DEF TypeOK, IndexType

LEMMA StoreRecordFacts ==
    ASSUME TypeOK, ShapeInv, IndexInv, NEW w \in Workers, StoreRecord(w)
    PROVE  /\ JobType /\ OthersKeep(w) /\ Vectorizing(w)
           /\ job'[w].kind \in {"vectorize", "none"} /\ IndexType' /\ IndexInv'
<1> DEFINE j == job[w]
           d == Head(j.documents)
           ds == Tail(j.documents)
           k == [j EXCEPT !.documents = ds, !.step = "vector"]
           new == [text |-> d.copy.text, lifecycle |-> d.copy.lifecycle]
<1>1. Vectorizing(w) /\ j.step = "entry" /\ UNCHANGED <<node, vector>>
      /\ Go(w, IF Len(j.documents) > 1 THEN k ELSE NoJob)
      /\ entry' = [entry EXCEPT ![d.target] = new]
      /\ index' = Known(w, d.target, d.copy)
  BY DEF StoreRecord, InVectorize, Vectorizing, graphVars, Recorded, VectorJob
<1>2. /\ j \in VectorJob /\ TargetsOf(j) /\ CopyOf(j) /\ Shaped(j) /\ j.kind = "vectorize"
      /\ j.targets \subseteq Nodes
      /\ \A m \in j.targets : m \notin j.alone => index[m] = "mixed"
      /\ j.documents # <<>> =>
            /\ d.target \in j.targets /\ d.copy \in NodeT /\ Indexable(d.copy)
            /\ index[d.target] # "clean"
  BY <1>1, TargetFacts
<1>3. /\ j.documents # <<>> /\ d.target \in j.targets /\ d.target \in Nodes
      /\ d.copy \in NodeT /\ Indexable(d.copy) /\ index[d.target] # "clean"
  <2>1. j.documents # <<>>
    BY <1>1, <1>2 DEF Shaped
  <2> QED
    BY <1>2, <2>1
<1>4. \A m \in Nodes \ {d.target} : ~Between(w, m)
  BY <1>1 DEF Between
<1>5. d.target \in j.alone => vector[d.target] = d.copy.text
  BY <1>1, <1>2 DEF CopyOf
<1>6. /\ ds \in Seq([target : Nodes, copy : NodeT])
      /\ Len(j.documents) > 1 => ds # <<>>
      /\ \A i \in DOMAIN ds : /\ i + 1 \in DOMAIN j.documents /\ ds[i] = j.documents[i + 1]
                              /\ i + 1 # 1 /\ i \in Nat
      /\ 1 \in DOMAIN j.documents /\ d = j.documents[1]
  <2> DEFINE D == [target : Nodes, copy : NodeT]
             s == j.documents
  <2>1. s \in Seq(D) /\ s # <<>>
    BY <1>2, <1>3 DEF VectorJob
  <2> HIDE DEF D, s
  <2>2. /\ Tail(s) \in Seq(D) /\ Len(s) \in Nat /\ Len(s) >= 1 /\ Len(Tail(s)) = Len(s) - 1
        /\ DOMAIN s = 1 .. Len(s) /\ DOMAIN Tail(s) = 1 .. Len(s) - 1 /\ Head(s) = s[1]
    BY <2>1
  <2>3. Len(s) > 1 => Tail(s) # <<>>
    BY <2>1, ToSetOfTail
  <2>4. ASSUME NEW i \in DOMAIN Tail(s)
        PROVE  i + 1 \in DOMAIN s /\ Tail(s)[i] = s[i + 1] /\ i + 1 # 1 /\ i \in Nat
    <3>1. i \in 1 .. Len(s) - 1
      BY <2>2
    <3>2. i \in Nat /\ i + 1 # 1 /\ i + 1 \in 1 .. Len(s)
      BY <2>2, <3>1
    <3>3. Tail(s)[i] = s[i + 1]
      BY <2>1, <3>1
    <3> QED
      BY <2>2, <3>2, <3>3
  <2>5. 1 \in DOMAIN s
    BY <2>2
  <2> QED
    BY <2>2, <2>3, <2>4, <2>5 DEF D, s
<1>7. /\ d.copy.lifecycle = "active" /\ d.copy.text \in Texts /\ new \in EntryT
      /\ new.text = d.copy.text /\ new.lifecycle = d.copy.lifecycle
  BY <1>3 DEF Indexable, NodeT, EntryT
<1> HIDE DEF j, d, ds
<1>8. /\ k \in VectorJob /\ k.left = j.left /\ k.documents = ds /\ k.targets = j.targets
      /\ k.alone = j.alone /\ k.copy = j.copy /\ k.kind = "vectorize" /\ k.step = "vector"
  BY <1>2, <1>6 DEF VectorJob
<1> HIDE DEF k, new
<1>9. /\ Len(j.documents) > 1 => k \in AnyJob /\ Shaped(k)
      /\ NoJob \in AnyJob /\ Shaped(NoJob) /\ NoJob.kind = "none"
  BY <1>6, <1>8, NoJobShape, KindsOfJobs DEF AnyJob, Shaped
<1>10. JobType /\ job'[w] \in {k, NoJob} /\ OthersKeep(w)
  <2>1. CASE Len(j.documents) > 1
    BY <1>1, <1>9, <2>1, GoType DEF JobType, OthersKeep
  <2>2. CASE ~(Len(j.documents) > 1)
    BY <1>1, <1>9, <2>2, GoType DEF JobType, OthersKeep
  <2> QED
    BY <2>1, <2>2
<1>11. /\ \A m \in Nodes \ {d.target} : index'[m] = index[m]
       /\ d.target \notin j.alone => index'[d.target] = index[d.target]
       /\ index' \in [Nodes -> {"clean", "changed", "mixed"}]
       /\ index'[d.target] = "clean" /\ d.target \in j.alone => node[d.target] = d.copy
  BY <1>1, <1>3 DEF TypeOK, Known, j
<1>12. /\ entry' \in [Nodes -> EntryT \cup {None}]
       /\ \A m \in Nodes \ {d.target} : entry'[m] = entry[m]
       /\ entry'[d.target] = new
  BY <1>1, <1>3, <1>7 DEF TypeOK
<1>13. \A i \in DOMAIN ds :
          /\ ds[i].target \in j.targets \ ToSet(j.left) /\ Indexable(ds[i].copy)
          /\ ds[i].target # d.target /\ index[ds[i].target] # "clean" /\ ds[i].target \in Nodes
  BY <1>2, <1>6 DEF TargetsOf, CopyOf
<1>14. job'[w] = NoJob \/ TargetsOf(job[w])'
  <2>1. \A i, m \in DOMAIN ds : ds[i].target = ds[m].target => i = m
    <3> SUFFICES ASSUME NEW i \in DOMAIN ds, NEW m \in DOMAIN ds, ds[i].target = ds[m].target
                 PROVE  i = m
      OBVIOUS
    <3>1. i + 1 = m + 1
      BY <1>2, <1>6 DEF TargetsOf
    <3> QED
      BY <1>6, <3>1
  <2>2. IsInjective(j.left) /\ ToSet(j.left) \subseteq j.targets /\ j.alone \subseteq j.targets
    BY <1>2 DEF TargetsOf
  <2> QED
    BY <1>8, <1>10, <1>13, <2>1, <2>2 DEF TargetsOf, Indexable
<1>15. job'[w] = NoJob \/ CopyOf(job[w])'
  BY <1>8, <1>10, <1>11, <1>13 DEF CopyOf
<1>16. PairInv'
  <2>1. \A m \in Nodes : m = d.target /\ index'[m] # "mixed" => Described(m)'
    BY <1>1, <1>2, <1>3, <1>5, <1>7, <1>11, <1>12 DEF Described
  <2> SUFFICES ASSUME NEW n \in Nodes, n = d.target
               PROVE  PairInv'
    BY <1>3
  <2> QED
    BY <1>1, <1>4, <1>10, <1>11, <1>12, <2>1, PairButOne DEF IndexInv
<1>17. IndexFollowsGraph'
  <2> SUFFICES ASSUME NEW m \in Nodes, index'[m] = "clean"
               PROVE  InSync(m)'
    BY DEF IndexFollowsGraph
  <2>1. CASE m = d.target
    <3>1. d.target \in j.alone /\ node[m] = d.copy
      BY <1>2, <1>3, <1>11, <2>1
    <3>2. vector[m] = d.copy.text
      BY <1>5, <2>1, <3>1
    <3>3. new = [text |-> d.copy.text, lifecycle |-> d.copy.lifecycle]
      BY DEF new
    <3> QED
      BY <1>1, <1>3, <1>12, <2>1, <3>1, <3>2, <3>3 DEF InSync, Indexable
  <2>2. CASE m # d.target
    <3>1. InSync(m)
      BY <1>11, <2>2 DEF IndexInv, IndexFollowsGraph
    <3> QED
      BY <1>1, <1>12, <2>2, <3>1 DEF InSync, Indexable
  <2> QED
    BY <2>1, <2>2
<1>18. \A m \in Nodes : index'[m] # index[m] => m \in j.alone
  BY <1>11
<1>19. IndexInv'
  BY <1>1, <1>8, <1>10, <1>14, <1>15, <1>16, <1>17, <1>18, OneVector DEF j
<1> QED
  BY <1>1, <1>8, <1>9, <1>10, <1>11, <1>12, <1>19 DEF TypeOK, IndexType

LEMMA RaiseVectorizeFacts ==
    ASSUME TypeOK, ShapeInv, IndexInv, NEW w \in Workers, RaiseVectorize(w)
    PROVE  /\ JobType /\ OthersKeep(w) /\ Vectorizing(w)
           /\ torn' \subseteq {"merge", "state", "vectorize"}
           /\ job'[w].kind \in {"vectorize", "none"} /\ IndexType' /\ IndexInv'
<1> DEFINE j == job[w]
           t == IF j.step = "mark" THEN Head(j.left) ELSE Head(j.documents).target
<1>1. /\ Vectorizing(w) /\ Raise(w) /\ UNCHANGED <<node, vector, entry>>
      /\ index' = (IF j.step \in {"mark", "entry"} THEN [index EXCEPT ![t] = "mixed"] ELSE index)
  BY DEF RaiseVectorize, Raise, graphVars, Vectorizing
<1>2. /\ JobType /\ job'[w] = NoJob /\ OthersKeep(w)
      /\ torn' \subseteq {"merge", "state", "vectorize"}
  BY <1>1, RaiseType DEF JobType, OthersKeep
<1>3. \A m \in Nodes : Between(w, m) => j.step \in {"mark", "entry"} /\ m = t
  BY DEF Between
<1> HIDE DEF j, t
<1>4. /\ \A m \in Nodes : index'[m] # index[m] => index'[m] = "mixed"
      /\ \A m \in Nodes : Between(w, m) => index'[m] = "mixed"
      /\ IndexType'
  BY <1>1, <1>3 DEF TypeOK, IndexType
<1>5. PairInv'
  <2> SUFFICES ASSUME NEW m \in Nodes, index'[m] # "mixed"
               PROVE  Described(m)' \/ \E u \in Workers : Between(u, m)'
    BY DEF PairInv
  <2>1. index[m] # "mixed" /\ ~Between(w, m)
    BY <1>4
  <2> QED
    BY <1>1, <1>2, <2>1, PairOthers DEF IndexInv
<1>6. IndexFollowsGraph'
  <2> SUFFICES ASSUME NEW m \in Nodes, index'[m] = "clean"
               PROVE  InSync(m)'
    BY DEF IndexFollowsGraph
  <2>1. InSync(m)
    BY <1>4 DEF IndexInv, IndexFollowsGraph
  <2> QED
    BY <1>1, <2>1 DEF InSync, Indexable
<1>7. IndexInv'
  BY <1>1, <1>2, <1>4, <1>5, <1>6, OneVector
<1> QED
  BY <1>1, <1>2, <1>4, <1>7, KindsOfJobs

\* What two jobs have in hand at once is known to be mixed from then on.
LEMMA StartVectorizeFacts ==
    ASSUME TypeOK, ShapeInv, IndexInv, NEW w \in Workers, NEW n \in Nat,
           NEW targets \in [1 .. n -> Nodes], StartVectorize(w, targets)
    PROVE  /\ JobType /\ ops' \in Nat /\ IndexType' /\ IndexInv'
           /\ \A v \in Workers : ~Vectorizing(v) /\ v # w => job'[v] = job[v]
           /\ \A v \in Workers : Vectorizing(v) => job'[v].kind = "vectorize"
           /\ Idle(w) /\ job'[w].kind = "vectorize"
<1> DEFINE mine   == ToSet(targets)
           others == {v \in Workers \ {w} : job[v].kind = "vectorize"}
           shared == mine \cap UNION {job[v].targets : v \in others}
           k == [kind |-> "vectorize", step |-> "node", left |-> targets, copy |-> None,
                 documents |-> <<>>, targets |-> mine, alone |-> mine \ shared]
<1>1. /\ targets # <<>> /\ IsInjective(targets) /\ Idle(w) /\ ops' = ops + 1
      /\ job' = [v \in Workers |->
                   IF v = w THEN k
                   ELSE IF v \in others THEN [job[v] EXCEPT !.alone = job[v].alone \ mine] ELSE job[v]]
      /\ index' = [m \in Nodes |-> IF m \in shared THEN "mixed" ELSE index[m]]
      /\ UNCHANGED <<node, vector, entry>>
  BY DEF StartVectorize, graphVars
<1>2. targets \in Seq(Nodes) /\ mine \subseteq Nodes
  BY DEF ToSet
<1>3. shared \subseteq mine
  OBVIOUS
<1>4. \A v \in others, m \in mine : m \in job[v].targets => m \in shared
  OBVIOUS
<1>5. \A m \in shared : \E v \in others : m \in job[v].targets
  OBVIOUS
<1>6. \A v \in others : v # w /\ Vectorizing(v) /\ v \in Workers
  BY DEF Vectorizing
<1>7. \A v \in Workers \ {w} : Vectorizing(v) => v \in others
  BY DEF Vectorizing
<1> HIDE DEF mine, others, shared
<1>8. /\ k \in VectorJob /\ k.kind = "vectorize" /\ k.step = "node" /\ k.left = targets
      /\ k.documents = <<>> /\ k.targets = mine /\ k.alone = mine \ shared
  <2>1. <<>> \in Seq([target : Nodes, copy : NodeT])
    OBVIOUS
  <2> QED
    BY <1>2, <2>1 DEF VectorJob
<1> HIDE DEF k
<1>9. Shaped(k) /\ k \in AnyJob
  BY <1>1, <1>8 DEF Shaped, AnyJob
<1>10. ASSUME NEW v \in others
       PROVE  /\ job[v] \in VectorJob /\ TargetsOf(job[v]) /\ CopyOf(job[v]) /\ Shaped(job[v])
              /\ job[v].kind = "vectorize"
              /\ job[v].targets \subseteq Nodes
              /\ \A m \in job[v].targets : m \notin job[v].alone => index[m] = "mixed"
  BY <1>6, TargetFacts
<1>11. ASSUME NEW v \in others
       PROVE  /\ job'[v] \in VectorJob /\ job'[v].kind = "vectorize" /\ job'[v].step = job[v].step
              /\ job'[v].left = job[v].left /\ job'[v].copy = job[v].copy
              /\ job'[v].documents = job[v].documents /\ job'[v].targets = job[v].targets
              /\ job'[v].alone = job[v].alone \ mine
              /\ Shaped(job'[v]) /\ job'[v] \in AnyJob
  <2> DEFINE j == job[v]
             kv == [j EXCEPT !.alone = j.alone \ mine]
  <2>1. j \in VectorJob /\ Shaped(j) /\ j.kind = "vectorize"
    BY <1>10
  <2>2. job'[v] = kv
    BY <1>1, <1>6
  <2> HIDE DEF j
  <2>3. /\ kv \in VectorJob /\ kv.kind = "vectorize" /\ kv.step = j.step
        /\ kv.left = j.left /\ kv.copy = j.copy /\ kv.documents = j.documents
        /\ kv.targets = j.targets /\ kv.alone = j.alone \ mine
    BY <2>1 DEF VectorJob
  <2> HIDE DEF kv
  <2>4. Shaped(kv) /\ kv \in AnyJob
    BY <2>1, <2>3 DEF Shaped, AnyJob
  <2> QED
    BY <2>2, <2>3, <2>4 DEF j
<1>12. job'[w] = k /\ \A v \in Workers \ {w} : v \notin others => job'[v] = job[v]
  BY <1>1
<1>13. JobType
  <2>1. \A v \in Workers : job'[v] \in AnyJob /\ Shaped(job'[v])
    BY <1>9, <1>11, <1>12, JobIsAny
  <2>2. ShapeInv'
    BY <2>1 DEF ShapeInv
  <2> QED
    BY <1>1, <2>1, <2>2 DEF JobType
<1>14. \A v \in Workers \ {w} : Vectorizing(v)' => v \in others
  BY <1>7, <1>12 DEF Vectorizing
<1>15. /\ index' \in [Nodes -> {"clean", "changed", "mixed"}]
       /\ \A m \in Nodes : /\ index'[m] = "clean" => index[m] = "clean"
                           /\ index[m] = "mixed" => index'[m] = "mixed"
                           /\ m \in shared => index'[m] = "mixed"
                           /\ index'[m] # "mixed" => m \notin shared /\ index[m] # "mixed"
  BY <1>1 DEF TypeOK
<1>16. TargetsInv'
  <2> SUFFICES ASSUME NEW v \in Workers, Vectorizing(v)'
               PROVE  TargetsOf(job[v])'
    BY DEF TargetsInv
  <2>1. CASE v = w
    <3>1. ToSet(targets) = mine
      BY DEF mine
    <3> QED
      BY <1>1, <1>8, <1>12, <2>1, <3>1 DEF TargetsOf
  <2>2. CASE v \in others
    BY <1>10, <1>11, <2>2 DEF TargetsOf, Indexable
  <2> QED
    BY <1>14, <2>1, <2>2
<1>17. AloneInv'
  <2> SUFFICES ASSUME NEW v \in Workers, Vectorizing(v)'
               PROVE  /\ \A u \in Workers \ {v} : Vectorizing(u)' =>
                                job'[v].alone \cap job'[u].targets = {}
                      /\ \A m \in job'[v].targets \ job'[v].alone : index'[m] = "mixed"
    BY DEF AloneInv
  <2>1. CASE v = w
    <3>1. \A u \in Workers \ {v} : Vectorizing(u)' => job'[v].alone \cap job'[u].targets = {}
      BY <1>4, <1>8, <1>11, <1>12, <1>14, <2>1
    <3>2. \A m \in job'[v].targets \ job'[v].alone : index'[m] = "mixed"
      BY <1>2, <1>3, <1>8, <1>12, <1>15, <2>1
    <3> QED
      BY <3>1, <3>2
  <2>2. CASE v # w
    <3>1. v \in others /\ Vectorizing(v)
      BY <1>6, <1>14, <2>2
    <3>2. ASSUME NEW u \in Workers \ {v}, Vectorizing(u)'
          PROVE  job'[v].alone \cap job'[u].targets = {}
      <4>1. CASE u = w
        BY <1>8, <1>11, <1>12, <3>1, <4>1
      <4>2. CASE u # w
        <5>1. u \in others /\ Vectorizing(u)
          BY <1>6, <1>14, <3>2, <4>2
        <5>2. job[v].alone \cap job[u].targets = {}
          BY <3>1, <5>1 DEF IndexInv, AloneInv
        <5> QED
          BY <1>11, <3>1, <5>1, <5>2
      <4> QED
        BY <4>1, <4>2
    <3>3. ASSUME NEW m \in job'[v].targets \ job'[v].alone
          PROVE  index'[m] = "mixed"
      <4>1. m \in job[v].targets /\ m \in Nodes /\ (m \notin job[v].alone \/ m \in mine)
        BY <1>10, <1>11, <3>1, <3>3
      <4> QED
        BY <1>4, <1>10, <1>15, <3>1, <4>1
    <3> QED
      BY <3>2, <3>3
  <2> QED
    BY <2>1, <2>2
<1>18. CopyInv'
  <2> SUFFICES ASSUME NEW v \in Workers, Vectorizing(v)'
               PROVE  CopyOf(job[v])'
    BY DEF CopyInv
  <2>1. CASE v = w
    BY <1>8, <1>12, <2>1 DEF CopyOf
  <2>2. CASE v \in others
    <3> DEFINE j == job[v]
    <3>1. j \in VectorJob /\ TargetsOf(j) /\ CopyOf(j) /\ Shaped(j) /\ j.kind = "vectorize"
          /\ j.targets \subseteq Nodes
      BY <1>10, <2>2
    <3>2. j.step \in {"record", "delete", "mark"} => Head(j.left) \in Nodes
      BY <1>6, <2>2, <3>1, TargetFacts DEF Shaped
    <3>3. \A i \in DOMAIN j.documents : j.documents[i].target \in Nodes
      BY <3>1 DEF TargetsOf
    <3>4. /\ job'[v].step = j.step /\ job'[v].left = j.left /\ job'[v].copy = j.copy
          /\ job'[v].documents = j.documents /\ job'[v].alone = j.alone \ mine
      BY <1>11, <2>2
    <3> HIDE DEF j
    <3> QED
      BY <1>1, <1>15, <3>1, <3>2, <3>3, <3>4 DEF CopyOf
  <2> QED
    BY <1>14, <2>1, <2>2
<1>19. PairInv'
  <2> SUFFICES ASSUME NEW m \in Nodes, index'[m] # "mixed", ~Described(m)'
               PROVE  \E u \in Workers : Between(u, m)'
    BY DEF PairInv
  <2>1. m \notin shared /\ index[m] # "mixed"
    BY <1>15
  <2>2. PICK u \in Workers : Between(u, m)
    BY <1>1, <2>1 DEF IndexInv, PairInv, Described
  <2>3. u \in others /\ m \in job[u].alone
    <3>1. ~Vectorizing(w)
      BY <1>1, JobKinds
    <3> QED
      BY <1>7, <2>2, <3>1 DEF Between
  <2>4. m \in job[u].targets
    BY <1>10, <2>3 DEF TargetsOf
  <2>5. m \notin mine
    BY <1>4, <2>1, <2>3, <2>4
  <2>6. Between(u, m)'
    BY <1>11, <2>2, <2>3, <2>5 DEF Between, Vectorizing
  <2> QED
    BY <2>6
<1>20. IndexFollowsGraph'
  <2> SUFFICES ASSUME NEW m \in Nodes, index'[m] = "clean"
               PROVE  InSync(m)'
    BY DEF IndexFollowsGraph
  <2>1. InSync(m)
    BY <1>15 DEF IndexInv, IndexFollowsGraph
  <2> QED
    BY <1>1, <2>1 DEF InSync, Indexable
<1>21. ops' \in Nat
  BY <1>1 DEF TypeOK
<1>22. /\ \A v \in Workers : ~Vectorizing(v) /\ v # w => job'[v] = job[v]
       /\ \A v \in Workers : Vectorizing(v) => job'[v].kind = "vectorize"
       /\ Idle(w) /\ job'[w].kind = "vectorize"
  BY <1>1, <1>6, <1>7, <1>8, <1>11, <1>12
<1> QED
  BY <1>1, <1>13, <1>15, <1>16, <1>17, <1>18, <1>19, <1>20, <1>21, <1>22
     DEF IndexInv, IndexType, TypeOK

-----------------------------------------------------------------------------
(* The theorems *)

LEMMA KeepGraphPart ==
    ASSUME TypeOK, ShapeInv, MergeInv, StateInv, NEW w \in Workers,
           JobType, OthersKeep(w), Vectorizing(w), job'[w].kind \in {"vectorize", "none"},
           UNCHANGED graphVars, torn \subseteq torn'
    PROVE  MergeInv' /\ StateInv'
<1>1. job[w].kind = "vectorize"
  BY DEF Vectorizing
<1>2. Kept("merge") /\ Kept("state")
  BY <1>1 DEF Kept, OthersKeep
<1>3. \A v \in Workers : Stating(v) => job'[v] = job[v]
  BY <1>1 DEF Stating, OthersKeep
<1> QED
  BY <1>2, <1>3, MergeInvFrame, StateFrame DEF graphVars

LEMMA VectorStepInv ==
    ASSUME Inv, NEW w \in Workers, VectorStep(w)
    PROVE  Inv'
<1>1. TypeOK /\ ShapeInv /\ MergeInv /\ StateInv /\ IndexInv
  BY DEF Inv
<1>2. /\ JobType /\ OthersKeep(w) /\ Vectorizing(w) /\ job'[w].kind \in {"vectorize", "none"}
      /\ IndexType' /\ IndexInv' /\ torn' \subseteq {"merge", "state", "vectorize"}
      /\ torn \subseteq torn' /\ UNCHANGED <<graphVars, ops>>
  <2>1. torn \subseteq {"merge", "state", "vectorize"} /\ IndexType
    BY <1>1 DEF TypeOK, IndexType
  <2>2. CASE ReadTarget(w)
    BY <1>1, <2>1, <2>2, ReadTargetFacts DEF ReadTarget, IndexType
  <2>3. CASE CompareRecord(w)
    BY <1>1, <2>1, <2>3, CompareRecordFacts DEF CompareRecord
  <2>4. CASE DeleteVector(w)
    BY <1>1, <2>1, <2>4, DeleteVectorFacts DEF DeleteVector
  <2>5. CASE MarkArchived(w)
    BY <1>1, <2>1, <2>5, MarkArchivedFacts DEF MarkArchived
  <2>6. CASE StoreVector(w)
    BY <1>1, <2>1, <2>6, StoreVectorFacts DEF StoreVector
  <2>7. CASE StoreRecord(w)
    BY <1>1, <2>1, <2>7, StoreRecordFacts DEF StoreRecord
  <2>8. CASE RaiseVectorize(w)
    BY <1>1, <2>1, <2>8, RaiseVectorizeFacts DEF RaiseVectorize, Raise
  <2> QED
    BY <2>2, <2>3, <2>4, <2>5, <2>6, <2>7, <2>8 DEF VectorStep
<1>3. MergeInv' /\ StateInv'
  BY <1>1, <1>2, KeepGraphPart
<1>4. GraphType'
  BY <1>1, <1>2, TypeParts DEF GraphType, graphVars, JobType
<1>5. TypeOK'
  BY <1>2, <1>4 DEF TypeOK, GraphType, IndexType, AnyJob
<1> QED
  BY <1>2, <1>3, <1>5 DEF Inv, JobType

LEMMA StartVectorizeInv ==
    ASSUME Inv, NEW w \in Workers, NEW n \in Nat, NEW targets \in [1 .. n -> Nodes],
           StartVectorize(w, targets)
    PROVE  Inv'
<1>1. TypeOK /\ ShapeInv /\ MergeInv /\ StateInv /\ IndexInv
  BY DEF Inv
<1>2. /\ JobType /\ ops' \in Nat /\ IndexType' /\ IndexInv'
      /\ \A v \in Workers : ~Vectorizing(v) /\ v # w => job'[v] = job[v]
      /\ \A v \in Workers : Vectorizing(v) => job'[v].kind = "vectorize"
      /\ Idle(w) /\ job'[w].kind = "vectorize"
  BY <1>1, StartVectorizeFacts
<1>3. UNCHANGED <<graphVars, torn>>
  BY DEF StartVectorize
<1>4. job[w].kind = "none"
  BY <1>2, KindsOfJobs DEF Idle
<1>5. Kept("merge") /\ Kept("state") /\ \A v \in Workers : Stating(v) => job'[v] = job[v]
  BY <1>2, <1>4 DEF Kept, Stating, Vectorizing
<1>6. MergeInv' /\ StateInv'
  BY <1>1, <1>3, <1>5, MergeInvFrame, StateFrame DEF graphVars
<1>7. GraphType'
  BY <1>1, <1>2, <1>3, TypeParts DEF GraphType, graphVars, JobType
<1>8. TypeOK'
  BY <1>2, <1>7 DEF TypeOK, GraphType, IndexType, AnyJob
<1> QED
  BY <1>2, <1>6, <1>8 DEF Inv, JobType

LEMMA InitInv == Init => Inv
<1> SUFFICES ASSUME Init
             PROVE  Inv
  OBVIOUS
<1>1. TypeOK /\ ShapeInv
  BY TypeInit
<1>2. \A w \in Workers : ~Merging(w) /\ ~Stating(w) /\ ~Vectorizing(w)
  BY KindsOfJobs DEF Init, GraphInit, Merging, Stating, Vectorizing
<1>3. MergeInv
  <2>1. MergedAreFollowable /\ RecordsHaveNodes
    BY NodesAndNone DEF Init, GraphInit, NewNode, MergedAreFollowable, RecordsHaveNodes
  <2> QED
    BY <1>2, <2>1 DEF MergeInv, RecordInv, LinkInv, RefsInv
<1>4. StateInv
  BY <1>2 DEF Init, GraphInit, NewState, StateInv, StateJobInv, CurrentInv, Current
<1>5. IndexInv
  <2>1. PairInv /\ IndexFollowsGraph
    BY DEF Init, GraphInit, PairInv, Described, IndexFollowsGraph
  <2> QED
    BY <1>2, <2>1 DEF IndexInv, TargetsInv, AloneInv, CopyInv
<1> QED
  BY <1>1, <1>3, <1>4, <1>5 DEF Inv

LEMMA NextInv == Inv /\ [Next]_vars => Inv'
<1> SUFFICES ASSUME Inv, [Next]_vars
             PROVE  Inv'
  OBVIOUS
<1>1. CASE GraphStep
  <2>1. TypeOK /\ ShapeInv /\ MergeInv /\ StateInv /\ IndexInv
    BY DEF Inv
  <2>2. GraphPart' /\ VectorJobsKeep /\ TypeOK'
    BY <1>1, <2>1, GraphStepInv
  <2>3. IndexInv'
    BY <1>1, <2>1, <2>2, GraphStepIndex
  <2> QED
    BY <2>2, <2>3 DEF Inv, GraphPart
<1>2. ASSUME NEW w \in Workers, VectorStep(w)
      PROVE  Inv'
  BY <1>2, VectorStepInv
<1>3. ASSUME NEW w \in Workers, NEW k \in 1 .. MaxTargets, NEW targets \in [1 .. k -> Nodes],
             StartVectorize(w, targets)
      PROVE  Inv'
  BY <1>3, StartVectorizeInv, IndexAssumption
<1>4. CASE UNCHANGED vars
  <2>1. UNCHANGED <<node, mergedInto, record, context, state, job, ops, raced, torn, vector,
                    entry, index>>
    BY <1>4 DEF vars, graphVars
  <2>2. TypeOK' /\ ShapeInv'
    BY <2>1 DEF Inv, TypeOK, ShapeInv
  <2>3. MergeInv' /\ StateInv'
    BY <2>1, MergeInvFrame, StateFrame DEF Inv, Kept
  <2>4. TargetsInv' /\ AloneInv' /\ CopyInv'
    BY <2>1 DEF Inv, IndexInv, TargetsInv, AloneInv, CopyInv, TargetsOf, CopyOf, Indexable,
                Vectorizing
  <2>5. PairInv' /\ IndexFollowsGraph'
    BY <2>1 DEF Inv, IndexInv, PairInv, Described, Between, IndexFollowsGraph, InSync, Indexable,
                Vectorizing
  <2> QED
    BY <2>2, <2>3, <2>4, <2>5 DEF Inv, IndexInv
<1> QED
  BY <1>1, <1>2, <1>3, <1>4 DEF Next

\* What the services of the graph and the vectorization keep to, whichever of
\* their calls interleave and wherever one of them raises.
THEOREM GraphInvariant == Spec => []Inv
<1> QED
  BY InitInv, NextInv, PTL DEF Spec

\* A node hidden by a merge (apply_merge) leads to the one that has replaced it,
\* because it is linked before it is hidden and no edge is ever removed.
THEOREM MergedStayFollowable == Spec => []MergedAreFollowable
<1>1. Inv => MergedAreFollowable
  BY DEF Inv, MergeInv
<1> QED
  BY <1>1, GraphInvariant, PTL

\* create_relationship_state and clear_current_relationship_states never leave
\* two states of a context current, unless a request raised in between.
THEOREM NeverTwoCurrent == Spec => []AtMostOneCurrent
<1>1. Inv => AtMostOneCurrent
  <2> SUFFICES ASSUME Inv, \A w \in Workers : job[w].kind # "state", "state" \notin torn
               PROVE  Cardinality({s \in States : state[s].linked /\ state[s].current}) <= 1
    BY DEF AtMostOneCurrent
  <2> DEFINE C == {s \in States : state[s].linked /\ state[s].current}
  <2>1. \A s, t \in C : s = t
    BY DEF Inv, StateInv, CurrentInv, Current, Stating
  <2> HIDE DEF C
  <2>2. CASE C = {}
    BY <2>2, FS_EmptySet DEF C
  <2>3. CASE C # {}
    <3>1. PICK s \in C : C = {s}
      BY <2>1, <2>3
    <3>2. Cardinality(C) = 1
      BY <3>1, FS_Singleton
    <3> QED
      BY <3>2 DEF C
  <2> QED
    BY <2>2, <2>3
<1> QED
  BY <1>1, GraphInvariant, PTL

\* _vectorize_documents and _archive_existing_records leave vector and record
\* as the node is, if no one shared the target and nothing raised in between.
THEOREM IndexStaysInSync == Spec => []IndexFollowsGraph
<1>1. Inv => IndexFollowsGraph
  BY DEF Inv, IndexInv
<1> QED
  BY <1>1, GraphInvariant, PTL

\* _hydrate_raw_hit and _canonical_for_node show an indexed memory at the node
\* that its host was merged into.
THEOREM StaysFound == Spec => []FoundAtCanonical
<1>1. Inv => FoundAtCanonical
  <2> SUFFICES ASSUME Inv, NEW n \in Memories, index[n] = "clean", Indexable(node[n]),
                      Canonical(Host[n]) # None, ~Hidden(Canonical(Host[n]))
               PROVE  n \in Found(Canonical(Host[n]))
    BY DEF FoundAtCanonical
  <2> HIDE DEF Canonical
  <2>1. n \in Nodes /\ node[n] \in NodeT /\ node[n].text \in Texts /\ node[n].lifecycle = "active"
    BY NodesAndNone DEF Inv, TypeOK, NodeT, Indexable
  <2>2. /\ vector[n] = node[n].text
        /\ entry[n] = [text |-> node[n].text, lifecycle |-> node[n].lifecycle]
    BY <2>1 DEF Inv, IndexInv, IndexFollowsGraph, InSync
  <2>3. vector[n] # None
    BY <2>1, <2>2, GraphAssumption
  <2>4. entry[n] # None /\ entry[n].lifecycle = "active"
    <3>1. entry[n] \in [text : Texts, lifecycle : Lifecycles]
      BY <2>1, <2>2 DEF NodeT
    <3>2. entry[n] # None
      BY <3>1, GraphAssumption
    <3> QED
      BY <2>1, <2>2, <3>2
  <2>5. Host[n] \notin Memories
    BY IndexAssumption, GraphAssumption
  <2>6. ShownAt(n) = Canonical(Host[n])
    BY <2>5 DEF ShownAt, Display, CanonicalOr
  <2>7. Hit(n)
    BY <2>1, <2>3, <2>4, <2>6 DEF Hit
  <2> QED
    BY <2>1, <2>6, <2>7 DEF Found
<1> QED
  BY <1>1, GraphInvariant, PTL

\* _safe_merge_patch keeps the refs of the merged nodes in the canonical one,
\* although the copies it works on were read several calls before.
THEOREM MergesKeepRefs == Spec => MergeKeepsRefs
<1>1. ASSUME Inv, [Next]_vars
      PROVE  [\A r \in Records \ raced :
                 (record[r] # record'[r] /\ record'[r].status = "applied") =>
                     \A n \in record[r].merged :
                         node'[n].refs \subseteq node'[record[r].canonical].refs]_<<record, node>>
  <2> SUFFICES ASSUME NEW r \in Records \ raced, record[r] # record'[r],
                      record'[r].status = "applied"
               PROVE  \A n \in record[r].merged :
                          node'[n].refs \subseteq node'[record[r].canonical].refs
    OBVIOUS
  <2>1. TypeOK /\ ShapeInv /\ MergeInv
    BY <1>1 DEF Inv
  <2>2. \E w \in Workers : FinishMerge(w)
    <3>1. CASE GraphNext
      <4>1. ASSUME NEW q \in Records, NEW n \in Persons, NEW merged \in SUBSET Persons
            PROVE  ~CreateMerge(q, n, merged)
        BY <2>1, CreateMergeMerge
      <4>2. ASSUME NEW w \in Workers, NEW q \in Records, NEW s \in {"proposed", "rejected"}
            PROVE  ~UpdateMerge(w, q, s)
        BY <2>1, UpdateMergeMerge
      <4>3. ASSUME NEW w \in Workers, MergeStep(w)
            PROVE  FinishMerge(w)
        BY <4>3 DEF MergeStep, ReadNode, LinkMerged, Absorb, ArchiveMerged, graphVars
      <4>4. ASSUME NEW w \in Workers
            PROVE  ~StateStep(w)
        BY DEF StateStep, UpsertState, LinkState, ClearOthers, PatchContext
      <4>5. ASSUME NEW w \in Workers,
                   \/ \E n \in Nodes : Upsert(w, n)
                   \/ \E n \in Nodes, l \in Lifecycles : Transition(w, n, l)
                   \/ \E n \in Nodes, t \in Texts : Patch(w, n, t)
                   \/ \E q \in Records : ApplyMerge(w, q)
                   \/ \E s \in States, l \in Levels, b \in BOOLEAN : CreateState(w, s, l, b)
            PROVE  FALSE
        BY <4>5 DEF Upsert, Transition, Patch, ApplyMerge, CreateState, graphVars
      <4> QED
        BY <3>1, <4>1, <4>2, <4>3, <4>4, <4>5 DEF GraphNext
    <3>2. UNCHANGED record => FALSE
      OBVIOUS
    <3>3. CASE \E w \in Workers : Raise(w)
      BY <3>2, <3>3 DEF Raise, graphVars
    <3>4. CASE \E w \in Workers : VectorStep(w)
      BY <3>2, <3>4 DEF VectorStep, ReadTarget, CompareRecord, DeleteVector, MarkArchived,
                        StoreVector, StoreRecord, RaiseVectorize, Raise, graphVars
    <3>5. CASE \E w \in Workers, k \in 1 .. MaxTargets : \E targets \in [1 .. k -> Nodes] :
                   StartVectorize(w, targets)
      BY <3>2, <3>5 DEF StartVectorize, graphVars
    <3>6. CASE UNCHANGED vars
      BY <3>2, <3>6 DEF vars, graphVars
    <3> QED
      BY <1>1, <3>1, <3>3, <3>4, <3>5, <3>6 DEF Next, GraphStep
  <2> QED
    BY <2>1, <2>2, FinishedKeepsRefs
<1> QED
  BY <1>1, GraphInvariant, PTL DEF Spec, MergeKeepsRefs

-----------------------------------------------------------------------------
(* What is put in order *)

\* A sequence that is in a strict order is the set of its elements in that order.
LEMMA OrderedIs ==
    ASSUME NEW S, NEW before, NEW seq \in Seq(S), \A x \in S : \E i \in DOMAIN seq : seq[i] = x,
           \A i, j \in DOMAIN seq : <<seq[i], seq[j]>> \in before <=> i < j
    PROVE  Ordered(S, before) = seq /\ IsFiniteSet(S) /\ Cardinality(S) = Len(seq)
<1> DEFINE n == Len(seq)
           Rank(x) == Cardinality({y \in S : <<y, x>> \in before})
<1>1. n \in Nat /\ DOMAIN seq = 1 .. n /\ seq \in [1 .. n -> S] /\ \A i \in 1 .. n : seq[i] \in S
  OBVIOUS
<1>2. ASSUME NEW i \in 1 .. n, NEW j \in 1 .. n, seq[i] = seq[j] PROVE i = j
  <2>1. <<seq[i], seq[i]>> \in before <=> i < j
    BY <1>1, <1>2, Zenon
  <2>2. <<seq[i], seq[i]>> \in before <=> j < i
    BY <1>1, <1>2, Zenon
  <2>3. <<seq[i], seq[i]>> \in before <=> i < i
    BY <1>1, Zenon
  <2> QED
    BY <2>1, <2>2, <2>3
<1>3. Cardinality(S) = n /\ IsFiniteSet(S)
  <2>1. \A x \in S : \E i \in 1 .. n : seq[i] = x
    BY <1>1, Zenon
  <2>2. seq \in Bijection(1 .. n, S)
    BY <1>1, <1>2, <2>1 DEF Bijection, Injection, Surjection, IsInjective
  <2> QED
    BY <2>2, <1>1, FS_NatBijection, FS_CountingElements, Zenon DEF ExistsBijection
<1>4. ASSUME NEW i \in 1 .. n PROVE Rank(seq[i]) = i - 1
  <2> DEFINE T == {y \in S : <<y, seq[i]>> \in before}
             b == [j \in 1 .. (i - 1) |-> seq[j]]
  <2>1. i - 1 \in Nat /\ 1 .. (i - 1) \subseteq 1 .. n /\ \A j \in 1 .. (i - 1) : j < i
    BY <1>1
  <2>2. b \in [1 .. (i - 1) -> T]
    BY <2>1, <1>1
  <2>3. ASSUME NEW y \in T PROVE \E j \in 1 .. (i - 1) : b[j] = y
    <3>1. PICK j \in 1 .. n : seq[j] = y
      BY <1>1
    <3>2. j < i
      BY <3>1, <1>1
    <3> QED
      BY <3>1, <3>2, <1>1
  <2>4. b \in Bijection(1 .. (i - 1), T)
    <3>1. \A j, k \in 1 .. (i - 1) : b[j] = b[k] => j = k
      BY <1>2, <2>1
    <3> HIDE DEF b, T
    <3> QED
      BY <3>1, <2>2, <2>3 DEF Bijection, Injection, Surjection, IsInjective
  <2> HIDE DEF T, b
  <2>5. Cardinality(T) = i - 1
    BY <2>4, <2>1, FS_CountingElements, Zenon DEF ExistsBijection
  <2> QED
    BY <2>5 DEF T
<1> HIDE DEF Rank
<1>5. ASSUME NEW i \in 1 .. n PROVE (CHOOSE x \in S : Rank(x) = i - 1) = seq[i]
  <2>1. seq[i] \in S /\ Rank(seq[i]) = i - 1
    BY <1>1, <1>4
  <2>2. ASSUME NEW x \in S, Rank(x) = i - 1 PROVE x = seq[i]
    <3>1. PICK j \in 1 .. n : seq[j] = x
      BY <1>1
    <3>2. j - 1 = i - 1
      BY <3>1, <2>2, <1>4
    <3> QED
      BY <3>1, <3>2, <1>1
  <2> QED
    BY <2>1, <2>2, Zenon
<1>6. Ordered(S, before) = [i \in 1 .. n |-> CHOOSE x \in S : Rank(x) = i - 1]
  BY <1>3, Zenon DEF Ordered, Rank
<1>7. Ordered(S, before) = [i \in 1 .. n |-> seq[i]]
  BY <1>5, <1>6
<1> QED
  BY <1>7, <1>3, <1>1

\* A finite set has all its elements in a strict total order.
LEMMA OrderedLists ==
    ASSUME NEW S, IsFiniteSet(S), NEW before,
           \A x \in S : <<x, x>> \notin before,
           \A x, y \in S : x # y => <<x, y>> \in before \/ <<y, x>> \in before,
           \A x, y, z \in S : <<x, y>> \in before /\ <<y, z>> \in before => <<x, z>> \in before
    PROVE  LET seq == Ordered(S, before)
           IN  /\ seq \in [1 .. Cardinality(S) -> S] /\ Cardinality(S) \in Nat
               /\ \A x \in S : \E i \in 1 .. Cardinality(S) : seq[i] = x
               /\ \A i, j \in 1 .. Cardinality(S) : <<seq[i], seq[j]>> \in before <=> i < j
<1> DEFINE n == Cardinality(S)
           Earlier(x) == {y \in S : <<y, x>> \in before}
           Rank(x) == Cardinality(Earlier(x))
           rank == [x \in S |-> Rank(x) + 1]
           seq == Ordered(S, before)
<1>1. n \in Nat
  BY FS_CardinalityType, Zenon
<1>2. ASSUME NEW x \in S PROVE IsFiniteSet(Earlier(x)) /\ Rank(x) \in Nat /\ Rank(x) < n
  <2>1. Earlier(x) \in SUBSET S /\ Earlier(x) # S
    OBVIOUS
  <2> HIDE DEF Earlier
  <2>2. IsFiniteSet(Earlier(x)) /\ Cardinality(Earlier(x)) <= Cardinality(S)
        /\ (Cardinality(S) = Cardinality(Earlier(x)) => S = Earlier(x))
    BY <2>1, FS_Subset, Zenon
  <2>3. Cardinality(Earlier(x)) \in Nat
    BY <2>2, FS_CardinalityType, Zenon
  <2> QED
    BY <2>1, <2>2, <2>3, <1>1
<1>3. ASSUME NEW x \in S, NEW y \in S, <<x, y>> \in before PROVE Rank(x) < Rank(y)
  <2>1. Earlier(x) \in SUBSET Earlier(y) /\ Earlier(x) # Earlier(y)
    BY <1>3
  <2>2. IsFiniteSet(Earlier(y)) /\ Rank(x) \in Nat /\ Rank(y) \in Nat
    BY <1>2
  <2> HIDE DEF Earlier
  <2>3. Cardinality(Earlier(x)) <= Cardinality(Earlier(y)) /\ Cardinality(Earlier(x)) # Cardinality(Earlier(y))
    BY <2>1, <2>2, FS_Subset, Zenon
  <2> QED
    BY <2>2, <2>3
<1>4. ASSUME NEW x \in S, NEW y \in S PROVE Rank(x) < Rank(y) <=> <<x, y>> \in before
  <2> DEFINE a == Rank(x)
             b == Rank(y)
  <2>1. a \in Nat /\ b \in Nat
    BY <1>2
  <2>2. <<x, y>> \in before => a < b
    BY <1>3
  <2>3. <<x, y>> \notin before => x = y \/ <<y, x>> \in before
    OBVIOUS
  <2>4. <<y, x>> \in before => b < a
    BY <1>3
  <2>5. x = y => a = b
    OBVIOUS
  <2> HIDE DEF a, b
  <2>6. a < b <=> <<x, y>> \in before
    BY <2>1, <2>2, <2>3, <2>4, <2>5
  <2> QED
    BY <2>6 DEF a, b
<1>5. ASSUME NEW x \in S, NEW y \in S, Rank(x) = Rank(y) PROVE x = y
  <2> DEFINE a == Rank(x)
             b == Rank(y)
  <2>1. a \in Nat /\ b \in Nat /\ a = b
    BY <1>2, <1>5
  <2>2. (<<x, y>> \in before => a < b) /\ (<<y, x>> \in before => b < a)
    BY <1>3
  <2> HIDE DEF a, b
  <2>3. <<x, y>> \notin before /\ <<y, x>> \notin before
    BY <2>1, <2>2
  <2> QED
    BY <2>3
<1> HIDE DEF Rank, Earlier
<1>6. rank \in Injection(S, 1 .. n)
  <2>1. rank \in [S -> 1 .. n]
    BY <1>1, <1>2
  <2>2. ASSUME NEW x \in S, NEW y \in S, rank[x] = rank[y] PROVE x = y
    <3>1. Rank(x) \in Nat /\ Rank(y) \in Nat /\ Rank(x) + 1 = Rank(y) + 1
      BY <1>2, <2>2
    <3>2. Rank(x) = Rank(y)
      BY <3>1
    <3> QED
      BY <3>2, <1>5
  <2> HIDE DEF rank
  <2> QED
    BY <2>1, <2>2 DEF Injection, IsInjective
<1>7. rank \in Surjection(S, 1 .. n)
  <2>1. IsFiniteSet(1 .. n) /\ Cardinality(1 .. n) = n
    BY <1>1, FS_Interval
  <2> HIDE DEF rank
  <2> QED
    BY <2>1, <1>6, FS_Injection, Zenon
<1>8. ASSUME NEW i \in 1 .. n PROVE \E x \in S : Rank(x) = i - 1
  <2>1. PICK x \in S : rank[x] = i
    BY <1>7, Zenon DEF Surjection
  <2> QED
    BY <2>1, <1>2
<1>9. seq = [i \in 1 .. n |-> CHOOSE x \in S : Rank(x) = i - 1]
  BY DEF Ordered, Rank, Earlier
<1>10. ASSUME NEW i \in 1 .. n PROVE seq[i] \in S /\ Rank(seq[i]) = i - 1
  BY <1>8, <1>9
<1>11. seq \in [1 .. n -> S]
  BY <1>9, <1>10
<1> HIDE DEF seq
<1>12. ASSUME NEW x \in S PROVE \E i \in 1 .. n : seq[i] = x
  <2> DEFINE i == Rank(x) + 1
  <2>1. i \in 1 .. n /\ i - 1 = Rank(x)
    BY <1>1, <1>2
  <2>2. seq[i] \in S /\ Rank(seq[i]) = Rank(x)
    BY <2>1, <1>10
  <2> QED
    BY <2>1, <2>2, <1>5
<1>13. ASSUME NEW i \in 1 .. n, NEW j \in 1 .. n PROVE <<seq[i], seq[j]>> \in before <=> i < j
  <2>1. Rank(seq[i]) < Rank(seq[j]) <=> <<seq[i], seq[j]>> \in before
    BY <1>10, <1>4
  <2> QED
    BY <2>1, <1>10, <1>1
<1> QED
  BY <1>1, <1>11, <1>12, <1>13 DEF seq
MemT == [row : [Sessions -> Row \cup {Null}], key : [Keys -> Sessions \cup {Null}],
         log : [Sessions -> Seq(Message)], frame : [Frames -> Frame \cup {Null}],
         listed : [Sessions -> SUBSET Frames], snapshot : [Sessions -> Snapshot \cup {Null}],
         events : [Sessions -> Seq(Event)]]
RelT == [row : [Sessions -> Row \cup {Null}], message : SUBSET Message,
         frame : [Frames -> Frame \cup {Null}], process : [Sessions -> Process \cup {Null}],
         activity : SUBSET [session : Sessions, event : Event]]

StoresTypeOK ==
    /\ mem \in MemT /\ rel \in RelT
    /\ held \in Copy \cup {Null} /\ cut \subseteq Sessions /\ now \in Nat \ {0}

\* Copies m and r of a session that differ in the active frame at most, and do
\* not if it was found out again since the session was archived.
Alike(m, r, isCut) ==
    /\ m = [r EXCEPT !.active = m.active]
    /\ r.active \in {m.active, Null} /\ (~isCut => m.active = r.active)

\* When a session was last spoken in, if a message was made then
LastIn(last, log) == last = Null \/ \E i \in DOMAIN log : log[i].created = last

\* The rows are alike, and so are the copies that requests hold ...
RowsInv(mrow, rrow, gone) ==
    \A s \in Sessions :
        /\ mrow[s] = Null <=> rrow[s] = Null
        /\ mrow[s] # Null => Alike(mrow[s], rrow[s], s \in gone)

HeldInv(copy, mrow, log) ==
    copy # Null =>
        /\ mrow[copy.session] # Null /\ Alike(copy.mem, copy.rel, copy.cut)
        /\ copy.mem.key = mrow[copy.session].key /\ LastIn(copy.mem.last, log[copy.session])

\* ... each session has a key of its own ...
KeysInv(mrow, key) ==
    /\ \A s \in Sessions : mrow[s] # Null => key[mrow[s].key] = s
    /\ \A k \in Keys : key[k] # Null => mrow[key[k]] # Null /\ mrow[key[k]].key = k

\* ... no two of the times that the listings go by are the same ...
TimesInv(mrow, log, time) ==
    \A s \in Sessions : mrow[s] # Null =>
        /\ LastIn(mrow[s].last, log[s])
        /\ mrow[s].updated < 2 * time + 2 /\ \E k \in Nat : mrow[s].updated = 2 * k
        /\ \A t \in Sessions : mrow[t] # Null /\ mrow[t].updated = mrow[s].updated => t = s

MessagesInv(log, message) ==
    /\ \A s \in Sessions :
          /\ \A i \in DOMAIN log[s] : log[s][i] \in message /\ log[s][i].session = s
          /\ \A m \in message : m.session = s => \E i \in DOMAIN log[s] : log[s][i] = m
    /\ \A m \in message : \E k \in Nat : m.created = 2 * k + 1
    /\ \A m, n \in message : m.created = n.created => m = n

\* ... frames are listed where they belong, and a process has the activities of
\* the snapshot, numbered.
FramesInv(mframe, listed, rframe, time) ==
    /\ mframe = rframe
    /\ \A s \in Sessions, f \in Frames : f \in listed[s] <=> mframe[f] # Null /\ mframe[f].session = s
    /\ \A f \in Frames : mframe[f] # Null => mframe[f].updated < 2 * time + 2

ProcessInv(snapshot, events, process, activity) ==
    \A s \in Sessions :
        /\ snapshot[s] = Null => process[s] = Null /\ events[s] = <<>>
        /\ snapshot[s] # Null =>
              /\ process[s] # Null /\ process[s].next = Len(events[s]) + 1
              /\ snapshot[s] = [status |-> process[s].status, current |-> process[s].current,
                                resumable |-> process[s].resumable, updated |-> process[s].updated]
        /\ \A i \in DOMAIN events[s] :
              events[s][i].sequence = i /\ [session |-> s, event |-> events[s][i]] \in activity
        /\ \A a \in activity : a.session = s => \E i \in DOMAIN events[s] : a.event = events[s][i]

RowParts(mrow, rrow, key, log, copy, gone, time) ==
    /\ mrow \in [Sessions -> Row \cup {Null}] /\ rrow \in [Sessions -> Row \cup {Null}]
    /\ key \in [Keys -> Sessions \cup {Null}] /\ copy \in Copy \cup {Null} /\ time \in Nat
    /\ RowsInv(mrow, rrow, gone) /\ HeldInv(copy, mrow, log)
    /\ KeysInv(mrow, key) /\ TimesInv(mrow, log, time)

StoresParts(m, r, copy, gone, time) ==
    /\ RowParts(m.row, r.row, m.key, m.log, copy, gone, time)
    /\ MessagesInv(m.log, r.message)
    /\ FramesInv(m.frame, m.listed, r.frame, time)
    /\ ProcessInv(m.snapshot, m.events, r.process, r.activity)

StoresInv == StoresTypeOK /\ StoresParts(mem, rel, held, cut, now)

-----------------------------------------------------------------------------
(* Rows *)

\* A log that has grown holds what it held.
Longer(log, log2) ==
    \A s \in Sessions : \A i \in DOMAIN log[s] : i \in DOMAIN log2[s] /\ log2[s][i] = log[s][i]

\* A longer log still has the message that a session was last spoken in with.
LEMMA LastInLonger ==
    ASSUME NEW log, NEW log2, Longer(log, log2), NEW s \in Sessions, NEW last, LastIn(last, log[s])
    PROVE  LastIn(last, log2[s])
BY DEF Longer, LastIn

\* A call that writes no row keeps what is known of rows.
LEMMA RowsKept ==
    ASSUME NEW mrow, NEW rrow, NEW key, NEW log, NEW log2, NEW copy, NEW gone, NEW time,
           RowParts(mrow, rrow, key, log, copy, gone, time), Longer(log, log2)
    PROVE  RowParts(mrow, rrow, key, log2, copy, gone, time + 1)
<1>0. /\ mrow \in [Sessions -> Row \cup {Null}] /\ copy \in Copy \cup {Null} /\ time \in Nat
      /\ HeldInv(copy, mrow, log) /\ TimesInv(mrow, log, time)
  BY DEF RowParts
<1>1. ASSUME NEW s \in Sessions, mrow[s] # Null
      PROVE  LastIn(mrow[s].last, log2[s]) /\ mrow[s].updated < 2 * (time + 1) + 2
  <2>1. mrow[s].updated \in Nat
    BY <1>0, <1>1 DEF Row
  <2>2. LastIn(mrow[s].last, log[s]) /\ mrow[s].updated < 2 * time + 2
    BY <1>0, <1>1 DEF TimesInv
  <2> QED
    BY <1>0, <2>1, <2>2, LastInLonger
<1>2. TimesInv(mrow, log2, time + 1)
  BY <1>0, <1>1 DEF TimesInv
<1>3. copy # Null => copy.session \in Sessions
  BY <1>0 DEF Copy
<1>4. HeldInv(copy, mrow, log2)
  BY <1>0, <1>3, LastInLonger DEF HeldInv
<1> QED
  BY <1>2, <1>4 DEF RowParts

\* A session's row is written in both stores.
LEMMA RowWritten ==
    ASSUME NEW mrow, NEW rrow, NEW key, NEW log, NEW log2, NEW copy, NEW gone, NEW gone2, NEW time,
           RowParts(mrow, rrow, key, log, copy, gone, time), Longer(log, log2),
           NEW s \in Sessions, mrow[s] # Null,
           NEW m \in Row, NEW r \in Row, Alike(m, r, s \in gone2),
           \A t \in Sessions \ {s} : t \in gone <=> t \in gone2,
           m.key = mrow[s].key, m.updated = 2 * time + 2, LastIn(m.last, log2[s])
    PROVE  RowParts([mrow EXCEPT ![s] = m], [rrow EXCEPT ![s] = r], key, log2, copy, gone2, time + 1)
<1> DEFINE mrow2 == [mrow EXCEPT ![s] = m]
           rrow2 == [rrow EXCEPT ![s] = r]
<1>0. /\ mrow \in [Sessions -> Row \cup {Null}] /\ rrow \in [Sessions -> Row \cup {Null}]
      /\ key \in [Keys -> Sessions \cup {Null}] /\ copy \in Copy \cup {Null} /\ time \in Nat
      /\ RowsInv(mrow, rrow, gone) /\ HeldInv(copy, mrow, log)
      /\ KeysInv(mrow, key) /\ TimesInv(mrow, log, time)
  BY DEF RowParts
<1>1. m # Null /\ r # Null
  BY <1>0, StoresAssumption DEF StoresAssumption
<1>2. /\ mrow2[s] = m /\ rrow2[s] = r
      /\ \A t \in Sessions : t # s => mrow2[t] = mrow[t] /\ rrow2[t] = rrow[t]
  BY <1>0
<1>3. mrow2 \in [Sessions -> Row \cup {Null}] /\ rrow2 \in [Sessions -> Row \cup {Null}]
  BY <1>0
<1> HIDE DEF mrow2, rrow2
<1>4. RowsInv(mrow2, rrow2, gone2)
  <2> SUFFICES ASSUME NEW t \in Sessions
               PROVE  /\ mrow2[t] = Null <=> rrow2[t] = Null
                      /\ mrow2[t] # Null => Alike(mrow2[t], rrow2[t], t \in gone2)
    BY <1>0 DEF RowsInv
  <2>1. CASE t = s
    BY <1>0, <2>1, <1>1, <1>2
  <2>2. CASE t # s
    BY <1>0, <2>2, <1>2 DEF RowsInv, Alike
  <2> QED
    BY <1>0, <2>1, <2>2
<1>5. \A t \in Sessions : mrow[t] # Null => mrow2[t] # Null /\ mrow2[t].key = mrow[t].key
  BY <1>0, <1>1, <1>2
<1>6. \A t \in Sessions : mrow2[t] # Null => mrow[t] # Null /\ mrow2[t].key = mrow[t].key
  BY <1>0, <1>1, <1>2
<1>7. HeldInv(copy, mrow2, log2)
  <2>1. copy # Null => copy.session \in Sessions
    BY <1>0 DEF Copy
  <2>2. copy # Null => LastIn(copy.mem.last, log2[copy.session])
    BY <1>0, <2>1, LastInLonger DEF HeldInv
  <2> QED
    BY <1>0, <1>5, <2>1, <2>2 DEF HeldInv
<1>8. KeysInv(mrow2, key)
  <2>1. ASSUME NEW k \in Keys, key[k] # Null PROVE mrow2[key[k]] # Null /\ mrow2[key[k]].key = k
    <3>1. mrow[key[k]] # Null /\ mrow[key[k]].key = k
      BY <1>0, <2>1 DEF KeysInv
    <3>2. CASE key[k] = s
      BY <1>0, <3>1, <3>2, <1>1, <1>2
    <3>3. CASE key[k] # s
      <4>1. mrow2[key[k]] = mrow[key[k]]
        BY <1>0, <3>3 DEF mrow2
      <4> QED
        BY <1>0, <3>1, <4>1
    <3> QED
      BY <1>0, <3>2, <3>3
  <2> QED
    BY <1>0, <2>1, <1>6 DEF KeysInv
<1>9. TimesInv(mrow2, log2, time + 1)
  <2> SUFFICES ASSUME NEW t \in Sessions, mrow2[t] # Null
               PROVE  /\ LastIn(mrow2[t].last, log2[t])
                      /\ mrow2[t].updated < 2 * (time + 1) + 2 /\ \E k \in Nat : mrow2[t].updated = 2 * k
                      /\ \A u \in Sessions : mrow2[u] # Null /\ mrow2[u].updated = mrow2[t].updated => u = t
    BY <1>0 DEF TimesInv
  <2>1. ASSUME NEW u \in Sessions, u # s, mrow2[u] # Null
        PROVE  /\ LastIn(mrow2[u].last, log2[u]) /\ mrow2[u].updated \in Nat
               /\ mrow2[u].updated < 2 * time + 2 /\ \E k \in Nat : mrow2[u].updated = 2 * k
               /\ mrow2[u] = mrow[u]
    <3>1. mrow2[u] = mrow[u] /\ mrow[u] # Null
      BY <1>0, <2>1, <1>2
    <3>2. mrow[u].updated \in Nat
      BY <1>0, <3>1 DEF Row
    <3> QED
      BY <1>0, <3>1, <3>2, LastInLonger DEF TimesInv
  <2>2. CASE t = s
    <3>1. \E k \in Nat : m.updated = 2 * k
      <4>1. m.updated = 2 * (time + 1) /\ time + 1 \in Nat
        BY <1>0
      <4> QED
        BY <1>0, <4>1
    <3>2. ASSUME NEW u \in Sessions, u # s, mrow2[u] # Null PROVE mrow2[u].updated # m.updated
      BY <1>0, <2>1, <3>2
    <3>3. m.updated < 2 * (time + 1) + 2
      BY <1>0
    <3> QED
      BY <1>0, <2>2, <1>2, <3>1, <3>2, <3>3
  <2>3. CASE t # s
    <3>1. mrow2[t].updated < 2 * (time + 1) + 2
      BY <1>0, <2>3, <2>1
    <3>2. ASSUME NEW u \in Sessions, mrow2[u] # Null, mrow2[u].updated = mrow2[t].updated PROVE u = t
      <4>1. u # s
        BY <1>0, <2>1, <2>3, <1>2, <3>2
      <4>2. mrow2[u] = mrow[u] /\ mrow2[t] = mrow[t]
        BY <1>0, <4>1, <2>3, <1>2
      <4> QED
        BY <1>0, <4>2, <3>2 DEF TimesInv
    <3> QED
      BY <1>0, <2>1, <2>3, <3>1, <3>2
  <2> QED
    BY <1>0, <2>2, <2>3
<1> QED
  BY <1>0, <1>3, <1>4, <1>7, <1>8, <1>9 DEF RowParts, mrow2, rrow2

\* A session is created in both stores.
LEMMA RowCreated ==
    ASSUME NEW mrow, NEW rrow, NEW key, NEW log, NEW copy, NEW gone, NEW time,
           RowParts(mrow, rrow, key, log, copy, gone, time),
           NEW s \in Sessions, mrow[s] = Null, NEW k \in Keys, key[k] = Null,
           NEW m \in Row, m.key = k, m.updated = 2 * time + 2, m.last = Null
    PROVE  RowParts([mrow EXCEPT ![s] = m], [rrow EXCEPT ![s] = m], [key EXCEPT ![k] = s], log,
                    copy, gone, time + 1)
<1> DEFINE mrow2 == [mrow EXCEPT ![s] = m]
           rrow2 == [rrow EXCEPT ![s] = m]
           key2  == [key EXCEPT ![k] = s]
<1>0. /\ mrow \in [Sessions -> Row \cup {Null}] /\ rrow \in [Sessions -> Row \cup {Null}]
      /\ key \in [Keys -> Sessions \cup {Null}] /\ copy \in Copy \cup {Null} /\ time \in Nat
      /\ RowsInv(mrow, rrow, gone) /\ HeldInv(copy, mrow, log)
      /\ KeysInv(mrow, key) /\ TimesInv(mrow, log, time)
  BY DEF RowParts
<1>1. m # Null /\ s # Null
  BY <1>0, StoresAssumption DEF StoresAssumption
<1>2. /\ mrow2[s] = m /\ rrow2[s] = m /\ key2[k] = s
      /\ \A t \in Sessions : t # s => mrow2[t] = mrow[t] /\ rrow2[t] = rrow[t]
      /\ \A l \in Keys : l # k => key2[l] = key[l]
  BY <1>0
<1>3. /\ mrow2 \in [Sessions -> Row \cup {Null}] /\ rrow2 \in [Sessions -> Row \cup {Null}]
      /\ key2 \in [Keys -> Sessions \cup {Null}]
  BY <1>0
<1>4. \A t \in Sessions : mrow[t] # Null => t # s /\ mrow2[t] = mrow[t]
  BY <1>0, <1>2
<1>5. \A t \in Sessions : mrow2[t] # Null /\ t # s => mrow[t] # Null /\ mrow2[t] = mrow[t]
  BY <1>0, <1>2
<1> HIDE DEF mrow2, rrow2, key2
<1>6. RowsInv(mrow2, rrow2, gone)
  <2> SUFFICES ASSUME NEW t \in Sessions
               PROVE  /\ mrow2[t] = Null <=> rrow2[t] = Null
                      /\ mrow2[t] # Null => Alike(mrow2[t], rrow2[t], t \in gone)
    BY <1>0 DEF RowsInv
  <2>1. CASE t = s
    <3>1. m = [m EXCEPT !.active = m.active]
      BY <1>0 DEF Row
    <3> QED
      BY <1>0, <2>1, <3>1, <1>1, <1>2 DEF Alike
  <2>2. CASE t # s
    BY <1>0, <2>2, <1>2 DEF RowsInv, Alike
  <2> QED
    BY <1>0, <2>1, <2>2
<1>7. HeldInv(copy, mrow2, log)
  <2>1. copy # Null => copy.session \in Sessions
    BY <1>0 DEF Copy
  <2> QED
    BY <1>0, <2>1, <1>4 DEF HeldInv
<1>8. KeysInv(mrow2, key2)
  <2>1. ASSUME NEW t \in Sessions, mrow2[t] # Null PROVE key2[mrow2[t].key] = t
    <3>1. CASE t = s
      BY <1>0, <3>1, <1>2
    <3>2. CASE t # s
      <4>1. mrow[t] # Null /\ mrow2[t] = mrow[t] /\ mrow[t].key \in Keys
        BY <1>0, <2>1, <3>2, <1>5 DEF Row
      <4>2. key[mrow[t].key] = t /\ t # Null
        BY <1>0, <4>1, StoresAssumption DEF KeysInv, StoresAssumption
      <4> QED
        BY <1>0, <4>1, <4>2, <1>2
    <3> QED
      BY <1>0, <3>1, <3>2
  <2>2. ASSUME NEW l \in Keys, key2[l] # Null PROVE mrow2[key2[l]] # Null /\ mrow2[key2[l]].key = l
    <3>1. CASE l = k
      BY <1>0, <3>1, <1>1, <1>2
    <3>2. CASE l # k
      <4>1. key2[l] = key[l] /\ key[l] # Null
        BY <1>0, <2>2, <3>2, <1>2
      <4>2. key[l] \in Sessions /\ mrow[key[l]] # Null /\ mrow[key[l]].key = l
        BY <1>0, <4>1 DEF KeysInv
      <4> QED
        BY <1>0, <4>1, <4>2, <1>4
    <3> QED
      BY <1>0, <3>1, <3>2
  <2> QED
    BY <1>0, <2>1, <2>2 DEF KeysInv
<1>9. TimesInv(mrow2, log, time + 1)
  <2>1. ASSUME NEW u \in Sessions, u # s, mrow2[u] # Null
        PROVE  /\ LastIn(mrow2[u].last, log[u]) /\ mrow2[u].updated \in Nat
               /\ mrow2[u].updated < 2 * time + 2 /\ \E i \in Nat : mrow2[u].updated = 2 * i
               /\ mrow2[u] = mrow[u] /\ mrow[u] # Null
    <3>1. mrow2[u] = mrow[u] /\ mrow[u] # Null
      BY <1>0, <2>1, <1>5
    <3>2. mrow[u].updated \in Nat
      BY <1>0, <3>1 DEF Row
    <3> QED
      BY <1>0, <3>1, <3>2 DEF TimesInv
  <2> SUFFICES ASSUME NEW t \in Sessions, mrow2[t] # Null
               PROVE  /\ LastIn(mrow2[t].last, log[t])
                      /\ mrow2[t].updated < 2 * (time + 1) + 2 /\ \E i \in Nat : mrow2[t].updated = 2 * i
                      /\ \A u \in Sessions : mrow2[u] # Null /\ mrow2[u].updated = mrow2[t].updated => u = t
    BY <1>0 DEF TimesInv
  <2>2. CASE t = s
    <3>1. \E i \in Nat : m.updated = 2 * i
      <4>1. m.updated = 2 * (time + 1) /\ time + 1 \in Nat
        BY <1>0
      <4> QED
        BY <1>0, <4>1
    <3>2. ASSUME NEW u \in Sessions, u # s, mrow2[u] # Null PROVE mrow2[u].updated # m.updated
      BY <1>0, <2>1, <3>2
    <3>3. m.updated < 2 * (time + 1) + 2 /\ LastIn(m.last, log[t])
      BY <1>0 DEF LastIn
    <3> QED
      BY <1>0, <2>2, <1>2, <3>1, <3>2, <3>3
  <2>3. CASE t # s
    <3>1. mrow2[t].updated < 2 * (time + 1) + 2
      BY <1>0, <2>3, <2>1
    <3>2. ASSUME NEW u \in Sessions, mrow2[u] # Null, mrow2[u].updated = mrow2[t].updated PROVE u = t
      <4>1. u # s
        BY <1>0, <2>1, <2>3, <1>2, <3>2
      <4>2. mrow2[u] = mrow[u] /\ mrow2[t] = mrow[t] /\ mrow[t] # Null /\ mrow[u] # Null
        BY <1>0, <4>1, <2>3, <2>1, <3>2
      <4> QED
        BY <1>0, <4>2, <3>2 DEF TimesInv
    <3> QED
      BY <1>0, <2>1, <2>3, <3>1, <3>2
  <2> QED
    BY <1>0, <2>2, <2>3
<1> QED
  BY <1>0, <1>3, <1>6, <1>7, <1>8, <1>9 DEF RowParts, mrow2, rrow2, key2

-----------------------------------------------------------------------------
(* Every call keeps the stores alike *)

\* The invariant after a call, told part by part.
LEMMA StoresInvAfter ==
    ASSUME mem' \in MemT, rel' \in RelT, held' \in Copy \cup {Null}, cut' \subseteq Sessions,
           now' \in Nat \ {0}, StoresParts(mem', rel', held', cut', now')
    PROVE  StoresInv'
BY DEF StoresInv, StoresTypeOK

LEMMA StampType ==
    ASSUME now \in Nat \ {0}
    PROVE  Stamp \in Nat /\ Stamp = 2 * now + 2 /\ now + 1 \in Nat \ {0}
BY DEF Stamp

LEMMA LongerSelf ==
    ASSUME NEW log
    PROVE  Longer(log, log)
BY DEF Longer

\* A call that writes no frame keeps what is known of frames.
LEMMA FramesKept ==
    ASSUME StoresInv
    PROVE  FramesInv(mem.frame, mem.listed, rel.frame, now + 1)
<1>1. /\ mem.frame \in [Frames -> Frame \cup {Null}] /\ now \in Nat
      /\ FramesInv(mem.frame, mem.listed, rel.frame, now)
  BY DEF StoresInv, StoresTypeOK, MemT, StoresParts
<1>2. ASSUME NEW f \in Frames, mem.frame[f] # Null PROVE mem.frame[f].updated < 2 * (now + 1) + 2
  <2>1. mem.frame[f].updated \in Nat /\ mem.frame[f].updated < 2 * now + 2
    BY <1>1, <1>2 DEF Frame, FramesInv
  <2> QED
    BY <1>1, <2>1
<1> QED
  BY <1>1, <1>2 DEF FramesInv

\* Both stores agree on whether a key is taken.
LEMMA KeyTaken ==
    ASSUME StoresInv, NEW k \in Keys
    PROVE  mem.key[k] # Null <=> RelTaken(k)
<1>1. mem.row \in [Sessions -> Row \cup {Null}] /\ mem.key \in [Keys -> Sessions \cup {Null}]
  BY DEF StoresInv, StoresTypeOK, MemT
<1>2. RowsInv(mem.row, rel.row, cut) /\ KeysInv(mem.row, mem.key)
  BY DEF StoresInv, StoresParts, RowParts
<1>3. ASSUME NEW s \in Sessions, mem.row[s] # Null
      PROVE  rel.row[s] # Null /\ rel.row[s].key = mem.row[s].key
  <2>1. rel.row[s] # Null /\ Alike(mem.row[s], rel.row[s], s \in cut)
    BY <1>2, <1>3 DEF RowsInv
  <2>2. rel.row[s] \in Row
    BY <2>1 DEF StoresInv, StoresTypeOK, RelT
  <2> QED
    BY <2>1, <2>2 DEF Alike, Row
<1>4. ASSUME mem.key[k] # Null PROVE RelTaken(k)
  BY <1>1, <1>2, <1>3, <1>4 DEF KeysInv, RelTaken
<1>5. ASSUME RelTaken(k) PROVE mem.key[k] # Null
  <2>1. PICK s \in Sessions : rel.row[s] # Null /\ rel.row[s].key = k
    BY <1>5 DEF RelTaken
  <2>2. mem.row[s] # Null /\ mem.row[s].key = k
    BY <2>1, <1>2, <1>3 DEF RowsInv
  <2> QED
    BY <2>2, <1>2, StoresAssumption DEF KeysInv, StoresAssumption
<1> QED
  BY <1>4, <1>5

\* Nothing changes but the time.
LEMMA NothingWritten ==
    ASSUME StoresInv, Call, mem' = mem, rel' = rel, UNCHANGED <<held, cut>>
    PROVE  StoresInv'
<1>1. /\ mem \in MemT /\ rel \in RelT /\ held \in Copy \cup {Null} /\ cut \subseteq Sessions
      /\ now \in Nat \ {0} /\ StoresParts(mem, rel, held, cut, now)
  BY DEF StoresInv, StoresTypeOK
<1>2. now' = now + 1 /\ now' \in Nat \ {0}
  BY <1>1 DEF Call
<1>3. StoresParts(mem, rel, held, cut, now + 1)
  BY <1>1, RowsKept, LongerSelf, FramesKept DEF StoresParts
<1> QED
  BY <1>1, <1>2, <1>3, StoresInvAfter

LEMMA SessionCreated ==
    ASSUME StoresInv, NEW s \in Sessions, NEW k \in Keys, NEW manual \in BOOLEAN, s \notin Existing,
           Both(MemCreate(s, k, manual), RelCreate(s, k, manual))
    PROVE  StoresInv'
<1> DEFINE m == MemRow(k, manual)
<1>1. /\ mem \in MemT /\ rel \in RelT /\ held \in Copy \cup {Null} /\ cut \subseteq Sessions
      /\ now \in Nat \ {0} /\ StoresParts(mem, rel, held, cut, now)
  BY DEF StoresInv, StoresTypeOK
<1>2. /\ Call /\ mem' = MemCreate(s, k, manual) /\ rel' = RelCreate(s, k, manual)
      /\ held' = held /\ cut' = cut /\ now' = now + 1
  BY DEF Both, Call
<1>3. CASE mem.key[k] # Null
  BY <1>2, <1>3, KeyTaken, NothingWritten DEF MemCreate, RelCreate
<1>4. CASE mem.key[k] = Null
  <2>1. mem.row[s] = Null
    BY DEF Existing
  <2>2. /\ m \in Row /\ m.key = k /\ m.updated = 2 * now + 2 /\ m.last = Null
        /\ RelRow(k, manual) = m
    BY <1>1, StampType DEF MemRow, RelRow, Row
  <2> HIDE DEF m
  <2>3. /\ mem' = [mem EXCEPT !.row = [mem.row EXCEPT ![s] = m], !.key = [mem.key EXCEPT ![k] = s]]
        /\ rel' = [rel EXCEPT !.row = [rel.row EXCEPT ![s] = m]]
    BY <1>1, <1>2, <1>4, <2>2, KeyTaken DEF MemCreate, RelCreate, m, MemT, RelT
  <2>4. RowParts([mem.row EXCEPT ![s] = m], [rel.row EXCEPT ![s] = m], [mem.key EXCEPT ![k] = s],
                 mem.log, held, cut, now + 1)
    BY <1>1, <1>4, <2>1, <2>2, RowCreated DEF StoresParts
  <2>5. mem' \in MemT /\ rel' \in RelT
    BY <1>1, <2>3, <2>4 DEF MemT, RelT, RowParts
  <2>6. StoresParts(mem', rel', held, cut, now + 1)
    BY <1>1, <2>3, <2>4, FramesKept DEF StoresParts, MemT, RelT
  <2> QED
    BY <1>1, <1>2, <2>5, <2>6, StoresInvAfter, StampType
<1> QED
  BY <1>3, <1>4

LEMMA SessionFoundOrCreated ==
    ASSUME StoresInv, NEW s \in Sessions, NEW k \in Keys, GetOrCreate(s, k)
    PROVE  StoresInv'
<1>1. MemGetOrCreate(s, k) = MemCreate(s, k, FALSE) /\ RelGetOrCreate(s, k) = RelCreate(s, k, FALSE)
  BY DEF MemGetOrCreate, MemCreate, RelGetOrCreate, RelCreate
<1>2. s \notin Existing /\ Both(MemCreate(s, k, FALSE), RelCreate(s, k, FALSE))
  BY <1>1 DEF GetOrCreate, Both
<1> QED
  BY <1>2, SessionCreated

\* Both rows of a session are written, alike.
LEMMA RowChanged ==
    ASSUME StoresInv, NEW s \in Sessions, mem.row[s] # Null, NEW m \in Row, NEW r \in Row,
           Alike(m, r, s \in cut'), \A t \in Sessions \ {s} : t \in cut <=> t \in cut',
           m.key = mem.row[s].key, m.updated = Stamp, LastIn(m.last, mem.log[s]),
           mem' = [mem EXCEPT !.row = [mem.row EXCEPT ![s] = m]],
           rel' = [rel EXCEPT !.row = [rel.row EXCEPT ![s] = r]],
           held' \in {held, Null}, cut' \subseteq Sessions, now' = now + 1
    PROVE  StoresInv'
<1> DEFINE mrow == [mem.row EXCEPT ![s] = m]
           rrow == [rel.row EXCEPT ![s] = r]
<1>1. /\ mem \in MemT /\ rel \in RelT /\ held \in Copy \cup {Null}
      /\ now \in Nat \ {0} /\ StoresParts(mem, rel, held, cut, now)
  BY DEF StoresInv, StoresTypeOK
<1>2. RowParts(mrow, rrow, mem.key, mem.log, held', cut', now + 1)
  <2>1. Longer(mem.log, mem.log) /\ m.updated = 2 * now + 2
    BY LongerSelf DEF Stamp
  <2>2. RowParts(mem.row, rel.row, mem.key, mem.log, held', cut, now)
    BY <1>1 DEF StoresParts, RowParts, HeldInv
  <2> HIDE DEF mrow, rrow
  <2>3. PICK gone, copy : gone = cut' /\ copy = held'
    OBVIOUS
  <2>4. RowParts(mem.row, rel.row, mem.key, mem.log, copy, cut, now)
    BY <2>2, <2>3
  <2>5. Alike(m, r, s \in gone) /\ \A t \in Sessions \ {s} : t \in cut <=> t \in gone
    BY <2>3
  <2>6. RowParts(mrow, rrow, mem.key, mem.log, copy, gone, now + 1)
    BY <2>1, <2>4, <2>5, RowWritten DEF mrow, rrow
  <2> QED
    BY <2>3, <2>6
<1> HIDE DEF mrow, rrow
<1>3. mem' \in MemT /\ rel' \in RelT
  BY <1>1, <1>2 DEF MemT, RelT, mrow, rrow, RowParts
<1>4. /\ mem'.row = mrow /\ mem'.key = mem.key /\ mem'.log = mem.log /\ mem'.frame = mem.frame
      /\ mem'.listed = mem.listed /\ mem'.snapshot = mem.snapshot /\ mem'.events = mem.events
      /\ rel'.row = rrow /\ rel'.message = rel.message /\ rel'.frame = rel.frame
      /\ rel'.process = rel.process /\ rel'.activity = rel.activity
  BY <1>1 DEF MemT, RelT, mrow, rrow
<1>5. StoresParts(mem', rel', held', cut', now')
  BY <1>1, <1>2, <1>4, FramesKept DEF StoresParts
<1>6. now' \in Nat \ {0} /\ held' \in Copy \cup {Null}
  BY <1>1
<1> QED
  BY <1>3, <1>5, <1>6, StoresInvAfter

\* The rows of a session that exists.
LEMMA RowsOf ==
    ASSUME StoresInv, NEW s \in Existing
    PROVE  /\ s \in Sessions /\ mem.row[s] # Null /\ mem.row[s] \in Row /\ rel.row[s] \in Row
           /\ Alike(mem.row[s], rel.row[s], s \in cut) /\ LastIn(mem.row[s].last, mem.log[s])
           /\ Stamp \in Nat
<1>1. /\ mem \in MemT /\ rel \in RelT /\ now \in Nat \ {0}
      /\ RowsInv(mem.row, rel.row, cut) /\ TimesInv(mem.row, mem.log, now)
  BY DEF StoresInv, StoresTypeOK, StoresParts, RowParts
<1>2. s \in Sessions /\ mem.row[s] # Null
  BY DEF Existing
<1>3. rel.row[s] # Null
  BY <1>1, <1>2 DEF RowsInv
<1> QED
  BY <1>1, <1>2, <1>3, StampType DEF MemT, RelT, RowsInv, TimesInv

\* Rows that differ in the active frame at most.
SameButActive(m, r) ==
    /\ m.key = r.key /\ m.title = r.title /\ m.source = r.source /\ m.status = r.status
    /\ m.last = r.last /\ m.updated = r.updated

\* Rows that are the same but for their active frame, field by field.
LEMMA AlikeFields ==
    ASSUME NEW m \in Row, NEW r \in Row
    PROVE  m = [r EXCEPT !.active = m.active] <=> SameButActive(m, r)
BY DEF SameButActive, Row

LEMMA SessionRenamed ==
    ASSUME StoresInv, NEW s \in Existing, RenameSession(s)
    PROVE  StoresInv'
<1> DEFINE m == [mem.row[s] EXCEPT !.title = "manual", !.source = "manual", !.updated = Stamp]
           r == [rel.row[s] EXCEPT !.title = "manual", !.source = "manual", !.updated = Stamp]
<1>1. /\ mem \in MemT /\ rel \in RelT /\ cut \subseteq Sessions
  BY DEF StoresInv, StoresTypeOK
<1>2. /\ mem' = MemRename(s) /\ rel' = RelRename(s) /\ held' = held /\ cut' = cut /\ now' = now + 1
  BY DEF RenameSession, Both, Call
<1>3. /\ m \in Row /\ r \in Row /\ m.key = mem.row[s].key /\ m.last = mem.row[s].last
      /\ m.updated = Stamp /\ m.active = mem.row[s].active /\ r.active = rel.row[s].active
  BY RowsOf DEF Row
<1>4. m = [r EXCEPT !.active = m.active]
  <2>1. SameButActive(mem.row[s], rel.row[s]) /\ mem.row[s] \in Row /\ rel.row[s] \in Row
    BY RowsOf, AlikeFields DEF Alike
  <2>2. SameButActive(m, r)
    BY <2>1 DEF SameButActive, Row
  <2> QED
    BY <1>3, <2>2, AlikeFields
<1>5. /\ mem' = [mem EXCEPT !.row = [mem.row EXCEPT ![s] = m]]
      /\ rel' = [rel EXCEPT !.row = [rel.row EXCEPT ![s] = r]]
  BY <1>1, <1>2, RowsOf DEF MemRename, RelRename, MemStored, RelStored, MemT, RelT, Row
<1> HIDE DEF m, r
<1>6. Alike(m, r, s \in cut')
  BY <1>2, <1>3, <1>4, RowsOf DEF Alike
<1> QED
  BY <1>1, <1>2, <1>3, <1>5, <1>6, RowsOf, RowChanged

LEMMA SessionArchived ==
    ASSUME StoresInv, NEW s \in Existing, ArchiveSession(s)
    PROVE  StoresInv'
<1> DEFINE m == [mem.row[s] EXCEPT !.status = "archived", !.updated = Stamp]
           r == [rel.row[s] EXCEPT !.status = "archived", !.active = Null, !.updated = Stamp]
<1>1. /\ mem \in MemT /\ rel \in RelT /\ cut \subseteq Sessions
  BY DEF StoresInv, StoresTypeOK
<1>2. /\ mem' = MemArchive(s) /\ rel' = RelArchive(s) /\ held' = held /\ cut' = cut \cup {s}
      /\ now' = now + 1
  BY DEF ArchiveSession, Call
<1>3. /\ m \in Row /\ r \in Row /\ m.key = mem.row[s].key /\ m.last = mem.row[s].last
      /\ m.updated = Stamp /\ m.active = mem.row[s].active /\ r.active = Null
  BY RowsOf DEF Row
<1>4. m = [r EXCEPT !.active = m.active]
  <2>1. SameButActive(mem.row[s], rel.row[s]) /\ mem.row[s] \in Row /\ rel.row[s] \in Row
    BY RowsOf, AlikeFields DEF Alike
  <2>2. SameButActive(m, r)
    BY <2>1 DEF SameButActive, Row
  <2> QED
    BY <1>3, <2>2, AlikeFields
<1>5. /\ mem' = [mem EXCEPT !.row = [mem.row EXCEPT ![s] = m]]
      /\ rel' = [rel EXCEPT !.row = [rel.row EXCEPT ![s] = r]]
  BY <1>1, <1>2, RowsOf DEF MemArchive, RelArchive, MemStored, RelStored, MemT, RelT, Row
<1> HIDE DEF m, r
<1>6. Alike(m, r, s \in cut') /\ cut' \subseteq Sessions
  BY <1>1, <1>2, <1>3, <1>4, RowsOf DEF Alike
<1> QED
  BY <1>1, <1>2, <1>3, <1>5, <1>6, RowsOf, RowChanged

LEMMA SessionSaved ==
    ASSUME StoresInv, NEW status \in {"active", "archived"}, SaveSession(status)
    PROVE  StoresInv'
<1> DEFINE s == held.session
           m == [held.mem EXCEPT !.status = status, !.updated = Stamp]
           r == [held.rel EXCEPT !.status = status, !.updated = Stamp]
<1>1. /\ mem \in MemT /\ rel \in RelT /\ cut \subseteq Sessions /\ held \in Copy
      /\ HeldInv(held, mem.row, mem.log) /\ Stamp \in Nat /\ held # Null
  BY StampType DEF StoresInv, StoresTypeOK, StoresParts, RowParts, SaveSession
<1>2. /\ mem' = MemStored(s, [held.mem EXCEPT !.status = status])
      /\ rel' = RelStored(s, [held.rel EXCEPT !.status = status])
      /\ cut' = IF held.cut THEN cut \cup {s} ELSE cut \ {s}
      /\ held' = Null /\ now' = now + 1
  BY DEF SaveSession, Call
<1>3. /\ s \in Sessions /\ held.mem \in Row /\ held.rel \in Row /\ held.cut \in BOOLEAN
      /\ mem.row[s] # Null /\ Alike(held.mem, held.rel, held.cut)
      /\ held.mem.key = mem.row[s].key /\ LastIn(held.mem.last, mem.log[s])
  BY <1>1 DEF Copy, HeldInv
<1>4. /\ m \in Row /\ r \in Row /\ m.key = mem.row[s].key /\ m.last = held.mem.last
      /\ m.updated = Stamp /\ m.active = held.mem.active /\ r.active = held.rel.active
  BY <1>1, <1>3 DEF Row
<1>5. m = [r EXCEPT !.active = m.active]
  <2>1. SameButActive(held.mem, held.rel)
    BY <1>3, AlikeFields DEF Alike
  <2>2. SameButActive(m, r)
    BY <1>3, <2>1 DEF SameButActive, Row
  <2> QED
    BY <1>4, <2>2, AlikeFields
<1>6. /\ mem' = [mem EXCEPT !.row = [mem.row EXCEPT ![s] = m]]
      /\ rel' = [rel EXCEPT !.row = [rel.row EXCEPT ![s] = r]]
  BY <1>1, <1>2, <1>3 DEF MemStored, RelStored, MemT, RelT, Row
<1>7. /\ cut' \subseteq Sessions /\ (s \in cut' <=> held.cut)
      /\ \A t \in Sessions \ {s} : t \in cut <=> t \in cut'
  BY <1>1, <1>2, <1>3
<1> HIDE DEF m, r, s
<1>8. Alike(m, r, s \in cut')
  BY <1>3, <1>4, <1>5, <1>7 DEF Alike
<1>9. LastIn(m.last, mem.log[s])
  BY <1>3, <1>4
<1> QED
  BY <1>1, <1>2, <1>3, <1>4, <1>6, <1>7, <1>8, <1>9, RowChanged

LEMMA SessionRead ==
    ASSUME StoresInv, NEW s \in Existing, GetSession(s)
    PROVE  StoresInv'
<1> DEFINE copy == [session |-> s, mem |-> mem.row[s], rel |-> rel.row[s], cut |-> s \in cut]
<1>1. /\ mem \in MemT /\ rel \in RelT /\ cut \subseteq Sessions /\ now \in Nat \ {0}
      /\ StoresParts(mem, rel, held, cut, now)
  BY DEF StoresInv, StoresTypeOK
<1>2. mem' = mem /\ rel' = rel /\ cut' = cut /\ now' = now + 1 /\ held' = copy
  BY DEF GetSession, Call
<1>3. copy \in Copy /\ (s \in cut) \in BOOLEAN
  BY RowsOf DEF Copy
<1>4. HeldInv(copy, mem.row, mem.log)
  BY RowsOf DEF HeldInv
<1> HIDE DEF copy
<1>5. StoresParts(mem, rel, copy, cut, now)
  BY <1>1, <1>3, <1>4 DEF StoresParts, RowParts
<1>6. StoresParts(mem, rel, copy, cut, now + 1)
  BY <1>5, RowsKept, LongerSelf, FramesKept DEF StoresParts
<1> QED
  BY <1>1, <1>2, <1>3, <1>6, StoresInvAfter, StampType

\* A message is appended to a log.
LEMMA LogAfter ==
    ASSUME NEW log \in [Sessions -> Seq(Message)], NEW message \in SUBSET Message,
           MessagesInv(log, message), NEW s \in Sessions, NEW m \in Message, m.session = s,
           \E k \in Nat : m.created = 2 * k + 1, \A n \in message : n.created # m.created
    PROVE  LET log2 == [log EXCEPT ![s] = Append(log[s], m)]
           IN  /\ log2 \in [Sessions -> Seq(Message)] /\ message \cup {m} \in SUBSET Message
               /\ MessagesInv(log2, message \cup {m})
               /\ Longer(log, log2) /\ LastIn(m.created, log2[s])
<1> DEFINE log2 == [log EXCEPT ![s] = Append(log[s], m)]
           message2 == message \cup {m}
           n == Len(log[s])
<1>1. log[s] \in Seq(Message) /\ n \in Nat /\ DOMAIN log[s] = 1 .. n
  OBVIOUS
<1>2. /\ log2[s] \in Seq(Message) /\ DOMAIN log2[s] = 1 .. n + 1 /\ log2[s][n + 1] = m
      /\ \A i \in 1 .. n : log2[s][i] = log[s][i]
      /\ \A t \in Sessions : t # s => log2[t] = log[t]
  BY <1>1
<1>3. log2 \in [Sessions -> Seq(Message)]
  BY <1>1
<1> HIDE DEF log2
<1>4. Longer(log, log2)
  <2> SUFFICES ASSUME NEW t \in Sessions, NEW i \in DOMAIN log[t]
               PROVE  i \in DOMAIN log2[t] /\ log2[t][i] = log[t][i]
    BY DEF Longer
  <2>1. CASE t = s
    BY <2>1, <1>1, <1>2
  <2>2. CASE t # s
    BY <2>2, <1>2
  <2> QED
    BY <2>1, <2>2
<1>5. LastIn(m.created, log2[s])
  <2>1. n + 1 \in DOMAIN log2[s]
    BY <1>1, <1>2
  <2> QED
    BY <2>1, <1>2 DEF LastIn
<1>6. ASSUME NEW t \in Sessions, NEW i \in DOMAIN log2[t]
      PROVE  log2[t][i] \in message2 /\ log2[t][i].session = t
  <2>1. CASE t # s
    BY <2>1, <1>2, <1>6 DEF MessagesInv
  <2>2. CASE t = s /\ i \in 1 .. n
    BY <2>2, <1>1, <1>2 DEF MessagesInv
  <2>3. CASE t = s /\ i \notin 1 .. n
    <3>1. i = n + 1
      BY <2>3, <1>1, <1>2, <1>6
    <3> QED
      BY <3>1, <2>3, <1>2
  <2> QED
    BY <2>1, <2>2, <2>3
<1>7. ASSUME NEW t \in Sessions, NEW o \in message2, o.session = t
      PROVE  \E i \in DOMAIN log2[t] : log2[t][i] = o
  <2>1. CASE o = m
    <3>1. t = s /\ n + 1 \in DOMAIN log2[s]
      BY <2>1, <1>1, <1>2, <1>7
    <3> QED
      BY <2>1, <3>1, <1>2
  <2>2. CASE o \in message
    <3>1. PICK i \in DOMAIN log[t] : log[t][i] = o
      BY <2>2, <1>7 DEF MessagesInv
    <3> QED
      BY <3>1, <1>4 DEF Longer
  <2> QED
    BY <2>1, <2>2
<1>8. \A o \in message2 : \E k \in Nat : o.created = 2 * k + 1
  BY DEF MessagesInv
<1>9. \A o, p \in message2 : o.created = p.created => o = p
  BY DEF MessagesInv
<1>10. MessagesInv(log2, message2)
  <2> HIDE DEF message2
  <2> QED
    BY <1>6, <1>7, <1>8, <1>9 DEF MessagesInv
<1> QED
  BY <1>3, <1>4, <1>5, <1>10 DEF log2

LEMMA MessageAppended ==
    ASSUME StoresInv, NEW s \in Existing, NEW kind \in Kinds, NEW created \in {Stamp - 3, Stamp - 1},
           AppendMessage(s, kind, created)
    PROVE  StoresInv'
<1> DEFINE m == [session |-> s, kind |-> kind, created |-> created]
           log == [mem.log EXCEPT ![s] = Append(mem.log[s], m)]
           message == rel.message \cup {m}
           dates == kind.user \/ mem.row[s].last = Null
<1>1. /\ mem \in MemT /\ rel \in RelT /\ held \in Copy \cup {Null} /\ cut \subseteq Sessions
      /\ now \in Nat \ {0} /\ StoresParts(mem, rel, held, cut, now)
  BY DEF StoresInv, StoresTypeOK
<1>2. /\ mem' = MemAppend(s, m) /\ rel' = RelAppend(s, m)
      /\ held' = held /\ cut' = cut /\ now' = now + 1 /\ \A n \in rel.message : n.created # created
  BY DEF AppendMessage, Both, Call
<1>3. created \in Nat /\ \E k \in Nat : created = 2 * k + 1
  <2>1. CASE created = Stamp - 1
    <3>1. created = 2 * now + 1 /\ now \in Nat
      BY <2>1, <1>1, StampType
    <3> QED
      BY <3>1
  <2>2. CASE created = Stamp - 3
    <3>1. created = 2 * (now - 1) + 1 /\ now - 1 \in Nat
      BY <2>2, <1>1, StampType
    <3> QED
      BY <3>1
  <2> QED
    BY <2>1, <2>2
<1>4. /\ m \in Message /\ m.session = s /\ m.created = created /\ m.kind = kind
      /\ [m EXCEPT !.session = s] = m
  BY <1>3, RowsOf DEF Message
<1>5. kind \in [user : BOOLEAN, blank : BOOLEAN, hidden : BOOLEAN]
  BY StoresAssumption DEF StoresAssumption
<1> HIDE DEF m
<1>6. /\ log \in [Sessions -> Seq(Message)] /\ message \in SUBSET Message
      /\ MessagesInv(log, message) /\ Longer(mem.log, log) /\ LastIn(created, log[s])
  <2>1. /\ mem.log \in [Sessions -> Seq(Message)] /\ rel.message \in SUBSET Message
        /\ MessagesInv(mem.log, rel.message)
    BY <1>1 DEF MemT, RelT, StoresParts
  <2>2. /\ s \in Sessions /\ \E k \in Nat : m.created = 2 * k + 1
        /\ \A n \in rel.message : n.created # m.created
    BY <1>2, <1>3, <1>4, RowsOf
  <2>3. PICK l, ms : l = mem.log /\ ms = rel.message
    OBVIOUS
  <2>4. /\ l \in [Sessions -> Seq(Message)] /\ ms \in SUBSET Message /\ MessagesInv(l, ms)
        /\ \A n \in ms : n.created # m.created
    BY <2>1, <2>2, <2>3
  <2>5. LET log2 == [l EXCEPT ![s] = Append(l[s], m)]
        IN  /\ log2 \in [Sessions -> Seq(Message)] /\ ms \cup {m} \in SUBSET Message
            /\ MessagesInv(log2, ms \cup {m})
            /\ Longer(l, log2) /\ LastIn(m.created, log2[s])
    BY <1>4, <2>2, <2>4, LogAfter
  <2> QED
    BY <2>3, <2>5, <1>4
<1> HIDE DEF log, message
<1>7. CASE ~dates
  <2>1. /\ mem' = [mem EXCEPT !.log = log] /\ rel' = [rel EXCEPT !.message = message]
    <3>1. rel.row[s].last = mem.row[s].last
      <4>1. SameButActive(mem.row[s], rel.row[s])
        BY RowsOf, AlikeFields DEF Alike
      <4> QED
        BY <4>1 DEF SameButActive
    <3>2. ~kind.user /\ mem.row[s].last # Null
      BY <1>7
    <3>3. mem' = [mem EXCEPT !.log[s] = Append(@, m), !.row[s] = mem.row[s]]
      BY <1>2, <1>4, <3>2, Zenon DEF MemAppend
    <3>4. rel' = [rel EXCEPT !.message = @ \cup {[m EXCEPT !.session = s]}, !.row[s] = rel.row[s]]
      BY <1>2, <1>4, <3>1, <3>2, Zenon DEF RelAppend
    <3>5. mem.row = [mem.row EXCEPT ![s] = mem.row[s]] /\ rel.row = [rel.row EXCEPT ![s] = rel.row[s]]
      BY <1>1 DEF MemT, RelT
    <3>6. mem' = [mem EXCEPT !.log = log]
      BY <1>1, <3>3, <3>5 DEF log, MemT
    <3>7. rel' = [rel EXCEPT !.message = message]
      BY <1>1, <1>4, <3>4, <3>5 DEF message, RelT
    <3> QED
      BY <3>6, <3>7
  <2>2. RowParts(mem.row, rel.row, mem.key, log, held, cut, now + 1)
    BY <1>1, <1>6, RowsKept DEF StoresParts
  <2>3. mem' \in MemT /\ rel' \in RelT
    BY <1>1, <1>6, <2>1 DEF MemT, RelT
  <2>4. StoresParts(mem', rel', held, cut, now + 1)
    BY <1>1, <1>6, <2>1, <2>2, FramesKept DEF StoresParts, MemT, RelT
  <2> QED
    BY <1>1, <1>2, <2>3, <2>4, StoresInvAfter, StampType
<1>8. CASE dates
  <2> DEFINE titles == kind.user /\ ~kind.blank /\ CanAutotitle(mem.row[s])
             w == [mem.row[s] EXCEPT !.last = created, !.updated = Stamp]
             v == [rel.row[s] EXCEPT !.last = created, !.updated = Stamp]
             p == IF titles THEN [w EXCEPT !.title = "text", !.source = "first_message"] ELSE w
             r == IF titles THEN [v EXCEPT !.title = "text", !.source = "first_message"] ELSE v
  <2>1. SameButActive(mem.row[s], rel.row[s])
    BY RowsOf, AlikeFields DEF Alike
  <2>2. CanAutotitle(mem.row[s]) = CanAutotitle(rel.row[s]) /\ rel.row[s].last = mem.row[s].last
    BY <2>1 DEF CanAutotitle, SameButActive
  <2>3. /\ w \in Row /\ v \in Row /\ w.key = mem.row[s].key /\ w.last = created /\ w.updated = Stamp
        /\ w.active = mem.row[s].active /\ v.active = rel.row[s].active /\ SameButActive(w, v)
    <3>1. mem.row[s] \in Row /\ rel.row[s] \in Row /\ Stamp \in Nat
      BY RowsOf
    <3>2. w \in Row /\ w.key = mem.row[s].key /\ w.last = created /\ w.updated = Stamp
          /\ w.active = mem.row[s].active /\ w.title = mem.row[s].title
          /\ w.source = mem.row[s].source /\ w.status = mem.row[s].status
      BY <1>3, <3>1 DEF Row
    <3>3. v \in Row /\ v.key = rel.row[s].key /\ v.last = created /\ v.updated = Stamp
          /\ v.active = rel.row[s].active /\ v.title = rel.row[s].title
          /\ v.source = rel.row[s].source /\ v.status = rel.row[s].status
      BY <1>3, <3>1 DEF Row
    <3> QED
      BY <2>1, <3>2, <3>3 DEF SameButActive
  <2>4. mem' = [mem EXCEPT !.log[s] = Append(@, m), !.row[s] = p]
    BY <1>2, <1>4, <1>8, Zenon DEF MemAppend
  <2>5. rel' = [rel EXCEPT !.message = @ \cup {[m EXCEPT !.session = s]}, !.row[s] = r]
    BY <1>2, <1>4, <1>8, <2>2 DEF RelAppend
  <2> HIDE DEF w, v, titles
  <2>6. /\ p \in Row /\ r \in Row /\ p.key = mem.row[s].key /\ p.last = created /\ p.updated = Stamp
        /\ p.active = mem.row[s].active /\ r.active = rel.row[s].active /\ SameButActive(p, r)
    BY <2>3 DEF Row, SameButActive
  <2> HIDE DEF p, r
  <2>7. Alike(p, r, s \in cut)
    BY <2>6, RowsOf, AlikeFields DEF Alike
  <2>8. RowParts([mem.row EXCEPT ![s] = p], [rel.row EXCEPT ![s] = r], mem.key, log, held, cut, now + 1)
    <3>1. LastIn(p.last, log[s]) /\ p.updated = 2 * now + 2
      BY <1>6, <2>6 DEF Stamp
    <3> QED
      BY <1>1, <1>6, <2>6, <2>7, <3>1, RowsOf, RowWritten DEF StoresParts
  <2>9. /\ mem' = [mem EXCEPT !.log = log, !.row = [mem.row EXCEPT ![s] = p]]
        /\ rel' = [rel EXCEPT !.message = message, !.row = [rel.row EXCEPT ![s] = r]]
    BY <1>1, <1>4, <2>4, <2>5 DEF log, message, MemT, RelT
  <2>10. mem' \in MemT /\ rel' \in RelT
    BY <1>1, <1>6, <2>8, <2>9 DEF MemT, RelT, RowParts
  <2>11. StoresParts(mem', rel', held, cut, now + 1)
    BY <1>1, <1>6, <2>8, <2>9, FramesKept DEF StoresParts, MemT, RelT
  <2> QED
    BY <1>1, <1>2, <2>10, <2>11, StoresInvAfter, StampType
<1> QED
  BY <1>7, <1>8

\* A frame of s is written.
LEMMA FrameWritten ==
    ASSUME NEW frame \in [Frames -> Frame \cup {Null}], NEW listed \in [Sessions -> SUBSET Frames],
           NEW rframe, NEW time \in Nat, FramesInv(frame, listed, rframe, time),
           NEW s \in Sessions, NEW f \in Frames, frame[f] = Null \/ f \in listed[s],
           NEW v \in Frame, v.session = s, v.updated = 2 * time + 2
    PROVE  LET frame2  == [frame EXCEPT ![f] = v]
               listed2 == [listed EXCEPT ![s] = listed[s] \cup {f}]
           IN  /\ frame2 \in [Frames -> Frame \cup {Null}] /\ listed2 \in [Sessions -> SUBSET Frames]
               /\ FramesInv(frame2, listed2, frame2, time + 1)
<1> DEFINE frame2  == [frame EXCEPT ![f] = v]
           listed2 == [listed EXCEPT ![s] = listed[s] \cup {f}]
<1>1. /\ frame2[f] = v /\ listed2[s] = listed[s] \cup {f}
      /\ \A g \in Frames : g # f => frame2[g] = frame[g]
      /\ \A t \in Sessions : t # s => listed2[t] = listed[t]
  OBVIOUS
<1>2. frame2 \in [Frames -> Frame \cup {Null}] /\ listed2 \in [Sessions -> SUBSET Frames] /\ v # Null
  BY StoresAssumption DEF StoresAssumption
<1> HIDE DEF frame2, listed2
<1>3. ASSUME NEW t \in Sessions, NEW g \in Frames
      PROVE  g \in listed2[t] <=> frame2[g] # Null /\ frame2[g].session = t
  <2>1. CASE g # f
    BY <2>1, <1>1 DEF FramesInv
  <2>2. CASE g = f /\ t = s
    BY <2>2, <1>1, <1>2
  <2>3. CASE g = f /\ t # s
    <3>1. g \notin listed[t]
      BY <2>3 DEF FramesInv
    <3> QED
      BY <2>3, <3>1, <1>1, <1>2
  <2> QED
    BY <2>1, <2>2, <2>3
<1>4. ASSUME NEW g \in Frames, frame2[g] # Null PROVE frame2[g].updated < 2 * (time + 1) + 2
  <2>1. CASE g = f
    BY <2>1, <1>1
  <2>2. CASE g # f
    <3>1. frame[g] # Null /\ frame2[g] = frame[g]
      BY <2>2, <1>1, <1>4
    <3>2. frame[g].updated \in Nat /\ frame[g].updated < 2 * time + 2
      BY <3>1 DEF Frame, FramesInv
    <3> QED
      BY <3>1, <3>2
  <2> QED
    BY <2>1, <2>2
<1> QED
  BY <1>2, <1>3, <1>4 DEF FramesInv, frame2, listed2

\* Both stores find the same active frame.
LEMMA ActiveFound ==
    ASSUME NEW m \in MemT, NEW r \in RelT, NEW time \in Nat, NEW s \in Sessions,
           FramesInv(m.frame, m.listed, r.frame, time)
    PROVE  MemActive(m, s) = RelActive(r, s) /\ MemActive(m, s) \in Frames \cup {Null}
<1> DEFINE fs == {f \in m.listed[s] : m.frame[f].status = "interrupted"}
           gs == {f \in Frames : r.frame[f] # Null /\ r.frame[f].session = s /\ r.frame[f].status = "interrupted"}
           times == {m.frame[f].updated : f \in fs}
<1>1. m.listed[s] \subseteq Frames /\ m.frame \in [Frames -> Frame \cup {Null}]
  BY DEF MemT
<1>2. fs = gs
  BY <1>1 DEF FramesInv
<1>3. MemActive(m, s) = RelActive(r, s)
  BY <1>2 DEF MemActive, RelActive, FramesInv
<1>4. CASE fs = {}
  BY <1>3, <1>4 DEF MemActive
<1>5. CASE fs # {}
  <2>1. ASSUME NEW f \in fs PROVE f \in Frames /\ m.frame[f].updated \in 0 .. 2 * time + 2
    <3>1. f \in Frames /\ m.frame[f] # Null
      BY <1>1 DEF FramesInv
    <3>2. m.frame[f].updated \in Nat /\ m.frame[f].updated < 2 * time + 2
      BY <1>1, <3>1 DEF Frame, FramesInv
    <3> QED
      BY <3>1, <3>2
  <2>2. times \in SUBSET (0 .. 2 * time + 2) /\ times # {} /\ 2 * time + 2 \in Nat
    BY <2>1, <1>5
  <2> HIDE DEF times
  <2>3. Max(times) \in times /\ \A y \in times : Max(times) >= y
    BY <2>2, MaxIsGreatest
  <2> USE DEF times
  <2>4. PICK f \in fs : Max(times) = m.frame[f].updated
    BY <2>3
  <2>5. \A g \in fs : m.frame[g].updated <= m.frame[f].updated
    <3> SUFFICES ASSUME NEW g \in fs PROVE m.frame[g].updated <= m.frame[f].updated
      OBVIOUS
    <3>1. m.frame[g].updated \in times
      OBVIOUS
    <3> HIDE DEF times
    <3>2. m.frame[f].updated >= m.frame[g].updated
      BY <2>3, <2>4, <3>1
    <3> QED
      BY <3>2, <2>1
  <2> HIDE DEF fs, times
  <2>6. Latest(fs, m.frame) \in fs
    BY <2>4, <2>5, Zenon DEF Latest
  <2>7. MemActive(m, s) = IF fs = {} THEN Null ELSE Latest(fs, m.frame)
    BY Zenon DEF MemActive, fs
  <2>8. MemActive(m, s) \in fs
    BY <2>6, <2>7, <1>5
  <2> QED
    BY <1>3, <2>1, <2>8
<1> QED
  BY <1>3, <1>4, <1>5

\* A frame is written, and the active frame found out.
LEMMA FrameChanged ==
    ASSUME StoresInv, NEW s \in Existing, NEW f \in Frames, NEW status \in FrameStatuses,
           mem.frame[f] = Null \/ f \in mem.listed[s], FindsActive(s),
           LET v == [session |-> s, status |-> status, updated |-> Stamp]
           IN  /\ mem' = MemSync([mem EXCEPT !.frame = [mem.frame EXCEPT ![f] = v],
                                             !.listed = [mem.listed EXCEPT ![s] = mem.listed[s] \cup {f}]], s)
               /\ rel' = RelSync([rel EXCEPT !.frame = [rel.frame EXCEPT ![f] = v]], s)
    PROVE  StoresInv'
<1> DEFINE v == [session |-> s, status |-> status, updated |-> Stamp]
           frame  == [mem.frame EXCEPT ![f] = v]
           listed == [mem.listed EXCEPT ![s] = mem.listed[s] \cup {f}]
           m1 == [mem EXCEPT !.frame = frame, !.listed = listed]
           r1 == [rel EXCEPT !.frame = frame]
           a == MemActive(m1, s)
           m == [mem.row[s] EXCEPT !.active = a, !.updated = Stamp]
           r == [rel.row[s] EXCEPT !.active = a, !.updated = Stamp]
<1>1. /\ mem \in MemT /\ rel \in RelT /\ held \in Copy \cup {Null} /\ cut \subseteq Sessions
      /\ now \in Nat \ {0} /\ StoresParts(mem, rel, held, cut, now)
  BY DEF StoresInv, StoresTypeOK
<1>2. held' = held /\ cut' = cut \ {s} /\ now' = now + 1
  BY DEF FindsActive, Call
<1>3. /\ frame \in [Frames -> Frame \cup {Null}] /\ listed \in [Sessions -> SUBSET Frames]
      /\ FramesInv(frame, listed, frame, now + 1) /\ rel.frame = mem.frame
  <2>1. /\ mem.frame \in [Frames -> Frame \cup {Null}] /\ mem.listed \in [Sessions -> SUBSET Frames]
        /\ FramesInv(mem.frame, mem.listed, rel.frame, now) /\ now \in Nat
    BY <1>1 DEF MemT, StoresParts
  <2>2. v \in Frame /\ v.session = s /\ v.updated = 2 * now + 2 /\ s \in Sessions
    BY RowsOf DEF Frame, Stamp
  <2> HIDE DEF v
  <2>3. PICK g, l : g = mem.frame /\ l = mem.listed
    OBVIOUS
  <2>4. /\ [g EXCEPT ![f] = v] \in [Frames -> Frame \cup {Null}]
        /\ [l EXCEPT ![s] = l[s] \cup {f}] \in [Sessions -> SUBSET Frames]
        /\ FramesInv([g EXCEPT ![f] = v], [l EXCEPT ![s] = l[s] \cup {f}], [g EXCEPT ![f] = v], now + 1)
    BY <2>1, <2>2, <2>3, FrameWritten
  <2>5. rel.frame = mem.frame
    BY <2>1 DEF FramesInv
  <2> QED
    BY <2>3, <2>4, <2>5
<1>4. mem' = MemSync(m1, s) /\ rel' = RelSync(r1, s)
  BY <1>3
<1> HIDE DEF v, frame, listed
<1>5. m1 \in MemT /\ r1 \in RelT
  BY <1>1, <1>3 DEF MemT, RelT
<1>6. /\ m1.frame = frame /\ m1.listed = listed /\ r1.frame = frame
      /\ m1.row = mem.row /\ r1.row = rel.row
  BY <1>1 DEF MemT, RelT
<1>7. a = RelActive(r1, s) /\ a \in Frames \cup {Null}
  <2> HIDE DEF m1, r1
  <2>1. FramesInv(m1.frame, m1.listed, r1.frame, now + 1) /\ now + 1 \in Nat /\ s \in Sessions
    BY <1>1, <1>3, <1>6, RowsOf
  <2> QED
    BY <2>1, <1>5, ActiveFound
<1> HIDE DEF a
<1>8. /\ m \in Row /\ m.key = mem.row[s].key /\ m.last = mem.row[s].last /\ m.updated = Stamp
      /\ m.active = a /\ r \in Row /\ r.active = a
  BY <1>7, RowsOf DEF Row
<1>9. SameButActive(m, r)
  <2>1. SameButActive(mem.row[s], rel.row[s]) /\ mem.row[s] \in Row /\ rel.row[s] \in Row
    BY RowsOf, AlikeFields DEF Alike
  <2> QED
    BY <2>1 DEF SameButActive, Row
<1>10. /\ mem' = [mem EXCEPT !.row = [mem.row EXCEPT ![s] = m], !.frame = frame, !.listed = listed]
       /\ rel' = [rel EXCEPT !.row = [rel.row EXCEPT ![s] = r], !.frame = frame]
  <2>1. s \in Sessions /\ mem.row[s] \in Row /\ rel.row[s] \in Row
    BY RowsOf
  <2>2. mem' = [m1 EXCEPT !.row[s].active = a, !.row[s].updated = Stamp]
    BY <1>4 DEF MemSync, a
  <2>3. rel' = [r1 EXCEPT !.row[s].active = a, !.row[s].updated = Stamp]
    BY <1>4, <1>7 DEF RelSync
  <2> HIDE DEF m1, r1, a
  <2>4. mem' = [m1 EXCEPT !.row = [mem.row EXCEPT ![s] = m]]
    BY <1>1, <1>5, <1>6, <2>1, <2>2 DEF MemT, Row
  <2>5. rel' = [r1 EXCEPT !.row = [rel.row EXCEPT ![s] = r]]
    BY <1>1, <1>5, <1>6, <2>1, <2>3 DEF RelT, Row
  <2> HIDE DEF m, r
  <2> QED
    BY <1>1, <2>4, <2>5 DEF m1, r1, MemT, RelT
<1> HIDE DEF m1, r1, m, r
<1>11. Alike(m, r, s \in cut \ {s})
  BY <1>8, <1>9, AlikeFields DEF Alike
<1>12. RowParts([mem.row EXCEPT ![s] = m], [rel.row EXCEPT ![s] = r], mem.key, mem.log, held, cut \ {s}, now + 1)
  <2>1. /\ LastIn(m.last, mem.log[s]) /\ m.updated = 2 * now + 2 /\ s \in Sessions /\ mem.row[s] # Null
        /\ \A t \in Sessions \ {s} : t \in cut <=> t \in cut \ {s}
    BY <1>8, RowsOf DEF Stamp
  <2>2. RowParts(mem.row, rel.row, mem.key, mem.log, held, cut, now)
    BY <1>1 DEF StoresParts
  <2>3. PICK gone : gone = cut \ {s}
    OBVIOUS
  <2> QED
    BY <1>8, <1>11, <2>1, <2>2, <2>3, LongerSelf, RowWritten
<1>13. mem' \in MemT /\ rel' \in RelT
  BY <1>1, <1>3, <1>10, <1>12 DEF MemT, RelT, RowParts
<1>14. StoresParts(mem', rel', held, cut \ {s}, now + 1)
  BY <1>1, <1>3, <1>10, <1>12 DEF StoresParts, MemT, RelT
<1> QED
  BY <1>1, <1>2, <1>13, <1>14, StoresInvAfter, StampType

LEMMA FrameSaved ==
    ASSUME StoresInv, NEW s \in Existing, NEW f \in Frames, NEW status \in FrameStatuses,
           SaveFrame(s, f, status)
    PROVE  StoresInv'
<1> DEFINE v == [session |-> s, status |-> status, updated |-> Stamp]
<1>1. mem \in MemT /\ rel \in RelT /\ s \in Sessions
  BY RowsOf DEF StoresInv, StoresTypeOK
<1>2. (mem.frame[f] = Null \/ f \in mem.listed[s]) /\ FindsActive(s)
  BY DEF SaveFrame
<1> HIDE DEF v
<1>3. /\ [mem EXCEPT !.frame[f] = v, !.listed[s] = @ \cup {f}]
            = [mem EXCEPT !.frame = [mem.frame EXCEPT ![f] = v],
                          !.listed = [mem.listed EXCEPT ![s] = mem.listed[s] \cup {f}]]
      /\ [rel EXCEPT !.frame[f] = v] = [rel EXCEPT !.frame = [rel.frame EXCEPT ![f] = v]]
  BY <1>1 DEF MemT, RelT
<1>4. /\ mem' = MemSync([mem EXCEPT !.frame = [mem.frame EXCEPT ![f] = v],
                                    !.listed = [mem.listed EXCEPT ![s] = mem.listed[s] \cup {f}]], s)
      /\ rel' = RelSync([rel EXCEPT !.frame = [rel.frame EXCEPT ![f] = v]], s)
  BY <1>3 DEF SaveFrame, MemSaveFrame, RelSaveFrame, v
<1> QED
  BY <1>2, <1>4, FrameChanged DEF v

LEMMA FrameUpdated ==
    ASSUME StoresInv, NEW s \in Existing, NEW f \in Frames, NEW status \in FrameStatuses,
           UpdateFrame(s, f, status)
    PROVE  StoresInv'
<1> DEFINE v == [session |-> s, status |-> status, updated |-> Stamp]
<1>1. /\ mem \in MemT /\ rel \in RelT /\ s \in Sessions
      /\ FramesInv(mem.frame, mem.listed, rel.frame, now)
  BY RowsOf DEF StoresInv, StoresTypeOK, StoresParts
<1>2. f \in mem.listed[s] /\ FindsActive(s)
  BY DEF UpdateFrame
<1>3. mem.frame[f] \in Frame /\ mem.frame[f].session = s /\ rel.frame = mem.frame
  BY <1>1, <1>2 DEF MemT, FramesInv
<1>4. v = [[mem.frame[f] EXCEPT !.status = status] EXCEPT !.updated = Stamp]
  <2>1. PICK w : w = mem.frame[f]
    OBVIOUS
  <2>2. w = [session |-> s, status |-> w.status, updated |-> w.updated]
    BY <1>3, <2>1 DEF Frame
  <2> HIDE DEF v
  <2>3. PICK x : x = [w EXCEPT !.status = status]
    OBVIOUS
  <2>4. x = [session |-> s, status |-> status, updated |-> w.updated]
    BY <2>2, <2>3
  <2>5. v = [x EXCEPT !.updated = Stamp]
    BY <2>4 DEF v
  <2> QED
    BY <2>1, <2>3, <2>5
<1> HIDE DEF v
<1>5. mem.listed = [mem.listed EXCEPT ![s] = mem.listed[s] \cup {f}]
  BY <1>1, <1>2 DEF MemT
<1>6. /\ [mem EXCEPT !.frame[f].status = status, !.frame[f].updated = Stamp]
            = [mem EXCEPT !.frame = [mem.frame EXCEPT ![f] = v]]
      /\ [rel EXCEPT !.frame[f].status = status, !.frame[f].updated = Stamp]
            = [rel EXCEPT !.frame = [rel.frame EXCEPT ![f] = v]]
  BY <1>1, <1>3, <1>4 DEF MemT, RelT
<1>7. [mem EXCEPT !.frame = [mem.frame EXCEPT ![f] = v]]
            = [mem EXCEPT !.frame = [mem.frame EXCEPT ![f] = v],
                          !.listed = [mem.listed EXCEPT ![s] = mem.listed[s] \cup {f}]]
  BY <1>1, <1>5 DEF MemT
<1>8. /\ mem' = MemSync([mem EXCEPT !.frame = [mem.frame EXCEPT ![f] = v],
                                    !.listed = [mem.listed EXCEPT ![s] = mem.listed[s] \cup {f}]], s)
      /\ rel' = RelSync([rel EXCEPT !.frame = [rel.frame EXCEPT ![f] = v]], s)
  BY <1>6, <1>7, Zenon DEF UpdateFrame, MemUpdateFrame, RelUpdateFrame
<1> QED
  BY <1>2, <1>8, FrameChanged DEF v

-----------------------------------------------------------------------------
(* Processes *)

\* What is known of the process of s.
LEMMA ProcessOf ==
    ASSUME StoresInv, NEW s \in Sessions
    PROVE  /\ mem.snapshot[s] # Null => /\ MemSnapshot(s) = mem.snapshot[s] /\ RelProcess(s) = rel.process[s]
                                        /\ mem.snapshot[s] \in Snapshot
           /\ RelProcess(s) \in Process /\ RelProcess(s).next = Len(mem.events[s]) + 1
           /\ mem.events[s] \in Seq(Event) /\ Len(mem.events[s]) \in Nat /\ Stamp \in Nat
           /\ mem.snapshot[s] # Null =>
                 mem.snapshot[s] = [status |-> RelProcess(s).status, current |-> RelProcess(s).current,
                                    resumable |-> RelProcess(s).resumable, updated |-> RelProcess(s).updated]
<1>1. /\ mem \in MemT /\ rel \in RelT /\ now \in Nat \ {0}
      /\ ProcessInv(mem.snapshot, mem.events, rel.process, rel.activity)
  BY DEF StoresInv, StoresTypeOK, StoresParts
<1>2. /\ mem.snapshot[s] \in Snapshot \cup {Null} /\ rel.process[s] \in Process \cup {Null}
      /\ mem.events[s] \in Seq(Event)
  BY <1>1 DEF MemT, RelT
<1>3. Stamp \in Nat /\ Len(mem.events[s]) \in Nat
  BY <1>1, <1>2, StampType
<1>4. CASE mem.snapshot[s] = Null
  <2>1. rel.process[s] = Null /\ mem.events[s] = <<>>
    BY <1>1, <1>4 DEF ProcessInv
  <2>2. RelProcess(s) \in Process /\ RelProcess(s).next = 1
    BY <1>3, <2>1 DEF RelProcess, Process
  <2> QED
    BY <1>2, <1>3, <1>4, <2>1, <2>2
<1>5. CASE mem.snapshot[s] # Null
  <2>1. /\ rel.process[s] # Null /\ rel.process[s].next = Len(mem.events[s]) + 1
        /\ mem.snapshot[s] = [status |-> rel.process[s].status, current |-> rel.process[s].current,
                              resumable |-> rel.process[s].resumable, updated |-> rel.process[s].updated]
    BY <1>1, <1>5 DEF ProcessInv
  <2>2. RelProcess(s) = rel.process[s] /\ MemSnapshot(s) = mem.snapshot[s]
    BY <1>5, <2>1 DEF RelProcess, MemSnapshot
  <2> QED
    BY <1>2, <1>3, <1>5, <2>1, <2>2
<1> QED
  BY <1>4, <1>5

\* What is said about processes, with its types.
ProcessParts(snapshot, events, process, activity) ==
    /\ snapshot \in [Sessions -> Snapshot \cup {Null}] /\ events \in [Sessions -> Seq(Event)]
    /\ process \in [Sessions -> Process \cup {Null}]
    /\ activity \in SUBSET [session : Sessions, event : Event]
    /\ ProcessInv(snapshot, events, process, activity)

\* A process is written, and nothing published.
LEMMA ProcessSet ==
    ASSUME NEW snapshot, NEW events, NEW process, NEW activity,
           ProcessParts(snapshot, events, process, activity),
           NEW s \in Sessions, NEW p \in Process, p.next = Len(events[s]) + 1, NEW v \in Snapshot,
           v = [status |-> p.status, current |-> p.current, resumable |-> p.resumable, updated |-> p.updated]
    PROVE  ProcessParts([snapshot EXCEPT ![s] = v], events, [process EXCEPT ![s] = p], activity)
<1> DEFINE snapshot2 == [snapshot EXCEPT ![s] = v]
           process2 == [process EXCEPT ![s] = p]
<1>0. /\ snapshot \in [Sessions -> Snapshot \cup {Null}] /\ events \in [Sessions -> Seq(Event)]
      /\ process \in [Sessions -> Process \cup {Null}]
      /\ activity \in SUBSET [session : Sessions, event : Event]
      /\ ProcessInv(snapshot, events, process, activity)
  BY DEF ProcessParts
<1>1. /\ snapshot2[s] = v /\ process2[s] = p /\ v # Null /\ p # Null
      /\ \A t \in Sessions : t # s => snapshot2[t] = snapshot[t] /\ process2[t] = process[t]
  BY <1>0, StoresAssumption DEF StoresAssumption
<1>2. snapshot2 \in [Sessions -> Snapshot \cup {Null}] /\ process2 \in [Sessions -> Process \cup {Null}]
  BY <1>0
<1> HIDE DEF snapshot2, process2
<1>3. ASSUME NEW t \in Sessions
      PROVE  /\ snapshot2[t] = Null => process2[t] = Null /\ events[t] = <<>>
             /\ snapshot2[t] # Null =>
                   /\ process2[t] # Null /\ process2[t].next = Len(events[t]) + 1
                   /\ snapshot2[t] = [status |-> process2[t].status, current |-> process2[t].current,
                                      resumable |-> process2[t].resumable, updated |-> process2[t].updated]
  <2>1. CASE t = s
    BY <1>0, <2>1, <1>1
  <2>2. CASE t # s
    BY <1>0, <2>2, <1>1 DEF ProcessInv
  <2> QED
    BY <1>0, <2>1, <2>2
<1> QED
  BY <1>0, <1>2, <1>3 DEF ProcessInv, ProcessParts, snapshot2, process2

\* An event is published.
LEMMA EventPublished ==
    ASSUME NEW snapshot, NEW events, NEW process, NEW activity,
           ProcessParts(snapshot, events, process, activity),
           NEW s \in Sessions, NEW e \in Event, e.sequence = Len(events[s]) + 1,
           NEW p \in Process, p.next = Len(events[s]) + 2, NEW v \in Snapshot,
           v = [status |-> p.status, current |-> p.current, resumable |-> p.resumable, updated |-> p.updated]
    PROVE  ProcessParts([snapshot EXCEPT ![s] = v], [events EXCEPT ![s] = Append(events[s], e)],
                        [process EXCEPT ![s] = p], activity \cup {[session |-> s, event |-> e]})
<1> DEFINE snapshot2 == [snapshot EXCEPT ![s] = v]
           events2   == [events EXCEPT ![s] = Append(events[s], e)]
           process2  == [process EXCEPT ![s] = p]
           activity2 == activity \cup {[session |-> s, event |-> e]}
           n == Len(events[s])
<1>0. /\ snapshot \in [Sessions -> Snapshot \cup {Null}] /\ events \in [Sessions -> Seq(Event)]
      /\ process \in [Sessions -> Process \cup {Null}]
      /\ activity \in SUBSET [session : Sessions, event : Event]
      /\ ProcessInv(snapshot, events, process, activity)
  BY DEF ProcessParts
<1>1. /\ snapshot2[s] = v /\ process2[s] = p /\ v # Null /\ p # Null
      /\ \A t \in Sessions : t # s => snapshot2[t] = snapshot[t] /\ process2[t] = process[t]
  BY <1>0, StoresAssumption DEF StoresAssumption
<1>2. events[s] \in Seq(Event) /\ n \in Nat /\ DOMAIN events[s] = 1 .. n
  BY <1>0
<1>3. /\ events2[s] \in Seq(Event) /\ Len(events2[s]) = n + 1 /\ DOMAIN events2[s] = 1 .. n + 1
      /\ events2[s][n + 1] = e /\ \A i \in 1 .. n : events2[s][i] = events[s][i]
      /\ \A t \in Sessions : t # s => events2[t] = events[t]
  BY <1>0, <1>2
<1>4. /\ snapshot2 \in [Sessions -> Snapshot \cup {Null}] /\ events2 \in [Sessions -> Seq(Event)]
      /\ process2 \in [Sessions -> Process \cup {Null}]
      /\ activity2 \in SUBSET [session : Sessions, event : Event]
  BY <1>0, <1>2
<1>5. \A a \in activity2 : a \in activity \/ (a.session = s /\ a.event = e)
  BY <1>0
<1>6. activity \subseteq activity2 /\ [session |-> s, event |-> e] \in activity2
  BY <1>0
<1> HIDE DEF snapshot2, events2, process2, activity2
<1>7. ASSUME NEW t \in Sessions
      PROVE  /\ snapshot2[t] = Null => process2[t] = Null /\ events2[t] = <<>>
             /\ snapshot2[t] # Null =>
                   /\ process2[t] # Null /\ process2[t].next = Len(events2[t]) + 1
                   /\ snapshot2[t] = [status |-> process2[t].status, current |-> process2[t].current,
                                      resumable |-> process2[t].resumable, updated |-> process2[t].updated]
  <2>1. CASE t = s
    BY <1>0, <2>1, <1>1, <1>2, <1>3
  <2>2. CASE t # s
    BY <1>0, <2>2, <1>1, <1>3 DEF ProcessInv
  <2> QED
    BY <1>0, <2>1, <2>2
<1>8. ASSUME NEW t \in Sessions, NEW i \in DOMAIN events2[t]
      PROVE  events2[t][i].sequence = i /\ [session |-> t, event |-> events2[t][i]] \in activity2
  <2>1. CASE t # s
    BY <1>0, <2>1, <1>3, <1>6, <1>8 DEF ProcessInv
  <2>2. CASE t = s /\ i \in 1 .. n
    <3>1. events2[t][i] = events[s][i] /\ i \in DOMAIN events[s]
      BY <1>0, <2>2, <1>2, <1>3
    <3>2. events[s][i].sequence = i /\ [session |-> s, event |-> events[s][i]] \in activity
      BY <1>0, <3>1 DEF ProcessInv
    <3> QED
      BY <1>0, <2>2, <3>1, <3>2, <1>6
  <2>3. CASE t = s /\ i \notin 1 .. n
    <3>1. i = n + 1
      BY <1>0, <2>3, <1>2, <1>3, <1>8
    <3> QED
      BY <1>0, <2>3, <3>1, <1>3, <1>6
  <2> QED
    BY <1>0, <2>1, <2>2, <2>3
<1>9. ASSUME NEW t \in Sessions, NEW a \in activity2, a.session = t
      PROVE  \E i \in DOMAIN events2[t] : a.event = events2[t][i]
  <2>1. CASE a.session = s /\ a.event = e
    <3>1. t = s /\ n + 1 \in DOMAIN events2[s]
      BY <1>0, <2>1, <1>2, <1>3, <1>9
    <3> QED
      BY <1>0, <2>1, <3>1, <1>3
  <2>2. CASE a \in activity
    <3>1. PICK i \in DOMAIN events[t] : a.event = events[t][i]
      BY <1>0, <2>2, <1>9 DEF ProcessInv
    <3>2. CASE t # s
      BY <1>0, <3>1, <3>2, <1>3
    <3>3. CASE t = s
      <4>1. i \in DOMAIN events2[t] /\ events2[t][i] = events[t][i]
        BY <1>0, <3>1, <3>3, <1>2, <1>3
      <4> QED
        BY <1>0, <3>1, <4>1
    <3> QED
      BY <1>0, <3>2, <3>3
  <2> QED
    BY <1>0, <2>1, <2>2, <1>5
<1>10. ProcessInv(snapshot2, events2, process2, activity2)
  BY <1>0, <1>7, <1>8, <1>9 DEF ProcessInv
<1> QED
  BY <1>0, <1>4, <1>10 DEF ProcessParts, snapshot2, events2, process2, activity2

StartedIn(ev)          == Cardinality({i \in DOMAIN ev : ev[i].status = "started"})
StartedOf(s, activity) == Cardinality({a \in activity : a.session = s /\ a.event.status = "started"})

\* As many activities were started in one store as in the other.
LEMMA StartedAlike ==
    ASSUME NEW snapshot, NEW events, NEW process, NEW activity,
           ProcessParts(snapshot, events, process, activity), NEW s \in Sessions
    PROVE  StartedIn(events[s]) \in Nat /\ StartedIn(events[s]) = StartedOf(s, activity)
<1> DEFINE ev == events[s]
           I == {i \in DOMAIN ev : ev[i].status = "started"}
           A == {a \in activity : a.session = s /\ a.event.status = "started"}
           b == [i \in I |-> [session |-> s, event |-> ev[i]]]
<1>0. /\ snapshot \in [Sessions -> Snapshot \cup {Null}] /\ events \in [Sessions -> Seq(Event)]
      /\ process \in [Sessions -> Process \cup {Null}]
      /\ activity \in SUBSET [session : Sessions, event : Event]
      /\ ProcessInv(snapshot, events, process, activity)
  BY DEF ProcessParts
<1>1. ev \in Seq(Event) /\ Len(ev) \in Nat /\ I \subseteq 1 .. Len(ev)
  BY <1>0
<1>2. IsFiniteSet(I)
  <2>1. IsFiniteSet(1 .. Len(ev))
    BY <1>0, <1>1, FS_Interval
  <2> HIDE DEF I
  <2> QED
    BY <1>0, <1>1, <2>1, FS_Subset, Zenon
<1>3. ASSUME NEW i \in I PROVE ev[i].sequence = i /\ [session |-> s, event |-> ev[i]] \in A
  BY <1>0, <1>3 DEF ProcessInv
<1>4. ASSUME NEW a \in A PROVE \E i \in I : b[i] = a
  <2>1. a \in [session : Sessions, event : Event] /\ a.session = s /\ a.event.status = "started"
    BY <1>0
  <2>2. PICK i \in DOMAIN ev : a.event = ev[i]
    BY <1>0, <2>1 DEF ProcessInv
  <2>3. i \in I /\ a = [session |-> s, event |-> ev[i]]
    BY <1>0, <2>1, <2>2
  <2> QED
    BY <1>0, <2>3
<1>5. ASSUME NEW i \in I, NEW j \in I, b[i] = b[j] PROVE i = j
  <2>1. ev[i] = ev[j]
    BY <1>0, <1>5
  <2> QED
    BY <1>0, <2>1, <1>3
<1>6. b \in [I -> A]
  BY <1>0, <1>3
<1> HIDE DEF I, A, b
<1>7. b \in Bijection(I, A)
  BY <1>0, <1>4, <1>5, <1>6 DEF Bijection, Injection, Surjection, IsInjective
<1>8. Cardinality(A) = Cardinality(I) /\ Cardinality(I) \in Nat
  BY <1>0, <1>2, <1>7, FS_Bijection, FS_CardinalityType, Zenon DEF ExistsBijection
<1> QED
  BY <1>8 DEF I, A, StartedIn, StartedOf

\* Nothing but snapshots, events, processes and activities is written.
LEMMA ProcessesWritten ==
    ASSUME StoresInv, Call, held' = held, cut' = cut,
           NEW snapshot, NEW events, NEW process, NEW activity,
           ProcessParts(snapshot, events, process, activity),
           mem' = [mem EXCEPT !.snapshot = snapshot, !.events = events],
           rel' = [rel EXCEPT !.process = process, !.activity = activity]
    PROVE  StoresInv'
<1>1. /\ mem \in MemT /\ rel \in RelT /\ held \in Copy \cup {Null} /\ cut \subseteq Sessions
      /\ now \in Nat \ {0} /\ StoresParts(mem, rel, held, cut, now)
  BY DEF StoresInv, StoresTypeOK
<1>2. held' = held /\ cut' = cut /\ now' = now + 1
  BY DEF Call
<1>3. mem' \in MemT /\ rel' \in RelT
  BY <1>1 DEF MemT, RelT, ProcessParts
<1>4. RowParts(mem.row, rel.row, mem.key, mem.log, held, cut, now + 1)
  BY <1>1, RowsKept, LongerSelf DEF StoresParts
<1>5. StoresParts(mem', rel', held, cut, now + 1)
  BY <1>1, <1>4, FramesKept DEF StoresParts, ProcessParts, MemT, RelT
<1> QED
  BY <1>1, <1>2, <1>3, <1>5, StoresInvAfter, StampType

\* The process of s becomes p, and its snapshot says so.
LEMMA ProcessBecomes ==
    ASSUME StoresInv, NEW s \in Sessions, NEW p \in Process, p.next = RelProcess(s).next,
           Call, held' = held /\ cut' = cut, NEW v \in Snapshot,
           v = [status |-> p.status, current |-> p.current, resumable |-> p.resumable, updated |-> p.updated],
           mem' = [mem EXCEPT !.snapshot[s] = v], rel' = [rel EXCEPT !.process[s] = p]
    PROVE  StoresInv'
<1>1. /\ mem \in MemT /\ rel \in RelT
      /\ ProcessInv(mem.snapshot, mem.events, rel.process, rel.activity)
  BY DEF StoresInv, StoresTypeOK, StoresParts
<1>2. ProcessParts(mem.snapshot, mem.events, rel.process, rel.activity)
  BY <1>1 DEF MemT, RelT, ProcessParts
<1>3. ProcessParts([mem.snapshot EXCEPT ![s] = v], mem.events, [rel.process EXCEPT ![s] = p], rel.activity)
  BY <1>2, ProcessOf, ProcessSet
<1>4. /\ mem' = [mem EXCEPT !.snapshot = [mem.snapshot EXCEPT ![s] = v], !.events = mem.events]
      /\ rel' = [rel EXCEPT !.process = [rel.process EXCEPT ![s] = p], !.activity = rel.activity]
  BY <1>1 DEF MemT, RelT
<1> QED
  <2>1. PICK snapshot, events, process, activity :
            /\ snapshot = [mem.snapshot EXCEPT ![s] = v] /\ events = mem.events
            /\ process = [rel.process EXCEPT ![s] = p] /\ activity = rel.activity
    OBVIOUS
  <2>2. ProcessParts(snapshot, events, process, activity)
    BY <1>3, <2>1
  <2>3. /\ mem' = [mem EXCEPT !.snapshot = snapshot, !.events = events]
        /\ rel' = [rel EXCEPT !.process = process, !.activity = activity]
    BY <1>4, <2>1
  <2> QED
    BY <2>2, <2>3, ProcessesWritten

LEMMA ProcessBegun ==
    ASSUME StoresInv, NEW s \in Existing, BeginProcess(s)
    PROVE  StoresInv'
<1> DEFINE p == [RelProcess(s) EXCEPT !.status = "working", !.current = Null, !.resumable = FALSE, !.updated = Stamp]
           v == [status |-> "working", current |-> Null, resumable |-> FALSE, updated |-> Stamp]
<1>1. s \in Sessions /\ RelProcess(s) \in Process /\ Stamp \in Nat
  BY RowsOf, ProcessOf
<1>2. p \in Process /\ p.next = RelProcess(s).next
  BY <1>1 DEF Process
<1>3. v \in Snapshot
  BY <1>1 DEF Snapshot
<1>4. v = [status |-> p.status, current |-> p.current, resumable |-> p.resumable, updated |-> p.updated]
  BY <1>1 DEF Process
<1> HIDE DEF p, v
<1>5. /\ mem' = [mem EXCEPT !.snapshot[s] = v] /\ rel' = [rel EXCEPT !.process[s] = p]
      /\ Call /\ held' = held /\ cut' = cut
  BY DEF BeginProcess, Both, MemBegin, RelBegin, p, v
<1> QED
  BY <1>1, <1>2, <1>3, <1>4, <1>5, ProcessBecomes

LEMMA ProcessFinished ==
    ASSUME StoresInv, NEW s \in Existing, NEW status \in Ends, FinishProcess(s, status)
    PROVE  StoresInv'
<1> DEFINE q == RelProcess(s)
           w == mem.snapshot[s]
           waiting == (status = "waiting_user")
           p == [q EXCEPT !.status = status, !.current = Null, !.resumable = waiting, !.updated = Stamp]
           v == [w EXCEPT !.status = status, !.current = Null, !.resumable = waiting, !.updated = Stamp]
<1>1. s \in Sessions /\ q \in Process /\ Stamp \in Nat /\ mem.snapshot[s] # Null
  BY RowsOf, ProcessOf DEF FinishProcess
<1>2. MemSnapshot(s) = w /\ w \in Snapshot
  BY <1>1, ProcessOf
<1>3. /\ mem' = [mem EXCEPT !.snapshot[s] = v] /\ rel' = [rel EXCEPT !.process[s] = p]
      /\ Call /\ held' = held /\ cut' = cut
  BY <1>2 DEF FinishProcess, Both, MemFinish, RelFinish
<1> HIDE DEF q, w
<1>4. p \in Process /\ p.next = q.next
  BY <1>1 DEF Process
<1>5. v \in Snapshot
  BY <1>1, <1>2 DEF Snapshot
<1>6. /\ v.status = status /\ v.current = Null /\ v.resumable = waiting /\ v.updated = Stamp
      /\ p.status = status /\ p.current = Null /\ p.resumable = waiting /\ p.updated = Stamp
  BY <1>1, <1>2 DEF Process, Snapshot
<1> HIDE DEF p, v
<1>7. v = [status |-> p.status, current |-> p.current, resumable |-> p.resumable, updated |-> p.updated]
  BY <1>5, <1>6 DEF Snapshot
<1> QED
  BY <1>1, <1>3, <1>4, <1>5, <1>7, ProcessBecomes DEF q

LEMMA ActivityPublished ==
    ASSUME StoresInv, NEW s \in Existing, NEW status \in Activities, PublishActivity(s, status)
    PROVE  StoresInv'
<1> DEFINE q == RelProcess(s)
           w == mem.snapshot[s]
           n == Len(mem.events[s])
           started == StartedIn(mem.events[s])
           e == [sequence |-> n + 1, status |-> status,
                 occurrence |-> IF status = "started" \/ started = 0 THEN started ELSE started - 1]
           current == IF status \in {"started", "waiting"} THEN e ELSE Null
           p == [q EXCEPT !.next = q.next + 1, !.updated = Stamp, !.current = current]
           v == [w EXCEPT !.current = current, !.updated = Stamp]
<1>1. /\ mem \in MemT /\ rel \in RelT
      /\ ProcessInv(mem.snapshot, mem.events, rel.process, rel.activity)
  BY DEF StoresInv, StoresTypeOK, StoresParts
<1>2. /\ s \in Sessions /\ q \in Process /\ Stamp \in Nat /\ mem.snapshot[s] # Null /\ n \in Nat
      /\ q.next = n + 1 /\ MemSnapshot(s) = w /\ w \in Snapshot
      /\ w = [status |-> q.status, current |-> q.current, resumable |-> q.resumable, updated |-> q.updated]
  BY RowsOf, ProcessOf DEF PublishActivity
<1>3. ProcessParts(mem.snapshot, mem.events, rel.process, rel.activity)
  BY <1>1 DEF MemT, RelT, ProcessParts
<1>4. /\ started \in Nat
      /\ started = StartedOf(s, rel.activity)
  <2>1. s \in Sessions
    BY <1>2
  <2> QED
    BY <1>3, <2>1, StartedAlike
<1> HIDE DEF started, q, w, n
<1>6. e \in Event /\ e.sequence = n + 1
  BY <1>2, <1>4 DEF Event
<1>7. /\ mem' = [mem EXCEPT !.events[s] = Append(@, e), !.snapshot[s] = v]
      /\ rel' = [rel EXCEPT !.activity = @ \cup {[session |-> s, event |-> e]}, !.process[s] = p]
      /\ Call /\ held' = held /\ cut' = cut
  <2>1. mem' = MemPublish(s, status) /\ rel' = RelPublish(s, status) /\ Call /\ held' = held /\ cut' = cut
    BY DEF PublishActivity, Both
  <2>2. mem' = [mem EXCEPT !.events[s] = Append(@, e), !.snapshot[s] = v]
    BY <2>1, <1>2, Zenon DEF MemPublish, StartedIn, started, n
  <2>3. rel' = [rel EXCEPT !.activity = @ \cup {[session |-> s, event |-> e]}, !.process[s] = p]
    BY <2>1, <1>2, <1>4, Zenon DEF RelPublish, StartedOf, q
  <2> QED
    BY <2>1, <2>2, <2>3
<1> HIDE DEF e
<1>8. current \in Event \cup {Null}
  BY <1>6
<1> HIDE DEF current
<1>9. /\ p \in Process /\ p.next = n + 2 /\ p.status = q.status /\ p.current = current
      /\ p.resumable = q.resumable /\ p.updated = Stamp
  <2>1. q \in Process /\ q.next + 1 = n + 2 /\ q.next + 1 \in Nat /\ Stamp \in Nat
    BY <1>2
  <2> QED
    BY <2>1, <1>8 DEF Process
<1>10. /\ v \in Snapshot /\ v.status = q.status /\ v.current = current
       /\ v.resumable = q.resumable /\ v.updated = Stamp
  <2>1. w \in Snapshot /\ w.status = q.status /\ w.resumable = q.resumable /\ Stamp \in Nat
    BY <1>2
  <2> QED
    BY <2>1, <1>8 DEF Snapshot
<1> HIDE DEF p, v
<1>11. v = [status |-> p.status, current |-> p.current, resumable |-> p.resumable, updated |-> p.updated]
  BY <1>9, <1>10 DEF Snapshot
<1>12. ProcessParts([mem.snapshot EXCEPT ![s] = v], [mem.events EXCEPT ![s] = Append(mem.events[s], e)],
                    [rel.process EXCEPT ![s] = p], rel.activity \cup {[session |-> s, event |-> e]})
  <2>1. /\ s \in Sessions /\ e \in Event /\ p \in Process /\ v \in Snapshot
        /\ e.sequence = Len(mem.events[s]) + 1 /\ p.next = Len(mem.events[s]) + 2
    BY <1>2, <1>6, <1>9, <1>10 DEF n
  <2> QED
    BY <1>3, <1>11, <2>1, EventPublished
<1>13. mem' = [mem EXCEPT !.snapshot = [mem.snapshot EXCEPT ![s] = v],
                          !.events = [mem.events EXCEPT ![s] = Append(mem.events[s], e)]]
  BY <1>1, <1>7 DEF MemT
<1>14. rel' = [rel EXCEPT !.process = [rel.process EXCEPT ![s] = p],
                          !.activity = rel.activity \cup {[session |-> s, event |-> e]}]
  BY <1>1, <1>7 DEF RelT
<1> QED
  <2>1. PICK snapshot, events, process, activity :
            /\ snapshot = [mem.snapshot EXCEPT ![s] = v]
            /\ events = [mem.events EXCEPT ![s] = Append(mem.events[s], e)]
            /\ process = [rel.process EXCEPT ![s] = p]
            /\ activity = rel.activity \cup {[session |-> s, event |-> e]}
    OBVIOUS
  <2>2. ProcessParts(snapshot, events, process, activity)
    BY <1>12, <2>1
  <2>3. /\ mem' = [mem EXCEPT !.snapshot = snapshot, !.events = events]
        /\ rel' = [rel EXCEPT !.process = process, !.activity = activity]
    BY <1>13, <1>14, <2>1
  <2> QED
    BY <1>7, <2>2, <2>3, ProcessesWritten

-----------------------------------------------------------------------------
(* The invariant *)

\* Every call of the runtime, whether it goes through or is refused and however
\* old the copy of a session that it saves, leaves the rows, keys, messages,
\* frames and processes of both stores alike.
THEOREM StoresInvariant == StoresSpec => []StoresInv
<1>1. StoresInit => StoresInv
  <2> SUFFICES ASSUME StoresInit PROVE StoresInv
    OBVIOUS
  <2>1. mem \in MemT /\ rel \in RelT /\ now \in Nat \ {0} /\ held = Null /\ cut = {}
    BY DEF StoresInit, MemT, RelT
  <2>2. /\ mem.row = [s \in Sessions |-> Null] /\ mem.key = [k \in Keys |-> Null]
        /\ mem.log = [s \in Sessions |-> <<>>] /\ mem.frame = [f \in Frames |-> Null]
        /\ mem.listed = [s \in Sessions |-> {}] /\ mem.snapshot = [s \in Sessions |-> Null]
        /\ mem.events = [s \in Sessions |-> <<>>]
    BY DEF StoresInit
  <2>3. /\ rel.row = [s \in Sessions |-> Null] /\ rel.message = {} /\ rel.frame = [f \in Frames |-> Null]
        /\ rel.process = [s \in Sessions |-> Null] /\ rel.activity = {}
    BY DEF StoresInit
  <2>4. RowParts(mem.row, rel.row, mem.key, mem.log, held, cut, now)
    BY <2>1, <2>2, <2>3 DEF RowParts, RowsInv, HeldInv, KeysInv, TimesInv, MemT, RelT
  <2>5. MessagesInv(mem.log, rel.message)
    BY <2>2, <2>3 DEF MessagesInv
  <2>6. FramesInv(mem.frame, mem.listed, rel.frame, now)
    BY <2>2, <2>3 DEF FramesInv
  <2>7. ProcessInv(mem.snapshot, mem.events, rel.process, rel.activity)
    BY <2>2, <2>3 DEF ProcessInv
  <2> QED
    BY <2>1, <2>4, <2>5, <2>6, <2>7 DEF StoresInv, StoresTypeOK, StoresParts
<1>2. StoresInv /\ [StoresNext]_storesVars => StoresInv'
  <2> SUFFICES ASSUME StoresInv, [StoresNext]_storesVars PROVE StoresInv'
    OBVIOUS
  <2>1. CASE UNCHANGED storesVars
    <3>1. /\ mem' = mem /\ rel' = rel /\ held' = held /\ cut' = cut /\ now' = now
      BY <2>1 DEF storesVars
    <3> QED
      BY <3>1, StoresInvAfter DEF StoresInv, StoresTypeOK
  <2>2. ASSUME NEW s \in Sessions, NEW k \in Keys, GetOrCreate(s, k) PROVE StoresInv'
    BY <2>2, SessionFoundOrCreated
  <2>3. ASSUME NEW s \in Sessions, NEW k \in Keys, NEW manual \in BOOLEAN, CreateSession(s, k, manual)
        PROVE  StoresInv'
    BY <2>3, SessionCreated DEF CreateSession
  <2>4. ASSUME NEW status \in {"active"} \cup (IF held = Null THEN {} ELSE {held.mem.status}),
               SaveSession(status)
        PROVE  StoresInv'
    <3>1. status \in {"active", "archived"}
      BY <2>4 DEF StoresInv, StoresTypeOK, Copy, Row, SaveSession
    <3> QED
      BY <2>4, <3>1, SessionSaved
  <2>5. ASSUME NEW s \in Existing,
               \/ RenameSession(s) \/ ArchiveSession(s) \/ GetSession(s) \/ BeginProcess(s)
               \/ \E kind \in Kinds : \E created \in {Stamp - 3, Stamp - 1} : AppendMessage(s, kind, created)
               \/ \E f \in Frames : \E status \in FrameStatuses : SaveFrame(s, f, status) \/ UpdateFrame(s, f, status)
               \/ \E status \in Ends : FinishProcess(s, status)
               \/ \E status \in Activities : PublishActivity(s, status)
        PROVE  StoresInv'
    BY <2>5, SessionRenamed, SessionArchived, SessionRead, ProcessBegun, MessageAppended, FrameSaved,
       FrameUpdated, ProcessFinished, ActivityPublished
  <2> QED
    BY <2>1, <2>2, <2>3, <2>4, <2>5 DEF StoresNext
<1> QED
  BY <1>1, <1>2, PTL DEF StoresSpec

-----------------------------------------------------------------------------
(* What the stores answer *)

\* Recent activities: those appended are those sorted by their number.
LEMMA RecentAlike ==
    ASSUME StoresInv, NEW s \in Sessions, NEW limit
    PROVE  MemRecent(s, limit) = RelRecent(s, limit)
<1> DEFINE ev == mem.events[s]
           D == {i \in DOMAIN ev : ev[i].status = "completed"}
           before == {p \in D \X D : p[1] < p[2]}
           order == Ordered(D, before)
           n == Cardinality(D)
           q == [k \in 1 .. n |-> ev[order[k]]]
           S == {a.event : a \in {a \in rel.activity : a.session = s /\ a.event.status = "completed"}}
           first == {p \in S \X S : p[1].sequence < p[2].sequence}
<1>1. /\ ev \in Seq(Event) /\ Len(ev) \in Nat /\ DOMAIN ev = 1 .. Len(ev)
      /\ rel.activity \in SUBSET [session : Sessions, event : Event]
      /\ ProcessInv(mem.snapshot, mem.events, rel.process, rel.activity)
  <2>1. ev \in Seq(Event)
    BY ProcessOf
  <2>2. rel \in RelT /\ ProcessInv(mem.snapshot, mem.events, rel.process, rel.activity)
    BY Zenon DEF StoresInv, StoresTypeOK, StoresParts
  <2>3. rel.activity \in SUBSET [session : Sessions, event : Event]
    BY <2>2 DEF RelT
  <2> HIDE DEF ev
  <2> QED
    BY <2>1, <2>2, <2>3
<1>2. D \subseteq 1 .. Len(ev) /\ \A i \in D : i \in Nat
  BY <1>1
<1>3. IsFiniteSet(D)
  <2>1. IsFiniteSet(1 .. Len(ev))
    BY <1>1, FS_Interval
  <2> HIDE DEF D
  <2> QED
    BY <1>2, <2>1, FS_Subset, Zenon
<1>4. ASSUME NEW i \in D PROVE ev[i].sequence = i /\ ev[i] \in S
  <2>1. ev[i].sequence = i /\ [session |-> s, event |-> ev[i]] \in rel.activity /\ ev[i].status = "completed"
    BY <1>1 DEF ProcessInv
  <2> DEFINE a == [session |-> s, event |-> ev[i]]
  <2>2. a.session = s /\ a.event = ev[i]
    OBVIOUS
  <2>3. a \in {b \in rel.activity : b.session = s /\ b.event.status = "completed"}
    BY <2>1, <2>2
  <2> HIDE DEF a
  <2>4. a.event \in S
    BY <2>3
  <2> QED
    BY <2>1, <2>2, <2>4
<1>5. ASSUME NEW e \in S PROVE \E i \in D : ev[i] = e
  <2>1. PICK a \in rel.activity : a.session = s /\ a.event.status = "completed" /\ e = a.event
    OBVIOUS
  <2>2. PICK i \in DOMAIN ev : a.event = ev[i]
    BY <1>1, <2>1 DEF ProcessInv
  <2> QED
    BY <2>1, <2>2
<1> HIDE DEF D, S
<1>6. /\ order \in [1 .. n -> D] /\ n \in Nat
      /\ \A i \in D : \E k \in 1 .. n : order[k] = i
      /\ \A j, k \in 1 .. n : <<order[j], order[k]>> \in before <=> j < k
  <2>1. \A x \in D : <<x, x>> \notin before
    BY <1>2
  <2>2. \A x, y \in D : x # y => <<x, y>> \in before \/ <<y, x>> \in before
    BY <1>2
  <2>3. \A x, y, z \in D : <<x, y>> \in before /\ <<y, z>> \in before => <<x, z>> \in before
    BY <1>2
  <2> HIDE DEF before
  <2> QED
    BY <1>3, <2>1, <2>2, <2>3, OrderedLists
<1> HIDE DEF order
<1>7. ASSUME NEW j \in 1 .. n, NEW k \in 1 .. n PROVE order[j] < order[k] <=> j < k
  <2>1. order[j] \in D /\ order[k] \in D
    BY <1>6
  <2> QED
    BY <1>6, <2>1
<1> HIDE DEF n
<1>8. q \in Seq(S) /\ DOMAIN q = 1 .. n /\ Len(q) = n
  BY <1>4, <1>6
<1>9. \A e \in S : \E k \in DOMAIN q : q[k] = e
  <2> SUFFICES ASSUME NEW e \in S PROVE \E k \in 1 .. n : q[k] = e
    BY <1>8
  <2>1. PICK i \in D : ev[i] = e
    BY <1>5
  <2>2. PICK k \in 1 .. n : order[k] = i
    BY <1>6
  <2> QED
    BY <2>1, <2>2
<1>10. \A j, k \in DOMAIN q : <<q[j], q[k]>> \in first <=> j < k
  <2> SUFFICES ASSUME NEW j \in 1 .. n, NEW k \in 1 .. n PROVE <<q[j], q[k]>> \in first <=> j < k
    BY <1>8
  <2>1. order[j] \in D /\ order[k] \in D
    BY <1>6
  <2>2. /\ q[j] \in S /\ q[k] \in S /\ q[j].sequence = order[j] /\ q[k].sequence = order[k]
    BY <1>4, <2>1
  <2> QED
    BY <1>7, <2>2
<1> HIDE DEF q, first
<1>11. Ordered(S, first) = q
  BY <1>8, <1>9, <1>10, OrderedIs
<1>12. MemRecent(s, limit) = LastOf(q, limit)
  BY Zenon DEF MemRecent, q, n, order, before, D
<1>13. RelRecent(s, limit) = LastOf(Ordered(S, first), limit)
  BY Zenon DEF RelRecent, S, first
<1> QED
  BY <1>11, <1>12, <1>13

\* The first half of StoresAgree follows from the invariant.
LEMMA RowsAgreeHolds ==
    ASSUME StoresInv
    PROVE  RowsAgree
<1>1. /\ mem \in MemT /\ rel \in RelT /\ now \in Nat \ {0} /\ RowsInv(mem.row, rel.row, cut)
      /\ FramesInv(mem.frame, mem.listed, rel.frame, now)
      /\ ProcessInv(mem.snapshot, mem.events, rel.process, rel.activity)
  BY DEF StoresInv, StoresTypeOK, StoresParts, RowParts
<1>2. ASSUME NEW s \in Sessions
      PROVE  /\ mem.row[s] = Null <=> rel.row[s] = Null
             /\ mem.row[s] # Null =>
                   /\ mem.row[s] = [rel.row[s] EXCEPT !.active = mem.row[s].active]
                   /\ s \notin cut => mem.row[s].active = rel.row[s].active
                   /\ rel.row[s].active \in {mem.row[s].active, Null}
  BY <1>1 DEF RowsInv, Alike
<1>3. ASSUME NEW s \in Sessions PROVE MemActive(mem, s) = RelActive(rel, s)
  BY <1>1, ActiveFound
<1>4. ASSUME NEW s \in Sessions, NEW status \in FrameStatuses PROVE MemFrames(s, status) = RelFrames(s, status)
  <2>1. mem.listed[s] \subseteq Frames /\ rel.frame = mem.frame
    BY <1>1 DEF MemT, FramesInv
  <2>2. \A f \in Frames : f \in mem.listed[s] <=> mem.frame[f] # Null /\ mem.frame[f].session = s
    BY <1>1 DEF FramesInv
  <2> QED
    BY <2>1, <2>2 DEF MemFrames, RelFrames
<1>5. ASSUME NEW s \in Sessions PROVE MemSnapshot(s) = RelSnapshot(s)
  BY <1>1 DEF ProcessInv, MemSnapshot, RelSnapshot
<1> QED
  BY <1>2, <1>3, <1>4, <1>5, RecentAlike DEF RowsAgree

-----------------------------------------------------------------------------
(* What the stores list *)

\* Both have the messages that were appended.
LEMMA MessagesAlike ==
    ASSUME StoresInv, NEW s \in Sessions
    PROVE  /\ mem.log[s] \in Seq(Message) /\ ToSet(mem.log[s]) = {m \in rel.message : m.session = s}
           /\ InOrder(s) => RelLog(s) = mem.log[s]
<1> DEFINE log == mem.log[s]
           ms == {m \in rel.message : m.session = s}
           before == {p \in ms \X ms : p[1].created < p[2].created}
<1>1. mem \in MemT /\ MessagesInv(mem.log, rel.message)
  BY Zenon DEF StoresInv, StoresTypeOK, StoresParts
<1>2. log \in Seq(Message)
  BY <1>1 DEF MemT
<1>3. \A i \in DOMAIN log : log[i] \in ms
  BY <1>1 DEF MessagesInv
<1>4. \A m \in ms : \E i \in DOMAIN log : log[i] = m
  BY <1>1 DEF MessagesInv
<1>5. InOrder(s) => RelLog(s) = log
  <2> SUFFICES ASSUME InOrder(s) PROVE RelLog(s) = log
    OBVIOUS
  <2>1. \A i, j \in DOMAIN log : i < j => log[i].created < log[j].created
    BY DEF InOrder
  <2>2. ASSUME NEW i \in DOMAIN log PROVE log[i].created \in Nat
    <3>1. log[i] \in Message
      BY <1>2
    <3> QED
      BY <3>1 DEF Message
  <2> HIDE DEF log, ms
  <2>3. Len(log) \in Nat /\ DOMAIN log = 1 .. Len(log) /\ log \in Seq(ms)
    BY <1>2, <1>3
  <2>4. ASSUME NEW i \in DOMAIN log, NEW j \in DOMAIN log PROVE <<log[i], log[j]>> \in before <=> i < j
    <3>1. log[i] \in ms /\ log[j] \in ms /\ log[i].created \in Nat /\ log[j].created \in Nat
          /\ i \in Nat /\ j \in Nat
      BY <1>3, <2>2, <2>3
    <3>2. <<log[i], log[j]>> \in before <=> log[i].created < log[j].created
      BY <3>1
    <3>3. j < i => log[j].created < log[i].created
      BY <2>1
    <3>4. i < j => log[i].created < log[j].created
      BY <2>1
    <3>5. i = j \/ i < j \/ j < i
      BY <3>1
    <3> HIDE DEF before
    <3> QED
      BY <3>1, <3>2, <3>3, <3>4, <3>5
  <2> HIDE DEF before
  <2>5. Ordered(ms, before) = log
    BY <1>4, <2>3, <2>4, OrderedIs
  <2> QED
    BY <2>5, Zenon DEF RelLog, before, ms
<1> QED
  BY <1>2, <1>3, <1>4, <1>5 DEF ToSet

\* The last elements of a sequence.
LEMMA LastOfIs ==
    ASSUME NEW S, NEW seq \in Seq(S), NEW limit \in Nat
    PROVE  \E c \in 0 .. Len(seq) :
              /\ c = limit \/ c = Len(seq)
              /\ LastOf(seq, limit) \in Seq(S) /\ DOMAIN LastOf(seq, limit) = 1 .. c
              /\ \A i \in 1 .. c : LastOf(seq, limit)[i] = seq[Len(seq) - c + i]
<1> DEFINE n == Len(seq)
           c == Min({limit, n})
<1>1. n \in Nat
  OBVIOUS
<1>2. c \in Nat /\ c <= n /\ c \in {limit, n}
  <2>1. limit \in Int /\ n \in Int
    BY <1>1
  <2> HIDE DEF n
  <2>2. c \in Int /\ c <= limit /\ c <= n /\ c \in {limit, n}
    BY <2>1, MinOfTwo, Zenon
  <2> HIDE DEF c
  <2> QED
    BY <1>1, <2>2
<1> HIDE DEF c
<1>3. n - c + 1 \in 1 .. n + 1 /\ n - (n - c + 1) + 1 = c
  BY <1>1, <1>2
<1>4. LastOf(seq, limit) = SubSeq(seq, n - c + 1, n)
  BY Zenon DEF LastOf, c
<1>5. SubSeq(seq, n - c + 1, n) \in Seq(S) /\ DOMAIN SubSeq(seq, n - c + 1, n) = 1 .. c
  BY <1>1, <1>2, <1>3
<1>6. ASSUME NEW i \in 1 .. c PROVE SubSeq(seq, n - c + 1, n)[i] = seq[n - c + i]
  BY <1>1, <1>2, <1>3
<1> QED
  BY <1>2, <1>4, <1>5, <1>6

\* The previews differ only by a message that is blank or hidden.
LEMMA PreviewsAlike ==
    ASSUME StoresInv, NEW s \in Sessions, InOrder(s)
    PROVE  /\ RelPreview(s) \in {MemPreview(s), Null}
           /\ RelPreview(s) = Null /\ MemPreview(s) # Null =>
                 \E m \in ToSet(RelMessages(s, Scanned)) : m.kind.blank \/ m.kind.hidden
<1> DEFINE log == mem.log[s]
           n == Len(log)
           w == LastOf(log, Scanned)
           shown == {i \in DOMAIN log : ~log[i].kind.blank /\ ~log[i].kind.hidden}
           seen == {i \in DOMAIN w : ~w[i].kind.hidden}
<1>1. log \in Seq(Message) /\ RelMessages(s, Scanned) = w
  BY MessagesAlike DEF RelMessages
<1>2. /\ MemPreview(s) = IF shown = {} THEN Null ELSE log[Max(shown)]
      /\ RelPreview(s) = IF seen = {} \/ w[Max(seen)].kind.blank THEN Null ELSE w[Max(seen)]
  BY <1>1, Zenon DEF MemPreview, RelPreview
<1> HIDE DEF log
<1>3. n \in Nat /\ DOMAIN log = 1 .. n /\ Scanned \in Nat \ {0} /\ Null \notin Message
  BY <1>1, StoresAssumption
<1>4. PICK c \in 0 .. n : /\ c = Scanned \/ c = n
                          /\ w \in Seq(Message) /\ DOMAIN w = 1 .. c
                          /\ \A i \in 1 .. c : w[i] = log[n - c + i]
  BY <1>1, <1>3, LastOfIs
<1> HIDE DEF n, w
<1>5. seen \in SUBSET (0 .. c) /\ shown \in SUBSET (0 .. n)
  BY <1>3, <1>4
<1>6. seen # {} => Max(seen) \in seen /\ \A y \in seen : Max(seen) >= y
  <2>1. c \in Nat /\ seen \in SUBSET (0 .. c)
    BY <1>3, <1>5
  <2> HIDE DEF seen
  <2> QED
    BY <2>1, MaxIsGreatest
<1>7. shown # {} => Max(shown) \in shown /\ \A y \in shown : Max(shown) >= y
  <2> HIDE DEF shown
  <2> QED
    BY <1>5, <1>3, MaxIsGreatest
<1>8. CASE seen # {} /\ ~w[Max(seen)].kind.blank
  <2>1. PICK j \in 1 .. c : j = Max(seen) /\ j \in seen
    BY <1>6, <1>8, <1>4
  <2> DEFINE i == n - c + j
  <2>2. i \in 1 .. n /\ w[j] = log[i]
    BY <1>3, <1>4, <2>1
  <2>3. i \in shown
    BY <2>1, <2>2, <1>8, <1>3
  <2>4. ASSUME NEW y \in shown PROVE y <= i
    <3> SUFFICES ASSUME y > i PROVE FALSE
      BY <2>2, <1>5
    <3>1. y \in 1 .. n /\ ~log[y].kind.hidden
      BY <1>3
    <3>2. PICK k \in 1 .. c : y = n - c + k /\ k > j
      <4>1. y - (n - c) \in 1 .. c /\ y - (n - c) > j /\ y = n - c + (y - (n - c))
        BY <1>3, <1>4, <2>1, <3>1
      <4> QED
        BY <4>1
    <3>3. k \in seen
      BY <3>1, <3>2, <1>4
    <3> QED
      BY <3>2, <3>3, <1>6, <2>1
  <2>5. Max(shown) = i
    <3>1. Max(shown) \in shown /\ Max(shown) >= i
      BY <2>3, <1>7
    <3>2. Max(shown) \in Nat /\ Max(shown) <= i
      BY <3>1, <2>4, <1>5
    <3> QED
      BY <3>1, <3>2, <2>2
  <2>6. MemPreview(s) = log[i] /\ RelPreview(s) = log[i]
    BY <1>2, <1>8, <2>1, <2>2, <2>3, <2>5
  <2>7. log[i] \in Message
    BY <1>1, <2>2, <1>3
  <2> QED
    BY <2>6, <2>7, <1>3
<1>9. CASE seen = {} \/ w[Max(seen)].kind.blank
  <2>1. RelPreview(s) = Null
    BY <1>2, <1>9
  <2>2. ASSUME MemPreview(s) # Null PROVE \E m \in ToSet(w) : m.kind.blank \/ m.kind.hidden
    <3>1. shown # {}
      BY <1>2, <2>2
    <3>2. n # 0
      BY <3>1, <1>3
    <3>3. 1 \in 1 .. c
      BY <3>2, <1>3, <1>4
    <3>4. CASE seen = {}
      <4>1. w[1].kind.hidden
        BY <3>3, <3>4, <1>4
      <4> QED
        BY <4>1, <3>3, <1>4 DEF ToSet
    <3>5. CASE seen # {}
      <4>1. Max(seen) \in DOMAIN w /\ w[Max(seen)].kind.blank
        BY <3>5, <1>6, <1>9
      <4> QED
        BY <4>1 DEF ToSet
    <3> QED
      BY <3>4, <3>5
  <2> QED
    BY <1>1, <2>1, <2>2
<1> QED
  BY <1>8, <1>9

\* Sessions that are not the same were not spoken in at the same time, and were
\* not written at the same time.
LEMMA TimesDiffer ==
    ASSUME StoresInv
    PROVE  \A s, t \in Existing :
              /\ mem.row[s].updated \in Nat /\ mem.row[s].last \in Nat \cup {Null}
              /\ mem.row[s].updated = mem.row[t].updated => s = t
              /\ mem.row[s].last # Null =>
                    /\ mem.row[s].last = mem.row[t].last => s = t
                    /\ mem.row[s].last # mem.row[t].updated
<1>1. /\ mem \in MemT /\ TimesInv(mem.row, mem.log, now) /\ MessagesInv(mem.log, rel.message)
  BY Zenon DEF StoresInv, StoresTypeOK, StoresParts, RowParts
<1>2. ASSUME NEW s \in Existing PROVE s \in Sessions /\ mem.row[s] # Null /\ mem.row[s] \in Row
  BY <1>1 DEF Existing, MemT
<1>3. ASSUME NEW s \in Existing
      PROVE  mem.row[s].updated \in Nat /\ mem.row[s].last \in Nat \cup {Null}
  BY <1>2 DEF Row
<1>4. ASSUME NEW s \in Existing, NEW t \in Existing
      PROVE  mem.row[s].updated = mem.row[t].updated => s = t
  BY <1>1, <1>2 DEF TimesInv
<1>5. ASSUME NEW s \in Existing, mem.row[s].last # Null
      PROVE  \E m \in rel.message : m.session = s /\ m.created = mem.row[s].last
  <2>1. s \in Sessions /\ LastIn(mem.row[s].last, mem.log[s])
    BY <1>1, <1>2 DEF TimesInv
  <2>2. PICK i \in DOMAIN mem.log[s] : mem.log[s][i].created = mem.row[s].last
    BY <2>1, <1>5 DEF LastIn
  <2>3. mem.log[s][i] \in rel.message /\ mem.log[s][i].session = s
    BY <1>1, <2>1, <2>2 DEF MessagesInv
  <2> QED
    BY <2>2, <2>3
<1>6. ASSUME NEW s \in Existing, NEW t \in Existing, mem.row[s].last # Null, mem.row[s].last = mem.row[t].last
      PROVE  s = t
  <2>1. PICK m \in rel.message : m.session = s /\ m.created = mem.row[s].last
    BY <1>5, <1>6
  <2>2. PICK n \in rel.message : n.session = t /\ n.created = mem.row[s].last
    BY <1>5, <1>6
  <2>3. m = n
    BY <1>1, <2>1, <2>2 DEF MessagesInv
  <2> QED
    BY <2>1, <2>2, <2>3
<1>7. ASSUME NEW s \in Existing, NEW t \in Existing, mem.row[s].last # Null
      PROVE  mem.row[s].last # mem.row[t].updated
  <2>1. PICK m \in rel.message : m.created = mem.row[s].last
    BY <1>5, <1>7
  <2>2. PICK j \in Nat : m.created = 2 * j + 1
    BY <1>1 DEF MessagesInv
  <2>3. PICK k \in Nat : mem.row[t].updated = 2 * k
    BY <1>1, <1>2 DEF TimesInv
  <2>4. 2 * j + 1 # 2 * k
    OBVIOUS
  <2> QED
    BY <2>1, <2>2, <2>3, <2>4
<1> QED
  BY <1>3, <1>4, <1>6, <1>7

\* All of a set in order, as a list of no more than a limit that it does not reach.
LEMMA ListedWhole ==
    ASSUME NEW S, IsFiniteSet(S), NEW limit \in Nat, Cardinality(S) <= limit, NEW before,
           \A x \in S : <<x, x>> \notin before,
           \A x, y \in S : x # y => <<x, y>> \in before \/ <<y, x>> \in before,
           \A x, y, z \in S : <<x, y>> \in before /\ <<y, z>> \in before => <<x, z>> \in before
    PROVE  /\ ToSet(FirstOf(Ordered(S, before), limit)) = S
           /\ \A i, j \in DOMAIN FirstOf(Ordered(S, before), limit) :
                 <<FirstOf(Ordered(S, before), limit)[i], FirstOf(Ordered(S, before), limit)[j]>> \in before
                 <=> i < j
           /\ \A i \in DOMAIN FirstOf(Ordered(S, before), limit) : i \in Nat
<1> DEFINE seq == Ordered(S, before)
           n == Cardinality(S)
           m == Min({limit, n})
<1>1. /\ seq \in [1 .. n -> S] /\ n \in Nat /\ \A x \in S : \E i \in 1 .. n : seq[i] = x
      /\ \A i, j \in 1 .. n : <<seq[i], seq[j]>> \in before <=> i < j
  BY OrderedLists
<1> HIDE DEF seq
<1>2. m = n
  <2>1. limit \in Int /\ n \in Int /\ n <= limit
    BY <1>1
  <2> HIDE DEF n
  <2>2. m \in Int /\ m <= limit /\ m <= n /\ m \in {limit, n}
    BY <2>1, MinOfTwo, Zenon
  <2> HIDE DEF m
  <2> QED
    BY <2>1, <2>2
<1> HIDE DEF n
<1>3. seq \in Seq(S) /\ Len(seq) = n /\ DOMAIN seq = 1 .. n
  BY <1>1
<1>4. FirstOf(seq, limit) = SubSeq(seq, 1, n)
  BY <1>2, <1>3, Zenon DEF FirstOf, m
<1>5. SubSeq(seq, 1, n) = seq
  BY <1>1, <1>3
<1>6. FirstOf(seq, limit) = seq
  BY <1>4, <1>5
<1>7. ToSet(seq) = S
  BY <1>1, <1>3 DEF ToSet
<1>8. /\ \A i, j \in DOMAIN seq : <<seq[i], seq[j]>> \in before <=> i < j
      /\ \A i \in DOMAIN seq : i \in Nat
  BY <1>1, <1>3
<1>9. FirstOf(Ordered(S, before), limit) = seq
  BY <1>6 DEF seq
<1> QED
  BY <1>7, <1>8, <1>9, Zenon

\* The stores list the same sessions, and those with messages in the same order.
LEMMA SessionsAlike ==
    ASSUME StoresInv, NEW archived \in BOOLEAN
    PROVE  LET listed == MemSessions(archived, Cardinality(Sessions))
               found  == RelSessions(archived, Cardinality(Sessions))
           IN  /\ ToSet(listed) = ToSet(found)
               /\ \A i, j \in DOMAIN listed, k, l \in DOMAIN found :
                     /\ listed[i] = found[k] /\ listed[j] = found[l]
                     /\ mem.row[listed[i]].last # Null /\ mem.row[listed[j]].last # Null
                     => (i < j <=> k < l)
<1> DEFINE limit == Cardinality(Sessions)
           ss == {s \in Existing : archived \/ mem.row[s].status # "archived"}
           rs == {s \in Sessions : rel.row[s] # Null /\ (archived \/ rel.row[s].status # "archived")}
           date(s) == IF mem.row[s].last # Null THEN mem.row[s].last ELSE mem.row[s].updated
           dated(s) == IF rel.row[s].last = Null THEN 0 ELSE rel.row[s].last
           later(s, t) == \/ dated(s) > dated(t)
                          \/ dated(s) = dated(t) /\ rel.row[s].updated > rel.row[t].updated
           bm == {p \in ss \X ss : date(p[1]) > date(p[2])}
           br == {p \in rs \X rs : later(p[1], p[2])}
           listed == FirstOf(Ordered(ss, bm), limit)
           found == FirstOf(Ordered(rs, br), limit)
<1>1. listed = MemSessions(archived, limit) /\ found = RelSessions(archived, limit)
  BY Zenon DEF MemSessions, RelSessions
<1>2. \A s \in Sessions :
         /\ mem.row[s] = Null <=> rel.row[s] = Null
         /\ mem.row[s] # Null => /\ mem.row[s].status = rel.row[s].status
                                 /\ mem.row[s].last = rel.row[s].last
                                 /\ mem.row[s].updated = rel.row[s].updated
  <2>1. mem \in MemT /\ rel \in RelT /\ RowsInv(mem.row, rel.row, cut)
    BY Zenon DEF StoresInv, StoresTypeOK, StoresParts, RowParts
  <2> SUFFICES ASSUME NEW s \in Sessions
               PROVE  /\ mem.row[s] = Null <=> rel.row[s] = Null
                      /\ mem.row[s] # Null => /\ mem.row[s].status = rel.row[s].status
                                              /\ mem.row[s].last = rel.row[s].last
                                              /\ mem.row[s].updated = rel.row[s].updated
    OBVIOUS
  <2>2. mem.row[s] \in Row \cup {Null} /\ rel.row[s] \in Row \cup {Null}
    BY <2>1 DEF MemT, RelT
  <2>3. mem.row[s] # Null => Alike(mem.row[s], rel.row[s], s \in cut)
    BY <2>1 DEF RowsInv
  <2>4. mem.row[s] = Null <=> rel.row[s] = Null
    BY <2>1 DEF RowsInv
  <2> QED
    BY <2>2, <2>3, <2>4 DEF Alike, Row
<1>3. ss = rs /\ ss \subseteq Existing /\ Existing \subseteq Sessions
  BY <1>2 DEF Existing
<1>4. /\ IsFiniteSet(ss) /\ Cardinality(ss) <= limit /\ limit \in Nat
  <2> HIDE DEF ss
  <2> QED
    BY <1>3, StoresAssumption, FS_Subset, FS_CardinalityType, Zenon
<1>5. \A s, t \in ss :
         /\ mem.row[s].updated \in Nat /\ mem.row[s].last \in Nat \cup {Null}
         /\ mem.row[s].updated = mem.row[t].updated => s = t
         /\ mem.row[s].last # Null =>
               /\ mem.row[s].last = mem.row[t].last => s = t
               /\ mem.row[s].last # mem.row[t].updated
  <2> HIDE DEF ss
  <2> QED
    BY <1>3, TimesDiffer
<1>6. \A s \in ss : rel.row[s].last = mem.row[s].last /\ rel.row[s].updated = mem.row[s].updated
  BY <1>2 DEF Existing
<1> HIDE DEF ss, rs
<1>7. ASSUME NEW s \in ss, NEW t \in ss
      PROVE  /\ date(s) \in Nat /\ dated(s) \in Nat /\ rel.row[s].updated \in Nat
             /\ date(s) = date(t) => s = t
             /\ rel.row[s].updated = rel.row[t].updated => s = t
  BY <1>5, <1>6
<1>8. ASSUME NEW s \in ss, NEW t \in ss
      PROVE  /\ <<s, t>> \in bm <=> date(s) > date(t)
             /\ <<s, t>> \in br <=> later(s, t)
  BY <1>3
<1>9. ASSUME NEW s \in ss, NEW t \in ss, mem.row[s].last # Null, mem.row[t].last # Null
      PROVE  <<s, t>> \in bm <=> <<s, t>> \in br
  <2>1. date(s) = mem.row[s].last /\ dated(s) = mem.row[s].last
        /\ date(t) = mem.row[t].last /\ dated(t) = mem.row[t].last
    BY <1>6, <1>9
  <2>2. date(s) = date(t) => s = t
    BY <1>7
  <2>3. s = t => ~(rel.row[s].updated > rel.row[t].updated)
    BY <1>7
  <2> HIDE DEF date, dated, bm, br
  <2> QED
    BY <1>8, <2>1, <2>2, <2>3
<1>10. /\ \A x \in ss : <<x, x>> \notin bm
       /\ \A x, y \in ss : x # y => <<x, y>> \in bm \/ <<y, x>> \in bm
       /\ \A x, y, z \in ss : <<x, y>> \in bm /\ <<y, z>> \in bm => <<x, z>> \in bm
  <2> HIDE DEF date, bm
  <2>1. \A x, y \in ss : /\ date(x) \in Nat /\ (date(x) = date(y) => x = y)
                         /\ <<x, y>> \in bm <=> date(x) > date(y)
    BY <1>7, <1>8
  <2>2. \A x \in ss : <<x, x>> \notin bm
    BY <2>1
  <2>3. ASSUME NEW x \in ss, NEW y \in ss, x # y PROVE <<x, y>> \in bm \/ <<y, x>> \in bm
    <3>1. date(x) \in Nat /\ date(y) \in Nat /\ date(x) # date(y)
      BY <2>1, <2>3
    <3>2. (<<x, y>> \in bm <=> date(x) > date(y)) /\ (<<y, x>> \in bm <=> date(y) > date(x))
      BY <2>1
    <3> QED
      BY <3>1, <3>2
  <2>4. ASSUME NEW x \in ss, NEW y \in ss, NEW z \in ss, <<x, y>> \in bm, <<y, z>> \in bm
        PROVE  <<x, z>> \in bm
    <3>1. date(x) \in Nat /\ date(y) \in Nat /\ date(z) \in Nat
      BY <2>1
    <3>2. date(x) > date(y) /\ date(y) > date(z) /\ (<<x, z>> \in bm <=> date(x) > date(z))
      BY <2>1, <2>4
    <3> QED
      BY <3>1, <3>2
  <2> QED
    BY <2>2, <2>3, <2>4
<1>11. /\ \A x \in ss : <<x, x>> \notin br
       /\ \A x, y \in ss : x # y => <<x, y>> \in br \/ <<y, x>> \in br
       /\ \A x, y, z \in ss : <<x, y>> \in br /\ <<y, z>> \in br => <<x, z>> \in br
  <2> HIDE DEF dated, br
  <2>1. \A x, y \in ss : /\ dated(x) \in Nat /\ rel.row[x].updated \in Nat
                         /\ rel.row[x].updated = rel.row[y].updated => x = y
                         /\ <<x, y>> \in br <=> later(x, y)
    BY <1>7, <1>8
  <2>2. \A x \in ss : <<x, x>> \notin br
    BY <2>1
  <2>3. ASSUME NEW x \in ss, NEW y \in ss, x # y PROVE <<x, y>> \in br \/ <<y, x>> \in br
    <3>1. /\ dated(x) \in Nat /\ dated(y) \in Nat /\ rel.row[x].updated \in Nat /\ rel.row[y].updated \in Nat
          /\ rel.row[x].updated # rel.row[y].updated
      BY <2>1, <2>3
    <3>2. (<<x, y>> \in br <=> later(x, y)) /\ (<<y, x>> \in br <=> later(y, x))
      BY <2>1
    <3> QED
      BY <3>1, <3>2
  <2>4. ASSUME NEW x \in ss, NEW y \in ss, NEW z \in ss, <<x, y>> \in br, <<y, z>> \in br
        PROVE  <<x, z>> \in br
    <3>1. /\ dated(x) \in Nat /\ dated(y) \in Nat /\ dated(z) \in Nat
          /\ rel.row[x].updated \in Nat /\ rel.row[y].updated \in Nat /\ rel.row[z].updated \in Nat
      BY <2>1
    <3>2. later(x, y) /\ later(y, z) /\ (<<x, z>> \in br <=> later(x, z))
      BY <2>1, <2>4
    <3> QED
      BY <3>1, <3>2
  <2> QED
    BY <2>2, <2>3, <2>4
<1> HIDE DEF bm, br, limit
<1>12. /\ ToSet(listed) = ss
       /\ \A i, j \in DOMAIN listed : <<listed[i], listed[j]>> \in bm <=> i < j
       /\ \A i \in DOMAIN listed : i \in Nat
  BY <1>4, <1>10, ListedWhole
<1>13. /\ ToSet(found) = ss
       /\ \A i, j \in DOMAIN found : <<found[i], found[j]>> \in br <=> i < j
       /\ \A i \in DOMAIN found : i \in Nat
  BY <1>3, <1>4, <1>11, ListedWhole
<1> HIDE DEF listed, found
<1>14. ASSUME NEW i \in DOMAIN listed, NEW j \in DOMAIN listed, NEW k \in DOMAIN found, NEW l \in DOMAIN found,
              listed[i] = found[k], listed[j] = found[l],
              mem.row[listed[i]].last # Null, mem.row[listed[j]].last # Null
       PROVE  i < j <=> k < l
  <2>1. listed[i] \in ss /\ listed[j] \in ss
    BY <1>12 DEF ToSet
  <2>2. <<listed[i], listed[j]>> \in bm <=> <<listed[i], listed[j]>> \in br
    BY <2>1, <1>9, <1>14
  <2>3. <<listed[i], listed[j]>> \in br <=> k < l
    BY <1>13, <1>14
  <2> QED
    BY <2>2, <2>3, <1>12
<1>15. /\ ToSet(listed) = ToSet(found)
       /\ \A i, j \in DOMAIN listed, k, l \in DOMAIN found :
             /\ listed[i] = found[k] /\ listed[j] = found[l]
             /\ mem.row[listed[i]].last # Null /\ mem.row[listed[j]].last # Null
             => (i < j <=> k < l)
  BY <1>12, <1>13, <1>14
<1> QED
  BY <1>1, <1>15 DEF limit

LEMMA ListingsAgreeHolds ==
    ASSUME StoresInv
    PROVE  ListingsAgree
<1>1. ASSUME NEW s \in Existing
      PROVE  /\ ToSet(mem.log[s]) = {m \in rel.message : m.session = s}
             /\ InOrder(s) =>
                   /\ \A limit \in 1 .. MaxCalls : MemMessages(s, limit) = RelMessages(s, limit)
                   /\ RelPreview(s) \in {MemPreview(s), Null}
                   /\ RelPreview(s) = Null /\ MemPreview(s) # Null =>
                         \E m \in ToSet(RelMessages(s, Scanned)) : m.kind.blank \/ m.kind.hidden
  <2>1. s \in Sessions
    BY DEF Existing
  <2>2. /\ ToSet(mem.log[s]) = {m \in rel.message : m.session = s}
        /\ InOrder(s) => RelLog(s) = mem.log[s]
    BY <2>1, MessagesAlike
  <2>3. InOrder(s) => \A limit \in 1 .. MaxCalls : MemMessages(s, limit) = RelMessages(s, limit)
    BY <2>2, Zenon DEF MemMessages, RelMessages
  <2>4. InOrder(s) => /\ RelPreview(s) \in {MemPreview(s), Null}
                      /\ RelPreview(s) = Null /\ MemPreview(s) # Null =>
                            \E m \in ToSet(RelMessages(s, Scanned)) : m.kind.blank \/ m.kind.hidden
    BY <2>1, PreviewsAlike
  <2> QED
    BY <2>2, <2>3, <2>4
<1> QED
  BY <1>1, SessionsAlike, Zenon DEF ListingsAgree

\* StoresAgree: whatever calls the runtime makes, and in whatever order, the two
\* stores answer alike but for the differences that RowsAgree and ListingsAgree name.
THEOREM StoresAgreeHolds == StoresSpec => []StoresAgree
<1>1. StoresInv => StoresAgree
  BY RowsAgreeHolds, ListingsAgreeHolds DEF StoresAgree
<1> QED
  BY <1>1, StoresInvariant, PTL
=============================================================================
