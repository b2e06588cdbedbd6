--------------------------- MODULE IngestionProofs ---------------------------
(***************************************************************************)
(* Proofs about MemoryIngestion, for every set of actions that the models  *)
(* may plan, any ids, any endpoints, and any number of questions; and      *)
(* about GraphTools, the tools that its actions call, for every graph at   *)
(* the start, any names that planners choose, and any number of actions    *)
(* and calls.                                                              *)
(***************************************************************************)
EXTENDS MemoryIngestion, GraphTools, SetLemmas, FiniteSetTheorems, TLAPS

Continuations == [action : Actions, bound : SUBSET Creates]

TypeOK ==
    /\ pc \in {"reason", "plan", "act", "asking", "conversing", "ended"}
    /\ phase \in Phases
    /\ plan \in [Phases -> Seq(Actions)]
    /\ next \in Nat \ {0}
    /\ bound \in SUBSET Creates
    /\ errors \in BOOLEAN
    /\ saved \in {<<>>} \cup Continuations
    /\ outcome \in {"none", "ok", "error", "raised", "conversed"}
    /\ asked \in Nat
    /\ started \in [Actions -> Nat]
    /\ written \in SUBSET Actions
    /\ failed \in SUBSET Actions
    /\ deferred \in SUBSET Actions

\* A plan has an action once, its phase's only, and nothing is planned ahead.
PlanInv ==
    /\ \A p \in Phases : \A i, j \in DOMAIN plan[p] : plan[p][i] = plan[p][j] => i = j
    /\ \A p \in Phases : \A i \in DOMAIN plan[p] : Phase[plan[p][i]] = p
    /\ \A p \in Phases : p > phase => plan[p] = <<>>
    /\ pc \in {"reason", "plan"} => plan[phase] = <<>>

ControlInv ==
    /\ pc = "asking" => /\ next \in DOMAIN plan[phase]
                        /\ Interrupted /\ saved.action = Current
    /\ pc # "ended" => outcome = "none"
    /\ outcome = "ok" => phase = Edges /\ next > Len(plan[phase])

\* What comes before the next action was started or deferred, in this phase and
\* in the earlier ones.
Handled(a) == started[a] > 0 \/ a \in deferred

InPhase == pc \in {"act", "asking"} \/ outcome = "ok"

HandledInv ==
    /\ \A p \in Phases : p < phase => \A i \in DOMAIN plan[p] : Handled(plan[p][i])
    /\ InPhase => \A i \in DOMAIN plan[phase] : i < next => Handled(plan[phase][i])
    /\ pc = "asking" => started[Current] > 0

\* Nothing was started but what comes before the next action.
Before(a) ==
    /\ pc \in {"act", "asking"}
    /\ \E i \in DOMAIN plan[phase] : plan[phase][i] = a /\ (i < next \/ (pc = "asking" /\ i = next))

OnceInv ==
    /\ \A a \in Actions : started[a] <= 1
    /\ pc \in {"reason", "plan", "act", "asking"} =>
          \A a \in Actions : started[a] > 0 => Phase[a] < phase \/ (Phase[a] = phase /\ Before(a))

\* Until a question interrupts it, what was started is done and bound, or has
\* failed, which ends the phase and the ingestion.
CleanInv ==
    /\ \A a \in Actions : started[a] > 0 =>
          Phase[a] <= phase /\ (a \in written \cup failed \/ outcome = "raised")
    /\ written \cap Creates \subseteq bound
    /\ \A a \in failed : errors /\ Phase[a] = phase
    /\ \A a \in deferred : Phase[a] = Edges /\ Phase[a] <= phase /\ ~(Ends[a] \subseteq bound)
    /\ pc \in {"reason", "plan"} \/ outcome = "ok" => ~errors

Inv ==
    /\ TypeOK /\ PlanInv /\ ControlInv /\ HandledInv
    /\ IdsAreUnique => OnceInv
    /\ ~Interrupted => CleanInv

-----------------------------------------------------------------------------
(* Plans and where they are taken up again *)

\* A plan has actions of its phase, each one once.
LEMMA PlansAreLists ==
    ASSUME NEW p \in Phases, NEW s \in Plans(p)
    PROVE  /\ s \in Seq(Actions)
           /\ \A i, j \in DOMAIN s : s[i] = s[j] => i = j
           /\ \A i \in DOMAIN s : Phase[s[i]] = p
<1>1. PICK S \in SUBSET {a \in Actions : Phase[a] = p} : s \in SetToSeqs(S)
  BY DEF Plans, SetToAllKPermutations
<1>2. IsFiniteSet(S)
  BY <1>1, FS_Subset, IngestionAssumption DEF IngestionAssumption
<1>3. Cardinality(S) \in Nat
  BY <1>2, FS_CardinalityType
<1>4. /\ s \in [1 .. Cardinality(S) -> S]
      /\ \A i, j \in 1 .. Cardinality(S) : i # j => s[i] # s[j]
  BY <1>1 DEF SetToSeqs
<1>5. s \in Seq(S) /\ DOMAIN s = 1 .. Cardinality(S)
  BY <1>3, <1>4
<1> QED
  BY <1>1, <1>4, <1>5

\* A continuation takes up the plan after the interrupted action, or before it
\* if an earlier action has its id.
LEMMA NextActionIsNear ==
    ASSUME NEW s \in Seq(Actions), NEW k \in DOMAIN s
    PROVE  \E i \in 1 .. k : NextAction(s, s[k]) = i + 1 /\ Id[s[i]] = Id[s[k]]
<1> DEFINE T == {i \in 1 .. Len(s) : Id[s[i]] = Id[s[k]]}
<1>1. T \in SUBSET Nat /\ k \in T
  OBVIOUS
<1>2. Min(T) \in T /\ Min(T) <= k
  BY <1>1, MinIsLeast
<1>3. NextAction(s, s[k]) = Min(T) + 1
  BY <1>1 DEF NextAction, SelectInSeq
<1>4. k \in Nat /\ Min(T) \in 1 .. Len(s) /\ Id[s[Min(T)]] = Id[s[k]]
  BY <1>2
<1> HIDE DEF T
<1>5. Min(T) \in 1 .. k
  BY <1>2, <1>4
<1> QED
  BY <1>3, <1>4, <1>5

-----------------------------------------------------------------------------
(* The initial state and the steps *)

LEMMA InitInv == Init => Inv
<1> SUFFICES ASSUME Init PROVE Inv
  OBVIOUS
<1> USE DEF Init
<1>1. TypeOK
  <2>1. plan \in [Phases -> Seq(Actions)] /\ started \in [Actions -> Nat]
    OBVIOUS
  <2>2. phase \in Phases /\ next \in Nat \ {0} /\ asked \in Nat
    BY DEF Phases
  <2>3. bound \in SUBSET Creates /\ saved \in {<<>>} \cup Continuations
    OBVIOUS
  <2>4. written \in SUBSET Actions /\ failed \in SUBSET Actions /\ deferred \in SUBSET Actions
    OBVIOUS
  <2>5. errors \in BOOLEAN
    OBVIOUS
  <2>6. pc \in {"reason", "plan", "act", "asking", "conversing", "ended"} /\ outcome \in {"none", "ok", "error", "raised", "conversed"}
    OBVIOUS
  <2> HIDE DEF Init
  <2> QED
    BY <2>1, <2>2, <2>3, <2>4, <2>5, <2>6 DEF TypeOK
<1>2. PlanInv /\ ControlInv
  BY DEF PlanInv, ControlInv, Phases
<1>3. HandledInv
  BY DEF HandledInv, InPhase, Phases
<1>4. OnceInv
  BY DEF OnceInv
<1>5. CleanInv
  BY DEF CleanInv
<1> QED
  BY <1>1, <1>2, <1>3, <1>4, <1>5 DEF Inv

\* What the actions that run the plan have in common
LEMMA CurrentIsPlanned ==
    ASSUME Inv, next \in DOMAIN plan[phase]
    PROVE  /\ plan[phase] \in Seq(Actions) /\ Current \in Actions /\ Phase[Current] = phase
           /\ phase \in Nat /\ phase <= Edges
BY DEF Inv, TypeOK, PlanInv, Current, Phases, Edges

LEMMA HasNextIsInPlan ==
    ASSUME Inv, HasNext
    PROVE  next \in DOMAIN plan[phase] /\ pc = "act" /\ outcome = "none"
BY DEF Inv, TypeOK, ControlInv, HasNext

\* Before any action is run again, those that were started come earlier.
LEMMA CurrentIsNew ==
    ASSUME Inv, HasNext, IdsAreUnique
    PROVE  started[Current] = 0
<1>1. /\ next \in DOMAIN plan[phase] /\ pc = "act"
      /\ Current \in Actions /\ Phase[Current] = phase /\ phase \in Nat
  BY CurrentIsPlanned, HasNextIsInPlan
<1>2. SUFFICES ASSUME started[Current] > 0 PROVE FALSE
  BY <1>1 DEF Inv, TypeOK
<1>3. PICK i \in DOMAIN plan[phase] : plan[phase][i] = Current /\ i < next
  BY <1>1, <1>2 DEF Inv, OnceInv, Before
<1> QED
  BY <1>1, <1>3 DEF Inv, TypeOK, PlanInv, Current

LEMMA ReasonInv == Inv /\ Reason => Inv'
<1> SUFFICES ASSUME Inv, Reason PROVE Inv'
  OBVIOUS
<1>1. /\ pc = "reason" /\ pc' = "plan"
      /\ UNCHANGED <<phase, plan, next, bound, errors, saved, outcome, asked,
                     started, written, failed, deferred>>
  BY DEF Reason, history
<1> USE <1>1
<1>2. TypeOK' /\ PlanInv' /\ ControlInv'
  BY DEF Inv, TypeOK, PlanInv, ControlInv, Current, Interrupted
<1>3. HandledInv'
  BY DEF Inv, HandledInv, InPhase, Handled, Current
<1>4. (IdsAreUnique => OnceInv)'
  BY DEF Inv, OnceInv, Before, IdsAreUnique
<1>5. (~Interrupted => CleanInv)'
  BY DEF Inv, CleanInv, Interrupted
<1> QED
  BY <1>2, <1>3, <1>4, <1>5 DEF Inv

LEMMA PlanPhaseInv == Inv /\ PlanPhase => Inv'
<1> SUFFICES ASSUME Inv, PlanPhase PROVE Inv'
  OBVIOUS
<1>1. /\ pc = "plan" /\ pc' = "act" /\ next' = 1 /\ errors' = FALSE
      /\ UNCHANGED <<phase, bound, saved, outcome, asked, started, written, failed, deferred>>
  BY DEF PlanPhase, history
<1>2. PICK s \in Plans(phase) : plan' = [plan EXCEPT ![phase] = s]
  BY DEF PlanPhase
<1>3. phase \in Phases /\ plan \in [Phases -> Seq(Actions)] /\ plan[phase] = <<>> /\ outcome = "none"
  BY <1>1 DEF Inv, TypeOK, PlanInv, ControlInv
<1>4. /\ s \in Seq(Actions)
      /\ \A i, j \in DOMAIN s : s[i] = s[j] => i = j
      /\ \A i \in DOMAIN s : Phase[s[i]] = phase
  BY <1>3, PlansAreLists
<1>5. /\ plan' \in [Phases -> Seq(Actions)] /\ plan'[phase] = s
      /\ \A p \in Phases : p # phase => plan'[p] = plan[p]
  BY <1>2, <1>3, <1>4
<1>6. TypeOK'
  <2>1. errors' \in BOOLEAN
    BY <1>1
  <2>2. next' \in Nat \ {0} /\ pc' \in {"reason", "plan", "act", "asking", "conversing", "ended"}
    BY <1>1
  <2> QED
    BY <1>1, <1>5, <2>1, <2>2 DEF Inv, TypeOK
<1>7. PlanInv'
  <2>1. ASSUME NEW p \in Phases
        PROVE  /\ \A i, j \in DOMAIN plan'[p] : plan'[p][i] = plan'[p][j] => i = j
               /\ \A i \in DOMAIN plan'[p] : Phase[plan'[p][i]] = p
               /\ p > phase => plan'[p] = <<>>
    <3>1. CASE p = phase
      BY <1>3, <1>4, <1>5, <3>1 DEF Phases
    <3>2. CASE p # phase
      BY <1>5, <3>2 DEF Inv, PlanInv
    <3> QED
      BY <3>1, <3>2
  <2> QED
    BY <1>1, <2>1 DEF PlanInv
<1>8. ControlInv'
  BY <1>1, <1>3 DEF ControlInv
<1>9. HandledInv'
  <2>1. ASSUME NEW p \in Phases, p < phase
        PROVE  (\A i \in DOMAIN plan[p] : Handled(plan[p][i]))'
    BY <1>1, <1>3, <1>5, <2>1 DEF Inv, HandledInv, Handled, Phases
  <2>2. \A i \in DOMAIN plan'[phase] : ~(i < next')
    BY <1>1, <1>4, <1>5
  <2> QED
    BY <1>1, <2>1, <2>2 DEF HandledInv
<1>10. (IdsAreUnique => OnceInv)'
  <2>1. SUFFICES ASSUME IdsAreUnique PROVE OnceInv'
    BY DEF IdsAreUnique
  <2>2. ASSUME NEW a \in Actions, started[a] > 0 PROVE Phase[a] < phase
    BY <1>1, <1>3, <2>1, <2>2 DEF Inv, OnceInv, Before
  <2> QED
    BY <1>1, <2>1, <2>2 DEF Inv, OnceInv
<1>11. (~Interrupted => CleanInv)'
  BY <1>1, <1>3 DEF Inv, CleanInv, Interrupted
<1> QED
  BY <1>6, <1>7, <1>8, <1>9, <1>10, <1>11 DEF Inv

\* Once an ingestion has ended in another way than with ok, or its answer
\* resumes it as a conversation, little is claimed.
LEMMA StopsInv ==
    ASSUME Inv, pc' \in {"conversing", "ended"}, outcome' \in {"none", "error", "raised", "conversed"},
           pc' # "ended" => outcome' = "none", outcome' = "raised" \/ outcome # "raised",
           asked' \in Nat,
           UNCHANGED <<phase, plan, next, bound, errors, saved, started, written, failed, deferred>>
    PROVE  Inv'
<1>1. TypeOK' /\ PlanInv' /\ ControlInv'
  BY DEF Inv, TypeOK, PlanInv, ControlInv
<1>2. HandledInv'
  BY DEF Inv, HandledInv, InPhase, Handled
<1>3. (IdsAreUnique => OnceInv)'
  BY DEF Inv, OnceInv, IdsAreUnique
<1>4. (~Interrupted => CleanInv)'
  BY DEF Inv, CleanInv, Interrupted
<1> QED
  BY <1>1, <1>2, <1>3, <1>4 DEF Inv

LEMMA ModelFailsInv == Inv /\ ModelFails => Inv'
BY StopsInv DEF ModelFails, history, Inv, ControlInv, TypeOK, StateEnds

LEMMA AskWhilePlanningInv == Inv /\ AskWhilePlanning => Inv'
BY StopsInv DEF AskWhilePlanning, history, Inv, ControlInv, TypeOK, StateEnds

LEMMA ConverseInv == Inv /\ Converse => Inv'
BY StopsInv DEF Converse, history, Inv, ControlInv, TypeOK

LEMMA DeferInv == Inv /\ Defer => Inv'
<1> SUFFICES ASSUME Inv, Defer PROVE Inv'
  OBVIOUS
<1>1. /\ pc = "act" /\ pc' = pc /\ next' = next + 1 /\ deferred' = deferred \cup {Current}
      /\ ~(Ends[Current] \subseteq bound)
      /\ UNCHANGED <<phase, plan, bound, errors, saved, outcome, asked, started, written, failed>>
  BY DEF Defer, HasNext, Unresolved
<1>2. /\ next \in DOMAIN plan[phase] /\ outcome = "none"
      /\ plan[phase] \in Seq(Actions) /\ Current \in Actions /\ Phase[Current] = phase
      /\ phase \in Nat /\ phase <= Edges
  BY CurrentIsPlanned, HasNextIsInPlan DEF Defer
<1>3. Phase[Current] = Edges
  BY <1>1, <1>2, IngestionAssumption DEF IngestionAssumption, Edges, Phases
<1>4. TypeOK' /\ PlanInv' /\ ControlInv'
  BY <1>1, <1>2 DEF Inv, TypeOK, PlanInv, ControlInv
<1>5. HandledInv'
  <2>3. \A p \in Phases : p < phase' => (\A i \in DOMAIN plan[p] : Handled(plan[p][i]))'
    BY <1>1 DEF Inv, HandledInv, Handled
  <2>4. (\A i \in DOMAIN plan[phase] : i < next => Handled(plan[phase][i]))'
    <3> SUFFICES ASSUME NEW i \in DOMAIN plan[phase], i < next + 1
                 PROVE  started[plan[phase][i]] > 0 \/ plan[phase][i] \in deferred'
      BY <1>1 DEF Handled
    <3>1. CASE i = next
      BY <1>1, <3>1 DEF Current
    <3>2. CASE i < next
      BY <1>1, <3>2 DEF Inv, HandledInv, InPhase, Handled
    <3> QED
      BY <1>2, <3>1, <3>2 DEF Inv, TypeOK
  <2> QED
    BY <1>1, <2>3, <2>4 DEF HandledInv
<1>6. (IdsAreUnique => OnceInv)'
  BY <1>1, <1>2 DEF Inv, TypeOK, OnceInv, Before, IdsAreUnique
<1>7. (~Interrupted => CleanInv)'
  BY <1>1, <1>2, <1>3 DEF Inv, CleanInv, Interrupted
<1> QED
  BY <1>4, <1>5, <1>6, <1>7 DEF Inv

\* The action that is next is started: what follows is the same whether its
\* child ends, asks or raises.
LEMMA StartedFacts ==
    ASSUME Inv, HasNext, started' = Started
    PROVE  /\ started' \in [Actions -> Nat] /\ started'[Current] > 0
           /\ \A a \in Actions : a # Current => started'[a] = started[a]
           /\ IdsAreUnique => \A a \in Actions : started'[a] <= 1
<1>1. Current \in Actions /\ started \in [Actions -> Nat]
  BY CurrentIsPlanned, HasNextIsInPlan DEF Inv, TypeOK
<1>2. started' = [started EXCEPT ![Current] = started[Current] + 1]
  BY DEF Started
<1> HIDE DEF Current
<1>3. /\ started' \in [Actions -> Nat] /\ started'[Current] = started[Current] + 1
      /\ \A a \in Actions : a # Current => started'[a] = started[a]
  BY <1>1, <1>2
<1>4. ASSUME IdsAreUnique, NEW a \in Actions PROVE started'[a] <= 1
  <2>1. started[Current] = 0
    BY <1>4, CurrentIsNew
  <2>2. CASE a = Current
    BY <1>3, <2>1, <2>2
  <2>3. CASE a # Current
    BY <1>3, <1>4, <2>3 DEF Inv, OnceInv
  <2> QED
    BY <2>2, <2>3
<1> QED
  BY <1>1, <1>3, <1>4

LEMMA StartedIsHandled ==
    ASSUME Inv, HasNext, started' = Started, UNCHANGED <<plan, phase, deferred>>
    PROVE  /\ (\A p \in Phases : p < phase => \A i \in DOMAIN plan[p] : Handled(plan[p][i]))'
           /\ \A i \in DOMAIN plan[phase] : i <= next => Handled(plan[phase][i])'
<1>1. /\ next \in DOMAIN plan[phase] /\ pc = "act"
      /\ plan[phase] \in Seq(Actions) /\ Current \in Actions
      /\ started' \in [Actions -> Nat] /\ started'[Current] > 0
      /\ \A a \in Actions : a # Current => started'[a] = started[a]
  BY CurrentIsPlanned, HasNextIsInPlan, StartedFacts
<1>2. \A a \in Actions : Handled(a) => Handled(a)'
  BY <1>1 DEF Handled
<1>3. \A p \in Phases : \A i \in DOMAIN plan[p] : plan[p][i] \in Actions
  BY DEF Inv, TypeOK
<1>4. \A p \in Phases : p < phase => \A i \in DOMAIN plan[p] : Handled(plan[p][i])'
  BY <1>2, <1>3 DEF Inv, HandledInv
<1>5. ASSUME NEW i \in DOMAIN plan[phase], i <= next PROVE Handled(plan[phase][i])'
  <2>1. CASE i = next
    BY <1>1, <2>1 DEF Handled, Current
  <2>2. CASE i < next
    BY <1>1, <1>2, <2>2 DEF Inv, HandledInv, InPhase
  <2> QED
    BY <1>1, <1>5, <2>1, <2>2 DEF Inv, TypeOK
<1> QED
  BY <1>4, <1>5

LEMMA RunActionInv == Inv /\ RunAction => Inv'
<1> SUFFICES ASSUME Inv, RunAction PROVE Inv'
  OBVIOUS
<1>1. PICK ok \in BOOLEAN, binds \in SUBSET ({Current} \cap Creates) :
        /\ bound' = bound \cup binds
        /\ written' = IF Verified(Current, ok, bound') THEN written \cup {Current} ELSE written
        /\ failed' = IF Verified(Current, ok, bound') THEN failed ELSE failed \cup {Current}
        /\ errors' = (errors \/ ~Verified(Current, ok, bound'))
  BY DEF RunAction
<1>2. /\ HasNext /\ pc = "act" /\ pc' = pc /\ next' = next + 1 /\ started' = Started
      /\ UNCHANGED <<phase, plan, saved, outcome, asked, deferred>>
  BY DEF RunAction, HasNext
<1>3. /\ next \in DOMAIN plan[phase] /\ outcome = "none"
      /\ plan[phase] \in Seq(Actions) /\ Current \in Actions /\ Phase[Current] = phase
      /\ phase \in Nat /\ phase <= Edges
  BY <1>2, CurrentIsPlanned, HasNextIsInPlan
<1>4. /\ started' \in [Actions -> Nat] /\ started'[Current] > 0
      /\ \A a \in Actions : a # Current => started'[a] = started[a]
      /\ IdsAreUnique => \A a \in Actions : started'[a] <= 1
  BY <1>2, StartedFacts
<1>5. /\ errors' \in BOOLEAN
      /\ Verified(Current, ok, bound') /\ Current \in Creates => Current \in bound'
  BY <1>1 DEF Inv, TypeOK, Verified
<1>6. TypeOK'
  <2>1. /\ bound' \in SUBSET Creates /\ next' \in Nat \ {0}
        /\ written' \in SUBSET Actions /\ failed' \in SUBSET Actions
    BY <1>1, <1>2, <1>3 DEF Inv, TypeOK
  <2> QED
    BY <1>2, <1>4, <1>5, <2>1 DEF Inv, TypeOK
<1>7. PlanInv' /\ ControlInv'
  BY <1>2, <1>3 DEF Inv, PlanInv, ControlInv
<1>8. HandledInv'
  <2>1. /\ (\A p \in Phases : p < phase => \A i \in DOMAIN plan[p] : Handled(plan[p][i]))'
        /\ \A i \in DOMAIN plan[phase] : i <= next => Handled(plan[phase][i])'
    BY <1>2, StartedIsHandled
  <2> QED
    BY <1>2, <1>3, <2>1 DEF HandledInv
<1>9. (IdsAreUnique => OnceInv)'
  <2>1. SUFFICES ASSUME IdsAreUnique PROVE OnceInv'
    BY DEF IdsAreUnique
  <2>2. ASSUME NEW a \in Actions, started'[a] > 0
        PROVE  Phase[a] < phase \/ (Phase[a] = phase /\ Before(a)')
    <3>1. CASE a = Current
      BY <1>2, <1>3, <3>1 DEF Before, Current
    <3>2. CASE a # Current
      BY <1>2, <1>3, <1>4, <2>1, <2>2, <3>2 DEF Inv, OnceInv, Before
    <3> QED
      BY <3>1, <3>2
  <2> QED
    BY <1>2, <1>4, <2>1, <2>2 DEF OnceInv
<1>10. (~Interrupted => CleanInv)'
  <2>1. SUFFICES ASSUME ~Interrupted PROVE CleanInv'
    BY <1>2 DEF Interrupted
  <2>2. CleanInv
    BY <2>1 DEF Inv
  <2>3. \A a \in Actions : started'[a] > 0 => Phase[a] <= phase /\ a \in written' \cup failed'
    BY <1>1, <1>2, <1>3, <1>4, <2>2 DEF CleanInv
  <2>4. written' \cap Creates \subseteq bound'
    BY <1>1, <1>5, <2>2 DEF CleanInv
  <2>5. \A a \in failed' : errors' /\ Phase[a] = phase
    BY <1>1, <1>3, <2>2 DEF CleanInv
  <2>6. ASSUME NEW a \in deferred PROVE ~(Ends[a] \subseteq bound') /\ Phase[a] = Edges
    <3>1. Phase[a] = Edges /\ phase = Edges /\ ~(Ends[a] \subseteq bound)
      BY <1>3, <2>2 DEF CleanInv, Edges
    <3>2. Current \notin Creates
      BY <1>3, <3>1, IngestionAssumption DEF IngestionAssumption
    <3> QED
      BY <1>1, <3>1, <3>2
  <2> QED
    BY <1>2, <1>3, <2>2, <2>3, <2>4, <2>5, <2>6 DEF CleanInv
<1> QED
  BY <1>6, <1>7, <1>8, <1>9, <1>10 DEF Inv

\* A question leaves a continuation, and an exception ends the ingestion, with
\* the action that is next started.
LEMMA AskInActionInv == Inv /\ AskInAction => Inv'
<1> SUFFICES ASSUME Inv, AskInAction PROVE Inv'
  OBVIOUS
<1>1. /\ HasNext /\ pc = "act" /\ pc' = "asking" /\ asked' = asked + 1 /\ started' = Started
      /\ saved' = [action |-> Current, bound |-> bound]
      /\ UNCHANGED <<phase, plan, next, bound, errors, outcome, written, failed, deferred>>
  BY DEF AskInAction, HasNext
<1>2. /\ next \in DOMAIN plan[phase] /\ outcome = "none"
      /\ plan[phase] \in Seq(Actions) /\ Current \in Actions /\ Phase[Current] = phase
      /\ phase \in Nat /\ phase <= Edges
  BY <1>1, CurrentIsPlanned, HasNextIsInPlan
<1>3. /\ started' \in [Actions -> Nat] /\ started'[Current] > 0
      /\ \A a \in Actions : a # Current => started'[a] = started[a]
      /\ IdsAreUnique => \A a \in Actions : started'[a] <= 1
  BY <1>1, StartedFacts
<1>4. saved' \in Continuations /\ Interrupted' /\ saved'.action = Current
  BY <1>1, <1>2 DEF Continuations, Interrupted, Inv, TypeOK
<1>5. TypeOK'
  BY <1>1, <1>3, <1>4 DEF Inv, TypeOK
<1>6. PlanInv' /\ ControlInv'
  BY <1>1, <1>2, <1>4 DEF Inv, PlanInv, ControlInv, Current
<1>7. HandledInv'
  <2>1. /\ (\A p \in Phases : p < phase => \A i \in DOMAIN plan[p] : Handled(plan[p][i]))'
        /\ \A i \in DOMAIN plan[phase] : i <= next => Handled(plan[phase][i])'
    BY <1>1, StartedIsHandled
  <2> QED
    BY <1>1, <1>2, <1>3, <2>1 DEF HandledInv, Current
<1>8. (IdsAreUnique => OnceInv)'
  <2>1. SUFFICES ASSUME IdsAreUnique PROVE OnceInv'
    BY DEF IdsAreUnique
  <2>2. ASSUME NEW a \in Actions, started'[a] > 0
        PROVE  Phase[a] < phase \/ (Phase[a] = phase /\ Before(a)')
    <3>1. CASE a = Current
      BY <1>1, <1>2, <3>1 DEF Before, Current
    <3>2. CASE a # Current
      BY <1>1, <1>2, <1>3, <2>1, <2>2, <3>2 DEF Inv, OnceInv, Before
    <3> QED
      BY <3>1, <3>2
  <2> QED
    BY <1>1, <1>3, <2>1, <2>2 DEF OnceInv
<1> QED
  BY <1>4, <1>5, <1>6, <1>7, <1>8 DEF Inv

LEMMA RaiseInActionInv == Inv /\ RaiseInAction => Inv'
<1> SUFFICES ASSUME Inv, RaiseInAction PROVE Inv'
  OBVIOUS
<1>1. /\ HasNext /\ pc = "act" /\ pc' = "ended" /\ outcome' = "raised" /\ started' = Started
      /\ UNCHANGED <<phase, plan, next, bound, errors, saved, asked, written, failed, deferred>>
  BY DEF RaiseInAction, HasNext
<1>2. Current \in Actions /\ Phase[Current] = phase /\ phase \in Nat
  BY <1>1, CurrentIsPlanned, HasNextIsInPlan
<1>3. /\ started' \in [Actions -> Nat] /\ started'[Current] > 0
      /\ \A a \in Actions : a # Current => started'[a] = started[a]
      /\ IdsAreUnique => \A a \in Actions : started'[a] <= 1
  BY <1>1, StartedFacts
<1>4. TypeOK' /\ PlanInv' /\ ControlInv'
  BY <1>1, <1>3 DEF Inv, TypeOK, PlanInv, ControlInv
<1>5. HandledInv'
  <2>1. (\A p \in Phases : p < phase => \A i \in DOMAIN plan[p] : Handled(plan[p][i]))'
    BY <1>1, StartedIsHandled
  <2> QED
    BY <1>1, <2>1 DEF HandledInv, InPhase
<1>6. (IdsAreUnique => OnceInv)'
  BY <1>1, <1>3 DEF OnceInv, IdsAreUnique
<1>7. (~Interrupted => CleanInv)'
  BY <1>1, <1>2, <1>3 DEF Inv, CleanInv, Interrupted
<1> QED
  BY <1>4, <1>5, <1>6, <1>7 DEF Inv

LEMMA EndPhaseInv == Inv /\ EndPhase => Inv'
<1> SUFFICES ASSUME Inv, EndPhase PROVE Inv'
  OBVIOUS
<1>1. /\ pc = "act" /\ ~(next <= Len(plan[phase])) /\ outcome = "none"
      /\ UNCHANGED <<plan, bound, errors, saved, asked, started, written, failed, deferred>>
  BY DEF EndPhase, HasNext, history, Inv, ControlInv
<1>2. /\ phase \in Phases /\ phase \in Nat /\ plan[phase] \in Seq(Actions) /\ errors \in BOOLEAN
      /\ next \in Nat
  BY DEF Inv, TypeOK, Phases
<1>3. \A i \in DOMAIN plan[phase] : i < next /\ Handled(plan[phase][i])
  BY <1>1, <1>2 DEF Inv, HandledInv, InPhase
<1>4. CASE phase < Edges /\ ~errors
  <2>1. phase' = phase + 1 /\ next' = 1 /\ pc' = "plan" /\ outcome' = outcome
    BY <1>4 DEF EndPhase, GoesOn
  <2>2. phase' \in Phases
    BY <1>2, <1>4, <2>1 DEF Phases, Edges
  <2>3. TypeOK' /\ PlanInv' /\ ControlInv'
    BY <1>1, <1>2, <2>1, <2>2 DEF Inv, TypeOK, PlanInv, ControlInv, Phases
  <2>4. HandledInv'
    <3>1. ASSUME NEW p \in Phases, p < phase + 1
          PROVE  \A i \in DOMAIN plan[p] : Handled(plan[p][i])
      <4>1. CASE p = phase
        BY <1>3, <4>1
      <4>2. CASE p < phase
        BY <4>2 DEF Inv, HandledInv
      <4> QED
        BY <1>2, <3>1, <4>1, <4>2 DEF Phases
    <3>2. (\A p \in Phases : p < phase => \A i \in DOMAIN plan[p] : Handled(plan[p][i]))'
      BY <1>1, <2>1, <3>1 DEF Handled
    <3>3. ~InPhase' /\ pc' # "asking"
      BY <1>1, <2>1 DEF InPhase
    <3> QED
      BY <3>2, <3>3 DEF HandledInv
  <2>5. (IdsAreUnique => OnceInv)'
    BY <1>1, <1>2, <2>1, IngestionAssumption
       DEF Inv, OnceInv, IdsAreUnique, IngestionAssumption, Phases
  <2>6. (~Interrupted => CleanInv)'
    <3>1. SUFFICES ASSUME ~Interrupted PROVE CleanInv'
      BY <1>1 DEF Interrupted
    <3>2. CleanInv
      BY <3>1 DEF Inv
    <3>3. failed' = {} /\ ~errors'
      BY <1>1, <1>4, <3>2, Zenon DEF CleanInv
    <3>4. \A a \in Actions : Phase[a] <= phase => Phase[a] <= phase'
      BY <1>2, <2>1, IngestionAssumption DEF IngestionAssumption, Phases
    <3>5. \A a \in Actions : started'[a] > 0 =>
              Phase[a] <= phase' /\ (a \in written' \cup failed' \/ outcome' = "raised")
      BY <1>1, <2>1, <3>2, <3>4 DEF CleanInv
    <3>6. \A a \in deferred' : Phase[a] = Edges /\ Phase[a] <= phase' /\ ~(Ends[a] \subseteq bound')
      BY <1>1, <3>2, <3>4 DEF CleanInv, Inv, TypeOK
    <3> QED
      BY <1>1, <3>2, <3>3, <3>5, <3>6 DEF CleanInv
  <2> QED
    BY <2>3, <2>4, <2>5, <2>6 DEF Inv
<1>5. CASE ~(phase < Edges /\ ~errors)
  <2>1. /\ pc' = "ended" /\ outcome' = IF errors THEN "error" ELSE "ok"
        /\ UNCHANGED <<phase, next>>
    BY <1>5 DEF EndPhase, GoesOn
  <2>2. TypeOK' /\ PlanInv' /\ ControlInv'
    BY <1>1, <1>2, <1>5, <2>1 DEF Inv, TypeOK, PlanInv, ControlInv, Phases, Edges
  <2>3. HandledInv'
    BY <1>1, <1>3, <2>1 DEF Inv, HandledInv, Handled
  <2>4. (IdsAreUnique => OnceInv)'
    BY <1>1, <2>1 DEF Inv, OnceInv, IdsAreUnique
  <2>5. (~Interrupted => CleanInv)'
    BY <1>1, <1>2, <2>1 DEF Inv, CleanInv, Interrupted
  <2> QED
    BY <2>2, <2>3, <2>4, <2>5 DEF Inv
<1> QED
  BY <1>4, <1>5

LEMMA ContinueIngestionInv == Inv /\ ContinueIngestion => Inv'
<1> SUFFICES ASSUME Inv, ContinueIngestion PROVE Inv'
  OBVIOUS
<1>1. /\ pc = "asking" /\ pc' = "act" /\ errors' = FALSE /\ bound' = saved.bound
      /\ next' = NextAction(plan[phase], saved.action)
      /\ UNCHANGED <<phase, plan, saved, outcome, asked, started, deferred>>
  BY DEF ContinueIngestion
<1>2. PICK ok \in BOOLEAN :
        /\ written' = IF ok THEN written \cup {saved.action} ELSE written
        /\ failed' = IF ok THEN failed ELSE failed \cup {saved.action}
  BY DEF ContinueIngestion
<1>3. /\ next \in DOMAIN plan[phase] /\ Interrupted /\ saved.action = plan[phase][next]
      /\ saved \in Continuations /\ outcome = "none"
  BY <1>1 DEF Inv, TypeOK, ControlInv, Interrupted, Current
<1>4. saved.action \in Actions /\ saved.bound \in SUBSET Creates
  BY <1>3 DEF Continuations
<1>5. plan[phase] \in Seq(Actions) /\ phase \in Phases
  BY DEF Inv, TypeOK
<1>6. PICK i \in 1 .. next : next' = i + 1 /\ Id[plan[phase][i]] = Id[plan[phase][next]]
  BY <1>1, <1>3, <1>5, NextActionIsNear
<1>7. /\ next \in Nat \ {0} /\ next' \in Nat \ {0} /\ next' <= next + 1
      /\ next <= Len(plan[phase]) /\ i \in DOMAIN plan[phase]
  BY <1>3, <1>5, <1>6
<1>8. TypeOK'
  <2>1. written' \in SUBSET Actions /\ failed' \in SUBSET Actions /\ errors' \in BOOLEAN
    BY <1>1, <1>2, <1>4 DEF Inv, TypeOK
  <2> QED
    BY <1>1, <1>4, <1>7, <2>1 DEF Inv, TypeOK
<1>9. PlanInv' /\ ControlInv' /\ Interrupted'
  BY <1>1, <1>3 DEF Inv, PlanInv, ControlInv, Interrupted
<1>10. HandledInv'
  <2>1. ASSUME NEW j \in DOMAIN plan[phase], j < next' PROVE Handled(plan[phase][j])
    <3>1. CASE j = next
      BY <1>1, <3>1 DEF Inv, HandledInv, Handled, Current
    <3>2. CASE j # next
      BY <1>1, <1>5, <1>7, <2>1, <3>2 DEF Inv, HandledInv, InPhase
    <3> QED
      BY <3>1, <3>2
  <2> QED
    BY <1>1, <2>1 DEF Inv, HandledInv, Handled
<1>11. (IdsAreUnique => OnceInv)'
  <2>1. SUFFICES ASSUME IdsAreUnique PROVE OnceInv'
    BY DEF IdsAreUnique
  <2>2. i = next
    BY <1>3, <1>5, <1>6, <1>7, <2>1 DEF IdsAreUnique, Inv, PlanInv
  <2>3. ASSUME NEW a \in Actions, started[a] > 0
        PROVE  Phase[a] < phase \/ (Phase[a] = phase /\ Before(a)')
    BY <1>1, <1>5, <1>6, <1>7, <2>1, <2>2, <2>3 DEF Inv, OnceInv, Before
  <2> QED
    BY <1>1, <2>1, <2>3 DEF Inv, OnceInv
<1> QED
  BY <1>8, <1>9, <1>10, <1>11 DEF Inv

LEMMA AskAgainInv == Inv /\ AskAgain => Inv'
<1> SUFFICES ASSUME Inv, AskAgain PROVE Inv'
  OBVIOUS
<1>1. /\ pc = "asking" /\ asked' = asked + 1
      /\ UNCHANGED <<pc, phase, plan, next, bound, errors, saved, outcome,
                     started, written, failed, deferred>>
  BY DEF AskAgain, history
<1>2. TypeOK' /\ PlanInv' /\ ControlInv'
  BY <1>1 DEF Inv, TypeOK, PlanInv, ControlInv, Current, Interrupted
<1>3. HandledInv'
  BY <1>1 DEF Inv, HandledInv, InPhase, Handled, Current
<1>4. (IdsAreUnique => OnceInv)' /\ Interrupted'
  BY <1>1 DEF Inv, OnceInv, Before, IdsAreUnique, ControlInv, Interrupted
<1> QED
  BY <1>2, <1>3, <1>4 DEF Inv

LEMMA StutterInv == Inv /\ UNCHANGED vars => Inv'
<1> SUFFICES ASSUME Inv, UNCHANGED vars PROVE Inv'
  OBVIOUS
<1> USE DEF vars, history
<1>1. TypeOK' /\ PlanInv' /\ ControlInv'
  BY DEF Inv, TypeOK, PlanInv, ControlInv, Current, Interrupted
<1>2. HandledInv'
  BY DEF Inv, HandledInv, InPhase, Handled, Current
<1>3. (IdsAreUnique => OnceInv)' /\ (~Interrupted => CleanInv)'
  BY DEF Inv, OnceInv, Before, IdsAreUnique, CleanInv, Interrupted
<1> QED
  BY <1>1, <1>2, <1>3 DEF Inv

\* However an ingestion goes, its plans, its place in them and what was started,
\* done, failed, deferred and bound fit together (MemoryIngestionRuntimeService
\* and _execute_memory_plan_actions).
THEOREM IngestionInvariant == Spec => []Inv
<1>1. Inv /\ [Next]_vars => Inv'
  <2> SUFFICES ASSUME Inv, [Next]_vars PROVE Inv'
    OBVIOUS
  <2> QED
    BY ReasonInv, PlanPhaseInv, ModelFailsInv, AskWhilePlanningInv, ConverseInv, DeferInv,
       RunActionInv, AskInActionInv, RaiseInActionInv, EndPhaseInv, ContinueIngestionInv,
       AskAgainInv, StutterInv DEF Next
<1> QED
  BY <1>1, InitInv, PTL DEF Spec

-----------------------------------------------------------------------------
(* What the invariant implies *)

LEMMA PlannedIsHandled ==
    ASSUME Inv, outcome = "ok", NEW a \in Planned
    PROVE  a \in Actions /\ Handled(a)
<1>1. PICK p \in Phases : a \in ToSet(plan[p])
  BY DEF Planned
<1>2. PICK i \in DOMAIN plan[p] : plan[p][i] = a
  BY <1>1 DEF ToSet
<1>3. plan[p] \in Seq(Actions) /\ next \in Nat /\ phase = Edges /\ next > Len(plan[phase])
  BY DEF Inv, TypeOK, ControlInv
<1>4. CASE p = phase
  BY <1>2, <1>3, <1>4 DEF Inv, HandledInv, InPhase
<1>5. CASE p # phase
  BY <1>2, <1>3, <1>5 DEF Inv, HandledInv, Phases, Edges
<1> QED
  BY <1>2, <1>3, <1>4, <1>5

\* No action of an ingestion is started twice, however often it is interrupted
\* and continued, when the model gives its actions different ids; and an
\* ingestion that ends with the status ok has left out none of its plans.
THEOREM ActionsRunOnce == Spec => []EachActionOnce
<1>1. Inv => EachActionOnce
  BY PlannedIsHandled DEF Inv, OnceInv, EachActionOnce, Handled
<1> QED
  BY <1>1, IngestionInvariant, PTL

LEMMA InvMeansDone == Inv => OkMeansDone
<1> SUFFICES ASSUME Inv, ~Interrupted PROVE OkMeansDone
  BY DEF OkMeansDone
<1>1. CleanInv
  BY DEF Inv
<1>2. ASSUME outcome = "ok", NEW a \in Planned \ written
      PROVE  a \in deferred /\ ~(Ends[a] \subseteq Planned)
  <2>1. failed = {}
    BY <1>1, <1>2, Zenon DEF CleanInv
  <2>2. ASSUME NEW b \in Planned PROVE b \in written \/ b \in deferred
    BY <1>1, <1>2, <2>1, <2>2, PlannedIsHandled DEF CleanInv, Handled
  <2>3. a \in deferred /\ a \in Actions
    BY <1>2, <2>2, PlannedIsHandled
  <2>4. PICK e \in Ends[a] : e \notin bound
    BY <1>1, <2>3 DEF CleanInv
  <2>5. e \in Creates /\ Phase[e] < Edges
    BY <2>3, <2>4, IngestionAssumption DEF IngestionAssumption
  <2>6. e \notin written /\ e \notin deferred
    BY <1>1, <2>4, <2>5 DEF CleanInv, Edges
  <2> QED
    BY <2>2, <2>3, <2>4, <2>6
<1>3. ASSUME NEW a \in failed, NEW b \in Actions, started[b] > 0
      PROVE  Phase[b] <= Phase[a]
  BY <1>1, <1>3 DEF CleanInv
<1> QED
  BY <1>2, <1>3 DEF OkMeansDone

\* Without an interruption, ok means that every planned action was done, but for
\* edges to an object that no plan creates, and nothing of a later phase is
\* started once an action has failed.
THEOREM OkMeansDoneHolds == Spec => []OkMeansDone
<1> QED
  BY InvMeansDone, IngestionInvariant, PTL

-----------------------------------------------------------------------------
(* The tools of its actions *)

\* What is assumed of the constants
ToolsConstants == ToolsAssumption

AnyRef   == {Owner} \cup PlannedRefs \cup (Kinds \X Nat)
Entry(n) == [kind : Kinds, id : (1 .. n) \cup {None}]

\* Contexts whose refs are bound to the first n objects of a graph
Records(n) ==
    [entries : UNION {[S -> Entry(n)] : S \in SUBSET AnyRef}, counters : [Kinds -> Nat]]

OneRefEach(c) ==
    \A r, s \in Bound(c) \ {Owner} : c.entries[r].id = c.entries[s].id => r = s

Contexts(n) == {c \in Records(n) : OneRefEach(c)}

\* What a context had is in the other one, and refs of memory logs are not new.
Keeps(c, d) ==
    /\ Refs(c) \subseteq Refs(d)
    /\ \A r \in Bound(c) \ {Owner} : d.entries[r] = c.entries[r]

NoNewLogs(c, d) ==
    \A r \in Bound(d) : d.entries[r].kind = "memory" =>
        r \in Bound(c) /\ c.entries[r] = d.entries[r]

-----------------------------------------------------------------------------
LEMMA RefsAreNotNone == ASSUME ToolsConstants PROVE None \notin AnyRef
BY DEF ToolsConstants, ToolsAssumption, AnyRef

LEMMA ContextFields ==
    ASSUME NEW n \in Nat, NEW c \in Records(n)
    PROVE  /\ c = [entries |-> c.entries, counters |-> c.counters]
           /\ c.counters \in [Kinds -> Nat]
           /\ Refs(c) \subseteq AnyRef
           /\ c.entries \in [Refs(c) -> Entry(n)]
           /\ \A r \in Refs(c) :
                 /\ c.entries[r] = [kind |-> c.entries[r].kind, id |-> c.entries[r].id]
                 /\ c.entries[r].kind \in Kinds
                 /\ c.entries[r].id \in (1 .. n) \cup {None}
<1>1. PICK S \in SUBSET AnyRef : c.entries \in [S -> Entry(n)]
  BY DEF Records
<1>2. Refs(c) = S
  BY <1>1 DEF Refs
<1>3. c = [entries |-> c.entries, counters |-> c.counters] /\ c.counters \in [Kinds -> Nat]
  BY DEF Records
<1>4. \A r \in S : c.entries[r] \in Entry(n)
  BY <1>1
<1> QED
  BY <1>1, <1>2, <1>3, <1>4 DEF Entry

LEMMA IsRecord ==
    ASSUME NEW n \in Nat, NEW S \in SUBSET AnyRef, NEW e \in [S -> Entry(n)],
           NEW k \in [Kinds -> Nat]
    PROVE  [entries |-> e, counters |-> k] \in Records(n)
BY DEF Records

LEMMA MoreObjects ==
    ASSUME NEW n \in Nat, NEW m \in Nat, n <= m
    PROVE  Contexts(n) \subseteq Contexts(m)
<1> SUFFICES ASSUME NEW c \in Contexts(n)
             PROVE  c \in Records(m)
  BY DEF Contexts
<1>1. c \in Records(n)
  BY DEF Contexts
<1>2. Entry(n) \subseteq Entry(m)
  BY DEF Entry
<1>3. c.entries \in [Refs(c) -> Entry(m)]
  BY <1>1, <1>2, ContextFields
<1> QED
  BY <1>1, <1>3, ContextFields, IsRecord

\* AddEntry adds or replaces one entry.
LEMMA AddEntryAdds ==
    ASSUME NEW n \in Nat, NEW c \in Records(n), NEW r \in AnyRef,
           NEW k \in Kinds, NEW id \in (1 .. n) \cup {None}
    PROVE  LET d == AddEntry(c, r, k, id)
           IN  /\ d \in Records(n)
               /\ Refs(d) = Refs(c) \cup {r}
               /\ d.entries[r] = [kind |-> k, id |-> id]
               /\ \A s \in Refs(c) \ {r} : d.entries[s] = c.entries[s]
               /\ d.counters = c.counters
<1> DEFINE e == [s \in Refs(c) \cup {r} |->
                    IF s = r THEN [kind |-> k, id |-> id] ELSE c.entries[s]]
           d == AddEntry(c, r, k, id)
<1>1. /\ c = [entries |-> c.entries, counters |-> c.counters]
      /\ c.counters \in [Kinds -> Nat]
      /\ Refs(c) \subseteq AnyRef
      /\ \A s \in Refs(c) : c.entries[s] \in Entry(n)
  BY ContextFields
<1>2. d = [entries |-> e, counters |-> c.counters]
  BY <1>1 DEF AddEntry, Refs
<1>3. [kind |-> k, id |-> id] \in Entry(n)
  BY DEF Entry
<1>4. e \in [Refs(c) \cup {r} -> Entry(n)]
  BY <1>1, <1>3
<1>5. d \in Records(n)
  BY <1>1, <1>2, <1>4, IsRecord
<1>6. d.entries = e /\ d.counters = c.counters
  BY <1>2
<1>7. Refs(d) = Refs(c) \cup {r}
  BY <1>6 DEF Refs
<1> QED
  BY <1>5, <1>6, <1>7

\* What ref_for_backend_id finds
LEMMA RefForFinds ==
    ASSUME ToolsConstants, NEW n \in Nat, NEW c \in Records(n), NEW id
    PROVE  /\ RefFor(c, id) \in Naming(c, id) \cup {None}
           /\ (RefFor(c, id) = None <=> Naming(c, id) = {})
           /\ RefFor(c, id) # None => RefFor(c, id) \in Refs(c)
<1> DEFINE N == Naming(c, id)
<1>1. N \subseteq Refs(c) /\ None \notin Refs(c)
  BY ContextFields, RefsAreNotNone DEF Naming
<1>2. CASE N \ {Owner} # {}
  <2>1. RefFor(c, id) = CHOOSE r \in N : r # Owner
    BY <1>2 DEF RefFor
  <2>2. \E r \in N : r # Owner
    BY <1>2
  <2>3. RefFor(c, id) \in N
    BY <2>1, <2>2
  <2> QED
    BY <1>1, <2>3
<1>3. CASE N = {Owner}
  <2>1. RefFor(c, id) = Owner
    BY <1>3 DEF RefFor
  <2> QED
    BY <1>1, <1>3, <2>1
<1>4. CASE N = {}
  <2>1. RefFor(c, id) = None
    BY <1>4 DEF RefFor
  <2> QED
    BY <1>4, <2>1
<1> QED
  BY <1>2, <1>3, <1>4

\* register_existing keeps what is there, and gives an object a ref only once.
LEMMA RegisterKeeps ==
    ASSUME ToolsConstants, NEW n \in Nat, NEW c \in Contexts(n),
           NEW id \in 1 .. n, NEW k \in Kinds
    PROVE  LET made == RegisterExisting(c, id, k)
           IN  /\ made.ctx \in Contexts(n) /\ Keeps(c, made.ctx)
               /\ \A r \in Bound(made.ctx) :
                     \/ r \in Bound(c) /\ made.ctx.entries[r] = c.entries[r]
                     \/ made.ctx.entries[r] = [kind |-> k, id |-> id]
               /\ made.ref = None /\ Naming(c, id) = {} =>
                     <<k, c.counters[k] + 1>> \in Refs(c)
<1> DEFINE made == RegisterExisting(c, id, k)
           m    == c.counters[k] + 1
           d    == [c EXCEPT !.counters[k] = m]
<1>0. None \notin Nat
  BY DEF ToolsConstants, ToolsAssumption
<1>1. /\ c \in Records(n) /\ OneRefEach(c)
      /\ c = [entries |-> c.entries, counters |-> c.counters]
      /\ c.counters \in [Kinds -> Nat]
      /\ Refs(c) \subseteq AnyRef
      /\ c.entries \in [Refs(c) -> Entry(n)]
      /\ \A r \in Refs(c) : c.entries[r].id \in (1 .. n) \cup {None}
  BY ContextFields DEF Contexts
<1>2. CASE RefFor(c, id) # None
  <2>1. made.ctx = c /\ Naming(c, id) # {}
    BY <1>1, <1>2, RefForFinds DEF RegisterExisting
  <2> QED
    BY <1>1, <2>1 DEF Keeps, Bound
<1>3. CASE RefFor(c, id) = None
  <2>1. Naming(c, id) = {}
    BY <1>1, <1>3, RefForFinds
  <2>2. made = AddHydrated(c, k, id)
    BY <1>3 DEF RegisterExisting
  <2>3. m \in Nat /\ <<k, m>> \in AnyRef /\ <<k, m>> # None
    BY <1>1, RefsAreNotNone DEF AnyRef
  <2>4. d = [entries |-> c.entries, counters |-> [c.counters EXCEPT ![k] = m]]
    <3>1. PICK e, q : c = [entries |-> e, counters |-> q]
      BY <1>1
    <3> HIDE DEF m
    <3> DEFINE x == [q EXCEPT ![k] = m]
    <3>2. d = [[entries |-> e, counters |-> q] EXCEPT !.counters = x]
      BY <3>1
    <3> HIDE DEF x
    <3>3. [[entries |-> e, counters |-> q] EXCEPT !.counters = x] = [entries |-> e, counters |-> x]
      OBVIOUS
    <3> QED
      BY <3>1, <3>2, <3>3 DEF x
  <2>5. d.entries = c.entries /\ Refs(d) = Refs(c) /\ Bound(d) = Bound(c)
    BY <2>4 DEF Refs, Bound
  <2>6. d \in Records(n)
    <3>1. [c.counters EXCEPT ![k] = m] \in [Kinds -> Nat]
      BY <1>1, <2>3
    <3>2. [entries |-> c.entries, counters |-> [c.counters EXCEPT ![k] = m]] \in Records(n)
      <4> HIDE DEF m
      <4> QED
        BY <1>1, <3>1, IsRecord
    <3> QED
      BY <2>4, <3>2
  <2>7. CASE <<k, m>> \in Refs(c)
    <3>1. made.ctx = d
      BY <2>2, <2>7 DEF AddHydrated
    <3>2. OneRefEach(d)
      BY <1>1, <2>5 DEF OneRefEach
    <3> QED
      BY <2>5, <2>6, <2>7, <3>1, <3>2 DEF Contexts, Keeps, Bound
  <2>8. CASE <<k, m>> \notin Refs(c)
    <3> DEFINE new == <<k, m>>
               f == AddEntry(d, new, k, id)
    <3>1. made.ctx = f /\ made.ref = <<k, m>>
      BY <2>2, <2>8 DEF AddHydrated
    <3>2. /\ f \in Records(n) /\ Refs(f) = Refs(c) \cup {<<k, m>>}
          /\ f.entries[<<k, m>>] = [kind |-> k, id |-> id]
          /\ \A s \in Refs(c) \ {<<k, m>>} : f.entries[s] = c.entries[s]
      <4>1. id \in (1 .. n) \cup {None} /\ new \in AnyRef
        BY <2>3
      <4>2. /\ f \in Records(n) /\ Refs(f) = Refs(d) \cup {new}
            /\ f.entries[new] = [kind |-> k, id |-> id]
            /\ \A s \in Refs(d) \ {new} : f.entries[s] = d.entries[s]
        <5> HIDE DEF new, d
        <5> QED
          BY <2>6, <4>1, AddEntryAdds
      <4> HIDE DEF d, f
      <4> QED
        BY <2>5, <4>2
    <3> HIDE DEF f
    <3>3. \A s \in Refs(c) : f.entries[s] = c.entries[s] /\ f.entries[s].id # id
      <4>1. \A s \in Refs(c) : c.entries[s].id # id
        BY <2>1 DEF Naming
      <4> QED
        BY <2>8, <3>2, <4>1
    <3>4. Bound(f) = Bound(c) \cup {<<k, m>>}
      <4>1. f.entries[<<k, m>>].id # None
        BY <1>0, <3>2
      <4>2. \A s \in Refs(c) : f.entries[s] = c.entries[s]
        BY <3>3
      <4> HIDE DEF m
      <4> QED
        BY <3>2, <4>1, <4>2 DEF Bound
    <3>5. OneRefEach(f)
      <4> SUFFICES ASSUME NEW r \in Bound(f) \ {Owner}, NEW s \in Bound(f) \ {Owner},
                          f.entries[r].id = f.entries[s].id
                   PROVE  r = s
        BY DEF OneRefEach
      <4>1. Bound(c) \subseteq Refs(c)
        BY DEF Bound
      <4>2. CASE r \in Bound(c) /\ s \in Bound(c)
        BY <1>1, <3>3, <4>1, <4>2 DEF OneRefEach
      <4>3. CASE r = <<k, m>> /\ s \in Bound(c)
        BY <3>2, <3>3, <4>1, <4>3
      <4>4. CASE s = <<k, m>> /\ r \in Bound(c)
        BY <3>2, <3>3, <4>1, <4>4
      <4> QED
        BY <3>4, <4>2, <4>3, <4>4
    <3> QED
      BY <2>3, <3>1, <3>2, <3>3, <3>4, <3>5 DEF Contexts, Keeps, Bound
  <2> QED
    BY <2>7, <2>8
<1> QED
  BY <1>2, <1>3

LEMMA KeepsIsTransitive ==
    ASSUME NEW c, NEW d, NEW e, Keeps(c, d), Keeps(d, e),
           \A r \in Bound(c) : c.entries[r].id # None
    PROVE  Keeps(c, e)
BY DEF Keeps, Bound, Refs

-----------------------------------------------------------------------------
Sound(g) ==
    /\ g \in Seq(Objects)
    /\ \A i \in DOMAIN g : \/ {g[i].from, g[i].to} = {0}
                          \/ {g[i].from, g[i].to} \subseteq DOMAIN g

LEMMA RegisterOneKeeps ==
    ASSUME ToolsConstants, Sound(graph), NEW c \in Contexts(Len(graph)),
           NEW id \in DOMAIN graph
    PROVE  /\ Register(c, id) \in Contexts(Len(graph))
           /\ Keeps(c, Register(c, id))
<1> DEFINE n == Len(graph)
           o == graph[id]
           e == RegisterEndpoint(c, o.from)
           f == RegisterEndpoint(e, o.to)
           ends == IF IsEdge(o) THEN f ELSE c
<1>0. n \in Nat /\ DOMAIN graph = 1 .. n
  BY DEF Sound
<1>1. \A d : Keeps(d, d)
  BY DEF Keeps, Bound
<1>2. \A d \in Contexts(n) : \A r \in Bound(d) : d.entries[r].id # None
  BY DEF Bound
<1>3. ASSUME NEW d \in Contexts(n), NEW i \in 1 .. n
      PROVE  RegisterEndpoint(d, i) \in Contexts(n) /\ Keeps(d, RegisterEndpoint(d, i))
  <2>1. "node" \in Kinds
    BY DEF Kinds
  <2> QED
    BY <1>0, <1>1, <2>1, RegisterKeeps DEF RegisterEndpoint
<1>4. ends \in Contexts(n) /\ Keeps(c, ends)
  <2>1. CASE IsEdge(o)
    <3>1. o.from \in 1 .. n /\ o.to \in 1 .. n
      BY <1>0, <2>1 DEF Sound, IsEdge
    <3>2. e \in Contexts(n) /\ Keeps(c, e)
      BY <1>3, <3>1
    <3>3. f \in Contexts(n) /\ Keeps(e, f)
      <4> HIDE DEF e
      <4> QED
        BY <1>3, <3>1, <3>2
    <3>4. Keeps(c, f)
      <4> HIDE DEF e, f
      <4> QED
        BY <1>2, <3>2, <3>3, KeepsIsTransitive
    <3> QED
      BY <2>1, <3>3, <3>4
  <2>2. CASE ~IsEdge(o)
    BY <1>1, <2>2
  <2> QED
    BY <2>1, <2>2
<1>5. KindOf(o) \in Kinds
  BY DEF KindOf, Kinds
<1>6. Register(c, id) = RegisterExisting(ends, id, KindOf(o)).ctx
  BY DEF Register
<1> DEFINE k == KindOf(o)
<1>7. /\ Register(c, id) \in Contexts(n)
      /\ Keeps(ends, Register(c, id))
  <2>1. k \in Kinds /\ id \in 1 .. n
    BY <1>0, <1>5
  <2>2. Register(c, id) = RegisterExisting(ends, id, k).ctx
    BY <1>6
  <2>3. ASSUME NEW d \in Contexts(n)
        PROVE  /\ RegisterExisting(d, id, k).ctx \in Contexts(n)
               /\ Keeps(d, RegisterExisting(d, id, k).ctx)
    <3> HIDE DEF n, k
    <3> QED
      BY <1>0, <2>1, RegisterKeeps
  <2> HIDE DEF ends, n, k
  <2> QED
    BY <1>4, <2>2, <2>3
<1> HIDE DEF ends
<1> QED
  BY <1>2, <1>4, <1>7, KeepsIsTransitive

\* Register, folded over objects of the graph
LEMMA RegisterAll ==
    ASSUME ToolsConstants, Sound(graph), NEW c \in Contexts(Len(graph)),
           NEW s \in Seq(DOMAIN graph)
    PROVE  LET d == FoldLeft(Register, c, s)
           IN  d \in Contexts(Len(graph)) /\ Keeps(c, d)
<1> DEFINE n == Len(s)
           G == {d \in Contexts(Len(graph)) : Keeps(c, d)}
           F == [p \in G \X (1 .. n) |-> Register(p[1], s[p[2]])]
           iter == CHOOSE iter : iter = [S \in SUBSET DOMAIN s |->
                           IF S = {} THEN c
                           ELSE Register(iter[S \ {Max(S)}], s[Max(S)])]
<1>1. FoldLeft(Register, c, s) = iter[DOMAIN s]
  BY Zenon DEF FoldLeft, MapThenFoldSet
<1>2. n \in Nat /\ DOMAIN s = 1 .. n /\ \A i \in 1 .. n : s[i] \in DOMAIN graph
  OBVIOUS
<1>3. c \in G
  BY DEF Keeps, Bound
<1>4. ASSUME NEW d \in G, NEW i \in 1 .. n
      PROVE  Register(d, s[i]) \in G
  <2>1. d \in Contexts(Len(graph)) /\ Keeps(c, d) /\ s[i] \in DOMAIN graph
    BY <1>2
  <2>2. /\ Register(d, s[i]) \in Contexts(Len(graph))
        /\ Keeps(d, Register(d, s[i]))
    BY <2>1, RegisterOneKeeps
  <2>3. \A r \in Bound(c) : c.entries[r].id # None
    BY DEF Bound
  <2> QED
    BY <2>1, <2>2, <2>3, KeepsIsTransitive
<1> HIDE DEF G
<1>5. F \in [G \X (1 .. n) -> G]
  BY <1>4
<1>6. \A d \in G, i \in 1 .. n : F[<<d, i>>] = Register(d, s[i])
  OBVIOUS
<1> HIDE DEF F
<1>7. PICK f \in [SUBSET (1 .. n) -> G] : FoldOf(f, n, c, F)
  <2>1. n \in Nat
    BY <1>2
  <2> HIDE DEF n
  <2> QED
    BY <1>3, <1>5, <2>1, FoldExists
<1>8. ASSUME NEW T \in SUBSET (1 .. n), T # {}
      PROVE  /\ Max(T) \in 1 .. n
             /\ T \ {Max(T)} \in SUBSET (1 .. n)
  <2> HIDE DEF n
  <2> QED
    BY <1>2, <1>8, LastPosition
<1>9. f = [S \in SUBSET DOMAIN s |->
             IF S = {} THEN c ELSE Register(f[S \ {Max(S)}], s[Max(S)])]
  <2>1. ASSUME NEW T \in SUBSET (1 .. n)
        PROVE  f[T] = IF T = {} THEN c
                      ELSE Register(f[T \ {Max(T)}], s[Max(T)])
    <3>1. CASE T = {}
      BY <1>7, <3>1 DEF FoldOf
    <3>2. CASE T # {}
      <4>1. f[T \ {Max(T)}] \in G /\ Max(T) \in 1 .. n
        BY <1>8, <3>2
      <4>2. f[T] = F[<<f[T \ {Max(T)}], Max(T)>>]
        BY <1>7, <3>2 DEF FoldOf
      <4> QED
        BY <1>6, <3>2, <4>1, <4>2
    <3> QED
      BY <3>1, <3>2
  <2> QED
    BY <1>2, <2>1
<1>10. iter = [S \in SUBSET DOMAIN s |->
             IF S = {} THEN c ELSE Register(iter[S \ {Max(S)}], s[Max(S)])]
  <2> DEFINE Is(h) == h = [S \in SUBSET DOMAIN s |->
             IF S = {} THEN c ELSE Register(h[S \ {Max(S)}], s[Max(S)])]
  <2>1. Is(f)
    BY <1>9
  <2>2. iter = CHOOSE h : Is(h)
    BY Zenon
  <2> HIDE DEF Is, iter
  <2>3. Is(iter)
    BY <2>1, <2>2
  <2> QED
    BY <2>3 DEF Is
<1> HIDE DEF iter
<1>11. iter[{}] = c
  BY <1>10
<1>12. ASSUME NEW T \in SUBSET (1 .. n), T # {}, iter[T \ {Max(T)}] \in G
       PROVE  iter[T] \in G
  <2>1. iter[T] = Register(iter[T \ {Max(T)}], s[Max(T)])
    BY <1>2, <1>8, <1>10, <1>12
  <2> QED
    BY <1>4, <1>8, <1>12, <2>1
<1>13. \A T \in SUBSET (1 .. n) : iter[T] \in G
  <2> HIDE DEF n
  <2> QED
    BY <1>2, <1>3, <1>11, <1>12, FoldStays
<1>14. iter[DOMAIN s] \in G
  BY <1>2, <1>13
<1> QED
  BY <1>1, <1>14 DEF G

LEMMA RegisteredKeeps ==
    ASSUME ToolsConstants, Sound(graph), NEW c \in Contexts(Len(graph)),
           NEW found \in SUBSET DOMAIN graph
    PROVE  /\ RegisteredIn(c, found) \in Contexts(Len(graph))
           /\ Keeps(c, RegisteredIn(c, found))
<1>1. IsFiniteSet(found)
  <2>1. DOMAIN graph = 1 .. Len(graph) /\ Len(graph) \in Nat
    BY DEF Sound
  <2>2. IsFiniteSet(1 .. Len(graph))
    BY <2>1, FS_Interval
  <2> QED
    BY <2>1, <2>2, FS_Subset
<1>2. SetToSeq(found) \in Seq(DOMAIN graph)
  BY <1>1, SetToSeqLists
<1> DEFINE s == SetToSeq(found)
<1>3. s \in Seq(DOMAIN graph) /\ RegisteredIn(c, found) = FoldLeft(Register, c, s)
  BY <1>2 DEF RegisteredIn
<1> HIDE DEF s
<1> QED
  BY <1>3, RegisterAll

-----------------------------------------------------------------------------
(* What a clarification looks up *)

\* The views of the first n objects that a context may have grown into
Seen(n, c) ==
    {v \in [ctx : Contexts(n), ok : BOOLEAN] : Keeps(c, v.ctx) /\ NoNewLogs(c, v.ctx)}

LEMMA ShownKeeps ==
    ASSUME ToolsConstants, NEW n \in Nat, NEW c \in Contexts(n), NEW v \in Seen(n, c),
           NEW id \in 1 .. n
    PROVE  Shown(v, id) \in Seen(n, c)
<1> DEFINE made == RegisterExisting(v.ctx, id, "node")
<1>1. v.ctx \in Contexts(n) /\ Keeps(c, v.ctx) /\ NoNewLogs(c, v.ctx)
  BY DEF Seen
<1>2. CASE ~v.ok \/ RefFor(v.ctx, id) # None
  BY <1>2 DEF Shown
<1>3. CASE v.ok /\ RefFor(v.ctx, id) = None
  <2>1. Shown(v, id) = [ctx |-> made.ctx, ok |-> made.ref # None]
    BY <1>3 DEF Shown
  <2>2. "node" \in Kinds
    BY DEF Kinds
  <2>3. /\ made.ctx \in Contexts(n) /\ Keeps(v.ctx, made.ctx)
        /\ \A r \in Bound(made.ctx) :
              \/ r \in Bound(v.ctx) /\ made.ctx.entries[r] = v.ctx.entries[r]
              \/ made.ctx.entries[r] = [kind |-> "node", id |-> id]
    <3> DEFINE b == v.ctx
               k == "node"
    <3>1. b \in Contexts(n) /\ k \in Kinds
      BY <1>1, <2>2
    <3>2. LET f == RegisterExisting(b, id, k)
          IN  /\ f.ctx \in Contexts(n) /\ Keeps(b, f.ctx)
              /\ \A r \in Bound(f.ctx) :
                    \/ r \in Bound(b) /\ f.ctx.entries[r] = b.entries[r]
                    \/ f.ctx.entries[r] = [kind |-> k, id |-> id]
      <4> HIDE DEF b, k
      <4> QED
        BY <3>1, RegisterKeeps
    <3> QED
      BY <3>2
  <2> HIDE DEF made
  <2>4. Keeps(c, made.ctx)
    <3>1. \A r \in Bound(c) : c.entries[r].id # None
      BY DEF Bound
    <3> QED
      BY <1>1, <2>3, <3>1, KeepsIsTransitive
  <2>5. NoNewLogs(c, made.ctx)
    BY <1>1, <2>3 DEF NoNewLogs
  <2> QED
    BY <2>1, <2>3, <2>4, <2>5 DEF Seen
<1> QED
  BY <1>2, <1>3

LEMMA ShowAll ==
    ASSUME ToolsConstants, NEW n \in Nat, NEW c \in Contexts(n), NEW v \in Seen(n, c),
           NEW s \in Seq(1 .. n)
    PROVE  FoldLeft(Shown, v, s) \in Seen(n, c)
<1> DEFINE G == Seen(n, c)
<1>3. v \in G
  OBVIOUS
<1> DEFINE m == Len(s)
           F == [p \in G \X (1 .. m) |-> Shown(p[1], s[p[2]])]
           iter == CHOOSE iter : iter = [S \in SUBSET DOMAIN s |->
                      IF S = {} THEN v ELSE Shown(iter[S \ {Max(S)}], s[Max(S)])]
<1>1. FoldLeft(Shown, v, s) = iter[DOMAIN s]
  BY Zenon DEF FoldLeft, MapThenFoldSet
<1>2. m \in Nat /\ DOMAIN s = 1 .. m
  OBVIOUS
<1>4. \A d \in G, i \in 1 .. m : Shown(d, s[i]) \in G
  <2>1. ASSUME NEW d \in G, NEW i \in 1 .. m
        PROVE  Shown(d, s[i]) \in G
    <3>1. s[i] \in 1 .. n
      BY <1>2
    <3> QED
      BY <3>1, ShownKeeps
  <2> QED
    BY <2>1
<1> HIDE DEF G
<1>5. F \in [G \X (1 .. m) -> G]
  BY <1>4
<1>6. \A d \in G, i \in 1 .. m : F[<<d, i>>] = Shown(d, s[i])
  OBVIOUS
<1> HIDE DEF F
<1>7. PICK f \in [SUBSET (1 .. m) -> G] : FoldOf(f, m, v, F)
  <2>1. m \in Nat
    BY <1>2
  <2> HIDE DEF m
  <2> QED
    BY <1>3, <1>5, <2>1, FoldExists
<1>8. ASSUME NEW T \in SUBSET (1 .. m), T # {}
      PROVE  /\ Max(T) \in 1 .. m
             /\ T \ {Max(T)} \in SUBSET (1 .. m)
  <2> HIDE DEF m
  <2> QED
    BY <1>2, <1>8, LastPosition
<1> DEFINE Is(h) == h = [S \in SUBSET DOMAIN s |->
                           IF S = {} THEN v ELSE Shown(h[S \ {Max(S)}], s[Max(S)])]
<1>9. Is(f)
  <2>1. ASSUME NEW S \in SUBSET (1 .. m)
        PROVE  f[S] = IF S = {} THEN v ELSE Shown(f[S \ {Max(S)}], s[Max(S)])
    <3>1. CASE S = {}
      BY <1>7, <3>1 DEF FoldOf
    <3>2. CASE S # {}
      <4>1. f[S \ {Max(S)}] \in G /\ Max(S) \in 1 .. m
        BY <1>8, <3>2
      <4>2. f[S] = F[<<f[S \ {Max(S)}], Max(S)>>]
        BY <1>7, <3>2 DEF FoldOf
      <4> QED
        BY <1>6, <3>2, <4>1, <4>2
    <3> QED
      BY <3>1, <3>2
  <2> QED
    BY <1>2, <2>1
<1>10. Is(iter)
  <2>1. iter = CHOOSE h : Is(h)
    BY Zenon
  <2> HIDE DEF Is, iter
  <2> QED
    BY <1>9, <2>1
<1> HIDE DEF iter
<1>11. iter[{}] = v
  BY <1>10
<1>12. ASSUME NEW T \in SUBSET (1 .. m), T # {}, iter[T \ {Max(T)}] \in G
       PROVE  iter[T] \in G
  <2>1. iter[T] = Shown(iter[T \ {Max(T)}], s[Max(T)])
    BY <1>2, <1>8, <1>10, <1>12
  <2> DEFINE d == iter[T \ {Max(T)}]
             i == Max(T)
  <2>2. d \in G /\ i \in 1 .. m
    BY <1>8, <1>12
  <2> HIDE DEF d, i
  <2> QED
    BY <1>4, <2>1, <2>2 DEF d, i
<1>13. \A T \in SUBSET (1 .. m) : iter[T] \in G
  <2> HIDE DEF m
  <2> QED
    BY <1>2, <1>3, <1>11, <1>12, FoldStays
<1> QED
  BY <1>1, <1>2, <1>13 DEF G

LEMMA ShowEdges ==
    ASSUME ToolsConstants, Sound(graph), NEW c \in Contexts(Len(graph)),
           NEW v \in Seen(Len(graph), c),
           NEW s \in Seq({i \in DOMAIN graph : graph[i].from # 0 \/ graph[i].to # 0})
    PROVE  FoldLeft(LAMBDA w, e : Shown(Shown(w, graph[e].from), graph[e].to), v, s)
             \in Seen(Len(graph), c)
<1> DEFINE G == Seen(Len(graph), c)
<1>3. v \in G
  OBVIOUS
<1> DEFINE m == Len(s)
           F == [p \in G \X (1 .. m) |-> Shown(Shown(p[1], graph[s[p[2]]].from), graph[s[p[2]]].to)]
           iter == CHOOSE iter : iter = [S \in SUBSET DOMAIN s |->
                      IF S = {} THEN v ELSE Shown(Shown(iter[S \ {Max(S)}], graph[s[Max(S)]].from), graph[s[Max(S)]].to)]
<1>1. FoldLeft(LAMBDA w, e : Shown(Shown(w, graph[e].from), graph[e].to), v, s) = iter[DOMAIN s]
  BY Zenon DEF FoldLeft, MapThenFoldSet
<1>2. m \in Nat /\ DOMAIN s = 1 .. m
  OBVIOUS
<1>4. \A d \in G, i \in 1 .. m : Shown(Shown(d, graph[s[i]].from), graph[s[i]].to) \in G
  <2>1. ASSUME NEW d \in G, NEW i \in 1 .. m
        PROVE  Shown(Shown(d, graph[s[i]].from), graph[s[i]].to) \in G
    <3> DEFINE e == s[i]
               w == Shown(d, graph[e].from)
    <3>1. e \in DOMAIN graph /\ (graph[e].from # 0 \/ graph[e].to # 0)
      BY <1>2
    <3>2. Len(graph) \in Nat /\ DOMAIN graph = 1 .. Len(graph)
      BY DEF Sound
    <3> HIDE DEF e
    <3>3. graph[e].from \in 1 .. Len(graph) /\ graph[e].to \in 1 .. Len(graph)
      BY <3>1, <3>2 DEF Sound
    <3>4. w \in G
      BY <3>2, <3>3, ShownKeeps
    <3> HIDE DEF w
    <3>5. Shown(w, graph[e].to) \in G
      BY <3>2, <3>3, <3>4, ShownKeeps
    <3> QED
      BY <3>5 DEF w, e
  <2> QED
    BY <2>1
<1> HIDE DEF G
<1>5. F \in [G \X (1 .. m) -> G]
  BY <1>4
<1>6. \A d \in G, i \in 1 .. m : F[<<d, i>>] = Shown(Shown(d, graph[s[i]].from), graph[s[i]].to)
  OBVIOUS
<1> HIDE DEF F
<1>7. PICK f \in [SUBSET (1 .. m) -> G] : FoldOf(f, m, v, F)
  <2>1. m \in Nat
    BY <1>2
  <2> HIDE DEF m
  <2> QED
    BY <1>3, <1>5, <2>1, FoldExists
<1>8. ASSUME NEW T \in SUBSET (1 .. m), T # {}
      PROVE  /\ Max(T) \in 1 .. m
             /\ T \ {Max(T)} \in SUBSET (1 .. m)
  <2> HIDE DEF m
  <2> QED
    BY <1>2, <1>8, LastPosition
<1> DEFINE Is(h) == h = [S \in SUBSET DOMAIN s |->
                           IF S = {} THEN v ELSE Shown(Shown(h[S \ {Max(S)}], graph[s[Max(S)]].from), graph[s[Max(S)]].to)]
<1>9. Is(f)
  <2>1. ASSUME NEW S \in SUBSET (1 .. m)
        PROVE  f[S] = IF S = {} THEN v ELSE Shown(Shown(f[S \ {Max(S)}], graph[s[Max(S)]].from), graph[s[Max(S)]].to)
    <3>1. CASE S = {}
      BY <1>7, <3>1 DEF FoldOf
    <3>2. CASE S # {}
      <4>1. f[S \ {Max(S)}] \in G /\ Max(S) \in 1 .. m
        BY <1>8, <3>2
      <4>2. f[S] = F[<<f[S \ {Max(S)}], Max(S)>>]
        BY <1>7, <3>2 DEF FoldOf
      <4> QED
        BY <1>6, <3>2, <4>1, <4>2
    <3> QED
      BY <3>1, <3>2
  <2> QED
    BY <1>2, <2>1
<1>10. Is(iter)
  <2>1. iter = CHOOSE h : Is(h)
    BY Zenon
  <2> HIDE DEF Is, iter
  <2> QED
    BY <1>9, <2>1
<1> HIDE DEF iter
<1>11. iter[{}] = v
  BY <1>10
<1>12. ASSUME NEW T \in SUBSET (1 .. m), T # {}, iter[T \ {Max(T)}] \in G
       PROVE  iter[T] \in G
  <2>1. iter[T] = Shown(Shown(iter[T \ {Max(T)}], graph[s[Max(T)]].from), graph[s[Max(T)]].to)
    BY <1>2, <1>8, <1>10, <1>12
  <2> DEFINE d == iter[T \ {Max(T)}]
             i == Max(T)
  <2>2. d \in G /\ i \in 1 .. m
    BY <1>8, <1>12
  <2> HIDE DEF d, i
  <2> QED
    BY <1>4, <2>1, <2>2 DEF d, i
<1>13. \A T \in SUBSET (1 .. m) : iter[T] \in G
  <2> HIDE DEF m
  <2> QED
    BY <1>2, <1>3, <1>11, <1>12, FoldStays
<1> QED
  BY <1>1, <1>2, <1>13 DEF G

LEMMA ShownDetailKeeps ==
    ASSUME ToolsConstants, Sound(graph), ctx \in Contexts(Len(graph)),
           NEW v \in Seen(Len(graph), ctx), NEW r
    PROVE  ShownDetail(v, r) \in Seen(Len(graph), ctx)
<1> DEFINE id == Resolve(ctx, r, "node")
           s  == SetToSeq(EdgesAt(id))
           n  == Len(graph)
<1>0. n \in Nat /\ DOMAIN graph = 1 .. n
  BY DEF Sound
<1>1. CASE id = None
  <2>1. ShownDetail(v, r) = [v EXCEPT !.ok = FALSE]
    BY <1>1 DEF ShownDetail
  <2>2. v \in [ctx : Contexts(n), ok : BOOLEAN]
    BY DEF Seen
  <2>3. [v EXCEPT !.ok = FALSE] = [ctx |-> v.ctx, ok |-> FALSE]
    <3>1. PICK a, b : v = [ctx |-> a, ok |-> b]
      BY <2>2
    <3>2. ASSUME NEW x
          PROVE  [[ctx |-> a, ok |-> b] EXCEPT !.ok = x] = [ctx |-> a, ok |-> x]
      OBVIOUS
    <3>3. v.ctx = a
      BY <3>1
    <3>4. [v EXCEPT !.ok = FALSE] = [[ctx |-> a, ok |-> b] EXCEPT !.ok = FALSE]
      BY <3>1, Zenon
    <3>5. [[ctx |-> a, ok |-> b] EXCEPT !.ok = FALSE] = [ctx |-> a, ok |-> FALSE]
      BY <3>2, Zenon
    <3> QED
      BY <3>3, <3>4, <3>5, Zenon
  <2> QED
    BY <2>1, <2>3 DEF Seen
<1>2. CASE id # None
  <2>1. ShownDetail(v, r)
          = FoldLeft(LAMBDA w, e : Shown(Shown(w, graph[e].from), graph[e].to), v, s)
    BY <1>2, Zenon DEF ShownDetail
  <2>2. id \in 1 .. n
    <3>1. r \in Refs(ctx) /\ id = ctx.entries[r].id
      BY <1>2 DEF Resolve
    <3>2. ctx \in Records(n)
      BY DEF Contexts
    <3> QED
      BY <1>0, <1>2, <3>1, <3>2, ContextFields
  <2>3. EdgesAt(id) \subseteq {i \in DOMAIN graph : graph[i].from # 0 \/ graph[i].to # 0}
    <3> HIDE DEF id
    <3> QED
      BY <1>0, <2>2 DEF EdgesAt
  <2>4. IsFiniteSet(EdgesAt(id))
    <3>1. EdgesAt(id) \subseteq 1 .. n
      BY <1>0, <2>3
    <3>2. IsFiniteSet(1 .. n)
      BY <1>0, FS_Interval
    <3> QED
      BY <3>1, <3>2, FS_Subset
  <2>5. s = SetToSeq(EdgesAt(id)) /\ s \in Seq(EdgesAt(id))
    BY <2>4, SetToSeqLists
  <2>6. s \in Seq({i \in DOMAIN graph : graph[i].from # 0 \/ graph[i].to # 0})
    <3> HIDE DEF s, id
    <3> QED
      BY <2>3, <2>5
  <2> HIDE DEF s
  <2> QED
    BY <2>1, <2>6, ShowEdges
<1> QED
  BY <1>1, <1>2

LEMMA ShowDetails ==
    ASSUME ToolsConstants, Sound(graph), ctx \in Contexts(Len(graph)),
           NEW v \in Seen(Len(graph), ctx), NEW R, NEW s \in Seq(R)
    PROVE  FoldLeft(ShownDetail, v, s) \in Seen(Len(graph), ctx)
<1> DEFINE G == Seen(Len(graph), ctx)
<1>3. v \in G
  OBVIOUS
<1> DEFINE m == Len(s)
           F == [p \in G \X (1 .. m) |-> ShownDetail(p[1], s[p[2]])]
           iter == CHOOSE iter : iter = [S \in SUBSET DOMAIN s |->
                      IF S = {} THEN v ELSE ShownDetail(iter[S \ {Max(S)}], s[Max(S)])]
<1>1. FoldLeft(ShownDetail, v, s) = iter[DOMAIN s]
  BY Zenon DEF FoldLeft, MapThenFoldSet
<1>2. m \in Nat /\ DOMAIN s = 1 .. m
  OBVIOUS
<1>4. \A d \in G, i \in 1 .. m : ShownDetail(d, s[i]) \in G
  BY ShownDetailKeeps
<1> HIDE DEF G
<1>5. F \in [G \X (1 .. m) -> G]
  BY <1>4
<1>6. \A d \in G, i \in 1 .. m : F[<<d, i>>] = ShownDetail(d, s[i])
  OBVIOUS
<1> HIDE DEF F
<1>7. PICK f \in [SUBSET (1 .. m) -> G] : FoldOf(f, m, v, F)
  <2>1. m \in Nat
    BY <1>2
  <2> HIDE DEF m
  <2> QED
    BY <1>3, <1>5, <2>1, FoldExists
<1>8. ASSUME NEW T \in SUBSET (1 .. m), T # {}
      PROVE  /\ Max(T) \in 1 .. m
             /\ T \ {Max(T)} \in SUBSET (1 .. m)
  <2> HIDE DEF m
  <2> QED
    BY <1>2, <1>8, LastPosition
<1> DEFINE Is(h) == h = [S \in SUBSET DOMAIN s |->
                           IF S = {} THEN v ELSE ShownDetail(h[S \ {Max(S)}], s[Max(S)])]
<1>9. Is(f)
  <2>1. ASSUME NEW S \in SUBSET (1 .. m)
        PROVE  f[S] = IF S = {} THEN v ELSE ShownDetail(f[S \ {Max(S)}], s[Max(S)])
    <3>1. CASE S = {}
      BY <1>7, <3>1 DEF FoldOf
    <3>2. CASE S # {}
      <4>1. f[S \ {Max(S)}] \in G /\ Max(S) \in 1 .. m
        BY <1>8, <3>2
      <4>2. f[S] = F[<<f[S \ {Max(S)}], Max(S)>>]
        BY <1>7, <3>2 DEF FoldOf
      <4> QED
        BY <1>6, <3>2, <4>1, <4>2
    <3> QED
      BY <3>1, <3>2
  <2> QED
    BY <1>2, <2>1
<1>10. Is(iter)
  <2>1. iter = CHOOSE h : Is(h)
    BY Zenon
  <2> HIDE DEF Is, iter
  <2> QED
    BY <1>9, <2>1
<1> HIDE DEF iter
<1>11. iter[{}] = v
  BY <1>10
<1>12. ASSUME NEW T \in SUBSET (1 .. m), T # {}, iter[T \ {Max(T)}] \in G
       PROVE  iter[T] \in G
  <2>1. iter[T] = ShownDetail(iter[T \ {Max(T)}], s[Max(T)])
    BY <1>2, <1>8, <1>10, <1>12
  <2> DEFINE d == iter[T \ {Max(T)}]
             i == Max(T)
  <2>2. d \in G /\ i \in 1 .. m
    BY <1>8, <1>12
  <2> HIDE DEF d, i
  <2> QED
    BY <1>4, <2>1, <2>2 DEF d, i
<1>13. \A T \in SUBSET (1 .. m) : iter[T] \in G
  <2> HIDE DEF m
  <2> QED
    BY <1>2, <1>3, <1>11, <1>12, FoldStays
<1> QED
  BY <1>1, <1>2, <1>13 DEF G

-----------------------------------------------------------------------------
(* What is created *)

\* What the tools may have added since a context was like c: an object got a ref.
Grown(c, d, k, id) ==
    \A r \in Bound(d) :
       \/ r \in Bound(c) /\ d.entries[r] = c.entries[r]
       \/ d.entries[r] = [kind |-> k, id |-> id]

\* A ref that awaits an object gets one that has no ref.
LEMMA ResolveKeeps ==
    ASSUME ToolsConstants, NEW n \in Nat, NEW c \in Contexts(n), NEW r \in Refs(c),
           c.entries[r].id = None, NEW id \in 1 .. n, Naming(c, id) = {}
    PROVE  LET made == ResolveBackendId(c, r, id)
           IN  /\ made.ctx \in Contexts(n) /\ made.ref = r
               /\ Keeps(c, made.ctx) /\ Grown(c, made.ctx, c.entries[r].kind, id)
<1> DEFINE k == c.entries[r].kind
           e == [c.entries EXCEPT ![r] = [kind |-> k, id |-> id]]
           d == [entries |-> e, counters |-> c.counters]
<1>0. None \notin Nat
  BY DEF ToolsConstants, ToolsAssumption
<1>1. /\ c \in Records(n) /\ OneRefEach(c)
      /\ c = [entries |-> c.entries, counters |-> c.counters]
      /\ c.counters \in [Kinds -> Nat]
      /\ Refs(c) \subseteq AnyRef
      /\ c.entries \in [Refs(c) -> Entry(n)]
      /\ c.entries[r] = [kind |-> k, id |-> c.entries[r].id] /\ k \in Kinds
  BY ContextFields DEF Contexts
<1>2. RefFor(c, id) = None
  BY <1>1, RefForFinds
<1>3. [c EXCEPT !.entries[r].id = id] = d
  <2>1. PICK f, q : c = [entries |-> f, counters |-> q]
    BY <1>1
  <2>2. c.entries = f /\ c.counters = q
    BY <2>1
  <2> DEFINE x == [f[r] EXCEPT !.id = id]
             y == [f EXCEPT ![r] = x]
  <2>3. x = [kind |-> k, id |-> id]
    <3>1. f[r] = [kind |-> k, id |-> f[r].id]
      BY <1>1, <2>2
    <3>2. \A z : [[kind |-> k, id |-> z] EXCEPT !.id = id] = [kind |-> k, id |-> id]
      OBVIOUS
    <3> QED
      BY <3>1, <3>2
  <2>4. [c EXCEPT !.entries[r].id = id] = [[entries |-> f, counters |-> q] EXCEPT !.entries = y]
    BY <2>1, <2>2
  <2>5. y = e
    BY <2>2, <2>3
  <2> HIDE DEF y, e
  <2>6. [[entries |-> f, counters |-> q] EXCEPT !.entries = y] = [entries |-> y, counters |-> q]
    OBVIOUS
  <2> QED
    BY <2>2, <2>4, <2>5, <2>6
<1>4. [kind |-> k, id |-> id] \in Entry(n)
  BY <1>1 DEF Entry
<1>5. e \in [Refs(c) -> Entry(n)] /\ e[r] = [kind |-> k, id |-> id]
      /\ \A s \in Refs(c) \ {r} : e[s] = c.entries[s]
  BY <1>1, <1>4
<1>6. d \in Records(n) /\ d.entries = e /\ Refs(d) = Refs(c)
  <2> HIDE DEF e
  <2>1. Refs(c) \in SUBSET AnyRef
    BY <1>1
  <2>2. d \in Records(n)
    BY <1>1, <1>5, <2>1, IsRecord
  <2>3. d.entries = e
    OBVIOUS
  <2>4. DOMAIN e = Refs(c)
    BY <1>5
  <2> QED
    BY <2>2, <2>3, <2>4 DEF Refs
<1>7. LET made == ResolveBackendId(c, r, id) IN made.ctx = d /\ made.ref = r
  BY <1>2, <1>3 DEF ResolveBackendId
<1> HIDE DEF d, e
<1>8. Bound(d) = Bound(c) \cup {r}
  BY <1>0, <1>5, <1>6 DEF Bound
<1>9. r \notin Bound(c)
  BY DEF Bound
<1>10. Keeps(c, d) /\ Grown(c, d, k, id)
  BY <1>5, <1>6, <1>8, <1>9 DEF Keeps, Grown, Bound
<1>11. OneRefEach(d)
  <2> SUFFICES ASSUME NEW s \in Bound(d) \ {Owner}, NEW t \in Bound(d) \ {Owner},
                      d.entries[s].id = d.entries[t].id
               PROVE  s = t
    BY DEF OneRefEach
  <2>1. \A u \in Bound(c) : u \in Refs(c) \ {r} /\ d.entries[u] = c.entries[u]
                                  /\ c.entries[u].id # id
    BY <1>5, <1>6, <1>9 DEF Bound, Naming
  <2>2. d.entries[r].id = id
    BY <1>5, <1>6
  <2>3. CASE s \in Bound(c) /\ t \in Bound(c)
    BY <1>1, <2>1, <2>3 DEF OneRefEach
  <2>4. CASE s = r /\ t \in Bound(c)
    BY <2>1, <2>2, <2>4
  <2>5. CASE t = r /\ s \in Bound(c)
    BY <2>1, <2>2, <2>5
  <2> QED
    BY <1>8, <2>3, <2>4, <2>5
<1> QED
  BY <1>6, <1>7, <1>10, <1>11 DEF Contexts

\* A target that awaits such an object, or a new ref
LEMMA BindCreatedBinds ==
    ASSUME ToolsConstants, NEW n \in Nat, ctx \in Contexts(n), targets \in Seq(AnyRef),
           NEW k \in Kinds
    PROVE  LET made == BindCreated(n + 1, k)
           IN  /\ made.ctx \in Contexts(n + 1) /\ Keeps(ctx, made.ctx)
               /\ Grown(ctx, made.ctx, k, n + 1)
               /\ made.ref = None => NextRefTaken
<1> DEFINE made == BindCreated(n + 1, k)
           I == {i \in 1 .. Len(targets) : Awaits(ctx, targets[i], k)}
           i == SelectInSeq(targets, LAMBDA r : Awaits(ctx, r, k))
<1>0. n + 1 \in Nat /\ n + 1 \in 1 .. n + 1
  OBVIOUS
<1>1. ctx \in Contexts(n + 1) /\ ctx \in Records(n)
  BY MoreObjects DEF Contexts
<1>2. Naming(ctx, n + 1) = {} /\ None \notin Nat
  <2>1. None \notin Nat
    BY DEF ToolsConstants, ToolsAssumption
  <2>2. \A r \in Refs(ctx) : ctx.entries[r].id \in (1 .. n) \cup {None}
    BY <1>1, ContextFields
  <2>3. \A r \in Refs(ctx) : ctx.entries[r].id # n + 1
    BY <2>1, <2>2
  <2> QED
    BY <2>1, <2>3 DEF Naming
<1>3. i = IF I # {} THEN Min(I) ELSE 0
  BY DEF SelectInSeq
<1>4. CASE I # {}
  <2>1. I \in SUBSET Nat
    OBVIOUS
  <2>2. Min(I) \in I
    <3> HIDE DEF I
    <3> QED
      BY <1>4, <2>1, MinIsLeast
  <2>3. i \in I /\ i > 0
    BY <1>3, <1>4, <2>2
  <2> DEFINE r == targets[i]
  <2>4. made = ResolveBackendId(ctx, r, n + 1)
    BY <2>3 DEF BindCreated
  <2>5. r \in Refs(ctx) /\ ctx.entries[r].kind = k /\ ctx.entries[r].id = None
    BY <2>3 DEF Awaits
  <2>6. r # None
    BY <1>1, <2>5, ContextFields, RefsAreNotNone
  <2> HIDE DEF i, I, r, made
  <2> DEFINE m == n + 1
  <2>7. m \in Nat /\ ctx \in Contexts(m) /\ m \in 1 .. m /\ Naming(ctx, m) = {}
        /\ made = ResolveBackendId(ctx, r, m)
    BY <1>0, <1>1, <1>2, <2>4
  <2> HIDE DEF m
  <2>8. /\ made.ctx \in Contexts(m) /\ made.ref = r
        /\ Keeps(ctx, made.ctx) /\ Grown(ctx, made.ctx, k, m)
    BY <2>5, <2>7, ResolveKeeps
  <2> QED
    BY <2>6, <2>8 DEF m, made
<1>5. CASE I = {}
  <2>1. made = RegisterExisting(ctx, n + 1, k)
    BY <1>3, <1>5 DEF BindCreated
  <2> HIDE DEF i, I, made
  <2> DEFINE m == n + 1
  <2>2. m \in Nat /\ ctx \in Contexts(m) /\ m \in 1 .. m /\ Naming(ctx, m) = {}
        /\ made = RegisterExisting(ctx, m, k)
    BY <1>0, <1>1, <1>2, <2>1
  <2> HIDE DEF m
  <2>3. /\ made.ctx \in Contexts(m) /\ Keeps(ctx, made.ctx)
        /\ \A r \in Bound(made.ctx) :
              \/ r \in Bound(ctx) /\ made.ctx.entries[r] = ctx.entries[r]
              \/ made.ctx.entries[r] = [kind |-> k, id |-> m]
        /\ made.ref = None => <<k, ctx.counters[k] + 1>> \in Refs(ctx)
    BY <2>2, RegisterKeeps
  <2> QED
    BY <2>3 DEF m, made, Grown, NextRefTaken
<1> QED
  BY <1>4, <1>5

-----------------------------------------------------------------------------
(* What is written *)

\* The links of a log among some objects
LinkedIn(E, id, log) ==
    /\ {o.from : o \in {x \in E : x.label = "HAS_MEMORY_LOG" /\ x.to = id}} = log.hosts
    /\ {o.from : o \in {x \in E : x.label = "HAS_MEMORY_LOG" /\ x.to = id /\ x.data = "primary"}}
         = {log.primary}
    /\ {o.to : o \in {x \in E : x.label = "INVOLVES" /\ x.from = id}} = log.involved
    /\ {o.to : o \in {x \in E : x.label = "UPDATES_RELATIONSHIP" /\ x.from = id}} = log.contexts

LinkedLog(g, id) == LinkedIn(ToSet(g), id, g[id].data)

\* All logs of a context are linked, if they were not there at the start.
LinkedLogs(g, c) ==
    \A r \in Bound(c) :
       c.entries[r].kind = "memory" /\ c.entries[r].id > Len(Stored) => LinkedLog(g, c.entries[r].id)

LEMMA LogsAreLinkedMeans ==
    LinkedLogs(graph, ctx) <=> LogsAreLinked
<1> DEFINE E == ToSet(graph)
<1>1. \A l, id : /\ {graph[i].from : i \in Into(id, l)}
                       = {o.from : o \in {x \in E : x.label = l /\ x.to = id}}
                  /\ {graph[i].to : i \in OutOf(id, l)}
                       = {o.to : o \in {x \in E : x.label = l /\ x.from = id}}
  BY DEF Into, OutOf, ToSet
<1>2. \A id : {graph[i].from : i \in {j \in Into(id, "HAS_MEMORY_LOG") : graph[j].data = "primary"}}
                = {o.from : o \in {x \in E : x.label = "HAS_MEMORY_LOG" /\ x.to = id /\ x.data = "primary"}}
  BY DEF Into, ToSet
<1> DEFINE P(id, log) ==
              /\ {graph[i].from : i \in Into(id, "HAS_MEMORY_LOG")} = log.hosts
              /\ {graph[i].from : i \in {j \in Into(id, "HAS_MEMORY_LOG") : graph[j].data = "primary"}}
                   = {log.primary}
              /\ {graph[i].to : i \in OutOf(id, "INVOLVES")} = log.involved
              /\ {graph[i].to : i \in OutOf(id, "UPDATES_RELATIONSHIP")} = log.contexts
<1>3. ASSUME NEW id
      PROVE  LinkedLog(graph, id) <=> P(id, graph[id].data)
  <2> DEFINE log == graph[id].data
  <2>1. LinkedLog(graph, id) <=> LinkedIn(E, id, log)
    BY DEF LinkedLog
  <2> HIDE DEF E, log
  <2>2. LinkedIn(E, id, log) <=> P(id, log)
    BY <1>1, <1>2 DEF LinkedIn
  <2> QED
    BY <2>1, <2>2 DEF log
<1>4. LogsAreLinked <=>
        \A r \in Bound(ctx) :
           ctx.entries[r].kind = "memory" /\ ctx.entries[r].id > Len(Stored)
             => P(ctx.entries[r].id, graph[ctx.entries[r].id].data)
  BY Zenon DEF LogsAreLinked
<1> HIDE DEF P
<1> QED
  BY <1>3, <1>4 DEF LinkedLogs

\* Objects that are written when there are n: all their links with a log are with
\* the first of them.
Additions(n) ==
    {w \in Seq(Objects) :
        \A i \in DOMAIN w :
           /\ \/ {w[i].from, w[i].to} = {0}
              \/ {w[i].from, w[i].to} \subseteq 1 .. n + 1
           /\ w[i].label = "HAS_MEMORY_LOG" => w[i].to = n + 1
           /\ w[i].label \in {"INVOLVES", "UPDATES_RELATIONSHIP"} => w[i].from = n + 1}

LEMMA AddingKeeps ==
    ASSUME NEW g, Sound(g), NEW w \in Additions(Len(g))
    PROVE  /\ Sound(g \o w) /\ Len(g \o w) = Len(g) + Len(w) /\ Len(w) \in Nat
           /\ \A id \in DOMAIN g : LinkedLog(g, id) => LinkedLog(g \o w, id)
<1> DEFINE n == Len(g)
           h == g \o w
<1>1. /\ g \in Seq(Objects) /\ w \in Seq(Objects) /\ n \in Nat
      /\ DOMAIN g = 1 .. n /\ Len(w) \in Nat
  BY DEF Sound, Additions
<1>2. /\ h \in Seq(Objects) /\ Len(h) = n + Len(w)
      /\ \A i \in DOMAIN g : h[i] = g[i] /\ i \in DOMAIN h
      /\ ToSet(h) = ToSet(g) \cup ToSet(w)
  BY <1>1, ElementsOfConcat
<1>3. \A x \in ToSet(w) :
         /\ \/ {x.from, x.to} = {0}
            \/ {x.from, x.to} \subseteq 1 .. n + 1
         /\ x.label = "HAS_MEMORY_LOG" => x.to = n + 1
         /\ x.label \in {"INVOLVES", "UPDATES_RELATIONSHIP"} => x.from = n + 1
  <2> HIDE DEF n
  <2> QED
    BY DEF ToSet, Additions, n
<1>4. Sound(h)
  <2> SUFFICES ASSUME NEW i \in DOMAIN h
               PROVE  \/ {h[i].from, h[i].to} = {0}
                      \/ {h[i].from, h[i].to} \subseteq DOMAIN h
    BY <1>2 DEF Sound
  <2>1. DOMAIN h = 1 .. n + Len(w)
    BY <1>2
  <2>2. CASE i \in DOMAIN g
    <3>1. h[i] = g[i] /\ DOMAIN g \subseteq DOMAIN h
      BY <1>2, <2>2
    <3> QED
      BY <2>2, <3>1 DEF Sound
  <2>3. CASE i \notin DOMAIN g
    <3>1. Len(w) >= 1 /\ i \in n + 1 .. n + Len(w)
      BY <1>1, <2>1, <2>3
    <3>2. h[i] = w[i - n] /\ i - n \in DOMAIN w
      BY <1>1, <3>1
    <3>3. h[i] \in ToSet(w)
      BY <3>2 DEF ToSet
    <3>4. 1 .. n + 1 \subseteq DOMAIN h
      BY <1>1, <2>1, <3>1
    <3> HIDE DEF n, h
    <3> QED
      BY <1>3, <3>3, <3>4
  <2> QED
    BY <2>2, <2>3
<1>5. ASSUME NEW id \in DOMAIN g, LinkedLog(g, id)
      PROVE  LinkedLog(h, id)
  <2>1. id # n + 1
    BY <1>1
  <2>2. h[id] = g[id]
    BY <1>2
  <2> HIDE DEF n, h
  <2>3. /\ {x \in ToSet(h) : x.label = "HAS_MEMORY_LOG" /\ x.to = id}
             = {x \in ToSet(g) : x.label = "HAS_MEMORY_LOG" /\ x.to = id}
        /\ {x \in ToSet(h) : x.label = "HAS_MEMORY_LOG" /\ x.to = id /\ x.data = "primary"}
             = {x \in ToSet(g) : x.label = "HAS_MEMORY_LOG" /\ x.to = id /\ x.data = "primary"}
        /\ {x \in ToSet(h) : x.label = "INVOLVES" /\ x.from = id}
             = {x \in ToSet(g) : x.label = "INVOLVES" /\ x.from = id}
        /\ {x \in ToSet(h) : x.label = "UPDATES_RELATIONSHIP" /\ x.from = id}
             = {x \in ToSet(g) : x.label = "UPDATES_RELATIONSHIP" /\ x.from = id}
    BY <1>2, <1>3, <2>1
  <2> QED
    BY <1>5, <2>2, <2>3 DEF LinkedLog, LinkedIn
<1> QED
  BY <1>1, <1>2, <1>4, <1>5

\* Not all of them
LEMMA AddingSome ==
    ASSUME NEW n \in Nat, NEW w \in Additions(n), NEW k \in 0 .. Len(w)
    PROVE  SubSeq(w, 1, k) \in Additions(n)
<1>1. w \in Seq(Objects)
  BY DEF Additions
<1> DEFINE v == SubSeq(w, 1, k)
<1>2. v \in Seq(Objects) /\ \A i \in DOMAIN v : i \in DOMAIN w /\ v[i] = w[i]
  <2>1. Len(w) \in Nat /\ k \in Nat /\ k <= Len(w) /\ DOMAIN w = 1 .. Len(w)
    BY <1>1
  <2>2. v = [i \in 1 .. k |-> w[i]]
    BY <1>1, <2>1
  <2> QED
    BY <1>1, <2>1, <2>2
<1> HIDE DEF v
<1> QED
  BY <1>2 DEF Additions, v

LEMMA AdditionsOf ==
    ASSUME NEW n \in Nat, NEW w \in Seq(Objects),
           \A x \in ToSet(w) :
              /\ \/ {x.from, x.to} = {0}
                 \/ {x.from, x.to} \subseteq 1 .. n + 1
              /\ x.label = "HAS_MEMORY_LOG" => x.to = n + 1
              /\ x.label \in {"INVOLVES", "UPDATES_RELATIONSHIP"} => x.from = n + 1
    PROVE  w \in Additions(n)
BY DEF Additions, ToSet

LEMMA FiniteImage ==
    ASSUME NEW S, IsFiniteSet(S), NEW f, DOMAIN f = S
    PROVE  IsFiniteSet({f[x] : x \in S})
<1> DEFINE T == {f[x] : x \in S}
           g == [x \in S |-> f[x]]
<1>1. g \in Surjection(S, T)
  BY DEF Surjection
<1> HIDE DEF T, g
<1>2. IsFiniteSet(T)
  BY <1>1, FS_Surjection
<1> QED
  BY <1>2 DEF T

\* All the links of a new log
LEMMA LogLinksLink ==
    ASSUME ToolsConstants, NEW n \in Nat, NEW hosts \in SUBSET (1 .. n),
           NEW involved \in SUBSET (1 .. n), NEW contexts \in SUBSET (1 .. n),
           NEW primary \in hosts
    PROVE  LET log == [hosts |-> hosts, primary |-> primary,
                       involved |-> involved, contexts |-> contexts]
               w   == <<Node("MemoryLog", log)>> \o LogLinks(n + 1, log)
           IN  /\ w \in Additions(n) /\ w # <<>> /\ w[1].data = log
               /\ LinkedIn(ToSet(w), n + 1, log)
<1> DEFINE log == [hosts |-> hosts, primary |-> primary,
                   involved |-> involved, contexts |-> contexts]
           m == n + 1
           node == Node("MemoryLog", log)
           host(h) == Edge("HAS_MEMORY_LOG", h, m, IF h = primary THEN "primary" ELSE None)
           inv(i)  == Edge("INVOLVES", m, i, None)
           upd(c)  == Edge("UPDATES_RELATIONSHIP", m, c, None)
           H == {host(h) : h \in hosts}
           V == {inv(i) : i \in involved}
           U == {upd(c) : c \in contexts}
           w == <<node>> \o LogLinks(m, log)
<1>1. /\ log \in Logs /\ log.hosts = hosts /\ log.primary = primary
      /\ log.involved = involved /\ log.contexts = contexts
  BY DEF Logs
<1>2. m \in Nat /\ m \in 1 .. n + 1 /\ None # "primary" /\ m # 0
  BY DEF ToolsConstants, ToolsAssumption
<1>3. node \in Objects /\ node.label = "MemoryLog" /\ node.data = log
      /\ node.from = 0 /\ node.to = 0
  <2> HIDE DEF log
  <2> QED
    BY <1>1 DEF Node, Objects, Labels
<1>4. \A h \in 1 .. n : /\ host(h) \in Objects /\ host(h).label = "HAS_MEMORY_LOG"
                         /\ host(h).from = h /\ host(h).to = m
                         /\ (host(h).data = "primary" <=> h = primary)
  <2> SUFFICES ASSUME NEW h \in 1 .. n
               PROVE  /\ host(h) \in Objects /\ host(h).label = "HAS_MEMORY_LOG"
                      /\ host(h).from = h /\ host(h).to = m
                      /\ (host(h).data = "primary" <=> h = primary)
    OBVIOUS
  <2> DEFINE d == IF h = primary THEN "primary" ELSE None
  <2>1. d \in {None, "primary"} \cup Logs /\ (d = "primary" <=> h = primary)
    BY <1>2
  <2> HIDE DEF d, m
  <2> QED
    BY <1>2, <2>1 DEF Edge, Objects, Labels
<1>5. \A i \in 1 .. n : /\ inv(i) \in Objects /\ inv(i).label = "INVOLVES"
                         /\ inv(i).from = m /\ inv(i).to = i
  <2> HIDE DEF m
  <2> QED
    BY <1>2 DEF Edge, Objects, Labels
<1>6. \A i \in 1 .. n : /\ upd(i) \in Objects /\ upd(i).label = "UPDATES_RELATIONSHIP"
                         /\ upd(i).from = m /\ upd(i).to = i
  <2> HIDE DEF m
  <2> QED
    BY <1>2 DEF Edge, Objects, Labels
<1>7. LogLinks(m, log) = SetToSeq(H) \o SetToSeq(V) \o SetToSeq(U)
  <2>1. HostLinks(m, log) = SetToSeq(H)
    BY <1>1, Zenon DEF HostLinks
  <2>2. LogLinks(m, log) = HostLinks(m, log) \o SetToSeq(V) \o SetToSeq(U)
    BY <1>1, Zenon DEF LogLinks
  <2> QED
    BY <2>1, <2>2
<1> HIDE DEF node, host, inv, upd
<1>8. IsFiniteSet(H) /\ IsFiniteSet(V) /\ IsFiniteSet(U)
  <2>1. IsFiniteSet(1 .. n)
    BY FS_Interval
  <2>2. IsFiniteSet(hosts) /\ IsFiniteSet(involved) /\ IsFiniteSet(contexts)
    BY <2>1, FS_Subset
  <2>3. IsFiniteSet(H)
    <3> DEFINE f == [h \in hosts |-> host(h)]
    <3>1. DOMAIN f = hosts /\ H = {f[h] : h \in hosts}
      OBVIOUS
    <3> HIDE DEF f, H
    <3> QED
      BY <2>2, <3>1, FiniteImage
  <2>4. IsFiniteSet(V)
    <3> DEFINE f == [i \in involved |-> inv(i)]
    <3>1. DOMAIN f = involved /\ V = {f[i] : i \in involved}
      OBVIOUS
    <3> HIDE DEF f, V
    <3> QED
      BY <2>2, <3>1, FiniteImage
  <2>5. IsFiniteSet(U)
    <3> DEFINE f == [c \in contexts |-> upd(c)]
    <3>1. DOMAIN f = contexts /\ U = {f[c] : c \in contexts}
      OBVIOUS
    <3> HIDE DEF f, U
    <3> QED
      BY <2>2, <3>1, FiniteImage
  <2> QED
    BY <2>3, <2>4, <2>5
<1>9. H \subseteq Objects /\ V \subseteq Objects /\ U \subseteq Objects
  <2>1. \A x \in hosts \cup involved \cup contexts : x \in 1 .. n
    OBVIOUS
  <2> QED
    BY <1>4, <1>5, <1>6, <2>1
<1> HIDE DEF m, log
<1>10. w \in Seq(Objects) /\ ToSet(w) = {node} \cup H \cup V \cup U /\ w # <<>> /\ w[1] = node
  <2> DEFINE a == SetToSeq(H)
             b == SetToSeq(V)
             c == SetToSeq(U)
  <2> HIDE DEF H, V, U
  <2>1. /\ a \in Seq(Objects) /\ ToSet(a) = H
        /\ b \in Seq(Objects) /\ ToSet(b) = V
        /\ c \in Seq(Objects) /\ ToSet(c) = U
    BY <1>8, <1>9, SetToSeqLists
  <2> HIDE DEF a, b, c
  <2>2. a \o b \in Seq(Objects) /\ ToSet(a \o b) = H \cup V
    BY <2>1, ElementsOfConcat
  <2>3. (a \o b) \o c \in Seq(Objects) /\ ToSet((a \o b) \o c) = (H \cup V) \cup U
    <3> DEFINE ab == a \o b
    <3>1. ab \in Seq(Objects) /\ ToSet(ab) = H \cup V
      BY <2>2
    <3> HIDE DEF ab
    <3>2. ab \o c \in Seq(Objects) /\ ToSet(ab \o c) = (H \cup V) \cup U
      BY <2>1, <3>1, ElementsOfConcat
    <3> QED
      BY <3>2 DEF ab
  <2> DEFINE e == (a \o b) \o c
  <2>4. w = <<node>> \o e
    BY <1>7 DEF a, b, c
  <2>5. e \in Seq(Objects) /\ ToSet(e) = (H \cup V) \cup U
    BY <2>3
  <2> HIDE DEF e, w
  <2>6. w \in Seq(Objects) /\ ToSet(w) = {node} \cup ToSet(e) /\ w # <<>>
    BY <1>3, <2>4, <2>5, ToSetOfCons
  <2>7. w[1] = node
    BY <2>4, <2>5, <1>3
  <2> QED
    BY <2>5, <2>6, <2>7
<1> HIDE DEF w
<1>11. \A x \in ToSet(w) :
          \/ x = node
          \/ \E h \in hosts : x = host(h)
          \/ \E i \in involved : x = inv(i)
          \/ \E c \in contexts : x = upd(c)
  BY <1>10
<1>a. \A x \in hosts \cup involved \cup contexts : x \in 1 .. n
  OBVIOUS
<1>12. w \in Additions(n)
  <2>1. \A x \in ToSet(w) :
              /\ \/ {x.from, x.to} = {0}
                 \/ {x.from, x.to} \subseteq 1 .. n + 1
              /\ x.label = "HAS_MEMORY_LOG" => x.to = m
              /\ x.label \in {"INVOLVES", "UPDATES_RELATIONSHIP"} => x.from = m
    <3>1. \A i \in 1 .. n : i \in 1 .. n + 1
      OBVIOUS
    <3> QED
      BY <1>2, <1>3, <1>4, <1>5, <1>6, <1>11, <3>1
  <2>2. \A x \in ToSet(w) :
              /\ \/ {x.from, x.to} = {0}
                 \/ {x.from, x.to} \subseteq 1 .. n + 1
              /\ x.label = "HAS_MEMORY_LOG" => x.to = n + 1
              /\ x.label \in {"INVOLVES", "UPDATES_RELATIONSHIP"} => x.from = n + 1
    BY <2>1 DEF m
  <2> QED
    BY <1>10, <2>2, AdditionsOf
<1>13. LinkedIn(ToSet(w), m, log)
  <2> DEFINE E == ToSet(w)
  <2>1. {x \in E : x.label = "HAS_MEMORY_LOG" /\ x.to = m} = H
    BY <1>3, <1>4, <1>5, <1>6, <1>10
  <2>2. {x \in E : x.label = "HAS_MEMORY_LOG" /\ x.to = m /\ x.data = "primary"} = {host(primary)}
    BY <1>3, <1>4, <1>5, <1>6, <1>10
  <2>3. {x \in E : x.label = "INVOLVES" /\ x.from = m} = V
    BY <1>3, <1>4, <1>5, <1>6, <1>10
  <2>4. {x \in E : x.label = "UPDATES_RELATIONSHIP" /\ x.from = m} = U
    BY <1>3, <1>4, <1>5, <1>6, <1>10
  <2>5. {o.from : o \in H} = hosts
    <3>1. \A h \in hosts : host(h).from = h
      BY <1>4
    <3> QED
      BY <3>1
  <2>6. {o.from : o \in {host(primary)}} = {primary}
    <3>1. host(primary).from = primary
      BY <1>4
    <3> QED
      BY <3>1
  <2>7. {o.to : o \in V} = involved
    <3>1. \A i \in involved : inv(i).to = i
      BY <1>5
    <3> QED
      BY <3>1
  <2>8. {o.to : o \in U} = contexts
    <3>1. \A i \in contexts : upd(i).to = i
      BY <1>6
    <3> QED
      BY <3>1
  <2> HIDE DEF E, H, V, U
  <2> QED
    BY <1>1, <2>1, <2>2, <2>3, <2>4, <2>5, <2>6, <2>7, <2>8 DEF LinkedIn, E
<1> QED
  BY <1>3, <1>10, <1>12, <1>13 DEF w, m, log, node

-----------------------------------------------------------------------------
(* The invariant *)

ToolsInv ==
    /\ Sound(graph) /\ Len(Stored) <= Len(graph)
    /\ ctx \in Contexts(Len(graph)) /\ copied \in Contexts(Len(graph))
    /\ targets \in Seq(AnyRef)
    /\ Keeps(copied, ctx)
    /\ LinkedLogs(graph, ctx) /\ LinkedLogs(graph, copied)
    /\ doing = "retrieve" => graph = Stored

\* What a tool call or lookup may do: the context it began with is kept, and a
\* call that asks for another try wrote nothing.
CallKeeps ==
    /\ Sound(graph') /\ Len(Stored) <= Len(graph') /\ Len(graph) <= Len(graph')
    /\ ctx' \in Contexts(Len(graph')) /\ Keeps(ctx, ctx')
    /\ LinkedLogs(graph', ctx') /\ LinkedLogs(graph', copied)
    /\ graph' # graph => result' # "retry" \/ NextRefTaken

\* The ids of the refs of memory logs lie in the graph.
LEMMA BoundIds ==
    ASSUME ToolsConstants, NEW n \in Nat, NEW c \in Contexts(n), NEW r \in Bound(c)
    PROVE  c.entries[r].id \in 1 .. n
<1>1. c \in Records(n) /\ r \in Refs(c) /\ c.entries[r].id # None
  BY DEF Contexts, Bound
<1> QED
  BY <1>1, ContextFields

LEMMA WriteKeeps ==
    ASSUME ToolsConstants, ToolsInv, NEW w \in Additions(Len(graph)), NEW k \in Kinds,
           k = "memory" => LinkedLog(graph \o w, Len(graph) + 1),
           Len(w) > 0, Write(w, k)
    PROVE  CallKeeps
<1> DEFINE n == Len(graph)
<1>0. /\ n \in Nat /\ DOMAIN graph = 1 .. n /\ Len(Stored) \in Nat /\ Len(Stored) <= n
      /\ w \in Seq(Objects) /\ Len(w) \in Nat
  BY DEF ToolsInv, Sound, Additions, ToolsConstants, ToolsAssumption
<1>1. ASSUME NEW v \in Additions(n)
      PROVE  /\ Sound(graph \o v) /\ Len(graph \o v) = n + Len(v) /\ Len(v) \in Nat
             /\ Len(graph) <= Len(graph \o v) /\ Len(Stored) <= Len(graph \o v)
             /\ LinkedLogs(graph \o v, ctx) /\ LinkedLogs(graph \o v, copied)
  <2>1. /\ Sound(graph \o v) /\ Len(graph \o v) = n + Len(v) /\ Len(v) \in Nat
        /\ \A id \in DOMAIN graph : LinkedLog(graph, id) => LinkedLog(graph \o v, id)
    BY AddingKeeps DEF ToolsInv
  <2>2. \A c \in Contexts(n) : LinkedLogs(graph, c) => LinkedLogs(graph \o v, c)
    <3>1. \A c \in Contexts(n) : \A r \in Bound(c) : c.entries[r].id \in 1 .. n
      BY <1>0, BoundIds
    <3> QED
      BY <1>0, <2>1, <3>1 DEF LinkedLogs
  <2> HIDE DEF n
  <2> QED
    BY <1>0, <2>1, <2>2 DEF ToolsInv, n
<1>2. CASE /\ \E j \in 0 .. Len(w) : graph' = graph \o SubSeq(w, 1, j)
           /\ result' = Outcome("backend")
           /\ UNCHANGED ctx
  <2>1. PICK j \in 0 .. Len(w) : graph' = graph \o SubSeq(w, 1, j)
    BY <1>2
  <2> DEFINE v == SubSeq(w, 1, j)
  <2>2. v \in Additions(n)
    BY <1>0, AddingSome
  <2>3. result' # "retry"
    BY <1>2 DEF Outcome
  <2> HIDE DEF v
  <2>4. /\ Sound(graph') /\ Len(graph) <= Len(graph') /\ Len(Stored) <= Len(graph')
        /\ LinkedLogs(graph', ctx) /\ LinkedLogs(graph', copied) /\ Len(graph') \in Nat
    BY <1>0, <1>1, <2>1, <2>2 DEF v
  <2>5. ctx \in Contexts(Len(graph'))
    BY <1>0, <2>4, MoreObjects DEF ToolsInv
  <2>6. Keeps(ctx, ctx)
    BY DEF Keeps, Bound
  <2> QED
    BY <1>2, <2>3, <2>4, <2>5, <2>6 DEF CallKeeps
<1>3. CASE LET made == BindCreated(Len(graph) + 1, k)
           IN  /\ graph' = graph \o w
               /\ ctx' = made.ctx
               /\ result' = IF made.ref = None THEN Outcome("value") ELSE "ok"
  <2> DEFINE made == BindCreated(n + 1, k)
  <2>1. /\ graph' = graph \o w /\ ctx' = made.ctx
        /\ result' = IF made.ref = None THEN Outcome("value") ELSE "ok"
    BY <1>3
  <2>2. /\ made.ctx \in Contexts(n + 1) /\ Keeps(ctx, made.ctx)
        /\ Grown(ctx, made.ctx, k, n + 1)
        /\ made.ref = None => NextRefTaken
    <3> HIDE DEF n
    <3> QED
      BY <1>0, BindCreatedBinds DEF ToolsInv, n
  <2> HIDE DEF made
  <2>3. /\ Sound(graph') /\ Len(graph') = n + Len(w) /\ Len(w) \in Nat
        /\ Len(graph) <= Len(graph') /\ Len(Stored) <= Len(graph')
        /\ LinkedLogs(graph', ctx) /\ LinkedLogs(graph', copied)
    BY <1>1, <2>1
  <2>4. ctx' \in Contexts(Len(graph'))
    <3>1. n + 1 \in Nat /\ Len(graph') \in Nat /\ n + 1 <= Len(graph')
      BY <1>0, <2>3
    <3> QED
      BY <2>1, <2>2, <3>1, MoreObjects
  <2>5. LinkedLogs(graph', ctx')
    <3> SUFFICES ASSUME NEW r \in Bound(made.ctx),
                        made.ctx.entries[r].kind = "memory",
                        made.ctx.entries[r].id > Len(Stored)
                 PROVE  LinkedLog(graph', made.ctx.entries[r].id)
      BY <2>1 DEF LinkedLogs
    <3>1. CASE r \in Bound(ctx) /\ made.ctx.entries[r] = ctx.entries[r]
      BY <2>3, <3>1 DEF LinkedLogs
    <3>2. CASE made.ctx.entries[r] = [kind |-> k, id |-> n + 1]
      <4>1. k = "memory" /\ made.ctx.entries[r].id = n + 1
        BY <3>2
      <4> QED
        BY <2>1, <4>1
    <3> QED
      BY <2>2, <3>1, <3>2 DEF Grown
  <2>6. result' # "retry" \/ NextRefTaken
    BY <2>1, <2>2
  <2> QED
    BY <2>1, <2>2, <2>3, <2>4, <2>5, <2>6 DEF CallKeeps
<1> QED
  BY <1>2, <1>3 DEF Write

LEMMA ReplyKeeps ==
    ASSUME ToolsConstants, ToolsInv, UNCHANGED <<graph, ctx>>
    PROVE  CallKeeps
<1>1. Keeps(ctx, ctx)
  BY DEF Keeps, Bound
<1>2. Len(graph) \in Nat
  BY DEF ToolsInv, Sound
<1> QED
  BY <1>1, <1>2 DEF CallKeeps, ToolsInv

\* What resolve finds is in the graph.
LEMMA Resolved ==
    ASSUME ToolsConstants, NEW n \in Nat, NEW c \in Contexts(n), NEW r, NEW k,
           Resolve(c, r, k) # None
    PROVE  Resolve(c, r, k) \in 1 .. n
<1>1. r \in Refs(c) /\ Resolve(c, r, k) = c.entries[r].id
  BY DEF Resolve
<1>2. c \in Records(n)
  BY DEF Contexts
<1>3. c.entries[r].id \in (1 .. n) \cup {None}
  BY <1>1, <1>2, ContextFields
<1> QED
  BY <1>1, <1>3

LEMMA RefuseKeeps ==
    ASSUME ToolsConstants, ToolsInv, NEW e, Refuse(e) \/ Reply(e)
    PROVE  CallKeeps
BY ReplyKeeps DEF Refuse, Reply

\* Writes of one object, or of two, that are not about logs
LEMMA PlainWrite ==
    ASSUME NEW n \in Nat, NEW w \in Seq(Objects),
           \A x \in ToSet(w) :
              /\ x.label \notin {"HAS_MEMORY_LOG", "INVOLVES", "UPDATES_RELATIONSHIP"}
              /\ \/ x.from = 0 /\ x.to = 0
                 \/ x.from \in 1 .. n + 1 /\ x.to \in 1 .. n + 1
    PROVE  w \in Additions(n)
<1>1. \A x \in ToSet(w) :
              /\ \/ {x.from, x.to} = {0}
                 \/ {x.from, x.to} \subseteq 1 .. n + 1
              /\ x.label = "HAS_MEMORY_LOG" => x.to = n + 1
              /\ x.label \in {"INVOLVES", "UPDATES_RELATIONSHIP"} => x.from = n + 1
  OBVIOUS
<1> QED
  BY <1>1, AdditionsOf

LEMMA OneObject ==
    ASSUME NEW S, NEW x \in S
    PROVE  <<x>> \in Seq(S) /\ ToSet(<<x>>) = {x}
<1>1. <<x>> \in Seq(S) /\ DOMAIN <<x>> = {1} /\ <<x>>[1] = x
  OBVIOUS
<1> QED
  BY <1>1 DEF ToSet

LEMMA TwoObjects ==
    ASSUME NEW S, NEW x \in S, NEW y \in S
    PROVE  <<x, y>> \in Seq(S) /\ ToSet(<<x, y>>) = {x, y}
<1>1. /\ <<x, y>> \in Seq(S) /\ DOMAIN <<x, y>> = {1, 2}
      /\ <<x, y>>[1] = x /\ <<x, y>>[2] = y
  OBVIOUS
<1> QED
  BY <1>1 DEF ToSet

\* What the writes of the tools consist of
LEMMA ObjectsOfTools ==
    ASSUME NEW n \in Nat, NEW a \in 1 .. n, NEW b \in 1 .. n
    PROVE  /\ <<Node("Person", None)>> \in Additions(n)
           /\ <<Edge("RELATED_TO", a, b, None)>> \in Additions(n)
           /\ <<Node("RelationshipState", None),
                Edge("HAS_RELATIONSHIP_STATE", a, n + 1, None)>> \in Additions(n)
<1> DEFINE m == n + 1
           x == Node("Person", None)
           y == Edge("RELATED_TO", a, b, None)
           z == Node("RelationshipState", None)
           e == Edge("HAS_RELATIONSHIP_STATE", a, m, None)
<1>1. m \in Nat /\ m \in 1 .. n + 1 /\ a \in 1 .. n + 1 /\ b \in 1 .. n + 1 /\ a \in Nat /\ b \in Nat
  OBVIOUS
<1> HIDE DEF m
<1>2. /\ x \in Objects /\ x.label = "Person" /\ x.from = 0 /\ x.to = 0
      /\ z \in Objects /\ z.label = "RelationshipState" /\ z.from = 0 /\ z.to = 0
  BY DEF Node, Objects, Labels
<1>3. /\ y \in Objects /\ y.label = "RELATED_TO" /\ y.from = a /\ y.to = b
      /\ e \in Objects /\ e.label = "HAS_RELATIONSHIP_STATE" /\ e.from = a /\ e.to = m
  BY <1>1 DEF Edge, Objects, Labels
<1> HIDE DEF x, y, z, e
<1>4. <<x>> \in Additions(n)
  <2>1. <<x>> \in Seq(Objects) /\ ToSet(<<x>>) = {x}
    BY <1>2, OneObject
  <2> DEFINE w == <<x>>
  <2> HIDE DEF w
  <2>2. w \in Seq(Objects) /\ ToSet(w) = {x}
    BY <2>1 DEF w
  <2>3. w \in Additions(n)
    BY <1>2, <2>2, PlainWrite
  <2> QED
    BY <2>3 DEF w
<1>5. <<y>> \in Additions(n)
  <2> DEFINE w == <<y>>
  <2>1. w \in Seq(Objects) /\ ToSet(w) = {y}
    BY <1>3, OneObject
  <2> HIDE DEF w
  <2>2. w \in Additions(n)
    BY <1>1, <1>3, <2>1, PlainWrite
  <2> QED
    BY <2>2 DEF w
<1>6. <<z, e>> \in Additions(n)
  <2> DEFINE w == <<z, e>>
  <2>1. w \in Seq(Objects) /\ ToSet(w) = {z, e}
    BY <1>2, <1>3, TwoObjects
  <2> HIDE DEF w
  <2>2. w \in Additions(n)
    BY <1>1, <1>2, <1>3, <2>1, PlainWrite
  <2> QED
    BY <2>2 DEF w
<1> QED
  BY <1>4, <1>5, <1>6 DEF m, x, y, z, e

LEMMA KindsAre ==
    "node" \in Kinds /\ "memory" \in Kinds /\ "edge" \in Kinds /\ "context" \in Kinds
BY DEF Kinds

LEMMA MemoryLogKeeps ==
    ASSUME ToolsConstants, ToolsInv, CreateMemoryLog
    PROVE  CallKeeps
<1> DEFINE n == Len(graph)
<1>0. n \in Nat /\ ctx \in Contexts(n)
  BY DEF ToolsInv, Sound
<1>1. CASE Refuse("value")
  BY <1>1, RefuseKeeps
<1>2. ASSUME NEW hosts \in SUBSET Named("node"), NEW involved \in SUBSET Named("node"),
             NEW contexts \in SUBSET Named("context"), NEW primary \in hosts,
             LET log == [hosts |-> hosts, primary |-> primary,
                         involved |-> involved, contexts |-> contexts]
             IN  Write(<<Node("MemoryLog", log)>> \o LogLinks(Len(graph) + 1, log), "memory")
      PROVE  CallKeeps
  <2> DEFINE log == [hosts |-> hosts, primary |-> primary, involved |-> involved, contexts |-> contexts]
             w   == <<Node("MemoryLog", log)>> \o LogLinks(n + 1, log)
  <2>1. \A k : Named(k) \subseteq 1 .. n
    <3> HIDE DEF n
    <3> QED
      BY <1>0, Resolved DEF Named
  <2>2. /\ hosts \in SUBSET (1 .. n) /\ involved \in SUBSET (1 .. n) /\ contexts \in SUBSET (1 .. n)
    BY <2>1
  <2>3. /\ w \in Additions(n) /\ w # <<>> /\ w[1].data = log
        /\ LinkedIn(ToSet(w), n + 1, log)
    <3> HIDE DEF n
    <3> QED
      BY <1>0, <2>2, LogLinksLink
  <2>4. Write(w, "memory")
    BY <1>2
  <2> HIDE DEF w, log
  <2>5. /\ graph \in Seq(Objects) /\ w \in Seq(Objects) /\ DOMAIN graph = 1 .. n
        /\ \A i \in DOMAIN graph : \/ {graph[i].from, graph[i].to} = {0}
                                  \/ {graph[i].from, graph[i].to} \subseteq DOMAIN graph
    <3>1. w \in Seq(Objects)
      BY <2>3 DEF Additions
    <3> QED
      <4>1. Sound(graph)
        BY DEF ToolsInv
      <4>2. graph \in Seq(Objects)
        BY <4>1 DEF Sound
      <4>3. DOMAIN graph = 1 .. n
        BY <4>2
      <4>4. \A i \in DOMAIN graph : \/ {graph[i].from, graph[i].to} = {0}
                                  \/ {graph[i].from, graph[i].to} \subseteq DOMAIN graph
        BY <4>1, Zenon DEF Sound
      <4> QED
        BY <3>1, <4>2, <4>3, <4>4, Zenon
  <2>6. Len(w) > 0 /\ Len(w) \in Nat /\ DOMAIN w = 1 .. Len(w)
    BY <2>3, <2>5
  <2>7. LinkedLog(graph \o w, n + 1)
    <3> DEFINE h == graph \o w
    <3>1. ToSet(h) = ToSet(graph) \cup ToSet(w)
      BY <2>5, ElementsOfConcat
    <3>2. h[n + 1] = w[1]
      BY <1>0, <2>5, <2>6
    <3>3. \A x \in ToSet(graph) : x.from # n + 1 /\ x.to # n + 1
      <4>1. \A i \in 1 .. n : i # n + 1 /\ 0 # n + 1
        BY <1>0
      <4>2. \A i \in DOMAIN graph : graph[i].from # n + 1 /\ graph[i].to # n + 1
        <5> HIDE DEF n
        <5> QED
          BY <1>0, <2>5, <4>1
      <4> QED
        BY <4>2 DEF ToSet
    <3> DEFINE m == n + 1
    <3> HIDE DEF h, m, n
    <3>4. /\ {x \in ToSet(h) : x.label = "HAS_MEMORY_LOG" /\ x.to = m}
               = {x \in ToSet(w) : x.label = "HAS_MEMORY_LOG" /\ x.to = m}
          /\ {x \in ToSet(h) : x.label = "HAS_MEMORY_LOG" /\ x.to = m /\ x.data = "primary"}
               = {x \in ToSet(w) : x.label = "HAS_MEMORY_LOG" /\ x.to = m /\ x.data = "primary"}
          /\ {x \in ToSet(h) : x.label = "INVOLVES" /\ x.from = m}
               = {x \in ToSet(w) : x.label = "INVOLVES" /\ x.from = m}
          /\ {x \in ToSet(h) : x.label = "UPDATES_RELATIONSHIP" /\ x.from = m}
               = {x \in ToSet(w) : x.label = "UPDATES_RELATIONSHIP" /\ x.from = m}
      BY <3>1, <3>3 DEF m
    <3>5. LinkedIn(ToSet(w), m, log) /\ h[m].data = log
      BY <2>3, <3>2 DEF m
    <3>6. LinkedIn(ToSet(h), m, log)
      BY <3>4, <3>5 DEF LinkedIn
    <3> QED
      BY <3>5, <3>6 DEF LinkedLog, h, m
  <2> QED
    BY <2>3, <2>4, <2>6, <2>7, WriteKeeps, KindsAre
<1> QED
  BY <1>1, <1>2 DEF CreateMemoryLog

LEMMA BoundedSeqs ==
    ASSUME NEW S, NEW n \in Nat, NEW s \in SeqOf(S, n)
    PROVE  s \in Seq(S)
BY DEF SeqOf

\* A tool call
LEMMA ToolKeeps ==
    ASSUME ToolsConstants, ToolsInv,
           \/ CreateNode \/ PatchNode \/ UpsertRelationship
           \/ CreateState \/ CreateMemoryLog \/ ReadGraph \/ ResolveTargets
    PROVE  CallKeeps
<1> DEFINE n == Len(graph)
<1>0. n \in Nat /\ n > 0 /\ 1 \in 1 .. n /\ ctx \in Contexts(n)
  BY DEF ToolsInv, Sound, ToolsConstants, ToolsAssumption
<1> HIDE DEF n
<1>1. CASE CreateNode
  <2> DEFINE w == <<Node("Person", None)>>
  <2>1. w \in Additions(n)
    BY <1>0, ObjectsOfTools
  <2>2. Len(w) > 0
    OBVIOUS
  <2>3. Refuse("validation") \/ Refuse("forbidden") \/ Write(w, "node")
    BY <1>1 DEF CreateNode
  <2> HIDE DEF w
  <2> QED
    BY <2>1, <2>2, <2>3, RefuseKeeps, WriteKeeps, KindsAre DEF n
<1>2. CASE PatchNode
  <2>1. \E e : Refuse(e) \/ Reply(e)
    BY <1>2 DEF PatchNode
  <2> QED
    BY <2>1, RefuseKeeps
<1>3. CASE UpsertRelationship
  <2>1. CASE \E e : Refuse(e)
    BY <2>1, RefuseKeeps
  <2>2. ASSUME NEW r \in Args, NEW s \in Args,
               None \notin {Resolve(ctx, r, "node"), Resolve(ctx, s, "node")},
               Write(<<Edge("RELATED_TO", Resolve(ctx, r, "node"),
                                        Resolve(ctx, s, "node"), None)>>, "edge")
        PROVE  CallKeeps
    <3> DEFINE a == Resolve(ctx, r, "node")
               b == Resolve(ctx, s, "node")
               w == <<Edge("RELATED_TO", a, b, None)>>
    <3>1. a \in 1 .. n /\ b \in 1 .. n
      BY <1>0, <2>2, Resolved
    <3>2. Write(w, "edge")
      BY <2>2
    <3> HIDE DEF a, b
    <3>3. w \in Additions(n)
      BY <1>0, <3>1, ObjectsOfTools
    <3>4. Len(w) > 0
      OBVIOUS
    <3> HIDE DEF w
    <3> QED
      BY <3>2, <3>3, <3>4, WriteKeeps, KindsAre DEF n
  <2> QED
    BY <1>3, <2>1, <2>2 DEF UpsertRelationship
<1>4. CASE CreateState
  <2>1. CASE \E e : Refuse(e)
    BY <2>1, RefuseKeeps
  <2>2. ASSUME NEW r \in Args, Resolve(ctx, r, "context") # None,
               Write(<<Node("RelationshipState", None),
                             Edge("HAS_RELATIONSHIP_STATE", Resolve(ctx, r, "context"),
                                        Len(graph) + 1, None)>>, "context")
        PROVE  CallKeeps
    <3> DEFINE a == Resolve(ctx, r, "context")
               w == <<Node("RelationshipState", None),
                      Edge("HAS_RELATIONSHIP_STATE", a, n + 1, None)>>
    <3>1. a \in 1 .. n
      BY <1>0, <2>2, Resolved
    <3>2. Write(w, "context")
      BY <2>2 DEF n
    <3> HIDE DEF a
    <3>3. w \in Additions(n)
      BY <1>0, <3>1, ObjectsOfTools
    <3>4. Len(w) > 0
      OBVIOUS
    <3> HIDE DEF w
    <3> QED
      BY <3>2, <3>3, <3>4, WriteKeeps, KindsAre DEF n
  <2> QED
    BY <1>4, <2>1, <2>2 DEF CreateState
<1>5. CASE CreateMemoryLog
  BY <1>5, MemoryLogKeeps
<1>6. CASE ReadGraph
  BY <1>6, RefuseKeeps DEF ReadGraph
<1>7. CASE ResolveTargets
  <2>1. \E e : Refuse(e) \/ Reply(e)
    BY <1>7 DEF ResolveTargets
  <2> QED
    BY <2>1, RefuseKeeps
<1> QED
  BY <1>1, <1>2, <1>3, <1>4, <1>5, <1>6, <1>7

LEMMA ShowKeeps ==
    ASSUME ToolsConstants, ToolsInv, NEW view \in Seen(Len(graph), ctx), Show(view)
    PROVE  CallKeeps
<1>1. /\ view.ctx \in Contexts(Len(graph)) /\ Keeps(ctx, view.ctx) /\ NoNewLogs(ctx, view.ctx)
  BY DEF Seen
<1>2. ctx' = view.ctx /\ graph' = graph
  BY DEF Show
<1>3. LinkedLogs(graph, view.ctx)
  BY <1>1 DEF ToolsInv, LinkedLogs, NoNewLogs
<1>4. Len(graph) \in Nat
  BY DEF ToolsInv, Sound
<1> QED
  BY <1>1, <1>2, <1>3, <1>4 DEF CallKeeps, ToolsInv

LEMMA UnseenIsSeen ==
    ASSUME ToolsConstants, ToolsInv
    PROVE  Unseen \in Seen(Len(graph), ctx) /\ [Unseen EXCEPT !.ok = FALSE] \in Seen(Len(graph), ctx)
<1> DEFINE n == Len(graph)
<1>1. ctx \in Contexts(n) /\ Keeps(ctx, ctx) /\ NoNewLogs(ctx, ctx)
  BY DEF ToolsInv, Keeps, NoNewLogs, Bound
<1>2. ASSUME NEW b \in BOOLEAN
      PROVE  [ctx |-> ctx, ok |-> b] \in Seen(n, ctx)
  BY <1>1 DEF Seen
<1>3. ASSUME NEW y, NEW x
      PROVE  [[ctx |-> ctx, ok |-> y] EXCEPT !.ok = x] = [ctx |-> ctx, ok |-> x]
  OBVIOUS
<1>4. [Unseen EXCEPT !.ok = FALSE] = [ctx |-> ctx, ok |-> FALSE]
  BY <1>3, Zenon DEF Unseen
<1>5. Unseen = [ctx |-> ctx, ok |-> TRUE]
  BY Zenon DEF Unseen
<1>6. [ctx |-> ctx, ok |-> TRUE] \in Seen(n, ctx) /\ [ctx |-> ctx, ok |-> FALSE] \in Seen(n, ctx)
  BY <1>2
<1> QED
  BY <1>4, <1>5, <1>6, Zenon

\* A lookup of the clarification
LEMMA LookUpKeeps ==
    ASSUME ToolsConstants, ToolsInv,
           LookUpCandidates \/ CandidateContext \/ RelationshipContext
    PROVE  CallKeeps
<1> DEFINE n == Len(graph)
<1>0. /\ n \in Nat /\ ctx \in Contexts(n) /\ Sound(graph) /\ DOMAIN graph = 1 .. n
      /\ MaxTargets \in Nat
  <2>1. MaxTargets \in Nat
    BY DEF ToolsConstants, ToolsAssumption
  <2>2. Sound(graph) /\ ctx \in Contexts(n)
    BY DEF ToolsInv
  <2>3. n \in Nat /\ DOMAIN graph = 1 .. n
    BY <2>2 DEF Sound
  <2> QED
    BY <2>1, <2>2, <2>3
<1>1. Unseen \in Seen(n, ctx) /\ [Unseen EXCEPT !.ok = FALSE] \in Seen(n, ctx)
  BY UnseenIsSeen
<1>2. CASE LookUpCandidates
  <2>1. CASE Reply("retry")
    BY <2>1, RefuseKeeps
  <2>2. ASSUME NEW found \in SeqOf(Nodes, MaxTargets),
               Show(FoldLeft(Shown, Unseen, found))
        PROVE  CallKeeps
    <3>1. found \in Seq(Nodes)
      BY <1>0, <2>2, BoundedSeqs
    <3>2. found \in Seq(1 .. n)
      BY <1>0, <3>1 DEF Nodes
    <3>3. FoldLeft(Shown, Unseen, found) \in Seen(n, ctx)
      <4> HIDE DEF n
      <4> QED
        BY <1>0, <1>1, <3>2, ShowAll
    <3> QED
      BY <2>2, <3>3, ShowKeeps
  <2> QED
    BY <1>2, <2>1, <2>2, Zenon DEF LookUpCandidates
<1>3. CASE CandidateContext
  <2>1. PICK refs \in SeqOf(Args, MaxTargets) :
           Show(IF refs = <<>> THEN [Unseen EXCEPT !.ok = FALSE]
                      ELSE FoldLeft(ShownDetail, Unseen, refs))
    BY <1>3, Zenon DEF CandidateContext
  <2>2. refs \in Seq(Args)
    BY <1>0, <2>1, BoundedSeqs
  <2>3. FoldLeft(ShownDetail, Unseen, refs) \in Seen(n, ctx)
    BY <1>0, <1>1, <2>2, ShowDetails
  <2>4. (IF refs = <<>> THEN [Unseen EXCEPT !.ok = FALSE]
         ELSE FoldLeft(ShownDetail, Unseen, refs)) \in Seen(n, ctx)
    BY <1>1, <2>3, Zenon
  <2> QED
    BY <2>1, <2>4, ShowKeeps
<1>4. CASE RelationshipContext
  <2>1. Reply("retry") \/ Reply("ok")
    BY <1>4 DEF RelationshipContext
  <2> QED
    BY <2>1, RefuseKeeps
<1> QED
  BY <1>2, <1>3, <1>4

LEMMA EmptyContext ==
    ASSUME ToolsConstants, NEW n \in Nat
    PROVE  /\ Empty \in Contexts(n) /\ Bound(Empty) = {}
           /\ Refs(Empty) = {}
<1> DEFINE e == Empty
<1>1. e = [entries |-> <<>>, counters |-> [k \in Kinds |-> 0]]
  BY DEF Empty
<1> HIDE DEF e
<1>2. e.entries = <<>> /\ DOMAIN <<>> = {}
  BY <1>1
<1>3. Refs(e) = {} /\ Bound(e) = {}
  BY <1>2 DEF Refs, Bound
<1>4. e \in Records(n)
  <2>1. <<>> \in [{} -> Entry(n)]
    OBVIOUS
  <2>2. {} \in SUBSET AnyRef
    OBVIOUS
  <2>3. [k \in Kinds |-> 0] \in [Kinds -> Nat]
    OBVIOUS
  <2> QED
    BY <1>1, <2>1, <2>2, <2>3, IsRecord
<1> QED
  BY <1>3, <1>4 DEF e, Contexts, OneRefEach

\* The step form of RefsKeepTheirObject
RefsStay ==
    \A r \in (Bound(ctx) \cap Bound(ctx')) \ {Owner} :
       ctx'.entries[r].id = ctx.entries[r].id

\* and of RetryAfterNoWrite
RetryWroteNothing == graph' # graph => result' # "retry" \/ NextRefTaken

\* The invariant holds at the start.
LEMMA ToolsInitInv ==
    ASSUME ToolsConstants, ToolsInit
    PROVE  ToolsInv
<1>1. graph = Stored /\ ctx = Empty /\ copied = Empty /\ targets = <<>>
  BY DEF ToolsInit
<1>2. Sound(Stored) /\ Len(Stored) \in Nat
  <2>1. /\ Stored \in Seq(Objects)
        /\ \A i \in DOMAIN Stored :
              \/ {Stored[i].from, Stored[i].to} = {0}
              \/ {Stored[i].from, Stored[i].to} \subseteq DOMAIN Stored
    BY DEF ToolsConstants, ToolsAssumption
  <2>2. Sound(Stored)
    BY <2>1, Zenon DEF Sound
  <2> QED
    BY <2>1, <2>2
<1>3. /\ Empty \in Contexts(Len(Stored)) /\ Bound(Empty) = {}
      /\ Refs(Empty) = {}
  BY <1>2, EmptyContext
<1>4. <<>> \in Seq(AnyRef)
  OBVIOUS
<1> QED
  BY <1>1, <1>2, <1>3, <1>4 DEF ToolsInv, Keeps, LinkedLogs

\* Calls and lookups keep the invariant,
LEMMA CallStep ==
    ASSUME ToolsConstants, ToolsInv, CallKeeps, UNCHANGED <<copied, targets>>,
           doing' # "retrieve"
    PROVE  ToolsInv' /\ RefsStay /\ RetryWroteNothing
<1>1. copied \in Contexts(Len(graph'))
  <2>1. /\ Len(graph) \in Nat /\ Len(graph') \in Nat /\ Len(graph) <= Len(graph')
        /\ copied \in Contexts(Len(graph))
    BY DEF ToolsInv, CallKeeps, Sound
  <2> QED
    BY <2>1, MoreObjects
<1>2. Keeps(copied, ctx')
  <2>1. \A r \in Bound(copied) : copied.entries[r].id # None
    BY DEF Bound
  <2> QED
    BY <2>1, KeepsIsTransitive DEF ToolsInv, CallKeeps
<1>3. ToolsInv'
  BY <1>1, <1>2 DEF ToolsInv, CallKeeps
<1>4. RefsStay
  BY DEF CallKeeps, Keeps, RefsStay
<1> QED
  BY <1>3, <1>4 DEF CallKeeps, RetryWroteNothing

\* and so does what leaves the graph alone.
LEMMA SameGraph ==
    ASSUME ToolsConstants, ToolsInv, UNCHANGED graph,
           ctx' \in Contexts(Len(graph)), copied' \in Contexts(Len(graph)),
           Keeps(copied', ctx'), Keeps(ctx, ctx') \/ Keeps(ctx', ctx),
           LinkedLogs(graph, ctx'), LinkedLogs(graph, copied'),
           targets' \in Seq(AnyRef), doing' = "retrieve" => doing = "retrieve"
    PROVE  ToolsInv' /\ RefsStay /\ RetryWroteNothing
<1>1. ToolsInv'
  BY DEF ToolsInv
<1>2. RefsStay
  BY DEF Keeps, RefsStay
<1> QED
  BY <1>1, <1>2 DEF RetryWroteNothing

\* The owner's object may have another ref.
LEMMA BindOwnerKeeps ==
    ASSUME NEW n \in Nat, n > 0, NEW c \in Contexts(n)
    PROVE  BindOwner(c, 1) \in Contexts(n) /\ Keeps(c, BindOwner(c, 1))
<1> DEFINE k == "node"
           i == 1
           d == AddEntry(c, Owner, k, i)
<1>1. BindOwner(c, 1) = d
  BY DEF BindOwner
<1>2. k \in Kinds /\ Owner \in AnyRef /\ i \in 1 .. n
  BY DEF AnyRef, Kinds
<1>3. c \in Records(n) /\ OneRefEach(c)
  BY DEF Contexts
<1> HIDE DEF k, i
<1>4. /\ d \in Records(n) /\ Refs(d) = Refs(c) \cup {Owner}
      /\ d.entries[Owner] = [kind |-> k, id |-> i]
      /\ \A s \in Refs(c) \ {Owner} : d.entries[s] = c.entries[s]
  <2>1. i \in (1 .. n) \cup {None}
    BY <1>2
  <2> QED
    BY <1>2, <1>3, <2>1, AddEntryAdds
<1> HIDE DEF d
<1>5. OneRefEach(d)
  BY <1>3, <1>4 DEF OneRefEach, Bound
<1> QED
  BY <1>1, <1>4, <1>5 DEF Contexts, Keeps, Bound

\* A step of the ingestion, or none
LEMMA ToolsStepInv ==
    ASSUME ToolsConstants, ToolsInv, [ToolsNext]_toolsVars
    PROVE  ToolsInv' /\ RefsStay /\ RetryWroteNothing
<1> DEFINE n == Len(graph)
<1>0. /\ n \in Nat /\ n > 0 /\ 1 \in 1 .. n /\ DOMAIN graph = 1 .. n
      /\ ctx \in Contexts(n) /\ copied \in Contexts(n)
      /\ Sound(graph) /\ targets \in Seq(AnyRef) /\ Keeps(copied, ctx)
      /\ LinkedLogs(graph, ctx) /\ LinkedLogs(graph, copied)
  <2>1. /\ Len(Stored) \in Nat /\ Len(Stored) > 0
    BY DEF ToolsConstants, ToolsAssumption
  <2>2. /\ ctx \in Contexts(n) /\ copied \in Contexts(n) /\ Len(Stored) <= n
        /\ Sound(graph) /\ targets \in Seq(AnyRef) /\ Keeps(copied, ctx)
        /\ LinkedLogs(graph, ctx) /\ LinkedLogs(graph, copied)
    BY DEF ToolsInv
  <2>3. n \in Nat /\ DOMAIN graph = 1 .. n
    BY <2>2 DEF Sound
  <2> HIDE DEF n
  <2>4. n > 0 /\ 1 \in 1 .. n
    BY <2>1, <2>2, <2>3
  <2> QED
    BY <2>2, <2>3, <2>4
<1>r. \A c : Keeps(c, c)
  BY DEF Keeps, Bound
<1>t. ASSUME NEW c, NEW d, NEW e, Keeps(c, d), Keeps(d, e)
      PROVE  Keeps(c, e)
  <2>1. \A r \in Bound(c) : c.entries[r].id # None
    BY DEF Bound
  <2> QED
    BY <1>t, <2>1, KeepsIsTransitive
<1>e. /\ Empty \in Contexts(n) /\ LinkedLogs(graph, Empty)
      /\ \A c : Keeps(Empty, c)
  <2>1. /\ Empty \in Contexts(n) /\ Bound(Empty) = {}
        /\ Refs(Empty) = {}
    BY <1>0, EmptyContext
  <2> QED
    BY <2>1 DEF LinkedLogs, Keeps
<1>1. CASE Retrieve
  <2>1. PICK found \in SUBSET DOMAIN graph :
           ctx' = RegisteredIn(BindOwner(Registered(found), 1), found)
    BY <1>1 DEF Retrieve, Retrievals
  <2> DEFINE a == RegisteredIn(ctx, found)
             b == BindOwner(a, 1)
  <2>2. a \in Contexts(n) /\ Keeps(ctx, a)
    BY <1>0, RegisteredKeeps
  <2>3. b \in Contexts(n) /\ Keeps(a, b)
    <3> HIDE DEF a
    <3> HIDE DEF n
    <3> QED
      BY <1>0, <2>2, BindOwnerKeeps
  <2>4. ctx' \in Contexts(n) /\ Keeps(b, ctx')
    <3>1. ctx' = RegisteredIn(b, found)
      BY <2>1 DEF Registered
    <3> HIDE DEF b
    <3> QED
      BY <1>0, <2>3, <3>1, RegisteredKeeps
  <2> HIDE DEF a, b
  <2>5. Keeps(ctx, ctx') /\ Keeps(copied, ctx')
    BY <1>0, <1>t, <2>2, <2>3, <2>4
  <2>6. LinkedLogs(graph, ctx')
    <3>1. graph = Stored
      BY <1>1 DEF Retrieve, ToolsInv
    <3>2. \A r \in Bound(ctx') : ctx'.entries[r].id \in 1 .. n
      <4> HIDE DEF n
      <4> QED
        BY <1>0, <2>4, BoundIds
    <3>3. \A r \in Bound(ctx') : ~(ctx'.entries[r].id > Len(Stored))
      BY <1>0, <3>1, <3>2
    <3> QED
      BY <3>3 DEF LinkedLogs
  <2>7. UNCHANGED <<graph, copied, targets>> /\ doing = "retrieve"
    BY <1>1 DEF Retrieve
  <2> QED
    BY <1>0, <2>4, <2>5, <2>6, <2>7, SameGraph
<1>2. CASE Plan
  <2>1. PICK r \in PlannedRefs \ Refs(ctx) :
           ctx' = RegisterProposed(ctx, r, PlannedKind[r]).ctx
    BY <1>2 DEF Plan
  <2> DEFINE k == PlannedKind[r]
  <2>2. k \in Kinds /\ r \in AnyRef /\ r # Owner
    BY <2>1 DEF ToolsConstants, ToolsAssumption, AnyRef
  <2>3. ctx' = AddEntry(ctx, r, k, None)
    BY <2>1 DEF RegisterProposed
  <2> HIDE DEF k
  <2>4. /\ ctx' \in Records(n) /\ Refs(ctx') = Refs(ctx) \cup {r}
        /\ ctx'.entries[r] = [kind |-> k, id |-> None]
        /\ \A s \in Refs(ctx) \ {r} : ctx'.entries[s] = ctx.entries[s]
    <3>1. ctx \in Records(n) /\ None \in (1 .. n) \cup {None}
      BY <1>0 DEF Contexts
    <3> HIDE DEF n
    <3> QED
      BY <1>0, <2>2, <2>3, <3>1, AddEntryAdds
  <2>5. /\ Bound(ctx') = Bound(ctx)
        /\ \A s \in Refs(ctx) : ctx'.entries[s] = ctx.entries[s]
    BY <2>1, <2>4 DEF Bound
  <2>6. Keeps(ctx, ctx') /\ Keeps(copied, ctx')
    <3>1. Keeps(ctx, ctx')
      BY <2>4, <2>5 DEF Keeps, Bound
    <3> QED
      BY <1>0, <1>t, <3>1
  <2>7. ctx' \in Contexts(n)
    BY <1>0, <2>4, <2>5 DEF Contexts, OneRefEach, Bound
  <2>8. LinkedLogs(graph, ctx')
    BY <1>0, <2>5 DEF LinkedLogs, Bound
  <2>9. UNCHANGED <<graph, copied, targets, doing>> \/ doing' = "idle"
    BY <1>2 DEF Plan
  <2>10. UNCHANGED <<graph, copied, targets>> /\ doing' # "retrieve"
    BY <1>2 DEF Plan
  <2> QED
    BY <1>0, <2>6, <2>7, <2>8, <2>10, SameGraph
<1>3. CASE Start
  <2>1. /\ UNCHANGED <<graph, ctx>> /\ copied' = ctx /\ doing' = "child"
        /\ targets' \in SeqOf(Refs(ctx), MaxTargets)
    BY <1>3 DEF Start
  <2>2. targets' \in Seq(AnyRef)
    <3>1. MaxTargets \in Nat
      BY DEF ToolsConstants, ToolsAssumption
    <3>2. targets' \in Seq(Refs(ctx))
      BY <2>1, <3>1, BoundedSeqs
    <3>3. Refs(ctx) \subseteq AnyRef
      <4>1. ctx \in Records(n)
        BY <1>0 DEF Contexts
      <4> HIDE DEF n
      <4> QED
        BY <1>0, <4>1, ContextFields
    <3> QED
      BY <3>2, <3>3
  <2> QED
    BY <1>0, <1>r, <2>1, <2>2, SameGraph
<1>4. CASE Call
  <2>1. CallKeeps
    BY <1>4, ToolKeeps DEF Call
  <2> QED
    BY <1>4, <2>1, CallStep DEF Call
<1>5. CASE LookUp
  <2>1. CallKeeps
    BY <1>5, LookUpKeeps DEF LookUp
  <2> QED
    BY <1>5, <2>1, CallStep DEF LookUp
<1>6. CASE AskClarification \/ Question \/ Report \/ Answer
  <2>1. UNCHANGED <<graph, ctx, copied, targets>> /\ doing' # "retrieve"
    BY <1>6 DEF AskClarification, Question, Report, Answer,
                Refuse, Reply
  <2> QED
    BY <1>0, <1>r, <2>1, SameGraph
<1>7. CASE End
  <2>1. /\ UNCHANGED graph /\ ctx' \in {ctx, copied} /\ copied' = Empty
        /\ targets' = <<>> /\ doing' = "idle"
    BY <1>7 DEF End
  <2>2. <<>> \in Seq(AnyRef)
    OBVIOUS
  <2> QED
    BY <1>0, <1>r, <1>e, <2>1, <2>2, SameGraph
<1>8. CASE UNCHANGED toolsVars
  <2>1. UNCHANGED <<graph, ctx, copied, targets, doing>>
    BY <1>8 DEF toolsVars
  <2> QED
    BY <1>0, <1>r, <2>1, SameGraph
<1> QED
  BY <1>1, <1>2, <1>3, <1>4, <1>5, <1>6, <1>7, <1>8 DEF ToolsNext

-----------------------------------------------------------------------------
(* The theorems *)

LEMMA ConstantsHold == ToolsConstants
BY ToolsAssumption DEF ToolsConstants, ToolsAssumption

\* Whatever a run retrieves, plans, creates and takes up again, its context and
\* the copy of it in the continuation have one ref for each object, agree, and
\* have no ref for a log that lacks a link (CanonicalReferenceContext and
\* AgenticToolBindings).
THEOREM ToolsInvariant == ToolsSpec => []ToolsInv
<1>1. ToolsInit => ToolsInv
  BY ConstantsHold, ToolsInitInv
<1>2. ToolsInv /\ [ToolsNext]_toolsVars => ToolsInv'
  BY ConstantsHold, ToolsStepInv
<1> QED
  BY <1>1, <1>2, PTL DEF ToolsSpec

\* Whatever was retrieved, looked up, created and put back from a continuation, no
\* object has two refs, but for the owner's.
THEOREM OneRefPerObjectHolds == ToolsSpec => []OneRefPerObject
<1>1. ToolsInv => OneRefPerObject
  BY DEF ToolsInv, Contexts, OneRefEach, OneRefPerObject
<1> QED
  BY <1>1, ToolsInvariant, PTL

\* A memory log that has a ref is linked to all its hosts, one of them the main
\* one, to all that it involves and to the relationships it updates.
THEOREM LogsAreLinkedHolds == ToolsSpec => []LogsAreLinked
<1>1. ToolsInv => LogsAreLinked
  BY LogsAreLinkedMeans DEF ToolsInv
<1> QED
  BY <1>1, ToolsInvariant, PTL

\* A ref that is bound keeps its object as long as contexts know it, also when the
\* ingestion goes on with the context of a continuation.
THEOREM RefsKeepTheirObjectHolds == ToolsSpec => RefsKeepTheirObject
<1>1. ToolsInv /\ [ToolsNext]_toolsVars => [RefsStay]_toolsVars
  BY ConstantsHold, ToolsStepInv
<1> QED
  BY <1>1, ToolsInvariant, PTL DEF ToolsSpec, RefsKeepTheirObject, RefsStay

\* A call that asks the model for another try wrote nothing, unless a planner had
\* chosen the name of the next ref.
THEOREM RetryAfterNoWriteHolds == ToolsSpec => RetryAfterNoWrite
<1>1. ToolsInv /\ [ToolsNext]_toolsVars => [RetryWroteNothing]_toolsVars
  BY ConstantsHold, ToolsStepInv
<1> QED
  BY <1>1, ToolsInvariant, PTL DEF ToolsSpec, RetryAfterNoWrite, RetryWroteNothing
=============================================================================
