--------------------------- MODULE MemoryIngestion ---------------------------
(***************************************************************************)
(* One memory ingestion (agentic/runtime_memory.py): reasoning, then three *)
(* phases, nodes, memory logs and edges, each planned by a model and then  *)
(* run action by action, every action in a child frame of its own.         *)
(*                                                                         *)
(* The phases share a reference context: creating an object binds the      *)
(* planned ref of its action to the stored object, and an edge whose       *)
(* endpoints are not bound is deferred.  A child that asks the user        *)
(* interrupts the ingestion, which is continued later from a copy of its   *)
(* payload made before the action started.                                 *)
(***************************************************************************)
EXTENDS Integers, Sequences, SequencesExt, FiniteSets

CONSTANTS
    Actions,       \* what the models may plan
    Phase,         \* the phase of each action
    Id,            \* its action_id, chosen by the model
    Creates,       \* the actions that create an object and bind its ref
    Ends,          \* the actions whose refs an edge has as its endpoints
    MaxQuestions   \* bound: questions asked by the children

Phases == 1 .. 3
Edges  == 3

ASSUME IngestionAssumption ==
    /\ IsFiniteSet(Actions)
    /\ Phase \in [Actions -> Phases]
    /\ Creates \subseteq {a \in Actions : Phase[a] < Edges}
    /\ Ends \in [Actions -> SUBSET Creates]
    /\ \A a \in Actions : Phase[a] < Edges => Ends[a] = {}
    /\ DOMAIN Id = Actions
    /\ MaxQuestions \in Nat

VARIABLES
    pc,        \* what the ingestion is doing
    phase,     \* its phase
    plan,      \* of each phase, its planned actions
    next,      \* the action of the phase that is next
    bound,     \* the planned refs that have a backend id, in the live context
    errors,    \* whether an item of action_results is neither ok nor skipped
    saved,     \* internal_continuation: the action and the refs bound before it
    outcome,   \* how the ingestion ended
    asked,     \* questions asked
    started,   \* how often each action was started        (history variable)
    written,   \* the actions a child reported as done     (history variable)
    failed,    \* the actions found not to be ok           (history variable)
    deferred   \* the edges that were deferred             (history variable)

history == <<started, written, failed, deferred>>
vars == <<pc, phase, plan, next, bound, errors, saved, outcome, asked, history>>

Init ==
    /\ pc = "reason" /\ phase = 1 /\ next = 1
    /\ plan = [p \in Phases |-> <<>>]
    /\ bound = {} /\ errors = FALSE /\ saved = <<>> /\ outcome = "none" /\ asked = 0
    /\ started = [a \in Actions |-> 0]
    /\ written = {} /\ failed = {} /\ deferred = {}

-----------------------------------------------------------------------------
(* Reasoning and planning *)

\* run_structured_state: the result of a state whose session ended with parsed
\* output, with a pending tool call, or without either.
StateResult(ended) ==
    CASE ended = "parsed"   -> "ok"
      [] ended = "awaiting" -> "interrupted"
      [] OTHER              -> "error"

\* The reasoning and each of the plans is such a state.
StateEnds(result) ==
    /\ pc \in {"reason", "plan"}
    /\ \E ended \in {"parsed", "awaiting", "failed", "empty"} : StateResult(ended) = result

Reason ==
    /\ pc = "reason" /\ StateEnds("ok")
    /\ pc' = "plan"
    /\ UNCHANGED <<phase, plan, next, bound, errors, saved, outcome, asked, history>>

\* _validate_phase_plan_refs: every endpoint is declared by some plan, but a
\* declared ref need not have an action that creates it.
Plans(p) == SetToAllKPermutations({a \in Actions : Phase[a] = p})

PlanPhase ==
    /\ pc = "plan" /\ StateEnds("ok")
    /\ \E s \in Plans(phase) : plan' = [plan EXCEPT ![phase] = s]
    /\ pc' = "act" /\ next' = 1 /\ errors' = FALSE
    /\ UNCHANGED <<phase, bound, saved, outcome, asked, history>>

ModelFails ==
    /\ StateEnds("error")
    /\ pc' = "ended" /\ outcome' = "error"
    /\ UNCHANGED <<phase, plan, next, bound, errors, saved, asked, history>>

\* A question of the reasoning or of a planner leaves an open tool call, so
\* its answer resumes the ingestion as a conversation that runs no phase.
AskWhilePlanning ==
    /\ StateEnds("interrupted") /\ asked < MaxQuestions
    /\ pc' = "conversing" /\ asked' = asked + 1
    /\ UNCHANGED <<phase, plan, next, bound, errors, saved, outcome, history>>

Converse ==
    /\ pc = "conversing"
    /\ pc' = "ended" /\ outcome' = "conversed"
    /\ UNCHANGED <<phase, plan, next, bound, errors, saved, asked, history>>

-----------------------------------------------------------------------------
(* _execute_memory_plan_actions *)

Current == plan[phase][next]
HasNext == pc = "act" /\ next <= Len(plan[phase])

\* _unresolved_edge_endpoint_refs
Unresolved(a) == Ends[a] \ bound

Defer ==
    /\ HasNext /\ Unresolved(Current) # {}
    /\ deferred' = deferred \cup {Current}
    /\ next' = next + 1
    /\ UNCHANGED <<pc, phase, plan, bound, errors, saved, outcome, asked, started, written, failed>>

Started == [started EXCEPT ![Current] = @ + 1]

\* A variant that trusts the child.
Reported(a, ok, refs) == ok

\* _verify_created_action_ref: a creation that reports success has bound its ref.
Verified(a, ok, refs) == ok /\ (a \in Creates => a \in refs)

\* The child frame ends, well or not, with or without having bound its ref.
RunAction ==
    /\ HasNext /\ Unresolved(Current) = {}
    /\ \E ok \in BOOLEAN, binds \in SUBSET ({Current} \cap Creates) :
          /\ bound' = bound \cup binds
          /\ written' = IF Verified(Current, ok, bound') THEN written \cup {Current} ELSE written
          /\ failed' = IF Verified(Current, ok, bound') THEN failed ELSE failed \cup {Current}
          /\ errors' = (errors \/ ~Verified(Current, ok, bound'))
    /\ started' = Started
    /\ next' = next + 1
    /\ UNCHANGED <<pc, phase, plan, saved, outcome, asked, deferred>>

\* It asks: the payload that is saved was copied before it started, and what it
\* has bound is lost with the live context.
AskInAction ==
    /\ HasNext /\ Unresolved(Current) = {} /\ asked < MaxQuestions
    /\ saved' = [action |-> Current, bound |-> bound]
    /\ started' = Started
    /\ pc' = "asking" /\ asked' = asked + 1
    /\ UNCHANGED <<phase, plan, next, bound, errors, outcome, written, failed, deferred>>

\* An exception of the child ends the whole ingestion.
RaiseInAction ==
    /\ HasNext /\ Unresolved(Current) = {}
    /\ started' = Started
    /\ pc' = "ended" /\ outcome' = "raised"
    /\ UNCHANGED <<phase, plan, next, bound, errors, saved, asked, written, failed, deferred>>

\* A phase that is not ok is the last one.
GoesOn == phase < Edges /\ ~errors

EndPhase ==
    /\ pc = "act" /\ ~HasNext
    /\ IF GoesOn
       THEN phase' = phase + 1 /\ next' = 1 /\ pc' = "plan" /\ UNCHANGED outcome
       ELSE /\ pc' = "ended" /\ outcome' = IF errors THEN "error" ELSE "ok"
            /\ UNCHANGED <<phase, next>>
    /\ UNCHANGED <<plan, bound, errors, saved, asked, history>>

-----------------------------------------------------------------------------
(* The user's answer *)

\* A variant that runs the interrupted action again.
SameAction(s, a) == SelectInSeq(s, LAMBDA b : Id[b] = Id[a])

\* skip_action_id: up to the first action that has the saved id.
NextAction(s, a) == SelectInSeq(s, LAMBDA b : Id[b] = Id[a]) + 1

\* The child is resumed and ends, and _resume_internal_continuation runs the
\* ingestion again, with the saved payload and no results.
ContinueIngestion ==
    /\ pc = "asking"
    /\ \E ok \in BOOLEAN :
          /\ written' = IF ok THEN written \cup {saved.action} ELSE written
          /\ failed' = IF ok THEN failed ELSE failed \cup {saved.action}
    /\ bound' = saved.bound
    /\ next' = NextAction(plan[phase], saved.action)
    /\ errors' = FALSE
    /\ pc' = "act"
    /\ UNCHANGED <<phase, plan, saved, outcome, asked, started, deferred>>

\* The resumed child asks again.
AskAgain ==
    /\ pc = "asking" /\ asked < MaxQuestions
    /\ asked' = asked + 1
    /\ UNCHANGED <<pc, phase, plan, next, bound, errors, saved, outcome, history>>

Next == \/ Reason \/ PlanPhase \/ ModelFails \/ AskWhilePlanning \/ Converse
        \/ Defer \/ RunAction \/ AskInAction \/ RaiseInAction \/ EndPhase
        \/ ContinueIngestion \/ AskAgain

Spec == Init /\ [][Next]_vars

-----------------------------------------------------------------------------
(* Properties *)

Planned      == UNION {ToSet(plan[p]) : p \in Phases}
Interrupted  == saved # <<>>
IdsAreUnique == \A a, b \in Actions : Id[a] = Id[b] => a = b

\* However often an ingestion is interrupted and continued, no action is
\* started twice, so that no memory is stored twice, provided that the model
\* gave its actions different ids; and if it ends with the status ok, every
\* action of its three plans was started or deferred.
EachActionOnce ==
    /\ IdsAreUnique => \A a \in Actions : started[a] <= 1
    /\ outcome = "ok" => \A a \in Planned : started[a] > 0 \/ a \in deferred

\* Without an interruption, the status ok means that every planned action was
\* done, but for edges to an object that no plan creates; and whatever becomes of
\* an ingestion, nothing of a later phase is started once an action has failed.
OkMeansDone ==
    ~Interrupted =>
        /\ outcome = "ok" =>
              \A a \in Planned \ written : a \in deferred /\ ~(Ends[a] \subseteq Planned)
        /\ \A a \in failed, b \in Actions : started[b] > 0 => Phase[b] <= Phase[a]
=============================================================================
