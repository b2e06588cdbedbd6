--------------------------- MODULE NodeResolution ---------------------------
(***************************************************************************)
(* The resolution of entity candidates (ingestion/resolution_agent.py and  *)
(* ingestion/resolution_proposals.py): for each candidate the model calls  *)
(* one tool, that creates a node, takes an existing one, or defers.        *)
(*                                                                         *)
(* Candidates are resolved batch by batch, each in an LLM session.  A      *)
(* session that ends without an action for every candidate of its batch is *)
(* continued by another one, and a question to the user interrupts it: the *)
(* answer rebuilds the accumulated actions and the completed batches from  *)
(* the continuation, in whatever request it comes.                         *)
(***************************************************************************)
EXTENDS Naturals, Sequences, FiniteSets, SequencesExt, FiniteSetsExt

CONSTANTS
    Entities,     \* the candidates of the first extraction, in order
    Supplemental, \* the candidates extracted for the endpoints that relationships miss
    BatchSize,
    MaxCalls,     \* session_max_tool_calls
    MaxResults,   \* bound: completed batches when the user is asked
    Tried,        \* bound: [Refs -> what the model tries on a candidate]
    None

Combined == Entities \o Supplemental
Refs     == ToSet(Combined)
Tools    == {"create", "update", "defer"}

\* An action whose refs or payload validate does not accept, or one too many
Refused  == "refused"

ASSUME ResolutionAssumption ==
    /\ Entities \in Seq(Refs) /\ Supplemental \in Seq(Refs) /\ IsInjective(Combined)
    /\ None \notin Refs \cup Tools \cup {Refused}
    /\ Tried \in [Refs -> SUBSET (Tools \cup {Refused})]
    /\ BatchSize \in Nat \ {0} /\ MaxCalls \in Nat \ {0} /\ MaxResults \in Nat

VARIABLES
    stage,       \* where the ingestion is
    candidates,  \* the candidates in resolution
    batch,       \* position of the first candidate of the batch
    acted,       \* [Refs -> the action that counts for the batch, or None, or Refused]
    recent,      \* the same for the events of the session alone
    askedFor,    \* the candidates that the last repair asked for (previous_missing)
    spent,       \* tool calls of the batch's earlier sessions
    used,        \* tool calls of the session
    results,     \* decisions of the completed batches: a sequence of [refs -> Tools]
    question,    \* the continuation that waits for the user, or None
    decided,     \* [Refs -> the decision of the resolution that has ended, or None]
    excused      \* the resolution may fail, for a cause of FailsForCause (history variable)

resolutionVars == <<stage, candidates, batch, acted, recent, askedFor, spent, used, results,
                    question, decided, excused>>

NoActions == [r \in Refs |-> None]

ResolutionInit ==
    /\ stage = "prepare"
    /\ candidates = <<>> /\ batch = 1 /\ results = <<>>
    /\ acted = NoActions /\ recent = NoActions
    /\ askedFor = None /\ spent = 0 /\ used = 0
    /\ question = None /\ decided = NoActions /\ excused = FALSE

-----------------------------------------------------------------------------
(* Batches *)

BatchOf(cs, b) == {cs[i] : i \in b .. Min({b + BatchSize - 1, Len(cs)})}
Batch          == BatchOf(candidates, batch)
Missing        == {r \in Batch : acted[r] = None}

\* resume_nodes starts with the batch that holds the i-th candidate.
BatchHolding(i) == i - ((i - 1) % BatchSize)

\* One more action for a candidate
Taken(actions, r, t) == [actions EXCEPT ![r] = IF @ = None THEN t ELSE Refused]

Open(cs, b) ==
    /\ candidates' = cs /\ batch' = b
    /\ acted' = NoActions /\ recent' = NoActions
    /\ askedFor' = None /\ spent' = 0 /\ used' = 0

\* resolve_nodes
Resolve(cs) ==
    /\ stage' = "resolving"
    /\ Open(cs, 1)
    /\ results' = <<>> /\ question' = None
    /\ decided' = NoActions

-----------------------------------------------------------------------------
(* Sessions.  The tools are offered up to the cap, and stay available to a   *)
(* model for every candidate of the graph, whatever the batch is.            *)

InSession == stage = "resolving"

Offered == InSession /\ spent + used < MaxCalls

Excuse(holds) == excused' = (excused \/ holds)

Act(r, t) ==
    /\ Offered /\ r \in ToSet(candidates)
    /\ acted' = Taken(acted, r, t) /\ recent' = Taken(recent, r, t)
    /\ used' = used + 1
    /\ Excuse(r \notin Batch \/ acted[r] # None \/ t = Refused)
    /\ UNCHANGED <<stage, candidates, batch, askedFor, spent, results, question, decided>>

\* A call that is no valid action
Fumble ==
    /\ Offered
    /\ used' = used + 1
    /\ UNCHANGED <<stage, candidates, batch, acted, recent, askedFor, spent, results, question,
                   decided, excused>>

\* _clarification_registry: a question about another ref raises, and is a fumble.
Askable(r) == r \in ToSet(candidates) \cup {None}

\* ask_clarification: the continuation has the events of this session and, by
\* _with_resolution_state, the completed batches.  r = None is a question about
\* something that is no candidate.
Continuation(r) == [about |-> r, recent |-> recent, used |-> used + 1, results |-> results]

Ask(r) ==
    /\ Offered /\ Askable(r) /\ Len(results) <= MaxResults
    /\ stage' = "waiting"
    /\ question' = Continuation(r)
    /\ Excuse(r \notin Batch)
    /\ UNCHANGED <<candidates, batch, acted, recent, askedFor, spent, used, results, decided>>

\* A variant whose continuation has no completed batches.
CompletedNone(q) == <<>>

\* _continuation_batches
CompletedBatches(q) == q.results

\* resume_nodes.  Whatever was in resolution, the candidates are those of the
\* checkpoint, which has those of the first extraction only.
Answer ==
    /\ stage = "waiting"
    /\ LET q  == question
           at == {i \in DOMAIN Entities : Entities[i] = q.about}
       IN  IF at = {}
           THEN /\ stage' = "unresolved"
                /\ UNCHANGED <<candidates, batch, acted, recent, askedFor, spent, used, results>>
           ELSE /\ stage' = "resolving"
                /\ candidates' = Entities /\ batch' = BatchHolding(CHOOSE i \in at : TRUE)
                /\ acted' = q.recent /\ recent' = q.recent
                /\ askedFor' = None /\ spent' = 0 /\ used' = q.used
                /\ results' = CompletedBatches(q)
    /\ question' = None
    /\ Excuse(candidates # Entities)
    /\ UNCHANGED decided

-----------------------------------------------------------------------------
(* The end of a session *)

Unresolved ==
    /\ stage' = "unresolved"
    /\ UNCHANGED <<candidates, batch, acted, recent, askedFor, spent, used, results, question,
                   decided>>

\* The session itself fails, or its provider raises.
SessionFails ==
    /\ InSession
    /\ Unresolved
    /\ Excuse(TRUE)

\* A variant that looks at the calls of the last session only.
HopelessSession == used >= MaxCalls

\* _repair_incomplete_batch gives up when a repair brought nothing, or when the
\* calls of all sessions of the batch have used up the budget.
Hopeless == Missing = askedFor \/ spent + used >= MaxCalls

GiveUp ==
    /\ InSession /\ Missing # {} /\ Hopeless
    /\ Unresolved
    /\ Excuse(TRUE)

\* Another session is asked for the missing actions; its events start anew.
Repair ==
    /\ InSession /\ Missing # {} /\ ~Hopeless
    /\ askedFor' = Missing
    /\ spent' = Min({spent + used, MaxCalls}) /\ used' = 0
    /\ recent' = NoActions
    /\ UNCHANGED <<stage, candidates, batch, acted, results, question, decided, excused>>

\* _compile_batch: one valid action for each candidate of the batch and for no other
Compiles == \A r \in Refs : acted[r] # Refused /\ (acted[r] # None => r \in Batch)

CompileFails ==
    /\ InSession /\ Missing = {} /\ ~Compiles
    /\ Unresolved
    /\ UNCHANGED excused

BatchResult == [r \in {s \in Refs : acted[s] # None} |-> acted[r]]

Completed == Append(results, BatchResult)

CompileBatch ==
    /\ InSession /\ Missing = {} /\ Compiles
    /\ batch + BatchSize <= Len(candidates)
    /\ results' = Completed
    /\ Open(candidates, batch + BatchSize)
    /\ UNCHANGED <<stage, question, decided, excused>>

\* _finalize_proposals: every candidate in one completed batch
Covered(rs) ==
    \A r \in ToSet(candidates) : Cardinality({i \in DOMAIN rs : r \in DOMAIN rs[i]}) = 1

DecisionIn(rs, r) == LET i == CHOOSE i \in DOMAIN rs : r \in DOMAIN rs[i] IN rs[i][r]

Decisions == [r \in Refs |-> IF r \in ToSet(candidates) THEN DecisionIn(Completed, r) ELSE None]

LastBatch ==
    /\ InSession /\ Missing = {} /\ Compiles
    /\ batch + BatchSize > Len(candidates)

CoverageFails ==
    /\ LastBatch /\ ~Covered(Completed)
    /\ Unresolved
    /\ UNCHANGED excused

\* The pipeline goes on with the stage next.
Finalize(next) ==
    /\ LastBatch /\ Covered(Completed)
    /\ stage' = next
    /\ decided' = Decisions
    /\ results' = <<>> /\ acted' = NoActions /\ recent' = NoActions
    /\ askedFor' = None /\ spent' = 0 /\ used' = 0 /\ batch' = 1
    /\ excused' = FALSE
    /\ UNCHANGED <<candidates, question>>

ResolutionStep(next) ==
    \/ \E r \in Refs : \E t \in Tried[r] : Act(r, t)
    \/ Fumble
    \/ \E r \in Refs \cup {None} : Ask(r)
    \/ GiveUp \/ Repair
    \/ CompileFails \/ CompileBatch \/ CoverageFails \/ Finalize(next)

-----------------------------------------------------------------------------
\* A resolution fails for a cause only: the model acted twice, for a candidate of
\* another batch, or with refs it was not given, ended a repair without an action, or asked about what it
\* was not given; the budget was used up; the session failed; or the question
\* was one about the combined graph.  Interruptions, answers in later requests,
\* repairs and the order of batches are none: what was completed before them is
\* neither lost nor resolved twice.
FailsForCause == stage = "unresolved" => excused
=============================================================================
