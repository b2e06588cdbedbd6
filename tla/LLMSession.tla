----------------------------- MODULE LLMSession -----------------------------
(***************************************************************************)
(* One logical session with a model (ai/session/runner.py) over the client *)
(* of AIClient: assistant turns, batches of tool calls and their results,  *)
(* the cap on calls, the follow-up that a handoff requires, the repair of  *)
(* structured output, interruption by questions and the two ways to go on: *)
(* with the continuation of the session (ingestion/resolution_agent.py)    *)
(* or from the messages of a saved frame (agentic/runtime.py).             *)
(***************************************************************************)
EXTENDS AIClient

CONSTANTS
    MaxToolCalls,   \* the cap on calls: after it, no more tools are offered
    MaxRepairs,     \* repair turns after invalid output
    MaxQuestions,   \* questions that one packet may hold
    MaxBatch,       \* bound: calls of one assistant turn
    MaxResumes,     \* bound: resumptions
    Sizes           \* the sizes of tool results

ASSUME SessionAssumption ==
    /\ MaxToolCalls \in Nat /\ MaxRepairs \in Nat
    /\ MaxQuestions \in Nat \ {0} /\ MaxBatch \in Nat \ {0} /\ MaxResumes \in Nat
    /\ Sizes \subseteq Nat \ {0} /\ Sizes # {}

VARIABLES
    messages,   \* the transcript
    session,    \* the local variables of _run_turns, and the phase it is in
    resumes,    \* resumptions so far
    wanted,     \* the caller asked for structured output        (history variable)
    valid,      \* the last text was valid structured output     (history variable)
    used,       \* calls made since the session began            (history variable)
    handoff,    \* the last batch had a result to follow up      (history variable)
    mixed       \* some batch had such a result and a question   (history variable)

history == <<wanted, valid, used, handoff, mixed>>
vars == <<learnt, call, messages, session, resumes, history>>

Ended  == {"completed", "failed", "raised"}

\* Calls are numbered as they are made: providers give every call an id.
CallsMade == UNION {messages[i].calls : i \in DOMAIN messages}
NextId    == Cardinality(CallsMade) + 1

CapReached(executed) == executed >= MaxToolCalls

\* _run_turns, entered with the calls executed so far
Session(executed, schema, followUp) ==
    [phase |-> "turn", executed |-> executed, repairs |-> 0, schema |-> schema,
     tools |-> ~CapReached(executed), followUp |-> followUp]

\* run_state and run_structured_state start a session with a prompt and the
\* history of the frame; the latter asks for output of a schema.
Opening           == <<Message("system", 1, {}, NoCall), Message("user", 1, {}, NoCall)>>
StateRequest      == [messages |-> Opening, schema |-> FALSE]
StructuredRequest == [messages |-> Opening, schema |-> TRUE]

Init ==
    /\ ClientInit
    /\ \E request \in {StateRequest, StructuredRequest} :
          /\ messages = request.messages
          /\ wanted = request.schema
          /\ session = Session(0, request.schema, FALSE)
    /\ resumes = 0
    /\ valid = FALSE /\ used = 0 /\ handoff = FALSE /\ mixed = FALSE

Go(changed) == session' = changed

-----------------------------------------------------------------------------
(* A turn *)

Request ==
    /\ session.phase = "turn"
    /\ StartCall(messages)
    /\ Go([session EXCEPT !.phase = "calling"])
    /\ UNCHANGED <<messages, resumes, history>>

\* A variant that asks again after an error of the client.
AsksAgain(s) == [s EXCEPT !.phase = "turn"]

\* What the client raises ends the session.
Raised(s) == [s EXCEPT !.phase = "raised"]

Adjust ==
    /\ session.phase = "calling"
    /\ Reject
    /\ Go(IF call'.state = "raised" THEN Raised(session) ELSE session)
    /\ UNCHANGED <<messages, resumes, history>>

\* The provider answers the attempt in flight.
Replied ==
    /\ session.phase = "calling" /\ Trying
    /\ call' = Idle
    /\ UNCHANGED <<learnt, resumes>>

Assistant(calls) == Message("assistant", 1, calls, NoCall)

\* What a tool returns: a result, a result that the model must follow up, or a
\* question that waits for the user.  An exception is a result as well.
Results == {"ok", "handoff", "question"}

ToolMessage(id, size, result) ==
    [Message("tool", IF result = "ok" THEN size ELSE 1, {}, id)
        EXCEPT !.pending = (result = "question")]

Asked(results) == {id \in DOMAIN results : results[id] = "question"}

\* More questions than a packet holds are all turned into errors.
Capped(results) ==
    IF Cardinality(Asked(results)) > MaxQuestions
    THEN [id \in DOMAIN results |-> IF results[id] = "question" THEN "ok" ELSE results[id]]
    ELSE results

ToolMessages(first, n, size, results) ==
    [k \in 1 .. n |-> ToolMessage(first + k - 1, size, results[first + k - 1])]

\* A variant that offers tools for ever.
ToolsAlways(executed, offered) == TRUE

\* Tools are offered until the cap is reached.
ToolsAfter(executed, offered) == offered /\ ~CapReached(executed)

\* A variant that asks whether every result is a handoff.
AllHandoffs(results) == \A id \in DOMAIN results : results[id] = "handoff"

FollowUpRequired(results) == \E id \in DOMAIN results : results[id] = "handoff"

\* _execute_batch: a batch is executed as a whole.  A provider that was offered
\* no tools makes no calls.
ReplyWithCalls ==
    /\ Replied
    /\ session.tools
    /\ \E n \in 1 .. MaxBatch, size \in Sizes :
       \E returned \in [NextId .. NextId + n - 1 -> Results] :
          LET ids      == NextId .. NextId + n - 1
              results  == Capped(returned)
              executed == session.executed + n
              given    == \E id \in ids : results[id] = "handoff"
          IN  /\ messages' = messages \o (<<Assistant(ids)>> \o ToolMessages(NextId, n, size, results))
              /\ Go([session EXCEPT
                       !.executed = executed, !.followUp = FollowUpRequired(results),
                       !.phase = IF Asked(results) # {} THEN "awaiting" ELSE "turn",
                       !.tools = ToolsAfter(executed, @)])
              /\ used' = used + n
              /\ handoff' = given
              /\ mixed' = (mixed \/ (given /\ Asked(results) # {}))
    /\ UNCHANGED <<wanted, valid>>

\* A text does where a call was required.
ReplyWithoutFollowUp ==
    /\ Replied
    /\ session.followUp
    /\ messages' = Append(messages, Assistant({}))
    /\ Go([session EXCEPT !.phase = "failed"])
    /\ UNCHANGED history

ReplyWithText(isValid) ==
    /\ Replied
    /\ ~session.followUp
    /\ valid' = isValid
    /\ UNCHANGED <<wanted, used, handoff, mixed>>

Accepted(isValid) == ~session.schema \/ isValid

Complete ==
    \E isValid \in BOOLEAN :
       /\ ReplyWithText(isValid)
       /\ Accepted(isValid)
       /\ messages' = Append(messages, Assistant({}))
       /\ Go([session EXCEPT !.phase = "completed"])

\* The validation errors go back to the model in the same history.
Repair ==
    /\ ReplyWithText(FALSE) /\ ~Accepted(FALSE) /\ session.repairs < MaxRepairs
    /\ messages' = Append(Append(messages, Assistant({})), Message("user", 1, {}, NoCall))
    /\ Go([session EXCEPT !.phase = "turn", !.repairs = @ + 1])

RepairsExhausted ==
    /\ ReplyWithText(FALSE) /\ ~Accepted(FALSE) /\ session.repairs = MaxRepairs
    /\ messages' = Append(messages, Assistant({}))
    /\ Go([session EXCEPT !.phase = "failed"])

-----------------------------------------------------------------------------
(* Interruption.  The results of all pending calls arrive together; a        *)
(* continuation with some of them only is handed back as it is.              *)

Resolved(ms) == [i \in DOMAIN ms |-> [ms[i] EXCEPT !.pending = FALSE]]

Carried(executed) == executed

\* _resume: the count is carried over, and whether a follow-up is forced is
\* read from the metadata of the request, which the batch has not changed.
ResumeContinuation ==
    /\ session.phase = "awaiting" /\ resumes < MaxResumes
    /\ messages' = Resolved(messages)
    /\ Go(Session(Carried(session.executed), session.schema, FALSE))
    /\ resumes' = resumes + 1
    /\ UNCHANGED <<learnt, call, history>>

\* continue_state_from_messages: a request of its own, which has no schema and
\* counts from zero.  It forces a follow-up if the pending call was a handoff
\* to a child; a tool that hands over has a child that asks, if anyone does.
ContinueFromMessages ==
    /\ session.phase = "awaiting" /\ resumes < MaxResumes
    /\ \E force \in (IF handoff THEN {TRUE} ELSE BOOLEAN) :
          /\ messages' = Resolved(messages)
          /\ Go(Session(0, FALSE, force))
          /\ handoff' = (handoff \/ force)
    /\ resumes' = resumes + 1
    /\ wanted' = FALSE /\ used' = 0
    /\ UNCHANGED <<learnt, call, valid, mixed>>

-----------------------------------------------------------------------------
Step ==
    \/ Request \/ Adjust \/ ReplyWithCalls \/ ReplyWithoutFollowUp
    \/ Complete \/ Repair \/ RepairsExhausted

Next == Step \/ ResumeContinuation \/ ContinueFromMessages

\* The loop runs in the thread of its caller.
Spec == Init /\ [][Next]_vars /\ WF_vars(Step)

-----------------------------------------------------------------------------
\* Whatever is cut from a transcript, whether or not it was summarised, forced
\* by an error or by the budget: a request never holds a tool result without
\* the call it belongs to, nor a call without its result.  Providers reject it.
\* And however batches, repairs and resumptions follow each other: in a
\* transcript that goes to a model every call has exactly one result, behind the
\* call, and no result is a placeholder any more.
SentIsWellFormed ==
    /\ call.sent # <<>> => AnsweredIn(call.sent, CallsMade)
    /\ session.phase \in {"turn", "calling"} =>
          /\ AnsweredIn(messages, CallsMade)
          /\ \A id \in CallsMade :
                Cardinality({j \in DOMAIN messages : Answers(messages, j, id)}) = 1
          /\ \A j \in DOMAIN messages : ~messages[j].pending

\* The cap holds across interruptions for a session that is continued: it is
\* exceeded by the rest of one batch at most.
CapHolds == used <= Max({0, MaxToolCalls - 1 + MaxBatch})

\* A session that completes gives its caller what was asked for.  Structured
\* output is never a text that was not validated, with or without repairs and
\* questions in between; frames that go on from their messages have given up the
\* schema.  And "an intermediate tool result must never be exposed as the
\* user-facing assistant response" (ai/models.py): no session completes right
\* after a handoff.  A batch that also asks loses it, so those are left out.
CompletedIsFinal ==
    session.phase = "completed" => (wanted => valid) /\ (~mixed => ~handoff)

\* A session ends or waits for the user, whatever the provider rejects, the
\* model calls and the validator refuses.
SessionStops == (session.phase = "turn") ~> (session.phase \in Ended \cup {"awaiting"})
=============================================================================
