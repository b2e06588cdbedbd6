------------------------------ MODULE AIClient ------------------------------
(***************************************************************************)
(* One request to a model provider (ai/client, ai/context.py): the budget  *)
(* of the context window, the compaction of a transcript that exceeds it,  *)
(* and the retry loop that adjusts a rejected request.                     *)
(*                                                                         *)
(* A transcript is a sequence of messages.  Of a message the module keeps  *)
(* its role, its size in tokens, the tool calls of an assistant message    *)
(* and the call that a tool message answers.                               *)
(***************************************************************************)
EXTENDS Integers, Sequences, SequencesExt, FiniteSets, FiniteSetsExt

CONSTANTS
    RecentMessages,  \* messages that compaction tries to keep as they are
    Window,          \* tokens for messages before a limit has been learnt
    Limits,          \* the limits that a provider may state in an error
    MaxRetries,      \* attempts of one request
    Models           \* how requests begin: with a temperature or not, and with
                     \* which parameter for the length of the output

TokenParams == {"none", "max_tokens", "max_completion_tokens"}

\* apply_chat_completion_compatibility: models that take the new token
\* parameter take no temperature.
Compatible(m) == m.tokens = "max_completion_tokens" => ~m.temperature

ASSUME ClientAssumption ==
    /\ Models \subseteq {m \in [temperature : BOOLEAN, tokens : TokenParams] : Compatible(m)}
    /\ RecentMessages \in Nat \ {0}
    /\ Window \in Nat \ {0}
    /\ Limits \subseteq Nat \ {0}
    /\ MaxRetries \in Nat \ {0}

VARIABLES
    learnt,   \* the smallest limit learnt from an error, 0 for none
    call      \* the request in flight

NoCall == 0   \* the id of messages that answer no call

Message(role, size, calls, id) ==
    [role |-> role, size |-> size, calls |-> calls, id |-> id, pending |-> FALSE]

-----------------------------------------------------------------------------
(* Compaction *)

Tokens(ms) == FoldSeq(LAMBDA m, total : total + m.size, 0, ms)

\* A limit once learnt never grows.
BudgetWith(limit) == IF limit = 0 THEN Window ELSE limit
LowerLimit(limit, stated) == IF limit = 0 THEN stated ELSE Min({limit, stated})

SystemPart(ms) == IF ms # <<>> /\ ms[1].role = "system" THEN <<ms[1]>> ELSE <<>>
FirstContent(ms) == Len(SystemPart(ms)) + 1

\* A variant that cuts wherever the window happens to begin.
RecentStartAnywhere(ms) == Max({FirstContent(ms), Len(ms) - RecentMessages + 1})

\* The recent messages begin no later than the call their results belong to.
RecentStart(ms) ==
    LET first == FirstContent(ms)
        start == Max({first, Len(ms) - RecentMessages + 1})
    IN  Max({first} \cup {s \in first .. Min({start, Len(ms)}) : ms[s].role # "tool"})

From(ms, start) == SystemPart(ms) \o SubSeq(ms, start, Len(ms))

\* Messages are dropped from the front, results together with their call.
Truncated(ms, budget) ==
    LET starts == {RecentStart(ms)} \cup
                  {s \in RecentStart(ms) + 1 .. Len(ms) : ms[s].role # "tool"}
        fits   == {s \in starts : Tokens(From(ms, s)) <= budget}
    IN  IF fits # {} THEN From(ms, Min(fits))
        ELSE IF SystemPart(ms) # <<>> THEN SystemPart(ms) ELSE <<Last(ms)>>

Summary == Message("user", 1, {}, NoCall)

\* compact_messages; summarised says whether the summary of the older messages
\* came back with a text, which takes a request of its own that may fail.
Compacted(ms, budget, summarised) ==
    LET older     == RecentStart(ms) > FirstContent(ms)
        candidate == SystemPart(ms) \o <<Summary>> \o SubSeq(ms, RecentStart(ms), Len(ms))
        shorter   == Truncated(candidate, budget)
    IN  IF older /\ summarised /\ Tokens(candidate) <= budget THEN candidate
        ELSE IF older /\ summarised /\ Tokens(shorter) <= budget THEN shorter
        ELSE Truncated(ms, budget)

\* ensure_budget: forced, or only if the transcript is over the budget
Ensured(ms, budget, summarised, force) ==
    IF ms = <<>> \/ (~force /\ Tokens(ms) <= budget) THEN ms
    ELSE Compacted(ms, budget, summarised)

-----------------------------------------------------------------------------
(* The retry loop *)

Idle == [state |-> "idle", attempt |-> 0, temperature |-> FALSE, tokens |-> "none",
         adjusted |-> {}, sent |-> <<>>]

ClientInit == learnt = 0 /\ call = Idle

StartCall(ms) ==
    /\ \E m \in Models, summarised \in BOOLEAN :
          call' = [state |-> "trying", attempt |-> 1, temperature |-> m.temperature,
                   tokens |-> m.tokens, adjusted |-> {},
                   sent |-> Ensured(ms, BudgetWith(learnt), summarised, FALSE)]
    /\ UNCHANGED learnt

\* The next attempt, or "Retries exhausted" after the last one.
NextAttempt(c) ==
    IF c.attempt = MaxRetries THEN [c EXCEPT !.state = "raised"]
    ELSE [c EXCEPT !.attempt = @ + 1]

Trying == call.state = "trying"

RejectTemperature ==
    /\ Trying /\ call.temperature /\ "temperature" \notin call.adjusted
    /\ call' = NextAttempt([call EXCEPT !.temperature = FALSE,
                                        !.adjusted = @ \cup {"temperature"}])
    /\ UNCHANGED learnt

\* The two parameters replace each other, once.
RejectTokens ==
    /\ Trying /\ call.tokens # "none" /\ "tokens" \notin call.adjusted
    /\ call' = NextAttempt([call EXCEPT
                  !.tokens = CHOOSE t \in TokenParams \ {"none"} : t # call.tokens,
                  !.adjusted = @ \cup {"tokens"}])
    /\ UNCHANGED learnt

\* The provider says that the transcript is too long, and maybe what its limit
\* is; the request is compacted whether or not it exceeds the budget.  Each
\* attempt checks the budget again, but what has been compacted to a budget is
\* not made shorter by compacting it to the same budget once more.
RejectContext ==
    /\ Trying /\ "context" \notin call.adjusted /\ call.sent # <<>>
    /\ \E stated \in Limits \cup {0}, summarised \in BOOLEAN :
          /\ learnt' = IF stated = 0 THEN learnt ELSE LowerLimit(learnt, stated)
          /\ call' = NextAttempt([call EXCEPT !.adjusted = @ \cup {"context"},
                        !.sent = Ensured(@, BudgetWith(learnt'), summarised, TRUE)])

RejectTransient ==
    /\ Trying
    /\ call' = NextAttempt(call)
    /\ UNCHANGED learnt

RejectForGood ==
    /\ Trying
    /\ call' = [call EXCEPT !.state = "raised"]
    /\ UNCHANGED learnt

Reject ==
    \/ RejectTemperature \/ RejectTokens \/ RejectContext
    \/ RejectTransient \/ RejectForGood

-----------------------------------------------------------------------------
(* What a provider accepts: every result follows the message with its call,  *)
(* and every call of an assistant message has its result.                    *)

Answers(ms, j, id) == ms[j].role = "tool" /\ ms[j].id = id

AnsweredIn(ms, ids) ==
    /\ \A j \in DOMAIN ms : ms[j].role = "tool" /\ ms[j].id \in ids =>
          \E i \in 1 .. j - 1 : ms[j].id \in ms[i].calls
    /\ \A i \in DOMAIN ms : \A id \in ms[i].calls \cap ids :
          \E j \in i + 1 .. Len(ms) : Answers(ms, j, id)
=============================================================================
