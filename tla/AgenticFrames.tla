---------------------------- MODULE AgenticFrames ----------------------------
(***************************************************************************)
(* The frames of agentic runs (agentic/runtime.py).  A run is a stack of   *)
(* frames: an entry frame calls a child, which calls a child, down to a    *)
(* clarification agent that asks the user.  A question interrupts the run: *)
(* every frame on the stack is saved as waiting for its child, and when    *)
(* the user answers, the frames are resumed one after another, from the    *)
(* asking frame up, each with the result of the one below it.              *)
(*                                                                         *)
(* Requests run one at a time here; ChatRuntime interleaves them.          *)
(*                                                                         *)
(* What a model says is arbitrary: it may call any child its state allows, *)
(* ask, or end, well or not.  Messages are left out, but for the open tool *)
(* call of a saved frame; frames are numbered in the order they start.     *)
(***************************************************************************)
EXTENDS Integers, Sequences

CONSTANTS
    MaxFrames,     \* bound: frames ever started
    MaxQuestions,  \* bound: questions ever asked
    MayRaise       \* whether a provider or a service may raise an exception

ASSUME FramesAssumption == MaxFrames \in Nat /\ MaxQuestions \in Nat /\ MayRaise \in BOOLEAN

Frames  == 1 .. MaxFrames
NoFrame == 0

VARIABLES
    frames,    \* of each frame, its record
    stack,     \* the frames of the request that runs, the deepest one last
    control,   \* what that request is doing
    asking,    \* the frame whose question interrupts it
    asked,     \* questions asked so far
    raised,    \* whether an exception has ended a request (history variable)
    twice      \* whether two calls of one turn have asked (history variable)

vars == <<frames, stack, control, asking, asked, raised, twice>>

States == {"conversation_entry", "memory_query", "memory_ingestion", "memory_creation",
           "graph_update", "clarification_agent"}

\* A frame has a status of "none", "unsaved" (it runs, or ended, without a row in
\* the store), "interrupted", "waiting_child", "completed" or "error"; it is open
\* when a saved tool call waits for its result (active_tool_call_id), and it
\* continues when phases of an ingestion are saved with it (internal_continuation).

\* How a frame got on the stack: by run, resumed by the result of a tool call,
\* or resumed by an internal continuation; whether its context carries such a
\* continuation; whether it runs a tool call, and which frame asks on behalf of
\* an earlier call of the same turn.
OnStack(f, how, continues) ==
    [frame |-> f, how |-> how, continues |-> continues, calling |-> FALSE, pending |-> NoFrame]

Init ==
    /\ frames = [f \in Frames |-> [state |-> "conversation_entry", status |-> "none",
                                   parent |-> NoFrame, open |-> FALSE, continues |-> FALSE]]
    /\ stack = <<>>
    /\ control = "idle"
    /\ asking = NoFrame
    /\ asked = 0
    /\ raised = FALSE
    /\ twice = FALSE

-----------------------------------------------------------------------------
Top  == stack[Len(stack)]
Rest == SubSeq(stack, 1, Len(stack) - 1)
Unstarted(f) == frames[f].status = "none" /\ \A g \in 1 .. (f - 1) : frames[g].status # "none"

\* The children a state can start, and whether a tool call starts them: an
\* ingestion that reasons or plans calls tools (the one may call them all, the
\* other asks), and its phases run their actions themselves.
Children(state) ==
    CASE state = "conversation_entry" -> {<<"memory_query", TRUE>>, <<"memory_ingestion", TRUE>>}
      [] state = "memory_ingestion"   -> {"memory_creation", "graph_update"} \X BOOLEAN
                                            \cup {<<"clarification_agent", TRUE>>}
      [] state = "memory_creation"    -> {"graph_update", "clarification_agent"} \X {TRUE}
      [] state = "graph_update"       -> {<<"clarification_agent", TRUE>>}
      [] OTHER                        -> {}

\* A resumed ingestion is a conversation of its model and runs no phases; a
\* continuation runs phases, whatever the frame, and does not reason again.
MayStart(entry, child) ==
    /\ child \in Children(IF entry.how = "continued" THEN "memory_ingestion"
                          ELSE frames[entry.frame].state)
    /\ ~child[2] => entry.how # "resumed"
    /\ entry.how = "continued" /\ child[2] => child[1] = "clarification_agent"

Started(state, parent) ==
    [state |-> state, status |-> "unsaved", parent |-> parent, open |-> FALSE,
     continues |-> FALSE]

\* AgenticRuntime.run, for a message of the user.
Run ==
    /\ control = "idle"
    /\ \E f \in Frames :
          /\ Unstarted(f)
          /\ frames' = [frames EXCEPT ![f] = Started("conversation_entry", NoFrame)]
          /\ stack' = <<OnStack(f, "fresh", FALSE)>>
    /\ control' = "run"
    /\ UNCHANGED <<asking, asked, raised, twice>>

\* run_child_frame.  A phase leaves its continuation in the context of the
\* caller, which the child's context copies.
CallChild ==
    /\ control = "run"
    /\ \E f \in Frames, child \in States \X BOOLEAN :
          /\ Unstarted(f)
          /\ MayStart(Top, child)
          /\ frames' = [frames EXCEPT ![f] = Started(child[1], Top.frame)]
          /\ LET caller == [Top EXCEPT !.calling = child[2], !.continues = @ \/ ~child[2]]
             IN stack' = Rest \o <<caller, OnStack(f, "fresh", caller.continues)>>
    /\ UNCHANGED <<control, asking, asked, raised, twice>>

-----------------------------------------------------------------------------
(* Frames that end *)

Resumed == Top.how # "fresh"
Caller  == stack[Len(stack) - 1]

\* The deepest frame leaves the stack and its caller goes on: its turn is
\* interrupted when it is over if an earlier call of the turn asks.
ReturnToCaller ==
    /\ stack' = Append(SubSeq(stack, 1, Len(stack) - 2),
                       [Caller EXCEPT !.calling = Caller.pending # NoFrame])
    /\ control' = IF Caller.pending = NoFrame THEN "run" ELSE "unwind"
    /\ asking' = Caller.pending

\* A variant that leaves the saved row as it was.
NotCompleted(f, result) == frames[f]

\* _complete_frame
Completed(f, result) ==
    [frames[f] EXCEPT !.status = IF result = "ok" THEN "completed" ELSE result, !.open = FALSE]

\* An entry frame that ends ends the request; nothing is saved of it.
EndEntry == stack' = <<>> /\ control' = "idle" /\ UNCHANGED asking

\* A child that ends is saved as completed, well or not; a clarification agent
\* whose report is invalid is not saved, nor is an entry frame.
EndFresh ==
    /\ control = "run" /\ ~Resumed
    /\ \E saved \in BOOLEAN :
          /\ saved => Len(stack) > 1
          /\ ~saved => Len(stack) = 1 \/ frames[Top.frame].state = "clarification_agent"
          /\ frames' = IF saved
                       THEN [frames EXCEPT ![Top.frame] = Completed(Top.frame, "ok")]
                       ELSE frames
    /\ \/ Len(stack) > 1 /\ ReturnToCaller
       \/ Len(stack) = 1 /\ EndEntry
    /\ UNCHANGED <<asked, raised, twice>>

\* _resume_parent_frame: with the result of a tool call, or, when no call is
\* open, by its continuation.  There may be nothing to resume.
ResumedParent(parent) ==
    IF parent = NoFrame THEN <<>>
    ELSE IF frames[parent].open THEN <<OnStack(parent, "resumed", Top.continues)>>
    ELSE IF frames[parent].continues THEN <<OnStack(parent, "continued", FALSE)>>
    ELSE <<>>

\* run_state: a frame ends well if its session was completed and every tool call
\* that failed was made good by a later call of the tool.
StateResult(completed, toolFailed) == IF completed /\ ~toolFailed THEN "ok" ELSE "error"

EndResumed ==
    /\ control = "run" /\ Resumed
    /\ \E completed, toolFailed \in BOOLEAN :
          frames' = [frames EXCEPT ![Top.frame] =
                        Completed(Top.frame, StateResult(completed, toolFailed))]
    /\ stack' = ResumedParent(frames[Top.frame].parent)
    /\ control' = IF stack' = <<>> THEN "idle" ELSE "run"
    /\ UNCHANGED <<asking, asked, raised, twice>>

-----------------------------------------------------------------------------
(* Frames that ask *)

\* A resumed clarification agent asks no more: its payload has no references, and
\* without them its tools fail (_ref_context_from_frame).
MayAsk(entry) == frames[entry.frame].state = "clarification_agent" /\ entry.how = "fresh"

\* The clarification agent calls a question tool: _persist_interrupted_frame.
Ask ==
    /\ control = "run"
    /\ MayAsk(Top)
    /\ asked < MaxQuestions
    /\ asked' = asked + 1
    /\ frames' = [frames EXCEPT ![Top.frame].status = "interrupted", ![Top.frame].open = TRUE]
    /\ asking' = Top.frame
    /\ stack' = Rest
    /\ control' = IF Rest = <<>> THEN "idle" ELSE "unwind"
    /\ twice' = (twice \/ \E i \in DOMAIN stack : stack[i].pending # NoFrame)
    /\ UNCHANGED raised

\* A variant that marks the frame that called, and not the one that asks.
SynchronizedCaller(fs) == [fs EXCEPT ![Top.frame].status = "interrupted"]

\* _synchronize_interrupted_child_packet
Synchronized(fs) == [fs EXCEPT ![asking].status = "interrupted"]

\* A variant that keeps no row for the caller.
NotWaiting(fs) == fs

\* _persist_waiting_child_frame.  It gives the asking frame a parent if it has no
\* parent tool call; a clarification agent is only ever started by one.
Waiting(fs) ==
    [fs EXCEPT ![Top.frame].status = "waiting_child",
               ![Top.frame].open = Top.calling, ![Top.frame].continues = Top.continues]

\* run_child_frame, for a child that was interrupted: the caller is saved as
\* waiting, and the asking frame again, with its packet.
Interrupted(fs) == Synchronized(Waiting(fs))

\* _execute_batch: the calls of a turn are all executed, even if one of them is
\* interrupted; the row of the caller is saved at each one that is.
NextCall ==
    /\ control = "unwind" /\ Top.calling
    /\ \E f \in Frames, state \in States :
          /\ Unstarted(f)
          /\ MayStart(Top, <<state, TRUE>>)
          /\ frames' = [Interrupted(frames) EXCEPT ![f] = Started(state, Top.frame)]
          /\ stack' = Rest \o <<[Top EXCEPT !.pending = asking],
                                OnStack(f, "fresh", Top.continues)>>
    /\ control' = "run"
    /\ asking' = NoFrame
    /\ UNCHANGED <<asked, raised, twice>>

\* The caller of an interrupted child is saved as waiting.  A fresh caller is
\* interrupted in turn, and so is an ingestion that was continued.
UnwindCaller ==
    /\ control = "unwind" /\ Top.how # "resumed"
    /\ frames' = Interrupted(frames)
    /\ stack' = Rest
    /\ control' = IF Rest = <<>> THEN "idle" ELSE "unwind"
    /\ UNCHANGED <<asking, asked, raised, twice>>

\* A resumed caller takes the interruption of its child for its own: it saves
\* the asking frame's row again, with itself as the parent.
Adopted(fs) == [fs EXCEPT ![asking].parent = Top.frame, ![asking].open = TRUE]

UnwindResumedCaller ==
    /\ control = "unwind" /\ Top.how = "resumed"
    /\ frames' = Adopted(Interrupted(frames))
    /\ stack' = <<>>
    /\ control' = "idle"
    /\ UNCHANGED <<asking, asked, raised, twice>>

\* A variant of Answerable that resumes whatever frame has an open tool call.
HasOpenCall(f) == frames[f].open

Answerable(f) == frames[f].status = "interrupted" /\ frames[f].open

\* resume_frame: the user has answered every question of the frame.
Answer ==
    /\ control = "idle"
    /\ \E f \in Frames :
          /\ Answerable(f)
          /\ stack' = <<OnStack(f, "resumed", FALSE)>>
    /\ control' = "run"
    /\ asking' = NoFrame
    /\ UNCHANGED <<frames, asked, raised, twice>>

-----------------------------------------------------------------------------
(* Exceptions.  The executor of tool calls turns an exception into an error  *)
(* result, so it ends the frames up to the nearest one a tool call started.  *)

Raise ==
    /\ MayRaise
    /\ control = "run"
    /\ control' = "raise"
    /\ UNCHANGED <<frames, stack, asking, asked, raised, twice>>

Propagate ==
    /\ control = "raise"
    /\ \/ /\ Len(stack) > 1 /\ Caller.calling
          /\ ReturnToCaller
          /\ UNCHANGED raised
       \/ /\ Len(stack) > 1 /\ ~Caller.calling
          /\ stack' = Rest
          /\ UNCHANGED <<control, asking, raised>>
       \/ /\ Len(stack) = 1
          /\ EndEntry /\ raised' = TRUE
    /\ UNCHANGED <<frames, asked, twice>>

Step == \/ CallChild \/ EndFresh \/ EndResumed \/ Ask
        \/ NextCall \/ UnwindCaller \/ UnwindResumedCaller \/ Raise \/ Propagate

Next == Run \/ Answer \/ Step

\* A request that has started goes on; that users answer is an assumption.
Spec == Init /\ [][Next]_vars /\ WF_vars(Step) /\ WF_vars(Answer)

-----------------------------------------------------------------------------
(* Properties *)

Idle    == control = "idle"
Asking  == {f \in Frames : frames[f].status = "interrupted"}
Callers == {f \in Frames : frames[f].status = "waiting_child"}

\* The entry frame a frame belongs to; parents start before their children.
Root[f \in Frames] == IF frames[f].parent = NoFrame THEN f ELSE Root[frames[f].parent]

Ancestors[f \in Frames] ==
    IF frames[f].parent = NoFrame THEN {}
    ELSE {frames[f].parent} \cup Ancestors[frames[f].parent]

\* Whoever is asked, the entry frame that owes the user a reply gets it once
\* the question is answered: from an asking frame every parent up to the entry
\* frame is saved and can be resumed.
AnswerReachesEntry ==
    Idle /\ ~twice => \A f \in Asking :
        /\ Ancestors[f] \subseteq Callers
        /\ frames[f].open
        /\ \A g \in Ancestors[f] : frames[g].open \/ frames[g].continues

\* A run asks the user with one frame at a time, unless two calls of one turn
\* have asked: its waiting parents do not become "a second user-facing
\* clarification", and a child that asks after another is done replaces it.
OneQuestionPerRun ==
    ~twice => \A f, g \in Asking : Root[f] = Root[g] => f = g

\* A frame that has ended is never saved as anything else again.
EndedForGood ==
    [][~twice' => \A f \in Frames : frames[f].status \in {"completed", "error"}
                                       => frames'[f].status = frames[f].status]_vars

\* Unless a request ends in an exception or two calls of one turn ask, and if
\* users answer, an entry frame that waits for a child is resumed and ends.
EntryEnds ==
    \A f \in Frames :
        (f \in Callers /\ frames[f].parent = NoFrame)
            ~> (frames[f].status \in {"completed", "error"} \/ raised \/ twice)

=============================================================================
