----------------------------- MODULE ChatRuntime -----------------------------
(***************************************************************************)
(* The requests of one chat session (chat/runtime.py).  The API handlers   *)
(* are synchronous, so the server runs them on a pool of threads and any   *)
(* number of requests to one session may be in flight.  A worker runs one  *)
(* request: one action per call it makes to the store, with the values it  *)
(* read earlier kept in its own local record, as the handlers keep them    *)
(* in Python variables.  The agentic run in the middle of a request is     *)
(* reduced to the frame records it saves; AgenticFrames looks inside it.   *)
(***************************************************************************)
EXTENDS ChatStore

CONSTANTS
    Workers,       \* the threads that serve requests
    Kinds,         \* the requests clients make, a subset of RequestKinds
    Raises,        \* where a call may raise, a subset of {"covered", "uncovered"}
    MaxRequests    \* bound: requests ever accepted

RequestKinds == {"message", "answer", "cancel", "rename", "archive", "reactivate"}

ASSUME RuntimeAssumption ==
    /\ Kinds \subseteq RequestKinds
    /\ Raises \subseteq {"covered", "uncovered"}
    /\ MaxRequests \in Nat

VARIABLES
    req,       \* what each worker knows about the request it runs
    served,    \* requests accepted so far
    issued,    \* clarification packets created so far
    given      \* per packet, the questions users have answered (history variable)

vars == <<row, log, frames, process, req, served, issued, given>>

\* The call a worker makes next.
Calls == {"idle", "append", "begin", "get", "list", "save", "run", "reply", "get_reply",
          "save_reply", "finish", "failed", "get_frame", "update", "resume", "parents",
          "promote", "put_active"}

Local ==
    [pc       : Calls,
     kind     : RequestKinds \cup {"none"},
     row      : Row,                                \* the session object in hand
     listed   : SUBSET Messages,                    \* list_messages, visible ones
     mine     : Messages \cup {0},                  \* the reply just stored
     frame    : Frames \cup {NoFrame},              \* the frame being answered,
     packet   : Packets \cup {NoPacket},            \* its packet
     progress : SUBSET Questions,                   \* and the merged progress
     reply    : {"text", "blank", "packet"}]        \* what the response carries

Free == [pc |-> "idle", kind |-> "none", row |-> NewRow, listed |-> {}, mine |-> 0,
         frame |-> NoFrame, packet |-> NoPacket, progress |-> {}, reply |-> "blank"]

TypeOK ==
    /\ StoreTypeOK
    /\ req \in [Workers -> Local]
    /\ served \in 0 .. MaxRequests
    /\ issued \in SUBSET Packets
    /\ given \in [Packets -> SUBSET Questions]

Init ==
    /\ StoreInit
    /\ req = [w \in Workers |-> Free]
    /\ served = 0
    /\ issued = {}
    /\ given = [p \in Packets |-> {}]

-----------------------------------------------------------------------------
At(w, kind, pc) == req[w].kind \in kind /\ req[w].pc = pc
Goto(w, pc)     == req' = [req EXCEPT ![w].pc = pc]
\* Go on without the session object, which is not used again.
Drop(w, pc)     == req' = [req EXCEPT ![w].pc = pc, ![w].row = NewRow, ![w].listed = {}]
Return(w)       == req' = [req EXCEPT ![w] = Free]

Accept(w, kind) ==
    /\ kind \in Kinds
    /\ req[w].pc = "idle"
    /\ served < MaxRequests
    /\ served' = served + 1

NewPacket(p) ==
    /\ p \in Packets \ issued
    /\ \A q \in 1 .. (p - 1) : q \in issued
    /\ issued' = issued \cup {p}

Turn == {"message", "answer"}

-----------------------------------------------------------------------------
(* handle_message *)

\* _resolve_session rejects an archived session only when the client names it;
\* a Telegram message finds the session by its chat and is never rejected.
ReceiveMessage(w) ==
    /\ Accept(w, "message")
    /\ \E named \in BOOLEAN : named => row.status = "active"
    /\ req' = [req EXCEPT ![w] = [Free EXCEPT !.pc = "append", !.kind = "message"]]
    /\ UNCHANGED <<row, log, frames, process, issued, given>>

StoreUserMessage(w) ==
    /\ At(w, {"message"}, "append")
    /\ \E m \in Messages, kind \in {"visible", "blank"} : AppendMessage(m, kind, TRUE)
    /\ Goto(w, "begin")
    /\ UNCHANGED <<frames, process, served, issued, given>>

BeginTurn(w) ==
    /\ At(w, Turn, "begin")
    /\ BeginProcess
    /\ Goto(w, IF req[w].kind = "message" THEN "get" ELSE "append")
    /\ UNCHANGED <<row, log, frames, served, issued, given>>

\* _agentic_conversation_context: read the session, read its messages, add
\* those the master history lacks, write the session back.
GetSession(w) ==
    /\ At(w, {"message"}, "get")
    /\ req' = [req EXCEPT ![w].pc = "list", ![w].row = row]
    /\ UNCHANGED <<row, log, frames, process, served, issued, given>>

ListMessages(w) ==
    /\ At(w, {"message"}, "list")
    /\ req' = [req EXCEPT ![w].pc = "save", ![w].listed = VisibleMessages]
    /\ UNCHANGED <<row, log, frames, process, served, issued, given>>

\* A variant without the source keys, to show what they are for.
WithMessagesAgain(copy, ms) ==
    [copy EXCEPT !.history = [m \in Messages |->
        IF m \in ms THEN copy.history[m] + 1 ELSE copy.history[m]]]

\* ensure_master_history and append_master_message skip the messages whose
\* source key they find.
WithMessages(copy, ms) ==
    [copy EXCEPT !.history = [m \in Messages |->
        IF m \in ms /\ copy.history[m] = 0 THEN 1 ELSE copy.history[m]]]

SaveContext(w) ==
    /\ At(w, {"message"}, "save")
    /\ SaveSession(WithMessages(req[w].row, req[w].listed))
    /\ Drop(w, "run")
    /\ UNCHANGED <<log, frames, process, served, issued, given>>

\* Saving a waiting parent or a finished child moves no frame this module
\* tracks, but it recomputes the row's pointer.
SaveRelatedFrame(w) ==
    /\ At(w, {"message"}, "run") \/ At(w, {"answer"}, "parents")
    /\ SyncActive(frames)
    /\ UNCHANGED <<log, frames, process, req, served, issued, given>>

\* AgenticRuntime.run ends with a text, or with no text ...
RunEnds(w) ==
    /\ At(w, {"message"}, "run")
    /\ \E reply \in {"text", "blank"} :
          req' = [req EXCEPT ![w].pc = "reply", ![w].reply = reply]
    /\ UNCHANGED <<row, log, frames, process, served, issued, given>>

\* ... or is interrupted: a new frame now waits for the user.
RunInterrupts(w) ==
    /\ At(w, {"message"}, "run")
    /\ \E f \in Frames, p \in Packets :
          FreshFrame(f) /\ NewPacket(p) /\ SaveFrame(f, "interrupted", p, {})
    /\ req' = [req EXCEPT ![w].pc = "reply", ![w].reply = "packet"]
    /\ UNCHANGED <<log, process, served, given>>

\* _persist_response: a clarification prompt is hidden, and only a response
\* with text and without packet goes on to the master history.
StoreReply(w) ==
    /\ At(w, Turn, "reply")
    /\ \E m \in Messages :
          /\ AppendMessage(m, CASE req[w].reply = "packet" -> "hidden"
                                [] req[w].reply = "text"   -> "visible"
                                [] req[w].reply = "blank"  -> "blank", FALSE)
          /\ req' = [req EXCEPT ![w].mine = m,
                       ![w].pc = IF req[w].reply = "text" THEN "get_reply" ELSE "finish"]
    /\ UNCHANGED <<frames, process, served, issued, given>>

GetForReply(w) ==
    /\ At(w, Turn, "get_reply")
    /\ req' = [req EXCEPT ![w].pc = "save_reply", ![w].row = row]
    /\ UNCHANGED <<row, log, frames, process, served, issued, given>>

SaveReply(w) ==
    /\ At(w, Turn, "save_reply")
    /\ SaveSession(WithMessages(req[w].row, {req[w].mine}))
    /\ Drop(w, "finish")
    /\ UNCHANGED <<log, frames, process, served, issued, given>>

\* A variant that takes an empty text for a question.
OutcomeByText(reply) ==
    IF reply = "text" THEN FinishProcess("completed", FALSE)
                      ELSE FinishProcess("waiting_for_user", TRUE)

\* A variant that says nothing of a reply without text.
OutcomeUnlessBlank(reply) ==
    IF reply = "packet" THEN FinishProcess("waiting_for_user", TRUE)
    ELSE IF reply = "text" THEN FinishProcess("completed", FALSE)
    ELSE UNCHANGED process

Outcome(reply) ==
    IF reply = "packet" THEN FinishProcess("waiting_for_user", TRUE)
                        ELSE FinishProcess("completed", FALSE)

FinishTurn(w) ==
    /\ At(w, Turn, "finish")
    /\ Outcome(req[w].reply)
    /\ Return(w)
    /\ UNCHANGED <<row, log, frames, served, issued, given>>

-----------------------------------------------------------------------------
(* answer_clarification *)

ReceiveAnswer(w) ==
    /\ Accept(w, "answer")
    /\ req' = [req EXCEPT ![w] = [Free EXCEPT !.pc = "get_frame", !.kind = "answer",
                                              !.row = row]]
    /\ UNCHANGED <<row, log, frames, process, issued, given>>

\* A variant that keeps the latest answers only.
LatestAnswers(f, answers) == answers

\* merge_clarification_progress
MergedProgress(f, answers) == frames[f].answered \cup answers

\* A variant that takes a started packet for a complete one.
SomeAnswered(progress) == progress # {}

AllAnswered(progress) == progress = Questions

\* The frame must wait for the user and its packet must be the one answered;
\* the progress is merged into the progress this copy of the frame carries.
GetFrame(w) ==
    /\ At(w, {"answer"}, "get_frame")
    /\ \E f \in Interrupted(frames), answers \in (SUBSET Questions) \ {{}} :
          /\ frames[f].packet # NoPacket
          /\ req' = [req EXCEPT ![w].pc = "begin", ![w].frame = f,
                       ![w].packet = frames[f].packet,
                       ![w].progress = MergedProgress(f, answers)]
          /\ given' = [given EXCEPT ![frames[f].packet] = @ \cup answers]
    /\ UNCHANGED <<row, log, frames, process, served, issued>>

\* The frame is stale, unknown or not waiting, or the answers are not valid.
RejectAnswer(w) ==
    /\ At(w, {"answer"}, "get_frame")
    /\ Return(w)
    /\ UNCHANGED <<row, log, frames, process, served, issued, given>>

StoreAnswerMessage(w) ==
    /\ At(w, {"answer"}, "append")
    /\ \E m \in Messages : AppendMessage(m, "hidden", TRUE)
    /\ Goto(w, "update")
    /\ UNCHANGED <<frames, process, served, issued, given>>

\* Progress and packet are written over whatever the frame holds by now, and
\* its status is set to "interrupted".
RecordProgress(w) ==
    /\ At(w, {"answer"}, "update")
    /\ UpdateFrameStatus(req[w].frame, "interrupted", req[w].packet, req[w].progress)
    /\ IF AllAnswered(req[w].progress)
       THEN Goto(w, "resume")
       ELSE req' = [req EXCEPT ![w].pc = "reply", ![w].reply = "packet"]
    /\ UNCHANGED <<log, process, served, issued, given>>

\* AgenticRuntime.resume_frame: the frame asks again ...
ResumeAsksAgain(w) ==
    /\ At(w, {"answer"}, "resume")
    /\ \E p \in Packets :
          NewPacket(p) /\ SaveFrame(req[w].frame, "interrupted", p, {})
    /\ req' = [req EXCEPT ![w].pc = "promote", ![w].reply = "packet"]
    /\ UNCHANGED <<log, process, served, given>>

\* ... or it ends, well or not, and the parents that waited for it go on.
ResumeEnds(w) ==
    /\ At(w, {"answer"}, "resume")
    /\ \E status \in {"completed", "error"} :
          SaveFrame(req[w].frame, status, NoPacket, req[w].progress)
    /\ Goto(w, "parents")
    /\ UNCHANGED <<log, process, served, issued, given>>

ParentsEnd(w) ==
    /\ At(w, {"answer"}, "parents")
    /\ \E reply \in {"text", "blank"} :
          req' = [req EXCEPT ![w].pc = "promote", ![w].reply = reply]
    /\ UNCHANGED <<row, log, frames, process, served, issued, given>>

ParentsInterrupt(w) ==
    /\ At(w, {"answer"}, "parents")
    /\ \E f \in Frames, p \in Packets :
          FreshFrame(f) /\ NewPacket(p) /\ SaveFrame(f, "interrupted", p, {})
    /\ req' = [req EXCEPT ![w].pc = "promote", ![w].reply = "packet"]
    /\ UNCHANGED <<log, process, served, given>>

\* A variant that forgets the exchange.
NotPromoted(copy, p) == copy

\* promote_completed_clarification on the session read when the answer came in
Promoted(copy, p) ==
    [copy EXCEPT !.promoted[p] = IF @ = 0 THEN 1 ELSE @]

PromoteAnswers(w) ==
    /\ At(w, {"answer"}, "promote")
    /\ SaveSession(Promoted(req[w].row, req[w].packet))
    /\ Drop(w, "reply")
    /\ UNCHANGED <<log, frames, process, served, issued, given>>

-----------------------------------------------------------------------------
(* Exceptions.  handle_message covers all that follows begin_chat_process;  *)
(* answer_clarification covers resume_frame and nothing else.               *)

Covered(w) ==
    \/ /\ req[w].kind = "message"
       /\ req[w].pc \in {"get", "list", "save", "run", "reply", "get_reply", "save_reply", "finish"}
    \/ /\ req[w].kind = "answer"
       /\ req[w].pc \in {"resume", "parents"}

Uncovered(w) ==
    /\ req[w].kind = "answer"
    /\ req[w].pc \in {"append", "update", "promote", "reply", "get_reply", "save_reply", "finish"}

RaiseCovered(w) ==
    /\ "covered" \in Raises
    /\ Covered(w)
    /\ Drop(w, "failed")
    /\ UNCHANGED <<row, log, frames, process, served, issued, given>>

FailTurn(w) ==
    /\ At(w, Turn, "failed")
    /\ FinishProcess("failed", FALSE)
    /\ Return(w)
    /\ UNCHANGED <<row, log, frames, served, issued, given>>

RaiseUncovered(w) ==
    /\ "uncovered" \in Raises
    /\ Uncovered(w)
    /\ Return(w)
    /\ UNCHANGED <<row, log, frames, process, served, issued, given>>

-----------------------------------------------------------------------------
(* update_session and cancel_session_process *)

Rename(w) ==
    /\ Accept(w, "rename")
    /\ RenameSession
    /\ UNCHANGED <<log, frames, process, req, issued, given>>

Archive(w) ==
    /\ Accept(w, "archive")
    /\ ArchiveSession
    /\ UNCHANGED <<log, frames, process, req, issued, given>>

\* A status other than archived is set on a copy of the session, so it takes
\* two calls; a request that also carries a title never gets here.
GetForReactivate(w) ==
    /\ Accept(w, "reactivate")
    /\ req' = [req EXCEPT ![w] = [Free EXCEPT !.pc = "put_active", !.kind = "reactivate",
                                              !.row = row]]
    /\ UNCHANGED <<row, log, frames, process, issued, given>>

Reactivate(w) ==
    /\ At(w, {"reactivate"}, "put_active")
    /\ SaveSession([req[w].row EXCEPT !.status = "active"])
    /\ Return(w)
    /\ UNCHANGED <<log, frames, process, served, issued, given>>

\* Cancelling only tells the user that it is not available any more.
Cancel(w) ==
    /\ Accept(w, "cancel")
    /\ \E m \in Messages : AppendMessage(m, "visible", FALSE)
    /\ UNCHANGED <<frames, process, req, issued, given>>

-----------------------------------------------------------------------------
\* What a worker does once it has accepted a request.
Continue(w) ==
    \/ StoreUserMessage(w) \/ BeginTurn(w)
    \/ GetSession(w) \/ ListMessages(w) \/ SaveContext(w)
    \/ RunEnds(w) \/ RunInterrupts(w)
    \/ StoreReply(w) \/ GetForReply(w) \/ SaveReply(w) \/ FinishTurn(w)
    \/ GetFrame(w) \/ RejectAnswer(w) \/ StoreAnswerMessage(w) \/ RecordProgress(w)
    \/ ResumeAsksAgain(w) \/ ResumeEnds(w) \/ ParentsEnd(w) \/ ParentsInterrupt(w)
    \/ PromoteAnswers(w) \/ RaiseCovered(w) \/ FailTurn(w) \/ RaiseUncovered(w)
    \/ Reactivate(w)

Start(w) ==
    \/ ReceiveMessage(w) \/ ReceiveAnswer(w) \/ Cancel(w)
    \/ Rename(w) \/ Archive(w) \/ GetForReactivate(w)

Next == \E w \in Workers : Continue(w) \/ SaveRelatedFrame(w) \/ Start(w)

Spec == Init /\ [][Next]_vars

-----------------------------------------------------------------------------
(* Properties of concurrent requests *)

Quiescent == \A w \in Workers : req[w].pc = "idle"

\* However requests interleave, no message and no answered clarification is in
\* the master history twice: source and promotion keys make the read-modify-
\* write of ensure_master_history, append_master_message and
\* promote_completed_clarification idempotent.
HistoryOnce ==
    /\ \A m \in Messages : row.history[m] <= 1
    /\ \A p \in Packets : row.promoted[p] <= 1

\* The model-facing history holds messages the user can see and no other:
\* hidden prompts and answers never reach it, whichever request writes it.
HistoryIsVisible == \A m \in Messages : row.history[m] > 0 => log[m] = "visible"

\* A clarification is promoted to the history only when users have answered
\* each of its questions, even if answers come in at the same time, are
\* recorded over one another or are sent twice.
PromotedWereAnswered == \A p \in Packets : row.promoted[p] > 0 => given[p] = Questions

\* While the session is shown as working, some request is working on it: it is
\* not left "an indefinitely spinning progress indicator" by a run that raised.
InTurn(w) == req[w].kind \in Turn /\ req[w].pc # "idle"
WorkingHasWorker == process.status = "working" => \E w \in Workers : InTurn(w)

-----------------------------------------------------------------------------
(* Properties of one request after another *)

OpenFrames(p) == {f \in Interrupted(frames) : frames[f].packet = p}

\* What the frames say of the packets
PacketPhase ==
    [p \in Packets |-> IF p \notin issued THEN "unasked"
                       ELSE IF OpenFrames(p) # {} THEN "open" ELSE "closed"]
PacketAnswers ==
    [p \in Packets |-> IF p \notin issued THEN {}
                       ELSE IF OpenFrames(p) = {} THEN Questions
                       ELSE UNION {frames[f].answered : f \in OpenFrames(p)}]

\* The frames and their progress implement the life of a packet.
Lifecycle == INSTANCE ClarificationLifecycle WITH phase <- PacketPhase, answered <- PacketAnswers
PacketLifecycle == Lifecycle!Spec

\* When the session says it waits for the user and can be resumed, there is a
\* frame to resume, and it has a packet to answer.
WaitingIsResumable ==
    Quiescent /\ process.status = "waiting_for_user" =>
        /\ process.resumable
        /\ \E f \in Interrupted(frames) : frames[f].packet \in issued

\* Between requests the master history misses nothing: not a visible message,
\* and not a clarification whose frame has gone on.
HistoryComplete ==
    Quiescent =>
        /\ \A m \in VisibleMessages : row.history[m] = 1
        /\ \A p \in issued : OpenFrames(p) = {} => row.promoted[p] = 1

=============================================================================
