------------------------------ MODULE WebClient -----------------------------
(***************************************************************************)
(* The chat view of the web client (frontend/src/views/ChatView.tsx) with  *)
(* its question box (ClarificationQuestionBox.tsx), over the HTTP API of   *)
(* the server (api/routes/chat.py).                                        *)
(*                                                                         *)
(* An event handler of the view is a task: it runs up to an await, and     *)
(* goes on when the answer of the server is there, by then in front of     *)
(* another state of the view, with the session it remembers.  A reply can  *)
(* get lost: the task ends, and the server goes on with the request.       *)
(* Messages are abstracted to the question that comes with them.           *)
(***************************************************************************)
EXTENDS Naturals, Sequences, FiniteSets, SequencesExt

CONSTANTS
    Sessions,   \* the chats that may exist
    Existing,   \* those that exist at the start
    Questions,  \* the questions of every packet, in order
    MaxTasks,   \* bound: events that the user causes
    MaxPackets, \* bound: packets that the server issues
    None

Kinds == {"message", "answer", "load", "new", "delete"}

ASSUME ClientAssumption ==
    /\ Existing \subseteq Sessions /\ None \notin Sessions \cup Kinds
    /\ Questions \in Seq(ToSet(Questions)) /\ Questions # <<>>
    /\ MaxTasks \in Nat /\ MaxPackets \in Nat

Packets  == 1 .. MaxPackets
NoPacket == 0
Tasks    == 1 .. MaxTasks

VARIABLES
    chats,    \* server: the sessions that exist and are not archived
    waiting,  \* server: [Sessions -> the packets of its interrupted frames, the active one last]
    saved,    \* server: packets whose answers were saved with their frame
    frameOf,  \* server: the frames of the packets issued so far
    working,  \* server: the sessions whose process is working
    open,     \* sessionId and activeSessionIdRef
    packet,   \* clarificationPacket
    progress, \* the packet of clarificationProgress, which has all its answers, or NoPacket
    drafts,   \* the box: [questions -> the packet for which the answer was given, or NoPacket]
    index,    \* the box: the question shown
    last,     \* the box: lastSubmittedPacket
    error,    \* clarificationError: None, "retry" or "inactive"
    sending,  \* sendingSessionIds
    spinning, \* the sessions whose processSnapshot says working
    tasks,    \* the handlers
    poll      \* the poll under way, or None

server == <<chats, waiting, saved, frameOf, working>>
box    == <<drafts, index, last>>
view   == <<open, packet, progress, box, error, sending, spinning>>
vars   == <<server, view, tasks, poll>>

NoDrafts == [q \in ToSet(Questions) |-> NoPacket]
NoTask   == [kind |-> None, at |-> "none", s |-> None, from |-> None, answers |-> None,
             reply |-> None, err |-> None, lost |-> FALSE]

Init ==
    /\ chats = Existing /\ waiting = [s \in Sessions |-> <<>>]
    /\ saved = {} /\ frameOf = <<>> /\ working = {}
    /\ open = None /\ packet = NoPacket /\ progress = NoPacket
    /\ drafts = NoDrafts /\ index = 1 /\ last = None
    /\ error = None /\ sending = {} /\ spinning = {}
    /\ tasks = [t \in Tasks |-> NoTask]
    /\ poll = None

-----------------------------------------------------------------------------
(* The server *)

ActivePacket(s) == IF waiting[s] = <<>> THEN NoPacket ELSE Last(waiting[s])

\* get_chat_session and get_chat_process_snapshot
Progress(s) == IF ActivePacket(s) \in saved THEN ActivePacket(s) ELSE NoPacket

Detail(s) == [packet   |-> ActivePacket(s),
              progress |-> Progress(s),
              working  |-> s \in working]

At(t, a) == tasks[t].at = a

\* A packet that is answered leaves its place to the one its frame asks next.
Replaced(s, answered, asked) ==
    SelectSeq(waiting[s], LAMBDA p : p # answered) \o (IF asked = NoPacket THEN <<>> ELSE <<asked>>)

\* The errors for a request.  A message must not go to an archived chat, and an
\* answer must be for a packet that waits in the session; a frame that is not
\* waiting, and another packet of the frame, are errors that may be tried again.
Errors(task) ==
    IF task.kind = "message"
    THEN IF task.s \in chats THEN {} ELSE {"failed"}
    ELSE IF Contains(waiting[task.s], task.answers.packet) THEN {} ELSE {"retry", "inactive"}

Serve(t) ==
    /\ At(t, "post")
    /\ LET task == tasks[t]
       IN  IF Errors(task) # {}
           THEN /\ \E e \in Errors(task) :
                      tasks' = [tasks EXCEPT ![t].at = "replied", ![t].err = e]
                /\ UNCHANGED server
           ELSE /\ tasks' = [tasks EXCEPT ![t].at = "running"]
                /\ saved' = IF task.kind = "answer" THEN saved \cup {task.answers.packet} ELSE saved
                /\ working' = working \cup {task.s}
                /\ UNCHANGED <<chats, waiting, frameOf>>
    /\ UNCHANGED <<view, poll>>

\* The turn ends with a reply, with questions of a frame, or with an exception.
\* A frame that was answered may ask again.
Finish(t) ==
    /\ At(t, "running")
    /\ LET task     == tasks[t]
           answered == IF task.kind = "answer" THEN task.answers.packet ELSE NoPacket
           next     == Len(frameOf) + 1
       IN  \/ /\ waiting' = [waiting EXCEPT ![task.s] = Replaced(task.s, answered, NoPacket)]
              /\ tasks' = [tasks EXCEPT ![t].at = "replied", ![t].reply = NoPacket]
              /\ UNCHANGED frameOf
           \/ /\ next \in Packets
              /\ waiting' = [waiting EXCEPT ![task.s] = Replaced(task.s, answered, next)]
              /\ tasks' = [tasks EXCEPT ![t].at = "replied", ![t].reply = next]
              /\ \E f \in {next} \cup (IF answered = NoPacket THEN {} ELSE {frameOf[answered]}) :
                    frameOf' = Append(frameOf, f)
           \/ /\ tasks' = [tasks EXCEPT ![t].at = "replied", ![t].err = "failed"]
              /\ UNCHANGED <<waiting, frameOf>>
    /\ working' = working \ {tasks[t].s}
    /\ UNCHANGED <<chats, saved, view, poll>>

-----------------------------------------------------------------------------
(* The question box *)

\* A variant that keeps what was typed while the frame is the same.
ChangedFrame(p) ==
    p = NoPacket \/ packet = NoPacket \/ frameOf[p] # frameOf[packet]

\* The first effect depends on the id of the packet.
Changed(p) == p # packet

\* Both effects, when the view shows packet p with progress g
Show(p, g) ==
    /\ packet' = p /\ progress' = g
    /\ drafts' = IF g = p /\ p # NoPacket THEN [q \in ToSet(Questions) |-> p]
                 ELSE IF Changed(p) THEN NoDrafts ELSE drafts
    /\ index' = IF Changed(p) THEN 1 ELSE index
    /\ last' = IF Changed(p) THEN None ELSE last

IsSending == open \in sending

BoxEnabled == packet # NoPacket /\ ~IsSending

Answered(q) == drafts[q] # NoPacket

\* toggleOption and updateText
Draft ==
    /\ BoxEnabled /\ drafts' = [drafts EXCEPT ![Questions[index]] = packet]
    /\ UNCHANGED <<server, open, packet, progress, index, last, error, sending, spinning, tasks, poll>>

Turn ==
    /\ BoxEnabled
    /\ \/ index > 1 /\ index' = index - 1
       \/ index < Len(Questions) /\ Answered(Questions[index]) /\ index' = index + 1
    /\ UNCHANGED <<server, open, packet, progress, drafts, last, error, sending, spinning, tasks, poll>>

-----------------------------------------------------------------------------
(* Events of the user *)

Start(t, task) ==
    /\ tasks[t] = NoTask /\ (t > 1 => tasks[t - 1] # NoTask)
    /\ tasks' = [tasks EXCEPT ![t] = task]

\* Polls end when the sessions that send, or the one shown, change.
PollGoesOn == poll' = IF open' = open /\ sending' = sending THEN poll ELSE None

\* A variant without the check of isSending.
MaySendAgain == TRUE

MaySend == ~IsSending

Without(s) == spinning \ {s}

\* handleSubmit, up to its first await
Submit(t) ==
    /\ MaySend
    /\ Start(t, [NoTask EXCEPT !.kind = "message", !.at = IF open = None THEN "create" ELSE "post",
                               !.s = open])
    /\ sending' = sending \cup ({open} \ {None})
    /\ spinning' = Without(open)
    /\ error' = None
    /\ UNCHANGED <<server, open, packet, progress, box>>

SendAnswers(t, answers) ==
    /\ open # None /\ MaySend
    /\ Start(t, [NoTask EXCEPT !.kind = "answer", !.at = "post", !.s = open, !.answers = answers])
    /\ sending' = sending \cup {open}
    /\ spinning' = Without(open)
    /\ error' = None
    /\ UNCHANGED <<server, open, packet, progress, drafts, index>>

\* submitPacket, after the last question
SubmitPacket(t) ==
    /\ BoxEnabled /\ index = Len(Questions) /\ Answered(Last(Questions))
    /\ last' = [packet |-> packet, given |-> drafts]
    /\ SendAnswers(t, last')

Retry(t) ==
    /\ BoxEnabled /\ error = "retry" /\ last # None
    /\ SendAnswers(t, last)
    /\ UNCHANGED last

\* loadSession, up to its await: what is shown stays there until the chat is loaded.
OpenChat(s) ==
    /\ open' = s
    /\ error' = None
    /\ spinning' = Without(s)
    /\ UNCHANGED <<packet, progress, box, sending>>

CloseChat ==
    /\ open' = None
    /\ Show(NoPacket, NoPacket)

Select(t) ==
    \E s \in chats :
        /\ Start(t, [NoTask EXCEPT !.kind = "load", !.at = "load", !.s = s])
        /\ OpenChat(s)
        /\ UNCHANGED server

NewChat(t) ==
    /\ Start(t, [NoTask EXCEPT !.kind = "new", !.at = "create"])
    /\ CloseChat
    /\ UNCHANGED <<server, error, sending, spinning>>

Delete(t) ==
    \E s \in chats :
        /\ Start(t, [NoTask EXCEPT !.kind = "delete", !.at = "archive", !.s = s, !.from = open])
        /\ UNCHANGED <<server, view>>

\* onRecover: reloadSession
Recover(t) ==
    /\ open # None /\ BoxEnabled /\ error = "inactive"
    /\ Start(t, [NoTask EXCEPT !.kind = "load", !.at = "load", !.s = open])
    /\ error' = None
    /\ UNCHANGED <<server, open, packet, progress, box, sending, spinning>>

User(t) ==
    /\ \/ Submit(t) \/ SubmitPacket(t) \/ Retry(t)
       \/ Select(t) \/ NewChat(t) \/ Delete(t) \/ Recover(t)
    /\ PollGoesOn

-----------------------------------------------------------------------------
(* What follows the awaits *)

Goes(t, at) == tasks' = [tasks EXCEPT ![t].at = at, ![t].reply = None]

\* A variant that ends only what the user still looks at.
DoneIfOpen(t) == sending \ ({tasks[t].s} \cap {open})

\* The finally block
Done(t) == sending \ {tasks[t].s}

Ends(t) ==
    /\ Goes(t, "done")
    /\ sending' = Done(t)

\* A session is created: the view opens it, whatever it shows by now.
Created(t) ==
    /\ At(t, "create")
    /\ \E s \in Sessions :
          /\ s \notin chats /\ waiting[s] = <<>> /\ \A u \in Tasks : tasks[u].s # s
          /\ chats' = chats \cup {s}
          /\ open' = s
          /\ IF tasks[t].kind = "new"
             THEN /\ Goes(t, "list")
                  /\ Show(NoPacket, NoPacket)
                  /\ UNCHANGED sending
             ELSE /\ tasks' = [tasks EXCEPT ![t].at = "post", ![t].s = s]
                  /\ sending' = sending \cup {s}
                  /\ UNCHANGED <<packet, progress, box>>
    /\ UNCHANGED <<waiting, saved, frameOf, working, error, spinning>>

InReply(t) == At(t, "replied") /\ ~tasks[t].lost

\* The response of handleSubmit and handleSubmitClarification
Replied(t) ==
    /\ InReply(t) /\ tasks[t].err = None
    /\ Goes(t, "load")
    /\ LET task == tasks[t]
       IN  IF open = task.s \/ (open = None /\ task.kind = "message")
           THEN open' = task.s /\ Show(task.reply, NoPacket)
           ELSE UNCHANGED <<open, packet, progress, box>>
    /\ UNCHANGED <<server, sending, error, spinning>>

\* A structured error is shown in the box, whatever session is open by now.
Refused(t) ==
    /\ InReply(t) /\ tasks[t].err # None
    /\ Ends(t)
    /\ error' = IF tasks[t].err = "failed" THEN error ELSE tasks[t].err
    /\ UNCHANGED <<server, open, packet, progress, box, spinning>>

Read(t) ==
    /\ At(t, "load")
    /\ tasks' = [tasks EXCEPT ![t].at = "loaded", ![t].reply = Detail(tasks[t].s)]
    /\ UNCHANGED <<server, view>>

Spins(s, d) == spinning' = IF d.working THEN spinning \cup {s} ELSE spinning \ {s}

\* A variant that shows what it loaded, whatever the user looks at by now.
AnyLoad(t) == TRUE

Wanted(t) == open = tasks[t].s

AfterLoad(t) == Goes(t, IF tasks[t].kind \in {"message", "answer"} THEN "list" ELSE "done")

\* loadSession and reloadSession: applySessionDetail
Loaded(t) ==
    /\ At(t, "loaded")
    /\ LET d == tasks[t].reply
       IN  /\ IF Wanted(t)
              THEN open' = tasks[t].s /\ Show(d.packet, d.progress)
              ELSE UNCHANGED <<open, packet, progress, box>>
           /\ Spins(tasks[t].s, d)
    /\ AfterLoad(t)
    /\ UNCHANGED <<server, error, sending>>

\* The load fails: what is shown stays, now under the name of the session.
LoadFails(t) ==
    /\ At(t, "load")
    /\ AfterLoad(t)
    /\ UNCHANGED <<server, view>>

\* refreshRecentChats, with or without success, is the last step.
Listed(t) ==
    /\ At(t, "list")
    /\ Ends(t)
    /\ UNCHANGED <<server, open, packet, progress, box, error, spinning>>

\* handleDeleteChat compares with the session that was open at the click.
Archived(t) ==
    /\ At(t, "archive")
    /\ chats' = chats \ {tasks[t].s}
    /\ IF tasks[t].from # tasks[t].s
       THEN Goes(t, "done") /\ UNCHANGED view
       ELSE IF chats' = {}
       THEN /\ Goes(t, "done") /\ CloseChat
            /\ spinning' = Without(tasks[t].s)
            /\ UNCHANGED <<error, sending>>
       ELSE \E s \in chats' :
               /\ tasks' = [tasks EXCEPT ![t].kind = "load", ![t].at = "load", ![t].s = s]
               /\ OpenChat(s)
    /\ UNCHANGED <<waiting, saved, frameOf, working>>

Step(t) ==
    \/ Serve(t) \/ Finish(t)
    \/ /\ Created(t) \/ Replied(t) \/ Refused(t) \/ Read(t) \/ Loaded(t) \/ Listed(t) \/ Archived(t)
       /\ PollGoesOn

\* The reply is lost or late: the view reports an error, the server goes on.
Lose(t) ==
    /\ tasks[t].at \in {"post", "running"} /\ ~tasks[t].lost
    /\ tasks' = [tasks EXCEPT ![t].lost = TRUE]
    /\ sending' = Done(t)
    /\ UNCHANGED <<server, open, packet, progress, box, error, spinning>>

Fault(t) == (LoadFails(t) \/ Lose(t)) /\ PollGoesOn

-----------------------------------------------------------------------------
(* Polls of the sessions that send *)

StartPoll ==
    /\ poll = None
    /\ \E s \in sending : poll' = [s |-> s, reply |-> None]
    /\ UNCHANGED <<server, view, tasks>>

PollRead ==
    /\ poll # None /\ poll.reply = None
    /\ poll' = [poll EXCEPT !.reply = Detail(poll.s)]
    /\ UNCHANGED <<server, view, tasks>>

PollDone ==
    /\ poll # None /\ poll.reply # None
    /\ IF poll.s = open THEN Show(poll.reply.packet, poll.reply.progress)
                        ELSE UNCHANGED <<packet, progress, box>>
    /\ Spins(poll.s, poll.reply)
    /\ poll' = None
    /\ UNCHANGED <<server, open, error, sending, tasks>>

Next ==
    \/ \E t \in Tasks : User(t) \/ Step(t) \/ Fault(t)
    \/ Draft \/ Turn
    \/ StartPoll \/ PollRead \/ PollDone

\* The server answers what reaches it, and the view handles the answer.
Spec == Init /\ [][Next]_vars /\ \A t \in Tasks : WF_vars(Step(t))

-----------------------------------------------------------------------------
\* "Web users can move forward and backward through a packet without losing or
\* overwriting answers" (clarification-agent-and-ux.md): whatever polls, loads
\* and replies did to the box, the answers that are sent under the id of a packet
\* were all given, each of them, to the questions of that packet.
AnswersAreForTheirPacket ==
    \A t \in Tasks : tasks[t].kind = "answer" =>
        \A q \in ToSet(Questions) : tasks[t].answers.given[q] = tasks[t].answers.packet

\* The view has one request at a time in a session, so that the server never
\* works on two of them, unless the reply of the earlier one was lost.
OneRequestPerSession ==
    \A t, u \in Tasks :
        (t # u /\ {tasks[t].at, tasks[u].at} \subseteq {"post", "running"} /\ tasks[t].s = tasks[u].s)
        => tasks[t].lost \/ tasks[u].lost

\* "another chat can continue processing in the background while the user reads
\* the current chat" (12-chat-activity-and-progress-rendering.md): the reply, the
\* reload or the poll of a chat never opens it over another one.
StaysInChat ==
    [][(open # None /\ open' # open) =>
          \E t \in Tasks : tasks'[t] # tasks[t] /\ (tasks[t].at \in {"none", "create", "archive"})]_vars

\* A session that sends stops sending, also when the user has gone elsewhere.
SendingEnds == \A s \in Sessions : s \in sending ~> s \notin sending
=============================================================================
