--------------------------- MODULE WebClientProofs --------------------------
(***************************************************************************)
(* Proofs about WebClient, for any chats and questions, and any number of  *)
(* events, packets, polls and lost replies.                                *)
(***************************************************************************)
EXTENDS WebClient, TLAPS

Requests == {"message", "answer"}
AtServer == {"post", "running", "replied"}
Places   == AtServer \cup {"none", "create", "load", "loaded", "list", "archive", "done"}

\* Each of the answers is one to a question of the packet they are sent under.
GivenToPacket(answers) == \A q \in ToSet(Questions) : answers.given[q] = answers.packet

\* The types of what the view's tasks have been told by the server are left
\* open: nothing below depends on what a packet is.
IsTask(r) ==
    /\ r = [kind |-> r.kind, at |-> r.at, s |-> r.s, from |-> r.from, answers |-> r.answers,
            reply |-> r.reply, err |-> r.err, lost |-> r.lost]
    /\ r.kind \in Kinds \cup {None} /\ r.lost \in BOOLEAN
    /\ r.at \in Places

\* Which handler may be where
WellPlaced(r) ==
    /\ r.at \in AtServer => r.kind \in Requests
    /\ r.at = "create" => r.kind \in {"message", "new"}
    /\ r.at = "list" => r.kind \in Requests \cup {"new"}
    /\ r.kind = "new" => r.s = None /\ r.at \in {"create", "list", "done"}
    /\ r.lost => r.at \in AtServer
    /\ r.kind = "answer" => GivenToPacket(r.answers)

TypeOK ==
    /\ tasks = [t \in Tasks |-> tasks[t]]
    /\ \A t \in Tasks : IsTask(tasks[t]) /\ WellPlaced(tasks[t])
    /\ drafts = [q \in ToSet(Questions) |-> drafts[q]]
    /\ index \in DOMAIN Questions

\* A request the view still waits for, or that has yet to end
Active(r) ==
    r.kind \in Requests /\ r.at \in AtServer \cup {"load", "loaded", "list"} /\ ~r.lost

\* A session sends as long as it has such a request, and it has only one.
SendingInv ==
    /\ None \notin sending
    /\ \A t \in Tasks : Active(tasks[t]) => tasks[t].s \in sending
    /\ \A t, u \in Tasks :
          t # u /\ Active(tasks[t]) /\ Active(tasks[u]) => tasks[t].s # tasks[u].s

\* The drafts are for the packet that is shown, and what lies before the question
\* shown is answered.
BoxInv ==
    /\ \A q \in ToSet(Questions) : drafts[q] \in {NoPacket, packet}
    /\ \A i \in DOMAIN Questions : i < index => drafts[Questions[i]] # NoPacket
    /\ last # None => GivenToPacket(last)

Inv == TypeOK /\ SendingInv /\ BoxInv

-----------------------------------------------------------------------------
(* A step of one task *)

\* The record of one task changes; the others are as they were.
LEMMA OneTask ==
    ASSUME TypeOK, NEW t \in Tasks, NEW r, IsTask(r), WellPlaced(r),
           tasks' = [tasks EXCEPT ![t] = r],
           drafts' = [q \in ToSet(Questions) |-> drafts'[q]], index' \in DOMAIN Questions
    PROVE  /\ TypeOK' /\ tasks'[t] = r
           /\ \A u \in Tasks : u # t => tasks'[u] = tasks[u]
<1>1. tasks' = [u \in Tasks |-> IF u = t THEN r ELSE tasks[u]]
  BY DEF TypeOK
<1>2. /\ tasks'[t] = r /\ \A u \in Tasks : u # t => tasks'[u] = tasks[u]
      /\ tasks' = [u \in Tasks |-> tasks'[u]]
  BY <1>1
<1>3. \A u \in Tasks : IsTask(tasks'[u]) /\ WellPlaced(tasks'[u])
  BY <1>2 DEF TypeOK
<1> QED
  BY <1>2, <1>3 DEF TypeOK, IsTask, WellPlaced, GivenToPacket

\* A task goes on without beginning or ending a request.
LEMMA GoesOn ==
    ASSUME SendingInv, NEW t \in Tasks, \A u \in Tasks : u # t => tasks'[u] = tasks[u],
           UNCHANGED sending,
           Active(tasks'[t]) => Active(tasks[t]) /\ tasks'[t].s = tasks[t].s
    PROVE  SendingInv'
BY DEF SendingInv, Active

\* A task ends, its request with it.
LEMMA RequestEnds ==
    ASSUME SendingInv, NEW t \in Tasks, \A u \in Tasks : u # t => tasks'[u] = tasks[u],
           sending' = sending \ {tasks[t].s}, ~Active(tasks'[t]),
           Active(tasks[t]) \/ tasks[t].s = None
    PROVE  SendingInv'
BY DEF SendingInv, Active

\* A request begins in a session that has none.
LEMMA RequestBegins ==
    ASSUME SendingInv, NEW t \in Tasks, \A u \in Tasks : u # t => tasks'[u] = tasks[u],
           tasks'[t].s # None, sending' = sending \cup {tasks'[t].s},
           \A u \in Tasks : u # t /\ Active(tasks[u]) => tasks[u].s # tasks'[t].s
    PROVE  SendingInv'
BY DEF SendingInv, Active

-----------------------------------------------------------------------------
(* The question box *)

LEMMA QuestionsAreListed ==
    DOMAIN Questions = 1 .. Len(Questions) /\ Len(Questions) \in Nat \ {0}
BY ClientAssumption

LEMMA ShowInv ==
    ASSUME TypeOK, BoxInv, NEW p, NEW g, Show(p, g)
    PROVE  /\ BoxInv'
           /\ drafts' = [q \in ToSet(Questions) |-> drafts'[q]] /\ index' \in DOMAIN Questions
<1>1. /\ packet' = p
      /\ drafts' = IF g = p /\ p # NoPacket THEN [q \in ToSet(Questions) |-> p]
                   ELSE IF p # packet THEN NoDrafts ELSE drafts
      /\ index' = IF p # packet THEN 1 ELSE index
      /\ last' = IF p # packet THEN None ELSE last
  BY DEF Show, Changed
<1>2. drafts' = [q \in ToSet(Questions) |-> drafts'[q]] /\ index' \in DOMAIN Questions
  BY <1>1, QuestionsAreListed DEF TypeOK, NoDrafts
<1>3. \A i \in DOMAIN Questions : Questions[i] \in ToSet(Questions) /\ i \in Nat /\ ~(i < 1)
  BY QuestionsAreListed DEF ToSet
<1>4. \A q \in ToSet(Questions) : drafts'[q] \in {NoPacket, packet'}
  BY <1>1 DEF NoDrafts, BoxInv
<1>5. ASSUME NEW i \in DOMAIN Questions, i < index'
      PROVE  drafts'[Questions[i]] # NoPacket
  BY <1>1, <1>3, <1>5 DEF BoxInv
<1>6. last' # None => GivenToPacket(last)'
  BY <1>1 DEF BoxInv, GivenToPacket
<1> QED
  BY <1>2, <1>4, <1>5, <1>6 DEF BoxInv

\* The box stays as it is, with the packet it is about.
LEMMA SameBox ==
    ASSUME BoxInv, UNCHANGED <<packet, box>>
    PROVE  BoxInv'
BY DEF BoxInv, box, GivenToPacket

LEMMA SameBoxType ==
    ASSUME TypeOK, UNCHANGED <<drafts, index>>
    PROVE  drafts' = [q \in ToSet(Questions) |-> drafts'[q]] /\ index' \in DOMAIN Questions
BY DEF TypeOK

LEMMA SameTasks ==
    ASSUME TypeOK, UNCHANGED tasks,
           drafts' = [q \in ToSet(Questions) |-> drafts'[q]], index' \in DOMAIN Questions
    PROVE  TypeOK'
BY DEF TypeOK, IsTask, WellPlaced, GivenToPacket

LEMMA SameSending ==
    ASSUME SendingInv, UNCHANGED <<tasks, sending>>
    PROVE  SendingInv'
BY DEF SendingInv, Active

LEMMA DraftInv == Inv /\ Draft => Inv'
<1> SUFFICES ASSUME Inv, Draft PROVE Inv'
  OBVIOUS
<1>1. /\ packet # NoPacket /\ packet' = packet /\ index' = index /\ last' = last
      /\ drafts' = [drafts EXCEPT ![Questions[index]] = packet]
      /\ UNCHANGED <<tasks, sending>>
  BY DEF Draft, BoxEnabled
<1>2. TypeOK /\ BoxInv /\ SendingInv
  BY DEF Inv
<1>3. drafts' = [q \in ToSet(Questions) |-> IF q = Questions[index] THEN packet ELSE drafts[q]]
  BY <1>1, <1>2 DEF TypeOK
<1>4. drafts' = [q \in ToSet(Questions) |-> drafts'[q]] /\ index' \in DOMAIN Questions
  BY <1>1, <1>2, <1>3 DEF TypeOK
<1>5. \A i \in DOMAIN Questions : Questions[i] \in ToSet(Questions)
  BY DEF ToSet
<1>6. BoxInv'
  BY <1>1, <1>2, <1>3, <1>5 DEF BoxInv, GivenToPacket
<1> QED
  BY <1>1, <1>2, <1>4, <1>6, SameTasks, SameSending DEF Inv

LEMMA TurnInv == Inv /\ Turn => Inv'
<1> SUFFICES ASSUME Inv, Turn PROVE Inv'
  OBVIOUS
<1>1. /\ UNCHANGED <<packet, drafts, last, tasks, sending>>
      /\ \/ index > 1 /\ index' = index - 1
         \/ index < Len(Questions) /\ Answered(Questions[index]) /\ index' = index + 1
  BY DEF Turn
<1>2. TypeOK /\ BoxInv /\ SendingInv
  BY DEF Inv
<1>3. index \in 1 .. Len(Questions) /\ index' \in 1 .. Len(Questions) /\ Len(Questions) \in Nat
  BY <1>1, <1>2, QuestionsAreListed DEF TypeOK
<1>4. \A i \in 1 .. Len(Questions) : i < index' => i < index \/ (i = index /\ Answered(Questions[i]))
  BY <1>1, <1>3
<1>5. \A i \in DOMAIN Questions : i < index' => drafts[Questions[i]] # NoPacket
  BY <1>2, <1>4, QuestionsAreListed DEF BoxInv, Answered
<1>6. BoxInv'
  BY <1>1, <1>2, <1>5 DEF BoxInv, GivenToPacket
<1>7. drafts' = [q \in ToSet(Questions) |-> drafts'[q]] /\ index' \in DOMAIN Questions
  BY <1>1, <1>2, <1>3, QuestionsAreListed DEF TypeOK
<1> QED
  BY <1>1, <1>2, <1>6, <1>7, SameTasks, SameSending DEF Inv

-----------------------------------------------------------------------------
(* Events of the user *)

\* A new task that is no request
LEMMA StartedInv ==
    ASSUME TypeOK, SendingInv, NEW t \in Tasks, NEW task, IsTask(task), WellPlaced(task),
           ~Active(task), Start(t, task), UNCHANGED sending,
           drafts' = [q \in ToSet(Questions) |-> drafts'[q]], index' \in DOMAIN Questions
    PROVE  TypeOK' /\ SendingInv'
<1>1. tasks' = [tasks EXCEPT ![t] = task]
  BY DEF Start
<1>2. TypeOK' /\ tasks'[t] = task /\ \A u \in Tasks : u # t => tasks'[u] = tasks[u]
  BY <1>1, OneTask
<1> QED
  BY <1>2, GoesOn

\* A new request to the session that is open
LEMMA RequestedInv ==
    ASSUME TypeOK, SendingInv, NEW t \in Tasks, NEW task, IsTask(task), WellPlaced(task),
           task.s = open, open # None, MaySend, Start(t, task), sending' = sending \cup {open},
           drafts' = [q \in ToSet(Questions) |-> drafts'[q]], index' \in DOMAIN Questions
    PROVE  TypeOK' /\ SendingInv'
<1>1. tasks' = [tasks EXCEPT ![t] = task] /\ open \notin sending
  BY DEF Start, MaySend, IsSending
<1>2. TypeOK' /\ tasks'[t] = task /\ \A u \in Tasks : u # t => tasks'[u] = tasks[u]
  BY <1>1, OneTask
<1>3. \A u \in Tasks : Active(tasks[u]) => tasks[u].s # open
  BY <1>1 DEF SendingInv
<1> QED
  BY <1>2, <1>3, RequestBegins

LEMMA NoneIsNoKind == None \notin Kinds /\ None \notin Sessions
BY ClientAssumption

LEMMA SubmitInv == ASSUME Inv, NEW t \in Tasks, Submit(t) PROVE Inv'
<1> DEFINE task == [NoTask EXCEPT !.kind = "message", !.at = IF open = None THEN "create" ELSE "post",
                                  !.s = open]
<1>1. /\ MaySend /\ Start(t, task) /\ UNCHANGED <<open, packet, progress, box>>
      /\ sending' = sending \cup ({open} \ {None})
  BY DEF Submit
<1>0. task = [NoTask EXCEPT !.kind = "message", !.at = IF open = None THEN "create" ELSE "post", !.s = open]
  OBVIOUS
<1> HIDE DEF task
<1>2. /\ task.kind = "message" /\ task.at = (IF open = None THEN "create" ELSE "post")
      /\ task.s = open /\ task.lost = FALSE
      /\ IsTask(task)
  <2>1. /\ task.kind = "message" /\ task.at = (IF open = None THEN "create" ELSE "post")
        /\ task.s = open /\ task.lost = FALSE
    BY <1>0 DEF NoTask
  <2>2. IsTask(task)
    BY <1>0, <2>1 DEF NoTask, IsTask, Kinds, Places, AtServer
  <2> QED
    BY <2>1, <2>2
<1>3. WellPlaced(task) /\ (open = None => ~Active(task))
  BY <1>2 DEF WellPlaced, Requests, AtServer, Active
<1>4. TypeOK /\ SendingInv /\ BoxInv
  BY DEF Inv
<1>5. drafts' = [q \in ToSet(Questions) |-> drafts'[q]] /\ index' \in DOMAIN Questions
  BY <1>1, <1>4, SameBoxType DEF box
<1>6. BoxInv'
  BY <1>1, <1>4, SameBox
<1>7. CASE open = None
  <2>1. sending' = sending
    BY <1>1, <1>7
  <2> QED
    BY <2>1, <1>1, <1>2, <1>3, <1>4, <1>5, <1>6, <1>7, StartedInv DEF Inv
<1>8. CASE open # None
  <2>1. sending' = sending \cup {open}
    BY <1>1, <1>8
  <2> QED
    BY <2>1, <1>1, <1>2, <1>3, <1>4, <1>5, <1>6, <1>8, RequestedInv DEF Inv
<1> QED
  BY <1>7, <1>8

\* submitPacket and its repetition, with answers that were all given to their packet
LEMMA SendAnswersInv ==
    ASSUME Inv, NEW t \in Tasks, NEW answers, GivenToPacket(answers), SendAnswers(t, answers),
           last' # None => GivenToPacket(last')
    PROVE  Inv'
<1> DEFINE task == [NoTask EXCEPT !.kind = "answer", !.at = "post", !.s = open, !.answers = answers]
<1>1. /\ open # None /\ MaySend /\ Start(t, task) /\ sending' = sending \cup {open}
      /\ UNCHANGED <<open, packet, progress, drafts, index>>
  BY DEF SendAnswers
<1>0. task = [NoTask EXCEPT !.kind = "answer", !.at = "post", !.s = open, !.answers = answers]
  OBVIOUS
<1> HIDE DEF task
<1>2. /\ task.kind = "answer" /\ task.at = "post" /\ task.s = open /\ task.lost = FALSE
      /\ task.answers = answers /\ IsTask(task)
  <2>1. /\ task.kind = "answer" /\ task.at = "post" /\ task.s = open /\ task.lost = FALSE
        /\ task.answers = answers
    BY <1>0 DEF NoTask
  <2>2. IsTask(task)
    BY <1>0, <2>1 DEF NoTask, IsTask, Kinds, Places, AtServer
  <2> QED
    BY <2>1, <2>2
<1>3. WellPlaced(task)
  BY <1>2 DEF WellPlaced, Requests, AtServer
<1>4. TypeOK /\ SendingInv /\ BoxInv
  BY DEF Inv
<1>5. drafts' = [q \in ToSet(Questions) |-> drafts'[q]] /\ index' \in DOMAIN Questions
  BY <1>1, <1>4, SameBoxType
<1>6. BoxInv'
  BY <1>1, <1>4 DEF BoxInv, GivenToPacket
<1> QED
  BY <1>1, <1>2, <1>3, <1>4, <1>5, <1>6, RequestedInv DEF Inv

\* At the last question, once it is answered, all drafts are for the packet shown.
LEMMA SubmitPacketInv == ASSUME Inv, NEW t \in Tasks, SubmitPacket(t) PROVE Inv'
<1>1. /\ packet # NoPacket /\ index = Len(Questions) /\ drafts[Last(Questions)] # NoPacket
      /\ last' = [packet |-> packet, given |-> drafts] /\ SendAnswers(t, last')
  BY DEF SubmitPacket, BoxEnabled, Answered
<1>2. Last(Questions) = Questions[Len(Questions)]
  BY DEF Last
<1>3. \A i \in 1 .. Len(Questions) : drafts[Questions[i]] # NoPacket
  <2>0. Len(Questions) \in Nat
    BY QuestionsAreListed
  <2>1. \A i \in 1 .. Len(Questions) : i < Len(Questions) \/ i = Len(Questions)
    BY <2>0
  <2> QED
    BY <2>1, <1>1, <1>2, QuestionsAreListed DEF Inv, BoxInv
<1>4. \A q \in ToSet(Questions) : drafts[q] = packet
  <2> SUFFICES ASSUME NEW q \in ToSet(Questions) PROVE drafts[q] = packet
    OBVIOUS
  <2>1. PICK i \in DOMAIN Questions : q = Questions[i]
    BY DEF ToSet
  <2> QED
    BY <2>1, <1>3, QuestionsAreListed DEF Inv, BoxInv
<1>5. GivenToPacket(last')
  BY <1>1, <1>4 DEF GivenToPacket
<1> QED
  BY <1>1, <1>5, SendAnswersInv

LEMMA RetryInv == ASSUME Inv, NEW t \in Tasks, Retry(t) PROVE Inv'
<1>1. last # None /\ SendAnswers(t, last) /\ last' = last
  BY DEF Retry
<1>2. GivenToPacket(last)
  BY <1>1 DEF Inv, BoxInv
<1> QED
  BY <1>1, <1>2, SendAnswersInv

\* Events that send nothing, and leave the box alone or show another packet
LEMMA OtherEventInv ==
    ASSUME Inv, NEW t \in Tasks, NEW task, IsTask(task), WellPlaced(task), ~Active(task),
           Start(t, task), UNCHANGED sending,
           UNCHANGED <<packet, box>> \/ Show(NoPacket, NoPacket)
    PROVE  Inv'
<1>1. TypeOK /\ SendingInv /\ BoxInv
  BY DEF Inv
<1>2. /\ BoxInv'
      /\ drafts' = [q \in ToSet(Questions) |-> drafts'[q]] /\ index' \in DOMAIN Questions
  BY <1>1, ShowInv, SameBox, SameBoxType DEF box
<1> QED
  BY <1>1, <1>2, StartedInv DEF Inv

LEMMA SelectInv == ASSUME Inv, NEW t \in Tasks, Select(t) PROVE Inv'
<1>1. PICK s \in chats : /\ Start(t, [NoTask EXCEPT !.kind = "load", !.at = "load", !.s = s])
                         /\ UNCHANGED <<packet, progress, box, sending>>
  BY DEF Select, OpenChat
<1> DEFINE task == [NoTask EXCEPT !.kind = "load", !.at = "load", !.s = s]
<1>0. task = [NoTask EXCEPT !.kind = "load", !.at = "load", !.s = s]
  OBVIOUS
<1> HIDE DEF task
<1>2. /\ task.kind = "load" /\ task.at = "load" /\ task.lost = FALSE /\ IsTask(task)
  <2>1. /\ task.kind = "load" /\ task.at = "load" /\ task.lost = FALSE
    BY <1>0 DEF NoTask
  <2>2. IsTask(task)
    BY <1>0, <2>1 DEF NoTask, IsTask, Kinds, Places, AtServer
  <2> QED
    BY <2>1, <2>2
<1>3. WellPlaced(task) /\ ~Active(task)
  BY <1>2 DEF WellPlaced, Requests, AtServer, Active
<1> QED
  BY <1>1, <1>2, <1>3, OtherEventInv DEF task

LEMMA RecoverInv == ASSUME Inv, NEW t \in Tasks, Recover(t) PROVE Inv'
<1> DEFINE task == [NoTask EXCEPT !.kind = "load", !.at = "load", !.s = open]
<1>1. Start(t, task) /\ UNCHANGED <<packet, progress, box, sending>>
  BY DEF Recover
<1>0. task = [NoTask EXCEPT !.kind = "load", !.at = "load", !.s = open]
  OBVIOUS
<1> HIDE DEF task
<1>2. /\ task.kind = "load" /\ task.at = "load" /\ task.lost = FALSE /\ IsTask(task)
  <2>1. /\ task.kind = "load" /\ task.at = "load" /\ task.lost = FALSE
    BY <1>0 DEF NoTask
  <2>2. IsTask(task)
    BY <1>0, <2>1 DEF NoTask, IsTask, Kinds, Places, AtServer
  <2> QED
    BY <2>1, <2>2
<1>3. WellPlaced(task) /\ ~Active(task)
  BY <1>2 DEF WellPlaced, Requests, AtServer, Active
<1> QED
  BY <1>1, <1>2, <1>3, OtherEventInv

LEMMA NewChatInv == ASSUME Inv, NEW t \in Tasks, NewChat(t) PROVE Inv'
<1> DEFINE task == [NoTask EXCEPT !.kind = "new", !.at = "create"]
<1>1. Start(t, task) /\ UNCHANGED sending /\ Show(NoPacket, NoPacket)
  BY DEF NewChat, CloseChat
<1>0. task = [NoTask EXCEPT !.kind = "new", !.at = "create"]
  OBVIOUS
<1> HIDE DEF task
<1>2. /\ task.kind = "new" /\ task.at = "create" /\ task.s = None /\ task.lost = FALSE /\ IsTask(task)
  <2>1. /\ task.kind = "new" /\ task.at = "create" /\ task.s = None /\ task.lost = FALSE
    BY <1>0 DEF NoTask
  <2>2. IsTask(task)
    BY <1>0, <2>1 DEF NoTask, IsTask, Kinds, Places, AtServer
  <2> QED
    BY <2>1, <2>2
<1>3. WellPlaced(task) /\ ~Active(task)
  BY <1>2 DEF WellPlaced, Requests, AtServer, Active
<1> QED
  BY <1>1, <1>2, <1>3, OtherEventInv

LEMMA DeleteInv == ASSUME Inv, NEW t \in Tasks, Delete(t) PROVE Inv'
<1>1. PICK s \in chats :
         /\ Start(t, [NoTask EXCEPT !.kind = "delete", !.at = "archive", !.s = s, !.from = open])
         /\ UNCHANGED <<server, view>>
  BY DEF Delete
<1> DEFINE task == [NoTask EXCEPT !.kind = "delete", !.at = "archive", !.s = s, !.from = open]
<1>0. task = [NoTask EXCEPT !.kind = "delete", !.at = "archive", !.s = s, !.from = open]
  OBVIOUS
<1> HIDE DEF task
<1>2. /\ task.kind = "delete" /\ task.at = "archive" /\ task.lost = FALSE /\ IsTask(task)
  <2>1. /\ task.kind = "delete" /\ task.at = "archive" /\ task.lost = FALSE
    BY <1>0 DEF NoTask
  <2>2. IsTask(task)
    BY <1>0, <2>1 DEF NoTask, IsTask, Kinds, Places, AtServer
  <2> QED
    BY <2>1, <2>2
<1>3. WellPlaced(task) /\ ~Active(task)
  BY <1>2 DEF WellPlaced, Requests, AtServer, Active
<1>4. UNCHANGED <<packet, box>> /\ UNCHANGED sending
  BY <1>1 DEF view
<1> QED
  BY <1>1, <1>2, <1>3, <1>4, OtherEventInv DEF task

LEMMA UserInv == ASSUME Inv, NEW t \in Tasks, User(t) PROVE Inv'
BY SubmitInv, SubmitPacketInv, RetryInv, SelectInv, NewChatInv, DeleteInv, RecoverInv DEF User

-----------------------------------------------------------------------------
(* What follows the awaits: the task goes on, with another place and perhaps   *)
(* another result                                                              *)

OnlyTask(t) ==
    /\ tasks' = [u \in Tasks |-> tasks'[u]]
    /\ \A u \in Tasks : u # t => tasks'[u] = tasks[u]

\* With a reply
LEMMA WithReply ==
    ASSUME TypeOK, NEW t \in Tasks, NEW at \in Places, NEW reply,
           tasks' = [tasks EXCEPT ![t].at = at, ![t].reply = reply]
    PROVE  /\ OnlyTask(t) /\ IsTask(tasks'[t])
           /\ tasks'[t].at = at
           /\ tasks'[t].kind = tasks[t].kind /\ tasks'[t].s = tasks[t].s
           /\ tasks'[t].answers = tasks[t].answers
           /\ tasks'[t].lost = tasks[t].lost
<1>1. tasks = [u \in Tasks |-> tasks[u]] /\ IsTask(tasks[t])
  BY DEF TypeOK
<1>2. OnlyTask(t)
  BY <1>1 DEF OnlyTask
<1>3. /\ tasks'[t].at = at
           /\ tasks'[t].kind = tasks[t].kind /\ tasks'[t].s = tasks[t].s
           /\ tasks'[t].answers = tasks[t].answers
           /\ tasks'[t].lost = tasks[t].lost
  BY <1>1 DEF IsTask
<1>4. IsTask(tasks'[t])
  BY <1>1, <1>3 DEF IsTask, Places, AtServer, Kinds
<1> QED
  BY <1>2, <1>3, <1>4

\* With an error
LEMMA WithError ==
    ASSUME TypeOK, NEW t \in Tasks, NEW at \in Places, NEW err,
           tasks' = [tasks EXCEPT ![t].at = at, ![t].err = err]
    PROVE  /\ OnlyTask(t) /\ IsTask(tasks'[t])
           /\ tasks'[t].at = at
           /\ tasks'[t].kind = tasks[t].kind /\ tasks'[t].s = tasks[t].s
           /\ tasks'[t].answers = tasks[t].answers
           /\ tasks'[t].lost = tasks[t].lost
<1>1. tasks = [u \in Tasks |-> tasks[u]] /\ IsTask(tasks[t])
  BY DEF TypeOK
<1>2. OnlyTask(t)
  BY <1>1 DEF OnlyTask
<1>3. /\ tasks'[t].at = at
           /\ tasks'[t].kind = tasks[t].kind /\ tasks'[t].s = tasks[t].s
           /\ tasks'[t].answers = tasks[t].answers
           /\ tasks'[t].lost = tasks[t].lost
  BY <1>1 DEF IsTask
<1>4. IsTask(tasks'[t])
  BY <1>1, <1>3 DEF IsTask, Places, AtServer, Kinds
<1> QED
  BY <1>2, <1>3, <1>4

\* With neither
LEMMA WithPlace ==
    ASSUME TypeOK, NEW t \in Tasks, NEW at \in Places,
           tasks' = [tasks EXCEPT ![t].at = at]
    PROVE  /\ OnlyTask(t) /\ IsTask(tasks'[t])
           /\ tasks'[t].at = at
           /\ tasks'[t].kind = tasks[t].kind /\ tasks'[t].s = tasks[t].s
           /\ tasks'[t].answers = tasks[t].answers
           /\ tasks'[t].lost = tasks[t].lost
<1>1. tasks = [u \in Tasks |-> tasks[u]] /\ IsTask(tasks[t])
  BY DEF TypeOK
<1>2. OnlyTask(t)
  BY <1>1 DEF OnlyTask
<1>3. /\ tasks'[t].at = at
           /\ tasks'[t].kind = tasks[t].kind /\ tasks'[t].s = tasks[t].s
           /\ tasks'[t].answers = tasks[t].answers
           /\ tasks'[t].lost = tasks[t].lost
  BY <1>1 DEF IsTask
<1>4. IsTask(tasks'[t])
  BY <1>1, <1>3 DEF IsTask, Places, AtServer, Kinds
<1> QED
  BY <1>2, <1>3, <1>4

\* Its reply is lost.
LEMMA WithoutReply ==
    ASSUME TypeOK, NEW t \in Tasks, 
           tasks' = [tasks EXCEPT ![t].lost = TRUE]
    PROVE  /\ OnlyTask(t) /\ IsTask(tasks'[t])
           /\ tasks'[t].at = tasks[t].at /\ tasks'[t].lost = TRUE
           /\ tasks'[t].kind = tasks[t].kind /\ tasks'[t].s = tasks[t].s
           /\ tasks'[t].answers = tasks[t].answers
<1>1. tasks = [u \in Tasks |-> tasks[u]] /\ IsTask(tasks[t])
  BY DEF TypeOK
<1>2. OnlyTask(t)
  BY <1>1 DEF OnlyTask
<1>3. /\ tasks'[t].at = tasks[t].at /\ tasks'[t].lost = TRUE
           /\ tasks'[t].kind = tasks[t].kind /\ tasks'[t].s = tasks[t].s
           /\ tasks'[t].answers = tasks[t].answers
  BY <1>1 DEF IsTask
<1>4. IsTask(tasks'[t])
  BY <1>1, <1>3 DEF IsTask, Places, AtServer, Kinds
<1> QED
  BY <1>2, <1>3, <1>4

\* It goes on by loading a session.
LEMMA AsLoad ==
    ASSUME TypeOK, NEW t \in Tasks, NEW s,
           tasks' = [tasks EXCEPT ![t].kind = "load", ![t].at = "load", ![t].s = s]
    PROVE  /\ OnlyTask(t) /\ IsTask(tasks'[t])
           /\ tasks'[t].at = "load" /\ tasks'[t].kind = "load" /\ tasks'[t].s = s
           /\ tasks'[t].lost = tasks[t].lost
<1>1. tasks = [u \in Tasks |-> tasks[u]] /\ IsTask(tasks[t])
  BY DEF TypeOK
<1>2. OnlyTask(t)
  BY <1>1 DEF OnlyTask
<1>3. /\ tasks'[t].at = "load" /\ tasks'[t].kind = "load" /\ tasks'[t].s = s
           /\ tasks'[t].lost = tasks[t].lost
  BY <1>1 DEF IsTask
<1>4. IsTask(tasks'[t])
  BY <1>1, <1>3 DEF IsTask, Places, AtServer, Kinds
<1> QED
  BY <1>2, <1>3, <1>4

LEMMA TaskStep ==
    ASSUME TypeOK, NEW t \in Tasks, OnlyTask(t), IsTask(tasks'[t]), WellPlaced(tasks'[t]),
           drafts' = [q \in ToSet(Questions) |-> drafts'[q]], index' \in DOMAIN Questions
    PROVE  TypeOK'
<1>1. \A u \in Tasks : IsTask(tasks'[u]) /\ WellPlaced(tasks'[u])
  BY DEF TypeOK, OnlyTask
<1> QED
  BY <1>1 DEF TypeOK, OnlyTask, IsTask, WellPlaced, GivenToPacket

\* The view keeps the box, or shows what it was told.
LEMMA BoxOrShow ==
    ASSUME Inv, UNCHANGED <<packet, box>> \/ \E p, g : Show(p, g)
    PROVE  /\ BoxInv'
           /\ drafts' = [q \in ToSet(Questions) |-> drafts'[q]] /\ index' \in DOMAIN Questions
<1>1. CASE UNCHANGED <<packet, box>>
  BY <1>1, SameBox, SameBoxType DEF Inv, box
<1>2. CASE \E p, g : Show(p, g)
  BY <1>2, ShowInv DEF Inv
<1> QED
  BY <1>1, <1>2

\* A step of a task that begins and ends no request
LEMMA QuietStep ==
    ASSUME Inv, NEW t \in Tasks, OnlyTask(t), IsTask(tasks'[t]), WellPlaced(tasks'[t]),
           UNCHANGED sending,
           Active(tasks'[t]) => Active(tasks[t]) /\ tasks'[t].s = tasks[t].s,
           UNCHANGED <<packet, box>> \/ \E p, g : Show(p, g)
    PROVE  Inv'
<1>1. TypeOK'
  BY BoxOrShow, TaskStep DEF Inv
<1>2. SendingInv'
  BY GoesOn DEF Inv, OnlyTask
<1> QED
  BY <1>1, <1>2, BoxOrShow DEF Inv

\* A step of a task that ends its request
LEMMA EndingStep ==
    ASSUME Inv, NEW t \in Tasks, OnlyTask(t), IsTask(tasks'[t]), WellPlaced(tasks'[t]),
           sending' = Done(t), ~Active(tasks'[t]), Active(tasks[t]) \/ tasks[t].s = None,
           UNCHANGED <<packet, box>>
    PROVE  Inv'
<1>1. TypeOK'
  BY BoxOrShow, TaskStep DEF Inv
<1>2. SendingInv'
  BY RequestEnds DEF Inv, OnlyTask, Done
<1> QED
  BY <1>1, <1>2, BoxOrShow DEF Inv

LEMMA TaskIsWell ==
    ASSUME Inv, NEW t \in Tasks
    PROVE  TypeOK /\ IsTask(tasks[t]) /\ WellPlaced(tasks[t])
BY DEF Inv, TypeOK

LEMMA ServeInv == ASSUME Inv, NEW t \in Tasks, Serve(t) PROVE Inv'
<1>1. /\ tasks[t].at = "post" /\ UNCHANGED <<packet, box>> /\ UNCHANGED sending
      /\ \/ \E e : tasks' = [tasks EXCEPT ![t].at = "replied", ![t].err = e]
         \/ tasks' = [tasks EXCEPT ![t].at = "running"]
  BY DEF Serve, At, view
<1>2. /\ OnlyTask(t) /\ IsTask(tasks'[t]) /\ tasks'[t].at \in {"replied", "running"}
      /\ tasks'[t].kind = tasks[t].kind /\ tasks'[t].s = tasks[t].s
      /\ tasks'[t].answers = tasks[t].answers /\ tasks'[t].lost = tasks[t].lost
  <2>1. "replied" \in Places /\ "running" \in Places
    BY DEF Places, AtServer
  <2> QED
    BY <1>1, <2>1, TaskIsWell, WithError, WithPlace
<1>3. WellPlaced(tasks'[t]) /\ (Active(tasks'[t]) => Active(tasks[t]))
  BY <1>1, <1>2, TaskIsWell DEF WellPlaced, Active, AtServer
<1> QED
  BY <1>1, <1>2, <1>3, QuietStep

LEMMA FinishInv == ASSUME Inv, NEW t \in Tasks, Finish(t) PROVE Inv'
<1>1. /\ tasks[t].at = "running" /\ UNCHANGED <<packet, box>> /\ UNCHANGED sending
      /\ \/ \E e : tasks' = [tasks EXCEPT ![t].at = "replied", ![t].reply = e]
         \/ \E e : tasks' = [tasks EXCEPT ![t].at = "replied", ![t].err = e]
  BY DEF Finish, At, view
<1>2. /\ OnlyTask(t) /\ IsTask(tasks'[t]) /\ tasks'[t].at = "replied"
      /\ tasks'[t].kind = tasks[t].kind /\ tasks'[t].s = tasks[t].s
      /\ tasks'[t].answers = tasks[t].answers /\ tasks'[t].lost = tasks[t].lost
  <2>1. "replied" \in Places
    BY DEF Places, AtServer
  <2> QED
    BY <1>1, <2>1, TaskIsWell, WithError, WithReply
<1>3. WellPlaced(tasks'[t]) /\ (Active(tasks'[t]) => Active(tasks[t]))
  BY <1>1, <1>2, TaskIsWell DEF WellPlaced, Active, AtServer
<1> QED
  BY <1>1, <1>2, <1>3, QuietStep

\* What a task has after Goes
LEMMA GoesTo ==
    ASSUME Inv, NEW t \in Tasks, NEW at \in Places, Goes(t, at)
    PROVE  /\ OnlyTask(t) /\ IsTask(tasks'[t]) /\ tasks'[t].at = at
           /\ tasks'[t].kind = tasks[t].kind /\ tasks'[t].s = tasks[t].s
           /\ tasks'[t].answers = tasks[t].answers /\ tasks'[t].lost = tasks[t].lost
           /\ IsTask(tasks[t]) /\ WellPlaced(tasks[t])
BY TaskIsWell, WithReply DEF Goes

LEMMA PlacesAre == {"load", "loaded", "list", "done"} \subseteq Places
BY DEF Places

LEMMA CreatedInv == ASSUME Inv, NEW t \in Tasks, Created(t) PROVE Inv'
<1>1. PICK s \in Sessions :
         /\ tasks[t].at = "create" /\ \A u \in Tasks : tasks[u].s # s
         /\ IF tasks[t].kind = "new"
            THEN Goes(t, "list") /\ Show(NoPacket, NoPacket) /\ UNCHANGED sending
            ELSE /\ tasks' = [tasks EXCEPT ![t].at = "post", ![t].s = s]
                 /\ sending' = sending \cup {s} /\ UNCHANGED <<packet, progress, box>>
  BY DEF Created, At
<1>2. TypeOK /\ SendingInv /\ IsTask(tasks[t]) /\ WellPlaced(tasks[t])
  BY TaskIsWell DEF Inv
<1>3. CASE tasks[t].kind = "new"
  <2>1. Goes(t, "list") /\ Show(NoPacket, NoPacket) /\ UNCHANGED sending
    BY <1>1, <1>3
  <2>2. /\ OnlyTask(t) /\ IsTask(tasks'[t]) /\ tasks'[t].at = "list"
        /\ tasks'[t].kind = "new" /\ tasks'[t].s = tasks[t].s /\ tasks'[t].lost = tasks[t].lost
    BY <2>1, <1>3, GoesTo, PlacesAre
  <2>3. WellPlaced(tasks'[t]) /\ ~Active(tasks'[t])
    BY <2>2, <1>1, <1>2, <1>3 DEF WellPlaced, Active, Requests, AtServer
  <2> QED
    BY <2>1, <2>2, <2>3, QuietStep
<1>4. CASE tasks[t].kind # "new"
  <2>1. /\ tasks' = [tasks EXCEPT ![t].at = "post", ![t].s = s]
        /\ sending' = sending \cup {s} /\ UNCHANGED <<packet, box>>
    BY <1>1, <1>4
  <2>2. /\ OnlyTask(t) /\ IsTask(tasks'[t]) /\ tasks'[t].at = "post" /\ tasks'[t].s = s
        /\ tasks'[t].kind = tasks[t].kind /\ tasks'[t].lost = tasks[t].lost
    <3>1. tasks = [u \in Tasks |-> tasks[u]] /\ tasks' = [tasks EXCEPT ![t].at = "post", ![t].s = s]
      BY <2>1, <1>2 DEF TypeOK
    <3>2. OnlyTask(t)
      BY <3>1 DEF OnlyTask
    <3>3. /\ tasks'[t].at = "post" /\ tasks'[t].s = s
          /\ tasks'[t].kind = tasks[t].kind /\ tasks'[t].lost = tasks[t].lost
      BY <3>1, <1>2 DEF IsTask
    <3>4. IsTask(tasks'[t])
      BY <3>1, <3>3, <1>2 DEF IsTask, Places, AtServer, Kinds
    <3> QED
      BY <3>2, <3>3, <3>4
  <2>3. WellPlaced(tasks'[t])
    BY <2>2, <1>1, <1>2, <1>4 DEF WellPlaced, Requests, AtServer
  <2>4. SendingInv'
    <3>1. s # None /\ sending' = sending \cup {tasks'[t].s} /\ tasks'[t].s = s
      BY <2>1, <2>2, NoneIsNoKind
    <3>2. \A u \in Tasks : u # t /\ Active(tasks[u]) => tasks[u].s # tasks'[t].s
      BY <1>1, <3>1
    <3>3. \A u \in Tasks : u # t => tasks'[u] = tasks[u]
      BY <2>2 DEF OnlyTask
    <3> QED
      BY <3>1, <3>2, <3>3, <1>2, RequestBegins
  <2> QED
    BY <2>1, <2>2, <2>3, <2>4, <1>2, TaskStep, BoxOrShow DEF Inv
<1> QED
  BY <1>3, <1>4

LEMMA RepliedInv == ASSUME Inv, NEW t \in Tasks, Replied(t) PROVE Inv'
<1>1. /\ tasks[t].at = "replied" /\ Goes(t, "load") /\ UNCHANGED sending
      /\ UNCHANGED <<packet, box>> \/ \E p, g : Show(p, g)
  BY DEF Replied, InReply, At
<1>2. ~tasks[t].lost
  BY DEF Replied, InReply
<1>3. WellPlaced(tasks'[t]) /\ (Active(tasks'[t]) => Active(tasks[t]))
  BY <1>1, <1>2, GoesTo, PlacesAre DEF WellPlaced, Active, Requests, AtServer
<1> QED
  BY <1>1, <1>3, GoesTo, PlacesAre, QuietStep

LEMMA RefusedInv == ASSUME Inv, NEW t \in Tasks, Refused(t) PROVE Inv'
<1>1. /\ tasks[t].at = "replied" /\ ~tasks[t].lost /\ Goes(t, "done") /\ sending' = Done(t)
      /\ UNCHANGED <<packet, box>>
  BY DEF Refused, InReply, At, Ends
<1>2. WellPlaced(tasks'[t]) /\ ~Active(tasks'[t]) /\ Active(tasks[t])
  BY <1>1, GoesTo, PlacesAre DEF WellPlaced, Active, Requests, AtServer
<1> QED
  BY <1>1, <1>2, GoesTo, PlacesAre, EndingStep

LEMMA ReadInv == ASSUME Inv, NEW t \in Tasks, Read(t) PROVE Inv'
<1>1. /\ tasks[t].at = "load" /\ UNCHANGED <<packet, box>> /\ UNCHANGED sending
      /\ tasks' = [tasks EXCEPT ![t].at = "loaded", ![t].reply = Detail(tasks[t].s)]
  BY DEF Read, At, view
<1>2. /\ OnlyTask(t) /\ IsTask(tasks'[t]) /\ tasks'[t].at = "loaded"
      /\ tasks'[t].kind = tasks[t].kind /\ tasks'[t].s = tasks[t].s
      /\ tasks'[t].answers = tasks[t].answers /\ tasks'[t].lost = tasks[t].lost
  BY <1>1, TaskIsWell, WithReply, PlacesAre
<1>3. WellPlaced(tasks'[t]) /\ (Active(tasks'[t]) => Active(tasks[t]))
  BY <1>1, <1>2, TaskIsWell DEF WellPlaced, Active, Requests, AtServer
<1> QED
  BY <1>1, <1>2, <1>3, QuietStep

LEMMA AfterLoadInv ==
    ASSUME Inv, NEW t \in Tasks, tasks[t].at \in {"load", "loaded"}, AfterLoad(t), UNCHANGED sending,
           UNCHANGED <<packet, box>> \/ \E p, g : Show(p, g)
    PROVE  Inv'
<1> DEFINE at == IF tasks[t].kind \in {"message", "answer"} THEN "list" ELSE "done"
<1>1. Goes(t, at) /\ at \in Places
  BY PlacesAre DEF AfterLoad
<1>2. /\ OnlyTask(t) /\ IsTask(tasks'[t]) /\ tasks'[t].at = at
      /\ tasks'[t].kind = tasks[t].kind /\ tasks'[t].s = tasks[t].s
      /\ tasks'[t].answers = tasks[t].answers /\ tasks'[t].lost = tasks[t].lost
      /\ IsTask(tasks[t]) /\ WellPlaced(tasks[t])
  <2> HIDE DEF at
  <2> QED
    BY <1>1, GoesTo
<1>3. WellPlaced(tasks'[t]) /\ (Active(tasks'[t]) => Active(tasks[t]))
  BY <1>2 DEF WellPlaced, Active, Requests, AtServer
<1> QED
  BY <1>2, <1>3, QuietStep

LEMMA LoadedInv == ASSUME Inv, NEW t \in Tasks, Loaded(t) PROVE Inv'
<1>1. /\ tasks[t].at = "loaded" /\ AfterLoad(t) /\ UNCHANGED sending
      /\ UNCHANGED <<packet, box>> \/ \E p, g : Show(p, g)
  BY DEF Loaded, At
<1> QED
  BY <1>1, AfterLoadInv

LEMMA LoadFailsInv == ASSUME Inv, NEW t \in Tasks, LoadFails(t) PROVE Inv'
<1>1. /\ tasks[t].at = "load" /\ AfterLoad(t) /\ UNCHANGED sending /\ UNCHANGED <<packet, box>>
  BY DEF LoadFails, At, view
<1> QED
  BY <1>1, AfterLoadInv

LEMMA ListedInv == ASSUME Inv, NEW t \in Tasks, Listed(t) PROVE Inv'
<1>1. /\ tasks[t].at = "list" /\ Goes(t, "done") /\ sending' = Done(t) /\ UNCHANGED <<packet, box>>
  BY DEF Listed, At, Ends
<1>2. /\ WellPlaced(tasks'[t]) /\ ~Active(tasks'[t])
      /\ Active(tasks[t]) \/ tasks[t].s = None
  BY <1>1, GoesTo, PlacesAre DEF WellPlaced, Active, Requests, AtServer
<1> QED
  BY <1>1, <1>2, GoesTo, PlacesAre, EndingStep

LEMMA ArchivedInv == ASSUME Inv, NEW t \in Tasks, Archived(t) PROVE Inv'
<1>1. /\ tasks[t].at = "archive" /\ UNCHANGED sending
      /\ UNCHANGED <<packet, box>> \/ \E p, g : Show(p, g)
      /\ \/ Goes(t, "done")
         \/ \E s : tasks' = [tasks EXCEPT ![t].kind = "load", ![t].at = "load", ![t].s = s]
  BY DEF Archived, At, view, CloseChat, OpenChat
<1>2. CASE Goes(t, "done")
  <2>1. WellPlaced(tasks'[t]) /\ ~Active(tasks'[t])
    BY <1>1, <1>2, GoesTo, PlacesAre DEF WellPlaced, Active, Requests, AtServer
  <2> QED
    BY <1>1, <1>2, <2>1, GoesTo, PlacesAre, QuietStep
<1>3. CASE \E s : tasks' = [tasks EXCEPT ![t].kind = "load", ![t].at = "load", ![t].s = s]
  <2>1. /\ OnlyTask(t) /\ IsTask(tasks'[t]) /\ tasks'[t].at = "load"
        /\ tasks'[t].kind = "load" /\ tasks'[t].lost = tasks[t].lost
    BY <1>3, TaskIsWell, AsLoad
  <2>2. WellPlaced(tasks'[t]) /\ ~Active(tasks'[t])
    BY <1>1, <2>1, TaskIsWell DEF WellPlaced, Active, Requests, AtServer
  <2> QED
    BY <1>1, <2>1, <2>2, QuietStep
<1> QED
  BY <1>1, <1>2, <1>3

LEMMA LoseInv == ASSUME Inv, NEW t \in Tasks, Lose(t) PROVE Inv'
<1>1. /\ tasks[t].at \in {"post", "running"} /\ ~tasks[t].lost /\ sending' = Done(t)
      /\ tasks' = [tasks EXCEPT ![t].lost = TRUE] /\ UNCHANGED <<packet, box>>
  BY DEF Lose
<1>2. /\ OnlyTask(t) /\ IsTask(tasks'[t]) /\ tasks'[t].at = tasks[t].at /\ tasks'[t].lost = TRUE
      /\ tasks'[t].kind = tasks[t].kind /\ tasks'[t].s = tasks[t].s
      /\ tasks'[t].answers = tasks[t].answers
  BY <1>1, TaskIsWell, WithoutReply
<1>3. WellPlaced(tasks'[t]) /\ ~Active(tasks'[t]) /\ Active(tasks[t])
  BY <1>1, <1>2, TaskIsWell DEF WellPlaced, Active, Requests, AtServer
<1> QED
  BY <1>1, <1>2, <1>3, EndingStep

LEMMA PollInv == Inv /\ (StartPoll \/ PollRead \/ PollDone) => Inv'
<1> SUFFICES ASSUME Inv, StartPoll \/ PollRead \/ PollDone PROVE Inv'
  OBVIOUS
<1>1. /\ UNCHANGED <<tasks, sending>>
      /\ UNCHANGED <<packet, box>> \/ \E p, g : Show(p, g)
  BY DEF StartPoll, PollRead, PollDone, view
<1> QED
  BY <1>1, BoxOrShow, SameTasks, SameSending DEF Inv

-----------------------------------------------------------------------------
(* The theorems *)

LEMMA InitInv == Init => Inv
<1> SUFFICES ASSUME Init PROVE Inv
  OBVIOUS
<1>1. /\ tasks = [t \in Tasks |-> NoTask] /\ drafts = [q \in ToSet(Questions) |-> NoPacket]
      /\ index = 1 /\ last = None /\ sending = {} /\ packet = NoPacket
  BY DEF Init, NoDrafts
<1>2. /\ NoTask.kind = None /\ NoTask.at = "none" /\ NoTask.lost = FALSE
      /\ IsTask(NoTask)
  BY DEF NoTask, IsTask, Places
<1>3. WellPlaced(NoTask) /\ ~Active(NoTask)
  BY <1>2, NoneIsNoKind DEF WellPlaced, Active, Requests, AtServer, Kinds
<1>4. TypeOK
  BY <1>1, <1>2, <1>3, QuestionsAreListed DEF TypeOK
<1>5. SendingInv
  BY <1>1, <1>3 DEF SendingInv
<1>6. \A i \in DOMAIN Questions : i \in Nat /\ ~(i < 1)
  BY QuestionsAreListed
<1>7. BoxInv
  BY <1>1, <1>6 DEF BoxInv
<1> QED
  BY <1>4, <1>5, <1>7 DEF Inv

LEMMA StutterInv == Inv /\ UNCHANGED vars => Inv'
<1> SUFFICES ASSUME Inv, UNCHANGED vars PROVE Inv'
  OBVIOUS
<1>1. UNCHANGED <<tasks, sending>> /\ UNCHANGED <<packet, box>>
  BY DEF vars, view
<1> QED
  BY <1>1, BoxOrShow, SameTasks, SameSending DEF Inv

LEMMA StepInv ==
    ASSUME Inv, NEW t \in Tasks, Step(t) \/ Fault(t)
    PROVE  Inv'
BY ServeInv, FinishInv, CreatedInv, RepliedInv, RefusedInv, ReadInv, LoadedInv, ListedInv,
   ArchivedInv, LoadFailsInv, LoseInv DEF Step, Fault

\* The handlers of the view are where they may be, a session sends as long as it
\* has its one request, and drafts are for the packet that is shown.
THEOREM ClientInvariant == Spec => []Inv
<1>1. Inv /\ [Next]_vars => Inv'
  <2> SUFFICES ASSUME Inv, [Next]_vars PROVE Inv'
    OBVIOUS
  <2>1. CASE \E t \in Tasks : User(t) \/ Step(t) \/ Fault(t)
    BY <2>1, UserInv, StepInv
  <2>2. CASE Draft \/ Turn
    BY <2>2, DraftInv, TurnInv
  <2>3. CASE StartPoll \/ PollRead \/ PollDone
    BY <2>3, PollInv
  <2>4. CASE UNCHANGED vars
    BY <2>4, StutterInv
  <2> QED
    BY <2>1, <2>2, <2>3, <2>4 DEF Next
<1> QED
  BY InitInv, <1>1, PTL DEF Spec

\* Whatever polls, loads and replies do to the box while the user types, turns its
\* pages and sends, the answers under the id of a packet were given to that packet.
THEOREM AnswersAreGiven == Spec => []AnswersAreForTheirPacket
<1>1. Inv => AnswersAreForTheirPacket
  BY DEF Inv, TypeOK, WellPlaced, GivenToPacket, AnswersAreForTheirPacket
<1> QED
  BY <1>1, ClientInvariant, PTL

\* The server works on one request of a session at a time, unless the client gave
\* up one of them.
THEOREM OneRequestHolds == Spec => []OneRequestPerSession
<1>1. Inv => OneRequestPerSession
  <2> SUFFICES ASSUME Inv, NEW t \in Tasks, NEW u \in Tasks, t # u,
                      {tasks[t].at, tasks[u].at} \subseteq {"post", "running"},
                      tasks[t].s = tasks[u].s, ~tasks[t].lost, ~tasks[u].lost
               PROVE  FALSE
    BY DEF OneRequestPerSession, Inv, TypeOK, IsTask
  <2>1. Active(tasks[t]) /\ Active(tasks[u])
    BY TaskIsWell DEF WellPlaced, Active, AtServer
  <2> QED
    BY <2>1 DEF Inv, SendingInv
<1> QED
  BY <1>1, ClientInvariant, PTL

LEMMA OthersStay ==
    ASSUME Inv, NEW t \in Tasks, open # None, open' # open,
           User(t) \/ Step(t) \/ Fault(t)
    PROVE  tasks'[t] # tasks[t] /\ tasks[t].at \in {"none", "create", "archive"}
<1>1. TypeOK /\ IsTask(tasks[t]) /\ NoTask.at = "none"
  BY TaskIsWell DEF NoTask
<1>2. CASE User(t)
  <2>1. Select(t) \/ NewChat(t)
    BY <1>2 DEF User, Submit, SubmitPacket, Retry, SendAnswers, Delete, Recover, view
  <2>2. PICK task : Start(t, task) /\ task.at \in {"load", "create"}
    <3>1. \A s : [NoTask EXCEPT !.kind = "load", !.at = "load", !.s = s].at = "load"
      BY DEF NoTask
    <3>2. [NoTask EXCEPT !.kind = "new", !.at = "create"].at = "create"
      BY DEF NoTask
    <3> QED
      BY <2>1, <3>1, <3>2 DEF Select, NewChat
  <2>3. tasks[t] = NoTask /\ tasks'[t] = task
    BY <2>2, <1>1 DEF Start, TypeOK
  <2> QED
    BY <2>2, <2>3, <1>1
<1>3. CASE Step(t) \/ Fault(t)
  <2>1. Created(t) \/ Archived(t)
    BY <1>3 DEF Step, Fault, Serve, Finish, Replied, Refused, Read, Loaded, Wanted, Listed, LoadFails,
                Lose, view
  <2>2. /\ tasks[t].at \in {"create", "archive"}
        /\ \/ \E at \in {"list", "done"} : Goes(t, at)
           \/ \E s : tasks' = [tasks EXCEPT ![t].at = "post", ![t].s = s]
           \/ \E s : tasks' = [tasks EXCEPT ![t].kind = "load", ![t].at = "load", ![t].s = s]
    BY <2>1 DEF Created, Archived, At
  <2>3. tasks'[t].at \in {"list", "done", "post", "load"}
    <3>1. t \in DOMAIN tasks /\ "at" \in DOMAIN tasks[t] /\ "s" \in DOMAIN tasks[t]
      BY <1>1 DEF TypeOK, IsTask
    <3>2. CASE \E at \in {"list", "done"} : Goes(t, at)
      BY <3>1, <3>2 DEF Goes
    <3>3. CASE \/ \E s : tasks' = [tasks EXCEPT ![t].at = "post", ![t].s = s]
               \/ \E s : tasks' = [tasks EXCEPT ![t].kind = "load", ![t].at = "load", ![t].s = s]
      BY <3>1, <3>3
    <3> QED
      BY <2>2, <3>2, <3>3
  <2> QED
    BY <2>2, <2>3
<1> QED
  BY <1>2, <1>3

\* The reply, the reload or the poll of a chat never takes the place of another one.
THEOREM ChatStaysOpen == Spec => StaysInChat
<1>1. Inv /\ [Next]_vars =>
          [(open # None /\ open' # open) =>
              \E t \in Tasks : tasks'[t] # tasks[t] /\ tasks[t].at \in {"none", "create", "archive"}]_vars
  <2> SUFFICES ASSUME Inv, [Next]_vars, open # None, open' # open
               PROVE  \E t \in Tasks : /\ tasks'[t] # tasks[t]
                                       /\ tasks[t].at \in {"none", "create", "archive"}
    OBVIOUS
  <2>1. \E t \in Tasks : User(t) \/ Step(t) \/ Fault(t)
    BY DEF Next, vars, view, Draft, Turn, StartPoll, PollRead, PollDone
  <2> QED
    BY <2>1, OthersStay
<1> QED
  BY <1>1, ClientInvariant, PTL DEF Spec, StaysInChat
=============================================================================
