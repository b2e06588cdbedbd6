------------------------------ MODULE ChatProofs ------------------------------
(***************************************************************************)
(* Proofs about ChatRuntime, for any set of workers, any requests, any     *)
(* bounds and any questions.                                               *)
(***************************************************************************)
EXTENDS ChatRuntime, TLAPS

\* The types of what the store's operators build.
LEMMA WrittenType ==
    ASSUME StoreTypeOK,
           NEW f \in Frames,
           NEW status \in {"absent", "interrupted", "completed", "error"},
           NEW packet \in Packets \cup {NoPacket},
           NEW answered \in SUBSET Questions
    PROVE  Written(f, status, packet, answered) \in [Frames -> Frame]
<1>1. MaxFrames \in Nat /\ MaxFrames \in 0 .. MaxFrames
  BY StoreAssumption
<1>2. ASSUME NEW g \in Frames
      PROVE  Written(f, status, packet, answered)[g] \in Frame
  <2>1. frames[g] \in Frame /\ frames[f] \in Frame
    BY DEF StoreTypeOK
  <2>2. frames[g].rank \in 0 .. MaxFrames /\ frames[f].rank \in 0 .. MaxFrames
    BY <2>1 DEF Frame
  <2>3. frames[g].rank > frames[f].rank => frames[g].rank - 1 \in 0 .. MaxFrames
    BY <1>1, <2>2
  <2> QED
    BY <1>1, <2>1, <2>3 DEF Written, Frame
<1> QED
  BY <1>2 DEF Written

LEMMA SyncType ==
    ASSUME StoreTypeOK, NEW fs, SyncActive(fs)
    PROVE  row' \in Row
<1>1. PICK f \in LatestInterrupted(fs) : row' = [row EXCEPT !.active = f]
  BY DEF SyncActive
<1>2. f \in Frames \cup {NoFrame}
  BY <1>1 DEF LatestInterrupted, Interrupted
<1> QED
  BY <1>1, <1>2 DEF StoreTypeOK, Row

LEMMA SaveFrameType ==
    ASSUME StoreTypeOK,
           NEW f \in Frames,
           NEW status \in {"absent", "interrupted", "completed", "error"},
           NEW packet \in Packets \cup {NoPacket},
           NEW answered \in SUBSET Questions,
           SaveFrame(f, status, packet, answered)
    PROVE  row' \in Row /\ frames' \in [Frames -> Frame]
BY WrittenType, SyncType DEF SaveFrame

LEMMA NewRowType == NewRow \in Row
BY DEF NewRow, Row, Titles

LEMMA FreeType == Free \in Local
BY NewRowType DEF Free, Local, Calls

LEMMA WithMessagesType ==
    ASSUME NEW copy \in Row, NEW ms
    PROVE  WithMessages(copy, ms) \in Row
BY DEF WithMessages, Row

LEMMA PromotedType ==
    ASSUME NEW copy \in Row, NEW p \in Packets
    PROVE  Promoted(copy, p) \in Row
BY DEF Promoted, Row

LEMMA AppendType ==
    ASSUME StoreTypeOK, NEW m, NEW kind \in MessageKinds, NEW fromUser \in BOOLEAN,
           AppendMessage(m, kind, fromUser)
    PROVE  /\ m \in Messages
           /\ row' \in Row
           /\ log' \in [Messages -> MessageKinds \cup {"absent"}]
BY DEF AppendMessage, NextMessage, StoreTypeOK, Row, Titles

\* What a worker that answers knows about its packet, needed for types: once
\* past get_frame it holds a frame and a packet.
Holds(w) ==
    req[w].kind = "answer" /\ req[w].pc \notin {"idle", "get_frame"} =>
        req[w].frame \in Frames /\ req[w].packet \in Packets

TypeInv == TypeOK /\ \A w \in Workers : Holds(w)

Keeps == req' \in [Workers -> Local] /\ \A v \in Workers : Holds(v)'

LEMMA StepKeeps ==
    ASSUME TypeInv, NEW w \in Workers, NEW l \in Local,
           l.kind = "answer" /\ l.pc \notin {"idle", "get_frame"} =>
               l.frame \in Frames /\ l.packet \in Packets,
           req' = [req EXCEPT ![w] = l]
    PROVE  Keeps
BY DEF TypeInv, TypeOK, Holds, Keeps

LEMMA GotoKeeps ==
    ASSUME TypeInv, NEW w \in Workers, NEW pc \in Calls,
           req[w].pc \notin {"idle", "get_frame"}, Goto(w, pc)
    PROVE  Keeps
<1> DEFINE l == [req[w] EXCEPT !.pc = pc]
<1>1. l \in Local /\ req' = [req EXCEPT ![w] = l] /\ req[w] \in Local
  BY DEF Goto, TypeInv, TypeOK, Local
<1>2. l.pc = pc /\ l.kind = req[w].kind /\ l.frame = req[w].frame /\ l.packet = req[w].packet
  BY <1>1 DEF Local
<1> QED
  BY <1>1, <1>2, StepKeeps DEF TypeInv, Holds

LEMMA DropKeeps ==
    ASSUME TypeInv, NEW w \in Workers, NEW pc \in Calls,
           req[w].pc \notin {"idle", "get_frame"}, Drop(w, pc)
    PROVE  Keeps
<1> DEFINE l == [req[w] EXCEPT !.pc = pc, !.row = NewRow, !.listed = {}]
<1>1. l \in Local /\ req' = [req EXCEPT ![w] = l] /\ req[w] \in Local
  BY NewRowType DEF Drop, TypeInv, TypeOK, Local
<1>2. l.pc = pc /\ l.kind = req[w].kind /\ l.frame = req[w].frame /\ l.packet = req[w].packet
  BY <1>1 DEF Local
<1> QED
  BY <1>1, <1>2, StepKeeps DEF TypeInv, Holds

LEMMA ReturnKeeps ==
    ASSUME TypeInv, NEW w \in Workers, Return(w)
    PROVE  Keeps
BY StepKeeps, FreeType DEF Return, Free

\* A step to `pc' that also records what the response carries.
LEMMA ReplyKeeps ==
    ASSUME TypeInv, NEW w \in Workers, NEW pc \in Calls, NEW reply \in {"text", "blank", "packet"},
           req[w].pc \notin {"idle", "get_frame"},
           req' = [req EXCEPT ![w].pc = pc, ![w].reply = reply]
    PROVE  Keeps
<1> DEFINE l == [req[w] EXCEPT !.pc = pc, !.reply = reply]
<1>1. l \in Local /\ req' = [req EXCEPT ![w] = l] /\ req[w] \in Local
  BY DEF TypeInv, TypeOK, Local
<1>2. l.pc = pc /\ l.kind = req[w].kind /\ l.frame = req[w].frame /\ l.packet = req[w].packet
  BY <1>1 DEF Local
<1> QED
  BY <1>1, <1>2, StepKeeps DEF TypeInv, Holds

LEMMA AcceptServed ==
    ASSUME TypeOK, NEW w, NEW kind, Accept(w, kind)
    PROVE  served' \in 0 .. MaxRequests
BY RuntimeAssumption DEF Accept, TypeOK

\* The next state has the right types.
NextTypes ==
    /\ Keeps
    /\ row' \in Row
    /\ log' \in [Messages -> MessageKinds \cup {"absent"}]
    /\ frames' \in [Frames -> Frame]
    /\ process' \in Process
    /\ served' \in 0 .. MaxRequests
    /\ issued' \in SUBSET Packets
    /\ given' \in [Packets -> SUBSET Questions]

-----------------------------------------------------------------------------
\* The types, with what a worker that answers holds, are inductive.
THEOREM TypeInductive == Spec => []TypeInv
<1>1. Init => TypeInv
  BY NewRowType, FreeType, StoreAssumption, RuntimeAssumption
  DEF Init, StoreInit, TypeInv, TypeOK, StoreTypeOK, Frame, Process, Holds, Free
<1>2. TypeInv /\ [Next]_vars => TypeInv'
  <2> SUFFICES ASSUME TypeInv, [Next]_vars
               PROVE  NextTypes
    BY DEF NextTypes, Keeps, TypeInv, TypeOK, StoreTypeOK
  <2>a. TypeOK /\ StoreTypeOK /\ (\A v \in Workers : req[v] \in Local /\ Holds(v)) /\ row \in Row
    BY DEF TypeInv, TypeOK, StoreTypeOK
  <2> USE DEF NextTypes
  <2>1. ASSUME NEW w \in Workers, ReceiveMessage(w)  PROVE NextTypes
    <3> DEFINE l == [Free EXCEPT !.pc = "append", !.kind = "message"]
    <3>1. l \in Local /\ l.kind = "message"
      BY FreeType DEF Free, Local, Calls, RequestKinds
    <3>2. Keeps
      BY <2>1, <3>1, StepKeeps DEF ReceiveMessage
    <3> QED
      BY <2>1, <2>a, <3>2, AcceptServed DEF ReceiveMessage, TypeOK, StoreTypeOK
  <2>2. ASSUME NEW w \in Workers, StoreUserMessage(w)  PROVE NextTypes
    <3>1. Keeps
      BY <2>2, GotoKeeps DEF StoreUserMessage, At, Calls
    <3> QED
      BY <2>2, <2>a, <3>1, AppendType DEF StoreUserMessage, TypeOK, StoreTypeOK, MessageKinds
  <2>3. ASSUME NEW w \in Workers, BeginTurn(w)  PROVE NextTypes
    <3>1. Keeps
      BY <2>3, GotoKeeps DEF BeginTurn, At, Calls
    <3> QED
      BY <2>3, <2>a, <3>1 DEF BeginTurn, BeginProcess, Process, TypeOK, StoreTypeOK
  <2>4. ASSUME NEW w \in Workers, GetSession(w) \/ GetForReply(w)  PROVE NextTypes
    <3>1. PICK pc \in Calls : req' = [req EXCEPT ![w].pc = pc, ![w].row = row]
      BY <2>4 DEF GetSession, GetForReply, Calls
    <3> DEFINE l == [req[w] EXCEPT !.pc = pc, !.row = row]
    <3>2. l \in Local /\ req' = [req EXCEPT ![w] = l]
      BY <3>1, <2>a DEF Local, TypeOK
    <3>3. l.kind = req[w].kind /\ l.frame = req[w].frame /\ l.packet = req[w].packet
      BY <2>a DEF Local
    <3>4. Keeps
      BY <2>4, <2>a, <3>2, <3>3, StepKeeps DEF GetSession, GetForReply, At, Holds
    <3> QED
      BY <2>4, <2>a, <3>4 DEF GetSession, GetForReply, TypeOK, StoreTypeOK
  <2>5. ASSUME NEW w \in Workers, ListMessages(w)  PROVE NextTypes
    <3> DEFINE l == [req[w] EXCEPT !.pc = "save", !.listed = VisibleMessages]
    <3>1. l \in Local /\ req' = [req EXCEPT ![w] = l] /\ l.kind = "message"
      BY ZenonT(60), <2>5, <2>a DEF ListMessages, At, Local, Calls, TypeOK, VisibleMessages
    <3>2. Keeps
      BY <3>1, StepKeeps
    <3> QED
      BY <2>5, <2>a, <3>2 DEF ListMessages, TypeOK, StoreTypeOK
  <2>6. ASSUME NEW w \in Workers, SaveContext(w) \/ SaveReply(w)  PROVE NextTypes
    <3>1. Keeps
      BY <2>6, DropKeeps DEF SaveContext, SaveReply, At, Calls
    <3>2. req[w].row \in Row
      BY <2>a DEF Local
    <3>3. row' \in Row
      BY <2>6, <3>2, WithMessagesType DEF SaveContext, SaveReply, SaveSession
    <3> QED
      BY <2>6, <2>a, <3>1, <3>3 DEF SaveContext, SaveReply, TypeOK, StoreTypeOK
  <2>7. ASSUME NEW w \in Workers, SaveRelatedFrame(w)  PROVE NextTypes
    <3>1. row' \in Row
      BY <2>7, <2>a, SyncType DEF SaveRelatedFrame
    <3>2. Keeps
      BY <2>7, <2>a DEF SaveRelatedFrame, Keeps, TypeOK, Holds
    <3> QED
      BY <2>7, <2>a, <3>1, <3>2 DEF SaveRelatedFrame, TypeOK, StoreTypeOK
  <2>8. ASSUME NEW w \in Workers, RunEnds(w) \/ ParentsEnd(w)  PROVE NextTypes
    <3>1. Keeps
      BY <2>8, ReplyKeeps DEF RunEnds, ParentsEnd, At, Calls
    <3> QED
      BY <2>8, <2>a, <3>1 DEF RunEnds, ParentsEnd, TypeOK, StoreTypeOK
  <2>9. ASSUME NEW w \in Workers, RunInterrupts(w) \/ ParentsInterrupt(w)  PROVE NextTypes
    <3>1. PICK f \in Frames, p \in Packets : NewPacket(p) /\ SaveFrame(f, "interrupted", p, {})
      BY <2>9 DEF RunInterrupts, ParentsInterrupt
    <3>2. row' \in Row /\ frames' \in [Frames -> Frame]
      BY <3>1, <2>a, SaveFrameType
    <3>3. Keeps
      BY <2>9, ReplyKeeps DEF RunInterrupts, ParentsInterrupt, At, Calls
    <3> QED
      BY <2>9, <2>a, <3>1, <3>2, <3>3
      DEF RunInterrupts, ParentsInterrupt, NewPacket, TypeOK, StoreTypeOK
  <2>10. ASSUME NEW w \in Workers, StoreReply(w)  PROVE NextTypes
    <3>1. PICK m \in Messages, kind \in MessageKinds :
            /\ AppendMessage(m, kind, FALSE)
            /\ req' = [req EXCEPT ![w].mine = m,
                         ![w].pc = IF req[w].reply = "text" THEN "get_reply" ELSE "finish"]
      BY <2>10, <2>a DEF StoreReply, MessageKinds, Local
    <3> DEFINE l == [req[w] EXCEPT !.mine = m,
                        !.pc = IF req[w].reply = "text" THEN "get_reply" ELSE "finish"]
    <3>2. l \in Local /\ req' = [req EXCEPT ![w] = l]
      BY ZenonT(60), <3>1, <2>a DEF Local, TypeOK, Calls
    <3>3. l.kind = req[w].kind /\ l.frame = req[w].frame /\ l.packet = req[w].packet
      BY <2>a DEF Local
    <3>4. Keeps
      BY <2>10, <2>a, <3>2, <3>3, StepKeeps DEF StoreReply, At, Holds
    <3> QED
      BY <2>10, <2>a, <3>1, <3>4, AppendType DEF StoreReply, TypeOK, StoreTypeOK
  <2>11. ASSUME NEW w \in Workers, FinishTurn(w) \/ FailTurn(w)  PROVE NextTypes
    <3>1. Keeps
      BY <2>11, ReturnKeeps DEF FinishTurn, FailTurn
    <3>2. \/ process' = [status |-> "waiting_for_user", resumable |-> TRUE]
          \/ process' = [status |-> "completed", resumable |-> FALSE]
          \/ process' = [status |-> "failed", resumable |-> FALSE]
      BY <2>11 DEF FinishTurn, FailTurn, Outcome, FinishProcess
    <3>3. /\ [status |-> "waiting_for_user", resumable |-> TRUE] \in Process
          /\ [status |-> "completed", resumable |-> FALSE] \in Process
          /\ [status |-> "failed", resumable |-> FALSE] \in Process
      BY Zenon DEF Process
    <3>4. process' \in Process
      BY <3>2, <3>3
    <3> QED
      BY <2>11, <2>a, <3>1, <3>4 DEF FinishTurn, FailTurn, TypeOK, StoreTypeOK
  <2>12. ASSUME NEW w \in Workers, ReceiveAnswer(w)  PROVE NextTypes
    <3> DEFINE l == [Free EXCEPT !.pc = "get_frame", !.kind = "answer", !.row = row]
    <3>1. l \in Local /\ l.pc = "get_frame"
      BY FreeType, <2>a DEF Free, Local, Calls, RequestKinds
    <3>2. Keeps
      BY <2>12, <3>1, StepKeeps DEF ReceiveAnswer
    <3> QED
      BY <2>12, <2>a, <3>2, AcceptServed DEF ReceiveAnswer, TypeOK, StoreTypeOK
  <2>13. ASSUME NEW w \in Workers, GetFrame(w)  PROVE NextTypes
    <3>1. PICK f \in Interrupted(frames), answers \in (SUBSET Questions) \ {{}} :
            /\ frames[f].packet # NoPacket
            /\ req' = [req EXCEPT ![w].pc = "begin", ![w].frame = f,
                         ![w].packet = frames[f].packet,
                         ![w].progress = MergedProgress(f, answers)]
            /\ given' = [given EXCEPT ![frames[f].packet] = @ \cup answers]
      BY <2>13 DEF GetFrame
    <3>2. f \in Frames /\ frames[f].packet \in Packets /\ MergedProgress(f, answers) \in SUBSET Questions
      BY <3>1, <2>a DEF Interrupted, StoreTypeOK, Frame, MergedProgress
    <3> DEFINE l == [req[w] EXCEPT !.pc = "begin", !.frame = f, !.packet = frames[f].packet,
                                   !.progress = MergedProgress(f, answers)]
    <3>3. l \in Local /\ l.frame \in Frames /\ l.packet \in Packets
      BY ZenonT(60), <3>2, <2>a DEF Local, Calls
    <3>4. req' = [req EXCEPT ![w] = l]
      BY <3>1, <2>a DEF TypeOK
    <3>5. Keeps
      BY <3>3, <3>4, StepKeeps
    <3>6. given' \in [Packets -> SUBSET Questions]
      BY <3>1, <3>2, <2>a DEF TypeOK
    <3> QED
      BY <2>13, <2>a, <3>5, <3>6 DEF GetFrame, TypeOK, StoreTypeOK
  <2>14. ASSUME NEW w \in Workers, RejectAnswer(w) \/ RaiseUncovered(w)  PROVE NextTypes
    <3>1. Keeps
      BY <2>14, ReturnKeeps DEF RejectAnswer, RaiseUncovered
    <3> QED
      BY <2>14, <2>a, <3>1 DEF RejectAnswer, RaiseUncovered, TypeOK, StoreTypeOK
  <2>15. ASSUME NEW w \in Workers, StoreAnswerMessage(w)  PROVE NextTypes
    <3>1. Keeps
      BY <2>15, GotoKeeps DEF StoreAnswerMessage, At, Calls
    <3> QED
      BY <2>15, <2>a, <3>1, AppendType DEF StoreAnswerMessage, TypeOK, StoreTypeOK, MessageKinds
  <2>16. ASSUME NEW w \in Workers, At(w, {"answer"}, "update") \/ At(w, {"answer"}, "resume")
         PROVE  req[w].frame \in Frames /\ req[w].packet \in Packets /\ req[w].progress \in SUBSET Questions
    BY <2>16, <2>a DEF At, Holds, Local
  <2>17. ASSUME NEW w \in Workers, RecordProgress(w)  PROVE NextTypes
    <3>1. row' \in Row /\ frames' \in [Frames -> Frame]
      BY <2>17, <2>16, <2>a, SaveFrameType DEF RecordProgress, UpdateFrameStatus
    <3>2. Keeps
      BY <2>17, GotoKeeps, ReplyKeeps DEF RecordProgress, At, Calls
    <3> QED
      BY <2>17, <2>a, <3>1, <3>2 DEF RecordProgress, TypeOK, StoreTypeOK
  <2>18. ASSUME NEW w \in Workers, ResumeAsksAgain(w)  PROVE NextTypes
    <3>1. PICK p \in Packets : NewPacket(p) /\ SaveFrame(req[w].frame, "interrupted", p, {})
      BY <2>18 DEF ResumeAsksAgain
    <3>2. row' \in Row /\ frames' \in [Frames -> Frame]
      BY <2>18, <2>16, <3>1, <2>a, SaveFrameType DEF ResumeAsksAgain
    <3>3. Keeps
      BY <2>18, ReplyKeeps DEF ResumeAsksAgain, At, Calls
    <3> QED
      BY <2>18, <2>a, <3>1, <3>2, <3>3 DEF ResumeAsksAgain, NewPacket, TypeOK, StoreTypeOK
  <2>19. ASSUME NEW w \in Workers, ResumeEnds(w)  PROVE NextTypes
    <3>1. row' \in Row /\ frames' \in [Frames -> Frame]
      BY <2>19, <2>16, <2>a, SaveFrameType DEF ResumeEnds
    <3>2. Keeps
      BY <2>19, GotoKeeps DEF ResumeEnds, At, Calls
    <3> QED
      BY <2>19, <2>a, <3>1, <3>2 DEF ResumeEnds, TypeOK, StoreTypeOK
  <2>20. ASSUME NEW w \in Workers, PromoteAnswers(w)  PROVE NextTypes
    <3>1. req[w].row \in Row /\ req[w].packet \in Packets
      BY <2>20, <2>a DEF PromoteAnswers, At, Holds, Local
    <3>2. row' \in Row
      BY <2>20, <3>1, PromotedType DEF PromoteAnswers, SaveSession
    <3>3. Keeps
      BY <2>20, DropKeeps DEF PromoteAnswers, At, Calls
    <3> QED
      BY <2>20, <2>a, <3>2, <3>3 DEF PromoteAnswers, TypeOK, StoreTypeOK
  <2>21. ASSUME NEW w \in Workers, RaiseCovered(w)  PROVE NextTypes
    <3>1. Keeps
      BY <2>21, DropKeeps DEF RaiseCovered, Covered, Calls
    <3> QED
      BY <2>21, <2>a, <3>1 DEF RaiseCovered, TypeOK, StoreTypeOK
  <2>22. ASSUME NEW w \in Workers, Rename(w) \/ Archive(w) \/ Cancel(w)  PROVE NextTypes
    <3>1. Keeps
      BY <2>22, <2>a DEF Rename, Archive, Cancel, Keeps, TypeOK, Holds
    <3>2. row' \in Row /\ log' \in [Messages -> MessageKinds \cup {"absent"}]
      BY <2>22, <2>a, AppendType
      DEF Rename, Archive, Cancel, RenameSession, ArchiveSession, MessageKinds, StoreTypeOK, Row, Titles
    <3> QED
      BY <2>22, <2>a, <3>1, <3>2, AcceptServed DEF Rename, Archive, Cancel, TypeOK, StoreTypeOK
  <2>23. ASSUME NEW w \in Workers, GetForReactivate(w)  PROVE NextTypes
    <3> DEFINE l == [Free EXCEPT !.pc = "put_active", !.kind = "reactivate", !.row = row]
    <3>1. l \in Local /\ l.kind = "reactivate"
      BY FreeType, <2>a DEF Free, Local, Calls, RequestKinds
    <3>2. Keeps
      BY <2>23, <3>1, StepKeeps DEF GetForReactivate
    <3> QED
      BY <2>23, <2>a, <3>2, AcceptServed DEF GetForReactivate, TypeOK, StoreTypeOK
  <2>24. ASSUME NEW w \in Workers, Reactivate(w)  PROVE NextTypes
    <3>1. Keeps
      BY <2>24, ReturnKeeps DEF Reactivate
    <3>2. row' \in Row
      BY <2>24, <2>a DEF Reactivate, SaveSession, Local, Row
    <3> QED
      BY <2>24, <2>a, <3>1, <3>2 DEF Reactivate, TypeOK, StoreTypeOK
  <2>25. CASE UNCHANGED vars
    BY <2>25, <2>a DEF vars, Keeps, Holds, TypeOK, StoreTypeOK
  <2> QED
    BY <2>1, <2>2, <2>3, <2>4, <2>5, <2>6, <2>7, <2>8, <2>9, <2>10, <2>11, <2>12, <2>13, <2>14,
       <2>15, <2>17, <2>18, <2>19, <2>20, <2>21, <2>22, <2>23, <2>24, <2>25
    DEF Next, Continue, Start
<1>3. QED
  BY <1>1, <1>2, PTL DEF Spec

\* Types: every value stays in its set, whatever the requests in flight.
THEOREM TypeCorrect == Spec => []TypeOK
BY TypeInductive, PTL DEF TypeInv

-----------------------------------------------------------------------------
(* The master history.  Session objects are read, kept while other requests *)
(* write the row, and written back, so the invariant is about every copy.   *)

GoodRow(r, lg, gv) ==
    /\ \A m \in Messages : r.history[m] <= 1 /\ (r.history[m] > 0 => lg[m] = "visible")
    /\ \A p \in Packets : r.promoted[p] <= 1 /\ (r.promoted[p] > 0 => gv[p] = Questions)

GoodWorker(l, lg, gv) ==
    /\ GoodRow(l.row, lg, gv)
    /\ \A m \in l.listed : lg[m] = "visible"
    /\ l.pc \in {"get_reply", "save_reply"} => l.mine \in Messages /\ lg[l.mine] = "visible"
    /\ l.kind = "answer" /\ l.pc \notin {"idle", "get_frame"} => l.progress \subseteq gv[l.packet]
    /\ l.kind = "answer" /\ l.pc \in {"resume", "parents", "promote"} => l.progress = Questions

GoodFrame(fr, gv) == fr.packet \in Packets => fr.answered \subseteq gv[fr.packet]

HistoryInv ==
    /\ GoodRow(row, log, given)
    /\ \A w \in Workers : GoodWorker(req[w], log, given)
    /\ \A f \in Frames : GoodFrame(frames[f], given)

\* Messages stay what they are and answers stay given.
Grows ==
    /\ \A m \in Messages : log[m] = "visible" => log'[m] = "visible"
    /\ \A p \in Packets : given[p] \subseteq given'[p] /\ given'[p] \subseteq Questions

LEMMA GoodRowStays ==
    ASSUME TypeInv, Grows, NEW r, GoodRow(r, log, given)
    PROVE  GoodRow(r, log', given')
BY DEF GoodRow, Grows

LEMMA GoodWorkerStays ==
    ASSUME TypeInv, Grows, NEW w \in Workers, GoodWorker(req[w], log, given)
    PROVE  GoodWorker(req[w], log', given')
<1>1. GoodRow(req[w].row, log', given')
  BY GoodRowStays DEF GoodWorker
<1>2. req[w] \in Local /\ Holds(w)
  BY DEF TypeInv, TypeOK
<1> QED
  BY <1>1, <1>2 DEF GoodWorker, Grows, Local, Holds

LEMMA GoodFrameStays ==
    ASSUME Grows, NEW fr, GoodFrame(fr, given)
    PROVE  GoodFrame(fr, given')
BY DEF GoodFrame, Grows

LEMMA GoodNewRow ==
    ASSUME NEW lg, NEW gv
    PROVE  GoodRow(NewRow, lg, gv)
BY DEF GoodRow, NewRow

LEMMA GoodFree ==
    ASSUME NEW lg, NEW gv
    PROVE  GoodWorker(Free, lg, gv)
BY GoodNewRow DEF GoodWorker, Free

LEMMA GoodWithMessages ==
    ASSUME NEW r \in Row, NEW lg, NEW gv, GoodRow(r, lg, gv),
           NEW ms, \A m \in ms : lg[m] = "visible"
    PROVE  GoodRow(WithMessages(r, ms), lg, gv)
BY DEF GoodRow, WithMessages, Row

LEMMA GoodPromoted ==
    ASSUME NEW r \in Row, NEW lg, NEW gv, GoodRow(r, lg, gv),
           NEW p \in Packets, gv[p] = Questions
    PROVE  GoodRow(Promoted(r, p), lg, gv)
BY DEF GoodRow, Promoted, Row

\* Steps that write another part of the row keep it good.
LEMMA GoodSync ==
    ASSUME TypeInv, GoodRow(row, log, given), NEW fs, SyncActive(fs)
    PROVE  GoodRow(row', log, given)
<1>1. PICK f : row' = [row EXCEPT !.active = f]
  BY DEF SyncActive
<1>2. row \in Row
  BY DEF TypeInv, TypeOK, StoreTypeOK
<1>3. row'.history = row.history /\ row'.promoted = row.promoted
  BY <1>1, <1>2 DEF Row
<1> QED
  BY <1>3 DEF GoodRow

LEMMA GoodAppend ==
    ASSUME TypeInv, NEW m, NEW kind, NEW fromUser, AppendMessage(m, kind, fromUser)
    PROVE  /\ row'.history = row.history /\ row'.promoted = row.promoted
           /\ \A k \in Messages : log[k] = "visible" => log'[k] = "visible"
           /\ m \in Messages /\ log'[m] = kind
BY DEF AppendMessage, NextMessage, TypeInv, TypeOK, StoreTypeOK, Row

LEMMA GoodSave ==
    ASSUME TypeInv, \A g \in Frames : GoodFrame(frames[g], given),
           NEW f \in Frames, NEW status, NEW packet, NEW answered,
           packet \in Packets => answered \subseteq given[packet],
           SaveFrame(f, status, packet, answered)
    PROVE  \A g \in Frames : GoodFrame(frames'[g], given)
<1> SUFFICES ASSUME NEW g \in Frames
             PROVE  GoodFrame(frames'[g], given)
  OBVIOUS
<1>1. frames'[g] = Written(f, status, packet, answered)[g] /\ frames[g] \in Frame
  BY DEF SaveFrame, TypeInv, TypeOK, StoreTypeOK
<1>2. CASE g = f
  BY <1>1, <1>2 DEF Written, GoodFrame
<1>3. CASE g # f
  <2>1. frames'[g].packet = frames[g].packet /\ frames'[g].answered = frames[g].answered
    BY <1>1, <1>3 DEF Written, Frame
  <2> QED
    BY <2>1 DEF GoodFrame
<1> QED
  BY <1>2, <1>3

\* It is enough to look at the row, the frames and the worker that moves.
LEMMA Assemble ==
    ASSUME TypeInv, HistoryInv, Grows, NEW w \in Workers,
           \A v \in Workers \ {w} : req'[v] = req[v],
           GoodWorker(req'[w], log', given'),
           GoodRow(row', log', given'),
           \A f \in Frames : GoodFrame(frames'[f], given)
    PROVE  HistoryInv'
<1>1. ASSUME NEW v \in Workers
      PROVE  GoodWorker(req'[v], log', given')
  <2>1. CASE v = w
    BY <2>1
  <2>2. CASE v # w
    BY <2>2, GoodWorkerStays DEF HistoryInv
  <2> QED
    BY <2>1, <2>2
<1>2. ASSUME NEW f \in Frames
      PROVE  GoodFrame(frames'[f], given')
  BY GoodFrameStays
<1> QED
  BY <1>1, <1>2 DEF HistoryInv

LEMMA HistoryStep == TypeInv /\ HistoryInv /\ [Next]_vars => HistoryInv'
<1> SUFFICES ASSUME TypeInv, HistoryInv, [Next]_vars
             PROVE  HistoryInv'
  OBVIOUS
<1>a. /\ TypeOK /\ StoreTypeOK /\ row \in Row
      /\ \A v \in Workers : req[v] \in Local /\ Holds(v)
  BY DEF TypeInv, TypeOK, StoreTypeOK
<1>b. /\ GoodRow(row, log, given)
      /\ \A v \in Workers : GoodWorker(req[v], log, given) /\ GoodRow(req[v].row, log, given)
      /\ \A f \in Frames : GoodFrame(frames[f], given)
  BY DEF HistoryInv, GoodWorker
<1>c. UNCHANGED <<log, given>> => Grows
  BY <1>a DEF Grows, TypeOK
\* Steps that move one worker and leave the store alone
<1>1. ASSUME NEW w \in Workers, UNCHANGED <<row, log, frames, given>>,
             \A v \in Workers \ {w} : req'[v] = req[v], GoodWorker(req'[w], log, given)
      PROVE  HistoryInv'
  BY <1>1, <1>b, <1>c, Assemble
<1>2. ASSUME NEW w \in Workers,
             \/ ReceiveMessage(w) \/ BeginTurn(w) \/ GetSession(w) \/ GetForReply(w)
             \/ ListMessages(w) \/ RunEnds(w) \/ ParentsEnd(w)
      PROVE  HistoryInv'
  <2>1. UNCHANGED <<row, log, frames, given>> /\ \A v \in Workers \ {w} : req'[v] = req[v]
    BY <1>2, <1>a
    DEF ReceiveMessage, BeginTurn, GetSession, GetForReply, ListMessages, RunEnds, ParentsEnd, Goto, TypeOK
  <2>2. CASE ReceiveMessage(w)
    BY <2>2, <2>1, <1>1, <1>a, GoodFree DEF ReceiveMessage, TypeOK, GoodWorker, Free
  <2>3. CASE BeginTurn(w)
    BY <2>3, <2>1, <1>1, <1>a, <1>b DEF BeginTurn, At, Goto, TypeOK, Local, GoodWorker
  <2>4. CASE GetSession(w)
    BY <2>4, <2>1, <1>1, <1>a, <1>b DEF GetSession, At, TypeOK, Local, GoodWorker
  <2>5. CASE GetForReply(w)
    BY <2>5, <2>1, <1>1, <1>a, <1>b DEF GetForReply, At, TypeOK, Local, GoodWorker
  <2>6. CASE ListMessages(w)
    BY <2>6, <2>1, <1>1, <1>a, <1>b DEF ListMessages, At, TypeOK, Local, GoodWorker, VisibleMessages
  <2>7. CASE RunEnds(w)
    BY <2>7, <2>1, <1>1, <1>a, <1>b DEF RunEnds, At, TypeOK, Local, GoodWorker
  <2>8. CASE ParentsEnd(w)
    BY <2>8, <2>1, <1>1, <1>a, <1>b DEF ParentsEnd, At, TypeOK, Local, GoodWorker
  <2> QED
    BY <1>2, <2>2, <2>3, <2>4, <2>5, <2>6, <2>7, <2>8
<1>3. ASSUME NEW w \in Workers,
             \/ FinishTurn(w) \/ FailTurn(w) \/ RejectAnswer(w) \/ RaiseUncovered(w)
             \/ RaiseCovered(w) \/ ReceiveAnswer(w) \/ GetForReactivate(w)
      PROVE  HistoryInv'
  <2>1. UNCHANGED <<row, log, frames, given>> /\ \A v \in Workers \ {w} : req'[v] = req[v]
    BY <1>3, <1>a
    DEF FinishTurn, FailTurn, RejectAnswer, RaiseUncovered, RaiseCovered, ReceiveAnswer,
        GetForReactivate, Return, Drop, TypeOK
  <2>2. CASE FinishTurn(w) \/ FailTurn(w) \/ RejectAnswer(w) \/ RaiseUncovered(w)
    <3>1. Return(w)
      BY <2>2 DEF FinishTurn, FailTurn, RejectAnswer, RaiseUncovered
    <3>2. req'[w] = Free
      BY <3>1, <1>a DEF Return, TypeOK
    <3> QED
      BY <3>2, <2>1, <1>1, GoodFree
  <2>3. CASE RaiseCovered(w)
    BY <2>3, <2>1, <1>1, <1>a, <1>b, GoodNewRow DEF RaiseCovered, Covered, Drop, TypeOK, Local, GoodWorker
  <2>4. CASE ReceiveAnswer(w) \/ GetForReactivate(w)
    <3>1. PICK pc \in {"get_frame", "put_active"}, kind \in {"answer", "reactivate"} :
            /\ req' = [req EXCEPT ![w] = [Free EXCEPT !.pc = pc, !.kind = kind, !.row = row]]
            /\ kind = "answer" => pc = "get_frame"
      BY <2>4 DEF ReceiveAnswer, GetForReactivate
    <3>2. /\ req'[w].pc = pc /\ req'[w].kind = kind /\ req'[w].row = row
          /\ req'[w].listed = {}
      BY <3>1, <1>a DEF TypeOK, Free
    <3>3. GoodWorker(req'[w], log, given)
      BY <3>1, <3>2, <1>b DEF GoodWorker
    <3> QED
      BY <3>3, <2>1, <1>1
  <2> QED
    BY <1>3, <2>2, <2>3, <2>4
\* Steps that append a message
<1>4. ASSUME NEW w \in Workers,
             StoreUserMessage(w) \/ StoreAnswerMessage(w) \/ StoreReply(w) \/ Cancel(w)
      PROVE  HistoryInv'
  <2>1. PICK m \in Messages, kind \in MessageKinds, fromUser \in BOOLEAN :
          /\ AppendMessage(m, kind, fromUser)
          /\ StoreReply(w) /\ req[w].reply = "text" => kind = "visible"
          /\ StoreReply(w) =>
               req' = [req EXCEPT ![w].mine = m,
                         ![w].pc = IF req[w].reply = "text" THEN "get_reply" ELSE "finish"]
    BY <1>4, <1>a DEF StoreUserMessage, StoreAnswerMessage, StoreReply, Cancel, MessageKinds, Local, At, Turn
  <2>2. /\ row'.history = row.history /\ row'.promoted = row.promoted
        /\ UNCHANGED <<frames, given>> /\ Grows /\ log'[m] = kind
    BY <2>1, <1>4, <1>a, GoodAppend DEF StoreUserMessage, StoreAnswerMessage, StoreReply, Cancel, Grows, TypeOK
  <2>3. GoodRow(row', log', given')
    BY <2>2, <1>b DEF GoodRow, Grows
  <2>4. GoodWorker(req[w], log', given')
    BY <2>2, <1>b, GoodWorkerStays
  <2>5. \A v \in Workers \ {w} : req'[v] = req[v]
    BY <1>4, <1>a DEF StoreUserMessage, StoreAnswerMessage, StoreReply, Cancel, Goto, TypeOK
  <2>6. GoodWorker(req'[w], log', given')
    <3>1. CASE StoreUserMessage(w)
      BY <3>1, <2>4, <1>a DEF StoreUserMessage, Goto, At, TypeOK, Local, GoodWorker
    <3>2. CASE StoreAnswerMessage(w)
      BY <3>2, <2>4, <1>a DEF StoreAnswerMessage, Goto, At, TypeOK, Local, GoodWorker
    <3>3. CASE StoreReply(w)
      <4>1. /\ req'[w].row = req[w].row /\ req'[w].listed = req[w].listed
            /\ req'[w].kind = req[w].kind /\ req'[w].progress = req[w].progress
            /\ req'[w].packet = req[w].packet /\ req'[w].mine = m
            /\ req'[w].pc \in {"get_reply", "finish"}
            /\ req'[w].pc = "get_reply" => kind = "visible"
            /\ req[w].pc = "reply"
        <5> DEFINE pc == IF req[w].reply = "text" THEN "get_reply" ELSE "finish"
        <5>1. req' = [req EXCEPT ![w] = [req[w] EXCEPT !.mine = m, !.pc = pc]]
          BY <3>3, <2>1
        <5>2. req'[w] = [req[w] EXCEPT !.mine = m, !.pc = pc]
          BY <5>1, <1>a DEF TypeOK
        <5>3. req[w].pc = "reply"
          BY <3>3 DEF StoreReply, At
        <5>4. pc \in {"get_reply", "finish"} /\ (pc = "get_reply" => kind = "visible")
          BY <3>3, <2>1
        <5> HIDE DEF pc
        <5> QED
          BY <5>2, <5>3, <5>4, <1>a DEF Local
      <4> QED
        BY <4>1, <2>2, <2>4 DEF GoodWorker
    <3>4. CASE Cancel(w)
      BY <3>4, <2>4 DEF Cancel
    <3> QED
      BY <1>4, <3>1, <3>2, <3>3, <3>4
  <2> QED
    BY <2>2, <2>3, <2>5, <2>6, <1>b, Assemble
\* Steps that write the session back
<1>5. ASSUME NEW w \in Workers, SaveContext(w) \/ SaveReply(w)
      PROVE  HistoryInv'
  <2>1. UNCHANGED <<log, frames, given>> /\ \A v \in Workers \ {w} : req'[v] = req[v]
    BY <1>5, <1>a DEF SaveContext, SaveReply, Drop, TypeOK
  <2>2. GoodRow(row', log, given)
    BY <1>5, <1>a, <1>b, GoodWithMessages
    DEF SaveContext, SaveReply, SaveSession, At, Local, GoodWorker
  <2>3. GoodWorker(req'[w], log, given)
    BY <1>5, <1>a, <1>b, GoodNewRow DEF SaveContext, SaveReply, Drop, At, TypeOK, Local, GoodWorker
  <2> QED
    BY <2>1, <2>2, <2>3, <1>b, <1>c, Assemble
<1>6. ASSUME NEW w \in Workers, PromoteAnswers(w)
      PROVE  HistoryInv'
  <2>1. UNCHANGED <<log, frames, given>> /\ \A v \in Workers \ {w} : req'[v] = req[v]
    BY <1>6, <1>a DEF PromoteAnswers, Drop, TypeOK
  <2>2. req[w].packet \in Packets /\ given[req[w].packet] = Questions
    <3>1. req[w].kind = "answer" /\ req[w].pc = "promote"
      BY <1>6 DEF PromoteAnswers, At
    <3>2. req[w].packet \in Packets
      BY <3>1, <1>a DEF Holds
    <3>3. req[w].progress = Questions /\ req[w].progress \subseteq given[req[w].packet]
      BY <3>1, <1>b DEF GoodWorker
    <3>4. given[req[w].packet] \subseteq Questions
      BY <3>2, <1>a DEF TypeOK
    <3> QED
      BY <3>2, <3>3, <3>4
  <2>3. GoodRow(row', log, given)
    BY <2>2, <1>6, <1>a, <1>b, GoodPromoted DEF PromoteAnswers, SaveSession, Local
  <2>4. GoodWorker(req'[w], log, given)
    BY <1>6, <1>a, <1>b, GoodNewRow DEF PromoteAnswers, Drop, At, TypeOK, Local, GoodWorker
  <2> QED
    BY <2>1, <2>3, <2>4, <1>b, <1>c, Assemble
<1>7. ASSUME NEW w \in Workers, Rename(w) \/ Archive(w) \/ Reactivate(w)
      PROVE  HistoryInv'
  <2>1. UNCHANGED <<log, frames, given>> /\ \A v \in Workers \ {w} : req'[v] = req[v]
    BY <1>7, <1>a DEF Rename, Archive, Reactivate, Return, TypeOK
  <2>2. GoodRow(row', log, given)
    BY ZenonT(60), <1>7, <1>a, <1>b
    DEF Rename, Archive, Reactivate, RenameSession, ArchiveSession, SaveSession, Row, Local, GoodRow
  <2>3. GoodWorker(req'[w], log, given)
    BY <1>7, <1>a, <1>b, GoodFree DEF Rename, Archive, Reactivate, Return, TypeOK
  <2> QED
    BY <2>1, <2>2, <2>3, <1>b, <1>c, Assemble
\* Steps that read or write frames
<1>8. ASSUME NEW w \in Workers, GetFrame(w)
      PROVE  HistoryInv'
  <2>1. PICK f \in Interrupted(frames), answers \in (SUBSET Questions) \ {{}} :
          /\ frames[f].packet # NoPacket
          /\ req' = [req EXCEPT ![w].pc = "begin", ![w].frame = f,
                       ![w].packet = frames[f].packet,
                       ![w].progress = MergedProgress(f, answers)]
          /\ given' = [given EXCEPT ![frames[f].packet] = @ \cup answers]
    BY <1>8 DEF GetFrame
  <2>2. f \in Frames /\ frames[f].packet \in Packets
    BY <2>1, <1>a DEF Interrupted, StoreTypeOK, Frame
  <2>3. Grows /\ UNCHANGED <<row, log, frames>> /\ \A v \in Workers \ {w} : req'[v] = req[v]
    BY <2>1, <2>2, <1>8, <1>a DEF Grows, GetFrame, TypeOK
  <2>4. MergedProgress(f, answers) \subseteq given'[frames[f].packet]
    BY <2>1, <2>2, <1>a, <1>b DEF MergedProgress, GoodFrame, TypeOK
  <2>5. GoodWorker(req[w], log', given')
    BY <2>3, <1>b, GoodWorkerStays
  <2>6. /\ req'[w].row = req[w].row /\ req'[w].listed = req[w].listed
        /\ req'[w].pc = "begin" /\ req'[w].packet = frames[f].packet
        /\ req'[w].progress = MergedProgress(f, answers)
    BY <2>1, <1>a DEF TypeOK, Local
  <2>7. GoodWorker(req'[w], log', given')
    BY <2>4, <2>5, <2>6 DEF GoodWorker
  <2>8. GoodRow(row', log', given')
    BY <2>3, <1>b, GoodRowStays
  <2> QED
    BY <2>3, <2>7, <2>8, <1>b, Assemble
<1>9. ASSUME NEW w \in Workers, SaveRelatedFrame(w)
      PROVE  HistoryInv'
  BY <1>9, <1>b, <1>c, GoodSync, Assemble DEF SaveRelatedFrame
<1>10. ASSUME NEW w \in Workers, RunInterrupts(w) \/ ParentsInterrupt(w) \/ ResumeAsksAgain(w)
       PROVE  HistoryInv'
  <2>1. PICK f \in Frames, p \in Packets : SaveFrame(f, "interrupted", p, {})
    BY <1>10, <1>a DEF RunInterrupts, ParentsInterrupt, ResumeAsksAgain, At, Holds
  <2>2. \A g \in Frames : GoodFrame(frames'[g], given)
    BY <2>1, <1>b, GoodSave
  <2>3. GoodRow(row', log, given)
    BY <2>1, <1>b, GoodSync DEF SaveFrame
  <2>4. PICK pc \in {"reply", "promote"} : req' = [req EXCEPT ![w].pc = pc, ![w].reply = "packet"]
    BY <1>10 DEF RunInterrupts, ParentsInterrupt, ResumeAsksAgain
  <2>5. GoodWorker(req'[w], log, given)
    BY <1>10, <2>4, <1>a, <1>b
    DEF RunInterrupts, ParentsInterrupt, ResumeAsksAgain, At, TypeOK, Local, GoodWorker
  <2> QED
    BY <1>10, <2>2, <2>3, <2>4, <2>5, <1>a, <1>b, <1>c, Assemble
    DEF RunInterrupts, ParentsInterrupt, ResumeAsksAgain, TypeOK
<1>11. ASSUME NEW w \in Workers, RecordProgress(w) \/ ResumeEnds(w)
       PROVE  HistoryInv'
  <2>1. PICK status \in {"interrupted", "completed", "error"}, packet \in {req[w].packet, NoPacket} :
          SaveFrame(req[w].frame, status, packet, req[w].progress)
    <3>1. req[w].packet \in Packets
      BY <1>11, <1>a DEF RecordProgress, ResumeEnds, At, Holds
    <3>2. CASE RecordProgress(w)
      BY <3>1, <3>2 DEF RecordProgress, UpdateFrameStatus
    <3>3. CASE ResumeEnds(w)
      BY <3>1, <3>3 DEF ResumeEnds
    <3> QED
      BY <1>11, <3>2, <3>3
  <2>2. req[w].frame \in Frames /\ req[w].progress \subseteq given[req[w].packet]
    BY <1>11, <1>a, <1>b DEF RecordProgress, ResumeEnds, At, Holds, GoodWorker
  <2>3. NoPacket \notin Packets
    BY DEF NoPacket, Packets
  <2>4. \A g \in Frames : GoodFrame(frames'[g], given)
    BY <2>1, <2>2, <2>3, <1>b, GoodSave
  <2>5. GoodRow(row', log, given)
    BY <2>1, <1>b, GoodSync DEF SaveFrame
  <2>6. GoodWorker(req'[w], log, given) /\ \A v \in Workers \ {w} : req'[v] = req[v]
    BY <1>11, <1>a, <1>b DEF RecordProgress, ResumeEnds, AllAnswered, Goto, At, TypeOK, Local, GoodWorker
  <2> QED
    BY <1>11, <2>4, <2>5, <2>6, <1>b, <1>c, Assemble DEF RecordProgress, ResumeEnds
<1>12. CASE UNCHANGED vars
  BY <1>12, <1>b DEF vars, HistoryInv
<1> QED
  BY <1>2, <1>3, <1>4, <1>5, <1>6, <1>7, <1>8, <1>9, <1>10, <1>11, <1>12 DEF Next, Continue, Start

THEOREM HistoryInductive == Spec => []HistoryInv
<1>1. Init => HistoryInv
  BY GoodNewRow, GoodFree, StoreAssumption
  DEF Init, StoreInit, HistoryInv, GoodFrame, NoPacket, Packets
<1>2. QED
  BY <1>1, HistoryStep, TypeInductive, PTL DEF Spec

\* No message and no answered clarification enters the master history twice.
THEOREM HistoryOnceHolds == Spec => []HistoryOnce
<1>1. HistoryInv => HistoryOnce
  BY DEF HistoryInv, GoodRow, HistoryOnce
<1>2. QED
  BY <1>1, HistoryInductive, PTL

\* Only messages the user can see are in the master history.
THEOREM HistoryIsVisibleHolds == Spec => []HistoryIsVisible
<1>1. HistoryInv => HistoryIsVisible
  BY DEF HistoryInv, GoodRow, HistoryIsVisible
<1>2. QED
  BY <1>1, HistoryInductive, PTL

\* Only clarifications answered in full are promoted to the master history.
THEOREM PromotedWereAnsweredHolds == Spec => []PromotedWereAnswered
<1>1. HistoryInv => PromotedWereAnswered
  BY DEF HistoryInv, GoodRow, PromotedWereAnswered
<1>2. QED
  BY <1>1, HistoryInductive, PTL

-----------------------------------------------------------------------------
(* The process record.  Who keeps the session working has begun its turn:   *)
(* a message that is still to be stored, or an answer still to be checked,   *)
(* has not.                                                                  *)

Begun(w) ==
    \/ At(w, Turn, "reply") \/ At(w, Turn, "get_reply") \/ At(w, Turn, "save_reply")
    \/ At(w, Turn, "finish") \/ At(w, Turn, "failed")
    \/ At(w, {"message"}, "get") \/ At(w, {"message"}, "list")
    \/ At(w, {"message"}, "save") \/ At(w, {"message"}, "run")
    \/ At(w, {"answer"}, "append") \/ At(w, {"answer"}, "update")
    \/ At(w, {"answer"}, "resume") \/ At(w, {"answer"}, "parents")
    \/ At(w, {"answer"}, "promote")

WorkInv == process.status = "working" => \E w \in Workers : Begun(w)

LEMMA WorkStep ==
    ASSUME "uncovered" \notin Raises, TypeInv, WorkInv, [Next]_vars
    PROVE  WorkInv'
<1>1. ASSUME NEW w \in Workers, Continue(w) \/ SaveRelatedFrame(w) \/ Start(w)
      PROVE  WorkInv'
  <2>1. CASE BeginTurn(w)
    <3>1. Begun(w)'
      BY <2>1 DEF BeginTurn, Goto, Begun, At, Turn, TypeInv, TypeOK, Local
    <3> QED
      BY <3>1 DEF WorkInv
  <2>2. CASE FinishTurn(w) \/ FailTurn(w)
    BY <2>2 DEF FinishTurn, FailTurn, Outcome, FinishProcess, WorkInv
  <2>3. CASE ~BeginTurn(w) /\ ~FinishTurn(w) /\ ~FailTurn(w)
    <3>1. process' = process
      BY <1>1, <2>3
      DEF Continue, Start, SaveRelatedFrame, StoreUserMessage, GetSession, ListMessages, SaveContext,
          RunEnds, RunInterrupts, StoreReply, GetForReply, SaveReply, GetFrame, RejectAnswer,
          StoreAnswerMessage, RecordProgress, ResumeAsksAgain, ResumeEnds, ParentsEnd,
          ParentsInterrupt, PromoteAnswers, RaiseCovered, RaiseUncovered, Reactivate,
          ReceiveMessage, ReceiveAnswer, Cancel, Rename, Archive, GetForReactivate
    <3>2. \A v \in Workers \ {w} : req'[v] = req[v]
      <4>1. req \in [Workers -> Local]
        BY DEF TypeInv, TypeOK
      <4>2. req' = req \/ \E l : req' = [req EXCEPT ![w] = l]
        BY <1>1, <2>3
        DEF Continue, Start, SaveRelatedFrame, StoreUserMessage, GetSession, ListMessages, SaveContext,
            RunEnds, RunInterrupts, StoreReply, GetForReply, SaveReply, GetFrame, RejectAnswer,
            StoreAnswerMessage, RecordProgress, ResumeAsksAgain, ResumeEnds, ParentsEnd,
            ParentsInterrupt, PromoteAnswers, RaiseCovered, RaiseUncovered, Reactivate,
            ReceiveMessage, ReceiveAnswer, Cancel, Rename, Archive, GetForReactivate,
            Goto, Drop, Return
      <4> QED
        BY <4>1, <4>2
    <3>3. Begun(w) => Begun(w)'
      <4>1. req \in [Workers -> Local]
        BY DEF TypeInv, TypeOK
      <4>2. CASE Rename(w) \/ Archive(w) \/ Cancel(w) \/ SaveRelatedFrame(w)
        BY <4>2 DEF Rename, Archive, Cancel, SaveRelatedFrame, Begun, At
      <4>3. CASE \/ ReceiveMessage(w) \/ ReceiveAnswer(w) \/ GetForReactivate(w) \/ Reactivate(w)
                 \/ StoreUserMessage(w) \/ GetFrame(w) \/ RejectAnswer(w)
        BY <4>3 DEF ReceiveMessage, ReceiveAnswer, GetForReactivate, Reactivate, StoreUserMessage,
                    GetFrame, RejectAnswer, Accept, Begun, At, Turn
      <4>4. CASE GetSession(w) \/ ListMessages(w) \/ RunEnds(w) \/ RunInterrupts(w)
        BY <4>1, <4>4 DEF GetSession, ListMessages, RunEnds, RunInterrupts, Local, Begun, At, Turn
      <4>5. CASE SaveContext(w) \/ SaveReply(w) \/ PromoteAnswers(w)
        BY <4>1, <4>5 DEF SaveContext, SaveReply, PromoteAnswers, Drop, Local, Begun, At, Turn
      <4>6. CASE RaiseCovered(w)
        BY <4>1, <4>6 DEF RaiseCovered, Covered, Drop, Local, Begun, At, Turn
      <4>7. CASE StoreReply(w)
        <5>1. PICK m \in Messages :
                req' = [req EXCEPT ![w].mine = m,
                          ![w].pc = IF req[w].reply = "text" THEN "get_reply" ELSE "finish"]
          BY <4>7 DEF StoreReply
        <5>2. req'[w].kind = req[w].kind /\ req'[w].pc \in {"get_reply", "finish"}
          BY <4>1, <5>1 DEF Local
        <5> QED
          BY <4>7, <5>2 DEF StoreReply, Begun, At
      <4>10. CASE GetForReply(w)
        <5>1. req'[w].kind = req[w].kind /\ req'[w].pc = "save_reply"
          BY <4>1, <4>10 DEF GetForReply, Local
        <5> QED
          BY <4>10, <5>1 DEF GetForReply, Begun, At
      <4>8. CASE StoreAnswerMessage(w) \/ RecordProgress(w) \/ ResumeEnds(w)
        BY ZenonT(60), <4>1, <4>8 DEF StoreAnswerMessage, RecordProgress, ResumeEnds, Goto, Local, Begun, At, Turn
      <4>9. CASE ResumeAsksAgain(w) \/ ParentsEnd(w) \/ ParentsInterrupt(w)
        BY <4>1, <4>9 DEF ResumeAsksAgain, ParentsEnd, ParentsInterrupt, Local, Begun, At, Turn
      <4> QED
        BY <1>1, <2>3, <4>2, <4>3, <4>4, <4>5, <4>6, <4>7, <4>8, <4>9, <4>10
        DEF Continue, Start, RaiseUncovered
    <3>4. ASSUME NEW v \in Workers, Begun(v)
          PROVE  Begun(v)'
      BY <3>2, <3>3, <3>4 DEF Begun, At
    <3> QED
      BY <3>1, <3>4 DEF WorkInv
  <2> QED
    BY <2>1, <2>2, <2>3
<1>2. CASE UNCHANGED vars
  BY <1>2 DEF vars, WorkInv, Begun, At
<1> QED
  BY <1>1, <1>2 DEF Next

\* Unless a call outside the try blocks raises, some request that has begun
\* its turn is still at it as long as the session is shown as working.
THEOREM WorkingHasWorkerHolds == "uncovered" \notin Raises => (Spec => []WorkingHasWorker)
<1> SUFFICES ASSUME "uncovered" \notin Raises
             PROVE  Spec => []WorkingHasWorker
  OBVIOUS
<1>1. Init => WorkInv
  BY DEF Init, StoreInit, WorkInv
<1>2. TypeInv /\ WorkInv /\ [Next]_vars => WorkInv'
  BY WorkStep
<1>3. WorkInv => WorkingHasWorker
  BY DEF WorkInv, WorkingHasWorker, InTurn, Begun, At, Turn
<1>4. QED
  BY <1>1, <1>2, <1>3, TypeInductive, PTL DEF Spec

-----------------------------------------------------------------------------
(* The life of a packet, for a server that serves one request after another *)

\* The frames in which a packet is open, and what the refinement mapping makes of
\* the frames and of the packets issued
OpenIn(fs, p) == {f \in Interrupted(fs) : fs[f].packet = p}
PhaseIn(fs, is, p) ==
    IF p \notin is THEN "unasked" ELSE IF OpenIn(fs, p) # {} THEN "open" ELSE "closed"
AnsweredIn(fs, is, p) ==
    IF p \notin is THEN {}
    ELSE IF OpenIn(fs, p) = {} THEN Questions
    ELSE UNION {fs[f].answered : f \in OpenIn(fs, p)}

\* Each interrupted frame has a packet of its own.
WellFramed(fs, is) ==
    /\ \A f \in Interrupted(fs) : fs[f].packet \in is
    /\ \A f, g \in Interrupted(fs) : fs[f].packet = fs[g].packet => f = g

\* The frame that a worker answers still waits with the packet that the worker found,
\* and has no answers that the worker does not know.
Engaged(l, fs) ==
    l.kind = "answer" /\ l.pc \in {"begin", "append", "update", "resume"} =>
        /\ l.frame \in Interrupted(fs) /\ fs[l.frame].packet = l.packet
        /\ fs[l.frame].answered \subseteq l.progress
        /\ l.pc = "resume" => fs[l.frame].answered = Questions

LifeInv == WellFramed(frames, issued) /\ \A w \in Workers : Engaged(req[w], frames)

\* Frame f is written; of the others at most the rank changes.
OnlyFrame(f, fs, gs) ==
    \A g \in Frames : g # f => /\ gs[g].status = fs[g].status /\ gs[g].packet = fs[g].packet
                               /\ gs[g].answered = fs[g].answered

LEMMA SavedFrame ==
    ASSUME TypeInv, NEW f \in Frames, NEW status, NEW packet, NEW answered,
           SaveFrame(f, status, packet, answered)
    PROVE  /\ OnlyFrame(f, frames, frames') /\ frames'[f].status = status
           /\ frames'[f].packet = packet /\ frames'[f].answered = answered
<1>1. frames' = Written(f, status, packet, answered) /\ \A g \in Frames : frames[g] \in Frame
  BY DEF SaveFrame, TypeInv, TypeOK, StoreTypeOK
<1> QED
  BY <1>1 DEF Written, Frame, OnlyFrame

\* A packet that f neither had nor gets lives on as it was.
LEMMA Untouched ==
    ASSUME NEW fs, NEW gs, NEW is, NEW js, NEW f \in Frames, OnlyFrame(f, fs, gs),
           NEW p, f \notin OpenIn(fs, p), f \notin OpenIn(gs, p), p \in is <=> p \in js
    PROVE  PhaseIn(gs, js, p) = PhaseIn(fs, is, p) /\ AnsweredIn(gs, js, p) = AnsweredIn(fs, is, p)
<1>1. OpenIn(gs, p) = OpenIn(fs, p)
  BY DEF OpenIn, Interrupted, OnlyFrame
<1>2. \A g \in OpenIn(fs, p) : gs[g].answered = fs[g].answered
  BY DEF OpenIn, Interrupted, OnlyFrame
<1>3. {gs[g].answered : g \in OpenIn(gs, p)} = {fs[g].answered : g \in OpenIn(fs, p)}
  BY <1>1, <1>2
<1> QED
  BY <1>1, <1>3 DEF PhaseIn, AnsweredIn

LEMMA OpenPacket ==
    ASSUME NEW fs, NEW is, WellFramed(fs, is), NEW f \in Interrupted(fs)
    PROVE  /\ fs[f].packet \in is /\ OpenIn(fs, fs[f].packet) = {f}
           /\ PhaseIn(fs, is, fs[f].packet) = "open"
           /\ AnsweredIn(fs, is, fs[f].packet) = fs[f].answered
<1>1. fs[f].packet \in is /\ OpenIn(fs, fs[f].packet) = {f}
  BY DEF WellFramed, OpenIn
<1>2. UNION {fs[g].answered : g \in {f}} = fs[f].answered
  OBVIOUS
<1> QED
  BY <1>1, <1>2 DEF PhaseIn, AnsweredIn

\* The refinement mapping, before and after a step
LEMMA Mapping ==
    /\ PacketPhase = [p \in Packets |-> PhaseIn(frames, issued, p)]
    /\ PacketAnswers = [p \in Packets |-> AnsweredIn(frames, issued, p)]
    /\ PacketPhase' = [p \in Packets |-> PhaseIn(frames', issued', p)]
    /\ PacketAnswers' = [p \in Packets |-> AnsweredIn(frames', issued', p)]
BY DEF PacketPhase, PacketAnswers, PhaseIn, AnsweredIn, OpenIn, OpenFrames, Interrupted

\* Nothing becomes of any packet, or something of one of them.
LEMMA LifecycleStutters ==
    ASSUME UNCHANGED <<frames, issued>>
    PROVE  UNCHANGED Lifecycle!vars
BY DEF Lifecycle!vars, PacketPhase, PacketAnswers, OpenFrames, Interrupted

LEMMA Opened ==
    ASSUME NEW p \in Packets,
           PhaseIn(frames, issued, p) = "unasked", PhaseIn(frames', issued', p) = "open",
           AnsweredIn(frames', issued', p) = AnsweredIn(frames, issued, p),
           \A q \in Packets \ {p} :
                /\ PhaseIn(frames', issued', q) = PhaseIn(frames, issued, q)
                /\ AnsweredIn(frames', issued', q) = AnsweredIn(frames, issued, q)
    PROVE  Lifecycle!Next
<1>1. PacketPhase' = [PacketPhase EXCEPT ![p] = "open"] /\ PacketPhase[p] = "unasked"
  BY Mapping
<1>2. PacketAnswers' = PacketAnswers
  BY Mapping
<1> QED
  BY <1>1, <1>2 DEF Lifecycle!Next, Lifecycle!Ask

LEMMA GotAnswers ==
    ASSUME NEW p \in Packets, NEW answers \in SUBSET Questions,
           PhaseIn(frames, issued, p) = "open", PhaseIn(frames', issued', p) = "open",
           AnsweredIn(frames', issued', p) = AnsweredIn(frames, issued, p) \cup answers,
           \A q \in Packets \ {p} :
                /\ PhaseIn(frames', issued', q) = PhaseIn(frames, issued, q)
                /\ AnsweredIn(frames', issued', q) = AnsweredIn(frames, issued, q)
    PROVE  Lifecycle!Next
<1>1. PacketPhase' = PacketPhase /\ PacketPhase[p] = "open"
  BY Mapping
<1>2. PacketAnswers' = [PacketAnswers EXCEPT ![p] = @ \cup answers]
  BY Mapping
<1> QED
  BY <1>1, <1>2 DEF Lifecycle!Next, Lifecycle!Answer

LEMMA WasClosed ==
    ASSUME NEW p \in Packets,
           PhaseIn(frames, issued, p) = "open", PhaseIn(frames', issued', p) = "closed",
           AnsweredIn(frames, issued, p) = Questions, AnsweredIn(frames', issued', p) = Questions,
           \A q \in Packets \ {p} :
                /\ PhaseIn(frames', issued', q) = PhaseIn(frames, issued, q)
                /\ AnsweredIn(frames', issued', q) = AnsweredIn(frames, issued, q)
    PROVE  Lifecycle!Next
<1>1. /\ PacketPhase' = [PacketPhase EXCEPT ![p] = "closed"] /\ PacketPhase[p] = "open"
      /\ PacketAnswers[p] = Questions
  BY Mapping
<1>2. PacketAnswers' = PacketAnswers
  BY Mapping
<1> QED
  BY <1>1, <1>2 DEF Lifecycle!Next, Lifecycle!Close

LEMMA WasFollowed ==
    ASSUME NEW p \in Packets, NEW r \in Packets, p # r,
           PhaseIn(frames, issued, p) = "open", PhaseIn(frames', issued', p) = "closed",
           AnsweredIn(frames, issued, p) = Questions, AnsweredIn(frames', issued', p) = Questions,
           PhaseIn(frames, issued, r) = "unasked", PhaseIn(frames', issued', r) = "open",
           AnsweredIn(frames', issued', r) = AnsweredIn(frames, issued, r),
           \A q \in Packets \ {p, r} :
                /\ PhaseIn(frames', issued', q) = PhaseIn(frames, issued, q)
                /\ AnsweredIn(frames', issued', q) = AnsweredIn(frames, issued, q)
    PROVE  Lifecycle!Next
<1>1. /\ PacketPhase' = [PacketPhase EXCEPT ![p] = "closed", ![r] = "open"]
      /\ PacketPhase[p] = "open" /\ PacketPhase[r] = "unasked" /\ PacketAnswers[p] = Questions
  BY Mapping
<1>2. PacketAnswers' = PacketAnswers
  BY Mapping
<1> QED
  BY <1>1, <1>2 DEF Lifecycle!Next, Lifecycle!AskAgain

\* A worker that is in none of the calls about the frame it answers
NotEngaged(l) == l.kind # "answer" \/ l.pc \notin {"begin", "append", "update", "resume"}

\* Steps that write no frame, and that lead to none of those calls
LEMMA OtherStepLife ==
    ASSUME TypeInv, NEW w \in Workers,
           \/ ReceiveMessage(w) \/ StoreUserMessage(w) \/ GetSession(w) \/ ListMessages(w)
           \/ SaveContext(w) \/ RunEnds(w) \/ StoreReply(w) \/ GetForReply(w) \/ SaveReply(w)
           \/ FinishTurn(w) \/ RejectAnswer(w) \/ ParentsEnd(w) \/ PromoteAnswers(w)
           \/ RaiseCovered(w) \/ FailTurn(w) \/ RaiseUncovered(w) \/ Reactivate(w)
           \/ ReceiveAnswer(w) \/ GetForReactivate(w)
    PROVE  UNCHANGED <<frames, issued>> /\ NotEngaged(req'[w])
<1>1. UNCHANGED <<frames, issued>>
  BY DEF ReceiveMessage, StoreUserMessage, GetSession, ListMessages, SaveContext, RunEnds,
         StoreReply, GetForReply, SaveReply, FinishTurn, RejectAnswer, ParentsEnd, PromoteAnswers,
         RaiseCovered, FailTurn, RaiseUncovered, Reactivate, ReceiveAnswer, GetForReactivate
<1>2. req \in [Workers -> Local] /\ Free.kind = "none"
  BY DEF TypeInv, TypeOK, Free
<1>3. CASE FinishTurn(w) \/ RejectAnswer(w) \/ FailTurn(w) \/ RaiseUncovered(w) \/ Reactivate(w)
  <2>1. req'[w] = Free
    BY <1>2, <1>3 DEF FinishTurn, RejectAnswer, FailTurn, RaiseUncovered, Reactivate, Return
  <2> QED
    BY <1>1, <1>2, <2>1 DEF NotEngaged
<1>4. CASE SaveContext(w) \/ SaveReply(w) \/ PromoteAnswers(w) \/ RaiseCovered(w)
  <2>1. req'[w].pc \in {"run", "finish", "reply", "failed"}
    BY <1>2, <1>4 DEF SaveContext, SaveReply, PromoteAnswers, RaiseCovered, Drop, Local
  <2> QED
    BY <1>1, <2>1 DEF NotEngaged
<1>5. CASE StoreUserMessage(w) \/ GetSession(w) \/ ListMessages(w) \/ RunEnds(w) \/ ParentsEnd(w)
           \/ GetForReply(w)
  <2>1. req'[w].pc \in {"list", "save", "reply", "promote", "save_reply"} \/ req'[w].kind = "message"
    <3>1. CASE StoreUserMessage(w) \/ GetSession(w) \/ ListMessages(w)
      <4>1. req[w].kind = "message" /\ req'[w].kind = req[w].kind
        BY <1>2, <3>1 DEF StoreUserMessage, GetSession, ListMessages, Goto, At, Local
      <4> QED
        BY <4>1
    <3>2. CASE RunEnds(w) \/ ParentsEnd(w) \/ GetForReply(w)
      BY <1>2, <3>2 DEF RunEnds, ParentsEnd, GetForReply, Goto, At, Local
    <3> QED
      BY <1>5, <3>1, <3>2
  <2> QED
    BY <1>1, <2>1 DEF NotEngaged
<1>6. CASE StoreReply(w)
  <2>1. PICK m : req' = [req EXCEPT ![w].mine = m,
                           ![w].pc = IF req[w].reply = "text" THEN "get_reply" ELSE "finish"]
    BY <1>6 DEF StoreReply
  <2>2. req'[w].pc \in {"get_reply", "finish"}
    BY <2>1, <1>2 DEF Local
  <2> QED
    BY <1>1, <2>2 DEF NotEngaged
<1>7. CASE ReceiveMessage(w) \/ ReceiveAnswer(w) \/ GetForReactivate(w)
  <2>1. req'[w].kind \in {"message", "reactivate"} \/ req'[w].pc = "get_frame"
    <3>1. CASE ReceiveMessage(w)
      BY <1>2, <3>1 DEF ReceiveMessage, Free
    <3>2. CASE ReceiveAnswer(w)
      BY <1>2, <3>2 DEF ReceiveAnswer, Free
    <3>3. CASE GetForReactivate(w)
      BY <1>2, <3>3 DEF GetForReactivate, Free
    <3> QED
      BY <1>7, <3>1, <3>2, <3>3
  <2> QED
    BY <1>1, <2>1 DEF NotEngaged
<1> QED
  BY <1>3, <1>4, <1>5, <1>6, <1>7

LEMMA LifeSame ==
    ASSUME LifeInv, NEW w, Workers = {w}, UNCHANGED <<frames, issued>>, Engaged(req'[w], frames)
    PROVE  LifeInv' /\ [Lifecycle!Next]_(Lifecycle!vars)
<1>1. LifeInv'
  BY DEF LifeInv, WellFramed, Interrupted, Engaged
<1> QED
  BY <1>1, LifecycleStutters

\* Going on to the next call about the same frame
LEMMA EngagedStays ==
    ASSUME NEW l, NEW k, NEW fs, Engaged(l, fs), l.kind = "answer",
           l.pc \in {"begin", "append", "update"}, k.pc # "resume", k.frame = l.frame,
           k.packet = l.packet, k.progress = l.progress
    PROVE  Engaged(k, fs)
BY DEF Engaged

LEMMA GetFrameLife ==
    ASSUME TypeInv, LifeInv, NEW w, Workers = {w}, GetFrame(w)
    PROVE  LifeInv' /\ [Lifecycle!Next]_(Lifecycle!vars)
<1>1. PICK f \in Interrupted(frames), answers \in (SUBSET Questions) \ {{}} :
          req' = [req EXCEPT ![w].pc = "begin", ![w].frame = f, ![w].packet = frames[f].packet,
                             ![w].progress = MergedProgress(f, answers)]
  BY DEF GetFrame
<1>2. w \in Workers /\ req \in [Workers -> Local]
  BY DEF TypeInv, TypeOK
<1>3. /\ req'[w].pc = "begin" /\ req'[w].frame = f /\ req'[w].packet = frames[f].packet
      /\ req'[w].progress = MergedProgress(f, answers)
  BY <1>1, <1>2 DEF Local
<1>4. Engaged(req'[w], frames)
  BY <1>3 DEF Engaged, MergedProgress
<1> QED
  BY <1>4, LifeSame DEF GetFrame

LEMMA GoOnLife ==
    ASSUME TypeInv, LifeInv, NEW w, Workers = {w}, BeginTurn(w) \/ StoreAnswerMessage(w)
    PROVE  LifeInv' /\ [Lifecycle!Next]_(Lifecycle!vars)
<1>1. PICK pc \in {"get", "append", "update"} :
         /\ Goto(w, pc)
         /\ pc = "get" => req[w].kind # "answer"
         /\ req[w].pc \in {"begin", "append"} /\ (req[w].kind = "answer" \/ pc = "get")
  BY DEF BeginTurn, StoreAnswerMessage, At, Turn
<1>2. w \in Workers /\ req \in [Workers -> Local]
  BY DEF TypeInv, TypeOK
<1>3. /\ req'[w].pc = pc /\ req'[w].frame = req[w].frame /\ req'[w].packet = req[w].packet
      /\ req'[w].progress = req[w].progress /\ req'[w].kind = req[w].kind
  <2>1. req'[w] = [req[w] EXCEPT !.pc = pc] /\ req[w] \in Local
    BY <1>1, <1>2 DEF Goto
  <2> QED
    BY <2>1 DEF Local
<1>4. Engaged(req'[w], frames)
  <2>1. CASE pc = "get"
    BY <2>1, <1>3 DEF Engaged
  <2>2. CASE pc # "get"
    <3>1. Engaged(req[w], frames) /\ req'[w].pc # "resume" /\ req[w].kind = "answer"
      BY <2>2, <1>1, <1>2, <1>3 DEF LifeInv
    <3> QED
      BY <3>1, <1>1, <1>3, EngagedStays
  <2> QED
    BY <2>1, <2>2
<1>5. UNCHANGED <<frames, issued>>
  BY DEF BeginTurn, StoreAnswerMessage
<1> QED
  BY <1>4, <1>5, LifeSame

\* A new packet is put to the user, in a frame that was not waiting.
LEMMA AskLife ==
    ASSUME TypeInv, LifeInv, NEW w, Workers = {w}, NotEngaged(req'[w]),
           NEW f \in Frames, FreshFrame(f), NEW p \in Packets, NewPacket(p),
           SaveFrame(f, "interrupted", p, {})
    PROVE  LifeInv' /\ [Lifecycle!Next]_(Lifecycle!vars)
<1>1. /\ OnlyFrame(f, frames, frames') /\ frames'[f].status = "interrupted"
      /\ frames'[f].packet = p /\ frames'[f].answered = {}
  BY SavedFrame
<1>2. /\ p \notin issued /\ issued' = issued \cup {p} /\ f \notin Interrupted(frames)
      /\ f \in Interrupted(frames')
  BY <1>1 DEF NewPacket, FreshFrame, Interrupted
<1>3. WellFramed(frames', issued')
  <2>1. \A g \in Interrupted(frames') : g # f =>
            g \in Interrupted(frames) /\ frames'[g].packet = frames[g].packet
    BY <1>1 DEF OnlyFrame, Interrupted
  <2>2. \A g \in Interrupted(frames) : frames[g].packet \in issued
    BY DEF LifeInv, WellFramed
  <2> QED
    BY <2>1, <2>2, <1>1, <1>2 DEF LifeInv, WellFramed
<1>4. LifeInv'
  BY <1>3 DEF LifeInv, WellFramed, Interrupted, Engaged, NotEngaged
<1>5. PhaseIn(frames, issued, p) = "unasked" /\ AnsweredIn(frames, issued, p) = {}
  BY <1>2 DEF PhaseIn, AnsweredIn
<1>6. PhaseIn(frames', issued', p) = "open" /\ AnsweredIn(frames', issued', p) = {}
  <2>1. /\ PhaseIn(frames', issued', frames'[f].packet) = "open"
        /\ AnsweredIn(frames', issued', frames'[f].packet) = frames'[f].answered
    BY <1>2, <1>3, OpenPacket
  <2> QED
    BY <2>1, <1>1
<1>7. ASSUME NEW q \in Packets \ {p}
      PROVE  /\ PhaseIn(frames', issued', q) = PhaseIn(frames, issued, q)
             /\ AnsweredIn(frames', issued', q) = AnsweredIn(frames, issued, q)
  BY <1>1, <1>2, Untouched DEF OpenIn
<1> QED
  BY <1>4, <1>5, <1>6, <1>7, Opened

\* What a worker knows at update and at resume
LEMMA EngagedFacts ==
    ASSUME TypeInv, LifeInv, NEW w \in Workers, At(w, {"answer"}, "update") \/ At(w, {"answer"}, "resume")
    PROVE  /\ req[w].frame \in Interrupted(frames) /\ req[w].frame \in Frames
           /\ frames[req[w].frame].packet = req[w].packet
           /\ req[w].packet \in Packets /\ req[w].packet \in issued
           /\ req[w].progress \in SUBSET Questions
           /\ frames[req[w].frame].answered \subseteq req[w].progress
           /\ req[w].pc = "resume" => frames[req[w].frame].answered = Questions
<1>1. Engaged(req[w], frames) /\ Holds(w) /\ req[w] \in Local
  BY DEF LifeInv, TypeInv, TypeOK
<1>2. req[w].kind = "answer" /\ req[w].pc \in {"update", "resume"}
  BY DEF At
<1>3. /\ req[w].frame \in Interrupted(frames) /\ frames[req[w].frame].packet = req[w].packet
      /\ frames[req[w].frame].answered \subseteq req[w].progress
      /\ req[w].pc = "resume" => frames[req[w].frame].answered = Questions
  BY <1>1, <1>2 DEF Engaged
<1>4. req[w].frame \in Frames /\ req[w].packet \in Packets /\ req[w].progress \in SUBSET Questions
  BY <1>1, <1>2 DEF Holds, Local
<1> QED
  BY <1>3, <1>4 DEF LifeInv, WellFramed

\* The last frame in which a packet was open leaves it.
LEMMA LeftPacket ==
    ASSUME NEW fs, NEW gs, NEW is, NEW js, WellFramed(fs, is), NEW f \in Interrupted(fs),
           f \in Frames, OnlyFrame(f, fs, gs), f \notin OpenIn(gs, fs[f].packet), fs[f].packet \in js
    PROVE  /\ PhaseIn(gs, js, fs[f].packet) = "closed"
           /\ AnsweredIn(gs, js, fs[f].packet) = Questions
<1>1. OpenIn(gs, fs[f].packet) = {}
  BY DEF OpenIn, Interrupted, OnlyFrame, WellFramed
<1> QED
  BY <1>1 DEF PhaseIn, AnsweredIn

LEMMA RecordProgressLife ==
    ASSUME TypeInv, LifeInv, NEW w, Workers = {w}, RecordProgress(w)
    PROVE  LifeInv' /\ [Lifecycle!Next]_(Lifecycle!vars)
<1> DEFINE f == req[w].frame
           p == req[w].packet
<1>1. At(w, {"answer"}, "update") /\ SaveFrame(f, "interrupted", p, req[w].progress) /\ issued' = issued
  BY DEF RecordProgress, UpdateFrameStatus
<1>2. w \in Workers /\ req \in [Workers -> Local] /\ WellFramed(frames, issued)
  BY DEF TypeInv, TypeOK, LifeInv
<1>3. /\ f \in Interrupted(frames) /\ f \in Frames /\ frames[f].packet = p /\ p \in Packets
      /\ p \in issued /\ req[w].progress \in SUBSET Questions
      /\ frames[f].answered \subseteq req[w].progress
  BY <1>1, <1>2, EngagedFacts
<1>4. /\ OnlyFrame(f, frames, frames') /\ frames'[f].status = "interrupted"
      /\ frames'[f].packet = p /\ frames'[f].answered = req[w].progress
  BY <1>1, <1>3, SavedFrame
<1> HIDE DEF f, p
<1>5. f \in Interrupted(frames')
  BY <1>3, <1>4 DEF Interrupted
<1>6. WellFramed(frames', issued')
  BY <1>1, <1>2, <1>3, <1>4 DEF WellFramed, OnlyFrame, Interrupted
<1>7. Engaged(req'[w], frames')
  <2>1. CASE AllAnswered(req[w].progress)
    <3>1. req'[w] = [req[w] EXCEPT !.pc = "resume"] /\ req[w] \in Local
      BY <2>1, <1>2 DEF RecordProgress, Goto
    <3>2. req'[w].frame = f /\ req'[w].packet = p /\ req'[w].progress = req[w].progress
      BY <3>1 DEF Local, f, p
    <3> QED
      BY <3>2, <2>1, <1>4, <1>5 DEF Engaged, AllAnswered
  <2>2. CASE ~AllAnswered(req[w].progress)
    <3>1. req'[w].pc = "reply"
      BY <2>2, <1>2 DEF RecordProgress, Local
    <3> QED
      BY <3>1 DEF Engaged
  <2> QED
    BY <2>1, <2>2
<1>8. LifeInv'
  BY <1>6, <1>7 DEF LifeInv, WellFramed, Interrupted, Engaged
<1>9. /\ PhaseIn(frames, issued, p) = "open" /\ AnsweredIn(frames, issued, p) = frames[f].answered
      /\ PhaseIn(frames', issued', p) = "open" /\ AnsweredIn(frames', issued', p) = req[w].progress
  <2>1. /\ PhaseIn(frames, issued, frames[f].packet) = "open"
        /\ AnsweredIn(frames, issued, frames[f].packet) = frames[f].answered
    BY <1>2, <1>3, OpenPacket
  <2>2. /\ PhaseIn(frames', issued', frames'[f].packet) = "open"
        /\ AnsweredIn(frames', issued', frames'[f].packet) = frames'[f].answered
    BY <1>5, <1>6, OpenPacket
  <2> QED
    BY <2>1, <2>2, <1>3, <1>4
<1>10. AnsweredIn(frames', issued', p) = AnsweredIn(frames, issued, p) \cup req[w].progress
  BY <1>3, <1>9
<1>11. ASSUME NEW q \in Packets \ {p}
       PROVE  /\ PhaseIn(frames', issued', q) = PhaseIn(frames, issued, q)
              /\ AnsweredIn(frames', issued', q) = AnsweredIn(frames, issued, q)
  BY <1>1, <1>3, <1>4, Untouched DEF OpenIn
<1> QED
  BY <1>3, <1>8, <1>9, <1>10, <1>11, GotAnswers

LEMMA ResumeAsksAgainLife ==
    ASSUME TypeInv, LifeInv, NEW w, Workers = {w}, ResumeAsksAgain(w)
    PROVE  LifeInv' /\ [Lifecycle!Next]_(Lifecycle!vars)
<1> DEFINE f == req[w].frame
           p == req[w].packet
<1>1. PICK r \in Packets : NewPacket(r) /\ SaveFrame(f, "interrupted", r, {})
  BY DEF ResumeAsksAgain
<1>2. w \in Workers /\ req \in [Workers -> Local] /\ WellFramed(frames, issued)
      /\ At(w, {"answer"}, "resume")
  BY DEF TypeInv, TypeOK, LifeInv, ResumeAsksAgain
<1>3. /\ f \in Interrupted(frames) /\ f \in Frames /\ frames[f].packet = p /\ p \in Packets
      /\ p \in issued /\ frames[f].answered = Questions
  BY <1>2, EngagedFacts DEF At
<1>4. /\ OnlyFrame(f, frames, frames') /\ frames'[f].status = "interrupted"
      /\ frames'[f].packet = r /\ frames'[f].answered = {}
  BY <1>1, <1>3, SavedFrame
<1>5. r \notin issued /\ issued' = issued \cup {r}
  BY <1>1 DEF NewPacket
<1>6. req'[w].pc = "promote"
  BY <1>2 DEF ResumeAsksAgain, Local
<1> HIDE DEF f, p
<1>7. f \in Interrupted(frames')
  BY <1>3, <1>4 DEF Interrupted
<1>8. WellFramed(frames', issued')
  <2>1. \A g \in Interrupted(frames') : g # f =>
            g \in Interrupted(frames) /\ frames'[g].packet = frames[g].packet
    BY <1>4 DEF OnlyFrame, Interrupted
  <2>2. \A g \in Interrupted(frames) : frames[g].packet \in issued
    BY <1>2 DEF WellFramed
  <2> QED
    BY <2>1, <2>2, <1>2, <1>4, <1>5 DEF WellFramed
<1>9. LifeInv'
  BY <1>6, <1>8 DEF LifeInv, WellFramed, Interrupted, Engaged
<1>10. /\ PhaseIn(frames, issued, p) = "open" /\ AnsweredIn(frames, issued, p) = Questions
       /\ PhaseIn(frames', issued', p) = "closed" /\ AnsweredIn(frames', issued', p) = Questions
  <2>1. /\ PhaseIn(frames, issued, frames[f].packet) = "open"
        /\ AnsweredIn(frames, issued, frames[f].packet) = frames[f].answered
    BY <1>2, <1>3, OpenPacket
  <2>2. f \notin OpenIn(frames', frames[f].packet)
    BY <1>3, <1>4, <1>5 DEF OpenIn
  <2>3. /\ PhaseIn(frames', issued', frames[f].packet) = "closed"
        /\ AnsweredIn(frames', issued', frames[f].packet) = Questions
    BY <2>2, <1>2, <1>3, <1>4, <1>5, LeftPacket
  <2> QED
    BY <2>1, <2>3, <1>3
<1>11. /\ PhaseIn(frames, issued, r) = "unasked" /\ PhaseIn(frames', issued', r) = "open"
       /\ AnsweredIn(frames', issued', r) = AnsweredIn(frames, issued, r)
  <2>1. /\ PhaseIn(frames', issued', frames'[f].packet) = "open"
        /\ AnsweredIn(frames', issued', frames'[f].packet) = frames'[f].answered
    BY <1>7, <1>8, OpenPacket
  <2>2. PhaseIn(frames, issued, r) = "unasked" /\ AnsweredIn(frames, issued, r) = {}
    BY <1>5 DEF PhaseIn, AnsweredIn
  <2> QED
    BY <2>1, <2>2, <1>4
<1>12. ASSUME NEW q \in Packets \ {p, r}
       PROVE  /\ PhaseIn(frames', issued', q) = PhaseIn(frames, issued, q)
              /\ AnsweredIn(frames', issued', q) = AnsweredIn(frames, issued, q)
  BY <1>3, <1>4, <1>5, Untouched DEF OpenIn
<1> QED
  BY <1>3, <1>5, <1>9, <1>10, <1>11, <1>12, WasFollowed

LEMMA ResumeEndsLife ==
    ASSUME TypeInv, LifeInv, NEW w, Workers = {w}, ResumeEnds(w)
    PROVE  LifeInv' /\ [Lifecycle!Next]_(Lifecycle!vars)
<1> DEFINE f == req[w].frame
           p == req[w].packet
<1>1. PICK status \in {"completed", "error"} : SaveFrame(f, status, NoPacket, req[w].progress)
  BY DEF ResumeEnds
<1>2. w \in Workers /\ req \in [Workers -> Local] /\ WellFramed(frames, issued)
      /\ At(w, {"answer"}, "resume") /\ issued' = issued
  BY DEF TypeInv, TypeOK, LifeInv, ResumeEnds
<1>3. /\ f \in Interrupted(frames) /\ f \in Frames /\ frames[f].packet = p /\ p \in Packets
      /\ p \in issued /\ frames[f].answered = Questions
  BY <1>2, EngagedFacts DEF At
<1>4. OnlyFrame(f, frames, frames') /\ frames'[f].status = status /\ status # "interrupted"
  BY <1>1, <1>3, SavedFrame
<1>5. req'[w].pc = "parents"
  BY <1>2 DEF ResumeEnds, Goto, Local
<1> HIDE DEF f, p
<1>6. f \notin Interrupted(frames') /\ Interrupted(frames') \subseteq Interrupted(frames)
  BY <1>4 DEF Interrupted, OnlyFrame
<1>7. WellFramed(frames', issued')
  BY <1>2, <1>4, <1>6 DEF WellFramed, OnlyFrame, Interrupted
<1>8. LifeInv'
  BY <1>5, <1>7 DEF LifeInv, WellFramed, Interrupted, Engaged
<1>9. /\ PhaseIn(frames, issued, p) = "open" /\ AnsweredIn(frames, issued, p) = Questions
      /\ PhaseIn(frames', issued', p) = "closed" /\ AnsweredIn(frames', issued', p) = Questions
  <2>1. /\ PhaseIn(frames, issued, frames[f].packet) = "open"
        /\ AnsweredIn(frames, issued, frames[f].packet) = frames[f].answered
    BY <1>2, <1>3, OpenPacket
  <2>2. f \notin OpenIn(frames', frames[f].packet)
    BY <1>6 DEF OpenIn
  <2>3. /\ PhaseIn(frames', issued', frames[f].packet) = "closed"
        /\ AnsweredIn(frames', issued', frames[f].packet) = Questions
    BY <2>2, <1>2, <1>3, <1>4, LeftPacket
  <2> QED
    BY <2>1, <2>3, <1>3
<1>10. ASSUME NEW q \in Packets \ {p}
       PROVE  /\ PhaseIn(frames', issued', q) = PhaseIn(frames, issued, q)
              /\ AnsweredIn(frames', issued', q) = AnsweredIn(frames, issued, q)
  BY <1>2, <1>3, <1>4, <1>6, Untouched DEF OpenIn
<1> QED
  BY <1>3, <1>8, <1>9, <1>10, WasClosed

\* Every step, one request at a time
LEMMA LifeStep ==
    ASSUME TypeInv, LifeInv, NEW w, Workers = {w}, [Next]_vars
    PROVE  LifeInv' /\ [Lifecycle!Next]_(Lifecycle!vars)
<1>1. CASE UNCHANGED <<frames, issued, req>>
  <2>1. Engaged(req'[w], frames)
    BY <1>1 DEF LifeInv
  <2> QED
    BY <1>1, <2>1, LifeSame
<1>2. CASE NotEngaged(req'[w]) /\ UNCHANGED <<frames, issued>>
  <2>1. Engaged(req'[w], frames)
    BY <1>2 DEF NotEngaged, Engaged
  <2> QED
    BY <1>2, <2>1, LifeSame
<1>3. CASE RunInterrupts(w) \/ ParentsInterrupt(w)
  <2>1. PICK f \in Frames, p \in Packets :
            FreshFrame(f) /\ NewPacket(p) /\ SaveFrame(f, "interrupted", p, {})
    BY <1>3 DEF RunInterrupts, ParentsInterrupt
  <2>2. w \in Workers /\ req \in [Workers -> Local]
    BY DEF TypeInv, TypeOK
  <2>3. req'[w].pc \in {"reply", "promote"}
    BY <1>3, <2>2 DEF RunInterrupts, ParentsInterrupt, Local
  <2>4. NotEngaged(req'[w])
    BY <2>3 DEF NotEngaged
  <2> QED
    BY <2>1, <2>4, AskLife
<1>4. SaveRelatedFrame(w) \/ Cancel(w) \/ Rename(w) \/ Archive(w) => UNCHANGED <<frames, issued, req>>
  BY DEF SaveRelatedFrame, Cancel, Rename, Archive
<1>5. UNCHANGED vars => UNCHANGED <<frames, issued, req>>
  BY DEF vars
<1>6. UNCHANGED vars \/ Continue(w) \/ SaveRelatedFrame(w) \/ Start(w)
  BY DEF Next
<1> QED
  BY <1>1, <1>2, <1>3, <1>4, <1>5, <1>6, OtherStepLife, GetFrameLife, GoOnLife,
     RecordProgressLife, ResumeAsksAgainLife, ResumeEndsLife
  DEF Continue, Start

\* A server that serves one request after another gives every packet the life
\* that ClarificationLifecycle promises it, whichever requests come in and
\* wherever they raise: a packet is asked once, loses no answer, and is closed
\* once and only when each of its questions is answered.
THEOREM PacketLifecycleHolds == ASSUME NEW w, Workers = {w} PROVE Spec => PacketLifecycle
<1>1. Init => LifeInv /\ Lifecycle!Init
  <2> SUFFICES ASSUME Init PROVE LifeInv /\ Lifecycle!Init
    OBVIOUS
  <2>1. Interrupted(frames) = {} /\ issued = {} /\ req = [v \in Workers |-> Free]
    BY DEF Init, StoreInit, Interrupted
  <2>2. LifeInv
    BY <2>1 DEF LifeInv, WellFramed, Engaged, Free
  <2>3. Lifecycle!Init
    BY <2>1 DEF Lifecycle!Init, PacketPhase, PacketAnswers
  <2> QED
    BY <2>2, <2>3
<1>2. TypeInv /\ LifeInv /\ [Next]_vars => LifeInv' /\ [Lifecycle!Next]_(Lifecycle!vars)
  BY LifeStep
<1>3. QED
  BY <1>1, <1>2, TypeInductive, PTL DEF Spec, PacketLifecycle, Lifecycle!Spec

-----------------------------------------------------------------------------
(* What users find between requests, for such a server.                     *)

\* The process record says that it waits only when a frame does, and no answer
\* is dealt with while it says so: it is the answer that ends the frame.
WaitInv ==
    /\ process.status = "waiting_for_user" => process.resumable /\ Interrupted(frames) # {}
    /\ \A w \in Workers :
          /\ req[w].kind = "answer" /\ req[w].pc \in {"append", "update", "resume"} =>
                process.status = "working"
          /\ /\ req[w].pc \in {"promote", "reply", "get_reply", "save_reply", "finish"}
             /\ req[w].reply = "packet"
             => Interrupted(frames) # {}

LEMMA WaitStep ==
    ASSUME TypeInv, WaitInv, NEW w, Workers = {w}, [Next]_vars
    PROVE  WaitInv'
<1> DEFINE l == req[w]
           k == req'[w]
           Replying == {"promote", "reply", "get_reply", "save_reply", "finish"}
<1>1. w \in Workers /\ req \in [Workers -> Local]
  BY DEF TypeInv, TypeOK
<1>2. /\ process.status = "waiting_for_user" => process.resumable /\ Interrupted(frames) # {}
      /\ l.kind = "answer" /\ l.pc \in {"append", "update", "resume"} => process.status = "working"
      /\ l.pc \in Replying /\ l.reply = "packet" => Interrupted(frames) # {}
  BY <1>1 DEF WaitInv
<1>3. ASSUME /\ process'.status = "waiting_for_user" => process'.resumable /\ Interrupted(frames') # {}
             /\ k.kind = "answer" /\ k.pc \in {"append", "update", "resume"}
                => process'.status = "working"
             /\ k.pc \in Replying /\ k.reply = "packet" => Interrupted(frames') # {}
      PROVE  WaitInv'
  BY <1>3 DEF WaitInv, Interrupted
<1> HIDE DEF l, k
<1>4. CASE UNCHANGED <<frames, process, req>>
  BY <1>2, <1>3, <1>4 DEF l, k
<1>5. CASE /\ UNCHANGED <<frames, process>>
           /\ k.kind # "answer" \/ k.pc \notin {"append", "update", "resume"}
           /\ k.pc \notin Replying \/ k.reply # "packet"
  BY <1>2, <1>3, <1>5
<1>6. CASE ReceiveMessage(w) \/ ReceiveAnswer(w) \/ GetForReactivate(w)
  <2>1. k.pc \in {"append", "get_frame", "put_active"} /\ (k.pc = "append" => k.kind = "message")
    BY <1>1, <1>6 DEF ReceiveMessage, ReceiveAnswer, GetForReactivate, Free, k
  <2> QED
    BY <1>5, <1>6, <2>1 DEF ReceiveMessage, ReceiveAnswer, GetForReactivate
<1>7. CASE RejectAnswer(w) \/ RaiseUncovered(w) \/ Reactivate(w)
  <2>1. k = Free
    BY <1>1, <1>7 DEF RejectAnswer, RaiseUncovered, Reactivate, Return, k
  <2> QED
    BY <1>5, <1>7, <2>1 DEF RejectAnswer, RaiseUncovered, Reactivate, Free
<1>8. CASE RunEnds(w) \/ ParentsEnd(w)
  <2>1. k.reply \in {"text", "blank"} /\ k.pc \in {"reply", "promote"}
    BY <1>1, <1>8 DEF RunEnds, ParentsEnd, Local, k
  <2> QED
    BY <1>5, <1>8, <2>1 DEF RunEnds, ParentsEnd
<1>9. CASE StoreUserMessage(w) \/ GetSession(w) \/ ListMessages(w) \/ SaveContext(w) \/ GetFrame(w)
           \/ RaiseCovered(w)
  <2>1. k.pc \in {"begin", "list", "save", "run", "failed"}
    <3>1. CASE GetFrame(w)
      <4>1. PICK f \in Interrupted(frames), answers \in (SUBSET Questions) \ {{}} :
               req' = [req EXCEPT ![w].pc = "begin", ![w].frame = f, ![w].packet = frames[f].packet,
                                  ![w].progress = MergedProgress(f, answers)]
        BY <3>1 DEF GetFrame
      <4> QED
        BY <4>1, <1>1 DEF Local, k
    <3>2. CASE StoreUserMessage(w) \/ GetSession(w) \/ ListMessages(w)
      BY <3>2, <1>1 DEF StoreUserMessage, GetSession, ListMessages, Goto, Local, k
    <3>3. CASE SaveContext(w) \/ RaiseCovered(w)
      BY <3>3, <1>1 DEF SaveContext, RaiseCovered, Goto, Drop, Local, k
    <3> QED
      BY <1>9, <3>1, <3>2, <3>3
  <2> QED
    BY <1>5, <1>9, <2>1
    DEF StoreUserMessage, GetSession, ListMessages, SaveContext, GetFrame, RaiseCovered
<1>10. CASE StoreReply(w) \/ GetForReply(w) \/ SaveReply(w) \/ PromoteAnswers(w)
  <2>1. l.pc \in Replying
    BY <1>10 DEF StoreReply, GetForReply, SaveReply, PromoteAnswers, At, l
  <2>2. k.pc \in Replying /\ k.reply = l.reply
    <3>1. CASE StoreReply(w)
      <4>1. PICK m : req' = [req EXCEPT ![w].mine = m,
                               ![w].pc = IF req[w].reply = "text" THEN "get_reply" ELSE "finish"]
        BY <3>1 DEF StoreReply
      <4> QED
        BY <4>1, <1>1 DEF Local, k, l
    <3>2. CASE GetForReply(w) \/ SaveReply(w) \/ PromoteAnswers(w)
      BY <3>2, <1>1 DEF GetForReply, SaveReply, PromoteAnswers, Drop, Local, k, l
    <3> QED
      BY <3>1, <3>2, <1>10
  <2>3. UNCHANGED <<frames, process>>
    BY <1>10 DEF StoreReply, GetForReply, SaveReply, PromoteAnswers
  <2> QED
    BY <1>2, <1>3, <2>1, <2>2, <2>3
<1>11. CASE StoreAnswerMessage(w)
  <2>1. l.kind = "answer" /\ l.pc = "append" /\ k.pc = "update" /\ UNCHANGED <<frames, process>>
    BY <1>1, <1>11 DEF StoreAnswerMessage, At, Goto, Local, k, l
  <2> QED
    BY <1>2, <1>3, <2>1
<1>12. CASE BeginTurn(w)
  <2>1. process'.status = "working" /\ k.pc \in {"get", "append"}
    BY <1>1, <1>12 DEF BeginTurn, BeginProcess, Goto, Local, k
  <2> QED
    BY <1>3, <2>1
<1>13. CASE FinishTurn(w) \/ FailTurn(w)
  <2>1. k = Free /\ frames' = frames
    BY <1>1, <1>13 DEF FinishTurn, FailTurn, Return, k
  <2>2. process'.status = "waiting_for_user" => process'.resumable /\ Interrupted(frames) # {}
    BY <1>2, <1>13 DEF FinishTurn, FailTurn, Outcome, FinishProcess, At, l
  <2> QED
    BY <1>3, <2>1, <2>2 DEF Free
<1>14. CASE RunInterrupts(w) \/ ParentsInterrupt(w)
  <2>1. PICK f \in Frames, p \in Packets : SaveFrame(f, "interrupted", p, {})
    BY <1>14 DEF RunInterrupts, ParentsInterrupt
  <2>2. Interrupted(frames') # {}
    BY <2>1, SavedFrame DEF Interrupted
  <2>3. k.pc \in {"reply", "promote"} /\ process' = process
    BY <1>1, <1>14 DEF RunInterrupts, ParentsInterrupt, Local, k
  <2> QED
    BY <1>2, <1>3, <2>2, <2>3
<1>15. CASE RecordProgress(w) \/ ResumeAsksAgain(w)
  <2>1. l.kind = "answer" /\ l.pc \in {"update", "resume"} /\ l.frame \in Frames
    BY <1>1, <1>15 DEF RecordProgress, ResumeAsksAgain, At, TypeInv, Holds, l
  <2>2. PICK p, answers : SaveFrame(req[w].frame, "interrupted", p, answers)
    BY <1>15 DEF RecordProgress, ResumeAsksAgain, UpdateFrameStatus
  <2>3. Interrupted(frames') # {}
    BY <2>1, <2>2, SavedFrame DEF Interrupted, l
  <2>4. process' = process
    BY <1>15 DEF RecordProgress, ResumeAsksAgain
  <2> QED
    BY <1>2, <1>3, <2>1, <2>3, <2>4
<1>16. CASE ResumeEnds(w)
  <2>1. l.kind = "answer" /\ l.pc = "resume" /\ k.pc = "parents" /\ process' = process
    BY <1>1, <1>16 DEF ResumeEnds, At, Goto, Local, k, l
  <2> QED
    BY <1>2, <1>3, <2>1
<1>17. SaveRelatedFrame(w) \/ Cancel(w) \/ Rename(w) \/ Archive(w) \/ UNCHANGED vars
       => UNCHANGED <<frames, process, req>>
  BY DEF SaveRelatedFrame, Cancel, Rename, Archive, vars
<1> QED
  BY <1>4, <1>6, <1>7, <1>8, <1>9, <1>10, <1>11, <1>12, <1>13, <1>14, <1>15, <1>16, <1>17
  DEF Next, Continue, Start

\* Between two requests, a session that says it waits for the user can be
\* resumed, and has a frame that waits with a packet to answer; wherever the
\* requests before raised.
THEOREM WaitingIsResumableHolds == ASSUME NEW w, Workers = {w} PROVE Spec => []WaitingIsResumable
<1>1. Init => WaitInv /\ LifeInv
  BY DEF Init, StoreInit, WaitInv, LifeInv, WellFramed, Engaged, Interrupted, Free
<1>2. TypeInv /\ LifeInv /\ WaitInv /\ [Next]_vars => LifeInv' /\ WaitInv'
  BY LifeStep, WaitStep
<1>3. LifeInv /\ WaitInv => WaitingIsResumable
  BY DEF LifeInv, WellFramed, WaitInv, WaitingIsResumable
<1>4. QED
  BY <1>1, <1>2, <1>3, TypeInductive, PTL DEF Spec

\* The packets that have been answered and whose frame has gone on
ClosedIn(fs, is) == {p \in is : OpenIn(fs, p) = {}}
SameHistory(copy, r) == copy.history = r.history /\ copy.promoted = r.promoted

\* The worker has a copy of the session which it will write back.
HasCopy(l) ==
    \/ l.pc \in {"list", "save", "save_reply", "put_active"}
    \/ l.kind = "answer" /\ l.pc \in {"get_frame", "begin", "append", "update", "resume",
                                      "parents", "promote"}

\* What the row r still lacks is what the worker is about to add to it: of the visible
\* messages ms and of the closed packets.
OwedMessages(l, ms) ==
    IF l.kind = "message" /\ l.pc \in {"begin", "get", "list", "save"} THEN ms
    ELSE IF l.pc \in {"get_reply", "save_reply"} THEN {l.mine} ELSE {}
OwedPackets(l) ==
    IF l.kind = "answer" /\ l.pc \in {"parents", "promote"} THEN {l.packet} ELSE {}

InHand(l, r, ms, closed) ==
    /\ HasCopy(l) => SameHistory(l.row, r)
    /\ l.pc = "save" => l.listed = ms
    /\ \A m \in ms \ OwedMessages(l, ms) : r.history[m] > 0
    /\ \A p \in closed \ OwedPackets(l) : r.promoted[p] > 0
    /\ l.pc # "failed"

CompleteInv == \A w \in Workers : InHand(req[w], row, VisibleMessages, ClosedIn(frames, issued))

LEMMA SyncKeeps ==
    ASSUME TypeInv, NEW fs, SyncActive(fs)
    PROVE  SameHistory(row', row)
BY DEF SyncActive, SameHistory, TypeInv, TypeOK, StoreTypeOK, Row

LEMMA AppendKeeps ==
    ASSUME TypeInv, NEW m \in Messages, NEW kind \in MessageKinds, NEW fromUser \in BOOLEAN,
           AppendMessage(m, kind, fromUser)
    PROVE  /\ SameHistory(row', row)
           /\ VisibleMessages' = IF kind = "visible" THEN VisibleMessages \cup {m} ELSE VisibleMessages
<1>1. row \in Row /\ log \in [Messages -> MessageKinds \cup {"absent"}]
  BY DEF TypeInv, TypeOK, StoreTypeOK
<1>2. SameHistory(row', row)
  BY <1>1 DEF AppendMessage, SameHistory, Row
<1>3. log[m] = "absent" /\ log' = [log EXCEPT ![m] = kind]
  BY DEF AppendMessage, NextMessage
<1>4. \A n \in Messages : log'[n] = "visible" <=> (IF n = m THEN kind = "visible" ELSE log[n] = "visible")
  BY <1>1, <1>3
<1>5. m \notin VisibleMessages
  BY <1>3 DEF VisibleMessages
<1> QED
  BY <1>2, <1>4, <1>5 DEF VisibleMessages

\* Frame f is the only one written, and what packet p was open in it.
LEMMA ClosedOnly ==
    ASSUME NEW fs, NEW gs, NEW is, NEW js, NEW f \in Frames, NEW p, OnlyFrame(f, fs, gs),
           f \in Interrupted(fs) => fs[f].packet = p,
           \A q \in js \ is : f \in OpenIn(gs, q)
    PROVE  ClosedIn(gs, js) \subseteq ClosedIn(fs, is) \cup {p}
BY DEF ClosedIn, OpenIn, Interrupted, OnlyFrame

\* Asking anew closes nothing.
LEMMA ClosedByAsking ==
    ASSUME TypeInv, NEW f \in Frames, FreshFrame(f), NEW p \in Packets, NewPacket(p),
           SaveFrame(f, "interrupted", p, {})
    PROVE  ClosedIn(frames', issued') \subseteq ClosedIn(frames, issued) /\ SameHistory(row', row)
<1>1. /\ OnlyFrame(f, frames, frames') /\ frames'[f].status = "interrupted" /\ frames'[f].packet = p
  BY SavedFrame
<1>2. f \in OpenIn(frames', p) /\ issued' = issued \cup {p} /\ f \notin Interrupted(frames)
  BY <1>1 DEF OpenIn, Interrupted, NewPacket, FreshFrame
<1>3. ClosedIn(frames', issued') \subseteq ClosedIn(frames, issued) \cup {p}
  BY <1>1, <1>2, ClosedOnly
<1>4. p \notin ClosedIn(frames', issued')
  BY <1>2 DEF ClosedIn
<1> QED
  BY <1>3, <1>4, SyncKeeps DEF SaveFrame

LEMMA CompleteStep ==
    ASSUME Raises = {}, "cancel" \notin Kinds,
           TypeInv, LifeInv, CompleteInv, NEW w, Workers = {w}, [Next]_vars
    PROVE  CompleteInv'
<1> DEFINE l == req[w]
           k == req'[w]
           V == VisibleMessages
           C == ClosedIn(frames, issued)
           D == ClosedIn(frames', issued')
<1>1. /\ w \in Workers /\ req \in [Workers -> Local] /\ l \in Local /\ row \in Row
      /\ C \subseteq Packets /\ V \subseteq Messages
  BY DEF TypeInv, TypeOK, StoreTypeOK, ClosedIn, VisibleMessages
<1>2. InHand(l, row, V, C)
  BY <1>1 DEF CompleteInv
<1>3. InHand(k, row', V', D) => CompleteInv'
  BY DEF CompleteInv
<1>4. UNCHANGED log => V' = V
  BY DEF VisibleMessages
<1>5. UNCHANGED <<frames, issued>> => D = C
  BY DEF ClosedIn, OpenIn, Interrupted
<1>6. \A pc : Goto(w, pc) => k = [l EXCEPT !.pc = pc]
  BY <1>1 DEF Goto
<1>7. \A pc : Drop(w, pc) => k = [l EXCEPT !.pc = pc, !.row = NewRow, !.listed = {}]
  BY <1>1 DEF Drop
<1>8. Return(w) => k = Free
  BY <1>1 DEF Return
<1> HIDE DEF k, V, D
<1>10. CASE UNCHANGED <<req, log, frames, issued>> /\ SameHistory(row', row)
  <2>1. k = l
    BY <1>10 DEF k
  <2> QED
    BY <2>1, <1>2, <1>3, <1>4, <1>5, <1>10 DEF InHand, SameHistory
<1>11. CASE ReceiveMessage(w) \/ ReceiveAnswer(w) \/ GetForReactivate(w)
  <2>1. l.pc = "idle" /\ UNCHANGED <<row, log, frames, issued>>
    BY <1>11 DEF ReceiveMessage, ReceiveAnswer, GetForReactivate, Accept
  <2>2. \/ k.pc = "append" /\ k.kind = "message"
        \/ k.pc \in {"get_frame", "put_active"} /\ k.row = row
    <3>1. CASE ReceiveMessage(w)
      BY <1>1, <3>1 DEF ReceiveMessage, Free, k
    <3>2. CASE ReceiveAnswer(w)
      BY <1>1, <3>2 DEF ReceiveAnswer, Free, k
    <3>3. CASE GetForReactivate(w)
      BY <1>1, <3>3 DEF GetForReactivate, Free, k
    <3> QED
      BY <1>11, <3>1, <3>2, <3>3
  <2> QED
    BY <2>1, <2>2, <1>2, <1>3, <1>4, <1>5
    DEF InHand, HasCopy, OwedMessages, OwedPackets, SameHistory
<1>12. CASE StoreUserMessage(w)
  <2>1. PICK m \in Messages, kind \in {"visible", "blank"} : AppendMessage(m, kind, TRUE)
    BY <1>12 DEF StoreUserMessage
  <2>2. SameHistory(row', row)
    BY <2>1, AppendKeeps DEF MessageKinds
  <2>3. l.kind = "message" /\ l.pc = "append" /\ k = [l EXCEPT !.pc = "begin"] /\ D = C
    BY <1>5, <1>6, <1>12 DEF StoreUserMessage, At
  <2>4. k.kind = "message" /\ k.pc = "begin"
    BY <1>1, <2>3 DEF Local
  <2> QED
    BY <1>2, <1>3, <2>2, <2>3, <2>4 DEF InHand, HasCopy, OwedMessages, OwedPackets, SameHistory
<1>13. CASE BeginTurn(w)
  <2>1. /\ l.pc = "begin" /\ l.kind \in {"message", "answer"} /\ UNCHANGED <<row, log, frames, issued>>
        /\ k = [l EXCEPT !.pc = IF l.kind = "message" THEN "get" ELSE "append"]
    BY <1>6, <1>13 DEF BeginTurn, At, Turn
  <2>2. k.kind = l.kind /\ k.row = l.row /\ k.pc = IF l.kind = "message" THEN "get" ELSE "append"
    BY <1>1, <2>1 DEF Local
  <2> QED
    BY <1>2, <1>3, <1>4, <1>5, <2>1, <2>2 DEF InHand, HasCopy, OwedMessages, OwedPackets
<1>14. CASE GetSession(w) \/ ListMessages(w)
  <2>1. /\ l.kind = "message" /\ UNCHANGED <<row, log, frames, issued>>
        /\ l.pc = "get" \/ l.pc = "list"
    BY <1>14 DEF GetSession, ListMessages, At
  <2>2. /\ k.kind = "message"
        /\ \/ k.pc = "list" /\ k.row = row
           \/ l.pc = "list" /\ k.pc = "save" /\ k.row = l.row /\ k.listed = V
    BY <1>1, <1>14, <2>1 DEF GetSession, ListMessages, At, Local, k, V
  <2> QED
    BY <1>2, <1>3, <1>4, <1>5, <2>1, <2>2 DEF InHand, HasCopy, OwedMessages, OwedPackets, SameHistory
<1>15. CASE SaveContext(w)
  <2>1. /\ l.kind = "message" /\ l.pc = "save" /\ V' = V /\ D = C
        /\ row' = WithMessages(l.row, l.listed)
        /\ k = [l EXCEPT !.pc = "run", !.row = NewRow, !.listed = {}]
    BY <1>4, <1>5, <1>7, <1>15 DEF SaveContext, SaveSession, At
  <2>2. k.kind = "message" /\ k.pc = "run"
    BY <1>1, <2>1 DEF Local
  <2>3. l.listed = V /\ SameHistory(l.row, row)
    BY <1>2, <2>1 DEF InHand, HasCopy
  <2>4. l.row \in Row
    BY <1>1 DEF Local
  <2>5. row'.promoted = row.promoted /\ \A m \in V : row'.history[m] > 0
    BY <2>1, <2>3, <2>4, <1>1 DEF WithMessages, SameHistory, Row
  <2> QED
    BY <1>2, <1>3, <2>1, <2>2, <2>5 DEF InHand, HasCopy, OwedMessages, OwedPackets
<1>16. CASE RunEnds(w)
  <2>1. l.kind = "message" /\ l.pc = "run" /\ UNCHANGED <<row, log, frames, issued>>
    BY <1>16 DEF RunEnds, At
  <2>2. k.kind = "message" /\ k.pc = "reply"
    BY <1>1, <1>16, <2>1 DEF RunEnds, Local, k
  <2> QED
    BY <1>2, <1>3, <1>4, <1>5, <2>1, <2>2 DEF InHand, HasCopy, OwedMessages, OwedPackets
<1>17. CASE RunInterrupts(w)
  <2>1. D \subseteq C /\ SameHistory(row', row)
    <3>1. PICK f \in Frames, p \in Packets :
              FreshFrame(f) /\ NewPacket(p) /\ SaveFrame(f, "interrupted", p, {})
      BY <1>17 DEF RunInterrupts
    <3> QED
      BY <3>1, ClosedByAsking DEF D
  <2>2. l.kind = "message" /\ l.pc = "run" /\ V' = V
    BY <1>4, <1>17 DEF RunInterrupts, At
  <2>3. k.kind = "message" /\ k.pc = "reply"
    BY <1>1, <1>17, <2>2 DEF RunInterrupts, Local, k
  <2> QED
    BY <1>2, <1>3, <2>1, <2>2, <2>3 DEF InHand, HasCopy, OwedMessages, OwedPackets, SameHistory
<1>18. CASE StoreReply(w)
  <2>1. l.kind \in {"message", "answer"} /\ l.pc = "reply" /\ D = C
    BY <1>5, <1>18 DEF StoreReply, At, Turn
  <2>2. PICK m \in Messages :
           /\ AppendMessage(m, CASE l.reply = "packet" -> "hidden"
                                 [] l.reply = "text"   -> "visible"
                                 [] l.reply = "blank"  -> "blank", FALSE)
           /\ req' = [req EXCEPT ![w].mine = m,
                        ![w].pc = IF req[w].reply = "text" THEN "get_reply" ELSE "finish"]
    BY <1>18 DEF StoreReply
  <2>3. l.reply \in {"text", "blank", "packet"}
    BY <1>1 DEF Local
  <2>4. PICK kind \in MessageKinds :
           AppendMessage(m, kind, FALSE) /\ (kind = "visible" => l.reply = "text")
    BY <2>2, <2>3 DEF MessageKinds
  <2>5. SameHistory(row', row) /\ V' = IF kind = "visible" THEN V \cup {m} ELSE V
    BY <2>4, AppendKeeps DEF V
  <2>6. k.kind = l.kind /\ k.mine = m /\ k.pc = IF l.reply = "text" THEN "get_reply" ELSE "finish"
    BY <1>1, <2>2 DEF Local, k
  <2> QED
    <3>1. CASE kind = "visible"
      <4>1. l.reply = "text" /\ k.pc = "get_reply" /\ V' = V \cup {m}
        BY <2>4, <2>5, <2>6, <3>1
      <4> QED
        BY <1>2, <1>3, <2>1, <2>5, <2>6, <4>1
        DEF InHand, HasCopy, OwedMessages, OwedPackets, SameHistory
    <3>2. CASE kind # "visible"
      <4>1. k.pc \in {"get_reply", "finish"} /\ V' = V
        BY <2>5, <2>6, <3>2
      <4> QED
        BY <1>2, <1>3, <2>1, <2>5, <2>6, <4>1
        DEF InHand, HasCopy, OwedMessages, OwedPackets, SameHistory
    <3> QED
      BY <3>1, <3>2
<1>19. CASE GetForReply(w)
  <2>1. l.kind \in {"message", "answer"} /\ l.pc = "get_reply" /\ UNCHANGED <<row, log, frames, issued>>
    BY <1>19 DEF GetForReply, At, Turn
  <2>2. k.kind = l.kind /\ k.pc = "save_reply" /\ k.row = row /\ k.mine = l.mine
    BY <1>1, <1>19 DEF GetForReply, Local, k
  <2> QED
    BY <1>2, <1>3, <1>4, <1>5, <2>1, <2>2 DEF InHand, HasCopy, OwedMessages, OwedPackets, SameHistory
<1>20. CASE SaveReply(w)
  <2>1. /\ l.kind \in {"message", "answer"} /\ l.pc = "save_reply" /\ V' = V /\ D = C
        /\ row' = WithMessages(l.row, {l.mine})
        /\ k = [l EXCEPT !.pc = "finish", !.row = NewRow, !.listed = {}]
    BY <1>4, <1>5, <1>7, <1>20 DEF SaveReply, SaveSession, At, Turn
  <2>2. k.kind = l.kind /\ k.pc = "finish"
    BY <1>1, <2>1 DEF Local
  <2>3. SameHistory(l.row, row) /\ l.row \in Row
    BY <1>1, <1>2, <2>1 DEF InHand, HasCopy, Local
  <2>4. \A m \in V \ {l.mine} : row.history[m] > 0
    BY <1>2, <2>1 DEF InHand, OwedMessages
  <2>5. row'.promoted = row.promoted /\ \A m \in V : row'.history[m] > 0
    BY <2>1, <2>3, <2>4, <1>1 DEF WithMessages, SameHistory, Row
  <2> QED
    BY <1>2, <1>3, <2>1, <2>2, <2>5 DEF InHand, HasCopy, OwedMessages, OwedPackets
<1>21. CASE FinishTurn(w) \/ RejectAnswer(w)
  <2>1. l.pc \in {"finish", "get_frame"} /\ k = Free /\ UNCHANGED <<row, log, frames, issued>>
    BY <1>8, <1>21 DEF FinishTurn, RejectAnswer, At
  <2>2. k.pc = "idle"
    BY <2>1 DEF Free
  <2> QED
    BY <1>2, <1>3, <1>4, <1>5, <2>1, <2>2 DEF InHand, HasCopy, OwedMessages, OwedPackets, Free
<1>22. CASE GetFrame(w)
  <2>1. PICK f \in Interrupted(frames), answers \in (SUBSET Questions) \ {{}} :
           req' = [req EXCEPT ![w].pc = "begin", ![w].frame = f, ![w].packet = frames[f].packet,
                              ![w].progress = MergedProgress(f, answers)]
    BY <1>22 DEF GetFrame
  <2>2. l.kind = "answer" /\ l.pc = "get_frame" /\ UNCHANGED <<row, log, frames, issued>>
    BY <1>22 DEF GetFrame, At
  <2>3. k.kind = "answer" /\ k.pc = "begin" /\ k.row = l.row
    BY <1>1, <2>1, <2>2 DEF Local, k
  <2> QED
    BY <1>2, <1>3, <1>4, <1>5, <2>2, <2>3 DEF InHand, HasCopy, OwedMessages, OwedPackets
<1>23. CASE StoreAnswerMessage(w)
  <2>1. PICK m \in Messages : AppendMessage(m, "hidden", TRUE)
    BY <1>23 DEF StoreAnswerMessage
  <2>2. SameHistory(row', row) /\ V' = V
    BY <2>1, AppendKeeps DEF V, MessageKinds
  <2>3. l.kind = "answer" /\ l.pc = "append" /\ k = [l EXCEPT !.pc = "update"] /\ D = C
    BY <1>5, <1>6, <1>23 DEF StoreAnswerMessage, At
  <2>4. k.kind = "answer" /\ k.pc = "update" /\ k.row = l.row
    BY <1>1, <2>3 DEF Local
  <2> QED
    BY <1>2, <1>3, <2>2, <2>3, <2>4 DEF InHand, HasCopy, OwedMessages, OwedPackets, SameHistory
<1>24. CASE RecordProgress(w)
  <2>1. /\ At(w, {"answer"}, "update") /\ SaveFrame(l.frame, "interrupted", l.packet, l.progress)
        /\ issued' = issued /\ V' = V /\ l.kind = "answer" /\ l.pc = "update"
    BY <1>4, <1>24 DEF RecordProgress, UpdateFrameStatus, At
  <2>2. /\ l.frame \in Interrupted(frames) /\ l.frame \in Frames
        /\ frames[l.frame].packet = l.packet
    BY <1>1, <2>1, EngagedFacts
  <2>3. /\ OnlyFrame(l.frame, frames, frames') /\ frames'[l.frame].status = "interrupted"
        /\ frames'[l.frame].packet = l.packet /\ SameHistory(row', row)
    BY <2>1, <2>2, SavedFrame, SyncKeeps DEF SaveFrame
  <2>4. D \subseteq C
    <3>1. D \subseteq C \cup {l.packet}
      BY <2>1, <2>2, <2>3, ClosedOnly DEF D
    <3>2. l.frame \in OpenIn(frames', l.packet)
      BY <2>2, <2>3 DEF OpenIn, Interrupted
    <3> QED
      BY <3>1, <3>2 DEF ClosedIn, D
  <2>5. k.kind = "answer" /\ (k.pc = "resume" \/ k.pc = "reply") /\ k.row = l.row
    BY <1>1, <1>24, <2>1 DEF RecordProgress, Goto, Local, k
  <2> QED
    BY <1>2, <1>3, <2>1, <2>3, <2>4, <2>5 DEF InHand, HasCopy, OwedMessages, OwedPackets, SameHistory
<1>25. CASE ResumeAsksAgain(w) \/ ResumeEnds(w)
  <2>1. At(w, {"answer"}, "resume") /\ V' = V /\ l.kind = "answer" /\ l.pc = "resume"
    BY <1>4, <1>25 DEF ResumeAsksAgain, ResumeEnds, At
  <2>2. /\ l.frame \in Interrupted(frames) /\ l.frame \in Frames
        /\ frames[l.frame].packet = l.packet
    BY <1>1, <2>1, EngagedFacts
  <2>3. PICK status, p, answers :
           /\ SaveFrame(l.frame, status, p, answers)
           /\ \/ issued' = issued
              \/ issued' = issued \cup {p} /\ status = "interrupted"
    BY <1>25 DEF ResumeAsksAgain, ResumeEnds, NewPacket
  <2>4. /\ OnlyFrame(l.frame, frames, frames') /\ frames'[l.frame].status = status
        /\ frames'[l.frame].packet = p /\ SameHistory(row', row)
    BY <2>2, <2>3, SavedFrame, SyncKeeps DEF SaveFrame
  <2>5. D \subseteq C \cup {l.packet}
    <3>1. \A q \in issued' \ issued : l.frame \in OpenIn(frames', q)
      BY <2>2, <2>3, <2>4 DEF OpenIn, Interrupted
    <3> QED
      BY <3>1, <2>2, <2>4, ClosedOnly DEF D
  <2>6. /\ k.kind = "answer" /\ k.pc \in {"promote", "parents"} /\ k.row = l.row
        /\ k.packet = l.packet
    BY <1>1, <1>25, <2>1 DEF ResumeAsksAgain, ResumeEnds, Goto, Local, k
  <2> QED
    BY <1>2, <1>3, <2>1, <2>4, <2>5, <2>6 DEF InHand, HasCopy, OwedMessages, OwedPackets, SameHistory
<1>26. CASE ParentsEnd(w)
  <2>1. l.kind = "answer" /\ l.pc = "parents" /\ UNCHANGED <<row, log, frames, issued>>
    BY <1>26 DEF ParentsEnd, At
  <2>2. k.kind = "answer" /\ k.pc = "promote" /\ k.row = l.row /\ k.packet = l.packet
    BY <1>1, <1>26, <2>1 DEF ParentsEnd, Local, k
  <2> QED
    BY <1>2, <1>3, <1>4, <1>5, <2>1, <2>2 DEF InHand, HasCopy, OwedMessages, OwedPackets
<1>27. CASE ParentsInterrupt(w)
  <2>1. D \subseteq C /\ SameHistory(row', row)
    <3>1. PICK f \in Frames, p \in Packets :
              FreshFrame(f) /\ NewPacket(p) /\ SaveFrame(f, "interrupted", p, {})
      BY <1>27 DEF ParentsInterrupt
    <3> QED
      BY <3>1, ClosedByAsking DEF D
  <2>2. l.kind = "answer" /\ l.pc = "parents" /\ V' = V
    BY <1>4, <1>27 DEF ParentsInterrupt, At
  <2>3. k.kind = "answer" /\ k.pc = "promote" /\ k.row = l.row /\ k.packet = l.packet
    BY <1>1, <1>27, <2>2 DEF ParentsInterrupt, Local, k
  <2> QED
    BY <1>2, <1>3, <2>1, <2>2, <2>3 DEF InHand, HasCopy, OwedMessages, OwedPackets, SameHistory
<1>28. CASE PromoteAnswers(w)
  <2>1. /\ l.kind = "answer" /\ l.pc = "promote" /\ V' = V /\ D = C
        /\ row' = Promoted(l.row, l.packet)
        /\ k = [l EXCEPT !.pc = "reply", !.row = NewRow, !.listed = {}]
    BY <1>4, <1>5, <1>7, <1>28 DEF PromoteAnswers, SaveSession, At
  <2>2. k.kind = "answer" /\ k.pc = "reply"
    BY <1>1, <2>1 DEF Local
  <2>3. SameHistory(l.row, row) /\ l.row \in Row
    BY <1>1, <1>2, <2>1 DEF InHand, HasCopy, Local
  <2>4. \A p \in C \ {l.packet} : row.promoted[p] > 0
    BY <1>2, <2>1 DEF InHand, OwedPackets
  <2>5. row'.history = row.history /\ \A p \in C : row'.promoted[p] > 0
    BY <2>1, <2>3, <2>4, <1>1 DEF Promoted, SameHistory, Row
  <2> QED
    BY <1>2, <1>3, <2>1, <2>2, <2>5 DEF InHand, HasCopy, OwedMessages, OwedPackets
<1>29. CASE Reactivate(w)
  <2>1. /\ l.pc = "put_active" /\ row' = [l.row EXCEPT !.status = "active"] /\ k = Free
        /\ V' = V /\ D = C
    BY <1>4, <1>5, <1>8, <1>29 DEF Reactivate, SaveSession, At
  <2>2. SameHistory(l.row, row) /\ l.row \in Row
    BY <1>1, <1>2, <2>1 DEF InHand, HasCopy, Local
  <2>3. SameHistory(row', row)
    BY <2>1, <2>2 DEF SameHistory, Row
  <2> QED
    BY <1>2, <1>3, <2>1, <2>3 DEF InHand, HasCopy, OwedMessages, OwedPackets, SameHistory, Free
<1>30. ~Cancel(w) /\ ~RaiseCovered(w) /\ ~RaiseUncovered(w) /\ ~FailTurn(w)
  BY <1>2 DEF Cancel, Accept, RaiseCovered, RaiseUncovered, FailTurn, At, InHand
<1>31. SaveRelatedFrame(w) \/ Rename(w) \/ Archive(w) \/ UNCHANGED vars
       => UNCHANGED <<req, log, frames, issued>> /\ SameHistory(row', row)
  BY <1>1, SyncKeeps
  DEF SaveRelatedFrame, Rename, Archive, RenameSession, ArchiveSession, vars, SameHistory, Row
<1> QED
  BY <1>10, <1>11, <1>12, <1>13, <1>14, <1>15, <1>16, <1>17, <1>18, <1>19, <1>20, <1>21, <1>22,
     <1>23, <1>24, <1>25, <1>26, <1>27, <1>28, <1>29, <1>30, <1>31
  DEF Next, Continue, Start

\* Between two requests the master history misses nothing: it has each visible
\* message once, and each clarification whose frame has gone on once, unless a
\* request raised, or was a cancellation, which says something to the user that
\* only the next message brings to the history.
THEOREM HistoryCompleteHolds ==
    ASSUME NEW w, Workers = {w}, Raises = {}, "cancel" \notin Kinds
    PROVE  Spec => []HistoryComplete
<1>1. Init => CompleteInv /\ LifeInv
  BY DEF Init, StoreInit, CompleteInv, InHand, HasCopy, VisibleMessages, ClosedIn, LifeInv,
         WellFramed, Engaged, Interrupted, Free
<1>2. TypeInv /\ LifeInv /\ CompleteInv /\ [Next]_vars => LifeInv' /\ CompleteInv'
  BY LifeStep, CompleteStep
<1>3. TypeInv /\ HistoryInv /\ CompleteInv => HistoryComplete
  <2> SUFFICES ASSUME TypeInv, HistoryInv, CompleteInv, Quiescent
               PROVE  /\ \A m \in VisibleMessages : row.history[m] = 1
                      /\ \A p \in issued : OpenFrames(p) = {} => row.promoted[p] = 1
    BY DEF HistoryComplete
  <2>1. req[w].pc = "idle" /\ InHand(req[w], row, VisibleMessages, ClosedIn(frames, issued))
    BY DEF Quiescent, CompleteInv
  <2>2. /\ \A m \in VisibleMessages : row.history[m] > 0
        /\ \A p \in ClosedIn(frames, issued) : row.promoted[p] > 0
    BY <2>1 DEF InHand, OwedMessages, OwedPackets
  <2>3. \A p \in issued : OpenFrames(p) = {} => p \in ClosedIn(frames, issued)
    BY DEF OpenFrames, ClosedIn, OpenIn
  <2>4. /\ VisibleMessages \subseteq Messages /\ issued \subseteq Packets
        /\ row.history \in [Messages -> Nat] /\ row.promoted \in [Packets -> Nat]
    BY DEF TypeInv, TypeOK, StoreTypeOK, Row, VisibleMessages
  <2>5. HistoryOnce
    BY DEF HistoryInv, GoodRow, HistoryOnce
  <2> QED
    BY <2>2, <2>3, <2>4, <2>5 DEF HistoryOnce
<1>4. QED
  BY <1>1, <1>2, <1>3, TypeInductive, HistoryInductive, PTL DEF Spec

=============================================================================
