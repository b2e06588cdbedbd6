------------------------------ MODULE ChatStore ------------------------------
(***************************************************************************)
(* The relational store of one chat session (chat/relational_store.py):    *)
(* the session row, its message log, its agentic frames and its process    *)
(* record.  Every public method of the store runs in one database          *)
(* transaction, so every method is one operator on the store's variables,  *)
(* to be used as (part of) one atomic step by the module that calls it.    *)
(*                                                                         *)
(* Message, frame and packet identifiers are numbers handed out in         *)
(* increasing order; the three Max constants only bound the instance.      *)
(* Left out: channel and owner columns, which never change, timestamps     *)
(* other than the order of frame updates, and message and title texts.     *)
(***************************************************************************)
EXTENDS Integers, FiniteSets

CONSTANTS
    MaxMessages,   \* bound: messages ever appended to the session
    MaxFrames,     \* bound: agentic frames ever saved for the session
    MaxPackets,    \* bound: clarification packets ever issued
    Questions      \* the questions every clarification packet asks

ASSUME StoreAssumption ==
    /\ {MaxMessages, MaxFrames, MaxPackets} \subseteq Nat
    /\ Questions # {}

Messages == 1 .. MaxMessages
Frames   == 1 .. MaxFrames
Packets  == 1 .. MaxPackets
NoFrame  == 0
NoPacket == 0

VARIABLES
    row,      \* the chat_sessions row
    log,      \* what has been stored under each message id
    frames,   \* the chat_agentic_frames rows
    process   \* the chat_process row

storeVars == <<row, log, frames, process>>

-----------------------------------------------------------------------------
Titles == {"default", "first_message", "manual"}      \* metadata.title_source

\* The master LLM history lives in the row's metadata: for every message (by
\* source key) and every packet (by promotion key) the number of times it
\* occurs there.
Row == [status   : {"active", "archived"},
        title    : Titles,
        active   : Frames \cup {NoFrame},             \* active_agentic_frame_id
        history  : [Messages -> Nat],
        promoted : [Packets -> Nat]]

\* "blank" is a visible message without text (media only, or an empty reply);
\* "hidden" one carries ui_hidden metadata (clarification prompts and answers).
MessageKinds == {"visible", "blank", "hidden"}

\* `answered' is metadata.clarification_progress; `rank' orders updated_at:
\* the frame updated last has rank MaxFrames.
Frame == [status   : {"absent", "interrupted", "completed", "error"},
          packet   : Packets \cup {NoPacket},
          answered : SUBSET Questions,
          rank     : 0 .. MaxFrames]

Process == [status    : {"idle", "working", "waiting_for_user", "completed", "failed"},
            resumable : BOOLEAN]

StoreTypeOK ==
    /\ row \in Row
    /\ log \in [Messages -> MessageKinds \cup {"absent"}]
    /\ frames \in [Frames -> Frame]
    /\ process \in Process

\* create_session and get_or_create_session: a new, untitled session.
NewRow == [status |-> "active", title |-> "default", active |-> NoFrame,
           history |-> [m \in Messages |-> 0], promoted |-> [p \in Packets |-> 0]]

StoreInit ==
    /\ row = NewRow
    /\ log = [m \in Messages |-> "absent"]
    /\ frames = [f \in Frames |-> [status |-> "absent", packet |-> NoPacket,
                                   answered |-> {}, rank |-> 0]]
    /\ process = [status |-> "idle", resumable |-> FALSE]

-----------------------------------------------------------------------------
(* Sessions *)

RenameSession == row' = [row EXCEPT !.title = "manual"]

\* archive_session also drops the pointer to the frame that waits for the user.
ArchiveSession == row' = [row EXCEPT !.status = "archived", !.active = NoFrame]

\* save_session writes back every column of a row the caller read earlier.
SaveSession(copy) == row' = copy

-----------------------------------------------------------------------------
(* Messages *)

NextMessage(m) ==
    /\ m \in Messages
    /\ log[m] = "absent"
    /\ \A k \in 1 .. (m - 1) : log[k] # "absent"

\* append_message: a user message with text titles a session nobody has titled.
AppendMessage(m, kind, fromUser) ==
    /\ NextMessage(m)
    /\ log' = [log EXCEPT ![m] = kind]
    /\ row' = IF fromUser /\ kind # "blank" /\ row.title = "default"
              THEN [row EXCEPT !.title = "first_message"]
              ELSE row

\* A variant of the filter below that lets hidden messages through.
StoredMessages == {m \in Messages : log[m] # "absent"}

\* _visible_master_message: what the model-facing history may contain.
VisibleMessages == {m \in Messages : log[m] = "visible"}

-----------------------------------------------------------------------------
(* Frames *)

Interrupted(fs) == {f \in Frames : fs[f].status = "interrupted"}

\* get_active_agentic_frame and _sync_active_agentic_frame: the interrupted
\* frame updated last, if there is one.
LatestInterrupted(fs) ==
    IF Interrupted(fs) = {} THEN {NoFrame}
    ELSE {f \in Interrupted(fs) : \A g \in Interrupted(fs) : fs[g].rank <= fs[f].rank}

\* A variant that never lowers the rank of the others.
WrittenAbove(f, status, packet, answered) ==
    [frames EXCEPT ![f] = [status |-> status, packet |-> packet, answered |-> answered,
                           rank |-> MaxFrames + frames[f].rank]]

\* The frame records after f is written with the given fields.
Written(f, status, packet, answered) ==
    [g \in Frames |->
        IF g = f
        THEN [status |-> status, packet |-> packet, answered |-> answered, rank |-> MaxFrames]
        ELSE IF frames[g].rank > frames[f].rank
             THEN [frames[g] EXCEPT !.rank = frames[g].rank - 1]
             ELSE frames[g]]

\* _sync_active_agentic_frame, run at the end of every frame write.
SyncActive(fs) == \E f \in LatestInterrupted(fs) : row' = [row EXCEPT !.active = f]

SaveFrame(f, status, packet, answered) ==
    /\ frames' = Written(f, status, packet, answered)
    /\ SyncActive(frames')

\* update_agentic_frame_status: the status is overwritten whatever it was, the
\* metadata keys given are replaced, a packet is replaced when one is given.
UpdateFrameStatus(f, status, packet, answered) ==
    /\ frames[f].status # "absent"
    /\ SaveFrame(f, status, packet, answered)

FreshFrame(f) ==
    /\ f \in Frames
    /\ frames[f].status = "absent"
    /\ \A g \in 1 .. (f - 1) : frames[g].status # "absent"

-----------------------------------------------------------------------------
(* The process record *)

BeginProcess == process' = [status |-> "working", resumable |-> FALSE]

FinishProcess(status, resumable) ==
    process' = [status |-> status, resumable |-> resumable]

=============================================================================
