----------------------------- MODULE ChatStores -----------------------------
(***************************************************************************)
(* The two implementations of the protocol ChatSessionStore: the one in     *)
(* memory (chat/store.py), with which the runtime is developed and tested,  *)
(* and the relational one (chat/relational_store.py), with which it runs.   *)
(* Every call is made to both; what they answer afterwards is compared.     *)
(*                                                                          *)
(* ChatStore models the relational one for concurrent requests.  Here calls *)
(* are atomic: the first has a lock, the second a transaction.  Time is     *)
(* counted in calls; what a call stamps is even, and when a message was     *)
(* made is odd, so that no two times are the same.                          *)
(***************************************************************************)
EXTENDS Naturals, Sequences, FiniteSets, SequencesExt, FiniteSetsExt

CONSTANTS
    Sessions, Frames,
    Keys,       \* channel, external conversation and owner
    Kinds,      \* kinds of messages: [user, blank, hidden: BOOLEAN]
    Scanned,    \* messages the relational store reads for a preview (20)
    MaxCalls,   \* bound: calls
    Null

FrameStatuses == {"interrupted", "completed"}
Ends          == {"completed", "waiting_user", "failed"}
Activities    == {"started", "completed", "waiting"}

Row ==
    [key : Keys, title : {"default", "manual", "text"}, status : {"active", "archived"},
     source : {"default", "manual", "first_message"}, active : Frames \cup {Null},
     last : Nat \cup {Null}, updated : Nat]
Message  == [session : Sessions, kind : Kinds, created : Nat]
Frame    == [session : Sessions, status : FrameStatuses, updated : Nat]
Event    == [sequence : Nat, status : Activities, occurrence : Nat]
Snapshot == [status : Ends \cup {"idle", "working"}, current : Event \cup {Null},
             resumable : BOOLEAN, updated : Nat]
Process  == [status : Ends \cup {"working"}, current : Event \cup {Null},
             resumable : BOOLEAN, updated : Nat, next : Nat]
Copy     == [session : Sessions, mem : Row, rel : Row, cut : BOOLEAN]

\* Null is neither a time or an id nor one of the records below.
ASSUME StoresAssumption ==
    /\ IsFiniteSet(Sessions)
    /\ Kinds \subseteq [user : BOOLEAN, blank : BOOLEAN, hidden : BOOLEAN]
    /\ Scanned \in Nat \ {0} /\ MaxCalls \in Nat
    /\ Null \notin Nat \cup Sessions \cup Frames
    /\ Null \notin Row \cup Message \cup Frame \cup Process \cup Snapshot \cup Copy

VARIABLES
    mem,   \* InMemoryChatSessionStore: row, key, log, frame, listed, snapshot, events
    rel,   \* RelationalChatStore: row, message, frame, process, activity
    held,  \* the copy of a session that a request holds: both stores', or Null
    cut,   \* sessions archived since their active frame was last found out
    now

storesVars == <<mem, rel, held, cut, now>>

StoresInit ==
    /\ mem = [row |-> [s \in Sessions |-> Null], key |-> [k \in Keys |-> Null],
              log |-> [s \in Sessions |-> <<>>], frame |-> [f \in Frames |-> Null],
              listed |-> [s \in Sessions |-> {}], snapshot |-> [s \in Sessions |-> Null],
              events |-> [s \in Sessions |-> <<>>]]
    /\ rel = [row |-> [s \in Sessions |-> Null], message |-> {}, frame |-> [f \in Frames |-> Null],
              process |-> [s \in Sessions |-> Null], activity |-> {}]
    /\ held = Null /\ cut = {} /\ now = 1

Existing == {s \in Sessions : mem.row[s] # Null}

\* A call of both stores
Call == now < MaxCalls /\ now' = now + 1

\* The same call of both, which leaves requests' copies alone
Both(m, r) == Call /\ mem' = m /\ rel' = r /\ UNCHANGED <<held, cut>>

\* When a call is made
Stamp == 2 * now + 2

\* The frame of fs that was written last
Latest(fs, frame) == CHOOSE f \in fs : \A g \in fs : frame[g].updated <= frame[f].updated

\* The elements of S in an order, each at the position of its rank
Ordered(S, before) ==
    [i \in 1 .. Cardinality(S) |-> CHOOSE x \in S : Cardinality({y \in S : <<y, x>> \in before}) = i - 1]

LastOf(seq, limit)  == SubSeq(seq, Len(seq) - Min({limit, Len(seq)}) + 1, Len(seq))
FirstOf(seq, limit) == SubSeq(seq, 1, Min({limit, Len(seq)}))

-----------------------------------------------------------------------------
(* In memory *)

MemRow(k, manual) ==
    [key |-> k, title |-> IF manual THEN "manual" ELSE "default",
     source |-> IF manual THEN "manual" ELSE "default", status |-> "active",
     active |-> Null, last |-> Null, updated |-> Stamp]

MemStored(s, row) == [mem EXCEPT !.row[s] = [row EXCEPT !.updated = Stamp]]

\* create_session; a key that is taken is an error
MemCreate(s, k, manual) ==
    IF mem.key[k] # Null THEN mem
    ELSE [mem EXCEPT !.row[s] = MemRow(k, manual), !.key[k] = s]

\* get_or_create_session
MemGetOrCreate(s, k) ==
    IF mem.key[k] # Null THEN mem
    ELSE [mem EXCEPT !.row[s] = MemRow(k, FALSE), !.key[k] = s]

MemRename(s) == MemStored(s, [mem.row[s] EXCEPT !.title = "manual", !.source = "manual"])

MemArchive(s) == MemStored(s, [mem.row[s] EXCEPT !.status = "archived"])

\* _can_autotitle
CanAutotitle(row) == row.title = "default" /\ row.source # "manual"

\* append_message
MemAppend(s, m) ==
    LET row    == mem.row[s]
        dates  == m.kind.user \/ row.last = Null
        titles == m.kind.user /\ ~m.kind.blank /\ CanAutotitle(row)
        dated  == IF dates THEN [row EXCEPT !.last = m.created, !.updated = Stamp] ELSE row
    IN  [mem EXCEPT !.log[s] = Append(@, m),
                    !.row[s] = IF titles THEN [dated EXCEPT !.title = "text", !.source = "first_message"]
                               ELSE dated]

\* list_messages
MemMessages(s, limit) == LastOf(mem.log[s], limit)

\* list_agentic_frames, of one status
MemFrames(s, status) == {f \in mem.listed[s] : mem.frame[f].status = status}

\* get_active_agentic_frame
MemActive(m, s) ==
    LET fs == {f \in m.listed[s] : m.frame[f].status = "interrupted"}
    IN  IF fs = {} THEN Null ELSE Latest(fs, m.frame)

\* _sync_session_active_frame
MemSync(m, s) == [m EXCEPT !.row[s].active = MemActive(m, s), !.row[s].updated = Stamp]

\* save_agentic_frame
MemSaveFrame(s, f, status) ==
    MemSync([mem EXCEPT !.frame[f] = [session |-> s, status |-> status, updated |-> Stamp],
                        !.listed[s] = @ \cup {f}], s)

\* update_agentic_frame_status
MemUpdateFrame(s, f, status) ==
    MemSync([mem EXCEPT !.frame[f].status = status, !.frame[f].updated = Stamp], s)

NoSnapshot == [status |-> "idle", current |-> Null, resumable |-> FALSE, updated |-> 0]
MemSnapshot(s) == IF mem.snapshot[s] = Null THEN NoSnapshot ELSE mem.snapshot[s]

\* begin_chat_process
MemBegin(s) ==
    [mem EXCEPT !.snapshot[s] =
        [status |-> "working", current |-> Null, resumable |-> FALSE, updated |-> Stamp]]

\* publish_chat_activity: a title for each time that the activity was started
MemPublish(s, status) ==
    LET started == Cardinality({i \in DOMAIN mem.events[s] : mem.events[s][i].status = "started"})
        event == [sequence |-> Len(mem.events[s]) + 1, status |-> status,
                  occurrence |-> IF status = "started" \/ started = 0 THEN started ELSE started - 1]
    IN  [mem EXCEPT !.events[s] = Append(@, event),
                    !.snapshot[s] = [MemSnapshot(s) EXCEPT
                        !.current = IF status \in {"started", "waiting"} THEN event ELSE Null,
                        !.updated = Stamp]]

\* finish_chat_process
MemFinish(s, status) ==
    [mem EXCEPT !.snapshot[s] = [MemSnapshot(s) EXCEPT
        !.status = status, !.current = Null, !.resumable = (status = "waiting_user"), !.updated = Stamp]]

\* _recent_activities
MemRecent(s, limit) ==
    LET done == {i \in DOMAIN mem.events[s] : mem.events[s][i].status = "completed"}
        order == Ordered(done, {p \in done \X done : p[1] < p[2]})
    IN  LastOf([k \in 1 .. Cardinality(done) |-> mem.events[s][order[k]]], limit)

\* _summary_for_session: the message of the preview
MemPreview(s) ==
    LET log == mem.log[s]
        shown == {i \in DOMAIN log : ~log[i].kind.blank /\ ~log[i].kind.hidden}
    IN  IF shown = {} THEN Null ELSE log[Max(shown)]

\* list_sessions
MemSessions(archived, limit) ==
    LET ss == {s \in Existing : archived \/ mem.row[s].status # "archived"}
        date(s) == IF mem.row[s].last # Null THEN mem.row[s].last ELSE mem.row[s].updated
    IN  FirstOf(Ordered(ss, {p \in ss \X ss : date(p[1]) > date(p[2])}), limit)

-----------------------------------------------------------------------------
(* Relational *)

RelRow(k, manual) ==
    [key |-> k, title |-> IF manual THEN "manual" ELSE "default",
     source |-> IF manual THEN "manual" ELSE "default", status |-> "active",
     active |-> Null, last |-> Null, updated |-> Stamp]

\* The unique key of channel, external conversation and owner
RelTaken(k) == \E s \in Sessions : rel.row[s] # Null /\ rel.row[s].key = k

\* create_session; the key refuses a second row
RelCreate(s, k, manual) == IF RelTaken(k) THEN rel ELSE [rel EXCEPT !.row[s] = RelRow(k, manual)]

\* get_or_create_session
RelGetOrCreate(s, k) == IF RelTaken(k) THEN rel ELSE [rel EXCEPT !.row[s] = RelRow(k, FALSE)]

\* save_session and _apply_session
RelStored(s, row) == [rel EXCEPT !.row[s] = [row EXCEPT !.updated = Stamp]]

RelRename(s) == RelStored(s, [rel.row[s] EXCEPT !.title = "manual", !.source = "manual"])

RelArchive(s) == RelStored(s, [rel.row[s] EXCEPT !.status = "archived", !.active = Null])

\* append_message
RelAppend(s, m) ==
    LET row   == rel.row[s]
        dated == IF m.kind.user \/ row.last = Null
                 THEN [row EXCEPT !.last = m.created, !.updated = Stamp] ELSE row
    IN  [rel EXCEPT !.message = @ \cup {[m EXCEPT !.session = s]},
                    !.row[s] = IF m.kind.user /\ ~m.kind.blank /\ CanAutotitle(row)
                               THEN [dated EXCEPT !.title = "text", !.source = "first_message"] ELSE dated]

\* Messages of a session, by the time they were made
RelLog(s) ==
    LET ms == {m \in rel.message : m.session = s}
    IN  Ordered(ms, {p \in ms \X ms : p[1].created < p[2].created})

\* list_messages
RelMessages(s, limit) == LastOf(RelLog(s), limit)

\* list_agentic_frames, of one status
RelFrames(s, status) ==
    {f \in Frames : rel.frame[f] # Null /\ rel.frame[f].session = s /\ rel.frame[f].status = status}

\* get_active_agentic_frame
RelActive(r, s) ==
    LET fs == {f \in Frames : r.frame[f] # Null /\ r.frame[f].session = s /\ r.frame[f].status = "interrupted"}
    IN  IF fs = {} THEN Null ELSE Latest(fs, r.frame)

\* A variant that keeps the active frame while it exists.
RelSyncOnce(r, s) ==
    [r EXCEPT !.row[s].active = IF @ # Null THEN @ ELSE RelActive(r, s), !.row[s].updated = Stamp]

\* _sync_active_agentic_frame
RelSync(r, s) == [r EXCEPT !.row[s].active = RelActive(r, s), !.row[s].updated = Stamp]

\* save_agentic_frame
RelSaveFrame(s, f, status) ==
    RelSync([rel EXCEPT !.frame[f] = [session |-> s, status |-> status, updated |-> Stamp]], s)

\* update_agentic_frame_status
RelUpdateFrame(s, f, status) ==
    RelSync([rel EXCEPT !.frame[f].status = status, !.frame[f].updated = Stamp], s)

\* _get_or_create_process
RelProcess(s) ==
    IF rel.process[s] # Null THEN rel.process[s]
    ELSE [status |-> "working", current |-> Null, resumable |-> FALSE, updated |-> Stamp, next |-> 1]

\* begin_chat_process
RelBegin(s) ==
    [rel EXCEPT !.process[s] = [RelProcess(s) EXCEPT
        !.status = "working", !.current = Null, !.resumable = FALSE, !.updated = Stamp]]

\* publish_chat_activity
RelPublish(s, status) ==
    LET started == Cardinality({a \in rel.activity : a.session = s /\ a.event.status = "started"})
        event == [sequence |-> RelProcess(s).next, status |-> status,
                  occurrence |-> IF status = "started" \/ started = 0 THEN started ELSE started - 1]
    IN  [rel EXCEPT !.activity = @ \cup {[session |-> s, event |-> event]},
                    !.process[s] = [RelProcess(s) EXCEPT
                        !.next = @ + 1, !.updated = Stamp,
                        !.current = IF status \in {"started", "waiting"} THEN event ELSE Null]]

\* finish_chat_process
RelFinish(s, status) ==
    [rel EXCEPT !.process[s] = [RelProcess(s) EXCEPT
        !.status = status, !.current = Null, !.resumable = (status = "waiting_user"), !.updated = Stamp]]

\* _process_snapshot: the activities that it lists
RelRecent(s, limit) ==
    LET done == {a.event : a \in {a \in rel.activity : a.session = s /\ a.event.status = "completed"}}
    IN  LastOf(Ordered(done, {p \in done \X done : p[1].sequence < p[2].sequence}), limit)

\* get_chat_process_snapshot
RelSnapshot(s) ==
    IF rel.process[s] = Null THEN NoSnapshot
    ELSE [status |-> rel.process[s].status, current |-> rel.process[s].current,
          resumable |-> rel.process[s].resumable, updated |-> rel.process[s].updated]

\* _summary_for_record: among the last messages, the first that is not hidden
RelPreview(s) ==
    LET log == RelMessages(s, Scanned)
        shown == {i \in DOMAIN log : ~log[i].kind.hidden}
    IN  IF shown = {} \/ log[Max(shown)].kind.blank THEN Null ELSE log[Max(shown)]

\* list_sessions: where sessions without a message stand depends on the database.
RelSessions(archived, limit) ==
    LET ss == {s \in Sessions : rel.row[s] # Null /\ (archived \/ rel.row[s].status # "archived")}
        date(s) == IF rel.row[s].last = Null THEN 0 ELSE rel.row[s].last
        later(s, t) == \/ date(s) > date(t)
                       \/ date(s) = date(t) /\ rel.row[s].updated > rel.row[t].updated
    IN  FirstOf(Ordered(ss, {p \in ss \X ss : later(p[1], p[2])}), limit)

-----------------------------------------------------------------------------
(* The calls of the runtime *)

CreateSession(s, k, manual) == s \notin Existing /\ Both(MemCreate(s, k, manual), RelCreate(s, k, manual))
GetOrCreate(s, k)           == s \notin Existing /\ Both(MemGetOrCreate(s, k), RelGetOrCreate(s, k))

RenameSession(s) == Both(MemRename(s), RelRename(s))

ArchiveSession(s) ==
    /\ Call /\ mem' = MemArchive(s) /\ rel' = RelArchive(s)
    /\ cut' = cut \cup {s} /\ UNCHANGED held

\* get_session
GetSession(s) ==
    /\ Call
    /\ held' = [session |-> s, mem |-> mem.row[s], rel |-> rel.row[s], cut |-> s \in cut]
    /\ UNCHANGED <<mem, rel, cut>>

\* save_session, of a copy that may be old: with a longer history, or active again
SaveSession(status) ==
    /\ held # Null /\ Call
    /\ LET s == held.session
       IN  /\ mem' = MemStored(s, [held.mem EXCEPT !.status = status])
           /\ rel' = RelStored(s, [held.rel EXCEPT !.status = status])
           /\ cut' = IF held.cut THEN cut \cup {s} ELSE cut \ {s}
    /\ held' = Null

\* A message is made before it is appended; another may be appended in between.
AppendMessage(s, kind, created) ==
    /\ \A m \in rel.message : m.created # created
    /\ LET m == [session |-> s, kind |-> kind, created |-> created]
       IN  Both(MemAppend(s, m), RelAppend(s, m))

FindsActive(s) == Call /\ cut' = cut \ {s} /\ UNCHANGED held

\* A frame belongs to the session it was made for.
SaveFrame(s, f, status) ==
    /\ mem.frame[f] = Null \/ f \in mem.listed[s]
    /\ mem' = MemSaveFrame(s, f, status) /\ rel' = RelSaveFrame(s, f, status) /\ FindsActive(s)

UpdateFrame(s, f, status) ==
    /\ f \in mem.listed[s]
    /\ mem' = MemUpdateFrame(s, f, status) /\ rel' = RelUpdateFrame(s, f, status) /\ FindsActive(s)

BeginProcess(s)          == Both(MemBegin(s), RelBegin(s))
FinishProcess(s, status) == mem.snapshot[s] # Null /\ Both(MemFinish(s, status), RelFinish(s, status))

\* Turns publish what they do; a turn has begun.
PublishActivity(s, status) == mem.snapshot[s] # Null /\ Both(MemPublish(s, status), RelPublish(s, status))

StoresNext ==
    \/ \E s \in Sessions, k \in Keys : GetOrCreate(s, k) \/ \E manual \in BOOLEAN : CreateSession(s, k, manual)
    \/ \E status \in {"active"} \cup (IF held = Null THEN {} ELSE {held.mem.status}) : SaveSession(status)
    \/ \E s \in Existing :
          \/ RenameSession(s) \/ ArchiveSession(s) \/ GetSession(s) \/ BeginProcess(s)
          \/ \E kind \in Kinds : \E created \in {Stamp - 3, Stamp - 1} : AppendMessage(s, kind, created)
          \/ \E f \in Frames : \E status \in FrameStatuses : SaveFrame(s, f, status) \/ UpdateFrame(s, f, status)
          \/ \E status \in Ends : FinishProcess(s, status)
          \/ \E status \in Activities : PublishActivity(s, status)

StoresSpec == StoresInit /\ [][StoresNext]_storesVars

-----------------------------------------------------------------------------
(* Properties *)

\* What was appended in the order in which it was made
InOrder(s) == \A i, j \in DOMAIN mem.log[s] : i < j => mem.log[s][i].created < mem.log[s][j].created

\* After any calls the two stores answer alike: the same sessions with the same
\* titles and statuses, the same active frame, frames, process and activities.
\* The rows differ in one thing: archiving forgets the active frame in the
\* relational store only, until a frame of the session is saved.
RowsAgree ==
    \A s \in Sessions :
        /\ mem.row[s] = Null <=> rel.row[s] = Null
        /\ mem.row[s] # Null =>
              /\ mem.row[s] = [rel.row[s] EXCEPT !.active = mem.row[s].active]
              /\ s \notin cut => mem.row[s].active = rel.row[s].active
              /\ rel.row[s].active \in {mem.row[s].active, Null}
        /\ MemActive(mem, s) = RelActive(rel, s)
        /\ \A status \in FrameStatuses : MemFrames(s, status) = RelFrames(s, status)
        /\ MemSnapshot(s) = RelSnapshot(s)
        /\ \A limit \in 1 .. 2 : MemRecent(s, limit) = RelRecent(s, limit)

\* And they list the same messages, in the same order when they were appended in
\* the order in which they were made; they list the same sessions, those with
\* messages in the same order; and they show the same preview, unless the last
\* message is blank or the ones before it are many that are hidden.
ListingsAgree ==
    /\ \A s \in Existing :
          /\ ToSet(mem.log[s]) = {m \in rel.message : m.session = s}
          /\ InOrder(s) => /\ \A limit \in 1 .. MaxCalls : MemMessages(s, limit) = RelMessages(s, limit)
                           /\ RelPreview(s) \in {MemPreview(s), Null}
                           /\ RelPreview(s) = Null /\ MemPreview(s) # Null =>
                                 \E m \in ToSet(RelMessages(s, Scanned)) : m.kind.blank \/ m.kind.hidden
    /\ \A archived \in BOOLEAN :
          LET listed == MemSessions(archived, Cardinality(Sessions))
              found  == RelSessions(archived, Cardinality(Sessions))
          IN  /\ ToSet(listed) = ToSet(found)
              /\ \A i, j \in DOMAIN listed, k, l \in DOMAIN found :
                    /\ listed[i] = found[k] /\ listed[j] = found[l]
                    /\ mem.row[listed[i]].last # Null /\ mem.row[listed[j]].last # Null
                    => (i < j <=> k < l)

\* Whatever is called and in whatever order, a client cannot tell the stores apart
\* but by the differences that these two name.
StoresAgree == RowsAgree /\ ListingsAgree
=============================================================================
