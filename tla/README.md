# my-digital-brain: TLA+ models of its chat, its agent and its memory

my-digital-brain is a chat assistant that stores what its user tells it in a
graph. A message starts an *agentic run*: a stack of language-model sessions
("frames") that query the graph or write to it and may stop to ask the user a
clarifying question. The answer may come minutes later, in another request, so
everything a run needs to go on is in a relational database. The HTTP handlers are
synchronous functions, which the server runs on a pool of threads: requests to one
session overlap, and nothing in the code locks a session. The memory itself is in
three databases without a common transaction: a graph, a vector store, and the
relational records that describe the vectors.

The modules describe the parts in which that can go wrong. In what follows
paths are relative to `src/my_digital_brain/` of the repository, and `docs/` and
`frontend/` to its root. `PROJECT.json` maps each definition to the lines it models
and lists the hazards of the code one by one, with the properties that are about them.

## The system

| component | state | operations | talks to |
|---|---|---|---|
| web client (`frontend/src/views/ChatView.tsx`, `features/chat/`) | open chat, packet and drafts of its answers, sessions that send | send, answer, open, create, delete, poll | HTTP API |
| channels and HTTP API (`api/`, `chat/web.py`, `chat/telegram.py`) | none | parse, authenticate, render | chat runtime |
| chat runtime (`chat/runtime.py`) | none of its own | handle a message, answer a clarification, cancel, rename, archive, reactivate | store, history, agentic runtime |
| chat store (`chat/relational_store.py`, `chat/store.py`) | session row, message log, frames, process record, activity log | one transaction per method | database |
| clarification (`clarification/`) | packet and progress inside a frame | build, validate, merge answers, look up candidates | chat runtime, agentic runtime |
| model-facing history (`agentic/history.py`) | master history inside the session row's metadata | ensure, append, promote an exchange, summarise | chat runtime |
| agentic runtime (`agentic/runtime*.py`) | frames, through the store; one execution context per frame in memory | run, start a child, persist, resume, continue | LLM sessions, store, tools |
| memory ingestion of the agent (`agentic/runtime_memory.py`) | payload with reasoning, plans and reference context; a copy of it in the waiting frame | reason, plan and run three phases | agentic runtime, tools |
| agentic tools (`agentic/tools/bindings.py`) | none of their own | create, patch, link, log, read, look up | graph, reference context |
| reference context (`agentic/refs.py`) | refs the models use in place of ids | allocate, plan, bind, resolve | ingestion, tools |
| LLM session (`ai/session/`) | messages, pending calls, number of calls | turns, batches of tool calls, repairs, resume | AI client, tools |
| AI client (`ai/client/`, `ai/context.py`) | context limits it has learnt | call with retries, compaction | providers |
| graph services (`graph/`) | graph database: nodes, relationships, merges, owner | validated writes, merges, queries | repositories |
| vectorization and search (`rag/`) | vector store, record store | vectorize, archive, search | graph, embeddings |
| candidate preparation (`ingestion/identity_lookup.py`, `candidate_context.py`, ...) | registry of aliases, saved with the context pack | retrieve, look up, hydrate, draft | graph, search, AI |
| ingestion pipeline (`ingestion/`) | staged drafts, pending decisions, write plans | extract, resolve, plan, execute | graph, AI |

How they interact: a request calls the chat runtime, which makes a dozen store
calls, each one committed on its own, with an agentic run in the middle. The run
calls the store too, and the services of the graph. The ingestion pipeline is a second
way from a text to the graph, with decisions made before anything is written.

What is hard in each, and what says that it is right:

* **Web client.** Every handler goes on after an await with the session it
  remembers. Answers go out under their own packet, a chat stays open
  until the user leaves it, and a session that sends stops sending.
* **Chat runtime and store.** Read-modify-write of the session row across
  transactions, status checks on copies, exceptions between two calls. No message
  or exchange may be recorded twice or without having been shown or answered, a
  session that says it waits must be resumable, one that says it works must have a
  worker. The two implementations of the store must answer alike.
* **Clarification.** Partial answers, repeated answers, frames
  that ask again. A packet collects every answer and is closed exactly once.
* **Agentic runtime.** Questions from deep in a stack, from resumed frames, from
  several calls of one turn, and exceptions at any depth. An answer must reach the
  entry frame through every frame that waits for it.
* **Memory ingestion.** Interrupted between two actions and continued from a copy.
  Nothing may be written twice, and `ok` must mean that everything was done.
* **Tools and references.** Partial writes behind an error that invites another try;
  refs that are retrieved, planned, bound, copied and restored. One ref per object,
  one object per ref.
* **LLM session and client.** The cap on calls, forced follow-ups, repairs, compaction
  and retries meet in one loop. What is sent must be a conversation a provider accepts.
* **Graph and vectors.** Sequences of writes to several places without a transaction:
  each must be repeatable after a failure at any point, and search must agree with the graph.
* **Search.** Dozens of reads while others archive and merge. What is hidden stays hidden.
* **Ingestion pipeline.** Batches, repairs, questions, then a plan executed write by
  write. No decision is lost or made twice, and executing again duplicates nothing.

## Modules

    ClarificationLifecycle      what the chat promises about packets (abstract)
            ^ implemented by (PacketLifecycle)
    ChatStore <-- ChatRuntime            <-- MCChat, ChatProofs
    ChatStores                           <-- MCChatStores, StorageProofs   both implementations of the store
    WebClient                            <-- MCWebClient, WebClientProofs
    AgenticFrames                        <-- MCFrames, AgentProofs
    MemoryIngestion                      <-- MCIngestion, IngestionProofs
    RefContext <-- GraphTools            <-- MCGraphTools, IngestionProofs
    AIClient <-- LLMSession              <-- MCSession, SessionProofs
    GraphMemory <-- VectorIndex          <-- MCIndex, StorageProofs
    MemorySearch                         <-- MCMemorySearch, AgentProofs
    CandidatePreparation                 <-- MCCandidates, SessionProofs
    NodeResolution <-- IngestionPipeline <-- MCPipeline, PipelineProofs
    SetLemmas                   lemmas that the proofs of several modules use

An arrow leads from a module to one it extends. Each `MC` module gives the constants of
one instance; the `.cfg` files choose the bounds. The `Proofs` modules hold the theorems
(*What is proved*). Definitions marked "a variant" in a
module are what a plausible bug would make of their neighbour; no specification uses them.

### ChatStore and ChatRuntime

`ChatStore` is the state of one session in the relational store: `row`
(`chat_sessions`), `log` (`chat_messages`), `frames` (`chat_agentic_frames`) and
`process` (`chat_process`). Each of its operators is one public method of
`RelationalChatStore`, with all it changes: saving a frame also recomputes the row's
`active_agentic_frame_id`, appending a user message may title the session, and
`SaveSession` overwrites the whole row with the caller's copy. `rank` orders frames
by `updated_at`, which is all the code uses the time for. Messages are kept by kind: visible,
blank (no text) or hidden (clarification prompts and answers).

`ChatRuntime` runs requests on `Workers`. An action is one store call, or one step
between two. What a handler holds in a Python variable between calls is in the
worker's record `req[w]`: most of all the session object it will write back later.
`handle_message` is `ReceiveMessage`, `StoreUserMessage`, `BeginTurn`, `GetSession`,
`ListMessages`, `SaveContext`, the run, `StoreReply`, `GetForReply`, `SaveReply`,
`FinishTurn`; `answer_clarification` goes through `GetFrame`, `BeginTurn`,
`StoreAnswerMessage`, `RecordProgress`, the resumption, `PromoteAnswers` and then
the same ending. The agentic run is reduced to what it does to the store: it saves
frames (`SaveRelatedFrame` stands for those this module does not track), ends with
or without a text, or is interrupted with a new packet. The handler is prepared for any of
these outcomes of a resumption, so all are allowed, although the asking frame
itself does not ask again (see `AgenticFrames`). Exceptions are raised where
a `try` statement covers the call (`RaiseCovered`, which leads to `failed`) and
where none does (`RaiseUncovered`).

`ClarificationLifecycle` is the promise about packets, with no word about sessions
or requests: a packet is asked once, loses no answer while open, and closes once,
when complete; closing it may open the next. `ChatRuntime` maps its frames to it
(`Lifecycle`, with `PacketPhase` and `PacketAnswers` for the abstract state), and `PacketLifecycle` says that it implements it.

### ChatStores

Every call of the protocol `ChatSessionStore` is made to the store in memory (`mem`) and to
the relational one (`rel`), and what they answer is compared: rows, active
frames, frames by status, snapshots, activities, messages, sessions and previews. The calls are atomic
here (a lock in the one, a transaction in the other). Times are only compared, so they count
calls: a call stamps an even number, and a message was made at an odd one shortly before it is appended, perhaps
before one that was appended earlier. No two times are the same; the code has no rule for ties.
A listing that the code sorts is `Ordered`: an element stands at the position of its rank.
The differences that remain are part of the properties, each with its condition
(see *Where code and documents differ*).

### WebClient

A task is one event handler of the view: `Submit`, `SubmitPacket`, `Retry`, `Select`, `NewChat` and
`Delete` start it, and `Created`, `Replied`, `Loaded`, `Listed`, `Archived` are what it does after each
await, in whatever state the view is by then. `Serve` and `Finish` are the server's part:
it works on a request and replies with a message or a new packet. `Lose` takes the reply
away while the server goes on. `poll` is the poll under way. The question box with its
drafts, its index and its last submitted packet is `box`. A draft is
represented by the packet for which it was typed.

### AgenticFrames

The stack of frames of the request that runs, and the row each frame has left
in the store. `Run` starts an entry frame, `CallChild` is `run_child_frame`, `NextCall` is
a further call of the same assistant turn after one of its calls was interrupted,
`EndFresh` and `EndResumed` end a frame that runs for the first time or was
resumed, `Ask` is a clarification agent's question, `UnwindCaller` and
`UnwindResumedCaller` save the callers on the way out, `Answer` resumes the frame that
asked, and `Raise` and `Propagate` are an exception on its way to the nearest tool
call, whose executor turns it into an error result. What the model decides (which
child to call, when to ask or to end, how well) is nondeterministic, limited by
the tools each state has (`Children`, `MayStart`, `MayAsk`). Of messages only one fact is
kept, whether a row has an open tool call (`open`), and of metadata whether it
carries the continuation of an ingestion (`continues`): these two decide how a parent
is resumed. Requests do not overlap here; their overlapping is what `ChatRuntime` is about.

### MemoryIngestion

One ingestion: `Reason`, `PlanPhase` for each of the phases nodes, memory logs and
edges, and the actions of a phase in the order the planner gave them. An action runs in a
child frame and ends (`RunAction`), asks (`AskInAction`) or raises
(`RaiseInAction`); an edge with an unbound endpoint is deferred (`Defer`). `bound`
is the reference context reduced to the refs that have a backend id, `saved` the
continuation in the waiting frame, with the copy of `bound` that it carries.
`ContinueIngestion` is the answer: the child ends and the ingestion starts over from
the copy, skips its phase up to the interrupted action, and forgets the results so
far. `AskWhilePlanning` and `Converse` are the path on which the model asks before there is
anything to continue. History variables record what was started, written, failed and deferred.

### RefContext and GraphTools

`RefContext` has the operations of `CanonicalReferenceContext` as operators on a
record of entries and counters; one that may raise returns the ref `None` with the context it leaves
behind. `GraphTools` is what happens around it in one ingestion: `Retrieve` registers what a search
found and binds the owner, `Plan` registers a planner's ref, `Start` begins an action with
its target refs and saves the context, `Call` is any tool of the child, `AskClarification` hands
over to the clarification agent, `LookUp`, `Question` and `Report` are what that does,
`Answer` and `End` lead back to the ingestion. `Write` lets each
of a tool's writes be the last one: the call fails with some of them done, and
`Outcome` is what the tool then tells the model. Objects (`Objects`) are numbered in the order of their
creation; a memory log remembers its arguments in `data` (`Logs`), so that its links can
be compared with them. The names that planners choose (`PlannedRefs`) may be ones the
backend allocates itself, as nothing in the code keeps them apart.

### AIClient and LLMSession

`AIClient` is one request to a provider: `Truncated` and `Compacted` cut a transcript to the window, forced by an
error or by the budget, and the retry loop drops a rejected parameter, learns a limit, or
gives up. `LLMSession` is `SessionRunner`: `Request`, `Adjust`, then `ReplyWithCalls` (a batch
of results, some of which are handoffs or questions), `ReplyWithoutFollowUp`, `Complete`,
`Repair` or `RepairsExhausted`; `ResumeContinuation` and `ContinueFromMessages` are the two ways
to go on after a question. Messages are a role, a size, calls and the call they answer.

### GraphMemory and VectorIndex

`GraphMemory` has the writes of nodes (`Patch`, `Upsert`, `Transition`), merge records
(`CreateMerge`, `UpdateMerge`), and two operations that are jobs of a worker, one action per repository
call: `apply_merge` (`ReadNode`, `LinkMerged`, `Absorb`, `ArchiveMerged`, `FinishMerge`) and the creation
of a relationship state (`UpsertState`, `LinkState`, `ClearOthers`, `PatchContext`). `Raise` stops a job anywhere.
`Canonical` is `resolve_canonical_node`. `VectorIndex` adds vectors and records and the
job `vectorize_targets`: `ReadTarget`, `CompareRecord`, `StoreVector`, `StoreRecord` or `DeleteVector`,
`MarkArchived`. A text is a version of the node's document. `index[n]` records whether the last
vectorization of a node ran undisturbed ("clean"), the node has been written since ("changed"), or
vector and record were torn apart or shared ("mixed"). What a search without archived nodes can find is the
operator `Found`.

### MemorySearch

The views of `graph/query_service.py` and `graph/projection.py` are reads of one moment
(`Browse`). A search is a job: `Begin` takes hits of the vector store, `Hydrate` reads each one,
`Match` adds matches of properties, `Assemble` draws the graph around the selected hits, `Pack`
collects packages of context; `Write` is any write in between. Scores are an order, and the best hits are a
set with one member for each order that the scores allow (`Rankings`). `CanonicalAlong` follows merges with a recursive function that
counts the nodes still to be seen.

### CandidatePreparation

The beginning of an ingestion of the pipeline: `Build` retrieves a context and registers what it shows,
`Plan` plans entities, `Lookup` finds existing nodes for each, `HydrateNode`, `HydrateLinks`,
`HydrateLink` and `HydrateLogs` read about them one by one while others write, `Attach` saves packets and
registry, `ExtractBatch` matches a batch of drafts with its tasks, `Validate` hands the candidates on.
`MissEntity` is a resolution that needs another plan. An alias is a kind with a number; a registry is
rebuilt from its snapshot by `Restored`.

### NodeResolution and IngestionPipeline

`NodeResolution` resolves candidates batch by batch: `Act` is a tool call for a candidate,
`Fumble` one that fits none, `Ask` interrupts with a continuation and `Answer` rebuilds from it, `Repair`
and `GiveUp` end a session that left candidates out, `CompileBatch` and `Finalize` turn actions into decisions.
`IngestionPipeline` puts the stages around it: memory logs and relationships are planned and drafted (`PlanLogs`,
`ExtractLogs`, `PlanRelationship`, `ExtractRelation`), missing entities lead to a second resolution
(`MissEntities`, `ResolveAgain`), a log and a relationship get an action each (`ProposeMemory`, `ProposeRelation`),
`Build` makes the write plan from `Writes` and validates it, and `WriteNext`, `WriteFails`, `WriteRaises` and
`ExecuteAgain` execute it.

## Runs

All runs pass. A state count is the number of distinct states.

| run | instance | states | what it shows |
|---|---|---|---|
| `chat_sequential` | 1 worker, 4 requests of 5 kinds, 3 frames, 3 packets of 2 questions, no exceptions | 71 k | one request after another: `PacketLifecycle` (refinement), `WaitingIsResumable`, `HistoryComplete`, `WorkingHasWorker` |
| `chat_concurrent` | 2 workers, 3 requests of 3 kinds, 2 packets of 2 questions, exceptions anywhere | 2.6 M | every interleaving keeps `HistoryOnce`, `HistoryIsVisible`, `PromotedWereAnswered` |
| `chat_stores` | 2 sessions, frames and keys, 4 kinds of messages, 6 calls | 173 k | the two stores answer alike but for named differences: `StoresAgree` |
| `web_client` | 2 chats, 3 events of the user, 2 packets of 2 questions | 441 k | `AnswersAreForTheirPacket`, `OneRequestPerSession`, `StaysInChat`, and `SendingEnds` (liveness) |
| `frames` | 5 frames, 3 questions, exceptions, batches | 87 k | `AnswerReachesEntry`, `OneQuestionPerRun`, `EndedForGood`, and `EntryEnds` (liveness) |
| `ingestion` | up to 6 actions in 3 phases, 3 questions | 67 k | what the status ok means, with interruptions anywhere: `EachActionOnce`, `OkMeansDone` |
| `graph_tools` | a graph of 3 objects, 1 planned ref, 2 actions, 2 tool calls | 825 k | `OneRefPerObject`, `RefsKeepTheirObject`, `LogsAreLinked`, `RetryAfterNoWrite` |
| `llm_session` | batches of 2 calls, a cap of 2, 1 repair, 1 resumption, 3 attempts | 144 k | `SentIsWellFormed`, `CapHolds`, `CompletedIsFinal`, and `SessionStops` (liveness) |
| `index` | 2 persons, a profile memory, 1 merge record, 2 workers, 4 operations | 2.3 M | `MergedAreFollowable`, `MergeKeepsRefs`, `AtMostOneCurrent`, `IndexFollowsGraph`, `FoundAtCanonical` |
| `memory_search` | 8 nodes of 5 labels, 8 edges, 2 hits, a write between the reads | 179 k | `ViewsHideHidden`, `HitsInSight`, `OneHitPerMemory` |
| `candidates` | 3 nodes and a log, plans of up to 3 entities, 2 plans, a write between the reads | 1.2 M | `AliasesKeepTheirObject`, `LookupsAreSound`, `DraftsKeepTargets` |
| `pipeline` | 3 candidates and a supplemental one in batches of 2, 2 executions | 288 k | `FailsForCause`, `GraphIsAsDecided`, and `RequestEnds` (liveness) |

### Why the bounds are enough

* *Chat.* Three requests on two workers give every pair of requests that overlap, after one that
  has set the stage (a message whose run asked). Two questions make an answer
  partial; two packets let a frame ask again. Four requests in sequence
  allow a question, a partial and a final answer that asks again, and one more request of
  any kind. The bounds on messages, frames and packets are large enough not to
  stop a request half-way, except that a packet or frame more is not issued.
* *Stores.* Two of everything make the order of a listing matter. Six calls are
  a session with two messages, an archiving, a frame and two more calls. `Scanned` stands for the 20 messages
  a preview reads; with 2, a preview can miss a message.
* *Web client.* Two chats are what one can leave for the other; three events (`MaxTasks`) let two
  handlers be under way while the user does something else. Two packets (`MaxPackets`) let the server
  ask again while the answers to the first one are out.
* *Frames.* The deepest stack is entry, ingestion, creation, update,
  clarification agent: five frames. Three
  questions let a frame that was resumed be interrupted again, and again.
* *Ingestion.* Two creations and an update that share a phase, a memory log, and two
  edges whose endpoints were created in the same phase or in two; with
  three questions an ingestion is interrupted before, between and after failures and
  in two phases.
* *Tools.* The graph begins with the owner, the context of a relationship and an edge, so that a ref may
  be for a node, a context or an edge before anything is created. Two actions (`MaxActions`) carry refs
  over; two calls (`MaxCalls`) of any tools, each failing at any write, let one try again what the other
  left half done. `MaxLinks` = 2 is a memory log with a host and something else, or with two hosts;
  The planned ref is the name the backend gives to its third node, so that an allocation may collide with it.
  `MaxTargets` = 1 is one ref per action, question or lookup; `MaxStored` = 7 does not stop
  two calls of two writes each.
* *LLM session.* Results have 1 or 3 tokens in a window of 6, so that one batch may or may not exceed it; a cap of
  2 is met in the middle of a batch, at its end, and after a resumption. Three attempts cover an
  adjustment, a compaction and a failure.
* *Index.* Two workers are a merge or a vectorization and what races with it; four
  operations are an edit, a vectorization, a merge and a second vectorization. Texts 0, 1 and 2 are nothing to index, a version
  and another one. With two merge records and three operations the same properties hold.
* *Search.* The instance has one node of each kind that is treated in its own way: the owner, a person merged into another, one
  being merged, one without connections, a log, a perception, an event and a place. One write (`MaxWrites`) can
  fall between any two reads. `Limit` = 2 and `MaxHits` = 2 let a property match compete with the hits.
* *Candidates.* Two nodes of one name and an entity that matches nothing, one of them planned without a type. One plan is
  empty, as one that only names gaps of its context.
  Batches of two make a plan of three take two batches. Two plans (`MaxPlans`) restore a registry.
* *Pipeline.* `Tried` limits what the model tries on each candidate, so that all tools and refused calls occur in
  either batch; `Mentioned` are the candidates that logs and relationships mention, one of each extraction. With
  `MaxCalls` = 4 a batch has room for a repair; `MaxResults` = 2 keeps a question after any batch; two executions
  (`MaxRuns`) are a failed one and another.

Deadlock is checked in `memory_search`, which has no end. In the other instances it is not:
when requests, frames, calls or questions are used up there is nothing left to do.

### Fairness

* `AgenticFrames`: `WF_vars(Step)`, a request that runs goes on, since its
  frames are nested function calls on one thread. Models end or ask sooner or later because
  the frames and the questions of the instance are bounded; in the code the number of tool
  calls of a session is. `WF_vars(Answer)` is an assumption on users, stated as such:
  while the system is idle and something is asked, it is answered at last. `EntryEnds` is
  conditional on that, and on no exception having ended a request, because nothing
  in the code revives a run whose resumption raised.
* `LLMSession`: `WF_vars(Step)`, the loop runs in its caller's thread, and a call of a provider returns or raises.
  No fairness makes the provider accept, the model stop or the user answer: `SessionStops`
  counts a session that raised, failed or waits as stopped.
* `WebClient`: `WF_vars(Step(t))` for each handler, that is for the server's work on its request and its own
  continuations, which fetch runs when the reply or an error is there. None for the user, for faults or for polls.
* `IngestionPipeline`: `WF_vars(Proceed)`, what the ingestion's thread does next. None for what only may happen (`Others`:
  the answer to a question, a failing write, another execution). The models' loops end by the code's own counting, not by a bound of the instance:
  that is what `RequestEnds` is about.

The other modules have none: they state safety only.

## What is proved

Each `...Proofs` module extends the specification it is about and proves what
follows for every value of the constants that satisfies that module's named assumption:
any number of workers, frames, questions, batches, nodes or calls. An invariant a run checks
is seldom inductive. Each module first proves one that is, usually called `Inv`, by one step for
the initial states and one for each action, and the properties from it. `SetLemmas`
has what several of them need of the community modules' operators: that sets of numbers have
a least and, if finite, a greatest element, what `Min`, `Max`, `SetToSeq`, `FlattenSeq` and the like return, that a fold has values. Induction is
done by hand there, on the smallest counterexample.

The assumptions say no more than what the constants are: bounds are numbers, `Persons` is finite
and no person is a memory, the nodes searched are finite in number and a node that is merged at the start has a relationship to what it was merged into, actions are finite in number, an edge's endpoints are created in an earlier
phase or nowhere, no candidate is listed twice or named like what a plan creates besides, nodes, memory logs and
relationships have different ids and the logs are finite in number, a plan of entities names each once, a store has finitely many sessions, and `None` or `Null` differs from what it stands beside.

### ChatProofs

* `TypeCorrect`. The type invariant is not inductive as it stands: writing an answer back needs
  the frame and the packet of a worker that is past `GetFrame` to exist. `TypeInv` adds that.
* `HistoryOnceHolds`, `HistoryIsVisibleHolds`, `PromotedWereAnsweredHolds`, for any number of workers and
  exceptions anywhere. The properties are about the row, and the row is overwritten with
  copies that workers took long before. So `HistoryInv` states them of every copy in flight as well: a row
  is *good* (`GoodRow`) when it has each message at most once and only visible ones, and each packet at most once and only
  when all its questions are `given`; the row and each worker's copy are good; the
  progress of a frame and of a worker is contained in what users have given; and a
  worker about to promote has the whole packet. Since the log and `given` only grow (`Grows`), what was
  good stays good, and an action only has to show that what it writes is good. That is why keys inside the
  history are enough, without a lock: no interleaving appears in the proof.
* `WorkingHasWorkerHolds`, for requests that overlap, as soon as no call outside a `try` statement raises:
  missing exception handling is the only way to a session that is left working.
  `WorkInv` says that a worker in a turn keeps the process from being shown as working without it.
* `PacketLifecycleHolds`: the refinement of `ClarificationLifecycle`, for one worker and exceptions anywhere.
  `LifeInv` says that interrupted frames have packets of their own, and that the frame of an answer that is being handled
  still waits with the packet that was read. Under it a step that saves a frame is an abstract step
  (asked, answered, closed, or closed and followed), and every other one a stutter.
* `WaitingIsResumableHolds`, for one worker and exceptions anywhere. `WaitInv`: while the process says that it waits,
  a frame does; no answer is dealt with while it says so, since it is the answer that ends the frame; and a
  worker that will reply with a packet has left one waiting.
* `HistoryCompleteHolds`, for one worker, without exceptions and cancellations, which do lose a message.
  `CompleteInv` says where what the row lacks is at every step: it is what the worker is about to add (`OwedMessages`, `OwedPackets`), whose copy
  has all that the row has.

### SessionProofs

`SessionInvariant` proves `Inv`, of which the others follow.
A transcript is `Grouped` when it begins with the prompt, only the assistant makes calls, every call has a result, every result a
call, and nothing but other results stands between them. `TranscriptInv` says that the transcript is, that each call has one
result, and that calls are numbered without gaps, so that the next number is new; `SentInv` says that whatever
was sent is grouped too. The lemmas about `AIClient` carry this through compaction: cut where no
result stands, a grouped transcript leaves no result without its call (`CutIsGrouped`, `RecentStartIsCut`, `TruncatedIsGrouped`, `CompactedIsGrouped`).
`SentIsWellFormedHolds` follows. `CountInv` says that tools are offered below the cap only and that the count is that of
all calls (`CapHoldsAlways`), and `FinalInv` that a handoff is remembered until a text is allowed again (`CompletedIsFinalHolds`).

The second half is about `CandidatePreparation`. A registry that may come of a saved one (`After`) binds each object but the local ones once, to an
alias of a kind that fits (`KindsFor`), extends what was saved, and its counters are past every alias but those of
local objects (`Counts`). Each operation keeps it so (`RegisterIsAfter`, `RegisterLocalIsAfter`, `RestoredIsAfter`), and so do the folds over what was found
(`RegisterAllIsAfter`). Then the next number of a counter is never in use, which is why a lookup can refuse an object for its kind only, and only a
memory log has two kinds. `PreparationInv` adds that aliases of offers lead to matching nodes, and that each offer that no longer waits for its
hydration was visible when it was read, or was written since (`OfferInv`). A write only adds to `since`; the read of one offer takes out the pair of
that offer alone, because the object has no other alias. `MatchedTasks` follows the matching of drafts through a batch: after `j` drafts the
first `j` have their own tasks, and the tasks of the others are left; `BatchesHaveTasks` excludes an empty batch.

### StorageProofs

The first half is about the graph and its index. `GraphInvariant` proves `Inv`: `TypeOK`, `ShapeInv` (a job's fields agree with its step), and three parts.

* `MergeInv` for `MergedStayFollowable` and the action property `MergesKeepRefs`. The nodes of a merge job are linked but for those it has
  left to link, and all of them before one is archived (`LinksOf`). As long as no other request
  has written one of the job's nodes, its copies are what the nodes have, and once
  they are absorbed the canonical node has it all (`RefsOf`).
* `StateInv` for `NeverTwoCurrent`: of two states that are current, one has a job that is about to clear
  the other. That a job that has raised no longer does is the exception in `AtMostOneCurrent`.
* `IndexInv` for `IndexStaysInSync` and `StaysFound`. `PairInv`: for each node that is not "mixed" the record describes the vector,
  or a job is between the two writes. `CopyInv`: a target that counts as right has not been written since a job read
  it. `AloneInv`: targets that two jobs share are "mixed".

The second half is about the two chat stores. `StoresInvariant` proves `StoresInv`, which relates the state of the one to the other's; it holds for any
sessions, keys, frames, kinds of messages and number of calls. Rows are `Alike`: the same but for an active frame that archiving has made the relational one
forget, which is possible only while the session is in `cut`. Copies that requests hold must be alike in the same way (`HeldInv`), since saving an old
one overwrites both rows. Each key leads to the session with that key (`KeysInv`), so that one store refuses a key when the other does. A session's log in
memory holds exactly its messages in the table (`MessagesInv`), frames are listed where they belong (`FramesInv`), and the activities are numbered from 1, as `next` says
(`ProcessInv`): that is why counting those that were started gives the same in a sequence and in a table (`StartedAlike`, by a bijection).
`TimesInv` says that no two sessions were written at one time, and that a session's last message is in its log.
`StoresAgreeHolds` follows, with two lemmas about order: a sequence that is in a strict order is
`Ordered` of its elements (`OrderedIs`), and `Ordered` lists a finite set that a relation orders strictly and totally, each element once (`OrderedLists`).
So the messages and activities that the one store appends are what the other sorts, and the sessions, sorted
by two different rules, come in one order if they have messages: the rules could only disagree on sessions spoken in at the same time.

### IngestionProofs

`IngestionInvariant` proves `Inv`: `PlanInv` (each phase plans its own actions, once), `ControlInv` (what the
control and the saved continuation say of each other), `HandledInv` (all that lies before `next` has been started or
deferred), `OnceInv` (if ids are distinct, nothing was started twice) and `CleanInv` (until a first
question, what was started is written and bound, or has failed and ends the phase). `ActionsRunOnce` and
`OkMeansDoneHolds` follow. The continuation looks up its action by id, and this is where `IdsAreUnique` is needed.

The second half is about the tools; the specification of `GraphTools` has names of its own (`ToolsSpec`), so that one module
can extend both. `ToolsInvariant` proves `ToolsInv`, which holds of
any stored graph whose relationships end at objects of it, any refs the planners choose and any bounds: the context and the
saved copy are contexts of objects that exist, with one ref for each but the owner's (`Contexts`); the context knows all that the copy
knows and binds alike what that binds (`Keeps`); every log with a ref in either is linked; and the ends of relationships are in the graph (`Sound`). A log is linked when its last link is written, and only then is
it bound, so one lemma (`LogLinksLink`) says what the writes leave in the graph and another (`BindCreatedBinds`) what the binding changes.
`OneRefPerObjectHolds`, `RefsKeepTheirObjectHolds`, `LogsAreLinkedHolds` and `RetryAfterNoWriteHolds` follow. Registering what was found,
or showing it, is a `FoldLeft` over a sequence: `FoldExists` and `FoldStays` in `SetLemmas` give the function that the fold defines
as a sequence of intermediate contexts, and an invariant of one registration is an invariant of all by the smallest counterexample.

### PipelineProofs

`ResolutionInvariant` proves `Inv` for `FailsForCauseHolds`: unless the resolution has an excuse, each candidate before
the open batch has been decided in exactly one completed batch and none after it in any (`DoneUpTo`), the actions of the open batch are valid ones about its own
candidates (`ActedInv`), batches begin at multiples of their size (`BatchInv`), and a question is about the open batch and
carries the actions and results that were there (`QuestionInv`), so that an answer rebuilds the same state.

`WritingInvariant` proves `WrittenInv` for `GraphIsAsDecidedHolds`. Before a plan is executed the graph is as it was. From then on each write
of `Writes(...)` is either left in `plan` or done (`Done`), what is left has its edges last (`NodesFirst`), and the plan is valid: so
when an edge is next, every node of the plan is there. That the writes are those that were decided, and no others, is `PlanIsAsDecided`: the plan is
taken apart into its ten pieces. The first of these is a `FlattenSeq`, whose elements `ElementsOfFlatten` (`SetLemmas`) gives. It
is assumed that no candidate has the name of a log, context or assertion (`NewIds`), as `validate_write_plan` refuses a plan with two writes of one ref (`validation.py:154`).

### WebClientProofs

`ClientInvariant` proves `Inv`: `TypeOK`, which includes what each place of a handler implies (`WellPlaced`), `SendingInv` (a session is in `sending` as
long as it has a request that has not lost its reply, and has only one such), and `BoxInv` (the drafts are for the packet that is shown,
and what lies before the question shown is answered). From it follow `AnswersAreGiven` and
`OneRequestHolds`; `ChatStaysOpen` is an action property and needs only to look at each action.

### AgentProofs

`Invariant` proves `Inv`: types, and, as long as no two calls of one turn have asked, `Chained`.
Parents come before their children. Every frame that asks has a chain of waiting frames up to its entry, each of which
can be resumed, and the chains are disjoint from each other and from the frames of the request that runs. Of that request
either nothing asks (`Quiet`), or one frame does (`Interrupting`): then the part of the chain above the
unwinding stack entry is saved already, and the rest is on the stack. All is stated with sets closed
under parents, since `AnswerReachesEntry` is stated with recursive functions (`Root`, `Ancestors`), about which the provers know
nothing: `DefinedByParent` shows that such functions exist when parents come first.
`QuestionsReachEntries`, `QuestionsAreSingle` and the action property `NoneEndsTwice` follow.

The second half is about what the agent's searches return (`SearchSpec`). `SearchInvariant` proves `SearchInv`: of the hits that a search has collected, each
that was not written since it was read is in sight, and is a node that leads to itself or, where merges lead nowhere, to no canonical
node; a write takes away what was shown before. Two hits of one memory would then have one
canonical node, hence one target, and `Leading` keeps one hit per target. For this, the function that `CanonicalAlong` defines has to exist
(`ResolutionExists`: the nodes are finite), to end at a node that was merged into nothing, and to stay as it is where nobody writes:
writes only add merges, so that a node without a canonical one does not get one (`CanonicalAlongStays`).
`ViewsHideHiddenHolds`, `HitsInSightHolds` and `OneHitPerMemoryHolds` follow; the first is about reads of one moment and rests on no history.

### Model-checked only

* `EntryEnds`, `SessionStops`, `SendingEnds`, `RequestEnds`: liveness under fairness is out of the prover's reach.

Every invariant and every action property of the runs has a theorem.

## Where code and documents differ, and what properties leave out

The properties that pass are stated so that they hold of the code. What follows was met
while modelling: claims that do not hold, and the conditions in the properties
that stand for them.

**Chat.**
* `answer_clarification` (`chat/runtime.py:364`, `418`) checks the frame's status on a copy and then sets
  "interrupted" whatever the frame has become. Two concurrent answers revive a frame that has gone on, although a frame is to be
  answered once (`docs/architecture/agentic-tool-frame-runtime.md:133`,
  `docs/requirements/functional/clarification-agent-and-ux.md:464`). `PacketLifecycle` is checked without overlap.
* It also saves the session it read before the resumption (line 506): the row's active frame may then name one
  that waits no longer.
* Only the resumption is covered by a `try` (line 379 on): an exception in a store call before or after it
  leaves the process at "working".

**Stores.** Archiving clears the active frame in the relational store only. Sessions without messages
are listed by insertion in memory and in the database's order otherwise. The relational preview reads the last 20 messages and stops at a
blank one. A snapshot with `limit=0` has all activities in memory and none otherwise; the snapshot that `begin_chat_process` returns
lists none in memory. A duplicate key is another exception, and
publishing before a process has begun differs. `store.py` defines `InMemoryChatSessionStore` twice; the first
definition is dead.

**Web client.** Creating and deleting a chat open one, whatever the user has chosen since, and so does the initial load
(`StaysInChat` names them). The packet of the old chat is shown under a new one while that loads. A poll that was on its way when the reply came can show an answered packet
again for a moment. `clarificationError` is set without looking at the session (`ChatView.tsx:422`), and a failure to refresh the list after a successful answer
is reported as one to submit. A lost reply frees the composer while the server works on (`OneRequestPerSession` excepts it), and after a reload of the page nothing
polls a working session.

**Frames.**
* A resumed frame interrupted by a grandchild makes itself the grandchild's parent
  (`agentic/runtime.py:822`); the child in between waits for ever.
* Two calls of one turn may both ask (`runtime_state.py:506`); the first one's frame stays interrupted after its parent has
  ended. The properties exclude such runs (`twice`).
* A resumed clarification agent has no reference context: its payload carries none, the snapshot is only in the
  metadata (`tools/bindings.py:513`), and its tools raise. So it cannot ask again, although
  `docs/requirements/functional/clarification-agent-and-ux.md:80` lets a resumed call carry forward what the model sees.
* Its tools report "error" for what the model could correct, and only "recoverable_error" counts as recovered
  (`runtime_state.py:704`): a frame that corrected such a call still ends in error.

**Ingestion of the agent.** The continuation holds the reference context of before its action (`runtime_memory.py:457`): edges to
what that action created are deferred, and the status is still `ok`. A continued ingestion forgets earlier failures; `OkMeansDone` is about ingestions that were not interrupted.
A question asked while it reasons or plans ends in a conversation that stores nothing. `EachActionOnce` assumes
distinct action ids, which the model chooses.

**References.** A ref allocated by the backend may be one that a planner has chosen
(`refs.py:121`): the registration is refused (`docs/dev-plans/14-reference-coherence-and-recoverable-validation.md:14`). If that happens
to what a tool has just written, the tool answers that the call can be tried again, and a second call writes it twice
(`RetryAfterNoWrite` excepts it, as `NextRefTaken`). `OWNER` and `node_0001` may both name the owner (excepted in `OneRefPerObject`).
After a resumption a ref can be given out anew, so that over a whole run one ref may have two meanings
(`docs/dev-plans/13-canonical-reference-context.md:135`); `RefsKeepTheirObject` is about a context and its copy.
Endpoints of retrieved edges, and all that a lookup shows, are registered as entities, so that a log first reached that way can never be used
as a memory. `_bind_created_ref` binds the first open target of the kind, whatever its label. `upsert_graph_relationship` never
updates one. `get_candidate_context` keeps what it registered before a ref is refused. A memory log that fails in the middle stays in the graph
without links, and no ref.

**LLM sessions.** A follow-up that a handoff requires is lost when the same batch asks (`mixed`). When the cap has disabled the tools a forced
follow-up cannot be made, and the session fails (`runner.py:138`). The cap can be exceeded by the rest of one batch (`CapHolds`).
Repairs are counted anew after a resumption, and `continue_state_from_messages` has no output schema.

**Graph.** Two opposite merge proposals leave both nodes archived and merged into each other (`merge_service.py:99`,
`docs/network/graph-model.md:311`, `docs/dev-plans/01-memory-graph-database.md:689`): `FoundAtCanonical` is about nodes whose canonical
node can be resolved. `update_merge_record` can make an applied record a proposal again. Transitions and merges
refresh no vectors. If a vector was stored, its record was not, and the node returned to its old text, vectorization takes the
vector for unchanged (`index` is then "mixed", about which `IndexFollowsGraph` says nothing). `upsert_node` revives archived nodes.

**Search.** Filtering by targets that do not exist is no filter. A map without matching places shows all events.
Counts and log listings hide what is archived, not what is deleted. Packages of context have perceptions, contexts and sources whatever their
lifecycle, although `docs/dev-plans/09-graph-rag-and-vector-retrieval.md:538` wants hidden nodes filtered by default; `ViewsHideHidden` is about views and searched graphs.

**Candidates.** A relationship described without ends binds an alias to the id "None" (`graph_context_pack.py:293`). A memory log reached first as the end of a relationship is
refused as a memory, and the whole ingestion fails, where `docs/architecture/ingestion-identity-resolution-and-context-packets.md:1216` wants a smaller packet;
`LookupsAreSound` allows that one refusal. A draft that names no task takes the first unused one, even if a later draft names that
(`DraftsKeepTargets` is about batches in which each named one), and fewer drafts than tasks are accepted. Private nodes are registered before the hydrator drops them. The identity lookup is only wired in tests and scripts.

**Pipeline.** A patch of a deferred candidate is not looked at by `validate_write_plan`, so its execution fails after nodes were written, and each retry too
(`executor.py:190`, `validation.py:140`). `create_relationship` requires endpoints and ignores them. `MATCH_EXISTING` writes no update. A log hosted by a deferred
candidate fails the ingestion. The number of calls starts anew when a question is answered. Only questions of the entity resolution can be answered.
The plan's status never says that it failed: that is why it can be executed again.

## What is not modelled

* Texts: prompts, titles, rendering, summaries, redaction, normalisation, the contents of memories, plans and properties. Transcripts are modelled
  where they must be well formed (`LLMSession`), not what a resumed model sees in them.
* Scores: vector similarity and the matching of names are any order or a given relation.
* Channels, configuration, logging, debug traces, command line, schemas of tools, migrations, scripts: input, output, text and data
  definition.
* Change records and contradictions, written next to the graph's nodes and read by none of the modelled operations.
* The creation of the graph's owner: a check and an upsert under one configured id.
* The creation of a session by two first messages at once, and activities published by two requests at once: unique keys turn both into a failed request.
* The creation of a missing frame row in `_persist_waiting_child_frame` when the row of the asking frame
  cannot be read: the frame was saved a moment before by the same thread.
* An ingestion's conversation (`Converse`) that calls the memory-creation tool with an action of its own.
* The other views of the web client. `GraphView` has no guard against an answer that comes late, hence nothing to state.
* Several ingestions of one run over one reference context; several requests over one graph, except where `index`, `memory_search` and `candidates` have writers next to readers.

## Plan

Done: the components that keep state have their modules and runs; the chat, its frames, the agent's ingestion, its LLM
sessions, its references and tools, the two stores, the graph with its index and searches, the preparation of candidates, the pipeline with its resolution and the web client have their proofs.
Next: a composition of `AgenticFrames` with `GraphTools`: a run of several ingestions that share a reference context.
