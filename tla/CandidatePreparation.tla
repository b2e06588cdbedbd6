------------------------ MODULE CandidatePreparation ------------------------
(***************************************************************************)
(* Ingestion up to the candidates that are to be resolved: the context     *)
(* that is retrieved for a source, the entities planned for it, the        *)
(* existing nodes looked up for each (identity_lookup.py), what is read    *)
(* about those (candidate_context.py), and the candidates the model drafts *)
(* in batches (runtime_stages.py, enrichment.py).                          *)
(*                                                                         *)
(* Models see aliases, which reference_registry.py gives out in a run.  A  *)
(* registry lives for one lookup and is saved in the context pack between  *)
(* lookups.  The graph is read node by node while others write to it.      *)
(* Texts, scores, redaction and the memory logs of a source are left out.  *)
(***************************************************************************)
EXTENDS Naturals, Sequences, FiniteSets, SequencesExt, FiniteSetsExt, Functions, TLC

CONSTANTS
    Nodes,             \* nodes other than the owner and than memory logs
    Logs,              \* memory logs
    Owner,
    Links,             \* relationships, in the order of their types: [id, from, to]
    HostOf,            \* [Logs -> the node that it is a log of]
    Candidate,         \* refs for planned entities, CANDIDATE_*
    Untyped,           \* those that are planned without an entity type
    Matching,          \* [Candidate -> the nodes that its mention matches, the best first]
    Plans,             \* plans of entities: sequences of refs, each once
    MaxCandidates,     \* max_candidates
    MaxRelationships,  \* max_relationships
    BatchSize,         \* extraction_draft_batch_size
    MaxDraftBatch,     \* MAX_EXTRACTION_DRAFT_BATCH_SIZE
    MaxHits,           \* bound: hits of the search for context
    MaxSnippets,       \* bound: described relationships of the context packages
    MaxPlans,          \* bound: plans of one ingestion
    MaxWrites,         \* bound: writes by others
    None               \* no value; in the registry the internal id "None"

Things  == Nodes \cup Logs \cup {Owner}
LinkIds == {l.id : l \in ToSet(Links)}
Local   == "local"
OWNER   == <<"OWNER", 0>>

ASSUME PreparationAssumption ==
    /\ Links \in Seq([id : STRING, from : Things, to : Things])
    /\ Nodes \cap Logs = {} /\ Owner \notin Nodes \cup Logs /\ IsFiniteSet(Logs)
    /\ Things \cap {None, Local} = {} /\ None # Local
    /\ LinkIds \cap (Things \cup {None, Local}) = {}
    /\ HostOf \in [Logs -> Nodes] /\ Untyped \subseteq Candidate
    /\ Matching \in [Candidate -> Seq(Nodes \cup {Owner})]
    /\ \A p \in Plans : p \in Seq(Candidate \cup {OWNER}) /\ IsInjective(p)
    /\ MaxCandidates \in Nat \ {0} /\ MaxRelationships \in Nat /\ BatchSize \in Nat \ {0}
    /\ MaxDraftBatch \in Nat \ {0} /\ {MaxHits, MaxSnippets, MaxPlans, MaxWrites} \subseteq Nat

VARIABLES
    life,        \* [Things -> "open", "private" (by its privacy level) or "archived"]
    writes,      \* writes by others so far
    since,       \* <<ref, thing>> written since it was read as an offer for the ref
    stage,       \* what the ingestion does next, or how it ended
    saved,       \* reference_registry_snapshot: alias -> internal id
    packets,     \* identity_lookup_packets: ref -> [offers, status]
    registry,    \* the registry of the lookup under way
    plan, planned, \* the plan at work, and how many plans there were
    todo,        \* refs of the plan still to be looked up or extracted, or batches of them
    fresh,       \* packets of the lookup under way
    work,        \* <<ref, alias>> of the offers still to be hydrated
    links,       \* relationships of the offer at work that are still to be described
    drafted,     \* candidates of the plan at work: [ref, of]
    accepted     \* candidates handed on to resolution

graph  == <<life, writes>>
lookup == <<registry, fresh, work, links>>
drafts == <<drafted, accepted>>
preparationVars == <<graph, since, stage, saved, packets, lookup, plan, planned, todo, drafts>>

Empty == [a \in {} |-> None]

\* A function, and what another one has besides
Also(f, g) == [x \in DOMAIN f \cup DOMAIN g |-> IF x \in DOMAIN f THEN f[x] ELSE g[x]]

\* The elements of a sequence that are in a set, in their order
Keeping(s, T) == FlattenSeq([i \in DOMAIN s |-> IF s[i] \in T THEN <<s[i]>> ELSE <<>>])

-----------------------------------------------------------------------------
(* The registry: aliases with the internal id that each is bound to (None     *)
(* bound to "local" objects has no such id), and the mapper's counters.  A    *)
(* ValueError is kept as the id that was refused, and nothing happens after.  *)

Kinds == {"NODE", "REL", "MEMORY", "CONTEXT"}

KindOf(a) == IF a = OWNER THEN "NODE" ELSE a[1]

Aliases(bound, kind) == {a \in DOMAIN bound : a[1] = kind}
Highest(aliases)     == Max({a[2] : a \in aliases} \cup {0})

NewRegistry == [bound |-> Empty, counter |-> [k \in Kinds |-> 0], refused |-> {}]

\* Variants that forget what was counted, and what was bound.
RestoredUncounted(bound) == [NewRegistry EXCEPT !.bound = bound]
RestoredAnew(bound)      == [NewRegistry EXCEPT !.bound = OWNER :> Owner]

\* from_snapshot: _store_entry tells the mapper of the aliases with an internal id.
Restored(bound) ==
    [bound   |-> bound,
     counter |-> [k \in Kinds |-> Highest({a \in Aliases(bound, k) : bound[a] # Local})],
     refused |-> {}]

Known(r, x) == \E a \in DOMAIN r.bound : r.bound[a] = x
RefOf(r, x) == CHOOSE a \in DOMAIN r.bound : r.bound[a] = x

Bind(r, a, x) == [r EXCEPT !.bound = Also(@, [c \in {a} |-> x])]
Refuse(r, x)  == [r EXCEPT !.refused = {x}]

RegisterOwner(r) == Bind(r, OWNER, Owner)

\* register_existing, with alias_for
RegisterExisting(r, x, kind) ==
    LET alias == <<kind, r.counter[kind] + 1>>
    IN  IF r.refused # {} THEN r
        ELSE IF Known(r, x) THEN IF KindOf(RefOf(r, x)) = kind THEN r ELSE Refuse(r, x)
        ELSE IF alias \in DOMAIN r.bound THEN Refuse(r, x)
        ELSE Bind([r EXCEPT !.counter[kind] = @ + 1], alias, x)

RegisterAll(r, xs, kind) == FoldLeft(LAMBDA q, x : RegisterExisting(q, x, kind), r, xs)

\* register_local: it goes by the entries, and the mapper does not hear of it.
RegisterLocal(r, kind) ==
    IF r.refused # {} THEN r ELSE Bind(r, <<kind, Highest(Aliases(r.bound, kind)) + 1>>, Local)

\* graph_context_pack._node_ref: whatever has an alias keeps it, the rest are nodes.
NodeRef(r, x) == IF Known(r, x) THEN r ELSE RegisterExisting(r, x, "NODE")

-----------------------------------------------------------------------------
(* Others write to the graph *)

PreparationInit ==
    /\ life = [x \in Things |-> "open"]
    /\ writes = 0 /\ since = {}
    /\ stage = "build" /\ saved = Empty /\ packets = Empty
    /\ registry = NewRegistry
    /\ plan = <<>> /\ planned = 0 /\ todo = <<>>
    /\ fresh = Empty /\ work = <<>> /\ links = <<>>
    /\ drafted = <<>> /\ accepted = <<>>

\* A write at any other time is to the ingestion one before its next lookup.
Write(x, l) ==
    /\ writes < MaxWrites /\ life[x] # l
    /\ stage \in {"build", "lookup", "node", "links", "link", "logs"}
    /\ life' = [life EXCEPT ![x] = l]
    /\ writes' = writes + 1
    /\ since' = since \cup {<<ref, x>> : ref \in {c \in Candidate : x \in ToSet(Matching[c])}}
    /\ UNCHANGED <<stage, saved, packets, lookup, plan, planned, todo, drafts>>

\* search_nodes finds active nodes, whatever their privacy.
Active(x) == life[x] # "archived"

\* _is_visible_node
IsVisible(x) == life[x] = "open"

-----------------------------------------------------------------------------
(* The context of the source *)

\* _relationship_from_graph_view
RegisterViewed(r, l) == RegisterExisting(NodeRef(NodeRef(r, l.from), l.to), l.id, "REL")

\* _relationship_snippets: the items of a context package name their endpoints
\* from_alias and to_alias; what is read is from_ref and to_ref.
RegisterSnippet(r, i) == NodeRef(RegisterLocal(r, "CONTEXT"), None)

\* build, with _from_search_result.  Without a text, or a search, there are no
\* hits.  A memory log is a hit at its host (see MemorySearch).
Build ==
    /\ stage = "build"
    /\ \E hits \in SeqOf(Nodes \cup {Owner}, MaxHits), viewed \in SUBSET ToSet(Links), n \in 0 .. MaxSnippets :
          /\ IsInjective(hits) /\ \A x \in ToSet(hits) : life[x] # "archived"
          /\ hits = <<>> => viewed = {} /\ n = 0
          /\ LET found == RegisterAll(RegisterOwner(NewRegistry), hits, "NODE")
                 seen  == FoldLeft(RegisterViewed, found, Keeping(Links, viewed))
                 all   == FoldLeft(RegisterSnippet, seen, [i \in 1 .. n |-> i])
             IN  saved' = all.bound
    /\ stage' = "reason"
    /\ UNCHANGED <<graph, since, packets, lookup, plan, planned, todo, drafts>>

-----------------------------------------------------------------------------
(* Reasoning and planning, by a model that may fail or ask the user.          *)

Goes(s) == stage' = s /\ UNCHANGED <<graph, since, saved, packets, lookup, plan, planned, todo, drafts>>

Reason == stage = "reason" /\ Goes("plan")

ModelFails == stage \in {"reason", "plan"} /\ Goes("invalid")
ModelAsks  == stage \in {"reason", "plan"} /\ Goes("asked")

\* _plan_entities and _plan_missing_entity; then _attach_identity_lookup_packets
\* starts from the saved registry.
Plan ==
    /\ stage = "plan" /\ planned < MaxPlans
    /\ \E p \in Plans : plan' = p /\ todo' = p /\ stage' = IF p = <<>> THEN "node" ELSE "lookup"
    /\ planned' = planned + 1
    /\ registry' = Restored(saved)
    /\ fresh' = Empty /\ work' = <<>> /\ links' = <<>> /\ drafted' = <<>>
    /\ UNCHANGED <<graph, since, saved, packets, accepted>>

-----------------------------------------------------------------------------
(* The lookup of one planned entity *)

Status(offers) == CASE Len(offers) = 0 -> "no_candidates"
                    [] Len(offers) = 1 -> "one_candidate"
                    [] OTHER           -> "multiple_candidates"

\* lookup: the active nodes that match, without the owner.  The graph has no
\* search_identity_fuzzy.
Found(ref) ==
    LET matched == Keeping(Matching[ref], {x \in Things \ {Owner} : Active(x)})
    IN  SubSeq(matched, 1, Min({Len(matched), MaxCandidates}))

Registered(ref) == RegisterAll(registry, Found(ref), "NODE")

\* What is to be hydrated, in the order of the plan
ToHydrate(found) ==
    FlattenSeq([i \in DOMAIN plan |->
                  IF plan[i] \in DOMAIN found
                  THEN [j \in DOMAIN found[plan[i]].offers |-> <<plan[i], found[plan[i]].offers[j]>>]
                  ELSE <<>>])

\* Moves on in the plan, or to the hydration of what was found.
NextLookup(r, found) ==
    /\ registry' = r /\ fresh' = found
    /\ IF Len(todo) > 1
       THEN todo' = Tail(todo) /\ UNCHANGED <<work, stage>>
       ELSE todo' = <<>> /\ work' = ToHydrate(found) /\ stage' = "node"
    /\ UNCHANGED <<graph, since, saved, packets, links, plan, planned, drafts>>

\* lookup_plan
Lookup ==
    /\ stage = "lookup" /\ Head(todo) \in Candidate \ Untyped
    /\ LET nodes == Found(Head(todo))
           r     == Registered(Head(todo))
           offers == [i \in 1 .. Len(nodes) |-> RefOf(r, nodes[i])]
       IN  /\ r.refused = {}
           /\ NextLookup(r, Also(fresh, [ref \in {Head(todo)} |-> [offers |-> offers, status |-> Status(offers)]]))

SkipUntyped ==
    /\ stage = "lookup" /\ Head(todo) \in Untyped
    /\ NextLookup(registry, fresh)

\* An EntityLookupRequest takes a CANDIDATE_* ref only, and nobody catches its
\* error.
LookupOwner == stage = "lookup" /\ Head(todo) = OWNER /\ Goes("raised")

\* IdentityLookupError and CandidateContextHydrationError, for a failing read
ReadFails ==
    /\ stage \in {"lookup", "node", "links", "link", "logs"}
    /\ stage # "lookup" => work # <<>>
    /\ Goes("unread")

-----------------------------------------------------------------------------
(* The hydration of one offer: the node, its relationships, the node at the   *)
(* other end of each, its logs; every one is read for itself.                 *)

Ref     == Head(work)[1]
Alias   == Head(work)[2]
Offered == registry.bound[Alias]

\* A variant that offers hidden nodes as well.
OfferAnyway(x) == TRUE

\* _hydrate_candidate drops what is not there or hidden.
IsOffered(x) == IsVisible(x)

ContinueAt(s, r, ls) ==
    /\ stage' = s /\ registry' = r /\ links' = ls
    /\ UNCHANGED <<graph, saved, packets, plan, planned, todo, drafts>>

HydrateNode ==
    /\ stage = "node" /\ work # <<>>
    /\ since' = since \ {<<Ref, Offered>>}
    /\ IF IsOffered(Offered)
       THEN ContinueAt("links", registry, <<>>) /\ UNCHANGED <<fresh, work>>
       ELSE /\ fresh' = [fresh EXCEPT ![Ref].offers = Keeping(@, ToSet(@) \ {Alias})]
            /\ work' = Tail(work)
            /\ ContinueAt("node", registry, <<>>)

\* _relationships, the first few by type
HydrateLinks ==
    /\ stage = "links"
    /\ LET mine == Keeping(Links, {l \in ToSet(Links) : Offered \in {l.from, l.to}})
       IN  ContinueAt("link", registry, SubSeq(mine, 1, Min({Len(mine), MaxRelationships})))
    /\ UNCHANGED <<since, fresh, work>>

\* _register_node and _relationship_context
Described(l) ==
    LET other == IF l.from = Offered THEN l.to ELSE l.from
        named == IF other = Owner THEN registry ELSE RegisterExisting(registry, other, "NODE")
    IN  IF IsVisible(other) THEN RegisterExisting(named, l.id, "REL") ELSE registry

HydrateLink ==
    /\ stage = "link"
    /\ IF links = <<>> THEN ContinueAt("logs", registry, <<>>)
       ELSE LET r == Described(Head(links))
            IN  r.refused = {} /\ ContinueAt("link", r, Tail(links))
    /\ UNCHANGED <<since, fresh, work>>

\* _memory_summaries: the visible logs, as memories
WithLogs ==
    RegisterAll(registry, SetToSeq({m \in Logs : HostOf[m] = Offered /\ IsVisible(m)}), "MEMORY")

HydrateLogs ==
    /\ stage = "logs" /\ WithLogs.refused = {}
    /\ work' = Tail(work)
    /\ ContinueAt("node", WithLogs, <<>>)
    /\ UNCHANGED <<since, fresh>>

\* A refusal of the registry, at any of these steps, ends the ingestion:
\* identity_lookup_failed.
RegistryRefuses ==
    LET r == CASE stage = "lookup" -> Registered(Head(todo))
               [] stage = "link"   -> Described(Head(links))
               [] stage = "logs"   -> WithLogs
    IN  /\ stage \in {"lookup", "link", "logs"}
        /\ stage = "lookup" => Head(todo) \in Candidate \ Untyped
        /\ stage = "link" => links # <<>>
        /\ r.refused # {}
        /\ ContinueAt("refused", r, links)
        /\ UNCHANGED <<since, fresh, work>>

\* A variant that forgets the registry of the lookup.
SnapshotBefore(r) == saved

\* snapshot
Snapshot(r) == r.bound

\* entity_extraction_plan: the owner and what has no type is not extracted.
Tasks(p) == Keeping(p, Candidate \ Untyped)

\* batch_sequence: a last batch of one joins the one before.
Batches(tasks) ==
    LET n   == (Len(tasks) + BatchSize - 1) \div BatchSize
        cut == [i \in 1 .. n |-> SubSeq(tasks, (i - 1) * BatchSize + 1, Min({i * BatchSize, Len(tasks)}))]
    IN  IF n > 1 /\ Len(cut[n]) = 1 /\ Len(cut[n - 1]) < MaxDraftBatch
        THEN Append(SubSeq(cut, 1, n - 2), cut[n - 1] \o cut[n])
        ELSE cut

\* _hydrate_packet counts again; the packets of this plan replace older ones.
Attach ==
    /\ stage = "node" /\ work = <<>>
    /\ packets' = Also([ref \in DOMAIN fresh |-> [fresh[ref] EXCEPT !.status = Status(fresh[ref].offers)]], packets)
    /\ saved' = Snapshot(registry)
    /\ registry' = NewRegistry /\ fresh' = Empty
    /\ todo' = Batches(Tasks(plan)) /\ plan' = <<>>
    /\ stage' = "extract"
    /\ UNCHANGED <<graph, since, work, links, planned, drafts>>

-----------------------------------------------------------------------------
(* Extraction.  A draft is the ref that the model gives it, None for a ref    *)
(* that was not planned.                                                      *)

\* A variant that matches drafts with tasks by their order.
MatchedInOrder(own, tasks) == [i \in 1 .. Len(own) |-> tasks[Min({i, Len(tasks)})]]

\* _match_tasks_for_drafts: the task a draft names, else the first that is left,
\* else the last of all.
TaskFor(left, ref, tasks) ==
    IF ref \in ToSet(left) THEN ref ELSE IF left # <<>> THEN Head(left) ELSE Last(tasks)

MatchOne(m, ref, tasks) ==
    LET task == TaskFor(m.left, ref, tasks)
    IN  [left |-> Keeping(m.left, ToSet(m.left) \ {task}), found |-> Append(m.found, task)]

Matched(own, tasks) ==
    FoldLeft(LAMBDA m, ref : MatchOne(m, ref, tasks), [left |-> tasks, found |-> <<>>], own).found

\* enrich_candidate_batch_with_tasks; a candidate has the ref of its task.  of:
\* what the draft is of, when the drafts named a task each.
Enriched(own, tasks) ==
    LET refs == Matched(own, tasks)
        named == IsInjective(own) /\ ToSet(own) \subseteq ToSet(tasks)
    IN  [i \in 1 .. Len(own) |-> [ref |-> refs[i], of |-> IF named THEN own[i] ELSE None]]

\* _extract_entities and extract_with_optional_batch
ExtractBatch ==
    /\ stage = "extract" /\ todo # <<>>
    /\ \E own \in SeqOf(ToSet(Head(todo)) \cup {None}, Len(Head(todo)) + 1) :
          drafted' = drafted \o Enriched(own, Head(todo))
    /\ todo' = Tail(todo)
    /\ UNCHANGED <<graph, since, stage, saved, packets, lookup, plan, planned, accepted>>

\* "Structured extraction did not complete" is caught by nobody.
ExtractionRaises == stage = "extract" /\ todo # <<>> /\ Goes("raised")

\* _validate_local_ref_uniqueness
UniqueRefs(candidates) == \A i, j \in DOMAIN candidates : candidates[i].ref = candidates[j].ref => i = j

\* assemble, validate_candidate_graph.  What was drafted for a missing entity is
\* validated for itself, before it joins the others.
Validate ==
    /\ stage = "extract" /\ todo = <<>>
    /\ IF UniqueRefs(drafted)
       THEN accepted' = accepted \o drafted /\ stage' = "resolve"
       ELSE accepted' = accepted /\ stage' = "invalid"
    /\ drafted' = <<>>
    /\ UNCHANGED <<graph, since, saved, packets, lookup, plan, planned, todo>>

\* What else the validation looks at: labels, endpoints, evidence, memory logs.
ContentInvalid ==
    /\ \/ stage = "extract" /\ todo = <<>> /\ drafted # <<>>
       \/ stage = "resolve"
    /\ Goes("invalid")

\* The rest of the ingestion (see IngestionPipeline) may find an entity missing,
\* for which there is another plan; what is missing then blocks it.
MissEntity == stage = "resolve" /\ planned < MaxPlans /\ Goes("plan")
Block      == stage = "resolve" /\ planned > 1 /\ Goes("blocked")

\* The last validation, of all candidates together
Finish == stage = "resolve" /\ Goes(IF UniqueRefs(accepted) THEN "ready" ELSE "invalid")

PreparationNext ==
    \/ \E x \in Things \ {Owner}, l \in {"open", "private", "archived"} : Write(x, l)
    \/ Build \/ Reason \/ ModelFails \/ ModelAsks \/ Plan
    \/ Lookup \/ SkipUntyped \/ LookupOwner \/ ReadFails
    \/ HydrateNode \/ HydrateLinks \/ HydrateLink \/ HydrateLogs \/ RegistryRefuses \/ Attach
    \/ ExtractBatch \/ ExtractionRaises \/ Validate \/ ContentInvalid
    \/ MissEntity \/ Block \/ Finish

PreparationSpec == PreparationInit /\ [][PreparationNext]_preparationVars

-----------------------------------------------------------------------------
(* Properties *)

\* An alias that a model has seen means the same object for the whole ingestion,
\* also after its registry was saved and restored (from_snapshot), and an object
\* has one alias.
AliasesKeepTheirObject ==
    [][/\ \A a \in DOMAIN saved : a \in DOMAIN saved' /\ saved'[a] = saved[a]
       /\ \A a, b \in DOMAIN saved' : saved'[a] = saved'[b] /\ saved'[a] # Local => a = b]_preparationVars

\* What is offered as an existing node for a planned entity (hydrate_packets) can
\* be resolved with the registry that was saved for it; it matches the mention, is
\* not the owner, and was visible when it was read last.
OffersAreVisible ==
    \A ref \in DOMAIN packets \ DOMAIN fresh :
        LET offers == packets[ref].offers
        IN  /\ packets[ref].status = Status(offers)
            /\ \A i \in DOMAIN offers :
                  /\ offers[i] \in DOMAIN saved
                  /\ saved[offers[i]] \in ToSet(Matching[ref]) \ {Owner}
                  /\ IsVisible(saved[offers[i]]) \/ <<ref, saved[offers[i]]>> \in since

\* A lookup offers what it may, also when others write to the graph, and its
\* registry refuses nothing but a memory log that is reached both as the end of a
\* relationship (_relationship_context) and as a memory of its host
\* (_memory_summaries): no number is given out twice, which would end an ingestion.
LookupsAreSound == OffersAreVisible /\ (stage = "refused" => registry.refused \subseteq Logs)

\* Candidates that are handed on (_extract_entities) are of entities that were
\* planned with a type; when the drafts of a batch named a task each, every
\* candidate is what the model drafted for that entity, in whatever order.
DraftsKeepTargets ==
    \A i \in DOMAIN accepted : /\ accepted[i].ref \in Candidate \ Untyped
                                /\ accepted[i].of \in {None, accepted[i].ref}
=============================================================================
