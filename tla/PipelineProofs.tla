--------------------------- MODULE PipelineProofs ---------------------------
(***************************************************************************)
(* Proofs about IngestionPipeline and the resolution of nodes in it, for   *)
(* any candidates, batches of any size, and any number of calls, sessions, *)
(* questions and executions.                                               *)
(***************************************************************************)
EXTENDS IngestionPipeline, Integers, SetLemmas, FiniteSetTheorems, TLAPS

Taking  == [Refs -> Tools \cup {Refused, None}]
Results == UNION {[S -> Tools] : S \in SUBSET Refs}

TypeOK ==
    /\ candidates \in {<<>>, Entities, Combined}
    /\ batch \in Nat \ {0}
    /\ acted \in Taking /\ recent \in Taking
    /\ results \in Seq(Results)
    /\ excused \in BOOLEAN
    /\ then \in {"logs", "planning"}

InResolution == stage \in {"resolving", "waiting"}

\* The candidate at i has one completed batch if it comes before b, or none.
DoneUpTo(rs, b) ==
    \A i \in DOMAIN candidates :
        /\ i < b => \E j \in DOMAIN rs : \A k \in DOMAIN rs :
                        candidates[i] \in DOMAIN rs[k] <=> k = j
        /\ i >= b => \A k \in DOMAIN rs : candidates[i] \notin DOMAIN rs[k]

\* Batches begin where resume_nodes looks for them.
BatchInv == (batch - 1) % BatchSize = 0

\* Unless there is a cause to fail, the actions are valid ones of the batch, and
\* those of the session are among them ...
ActedInv ==
    \A r \in Refs :
        /\ acted[r] # Refused /\ recent[r] # Refused
        /\ acted[r] = None => recent[r] = None
        /\ acted[r] # None => r \in Batch

\* ... and a question is one about the batch, if it is about a candidate, with
\* the actions and the results that were there.
QuestionInv ==
    /\ question.about \in ToSet(candidates) \cup {None}
    /\ question.recent = recent /\ question.results = results
    /\ excused \/ question.about \in Batch

Inv ==
    /\ TypeOK
    /\ InResolution => BatchInv
    /\ InResolution /\ ~excused => ActedInv /\ DoneUpTo(results, batch)
    /\ stage = "waiting" => QuestionInv
    /\ FailsForCause

-----------------------------------------------------------------------------
(* Where batches begin *)

LEMMA RemainderIsUnique ==
    ASSUME NEW n \in Nat \ {0}, NEW q \in Nat, NEW r \in Nat, r < n,
           NEW p \in Int, NEW m \in Nat, m < n, q * n + r = p * n + m
    PROVE  r = m
BY SMTT(20)

LEMMA NextMultiple ==
    ASSUME NEW a \in Nat, NEW n \in Nat \ {0}, a % n = 0
    PROVE  (a + n) % n = 0
<1> DEFINE q == a \div n
           p == (a + n) \div n
           m == (a + n) % n
<1>1. a = n * q /\ q \in Nat
  BY SMTT(20)
<1>2. a + n = n * p + m /\ m \in 0 .. n - 1 /\ p \in Nat
  BY SMTT(20)
<1> HIDE DEF q, p, m
<1>3. (q + 1) * n + 0 = p * n + m
  BY <1>1, <1>2
<1>4. q + 1 \in Nat /\ p \in Int /\ m \in Nat /\ m < n /\ 0 < n /\ 0 \in Nat
  BY <1>1, <1>2
<1>5. 0 = m
  BY <1>3, <1>4, RemainderIsUnique
<1> QED
  BY <1>5 DEF m

LEMMA Remainder ==
    ASSUME NEW a \in Nat, NEW n \in Nat \ {0}
    PROVE  /\ a % n \in 0 .. n - 1 /\ a - (a % n) \in Nat /\ (a - (a % n)) % n = 0
           /\ a % n = 0 => \A k \in 0 .. n - 1 : (a + k) % n = k
<1>1. a = n * (a \div n) + (a % n) /\ a % n \in 0 .. n - 1 /\ a \div n \in Nat
  BY SMTT(20)
<1>2. \A q \in Nat : (n * q) % n = 0
  BY SMTT(20)
<1>3. a - (a % n) = n * (a \div n) /\ a - (a % n) \in Nat
  BY <1>1, SMTT(20)
<1>4. ASSUME a % n = 0, NEW k \in 0 .. n - 1 PROVE (a + k) % n = k
  BY <1>4, SMTT(20)
<1> QED
  BY <1>1, <1>2, <1>3, <1>4

\* A candidate of a batch leads back to where the batch begins.
LEMMA BatchHoldingIsBatch ==
    ASSUME NEW b \in Nat \ {0}, (b - 1) % BatchSize = 0, NEW i \in b .. b + BatchSize - 1
    PROVE  BatchHolding(i) = b
<1>1. BatchSize \in Nat \ {0}
  BY ResolutionAssumption DEF ResolutionAssumption
<1>2. b - 1 \in Nat /\ i - b \in 0 .. BatchSize - 1 /\ i - 1 = (b - 1) + (i - b) /\ i \in Nat
  BY <1>1
<1>3. ((b - 1) + (i - b)) % BatchSize = i - b
  BY <1>1, <1>2, Remainder
<1>4. (i - 1) % BatchSize = i - b
  BY <1>2, <1>3
<1> QED
  BY <1>2, <1>4 DEF BatchHolding

LEMMA BatchHoldingBegins ==
    ASSUME NEW i \in Nat \ {0}
    PROVE  BatchHolding(i) \in Nat \ {0} /\ (BatchHolding(i) - 1) % BatchSize = 0
<1> DEFINE a == i - 1
<1>1. BatchSize \in Nat \ {0} /\ a \in Nat
  BY ResolutionAssumption DEF ResolutionAssumption
<1> DEFINE m == a % BatchSize
<1>2. m \in Nat /\ a - m \in Nat /\ (a - m) % BatchSize = 0
  <2> HIDE DEF a
  <2>1. m \in 0 .. BatchSize - 1 /\ a - m \in Nat /\ (a - m) % BatchSize = 0
    BY <1>1, Remainder
  <2> HIDE DEF m
  <2> QED
    BY <1>1, <2>1
<1>3. BatchHolding(i) = i - m
  BY DEF BatchHolding
<1> HIDE DEF m
<1>4. BatchHolding(i) - 1 = (i - 1) - m
  BY <1>2, <1>3
<1> QED
  BY <1>2, <1>3, <1>4

-----------------------------------------------------------------------------
(* Candidates and batches *)

LEMMA CandidatesAreOnce ==
    ASSUME NEW cs \in {<<>>, Entities, Combined}
    PROVE  cs \in Seq(Refs) /\ \A i, j \in DOMAIN cs : cs[i] = cs[j] => i = j
<1>1. Entities \in Seq(Refs) /\ Supplemental \in Seq(Refs)
  BY ResolutionAssumption DEF ResolutionAssumption
<1>2. Combined \in Seq(Refs)
  BY <1>1 DEF Combined
<1>3. \A i, j \in DOMAIN Combined : Combined[i] = Combined[j] => i = j
  BY ResolutionAssumption DEF ResolutionAssumption, IsInjective
<1>4. \A i \in DOMAIN Entities : i \in DOMAIN Combined /\ Combined[i] = Entities[i]
  BY <1>1 DEF Combined
<1>5. \A i, j \in DOMAIN Entities : Entities[i] = Entities[j] => i = j
  BY <1>3, <1>4
<1>6. CASE cs = <<>>
  BY <1>6
<1> QED
  BY <1>1, <1>2, <1>3, <1>5, <1>6

\* A batch has the candidates at its positions, and no other.
LEMMA BatchHas ==
    ASSUME TypeOK
    PROVE  /\ Batch \subseteq ToSet(candidates) /\ Batch \subseteq Refs
           /\ \A i \in DOMAIN candidates :
                candidates[i] \in Batch <=> i \in batch .. batch + BatchSize - 1
<1>1. /\ candidates \in Seq(Refs)
      /\ \A i, j \in DOMAIN candidates : candidates[i] = candidates[j] => i = j
  BY CandidatesAreOnce DEF TypeOK
<1>2. BatchSize \in Nat \ {0} /\ batch \in Nat \ {0}
  BY ResolutionAssumption DEF ResolutionAssumption, TypeOK
<1> DEFINE n == Len(candidates)
           m == Min({batch + BatchSize - 1, n})
<1>3. n \in Nat /\ DOMAIN candidates = 1 .. n
  BY <1>1
<1> DEFINE l == batch + BatchSize - 1
<1>10. l \in Int /\ n \in Int
  BY <1>2, <1>3
<1>4. m \in Int /\ m <= batch + BatchSize - 1 /\ m <= n /\ m \in {batch + BatchSize - 1, n}
  <2> HIDE DEF n
  <2>1. m = Min({l, n})
    OBVIOUS
  <2> HIDE DEF m
  <2>2. m \in Int /\ m <= l /\ m <= n /\ m \in {l, n}
    <3> HIDE DEF l
    <3> QED
      BY <1>10, <2>1, MinOfTwo
  <2> QED
    BY <2>2
<1>5. Batch = {candidates[i] : i \in batch .. m}
  BY DEF Batch, BatchOf
<1> HIDE DEF n, m
<1>6. \A i \in batch .. m : i \in DOMAIN candidates /\ i <= batch + BatchSize - 1
  BY <1>2, <1>3, <1>4
<1>7. \A i \in DOMAIN candidates : i \in batch .. batch + BatchSize - 1 => i \in batch .. m
  BY <1>2, <1>3, <1>4
<1>8. Batch \subseteq ToSet(candidates) /\ Batch \subseteq Refs
  BY <1>1, <1>5, <1>6 DEF ToSet
<1>9. ASSUME NEW i \in DOMAIN candidates
      PROVE  candidates[i] \in Batch <=> i \in batch .. batch + BatchSize - 1
  <2>1. ASSUME candidates[i] \in Batch PROVE i \in batch .. batch + BatchSize - 1
    <3>1. PICK j \in batch .. m : candidates[j] = candidates[i]
      BY <1>5, <2>1
    <3>2. i = j
      BY <1>1, <1>6, <3>1
    <3> QED
      BY <1>2, <1>4, <1>6, <3>1, <3>2
  <2>2. ASSUME i \in batch .. batch + BatchSize - 1 PROVE candidates[i] \in Batch
    BY <1>5, <1>7, <2>2
  <2> QED
    BY <2>1, <2>2
<1> QED
  BY <1>8, <1>9

\* What a batch adds to the completed ones: its candidates, once.
LEMMA BatchIsAdded ==
    ASSUME TypeOK, DoneUpTo(results, batch), ActedInv, Missing = {}
    PROVE  /\ Completed \in Seq(Results)
           /\ DoneUpTo(Completed, batch + BatchSize)
<1>1. /\ Batch \subseteq Refs
      /\ \A i \in DOMAIN candidates :
           candidates[i] \in Batch <=> i \in batch .. batch + BatchSize - 1
  BY BatchHas
<1>2. BatchSize \in Nat \ {0} /\ batch \in Nat \ {0} /\ results \in Seq(Results)
  BY ResolutionAssumption DEF ResolutionAssumption, TypeOK
<1>3. \A r \in Refs : acted[r] # None <=> r \in Batch
  BY <1>1 DEF ActedInv, Missing
<1>4. \A r \in Refs : acted[r] \in Tools \cup {None}
  BY DEF ActedInv, TypeOK, Taking
<1>5. DOMAIN BatchResult = Batch /\ BatchResult \in [Batch -> Tools]
  BY <1>1, <1>3, <1>4 DEF BatchResult
<1>6. BatchResult \in Results
  BY <1>1, <1>5 DEF Results
<1> HIDE DEF BatchResult
<1> DEFINE n == Len(results)
<1>7. /\ Completed \in Seq(Results) /\ n \in Nat
      /\ DOMAIN Completed = 1 .. n + 1 /\ DOMAIN results = 1 .. n
      /\ Completed[n + 1] = BatchResult /\ \A k \in 1 .. n : Completed[k] = results[k]
  BY <1>2, <1>6 DEF Completed
<1> HIDE DEF n
<1>8. \A k \in DOMAIN Completed : k = n + 1 \/ (k \in DOMAIN results /\ k # n + 1)
  BY <1>7
<1>9. ASSUME NEW i \in DOMAIN candidates, i < batch + BatchSize
      PROVE  \E j \in DOMAIN Completed : \A k \in DOMAIN Completed :
                candidates[i] \in DOMAIN Completed[k] <=> k = j
  <2>0. i \in Nat
    BY CandidatesAreOnce DEF TypeOK
  <2>1. CASE i < batch
    <3>1. PICK j \in DOMAIN results : \A k \in DOMAIN results :
                candidates[i] \in DOMAIN results[k] <=> k = j
      BY <2>1 DEF DoneUpTo
    <3>2. candidates[i] \notin DOMAIN Completed[n + 1]
      BY <1>1, <1>2, <1>5, <1>7, <2>1
    <3>3. j \in DOMAIN Completed /\ j # n + 1
      BY <1>7
    <3>4. \A k \in DOMAIN Completed : candidates[i] \in DOMAIN Completed[k] <=> k = j
      BY <1>7, <1>8, <3>1, <3>2, <3>3
    <3> QED
      BY <3>3, <3>4
  <2>2. CASE i >= batch
    <3>1. candidates[i] \in DOMAIN Completed[n + 1]
      BY <1>1, <1>2, <1>5, <1>7, <1>9, <2>0, <2>2
    <3>2. \A k \in DOMAIN results : candidates[i] \notin DOMAIN results[k]
      BY <2>2 DEF DoneUpTo
    <3>3. \A k \in DOMAIN Completed : candidates[i] \in DOMAIN Completed[k] <=> k = n + 1
      BY <1>7, <1>8, <3>1, <3>2
    <3> QED
      BY <1>7, <3>3
  <2> QED
    BY <1>2, <2>0, <2>1, <2>2
<1>10. ASSUME NEW i \in DOMAIN candidates, i >= batch + BatchSize, NEW k \in DOMAIN Completed
       PROVE  candidates[i] \notin DOMAIN Completed[k]
  <2>0. i \in Nat
    BY CandidatesAreOnce DEF TypeOK
  <2>1. CASE k = n + 1
    BY <1>1, <1>2, <1>5, <1>7, <1>10, <2>0, <2>1
  <2>2. CASE k \in DOMAIN results
    <3>1. i >= batch
      BY <1>2, <1>10, <2>0
    <3> QED
      BY <1>7, <2>2, <3>1 DEF DoneUpTo
  <2> QED
    BY <1>8, <2>1, <2>2
<1> QED
  BY <1>7, <1>9, <1>10 DEF DoneUpTo

\* When the last batch is done, every candidate has one completed batch.
LEMMA AllAreCovered ==
    ASSUME TypeOK, NEW rs, NEW b \in Nat, b > Len(candidates), DoneUpTo(rs, b)
    PROVE  Covered(rs)
<1> SUFFICES ASSUME NEW r \in ToSet(candidates)
             PROVE  Cardinality({i \in DOMAIN rs : r \in DOMAIN rs[i]}) = 1
  BY DEF Covered
<1>1. PICK i \in DOMAIN candidates : candidates[i] = r
  BY DEF ToSet
<1>2. i < b
  BY CandidatesAreOnce DEF TypeOK
<1>3. PICK j \in DOMAIN rs : \A k \in DOMAIN rs : candidates[i] \in DOMAIN rs[k] <=> k = j
  BY <1>2 DEF DoneUpTo
<1>4. {k \in DOMAIN rs : r \in DOMAIN rs[k]} = {j}
  BY <1>1, <1>3
<1> QED
  BY <1>4, FS_Singleton

-----------------------------------------------------------------------------
(* The initial state, and the steps outside the resolution *)

LEMMA NoActionsTaken == NoActions \in Taking
BY DEF NoActions, Taking

LEMMA InitInv == Init => Inv
<1> SUFFICES ASSUME Init PROVE Inv
  OBVIOUS
<1>1. /\ stage = "prepare" /\ candidates = <<>> /\ batch = 1 /\ results = <<>> /\ excused = FALSE
      /\ acted = NoActions /\ recent = NoActions /\ then = "logs"
  BY DEF Init, ResolutionInit
<1>2. TypeOK
  <2>1. excused \in BOOLEAN
    BY <1>1
  <2>2. results \in Seq(Results) /\ batch \in Nat \ {0}
    BY <1>1
  <2> QED
    BY <1>1, <2>1, <2>2, NoActionsTaken DEF TypeOK
<1> QED
  BY <1>1, <1>2 DEF Inv, InResolution, FailsForCause

LEMMA OutsideInv ==
    ASSUME Inv, stage' \notin {"resolving", "waiting", "unresolved"},
           UNCHANGED <<candidates, batch, acted, recent, results, excused, then>>
    PROVE  Inv'
<1>1. TypeOK'
  BY DEF Inv, TypeOK
<1> QED
  BY <1>1 DEF Inv, InResolution, FailsForCause

\* A resolution that begins, for the entities of the source or for all
LEMMA ResolveInv ==
    ASSUME Inv, NEW cs \in {Entities, Combined}, Resolve(cs),
           excused' = excused, then' \in {"logs", "planning"}
    PROVE  Inv'
<1>1. /\ stage' = "resolving" /\ candidates' = cs /\ batch' = 1 /\ results' = <<>>
      /\ acted' = NoActions /\ recent' = NoActions
  BY DEF Resolve, Open
<1>2. TypeOK'
  BY <1>1, NoActionsTaken DEF Inv, TypeOK
<1>3. BatchInv'
  <2>1. 0 % BatchSize = 0
    BY ResolutionAssumption, SMTT(20) DEF ResolutionAssumption
  <2> QED
    BY <1>1, <2>1 DEF BatchInv
<1>4. ActedInv'
  BY <1>1, ResolutionAssumption DEF ActedInv, NoActions, ResolutionAssumption
<1>5. DoneUpTo(results, batch)'
  <2>1. DOMAIN results' = {} /\ \A i \in DOMAIN candidates' : i >= 1
    BY <1>1, CandidatesAreOnce
  <2> QED
    BY <1>1, <2>1, CandidatesAreOnce DEF DoneUpTo
<1> QED
  BY <1>1, <1>2, <1>3, <1>4, <1>5 DEF Inv, FailsForCause

-----------------------------------------------------------------------------
(* The steps of the resolution *)

LEMMA InSessionFacts ==
    ASSUME Inv, InSession
    PROVE  TypeOK /\ BatchInv /\ (~excused => ActedInv /\ DoneUpTo(results, batch))
BY DEF Inv, InResolution, InSession

LEMMA ActInv ==
    ASSUME Inv, NEW r \in Refs, NEW t \in Tried[r], Act(r, t), UNCHANGED then
    PROVE  Inv'
<1>1. /\ stage = "resolving" /\ stage' = stage
      /\ acted' = Taken(acted, r, t) /\ recent' = Taken(recent, r, t)
      /\ excused' = (excused \/ (r \notin Batch \/ acted[r] # None \/ t = Refused))
      /\ UNCHANGED <<candidates, batch, results>>
  BY DEF Act, Offered, InSession, Excuse
<1>2. TypeOK /\ BatchInv /\ (~excused => ActedInv /\ DoneUpTo(results, batch))
  BY <1>1, InSessionFacts DEF InSession
<1>3. t \in Tools \cup {Refused}
  BY ResolutionAssumption DEF ResolutionAssumption
<1>4. ASSUME NEW f \in Taking
      PROVE  /\ Taken(f, r, t) \in Taking
             /\ \A x \in Refs : Taken(f, r, t)[x] = IF x # r THEN f[x]
                                                  ELSE IF f[x] = None THEN t ELSE Refused
  BY <1>3 DEF Taken, Taking
<1>5. TypeOK'
  <2>1. excused' \in BOOLEAN
    BY <1>1, <1>2 DEF TypeOK
  <2> QED
    BY <1>1, <1>2, <1>4, <2>1 DEF TypeOK
<1>6. ASSUME ~excused' PROVE ActedInv'
  <2>1. ~excused /\ r \in Batch /\ acted[r] = None /\ t # Refused
    BY <1>1, <1>6
  <2>2. recent[r] = None
    BY <1>2, <2>1 DEF ActedInv
  <2>3. t # None
    BY <1>3, <2>1, ResolutionAssumption DEF ResolutionAssumption
  <2>4. acted \in Taking /\ recent \in Taking
    BY <1>2 DEF TypeOK
  <2>5. \A x \in Refs : /\ acted'[x] = IF x # r THEN acted[x] ELSE t
                        /\ recent'[x] = IF x # r THEN recent[x] ELSE t
    BY <1>1, <1>4, <2>1, <2>2, <2>4
  <2>6. Batch' = Batch
    BY <1>1 DEF Batch
  <2> QED
    BY <1>2, <2>1, <2>3, <2>5, <2>6 DEF ActedInv
<1>7. ~excused' => DoneUpTo(results, batch)'
  BY <1>1, <1>2 DEF DoneUpTo
<1>8. BatchInv'
  BY <1>1, <1>2 DEF BatchInv
<1> QED
  BY <1>1, <1>5, <1>6, <1>7, <1>8 DEF Inv, FailsForCause

\* A fumble, or another session for the batch, whose events start anew
LEMMA SameBatchInv ==
    ASSUME Inv, InSession, recent' \in {recent, NoActions},
           UNCHANGED <<stage, candidates, batch, acted, results, excused, then>>
    PROVE  Inv'
<1>1. TypeOK /\ BatchInv /\ (~excused => ActedInv /\ DoneUpTo(results, batch))
  BY InSessionFacts
<1>2. TypeOK'
  BY <1>1, NoActionsTaken DEF TypeOK
<1>3. BatchInv' /\ (~excused' => DoneUpTo(results, batch)')
  BY <1>1 DEF BatchInv, DoneUpTo
<1>4. Batch' = Batch
  BY DEF Batch
<1>5. ~excused' => ActedInv'
  BY <1>1, <1>4, ResolutionAssumption DEF ActedInv, NoActions, ResolutionAssumption
<1> QED
  BY <1>2, <1>3, <1>5 DEF Inv, InSession, FailsForCause

LEMMA AskInv ==
    ASSUME Inv, NEW r \in Refs \cup {None}, Ask(r), UNCHANGED then
    PROVE  Inv'
<1>1. /\ stage = "resolving" /\ stage' = "waiting" /\ r \in ToSet(candidates) \cup {None}
      /\ question' = Continuation(r)
      /\ excused' = (excused \/ r \notin Batch)
      /\ UNCHANGED <<candidates, batch, acted, recent, results>>
  BY DEF Ask, Offered, InSession, Askable, Excuse
<1>2. TypeOK /\ BatchInv /\ (~excused => ActedInv /\ DoneUpTo(results, batch))
  BY <1>1, InSessionFacts DEF InSession
<1>3. TypeOK'
  <2>1. excused' \in BOOLEAN
    BY <1>1, <1>2 DEF TypeOK
  <2> QED
    BY <1>1, <1>2, <2>1 DEF TypeOK
<1>4. Batch' = Batch
  BY <1>1 DEF Batch
<1>5. BatchInv' /\ (~excused' => ActedInv' /\ DoneUpTo(results, batch)')
  <2>1. ~excused' => ~excused
    BY <1>1
  <2>2. BatchInv'
    BY <1>1, <1>2 DEF BatchInv
  <2>3. ActedInv => ActedInv'
    BY <1>1, <1>4 DEF ActedInv
  <2>4. DoneUpTo(results, batch) => DoneUpTo(results, batch)'
    BY <1>1 DEF DoneUpTo
  <2> QED
    BY <1>2, <2>1, <2>2, <2>3, <2>4
<1>6. QuestionInv'
  BY <1>1, <1>4 DEF QuestionInv, Continuation
<1> QED
  BY <1>1, <1>3, <1>5, <1>6 DEF Inv, FailsForCause

\* The answer goes on where the question was asked.
LEMMA AnswerInv ==
    ASSUME Inv, Answer, then' = "logs"
    PROVE  Inv'
<1> DEFINE at == {i \in DOMAIN Entities : Entities[i] = question.about}
<1>1. /\ stage = "waiting"
      /\ excused' = (excused \/ candidates # Entities)
  BY DEF Answer, Excuse
<1>2. /\ TypeOK /\ BatchInv /\ QuestionInv
      /\ ~excused => ActedInv /\ DoneUpTo(results, batch)
  BY <1>1 DEF Inv, InResolution
<1>3. excused' \in BOOLEAN
  BY <1>1, <1>2 DEF TypeOK
<1>4. CASE at = {}
  <2>1. stage' = "unresolved" /\ UNCHANGED <<candidates, batch, acted, recent, results>>
    BY <1>4 DEF Answer
  <2>2. TypeOK'
    BY <1>2, <1>3, <2>1 DEF TypeOK
  <2>3. excused'
    <3>1. SUFFICES ASSUME ~excused, candidates = Entities PROVE FALSE
      BY <1>1, <1>3
    <3>2. question.about \in Batch
      BY <1>2, <3>1 DEF QuestionInv
    <3>3. question.about \in ToSet(Entities)
      BY <1>2, <3>1, <3>2, BatchHas
    <3> QED
      BY <1>4, <3>3 DEF ToSet
  <2> QED
    BY <2>1, <2>2, <2>3 DEF Inv, InResolution, FailsForCause
<1>5. CASE at # {}
  <2> DEFINE i == CHOOSE x \in at : TRUE
  <2>1. i \in DOMAIN Entities /\ Entities[i] = question.about
    BY <1>5
  <2>2. /\ stage' = "resolving" /\ candidates' = Entities /\ batch' = BatchHolding(i)
        /\ acted' = question.recent /\ recent' = question.recent
        /\ results' = question.results
    BY <1>5 DEF Answer, CompletedBatches
  <2>3. acted' = recent /\ recent' = recent /\ results' = results
    BY <1>2, <2>2 DEF QuestionInv
  <2> HIDE DEF i, at
  <2>4. i \in Nat \ {0}
    BY <2>1, CandidatesAreOnce
  <2>5. BatchHolding(i) \in Nat \ {0} /\ (BatchHolding(i) - 1) % BatchSize = 0
    BY <2>4, BatchHoldingBegins
  <2>6. TypeOK'
    BY <1>2, <1>3, <2>2, <2>3, <2>5 DEF TypeOK
  <2>7. BatchInv'
    BY <2>2, <2>5 DEF BatchInv
  <2>8. ASSUME ~excused' PROVE ActedInv' /\ DoneUpTo(results, batch)'
    <3>1. ~excused /\ candidates = Entities
      BY <1>1, <2>8
    <3>2. Entities[i] \in Batch
      BY <1>2, <2>1, <3>1 DEF QuestionInv
    <3>3. i \in batch .. batch + BatchSize - 1 /\ batch \in Nat \ {0}
      BY <1>2, <2>1, <3>1, <3>2, BatchHas DEF TypeOK
    <3>4. batch' = batch
      BY <1>2, <2>2, <3>3, BatchHoldingIsBatch DEF BatchInv
    <3>5. Batch' = Batch
      BY <2>2, <3>1, <3>4 DEF Batch
    <3>6. ActedInv'
      BY <1>2, <2>3, <3>1, <3>5 DEF ActedInv
    <3>7. DoneUpTo(results, batch)'
      BY <1>2, <2>2, <2>3, <3>1, <3>4 DEF DoneUpTo
    <3> QED
      BY <3>6, <3>7
  <2> QED
    BY <2>2, <2>6, <2>7, <2>8 DEF Inv, FailsForCause
<1> QED
  BY <1>4, <1>5

\* A resolution that fails must have its cause.
LEMMA UnresolvedInv ==
    ASSUME Inv, stage' = "unresolved", excused', excused' \in BOOLEAN,
           UNCHANGED <<candidates, batch, acted, recent, results, then>>
    PROVE  Inv'
<1>1. TypeOK'
  BY DEF Inv, TypeOK
<1> QED
  BY <1>1 DEF Inv, InResolution, FailsForCause

LEMMA CompileFailsInv == Inv /\ CompileFails /\ UNCHANGED then => Inv'
<1> SUFFICES ASSUME Inv, CompileFails, UNCHANGED then PROVE Inv'
  OBVIOUS
<1>1. InSession /\ ~Compiles /\ Unresolved /\ excused' = excused
  BY DEF CompileFails
<1>2. excused /\ excused \in BOOLEAN
  BY <1>1, InSessionFacts DEF Compiles, ActedInv, TypeOK
<1> QED
  BY <1>1, <1>2, UnresolvedInv DEF Unresolved

LEMMA CoverageFailsInv == Inv /\ CoverageFails /\ UNCHANGED then => Inv'
<1> SUFFICES ASSUME Inv, CoverageFails, UNCHANGED then PROVE Inv'
  OBVIOUS
<1>1. /\ InSession /\ Missing = {} /\ ~Covered(Completed) /\ batch + BatchSize > Len(candidates)
      /\ Unresolved /\ excused' = excused
  BY DEF CoverageFails, LastBatch
<1>2. TypeOK /\ (~excused => ActedInv /\ DoneUpTo(results, batch))
  BY <1>1, InSessionFacts
<1>3. excused /\ excused \in BOOLEAN
  <2>1. SUFFICES ASSUME ~excused PROVE FALSE
    BY <1>2 DEF TypeOK
  <2>2. DoneUpTo(Completed, batch + BatchSize)
    BY <1>1, <1>2, <2>1, BatchIsAdded
  <2>3. batch + BatchSize \in Nat
    BY <1>2, ResolutionAssumption DEF ResolutionAssumption, TypeOK
  <2> QED
    BY <1>1, <1>2, <2>2, <2>3, AllAreCovered
<1> QED
  BY <1>1, <1>3, UnresolvedInv DEF Unresolved

LEMMA GiveUpInv == Inv /\ (GiveUp \/ SessionFails) /\ UNCHANGED then => Inv'
<1> SUFFICES ASSUME Inv, GiveUp \/ SessionFails, UNCHANGED then PROVE Inv'
  OBVIOUS
<1>1. Unresolved /\ excused' = TRUE
  BY Zenon DEF GiveUp, SessionFails, Excuse
<1> QED
  BY <1>1, UnresolvedInv DEF Unresolved

LEMMA CompileBatchInv == Inv /\ CompileBatch /\ UNCHANGED then => Inv'
<1> SUFFICES ASSUME Inv, CompileBatch, UNCHANGED then PROVE Inv'
  OBVIOUS
<1>1. /\ InSession /\ Missing = {} /\ stage' = stage /\ excused' = excused
      /\ candidates' = candidates /\ batch' = batch + BatchSize /\ results' = Completed
      /\ acted' = NoActions /\ recent' = NoActions
  BY DEF CompileBatch, Open
<1>2. TypeOK /\ BatchInv /\ (~excused => ActedInv /\ DoneUpTo(results, batch))
  BY <1>1, InSessionFacts
<1>3. BatchSize \in Nat \ {0} /\ batch - 1 \in Nat /\ batch \in Nat \ {0}
  BY <1>2, ResolutionAssumption DEF ResolutionAssumption, TypeOK
<1>4. BatchInv'
  <2>1. ((batch - 1) + BatchSize) % BatchSize = 0
    BY <1>2, <1>3, NextMultiple DEF BatchInv
  <2>2. batch' - 1 = (batch - 1) + BatchSize
    BY <1>1, <1>3
  <2> QED
    BY <2>1, <2>2 DEF BatchInv
<1>5. Completed \in Seq(Results)
  <2>1. CompileBatch => Compiles
    BY DEF CompileBatch
  <2>2. BatchResult \in [{s \in Refs : acted[s] # None} -> Tools]
    BY <1>2, <2>1 DEF BatchResult, Compiles, TypeOK, Taking
  <2>3. BatchResult \in Results
    BY <2>2 DEF Results
  <2> QED
    BY <1>2, <2>3 DEF Completed, TypeOK
<1>6. TypeOK'
  BY <1>1, <1>2, <1>3, <1>5, NoActionsTaken DEF TypeOK
<1>7. ActedInv'
  BY <1>1, ResolutionAssumption DEF ActedInv, NoActions, ResolutionAssumption
<1>8. ~excused' => DoneUpTo(results, batch)'
  <2>1. SUFFICES ASSUME ~excused PROVE DoneUpTo(results, batch)'
    BY <1>1
  <2>2. DoneUpTo(Completed, batch + BatchSize)
    BY <1>1, <1>2, <2>1, BatchIsAdded
  <2> QED
    BY <1>1, <2>2 DEF DoneUpTo
<1> QED
  BY <1>1, <1>4, <1>6, <1>7, <1>8 DEF Inv, InSession, FailsForCause

LEMMA FinalizeInv == Inv /\ Finalize(then) /\ UNCHANGED then => Inv'
<1> SUFFICES ASSUME Inv, Finalize(then), UNCHANGED then PROVE Inv'
  OBVIOUS
<1>1. /\ stage' = then /\ results' = <<>> /\ batch' = 1 /\ excused' = FALSE
      /\ acted' = NoActions /\ recent' = NoActions /\ candidates' = candidates
  BY DEF Finalize
<1>2. TypeOK /\ then \in {"logs", "planning"}
  BY DEF Inv, TypeOK
<1>3. TypeOK'
  <2>1. excused' \in BOOLEAN
    BY <1>1
  <2>2. results' \in Seq(Results) /\ batch' \in Nat \ {0}
    BY <1>1
  <2> QED
    BY <1>1, <1>2, <2>1, <2>2, NoActionsTaken DEF TypeOK
<1> QED
  BY <1>1, <1>2, <1>3 DEF Inv, InResolution, FailsForCause

LEMMA ResolveStepInv ==
    ASSUME Inv, ResolveStep(ResolutionStep(then)) \/ ResolveStep(SessionFails)
    PROVE  Inv'
<1>1. then' = then
  BY DEF ResolveStep
<1>2. CASE SessionFails
  BY <1>1, <1>2, GiveUpInv
<1>3. CASE ResolutionStep(then)
  <2>1. CASE \E r \in Refs : \E t \in Tried[r] : Act(r, t)
    BY <1>1, <2>1, ActInv
  <2>2. CASE Fumble
    BY <1>1, <2>2, SameBatchInv DEF Fumble, Offered
  <2>3. CASE \E r \in Refs \cup {None} : Ask(r)
    BY <1>1, <2>3, AskInv
  <2>4. CASE Repair
    BY <1>1, <2>4, SameBatchInv DEF Repair
  <2>5. CASE GiveUp \/ CompileFails \/ CompileBatch \/ CoverageFails \/ Finalize(then)
    BY <1>1, <2>5, GiveUpInv, CompileFailsInv, CompileBatchInv, CoverageFailsInv, FinalizeInv
  <2> QED
    BY <1>3, <2>1, <2>2, <2>3, <2>4, <2>5 DEF ResolutionStep
<1> QED
  BY <1>2, <1>3 DEF ResolveStep

-----------------------------------------------------------------------------
(* The theorems of the resolution *)

LEMMA OtherStagesInv ==
    ASSUME Inv,
           \/ PlanLogs \/ ExtractLogs \/ PlanRelationship \/ ExtractRelation
           \/ MissEntities \/ StillMissing \/ ProposeMemory \/ ProposeRelation
           \/ StageEnds \/ StageAsks
    PROVE  Inv'
<1>1. stage' \notin {"resolving", "waiting", "unresolved"}
  BY DEF PlanLogs, ExtractLogs, PlanRelationship, ExtractRelation, MissEntities, StillMissing,
         ProposeMemory, ProposeRelation, StageEnds, StageAsks, Plans, Ends, AfterLogs,
         AfterRelations
<1>2. UNCHANGED <<candidates, batch, acted, recent, results, excused, then>>
  BY DEF PlanLogs, ExtractLogs, PlanRelationship, ExtractRelation, MissEntities, StillMissing,
         ProposeMemory, ProposeRelation, StageEnds, StageAsks, Plans, Ends
<1> QED
  BY <1>1, <1>2, OutsideInv

LEMMA WritingInv ==
    ASSUME Inv,
           Build \/ WriteNext \/ WriteFails \/ WriteRaises \/ Executed \/ Vectorize \/ ExecuteAgain
    PROVE  Inv'
<1>1. stage' \notin {"resolving", "waiting", "unresolved"}
  BY DEF Build, WriteNext, WriteFails, WriteRaises, Executed, Vectorize, ExecuteAgain, Ends,
         resolutionVars
<1>2. UNCHANGED <<candidates, batch, acted, recent, results, excused, then>>
  BY DEF Build, WriteNext, WriteFails, WriteRaises, Executed, Vectorize, ExecuteAgain, Ends,
         resolutionVars
<1> QED
  BY <1>1, <1>2, OutsideInv

LEMMA StutterInv == Inv /\ UNCHANGED vars => Inv'
<1> SUFFICES ASSUME Inv, UNCHANGED vars PROVE Inv'
  OBVIOUS
<1>1. UNCHANGED <<stage, candidates, batch, acted, recent, results, question, excused, then>>
  BY DEF vars, resolutionVars
<1>2. TypeOK' /\ (InResolution => BatchInv)' /\ FailsForCause'
  BY <1>1 DEF Inv, TypeOK, InResolution, BatchInv, FailsForCause
<1>3. Batch' = Batch
  BY <1>1 DEF Batch
<1>4. (InResolution /\ ~excused => ActedInv /\ DoneUpTo(results, batch))'
  BY <1>1, <1>3 DEF Inv, InResolution, ActedInv, DoneUpTo
<1>5. (stage = "waiting" => QuestionInv)'
  BY <1>1, <1>3 DEF Inv, QuestionInv
<1> QED
  BY <1>2, <1>4, <1>5 DEF Inv

\* Through interruptions, answers in later requests, repairs and re-resolutions,
\* the completed batches, the actions of the open one and the question that waits
\* add up: each candidate before the open batch was resolved once
\* (LLMResolutionProposalAgent._run_proposals and resume_nodes).
THEOREM ResolutionInvariant == Spec => []Inv
<1>1. Inv /\ [Next]_vars => Inv'
  <2> SUFFICES ASSUME Inv, [Next]_vars PROVE Inv'
    OBVIOUS
  <2>1. CASE Prepare
    BY <2>1, ResolveInv DEF Prepare
  <2>2. CASE ResolveAgain
    BY <2>2, ResolveInv DEF ResolveAgain
  <2>3. CASE ResumePending
    BY <2>3, AnswerInv DEF ResumePending
  <2> QED
    BY <2>1, <2>2, <2>3, ResolveStepInv, OtherStagesInv, WritingInv, StutterInv
       DEF Next, Proceed, Others
<1> QED
  BY <1>1, InitInv, PTL DEF Spec

\* A resolution fails for one of the causes that FailsForCause names, and for no
\* other: not because a question interrupted it, an answer came in another
\* request, a batch was repaired, or another batch was done before.
THEOREM FailsForCauseHolds == Spec => []FailsForCause
<1>1. Inv => FailsForCause
  BY DEF Inv
<1> QED
  BY <1>1, ResolutionInvariant, PTL

-----------------------------------------------------------------------------
(* What is written *)

AllWrites == Writes(actions.log, actions.relation)

Things == Refs \cup NewIds \cup Shapes \cup {None, Known, Owner}
              \cup {"hosts", "involves", "about", "with", "relates"}
WriteRecs == [op : {"node", "patch", "edge"}, id : Things, from : Things, to : Things]

\* The nodes and edges that some writes are for
NodesOf(ws) == {IdOf(w.id) : w \in {x \in ws : x.op = "node"}}
EdgeOf(w)   == <<IdOf(w.id), Resolved(w.from), Resolved(w.to)>>
EdgesOf(ws) == {EdgeOf(w) : w \in {x \in ws : x.op = "edge"}}

Done(w) ==
    /\ w.op = "node" => IdOf(w.id) \in nodes
    /\ w.op = "edge" => EdgeOf(w) \in edges

NodesFirst(ws) ==
    \A i, j \in DOMAIN ws : i < j /\ ws[i].op = "edge" => ws[j].op = "edge"

PlannedInv ==
    /\ log \in LogDrafts \cup {None}
    /\ relation \in [shape : Shapes, to : Mentioned] \cup {None}

\* The plan has been executed, or is.
Begun == stage \in {"writing", "failed", "vectors", "written"}

\* What is left of the plan ends with its edges, and what is not left is done.
LeftInv ==
    /\ plan \in Seq(WriteRecs) /\ NodesFirst(plan)
    /\ ToSet(plan) \subseteq ToSet(AllWrites)
    /\ \A w \in ToSet(AllWrites) : w \in ToSet(plan) \/ Done(w)

WrittenInv ==
    /\ PlannedInv
    /\ {Known, Owner} \subseteq nodes
    /\ ~Begun => nodes = {Known, Owner} /\ edges = {}
    /\ Begun => /\ Valid(AllWrites)
                /\ nodes \subseteq DecidedNodes /\ edges \subseteq DecidedEdges
    /\ stage = "writing" => LeftInv
    /\ stage \in {"vectors", "written"} => \A w \in ToSet(AllWrites) : Done(w)

LEMMA WhenWrites ==
    ASSUME NEW S, NEW x, NEW c \in BOOLEAN, c => x \in S
    PROVE  /\ When(c, <<x>>) \in Seq(S)
           /\ ToSet(When(c, <<x>>)) = IF c THEN {x} ELSE {}
<1>1. CASE c
  <2>1. When(c, <<x>>) = <<x>> /\ <<x>> \in Seq(S) /\ DOMAIN <<x>> = {1} /\ <<x>>[1] = x
    BY <1>1 DEF When
  <2> DEFINE one == <<x>>
  <2>2. one \in Seq(S) /\ DOMAIN one = {1} /\ one[1] = x
    BY <2>1
  <2> HIDE DEF one
  <2>3. ToSet(one) = {x}
    BY <2>2 DEF ToSet
  <2>4. (IF c THEN {x} ELSE {}) = {x}
    BY <1>1
  <2> QED
    BY <2>1, <2>3, <2>4 DEF one
<1>2. CASE ~c
  <2>1. When(c, <<x>>) = <<>> /\ <<>> \in Seq(S) /\ DOMAIN <<>> = {}
    BY <1>2 DEF When
  <2>2. ToSet(<<>>) = {}
    BY <2>1 DEF ToSet
  <2>3. (IF c THEN {x} ELSE {}) = {}
    BY <1>2
  <2> QED
    BY <2>1, <2>2, <2>3
<1> QED
  BY <1>1, <1>2

LEMMA EdgesLast ==
    ASSUME NEW S, NEW s \in Seq(S), NEW t \in Seq(S), NodesFirst(s),
           \A w \in ToSet(t) : w.op = "edge"
    PROVE  NodesFirst(s \o t)
<1> DEFINE u == s \o t
           m == Len(s)
           n == Len(t)
<1>1. /\ m \in Nat /\ n \in Nat /\ DOMAIN s = 1 .. m /\ DOMAIN t = 1 .. n /\ DOMAIN u = 1 .. m + n
      /\ \A i \in 1 .. m : u[i] = s[i]
      /\ \A i \in m + 1 .. m + n : u[i] = t[i - m]
  OBVIOUS
<1> HIDE DEF u, m, n
<1>2. \A k \in 1 .. n : t[k].op = "edge"
  BY <1>1 DEF ToSet
<1>3. SUFFICES ASSUME NEW i \in 1 .. m + n, NEW j \in 1 .. m + n, i < j, u[i].op = "edge"
               PROVE  u[j].op = "edge"
  BY <1>1 DEF NodesFirst, u
<1>4. CASE j \in 1 .. m
  <2>1. i \in 1 .. m
    BY <1>1, <1>3, <1>4
  <2> QED
    BY <1>1, <1>3, <1>4, <2>1 DEF NodesFirst
<1>5. CASE j \notin 1 .. m
  <2>1. j \in m + 1 .. m + n /\ j - m \in 1 .. n
    BY <1>1, <1>3, <1>5
  <2> QED
    BY <1>1, <1>2, <2>1
<1> QED
  BY <1>4, <1>5

\* The link of a log with its host, and with whom it involves
LEMMA LinksOfLog ==
    ASSUME log \in LogDrafts
    PROVE  /\ LogLinks(log) \in Seq(WriteRecs)
           /\ ToSet(LogLinks(log)) =
                 {RelationWrite("hosts", log.host, "log")}
                 \cup {RelationWrite("involves", "log", r) : r \in {log.with} \ {None}}
<1> DEFINE h == RelationWrite("hosts", log.host, "log")
           v == RelationWrite("involves", "log", log.with)
           c == log.with # None
           t == IF log.with = None THEN <<>> ELSE <<v>>
<1>1. log.host \in Refs /\ (c => log.with \in Refs)
  BY PipelineAssumption DEF PipelineAssumption, LogDrafts
<1>2. h \in WriteRecs /\ (c => v \in WriteRecs)
  BY <1>1 DEF RelationWrite, Write, WriteRecs, Things, NewIds
<1>3. t = When(c, <<v>>) /\ c \in BOOLEAN
  BY DEF When
<1>4. LogLinks(log) = <<h>> \o t
  BY DEF LogLinks
<1> HIDE DEF h, v, t
<1>5. t \in Seq(WriteRecs) /\ ToSet(t) = IF c THEN {v} ELSE {}
  BY <1>2, <1>3, WhenWrites
<1>6. <<h>> \o t \in Seq(WriteRecs) /\ ToSet(<<h>> \o t) = {h} \cup ToSet(t)
  BY <1>2, <1>5, ToSetOfCons
<1>7. (IF c THEN {v} ELSE {}) = {RelationWrite("involves", "log", r) : r \in {log.with} \ {None}}
  BY DEF v
<1> QED
  BY <1>4, <1>5, <1>6, <1>7 DEF h

\* The creations of entities
LEMMA EntitiesWritten ==
    ASSUME Inv
    PROVE  LET ws == FlattenSeq([i \in 1 .. Len(candidates) |->
                        When(decided[candidates[i]] = "create", <<EntityWrite(candidates[i])>>)])
           IN  /\ ws \in Seq(WriteRecs)
               /\ ToSet(ws) = {EntityWrite(r) : r \in {q \in ToSet(candidates) : decided[q] = "create"}}
<1> DEFINE n == Len(candidates)
           s == [i \in 1 .. n |->
                   When(decided[candidates[i]] = "create", <<EntityWrite(candidates[i])>>)]
<1>1. n \in Nat /\ DOMAIN candidates = 1 .. n /\ \A i \in 1 .. n : candidates[i] \in Refs
  <2>1. candidates \in Seq(Refs)
    BY CandidatesAreOnce DEF Inv, TypeOK
  <2> QED
    BY <2>1
<1> HIDE DEF n
<1>2. \A r \in Refs : EntityWrite(r) \in WriteRecs
  BY DEF EntityWrite, Write, WriteRecs, Things
<1>3. \A i \in 1 .. n : /\ s[i] \in Seq(WriteRecs)
                        /\ ToSet(s[i]) = IF decided[candidates[i]] = "create"
                                         THEN {EntityWrite(candidates[i])} ELSE {}
  BY <1>1, <1>2, WhenWrites
<1>4. s \in Seq(Seq(WriteRecs)) /\ DOMAIN s = 1 .. n
  <2>1. DOMAIN s = 1 .. n /\ s = [i \in 1 .. n |-> s[i]]
    OBVIOUS
  <2> HIDE DEF s
  <2>2. s \in [1 .. n -> Seq(WriteRecs)]
    BY <1>3, <2>1
  <2> QED
    BY <1>1, <2>1, <2>2
<1> HIDE DEF s
<1>5. /\ FlattenSeq(s) \in Seq(WriteRecs)
      /\ ToSet(FlattenSeq(s)) = UNION {ToSet(s[i]) : i \in 1 .. n}
  BY <1>4, ElementsOfFlatten
<1>6. UNION {ToSet(s[i]) : i \in 1 .. n}
        = {EntityWrite(r) : r \in {q \in ToSet(candidates) : decided[q] = "create"}}
  <2>1. ToSet(candidates) = {candidates[i] : i \in 1 .. n}
    BY <1>1 DEF ToSet
  <2>2. ASSUME NEW x \in UNION {ToSet(s[i]) : i \in 1 .. n}
        PROVE  \E q \in ToSet(candidates) : decided[q] = "create" /\ x = EntityWrite(q)
    BY <1>3, <2>1
  <2>3. ASSUME NEW q \in ToSet(candidates), decided[q] = "create"
        PROVE  EntityWrite(q) \in UNION {ToSet(s[i]) : i \in 1 .. n}
    BY <1>3, <2>1, <2>3
  <2> QED
    BY <2>2, <2>3
<1> QED
  BY <1>5, <1>6 DEF s, n

\* The writes of a plan are those that the decisions ask for, and the edges come
\* last.
LEMMA PlanIsAsDecided ==
    ASSUME Inv, PlannedInv
    PROVE  /\ AllWrites \in Seq(WriteRecs) /\ NodesFirst(AllWrites)
           /\ {Known, Owner} \cup NodesOf(ToSet(AllWrites)) = DecidedNodes
           /\ EdgesOf(ToSet(AllWrites)) = DecidedEdges
           /\ \A w \in ToSet(AllWrites) : w.op = "edge" =>
                 {w.from, w.to} \subseteq Refs \cup {Owner} \cup NodesOf(ToSet(AllWrites))
<1> DEFINE la == actions.log
           ra == actions.relation
           me == log # None /\ la = "create"
           cl == Assertion
           co == Shape("context") /\ ra = "create"
           re == Shape("relationship") /\ ~Deferred(ra)
           no == Shape("note")
           up == (log # None /\ Updating(la)) \/ (Shape("context") /\ Updating(ra))
           aw == AssertionWrite(relation.shape)
           mp == MetadataPatch(relation.to)
           ae == RelationWrite("about", relation.shape, relation.to)
           ce == RelationWrite("with", "context", relation.to)
           rr == RelationWrite("relates", Owner, relation.to)
           p1 == FlattenSeq([i \in 1 .. Len(candidates) |->
                   When(decided[candidates[i]] = "create", <<EntityWrite(candidates[i])>>)])
           p2 == When(up, <<NodeUpdate(Known)>>)
           p3 == When(cl, <<aw>>)
           p4 == When(co, <<ContextWrite>>)
           p5 == When(me, <<MemoryLogWrite>>)
           p6 == When(no, <<mp>>)
           q1 == When(cl, <<ae>>)
           q2 == When(co, <<ce>>)
           q3 == When(me, LogLinks(log))
           q4 == When(re, <<rr>>)
           ns == ((((p1 \o p2) \o p3) \o p4) \o p5) \o p6
           n1 == {EntityWrite(r) : r \in {q \in ToSet(candidates) : decided[q] = "create"}}
           l3 == {RelationWrite("hosts", log.host, "log")}
                 \cup {RelationWrite("involves", "log", r) : r \in {log.with} \ {None}}
<1>1. AllWrites = (((ns \o q1) \o q2) \o q3) \o q4
  BY DEF AllWrites, Writes
<1>2. /\ cl \in BOOLEAN /\ co \in BOOLEAN /\ me \in BOOLEAN /\ re \in BOOLEAN
      /\ no \in BOOLEAN /\ up \in BOOLEAN
  BY DEF Assertion, Shape, Deferred, Updating
<1>3. /\ cl => relation.shape \in {"claim", "perception"} /\ relation.to \in Refs
      /\ co => relation.shape = "context" /\ relation.to \in Refs
      /\ re => relation.to \in Refs
      /\ no => relation.to \in Refs
      /\ me => log \in LogDrafts
  BY PipelineAssumption DEF PipelineAssumption, PlannedInv, Assertion, Shape
<1>4. /\ NodeUpdate(Known) \in WriteRecs /\ ContextWrite \in WriteRecs /\ MemoryLogWrite \in WriteRecs
      /\ cl => aw \in WriteRecs /\ ae \in WriteRecs
      /\ no => mp \in WriteRecs
      /\ co => ce \in WriteRecs
      /\ re => rr \in WriteRecs
  BY <1>3 DEF NodeUpdate, ContextWrite, MemoryLogWrite, AssertionWrite, MetadataPatch,
              RelationWrite, Write, WriteRecs, Things, NewIds, Shapes
<1>5. p1 \in Seq(WriteRecs) /\ ToSet(p1) = n1
  BY EntitiesWritten
<1> DEFINE s2 == IF up THEN {NodeUpdate(Known)} ELSE {}
           s3 == IF cl THEN {aw} ELSE {}
           s4 == IF co THEN {ContextWrite} ELSE {}
           s5 == IF me THEN {MemoryLogWrite} ELSE {}
           s6 == IF no THEN {mp} ELSE {}
           e1 == IF cl THEN {ae} ELSE {}
           e2 == IF co THEN {ce} ELSE {}
           e3 == IF me THEN l3 ELSE {}
           e4 == IF re THEN {rr} ELSE {}
<1>6. q3 \in Seq(WriteRecs) /\ ToSet(q3) = e3
  <2>1. CASE me
    BY <1>3, <2>1, LinksOfLog DEF When
  <2>2. CASE ~me
    <3>1. q3 = <<>> /\ DOMAIN <<>> = {} /\ <<>> \in Seq(WriteRecs)
      BY <2>2 DEF When
    <3>2. ToSet(<<>>) = {}
      BY <3>1 DEF ToSet
    <3> QED
      BY <2>2, <3>1, <3>2
  <2> QED
    BY <2>1, <2>2
<1> HIDE DEF me, cl, co, re, no, up, aw, mp, ae, ce, rr
<1>7. /\ p2 \in Seq(WriteRecs) /\ ToSet(p2) = s2
      /\ p3 \in Seq(WriteRecs) /\ ToSet(p3) = s3
      /\ p4 \in Seq(WriteRecs) /\ ToSet(p4) = s4
      /\ p5 \in Seq(WriteRecs) /\ ToSet(p5) = s5
      /\ p6 \in Seq(WriteRecs) /\ ToSet(p6) = s6
      /\ q1 \in Seq(WriteRecs) /\ ToSet(q1) = e1
      /\ q2 \in Seq(WriteRecs) /\ ToSet(q2) = e2
      /\ q4 \in Seq(WriteRecs) /\ ToSet(q4) = e4
  BY <1>2, <1>4, WhenWrites
<1> HIDE DEF p1, p2, p3, p4, p5, p6, q1, q2, q3, q4, n1, l3, s2, s3, s4, s5, s6, e1, e2, e3, e4
<1>8. ns \in Seq(WriteRecs) /\ ToSet(ns) = n1 \cup s2 \cup s3 \cup s4 \cup s5 \cup s6
  <2>1. p1 \o p2 \in Seq(WriteRecs) /\ ToSet(p1 \o p2) = n1 \cup s2
    BY <1>5, <1>7, ElementsOfConcat
  <2> DEFINE a == p1 \o p2
  <2>a. a \in Seq(WriteRecs) /\ ToSet(a) = n1 \cup s2
    BY <2>1
  <2> HIDE DEF a
  <2>2. a \o p3 \in Seq(WriteRecs) /\ ToSet(a \o p3) = n1 \cup s2 \cup s3
    BY <1>7, <2>a, ElementsOfConcat
  <2> DEFINE b == a \o p3
  <2>b. b \in Seq(WriteRecs) /\ ToSet(b) = n1 \cup s2 \cup s3
    BY <2>2
  <2> HIDE DEF b
  <2>3. b \o p4 \in Seq(WriteRecs) /\ ToSet(b \o p4) = n1 \cup s2 \cup s3 \cup s4
    BY <1>7, <2>b, ElementsOfConcat
  <2> DEFINE c == b \o p4
  <2>c. c \in Seq(WriteRecs) /\ ToSet(c) = n1 \cup s2 \cup s3 \cup s4
    BY <2>3
  <2> HIDE DEF c
  <2>4. c \o p5 \in Seq(WriteRecs) /\ ToSet(c \o p5) = n1 \cup s2 \cup s3 \cup s4 \cup s5
    BY <1>7, <2>c, ElementsOfConcat
  <2> DEFINE d == c \o p5
  <2>d. d \in Seq(WriteRecs) /\ ToSet(d) = n1 \cup s2 \cup s3 \cup s4 \cup s5
    BY <2>4
  <2> HIDE DEF d
  <2>5. d \o p6 \in Seq(WriteRecs) /\ ToSet(d \o p6) = n1 \cup s2 \cup s3 \cup s4 \cup s5 \cup s6
    BY <1>7, <2>d, ElementsOfConcat
  <2> QED
    BY <2>5 DEF a, b, c, d
<1>r. /\ \A w \in s3 : cl /\ w = aw
      /\ \A w \in s4 : co /\ w = ContextWrite
      /\ \A w \in s5 : me /\ w = MemoryLogWrite
      /\ \A w \in e1 : cl /\ w = ae
      /\ \A w \in e2 : co /\ w = ce
      /\ \A w \in e3 : me /\ w \in l3
      /\ \A w \in e4 : re /\ w = rr
  BY <1>2 DEF s3, s4, s5, e1, e2, e3, e4
<1>9. \A w \in ToSet(ns) : w.op # "edge"
  <2>1. \A w \in n1 : w.op = "node"
    BY DEF n1, EntityWrite, Write
  <2>2. \A w \in s2 \cup s6 : w.op = "patch"
    BY DEF s2, s6, mp, NodeUpdate, MetadataPatch, Write
  <2>3. \A w \in s3 \cup s4 \cup s5 : w.op = "node"
    BY <1>r DEF aw, AssertionWrite, ContextWrite, MemoryLogWrite, Write
  <2> QED
    BY <1>8, <2>1, <2>2, <2>3
<1>10. \A w \in e1 \cup e2 \cup e3 \cup e4 : w.op = "edge"
  BY <1>r DEF ae, ce, rr, l3, RelationWrite, Write
<1>11. NodesFirst(ns)
  <2>1. \A i \in DOMAIN ns : ns[i] \in ToSet(ns)
    BY DEF ToSet
  <2> HIDE DEF ns
  <2> QED
    BY <1>9, <2>1 DEF NodesFirst
<1> HIDE DEF ns
<1>12. /\ AllWrites \in Seq(WriteRecs) /\ NodesFirst(AllWrites)
       /\ ToSet(AllWrites) = (n1 \cup s2 \cup s3 \cup s4 \cup s5 \cup s6) \cup (e1 \cup e2 \cup e3 \cup e4)
  <2>1. /\ ns \o q1 \in Seq(WriteRecs) /\ ToSet(ns \o q1) = ToSet(ns) \cup e1
        /\ NodesFirst(ns \o q1)
    BY <1>7, <1>8, <1>10, <1>11, ElementsOfConcat, EdgesLast
  <2> DEFINE a == ns \o q1
  <2>a. a \in Seq(WriteRecs) /\ NodesFirst(a) /\ ToSet(a) = ToSet(ns) \cup e1
    BY <2>1
  <2> HIDE DEF a
  <2>2. /\ a \o q2 \in Seq(WriteRecs) /\ ToSet(a \o q2) = ToSet(ns) \cup e1 \cup e2
        /\ NodesFirst(a \o q2)
    BY <1>7, <1>10, <2>a, ElementsOfConcat, EdgesLast
  <2> DEFINE b == a \o q2
  <2>b. b \in Seq(WriteRecs) /\ NodesFirst(b) /\ ToSet(b) = ToSet(ns) \cup e1 \cup e2
    BY <2>2
  <2> HIDE DEF b
  <2>3. /\ b \o q3 \in Seq(WriteRecs) /\ ToSet(b \o q3) = ToSet(ns) \cup e1 \cup e2 \cup e3
        /\ NodesFirst(b \o q3)
    BY <1>6, <1>10, <2>b, ElementsOfConcat, EdgesLast
  <2> DEFINE c == b \o q3
  <2>c. c \in Seq(WriteRecs) /\ NodesFirst(c) /\ ToSet(c) = ToSet(ns) \cup e1 \cup e2 \cup e3
    BY <2>3
  <2> HIDE DEF c
  <2>4. /\ c \o q4 \in Seq(WriteRecs) /\ ToSet(c \o q4) = ToSet(ns) \cup e1 \cup e2 \cup e3 \cup e4
        /\ NodesFirst(c \o q4)
    BY <1>7, <1>10, <2>c, ElementsOfConcat, EdgesLast
  <2> QED
    BY <1>1, <1>8, <2>4 DEF a, b, c
<1> DEFINE W == ToSet(AllWrites)
<1>13. {x \in W : x.op = "node"} = n1 \cup s3 \cup s4 \cup s5
  <2>1. \A w \in n1 : w.op = "node"
    BY DEF n1, EntityWrite, Write
  <2>2. \A w \in s2 \cup s6 : w.op = "patch"
    BY DEF s2, s6, mp, NodeUpdate, MetadataPatch, Write
  <2>3. \A w \in s3 \cup s4 \cup s5 : w.op = "node"
    BY <1>r DEF aw, AssertionWrite, ContextWrite, MemoryLogWrite, Write
  <2> QED
    BY <1>10, <1>12, <2>1, <2>2, <2>3
<1>14. {x \in W : x.op = "edge"} = e1 \cup e2 \cup e3 \cup e4
  BY <1>8, <1>9, <1>10, <1>12
<1> HIDE DEF W
<1> DEFINE made == {r \in ToSet(candidates) : decided[r] = "create"}
<1>15. NodesOf(W) = made \cup (IF cl THEN {relation.shape} ELSE {})
                     \cup (IF co THEN {"context"} ELSE {}) \cup (IF me THEN {"log"} ELSE {})
  <2>1. {IdOf(w.id) : w \in n1} = made
    <3>1. \A r \in made : IdOf(EntityWrite(r).id) = r
      BY DEF IdOf, EntityWrite, Write
    <3> QED
      BY <3>1 DEF n1
  <2>2. /\ {IdOf(w.id) : w \in s3} = IF cl THEN {relation.shape} ELSE {}
        /\ {IdOf(w.id) : w \in s4} = IF co THEN {"context"} ELSE {}
        /\ {IdOf(w.id) : w \in s5} = IF me THEN {"log"} ELSE {}
    <3>1. /\ IdOf(aw.id) = relation.shape /\ IdOf(ContextWrite.id) = "context"
          /\ IdOf(MemoryLogWrite.id) = "log"
      BY DEF IdOf, aw, AssertionWrite, ContextWrite, MemoryLogWrite, Write
    <3> QED
      BY <1>2, <3>1 DEF s3, s4, s5
  <2>3. NodesOf(W) = {IdOf(w.id) : w \in n1} \cup {IdOf(w.id) : w \in s3}
                      \cup {IdOf(w.id) : w \in s4} \cup {IdOf(w.id) : w \in s5}
    BY <1>13 DEF NodesOf
  <2> QED
    BY <2>1, <2>2, <2>3
<1>16. {Known, Owner} \cup NodesOf(W) = DecidedNodes
  <2>1. DecidedNodes = {Known, Owner} \cup made \cup (IF me THEN {"log"} ELSE {})
                        \cup (IF cl \/ co THEN {relation.shape} ELSE {})
    BY DEF DecidedNodes, me, cl, co
  <2> HIDE DEF made
  <2> QED
    BY <1>2, <1>3, <1>15, <2>1
<1>17. /\ \A r \in Refs : Resolved(r) = Decided(r)
       /\ \A x \in NewIds \cup {Owner} : Resolved(x) = x
  BY PipelineAssumption DEF PipelineAssumption, Resolved, NodeFor, IdOf, Decided
<1>18. EdgesOf(W) = DecidedEdges
  <2> DEFINE d3 == {<<"hosts", Decided(log.host), "log">>}
                   \cup {<<"involves", "log", Decided(r)>> : r \in {log.with} \ {None}}
  <2>1. me => {EdgeOf(w) : w \in l3} = d3
    <3> SUFFICES ASSUME me PROVE {EdgeOf(w) : w \in l3} = d3
      OBVIOUS
    <3>1. log.host \in Refs /\ \A r \in {log.with} \ {None} : r \in Refs
      BY <1>3, PipelineAssumption DEF PipelineAssumption, LogDrafts
    <3>2. EdgeOf(RelationWrite("hosts", log.host, "log")) = <<"hosts", Decided(log.host), "log">>
      BY <1>17, <3>1 DEF EdgeOf, RelationWrite, Write, IdOf, NewIds
    <3>3. \A r \in {log.with} \ {None} :
             EdgeOf(RelationWrite("involves", "log", r)) = <<"involves", "log", Decided(r)>>
      BY <1>17, <3>1 DEF EdgeOf, RelationWrite, Write, IdOf, NewIds
    <3> QED
      BY <3>2, <3>3 DEF l3
  <2>2. cl => EdgeOf(ae) = <<"about", relation.shape, Decided(relation.to)>>
    BY <1>3, <1>17 DEF ae, EdgeOf, RelationWrite, Write, IdOf, NewIds
  <2>3. co => EdgeOf(ce) = <<"with", "context", Decided(relation.to)>>
    BY <1>3, <1>17 DEF ce, EdgeOf, RelationWrite, Write, IdOf, NewIds
  <2>4. re => EdgeOf(rr) = <<"relates", Owner, Decided(relation.to)>>
    BY <1>3, <1>17 DEF rr, EdgeOf, RelationWrite, Write, IdOf, NewIds
  <2>5. EdgesOf(W) = {EdgeOf(w) : w \in e1} \cup {EdgeOf(w) : w \in e2}
                      \cup {EdgeOf(w) : w \in e3} \cup {EdgeOf(w) : w \in e4}
    BY <1>14 DEF EdgesOf
  <2>6. DecidedEdges =
           (IF me THEN d3 ELSE {})
           \cup (IF cl THEN {<<"about", relation.shape, Decided(relation.to)>>} ELSE {})
           \cup (IF co THEN {<<"with", "context", Decided(relation.to)>>} ELSE {})
           \cup (IF re THEN {<<"relates", Owner, Decided(relation.to)>>} ELSE {})
    BY DEF DecidedEdges, me, cl, co, re, Deferred
  <2> HIDE DEF d3
  <2>7. {EdgeOf(w) : w \in e3} = IF me THEN d3 ELSE {}
    BY <1>2, <2>1 DEF e3
  <2>8. /\ {EdgeOf(w) : w \in e1} =
              IF cl THEN {<<"about", relation.shape, Decided(relation.to)>>} ELSE {}
        /\ {EdgeOf(w) : w \in e2} =
              IF co THEN {<<"with", "context", Decided(relation.to)>>} ELSE {}
        /\ {EdgeOf(w) : w \in e4} =
              IF re THEN {<<"relates", Owner, Decided(relation.to)>>} ELSE {}
    BY <1>2, <2>2, <2>3, <2>4 DEF e1, e2, e4
  <2> QED
    BY <2>5, <2>6, <2>7, <2>8
<1>19. \A w \in W : w.op = "edge" => {w.from, w.to} \subseteq Refs \cup {Owner} \cup NodesOf(W)
  <2>1. me => \A w \in l3 : {w.from, w.to} \subseteq Refs \cup {"log"}
    <3> SUFFICES ASSUME me PROVE \A w \in l3 : {w.from, w.to} \subseteq Refs \cup {"log"}
      OBVIOUS
    <3>1. log.host \in Refs /\ \A r \in {log.with} \ {None} : r \in Refs
      BY <1>3, PipelineAssumption DEF PipelineAssumption, LogDrafts
    <3> QED
      BY <3>1 DEF l3, RelationWrite, Write
  <2>2. cl => {ae.from, ae.to} \subseteq Refs \cup {relation.shape}
    BY <1>3 DEF ae, RelationWrite, Write
  <2>3. co => {ce.from, ce.to} \subseteq Refs \cup {"context"}
    BY <1>3 DEF ce, RelationWrite, Write
  <2>4. re => {rr.from, rr.to} \subseteq Refs \cup {Owner}
    BY <1>3 DEF rr, RelationWrite, Write
  <2>5. /\ me => "log" \in NodesOf(W)
        /\ cl => relation.shape \in NodesOf(W)
        /\ co => "context" \in NodesOf(W)
    BY <1>15
  <2>6. \A w \in W : w.op = "edge" => w \in e1 \cup e2 \cup e3 \cup e4
    BY <1>14
  <2> QED
    BY <1>r, <2>1, <2>2, <2>3, <2>4, <2>5, <2>6
<1> QED
  BY <1>12, <1>16, <1>18, <1>19 DEF W

\* A candidate at the end of an edge of a valid plan is written, or resolved.
LEMMA ValidMeans ==
    ASSUME NEW ws, Valid(ws)
    PROVE  \A w \in ToSet(ws) : w.op = "edge" =>
              \A r \in {w.from, w.to} \cap Refs :
                 r \in NodesOf(ToSet(ws)) \/ decided[r] = "update"
<1> SUFFICES ASSUME NEW i \in DOMAIN ws, ws[i].op = "edge",
                    NEW r \in {ws[i].from, ws[i].to} \cap Refs, decided[r] # "update"
             PROVE  r \in NodesOf(ToSet(ws))
  BY DEF ToSet
<1>1. PICK j \in DOMAIN ws : ws[j].op = "node" /\ ws[j].id = r
  BY DEF Valid
<1> QED
  BY <1>1 DEF NodesOf, ToSet, IdOf

\* The first write that is left, when it is an edge
LEMMA EdgesAreExecutable ==
    ASSUME Inv, WrittenInv, stage = "writing", plan # <<>>, Head(plan).op = "edge"
    PROVE  Executable(Head(plan))
<1> DEFINE w == Head(plan)
           W == ToSet(AllWrites)
<1>1. LeftInv /\ Valid(AllWrites) /\ {Known, Owner} \subseteq nodes /\ PlannedInv
  BY DEF WrittenInv, Begun
<1>2. plan \in Seq(WriteRecs) /\ Len(plan) \in Nat /\ Len(plan) > 0 /\ w = plan[1]
  BY <1>1 DEF LeftInv
<1>3. w \in W
  BY <1>1, <1>2, ToSetOfTail DEF LeftInv
<1>4. \A x \in ToSet(plan) : x.op = "edge"
  <2> SUFFICES ASSUME NEW i \in DOMAIN plan
               PROVE  plan[i].op = "edge"
    BY DEF ToSet
  <2>1. 1 \in DOMAIN plan /\ (i = 1 \/ 1 < i)
    BY <1>2
  <2> QED
    BY <1>1, <1>2, <2>1 DEF LeftInv, NodesFirst
<1> HIDE DEF w, W
<1>5. NodesOf(W) \subseteq nodes
  BY <1>1, <1>4 DEF LeftInv, Done, NodesOf, W
<1>6. {w.from, w.to} \subseteq Refs \cup {Owner} \cup NodesOf(W)
  BY <1>1, <1>3, PlanIsAsDecided DEF W, w
<1>7. \A r \in {w.from, w.to} \cap Refs : r \in NodesOf(W) \/ decided[r] = "update"
  BY <1>1, <1>3, ValidMeans DEF W, w
<1>8. \A x \in {w.from, w.to} : Resolved(x) \in nodes
  BY <1>1, <1>5, <1>6, <1>7 DEF Resolved, NodeFor, IdOf
<1> QED
  BY <1>8 DEF Executable, Needs, w

LEMMA WrittenIsDecided == Inv /\ WrittenInv => GraphIsAsDecided
<1> SUFFICES ASSUME Inv, WrittenInv
             PROVE  GraphIsAsDecided
  OBVIOUS
<1>1. nodes \subseteq DecidedNodes /\ edges \subseteq DecidedEdges
  BY DEF WrittenInv, DecidedNodes
<1>2. ASSUME stage = "written"
      PROVE  DecidedNodes \subseteq nodes /\ DecidedEdges \subseteq edges
  <2>1. NodesOf(ToSet(AllWrites)) \subseteq nodes /\ EdgesOf(ToSet(AllWrites)) \subseteq edges
    BY <1>2 DEF WrittenInv, Done, NodesOf, EdgesOf
  <2>2. {Known, Owner} \subseteq nodes /\ PlannedInv
    BY DEF WrittenInv
  <2> QED
    BY <2>1, <2>2, PlanIsAsDecided
<1>3. stage = "writing" /\ plan # <<>> /\ Head(plan).op = "edge" => Executable(Head(plan))
  BY EdgesAreExecutable
<1> QED
  BY <1>1, <1>2, <1>3 DEF GraphIsAsDecided

\* While the decisions stay, so does all that follows from them.
LEMMA SameDecisions ==
    ASSUME UNCHANGED <<candidates, decided, planned, actions>>
    PROVE  /\ AllWrites' = AllWrites /\ (Valid(AllWrites) <=> Valid(AllWrites)')
           /\ DecidedNodes' = DecidedNodes /\ DecidedEdges' = DecidedEdges
           /\ \A w : EdgeOf(w)' = EdgeOf(w)
           /\ (PlannedInv <=> PlannedInv')
<1>1. log' = log /\ relation' = relation
  BY DEF planned
<1>2. AllWrites' = AllWrites
  BY <1>1 DEF AllWrites, Writes, Assertion, Shape
<1>3. \A ws : Valid(ws) <=> Valid(ws)'
  BY DEF Valid
<1>4. DecidedNodes' = DecidedNodes /\ DecidedEdges' = DecidedEdges
  BY <1>1 DEF DecidedNodes, DecidedEdges, Decided, Assertion, Shape
<1>5. \A w : EdgeOf(w)' = EdgeOf(w)
  BY DEF EdgeOf, Resolved, NodeFor
<1>6. PlannedInv <=> PlannedInv'
  BY <1>1 DEF PlannedInv
<1> QED
  BY <1>2, <1>3, <1>4, <1>5, <1>6

\* The stages before the plan is executed, and those that end without that
LEMMA BeforeWriting ==
    ASSUME WrittenInv, ~Begun, stage' \notin {"writing", "failed", "vectors", "written"},
           UNCHANGED <<nodes, edges>>, PlannedInv'
    PROVE  WrittenInv'
BY DEF WrittenInv, Begun

LEMMA WrittenInit == Init => WrittenInv
BY DEF Init, ResolutionInit, WrittenInv, PlannedInv, Begun

LEMMA WriteNextWritten == Inv /\ WrittenInv /\ WriteNext => WrittenInv'
<1> SUFFICES ASSUME Inv, WrittenInv, WriteNext
             PROVE  WrittenInv'
  OBVIOUS
<1> DEFINE W == ToSet(AllWrites)
<1>0. PICK w : w = Head(plan)
  OBVIOUS
<1>1. /\ stage = "writing" /\ plan # <<>> /\ stage' = stage /\ plan' = Tail(plan)
      /\ nodes' = IF w.op = "node" THEN nodes \cup {IdOf(w.id)} ELSE nodes
      /\ edges' = IF w.op = "edge" THEN edges \cup {EdgeOf(w)} ELSE edges
      /\ UNCHANGED <<candidates, decided, planned, actions>>
  BY <1>0 DEF WriteNext, resolutionVars, EdgeOf
<1>2. /\ LeftInv /\ Valid(AllWrites) /\ {Known, Owner} \subseteq nodes /\ PlannedInv
      /\ nodes \subseteq DecidedNodes /\ edges \subseteq DecidedEdges
  BY <1>1 DEF WrittenInv, Begun
<1>3. /\ ToSet(plan) = {w} \cup ToSet(Tail(plan)) /\ Tail(plan) \in Seq(WriteRecs)
      /\ \A i \in DOMAIN Tail(plan) : i + 1 \in DOMAIN plan /\ Tail(plan)[i] = plan[i + 1]
      /\ DOMAIN Tail(plan) \subseteq Nat
  BY <1>0, <1>1, <1>2, ToSetOfTail DEF LeftInv
<1>4. w \in W
  BY <1>2, <1>3 DEF LeftInv
<1>5. NodesFirst(Tail(plan))
  <2> SUFFICES ASSUME NEW i \in DOMAIN Tail(plan), NEW j \in DOMAIN Tail(plan), i < j,
                      Tail(plan)[i].op = "edge"
               PROVE  Tail(plan)[j].op = "edge"
    BY DEF NodesFirst
  <2>1. i + 1 < j + 1
    BY <1>3
  <2> QED
    BY <1>2, <1>3, <2>1 DEF LeftInv, NodesFirst
<1>6. /\ AllWrites' = AllWrites /\ Valid(AllWrites)'
      /\ DecidedNodes' = DecidedNodes /\ DecidedEdges' = DecidedEdges
      /\ \A x : EdgeOf(x)' = EdgeOf(x)
      /\ PlannedInv'
  BY <1>1, <1>2, SameDecisions
<1>7. nodes \subseteq nodes' /\ edges \subseteq edges' /\ Done(w)'
  BY <1>1, <1>6 DEF Done
<1>8. \A x : Done(x) => Done(x)'
  BY <1>6, <1>7 DEF Done
<1>9. LeftInv'
  <2>1. \A x \in W : x \in ToSet(plan') \/ Done(x)'
    BY <1>1, <1>2, <1>3, <1>7, <1>8 DEF LeftInv
  <2> QED
    BY <1>1, <1>2, <1>3, <1>5, <1>6, <2>1 DEF LeftInv
<1>10. nodes' \subseteq DecidedNodes /\ edges' \subseteq DecidedEdges
  <2>1. w.op = "node" => IdOf(w.id) \in NodesOf(W)
    BY <1>4 DEF NodesOf
  <2>2. w.op = "edge" => EdgeOf(w) \in EdgesOf(W)
    BY <1>4 DEF EdgesOf
  <2>3. NodesOf(W) \subseteq DecidedNodes /\ EdgesOf(W) = DecidedEdges
    BY <1>2, PlanIsAsDecided
  <2> HIDE DEF W
  <2> QED
    BY <1>1, <1>2, <2>1, <2>2, <2>3
<1> QED
  BY <1>1, <1>2, <1>6, <1>7, <1>9, <1>10 DEF WrittenInv, Begun

\* What ends an execution, or begins another one
LEMMA ExecutionWritten ==
    ASSUME Inv, WrittenInv,
           \/ WriteFails \/ WriteRaises \/ Executed \/ Vectorize \/ ExecuteAgain
    PROVE  WrittenInv'
<1>1. /\ UNCHANGED <<candidates, decided, planned, actions, nodes, edges>>
      /\ stage \in {"writing", "failed", "vectors"}
      /\ \/ stage' = "failed"
         \/ stage = "writing" /\ plan = <<>> /\ stage' = "vectors"
         \/ stage = "vectors" /\ stage' = "written"
         \/ stage' = "writing" /\ plan' = AllWrites
  BY DEF WriteFails, WriteRaises, Executed, Vectorize, ExecuteAgain, Ends, graph, AllWrites
<1>2. /\ Valid(AllWrites) /\ {Known, Owner} \subseteq nodes /\ PlannedInv
      /\ nodes \subseteq DecidedNodes /\ edges \subseteq DecidedEdges
  BY <1>1 DEF WrittenInv, Begun
<1>3. /\ AllWrites' = AllWrites /\ Valid(AllWrites)'
      /\ DecidedNodes' = DecidedNodes /\ DecidedEdges' = DecidedEdges
      /\ \A x : EdgeOf(x)' = EdgeOf(x)
      /\ PlannedInv'
  BY <1>1, <1>2, SameDecisions
<1>4. \A x : Done(x) => Done(x)'
  BY <1>1, <1>3 DEF Done
<1>5. ASSUME stage' = "writing" PROVE LeftInv'
  <2>1. plan' = AllWrites
    BY <1>1, <1>5
  <2> QED
    BY <1>2, <1>3, <2>1, PlanIsAsDecided DEF LeftInv
<1>6. ASSUME stage' \in {"vectors", "written"}
      PROVE  \A w \in ToSet(AllWrites) : Done(w)
  <2>1. CASE stage = "vectors"
    BY <2>1 DEF WrittenInv
  <2>2. CASE stage = "writing" /\ plan = <<>>
    <3>1. ToSet(<<>>) = {}
      BY DEF ToSet
    <3> QED
      BY <2>2, <3>1 DEF WrittenInv, LeftInv
  <2> QED
    BY <1>1, <1>6, <2>1, <2>2
<1>7. stage' \in {"vectors", "written"} => \A w \in ToSet(AllWrites') : Done(w)'
  BY <1>3, <1>4, <1>6
<1> QED
  BY <1>1, <1>2, <1>3, <1>5, <1>7 DEF WrittenInv, Begun

LEMMA BuildWritten == Inv /\ WrittenInv /\ Build => WrittenInv'
<1> SUFFICES ASSUME Inv, WrittenInv, Build
             PROVE  WrittenInv'
  OBVIOUS
<1>1. /\ stage = "build" /\ UNCHANGED <<candidates, decided, planned, actions, nodes, edges>>
      /\ \/ stage' = "writing" /\ plan' = AllWrites /\ Valid(AllWrites)
         \/ stage' = "invalid"
  BY DEF Build, AllWrites
<1>2. ~Begun /\ PlannedInv /\ nodes = {Known, Owner} /\ edges = {}
  BY <1>1 DEF WrittenInv, Begun
<1>3. /\ AllWrites' = AllWrites /\ (Valid(AllWrites) <=> Valid(AllWrites)')
      /\ DecidedNodes' = DecidedNodes /\ PlannedInv'
  BY <1>1, <1>2, SameDecisions
<1>4. CASE stage' = "invalid"
  BY <1>1, <1>2, <1>3, <1>4, BeforeWriting
<1>5. CASE stage' = "writing"
  <2>1. LeftInv'
    BY <1>1, <1>2, <1>3, <1>5, PlanIsAsDecided DEF LeftInv
  <2>2. nodes \subseteq DecidedNodes
    BY <1>2 DEF DecidedNodes
  <2> QED
    BY <1>1, <1>2, <1>3, <1>5, <2>1, <2>2 DEF WrittenInv, Begun
<1> QED
  BY <1>1, <1>4, <1>5

\* The stages that plan the log and the relationship, and those that end
LEMMA StagesWritten ==
    ASSUME Inv, WrittenInv,
           \/ Prepare \/ PlanLogs \/ ExtractLogs \/ PlanRelationship \/ ExtractRelation
           \/ MissEntities \/ ResolveAgain \/ StillMissing \/ ProposeMemory \/ ProposeRelation
           \/ StageEnds \/ StageAsks \/ ResumePending
    PROVE  WrittenInv'
<1>1. ~Begun
  BY DEF Begun, Prepare, PlanLogs, ExtractLogs, PlanRelationship, ExtractRelation, MissEntities,
         ResolveAgain, StillMissing, ProposeMemory, ProposeRelation, StageEnds, StageAsks,
         Asking, ResumePending, Answer
<1>2. stage' \notin {"writing", "failed", "vectors", "written"}
  BY DEF Prepare, PlanLogs, ExtractLogs, PlanRelationship, ExtractRelation, MissEntities,
         ResolveAgain, StillMissing, ProposeMemory, ProposeRelation, StageEnds, StageAsks,
         ResumePending, Answer, Resolve, Plans, Ends, AfterLogs, AfterRelations
<1>3. UNCHANGED <<nodes, edges>>
  BY DEF Prepare, PlanLogs, ExtractLogs, PlanRelationship, ExtractRelation, MissEntities,
         ResolveAgain, StillMissing, ProposeMemory, ProposeRelation, StageEnds, StageAsks,
         ResumePending, Plans, Ends, graph
<1>4. PlannedInv'
  <2>1. PlannedInv
    BY DEF WrittenInv
  <2>2. CASE \/ Prepare \/ PlanLogs \/ MissEntities \/ ResolveAgain \/ StillMissing
             \/ ProposeMemory \/ StageEnds \/ StageAsks
    <3>1. UNCHANGED planned
      BY <2>2 DEF Prepare, PlanLogs, MissEntities, ResolveAgain, StillMissing, ProposeMemory,
                  StageEnds, StageAsks, Ends
    <3> QED
      BY <2>1, <3>1 DEF planned, PlannedInv
  <2>3. CASE ExtractLogs
    BY <2>1, <2>3 DEF ExtractLogs, PlannedInv
  <2>4. CASE PlanRelationship
    BY <2>1, <2>4 DEF PlanRelationship, PlannedInv
  <2>5. CASE ExtractRelation
    <3>1. log' = log /\ relation' \in RelationDrafts
      BY <2>5 DEF ExtractRelation
    <3>2. RelationDrafts \subseteq [shape : Shapes, to : Mentioned] \cup {None}
      BY <2>1 DEF PlannedInv, RelationDrafts
    <3> QED
      BY <2>1, <3>1, <3>2 DEF PlannedInv
  <2>6. CASE ProposeRelation
    <3>1. PICK t : relation' \in Endpoints(t) /\ log' = log
      BY <2>6 DEF ProposeRelation
    <3>2. Endpoints(t) \subseteq [shape : Shapes, to : Mentioned] \cup {None}
      BY <2>1 DEF PlannedInv, Endpoints, Shapes
    <3> QED
      BY <2>1, <3>1, <3>2 DEF PlannedInv
  <2>7. CASE ResumePending
    BY <2>1, <2>7 DEF ResumePending, PlannedInv
  <2> QED
    BY <2>2, <2>3, <2>4, <2>5, <2>6, <2>7
<1> QED
  BY <1>1, <1>2, <1>3, <1>4, BeforeWriting

LEMMA ResolutionWritten ==
    ASSUME Inv, WrittenInv, ResolveStep(ResolutionStep(then)) \/ ResolveStep(SessionFails)
    PROVE  WrittenInv'
<1>1. UNCHANGED <<planned, nodes, edges>>
  BY DEF ResolveStep, graph
<1>2. PlannedInv'
  BY <1>1 DEF WrittenInv, planned, PlannedInv
<1>3. stage = "resolving" /\ stage' \in {"resolving", "waiting", "unresolved", then}
  <2>1. CASE SessionFails
    BY <2>1 DEF SessionFails, InSession, Unresolved
  <2>2. CASE ResolutionStep(then)
    BY <2>2 DEF ResolutionStep, Act, Fumble, Ask, GiveUp, Repair, CompileFails, CompileBatch,
                CoverageFails, Finalize, LastBatch, Offered, InSession, Unresolved
  <2> QED
    BY <2>1, <2>2 DEF ResolveStep
<1>4. then \in {"logs", "planning"}
  BY DEF Inv, TypeOK
<1> QED
  BY <1>1, <1>2, <1>3, <1>4, BeforeWriting DEF Begun

LEMMA StutterWritten == WrittenInv /\ UNCHANGED vars => WrittenInv'
<1> SUFFICES ASSUME WrittenInv, UNCHANGED vars PROVE WrittenInv'
  OBVIOUS
<1>1. UNCHANGED <<stage, candidates, decided, planned, actions, plan, nodes, edges>>
  BY DEF vars, resolutionVars, graph
<1>2. /\ AllWrites' = AllWrites /\ (Valid(AllWrites) <=> Valid(AllWrites)')
      /\ DecidedNodes' = DecidedNodes /\ DecidedEdges' = DecidedEdges
      /\ \A x : EdgeOf(x)' = EdgeOf(x)
      /\ (PlannedInv <=> PlannedInv')
  BY <1>1, SameDecisions
<1>3. \A x : Done(x) => Done(x)'
  BY <1>1, <1>2 DEF Done
<1>4. LeftInv => LeftInv'
  BY <1>1, <1>2, <1>3 DEF LeftInv
<1> QED
  BY <1>1, <1>2, <1>3, <1>4 DEF WrittenInv, Begun

-----------------------------------------------------------------------------
(* The theorems of the write plan *)

\* What a plan has left and what it has written make up what was decided, through
\* failures and repeated executions (IngestionExecutor.execute).
THEOREM WritingInvariant == Spec => []WrittenInv
<1>1. Inv /\ WrittenInv /\ [Next]_vars => WrittenInv'
  <2> SUFFICES ASSUME Inv, WrittenInv, [Next]_vars
               PROVE  WrittenInv'
    OBVIOUS
  <2>1. CASE WriteNext
    BY <2>1, WriteNextWritten
  <2>2. CASE Build
    BY <2>2, BuildWritten
  <2> QED
    BY <2>1, <2>2, ExecutionWritten, StagesWritten, ResolutionWritten, StutterWritten
       DEF Next, Proceed, Others
<1> QED
  BY <1>1, WrittenInit, ResolutionInvariant, PTL DEF Spec

\* However often a plan is executed, and wherever its executions fail, the graph has
\* nothing that was not decided, each edge finds its ends, and a written ingestion
\* has all that was decided (build, validate_write_plan and execute).
THEOREM GraphIsAsDecidedHolds == Spec => []GraphIsAsDecided
<1> QED
  BY WrittenIsDecided, ResolutionInvariant, WritingInvariant, PTL
=============================================================================
