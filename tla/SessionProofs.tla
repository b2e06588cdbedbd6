---------------------------- MODULE SessionProofs ----------------------------
(***************************************************************************)
(* Proofs about LLMSession and the compaction of AIClient, for every       *)
(* window, every limit a provider may state, every size of messages and    *)
(* batches, and any number of retries, repairs and resumptions; and about  *)
(* CandidatePreparation, for every graph, every plan, every size of        *)
(* batches, and any number of plans and of writes by others.               *)
(***************************************************************************)
EXTENDS LLMSession, CandidatePreparation, Integers, SetLemmas, FiniteSetTheorems, SequenceTheorems

Roles    == {"system", "user", "assistant", "tool"}
MessageT == [role : Roles, size : Nat, calls : SUBSET Nat, id : Nat, pending : BOOLEAN]

\* A transcript that a provider accepts, wherever it is cut: it begins with the
\* prompt, only the assistant makes calls, nothing but other results stands
\* between a call and its result, and every call has one.
Prompted(ms) == Len(ms) >= 1 /\ ms[1].role = "system"

CallsAreAssistants(ms) ==
    \A i \in 1 .. Len(ms) : ms[i].role # "assistant" => ms[i].calls = {}

\* Only results stand at i + 1 .. j.
OnlyResults(ms, i, j) == \A k \in i + 1 .. j : ms[k].role = "tool"

ResultsHaveCalls(ms) ==
    \A j \in 1 .. Len(ms) : ms[j].role = "tool" =>
        \E i \in 1 .. j - 1 : ms[j].id \in ms[i].calls /\ OnlyResults(ms, i, j)

CallsHaveResults(ms) ==
    \A i \in 1 .. Len(ms) : \A id \in ms[i].calls :
        \E j \in i + 1 .. Len(ms) : Answers(ms, j, id) /\ OnlyResults(ms, i, j)

Closed(ms) ==
    /\ ms \in Seq(MessageT)
    /\ CallsAreAssistants(ms)
    /\ ResultsHaveCalls(ms)
    /\ CallsHaveResults(ms)

Grouped(ms) == Prompted(ms) /\ Closed(ms)

-----------------------------------------------------------------------------
(* Compaction keeps calls and results together *)

\* What a grouped transcript is for: a provider accepts it.
LEMMA GroupedIsAnswered ==
    ASSUME NEW ms, Grouped(ms), NEW ids
    PROVE  AnsweredIn(ms, ids)
<1>1. DOMAIN ms = 1 .. Len(ms)
  BY DEF Grouped, Closed
<1>2. \A j \in DOMAIN ms : ms[j].role = "tool" =>
          \E i \in 1 .. j - 1 : ms[j].id \in ms[i].calls
  BY <1>1 DEF Grouped, Closed, ResultsHaveCalls
<1>3. \A i \in DOMAIN ms : \A id \in ms[i].calls :
          \E j \in i + 1 .. Len(ms) : Answers(ms, j, id)
  BY <1>1 DEF Grouped, Closed, CallsHaveResults
<1> QED
  BY <1>2, <1>3 DEF AnsweredIn

\* Messages from any place on that holds no result can stand behind messages
\* that are no calls and no results.
LEMMA CutIsGrouped ==
    ASSUME NEW ms, Grouped(ms), NEW s \in 2 .. Len(ms) + 1,
           s <= Len(ms) => ms[s].role # "tool",
           NEW pre \in Seq(MessageT), Prompted(pre),
           \A k \in 1 .. Len(pre) : pre[k].role # "tool" /\ pre[k].calls = {}
    PROVE  Grouped(pre \o SubSeq(ms, s, Len(ms)))
<1> DEFINE new == pre \o SubSeq(ms, s, Len(ms))
           p == Len(pre)
           n == Len(ms)
<1>1. /\ ms \in Seq(MessageT) /\ n \in Nat /\ p \in Nat
      /\ p = Len(pre) /\ n = Len(ms) /\ p >= 1 /\ s \in 2 .. n + 1
  BY DEF Grouped, Closed, Prompted
<1>2. /\ new \in Seq(MessageT)
      /\ Len(new) = p + n - s + 1
      /\ \A k \in 1 .. p : new[k] = pre[k]
      /\ \A k \in p + 1 .. p + n - s + 1 : new[k] = ms[s + k - p - 1]
  BY <1>1
<1> HIDE DEF new, p, n
<1>3. Prompted(new)
  BY <1>1, <1>2 DEF Prompted
<1>4. CallsAreAssistants(new)
  <2> SUFFICES ASSUME NEW k \in 1 .. Len(new), new[k].role # "assistant"
               PROVE  new[k].calls = {}
    BY DEF CallsAreAssistants
  <2>1. CASE k <= p
    BY <1>1, <1>2, <2>1
  <2>2. CASE k > p
    <3> DEFINE i == s + k - p - 1
    <3>1. k \in p + 1 .. p + n - s + 1 /\ i \in 1 .. n
      BY <1>1, <1>2, <2>2
    <3>2. new[k] = ms[i]
      BY <1>2, <3>1
    <3> HIDE DEF i
    <3> QED
      BY <1>1, <3>1, <3>2 DEF Grouped, Closed, CallsAreAssistants
  <2> QED
    BY <1>1, <1>2, <2>1, <2>2
<1>5. ResultsHaveCalls(new)
  <2> SUFFICES ASSUME NEW k \in 1 .. Len(new), new[k].role = "tool"
               PROVE  \E i \in 1 .. k - 1 :
                         new[k].id \in new[i].calls /\ OnlyResults(new, i, k)
    BY DEF ResultsHaveCalls
  <2>1. k \in p + 1 .. p + n - s + 1
    BY <1>1, <1>2
  <2>2. PICK j \in s .. n : k = j + p + 1 - s /\ new[k] = ms[j]
    <3>1. new[k] = ms[s + k - p - 1]
      BY <1>2, <2>1
    <3>2. /\ p \in Int /\ n \in Int /\ s \in Int /\ k \in Int
          /\ p + 1 <= k /\ k <= p + n - s + 1
      BY <1>1, <2>1
    <3>3. s + k - p - 1 \in s .. n /\ k = (s + k - p - 1) + p + 1 - s
      BY <3>2
    <3> QED
      BY <3>1, <3>3
  <2>3. PICK i \in 1 .. j - 1 : ms[j].id \in ms[i].calls /\ OnlyResults(ms, i, j)
    BY <1>1, <2>2 DEF Grouped, Closed, ResultsHaveCalls
  <2>4. i >= s
    <3>1. ASSUME i < s
          PROVE  FALSE
      <4>1. s \in i + 1 .. j
        BY <1>1, <2>2, <2>3, <3>1
      <4>2. ms[s].role = "tool"
        BY <2>3, <4>1 DEF OnlyResults
      <4> QED
        BY <1>1, <2>2, <4>2
    <3> QED
      BY <1>1, <2>3, <3>1
  <2> DEFINE q == i + p + 1 - s
  <2>5. q \in p + 1 .. k - 1 /\ s + q - p - 1 = i
    BY <1>1, <1>2, <2>1, <2>2, <2>3, <2>4
  <2> HIDE DEF q
  <2>6. new[q] = ms[i]
    <3>1. new[q] = ms[s + q - p - 1]
      BY <1>2, <2>5
    <3> QED
      BY <2>5, <3>1
  <2>7. OnlyResults(new, q, k)
    <3> SUFFICES ASSUME NEW l \in q + 1 .. k
                 PROVE  new[l].role = "tool"
      BY DEF OnlyResults
    <3>0. /\ p \in Int /\ n \in Int /\ s \in Int /\ q \in Int /\ l \in Int
          /\ i \in Int /\ j \in Int /\ k \in Int
          /\ q >= p + 1 /\ s + q - p - 1 = i /\ q + 1 <= l /\ l <= k
          /\ k = j + p + 1 - s /\ j <= n
      BY <1>1, <2>1, <2>2, <2>3, <2>5
    <3>1. l \in p + 1 .. p + n - s + 1 /\ s + l - p - 1 \in i + 1 .. j
      BY <3>0
    <3>2. new[l] = ms[s + l - p - 1]
      BY <1>2, <3>1
    <3> QED
      BY <2>3, <3>1, <3>2 DEF OnlyResults
  <2> QED
    BY <1>1, <2>2, <2>3, <2>5, <2>6, <2>7
<1>6. CallsHaveResults(new)
  <2> SUFFICES ASSUME NEW k \in 1 .. Len(new), NEW id \in new[k].calls
               PROVE  \E l \in k + 1 .. Len(new) : Answers(new, l, id) /\ OnlyResults(new, k, l)
    BY DEF CallsHaveResults
  <2>1. k \in p + 1 .. p + n - s + 1
    <3>1. k \in Nat /\ 1 <= k /\ k <= p + n - s + 1
      BY <1>1, <1>2
    <3>2. k \notin 1 .. p
      BY <1>1, <1>2
    <3> QED
      BY <1>1, <3>1, <3>2
  <2>2. PICK i \in s .. n : k = i + p + 1 - s /\ new[k] = ms[i]
    <3>1. new[k] = ms[s + k - p - 1]
      BY <1>2, <2>1
    <3>2. /\ p \in Int /\ n \in Int /\ s \in Int /\ k \in Int
          /\ p + 1 <= k /\ k <= p + n - s + 1
      BY <1>1, <2>1
    <3>3. s + k - p - 1 \in s .. n /\ k = (s + k - p - 1) + p + 1 - s
      BY <3>2
    <3> QED
      BY <3>1, <3>3
  <2>3. PICK j \in i + 1 .. n : Answers(ms, j, id) /\ OnlyResults(ms, i, j)
    BY <1>1, <2>2 DEF Grouped, Closed, CallsHaveResults
  <2> DEFINE l == j + p + 1 - s
  <2>4. l \in k + 1 .. p + n - s + 1 /\ l \in p + 1 .. p + n - s + 1 /\ s + l - p - 1 = j
    BY <1>1, <1>2, <2>1, <2>2, <2>3
  <2>5. new[l] = ms[j]
    BY <1>1, <1>2, <2>4
  <2>6. OnlyResults(new, k, l)
    <3> SUFFICES ASSUME NEW m \in k + 1 .. l
                 PROVE  new[m].role = "tool"
      BY DEF OnlyResults
    <3>0. /\ p \in Int /\ n \in Int /\ s \in Int /\ i \in Int /\ j \in Int /\ k \in Int
          /\ l \in Int /\ m \in Int /\ k >= p + 1 /\ k = i + p + 1 - s /\ k + 1 <= m
          /\ m <= l /\ l <= p + n - s + 1 /\ s + l - p - 1 = j
      BY <1>1, <2>1, <2>2, <2>3, <2>4
    <3>1. m \in p + 1 .. p + n - s + 1 /\ s + m - p - 1 \in i + 1 .. j
      BY <3>0
    <3>2. new[m] = ms[s + m - p - 1]
      BY <1>2, <3>1
    <3> QED
      BY <2>3, <3>1, <3>2 DEF OnlyResults
  <2> QED
    BY <1>2, <2>3, <2>4, <2>5, <2>6 DEF Answers
<1>7. Grouped(new)
  BY <1>2, <1>3, <1>4, <1>5, <1>6 DEF Grouped, Closed
<1> QED
  BY <1>7 DEF new

\* The recent messages begin behind the prompt and not with a result.
LEMMA RecentStartIsCut ==
    ASSUME NEW ms, Grouped(ms)
    PROVE  /\ RecentStart(ms) \in 2 .. Len(ms) + 1
           /\ RecentStart(ms) <= Len(ms) => ms[RecentStart(ms)].role # "tool"
<1> DEFINE n     == Len(ms)
           start == Max({2, n - RecentMessages + 1})
           cuts  == {s \in 2 .. Min({start, n}) : ms[s].role # "tool"}
<1>1. ms \in Seq(MessageT) /\ n \in Nat /\ n = Len(ms) /\ n >= 1 /\ RecentMessages \in Nat
  BY ClientAssumption DEF Grouped, Closed, Prompted
<1>2. FirstContent(ms) = 2
  BY <1>1 DEF FirstContent, SystemPart, Grouped, Closed, Prompted
<1>3. RecentStart(ms) = Max({2} \cup cuts)
  BY <1>2 DEF RecentStart
<1> HIDE DEF n
<1>4. start \in Int
  <2>1. n - RecentMessages + 1 \in Int /\ 2 \in Int
    BY <1>1
  <2> QED
    BY <2>1, MaxOfTwo, Zenon
<1> HIDE DEF start
<1>5. Min({start, n}) \in Int /\ Min({start, n}) <= n
  <2>1. n \in Int
    BY <1>1
  <2> QED
    BY <2>1, <1>4, MinOfTwo, Zenon
<1>6. {2} \cup cuts \in SUBSET (0 .. n + 1)
  BY <1>1, <1>5
<1>7. Max({2} \cup cuts) \in {2} \cup cuts
  <2> DEFINE S == {2} \cup cuts
  <2>1. S \in SUBSET (0 .. n + 1)
    BY <1>6
  <2>2. 2 \in S
    OBVIOUS
  <2> HIDE DEF S
  <2>3. n + 1 \in Nat
    BY <1>1
  <2>4. Max(S) \in S
    BY <2>1, <2>2, <2>3, MaxIsGreatest
  <2> QED
    BY <2>4 DEF S
<1>8. 2 <= n => ms[2].role # "tool"
  <2>1. SUFFICES ASSUME 2 <= n, ms[2].role = "tool" PROVE FALSE
    OBVIOUS
  <2>2. PICK i \in 1 .. 2 - 1 : ms[2].id \in ms[i].calls
    BY <1>1, <2>1 DEF Grouped, Closed, ResultsHaveCalls
  <2>3. i = 1
    BY <2>2
  <2> QED
    BY <1>1, <2>2, <2>3 DEF Grouped, Closed, Prompted, CallsAreAssistants
<1> QED
  BY <1>1, <1>3, <1>5, <1>7, <1>8

LEMMA SystemPartIsPrompt ==
    ASSUME NEW ms, Grouped(ms)
    PROVE  /\ SystemPart(ms) = <<ms[1]>> /\ ms[1] \in MessageT /\ ms[1].calls = {}
           /\ Prompted(<<ms[1]>>) /\ ms[1].role = "system" /\ SystemPart(ms) # <<>>
BY DEF Grouped, Closed, Prompted, SystemPart, CallsAreAssistants

LEMMA FromIsGrouped ==
    ASSUME NEW ms, Grouped(ms), NEW s \in 2 .. Len(ms) + 1,
           s <= Len(ms) => ms[s].role # "tool"
    PROVE  Grouped(From(ms, s))
<1>1. <<ms[1]>> \in Seq(MessageT) /\ Prompted(<<ms[1]>>)
      /\ \A k \in 1 .. Len(<<ms[1]>>) : <<ms[1]>>[k].role # "tool" /\ <<ms[1]>>[k].calls = {}
  BY SystemPartIsPrompt
<1> QED
  BY <1>1, CutIsGrouped, SystemPartIsPrompt DEF From

\* However many messages are dropped, no result is left without its call.
LEMMA TruncatedIsGrouped ==
    ASSUME NEW ms, Grouped(ms), NEW budget
    PROVE  Grouped(Truncated(ms, budget))
<1> DEFINE starts == {RecentStart(ms)} \cup
                     {s \in RecentStart(ms) + 1 .. Len(ms) : ms[s].role # "tool"}
           fits   == {s \in starts : Tokens(From(ms, s)) <= budget}
<1>1. /\ Len(ms) \in Nat /\ RecentStart(ms) \in 2 .. Len(ms) + 1
      /\ RecentStart(ms) <= Len(ms) => ms[RecentStart(ms)].role # "tool"
  BY RecentStartIsCut DEF Grouped, Closed
<1>2. \A s \in starts : s \in 2 .. Len(ms) + 1 /\ (s <= Len(ms) => ms[s].role # "tool")
  BY <1>1
<1>3. SystemPart(ms) # <<>> /\ Grouped(SystemPart(ms))
  <2>1. Grouped(From(ms, Len(ms) + 1))
    BY <1>1, FromIsGrouped
  <2>2. SubSeq(ms, Len(ms) + 1, Len(ms)) = <<>>
    BY <1>1 DEF Grouped, Closed
  <2>3. <<ms[1]>> \o <<>> = <<ms[1]>>
    OBVIOUS
  <2>4. From(ms, Len(ms) + 1) = SystemPart(ms)
    BY <2>2, <2>3, SystemPartIsPrompt DEF From
  <2> QED
    BY <2>1, <2>4, SystemPartIsPrompt
<1>4. ASSUME fits # {}
      PROVE  Grouped(From(ms, Min(fits)))
  <2>1. fits \in SUBSET Nat
    BY <1>1, <1>2
  <2>2. Min(fits) \in fits
    <3> HIDE DEF fits
    <3> QED
      BY <1>4, <2>1, MinIsLeast
  <2> QED
    BY <1>2, <2>2, FromIsGrouped
<1>5. Truncated(ms, budget) = IF fits # {} THEN From(ms, Min(fits)) ELSE SystemPart(ms)
  BY <1>3 DEF Truncated
<1> HIDE DEF fits
<1> QED
  BY <1>3, <1>4, <1>5

\* Compaction, with a summary or without one.
LEMMA CompactedIsGrouped ==
    ASSUME NEW ms, Grouped(ms), NEW budget, NEW summarised
    PROVE  Grouped(Compacted(ms, budget, summarised))
<1> DEFINE pre       == SystemPart(ms) \o <<Summary>>
           candidate == pre \o SubSeq(ms, RecentStart(ms), Len(ms))
<1>1. Summary \in MessageT /\ Summary.role = "user" /\ Summary.calls = {}
  BY DEF Summary, Message, MessageT, NoCall, Roles
<1>2. /\ pre \in Seq(MessageT) /\ Prompted(pre)
      /\ \A k \in 1 .. Len(pre) : pre[k].role # "tool" /\ pre[k].calls = {}
  <2>1. ASSUME NEW x \in MessageT, NEW y \in MessageT
        PROVE  /\ <<x>> \o <<y>> \in Seq(MessageT) /\ Len(<<x>> \o <<y>>) = 2
               /\ (<<x>> \o <<y>>)[1] = x /\ (<<x>> \o <<y>>)[2] = y
    OBVIOUS
  <2>2. pre = <<ms[1]>> \o <<Summary>> /\ ms[1] \in MessageT
    BY SystemPartIsPrompt
  <2> HIDE DEF pre
  <2>3. Len(pre) = 2 /\ pre[1] = ms[1] /\ pre[2] = Summary /\ pre \in Seq(MessageT)
    BY <1>1, <2>1, <2>2
  <2> QED
    BY <1>1, <2>3, SystemPartIsPrompt DEF Prompted
<1> HIDE DEF pre
<1>3. Grouped(candidate)
  BY <1>2, CutIsGrouped, RecentStartIsCut
<1> HIDE DEF candidate
<1>4. Grouped(Truncated(candidate, budget)) /\ Grouped(Truncated(ms, budget))
  BY <1>3, TruncatedIsGrouped
<1>5. Compacted(ms, budget, summarised) \in
          {candidate, Truncated(candidate, budget), Truncated(ms, budget)}
  BY DEF Compacted, candidate, pre
<1> QED
  BY <1>3, <1>4, <1>5

LEMMA EnsuredIsGrouped ==
    ASSUME NEW ms, Grouped(ms), NEW budget, NEW summarised, NEW force
    PROVE  Grouped(Ensured(ms, budget, summarised, force))
BY CompactedIsGrouped DEF Ensured

-----------------------------------------------------------------------------
(* How transcripts grow *)

CallsIn(ms) == UNION {ms[i].calls : i \in DOMAIN ms}

OneResult(ms) ==
    \A i, j \in 1 .. Len(ms) :
        ms[i].role = "tool" /\ ms[j].role = "tool" /\ ms[i].id = ms[j].id => i = j

LEMMA ConcatIsClosed ==
    ASSUME NEW a, Closed(a), NEW b, Closed(b)
    PROVE  Closed(a \o b)
<1> DEFINE c == a \o b
           m == Len(a)
           n == Len(b)
<1>1. /\ m \in Nat /\ n \in Nat /\ m = Len(a) /\ n = Len(b)
      /\ a \in Seq(MessageT) /\ b \in Seq(MessageT)
  BY DEF Closed
<1>2. /\ c \in Seq(MessageT) /\ Len(c) = m + n
      /\ \A k \in 1 .. m : c[k] = a[k]
      /\ \A k \in m + 1 .. m + n : c[k] = b[k - m]
  BY <1>1
<1>3. \A k \in 1 .. n : m + k \in m + 1 .. m + n /\ c[m + k] = b[k]
  <2> SUFFICES ASSUME NEW k \in 1 .. n
               PROVE  m + k \in m + 1 .. m + n /\ c[m + k] = b[k]
    OBVIOUS
  <2>1. m + k \in m + 1 .. m + n /\ (m + k) - m = k
    BY <1>1
  <2> QED
    BY <1>2, <2>1
<1>4. \A k \in m + 1 .. m + n : \E l \in 1 .. n : k = m + l
  <2> SUFFICES ASSUME NEW k \in m + 1 .. m + n
               PROVE  \E l \in 1 .. n : k = m + l
    OBVIOUS
  <2>1. k - m \in 1 .. n /\ k = m + (k - m)
    BY <1>1
  <2> QED
    BY <2>1
<1> HIDE DEF c, m, n
<1>5. CallsAreAssistants(c)
  <2> SUFFICES ASSUME NEW k \in 1 .. m + n, c[k].role # "assistant"
               PROVE  c[k].calls = {}
    BY <1>2 DEF CallsAreAssistants
  <2>1. CASE k \in 1 .. m
    BY <1>1, <1>2, <2>1 DEF Closed, CallsAreAssistants
  <2>2. CASE k \in m + 1 .. m + n
    <3>1. PICK l \in 1 .. n : k = m + l
      BY <1>4, <2>2
    <3> QED
      BY <1>1, <1>3, <3>1 DEF Closed, CallsAreAssistants
  <2> QED
    BY <1>1, <2>1, <2>2
<1>6. ResultsHaveCalls(c)
  <2> SUFFICES ASSUME NEW k \in 1 .. m + n, c[k].role = "tool"
               PROVE  \E i \in 1 .. k - 1 : c[k].id \in c[i].calls /\ OnlyResults(c, i, k)
    BY <1>2 DEF ResultsHaveCalls
  <2>1. CASE k \in 1 .. m
    <3>1. PICK i \in 1 .. k - 1 : a[k].id \in a[i].calls /\ OnlyResults(a, i, k)
      BY <1>1, <1>2, <2>1 DEF Closed, ResultsHaveCalls
    <3>2. i \in 1 .. m /\ \A l \in i + 1 .. k : l \in 1 .. m
      BY <1>1, <2>1
    <3> QED
      BY <1>2, <2>1, <3>1, <3>2 DEF OnlyResults
  <2>2. CASE k \in m + 1 .. m + n
    <3>1. PICK l \in 1 .. n : k = m + l
      BY <1>4, <2>2
    <3>2. PICK i \in 1 .. l - 1 : b[l].id \in b[i].calls /\ OnlyResults(b, i, l)
      BY <1>1, <1>3, <3>1 DEF Closed, ResultsHaveCalls
    <3>3. i \in 1 .. n /\ m + i \in 1 .. k - 1 /\ m + i + 1 > m
      BY <1>1, <3>1
    <3>4. ASSUME NEW q \in m + i + 1 .. k
          PROVE  c[q].role = "tool"
      <4>1. q \in m + 1 .. m + n
        BY <1>1, <2>2, <3>3
      <4>2. PICK r \in 1 .. n : q = m + r
        BY <1>4, <4>1
      <4>3. r \in i + 1 .. l
        BY <1>1, <3>1, <3>3, <4>2
      <4> QED
        BY <1>3, <3>2, <4>2, <4>3 DEF OnlyResults
    <3> QED
      BY <1>3, <3>1, <3>2, <3>3, <3>4 DEF OnlyResults
  <2> QED
    BY <1>1, <2>1, <2>2
<1>7. CallsHaveResults(c)
  <2> SUFFICES ASSUME NEW k \in 1 .. m + n, NEW id \in c[k].calls
               PROVE  \E j \in k + 1 .. m + n : Answers(c, j, id) /\ OnlyResults(c, k, j)
    BY <1>2 DEF CallsHaveResults
  <2>1. CASE k \in 1 .. m
    <3>1. PICK j \in k + 1 .. m : Answers(a, j, id) /\ OnlyResults(a, k, j)
      BY <1>1, <1>2, <2>1 DEF Closed, CallsHaveResults
    <3>2. j \in 1 .. m /\ j \in k + 1 .. m + n /\ \A l \in k + 1 .. j : l \in 1 .. m
      BY <1>1, <2>1
    <3> QED
      BY <1>2, <3>1, <3>2 DEF OnlyResults, Answers
  <2>2. CASE k \in m + 1 .. m + n
    <3>1. PICK l \in 1 .. n : k = m + l
      BY <1>4, <2>2
    <3>2. PICK j \in l + 1 .. n : Answers(b, j, id) /\ OnlyResults(b, l, j)
      BY <1>1, <1>3, <3>1 DEF Closed, CallsHaveResults
    <3>3. j \in 1 .. n /\ m + j \in k + 1 .. m + n
      BY <1>1, <3>1
    <3>4. ASSUME NEW q \in k + 1 .. m + j
          PROVE  c[q].role = "tool"
      <4>1. q \in m + 1 .. m + n
        BY <1>1, <2>2, <3>3
      <4>2. PICK r \in 1 .. n : q = m + r
        BY <1>4, <4>1
      <4>3. r \in l + 1 .. j
        BY <1>1, <3>1, <3>3, <4>2
      <4> QED
        BY <1>3, <3>2, <4>2, <4>3 DEF OnlyResults
    <3> QED
      BY <1>3, <3>2, <3>3, <3>4 DEF OnlyResults, Answers
  <2> QED
    BY <1>1, <2>1, <2>2
<1>8. Closed(c)
  BY <1>2, <1>5, <1>6, <1>7 DEF Closed
<1> QED
  BY <1>8 DEF c

\* The calls of a transcript, and its results if the parts have none in common.
LEMMA ConcatCalls ==
    ASSUME NEW a \in Seq(MessageT), NEW b \in Seq(MessageT)
    PROVE  CallsIn(a \o b) = CallsIn(a) \cup CallsIn(b)
<1>1. /\ DOMAIN a = 1 .. Len(a) /\ DOMAIN b = 1 .. Len(b)
      /\ Len(a) \in Nat /\ Len(b) \in Nat
      /\ DOMAIN (a \o b) = 1 .. Len(a) + Len(b)
  OBVIOUS
<1>2. \A i \in DOMAIN a : i \in DOMAIN (a \o b) /\ (a \o b)[i] = a[i]
  BY <1>1
<1>3. ASSUME NEW i \in DOMAIN b
      PROVE  \E k \in DOMAIN (a \o b) : (a \o b)[k] = b[i]
  <2>1. Len(a) + i \in 1 .. Len(a) + Len(b) /\ Len(a) + i > Len(a) /\ (Len(a) + i) - Len(a) = i
    BY <1>1
  <2>2. (a \o b)[Len(a) + i] = b[i]
    BY <1>1, <2>1
  <2> QED
    BY <1>1, <2>1, <2>2
<1>4. ASSUME NEW k \in DOMAIN (a \o b)
      PROVE  \/ k \in DOMAIN a /\ (a \o b)[k] = a[k]
             \/ \E i \in DOMAIN b : (a \o b)[k] = b[i]
  <2>1. CASE k \in 1 .. Len(a)
    BY <1>1, <1>2, <2>1
  <2>2. CASE k \in Len(a) + 1 .. Len(a) + Len(b)
    <3>1. k - Len(a) \in DOMAIN b /\ (a \o b)[k] = b[k - Len(a)]
      BY <1>1, <2>2
    <3> QED
      BY <3>1
  <2> QED
    BY <1>1, <2>1, <2>2
<1> QED
  BY <1>2, <1>3, <1>4 DEF CallsIn

LEMMA ConcatOneResult ==
    ASSUME NEW a, Closed(a), OneResult(a), NEW b, Closed(b), OneResult(b),
           CallsIn(a) \cap CallsIn(b) = {}
    PROVE  OneResult(a \o b)
<1> DEFINE c == a \o b
           m == Len(a)
           n == Len(b)
<1>1. /\ m \in Nat /\ n \in Nat /\ m = Len(a) /\ n = Len(b)
      /\ DOMAIN a = 1 .. m /\ DOMAIN b = 1 .. n
      /\ a \in Seq(MessageT) /\ b \in Seq(MessageT)
  BY DEF Closed
<1>2. /\ c \in Seq(MessageT) /\ Len(c) = m + n
      /\ \A k \in 1 .. m : c[k] = a[k]
      /\ \A k \in m + 1 .. m + n : k - m \in 1 .. n /\ c[k] = b[k - m]
  BY <1>1
<1> HIDE DEF c, m, n
<1>3. \A i \in 1 .. m : a[i].role = "tool" => a[i].id \in CallsIn(a)
  <2> SUFFICES ASSUME NEW i \in 1 .. m, a[i].role = "tool"
               PROVE  a[i].id \in CallsIn(a)
    OBVIOUS
  <2>1. PICK k \in 1 .. i - 1 : a[i].id \in a[k].calls
    BY <1>1 DEF Closed, ResultsHaveCalls
  <2>2. k \in DOMAIN a
    BY <1>1
  <2> QED
    BY <2>1, <2>2 DEF CallsIn
<1>4. \A i \in 1 .. n : b[i].role = "tool" => b[i].id \in CallsIn(b)
  <2> SUFFICES ASSUME NEW i \in 1 .. n, b[i].role = "tool"
               PROVE  b[i].id \in CallsIn(b)
    OBVIOUS
  <2>1. PICK k \in 1 .. i - 1 : b[i].id \in b[k].calls
    BY <1>1 DEF Closed, ResultsHaveCalls
  <2>2. k \in DOMAIN b
    BY <1>1
  <2> QED
    BY <2>1, <2>2 DEF CallsIn
<1>5. ASSUME NEW i \in 1 .. m + n, NEW j \in 1 .. m + n,
             c[i].role = "tool", c[j].role = "tool", c[i].id = c[j].id
      PROVE  i = j
  <2>1. CASE i \in 1 .. m /\ j \in 1 .. m
    BY <1>1, <1>2, <1>5, <2>1 DEF OneResult
  <2>2. CASE i \in m + 1 .. m + n /\ j \in m + 1 .. m + n
    <3>1. /\ i - m \in 1 .. n /\ c[i] = b[i - m]
          /\ j - m \in 1 .. n /\ c[j] = b[j - m]
      BY <1>2, <2>2
    <3>2. i - m = j - m
      BY <1>1, <1>5, <3>1 DEF OneResult
    <3> QED
      BY <1>1, <2>2, <3>2
  <2>3. CASE i \in 1 .. m /\ j \in m + 1 .. m + n
    BY <1>2, <1>3, <1>4, <1>5, <2>3
  <2>4. CASE i \in m + 1 .. m + n /\ j \in 1 .. m
    BY <1>2, <1>3, <1>4, <1>5, <2>4
  <2> QED
    BY <1>1, <2>1, <2>2, <2>3, <2>4
<1>6. OneResult(c)
  BY <1>2, <1>5 DEF OneResult
<1> QED
  BY <1>6 DEF c

\* A message that neither calls nor answers.
LEMMA PlainIsClosed ==
    ASSUME NEW m \in MessageT, m.role # "tool", m.calls = {}
    PROVE  /\ Closed(<<m>>) /\ OneResult(<<m>>) /\ CallsIn(<<m>>) = {}
<1>1. <<m>> \in Seq(MessageT) /\ Len(<<m>>) = 1 /\ <<m>>[1] = m /\ DOMAIN <<m>> = {1}
  OBVIOUS
<1> QED
  BY <1>1 DEF Closed, CallsAreAssistants, ResultsHaveCalls, CallsHaveResults, OneResult,
              CallsIn

\* A batch: the message with the calls and the results of all of them.
LEMMA BatchIsClosed ==
    ASSUME NEW first \in Nat, NEW n \in Nat, NEW size \in Nat,
           NEW results \in [first .. first + n - 1 -> Results]
    PROVE  LET batch == <<Assistant(first .. first + n - 1)>>
                        \o ToolMessages(first, n, size, results)
           IN  /\ Closed(batch) /\ OneResult(batch)
               /\ CallsIn(batch) = first .. first + n - 1
               /\ \A i \in 1 .. Len(batch) : batch[i].pending =>
                      \E id \in Asked(results) : TRUE
<1> DEFINE ids   == first .. first + n - 1
           tools == ToolMessages(first, n, size, results)
           batch == <<Assistant(ids)>> \o tools
<1>1. Assistant(ids) \in MessageT
  BY DEF Assistant, Message, MessageT, Roles, NoCall
<1>2. ASSUME NEW k \in 1 .. n
      PROVE  /\ first + k - 1 \in ids
             /\ tools[k] \in MessageT /\ tools[k].role = "tool"
             /\ tools[k].id = first + k - 1 /\ tools[k].calls = {}
             /\ tools[k].pending => first + k - 1 \in Asked(results)
  <2>1. first + k - 1 \in ids /\ first + k - 1 \in Nat
    OBVIOUS
  <2>2. tools[k] = ToolMessage(first + k - 1, size, results[first + k - 1])
    BY DEF ToolMessages
  <2> DEFINE id  == first + k - 1
             tok == IF results[id] = "ok" THEN size ELSE 1
  <2>3. tools[k] = [role |-> "tool", size |-> tok, calls |-> {}, id |-> id,
                    pending |-> (results[id] = "question")]
    BY <2>2 DEF ToolMessage, Message
  <2>4. tok \in Nat /\ id \in Nat /\ (results[id] = "question") \in BOOLEAN
    BY <2>1
  <2>5. DOMAIN results = ids /\ id \in ids
    BY <2>1
  <2> HIDE DEF tok, tools, id
  <2>6. tools[k] \in MessageT
    BY <2>3, <2>4 DEF MessageT, Roles
  <2>7. tools[k].pending => id \in Asked(results)
    <3>1. tools[k].pending = (results[id] = "question")
      BY <2>3
    <3>2. tools[k].pending => results[id] = "question"
      BY <3>1, Zenon
    <3> QED
      BY <2>5, <3>2 DEF Asked
  <2> QED
    BY <2>1, <2>3, <2>6, <2>7 DEF id
<1>3. tools \in Seq(MessageT) /\ Len(tools) = n
  <2>1. tools \in [1 .. n -> MessageT]
    BY <1>2 DEF ToolMessages
  <2> QED
    BY <2>1
<1> HIDE DEF tools
<1>4. /\ batch \in Seq(MessageT) /\ Len(batch) = n + 1 /\ batch[1] = Assistant(ids)
      /\ \A k \in 2 .. n + 1 : k - 1 \in 1 .. n /\ batch[k] = tools[k - 1]
      /\ DOMAIN batch = 1 .. n + 1
  <2>1. <<Assistant(ids)>> \in Seq(MessageT) /\ Len(<<Assistant(ids)>>) = 1
        /\ <<Assistant(ids)>>[1] = Assistant(ids)
    BY <1>1
  <2> QED
    BY <1>3, <2>1
<1> HIDE DEF batch
<1>5. /\ batch[1].role = "assistant" /\ batch[1].calls = ids /\ ~batch[1].pending
  BY <1>4 DEF Assistant, Message
<1>6. \A k \in 2 .. n + 1 :
         /\ batch[k].role = "tool" /\ batch[k].calls = {} /\ batch[k].id = first + k - 2
         /\ batch[k].id \in ids
         /\ batch[k].pending => Asked(results) # {}
  <2> SUFFICES ASSUME NEW k \in 2 .. n + 1
               PROVE  /\ batch[k].role = "tool" /\ batch[k].calls = {}
                      /\ batch[k].id = first + k - 2 /\ batch[k].id \in ids
                      /\ batch[k].pending => Asked(results) # {}
    OBVIOUS
  <2>1. k - 1 \in 1 .. n /\ batch[k] = tools[k - 1] /\ first + (k - 1) - 1 = first + k - 2
    BY <1>4
  <2> QED
    BY <1>2, <2>1
<1>7. CallsAreAssistants(batch)
  BY <1>4, <1>5, <1>6 DEF CallsAreAssistants
<1>8. ResultsHaveCalls(batch)
  <2> SUFFICES ASSUME NEW j \in 1 .. n + 1, batch[j].role = "tool"
               PROVE  \E i \in 1 .. j - 1 : batch[j].id \in batch[i].calls
                                            /\ OnlyResults(batch, i, j)
    BY <1>4 DEF ResultsHaveCalls
  <2>1. j \in 2 .. n + 1 /\ 1 \in 1 .. j - 1
    BY <1>5
  <2>2. OnlyResults(batch, 1, j)
    BY <1>6, <2>1 DEF OnlyResults
  <2> QED
    BY <1>5, <1>6, <2>1, <2>2
<1>9. CallsHaveResults(batch)
  <2> SUFFICES ASSUME NEW i \in 1 .. n + 1, NEW id \in batch[i].calls
               PROVE  \E j \in i + 1 .. n + 1 : Answers(batch, j, id) /\ OnlyResults(batch, i, j)
    BY <1>4 DEF CallsHaveResults
  <2>1. i = 1 /\ id \in ids
    BY <1>5, <1>6
  <2> DEFINE j == id - first + 2
  <2>2. j \in 2 .. n + 1 /\ first + j - 2 = id /\ j \in i + 1 .. n + 1
    BY <2>1
  <2> HIDE DEF j
  <2>3. Answers(batch, j, id)
    BY <1>6, <2>2 DEF Answers
  <2>4. OnlyResults(batch, i, j)
    BY <1>6, <2>1, <2>2 DEF OnlyResults
  <2> QED
    BY <2>2, <2>3, <2>4
<1>10. OneResult(batch)
  <2> SUFFICES ASSUME NEW i \in 1 .. n + 1, NEW j \in 1 .. n + 1,
                      batch[i].role = "tool", batch[j].role = "tool",
                      batch[i].id = batch[j].id
               PROVE  i = j
    BY <1>4 DEF OneResult
  <2>1. i \in 2 .. n + 1 /\ j \in 2 .. n + 1
    BY <1>5
  <2>2. first + i - 2 = first + j - 2
    BY <1>6, <2>1
  <2> QED
    BY <2>1, <2>2
<1>11. CallsIn(batch) = ids
  <2>1. \A i \in 1 .. n + 1 : i = 1 \/ i \in 2 .. n + 1
    OBVIOUS
  <2>2. \A i \in DOMAIN batch : batch[i].calls \subseteq ids
    BY <1>4, <1>5, <1>6, <2>1
  <2>3. 1 \in DOMAIN batch /\ batch[1].calls = ids
    BY <1>4, <1>5
  <2> HIDE DEF ids
  <2> QED
    BY <2>2, <2>3 DEF CallsIn
<1>12. \A i \in 1 .. n + 1 : batch[i].pending => Asked(results) # {}
  BY <1>5, <1>6
<1> QED
  BY <1>4, <1>7, <1>8, <1>9, <1>10, <1>11, <1>12 DEF Closed, batch, tools

-----------------------------------------------------------------------------
(* The inductive invariant *)

CallT == [state : {"idle", "trying", "raised"}, attempt : Nat, temperature : BOOLEAN,
          tokens : TokenParams, adjusted : SUBSET {"temperature", "tokens", "context"},
          sent : Seq(MessageT)]

SessionT == [phase : {"turn", "calling", "awaiting"} \cup Ended, executed : Nat,
             repairs : Nat, schema : BOOLEAN, tools : BOOLEAN, followUp : BOOLEAN]

TypeOK ==
    /\ learnt \in Nat /\ call \in CallT
    /\ messages \in Seq(MessageT) /\ session \in SessionT /\ resumes \in Nat
    /\ wanted \in BOOLEAN /\ valid \in BOOLEAN /\ used \in Nat
    /\ handoff \in BOOLEAN /\ mixed \in BOOLEAN

\* Calls are numbered without gaps, so that the next number is a new one.
Numbered(ms) == \E n \in Nat : CallsIn(ms) = 1 .. n

TranscriptInv ==
    /\ Grouped(messages)
    /\ OneResult(messages)
    /\ Numbered(messages)
    /\ session.phase # "awaiting" => \A j \in 1 .. Len(messages) : ~messages[j].pending

SentInv == call.sent = <<>> \/ Grouped(call.sent)

\* Tools are offered below the cap only, and the count is that of all calls.
CountInv ==
    /\ used = session.executed
    /\ session.tools => session.executed < MaxToolCalls
    /\ CapHolds

\* A handoff is remembered until a text is allowed again.
FinalInv ==
    /\ wanted = session.schema
    /\ handoff /\ ~mixed => session.followUp /\ session.phase # "awaiting"
    /\ CompletedIsFinal

Inv == TypeOK /\ TranscriptInv /\ SentInv /\ CountInv /\ FinalInv

LEMMA CapBound ==
    /\ Max({0, MaxToolCalls - 1 + MaxBatch}) >= 0
    /\ Max({0, MaxToolCalls - 1 + MaxBatch}) >= MaxToolCalls - 1 + MaxBatch
    /\ Max({0, MaxToolCalls - 1 + MaxBatch}) \in Int
<1>1. 0 \in Int /\ MaxToolCalls - 1 + MaxBatch \in Int
  BY SessionAssumption
<1> QED
  BY <1>1, MaxOfTwo, Zenon

\* Every call of a transcript with closed batches has one result.
LEMMA OneResultEach ==
    ASSUME NEW ms, Grouped(ms), OneResult(ms), NEW id \in CallsIn(ms)
    PROVE  Cardinality({j \in DOMAIN ms : Answers(ms, j, id)}) = 1
<1>1. DOMAIN ms = 1 .. Len(ms)
  BY DEF Grouped, Closed
<1>2. PICK i \in DOMAIN ms : id \in ms[i].calls
  BY DEF CallsIn
<1>3. PICK j \in i + 1 .. Len(ms) : Answers(ms, j, id)
  BY <1>1, <1>2 DEF Grouped, Closed, CallsHaveResults
<1>4. j \in DOMAIN ms
  BY <1>1
<1>5. {k \in DOMAIN ms : Answers(ms, k, id)} = {j}
  BY <1>1, <1>3, <1>4 DEF Answers, OneResult
<1> QED
  BY <1>5, FS_Singleton

LEMMA InvImpliesWellFormed == Inv => SentIsWellFormed
<1> SUFFICES ASSUME Inv
             PROVE  SentIsWellFormed
  OBVIOUS
<1>1. CallsMade = CallsIn(messages)
  BY DEF CallsMade, CallsIn
<1>2. DOMAIN messages = 1 .. Len(messages)
  BY DEF Inv, TypeOK
<1>3. call.sent # <<>> => AnsweredIn(call.sent, CallsMade)
  BY GroupedIsAnswered DEF Inv, SentInv
<1>4. Grouped(messages) /\ OneResult(messages)
  BY DEF Inv, TranscriptInv
<1>5. AnsweredIn(messages, CallsMade)
  BY <1>4, GroupedIsAnswered
<1>6. \A id \in CallsMade : Cardinality({j \in DOMAIN messages : Answers(messages, j, id)}) = 1
  BY <1>1, <1>4, OneResultEach
<1>7. session.phase \in {"turn", "calling"} => \A j \in DOMAIN messages : ~messages[j].pending
  BY <1>2 DEF Inv, TranscriptInv
<1> QED
  BY <1>3, <1>5, <1>6, <1>7 DEF SentIsWellFormed

-----------------------------------------------------------------------------
(* Init and the steps of the client *)

LEMMA OpeningIsGood ==
    /\ Grouped(Opening) /\ OneResult(Opening) /\ CallsIn(Opening) = {}
    /\ \A j \in 1 .. Len(Opening) : ~Opening[j].pending
<1>1. /\ Opening \in Seq(MessageT) /\ Len(Opening) = 2 /\ DOMAIN Opening = 1 .. 2
      /\ \A i \in 1 .. 2 : Opening[i].role # "tool" /\ Opening[i].calls = {}
                           /\ ~Opening[i].pending
      /\ Opening[1].role = "system"
  BY DEF Opening, Message, MessageT, Roles, NoCall
<1> QED
  BY <1>1 DEF Grouped, Prompted, Closed, CallsAreAssistants, ResultsHaveCalls,
              CallsHaveResults, OneResult, CallsIn

LEMMA InvInit == Init => Inv
<1> SUFFICES ASSUME Init
             PROVE  Inv
  OBVIOUS
<1>1. PICK request \in {StateRequest, StructuredRequest} :
          /\ messages = request.messages
          /\ wanted = request.schema
          /\ session = Session(0, request.schema, FALSE)
  BY DEF Init
<1>2. messages = Opening /\ wanted \in BOOLEAN /\ session = Session(0, wanted, FALSE)
  <2>1. CASE request = StateRequest
    BY <1>1, <2>1 DEF StateRequest
  <2>2. CASE request = StructuredRequest
    BY <1>1, <2>2 DEF StructuredRequest
  <2> QED
    BY <2>1, <2>2
<1>3. TypeOK
  <2>1. Opening \in Seq(MessageT)
    BY OpeningIsGood DEF Grouped, Closed
  <2>2. call \in CallT /\ learnt \in Nat
    BY DEF Init, ClientInit, Idle, CallT, TokenParams
  <2>3. session \in SessionT
    BY <1>2, SessionAssumption DEF Session, SessionT, CapReached
  <2> QED
    BY <1>2, <2>1, <2>2, <2>3 DEF Init, TypeOK
<1>4. TranscriptInv
  <2>1. CallsIn(messages) = 1 .. 0
    BY <1>2, OpeningIsGood
  <2> QED
    BY <1>2, <2>1, OpeningIsGood DEF TranscriptInv, Numbered
<1>5. SentInv
  BY DEF Init, ClientInit, Idle, SentInv
<1>6. CountInv
  <2>1. used = 0 /\ session.executed = 0 /\ session.tools = ~CapReached(0)
    BY <1>2 DEF Init, Session
  <2>2. session.tools => ~CapReached(0)
    BY <2>1, Zenon
  <2>3. session.tools => 0 < MaxToolCalls
    BY <2>2, SessionAssumption DEF CapReached
  <2>4. CapHolds
    BY <2>1, CapBound DEF CapHolds
  <2> QED
    BY <2>1, <2>3, <2>4 DEF CountInv
<1>7. FinalInv
  BY <1>2 DEF Init, FinalInv, Session, CompletedIsFinal
<1> QED
  BY <1>3, <1>4, <1>5, <1>6, <1>7 DEF Inv

\* The client changes its variables only, and keeps what it sends together.
LEMMA StartCallStep ==
    ASSUME Inv, StartCall(messages)
    PROVE  learnt' = learnt /\ call' \in CallT /\ Grouped(call'.sent)
<1>1. PICK m \in Models, summarised \in BOOLEAN :
          call' = [state |-> "trying", attempt |-> 1, temperature |-> m.temperature,
                   tokens |-> m.tokens, adjusted |-> {},
                   sent |-> Ensured(messages, BudgetWith(learnt), summarised, FALSE)]
  BY DEF StartCall
<1>2. Grouped(Ensured(messages, BudgetWith(learnt), summarised, FALSE))
  BY EnsuredIsGrouped DEF Inv, TranscriptInv
<1>3. m.temperature \in BOOLEAN /\ m.tokens \in TokenParams
  BY ClientAssumption
<1>4. Ensured(messages, BudgetWith(learnt), summarised, FALSE) \in Seq(MessageT)
  BY <1>2 DEF Grouped, Closed
<1> QED
  BY <1>1, <1>2, <1>3, <1>4 DEF StartCall, CallT

LEMMA NextAttemptType ==
    ASSUME NEW c \in CallT
    PROVE  NextAttempt(c) \in CallT /\ NextAttempt(c).sent = c.sent
BY DEF NextAttempt, CallT

LEMMA RejectStep ==
    ASSUME Inv, Reject
    PROVE  learnt' \in Nat /\ call' \in CallT /\ SentInv'
<1>1. learnt \in Nat /\ call \in CallT /\ SentInv
  BY DEF Inv, TypeOK
<1>2. CASE RejectTemperature
  <2> DEFINE c == [call EXCEPT !.temperature = FALSE, !.adjusted = @ \cup {"temperature"}]
  <2>1. c \in CallT /\ c.sent = call.sent
    BY <1>1 DEF CallT
  <2>2. call' = NextAttempt(c) /\ learnt' = learnt
    BY <1>2 DEF RejectTemperature
  <2> HIDE DEF c
  <2> QED
    BY <1>1, <2>1, <2>2, NextAttemptType DEF SentInv
<1>3. CASE RejectTokens
  <2> DEFINE t == CHOOSE u \in TokenParams \ {"none"} : u # call.tokens
             c == [call EXCEPT !.tokens = t, !.adjusted = @ \cup {"tokens"}]
  <2>1. t \in TokenParams
    <3>1. \E u \in TokenParams \ {"none"} : u # call.tokens
      BY <1>1 DEF TokenParams, CallT
    <3> QED
      BY <3>1
  <2>2. call' = NextAttempt(c) /\ learnt' = learnt
    BY <1>3 DEF RejectTokens
  <2> HIDE DEF t
  <2>3. c \in CallT /\ c.sent = call.sent
    BY <1>1, <2>1 DEF CallT
  <2> HIDE DEF c
  <2> QED
    BY <1>1, <2>2, <2>3, NextAttemptType DEF SentInv
<1>4. CASE RejectContext
  <2>1. PICK stated \in Limits \cup {0}, summarised \in BOOLEAN :
          /\ learnt' = IF stated = 0 THEN learnt ELSE LowerLimit(learnt, stated)
          /\ call' = NextAttempt([call EXCEPT !.adjusted = @ \cup {"context"},
                        !.sent = Ensured(@, BudgetWith(learnt'), summarised, TRUE)])
    BY <1>4 DEF RejectContext
  <2> DEFINE sent == Ensured(call.sent, BudgetWith(learnt'), summarised, TRUE)
             c    == [call EXCEPT !.adjusted = @ \cup {"context"}, !.sent = sent]
  <2>2. call' = NextAttempt(c)
    BY <1>1, <2>1 DEF CallT
  <2>3. Grouped(sent)
    BY <1>1, <1>4, EnsuredIsGrouped DEF RejectContext, SentInv
  <2>4. sent \in Seq(MessageT)
    BY <2>3 DEF Grouped, Closed
  <2> HIDE DEF sent
  <2>5. c \in CallT /\ c.sent = sent
    BY <1>1, <2>4 DEF CallT
  <2> HIDE DEF c
  <2>6. call' \in CallT /\ SentInv'
    BY <2>2, <2>3, <2>5, NextAttemptType DEF SentInv
  <2>7. learnt' \in Nat
    <3>1. stated \in Nat
      BY ClientAssumption
    <3>2. learnt \in Int /\ stated \in Int
      BY <1>1, <3>1
    <3>3. Min({learnt, stated}) \in {learnt, stated}
      BY <3>2, MinOfTwo, Zenon
    <3> QED
      BY <1>1, <2>1, <3>1, <3>3 DEF LowerLimit
  <2> QED
    BY <2>6, <2>7
<1>5. CASE RejectTransient
  BY <1>1, <1>5, NextAttemptType DEF RejectTransient, SentInv
<1>6. CASE RejectForGood
  BY <1>1, <1>6 DEF RejectForGood, SentInv, CallT
<1> QED
  BY <1>2, <1>3, <1>4, <1>5, <1>6 DEF Reject

\* The steps that leave the transcript alone.
LEMMA RequestStep ==
    ASSUME Inv, Request
    PROVE  Inv'
<1>1. learnt' = learnt /\ call' \in CallT /\ Grouped(call'.sent)
  BY StartCallStep DEF Request
<1>2. /\ session' = [session EXCEPT !.phase = "calling"] /\ session.phase = "turn"
      /\ UNCHANGED <<messages, resumes, wanted, valid, used, handoff, mixed>>
  BY DEF Request, Go, history
<1>3. TypeOK'
  BY <1>1, <1>2 DEF Inv, TypeOK, SessionT
<1>4. /\ session'.phase = "calling" /\ session'.schema = session.schema
      /\ session'.executed = session.executed /\ session'.tools = session.tools
      /\ session'.followUp = session.followUp
  BY <1>2 DEF Inv, TypeOK, SessionT
<1>5. TranscriptInv'
  BY <1>2, <1>4 DEF Inv, TranscriptInv
<1>6. CountInv' /\ FinalInv' /\ SentInv'
  BY <1>1, <1>2, <1>4 DEF Inv, CountInv, CapHolds, FinalInv, CompletedIsFinal, SentInv
<1> QED
  BY <1>3, <1>5, <1>6 DEF Inv

LEMMA AdjustStep ==
    ASSUME Inv, Adjust
    PROVE  Inv'
<1>1. learnt' \in Nat /\ call' \in CallT /\ SentInv'
  BY RejectStep DEF Adjust
<1>2. /\ session.phase = "calling"
      /\ session' \in {session, [session EXCEPT !.phase = "raised"]}
      /\ UNCHANGED <<messages, resumes, wanted, valid, used, handoff, mixed>>
  BY DEF Adjust, Go, history, Raised
<1>3. TypeOK'
  BY <1>1, <1>2 DEF Inv, TypeOK, SessionT, Ended
<1>4. /\ session'.phase \in {"calling", "raised"} /\ session'.schema = session.schema
      /\ session'.executed = session.executed /\ session'.tools = session.tools
      /\ session'.followUp = session.followUp
  BY <1>2 DEF Inv, TypeOK, SessionT
<1>5. TranscriptInv'
  BY <1>2, <1>4 DEF Inv, TranscriptInv
<1>6. CountInv' /\ FinalInv'
  BY <1>1, <1>2, <1>4 DEF Inv, CountInv, CapHolds, FinalInv, CompletedIsFinal
<1> QED
  BY <1>1, <1>3, <1>5, <1>6 DEF Inv

-----------------------------------------------------------------------------
(* The replies *)

LEMMA IdleType == Idle \in CallT /\ Idle.sent = <<>>
BY DEF Idle, CallT, TokenParams

\* Messages that neither call nor answer are added behind any transcript.
LEMMA PlainAdded ==
    ASSUME NEW ms, Grouped(ms), OneResult(ms), Numbered(ms),
           \A j \in 1 .. Len(ms) : ~ms[j].pending,
           NEW m \in MessageT, m.role # "tool", m.calls = {}, ~m.pending
    PROVE  /\ Grouped(Append(ms, m)) /\ OneResult(Append(ms, m)) /\ Numbered(Append(ms, m))
           /\ \A j \in 1 .. Len(Append(ms, m)) : ~Append(ms, m)[j].pending
<1> DEFINE new == ms \o <<m>>
<1>1. /\ ms \in Seq(MessageT) /\ <<m>> \in Seq(MessageT) /\ Len(<<m>>) = 1 /\ <<m>>[1] = m
      /\ Len(ms) \in Nat /\ Len(ms) >= 1
  BY DEF Grouped, Closed, Prompted
<1>2. Closed(new)
  BY ConcatIsClosed, PlainIsClosed DEF Grouped
<1>3. CallsIn(new) = CallsIn(ms)
  <2>1. CallsIn(new) = CallsIn(ms) \cup CallsIn(<<m>>)
    BY <1>1, ConcatCalls
  <2> QED
    BY <2>1, PlainIsClosed
<1>4. OneResult(new)
  BY ConcatOneResult, PlainIsClosed DEF Grouped
<1>5. /\ Len(new) = Len(ms) + 1 /\ new[Len(ms) + 1] = m
      /\ \A k \in 1 .. Len(ms) : new[k] = ms[k]
  BY <1>1
<1> HIDE DEF new
<1>6. Prompted(new)
  BY <1>1, <1>5 DEF Prompted, Grouped
<1>7. \A j \in 1 .. Len(new) : ~new[j].pending
  <2> SUFFICES ASSUME NEW j \in 1 .. Len(new)
               PROVE  ~new[j].pending
    OBVIOUS
  <2>1. j \in 1 .. Len(ms) \/ j = Len(ms) + 1
    BY <1>1, <1>5
  <2> QED
    BY <1>5, <2>1
<1>8. new = Append(ms, m)
  BY <1>1, AppendIsConcat DEF new
<1> QED
  BY <1>2, <1>3, <1>4, <1>6, <1>7, <1>8 DEF Grouped, Numbered

LEMMA PlainMessages ==
    /\ Assistant({}) \in MessageT /\ Assistant({}).role # "tool"
    /\ Assistant({}).calls = {} /\ ~Assistant({}).pending
    /\ Message("user", 1, {}, NoCall) \in MessageT /\ Message("user", 1, {}, NoCall).role # "tool"
    /\ Message("user", 1, {}, NoCall).calls = {} /\ ~Message("user", 1, {}, NoCall).pending
BY DEF Assistant, Message, MessageT, Roles, NoCall

\* A text, whatever becomes of the session.
LEMMA TextStep ==
    ASSUME Inv, Replied,
           \/ messages' = Append(messages, Assistant({}))
           \/ messages' = Append(Append(messages, Assistant({})), Message("user", 1, {}, NoCall))
    PROVE  /\ learnt' \in Nat /\ call' \in CallT /\ SentInv'
           /\ messages' \in Seq(MessageT) /\ resumes' \in Nat
           /\ session.phase = "calling" /\ session'.phase # "awaiting" => TranscriptInv'
<1>1. learnt' = learnt /\ resumes' = resumes /\ call' = Idle /\ session.phase = "calling"
  BY DEF Replied
<1>2. /\ Grouped(messages) /\ OneResult(messages) /\ Numbered(messages)
      /\ \A j \in 1 .. Len(messages) : ~messages[j].pending
      /\ messages \in Seq(MessageT)
  BY <1>1 DEF Inv, TranscriptInv, TypeOK
<1> DEFINE a == Assistant({})
           u == Message("user", 1, {}, NoCall)
           one == Append(messages, a)
           two == Append(one, u)
<1>3. /\ Grouped(one) /\ OneResult(one) /\ Numbered(one)
      /\ \A j \in 1 .. Len(one) : ~one[j].pending
  BY <1>2, PlainAdded, PlainMessages
<1> HIDE DEF one
<1>4. /\ Grouped(two) /\ OneResult(two) /\ Numbered(two)
      /\ \A j \in 1 .. Len(two) : ~two[j].pending
  BY <1>3, PlainAdded, PlainMessages
<1>5. messages' \in {one, two}
  BY DEF one
<1> HIDE DEF two
<1>6. Grouped(messages') /\ OneResult(messages') /\ Numbered(messages')
      /\ \A j \in 1 .. Len(messages') : ~messages'[j].pending
  BY <1>3, <1>4, <1>5
<1>7. messages' \in Seq(MessageT)
  BY <1>6 DEF Grouped, Closed
<1> QED
  BY <1>1, <1>6, <1>7, IdleType DEF Inv, TypeOK, TranscriptInv, SentInv

LEMMA ReplyWithoutFollowUpStep ==
    ASSUME Inv, ReplyWithoutFollowUp
    PROVE  Inv'
<1>1. /\ session' = [session EXCEPT !.phase = "failed"]
      /\ UNCHANGED <<wanted, valid, used, handoff, mixed>>
  BY DEF ReplyWithoutFollowUp, Go, history
<1>2. /\ session'.phase = "failed" /\ session'.schema = session.schema
      /\ session'.executed = session.executed /\ session'.tools = session.tools
      /\ session'.followUp = session.followUp /\ session' \in SessionT
  BY <1>1 DEF Inv, TypeOK, SessionT, Ended
<1>3. /\ learnt' \in Nat /\ call' \in CallT /\ SentInv'
      /\ messages' \in Seq(MessageT) /\ resumes' \in Nat /\ TranscriptInv'
  BY <1>2, TextStep DEF ReplyWithoutFollowUp, Replied
<1>4. TypeOK'
  BY <1>1, <1>2, <1>3 DEF Inv, TypeOK
<1>5. CountInv' /\ FinalInv'
  BY <1>1, <1>2 DEF Inv, CountInv, CapHolds, FinalInv, CompletedIsFinal
<1> QED
  BY <1>3, <1>4, <1>5 DEF Inv

LEMMA CompleteStep ==
    ASSUME Inv, Complete
    PROVE  Inv'
<1>1. PICK isValid \in BOOLEAN :
          /\ ReplyWithText(isValid) /\ Accepted(isValid)
          /\ messages' = Append(messages, Assistant({}))
          /\ session' = [session EXCEPT !.phase = "completed"]
  BY DEF Complete, Go
<1>2. /\ session'.phase = "completed" /\ session'.schema = session.schema
      /\ session'.executed = session.executed /\ session'.tools = session.tools
      /\ session'.followUp = session.followUp /\ session' \in SessionT
  BY <1>1 DEF Inv, TypeOK, SessionT, Ended
<1>3. /\ learnt' \in Nat /\ call' \in CallT /\ SentInv'
      /\ messages' \in Seq(MessageT) /\ resumes' \in Nat /\ TranscriptInv'
  BY <1>1, <1>2, TextStep DEF ReplyWithText, Replied
<1>4. /\ ~session.followUp /\ valid' = isValid
      /\ UNCHANGED <<wanted, used, handoff, mixed>>
      /\ session.schema => isValid
  BY <1>1 DEF ReplyWithText, Accepted
<1>5. TypeOK'
  BY <1>2, <1>3, <1>4 DEF Inv, TypeOK
<1>6. CountInv' /\ FinalInv'
  BY <1>2, <1>4 DEF Inv, CountInv, CapHolds, FinalInv, CompletedIsFinal
<1> QED
  BY <1>3, <1>5, <1>6 DEF Inv

LEMMA RepairStep ==
    ASSUME Inv, Repair
    PROVE  Inv'
<1>1. /\ ReplyWithText(FALSE)
      /\ messages' = Append(Append(messages, Assistant({})), Message("user", 1, {}, NoCall))
      /\ session' = [session EXCEPT !.phase = "turn", !.repairs = @ + 1]
  BY DEF Repair, Go
<1>2. /\ session'.phase = "turn" /\ session'.schema = session.schema
      /\ session'.executed = session.executed /\ session'.tools = session.tools
      /\ session'.followUp = session.followUp /\ session' \in SessionT
  <2>1. session \in SessionT
    BY DEF Inv, TypeOK
  <2>2. session.repairs + 1 \in Nat
    BY <2>1 DEF SessionT
  <2> QED
    BY <1>1, <2>1, <2>2 DEF SessionT
<1>3. /\ learnt' \in Nat /\ call' \in CallT /\ SentInv'
      /\ messages' \in Seq(MessageT) /\ resumes' \in Nat /\ TranscriptInv'
  BY <1>1, <1>2, TextStep DEF ReplyWithText, Replied
<1>4. /\ ~session.followUp /\ valid' = FALSE
      /\ UNCHANGED <<wanted, used, handoff, mixed>>
  BY <1>1 DEF ReplyWithText
<1>5. TypeOK'
  BY <1>2, <1>3, <1>4 DEF Inv, TypeOK
<1>6. CountInv' /\ FinalInv'
  BY <1>2, <1>4 DEF Inv, CountInv, CapHolds, FinalInv, CompletedIsFinal
<1> QED
  BY <1>3, <1>5, <1>6 DEF Inv

LEMMA RepairsExhaustedStep ==
    ASSUME Inv, RepairsExhausted
    PROVE  Inv'
<1>1. /\ ReplyWithText(FALSE)
      /\ messages' = Append(messages, Assistant({}))
      /\ session' = [session EXCEPT !.phase = "failed"]
  BY DEF RepairsExhausted, Go
<1>2. /\ session'.phase = "failed" /\ session'.schema = session.schema
      /\ session'.executed = session.executed /\ session'.tools = session.tools
      /\ session'.followUp = session.followUp /\ session' \in SessionT
  BY <1>1 DEF Inv, TypeOK, SessionT, Ended
<1>3. /\ learnt' \in Nat /\ call' \in CallT /\ SentInv'
      /\ messages' \in Seq(MessageT) /\ resumes' \in Nat /\ TranscriptInv'
  BY <1>1, <1>2, TextStep DEF ReplyWithText, Replied
<1>4. /\ ~session.followUp /\ valid' = FALSE
      /\ UNCHANGED <<wanted, used, handoff, mixed>>
  BY <1>1 DEF ReplyWithText
<1>5. TypeOK'
  BY <1>2, <1>3, <1>4 DEF Inv, TypeOK
<1>6. CountInv' /\ FinalInv'
  BY <1>2, <1>4 DEF Inv, CountInv, CapHolds, FinalInv, CompletedIsFinal
<1> QED
  BY <1>3, <1>5, <1>6 DEF Inv

\* A batch of calls and their results.
LEMMA ReplyWithCallsStep ==
    ASSUME Inv, ReplyWithCalls
    PROVE  Inv'
<1>1. PICK n \in 1 .. MaxBatch, size \in Sizes :
      \E returned \in [NextId .. NextId + n - 1 -> Results] :
          LET ids      == NextId .. NextId + n - 1
              results  == Capped(returned)
              executed == session.executed + n
              given    == \E id \in ids : results[id] = "handoff"
          IN  /\ messages' = messages \o (<<Assistant(ids)>> \o ToolMessages(NextId, n, size, results))
              /\ Go([session EXCEPT
                       !.executed = executed, !.followUp = FollowUpRequired(results),
                       !.phase = IF Asked(results) # {} THEN "awaiting" ELSE "turn",
                       !.tools = ToolsAfter(executed, @)])
              /\ used' = used + n
              /\ handoff' = given
              /\ mixed' = (mixed \/ (given /\ Asked(results) # {}))
  BY DEF ReplyWithCalls
<1> DEFINE ids == NextId .. NextId + n - 1
<1>2. PICK returned \in [ids -> Results] :
          /\ messages' = messages \o (<<Assistant(ids)>>
                                       \o ToolMessages(NextId, n, size, Capped(returned)))
          /\ session' = [session EXCEPT
                   !.executed = session.executed + n,
                   !.followUp = FollowUpRequired(Capped(returned)),
                   !.phase = IF Asked(Capped(returned)) # {} THEN "awaiting" ELSE "turn",
                   !.tools = ToolsAfter(session.executed + n, @)]
          /\ used' = used + n
          /\ handoff' = (\E id \in ids : Capped(returned)[id] = "handoff")
          /\ mixed' = (mixed \/ ((\E id \in ids : Capped(returned)[id] = "handoff")
                                   /\ Asked(Capped(returned)) # {}))
  BY <1>1, Zenon DEF Go
<1> DEFINE results == Capped(returned)
<1>3. results \in [ids -> Results]
  BY DEF Capped, Results
<1>4. n \in Nat /\ n >= 1 /\ n <= MaxBatch /\ size \in Nat
  BY SessionAssumption
<1>5. /\ session.phase = "calling" /\ session.tools /\ learnt' = learnt /\ resumes' = resumes
      /\ call' = Idle /\ wanted' = wanted /\ valid' = valid
  BY DEF ReplyWithCalls, Replied
<1>6. PICK last \in Nat : CallsMade = 1 .. last
  BY DEF Inv, TranscriptInv, Numbered, CallsMade, CallsIn
<1>7. NextId = last + 1
  <2>1. Cardinality(1 .. last) = last
    BY FS_Interval
  <2> QED
    BY <1>6, <2>1 DEF NextId
<1> DEFINE batch == <<Assistant(ids)>> \o ToolMessages(NextId, n, size, results)
<1>8. /\ Closed(batch) /\ OneResult(batch) /\ CallsIn(batch) = ids
      /\ \A i \in 1 .. Len(batch) : batch[i].pending => Asked(results) # {}
  <2>1. NextId \in Nat
    BY <1>7
  <2> HIDE DEF results
  <2> QED
    BY <1>3, <1>4, <2>1, BatchIsClosed
<1>9. messages' = messages \o batch
  BY <1>2
<1> HIDE DEF batch, results
<1>10. /\ Grouped(messages) /\ OneResult(messages) /\ CallsIn(messages) = 1 .. last
       /\ \A j \in 1 .. Len(messages) : ~messages[j].pending
       /\ Len(messages) \in Nat /\ Len(messages) >= 1 /\ Closed(messages)
       /\ messages \in Seq(MessageT) /\ batch \in Seq(MessageT) /\ Len(batch) \in Nat
  BY <1>5, <1>6, <1>8 DEF Inv, TranscriptInv, CallsMade, CallsIn, Grouped, Prompted, Closed
<1>11. /\ Len(messages') = Len(messages) + Len(batch)
       /\ \A k \in 1 .. Len(messages) : messages'[k] = messages[k]
       /\ \A k \in Len(messages) + 1 .. Len(messages') :
             k - Len(messages) \in 1 .. Len(batch) /\ messages'[k] = batch[k - Len(messages)]
  BY <1>9, <1>10
<1>12. Grouped(messages')
  <2>1. Closed(messages')
    BY <1>8, <1>9, <1>10, ConcatIsClosed
  <2> QED
    BY <1>10, <1>11, <2>1 DEF Grouped, Prompted
<1>13. CallsIn(messages') = 1 .. last + n
  <2>1. CallsIn(messages') = CallsIn(messages) \cup CallsIn(batch)
    BY <1>9, <1>10, ConcatCalls
  <2>2. 1 .. last + n = (1 .. last) \cup (last + 1 .. last + 1 + n - 1)
    BY <1>4
  <2> QED
    BY <1>7, <1>8, <1>10, <2>1, <2>2
<1>14. OneResult(messages')
  <2>1. CallsIn(messages) \cap CallsIn(batch) = {}
    BY <1>4, <1>7, <1>8, <1>10
  <2> QED
    BY <1>8, <1>9, <1>10, <2>1, ConcatOneResult
<1>15. Asked(results) = {} => \A j \in 1 .. Len(messages') : ~messages'[j].pending
  <2> SUFFICES ASSUME Asked(results) = {}, NEW j \in 1 .. Len(messages')
               PROVE  ~messages'[j].pending
    OBVIOUS
  <2>1. j \in 1 .. Len(messages) \/ j \in Len(messages) + 1 .. Len(messages')
    BY <1>10, <1>11
  <2> QED
    BY <1>8, <1>10, <1>11, <2>1
<1> DEFINE asked == Asked(results) # {}
           given == \E id \in ids : results[id] = "handoff"
<1>16. /\ session'.executed = session.executed + n
       /\ session'.followUp = FollowUpRequired(results)
       /\ session'.phase = (IF asked THEN "awaiting" ELSE "turn")
       /\ session'.tools = ToolsAfter(session.executed + n, session.tools)
       /\ session'.schema = session.schema
       /\ session' \in SessionT
  <2>1. session \in SessionT
    BY DEF Inv, TypeOK
  <2>2. session.executed + n \in Nat
    BY <1>4, <2>1 DEF SessionT
  <2>3. FollowUpRequired(results) \in BOOLEAN
        /\ ToolsAfter(session.executed + n, session.tools) \in BOOLEAN
    BY DEF FollowUpRequired, ToolsAfter
  <2>4. session' = [session EXCEPT
                   !.executed = session.executed + n,
                   !.followUp = FollowUpRequired(results),
                   !.phase = IF asked THEN "awaiting" ELSE "turn",
                   !.tools = ToolsAfter(session.executed + n, session.tools)]
    BY <1>2, <2>1 DEF SessionT, results
  <2> HIDE DEF asked
  <2> QED
    BY <2>1, <2>2, <2>3, <2>4 DEF SessionT
<1>17. TranscriptInv'
  <2>1. last + n \in Nat
    BY <1>4
  <2> QED
    BY <1>12, <1>13, <1>14, <1>15, <1>16, <2>1 DEF TranscriptInv, Numbered
<1>18. FollowUpRequired(results) <=> given
  BY <1>3 DEF FollowUpRequired
<1>19. /\ used' = used + n
       /\ handoff' = given /\ mixed' = (mixed \/ (given /\ asked))
  BY <1>2 DEF results
<1> HIDE DEF given, asked
<1>20. TypeOK'
  <2>1. messages' \in Seq(MessageT)
    BY <1>12 DEF Grouped, Closed
  <2>2. given \in BOOLEAN /\ (mixed \/ (given /\ asked)) \in BOOLEAN
    BY DEF given
  <2> QED
    BY <1>4, <1>5, <1>16, <1>19, <2>1, <2>2, IdleType DEF Inv, TypeOK
<1>21. CountInv'
  <2>1. /\ used \in Nat /\ used = session.executed /\ used < MaxToolCalls
    BY <1>5 DEF Inv, TypeOK, CountInv
  <2>2. used' <= MaxToolCalls - 1 + MaxBatch
    BY <1>4, <1>19, <2>1, SessionAssumption
  <2>3. CapHolds'
    BY <1>4, <1>19, <2>1, <2>2, CapBound, SessionAssumption DEF CapHolds
  <2>4. ToolsAfter(session.executed + n, session.tools) => session.executed + n < MaxToolCalls
    BY <1>4, <2>1, SessionAssumption DEF ToolsAfter, CapReached
  <2> QED
    BY <1>16, <1>19, <2>1, <2>3, <2>4 DEF CountInv
<1>22. FinalInv'
  <2>1. session'.followUp = (\E id \in DOMAIN results : results[id] = "handoff")
    BY <1>16 DEF FollowUpRequired
  <2>2. given => session'.followUp
    BY <1>16, <1>18
  <2>3. session'.phase = "awaiting" => asked
    BY <1>16 DEF asked
  <2>4. session'.phase # "completed"
    BY <1>16
  <2> QED
    BY <1>5, <1>16, <1>19, <2>2, <2>3, <2>4 DEF Inv, FinalInv, CompletedIsFinal
<1>23. SentInv'
  BY <1>5, IdleType DEF SentInv
<1> QED
  BY <1>17, <1>20, <1>21, <1>22, <1>23 DEF Inv

-----------------------------------------------------------------------------
(* The resumptions *)

LEMMA ResolvedIsGood ==
    ASSUME NEW ms, Grouped(ms), OneResult(ms), Numbered(ms)
    PROVE  /\ Grouped(Resolved(ms)) /\ OneResult(Resolved(ms)) /\ Numbered(Resolved(ms))
           /\ \A j \in 1 .. Len(Resolved(ms)) : ~Resolved(ms)[j].pending
<1> DEFINE new == Resolved(ms)
           n   == Len(ms)
<1>1. ms \in Seq(MessageT) /\ DOMAIN ms = 1 .. n /\ n \in Nat /\ n = Len(ms)
  BY DEF Grouped, Closed
<1>2. \A i \in 1 .. n :
         /\ new[i] \in MessageT /\ new[i].role = ms[i].role /\ new[i].calls = ms[i].calls
         /\ new[i].id = ms[i].id /\ new[i].pending = FALSE
  <2> SUFFICES ASSUME NEW i \in 1 .. n
               PROVE  /\ new[i] \in MessageT /\ new[i].role = ms[i].role
                      /\ new[i].calls = ms[i].calls
                      /\ new[i].id = ms[i].id /\ new[i].pending = FALSE
    OBVIOUS
  <2>1. ms[i] \in MessageT /\ new[i] = [ms[i] EXCEPT !.pending = FALSE]
    BY <1>1 DEF Resolved
  <2> QED
    BY <2>1 DEF MessageT
<1>3. new \in [1 .. n -> MessageT]
  BY <1>1, <1>2 DEF Resolved
<1>4. new \in Seq(MessageT) /\ Len(new) = n /\ DOMAIN new = 1 .. n
  BY <1>1, <1>3
<1> HIDE DEF new, n
<1>5. Prompted(new) /\ CallsAreAssistants(new)
  BY <1>1, <1>2, <1>4 DEF Grouped, Prompted, Closed, CallsAreAssistants
<1>6. ASSUME NEW i \in 1 .. n, NEW j \in 1 .. n
      PROVE  OnlyResults(ms, i, j) <=> OnlyResults(new, i, j)
  <2>1. \A k \in i + 1 .. j : k \in 1 .. n
    BY <1>1
  <2> QED
    BY <1>2, <2>1 DEF OnlyResults
<1>7. ResultsHaveCalls(new)
  <2> SUFFICES ASSUME NEW j \in 1 .. n, new[j].role = "tool"
               PROVE  \E i \in 1 .. j - 1 : new[j].id \in new[i].calls /\ OnlyResults(new, i, j)
    BY <1>4 DEF ResultsHaveCalls
  <2>1. PICK i \in 1 .. j - 1 : ms[j].id \in ms[i].calls /\ OnlyResults(ms, i, j)
    BY <1>1, <1>2 DEF Grouped, Closed, ResultsHaveCalls
  <2>2. i \in 1 .. n
    BY <1>1
  <2> QED
    BY <1>2, <1>6, <2>1, <2>2
<1>8. CallsHaveResults(new)
  <2> SUFFICES ASSUME NEW i \in 1 .. n, NEW id \in new[i].calls
               PROVE  \E j \in i + 1 .. n : Answers(new, j, id) /\ OnlyResults(new, i, j)
    BY <1>4 DEF CallsHaveResults
  <2>1. PICK j \in i + 1 .. n : Answers(ms, j, id) /\ OnlyResults(ms, i, j)
    BY <1>1, <1>2 DEF Grouped, Closed, CallsHaveResults
  <2>2. j \in 1 .. n
    BY <1>1
  <2> QED
    BY <1>2, <1>6, <2>1, <2>2 DEF Answers
<1>9. OneResult(new)
  BY <1>1, <1>2, <1>4 DEF OneResult
<1>10. CallsIn(new) = CallsIn(ms)
  BY <1>1, <1>2, <1>4 DEF CallsIn
<1>11. \A j \in 1 .. Len(new) : ~new[j].pending
  BY <1>2, <1>4
<1>12. Closed(new)
  BY <1>4, <1>5, <1>7, <1>8 DEF Closed
<1> QED
  BY <1>5, <1>9, <1>10, <1>11, <1>12 DEF Grouped, Numbered, new

LEMMA SessionType ==
    ASSUME NEW executed \in Nat, NEW schema \in BOOLEAN, NEW followUp \in BOOLEAN
    PROVE  /\ Session(executed, schema, followUp) \in SessionT
           /\ Session(executed, schema, followUp).phase = "turn"
           /\ Session(executed, schema, followUp).executed = executed
           /\ Session(executed, schema, followUp).schema = schema
           /\ Session(executed, schema, followUp).followUp = followUp
           /\ Session(executed, schema, followUp).tools => executed < MaxToolCalls
<1>1. (~CapReached(executed)) \in BOOLEAN /\ (~CapReached(executed) => executed < MaxToolCalls)
  BY SessionAssumption DEF CapReached
<1> QED
  BY <1>1 DEF Session, SessionT

LEMMA ResumedTranscript ==
    ASSUME Inv, messages' = Resolved(messages)
    PROVE  messages' \in Seq(MessageT) /\ TranscriptInv'
<1>1. Grouped(messages) /\ OneResult(messages) /\ Numbered(messages)
  BY DEF Inv, TranscriptInv
<1>2. /\ Grouped(messages') /\ OneResult(messages') /\ Numbered(messages')
      /\ \A j \in 1 .. Len(messages') : ~messages'[j].pending
  BY <1>1, ResolvedIsGood
<1> QED
  BY <1>2 DEF TranscriptInv, Grouped, Closed

LEMMA ResumeContinuationStep ==
    ASSUME Inv, ResumeContinuation
    PROVE  Inv'
<1>1. /\ session.phase = "awaiting" /\ messages' = Resolved(messages)
      /\ session' = Session(session.executed, session.schema, FALSE)
      /\ resumes' = resumes + 1
      /\ UNCHANGED <<learnt, call, wanted, valid, used, handoff, mixed>>
  BY DEF ResumeContinuation, Go, Carried, history
<1>2. session.executed \in Nat /\ session.schema \in BOOLEAN
  BY DEF Inv, TypeOK, SessionT
<1>3. /\ session' \in SessionT /\ session'.phase = "turn"
      /\ session'.executed = session.executed /\ session'.schema = session.schema
      /\ session'.tools => session.executed < MaxToolCalls
  BY <1>1, <1>2, SessionType
<1>4. messages' \in Seq(MessageT) /\ TranscriptInv'
  BY <1>1, ResumedTranscript
<1>5. TypeOK'
  <2>1. resumes' \in Nat
    BY <1>1 DEF Inv, TypeOK
  <2> QED
    BY <1>1, <1>3, <1>4, <2>1 DEF Inv, TypeOK
<1>6. CountInv' /\ FinalInv' /\ SentInv'
  BY <1>1, <1>3 DEF Inv, CountInv, CapHolds, FinalInv, CompletedIsFinal, SentInv
<1> QED
  BY <1>4, <1>5, <1>6 DEF Inv

LEMMA ContinueFromMessagesStep ==
    ASSUME Inv, ContinueFromMessages
    PROVE  Inv'
<1>1. PICK force \in (IF handoff THEN {TRUE} ELSE BOOLEAN) :
          /\ messages' = Resolved(messages)
          /\ session' = Session(0, FALSE, force)
          /\ handoff' = (handoff \/ force)
  BY DEF ContinueFromMessages, Go
<1>2. /\ resumes' = resumes + 1 /\ wanted' = FALSE /\ used' = 0
      /\ UNCHANGED <<learnt, call, valid, mixed>>
  BY DEF ContinueFromMessages
<1>3. force \in BOOLEAN /\ (handoff => force) /\ handoff \in BOOLEAN
  BY DEF Inv, TypeOK
<1>4. /\ session' \in SessionT /\ session'.phase = "turn"
      /\ session'.executed = 0 /\ session'.schema = FALSE /\ session'.followUp = force
      /\ session'.tools => 0 < MaxToolCalls
  BY <1>1, <1>3, SessionType
<1>5. messages' \in Seq(MessageT) /\ TranscriptInv'
  BY <1>1, ResumedTranscript
<1>6. TypeOK'
  <2>1. resumes' \in Nat
    BY <1>2 DEF Inv, TypeOK
  <2>2. handoff' = force
    BY <1>1, <1>3
  <2> QED
    BY <1>2, <1>3, <1>4, <1>5, <2>1, <2>2 DEF Inv, TypeOK
<1>7. CountInv'
  BY <1>2, <1>4, CapBound DEF CountInv, CapHolds
<1>8. FinalInv' /\ SentInv'
  BY <1>1, <1>2, <1>3, <1>4 DEF Inv, FinalInv, CompletedIsFinal, SentInv
<1> QED
  BY <1>5, <1>6, <1>7, <1>8 DEF Inv

-----------------------------------------------------------------------------
(* The theorems *)

LEMMA InvNext == Inv /\ [Next]_vars => Inv'
<1> SUFFICES ASSUME Inv, [Next]_vars
             PROVE  Inv'
  OBVIOUS
<1>1. CASE UNCHANGED vars
  BY <1>1 DEF vars, history, Inv, TypeOK, TranscriptInv, SentInv, CountInv, CapHolds,
              FinalInv, CompletedIsFinal
<1>2. CASE Next
  BY <1>2, RequestStep, AdjustStep, ReplyWithCallsStep, ReplyWithoutFollowUpStep,
     CompleteStep, RepairStep, RepairsExhaustedStep, ResumeContinuationStep,
     ContinueFromMessagesStep DEF Next, Step
<1> QED
  BY <1>1, <1>2

THEOREM SessionInvariant == Spec => []Inv
BY InvInit, InvNext, PTL DEF Spec

\* No request to a provider holds a result without its call or a call without
\* its result (ai/context.py), whatever is compacted, truncated, summarised,
\* repaired or resumed, and no transcript on its way to a model has a call with
\* two results or with a placeholder.
THEOREM SentIsWellFormedHolds == Spec => []SentIsWellFormed
BY SessionInvariant, InvImpliesWellFormed, PTL

\* The cap on tool calls (ai/session/runner.py) is exceeded by the rest of one
\* batch at most, over all resumptions of a continuation.
THEOREM CapHoldsAlways == Spec => []CapHolds
<1>1. Inv => CapHolds
  BY DEF Inv, CountInv
<1> QED
  BY <1>1, SessionInvariant, PTL

\* A session that completes gives validated output where it was asked for, and
\* never ends on what a tool handed over (ai/session/runner.py).
THEOREM CompletedIsFinalHolds == Spec => []CompletedIsFinal
<1>1. Inv => CompletedIsFinal
  BY DEF Inv, FinalInv
<1> QED
  BY <1>1, SessionInvariant, PTL

-----------------------------------------------------------------------------
(* CandidatePreparation *)

-----------------------------------------------------------------------------
(* What a registry holds *)

AliasT == {OWNER} \cup (Kinds \X Nat)
IdT    == Things \cup LinkIds \cup {None, Local}

\* The kinds of aliases that may name an id.  A memory log that was reached first as the
\* end of a relationship is a node.
KindsFor(x) == IF x \in Nodes \cup {Owner, None} THEN {"NODE"}
               ELSE IF x \in Logs THEN {"NODE", "MEMORY"}
               ELSE IF x = Local THEN {"CONTEXT"} ELSE {"REL"}

BindingT == UNION {[D -> IdT] : D \in SUBSET AliasT}

OneAlias(b) == \A a, c \in DOMAIN b : b[a] = b[c] /\ b[a] # Local => a = c

\* What may be saved: objects with one alias each, of a kind that fits
Sane(b) ==
    /\ b \in BindingT
    /\ \A a \in DOMAIN b : KindOf(a) \in KindsFor(b[a])
    /\ OneAlias(b)
    /\ \E n \in Nat : \A a \in DOMAIN b : a[2] <= n

RegistryT == [bound : BindingT, counter : [Kinds -> Nat], refused : SUBSET IdT]

\* The mapper has counted all aliases but those of local objects.
Counts(r) == \A a \in DOMAIN r.bound \ {OWNER} : a[1] # "CONTEXT" => a[2] <= r.counter[a[1]]

Extends(b, c) == \A a \in DOMAIN b : a \in DOMAIN c /\ c[a] = b[a]

\* The registries that may come of one that binds b, if only R may be refused
After(b, R) ==
    {r \in RegistryT : Sane(r.bound) /\ Counts(r) /\ Extends(b, r.bound) /\ r.refused \subseteq R}

-----------------------------------------------------------------------------
(* The invariant *)

Reading == {"node", "links", "link", "logs"}
Looking == {"lookup"} \cup Reading

Statuses == {"no_candidates", "one_candidate", "multiple_candidates"}
PacketT  == [offers : Seq(AliasT), status : Statuses]
PacketsT == UNION {[D -> PacketT] : D \in SUBSET Candidate}
Planned  == Candidate \cup {OWNER}
Extracted == Candidate \ Untyped
DraftT   == {d \in [ref : Extracted, of : Candidate \cup {None}] : d.of \in {None, d.ref}}

PreparationTypeOK ==
    /\ life \in [Things -> {"open", "private", "archived"}]
    /\ packets \in PacketsT /\ fresh \in PacketsT
    /\ plan \in Seq(Planned)
    /\ links \in Seq(ToSet(Links)) /\ work \in Seq(Candidate \X AliasT)
    /\ drafted \in Seq(DraftT) /\ accepted \in Seq(DraftT)

AliasInv ==
    /\ stage = "build" => saved = Empty
    /\ Sane(saved)
    /\ registry \in After(Empty, IdT)
    /\ stage \in Looking => registry \in After(saved, {})
    /\ stage = "refused" => registry.refused \subseteq Logs

\* What is looked up, or extracted, is of the plan.
PlanInv ==
    /\ stage = "lookup" => /\ todo \in Seq(Planned) /\ todo # <<>> /\ work = <<>>
                           /\ ToSet(todo) \cup DOMAIN fresh \subseteq ToSet(plan)
    /\ stage \in {"links", "link", "logs"} => work # <<>>
    /\ stage = "extract" => todo \in Seq(Seq(Extracted) \ {<<>>})
    /\ stage \in {"build", "reason", "plan", "extract", "resolve"} => fresh = Empty

\* An alias stands for a node that may be offered for a ref.
Offers(ref, a) ==
    /\ ref \in DOMAIN fresh
    /\ a \in DOMAIN registry.bound /\ registry.bound[a] \in ToSet(Matching[ref]) \ {Owner}

Waiting == IF stage = "node" THEN ToSet(work) ELSE ToSet(Tail(work))

\* Offers match, and those that do not wait were read.
OfferInv ==
    /\ stage \in Looking => /\ \A ref \in DOMAIN fresh : \A a \in ToSet(fresh[ref].offers) : Offers(ref, a)
                            /\ \A w \in ToSet(work) : Offers(w[1], w[2])
    /\ stage \in Reading =>
          \A ref \in DOMAIN fresh : \A a \in ToSet(fresh[ref].offers) :
             \/ <<ref, a>> \in Waiting
             \/ IsVisible(registry.bound[a]) \/ <<ref, registry.bound[a]>> \in since

PreparationInv == PreparationTypeOK /\ AliasInv /\ PlanInv /\ OfferInv /\ OffersAreVisible

-----------------------------------------------------------------------------
(* Sequences *)

LEMMA KeepingElements ==
    ASSUME NEW S, NEW s \in Seq(S), NEW T
    PROVE  /\ Keeping(s, T) \in Seq(S) /\ Keeping(s, T) \in Seq(S \cap T)
           /\ ToSet(Keeping(s, T)) = ToSet(s) \cap T
<1> DEFINE parts == [i \in DOMAIN s |-> IF s[i] \in T THEN <<s[i]>> ELSE <<>>]
           U == S \cap T
<1>1. DOMAIN s = 1 .. Len(s) /\ Len(s) \in Nat /\ \A i \in DOMAIN s : s[i] \in S
  OBVIOUS
<1>2. ASSUME NEW i \in DOMAIN s
      PROVE  /\ parts[i] \in Seq(S) /\ parts[i] \in Seq(U)
             /\ ToSet(parts[i]) = {s[i]} \cap T
  <2>1. CASE s[i] \in T
    <3>1. parts[i] = <<s[i]>> /\ s[i] \in S /\ s[i] \in U
      BY <1>1, <2>1
    <3>2. DOMAIN <<s[i]>> = {1} /\ <<s[i]>>[1] = s[i]
      OBVIOUS
    <3>3. ToSet(<<s[i]>>) = {s[i]}
      BY <3>2 DEF ToSet
    <3> QED
      BY <2>1, <3>1, <3>3
  <2>2. CASE s[i] \notin T
    <3>1. parts[i] = <<>>
      BY <2>2
    <3>2. ToSet(<<>>) = {}
      BY DEF ToSet
    <3> QED
      BY <2>2, <3>1, <3>2
  <2> QED
    BY <2>1, <2>2
<1>3. DOMAIN parts = DOMAIN s
  OBVIOUS
<1>4. Keeping(s, T) = FlattenSeq(parts)
  BY DEF Keeping
<1> HIDE DEF parts, U
<1>5. parts \in Seq(Seq(S)) /\ parts \in Seq(Seq(U))
  <2>1. parts = [i \in 1 .. Len(s) |-> parts[i]]
    <3>1. parts = [i \in DOMAIN s |-> parts[i]]
      BY DEF parts
    <3> QED
      BY <1>1, <3>1
  <2> QED
    BY <1>1, <1>2, <2>1
<1>6. /\ FlattenSeq(parts) \in Seq(S)
      /\ ToSet(FlattenSeq(parts)) = UNION {ToSet(parts[i]) : i \in DOMAIN parts}
  BY <1>5, ElementsOfFlatten
<1>7. FlattenSeq(parts) \in Seq(U)
  BY <1>5, ElementsOfFlatten
<1>8. UNION {ToSet(parts[i]) : i \in DOMAIN parts} = ToSet(s) \cap T
  BY <1>2, <1>3 DEF ToSet
<1> QED
  BY <1>4, <1>6, <1>7, <1>8 DEF U

LEMMA PrefixElements ==
    ASSUME NEW S, NEW s \in Seq(S), NEW m \in Nat
    PROVE  LET k == Min({Len(s), m})
           IN  /\ SubSeq(s, 1, k) \in Seq(S)
               /\ ToSet(SubSeq(s, 1, k)) \subseteq ToSet(s)
<1> DEFINE k == Min({Len(s), m})
<1>1. Len(s) \in Nat /\ DOMAIN s = 1 .. Len(s)
  OBVIOUS
<1> DEFINE l == Len(s)
<1> HIDE DEF l
<1>2. k <= l /\ k \in Nat
  <2>1. l \in Int /\ m \in Int /\ l \in Nat
    BY <1>1 DEF l
  <2>2. Min({l, m}) <= l /\ Min({l, m}) \in {l, m}
    BY <2>1, MinOfTwo
  <2> QED
    BY <2>1, <2>2 DEF l
<1> HIDE DEF k
<1>3. /\ SubSeq(s, 1, k) \in Seq(S) /\ DOMAIN SubSeq(s, 1, k) = 1 .. k
      /\ \A i \in 1 .. k : SubSeq(s, 1, k)[i] = s[i]
  BY <1>1, <1>2 DEF l
<1>4. ASSUME NEW i \in 1 .. k
      PROVE  i \in DOMAIN s
  <2>1. l \in Nat /\ i \in 1 .. l
    BY <1>1, <1>2 DEF l
  <2> QED
    BY <1>1, <2>1 DEF l
<1>5. ToSet(SubSeq(s, 1, k)) \subseteq ToSet(s)
  BY <1>3, <1>4 DEF ToSet
<1> QED
  BY <1>3, <1>5 DEF k

\* The numbers of aliases that are bounded have a highest.
LEMMA HighestIsHigh ==
    ASSUME NEW A \in SUBSET (Kinds \X Nat), NEW n \in Nat, \A a \in A : a[2] <= n
    PROVE  Highest(A) \in Nat /\ \A a \in A : a[2] <= Highest(A)
<1> DEFINE N == {a[2] : a \in A} \cup {0}
<1>1. N \in SUBSET (0 .. n) /\ N # {}
  OBVIOUS
<1>2. Max(N) \in N /\ \A y \in N : Max(N) >= y
  <2> HIDE DEF N
  <2> QED
    BY <1>1, MaxIsGreatest
<1>3. N \subseteq Nat
  BY <1>1
<1> QED
  BY <1>2, <1>3 DEF Highest

-----------------------------------------------------------------------------
(* The registry *)

LEMMA ExtendsAll ==
    /\ \A b : Extends(b, b)
    /\ \A b, c, d : Extends(b, c) /\ Extends(c, d) => Extends(b, d)
    /\ \A b : Extends(Empty, b)
  BY DEF Extends, Empty

\* One more alias
LEMMA BindOne ==
    ASSUME NEW b, Sane(b), NEW a \in AliasT \ DOMAIN b, NEW x \in IdT, KindOf(a) \in KindsFor(x),
           x = Local \/ \A c \in DOMAIN b : b[c] # x
    PROVE  LET d == Also(b, [c \in {a} |-> x])
           IN  /\ Sane(d) /\ Extends(b, d)
               /\ DOMAIN d = DOMAIN b \cup {a} /\ d[a] = x
<1> DEFINE d == Also(b, [c \in {a} |-> x])
<1>1. PICK D \in SUBSET AliasT : b \in [D -> IdT]
  BY DEF Sane, BindingT
<1>2. d = [c \in D \cup {a} |-> IF c \in D THEN b[c] ELSE x]
  BY <1>1 DEF Also
<1>3. a \notin D
  BY <1>1
<1>4. d \in [D \cup {a} -> IdT] /\ D \cup {a} \in SUBSET AliasT
  BY <1>1, <1>2
<1>5. /\ DOMAIN d = D \cup {a} /\ d[a] = x
      /\ \A c \in D : d[c] = b[c] /\ c # a
  BY <1>1, <1>2, <1>3
<1> HIDE DEF d
<1>6. d \in BindingT
  BY <1>4 DEF BindingT
<1>7. \A c \in DOMAIN d : KindOf(c) \in KindsFor(d[c])
  BY <1>1, <1>5 DEF Sane
<1>8. OneAlias(d)
  BY <1>1, <1>5 DEF Sane, OneAlias
<1>9. \E n \in Nat : \A c \in DOMAIN d : c[2] <= n
  <2>1. PICK n \in Nat : \A c \in D : c[2] <= n
    BY <1>1 DEF Sane
  <2>2. \A c \in AliasT : c[2] \in Nat
    BY DEF AliasT, OWNER
  <2> DEFINE m == n + a[2]
  <2>3. m \in Nat /\ \A c \in D \cup {a} : c[2] <= m
    BY <1>1, <2>1, <2>2
  <2> QED
    BY <1>5, <2>3
<1>10. Extends(b, d)
  BY <1>1, <1>5 DEF Extends
<1> QED
  BY <1>1, <1>5, <1>6, <1>7, <1>8, <1>9, <1>10 DEF Sane, d

\* The three registries that something is started with
LEMMA EmptyIsSane == Sane(Empty)
<1>1. Empty \in [{} -> IdT]
  BY DEF Empty
<1>2. DOMAIN Empty = {}
  BY DEF Empty
<1>3. Empty \in BindingT
  BY <1>1 DEF BindingT
<1> QED
  BY <1>2, <1>3 DEF Sane, OneAlias

LEMMA NewIsAfter == NewRegistry \in After(Empty, {}) /\ NewRegistry \in After(Empty, IdT)
<1>1. NewRegistry \in RegistryT
  BY EmptyIsSane DEF NewRegistry, RegistryT, Sane
<1>2. Counts(NewRegistry)
  BY DEF NewRegistry, Counts, Empty
<1>3. NewRegistry.bound = Empty /\ NewRegistry.refused = {}
  BY DEF NewRegistry
<1> QED
  BY <1>1, <1>2, <1>3, EmptyIsSane, ExtendsAll DEF After

LEMMA RestoredIsAfter ==
    ASSUME NEW b, Sane(b)
    PROVE  Restored(b) \in After(b, {}) /\ Restored(b) \in After(Empty, IdT)
<1> DEFINE A(k) == {a \in Aliases(b, k) : b[a] # Local}
           r == Restored(b)
<1>1. PICK n \in Nat : \A a \in DOMAIN b : a[2] <= n
  BY DEF Sane
<1>2. DOMAIN b \subseteq AliasT
  BY DEF Sane, BindingT
<1>3. ASSUME NEW k \in Kinds
      PROVE  /\ Highest(A(k)) \in Nat
             /\ \A a \in A(k) : a[2] <= Highest(A(k))
  <2>1. A(k) \in SUBSET (Kinds \X Nat)
    <3>1. OWNER[1] \notin Kinds
      BY DEF OWNER, Kinds
    <3> QED
      BY <1>2, <1>3, <3>1 DEF AliasT, Aliases
  <2>2. \A a \in A(k) : a[2] <= n
    BY <1>1 DEF Aliases
  <2> HIDE DEF A
  <2> QED
    BY <1>1, <2>1, <2>2, HighestIsHigh
<1>4. /\ r.bound = b /\ r.refused = {} /\ r \in RegistryT
      /\ \A k \in Kinds : r.counter[k] = Highest(A(k))
  <2>1. r = [bound |-> b, counter |-> [k \in Kinds |-> Highest(A(k))], refused |-> {}]
    BY DEF Restored
  <2> HIDE DEF A, r
  <2>2. [k \in Kinds |-> Highest(A(k))] \in [Kinds -> Nat]
    BY <1>3
  <2> QED
    BY <2>1, <2>2 DEF Sane, RegistryT
<1>5. Counts(r)
  <2>1. SUFFICES ASSUME NEW a \in DOMAIN b \ {OWNER}, a[1] # "CONTEXT"
                 PROVE  a[2] <= r.counter[a[1]]
    BY <1>4 DEF Counts
  <2>2. a[1] \in Kinds /\ KindOf(a) = a[1]
    BY <1>2, <2>1 DEF AliasT, KindOf
  <2>3. b[a] # Local
    <3>1. SUFFICES ASSUME b[a] = Local
                   PROVE  FALSE
      OBVIOUS
    <3>2. KindsFor(b[a]) = {"CONTEXT"}
      BY <3>1, PreparationAssumption DEF KindsFor, Things
    <3> QED
      BY <2>1, <2>2, <3>2 DEF Sane
  <2>4. a \in A(a[1])
    BY <2>1, <2>3 DEF Aliases
  <2> HIDE DEF A, r
  <2> QED
    BY <1>3, <1>4, <2>2, <2>4
<1> HIDE DEF r, A
<1> QED
  BY <1>4, <1>5, ExtendsAll DEF After, r

\* Whatever was registered, some alias names it.
LEMMA RefOfNames ==
    ASSUME NEW r, NEW x, Known(r, x)
    PROVE  RefOf(r, x) \in DOMAIN r.bound /\ r.bound[RefOf(r, x)] = x
  BY DEF Known, RefOf

LEMMA AfterType ==
    ASSUME NEW b, NEW R, NEW r \in After(b, R)
    PROVE  /\ r \in RegistryT /\ Sane(r.bound) /\ Counts(r) /\ Extends(b, r.bound)
           /\ r.refused \subseteq R /\ r.bound \in BindingT /\ r.counter \in [Kinds -> Nat]
           /\ r.refused \in SUBSET IdT
           /\ r = [bound |-> r.bound, counter |-> r.counter, refused |-> r.refused]
           /\ DOMAIN r.bound \subseteq AliasT
           /\ \A a \in DOMAIN r.bound : r.bound[a] \in IdT /\ KindOf(a) \in KindsFor(r.bound[a])
<1>1. r \in RegistryT /\ Sane(r.bound) /\ Counts(r) /\ Extends(b, r.bound) /\ r.refused \subseteq R
  BY DEF After
<1>2. /\ r.bound \in BindingT /\ r.counter \in [Kinds -> Nat] /\ r.refused \in SUBSET IdT
      /\ r = [bound |-> r.bound, counter |-> r.counter, refused |-> r.refused]
  BY <1>1 DEF RegistryT
<1>3. PICK D \in SUBSET AliasT : r.bound \in [D -> IdT]
  BY <1>2 DEF BindingT
<1> QED
  BY <1>1, <1>2, <1>3 DEF Sane

\* A registry that refuses something that may be refused
LEMMA RefuseIsAfter ==
    ASSUME NEW b, NEW R, NEW r \in After(b, R), NEW x \in R \cap IdT
    PROVE  Refuse(r, x) \in After(b, R) /\ Refuse(r, x).refused # {} /\ Refuse(r, x).bound = r.bound
<1> DEFINE q == Refuse(r, x)
<1>1. q = [bound |-> r.bound, counter |-> r.counter, refused |-> {x}]
  <2>1. r \in RegistryT
    BY AfterType
  <2> QED
    BY <2>1 DEF Refuse, RegistryT
<1> HIDE DEF q
<1>2. q \in RegistryT /\ q.bound = r.bound /\ q.counter = r.counter /\ q.refused = {x}
  BY <1>1, AfterType DEF RegistryT
<1>3. Counts(q)
  BY <1>2, AfterType DEF Counts
<1> QED
  BY <1>2, <1>3, AfterType DEF After, q

\* An object that is registered is bound afterwards, and what was bound stays so.
\* Only what may be known by an alias of another kind is refused.
LEMMA RegisterIsAfter ==
    ASSUME NEW b, NEW R, NEW r \in After(b, R), NEW x \in IdT \ {Local},
           NEW kind \in KindsFor(x), x \in Logs /\ Known(r, x) => x \in R
    PROVE  LET q == RegisterExisting(r, x, kind)
           IN  /\ q \in After(b, R) /\ Extends(r.bound, q.bound)
               /\ q.refused # {} \/ Known(q, x)
               /\ r.refused = {} /\ ~Known(r, x) => q.refused = {}
<1> DEFINE q == RegisterExisting(r, x, kind)
           alias == <<kind, r.counter[kind] + 1>>
           c == [r EXCEPT !.counter[kind] = @ + 1]
           p == Bind(c, alias, x)
<1>1. kind \in Kinds /\ kind # "CONTEXT"
  BY PreparationAssumption DEF KindsFor, Kinds
<1>2. alias \in AliasT /\ alias # OWNER /\ KindOf(alias) = kind /\ alias[1] = kind
      /\ alias[2] = r.counter[kind] + 1 /\ r.counter[kind] \in Nat
  <2>1. r.counter[kind] \in Nat
    BY <1>1, AfterType
  <2>2. alias # OWNER
    BY <1>1 DEF OWNER, Kinds
  <2> QED
    BY <1>1, <2>1, <2>2 DEF AliasT, KindOf
<1>3. alias \notin DOMAIN r.bound
  <2>1. SUFFICES ASSUME alias \in DOMAIN r.bound
                 PROVE  FALSE
    OBVIOUS
  <2>2. alias[2] <= r.counter[alias[1]]
    BY <1>1, <1>2, <2>1, AfterType DEF Counts
  <2> QED
    BY <1>2, <2>2
<1>4. CASE r.refused # {}
  <2>1. q = r
    BY <1>4 DEF RegisterExisting
  <2> QED
    BY <1>4, <2>1, ExtendsAll
<1>5. CASE r.refused = {} /\ Known(r, x)
  <2>1. RefOf(r, x) \in DOMAIN r.bound /\ r.bound[RefOf(r, x)] = x
    BY <1>5, RefOfNames
  <2>2. KindOf(RefOf(r, x)) \in KindsFor(x)
    BY <2>1, AfterType
  <2>3. CASE KindOf(RefOf(r, x)) = kind
    <3>1. q = r
      BY <1>5, <2>3 DEF RegisterExisting
    <3> QED
      BY <1>5, <3>1, ExtendsAll
  <2>4. CASE KindOf(RefOf(r, x)) # kind
    <3>1. q = Refuse(r, x)
      BY <1>5, <2>4 DEF RegisterExisting
    <3>2. x \in Logs
      BY <2>2, <2>4 DEF KindsFor
    <3>3. x \in R \cap IdT
      BY <1>5, <3>2
    <3> QED
      BY <1>5, <3>1, <3>3, RefuseIsAfter, ExtendsAll
  <2> QED
    BY <2>3, <2>4
<1>6. CASE r.refused = {} /\ ~Known(r, x)
  <2>1. q = p
    BY <1>3, <1>6 DEF RegisterExisting
  <2> DEFINE d == Also(r.bound, [a \in {alias} |-> x])
             counter == [r.counter EXCEPT ![kind] = @ + 1]
  <2>2. p = [bound |-> d, counter |-> counter, refused |-> {}]
    <3>1. r \in RegistryT
      BY AfterType
    <3> HIDE DEF alias
    <3>2. c = [bound |-> r.bound, counter |-> counter, refused |-> r.refused]
      BY <3>1 DEF RegistryT
    <3> HIDE DEF c, counter
    <3>3. p = [bound |-> Also(c.bound, [a \in {alias} |-> x]), counter |-> c.counter, refused |-> c.refused]
      BY <3>2 DEF Bind
    <3> QED
      BY <1>6, <3>2, <3>3
  <2>3. \A a \in DOMAIN r.bound : r.bound[a] # x
    BY <1>6 DEF Known
  <2>4. /\ Sane(d) /\ Extends(r.bound, d)
        /\ DOMAIN d = DOMAIN r.bound \cup {alias} /\ d[alias] = x
    <3>1. Sane(r.bound)
      BY AfterType
    <3>2. alias \in AliasT \ DOMAIN r.bound /\ x \in IdT /\ KindOf(alias) \in KindsFor(x)
      BY <1>2, <1>3
    <3> HIDE DEF alias
    <3> QED
      BY <2>3, <3>1, <3>2, BindOne
  <2>5. /\ counter \in [Kinds -> Nat] /\ counter[kind] = r.counter[kind] + 1
        /\ \A k \in Kinds : counter[k] >= r.counter[k] /\ r.counter[k] \in Nat
    BY <1>1, <1>2, AfterType
  <2> HIDE DEF p, d, counter, alias, q
  <2>6. p \in RegistryT /\ p.bound = d /\ p.counter = counter /\ p.refused = {}
    BY <2>2, <2>4, <2>5 DEF RegistryT, Sane
  <2>7. Counts(p)
    <3>1. SUFFICES ASSUME NEW a \in DOMAIN d \ {OWNER}, a[1] # "CONTEXT"
                   PROVE  a[2] <= counter[a[1]]
      BY <2>6 DEF Counts
    <3>2. CASE a = alias
      BY <1>2, <2>5, <3>2
    <3>3. CASE a \in DOMAIN r.bound
      <4>1. a[2] <= r.counter[a[1]] /\ a[1] \in Kinds /\ a[2] \in Nat
        BY <3>1, <3>3, AfterType DEF Counts, AliasT
      <4> QED
        BY <2>5, <4>1
    <3> QED
      BY <2>4, <3>2, <3>3
  <2>8. Extends(b, d)
    BY <2>4, AfterType, ExtendsAll
  <2>9. Known(p, x)
    BY <2>4, <2>6 DEF Known
  <2>10. p \in After(b, R)
    BY <2>4, <2>6, <2>7, <2>8 DEF After
  <2> QED
    BY <2>1, <2>4, <2>6, <2>9, <2>10 DEF q
<1> HIDE DEF q
<1> QED
  BY <1>4, <1>5, <1>6 DEF q

\* A local object
LEMMA RegisterLocalIsAfter ==
    ASSUME NEW b, NEW R, NEW r \in After(b, R)
    PROVE  RegisterLocal(r, "CONTEXT") \in After(b, R)
<1> DEFINE q == RegisterLocal(r, "CONTEXT")
           A == Aliases(r.bound, "CONTEXT")
           alias == <<"CONTEXT", Highest(A) + 1>>
           d == Also(r.bound, [a \in {alias} |-> Local])
<1>1. CASE r.refused # {}
  BY <1>1 DEF RegisterLocal
<1>2. CASE r.refused = {}
  <2>1. PICK n \in Nat : \A a \in DOMAIN r.bound : a[2] <= n
    BY AfterType DEF Sane
  <2>2. A \in SUBSET (Kinds \X Nat) /\ \A a \in A : a[2] <= n
    <3>1. OWNER[1] # "CONTEXT"
      BY DEF OWNER
    <3> QED
      BY <2>1, <3>1, AfterType DEF AliasT, Aliases
  <2>3. Highest(A) \in Nat /\ \A a \in A : a[2] <= Highest(A)
    <3> HIDE DEF A
    <3> QED
      BY <2>1, <2>2, HighestIsHigh
  <2>4. alias \in AliasT /\ KindOf(alias) = "CONTEXT" /\ alias \notin DOMAIN r.bound
        /\ alias[1] = "CONTEXT"
    <3>1. alias \in AliasT /\ alias[1] = "CONTEXT" /\ alias[2] = Highest(A) + 1
      BY <2>3 DEF AliasT, Kinds
    <3>2. KindOf(alias) = "CONTEXT"
      BY <3>1 DEF KindOf, OWNER
    <3>3. alias \notin DOMAIN r.bound
      <4>1. SUFFICES ASSUME alias \in A
                     PROVE  FALSE
        BY <3>1 DEF Aliases
      <4> HIDE DEF A
      <4> QED
        BY <2>3, <3>1, <4>1
    <3> QED
      BY <3>1, <3>2, <3>3
  <2>5. q = [bound |-> d, counter |-> r.counter, refused |-> r.refused]
    <3>1. q = Bind(r, alias, Local)
      BY <1>2 DEF RegisterLocal
    <3> HIDE DEF alias, q
    <3> QED
      BY <3>1, AfterType DEF Bind
  <2>6. Local \in IdT /\ "CONTEXT" \in KindsFor(Local)
    BY PreparationAssumption DEF IdT, KindsFor, Things
  <2> HIDE DEF A, alias
  <2>7. /\ Sane(d) /\ Extends(r.bound, d)
        /\ DOMAIN d = DOMAIN r.bound \cup {alias} /\ d[alias] = Local
    <3>1. Sane(r.bound)
      BY AfterType
    <3>2. alias \in AliasT \ DOMAIN r.bound /\ Local \in IdT /\ KindOf(alias) \in KindsFor(Local)
      BY <2>4, <2>6
    <3> QED
      BY <3>1, <3>2, BindOne
  <2> HIDE DEF d, q
  <2>8. q \in RegistryT /\ q.bound = d /\ q.counter = r.counter /\ q.refused = r.refused
    BY <2>5, <2>7, AfterType DEF RegistryT, Sane
  <2>9. Counts(q)
    <3>1. SUFFICES ASSUME NEW a \in DOMAIN d \ {OWNER}, a[1] # "CONTEXT"
                   PROVE  a[2] <= r.counter[a[1]]
      BY <2>8 DEF Counts
    <3>2. a # alias
      BY <2>4, <3>1
    <3>3. d[a] = r.bound[a] /\ a \in DOMAIN r.bound
      BY <2>7, <3>1, <3>2 DEF Extends
    <3> QED
      BY <3>1, <3>3, AfterType DEF Counts
  <2>10. Extends(b, d)
    BY <2>7, AfterType, ExtendsAll
  <2> QED
    BY <2>7, <2>8, <2>9, <2>10, AfterType DEF After, q
<1> QED
  BY <1>1, <1>2

LEMMA OwnerIsAfter ==
    RegisterOwner(NewRegistry) \in After(Empty, IdT)
<1> DEFINE q == RegisterOwner(NewRegistry)
           d == Also(Empty, [a \in {OWNER} |-> Owner])
<1>1. q = [bound |-> d, counter |-> NewRegistry.counter, refused |-> {}]
  BY DEF RegisterOwner, Bind, NewRegistry
<1>2. OWNER \in AliasT \ DOMAIN Empty /\ Owner \in IdT /\ KindOf(OWNER) \in KindsFor(Owner)
  BY DEF AliasT, IdT, Empty, Things, KindOf, KindsFor
<1>3. \A c \in DOMAIN Empty : Empty[c] # Owner
  BY DEF Empty
<1>4. Sane(d) /\ Extends(Empty, d) /\ DOMAIN d = {OWNER}
  <2>1. DOMAIN Empty = {}
    BY DEF Empty
  <2> QED
    <3>1. /\ Sane(d) /\ Extends(Empty, d)
          /\ DOMAIN d = DOMAIN Empty \cup {OWNER} /\ d[OWNER] = Owner
      <4> HIDE DEF d
      <4> QED
        BY <1>2, <1>3, EmptyIsSane, BindOne DEF d
    <3> QED
      BY <2>1, <3>1
<1> HIDE DEF q, d
<1>5. q \in RegistryT /\ q.bound = d /\ q.refused = {}
  BY <1>1, <1>4 DEF RegistryT, Sane, NewRegistry
<1>6. Counts(q)
  BY <1>4, <1>5 DEF Counts
<1> QED
  BY <1>4, <1>5, <1>6 DEF After, q

\* Ends of relationships
LEMMA NodeRefIsAfter ==
    ASSUME NEW b, NEW R, NEW r \in After(b, R), NEW x \in Things \cup {None}
    PROVE  NodeRef(r, x) \in After(b, R) /\ Extends(r.bound, NodeRef(r, x).bound)
<1>1. x \in IdT \ {Local} /\ "NODE" \in KindsFor(x)
  BY PreparationAssumption DEF IdT, KindsFor, Things
<1>2. CASE Known(r, x)
  BY <1>2, ExtendsAll DEF NodeRef
<1>3. CASE ~Known(r, x)
  BY <1>1, <1>3, RegisterIsAfter DEF NodeRef
<1> QED
  BY <1>2, <1>3

LEMMA LinkType ==
    ASSUME NEW l \in ToSet(Links)
    PROVE  /\ l.from \in Things /\ l.to \in Things
           /\ l.id \in IdT \ {Local} /\ l.id \notin Things \cup {None, Local}
           /\ KindsFor(l.id) = {"REL"}
<1>1. l \in [id : STRING, from : Things, to : Things]
  <2> DEFINE T == [id : STRING, from : Things, to : Things]
  <2>1. Links \in Seq(T)
    BY PreparationAssumption
  <2> HIDE DEF T
  <2>2. ToSet(Links) \subseteq T
    BY <2>1, ElementsOfSeq
  <2> QED
    BY <2>2 DEF T
<1>2. l.id \in LinkIds
  BY DEF LinkIds
<1>3. l.id \notin Things \cup {None, Local}
  BY <1>2, PreparationAssumption
<1> QED
  BY <1>1, <1>2, <1>3 DEF IdT, KindsFor, Things

LEMMA LinkIsAfter ==
    ASSUME NEW b, NEW R, NEW r \in After(b, R), NEW l \in ToSet(Links)
    PROVE  LET q == RegisterExisting(r, l.id, "REL")
           IN  q \in After(b, R) /\ Extends(r.bound, q.bound)
<1>1. l.id \in IdT \ {Local} /\ "REL" \in KindsFor(l.id) /\ l.id \notin Logs
  BY LinkType DEF Things
<1> QED
  BY <1>1, RegisterIsAfter

LEMMA ViewedIsAfter ==
    ASSUME NEW b, NEW R, NEW r \in After(b, R), NEW l \in ToSet(Links)
    PROVE  RegisterViewed(r, l) \in After(b, R)
<1> DEFINE p == NodeRef(r, l.from)
           q == NodeRef(p, l.to)
<1>1. p \in After(b, R)
  BY NodeRefIsAfter, LinkType
<1> HIDE DEF p
<1>2. q \in After(b, R)
  BY <1>1, NodeRefIsAfter, LinkType
<1> HIDE DEF q
<1> QED
  BY <1>2, LinkIsAfter DEF RegisterViewed, p, q

LEMMA SnippetIsAfter ==
    ASSUME NEW b, NEW R, NEW r \in After(b, R), NEW i
    PROVE  RegisterSnippet(r, i) \in After(b, R)
  BY RegisterLocalIsAfter, NodeRefIsAfter DEF RegisterSnippet

\* The registrations of a sequence of objects, of relationships, and of snippets.  Each
\* fold is a function on sets of positions, and a registry stays what it is at each.
LEMMA RegisterAllIsAfter ==
    ASSUME NEW b, NEW R, NEW r \in After(b, R), NEW X, NEW s \in Seq(X), NEW kind,
           \A i \in DOMAIN s : /\ s[i] \in IdT \ {Local} /\ kind \in KindsFor(s[i])
                               /\ s[i] \in Logs => s[i] \in R
    PROVE  LET q == RegisterAll(r, s, kind)
           IN  /\ q \in After(b, R) /\ Extends(r.bound, q.bound)
               /\ \A i \in DOMAIN s : q.refused # {} \/ Known(q, s[i])
<1> DEFINE n == Len(s)
           G == {d \in After(b, R) : Extends(r.bound, d.bound)}
           F == [p \in G \X (1 .. n) |-> RegisterExisting(p[1], s[p[2]], kind)]
           iter == CHOOSE iter : iter = [S \in SUBSET DOMAIN s |->
                           IF S = {} THEN r
                           ELSE RegisterExisting(iter[S \ {Max(S)}], s[Max(S)], kind)]
<1>1. RegisterAll(r, s, kind) = iter[DOMAIN s]
  BY Zenon DEF RegisterAll, FoldLeft, MapThenFoldSet
<1>2. n \in Nat /\ DOMAIN s = 1 .. n 
  OBVIOUS
<1>3. r \in G
  BY ExtendsAll
<1>4. ASSUME NEW d \in G, NEW i \in 1 .. n
      PROVE  RegisterExisting(d, s[i], kind) \in G
  <2>1. d \in After(b, R) /\ Extends(r.bound, d.bound)
    OBVIOUS
  <2>2. /\ s[i] \in IdT \ {Local} /\ kind \in KindsFor(s[i])
        /\ s[i] \in Logs => s[i] \in R
    BY <1>2
  <2>3. /\ RegisterExisting(d, s[i], kind) \in After(b, R)
        /\ Extends(d.bound, RegisterExisting(d, s[i], kind).bound)
    BY <2>1, <2>2, RegisterIsAfter
  <2> QED
    BY <2>1, <2>3, ExtendsAll
<1> HIDE DEF G
<1>5. F \in [G \X (1 .. n) -> G]
  BY <1>4
<1>6. \A d \in G, i \in 1 .. n : F[<<d, i>>] = RegisterExisting(d, s[i], kind)
  OBVIOUS
<1> HIDE DEF F
<1>7. PICK f \in [SUBSET (1 .. n) -> G] : FoldOf(f, n, r, F)
  <2>1. n \in Nat
    BY <1>2
  <2> HIDE DEF n
  <2> QED
    BY <1>3, <1>5, <2>1, FoldExists
<1>8. ASSUME NEW T \in SUBSET (1 .. n), T # {}
      PROVE  /\ Max(T) \in 1 .. n
             /\ T \ {Max(T)} \in SUBSET (1 .. n)
  <2> HIDE DEF n
  <2> QED
    BY <1>2, <1>8, LastPosition
<1>9. f = [S \in SUBSET DOMAIN s |->
             IF S = {} THEN r ELSE RegisterExisting(f[S \ {Max(S)}], s[Max(S)], kind)]
  <2>1. ASSUME NEW T \in SUBSET (1 .. n)
        PROVE  f[T] = IF T = {} THEN r
                      ELSE RegisterExisting(f[T \ {Max(T)}], s[Max(T)], kind)
    <3>1. CASE T = {}
      BY <1>7, <3>1 DEF FoldOf
    <3>2. CASE T # {}
      <4>1. f[T \ {Max(T)}] \in G /\ Max(T) \in 1 .. n
        BY <1>8, <3>2
      <4>2. f[T] = F[<<f[T \ {Max(T)}], Max(T)>>]
        BY <1>7, <3>2 DEF FoldOf
      <4> QED
        BY <1>6, <3>2, <4>1, <4>2
    <3> QED
      BY <3>1, <3>2
  <2> QED
    BY <1>2, <2>1
<1>10. iter = [S \in SUBSET DOMAIN s |->
             IF S = {} THEN r ELSE RegisterExisting(iter[S \ {Max(S)}], s[Max(S)], kind)]
  <2> DEFINE Is(h) == h = [S \in SUBSET DOMAIN s |->
             IF S = {} THEN r ELSE RegisterExisting(h[S \ {Max(S)}], s[Max(S)], kind)]
  <2>1. Is(f)
    BY <1>9
  <2>2. iter = CHOOSE h : Is(h)
    BY Zenon
  <2> HIDE DEF Is, iter
  <2>3. Is(iter)
    BY <2>1, <2>2
  <2> QED
    BY <2>3 DEF Is
<1> HIDE DEF iter
<1>11. iter[{}] = r
  BY <1>10
<1> DEFINE Has(q, i) == q.refused # {} \/ Known(q, s[i])
           H == {w \in (SUBSET (1 .. n)) \X G : \A i \in w[1] : Has(w[2], i)}
           g == [T \in SUBSET (1 .. n) |-> <<T, iter[T]>>]
<1>12. ASSUME NEW T \in SUBSET (1 .. n), T # {}, g[T \ {Max(T)}] \in H
       PROVE  g[T] \in H
  <2> DEFINE m == Max(T)
             U == T \ {Max(T)}
             d == iter[U]
             q == iter[T]
  <2>1. m \in 1 .. n /\ U \in SUBSET (1 .. n)
    BY <1>8, <1>12
  <2>2. g[U] = <<U, d>> /\ g[T] = <<T, q>>
    BY <2>1
  <2>3. d \in G /\ \A i \in U : Has(d, i)
    BY <1>12, <2>2
  <2>4. q = RegisterExisting(d, s[m], kind)
    BY <1>2, <1>10, <1>12, <2>1
  <2> HIDE DEF m, U, d, q
  <2>5. /\ q \in G /\ Extends(d.bound, q.bound) /\ Has(q, m)
        /\ d.refused # {} => q.refused # {}
    <3>1. q \in G
      BY <1>4, <2>1, <2>3, <2>4
    <3>2. d \in After(b, R) /\ s[m] \in IdT \ {Local} /\ kind \in KindsFor(s[m])
          /\ (s[m] \in Logs => s[m] \in R)
      BY <1>2, <2>1, <2>3 DEF G
    <3>3. Extends(d.bound, q.bound) /\ Has(q, m)
      BY <2>4, <3>2, RegisterIsAfter
    <3>4. d.refused # {} => q = d
      BY <2>4 DEF RegisterExisting
    <3> QED
      BY <3>1, <3>3, <3>4
  <2>6. ASSUME NEW i \in T
        PROVE  Has(q, i)
    <3>1. CASE i = m
      BY <2>5, <3>1
    <3>2. CASE i \in U
      BY <2>3, <2>5, <3>2 DEF Known, Extends
    <3> QED
      BY <3>1, <3>2 DEF U, m
  <2> QED
    BY <2>2, <2>5, <2>6
<1>13. g[{}] \in H
  BY <1>3, <1>11
<1>14. \A T \in SUBSET (1 .. n) : g[T] \in H
  <2> HIDE DEF n, H, g
  <2> QED
    BY <1>2, <1>12, <1>13, FoldStays
<1>15. DOMAIN s \in SUBSET (1 .. n) /\ g[DOMAIN s] = <<DOMAIN s, iter[DOMAIN s]>>
  BY <1>2
<1>16. iter[DOMAIN s] \in G /\ \A i \in DOMAIN s : Has(iter[DOMAIN s], i)
  <2> HIDE DEF g, Has, n
  <2> QED
    BY <1>14, <1>15
<1> QED
  BY <1>1, <1>16 DEF G

LEMMA AllViewedIsAfter ==
    ASSUME NEW b, NEW R, NEW r \in After(b, R), NEW s \in Seq(ToSet(Links))
    PROVE  FoldLeft(RegisterViewed, r, s) \in After(b, R)
<1> DEFINE n == Len(s)
           G == After(b, R)
           F == [p \in G \X (1 .. n) |-> RegisterViewed(p[1], s[p[2]])]
           iter == CHOOSE iter : iter = [S \in SUBSET DOMAIN s |->
                           IF S = {} THEN r
                           ELSE RegisterViewed(iter[S \ {Max(S)}], s[Max(S)])]
<1>1. FoldLeft(RegisterViewed, r, s) = iter[DOMAIN s]
  BY Zenon DEF FoldLeft, MapThenFoldSet
<1>2. n \in Nat /\ DOMAIN s = 1 .. n /\ \A i \in 1 .. n : s[i] \in ToSet(Links)
  OBVIOUS
<1>3. r \in G
  OBVIOUS
<1>4. ASSUME NEW d \in G, NEW i \in 1 .. n
      PROVE  RegisterViewed(d, s[i]) \in G
  BY <1>2, ViewedIsAfter
<1> HIDE DEF G
<1>5. F \in [G \X (1 .. n) -> G]
  BY <1>4
<1>6. \A d \in G, i \in 1 .. n : F[<<d, i>>] = RegisterViewed(d, s[i])
  OBVIOUS
<1> HIDE DEF F
<1>7. PICK f \in [SUBSET (1 .. n) -> G] : FoldOf(f, n, r, F)
  <2>1. n \in Nat
    BY <1>2
  <2> HIDE DEF n
  <2> QED
    BY <1>3, <1>5, <2>1, FoldExists
<1>8. ASSUME NEW T \in SUBSET (1 .. n), T # {}
      PROVE  /\ Max(T) \in 1 .. n
             /\ T \ {Max(T)} \in SUBSET (1 .. n)
  <2> HIDE DEF n
  <2> QED
    BY <1>2, <1>8, LastPosition
<1>9. f = [S \in SUBSET DOMAIN s |->
             IF S = {} THEN r ELSE RegisterViewed(f[S \ {Max(S)}], s[Max(S)])]
  <2>1. ASSUME NEW T \in SUBSET (1 .. n)
        PROVE  f[T] = IF T = {} THEN r
                      ELSE RegisterViewed(f[T \ {Max(T)}], s[Max(T)])
    <3>1. CASE T = {}
      BY <1>7, <3>1 DEF FoldOf
    <3>2. CASE T # {}
      <4>1. f[T \ {Max(T)}] \in G /\ Max(T) \in 1 .. n
        BY <1>8, <3>2
      <4>2. f[T] = F[<<f[T \ {Max(T)}], Max(T)>>]
        BY <1>7, <3>2 DEF FoldOf
      <4> QED
        BY <1>6, <3>2, <4>1, <4>2
    <3> QED
      BY <3>1, <3>2
  <2> QED
    BY <1>2, <2>1
<1>10. iter = [S \in SUBSET DOMAIN s |->
             IF S = {} THEN r ELSE RegisterViewed(iter[S \ {Max(S)}], s[Max(S)])]
  <2> DEFINE Is(h) == h = [S \in SUBSET DOMAIN s |->
             IF S = {} THEN r ELSE RegisterViewed(h[S \ {Max(S)}], s[Max(S)])]
  <2>1. Is(f)
    BY <1>9
  <2>2. iter = CHOOSE h : Is(h)
    BY Zenon
  <2> HIDE DEF Is, iter
  <2>3. Is(iter)
    BY <2>1, <2>2
  <2> QED
    BY <2>3 DEF Is
<1> HIDE DEF iter
<1>11. iter[{}] = r
  BY <1>10
<1>12. ASSUME NEW T \in SUBSET (1 .. n), T # {}, iter[T \ {Max(T)}] \in G
       PROVE  iter[T] \in G
  <2>1. iter[T] = RegisterViewed(iter[T \ {Max(T)}], s[Max(T)])
    BY <1>2, <1>8, <1>10, <1>12
  <2> QED
    BY <1>4, <1>8, <1>12, <2>1
<1>13. \A T \in SUBSET (1 .. n) : iter[T] \in G
  <2> HIDE DEF n
  <2> QED
    BY <1>2, <1>3, <1>11, <1>12, FoldStays
<1>14. iter[DOMAIN s] \in G
  BY <1>2, <1>13
<1> QED
  BY <1>1, <1>14 DEF G

LEMMA AllSnippetsIsAfter ==
    ASSUME NEW b, NEW R, NEW r \in After(b, R), NEW X, NEW s \in Seq(X)
    PROVE  FoldLeft(RegisterSnippet, r, s) \in After(b, R)
<1> DEFINE n == Len(s)
           G == After(b, R)
           F == [p \in G \X (1 .. n) |-> RegisterSnippet(p[1], s[p[2]])]
           iter == CHOOSE iter : iter = [S \in SUBSET DOMAIN s |->
                           IF S = {} THEN r
                           ELSE RegisterSnippet(iter[S \ {Max(S)}], s[Max(S)])]
<1>1. FoldLeft(RegisterSnippet, r, s) = iter[DOMAIN s]
  BY Zenon DEF FoldLeft, MapThenFoldSet
<1>2. n \in Nat /\ DOMAIN s = 1 .. n 
  OBVIOUS
<1>3. r \in G
  OBVIOUS
<1>4. ASSUME NEW d \in G, NEW i \in 1 .. n
      PROVE  RegisterSnippet(d, s[i]) \in G
  BY <1>2, SnippetIsAfter
<1> HIDE DEF G
<1>5. F \in [G \X (1 .. n) -> G]
  BY <1>4
<1>6. \A d \in G, i \in 1 .. n : F[<<d, i>>] = RegisterSnippet(d, s[i])
  OBVIOUS
<1> HIDE DEF F
<1>7. PICK f \in [SUBSET (1 .. n) -> G] : FoldOf(f, n, r, F)
  <2>1. n \in Nat
    BY <1>2
  <2> HIDE DEF n
  <2> QED
    BY <1>3, <1>5, <2>1, FoldExists
<1>8. ASSUME NEW T \in SUBSET (1 .. n), T # {}
      PROVE  /\ Max(T) \in 1 .. n
             /\ T \ {Max(T)} \in SUBSET (1 .. n)
  <2> HIDE DEF n
  <2> QED
    BY <1>2, <1>8, LastPosition
<1>9. f = [S \in SUBSET DOMAIN s |->
             IF S = {} THEN r ELSE RegisterSnippet(f[S \ {Max(S)}], s[Max(S)])]
  <2>1. ASSUME NEW T \in SUBSET (1 .. n)
        PROVE  f[T] = IF T = {} THEN r
                      ELSE RegisterSnippet(f[T \ {Max(T)}], s[Max(T)])
    <3>1. CASE T = {}
      BY <1>7, <3>1 DEF FoldOf
    <3>2. CASE T # {}
      <4>1. f[T \ {Max(T)}] \in G /\ Max(T) \in 1 .. n
        BY <1>8, <3>2
      <4>2. f[T] = F[<<f[T \ {Max(T)}], Max(T)>>]
        BY <1>7, <3>2 DEF FoldOf
      <4> QED
        BY <1>6, <3>2, <4>1, <4>2
    <3> QED
      BY <3>1, <3>2
  <2> QED
    BY <1>2, <2>1
<1>10. iter = [S \in SUBSET DOMAIN s |->
             IF S = {} THEN r ELSE RegisterSnippet(iter[S \ {Max(S)}], s[Max(S)])]
  <2> DEFINE Is(h) == h = [S \in SUBSET DOMAIN s |->
             IF S = {} THEN r ELSE RegisterSnippet(h[S \ {Max(S)}], s[Max(S)])]
  <2>1. Is(f)
    BY <1>9
  <2>2. iter = CHOOSE h : Is(h)
    BY Zenon
  <2> HIDE DEF Is, iter
  <2>3. Is(iter)
    BY <2>1, <2>2
  <2> QED
    BY <2>3 DEF Is
<1> HIDE DEF iter
<1>11. iter[{}] = r
  BY <1>10
<1>12. ASSUME NEW T \in SUBSET (1 .. n), T # {}, iter[T \ {Max(T)}] \in G
       PROVE  iter[T] \in G
  <2>1. iter[T] = RegisterSnippet(iter[T \ {Max(T)}], s[Max(T)])
    BY <1>2, <1>8, <1>10, <1>12
  <2> QED
    BY <1>4, <1>8, <1>12, <2>1
<1>13. \A T \in SUBSET (1 .. n) : iter[T] \in G
  <2> HIDE DEF n
  <2> QED
    BY <1>2, <1>3, <1>11, <1>12, FoldStays
<1>14. iter[DOMAIN s] \in G
  BY <1>2, <1>13
<1> QED
  BY <1>1, <1>14 DEF G

\* What may be refused
LEMMA AfterSome ==
    ASSUME NEW b, NEW R, NEW r \in After(b, R)
    PROVE  /\ r \in After(Empty, IdT)
           /\ \A Q : r.refused \subseteq Q => r \in After(b, Q)
  BY AfterType, ExtendsAll DEF After

-----------------------------------------------------------------------------
(* The reads of one lookup *)

LEMMA FoundMatches ==
    ASSUME NEW ref \in Candidate
    PROVE  /\ Found(ref) \in Seq(Nodes)
           /\ ToSet(Found(ref)) \subseteq ToSet(Matching[ref]) \ {Owner}
           /\ \A i \in DOMAIN Found(ref) : Found(ref)[i] \in ToSet(Found(ref)) \cap Nodes
<1> DEFINE T == {x \in Things \ {Owner} : Active(x)}
           matched == Keeping(Matching[ref], T)
<1>1. Matching[ref] \in Seq(Nodes \cup {Owner})
  BY PreparationAssumption
<1>2. (Nodes \cup {Owner}) \cap T \subseteq Nodes
  OBVIOUS
<1>3. /\ matched \in Seq((Nodes \cup {Owner}) \cap T)
      /\ ToSet(matched) = ToSet(Matching[ref]) \cap T
  <2> HIDE DEF T
  <2> QED
    BY <1>1, KeepingElements
<1>4. matched \in Seq(Nodes)
  <2> HIDE DEF T, matched
  <2> QED
    BY <1>2, <1>3
<1>5. Found(ref) = SubSeq(matched, 1, Min({Len(matched), MaxCandidates}))
  BY DEF Found
<1>6. ToSet(matched) \subseteq ToSet(Matching[ref]) \ {Owner}
  BY <1>3
<1> HIDE DEF matched
<1>7. Found(ref) \in Seq(Nodes) /\ ToSet(Found(ref)) \subseteq ToSet(matched)
  <2>1. MaxCandidates \in Nat
    BY PreparationAssumption
  <2> QED
    BY <1>4, <1>5, <2>1, PrefixElements
<1>8. \A i \in DOMAIN Found(ref) : Found(ref)[i] \in ToSet(Found(ref)) \cap Nodes
  BY <1>7 DEF ToSet
<1> QED
  BY <1>6, <1>7, <1>8

LEMMA RegisteredIsAfter ==
    ASSUME registry \in After(saved, {}), NEW ref \in Candidate
    PROVE  LET r == Registered(ref)
           IN  /\ r \in After(saved, {}) /\ r.refused = {} /\ Extends(registry.bound, r.bound)
               /\ \A i \in DOMAIN Found(ref) : LET a == RefOf(r, Found(ref)[i])
                                               IN  a \in DOMAIN r.bound /\ r.bound[a] = Found(ref)[i]
<1> DEFINE s == Found(ref)
           r == RegisterAll(registry, s, "NODE")
<1>1. s \in Seq(Nodes) /\ \A i \in DOMAIN s : s[i] \in Nodes
  BY FoundMatches
<1>2. \A x \in Nodes : x \in IdT \ {Local} /\ "NODE" \in KindsFor(x) /\ x \notin Logs
  BY PreparationAssumption DEF IdT, KindsFor, Things
<1> HIDE DEF s
<1>3. /\ r \in After(saved, {}) /\ Extends(registry.bound, r.bound)
      /\ \A i \in DOMAIN s : r.refused # {} \/ Known(r, s[i])
  BY <1>1, <1>2, RegisterAllIsAfter
<1> HIDE DEF r
<1>4. r.refused = {}
  BY <1>3, AfterType
<1> QED
  BY <1>3, <1>4, RefOfNames DEF Registered, r, s

LEMMA DescribedIsAfter ==
    ASSUME registry \in After(saved, {}), NEW l \in ToSet(Links)
    PROVE  LET r == Described(l)
           IN  r \in After(saved, Logs) /\ Extends(registry.bound, r.bound)
<1> DEFINE other == IF l.from = Offered THEN l.to ELSE l.from
           named == IF other = Owner THEN registry ELSE RegisterExisting(registry, other, "NODE")
           r == RegisterExisting(named, l.id, "REL")
<1>1. registry \in After(saved, Logs)
  BY AfterType, AfterSome
<1>2. other \in Things
  BY LinkType
<1> HIDE DEF other
<1>3. other \in IdT \ {Local} /\ "NODE" \in KindsFor(other) /\ (other \in Logs => other \in Logs)
  BY <1>2, PreparationAssumption DEF IdT, KindsFor, Things
<1>4. named \in After(saved, Logs) /\ Extends(registry.bound, named.bound)
  BY <1>1, <1>3, RegisterIsAfter, ExtendsAll
<1> HIDE DEF named
<1>5. r \in After(saved, Logs) /\ Extends(registry.bound, r.bound)
  BY <1>4, LinkIsAfter, ExtendsAll
<1>6. Described(l) = IF IsVisible(other) THEN r ELSE registry
  BY DEF Described, r, named, other
<1> HIDE DEF r
<1> QED
  BY <1>1, <1>5, <1>6, ExtendsAll

LEMMA WithLogsIsAfter ==
    ASSUME registry \in After(saved, {})
    PROVE  WithLogs \in After(saved, Logs) /\ Extends(registry.bound, WithLogs.bound)
<1> DEFINE M == {m \in Logs : HostOf[m] = Offered /\ IsVisible(m)}
           s == SetToSeq(M)
<1>1. registry \in After(saved, Logs)
  BY AfterType, AfterSome
<1>2. IsFiniteSet(M)
  BY FS_Subset, PreparationAssumption
<1>3. s \in Seq(M)
  <2> HIDE DEF M
  <2> QED
    BY <1>2, SetToSeqLists
<1>4. \A m \in M : m \in IdT \ {Local} /\ "MEMORY" \in KindsFor(m) /\ m \in Logs
  BY PreparationAssumption DEF IdT, KindsFor, Things
<1>5. WithLogs = RegisterAll(registry, s, "MEMORY")
  BY DEF WithLogs
<1> HIDE DEF M, s
<1> QED
  BY <1>1, <1>3, <1>4, <1>5, RegisterAllIsAfter

-----------------------------------------------------------------------------
(* The steps keep the invariant *)

LEMMA InitHolds == PreparationInit => PreparationInv
<1> SUFFICES ASSUME PreparationInit
             PROVE  PreparationInv
  OBVIOUS
<1> USE DEF PreparationInit
<1>1. Empty \in PacketsT /\ DOMAIN Empty = {}
  <2>1. Empty \in [{} -> PacketT]
    BY DEF Empty
  <2> QED
    BY <2>1 DEF PacketsT
<1>2. PreparationTypeOK
  BY <1>1 DEF PreparationTypeOK
<1>3. AliasInv
  BY EmptyIsSane, NewIsAfter DEF AliasInv, Looking, Reading
<1>4. PlanInv
  BY DEF PlanInv
<1>5. OfferInv
  BY DEF OfferInv, Looking, Reading
<1>6. OffersAreVisible
  BY <1>1 DEF OffersAreVisible
<1> QED
  BY <1>2, <1>3, <1>4, <1>5, <1>6 DEF PreparationInv

LEMMA PacketType ==
    ASSUME NEW f \in PacketsT, NEW ref \in DOMAIN f
    PROVE  /\ ref \in Candidate /\ f[ref] \in PacketT
           /\ f[ref].offers \in Seq(AliasT) /\ f[ref].status \in Statuses
           /\ \A i \in DOMAIN f[ref].offers : f[ref].offers[i] \in ToSet(f[ref].offers)
<1>1. PICK D \in SUBSET Candidate : f \in [D -> PacketT]
  BY DEF PacketsT
<1> QED
  BY <1>1 DEF PacketT, ToSet

\* A node that was seen, or written since
InSight(l, s, ref, x) == l[x] = "open" \/ <<ref, x>> \in s

\* What was offered before stays in sight while the lookup works on other offers.
LEMMA OffersStay ==
    ASSUME PreparationInv, packets' = packets, DOMAIN fresh \subseteq DOMAIN fresh',
           Extends(saved, saved'),
           \A ref \in Candidate \ DOMAIN fresh' : \A x \in ToSet(Matching[ref]) :
              InSight(life, since, ref, x) => InSight(life', since', ref, x)
    PROVE  OffersAreVisible'
<1>1. packets \in PacketsT /\ OffersAreVisible
  BY DEF PreparationInv, PreparationTypeOK
<1>2. ASSUME NEW ref \in DOMAIN packets \ DOMAIN fresh',
             NEW i \in DOMAIN packets[ref].offers
      PROVE  LET a == packets[ref].offers[i]
             IN  /\ a \in DOMAIN saved' /\ saved'[a] \in ToSet(Matching[ref]) \ {Owner}
                 /\ InSight(life', since', ref, saved'[a])
  <2> DEFINE a == packets[ref].offers[i]
  <2>1. /\ ref \in DOMAIN packets \ DOMAIN fresh /\ ref \in Candidate \ DOMAIN fresh'
        /\ a \in DOMAIN saved /\ saved[a] \in ToSet(Matching[ref]) \ {Owner}
        /\ InSight(life, since, ref, saved[a])
    BY <1>1, <1>2, PacketType DEF OffersAreVisible, InSight, IsVisible
  <2>2. a \in DOMAIN saved' /\ saved'[a] = saved[a]
    BY <2>1 DEF Extends
  <2> HIDE DEF a
  <2>3. InSight(life', since', ref, saved[a])
    BY <2>1
  <2> QED
    BY <2>1, <2>2, <2>3 DEF a
<1>3. \A ref \in DOMAIN packets \ DOMAIN fresh' : packets[ref].status = Status(packets[ref].offers)
  BY <1>1 DEF OffersAreVisible
<1> QED
  BY <1>2, <1>3 DEF OffersAreVisible, InSight, IsVisible

\* A step that leaves offers and registries alone
LEMMA OffersSame ==
    ASSUME PreparationInv, UNCHANGED <<life, since, saved, packets, fresh>>
    PROVE  OffersAreVisible'
  BY ExtendsAll, OffersStay

LEMMA WriteHolds ==
    ASSUME PreparationInv, NEW x \in Things \ {Owner}, NEW l \in {"open", "private", "archived"}, Write(x, l)
    PROVE  PreparationInv'
<1>1. /\ life' = [life EXCEPT ![x] = l] /\ life \in [Things -> {"open", "private", "archived"}]
      /\ since' = since \cup {<<ref, x>> : ref \in {c \in Candidate : x \in ToSet(Matching[c])}}
      /\ UNCHANGED <<stage, saved, packets, registry, fresh, work, links, plan, planned, todo, drafted, accepted>>
  BY DEF Write, lookup, drafts, PreparationInv, PreparationTypeOK
<1>2. ASSUME NEW ref \in Candidate, NEW y \in ToSet(Matching[ref]), InSight(life, since, ref, y)
      PROVE  InSight(life', since', ref, y)
  <2>1. y \in Things
    <3>1. Matching[ref] \in Seq(Nodes \cup {Owner})
      BY PreparationAssumption
    <3> QED
      BY <3>1, ElementsOfSeq DEF Things
  <2> QED
    BY <1>1, <1>2, <2>1 DEF InSight
<1>3. PreparationTypeOK'
  BY <1>1 DEF PreparationInv, PreparationTypeOK
<1>4. AliasInv'
  BY <1>1 DEF PreparationInv, AliasInv
<1>5. PlanInv'
  BY <1>1 DEF PreparationInv, PlanInv
<1>6. OfferInv'
  <2>1. /\ OfferInv /\ fresh \in PacketsT
        /\ \A ref, a : Offers(ref, a)' <=> Offers(ref, a)
        /\ Waiting' = Waiting
    BY <1>1 DEF PreparationInv, PreparationTypeOK, Offers, Waiting
  <2>2. stage \in Looking => /\ \A ref \in DOMAIN fresh : \A a \in ToSet(fresh[ref].offers) : Offers(ref, a)
                             /\ \A w \in ToSet(work) : Offers(w[1], w[2])
    BY <2>1 DEF OfferInv
  <2>3. ASSUME stage \in Reading, NEW ref \in DOMAIN fresh, NEW a \in ToSet(fresh[ref].offers)
        PROVE  <<ref, a>> \in Waiting \/ InSight(life', since', ref, registry.bound[a])
    <3>1. ref \in Candidate /\ registry.bound[a] \in ToSet(Matching[ref])
      BY <2>1, <2>2, <2>3, PacketType DEF Looking, Offers
    <3>2. <<ref, a>> \in Waiting \/ InSight(life, since, ref, registry.bound[a])
      BY <2>1, <2>3 DEF OfferInv, InSight, IsVisible
    <3> QED
      BY <1>2, <3>1, <3>2
  <2> QED
    BY <1>1, <2>1, <2>2, <2>3 DEF OfferInv, InSight, IsVisible
<1>7. OffersAreVisible'
  BY <1>1, <1>2, ExtendsAll, OffersStay
<1> QED
  BY <1>3, <1>4, <1>5, <1>6, <1>7 DEF PreparationInv

\* A step that changes only what is done next
LEMMA GoesHolds ==
    ASSUME PreparationInv, NEW s \in {"plan", "invalid", "asked", "raised", "unread", "blocked", "ready"},
           Goes(s), s = "plan" => stage \in {"reason", "resolve"}
    PROVE  PreparationInv'
<1>1. /\ stage' = s /\ stage' \notin Looking \cup {"build", "refused", "reason", "extract", "resolve"}
      /\ UNCHANGED <<life, since, saved, packets, registry, fresh, work, links, plan, planned, todo,
                     drafted, accepted>>
  BY DEF Goes, graph, lookup, drafts, Looking, Reading
<1>2. PreparationTypeOK'
  BY <1>1 DEF PreparationInv, PreparationTypeOK
<1>3. AliasInv'
  BY <1>1 DEF PreparationInv, AliasInv, After
<1>4. PlanInv'
  BY <1>1 DEF PreparationInv, PlanInv, Looking, Reading
<1>5. OfferInv'
  BY <1>1 DEF OfferInv, Looking
<1>6. OffersAreVisible'
  BY <1>1, OffersSame
<1> QED
  BY <1>2, <1>3, <1>4, <1>5, <1>6 DEF PreparationInv

\* The relationships, as those that the list has
LEMMA LinksAreListed == Links \in Seq(ToSet(Links))
<1>1. Links \in Seq([id : STRING, from : Things, to : Things])
  BY PreparationAssumption
<1>2. DOMAIN Links = 1 .. Len(Links) /\ Len(Links) \in Nat /\ Links = [i \in 1 .. Len(Links) |-> Links[i]]
  BY <1>1
<1>3. \A i \in 1 .. Len(Links) : Links[i] \in ToSet(Links)
  BY <1>2 DEF ToSet
<1> QED
  BY <1>2, <1>3

\* What the context binds may be saved.
LEMMA BuildHolds ==
    ASSUME PreparationInv, Build
    PROVE  PreparationInv'
<1>1. PICK hits \in SeqOf(Nodes \cup {Owner}, MaxHits), viewed \in SUBSET ToSet(Links), n \in 0 .. MaxSnippets :
         LET found == RegisterAll(RegisterOwner(NewRegistry), hits, "NODE")
             seen  == FoldLeft(RegisterViewed, found, Keeping(Links, viewed))
             all   == FoldLeft(RegisterSnippet, seen, [i \in 1 .. n |-> i])
         IN  saved' = all.bound
  BY Zenon DEF Build
<1> DEFINE found == RegisterAll(RegisterOwner(NewRegistry), hits, "NODE")
           seen  == FoldLeft(RegisterViewed, found, Keeping(Links, viewed))
           all   == FoldLeft(RegisterSnippet, seen, [i \in 1 .. n |-> i])
<1>2. saved' = all.bound
  BY <1>1
<1>3. /\ stage = "build" /\ stage' = "reason"
      /\ UNCHANGED <<life, since, packets, registry, fresh, work, links, plan, planned, todo, drafted, accepted>>
  BY DEF Build, graph, lookup, drafts
<1>4. found \in After(Empty, IdT)
  <2>1. hits \in Seq(Nodes \cup {Owner})
    BY DEF SeqOf
  <2>2. \A x \in Nodes \cup {Owner} : x \in IdT \ {Local} /\ "NODE" \in KindsFor(x)
    BY PreparationAssumption DEF IdT, KindsFor, Things
  <2>3. RegisterOwner(NewRegistry) \in After(Empty, IdT)
    BY OwnerIsAfter
  <2>4. \A i \in DOMAIN hits : /\ hits[i] \in IdT \ {Local} /\ "NODE" \in KindsFor(hits[i])
                               /\ hits[i] \in Logs => hits[i] \in IdT
    BY <2>1, <2>2
  <2> QED
    BY <2>1, <2>3, <2>4, RegisterAllIsAfter
<1> HIDE DEF found
<1>5. seen \in After(Empty, IdT)
  <2>1. Keeping(Links, viewed) \in Seq(ToSet(Links))
    BY LinksAreListed, KeepingElements
  <2> HIDE DEF found
  <2> QED
    BY <1>4, <2>1, AllViewedIsAfter
<1> HIDE DEF seen
<1>6. all \in After(Empty, IdT)
  <2>1. [i \in 1 .. n |-> i] \in Seq(Nat)
    OBVIOUS
  <2> QED
    BY <1>5, <2>1, AllSnippetsIsAfter
<1> HIDE DEF all
<1>7. Sane(saved') /\ saved = Empty
  BY <1>2, <1>3, <1>6, AfterType DEF PreparationInv, AliasInv
<1>8. PreparationTypeOK'
  BY <1>3 DEF PreparationInv, PreparationTypeOK
<1>9. AliasInv'
  BY <1>3, <1>7 DEF PreparationInv, AliasInv, After, Looking, Reading
<1>10. PlanInv'
  BY <1>3 DEF PreparationInv, PlanInv
<1>11. OfferInv'
  BY <1>3 DEF OfferInv, Looking, Reading
<1>12. OffersAreVisible'
  BY <1>3, <1>7, ExtendsAll, OffersStay
<1> QED
  BY <1>8, <1>9, <1>10, <1>11, <1>12 DEF PreparationInv

\* A plan starts with the registry that was saved, and without offers.
LEMMA PlanHolds ==
    ASSUME PreparationInv, Plan
    PROVE  PreparationInv'
<1>1. PICK p \in Plans : plan' = p /\ todo' = p /\ stage' = IF p = <<>> THEN "node" ELSE "lookup"
  BY DEF Plan
<1>2. /\ stage = "plan" /\ registry' = Restored(saved) /\ fresh' = Empty /\ work' = <<>>
      /\ links' = <<>> /\ drafted' = <<>>
      /\ UNCHANGED <<life, since, saved, packets, accepted>>
  BY DEF Plan, graph
<1>3. p \in Seq(Planned)
  BY PreparationAssumption DEF Planned
<1>4. Empty \in PacketsT /\ DOMAIN Empty = {} /\ ToSet(<<>>) = {}
  <2>1. Empty \in [{} -> PacketT] /\ DOMAIN Empty = {}
    BY DEF Empty
  <2>2. DOMAIN <<>> = {}
    OBVIOUS
  <2> QED
    BY <2>1, <2>2 DEF PacketsT, ToSet
<1>5. PreparationTypeOK'
  BY <1>1, <1>2, <1>3, <1>4 DEF PreparationInv, PreparationTypeOK
<1>6. AliasInv'
  <2>1. Sane(saved) /\ Sane(saved')
    BY <1>2 DEF PreparationInv, AliasInv
  <2>2. registry' \in After(saved', {}) /\ registry' \in After(Empty, IdT)
    BY <1>2, <2>1, RestoredIsAfter
  <2>3. stage' \notin {"build", "refused"}
    BY <1>1
  <2> QED
    BY <2>1, <2>2, <2>3 DEF AliasInv, After
<1>7. PlanInv'
  <2>1. stage' = "lookup" => todo' \in Seq(Planned) /\ todo' # <<>> /\ todo' = plan'
    BY <1>1, <1>3
  <2>2. stage' \in {"lookup", "node"}
    BY <1>1
  <2> QED
    BY <1>2, <1>4, <2>1, <2>2 DEF PlanInv
<1>8. OfferInv'
  BY <1>2, <1>4 DEF OfferInv
<1>9. OffersAreVisible'
  <2>1. fresh = Empty
    BY <1>2 DEF PreparationInv, PlanInv
  <2> QED
    BY <1>2, <2>1, ExtendsAll, OffersStay
<1> QED
  BY <1>5, <1>6, <1>7, <1>8, <1>9 DEF PreparationInv

\* What is to be hydrated is what was found for the plan.
LEMMA HydratesWhatWasFound ==
    ASSUME PreparationInv, NEW found \in PacketsT, DOMAIN found \subseteq ToSet(plan)
    PROVE  /\ ToHydrate(found) \in Seq(Candidate \X AliasT)
           /\ \A w \in ToSet(ToHydrate(found)) : w[1] \in DOMAIN found /\ w[2] \in ToSet(found[w[1]].offers)
           /\ \A ref \in DOMAIN found : \A a \in ToSet(found[ref].offers) : <<ref, a>> \in ToSet(ToHydrate(found))
<1> DEFINE parts == [i \in DOMAIN plan |->
                       IF plan[i] \in DOMAIN found
                       THEN [j \in DOMAIN found[plan[i]].offers |-> <<plan[i], found[plan[i]].offers[j]>>]
                       ELSE <<>>]
           W == Candidate \X AliasT
<1>1. plan \in Seq(Planned) /\ DOMAIN plan = 1 .. Len(plan) /\ Len(plan) \in Nat
  BY DEF PreparationInv, PreparationTypeOK
<1>2. ASSUME NEW i \in DOMAIN plan, plan[i] \in DOMAIN found
      PROVE  /\ parts[i] \in Seq(W)
             /\ ToSet(parts[i]) = {<<plan[i], a>> : a \in ToSet(found[plan[i]].offers)}
  <2> DEFINE o == found[plan[i]].offers
  <2>1. o \in Seq(AliasT) /\ plan[i] \in Candidate
    BY <1>2, PacketType
  <2>2. parts[i] = [j \in DOMAIN o |-> <<plan[i], o[j]>>]
    BY <1>2
  <2> HIDE DEF o, parts
  <2>3. DOMAIN o = 1 .. Len(o) /\ Len(o) \in Nat /\ \A j \in DOMAIN o : o[j] \in AliasT
    BY <2>1
  <2>4. parts[i] = [j \in 1 .. Len(o) |-> <<plan[i], o[j]>>]
    BY <2>2, <2>3
  <2>5. parts[i] \in Seq(W)
    BY <2>1, <2>3, <2>4
  <2>6. ToSet(parts[i]) = {<<plan[i], a>> : a \in ToSet(o)}
    BY <2>2 DEF ToSet
  <2> QED
    BY <2>5, <2>6 DEF o
<1>3. ASSUME NEW i \in DOMAIN plan, plan[i] \notin DOMAIN found
      PROVE  parts[i] \in Seq(W) /\ ToSet(parts[i]) = {}
  <2>1. parts[i] = <<>>
    BY <1>3
  <2>2. ToSet(<<>>) = {} /\ <<>> \in Seq(W)
    BY DEF ToSet
  <2> HIDE DEF parts, W
  <2> QED
    BY <2>1, <2>2
<1>4. parts = [i \in 1 .. Len(plan) |-> parts[i]]
  BY <1>1
<1>5. ToHydrate(found) = FlattenSeq(parts)
  BY DEF ToHydrate
<1>6. DOMAIN parts = DOMAIN plan
  OBVIOUS
<1> HIDE DEF parts, W
<1>7. parts \in Seq(Seq(W))
  BY <1>1, <1>2, <1>3, <1>4
<1>8. FlattenSeq(parts) \in Seq(W) /\ ToSet(FlattenSeq(parts)) = UNION {ToSet(parts[i]) : i \in DOMAIN parts}
  BY <1>7, ElementsOfFlatten
<1>9. ASSUME NEW w \in ToSet(ToHydrate(found))
      PROVE  w[1] \in DOMAIN found /\ w[2] \in ToSet(found[w[1]].offers)
  <2>1. PICK i \in DOMAIN plan : w \in ToSet(parts[i])
    BY <1>5, <1>6, <1>8, <1>9
  <2>2. plan[i] \in DOMAIN found
    BY <1>3, <2>1
  <2>3. PICK a \in ToSet(found[plan[i]].offers) : w = <<plan[i], a>>
    BY <1>2, <2>1, <2>2
  <2> QED
    BY <2>2, <2>3
<1>10. ASSUME NEW ref \in DOMAIN found, NEW a \in ToSet(found[ref].offers)
       PROVE  <<ref, a>> \in ToSet(ToHydrate(found))
  <2>1. PICK i \in DOMAIN plan : ref = plan[i]
    BY DEF ToSet
  <2>2. <<ref, a>> \in ToSet(parts[i])
    BY <1>2, <2>1
  <2> QED
    BY <1>5, <1>6, <1>8, <2>2
<1> QED
  BY <1>5, <1>8, <1>9, <1>10 DEF W

\* A lookup adds offers; with the last one, all offers wait for their hydration.
LEMMA NextLookupHolds ==
    ASSUME PreparationInv, stage = "lookup", NEW r \in After(saved, {}), Extends(registry.bound, r.bound),
           NEW found \in PacketsT, DOMAIN fresh \subseteq DOMAIN found, DOMAIN found \subseteq ToSet(plan),
           \A ref \in DOMAIN found : \A a \in ToSet(found[ref].offers) :
              a \in DOMAIN r.bound /\ r.bound[a] \in ToSet(Matching[ref]) \ {Owner},
           NextLookup(r, found)
    PROVE  PreparationInv'
<1>1. /\ registry' = r /\ fresh' = found
      /\ UNCHANGED <<life, since, saved, packets, links, plan, planned, drafted, accepted>>
  BY DEF NextLookup, graph, drafts
<1>2. \/ /\ Len(todo) > 1 /\ todo' = Tail(todo) /\ work' = work /\ stage' = stage
      \/ /\ todo' = <<>> /\ work' = ToHydrate(found) /\ stage' = "node"
  BY DEF NextLookup
<1>3. /\ ToHydrate(found) \in Seq(Candidate \X AliasT)
      /\ \A w \in ToSet(ToHydrate(found)) : w[1] \in DOMAIN found /\ w[2] \in ToSet(found[w[1]].offers)
      /\ \A ref \in DOMAIN found : \A a \in ToSet(found[ref].offers) : <<ref, a>> \in ToSet(ToHydrate(found))
  BY HydratesWhatWasFound
<1>4. /\ todo \in Seq(Planned) /\ todo # <<>> /\ work = <<>> /\ ToSet(todo) \subseteq ToSet(plan)
      /\ PreparationTypeOK
  BY DEF PreparationInv, PlanInv
<1>5. PreparationTypeOK'
  BY <1>1, <1>2, <1>3, <1>4 DEF PreparationTypeOK
<1>6. AliasInv'
  <2>1. r \in After(Empty, IdT)
    BY AfterSome
  <2>2. Sane(saved)
    BY DEF PreparationInv, AliasInv
  <2>3. stage' \notin {"build", "refused"}
    BY <1>2
  <2> QED
    BY <1>1, <2>1, <2>2, <2>3 DEF AliasInv, After
<1>7. PlanInv'
  <2>1. ASSUME stage' = "lookup"
        PROVE  /\ todo' \in Seq(Planned) /\ todo' # <<>> /\ work' = <<>>
               /\ ToSet(todo') \subseteq ToSet(plan)
    <3>1. Len(todo) > 1 /\ todo' = Tail(todo) /\ work' = work
      BY <1>2, <2>1
    <3> QED
      BY <1>4, <3>1, ToSetOfTail
  <2>2. stage' \in {"lookup", "node"}
    BY <1>2
  <2> QED
    BY <1>1, <2>1, <2>2 DEF PlanInv
<1>8. OfferInv'
  <2>1. \A ref \in DOMAIN found : \A a \in ToSet(found[ref].offers) : Offers(ref, a)'
    BY <1>1 DEF Offers
  <2>2. ToSet(<<>>) = {}
    BY DEF ToSet
  <2>3. \A w \in ToSet(work') : Offers(w[1], w[2])'
    BY <1>2, <1>3, <1>4, <2>1, <2>2
  <2>4. CASE stage' = "lookup"
    BY <1>1, <2>1, <2>3, <2>4 DEF OfferInv, Reading
  <2>5. CASE stage' = "node"
    <3>1. work' = ToHydrate(found)
      BY <1>2, <2>5
    <3>2. \A ref \in DOMAIN found : \A a \in ToSet(found[ref].offers) : <<ref, a>> \in Waiting'
      BY <1>3, <2>5, <3>1 DEF Waiting
    <3> QED
      BY <1>1, <2>1, <2>3, <3>2 DEF OfferInv
  <2> QED
    BY <1>2, <2>4, <2>5
<1>9. OffersAreVisible'
  BY <1>1, ExtendsAll, OffersStay
<1> QED
  BY <1>5, <1>6, <1>7, <1>8, <1>9 DEF PreparationInv

LEMMA LookupHolds ==
    ASSUME PreparationInv, Lookup
    PROVE  PreparationInv'
<1> DEFINE ref == Head(todo)
           nodes == Found(ref)
           r == Registered(ref)
           offers == [i \in 1 .. Len(nodes) |-> RefOf(r, nodes[i])]
           packet == [offers |-> offers, status |-> Status(offers)]
           found == Also(fresh, [x \in {ref} |-> packet])
<1>1. stage = "lookup" /\ ref \in Candidate \ Untyped /\ NextLookup(r, found)
  BY DEF Lookup
<1>2. /\ todo \in Seq(Planned) /\ todo # <<>> /\ ToSet(todo) \cup DOMAIN fresh \subseteq ToSet(plan)
      /\ fresh \in PacketsT /\ registry \in After(saved, {})
      /\ \A x \in DOMAIN fresh : \A a \in ToSet(fresh[x].offers) : Offers(x, a)
  BY <1>1 DEF PreparationInv, PreparationTypeOK, PlanInv, AliasInv, OfferInv, Looking
<1>3. ref \in ToSet(plan)
  BY <1>2, ToSetOfTail
<1> HIDE DEF ref
<1>4. /\ r \in After(saved, {}) /\ Extends(registry.bound, r.bound)
      /\ \A i \in DOMAIN nodes : RefOf(r, nodes[i]) \in DOMAIN r.bound /\ r.bound[RefOf(r, nodes[i])] = nodes[i]
  BY <1>1, <1>2, RegisteredIsAfter
<1>5. /\ nodes \in Seq(Nodes) /\ DOMAIN nodes = 1 .. Len(nodes) /\ Len(nodes) \in Nat
      /\ \A i \in DOMAIN nodes : nodes[i] \in ToSet(Matching[ref]) \ {Owner}
  BY <1>1, FoundMatches
<1>6. DOMAIN r.bound \subseteq AliasT
  BY <1>4, AfterType
<1> HIDE DEF nodes, r
<1>7. offers \in Seq(AliasT)
  BY <1>4, <1>5, <1>6
<1>8. \A a \in ToSet(offers) : a \in DOMAIN r.bound /\ r.bound[a] \in ToSet(Matching[ref]) \ {Owner}
  BY <1>4, <1>5 DEF ToSet
<1> HIDE DEF offers
<1>9. packet \in PacketT /\ packet.offers = offers
  BY <1>7 DEF PacketT, Status, Statuses
<1> HIDE DEF packet
<1>10. PICK D \in SUBSET Candidate : fresh \in [D -> PacketT]
  BY <1>2 DEF PacketsT
<1>11. found = [x \in D \cup {ref} |-> IF x \in D THEN fresh[x] ELSE packet]
  BY <1>10 DEF Also
<1> HIDE DEF found
<1>12. /\ found \in [D \cup {ref} -> PacketT] /\ DOMAIN found = D \cup {ref}
       /\ \A x \in D : found[x] = fresh[x]
       /\ ref \notin D => found[ref] = packet
  BY <1>9, <1>10, <1>11
<1>13. D \cup {ref} \in SUBSET Candidate
  BY <1>1
<1>14. found \in PacketsT
  BY <1>12, <1>13 DEF PacketsT
<1>15. DOMAIN fresh \subseteq DOMAIN found /\ DOMAIN found \subseteq ToSet(plan)
  BY <1>2, <1>3, <1>10, <1>12
<1>16. ASSUME NEW x \in DOMAIN found, NEW a \in ToSet(found[x].offers)
       PROVE  a \in DOMAIN r.bound /\ r.bound[a] \in ToSet(Matching[x]) \ {Owner}
  <2>1. CASE x \in D
    <3>1. Offers(x, a)
      BY <1>2, <1>10, <1>12, <1>16, <2>1
    <3> QED
      BY <1>4, <3>1 DEF Offers, Extends
  <2>2. CASE x \notin D
    <3>1. x = ref /\ found[x] = packet
      BY <1>11, <1>12, <1>16, <2>2
    <3> QED
      BY <1>8, <1>9, <1>16, <3>1
  <2> QED
    BY <2>1, <2>2
<1>17. NextLookup(r, found)
  BY <1>1
<1> QED
  BY <1>1, <1>4, <1>14, <1>15, <1>16, <1>17, NextLookupHolds

LEMMA SkipUntypedHolds ==
    ASSUME PreparationInv, SkipUntyped
    PROVE  PreparationInv'
<1>1. stage = "lookup" /\ NextLookup(registry, fresh)
  BY DEF SkipUntyped
<1>2. /\ DOMAIN fresh \subseteq ToSet(plan)
      /\ fresh \in PacketsT /\ registry \in After(saved, {})
      /\ \A x \in DOMAIN fresh : \A a \in ToSet(fresh[x].offers) : Offers(x, a)
  BY <1>1 DEF PreparationInv, PreparationTypeOK, PlanInv, AliasInv, OfferInv, Looking
<1>3. \A x \in DOMAIN fresh : \A a \in ToSet(fresh[x].offers) :
         a \in DOMAIN registry.bound /\ registry.bound[a] \in ToSet(Matching[x]) \ {Owner}
  BY <1>2 DEF Offers
<1> QED
  BY <1>1, <1>2, <1>3, ExtendsAll, NextLookupHolds

\* The offer at work
LEMMA OfferAtWork ==
    ASSUME PreparationInv, stage \in Reading, work # <<>>
    PROVE  /\ Ref \in DOMAIN fresh /\ Ref \in Candidate /\ Alias \in DOMAIN registry.bound
           /\ Offered \in ToSet(Matching[Ref]) \ {Owner} /\ Offered # Local
           /\ Head(work) = <<Ref, Alias>>
           /\ ToSet(work) = {Head(work)} \cup ToSet(Tail(work)) /\ Tail(work) \in Seq(Candidate \X AliasT)
<1>1. /\ work \in Seq(Candidate \X AliasT) /\ fresh \in PacketsT
      /\ \A w \in ToSet(work) : Offers(w[1], w[2])
  BY DEF PreparationInv, PreparationTypeOK, OfferInv, Looking
<1>2. /\ Head(work) \in Candidate \X AliasT /\ Head(work) \in ToSet(work)
      /\ ToSet(work) = {Head(work)} \cup ToSet(Tail(work)) /\ Tail(work) \in Seq(Candidate \X AliasT)
  BY <1>1, ToSetOfTail
<1>3. Head(work) = <<Ref, Alias>> /\ Ref \in Candidate
  BY <1>2 DEF Ref, Alias
<1>4. Offers(Ref, Alias)
  BY <1>1, <1>2 DEF Ref, Alias
<1>5. \A x \in ToSet(Matching[Ref]) : x # Local
  <2>1. Matching[Ref] \in Seq(Nodes \cup {Owner})
    BY <1>3, PreparationAssumption
  <2>2. Local \notin Nodes \cup {Owner}
    BY PreparationAssumption DEF Things
  <2> QED
    BY <2>1, <2>2, ElementsOfSeq
<1> QED
  BY <1>2, <1>3, <1>4, <1>5 DEF Offers, Offered

\* A step of the hydration, which drops no alias, and takes nothing out of sight.
LEMMA ContinueHolds ==
    ASSUME PreparationInv, stage \in Reading, NEW s \in Reading, NEW r \in After(saved, {}),
           Extends(registry.bound, r.bound), NEW ls \in Seq(ToSet(Links)), ContinueAt(s, r, ls),
           fresh' \in PacketsT, DOMAIN fresh' = DOMAIN fresh,
           \A ref \in DOMAIN fresh : ToSet(fresh'[ref].offers) \subseteq ToSet(fresh[ref].offers),
           work' \in Seq(Candidate \X AliasT), ToSet(work') \subseteq ToSet(work), s # "node" => work' # <<>>,
           \A ref \in Candidate \ DOMAIN fresh : \A x : <<ref, x>> \in since => <<ref, x>> \in since',
           \A ref \in DOMAIN fresh : \A a \in ToSet(fresh'[ref].offers) :
              <<ref, a>> \in Waiting' \/ InSight(life, since', ref, registry.bound[a])
    PROVE  PreparationInv'
<1>1. /\ registry' = r /\ links' = ls /\ stage' = s
      /\ UNCHANGED <<life, saved, packets, plan, planned, todo, drafted, accepted>>
  BY DEF ContinueAt, graph, drafts
<1>2. stage' \notin {"lookup", "build", "refused", "reason", "plan", "extract", "resolve"}
  BY <1>1 DEF Reading
<1>3. PreparationTypeOK'
  BY <1>1 DEF PreparationInv, PreparationTypeOK
<1>4. AliasInv'
  <2>1. r \in After(Empty, IdT)
    BY AfterSome
  <2>2. Sane(saved)
    BY DEF PreparationInv, AliasInv
  <2> QED
    BY <1>1, <1>2, <2>1, <2>2 DEF AliasInv, After
<1>5. PlanInv'
  BY <1>1, <1>2 DEF PlanInv
<1>6. OfferInv'
  <2>1. /\ \A ref \in DOMAIN fresh : \A a \in ToSet(fresh[ref].offers) : Offers(ref, a)
        /\ \A w \in ToSet(work) : Offers(w[1], w[2])
    BY DEF PreparationInv, OfferInv, Looking
  <2>2. ASSUME NEW ref, NEW a, Offers(ref, a)
        PROVE  /\ ref \in DOMAIN fresh' /\ a \in DOMAIN r.bound /\ r.bound[a] = registry.bound[a]
               /\ r.bound[a] \in ToSet(Matching[ref]) \ {Owner}
    BY <2>2 DEF Offers, Extends
  <2>3. \A ref \in DOMAIN fresh' : \A a \in ToSet(fresh'[ref].offers) : Offers(ref, a)'
    BY <1>1, <2>1, <2>2 DEF Offers
  <2>4. \A w \in ToSet(work') : Offers(w[1], w[2])'
    BY <1>1, <2>1, <2>2 DEF Offers
  <2>5. ASSUME NEW ref \in DOMAIN fresh', NEW a \in ToSet(fresh'[ref].offers)
        PROVE  \/ <<ref, a>> \in Waiting'
               \/ InSight(life', since', ref, registry'.bound[a])
    <3>1. Offers(ref, a)
      BY <2>1, <2>5
    <3> QED
      BY <1>1, <2>2, <2>5, <3>1
  <2> QED
    BY <2>3, <2>4, <2>5 DEF OfferInv, InSight, IsVisible
<1>7. OffersAreVisible'
  BY <1>1, ExtendsAll, OffersStay DEF InSight
<1> QED
  BY <1>3, <1>4, <1>5, <1>6, <1>7 DEF PreparationInv

LEMMA HydrateNodeHolds ==
    ASSUME PreparationInv, HydrateNode
    PROVE  PreparationInv'
<1>1. /\ stage = "node" /\ work # <<>> /\ since' = since \ {<<Ref, Offered>>}
      /\ fresh \in PacketsT /\ work \in Seq(Candidate \X AliasT) /\ registry \in After(saved, {})
      /\ "node" \in Reading /\ "links" \in Reading
  BY DEF HydrateNode, PreparationInv, PreparationTypeOK, AliasInv, Looking, Reading
<1>2. /\ Ref \in DOMAIN fresh /\ Ref \in Candidate /\ Alias \in DOMAIN registry.bound
      /\ Offered # Local /\ Head(work) = <<Ref, Alias>>
      /\ ToSet(work) = {Head(work)} \cup ToSet(Tail(work)) /\ Tail(work) \in Seq(Candidate \X AliasT)
  BY <1>1, OfferAtWork
<1>3. /\ \A ref \in DOMAIN fresh : \A a \in ToSet(fresh[ref].offers) : Offers(ref, a)
      /\ \A ref \in DOMAIN fresh : \A a \in ToSet(fresh[ref].offers) :
            <<ref, a>> \in ToSet(work) \/ InSight(life, since, ref, registry.bound[a])
  BY <1>1 DEF PreparationInv, OfferInv, Looking, Waiting, InSight, IsVisible
<1>4. <<>> \in Seq(ToSet(Links))
  OBVIOUS
<1>5. \A ref \in Candidate \ DOMAIN fresh : \A x : <<ref, x>> \in since => <<ref, x>> \in since'
  BY <1>1, <1>2
<1>6. CASE IsOffered(Offered)
  <2>1. ContinueAt("links", registry, <<>>) /\ fresh' = fresh /\ work' = work
    BY <1>6 DEF HydrateNode
  <2>2. stage' = "links"
    BY <2>1 DEF ContinueAt
  <2>3. Waiting' = ToSet(Tail(work))
    BY <2>1, <2>2 DEF Waiting
  <2>4. ASSUME NEW ref \in DOMAIN fresh, NEW a \in ToSet(fresh[ref].offers)
        PROVE  <<ref, a>> \in ToSet(Tail(work)) \/ InSight(life, since', ref, registry.bound[a])
    <3>1. CASE <<ref, a>> \in ToSet(Tail(work))
      BY <3>1
    <3>2. CASE registry.bound[a] = Offered
      BY <1>6, <3>2 DEF InSight, IsOffered, IsVisible
    <3>3. CASE <<ref, a>> \notin ToSet(Tail(work)) /\ registry.bound[a] # Offered
      <4>1. <<ref, a>> # <<Ref, Alias>>
        BY <3>3 DEF Offered
      <4>2. InSight(life, since, ref, registry.bound[a])
        BY <1>2, <1>3, <3>3, <4>1
      <4> QED
        BY <1>1, <3>3, <4>2 DEF InSight
    <3> QED
      BY <3>1, <3>2, <3>3
  <2> QED
    BY <1>1, <1>4, <1>5, <2>1, <2>3, <2>4, ExtendsAll, ContinueHolds
<1>7. CASE ~IsOffered(Offered)
  <2> DEFINE kept == Keeping(fresh[Ref].offers, ToSet(fresh[Ref].offers) \ {Alias})
  <2>1. /\ ContinueAt("node", registry, <<>>) /\ work' = Tail(work)
        /\ fresh' = [fresh EXCEPT ![Ref].offers = kept]
    BY <1>7 DEF HydrateNode
  <2>2. stage' = "node"
    BY <2>1 DEF ContinueAt
  <2>3. Waiting' = ToSet(Tail(work))
    BY <2>1, <2>2 DEF Waiting
  <2>4. kept \in Seq(AliasT) /\ ToSet(kept) = ToSet(fresh[Ref].offers) \ {Alias}
    <3>1. fresh[Ref].offers \in Seq(AliasT)
      BY <1>1, <1>2, PacketType
    <3>2. /\ kept \in Seq(AliasT)
          /\ ToSet(kept) = ToSet(fresh[Ref].offers) \cap (ToSet(fresh[Ref].offers) \ {Alias})
      BY <3>1, KeepingElements
    <3> QED
      BY <3>2
  <2> HIDE DEF kept
  <2>5. PICK D \in SUBSET Candidate : fresh \in [D -> PacketT]
    BY <1>1 DEF PacketsT
  <2>6. /\ fresh' \in [D -> PacketT] /\ DOMAIN fresh = D
        /\ fresh'[Ref].offers = kept /\ \A ref \in D \ {Ref} : fresh'[ref] = fresh[ref]
    BY <1>2, <2>1, <2>4, <2>5 DEF PacketT
  <2>7. fresh' \in PacketsT /\ DOMAIN fresh' = DOMAIN fresh
    BY <2>6 DEF PacketsT
  <2>8. \A ref \in DOMAIN fresh : ToSet(fresh'[ref].offers) \subseteq ToSet(fresh[ref].offers)
    BY <2>4, <2>6
  <2>9. ASSUME NEW ref \in DOMAIN fresh, NEW a \in ToSet(fresh'[ref].offers)
        PROVE  <<ref, a>> \in ToSet(Tail(work)) \/ InSight(life, since', ref, registry.bound[a])
    <3>1. a \in ToSet(fresh[ref].offers) /\ Offers(ref, a)
      BY <1>3, <2>8, <2>9
    <3>2. <<ref, a>> # <<Ref, Alias>>
      BY <2>4, <2>6, <2>9
    <3>3. <<ref, a>> \in ToSet(Tail(work)) \/ InSight(life, since, ref, registry.bound[a])
      BY <1>2, <1>3, <3>1, <3>2
    <3>4. <<ref, registry.bound[a]>> # <<Ref, Offered>>
      <4>1. OneAlias(registry.bound) /\ a \in DOMAIN registry.bound
        BY <1>1, <3>1, AfterType DEF Sane, Offers
      <4> QED
        BY <1>2, <3>2, <4>1 DEF OneAlias, Offered
    <3> QED
      BY <1>1, <3>3, <3>4 DEF InSight
  <2>10. ToSet(work') \subseteq ToSet(work) /\ work' \in Seq(Candidate \X AliasT)
    BY <1>2, <2>1
  <2> QED
    BY <1>1, <1>4, <1>5, <2>1, <2>3, <2>7, <2>8, <2>9, <2>10, ExtendsAll, ContinueHolds
<1> QED
  BY <1>6, <1>7

\* Of the offers that do not wait, each is in sight.
LEMMA NotWaiting ==
    ASSUME PreparationInv, stage \in {"links", "link", "logs"}
    PROVE  /\ fresh \in PacketsT /\ work \in Seq(Candidate \X AliasT) /\ work # <<>>
           /\ registry \in After(saved, {}) /\ stage \in Reading /\ links \in Seq(ToSet(Links))
           /\ \A ref \in DOMAIN fresh : \A a \in ToSet(fresh[ref].offers) :
                 <<ref, a>> \in ToSet(Tail(work)) \/ InSight(life, since, ref, registry.bound[a])
  BY DEF PreparationInv, PreparationTypeOK, AliasInv, PlanInv, OfferInv, Looking, Reading, Waiting, InSight,
         IsVisible

LEMMA HydrateLinksHolds ==
    ASSUME PreparationInv, HydrateLinks
    PROVE  PreparationInv'
<1> DEFINE mine == Keeping(Links, {l \in ToSet(Links) : Offered \in {l.from, l.to}})
           ls == SubSeq(mine, 1, Min({Len(mine), MaxRelationships}))
<1>1. /\ stage = "links" /\ ContinueAt("link", registry, ls) /\ UNCHANGED <<since, fresh, work>>
  BY DEF HydrateLinks
<1>2. mine \in Seq(ToSet(Links))
  BY LinksAreListed, KeepingElements
<1> HIDE DEF mine
<1>3. ls \in Seq(ToSet(Links))
  <2>1. MaxRelationships \in Nat
    BY PreparationAssumption
  <2> QED
    BY <1>2, <2>1, PrefixElements
<1> HIDE DEF ls
<1>4. Waiting' = ToSet(Tail(work)) /\ "link" \in Reading
  BY <1>1 DEF ContinueAt, Waiting, Reading
<1> QED
  BY <1>1, <1>3, <1>4, NotWaiting, ExtendsAll, ContinueHolds

LEMMA HydrateLinkHolds ==
    ASSUME PreparationInv, HydrateLink
    PROVE  PreparationInv'
<1>1. stage = "link" /\ UNCHANGED <<since, fresh, work>> /\ "link" \in Reading /\ "logs" \in Reading
  BY DEF HydrateLink, Reading
<1>2. CASE links = <<>>
  <2>1. ContinueAt("logs", registry, <<>>)
    BY <1>2 DEF HydrateLink
  <2>2. Waiting' = ToSet(Tail(work)) /\ <<>> \in Seq(ToSet(Links))
    BY <1>1, <2>1 DEF ContinueAt, Waiting
  <2> QED
    BY <1>1, <2>1, <2>2, NotWaiting, ExtendsAll, ContinueHolds
<1>3. CASE links # <<>>
  <2> DEFINE r == Described(Head(links))
  <2>1. r.refused = {} /\ ContinueAt("link", r, Tail(links))
    BY <1>3 DEF HydrateLink
  <2>2. Head(links) \in ToSet(Links) /\ Tail(links) \in Seq(ToSet(Links))
    BY <1>1, <1>3, NotWaiting
  <2>3. r \in After(saved, Logs) /\ Extends(registry.bound, r.bound)
    BY <1>1, <2>2, NotWaiting, DescribedIsAfter
  <2> HIDE DEF r
  <2>4. r \in After(saved, {})
    BY <2>1, <2>3, AfterSome
  <2>5. Waiting' = ToSet(Tail(work))
    BY <1>1, <2>1 DEF ContinueAt, Waiting
  <2> QED
    BY <1>1, <2>1, <2>2, <2>3, <2>4, <2>5, NotWaiting, ContinueHolds
<1> QED
  BY <1>2, <1>3

LEMMA HydrateLogsHolds ==
    ASSUME PreparationInv, HydrateLogs
    PROVE  PreparationInv'
<1>1. /\ stage = "logs" /\ WithLogs.refused = {} /\ work' = Tail(work) /\ ContinueAt("node", WithLogs, <<>>)
      /\ UNCHANGED <<since, fresh>> /\ "node" \in Reading /\ "logs" \in Reading
  BY DEF HydrateLogs, Reading
<1>2. WithLogs \in After(saved, Logs) /\ Extends(registry.bound, WithLogs.bound)
  BY <1>1, NotWaiting, WithLogsIsAfter
<1>3. WithLogs \in After(saved, {})
  BY <1>1, <1>2, AfterSome
<1>4. Waiting' = ToSet(Tail(work)) /\ <<>> \in Seq(ToSet(Links))
  BY <1>1 DEF ContinueAt, Waiting
<1>5. ToSet(work') \subseteq ToSet(work) /\ work' \in Seq(Candidate \X AliasT)
  BY <1>1, NotWaiting, OfferAtWork
<1> QED
  BY <1>1, <1>2, <1>3, <1>4, <1>5, NotWaiting, ContinueHolds

\* Nothing is refused but a memory log.
LEMMA RegistryRefusesHolds ==
    ASSUME PreparationInv, RegistryRefuses
    PROVE  PreparationInv'
<1>1. /\ stage \in {"lookup", "link", "logs"}
      /\ stage = "lookup" => Head(todo) \in Candidate \ Untyped
      /\ stage = "link" => links # <<>>
      /\ UNCHANGED <<since, fresh, work>>
  BY DEF RegistryRefuses
<1>2. PICK r : /\ r = CASE stage = "lookup" -> Registered(Head(todo))
                        [] stage = "link"   -> Described(Head(links))
                        [] stage = "logs"   -> WithLogs
               /\ r.refused # {} /\ ContinueAt("refused", r, links)
  BY DEF RegistryRefuses
<1>3. stage # "lookup"
  <2>1. SUFFICES ASSUME stage = "lookup"
                 PROVE  FALSE
    OBVIOUS
  <2>2. r = Registered(Head(todo)) /\ Head(todo) \in Candidate
    BY <1>1, <1>2, <2>1
  <2>3. registry \in After(saved, {})
    BY <2>1 DEF PreparationInv, AliasInv, Looking
  <2> QED
    BY <1>2, <2>2, <2>3, RegisteredIsAfter
<1>4. stage \in {"link", "logs"}
  BY <1>1, <1>3
<1>5. r \in After(saved, Logs)
  <2>1. CASE stage = "link"
    <3>1. r = Described(Head(links)) /\ Head(links) \in ToSet(Links)
      BY <1>1, <1>2, <1>4, <2>1, NotWaiting
    <3> QED
      BY <1>4, <3>1, NotWaiting, DescribedIsAfter
  <2>2. CASE stage = "logs"
    <3>1. r = WithLogs
      BY <1>2, <2>2
    <3> QED
      BY <1>4, <3>1, NotWaiting, WithLogsIsAfter
  <2> QED
    BY <1>4, <2>1, <2>2
<1>6. /\ registry' = r /\ stage' = "refused"
      /\ UNCHANGED <<life, saved, packets, plan, planned, todo, drafted, accepted, since, fresh, work, links>>
  BY <1>1, <1>2 DEF ContinueAt, graph, drafts
<1>7. stage' \notin Looking
  BY <1>6 DEF Looking, Reading
<1>8. PreparationTypeOK'
  BY <1>6 DEF PreparationInv, PreparationTypeOK
<1>9. AliasInv'
  <2>1. Sane(saved) /\ r \in After(Empty, IdT) /\ r.refused \subseteq Logs
    BY <1>5, AfterSome, AfterType DEF PreparationInv, AliasInv
  <2> QED
    BY <1>6, <1>7, <2>1 DEF AliasInv, After
<1>10. PlanInv'
  BY <1>6 DEF PlanInv
<1>11. OfferInv'
  BY <1>7 DEF OfferInv, Looking
<1>12. OffersAreVisible'
  BY <1>6, OffersSame
<1> QED
  BY <1>8, <1>9, <1>10, <1>11, <1>12 DEF PreparationInv

-----------------------------------------------------------------------------
(* The batches, and the tasks of drafts *)

\* Every batch has a task.
LEMMA BatchesHaveTasks ==
    ASSUME NEW X, NEW tasks \in Seq(X)
    PROVE  Batches(tasks) \in Seq(Seq(X) \ {<<>>})
<1> DEFINE l   == Len(tasks)
           b   == BatchSize
           n   == (l + b - 1) \div b
           E   == Seq(X) \ {<<>>}
           cut == [i \in 1 .. n |-> SubSeq(tasks, (i - 1) * b + 1, Min({i * b, l}))]
<1>1. l \in Nat /\ b \in Nat \ {0} /\ l + b - 1 \in Nat
  BY PreparationAssumption
<1>2. n \in Nat /\ b * n <= l + b - 1
  <2> HIDE DEF l, b
  <2> QED
    BY <1>1
<1>3. ASSUME NEW i \in 1 .. n
      PROVE  SubSeq(tasks, (i - 1) * b + 1, Min({i * b, l})) \in E
  <2> DEFINE lo == (i - 1) * b + 1
             hi == Min({i * b, l})
  <2>1. lo \in Nat \ {0} /\ i * b \in Nat /\ lo <= i * b /\ lo <= l
    <3> HIDE DEF l, b, n
    <3>1. b * i <= b * n
      BY <1>1, <1>2
    <3>2. b * i = i * b /\ (i - 1) * b = b * i - b /\ b * i \in Int
      BY <1>1, <1>2
    <3>3. i - 1 \in Nat /\ (i - 1) * b \in Nat
      BY <1>1, <1>2
    <3> QED
      BY <1>1, <1>2, <3>1, <3>2, <3>3
  <2> HIDE DEF lo
  <2>2. hi \in Nat /\ lo <= hi /\ hi <= l
    <3> DEFINE t == i * b
    <3>1. t \in Nat /\ lo <= t
      BY <2>1
    <3> HIDE DEF t, l
    <3>2. t \in Int /\ l \in Int
      BY <1>1, <3>1
    <3>3. Min({t, l}) \in {t, l} /\ Min({t, l}) <= l
      BY <3>2, MinOfTwo
    <3> QED
      BY <1>1, <2>1, <3>1, <3>3 DEF t
  <2> HIDE DEF hi
  <2>3. SubSeq(tasks, lo, hi) \in Seq(X)
    BY <1>1, <2>1, <2>2
  <2>4. Len(SubSeq(tasks, lo, hi)) = hi - lo + 1
    BY <1>1, <2>1, <2>2
  <2>5. SubSeq(tasks, lo, hi) # <<>>
    BY <2>1, <2>2, <2>4
  <2> QED
    BY <2>3, <2>5 DEF lo, hi
<1>4. Batches(tasks) = IF n > 1 /\ Len(cut[n]) = 1 /\ Len(cut[n - 1]) < MaxDraftBatch
                       THEN Append(SubSeq(cut, 1, n - 2), cut[n - 1] \o cut[n])
                       ELSE cut
  BY DEF Batches
<1>5. \A i \in 1 .. n : cut[i] \in E
  BY <1>3
<1>6. cut = [i \in 1 .. n |-> cut[i]]
  OBVIOUS
<1> HIDE DEF cut, n
<1>7. cut \in Seq(E)
  <2> HIDE DEF E
  <2> QED
    BY <1>2, <1>5, <1>6
<1>8. ASSUME n > 1
      PROVE  Append(SubSeq(cut, 1, n - 2), cut[n - 1] \o cut[n]) \in Seq(E)
  <2>1. cut[n - 1] \in E /\ cut[n] \in E
    BY <1>2, <1>5, <1>8
  <2>2. cut[n - 1] \o cut[n] \in E
    <3>1. cut[n - 1] \in Seq(X) /\ cut[n] \in Seq(X) /\ Len(cut[n]) # 0
      BY <2>1
    <3>2. /\ cut[n - 1] \o cut[n] \in Seq(X)
          /\ Len(cut[n - 1] \o cut[n]) = Len(cut[n - 1]) + Len(cut[n])
          /\ Len(cut[n - 1]) \in Nat /\ Len(cut[n]) \in Nat
      BY <3>1
    <3> QED
      BY <3>1, <3>2
  <2>3. SubSeq(cut, 1, n - 2) \in Seq(E)
    <3>1. Len(cut) = n
      BY <1>2, <1>6
    <3> HIDE DEF E
    <3> QED
      BY <1>2, <1>7, <1>8, <3>1
  <2> HIDE DEF E
  <2> QED
    BY <2>2, <2>3
<1> QED
  BY <1>4, <1>7, <1>8

\* A task is one of the batch; a draft that names one that is left gets it.
LEMMA TaskForIsOne ==
    ASSUME NEW X, NEW tasks \in Seq(X), tasks # <<>>, NEW left \in Seq(ToSet(tasks)), NEW ref
    PROVE  TaskFor(left, ref, tasks) \in ToSet(tasks) /\ (ref \in ToSet(left) => TaskFor(left, ref, tasks) = ref)
<1>1. ref \in ToSet(left) => ref \in ToSet(tasks)
  BY ElementsOfSeq
<1>2. left # <<>> => Head(left) \in ToSet(tasks)
  <2> DEFINE V == ToSet(tasks)
  <2> HIDE DEF V
  <2>1. left \in Seq(V)
    BY DEF V
  <2> QED
    BY <2>1 DEF V
<1>3. Last(tasks) \in ToSet(tasks)
  <2>1. Len(tasks) \in DOMAIN tasks
    OBVIOUS
  <2> QED
    BY <2>1 DEF Last, ToSet
<1> QED
  BY <1>1, <1>2, <1>3 DEF TaskFor

LEMMA MatchedTasks ==
    ASSUME NEW X, NEW tasks \in Seq(X), tasks # <<>>, NEW Y, NEW own \in Seq(Y)
    PROVE  LET found == Matched(own, tasks)
           IN  /\ found \in Seq(ToSet(tasks)) /\ Len(found) = Len(own)
               /\ IsInjective(own) /\ ToSet(own) \subseteq ToSet(tasks)
                     => \A i \in DOMAIN own : found[i] = own[i]
<1> DEFINE n == Len(own)
           V == ToSet(tasks)
           r == [left |-> tasks, found |-> <<>>]
           G == [left : Seq(V), found : Seq(V)]
           F == [p \in G \X (1 .. n) |-> MatchOne(p[1], own[p[2]], tasks)]
           iter == CHOOSE iter : iter = [S \in SUBSET DOMAIN own |->
                           IF S = {} THEN r
                           ELSE MatchOne(iter[S \ {Max(S)}], own[Max(S)], tasks)]
<1>1. Matched(own, tasks) = iter[DOMAIN own].found
  BY Zenon DEF Matched, FoldLeft, MapThenFoldSet
<1>2. n \in Nat /\ DOMAIN own = 1 .. n
  OBVIOUS
<1>3. r \in G /\ r.left = tasks /\ r.found = <<>>
  <2>1. tasks \in Seq(V)
    <3>1. DOMAIN tasks = 1 .. Len(tasks) /\ Len(tasks) \in Nat /\ tasks = [i \in 1 .. Len(tasks) |-> tasks[i]]
      OBVIOUS
    <3>2. \A i \in 1 .. Len(tasks) : tasks[i] \in V
      BY <3>1 DEF ToSet
    <3> QED
      BY <3>1, <3>2
  <2> QED
    BY <2>1
<1> HIDE DEF r
<1>4. ASSUME NEW d \in G, NEW ref
      PROVE  /\ MatchOne(d, ref, tasks) \in G
             /\ \E t \in V : /\ ref \in ToSet(d.left) => t = ref
                             /\ MatchOne(d, ref, tasks).found = Append(d.found, t)
                             /\ ToSet(MatchOne(d, ref, tasks).left) = ToSet(d.left) \ {t}
  <2> DEFINE t == TaskFor(d.left, ref, tasks)
             K == Keeping(d.left, ToSet(d.left) \ {t})
  <2>1. d.left \in Seq(V) /\ d.found \in Seq(V)
    OBVIOUS
  <2>2. t \in V /\ (ref \in ToSet(d.left) => t = ref)
    BY <2>1, TaskForIsOne
  <2>3. MatchOne(d, ref, tasks) = [left |-> K, found |-> Append(d.found, t)]
    BY DEF MatchOne
  <2> HIDE DEF t
  <2>4. K \in Seq(V) /\ ToSet(K) = ToSet(d.left) \cap (ToSet(d.left) \ {t})
    <3> HIDE DEF V
    <3> QED
      BY <2>1, KeepingElements
  <2> HIDE DEF K, V
  <2> QED
    BY <2>1, <2>2, <2>3, <2>4
<1> HIDE DEF G
<1>5. F \in [G \X (1 .. n) -> G]
  BY <1>4
<1>6. \A d \in G, i \in 1 .. n : F[<<d, i>>] = MatchOne(d, own[i], tasks)
  OBVIOUS
<1> HIDE DEF F
<1>7. PICK f \in [SUBSET (1 .. n) -> G] : FoldOf(f, n, r, F)
  <2>1. n \in Nat
    BY <1>2
  <2> HIDE DEF n
  <2> QED
    BY <1>3, <1>5, <2>1, FoldExists
<1>8. ASSUME NEW T \in SUBSET (1 .. n), T # {}
      PROVE  /\ Max(T) \in 1 .. n /\ Max(T) \in T
             /\ T \ {Max(T)} \in SUBSET (1 .. n)
             /\ T \ {Max(T)} \in SUBSET (1 .. Max(T) - 1)
  <2> HIDE DEF n
  <2> QED
    BY <1>2, <1>8, LastPosition
<1>9. f = [S \in SUBSET DOMAIN own |->
             IF S = {} THEN r ELSE MatchOne(f[S \ {Max(S)}], own[Max(S)], tasks)]
  <2>1. ASSUME NEW T \in SUBSET (1 .. n)
        PROVE  f[T] = IF T = {} THEN r
                      ELSE MatchOne(f[T \ {Max(T)}], own[Max(T)], tasks)
    <3>1. CASE T = {}
      BY <1>7, <3>1 DEF FoldOf
    <3>2. CASE T # {}
      <4>1. f[T \ {Max(T)}] \in G /\ Max(T) \in 1 .. n
        BY <1>8, <3>2
      <4>2. f[T] = F[<<f[T \ {Max(T)}], Max(T)>>]
        BY <1>7, <3>2 DEF FoldOf
      <4> QED
        BY <1>6, <3>2, <4>1, <4>2
    <3> QED
      BY <3>1, <3>2
  <2> QED
    BY <1>2, <2>1
<1>10. iter = [S \in SUBSET DOMAIN own |->
             IF S = {} THEN r ELSE MatchOne(iter[S \ {Max(S)}], own[Max(S)], tasks)]
  <2> DEFINE Is(h) == h = [S \in SUBSET DOMAIN own |->
             IF S = {} THEN r ELSE MatchOne(h[S \ {Max(S)}], own[Max(S)], tasks)]
  <2>1. Is(f)
    BY <1>9
  <2>2. iter = CHOOSE h : Is(h)
    BY Zenon
  <2> HIDE DEF Is, iter
  <2>3. Is(iter)
    BY <2>1, <2>2
  <2> QED
    BY <2>3 DEF Is
<1> HIDE DEF iter
<1>11. iter[{}] = r
  BY <1>10
<1> DEFINE Own == IsInjective(own) /\ ToSet(own) \subseteq V
           Upto(q, j) == /\ Len(q.found) = j
                         /\ Own => /\ \A i \in 1 .. j : q.found[i] = own[i]
                                   /\ \A i \in j + 1 .. n : own[i] \in ToSet(q.left)
           H == {w \in (SUBSET (1 .. n)) \X G : \A j \in 0 .. n : w[1] = 1 .. j => Upto(w[2], j)}
           g == [T \in SUBSET (1 .. n) |-> <<T, iter[T]>>]
<1>12. ASSUME NEW T \in SUBSET (1 .. n), T # {}, g[T \ {Max(T)}] \in H
       PROVE  g[T] \in H
  <2> DEFINE m == Max(T)
             U == T \ {Max(T)}
             d == iter[U]
             q == iter[T]
  <2>1. m \in 1 .. n /\ U \in SUBSET (1 .. n) /\ m \in T /\ U \in SUBSET (1 .. m - 1)
    BY <1>8, <1>12
  <2>2. g[U] = <<U, d>> /\ g[T] = <<T, q>>
    BY <2>1
  <2>3. d \in G /\ \A j \in 0 .. n : U = 1 .. j => Upto(d, j)
    BY <1>12, <2>2
  <2>4. q = MatchOne(d, own[m], tasks)
    BY <1>2, <1>10, <1>12, <2>1
  <2>5. U = T \ {m}
    OBVIOUS
  <2> HIDE DEF m, U, d, q, Own
  <2>6. q \in G
    BY <1>4, <2>3, <2>4
  <2>7. PICK t \in V : /\ own[m] \in ToSet(d.left) => t = own[m]
                       /\ q.found = Append(d.found, t)
                       /\ ToSet(q.left) = ToSet(d.left) \ {t}
    BY <1>4, <2>3, <2>4
  <2>8. ASSUME NEW j \in 0 .. n, T = 1 .. j
        PROVE  Upto(q, j)
    <3>1. m = j /\ j \in 1 .. n /\ U = 1 .. j - 1 /\ j - 1 \in 0 .. n
      BY <1>2, <2>1, <2>5, <2>8
    <3>2. Upto(d, j - 1)
      BY <2>3, <3>1
    <3>3. d.found \in Seq(V) /\ Len(d.found) = j - 1
      BY <2>3, <3>2 DEF G
    <3>4. Len(q.found) = j /\ q.found[j] = t /\ \A i \in 1 .. j - 1 : q.found[i] = d.found[i]
      <4> HIDE DEF V
      <4> QED
        BY <2>7, <3>1, <3>3
    <3>5. ASSUME Own
          PROVE  /\ \A i \in 1 .. j : q.found[i] = own[i]
                 /\ \A i \in j + 1 .. n : own[i] \in ToSet(q.left)
      <4>1. /\ \A i \in 1 .. j - 1 : d.found[i] = own[i]
            /\ \A i \in j .. n : own[i] \in ToSet(d.left)
        BY <1>2, <3>1, <3>2, <3>5
      <4>2. t = own[j]
        BY <2>7, <3>1, <4>1
      <4>3. \A i \in j + 1 .. n : own[i] # own[j]
        BY <1>2, <3>1, <3>5 DEF Own, IsInjective
      <4>4. \A i \in 1 .. j : i = j \/ i \in 1 .. j - 1
        BY <3>1
      <4> QED
        BY <2>7, <3>1, <3>4, <4>1, <4>2, <4>3, <4>4
    <3> QED
      BY <3>4, <3>5
  <2> HIDE DEF Upto
  <2> QED
    BY <2>2, <2>6, <2>8
<1>13. g[{}] \in H
  <2>1. g[{}] = <<{}, r>>
    BY <1>11
  <2>2. ASSUME NEW j \in 0 .. n, {} = 1 .. j
        PROVE  Upto(r, j)
    <3>1. j = 0
      BY <1>2, <2>2
    <3>2. Len(r.found) = 0
      BY <1>3
    <3>3. Own => \A i \in 1 .. n : own[i] \in ToSet(r.left)
      BY <1>2, <1>3 DEF ToSet
    <3> HIDE DEF Own
    <3> QED
      BY <3>1, <3>2, <3>3
  <2> HIDE DEF Upto
  <2> QED
    BY <1>3, <2>1, <2>2
<1>14. \A T \in SUBSET (1 .. n) : g[T] \in H
  <2> HIDE DEF n, H, g
  <2> QED
    BY <1>2, <1>12, <1>13, FoldStays
<1>15. DOMAIN own \in SUBSET (1 .. n) /\ g[DOMAIN own] = <<1 .. n, iter[DOMAIN own]>>
  BY <1>2
<1>16. iter[DOMAIN own] \in G /\ Upto(iter[DOMAIN own], n)
  <2>1. n \in 0 .. n
    BY <1>2
  <2> HIDE DEF g, Upto, n
  <2> QED
    BY <1>14, <1>15, <2>1
<1> QED
  BY <1>1, <1>2, <1>16 DEF G

\* The offers of a lookup are saved with its registry, when none of them waits.
LEMMA AttachHolds ==
    ASSUME PreparationInv, Attach
    PROVE  PreparationInv'
<1> DEFINE done == [ref \in DOMAIN fresh |-> [fresh[ref] EXCEPT !.status = Status(fresh[ref].offers)]]
<1>1. /\ stage = "node" /\ work = <<>> /\ packets' = Also(done, packets) /\ saved' = registry.bound
      /\ registry' = NewRegistry /\ fresh' = Empty /\ todo' = Batches(Tasks(plan)) /\ plan' = <<>>
      /\ stage' = "extract" /\ UNCHANGED <<life, since, work, links, drafted, accepted>>
  BY DEF Attach, graph, drafts, Snapshot
<1>2. /\ fresh \in PacketsT /\ packets \in PacketsT /\ plan \in Seq(Planned) /\ PreparationTypeOK
      /\ registry \in After(saved, {}) /\ OffersAreVisible
      /\ \A ref \in DOMAIN fresh : \A a \in ToSet(fresh[ref].offers) :
            Offers(ref, a) /\ InSight(life, since, ref, registry.bound[a])
  <2>1. ToSet(<<>>) = {}
    BY DEF ToSet
  <2> QED
    BY <1>1, <2>1 DEF PreparationInv, PreparationTypeOK, AliasInv, OfferInv, Looking, Reading, Waiting,
                      InSight, IsVisible
<1>3. PICK D \in SUBSET Candidate : fresh \in [D -> PacketT]
  BY <1>2 DEF PacketsT
<1>4. PICK P \in SUBSET Candidate : packets \in [P -> PacketT]
  BY <1>2 DEF PacketsT
<1>5. ASSUME NEW ref \in D
      PROVE  /\ done[ref] \in PacketT /\ done[ref].offers = fresh[ref].offers
             /\ done[ref].status = Status(fresh[ref].offers)
  <2>1. done[ref] = [fresh[ref] EXCEPT !.status = Status(fresh[ref].offers)]
    BY <1>3
  <2>2. fresh[ref] \in PacketT /\ Status(fresh[ref].offers) \in Statuses
    BY <1>3 DEF Status, Statuses
  <2> HIDE DEF done
  <2> QED
    BY <2>1, <2>2 DEF PacketT
<1>6. DOMAIN done = D
  BY <1>3
<1> HIDE DEF done
<1>7. packets' = [ref \in D \cup P |-> IF ref \in D THEN done[ref] ELSE packets[ref]]
  BY <1>1, <1>4, <1>6 DEF Also
<1>8. packets' \in [D \cup P -> PacketT] /\ D \cup P \in SUBSET Candidate
  BY <1>4, <1>5, <1>7
<1>9. /\ DOMAIN packets' = D \cup P /\ \A ref \in D : packets'[ref] = done[ref]
      /\ \A ref \in P \ D : packets'[ref] = packets[ref]
  BY <1>7
<1>10. Empty \in PacketsT /\ DOMAIN Empty = {}
  <2>1. Empty \in [{} -> PacketT] /\ DOMAIN Empty = {}
    BY DEF Empty
  <2> QED
    BY <2>1 DEF PacketsT
<1>11. PreparationTypeOK'
  <2>1. packets' \in PacketsT
    BY <1>8 DEF PacketsT
  <2> QED
    BY <1>1, <1>2, <1>10, <2>1 DEF PreparationTypeOK
<1>12. AliasInv'
  <2>1. Sane(registry.bound)
    BY <1>2, AfterType
  <2>2. stage' \notin Looking
    BY <1>1 DEF Looking, Reading
  <2> QED
    BY <1>1, <2>1, <2>2, NewIsAfter DEF AliasInv
<1>13. PlanInv'
  <2>1. Tasks(plan) \in Seq(Extracted)
    <3>1. Tasks(plan) \in Seq(Planned \cap Extracted)
      BY <1>2, KeepingElements DEF Tasks, Extracted
    <3>2. Planned \cap Extracted \subseteq Extracted
      OBVIOUS
    <3> QED
      BY <3>1, <3>2
  <2>2. todo' \in Seq(Seq(Extracted) \ {<<>>})
    BY <1>1, <2>1, BatchesHaveTasks
  <2> QED
    BY <1>1, <2>2 DEF PlanInv
<1>14. OfferInv'
  BY <1>1 DEF OfferInv, Looking, Reading
<1>15. OffersAreVisible'
  <2>1. ASSUME NEW ref \in D \cup P
        PROVE  /\ packets'[ref].status = Status(packets'[ref].offers)
               /\ \A i \in DOMAIN packets'[ref].offers :
                     /\ packets'[ref].offers[i] \in DOMAIN saved'
                     /\ saved'[packets'[ref].offers[i]] \in ToSet(Matching[ref]) \ {Owner}
                     /\ InSight(life', since', ref, saved'[packets'[ref].offers[i]])
    <3>1. CASE ref \in D
      <4>1. packets'[ref].offers = fresh[ref].offers /\ packets'[ref].status = Status(fresh[ref].offers)
        BY <1>5, <1>9, <3>1
      <4>2. ASSUME NEW i \in DOMAIN fresh[ref].offers
            PROVE  /\ fresh[ref].offers[i] \in DOMAIN registry.bound
                   /\ registry.bound[fresh[ref].offers[i]] \in ToSet(Matching[ref]) \ {Owner}
                   /\ InSight(life, since, ref, registry.bound[fresh[ref].offers[i]])
        <5>1. fresh[ref].offers[i] \in ToSet(fresh[ref].offers) /\ ref \in DOMAIN fresh
          BY <1>3, <3>1 DEF ToSet
        <5> QED
          BY <1>2, <5>1 DEF Offers
      <4> QED
        BY <1>1, <4>1, <4>2
    <3>2. CASE ref \in P \ D
      <4>1. packets'[ref] = packets[ref] /\ ref \in DOMAIN packets \ DOMAIN fresh
        BY <1>3, <1>4, <1>9, <3>2
      <4>2. packets[ref].status = Status(packets[ref].offers)
        BY <1>2, <4>1 DEF OffersAreVisible
      <4>3. ASSUME NEW i \in DOMAIN packets[ref].offers
            PROVE  /\ packets[ref].offers[i] \in DOMAIN registry.bound
                   /\ registry.bound[packets[ref].offers[i]] \in ToSet(Matching[ref]) \ {Owner}
                   /\ InSight(life, since, ref, registry.bound[packets[ref].offers[i]])
        <5>1. /\ packets[ref].offers[i] \in DOMAIN saved
              /\ saved[packets[ref].offers[i]] \in ToSet(Matching[ref]) \ {Owner}
              /\ InSight(life, since, ref, saved[packets[ref].offers[i]])
          BY <1>2, <4>1 DEF OffersAreVisible, InSight, IsVisible
        <5>2. Extends(saved, registry.bound)
          BY <1>2, AfterType
        <5> QED
          BY <5>1, <5>2 DEF Extends
      <4> QED
        BY <1>1, <4>1, <4>2, <4>3
    <3> QED
      BY <3>1, <3>2
  <2> QED
    BY <1>9, <2>1 DEF OffersAreVisible, InSight, IsVisible
<1> QED
  BY <1>11, <1>12, <1>13, <1>14, <1>15 DEF PreparationInv

\* A candidate has the ref of a task of its batch.
LEMMA EnrichedDrafts ==
    ASSUME NEW tasks \in Seq(Extracted), tasks # <<>>, NEW Y, NEW own \in Seq(Y)
    PROVE  Enriched(own, tasks) \in Seq(DraftT)
<1> DEFINE refs == Matched(own, tasks)
           named == IsInjective(own) /\ ToSet(own) \subseteq ToSet(tasks)
<1>1. /\ refs \in Seq(ToSet(tasks)) /\ Len(refs) = Len(own)
      /\ named => \A i \in DOMAIN own : refs[i] = own[i]
  BY MatchedTasks
<1>2. DOMAIN own = 1 .. Len(own) /\ Len(own) \in Nat /\ DOMAIN refs = 1 .. Len(own)
  BY <1>1
<1>3. Enriched(own, tasks) = [i \in 1 .. Len(own) |-> [ref |-> refs[i], of |-> IF named THEN own[i] ELSE None]]
  BY DEF Enriched
<1> HIDE DEF refs, named
<1>4. \A i \in 1 .. Len(own) : refs[i] \in Extracted
  <2>1. ToSet(tasks) \subseteq Extracted
    BY ElementsOfSeq
  <2> QED
    BY <1>1, <1>2, <2>1, ElementsOfSeq
<1>5. ASSUME NEW i \in 1 .. Len(own)
      PROVE  [ref |-> refs[i], of |-> IF named THEN own[i] ELSE None] \in DraftT
  <2> DEFINE o == IF named THEN own[i] ELSE None
  <2>1. refs[i] \in Extracted /\ o \in {None, refs[i]}
    BY <1>1, <1>2, <1>4
  <2> HIDE DEF o
  <2>2. refs[i] \in Candidate
    BY <2>1 DEF Extracted
  <2>3. [ref |-> refs[i], of |-> o] \in [ref : Extracted, of : Candidate \cup {None}]
    BY <2>1, <2>2
  <2>4. [ref |-> refs[i], of |-> o].ref = refs[i] /\ [ref |-> refs[i], of |-> o].of = o
    OBVIOUS
  <2>5. [ref |-> refs[i], of |-> o] \in DraftT
    BY <2>1, <2>3, <2>4 DEF DraftT
  <2> QED
    BY <2>5 DEF o
<1> QED
  BY <1>2, <1>3, <1>5

\* A step of the extraction, which changes no offer and no registry
LEMMA DraftsHold ==
    ASSUME PreparationInv, stage = "extract", stage' \in {"extract", "resolve", "invalid"},
           UNCHANGED <<life, since, saved, packets, registry, fresh, work, links, plan>>,
           drafted' \in Seq(DraftT), accepted' \in Seq(DraftT),
           stage' = "extract" => todo' \in Seq(Seq(Extracted) \ {<<>>})
    PROVE  PreparationInv'
<1>1. stage' \notin Looking \cup {"build", "refused"}
  BY DEF Looking, Reading
<1>2. PreparationTypeOK'
  BY DEF PreparationInv, PreparationTypeOK
<1>3. AliasInv'
  BY <1>1 DEF PreparationInv, AliasInv
<1>4. PlanInv'
  BY <1>1 DEF PreparationInv, PlanInv, Looking, Reading
<1>5. OfferInv'
  BY <1>1 DEF OfferInv, Looking
<1>6. OffersAreVisible'
  BY OffersSame
<1> QED
  BY <1>2, <1>3, <1>4, <1>5, <1>6 DEF PreparationInv

LEMMA ExtractBatchHolds ==
    ASSUME PreparationInv, ExtractBatch
    PROVE  PreparationInv'
<1>1. PICK own \in SeqOf(ToSet(Head(todo)) \cup {None}, Len(Head(todo)) + 1) :
         drafted' = drafted \o Enriched(own, Head(todo))
  BY Zenon DEF ExtractBatch
<1>2. /\ stage = "extract" /\ todo # <<>> /\ todo' = Tail(todo)
      /\ UNCHANGED <<life, since, stage, saved, packets, registry, fresh, work, links, plan, accepted>>
  BY DEF ExtractBatch, graph, lookup
<1> DEFINE E == Seq(Extracted) \ {<<>>}
<1>3. todo \in Seq(E) /\ drafted \in Seq(DraftT) /\ accepted \in Seq(DraftT)
  BY <1>2 DEF PreparationInv, PreparationTypeOK, PlanInv
<1>4. Head(todo) \in E /\ Tail(todo) \in Seq(E)
  <2> HIDE DEF E
  <2> QED
    BY <1>2, <1>3
<1>5. own \in Seq(ToSet(Head(todo)) \cup {None})
  BY DEF SeqOf
<1>6. Enriched(own, Head(todo)) \in Seq(DraftT)
  BY <1>4, <1>5, EnrichedDrafts
<1>7. drafted' \in Seq(DraftT)
  BY <1>1, <1>3, <1>6
<1> QED
  BY <1>2, <1>3, <1>4, <1>7, DraftsHold

LEMMA ValidateHolds ==
    ASSUME PreparationInv, Validate
    PROVE  PreparationInv'
<1>1. /\ stage = "extract" /\ drafted' = <<>>
      /\ accepted' \in {accepted, accepted \o drafted} /\ stage' \in {"resolve", "invalid"}
      /\ UNCHANGED <<life, since, saved, packets, registry, fresh, work, links, plan>>
  BY DEF Validate, graph, lookup
<1>2. drafted \in Seq(DraftT) /\ accepted \in Seq(DraftT)
  BY DEF PreparationInv, PreparationTypeOK
<1>3. accepted' \in Seq(DraftT) /\ drafted' \in Seq(DraftT)
  <2>1. accepted \o drafted \in Seq(DraftT)
    BY <1>2, ElementsOfConcat
  <2>2. <<>> \in Seq(DraftT)
    OBVIOUS
  <2> QED
    BY <1>1, <1>2, <2>1, <2>2
<1> QED
  BY <1>1, <1>3, DraftsHold

LEMMA PreparationNextHolds ==
    ASSUME PreparationInv, [PreparationNext]_preparationVars
    PROVE  PreparationInv'
<1>1. CASE UNCHANGED preparationVars
  <2>1. UNCHANGED <<life, since, stage, saved, packets, registry, fresh, work, links, plan, todo,
                    drafted, accepted>>
    BY <1>1 DEF preparationVars, graph, lookup, drafts
  <2>2. PreparationTypeOK' /\ AliasInv' /\ PlanInv'
    BY <2>1 DEF PreparationInv, PreparationTypeOK, AliasInv, PlanInv
  <2>3. OfferInv'
    BY <2>1 DEF PreparationInv, OfferInv, Offers, Waiting, IsVisible
  <2>4. OffersAreVisible'
    BY <2>1, OffersSame
  <2> QED
    BY <2>2, <2>3, <2>4 DEF PreparationInv
<1>2. ASSUME NEW x \in Things \ {Owner}, NEW l \in {"open", "private", "archived"}, Write(x, l)
      PROVE  PreparationInv'
  BY <1>2, WriteHolds
<1>3. CASE Reason \/ ModelFails \/ ModelAsks \/ LookupOwner \/ ReadFails
  <2>1. CASE Reason
    BY <2>1, GoesHolds DEF Reason
  <2>2. CASE ModelFails
    BY <2>2, GoesHolds DEF ModelFails
  <2>3. CASE ModelAsks
    BY <2>3, GoesHolds DEF ModelAsks
  <2>4. CASE LookupOwner
    BY <2>4, GoesHolds DEF LookupOwner
  <2>5. CASE ReadFails
    BY <2>5, GoesHolds DEF ReadFails
  <2> QED
    BY <1>3, <2>1, <2>2, <2>3, <2>4, <2>5
<1>4. CASE ExtractionRaises \/ ContentInvalid \/ MissEntity \/ Block \/ Finish
  <2>1. CASE ExtractionRaises
    BY <2>1, GoesHolds DEF ExtractionRaises
  <2>2. CASE ContentInvalid
    BY <2>2, GoesHolds DEF ContentInvalid
  <2>3. CASE MissEntity
    BY <2>3, GoesHolds DEF MissEntity
  <2>4. CASE Block
    BY <2>4, GoesHolds DEF Block
  <2>5. CASE Finish
    <3> DEFINE s == IF UniqueRefs(accepted) THEN "ready" ELSE "invalid"
    <3>1. Goes(s) /\ s \in {"ready", "invalid"}
      BY <2>5 DEF Finish
    <3> HIDE DEF s
    <3> QED
      BY <3>1, GoesHolds
  <2> QED
    BY <1>4, <2>1, <2>2, <2>3, <2>4, <2>5
<1>5. CASE Build
  BY <1>5, BuildHolds
<1>6. CASE Plan
  BY <1>6, PlanHolds
<1>7. CASE Lookup
  BY <1>7, LookupHolds
<1>8. CASE SkipUntyped
  BY <1>8, SkipUntypedHolds
<1>9. CASE HydrateNode
  BY <1>9, HydrateNodeHolds
<1>10. CASE HydrateLinks
  BY <1>10, HydrateLinksHolds
<1>11. CASE HydrateLink
  BY <1>11, HydrateLinkHolds
<1>12. CASE HydrateLogs
  BY <1>12, HydrateLogsHolds
<1>13. CASE RegistryRefuses
  BY <1>13, RegistryRefusesHolds
<1>14. CASE Attach
  BY <1>14, AttachHolds
<1>15. CASE ExtractBatch
  BY <1>15, ExtractBatchHolds
<1>16. CASE Validate
  BY <1>16, ValidateHolds
<1> QED
  BY <1>1, <1>2, <1>3, <1>4, <1>5, <1>6, <1>7, <1>8, <1>9, <1>10, <1>11, <1>12, <1>13, <1>14, <1>15, <1>16
     DEF PreparationNext

\* The registry is saved by two steps.
LEMMA SavedByTwo ==
    ASSUME [PreparationNext]_preparationVars
    PROVE  saved' = saved \/ Build \/ Attach
BY DEF PreparationNext, preparationVars, Write, Reason, ModelFails, ModelAsks, Plan, Lookup, SkipUntyped,
       LookupOwner, ReadFails, HydrateNode, HydrateLinks, HydrateLink, HydrateLogs, RegistryRefuses,
       ExtractBatch, ExtractionRaises, Validate, ContentInvalid, MissEntity, Block, Finish, Goes, NextLookup,
       ContinueAt

-----------------------------------------------------------------------------
(* Theorems *)

\* The registries that an ingestion restores and saves bind each object once and
\* to a fitting alias, count what they gave out, and the offers of a lookup are
\* nodes that match and were visible when they were read.
THEOREM PreparationInvariant == PreparationSpec => []PreparationInv
<1>1. PreparationInit => PreparationInv
  BY InitHolds
<1>2. PreparationInv /\ [PreparationNext]_preparationVars => PreparationInv'
  BY PreparationNextHolds
<1> QED
  BY <1>1, <1>2, PTL DEF PreparationSpec

\* The registry that is saved for the next lookup extends the one before: an
\* alias that a model has seen keeps its object (from_snapshot, _store_entry),
\* and no object gets a second one.
THEOREM AliasesKeepTheirObjectHolds == PreparationSpec => AliasesKeepTheirObject
<1> DEFINE Keeps == /\ \A a \in DOMAIN saved : a \in DOMAIN saved' /\ saved'[a] = saved[a]
                    /\ \A a, b \in DOMAIN saved' : saved'[a] = saved'[b] /\ saved'[a] # Local => a = b
<1>1. ASSUME PreparationInv, PreparationInv', [PreparationNext]_preparationVars
      PROVE  Keeps
  <2>1. Extends(saved, saved')
    <3>1. CASE saved' = saved
      BY <3>1 DEF Extends
    <3>2. CASE Build
      <4>1. saved = Empty
        BY <1>1, <3>2 DEF Build, PreparationInv, AliasInv
      <4> QED
        BY <4>1, ExtendsAll
    <3>3. CASE Attach
      <4>1. saved' = registry.bound /\ registry \in After(saved, {})
        BY <1>1, <3>3 DEF Attach, Snapshot, PreparationInv, AliasInv, Looking, Reading
      <4> QED
        BY <4>1, AfterType
    <3>4. saved' = saved \/ Build \/ Attach
      BY <1>1, SavedByTwo
    <3> QED
      BY <3>1, <3>2, <3>3, <3>4
  <2>2. OneAlias(saved')
    BY <1>1 DEF PreparationInv, AliasInv, Sane
  <2> QED
    BY <2>1, <2>2 DEF Extends, OneAlias
<1>2. PreparationInv /\ PreparationInv' /\ [PreparationNext]_preparationVars => [Keeps]_preparationVars
  BY <1>1
<1>3. AliasesKeepTheirObject <=> [][Keeps]_preparationVars
  BY DEF AliasesKeepTheirObject
<1> HIDE DEF Keeps
<1> QED
  BY <1>2, <1>3, PreparationInvariant, PTL DEF PreparationSpec

\* What a lookup offers (hydrate_packets) can be resolved with the registry that
\* was saved with it, and its registry refuses memory logs only, however others
\* write to the graph between the reads.
THEOREM LookupsAreSoundHolds == PreparationSpec => []LookupsAreSound
<1>1. PreparationInv => LookupsAreSound
  BY DEF PreparationInv, AliasInv, LookupsAreSound
<1> QED
  BY <1>1, PreparationInvariant, PTL

\* Whatever a model drafts, for any batch size, a candidate that is handed on has
\* the ref of a planned entity with a type, and drafts that name a task each get
\* their own (_match_tasks_for_drafts).
THEOREM DraftsKeepTargetsHolds == PreparationSpec => []DraftsKeepTargets
<1>1. ASSUME PreparationInv
      PROVE  DraftsKeepTargets
  <2>1. accepted \in Seq(DraftT)
    BY <1>1 DEF PreparationInv, PreparationTypeOK
  <2>2. \A i \in DOMAIN accepted : accepted[i] \in DraftT
    BY <2>1
  <2> QED
    BY <2>2 DEF DraftsKeepTargets, DraftT, Extracted
<1> QED
  BY <1>1, PreparationInvariant, PTL

=============================================================================
