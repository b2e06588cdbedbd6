---------------------------- MODULE AgentProofs -----------------------------
(***************************************************************************)
(* Proofs about what an agent runs and what it finds: AgenticFrames, for   *)
(* any number of frames and questions, with and without exceptions, and    *)
(* MemorySearch, for any graph and any writes while a search runs.         *)
(***************************************************************************)
EXTENDS AgenticFrames, MemorySearch, Integers, SetLemmas, FiniteSetTheorems, SequenceTheorems, TLAPS

FrameT == [state : States, parent : Frames \cup {NoFrame}, open : BOOLEAN, continues : BOOLEAN,
           status : {"none", "unsaved", "interrupted", "waiting_child", "completed", "error"}]

\* The frames that have started are the first ones, and parents are among them.
Begun(fs) == {f \in Frames : fs[f].status # "none"}
FramesOK(fs) ==
    /\ fs \in [Frames -> FrameT]
    /\ \A f \in Begun(fs), g \in Frames \ Begun(fs) : f < g
    /\ \A f \in Frames : fs[f].parent \in Begun(fs) \cup {NoFrame}

EntryT(fs) == [frame : Begun(fs), how : {"fresh", "resumed", "continued"}, continues : BOOLEAN,
               calling : BOOLEAN, pending : Begun(fs) \cup {NoFrame}]

TypeOK ==
    /\ FramesOK(frames)
    /\ stack \in Seq(EntryT(frames))
    /\ control \in {"idle", "run", "unwind", "raise"}
    /\ control = "idle" <=> stack = <<>>
    /\ asking \in Begun(frames) \cup {NoFrame} /\ (control = "unwind" => asking # NoFrame)
    /\ asked \in Nat /\ raised \in BOOLEAN /\ twice \in BOOLEAN

-----------------------------------------------------------------------------
(* How the stack grows and shrinks *)

Push(s, e, c) == SubSeq(s, 1, Len(s) - 1) \o <<e, c>>
Pop(s)        == SubSeq(s, 1, Len(s) - 1)
Return(s, e)  == Append(SubSeq(s, 1, Len(s) - 2), e)

\* The last entry is replaced by e, and c is put on top;
PushedOn(s, t, e, c) ==
    /\ Len(s) \in Nat /\ Len(s) >= 1 /\ DOMAIN s = 1 .. Len(s)
    /\ Len(t) = Len(s) + 1 /\ DOMAIN t = 1 .. Len(s) + 1 /\ t # <<>>
    /\ t[Len(s)] = e /\ t[Len(s) + 1] = c
    /\ \A i \in 1 .. Len(s) - 1 : t[i] = s[i]

\* the last entry is taken off;
PoppedFrom(s, t) ==
    /\ Len(s) \in Nat /\ Len(s) >= 1 /\ DOMAIN s = 1 .. Len(s)
    /\ Len(t) = Len(s) - 1 /\ DOMAIN t = 1 .. Len(s) - 1 /\ (t = <<>> <=> Len(s) = 1)
    /\ \A i \in 1 .. Len(s) - 1 : t[i] = s[i]

\* it is taken off and the one before is replaced by e.
ReturnedTo(s, t, e) ==
    /\ Len(s) \in Nat /\ Len(s) > 1 /\ DOMAIN s = 1 .. Len(s)
    /\ Len(t) = Len(s) - 1 /\ DOMAIN t = 1 .. Len(s) - 1 /\ t # <<>>
    /\ t[Len(s) - 1] = e
    /\ \A i \in 1 .. Len(s) - 2 : t[i] = s[i]

LEMMA Prefix ==
    ASSUME NEW T, NEW s \in Seq(T), NEW n \in 0 .. Len(s)
    PROVE  /\ SubSeq(s, 1, n) \in Seq(T) /\ Len(SubSeq(s, 1, n)) = n
           /\ \A i \in 1 .. n : SubSeq(s, 1, n)[i] = s[i]
OBVIOUS

LEMMA Popped ==
    ASSUME NEW T, NEW s \in Seq(T), s # <<>>
    PROVE  Pop(s) \in Seq(T) /\ PoppedFrom(s, Pop(s))
<1> DEFINE t == Pop(s)
<1>1. Len(s) \in Nat /\ Len(s) >= 1 /\ DOMAIN s = 1 .. Len(s) /\ Len(s) - 1 \in 0 .. Len(s)
  OBVIOUS
<1>2. /\ t \in Seq(T) /\ Len(t) = Len(s) - 1
      /\ \A i \in 1 .. Len(s) - 1 : t[i] = s[i]
  <2> DEFINE n == Len(s) - 1
  <2>1. n \in 0 .. Len(s) /\ t = SubSeq(s, 1, n)
    BY <1>1 DEF Pop
  <2> HIDE DEF n
  <2>2. /\ t \in Seq(T) /\ Len(t) = n
        /\ \A i \in 1 .. n : t[i] = s[i]
    BY <2>1, Prefix
  <2> QED
    BY <2>2 DEF n
<1>3. t = <<>> <=> Len(t) = 0
  BY <1>2, EmptySeq
<1> QED
  BY <1>1, <1>2, <1>3 DEF PoppedFrom

LEMMA Pushed ==
    ASSUME NEW T, NEW s \in Seq(T), s # <<>>, NEW e \in T, NEW c \in T
    PROVE  Push(s, e, c) \in Seq(T) /\ Push(s, e, c) # <<>> /\ PushedOn(s, Push(s, e, c), e, c)
<1> DEFINE t == Push(s, e, c)
<1> DEFINE r == SubSeq(s, 1, Len(s) - 1)
           n == Len(s)
<1>1. /\ n \in Nat /\ n >= 1 /\ DOMAIN s = 1 .. n
      /\ r \in Seq(T) /\ Len(r) = n - 1 /\ \A i \in 1 .. n - 1 : r[i] = s[i]
  BY Popped DEF PoppedFrom, Pop
<1> DEFINE u == <<e, c>>
<1>2. u \in Seq(T) /\ Len(u) = 2 /\ u[1] = e /\ u[2] = c
  OBVIOUS
<1> HIDE DEF r, u, n
<1>3. t = r \o u
  BY DEF r, u, Push
<1> HIDE DEF t
<1>10. /\ (r \o u) \in Seq(T) /\ Len(r \o u) = Len(r) + Len(u)
      /\ \A i \in 1 .. Len(r) + Len(u) : (r \o u)[i] = IF i <= Len(r) THEN r[i] ELSE u[i - Len(r)]
  BY <1>1, <1>2, ConcatProperties, Zenon
<1>4. /\ t \in Seq(T) /\ Len(t) = Len(r) + Len(u)
      /\ \A i \in 1 .. Len(r) + Len(u) : t[i] = IF i <= Len(r) THEN r[i] ELSE u[i - Len(r)]
  BY <1>3, <1>10, Zenon
<1>5. ASSUME NEW i \in 1 .. Len(r)
      PROVE  t[i] = r[i]
  <2>1. Len(r) \in Nat /\ Len(u) = 2
    BY <1>1, <1>2
  <2>2. i \in 1 .. Len(r) + Len(u) /\ i <= Len(r)
    BY <2>1
  <2> QED
    BY <1>4, <2>2
<1>6. \A i \in Len(r) + 1 .. Len(r) + Len(u) : t[i] = u[i - Len(r)]
  BY <1>1, <1>2, <1>4
<1>7. t[n] = e
  <2>1. n \in Len(r) + 1 .. Len(r) + Len(u) /\ n - Len(r) = 1
    BY <1>1, <1>2
  <2> QED
    BY <1>2, <1>6, <2>1
<1>8. t[n + 1] = c
  <2>1. n + 1 \in Len(r) + 1 .. Len(r) + Len(u) /\ (n + 1) - Len(r) = 2
    BY <1>1, <1>2
  <2> QED
    BY <1>2, <1>6, <2>1
<1>9. Len(t) = n + 1 /\ DOMAIN t = 1 .. n + 1 /\ t # <<>>
  BY <1>1, <1>2, <1>4
<1> QED
  BY <1>1, <1>3, <1>4, <1>5, <1>7, <1>8, <1>9 DEF n, t, PushedOn

LEMMA Returned ==
    ASSUME NEW T, NEW s \in Seq(T), Len(s) > 1, NEW e \in T
    PROVE  Return(s, e) \in Seq(T) /\ Return(s, e) # <<>> /\ ReturnedTo(s, Return(s, e), e)
<1> DEFINE t == Return(s, e)
<1> DEFINE r == SubSeq(s, 1, Len(s) - 2)
           n == Len(s) - 2
<1>1. n \in Nat /\ n \in 0 .. Len(s) /\ DOMAIN s = 1 .. Len(s) /\ Len(s) \in Nat /\ Len(s) = n + 2
  OBVIOUS
<1>2. r = SubSeq(s, 1, n) /\ t = Append(r, e)
  BY DEF Return
<1> HIDE DEF n, r, t
<1>3. r \in Seq(T) /\ Len(r) = n /\ \A i \in 1 .. n : r[i] = s[i]
  BY <1>1, <1>2, Prefix
<1>4. /\ t \in Seq(T) /\ Len(t) = n + 1 /\ DOMAIN t = 1 .. n + 1 /\ t # <<>> /\ t[n + 1] = e
      /\ \A i \in 1 .. n : t[i] = r[i]
  <2>1. t = Append(r, e) /\ r \in Seq(T) /\ Len(r) = n /\ n \in Nat
    BY <1>1, <1>2, <1>3
  <2>2. t \in Seq(T) /\ Len(t) = n + 1 /\ t[n + 1] = e
    BY <2>1
  <2>3. \A i \in 1 .. n : t[i] = r[i]
    BY <2>1
  <2> QED
    BY <2>1, <2>2, <2>3
<1>5. Len(s) - 1 = n + 1 /\ Len(s) - 2 = n
  BY <1>1
<1> QED
  BY <1>1, <1>3, <1>4, <1>5 DEF ReturnedTo, t

-----------------------------------------------------------------------------
(* Types *)

LEMMA Grown ==
    ASSUME NEW fs, NEW gs, Begun(fs) \subseteq Begun(gs), NEW s \in Seq(EntryT(fs))
    PROVE  s \in Seq(EntryT(gs))
<1>1. EntryT(fs) \subseteq EntryT(gs)
  BY DEF EntryT
<1> QED
  BY <1>1

LEMMA RowWritten ==
    ASSUME NEW fs, FramesOK(fs), NEW f \in Begun(fs), NEW r \in FrameT, r.status # "none",
           r.parent \in Begun(fs) \cup {NoFrame}
    PROVE  FramesOK([fs EXCEPT ![f] = r]) /\ Begun([fs EXCEPT ![f] = r]) = Begun(fs)
<1>1. f \in Frames /\ fs \in [Frames -> FrameT] /\ fs[f].status # "none"
  BY DEF FramesOK, Begun
<1>2. Begun([fs EXCEPT ![f] = r]) = Begun(fs)
  BY <1>1 DEF Begun
<1> QED
  BY <1>1, <1>2 DEF FramesOK

LEMMA RowStarted ==
    ASSUME NEW fs, FramesOK(fs), NEW f \in Frames, f \notin Begun(fs),
           \A g \in 1 .. (f - 1) : g \in Begun(fs),
           NEW state \in States, NEW parent \in Begun(fs) \cup {NoFrame}
    PROVE  /\ FramesOK([fs EXCEPT ![f] = Started(state, parent)])
           /\ Begun([fs EXCEPT ![f] = Started(state, parent)]) = Begun(fs) \cup {f}
           /\ \A g \in Begun(fs) : g < f
<1> DEFINE r == Started(state, parent)
           gs == [fs EXCEPT ![f] = r]
<1>1. fs \in [Frames -> FrameT] /\ \A g \in Begun(fs) : g < f
  BY DEF FramesOK
<1>2. r \in FrameT /\ r.status = "unsaved" /\ r.parent = parent
  BY DEF Started, FrameT, Begun
<1> HIDE DEF r
<1>3. Begun(gs) = Begun(fs) \cup {f}
  BY <1>1, <1>2 DEF Begun
<1>4. \A g \in Begun(gs), h \in Frames \ Begun(gs) : g < h
  <2>1. \A h \in Frames \ Begun(gs) : f < h
    BY <1>3, FramesAssumption DEF Frames
  <2> QED
    BY <1>3, <2>1 DEF FramesOK
<1> QED
  BY <1>1, <1>2, <1>3, <1>4 DEF FramesOK, r

\* What a caller saves of itself and of the frame that asks
LEMMA InterruptedRows ==
    ASSUME TypeOK, control = "unwind", NEW gs, gs = Interrupted(frames)
    PROVE  /\ FramesOK(gs) /\ Begun(gs) = Begun(frames)
           /\ \A f \in Frames : /\ gs[f].parent = frames[f].parent /\ gs[f].state = frames[f].state
                                /\ f \notin {Top.frame, asking} => gs[f] = frames[f]
           /\ gs[asking].status = "interrupted"
           /\ Top.frame # asking =>
                 /\ gs[Top.frame].status = "waiting_child" /\ gs[Top.frame].open = Top.calling
                 /\ gs[Top.frame].continues = Top.continues /\ gs[asking].open = frames[asking].open
<1> DEFINE t == Top.frame
           r == [frames[t] EXCEPT !.status = "waiting_child", !.open = Top.calling,
                                  !.continues = Top.continues]
           hs == [frames EXCEPT ![t] = r]
           q == [hs[asking] EXCEPT !.status = "interrupted"]
<1>1. /\ FramesOK(frames) /\ frames \in [Frames -> FrameT] /\ Top \in EntryT(frames)
      /\ t \in Begun(frames) /\ t \in Frames /\ asking \in Begun(frames) /\ asking \in Frames
  <2>1. FramesOK(frames) /\ frames \in [Frames -> FrameT] /\ asking \in Begun(frames)
    BY DEF TypeOK, FramesOK
  <2>2. stack \in Seq(EntryT(frames)) /\ stack # <<>>
    BY DEF TypeOK
  <2>3. Top \in EntryT(frames)
    BY <2>2 DEF Top
  <2>4. t \in Begun(frames)
    BY <2>3 DEF EntryT
  <2> QED
    BY <2>1, <2>3, <2>4 DEF Begun
<1>2. Top.calling \in BOOLEAN /\ Top.continues \in BOOLEAN /\ frames[t] \in FrameT
  BY <1>1 DEF EntryT
<1>3. /\ r \in FrameT /\ r.status = "waiting_child" /\ r.parent = frames[t].parent
      /\ r.state = frames[t].state /\ r.open = Top.calling /\ r.continues = Top.continues
  BY <1>2 DEF FrameT
<1>4. hs = Waiting(frames)
  <2>1. Waiting(frames) = [frames EXCEPT ![t] = [[[frames[t] EXCEPT !.status = "waiting_child"]
                              EXCEPT !.open = Top.calling] EXCEPT !.continues = Top.continues]]
    BY <1>1 DEF Waiting
  <2> QED
    BY <2>1, <1>2 DEF FrameT
<1> HIDE DEF r
<1>5. FramesOK(hs) /\ Begun(hs) = Begun(frames)
  BY <1>1, <1>3, RowWritten DEF FramesOK
<1>6. /\ hs \in [Frames -> FrameT] /\ hs[t] = r
      /\ \A f \in Frames : f # t => hs[f] = frames[f]
  BY <1>1, <1>3
<1> HIDE DEF hs
<1>7. /\ q \in FrameT /\ q.status = "interrupted" /\ q.parent = hs[asking].parent
      /\ q.state = hs[asking].state /\ q.open = hs[asking].open
  BY <1>1, <1>6 DEF FrameT
<1>8. gs = [hs EXCEPT ![asking] = q]
  BY <1>1, <1>4, <1>6 DEF Interrupted, Synchronized
<1> HIDE DEF q
<1>9. FramesOK(gs) /\ Begun(gs) = Begun(frames)
  <2>1. q.status # "none" /\ q.parent \in Begun(hs) \cup {NoFrame} /\ asking \in Begun(hs)
    BY <1>1, <1>5, <1>7 DEF FramesOK
  <2>2. /\ FramesOK([hs EXCEPT ![asking] = q])
        /\ Begun([hs EXCEPT ![asking] = q]) = Begun(hs)
    BY <1>5, <1>7, <2>1, RowWritten
  <2> QED
    BY <1>5, <1>8, <2>2
<1>10. gs[asking] = q /\ \A f \in Frames : f # asking => gs[f] = hs[f]
  BY <1>1, <1>6, <1>8
<1> HIDE DEF t
<1>11. \A f \in Frames : /\ gs[f].parent = frames[f].parent /\ gs[f].state = frames[f].state
                         /\ f \notin {t, asking} => gs[f] = frames[f]
  BY <1>3, <1>6, <1>7, <1>10
<1> QED
  BY <1>1, <1>3, <1>6, <1>7, <1>9, <1>10, <1>11 DEF t

LEMMA TopType ==
    ASSUME TypeOK, stack # <<>>
    PROVE  /\ Top \in EntryT(frames) /\ Top.frame \in Begun(frames) /\ Top.frame \in Frames
           /\ frames \in [Frames -> FrameT] /\ frames[Top.frame] \in FrameT
           /\ frames[Top.frame].status # "none"
           /\ Len(stack) \in Nat /\ Len(stack) >= 1 /\ DOMAIN stack = 1 .. Len(stack)
           /\ stack \in Seq(EntryT(frames)) /\ FramesOK(frames)
<1>1. FramesOK(frames) /\ frames \in [Frames -> FrameT]
  BY DEF TypeOK, FramesOK
<1>2. stack \in Seq(EntryT(frames))
  BY DEF TypeOK
<1>3. Top \in EntryT(frames) /\ Len(stack) \in Nat /\ Len(stack) >= 1
      /\ DOMAIN stack = 1 .. Len(stack)
  BY <1>2 DEF Top
<1>4. Top.frame \in Begun(frames)
  BY <1>3 DEF EntryT
<1> QED
  BY <1>1, <1>2, <1>3, <1>4 DEF Begun

LEMMA OnStackType ==
    ASSUME NEW fs, NEW f \in Begun(fs), NEW how \in {"fresh", "resumed", "continued"},
           NEW continues \in BOOLEAN
    PROVE  OnStack(f, how, continues) \in EntryT(fs)
BY DEF OnStack, EntryT

\* Nothing runs any more, or one frame does.
LEMMA OneOnStack ==
    ASSUME NEW T, NEW e \in T
    PROVE  <<e>> \in Seq(T) /\ <<e>> # <<>> /\ Len(<<e>>) = 1 /\ <<e>>[1] = e
                /\ DOMAIN <<e>> = {1}
OBVIOUS

LEMMA InitType == Init => TypeOK
<1> SUFFICES ASSUME Init
             PROVE  TypeOK
  OBVIOUS
<1>1. frames \in [Frames -> FrameT] /\ Begun(frames) = {}
  BY DEF Init, FrameT, States, Begun
<1>2. FramesOK(frames)
  BY <1>1 DEF FramesOK, Init
<1>3. stack \in Seq(EntryT(frames)) /\ stack = <<>>
  BY EmptySeq DEF Init
<1> QED
  BY <1>2, <1>3 DEF Init, TypeOK

LEMMA ReturnType ==
    ASSUME TypeOK, Len(stack) > 1, ReturnToCaller
    PROVE  /\ stack' \in Seq(EntryT(frames)) /\ stack' # <<>>
           /\ control' \in {"run", "unwind"} /\ asking' \in Begun(frames) \cup {NoFrame}
           /\ control' = "unwind" => asking' # NoFrame
           /\ Caller \in EntryT(frames)
<1> DEFINE e == [Caller EXCEPT !.calling = Caller.pending # NoFrame]
<1>1. stack \in Seq(EntryT(frames)) /\ Len(stack) \in Nat
  BY DEF TypeOK
<1>2. Caller \in EntryT(frames)
  BY <1>1 DEF Caller
<1>3. e \in EntryT(frames) /\ Caller.pending \in Begun(frames) \cup {NoFrame}
  BY <1>2 DEF EntryT
<1> HIDE DEF e
<1>4. stack' = Return(stack, e)
  BY DEF ReturnToCaller, e, Return
<1>5. stack' \in Seq(EntryT(frames)) /\ stack' # <<>>
  BY <1>1, <1>3, <1>4, Returned
<1> QED
  BY <1>2, <1>3, <1>5 DEF ReturnToCaller

\* The row of a frame that ends
LEMMA EndedRow ==
    ASSUME TypeOK, NEW f \in Begun(frames), NEW result \in {"ok", "error"},
           frames' = [frames EXCEPT ![f] = Completed(f, result)]
    PROVE  /\ FramesOK(frames') /\ Begun(frames') = Begun(frames)
           /\ frames'[f].status \in {"completed", "error"} /\ frames'[f].parent = frames[f].parent
           /\ \A g \in Frames \ {f} : frames'[g] = frames[g]
<1> DEFINE r == Completed(f, result)
<1>1. /\ FramesOK(frames) /\ frames \in [Frames -> FrameT] /\ f \in Frames
      /\ frames[f] \in FrameT /\ frames[f].parent \in Begun(frames) \cup {NoFrame}
  BY DEF TypeOK, FramesOK, Begun
<1>2. r \in FrameT /\ r.status \in {"completed", "error"} /\ r.parent = frames[f].parent
  BY <1>1 DEF Completed, FrameT
<1> HIDE DEF r
<1>3. frames' = [frames EXCEPT ![f] = r]
  BY DEF r
<1>4. FramesOK([frames EXCEPT ![f] = r]) /\ Begun([frames EXCEPT ![f] = r]) = Begun(frames)
  <2>1. r.status # "none" /\ r.parent \in Begun(frames) \cup {NoFrame}
    BY <1>1, <1>2
  <2> QED
    BY <1>1, <1>2, <2>1, RowWritten
<1>5. frames'[f] = r /\ \A g \in Frames \ {f} : frames'[g] = frames[g]
  BY <1>1, <1>3
<1> QED
  BY <1>2, <1>3, <1>4, <1>5

\* The first frame that has not started starts.
StartsIn(fs, gs, f, state, parent) ==
    /\ Begun(gs) = Begun(fs) \cup {f} /\ f \notin Begun(fs)
    /\ \A g \in Begun(fs) : g < f
    /\ gs[f] = Started(state, parent) /\ \A g \in Frames \ {f} : gs[g] = fs[g]

LEMMA StartType ==
    ASSUME TypeOK, NEW f \in Frames, Unstarted(f), NEW state \in States,
           NEW parent \in Begun(frames) \cup {NoFrame}, NEW gs,
           gs = [frames EXCEPT ![f] = Started(state, parent)]
    PROVE  FramesOK(gs) /\ Begun(gs) = Begun(frames) \cup {f} /\ StartsIn(frames, gs, f, state, parent)
<1>1. FramesOK(frames) /\ f \notin Begun(frames) /\ frames \in [Frames -> FrameT]
  BY DEF TypeOK, FramesOK, Unstarted, Begun
<1>2. \A g \in 1 .. (f - 1) : g \in Begun(frames)
  BY FramesAssumption DEF Unstarted, Begun, Frames
<1>3. /\ FramesOK(gs) /\ Begun(gs) = Begun(frames) \cup {f}
      /\ \A g \in Begun(frames) : g < f
  BY <1>1, <1>2, RowStarted
<1>4. gs[f] = Started(state, parent) /\ \A g \in Frames \ {f} : gs[g] = frames[g]
  BY <1>1
<1> QED
  BY <1>1, <1>3, <1>4 DEF StartsIn

LEMMA RunType == TypeOK /\ Run => TypeOK'
<1> SUFFICES ASSUME TypeOK, Run
             PROVE  TypeOK'
  OBVIOUS
<1>1. PICK f \in Frames :
         /\ Unstarted(f)
         /\ frames' = [frames EXCEPT ![f] = Started("conversation_entry", NoFrame)]
         /\ stack' = <<OnStack(f, "fresh", FALSE)>>
  BY DEF Run
<1>2. FramesOK(frames') /\ Begun(frames') = Begun(frames) \cup {f}
  <2>1. "conversation_entry" \in States /\ NoFrame \in Begun(frames) \cup {NoFrame}
    BY DEF States
  <2> QED
    BY <1>1, <2>1, StartType
<1>3. stack' \in Seq(EntryT(frames')) /\ stack' # <<>>
  <2>1. OnStack(f, "fresh", FALSE) \in EntryT(frames')
    BY <1>2, OnStackType
  <2> QED
    BY <1>1, <2>1, OneOnStack
<1> QED
  BY <1>2, <1>3 DEF TypeOK, Run

LEMMA CallChildType == TypeOK /\ CallChild => TypeOK'
<1> SUFFICES ASSUME TypeOK, CallChild
             PROVE  TypeOK'
  OBVIOUS
<1>0. stack # <<>> /\ control = "run"
  BY DEF TypeOK, CallChild
<1>1. PICK f \in Frames, child \in States \X BOOLEAN :
         /\ Unstarted(f)
         /\ frames' = [frames EXCEPT ![f] = Started(child[1], Top.frame)]
         /\ LET caller == [Top EXCEPT !.calling = child[2], !.continues = @ \/ ~child[2]]
            IN stack' = Rest \o <<caller, OnStack(f, "fresh", caller.continues)>>
  BY DEF CallChild
<1> DEFINE e == [Top EXCEPT !.calling = child[2], !.continues = @ \/ ~child[2]]
           c == OnStack(f, "fresh", e.continues)
<1>2. FramesOK(frames') /\ Begun(frames') = Begun(frames) \cup {f}
  <2> DEFINE state == child[1]
             parent == Top.frame
  <2>1. state \in States /\ parent \in Begun(frames) \cup {NoFrame}
    BY <1>0, TopType
  <2>2. Unstarted(f) /\ frames' = [frames EXCEPT ![f] = Started(state, parent)]
    BY <1>1
  <2> HIDE DEF state, parent
  <2> QED
    BY <2>1, <2>2, StartType
<1>3. stack \in Seq(EntryT(frames')) /\ Top \in EntryT(frames')
  <2>1. stack \in Seq(EntryT(frames)) /\ Begun(frames) \subseteq Begun(frames')
    BY <1>0, <1>2, TopType
  <2>2. stack \in Seq(EntryT(frames'))
    BY <2>1, Grown
  <2> QED
    BY <1>0, <2>2 DEF Top
<1>4. e \in EntryT(frames') /\ e.continues \in BOOLEAN
  <2>1. child[2] \in BOOLEAN /\ Top.continues \in BOOLEAN
    BY <1>3 DEF EntryT
  <2>2. (Top.continues \/ ~child[2]) \in BOOLEAN
    BY <2>1
  <2> QED
    BY <1>3, <2>1, <2>2 DEF EntryT
<1> HIDE DEF e
<1>5. c \in EntryT(frames')
  BY <1>2, <1>4, OnStackType
<1> HIDE DEF c
<1>6. stack' = Push(stack, e, c)
  BY <1>1 DEF Rest, e, c, Push
<1>7. stack' \in Seq(EntryT(frames')) /\ stack' # <<>>
  BY <1>0, <1>3, <1>4, <1>5, <1>6, Pushed
<1> QED
  BY <1>0, <1>2, <1>7 DEF TypeOK, CallChild

LEMMA EndFreshType == TypeOK /\ EndFresh => TypeOK'
<1> SUFFICES ASSUME TypeOK, EndFresh
             PROVE  TypeOK'
  OBVIOUS
<1>0. stack # <<>>
  BY DEF TypeOK, EndFresh
<1>1. FramesOK(frames') /\ Begun(frames') = Begun(frames)
  <2>1. CASE frames' = frames
    BY <2>1 DEF TypeOK
  <2>2. CASE frames' = [frames EXCEPT ![Top.frame] = Completed(Top.frame, "ok")]
    BY <1>0, <2>2, TopType, EndedRow
  <2> QED
    BY <2>1, <2>2 DEF EndFresh
<1>2. CASE Len(stack) > 1 /\ ReturnToCaller
  <2>1. /\ stack' \in Seq(EntryT(frames)) /\ stack' # <<>>
        /\ control' \in {"run", "unwind"} /\ asking' \in Begun(frames) \cup {NoFrame}
        /\ control' = "unwind" => asking' # NoFrame
    BY <1>2, ReturnType
  <2>2. EntryT(frames') = EntryT(frames)
    BY <1>1 DEF EntryT
  <2> QED
    BY <1>1, <2>1, <2>2 DEF TypeOK, EndFresh
<1>3. CASE EndEntry
  <2>1. stack' \in Seq(EntryT(frames')) /\ stack' = <<>>
    BY <1>3, EmptySeq DEF EndEntry
  <2> QED
    BY <1>1, <1>3, <2>1 DEF TypeOK, EndFresh, EndEntry
<1> QED
  BY <1>2, <1>3 DEF EndFresh

LEMMA EndResumedType == TypeOK /\ EndResumed => TypeOK'
<1> SUFFICES ASSUME TypeOK, EndResumed
             PROVE  TypeOK'
  OBVIOUS
<1>0. stack # <<>>
  BY DEF TypeOK, EndResumed
<1>1. FramesOK(frames') /\ Begun(frames') = Begun(frames)
  <2>1. PICK result \in {"ok", "error"} :
           frames' = [frames EXCEPT ![Top.frame] = Completed(Top.frame, result)]
    <3>1. PICK completed \in BOOLEAN, toolFailed \in BOOLEAN :
             frames' = [frames EXCEPT ![Top.frame] =
                           Completed(Top.frame, StateResult(completed, toolFailed))]
      BY DEF EndResumed
    <3>2. StateResult(completed, toolFailed) \in {"ok", "error"}
      BY DEF StateResult
    <3> QED
      BY <3>1, <3>2
  <2> QED
    BY <1>0, <2>1, TopType, EndedRow
<1> DEFINE p == frames[Top.frame].parent
<1>2. p \in Begun(frames) \cup {NoFrame} /\ Top.continues \in BOOLEAN
  BY <1>0, TopType DEF EntryT, FramesOK
<1> HIDE DEF p
<1>3. ResumedParent(p) \in Seq(EntryT(frames'))
  <2>1. CASE p # NoFrame
    <3>1. /\ OnStack(p, "resumed", Top.continues) \in EntryT(frames')
          /\ OnStack(p, "continued", FALSE) \in EntryT(frames')
      BY <1>1, <1>2, <2>1, OnStackType
    <3>2. /\ <<OnStack(p, "resumed", Top.continues)>> \in Seq(EntryT(frames'))
          /\ <<OnStack(p, "continued", FALSE)>> \in Seq(EntryT(frames'))
          /\ <<>> \in Seq(EntryT(frames'))
      BY <3>1, OneOnStack, EmptySeq
    <3> QED
      BY <3>2 DEF ResumedParent
  <2>2. CASE p = NoFrame
    BY <2>2, EmptySeq DEF ResumedParent
  <2> QED
    BY <2>1, <2>2
<1> QED
  BY <1>1, <1>3 DEF TypeOK, EndResumed, p

LEMMA AskType == TypeOK /\ Ask => TypeOK'
<1> SUFFICES ASSUME TypeOK, Ask
             PROVE  TypeOK'
  OBVIOUS
<1>0. stack # <<>>
  BY DEF TypeOK, Ask
<1> DEFINE r == [frames[Top.frame] EXCEPT !.status = "interrupted", !.open = TRUE]
<1>1. r \in FrameT /\ r.status # "none" /\ r.parent = frames[Top.frame].parent
  BY <1>0, TopType DEF FrameT
<1>2. frames' = [frames EXCEPT ![Top.frame] = r]
  BY <1>0, TopType DEF Ask
<1> HIDE DEF r
<1>3. FramesOK(frames') /\ Begun(frames') = Begun(frames)
  <2>1. r.parent \in Begun(frames) \cup {NoFrame}
    BY <1>0, <1>1, TopType DEF FramesOK
  <2> QED
    BY <1>0, <1>1, <1>2, <2>1, TopType, RowWritten
<1>4. Rest \in Seq(EntryT(frames)) /\ Top.frame \in Begun(frames) /\ Top.frame # NoFrame
  BY <1>0, TopType, Popped DEF Rest, Pop, NoFrame, Frames
<1>5. EntryT(frames') = EntryT(frames)
  BY <1>3 DEF EntryT
<1>6. twice' \in BOOLEAN
  BY DEF TypeOK, Ask
<1>7. stack' \in Seq(EntryT(frames')) /\ asking' = Top.frame
  BY <1>4, <1>5 DEF Ask
<1>8. /\ control' \in {"idle", "unwind"}
      /\ control' = "idle" <=> stack' = <<>>
  BY DEF Ask
<1>9. asked' \in Nat /\ raised' \in BOOLEAN
  BY DEF Ask, TypeOK
<1> QED
  BY <1>3, <1>4, <1>6, <1>7, <1>8, <1>9 DEF TypeOK


\* A further call of the turn starts a frame over the rows its interruption left.
LEMMA NextRows ==
    ASSUME TypeOK, control = "unwind", NEW f \in Frames, Unstarted(f), NEW state \in States, NEW gs,
           gs = [Interrupted(frames) EXCEPT ![f] = Started(state, Top.frame)]
    PROVE  /\ FramesOK(gs) /\ Begun(gs) = Begun(frames) \cup {f}
           /\ StartsIn(Interrupted(frames), gs, f, state, Top.frame)
<1> DEFINE hs == Interrupted(frames)
           t == Top.frame
<1>1. FramesOK(hs) /\ Begun(hs) = Begun(frames) /\ hs \in [Frames -> FrameT]
  BY InterruptedRows DEF FramesOK
<1>2. t \in Begun(hs)
  BY <1>1, TopType DEF TypeOK
<1>3. f \notin Begun(hs) /\ \A g \in 1 .. (f - 1) : g \in Begun(hs)
  BY <1>1, FramesAssumption DEF Unstarted, Begun, Frames
<1> HIDE DEF hs, t
<1>4. gs = [hs EXCEPT ![f] = Started(state, t)]
  BY DEF hs, t
<1>5. /\ FramesOK([hs EXCEPT ![f] = Started(state, t)])
      /\ Begun([hs EXCEPT ![f] = Started(state, t)]) = Begun(hs) \cup {f}
      /\ \A g \in Begun(hs) : g < f
  BY <1>1, <1>2, <1>3, RowStarted
<1>6. gs[f] = Started(state, t) /\ \A g \in Frames \ {f} : gs[g] = hs[g]
  BY <1>1, <1>4
<1> QED
  BY <1>1, <1>3, <1>4, <1>5, <1>6 DEF hs, t, StartsIn

\* A resumed caller becomes the parent of the frame that asks.
LEMMA AdoptedRows ==
    ASSUME TypeOK, control = "unwind", NEW gs, gs = Adopted(Interrupted(frames))
    PROVE  /\ FramesOK(gs) /\ Begun(gs) = Begun(frames)
           /\ gs[asking].parent = Top.frame /\ gs[asking].open = TRUE
           /\ gs[asking].status = "interrupted" /\ gs[asking].state = frames[asking].state
           /\ \A f \in Frames \ {asking} : gs[f] = Interrupted(frames)[f]
<1> DEFINE hs == Interrupted(frames)
           r == [hs[asking] EXCEPT !.parent = Top.frame, !.open = TRUE]
<1>1. /\ FramesOK(hs) /\ Begun(hs) = Begun(frames) /\ hs \in [Frames -> FrameT]
      /\ hs[asking].status = "interrupted" /\ asking \in Begun(hs) /\ asking \in Frames
      /\ Top.frame \in Begun(hs) /\ Top.frame \in Frames
      /\ hs[asking].state = frames[asking].state
  BY InterruptedRows, TopType DEF FramesOK, TypeOK, Begun
<1> HIDE DEF hs
<1>2. /\ r \in FrameT /\ r.status = "interrupted" /\ r.state = hs[asking].state
      /\ r.parent = Top.frame /\ r.open = TRUE
  BY <1>1 DEF FrameT
<1>3. gs = [hs EXCEPT ![asking] = r]
  <2>1. gs = [hs EXCEPT ![asking] = [[hs[asking] EXCEPT !.parent = Top.frame] EXCEPT !.open = TRUE]]
    BY <1>1 DEF Adopted, hs
  <2> QED
    BY <2>1, <1>1 DEF FrameT
<1> HIDE DEF r
<1>4. FramesOK(gs) /\ Begun(gs) = Begun(hs)
  <2>1. r.status # "none" /\ r.parent \in Begun(hs) \cup {NoFrame}
    BY <1>1, <1>2
  <2>2. FramesOK([hs EXCEPT ![asking] = r]) /\ Begun([hs EXCEPT ![asking] = r]) = Begun(hs)
    BY <1>1, <1>2, <2>1, RowWritten
  <2> QED
    BY <1>3, <2>2
<1>5. gs[asking] = r /\ \A f \in Frames \ {asking} : gs[f] = hs[f]
  BY <1>1, <1>3
<1> QED
  BY <1>1, <1>2, <1>4, <1>5 DEF hs

LEMMA NextCallType == TypeOK /\ NextCall => TypeOK'
<1> SUFFICES ASSUME TypeOK, NextCall
             PROVE  TypeOK'
  OBVIOUS
<1>0. stack # <<>> /\ control = "unwind"
  BY DEF TypeOK, NextCall
<1>1. PICK f \in Frames, state \in States :
          /\ Unstarted(f)
          /\ frames' = [Interrupted(frames) EXCEPT ![f] = Started(state, Top.frame)]
          /\ stack' = Rest \o <<[Top EXCEPT !.pending = asking], OnStack(f, "fresh", Top.continues)>>
  BY DEF NextCall
<1>2. FramesOK(frames') /\ Begun(frames') = Begun(frames) \cup {f}
  BY <1>0, <1>1, NextRows
<1> DEFINE e == [Top EXCEPT !.pending = asking]
           c == OnStack(f, "fresh", Top.continues)
<1>3. stack \in Seq(EntryT(frames')) /\ Top \in EntryT(frames')
  <2>1. stack \in Seq(EntryT(frames)) /\ Begun(frames) \subseteq Begun(frames')
    BY <1>0, <1>2, TopType
  <2>2. stack \in Seq(EntryT(frames'))
    BY <2>1, Grown
  <2> QED
    BY <1>0, <2>2 DEF Top
<1>4. asking \in Begun(frames')
  BY <1>0, <1>2 DEF TypeOK
<1>5. e \in EntryT(frames') /\ Top.continues \in BOOLEAN
  BY <1>3, <1>4 DEF EntryT
<1>6. c \in EntryT(frames')
  BY <1>2, <1>5, OnStackType
<1> HIDE DEF e, c
<1>7. stack' = Push(stack, e, c)
  BY <1>1 DEF Rest, e, c, Push
<1>8. stack' \in Seq(EntryT(frames')) /\ stack' # <<>>
  BY <1>0, <1>3, <1>5, <1>6, <1>7, Pushed
<1> QED
  BY <1>0, <1>2, <1>8 DEF TypeOK, NextCall

LEMMA UnwindType == TypeOK /\ (UnwindCaller \/ UnwindResumedCaller) => TypeOK'
<1> SUFFICES ASSUME TypeOK, UnwindCaller \/ UnwindResumedCaller
             PROVE  TypeOK'
  OBVIOUS
<1>0. stack # <<>> /\ control = "unwind"
  BY DEF TypeOK, UnwindCaller, UnwindResumedCaller
<1>1. FramesOK(frames') /\ Begun(frames') = Begun(frames)
  BY <1>0, InterruptedRows, AdoptedRows DEF UnwindCaller, UnwindResumedCaller
<1>2. EntryT(frames') = EntryT(frames)
  BY <1>1 DEF EntryT
<1>3. Rest \in Seq(EntryT(frames)) /\ <<>> \in Seq(EntryT(frames))
  BY <1>0, TopType, Popped, EmptySeq DEF Rest, Pop
<1>4. stack' \in Seq(EntryT(frames'))
  BY <1>2, <1>3 DEF UnwindCaller, UnwindResumedCaller
<1>5. /\ control' \in {"idle", "unwind"}
      /\ control' = "idle" <=> stack' = <<>>
  BY DEF UnwindCaller, UnwindResumedCaller
<1>6. UNCHANGED <<asking, asked, raised, twice>>
  BY DEF UnwindCaller, UnwindResumedCaller
<1> QED
  BY <1>0, <1>1, <1>4, <1>5, <1>6 DEF TypeOK

LEMMA AnswerType == TypeOK /\ Answer => TypeOK'
<1> SUFFICES ASSUME TypeOK, Answer
             PROVE  TypeOK'
  OBVIOUS
<1>1. PICK f \in Frames : Answerable(f) /\ stack' = <<OnStack(f, "resumed", FALSE)>>
  BY DEF Answer
<1>2. f \in Begun(frames)
  BY <1>1 DEF Answerable, Begun
<1>3. OnStack(f, "resumed", FALSE) \in EntryT(frames)
  BY <1>2, OnStackType
<1>4. stack' \in Seq(EntryT(frames)) /\ stack' # <<>>
  BY <1>1, <1>3, OneOnStack
<1> QED
  BY <1>4 DEF TypeOK, Answer

LEMMA PropagateType == TypeOK /\ Propagate => TypeOK'
<1> SUFFICES ASSUME TypeOK, Propagate
             PROVE  TypeOK'
  OBVIOUS
<1>0. stack # <<>> /\ frames' = frames /\ asked' = asked /\ twice' = twice
  BY DEF TypeOK, Propagate
<1>1. CASE Len(stack) > 1 /\ ReturnToCaller /\ UNCHANGED raised
  <2>1. /\ stack' \in Seq(EntryT(frames)) /\ stack' # <<>>
        /\ control' \in {"run", "unwind"} /\ asking' \in Begun(frames) \cup {NoFrame}
        /\ control' = "unwind" => asking' # NoFrame
    BY <1>1, ReturnType
  <2> QED
    BY <1>0, <1>1, <2>1 DEF TypeOK
<1>2. CASE Len(stack) > 1 /\ stack' = Rest /\ UNCHANGED <<control, asking, raised>>
  <2>1. Rest \in Seq(EntryT(frames)) /\ Rest # <<>>
    BY <1>0, <1>2, TopType, Popped DEF Rest, Pop, PoppedFrom
  <2> QED
    BY <1>0, <1>2, <2>1 DEF TypeOK
<1>3. CASE EndEntry /\ raised' = TRUE
  <2>1. stack' \in Seq(EntryT(frames)) /\ stack' = <<>>
    BY <1>3, EmptySeq DEF EndEntry
  <2> QED
    BY <1>0, <1>3, <2>1 DEF TypeOK, EndEntry
<1> QED
  BY <1>1, <1>2, <1>3 DEF Propagate

LEMMA TypeStep == TypeOK /\ [Next]_vars => TypeOK'
<1>1. TypeOK /\ Raise => TypeOK'
  BY DEF TypeOK, Raise
<1>2. TypeOK /\ UNCHANGED vars => TypeOK'
  BY DEF TypeOK, vars
<1> QED
  BY <1>1, <1>2, RunType, CallChildType, EndFreshType, EndResumedType, AskType, NextCallType,
     UnwindType, AnswerType, PropagateType DEF Next, Step

-----------------------------------------------------------------------------
(* The inductive invariant, of runs in which no two calls of a turn ask      *)

Askers(fs) == {f \in Frames : fs[f].status = "interrupted"}

\* A waiting frame that can be resumed, and a frame that can be answered
Waits(fs, f)  == fs[f].status = "waiting_child" /\ (fs[f].open \/ fs[f].continues)
AtRest(fs, f) == fs[f].open /\ fs[f].state = "clarification_agent"

ParentsFirst(fs) == \A f \in Frames : fs[f].parent < f

\* No frame of the set has a parent outside.
Linked(fs, S) == \A f \in S : fs[f].parent \in S \cup {NoFrame}

\* A frame with all that is to be resumed after it
Chain(fs, f, S) ==
    /\ f \in S /\ S \subseteq Frames /\ Linked(fs, S)
    /\ \A g \in S \ {f} : Waits(fs, g) /\ g < f

\* The frames that ask, but for those of the request R that runs, have chains
\* of their own.
AskersWait(fs, R, C) ==
    /\ \A f \in Askers(fs) \ R : Chain(fs, f, C[f]) /\ AtRest(fs, f) /\ C[f] \cap R = {}
    /\ \A f, g \in Askers(fs) \ R : f # g => C[f] \cap C[g] = {}

\* What is known of the stack
Stacked(fs, st, ctl) ==
    /\ \A i \in DOMAIN st :
          /\ fs[st[i].frame].status \in {"unsaved", "waiting_child", "interrupted"}
          /\ st[i].how = "fresh" => fs[st[i].frame].status # "interrupted"
          /\ i > 1 => st[i].how = "fresh" /\ fs[st[i].frame].parent = st[i - 1].frame
          /\ i = 1 /\ st[i].how = "fresh" => fs[st[i].frame].parent = NoFrame
          /\ i < Len(st) \/ ctl = "unwind" => st[i].calling \/ st[i].continues
          /\ st[i].pending # NoFrame => st[i].calling
    /\ \A i, j \in DOMAIN st : i < j => st[i].frame < st[j].frame

\* Of the request's frames none asks, unless it is the one that was answered.
Quiet(fs, st, ctl, R) ==
    /\ ctl # "unwind"
    /\ \A i \in DOMAIN st : st[i].pending = NoFrame
    /\ Askers(fs) \cap R \subseteq {st[1].frame}
    /\ st[1].frame \in Askers(fs) => Len(st) = 1 /\ st[1].how = "resumed" /\ AtRest(fs, st[1].frame)

\* One frame of the request asks, and a part G of its chain is saved: what was
\* on the stack above the entry i, whose turn may have gone on.
Interrupting(fs, st, ctl, ask, R, G, i, a) ==
    /\ IF ctl = "unwind" THEN i = Len(st) /\ a = ask ELSE i < Len(st) /\ a = st[i].pending
    /\ \A j \in DOMAIN st : st[j].pending # NoFrame => j = i /\ st[j].pending = a
    /\ \A j \in DOMAIN st : j > i => a < st[j].frame
    /\ Askers(fs) \cap R = {a} /\ AtRest(fs, a)
    /\ \A f \in G : /\ fs[f].parent \in G \cup {st[i].frame}
                    /\ st[i].frame < f /\ f <= a
                    /\ f # a => Waits(fs, f)

Runs(fs, st, ctl, ask, R, B) ==
    /\ R \subseteq Frames /\ Linked(fs, R) /\ B \subseteq R /\ Chain(fs, st[1].frame, B)
    /\ \A i \in DOMAIN st : st[i].frame \in R
    /\ Stacked(fs, st, ctl)
    /\ \/ Quiet(fs, st, ctl, R)
       \/ \E G \in SUBSET R : \E i \in DOMAIN st, a \in G :
             Interrupting(fs, st, ctl, ask, R, G, i, a)

Chained(fs, st, ctl, ask) ==
    /\ ParentsFirst(fs)
    /\ \E R \in SUBSET Frames, C \in [Frames -> SUBSET Frames] :
          /\ AskersWait(fs, R, C)
          /\ IF st = <<>> THEN R = {} ELSE \E B \in SUBSET R : Runs(fs, st, ctl, ask, R, B)

Inv == TypeOK /\ (~twice => Chained(frames, stack, control, asking))

-----------------------------------------------------------------------------
(* Chains of frames that wait *)

LEMMA ChainKept ==
    ASSUME NEW fs, NEW gs, NEW f, NEW S, Chain(fs, f, S),
           \A g \in S : gs[g].parent = fs[g].parent,
           \A g \in S \ {f} : gs[g] = fs[g]
    PROVE  Chain(gs, f, S)
BY DEF Chain, Linked, Waits

LEMMA ChainBegun ==
    ASSUME NEW fs, NEW f, NEW S, Chain(fs, f, S), fs[f].status # "none"
    PROVE  S \subseteq Begun(fs)
BY DEF Chain, Waits, Begun

\* What a request does to its own frames, and to frames that it starts, does
\* not concern the chains of the others.
LEMMA AskersKept ==
    ASSUME NEW fs, NEW gs, NEW R, NEW Q, R \subseteq Q, NEW C, AskersWait(fs, R, C),
           \A f \in Frames \ Q : gs[f] = fs[f],
           \A f \in Q \ R : fs[f].status = "none"
    PROVE  AskersWait(gs, Q, C)
<1>1. ASSUME NEW f \in Askers(gs) \ Q
      PROVE  /\ f \in Askers(fs) \ R
             /\ Chain(gs, f, C[f]) /\ AtRest(gs, f) /\ C[f] \cap Q = {}
  <2>1. f \in Frames /\ gs[f] = fs[f] /\ f \in Askers(fs) \ R
    BY <1>1 DEF Askers
  <2>2. Chain(fs, f, C[f]) /\ AtRest(fs, f) /\ C[f] \cap R = {}
    BY <2>1 DEF AskersWait
  <2>3. C[f] \subseteq Frames /\ \A g \in C[f] : fs[g].status # "none"
    BY <2>1, <2>2 DEF Chain, Waits, Askers
  <2>4. C[f] \cap Q = {}
    BY <2>2, <2>3
  <2>5. \A g \in C[f] : gs[g] = fs[g]
    BY <2>3, <2>4
  <2>6. Chain(gs, f, C[f])
    BY <2>2, <2>5, ChainKept
  <2>7. AtRest(gs, f)
    BY <2>1, <2>2 DEF AtRest
  <2> QED
    BY <2>1, <2>4, <2>6, <2>7
<1>2. \A f, g \in Askers(fs) \ R : f # g => C[f] \cap C[g] = {}
  BY DEF AskersWait
<1> QED
  BY <1>1, <1>2 DEF AskersWait

\* A request ends and leaves nobody who asks ...
LEMMA AskersWithout ==
    ASSUME NEW fs, NEW R, NEW C, AskersWait(fs, R, C), Askers(fs) \cap R = {}
    PROVE  AskersWait(fs, {}, C)
BY DEF AskersWait

\* ... or one frame that asks, with its chain ...
LEMMA AskersJoined ==
    ASSUME NEW fs, NEW R \in SUBSET Frames, NEW C \in [Frames -> SUBSET Frames],
           AskersWait(fs, R, C),
           NEW a \in R, Askers(fs) \cap R = {a}, NEW S, S \subseteq R, Chain(fs, a, S), AtRest(fs, a)
    PROVE  /\ AskersWait(fs, {}, [C EXCEPT ![a] = S])
           /\ [C EXCEPT ![a] = S] \in [Frames -> SUBSET Frames]
<1> DEFINE D == [C EXCEPT ![a] = S]
<1>1. D[a] = S /\ \A f \in Frames \ {a} : D[f] = C[f]
  OBVIOUS
<1>2. D \in [Frames -> SUBSET Frames]
  OBVIOUS
<1> HIDE DEF D
<1>3. \A f \in Askers(fs) : f # a => f \in Askers(fs) \ R /\ f \in Frames
  BY DEF Askers
<1>4. \A f \in Askers(fs) \ {} : Chain(fs, f, D[f]) /\ AtRest(fs, f) /\ D[f] \cap {} = {}
  BY <1>1, <1>3 DEF AskersWait
<1>5. ASSUME NEW f \in Askers(fs), NEW g \in Askers(fs), f # g
      PROVE  D[f] \cap D[g] = {}
  <2>1. \A h \in Askers(fs) : h # a => D[h] = C[h] /\ C[h] \cap R = {}
    BY <1>1, <1>3 DEF AskersWait
  <2>2. CASE f = a
    BY <1>1, <1>5, <2>1, <2>2
  <2>3. CASE g = a
    BY <1>1, <1>5, <2>1, <2>3
  <2>4. CASE f # a /\ g # a
    BY <1>3, <1>5, <2>1, <2>4 DEF AskersWait
  <2> QED
    BY <2>2, <2>3, <2>4
<1>6. AskersWait(fs, {}, D)
  BY <1>4, <1>5 DEF AskersWait
<1> QED
  BY <1>2, <1>6 DEF D

\* ... and a request that answers one takes its chain over.
LEMMA AskersTaken ==
    ASSUME NEW fs, NEW C, AskersWait(fs, {}, C), NEW f \in Askers(fs)
    PROVE  /\ AskersWait(fs, C[f], C) /\ Chain(fs, f, C[f]) /\ AtRest(fs, f)
           /\ Askers(fs) \cap C[f] = {f}
<1>1. Chain(fs, f, C[f]) /\ AtRest(fs, f)
  BY DEF AskersWait
<1>2. Askers(fs) \cap C[f] = {f}
  BY <1>1 DEF Chain, Waits, Askers
<1>3. \A g \in Askers(fs) \ C[f] : C[g] \cap C[f] = {}
  BY <1>2 DEF AskersWait
<1> QED
  BY <1>1, <1>2, <1>3 DEF AskersWait

-----------------------------------------------------------------------------
(* The steps of a request *)

LEMMA Running ==
    ASSUME Inv, ~twice, stack # <<>>
    PROVE  /\ TypeOK /\ ParentsFirst(frames)
           /\ \E R \in SUBSET Frames, C \in [Frames -> SUBSET Frames] : \E B \in SUBSET R :
                 AskersWait(frames, R, C) /\ Runs(frames, stack, control, asking, R, B)
BY DEF Inv, Chained

LEMMA OnTheStack ==
    ASSUME TypeOK, stack # <<>>, NEW R, NEW B, Runs(frames, stack, control, asking, R, B)
    PROVE  /\ \A i \in 1 .. Len(stack) : /\ stack[i] \in EntryT(frames)
                                         /\ stack[i].frame \in Begun(frames)
                                         /\ stack[i].frame \in R
           /\ \A i \in 1 .. Len(stack) - 1 : stack[i].frame < Top.frame
           /\ Top = stack[Len(stack)]
           /\ B \subseteq Begun(frames)
           /\ stack[1].frame \in B /\ \A b \in B : b <= stack[1].frame
           /\ Len(stack) > 1 => Top.frame \notin B
<1> DEFINE n == Len(stack)
<1>1. /\ n \in Nat /\ n >= 1 /\ DOMAIN stack = 1 .. n /\ Top = stack[n]
      /\ stack \in Seq(EntryT(frames)) /\ Top.frame \in Begun(frames)
  BY TopType DEF Top
<1>2. \A i \in 1 .. n : stack[i] \in EntryT(frames) /\ stack[i].frame \in Begun(frames)
                            /\ stack[i].frame \in R
  <2> SUFFICES ASSUME NEW i \in 1 .. n
               PROVE  stack[i] \in EntryT(frames) /\ stack[i].frame \in Begun(frames)
                          /\ stack[i].frame \in R
    OBVIOUS
  <2>1. stack[i] \in EntryT(frames)
    BY <1>1
  <2>2. stack[i].frame \in R
    BY <1>1 DEF Runs
  <2> QED
    BY <2>1, <2>2 DEF EntryT
<1>3. \A i \in 1 .. n - 1 : stack[i].frame < Top.frame
  BY <1>1 DEF Runs, Stacked
<1>4. Chain(frames, stack[1].frame, B) /\ stack[1].frame \in Begun(frames)
  BY <1>1, <1>2 DEF Runs
<1>5. B \subseteq Begun(frames)
  <2>1. frames[stack[1].frame].status # "none"
    BY <1>4 DEF Begun
  <2> QED
    BY <1>4, <2>1, ChainBegun
<1>6. stack[1].frame \in B /\ \A b \in B : b <= stack[1].frame
  BY <1>4, <1>5 DEF Chain, Begun, Frames
<1>7. n > 1 => Top.frame \notin B
  <2> SUFFICES ASSUME n > 1, Top.frame \in B
               PROVE  FALSE
    OBVIOUS
  <2>1. stack[1].frame < Top.frame /\ Top.frame <= stack[1].frame
    BY <1>1, <1>3, <1>6
  <2> QED
    BY <1>1, <1>4, <2>1 DEF Begun, Frames
<1> QED
  BY <1>1, <1>2, <1>3, <1>5, <1>6, <1>7

LEMMA InterruptersBegun ==
    ASSUME NEW fs, NEW st, NEW ctl, NEW ask, NEW R, NEW G \in SUBSET Frames, NEW i, NEW a,
           Interrupting(fs, st, ctl, ask, R, G, i, a)
    PROVE  G \subseteq Begun(fs) /\ a \in Askers(fs) /\ a \in R
BY DEF Interrupting, Askers, Waits, Begun

LEMMA CallChildChained ==
    ASSUME Inv, ~twice, CallChild
    PROVE  Chained(frames', stack', control', asking')
<1> DEFINE n == Len(stack)
<1>0. stack # <<>> /\ control = "run" /\ control' = "run" /\ asking' = asking
  BY DEF Inv, TypeOK, CallChild
<1>1. PICK R \in SUBSET Frames, C \in [Frames -> SUBSET Frames] : \E B \in SUBSET R :
         AskersWait(frames, R, C) /\ Runs(frames, stack, control, asking, R, B)
  BY <1>0, Running
<1>2. PICK B \in SUBSET R :
         AskersWait(frames, R, C) /\ Runs(frames, stack, control, asking, R, B)
  BY <1>1
<1>3. TypeOK /\ ParentsFirst(frames)
  BY <1>0, Running
<1>4. PICK f \in Frames, child \in States \X BOOLEAN :
         /\ Unstarted(f) /\ MayStart(Top, child)
         /\ frames' = [frames EXCEPT ![f] = Started(child[1], Top.frame)]
         /\ LET caller == [Top EXCEPT !.calling = child[2], !.continues = @ \/ ~child[2]]
            IN stack' = Rest \o <<caller, OnStack(f, "fresh", caller.continues)>>
  BY DEF CallChild
<1> DEFINE e == [Top EXCEPT !.calling = child[2], !.continues = @ \/ ~child[2]]
           c == OnStack(f, "fresh", e.continues)
<1>5. /\ Begun(frames') = Begun(frames) \cup {f} /\ f \notin Begun(frames)
      /\ \A g \in Begun(frames) : g < f
      /\ frames'[f].status = "unsaved" /\ frames'[f].parent = Top.frame
      /\ \A g \in Frames \ {f} : frames'[g] = frames[g]
  <2> DEFINE state == child[1]
             parent == Top.frame
  <2>1. state \in States /\ parent \in Begun(frames) \cup {NoFrame}
    BY <1>0, <1>3, TopType
  <2>2. Unstarted(f) /\ frames' = [frames EXCEPT ![f] = Started(state, parent)]
    BY <1>4
  <2> HIDE DEF state, parent
  <2>3. StartsIn(frames, frames', f, state, parent)
    BY <1>3, <2>1, <2>2, StartType
  <2> QED
    BY <2>3 DEF StartsIn, Started, parent
<1>6. /\ Top \in EntryT(frames) /\ Top.frame \in Begun(frames)
      /\ \A i \in 1 .. n : stack[i].frame \in Begun(frames) /\ stack[i].frame \in R
      /\ Top = stack[n] /\ B \subseteq Begun(frames) /\ stack[1].frame \in B
  BY <1>0, <1>2, <1>3, TopType, OnTheStack
<1>7. /\ e.frame = Top.frame /\ e.how = Top.how /\ e.pending = Top.pending
      /\ e.calling \/ e.continues
      /\ e.calling = child[2]
  <2>1. child[2] \in BOOLEAN /\ Top.continues \in BOOLEAN
    BY <1>6 DEF EntryT
  <2> QED
    BY <1>6, <2>1 DEF EntryT
<1>8. c.frame = f /\ c.how = "fresh" /\ c.pending = NoFrame
  BY DEF OnStack
<1>9. e \in EntryT(frames') /\ c \in EntryT(frames') /\ stack \in Seq(EntryT(frames'))
  <2>1. Top \in EntryT(frames')
    BY <1>5, <1>6 DEF EntryT
  <2>2. child[2] \in BOOLEAN /\ (Top.continues \/ ~child[2]) \in BOOLEAN
    BY <2>1 DEF EntryT
  <2>3. e \in EntryT(frames')
    BY <2>1, <2>2 DEF EntryT
  <2>4. e.continues \in BOOLEAN
    BY <2>3 DEF EntryT
  <2> HIDE DEF e
  <2>5. c \in EntryT(frames')
    BY <1>5, <2>4, OnStackType
  <2>6. stack \in Seq(EntryT(frames'))
    BY <1>0, <1>3, <1>5, TopType, Grown
  <2> QED
    BY <2>3, <2>5, <2>6
<1>10. stack' = Push(stack, e, c)
  BY <1>4 DEF Rest, Push
<1> HIDE DEF e, c, n
<1>11. /\ n \in Nat /\ n >= 1 /\ DOMAIN stack = 1 .. n /\ Len(stack') = n + 1
       /\ DOMAIN stack' = 1 .. n + 1 /\ stack'[n] = e /\ stack'[n + 1] = c /\ stack' # <<>>
       /\ \A i \in 1 .. n - 1 : stack'[i] = stack[i]
       /\ n = Len(stack)
  <2>1. PushedOn(stack, stack', e, c)
    BY <1>0, <1>9, <1>10, Pushed
  <2> QED
    BY <2>1 DEF PushedOn, n
<1>12. /\ \A i \in 1 .. n : /\ stack'[i].frame = stack[i].frame /\ stack'[i].how = stack[i].how
                            /\ stack'[i].pending = stack[i].pending
                            /\ frames'[stack[i].frame] = frames[stack[i].frame]
                            /\ stack[i].frame < f /\ stack[i].frame # f
  BY <1>5, <1>6, <1>7, <1>11 DEF Begun
<1>13. ParentsFirst(frames')
  BY <1>3, <1>5, <1>6 DEF ParentsFirst
<1>14. AskersWait(frames', R \cup {f}, C)
  BY <1>2, <1>5, AskersKept DEF Begun
<1>15. Linked(frames', R \cup {f})
  <2>1. Linked(frames, R) /\ Top.frame \in R
    BY <1>2, <1>6, <1>11 DEF Runs
  <2> QED
    BY <1>5, <2>1 DEF Linked
<1>16. Chain(frames', stack'[1].frame, B)
  <2>1. Chain(frames, stack[1].frame, B) /\ stack'[1].frame = stack[1].frame
    BY <1>2, <1>11, <1>12 DEF Runs
  <2>2. \A g \in B : frames'[g] = frames[g]
    BY <1>5, <1>6 DEF Begun
  <2> QED
    BY <2>1, <2>2, ChainKept
<1>17. \A i \in DOMAIN stack' : stack'[i].frame \in R \cup {f}
  BY <1>6, <1>8, <1>11, <1>12
<1>18. Quiet(frames, stack, control, R) \/ \E G \in SUBSET R : \E i \in DOMAIN stack, a \in G :
             Interrupting(frames, stack, control, asking, R, G, i, a)
  BY <1>2 DEF Runs
<1>19. stack[n].pending = NoFrame
  <2>1. CASE Quiet(frames, stack, control, R)
    BY <2>1, <1>11 DEF Quiet
  <2>2. CASE ~Quiet(frames, stack, control, R)
    <3>1. PICK G \in SUBSET R : \E i \in DOMAIN stack, a \in G :
             Interrupting(frames, stack, control, asking, R, G, i, a)
      BY <2>2, <1>18
    <3> QED
      BY <3>1, <1>0, <1>11 DEF Interrupting
  <2> QED
    BY <2>1, <2>2
<1>20. Stacked(frames', stack', control')
  <2>1. \A i \in 1 .. n :
          /\ frames[stack[i].frame].status \in {"unsaved", "waiting_child", "interrupted"}
          /\ stack[i].how = "fresh" => frames[stack[i].frame].status # "interrupted"
          /\ i > 1 => stack[i].how = "fresh" /\ frames[stack[i].frame].parent = stack[i - 1].frame
          /\ i = 1 /\ stack[i].how = "fresh" => frames[stack[i].frame].parent = NoFrame
          /\ i < n => stack[i].calling \/ stack[i].continues
          /\ stack[i].pending # NoFrame => stack[i].calling
    BY <1>2, <1>11 DEF Runs, Stacked
  <2>2. \A i, j \in 1 .. n : i < j => stack[i].frame < stack[j].frame
    BY <1>2, <1>11 DEF Runs, Stacked
  <2>3. ASSUME NEW i \in 1 .. n
        PROVE  /\ frames'[stack'[i].frame].status \in {"unsaved", "waiting_child", "interrupted"}
               /\ stack'[i].how = "fresh" => frames'[stack'[i].frame].status # "interrupted"
               /\ i > 1 => stack'[i].how = "fresh"
                                /\ frames'[stack'[i].frame].parent = stack'[i - 1].frame
               /\ i = 1 /\ stack'[i].how = "fresh" => frames'[stack'[i].frame].parent = NoFrame
               /\ stack'[i].calling \/ stack'[i].continues
               /\ stack'[i].pending # NoFrame => stack'[i].calling
    <3>1. i > 1 => i - 1 \in 1 .. n
      BY <1>11
    <3>2. stack'[i].calling \/ stack'[i].continues
      <4>1. CASE i = n
        BY <1>7, <1>11, <4>1, Zenon
      <4>2. CASE i # n
        <5>1. i \in 1 .. n - 1 /\ i < n
          <6>1. n \in Nat
            BY <1>11
          <6> QED
            BY <6>1, <4>2
        <5> QED
          BY <1>11, <2>1, <5>1, Zenon
      <4> QED
        BY <4>1, <4>2
    <3>3. stack'[i].pending # NoFrame => stack'[i].calling
      BY <1>7, <1>11, <1>12, <1>19, <2>1
    <3> QED
      BY <1>12, <2>1, <3>1, <3>2, <3>3
  <2>4. /\ frames'[stack'[n + 1].frame].status = "unsaved"
        /\ stack'[n + 1].how = "fresh"
        /\ frames'[stack'[n + 1].frame].parent = stack'[n].frame
        /\ stack'[n + 1].pending = NoFrame
    BY <1>5, <1>6, <1>8, <1>11, <1>12
  <2>5. \A i, j \in 1 .. n + 1 : i < j => stack'[i].frame < stack'[j].frame
    BY <1>8, <1>11, <1>12, <2>2
  <2>6. \A i \in DOMAIN stack' : i \in 1 .. n \/ (i = n + 1 /\ i > 1 /\ i - 1 = n /\ ~(i < n + 1))
    BY <1>11
  <2> QED
    BY <1>0, <1>11, <2>3, <2>4, <2>5, <2>6 DEF Stacked
<1>21. Askers(frames') \cap (R \cup {f}) = Askers(frames) \cap R
  BY <1>5 DEF Askers, Begun
<1>22. \A i \in DOMAIN stack' : stack'[i].pending # NoFrame => i \in 1 .. n /\ stack[i].pending = stack'[i].pending
  BY <1>8, <1>11, <1>12
<1>23. \/ Quiet(frames', stack', control', R \cup {f})
       \/ \E G \in SUBSET (R \cup {f}) : \E i \in DOMAIN stack', a \in G :
             Interrupting(frames', stack', control', asking', R \cup {f}, G, i, a)
  <2>1. CASE Quiet(frames, stack, control, R)
    <3>1. stack[1].frame \notin Askers(frames)
      <4> SUFFICES ASSUME stack[1].frame \in Askers(frames)
                   PROVE  FALSE
        OBVIOUS
      <4>1. n = 1 /\ stack[1].how = "resumed" /\ frames[stack[1].frame].state = "clarification_agent"
        BY <1>11, <2>1 DEF Quiet, AtRest
      <4>2. Top.how = "resumed" /\ frames[Top.frame].state = "clarification_agent"
        BY <1>6, <4>1
      <4> QED
        BY <1>4, <4>2 DEF MayStart, Children
    <3>2. stack'[1].frame \notin Askers(frames') /\ stack'[1].frame = stack[1].frame
      BY <1>11, <1>12, <3>1 DEF Askers
    <3> QED
      BY <1>0, <1>21, <1>22, <2>1, <3>2, <1>11 DEF Quiet
  <2>2. CASE ~Quiet(frames, stack, control, R)
    <3>1. PICK G \in SUBSET R : \E i \in DOMAIN stack, a \in G :
             Interrupting(frames, stack, control, asking, R, G, i, a)
      BY <2>2, <1>18
    <3>2. PICK i \in 1 .. n, a \in G :
             Interrupting(frames, stack, control, asking, R, G, i, a)
      BY <1>11, <3>1
    <3>3. /\ i \in 1 .. n /\ i < n /\ a = stack[i].pending
          /\ \A j \in 1 .. n : stack[j].pending # NoFrame => j = i /\ stack[j].pending = a
          /\ \A j \in 1 .. n : j > i => a < stack[j].frame
          /\ Askers(frames) \cap R = {a} /\ AtRest(frames, a)
          /\ \A g \in G : /\ frames[g].parent \in G \cup {stack[i].frame}
                          /\ stack[i].frame < g /\ g <= a
                          /\ g # a => Waits(frames, g)
      BY <1>0, <1>11, <3>2 DEF Interrupting
    <3>4. G \subseteq Frames /\ \A g \in G : frames'[g] = frames[g] /\ g \in Begun(frames)
      BY <1>5, <3>2, InterruptersBegun DEF Begun
    <3>5. a < f
      BY <1>5, <3>4
    <3>6. \A j \in DOMAIN stack' : j \in 1 .. n \/ (j = n + 1 /\ stack'[j].pending = NoFrame
                                                            /\ stack'[j].frame = f)
      BY <1>8, <1>11
    <3>7. stack'[i].pending = a /\ stack'[i].frame = stack[i].frame /\ i \in DOMAIN stack'
            /\ i < Len(stack')
      BY <1>11, <1>12, <3>3
    <3>8. \A j \in DOMAIN stack' : stack'[j].pending # NoFrame => j = i /\ stack'[j].pending = a
      BY <1>12, <3>3, <3>6
    <3>9. \A j \in DOMAIN stack' : j > i => a < stack'[j].frame
      BY <1>12, <3>3, <3>5, <3>6
    <3>10. AtRest(frames', a) /\ \A g \in G : Waits(frames, g) => Waits(frames', g)
      BY <3>3, <3>4 DEF AtRest, Waits
    <3>11. Interrupting(frames', stack', control', asking', R \cup {f}, G, i, a)
      BY <1>0, <1>21, <3>3, <3>4, <3>7, <3>8, <3>9, <3>10 DEF Interrupting
    <3> QED
      BY <3>7, <3>11
  <2> QED
    BY <2>1, <2>2
<1>24. B \in SUBSET (R \cup {f}) /\ Runs(frames', stack', control', asking', R \cup {f}, B)
  BY <1>15, <1>16, <1>17, <1>20, <1>23 DEF Runs
<1>25. R \cup {f} \in SUBSET Frames
  OBVIOUS
<1> QED
  BY <1>11, <1>13, <1>14, <1>24, <1>25 DEF Chained

LEMMA RaiseChained ==
    ASSUME Inv, ~twice, Raise
    PROVE  Chained(frames', stack', control', asking')
<1>0. /\ stack # <<>> /\ control = "run" /\ control' = "raise"
      /\ UNCHANGED <<frames, stack, asking>>
  BY DEF Inv, TypeOK, Raise
<1>1. PICK R \in SUBSET Frames, C \in [Frames -> SUBSET Frames] : \E B \in SUBSET R :
         AskersWait(frames, R, C) /\ Runs(frames, stack, control, asking, R, B)
  BY <1>0, Running
<1>2. PICK B \in SUBSET R :
         AskersWait(frames, R, C) /\ Runs(frames, stack, control, asking, R, B)
  BY <1>1
<1>3. ParentsFirst(frames)
  BY <1>0, Running
<1>4. Stacked(frames, stack, "raise")
  BY <1>0, <1>2 DEF Runs, Stacked
<1>5. Quiet(frames, stack, "run", R) => Quiet(frames, stack, "raise", R)
  BY DEF Quiet
<1>6. \A G, i, a : Interrupting(frames, stack, "run", asking, R, G, i, a)
                       => Interrupting(frames, stack, "raise", asking, R, G, i, a)
  BY DEF Interrupting
<1>7. Runs(frames, stack, "raise", asking, R, B)
  BY <1>0, <1>2, <1>4, <1>5, <1>6 DEF Runs
<1> QED
  BY <1>0, <1>2, <1>3, <1>7 DEF Chained

\* One frame starts a request, or takes up one.
LEMMA OneRuns ==
    ASSUME NEW fs, NEW f \in Frames, NEW how \in {"fresh", "resumed", "continued"}, NEW continues,
           NEW ask, NEW R \in SUBSET Frames, NEW B \in SUBSET R, Linked(fs, R), Chain(fs, f, B),
           fs[f].status \in {"unsaved", "waiting_child", "interrupted"},
           how = "fresh" => fs[f].status = "unsaved" /\ fs[f].parent = NoFrame,
           Askers(fs) \cap R \subseteq {f},
           f \in Askers(fs) => how = "resumed" /\ AtRest(fs, f)
    PROVE  Runs(fs, <<OnStack(f, how, continues)>>, "run", ask, R, B)
<1> DEFINE e == OnStack(f, how, continues)
           st == <<e>>
<1>1. e.frame = f /\ e.how = how /\ e.calling = FALSE /\ e.pending = NoFrame
  BY DEF OnStack
<1> HIDE DEF e
<1>2. DOMAIN st = {1} /\ Len(st) = 1 /\ st[1] = e
  OBVIOUS
<1> HIDE DEF st
<1>3. Stacked(fs, st, "run")
  BY <1>1, <1>2 DEF Stacked
<1>4. Quiet(fs, st, "run", R)
  BY <1>1, <1>2 DEF Quiet
<1>5. f \in R
  BY DEF Chain
<1>6. Runs(fs, st, "run", ask, R, B)
  BY <1>1, <1>2, <1>3, <1>4, <1>5 DEF Runs
<1> QED
  BY <1>6 DEF st, e

LEMMA RunChained ==
    ASSUME Inv, ~twice, Run
    PROVE  Chained(frames', stack', control', asking')
<1>0. TypeOK /\ stack = <<>> /\ control' = "run" /\ ParentsFirst(frames)
  BY DEF Inv, TypeOK, Run, Chained
<1>1. PICK C \in [Frames -> SUBSET Frames] : AskersWait(frames, {}, C)
  BY <1>0 DEF Inv, Chained
<1>2. PICK f \in Frames :
         /\ Unstarted(f)
         /\ frames' = [frames EXCEPT ![f] = Started("conversation_entry", NoFrame)]
         /\ stack' = <<OnStack(f, "fresh", FALSE)>>
  BY DEF Run
<1>3. /\ f \notin Begun(frames) /\ frames'[f].status = "unsaved" /\ frames'[f].parent = NoFrame
      /\ \A g \in Frames \ {f} : frames'[g] = frames[g]
  <2>1. "conversation_entry" \in States /\ NoFrame \in Begun(frames) \cup {NoFrame}
    BY DEF States
  <2>2. StartsIn(frames, frames', f, "conversation_entry", NoFrame)
    BY <1>0, <1>2, <2>1, StartType
  <2> QED
    BY <2>2 DEF StartsIn, Started
<1>4. ParentsFirst(frames')
  BY <1>0, <1>3 DEF ParentsFirst, NoFrame, Frames
<1>5. AskersWait(frames', {f}, C)
  BY <1>1, <1>3, AskersKept DEF Begun
<1>6. Linked(frames', {f}) /\ Chain(frames', f, {f}) /\ Askers(frames') \cap {f} = {}
  BY <1>3 DEF Linked, Chain, Askers
<1>7. Runs(frames', <<OnStack(f, "fresh", FALSE)>>, "run", asking', {f}, {f})
  BY <1>3, <1>6, OneRuns
<1>8. stack' # <<>>
  BY <1>2
<1> QED
  BY <1>0, <1>2, <1>4, <1>5, <1>7, <1>8 DEF Chained

LEMMA AnswerChained ==
    ASSUME Inv, ~twice, Answer
    PROVE  Chained(frames', stack', control', asking')
<1>0. TypeOK /\ stack = <<>> /\ control' = "run" /\ ParentsFirst(frames) /\ frames' = frames
  BY DEF Inv, TypeOK, Answer, Chained
<1>1. PICK C \in [Frames -> SUBSET Frames] : AskersWait(frames, {}, C)
  BY <1>0 DEF Inv, Chained
<1>2. PICK f \in Frames : Answerable(f) /\ stack' = <<OnStack(f, "resumed", FALSE)>>
  BY DEF Answer
<1>3. f \in Askers(frames) /\ frames[f].status = "interrupted"
  BY <1>2 DEF Answerable, Askers
<1>4. /\ AskersWait(frames, C[f], C) /\ Chain(frames, f, C[f]) /\ AtRest(frames, f)
      /\ Askers(frames) \cap C[f] = {f}
  BY <1>1, <1>3, AskersTaken
<1> DEFINE R == C[f]
<1>5. R \in SUBSET Frames /\ Linked(frames, R)
  BY <1>4 DEF Chain
<1> HIDE DEF R
<1>6. Runs(frames, <<OnStack(f, "resumed", FALSE)>>, "run", asking', R, R)
  BY <1>3, <1>4, <1>5, OneRuns DEF R
<1>7. stack' # <<>>
  BY <1>2
<1> QED
  BY <1>0, <1>2, <1>4, <1>5, <1>6, <1>7 DEF Chained, R


\* The entries below the last one stay what they were.
LEMMA StackedPopped ==
    ASSUME NEW fs, NEW gs, NEW s, NEW t, NEW ctl, NEW ctx, Stacked(fs, s, ctl), PoppedFrom(s, t),
           \A i \in 1 .. Len(s) - 1 : gs[s[i].frame] = fs[s[i].frame]
    PROVE  Stacked(gs, t, ctx)
<1> DEFINE n == Len(s)
<1>1. /\ n \in Nat /\ n >= 1 /\ DOMAIN s = 1 .. n /\ Len(t) = n - 1 /\ DOMAIN t = 1 .. n - 1
      /\ \A i \in 1 .. n - 1 : t[i] = s[i]
  BY DEF PoppedFrom
<1> HIDE DEF n
<1>2. \A i \in 1 .. n - 1 : i \in DOMAIN s /\ i < n /\ (i > 1 => i - 1 \in 1 .. n - 1)
  BY <1>1
<1>3. ASSUME NEW i \in 1 .. n - 1
      PROVE  /\ gs[t[i].frame].status \in {"unsaved", "waiting_child", "interrupted"}
             /\ t[i].how = "fresh" => gs[t[i].frame].status # "interrupted"
             /\ i > 1 => t[i].how = "fresh" /\ gs[t[i].frame].parent = t[i - 1].frame
             /\ i = 1 /\ t[i].how = "fresh" => gs[t[i].frame].parent = NoFrame
             /\ t[i].calling \/ t[i].continues
             /\ t[i].pending # NoFrame => t[i].calling
  <2>1. t[i] = s[i] /\ i \in DOMAIN s /\ i < n /\ gs[t[i].frame] = fs[s[i].frame]
        /\ (i > 1 => t[i - 1] = s[i - 1])
    BY <1>1, <1>2 DEF n
  <2>2. /\ fs[s[i].frame].status \in {"unsaved", "waiting_child", "interrupted"}
        /\ s[i].how = "fresh" => fs[s[i].frame].status # "interrupted"
        /\ i > 1 => s[i].how = "fresh" /\ fs[s[i].frame].parent = s[i - 1].frame
        /\ i = 1 /\ s[i].how = "fresh" => fs[s[i].frame].parent = NoFrame
        /\ s[i].calling \/ s[i].continues
        /\ s[i].pending # NoFrame => s[i].calling
    BY <2>1 DEF Stacked, n
  <2> QED
    BY <2>1, <2>2
<1>4. \A i, j \in 1 .. n - 1 : i < j => t[i].frame < t[j].frame
  BY <1>1, <1>2 DEF Stacked
<1> QED
  BY <1>1, <1>3, <1>4 DEF Stacked

\* A request that is not interrupted ends with its last frame.
LEMMA LastEnds ==
    ASSUME Inv, ~twice, control \in {"run", "raise"}, Len(stack) = 1,
           stack' = <<>>, frames' = frames
    PROVE  Chained(frames', stack', control', asking')
<1>0. stack # <<>>
  BY DEF Inv, TypeOK
<1>1. PICK R \in SUBSET Frames, C \in [Frames -> SUBSET Frames] : \E B \in SUBSET R :
         AskersWait(frames, R, C) /\ Runs(frames, stack, control, asking, R, B)
  BY <1>0, Running
<1>2. PICK B \in SUBSET R :
         AskersWait(frames, R, C) /\ Runs(frames, stack, control, asking, R, B)
  BY <1>1
<1>3. ParentsFirst(frames) /\ DOMAIN stack = 1 .. 1
  BY <1>0, Running, TopType
<1>4. Quiet(frames, stack, control, R)
  <2>1. \A G, i, a : i \in DOMAIN stack => ~Interrupting(frames, stack, control, asking, R, G, i, a)
    BY <1>3 DEF Interrupting
  <2> QED
    BY <1>2, <2>1 DEF Runs
<1> DEFINE f == stack[1].frame
<1>5. Chain(frames, f, B) /\ f \in R
  BY <1>2 DEF Runs, Chain
<1>6. CASE f \in Askers(frames)
  <2>1. Askers(frames) \cap R = {f} /\ AtRest(frames, f)
    BY <1>4, <1>5, <1>6 DEF Quiet
  <2> HIDE DEF f
  <2>2. AskersWait(frames, {}, [C EXCEPT ![f] = B]) /\ [C EXCEPT ![f] = B] \in [Frames -> SUBSET Frames]
    BY <1>2, <1>5, <2>1, AskersJoined
  <2> QED
    BY <1>3, <2>2 DEF Chained
<1>7. CASE f \notin Askers(frames)
  <2>1. Askers(frames) \cap R = {}
    BY <1>4, <1>7 DEF Quiet
  <2>2. AskersWait(frames, {}, C)
    BY <1>2, <2>1, AskersWithout
  <2> QED
    BY <1>3, <2>2 DEF Chained
<1> QED
  BY <1>6, <1>7

\* A frame ends and its caller goes on, or is interrupted by an earlier call.
LEMMA ReturnChained ==
    ASSUME Inv, ~twice, control \in {"run", "raise"}, Len(stack) > 1, ReturnToCaller,
           \A f \in Frames \ {Top.frame} : frames'[f] = frames[f],
           frames'[Top.frame].parent = frames[Top.frame].parent, Top.frame \notin Askers(frames')
    PROVE  Chained(frames', stack', control', asking')
<1> DEFINE n == Len(stack)
           m == Len(stack) - 1
           t == Top.frame
           e == [Caller EXCEPT !.calling = Caller.pending # NoFrame]
<1>0. stack # <<>>
  BY DEF Inv, TypeOK
<1>1. PICK R \in SUBSET Frames, C \in [Frames -> SUBSET Frames] : \E B \in SUBSET R :
         AskersWait(frames, R, C) /\ Runs(frames, stack, control, asking, R, B)
  BY <1>0, Running
<1>2. PICK B \in SUBSET R :
         AskersWait(frames, R, C) /\ Runs(frames, stack, control, asking, R, B)
  BY <1>1
<1>3. TypeOK /\ ParentsFirst(frames) /\ t \in Frames
  BY <1>0, Running, TopType
<1>4. /\ \A i \in 1 .. n : stack[i] \in EntryT(frames) /\ stack[i].frame \in R
      /\ Top = stack[n] /\ stack[1].frame \in B /\ t \notin B
  BY <1>0, <1>2, <1>3, OnTheStack
<1>5. e \in EntryT(frames) /\ stack \in Seq(EntryT(frames))
  <2>1. Caller \in EntryT(frames) /\ stack \in Seq(EntryT(frames))
    BY <1>0, <1>3, ReturnType, TopType
  <2> QED
    BY <2>1 DEF EntryT
<1>6. /\ e.frame = Caller.frame /\ e.how = Caller.how /\ e.continues = Caller.continues
      /\ e.pending = Caller.pending /\ e.calling = (Caller.pending # NoFrame)
  BY <1>0, <1>3, ReturnType DEF EntryT
<1>7. stack' = Return(stack, e) /\ Caller = stack[m]
  BY DEF ReturnToCaller, Return, Caller
<1> HIDE DEF e
<1>8. ReturnedTo(stack, stack', e)
  BY <1>5, <1>7, Returned
<1> HIDE DEF n, m
<1>9. /\ n \in Nat /\ m \in Nat /\ n = m + 1 /\ m >= 1 /\ DOMAIN stack = 1 .. n
      /\ Len(stack') = m /\ DOMAIN stack' = 1 .. m /\ stack' # <<>> /\ stack'[m] = e
      /\ \A i \in 1 .. m - 1 : stack'[i] = stack[i]
      /\ Len(stack) = n
  <2>1. n \in Nat /\ n > 1 /\ n = m + 1
    BY <1>8 DEF ReturnedTo, n, m
  <2> QED
    BY <1>8, <2>1 DEF ReturnedTo, n, m
<1>10. /\ \A i \in 1 .. m : /\ stack'[i].frame = stack[i].frame /\ stack'[i].how = stack[i].how
                            /\ stack'[i].pending = stack[i].pending
                            /\ i \in DOMAIN stack /\ i < n
  BY <1>6, <1>7, <1>9
<1>11. \A i \in 1 .. m : stack[i].frame < t /\ frames'[stack[i].frame] = frames[stack[i].frame]
  <2> SUFFICES ASSUME NEW i \in 1 .. m
               PROVE  stack[i].frame < t /\ frames'[stack[i].frame] = frames[stack[i].frame]
    OBVIOUS
  <2>1. i \in DOMAIN stack /\ n \in DOMAIN stack /\ i < n
    BY <1>9
  <2>2. stack[i].frame < t
    BY <1>2, <1>4, <2>1 DEF Runs, Stacked
  <2>3. stack[i].frame # t /\ stack[i].frame \in Frames
    <3>1. stack[i].frame \in Frames
      BY <1>4, <1>9
    <3> QED
      BY <1>3, <2>2, <3>1 DEF Frames
  <2> QED
    BY <2>2, <2>3
<1>12. \A f \in Frames : frames'[f].parent = frames[f].parent
  OBVIOUS
<1>13. ParentsFirst(frames') /\ Linked(frames', R)
  BY <1>2, <1>3, <1>12 DEF ParentsFirst, Linked, Runs
<1>14. t \in R
  BY <1>4, <1>9
<1>15. AskersWait(frames', R, C)
  BY <1>2, <1>14, AskersKept
<1>16. Chain(frames', stack'[1].frame, B)
  <2>1. Chain(frames, stack[1].frame, B) /\ stack'[1].frame = stack[1].frame
    BY <1>2, <1>9, <1>10 DEF Runs
  <2>2. \A g \in B : g \in Frames /\ g # t
    BY <1>4
  <2> QED
    BY <2>1, <2>2, ChainKept
<1>17. Stacked(frames', stack', control')
  <2>1. ASSUME NEW i \in 1 .. m
        PROVE  /\ frames'[stack'[i].frame].status \in {"unsaved", "waiting_child", "interrupted"}
               /\ stack'[i].how = "fresh" => frames'[stack'[i].frame].status # "interrupted"
               /\ i > 1 => stack'[i].how = "fresh"
                                /\ frames'[stack'[i].frame].parent = stack'[i - 1].frame
               /\ i = 1 /\ stack'[i].how = "fresh" => frames'[stack'[i].frame].parent = NoFrame
               /\ i < m \/ control' = "unwind" => stack'[i].calling \/ stack'[i].continues
               /\ stack'[i].pending # NoFrame => stack'[i].calling
    <3>1. /\ frames[stack[i].frame].status \in {"unsaved", "waiting_child", "interrupted"}
          /\ stack[i].how = "fresh" => frames[stack[i].frame].status # "interrupted"
          /\ i > 1 => stack[i].how = "fresh" /\ frames[stack[i].frame].parent = stack[i - 1].frame
          /\ i = 1 /\ stack[i].how = "fresh" => frames[stack[i].frame].parent = NoFrame
          /\ stack[i].calling \/ stack[i].continues
          /\ stack[i].pending # NoFrame => stack[i].calling
      BY <1>2, <1>9, <1>10 DEF Runs, Stacked
    <3>2. i > 1 => i - 1 \in 1 .. m
      BY <1>9
    <3>3. CASE i = m
      <4>1. control' = "unwind" => e.calling
        BY <1>6, <1>9 DEF ReturnToCaller
      <4>2. e.pending # NoFrame => e.calling
        BY <1>6, Zenon
      <4>3. stack'[i] = e /\ ~(i < m)
        BY <1>9, <3>3
      <4> QED
        BY <1>10, <1>11, <3>1, <3>2, <4>1, <4>2, <4>3
    <3>4. CASE i # m
      <4>1. i \in 1 .. m - 1
        BY <1>9, <3>4
      <4>2. stack'[i] = stack[i]
        BY <1>9, <4>1
      <4> QED
        BY <1>10, <1>11, <3>1, <3>2, <4>2
    <3> QED
      BY <3>3, <3>4
  <2>2. \A i, j \in 1 .. m : i < j => stack'[i].frame < stack'[j].frame
    BY <1>2, <1>10 DEF Runs, Stacked
  <2> QED
    BY <1>9, <2>1, <2>2 DEF Stacked
<1>18. \A i \in DOMAIN stack' : stack'[i].frame \in R
  BY <1>4, <1>9, <1>10
<1>19. Askers(frames') = Askers(frames) \ {t}
  BY DEF Askers
<1>20. \/ Quiet(frames', stack', control', R)
       \/ \E G \in SUBSET R : \E i \in DOMAIN stack', a \in G :
             Interrupting(frames', stack', control', asking', R, G, i, a)
  <2>1. CASE Quiet(frames, stack, control, R)
    <3>1. Askers(frames') \cap R = {}
      BY <1>9, <1>19, <2>1 DEF Quiet
    <3>2. /\ \A i \in DOMAIN stack' : stack'[i].pending = NoFrame
      BY <1>9, <1>10, <2>1 DEF Quiet
    <3>3. control' # "unwind"
      BY <1>6, <1>9, <3>2 DEF ReturnToCaller
    <3>4. stack'[1].frame \in R
      BY <1>9, <1>18
    <3> QED
      BY <3>1, <3>2, <3>3, <3>4 DEF Quiet
  <2>2. CASE ~Quiet(frames, stack, control, R)
    <3>0. PICK G \in SUBSET R : \E i \in DOMAIN stack, a \in G :
             Interrupting(frames, stack, control, asking, R, G, i, a)
      BY <1>2, <2>2 DEF Runs
    <3>1. PICK i \in 1 .. n, a \in G :
             Interrupting(frames, stack, control, asking, R, G, i, a)
      BY <1>9, <3>0
    <3>2. /\ i \in 1 .. m /\ a = stack[i].pending
          /\ \A j \in 1 .. n : stack[j].pending # NoFrame => j = i /\ stack[j].pending = a
          /\ \A j \in 1 .. n : j > i => a < stack[j].frame
          /\ Askers(frames) \cap R = {a} /\ AtRest(frames, a)
          /\ \A g \in G : /\ frames[g].parent \in G \cup {stack[i].frame}
                          /\ stack[i].frame < g /\ g <= a
                          /\ g # a => Waits(frames, g)
      BY <1>9, <3>1 DEF Interrupting
    <3>3. a < t /\ a \in Frames /\ a # NoFrame
      BY <1>4, <1>9, <3>1, <3>2 DEF Frames, NoFrame
    <3>4. \A g \in G : g \in Frames /\ g # t
      <4> SUFFICES ASSUME NEW g \in G
                   PROVE  g # t
        OBVIOUS
      <4>1. g <= a /\ g \in Int /\ a \in Int /\ t \in Int
        BY <1>3, <3>2, <3>3 DEF Frames
      <4> QED
        BY <3>3, <4>1
    <3>5. Askers(frames') \cap R = {a} /\ AtRest(frames', a)
      BY <1>19, <3>2, <3>3, <3>4 DEF AtRest
    <3>6. \A g \in G : /\ frames'[g].parent \in G \cup {stack'[i].frame}
                       /\ stack'[i].frame < g /\ g <= a
                       /\ g # a => Waits(frames', g)
      BY <1>10, <3>2, <3>4 DEF Waits
    <3>7. \A j \in DOMAIN stack' : /\ stack'[j].pending # NoFrame => j = i /\ stack'[j].pending = a
                                   /\ j > i => a < stack'[j].frame
      BY <1>9, <1>10, <3>2
    <3>8. IF control' = "unwind" THEN i = Len(stack') /\ a = asking'
                                 ELSE i < Len(stack') /\ a = stack'[i].pending
      <4>1. CASE i = m
        BY <1>7, <1>9, <3>2, <3>3, <4>1 DEF ReturnToCaller
      <4>2. CASE i # m
        <5>1. Caller.pending = NoFrame
          BY <1>7, <1>9, <3>2, <4>2
        <5>2. control' = "run" /\ i < m
          BY <1>9, <3>2, <4>2, <5>1 DEF ReturnToCaller
        <5> QED
          BY <1>9, <1>10, <3>2, <5>2
      <4> QED
        BY <4>1, <4>2
    <3>9. Interrupting(frames', stack', control', asking', R, G, i, a)
      BY <3>5, <3>6, <3>7, <3>8 DEF Interrupting
    <3> QED
      BY <1>9, <3>1, <3>2, <3>9
  <2> QED
    BY <2>1, <2>2
<1>21. Runs(frames', stack', control', asking', R, B)
  BY <1>13, <1>16, <1>17, <1>18, <1>20 DEF Runs
<1> QED
  BY <1>9, <1>13, <1>15, <1>21 DEF Chained

LEMMA EndFreshChained ==
    ASSUME Inv, ~twice, EndFresh
    PROVE  Chained(frames', stack', control', asking')
<1>0. TypeOK /\ stack # <<>> /\ control = "run" /\ ~Resumed
  BY DEF Inv, TypeOK, EndFresh
<1>1. \/ Len(stack) > 1 /\ ReturnToCaller
      \/ Len(stack) = 1 /\ EndEntry
  BY DEF EndFresh
<1>2. Top.frame \in Begun(frames) /\ Top.frame \in Frames
  BY <1>0, TopType
<1>3. CASE Len(stack) > 1 /\ ReturnToCaller
  <2>1. /\ \A f \in Frames \ {Top.frame} : frames'[f] = frames[f]
        /\ frames'[Top.frame].parent = frames[Top.frame].parent /\ Top.frame \notin Askers(frames')
    <3>1. CASE frames' = frames
      <4>1. PICK R \in SUBSET Frames, C \in [Frames -> SUBSET Frames] : \E B \in SUBSET R :
               AskersWait(frames, R, C) /\ Runs(frames, stack, control, asking, R, B)
        BY <1>0, Running
      <4>2. Stacked(frames, stack, control) /\ Len(stack) \in DOMAIN stack
        BY <1>0, <4>1, TopType DEF Runs
      <4>3. Top.how = "fresh" /\ Top = stack[Len(stack)]
        BY <1>0 DEF Resumed, Top
      <4>4. Top.frame \notin Askers(frames')
        BY <3>1, <4>2, <4>3 DEF Stacked, Askers
      <4> QED
        BY <3>1, <4>4
    <3>2. CASE frames' = [frames EXCEPT ![Top.frame] = Completed(Top.frame, "ok")]
      BY <1>0, <1>2, <3>2, EndedRow DEF Askers
    <3> QED
      BY <3>1, <3>2 DEF EndFresh
  <2> QED
    BY <1>0, <1>3, <2>1, ReturnChained
<1>4. CASE Len(stack) = 1 /\ EndEntry
  <2>1. frames' = frames
    BY <1>4 DEF EndFresh
  <2> QED
    BY <1>0, <1>4, <2>1, LastEnds DEF EndEntry
<1> QED
  BY <1>1, <1>3, <1>4

LEMMA PropagateChained ==
    ASSUME Inv, ~twice, Propagate
    PROVE  Chained(frames', stack', control', asking')
<1> DEFINE n == Len(stack)
<1>0. TypeOK /\ stack # <<>> /\ control = "raise" /\ frames' = frames
  BY DEF Inv, TypeOK, Propagate
<1>1. PICK R \in SUBSET Frames, C \in [Frames -> SUBSET Frames] : \E B \in SUBSET R :
         AskersWait(frames, R, C) /\ Runs(frames, stack, control, asking, R, B)
  BY <1>0, Running
<1>2. PICK B \in SUBSET R :
         AskersWait(frames, R, C) /\ Runs(frames, stack, control, asking, R, B)
  BY <1>1
<1>3. ParentsFirst(frames) /\ n \in Nat /\ n >= 1 /\ DOMAIN stack = 1 .. n
  BY <1>0, Running, TopType
<1>4. CASE Len(stack) > 1 /\ ReturnToCaller
  <2>1. Top.frame \notin Askers(frames)
    <3>1. Top = stack[n] /\ n \in DOMAIN stack /\ n > 1
      BY <1>3, <1>4 DEF Top
    <3>2. Stacked(frames, stack, control)
      BY <1>2 DEF Runs
    <3> QED
      BY <3>1, <3>2 DEF Stacked, Askers
  <2> QED
    BY <1>0, <1>4, <2>1, ReturnChained
<1>5. CASE Len(stack) = 1 /\ EndEntry
  BY <1>0, <1>5, LastEnds DEF EndEntry
<1>6. CASE Len(stack) > 1 /\ ~Caller.calling /\ stack' = Rest /\ UNCHANGED <<control, asking>>
  <2>1. PoppedFrom(stack, stack')
    <3>1. stack' = Pop(stack) /\ stack \in Seq(EntryT(frames))
      BY <1>0, <1>6, TopType DEF Rest, Pop
    <3>2. Pop(stack) \in Seq(EntryT(frames)) /\ PoppedFrom(stack, Pop(stack))
      BY <1>0, <3>1, Popped
    <3> QED
      BY <3>1, <3>2
  <2>2. /\ Len(stack') = n - 1 /\ DOMAIN stack' = 1 .. n - 1 /\ stack' # <<>>
        /\ \A i \in 1 .. n - 1 : stack'[i] = stack[i] /\ i \in DOMAIN stack
        /\ 1 \in 1 .. n - 1
    BY <1>3, <1>6, <2>1 DEF PoppedFrom
  <2>3. Stacked(frames, stack, control) /\ Chain(frames, stack[1].frame, B)
    BY <1>2 DEF Runs
  <2>4. Stacked(frames, stack', control)
    BY <2>1, <2>3, StackedPopped
  <2>5. stack[n - 1] = Caller /\ Caller.pending = NoFrame
    <3>1. stack[n - 1] = Caller /\ n - 1 \in DOMAIN stack
      BY <1>3, <1>6 DEF Caller
    <3> QED
      BY <1>6, <2>3, <3>1 DEF Stacked
  <2> HIDE DEF n
  <2>6. \/ Quiet(frames, stack', control, R)
        \/ \E G \in SUBSET R : \E i \in DOMAIN stack', a \in G :
             Interrupting(frames, stack', control, asking, R, G, i, a)
    <3>1. CASE Quiet(frames, stack, control, R)
      <4>1. stack[1].frame \notin Askers(frames)
        <5>1. Len(stack) # 1
          BY <1>3, <1>6 DEF n
        <5> QED
          BY <3>1, <5>1 DEF Quiet
      <4> QED
        BY <2>2, <3>1, <4>1 DEF Quiet
    <3>2. CASE ~Quiet(frames, stack, control, R)
      <4>1. PICK G \in SUBSET R : \E i \in DOMAIN stack, a \in G :
               Interrupting(frames, stack, control, asking, R, G, i, a)
        BY <1>2, <3>2 DEF Runs
      <4>2. PICK i \in 1 .. n, a \in G :
               Interrupting(frames, stack, control, asking, R, G, i, a)
        BY <1>3, <4>1
      <4>3. i < n /\ a = stack[i].pending /\ a # NoFrame
        BY <1>0, <4>2 DEF Interrupting, n, Frames, NoFrame
      <4>4. i \in 1 .. n - 1 /\ i < n - 1
        <5>1. i # n - 1
          BY <2>5, <4>3
        <5> QED
          BY <1>3, <4>3, <5>1
      <4>5. Interrupting(frames, stack', control, asking, R, G, i, a)
        BY <1>0, <2>2, <4>2, <4>3, <4>4 DEF Interrupting
      <4> QED
        BY <2>2, <4>1, <4>4, <4>5
    <3> QED
      BY <3>1, <3>2
  <2>7. Runs(frames, stack', control, asking, R, B)
    BY <1>2, <2>2, <2>4, <2>6 DEF Runs
  <2> QED
    BY <1>0, <1>2, <1>3, <1>6, <2>2, <2>7 DEF Chained
<1> QED
  BY <1>4, <1>5, <1>6 DEF Propagate

\* The frame that was resumed ends; what waits for it is resumed in turn.
LEMMA EndResumedChained ==
    ASSUME Inv, ~twice, EndResumed
    PROVE  Chained(frames', stack', control', asking')
<1> DEFINE n == Len(stack)
           t == Top.frame
           p == frames[Top.frame].parent
<1>0. TypeOK /\ stack # <<>> /\ control = "run" /\ Resumed
  BY DEF Inv, TypeOK, EndResumed
<1>1. PICK R \in SUBSET Frames, C \in [Frames -> SUBSET Frames] : \E B \in SUBSET R :
         AskersWait(frames, R, C) /\ Runs(frames, stack, control, asking, R, B)
  BY <1>0, Running
<1>2. PICK B \in SUBSET R :
         AskersWait(frames, R, C) /\ Runs(frames, stack, control, asking, R, B)
  BY <1>1
<1>3. /\ ParentsFirst(frames) /\ n \in Nat /\ n >= 1 /\ DOMAIN stack = 1 .. n /\ n \in DOMAIN stack
      /\ t \in Frames /\ t \in Begun(frames) /\ Top = stack[n]
  BY <1>0, Running, TopType DEF Top
<1>4. n = 1 /\ DOMAIN stack = {1}
  <2>1. ~(n > 1)
    BY <1>0, <1>2, <1>3 DEF Runs, Stacked, Resumed
  <2> QED
    BY <1>3, <2>1
<1>5. Chain(frames, t, B) /\ Linked(frames, R) /\ t \in R
  BY <1>2, <1>3, <1>4 DEF Runs, Chain
<1>6. Askers(frames) \cap R \subseteq {t}
  <2>1. \A G, i, a : i \in DOMAIN stack => ~Interrupting(frames, stack, control, asking, R, G, i, a)
    BY <1>0, <1>4 DEF Interrupting
  <2>2. Quiet(frames, stack, control, R)
    BY <1>2, <2>1 DEF Runs
  <2> QED
    BY <1>3, <1>4, <2>2 DEF Quiet
<1>7. /\ \A f \in Frames \ {t} : frames'[f] = frames[f]
      /\ frames'[t].status \in {"completed", "error"} /\ frames'[t].parent = p
  <2>1. PICK result \in {"ok", "error"} : frames' = [frames EXCEPT ![t] = Completed(t, result)]
    <3>1. PICK completed \in BOOLEAN, toolFailed \in BOOLEAN :
             frames' = [frames EXCEPT ![t] = Completed(t, StateResult(completed, toolFailed))]
      BY DEF EndResumed
    <3>2. StateResult(completed, toolFailed) \in {"ok", "error"}
      BY DEF StateResult
    <3> QED
      BY <3>1, <3>2
  <2> HIDE DEF t
  <2>2. p = frames[t].parent
    BY DEF t
  <2> HIDE DEF p
  <2> QED
    BY <1>0, <1>3, <2>1, <2>2, EndedRow
<1>8. /\ \A f \in Frames : frames'[f].parent = frames[f].parent
      /\ ParentsFirst(frames') /\ Linked(frames', R)
  BY <1>3, <1>5, <1>7 DEF ParentsFirst, Linked
<1>9. AskersWait(frames', R, C) /\ Askers(frames') \cap R = {}
  <2>1. Askers(frames') \cap R = {}
    BY <1>6, <1>7 DEF Askers
  <2> HIDE DEF t, p
  <2>2. AskersWait(frames', R, C)
    BY <1>2, <1>5, <1>7, AskersKept
  <2> QED
    BY <2>1, <2>2
<1>10. stack' = ResumedParent(p) /\ control' = IF stack' = <<>> THEN "idle" ELSE "run"
  BY DEF EndResumed
<1>11. CASE stack' = <<>>
  <2>1. AskersWait(frames', {}, C)
    BY <1>9, AskersWithout
  <2> QED
    BY <1>8, <1>11, <2>1 DEF Chained
<1>12. CASE stack' # <<>>
  <2>1. PICK how \in {"resumed", "continued"}, continues \in {Top.continues, FALSE} :
           stack' = <<OnStack(p, how, continues)>>
    BY <1>10, <1>12 DEF ResumedParent
  <2>2. p # NoFrame
    BY <1>10, <1>12 DEF ResumedParent
  <2>3. p \in B /\ p < t
    BY <1>3, <1>5, <2>2 DEF Chain, Linked, ParentsFirst
  <2> DEFINE S == {g \in B : g <= p}
  <2>4. B \subseteq Frames /\ p \in Frames /\ p # t /\ B \subseteq Int /\ p \in Int /\ t \in Int
    <3>1. B \subseteq Frames /\ p \in Frames
      BY <2>3
    <3> HIDE DEF p, t
    <3> QED
      BY <1>3, <2>3, <3>1 DEF Frames
  <2>5. \A g \in S : g \in Frames /\ g # t /\ frames'[g] = frames[g] /\ Waits(frames, g)
    <3> SUFFICES ASSUME NEW g \in S
                 PROVE  g # t /\ frames'[g] = frames[g] /\ Waits(frames, g)
      BY <2>4
    <3>1. g # t
      <4>1. g \in Int /\ g <= p
        BY <2>4
      <4> HIDE DEF S, p, t
      <4> QED
        BY <2>3, <2>4, <4>1
    <3> QED
      BY <1>5, <1>7, <2>4, <3>1 DEF Chain
  <2>6. Linked(frames', S)
    <3> SUFFICES ASSUME NEW g \in S
                 PROVE  frames'[g].parent \in S \cup {NoFrame}
      BY DEF Linked
    <3>1. frames'[g].parent \in B \cup {NoFrame} /\ frames'[g].parent < g /\ g <= p
      BY <1>5, <1>8, <2>4 DEF Chain, Linked, ParentsFirst
    <3>2. CASE frames'[g].parent \in B
      <4> DEFINE h == frames'[g].parent
      <4>1. h \in Int /\ g \in Int /\ h < g /\ g <= p
        BY <2>4, <3>1, <3>2
      <4>2. h <= p
        <5> HIDE DEF h, p, S
        <5> QED
          BY <2>4, <4>1
      <4> QED
        BY <3>2, <4>2
    <3> QED
      BY <3>1, <3>2
  <2>7. Chain(frames', p, S)
    <3>0. p <= p /\ \A g \in B : g <= p /\ g # p => g < p
      <4> HIDE DEF p
      <4> QED
        BY <2>4
    <3>1. p \in S /\ S \subseteq Frames
      BY <2>3, <2>4, <3>0
    <3>2. \A g \in S \ {p} : Waits(frames', g) /\ g < p
      BY <2>5, <3>0 DEF Waits
    <3> QED
      BY <2>6, <3>1, <3>2 DEF Chain
  <2>8. frames'[p].status = "waiting_child" /\ p \in Frames
    BY <2>3, <2>4, <2>5 DEF Waits, Frames
  <2>9. S \in SUBSET R /\ Askers(frames') \cap R \subseteq {p} /\ p \notin Askers(frames')
    BY <1>9, <2>8 DEF Askers
  <2> HIDE DEF S, p
  <2>10. Runs(frames', <<OnStack(p, how, continues)>>, "run", asking', R, S)
    BY <1>8, <2>7, <2>8, <2>9, OneRuns
  <2> QED
    BY <1>8, <1>9, <1>10, <1>12, <2>1, <2>9, <2>10 DEF Chained
<1> QED
  BY <1>11, <1>12

\* A frame asks; nobody else of the request does.
LEMMA AskChained ==
    ASSUME Inv, ~twice, Ask, ~twice'
    PROVE  Chained(frames', stack', control', asking')
<1> DEFINE n == Len(stack)
           m == Len(stack) - 1
           t == Top.frame
<1>0. TypeOK /\ stack # <<>> /\ control = "run" /\ MayAsk(Top) /\ asking' = t
  BY DEF Inv, TypeOK, Ask
<1>1. PICK R \in SUBSET Frames, C \in [Frames -> SUBSET Frames] : \E B \in SUBSET R :
         AskersWait(frames, R, C) /\ Runs(frames, stack, control, asking, R, B)
  BY <1>0, Running
<1>2. PICK B \in SUBSET R :
         AskersWait(frames, R, C) /\ Runs(frames, stack, control, asking, R, B)
  BY <1>1
<1>3. /\ ParentsFirst(frames) /\ n \in Nat /\ n >= 1 /\ DOMAIN stack = 1 .. n /\ n \in DOMAIN stack
      /\ t \in Frames /\ t \in Begun(frames) /\ Top = stack[n] /\ frames \in [Frames -> FrameT]
      /\ frames[t] \in FrameT /\ m \in Nat /\ n = m + 1
  BY <1>0, Running, TopType DEF Top
<1>4. \A i \in DOMAIN stack : stack[i].pending = NoFrame
  BY DEF Ask
<1>5. Quiet(frames, stack, control, R)
  <2>1. \A G \in SUBSET R : \A i \in DOMAIN stack, a \in G :
           ~Interrupting(frames, stack, control, asking, R, G, i, a)
    BY <1>0, <1>4 DEF Interrupting, Frames, NoFrame
  <2> QED
    BY <1>2, <2>1 DEF Runs
<1>6. Askers(frames) \cap R = {}
  <2>1. stack[1].frame \notin Askers(frames)
    <3> SUFFICES ASSUME stack[1].frame \in Askers(frames)
                 PROVE  FALSE
      OBVIOUS
    <3>1. n = 1 /\ stack[1].how = "resumed"
      BY <1>5 DEF Quiet
    <3> QED
      BY <1>0, <1>3, <3>1 DEF MayAsk
  <2> QED
    BY <1>5, <2>1 DEF Quiet
<1>7. /\ \A f \in Frames \ {t} : frames'[f] = frames[f]
      /\ frames'[t].status = "interrupted" /\ frames'[t].open = TRUE
      /\ frames'[t].parent = frames[t].parent /\ frames'[t].state = frames[t].state
  <2> DEFINE r == [frames[t] EXCEPT !.status = "interrupted", !.open = TRUE]
  <2>1. /\ r.status = "interrupted" /\ r.open = TRUE
        /\ r.parent = frames[t].parent /\ r.state = frames[t].state
    BY <1>3 DEF FrameT
  <2>2. frames' = [frames EXCEPT ![t] = r]
    BY <1>0, TopType DEF Ask
  <2> HIDE DEF r, t
  <2> QED
    BY <1>3, <2>1, <2>2
<1>8. AtRest(frames', t)
  BY <1>0, <1>7 DEF AtRest, MayAsk
<1>9. /\ \A i \in 1 .. n : stack[i] \in EntryT(frames) /\ stack[i].frame \in R
      /\ stack[1].frame \in B /\ (n > 1 => t \notin B) /\ t \in R
      /\ \A i \in 1 .. n - 1 : stack[i].frame < t
  <2>1. /\ \A i \in 1 .. n : stack[i] \in EntryT(frames) /\ stack[i].frame \in R
        /\ stack[1].frame \in B /\ (n > 1 => t \notin B)
        /\ \A i \in 1 .. n - 1 : stack[i].frame < t
    BY <1>0, <1>2, OnTheStack
  <2> QED
    BY <1>3, <2>1
<1> HIDE DEF n, m, t
<1>10. ParentsFirst(frames') /\ Linked(frames', R)
  BY <1>2, <1>3, <1>7 DEF ParentsFirst, Linked, Runs
<1>11. AskersWait(frames', R, C) /\ Askers(frames') \cap R = {t}
  <2>1. AskersWait(frames', R, C)
    BY <1>2, <1>7, <1>9, AskersKept
  <2> QED
    BY <1>6, <1>7, <1>9, <1>3, <2>1 DEF Askers
<1>12. Chain(frames', stack[1].frame, B)
  <2>1. Chain(frames, stack[1].frame, B) /\ B \subseteq Frames
    BY <1>2 DEF Runs
  <2>2. \A g \in B : frames'[g].parent = frames[g].parent
    BY <1>7, <2>1
  <2>3. \A g \in B \ {stack[1].frame} : g # t
    <3>1. n = 1 => t = stack[1].frame
      BY <1>3 DEF t
    <3> QED
      BY <1>3, <1>9, <3>1
  <2>4. \A g \in B \ {stack[1].frame} : frames'[g] = frames[g]
    BY <1>7, <2>1, <2>3
  <2> QED
    BY <2>1, <2>2, <2>4, ChainKept
<1>13. stack' = Rest /\ control' = IF stack' = <<>> THEN "idle" ELSE "unwind"
  BY DEF Ask
<1>14. PoppedFrom(stack, stack')
  <2>1. stack' = Pop(stack) /\ stack \in Seq(EntryT(frames))
    BY <1>0, <1>13, TopType DEF Rest, Pop
  <2>2. Pop(stack) \in Seq(EntryT(frames)) /\ PoppedFrom(stack, Pop(stack))
    BY <1>0, <2>1, Popped
  <2> QED
    BY <2>1, <2>2
<1>15. CASE stack' = <<>>
  <2>1. n = 1
    BY <1>14, <1>15 DEF PoppedFrom, n
  <2>2. Chain(frames', t, B)
    BY <1>3, <1>12, <2>1 DEF t
  <2>3. AskersWait(frames', {}, [C EXCEPT ![t] = B]) /\ [C EXCEPT ![t] = B] \in [Frames -> SUBSET Frames]
    BY <1>8, <1>9, <1>11, <2>2, AskersJoined
  <2> QED
    BY <1>10, <1>15, <2>3 DEF Chained
<1>16. CASE stack' # <<>>
  <2>1. /\ Len(stack') = m /\ DOMAIN stack' = 1 .. m
        /\ n > 1 /\ m \in 1 .. m /\ m \in 1 .. n - 1 /\ 1 \in 1 .. m /\ n = m + 1
        /\ \A i \in 1 .. m : stack'[i] = stack[i] /\ i \in 1 .. n /\ i \in 1 .. n - 1
    BY <1>3, <1>14, <1>16 DEF PoppedFrom, n, m
  <2>2. Stacked(frames', stack', "unwind")
    <3>1. Stacked(frames, stack, control)
      BY <1>2 DEF Runs
    <3>2. \A i \in 1 .. n - 1 : frames'[stack[i].frame] = frames[stack[i].frame]
      <4> SUFFICES ASSUME NEW i \in 1 .. n - 1
                   PROVE  frames'[stack[i].frame] = frames[stack[i].frame]
        OBVIOUS
      <4>1. stack[i].frame \in R /\ stack[i].frame < t
        BY <1>3, <1>9
      <4>2. stack[i].frame # t
        BY <1>3, <4>1 DEF Frames
      <4> QED
        BY <1>7, <4>1, <4>2
    <3> QED
      BY <1>14, <3>1, <3>2, StackedPopped DEF n
  <2>3. frames'[t].parent = stack'[m].frame /\ stack'[m].frame < t
    BY <1>2, <1>3, <1>7, <1>9, <2>1 DEF Runs, Stacked, t, n, m
  <2>4. Interrupting(frames', stack', "unwind", t, R, {t}, m, t)
    <3>1. t <= t
      BY <1>3 DEF Frames
    <3>2. \A j \in DOMAIN stack' : stack'[j].pending = NoFrame /\ ~(j > m)
      BY <1>3, <1>4, <2>1
    <3> QED
      BY <1>8, <1>11, <2>1, <2>3, <3>1, <3>2 DEF Interrupting
  <2>5. Runs(frames', stack', "unwind", t, R, B)
    <3>1. {t} \in SUBSET R /\ m \in DOMAIN stack'
      BY <1>9, <2>1
    <3> QED
      BY <1>9, <1>10, <1>12, <2>1, <2>2, <2>4, <3>1 DEF Runs
  <2> QED
    BY <1>0, <1>10, <1>11, <1>13, <1>16, <2>5 DEF Chained
<1> QED
  BY <1>15, <1>16

\* While the request unwinds, one frame asks, and its caller is saved as waiting.
LEMMA Unwound ==
    ASSUME Inv, ~twice, stack # <<>>, control = "unwind",
           NEW R \in SUBSET Frames, NEW B \in SUBSET R, NEW C \in [Frames -> SUBSET Frames],
           AskersWait(frames, R, C), Runs(frames, stack, control, asking, R, B)
    PROVE  /\ FramesOK(Interrupted(frames)) /\ Begun(Interrupted(frames)) = Begun(frames)
           /\ ParentsFirst(Interrupted(frames)) /\ Linked(Interrupted(frames), R)
           /\ AskersWait(Interrupted(frames), R, C)
           /\ Askers(Interrupted(frames)) \cap R = {asking} /\ AtRest(Interrupted(frames), asking)
           /\ Waits(Interrupted(frames), Top.frame)
           /\ \A i \in DOMAIN stack : /\ stack[i].pending # NoFrame => i = Len(stack)
                                      /\ stack[i].frame # asking
           /\ \A f \in Frames \ {Top.frame, asking} : Interrupted(frames)[f] = frames[f]
           /\ \A f \in Frames : Interrupted(frames)[f].parent = frames[f].parent
           /\ Chain(Interrupted(frames), stack[1].frame, B) /\ asking \notin B
           /\ asking \in Frames /\ Top.frame < asking
           /\ \E G \in SUBSET R :
                 /\ asking \in G /\ Top.frame \notin G
                 /\ \A f \in G : /\ Interrupted(frames)[f].parent \in G \cup {Top.frame}
                                 /\ Top.frame < f /\ f <= asking
                                 /\ f # asking => Waits(Interrupted(frames), f)
<1> DEFINE n == Len(stack)
           t == Top.frame
           hs == Interrupted(frames)
<1>1. TypeOK /\ ParentsFirst(frames)
  BY Running
<1>2. /\ n \in Nat /\ n >= 1 /\ DOMAIN stack = 1 .. n /\ n \in DOMAIN stack /\ Top = stack[n]
      /\ t \in Frames
  BY <1>1, TopType DEF Top
<1>3. /\ FramesOK(hs) /\ Begun(hs) = Begun(frames)
      /\ \A f \in Frames : /\ hs[f].parent = frames[f].parent /\ hs[f].state = frames[f].state
                           /\ f \notin {t, asking} => hs[f] = frames[f]
      /\ hs[asking].status = "interrupted"
      /\ t # asking =>
            /\ hs[t].status = "waiting_child" /\ hs[t].open = Top.calling
            /\ hs[t].continues = Top.continues /\ hs[asking].open = frames[asking].open
  BY <1>1, InterruptedRows
<1>4. /\ \A i \in 1 .. n : stack[i].frame \in R
      /\ \A i \in 1 .. n - 1 : stack[i].frame < t
      /\ stack[1].frame \in B /\ (\A b \in B : b <= stack[1].frame) /\ (n > 1 => t \notin B)
  BY <1>1, OnTheStack
<1> HIDE DEF n, hs
<1>5. PICK G \in SUBSET R : \E i \in DOMAIN stack, a \in G :
         Interrupting(frames, stack, control, asking, R, G, i, a)
  <2>1. ~Quiet(frames, stack, control, R)
    BY DEF Quiet
  <2> QED
    BY <2>1 DEF Runs
<1>6. asking \in G /\ Interrupting(frames, stack, control, asking, R, G, n, asking)
  BY <1>5 DEF Interrupting, n
<1>7. /\ \A j \in DOMAIN stack : stack[j].pending # NoFrame => j = n
      /\ Askers(frames) \cap R = {asking} /\ AtRest(frames, asking)
      /\ \A f \in G : /\ frames[f].parent \in G \cup {t}
                      /\ t < f /\ f <= asking
                      /\ f # asking => Waits(frames, f)
  BY <1>2, <1>6 DEF Interrupting, t
<1> HIDE DEF t
<1>8. asking \in Frames /\ asking \in R /\ t < asking /\ t # asking /\ t \notin G
  BY <1>2, <1>6, <1>7 DEF Frames
<1>9. t \in R
  BY <1>2, <1>4 DEF t
<1>10. ASSUME NEW i \in DOMAIN stack
       PROVE  stack[i].frame # asking
  <2>1. stack[i].frame \in Frames
    BY <1>2, <1>4
  <2>2. CASE i = n
    BY <1>2, <1>8, <2>2 DEF t
  <2>3. CASE i # n
    <3>1. i \in 1 .. n - 1
      BY <1>2, <2>3
    <3> QED
      BY <1>2, <1>4, <1>8, <2>1, <3>1 DEF Frames
  <2> QED
    BY <2>2, <2>3
<1>11. asking \notin B
  <2> SUFFICES ASSUME asking \in B
               PROVE  FALSE
    OBVIOUS
  <2> DEFINE b == stack[1].frame
  <2>1. asking <= b /\ b \in Frames /\ (b < t \/ b = t)
    <3>1. n = 1 \/ 1 \in 1 .. n - 1
      BY <1>2
    <3> QED
      BY <1>2, <1>4, <3>1 DEF t
  <2> HIDE DEF b
  <2> QED
    BY <1>2, <1>8, <2>1 DEF Frames
<1>12. Chain(hs, stack[1].frame, B)
  <2>1. Chain(frames, stack[1].frame, B)
    BY DEF Runs
  <2>2. \A g \in B \ {stack[1].frame} : g # t
    <3>1. n = 1 => t = stack[1].frame
      BY <1>2 DEF t
    <3> QED
      BY <1>2, <1>4, <3>1
  <2>3. \A g \in B : g \in Frames /\ g # asking
    BY <1>11
  <2> QED
    BY <1>3, <2>1, <2>2, <2>3, ChainKept
<1>13. AskersWait(hs, R, C)
  BY <1>3, <1>8, <1>9, AskersKept
<1>14. Askers(hs) \cap R = {asking} /\ AtRest(hs, asking)
  <2>1. AtRest(hs, asking)
    BY <1>3, <1>7, <1>8 DEF AtRest
  <2>2. \A f \in Frames : f \in Askers(hs) <=> f = asking \/ (f # t /\ f \in Askers(frames))
    BY <1>3, <1>8 DEF Askers
  <2>3. Askers(hs) \subseteq Frames /\ Askers(frames) \subseteq Frames
    BY DEF Askers
  <2>4. \A f : f \in Askers(frames) /\ f \in R <=> f = asking
    BY <1>7
  <2>5. \A f : f \in Askers(hs) /\ f \in R <=> f = asking
    BY <1>8, <2>2, <2>3, <2>4
  <2> QED
    BY <2>1, <2>5
<1>15. Waits(hs, t)
  <2>1. Top.calling \/ Top.continues
    BY <1>2 DEF Runs, Stacked
  <2> QED
    BY <1>3, <1>8, <2>1 DEF Waits
<1>16. ParentsFirst(hs) /\ Linked(hs, R)
  BY <1>1, <1>3 DEF ParentsFirst, Linked, Runs
<1>17. \A f \in G : /\ hs[f].parent \in G \cup {t}
                    /\ t < f /\ f <= asking
                    /\ f # asking => Waits(hs, f)
  BY <1>3, <1>7, <1>8 DEF Waits
<1> QED
  BY <1>3, <1>7, <1>8, <1>10, <1>11, <1>12, <1>13, <1>14, <1>15, <1>16, <1>17, <1>6 DEF n, t, hs

\* What waits for the frame that asks, once its request has ended: the frames
\* saved of the request and those that waited for it before.
LEMMA ChainsJoined ==
    ASSUME NEW fs, NEW R \in SUBSET Frames, NEW B \in SUBSET R, NEW G \in SUBSET R,
           NEW a \in G, NEW b \in Frames, Chain(fs, b, B), Waits(fs, b), b < a,
           \A f \in G : /\ fs[f].parent \in G \cup {b}
                        /\ b < f /\ f <= a
                        /\ f # a => Waits(fs, f)
    PROVE  Chain(fs, a, G \cup B)
<1>1. Linked(fs, G \cup B)
  BY DEF Chain, Linked
<1>2. ASSUME NEW g \in (G \cup B) \ {a}
      PROVE  Waits(fs, g) /\ g < a
  <2>1. g \in Int /\ a \in Int /\ b \in Int
    BY DEF Frames
  <2>2. CASE g \in G
    BY <1>2, <2>1, <2>2
  <2>3. CASE g \in B
    BY <2>1, <2>3 DEF Chain
  <2> QED
    BY <2>2, <2>3
<1> QED
  BY <1>1, <1>2 DEF Chain

LEMMA UnwindCallerChained ==
    ASSUME Inv, ~twice, UnwindCaller
    PROVE  Chained(frames', stack', control', asking')
<1> DEFINE n == Len(stack)
           m == Len(stack) - 1
           t == Top.frame
           a == asking
           hs == Interrupted(frames)
<1>0. /\ TypeOK /\ stack # <<>> /\ control = "unwind" /\ frames' = hs /\ asking' = a
      /\ stack' = Rest /\ control' = IF stack' = <<>> THEN "idle" ELSE "unwind"
  BY DEF Inv, TypeOK, UnwindCaller
<1>1. PICK R \in SUBSET Frames, C \in [Frames -> SUBSET Frames] : \E B \in SUBSET R :
         AskersWait(frames, R, C) /\ Runs(frames, stack, control, asking, R, B)
  BY <1>0, Running
<1>2. PICK B \in SUBSET R :
         AskersWait(frames, R, C) /\ Runs(frames, stack, control, asking, R, B)
  BY <1>1
<1>3. /\ n \in Nat /\ n >= 1 /\ DOMAIN stack = 1 .. n /\ n \in DOMAIN stack /\ Top = stack[n]
      /\ m \in Nat /\ n = m + 1 /\ t \in Frames
  BY <1>0, TopType DEF Top
<1>4. /\ ParentsFirst(hs) /\ Linked(hs, R)
      /\ AskersWait(hs, R, C)
      /\ Askers(hs) \cap R = {a} /\ AtRest(hs, a)
      /\ Waits(hs, t)
      /\ \A i \in DOMAIN stack : /\ stack[i].pending # NoFrame => i = n
                                 /\ stack[i].frame # a
      /\ \A f \in Frames \ {t, a} : hs[f] = frames[f]
      /\ \A f \in Frames : hs[f].parent = frames[f].parent
      /\ Chain(hs, stack[1].frame, B) /\ a \notin B
      /\ a \in Frames /\ t < a
      /\ \E G \in SUBSET R :
            /\ a \in G /\ t \notin G
            /\ \A f \in G : /\ hs[f].parent \in G \cup {t}
                            /\ t < f /\ f <= a
                            /\ f # a => Waits(hs, f)
  BY <1>0, <1>2, Unwound
<1>5. PICK G \in SUBSET R :
            /\ a \in G /\ t \notin G
            /\ \A f \in G : /\ hs[f].parent \in G \cup {t}
                            /\ t < f /\ f <= a
                            /\ f # a => Waits(hs, f)
  BY <1>4
<1>6. /\ \A i \in 1 .. n : stack[i].frame \in R
      /\ \A i \in 1 .. n - 1 : stack[i].frame < t
  BY <1>0, <1>2, OnTheStack
<1>7. PoppedFrom(stack, stack')
  <2>1. stack' = Pop(stack) /\ stack \in Seq(EntryT(frames))
    BY <1>0, TopType DEF Rest, Pop
  <2>2. Pop(stack) \in Seq(EntryT(frames)) /\ PoppedFrom(stack, Pop(stack))
    BY <1>0, <2>1, Popped
  <2> QED
    BY <2>1, <2>2
<1> HIDE DEF n, m, hs
<1>8. CASE stack' = <<>>
  <2>1. n = 1 /\ t = stack[1].frame
    BY <1>3, <1>7, <1>8 DEF PoppedFrom, n
  <2> HIDE DEF t, a
  <2>2. Chain(hs, a, G \cup B)
    BY <1>3, <1>4, <1>5, <2>1, ChainsJoined
  <2> DEFINE S == G \cup B
  <2>3. S \subseteq R /\ a \in R
    BY <1>5
  <2> HIDE DEF S
  <2>4. AskersWait(hs, {}, [C EXCEPT ![a] = S]) /\ [C EXCEPT ![a] = S] \in [Frames -> SUBSET Frames]
    BY <1>4, <2>2, <2>3, AskersJoined DEF S
  <2> QED
    BY <1>0, <1>4, <1>8, <2>4 DEF Chained
<1>9. CASE stack' # <<>>
  <2>1. /\ Len(stack') = m /\ DOMAIN stack' = 1 .. m
        /\ n > 1 /\ m \in 1 .. m /\ 1 \in 1 .. m
        /\ \A i \in 1 .. m : stack'[i] = stack[i] /\ i \in 1 .. n /\ i \in 1 .. n - 1
    BY <1>3, <1>7, <1>9 DEF PoppedFrom, n, m
  <2> HIDE DEF t, a
  <2>2. Stacked(hs, stack', "unwind")
    <3>1. Stacked(frames, stack, control)
      BY <1>2 DEF Runs
    <3>2. \A i \in 1 .. n - 1 : hs[stack[i].frame] = frames[stack[i].frame]
      <4> SUFFICES ASSUME NEW i \in 1 .. n - 1
                   PROVE  hs[stack[i].frame] = frames[stack[i].frame]
        OBVIOUS
      <4>1. i \in DOMAIN stack /\ stack[i].frame \in R /\ stack[i].frame < t
        BY <1>3, <1>6
      <4>2. stack[i].frame # t /\ stack[i].frame # a
        BY <1>3, <1>4, <4>1 DEF Frames
      <4> QED
        BY <1>4, <4>1, <4>2
    <3> QED
      BY <1>7, <3>1, <3>2, StackedPopped DEF n
  <2>3. hs[t].parent = stack'[m].frame /\ stack'[m].frame < t
    <3>1. stack[n].how = "fresh" /\ frames[stack[n].frame].parent = stack[n - 1].frame
      BY <1>2, <1>3, <2>1 DEF Runs, Stacked
    <3>2. n - 1 = m /\ m \in 1 .. n - 1
      BY <1>3, <2>1
    <3> QED
      BY <1>3, <1>4, <1>6, <2>1, <3>1, <3>2 DEF t
  <2> DEFINE H == G \cup {t}
             s == stack'[m].frame
  <2>4. H \in SUBSET R /\ a \in H /\ m \in DOMAIN stack'
    BY <1>3, <1>5, <1>6, <2>1 DEF t
  <2>5. \A f \in H : /\ hs[f].parent \in H \cup {s}
                     /\ s < f /\ f <= a
                     /\ f # a => Waits(hs, f)
    <3>1. s \in Frames
      BY <1>6, <2>1
    <3> HIDE DEF s
    <3>2. hs[t].parent = s /\ s < t /\ t <= a
      BY <1>3, <1>4, <2>3 DEF s, Frames
    <3>3. ASSUME NEW f \in G
          PROVE  s < f
      <4>1. f \in Frames /\ t < f
        BY <1>5
      <4> QED
        BY <1>3, <3>1, <3>2, <4>1 DEF Frames
    <3> QED
      BY <1>4, <1>5, <3>2, <3>3
  <2>6. Interrupting(hs, stack', "unwind", a, R, H, m, a)
    <3>1. \A j \in DOMAIN stack' : stack'[j].pending = NoFrame /\ ~(j > m)
      <4> SUFFICES ASSUME NEW j \in 1 .. m
                   PROVE  stack'[j].pending = NoFrame /\ ~(j > m)
        BY <2>1
      <4>1. j # n /\ j \in DOMAIN stack /\ stack'[j] = stack[j] /\ ~(j > m)
        BY <1>3, <2>1
      <4> QED
        BY <1>4, <4>1
    <3> HIDE DEF H
    <3> QED
      BY <1>4, <2>1, <2>5, <3>1 DEF Interrupting
  <2> HIDE DEF H
  <2>7. Runs(hs, stack', "unwind", a, R, B)
    <3>1. \A i \in DOMAIN stack' : stack'[i].frame \in R
      BY <1>6, <2>1
    <3>2. Chain(hs, stack'[1].frame, B)
      BY <1>4, <2>1
    <3> QED
      BY <1>4, <2>2, <2>4, <2>6, <3>1, <3>2 DEF Runs
  <2> QED
    BY <1>0, <1>4, <1>9, <2>7 DEF Chained
<1> QED
  BY <1>8, <1>9

LEMMA UnwindResumedChained ==
    ASSUME Inv, ~twice, UnwindResumedCaller
    PROVE  Chained(frames', stack', control', asking')
<1> DEFINE n == Len(stack)
           t == Top.frame
           a == asking
           hs == Interrupted(frames)
<1>0. /\ TypeOK /\ stack # <<>> /\ control = "unwind" /\ frames' = Adopted(hs)
      /\ stack' = <<>> /\ Top.how = "resumed"
  BY DEF Inv, TypeOK, UnwindResumedCaller
<1>1. PICK R \in SUBSET Frames, C \in [Frames -> SUBSET Frames] : \E B \in SUBSET R :
         AskersWait(frames, R, C) /\ Runs(frames, stack, control, asking, R, B)
  BY <1>0, Running
<1>2. PICK B \in SUBSET R :
         AskersWait(frames, R, C) /\ Runs(frames, stack, control, asking, R, B)
  BY <1>1
<1>3. /\ n \in Nat /\ n >= 1 /\ DOMAIN stack = 1 .. n /\ n \in DOMAIN stack /\ Top = stack[n]
      /\ t \in Frames /\ t = stack[n].frame
  BY <1>0, TopType DEF Top
<1>4. n = 1
  <2>1. ~(n > 1)
    BY <1>0, <1>2, <1>3 DEF Runs, Stacked
  <2> QED
    BY <1>3, <2>1
<1>5. /\ ParentsFirst(hs)
      /\ AskersWait(hs, R, C)
      /\ Askers(hs) \cap R = {a} /\ AtRest(hs, a)
      /\ Waits(hs, t)
      /\ Chain(hs, stack[1].frame, B) /\ a \notin B
      /\ a \in Frames /\ t < a
  BY <1>0, <1>2, Unwound
<1>6. /\ frames'[a].parent = t /\ frames'[a].open = TRUE
      /\ frames'[a].status = "interrupted" /\ frames'[a].state = hs[a].state
      /\ \A f \in Frames \ {a} : frames'[f] = hs[f]
  <2>1. hs[a].state = frames[a].state
    BY <1>0, <1>5, InterruptedRows
  <2> QED
    BY <1>0, <2>1, AdoptedRows
<1>7. a \in R /\ hs[a].status = "interrupted"
  BY <1>5 DEF Askers
<1> HIDE DEF t, a, hs, n
<1>8. ParentsFirst(frames')
  BY <1>5, <1>6 DEF ParentsFirst
<1>9. AskersWait(frames', R, C)
  BY <1>5, <1>6, <1>7, AskersKept
<1>10. Askers(frames') \cap R = {a} /\ AtRest(frames', a)
  BY <1>5, <1>6, <1>7 DEF Askers, AtRest
<1> DEFINE S == {a} \cup B
<1>11. Chain(frames', a, S)
  <2>1. Chain(hs, t, B) /\ t \in B
    BY <1>3, <1>4, <1>5 DEF Chain
  <2>2. \A g \in B : /\ g \in Frames /\ frames'[g] = hs[g]
                     /\ hs[g].parent \in B \cup {NoFrame} /\ Waits(hs, g)
                     /\ g < a
    <3> SUFFICES ASSUME NEW g \in B
                 PROVE  /\ g \in Frames /\ frames'[g] = hs[g]
                        /\ hs[g].parent \in B \cup {NoFrame} /\ Waits(hs, g)
                        /\ g < a
      OBVIOUS
    <3>1. g \in Frames /\ frames'[g] = hs[g] /\ hs[g].parent \in B \cup {NoFrame}
      BY <1>5, <1>6, <2>1 DEF Chain, Linked
    <3>2. Waits(hs, g) /\ (g < t \/ g = t)
      BY <1>5, <2>1 DEF Chain
    <3> QED
      BY <1>3, <1>5, <3>1, <3>2 DEF Frames
  <2> QED
    BY <1>5, <1>6, <2>1, <2>2 DEF Chain, Linked, Waits
<1>12. S \subseteq R
  BY <1>7
<1> HIDE DEF S
<1>13. AskersWait(frames', {}, [C EXCEPT ![a] = S]) /\ [C EXCEPT ![a] = S] \in [Frames -> SUBSET Frames]
  BY <1>7, <1>9, <1>10, <1>11, <1>12, AskersJoined
<1> QED
  BY <1>0, <1>8, <1>13 DEF Chained

\* The turn of the interrupted caller goes on with a further call.
LEMMA NextCallChained ==
    ASSUME Inv, ~twice, NextCall
    PROVE  Chained(frames', stack', control', asking')
<1> DEFINE n == Len(stack)
           t == Top.frame
           a == asking
           hs == Interrupted(frames)
<1>0. /\ TypeOK /\ stack # <<>> /\ control = "unwind" /\ Top.calling
      /\ control' = "run" /\ asking' = NoFrame
  BY DEF Inv, TypeOK, NextCall
<1>1. PICK R \in SUBSET Frames, C \in [Frames -> SUBSET Frames] : \E B \in SUBSET R :
         AskersWait(frames, R, C) /\ Runs(frames, stack, control, asking, R, B)
  BY <1>0, Running
<1>2. PICK B \in SUBSET R :
         AskersWait(frames, R, C) /\ Runs(frames, stack, control, asking, R, B)
  BY <1>1
<1>3. /\ n \in Nat /\ n >= 1 /\ DOMAIN stack = 1 .. n /\ n \in DOMAIN stack /\ Top = stack[n]
      /\ t \in Frames /\ t \in Begun(frames) /\ t = stack[n].frame
      /\ a \in Begun(frames) /\ Top \in EntryT(frames) /\ stack \in Seq(EntryT(frames))
  BY <1>0, TopType DEF Top, TypeOK
<1>4. /\ Begun(hs) = Begun(frames) /\ FramesOK(hs)
      /\ ParentsFirst(hs) /\ Linked(hs, R)
      /\ AskersWait(hs, R, C)
      /\ Askers(hs) \cap R = {a} /\ AtRest(hs, a)
      /\ Waits(hs, t)
      /\ \A i \in DOMAIN stack : /\ stack[i].pending # NoFrame => i = n
                                 /\ stack[i].frame # a
      /\ \A f \in Frames \ {t, a} : hs[f] = frames[f]
      /\ \A f \in Frames : hs[f].parent = frames[f].parent
      /\ Chain(hs, stack[1].frame, B) /\ a \notin B
      /\ a \in Frames /\ t < a
      /\ \E G \in SUBSET R :
            /\ a \in G /\ t \notin G
            /\ \A f \in G : /\ hs[f].parent \in G \cup {t}
                            /\ t < f /\ f <= a
                            /\ f # a => Waits(hs, f)
  BY <1>0, <1>2, Unwound
<1>5. PICK G \in SUBSET R :
            /\ a \in G /\ t \notin G
            /\ \A f \in G : /\ hs[f].parent \in G \cup {t}
                            /\ t < f /\ f <= a
                            /\ f # a => Waits(hs, f)
  BY <1>4
<1>6. /\ \A i \in 1 .. n : stack[i].frame \in R /\ stack[i].frame \in Begun(frames)
      /\ \A i \in 1 .. n - 1 : stack[i].frame < t
      /\ B \subseteq Begun(frames)
  BY <1>0, <1>2, OnTheStack
<1>7. PICK f \in Frames, state \in States :
          /\ Unstarted(f)
          /\ frames' = [Interrupted(frames) EXCEPT ![f] = Started(state, Top.frame)]
          /\ stack' = Rest \o <<[Top EXCEPT !.pending = asking], OnStack(f, "fresh", Top.continues)>>
  BY DEF NextCall
<1> DEFINE e == [Top EXCEPT !.pending = asking]
           c == OnStack(f, "fresh", Top.continues)
<1>8. /\ Begun(frames') = Begun(frames) \cup {f} /\ f \notin Begun(frames)
      /\ \A g \in Begun(frames) : g < f
      /\ frames'[f].status = "unsaved" /\ frames'[f].parent = t
      /\ \A g \in Frames \ {f} : frames'[g] = hs[g]
  <2>1. StartsIn(Interrupted(frames), frames', f, state, Top.frame)
    BY <1>0, <1>7, NextRows
  <2> QED
    BY <1>4, <2>1 DEF StartsIn, Started
<1>9. /\ e.frame = t /\ e.how = Top.how /\ e.calling /\ e.continues = Top.continues /\ e.pending = a
      /\ Top.calling \in BOOLEAN
  BY <1>0, <1>3 DEF EntryT
<1>10. c.frame = f /\ c.how = "fresh" /\ c.pending = NoFrame
  BY DEF OnStack
<1>11. e \in EntryT(frames') /\ c \in EntryT(frames') /\ stack \in Seq(EntryT(frames'))
  <2>1. Top \in EntryT(frames') /\ a \in Begun(frames')
    BY <1>3, <1>8 DEF EntryT
  <2>2. e \in EntryT(frames') /\ Top.continues \in BOOLEAN
    BY <2>1 DEF EntryT
  <2> HIDE DEF e
  <2>3. c \in EntryT(frames')
    BY <1>8, <2>2, OnStackType
  <2>4. stack \in Seq(EntryT(frames'))
    BY <1>3, <1>8, Grown
  <2> QED
    BY <2>2, <2>3, <2>4
<1>12. stack' = Push(stack, e, c)
  BY <1>7 DEF Rest, Push
<1> HIDE DEF e, c, n, hs
<1>13. /\ Len(stack') = n + 1
       /\ DOMAIN stack' = 1 .. n + 1 /\ stack'[n] = e /\ stack'[n + 1] = c /\ stack' # <<>>
       /\ \A i \in 1 .. n - 1 : stack'[i] = stack[i]
  <2>1. PushedOn(stack, stack', e, c)
    BY <1>0, <1>11, <1>12, Pushed
  <2> QED
    BY <2>1 DEF PushedOn, n
<1>14. \A i \in 1 .. n : stack'[i].frame = stack[i].frame /\ stack'[i].how = stack[i].how
                           /\ (i < n => stack'[i].pending = NoFrame)
  <2> SUFFICES ASSUME NEW i \in 1 .. n
               PROVE  stack'[i].frame = stack[i].frame /\ stack'[i].how = stack[i].how
                           /\ (i < n => stack'[i].pending = NoFrame)
    OBVIOUS
  <2>1. CASE i = n
    BY <1>3, <1>9, <1>13, <2>1
  <2>2. CASE i # n
    <3>1. i \in 1 .. n - 1 /\ i \in DOMAIN stack
      BY <1>3, <2>2
    <3> QED
      BY <1>4, <1>13, <2>2, <3>1
  <2> QED
    BY <2>1, <2>2
<1> HIDE DEF t, a
<1>15. ParentsFirst(frames') /\ Linked(frames', R \cup {f})
  <2>1. t < f /\ t \in R
    BY <1>3, <1>6, <1>8
  <2> QED
    BY <1>4, <1>8, <2>1 DEF ParentsFirst, Linked
<1>16. AskersWait(frames', R \cup {f}, C)
  <2>1. hs[f].status = "none"
    BY <1>4, <1>8 DEF Begun
  <2> QED
    BY <1>4, <1>8, <2>1, AskersKept
<1>17. Chain(frames', stack'[1].frame, B)
  <2>1. stack'[1].frame = stack[1].frame
    BY <1>3, <1>14
  <2>2. \A g \in B : frames'[g] = hs[g]
    BY <1>6, <1>8
  <2> QED
    BY <1>4, <2>1, <2>2, ChainKept
<1>18. \A i \in DOMAIN stack' : stack'[i].frame \in R \cup {f}
  <2>1. \A i \in DOMAIN stack' : i \in 1 .. n \/ i = n + 1
    BY <1>3, <1>13
  <2> QED
    BY <1>6, <1>10, <1>13, <1>14, <2>1
<1>19. a \in R /\ a # f /\ a < f
  BY <1>3, <1>5, <1>8 DEF Frames, a
<1>20. Askers(frames') \cap (R \cup {f}) = {a} /\ AtRest(frames', a)
  BY <1>4, <1>8, <1>19 DEF Askers, AtRest
<1>21. Stacked(frames', stack', "run")
  <2>1. ASSUME NEW i \in 1 .. n
        PROVE  /\ frames'[stack'[i].frame].status \in {"unsaved", "waiting_child", "interrupted"}
               /\ stack'[i].how = "fresh" => frames'[stack'[i].frame].status # "interrupted"
               /\ i > 1 => stack'[i].how = "fresh"
                                /\ frames'[stack'[i].frame].parent = stack'[i - 1].frame
               /\ i = 1 /\ stack'[i].how = "fresh" => frames'[stack'[i].frame].parent = NoFrame
               /\ stack'[i].calling \/ stack'[i].continues
               /\ stack'[i].pending # NoFrame => stack'[i].calling
    <3> DEFINE g == stack[i].frame
    <3>1. /\ frames[g].status \in {"unsaved", "waiting_child", "interrupted"}
          /\ stack[i].how = "fresh" => frames[g].status # "interrupted"
          /\ i > 1 => stack[i].how = "fresh" /\ frames[g].parent = stack[i - 1].frame
          /\ i = 1 /\ stack[i].how = "fresh" => frames[g].parent = NoFrame
          /\ stack[i].calling \/ stack[i].continues
      BY <1>0, <1>2, <1>3 DEF Runs, Stacked
    <3>2. g \in Frames /\ g # f /\ g # a
      BY <1>3, <1>4, <1>6, <1>8
    <3>3. frames'[g].parent = frames[g].parent
      BY <1>4, <1>8, <3>2
    <3>4. i > 1 => i - 1 \in 1 .. n
      BY <1>3
    <3>5. CASE i = n
      <4>1. g = t /\ stack'[i] = e /\ e.calling
        BY <1>3, <1>9, <1>13, <3>5
      <4>2. frames'[g].status = "waiting_child"
        BY <1>4, <1>8, <3>2, <4>1 DEF Waits
      <4> HIDE DEF g
      <4> QED
        BY <1>14, <3>1, <3>3, <3>4, <4>1, <4>2 DEF g
    <3>6. CASE i # n
      <4>1. i \in 1 .. n - 1 /\ i \in 1 .. n /\ i < n
        BY <1>3, <3>6
      <4>2. g < t
        BY <1>6, <4>1
      <4>3. g # t
        BY <1>3, <3>2, <4>2 DEF Frames
      <4>4. frames'[g] = frames[g]
        BY <1>4, <1>8, <3>2, <4>3
      <4>5. stack'[i] = stack[i] /\ stack'[i].pending = NoFrame
        BY <1>13, <1>14, <4>1
      <4> QED
        BY <1>14, <3>1, <3>4, <4>4, <4>5
    <3> QED
      BY <3>5, <3>6
  <2>2. /\ frames'[stack'[n + 1].frame].status = "unsaved"
        /\ stack'[n + 1].how = "fresh"
        /\ frames'[stack'[n + 1].frame].parent = stack'[n].frame
        /\ stack'[n + 1].pending = NoFrame
    BY <1>8, <1>9, <1>10, <1>13
  <2>3. \A i, j \in 1 .. n + 1 : i < j => stack'[i].frame < stack'[j].frame
    <3> SUFFICES ASSUME NEW i \in 1 .. n + 1, NEW j \in 1 .. n + 1, i < j
                 PROVE  stack'[i].frame < stack'[j].frame
      OBVIOUS
    <3>1. i \in 1 .. n
      BY <1>3
    <3>2. CASE j = n + 1
      BY <1>6, <1>8, <1>10, <1>13, <1>14, <3>1, <3>2
    <3>3. CASE j # n + 1
      <4>1. j \in 1 .. n
        BY <1>3, <3>3
      <4> QED
        BY <1>2, <1>3, <1>14, <3>1, <4>1 DEF Runs, Stacked
    <3> QED
      BY <3>2, <3>3
  <2>4. \A i \in DOMAIN stack' : i \in 1 .. n \/ (i = n + 1 /\ i > 1 /\ i - 1 = n /\ ~(i < n + 1))
    BY <1>3, <1>13
  <2> QED
    BY <1>13, <2>1, <2>2, <2>3, <2>4 DEF Stacked
<1>22. Interrupting(frames', stack', "run", NoFrame, R \cup {f}, G, n, a)
  <2>1. stack'[n].pending = a /\ stack'[n].frame = t /\ n < Len(stack')
    BY <1>3, <1>9, <1>13
  <2>2. \A j \in DOMAIN stack' : \/ j \in 1 .. n /\ ~(j > n) /\ (j # n => stack'[j].pending = NoFrame)
                                 \/ j = n + 1 /\ stack'[j].pending = NoFrame /\ stack'[j].frame = f
    BY <1>3, <1>10, <1>13, <1>14
  <2>3. \A g \in G : g \in Frames /\ g # f /\ frames'[g] = hs[g]
    <3> SUFFICES ASSUME NEW g \in G
                 PROVE  g # f /\ frames'[g] = hs[g]
      OBVIOUS
    <3>1. g \in Frames /\ g <= a
      BY <1>5
    <3>2. g # f
      BY <1>4, <1>19, <3>1 DEF Frames
    <3> QED
      BY <1>8, <3>1, <3>2
  <2>4. \A g \in G : /\ frames'[g].parent \in G \cup {t}
                     /\ t < g /\ g <= a
                     /\ g # a => Waits(frames', g)
    BY <1>5, <2>3 DEF Waits
  <2> QED
    BY <1>19, <1>20, <2>1, <2>2, <2>4 DEF Interrupting
<1>23. Runs(frames', stack', "run", NoFrame, R \cup {f}, B)
  <2>1. G \in SUBSET (R \cup {f}) /\ a \in G /\ n \in DOMAIN stack' /\ B \subseteq R \cup {f}
    BY <1>3, <1>5, <1>13
  <2> QED
    BY <1>15, <1>17, <1>18, <1>21, <1>22, <2>1 DEF Runs
<1>24. R \cup {f} \in SUBSET Frames /\ B \in SUBSET (R \cup {f})
  OBVIOUS
<1> QED
  BY <1>0, <1>13, <1>15, <1>16, <1>23, <1>24 DEF Chained

-----------------------------------------------------------------------------
(* The invariant *)

LEMMA InitInv == Init => Inv
<1> SUFFICES ASSUME Init
             PROVE  Inv
  OBVIOUS
<1>1. TypeOK
  BY InitType
<1>2. \A f \in Frames : frames[f].parent = NoFrame /\ frames[f].status = "none"
  BY DEF Init
<1>3. ParentsFirst(frames)
  BY <1>2 DEF ParentsFirst, Frames, NoFrame
<1> DEFINE C == [f \in Frames |-> {}]
<1>4. C \in [Frames -> SUBSET Frames] /\ AskersWait(frames, {}, C)
  BY <1>2 DEF AskersWait, Askers
<1> HIDE DEF C
<1>5. stack = <<>> /\ {} \in SUBSET Frames
  BY DEF Init
<1> QED
  BY <1>1, <1>3, <1>4, <1>5 DEF Inv, Chained

LEMMA NextInv == Inv /\ [Next]_vars => Inv'
<1> SUFFICES ASSUME Inv, [Next]_vars
             PROVE  Inv'
  OBVIOUS
<1>1. TypeOK'
  BY TypeStep DEF Inv
<1>2. ASSUME ~twice'
      PROVE  Chained(frames', stack', control', asking')
  <2>1. ~twice
    <3>1. CASE Ask
      BY <1>2, <3>1 DEF Ask
    <3>2. CASE ~Ask
      <4>1. twice' = twice
        BY <3>2 DEF Next, Step, vars, Run, Answer, CallChild, EndFresh, EndResumed, NextCall,
                    UnwindCaller, UnwindResumedCaller, Raise, Propagate
      <4> QED
        BY <1>2, <4>1
    <3> QED
      BY <3>1, <3>2
  <2>2. CASE UNCHANGED vars
    BY <2>1, <2>2 DEF vars, Inv
  <2> QED
    BY <1>2, <2>1, <2>2, RunChained, AnswerChained, CallChildChained, EndFreshChained,
       EndResumedChained, AskChained, NextCallChained, UnwindCallerChained,
       UnwindResumedChained, RaiseChained, PropagateChained DEF Next, Step
<1> QED
  BY <1>1, <1>2 DEF Inv

\* As long as no two calls of one turn have asked, every frame that asks has a
\* chain of waiting callers of its own, and so does the request that runs: what
\* _persist_waiting_child_frame leaves behind is what resume_frame needs.
THEOREM Invariant == Spec => []Inv
BY InitInv, NextInv, PTL DEF Spec

\* What has ended is left alone: the frames on the stack have not ended, nor has
\* the one that asks.
LEMMA EndedStep ==
    ASSUME Inv, Next, ~twice', ~twice, NEW f \in Frames,
           frames[f].status \in {"completed", "error"}
    PROVE  frames'[f].status = frames[f].status
<1>0. TypeOK /\ frames \in [Frames -> FrameT]
  BY DEF Inv, TypeOK, FramesOK
<1>1. f \in Begun(frames)
  BY DEF Begun
<1>2. CASE stack = <<>>
  <2>1. control = "idle"
    BY <1>0, <1>2 DEF TypeOK
  <2>2. Run \/ Answer
    BY <2>1 DEF Next, Step, CallChild, EndFresh, EndResumed, Ask, NextCall, UnwindCaller,
                UnwindResumedCaller, Raise, Propagate
  <2>3. CASE Answer
    BY <2>3 DEF Answer
  <2>4. CASE Run
    <3>1. PICK g \in Frames :
             Unstarted(g) /\ frames' = [frames EXCEPT ![g] = Started("conversation_entry", NoFrame)]
      BY <2>4 DEF Run
    <3> QED
      BY <1>0, <3>1 DEF Unstarted
  <2> QED
    BY <2>2, <2>3, <2>4
<1>3. CASE stack # <<>>
  <2>0. control # "idle"
    BY <1>0, <1>3 DEF TypeOK
  <2>1. PICK R \in SUBSET Frames, C \in [Frames -> SUBSET Frames] : \E B \in SUBSET R :
           AskersWait(frames, R, C) /\ Runs(frames, stack, control, asking, R, B)
    BY <1>3, Running
  <2>2. PICK B \in SUBSET R :
           AskersWait(frames, R, C) /\ Runs(frames, stack, control, asking, R, B)
    BY <2>1
  <2>3. Len(stack) \in DOMAIN stack /\ Top = stack[Len(stack)] /\ Top.frame \in Frames
    BY <1>0, <1>3, TopType DEF Top
  <2>4. f # Top.frame
    BY <2>2, <2>3 DEF Runs, Stacked
  <2>5. control = "unwind" => asking \in Askers(frames)
    BY <2>2 DEF Runs, Quiet, Interrupting
  <2>6. control = "unwind" => f # asking
    BY <2>5 DEF Askers
  <2>7. control = "unwind" => Interrupted(frames)[f] = frames[f]
    BY <1>0, <2>4, <2>6, InterruptedRows
  <2>8. CASE CallChild
    <3>1. PICK g \in Frames, child \in States \X BOOLEAN :
             Unstarted(g) /\ frames' = [frames EXCEPT ![g] = Started(child[1], Top.frame)]
      BY <2>8 DEF CallChild
    <3> QED
      BY <1>0, <3>1 DEF Unstarted
  <2>9. CASE EndFresh
    BY <1>0, <2>4, <2>9 DEF EndFresh
  <2>10. CASE EndResumed
    BY <1>0, <2>4, <2>10 DEF EndResumed
  <2>11. CASE Ask
    BY <1>0, <2>4, <2>11 DEF Ask
  <2>12. CASE NextCall
    <3>1. PICK g \in Frames, state \in States :
             Unstarted(g) /\ frames' = [Interrupted(frames) EXCEPT ![g] = Started(state, Top.frame)]
      BY <2>12 DEF NextCall
    <3>2. StartsIn(Interrupted(frames), frames', g, state, Top.frame)
      BY <1>0, <2>12, <3>1, NextRows DEF NextCall
    <3>3. f # g
      BY <3>1 DEF Unstarted
    <3> QED
      BY <2>7, <2>12, <3>2, <3>3 DEF NextCall, StartsIn
  <2>13. CASE UnwindCaller
    BY <2>7, <2>13 DEF UnwindCaller
  <2>14. CASE UnwindResumedCaller
    <3>1. frames' = Adopted(Interrupted(frames)) /\ control = "unwind"
      BY <2>14 DEF UnwindResumedCaller
    <3>2. frames'[f] = Interrupted(frames)[f]
      BY <1>0, <2>6, <3>1, AdoptedRows
    <3> QED
      BY <2>7, <3>1, <3>2
  <2>15. CASE Raise \/ Propagate
    BY <2>15 DEF Raise, Propagate
  <2> QED
    BY <2>0, <2>8, <2>9, <2>10, <2>11, <2>12, <2>13, <2>14, <2>15 DEF Next, Step, Run, Answer
<1> QED
  BY <1>2, <1>3

\* A frame that has ended is never saved as anything else again: none of the
\* writers of run_child_frame, _complete_frame and _persist_interrupted_frame
\* reaches its row.
THEOREM NoneEndsTwice == Spec => EndedForGood
<1>1. Inv /\ [Next]_vars
        => [~twice' => \A f \in Frames : frames[f].status \in {"completed", "error"}
                                            => frames'[f].status = frames[f].status]_vars
  <2> SUFFICES ASSUME Inv, Next, ~twice', NEW f \in Frames,
                      frames[f].status \in {"completed", "error"}
               PROVE  frames'[f].status = frames[f].status
    BY DEF vars
  <2>1. ~twice
    <3>1. CASE Ask
      BY <3>1 DEF Ask
    <3>2. CASE ~Ask
      BY <3>2 DEF Next, Step, Run, Answer, CallChild, EndFresh, EndResumed, NextCall,
                  UnwindCaller, UnwindResumedCaller, Raise, Propagate
    <3> QED
      BY <3>1, <3>2
  <2> QED
    BY <2>1, EndedStep
<1> QED
  BY <1>1, Invariant, PTL DEF Spec, EndedForGood

-----------------------------------------------------------------------------
(* The entry frame of a frame, and all the frames above it                   *)

ByParent(V, base, step, p) ==
    \E g \in [Frames -> V] :
       \A f \in Frames : g[f] = IF p[f] = NoFrame THEN base[f] ELSE step[f][g[p[f]]]

\* A function over the frames may be defined by its value for the parent: were
\* there a first frame up to which no such function exists, the function up to
\* the frame before it would extend to it.
LEMMA DefinedByParent ==
    ASSUME NEW V, NEW base \in [Frames -> V], NEW step \in [Frames -> [V -> V]],
           NEW p \in [Frames -> Nat], \A f \in Frames : p[f] < f
    PROVE  ByParent(V, base, step, p)
<1> DEFINE Solves(g, n) == \A f \in 1 .. n : g[f] = IF p[f] = NoFrame THEN base[f] ELSE step[f][g[p[f]]]
           Solved(n)    == \E g \in [1 .. n -> V] : Solves(g, n)
           Bad          == {n \in 0 .. MaxFrames : ~Solved(n)}
<1>1. MaxFrames \in Nat /\ Frames = 1 .. MaxFrames
  BY FramesAssumption DEF Frames
<1>2. Solved(MaxFrames)
  <2> SUFFICES ASSUME ~Solved(MaxFrames)
               PROVE  FALSE
    OBVIOUS
  <2> HIDE DEF Solved
  <2>1. Bad \in SUBSET Nat /\ Bad # {}
    BY <1>1
  <2>2. PICK n \in Bad : \A m \in Bad : n <= m
    BY <2>1, LeastExists
  <2>3. n # 0
    <3>1. Solved(0)
      <4> DEFINE g == [f \in 1 .. 0 |-> base[f]]
      <4>1. g \in [1 .. 0 -> V] /\ Solves(g, 0)
        OBVIOUS
      <4> HIDE DEF g, Solves
      <4> QED
        BY <4>1 DEF Solved
    <3> QED
      BY <2>2, <3>1
  <2> DEFINE m == n - 1
  <2>4. n \in Nat /\ m \in Nat /\ n = m + 1 /\ n \in Frames /\ m \in 0 .. MaxFrames
        /\ 1 .. n = (1 .. m) \cup {n} /\ 1 .. n \subseteq Frames /\ n \notin 1 .. m
    BY <1>1, <2>2, <2>3
  <2>5. Solved(m)
    <3>1. ~(n <= m)
      BY <2>4
    <3> QED
      BY <2>2, <2>4, <3>1
  <2> HIDE DEF m, Bad
  <2>6. PICK g \in [1 .. m -> V] : Solves(g, m)
    BY <2>5 DEF Solved
  <2> DEFINE v == IF p[n] = NoFrame THEN base[n] ELSE step[n][g[p[n]]]
             h == [f \in 1 .. n |-> IF f = n THEN v ELSE g[f]]
  <2>7. \A f \in 1 .. n : p[f] # NoFrame => p[f] \in 1 .. m
    <3> SUFFICES ASSUME NEW f \in 1 .. n, p[f] # NoFrame
                 PROVE  p[f] \in 1 .. m
      OBVIOUS
    <3>1. p[f] \in Nat /\ p[f] < f /\ f <= n /\ f \in Nat
      BY <2>4
    <3> QED
      BY <2>4, <3>1 DEF NoFrame
  <2>8. v \in V
    <3>1. n \in 1 .. n
      BY <2>4
    <3>2. CASE p[n] = NoFrame
      BY <2>4, <3>2
    <3>3. CASE p[n] # NoFrame
      <4>1. g[p[n]] \in V /\ step[n] \in [V -> V]
        BY <2>4, <2>6, <2>7, <3>1, <3>3
      <4> QED
        BY <3>3, <4>1
    <3> QED
      BY <3>2, <3>3
  <2> HIDE DEF v
  <2>9. h \in [1 .. n -> V]
    BY <2>4, <2>6, <2>8
  <2>10. h[n] = v /\ \A f \in 1 .. m : h[f] = g[f]
    BY <2>4
  <2> HIDE DEF h
  <2>11. ASSUME NEW f \in 1 .. n
         PROVE  h[f] = IF p[f] = NoFrame THEN base[f] ELSE step[f][h[p[f]]]
    <3>1. p[f] # NoFrame => h[p[f]] = g[p[f]]
      BY <2>7, <2>10
    <3>2. CASE f = n
      BY <2>10, <3>1, <3>2 DEF v
    <3>3. CASE f # n
      BY <2>4, <2>6, <2>10, <3>1, <3>3
    <3> QED
      BY <3>2, <3>3
  <2>12. Solved(n)
    BY <2>9, <2>11 DEF Solved
  <2> QED
    BY <2>2, <2>12 DEF Bad
<1> QED
  BY <1>1, <1>2 DEF ByParent

LEMMA RootDef ==
    ASSUME TypeOK, ParentsFirst(frames)
    PROVE  \A f \in Frames :
              Root[f] = IF frames[f].parent = NoFrame THEN f ELSE Root[frames[f].parent]
<1> DEFINE p == [f \in Frames |-> frames[f].parent]
           base == [f \in Frames |-> f]
           step == [f \in Frames |-> [v \in Frames |-> v]]
<1>1. \A f \in Frames : frames[f].parent \in Frames \cup {NoFrame}
  BY DEF TypeOK, FramesOK, FrameT
<1>2. /\ p \in [Frames -> Nat] /\ \A f \in Frames : p[f] < f
      /\ base \in [Frames -> Frames] /\ step \in [Frames -> [Frames -> Frames]]
  BY <1>1, FramesAssumption DEF ParentsFirst, Frames, NoFrame
<1>3. PICK g \in [Frames -> Frames] :
         \A f \in Frames : g[f] = IF p[f] = NoFrame THEN base[f] ELSE step[f][g[p[f]]]
  <2> HIDE DEF p, base, step
  <2>1. ByParent(Frames, base, step, p)
    BY <1>2, DefinedByParent
  <2> QED
    BY <2>1 DEF ByParent
<1>4. g = [f \in Frames |-> IF frames[f].parent = NoFrame THEN f ELSE g[frames[f].parent]]
  BY <1>1, <1>3
<1>5. Root = [f \in Frames |-> IF frames[f].parent = NoFrame THEN f ELSE Root[frames[f].parent]]
  BY <1>4 DEF Root
<1> QED
  BY <1>5

LEMMA AncestorsDef ==
    ASSUME TypeOK, ParentsFirst(frames)
    PROVE  \A f \in Frames :
              Ancestors[f] = IF frames[f].parent = NoFrame THEN {}
                             ELSE {frames[f].parent} \cup Ancestors[frames[f].parent]
<1> DEFINE p == [f \in Frames |-> frames[f].parent]
           base == [f \in Frames |-> {}]
           step == [f \in Frames |-> [v \in SUBSET Nat |-> {p[f]} \cup v]]
<1>1. \A f \in Frames : frames[f].parent \in Frames \cup {NoFrame}
  BY DEF TypeOK, FramesOK, FrameT
<1>2. /\ p \in [Frames -> Nat] /\ \A f \in Frames : p[f] < f
      /\ base \in [Frames -> SUBSET Nat]
  BY <1>1, FramesAssumption DEF ParentsFirst, Frames, NoFrame
<1>3. step \in [Frames -> [SUBSET Nat -> SUBSET Nat]]
  <2> HIDE DEF p
  <2> QED
    BY <1>2
<1>4. PICK g \in [Frames -> SUBSET Nat] :
         \A f \in Frames : g[f] = IF p[f] = NoFrame THEN base[f] ELSE step[f][g[p[f]]]
  <2> HIDE DEF p, base, step
  <2>1. ByParent(SUBSET Nat, base, step, p)
    BY <1>2, <1>3, DefinedByParent
  <2> QED
    BY <2>1 DEF ByParent
<1>5. g = [f \in Frames |-> IF frames[f].parent = NoFrame THEN {}
                            ELSE {frames[f].parent} \cup g[frames[f].parent]]
  <2>1. ASSUME NEW f \in Frames
        PROVE  g[f] = IF frames[f].parent = NoFrame THEN {}
                      ELSE {frames[f].parent} \cup g[frames[f].parent]
    <3>1. p[f] = frames[f].parent /\ base[f] = {}
      OBVIOUS
    <3>2. p[f] # NoFrame => g[p[f]] \in SUBSET Nat
      BY <1>1, <1>4
    <3> HIDE DEF p, base
    <3>3. p[f] # NoFrame => step[f][g[p[f]]] = {p[f]} \cup g[p[f]]
      BY <3>2
    <3> HIDE DEF step
    <3> QED
      BY <1>4, <3>1, <3>3
  <2> QED
    BY <1>4, <2>1
<1>6. Ancestors = [f \in Frames |-> IF frames[f].parent = NoFrame THEN {}
                                    ELSE {frames[f].parent} \cup Ancestors[frames[f].parent]]
  BY <1>5 DEF Ancestors
<1> QED
  BY <1>6

\* In a set of frames that no parent leads out of are the entry frame and all
\* the frames above.
LEMMA AboveInLinked ==
    ASSUME TypeOK, ParentsFirst(frames), NEW S \in SUBSET Frames, Linked(frames, S)
    PROVE  \A f \in S : Root[f] \in S /\ Ancestors[f] \subseteq S \ {f}
<1> DEFINE Good(f) == Root[f] \in S /\ \A h \in Ancestors[f] : h \in S /\ h < f
           Bad     == {f \in S : ~Good(f)}
<1>1. \A f \in S : f \in Nat /\ f \in Frames /\ f # NoFrame
  BY DEF Frames, NoFrame
<1>2. Bad = {}
  <2> SUFFICES ASSUME Bad # {}
               PROVE  FALSE
    OBVIOUS
  <2> HIDE DEF Good
  <2>1. Bad \in SUBSET Nat
    BY <1>1
  <2>2. PICK f \in Bad : \A g \in Bad : f <= g
    BY <2>1, LeastExists
  <2> DEFINE p == frames[f].parent
  <2>3. p \in S \cup {NoFrame} /\ p < f /\ f \in S /\ f \in Frames
    BY <1>1, <2>2 DEF Linked, ParentsFirst
  <2>4. /\ Root[f] = IF p = NoFrame THEN f ELSE Root[p]
        /\ Ancestors[f] = IF p = NoFrame THEN {} ELSE {p} \cup Ancestors[p]
    BY <2>3, RootDef, AncestorsDef
  <2> HIDE DEF p
  <2>5. CASE p = NoFrame
    BY <2>2, <2>3, <2>4, <2>5 DEF Good
  <2>6. CASE p # NoFrame
    <3>1. p \in S /\ p \in Nat /\ f \in Nat /\ ~(f <= p)
      BY <1>1, <2>3, <2>6
    <3>2. Good(p)
      BY <2>2, <3>1
    <3> HIDE DEF Bad
    <3>3. \A h \in Ancestors[f] : h \in S /\ h < f
      <4> SUFFICES ASSUME NEW h \in Ancestors[f]
                   PROVE  h \in S /\ h < f
        OBVIOUS
      <4>1. h = p \/ h \in Ancestors[p]
        BY <2>4, <2>6
      <4>2. h \in S /\ (h = p \/ h < p)
        BY <3>1, <3>2, <4>1 DEF Good
      <4> QED
        BY <1>1, <2>3, <3>1, <4>2
    <3> QED
      BY <2>2, <2>4, <2>6, <3>2, <3>3 DEF Good, Bad
  <2> QED
    BY <2>5, <2>6
<1> QED
  BY <1>1, <1>2

\* From every frame that asks a chain of saved frames, all of which
\* _resume_parent_frame can resume, leads up to the entry frame.
THEOREM QuestionsReachEntries == Spec => []AnswerReachesEntry
<1>1. Inv => AnswerReachesEntry
  <2> SUFFICES ASSUME Inv, Idle, ~twice, NEW f \in Asking
               PROVE  /\ Ancestors[f] \subseteq Callers
                      /\ frames[f].open
                      /\ \A g \in Ancestors[f] : frames[g].open \/ frames[g].continues
    BY DEF AnswerReachesEntry
  <2>1. TypeOK /\ ParentsFirst(frames) /\ stack = <<>>
    BY DEF Inv, TypeOK, Chained, Idle
  <2>2. PICK C \in [Frames -> SUBSET Frames] : AskersWait(frames, {}, C)
    BY <2>1 DEF Inv, Chained
  <2>3. Chain(frames, f, C[f]) /\ AtRest(frames, f) /\ f \in Frames
    BY <2>2 DEF AskersWait, Askers, Asking
  <2>4. Ancestors[f] \subseteq C[f] \ {f} /\ C[f] \in SUBSET Frames
    BY <2>1, <2>3, AboveInLinked DEF Chain
  <2>5. \A g \in Ancestors[f] : g \in Frames /\ Waits(frames, g)
    BY <2>3, <2>4 DEF Chain
  <2> QED
    BY <2>3, <2>5 DEF Waits, AtRest, Callers
<1> QED
  BY <1>1, Invariant, PTL

\* A run asks with one frame at a time, also while it unwinds or goes on with the
\* calls of a turn that one of them interrupted (_execute_batch).
THEOREM QuestionsAreSingle == Spec => []OneQuestionPerRun
<1>1. Inv => OneQuestionPerRun
  <2> SUFFICES ASSUME Inv, ~twice, NEW f \in Asking, NEW g \in Asking, Root[f] = Root[g], f # g
               PROVE  FALSE
    BY DEF OneQuestionPerRun
  <2>1. TypeOK /\ ParentsFirst(frames) /\ f \in Askers(frames) /\ g \in Askers(frames)
    BY DEF Inv, Chained, Askers, Asking
  <2>2. PICK R \in SUBSET Frames, C \in [Frames -> SUBSET Frames] :
           /\ AskersWait(frames, R, C)
           /\ IF stack = <<>> THEN R = {}
              ELSE \E B \in SUBSET R : Runs(frames, stack, control, asking, R, B)
    BY DEF Inv, Chained
  <2>3. \A h \in Askers(frames) \ R : Root[h] \in C[h] /\ C[h] \cap R = {}
    <3> SUFFICES ASSUME NEW h \in Askers(frames) \ R
                 PROVE  Root[h] \in C[h] /\ C[h] \cap R = {}
      OBVIOUS
    <3>1. Chain(frames, h, C[h]) /\ C[h] \cap R = {}
      BY <2>2 DEF AskersWait
    <3>2. C[h] \in SUBSET Frames /\ Linked(frames, C[h]) /\ h \in C[h]
      BY <3>1 DEF Chain
    <3> QED
      BY <2>1, <3>1, <3>2, AboveInLinked
  <2>4. Linked(frames, R)
    BY <2>2 DEF Linked, Runs
  <2>5. \A h \in R : Root[h] \in R
    BY <2>1, <2>4, AboveInLinked
  <2>6. f \in R => g \notin R
    <3> SUFFICES ASSUME f \in R, g \in R
                 PROVE  FALSE
      OBVIOUS
    <3>1. PICK a : Askers(frames) \cap R \subseteq {a}
      BY <2>2 DEF Runs, Quiet, Interrupting
    <3> QED
      BY <2>1, <3>1
  <2>7. CASE f \notin R /\ g \notin R
    BY <2>1, <2>2, <2>3, <2>7 DEF AskersWait
  <2>8. CASE f \in R \/ g \in R
    BY <2>1, <2>3, <2>5, <2>6, <2>8
  <2> QED
    BY <2>7, <2>8
<1> QED
  BY <1>1, Invariant, PTL

-----------------------------------------------------------------------------
(* The search of the memory graph.  Invariant: what a search has found, and   *)
(* was not written since, is in sight and leads to itself; what was shown     *)
(* last is as the properties have it, because a write takes it away.          *)

-----------------------------------------------------------------------------
(* Canonical nodes.  The loop of get_canonical_node is a recursive function   *)
(* of the number of nodes that may still be seen; it exists because there are *)
(* finitely many.                                                             *)

\* What such a function is, for the nodes that each node was merged into
Resolution(next, f, d) ==
    [m \in Nodes |-> IF d = 0 \/ \E i, j \in next[m] : i # j THEN None
                     ELSE IF next[m] = {} THEN m
                     ELSE f[d - 1][CHOOSE i \in next[m] : TRUE]]

Resolves(next, f, n) == \A d \in 0 .. n : f[d] = Resolution(next, f, d)

LEMMA ResolutionExists ==
    ASSUME NEW next, NEW n \in Nat
    PROVE  \E f : f = [d \in 0 .. n |-> Resolution(next, f, d)]
<1> DEFINE Upto(k) == \E f : f = [d \in 0 .. k |-> Resolution(next, f, d)]
           Without == {k \in 0 .. n : ~Upto(k)}
<1> SUFFICES ASSUME ~Upto(n)
             PROVE  FALSE
  OBVIOUS
<1> HIDE DEF Upto
<1>1. PICK k \in Without : \A y \in Without : k <= y
  <2>1. Without \in SUBSET Nat /\ n \in Without
    OBVIOUS
  <2> HIDE DEF Without
  <2> QED
    BY <2>1, LeastExists
<1>2. k \in 0 .. n /\ ~Upto(k)
  OBVIOUS
<1>3. k # 0
  <2>1. SUFFICES ASSUME k = 0
                 PROVE  Upto(0)
    BY <1>2
  <2> DEFINE f == [d \in 0 .. 0 |-> [m \in Nodes |-> None]]
  <2>2. \A d \in 0 .. 0 : d = 0
    OBVIOUS
  <2>3. \A d \in 0 .. 0 : Resolution(next, f, d) = [m \in Nodes |-> None]
    BY <2>2 DEF Resolution
  <2>4. f = [d \in 0 .. 0 |-> Resolution(next, f, d)]
    BY <2>3
  <2> HIDE DEF f
  <2> QED
    BY <2>4 DEF Upto
<1>4. k - 1 \in 0 .. n /\ k - 1 \notin Without
  <2>1. k - 1 \in 0 .. n /\ ~(k <= k - 1)
    BY <1>2, <1>3
  <2> QED
    BY <1>1, <2>1
<1>5. PICK g : g = [d \in 0 .. k - 1 |-> Resolution(next, g, d)]
  BY <1>4 DEF Upto
<1> DEFINE f == [d \in 0 .. k |-> IF d = k THEN Resolution(next, g, k) ELSE g[d]]
<1>6. ASSUME NEW d \in 0 .. k
      PROVE  f[d] = Resolution(next, f, d)
  <2>1. CASE d = 0
    <3>1. 0 \in 0 .. k - 1 /\ 0 # k /\ 0 \in 0 .. k
      BY <1>2, <1>3
    <3>2. f[0] = g[0] /\ g[0] = Resolution(next, g, 0)
      BY <1>5, <3>1
    <3>3. Resolution(next, g, 0) = Resolution(next, f, 0)
      <4> HIDE DEF f
      <4> QED
        BY DEF Resolution
    <3> HIDE DEF f
    <3> QED
      BY <2>1, <3>2, <3>3
  <2>2. CASE d # 0
    <3>1. d - 1 \in 0 .. k - 1 /\ d - 1 \in 0 .. k /\ d - 1 # k
      BY <1>2, <2>2
    <3>2. f[d - 1] = g[d - 1]
      BY <3>1
    <3>3. Resolution(next, f, d) = Resolution(next, g, d)
      <4> HIDE DEF f
      <4> QED
        BY <2>2, <3>2 DEF Resolution
    <3>4. f[d] = Resolution(next, g, d)
      <4>1. d = k \/ d \in 0 .. k - 1
        BY <1>2
      <4> QED
        BY <1>5, <4>1
    <3> HIDE DEF f
    <3> QED
      BY <3>3, <3>4
  <2> QED
    BY <2>1, <2>2
<1>7. f = [d \in 0 .. k |-> Resolution(next, f, d)]
  <2>1. f = [d \in 0 .. k |-> f[d]]
    OBVIOUS
  <2> HIDE DEF f
  <2> QED
    BY <1>6, <2>1
<1> HIDE DEF f
<1> QED
  BY <1>2, <1>7 DEF Upto

\* The loop runs along such a function.
LEMMA CanonicalByResolution ==
    ASSUME NEW next
    PROVE  \E f : /\ Resolves(next, f, Cardinality(Nodes))
                  /\ \A n : CanonicalAlong(next, n) = f[Cardinality(Nodes)][n]
<1> DEFINE g == CHOOSE f : f = [d \in 0 .. Cardinality(Nodes) |-> Resolution(next, f, d)]
<1>1. \A n : CanonicalAlong(next, n) = g[Cardinality(Nodes)][n]
  BY Zenon DEF CanonicalAlong, Resolution
<1>2. Cardinality(Nodes) \in Nat
  BY SearchAssumption, FS_CardinalityType
<1>3. \E f : f = [d \in 0 .. Cardinality(Nodes) |-> Resolution(next, f, d)]
  BY <1>2, ResolutionExists
<1>4. g = [d \in 0 .. Cardinality(Nodes) |-> Resolution(next, g, d)]
  BY <1>3, Zenon
<1>5. Resolves(next, g, Cardinality(Nodes))
  <2> HIDE DEF g
  <2> QED
    BY <1>4 DEF Resolves
<1> HIDE DEF g
<1> QED
  BY <1>1, <1>5

\* A canonical node is a node that was not merged; a node that was not merged is
\* its own.
LEMMA CanonicalAlongIsLast ==
    ASSUME NEW next \in [Nodes -> SUBSET Nodes], NEW n \in Nodes
    PROVE  /\ CanonicalAlong(next, n) \in Nodes \cup {None}
           /\ CanonicalAlong(next, n) # None => next[CanonicalAlong(next, n)] = {}
           /\ next[n] = {} => CanonicalAlong(next, n) = n
<1> DEFINE N == Cardinality(Nodes)
<1>1. N \in Nat /\ N # 0
  BY SearchAssumption, FS_CardinalityType, FS_EmptySet
<1> HIDE DEF N
<1>2. PICK f : Resolves(next, f, N) /\ \A m : CanonicalAlong(next, m) = f[N][m]
  BY CanonicalByResolution DEF N
<1> DEFINE Leads(d) == \A m \in Nodes : f[d][m] = None \/ (f[d][m] \in Nodes /\ next[f[d][m]] = {})
           Bad == {d \in 0 .. N : ~Leads(d)}
<1>3. \A d \in 0 .. N : Leads(d)
  <2>1. SUFFICES ASSUME Bad # {}
                 PROVE  FALSE
    OBVIOUS
  <2>2. PICK d \in Bad : \A y \in Bad : d <= y
    <3>1. Bad \in SUBSET Nat
      BY <1>1
    <3> HIDE DEF Bad
    <3> QED
      BY <2>1, <3>1, LeastExists
  <2>3. d \in 0 .. N /\ ~Leads(d)
    OBVIOUS
  <2>4. f[d] = Resolution(next, f, d)
    BY <1>2, <2>3 DEF Resolves
  <2>5. d # 0
    BY <2>3, <2>4 DEF Resolution
  <2>6. d - 1 \in 0 .. N /\ ~(d <= d - 1)
    BY <1>1, <2>3, <2>5
  <2>7. Leads(d - 1)
    BY <2>2, <2>6
  <2>8. PICK m \in Nodes : ~(f[d][m] = None \/ (f[d][m] \in Nodes /\ next[f[d][m]] = {}))
    BY <2>3
  <2>9. f[d][m] = IF d = 0 \/ \E i, j \in next[m] : i # j THEN None
                  ELSE IF next[m] = {} THEN m
                  ELSE f[d - 1][CHOOSE i \in next[m] : TRUE]
    BY <2>4 DEF Resolution
  <2>10. next[m] # {} => (CHOOSE i \in next[m] : TRUE) \in Nodes
    OBVIOUS
  <2> QED
    BY <2>7, <2>8, <2>9, <2>10
<1>4. N \in 0 .. N
  BY <1>1
<1>5. next[n] = {} => f[N][n] = n
  <2>1. f[N] = Resolution(next, f, N)
    BY <1>2, <1>4 DEF Resolves
  <2>2. f[N][n] = IF N = 0 \/ \E i, j \in next[n] : i # j THEN None
                  ELSE IF next[n] = {} THEN n
                  ELSE f[N - 1][CHOOSE i \in next[n] : TRUE]
    BY <2>1 DEF Resolution
  <2> QED
    BY <1>1, <2>2
<1> QED
  BY <1>2, <1>3, <1>4, <1>5

\* Nodes that are merged leave no canonical node where there was none.
LEMMA CanonicalAlongStays ==
    ASSUME NEW next \in [Nodes -> SUBSET Nodes], NEW later \in [Nodes -> SUBSET Nodes],
           \A m \in Nodes : next[m] \subseteq later[m],
           NEW n \in Nodes, CanonicalAlong(next, n) = None
    PROVE  CanonicalAlong(later, n) = None
<1> DEFINE N == Cardinality(Nodes)
<1>1. N \in Nat
  BY SearchAssumption, FS_CardinalityType
<1> HIDE DEF N
<1>2. PICK f : Resolves(next, f, N) /\ \A m : CanonicalAlong(next, m) = f[N][m]
  BY CanonicalByResolution DEF N
<1>3. PICK g : Resolves(later, g, N) /\ \A m : CanonicalAlong(later, m) = g[N][m]
  BY CanonicalByResolution DEF N
<1> DEFINE Stays(d) == \A m \in Nodes : f[d][m] = None => g[d][m] = None
           Bad == {d \in 0 .. N : ~Stays(d)}
<1>4. \A d \in 0 .. N : Stays(d)
  <2>1. SUFFICES ASSUME Bad # {}
                 PROVE  FALSE
    OBVIOUS
  <2>2. PICK d \in Bad : \A y \in Bad : d <= y
    <3>1. Bad \in SUBSET Nat
      BY <1>1
    <3> HIDE DEF Bad
    <3> QED
      BY <2>1, <3>1, LeastExists
  <2>3. d \in 0 .. N /\ ~Stays(d)
    OBVIOUS
  <2>4. f[d] = Resolution(next, f, d) /\ g[d] = Resolution(later, g, d)
    BY <1>2, <1>3, <2>3 DEF Resolves
  <2>5. PICK m \in Nodes : f[d][m] = None /\ g[d][m] # None
    BY <2>3
  <2>6. f[d][m] = IF d = 0 \/ \E i, j \in next[m] : i # j THEN None
                  ELSE IF next[m] = {} THEN m
                  ELSE f[d - 1][CHOOSE i \in next[m] : TRUE]
    BY <2>4 DEF Resolution
  <2>7. g[d][m] = IF d = 0 \/ \E i, j \in later[m] : i # j THEN None
                  ELSE IF later[m] = {} THEN m
                  ELSE g[d - 1][CHOOSE i \in later[m] : TRUE]
    BY <2>4 DEF Resolution
  <2>8. d # 0 /\ ~\E i, j \in later[m] : i # j
    BY <2>5, <2>7
  <2>9. ~\E i, j \in next[m] : i # j
    BY <2>8
  <2>10. next[m] # {}
    BY <2>5, <2>6, <2>8, <2>9, SearchAssumption
  <2>11. later[m] = next[m]
    BY <2>8, <2>10
  <2>12. (CHOOSE i \in next[m] : TRUE) \in Nodes
    BY <2>10
  <2>13. d - 1 \in 0 .. N /\ ~(d <= d - 1)
    BY <1>1, <2>3, <2>8
  <2>14. Stays(d - 1)
    BY <2>2, <2>13
  <2> QED
    BY <2>5, <2>6, <2>7, <2>8, <2>9, <2>10, <2>11, <2>12, <2>14
<1>5. N \in 0 .. N
  BY <1>1
<1> QED
  BY <1>2, <1>3, <1>4, <1>5

-----------------------------------------------------------------------------
(* The invariant *)

Hits == [display : Nodes, matched : SUBSET Nodes, score : Int, related : SUBSET Nodes, ids : SUBSET Nodes]

Searches == [o : Options, raw : Seq(Embedded), left : Seq(Embedded), cut : Nat, matching : Seq(Matching),
             allowed : SUBSET Nodes, hits : Seq(Hits), step : {"hydrate", "assemble", "pack"},
             written : SUBSET (Nodes \cup Edges)]

GraphTypeOK ==
    /\ life \in [Nodes -> Lifecycles]
    /\ into \in [Nodes -> Nodes \cup {None}]
    /\ edge \in [Edges -> Lifecycles \cup {None}]

SearchTypeOK == GraphTypeOK /\ (search = None \/ search \in Searches)

\* What a hit is displayed as was not merged, or it leads to no canonical node;
\* it is in sight, if that was asked for.
Fits(n, o) ==
    /\ Following(n) = {} \/ Canonical(n) = None
    /\ ~o.archived => ~OutOfSight(n)

\* The hits of a search, as they are found and as they are ranked
HitsFit == search # None => \A i \in DOMAIN search.hits :
                               \/ search.hits[i].display \in search.written
                               \/ Fits(search.hits[i].display, search.o)

Ranked(hits) == \A i, j \in DOMAIN hits : i < j => /\ hits[i].score >= hits[j].score
                                                    /\ hits[i].display # hits[j].display

HitsRanked == search # None /\ search.step # "hydrate" => Ranked(search.hits)

\* What is left to be hydrated is of what was found.
LeftIsRaw == search # None => ToSet(search.left) \subseteq ToSet(search.raw)

SearchInv == SearchTypeOK /\ LeftIsRaw /\ HitsFit /\ HitsRanked

-----------------------------------------------------------------------------
(* Reading the graph *)

LEMMA EdgesJoinNodes ==
    ASSUME NEW e \in Edges
    PROVE  e.from \in Nodes /\ e.to \in Nodes /\ e \notin Nodes
  BY SearchAssumption

LEMMA FollowingIsNodes ==
    /\ \A n \in Nodes : Following(n) \in SUBSET Nodes
    /\ [n \in Nodes |-> Following(n)] \in [Nodes -> SUBSET Nodes]
<1>1. \A n \in Nodes : Following(n) \in SUBSET Nodes
  BY EdgesJoinNodes DEF Following, Typed, There
<1> QED
  BY <1>1

\* get_canonical_node ends at a node that was not merged.
LEMMA CanonicalIsLast ==
    ASSUME NEW n \in Nodes
    PROVE  /\ Canonical(n) \in Nodes \cup {None}
           /\ Canonical(n) # None => Following(Canonical(n)) = {}
           /\ Following(n) = {} => Canonical(n) = n
<1> DEFINE next == [m \in Nodes |-> Following(m)]
<1>1. next \in [Nodes -> SUBSET Nodes] /\ \A m \in Nodes : next[m] = Following(m)
  BY FollowingIsNodes
<1>2. Canonical(n) = CanonicalAlong(next, n)
  BY DEF Canonical
<1> HIDE DEF next
<1> QED
  BY <1>1, <1>2, CanonicalAlongIsLast

LEMMA CanonicalOrIsLast ==
    ASSUME NEW n \in Nodes
    PROVE  /\ CanonicalOr(n) \in Nodes
           /\ Following(CanonicalOr(n)) = {} \/ Canonical(CanonicalOr(n)) = None
  BY CanonicalIsLast DEF CanonicalOr

LEMMA RelatedIsNodes ==
    ASSUME NEW n \in Nodes
    PROVE  ToSet(Related[n]) \in SUBSET Nodes /\ RelatedNodes(n) \in SUBSET Nodes
<1>1. Related[n] \in Seq(Nodes)
  BY SearchAssumption
<1>2. ToSet(Related[n]) \in SUBSET Nodes
  BY <1>1, ElementsOfSeq DEF ToSet
<1> QED
  BY <1>2, CanonicalOrIsLast DEF RelatedNodes

LEMMA DisplayIsNode ==
    ASSUME NEW n \in Nodes
    PROVE  Display(n) \in Nodes
<1>1. Related[n] \in Seq(Nodes) /\ Host[n] \in Nodes \cup {None}
  BY SearchAssumption
<1>2. \A i \in DOMAIN Related[n] : CanonicalOr(Related[n][i]) \in Nodes
  BY <1>1, CanonicalOrIsLast
<1>3. FirstDisplayable(n) \in Nodes
  <2> DEFINE at(i) == CanonicalOr(Related[n][i])
             shownAt == {i \in DOMAIN Related[n] : Label[at(i)] \notin NonDisplay}
  <2>1. shownAt # {} => Min(shownAt) \in shownAt
    <3>1. shownAt \in SUBSET Nat
      BY <1>1
    <3> HIDE DEF shownAt
    <3> QED
      BY <3>1, MinIsLeast
  <2>2. Related[n] # <<>> => 1 \in DOMAIN Related[n]
    BY <1>1
  <2>3. FirstDisplayable(n) = IF shownAt # {} THEN at(Min(shownAt)) ELSE IF Related[n] # <<>> THEN at(1) ELSE n
    BY DEF FirstDisplayable
  <2>4. shownAt \subseteq DOMAIN Related[n]
    OBVIOUS
  <2> HIDE DEF shownAt
  <2> QED
    BY <1>2, <2>1, <2>2, <2>3, <2>4
<1> QED
  BY <1>1, <1>3 DEF Display

LEMMA InSight ==
    ASSUME SearchTypeOK, NEW n \in Nodes, ~Hidden(n)
    PROVE  ~OutOfSight(n)
  BY DEF SearchTypeOK, GraphTypeOK, Lifecycles, Hidden, OutOfSight

\* What a part of the graph has
IsPart(part) == part.nodes \in SUBSET Nodes /\ part.edges \in SUBSET There

LEMMA NeighborhoodIsPart ==
    ASSUME NEW n, NEW depth
    PROVE  IsPart(Neighborhood(n, depth))
<1>1. \A ns : Touching(ns) \in SUBSET There
  BY DEF Touching
<1>2. \A es \in SUBSET There : Ends(es) \in SUBSET Nodes
  BY EdgesJoinNodes DEF Ends, There
<1>3. PICK es : es \in SUBSET There /\ Neighborhood(n, depth) = [nodes |-> Ends(es), edges |-> es]
  <2> DEFINE es == Touching((CHOOSE reached : reached =
                               [d \in 0 .. depth |-> IF d = 0 THEN {n}
                                  ELSE reached[d - 1] \cup Ends(Touching(reached[d - 1]))])[depth - 1])
  <2>1. Neighborhood(n, depth) = [nodes |-> Ends(es), edges |-> es]
    BY Zenon DEF Neighborhood
  <2>2. es \in SUBSET There
    BY <1>1
  <2> HIDE DEF es
  <2> QED
    BY <2>1, <2>2
<1> QED
  BY <1>2, <1>3 DEF IsPart

LEMMA ViewInSight ==
    ASSUME SearchTypeOK, NEW part, IsPart(part), NEW o, ~o.archived
    PROVE  /\ \A n \in View(part, o).nodes : ~OutOfSight(n)
           /\ \A e \in View(part, o).edges : ~OutOfSight(e) /\ {e.from, e.to} \subseteq View(part, o).nodes
<1> DEFINE view == View(part, o)
<1>1. view.nodes = Visible(part.nodes, o)
  BY DEF View
<1>2. view.edges = {e \in part.edges : {e.from, e.to} \subseteq view.nodes /\ (o.archived \/ ~HiddenEdge(e))}
  BY DEF View
<1> HIDE DEF view
<1>3. ASSUME NEW n \in view.nodes
      PROVE  ~OutOfSight(n)
  <2>1. n \in Nodes /\ ~Hidden(n)
    BY <1>1, <1>3 DEF Visible, IsPart
  <2> QED
    BY <2>1, InSight
<1>4. ASSUME NEW e \in view.edges
      PROVE  ~OutOfSight(e) /\ {e.from, e.to} \subseteq view.nodes
  <2>1. e \in Edges /\ edge[e] # None /\ ~HiddenEdge(e)
    BY <1>2, <1>4 DEF IsPart, There
  <2>2. e \notin Nodes
    BY <2>1, EdgesJoinNodes
  <2>3. edge[e] = "active"
    BY <2>1 DEF SearchTypeOK, GraphTypeOK, Lifecycles, HiddenEdge
  <2> QED
    BY <1>2, <1>4, <2>2, <2>3 DEF OutOfSight
<1> QED
  BY <1>3, <1>4 DEF view

LEMMA VisibleInSight ==
    ASSUME SearchTypeOK, NEW ns \in SUBSET Nodes, NEW o, ~o.archived
    PROVE  \A n \in Visible(ns, o) : ~OutOfSight(n)
  BY InSight DEF Visible

\* The nodes and relationships that a result was made of are in sight.
Shows(nodes, edges) ==
    /\ \A n \in nodes : ~OutOfSight(n)
    /\ \A e \in edges : ~OutOfSight(e) /\ {e.from, e.to} \subseteq nodes

LEMMA MapInSight ==
    ASSUME SearchTypeOK, NEW part, IsPart(part), NEW matching
    PROVE  Shows(MapView(part, matching).nodes, MapView(part, matching).edges)
<1> DEFINE view == View(part, Default)
           map == MapView(part, matching)
<1>1. ~Default.archived
  BY DEF Default
<1>2. /\ \A n \in view.nodes : ~OutOfSight(n)
      /\ \A e \in view.edges : ~OutOfSight(e)
  BY <1>1, ViewInSight
<1>3. /\ map.nodes \subseteq view.nodes
      /\ map.edges = {e \in view.edges : {e.from, e.to} \subseteq map.nodes}
  <2> HIDE DEF view
  <2> QED
    BY DEF MapView, view
<1> HIDE DEF view, map
<1> QED
  BY <1>2, <1>3 DEF Shows, map

LEMMA MapRecordsIsPart ==
    ASSUME NEW matching \in SUBSET Nodes
    PROVE  IsPart(MapRecords(matching))
<1> DEFINE es == {e \in Typed({"HAPPENED_AT"}) : e.to \in matching /\ Label[e.from] = "Event"}
<1>1. MapRecords(matching) = [nodes |-> matching \cup {e.from : e \in es}, edges |-> es]
  BY DEF MapRecords
<1>2. es \in SUBSET There
  BY DEF Typed
<1>3. \A e \in es : e.from \in Nodes
  BY <1>2, EdgesJoinNodes DEF There
<1> HIDE DEF es
<1> QED
  BY <1>1, <1>2, <1>3 DEF IsPart

LEMMA AffectiveIsNodes ==
    ASSUME NEW n
    PROVE  Affective(n) \in SUBSET Nodes
  BY EdgesJoinNodes DEF Affective, Perceptions, Contexts, Typed, There

LEMMA DetailInSight ==
    ASSUME SearchTypeOK, NEW n, NEW o, ~o.archived
    PROVE  \A x \in Detail(n, o).nodes \cup Detail(n, o).edges : ~OutOfSight(x)
<1>1. Detail(n, o).nodes = Visible(Affective(n), o) /\ Detail(n, o).edges = Relationships(n, o.archived)
  BY DEF Detail
<1>2. \A x \in Visible(Affective(n), o) : ~OutOfSight(x)
  BY AffectiveIsNodes, VisibleInSight
<1>3. ASSUME NEW e \in Relationships(n, o.archived)
      PROVE  ~OutOfSight(e)
  <2>1. e \in Edges /\ edge[e] # None /\ ~HiddenEdge(e)
    BY <1>3 DEF Relationships, Touching, There
  <2>2. e \notin Nodes
    BY <2>1, EdgesJoinNodes
  <2> QED
    BY <2>1, <2>2 DEF SearchTypeOK, GraphTypeOK, Lifecycles, HiddenEdge, OutOfSight
<1> QED
  BY <1>1, <1>2, <1>3

LEMMA LogsNotArchived ==
    ASSUME NEW n, NEW o, ~o.archived
    PROVE  \A m \in Logs(n, o.archived) : life[m] # "archived"
  BY DEF Logs

LEMMA AnalyticsNotArchived ==
    ASSUME NEW o, ~o.archived, NEW ns \in Analytics(o.archived)
    PROVE  \A n \in ns : life[n] # "archived"
  BY DEF Analytics, Connected, Counted

LEMMA ExpandedIsPart ==
    ASSUME NEW seeds \in SUBSET Nodes, NEW displays, NEW o
    PROVE  IsPart(Expanded(seeds, displays, o))
<1> DEFINE keeps(n) == (Label[n] \notin NonDisplay \/ n \in displays) /\ (o.archived \/ ~Hidden(n))
           parts == {[part |-> Neighborhood(s, 1), seed |-> s] : s \in seeds}
           found == UNION {p.part.nodes \cup SeedItself(p.seed, p.part) : p \in parts}
           ns == {n \in found : keeps(n)}
           all == UNION {p.part.edges : p \in parts}
           es == {e \in all : {e.from, e.to} \subseteq ns /\ (o.archived \/ ~HiddenEdge(e))}
<1>1. Expanded(seeds, displays, o) = [nodes |-> ns, edges |-> es]
  BY DEF Expanded
<1>2. \A p \in parts : IsPart(p.part) /\ p.seed \in Nodes
  BY NeighborhoodIsPart
<1>3. found \in SUBSET Nodes
  BY <1>2 DEF IsPart, SeedItself
<1>4. all \in SUBSET There
  <2> HIDE DEF parts
  <2> QED
    BY <1>2 DEF IsPart
<1>5. ns \in SUBSET Nodes /\ es \in SUBSET There
  <2> HIDE DEF found, all
  <2> QED
    BY <1>3, <1>4
<1> HIDE DEF ns, es
<1> QED
  BY <1>1, <1>5 DEF IsPart

-----------------------------------------------------------------------------
(* What views show *)

\* A result shows what ViewsHideHidden says of it.
Hides(r) ==
    ~r.o.archived =>
        /\ r.kind \in {"view", "search"} => Shows(r.nodes, r.edges)
        /\ r.kind = "detail" => \A x \in r.nodes \cup r.edges : ~OutOfSight(x)
        /\ r.kind \in {"logs", "count"} => \A n \in r.nodes : life[n] # "archived"

LEMMA HidesWhatIsHidden ==
    ViewsHideHidden <=> (shown # None => Hides(shown))
  BY DEF ViewsHideHidden, Hides, Shows

LEMMA ViewHides ==
    ASSUME SearchTypeOK, NEW o, NEW part, IsPart(part)
    PROVE  Hides(Result("view", o, View(part, o)))
  BY ViewInSight DEF Hides, Shows, Result

LEMMA TimelineHides ==
    ASSUME SearchTypeOK, NEW n, NEW history
    PROVE  Hides(Result("view", Default, Nodeset(Timeline(n, history))))
<1>1. Neighborhood(n, 2).nodes \in SUBSET Nodes
  BY NeighborhoodIsPart DEF IsPart
<1>2. \A m \in Timeline(n, history) : ~OutOfSight(m)
  <2> DEFINE o == [archived |-> FALSE, history |-> history]
  <2>1. ~o.archived /\ Timeline(n, history) = Visible(Neighborhood(n, 2).nodes, o)
    BY DEF Timeline
  <2> HIDE DEF o
  <2> QED
    BY <1>1, <2>1, VisibleInSight
<1> QED
  BY <1>2 DEF Hides, Shows, Result, Nodeset

LEMMA BrowseHides ==
    ASSUME SearchTypeOK, Browse
    PROVE  Hides(shown')
<1>1. PICK o \in Options :
          \/ \E n \in Nodes :
                \/ \E depth \in 1 .. 3 : shown' = Result("view", o, NeighborhoodView(n, depth, o))
                \/ shown' = Result("view", o, Memories(n, o))
                \/ shown' = Result("view", Default, Nodeset(Timeline(n, o.history)))
                \/ \E matching \in SUBSET Labelled({"Place"}) :
                      shown' = Result("view", Default, MapView(Neighborhood(n, 2), matching))
                \/ Canonical(n) # None /\ shown' = Result("detail", o, Detail(n, o))
                \/ shown' = Result("logs", o, Nodeset(Logs(n, o.archived)))
                \/ Label[n] = "MemoryLog" /\ shown' = Result("log", o, Nodeset(LogDetail(n)))
          \/ \E matching \in SUBSET Labelled({"Place"}) :
                shown' = Result("view", Default, MapView(MapRecords(matching), matching))
          \/ \E ns \in Analytics(o.archived) : shown' = Result("count", o, Nodeset(ns))
  BY DEF Browse
<1>2. ASSUME NEW part, IsPart(part), NEW matching,
             shown' = Result("view", Default, MapView(part, matching))
      PROVE  Hides(shown')
  BY <1>2, MapInSight DEF Hides, Result
<1>3. ASSUME NEW n \in Nodes, NEW depth \in 1 .. 3, shown' = Result("view", o, NeighborhoodView(n, depth, o))
      PROVE  Hides(shown')
  BY <1>3, NeighborhoodIsPart, ViewHides DEF NeighborhoodView
<1>4. ASSUME NEW n \in Nodes, shown' = Result("view", o, Memories(n, o))
      PROVE  Hides(shown')
  BY <1>4, NeighborhoodIsPart, ViewHides DEF Memories
<1>5. ASSUME NEW n \in Nodes, shown' = Result("view", Default, Nodeset(Timeline(n, o.history)))
      PROVE  Hides(shown')
  BY <1>5, TimelineHides
<1>6. ASSUME NEW n \in Nodes, NEW matching, shown' = Result("view", Default, MapView(Neighborhood(n, 2), matching))
      PROVE  Hides(shown')
  BY <1>2, <1>6, NeighborhoodIsPart
<1>7. ASSUME NEW n \in Nodes, shown' = Result("detail", o, Detail(n, o))
      PROVE  Hides(shown')
  BY <1>7, DetailInSight DEF Hides, Result
<1>8. ASSUME NEW n \in Nodes, shown' = Result("logs", o, Nodeset(Logs(n, o.archived)))
      PROVE  Hides(shown')
  BY <1>8, LogsNotArchived DEF Hides, Result, Nodeset
<1>9. ASSUME NEW n \in Nodes, shown' = Result("log", o, Nodeset(LogDetail(n)))
      PROVE  Hides(shown')
  BY <1>9 DEF Hides, Result, Nodeset
<1>10. ASSUME NEW matching \in SUBSET Labelled({"Place"}),
              shown' = Result("view", Default, MapView(MapRecords(matching), matching))
       PROVE  Hides(shown')
  <2>1. matching \in SUBSET Nodes
    BY DEF Labelled
  <2> QED
    BY <1>2, <1>10, <2>1, MapRecordsIsPart
<1>11. ASSUME NEW ns \in Analytics(o.archived), shown' = Result("count", o, Nodeset(ns))
       PROVE  Hides(shown')
  BY <1>11, AnalyticsNotArchived DEF Hides, Result, Nodeset
<1> QED
  BY <1>1, <1>3, <1>4, <1>5, <1>6, <1>7, <1>8, <1>9, <1>10, <1>11

\* The graph that is drawn for hits
Drawn(s, k) ==
    LET selected == {s.hits[i] : i \in 1 .. k}
        displays == {h.display : h \in selected}
        seeds    == displays \cup IF s.o.broad THEN UNION {h.related : h \in selected} ELSE {}
    IN  View(Expanded(seeds, displays, s.o), s.o)

LEMMA DrawnHides ==
    ASSUME SearchTypeOK, NEW s \in Searches, NEW k \in Selections(s.hits, s.o)
    PROVE  /\ 1 .. k \in SUBSET DOMAIN s.hits
           /\ ~s.o.archived => Shows(Drawn(s, k).nodes, Drawn(s, k).edges)
<1> DEFINE selected == {s.hits[i] : i \in 1 .. k}
           displays == {h.display : h \in selected}
           seeds    == displays \cup IF s.o.broad THEN UNION {h.related : h \in selected} ELSE {}
<1>1. s.hits \in Seq(Hits)
  BY DEF Searches
<1>2. k \in Nat /\ k <= Len(s.hits)
  BY <1>1 DEF Selections
<1>3. 1 .. k \in SUBSET DOMAIN s.hits
  BY <1>1, <1>2
<1>4. selected \in SUBSET Hits
  <2>1. \A i \in DOMAIN s.hits : s.hits[i] \in Hits
    BY <1>1
  <2> QED
    BY <1>3, <2>1
<1>5. displays \in SUBSET Nodes /\ UNION {h.related : h \in selected} \in SUBSET Nodes
  <2> HIDE DEF selected
  <2> QED
    BY <1>4 DEF Hits
<1>6. seeds \in SUBSET Nodes
  <2> HIDE DEF selected, displays
  <2> QED
    BY <1>5
<1>7. Drawn(s, k) = View(Expanded(seeds, displays, s.o), s.o)
  BY DEF Drawn
<1> HIDE DEF seeds, displays
<1> QED
  BY <1>3, <1>6, <1>7, ExpandedIsPart, ViewInSight DEF Shows

-----------------------------------------------------------------------------
(* What is found *)

LEMMA DisplayedFits ==
    ASSUME SearchTypeOK, NEW n \in Nodes, NEW o, Displayable(o, CanonicalOr(n))
    PROVE  CanonicalOr(n) \in Nodes /\ Fits(CanonicalOr(n), o)
  BY CanonicalOrIsLast, InSight DEF Fits, Displayable

LEMMA HydratedFits ==
    ASSUME SearchTypeOK, NEW s \in Searches, NEW n \in Embedded, n \in ToSet(s.raw)
    PROVE  /\ Hydrated(s, n) \in Seq(Hits)
           /\ \A i \in DOMAIN Hydrated(s, n) : Fits(Hydrated(s, n)[i].display, s.o)
<1> DEFINE display == CanonicalOr(Display(n))
           hit == [display |-> display, matched |-> {n}, score |-> Score(s, n),
                   related |-> (ToSet(Related[n]) \cup RelatedNodes(n) \cup {n}) \ {display},
                   ids |-> {n, CanonicalOr(n), display, Display(n)} \cup ToSet(Related[n])
                           \cup RelatedNodes(n)]
<1>1. n \in Nodes /\ Display(n) \in Nodes /\ CanonicalOr(n) \in Nodes /\ display \in Nodes
  BY SearchAssumption, DisplayIsNode, CanonicalOrIsLast
<1>2. ToSet(Related[n]) \in SUBSET Nodes /\ RelatedNodes(n) \in SUBSET Nodes
  BY <1>1, RelatedIsNodes
<1>3. Score(s, n) \in Int
  <2>1. s.raw \in Seq(Embedded) /\ s.cut \in Nat /\ MaxHits \in Nat
    BY SearchAssumption DEF Searches
  <2>2. \E i \in DOMAIN s.raw : s.raw[i] = n
    BY DEF ToSet
  <2>3. (CHOOSE i \in DOMAIN s.raw : s.raw[i] = n) \in Nat
    BY <2>1, <2>2
  <2> QED
    BY <2>1, <2>3 DEF Score
<1>4. (Hydrated(s, n) = <<hit>> /\ Displayable(s.o, display)) \/ Hydrated(s, n) = <<>>
  <2> HIDE DEF hit, display
  <2>1. Hydrated(s, n) = IF /\ s.o.archived \/ entry[n] = "active"
                            /\ ProfileAllowed(n, RelatedNodes(n))
                            /\ Displayable(s.o, display)
                         THEN <<hit>> ELSE <<>>
    BY DEF Hydrated, hit, display
  <2> QED
    BY <2>1
<1>5. hit \in Hits
  <2> HIDE DEF display
  <2> QED
    BY <1>1, <1>2, <1>3 DEF Hits
<1>6. hit.display = display
  OBVIOUS
<1>7. Displayable(s.o, display) => Fits(display, s.o)
  BY <1>1, DisplayedFits
<1> HIDE DEF hit, display
<1>8. CASE Hydrated(s, n) = <<>>
  BY <1>8
<1>9. CASE Hydrated(s, n) = <<hit>> /\ Displayable(s.o, display)
  <2>1. <<hit>> \in Seq(Hits) /\ DOMAIN <<hit>> = {1} /\ <<hit>>[1] = hit
    BY <1>5
  <2> QED
    BY <1>6, <1>7, <1>9, <2>1
<1> QED
  BY <1>4, <1>8, <1>9

LEMMA PropertyHitsFit ==
    ASSUME SearchTypeOK, NEW s \in Searches
    PROVE  /\ PropertyHits(s) \in Seq(Hits)
           /\ \A i \in DOMAIN PropertyHits(s) : Fits(PropertyHits(s)[i].display, s.o)
<1> DEFINE profileOf(n) == {CanonicalOr(m) : m \in Ends({e \in Typed({"DESCRIBES_USER"}) : n \in {e.from, e.to}}) \ {n}}
           hit(n) == [display |-> CanonicalOr(n), matched |-> {n}, score |-> PropertyScore,
                      related |-> {}, ids |-> {n, CanonicalOr(n)}]
           of(n) == IF /\ ProfileAllowed(n, profileOf(n))
                       /\ s.allowed = {} \/ CanonicalOr(n) \in s.allowed
                       /\ Displayable(s.o, CanonicalOr(n))
                    THEN <<hit(n)>> ELSE <<>>
           Good == {h \in Hits : Fits(h.display, s.o)}
           parts == [i \in DOMAIN s.matching |-> of(s.matching[i])]
<1>1. PropertyHits(s) = FlattenSeq(parts)
  BY DEF PropertyHits
<1>2. ASSUME NEW n \in Nodes
      PROVE  of(n) \in Seq(Good)
  <2>1. CASE Displayable(s.o, CanonicalOr(n))
    <3>1. CanonicalOr(n) \in Nodes /\ Fits(CanonicalOr(n), s.o)
      BY <2>1, DisplayedFits
    <3>2. hit(n) \in Hits /\ hit(n).display = CanonicalOr(n)
      BY <3>1, SearchAssumption DEF Hits, PropertyScore
    <3>3. hit(n) \in Good
      <4> HIDE DEF hit
      <4> QED
        BY <3>1, <3>2
    <3> HIDE DEF hit, Good, profileOf
    <3> QED
      BY <3>3
  <2>2. CASE ~Displayable(s.o, CanonicalOr(n))
    <3> HIDE DEF hit, Good, profileOf
    <3> QED
      BY <2>2
  <2> QED
    BY <2>1, <2>2
<1>3. s.matching \in Seq(Nodes)
  BY SearchAssumption DEF Searches
<1>4. parts \in Seq(Seq(Good))
  <2>1. \A i \in DOMAIN s.matching : of(s.matching[i]) \in Seq(Good)
    <3>1. \A i \in DOMAIN s.matching : s.matching[i] \in Nodes
      BY <1>3
    <3> HIDE DEF of, Good
    <3> QED
      BY <1>2, <3>1
  <2>2. DOMAIN s.matching = 1 .. Len(s.matching) /\ Len(s.matching) \in Nat
    BY <1>3
  <2> HIDE DEF of, Good
  <2> QED
    BY <2>1, <2>2
<1>5. PropertyHits(s) \in Seq(Good)
  <2> HIDE DEF parts, Good
  <2> QED
    BY <1>1, <1>4, ElementsOfFlatten
<1>6. \A i \in DOMAIN PropertyHits(s) : PropertyHits(s)[i] \in Good
  <2> HIDE DEF Good
  <2> QED
    BY <1>5
<1> QED
  BY <1>5, <1>6

-----------------------------------------------------------------------------
(* Ranking *)

LEMMA RankingIsSeq ==
    ASSUME NEW hits \in Seq(Hits), NEW at \in SUBSET DOMAIN hits, NEW order \in Rankings(hits, at)
    PROVE  /\ \E k \in Nat : order \in [1 .. k -> at]
           /\ \A i, j \in DOMAIN order : i < j => Before(hits, order[i], order[j])
<1>1. IsFiniteSet(at)
  <2>1. DOMAIN hits = 1 .. Len(hits) /\ Len(hits) \in Nat
    OBVIOUS
  <2>2. IsFiniteSet(1 .. Len(hits))
    BY <2>1, FS_Interval
  <2> QED
    BY <2>1, <2>2, FS_Subset
<1> DEFINE k == Min({Limit, Cardinality(at)})
<1>2. k \in Nat
  <2>1. Cardinality(at) \in Nat /\ Limit \in Nat
    BY <1>1, FS_CardinalityType, SearchAssumption
  <2> DEFINE c == Cardinality(at)
  <2>2. c \in Int /\ Limit \in Int
    BY <2>1
  <2> HIDE DEF c
  <2>3. Min({Limit, c}) \in {Limit, c}
    BY <2>2, MinOfTwo
  <2> QED
    BY <2>1, <2>3 DEF c
<1>3. order \in [1 .. k -> at] /\ \A i, j \in DOMAIN order : i < j => Before(hits, order[i], order[j])
  BY DEF Rankings
<1> HIDE DEF k
<1> QED
  BY <1>2, <1>3

LEMMA BestAreRanked ==
    ASSUME NEW hits \in Seq(Hits), NEW order \in Rankings(hits, Leading(hits, DOMAIN hits))
    PROVE  /\ [i \in DOMAIN order |-> hits[order[i]]] \in Seq(Hits)
           /\ Ranked([i \in DOMAIN order |-> hits[order[i]]])
           /\ \A i \in DOMAIN order : order[i] \in DOMAIN hits
<1> DEFINE at == Leading(hits, DOMAIN hits)
<1>1. at \in SUBSET DOMAIN hits
  BY DEF Leading
<1>2. PICK k \in Nat : order \in [1 .. k -> at]
  <2> HIDE DEF at
  <2>1. order \in Rankings(hits, at)
    BY DEF at
  <2> QED
    BY <1>1, <2>1, RankingIsSeq
<1>3. \A i, j \in DOMAIN order : i < j => Before(hits, order[i], order[j])
  <2> HIDE DEF at
  <2>1. order \in Rankings(hits, at)
    BY DEF at
  <2> QED
    BY <1>1, <2>1, RankingIsSeq
<1>4. DOMAIN order = 1 .. k /\ \A i \in 1 .. k : order[i] \in at /\ order[i] \in DOMAIN hits
  <2> HIDE DEF at
  <2> QED
    BY <1>1, <1>2
<1>5. \A i \in DOMAIN hits : hits[i] \in Hits /\ hits[i].score \in Int /\ i \in Int
  <2>1. \A i \in DOMAIN hits : hits[i] \in Hits /\ i \in Int
    OBVIOUS
  <2> QED
    BY <2>1 DEF Hits
<1> DEFINE best == [i \in DOMAIN order |-> hits[order[i]]]
<1>6. best \in Seq(Hits)
  BY <1>4, <1>5
<1>7. ASSUME NEW i \in DOMAIN best, NEW j \in DOMAIN best, i < j
      PROVE  best[i].score >= best[j].score /\ best[i].display # best[j].display
  <2> DEFINE a == order[i]
             b == order[j]
  <2>1. best[i] = hits[a] /\ best[j] = hits[b] /\ a \in at /\ b \in at
    BY <1>4
  <2>2. Before(hits, a, b)
    BY <1>3, <1>7
  <2>3. a \in DOMAIN hits /\ b \in DOMAIN hits
    BY <1>4
  <2> HIDE DEF a, b, best
  <2>4. hits[a].score >= hits[b].score /\ a # b
    BY <1>5, <2>2, <2>3 DEF Before
  <2>5. ~Before(hits, b, a)
    BY <1>5, <2>2, <2>3 DEF Before
  <2>6. hits[a].display # hits[b].display
    BY <2>1, <2>3, <2>4, <2>5 DEF Leading, Key
  <2> QED
    BY <2>1, <2>4, <2>6
<1>8. Ranked(best)
  <2> HIDE DEF best
  <2> QED
    BY <1>7 DEF Ranked
<1> QED
  BY <1>4, <1>6, <1>8

LEMMA GroupedIsHit ==
    ASSUME NEW s \in Searches, NEW i \in DOMAIN s.hits
    PROVE  Grouped(s, i) \in Hits /\ Grouped(s, i).display = s.hits[i].display
<1> DEFINE group == {h \in ToSet(s.hits) : Intersects(s, h) /\ Key(h) = Key(s.hits[i])}
<1>1. s.hits \in Seq(Hits)
  BY DEF Searches
<1>2. s.hits[i] \in Hits /\ ToSet(s.hits) \in SUBSET Hits
  BY <1>1, ElementsOfSeq DEF ToSet
<1>3. group \in SUBSET Hits
  BY <1>2
<1>4. Grouped(s, i) = [s.hits[i] EXCEPT !.matched = UNION {h.matched : h \in group},
                                         !.related = UNION {h.related : h \in group}]
  BY DEF Grouped
<1> HIDE DEF group
<1>5. UNION {h.matched : h \in group} \in SUBSET Nodes /\ UNION {h.related : h \in group} \in SUBSET Nodes
  BY <1>3 DEF Hits
<1> QED
  BY <1>2, <1>4, <1>5 DEF Hits

-----------------------------------------------------------------------------
(* Writes *)

\* What a write leaves alone: all that it does not name, and no node that was
\* merged is apart again.
Leaves(things) ==
    /\ things \in SUBSET (Nodes \cup Edges)
    /\ \A n \in Nodes \ things : life'[n] = life[n] /\ into'[n] = into[n]
    /\ \A n \in Nodes : Following(n) \subseteq Following(n)' /\ (n \notin things => Following(n)' = Following(n))

LEMMA FollowingStays ==
    ASSUME UNCHANGED edge
    PROVE  \A n : Following(n)' = Following(n)
  BY DEF Following, Typed, There

\* Relationships come, and none goes.
LEMMA FollowingGrows ==
    ASSUME NEW e \in Edges, NEW l \in Lifecycles, edge \in [Edges -> Lifecycles \cup {None}],
           edge' = [edge EXCEPT ![e] = l]
    PROVE  \A n : Following(n) \subseteq Following(n)' /\ (n # e.from => Following(n)' = Following(n))
<1>1. l # None
  BY SearchAssumption DEF Lifecycles
<1>2. There' = There \cup {e}
  BY <1>1 DEF There
<1>3. \A n : Following(n)' = {d.to : d \in {d \in There' : d.type \in {"MERGED_INTO"} /\ d.from = n}}
  BY DEF Following, Typed
<1>4. \A n : Following(n) = {d.to : d \in {d \in There : d.type \in {"MERGED_INTO"} /\ d.from = n}}
  BY DEF Following, Typed
<1> QED
  BY <1>2, <1>3, <1>4

LEMMA WriteLeaves ==
    ASSUME GraphTypeOK, Write
    PROVE  GraphTypeOK' /\ \E things : Writes(things) /\ Leaves(things)
<1>1. ASSUME NEW n \in Nodes, NEW l \in Lifecycles, Transition(n, l)
      PROVE  GraphTypeOK' /\ Writes({n}) /\ Leaves({n})
  BY <1>1, FollowingStays DEF Transition, GraphTypeOK, Leaves
<1>2. ASSUME NEW e \in Edges, NEW l \in Lifecycles, edge' = [edge EXCEPT ![e] = l], UNCHANGED <<life, into>>
      PROVE  GraphTypeOK' /\ Leaves({e, e.from, e.to})
  <2>1. {e, e.from, e.to} \in SUBSET (Nodes \cup Edges)
    BY EdgesJoinNodes
  <2>2. edge' \in [Edges -> Lifecycles \cup {None}]
    BY <1>2 DEF GraphTypeOK
  <2>3. \A n : Following(n) \subseteq Following(n)' /\ (n # e.from => Following(n)' = Following(n))
    BY <1>2, FollowingGrows DEF GraphTypeOK
  <2> QED
    BY <1>2, <2>1, <2>2, <2>3 DEF GraphTypeOK, Leaves
<1>3. ASSUME NEW e \in Edges, Connect(e)
      PROVE  GraphTypeOK' /\ Writes({e, e.from, e.to}) /\ Leaves({e, e.from, e.to})
  <2>1. "active" \in Lifecycles
    BY DEF Lifecycles
  <2> QED
    BY <1>2, <1>3, <2>1 DEF Connect
<1>4. ASSUME NEW e \in Edges, NEW l \in Lifecycles, TransitionEdge(e, l)
      PROVE  GraphTypeOK' /\ Writes({e, e.from, e.to}) /\ Leaves({e, e.from, e.to})
  BY <1>2, <1>4 DEF TransitionEdge
<1>5. ASSUME NEW e \in Edges, HideMerged(e)
      PROVE  GraphTypeOK' /\ Writes({e.from}) /\ Leaves({e.from})
  <2>1. e.from \in Nodes /\ e.to \in Nodes /\ "archived" \in Lifecycles
    BY EdgesJoinNodes DEF Lifecycles
  <2> QED
    BY <1>5, <2>1, FollowingStays DEF HideMerged, GraphTypeOK, Leaves
<1>6. ASSUME NEW n \in Embedded, Vectorize(n)
      PROVE  GraphTypeOK' /\ Writes({n}) /\ Leaves({n})
  <2>1. n \in Nodes
    BY SearchAssumption
  <2> QED
    BY <1>6, <2>1, FollowingStays DEF Vectorize, GraphTypeOK, Leaves
<1> QED
  BY <1>1, <1>3, <1>4, <1>5, <1>6 DEF Write

LEMMA FitsStays ==
    ASSUME NEW things, Leaves(things), NEW n \in Nodes \ things, NEW o, Fits(n, o)
    PROVE  Fits(n, o)'
<1> DEFINE next == [m \in Nodes |-> Following(m)]
           later == [m \in Nodes |-> Following(m)']
<1>1. next \in [Nodes -> SUBSET Nodes] /\ \A m \in Nodes : next[m] = Following(m)
  BY FollowingIsNodes
<1>2. later \in [Nodes -> SUBSET Nodes] /\ \A m \in Nodes : later[m] = Following(m)'
  BY FollowingIsNodes, EdgesJoinNodes DEF Following, Typed, There
<1>3. Canonical(n) = CanonicalAlong(next, n) /\ Canonical(n)' = CanonicalAlong(later, n)
  BY DEF Canonical
<1> HIDE DEF next, later
<1>4. Canonical(n) = None => Canonical(n)' = None
  <2>1. \A m \in Nodes : next[m] \subseteq later[m]
    BY <1>1, <1>2 DEF Leaves
  <2> QED
    BY <1>1, <1>2, <1>3, <2>1, CanonicalAlongStays
<1>5. Following(n)' = Following(n) /\ (OutOfSight(n) <=> OutOfSight(n)')
  BY DEF Leaves, OutOfSight
<1> QED
  BY <1>4, <1>5 DEF Fits

LEMMA SameGraphFits ==
    ASSUME UNCHANGED graph
    PROVE  /\ \A n, o : Fits(n, o)' <=> Fits(n, o)
           /\ \A n : Canonical(n)' = Canonical(n)
           /\ \A x : OutOfSight(x)' <=> OutOfSight(x)
<1>1. \A n : Following(n)' = Following(n)
  BY FollowingStays DEF graph
<1>2. \A n : Canonical(n)' = Canonical(n)
  BY <1>1 DEF Canonical
<1>3. \A x : OutOfSight(x)' <=> OutOfSight(x)
  BY DEF OutOfSight, graph
<1> QED
  BY <1>1, <1>2, <1>3 DEF Fits

-----------------------------------------------------------------------------
(* The invariant holds *)

LEMMA InitSearch ==
    ASSUME SearchInit
    PROVE  SearchInv
<1>1. life \in [Nodes -> Lifecycles] /\ edge \in [Edges -> Lifecycles \cup {None}]
  BY DEF SearchInit, Lifecycles
<1>2. into \in [Nodes -> Nodes \cup {None}]
  <2>1. ASSUME NEW n \in Merged
        PROVE  (CHOOSE e \in Present : e.type = "MERGED_INTO" /\ e.from = n).to \in Nodes
    <3> DEFINE e == CHOOSE e \in Present : e.type = "MERGED_INTO" /\ e.from = n
    <3>1. e \in Present
      BY <2>1, SearchAssumption
    <3> HIDE DEF e
    <3>2. e \in Edges
      BY <3>1, SearchAssumption
    <3>3. e.to \in Nodes
      BY <3>2, EdgesJoinNodes
    <3> QED
      BY <3>3 DEF e
  <2> QED
    BY <2>1 DEF SearchInit
<1>3. search = None
  BY DEF SearchInit
<1> QED
  BY <1>1, <1>2, <1>3 DEF SearchInv, SearchTypeOK, GraphTypeOK, LeftIsRaw, HitsFit, HitsRanked

\* A search under way, as the invariant has it
SearchFits(s) ==
    /\ s \in Searches
    /\ ToSet(s.left) \subseteq ToSet(s.raw)
    /\ \A i \in DOMAIN s.hits : s.hits[i].display \in s.written \/ Fits(s.hits[i].display, s.o)
    /\ s.step # "hydrate" => Ranked(s.hits)

LEMMA InvOfSearch ==
    SearchInv <=> GraphTypeOK /\ (search # None => SearchFits(search))
  BY DEF SearchInv, SearchTypeOK, LeftIsRaw, HitsFit, HitsRanked, SearchFits

LEMMA WriteKeepsSearch ==
    ASSUME SearchInv, Write
    PROVE  SearchInv'
<1>1. GraphTypeOK /\ (search # None => SearchFits(search))
  BY InvOfSearch
<1>2. GraphTypeOK' /\ \E things : Writes(things) /\ Leaves(things)
  BY <1>1, WriteLeaves
<1>3. PICK things : Writes(things) /\ Leaves(things)
  BY <1>2
<1>4. CASE search = None
  BY <1>2, <1>3, <1>4 DEF Writes, SearchInv, SearchTypeOK, LeftIsRaw, HitsFit, HitsRanked
<1>5. CASE search # None
  <2>1. search \in Searches /\ search' = [search EXCEPT !.written = @ \cup things]
    BY <1>1, <1>3, <1>5 DEF Writes, SearchFits
  <2>2. /\ search' \in Searches
        /\ search'.left = search.left /\ search'.raw = search.raw /\ search'.hits = search.hits
        /\ search'.step = search.step /\ search'.o = search.o /\ search'.written = search.written \cup things
    BY <1>3, <2>1 DEF Searches, Leaves
  <2>3. ASSUME NEW i \in DOMAIN search.hits
        PROVE  search.hits[i].display \in search.written \cup things \/ Fits(search.hits[i].display, search.o)'
    <3> DEFINE n == search.hits[i].display
               o == search.o
    <3>1. PICK m : m = n
      OBVIOUS
    <3>2. PICK p : p = o
      OBVIOUS
    <3>3. m \in Nodes
      <4>1. search.hits \in Seq(Hits)
        BY <2>1 DEF Searches
      <4>2. search.hits[i] \in Hits
        BY <4>1
      <4> QED
        BY <3>1, <4>2 DEF Hits
    <3>4. m \in search.written \/ Fits(m, p)
      BY <1>1, <1>5, <3>1, <3>2 DEF SearchFits
    <3>5. m \notin things => (Fits(m, p) => Fits(m, p)')
      BY <1>3, <3>3, FitsStays
    <3>6. p = o'
      BY <2>2, <3>2
    <3>7. m = search'.hits[i].display
      BY <2>2, <3>1
    <3> QED
      BY <2>2, <3>1, <3>4, <3>5, <3>6, <3>7
  <2> QED
    BY <1>1, <1>2, <1>5, <2>2, <2>3 DEF SearchFits, SearchInv, SearchTypeOK, LeftIsRaw, HitsFit, HitsRanked
<1> QED
  BY <1>4, <1>5

\* Reads keep the invariant, if what they leave of the search has it.
LEMMA ReadKeepsSearch ==
    ASSUME SearchInv, UNCHANGED graph, search' # None => SearchFits(search')
    PROVE  SearchInv'
<1>1. GraphTypeOK'
  BY InvOfSearch DEF GraphTypeOK, graph
<1>2. \A n, o : Fits(n, o)' <=> Fits(n, o)
  BY SameGraphFits
<1>3. CASE search' = None
  BY <1>1, <1>3 DEF SearchInv, SearchTypeOK, LeftIsRaw, HitsFit, HitsRanked
<1>4. CASE search' # None
  <2>1. PICK s : s = search'
    OBVIOUS
  <2>2. SearchFits(s)
    BY <1>4, <2>1
  <2>3. \A i \in DOMAIN s.hits : s.hits[i].display \in s.written \/ Fits(s.hits[i].display, s.o)'
    BY <1>2, <2>2 DEF SearchFits
  <2> QED
    BY <1>1, <1>4, <2>1, <2>2, <2>3
       DEF SearchFits, SearchInv, SearchTypeOK, LeftIsRaw, HitsFit, HitsRanked
<1> QED
  BY <1>3, <1>4

LEMMA BeginFits ==
    ASSUME NEW o \in Options, NEW raw \in Seq(Embedded), NEW cut \in Nat, NEW matching \in Seq(Matching),
           NEW targets \in SUBSET Nodes, Begin(o, raw, cut, matching, targets)
    PROVE  SearchFits(search')
<1>1. Allowed(targets) \in SUBSET Nodes
  <2>1. \A n \in targets : CanonicalOr(n) \in Nodes
    BY CanonicalOrIsLast
  <2>2. \A n : Neighborhood(n, 2).nodes \in SUBSET Nodes
    BY NeighborhoodIsPart DEF IsPart
  <2> QED
    BY <2>1, <2>2 DEF Allowed
<1>2. search' = [o |-> o, raw |-> raw, left |-> raw, cut |-> cut, matching |-> matching,
                 allowed |-> Allowed(targets), hits |-> <<>>, step |-> "hydrate", written |-> {}]
  BY DEF Begin
<1>3. <<>> \in Seq(Hits) /\ DOMAIN <<>> = {}
  OBVIOUS
<1>4. search' \in Searches
  BY <1>1, <1>2, <1>3 DEF Searches
<1> QED
  BY <1>2, <1>3, <1>4 DEF SearchFits

LEMMA HydrateFits ==
    ASSUME SearchInv, Hydrate
    PROVE  SearchFits(search')
<1>1. SearchTypeOK /\ SearchFits(search)
  BY InvOfSearch DEF Hydrate, SearchInv
<1>2. PICK s : s = search
  OBVIOUS
<1> DEFINE n == Head(s.left)
           new == Hydrated(s, n)
<1>3. s \in Searches /\ s.left \in Seq(Embedded) /\ s.left # <<>> /\ s.hits \in Seq(Hits) /\ s.step = "hydrate"
  BY <1>1, <1>2 DEF SearchFits, Searches, Hydrate
<1>4. n \in Embedded /\ n \in ToSet(s.raw)
  <2>1. n \in Embedded /\ 1 \in DOMAIN s.left /\ n = s.left[1]
    BY <1>3
  <2>2. n \in ToSet(s.left)
    BY <2>1 DEF ToSet
  <2> QED
    BY <1>1, <1>2, <2>1, <2>2 DEF SearchFits
<1>5. new \in Seq(Hits) /\ \A i \in DOMAIN new : Fits(new[i].display, s.o)
  <2> HIDE DEF n
  <2> QED
    BY <1>1, <1>3, <1>4, HydratedFits
<1>6. search' = [s EXCEPT !.left = Tail(s.left), !.hits = s.hits \o new]
  BY <1>2 DEF Hydrate
<1> HIDE DEF n, new
<1>7. Tail(s.left) \in Seq(Embedded) /\ ToSet(Tail(s.left)) \subseteq ToSet(s.left)
  BY <1>3, ToSetOfTail
<1>8. /\ s.hits \o new \in Seq(Hits)
      /\ \A i \in DOMAIN (s.hits \o new) :
            IF i \in DOMAIN s.hits THEN (s.hits \o new)[i] = s.hits[i]
            ELSE \E j \in DOMAIN new : (s.hits \o new)[i] = new[j]
  <2>1. s.hits \o new \in Seq(Hits)
    BY <1>3, <1>5
  <2>2. ASSUME NEW i \in DOMAIN (s.hits \o new), i \notin DOMAIN s.hits
        PROVE  i - Len(s.hits) \in DOMAIN new /\ (s.hits \o new)[i] = new[i - Len(s.hits)]
    BY <1>3, <1>5, <2>2
  <2>3. ASSUME NEW i \in DOMAIN s.hits
        PROVE  (s.hits \o new)[i] = s.hits[i]
    BY <1>3, <1>5
  <2> QED
    BY <2>1, <2>2, <2>3
<1> DEFINE hits == s.hits \o new
<1>9. /\ search' \in Searches /\ search'.left = Tail(s.left) /\ search'.raw = s.raw /\ search'.hits = hits
      /\ search'.written = s.written /\ search'.o = s.o /\ search'.step = "hydrate"
  <2>1. hits \in Seq(Hits)
    BY <1>8
  <2> HIDE DEF hits
  <2>2. search' = [s EXCEPT !.left = Tail(s.left), !.hits = hits]
    BY <1>6 DEF hits
  <2> QED
    BY <1>3, <1>7, <2>1, <2>2 DEF Searches
<1>10. ASSUME NEW i \in DOMAIN hits
       PROVE  hits[i].display \in s.written \/ Fits(hits[i].display, s.o)
  <2>1. CASE i \in DOMAIN s.hits
    <3>1. hits[i] = s.hits[i]
      BY <1>8, <2>1
    <3> QED
      BY <1>1, <1>2, <2>1, <3>1 DEF SearchFits
  <2>2. CASE i \notin DOMAIN s.hits
    <3>1. PICK j \in DOMAIN new : hits[i] = new[j]
      BY <1>8, <2>2
    <3> QED
      BY <1>5, <3>1
  <2> QED
    BY <2>1, <2>2
<1> HIDE DEF hits
<1>11. ToSet(search'.left) \subseteq ToSet(search'.raw)
  BY <1>1, <1>2, <1>7, <1>9 DEF SearchFits
<1> QED
  BY <1>9, <1>10, <1>11 DEF SearchFits

LEMMA MatchFits ==
    ASSUME SearchInv, Match
    PROVE  SearchFits(search')
<1>1. SearchTypeOK /\ SearchFits(search)
  BY InvOfSearch DEF Match, SearchInv
<1> DEFINE s == search
<1>2. s = search
  OBVIOUS
<1>3. s \in Searches /\ s.hits \in Seq(Hits) /\ s.left = <<>>
  BY <1>1, <1>2 DEF SearchFits, Searches, Match
<1> DEFINE hydrated == {i \in DOMAIN s.hits : Intersects(s, s.hits[i])}
           all(order) == [i \in DOMAIN order |-> Grouped(s, order[i])] \o PropertyHits(s)
<1>4. PICK order \in Rankings(s.hits, Leading(s.hits, hydrated)) :
         \E rank \in Rankings(all(order), Leading(all(order), DOMAIN all(order))) :
            search' = [s EXCEPT !.hits = [i \in DOMAIN rank |-> all(order)[rank[i]]], !.step = "assemble"]
  BY Zenon DEF Match
<1> HIDE DEF s
<1> DEFINE grouped == [i \in DOMAIN order |-> Grouped(s, order[i])]
           found == PropertyHits(s)
           hits == grouped \o found
<1>5. PICK rank \in Rankings(hits, Leading(hits, DOMAIN hits)) :
         search' = [s EXCEPT !.hits = [i \in DOMAIN rank |-> hits[rank[i]]], !.step = "assemble"]
  BY <1>4
<1>6. found \in Seq(Hits) /\ \A i \in DOMAIN found : Fits(found[i].display, s.o)
  BY <1>1, <1>3, PropertyHitsFit
<1>7. PICK k \in Nat : order \in [1 .. k -> DOMAIN s.hits]
  <2> DEFINE at == Leading(s.hits, hydrated)
  <2>1. at \in SUBSET DOMAIN s.hits
    BY DEF Leading
  <2> HIDE DEF at
  <2>2. order \in Rankings(s.hits, at)
    BY <1>4 DEF at
  <2>3. \E k \in Nat : order \in [1 .. k -> at]
    BY <1>3, <2>1, <2>2, RankingIsSeq
  <2> QED
    BY <2>1, <2>3
<1>8. /\ grouped \in Seq(Hits) /\ DOMAIN grouped = 1 .. k
      /\ \A i \in DOMAIN grouped : grouped[i].display \in s.written \/ Fits(grouped[i].display, s.o)
  <2>1. \A i \in 1 .. k : /\ order[i] \in DOMAIN s.hits
                            /\ Grouped(s, order[i]) \in Hits
                            /\ Grouped(s, order[i]).display = s.hits[order[i]].display
    BY <1>3, <1>7, GroupedIsHit
  <2>2. DOMAIN order = 1 .. k
    BY <1>7
  <2>3. grouped \in Seq(Hits) /\ DOMAIN grouped = 1 .. k /\ \A i \in 1 .. k : grouped[i] = Grouped(s, order[i])
    BY <2>1, <2>2
  <2>4. \A i \in DOMAIN s.hits : s.hits[i].display \in s.written \/ Fits(s.hits[i].display, s.o)
    BY <1>1, <1>2 DEF SearchFits
  <2> HIDE DEF grouped
  <2> QED
    BY <2>1, <2>3, <2>4
<1> HIDE DEF grouped, found, hydrated, all
<1>9. /\ hits \in Seq(Hits)
      /\ \A i \in DOMAIN hits : hits[i].display \in s.written \/ Fits(hits[i].display, s.o)
  <2>1. hits \in Seq(Hits)
    BY <1>6, <1>8
  <2>2. ASSUME NEW i \in DOMAIN hits
        PROVE  \/ i \in DOMAIN grouped /\ hits[i] = grouped[i]
               \/ i - Len(grouped) \in DOMAIN found /\ hits[i] = found[i - Len(grouped)]
    BY <1>6, <1>8
  <2> HIDE DEF hits
  <2> QED
    BY <1>6, <1>8, <2>1, <2>2
<1> HIDE DEF hits
<1> DEFINE best == [i \in DOMAIN rank |-> hits[rank[i]]]
<1>10. best \in Seq(Hits) /\ Ranked(best) /\ \A i \in DOMAIN rank : rank[i] \in DOMAIN hits
  BY <1>5, <1>9, BestAreRanked
<1>11. \A i \in DOMAIN best : best[i].display \in s.written \/ Fits(best[i].display, s.o)
  BY <1>9, <1>10
<1>12. search' = [s EXCEPT !.hits = best, !.step = "assemble"]
  BY <1>5
<1> HIDE DEF best
<1>13. /\ search' \in Searches /\ search'.left = <<>> /\ search'.hits = best
       /\ search'.written = s.written /\ search'.o = s.o
  BY <1>3, <1>10, <1>12 DEF Searches
<1>14. ToSet(search'.left) \subseteq ToSet(search'.raw)
  BY <1>13 DEF ToSet
<1> QED
  BY <1>10, <1>11, <1>13, <1>14 DEF SearchFits

LEMMA AssembleFits ==
    ASSUME SearchInv, Assemble
    PROVE  SearchFits(search')
<1>1. SearchFits(search) /\ search.step = "assemble" /\ search' = [search EXCEPT !.step = "pack"]
  BY InvOfSearch DEF Assemble
<1> QED
  BY <1>1 DEF SearchFits, Searches

LEMMA NextKeepsSearch ==
    ASSUME SearchInv, [SearchNext]_searchVars
    PROVE  SearchInv'
<1>1. CASE Write
  BY <1>1, WriteKeepsSearch
<1>2. CASE Browse
  <2>1. search' = None /\ UNCHANGED graph
    BY <1>2 DEF Browse
  <2> QED
    BY <2>1, ReadKeepsSearch
<1>3. ASSUME NEW o \in Options, NEW matching \in {<<>>} \cup {<<n>> : n \in Matching},
             NEW targets \in {{}} \cup {{n} : n \in Targets}, NEW k \in 0 .. MaxHits,
             NEW raw \in [1 .. k -> Embedded], NEW cut \in 0 .. k, Begin(o, raw, cut, matching, targets)
      PROVE  SearchInv'
  <2>1. MaxHits \in Nat /\ Targets \in SUBSET Nodes
    BY SearchAssumption
  <2>2. raw \in Seq(Embedded) /\ cut \in Nat /\ matching \in Seq(Matching) /\ targets \in SUBSET Nodes
    <3>1. raw \in Seq(Embedded) /\ cut \in Nat
      BY <2>1
    <3>2. matching \in Seq(Matching)
      <4>1. CASE matching = <<>>
        BY <4>1
      <4>2. ASSUME NEW n \in Matching, matching = <<n>>
            PROVE  matching \in Seq(Matching)
        BY <4>2
      <4> QED
        BY <4>1, <4>2
    <3> QED
      BY <2>1, <3>1, <3>2
  <2>3. UNCHANGED graph
    BY <1>3 DEF Begin
  <2> QED
    BY <1>3, <2>2, <2>3, BeginFits, ReadKeepsSearch
<1>4. CASE Hydrate
  <2>1. UNCHANGED graph
    BY <1>4 DEF Hydrate
  <2> QED
    BY <1>4, <2>1, HydrateFits, ReadKeepsSearch
<1>5. CASE Match
  <2>1. UNCHANGED graph
    BY <1>5 DEF Match
  <2> QED
    BY <1>5, <2>1, MatchFits, ReadKeepsSearch
<1>6. CASE Assemble
  <2>1. UNCHANGED graph
    BY <1>6 DEF Assemble
  <2> QED
    BY <1>6, <2>1, AssembleFits, ReadKeepsSearch
<1>7. CASE Pack
  <2>1. UNCHANGED graph /\ search' = None
    BY <1>7 DEF Pack
  <2> QED
    BY <2>1, ReadKeepsSearch
<1>8. CASE UNCHANGED searchVars
  <2>1. UNCHANGED graph /\ search' = search
    BY <1>8 DEF searchVars
  <2>2. search # None => SearchFits(search)
    BY InvOfSearch
  <2> QED
    BY <2>1, <2>2, ReadKeepsSearch
<1> QED
  BY <1>1, <1>2, <1>3, <1>4, <1>5, <1>6, <1>7, <1>8 DEF SearchNext

\* What a search has found fits the graph as it is, but for what was written since.
THEOREM SearchInvariant == SearchSpec => []SearchInv
<1>1. SearchInit => SearchInv
  BY InitSearch
<1>2. SearchInv /\ [SearchNext]_searchVars => SearchInv'
  BY NextKeepsSearch
<1> QED
  BY <1>1, <1>2, PTL DEF SearchSpec

-----------------------------------------------------------------------------
(* What is shown *)

\* A result tells what the properties say of it.
Tells(r) ==
    /\ Hides(r)
    /\ ~r.o.archived => \A i \in DOMAIN r.hits : OutOfSight(r.hits[i].display) => r.hits[i].display \in r.written
    /\ \A i \in 1 .. r.selected :
          \/ r.hits[i].display \in r.nodes \cup r.written
          \/ Label[r.hits[i].display] \in HistoryLabels /\ ~r.o.history
    /\ \A i, j \in DOMAIN r.hits :
          LET d == r.hits[i].display
              e == r.hits[j].display
          IN  i < j => /\ r.hits[i].score >= r.hits[j].score
                       /\ d # e
                       /\ {d, e} \cap r.written = {} => Canonical(d) = None \/ Canonical(d) # Canonical(e)

ShownInv == shown # None => Tells(shown)

LEMMA TellsWhatIsShown ==
    ShownInv <=> ViewsHideHidden /\ HitsInSight /\ OneHitPerMemory
<1> DEFINE InGraph == \A i \in 1 .. shown.selected :
                        \/ shown.hits[i].display \in shown.nodes \cup shown.written
                        \/ Label[shown.hits[i].display] \in HistoryLabels /\ ~shown.o.history
           Sighted == ~shown.o.archived => \A i \in DOMAIN shown.hits :
                         OutOfSight(shown.hits[i].display) => shown.hits[i].display \in shown.written
           Once == \A i, j \in DOMAIN shown.hits :
                      LET d == shown.hits[i].display
                          e == shown.hits[j].display
                      IN  i < j => /\ shown.hits[i].score >= shown.hits[j].score
                                   /\ d # e
                                   /\ {d, e} \cap shown.written = {} => Canonical(d) = None \/ Canonical(d) # Canonical(e)
<1>1. HitsAreInGraph <=> (shown # None => InGraph)
  BY DEF HitsAreInGraph
<1>2. DisplayedInSight <=> (shown # None => Sighted)
  BY DEF DisplayedInSight
<1>3. OneHitPerMemory <=> (shown # None => Once)
  BY DEF OneHitPerMemory
<1>4. Tells(shown) <=> Hides(shown) /\ Sighted /\ InGraph /\ Once
  BY DEF Tells
<1> HIDE DEF InGraph, Sighted, Once
<1> QED
  BY <1>1, <1>2, <1>3, <1>4, HidesWhatIsHidden DEF ShownInv, HitsInSight

\* Hits that fit their search are in sight, and of one memory each.
LEMMA FittingHits ==
    ASSUME NEW s, SearchFits(s), s.step # "hydrate"
    PROVE  /\ ~s.o.archived => \A i \in DOMAIN s.hits : OutOfSight(s.hits[i].display) => s.hits[i].display \in s.written
           /\ \A i, j \in DOMAIN s.hits :
                 LET d == s.hits[i].display
                     e == s.hits[j].display
                 IN  i < j => /\ s.hits[i].score >= s.hits[j].score
                              /\ d # e
                              /\ {d, e} \cap s.written = {} => Canonical(d) = None \/ Canonical(d) # Canonical(e)
<1>1. ~s.o.archived => \A i \in DOMAIN s.hits : OutOfSight(s.hits[i].display) => s.hits[i].display \in s.written
  BY DEF SearchFits, Fits
<1>2. \A i \in DOMAIN s.hits : s.hits[i].display \in Nodes
  <2>1. s.hits \in Seq(Hits)
    BY DEF SearchFits, Searches
  <2>2. \A i \in DOMAIN s.hits : s.hits[i] \in Hits
    BY <2>1
  <2> QED
    BY <2>2 DEF Hits
<1>3. ASSUME NEW i \in DOMAIN s.hits, s.hits[i].display \notin s.written
      PROVE  Canonical(s.hits[i].display) \in {None, s.hits[i].display}
  <2>1. Fits(s.hits[i].display, s.o)
    BY <1>3 DEF SearchFits
  <2> QED
    BY <1>2, <2>1, CanonicalIsLast DEF Fits
<1>4. ASSUME NEW i \in DOMAIN s.hits, NEW j \in DOMAIN s.hits, i < j
      PROVE  LET d == s.hits[i].display
                 e == s.hits[j].display
             IN  /\ s.hits[i].score >= s.hits[j].score
                 /\ d # e
                 /\ {d, e} \cap s.written = {} => Canonical(d) = None \/ Canonical(d) # Canonical(e)
  <2> DEFINE d == s.hits[i].display
             e == s.hits[j].display
  <2>1. s.hits[i].score >= s.hits[j].score /\ d # e
    BY <1>4 DEF SearchFits, Ranked
  <2>2. d \notin s.written => Canonical(d) \in {None, d}
    BY <1>3
  <2>3. e \notin s.written => Canonical(e) \in {None, e}
    BY <1>3
  <2> HIDE DEF d, e
  <2>4. {d, e} \cap s.written = {} => Canonical(d) = None \/ Canonical(d) # Canonical(e)
    BY <1>2, <2>1, <2>2, <2>3, SearchAssumption DEF d, e
  <2> QED
    BY <2>1, <2>4 DEF d, e
<1> QED
  BY <1>1, <1>4

LEMMA BrowseTells ==
    ASSUME SearchTypeOK, Browse
    PROVE  Tells(shown')
<1>1. Hides(shown')
  BY BrowseHides
<1>2. shown'.hits = <<>> /\ shown'.selected = 0
  BY DEF Browse, Result
<1> QED
  BY <1>1, <1>2 DEF Tells

\* The hits that were selected are drawn.
LEMMA SelectedAreDrawn ==
    ASSUME SearchTypeOK, NEW s, SearchFits(s), NEW k \in Selections(s.hits, s.o), NEW i \in 1 .. k
    PROVE  \/ s.hits[i].display \in Drawn(s, k).nodes \cup s.written
           \/ Label[s.hits[i].display] \in HistoryLabels /\ ~s.o.history
<1> DEFINE selected == {s.hits[a] : a \in 1 .. k}
           displays == {h.display : h \in selected}
           seeds    == displays \cup IF s.o.broad THEN UNION {h.related : h \in selected} ELSE {}
           d == s.hits[i].display
           drawn == Expanded(seeds, displays, s.o)
<1>1. SUFFICES ASSUME d \notin s.written, Label[d] \notin HistoryLabels \/ s.o.history
               PROVE  d \in Drawn(s, k).nodes
  OBVIOUS
<1>2. s \in Searches
  BY DEF SearchFits
<1>3. i \in DOMAIN s.hits /\ s.hits \in Seq(Hits)
  BY <1>2, DrawnHides DEF Searches
<1>4. d \in Nodes /\ Fits(d, s.o)
  <2>1. s.hits[i] \in Hits
    BY <1>3
  <2> QED
    BY <1>1, <1>3, <2>1 DEF SearchFits, Hits
<1>5. s.o.archived \/ ~Hidden(d)
  BY <1>4 DEF Fits, OutOfSight, Hidden
<1>6. d \in displays /\ d \in seeds
  OBVIOUS
<1>7. Drawn(s, k) = View(drawn, s.o)
  BY DEF Drawn
<1> HIDE DEF seeds, displays, d
<1>8. d \in drawn.nodes
  <2> DEFINE keeps(n) == (Label[n] \notin NonDisplay \/ n \in displays) /\ (s.o.archived \/ ~Hidden(n))
             parts == {[part |-> Neighborhood(x, 1), seed |-> x] : x \in seeds}
             found == UNION {p.part.nodes \cup SeedItself(p.seed, p.part) : p \in parts}
  <2>1. drawn.nodes = {n \in found : keeps(n)}
    BY DEF Expanded
  <2>2. d \in found
    <3> DEFINE p == [part |-> Neighborhood(d, 1), seed |-> d]
    <3>1. p \in parts
      BY <1>6
    <3>2. d \in p.part.nodes \cup SeedItself(p.seed, p.part)
      BY DEF SeedItself
    <3> HIDE DEF parts, p
    <3> QED
      BY <3>1, <3>2
  <2>3. keeps(d)
    BY <1>5, <1>6
  <2> HIDE DEF found, keeps
  <2> QED
    BY <2>1, <2>2, <2>3
<1> HIDE DEF drawn
<1> QED
  BY <1>1, <1>5, <1>7, <1>8 DEF View, Visible

LEMMA AssembleTells ==
    ASSUME SearchInv, Assemble
    PROVE  Tells(shown')
<1>1. SearchTypeOK /\ SearchFits(search) /\ search.step = "assemble"
  BY InvOfSearch DEF SearchInv, Assemble
<1> DEFINE s == search
<1>2. PICK k \in Selections(s.hits, s.o) :
         shown' = [Result("search", s.o, Drawn(s, k)) EXCEPT !.hits = s.hits, !.selected = k, !.written = s.written]
  BY Zenon DEF Assemble, Drawn
<1>3. s \in Searches
  BY <1>1 DEF SearchFits
<1> HIDE DEF s
<1>4. /\ shown'.kind = "search" /\ shown'.o = s.o /\ shown'.nodes = Drawn(s, k).nodes
      /\ shown'.edges = Drawn(s, k).edges /\ shown'.hits = s.hits /\ shown'.selected = k /\ shown'.written = s.written
  BY <1>2 DEF Result
<1>5. Hides(shown')
  BY <1>1, <1>3, <1>4, DrawnHides DEF Hides
<1>6. \A i \in 1 .. k :
         \/ s.hits[i].display \in Drawn(s, k).nodes \cup s.written
         \/ Label[s.hits[i].display] \in HistoryLabels /\ ~s.o.history
  BY <1>1, SelectedAreDrawn DEF s
<1> QED
  BY <1>1, <1>4, <1>5, <1>6, FittingHits DEF Tells, s

LEMMA PackTells ==
    ASSUME SearchInv, Pack
    PROVE  Tells(shown')
<1>1. SearchFits(search) /\ search.step = "pack"
  BY InvOfSearch DEF Pack
<1>2. /\ shown'.kind = "search" /\ shown'.o = search.o /\ shown'.nodes = {} /\ shown'.edges = {}
      /\ shown'.hits = search.hits /\ shown'.selected = 0 /\ shown'.written = search.written
  BY DEF Pack, Result, Nodeset
<1>3. Hides(shown')
  BY <1>2 DEF Hides, Shows
<1> QED
  BY <1>1, <1>2, <1>3, FittingHits DEF Tells

LEMMA SameGraphTells ==
    ASSUME UNCHANGED graph, NEW r, Tells(r)
    PROVE  Tells(r)'
<1>1. /\ \A n : Canonical(n)' = Canonical(n)
      /\ \A x : OutOfSight(x)' <=> OutOfSight(x)
      /\ life' = life
  BY SameGraphFits DEF graph
<1>2. Hides(r)'
  BY <1>1 DEF Tells, Hides, Shows
<1> QED
  BY <1>1, <1>2 DEF Tells

LEMMA NextKeepsShown ==
    ASSUME SearchInv, ShownInv, [SearchNext]_searchVars
    PROVE  ShownInv'
<1>1. ASSUME UNCHANGED graph, shown' # None => Tells(shown')
      PROVE  ShownInv'
  <2>1. PICK r : r = shown'
    OBVIOUS
  <2>2. r # None => Tells(r)'
    BY <1>1, <2>1, SameGraphTells
  <2> QED
    BY <2>1, <2>2 DEF ShownInv
<1>2. ASSUME shown' = None
      PROVE  ShownInv'
  BY <1>2 DEF ShownInv
<1>3. ASSUME UNCHANGED <<graph, shown>>
      PROVE  ShownInv'
  BY <1>1, <1>3 DEF ShownInv
<1>4. SearchTypeOK
  BY DEF SearchInv
<1>5. CASE Write
  <2>1. shown' = None
    BY <1>5 DEF Write, Transition, TransitionEdge, Connect, HideMerged, Vectorize, Writes
  <2> QED
    BY <1>2, <2>1
<1>6. CASE Browse
  <2>1. UNCHANGED graph
    BY <1>6 DEF Browse
  <2> QED
    BY <1>1, <1>4, <1>6, <2>1, BrowseTells
<1>7. CASE \E o, raw, cut, matching, targets : Begin(o, raw, cut, matching, targets)
  <2>1. shown' = None
    BY <1>7 DEF Begin
  <2> QED
    BY <1>2, <2>1
<1>8. CASE Hydrate \/ Match \/ UNCHANGED searchVars
  BY <1>3, <1>8 DEF Hydrate, Match, searchVars
<1>9. CASE Assemble
  <2>1. UNCHANGED graph
    BY <1>9 DEF Assemble
  <2> QED
    BY <1>1, <1>9, <2>1, AssembleTells
<1>10. CASE Pack
  <2>1. UNCHANGED graph
    BY <1>10 DEF Pack
  <2> QED
    BY <1>1, <1>10, <2>1, PackTells
<1> QED
  BY <1>5, <1>6, <1>7, <1>8, <1>9, <1>10 DEF SearchNext

LEMMA ShownAlways == SearchSpec => []ShownInv
<1>1. SearchInit => ShownInv
  BY DEF SearchInit, ShownInv
<1>2. SearchInv /\ ShownInv /\ [SearchNext]_searchVars => ShownInv'
  BY NextKeepsShown
<1> QED
  BY <1>1, <1>2, SearchInvariant, PTL DEF SearchSpec

\* A view or a search that was not asked for what is archived shows nothing that
\* is out of sight, and no relationship without its ends.
THEOREM ViewsHideHiddenHolds == SearchSpec => []ViewsHideHidden
<1>1. ShownInv => ViewsHideHidden
  BY TellsWhatIsShown
<1> QED
  BY <1>1, ShownAlways, PTL

\* The hits of a search are displayed as nodes that are in sight, and those that
\* were selected are drawn, unless they were written meanwhile.
THEOREM HitsInSightHolds == SearchSpec => []HitsInSight
<1>1. ShownInv => HitsInSight
  BY TellsWhatIsShown
<1> QED
  BY <1>1, ShownAlways, PTL

\* A search returns a memory once, the best hits first, whatever was merged.
THEOREM OneHitPerMemoryHolds == SearchSpec => []OneHitPerMemory
<1>1. ShownInv => OneHitPerMemory
  BY TellsWhatIsShown
<1> QED
  BY <1>1, ShownAlways, PTL
=============================================================================
