------------------------ MODULE ClarificationLifecycle ------------------------
(***************************************************************************)
(* What the chat promises about clarification packets, with no word about  *)
(* sessions, frames or requests: a packet is asked once, collects answers  *)
(* to its questions while it is open, loses none of them, and is closed    *)
(* once, when every question has been answered.  Closing it hands exactly  *)
(* one result to the agent that asked, which may ask again.                *)
(***************************************************************************)
CONSTANTS Packets, Questions

VARIABLES
    phase,      \* of each packet
    answered    \* the questions of each packet that have an answer

vars == <<phase, answered>>

Init ==
    /\ phase = [p \in Packets |-> "unasked"]
    /\ answered = [p \in Packets |-> {}]

Ask(p) ==
    /\ phase[p] = "unasked"
    /\ phase' = [phase EXCEPT ![p] = "open"]
    /\ UNCHANGED answered

Answer(p, questions) ==
    /\ phase[p] = "open"
    /\ answered' = [answered EXCEPT ![p] = @ \cup questions]
    /\ UNCHANGED phase

Close(p) ==
    /\ phase[p] = "open"
    /\ answered[p] = Questions
    /\ phase' = [phase EXCEPT ![p] = "closed"]
    /\ UNCHANGED answered

AskAgain(p, q) ==
    /\ phase[p] = "open"
    /\ answered[p] = Questions
    /\ phase[q] = "unasked"
    /\ phase' = [phase EXCEPT ![p] = "closed", ![q] = "open"]
    /\ UNCHANGED answered

Next == \E p \in Packets :
    \/ Ask(p) \/ Close(p)
    \/ \E questions \in SUBSET Questions : Answer(p, questions)
    \/ \E q \in Packets : AskAgain(p, q)

Spec == Init /\ [][Next]_vars

=============================================================================
