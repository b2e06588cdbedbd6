---------------------------- MODULE MCChatStores -----------------------------
(* ChatStores for TLC: kinds of messages that a turn appends.                 *)
EXTENDS ChatStores, TLC

MCKinds == {[user |-> TRUE,  blank |-> FALSE, hidden |-> FALSE],
            [user |-> TRUE,  blank |-> TRUE,  hidden |-> FALSE],
            [user |-> FALSE, blank |-> FALSE, hidden |-> FALSE],
            [user |-> FALSE, blank |-> FALSE, hidden |-> TRUE]}
MCSymmetry == Permutations(Sessions) \cup Permutations(Frames) \cup Permutations(Keys)
=============================================================================
