---------------------------- MODULE MCCandidates ----------------------------
\* Two nodes of one name, one of them with a memory log and a relationship to the
\* owner; plans of up to three entities.
EXTENDS CandidatePreparation

CONSTANTS anna, bob, diary, me, cand1, cand2, cand3, cand4

MCLinks == <<[id |-> "cared_for_by", from |-> anna, to |-> me],
             [id |-> "has_memory_log", from |-> anna, to |-> diary],
             [id |-> "involves", from |-> diary, to |-> bob]>>
MCHostOf   == (diary :> anna)
MCMatching == (cand1 :> <<bob, anna>>) @@ (cand2 :> <<me, anna>>) @@ (cand3 :> <<>>) @@ (cand4 :> <<bob>>)
MCPlans    == {<<>>, <<cand1, cand2, cand3>>, <<cand2, cand4>>, <<cand1, OWNER>>}
=============================================================================
