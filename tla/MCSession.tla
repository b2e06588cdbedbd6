----------------------------- MODULE MCSession ------------------------------
(* LLMSession for TLC: results of one or three tokens in a window of six,    *)
(* and a model of either kind.                                               *)
EXTENDS LLMSession

MCModels == {[temperature |-> TRUE, tokens |-> "max_tokens"],
             [temperature |-> FALSE, tokens |-> "max_completion_tokens"]}
=============================================================================
