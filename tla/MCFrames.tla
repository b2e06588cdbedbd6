------------------------------- MODULE MCFrames -------------------------------
(* AgenticFrames for TLC.                                                    *)
EXTENDS AgenticFrames

=============================================================================
