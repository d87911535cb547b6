--------------------------- MODULE MCReplaySession ---------------------------
(* ReplaySession with epochs of five slots, two of them since the genesis. *)
EXTENDS ReplaySession

ElevenLater == [s \in Targets \cup {Landed, Today} |-> s + 11]
BackAndForth == {-7, 4}
=============================================================================
