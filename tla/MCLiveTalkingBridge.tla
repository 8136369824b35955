------------------------ MODULE MCLiveTalkingBridge ------------------------
(***************************************************************************)
(* Small instances of LiveTalkingBridge: chunks for two frames and two     *)
(* wrong ones, updates that are taken and that are refused, two pulls.     *)
(***************************************************************************)
EXTENDS LiveTalkingBridge, TLC

MCChunk(n) == [sequence |-> n, pts_ms |-> n * AudioChunkMs, whole |-> TRUE,
               end_of_stream |-> FALSE]

MCChunks == {MCChunk(n) : n \in 0..3}
                \cup {[MCChunk(1) EXCEPT !.pts_ms = 0], [MCChunk(2) EXCEPT !.whole = FALSE]}

MCControl(k, u, r) == [kind |-> k, usable |-> u, revision |-> r]

MCControls == {MCControl("text", TRUE, 1), MCControl("custom_state", TRUE, 2),
               MCControl("text", FALSE, 3), MCControl("other", TRUE, 3)}

MCPullerSymmetry == Permutations(Pullers)
=============================================================================
