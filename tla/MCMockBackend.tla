--------------------------- MODULE MCMockBackend ---------------------------
(***************************************************************************)
(* A small instance of MockBackend: up to MaxSequence + 1 audio chunks per *)
(* epoch, sent with the right time stamp, with a wrong one or truncated,   *)
(* and output queues of up to two frames.                                  *)
(***************************************************************************)
EXTENDS MockBackend

CONSTANT MaxSequence

MCChunks ==
    {[sequence |-> s, pts_ms |-> AudioChunkMs * s, whole |-> TRUE,
      end_of_stream |-> FALSE] : s \in 0..MaxSequence}
    \cup {[sequence |-> 1, pts_ms |-> 0, whole |-> TRUE, end_of_stream |-> FALSE],
          [sequence |-> 0, pts_ms |-> 0, whole |-> FALSE, end_of_stream |-> FALSE]}

MCConfigs ==
    {[baseline |-> b, max_output_chunks |-> n] : b \in BOOLEAN, n \in 0..2}
=============================================================================
