---------------------------- MODULE MCFlashHead ----------------------------
(***************************************************************************)
(* A small instance of FlashHead.  The layout gives slices of two frames,  *)
(* hence four audio chunks to a generation; a session pushes up to         *)
(* MaxSequence + 1 of them per epoch and may end the stream at any of the  *)
(* positions in EndsAt.                                                    *)
(***************************************************************************)
EXTENDS FlashHead

CONSTANTS MaxSequence, EndsAt

MCChunks ==
    [sequence : 0..MaxSequence, pts_ms : {AudioChunkMs * s : s \in 0..MaxSequence},
     whole : {TRUE}, end_of_stream : {FALSE}]
    \cup {[sequence |-> s, pts_ms |-> AudioChunkMs * s, whole |-> TRUE,
           end_of_stream |-> TRUE] : s \in EndsAt}

MCConfigs == {[baseline |-> TRUE, max_output_chunks |-> 3]}
=============================================================================
