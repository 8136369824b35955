-------------------------- MODULE MCHeadlessRunner --------------------------
(***************************************************************************)
(* A small instance of HeadlessRunner.  A slice has two frames, 80 ms; the *)
(* durations lie on and off the grids of chunks, frames and slices, so     *)
(* that the last slice of a phase is padded in most cases and the worker   *)
(* may still generate when the phase ends.                                 *)
(***************************************************************************)
EXTENDS HeadlessRunner

MCConfigs == {[baseline |-> TRUE, max_output_chunks |-> 8]}
MCChunks == {Produced(i, last) : i \in 0..6, last \in BOOLEAN}
=============================================================================
