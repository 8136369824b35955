------------------------ MODULE InteractiveProtocol ------------------------
(***************************************************************************)
(* The vocabulary every backend shares: session states, the configuration  *)
(* a session is opened with, the chunks that flow in and the frames that   *)
(* flow out.  Payload bytes are abstracted to what the guards read of      *)
(* them: whether an audio payload has exactly the length of one chunk.     *)
(***************************************************************************)
EXTENDS Integers, Sequences

CONSTANT None       \* Python's None, for an optional control revision

ASSUME NoneAssumption == None \notin Int

SessionState == {"created", "active", "closed", "failed"}

AudioChunkMs == 20
VideoFrameMs == 40

\* "baseline" stands for the five fields that must have their default value.
SessionConfig == [baseline : BOOLEAN, max_output_chunks : Int]

\* Mutant: zero is let through, which an asyncio.Queue reads as "unbounded".
Validates_AllowsZero(config) == config.baseline /\ config.max_output_chunks >= 0

Validates(config) == config.baseline /\ config.max_output_chunks > 0

\* "whole" says that the payload has bytes_per_audio_chunk bytes.
AudioChunk == [sequence : Int, pts_ms : Int, whole : BOOLEAN,
               end_of_stream : BOOLEAN]

VideoChunk == [sequence : Nat, pts_ms : Int, epoch : Nat,
               control_revision : Int \cup {None}]

\* The checks that every backend's push_audio makes before it takes a chunk.
AcceptsChunk(chunk, expected) ==
    /\ chunk.sequence = expected
    /\ chunk.pts_ms = chunk.sequence * AudioChunkMs
    /\ chunk.whole

\* Mutant: only a repeated revision is refused.
RaisesRevision_OnlyNew(revision, current) ==
    current # None => revision # current

\* A control revision may only go up; None is below every revision.
RaisesRevision(revision, current) ==
    current # None => revision > current
=============================================================================
