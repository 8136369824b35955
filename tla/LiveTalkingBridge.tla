------------------------- MODULE LiveTalkingBridge -------------------------
(***************************************************************************)
(* backends/livetalking.py: the bridge from the session contract to a      *)
(* LiveTalking-like runtime.  The runtime is outside the repository; it is *)
(* modelled as the bridge's tests stand in for it: audio and video queues, *)
(* frames made of pairs of chunks, and a pull that awaits Queue.get(), in  *)
(* asyncio.wait_for when there is a timeout.  With a timeout the frame     *)
(* leaves the queue in one step (PullTake) and the bridge stamps it in a   *)
(* later one (PullDeliver), in the order in which frames were taken.       *)
(* The runtime's frames have the configured duration, so that the bridge's *)
(* check of it passes; what a text makes the runtime say is not modelled.  *)
(***************************************************************************)
EXTENDS InteractiveProtocol

CONSTANTS
    Chunks,         \* the audio chunks a client may push, right or wrong
    Controls,       \* the control updates a client may send
    Pullers,        \* the concurrent calls of pull_video_chunk
    Modes,          \* with or without a timeout
    MaxEpoch        \* bound: the number of resets explored

ControlUpdate == [kind : {"text", "custom_state", "other"}, usable : BOOLEAN,
                  revision : Int]

ASSUME ChunksAssumption == Chunks \subseteq AudioChunk
ASSUME ControlsAssumption == Controls \subseteq ControlUpdate
ASSUME ModesAssumption == Modes \subseteq {"timed", "untimed"}
ASSUME MaxEpochAssumption == MaxEpoch \in Nat

VARIABLES
    state, epoch, nextAudioSequence, nextVideoSequence, controlRevision,
    audio, video,   \* in the runtime
    taken,          \* frames taken by timed pulls that have not resumed yet
    pull,           \* what each puller is doing
    calledAt,       \* history: the next sequence when a puller made its call
    delivered       \* history: the frames returned, in order, with their origin
                    \* and whether the pull had a timeout

counters == <<epoch, nextAudioSequence, nextVideoSequence, controlRevision>>
runtime  == <<audio, video>>
pulls    == <<taken, pull, calledAt, delivered>>
vars     == <<state, counters, runtime, pulls>>

\* "origin" is the epoch the bridge attached to the audio.
Sample == [sequence : Nat, pts_ms : Int, epoch : Nat]
LegacyVideoFrame == [pts_ms : Int, origin : Nat]
Delivered == [sequence : Nat, pts_ms : Int, epoch : Nat, control_revision : Int \cup {None},
              origin : Nat, timed : BOOLEAN]

Init ==
    /\ state = "created"
    /\ epoch = 0
    /\ nextAudioSequence = 0
    /\ nextVideoSequence = 0
    /\ controlRevision = None
    /\ audio = <<>>
    /\ video = <<>>
    /\ taken = <<>>
    /\ pull = [p \in Pullers |-> "idle"]
    /\ calledAt = [p \in Pullers |-> 0]
    /\ delivered = <<>>

RequireActive == state = "active"

\* A configuration that is refused, or a factory that raises, opens nothing.
Start ==
    /\ state = "created"
    /\ state' = "active"
    /\ UNCHANGED <<counters, runtime, pulls>>

PushAudio(chunk) ==
    /\ RequireActive
    /\ AcceptsChunk(chunk, nextAudioSequence)
    /\ audio' = Append(audio, [sequence |-> chunk.sequence, pts_ms |-> chunk.pts_ms,
                               epoch |-> epoch])
    /\ nextAudioSequence' = nextAudioSequence + 1
    /\ UNCHANGED <<state, epoch, nextVideoSequence, controlRevision, video, pulls>>

\* An unknown kind, or a payload the kind cannot use, is refused.
UpdateControl(update) ==
    /\ RequireActive
    /\ RaisesRevision(update.revision, controlRevision)
    /\ update.kind \in {"text", "custom_state"}
    /\ update.usable
    /\ controlRevision' = update.revision
    /\ UNCHANGED <<state, epoch, nextAudioSequence, nextVideoSequence, runtime, pulls>>

\* The runtime turns two chunks into a frame.
Produce ==
    /\ Len(audio) >= 2
    /\ video' = Append(video, [pts_ms |-> audio[1].pts_ms, origin |-> audio[1].epoch])
    /\ audio' = SubSeq(audio, 3, Len(audio))
    /\ UNCHANGED <<state, counters, pulls>>

-----------------------------------------------------------------------------
PullStart(p, mode) ==
    /\ RequireActive
    /\ pull[p] = "idle"
    /\ pull' = [pull EXCEPT ![p] = mode]
    /\ calledAt' = [calledAt EXCEPT ![p] = nextVideoSequence]
    /\ UNCHANGED <<state, counters, runtime, taken, delivered>>

\* Mutant: the number is read before the frame is awaited.
SequenceFor_AtCall(p) == calledAt[p]

SequenceFor(p) == nextVideoSequence

\* What the bridge makes of a frame, with the counters it has when it resumes.
Stamp(p, frame) ==
    /\ delivered' = Append(delivered,
            [sequence |-> SequenceFor(p), pts_ms |-> frame.pts_ms, epoch |-> epoch,
             control_revision |-> controlRevision, origin |-> frame.origin,
             timed |-> pull[p] = "holding"])
    /\ nextVideoSequence' = nextVideoSequence + 1
    /\ pull' = [pull EXCEPT ![p] = "idle"]
    /\ UNCHANGED <<state, epoch, nextAudioSequence, controlRevision, audio, calledAt>>

PullUntimed(p) ==
    /\ pull[p] = "untimed"
    /\ video # <<>>
    /\ video' = Tail(video)
    /\ Stamp(p, Head(video))
    /\ UNCHANGED taken

PullTake(p) ==
    /\ pull[p] = "timed"
    /\ video # <<>>
    /\ taken' = Append(taken, [puller |-> p, frame |-> Head(video)])
    /\ video' = Tail(video)
    /\ pull' = [pull EXCEPT ![p] = "holding"]
    /\ UNCHANGED <<state, counters, audio, calledAt, delivered>>

PullDeliver(p) ==
    /\ taken # <<>>
    /\ Head(taken).puller = p
    /\ taken' = Tail(taken)
    /\ Stamp(p, Head(taken).frame)
    /\ UNCHANGED video

PullTimeout(p) ==
    /\ pull[p] = "timed"
    /\ pull' = [pull EXCEPT ![p] = "idle"]
    /\ UNCHANGED <<state, counters, runtime, taken, calledAt, delivered>>

-----------------------------------------------------------------------------
FlushTalk == audio' = <<>>

\* Mutant: the frames queued before a reset survive it.
DrainVideo_Skipped == UNCHANGED video

DrainVideo == video' = <<>>

\* Mutant: the next number is counted up before it is used.
RestartNumbering_OneTooLow ==
    /\ nextAudioSequence' = 0
    /\ nextVideoSequence' = -1
    /\ controlRevision' = None

\* Mutant: the audio goes on with the old epoch's numbers.
RestartNumbering_KeepsAudio ==
    /\ UNCHANGED nextAudioSequence
    /\ nextVideoSequence' = 0
    /\ controlRevision' = None

RestartNumbering ==
    /\ nextAudioSequence' = 0
    /\ nextVideoSequence' = 0
    /\ controlRevision' = None

Reset ==
    /\ RequireActive
    /\ epoch < MaxEpoch
    /\ FlushTalk
    /\ DrainVideo
    /\ epoch' = epoch + 1
    /\ RestartNumbering
    /\ UNCHANGED <<state, pulls>>

\* Before start there is no runtime to flush.
Close ==
    /\ state # "closed"
    /\ FlushTalk
    /\ DrainVideo
    /\ state' = "closed"
    /\ UNCHANGED <<counters, pulls>>

Next ==
    \/ Start
    \/ \E chunk \in Chunks : PushAudio(chunk)
    \/ \E update \in Controls : UpdateControl(update)
    \/ Produce
    \/ \E p \in Pullers, mode \in Modes : PullStart(p, mode)
    \/ \E p \in Pullers : PullUntimed(p)
    \/ \E p \in Pullers : PullTake(p)
    \/ \E p \in Pullers : PullDeliver(p)
    \/ \E p \in Pullers : PullTimeout(p)
    \/ Reset
    \/ Close

Spec == Init /\ [][Next]_vars

-----------------------------------------------------------------------------
\* Every variable keeps its type, and the taken frames are those of the pulls
\* that hold one.
TypeOK ==
    /\ state \in SessionState
    /\ epoch \in 0..MaxEpoch
    /\ nextAudioSequence \in Nat /\ nextVideoSequence \in Nat
    /\ controlRevision \in Int \cup {None}
    /\ audio \in Seq(Sample)
    /\ video \in Seq(LegacyVideoFrame)
    /\ taken \in Seq([puller : Pullers, frame : LegacyVideoFrame])
    /\ pull \in [Pullers -> Modes \cup {"idle", "holding"}]
    /\ {taken[i].puller : i \in DOMAIN taken} = {p \in Pullers : pull[p] = "holding"}
    /\ calledAt \in [Pullers -> Nat]
    /\ delivered \in Seq(Delivered)

Deliveries(e) == {i \in DOMAIN delivered : delivered[i].epoch = e}

\* Within an epoch the frames a session returns are numbered 0, 1, 2, ... in the
\* order in which they are returned, to whichever of the concurrent pulls, and
\* across resets: no number is used twice or left out (livetalking.py:127-136).
NumberedInOrder ==
    /\ \A i, j \in DOMAIN delivered : i < j => delivered[i].epoch <= delivered[j].epoch
    /\ \A i \in DOMAIN delivered :
        delivered[i].sequence =
            IF i > 1 /\ delivered[i - 1].epoch = delivered[i].epoch
            THEN delivered[i - 1].sequence + 1 ELSE 0

RevisionBelow(a, b) == a = None \/ (b # None /\ a <= b)

\* Within an epoch a later frame never carries an older control revision than
\* an earlier one, in whatever order updates and pulls arrive
\* (livetalking.py:101-115, 127-134).
RevisionsFollowFrames ==
    \A e \in 0..MaxEpoch : \A i, j \in Deliveries(e) :
        i < j => RevisionBelow(delivered[i].control_revision,
                               delivered[j].control_revision)

\* A frame is delivered in the epoch of the audio it was made of: reset leaves
\* nothing behind.  It is refuted for pulls with a timeout, which a reset can
\* overtake between the frame's arrival and its stamp (livetalking.py:117-145).
EpochFidelity == \A i \in DOMAIN delivered : delivered[i].origin = delivered[i].epoch

\* For pulls without a timeout it holds, also when others with a timeout run
\* beside them (livetalking.py:117-145).
UntimedFidelity ==
    \A i \in DOMAIN delivered :
        delivered[i].origin = delivered[i].epoch \/ delivered[i].timed

WhileOpen(n) == IF state = "closed" THEN 0 ELSE n

\* A call that has taken a frame will return it under one of the next numbers.
Contract == INSTANCE SessionContract WITH
    clock    <- WhileOpen(nextAudioSequence * AudioChunkMs),
    next     <- WhileOpen(nextVideoSequence + Len(taken)),
    inFlight <- {[epoch |-> epoch, sequence |-> n] :
                    n \in nextVideoSequence..(nextVideoSequence + Len(taken) - 1)},
    returned <- {[epoch |-> delivered[i].epoch, sequence |-> delivered[i].sequence] :
                    i \in DOMAIN delivered}

\* No reset has come between a timed pull's frame and its stamp.
NoneOvertaken ==
    /\ \A i \in DOMAIN taken : taken[i].frame.origin = epoch
    /\ \A i \in DOMAIN delivered :
        delivered[i].timed => delivered[i].origin = delivered[i].epoch

\* Until a reset overtakes a frame that a timed pull has taken, the bridge
\* behaves as the contract of a backend allows, whichever pulls of both kinds
\* run side by side and also when a pull returns after close: that race is the
\* only way in which it leaves the contract (livetalking.py:73-154,
\* protocol.py:103-123).
KeepsContract ==
    /\ Contract!Init
    /\ [][NoneOvertaken' => Contract!Next \/ UNCHANGED Contract!vars]_vars
=============================================================================
