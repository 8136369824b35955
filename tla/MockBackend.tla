---------------------------- MODULE MockBackend ----------------------------
(***************************************************************************)
(* backends/mock.py: the CPU-only backend that validates the service       *)
(* contract.  It pairs audio chunks into video frames, keeps the frames in *)
(* a bounded asyncio.Queue and hands them to pulls.                        *)
(*                                                                         *)
(* Calls run on one event loop, so a method without a suspension point is  *)
(* one action.  pull_video_chunk suspends.  Without a timeout it awaits    *)
(* Queue.get() itself and returns in the step that takes the frame.  With  *)
(* a timeout it awaits asyncio.wait_for, which on Python 3.10 runs get()   *)
(* in a task of its own: the frame leaves the queue in one step            *)
(* (PullTake), the caller resumes in a later one (PullDeliver), and any    *)
(* other call can run in between.  A timeout of zero cancels that task     *)
(* before its first step, so such a pull ("poll") never takes a frame.     *)
(*                                                                         *)
(* A call that raises changes nothing, so it is no step of the model.      *)
(***************************************************************************)
EXTENDS InteractiveProtocol

CONSTANTS
    Configs,        \* the configurations a client may open the session with
    Chunks,         \* the audio chunks a client may push, right or wrong
    Revisions,      \* the control revisions a client may send
    Pullers,        \* the concurrent calls of pull_video_chunk
    MaxEpoch        \* bound: the number of resets explored

ASSUME ConfigsAssumption == Configs \subseteq SessionConfig
ASSUME ChunksAssumption == Chunks \subseteq AudioChunk
ASSUME RevisionsAssumption == Revisions \subseteq Int
ASSUME MaxEpochAssumption == MaxEpoch \in Nat

VARIABLES
    state, config, audio, video, epoch,
    nextAudioSequence, nextVideoSequence, controlRevision,
    pull,           \* what each puller is doing
    held,           \* the frame a puller took and has not returned yet
    since,          \* history: the epoch in which a puller made its call
    delivered       \* history: the frames returned to callers

session == <<state, config>>
input   == <<audio, nextAudioSequence>>
output  == <<video, nextVideoSequence>>
pulls   == <<pull, held, since, delivered>>
vars    == <<session, input, output, epoch, controlRevision, pulls>>

NoFrame == [sequence |-> 0, pts_ms |-> 0, epoch |-> 0, control_revision |-> None]
NoConfig == [baseline |-> FALSE, max_output_chunks |-> 0]

PullModes == {"untimed", "timed", "poll"}

-----------------------------------------------------------------------------
Init ==
    /\ state = "created"
    /\ config = NoConfig
    /\ audio = <<>>
    /\ video = <<>>
    /\ epoch = 0
    /\ nextAudioSequence = 0
    /\ nextVideoSequence = 0
    /\ controlRevision = None
    /\ pull = [p \in Pullers |-> "idle"]
    /\ held = [p \in Pullers |-> NoFrame]
    /\ since = [p \in Pullers |-> 0]
    /\ delivered = {}

RequireActive == state = "active"

\* asyncio.Queue.full(): a queue with a maxsize of zero or less is unbounded.
VideoFull ==
    config.max_output_chunks > 0 /\ Len(video) >= config.max_output_chunks

\* Mutant: the guard asks only whether a chunk is pending, one frame too late.
OutputBlocked_OffByOne == Len(audio) = 1 /\ Len(video) > config.max_output_chunks

\* The guard that refuses a chunk whose frame would find the queue full.
OutputBlocked == Len(audio) = 1 /\ VideoFull

\* Mutant: the frame is stamped with the number of its second chunk.
Frame_CountsAudio(first) ==
    [sequence         |-> nextVideoSequence,
     pts_ms           |-> nextAudioSequence * AudioChunkMs,
     epoch            |-> epoch,
     control_revision |-> controlRevision]

\* The frame made of a pair starts when the first chunk of the pair does.
Frame(first) ==
    [sequence         |-> nextVideoSequence,
     pts_ms           |-> first.pts_ms,
     epoch            |-> epoch,
     control_revision |-> controlRevision]

\* Mutant: a frame is made of every chunk.
Emits_Single(pair) == ~VideoFull

\* put_nowait on a full queue raises QueueFull: the chunk then stays in the
\* audio list and no frame is queued.
Emits(pair) == Len(pair) = 2 /\ ~VideoFull

\* Mutant: the frames queued before a reset survive it.
DrainVideo_Skipped == video' = video

DrainVideo == video' = <<>>

\* Mutant: the next number is counted up before it is used.
RestartNumbering_OneTooLow ==
    /\ epoch' = epoch + 1
    /\ nextAudioSequence' = 0
    /\ nextVideoSequence' = -1
    /\ controlRevision' = None

RestartNumbering ==
    /\ epoch' = epoch + 1
    /\ nextAudioSequence' = 0
    /\ nextVideoSequence' = 0
    /\ controlRevision' = None

-----------------------------------------------------------------------------
Start(c) ==
    /\ state = "created"
    /\ Validates(c)
    /\ config' = c
    /\ state' = "active"
    /\ UNCHANGED <<input, output, epoch, controlRevision, pulls>>

PushAudio(chunk) ==
    /\ RequireActive
    /\ AcceptsChunk(chunk, nextAudioSequence)
    /\ ~OutputBlocked
    /\ nextAudioSequence' = nextAudioSequence + 1
    /\ LET pair == Append(audio, chunk)
       IN  IF Emits(pair)
           THEN /\ video' = Append(video, Frame(Head(pair)))
                /\ audio' = <<>>
                /\ nextVideoSequence' = nextVideoSequence + 1
           ELSE /\ audio' = pair
                /\ UNCHANGED output
    /\ UNCHANGED <<session, epoch, controlRevision, pulls>>

\* An update with an empty kind raises, like one with an old revision.
UpdateControl(revision) ==
    /\ RequireActive
    /\ RaisesRevision(revision, controlRevision)
    /\ controlRevision' = revision
    /\ UNCHANGED <<session, input, output, epoch, pulls>>

PullStart(p, mode) ==
    /\ RequireActive
    /\ pull[p] = "idle"
    /\ pull' = [pull EXCEPT ![p] = mode]
    /\ since' = [since EXCEPT ![p] = epoch]
    /\ UNCHANGED <<session, input, output, epoch, controlRevision, held, delivered>>

\* Queue.get() without wait_for: taken and returned in one step.
PullUntimed(p) ==
    /\ pull[p] = "untimed"
    /\ video # <<>>
    /\ delivered' = delivered \cup {Head(video)}
    /\ video' = Tail(video)
    /\ pull' = [pull EXCEPT ![p] = "idle"]
    /\ UNCHANGED <<session, input, nextVideoSequence, epoch, controlRevision, held, since>>

\* The task inside wait_for takes the frame ...
PullTake(p) ==
    /\ pull[p] = "timed"
    /\ video # <<>>
    /\ held' = [held EXCEPT ![p] = Head(video)]
    /\ video' = Tail(video)
    /\ pull' = [pull EXCEPT ![p] = "holding"]
    /\ UNCHANGED <<session, input, nextVideoSequence, epoch, controlRevision, since, delivered>>

\* Mutant: a caller that resumes after a reset gives the frame up.
PullDeliver_DropsStale(p) ==
    /\ pull[p] = "holding"
    /\ delivered' = IF since[p] = epoch /\ RequireActive
                    THEN delivered \cup {held[p]} ELSE delivered
    /\ held' = [held EXCEPT ![p] = NoFrame]
    /\ pull' = [pull EXCEPT ![p] = "idle"]
    /\ UNCHANGED <<session, input, output, epoch, controlRevision, since>>

\* ... and the caller resumes with it, even if the timer has fired meanwhile.
PullDeliver(p) ==
    /\ pull[p] = "holding"
    /\ delivered' = delivered \cup {held[p]}
    /\ held' = [held EXCEPT ![p] = NoFrame]
    /\ pull' = [pull EXCEPT ![p] = "idle"]
    /\ UNCHANGED <<session, input, output, epoch, controlRevision, since>>

\* Mutant: the deadline is looked at only when no frame is queued.
PullTimeout_OnlyWhenEmpty(p) ==
    /\ pull[p] \in {"timed", "poll"}
    /\ video = <<>>
    /\ pull' = [pull EXCEPT ![p] = "idle"]
    /\ UNCHANGED <<session, input, output, epoch, controlRevision, held, since, delivered>>

\* The timer fires before the task took a frame: FrameTimeoutError.
PullTimeout(p) ==
    /\ pull[p] \in {"timed", "poll"}
    /\ pull' = [pull EXCEPT ![p] = "idle"]
    /\ UNCHANGED <<session, input, output, epoch, controlRevision, held, since, delivered>>

Reset ==
    /\ RequireActive
    /\ epoch < MaxEpoch
    /\ audio' = <<>>
    /\ DrainVideo
    /\ RestartNumbering
    /\ UNCHANGED <<session, pulls>>

Close ==
    /\ state # "closed"
    /\ audio' = <<>>
    /\ DrainVideo
    /\ state' = "closed"
    /\ UNCHANGED <<config, epoch, nextAudioSequence, nextVideoSequence, controlRevision, pulls>>

Next ==
    \/ \E c \in Configs : Start(c)
    \/ \E chunk \in Chunks : PushAudio(chunk)
    \/ \E revision \in Revisions : UpdateControl(revision)
    \/ \E p \in Pullers, mode \in PullModes : PullStart(p, mode)
    \/ \E p \in Pullers : PullUntimed(p)
    \/ \E p \in Pullers : PullTake(p)
    \/ \E p \in Pullers : PullDeliver(p)
    \/ \E p \in Pullers : PullTimeout(p)
    \/ Reset
    \/ Close

Spec == Init /\ [][Next]_vars

\* The event loop runs every ready task and fires every timer; what clients do
\* is left to them.
EventLoopFairness ==
    \A p \in Pullers :
        /\ WF_vars(PullUntimed(p))
        /\ WF_vars(PullTake(p))
        /\ WF_vars(PullDeliver(p))
        /\ WF_vars(PullTimeout(p))

FairSpec == Spec /\ EventLoopFairness

-----------------------------------------------------------------------------
\* Every variable keeps its type.
TypeOK ==
    /\ state \in SessionState
    /\ config \in SessionConfig
    /\ audio \in Seq(AudioChunk)
    /\ video \in Seq(VideoChunk)
    /\ epoch \in Nat
    /\ nextAudioSequence \in Nat
    /\ nextVideoSequence \in Nat
    /\ controlRevision \in Int \cup {None}
    /\ pull \in [Pullers -> PullModes \cup {"idle", "holding"}]
    /\ held \in [Pullers -> VideoChunk]
    /\ since \in [Pullers -> Nat]
    /\ delivered \subseteq VideoChunk

\* Accepted audio and produced video never drift apart: every two chunks that
\* push_audio accepted made one frame and at most one chunk waits for its
\* second half.  It fails when a frame finds the queue full after its chunks
\* were counted (mock.py:54-71), which loses the frame for good.
Lockstep ==
    state = "active" =>
        /\ nextAudioSequence = 2 * nextVideoSequence + Len(audio)
        /\ Len(audio) <= 1

OutputBounded == state = "active" => Len(video) <= config.max_output_chunks

UnbrokenRun ==
    \A i \in 1..Len(video) :
        /\ video[i].epoch = epoch
        /\ video[i].sequence = nextVideoSequence - Len(video) + i - 1
        /\ video[i].pts_ms = video[i].sequence * VideoFrameMs

\* The output queue never holds more frames than the session was opened with, and
\* what it holds is an unbroken run of this epoch's frames, the newest last, each
\* at its place on the 40 ms grid, whatever resets and pulls did
\* (mock.py:37, 54-55, 61-71, 95-99, protocol.py:64-65).
QueueTimeline == OutputBounded /\ UnbrokenRun

QueuedNow(n) == \E i \in 1..Len(video) : video[i].sequence = n
HeldNow(p, n) == pull[p] = "holding" /\ held[p].epoch = epoch /\ held[p].sequence = n
DeliveredNow(n) == \E f \in delivered : f.epoch = epoch /\ f.sequence = n

\* Between resets no frame is lost or handed out twice: each one produced in
\* the epoch is in the queue, or in the hands of one pull between the task of
\* wait_for and its caller, or was returned, and in one of these places only
\* (mock.py:69, 81-89).
ExactlyOnce ==
    state = "active" =>
        \A n \in 0..(nextVideoSequence - 1) :
            /\ QueuedNow(n) \/ DeliveredNow(n) \/ \E p \in Pullers : HeldNow(p, n)
            /\ QueuedNow(n) => ~DeliveredNow(n)
            /\ \A p \in Pullers : HeldNow(p, n) =>
                  /\ ~QueuedNow(n) /\ ~DeliveredNow(n)
                  /\ \A q \in Pullers \ {p} : ~HeldNow(q, n)

KnownFrames ==
    {video[i] : i \in 1..Len(video)} \cup delivered
        \cup {held[p] : p \in {q \in Pullers : pull[q] = "holding"}}

\* Of two frames of one epoch the later one never carries an older control
\* revision, and a revision once set is never unset (mock.py:67, 73-79, 100).
RevisionsFollowFrames ==
    \A f, g \in KnownFrames :
        (f.epoch = g.epoch /\ f.sequence < g.sequence /\ f.control_revision # None)
            => /\ g.control_revision # None
               /\ g.control_revision >= f.control_revision

\* A pull never returns a frame that was produced before the last reset that
\* completed before the pull was made, however the two interleave afterwards
\* (mock.py:81-100).
PullsAreFresh ==
    [][\A p \in Pullers :
           (pull[p] # "idle" /\ pull'[p] = "idle") =>
               \A f \in delivered' \ delivered : f.epoch >= since[p]]_vars

\* A pull made with a timeout always comes back, also when a reset empties the
\* queue under it or the session is closed meanwhile (mock.py:87-89).
TimedPullsReturn ==
    \A p \in Pullers :
        pull[p] \in {"timed", "poll", "holding"} ~> pull[p] = "idle"

FrameIds(frames) == {[epoch |-> f.epoch, sequence |-> f.sequence] : f \in frames}

WhileOpen(n) == IF state = "closed" THEN 0 ELSE n

Contract == INSTANCE SessionContract WITH
    clock    <- WhileOpen(nextAudioSequence * AudioChunkMs),
    next     <- WhileOpen(nextVideoSequence - Len(video)),
    inFlight <- FrameIds({held[p] : p \in {q \in Pullers : pull[q] = "holding"}}),
    returned <- FrameIds(delivered)

\* Whatever calls interleave, the mock backend behaves as the contract of a
\* backend allows: between a queue, a task of wait_for and several callers the
\* frames of an epoch are still given out one by one, in order and never ahead
\* of their audio (mock.py:40-109, protocol.py:103-123).
KeepsContract == Contract!Spec
=============================================================================
