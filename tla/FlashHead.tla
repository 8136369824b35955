----------------------------- MODULE FlashHead -----------------------------
(***************************************************************************)
(* backends/flashhead.py over backends/flashhead_runtime.py: the session   *)
(* adapter, the SoulX runtime it drives and the runtime's worker thread.   *)
(*                                                                         *)
(* Two threads.  The event loop runs push_audio, the polls of              *)
(* pull_video_chunk, reset and close; the worker thread loads the model,   *)
(* takes items off worker_q and puts frames on frames_q.  The handlers     *)
(* that do not block are single actions.  reset and close block the event  *)
(* loop while the worker runs on, so they are sequences of steps and       *)
(* "loop" says where the event loop stands; every other handler needs it   *)
(* to be "ready".                                                          *)
(*                                                                         *)
(* Audio is its number of samples.  A queued chunk and a frame carry two   *)
(* history fields the code does not have: "origin", the epoch in which the *)
(* audio was pushed, and "due_ms", the moment of the audio clock it        *)
(* belongs to.  update_control raises for every update: no action.         *)
(***************************************************************************)
EXTENDS InteractiveProtocol, FiniteSets

CONSTANTS
    FrameNum, VaeStride,    \* upstream layout: frames per run, VAE stride
    Configs, Chunks,        \* what a client may open with and push
    Pullers,                \* the concurrent calls of pull_video_chunk
    MaxResets,              \* bound: the number of reset calls explored
    ResetMayTimeout,        \* the worker may need more than 60 s for a reset
    JoinMayTimeout,         \* ... and more than 120 s to stop
    MayCrash                \* the pipeline may raise

ASSUME LayoutAssumption ==
    FrameNum \in Nat /\ VaeStride \in Nat \ {0} /\ FrameNum > VaeStride + 1
ASSUME ConfigsAssumption == Configs \subseteq SessionConfig
ASSUME ChunksAssumption == Chunks \subseteq AudioChunk
ASSUME MaxResetsAssumption == MaxResets \in Nat
ASSUME FailureAssumption ==
    ResetMayTimeout \in BOOLEAN /\ JoinMayTimeout \in BOOLEAN /\ MayCrash \in BOOLEAN

\* chunk_layout
MotionFramesLatentNum == 2
MotionFrames == (MotionFramesLatentNum - 1) * VaeStride + 1
SliceLen == FrameNum - MotionFrames
ChunkSamples == (SliceLen * 16000) \div 25

PushSamples == (16000 * AudioChunkMs) \div 1000
SamplesPerMs == 16

VARIABLES
    \* the adapter
    state, epoch, nextAudioSequence, nextVideoSequence,
    \* the runtime, as the event loop sees it
    loop, partialSamples, workerQ, framesQ, event,
    \* the worker thread: its place, the item in its hands, the frames it has
    \* put for that item, its chunk counter, the last event it has set
    worker, job, offset, chunkIdx, done,
    \* the calls of pull_video_chunk in progress
    pull,
    \* history: silence padded in this epoch (ms), the frames delivered
    silence, delivered

adapter == <<state, epoch, nextAudioSequence, nextVideoSequence>>
runtime == <<partialSamples, event>>
thread  == <<worker, job, offset, chunkIdx, done>>
vars    == <<adapter, loop, runtime, workerQ, framesQ, thread, pull, silence, delivered>>

LoopStates == {"ready", "resetDrain", "resetWait", "resetFrames",
               "closeJoin", "closeAudio", "closeFrames"}
WorkerStates == {"none", "loading", "idle", "generating", "resetting",
                 "exited", "crashed"}

AudioItem(due, origin) ==
    [kind |-> "audio", due_ms |-> due, origin |-> origin, event |-> 0]
ResetItem(e) == [kind |-> "reset", due_ms |-> 0, origin |-> 0, event |-> e]
CloseItem == [kind |-> "close", due_ms |-> 0, origin |-> 0, event |-> 0]
Item == [kind : {"audio", "reset", "close"}, due_ms : Int, origin : Nat, event : Nat]
Frame == [pts_ms : Int, due_ms : Int, origin : Nat]

-----------------------------------------------------------------------------
Init ==
    /\ state = "created"
    /\ epoch = 0
    /\ nextAudioSequence = 0
    /\ nextVideoSequence = 0
    /\ loop = "ready"
    /\ partialSamples = 0
    /\ workerQ = <<>>
    /\ framesQ = <<>>
    /\ event = 0
    /\ worker = "none"
    /\ job = CloseItem
    /\ offset = 0
    /\ chunkIdx = 0
    /\ done = 0
    /\ pull = [p \in Pullers |-> "idle"]
    /\ silence = 0
    /\ delivered = {}

RequireActive == loop = "ready" /\ state = "active"

\* A factory that raises leaves the session "created": no step.
Start(c) ==
    /\ loop = "ready"
    /\ state = "created"
    /\ Validates(c)
    /\ state' = "active"
    /\ UNCHANGED <<epoch, nextAudioSequence, nextVideoSequence, loop, runtime,
                   workerQ, framesQ, thread, pull, silence, delivered>>

-----------------------------------------------------------------------------
\* push_audio, and the first push starts the worker thread.

EnsureWorker == worker' = IF worker = "none" THEN "loading" ELSE worker

\* The audio clock at the first of the samples gathered so far.
ClockAt(samples) ==
    (nextAudioSequence + 1) * AudioChunkMs + silence - samples \div SamplesPerMs

\* A full chunk goes to the worker; what is over stays.
TakeFull(samples) ==
    /\ workerQ' = Append(workerQ, AudioItem(ClockAt(samples), epoch))
    /\ partialSamples' = samples - ChunkSamples
    /\ UNCHANGED silence

\* Mutant: the padded tail is sent but stays in the buffer.
TakePadded_KeepsTail(samples) ==
    /\ workerQ' = Append(workerQ, AudioItem(ClockAt(samples), epoch))
    /\ partialSamples' = samples
    /\ silence' = silence + (ChunkSamples - samples) \div SamplesPerMs

\* At the end of the stream the tail is padded with silence to a full chunk.
TakePadded(samples) ==
    /\ workerQ' = Append(workerQ, AudioItem(ClockAt(samples), epoch))
    /\ partialSamples' = 0
    /\ silence' = silence + (ChunkSamples - samples) \div SamplesPerMs

Gather(samples) ==
    /\ partialSamples' = samples
    /\ UNCHANGED <<workerQ, silence>>

\* One push holds no more than a chunk (PushSamples <= ChunkSamples), so the
\* while loop of push_audio runs at most once and leaves nothing to pad.
PushAudio(chunk) ==
    /\ RequireActive
    /\ AcceptsChunk(chunk, nextAudioSequence)
    /\ EnsureWorker
    /\ LET samples == partialSamples + PushSamples
       IN  \/ samples >= ChunkSamples /\ TakeFull(samples)
           \/ samples < ChunkSamples /\ chunk.end_of_stream /\ TakePadded(samples)
           \/ samples < ChunkSamples /\ ~chunk.end_of_stream /\ Gather(samples)
    /\ nextAudioSequence' = nextAudioSequence + 1
    /\ UNCHANGED <<state, epoch, nextVideoSequence, loop, event, framesQ,
                   job, offset, chunkIdx, done, pull, delivered>>

-----------------------------------------------------------------------------
\* pull_video_chunk: a poll of frames_q every 5 ms.  The adapter stamps the
\* frame in the same step, with the epoch and sequence of that moment.

PullStart(p, mode) ==
    /\ RequireActive
    /\ pull[p] = "idle"
    /\ pull' = [pull EXCEPT ![p] = mode]
    /\ UNCHANGED <<adapter, loop, runtime, workerQ, framesQ, thread, silence, delivered>>

Polls(p) == loop = "ready" /\ pull[p] # "idle"

Returns(p) == pull' = [pull EXCEPT ![p] = "idle"]

Stamped(frame) ==
    [epoch |-> epoch, sequence |-> nextVideoSequence, pts_ms |-> frame.pts_ms,
     due_ms |-> frame.due_ms, origin |-> frame.origin]

\* Mutant: the poll does not look at worker_error.
HearsCrash_Never == FALSE

HearsCrash == worker = "crashed"

PullFrame(p) ==
    /\ Polls(p)
    /\ ~HearsCrash
    /\ framesQ # <<>>
    /\ delivered' = delivered \cup {Stamped(Head(framesQ))}
    /\ framesQ' = Tail(framesQ)
    /\ nextVideoSequence' = nextVideoSequence + 1
    /\ Returns(p)
    /\ UNCHANGED <<state, epoch, nextAudioSequence, loop, runtime, workerQ, thread, silence>>

\* worker_error is looked at before the queue.
PullRaises(p) ==
    /\ Polls(p)
    /\ HearsCrash
    /\ Returns(p)
    /\ UNCHANGED <<adapter, loop, runtime, workerQ, framesQ, thread, silence, delivered>>

PullTimeout(p) ==
    /\ Polls(p)
    /\ pull[p] = "timed"
    /\ ~HearsCrash
    /\ framesQ = <<>>
    /\ Returns(p)
    /\ UNCHANGED <<adapter, loop, runtime, workerQ, framesQ, thread, silence, delivered>>

-----------------------------------------------------------------------------
\* reset: drain worker_q, hand the worker a reset, wait for its event, drain
\* frames_q; only then does the adapter open the next epoch.

ResetCall ==
    /\ RequireActive
    /\ event < MaxResets
    /\ event' = event + 1
    /\ loop' = "resetDrain"
    /\ UNCHANGED <<adapter, partialSamples, workerQ, framesQ, thread,
                   pull, silence, delivered>>

DrainOne(queue) == queue # <<>> /\ queue' = Tail(queue)

ResetDrainAudio ==
    /\ loop = "resetDrain"
    /\ DrainOne(workerQ)
    /\ UNCHANGED <<adapter, loop, runtime, framesQ, thread, pull, silence, delivered>>

\* Mutant: the frames are numbered on.
NextEpoch_KeepsVideo ==
    /\ epoch' = epoch + 1
    /\ nextAudioSequence' = 0
    /\ UNCHANGED nextVideoSequence
    /\ silence' = 0

NextEpoch ==
    /\ epoch' = epoch + 1
    /\ nextAudioSequence' = 0
    /\ nextVideoSequence' = 0
    /\ silence' = 0

ResetNoWorker ==
    /\ loop = "resetDrain"
    /\ workerQ = <<>>
    /\ worker = "none"
    /\ partialSamples' = 0
    /\ NextEpoch
    /\ loop' = "ready"
    /\ UNCHANGED <<state, event, workerQ, framesQ, thread, pull, delivered>>

ResetAsk ==
    /\ loop = "resetDrain"
    /\ workerQ = <<>>
    /\ worker # "none"
    /\ partialSamples' = 0
    /\ workerQ' = <<ResetItem(event)>>
    /\ loop' = "resetWait"
    /\ UNCHANGED <<adapter, event, framesQ, thread, pull, silence, delivered>>

\* Mutant: all calls share one event, which is never cleared.
Answered_SharedEvent == done # 0

\* Every call waits for an event of its own.
Answered == done = event

ResetDone ==
    /\ loop = "resetWait"
    /\ Answered
    /\ loop' = "resetFrames"
    /\ UNCHANGED <<adapter, runtime, workerQ, framesQ, thread, pull, silence, delivered>>

\* Mutant: the wait for the worker has no timeout.
TimerFires_Never == FALSE

TimerFires == ResetMayTimeout \/ worker = "crashed"

\* 60 s have passed: RuntimeError, which leaves the adapter as it was.
ResetTimeout ==
    /\ loop = "resetWait"
    /\ ~Answered
    /\ TimerFires
    /\ loop' = "ready"
    /\ UNCHANGED <<adapter, runtime, workerQ, framesQ, thread, pull, silence, delivered>>

ResetDrainFrames ==
    /\ loop = "resetFrames"
    /\ DrainOne(framesQ)
    /\ UNCHANGED <<adapter, loop, runtime, workerQ, thread, pull, silence, delivered>>

\* Mutant: frames_q was drained before the wait, not after it.
FramesGone_NotAsked == TRUE

FramesGone == framesQ = <<>>

ResetReturn ==
    /\ loop = "resetFrames"
    /\ FramesGone
    /\ NextEpoch
    /\ loop' = "ready"
    /\ UNCHANGED <<state, runtime, workerQ, framesQ, thread, pull, delivered>>

-----------------------------------------------------------------------------
\* close: ask the worker to stop, join it, drain both queues.

\* There is no runtime before start.
CloseUnopened ==
    /\ loop = "ready"
    /\ state = "created"
    /\ state' = "closed"
    /\ UNCHANGED <<epoch, nextAudioSequence, nextVideoSequence, loop, runtime,
                   workerQ, framesQ, thread, pull, silence, delivered>>

\* Mutant: the worker is told to stop but not waited for.
AfterCloseCall_NoJoin == "closeAudio"

AfterCloseCall == IF worker = "none" THEN "closeAudio" ELSE "closeJoin"

\* Mutant: the worker is waited for but not asked to stop.
CloseCall_NotAsked ==
    /\ RequireActive
    /\ loop' = AfterCloseCall
    /\ UNCHANGED <<adapter, runtime, workerQ, framesQ, thread, pull, silence, delivered>>

\* The runtime's closed flag is set here; no call gets past the adapter to
\* read it before the adapter's own state says "closed".
CloseCall ==
    /\ RequireActive
    /\ loop' = AfterCloseCall
    /\ workerQ' = IF worker = "none" THEN workerQ ELSE Append(workerQ, CloseItem)
    /\ UNCHANGED <<adapter, runtime, framesQ, thread, pull, silence, delivered>>

\* The worker has ended, or 120 s have passed: close goes on either way.
JoinReturns == worker \in {"exited", "crashed"} \/ JoinMayTimeout

CloseJoin ==
    /\ loop = "closeJoin"
    /\ JoinReturns
    /\ loop' = "closeAudio"
    /\ UNCHANGED <<adapter, runtime, workerQ, framesQ, thread, pull, silence, delivered>>

CloseDrainAudio ==
    /\ loop = "closeAudio"
    /\ DrainOne(workerQ)
    /\ UNCHANGED <<adapter, loop, runtime, framesQ, thread, pull, silence, delivered>>

CloseAudioDrained ==
    /\ loop = "closeAudio"
    /\ workerQ = <<>>
    /\ loop' = "closeFrames"
    /\ UNCHANGED <<adapter, runtime, workerQ, framesQ, thread, pull, silence, delivered>>

CloseDrainFrames ==
    /\ loop = "closeFrames"
    /\ DrainOne(framesQ)
    /\ UNCHANGED <<adapter, loop, runtime, workerQ, thread, pull, silence, delivered>>

CloseReturn ==
    /\ loop = "closeFrames"
    /\ framesQ = <<>>
    /\ state' = "closed"
    /\ loop' = "ready"
    /\ UNCHANGED <<epoch, nextAudioSequence, nextVideoSequence, runtime, workerQ,
                   framesQ, thread, pull, silence, delivered>>

-----------------------------------------------------------------------------
\* The worker thread.

WorkerLoads ==
    /\ worker = "loading"
    /\ worker' = "idle"
    /\ UNCHANGED <<adapter, loop, runtime, workerQ, framesQ, job, offset, chunkIdx,
                   done, pull, silence, delivered>>

AfterGet(kind) ==
    CASE kind = "close" -> "exited"
      [] kind = "reset" -> "resetting"
      [] OTHER -> "generating"

WorkerGets ==
    /\ worker = "idle"
    /\ workerQ # <<>>
    /\ job' = Head(workerQ)
    /\ workerQ' = Tail(workerQ)
    /\ worker' = AfterGet(Head(workerQ).kind)
    /\ UNCHANGED <<adapter, loop, runtime, framesQ, offset, chunkIdx, done, pull,
                   silence, delivered>>

\* Mutant: the chunk counter runs on.
RestartChunks_Forgotten == UNCHANGED chunkIdx

RestartChunks == chunkIdx' = 0

\* Mutant: the worker returns after a reset instead of going on.
AfterReset_Returns == "exited"

AfterReset == "idle"

WorkerResets ==
    /\ worker = "resetting"
    /\ RestartChunks
    /\ done' = job.event
    /\ worker' = AfterReset
    /\ UNCHANGED <<adapter, loop, runtime, workerQ, framesQ, job, offset, pull,
                   silence, delivered>>

FramePts == chunkIdx * SliceLen * VideoFrameMs + offset * VideoFrameMs

\* Mutant: one frame too many for a chunk.
MoreFrames_OneTooMany == offset < SliceLen

MoreFrames == offset + 1 < SliceLen

\* One frame of the generated slice; after the last one the next item.
WorkerEmits ==
    /\ worker = "generating"
    /\ framesQ' = Append(framesQ, [pts_ms |-> FramePts,
                                   due_ms |-> job.due_ms + offset * VideoFrameMs,
                                   origin |-> job.origin])
    /\ IF MoreFrames
       THEN /\ offset' = offset + 1
            /\ UNCHANGED <<worker, chunkIdx>>
       ELSE /\ offset' = 0
            /\ chunkIdx' = chunkIdx + 1
            /\ worker' = "idle"
    /\ UNCHANGED <<adapter, loop, runtime, workerQ, job, done, pull, silence, delivered>>

\* Loading, generating, encoding or resetting the pipeline raises.
WorkerCrashes ==
    /\ MayCrash
    /\ worker \in {"loading", "generating", "resetting"}
    /\ worker' = "crashed"
    /\ UNCHANGED <<adapter, loop, runtime, workerQ, framesQ, job, offset, chunkIdx,
                   done, pull, silence, delivered>>

-----------------------------------------------------------------------------
ResetSteps ==
    \/ ResetDrainAudio \/ ResetNoWorker \/ ResetAsk \/ ResetDone
    \/ ResetTimeout \/ ResetDrainFrames \/ ResetReturn

CloseSteps ==
    \/ CloseJoin \/ CloseDrainAudio
    \/ CloseAudioDrained \/ CloseDrainFrames \/ CloseReturn

WorkerSteps == WorkerLoads \/ WorkerGets \/ WorkerResets \/ WorkerEmits

Next ==
    \/ \E c \in Configs : Start(c)
    \/ \E chunk \in Chunks : PushAudio(chunk)
    \/ \E p \in Pullers, mode \in {"untimed", "timed"} : PullStart(p, mode)
    \/ \E p \in Pullers : PullFrame(p) \/ PullRaises(p) \/ PullTimeout(p)
    \/ ResetCall
    \/ ResetSteps
    \/ CloseUnopened
    \/ CloseCall
    \/ CloseSteps
    \/ WorkerSteps
    \/ WorkerCrashes

Spec == Init /\ [][Next]_vars

\* Both threads are scheduled, the model eventually answers and every timer
\* fires; what clients do is left to them.
FairSpec ==
    /\ Spec
    /\ WF_vars(ResetSteps)
    /\ WF_vars(CloseSteps)
    /\ WF_vars(WorkerSteps)
    /\ \A p \in Pullers : WF_vars(PullFrame(p) \/ PullRaises(p) \/ PullTimeout(p))

-----------------------------------------------------------------------------
\* Every variable keeps its type; less than a chunk of samples is ever held
\* back and the worker is always inside the slice it emits.
TypeOK ==
    /\ state \in SessionState
    /\ epoch \in Nat /\ nextAudioSequence \in Nat /\ nextVideoSequence \in Nat
    /\ loop \in LoopStates
    /\ partialSamples \in 0..(ChunkSamples - 1)
    /\ workerQ \in Seq(Item)
    /\ framesQ \in Seq(Frame)
    /\ event \in Nat
    /\ worker \in WorkerStates
    /\ job \in Item
    /\ offset \in 0..(SliceLen - 1)
    /\ chunkIdx \in Nat
    /\ done \in Nat
    /\ pull \in [Pullers -> {"idle", "untimed", "timed"}]
    /\ silence \in Int
    /\ \A f \in delivered :
          f \in [epoch : Nat, sequence : Nat, pts_ms : Int, due_ms : Int, origin : Nat]

\* A frame is only ever delivered as part of the epoch whose audio it was made
\* from, although the adapter stamps the epoch it has when the frame arrives
\* and the worker may still be generating when a reset begins, may be slow, or
\* may crash (flashhead.py:116-122, flashhead_runtime.py:132-146).
EpochFidelity == \A f \in delivered : f.origin = f.epoch

\* No reset has given up: each one asked for has opened an epoch or is under way.
ResetsKept == event = epoch + IF loop \in {"resetDrain", "resetWait", "resetFrames"} THEN 1 ELSE 0

\* Until a reset gives up, the frames of an epoch are delivered without a gap
\* on the 40 ms grid, from zero after each reset, and each shows the audio of
\* its own moment (flashhead.py:116-123, flashhead_runtime.py:106-118, 256,
\* 269-278).
VideoFollowsAudio ==
    ResetsKept => \A f \in delivered :
        /\ f.pts_ms = f.sequence * VideoFrameMs
        /\ f.due_ms = f.pts_ms

AudioQueued == Cardinality({i \in 1..Len(workerQ) : workerQ[i].kind = "audio"})
InWork == IF worker = "generating" THEN 1 ELSE 0

\* While the worker lives and no reset has given up, every millisecond of
\* accepted audio is accounted for: held back for the next chunk, queued, being
\* generated or finished; and every finished frame is queued or was delivered
\* (flashhead_runtime.py:106-118, 179-187, 248-278).
AudioAccounted ==
    (loop = "ready" /\ state = "active" /\ worker # "crashed" /\ ResetsKept) =>
        /\ nextAudioSequence * AudioChunkMs + silence =
              partialSamples \div SamplesPerMs
                + SliceLen * VideoFrameMs * (chunkIdx + InWork + AudioQueued)
        /\ nextVideoSequence + Len(framesQ) = chunkIdx * SliceLen + offset

\* Once closed a session delivers nothing more, not even to a pull that was
\* waiting when close was called (flashhead_runtime.py:148-156).
QuietAfterClose == [][state = "closed" => delivered' = delivered]_vars

Stopped == worker \in {"none", "exited", "crashed"}

\* Closing ends the worker thread: the audit of the interface says of close
\* that it stops the worker and frees the queues and the GPU pipeline
\* (docs/FLASHHEAD_INTERFACE_AUDIT.md:30, flashhead_runtime.py:148-156).
CloseStopsWorker == (state = "closed") ~> [](state = "closed" /\ Stopped)

AtWork == worker \in {"loading", "idle", "generating", "resetting"}

\* The event loop never blocks on an answer that nobody will give: as long as
\* the worker has not died, a reset that waits finds its own request, with its
\* own event, in the queue or the hands of a worker at work, and a close that
\* waits finds the worker ended or a request to stop before it
\* (flashhead_runtime.py:132-146, 148-154, 247-280).
WaitsAnswered ==
    /\ loop = "resetWait" =>
        \/ Answered
        \/ worker = "crashed"
        \/ worker = "resetting" /\ job.event = event
        \/ AtWork /\ \E i \in 1..Len(workerQ) : workerQ[i] = ResetItem(event)
    /\ loop = "closeJoin" =>
        \/ worker \in {"exited", "crashed"}
        \/ AtWork /\ \E i \in 1..Len(workerQ) : workerQ[i].kind = "close"

\* A reset always gives the event loop back, also when the worker died before
\* or during it (flashhead_runtime.py:140-143).
ResetComesBack == (loop = "resetDrain") ~> (loop = "ready")

\* Audio handed to a worker that lives is taken up, before and after resets
\* (flashhead_runtime.py:247-280).
QueueDrains == (workerQ # <<>>) ~> (workerQ = <<>> \/ worker = "crashed")

\* When the worker dies every call that waits for a frame hears of it, also
\* one without a timeout (flashhead_runtime.py:122-124).
CrashReachesPulls ==
    \A p \in Pullers : (worker = "crashed" /\ pull[p] # "idle") ~> (pull[p] = "idle")

\* Within an epoch the frames are numbered through: the experiment says the PTS
\* runs on from chunk to chunk and restarts at zero after a reset
\* (experiments/system-interface/flashhead-headless-001/experiment.md:15).
PtsContinuous == \A f \in delivered : f.pts_ms = f.sequence * VideoFrameMs

WhileOpen(n) == IF state = "closed" THEN 0 ELSE n

Contract == INSTANCE SessionContract WITH
    clock    <- WhileOpen(nextAudioSequence * AudioChunkMs + silence),
    next     <- WhileOpen(nextVideoSequence),
    inFlight <- {},
    returned <- {[epoch |-> f.epoch, sequence |-> f.sequence] : f \in delivered}

\* However event loop and worker interleave and wherever the worker dies, the
\* FlashHead session behaves as the contract of a backend allows: frames are
\* returned one by one, never ahead of their audio and never after close, also
\* when a reset has given up and its request is handled later
\* (flashhead.py:66-138, flashhead_runtime.py:104-156, protocol.py:103-123).
KeepsContract == Contract!Spec
=============================================================================
