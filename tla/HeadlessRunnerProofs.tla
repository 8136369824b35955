------------------------ MODULE HeadlessRunnerProofs ------------------------
(***************************************************************************)
(* Proofs about the headless runner, for every duration of its phases,     *)
(* every layout, and with a worker that is slow or dies.  A run is a run   *)
(* of FlashHead, so all that is proved of a session holds in it too.       *)
(***************************************************************************)
EXTENDS HeadlessRunner, FlashHeadContractProofs

-----------------------------------------------------------------------------
(***************************************************************************)
(* Types.                                                                  *)
(***************************************************************************)

\* A phase has at least two chunks and one frame.
LEMMA Lengths ==
    ASSUME RunnerTypeOK, NEW i \in 1..2
    PROVE  /\ duration[i] \in Durations /\ duration[i] \in Nat /\ duration[i] >= 40
           /\ NumChunks(i) \in Nat /\ NumChunks(i) >= 2
           /\ ExpectedFrames(i) \in Nat /\ ExpectedFrames(i) >= 1
<1>1. duration[i] \in Durations /\ duration[i] \in Nat /\ duration[i] >= 40
    BY DurationAssumption DEF RunnerTypeOK, VideoFrameMs
<1>2. \A n \in Nat : n >= 40 => n \div 20 \in Nat /\ n \div 20 >= 2
    OBVIOUS
<1>3. \A n \in Nat : n >= 40 => (n * 25) \div 1000 \in Nat /\ (n * 25) \div 1000 >= 1
    OBVIOUS
<1> QED
    BY <1>1, <1>2, <1>3 DEF NumChunks, ExpectedFrames, AudioChunkMs

LEMMA RecordedType ==
    ASSUME NEW r \in PhaseResult, NEW frame, NEW late \in LateMs, MayBeLate(r, late)
    PROVE  Recorded(r, frame, late) \in PhaseResult
<1>1. /\ r.frames \in Nat /\ r.pts_gaps \in Nat /\ r.starve_count \in Nat /\ r.late \in Nat
      /\ r.playback_intervals_ms \in Seq(Nat) /\ late \in Nat
    BY LateAssumption DEF PhaseResult
<1>2. r.frames # 0 => 40 + late - r.late \in Nat
    BY <1>1 DEF MayBeLate, VideoFrameMs
<1>3. <<>> \in Seq(Nat)
    OBVIOUS
<1>4. r.frames # 0 => Append(r.playback_intervals_ms, 40 + late - r.late) \in Seq(Nat)
    BY <1>1, <1>2
<1> QED
    BY <1>1, <1>3, <1>4 DEF Recorded, PhaseResult

LEMMA RunnerTypeInit == RunnerInit => RunnerTypeOK
<1> SUFFICES ASSUME RunnerInit
             PROVE  RunnerTypeOK
    OBVIOUS
<1>1. NoResult \in PhaseResult
    BY DEF NoResult, PhaseResult
<1>2. /\ duration \in [1..2 -> Durations] /\ phase = 1 /\ next = 0 /\ place = "start"
      /\ result \in [1..2 -> PhaseResult] /\ quick = FALSE /\ exitCode = -1
    BY <1>1 DEF RunnerInit
<1>3. duration[1] \in Nat
    BY <1>2, DurationAssumption
<1>4. NumChunks(1) \in Nat
    <2>1. \A n \in Nat : n \div 20 \in Nat
        OBVIOUS
    <2> QED
        BY <1>3, <2>1 DEF NumChunks, AudioChunkMs
<1>5. next \in 0..NumChunks(phase)
    BY <1>2, <1>4
<1>6. phase \in 1..2
    BY <1>2
<1>7. quick \in BOOLEAN
    BY <1>2
<1>8. exitCode \in {-1, 0, 1, 2}
    BY <1>2
<1>9. place \in Places
    BY <1>2 DEF Places
<1> QED
    BY <1>2, <1>5, <1>6, <1>7, <1>8, <1>9 DEF RunnerTypeOK

LEMMA RunnerTypeStep ==
    ASSUME RunnerTypeOK, [RunnerNext]_allVars
    PROVE  RunnerTypeOK'
<1>0. /\ duration \in [1..2 -> Durations] /\ place \in Places /\ phase \in 1..2
      /\ next \in 0..NumChunks(phase) /\ result \in [1..2 -> PhaseResult]
      /\ quick \in BOOLEAN /\ exitCode \in {-1, 0, 1, 2}
    BY DEF RunnerTypeOK
<1>a. ASSUME UNCHANGED <<duration, phase, next, result, quick>>,
             place' \in Places, exitCode' \in {-1, 0, 1, 2}
      PROVE  RunnerTypeOK'
    <2>1. NumChunks(phase)' = NumChunks(phase)
        BY <1>a DEF NumChunks
    <2> QED
        BY <1>0, <1>a, <2>1 DEF RunnerTypeOK
<1>1. CASE GpuBusy \/ RunStart \/ RunReset \/ RunClose \/ Mux
    BY <1>0, <1>1, <1>a DEF GpuBusy, RunStart, RunReset, RunClose, Mux, Exit, Places
<1>2. CASE Closing
    BY <1>0, <1>2, <1>a DEF Closing, Places
<1>3. CASE Judge
    BY <1>0, <1>3, <1>a DEF Judge, Exit, Places
<1>4. CASE Produce
    <2>1. /\ UNCHANGED <<duration, place, phase, result, quick, exitCode>>
          /\ next' = next + 1 /\ next < NumChunks(phase)
        BY <1>4 DEF Produce
    <2>2. next' \in 0..NumChunks(phase)
        BY <1>0, <2>1, Lengths
    <2>3. NumChunks(phase)' = NumChunks(phase)
        BY <2>1 DEF NumChunks
    <2> QED
        BY <1>0, <2>1, <2>2, <2>3 DEF RunnerTypeOK
<1>5. ASSUME NEW p \in Pullers, ConsumerTakes(p)
      PROVE  RunnerTypeOK'
    <2>1. /\ UNCHANGED <<duration, phase, next, quick>>
          /\ place' \in Places /\ exitCode' \in {-1, 0, 1, 2}
        BY <1>0, <1>5 DEF ConsumerTakes, Raise, AfterFrame, Places
    <2>2. result' \in [1..2 -> PhaseResult]
        <3>1. \/ result' = result
              \/ \E late \in LateMs :
                    /\ MayBeLate(result[phase], late)
                    /\ result' = [result EXCEPT ![phase] =
                                    Recorded(result[phase], Stamped(Head(framesQ)), late)]
            BY <1>5 DEF ConsumerTakes
        <3>2. result[phase] \in PhaseResult
            BY <1>0
        <3> QED
            BY <1>0, <3>1, <3>2, RecordedType
    <2>3. NumChunks(phase)' = NumChunks(phase)
        BY <2>1 DEF NumChunks
    <2> QED
        BY <1>0, <2>1, <2>2, <2>3 DEF RunnerTypeOK
<1>6. ASSUME NEW p \in Pullers, ConsumerRaises(p)
      PROVE  RunnerTypeOK'
    BY <1>0, <1>6, <1>a DEF ConsumerRaises, Raise, Places
<1>7. CASE Resetting
    <2>1. /\ UNCHANGED <<duration, result>> /\ place' \in Places /\ quick' \in BOOLEAN
          /\ exitCode' \in {-1, 0, 1, 2}
          /\ UNCHANGED <<phase, next>> \/ (phase' = 2 /\ next' = 0)
        BY <1>0, <1>7 DEF Resetting, Raise, SecondPhase, Places
    <2>2. CASE UNCHANGED <<phase, next>>
        <3>1. NumChunks(phase)' = NumChunks(phase)
            BY <2>1, <2>2 DEF NumChunks
        <3> QED
            BY <1>0, <2>1, <2>2, <3>1 DEF RunnerTypeOK
    <2>3. CASE phase' = 2 /\ next' = 0
        <3>1. NumChunks(2) \in Nat
            BY Lengths
        <3>2. NumChunks(phase)' = NumChunks(2)
            BY <2>1, <2>3 DEF NumChunks
        <3> QED
            BY <1>0, <2>1, <2>3, <3>1, <3>2 DEF RunnerTypeOK
    <2> QED
        BY <2>1, <2>2, <2>3
<1>8. CASE UNCHANGED runner
    BY <1>0, <1>8, <1>a DEF runner
<1> QED
    BY <1>1, <1>2, <1>3, <1>4, <1>5, <1>6, <1>7, <1>8
    DEF RunnerNext, MainSteps, ConsumerPolls, ConsumerPulls, WorkerThread, allVars

\* Every variable of the runner keeps its type; the producer never runs past the
\* end of its phase (run_headless.py:95-108).
THEOREM RunnerTypeCorrect == RunnerSpec => []RunnerTypeOK
    BY RunnerTypeInit, RunnerTypeStep, PTL DEF RunnerSpec

-----------------------------------------------------------------------------
(***************************************************************************)
(* A run is a run of FlashHead.                                            *)
(***************************************************************************)

LEMMA ProducedIsChunk ==
    ASSUME RunnerTypeOK, next < NumChunks(phase), NEW last \in BOOLEAN
    PROVE  Produced(next, last) \in Chunks
<1>1. /\ duration[phase] \in Durations /\ next \in 0..NumChunks(phase)
      /\ NumChunks(phase) = duration[phase] \div AudioChunkMs /\ NumChunks(phase) \in Nat
    BY Lengths DEF RunnerTypeOK, NumChunks
<1>2. next \in 0..((duration[phase] \div AudioChunkMs) - 1)
    BY <1>1
<1> QED
    BY <1>1, <1>2, ProducedAssumption

LEMMA SessionStep ==
    ASSUME RunnerTypeOK, [RunnerNext]_allVars
    PROVE  [Next]_vars
<1>1. CASE Produce
    <2>1. IsLastChunk(next) \in BOOLEAN
        BY DEF IsLastChunk
    <2>2. /\ Produced(next, IsLastChunk(next)) \in Chunks
          /\ PushAudio(Produced(next, IsLastChunk(next)))
        BY <1>1, <2>1, ProducedIsChunk DEF Produce
    <2>3. \E chunk \in Chunks : PushAudio(chunk)
        BY <2>2
    <2> QED
        BY <2>3 DEF Next
<1>2. CASE GpuBusy \/ Mux \/ Judge \/ UNCHANGED allVars
    BY <1>2 DEF GpuBusy, Mux, Judge, allVars
<1>3. CASE RunStart \/ RunReset \/ Resetting \/ RunClose \/ Closing
    BY <1>3 DEF RunStart, RunReset, Resetting, RunClose, Closing, Next
<1>4. CASE \E p \in Pullers : ConsumerPulls(p) \/ ConsumerPolls(p)
    BY <1>4 DEF ConsumerPulls, ConsumerPolls, ConsumerTakes, ConsumerRaises, Next
<1>5. CASE WorkerThread
    BY <1>5 DEF WorkerThread, Next
<1> QED
    BY <1>1, <1>2, <1>3, <1>4, <1>5 DEF RunnerNext, MainSteps

\* The runner uses the session as any client may: every step of it is a step of
\* a FlashHead session or does not touch it, so every safety property proved of
\* sessions holds in every run (run_headless.py:92-152, 219-257).
THEOREM RunIsSession == RunnerSpec => Spec
<1>1. RunnerInit => Init
    BY DEF RunnerInit
<1>2. RunnerTypeOK /\ [RunnerNext]_allVars => [Next]_vars
    BY SessionStep
<1> QED
    BY <1>1, <1>2, RunnerTypeCorrect, PTL DEF RunnerSpec, Spec

LEMMA SessionHolds == RunnerSpec => [](IInv /\ TimeLine)
    BY RunIsSession, Invariance, TimeLineHolds, PTL

-----------------------------------------------------------------------------
(***************************************************************************)
(* Where the runner stands and where its session does.                     *)
(***************************************************************************)

AtStart ==
    place = "start" => /\ state = "created" /\ loop = "ready"
                       /\ event = 0 /\ epoch = 0
                       /\ nextAudioSequence = 0 /\ nextVideoSequence = 0
                       /\ phase = 1 /\ next = 0 /\ result[1].frames = 0

\* In a phase the session is open, in the phase's epoch and counts what the
\* runner counts; the last chunk leaves nothing held back.
InPhase ==
    place = "run" => /\ loop = "ready" /\ state = "active"
                     /\ event = epoch /\ epoch = phase - 1
                     /\ nextAudioSequence = next
                     /\ nextVideoSequence = result[phase].frames
                     /\ result[phase].frames < ExpectedFrames(phase)
                     /\ next = NumChunks(phase) => partialSamples = 0

BetweenPhases ==
    /\ place = "reset" => phase = 1 /\ event = 0 /\ epoch = 0
    /\ place = "resetting" => phase = 1 /\ event = 1 /\ epoch = 0 /\ state = "active"

NothingYet == phase = 1 => result[2].frames = 0

NoGaps == \A i \in 1..2 : result[i].pts_gaps = 0

Course == AtStart /\ InPhase /\ BetweenPhases /\ NothingYet /\ NoGaps

\* What does not move the course.
Still == /\ UNCHANGED <<runner, state, loop, event, epoch, nextAudioSequence,
                        nextVideoSequence, partialSamples>>

LEMMA StillCourse ==
    ASSUME Course, Still
    PROVE  Course'
<1>1. UNCHANGED <<place, phase, next, result, duration, state, loop, event, epoch,
                  nextAudioSequence, nextVideoSequence, partialSamples>>
    BY DEF Still, runner
<1>2. ExpectedFrames(phase)' = ExpectedFrames(phase) /\ NumChunks(phase)' = NumChunks(phase)
    BY <1>1 DEF ExpectedFrames, NumChunks
<1> QED
    BY <1>1, <1>2 DEF Course, AtStart, InPhase, BetweenPhases, NothingYet, NoGaps

\* Once the phases are over nothing more is asked of the course.
LEMMA OverCourse ==
    ASSUME Course, UNCHANGED <<phase, result>>,
           place' \notin {"start", "run", "reset", "resetting"}
    PROVE  Course'
    BY DEF Course, AtStart, InPhase, BetweenPhases, NothingYet, NoGaps

\* The last chunk of a phase is sent on, padded if need be.
LEMMA LastPush ==
    ASSUME TypeOK, Grid, NEW chunk \in Chunks, PushAudio(chunk), chunk.end_of_stream
    PROVE  partialSamples' = 0
<1>0. /\ SliceLen \in Nat \ {0} /\ ChunkSamples = SliceLen * 640 /\ PushSamples = 320
      /\ partialSamples \in 0..(ChunkSamples - 1)
    BY Layout DEF TypeOK
<1>1. PICK k \in Nat : partialSamples = k * 320
    BY DEF Grid
<1> PICK samples : samples = partialSamples + 320
    OBVIOUS
<1>2. \/ samples >= ChunkSamples /\ TakeFull(samples)
      \/ TakePadded(samples)
    BY <1>0 DEF PushAudio
<1>3. CASE samples >= ChunkSamples /\ TakeFull(samples)
    <2>1. \A m, n \in Int : m * 320 < n * 640 /\ m * 320 + 320 >= n * 640
                              => m * 320 + 320 - n * 640 = 0
        OBVIOUS
    <2>2. k * 320 < SliceLen * 640 /\ k * 320 + 320 >= SliceLen * 640
        BY <1>0, <1>1, <1>3
    <2>3. samples - ChunkSamples = 0
        BY <1>0, <1>1, <2>1, <2>2
    <2> QED
        BY <1>3, <2>3 DEF TakeFull
<1>4. CASE TakePadded(samples)
    BY <1>4 DEF TakePadded
<1> QED
    BY <1>2, <1>3, <1>4

-----------------------------------------------------------------------------
\* The steps of the runner, one by one.

LEMMA StartCourse ==
    ASSUME RunnerTypeOK, Course, RunStart
    PROVE  Course'
<1>1. /\ place = "start" /\ place' = "run"
      /\ UNCHANGED <<duration, phase, next, result>>
    BY DEF RunStart
<1>2. /\ loop = "ready" /\ state' = "active"
      /\ UNCHANGED <<epoch, nextAudioSequence, nextVideoSequence, loop, event>>
    BY DEF RunStart, Start, runtime
<1>3. /\ event = 0 /\ epoch = 0 /\ nextAudioSequence = 0 /\ nextVideoSequence = 0
      /\ phase = 1 /\ next = 0 /\ result[1].frames = 0
    BY <1>1 DEF Course, AtStart
<1>4. NumChunks(1) >= 2 /\ NumChunks(1) \in Nat /\ ExpectedFrames(1) \in Nat /\ ExpectedFrames(1) >= 1
    BY Lengths
<1>5. NumChunks(1)' = NumChunks(1) /\ ExpectedFrames(1)' = ExpectedFrames(1)
    BY <1>1 DEF NumChunks, ExpectedFrames
<1>6. InPhase'
    <2>1. phase' = 1 /\ next' = 0 /\ result' = result
        BY <1>1, <1>3
    <2>2. NumChunks(phase)' = NumChunks(1) /\ ExpectedFrames(phase)' = ExpectedFrames(1)
        BY <1>5, <2>1
    <2> QED
        BY <1>2, <1>3, <1>4, <2>1, <2>2 DEF InPhase
<1> QED
    BY <1>1, <1>6 DEF Course, AtStart, BetweenPhases, NothingYet, NoGaps

LEMMA ProduceCourse ==
    ASSUME RunnerTypeOK, TypeOK, Grid, Course, Produce
    PROVE  Course'
<1>1. /\ place = "run" /\ next < NumChunks(phase) /\ next' = next + 1
      /\ UNCHANGED <<duration, place, phase, result>>
    BY DEF Produce
<1>2. IsLastChunk(next) \in BOOLEAN
    BY DEF IsLastChunk
<1> PICK chunk : chunk = Produced(next, IsLastChunk(next))
    OBVIOUS
<1>3. chunk \in Chunks /\ PushAudio(chunk)
    BY <1>1, <1>2, ProducedIsChunk DEF Produce
<1>4. /\ nextAudioSequence' = nextAudioSequence + 1
      /\ UNCHANGED <<state, epoch, nextVideoSequence, loop, event>>
    BY <1>3, PushEffect
<1>5. NumChunks(phase)' = NumChunks(phase) /\ ExpectedFrames(phase)' = ExpectedFrames(phase)
    BY <1>1 DEF NumChunks, ExpectedFrames
<1>6. next' = NumChunks(phase) => partialSamples' = 0
    <2> SUFFICES ASSUME next' = NumChunks(phase)
                 PROVE  partialSamples' = 0
        OBVIOUS
    <2>1. phase \in 1..2 /\ next \in 0..NumChunks(phase)
        BY DEF RunnerTypeOK
    <2>2. NumChunks(phase) \in Nat
        BY <2>1, Lengths
    <2>3. next = NumChunks(phase) - 1
        BY <1>1, <2>1, <2>2
    <2>4. chunk.end_of_stream
        BY <2>3 DEF Produced, IsLastChunk
    <2> QED
        BY <1>3, <2>4, LastPush
<1>7. InPhase'
    BY <1>1, <1>4, <1>5, <1>6 DEF Course, InPhase
<1> QED
    BY <1>1, <1>7 DEF Course, AtStart, BetweenPhases, NothingYet, NoGaps

\* What the consumer takes in a phase is the next frame of the phase, on time.
LEMMA TakenIsNext ==
    ASSUME RunnerTypeOK, IInv, TimeLine, Course, NEW p \in Pullers, ConsumerTakes(p)
    PROVE  /\ Stamped(Head(framesQ)).epoch = phase - 1
           /\ Stamped(Head(framesQ)).pts_ms = result[phase].frames * 40
<1>1. /\ place = "run" /\ framesQ # <<>> /\ worker # "crashed"
    BY DEF ConsumerTakes, PullFrame, HearsCrash
<1>2. /\ loop = "ready" /\ state = "active" /\ event = epoch /\ epoch = phase - 1
      /\ nextVideoSequence = result[phase].frames
    BY <1>1 DEF Course, InPhase
<1>3. /\ framesQ \in Seq(Frame) /\ nextVideoSequence \in Nat /\ epoch \in Nat
    BY DEF IInv, TypeOK
<1>4. Serving
    BY <1>1, <1>2, <1>3 DEF Serving, ResetsKept
<1>5. Head(framesQ) = framesQ[1] /\ 1 \in 1..Len(framesQ)
    BY <1>1, <1>3, HeadTailFacts
<1>6. framesQ[1].pts_ms = 40 * (nextVideoSequence + 1 - 1)
    BY <1>4, <1>5 DEF TimeLine, OnTime
<1>7. 40 * (nextVideoSequence + 1 - 1) = nextVideoSequence * 40
    BY <1>3
<1> QED
    BY <1>2, <1>5, <1>6, <1>7 DEF Stamped

LEMMA TakeCourse ==
    ASSUME RunnerTypeOK, IInv, TimeLine, Course, NEW p \in Pullers, ConsumerTakes(p)
    PROVE  Course'
<1> PICK frame : frame = Stamped(Head(framesQ))
    OBVIOUS
<1> PICK r : r = result[phase]
    OBVIOUS
<1>1. frame.epoch = phase - 1 /\ frame.pts_ms = r.frames * 40
    BY TakenIsNext
<1>2. /\ place = "run" /\ UNCHANGED <<duration, phase, next>>
      /\ PullFrame(p)
      /\ \E late \in LateMs : result' = [result EXCEPT ![phase] = Recorded(r, frame, late)]
      /\ AfterFrame(r.frames + 1)
    BY <1>1 DEF ConsumerTakes
<1>3. PICK late \in LateMs : result' = [result EXCEPT ![phase] = Recorded(r, frame, late)]
    BY <1>2
<1>4. /\ phase \in 1..2 /\ result \in [1..2 -> PhaseResult] /\ r \in PhaseResult
    BY DEF RunnerTypeOK
<1>5. r.frames \in Nat /\ r.pts_gaps = 0
    BY <1>4 DEF PhaseResult, Course, NoGaps
<1>6. /\ Recorded(r, frame, late).frames = r.frames + 1
      /\ Recorded(r, frame, late).pts_gaps = 0
    BY <1>1, <1>5 DEF Recorded
<1>7. /\ result'[phase].frames = r.frames + 1
      /\ result'[phase].pts_gaps = 0
      /\ \A i \in 1..2 : i # phase => result'[i] = result[i]
    BY <1>3, <1>4, <1>6
<1>8. /\ nextVideoSequence' = nextVideoSequence + 1
      /\ UNCHANGED <<state, epoch, nextAudioSequence, loop, event, partialSamples>>
    BY <1>2 DEF PullFrame, runtime
<1>9. /\ loop = "ready" /\ state = "active" /\ event = epoch /\ epoch = phase - 1
      /\ nextAudioSequence = next /\ nextVideoSequence = r.frames
      /\ next = NumChunks(phase) => partialSamples = 0
    BY <1>2 DEF Course, InPhase
<1>10. NumChunks(phase)' = NumChunks(phase) /\ ExpectedFrames(phase)' = ExpectedFrames(phase)
    BY <1>2 DEF NumChunks, ExpectedFrames
<1>11. /\ place' = "run" => r.frames + 1 < ExpectedFrames(phase)
       /\ place' \in {"run", "reset", "close"}
       /\ place' = "reset" => phase = 1
    BY <1>2 DEF AfterFrame
<1>12. InPhase'
    BY <1>2, <1>7, <1>8, <1>9, <1>10, <1>11 DEF InPhase
<1>13. BetweenPhases'
    BY <1>2, <1>8, <1>9, <1>11 DEF BetweenPhases
<1>14. NothingYet' /\ NoGaps'
    BY <1>2, <1>4, <1>7 DEF Course, NothingYet, NoGaps
<1>15. AtStart'
    BY <1>11 DEF AtStart
<1> QED
    BY <1>12, <1>13, <1>14, <1>15 DEF Course

LEMMA ResetCourse ==
    ASSUME RunnerTypeOK, TypeOK, Course, RunReset
    PROVE  Course'
<1>1. /\ place = "reset" /\ place' = "resetting" /\ event' = event + 1
      /\ state' = "active" /\ UNCHANGED <<phase, result, epoch>>
    BY DEF RunReset, ResetCall, RequireActive, adapter
<1> QED
    BY <1>1 DEF Course, AtStart, InPhase, BetweenPhases, NothingYet, NoGaps

LEMMA ResettingCourse ==
    ASSUME RunnerTypeOK, IInv, TimeLine, Course, Resetting
    PROVE  Course'
<1>1. /\ place = "resetting" /\ ResetSteps /\ UNCHANGED <<duration, result>>
      /\ \/ loop' # "ready" /\ UNCHANGED <<place, phase>>
         \/ loop' = "ready" /\ epoch' = epoch /\ place' = "close" /\ UNCHANGED phase
         \/ loop' = "ready" /\ epoch' # epoch /\ place' = "run" /\ phase' = 2 /\ next' = 0
    BY DEF Resetting, Raise, SecondPhase
<1>2. phase = 1 /\ event = 1 /\ epoch = 0 /\ state = "active" /\ result[2].frames = 0
    BY <1>1 DEF Course, BetweenPhases, NothingYet
<1>3. UNCHANGED <<event, state>>
    BY <1>1 DEF ResetSteps, ResetDrainAudio, ResetNoWorker, ResetAsk, ResetDone, ResetTimeout,
        ResetDrainFrames, ResetReturn, runtime, adapter
<1>4. CASE loop' # "ready" /\ UNCHANGED <<place, phase>>
    <2>1. epoch' = epoch
        BY <1>1, <1>4 DEF ResetSteps, ResetDrainAudio, ResetNoWorker, ResetAsk, ResetDone,
            ResetTimeout, ResetDrainFrames, ResetReturn, adapter
    <2> QED
        BY <1>1, <1>2, <1>3, <1>4, <2>1
        DEF Course, AtStart, InPhase, BetweenPhases, NothingYet, NoGaps
<1>5. CASE place' = "close" /\ UNCHANGED phase
    BY <1>1, <1>5, OverCourse
<1>6. CASE loop' = "ready" /\ epoch' # epoch /\ place' = "run" /\ phase' = 2 /\ next' = 0
    <2>1. ResetNoWorker \/ ResetReturn
        BY <1>1, <1>6 DEF ResetSteps, ResetDrainAudio, ResetAsk, ResetDone, ResetTimeout,
            ResetDrainFrames, adapter
    <2>2. /\ epoch' = epoch + 1 /\ nextAudioSequence' = 0 /\ nextVideoSequence' = 0
        BY <2>1 DEF ResetNoWorker, ResetReturn, NextEpoch
    <2>3. NumChunks(2) >= 2 /\ NumChunks(2) \in Nat /\ ExpectedFrames(2) \in Nat
          /\ ExpectedFrames(2) >= 1
        BY Lengths
    <2>4. NumChunks(2)' = NumChunks(2) /\ ExpectedFrames(2)' = ExpectedFrames(2)
        BY <1>1 DEF NumChunks, ExpectedFrames
    <2>5. NumChunks(phase)' = NumChunks(2) /\ ExpectedFrames(phase)' = ExpectedFrames(2)
        BY <1>6, <2>4
    <2>6. InPhase'
        BY <1>1, <1>2, <1>3, <1>6, <2>2, <2>3, <2>5 DEF InPhase
    <2> QED
        BY <1>1, <1>6, <2>6 DEF Course, AtStart, BetweenPhases, NothingYet, NoGaps
<1> QED
    BY <1>1, <1>4, <1>5, <1>6

LEMMA CourseStep ==
    ASSUME RunnerTypeOK, IInv, TimeLine, Course, [RunnerNext]_allVars
    PROVE  Course'
<1>0. TypeOK /\ Grid
    BY DEF IInv, TimeLine
<1>1. CASE GpuBusy \/ RunClose \/ Closing \/ Mux \/ Judge
    <2>1. /\ UNCHANGED <<phase, result>>
          /\ place' \in {"closing", "mux", "judge", "exited"}
        BY <1>1 DEF GpuBusy, RunClose, Closing, Mux, Judge, Exit
    <2> QED
        BY <2>1, OverCourse
<1>2. ASSUME NEW p \in Pullers, ConsumerRaises(p)
      PROVE  Course'
    BY <1>2, OverCourse DEF ConsumerRaises, Raise
<1>3. CASE \/ \E p \in Pullers : ConsumerPulls(p)
           \/ WorkerThread
           \/ UNCHANGED allVars
    <2>1. Still
        BY <1>3 DEF ConsumerPulls, PullStart, WorkerThread, WorkerSteps, WorkerLoads, WorkerGets,
            WorkerResets, WorkerEmits, WorkerCrashes, allVars, vars, runner, adapter, runtime,
            Still
    <2> QED
        BY <2>1, StillCourse
<1>4. CASE RunStart
    BY <1>4, StartCourse
<1>5. CASE Produce
    BY <1>0, <1>5, ProduceCourse
<1>6. ASSUME NEW p \in Pullers, ConsumerTakes(p)
      PROVE  Course'
    BY <1>6, TakeCourse
<1>7. CASE RunReset
    BY <1>0, <1>7, ResetCourse
<1>8. CASE Resetting
    BY <1>8, ResettingCourse
<1> QED
    BY <1>1, <1>2, <1>3, <1>4, <1>5, <1>6, <1>7, <1>8 DEF RunnerNext, MainSteps, ConsumerPolls

LEMMA CourseInit == RunnerInit => Course
<1> SUFFICES ASSUME RunnerInit
             PROVE  Course
    OBVIOUS
<1>1. /\ result = [i \in 1..2 |-> NoResult] /\ place = "start" /\ phase = 1 /\ next = 0
      /\ Init
    BY DEF RunnerInit
<1>2. \A i \in 1..2 : result[i].frames = 0 /\ result[i].pts_gaps = 0
    BY <1>1 DEF NoResult
<1>3. AtStart /\ InPhase /\ BetweenPhases
    BY <1>1, <1>2 DEF AtStart, InPhase, BetweenPhases, Init
<1> QED
    BY <1>2, <1>3 DEF Course, NothingYet, NoGaps

LEMMA CourseHolds == RunnerSpec => []Course
    BY CourseInit, CourseStep, RunnerTypeCorrect, SessionHolds, PTL DEF RunnerSpec

\* No phase ever sees a gap in the PTS or a frame of another epoch, whatever the
\* worker still generates when the reset begins and wherever it dies: the
\* runner's own checks never trip (run_headless.py:116-121, 240-249,
\* flashhead_runtime.py:132-146).
THEOREM NoGapSeenCorrect == RunnerSpec => []NoGapSeen
<1>1. Course => NoGapSeen
    BY DEF Course, InPhase, NoGaps, NoGapSeen
<1> QED
    BY <1>1, CourseHolds, PTL

-----------------------------------------------------------------------------
(***************************************************************************)
(* The audio of a phase makes its frames.                                  *)
(***************************************************************************)

\* The frames of a duration are no longer than its chunks with their padding.
LEMMA FramesOfAudio ==
    ASSUME NEW ms \in Nat, NEW padded \in Nat, NEW frames \in Nat, NEW pushed \in Nat,
           NEW expected \in Nat, pushed = ms \div 20, expected = (ms * 25) \div 1000,
           Settles(pushed, padded, frames, 0)
    PROVE  expected <= frames
<1>1. 20 * pushed > ms - 20
    <2>1. 20 * (ms \div 20) > ms - 20
        OBVIOUS
    <2> QED
        BY <2>1
<1>2. 1000 * expected <= ms * 25
    <2>1. 1000 * ((ms * 25) \div 1000) <= ms * 25
        OBVIOUS
    <2> QED
        BY <2>1
<1>3. \A n, m, e, s, f \in Nat :
          /\ 20 * m > n - 20
          /\ 1000 * e <= n * 25
          /\ 320 * m + 16 * s = 0 + 640 * f
          => e <= f
    OBVIOUS
<1>4. 320 * pushed + 16 * padded = 0 + 640 * frames
    BY DEF Settles
<1> QED
    BY <1>1, <1>2, <1>3, <1>4

\* All the audio of a phase, padded to whole slices, is no shorter than its frames.
LEMMA FramesOfPhase ==
    ASSUME RunnerTypeOK, NEW i \in 1..2, NEW padded \in Nat, NEW frames \in Nat,
           Settles(NumChunks(i), padded, frames, 0)
    PROVE  ExpectedFrames(i) <= frames
<1>1. duration[i] \in Nat /\ NumChunks(i) \in Nat /\ ExpectedFrames(i) \in Nat
    BY Lengths
<1>2. /\ NumChunks(i) = duration[i] \div 20
      /\ ExpectedFrames(i) = (duration[i] * 25) \div 1000
    BY DEF NumChunks, ExpectedFrames, AudioChunkMs
<1> QED
    BY <1>1, <1>2, FramesOfAudio

\* A phase never starves on the producer: a consumer that still waits when all
\* audio was pushed has frames in the making, for every duration, also one that
\* is no whole number of chunks, slices or frames (run_headless.py:99-109, 113,
\* 183-186).
THEOREM AudioSufficesCorrect == RunnerSpec => []AudioSuffices
<1>1. RunnerTypeOK /\ IInv /\ TimeLine /\ Course => AudioSuffices
    <2> SUFFICES ASSUME RunnerTypeOK, IInv, TimeLine, Course,
                        place = "run", next = NumChunks(phase), worker = "idle",
                        workerQ = <<>>, framesQ = <<>>
                 PROVE  FALSE
        BY DEF AudioSuffices
    <2>1. /\ loop = "ready" /\ state = "active" /\ event = epoch
          /\ nextAudioSequence = NumChunks(phase)
          /\ nextVideoSequence = result[phase].frames
          /\ nextVideoSequence < ExpectedFrames(phase)
          /\ partialSamples = 0
        BY DEF Course, InPhase
    <2>2. /\ nextAudioSequence \in Nat /\ nextVideoSequence \in Nat /\ epoch \in Nat
          /\ chunkIdx \in Nat /\ silence \in Nat /\ offset = 0
        BY DEF IInv, TypeOK, TimeLine, Grid
    <2>3. Serving
        BY <2>1, <2>2 DEF Serving, ResetsKept
    <2>4. Slices = chunkIdx /\ Len(framesQ) = 0
        BY <2>2, EmptyFacts DEF Slices, InWork
    <2>5. /\ Settles(nextAudioSequence, silence, SliceLen * chunkIdx, 0)
          /\ nextVideoSequence + 0 = SliceLen * chunkIdx + 0
        BY <2>1, <2>2, <2>3, <2>4 DEF TimeLine, Accounted
    <2>6. SliceLen * chunkIdx = nextVideoSequence
        BY <2>2, <2>5, SliceFacts
    <2>7. Settles(NumChunks(phase), silence, nextVideoSequence, 0)
        BY <2>1, <2>5, <2>6
    <2>8. phase \in 1..2 /\ ExpectedFrames(phase) \in Nat
        BY Lengths DEF RunnerTypeOK
    <2>9. ExpectedFrames(phase) <= nextVideoSequence
        BY <2>2, <2>7, <2>8, FramesOfPhase
    <2> QED
        BY <2>1, <2>2, <2>8, <2>9
<1> QED
    BY <1>1, RunnerTypeCorrect, SessionHolds, CourseHolds, PTL

-----------------------------------------------------------------------------
(***************************************************************************)
(* What the gates are asked of.  A phase that main() has left behind is    *)
(* whole, and the finally clause stands between the phases and any exit.   *)
(***************************************************************************)

WholePhase(i) == result[i].frames = ExpectedFrames(i)

\* An exception is on its way, or the close is the regular one.
RegularClose == place \in {"close", "closing"} /\ exitCode # 1

Verdict ==
    /\ place \in {"start", "run", "reset", "resetting", "mux", "judge"} => exitCode = -1
    /\ place \in {"close", "closing"} => exitCode \in {-1, 1}
    /\ phase = 2 \/ place \in {"reset", "resetting"} => WholePhase(1)
    /\ RegularClose \/ place \in {"mux", "judge"} => phase = 2 /\ WholePhase(2)
    /\ place \in {"mux", "judge"} => state = "closed"
    /\ place = "exited" => state = "closed" \/ exitCode = 2
    /\ place = "exited" /\ exitCode = 0 => phase = 2 /\ WholePhase(2) /\ state = "closed"

LEMMA SameWhole ==
    ASSUME UNCHANGED <<duration, result>>
    PROVE  WholePhase(1)' = WholePhase(1) /\ WholePhase(2)' = WholePhase(2)
    BY DEF WholePhase, ExpectedFrames

LEMMA VerdictInit == RunnerInit => Verdict
    BY DEF RunnerInit, Verdict, RegularClose

\* The consumer leaves a phase with exactly the frames it expected.
LEMMA TakeVerdict ==
    ASSUME RunnerTypeOK, IInv, TimeLine, Course, Verdict, NEW p \in Pullers, ConsumerTakes(p)
    PROVE  Verdict'
<1> PICK frame : frame = Stamped(Head(framesQ))
    OBVIOUS
<1> PICK r : r = result[phase]
    OBVIOUS
<1>1. frame.epoch = phase - 1
    BY TakenIsNext
<1>2. /\ place = "run" /\ UNCHANGED <<duration, phase, exitCode>>
      /\ PullFrame(p)
      /\ \E late \in LateMs : result' = [result EXCEPT ![phase] = Recorded(r, frame, late)]
      /\ AfterFrame(r.frames + 1)
    BY <1>1 DEF ConsumerTakes
<1>3. PICK late \in LateMs : result' = [result EXCEPT ![phase] = Recorded(r, frame, late)]
    BY <1>2
<1>4. phase \in 1..2 /\ result \in [1..2 -> PhaseResult] /\ r.frames \in Nat
    BY DEF RunnerTypeOK, PhaseResult
<1>5. /\ result'[phase].frames = r.frames + 1
      /\ \A i \in 1..2 : i # phase => result'[i] = result[i]
    BY <1>3, <1>4 DEF Recorded
<1>6. r.frames < ExpectedFrames(phase) /\ ExpectedFrames(phase) \in Nat
    BY <1>2, <1>4, Lengths DEF Course, InPhase
<1>7. \A i \in 1..2 : ExpectedFrames(i)' = ExpectedFrames(i)
    BY <1>2 DEF ExpectedFrames
<1>8. \/ place' = "run"
      \/ /\ place' = IF phase = 1 THEN "reset" ELSE "close"
         /\ result'[phase].frames = ExpectedFrames(phase)
    BY <1>2, <1>4, <1>5, <1>6 DEF AfterFrame
<1>9. exitCode = -1 /\ exitCode' = -1 /\ (phase = 2 => WholePhase(1))
    BY <1>2 DEF Verdict
<1>10. /\ phase = 2 => WholePhase(1)'
       /\ place' # "run" => WholePhase(phase)'
    BY <1>2, <1>4, <1>5, <1>7, <1>8, <1>9 DEF WholePhase
<1>11. CASE place' = "run"
    BY <1>2, <1>4, <1>9, <1>10, <1>11 DEF Verdict, RegularClose
<1>12. CASE phase = 1 /\ place' = "reset"
    <2>1. WholePhase(1)'
        BY <1>2, <1>10, <1>12
    <2> QED
        BY <1>2, <1>9, <1>12, <2>1 DEF Verdict, RegularClose
<1>13. CASE phase = 2 /\ place' = "close"
    <2>1. WholePhase(1)' /\ WholePhase(2)'
        BY <1>2, <1>10, <1>13
    <2> QED
        BY <1>2, <1>9, <1>13, <2>1 DEF Verdict, RegularClose
<1> QED
    BY <1>4, <1>8, <1>11, <1>12, <1>13

LEMMA VerdictStep ==
    ASSUME RunnerTypeOK, IInv, TimeLine, Course, Verdict, [RunnerNext]_allVars
    PROVE  Verdict'
<1>1. ASSUME NEW p \in Pullers, ConsumerTakes(p)
      PROVE  Verdict'
    BY <1>1, TakeVerdict
<1>2. CASE GpuBusy \/ RunStart \/ Produce \/ RunReset \/ RunClose
    <2>1. UNCHANGED <<duration, result, phase>>
        BY <1>2 DEF GpuBusy, RunStart, Produce, RunReset, RunClose
    <2>2. place = "close" /\ exitCode # 1 => RegularClose
        BY DEF RegularClose
    <2> QED
        BY <1>2, <2>1, <2>2, SameWhole
        DEF Verdict, RegularClose, GpuBusy, RunStart, Produce, RunReset, RunClose, Exit
<1>3. ASSUME NEW p \in Pullers, ConsumerRaises(p)
      PROVE  Verdict'
    BY <1>3, SameWhole DEF Verdict, RegularClose, ConsumerRaises, Raise
<1>4. CASE Resetting
    <2>1. /\ place = "resetting" /\ exitCode = -1 /\ WholePhase(1) /\ phase = 1
          /\ UNCHANGED <<duration, result>>
        BY <1>4 DEF Resetting, Verdict, Course, BetweenPhases
    <2> QED
        BY <1>4, <2>1, SameWhole DEF Resetting, Raise, SecondPhase, Verdict, RegularClose
<1>5. CASE Closing
    <2>1. /\ place = "closing" /\ CloseSteps /\ UNCHANGED <<duration, phase, result, exitCode>>
          /\ place' = IF loop' # "ready" THEN "closing"
                      ELSE IF exitCode = 1 THEN "exited" ELSE "mux"
        BY <1>5 DEF Closing
    <2>2. loop' = "ready" => state' = "closed"
        BY <2>1 DEF CloseSteps, CloseJoin, CloseDrainAudio, CloseAudioDrained,
            CloseDrainFrames, CloseReturn
    <2>3. exitCode \in {-1, 1} /\ (exitCode # 1 => phase = 2 /\ WholePhase(2))
        BY <2>1 DEF Verdict, RegularClose
    <2> QED
        BY <2>1, <2>2, <2>3, SameWhole DEF Verdict, RegularClose
<1>6. CASE Mux \/ Judge
    <2>1. /\ UNCHANGED <<duration, phase, result, state>>
          /\ place \in {"mux", "judge"} /\ place' \in {"judge", "exited"}
          /\ place' = "judge" => exitCode' = exitCode
        BY <1>6 DEF Mux, Judge, Exit, vars, adapter
    <2> QED
        BY <2>1, SameWhole DEF Verdict, RegularClose
<1>7. CASE \/ \E p \in Pullers : ConsumerPulls(p)
           \/ WorkerThread
           \/ UNCHANGED allVars
    <2>1. Still
        BY <1>7 DEF ConsumerPulls, PullStart, WorkerThread, WorkerSteps, WorkerLoads, WorkerGets,
            WorkerResets, WorkerEmits, WorkerCrashes, allVars, vars, runner, adapter, runtime,
            Still
    <2>2. UNCHANGED <<duration, result, phase, place, exitCode, state>>
        BY <2>1 DEF Still, runner
    <2> QED
        BY <2>2, SameWhole DEF Verdict, RegularClose
<1> QED
    BY <1>1, <1>2, <1>3, <1>4, <1>5, <1>6, <1>7 DEF RunnerNext, MainSteps, ConsumerPolls

LEMMA VerdictHolds == RunnerSpec => []Verdict
    BY VerdictInit, VerdictStep, RunnerTypeCorrect, SessionHolds, CourseHolds, PTL
    DEF RunnerSpec

\* A run is judged only on two whole phases and a closed session, for every pair
\* of durations, and wherever the worker dies: the gate on the frames can never
\* fail, and every other way out closes the session first
\* (run_headless.py:143-152, 220-262, 306-325).
THEOREM JudgedWholeCorrect == RunnerSpec => []JudgedWhole
<1>1. RunnerTypeOK /\ Course /\ Verdict => JudgedWhole
    <2> SUFFICES ASSUME RunnerTypeOK, Course, Verdict
                 PROVE  JudgedWhole
        OBVIOUS
    <2>1. WholePhase(1) /\ WholePhase(2) => ContinuousGate
        BY DEF WholePhase, ContinuousGate, Course, NoGaps
    <2>2. exitCode = 0 => place = "exited"
        BY DEF Verdict, RunnerTypeOK, Places
    <2> QED
        BY <2>1, <2>2 DEF Verdict, JudgedWhole
<1> QED
    BY <1>1, RunnerTypeCorrect, CourseHolds, VerdictHolds, PTL

\* The verdict PASS is out of reach of the default model type, "lite": either the
\* playback gate fails or the program ends on the attribute that no PhaseResult
\* has, whatever the worker did (run_headless.py:312-318, 327, 347, 358).
THEOREM LiteNeverPasses ==
    ASSUME ModelType = "lite"
    PROVE  RunnerSpec => [](exitCode # 0)
<1>1. RunnerInit => exitCode # 0
    BY DEF RunnerInit
<1>2. exitCode # 0 /\ [RunnerNext]_allVars => (exitCode # 0)'
    <2> SUFFICES ASSUME exitCode # 0, [RunnerNext]_allVars
                 PROVE  exitCode' # 0
        OBVIOUS
    <2>1. CASE Judge
        <3>1. PlaybackGate => GateRaises
            BY DEF GateRaises
        <3> QED
            BY <2>1, <3>1 DEF Judge, Exit
    <2>2. CASE GpuBusy \/ RunStart \/ Produce \/ RunReset \/ RunClose \/ Closing \/ Mux
        BY <2>2 DEF GpuBusy, RunStart, Produce, RunReset, RunClose, Closing, Mux, Exit
    <2>3. CASE Resetting
        BY <2>3 DEF Resetting, Raise
    <2>4. ASSUME NEW p \in Pullers, ConsumerPulls(p) \/ ConsumerPolls(p)
          PROVE  exitCode' # 0
        BY <2>4 DEF ConsumerPulls, ConsumerPolls, ConsumerTakes, ConsumerRaises, Raise, runner
    <2>5. CASE WorkerThread \/ UNCHANGED allVars
        BY <2>5 DEF WorkerThread, allVars, runner
    <2> QED
        BY <2>1, <2>2, <2>3, <2>4, <2>5 DEF RunnerNext, MainSteps
<1> QED
    BY <1>1, <1>2, PTL DEF RunnerSpec

-----------------------------------------------------------------------------
(***************************************************************************)
(* What a PASS says of the worker.                                         *)
(***************************************************************************)

\* Who has frames has a worker.
PhaseHasWorker == phase = 2 \/ result[1].frames > 0 => worker # "none"

LEMMA WorkerStays ==
    ASSUME TypeOK, Lifecycle, worker # "none", [Next]_vars
    PROVE  worker' # "none"
<1>1. ASSUME NEW chunk \in Chunks, PushAudio(chunk)
      PROVE  worker' # "none"
    BY <1>1, PushEffect
<1>2. ~\E c \in Configs : Start(c)
    BY DEF Start, Lifecycle
<1> QED
    BY <1>1, <1>2
    DEF Next, PullStart, PullFrame, PullRaises, PullTimeout, ResetCall, ResetSteps,
        ResetDrainAudio, ResetNoWorker, ResetAsk, ResetDone, ResetTimeout, ResetDrainFrames,
        ResetReturn, CloseUnopened, CloseCall, CloseSteps, CloseJoin, CloseDrainAudio,
        CloseAudioDrained, CloseDrainFrames, CloseReturn, WorkerSteps, WorkerLoads, WorkerGets,
        AfterGet, WorkerResets, AfterReset, WorkerEmits, WorkerCrashes, vars, thread

LEMMA NeverCrashed ==
    ASSUME ~MayCrash
    PROVE  Spec => [](worker # "crashed")
<1>1. Init => worker # "crashed"
    BY DEF Init
<1>2. TypeOK /\ worker # "crashed" /\ [Next]_vars => (worker # "crashed")'
    <2> SUFFICES ASSUME TypeOK, worker # "crashed", [Next]_vars
                 PROVE  worker' # "crashed"
        OBVIOUS
    <2>1. ASSUME NEW chunk \in Chunks, PushAudio(chunk)
          PROVE  worker' # "crashed"
        BY <2>1, PushEffect
    <2> QED
        BY <2>1
        DEF Next, Start, PullStart, PullFrame, PullRaises, PullTimeout, ResetCall, ResetSteps,
            ResetDrainAudio, ResetNoWorker, ResetAsk, ResetDone, ResetTimeout, ResetDrainFrames,
            ResetReturn, CloseUnopened, CloseCall, CloseSteps, CloseJoin, CloseDrainAudio,
            CloseAudioDrained, CloseDrainFrames, CloseReturn, WorkerSteps, WorkerLoads,
            WorkerGets, AfterGet, WorkerResets, AfterReset, WorkerEmits, WorkerCrashes, vars,
            thread
<1> QED
    BY <1>1, <1>2, TypeCorrect, PTL DEF Spec

\* A frame can only be taken of a worker's.
LEMMA TakenOfWorker ==
    ASSUME RunnerTypeOK, IInv, TimeLine, Course, NEW p \in Pullers, ConsumerTakes(p)
    PROVE  worker # "none"
<1> SUFFICES ASSUME worker = "none"
             PROVE  FALSE
    OBVIOUS
<1>1. place = "run" /\ framesQ # <<>>
    BY DEF ConsumerTakes, PullFrame
<1>2. loop = "ready" /\ state = "active" /\ event = epoch /\ framesQ \in Seq(Frame)
      /\ nextVideoSequence \in Nat /\ epoch \in Nat
    BY <1>1 DEF Course, InPhase, IInv, TypeOK
<1>3. Serving
    BY <1>2 DEF Serving, ResetsKept
<1>4. chunkIdx = 0 /\ offset = 0
    BY DEF TimeLine, Grid
<1>5. nextVideoSequence + Len(framesQ) = SliceLen * 0 + 0
    BY <1>3, <1>4 DEF TimeLine, Accounted
<1>6. SliceLen * 0 = 0
    BY Layout
<1>7. Len(framesQ) \in Nat /\ Len(framesQ) # 0
    BY <1>1, <1>2, HeadTailFacts
<1> QED
    BY <1>2, <1>5, <1>6, <1>7

LEMMA PhaseHasWorkerStep ==
    ASSUME RunnerTypeOK, IInv, TimeLine, Lifecycle, Course, Verdict, PhaseHasWorker,
           [RunnerNext]_allVars
    PROVE  PhaseHasWorker'
<1>0. TypeOK /\ [Next]_vars
    BY SessionStep DEF IInv
<1>1. worker # "none" => worker' # "none"
    BY <1>0, WorkerStays
<1>2. ASSUME UNCHANGED <<phase, result>>
      PROVE  PhaseHasWorker'
    BY <1>1, <1>2 DEF PhaseHasWorker
<1>3. ASSUME NEW p \in Pullers, ConsumerTakes(p)
      PROVE  PhaseHasWorker'
    BY <1>1, <1>3, TakenOfWorker DEF PhaseHasWorker
<1>4. CASE Resetting
    <2>1. /\ place = "resetting" /\ result' = result
        BY <1>4 DEF Resetting
    <2>2. result[1].frames = ExpectedFrames(1) /\ ExpectedFrames(1) \in Nat
          /\ ExpectedFrames(1) >= 1
        BY <2>1, Lengths DEF Verdict, WholePhase
    <2>3. worker # "none"
        BY <2>2 DEF PhaseHasWorker
    <2> QED
        BY <1>1, <2>3 DEF PhaseHasWorker
<1> QED
    BY <1>2, <1>3, <1>4
    DEF RunnerNext, GpuBusy, MainSteps, RunStart, RunReset, RunClose, Closing, Mux, Judge,
        Produce, ConsumerPulls, ConsumerPolls, ConsumerRaises, WorkerThread, runner, allVars

\* Unless the worker can die or outlast its join, a PASS does mean what the
\* runner says of it, no crash and a clean close: the worker was started and has
\* ended (run_headless.py:14, 321-325, flashhead_runtime.py:148-156).
THEOREM PassMeansCleanCorrect ==
    ASSUME ~MayCrash, ~JoinMayTimeout
    PROVE  RunnerSpec => []PassMeansClean
<1>1. RunnerInit => PhaseHasWorker
    BY DEF RunnerInit, PhaseHasWorker, NoResult
<1>2. /\ RunnerTypeOK /\ IInv /\ TimeLine /\ Lifecycle /\ Course /\ Verdict /\ PhaseHasWorker
      /\ [RunnerNext]_allVars
      => PhaseHasWorker'
    BY PhaseHasWorkerStep
<1>3. RunnerTypeOK /\ Lifecycle /\ worker # "crashed" /\ Verdict /\ PhaseHasWorker
        => PassMeansClean
    <2> SUFFICES ASSUME RunnerTypeOK, Lifecycle, worker # "crashed", Verdict, PhaseHasWorker,
                        place = "exited", exitCode = 0
                 PROVE  worker = "exited"
        BY DEF PassMeansClean
    <2>1. state = "closed" /\ phase = 2
        BY DEF Verdict
    <2>2. worker # "none"
        BY <2>1 DEF PhaseHasWorker
    <2> QED
        BY <2>1, <2>2 DEF Lifecycle, Stopped
<1>4. RunnerSpec => [](Lifecycle /\ worker # "crashed")
    BY RunIsSession, LifecycleHolds, NeverCrashed, PTL
<1> QED
    BY <1>1, <1>2, <1>3, <1>4, RunnerTypeCorrect, SessionHolds, CourseHolds, VerdictHolds, PTL
    DEF RunnerSpec
=============================================================================
