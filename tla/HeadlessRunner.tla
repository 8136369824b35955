--------------------------- MODULE HeadlessRunner ---------------------------
(***************************************************************************)
(* run_headless.py of experiments/system-interface/flashhead-headless-001: *)
(* the program that drives a FlashHead session end to end and judges it.   *)
(* It is modelled as the environment of FlashHead, whose actions it takes: *)
(* phase 1, a reset, phase 2 and a close.  In a phase a producer task      *)
(* pushes the audio while the consumer pulls the frames it expects; then   *)
(* the producer is cancelled, also when the consumer raises.               *)
(*                                                                         *)
(* Durations are whole milliseconds.  Of real time only the lateness of a  *)
(* frame is kept, by how much it arrives after its place in the playback   *)
(* schedule: it is chosen from LateMs, and since arrivals are in order it  *)
(* drops by at most one frame from one frame to the next.                  *)
(***************************************************************************)
EXTENDS FlashHead

CONSTANTS
    Durations,          \* --duration and --post-reset-seconds, in milliseconds
    StillFrames,        \* the frames kept as stills, by number
    ModelType,          \* --model-type
    LateMs              \* how late frames may be

ASSUME DurationAssumption == \A ms \in Durations : ms \in Nat /\ ms >= VideoFrameMs
ASSUME StillAssumption == StillFrames \subseteq Nat
ASSUME ModelTypeAssumption == ModelType \in {"lite", "pro"}
ASSUME LateAssumption == LateMs \subseteq Nat

\* A chunk as the producer makes it.
Produced(i, last) ==
    [sequence |-> i, pts_ms |-> i * 20, whole |-> TRUE, end_of_stream |-> last]

\* All the chunks of a phase are among those a client may push.
ASSUME ProducedAssumption ==
    \A ms \in Durations : \A i \in 0..((ms \div AudioChunkMs) - 1), last \in BOOLEAN :
        Produced(i, last) \in Chunks

VARIABLES
    duration,           \* of each phase, as the command line gives it
    place, phase,       \* where main() stands
    next,               \* the chunk the producer pushes next
    result,             \* the PhaseResult of each phase
    quick,              \* whether the reset took less than two seconds
    exitCode

runner  == <<duration, place, phase, next, result, quick, exitCode>>
allVars == <<vars, runner>>

Places == {"start", "run", "reset", "resetting", "close", "closing",
           "mux", "judge", "exited"}

PhaseResult ==
    [frames : Nat, pts_gaps : Nat, starve_count : Nat, late : Nat,
     playback_intervals_ms : Seq(Nat)]

NoResult == [frames |-> 0, pts_gaps |-> 0, starve_count |-> 0, late |-> 0,
             playback_intervals_ms |-> <<>>]

NumChunks(i) == duration[i] \div AudioChunkMs
ExpectedFrames(i) == (duration[i] * 25) \div 1000

RunnerInit ==
    /\ Init
    /\ duration \in [1..2 -> Durations]
    /\ place = "start"
    /\ phase = 1
    /\ next = 0
    /\ result = [i \in 1..2 |-> NoResult]
    /\ quick = FALSE
    /\ exitCode = -1

-----------------------------------------------------------------------------
Exit(code) == place' = "exited" /\ exitCode' = code

\* Mutant: there is no finally clause.
Raise_Exits == Exit(1)

\* An exception leaves the phases for the finally clause, which closes.
Raise == place' = "close" /\ exitCode' = 1

GpuBusy ==
    /\ place = "start"
    /\ Exit(2)
    /\ UNCHANGED <<vars, duration, phase, next, result, quick>>

RunStart ==
    /\ place = "start"
    /\ \E c \in Configs : Start(c)
    /\ place' = "run"
    /\ UNCHANGED <<duration, phase, next, result, quick, exitCode>>

\* Mutant: the flag is computed one chunk too late and never set.
IsLastChunk_OffByOne(i) == i = NumChunks(phase)

IsLastChunk(i) == i = NumChunks(phase) - 1

Produce ==
    /\ place = "run"
    /\ next < NumChunks(phase)
    /\ PushAudio(Produced(next, IsLastChunk(next)))
    /\ next' = next + 1
    /\ UNCHANGED <<duration, place, phase, result, quick, exitCode>>

ConsumerPulls(p) ==
    /\ place = "run"
    /\ \A q \in Pullers : pull[q] = "idle"
    /\ PullStart(p, "timed")
    /\ UNCHANGED runner

\* What the consumer records of a frame that is "late" milliseconds late.
Recorded(r, frame, late) ==
    [frames       |-> r.frames + 1,
     pts_gaps     |-> r.pts_gaps + IF frame.pts_ms # r.frames * 40 THEN 1 ELSE 0,
     starve_count |-> r.starve_count + IF late > 40 THEN 1 ELSE 0,
     late         |-> late,
     playback_intervals_ms |->
         IF r.frames = 0 THEN <<>>
         ELSE Append(r.playback_intervals_ms, 40 + late - r.late)]

\* The first frame of a phase starts the schedule and is never late.
MayBeLate(r, late) ==
    IF r.frames = 0 THEN late = 0 ELSE late + VideoFrameMs >= r.late

\* With the last frame the phase is over and its producer cancelled.
AfterFrame(frames) ==
    place' = IF frames < ExpectedFrames(phase) THEN "run"
             ELSE IF phase = 1 THEN "reset" ELSE "close"

ConsumerTakes(p) ==
    /\ place = "run"
    /\ PullFrame(p)
    /\ LET frame == Stamped(Head(framesQ))
           r == result[phase]
       IN  \/ /\ frame.epoch # phase - 1
              /\ Raise
              /\ UNCHANGED result
           \/ /\ frame.epoch = phase - 1
              /\ \E late \in LateMs :
                    /\ MayBeLate(r, late)
                    /\ result' = [result EXCEPT ![phase] = Recorded(r, frame, late)]
              /\ AfterFrame(r.frames + 1)
              /\ UNCHANGED exitCode
    /\ UNCHANGED <<duration, phase, next, quick>>

\* The worker is dead or no frame came within the timeout.
ConsumerRaises(p) ==
    /\ place = "run"
    /\ PullRaises(p) \/ PullTimeout(p)
    /\ Raise
    /\ UNCHANGED <<duration, phase, next, result, quick>>

RunReset ==
    /\ place = "reset"
    /\ ResetCall
    /\ place' = "resetting"
    /\ UNCHANGED <<duration, phase, next, result, quick, exitCode>>

\* Mutant: the phases share the producer's count.
SecondPhase_KeepsCount == phase' = 2 /\ UNCHANGED next

SecondPhase == phase' = 2 /\ next' = 0

\* reset opens the next epoch or raises, with the event loop blocked meanwhile.
Resetting ==
    /\ place = "resetting"
    /\ ResetSteps
    /\ \/ loop' # "ready" /\ UNCHANGED <<place, phase, next, quick, exitCode>>
       \/ /\ loop' = "ready" /\ epoch' = epoch
          /\ Raise
          /\ UNCHANGED <<phase, next, quick>>
       \/ /\ loop' = "ready" /\ epoch' # epoch
          /\ place' = "run"
          /\ SecondPhase
          /\ quick' \in BOOLEAN
          /\ UNCHANGED exitCode
    /\ UNCHANGED <<duration, result>>

RunClose ==
    /\ place = "close"
    /\ CloseCall
    /\ place' = "closing"
    /\ UNCHANGED <<duration, phase, next, result, quick, exitCode>>

\* After close an exception of the phases goes on and ends the program.
Closing ==
    /\ place = "closing"
    /\ CloseSteps
    /\ place' = IF loop' # "ready" THEN "closing"
                ELSE IF exitCode = 1 THEN "exited" ELSE "mux"
    /\ UNCHANGED <<duration, phase, next, result, quick, exitCode>>

\* Muxing the recording with its audio; a failure raises CalledProcessError.
Mux ==
    /\ place = "mux"
    /\ \/ place' = "judge" /\ UNCHANGED exitCode
       \/ Exit(1)
    /\ UNCHANGED <<vars, duration, phase, next, result, quick>>

-----------------------------------------------------------------------------
\* The gates.

\* Python's round(): halves go to the even neighbour.
RoundedHundredth(n) ==
    (n \div 100) + IF n % 100 > 50 \/ (n % 100 = 50 /\ (n \div 100) % 2 = 1)
                   THEN 1 ELSE 0

\* The member of a sorted copy at place round(p/100 * len) - 1.
Percentile(values, p) ==
    LET rank == RoundedHundredth(p * Len(values))
        NotAbove(v) == Cardinality({i \in 1..Len(values) : values[i] <= v})
        Members == {values[i] : i \in 1..Len(values)}
    IN  IF values = <<>> THEN 0
        ELSE CHOOSE v \in Members :
                /\ NotAbove(v) >= rank
                /\ \A w \in Members : NotAbove(w) >= rank => v <= w

ContinuousGate ==
    \A i \in 1..2 : result[i].frames = ExpectedFrames(i) /\ result[i].pts_gaps = 0

PlaybackGate ==
    /\ Percentile(result[1].playback_intervals_ms, 95) <= 40
    /\ result[1].starve_count = 0

CloseGate ==
    /\ state = "closed"
    /\ \A s \in StillFrames : s < result[1].frames + result[2].frames

\* For "lite" the second gate goes on to phase1.realtime_factor_steady, which
\* no PhaseResult has: AttributeError.
GateRaises == PlaybackGate /\ ModelType = "lite"

Judge ==
    /\ place = "judge"
    /\ Exit(IF ~GateRaises /\ ContinuousGate /\ PlaybackGate /\ quick /\ CloseGate
            THEN 0 ELSE 1)
    /\ UNCHANGED <<vars, duration, phase, next, result, quick>>

-----------------------------------------------------------------------------
ConsumerPolls(p) == ConsumerTakes(p) \/ ConsumerRaises(p)

MainSteps ==
    RunStart \/ RunReset \/ Resetting \/ RunClose \/ Closing \/ Mux \/ Judge

WorkerThread == (WorkerSteps \/ WorkerCrashes) /\ UNCHANGED runner

RunnerNext ==
    \/ GpuBusy
    \/ MainSteps
    \/ Produce
    \/ \E p \in Pullers : ConsumerPulls(p)
    \/ \E p \in Pullers : ConsumerPolls(p)
    \/ WorkerThread

\* The program, its tasks and the worker are scheduled; timers fire.
RunnerSpec ==
    /\ RunnerInit
    /\ [][RunnerNext]_allVars
    /\ WF_allVars(MainSteps)
    /\ WF_allVars(Produce)
    /\ WF_allVars(\E p \in Pullers : ConsumerPulls(p))
    /\ WF_allVars(\E p \in Pullers : ConsumerPolls(p))
    /\ WF_allVars(WorkerSteps /\ UNCHANGED runner)

-----------------------------------------------------------------------------
\* Every variable keeps its type.
RunnerTypeOK ==
    /\ duration \in [1..2 -> Durations]
    /\ place \in Places
    /\ phase \in 1..2
    /\ next \in 0..NumChunks(phase)
    /\ result \in [1..2 -> PhaseResult]
    /\ quick \in BOOLEAN
    /\ exitCode \in {-1, 0, 1, 2}

\* Whatever the worker still generates of phase 1 when the reset begins, no
\* frame of it reaches phase 2, and no phase ever sees a gap: the runner's own
\* checks of epoch and PTS never trip (run_headless.py:116-121, 240-249,
\* flashhead_runtime.py:132-146).
NoGapSeen ==
    /\ \A i \in 1..2 : result[i].pts_gaps = 0
    /\ place = "run" => epoch = phase - 1

\* The audio of a phase, its last chunk padded, always makes the frames the
\* phase waits for: a consumer that still waits when all audio was pushed has
\* frames in the making (run_headless.py:99-109, 113, 183-186).
AudioSuffices ==
    (place = "run" /\ next = NumChunks(phase) /\ worker = "idle") =>
        workerQ # <<>> \/ framesQ # <<>>

\* A run is judged only on two whole phases and a closed session: an exception, a
\* dead worker or a reset given up never reaches the gates, and ends the program
\* with its session closed too (run_headless.py:143-152, 220-262, 306-325).
JudgedWhole ==
    /\ place \in {"mux", "judge"} => ContinuousGate /\ state = "closed"
    /\ place = "exited" => state = "closed" \/ exitCode = 2
    /\ exitCode = 0 => ContinuousGate /\ state = "closed"

\* However a run ends, by its verdict, a dead worker, a reset or a close that
\* gives up on it: it ends, with its session closed (run_headless.py:143-152,
\* 220-257).
RunEnds == (place = "run") ~> (place = "exited" /\ state = "closed")

\* "0 = all gates passed, 1 = run completed but a gate failed"
\* (run_headless.py:17).  The factor of line 287 is at least one exactly when
\* the last of several frames is at most one frame late.
RealtimeGate ==
    ModelType = "lite" => result[1].frames > 1 /\ result[1].late <= 40

PassExitsZero ==
    [][ (place = "judge" /\ place' = "exited" /\ ContinuousGate /\ PlaybackGate
            /\ RealtimeGate /\ quick /\ CloseGate) => exitCode' = 0 ]_allVars

\* "G4  no worker crash, clean close" (run_headless.py:14).
PassMeansClean == (place = "exited" /\ exitCode = 0) => worker = "exited"
=============================================================================
