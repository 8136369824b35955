---------------------- MODULE FlashHeadContractProofs ----------------------
(***************************************************************************)
(* What a FlashHead session promises in time: frames are backed by their   *)
(* audio, follow its time line until a reset gives up, stop with close,    *)
(* and so the session implements SessionContract.  Proved for every        *)
(* layout, every set of inputs and pullers, with resets that time out and  *)
(* a worker that may die; where close matters, for a worker that ends      *)
(* within the time close waits for it (~JoinMayTimeout).                   *)
(***************************************************************************)
EXTENDS FlashHeadProofs, FiniteSetTheorems, FunctionTheorems

-----------------------------------------------------------------------------
(***************************************************************************)
(* The inductive invariants.                                               *)
(***************************************************************************)

\* Before start there is no worker; when close is through the worker has ended
\* and nothing is left to be pulled.
Lifecycle ==
    /\ state \in {"created", "active", "closed"}
    /\ loop # "ready" => state = "active"
    /\ state = "created" => worker = "none"
    /\ state = "closed" \/ loop \in {"closeAudio", "closeFrames"} => Stopped
    /\ state = "closed" => framesQ = <<>>

\* Samples come in whole pushes; outside a slice no frame has been put.
Grid ==
    /\ \E k \in Nat : partialSamples = k * 320
    /\ loop \in {"resetWait", "resetFrames"} => partialSamples = 0
    /\ silence \in Nat
    /\ worker \notin {"generating", "crashed"} => offset = 0
    /\ worker = "none" => chunkIdx = 0

\* The frames that what is queued and in the worker's hands will make.
Coming == SliceLen * AudioQueued + IF worker = "generating" THEN SliceLen - offset ELSE 0

\* What was pushed and padded makes so many frames and leaves so much over
\* (640 samples for a frame, 320 for a push, 16 for a millisecond).
Covers(pushed, padded, frames, partial) ==
    640 * frames + partial <= 320 * pushed + 16 * padded

\* Every frame given, queued or to come is backed by audio of this epoch.
Backed ==
    Covers(nextAudioSequence, silence,
           nextVideoSequence + Len(framesQ) + Coming, partialSamples)

InReset == loop \in {"resetDrain", "resetWait", "resetFrames"}

\* The adapter's epoch never runs ahead of the resets asked for.
EpochBehind == event >= epoch + IF InReset THEN 1 ELSE 0

\* A reset that is confirmed has restarted the worker's chunk counter.
Restarted ==
    loop = "resetFrames" \/ (loop = "resetWait" /\ done = event) => chunkIdx = 0

\* The session serves calls and nothing has failed so far.
Serving == ResetsKept /\ loop = "ready" /\ state # "closed" /\ worker # "crashed"

OnlyAudio ==
    Serving => /\ \A i \in 1..Len(workerQ) : workerQ[i].kind = "audio"
               /\ worker # "resetting"

\* The slices that are finished, in work and to come.
Slices == chunkIdx + InWork + Len(workerQ)

\* What was pushed and padded is just so many frames and what is left over.
Settles(pushed, padded, frames, partial) ==
    320 * pushed + 16 * padded = partial + 640 * frames

Accounted ==
    Serving =>
        /\ Settles(nextAudioSequence, silence, SliceLen * Slices, partialSamples)
        /\ nextVideoSequence + Len(framesQ) = SliceLen * chunkIdx + offset

\* When the slice of this number begins.
Begins(slice) == 40 * (SliceLen * slice)

\* Audio and frames stand at their moment of the audio clock.
OnTime ==
    Serving =>
        /\ \A i \in 1..Len(workerQ) :
            workerQ[i].due_ms = Begins(chunkIdx + InWork + i - 1)
        /\ worker = "generating" => job.due_ms = Begins(chunkIdx)
        /\ \A i \in 1..Len(framesQ) :
            /\ framesQ[i].pts_ms = 40 * (nextVideoSequence + i - 1)
            /\ framesQ[i].due_ms = framesQ[i].pts_ms

-----------------------------------------------------------------------------
(***************************************************************************)
(* The chunks in the worker's queue, counted.                              *)
(***************************************************************************)

AudioIn(q) == {i \in 1..Len(q) : q[i].kind = "audio"}

LEMMA CountIs == AudioQueued = Cardinality(AudioIn(workerQ))
    BY DEF AudioQueued, AudioIn

LEMMA CountFinite ==
    ASSUME NEW q \in Seq(Item)
    PROVE  IsFiniteSet(AudioIn(q)) /\ Cardinality(AudioIn(q)) \in Nat
<1>1. IsFiniteSet(1..Len(q))
    BY FS_Interval
<1>2. AudioIn(q) \in SUBSET (1..Len(q))
    BY DEF AudioIn
<1>3. IsFiniteSet(AudioIn(q))
    BY <1>1, <1>2, FS_Subset
<1> QED
    BY <1>3, FS_CardinalityType

LEMMA CountNone ==
    ASSUME NEW q \in Seq(Item), \A i \in 1..Len(q) : q[i].kind # "audio"
    PROVE  Cardinality(AudioIn(q)) = 0
<1>1. AudioIn(q) = {}
    BY DEF AudioIn
<1> QED
    BY <1>1, FS_EmptySet

LEMMA CountEmpty == Cardinality(AudioIn(<<>>)) = 0
<1>1. <<>> \in Seq(Item) /\ 1..Len(<<>>) = {}
    BY EmptyFacts
<1> QED
    BY <1>1, CountNone

LEMMA CountAll ==
    ASSUME NEW q \in Seq(Item), \A i \in 1..Len(q) : q[i].kind = "audio"
    PROVE  Cardinality(AudioIn(q)) = Len(q)
<1>1. AudioIn(q) = 1..Len(q)
    BY DEF AudioIn
<1>2. Len(q) \in Nat
    OBVIOUS
<1>3. Cardinality(1..Len(q)) = IF 1 > Len(q) THEN 0 ELSE Len(q) - 1 + 1
    BY <1>2, FS_Interval
<1> QED
    BY <1>1, <1>2, <1>3

LEMMA CountAppend ==
    ASSUME NEW q \in Seq(Item), NEW x \in Item
    PROVE  Cardinality(AudioIn(Append(q, x))) =
               Cardinality(AudioIn(q)) + IF x.kind = "audio" THEN 1 ELSE 0
<1>1. /\ Len(q) \in Nat
      /\ Len(Append(q, x)) = Len(q) + 1
      /\ Append(q, x)[Len(q) + 1] = x
      /\ \A i \in 1..Len(q) : Append(q, x)[i] = q[i]
    BY AppendFacts
<1>2. CASE x.kind = "audio"
    <2>1. AudioIn(Append(q, x)) = AudioIn(q) \cup {Len(q) + 1}
        BY <1>1, <1>2 DEF AudioIn
    <2>2. Len(q) + 1 \notin AudioIn(q)
        BY <1>1 DEF AudioIn
    <2> QED
        BY <1>2, <2>1, <2>2, CountFinite, FS_AddElement
<1>3. CASE x.kind # "audio"
    <2>1. AudioIn(Append(q, x)) = AudioIn(q)
        BY <1>1, <1>3 DEF AudioIn
    <2>2. Cardinality(AudioIn(q)) \in Nat
        BY CountFinite
    <2> QED
        BY <1>3, <2>1, <2>2
<1> QED
    BY <1>2, <1>3

LEMMA CountTail ==
    ASSUME NEW q \in Seq(Item), q # <<>>
    PROVE  Cardinality(AudioIn(q)) =
               Cardinality(AudioIn(Tail(q))) + IF Head(q).kind = "audio" THEN 1 ELSE 0
<1>1. /\ Head(q) = q[1]
      /\ Tail(q) \in Seq(Item)
      /\ Len(q) \in Nat \ {0}
      /\ Len(Tail(q)) = Len(q) - 1
      /\ \A i \in 1..Len(Tail(q)) : Tail(q)[i] = q[i + 1]
    BY HeadTailFacts
<1> PICK T : T = AudioIn(Tail(q))
    OBVIOUS
<1> PICK R : R = AudioIn(q) \ {1}
    OBVIOUS
<1>2. IsFiniteSet(T) /\ Cardinality(T) \in Nat /\ IsFiniteSet(AudioIn(q))
      /\ Cardinality(AudioIn(q)) \in Nat
    BY <1>1, CountFinite
<1>3. \A i \in Int : i \in T <=> i + 1 \in R
    BY <1>1 DEF AudioIn
<1>4. T \subseteq Int /\ R \subseteq Int
    BY DEF AudioIn
<1> PICK F : F = [i \in T |-> i + 1]
    OBVIOUS
<1>5. F \in [T -> R] /\ \A a, b \in T : F[a] = F[b] => a = b
    BY <1>3, <1>4
<1>6. \A r \in R : \E i \in T : F[i] = r
    <2> TAKE r \in R
    <2>1. r - 1 \in Int /\ (r - 1) + 1 = r
        BY <1>4
    <2>2. r - 1 \in T
        BY <1>3, <2>1
    <2>3. F[r - 1] = r
        BY <2>1, <2>2
    <2> QED
        BY <2>2, <2>3
<1>7. F \in Bijection(T, R)
    BY <1>5, <1>6, Fun_IsBij
<1>8. ExistsBijection(T, R)
    BY <1>7, Fun_ExistsBij
<1>9. Cardinality(R) = Cardinality(T)
    BY <1>2, <1>8, FS_Bijection
<1>10. Cardinality(R) = IF 1 \in AudioIn(q) THEN Cardinality(AudioIn(q)) - 1
                                             ELSE Cardinality(AudioIn(q))
    BY <1>2, FS_RemoveElement
<1>11. 1 \in AudioIn(q) <=> Head(q).kind = "audio"
    BY <1>1 DEF AudioIn
<1> QED
    BY <1>2, <1>9, <1>10, <1>11

-----------------------------------------------------------------------------
(***************************************************************************)
(* The life of a session.                                                  *)
(***************************************************************************)

LEMMA LifecycleStep ==
    ASSUME ~JoinMayTimeout, IInv, Lifecycle, [Next]_vars
    PROVE  Lifecycle'
<1>0. TypeOK /\ CurrentFrames
    BY DEF IInv
<1>a. ASSUME UNCHANGED <<state, loop, framesQ>>,
             worker' = worker \/ (worker # "none" /\ ~Stopped)
      PROVE  Lifecycle'
    <2>1. CASE worker' = worker
        BY <1>a, <2>1 DEF Lifecycle, Stopped
    <2>2. CASE worker # "none" /\ ~Stopped
        BY <1>a, <2>2 DEF Lifecycle
    <2> QED
        BY <1>a, <2>1, <2>2
<1>b. ASSUME UNCHANGED <<state, worker>>, state = "active",
             loop' \in {"closeAudio", "closeFrames"} => Stopped
      PROVE  Lifecycle'
    BY <1>b DEF Lifecycle, Stopped
<1>1. ASSUME NEW c \in Configs, Start(c)
      PROVE  Lifecycle'
    BY <1>1 DEF Start, thread, Lifecycle
<1>2. ASSUME NEW chunk \in Chunks, PushAudio(chunk)
      PROVE  Lifecycle'
    BY <1>0, <1>2, PushEffect DEF RequireActive, Lifecycle
<1>3. ASSUME NEW p \in Pullers, NEW mode \in {"untimed", "timed"}, PullStart(p, mode)
      PROVE  Lifecycle'
    BY <1>3, <1>a DEF PullStart, adapter, thread
<1>4. ASSUME NEW p \in Pullers, PullFrame(p)
      PROVE  Lifecycle'
    <2>1. /\ state' = state /\ loop' = loop /\ worker' = worker /\ loop = "ready"
          /\ framesQ # <<>>
        BY <1>4 DEF PullFrame, Polls, thread
    <2>2. state # "closed"
        BY <2>1 DEF Lifecycle
    <2> QED
        BY <2>1, <2>2 DEF Lifecycle
<1>5. ASSUME NEW p \in Pullers, PullRaises(p) \/ PullTimeout(p)
      PROVE  Lifecycle'
    BY <1>5, <1>a DEF PullRaises, PullTimeout, adapter, thread
<1>6. CASE ResetCall
    BY <1>6, <1>b DEF ResetCall, RequireActive, adapter, thread
<1>7. CASE ResetDrainAudio \/ CloseDrainAudio
    BY <1>7, <1>a DEF ResetDrainAudio, CloseDrainAudio, adapter, thread
<1>8. CASE ResetNoWorker \/ ResetReturn
    <2>1. state' = state /\ worker' = worker /\ loop # "ready" /\ loop' = "ready"
        BY <1>8 DEF ResetNoWorker, ResetReturn, thread
    <2> QED
        BY <1>b, <2>1 DEF Lifecycle
<1>9. CASE ResetAsk \/ ResetDone \/ ResetTimeout
    <2>1. /\ state' = state /\ worker' = worker /\ loop # "ready"
          /\ loop' \notin {"closeAudio", "closeFrames"}
        BY <1>9 DEF ResetAsk, ResetDone, ResetTimeout, adapter, thread
    <2> QED
        BY <1>b, <2>1 DEF Lifecycle
<1>10. CASE ResetDrainFrames \/ CloseDrainFrames
    <2>1. UNCHANGED <<state, loop, worker>> /\ loop # "ready"
        BY <1>10 DEF ResetDrainFrames, CloseDrainFrames, adapter, thread
    <2> QED
        BY <2>1 DEF Lifecycle, Stopped
<1>11. CASE CloseUnopened
    BY <1>0, <1>11 DEF CloseUnopened, thread, Lifecycle, CurrentFrames, Stopped
<1>12. CASE CloseCall
    BY <1>12, <1>b DEF CloseCall, AfterCloseCall, RequireActive, Stopped, adapter, thread
<1>13. CASE CloseJoin \/ CloseAudioDrained
    <2>1. state' = state /\ worker' = worker /\ loop # "ready" /\ Stopped
        BY <1>13 DEF CloseJoin, CloseAudioDrained, JoinReturns, Lifecycle, Stopped, adapter, thread
    <2> QED
        BY <1>b, <2>1 DEF Lifecycle
<1>14. CASE CloseReturn
    BY <1>14 DEF CloseReturn, thread, Lifecycle, Stopped
<1>15. CASE WorkerLoads \/ WorkerGets \/ WorkerResets \/ WorkerCrashes
    <2>1. /\ UNCHANGED <<state, loop, framesQ>>
          /\ worker \in {"loading", "idle", "resetting", "generating"}
        BY <1>15 DEF WorkerLoads, WorkerGets, WorkerResets, WorkerCrashes, adapter
    <2> QED
        BY <1>a, <2>1 DEF Stopped
<1>16. CASE WorkerEmits
    BY <1>16 DEF WorkerEmits, Lifecycle, Stopped, adapter
<1>17. CASE UNCHANGED vars
    BY <1>17, <1>a DEF vars, adapter, thread
<1> QED
    BY <1>1, <1>2, <1>3, <1>4, <1>5, <1>6, <1>7, <1>8, <1>9, <1>10, <1>11, <1>12, <1>13,
       <1>14, <1>15, <1>16, <1>17
    DEF Next, ResetSteps, CloseSteps, WorkerSteps

LEMMA LifecycleHolds ==
    ASSUME ~JoinMayTimeout
    PROVE  Spec => []Lifecycle
<1>1. Init => Lifecycle
    BY DEF Init, Lifecycle, Stopped
<1>2. IInv /\ Lifecycle /\ [Next]_vars => Lifecycle'
    BY LifecycleStep
<1> QED
    BY <1>1, <1>2, Invariance, PTL DEF Spec

\* Only a pull that finds a frame delivers.
LEMMA Deliveries ==
    ASSUME IInv, [Next]_vars
    PROVE  UNCHANGED delivered \/ \E p \in Pullers : PullFrame(p)
<1>1. ASSUME NEW chunk \in Chunks, PushAudio(chunk)
      PROVE  UNCHANGED delivered
    BY <1>1, PushEffect DEF IInv
<1>2. CASE \/ \E c \in Configs : Start(c)
           \/ \E p \in Pullers, mode \in {"untimed", "timed"} : PullStart(p, mode)
           \/ \E p \in Pullers : PullRaises(p) \/ PullTimeout(p)
    BY <1>2 DEF Start, PullStart, PullRaises, PullTimeout
<1>3. CASE ResetCall \/ ResetSteps
    BY <1>3 DEF ResetCall, ResetSteps, ResetDrainAudio, ResetNoWorker, ResetAsk,
        ResetDone, ResetTimeout, ResetDrainFrames, ResetReturn
<1>4. CASE CloseUnopened \/ CloseCall \/ CloseSteps
    BY <1>4 DEF CloseUnopened, CloseCall, CloseSteps, CloseJoin,
        CloseDrainAudio, CloseAudioDrained, CloseDrainFrames, CloseReturn
<1>5. CASE WorkerSteps \/ WorkerCrashes
    BY <1>5 DEF WorkerSteps, WorkerLoads, WorkerGets, WorkerResets, WorkerEmits, WorkerCrashes
<1>6. CASE UNCHANGED vars
    BY <1>6 DEF vars
<1> QED
    BY <1>1, <1>2, <1>3, <1>4, <1>5, <1>6 DEF Next

\* Once closed a session delivers nothing more, not even to a pull that was
\* waiting when close was called, provided the worker stops within the time that
\* close waits for it (flashhead_runtime.py:148-156).
THEOREM QuietAfterCloseCorrect ==
    ASSUME ~JoinMayTimeout
    PROVE  Spec => QuietAfterClose
<1>1. IInv /\ Lifecycle /\ [Next]_vars => (state = "closed" => delivered' = delivered)
    <2> SUFFICES ASSUME IInv, Lifecycle, [Next]_vars, state = "closed"
                 PROVE  delivered' = delivered
        OBVIOUS
    <2>1. framesQ = <<>>
        BY DEF Lifecycle
    <2> QED
        BY <2>1, Deliveries DEF PullFrame
<1> QED
    BY <1>1, Invariance, LifecycleHolds, PTL DEF Spec, QuietAfterClose

-----------------------------------------------------------------------------
(***************************************************************************)
(* Samples and milliseconds.                                               *)
(***************************************************************************)

LEMMA Milliseconds ==
    \A n \in Int : (16 * n) \div SamplesPerMs = n
    BY DEF SamplesPerMs

LEMMA SliceFacts ==
    /\ SliceLen \in Nat \ {0}
    /\ \A n \in Int : SliceLen * n \in Int
    /\ \A n \in Int : SliceLen * (n + 1) = SliceLen * n + SliceLen
    /\ \A n \in Int : n * SliceLen = SliceLen * n
    /\ SliceLen * 0 = 0
<1>1. SliceLen \in Nat \ {0}
    BY Layout
<1> QED
    BY <1>1

\* A push in samples: it is gathered, completes a chunk or is padded to one.
LEMMA PushExact ==
    ASSUME TypeOK, Grid, NEW chunk \in Chunks, PushAudio(chunk)
    PROVE  LET due == ClockAt(partialSamples + 320)
           IN  /\ 16 * due = 320 * (nextAudioSequence + 1) + 16 * silence - (partialSamples + 320)
               /\ due \in Int
               /\ silence' \in Nat
               /\ silence' >= silence
               /\ \E k \in Nat : partialSamples' = k * 320
               /\ \/ /\ workerQ' = workerQ /\ silence' = silence
                     /\ partialSamples' = partialSamples + 320
                  \/ /\ workerQ' = Append(workerQ, AudioItem(due, epoch))
                     /\ silence' = silence
                     /\ partialSamples' = partialSamples + 320 - 640 * SliceLen
                  \/ /\ workerQ' = Append(workerQ, AudioItem(due, epoch))
                     /\ 16 * silence' = 16 * silence + 640 * SliceLen - (partialSamples + 320)
                     /\ partialSamples' = 0
<1>1. /\ SliceLen \in Nat \ {0} /\ ChunkSamples = 640 * SliceLen /\ PushSamples = 320
      /\ nextAudioSequence \in Nat /\ silence \in Nat /\ partialSamples \in Nat
    BY Layout DEF TypeOK, Grid
<1> PICK samples : samples = partialSamples + 320
    OBVIOUS
<1>2. PICK k \in Nat : partialSamples = k * 320
    BY DEF Grid
<1>3. samples = 16 * (20 * (k + 1)) /\ samples = (k + 1) * 320 /\ samples \in Nat
    BY <1>1, <1>2
<1>4. samples \div SamplesPerMs = 20 * (k + 1)
    BY <1>3, Milliseconds
<1>5. ChunkSamples - samples = 16 * (40 * SliceLen - 20 * (k + 1))
    BY <1>1, <1>3
<1>6. (ChunkSamples - samples) \div SamplesPerMs = 40 * SliceLen - 20 * (k + 1)
    BY <1>1, <1>5, Milliseconds
<1> PICK due : due = ClockAt(samples)
    OBVIOUS
<1>7. /\ 16 * due = 320 * (nextAudioSequence + 1) + 16 * silence - samples
      /\ due \in Int
    BY <1>1, <1>3, <1>4 DEF ClockAt, AudioChunkMs
<1>8. \/ samples >= ChunkSamples /\ TakeFull(samples)
      \/ samples < ChunkSamples /\ TakePadded(samples)
      \/ samples < ChunkSamples /\ Gather(samples)
    BY <1>1 DEF PushAudio
<1>9. CASE samples >= ChunkSamples /\ TakeFull(samples)
    <2>1. /\ workerQ' = Append(workerQ, AudioItem(due, epoch)) /\ silence' = silence
          /\ partialSamples' = samples - 640 * SliceLen
        BY <1>1, <1>9 DEF TakeFull
    <2>2. k + 1 - 2 * SliceLen \in Nat
        BY <1>1, <1>3, <1>9
    <2>3. partialSamples' = (k + 1 - 2 * SliceLen) * 320
        BY <1>1, <1>3, <2>1
    <2>4. \E m \in Nat : partialSamples' = m * 320
        BY <2>2, <2>3
    <2>5. partialSamples' = partialSamples + 320 - 640 * SliceLen
        BY <1>1, <1>3, <2>1
    <2>6. silence' \in Nat /\ silence' >= silence
        BY <1>1, <2>1
    <2> QED
        BY <1>7, <2>1, <2>4, <2>5, <2>6
<1>10. CASE samples < ChunkSamples /\ TakePadded(samples)
    <2>1. /\ workerQ' = Append(workerQ, AudioItem(due, epoch)) /\ partialSamples' = 0
          /\ silence' = silence + (40 * SliceLen - 20 * (k + 1))
        BY <1>6, <1>10 DEF TakePadded
    <2>2. 40 * SliceLen - 20 * (k + 1) \in Nat
        BY <1>1, <1>3, <1>10
    <2>3. 16 * silence' = 16 * silence + 640 * SliceLen - samples
          /\ silence' \in Nat /\ silence' >= silence
        BY <1>1, <1>3, <2>1, <2>2
    <2>4. partialSamples' = 0 * 320
        BY <2>1
    <2> QED
        BY <1>1, <1>7, <2>1, <2>3, <2>4
<1>11. CASE samples < ChunkSamples /\ Gather(samples)
    <2>1. workerQ' = workerQ /\ silence' = silence /\ partialSamples' = samples
        BY <1>11 DEF Gather
    <2> QED
        BY <1>1, <1>3, <1>7, <2>1
<1> QED
    BY <1>8, <1>9, <1>10, <1>11

LEMMA GridStep ==
    ASSUME IInv, Grid, [Next]_vars
    PROVE  Grid'
<1>0. TypeOK /\ SliceLen \in Nat \ {0} /\ offset \in 0..(SliceLen - 1)
    BY Layout DEF IInv, TypeOK
<1>a. ASSUME UNCHANGED <<partialSamples, silence, chunkIdx, offset>>,
             loop' \in {"resetWait", "resetFrames"} => loop \in {"resetWait", "resetFrames"},
             worker' = worker \/ (worker = "none" /\ worker' # "none")
               \/ (worker # "none" /\ worker' \notin {"none"}
                   /\ (worker' \in {"generating", "crashed"}
                        \/ worker \notin {"generating", "crashed"}))
      PROVE  Grid'
    BY <1>a DEF Grid
<1>b. ASSUME partialSamples' = 0, UNCHANGED <<chunkIdx, offset, worker>>,
             silence' = silence \/ silence' = 0
      PROVE  Grid'
    <2>1. \E k \in Nat : partialSamples' = k * 320
        BY <1>b
    <2> QED
        BY <1>b, <2>1 DEF Grid
<1>1. ASSUME NEW c \in Configs, Start(c)
      PROVE  Grid'
    BY <1>1, <1>a DEF Start, runtime, thread
<1>2. ASSUME NEW chunk \in Chunks, PushAudio(chunk)
      PROVE  Grid'
    <2>1. /\ loop' = "ready" /\ UNCHANGED <<chunkIdx, offset>>
          /\ worker' = IF worker = "none" THEN "loading" ELSE worker
        BY <1>0, <1>2, PushEffect DEF RequireActive
    <2>2. silence' \in Nat /\ \E k \in Nat : partialSamples' = k * 320
        BY <1>0, <1>2, PushExact
    <2> QED
        BY <2>1, <2>2 DEF Grid
<1>3. ASSUME NEW p \in Pullers, NEW mode \in {"untimed", "timed"}, PullStart(p, mode)
      PROVE  Grid'
    BY <1>3, <1>a DEF PullStart, runtime, thread
<1>4. ASSUME NEW p \in Pullers, PullFrame(p) \/ PullRaises(p) \/ PullTimeout(p)
      PROVE  Grid'
    BY <1>4, <1>a DEF PullFrame, PullRaises, PullTimeout, runtime, thread
<1>5. CASE ResetCall \/ ResetDrainAudio \/ ResetDone \/ ResetTimeout \/ ResetDrainFrames
    BY <1>5, <1>a DEF ResetCall, ResetDrainAudio, ResetDone, ResetTimeout, ResetDrainFrames,
                      runtime, thread
<1>6. CASE ResetNoWorker \/ ResetAsk
    BY <1>6, <1>b DEF ResetNoWorker, ResetAsk, NextEpoch, thread
<1>7. CASE ResetReturn
    BY <1>7, <1>b DEF ResetReturn, NextEpoch, runtime, thread, Grid
<1>8. CASE CloseUnopened \/ CloseCall \/ CloseJoin \/ CloseDrainAudio \/ CloseAudioDrained
           \/ CloseDrainFrames \/ CloseReturn
    BY <1>8, <1>a DEF CloseUnopened, CloseCall, AfterCloseCall, CloseJoin, CloseDrainAudio,
                      CloseAudioDrained, CloseDrainFrames, CloseReturn, runtime, thread
<1>9. CASE WorkerLoads \/ WorkerGets \/ WorkerCrashes
    BY <1>9, <1>a DEF WorkerLoads, WorkerGets, AfterGet, WorkerCrashes, runtime
<1>10. CASE WorkerResets
    BY <1>10 DEF WorkerResets, RestartChunks, AfterReset, runtime, Grid
<1>11. CASE WorkerEmits
    BY <1>0, <1>11 DEF WorkerEmits, runtime, Grid
<1>12. CASE UNCHANGED vars
    BY <1>12, <1>a DEF vars, runtime, thread
<1> QED
    BY <1>1, <1>2, <1>3, <1>4, <1>5, <1>6, <1>7, <1>8, <1>9, <1>10, <1>11, <1>12
    DEF Next, ResetSteps, CloseSteps, WorkerSteps

LEMMA GridHolds == Spec => []Grid
<1>1. Init => Grid
    <2> SUFFICES ASSUME Init
                 PROVE  Grid
        OBVIOUS
    <2>1. partialSamples = 0 * 320
        BY DEF Init
    <2>2. \E k \in Nat : partialSamples = k * 320
        BY <2>1
    <2> QED
        BY <2>2 DEF Init, Grid
<1>2. IInv /\ Grid /\ [Next]_vars => Grid'
    BY GridStep
<1> QED
    BY <1>1, <1>2, Invariance, PTL DEF Spec

-----------------------------------------------------------------------------
(***************************************************************************)
(* No frame without its audio.                                             *)
(***************************************************************************)

\* The frames to come, with the audio chunks counted.
LEMMA ComingIs ==
    ASSUME TypeOK
    PROVE  /\ Coming = SliceLen * Cardinality(AudioIn(workerQ))
                         + IF worker = "generating" THEN SliceLen - offset ELSE 0
           /\ Cardinality(AudioIn(workerQ)) \in Nat
           /\ SliceLen * Cardinality(AudioIn(workerQ)) \in Nat
           /\ Coming \in Nat
<1>1. Coming = SliceLen * Cardinality(AudioIn(workerQ))
                 + IF worker = "generating" THEN SliceLen - offset ELSE 0
    BY CountIs DEF Coming
<1>2. workerQ \in Seq(Item) /\ SliceLen \in Nat \ {0} /\ offset \in 0..(SliceLen - 1)
    BY Layout DEF TypeOK
<1>3. Cardinality(AudioIn(workerQ)) \in Nat
    BY <1>2, CountFinite
<1>4. SliceLen * Cardinality(AudioIn(workerQ)) \in Nat
    BY <1>2, <1>3
<1>5. Coming \in Nat
    BY <1>1, <1>2, <1>4
<1> QED
    BY <1>1, <1>3, <1>4, <1>5

LEMMA ComingIsNext ==
    Coming' = SliceLen * Cardinality(AudioIn(workerQ'))
                + IF worker' = "generating" THEN SliceLen - offset' ELSE 0
    BY DEF Coming, AudioQueued, AudioIn

LEMMA LessIsCovered ==
    ASSUME NEW pushed \in Int, NEW padded \in Int, NEW frames \in Int, NEW partial \in Int,
           NEW fewer \in Int, NEW less \in Int,
           Covers(pushed, padded, frames, partial), fewer <= frames, less <= partial
    PROVE  Covers(pushed, padded, fewer, less)
    BY DEF Covers

\* Whoever only takes audio and frames away leaves the rest backed.
LEMMA BackedLess ==
    ASSUME TypeOK, TypeOK', Backed, silence \in Nat,
           UNCHANGED <<nextAudioSequence, silence>>,
           partialSamples' <= partialSamples,
           nextVideoSequence' + Len(framesQ') + Coming'
               <= nextVideoSequence + Len(framesQ) + Coming
    PROVE  Backed'
<1>1. /\ nextAudioSequence \in Nat /\ partialSamples \in Nat /\ partialSamples' \in Nat
      /\ nextVideoSequence \in Nat /\ nextVideoSequence' \in Nat
      /\ Len(framesQ) \in Nat /\ Len(framesQ') \in Nat
    <2>1. framesQ \in Seq(Frame) /\ framesQ' \in Seq(Frame) /\ ChunkSamples \in Nat
        BY Layout DEF TypeOK
    <2> QED
        BY <2>1 DEF TypeOK
<1>2. Coming \in Nat /\ Coming' \in Int
    <2>1. Coming \in Nat
        BY ComingIs
    <2>2. workerQ' \in Seq(Item) /\ SliceLen \in Nat /\ offset' \in Int
        BY Layout DEF TypeOK
    <2>3. Cardinality(AudioIn(workerQ')) \in Nat
        BY <2>2, CountFinite
    <2>4. SliceLen * Cardinality(AudioIn(workerQ')) \in Int
        BY <2>2, <2>3
    <2> QED
        BY <2>1, <2>2, <2>4, ComingIsNext
<1> PICK t : t = nextVideoSequence + Len(framesQ) + Coming
    OBVIOUS
<1> PICK u : u = nextVideoSequence' + Len(framesQ') + Coming'
    OBVIOUS
<1>3. t \in Int /\ u \in Int /\ u <= t /\ nextAudioSequence \in Int /\ silence \in Int
    BY <1>1, <1>2
<1>4. Covers(nextAudioSequence, silence, t, partialSamples)
    BY DEF Backed
<1>5. Covers(nextAudioSequence, silence, u, partialSamples')
    BY <1>1, <1>3, <1>4, LessIsCovered
<1> QED
    BY <1>5 DEF Backed

\* A push that completes a chunk brings as many frames as a chunk makes.
LEMMA PushComing ==
    ASSUME TypeOK, Grid, NEW chunk \in Chunks, PushAudio(chunk)
    PROVE  Coming' = Coming + IF workerQ' = workerQ THEN 0 ELSE SliceLen
<1>1. /\ worker' = IF worker = "none" THEN "loading" ELSE worker
      /\ offset' = offset
      /\ \/ workerQ' = workerQ
         \/ \E due \in Int : workerQ' = Append(workerQ, AudioItem(due, epoch))
    BY PushEffect
<1> PICK A : A = Cardinality(AudioIn(workerQ))
    OBVIOUS
<1> PICK W : W = IF worker = "generating" THEN SliceLen - offset ELSE 0
    OBVIOUS
<1>2. A \in Nat /\ Coming = SliceLen * A + W
    BY ComingIs
<1>3. Coming' = SliceLen * Cardinality(AudioIn(workerQ')) + W
    BY <1>1, ComingIsNext
<1>4. W \in Int /\ SliceLen \in Nat /\ SliceLen * A \in Int
    <2>1. SliceLen \in Nat /\ offset \in Int
        BY Layout DEF TypeOK
    <2> QED
        BY <1>2, <2>1, SliceFacts
<1>5. CASE workerQ' = workerQ
    BY <1>2, <1>3, <1>4, <1>5
<1>6. ASSUME NEW due \in Int, workerQ' = Append(workerQ, AudioItem(due, epoch))
      PROVE  Coming' = Coming + IF workerQ' = workerQ THEN 0 ELSE SliceLen
    <2>1. /\ AudioItem(due, epoch) \in Item /\ AudioItem(due, epoch).kind = "audio"
          /\ workerQ \in Seq(Item)
        BY ItemTypes DEF TypeOK, AudioItem
    <2>2. Cardinality(AudioIn(workerQ')) = A + 1
        BY <1>6, <2>1, CountAppend
    <2>3. SliceLen * (A + 1) = SliceLen * A + SliceLen
        BY <1>2, SliceFacts
    <2>4. workerQ' # workerQ
        <3>1. Len(workerQ') = Len(workerQ) + 1 /\ Len(workerQ) \in Nat
            BY <1>6, <2>1, AppendFacts
        <3> QED
            BY <3>1
    <2>5. Coming' = SliceLen * A + SliceLen + W
        BY <1>3, <2>2, <2>3
    <2> QED
        BY <1>2, <1>4, <2>4, <2>5
<1> QED
    BY <1>1, <1>5, <1>6

\* A push that is only gathered, and one that a chunk is cut or padded from.
Gathered(partial, padded, partialNext, paddedNext) ==
    paddedNext = padded /\ partialNext = partial + 320

Cut(partial, padded, partialNext, paddedNext) ==
    \/ paddedNext = padded /\ partialNext = partial + 320 - 640 * SliceLen
    \/ /\ 16 * paddedNext = 16 * padded + 640 * SliceLen - (partial + 320)
       /\ partialNext = 0

LEMMA GatheredIsCovered ==
    ASSUME NEW pushed \in Int, NEW padded \in Int, NEW frames \in Int, NEW partial \in Int,
           NEW partialNext \in Int, NEW paddedNext \in Int,
           Covers(pushed, padded, frames, partial),
           Gathered(partial, padded, partialNext, paddedNext)
    PROVE  Covers(pushed + 1, paddedNext, frames, partialNext)
    BY DEF Covers, Gathered

LEMMA ChunkIsCovered ==
    ASSUME NEW pushed \in Int, NEW padded \in Int, NEW frames \in Int, NEW partial \in Int,
           NEW partialNext \in Int, NEW paddedNext \in Int,
           Covers(pushed, padded, frames, partial),
           Cut(partial, padded, partialNext, paddedNext)
    PROVE  Covers(pushed + 1, paddedNext, frames + SliceLen, partialNext)
<1>1. SliceLen \in Int
    BY Layout
<1>2. ASSUME NEW n \in Int, n = SliceLen
      PROVE  Covers(pushed + 1, paddedNext, frames + n, partialNext)
    BY <1>2 DEF Covers, Cut
<1> QED
    BY <1>1, <1>2

LEMMA PushBacked ==
    ASSUME TypeOK, Grid, Backed, NEW chunk \in Chunks, PushAudio(chunk)
    PROVE  Backed'
<1>0. /\ nextVideoSequence \in Nat /\ partialSamples \in Nat /\ nextAudioSequence \in Nat
      /\ silence \in Nat /\ Len(framesQ) \in Nat /\ Coming \in Nat /\ SliceLen \in Nat \ {0}
    <2>1. ChunkSamples \in Nat /\ framesQ \in Seq(Frame)
        BY Layout DEF TypeOK
    <2> QED
        BY <2>1, Layout, ComingIs DEF TypeOK, Grid
<1>1. /\ nextAudioSequence' = nextAudioSequence + 1
      /\ nextVideoSequence' = nextVideoSequence
      /\ framesQ' = framesQ
    BY PushEffect
<1>2. Coming' = Coming + IF workerQ' = workerQ THEN 0 ELSE SliceLen
    BY PushComing
<1> PICK t : t = nextVideoSequence + Len(framesQ) + Coming
    OBVIOUS
<1>3. t \in Int /\ Covers(nextAudioSequence, silence, t, partialSamples)
    BY <1>0 DEF Backed
<1>4. nextVideoSequence' + Len(framesQ') + Coming'
        = t + IF workerQ' = workerQ THEN 0 ELSE SliceLen
    <2>1. Len(framesQ') = Len(framesQ)
        BY <1>1
    <2> QED
        BY <1>0, <1>1, <1>2, <2>1
<1>5. PICK due \in Int :
          /\ silence' \in Nat
          /\ partialSamples' \in Int
          /\ \/ workerQ' = workerQ /\ Gathered(partialSamples, silence, partialSamples', silence')
             \/ /\ workerQ' = Append(workerQ, AudioItem(due, epoch))
                /\ Cut(partialSamples, silence, partialSamples', silence')
    <2>1. partialSamples' \in Int
        BY PushExact
    <2> QED
        BY <2>1, PushExact DEF Gathered, Cut
<1>6. workerQ' = Append(workerQ, AudioItem(due, epoch)) => workerQ' # workerQ
    <2>1. AudioItem(due, epoch) \in Item /\ workerQ \in Seq(Item)
        BY ItemTypes DEF TypeOK
    <2>2. /\ Len(Append(workerQ, AudioItem(due, epoch))) = Len(workerQ) + 1
          /\ Len(workerQ) \in Nat
        BY <2>1, AppendFacts
    <2> QED
        BY <2>2
<1> PICK u : u = nextVideoSequence' + Len(framesQ') + Coming'
    OBVIOUS
<1>7. CASE workerQ' = workerQ
    <2>1. Gathered(partialSamples, silence, partialSamples', silence') /\ u = t
        BY <1>3, <1>4, <1>5, <1>6, <1>7
    <2>2. Covers(nextAudioSequence + 1, silence', t, partialSamples')
        BY <1>0, <1>3, <1>5, <2>1, GatheredIsCovered
    <2> QED
        BY <1>1, <2>1, <2>2 DEF Backed
<1>8. CASE workerQ' # workerQ
    <2>1. Cut(partialSamples, silence, partialSamples', silence') /\ u = t + SliceLen
        BY <1>4, <1>5, <1>8
    <2>2. Covers(nextAudioSequence + 1, silence', t + SliceLen, partialSamples')
        BY <1>0, <1>3, <1>5, <2>1, ChunkIsCovered
    <2> QED
        BY <1>1, <2>1, <2>2 DEF Backed
<1> QED
    BY <1>7, <1>8

LEMMA BackedStep ==
    ASSUME IInv, Grid, Backed, [Next]_vars
    PROVE  Backed'
<1>0. /\ TypeOK /\ CurrentFrames /\ ResetProtocol
      /\ workerQ \in Seq(Item) /\ framesQ \in Seq(Frame)
      /\ offset \in 0..(SliceLen - 1) /\ nextVideoSequence \in Nat /\ partialSamples \in Nat
      /\ nextAudioSequence \in Nat /\ silence \in Nat /\ Len(framesQ) \in Nat
    <2>1. IInv /\ Grid /\ ChunkSamples \in Nat
        BY Layout
    <2> QED
        BY <2>1 DEF IInv, TypeOK, Grid
<1>t. TypeOK'
    BY <1>0, TypeStep
<1>s. SliceLen \in Nat \ {0}
    BY Layout
<1> PICK A : A = Cardinality(AudioIn(workerQ))
    OBVIOUS
<1>c. /\ Coming = SliceLen * A + IF worker = "generating" THEN SliceLen - offset ELSE 0
      /\ A \in Nat /\ SliceLen * A \in Nat /\ Coming \in Nat
    BY <1>0, ComingIs
<1> PICK W : W = IF worker = "generating" THEN SliceLen - offset ELSE 0
    OBVIOUS
<1> PICK P : P = SliceLen * A
    OBVIOUS
<1>w. W \in Nat /\ P \in Nat /\ Coming = P + W
    <2>1. W \in Nat
        BY <1>0, <1>s
    <2> QED
        BY <1>c, <2>1
<1>a. ASSUME UNCHANGED <<nextAudioSequence, silence, nextVideoSequence, partialSamples>>,
             Len(framesQ') <= Len(framesQ), Coming' <= Coming, Coming' \in Int,
             Len(framesQ') \in Nat
      PROVE  Backed'
    <2>1. nextVideoSequence' + Len(framesQ') + Coming' <= nextVideoSequence + Len(framesQ) + Coming
        BY <1>0, <1>c, <1>a
    <2> QED
        BY <1>0, <1>t, <1>a, <2>1, BackedLess
<1>b. ASSUME UNCHANGED <<nextAudioSequence, silence, nextVideoSequence, partialSamples,
                         workerQ, framesQ>>,
             \/ UNCHANGED <<worker, offset>>
             \/ worker' # "generating"
      PROVE  Backed'
    <2>1. Coming' <= Coming /\ Coming' \in Int
        <3>1. CASE UNCHANGED <<worker, offset>>
            BY <1>b, <1>c, <3>1, ComingIsNext
        <3>2. CASE worker' # "generating"
            BY <1>0, <1>s, <1>b, <1>c, <3>2, ComingIsNext
        <3> QED
            BY <1>b, <3>1, <3>2
    <2> QED
        BY <1>0, <1>a, <1>b, <2>1
<1>1. ASSUME NEW c \in Configs, Start(c)
      PROVE  Backed'
    BY <1>1, <1>b DEF Start, runtime, thread
<1>3. ASSUME NEW p \in Pullers, NEW mode \in {"untimed", "timed"}, PullStart(p, mode)
      PROVE  Backed'
    BY <1>3, <1>b DEF PullStart, adapter, runtime, thread
<1>5. ASSUME NEW p \in Pullers, PullRaises(p) \/ PullTimeout(p)
      PROVE  Backed'
    BY <1>5, <1>b DEF PullRaises, PullTimeout, adapter, runtime, thread
<1>6. CASE ResetCall \/ ResetDone \/ ResetTimeout \/ CloseUnopened \/ CloseJoin
           \/ CloseAudioDrained \/ CloseReturn
    BY <1>6, <1>b DEF ResetCall, ResetDone, ResetTimeout, CloseUnopened, CloseJoin,
        CloseAudioDrained, CloseReturn, adapter, runtime, thread
<1>7. CASE WorkerLoads \/ WorkerResets \/ WorkerCrashes
    BY <1>7, <1>b DEF WorkerLoads, WorkerResets, AfterReset, WorkerCrashes, adapter, runtime
<1>8. CASE UNCHANGED vars
    BY <1>8, <1>b DEF vars, adapter, runtime, thread
<1>2. ASSUME NEW chunk \in Chunks, PushAudio(chunk)
      PROVE  Backed'
    BY <1>0, <1>2, PushBacked
<1>4. ASSUME NEW p \in Pullers, PullFrame(p)
      PROVE  Backed'
    <2>1. /\ framesQ # <<>> /\ framesQ' = Tail(framesQ)
          /\ nextVideoSequence' = nextVideoSequence + 1
          /\ UNCHANGED <<nextAudioSequence, silence, partialSamples, workerQ, worker, offset>>
        BY <1>4 DEF PullFrame, runtime, thread
    <2>2. Len(framesQ') = Len(framesQ) - 1
        BY <1>0, <2>1, HeadTailFacts
    <2>3. Coming' = Coming
        BY <1>c, <2>1, ComingIsNext
    <2>4. nextVideoSequence' + Len(framesQ') + Coming' <= nextVideoSequence + Len(framesQ) + Coming
        BY <1>0, <1>c, <2>1, <2>2, <2>3
    <2> QED
        BY <1>0, <1>t, <2>1, <2>4, BackedLess
<1>9. CASE ResetDrainFrames \/ CloseDrainFrames
    <2>1. /\ framesQ # <<>> /\ framesQ' = Tail(framesQ)
          /\ UNCHANGED <<nextAudioSequence, nextVideoSequence, silence, partialSamples, workerQ,
                         worker, offset>>
        BY <1>9 DEF ResetDrainFrames, CloseDrainFrames, DrainOne, adapter, runtime, thread
    <2>2. Len(framesQ') = Len(framesQ) - 1
        BY <1>0, <2>1, HeadTailFacts
    <2>3. Coming' = Coming
        BY <1>c, <2>1, ComingIsNext
    <2>4. Len(framesQ') <= Len(framesQ) /\ Len(framesQ') \in Nat
        <3>1. framesQ' \in Seq(Frame)
            BY <1>0, <2>1, HeadTailFacts
        <3> QED
            BY <1>0, <2>2, <3>1
    <2> QED
        BY <1>a, <1>c, <2>1, <2>3, <2>4
<1>10. CASE ResetDrainAudio \/ CloseDrainAudio
    <2>1. /\ workerQ # <<>> /\ workerQ' = Tail(workerQ)
          /\ UNCHANGED <<nextAudioSequence, nextVideoSequence, silence, partialSamples, framesQ,
                         worker, offset>>
        BY <1>10 DEF ResetDrainAudio, CloseDrainAudio, DrainOne, adapter, runtime, thread
    <2> PICK B : B = Cardinality(AudioIn(workerQ'))
        OBVIOUS
    <2>2. workerQ' \in Seq(Item)
        BY <1>0, <2>1, HeadTailFacts
    <2>3. B \in Nat /\ SliceLen * B \in Nat
        BY <1>s, <2>2, CountFinite
    <2>4. A = B + IF Head(workerQ).kind = "audio" THEN 1 ELSE 0
        BY <1>0, <2>1, CountTail
    <2>5. SliceLen * B <= SliceLen * A
        <3>1. SliceLen * (B + 1) = SliceLen * B + SliceLen
            BY <2>3, SliceFacts
        <3> QED
            BY <1>s, <2>3, <2>4, <3>1
    <2>6. Coming' = SliceLen * B + W
        BY <2>1, ComingIsNext
    <2>7. Coming' <= Coming /\ Coming' \in Int
        BY <1>w, <2>3, <2>5, <2>6
    <2> QED
        BY <1>0, <1>a, <2>1, <2>7
<1>11. CASE ResetNoWorker \/ ResetReturn
    <2>1. /\ nextAudioSequence' = 0 /\ nextVideoSequence' = 0 /\ silence' = 0
          /\ UNCHANGED <<workerQ, framesQ, worker>>
          /\ framesQ = <<>> /\ workerQ = <<>> /\ worker # "generating"
        BY <1>0, <1>11 DEF ResetNoWorker, ResetReturn, NextEpoch, FramesGone, thread,
            CurrentFrames, ResetProtocol, Confirmed
    <2>2. partialSamples' = 0
        BY <1>11 DEF ResetNoWorker, ResetReturn, runtime, Grid
    <2>3. A = 0
        BY <2>1, CountEmpty
    <2>4. SliceLen * A = 0
        BY <2>3, SliceFacts
    <2>5. Coming' = 0
        BY <2>1, <2>4, ComingIsNext
    <2>6. Len(framesQ') = 0
        BY <2>1, EmptyFacts
    <2>7. nextVideoSequence' + Len(framesQ') + Coming' = 0
        BY <2>1, <2>5, <2>6
    <2>8. Covers(0, 0, 0, 0)
        BY DEF Covers
    <2> QED
        BY <2>1, <2>2, <2>7, <2>8 DEF Backed
<1>12. CASE ResetAsk
    <2>1. /\ partialSamples' = 0 /\ workerQ' = <<ResetItem(event)>>
          /\ UNCHANGED <<nextAudioSequence, nextVideoSequence, silence, framesQ, worker, offset>>
        BY <1>12 DEF ResetAsk, adapter, thread
    <2>2. ResetItem(event) \in Item /\ ResetItem(event).kind # "audio"
        BY <1>0, ItemTypes DEF TypeOK, ResetItem
    <2>3. /\ workerQ' \in Seq(Item) /\ Len(workerQ') = 1
          /\ workerQ'[1] = ResetItem(event)
        BY <2>1, <2>2
    <2>4. Cardinality(AudioIn(workerQ')) = 0
        <3>1. \A i \in 1..Len(workerQ') : workerQ'[i].kind # "audio"
            BY <2>2, <2>3
        <3> QED
            BY <2>3, <3>1, CountNone
    <2>5. Coming' = 0 + W
        BY <2>1, <2>4, SliceFacts, ComingIsNext
    <2>6. Len(framesQ') = Len(framesQ) /\ nextVideoSequence' = nextVideoSequence
        BY <2>1
    <2>7. nextVideoSequence' + Len(framesQ') + Coming' <= nextVideoSequence + Len(framesQ) + Coming
        BY <1>0, <1>w, <2>5, <2>6
    <2> QED
        BY <1>0, <1>t, <2>1, <2>7, BackedLess
<1>13. CASE CloseCall
    <2>1. /\ workerQ' = workerQ \/ workerQ' = Append(workerQ, CloseItem)
          /\ UNCHANGED <<nextAudioSequence, nextVideoSequence, silence, partialSamples, framesQ,
                         worker, offset>>
        BY <1>13 DEF CloseCall, adapter, runtime, thread
    <2>2. CloseItem \in Item /\ CloseItem.kind # "audio"
        BY ItemTypes DEF CloseItem
    <2>3. Cardinality(AudioIn(workerQ')) = A
        <3>1. Cardinality(AudioIn(Append(workerQ, CloseItem))) = A
            BY <1>0, <1>c, <2>2, CountAppend
        <3>2. CASE workerQ' = workerQ
            BY <3>2
        <3>3. CASE workerQ' = Append(workerQ, CloseItem)
            BY <3>1, <3>3
        <3> QED
            BY <2>1, <3>2, <3>3
    <2>4. Coming' = Coming
        BY <1>c, <2>1, <2>3, ComingIsNext
    <2> QED
        BY <1>0, <1>a, <1>c, <2>1, <2>4
<1>14. CASE WorkerGets
    <2>1. /\ workerQ # <<>> /\ workerQ' = Tail(workerQ) /\ worker = "idle"
          /\ worker' = AfterGet(Head(workerQ).kind)
          /\ UNCHANGED <<nextAudioSequence, nextVideoSequence, silence, partialSamples, framesQ,
                         offset>>
        BY <1>14 DEF WorkerGets, adapter, runtime
    <2> PICK B : B = Cardinality(AudioIn(workerQ'))
        OBVIOUS
    <2>2. workerQ' \in Seq(Item) /\ Head(workerQ).kind \in {"audio", "reset", "close"}
        <3>1. Tail(workerQ) \in Seq(Item) /\ Head(workerQ) \in Item
            BY <1>0, <2>1, HeadTailFacts
        <3> QED
            BY <2>1, <3>1 DEF Item
    <2>3. B \in Nat /\ SliceLen * B \in Nat
        BY <1>s, <2>2, CountFinite
    <2>4. A = B + IF Head(workerQ).kind = "audio" THEN 1 ELSE 0
        BY <1>0, <2>1, CountTail
    <2>5. W = 0
        BY <2>1
    <2>6. Coming' = Coming
        <3>1. CASE Head(workerQ).kind = "audio"
            <4>1. worker' = "generating" /\ offset' = 0
                BY <2>1, <3>1 DEF AfterGet, Grid
            <4>2. Coming' = SliceLen * B + (SliceLen - 0)
                BY <4>1, ComingIsNext
            <4>3. P = SliceLen * B + SliceLen
                BY <2>3, <2>4, <3>1, SliceFacts
            <4> QED
                BY <1>s, <1>w, <2>3, <2>5, <4>2, <4>3
        <3>2. CASE Head(workerQ).kind # "audio"
            <4>1. worker' # "generating"
                BY <2>1, <2>2, <3>2 DEF AfterGet
            <4>2. Coming' = SliceLen * B + 0
                BY <4>1, ComingIsNext
            <4>3. A = B
                BY <2>3, <2>4, <3>2
            <4> QED
                BY <1>w, <2>3, <2>5, <4>2, <4>3
        <3> QED
            BY <3>1, <3>2
    <2> QED
        BY <1>0, <1>a, <1>c, <2>1, <2>6
<1>15. CASE WorkerEmits
    <2>1. PICK f \in Frame : framesQ' = Append(framesQ, f)
        <3>1. framesQ' \in Seq(Frame)
            BY <1>t DEF TypeOK
        <3> PICK f : f = [pts_ms |-> FramePts,
                          due_ms |-> job.due_ms + offset * VideoFrameMs,
                          origin |-> job.origin]
            OBVIOUS
        <3>2. framesQ' = Append(framesQ, f)
            BY <1>15 DEF WorkerEmits
        <3>3. f \in Frame
            BY <1>0, Layout DEF FramePts, Frame, TypeOK, Item, VideoFrameMs
        <3> QED
            BY <3>2, <3>3
    <2>2. Len(framesQ') = Len(framesQ) + 1
        BY <1>0, <2>1, AppendFacts
    <2>3. /\ worker = "generating"
          /\ UNCHANGED <<nextAudioSequence, nextVideoSequence, silence, partialSamples, workerQ>>
          /\ \/ offset' = offset + 1 /\ worker' = "generating"
             \/ offset + 1 >= SliceLen /\ worker' = "idle"
        BY <1>0, <1>s, <1>15 DEF WorkerEmits, MoreFrames, adapter, runtime
    <2>4. W = SliceLen - offset
        BY <2>3
    <2>5. Coming' = P + IF worker' = "generating" THEN SliceLen - offset' ELSE 0
        BY <2>3, ComingIsNext
    <2>6. Coming' = Coming - 1
        BY <1>0, <1>s, <1>w, <2>3, <2>4, <2>5
    <2>7. nextVideoSequence' + Len(framesQ') + Coming' <= nextVideoSequence + Len(framesQ) + Coming
        BY <1>0, <1>w, <2>2, <2>3, <2>6
    <2> QED
        BY <1>0, <1>t, <2>3, <2>7, BackedLess
<1> QED
    BY <1>1, <1>2, <1>3, <1>4, <1>5, <1>6, <1>7, <1>8, <1>9, <1>10, <1>11, <1>12, <1>13,
       <1>14, <1>15
    DEF Next, ResetSteps, CloseSteps, WorkerSteps

LEMMA BackedHolds == Spec => []Backed
<1>1. Init => Backed
    <2> SUFFICES ASSUME Init
                 PROVE  Backed
        OBVIOUS
    <2>1. TypeOK
        BY TypeInit
    <2>2. workerQ = <<>> /\ framesQ = <<>> /\ worker # "generating"
        BY DEF Init
    <2>3. Cardinality(AudioIn(workerQ)) = 0
        BY <2>2, CountEmpty
    <2>4. Coming = 0 + 0
        BY <2>1, <2>2, <2>3, ComingIs, SliceFacts
    <2>5. nextVideoSequence + Len(framesQ) + Coming = 0
        BY <2>2, <2>4, EmptyFacts DEF Init
    <2>6. Covers(0, 0, 0, 0)
        BY DEF Covers
    <2> QED
        BY <2>5, <2>6 DEF Init, Backed
<1>2. IInv /\ Grid /\ Backed /\ [Next]_vars => Backed'
    BY BackedStep
<1> QED
    BY <1>1, <1>2, Invariance, GridHolds, PTL DEF Spec

-----------------------------------------------------------------------------
(***************************************************************************)
(* The session implements SessionContract.                                 *)
(***************************************************************************)

KInv == IInv /\ Lifecycle /\ Grid /\ Backed

LEMMA ContractInvariance ==
    ASSUME ~JoinMayTimeout
    PROVE  Spec => []KInv
    BY Invariance, LifecycleHolds, GridHolds, BackedHolds, PTL DEF KInv

\* What the contract sees of a session.
ClockNow == WhileOpen(nextAudioSequence * AudioChunkMs + silence)
NextNow == WhileOpen(nextVideoSequence)
ReturnedNow == {[epoch |-> f.epoch, sequence |-> f.sequence] : f \in delivered}

LEMMA ContractInit == Init => Contract!Init
    BY DEF Init, Contract!Init, WhileOpen, AudioChunkMs

LEMMA ReturnedKept ==
    ASSUME UNCHANGED delivered
    PROVE  UNCHANGED ReturnedNow
    BY DEF ReturnedNow

LEMMA Unseen ==
    ASSUME UNCHANGED <<state, epoch, nextAudioSequence, nextVideoSequence, silence, delivered>>
    PROVE  UNCHANGED Contract!vars
<1>1. UNCHANGED <<ClockNow, NextNow, ReturnedNow>>
    BY ReturnedKept DEF ClockNow, NextNow, WhileOpen
<1> QED
    BY <1>1 DEF Contract!vars, ClockNow, NextNow, ReturnedNow

LEMMA PushAccepts ==
    ASSUME KInv, NEW chunk \in Chunks, PushAudio(chunk)
    PROVE  Contract!Accept
<1>1. /\ TypeOK /\ Grid
      /\ nextAudioSequence \in Nat /\ silence \in Nat
    BY DEF KInv, IInv, TypeOK, Grid
<1>2. /\ state = "active" /\ nextAudioSequence' = nextAudioSequence + 1
      /\ UNCHANGED <<state, epoch, nextVideoSequence, delivered>>
    BY <1>1, PushEffect DEF RequireActive
<1>3. silence' \in Nat /\ silence' >= silence
    BY <1>1, PushExact
<1>4. ClockNow' \in Nat /\ ClockNow' >= ClockNow + 20
    <2>1. ClockNow = nextAudioSequence * 20 + silence
        BY <1>2 DEF ClockNow, WhileOpen, AudioChunkMs
    <2>2. ClockNow' = (nextAudioSequence + 1) * 20 + silence'
        BY <1>2 DEF ClockNow, WhileOpen, AudioChunkMs
    <2>3. \A n, s, t \in Nat : t >= s => /\ (n + 1) * 20 + t \in Nat
                                        /\ (n + 1) * 20 + t >= n * 20 + s + 20
        OBVIOUS
    <2>4. /\ (nextAudioSequence + 1) * 20 + silence' \in Nat
          /\ (nextAudioSequence + 1) * 20 + silence' >= nextAudioSequence * 20 + silence + 20
        BY <1>1, <1>3, <2>3
    <2> QED
        BY <2>1, <2>2, <2>4
<1>5. UNCHANGED <<NextNow, ReturnedNow>>
    BY <1>2, ReturnedKept DEF NextNow, WhileOpen
<1> QED
    BY <1>2, <1>4, <1>5
    DEF Contract!Accept, Contract!AudioChunkMs, ClockNow, NextNow, ReturnedNow

\* The audio that was accepted covers one frame more than was given.
LEMMA OneMoreIsCovered ==
    ASSUME NEW pushed \in Int, NEW padded \in Int, NEW frames \in Int, NEW partial \in Nat,
           NEW given \in Int, Covers(pushed, padded, frames, partial), given < frames
    PROVE  (given + 1) * 40 <= pushed * 20 + padded
    BY DEF Covers

LEMMA PullGives ==
    ASSUME KInv, NEW p \in Pullers, PullFrame(p)
    PROVE  Contract!GiveAndReturn
<1>1. /\ framesQ # <<>> /\ loop = "ready"
      /\ delivered' = delivered \cup {Stamped(Head(framesQ))}
      /\ nextVideoSequence' = nextVideoSequence + 1
      /\ UNCHANGED <<state, epoch, nextAudioSequence, silence>>
    BY DEF PullFrame, Polls
<1>2. /\ TypeOK /\ nextVideoSequence \in Nat /\ nextAudioSequence \in Nat /\ silence \in Nat
      /\ partialSamples \in Nat /\ Coming \in Nat
    <2>1. ChunkSamples \in Nat
        BY Layout
    <2> QED
        BY <2>1, ComingIs DEF KInv, IInv, TypeOK, Grid
<1>3. Len(framesQ) \in Nat \ {0}
    BY <1>1, <1>2, HeadTailFacts DEF TypeOK
<1>4. state = "active"
    <2>1. state # "created"
        BY <1>1 DEF KInv, IInv, Lifecycle, CurrentFrames
    <2>2. state # "closed"
        BY <1>1 DEF KInv, Lifecycle
    <2> QED
        BY <2>1, <2>2 DEF KInv, Lifecycle
<1>5. (nextVideoSequence + 1) * 40 <= nextAudioSequence * 20 + silence
    <2> PICK frames : frames = nextVideoSequence + Len(framesQ) + Coming
        OBVIOUS
    <2>1. frames \in Int /\ nextVideoSequence < frames
        BY <1>2, <1>3
    <2>2. Covers(nextAudioSequence, silence, frames, partialSamples)
        BY DEF KInv, Backed
    <2> QED
        BY <1>2, <2>1, <2>2, OneMoreIsCovered
<1>6. NextNow = nextVideoSequence /\ ClockNow = nextAudioSequence * 20 + silence
    BY <1>4 DEF NextNow, ClockNow, WhileOpen, AudioChunkMs
<1>7. NextNow' = NextNow + 1 /\ ClockNow' = ClockNow
    BY <1>1, <1>4 DEF NextNow, ClockNow, WhileOpen
<1>8. (NextNow + 1) * Contract!VideoFrameMs <= ClockNow
    BY <1>5, <1>6 DEF Contract!VideoFrameMs
<1>9. Contract!GiveNext
    BY <1>1, <1>4, <1>7, <1>8 DEF Contract!GiveNext, NextNow, ClockNow
<1>10. ReturnedNow' = ReturnedNow \cup {Contract!NextFrame}
    <2>1. Contract!NextFrame = [epoch |-> epoch, sequence |-> nextVideoSequence]
        BY <1>6 DEF Contract!NextFrame, NextNow
    <2>2. /\ Stamped(Head(framesQ)).epoch = epoch
          /\ Stamped(Head(framesQ)).sequence = nextVideoSequence
        BY DEF Stamped
    <2> QED
        BY <1>1, <2>1, <2>2 DEF ReturnedNow
<1> QED
    BY <1>9, <1>10 DEF Contract!GiveAndReturn, ReturnedNow

LEMMA ResetResets ==
    ASSUME KInv, ResetNoWorker \/ ResetReturn
    PROVE  Contract!Reset
<1>1. /\ epoch' = epoch + 1 /\ nextAudioSequence' = 0 /\ nextVideoSequence' = 0
      /\ silence' = 0 /\ UNCHANGED <<state, delivered>> /\ loop # "ready"
    BY DEF ResetNoWorker, ResetReturn, NextEpoch
<1>2. state = "active"
    BY <1>1 DEF KInv, Lifecycle
<1>3. NextNow' = 0 /\ ClockNow' = 0
    BY <1>1 DEF NextNow, ClockNow, WhileOpen, AudioChunkMs
<1>4. UNCHANGED ReturnedNow
    BY <1>1, ReturnedKept
<1> QED
    BY <1>1, <1>2, <1>3, <1>4 DEF Contract!Reset, NextNow, ClockNow, ReturnedNow

LEMMA CloseCloses ==
    ASSUME CloseUnopened \/ CloseReturn
    PROVE  Contract!Close
<1>1. state' = "closed" /\ UNCHANGED <<epoch, delivered>>
    BY DEF CloseUnopened, CloseReturn
<1>2. NextNow' = 0 /\ ClockNow' = 0
    BY <1>1 DEF NextNow, ClockNow, WhileOpen
<1>3. UNCHANGED ReturnedNow
    BY <1>1, ReturnedKept
<1> QED
    BY <1>1, <1>2, <1>3 DEF Contract!Close, NextNow, ClockNow, ReturnedNow

LEMMA StartOpens ==
    ASSUME NEW c \in Configs, Start(c)
    PROVE  Contract!Open
<1>1. /\ state = "created" /\ state' = "active"
      /\ UNCHANGED <<epoch, nextAudioSequence, nextVideoSequence, silence, delivered>>
    BY DEF Start
<1>2. UNCHANGED <<NextNow, ClockNow>>
    BY <1>1 DEF NextNow, ClockNow, WhileOpen
<1>3. UNCHANGED ReturnedNow
    BY <1>1, ReturnedKept
<1> QED
    BY <1>1, <1>2, <1>3 DEF Contract!Open, NextNow, ClockNow, ReturnedNow

\* Every step maps to a step of the contract or to a stutter.
LEMMA ContractStep == KInv /\ [Next]_vars => [Contract!Next]_(Contract!vars)
<1> SUFFICES ASSUME KInv, [Next]_vars
             PROVE  Contract!Next \/ UNCHANGED Contract!vars
    OBVIOUS
<1>1. ASSUME \/ \E p \in Pullers, mode \in {"untimed", "timed"} : PullStart(p, mode)
             \/ \E p \in Pullers : PullRaises(p) \/ PullTimeout(p)
             \/ ResetCall \/ ResetDrainAudio \/ ResetAsk \/ ResetDone \/ ResetTimeout
             \/ ResetDrainFrames
      PROVE  UNCHANGED Contract!vars
    BY <1>1, Unseen DEF PullStart, PullRaises, PullTimeout, ResetCall, ResetDrainAudio,
        ResetAsk, ResetDone, ResetTimeout, ResetDrainFrames, adapter
<1>2. ASSUME CloseCall \/ CloseJoin \/ CloseDrainAudio \/ CloseAudioDrained \/ CloseDrainFrames
      PROVE  UNCHANGED Contract!vars
    BY <1>2, Unseen DEF CloseCall, CloseJoin, CloseDrainAudio, CloseAudioDrained,
        CloseDrainFrames, adapter
<1>3. ASSUME WorkerSteps \/ WorkerCrashes \/ UNCHANGED vars
      PROVE  UNCHANGED Contract!vars
    BY <1>3, Unseen DEF WorkerSteps, WorkerLoads, WorkerGets, WorkerResets, WorkerEmits,
        WorkerCrashes, vars, adapter
<1>4. ASSUME \/ \E c \in Configs : Start(c)
             \/ \E chunk \in Chunks : PushAudio(chunk)
             \/ \E p \in Pullers : PullFrame(p)
             \/ ResetNoWorker \/ ResetReturn \/ CloseUnopened \/ CloseReturn
      PROVE  Contract!Next
    BY <1>4, StartOpens, PushAccepts, PullGives, ResetResets, CloseCloses DEF Contract!Next
<1> QED
    BY <1>1, <1>2, <1>3, <1>4 DEF Next, ResetSteps, CloseSteps

\* The FlashHead session implements the contract, for every layout, input and
\* number of pullers, with resets that give up and a worker that may die at any
\* point, provided the worker stops within the time that close waits for it
\* (flashhead.py:66-138, flashhead_runtime.py:104-156).
THEOREM KeepsContractCorrect ==
    ASSUME ~JoinMayTimeout
    PROVE  Spec => KeepsContract
    BY ContractInvariance, ContractInit, ContractStep, PTL DEF Spec, KeepsContract, Contract!Spec

\* The ledger of the frames: of the epoch of a session that is not closed the
\* ones that have been returned are the first ones, without a gap.
ReturnedOf(e) == {f \in ReturnedNow : f.epoch = e}

FirstFrames(e, n) == {[epoch |-> e, sequence |-> m] : m \in 0..(n - 1)}

Ledger ==
    /\ \A f \in delivered : f.epoch <= epoch
    /\ state # "closed" => ReturnedOf(epoch) = FirstFrames(epoch, nextVideoSequence)

LEMMA FirstFramesFacts ==
    ASSUME NEW e, NEW n \in Nat
    PROVE  /\ FirstFrames(e, 0) = {}
           /\ FirstFrames(e, n + 1)
                = FirstFrames(e, n) \cup {[epoch |-> e, sequence |-> n]}
<1>1. 0..(0 - 1) = {} /\ 0..((n + 1) - 1) = 0..(n - 1) \cup {n}
    OBVIOUS
<1> QED
    BY <1>1 DEF FirstFrames

LEMMA PullLedger ==
    ASSUME KInv, Ledger, NEW p \in Pullers, PullFrame(p)
    PROVE  Ledger'
<1>1. /\ delivered' = delivered \cup {Stamped(Head(framesQ))}
      /\ nextVideoSequence' = nextVideoSequence + 1 /\ UNCHANGED <<state, epoch>>
    BY DEF PullFrame
<1>2. nextVideoSequence \in Nat /\ epoch \in Nat
    BY DEF KInv, IInv, TypeOK
<1>3. /\ Stamped(Head(framesQ)).epoch = epoch
      /\ Stamped(Head(framesQ)).sequence = nextVideoSequence
    BY DEF Stamped
<1>4. ReturnedNow' = ReturnedNow \cup {[epoch |-> epoch, sequence |-> nextVideoSequence]}
    BY <1>1, <1>3 DEF ReturnedNow
<1>5. ReturnedOf(epoch)'
        = ReturnedOf(epoch) \cup {[epoch |-> epoch, sequence |-> nextVideoSequence]}
    BY <1>1, <1>4 DEF ReturnedOf
<1>6. state # "closed" => ReturnedOf(epoch)' = FirstFrames(epoch, nextVideoSequence')
    BY <1>1, <1>2, <1>5, FirstFramesFacts DEF Ledger
<1>7. \A f \in delivered' : f.epoch <= epoch'
    BY <1>1, <1>2, <1>3 DEF Ledger
<1>8. FirstFrames(epoch, nextVideoSequence)' = FirstFrames(epoch, nextVideoSequence')
    BY <1>1 DEF FirstFrames
<1> QED
    BY <1>1, <1>6, <1>7, <1>8 DEF Ledger

LEMMA ResetLedger ==
    ASSUME KInv, Ledger, ResetNoWorker \/ ResetReturn
    PROVE  Ledger'
<1>1. /\ epoch' = epoch + 1 /\ nextVideoSequence' = 0 /\ UNCHANGED <<state, delivered>>
    BY DEF ResetNoWorker, ResetReturn, NextEpoch
<1>2. epoch \in Nat /\ \A f \in delivered : f.epoch \in Nat
    BY DEF KInv, IInv, TypeOK
<1>3. \A f \in delivered : f.epoch <= epoch
    BY DEF Ledger
<1>4. \A f \in delivered : f.epoch <= epoch' /\ f.epoch # epoch'
    BY <1>1, <1>2, <1>3
<1>5. ReturnedOf(epoch)' = {}
    BY <1>1, <1>4 DEF ReturnedOf, ReturnedNow
<1>6. FirstFrames(epoch, nextVideoSequence)' = {}
    BY <1>1, FirstFramesFacts DEF FirstFrames
<1> QED
    BY <1>1, <1>4, <1>5, <1>6 DEF Ledger

LEMMA LedgerStep == KInv /\ Ledger /\ [Next]_vars => Ledger'
<1> SUFFICES ASSUME KInv, Ledger, [Next]_vars
             PROVE  Ledger'
    OBVIOUS
<1>1. ASSUME UNCHANGED <<epoch, nextVideoSequence, delivered>>,
             state' = "closed" \/ state # "closed"
      PROVE  Ledger'
    BY <1>1 DEF Ledger, ReturnedOf, ReturnedNow, FirstFrames
<1>2. ASSUME UNCHANGED <<state, epoch, nextVideoSequence, delivered>>
      PROVE  Ledger'
    BY <1>2 DEF Ledger, ReturnedOf, ReturnedNow, FirstFrames
<1>3. ASSUME NEW chunk \in Chunks, PushAudio(chunk)
      PROVE  Ledger'
    <2>1. UNCHANGED <<state, epoch, nextVideoSequence, delivered>>
        BY <1>3, PushEffect DEF KInv, IInv
    <2> QED
        BY <1>2, <2>1
<1>4. ASSUME \/ \E p \in Pullers, mode \in {"untimed", "timed"} : PullStart(p, mode)
             \/ \E p \in Pullers : PullRaises(p) \/ PullTimeout(p)
             \/ ResetCall \/ ResetDrainAudio \/ ResetAsk \/ ResetDone \/ ResetTimeout
             \/ ResetDrainFrames
      PROVE  Ledger'
    BY <1>2, <1>4 DEF PullStart, PullRaises, PullTimeout, ResetCall, ResetDrainAudio,
        ResetAsk, ResetDone, ResetTimeout, ResetDrainFrames, adapter
<1>5. ASSUME CloseCall \/ CloseJoin \/ CloseDrainAudio \/ CloseAudioDrained \/ CloseDrainFrames
      PROVE  Ledger'
    BY <1>2, <1>5 DEF CloseCall, CloseJoin, CloseDrainAudio, CloseAudioDrained,
        CloseDrainFrames, adapter
<1>6. ASSUME WorkerSteps \/ WorkerCrashes \/ UNCHANGED vars
      PROVE  Ledger'
    BY <1>2, <1>6 DEF WorkerSteps, WorkerLoads, WorkerGets, WorkerResets, WorkerEmits,
        WorkerCrashes, vars, adapter
<1>7. ASSUME (\E c \in Configs : Start(c)) \/ CloseUnopened \/ CloseReturn
      PROVE  Ledger'
    BY <1>1, <1>7 DEF Start, CloseUnopened, CloseReturn
<1> QED
    BY <1>3, <1>4, <1>5, <1>6, <1>7, PullLedger, ResetLedger DEF Next, ResetSteps, CloseSteps

\* In every epoch frames are returned one by one, in order, each once and never
\* more of them than there is audio for, whatever resets give up and wherever the
\* worker dies, provided the worker stops within the time that close waits for it
\* (flashhead.py:106-125).
THEOREM FramesEachOnceCorrect ==
    ASSUME ~JoinMayTimeout
    PROVE  Spec => []Contract!EachOnce
<1>1. Init => Ledger
    <2> SUFFICES ASSUME Init
                 PROVE  Ledger
        OBVIOUS
    <2>1. delivered = {} /\ nextVideoSequence = 0
        BY DEF Init
    <2>2. ReturnedOf(epoch) = {}
        BY <2>1 DEF ReturnedOf, ReturnedNow
    <2> QED
        BY <2>1, <2>2, FirstFramesFacts DEF Ledger
<1>2. KInv /\ Ledger /\ [Next]_vars => Ledger'
    BY LedgerStep
<1>3. KInv /\ Ledger => Contract!EachOnce
    <2> SUFFICES ASSUME KInv, Ledger
                 PROVE  Contract!EachOnce
        OBVIOUS
    <2>1. /\ nextVideoSequence \in Nat /\ Len(framesQ) \in Nat /\ Coming \in Nat
          /\ nextAudioSequence \in Nat /\ silence \in Nat /\ partialSamples \in Nat
        <3>1. ChunkSamples \in Nat
            BY Layout
        <3> QED
            BY <3>1, ComingIs DEF KInv, IInv, TypeOK, Grid
    <2>2. nextVideoSequence * 40 <= nextAudioSequence * 20 + silence
        <3> PICK more \in Nat : more = Len(framesQ) + Coming
            BY <2>1
        <3>1. nextVideoSequence + Len(framesQ) + Coming = nextVideoSequence + more
            BY <2>1
        <3>2. Covers(nextAudioSequence, silence, nextVideoSequence + more, partialSamples)
            BY <3>1 DEF KInv, Backed
        <3> QED
            BY <2>1, <3>2 DEF Covers
    <2>3. state # "closed" => /\ NextNow = nextVideoSequence
                              /\ ClockNow = nextAudioSequence * 20 + silence
        BY DEF NextNow, ClockNow, WhileOpen, AudioChunkMs
    <2>4. state # "closed" => /\ ReturnedOf(epoch) = FirstFrames(epoch, NextNow)
                              /\ NextNow * 40 <= ClockNow
        BY <2>2, <2>3 DEF Ledger
    <2>5. \A f \in ReturnedNow : f.epoch <= epoch
        BY DEF Ledger, ReturnedNow
    <2>6. {f \in {} \cup ReturnedNow : f.epoch = epoch} = ReturnedOf(epoch)
        BY DEF ReturnedOf
    <2> QED
        BY <2>4, <2>5, <2>6
        DEF Contract!EachOnce, Contract!FramesOfEpoch, Contract!VideoFrameMs,
            ReturnedNow, NextNow, ClockNow, FirstFrames
<1> QED
    BY <1>1, <1>2, <1>3, ContractInvariance, PTL DEF Spec

-----------------------------------------------------------------------------
(***************************************************************************)
(* Resets that are kept, and what they restart.                            *)
(***************************************************************************)

\* How a step moves the count of the resets.
LEMMA ResetMoves ==
    ASSUME TypeOK, [Next]_vars
    PROVE  \/ /\ UNCHANGED <<event, epoch>>
              /\ InReset' = InReset
              /\ loop' = "ready" => loop = "ready" \/ state' = "closed"
           \/ ResetCall
           \/ ResetTimeout
           \/ ResetNoWorker \/ ResetReturn
<1>a. ASSUME UNCHANGED <<event, epoch, loop>>
      PROVE  /\ UNCHANGED <<event, epoch>>
             /\ InReset' = InReset
             /\ loop' = "ready" => loop = "ready" \/ state' = "closed"
    BY <1>a DEF InReset
<1>1. ASSUME NEW chunk \in Chunks, PushAudio(chunk)
      PROVE  UNCHANGED <<event, epoch, loop>>
    BY <1>1, PushEffect
<1>2. CASE \/ \E c \in Configs : Start(c)
           \/ \E p \in Pullers, mode \in {"untimed", "timed"} : PullStart(p, mode)
           \/ \E p \in Pullers : PullFrame(p) \/ PullRaises(p) \/ PullTimeout(p)
    BY <1>2, <1>a DEF Start, PullStart, PullFrame, PullRaises, PullTimeout, runtime, adapter
<1>3. CASE ResetDrainAudio \/ ResetDrainFrames \/ CloseUnopened \/ CloseDrainAudio
           \/ CloseDrainFrames
    BY <1>3, <1>a DEF ResetDrainAudio, ResetDrainFrames, CloseUnopened, CloseDrainAudio,
        CloseDrainFrames, runtime, adapter
<1>4. CASE ResetAsk \/ ResetDone
    BY <1>4 DEF ResetAsk, ResetDone, InReset, runtime, adapter
<1>5. CASE CloseCall \/ CloseJoin \/ CloseAudioDrained \/ CloseReturn
    BY <1>5 DEF CloseCall, AfterCloseCall, RequireActive, CloseJoin, CloseAudioDrained,
        CloseReturn, InReset, runtime, adapter
<1>6. CASE WorkerSteps \/ WorkerCrashes \/ UNCHANGED vars
    BY <1>6, <1>a DEF WorkerSteps, WorkerLoads, WorkerGets, WorkerResets, WorkerEmits,
        WorkerCrashes, vars, runtime, adapter
<1> QED
    BY <1>1, <1>a, <1>2, <1>3, <1>4, <1>5, <1>6 DEF Next, ResetSteps, CloseSteps

LEMMA EpochBehindStep ==
    ASSUME TypeOK, EpochBehind, [Next]_vars
    PROVE  EpochBehind'
<1>1. event \in Nat /\ epoch \in Nat
    BY DEF TypeOK
<1>2. CASE UNCHANGED <<event, epoch>> /\ InReset' = InReset
    BY <1>2 DEF EpochBehind
<1>3. CASE ResetCall
    BY <1>1, <1>3 DEF ResetCall, RequireActive, adapter, EpochBehind, InReset
<1>4. CASE ResetTimeout
    BY <1>1, <1>4 DEF ResetTimeout, runtime, adapter, EpochBehind, InReset
<1>5. CASE ResetNoWorker \/ ResetReturn
    BY <1>1, <1>5 DEF ResetNoWorker, ResetReturn, NextEpoch, runtime, EpochBehind, InReset
<1> QED
    BY <1>2, <1>3, <1>4, <1>5, ResetMoves

\* A reset that has given up is never made good.
LEMMA KeptStays ==
    ASSUME TypeOK, EpochBehind, [Next]_vars, ResetsKept'
    PROVE  ResetsKept
<1>1. event \in Nat /\ epoch \in Nat
    BY DEF TypeOK
<1>2. CASE UNCHANGED <<event, epoch>> /\ InReset' = InReset
    BY <1>2 DEF ResetsKept, InReset
<1>3. CASE ResetCall
    BY <1>1, <1>3 DEF ResetCall, RequireActive, adapter, ResetsKept
<1>4. CASE ResetTimeout
    BY <1>1, <1>4 DEF ResetTimeout, runtime, adapter, EpochBehind, InReset, ResetsKept
<1>5. CASE ResetNoWorker \/ ResetReturn
    BY <1>1, <1>5 DEF ResetNoWorker, ResetReturn, NextEpoch, runtime, ResetsKept
<1> QED
    BY <1>2, <1>3, <1>4, <1>5, ResetMoves

LEMMA RestartedStep ==
    ASSUME IInv, Restarted, [Next]_vars
    PROVE  Restarted'
<1>0. TypeOK /\ EventsInOrder /\ ResetProtocol
    BY DEF IInv
<1>a. ASSUME UNCHANGED <<loop, event, done, chunkIdx>>
      PROVE  Restarted'
    BY <1>a DEF Restarted
<1>b. ASSUME loop' \notin {"resetWait", "resetFrames"}
      PROVE  Restarted'
    BY <1>b DEF Restarted
<1>1. ASSUME NEW chunk \in Chunks, PushAudio(chunk)
      PROVE  Restarted'
    BY <1>0, <1>1, <1>a, PushEffect
<1>2. CASE \/ \E c \in Configs : Start(c)
           \/ \E p \in Pullers, mode \in {"untimed", "timed"} : PullStart(p, mode)
           \/ \E p \in Pullers : PullFrame(p) \/ PullRaises(p) \/ PullTimeout(p)
    BY <1>2, <1>a DEF Start, PullStart, PullFrame, PullRaises, PullTimeout, runtime, thread
<1>3. CASE ResetCall \/ ResetNoWorker \/ ResetTimeout \/ ResetReturn
    BY <1>3, <1>b DEF ResetCall, ResetNoWorker, ResetTimeout, ResetReturn
<1>4. CASE ResetDrainAudio \/ ResetDrainFrames \/ CloseUnopened \/ CloseDrainAudio
           \/ CloseDrainFrames
    BY <1>4, <1>a DEF ResetDrainAudio, ResetDrainFrames, CloseUnopened, CloseDrainAudio,
        CloseDrainFrames, runtime, thread
<1>5. CASE CloseCall \/ CloseJoin \/ CloseAudioDrained \/ CloseReturn
    BY <1>5, <1>b DEF CloseCall, AfterCloseCall, CloseJoin, CloseAudioDrained, CloseReturn
<1>6. CASE ResetAsk
    <2>1. /\ loop = "resetDrain" /\ loop' = "resetWait"
          /\ UNCHANGED <<event, done>>
        BY <1>6 DEF ResetAsk, thread
    <2>2. done # event
        BY <1>0, <2>1 DEF EventsInOrder, LastAsked, TypeOK
    <2> QED
        BY <2>1, <2>2 DEF Restarted
<1>7. CASE ResetDone
    BY <1>7 DEF ResetDone, Answered, runtime, thread, Restarted
<1>8. CASE WorkerLoads \/ WorkerGets \/ WorkerCrashes \/ UNCHANGED vars
    BY <1>8, <1>a DEF WorkerLoads, WorkerGets, WorkerCrashes, vars, runtime, thread
<1>9. CASE WorkerResets
    BY <1>9 DEF WorkerResets, RestartChunks, Restarted
<1>10. CASE WorkerEmits
    <2>1. worker = "generating" /\ UNCHANGED <<loop, event, done>>
        BY <1>10 DEF WorkerEmits, runtime
    <2>2. ~(loop = "resetFrames" \/ (loop = "resetWait" /\ done = event))
        BY <1>0, <2>1 DEF ResetProtocol, Asked, Handled, Dead, Confirmed
    <2> QED
        BY <2>1, <2>2 DEF Restarted
<1> QED
    BY <1>1, <1>2, <1>3, <1>4, <1>5, <1>6, <1>7, <1>8, <1>9, <1>10
    DEF Next, ResetSteps, CloseSteps, WorkerSteps

\* The end of a reset leaves everything as it was at the start.
LEMMA Fresh ==
    ASSUME IInv, Grid, Restarted, ResetNoWorker \/ ResetReturn
    PROVE  /\ workerQ' = <<>> /\ framesQ' = <<>>
           /\ worker' \in {"none", "idle"}
           /\ partialSamples' = 0 /\ offset' = 0 /\ chunkIdx' = 0
           /\ nextAudioSequence' = 0 /\ nextVideoSequence' = 0 /\ silence' = 0
<1>0. CurrentFrames /\ ResetProtocol
    BY DEF IInv
<1>1. CASE ResetNoWorker
    <2>1. /\ workerQ' = <<>> /\ framesQ' = framesQ /\ worker' = worker /\ worker = "none"
          /\ partialSamples' = 0 /\ offset' = offset /\ chunkIdx' = chunkIdx
          /\ nextAudioSequence' = 0 /\ nextVideoSequence' = 0 /\ silence' = 0
        BY <1>1 DEF ResetNoWorker, NextEpoch, thread
    <2> QED
        BY <1>0, <2>1 DEF Grid, CurrentFrames
<1>2. CASE ResetReturn
    <2>1. /\ UNCHANGED <<workerQ, framesQ, worker, partialSamples, offset, chunkIdx>>
          /\ loop = "resetFrames" /\ framesQ = <<>>
          /\ nextAudioSequence' = 0 /\ nextVideoSequence' = 0 /\ silence' = 0
        BY <1>2 DEF ResetReturn, FramesGone, NextEpoch, thread, runtime
    <2>2. workerQ = <<>> /\ worker = "idle"
        BY <1>0, <2>1 DEF ResetProtocol, Confirmed
    <2> QED
        BY <2>1, <2>2 DEF Grid, Restarted
<1> QED
    BY <1>1, <1>2

-----------------------------------------------------------------------------
(***************************************************************************)
(* What happens while the session serves and nothing has failed: it takes  *)
(* audio, gives frames and the worker makes them; or a reset has just      *)
(* opened the next epoch.                                                  *)
(***************************************************************************)

TakesUp ==
    /\ worker = "idle" /\ workerQ # <<>>
    /\ Head(workerQ).kind = "audio"
    /\ job' = Head(workerQ) /\ workerQ' = Tail(workerQ) /\ worker' = "generating"
    /\ UNCHANGED <<nextAudioSequence, nextVideoSequence, silence, partialSamples, framesQ,
                   offset, chunkIdx>>

KeepsAll ==
    /\ UNCHANGED <<nextAudioSequence, nextVideoSequence, silence, partialSamples, workerQ,
                   framesQ, job, offset, chunkIdx>>
    /\ worker' = worker \/ (worker = "loading" /\ worker' = "idle")

LEMMA ServingSteps ==
    ASSUME IInv, EpochBehind, OnlyAudio, [Next]_vars, Serving'
    PROVE  \/ ResetNoWorker \/ ResetReturn
           \/ /\ Serving
              /\ \/ \E chunk \in Chunks : PushAudio(chunk)
                 \/ \E p \in Pullers : PullFrame(p)
                 \/ TakesUp
                 \/ WorkerEmits
                 \/ KeepsAll
<1>0. TypeOK /\ workerQ \in Seq(Item)
    BY DEF IInv, TypeOK
<1>k. ResetsKept
    BY <1>0, KeptStays DEF Serving
<1>s. ResetsKept' /\ loop' = "ready" /\ state' # "closed" /\ worker' # "crashed"
    BY DEF Serving
<1>1. ASSUME NEW chunk \in Chunks, PushAudio(chunk)
      PROVE  Serving
    BY <1>0, <1>k, <1>s, <1>1, PushEffect DEF RequireActive, Serving
<1>2. ASSUME NEW p \in Pullers, PullFrame(p)
      PROVE  Serving
    BY <1>k, <1>s, <1>2 DEF PullFrame, Polls, thread, Serving
<1>3. ASSUME NEW c \in Configs, Start(c)
      PROVE  Serving /\ KeepsAll
    BY <1>k, <1>s, <1>3 DEF Start, runtime, thread, Serving, KeepsAll
<1>4. ASSUME \/ \E p \in Pullers, mode \in {"untimed", "timed"} : PullStart(p, mode)
             \/ \E p \in Pullers : PullRaises(p) \/ PullTimeout(p)
      PROVE  Serving /\ KeepsAll
    BY <1>k, <1>s, <1>4 DEF PullStart, PullRaises, PullTimeout, adapter, runtime, thread,
        Serving, KeepsAll
<1>5. ~ResetTimeout
    <2> SUFFICES ASSUME ResetTimeout
                 PROVE  FALSE
        OBVIOUS
    <2>1. UNCHANGED <<event, epoch>> /\ loop = "resetWait"
        BY DEF ResetTimeout, runtime, adapter
    <2>2. event = epoch /\ event >= epoch + 1 /\ epoch \in Nat
        BY <1>0, <1>s, <2>1 DEF ResetsKept, EpochBehind, InReset, TypeOK
    <2> QED
        BY <2>2
<1>6. ~(ResetCall \/ ResetDrainAudio \/ ResetAsk \/ ResetDone \/ ResetDrainFrames)
    BY <1>s DEF ResetCall, ResetDrainAudio, ResetAsk, ResetDone, ResetDrainFrames
<1>7. ~(CloseUnopened \/ CloseCall \/ CloseSteps)
    BY <1>s DEF CloseUnopened, CloseCall, AfterCloseCall, CloseSteps, CloseJoin,
        CloseDrainAudio, CloseAudioDrained, CloseDrainFrames, CloseReturn
<1>8. ~WorkerCrashes
    BY <1>s DEF WorkerCrashes
<1>9. ASSUME WorkerLoads \/ UNCHANGED vars
      PROVE  Serving /\ KeepsAll
    BY <1>k, <1>s, <1>9 DEF WorkerLoads, vars, adapter, runtime, thread, Serving, KeepsAll
<1>10. ASSUME WorkerGets
       PROVE  Serving /\ TakesUp
    <2>1. Serving
        BY <1>k, <1>s, <1>10 DEF WorkerGets, adapter, Serving
    <2>2. Head(workerQ).kind = "audio"
        <3>1. workerQ # <<>>
            BY <1>10 DEF WorkerGets
        <3>2. Head(workerQ) = workerQ[1] /\ 1 \in 1..Len(workerQ)
            BY <1>0, <3>1, HeadTailFacts
        <3> QED
            BY <2>1, <3>2 DEF OnlyAudio
    <2> QED
        BY <1>10, <2>1, <2>2 DEF WorkerGets, AfterGet, adapter, runtime, TakesUp
<1>11. ~WorkerResets
    <2> SUFFICES ASSUME WorkerResets
                 PROVE  FALSE
        OBVIOUS
    <2>1. Serving /\ worker = "resetting"
        BY <1>k, <1>s DEF WorkerResets, adapter, Serving
    <2> QED
        BY <2>1 DEF OnlyAudio
<1>12. ASSUME WorkerEmits
       PROVE  Serving
    BY <1>k, <1>s, <1>12 DEF WorkerEmits, adapter, Serving
<1> QED
    BY <1>1, <1>2, <1>3, <1>4, <1>5, <1>6, <1>7, <1>8, <1>9, <1>10, <1>11, <1>12
    DEF Next, ResetSteps, CloseSteps, WorkerSteps

LEMMA OnlyAudioStep ==
    ASSUME IInv, Grid, Restarted, EpochBehind, OnlyAudio, [Next]_vars
    PROVE  OnlyAudio'
<1> SUFFICES ASSUME Serving'
             PROVE  /\ \A i \in 1..Len(workerQ') : workerQ'[i].kind = "audio"
                    /\ worker' # "resetting"
    BY DEF OnlyAudio
<1>0. TypeOK /\ workerQ \in Seq(Item)
    BY DEF IInv, TypeOK
<1>1. CASE ResetNoWorker \/ ResetReturn
    BY <1>1, Fresh, EmptyFacts
<1>2. CASE Serving
    <2>0. (\A i \in 1..Len(workerQ) : workerQ[i].kind = "audio") /\ worker # "resetting"
        BY <1>2 DEF OnlyAudio
    <2>1. ASSUME NEW chunk \in Chunks, PushAudio(chunk)
          PROVE  /\ \A i \in 1..Len(workerQ') : workerQ'[i].kind = "audio"
                 /\ worker' # "resetting"
        <3>1. /\ worker' # "resetting"
              /\ \/ workerQ' = workerQ
                 \/ \E due \in Int : workerQ' = Append(workerQ, AudioItem(due, epoch))
            BY <1>0, <2>0, <2>1, PushEffect
        <3>2. ASSUME NEW due \in Int, workerQ' = Append(workerQ, AudioItem(due, epoch))
              PROVE  \A i \in 1..Len(workerQ') : workerQ'[i].kind = "audio"
            <4>1. /\ AudioItem(due, epoch) \in Item
                  /\ AudioItem(due, epoch).kind = "audio"
                BY <1>0, ItemTypes DEF TypeOK, AudioItem
            <4> QED
                BY <1>0, <2>0, <3>2, <4>1, QueueAppend
        <3> QED
            BY <2>0, <3>1, <3>2
    <2>2. ASSUME NEW p \in Pullers, PullFrame(p)
          PROVE  workerQ' = workerQ /\ worker' = worker
        BY <2>2 DEF PullFrame, thread
    <2>3. CASE TakesUp
        BY <1>0, <2>0, <2>3, QueueTail DEF TakesUp
    <2>4. CASE WorkerEmits
        BY <2>0, <2>4 DEF WorkerEmits
    <2>5. CASE KeepsAll
        BY <2>0, <2>5 DEF KeepsAll
    <2> QED
        BY <1>2, <2>0, <2>1, <2>2, <2>3, <2>4, <2>5, ServingSteps, <1>1
<1> QED
    BY <1>1, <1>2, ServingSteps

-----------------------------------------------------------------------------
(***************************************************************************)
(* Every millisecond of audio and every frame is accounted for.            *)
(***************************************************************************)

LEMMA GatheredSettles ==
    ASSUME NEW pushed \in Int, NEW padded \in Int, NEW frames \in Int, NEW partial \in Int,
           NEW partialNext \in Int, NEW paddedNext \in Int,
           Settles(pushed, padded, frames, partial),
           Gathered(partial, padded, partialNext, paddedNext)
    PROVE  Settles(pushed + 1, paddedNext, frames, partialNext)
    BY DEF Settles, Gathered

LEMMA ChunkSettles ==
    ASSUME NEW pushed \in Int, NEW padded \in Int, NEW frames \in Int, NEW partial \in Int,
           NEW partialNext \in Int, NEW paddedNext \in Int,
           Settles(pushed, padded, frames, partial),
           Cut(partial, padded, partialNext, paddedNext)
    PROVE  Settles(pushed + 1, paddedNext, frames + SliceLen, partialNext)
<1>1. SliceLen \in Int
    BY Layout
<1>2. ASSUME NEW n \in Int, n = SliceLen
      PROVE  Settles(pushed + 1, paddedNext, frames + n, partialNext)
    BY <1>2 DEF Settles, Cut
<1> QED
    BY <1>1, <1>2

LEMMA Whole ==
    ASSUME TypeOK
    PROVE  /\ chunkIdx \in Nat /\ InWork \in Nat /\ Len(workerQ) \in Nat /\ Slices \in Nat
           /\ Len(framesQ) \in Nat /\ offset \in Nat /\ offset < SliceLen
           /\ nextAudioSequence \in Nat /\ nextVideoSequence \in Nat /\ silence \in Int
           /\ partialSamples \in Nat
<1>1. workerQ \in Seq(Item) /\ framesQ \in Seq(Frame) /\ ChunkSamples \in Nat
      /\ SliceLen \in Nat
    BY Layout DEF TypeOK
<1>2. chunkIdx \in Nat /\ InWork \in Nat /\ Len(workerQ) \in Nat
    BY <1>1 DEF TypeOK, InWork
<1>3. Slices \in Nat
    BY <1>2 DEF Slices
<1> QED
    BY <1>1, <1>2, <1>3 DEF TypeOK

LEMMA PushSettles ==
    ASSUME TypeOK, Grid, Accounted, Serving, NEW chunk \in Chunks, PushAudio(chunk)
    PROVE  Settles(nextAudioSequence', silence', SliceLen * Slices', partialSamples')
<1>0. /\ Slices \in Nat /\ chunkIdx \in Nat /\ InWork \in Nat /\ Len(workerQ) \in Nat
      /\ nextAudioSequence \in Int /\ partialSamples \in Int /\ silence \in Int
    BY Whole
<1>1. /\ nextAudioSequence' = nextAudioSequence + 1 /\ chunkIdx' = chunkIdx
      /\ worker' = IF worker = "none" THEN "loading" ELSE worker
    BY PushEffect
<1>2. InWork' = InWork
    BY <1>1 DEF InWork
<1> PICK units : units = SliceLen * Slices
    OBVIOUS
<1>3. units \in Int /\ Settles(nextAudioSequence, silence, units, partialSamples)
    BY <1>0, SliceFacts DEF Accounted
<1>4. PICK due \in Int :
          /\ silence' \in Int
          /\ partialSamples' \in Int
          /\ \/ workerQ' = workerQ /\ Gathered(partialSamples, silence, partialSamples', silence')
             \/ /\ workerQ' = Append(workerQ, AudioItem(due, epoch))
                /\ Cut(partialSamples, silence, partialSamples', silence')
    <2>1. partialSamples' \in Int /\ silence' \in Int
        BY PushExact
    <2> QED
        BY <2>1, PushExact DEF Gathered, Cut
<1>5. CASE workerQ' = workerQ /\ Gathered(partialSamples, silence, partialSamples', silence')
    <2>1. Slices' = Slices
        BY <1>1, <1>2, <1>5 DEF Slices
    <2>2. Settles(nextAudioSequence + 1, silence', units, partialSamples')
        BY <1>0, <1>3, <1>4, <1>5, GatheredSettles
    <2> QED
        BY <1>1, <2>1, <2>2
<1>6. CASE /\ workerQ' = Append(workerQ, AudioItem(due, epoch))
           /\ Cut(partialSamples, silence, partialSamples', silence')
    <2>1. Len(workerQ') = Len(workerQ) + 1
        <3>1. AudioItem(due, epoch) \in Item /\ workerQ \in Seq(Item)
            BY ItemTypes DEF TypeOK
        <3> QED
            BY <1>6, <3>1, AppendFacts
    <2>2. Slices' = Slices + 1
        BY <1>0, <1>1, <1>2, <2>1 DEF Slices
    <2>3. SliceLen * Slices' = units + SliceLen
        BY <1>0, <2>2, SliceFacts
    <2>4. Settles(nextAudioSequence + 1, silence', units + SliceLen, partialSamples')
        BY <1>0, <1>3, <1>4, <1>6, ChunkSettles
    <2> QED
        BY <1>1, <2>3, <2>4
<1> QED
    BY <1>4, <1>5, <1>6

\* Putting a frame: the next one of the slice, or the last.
LEMMA EmitEffect ==
    ASSUME TypeOK, Grid, WorkerEmits
    PROVE  /\ worker = "generating"
           /\ UNCHANGED <<nextAudioSequence, nextVideoSequence, silence, partialSamples, workerQ,
                          job, epoch>>
           /\ \/ /\ offset' = offset + 1 /\ chunkIdx' = chunkIdx /\ worker' = "generating"
              \/ /\ offset = SliceLen - 1 /\ offset' = 0 /\ chunkIdx' = chunkIdx + 1
                 /\ worker' = "idle"
           /\ Slices' = Slices
           /\ SliceLen * chunkIdx' + offset' = SliceLen * chunkIdx + offset + 1
<1>0. /\ chunkIdx \in Nat /\ offset \in Nat /\ offset < SliceLen /\ SliceLen \in Nat \ {0}
      /\ Len(workerQ) \in Nat /\ SliceLen * chunkIdx \in Int
    BY Whole, Layout, SliceFacts
<1>1. /\ worker = "generating"
      /\ UNCHANGED <<nextAudioSequence, nextVideoSequence, silence, partialSamples, workerQ,
                     job, epoch>>
      /\ \/ /\ offset' = offset + 1 /\ chunkIdx' = chunkIdx /\ worker' = "generating"
         \/ /\ offset = SliceLen - 1 /\ offset' = 0 /\ chunkIdx' = chunkIdx + 1
            /\ worker' = "idle"
    BY <1>0 DEF WorkerEmits, MoreFrames, adapter, runtime
<1>2. Slices' = Slices
    BY <1>0, <1>1 DEF Slices, InWork
<1>3. SliceLen * (chunkIdx + 1) = SliceLen * chunkIdx + SliceLen
    BY <1>0, SliceFacts
<1>4. SliceLen * chunkIdx' + offset' = SliceLen * chunkIdx + offset + 1
    <2>1. CASE offset' = offset + 1 /\ chunkIdx' = chunkIdx
        BY <1>0, <2>1
    <2>2. CASE offset = SliceLen - 1 /\ offset' = 0 /\ chunkIdx' = chunkIdx + 1
        BY <1>0, <1>3, <2>2
    <2> QED
        BY <1>1, <2>1, <2>2
<1> QED
    BY <1>1, <1>2, <1>4

\* The frame that is put, at its place behind the others.
LEMMA EmitAppends ==
    ASSUME TypeOK, WorkerEmits
    PROVE  /\ Len(framesQ') = Len(framesQ) + 1
           /\ \A i \in 1..Len(framesQ) : framesQ'[i] = framesQ[i]
           /\ framesQ'[Len(framesQ) + 1].pts_ms = FramePts
           /\ framesQ'[Len(framesQ) + 1].due_ms = job.due_ms + offset * VideoFrameMs
<1> PICK f : f = [pts_ms |-> FramePts, due_ms |-> job.due_ms + offset * VideoFrameMs,
                  origin |-> job.origin]
    OBVIOUS
<1>1. framesQ' = Append(framesQ, f)
    BY DEF WorkerEmits
<1>2. f \in Frame /\ framesQ \in Seq(Frame)
    <2>1. SliceLen \in Nat /\ offset \in Nat /\ chunkIdx \in Nat /\ job \in Item
        BY Layout DEF TypeOK
    <2> QED
        BY <2>1 DEF FramePts, Frame, TypeOK, Item, VideoFrameMs
<1>3. /\ Len(framesQ') = Len(framesQ) + 1
      /\ framesQ'[Len(framesQ) + 1] = f
      /\ \A i \in 1..Len(framesQ) : framesQ'[i] = framesQ[i]
    BY <1>1, <1>2, AppendFacts
<1> QED
    BY <1>3

LEMMA AccountedStep ==
    ASSUME IInv, Grid, Restarted, EpochBehind, OnlyAudio, Accounted, [Next]_vars
    PROVE  Accounted'
<1> SUFFICES ASSUME Serving'
             PROVE  /\ Settles(nextAudioSequence', silence', SliceLen * Slices', partialSamples')
                    /\ nextVideoSequence' + Len(framesQ') = SliceLen * chunkIdx' + offset'
    BY DEF Accounted
<1>0. TypeOK /\ workerQ \in Seq(Item) /\ framesQ \in Seq(Frame)
    BY DEF IInv, TypeOK
<1>t. /\ chunkIdx \in Nat /\ InWork \in Nat /\ Len(workerQ) \in Nat /\ Len(framesQ) \in Nat
      /\ nextVideoSequence \in Nat
    BY <1>0, Whole
<1>1. CASE ResetNoWorker \/ ResetReturn
    <2>1. /\ Slices' = 0 /\ Len(framesQ') = 0
          /\ chunkIdx' = 0 /\ offset' = 0 /\ partialSamples' = 0
          /\ nextAudioSequence' = 0 /\ nextVideoSequence' = 0 /\ silence' = 0
        BY <1>1, Fresh, EmptyFacts DEF Slices, InWork
    <2>2. Settles(0, 0, 0, 0)
        BY DEF Settles
    <2>3. SliceLen * 0 = 0
        BY SliceFacts
    <2> QED
        BY <2>1, <2>2, <2>3
<1>2. CASE Serving
    <2>0. /\ Settles(nextAudioSequence, silence, SliceLen * Slices, partialSamples)
          /\ nextVideoSequence + Len(framesQ) = SliceLen * chunkIdx + offset
        BY <1>2 DEF Accounted
    <2>1. ASSUME NEW chunk \in Chunks, PushAudio(chunk)
          PROVE  /\ Settles(nextAudioSequence', silence', SliceLen * Slices', partialSamples')
                 /\ nextVideoSequence' + Len(framesQ') = SliceLen * chunkIdx' + offset'
        <3>1. UNCHANGED <<nextVideoSequence, framesQ, chunkIdx, offset>>
            BY <1>0, <2>1, PushEffect
        <3>2. nextVideoSequence' + Len(framesQ') = nextVideoSequence + Len(framesQ)
              /\ SliceLen * chunkIdx' + offset' = SliceLen * chunkIdx + offset
            BY <3>1
        <3> QED
            BY <1>0, <1>2, <2>0, <2>1, <3>2, PushSettles
    <2>2. ASSUME NEW p \in Pullers, PullFrame(p)
          PROVE  /\ Settles(nextAudioSequence', silence', SliceLen * Slices', partialSamples')
                 /\ nextVideoSequence' + Len(framesQ') = SliceLen * chunkIdx' + offset'
        <3>1. /\ framesQ # <<>> /\ framesQ' = Tail(framesQ)
              /\ nextVideoSequence' = nextVideoSequence + 1
              /\ UNCHANGED <<nextAudioSequence, silence, partialSamples, workerQ, worker,
                             chunkIdx, offset>>
            BY <2>2 DEF PullFrame, runtime, thread
        <3>2. Len(framesQ') = Len(framesQ) - 1
            BY <1>0, <3>1, HeadTailFacts
        <3>3. nextVideoSequence' + Len(framesQ') = nextVideoSequence + Len(framesQ)
            BY <1>t, <3>1, <3>2
        <3>4. Slices' = Slices
            BY <3>1 DEF Slices, InWork
        <3>5. SliceLen * chunkIdx' + offset' = SliceLen * chunkIdx + offset
            BY <3>1
        <3>6. SliceLen * Slices' = SliceLen * Slices
            BY <3>4
        <3> QED
            BY <2>0, <3>1, <3>3, <3>5, <3>6
    <2>3. CASE TakesUp
        <3>1. /\ worker = "idle" /\ worker' = "generating"
              /\ workerQ # <<>> /\ workerQ' = Tail(workerQ)
              /\ UNCHANGED <<nextAudioSequence, nextVideoSequence, silence, partialSamples,
                             framesQ, offset, chunkIdx>>
            BY <2>3 DEF TakesUp
        <3>2. Len(workerQ') = Len(workerQ) - 1
            BY <1>0, <3>1, HeadTailFacts
        <3>3. Slices' = Slices
            BY <1>t, <3>1, <3>2 DEF Slices, InWork
        <3>4. SliceLen * Slices' = SliceLen * Slices
            BY <3>3
        <3> QED
            BY <2>0, <3>1, <3>4
    <2>4. CASE WorkerEmits
        <3>1. /\ Slices' = Slices
              /\ SliceLen * chunkIdx' + offset' = SliceLen * chunkIdx + offset + 1
              /\ UNCHANGED <<nextAudioSequence, nextVideoSequence, silence, partialSamples>>
            BY <1>0, <2>4, EmitEffect
        <3>2. Len(framesQ') = Len(framesQ) + 1
            BY <1>0, <2>4, EmitAppends
        <3>3. nextVideoSequence' + Len(framesQ') = nextVideoSequence + Len(framesQ) + 1
            BY <1>t, <3>1, <3>2
        <3>4. SliceLen * Slices' = SliceLen * Slices
            BY <3>1
        <3> QED
            BY <2>0, <3>1, <3>3, <3>4
    <2>5. CASE KeepsAll
        <3>1. /\ UNCHANGED <<nextAudioSequence, nextVideoSequence, silence, partialSamples,
                             framesQ, offset, chunkIdx>>
              /\ Slices' = Slices
            BY <2>5 DEF KeepsAll, Slices, InWork
        <3>2. SliceLen * Slices' = SliceLen * Slices
            BY <3>1
        <3> QED
            BY <2>0, <3>1, <3>2
    <2> QED
        BY <1>1, <2>1, <2>2, <2>3, <2>4, <2>5, ServingSteps
<1> QED
    BY <1>1, <1>2, ServingSteps

-----------------------------------------------------------------------------
(***************************************************************************)
(* Audio and frames stand at their moment.                                 *)
(***************************************************************************)

\* The audio clock at the first sample of the chunk that a push completes.
ClockReads(due, pushed, padded, partial) ==
    16 * due = 320 * (pushed + 1) + 16 * padded - (partial + 320)

LEMMA ClockSettles ==
    ASSUME NEW due \in Int, NEW pushed \in Int, NEW padded \in Int, NEW frames \in Int,
           NEW partial \in Int,
           ClockReads(due, pushed, padded, partial), Settles(pushed, padded, frames, partial)
    PROVE  due = 40 * frames
    BY DEF ClockReads, Settles

\* A chunk is queued behind the slices that are finished, in work and queued.
LEMMA PushOnTime ==
    ASSUME TypeOK, Grid, Accounted, OnTime, Serving, NEW chunk \in Chunks, PushAudio(chunk)
    PROVE  \A i \in 1..Len(workerQ') :
               workerQ'[i].due_ms = Begins(chunkIdx' + InWork' + i - 1)
<1>0. /\ Slices \in Nat /\ chunkIdx \in Nat /\ InWork \in Nat /\ Len(workerQ) \in Nat
      /\ nextAudioSequence \in Int /\ partialSamples \in Int /\ silence \in Int
      /\ workerQ \in Seq(Item)
    BY Whole DEF TypeOK
<1>1. /\ chunkIdx' = chunkIdx /\ worker' = IF worker = "none" THEN "loading" ELSE worker
    BY PushEffect
<1>2. InWork' = InWork
    BY <1>1 DEF InWork
<1>3. \A i \in 1..Len(workerQ) : workerQ[i].due_ms = Begins(chunkIdx + InWork + i - 1)
    BY DEF OnTime
<1> PICK due : due = ClockAt(partialSamples + 320)
    OBVIOUS
<1>4. /\ due \in Int
      /\ ClockReads(due, nextAudioSequence, silence, partialSamples)
      /\ workerQ' = workerQ \/ workerQ' = Append(workerQ, AudioItem(due, epoch))
    BY PushExact DEF ClockReads
<1>5. CASE workerQ' = workerQ
    BY <1>1, <1>2, <1>3, <1>5
<1>6. CASE workerQ' = Append(workerQ, AudioItem(due, epoch))
    <2> PICK x : x = AudioItem(due, epoch)
        OBVIOUS
    <2>1. x \in Item /\ x.due_ms = due
        BY <1>4, ItemTypes DEF TypeOK, AudioItem
    <2>2. /\ Len(workerQ') = Len(workerQ) + 1
          /\ workerQ'[Len(workerQ) + 1] = x
          /\ \A i \in 1..Len(workerQ) : workerQ'[i] = workerQ[i]
        BY <1>0, <1>6, <2>1, AppendFacts
    <2>3. due = Begins(Slices)
        <3> PICK units : units = SliceLen * Slices
            OBVIOUS
        <3>1. units \in Int
            BY <1>0, SliceFacts
        <3>2. Settles(nextAudioSequence, silence, units, partialSamples)
            BY DEF Accounted
        <3>3. due = 40 * units
            BY <1>0, <1>4, <3>1, <3>2, ClockSettles
        <3> QED
            BY <3>3 DEF Begins
    <2>4. chunkIdx + InWork + (Len(workerQ) + 1) - 1 = Slices
        BY <1>0 DEF Slices
    <2> SUFFICES ASSUME NEW i \in 1..Len(workerQ')
                 PROVE  workerQ'[i].due_ms = Begins(chunkIdx + InWork + i - 1)
        BY <1>1, <1>2
    <2>5. i \in 1..Len(workerQ) \/ i = Len(workerQ) + 1
        BY <1>0, <2>2
    <2>6. CASE i \in 1..Len(workerQ)
        BY <1>3, <2>2, <2>6
    <2>7. CASE i = Len(workerQ) + 1
        BY <2>1, <2>2, <2>3, <2>4, <2>7
    <2> QED
        BY <2>5, <2>6, <2>7
<1> QED
    BY <1>4, <1>5, <1>6

\* A frame is stamped with its place in the epoch, and shows that moment.
LEMMA EmitOnTime ==
    ASSUME TypeOK, Accounted, OnTime, Serving, worker = "generating"
    PROVE  /\ FramePts = 40 * (nextVideoSequence + Len(framesQ))
           /\ job.due_ms + offset * VideoFrameMs = FramePts
<1>0. chunkIdx \in Nat /\ offset \in Nat /\ SliceLen \in Nat
    BY Whole, Layout
<1> PICK q : q = SliceLen * chunkIdx
    OBVIOUS
<1>1. q \in Int /\ chunkIdx * SliceLen = q
    BY <1>0, SliceFacts
<1>2. nextVideoSequence + Len(framesQ) = q + offset
    BY DEF Accounted
<1>3. FramePts = q * 40 + offset * 40
    BY <1>1 DEF FramePts, VideoFrameMs
<1>4. job.due_ms = 40 * q
    BY DEF OnTime, Begins
<1>5. q * 40 + offset * 40 = 40 * (q + offset) /\ 40 * q + offset * 40 = q * 40 + offset * 40
    BY <1>0, <1>1
<1> QED
    BY <1>2, <1>3, <1>4, <1>5 DEF VideoFrameMs

LEMMA OnTimeStep ==
    ASSUME IInv, Grid, Restarted, EpochBehind, OnlyAudio, Accounted, OnTime, [Next]_vars
    PROVE  OnTime'
<1> DEFINE Queued == \A i \in 1..Len(workerQ) :
               workerQ[i].due_ms = Begins(chunkIdx + InWork + i - 1)
<1> DEFINE Held == worker = "generating" => job.due_ms = Begins(chunkIdx)
<1> DEFINE Shown == \A i \in 1..Len(framesQ) :
               /\ framesQ[i].pts_ms = 40 * (nextVideoSequence + i - 1)
               /\ framesQ[i].due_ms = framesQ[i].pts_ms
<1> SUFFICES ASSUME Serving'
             PROVE  Queued' /\ Held' /\ Shown'
    BY DEF OnTime
<1>0. TypeOK /\ workerQ \in Seq(Item) /\ framesQ \in Seq(Frame)
    BY DEF IInv, TypeOK
<1>t. /\ chunkIdx \in Nat /\ InWork \in Nat /\ Len(workerQ) \in Nat /\ Len(framesQ) \in Nat
      /\ nextVideoSequence \in Nat
    BY <1>0, Whole
<1>1. CASE ResetNoWorker \/ ResetReturn
    BY <1>1, Fresh, EmptyFacts
<1>2. CASE Serving
    <2>0. Queued /\ Held /\ Shown
        BY <1>2 DEF OnTime
    <2>1. ASSUME NEW chunk \in Chunks, PushAudio(chunk)
          PROVE  Queued' /\ Held' /\ Shown'
        <3>1. /\ UNCHANGED <<nextVideoSequence, framesQ, chunkIdx, job>>
              /\ worker' = "generating" => worker = "generating"
            BY <1>0, <2>1, PushEffect
        <3>2. Queued'
            BY <1>0, <1>2, <2>1, PushOnTime
        <3> QED
            BY <2>0, <3>1, <3>2
    <2>2. ASSUME NEW p \in Pullers, PullFrame(p)
          PROVE  Queued' /\ Held' /\ Shown'
        <3>1. /\ framesQ # <<>> /\ framesQ' = Tail(framesQ)
              /\ nextVideoSequence' = nextVideoSequence + 1
              /\ UNCHANGED <<workerQ, worker, chunkIdx, job>>
            BY <2>2 DEF PullFrame, thread
        <3>2. /\ Len(framesQ') = Len(framesQ) - 1
              /\ \A i \in 1..Len(framesQ') : framesQ'[i] = framesQ[i + 1]
            BY <1>0, <3>1, HeadTailFacts
        <3>3. Shown'
            <4> SUFFICES ASSUME NEW i \in 1..Len(framesQ')
                         PROVE  /\ framesQ'[i].pts_ms = 40 * (nextVideoSequence' + i - 1)
                                /\ framesQ'[i].due_ms = framesQ'[i].pts_ms
                OBVIOUS
            <4>1. i + 1 \in 1..Len(framesQ)
                BY <1>t, <3>2
            <4>2. nextVideoSequence + (i + 1) - 1 = nextVideoSequence' + i - 1
                BY <1>t, <3>1, <3>2
            <4> QED
                BY <2>0, <3>2, <4>1, <4>2
        <3>4. InWork' = InWork
            BY <3>1 DEF InWork
        <3> QED
            BY <2>0, <3>1, <3>3, <3>4
    <2>3. CASE TakesUp
        <3>1. /\ worker = "idle" /\ worker' = "generating" /\ job' = Head(workerQ)
              /\ workerQ # <<>> /\ workerQ' = Tail(workerQ)
              /\ UNCHANGED <<nextVideoSequence, framesQ, chunkIdx>>
            BY <2>3 DEF TakesUp
        <3>2. /\ Len(workerQ') = Len(workerQ) - 1 /\ Head(workerQ) = workerQ[1]
              /\ Len(workerQ) \in Nat \ {0}
              /\ \A i \in 1..Len(workerQ') : workerQ'[i] = workerQ[i + 1]
            BY <1>0, <3>1, HeadTailFacts
        <3>3. InWork = 0 /\ InWork' = 1
            BY <3>1 DEF InWork
        <3>4. job'.due_ms = Begins(chunkIdx)
            <4>1. 1 \in 1..Len(workerQ) /\ chunkIdx + InWork + 1 - 1 = chunkIdx
                BY <1>t, <3>2, <3>3
            <4> QED
                BY <2>0, <3>1, <3>2, <4>1
        <3>5. Queued'
            <4> SUFFICES ASSUME NEW i \in 1..Len(workerQ')
                         PROVE  workerQ'[i].due_ms = Begins(chunkIdx' + InWork' + i - 1)
                OBVIOUS
            <4>1. i + 1 \in 1..Len(workerQ)
                BY <1>t, <3>2
            <4>2. chunkIdx + InWork + (i + 1) - 1 = chunkIdx' + InWork' + i - 1
                BY <1>t, <3>1, <3>2, <3>3
            <4> QED
                BY <2>0, <3>2, <4>1, <4>2
        <3> QED
            BY <2>0, <3>1, <3>4, <3>5
    <2>4. CASE WorkerEmits
        <3>1. /\ worker = "generating"
              /\ UNCHANGED <<nextVideoSequence, workerQ, job>>
              /\ \/ /\ offset' = offset + 1 /\ chunkIdx' = chunkIdx /\ worker' = "generating"
                 \/ /\ offset = SliceLen - 1 /\ offset' = 0 /\ chunkIdx' = chunkIdx + 1
                    /\ worker' = "idle"
            BY <1>0, <2>4, EmitEffect
        <3>2. chunkIdx' + InWork' = chunkIdx + InWork
            BY <1>t, <3>1 DEF InWork
        <3>3. Queued'
            BY <2>0, <3>1, <3>2
        <3>4. Held'
            BY <2>0, <3>1
        <3>5. /\ Len(framesQ') = Len(framesQ) + 1
              /\ \A i \in 1..Len(framesQ) : framesQ'[i] = framesQ[i]
              /\ framesQ'[Len(framesQ) + 1].pts_ms = FramePts
              /\ framesQ'[Len(framesQ) + 1].due_ms = job.due_ms + offset * VideoFrameMs
            BY <1>0, <2>4, EmitAppends
        <3>6. /\ FramePts = 40 * (nextVideoSequence + Len(framesQ))
              /\ job.due_ms + offset * VideoFrameMs = FramePts
            BY <1>0, <1>2, <3>1, EmitOnTime
        <3>7. Shown'
            <4> SUFFICES ASSUME NEW i \in 1..Len(framesQ')
                         PROVE  /\ framesQ'[i].pts_ms = 40 * (nextVideoSequence + i - 1)
                                /\ framesQ'[i].due_ms = framesQ'[i].pts_ms
                BY <3>1
            <4>1. i \in 1..Len(framesQ) \/ i = Len(framesQ) + 1
                BY <1>t, <3>5
            <4>2. CASE i \in 1..Len(framesQ)
                BY <2>0, <3>5, <4>2
            <4>3. CASE i = Len(framesQ) + 1
                <5>1. nextVideoSequence + i - 1 = nextVideoSequence + Len(framesQ)
                    BY <1>t, <4>3
                <5> QED
                    BY <3>5, <3>6, <4>3, <5>1
            <4> QED
                BY <4>1, <4>2, <4>3
        <3> QED
            BY <3>3, <3>4, <3>7
    <2>5. CASE KeepsAll
        <3>1. /\ UNCHANGED <<nextVideoSequence, workerQ, framesQ, chunkIdx, job>>
              /\ InWork' = InWork
              /\ worker' = "generating" => worker = "generating"
            BY <2>5 DEF KeepsAll, InWork
        <3> QED
            BY <2>0, <3>1
    <2> QED
        BY <1>1, <2>1, <2>2, <2>3, <2>4, <2>5, ServingSteps
<1> QED
    BY <1>1, <1>2, ServingSteps

TimeLine == Grid /\ Restarted /\ EpochBehind /\ OnlyAudio /\ Accounted /\ OnTime

LEMMA TimeLineInit == Init => TimeLine
<1> SUFFICES ASSUME Init
             PROVE  TimeLine
    OBVIOUS
<1>1. Grid
    <2>1. partialSamples = 0 * 320
        BY DEF Init
    <2>2. \E k \in Nat : partialSamples = k * 320
        BY <2>1
    <2> QED
        BY <2>2 DEF Init, Grid
<1>2. Restarted /\ EpochBehind
    BY DEF Init, Restarted, EpochBehind, InReset
<1>3. workerQ = <<>> /\ framesQ = <<>> /\ Len(workerQ) = 0 /\ Len(framesQ) = 0
    BY EmptyFacts DEF Init
<1>4. OnlyAudio
    BY <1>3 DEF Init, OnlyAudio
<1>5. Accounted
    <2>1. Slices = 0 /\ SliceLen * 0 = 0
        BY <1>3, SliceFacts DEF Init, Slices, InWork
    <2>2. Settles(0, 0, 0, 0)
        BY DEF Settles
    <2> QED
        BY <1>3, <2>1, <2>2 DEF Init, Accounted
<1>6. OnTime
    BY <1>3 DEF Init, OnTime
<1> QED
    BY <1>1, <1>2, <1>4, <1>5, <1>6 DEF TimeLine

LEMMA TimeLineHolds == Spec => []TimeLine
<1>1. IInv /\ TimeLine /\ [Next]_vars => TimeLine'
    BY GridStep, RestartedStep, EpochBehindStep, OnlyAudioStep, AccountedStep, OnTimeStep
    DEF TimeLine, IInv
<1> QED
    BY <1>1, TimeLineInit, Invariance, PTL DEF Spec

\* While the worker lives and no reset has given up, every millisecond of
\* accepted audio is held back, queued, being generated or finished, and every
\* finished frame is queued or was delivered (flashhead_runtime.py:106-118,
\* 179-187, 248-278), for every layout and however long the session runs.
THEOREM AudioAccountedCorrect == Spec => []AudioAccounted
<1>1. IInv /\ TimeLine => AudioAccounted
    <2> SUFFICES ASSUME IInv, TimeLine, loop = "ready", state = "active", worker # "crashed",
                        ResetsKept
                 PROVE  /\ nextAudioSequence * AudioChunkMs + silence =
                              partialSamples \div SamplesPerMs
                                + SliceLen * VideoFrameMs * (chunkIdx + InWork + AudioQueued)
                        /\ nextVideoSequence + Len(framesQ) = chunkIdx * SliceLen + offset
        BY DEF AudioAccounted
    <2>0. TypeOK /\ workerQ \in Seq(Item)
        BY DEF IInv, TypeOK
    <2>1. Serving
        BY DEF Serving
    <2>2. /\ Settles(nextAudioSequence, silence, SliceLen * Slices, partialSamples)
          /\ nextVideoSequence + Len(framesQ) = SliceLen * chunkIdx + offset
        BY <2>1 DEF TimeLine, Accounted
    <2>3. AudioQueued = Len(workerQ)
        BY <2>0, <2>1, CountIs, CountAll DEF TimeLine, OnlyAudio
    <2>4. chunkIdx + InWork + AudioQueued = Slices /\ Slices \in Nat /\ chunkIdx \in Nat
          /\ nextAudioSequence \in Nat /\ silence \in Int /\ SliceLen \in Nat
        BY <2>0, <2>3, Whole, Layout DEF Slices
    <2> PICK units : units = SliceLen * Slices
        OBVIOUS
    <2>5. units \in Int /\ SliceLen * 40 * Slices = 40 * units
        BY <2>4, SliceFacts
    <2> PICK k \in Nat : partialSamples = k * 320
        BY DEF TimeLine, Grid
    <2>6. partialSamples \div SamplesPerMs = 20 * k
        <3>1. partialSamples = 16 * (20 * k) /\ 20 * k \in Int
            OBVIOUS
        <3> QED
            BY <3>1, Milliseconds
    <2>7. nextAudioSequence * 20 + silence = 20 * k + 40 * units
        <3>1. \A n, s, m, u \in Int : Settles(n, s, u, m * 320) => n * 20 + s = 20 * m + 40 * u
            BY DEF Settles
        <3> QED
            BY <2>2, <2>4, <2>5, <3>1
    <2>8. chunkIdx * SliceLen = SliceLen * chunkIdx
        BY <2>4, SliceFacts
    <2> QED
        BY <2>2, <2>4, <2>5, <2>6, <2>7, <2>8 DEF AudioChunkMs, VideoFrameMs
<1> QED
    BY <1>1, TimeLineHolds, Invariance, PTL

\* What a pull takes off a session that keeps its resets is on the 40 ms grid.
LEMMA HeadOnTime ==
    ASSUME IInv, Lifecycle, TimeLine, ResetsKept, NEW p \in Pullers, PullFrame(p)
    PROVE  /\ Stamped(Head(framesQ)).pts_ms = Stamped(Head(framesQ)).sequence * VideoFrameMs
           /\ Stamped(Head(framesQ)).due_ms = Stamped(Head(framesQ)).pts_ms
<1>0. framesQ \in Seq(Frame) /\ nextVideoSequence \in Nat
    BY DEF IInv, TypeOK
<1>1. framesQ # <<>> /\ loop = "ready" /\ worker # "crashed"
    BY DEF PullFrame, Polls, HearsCrash
<1>2. Serving
    BY <1>1 DEF Serving, Lifecycle
<1>3. Head(framesQ) = framesQ[1] /\ 1 \in 1..Len(framesQ)
    BY <1>0, <1>1, HeadTailFacts
<1>4. /\ Head(framesQ).pts_ms = 40 * (nextVideoSequence + 1 - 1)
      /\ Head(framesQ).due_ms = Head(framesQ).pts_ms
    BY <1>2, <1>3 DEF TimeLine, OnTime
<1>5. 40 * (nextVideoSequence + 1 - 1) = nextVideoSequence * 40
    BY <1>0
<1> QED
    BY <1>4, <1>5 DEF Stamped, VideoFrameMs

\* Until a reset gives up, the frames of an epoch are delivered without a gap on
\* the 40 ms grid, from zero after each reset, and each shows the audio of its
\* own moment (flashhead.py:116-123, flashhead_runtime.py:106-118, 256,
\* 269-278), provided the worker stops within the time that close waits for it.
THEOREM VideoFollowsAudioCorrect ==
    ASSUME ~JoinMayTimeout
    PROVE  Spec => []VideoFollowsAudio
<1>1. Init => VideoFollowsAudio
    BY DEF Init, VideoFollowsAudio
<1>2. IInv /\ Lifecycle /\ TimeLine /\ VideoFollowsAudio /\ [Next]_vars => VideoFollowsAudio'
    <2> SUFFICES ASSUME IInv, Lifecycle, TimeLine, VideoFollowsAudio, [Next]_vars, ResetsKept'
                 PROVE  \A f \in delivered' : /\ f.pts_ms = f.sequence * VideoFrameMs
                                              /\ f.due_ms = f.pts_ms
        BY DEF VideoFollowsAudio
    <2>0. TypeOK /\ framesQ \in Seq(Frame) /\ nextVideoSequence \in Nat
        BY DEF IInv, TypeOK
    <2>1. ResetsKept
        BY <2>0, KeptStays DEF TimeLine
    <2>2. \A f \in delivered : /\ f.pts_ms = f.sequence * VideoFrameMs
                               /\ f.due_ms = f.pts_ms
        BY <2>1 DEF VideoFollowsAudio
    <2>3. ASSUME NEW p \in Pullers, PullFrame(p)
          PROVE  \A f \in delivered' : /\ f.pts_ms = f.sequence * VideoFrameMs
                                       /\ f.due_ms = f.pts_ms
        <3>1. delivered' = delivered \cup {Stamped(Head(framesQ))}
            BY <2>3 DEF PullFrame
        <3> PICK g : g = Stamped(Head(framesQ))
            OBVIOUS
        <3>6. g.pts_ms = g.sequence * VideoFrameMs /\ g.due_ms = g.pts_ms
            BY <2>1, <2>3, HeadOnTime
        <3> QED
            BY <2>2, <3>1, <3>6
    <2> QED
        BY <2>2, <2>3, Deliveries
<1> QED
    BY <1>1, <1>2, TimeLineHolds, LifecycleHolds, Invariance, PTL DEF Spec

-----------------------------------------------------------------------------
\* A closed session stays closed, and its worker stays stopped.
LEMMA ClosedStays ==
    IInv /\ Lifecycle /\ (state = "closed") /\ [Next]_vars => (state = "closed")'
<1> SUFFICES ASSUME IInv, Lifecycle, state = "closed", [Next]_vars
             PROVE  state' = "closed"
    OBVIOUS
<1>1. loop = "ready"
    BY DEF Lifecycle
<1>2. ASSUME NEW chunk \in Chunks, PushAudio(chunk)
      PROVE  FALSE
    BY <1>2 DEF PushAudio, RequireActive
<1>3. ~(ResetSteps \/ CloseSteps)
    BY <1>1 DEF ResetSteps, CloseSteps, ResetDrainAudio, ResetNoWorker, ResetAsk, ResetDone,
        ResetTimeout, ResetDrainFrames, ResetReturn, CloseJoin, CloseDrainAudio,
        CloseAudioDrained, CloseDrainFrames, CloseReturn
<1> QED
    BY <1>2, <1>3
    DEF Next, Start, PullStart, PullFrame, PullRaises, PullTimeout, ResetCall, CloseUnopened,
        CloseCall, WorkerSteps, WorkerLoads, WorkerGets, WorkerResets, WorkerEmits,
        WorkerCrashes, vars, adapter

\* Closing ends the worker thread for good (flashhead_runtime.py:148-156,
\* docs/FLASHHEAD_INTERFACE_AUDIT.md:30), whatever it was doing and whether or
\* not it dies, provided it ends within the time that close waits for it.  No
\* fairness is needed: by the time the session is closed the worker has ended.
THEOREM CloseStopsWorkerCorrect ==
    ASSUME ~JoinMayTimeout
    PROVE  Spec => CloseStopsWorker
<1>1. Lifecycle => (state = "closed" => Stopped)
    BY DEF Lifecycle
<1>2. Spec => []IInv /\ []Lifecycle
    BY Invariance, LifecycleHolds, PTL
<1> QED
    BY <1>1, <1>2, ClosedStays, PTL DEF Spec, CloseStopsWorker

-----------------------------------------------------------------------------
\* A reset gives up for one of two reasons.  If its time is never up the worker
\* has died, and a session whose worker has died delivers nothing any more.
KeptOrCrashed == ResetsKept \/ worker = "crashed"

LEMMA KeptOrCrashedStep ==
    ASSUME ~ResetMayTimeout, TypeOK, Lifecycle, KeptOrCrashed, [Next]_vars
    PROVE  KeptOrCrashed'
<1>0. event \in Nat /\ epoch \in Nat
    BY DEF TypeOK
<1>1. worker = "crashed" => worker' = "crashed"
    <2> SUFFICES ASSUME worker = "crashed"
                 PROVE  worker' = "crashed"
        OBVIOUS
    <2>1. state # "created"
        BY DEF Lifecycle
    <2>2. ASSUME NEW chunk \in Chunks, PushAudio(chunk)
          PROVE  worker' = worker
        BY <2>2, PushEffect
    <2> QED
        BY <2>1, <2>2
        DEF Next, Start, PullStart, PullFrame, PullRaises, PullTimeout, ResetCall, ResetSteps,
            ResetDrainAudio, ResetNoWorker, ResetAsk, ResetDone, ResetTimeout, ResetDrainFrames,
            ResetReturn, CloseUnopened, CloseCall, CloseSteps, CloseJoin, CloseDrainAudio,
            CloseAudioDrained, CloseDrainFrames, CloseReturn, WorkerSteps, WorkerLoads,
            WorkerGets, WorkerResets, WorkerEmits, WorkerCrashes, vars, thread
<1>2. CASE UNCHANGED <<event, epoch>> /\ InReset' = InReset
    BY <1>1, <1>2 DEF KeptOrCrashed, ResetsKept, InReset
<1>3. CASE ResetCall
    BY <1>0, <1>1, <1>3 DEF ResetCall, RequireActive, adapter, KeptOrCrashed, ResetsKept
<1>4. CASE ResetTimeout
    BY <1>1, <1>4 DEF ResetTimeout, TimerFires, KeptOrCrashed
<1>5. CASE ResetNoWorker \/ ResetReturn
    BY <1>0, <1>1, <1>5 DEF ResetNoWorker, ResetReturn, NextEpoch, runtime, KeptOrCrashed, ResetsKept
<1> QED
    BY <1>2, <1>3, <1>4, <1>5, ResetMoves

\* Within an epoch the frames are numbered through, as the experiment says
\* (experiments/system-interface/flashhead-headless-001/experiment.md:15), also
\* if the worker dies: the reset that runs out of time is the one thing that
\* breaks the numbering (flashhead_runtime.py:138-142).
THEOREM PtsContinuousCorrect ==
    ASSUME ~JoinMayTimeout, ~ResetMayTimeout
    PROVE  Spec => []PtsContinuous
<1>1. Init => KeptOrCrashed /\ PtsContinuous
    BY DEF Init, KeptOrCrashed, ResetsKept, PtsContinuous
<1>2. IInv /\ Lifecycle /\ KeptOrCrashed /\ [Next]_vars => KeptOrCrashed'
    BY KeptOrCrashedStep DEF IInv
<1>3. IInv /\ Lifecycle /\ TimeLine /\ KeptOrCrashed /\ PtsContinuous /\ [Next]_vars
        => PtsContinuous'
    <2> SUFFICES ASSUME IInv, Lifecycle, TimeLine, KeptOrCrashed, PtsContinuous, [Next]_vars
                 PROVE  PtsContinuous'
        OBVIOUS
    <2>1. ASSUME NEW p \in Pullers, PullFrame(p)
          PROVE  PtsContinuous'
        <3>1. delivered' = delivered \cup {Stamped(Head(framesQ))}
            BY <2>1 DEF PullFrame
        <3>2. ResetsKept
            BY <2>1 DEF PullFrame, HearsCrash, KeptOrCrashed
        <3>3. Stamped(Head(framesQ)).pts_ms = Stamped(Head(framesQ)).sequence * VideoFrameMs
            BY <2>1, <3>2, HeadOnTime
        <3> QED
            BY <3>1, <3>3 DEF PtsContinuous
    <2> QED
        BY <2>1, Deliveries DEF PtsContinuous
<1> QED
    BY <1>1, <1>2, <1>3, TimeLineHolds, LifecycleHolds, Invariance, PTL DEF Spec
=============================================================================
