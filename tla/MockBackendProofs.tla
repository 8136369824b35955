------------------------- MODULE MockBackendProofs -------------------------
(***************************************************************************)
(* Proofs about MockBackend, for every configuration, every set of chunks, *)
(* revisions and pullers and every number of resets.                       *)
(***************************************************************************)
EXTENDS MockBackend, TLAPS

-----------------------------------------------------------------------------
\* Sequence facts in the form in which the proofs below use them.

LEMMA AppendFacts ==
    ASSUME NEW S, NEW q \in Seq(S), NEW x \in S
    PROVE  /\ Append(q, x) \in Seq(S)
           /\ Len(Append(q, x)) = Len(q) + 1
           /\ Append(q, x)[Len(q) + 1] = x
           /\ \A i \in 1..Len(q) : Append(q, x)[i] = q[i]
    OBVIOUS

LEMMA AtMostOne ==
    ASSUME NEW S, NEW q \in Seq(S), Len(q) <= 1
    PROVE  Len(q) = 0 \/ Len(q) = 1
<1> DEFINE n == Len(q)
<1>1. n \in Nat /\ n <= 1
    OBVIOUS
<1>2. n = 0 \/ n = 1
    <2> HIDE DEF n
    <2> QED
        BY <1>1
<1> QED
    BY <1>2

LEMMA EmptyFacts ==
    ASSUME NEW S
    PROVE  <<>> \in Seq(S) /\ Len(<<>>) = 0
    OBVIOUS

LEMMA HeadTailFacts ==
    ASSUME NEW S, NEW q \in Seq(S), q # <<>>
    PROVE  /\ Head(q) \in S
           /\ Head(q) = q[1]
           /\ Tail(q) \in Seq(S)
           /\ Len(q) \in Nat \ {0}
           /\ Len(Tail(q)) = Len(q) - 1
           /\ \A i \in 1..Len(Tail(q)) : Tail(q)[i] = q[i + 1]
    OBVIOUS

-----------------------------------------------------------------------------
\* The type invariant is inductive: every call and every step of a pull keeps
\* each variable in its type.
LEMMA TypeStep == TypeOK /\ [Next]_vars => TypeOK'
<1> SUFFICES ASSUME TypeOK, [Next]_vars
             PROVE  TypeOK'
    OBVIOUS
<1> USE DEF TypeOK
<1>1. ASSUME NEW c \in Configs, Start(c)
      PROVE  TypeOK'
    BY <1>1, ConfigsAssumption DEF Start, input, output, pulls, SessionState
<1>2. ASSUME NEW chunk \in Chunks, PushAudio(chunk)
      PROVE  TypeOK'
    <2> DEFINE pair == Append(audio, chunk)
    <2>1. pair \in Seq(AudioChunk) /\ Len(pair) = Len(audio) + 1
        BY AppendFacts, ChunksAssumption
    <2>2. CASE Emits(pair)
        <3>1. Head(pair) \in AudioChunk
            BY <2>1, <2>2, HeadTailFacts DEF Emits
        <3>2. Frame(Head(pair)) \in VideoChunk
            BY <3>1 DEF Frame, VideoChunk, AudioChunk
        <3>3. Append(video, Frame(Head(pair))) \in Seq(VideoChunk)
            BY <3>2, AppendFacts
        <3>4. /\ audio' = <<>>
              /\ video' = Append(video, Frame(Head(pair)))
              /\ nextVideoSequence' = nextVideoSequence + 1
              /\ nextAudioSequence' = nextAudioSequence + 1
              /\ UNCHANGED <<session, epoch, controlRevision, pulls>>
            BY <1>2, <2>2 DEF PushAudio
        <3>5. audio' \in Seq(AudioChunk)
            BY <3>4, EmptyFacts
        <3> QED
            BY <3>3, <3>4, <3>5 DEF session, pulls
    <2>3. CASE ~Emits(pair)
        <3>1. /\ audio' = pair
              /\ nextAudioSequence' = nextAudioSequence + 1
              /\ UNCHANGED <<session, output, epoch, controlRevision, pulls>>
            BY <1>2, <2>3 DEF PushAudio
        <3> QED
            BY <2>1, <3>1 DEF session, output, pulls
    <2> QED
        BY <2>2, <2>3
<1>3. ASSUME NEW revision \in Revisions, UpdateControl(revision)
      PROVE  TypeOK'
    BY <1>3, RevisionsAssumption DEF UpdateControl, session, input, output, pulls
<1>4. ASSUME NEW p \in Pullers, NEW mode \in PullModes, PullStart(p, mode)
      PROVE  TypeOK'
    BY <1>4 DEF PullStart, session, input, output
<1>5. ASSUME NEW p \in Pullers, PullUntimed(p)
      PROVE  TypeOK'
    BY <1>5, HeadTailFacts DEF PullUntimed, session, input
<1>6. ASSUME NEW p \in Pullers, PullTake(p)
      PROVE  TypeOK'
    BY <1>6, HeadTailFacts DEF PullTake, session, input
<1>7. ASSUME NEW p \in Pullers, PullDeliver(p)
      PROVE  TypeOK'
    <2>1. NoFrame \in VideoChunk
        BY DEF NoFrame, VideoChunk
    <2> QED
        BY <1>7, <2>1 DEF PullDeliver, session, input, output
<1>8. ASSUME NEW p \in Pullers, PullTimeout(p)
      PROVE  TypeOK'
    BY <1>8 DEF PullTimeout, session, input, output
<1>9. CASE Reset
    BY <1>9 DEF Reset, DrainVideo, RestartNumbering, session, pulls
<1>10. CASE Close
    BY <1>10 DEF Close, DrainVideo, pulls, SessionState
<1>11. CASE UNCHANGED vars
    BY <1>11 DEF vars, session, input, output, pulls
<1> QED
    BY <1>1, <1>2, <1>3, <1>4, <1>5, <1>6, <1>7, <1>8, <1>9, <1>10, <1>11 DEF Next

LEMMA TypeInit == Init => TypeOK
    BY DEF Init, TypeOK, SessionState, NoConfig, SessionConfig, NoFrame, VideoChunk

\* Every reachable state of the backend is well typed.
THEOREM TypeCorrect == Spec => []TypeOK
    BY TypeInit, TypeStep, PTL DEF Spec

-----------------------------------------------------------------------------
(***************************************************************************)
(* The inductive invariant behind the safety properties.  Lockstep and     *)
(* ExactlyOnce are not inductive alone: the first needs to know when the   *)
(* pair under construction began, the second that everything which has     *)
(* left the queue is older than what is in it.                             *)
(***************************************************************************)

\* The number of the oldest frame that has not left the queue.
Oldest == nextVideoSequence - Len(video)

BeforeStart ==
    state = "created" =>
        /\ audio = <<>> /\ video = <<>>
        /\ nextAudioSequence = 0 /\ nextVideoSequence = 0
        /\ epoch = 0 /\ delivered = {}
        /\ \A p \in Pullers : pull[p] = "idle"

AfterClose == state = "closed" => video = <<>>

Opened == state = "active" => config.max_output_chunks > 0

PendingChunk ==
    (state = "active" /\ Len(audio) = 1) =>
        audio[1].pts_ms = nextVideoSequence * VideoFrameMs

LeftQueue(f) == f.epoch < epoch \/ (f.epoch = epoch /\ f.sequence < Oldest)

OlderLeft ==
    /\ \A f \in delivered : LeftQueue(f)
    /\ \A p \in Pullers : pull[p] = "holding" => LeftQueue(held[p])

AllClaimed ==
    state = "active" =>
        \A n \in 0..(Oldest - 1) : DeliveredNow(n) \/ \E p \in Pullers : HeldNow(p, n)

ClaimedOnce ==
    \A p \in Pullers : \A n \in Nat :
        HeldNow(p, n) => /\ ~DeliveredNow(n)
                         /\ \A q \in Pullers \ {p} : ~HeldNow(q, n)

CallsAreFresh ==
    \A p \in Pullers :
        /\ since[p] <= epoch
        /\ pull[p] = "holding" => held[p].epoch >= since[p]

Pairing == BeforeStart /\ AfterClose /\ Opened /\ PendingChunk /\ Lockstep /\ OutputBounded

Claims == OlderLeft /\ AllClaimed /\ ClaimedOnce

IInv == TypeOK /\ Pairing /\ UnbrokenRun /\ Claims /\ CallsAreFresh

-----------------------------------------------------------------------------
\* What a push does, by whether it completes a frame.
LEMMA PushEffect ==
    ASSUME TypeOK, Pairing, NEW chunk \in Chunks, PushAudio(chunk)
    PROVE  /\ state = "active"
           /\ nextAudioSequence' = nextAudioSequence + 1
           /\ UNCHANGED <<state, config, epoch, controlRevision, pull, held, since, delivered>>
           /\ \/ /\ Len(audio) = 0
                 /\ audio' = <<chunk>>
                 /\ chunk.pts_ms = nextAudioSequence * AudioChunkMs
                 /\ UNCHANGED <<video, nextVideoSequence>>
              \/ /\ Len(audio) = 1
                 /\ Len(video) < config.max_output_chunks
                 /\ audio' = <<>>
                 /\ video' = Append(video, Frame(audio[1]))
                 /\ nextVideoSequence' = nextVideoSequence + 1
<1> DEFINE pair == Append(audio, chunk)
<1>0. /\ audio \in Seq(AudioChunk) /\ Len(audio) \in Nat
      /\ video \in Seq(VideoChunk) /\ Len(video) \in Nat
      /\ config.max_output_chunks \in Int
      /\ chunk \in AudioChunk
    BY ChunksAssumption DEF TypeOK, SessionConfig
<1>1. /\ RequireActive
      /\ AcceptsChunk(chunk, nextAudioSequence)
      /\ ~OutputBlocked
      /\ nextAudioSequence' = nextAudioSequence + 1
      /\ UNCHANGED <<session, epoch, controlRevision, pulls>>
    BY DEF PushAudio
<1>2. /\ state = "active"
      /\ chunk.pts_ms = nextAudioSequence * AudioChunkMs
      /\ UNCHANGED <<state, config, epoch, controlRevision, pull, held, since, delivered>>
    BY <1>1 DEF RequireActive, AcceptsChunk, session, pulls
<1>3. Len(audio) = 0 \/ Len(audio) = 1
    BY <1>0, <1>2, AtMostOne DEF Pairing, Lockstep
<1>4. pair \in Seq(AudioChunk) /\ Len(pair) = Len(audio) + 1
    BY <1>0, AppendFacts
<1>5. CASE Len(audio) = 0
    <2>1. ~Emits(pair)
        BY <1>4, <1>5 DEF Emits
    <2>2. audio' = pair /\ UNCHANGED <<video, nextVideoSequence>>
        BY <2>1 DEF PushAudio, output
    <2>3. pair = <<chunk>>
        BY <1>0, <1>5
    <2> QED
        BY <1>1, <1>2, <1>5, <2>2, <2>3
<1>6. CASE Len(audio) = 1
    <2>1. ~VideoFull
        BY <1>1, <1>6 DEF OutputBlocked
    <2>2. Len(video) < config.max_output_chunks
        BY <1>0, <1>2, <2>1 DEF VideoFull, Pairing, Opened
    <2>3. Emits(pair)
        BY <1>4, <1>6, <2>1 DEF Emits
    <2>4. Head(pair) = audio[1]
        <3>1. pair # <<>>
            BY <1>4, <1>6
        <3>2. Head(pair) = pair[1]
            BY <1>4, <3>1, HeadTailFacts
        <3>3. pair[1] = audio[1]
            <4>1. 1 \in 1..Len(audio)
                BY <1>6
            <4> QED
                BY <1>0, <4>1, AppendFacts
        <3> QED
            BY <3>2, <3>3
    <2>5. /\ video' = Append(video, Frame(Head(pair)))
          /\ audio' = <<>>
          /\ nextVideoSequence' = nextVideoSequence + 1
        BY <2>3 DEF PushAudio
    <2> QED
        BY <1>1, <1>2, <1>6, <2>2, <2>4, <2>5
<1> QED
    BY <1>3, <1>5, <1>6

\* A step of a pull: its puller was not idle, so the session was started.
LEMMA PullEffect ==
    ASSUME TypeOK, NEW p \in Pullers,
           PullUntimed(p) \/ PullTake(p) \/ PullDeliver(p) \/ PullTimeout(p)
    PROVE  /\ pull[p] # "idle"
           /\ UNCHANGED <<state, config, audio, epoch, nextAudioSequence,
                          nextVideoSequence, controlRevision, since>>
           /\ video' = video \/ (video # <<>> /\ video' = Tail(video))
<1>1. CASE PullUntimed(p)
    BY <1>1 DEF PullUntimed, session, input
<1>2. CASE PullTake(p)
    BY <1>2 DEF PullTake, session, input
<1>3. CASE PullDeliver(p)
    BY <1>3 DEF PullDeliver, session, input, output
<1>4. CASE PullTimeout(p)
    BY <1>4 DEF PullTimeout, session, input, output
<1> QED
    BY <1>1, <1>2, <1>3, <1>4

LEMMA PairingStep == TypeOK /\ TypeOK' /\ Pairing /\ [Next]_vars => Pairing'
<1> SUFFICES ASSUME TypeOK, TypeOK', Pairing, [Next]_vars
             PROVE  Pairing'
    OBVIOUS
<1>0. /\ audio \in Seq(AudioChunk) /\ Len(audio) \in Nat
      /\ video \in Seq(VideoChunk) /\ Len(video) \in Nat
      /\ nextAudioSequence \in Nat /\ nextVideoSequence \in Nat
      /\ config.max_output_chunks \in Int /\ config'.max_output_chunks \in Int
    BY DEF TypeOK, SessionConfig
<1>1. ASSUME NEW c \in Configs, Start(c)
      PROVE  Pairing'
    <2>1. /\ state = "created" /\ state' = "active"
          /\ UNCHANGED <<audio, video, nextAudioSequence, nextVideoSequence>>
          /\ config'.max_output_chunks > 0
        BY <1>1 DEF Start, Validates, input, output
    <2>2. Len(audio') = 0 /\ Len(video') = 0 /\ nextAudioSequence' = 0 /\ nextVideoSequence' = 0
        BY <2>1, EmptyFacts DEF Pairing, BeforeStart
    <2>3. Lockstep' /\ OutputBounded'
        BY <1>0, <2>1, <2>2 DEF Lockstep, OutputBounded
    <2> QED
        BY <2>1, <2>2, <2>3 DEF Pairing, BeforeStart, AfterClose, Opened, PendingChunk
<1>2. ASSUME NEW chunk \in Chunks, PushAudio(chunk)
      PROVE  Pairing'
    <2>1. state' = "active" /\ config' = config
          /\ nextAudioSequence' = nextAudioSequence + 1
          /\ nextAudioSequence = 2 * nextVideoSequence + Len(audio)
          /\ config.max_output_chunks > 0 /\ Len(video) <= config.max_output_chunks
        BY <1>2, PushEffect DEF Pairing, Lockstep, Opened, OutputBounded
    <2>2. CASE /\ Len(audio) = 0
               /\ audio' = <<chunk>>
               /\ chunk.pts_ms = nextAudioSequence * AudioChunkMs
               /\ UNCHANGED <<video, nextVideoSequence>>
        <3>1. Len(audio') = 1 /\ audio'[1] = chunk
            BY <2>2
        <3>2. nextAudioSequence' = 2 * nextVideoSequence' + Len(audio')
            BY <1>0, <2>1, <2>2, <3>1
        <3>3. audio'[1].pts_ms = nextVideoSequence' * VideoFrameMs
            BY <1>0, <2>1, <2>2, <3>1 DEF AudioChunkMs, VideoFrameMs
        <3> QED
            BY <2>1, <2>2, <3>1, <3>2, <3>3
            DEF Pairing, BeforeStart, AfterClose, Opened, PendingChunk, Lockstep, OutputBounded
    <2>3. CASE /\ Len(audio) = 1
               /\ Len(video) < config.max_output_chunks
               /\ audio' = <<>>
               /\ video' = Append(video, Frame(audio[1]))
               /\ nextVideoSequence' = nextVideoSequence + 1
        <3>1. Len(audio') = 0
            BY <2>3, EmptyFacts
        <3>2. nextAudioSequence' = 2 * nextVideoSequence' + Len(audio')
            BY <1>0, <2>1, <2>3, <3>1
        <3>3. Len(video') = Len(video) + 1
            BY <1>0, <2>3
        <3>4. Len(video') <= config'.max_output_chunks
            BY <1>0, <2>1, <2>3, <3>3
        <3> QED
            BY <2>1, <3>1, <3>2, <3>4
            DEF Pairing, BeforeStart, AfterClose, Opened, PendingChunk, Lockstep, OutputBounded
    <2> QED
        BY <1>2, <2>2, <2>3, PushEffect
<1>3. ASSUME NEW revision \in Revisions, UpdateControl(revision)
      PROVE  Pairing'
    BY <1>3 DEF UpdateControl, RequireActive, session, input, output, pulls, Pairing,
        BeforeStart, AfterClose, Opened, PendingChunk, Lockstep, OutputBounded
<1>4. ASSUME NEW p \in Pullers, NEW mode \in PullModes, PullStart(p, mode)
      PROVE  Pairing'
    BY <1>4 DEF PullStart, RequireActive, session, input, output, Pairing,
        BeforeStart, AfterClose, Opened, PendingChunk, Lockstep, OutputBounded
<1>5. ASSUME NEW p \in Pullers,
             PullUntimed(p) \/ PullTake(p) \/ PullDeliver(p) \/ PullTimeout(p)
      PROVE  Pairing'
    <2>1. /\ pull[p] # "idle"
          /\ UNCHANGED <<state, config, audio, nextAudioSequence, nextVideoSequence>>
          /\ video' = video \/ (video # <<>> /\ video' = Tail(video))
        BY <1>5, PullEffect
    <2>2. state # "created"
        BY <2>1 DEF Pairing, BeforeStart
    <2>3. state = "closed" => video' = <<>>
        BY <2>1 DEF Pairing, AfterClose
    <2>4. Len(video') <= Len(video)
        BY <1>0, <2>1
    <2>5. OutputBounded'
        <3>1. Len(video') \in Nat
            BY DEF TypeOK
        <3> QED
            BY <1>0, <2>1, <2>4, <3>1 DEF Pairing, OutputBounded
    <2> QED
        BY <2>1, <2>2, <2>3, <2>5 DEF Pairing,
            BeforeStart, AfterClose, Opened, PendingChunk, Lockstep
<1>6. CASE Reset
    <2>1. /\ state' = "active" /\ state = "active" /\ config' = config
          /\ audio' = <<>> /\ video' = <<>>
          /\ nextAudioSequence' = 0 /\ nextVideoSequence' = 0
        BY <1>6 DEF Reset, RequireActive, DrainVideo, RestartNumbering, session
    <2>2. Len(audio') = 0 /\ Len(video') = 0
        BY <2>1, EmptyFacts
    <2>3. Lockstep' /\ OutputBounded'
        BY <1>0, <2>1, <2>2 DEF Lockstep, OutputBounded, Pairing, Opened
    <2> QED
        BY <2>1, <2>2, <2>3 DEF Pairing, BeforeStart, AfterClose, Opened, PendingChunk
<1>7. CASE Close
    BY <1>7 DEF Close, DrainVideo, Pairing,
        BeforeStart, AfterClose, Opened, PendingChunk, Lockstep, OutputBounded
<1>8. CASE UNCHANGED vars
    BY <1>8 DEF vars, session, input, output, pulls, Pairing,
        BeforeStart, AfterClose, Opened, PendingChunk, Lockstep, OutputBounded
<1> QED
    BY <1>1, <1>2, <1>3, <1>4, <1>5, <1>6, <1>7, <1>8 DEF Next

LEMMA TimelineStep ==
    TypeOK /\ TypeOK' /\ Pairing /\ UnbrokenRun /\ [Next]_vars => UnbrokenRun'
<1> SUFFICES ASSUME TypeOK, TypeOK', Pairing, UnbrokenRun, [Next]_vars
             PROVE  UnbrokenRun'
    OBVIOUS
<1>0. /\ audio \in Seq(AudioChunk)
      /\ video \in Seq(VideoChunk) /\ Len(video) \in Nat
      /\ nextVideoSequence \in Nat /\ epoch \in Nat
    BY DEF TypeOK
<1>a. ASSUME UNCHANGED <<video, epoch, nextVideoSequence>>
      PROVE  UnbrokenRun'
    BY <1>a DEF UnbrokenRun
<1>b. ASSUME video' = <<>>
      PROVE  UnbrokenRun'
    BY <1>b, EmptyFacts DEF UnbrokenRun
<1>1. ASSUME NEW c \in Configs, Start(c)
      PROVE  UnbrokenRun'
    BY <1>1, <1>a DEF Start, output
<1>2. ASSUME NEW chunk \in Chunks, PushAudio(chunk)
      PROVE  UnbrokenRun'
    <2>1. CASE /\ Len(audio) = 0
               /\ UNCHANGED <<video, nextVideoSequence>>
        BY <1>2, <2>1, <1>a, PushEffect
    <2>2. CASE /\ Len(audio) = 1
               /\ video' = Append(video, Frame(audio[1]))
               /\ nextVideoSequence' = nextVideoSequence + 1
        <3> DEFINE f == Frame(audio[1])
        <3>1. epoch' = epoch /\ audio[1].pts_ms = nextVideoSequence * VideoFrameMs
            BY <1>2, <2>2, PushEffect DEF Pairing, PendingChunk
        <3>2. /\ f.sequence = nextVideoSequence
              /\ f.epoch = epoch
              /\ f.pts_ms = f.sequence * VideoFrameMs
            BY <3>1 DEF Frame
        <3>3. f \in VideoChunk
            <4>1. 1 \in 1..Len(audio)
                BY <2>2
            <4>2. audio[1] \in AudioChunk
                BY <1>0, <4>1
            <4> QED
                BY <4>2 DEF Frame, VideoChunk, AudioChunk, TypeOK
        <3>4. /\ Len(video') = Len(video) + 1
              /\ video'[Len(video) + 1] = f
              /\ \A i \in 1..Len(video) : video'[i] = video[i]
            BY <1>0, <2>2, <3>3, AppendFacts
        <3> SUFFICES ASSUME NEW i \in 1..Len(video')
                     PROVE  /\ video'[i].epoch = epoch'
                            /\ video'[i].sequence = nextVideoSequence' - Len(video') + i - 1
                            /\ video'[i].pts_ms = video'[i].sequence * VideoFrameMs
            BY DEF UnbrokenRun
        <3> HIDE DEF f
        <3>5. CASE i \in 1..Len(video)
            <4>1. /\ video[i].epoch = epoch
                  /\ video[i].sequence = nextVideoSequence - Len(video) + i - 1
                  /\ video[i].pts_ms = video[i].sequence * VideoFrameMs
                BY <3>5 DEF UnbrokenRun
            <4>2. nextVideoSequence' - Len(video') = nextVideoSequence - Len(video)
                BY <1>0, <2>2, <3>4
            <4> QED
                BY <3>1, <3>4, <3>5, <4>1, <4>2
        <3>6. CASE i = Len(video) + 1
            <4>1. nextVideoSequence' - Len(video') + i - 1 = nextVideoSequence
                BY <1>0, <2>2, <3>4, <3>6
            <4> QED
                BY <3>1, <3>2, <3>4, <3>6, <4>1
        <3> QED
            BY <1>0, <3>4, <3>5, <3>6
    <2> QED
        BY <1>2, <2>1, <2>2, PushEffect
<1>3. ASSUME NEW revision \in Revisions, UpdateControl(revision)
      PROVE  UnbrokenRun'
    BY <1>3, <1>a DEF UpdateControl, output
<1>4. ASSUME NEW p \in Pullers, NEW mode \in PullModes, PullStart(p, mode)
      PROVE  UnbrokenRun'
    BY <1>4, <1>a DEF PullStart, output
<1>5. ASSUME NEW p \in Pullers,
             PullUntimed(p) \/ PullTake(p) \/ PullDeliver(p) \/ PullTimeout(p)
      PROVE  UnbrokenRun'
    <2>1. /\ UNCHANGED <<epoch, nextVideoSequence>>
          /\ video' = video \/ (video # <<>> /\ video' = Tail(video))
        BY <1>5, PullEffect
    <2>2. CASE video' = video
        BY <2>1, <2>2, <1>a
    <2>3. CASE video # <<>> /\ video' = Tail(video)
        <3>1. /\ Len(video') = Len(video) - 1
              /\ \A i \in 1..Len(video') : video'[i] = video[i + 1]
            BY <1>0, <2>3, HeadTailFacts
        <3> SUFFICES ASSUME NEW i \in 1..Len(video')
                     PROVE  /\ video'[i].epoch = epoch'
                            /\ video'[i].sequence = nextVideoSequence' - Len(video') + i - 1
                            /\ video'[i].pts_ms = video'[i].sequence * VideoFrameMs
            BY DEF UnbrokenRun
        <3>2. i + 1 \in 1..Len(video)
            BY <1>0, <3>1
        <3>3. /\ video[i + 1].epoch = epoch
              /\ video[i + 1].sequence = nextVideoSequence - Len(video) + (i + 1) - 1
              /\ video[i + 1].pts_ms = video[i + 1].sequence * VideoFrameMs
            BY <3>2 DEF UnbrokenRun
        <3>4. nextVideoSequence - Len(video) + (i + 1) - 1
                = nextVideoSequence' - Len(video') + i - 1
            BY <1>0, <2>1, <3>1
        <3> QED
            BY <2>1, <3>1, <3>3, <3>4
    <2> QED
        BY <2>1, <2>2, <2>3
<1>6. CASE Reset
    BY <1>6, <1>b DEF Reset, DrainVideo
<1>7. CASE Close
    BY <1>7, <1>b DEF Close, DrainVideo
<1>8. CASE UNCHANGED vars
    BY <1>8, <1>a DEF vars, output
<1> QED
    BY <1>1, <1>2, <1>3, <1>4, <1>5, <1>6, <1>7, <1>8 DEF Next

\* The frame at the head of the queue is the oldest one of its epoch.
LEMMA HeadIsOldest ==
    ASSUME TypeOK, UnbrokenRun, video # <<>>
    PROVE  /\ Head(video) \in VideoChunk
           /\ Head(video).epoch = epoch
           /\ Head(video).sequence = Oldest
           /\ Len(Tail(video)) = Len(video) - 1
           /\ Oldest \in Nat
<1>1. /\ video \in Seq(VideoChunk) /\ nextVideoSequence \in Nat
      /\ Len(video) \in Nat \ {0}
    BY HeadTailFacts DEF TypeOK
<1>2. Head(video) = video[1] /\ Head(video) \in VideoChunk /\ Len(Tail(video)) = Len(video) - 1
    BY <1>1, HeadTailFacts
<1>3. 1 \in 1..Len(video)
    BY <1>1
<1>4. video[1].epoch = epoch /\ video[1].sequence = nextVideoSequence - Len(video) + 1 - 1
    BY <1>3 DEF UnbrokenRun
<1>5. video[1].sequence = Oldest
    BY <1>1, <1>4 DEF Oldest
<1>6. Oldest \in Nat
    BY <1>2, <1>5 DEF VideoChunk
<1> QED
    BY <1>2, <1>4, <1>5, <1>6

LEMMA ClaimsStep ==
    TypeOK /\ TypeOK' /\ Pairing /\ UnbrokenRun /\ Claims /\ [Next]_vars => Claims'
<1> SUFFICES ASSUME TypeOK, TypeOK', Pairing, UnbrokenRun, Claims, [Next]_vars
             PROVE  Claims'
    OBVIOUS
<1>0. /\ video \in Seq(VideoChunk) /\ Len(video) \in Nat
      /\ nextVideoSequence \in Nat /\ epoch \in Nat
      /\ delivered \subseteq VideoChunk
      /\ pull \in [Pullers -> PullModes \cup {"idle", "holding"}]
      /\ held \in [Pullers -> VideoChunk]
    BY DEF TypeOK
<1>a. ASSUME UNCHANGED <<pull, held, delivered, epoch>>, Oldest' = Oldest,
             state' = "active" => state = "active"
      PROVE  Claims'
    BY <1>a DEF Claims, OlderLeft, AllClaimed, ClaimedOnce, LeftQueue, HeldNow, DeliveredNow
<1>1. ASSUME NEW c \in Configs, Start(c)
      PROVE  Claims'
    <2>1. /\ UNCHANGED <<pull, held, delivered, epoch, video, nextVideoSequence>>
          /\ video = <<>> /\ nextVideoSequence = 0 /\ delivered = {}
          /\ \A p \in Pullers : pull[p] = "idle"
        BY <1>1 DEF Start, output, pulls, Pairing, BeforeStart
    <2>2. Oldest' = 0
        <3>1. Len(video') = 0
            BY <2>1, EmptyFacts
        <3>2. nextVideoSequence' = 0
            BY <2>1
        <3> QED
            BY <3>1, <3>2 DEF Oldest
    <2>3. \A n : n \notin 0..(Oldest' - 1)
        BY <2>2
    <2> QED
        BY <2>1, <2>3 DEF Claims, OlderLeft, AllClaimed, ClaimedOnce, HeldNow
<1>2. ASSUME NEW chunk \in Chunks, PushAudio(chunk)
      PROVE  Claims'
    <2>1. UNCHANGED <<state, pull, held, delivered, epoch>>
        BY <1>2, PushEffect
    <2>2. CASE UNCHANGED <<video, nextVideoSequence>>
        BY <2>1, <2>2, <1>a DEF Oldest
    <2>3. CASE /\ Len(audio) = 1
               /\ video' = Append(video, Frame(audio[1]))
               /\ nextVideoSequence' = nextVideoSequence + 1
        <3>1. Len(video') = Len(video) + 1
            BY <1>0, <2>3
        <3>2. Oldest' = Oldest
            BY <1>0, <2>3, <3>1 DEF Oldest
        <3> QED
            BY <2>1, <3>2, <1>a
    <2> QED
        BY <1>2, <2>2, <2>3, PushEffect
<1>3. ASSUME NEW revision \in Revisions, UpdateControl(revision)
      PROVE  Claims'
    BY <1>3, <1>a DEF UpdateControl, session, output, pulls, Oldest
<1>4. ASSUME NEW p \in Pullers, NEW to \in PullModes \cup {"idle"},
             pull[p] # "holding", pull' = [pull EXCEPT ![p] = to],
             UNCHANGED <<state, held, delivered, epoch, video, nextVideoSequence>>
      PROVE  Claims'
    <2>1. \A q \in Pullers : pull'[q] = "holding" <=> pull[q] = "holding"
        BY <1>0, <1>4 DEF PullModes
    <2>2. Oldest' = Oldest
        BY <1>4 DEF Oldest
    <2>3. \A q \in Pullers : \A n : HeldNow(q, n)' <=> HeldNow(q, n)
        BY <1>4, <2>1 DEF HeldNow
    <2>4. \A n : DeliveredNow(n)' <=> DeliveredNow(n)
        BY <1>4 DEF DeliveredNow
    <2>5. OlderLeft'
        BY <1>4, <2>1, <2>2 DEF Claims, OlderLeft, LeftQueue
    <2>6. AllClaimed'
        BY <1>4, <2>2, <2>3, <2>4 DEF Claims, AllClaimed
    <2>7. ClaimedOnce'
        BY <1>4, <2>3, <2>4 DEF Claims, ClaimedOnce
    <2> QED
        BY <2>5, <2>6, <2>7 DEF Claims
<1>5. ASSUME NEW p \in Pullers, NEW mode \in PullModes, PullStart(p, mode)
      PROVE  Claims'
    BY <1>5, <1>4 DEF PullStart, session, output
<1>6. ASSUME NEW p \in Pullers, PullTimeout(p)
      PROVE  Claims'
    BY <1>6, <1>4 DEF PullTimeout, session, output
<1>7. ASSUME NEW p \in Pullers, PullUntimed(p)
      PROVE  Claims'
    <2>0. video # <<>>
        BY <1>7 DEF PullUntimed
    <2> PICK f \in VideoChunk : f = Head(video)
        BY <2>0, HeadIsOldest
    <2>1. /\ pull[p] = "untimed" /\ video # <<>>
          /\ delivered' = delivered \cup {f}
          /\ video' = Tail(video)
          /\ pull' = [pull EXCEPT ![p] = "idle"]
          /\ UNCHANGED <<state, held, epoch, nextVideoSequence>>
        BY <1>7 DEF PullUntimed, session
    <2>2. f.epoch = epoch /\ f.sequence = Oldest /\ Oldest \in Nat
        BY <2>1, HeadIsOldest
    <2>3. Oldest' = Oldest + 1
        BY <1>0, <2>1, HeadIsOldest DEF Oldest
    <2>4. \A q \in Pullers : pull'[q] = "holding" <=> pull[q] = "holding"
        BY <1>0, <2>1
    <2>5. \A q \in Pullers : \A n : HeldNow(q, n)' <=> HeldNow(q, n)
        BY <2>1, <2>4 DEF HeldNow
    <2>6. \A n : DeliveredNow(n)' <=> (DeliveredNow(n) \/ n = Oldest)
        BY <2>1, <2>2 DEF DeliveredNow
    <2>7. OlderLeft'
        <3>1. \A g \in VideoChunk : LeftQueue(g) => LeftQueue(g)'
            BY <2>1, <2>2, <2>3 DEF LeftQueue, VideoChunk
        <3>2. LeftQueue(f)'
            BY <2>1, <2>2, <2>3 DEF LeftQueue
        <3> QED
            BY <1>0, <2>1, <2>4, <3>1, <3>2 DEF Claims, OlderLeft
    <2>8. AllClaimed'
        BY <2>1, <2>2, <2>3, <2>5, <2>6 DEF Claims, AllClaimed
    <2>9. ClaimedOnce'
        <3>1. \A q \in Pullers : ~HeldNow(q, Oldest)
            BY <1>0, <2>2 DEF Claims, OlderLeft, LeftQueue, HeldNow
        <3> QED
            BY <2>5, <2>6, <3>1 DEF Claims, ClaimedOnce
    <2> QED
        BY <2>7, <2>8, <2>9 DEF Claims
<1>8. ASSUME NEW p \in Pullers, PullTake(p)
      PROVE  Claims'
    <2>0. video # <<>>
        BY <1>8 DEF PullTake
    <2> PICK f \in VideoChunk : f = Head(video)
        BY <2>0, HeadIsOldest
    <2>1. /\ pull[p] = "timed" /\ video # <<>>
          /\ held' = [held EXCEPT ![p] = f]
          /\ video' = Tail(video)
          /\ pull' = [pull EXCEPT ![p] = "holding"]
          /\ UNCHANGED <<state, delivered, epoch, nextVideoSequence>>
        BY <1>8 DEF PullTake, session
    <2>2. f.epoch = epoch /\ f.sequence = Oldest /\ Oldest \in Nat
        BY <2>1, HeadIsOldest
    <2>3. Oldest' = Oldest + 1
        BY <1>0, <2>1, HeadIsOldest DEF Oldest
    <2>4. \A q \in Pullers \ {p} : pull'[q] = pull[q] /\ held'[q] = held[q]
        BY <1>0, <2>1
    <2>5. pull'[p] = "holding" /\ held'[p] = f
        BY <1>0, <2>1
    <2>6. \A q \in Pullers \ {p} : \A n : HeldNow(q, n)' <=> HeldNow(q, n)
        BY <2>1, <2>4 DEF HeldNow
    <2>7. \A n : HeldNow(p, n)' <=> n = Oldest
        BY <2>1, <2>2, <2>5 DEF HeldNow
    <2>8. \A n : ~HeldNow(p, n)
        BY <2>1 DEF HeldNow
    <2>9. \A n : DeliveredNow(n)' <=> DeliveredNow(n)
        BY <2>1 DEF DeliveredNow
    <2>10. OlderLeft'
        <3>1. \A g \in VideoChunk : LeftQueue(g) => LeftQueue(g)'
            BY <2>1, <2>2, <2>3 DEF LeftQueue, VideoChunk
        <3>2. LeftQueue(f)'
            BY <2>1, <2>2, <2>3 DEF LeftQueue
        <3>3. \A g \in delivered' : LeftQueue(g)'
            BY <1>0, <2>1, <3>1 DEF Claims, OlderLeft
        <3>4. ASSUME NEW q \in Pullers, pull'[q] = "holding"
              PROVE  LeftQueue(held[q])'
            <4>1. CASE q = p
                BY <2>5, <3>2, <4>1 DEF LeftQueue
            <4>2. CASE q # p
                <5>1. LeftQueue(held[q]) /\ held[q] \in VideoChunk /\ held'[q] = held[q]
                    BY <1>0, <2>4, <3>4, <4>2 DEF Claims, OlderLeft
                <5> QED
                    BY <2>1, <2>2, <2>3, <5>1 DEF LeftQueue, VideoChunk
            <4> QED
                BY <4>1, <4>2
        <3> QED
            BY <3>3, <3>4 DEF OlderLeft
    <2>11. AllClaimed'
        BY <2>1, <2>2, <2>3, <2>6, <2>7, <2>8, <2>9 DEF Claims, AllClaimed
    <2>12. ClaimedOnce'
        <3>1. \A q \in Pullers : ~HeldNow(q, Oldest)
            BY <1>0, <2>2 DEF Claims, OlderLeft, LeftQueue, HeldNow
        <3>2. ~DeliveredNow(Oldest)
            BY <1>0, <2>2 DEF Claims, OlderLeft, LeftQueue, DeliveredNow
        <3> QED
            BY <2>6, <2>7, <2>9, <3>1, <3>2 DEF Claims, ClaimedOnce
    <2> QED
        BY <2>10, <2>11, <2>12 DEF Claims
<1>9. ASSUME NEW p \in Pullers, PullDeliver(p)
      PROVE  Claims'
    <2>1. /\ pull[p] = "holding"
          /\ delivered' = delivered \cup {held[p]}
          /\ held' = [held EXCEPT ![p] = NoFrame]
          /\ pull' = [pull EXCEPT ![p] = "idle"]
          /\ UNCHANGED <<state, epoch, video, nextVideoSequence>>
        BY <1>9 DEF PullDeliver, session, output
    <2>2. Oldest' = Oldest
        BY <2>1 DEF Oldest
    <2>3. \A q \in Pullers \ {p} : pull'[q] = pull[q] /\ held'[q] = held[q]
        BY <1>0, <2>1
    <2>4. pull'[p] = "idle"
        BY <1>0, <2>1
    <2>5. \A q \in Pullers \ {p} : \A n : HeldNow(q, n)' <=> HeldNow(q, n)
        BY <2>1, <2>3 DEF HeldNow
    <2>6. \A n : ~HeldNow(p, n)'
        BY <2>4 DEF HeldNow
    <2>7. \A n : DeliveredNow(n)' <=> (DeliveredNow(n) \/ HeldNow(p, n))
        BY <2>1 DEF DeliveredNow, HeldNow
    <2>8. OlderLeft'
        BY <2>1, <2>2, <2>3, <2>4 DEF Claims, OlderLeft, LeftQueue
    <2>9. AllClaimed'
        BY <2>1, <2>2, <2>5, <2>7 DEF Claims, AllClaimed
    <2>10. ClaimedOnce'
        BY <2>5, <2>6, <2>7 DEF Claims, ClaimedOnce
    <2> QED
        BY <2>8, <2>9, <2>10 DEF Claims
<1>10. CASE Reset
    <2>1. /\ epoch' = epoch + 1 /\ video' = <<>> /\ nextVideoSequence' = 0
          /\ UNCHANGED <<pull, held, delivered>>
        BY <1>10 DEF Reset, DrainVideo, RestartNumbering, pulls
    <2>2. Oldest' = 0
        <3>1. Len(video') = 0
            BY <2>1, EmptyFacts
        <3>2. nextVideoSequence' = 0
            BY <2>1
        <3> QED
            BY <3>1, <3>2 DEF Oldest
    <2>3. \A n : n \notin 0..(Oldest' - 1)
        BY <2>2
    <2>4. \A g \in VideoChunk : LeftQueue(g) => g.epoch < epoch'
        BY <1>0, <2>1 DEF LeftQueue, VideoChunk
    <2>5. OlderLeft'
        BY <1>0, <2>1, <2>4 DEF Claims, OlderLeft, LeftQueue
    <2>6. \A q \in Pullers : \A n : ~HeldNow(q, n)'
        BY <1>0, <2>1, <2>4 DEF Claims, OlderLeft, HeldNow, VideoChunk
    <2> QED
        BY <2>3, <2>5, <2>6 DEF Claims, AllClaimed, ClaimedOnce
<1>11. CASE Close
    <2>1. /\ state' = "closed" /\ video' = <<>>
          /\ UNCHANGED <<epoch, nextVideoSequence, pull, held, delivered>>
        BY <1>11 DEF Close, DrainVideo, pulls
    <2>2. Oldest' \in Int /\ Oldest \in Int /\ Oldest <= Oldest'
        BY <1>0, <2>1, EmptyFacts DEF Oldest
    <2>3. \A g \in VideoChunk : LeftQueue(g) => LeftQueue(g)'
        BY <2>1, <2>2 DEF LeftQueue, VideoChunk
    <2>4. OlderLeft'
        BY <1>0, <2>1, <2>3 DEF Claims, OlderLeft
    <2>5. AllClaimed'
        BY <2>1 DEF AllClaimed
    <2>6. ClaimedOnce'
        BY <2>1 DEF Claims, ClaimedOnce, HeldNow, DeliveredNow
    <2> QED
        BY <2>4, <2>5, <2>6 DEF Claims
<1>12. CASE UNCHANGED vars
    BY <1>12, <1>a DEF vars, session, output, pulls, Oldest
<1> QED
    BY <1>1, <1>2, <1>3, <1>5, <1>6, <1>7, <1>8, <1>9, <1>10, <1>11, <1>12 DEF Next

LEMMA FreshStep ==
    TypeOK /\ UnbrokenRun /\ CallsAreFresh /\ [Next]_vars => CallsAreFresh'
<1> SUFFICES ASSUME TypeOK, UnbrokenRun, CallsAreFresh, [Next]_vars
             PROVE  CallsAreFresh'
    OBVIOUS
<1>0. /\ epoch \in Nat
      /\ since \in [Pullers -> Nat]
      /\ pull \in [Pullers -> PullModes \cup {"idle", "holding"}]
      /\ held \in [Pullers -> VideoChunk]
    BY DEF TypeOK
<1>1. ASSUME UNCHANGED <<pull, held, since>>, epoch' = epoch \/ epoch' = epoch + 1
      PROVE  CallsAreFresh'
    BY <1>0, <1>1 DEF CallsAreFresh, VideoChunk
<1>2. ASSUME NEW p \in Pullers, NEW mode \in PullModes, PullStart(p, mode)
      PROVE  CallsAreFresh'
    <2>1. /\ pull' = [pull EXCEPT ![p] = mode]
          /\ since' = [since EXCEPT ![p] = epoch]
          /\ UNCHANGED <<epoch, held>>
        BY <1>2 DEF PullStart
    <2>2. mode # "holding"
        BY DEF PullModes
    <2> QED
        BY <1>0, <2>1, <2>2 DEF CallsAreFresh
<1>3. ASSUME NEW p \in Pullers, PullTake(p)
      PROVE  CallsAreFresh'
    <2>1. /\ pull' = [pull EXCEPT ![p] = "holding"]
          /\ held' = [held EXCEPT ![p] = Head(video)]
          /\ video # <<>>
          /\ UNCHANGED <<epoch, since>>
        BY <1>3 DEF PullTake
    <2>2. Head(video).epoch = epoch
        BY <2>1, HeadIsOldest
    <2>3. held'[p].epoch = epoch
        BY <1>0, <2>1, <2>2
    <2>4. \A q \in Pullers \ {p} : pull'[q] = pull[q] /\ held'[q] = held[q]
        BY <1>0, <2>1
    <2> QED
        BY <1>0, <2>1, <2>3, <2>4 DEF CallsAreFresh
<1>4. ASSUME NEW p \in Pullers, PullUntimed(p) \/ PullDeliver(p) \/ PullTimeout(p)
      PROVE  CallsAreFresh'
    <2>1. /\ pull' = [pull EXCEPT ![p] = "idle"]
          /\ UNCHANGED <<epoch, since>>
          /\ held' = held \/ held' = [held EXCEPT ![p] = NoFrame]
        BY <1>4 DEF PullUntimed, PullDeliver, PullTimeout
    <2>2. \A q \in Pullers \ {p} : pull'[q] = pull[q] /\ held'[q] = held[q]
        BY <1>0, <2>1
    <2>3. pull'[p] = "idle"
        BY <1>0, <2>1
    <2> QED
        BY <1>0, <2>1, <2>2, <2>3 DEF CallsAreFresh
<1>5. ASSUME NEW c \in Configs, Start(c)
      PROVE  CallsAreFresh'
    BY <1>1, <1>5 DEF Start, pulls
<1>6. ASSUME NEW chunk \in Chunks, PushAudio(chunk)
      PROVE  CallsAreFresh'
    BY <1>1, <1>6 DEF PushAudio, pulls
<1>7. ASSUME NEW revision \in Revisions, UpdateControl(revision)
      PROVE  CallsAreFresh'
    BY <1>1, <1>7 DEF UpdateControl, pulls
<1>8. CASE Reset
    BY <1>1, <1>8 DEF Reset, RestartNumbering, pulls
<1>9. CASE Close
    BY <1>1, <1>9 DEF Close, pulls
<1>10. CASE UNCHANGED vars
    BY <1>1, <1>10 DEF vars, pulls
<1> QED
    BY <1>2, <1>3, <1>4, <1>5, <1>6, <1>7, <1>8, <1>9, <1>10 DEF Next

-----------------------------------------------------------------------------
LEMMA InvInit == Init => IInv
<1> SUFFICES ASSUME Init
             PROVE  IInv
    OBVIOUS
<1>1. TypeOK
    BY TypeInit
<1>2. Pairing
    BY DEF Init, Pairing, BeforeStart, AfterClose, Opened, PendingChunk, Lockstep, OutputBounded
<1>3. UnbrokenRun
    BY EmptyFacts DEF Init, UnbrokenRun
<1>4. Claims
    BY DEF Init, Claims, OlderLeft, AllClaimed, ClaimedOnce, HeldNow
<1>5. CallsAreFresh
    BY DEF Init, CallsAreFresh
<1> QED
    BY <1>1, <1>2, <1>3, <1>4, <1>5 DEF IInv

LEMMA InvStep == IInv /\ [Next]_vars => IInv'
    BY TypeStep, PairingStep, TimelineStep, ClaimsStep, FreshStep DEF IInv

\* The invariant holds in every reachable state.
THEOREM Invariance == Spec => []IInv
    BY InvInit, InvStep, PTL DEF Spec

-----------------------------------------------------------------------------
LEMMA ClaimsGiveExactlyOnce == IInv => ExactlyOnce
<1> SUFFICES ASSUME IInv, state = "active", NEW n \in 0..(nextVideoSequence - 1)
             PROVE  /\ QueuedNow(n) \/ DeliveredNow(n) \/ \E p \in Pullers : HeldNow(p, n)
                    /\ QueuedNow(n) => ~DeliveredNow(n)
                    /\ \A p \in Pullers : HeldNow(p, n) =>
                          /\ ~QueuedNow(n) /\ ~DeliveredNow(n)
                          /\ \A q \in Pullers \ {p} : ~HeldNow(q, n)
    BY DEF ExactlyOnce
<1>0. /\ video \in Seq(VideoChunk) /\ Len(video) \in Nat
      /\ nextVideoSequence \in Nat /\ epoch \in Nat
      /\ n \in Nat /\ n < nextVideoSequence
    BY DEF IInv, TypeOK
<1>1. ASSUME n < Oldest
      PROVE  DeliveredNow(n) \/ \E p \in Pullers : HeldNow(p, n)
    <2>1. n \in 0..(Oldest - 1)
        BY <1>0, <1>1 DEF Oldest
    <2> QED
        BY <2>1 DEF IInv, Claims, AllClaimed
<1>2. ASSUME n >= Oldest
      PROVE  QueuedNow(n)
    <2> DEFINE i == n - Oldest + 1
    <2>1. i \in 1..Len(video)
        BY <1>0, <1>2 DEF Oldest
    <2>2. video[i].sequence = nextVideoSequence - Len(video) + i - 1
        BY <2>1 DEF IInv, UnbrokenRun
    <2>3. video[i].sequence = n
        BY <1>0, <2>2 DEF Oldest
    <2> QED
        BY <2>1, <2>3 DEF QueuedNow
<1>3. ASSUME QueuedNow(n)
      PROVE  n >= Oldest
    <2>1. PICK i \in 1..Len(video) : video[i].sequence = n
        BY <1>3 DEF QueuedNow
    <2>2. n = nextVideoSequence - Len(video) + i - 1
        BY <2>1 DEF IInv, UnbrokenRun
    <2> QED
        BY <1>0, <2>2 DEF Oldest
<1>4. ASSUME DeliveredNow(n)
      PROVE  n < Oldest
    BY <1>0, <1>4 DEF IInv, Claims, OlderLeft, LeftQueue, DeliveredNow
<1>5. ASSUME NEW p \in Pullers, HeldNow(p, n)
      PROVE  n < Oldest
    BY <1>0, <1>5 DEF IInv, Claims, OlderLeft, LeftQueue, HeldNow
<1>6. \A p \in Pullers : HeldNow(p, n) =>
          ~DeliveredNow(n) /\ \A q \in Pullers \ {p} : ~HeldNow(q, n)
    BY <1>0 DEF IInv, Claims, ClaimedOnce
<1>7. Oldest \in Int
    BY <1>0 DEF Oldest
<1>8. n < Oldest \/ n >= Oldest
    BY <1>0, <1>7
<1>9. ~(n < Oldest /\ n >= Oldest)
    BY <1>0, <1>7
<1>10. QueuedNow(n) => ~DeliveredNow(n)
    BY <1>3, <1>4, <1>9
<1>11. \A p \in Pullers : HeldNow(p, n) => ~QueuedNow(n)
    BY <1>3, <1>5, <1>9
<1> QED
    BY <1>1, <1>2, <1>6, <1>8, <1>10, <1>11

\* Every frame of the running epoch is in exactly one place: no frame is lost
\* or handed out twice, for any number of concurrent pulls.
THEOREM ExactlyOnceCorrect == Spec => []ExactlyOnce
    BY Invariance, ClaimsGiveExactlyOnce, PTL

\* Two accepted chunks make one frame, for every input and every queue size.
THEOREM LockstepCorrect == Spec => []Lockstep
<1>1. IInv => Lockstep
    BY DEF IInv, Pairing
<1> QED
    BY <1>1, Invariance, PTL

\* The queue never exceeds its bound, and is an unbroken run of frames on the
\* 40 ms grid.
THEOREM QueueTimelineCorrect == Spec => []QueueTimeline
<1>1. IInv => QueueTimeline
    BY DEF IInv, Pairing, QueueTimeline
<1> QED
    BY <1>1, Invariance, PTL

\* A pull never returns a frame from before the reset that preceded it.
THEOREM PullsAreFreshCorrect == Spec => PullsAreFresh
<1> DEFINE Fresh ==
        \A p \in Pullers :
            (pull[p] # "idle" /\ pull'[p] = "idle") =>
                \A f \in delivered' \ delivered : f.epoch >= since[p]
<1>1. IInv /\ [Next]_vars => [Fresh]_vars
    <2> SUFFICES ASSUME IInv, Next, NEW p \in Pullers,
                        pull[p] # "idle", pull'[p] = "idle",
                        NEW f \in delivered' \ delivered
                 PROVE  f.epoch >= since[p]
        OBVIOUS
    <2>0. pull \in [Pullers -> PullModes \cup {"idle", "holding"}]
        BY DEF IInv, TypeOK
    <2>1. ASSUME NEW q \in Pullers, PullUntimed(q)
          PROVE  f.epoch >= since[p]
        <3>1. q = p /\ f = Head(video) /\ video # <<>>
            BY <2>0, <2>1 DEF PullUntimed
        <3>2. f.epoch = epoch
            BY <3>1, HeadIsOldest DEF IInv
        <3> QED
            BY <3>2 DEF IInv, CallsAreFresh, TypeOK
    <2>2. ASSUME NEW q \in Pullers, PullDeliver(q)
          PROVE  f.epoch >= since[p]
        <3>1. q = p /\ f = held[p] /\ pull[p] = "holding"
            BY <2>0, <2>2 DEF PullDeliver
        <3> QED
            BY <3>1 DEF IInv, CallsAreFresh
    <2>3. ASSUME UNCHANGED delivered
          PROVE  FALSE
        BY <2>3
    <2> QED
        BY <2>1, <2>2, <2>3 DEF Next, Start, PushAudio, UpdateControl, PullStart, PullTake,
            PullTimeout, Reset, Close, pulls
<1> QED
    BY <1>1, Invariance, PTL DEF Spec, PullsAreFresh

-----------------------------------------------------------------------------
(***************************************************************************)
(* Revisions.  RevisionsFollowFrames is inductive together with the bound  *)
(* that no known frame of the epoch carries a revision above the current   *)
(* one: the next frame carries that.                                       *)
(***************************************************************************)

RevisionBound(f) ==
    (f.epoch = epoch /\ f.control_revision # None) =>
        controlRevision # None /\ controlRevision >= f.control_revision

RInv == RevisionsFollowFrames /\ \A f \in KnownFrames : RevisionBound(f)

\* A known frame is of an earlier epoch or older than the next frame.
LEMMA KnownAreOld ==
    ASSUME IInv
    PROVE  \A f \in KnownFrames :
               /\ f \in VideoChunk
               /\ f.epoch <= epoch
               /\ f.epoch = epoch => f.sequence < nextVideoSequence
<1>0. /\ video \in Seq(VideoChunk) /\ Len(video) \in Nat
      /\ nextVideoSequence \in Nat /\ epoch \in Nat
      /\ delivered \subseteq VideoChunk /\ held \in [Pullers -> VideoChunk]
    BY DEF IInv, TypeOK
<1>1. ASSUME NEW i \in 1..Len(video)
      PROVE  video[i] \in VideoChunk /\ video[i].epoch = epoch
             /\ video[i].sequence < nextVideoSequence
    <2>1. video[i].epoch = epoch /\ video[i].sequence = nextVideoSequence - Len(video) + i - 1
        BY DEF IInv, UnbrokenRun
    <2> QED
        BY <1>0, <2>1
<1>2. ASSUME NEW f \in VideoChunk, LeftQueue(f)
      PROVE  f.epoch <= epoch /\ (f.epoch = epoch => f.sequence < nextVideoSequence)
    BY <1>0, <1>2 DEF LeftQueue, Oldest, VideoChunk
<1>3. /\ \A f \in delivered : LeftQueue(f)
      /\ \A p \in Pullers : pull[p] = "holding" => LeftQueue(held[p])
    BY DEF IInv, Claims, OlderLeft
<1> QED
    BY <1>0, <1>1, <1>2, <1>3 DEF KnownFrames

\* Only a push that completes a pair makes a frame known.
LEMMA KnownAfter ==
    ASSUME IInv, [Next]_vars
    PROVE  \/ KnownFrames' \subseteq KnownFrames
           \/ /\ KnownFrames' \subseteq KnownFrames \cup {Frame(audio[1])}
              /\ UNCHANGED <<epoch, controlRevision>>
<1>0. /\ pull \in [Pullers -> PullModes \cup {"idle", "holding"}]
      /\ held \in [Pullers -> VideoChunk]
      /\ video \in Seq(VideoChunk) /\ Len(video) \in Nat
    BY DEF IInv, TypeOK
<1>1. ASSUME UNCHANGED <<pull, held, delivered>>, video' = video \/ video' = <<>>
      PROVE  KnownFrames' \subseteq KnownFrames
    <2>1. CASE video' = video
        BY <1>1, <2>1 DEF KnownFrames
    <2>2. CASE video' = <<>>
        <3>1. Len(video') = 0
            BY <2>2, EmptyFacts
        <3> QED
            BY <1>1, <3>1 DEF KnownFrames
    <2> QED
        BY <1>1, <2>1, <2>2
<1>2. ASSUME NEW chunk \in Chunks, PushAudio(chunk)
      PROVE  \/ KnownFrames' \subseteq KnownFrames
             \/ /\ KnownFrames' \subseteq KnownFrames \cup {Frame(audio[1])}
                /\ UNCHANGED <<epoch, controlRevision>>
    <2>1. /\ UNCHANGED <<epoch, controlRevision, pull, held, delivered>>
          /\ video' = video \/ video' = Append(video, Frame(audio[1]))
        BY <1>2, PushEffect DEF IInv
    <2>2. CASE video' = video
        BY <1>1, <2>1, <2>2
    <2>3. CASE video' = Append(video, Frame(audio[1]))
        <3>1. \A i \in 1..Len(video') : video'[i] = Frame(audio[1]) \/ \E j \in 1..Len(video) : video'[i] = video[j]
            <4>1. Len(video') = Len(video) + 1
                BY <1>0, <2>3
            <4>2. /\ video'[Len(video) + 1] = Frame(audio[1])
                  /\ \A i \in 1..Len(video) : video'[i] = video[i]
                BY <1>0, <2>3
            <4> QED
                BY <1>0, <4>1, <4>2
        <3> QED
            BY <2>1, <3>1 DEF KnownFrames
    <2> QED
        BY <2>1, <2>2, <2>3
<1>3. ASSUME video # <<>>
      PROVE  /\ Head(video) \in KnownFrames
             /\ \A i \in 1..Len(Tail(video)) : Tail(video)[i] \in KnownFrames
    <2>1. /\ Head(video) = video[1] /\ Len(video) \in Nat \ {0}
          /\ Len(Tail(video)) = Len(video) - 1
          /\ \A i \in 1..Len(Tail(video)) : Tail(video)[i] = video[i + 1]
        BY <1>0, <1>3, HeadTailFacts
    <2>2. 1 \in 1..Len(video) /\ \A i \in 1..Len(Tail(video)) : i + 1 \in 1..Len(video)
        BY <2>1
    <2> QED
        BY <2>1, <2>2 DEF KnownFrames
<1>4. ASSUME NEW p \in Pullers, PullUntimed(p)
      PROVE  KnownFrames' \subseteq KnownFrames
    <2>1. /\ video # <<>> /\ video' = Tail(video)
          /\ delivered' = delivered \cup {Head(video)} /\ held' = held
          /\ pull' = [pull EXCEPT ![p] = "idle"]
        BY <1>4 DEF PullUntimed
    <2>2. \A q \in Pullers : pull'[q] = "holding" => pull[q] = "holding"
        BY <1>0, <2>1
    <2> QED
        BY <1>3, <2>1, <2>2 DEF KnownFrames
<1>5. ASSUME NEW p \in Pullers, PullTake(p)
      PROVE  KnownFrames' \subseteq KnownFrames
    <2>1. /\ video # <<>> /\ video' = Tail(video) /\ delivered' = delivered
          /\ held' = [held EXCEPT ![p] = Head(video)]
          /\ pull' = [pull EXCEPT ![p] = "holding"]
        BY <1>5 DEF PullTake
    <2>2. held'[p] = Head(video)
        BY <1>0, <2>1
    <2>3. \A q \in Pullers \ {p} : pull'[q] = pull[q] /\ held'[q] = held[q]
        BY <1>0, <2>1
    <2> QED
        BY <1>3, <2>1, <2>2, <2>3 DEF KnownFrames
<1>6. ASSUME NEW p \in Pullers, PullDeliver(p)
      PROVE  KnownFrames' \subseteq KnownFrames
    <2>1. /\ pull[p] = "holding" /\ video' = video
          /\ delivered' = delivered \cup {held[p]}
          /\ held' = [held EXCEPT ![p] = NoFrame]
          /\ pull' = [pull EXCEPT ![p] = "idle"]
        BY <1>6 DEF PullDeliver, output
    <2>2. pull'[p] = "idle" /\ \A q \in Pullers \ {p} : pull'[q] = pull[q] /\ held'[q] = held[q]
        BY <1>0, <2>1
    <2> QED
        BY <2>1, <2>2 DEF KnownFrames
<1>7. ASSUME NEW p \in Pullers, NEW mode \in PullModes,
             PullStart(p, mode) \/ PullTimeout(p)
      PROVE  KnownFrames' \subseteq KnownFrames
    <2>1. /\ UNCHANGED <<video, held, delivered>>
          /\ pull' = [pull EXCEPT ![p] = mode] \/ pull' = [pull EXCEPT ![p] = "idle"]
        BY <1>7 DEF PullStart, PullTimeout, output
    <2>2. \A q \in Pullers : pull'[q] = "holding" => pull[q] = "holding"
        BY <1>0, <2>1 DEF PullModes
    <2> QED
        BY <2>1, <2>2 DEF KnownFrames
<1>8. ASSUME NEW p \in Pullers, PullTimeout(p)
      PROVE  KnownFrames' \subseteq KnownFrames
    BY <1>7, <1>8 DEF PullModes
<1> QED
    BY <1>1, <1>2, <1>4, <1>5, <1>6, <1>7, <1>8
    DEF Next, Start, UpdateControl, Reset, Close, DrainVideo, vars, output, pulls

LEMMA RevisionsStep == IInv /\ RInv /\ [Next]_vars => RInv'
<1> SUFFICES ASSUME IInv, RInv, [Next]_vars
             PROVE  RInv'
    OBVIOUS
<1>0. epoch \in Nat /\ controlRevision \in Int \cup {None} /\ nextVideoSequence \in Nat
    BY DEF IInv, TypeOK
<1>1. \A f \in KnownFrames :
          /\ f \in VideoChunk
          /\ f.epoch <= epoch
          /\ f.epoch = epoch => f.sequence < nextVideoSequence
    BY KnownAreOld
<1>2. \/ epoch' = epoch + 1
      \/ epoch' = epoch /\ controlRevision' = controlRevision
      \/ /\ epoch' = epoch /\ controlRevision' \in Int
         /\ controlRevision # None => controlRevision' > controlRevision
    BY RevisionsAssumption DEF Next, Start, PushAudio, UpdateControl, PullStart, PullUntimed,
        PullTake, PullDeliver, PullTimeout, Reset, RestartNumbering, Close, RaisesRevision, vars
<1>3. \A f \in KnownFrames : RevisionBound(f)'
    <2>1. \A f \in KnownFrames : RevisionBound(f)
        BY DEF RInv
    <2>2. \A f \in VideoChunk : f.epoch \in Nat /\ f.control_revision \in Int \cup {None}
        BY DEF VideoChunk
    <2> QED
        BY <1>0, <1>1, <1>2, <2>1, <2>2, NoneAssumption DEF RevisionBound
<1>4. CASE KnownFrames' \subseteq KnownFrames
    BY <1>3, <1>4 DEF RInv, RevisionsFollowFrames, RevisionBound
<1>5. CASE /\ KnownFrames' \subseteq KnownFrames \cup {Frame(audio[1])}
           /\ UNCHANGED <<epoch, controlRevision>>
    <2> PICK new : new = Frame(audio[1])
        OBVIOUS
    <2>1. /\ new.epoch = epoch /\ new.sequence = nextVideoSequence
          /\ new.control_revision = controlRevision
        BY DEF Frame
    <2>2. KnownFrames' \subseteq KnownFrames \cup {new}
        BY <1>5
    <2>3. \A f \in KnownFrames' : RevisionBound(f)'
        BY <1>0, <1>3, <1>5, <2>1, <2>2 DEF RevisionBound
    <2>4. ASSUME NEW f \in KnownFrames', NEW g \in KnownFrames',
                 f.epoch = g.epoch, f.sequence < g.sequence, f.control_revision # None
          PROVE  g.control_revision # None /\ g.control_revision >= f.control_revision
        <3>1. CASE f \in KnownFrames /\ g \in KnownFrames
            BY <2>4, <3>1 DEF RInv, RevisionsFollowFrames
        <3>2. CASE f \in KnownFrames /\ g = new
            BY <2>1, <2>4, <3>2 DEF RInv, RevisionBound
        <3>3. CASE f = new /\ g \in KnownFrames
            BY <1>0, <1>1, <2>1, <2>4, <3>3 DEF VideoChunk
        <3>4. CASE f = new /\ g = new
            BY <1>0, <2>1, <2>4, <3>4
        <3> QED
            BY <2>2, <3>1, <3>2, <3>3, <3>4
    <2> QED
        BY <2>3, <2>4 DEF RInv, RevisionsFollowFrames
<1> QED
    BY <1>4, <1>5, KnownAfter

\* Of two frames of one epoch the later never carries an older revision.
THEOREM RevisionsFollowFramesCorrect == Spec => []RevisionsFollowFrames
<1>1. Init => RInv
    <2> SUFFICES ASSUME Init
                 PROVE  RInv
        OBVIOUS
    <2>1. KnownFrames = {}
        BY EmptyFacts DEF Init, KnownFrames
    <2> QED
        BY <2>1 DEF RInv, RevisionsFollowFrames
<1>2. RInv => RevisionsFollowFrames
    BY DEF RInv
<1> QED
    BY <1>1, <1>2, Invariance, RevisionsStep, PTL DEF Spec
-----------------------------------------------------------------------------
(***************************************************************************)
(* The mock backend implements the contract of a backend: every call maps  *)
(* to a step of SessionContract or to a stutter.  What is shown above of   *)
(* every reachable state carries the argument; added is that two calls     *)
(* never hold the same frame, of whatever epoch.                           *)
(***************************************************************************)

\* The contract's view of the state, as KeepsContract substitutes it.
Id(f) == [epoch |-> f.epoch, sequence |-> f.sequence]
Holders == {p \in Pullers : pull[p] = "holding"}
ClockNow == WhileOpen(nextAudioSequence * AudioChunkMs)
NextNow == WhileOpen(nextVideoSequence - Len(video))
InFlightNow == FrameIds({held[p] : p \in Holders})
ReturnedNow == FrameIds(delivered)

HoldersDistinct ==
    \A p, q \in Pullers :
        (pull[p] = "holding" /\ pull[q] = "holding" /\ p # q) => Id(held[p]) # Id(held[q])

\* The mock knows no failure.
NeverFailed == state # "failed"

Seen == <<state, epoch, ClockNow, NextNow, InFlightNow, ReturnedNow>>

-----------------------------------------------------------------------------
\* How the sets of frames change.
LEMMA InFlightIs == InFlightNow = {Id(held[p]) : p \in Holders}
    BY DEF InFlightNow, FrameIds, Id

LEMMA ReturnedIs == ReturnedNow = {Id(f) : f \in delivered}
    BY DEF ReturnedNow, FrameIds, Id

LEMMA InFlightKept ==
    ASSUME UNCHANGED held, UNCHANGED Holders
    PROVE  UNCHANGED InFlightNow
    BY DEF InFlightNow, FrameIds, Holders

LEMMA ReturnedKept ==
    ASSUME UNCHANGED delivered
    PROVE  UNCHANGED ReturnedNow
    BY DEF ReturnedNow, FrameIds

LEMMA ReturnedGrows ==
    ASSUME NEW f, delivered' = delivered \cup {f}
    PROVE  ReturnedNow' = ReturnedNow \cup {Id(f)}
    BY DEF ReturnedNow, FrameIds, Id

-----------------------------------------------------------------------------
\* Two calls never hold the same frame.
LEMMA HoldersInit == Init => HoldersDistinct
    BY DEF Init, HoldersDistinct

LEMMA HoldersStep == IInv /\ HoldersDistinct /\ [Next]_vars => HoldersDistinct'
<1> SUFFICES ASSUME IInv, HoldersDistinct, [Next]_vars
             PROVE  HoldersDistinct'
    OBVIOUS
<1>0. /\ pull \in [Pullers -> PullModes \cup {"idle", "holding"}]
      /\ held \in [Pullers -> VideoChunk]
    BY DEF IInv, TypeOK
<1>1. ASSUME UNCHANGED <<pull, held>>
      PROVE  HoldersDistinct'
    BY <1>1 DEF HoldersDistinct, Id
<1>2. ASSUME NEW p \in Pullers, NEW mode \in PullModes, PullStart(p, mode)
      PROVE  HoldersDistinct'
    <2>1. pull' = [pull EXCEPT ![p] = mode] /\ held' = held /\ mode # "holding"
        BY <1>2 DEF PullStart, PullModes
    <2> QED
        BY <1>0, <2>1 DEF HoldersDistinct, Id
<1>3. ASSUME NEW p \in Pullers, PullTake(p)
      PROVE  HoldersDistinct'
    <2>1. /\ video # <<>>
          /\ held' = [held EXCEPT ![p] = Head(video)]
          /\ pull' = [pull EXCEPT ![p] = "holding"]
        BY <1>3 DEF PullTake
    <2>2. Head(video).epoch = epoch /\ Head(video).sequence = Oldest /\ Oldest \in Nat
        BY <2>1, HeadIsOldest DEF IInv
    <2>3. \A q \in Pullers : pull[q] = "holding" => Id(held[q]) # Id(Head(video))
        <3>1. \A q \in Pullers : pull[q] = "holding" =>
                  held[q].epoch # epoch \/ held[q].sequence # Oldest
            <4>1. \A q \in Pullers : pull[q] = "holding" => LeftQueue(held[q])
                BY DEF IInv, Claims, OlderLeft
            <4>2. epoch \in Nat
                BY DEF IInv, TypeOK
            <4>3. \A f \in VideoChunk : LeftQueue(f) => f.epoch # epoch \/ f.sequence # Oldest
                BY <2>2, <4>2 DEF LeftQueue, VideoChunk
            <4> QED
                BY <1>0, <4>1, <4>3
        <3> QED
            BY <2>2, <3>1 DEF Id
    <2>4. \A q \in Pullers \ {p} : pull'[q] = pull[q] /\ Id(held'[q]) = Id(held[q])
        BY <1>0, <2>1
    <2>5. Id(held'[p]) = Id(Head(video))
        BY <1>0, <2>1
    <2>6. ASSUME NEW q \in Pullers, NEW r \in Pullers,
                 pull'[q] = "holding", pull'[r] = "holding", q # r
          PROVE  Id(held'[q]) # Id(held'[r])
        BY <2>3, <2>4, <2>5, <2>6 DEF HoldersDistinct
    <2> QED
        BY <2>6 DEF HoldersDistinct, Id
<1>4. ASSUME NEW p \in Pullers, PullUntimed(p) \/ PullDeliver(p) \/ PullTimeout(p)
      PROVE  HoldersDistinct'
    <2>1. /\ pull' = [pull EXCEPT ![p] = "idle"]
          /\ held' = held \/ held' = [held EXCEPT ![p] = NoFrame]
        BY <1>4 DEF PullUntimed, PullDeliver, PullTimeout
    <2>2. \A q \in Pullers \ {p} : pull'[q] = pull[q] /\ held'[q] = held[q]
        BY <1>0, <2>1
    <2>3. pull'[p] = "idle"
        BY <1>0, <2>1
    <2> QED
        BY <2>2, <2>3 DEF HoldersDistinct, Id
<1> QED
    BY <1>1, <1>2, <1>3, <1>4 DEF Next, Start, PushAudio, UpdateControl, Reset, Close, vars, pulls

LEMMA NeverFailedStep == NeverFailed /\ [Next]_vars => NeverFailed'
    BY DEF NeverFailed, Next, Start, PushAudio, UpdateControl, PullStart, PullUntimed, PullTake,
        PullDeliver, PullTimeout, Reset, Close, vars, session

\* The invariant of the mock, and these two.
CInv == IInv /\ HoldersDistinct /\ NeverFailed

THEOREM ContractInvariance == Spec => []CInv
<1>1. Init => CInv
    BY InvInit, HoldersInit DEF CInv, NeverFailed, Init
<1>2. CInv /\ [Next]_vars => CInv'
    BY InvStep, HoldersStep, NeverFailedStep DEF CInv
<1> QED
    BY <1>1, <1>2, PTL DEF Spec

-----------------------------------------------------------------------------
\* Initial states map to initial states.
LEMMA ContractInit == Init => Contract!Init
<1> SUFFICES ASSUME Init
             PROVE  Contract!Init
    OBVIOUS
<1>1. Len(video) = 0
    BY EmptyFacts DEF Init
<1>2. FrameIds(delivered) = {}
    BY DEF Init, FrameIds
<1>3. FrameIds({held[p] : p \in {q \in Pullers : pull[q] = "holding"}}) = {}
    BY DEF Init, FrameIds
<1>4. WhileOpen(nextAudioSequence * AudioChunkMs) = 0
    BY DEF Init, WhileOpen, AudioChunkMs
<1>5. WhileOpen(nextVideoSequence - Len(video)) = 0
    <2>1. nextVideoSequence = 0
        BY DEF Init
    <2> QED
        BY <1>1, <2>1 DEF WhileOpen
<1>6. state = "created" /\ epoch = 0
    BY DEF Init
<1> QED
    BY <1>2, <1>3, <1>4, <1>5, <1>6 DEF Contract!Init

\* Starting opens the session.
LEMMA StartOpens ==
    ASSUME IInv, NEW c \in Configs, Start(c)
    PROVE  Contract!Open
<1>1. /\ state = "created" /\ state' = "active"
      /\ UNCHANGED <<epoch, video, nextAudioSequence, nextVideoSequence, pull, held, delivered>>
    BY DEF Start, input, output, pulls
<1>2. UNCHANGED <<InFlightNow, ReturnedNow>>
    BY <1>1, InFlightKept, ReturnedKept DEF Holders
<1>3. UNCHANGED <<ClockNow, NextNow>>
    BY <1>1 DEF ClockNow, NextNow, WhileOpen
<1> QED
    BY <1>1, <1>2, <1>3 DEF Contract!Open, ClockNow, NextNow, InFlightNow, ReturnedNow, Holders

\* A push accepts one chunk of audio; what it adds to the queue is not given yet.
LEMMA PushAccepts ==
    ASSUME IInv, NEW chunk \in Chunks, PushAudio(chunk)
    PROVE  Contract!Accept
<1>0. /\ nextAudioSequence \in Nat /\ nextVideoSequence \in Nat
      /\ video \in Seq(VideoChunk) /\ Len(video) \in Nat
    BY DEF IInv, TypeOK
<1>1. /\ state = "active" /\ state' = "active"
      /\ nextAudioSequence' = nextAudioSequence + 1
      /\ UNCHANGED <<epoch, pull, held, delivered>>
      /\ \/ UNCHANGED <<video, nextVideoSequence>>
         \/ /\ video' = Append(video, Frame(audio[1]))
            /\ nextVideoSequence' = nextVideoSequence + 1
    BY PushEffect DEF IInv
<1>2. UNCHANGED <<InFlightNow, ReturnedNow>>
    BY <1>1, InFlightKept, ReturnedKept DEF Holders
<1>3. nextVideoSequence' - Len(video') = nextVideoSequence - Len(video)
    <2>1. CASE UNCHANGED <<video, nextVideoSequence>>
        BY <2>1
    <2>2. CASE /\ video' = Append(video, Frame(audio[1]))
               /\ nextVideoSequence' = nextVideoSequence + 1
        <3>1. Len(video') = Len(video) + 1
            BY <1>0, <2>2
        <3> QED
            BY <1>0, <2>2, <3>1
    <2> QED
        BY <1>1, <2>1, <2>2
<1>4. UNCHANGED NextNow
    BY <1>1, <1>3 DEF NextNow, WhileOpen
<1>5. /\ ClockNow' \in Nat
      /\ ClockNow' >= ClockNow + Contract!AudioChunkMs
    BY <1>0, <1>1 DEF ClockNow, WhileOpen, AudioChunkMs, Contract!AudioChunkMs
<1> QED
    BY <1>1, <1>2, <1>4, <1>5
    DEF Contract!Accept, ClockNow, NextNow, InFlightNow, ReturnedNow, Holders

\* A step that takes a frame off the queue gives the epoch's next frame, whose
\* audio has been accepted.
LEMMA TakingGivesNext ==
    ASSUME CInv, NEW p \in Pullers, pull[p] # "idle", video # <<>>,
           video' = Tail(video),
           UNCHANGED <<state, epoch, nextAudioSequence, nextVideoSequence>>
    PROVE  Contract!GiveNext /\ Id(Head(video)) = Contract!NextFrame
<1> USE DEF CInv
<1>0. /\ nextAudioSequence \in Nat /\ nextVideoSequence \in Nat
      /\ video \in Seq(VideoChunk) /\ audio \in Seq(AudioChunk)
      /\ Len(video) \in Nat \ {0} /\ Len(audio) \in Nat
      /\ state \in SessionState
    BY HeadTailFacts DEF IInv, TypeOK
<1>1. /\ Head(video).epoch = epoch /\ Head(video).sequence = Oldest
      /\ Len(Tail(video)) = Len(video) - 1 /\ Oldest \in Nat
    BY HeadIsOldest DEF IInv
<1>2. state # "created" /\ state # "closed"
    BY DEF IInv, Pairing, BeforeStart, AfterClose
<1>3. state = "active"
    <2>1. state # "failed"
        BY DEF CInv, NeverFailed
    <2> QED
        BY <1>0, <1>2, <2>1 DEF SessionState
<1>4. nextAudioSequence = 2 * nextVideoSequence + Len(audio)
    BY <1>3 DEF IInv, Pairing, Lockstep
<1>5. NextNow = Oldest /\ ClockNow = nextAudioSequence * 20
    BY <1>3 DEF NextNow, ClockNow, WhileOpen, Oldest, AudioChunkMs
<1>6. NextNow' = Oldest + 1 /\ ClockNow' = ClockNow
    BY <1>0, <1>1, <1>3 DEF NextNow, ClockNow, WhileOpen, Oldest
<1>7. (NextNow + 1) * Contract!VideoFrameMs <= ClockNow
    BY <1>0, <1>1, <1>4, <1>5 DEF Oldest, Contract!VideoFrameMs
<1>8. Contract!GiveNext
    BY <1>3, <1>5, <1>6, <1>7 DEF Contract!GiveNext, NextNow, ClockNow
<1>9. Id(Head(video)) = Contract!NextFrame
    BY <1>1, <1>5 DEF Id, Contract!NextFrame, NextNow
<1> QED
    BY <1>8, <1>9

\* A pull without a timeout is given its frame and returns it at once ...
LEMMA UntimedReturns ==
    ASSUME CInv, NEW p \in Pullers, PullUntimed(p)
    PROVE  Contract!GiveAndReturn
<1> USE DEF CInv
<1>1. /\ pull[p] = "untimed" /\ video # <<>> /\ video' = Tail(video)
      /\ delivered' = delivered \cup {Head(video)}
      /\ pull' = [pull EXCEPT ![p] = "idle"]
      /\ UNCHANGED <<state, epoch, nextAudioSequence, nextVideoSequence, held>>
    BY DEF PullUntimed, session, input
<1>2. Contract!GiveNext /\ Id(Head(video)) = Contract!NextFrame
    BY <1>1, TakingGivesNext
<1>3. UNCHANGED InFlightNow
    <2>1. UNCHANGED Holders
        BY <1>1 DEF Holders, IInv, TypeOK
    <2> QED
        BY <1>1, <2>1, InFlightKept
<1>4. ReturnedNow' = ReturnedNow \cup {Contract!NextFrame}
    BY <1>1, <1>2, ReturnedGrows
<1> QED
    BY <1>2, <1>3, <1>4 DEF Contract!GiveAndReturn, InFlightNow, ReturnedNow, Holders

\* ... the task of one with a timeout takes the frame for it ...
LEMMA TakeGives ==
    ASSUME CInv, NEW p \in Pullers, PullTake(p)
    PROVE  Contract!Give
<1> USE DEF CInv
<1>1. /\ pull[p] = "timed" /\ video # <<>> /\ video' = Tail(video)
      /\ held' = [held EXCEPT ![p] = Head(video)]
      /\ pull' = [pull EXCEPT ![p] = "holding"]
      /\ UNCHANGED <<state, epoch, nextAudioSequence, nextVideoSequence, delivered>>
    BY DEF PullTake, session, input
<1>2. Contract!GiveNext /\ Id(Head(video)) = Contract!NextFrame
    BY <1>1, TakingGivesNext
<1>3. /\ pull \in [Pullers -> PullModes \cup {"idle", "holding"}]
      /\ held \in [Pullers -> VideoChunk]
    BY DEF IInv, TypeOK
<1>4. Holders' = Holders \cup {p} /\ p \notin Holders
    BY <1>1, <1>3 DEF Holders
<1>5. held'[p] = Head(video) /\ \A q \in Holders : held'[q] = held[q]
    BY <1>1, <1>3 DEF Holders
<1>6. InFlightNow' = InFlightNow \cup {Contract!NextFrame}
    BY <1>2, <1>4, <1>5 DEF InFlightNow, FrameIds, Id, Holders
<1>7. UNCHANGED ReturnedNow
    BY <1>1, ReturnedKept
<1> QED
    BY <1>2, <1>6, <1>7 DEF Contract!Give, InFlightNow, ReturnedNow, Holders

\* ... and its caller returns it.
LEMMA DeliverReturns ==
    ASSUME IInv, HoldersDistinct, NEW p \in Pullers, PullDeliver(p)
    PROVE  \E frame \in InFlightNow : Contract!Return(frame)
<1>1. /\ pull[p] = "holding"
      /\ delivered' = delivered \cup {held[p]}
      /\ held' = [held EXCEPT ![p] = NoFrame]
      /\ pull' = [pull EXCEPT ![p] = "idle"]
      /\ UNCHANGED <<state, epoch, video, nextAudioSequence, nextVideoSequence>>
    BY DEF PullDeliver, session, input, output
<1>2. /\ pull \in [Pullers -> PullModes \cup {"idle", "holding"}]
      /\ held \in [Pullers -> VideoChunk]
    BY DEF IInv, TypeOK
<1>3. p \in Holders /\ Holders' = Holders \ {p}
    BY <1>1, <1>2 DEF Holders
<1>4. \A q \in Holders \ {p} : held'[q] = held[q] /\ Id(held[q]) # Id(held[p])
    BY <1>1, <1>2 DEF Holders, HoldersDistinct
<1>5. InFlightNow = {Id(held[q]) : q \in Holders}
    BY InFlightIs
<1>6. InFlightNow' = {Id(held[q]) : q \in Holders \ {p}}
    BY <1>3, <1>4 DEF InFlightNow, FrameIds, Id, Holders
<1>7. Id(held[p]) \in InFlightNow
    BY <1>3, <1>5
<1>8. InFlightNow' = InFlightNow \ {Id(held[p])}
    BY <1>4, <1>5, <1>6
<1>9. ReturnedNow' = ReturnedNow \cup {Id(held[p])}
    BY <1>1, ReturnedGrows
<1>10. UNCHANGED <<ClockNow, NextNow>>
    BY <1>1 DEF ClockNow, NextNow, WhileOpen
<1>11. Contract!Return(Id(held[p]))
    BY <1>1, <1>7, <1>8, <1>9, <1>10
    DEF Contract!Return, ClockNow, NextNow, InFlightNow, ReturnedNow, Holders
<1> QED
    BY <1>7, <1>11

\* Asking, giving up and updating the controls cannot be seen from outside.
LEMMA Invisible ==
    ASSUME IInv,
           \/ \E revision \in Revisions : UpdateControl(revision)
           \/ \E p \in Pullers, mode \in PullModes : PullStart(p, mode)
           \/ \E p \in Pullers : PullTimeout(p)
           \/ UNCHANGED vars
    PROVE  UNCHANGED Seen
<1>1. UNCHANGED <<state, epoch, video, nextAudioSequence, nextVideoSequence, held, delivered>>
    BY DEF UpdateControl, PullStart, PullTimeout, vars, session, input, output, pulls
<1>2. UNCHANGED Holders
    <2>1. pull \in [Pullers -> PullModes \cup {"idle", "holding"}]
        BY DEF IInv, TypeOK
    <2>2. CASE UNCHANGED pull
        BY <2>2 DEF Holders
    <2>3. ASSUME NEW p \in Pullers, NEW mode \in PullModes, PullStart(p, mode)
          PROVE  UNCHANGED Holders
        BY <2>1, <2>3 DEF PullStart, Holders, PullModes
    <2>4. ASSUME NEW p \in Pullers, PullTimeout(p)
          PROVE  UNCHANGED Holders
        BY <2>1, <2>4 DEF PullTimeout, Holders
    <2> QED
        BY <2>2, <2>3, <2>4 DEF UpdateControl, vars, pulls
<1>3. UNCHANGED <<InFlightNow, ReturnedNow>>
    BY <1>1, <1>2, InFlightKept, ReturnedKept
<1>4. UNCHANGED <<ClockNow, NextNow>>
    BY <1>1 DEF ClockNow, NextNow, WhileOpen
<1> QED
    BY <1>1, <1>3, <1>4 DEF Seen

LEMMA ResetResets ==
    ASSUME IInv, Reset
    PROVE  Contract!Reset
<1>1. /\ state = "active" /\ state' = "active" /\ epoch' = epoch + 1
      /\ nextAudioSequence' = 0 /\ nextVideoSequence' = 0 /\ video' = <<>>
      /\ UNCHANGED <<pull, held, delivered>>
    BY DEF Reset, RequireActive, RestartNumbering, DrainVideo, session, pulls
<1>2. Len(video') = 0
    BY <1>1, EmptyFacts
<1>3. NextNow' = 0 /\ ClockNow' = 0
    <2>1. nextVideoSequence' = 0 /\ nextAudioSequence' = 0
        BY <1>1
    <2> QED
        BY <1>2, <2>1 DEF NextNow, ClockNow, WhileOpen, AudioChunkMs
<1>4. UNCHANGED <<InFlightNow, ReturnedNow>>
    BY <1>1, InFlightKept, ReturnedKept DEF Holders
<1> QED
    BY <1>1, <1>3, <1>4
    DEF Contract!Reset, ClockNow, NextNow, InFlightNow, ReturnedNow, Holders

LEMMA CloseCloses ==
    ASSUME IInv, Close
    PROVE  Contract!Close
<1>1. state' = "closed" /\ UNCHANGED <<epoch, pull, held, delivered>>
    BY DEF Close, pulls
<1>2. NextNow' = 0 /\ ClockNow' = 0
    BY <1>1 DEF NextNow, ClockNow, WhileOpen
<1>3. UNCHANGED <<InFlightNow, ReturnedNow>>
    BY <1>1, InFlightKept, ReturnedKept DEF Holders
<1> QED
    BY <1>1, <1>2, <1>3
    DEF Contract!Close, ClockNow, NextNow, InFlightNow, ReturnedNow, Holders

\* Every step maps to a step of the contract or to a stutter.
LEMMA ContractStep == CInv /\ [Next]_vars => [Contract!Next]_(Contract!vars)
<1> SUFFICES ASSUME CInv, [Next]_vars
             PROVE  Contract!Next \/ UNCHANGED Contract!vars
    OBVIOUS
<1> USE DEF CInv
<1>1. ASSUME UNCHANGED Seen
      PROVE  UNCHANGED Contract!vars
    BY <1>1 DEF Seen, Contract!vars, ClockNow, NextNow, InFlightNow, ReturnedNow, Holders
<1>2. ASSUME NEW p \in Pullers, PullDeliver(p)
      PROVE  Contract!Next
    BY <1>2, DeliverReturns DEF Contract!Next, InFlightNow, Holders
<1> QED
    BY <1>1, <1>2, StartOpens, PushAccepts, UntimedReturns, TakeGives, Invisible, ResetResets,
       CloseCloses
    DEF Next, Contract!Next

\* The mock backend implements the contract, for every configuration, input,
\* number of pullers and of resets.
THEOREM KeepsContractCorrect == Spec => KeepsContract
    BY ContractInvariance, ContractInit, ContractStep, PTL DEF Spec, KeepsContract, Contract!Spec
=============================================================================
