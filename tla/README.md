# H3-avatar: verification of the interactive session service

H3-avatar serves a talking avatar as sessions: a client pushes 20 ms chunks of
PCM audio and control updates and pulls 40 ms video frames. Behind one contract
(`src/src/h3_interactive/protocol.py`) stand several backends: a CPU mock, an
adapter with a GPU worker thread (FlashHead) and a bridge to a legacy runtime
(LiveTalking). A session manager, an HTTP API and a Python SDK carry the
contract across hosts. This directory holds TLA+ models of that service, the
TLC runs that check them and TLAPS proofs about them.

All paths below are relative to `src/src/h3_interactive/` unless they start
with `docs/` or `experiments/`, which are relative to `src/`.

## 1. The system

| Component | State | Operations | Suspends or blocks |
|---|---|---|---|
| Contract (`protocol.py`) | none | `SessionConfig.validate` | no |
| Mock backend (`backends/mock.py`) | state, pending audio (0 or 1 chunk), bounded frame queue, epoch, two sequence counters, control revision | start, push_audio, update_control, pull_video_chunk, reset, close, status | only `pull_video_chunk` |
| FlashHead adapter (`backends/flashhead.py`) | state, epoch, two sequence counters | the same; every control update is refused | `pull_video_chunk` polls; `reset` and `close` block the event loop |
| SoulX runtime (`backends/flashhead_runtime.py`) | partial audio, `_worker_q`, `_frames_q`, worker thread, worker error, closed flag; in the thread: audio window, chunk counter | push_audio, pull_video_frame, reset, close; the worker loop | the worker thread runs beside the event loop |
| LiveTalking bridge (`backends/livetalking.py`) | state, epoch, counters, control revision | the same over an injected runtime | awaits the runtime, then stamps |
| Session manager (`session.py`) | id -> backend | start, calls by id, close | awaits the backend |
| HTTP API (`http_api.py`) | none of its own | one handler per call; maps exceptions to answers | awaits the manager |
| SDK (`client.py`) | HTTP session; per session: audio counter, control revision, closed flag | create, push, control, pull, status, reset, close | every call awaits an answer |
| Server command line (`server.py`) | none | check of the bind address, wiring | no |
| Headless runner (`experiments/system-interface/flashhead-headless-001/run_headless.py`) | per phase the chunk to push next and what was recorded of the frames; exit code | two phases of a paced producer beside a consumer, reset between them, close, gates | all of it awaits the session |
| Scripts, configurations | files | one-shot | not part of the service |

How they interact: the SDK sends one HTTP request per call; the API looks the
session up in the manager and awaits the backend; FlashHead's adapter calls its
runtime, which talks to the worker thread through two queues and one
`threading.Event` per reset. All server handlers share one event loop.

What is hard here:

* one event loop with many suspended calls: a pull that waits while reset or
  close changes the queue under it; on Python 3.10 `wait_for` takes a frame in
  one step and returns it in another;
* an event loop and a worker thread: reset and close are long sequences of
  steps between which the worker goes on; requests to the worker can time out
  and be handled later;
* a worker that dies at any point;
* a bridge that awaits a frame and stamps it with what its counters say by then;
* session ids that may be used again while calls on the old session are still
  under way, and answers to a create that never arrive;
* two sets of counters, in the SDK and on the server, over a network that
  loses requests and answers and delivers requests after the caller gave up;
* a runner that ends a phase while the worker still generates, and that must
  come to a close and a verdict however the phase ended.

What makes each part correct: the mock must keep audio and video in step, its
output bounded and every frame in exactly one place; FlashHead must never mix
epochs, must keep frames on the time line of their audio, must go silent after
close and stop its thread; the bridge must number what it returns without gaps
and let nothing across a reset; the manager must keep the number of running
backends within its capacity and every call with its own session; the SDK must agree with the server whenever nothing
is under way and hand out frames in order; a runner's verdict must say what it
claims. All backends must keep one promise to whoever holds them: frames of an
epoch are given out one by one, never ahead of their audio.

## 2. Modules

| Module | Models | Extends |
|---|---|---|
| `InteractiveProtocol` | `protocol.py`: states, configuration, records, the checks all backends share | standard modules |
| `SessionContract` | what `protocol.py`'s `InteractiveBackend` promises, seen from outside | `InteractiveProtocol` |
| `MockBackend` | `backends/mock.py` | `InteractiveProtocol` |
| `FlashHead` | `backends/flashhead.py` and `flashhead_runtime.py` composed: adapter, runtime, worker | `InteractiveProtocol` |
| `HeadlessRunner` | `run_headless.py` as the environment of a FlashHead session | `FlashHead` |
| `RemoteSession` | `client.py`'s `RemoteSession`, the network, the counters and the output of the server's session | `InteractiveProtocol` |
| `SessionService` | `session.py`, `http_api.py` and the opening and closing calls of `client.py` | `InteractiveProtocol`, `Functions` |
| `LiveTalkingBridge` | `backends/livetalking.py` over an external runtime | `InteractiveProtocol` |
| `MC*` | instances for TLC | one model each |
| `MockBackendProofs`, `FlashHeadProofs`, `LiveTalkingProofs`, `SessionServiceProofs`, `RemoteSessionProofs` | theorems and proofs | one model each, `TLAPS` |
| `SessionContractProofs` | what follows from the contract alone | `SessionContract`, `TLAPS` |
| `FlashHeadContractProofs` | proofs of FlashHead's time line, frame numbers and accounting, of close, and that it implements the contract | `FlashHeadProofs` |
| `HeadlessRunnerProofs` | proofs that a run is a session of FlashHead and about its phases | `HeadlessRunner`, `FlashHeadContractProofs` |

A call that raises changes nothing in all the modelled code, so it is not a
step; where an error has an effect (a timeout, a crash, a refused HTTP call) it
is an action. Payload bytes, JPEG encoding, the audio window and inference are
data no property reads; an audio payload is "whole" or not.

### SessionContract
The abstract specification of a backend. Its state is what a caller can observe:
the session's state and epoch, how many milliseconds of audio the epoch has
accepted (`clock`), the number of the frame to be given `next`, the frames given
to calls that have not returned yet (`inFlight`) and the ones returned. `Accept`
takes at least one chunk; `Give`, `Return` and `GiveAndReturn` hand out the next
frame once the clock covers it (`Exchange` does so for a call that then returns
an earlier one); `Reset` starts the next epoch; `Close` ends the time line. Its
invariant `EachOnce` and its action property `OnlyNextGiven` say what that amounts
to; they are proved of the contract itself.

Four models instantiate it with a refinement mapping (`Contract`) and state the
refinement as `KeepsContract`:

* the mock: the next frame to give is the oldest of the queue, and a pull that
  resumes after `wait_for` is in flight;
* FlashHead, whose poll takes and stamps in one step, so that nothing is in
  flight; the padding of ended streams counts as audio;
* `RemoteSession`: in flight is what the server has served and the application
  has not got (`taken` less `received`), for ever if the answer was lost. The
  session is there when the model begins, so it starts in `Opened`;
* the LiveTalking bridge: a frame that a timed pull has taken is in flight under
  one of the numbers to come. It leaves the contract when a reset overtakes such
  a frame (finding 4), and only then: `KeepsContract` speaks of the steps up to
  there (`NoneOvertaken`).

### MockBackend
One action per method. The variables are the attributes of `MockBackend`.
`pull_video_chunk` is split at its suspension points: `PullStart`, then
`PullUntimed` (plain `Queue.get`), or `PullTake` / `PullDeliver` /
`PullTimeout` (inside `wait_for`). A pull with timeout zero (`"poll"`) is
cancelled before its first step and can only time out. The guard against a full
queue and `put_nowait`'s own limit are modelled separately (`OutputBlocked`,
`VideoFull`, `Emits`), so that the agreement of the two is a property
(`Lockstep`) and not an assumption. `since` and `delivered` are history.

### FlashHead
The event loop's place is `loop`; `"ready"` means that it serves calls. reset
and close run through `ResetCall`, `ResetDrainAudio`, `ResetAsk`, `ResetDone`
or `ResetTimeout`, `ResetDrainFrames`, `ResetReturn` and the corresponding
steps of close, with the steps of the worker interleaved anywhere, one step per
item drained. The worker's place is `worker`; `job` is the item it has taken.
A reset request carries the number of its call, the model of one
`threading.Event` per call. Audio is a number of samples. `origin` and `due_ms`
are history carried by chunks and frames: the epoch in which the audio was
pushed and the moment of the audio clock it belongs to; `silence` counts the
padding at ends of streams, which moves that clock. `ResetsKept` says that no
reset has given up: what an epoch's time stamps and its accounting promise holds
only until then (finding 2).
`WaitsAnswered` is the safety side of the two waits that block the event loop:
what is waited for is queued for a worker that can still answer, or in its hands,
unless the worker has died.

Three constants switch failures on: `ResetMayTimeout` (the worker needs more
than 60 s for a reset), `JoinMayTimeout` (more than 120 s to stop) and
`MayCrash`.

### HeadlessRunner
The runner takes FlashHead's own actions, in the order `main()` does: `RunStart`,
the producer (`Produce`) beside the consumer (`ConsumerPulls`, `ConsumerTakes`,
`ConsumerRaises`), `RunReset` and `Resetting`, the second phase, `RunClose` and
`Closing`, `Mux`, `Judge`; the worker thread steps in between. An exception of a
phase leads to close and exit code 1. What the runner's sleeps make of real time
is reduced to how late a frame is in its playback schedule, chosen per frame;
`Percentile` is the code's own, with Python's rounding. `GateRaises` is the
operand of the second gate that raises (finding 5). `JudgedWhole` says that what
the gates see is two whole phases and a closed session, and that only a busy GPU
lets the program end without closing.

### RemoteSession
`Send` reads the counter and puts a request on the wire; the server serves
requests in any order (`ServePush` ... `Refuse`); `Receive` touches the counters,
as the code does after its await. `Lossy` breaks connections before or after
the request is served; `Late` lets a call time out with its request still under
way; `Overlap` lets tasks call without discipline (otherwise a reset or close
is alone, and at most one push and one control are under way). `position`,
`accepted`, `doubtful` and `outlived` are history: what the application knows to
have arrived, what the server took in this epoch, and whether an answer was
missed (and of which calls) or a push outlived its call. `received` holds the
frames the application was given: `ServePull` takes a frame off the server before
its answer is on the wire, so a frame is lost with its answer. The server's side
is reduced to what the SDK depends on: open or not, the expected sequence, the
revision, the epoch, the number of the next frame and the milliseconds of audio
accepted in the epoch (`clock`; `Paddings` is what a backend may add to a stream
that ends: the mock nothing, FlashHead up to a slice). When a backend makes the
frames of its audio is left open. `taken`, history, holds the frames that pulls
took off the server.

### SessionService
`sessions` is the manager's dictionary. A backend is a number with its opener
and whether it still runs. No shipped backend suspends in `start` or `close`, so
creating (`Opens`, `StartRaises`, `RefuseCreate`) and closing (`ServeClose`) are
one step each; a pull is split into `PullBinds`, which looks the backend up, and
`PullEnds`, which may come after the client gave up (`GiveUpPull`: 10 s against
up to 30 s on the server) and after the session was closed and its id opened
again. The calls that only look the backend up are `ServeUse`. A generated id
(uuid4) is a number never used before. `touched` and `lost` are history: whose
calls reached which backend, and whether a client missed an answer.

### LiveTalkingBridge
One action per method of the bridge. Its runtime lies outside the repository and
is modelled as `tests/test_livetalking_bridge.py` stands in for it: `Produce`
makes frames of pairs of chunks, and `PullTake` is the step in which
`asyncio.wait_for` takes a frame before the bridge resumes in `PullDeliver`.
Frames carry their `origin`, the epoch the bridge attached to the audio.

## 3. Runs

| Run (cfg) | Question | Result |
|---|---|---|
| `mock` (`MCMockBackend`) | types; audio and video in step; queue bounded and a run of the epoch's frames; every frame in one place; revisions follow frames; pulls return nothing older than their call, and come back if they have a timeout; the contract is kept | holds (the return under fairness) |
| `flashhead` (`MCFlashHead`) | with resets that time out and a worker that dies anywhere: epoch fidelity; audio/video time line and accounting of all audio until a reset gives up; no wait without somebody to answer; silence after close; the contract; close stops the worker (if the join may wait), resets come back, queued audio is taken, crashes reach pulls | holds (the last four under fairness) |
| `flashhead_join_timeout` | close stops the worker, when the join may time out | violated: finding 1 |
| `flashhead_reset_timeout` | PTS numbered through within an epoch | violated: finding 2 |
| `remote_session` (`MCRemoteSession`) | counters in step, retries safe, closed means closed, frames in order and complete while no answer is missed; the contract kept over the network; lossy network, requests served after the caller gave up | holds |
| `remote_session_overlap` | counters in step when a reset overlaps a push | violated: finding 3 |
| `session_service` (`MCSessionService`) | calls reach their own session; running backends within capacity and all registered; no session without a holder while answers arrive | holds |
| `livetalking` (`MCLiveTalkingBridge`) | frames numbered in order; revisions follow frames; nothing crosses a reset to a pull without a timeout; the contract kept until a reset overtakes a frame taken | holds |
| `livetalking_timed` (`MCLiveTalkingBridgeTimed`) | nothing crosses a reset to any pull | violated: finding 4 |
| `headless` (`MCHeadlessRunner`) | nothing of phase 1 reaches phase 2; the audio of a phase makes all frames it waits for; only whole phases and closed sessions are judged; every run ends with its session closed | holds (the last under fairness) |
| `headless_verdict` (`MCHeadlessRunnerVerdict`) | a run that meets the gates exits with 0 | violated: finding 5 |
| `headless_clean` (`MCHeadlessRunnerClean`) | a pass means no worker crash and a clean close | violated: finding 6 |

### Bounds
* `mock`: two concurrent pulls (the hazards are between a pull that holds a
  frame and a second one, or a reset), one reset, four chunks per epoch (two
  frames, one more than a queue of one), configurations with bounds 0, 1, 2 and
  a wrong baseline, chunks with wrong time stamp or length, two revisions. All
  its safety properties are proved for all sizes.
* `flashhead*`: a layout with two frames per slice keeps the arithmetic of
  `chunk_layout` (the cfg gives `FrameNum` and `VaeStride`); six chunks per
  epoch are one and a half slices, ended early or late or not at all; two resets
  (a stale event needs two). One pull: FlashHead's pull polls, and a poll takes,
  stamps and returns a frame in one step, so concurrent pulls only choose who
  polls. No bound is put on what the worker does.
* `headless*`: the same layout; durations of one to three frames, on and off the
  grids of chunks (20 ms), frames (40 ms) and slices (80 ms), for each phase
  independently; three degrees of lateness, around the threshold of 40 ms. The
  `headless` run takes `--model-type pro`, whose gates do not raise.
* `remote_session*`: two tasks, five calls with a lossy network, four without: enough for a push or pull, its lost
  answer, a retry, a reset and a further call beside another. A push adds no
  padding or 140 ms, so that one push may make no frame or several.
* `session_service`: two clients, five calls, one id that both may choose beside
  generated ones, capacity two: enough for a session closed and opened again
  under a pull that still waits, or under a close that is repeated.
* `livetalking*`: two pulls, one reset, chunks for two frames per epoch, updates
  that are taken and refused.

A state in which every call has been made has no further step, so deadlock is
not checked; the liveness runs say what must not get stuck.

### Fairness
`MockBackend`: weak fairness on the steps of a pull, because the event loop
runs every ready task and fires every timer. `FlashHead`: weak fairness on the
steps of reset, of close, of the worker and on each pull's poll: both threads
are scheduled, the model answers in the end, timers fire. No fairness on what a
client does, and none on crashes. `HeadlessRunner`: the same for the worker, and
weak fairness on the program's own steps and on its two tasks, which only sleep
and await. `RemoteSession`, `SessionService` and
`LiveTalkingBridge` have no liveness property: a lost answer raises, nothing
obliges an application to go on, and the bridge's runtime is not in the
repository.

## 4. Findings

1. **close may leave the worker running** (`flashhead_runtime.py:148-156`).
   After a join that timed out, close drains `_worker_q` and with it its own
   close request. The worker finishes what it is doing and blocks for ever in
   `get()`, with the GPU pipeline loaded.
2. **a reset that timed out happens later** (`flashhead_runtime.py:140-143`).
   The request stays queued; the adapter keeps its epoch, the worker restarts
   the PTS in the middle of it.
3. **overlapping reset and push put the SDK out of step** (`client.py:188-216`).
   The counters are read before and written after an await.
4. **the bridge stamps a stale frame as new** (`livetalking.py:120-136`). A
   reset between the step that takes a frame inside `wait_for` and the one that
   stamps it makes the old frame number 0 of the new epoch.
5. **a good run of the lite model cannot pass** (`run_headless.py:315`). The
   second gate reads an attribute that a `PhaseResult` does not have, and only
   when everything before it is good.
6. **a pass does not mean that the worker lived** (`run_headless.py:322`). The
   gate looks at the state of the session after close, which is "closed" also
   when the worker died after the last frame that was pulled, or outlived the join.

For findings 2, 4 and 6, and for 1, a theorem states the same property without
the one thing that breaks it (`PtsContinuousCorrect`, `UntimedClientsFidelity`,
`PassMeansCleanCorrect`, `CloseStopsWorkerCorrect`; section 5), so that no second
way into them remains; `InSyncCorrect` does so for finding 3. `LiteNeverPasses`
is finding 5 for every value of the constants.

Not checked as violations:

* When the answer to a create is lost, the session stays open under a generated
  id that nobody knows, and with the default capacity of one the service refuses
  every later create. No document speaks of it. `NoOrphan` is stated for the time
  before an answer is missed for this reason; TLC refutes it without that
  condition.
* Both queues of the FlashHead runtime are unbounded
  (`flashhead_runtime.py:98-99`), although the interface audit asks for bounded
  ones and `max_output_chunks` is part of the configuration: any bound is refuted
  by pushing.
* `experiments/system-interface/flashhead-headless-001/experiment.md:21` says that
  a p95 of the playback intervals of at most 40 ms is the same as no starvation.
  The gate asks for both, and rightly: one interval in a phase may be long, and
  an interval over 40 ms need not starve.

## 5. Proofs

TLAPS checks, for every value of the constants that satisfies the named
assumptions:

* `MockBackendProofs`: `TypeCorrect`, `LockstepCorrect`,
  `QueueTimelineCorrect`, `ExactlyOnceCorrect`,
  `PullsAreFreshCorrect`, `RevisionsFollowFramesCorrect`, `KeepsContractCorrect`.
  `ExactlyOnce` is not inductive: the invariant adds
  where a frame's number lies (a held or delivered frame of the epoch is older
  than everything queued), that at most one chunk is pending, and that no known
  frame is of a later epoch.
  The mock implements `SessionContract`: every call maps to one step of the
  contract or to a stutter: `start` to `Open`, a push to `Accept`, the step that takes a frame to
  `Give` or `GiveAndReturn`, the return from `wait_for` to `Return`; controls,
  time-outs and the start of a pull cannot be seen. That the audio of the frame
  given has been accepted is `Lockstep`; that returning removes one frame from
  `inFlight` and no more needs a further invariant, `HoldersDistinct`: two
  pulls never hold the same frame, of whatever epoch.
* `SessionContractProofs`: `EachOnceCorrect` and `OnlyNextGivenCorrect`, of the
  contract itself, from either of its initial states; with `KeepsContractCorrect`
  of a model they say what that model inherits. TLAPS 1.4.5 does not apply the
  theorems of an instantiated module, so the inheritance is not itself a theorem;
  for FlashHead, whose own properties of time stamps fail after a failed reset,
  the ledger `EachOnce` is proved again as `FramesEachOnceCorrect`.
* `FlashHeadProofs`: `TypeCorrect`, `EpochFidelityCorrect` and
  `WaitsAnsweredCorrect`, for every layout and with all three failures allowed.
  The invariant says that all audio in the
  queue, in the worker's hands and in the frames is of the running epoch
  (`CurrentAudio`, `CurrentFrames`), that reset events are numbered in order and
  none is confirmed before it was asked (`EventsInOrder`), and where the
  handshake of a waiting reset stands (`ResetProtocol`: asked, handled, dead or
  confirmed). The last is what makes the drain of `_frames_q` after the
  confirmation sufficient: by then the queue is empty and the worker idle, so
  no old frame can follow. For the wait of close `Ending` adds that the worker ends,
  and finds a request to end, only once close was called and that no reset can come
  after that (`OnlyCloseEnds`), and that close does not wait before its request
  is queued (`JoinIsTold`).
* `FlashHeadContractProofs`: `AudioAccountedCorrect`; and, for a worker that stops
  within the time close waits for it (`~JoinMayTimeout`; finding 1 shows what
  happens otherwise), `VideoFollowsAudioCorrect`, `QuietAfterCloseCorrect`,
  `CloseStopsWorkerCorrect`, `FramesEachOnceCorrect` and `KeepsContractCorrect`,
  the refinement of `SessionContract`, for every layout, with crashes and resets
  that give up. None of them is inductive.
  `Lifecycle` says that there is no worker before start, and none alive and
  no frame queued after close. `Grid` keeps samples in whole pushes, so that the
  divisions to milliseconds are exact. `Backed` says that frames given, queued
  and still to come are never more than the audio of the epoch covers; it
  survives failed resets, which is why the contract does. An exact account does
  not: `Accounted` and `OnTime` hold while calls are served and nothing has
  failed (`Serving`), and a reset that gives up is never made good
  (`EpochBehind`, `KeptStays`), so that state cannot come back. A reset that is
  confirmed re-establishes them because by then the worker's chunk counter is
  zero (`Restarted`) and both queues are empty. `PtsContinuousCorrect` adds
  `~ResetMayTimeout`: then a reset gives up only on a dead worker
  (`KeptOrCrashed`), after which nothing is delivered. `CloseStopsWorker` is stated
  with "eventually", but needs no fairness where the join cannot time out: a
  session is not closed before its worker has ended, and `Lifecycle` keeps it so.
* `LiveTalkingProofs`: `TypeCorrect`, `NumberedInOrderCorrect`,
  `RevisionsFollowFramesCorrect`, `UntimedFidelityCorrect`, `KeepsContractCorrect`,
  `UntimedKeepsContract`, `UntimedClientsFidelity`. That a frame returned
  to a pull without a timeout is of its epoch follows from what reset drains:
  everything queued in the runtime is of the running epoch; only a frame that
  `wait_for` has taken is not, and such a frame belongs to a pull with a timeout.
  The bridge keeps the contract as long as no frame has been overtaken by a reset:
  until then twice the frames returned, taken and ready, and the chunk that is left
  over, are the audio accepted (`Balanced`); after it the count is off by what was
  overtaken, and stays so (`OvertakenStays`), so the condition on the step's end
  covers everything before it. Where no pull has a timeout nothing is ever taken
  (`NoneTimed`), and the bridge keeps the contract and the epochs without
  condition.
* `SessionServiceProofs`: `TypeCorrect`, `OwnSessionCorrect`,
  `ActiveBoundedCorrect`, `NoOrphanCorrect`, for every number of clients, ids,
  calls and places. Most of the invariant is about the wire: calls are numbered,
  no two things under way have a number in common, and what is under way belongs
  to the call of its number (`Wire`). Upon it stand that running backends are the
  registered ones (`Registered`), that a generated id is never met again
  (`Generated`), and that, unless an answer was missed, a session runs for its
  opener exactly while the opener owns it: holds it, or is about to
  (`Ownership`). A pull that still waits waits on a backend of its own client
  (`WaitsOnOwn`), although its id may name another's session by then.
* `RemoteSessionProofs`: without conditions `TypeCorrect`,
  `ClosedIsClosedCorrect` and `KeepsContractCorrect`; for an application that does not overlap its calls
  (`~Overlap`; finding 3 shows that this is needed) `InSyncCorrect`,
  `AcceptedOnceCorrect`, `FramesInOrderCorrect` and `FramesCompleteCorrect`, for
  every number of tasks and calls, with or without broken connections and late
  requests. `InSync` speaks of quiet moments and is not inductive. The invariant
  says what the counters are while calls are under way: the SDK's counter is
  behind the server's by the one push whose good answer is on its way, and the
  server's is zero while that of a reset is (`AudioInStep`, `ControlInStep`).
  It rests on the discipline of the calls: the number a call carries is still the
  SDK's (`StillCurrent`), a request that has outlived its call is in doubt
  (`Abandoned`), and a reset served alone is the server's last word until its
  answer is taken (`FreshStart`), which is why it makes good what was in doubt.
  For retries: a chunk taken in this epoch lies before the next to be pushed, or
  is that one and the server waits for a later number (`TakenInOrder`). For
  frames: those the application has come before the one on its way, and that
  before the next the server takes (`GivenInOrder`, `NoneMissing`). The contract is
  kept whatever overlaps: serving a pull is a `Give`, receiving its answer a
  `Return`. It needs that a frame on its way was taken, is on its way once and is
  not with the application yet, and that everything taken comes before the next
  frame (`Given`).
* `HeadlessRunnerProofs`: `RunIsSession`, that every run of the headless runner is
  a run of FlashHead; `RunnerTypeCorrect`, `NoGapSeenCorrect`,
  `AudioSufficesCorrect` and `JudgedWholeCorrect`, for every duration and layout and
  with all three failures allowed; `LiteNeverPasses` for the lite model, and
  `PassMeansCleanCorrect` where the worker neither dies nor outlives the join. What is proved of sessions carries over by the first. `Course`
  adds where the session stands when the runner is in a phase or between phases:
  no reset has given up, the epoch is the phase's, the session counts what the
  runner counts, and after the last chunk no samples are held back. So the session
  serves, and `OnTime` gives the PTS that the consumer expects. For
  `AudioSuffices`, `Accounted` says that with nothing left to make the frames given
  last as long as all the audio pushed, with its padding. That audio is less than
  20 ms shorter than the phase, while a frame still awaited would leave 40 ms of
  the phase uncovered. That what the producer pushes is a chunk
  in the sense of `Chunks` is `ProducedAssumption`. `Verdict` follows the exit code
  through the program: it is set only by an exception, whose way leads through
  close, or at the end; the regular way to the gates leads through two phases
  whose frames are all there (`WholePhase`). That a clean pass had a worker at all is
  `PhaseHasWorker`.

TLC has checked every one of these invariants on the instances.

Only model-checked: liveness under fairness (`TimedPullsReturn` of the mock,
`ResetComesBack`, `QueueDrains` and `CrashReachesPulls` of FlashHead, `RunEnds` of
the runner), which is outside TLAPS's reach like ENABLED, and the violations of
section 4. Of the two blocking waits `WaitsAnswered` proves the part that is a
safety property.

## 6. Plan

Done: 1. contract and mock with proofs; 2. FlashHead with its proof of epoch
fidelity; 3. the SDK's session over the network, frames included; 4. manager and
HTTP API; 5. the LiveTalking bridge; 6. `SessionContract`, its refinement by mock
and FlashHead, proved for both; 7. the headless runner on FlashHead, with proofs;
8. the contract for the SDK's session and the bridge as well, proved for both.
Every safety property the passing runs check is a theorem, and for the findings
there are theorems that say what is true when their cause is away.

Left for a further round of proofs: that an abandoned request of the SDK has no
effect that a call in time could not have had on the counters as well (today
`InSync` excludes doubt); a contract for opening and closing that
`SessionService` implements; and liveness, should the prover learn it.

The manager composed with FlashHead is not planned as a module: its close is a
single call that never raises, and what it may leave behind is finding 1.

## 7. Not modelled

* The upstream model (outside the repository), image encoding and asset checks:
  seen as a call that takes time, returns the frames of a slice or raises.
* `server.py`: it parses the command line, refuses a public bind address without
  a flag and wires the parts, before the first request and without state.
* The workspace, download, preflight and smoke scripts: sequential, over files,
  packages and processes, without state shared with the service.
* `status` and `healthz`: they read and change nothing. Which error a failed call
  answers with is not told apart.
* Of the headless runner: the metrics no gate reads, the files it writes and the
  status samples.
* What LiveTalking does with texts and custom states is outside the repository.
