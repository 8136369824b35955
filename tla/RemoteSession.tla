--------------------------- MODULE RemoteSession ---------------------------
(***************************************************************************)
(* client.py's RemoteSession, the network and the session on the server.   *)
(* The SDK numbers audio chunks and control updates with counters of its   *)
(* own; each call sends one HTTP request, suspends, and touches the        *)
(* counters when the answer is there.  The server session has its own      *)
(* counters and takes a request only when the numbers fit.                 *)
(*                                                                         *)
(* A connection may break before the request is served or before the       *)
(* answer arrives.  The call may also run into the client's timeout (10 s  *)
(* for the whole request) while its request is still on the way and is     *)
(* served later.                                                           *)
(*                                                                         *)
(* A pull takes a frame off the server before its answer is sent, so that  *)
(* what is lost on the way is gone.  status touches nothing on either side *)
(* and is left out.                                                        *)
(***************************************************************************)
EXTENDS InteractiveProtocol

CONSTANTS
    Tasks,          \* the tasks of the application that use the session
    MaxCalls,       \* bound: calls made
    Overlap,        \* tasks call at will: several pushes, a reset among them
    Lossy,          \* connections may break
    Late,           \* calls may time out with their request still under way
    Paddings        \* milliseconds a backend adds to a stream that ends

ASSUME MaxCallsAssumption == MaxCalls \in Nat
ASSUME NetworkAssumption ==
    Overlap \in BOOLEAN /\ Lossy \in BOOLEAN /\ Late \in BOOLEAN
ASSUME PaddingAssumption == Paddings \subseteq Nat

VARIABLES
    audioSequence, controlRevision, sdkClosed,      \* RemoteSession
    call,                                           \* the call of each task
    requests, replies,                              \* on the wire
    open, nextAudioSequence, serverRevision,        \* the server's session
    clock,                                          \* ... its audio in ms
    epoch, nextVideoSequence,                       \* ... and its output
    calls,          \* history: calls made, the identity of a request
    position,       \* history: chunks of the application known to have arrived
    accepted,       \* history: the chunks the server took in this epoch
    taken,          \* history: the frames pulls took off the server
    received,       \* history: the frames the application was given
    doubtful,       \* history: calls with an answer lost and not made good
    outlived        \* history: a push has outlived its call

sdk     == <<audioSequence, controlRevision, sdkClosed>>
wire    == <<requests, replies>>
counters == <<nextAudioSequence, serverRevision, clock, accepted>>
output  == <<epoch, nextVideoSequence, taken>>
server  == <<open, counters, output>>
app     == <<position, received>>
vars    == <<sdk, call, wire, server, calls, app, doubtful, outlived>>

Operations == {"push", "control", "pull", "reset", "close"}
Request == [id : Nat, op : Operations, number : Nat, chunk : Nat]
Idle == [id |-> 0, op |-> "close", number |-> 0, chunk |-> 0]
\* "alone" is history: no other request was under way when this was answered.
Frame == [epoch : Nat, sequence : Nat]
Reply == [id : Nat, ok : BOOLEAN, alone : BOOLEAN, frame : Frame \cup {None}]

-----------------------------------------------------------------------------
Init ==
    /\ audioSequence = 0
    /\ controlRevision = 0
    /\ sdkClosed = FALSE
    /\ call = [t \in Tasks |-> Idle]
    /\ requests = {}
    /\ replies = {}
    /\ open = TRUE
    /\ nextAudioSequence = 0
    /\ serverRevision = None
    /\ clock = 0
    /\ calls = 0
    /\ position = 0
    /\ accepted = <<>>
    /\ epoch = 0
    /\ nextVideoSequence = 0
    /\ taken = {}
    /\ received = <<>>
    /\ doubtful = {}
    /\ outlived = FALSE

InFlight == {t \in Tasks : call[t] # Idle}

\* An application that does not overlap its calls resets and closes on its own
\* and has one push, one control and one pull under way at a time.
MayCall(op) ==
    \/ Overlap
    \/ \A t \in InFlight :
        op # call[t].op /\ {op, call[t].op} \subseteq {"push", "control", "pull"}

\* The number a call sends is read before the call suspends.
NumberFor(op) ==
    CASE op = "push" -> audioSequence
      [] op = "control" -> controlRevision + 1
      [] OTHER -> 0

\* Mutant: close marks the session closed before the server has confirmed.
MarksClosed_Early(op) == sdkClosed' = (op = "close")

\* Nothing is marked when a call is sent.
MarksClosed(op) == UNCHANGED sdkClosed

Send(t, op) ==
    /\ ~sdkClosed
    /\ call[t] = Idle
    /\ calls < MaxCalls
    /\ MayCall(op)
    /\ LET request == [id |-> calls + 1, op |-> op, number |-> NumberFor(op),
                       chunk |-> position]
       IN  /\ call' = [call EXCEPT ![t] = request]
           /\ requests' = requests \cup {request}
    /\ calls' = calls + 1
    /\ MarksClosed(op)
    /\ UNCHANGED <<audioSequence, controlRevision, replies, server, app, doubtful, outlived>>

-----------------------------------------------------------------------------
\* The server, one request at a time.

Awaited(request) == \E t \in Tasks : call[t] = request

AnswerWith(request, ok, frame) ==
    /\ requests' = requests \ {request}
    /\ replies' = IF Awaited(request)
                  THEN replies \cup {[id |-> request.id, ok |-> ok,
                                      alone |-> requests = {request},
                                      frame |-> frame]}
                  ELSE replies
    /\ UNCHANGED <<sdk, call, calls, app, doubtful, outlived>>

Answer(request, ok) == AnswerWith(request, ok, None)

\* Mutant: a chunk that was already taken is taken again.
ExpectsChunk_AnyEarlier(request) == request.number <= nextAudioSequence

ExpectsChunk(request) == request.number = nextAudioSequence

ServePush(request) ==
    /\ request.op = "push"
    /\ open
    /\ ExpectsChunk(request)
    /\ nextAudioSequence' = nextAudioSequence + 1
    /\ \E padding \in Paddings : clock' = clock + AudioChunkMs + padding
    /\ accepted' = Append(accepted, request.chunk)
    /\ Answer(request, TRUE)
    /\ UNCHANGED <<open, serverRevision, output>>

ServeControl(request) ==
    /\ request.op = "control"
    /\ open
    /\ RaisesRevision(request.number, serverRevision)
    /\ serverRevision' = request.number
    /\ Answer(request, TRUE)
    /\ UNCHANGED <<open, nextAudioSequence, clock, accepted, output>>

NextFrame == [epoch |-> epoch, sequence |-> nextVideoSequence]

\* When a backend makes the frames of its audio is its own affair; without the
\* audio of a frame there is none.
ServePull(request) ==
    /\ request.op = "pull"
    /\ open
    /\ (nextVideoSequence + 1) * VideoFrameMs <= clock
    /\ nextVideoSequence' = nextVideoSequence + 1
    /\ taken' = taken \cup {NextFrame}
    /\ AnswerWith(request, TRUE, NextFrame)
    /\ UNCHANGED <<open, counters, epoch>>

\* Mutant: a reset numbers the frames anew and stays in its epoch.
NextEpoch_Stays == epoch

NextEpoch == epoch + 1

ServeReset(request) ==
    /\ request.op = "reset"
    /\ open
    /\ nextAudioSequence' = 0
    /\ serverRevision' = None
    /\ clock' = 0
    /\ accepted' = <<>>
    /\ epoch' = NextEpoch
    /\ nextVideoSequence' = 0
    /\ Answer(request, TRUE)
    /\ UNCHANGED <<open, taken>>

ServeClose(request) ==
    /\ request.op = "close"
    /\ open
    /\ open' = FALSE
    /\ Answer(request, TRUE)
    /\ UNCHANGED <<counters, output>>

\* Mutant: a pull that is refused may have taken a frame.
TakesNothing_Frame(request) ==
    /\ UNCHANGED <<open, counters, epoch, taken>>
    /\ nextVideoSequence' \in nextVideoSequence
                                .. nextVideoSequence + (IF request.op = "pull" THEN 1 ELSE 0)

TakesNothing(request) == UNCHANGED server

\* The session is gone (404), the number does not fit (400), the output is full
\* (429) or no frame came in time (504), the last two at the server's
\* discretion: an error and no change.
Refuse(request) ==
    /\ \/ ~open
       \/ request.op \in {"push", "pull"}
       \/ request.op = "control" /\ ~RaisesRevision(request.number, serverRevision)
    /\ Answer(request, FALSE)
    /\ TakesNothing(request)

-----------------------------------------------------------------------------
\* The call resumes.

Finish(t) == call' = [call EXCEPT ![t] = Idle]

\* Mutant: a reset leaves the counters alone.
Restarted_Keeps(counter) == counter

\* Mutant: a reset unsets the counter, as the server does with the revision.
Restarted_Unset(counter) == None

Restarted(counter) == 0

AfterSuccess(op, number) ==
    /\ audioSequence' = CASE op = "push" -> audioSequence + 1
                          [] op = "reset" -> Restarted(audioSequence)
                          [] OTHER -> audioSequence
    /\ controlRevision' = CASE op = "control" -> number
                            [] op = "reset" -> Restarted(controlRevision)
                            [] OTHER -> controlRevision
    /\ sdkClosed' = (op = "close" \/ sdkClosed)

\* A reset makes good what was in doubt, unless an abandoned request was still
\* under way when it was served.
StillDoubtful(op, alone) == IF op = "reset" /\ alone THEN {} ELSE doubtful

Receive(t) ==
    /\ call[t] # Idle
    /\ \E reply \in replies :
        /\ reply.id = call[t].id
        /\ replies' = replies \ {reply}
        /\ IF reply.ok
           THEN /\ AfterSuccess(call[t].op, call[t].number)
                /\ position' = IF call[t].op = "push" THEN call[t].chunk + 1 ELSE position
                /\ received' = IF call[t].op = "pull" THEN Append(received, reply.frame)
                               ELSE received
                /\ doubtful' = StillDoubtful(call[t].op, reply.alone)
           ELSE UNCHANGED <<sdk, app, doubtful>>
    /\ Finish(t)
    /\ UNCHANGED <<requests, server, calls, outlived>>

-----------------------------------------------------------------------------
\* The connection breaks before the request is served: the call raises.
RequestLost(t) ==
    /\ Lossy
    /\ call[t] \in requests
    /\ requests' = requests \ {call[t]}
    /\ Finish(t)
    /\ UNCHANGED <<sdk, replies, server, calls, app, doubtful, outlived>>

\* ... or after: the call raises although the server has answered.
ReplyLost(t) ==
    /\ Lossy
    /\ call[t] # Idle
    /\ \E reply \in replies :
        /\ reply.id = call[t].id
        /\ replies' = replies \ {reply}
        /\ doubtful' = IF reply.ok THEN doubtful \cup {call[t].op} ELSE doubtful
    /\ Finish(t)
    /\ UNCHANGED <<sdk, requests, server, calls, app, outlived>>

\* The client gives up; the request stays under way.
TimeOut(t) ==
    /\ Late
    /\ call[t] \in requests
    /\ doubtful' = doubtful \cup {call[t].op}
    /\ outlived' = (outlived \/ call[t].op = "push")
    /\ Finish(t)
    /\ UNCHANGED <<sdk, wire, server, calls, app>>

Next ==
    \/ \E t \in Tasks, op \in Operations : Send(t, op)
    \/ \E request \in requests :
        \/ ServePush(request)
        \/ ServeControl(request)
        \/ ServePull(request)
        \/ ServeReset(request)
        \/ ServeClose(request)
        \/ Refuse(request)
    \/ \E t \in Tasks : Receive(t)
    \/ \E t \in Tasks : RequestLost(t)
    \/ \E t \in Tasks : ReplyLost(t)
    \/ \E t \in Tasks : TimeOut(t)

Spec == Init /\ [][Next]_vars

-----------------------------------------------------------------------------
\* Every variable keeps its type.
TypeOK ==
    /\ audioSequence \in Nat /\ controlRevision \in Nat /\ sdkClosed \in BOOLEAN
    /\ call \in [Tasks -> Request]
    /\ requests \subseteq Request
    /\ replies \subseteq Reply
    /\ open \in BOOLEAN
    /\ nextAudioSequence \in Nat
    /\ serverRevision \in Nat \cup {None}
    /\ calls \in 0..MaxCalls
    /\ position \in Nat
    /\ clock \in Nat
    /\ epoch \in Nat /\ nextVideoSequence \in Nat
    /\ taken \subseteq Frame
    /\ accepted \in Seq(Nat)
    /\ received \in Seq(Frame)
    /\ doubtful \subseteq Operations
    /\ outlived \in BOOLEAN

Quiet == InFlight = {} /\ requests = {}

Certain(ops) == doubtful \cap ops = {}

\* Whenever no call is under way the SDK's counters are the ones the server
\* expects, so that the next call is accepted.  A request that is lost on the
\* way does no harm; after a lost answer or a timeout a reset that is confirmed
\* repairs the counters, provided no abandoned request was still under way then
\* (client.py:188-202, 212-216).
InSync ==
    Quiet /\ open =>
        /\ Certain({"push", "reset"}) => audioSequence = nextAudioSequence
        /\ Certain({"control", "reset"}) =>
            controlRevision = (IF serverRevision = None THEN 0 ELSE serverRevision)

\* An application that pushes a chunk again when the push failed never has it
\* taken twice in one epoch, nor out of order: as long as no push outlives its
\* call, the sequence number makes the retry safe although the answer may have
\* been lost (client.py:188-196, backends/mock.py:43-46).
AcceptedOnce ==
    ~outlived => \A i, j \in 1..Len(accepted) : i < j => accepted[i] < accepted[j]

\* A session the SDK reports as closed is closed on the server too: a close
\* that failed can be repeated and no session is left behind (client.py:218-222).
ClosedIsClosed == sdkClosed => ~open

\* Frame f was made before frame g.
Precedes(f, g) ==
    \/ f.epoch < g.epoch
    \/ f.epoch = g.epoch /\ f.sequence < g.sequence

\* An application that pulls one frame at a time is never given a frame twice,
\* nor one from before a frame it already has, whatever pulls and resets it gave
\* up are served in between (client.py:86-104, http_api.py:100-115).
FramesInOrder ==
    \A i, j \in 1..Len(received) : i < j => Precedes(received[i], received[j])

\* Frames are lost only with the answer of a pull: unless one was missed since
\* the last reset that was confirmed, the application has every frame the server
\* has taken out of this epoch (http_api.py:104-115, client.py:94-104).
FramesComplete ==
    Quiet /\ Certain({"pull", "reset"}) =>
        \A n \in 0..nextVideoSequence - 1 :
            \E i \in 1..Len(received) : received[i] = [epoch |-> epoch, sequence |-> n]

-----------------------------------------------------------------------------
\* A call that was served has its frame; it is returned when the application
\* gets it, which may never be.
Returned == {received[i] : i \in 1..Len(received)}

Contract == INSTANCE SessionContract WITH
    state    <- IF open THEN "active" ELSE "closed",
    clock    <- IF open THEN clock ELSE 0,
    next     <- IF open THEN nextVideoSequence ELSE 0,
    inFlight <- taken \ Returned,
    returned <- Returned

\* Over a network that loses and delays requests and answers a session is still
\* what the contract of a backend says, however the calls overlap: each frame is
\* given to one call at most, none is returned twice, and a request that is late
\* or served after its call gave up does nothing that a call on the server could
\* not have done (client.py:171-226, http_api.py:100-123, protocol.py:103-123).
KeepsContract == Contract!Opened /\ [][Contract!Next]_Contract!vars
=============================================================================
