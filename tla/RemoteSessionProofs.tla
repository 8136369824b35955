------------------------ MODULE RemoteSessionProofs ------------------------
(***************************************************************************)
(* Proofs about RemoteSession, for every set of tasks, every number of     *)
(* calls, and with or without broken connections and late requests.  What  *)
(* is said of counters, retries and frames is proved for an application    *)
(* that does not overlap its calls (~Overlap).                             *)
(***************************************************************************)
EXTENDS RemoteSession, TLAPS

-----------------------------------------------------------------------------
(***************************************************************************)
(* The inductive invariants.                                               *)
(***************************************************************************)

\* A call is identified by its number.
Numbers ==
    /\ \A r \in requests : r.id \in 1..calls
    /\ \A y \in replies : y.id \in 1..calls
    /\ \A t \in Tasks : call[t].id \in 0..calls /\ (call[t].id = 0 => call[t] = Idle)

\* No two of the things under way have a number in common.
Apart ==
    /\ \A p, q \in requests : p.id = q.id => p = q
    /\ \A r \in requests, y \in replies : r.id # y.id
    /\ \A x, y \in replies : x.id = y.id => x = y
    /\ \A t, u \in Tasks : call[t].id = call[u].id /\ call[t].id # 0 => t = u

\* What is under way belongs to the call of its number; an answer only travels
\* while its call waits.
Matches ==
    /\ \A r \in requests, t \in Tasks : r.id = call[t].id => r = call[t]
    /\ \A y \in replies : \E t \in Tasks : y.id = call[t].id
    /\ \A y \in replies, t \in Tasks : y.id = call[t].id /\ y.ok /\ call[t].op = "pull" =>
        y.frame \in Frame

Wire == Numbers /\ Apart /\ Matches

\* An answer to an operation of this kind, and a good one, is on its way.
Granted(op) ==
    \E t \in Tasks, y \in replies : y.id = call[t].id /\ y.ok /\ call[t].op = op

\* The close that succeeds is the server's.
Closing == (sdkClosed \/ Granted("close")) => ~open

OneAtATime ==
    \A t, u \in Tasks : t # u /\ call[t] # Idle /\ call[u] # Idle =>
        call[t].op # call[u].op /\ {call[t].op, call[u].op} \subseteq {"push", "control", "pull"}

\* The numbers a call was sent with are still those of the SDK.
StillCurrent ==
    \A t \in Tasks : call[t] # Idle =>
        /\ call[t].op = "push" => call[t].number = audioSequence /\ call[t].chunk = position
        /\ call[t].op = "control" => call[t].number = controlRevision + 1

\* A request that has outlived its call is in doubt.
Abandoned ==
    \A r \in requests : ~Awaited(r) =>
        r.op \in doubtful /\ (r.op = "push" => outlived)

\* A reset that was alone when it was served is still the server's last word.
FreshStart ==
    \A t \in Tasks, y \in replies :
        y.id = call[t].id /\ y.ok /\ y.alone /\ call[t].op = "reset" =>
            /\ requests = {} /\ nextAudioSequence = 0 /\ serverRevision = None
            /\ nextVideoSequence = 0

Discipline == OneAtATime /\ StillCurrent /\ Abandoned /\ FreshStart

\* The counters agree, but for the effect of an answer on its way.
AudioInStep ==
    Certain({"push", "reset"}) =>
        nextAudioSequence = (IF Granted("push") THEN audioSequence + 1
                             ELSE IF Granted("reset") THEN 0 ELSE audioSequence)

ServerRevision == IF serverRevision = None THEN 0 ELSE serverRevision

ControlInStep ==
    Certain({"control", "reset"}) =>
        ServerRevision = (IF Granted("control") THEN controlRevision + 1
                          ELSE IF Granted("reset") THEN 0 ELSE controlRevision)

\* What was taken in this epoch lies before what the application pushes next,
\* unless the push's answer is missing; then the server waits for a later number.
TakenInOrder ==
    ~outlived =>
        /\ Granted("reset") => accepted = <<>>
        /\ \A i \in 1..Len(accepted) :
            /\ accepted[i] <= position
            /\ accepted[i] = position => audioSequence < nextAudioSequence
        /\ \A i, j \in 1..Len(accepted) : i < j => accepted[i] < accepted[j]

\* The frames the application has come before the one on its way, and that comes
\* before the next the server takes.
GivenInOrder ==
    /\ FramesInOrder
    /\ \A i \in 1..Len(received) : Precedes(received[i], NextFrame)
    /\ \A t \in Tasks, y \in replies :
        y.id = call[t].id /\ y.ok /\ call[t].op = "pull" =>
            /\ Precedes(y.frame, NextFrame)
            /\ \A i \in 1..Len(received) : Precedes(received[i], y.frame)

\* Frame number n of this epoch has reached the application or is on its way.
Reaches(n) ==
    \/ \E i \in 1..Len(received) : received[i] = [epoch |-> epoch, sequence |-> n]
    \/ \E t \in Tasks, y \in replies :
        /\ y.id = call[t].id /\ y.ok /\ call[t].op = "pull"
        /\ y.frame = [epoch |-> epoch, sequence |-> n]

NoneMissing ==
    Certain({"pull", "reset"}) => \A n \in 0..nextVideoSequence - 1 : Reaches(n)

-----------------------------------------------------------------------------
(***************************************************************************)
(* What a step does: nothing, or one of four things.                       *)
(***************************************************************************)

Sends(t, r) ==
    /\ ~sdkClosed /\ call[t] = Idle /\ MayCall(r.op)
    /\ r.id = calls + 1 /\ r.number = NumberFor(r.op) /\ r.chunk = position
    /\ call' = [call EXCEPT ![t] = r]
    /\ requests' = requests \cup {r}
    /\ calls' = calls + 1 /\ calls < MaxCalls
    /\ UNCHANGED <<sdk, replies, server, app, doubtful, outlived>>

Serves(r, y) ==
    \/ ServePush(r) /\ y.ok
    \/ ServeControl(r) /\ y.ok
    \/ ServePull(r) /\ y.ok /\ y.frame = NextFrame
    \/ ServeReset(r) /\ y.ok
    \/ ServeClose(r) /\ y.ok
    \/ ~y.ok /\ UNCHANGED server

Responds(r, y) ==
    /\ y.id = r.id /\ y.alone = (requests = {r}) /\ Serves(r, y)
    /\ requests' = requests \ {r}
    /\ replies' = IF Awaited(r) THEN replies \cup {y} ELSE replies
    /\ UNCHANGED <<sdk, call, calls, app, doubtful, outlived>>

Takes(t, y) ==
    /\ call[t] # Idle
    /\ y \in replies /\ y.id = call[t].id /\ replies' = replies \ {y}
    /\ IF y.ok
       THEN /\ AfterSuccess(call[t].op, call[t].number)
            /\ position' = IF call[t].op = "push" THEN call[t].chunk + 1 ELSE position
            /\ received' = IF call[t].op = "pull" THEN Append(received, y.frame) ELSE received
            /\ doubtful' = StillDoubtful(call[t].op, y.alone)
       ELSE UNCHANGED <<sdk, app, doubtful>>
    /\ call' = [call EXCEPT ![t] = Idle]
    /\ UNCHANGED <<requests, server, calls, outlived>>

\* The call ends without its answer, which may leave a doubt behind.
Drops(t) ==
    /\ call[t] # Idle
    /\ requests' \subseteq requests
    /\ \A r \in requests' : r.id = call[t].id =>
        r.op \in doubtful' /\ (r.op = "push" => outlived')
    /\ replies' \subseteq replies
    /\ \A y \in replies : IF y.id = call[t].id THEN y \notin replies' ELSE y \in replies'
    /\ \A y \in replies : y.id = call[t].id /\ y.ok => call[t].op \in doubtful'
    /\ doubtful \subseteq doubtful' /\ doubtful' \subseteq Operations
    /\ outlived => outlived'
    /\ outlived' \in BOOLEAN
    /\ call' = [call EXCEPT ![t] = Idle]
    /\ UNCHANGED <<sdk, server, calls, app>>

LEMMA TypeFacts ==
    ASSUME TypeOK
    PROVE  /\ audioSequence \in Nat /\ controlRevision \in Nat /\ sdkClosed \in BOOLEAN
           /\ call \in [Tasks -> Request] /\ \A t \in Tasks : call[t] \in Request
           /\ requests \subseteq Request /\ replies \subseteq Reply
           /\ open \in BOOLEAN /\ nextAudioSequence \in Nat
           /\ serverRevision \in Nat \cup {None} /\ None \notin Nat
           /\ calls \in Nat /\ calls \in 0..MaxCalls /\ position \in Nat
           /\ clock \in Nat /\ epoch \in Nat /\ nextVideoSequence \in Nat
           /\ taken \subseteq Frame
           /\ accepted \in Seq(Nat) /\ Len(accepted) \in Nat
           /\ received \in Seq(Frame) /\ Len(received) \in Nat
           /\ doubtful \subseteq Operations /\ outlived \in BOOLEAN
<1>1. calls \in Nat /\ calls \in 0..MaxCalls
    BY MaxCallsAssumption DEF TypeOK
<1>2. call \in [Tasks -> Request] /\ \A t \in Tasks : call[t] \in Request
    BY DEF TypeOK
<1>3. /\ accepted \in Seq(Nat) /\ Len(accepted) \in Nat
      /\ received \in Seq(Frame) /\ Len(received) \in Nat
    BY DEF TypeOK
<1>4. None \notin Nat
    BY NoneAssumption
<1> QED
    BY <1>1, <1>2, <1>3, <1>4 DEF TypeOK

LEMMA FrameType ==
    ASSUME TypeOK
    PROVE  NextFrame \in Frame
    BY TypeFacts DEF NextFrame, Frame

LEMMA StepEffect ==
    ASSUME TypeOK, Numbers, Apart, [Next]_vars
    PROVE  \/ UNCHANGED vars
           \/ \E t \in Tasks, r \in Request : Sends(t, r)
           \/ \E r \in requests, y \in Reply : Responds(r, y)
           \/ \E t \in Tasks, y \in replies : Takes(t, y)
           \/ \E t \in Tasks : Drops(t)
<1>0. /\ requests \subseteq Request /\ replies \subseteq Reply /\ calls \in Nat
      /\ position \in Nat /\ audioSequence \in Nat /\ controlRevision \in Nat
      /\ doubtful \subseteq Operations /\ outlived \in BOOLEAN
      /\ \A t \in Tasks : call[t] \in Request
    BY TypeFacts
<1> DEFINE Sending == \E t \in Tasks, r \in Request : Sends(t, r)
           Responding == \E r \in requests, y \in Reply : Responds(r, y)
           Dropping == \E t \in Tasks : Drops(t)
<1>1. ASSUME NEW t \in Tasks, NEW op \in Operations, Send(t, op)
      PROVE  Sending
    <2> PICK r : r = [id |-> calls + 1, op |-> op, number |-> NumberFor(op), chunk |-> position]
        OBVIOUS
    <2>1. r \in Request /\ r.op = op /\ r.id = calls + 1 /\ r.number = NumberFor(op)
          /\ r.chunk = position
        BY <1>0 DEF Request, NumberFor
    <2>2. Sends(t, r)
        BY <1>1, <2>1 DEF Send, Sends, MarksClosed, sdk
    <2> QED
        BY <2>1, <2>2
<1>2. ASSUME NEW r \in requests, NEW ok \in BOOLEAN, NEW frame \in Frame \cup {None},
             AnswerWith(r, ok, frame),
             Serves(r, [id |-> r.id, ok |-> ok, alone |-> requests = {r}, frame |-> frame])
      PROVE  Responding
    <2> PICK y : y = [id |-> r.id, ok |-> ok, alone |-> requests = {r}, frame |-> frame]
        OBVIOUS
    <2>1. y \in Reply /\ y.id = r.id /\ y.alone = (requests = {r})
        BY <1>0 DEF Reply, Request
    <2>2. Responds(r, y)
        BY <1>2, <2>1 DEF AnswerWith, Responds
    <2> QED
        BY <2>1, <2>2
<1>3. ASSUME NEW r \in requests,
             ServePush(r) \/ ServeControl(r) \/ ServeReset(r) \/ ServeClose(r)
      PROVE  Responding
    <2>1. AnswerWith(r, TRUE, None)
        BY <1>3 DEF ServePush, ServeControl, ServeReset, ServeClose, Answer
    <2>2. Serves(r, [id |-> r.id, ok |-> TRUE, alone |-> requests = {r}, frame |-> None])
        BY <1>3 DEF Serves
    <2> QED
        BY <1>2, <2>1, <2>2
<1>4. ASSUME NEW r \in requests, ServePull(r)
      PROVE  Responding
    <2>1. AnswerWith(r, TRUE, NextFrame)
        BY <1>4 DEF ServePull, NextFrame
    <2>2. Serves(r, [id |-> r.id, ok |-> TRUE, alone |-> requests = {r}, frame |-> NextFrame])
        BY <1>4 DEF Serves
    <2> QED
        BY <1>2, <2>1, <2>2, FrameType
<1>5. ASSUME NEW r \in requests, Refuse(r)
      PROVE  Responding
    <2>1. AnswerWith(r, FALSE, None) /\ UNCHANGED server
        BY <1>5 DEF Refuse, Answer, TakesNothing
    <2>2. Serves(r, [id |-> r.id, ok |-> FALSE, alone |-> requests = {r}, frame |-> None])
        BY <2>1 DEF Serves
    <2> QED
        BY <1>2, <2>1, <2>2
<1>6. ASSUME NEW t \in Tasks, Receive(t)
      PROVE  \E y \in replies : Takes(t, y)
    BY <1>6 DEF Receive, Takes, Finish, sdk, app
<1>7. ASSUME NEW t \in Tasks, RequestLost(t)
      PROVE  Dropping
    <2>1. /\ call[t] \in requests /\ requests' = requests \ {call[t]}
          /\ UNCHANGED <<sdk, replies, server, calls, app, doubtful, outlived>>
          /\ call' = [call EXCEPT ![t] = Idle]
        BY <1>7 DEF RequestLost, Finish
    <2>2. /\ \A r \in requests' : r.id # call[t].id
          /\ \A y \in replies : y.id # call[t].id
        BY <2>1 DEF Apart
    <2>3. call[t] # Idle
        BY <2>1 DEF Numbers, Idle
    <2>4. Drops(t)
        BY <1>0, <2>1, <2>2, <2>3 DEF Drops
    <2> QED
        BY <2>4
<1>8. ASSUME NEW t \in Tasks, ReplyLost(t)
      PROVE  Dropping
    <2>1. PICK y \in replies :
              /\ y.id = call[t].id /\ replies' = replies \ {y}
              /\ doubtful' = IF y.ok THEN doubtful \cup {call[t].op} ELSE doubtful
        BY <1>8 DEF ReplyLost
    <2>2. /\ call[t] # Idle /\ call' = [call EXCEPT ![t] = Idle]
          /\ UNCHANGED <<sdk, requests, server, calls, app, outlived>>
        BY <1>8 DEF ReplyLost, Finish
    <2>3. /\ \A r \in requests : r.id # call[t].id
          /\ \A x \in replies : x.id = call[t].id => x = y
        BY <2>1 DEF Apart
    <2>4. call[t].op \in Operations
        BY <1>0 DEF Request
    <2>5. Drops(t)
        BY <1>0, <2>1, <2>2, <2>3, <2>4 DEF Drops
    <2> QED
        BY <2>5
<1>9. ASSUME NEW t \in Tasks, TimeOut(t)
      PROVE  Dropping
    <2>1. /\ call[t] \in requests /\ call' = [call EXCEPT ![t] = Idle]
          /\ doubtful' = doubtful \cup {call[t].op}
          /\ outlived' = (outlived \/ call[t].op = "push")
          /\ UNCHANGED <<sdk, requests, replies, server, calls, app>>
        BY <1>9 DEF TimeOut, Finish, wire
    <2>2. /\ \A r \in requests : r.id = call[t].id => r = call[t]
          /\ \A y \in replies : y.id # call[t].id
        BY <2>1 DEF Apart
    <2>3. call[t] # Idle
        BY <2>1 DEF Numbers, Idle
    <2>4. call[t].op \in Operations
        BY <1>0 DEF Request
    <2>5. Drops(t)
        BY <1>0, <2>1, <2>2, <2>3, <2>4 DEF Drops
    <2> QED
        BY <2>5
<1> QED
    BY <1>1, <1>3, <1>4, <1>5, <1>6, <1>7, <1>8, <1>9 DEF Next

-----------------------------------------------------------------------------
(***************************************************************************)
(* The wire and the types.                                                 *)
(***************************************************************************)

LEMMA CallBegins ==
    ASSUME TypeOK, NEW t \in Tasks, NEW r \in Request, Sends(t, r)
    PROVE  call'[t] = r /\ \A u \in Tasks : u # t => call'[u] = call[u]
BY TypeFacts DEF Sends

LEMMA CallEnds ==
    ASSUME TypeOK, NEW t \in Tasks, call' = [call EXCEPT ![t] = Idle]
    PROVE  call'[t] = Idle /\ \A u \in Tasks : u # t => call'[u] = call[u]
BY TypeFacts

LEMMA IdleType ==
    Idle \in Request /\ Idle.id = 0
BY DEF Idle, Request, Operations

LEMMA ServerType ==
    ASSUME TypeOK, NEW r \in Request, NEW y, Serves(r, y)
    PROVE  /\ open' \in BOOLEAN /\ nextAudioSequence' \in Nat
           /\ serverRevision' \in Nat \cup {None}
           /\ clock' \in Nat
           /\ epoch' \in Nat /\ nextVideoSequence' \in Nat
           /\ taken' \subseteq Frame
           /\ accepted' \in Seq(Nat)
<1>1. r.number \in Nat /\ r.chunk \in Nat
    BY DEF Request
<1>2. CASE ServePush(r)
    <2>1. accepted' = Append(accepted, r.chunk) /\ nextAudioSequence' = nextAudioSequence + 1
          /\ UNCHANGED <<open, serverRevision, output>>
        BY <1>2 DEF ServePush
    <2>2. PICK padding \in Paddings : clock' = clock + AudioChunkMs + padding
        BY <1>2 DEF ServePush
    <2>3. clock' \in Nat
        BY <2>2, TypeFacts, PaddingAssumption DEF AudioChunkMs
    <2> QED
        BY <1>1, <2>1, <2>3, TypeFacts DEF output
<1>3. CASE ServeControl(r)
    BY <1>1, <1>3, TypeFacts DEF ServeControl, output
<1>4. CASE ServePull(r)
    BY <1>4, TypeFacts, FrameType DEF ServePull, counters
<1>5. CASE ServeReset(r)
    BY <1>5, TypeFacts DEF ServeReset, NextEpoch
<1>6. CASE ServeClose(r)
    BY <1>6, TypeFacts DEF ServeClose, counters, output
<1>7. CASE UNCHANGED server
    BY <1>7, TypeFacts DEF server, counters, output
<1> QED
    BY <1>2, <1>3, <1>4, <1>5, <1>6, <1>7 DEF Serves

LEMMA TypeStep ==
    ASSUME TypeOK, Wire, [Next]_vars
    PROVE  TypeOK'
<1>0. TypeOK /\ Numbers /\ Apart
    BY DEF Wire
<1>1. CASE UNCHANGED vars
    BY <1>1 DEF TypeOK, vars, sdk, wire, server, counters, output, app
<1>2. ASSUME NEW t \in Tasks, NEW r \in Request, Sends(t, r)
      PROVE  TypeOK'
    <2>1. UNCHANGED <<sdk, replies, server, app, doubtful, outlived>>
          /\ requests' = requests \cup {r} /\ calls' = calls + 1 /\ calls < MaxCalls
          /\ call' = [call EXCEPT ![t] = r]
        BY <1>2 DEF Sends
    <2>2. calls' \in 0..MaxCalls
        BY <2>1, TypeFacts, MaxCallsAssumption
    <2>3. call' \in [Tasks -> Request]
        BY <2>1, TypeFacts
    <2> QED
        BY <2>1, <2>2, <2>3, TypeFacts DEF TypeOK, sdk, server, counters, output, app
<1>3. ASSUME NEW r \in requests, NEW y \in Reply, Responds(r, y)
      PROVE  TypeOK'
    <2>1. UNCHANGED <<sdk, call, calls, app, doubtful, outlived>>
          /\ requests' \subseteq requests /\ replies' \subseteq replies \cup {y} /\ Serves(r, y)
        BY <1>3 DEF Responds
    <2>2. r \in Request
        BY TypeFacts
    <2> QED
        BY <2>1, <2>2, ServerType, TypeFacts DEF TypeOK, sdk, app
<1>4. ASSUME NEW t \in Tasks, NEW y \in replies, Takes(t, y)
      PROVE  TypeOK'
    <2>1. call[t].number \in Nat /\ call[t].chunk \in Nat
        BY TypeFacts DEF Request
    <2>2. /\ UNCHANGED <<requests, server, calls, outlived>> /\ replies' \subseteq replies
          /\ call' = [call EXCEPT ![t] = Idle]
        BY <1>4 DEF Takes
    <2>3. call' \in [Tasks -> Request]
        BY <2>2, TypeFacts, IdleType
    <2>4. audioSequence' \in Nat /\ controlRevision' \in Nat
        BY <1>4, <2>1, TypeFacts DEF Takes, AfterSuccess, Restarted, sdk
    <2>7. sdkClosed' \in BOOLEAN
        BY <1>4, TypeFacts, Zenon DEF Takes, AfterSuccess, sdk
    <2>5. position' \in Nat /\ doubtful' \subseteq Operations
        BY <1>4, <2>1, TypeFacts DEF Takes, StillDoubtful, app
    <2>6. received' \in Seq(Frame)
        <3>1. CASE y.ok /\ call[t].op = "pull"
            <4>1. y.frame \in Frame
                BY <1>4, <3>1 DEF Wire, Matches, Takes
            <4>2. received' = Append(received, y.frame)
                BY <1>4, <3>1 DEF Takes
            <4> QED
                BY <4>1, <4>2, TypeFacts
        <3>2. CASE ~(y.ok /\ call[t].op = "pull")
            BY <1>4, <3>2, TypeFacts DEF Takes, app
        <3> QED
            BY <3>1, <3>2
    <2> QED
        BY <2>2, <2>3, <2>4, <2>5, <2>6, <2>7, TypeFacts DEF TypeOK, server, counters, output
<1>5. ASSUME NEW t \in Tasks, Drops(t)
      PROVE  TypeOK'
    <2>1. call' = [call EXCEPT ![t] = Idle] /\ requests' \subseteq requests
          /\ replies' \subseteq replies /\ doubtful' \subseteq Operations
          /\ outlived' \in BOOLEAN /\ UNCHANGED <<sdk, server, calls, app>>
        BY <1>5 DEF Drops
    <2>2. call' \in [Tasks -> Request]
        BY <2>1, TypeFacts, IdleType
    <2>3. requests' \subseteq Request /\ replies' \subseteq Reply
        BY <2>1, TypeFacts
    <2>4. UNCHANGED <<audioSequence, controlRevision, sdkClosed, open, nextAudioSequence,
                      serverRevision, clock, accepted, epoch, nextVideoSequence, taken,
                      calls, position, received>>
        BY <2>1 DEF sdk, server, counters, output, app
    <2> QED
        BY <2>1, <2>2, <2>3, <2>4 DEF TypeOK
<1> QED
    BY <1>0, <1>1, <1>2, <1>3, <1>4, <1>5, StepEffect

LEMMA NumbersStep ==
    ASSUME TypeOK, Wire, [Next]_vars
    PROVE  Numbers'
<1>0. Numbers /\ Apart /\ calls \in Nat
    BY TypeFacts DEF Wire
<1>1. CASE UNCHANGED vars
    BY <1>0, <1>1 DEF Numbers, vars, wire
<1>2. ASSUME NEW t \in Tasks, NEW r \in Request, Sends(t, r)
      PROVE  Numbers'
    <2>1. r.id = calls + 1 /\ calls' = calls + 1 /\ requests' = requests \cup {r}
          /\ replies' = replies
        BY <1>2 DEF Sends
    <2>2. call'[t] = r /\ \A u \in Tasks : u # t => call'[u] = call[u]
        BY <1>2, CallBegins
    <2>3. \A u \in Tasks : call'[u].id \in 0..calls' /\ (call'[u].id = 0 => call'[u] = Idle)
        <3> TAKE u \in Tasks
        <3>1. CASE u = t
            BY <1>0, <2>1, <2>2, <3>1
        <3>2. CASE u # t
            <4>1. call'[u] = call[u]
                BY <2>2, <3>2
            <4>2. call[u].id \in 0..calls /\ (call[u].id = 0 => call[u] = Idle)
                BY <1>0 DEF Numbers
            <4> QED
                BY <1>0, <2>1, <4>1, <4>2
        <3> QED
            BY <3>1, <3>2
    <2> QED
        BY <1>0, <2>1, <2>3 DEF Numbers
<1>3. ASSUME NEW r \in requests, NEW y \in Reply, Responds(r, y)
      PROVE  Numbers'
    BY <1>0, <1>3 DEF Responds, Numbers
<1>4. ASSUME NEW t \in Tasks, call' = [call EXCEPT ![t] = Idle],
             requests' \subseteq requests, replies' \subseteq replies, calls' = calls
      PROVE  Numbers'
    <2>1. call'[t] = Idle /\ \A u \in Tasks : u # t => call'[u] = call[u]
        BY <1>4, CallEnds
    <2> QED
        BY <1>0, <1>4, <2>1, IdleType DEF Numbers
<1>5. ASSUME NEW t \in Tasks, NEW y \in replies, Takes(t, y)
      PROVE  Numbers'
    BY <1>4, <1>5 DEF Takes
<1>6. ASSUME NEW t \in Tasks, Drops(t)
      PROVE  Numbers'
    BY <1>4, <1>6 DEF Drops
<1> QED
    BY <1>0, <1>1, <1>2, <1>3, <1>5, <1>6, StepEffect

LEMMA ApartStep ==
    ASSUME TypeOK, Wire, [Next]_vars
    PROVE  Apart'
<1>0. Numbers /\ Apart /\ calls \in Nat
    BY TypeFacts DEF Wire
<1>1. CASE UNCHANGED vars
    BY <1>0, <1>1 DEF Apart, vars, wire
<1>2. ASSUME NEW t \in Tasks, NEW r \in Request, Sends(t, r)
      PROVE  Apart'
    <2>1. r.id = calls + 1 /\ requests' = requests \cup {r} /\ replies' = replies
        BY <1>2 DEF Sends
    <2>2. call'[t] = r /\ \A u \in Tasks : u # t => call'[u] = call[u]
        BY <1>2, CallBegins
    <2>3. /\ \A p \in requests : p.id # r.id
          /\ \A y \in replies : y.id # r.id
          /\ \A u \in Tasks : call[u].id # r.id
        BY <1>0, <2>1 DEF Numbers
    <2>4. \A u, v \in Tasks : call'[u].id = call'[v].id /\ call'[u].id # 0 => u = v
        BY <1>0, <2>2, <2>3 DEF Apart
    <2> QED
        BY <1>0, <2>1, <2>3, <2>4 DEF Apart
<1>3. ASSUME NEW r \in requests, NEW y \in Reply, Responds(r, y)
      PROVE  Apart'
    <2>1. y.id = r.id /\ requests' = requests \ {r} /\ replies' \subseteq replies \cup {y}
          /\ call' = call
        BY <1>3 DEF Responds
    <2>2. /\ \A p \in requests' : p.id # y.id
          /\ \A x \in replies : x.id # y.id
        BY <1>0, <2>1 DEF Apart
    <2> QED
        BY <1>0, <2>1, <2>2 DEF Apart
<1>4. ASSUME NEW t \in Tasks, call' = [call EXCEPT ![t] = Idle],
             requests' \subseteq requests, replies' \subseteq replies
      PROVE  Apart'
    <2>1. call'[t] = Idle /\ \A u \in Tasks : u # t => call'[u] = call[u]
        BY <1>4, CallEnds
    <2>2. \A u, v \in Tasks : call'[u].id = call'[v].id /\ call'[u].id # 0 => u = v
        BY <1>0, <2>1, IdleType DEF Apart
    <2> QED
        BY <1>0, <1>4, <2>2 DEF Apart
<1>5. ASSUME NEW t \in Tasks, NEW y \in replies, Takes(t, y)
      PROVE  Apart'
    BY <1>4, <1>5 DEF Takes
<1>6. ASSUME NEW t \in Tasks, Drops(t)
      PROVE  Apart'
    BY <1>4, <1>6 DEF Drops
<1> QED
    BY <1>0, <1>1, <1>2, <1>3, <1>5, <1>6, StepEffect

LEMMA AnswerGiven ==
    ASSUME TypeOK, Wire, NEW r \in requests, NEW y \in Reply, Responds(r, y),
           NEW t \in Tasks, y.id = call[t].id
    PROVE  r = call[t] /\ Awaited(r)
<1>1. r.id = call[t].id
    BY DEF Responds
<1>2. r = call[t]
    BY <1>1 DEF Wire, Matches
<1> QED
    BY <1>2 DEF Awaited

LEMMA AnswerTaken ==
    ASSUME TypeOK, Wire, NEW t \in Tasks, NEW y \in replies, Takes(t, y)
    PROVE  \A x \in replies' : x \in replies /\ x # y /\ x.id # call[t].id
BY DEF Wire, Apart, Takes

LEMMA MatchesStep ==
    ASSUME TypeOK, Wire, [Next]_vars
    PROVE  Matches'
<1>0. Numbers /\ Apart /\ Matches /\ calls \in Nat
    BY TypeFacts DEF Wire
<1>1. CASE UNCHANGED vars
    BY <1>0, <1>1 DEF Matches, vars, wire
<1>2. ASSUME NEW t \in Tasks, NEW r \in Request, Sends(t, r)
      PROVE  Matches'
    <2>1. r.id = calls + 1 /\ requests' = requests \cup {r} /\ replies' = replies
          /\ call[t].id = 0
        BY <1>2, IdleType DEF Sends
    <2>2. call'[t] = r /\ \A u \in Tasks : u # t => call'[u] = call[u]
        BY <1>2, CallBegins
    <2>3. /\ \A p \in requests : p.id # r.id
          /\ \A y \in replies : y.id # r.id /\ y.id # call[t].id
          /\ \A u \in Tasks : call[u].id # r.id
        BY <1>0, <2>1 DEF Numbers
    <2>4. \A p \in requests', u \in Tasks : p.id = call'[u].id => p = call'[u]
        BY <1>0, <2>1, <2>2, <2>3 DEF Matches
    <2>5. \A y \in replies' : \E u \in Tasks : y.id = call'[u].id
        <3> TAKE y \in replies'
        <3>1. PICK u \in Tasks : y.id = call[u].id
            BY <1>0, <2>1 DEF Matches
        <3>2. u # t
            BY <2>1, <2>3, <3>1
        <3> QED
            BY <2>2, <3>1, <3>2
    <2>6. \A y \in replies', u \in Tasks :
              y.id = call'[u].id /\ y.ok /\ call'[u].op = "pull" => y.frame \in Frame
        <3> TAKE y \in replies', u \in Tasks
        <3>1. CASE u = t
            BY <2>1, <2>2, <2>3, <3>1
        <3>2. CASE u # t
            <4>1. call'[u] = call[u]
                BY <2>2, <3>2
            <4> QED
                BY <1>0, <2>1, <4>1 DEF Matches
        <3> QED
            BY <3>1, <3>2
    <2> QED
        BY <2>4, <2>5, <2>6 DEF Matches
<1>3. ASSUME NEW r \in requests, NEW y \in Reply, Responds(r, y)
      PROVE  Matches'
    <2>0. /\ y.id = r.id /\ requests' = requests \ {r} /\ call' = call /\ Serves(r, y)
          /\ replies' = IF Awaited(r) THEN replies \cup {y} ELSE replies
        BY <1>3 DEF Responds
    <2>1. /\ requests' \subseteq requests
          /\ \A x \in replies' : x \in replies \/ (x = y /\ Awaited(r))
        BY <2>0
    <2>2. \A x \in replies' : \E u \in Tasks : x.id = call'[u].id
        BY <1>0, <2>0, <2>1 DEF Matches, Awaited
    <2>3. ASSUME NEW u \in Tasks, y.id = call[u].id, y.ok, call[u].op = "pull"
          PROVE  y.frame \in Frame
        <3>1. r.op = "pull"
            BY <1>3, <2>3, AnswerGiven
        <3>2. y.frame = NextFrame
            BY <2>0, <2>3, <3>1 DEF Serves, ServePush, ServeControl, ServeReset, ServeClose
        <3> QED
            BY <3>2, FrameType
    <2> QED
        BY <1>0, <2>0, <2>1, <2>2, <2>3 DEF Matches
<1>4. ASSUME NEW t \in Tasks, call' = [call EXCEPT ![t] = Idle],
             requests' \subseteq requests,
             \A x \in replies' : x \in replies /\ x.id # call[t].id
      PROVE  Matches'
    <2>1. call'[t] = Idle /\ \A u \in Tasks : u # t => call'[u] = call[u]
        BY <1>4, CallEnds
    <2>2. /\ \A p \in requests' : p.id # call'[t].id
          /\ \A x \in replies' : x.id # call'[t].id
        BY <1>0, <1>4, <2>1, IdleType DEF Numbers
    <2>3. \A p \in requests', u \in Tasks : p.id = call'[u].id => p = call'[u]
        BY <1>0, <1>4, <2>1, <2>2 DEF Matches
    <2>4. \A x \in replies' : \E u \in Tasks : x.id = call'[u].id
        BY <1>0, <1>4, <2>1 DEF Matches
    <2>5. \A x \in replies', u \in Tasks :
              x.id = call'[u].id /\ x.ok /\ call'[u].op = "pull" => x.frame \in Frame
        BY <1>0, <1>4, <2>1, <2>2 DEF Matches
    <2> QED
        BY <2>3, <2>4, <2>5 DEF Matches
<1>5. ASSUME NEW t \in Tasks, NEW y \in replies, Takes(t, y)
      PROVE  Matches'
    <2>1. call' = [call EXCEPT ![t] = Idle] /\ requests' \subseteq requests
        BY <1>5 DEF Takes
    <2> QED
        BY <1>4, <1>5, <2>1, AnswerTaken
<1>6. ASSUME NEW t \in Tasks, Drops(t)
      PROVE  Matches'
    <2>1. /\ call' = [call EXCEPT ![t] = Idle] /\ requests' \subseteq requests
          /\ \A x \in replies' : x \in replies /\ x.id # call[t].id
        BY <1>6 DEF Drops
    <2> QED
        BY <1>4, <2>1
<1> QED
    BY <1>0, <1>1, <1>2, <1>3, <1>5, <1>6, StepEffect

LEMMA WireStep ==
    ASSUME TypeOK, Wire, [Next]_vars
    PROVE  TypeOK' /\ Wire'
BY TypeStep, NumbersStep, ApartStep, MatchesStep DEF Wire

LEMMA TypeInit ==
    ASSUME Init
    PROVE  TypeOK
<1>1. calls \in 0..MaxCalls
    BY MaxCallsAssumption DEF Init
<1>2. call \in [Tasks -> Request]
    BY IdleType DEF Init
<1>3. accepted \in Seq(Nat) /\ received \in Seq(Frame)
    BY DEF Init
<1> QED
    BY <1>1, <1>2, <1>3 DEF Init, TypeOK

LEMMA WireInit ==
    ASSUME Init
    PROVE  Wire
BY IdleType DEF Init, Wire, Numbers, Apart, Matches

LEMMA WireHolds ==
    Spec => [](TypeOK /\ Wire)
<1>1. Init => TypeOK /\ Wire
    BY TypeInit, WireInit
<1>2. TypeOK /\ Wire /\ [Next]_vars => (TypeOK /\ Wire)'
    BY WireStep
<1> QED
    BY <1>1, <1>2, PTL DEF Spec

\* Every variable keeps its type, whatever the application and the network do.
THEOREM TypeCorrect ==
    Spec => []TypeOK
BY WireHolds, PTL

-----------------------------------------------------------------------------
(***************************************************************************)
(* The answers on their way.                                               *)
(***************************************************************************)

LEMMA GrantedSends ==
    ASSUME TypeOK, Wire, NEW t \in Tasks, NEW r \in Request, Sends(t, r), NEW op
    PROVE  Granted(op)' <=> Granted(op)
<1>1. r.id = calls + 1 /\ replies' = replies /\ call[t].id = 0
    BY IdleType DEF Sends
<1>2. call'[t] = r /\ \A u \in Tasks : u # t => call'[u] = call[u]
    BY CallBegins
<1>3. \A y \in replies : y.id # call[t].id /\ y.id # r.id
    BY <1>1, TypeFacts DEF Wire, Numbers
<1>4. \A u \in Tasks, y \in replies :
          /\ y.id = call[u].id => u # t
          /\ y.id = call'[u].id => u # t
    BY <1>2, <1>3
<1> QED
    BY <1>1, <1>2, <1>4 DEF Granted

LEMMA GrantedResponds ==
    ASSUME TypeOK, Wire, NEW r \in requests, NEW y \in Reply, Responds(r, y), NEW op
    PROVE  Granted(op)' <=> (Granted(op) \/ (Awaited(r) /\ y.ok /\ r.op = op))
<1>1. call' = call /\ y.id = r.id
      /\ replies' = IF Awaited(r) THEN replies \cup {y} ELSE replies
    BY DEF Responds
<1>2. \A t \in Tasks : y.id = call[t].id => r = call[t] /\ Awaited(r)
    BY AnswerGiven
<1>3. Granted(op)' => (Granted(op) \/ (Awaited(r) /\ y.ok /\ r.op = op))
    BY <1>1, <1>2 DEF Granted
<1>4. Granted(op) => Granted(op)'
    BY <1>1 DEF Granted
<1>5. Awaited(r) /\ y.ok /\ r.op = op => Granted(op)'
    BY <1>1 DEF Granted, Awaited
<1> QED
    BY <1>3, <1>4, <1>5

LEMMA GrantedTakes ==
    ASSUME TypeOK, Wire, NEW t \in Tasks, NEW y \in replies, Takes(t, y), NEW op
    PROVE  /\ Granted(op)' => Granted(op)
           /\ y.ok => Granted(call[t].op)
<1>1. call'[t] = Idle /\ \A u \in Tasks : u # t => call'[u] = call[u]
    BY CallEnds DEF Takes
<1>2. \A x \in replies' : x \in replies /\ x.id # call'[t].id
    BY <1>1, AnswerTaken, IdleType, TypeFacts DEF Wire, Numbers
<1> QED
    BY <1>1, <1>2 DEF Granted, Takes

LEMMA GrantedDrops ==
    ASSUME TypeOK, Wire, NEW t \in Tasks, Drops(t), NEW op
    PROVE  Granted(op)' => Granted(op)
<1>1. call'[t] = Idle /\ \A u \in Tasks : u # t => call'[u] = call[u]
    BY CallEnds DEF Drops
<1>2. \A x \in replies' : x \in replies /\ x.id # call'[t].id
    BY <1>1, IdleType, TypeFacts DEF Drops, Wire, Numbers
<1> QED
    BY <1>1, <1>2 DEF Granted

LEMMA ClosingStep ==
    ASSUME TypeOK, Wire, Closing, [Next]_vars
    PROVE  Closing'
<1>0. Numbers /\ Apart
    BY DEF Wire
<1>1. CASE UNCHANGED vars
    BY <1>1 DEF Closing, Granted, vars, sdk, wire, server
<1>2. ASSUME NEW t \in Tasks, NEW r \in Request, Sends(t, r)
      PROVE  Closing'
    <2>1. Granted("close")' <=> Granted("close")
        BY <1>2, GrantedSends
    <2>2. sdkClosed' = sdkClosed /\ open' = open
        BY <1>2 DEF Sends, sdk, server
    <2> QED
        BY <2>1, <2>2 DEF Closing
<1>3. ASSUME NEW r \in requests, NEW y \in Reply, Responds(r, y)
      PROVE  Closing'
    <2>1. Granted("close")' => Granted("close") \/ (y.ok /\ r.op = "close")
        BY <1>3, GrantedResponds
    <2>2. sdkClosed' = sdkClosed /\ Serves(r, y)
        BY <1>3 DEF Responds, sdk
    <2>3. ~open => ~open'
        BY <2>2 DEF Serves, ServePush, ServeControl, ServePull, ServeReset, ServeClose, server
    <2>4. y.ok /\ r.op = "close" => ~open'
        BY <2>2 DEF Serves, ServePush, ServeControl, ServePull, ServeReset, ServeClose
    <2> QED
        BY <2>1, <2>2, <2>3, <2>4 DEF Closing
<1>4. ASSUME NEW t \in Tasks, NEW y \in replies, Takes(t, y)
      PROVE  Closing'
    <2>1. (Granted("close")' => Granted("close")) /\ (y.ok => Granted(call[t].op))
        BY <1>4, GrantedTakes
    <2>2. open' = open
        BY <1>4 DEF Takes, server
    <2>3. sdkClosed' => sdkClosed \/ (y.ok /\ call[t].op = "close")
        BY <1>4 DEF Takes, AfterSuccess, sdk
    <2> QED
        BY <2>1, <2>2, <2>3 DEF Closing
<1>5. ASSUME NEW t \in Tasks, Drops(t)
      PROVE  Closing'
    <2>1. Granted("close")' => Granted("close")
        BY <1>5, GrantedDrops
    <2>2. sdkClosed' = sdkClosed /\ open' = open
        BY <1>5 DEF Drops, sdk, server
    <2> QED
        BY <2>1, <2>2 DEF Closing
<1> QED
    BY <1>0, <1>1, <1>2, <1>3, <1>4, <1>5, StepEffect

\* A session the SDK reports as closed is closed on the server too, however many
\* calls overlap and whatever is lost or late (client.py:218-222).
THEOREM ClosedIsClosedCorrect ==
    Spec => []ClosedIsClosed
<1>1. Init => Closing
    BY DEF Init, Closing, Granted
<1>2. TypeOK /\ Wire /\ Closing /\ [Next]_vars => Closing'
    BY ClosingStep
<1>3. Closing => ClosedIsClosed
    BY DEF Closing, ClosedIsClosed
<1> QED
    BY <1>1, <1>2, <1>3, WireHolds, PTL DEF Spec

-----------------------------------------------------------------------------
(***************************************************************************)
(* The discipline of an application that does not overlap its calls.       *)
(***************************************************************************)

\* While an answer is on its way, or a request that is still awaited, any other
\* call under way is of another kind, and neither is a reset or a close.
LEMMA Lonely ==
    ASSUME TypeOK, Wire, OneAtATime, NEW r \in requests, Awaited(r), NEW op, Granted(op)
    PROVE  op # r.op /\ {op, r.op} \subseteq {"push", "control", "pull"}
<1>1. PICK t \in Tasks, y \in replies : y.id = call[t].id /\ y.ok /\ call[t].op = op
    BY DEF Granted
<1>2. PICK u \in Tasks : call[u] = r
    BY DEF Awaited
<1>3. y.id # r.id /\ y.id # 0 /\ r.id # 0
    BY TypeFacts DEF Wire, Apart, Numbers
<1>4. t # u /\ call[t] # Idle /\ call[u] # Idle
    BY <1>1, <1>2, <1>3, IdleType
<1> QED
    BY <1>1, <1>2, <1>4 DEF OneAtATime

LEMMA OneAtATimeStep ==
    ASSUME ~Overlap, TypeOK, Wire, OneAtATime, [Next]_vars
    PROVE  OneAtATime'
<1>0. Numbers /\ Apart
    BY DEF Wire
<1>1. CASE call' = call
    BY <1>1 DEF OneAtATime
<1>2. ASSUME NEW t \in Tasks, NEW r \in Request, Sends(t, r)
      PROVE  OneAtATime'
    <2>1. call'[t] = r /\ \A u \in Tasks : u # t => call'[u] = call[u]
        BY <1>2, CallBegins
    <2>2. ASSUME NEW u \in Tasks, u # t, call[u] # Idle
          PROVE  r.op # call[u].op /\ {r.op, call[u].op} \subseteq {"push", "control", "pull"}
        BY <1>2, <2>2 DEF Sends, MayCall, InFlight
    <2> QED
        BY <2>1, <2>2 DEF OneAtATime
<1>3. ASSUME NEW t \in Tasks, call' = [call EXCEPT ![t] = Idle]
      PROVE  OneAtATime'
    <2>1. call'[t] = Idle /\ \A u \in Tasks : u # t => call'[u] = call[u]
        BY <1>3, CallEnds
    <2> QED
        BY <2>1 DEF OneAtATime
<1> QED
    BY <1>0, <1>1, <1>2, <1>3, StepEffect DEF vars, Responds, Takes, Drops

LEMMA StillCurrentStep ==
    ASSUME TypeOK, Wire, OneAtATime, StillCurrent, [Next]_vars
    PROVE  StillCurrent'
<1>0. Numbers /\ Apart
    BY DEF Wire
<1>1. CASE UNCHANGED <<sdk, call, app>>
    BY <1>1 DEF StillCurrent, sdk, app
<1>2. ASSUME NEW t \in Tasks, NEW r \in Request, Sends(t, r)
      PROVE  StillCurrent'
    <2>1. call'[t] = r /\ \A u \in Tasks : u # t => call'[u] = call[u]
        BY <1>2, CallBegins
    <2>2. r.number = NumberFor(r.op) /\ r.chunk = position /\ UNCHANGED <<sdk, app>>
        BY <1>2 DEF Sends
    <2>3. /\ r.op = "push" => r.number = audioSequence
          /\ r.op = "control" => r.number = controlRevision + 1
        BY <2>2 DEF NumberFor
    <2> QED
        BY <2>1, <2>2, <2>3 DEF StillCurrent, sdk, app
<1>3. ASSUME NEW t \in Tasks, NEW y \in replies, Takes(t, y)
      PROVE  StillCurrent'
    <2>1. call'[t] = Idle /\ \A u \in Tasks : u # t => call'[u] = call[u]
        BY <1>3, CallEnds DEF Takes
    <2> SUFFICES ASSUME NEW u \in Tasks, call'[u] # Idle
                 PROVE  /\ call'[u].op = "push" => call'[u].number = audioSequence'
                                                    /\ call'[u].chunk = position'
                        /\ call'[u].op = "control" => call'[u].number = controlRevision' + 1
        BY DEF StillCurrent
    <2>2. u # t /\ call'[u] = call[u] /\ call[u] # Idle /\ call[t] # Idle
        BY <1>3, <2>1 DEF Takes
    <2>3. call[t].op # call[u].op /\ call[t].op \in {"push", "control", "pull"}
        BY <2>2 DEF OneAtATime
    <2>4. call[t].op # "push" => audioSequence' = audioSequence /\ position' = position
        BY <1>3, <2>3 DEF Takes, AfterSuccess, sdk, app
    <2>5. call[t].op # "control" => controlRevision' = controlRevision
        BY <1>3, <2>3 DEF Takes, AfterSuccess, sdk
    <2> QED
        BY <2>2, <2>3, <2>4, <2>5 DEF StillCurrent
<1>4. ASSUME NEW t \in Tasks, Drops(t)
      PROVE  StillCurrent'
    <2>1. call'[t] = Idle /\ \A u \in Tasks : u # t => call'[u] = call[u]
        BY <1>4, CallEnds DEF Drops
    <2>2. UNCHANGED <<sdk, app>>
        BY <1>4 DEF Drops
    <2> QED
        BY <2>1, <2>2 DEF StillCurrent, sdk, app
<1> QED
    BY <1>0, <1>1, <1>2, <1>3, <1>4, StepEffect DEF vars, Responds

LEMMA AbandonedStep ==
    ASSUME TypeOK, Wire, Abandoned, FreshStart, [Next]_vars
    PROVE  Abandoned'
<1>0. Numbers /\ Apart
    BY DEF Wire
<1>1. CASE UNCHANGED <<call, doubtful, outlived>> /\ requests' \subseteq requests
    BY <1>1 DEF Abandoned, Awaited
<1>2. ASSUME NEW t \in Tasks, NEW r \in Request, Sends(t, r)
      PROVE  Abandoned'
    <2>1. call'[t] = r /\ \A u \in Tasks : u # t => call'[u] = call[u]
        BY <1>2, CallBegins
    <2>2. /\ requests' = requests \cup {r} /\ call[t].id = 0
          /\ doubtful' = doubtful /\ outlived' = outlived
        BY <1>2, IdleType DEF Sends
    <2>3. \A p \in requests : p.id # 0
        BY <1>0, TypeFacts DEF Numbers
    <2>4. \A p \in requests : Awaited(p) => Awaited(p)'
        BY <2>1, <2>2, <2>3 DEF Awaited
    <2>5. Awaited(r)'
        BY <2>1 DEF Awaited
    <2> QED
        BY <2>2, <2>4, <2>5 DEF Abandoned
<1>3. ASSUME NEW t \in Tasks, NEW y \in replies, Takes(t, y)
      PROVE  Abandoned'
    <2>1. call'[t] = Idle /\ \A u \in Tasks : u # t => call'[u] = call[u]
        BY <1>3, CallEnds DEF Takes
    <2>2. y.id = call[t].id /\ requests' = requests /\ outlived' = outlived
        BY <1>3 DEF Takes
    <2>3. \A p \in requests : Awaited(p) => Awaited(p)'
        BY <1>0, <2>1, <2>2 DEF Awaited, Apart
    <2>4. doubtful' = doubtful \/ requests = {}
        BY <1>3, <2>2 DEF Takes, StillDoubtful, FreshStart
    <2> QED
        BY <2>2, <2>3, <2>4 DEF Abandoned
<1>4. ASSUME NEW t \in Tasks, Drops(t)
      PROVE  Abandoned'
    <2>1. call'[t] = Idle /\ \A u \in Tasks : u # t => call'[u] = call[u]
        BY <1>4, CallEnds DEF Drops
    <2>2. /\ requests' \subseteq requests
          /\ \A p \in requests' : p.id = call[t].id =>
                p.op \in doubtful' /\ (p.op = "push" => outlived')
          /\ doubtful \subseteq doubtful' /\ (outlived => outlived')
        BY <1>4 DEF Drops
    <2>3. \A p \in requests' : p.id # call[t].id /\ Awaited(p) => Awaited(p)'
        BY <2>1, <2>2 DEF Awaited
    <2> QED
        BY <2>2, <2>3 DEF Abandoned
<1>5. ASSUME NEW r \in requests, NEW y \in Reply, Responds(r, y)
      PROVE  Abandoned'
    BY <1>1, <1>5 DEF Responds
<1> QED
    BY <1>0, <1>1, <1>2, <1>3, <1>4, <1>5, StepEffect DEF vars, wire

LEMMA FreshStartStep ==
    ASSUME ~Overlap, TypeOK, Wire, FreshStart, [Next]_vars
    PROVE  FreshStart'
<1>0. Numbers /\ Apart
    BY DEF Wire
<1>1. CASE UNCHANGED vars
    BY <1>1 DEF FreshStart, vars, wire, server, counters, output
<1>2. ASSUME NEW t \in Tasks, NEW r \in Request, Sends(t, r)
      PROVE  FreshStart'
    <2>1. call'[t] = r /\ \A u \in Tasks : u # t => call'[u] = call[u]
        BY <1>2, CallBegins
    <2>2. replies' = replies /\ r.id = calls + 1
        BY <1>2 DEF Sends
    <2>3. \A y \in replies : y.id # r.id /\ y.id # 0
        BY <1>0, <2>2, TypeFacts DEF Numbers
    <2>4. ASSUME NEW u \in Tasks, u # t, call[u].id # 0
          PROVE  call[u].op # "reset"
        BY <1>2, <2>4, IdleType DEF Sends, MayCall, InFlight
    <2>5. \A u \in Tasks, y \in replies : y.id = call'[u].id => call'[u].op # "reset"
        BY <2>1, <2>3, <2>4
    <2> QED
        BY <2>2, <2>5 DEF FreshStart
<1>3. ASSUME NEW r \in requests, NEW y \in Reply, Responds(r, y)
      PROVE  FreshStart'
    <2>1. /\ y.id = r.id /\ requests' = requests \ {r} /\ call' = call /\ Serves(r, y)
          /\ y.alone = (requests = {r})
          /\ replies' \subseteq replies \cup {y}
        BY <1>3 DEF Responds
    <2>2. \A t \in Tasks, x \in replies :
              ~(x.id = call[t].id /\ x.ok /\ x.alone /\ call[t].op = "reset")
        BY DEF FreshStart
    <2>3. ASSUME NEW t \in Tasks, y.id = call[t].id, y.ok, y.alone, call[t].op = "reset"
          PROVE  /\ requests' = {} /\ nextAudioSequence' = 0 /\ serverRevision' = None
                 /\ nextVideoSequence' = 0
        <3>1. r.op = "reset"
            BY <1>3, <2>3, AnswerGiven
        <3>2. ServeReset(r)
            BY <2>1, <2>3, <3>1
               DEF Serves, ServePush, ServeControl, ServePull, ServeReset, ServeClose
        <3>3. requests = {r}
            BY <2>1, <2>3
        <3> QED
            BY <2>1, <3>2, <3>3 DEF ServeReset
    <2> QED
        BY <2>1, <2>2, <2>3 DEF FreshStart
<1>4. ASSUME NEW t \in Tasks, call' = [call EXCEPT ![t] = Idle],
             requests' \subseteq requests, replies' \subseteq replies, UNCHANGED server
      PROVE  FreshStart'
    <2>1. call'[t] = Idle /\ \A u \in Tasks : u # t => call'[u] = call[u]
        BY <1>4, CallEnds
    <2>2. \A u \in Tasks : call'[u].op = "reset" => call'[u] = call[u]
        BY <2>1 DEF Idle
    <2> QED
        BY <1>4, <2>2 DEF FreshStart, server, counters, output
<1>5. ASSUME NEW t \in Tasks, NEW y \in replies, Takes(t, y)
      PROVE  FreshStart'
    BY <1>4, <1>5 DEF Takes
<1>6. ASSUME NEW t \in Tasks, Drops(t)
      PROVE  FreshStart'
    BY <1>4, <1>6 DEF Drops
<1> QED
    BY <1>0, <1>1, <1>2, <1>3, <1>5, <1>6, StepEffect

LEMMA DisciplineStep ==
    ASSUME ~Overlap, TypeOK, Wire, Discipline, [Next]_vars
    PROVE  Discipline'
BY OneAtATimeStep, StillCurrentStep, AbandonedStep, FreshStartStep DEF Discipline

LEMMA DisciplineHolds ==
    ASSUME ~Overlap
    PROVE  Spec => []Discipline
<1>1. Init => Discipline
    BY DEF Init, Discipline, OneAtATime, StillCurrent, Abandoned, FreshStart
<1>2. TypeOK /\ Wire /\ Discipline /\ [Next]_vars => Discipline'
    BY DisciplineStep
<1> QED
    BY <1>1, <1>2, WireHolds, PTL DEF Spec

-----------------------------------------------------------------------------
(***************************************************************************)
(* What becomes of the answers when the calls do not overlap.              *)
(***************************************************************************)

LEMMA TakesExactly ==
    ASSUME TypeOK, Wire, OneAtATime, NEW t \in Tasks, NEW y \in replies, Takes(t, y), NEW op
    PROVE  Granted(op)' <=> (Granted(op) /\ ~(y.ok /\ call[t].op = op))
<1>1. call'[t] = Idle /\ \A u \in Tasks : u # t => call'[u] = call[u]
    BY CallEnds DEF Takes
<1>2. replies' = replies \ {y} /\ y.id = call[t].id /\ call[t] # Idle
    BY DEF Takes
<1>3. /\ \A x \in replies : x.id # 0
      /\ \A x \in replies : x.id = call[t].id => x = y
    BY <1>2, TypeFacts DEF Wire, Numbers, Apart
<1>4. ASSUME Granted(op)'
      PROVE  Granted(op) /\ ~(y.ok /\ call[t].op = op)
    <2>1. PICK u \in Tasks, x \in replies' : x.id = call'[u].id /\ x.ok /\ call'[u].op = op
        BY <1>4 DEF Granted
    <2>2. u # t /\ x \in replies /\ call[u].id # 0
        BY <1>1, <1>2, <1>3, <2>1, IdleType
    <2>3. call[u].op = op /\ x.id = call[u].id /\ x.ok /\ call[u] # Idle
        BY <1>1, <2>1, <2>2, IdleType
    <2>4. call[t].op # op
        BY <1>2, <2>2, <2>3 DEF OneAtATime
    <2> QED
        BY <2>2, <2>3, <2>4 DEF Granted
<1>5. ASSUME Granted(op), ~(y.ok /\ call[t].op = op)
      PROVE  Granted(op)'
    <2>1. PICK u \in Tasks, x \in replies : x.id = call[u].id /\ x.ok /\ call[u].op = op
        BY <1>5 DEF Granted
    <2>2. u # t /\ x # y
        BY <1>2, <1>3, <1>5, <2>1 DEF Wire, Apart
    <2>3. x \in replies' /\ call'[u] = call[u]
        BY <1>1, <1>2, <2>2
    <2> QED
        BY <2>1, <2>3 DEF Granted
<1> QED
    BY <1>4, <1>5

LEMMA DropsExactly ==
    ASSUME TypeOK, Wire, NEW t \in Tasks, Drops(t), NEW op, op \notin doubtful'
    PROVE  Granted(op)' <=> Granted(op)
<1>1. call'[t] = Idle /\ \A u \in Tasks : u # t => call'[u] = call[u]
    BY CallEnds DEF Drops
<1>2. /\ \A y \in replies : y.id # call[t].id => y \in replies'
      /\ \A y \in replies : y.id = call[t].id /\ y.ok => call[t].op \in doubtful'
    BY DEF Drops
<1>3. ASSUME Granted(op)
      PROVE  Granted(op)'
    <2>1. PICK u \in Tasks, x \in replies : x.id = call[u].id /\ x.ok /\ call[u].op = op
        BY <1>3 DEF Granted
    <2>2. u # t
        BY <1>2, <2>1
    <2>3. x.id # 0
        BY TypeFacts DEF Wire, Numbers
    <2>4. x.id # call[t].id
        BY <2>1, <2>2, <2>3 DEF Wire, Apart
    <2> QED
        BY <1>1, <1>2, <2>1, <2>2, <2>4 DEF Granted
<1> QED
    BY <1>3, GrantedDrops

\* What is taken alone comes from the only call that may bring it.
LEMMA TakenAlone ==
    ASSUME TypeOK, Wire, OneAtATime, NEW t \in Tasks, NEW y \in replies, Takes(t, y), y.ok,
           NEW op, Granted(op)
    PROVE  op = call[t].op \/ {op, call[t].op} \subseteq {"push", "control", "pull"}
<1>1. PICK u \in Tasks, x \in replies : x.id = call[u].id /\ x.ok /\ call[u].op = op
    BY DEF Granted
<1>2. x.id # 0 /\ call[t] # Idle
    BY TypeFacts DEF Wire, Numbers, Takes
<1>3. call[u] # Idle
    BY <1>1, <1>2, IdleType
<1> QED
    BY <1>1, <1>2, <1>3 DEF OneAtATime

LEMMA ResetTaken ==
    ASSUME TypeOK, Wire, FreshStart, NEW t \in Tasks, NEW y \in replies, Takes(t, y), y.ok,
           call[t].op = "reset"
    PROVE  \/ doubtful' = doubtful
           \/ nextAudioSequence = 0 /\ serverRevision = None /\ nextVideoSequence = 0
BY DEF Takes, StillDoubtful, FreshStart

-----------------------------------------------------------------------------
(***************************************************************************)
(* The counters.                                                           *)
(***************************************************************************)

LEMMA AudioResponds ==
    ASSUME TypeOK, Wire, Discipline, AudioInStep,
           NEW r \in requests, NEW y \in Reply, Responds(r, y)
    PROVE  AudioInStep'
<1>0. OneAtATime /\ StillCurrent /\ Abandoned /\ r \in Request
    BY TypeFacts DEF Discipline
<1>1. /\ Serves(r, y) /\ audioSequence' = audioSequence /\ doubtful' = doubtful
    BY DEF Responds, sdk
<1>2. \A op : Granted(op)' <=> (Granted(op) \/ (Awaited(r) /\ y.ok /\ r.op = op))
    BY GrantedResponds
<1> SUFFICES ASSUME Certain({"push", "reset"})'
             PROVE  nextAudioSequence' = (IF Granted("push")' THEN audioSequence' + 1
                                          ELSE IF Granted("reset")' THEN 0 ELSE audioSequence')
    BY DEF AudioInStep
<1>3. "push" \notin doubtful /\ "reset" \notin doubtful
    BY <1>1 DEF Certain
<1>4. nextAudioSequence = (IF Granted("push") THEN audioSequence + 1
                           ELSE IF Granted("reset") THEN 0 ELSE audioSequence)
    BY <1>3 DEF AudioInStep, Certain
<1>5. r.op \in {"push", "reset"} => Awaited(r)
    BY <1>0, <1>3 DEF Abandoned
<1>6. Awaited(r) /\ r.op = "push" => ~Granted("push") /\ ~Granted("reset")
    BY <1>0, Lonely
<1>7. Awaited(r) /\ r.op = "reset" => ~Granted("push")
    BY <1>0, Lonely
<1>8. CASE ServePush(r) /\ y.ok
    <2>1. r.op = "push" /\ nextAudioSequence' = nextAudioSequence + 1
        BY <1>8 DEF ServePush
    <2>2. Granted("push")'
        BY <1>2, <1>5, <1>8, <2>1
    <2> QED
        BY <1>1, <1>4, <1>5, <1>6, <2>1, <2>2
<1>9. CASE ServeReset(r) /\ y.ok
    <2>1. r.op = "reset" /\ nextAudioSequence' = 0
        BY <1>9 DEF ServeReset
    <2>2. Granted("reset")' /\ ~Granted("push")'
        BY <1>2, <1>5, <1>7, <1>9, <2>1
    <2> QED
        BY <2>1, <2>2
<1>10. CASE /\ nextAudioSequence' = nextAudioSequence
            /\ ~(y.ok /\ r.op \in {"push", "reset"})
    <2>1. (Granted("push")' <=> Granted("push")) /\ (Granted("reset")' <=> Granted("reset"))
        BY <1>2, <1>10
    <2> QED
        BY <1>1, <1>4, <1>10, <2>1
<1>11. ASSUME ~(ServePush(r) /\ y.ok), ~(ServeReset(r) /\ y.ok)
       PROVE  /\ nextAudioSequence' = nextAudioSequence
              /\ ~(y.ok /\ r.op \in {"push", "reset"})
    BY <1>1, <1>11 DEF Serves, ServeControl, ServePull, ServeClose, server, counters
<1> QED
    BY <1>8, <1>9, <1>10, <1>11

LEMMA AudioTakes ==
    ASSUME TypeOK, Wire, Discipline, AudioInStep,
           NEW t \in Tasks, NEW y \in replies, Takes(t, y)
    PROVE  AudioInStep'
<1>0. OneAtATime /\ FreshStart
    BY DEF Discipline
<1>1. nextAudioSequence' = nextAudioSequence
    BY DEF Takes, server, counters
<1>2. \A op : Granted(op)' <=> (Granted(op) /\ ~(y.ok /\ call[t].op = op))
    BY <1>0, TakesExactly
<1>3. y.ok => Granted(call[t].op)
    BY GrantedTakes
<1>4. y.ok => (Granted("push") => call[t].op # "reset") /\ (Granted("reset") => call[t].op # "push")
    BY <1>0, TakenAlone
<1> SUFFICES ASSUME Certain({"push", "reset"})'
             PROVE  nextAudioSequence' = (IF Granted("push")' THEN audioSequence' + 1
                                          ELSE IF Granted("reset")' THEN 0 ELSE audioSequence')
    BY DEF AudioInStep
<1>5. doubtful' = doubtful =>
          nextAudioSequence = (IF Granted("push") THEN audioSequence + 1
                               ELSE IF Granted("reset") THEN 0 ELSE audioSequence)
    BY DEF AudioInStep, Certain
<1>6. CASE y.ok /\ call[t].op = "push"
    <2>1. doubtful' = doubtful /\ audioSequence' = audioSequence + 1
        BY <1>6 DEF Takes, AfterSuccess, StillDoubtful
    <2>2. Granted("push") /\ ~Granted("push")' /\ ~Granted("reset")'
        BY <1>2, <1>3, <1>4, <1>6
    <2> QED
        BY <1>1, <1>5, <2>1, <2>2
<1>7. CASE y.ok /\ call[t].op = "reset"
    <2>1. audioSequence' = 0
        BY <1>7 DEF Takes, AfterSuccess, Restarted
    <2>2. Granted("reset") /\ ~Granted("push") /\ ~Granted("push")' /\ ~Granted("reset")'
        BY <1>2, <1>3, <1>4, <1>7
    <2>3. nextAudioSequence = 0
        BY <1>0, <1>5, <1>7, <2>2, ResetTaken
    <2> QED
        BY <1>1, <2>1, <2>2, <2>3
<1>8. CASE ~(y.ok /\ call[t].op \in {"push", "reset"})
    <2>1. audioSequence' = audioSequence /\ doubtful' = doubtful
        BY <1>8 DEF Takes, AfterSuccess, StillDoubtful, sdk
    <2>2. (Granted("push")' <=> Granted("push")) /\ (Granted("reset")' <=> Granted("reset"))
        BY <1>2, <1>8
    <2> QED
        BY <1>1, <1>5, <2>1, <2>2
<1> QED
    BY <1>6, <1>7, <1>8

LEMMA AudioInStepStep ==
    ASSUME TypeOK, Wire, Discipline, AudioInStep, [Next]_vars
    PROVE  AudioInStep'
<1>0. Numbers /\ Apart
    BY DEF Wire
<1>1. CASE UNCHANGED vars
    BY <1>1 DEF AudioInStep, Granted, Certain, vars, sdk, wire, server, counters
<1>2. ASSUME NEW t \in Tasks, NEW r \in Request, Sends(t, r)
      PROVE  AudioInStep'
    <2>1. (Granted("push")' <=> Granted("push")) /\ (Granted("reset")' <=> Granted("reset"))
        BY <1>2, GrantedSends
    <2>2. /\ audioSequence' = audioSequence /\ nextAudioSequence' = nextAudioSequence
          /\ doubtful' = doubtful
        BY <1>2 DEF Sends, sdk, server, counters
    <2> QED
        BY <2>1, <2>2 DEF AudioInStep, Certain
<1>3. ASSUME NEW t \in Tasks, Drops(t)
      PROVE  AudioInStep'
    <2>1. /\ audioSequence' = audioSequence /\ nextAudioSequence' = nextAudioSequence
          /\ doubtful \subseteq doubtful'
        BY <1>3 DEF Drops, sdk, server, counters
    <2>2. Certain({"push", "reset"})' =>
              /\ Certain({"push", "reset"})
              /\ "push" \notin doubtful' /\ "reset" \notin doubtful'
        BY <2>1 DEF Certain
    <2>3. "push" \notin doubtful' => (Granted("push")' <=> Granted("push"))
        BY <1>3, DropsExactly
    <2>4. "reset" \notin doubtful' => (Granted("reset")' <=> Granted("reset"))
        BY <1>3, DropsExactly
    <2> QED
        BY <2>1, <2>2, <2>3, <2>4 DEF AudioInStep
<1> QED
    BY <1>0, <1>1, <1>2, <1>3, AudioResponds, AudioTakes, StepEffect

LEMMA RevisionType ==
    ASSUME TypeOK
    PROVE  ServerRevision \in Nat
BY TypeFacts DEF ServerRevision

LEMMA ControlResponds ==
    ASSUME TypeOK, Wire, Discipline, ControlInStep,
           NEW r \in requests, NEW y \in Reply, Responds(r, y)
    PROVE  ControlInStep'
<1>0. OneAtATime /\ StillCurrent /\ Abandoned /\ r \in Request
    BY TypeFacts DEF Discipline
<1>1. /\ Serves(r, y) /\ controlRevision' = controlRevision /\ doubtful' = doubtful
    BY DEF Responds, sdk
<1>2. \A op : Granted(op)' <=> (Granted(op) \/ (Awaited(r) /\ y.ok /\ r.op = op))
    BY GrantedResponds
<1> SUFFICES ASSUME Certain({"control", "reset"})'
             PROVE  ServerRevision' = (IF Granted("control")' THEN controlRevision' + 1
                                       ELSE IF Granted("reset")' THEN 0 ELSE controlRevision')
    BY DEF ControlInStep
<1>3. "control" \notin doubtful /\ "reset" \notin doubtful
    BY <1>1 DEF Certain
<1>4. ServerRevision = (IF Granted("control") THEN controlRevision + 1
                        ELSE IF Granted("reset") THEN 0 ELSE controlRevision)
    BY <1>3 DEF ControlInStep, Certain
<1>5. r.op \in {"control", "reset"} => Awaited(r)
    BY <1>0, <1>3 DEF Abandoned
<1>7. Awaited(r) /\ r.op = "reset" => ~Granted("control")
    BY <1>0, Lonely
<1>8. CASE ServeControl(r) /\ y.ok
    <2>1. r.op = "control" /\ serverRevision' = r.number
        BY <1>8 DEF ServeControl
    <2>2. r.number = controlRevision + 1 /\ r.number \in Nat
        <3>1. PICK t \in Tasks : call[t] = r
            BY <1>5, <2>1 DEF Awaited
        <3>2. call[t] # Idle
            BY <3>1, IdleType, TypeFacts DEF Wire, Numbers
        <3> QED
            BY <1>0, <2>1, <3>1, <3>2 DEF StillCurrent, Request
    <2>3. Granted("control")'
        BY <1>2, <1>5, <1>8, <2>1
    <2> QED
        BY <1>1, <2>1, <2>2, <2>3, TypeFacts DEF ServerRevision
<1>9. CASE ServeReset(r) /\ y.ok
    <2>1. r.op = "reset" /\ serverRevision' = None
        BY <1>9 DEF ServeReset
    <2>2. Granted("reset")' /\ ~Granted("control")'
        BY <1>2, <1>5, <1>7, <1>9, <2>1
    <2> QED
        BY <2>1, <2>2 DEF ServerRevision
<1>10. CASE /\ serverRevision' = serverRevision
            /\ ~(y.ok /\ r.op \in {"control", "reset"})
    <2>1. /\ Granted("control")' <=> Granted("control")
          /\ Granted("reset")' <=> Granted("reset")
        BY <1>2, <1>10
    <2>2. ServerRevision' = ServerRevision
        BY <1>10 DEF ServerRevision
    <2> QED
        BY <1>1, <1>4, <2>1, <2>2
<1>11. ASSUME ~(ServeControl(r) /\ y.ok), ~(ServeReset(r) /\ y.ok)
       PROVE  /\ serverRevision' = serverRevision
              /\ ~(y.ok /\ r.op \in {"control", "reset"})
    BY <1>1, <1>11 DEF Serves, ServePush, ServePull, ServeClose, server, counters
<1> QED
    BY <1>8, <1>9, <1>10, <1>11

LEMMA ControlTakes ==
    ASSUME TypeOK, Wire, Discipline, ControlInStep,
           NEW t \in Tasks, NEW y \in replies, Takes(t, y)
    PROVE  ControlInStep'
<1>0. OneAtATime /\ FreshStart /\ StillCurrent
    BY DEF Discipline
<1>1. ServerRevision' = ServerRevision
    BY DEF Takes, server, counters, ServerRevision
<1>2. \A op : Granted(op)' <=> (Granted(op) /\ ~(y.ok /\ call[t].op = op))
    BY <1>0, TakesExactly
<1>3. y.ok => Granted(call[t].op)
    BY GrantedTakes
<1>4. y.ok => /\ Granted("control") => call[t].op # "reset"
              /\ Granted("reset") => call[t].op # "control"
    BY <1>0, TakenAlone
<1> SUFFICES ASSUME Certain({"control", "reset"})'
             PROVE  ServerRevision' = (IF Granted("control")' THEN controlRevision' + 1
                                       ELSE IF Granted("reset")' THEN 0 ELSE controlRevision')
    BY DEF ControlInStep
<1>5. doubtful' = doubtful =>
          ServerRevision = (IF Granted("control") THEN controlRevision + 1
                            ELSE IF Granted("reset") THEN 0 ELSE controlRevision)
    BY DEF ControlInStep, Certain
<1>6. CASE y.ok /\ call[t].op = "control"
    <2>1. doubtful' = doubtful /\ controlRevision' = controlRevision + 1
        BY <1>0, <1>6 DEF Takes, AfterSuccess, StillDoubtful, StillCurrent
    <2>2. Granted("control") /\ ~Granted("control")' /\ ~Granted("reset")'
        BY <1>2, <1>3, <1>4, <1>6
    <2> QED
        BY <1>1, <1>5, <2>1, <2>2
<1>7. CASE y.ok /\ call[t].op = "reset"
    <2>1. controlRevision' = 0
        BY <1>7 DEF Takes, AfterSuccess, Restarted
    <2>2. Granted("reset") /\ ~Granted("control") /\ ~Granted("control")' /\ ~Granted("reset")'
        BY <1>2, <1>3, <1>4, <1>7
    <2>3. ServerRevision = 0
        BY <1>0, <1>5, <1>7, <2>2, ResetTaken DEF ServerRevision
    <2> QED
        BY <1>1, <2>1, <2>2, <2>3
<1>8. CASE ~(y.ok /\ call[t].op \in {"control", "reset"})
    <2>1. controlRevision' = controlRevision /\ doubtful' = doubtful
        BY <1>8 DEF Takes, AfterSuccess, StillDoubtful, sdk
    <2>2. /\ Granted("control")' <=> Granted("control")
          /\ Granted("reset")' <=> Granted("reset")
        BY <1>2, <1>8
    <2> QED
        BY <1>1, <1>5, <2>1, <2>2
<1> QED
    BY <1>6, <1>7, <1>8

LEMMA ControlInStepStep ==
    ASSUME TypeOK, Wire, Discipline, ControlInStep, [Next]_vars
    PROVE  ControlInStep'
<1>0. Numbers /\ Apart
    BY DEF Wire
<1>1. CASE UNCHANGED vars
    BY <1>1 DEF ControlInStep, ServerRevision, Granted, Certain, vars, sdk, wire, server, counters
<1>2. ASSUME NEW t \in Tasks, NEW r \in Request, Sends(t, r)
      PROVE  ControlInStep'
    <2>1. /\ Granted("control")' <=> Granted("control")
          /\ Granted("reset")' <=> Granted("reset")
        BY <1>2, GrantedSends
    <2>2. /\ controlRevision' = controlRevision /\ ServerRevision' = ServerRevision
          /\ doubtful' = doubtful
        BY <1>2 DEF Sends, sdk, server, counters, ServerRevision
    <2> QED
        BY <2>1, <2>2 DEF ControlInStep, Certain
<1>3. ASSUME NEW t \in Tasks, Drops(t)
      PROVE  ControlInStep'
    <2>1. /\ controlRevision' = controlRevision /\ ServerRevision' = ServerRevision
          /\ doubtful \subseteq doubtful'
        BY <1>3 DEF Drops, sdk, server, counters, ServerRevision
    <2>2. Certain({"control", "reset"})' =>
              /\ Certain({"control", "reset"})
              /\ "control" \notin doubtful' /\ "reset" \notin doubtful'
        BY <2>1 DEF Certain
    <2>3. "control" \notin doubtful' => (Granted("control")' <=> Granted("control"))
        BY <1>3, DropsExactly
    <2>4. "reset" \notin doubtful' => (Granted("reset")' <=> Granted("reset"))
        BY <1>3, DropsExactly
    <2> QED
        BY <2>1, <2>2, <2>3, <2>4 DEF ControlInStep
<1> QED
    BY <1>0, <1>1, <1>2, <1>3, ControlResponds, ControlTakes, StepEffect

LEMMA NothingGranted ==
    ASSUME TypeOK, Wire, InFlight = {}
    PROVE  \A op : ~Granted(op)
<1>1. \A t \in Tasks : call[t].id = 0
    BY IdleType DEF InFlight
<1>2. \A y \in replies : y.id # 0
    BY TypeFacts DEF Wire, Numbers
<1> QED
    BY <1>1, <1>2 DEF Granted

\* As long as the application does not overlap its calls, the SDK's counters are
\* the ones the server expects whenever no call is under way and no answer that
\* matters was missed since the last reset that was confirmed
\* (client.py:188-202, 212-216).
THEOREM InSyncCorrect ==
    ASSUME ~Overlap
    PROVE  Spec => []InSync
<1>1. Init => AudioInStep /\ ControlInStep
    BY DEF Init, AudioInStep, ControlInStep, ServerRevision, Granted
<1>2. TypeOK /\ Wire /\ Discipline /\ AudioInStep /\ ControlInStep /\ [Next]_vars
          => (AudioInStep /\ ControlInStep)'
    BY AudioInStepStep, ControlInStepStep
<1>3. TypeOK /\ Wire /\ AudioInStep /\ ControlInStep => InSync
    <2> SUFFICES ASSUME TypeOK, Wire, AudioInStep, ControlInStep, Quiet
                 PROVE  /\ Certain({"push", "reset"}) => audioSequence = nextAudioSequence
                        /\ Certain({"control", "reset"}) => controlRevision = ServerRevision
        BY DEF InSync, ServerRevision
    <2>1. ~Granted("push") /\ ~Granted("control") /\ ~Granted("reset")
        BY NothingGranted DEF Quiet
    <2> QED
        BY <2>1 DEF AudioInStep, ControlInStep
<1> QED
    BY <1>1, <1>2, <1>3, WireHolds, DisciplineHolds, PTL DEF Spec

-----------------------------------------------------------------------------
(***************************************************************************)
(* The chunks the server takes.                                            *)
(***************************************************************************)

LEMMA TakenResponds ==
    ASSUME TypeOK, Wire, Discipline, TakenInOrder,
           NEW r \in requests, NEW y \in Reply, Responds(r, y)
    PROVE  TakenInOrder'
<1>0. OneAtATime /\ StillCurrent /\ Abandoned /\ r \in Request
    BY TypeFacts DEF Discipline
<1>1. /\ Serves(r, y) /\ audioSequence' = audioSequence /\ position' = position
      /\ outlived' = outlived
    BY DEF Responds, sdk, app
<1>2. Granted("reset")' <=> (Granted("reset") \/ (Awaited(r) /\ y.ok /\ r.op = "reset"))
    BY GrantedResponds
<1> SUFFICES ASSUME ~outlived
             PROVE  /\ Granted("reset")' => accepted' = <<>>
                    /\ \A i \in 1..Len(accepted') :
                        /\ accepted'[i] <= position'
                        /\ accepted'[i] = position' => audioSequence' < nextAudioSequence'
                    /\ \A i, j \in 1..Len(accepted') : i < j => accepted'[i] < accepted'[j]
    BY <1>1 DEF TakenInOrder
<1>3. /\ Granted("reset") => accepted = <<>>
      /\ \A i \in 1..Len(accepted) :
          /\ accepted[i] <= position
          /\ accepted[i] = position => audioSequence < nextAudioSequence
      /\ \A i, j \in 1..Len(accepted) : i < j => accepted[i] < accepted[j]
    BY DEF TakenInOrder
<1>4. CASE ServePush(r) /\ y.ok
    <2>1. /\ r.op = "push" /\ nextAudioSequence' = nextAudioSequence + 1
          /\ accepted' = Append(accepted, r.chunk) /\ r.number = nextAudioSequence
        BY <1>4 DEF ServePush, ExpectsChunk
    <2>2. Awaited(r)
        BY <1>0, <2>1 DEF Abandoned
    <2>3. r.number = audioSequence /\ r.chunk = position
        <3>1. PICK t \in Tasks : call[t] = r
            BY <2>2 DEF Awaited
        <3>2. call[t] # Idle
            BY <3>1, IdleType, TypeFacts DEF Wire, Numbers
        <3> QED
            BY <1>0, <2>1, <3>1, <3>2 DEF StillCurrent
    <2>4. ~Granted("reset")'
        BY <1>0, <1>2, <2>1, <2>2, Lonely
    <2>5. \A i \in 1..Len(accepted) : accepted[i] \in Nat /\ accepted[i] < position
        <3> TAKE i \in 1..Len(accepted)
        <3>1. accepted[i] \in Nat
            BY TypeFacts
        <3>2. accepted[i] <= position /\ accepted[i] # position
            BY <1>3, <2>1, <2>3, TypeFacts
        <3> QED
            BY <3>1, <3>2, TypeFacts
    <2>6. /\ Len(accepted') = Len(accepted) + 1
          /\ accepted'[Len(accepted) + 1] = position
          /\ \A i \in 1..Len(accepted) : accepted'[i] = accepted[i]
        BY <2>1, <2>3, TypeFacts
    <2>7. \A i \in 1..Len(accepted') :
              /\ accepted'[i] <= position
              /\ accepted'[i] = position => audioSequence < nextAudioSequence'
        <3>1. /\ Len(accepted) \in Nat /\ position \in Nat
              /\ audioSequence \in Nat /\ nextAudioSequence = audioSequence
            BY <2>1, <2>3, TypeFacts
        <3> TAKE i \in 1..Len(accepted')
        <3>2. CASE i = Len(accepted) + 1
            BY <2>1, <2>6, <3>1, <3>2
        <3>3. CASE i # Len(accepted) + 1
            <4>1. i \in 1..Len(accepted)
                BY <2>6, <3>1, <3>3
            <4>2. accepted'[i] = accepted[i] /\ accepted[i] \in Nat /\ accepted[i] < position
                BY <2>5, <2>6, <4>1
            <4> QED
                BY <3>1, <4>2
        <3> QED
            BY <3>2, <3>3
    <2>8. \A i, j \in 1..Len(accepted') : i < j => accepted'[i] < accepted'[j]
        <3> SUFFICES ASSUME NEW i \in 1..Len(accepted'), NEW j \in 1..Len(accepted'), i < j
                     PROVE  accepted'[i] < accepted'[j]
            OBVIOUS
        <3>1. i \in 1..Len(accepted) /\ accepted'[i] = accepted[i]
            BY <2>6, TypeFacts
        <3>2. CASE j = Len(accepted) + 1
            BY <2>5, <2>6, <3>1, <3>2
        <3>3. CASE j # Len(accepted) + 1
            <4>1. Len(accepted) \in Nat
                BY TypeFacts
            <4>2. j \in 1..Len(accepted)
                BY <2>6, <3>3, <4>1
            <4>3. accepted'[j] = accepted[j]
                BY <2>6, <4>2
            <4> QED
                BY <1>3, <3>1, <4>2, <4>3
        <3> QED
            BY <3>2, <3>3
    <2> QED
        BY <1>1, <2>4, <2>7, <2>8
<1>5. CASE ServeReset(r)
    <2>1. accepted' = <<>>
        BY <1>5 DEF ServeReset
    <2> QED
        BY <2>1
<1>6. CASE ~(ServePush(r) /\ y.ok) /\ ~ServeReset(r)
    <2>1. accepted' = accepted /\ nextAudioSequence' = nextAudioSequence
        BY <1>1, <1>6 DEF Serves, ServeControl, ServePull, ServeClose, server, counters
    <2>2. ~(y.ok /\ r.op = "reset")
        BY <1>1, <1>6 DEF Serves, ServePush, ServeControl, ServePull, ServeClose
    <2> QED
        BY <1>1, <1>2, <1>3, <2>1, <2>2
<1> QED
    BY <1>4, <1>5, <1>6

LEMMA TakenTakes ==
    ASSUME TypeOK, Wire, Discipline, TakenInOrder,
           NEW t \in Tasks, NEW y \in replies, Takes(t, y)
    PROVE  TakenInOrder'
<1>1. /\ accepted' = accepted /\ nextAudioSequence' = nextAudioSequence
      /\ outlived' = outlived /\ call[t] # Idle
    BY DEF Takes, server, counters
<1>2. (Granted("reset")' => Granted("reset")) /\ (y.ok => Granted(call[t].op))
    BY GrantedTakes
<1> SUFFICES ASSUME ~outlived
             PROVE  /\ Granted("reset")' => accepted = <<>>
                    /\ \A i \in 1..Len(accepted) :
                        /\ accepted[i] <= position'
                        /\ accepted[i] = position' => audioSequence' < nextAudioSequence
                    /\ \A i, j \in 1..Len(accepted) : i < j => accepted[i] < accepted[j]
    BY <1>1 DEF TakenInOrder
<1>3. /\ Granted("reset") => accepted = <<>>
      /\ \A i \in 1..Len(accepted) :
          /\ accepted[i] <= position
          /\ accepted[i] = position => audioSequence < nextAudioSequence
      /\ \A i, j \in 1..Len(accepted) : i < j => accepted[i] < accepted[j]
    BY DEF TakenInOrder
<1>4. \A i \in 1..Len(accepted) : accepted[i] \in Nat
    BY TypeFacts
<1>5. CASE y.ok /\ call[t].op = "push"
    <2>1. position' = position + 1
        BY <1>1, <1>5 DEF Takes, Discipline, StillCurrent
    <2> QED
        BY <1>2, <1>3, <1>4, <2>1, TypeFacts
<1>6. CASE y.ok /\ call[t].op = "reset"
    BY <1>2, <1>3, <1>6
<1>7. CASE ~(y.ok /\ call[t].op \in {"push", "reset"})
    <2>1. position' = position /\ audioSequence' = audioSequence
        BY <1>7 DEF Takes, AfterSuccess, sdk, app
    <2> QED
        BY <1>2, <1>3, <2>1
<1> QED
    BY <1>5, <1>6, <1>7

LEMMA TakenInOrderStep ==
    ASSUME TypeOK, Wire, Discipline, TakenInOrder, [Next]_vars
    PROVE  TakenInOrder'
<1>0. Numbers /\ Apart
    BY DEF Wire
<1>1. ASSUME UNCHANGED <<accepted, position, audioSequence, nextAudioSequence>>,
             outlived => outlived', Granted("reset")' => Granted("reset")
      PROVE  TakenInOrder'
    BY <1>1 DEF TakenInOrder
<1>2. CASE UNCHANGED vars
    BY <1>1, <1>2 DEF Granted, vars, sdk, wire, server, counters, app
<1>3. ASSUME NEW t \in Tasks, NEW r \in Request, Sends(t, r)
      PROVE  TakenInOrder'
    BY <1>1, <1>3, GrantedSends DEF Sends, sdk, server, counters, app
<1>4. ASSUME NEW t \in Tasks, Drops(t)
      PROVE  TakenInOrder'
    BY <1>1, <1>4, GrantedDrops DEF Drops, sdk, server, counters, app
<1> QED
    BY <1>0, <1>2, <1>3, <1>4, TakenResponds, TakenTakes, StepEffect

\* A chunk that is pushed again when its push failed is never taken twice in one
\* epoch, nor out of order, as long as no push outlives its call
\* (client.py:188-196, backends/mock.py:43-46).
THEOREM AcceptedOnceCorrect ==
    ASSUME ~Overlap
    PROVE  Spec => []AcceptedOnce
<1>1. Init => TakenInOrder
    BY DEF Init, TakenInOrder, Granted
<1>2. TypeOK /\ Wire /\ Discipline /\ TakenInOrder /\ [Next]_vars => TakenInOrder'
    BY TakenInOrderStep
<1>3. TakenInOrder => AcceptedOnce
    BY DEF TakenInOrder, AcceptedOnce
<1> QED
    BY <1>1, <1>2, <1>3, WireHolds, DisciplineHolds, PTL DEF Spec

-----------------------------------------------------------------------------
(***************************************************************************)
(* The frames the application is given.                                    *)
(***************************************************************************)

LEMMA PrecedesTransitive ==
    ASSUME NEW f \in Frame, NEW g \in Frame, NEW h \in Frame, Precedes(f, g), Precedes(g, h)
    PROVE  Precedes(f, h)
BY DEF Precedes, Frame

LEMMA NextFrameGrows ==
    ASSUME TypeOK, NEW r \in requests, NEW y, Serves(r, y)
    PROVE  /\ NextFrame' \in Frame
           /\ NextFrame' = NextFrame \/ Precedes(NextFrame, NextFrame')
           /\ ServePull(r) => Precedes(NextFrame, NextFrame')
<1>1. r \in Request
    BY TypeFacts
<1>2. epoch' \in Nat /\ nextVideoSequence' \in Nat
    BY <1>1, ServerType
<1>3. NextFrame' = [epoch |-> epoch', sequence |-> nextVideoSequence']
    BY DEF NextFrame
<1>4. NextFrame' \in Frame
    BY <1>2, <1>3 DEF Frame
<1>5. CASE ServePull(r)
    <2>1. epoch' = epoch /\ nextVideoSequence' = nextVideoSequence + 1
        BY <1>5 DEF ServePull
    <2> QED
        BY <1>3, <1>4, <2>1, TypeFacts DEF NextFrame, Precedes
<1>6. CASE ServeReset(r)
    <2>1. epoch' = epoch + 1 /\ ~ServePull(r)
        BY <1>6 DEF ServeReset, ServePull, NextEpoch
    <2> QED
        BY <1>3, <1>4, <2>1, TypeFacts DEF NextFrame, Precedes
<1>7. CASE ~ServePull(r) /\ ~ServeReset(r)
    <2>1. epoch' = epoch /\ nextVideoSequence' = nextVideoSequence
        BY <1>7 DEF Serves, ServePush, ServeControl, ServeClose, server, output
    <2> QED
        BY <1>3, <1>4, <1>7, <2>1 DEF NextFrame
<1> QED
    BY <1>5, <1>6, <1>7

LEMMA GivenResponds ==
    ASSUME TypeOK, Wire, GivenInOrder, NEW r \in requests, NEW y \in Reply, Responds(r, y)
    PROVE  GivenInOrder'
<1>1. /\ Serves(r, y) /\ y.id = r.id /\ call' = call /\ received' = received
      /\ replies' \subseteq replies \cup {y}
    BY DEF Responds, app
<1>2. /\ NextFrame \in Frame /\ NextFrame' \in Frame
      /\ NextFrame' = NextFrame \/ Precedes(NextFrame, NextFrame')
    BY <1>1, NextFrameGrows, FrameType
<1>3. \A f \in Frame : Precedes(f, NextFrame) => Precedes(f, NextFrame')
    BY <1>2, PrecedesTransitive
<1>4. \A i \in 1..Len(received) : received[i] \in Frame
    BY TypeFacts
<1>5. FramesInOrder'
    BY <1>1 DEF GivenInOrder, FramesInOrder
<1>6. \A i \in 1..Len(received) : Precedes(received[i], NextFrame')
    BY <1>3, <1>4 DEF GivenInOrder
<1>7. ASSUME NEW t \in Tasks, NEW x \in replies, x.id = call[t].id, x.ok, call[t].op = "pull"
      PROVE  /\ Precedes(x.frame, NextFrame')
             /\ \A i \in 1..Len(received) : Precedes(received[i], x.frame)
    <2>1. x.frame \in Frame
        BY <1>7 DEF Wire, Matches
    <2> QED
        BY <1>3, <1>7, <2>1 DEF GivenInOrder
<1>8. ASSUME NEW t \in Tasks, y.id = call[t].id, y.ok, call[t].op = "pull"
      PROVE  /\ Precedes(y.frame, NextFrame')
             /\ \A i \in 1..Len(received) : Precedes(received[i], y.frame)
    <2>1. r.op = "pull"
        BY <1>8, AnswerGiven
    <2>2. ServePull(r) /\ y.frame = NextFrame
        BY <1>1, <1>8, <2>1 DEF Serves, ServePush, ServeControl, ServeReset, ServeClose
    <2>3. Precedes(NextFrame, NextFrame')
        BY <1>1, <2>2, NextFrameGrows
    <2> QED
        BY <2>2, <2>3 DEF GivenInOrder
<1>9. \A t \in Tasks, x \in replies' : x.id = call'[t].id /\ x.ok /\ call'[t].op = "pull" =>
          /\ Precedes(x.frame, NextFrame')
          /\ \A i \in 1..Len(received') : Precedes(received'[i], x.frame)
    BY <1>1, <1>7, <1>8
<1> QED
    BY <1>1, <1>5, <1>6, <1>9 DEF GivenInOrder

LEMMA GivenTakes ==
    ASSUME TypeOK, Wire, OneAtATime, GivenInOrder,
           NEW t \in Tasks, NEW y \in replies, Takes(t, y)
    PROVE  GivenInOrder'
<1>1. call'[t] = Idle /\ \A u \in Tasks : u # t => call'[u] = call[u]
    BY CallEnds DEF Takes
<1>2. /\ NextFrame' = NextFrame /\ y.id = call[t].id /\ call[t] # Idle
      /\ replies' \subseteq replies
    BY DEF Takes, server, output, NextFrame
<1>3. \A u \in Tasks, x \in replies' : x.id = call'[u].id =>
          u # t /\ call'[u] = call[u] /\ call[u] # Idle
    <2>1. \A x \in replies' : x.id # 0
        BY <1>2, TypeFacts DEF Wire, Numbers
    <2> QED
        BY <1>1, <2>1, IdleType
<1>4. CASE y.ok /\ call[t].op = "pull"
    <2>0. Len(received) \in Nat
        BY TypeFacts
    <2>1. received' = Append(received, y.frame)
        BY <1>4 DEF Takes
    <2>2. y.frame \in Frame /\ Precedes(y.frame, NextFrame)
          /\ \A i \in 1..Len(received) : Precedes(received[i], y.frame)
        BY <1>2, <1>4 DEF GivenInOrder, Wire, Matches
    <2>3. /\ Len(received') = Len(received) + 1
          /\ received'[Len(received) + 1] = y.frame
          /\ \A i \in 1..Len(received) : received'[i] = received[i]
        BY <2>1, <2>2, TypeFacts
    <2>4. \A i \in 1..Len(received') : Precedes(received'[i], NextFrame')
        <3> TAKE i \in 1..Len(received')
        <3>1. CASE i = Len(received) + 1
            BY <1>2, <2>2, <2>3, <3>1
        <3>2. CASE i # Len(received) + 1
            <4>1. i \in 1..Len(received) /\ received'[i] = received[i]
                BY <2>0, <2>3, <3>2
            <4> QED
                BY <1>2, <4>1 DEF GivenInOrder
        <3> QED
            BY <3>1, <3>2
    <2>5. \A u \in Tasks, x \in replies' : x.id = call'[u].id => call'[u].op # "pull"
        BY <1>2, <1>3, <1>4 DEF OneAtATime
    <2>6. FramesInOrder'
        <3> SUFFICES ASSUME NEW i \in 1..Len(received'), NEW j \in 1..Len(received'), i < j
                     PROVE  Precedes(received'[i], received'[j])
            BY DEF FramesInOrder, Precedes
        <3>1. i \in 1..Len(received) /\ received'[i] = received[i]
            BY <2>0, <2>3
        <3>2. CASE j = Len(received) + 1
            BY <2>2, <2>3, <3>1, <3>2
        <3>3. CASE j # Len(received) + 1
            <4>1. j \in 1..Len(received) /\ received'[j] = received[j]
                BY <2>0, <2>3, <3>3
            <4> QED
                BY <3>1, <4>1 DEF GivenInOrder, FramesInOrder
        <3> QED
            BY <3>2, <3>3
    <2> QED
        BY <2>4, <2>5, <2>6 DEF GivenInOrder
<1>5. CASE ~(y.ok /\ call[t].op = "pull")
    <2>1. received' = received
        BY <1>5 DEF Takes, app
    <2>2. FramesInOrder'
        BY <2>1 DEF GivenInOrder, FramesInOrder
    <2>3. \A i \in 1..Len(received') : Precedes(received'[i], NextFrame')
        BY <1>2, <2>1 DEF GivenInOrder
    <2>4. \A u \in Tasks, x \in replies' : x.id = call'[u].id /\ x.ok /\ call'[u].op = "pull" =>
              /\ Precedes(x.frame, NextFrame')
              /\ \A i \in 1..Len(received') : Precedes(received'[i], x.frame)
        BY <1>2, <1>3, <2>1 DEF GivenInOrder
    <2> QED
        BY <2>2, <2>3, <2>4 DEF GivenInOrder
<1> QED
    BY <1>4, <1>5

LEMMA GivenInOrderStep ==
    ASSUME TypeOK, Wire, OneAtATime, GivenInOrder, [Next]_vars
    PROVE  GivenInOrder'
<1>0. Numbers /\ Apart
    BY DEF Wire
<1>1. ASSUME UNCHANGED <<received, epoch, nextVideoSequence>>,
             \A u \in Tasks, x \in replies' :
                 x.id = call'[u].id /\ x.ok /\ call'[u].op = "pull" =>
                     x \in replies /\ call[u] = call'[u]
      PROVE  GivenInOrder'
    <2>1. NextFrame' = NextFrame
        BY <1>1 DEF NextFrame
    <2>2. FramesInOrder'
        BY <1>1 DEF GivenInOrder, FramesInOrder
    <2>3. \A i \in 1..Len(received') : Precedes(received'[i], NextFrame')
        BY <1>1, <2>1 DEF GivenInOrder
    <2>4. \A u \in Tasks, x \in replies' : x.id = call'[u].id /\ x.ok /\ call'[u].op = "pull" =>
              /\ Precedes(x.frame, NextFrame')
              /\ \A i \in 1..Len(received') : Precedes(received'[i], x.frame)
        BY <1>1, <2>1 DEF GivenInOrder
    <2> QED
        BY <2>2, <2>3, <2>4 DEF GivenInOrder
<1>2. CASE UNCHANGED vars
    BY <1>1, <1>2 DEF vars, wire, server, output, app
<1>3. ASSUME NEW t \in Tasks, NEW r \in Request, Sends(t, r)
      PROVE  GivenInOrder'
    <2>1. call'[t] = r /\ \A u \in Tasks : u # t => call'[u] = call[u]
        BY <1>3, CallBegins
    <2>2. r.id = calls + 1 /\ replies' = replies
          /\ UNCHANGED <<received, epoch, nextVideoSequence>>
        BY <1>3 DEF Sends, server, output, app
    <2>3. \A x \in replies : x.id # r.id
        BY <1>0, <2>2, TypeFacts DEF Numbers
    <2> QED
        BY <1>1, <2>1, <2>2, <2>3
<1>4. ASSUME NEW t \in Tasks, Drops(t)
      PROVE  GivenInOrder'
    <2>1. call'[t] = Idle /\ \A u \in Tasks : u # t => call'[u] = call[u]
        BY <1>4, CallEnds DEF Drops
    <2>2. replies' \subseteq replies /\ UNCHANGED <<received, epoch, nextVideoSequence>>
        BY <1>4 DEF Drops, server, output, app
    <2> QED
        BY <1>1, <2>1, <2>2 DEF Idle
<1> QED
    BY <1>0, <1>2, <1>3, <1>4, GivenResponds, GivenTakes, StepEffect

\* An application that pulls one frame at a time is never given a frame twice,
\* nor one from before a frame it already has (client.py:86-104,
\* http_api.py:100-115).
THEOREM FramesInOrderCorrect ==
    ASSUME ~Overlap
    PROVE  Spec => []FramesInOrder
<1>1. Init => GivenInOrder
    BY DEF Init, GivenInOrder, FramesInOrder
<1>2. TypeOK /\ Wire /\ Discipline /\ GivenInOrder /\ [Next]_vars => GivenInOrder'
    BY GivenInOrderStep DEF Discipline
<1>3. GivenInOrder => FramesInOrder
    BY DEF GivenInOrder
<1> QED
    BY <1>1, <1>2, <1>3, WireHolds, DisciplineHolds, PTL DEF Spec

LEMMA MissingResponds ==
    ASSUME TypeOK, Wire, Abandoned, NoneMissing,
           NEW r \in requests, NEW y \in Reply, Responds(r, y)
    PROVE  NoneMissing'
<1>1. /\ Serves(r, y) /\ y.id = r.id /\ call' = call /\ received' = received
      /\ doubtful' = doubtful /\ replies \subseteq replies'
      /\ Awaited(r) => y \in replies'
    BY DEF Responds, app
<1> SUFFICES ASSUME Certain({"pull", "reset"}), NEW n \in 0..nextVideoSequence' - 1
             PROVE  Reaches(n)'
    BY <1>1 DEF NoneMissing, Certain
<1>2. \A m \in 0..nextVideoSequence - 1 : Reaches(m)
    BY DEF NoneMissing
<1>3. ASSUME Reaches(n), epoch' = epoch
      PROVE  Reaches(n)'
    BY <1>1, <1>3 DEF Reaches
<1>4. CASE ServePull(r)
    <2>1. /\ r.op = "pull" /\ epoch' = epoch /\ nextVideoSequence' = nextVideoSequence + 1
        BY <1>4 DEF ServePull
    <2>2. Awaited(r)
        BY <2>1 DEF Abandoned, Certain
    <2>3. PICK t \in Tasks : call[t] = r
        BY <2>2 DEF Awaited
    <2>4. y.ok /\ y.frame = [epoch |-> epoch, sequence |-> nextVideoSequence]
        <3>1. ~UNCHANGED server
            BY <2>1, TypeFacts DEF server, output
        <3> QED
            BY <1>1, <2>1, <3>1 DEF Serves, ServePush, ServeControl, ServeReset, ServeClose,
                                     NextFrame
    <2>5. CASE n = nextVideoSequence
        <3>1. y \in replies' /\ y.id = call'[t].id /\ y.ok /\ call'[t].op = "pull"
              /\ y.frame = [epoch |-> epoch', sequence |-> n]
            BY <1>1, <2>1, <2>2, <2>3, <2>4, <2>5
        <3> QED
            BY <3>1 DEF Reaches
    <2>6. CASE n # nextVideoSequence
        <3>1. n \in 0..nextVideoSequence - 1
            BY <2>1, <2>6, TypeFacts
        <3> QED
            BY <1>2, <1>3, <2>1, <3>1
    <2> QED
        BY <2>5, <2>6
<1>5. CASE ServeReset(r)
    <2>1. nextVideoSequence' = 0
        BY <1>5 DEF ServeReset
    <2> QED
        BY <2>1
<1>6. CASE ~ServePull(r) /\ ~ServeReset(r)
    <2>1. epoch' = epoch /\ nextVideoSequence' = nextVideoSequence
        BY <1>1, <1>6 DEF Serves, ServePush, ServeControl, ServeClose, server, output
    <2> QED
        BY <1>2, <1>3, <2>1
<1> QED
    BY <1>4, <1>5, <1>6

LEMMA MissingTakes ==
    ASSUME TypeOK, Wire, FreshStart, NoneMissing,
           NEW t \in Tasks, NEW y \in replies, Takes(t, y)
    PROVE  NoneMissing'
<1>1. call'[t] = Idle /\ \A u \in Tasks : u # t => call'[u] = call[u]
    BY CallEnds DEF Takes
<1>2. /\ epoch' = epoch /\ nextVideoSequence' = nextVideoSequence
      /\ replies' = replies \ {y} /\ y.id = call[t].id
    BY DEF Takes, server, output
<1> SUFFICES ASSUME Certain({"pull", "reset"})', NEW n \in 0..nextVideoSequence - 1
             PROVE  Reaches(n)'
    BY <1>2 DEF NoneMissing
<1>3. doubtful' = doubtful
    <2>1. n \in 0..nextVideoSequence - 1 => nextVideoSequence # 0
        OBVIOUS
    <2>2. nextVideoSequence # 0
        BY <2>1
    <2> QED
        BY <2>2 DEF Takes, StillDoubtful, FreshStart
<1>4. Reaches(n)
    BY <1>3 DEF NoneMissing, Certain
<1>5. ASSUME NEW i \in 1..Len(received), received[i] = [epoch |-> epoch, sequence |-> n]
      PROVE  Reaches(n)'
    <2>1. i \in 1..Len(received') /\ received'[i] = received[i]
        <3>1. CASE y.ok /\ call[t].op = "pull"
            <4>1. received' = Append(received, y.frame) /\ y.frame \in Frame
                BY <1>2, <3>1 DEF Takes, Wire, Matches
            <4>2. received \in Seq(Frame) /\ Len(received) \in Nat
                BY TypeFacts
            <4> QED
                BY <4>1, <4>2
        <3>2. CASE ~(y.ok /\ call[t].op = "pull")
            BY <3>2 DEF Takes, app
        <3> QED
            BY <3>1, <3>2
    <2> QED
        BY <1>2, <1>5, <2>1 DEF Reaches
<1>6. ASSUME NEW u \in Tasks, NEW x \in replies, x.id = call[u].id, x.ok, call[u].op = "pull",
             x.frame = [epoch |-> epoch, sequence |-> n]
      PROVE  Reaches(n)'
    <2>1. x.id # 0
        BY TypeFacts DEF Wire, Numbers
    <2>2. CASE u = t
        <3>1. x = y
            BY <1>2, <1>6, <2>2 DEF Wire, Apart
        <3>2. received' = Append(received, x.frame) /\ x.frame \in Frame
            BY <1>6, <2>2, <3>1 DEF Takes, Wire, Matches
        <3>3. received \in Seq(Frame) /\ Len(received) \in Nat
            BY TypeFacts
        <3>4. Len(received) + 1 \in 1..Len(received') /\ received'[Len(received) + 1] = x.frame
            BY <3>2, <3>3
        <3> QED
            BY <1>2, <1>6, <3>4 DEF Reaches
    <2>3. CASE u # t
        <3>1. x # y
            BY <1>2, <1>6, <2>1, <2>3 DEF Wire, Apart
        <3>2. x \in replies' /\ call'[u] = call[u]
            BY <1>1, <1>2, <2>3, <3>1
        <3> QED
            BY <1>2, <1>6, <3>2 DEF Reaches
    <2> QED
        BY <2>2, <2>3
<1> QED
    BY <1>4, <1>5, <1>6 DEF Reaches

LEMMA NoneMissingStep ==
    ASSUME TypeOK, Wire, Discipline, NoneMissing, [Next]_vars
    PROVE  NoneMissing'
<1>0. Numbers /\ Apart /\ FreshStart /\ Abandoned
    BY DEF Wire, Discipline
<1>1. CASE UNCHANGED vars
    BY <1>1 DEF NoneMissing, Reaches, Certain, vars, wire, server, output, app
<1>2. ASSUME NEW t \in Tasks, NEW r \in Request, Sends(t, r)
      PROVE  NoneMissing'
    <2>1. call'[t] = r /\ \A u \in Tasks : u # t => call'[u] = call[u]
        BY <1>2, CallBegins
    <2>2. /\ call[t] = Idle /\ replies' = replies /\ doubtful' = doubtful
          /\ UNCHANGED <<received, epoch, nextVideoSequence>>
        BY <1>2 DEF Sends, server, output, app
    <2>3. \A u \in Tasks : call[u].op = "pull" => call'[u] = call[u]
        BY <2>1, <2>2 DEF Idle
    <2>4. \A n : Reaches(n) => Reaches(n)'
        BY <2>2, <2>3 DEF Reaches
    <2> QED
        BY <2>2, <2>4 DEF NoneMissing, Certain
<1>3. ASSUME NEW t \in Tasks, Drops(t)
      PROVE  NoneMissing'
    <2>1. call'[t] = Idle /\ \A u \in Tasks : u # t => call'[u] = call[u]
        BY <1>3, CallEnds DEF Drops
    <2>2. /\ doubtful \subseteq doubtful'
          /\ UNCHANGED <<received, epoch, nextVideoSequence>>
          /\ \A y \in replies : y.id # call[t].id => y \in replies'
          /\ \A y \in replies : y.id = call[t].id /\ y.ok => call[t].op \in doubtful'
        BY <1>3 DEF Drops, server, output, app
    <2> SUFFICES ASSUME Certain({"pull", "reset"})', NEW n, Reaches(n)
                 PROVE  Reaches(n)'
        BY <2>2 DEF NoneMissing, Certain
    <2>3. ASSUME NEW u \in Tasks, NEW x \in replies, x.id = call[u].id, x.ok,
                 call[u].op = "pull", x.frame = [epoch |-> epoch, sequence |-> n]
          PROVE  Reaches(n)'
        <3>1. u # t
            BY <2>2, <2>3 DEF Certain
        <3>2. x.id # 0
            BY TypeFacts DEF Wire, Numbers
        <3>3. x.id # call[t].id
            BY <1>0, <2>3, <3>1, <3>2 DEF Apart
        <3>4. x \in replies' /\ call'[u] = call[u]
            BY <2>1, <2>2, <3>1, <3>3
        <3> QED
            BY <2>2, <2>3, <3>4 DEF Reaches
    <2>4. ASSUME NEW i \in 1..Len(received), received[i] = [epoch |-> epoch, sequence |-> n]
          PROVE  Reaches(n)'
        BY <2>2, <2>4 DEF Reaches
    <2> QED
        BY <2>3, <2>4 DEF Reaches
<1> QED
    BY <1>0, <1>1, <1>2, <1>3, MissingResponds, MissingTakes, StepEffect

\* Unless the answer of a pull was missed since the last reset that was
\* confirmed, the application has every frame the server has taken out of this
\* epoch (http_api.py:104-115, client.py:94-104).
THEOREM FramesCompleteCorrect ==
    ASSUME ~Overlap
    PROVE  Spec => []FramesComplete
<1>1. Init => NoneMissing
    BY DEF Init, NoneMissing
<1>2. TypeOK /\ Wire /\ Discipline /\ NoneMissing /\ [Next]_vars => NoneMissing'
    BY NoneMissingStep
<1>3. TypeOK /\ Wire /\ NoneMissing => FramesComplete
    <2> SUFFICES ASSUME TypeOK, Wire, NoneMissing, Quiet, Certain({"pull", "reset"}),
                        NEW n \in 0..nextVideoSequence - 1
                 PROVE  \E i \in 1..Len(received) :
                            received[i] = [epoch |-> epoch, sequence |-> n]
        BY DEF FramesComplete
    <2>1. ~Granted("pull")
        BY NothingGranted DEF Quiet
    <2>2. Reaches(n)
        BY DEF NoneMissing
    <2> QED
        BY <2>1, <2>2 DEF Reaches, Granted
<1> QED
    BY <1>1, <1>2, <1>3, WireHolds, DisciplineHolds, PTL DEF Spec

-----------------------------------------------------------------------------
(***************************************************************************)
(* The contract of a backend, seen through the network.  A frame that a    *)
(* pull took is in the hands of that pull until the application has it,    *)
(* for ever if the answer is lost; nothing here asks for calls that do not *)
(* overlap.                                                                *)
(***************************************************************************)

PullReplies ==
    {y \in replies : y.ok /\ \E t \in Tasks : y.id = call[t].id /\ call[t].op = "pull"}

\* A frame on its way has been taken, is not with the application yet, and is on
\* its way once.
Given ==
    /\ \A f \in taken : Precedes(f, NextFrame)
    /\ Returned \subseteq taken
    /\ \A y \in PullReplies : y.frame \in taken \ Returned
    /\ \A x, y \in PullReplies : x.frame = y.frame => x = y

LEMMA NotBeforeItself ==
    ASSUME NEW f \in Frame
    PROVE  ~Precedes(f, f)
BY DEF Precedes, Frame

LEMMA NextIsNew ==
    ASSUME TypeOK, Given
    PROVE  NextFrame \notin taken
BY FrameType, NotBeforeItself DEF Given

LEMMA PullRepliesSends ==
    ASSUME TypeOK, Wire, NEW t \in Tasks, NEW r \in Request, Sends(t, r)
    PROVE  PullReplies' \subseteq PullReplies
<1>1. r.id = calls + 1 /\ replies' = replies /\ call' = [call EXCEPT ![t] = r]
    BY DEF Sends
<1>2. \A y \in replies : y.id # r.id
    BY <1>1, TypeFacts DEF Wire, Numbers
<1>3. call'[t] = r /\ \A u \in Tasks : u # t => call'[u] = call[u]
    BY <1>1, CallBegins
<1> QED
    BY <1>1, <1>2, <1>3 DEF PullReplies

LEMMA PullRepliesEnds ==
    ASSUME TypeOK, Wire, NEW t \in Tasks, call' = [call EXCEPT ![t] = Idle],
           replies' \subseteq replies
    PROVE  PullReplies' \subseteq PullReplies
<1>1. call'[t] = Idle /\ \A u \in Tasks : u # t => call'[u] = call[u]
    BY CallEnds
<1>2. \A y \in replies : y.id # Idle.id
    BY IdleType, TypeFacts DEF Wire, Numbers
<1> QED
    BY <1>1, <1>2 DEF PullReplies

LEMMA GivenServed ==
    ASSUME TypeOK, Wire, Given, NEW r \in requests, NEW y \in Reply, Responds(r, y)
    PROVE  Given'
<1>1. /\ Serves(r, y) /\ call' = call /\ received' = received
      /\ replies' \subseteq replies \cup {y}
    BY DEF Responds, app
<1>2. Returned' = Returned
    BY <1>1 DEF Returned
<1>3. /\ NextFrame \in Frame /\ NextFrame' \in Frame
      /\ NextFrame' = NextFrame \/ Precedes(NextFrame, NextFrame')
    BY <1>1, NextFrameGrows, FrameType
<1>4. \A f \in Frame : Precedes(f, NextFrame) => Precedes(f, NextFrame')
    BY <1>3, PrecedesTransitive
<1>5. \A f \in taken : Precedes(f, NextFrame')
    BY <1>4, TypeFacts DEF Given
<1>6. CASE ServePull(r)
    <2>1. taken' = taken \cup {NextFrame} /\ Precedes(NextFrame, NextFrame')
        BY <1>1, <1>6, NextFrameGrows DEF ServePull
    <2>2. y.frame = NextFrame
        <3>1. nextVideoSequence' # nextVideoSequence /\ r.op = "pull"
            BY <1>6, TypeFacts DEF ServePull
        <3> QED
            BY <1>1, <3>1
            DEF Serves, ServePush, ServeControl, ServeReset, ServeClose, server, output
    <2>3. PullReplies' \subseteq PullReplies \cup {y}
        BY <1>1 DEF PullReplies
    <2>4. NextFrame \notin taken
        BY NextIsNew
    <2>5. \A x \in PullReplies : x.frame \in taken /\ x.frame # NextFrame
        BY <2>4 DEF Given
    <2>6. \A x \in PullReplies' : x.frame \in taken' \ Returned
        BY <2>1, <2>2, <2>3, <2>4, <2>5 DEF Given
    <2>7. \A x, z \in PullReplies' : x.frame = z.frame => x = z
        BY <2>2, <2>3, <2>5 DEF Given
    <2> QED
        BY <1>2, <1>5, <2>1, <2>6, <2>7 DEF Given
<1>7. CASE ~ServePull(r)
    <2>1. taken' = taken
        BY <1>1, <1>7 DEF Serves, ServePush, ServeControl, ServeReset, ServeClose, server, output
    <2>2. ASSUME y \in PullReplies'
          PROVE  FALSE
        <3>1. PICK t \in Tasks : y.id = call[t].id /\ call[t].op = "pull" /\ y.ok
            BY <1>1, <2>2 DEF PullReplies
        <3>2. r.op = "pull"
            BY <3>1, AnswerGiven
        <3> QED
            BY <1>1, <1>7, <3>1, <3>2 DEF Serves, ServePush, ServeControl, ServeReset, ServeClose
    <2>3. PullReplies' \subseteq PullReplies
        BY <1>1, <2>2 DEF PullReplies
    <2> QED
        BY <1>2, <1>5, <2>1, <2>3 DEF Given
<1> QED
    BY <1>6, <1>7

\* What the application has after an answer.
LEMMA ReturnedAfter ==
    ASSUME TypeOK, Wire, NEW t \in Tasks, NEW y \in replies, Takes(t, y)
    PROVE  IF y.ok /\ call[t].op = "pull"
           THEN Returned' = Returned \cup {y.frame} /\ y \in PullReplies
           ELSE Returned' = Returned
<1>1. CASE y.ok /\ call[t].op = "pull"
    <2>1. received' = Append(received, y.frame) /\ y \in PullReplies
        BY <1>1 DEF Takes, PullReplies
    <2>2. y.frame \in Frame
        BY <1>1 DEF Wire, Matches, Takes
    <2>3. /\ Len(received') = Len(received) + 1
          /\ \A i \in 1..Len(received) : received'[i] = received[i]
          /\ received'[Len(received) + 1] = y.frame
        BY <2>1, <2>2, TypeFacts
    <2>4. 1..(Len(received) + 1) = 1..Len(received) \cup {Len(received) + 1}
        BY TypeFacts
    <2> QED
        BY <1>1, <2>1, <2>3, <2>4 DEF Returned
<1>2. CASE ~(y.ok /\ call[t].op = "pull")
    <2>1. received' = received
        BY <1>2 DEF Takes, app
    <2> QED
        BY <1>2, <2>1 DEF Returned
<1> QED
    BY <1>1, <1>2

LEMMA GivenReceived ==
    ASSUME TypeOK, Wire, Given, NEW t \in Tasks, NEW y \in replies, Takes(t, y)
    PROVE  Given'
<1>1. /\ taken' = taken /\ NextFrame' = NextFrame
      /\ call' = [call EXCEPT ![t] = Idle] /\ replies' = replies \ {y}
    BY DEF Takes, server, output, NextFrame
<1>2. PullReplies' \subseteq PullReplies /\ y \notin PullReplies'
    BY <1>1, PullRepliesEnds DEF PullReplies
<1>3. CASE y.ok /\ call[t].op = "pull"
    <2>1. Returned' = Returned \cup {y.frame} /\ y \in PullReplies
        BY <1>3, ReturnedAfter
    <2>2. \A x \in PullReplies' : x.frame # y.frame
        BY <1>2, <2>1 DEF Given
    <2> QED
        BY <1>1, <1>2, <2>1, <2>2 DEF Given
<1>4. CASE ~(y.ok /\ call[t].op = "pull")
    <2>1. Returned' = Returned
        BY <1>4, ReturnedAfter
    <2> QED
        BY <1>1, <1>2, <2>1 DEF Given
<1> QED
    BY <1>3, <1>4

LEMMA GivenStep ==
    ASSUME TypeOK, Wire, Given, [Next]_vars
    PROVE  Given'
<1>0. TypeOK /\ Numbers /\ Apart
    BY DEF Wire
<1>a. ASSUME UNCHANGED <<server, received>>, PullReplies' \subseteq PullReplies
      PROVE  Given'
    <2>1. taken' = taken /\ NextFrame' = NextFrame /\ Returned' = Returned
        BY <1>a DEF server, output, NextFrame, Returned
    <2> QED
        BY <1>a, <2>1 DEF Given
<1>1. CASE UNCHANGED vars
    <2>1. UNCHANGED <<server, received>> /\ PullReplies' = PullReplies
        BY <1>1 DEF vars, wire, app, PullReplies
    <2> QED
        BY <1>a, <2>1
<1>2. ASSUME NEW t \in Tasks, NEW r \in Request, Sends(t, r)
      PROVE  Given'
    <2>1. UNCHANGED <<server, received>>
        BY <1>2 DEF Sends, app
    <2> QED
        BY <1>2, <1>a, <2>1, PullRepliesSends
<1>3. ASSUME NEW t \in Tasks, Drops(t)
      PROVE  Given'
    <2>1. UNCHANGED <<server, received>> /\ replies' \subseteq replies
          /\ call' = [call EXCEPT ![t] = Idle]
        BY <1>3 DEF Drops, app
    <2> QED
        BY <1>a, <2>1, PullRepliesEnds
<1> QED
    BY <1>0, <1>1, <1>2, <1>3, GivenServed, GivenReceived, StepEffect

LEMMA GivenHolds == Spec => [](TypeOK /\ Wire /\ Given)
<1>1. Init => Given
    BY DEF Init, Given, PullReplies, Returned
<1>2. TypeOK /\ Wire /\ Given /\ [Next]_vars => Given'
    BY GivenStep
<1> QED
    BY <1>1, <1>2, WireHolds, PTL DEF Spec

-----------------------------------------------------------------------------
\* Each step maps to one of the contract or to none.

\* What the contract does not see.
LEMMA UnseenStep ==
    ASSUME UNCHANGED <<open, clock, epoch, nextVideoSequence, taken, received>>
    PROVE  UNCHANGED Contract!vars
BY DEF Contract!vars, Returned

LEMMA ContractServed ==
    ASSUME TypeOK, Wire, Given, NEW r \in requests, NEW y \in Reply, Responds(r, y)
    PROVE  [Contract!Next]_Contract!vars
<1>1. Serves(r, y) /\ received' = received
    BY DEF Responds, app
<1>2. Returned' = Returned
    BY <1>1 DEF Returned
<1>3. CASE ServePush(r)
    <2>1. /\ open /\ UNCHANGED <<open, epoch, nextVideoSequence, taken>>
          /\ \E padding \in Paddings : clock' = clock + AudioChunkMs + padding
        BY <1>3 DEF ServePush, output
    <2>2. clock' \in Nat /\ clock' >= clock + AudioChunkMs
        BY <2>1, TypeFacts, PaddingAssumption DEF AudioChunkMs
    <2>3. Contract!Accept
        BY <1>2, <2>1, <2>2 DEF Contract!Accept, Contract!AudioChunkMs, AudioChunkMs
    <2> QED
        BY <2>3 DEF Contract!Next
<1>4. CASE ServeControl(r) \/ UNCHANGED server
    <2>1. UNCHANGED <<open, clock, epoch, nextVideoSequence, taken>>
        BY <1>4 DEF ServeControl, server, counters, output
    <2> QED
        BY <1>1, <2>1, UnseenStep
<1>5. CASE ServePull(r)
    <2>1. /\ open /\ UNCHANGED <<open, clock, epoch>>
          /\ (nextVideoSequence + 1) * VideoFrameMs <= clock
          /\ nextVideoSequence' = nextVideoSequence + 1
          /\ taken' = taken \cup {NextFrame}
        BY <1>5 DEF ServePull, counters
    <2>2. NextFrame \notin Returned
        BY NextIsNew DEF Given
    <2>3. (taken \ Returned)' = (taken \ Returned) \cup {NextFrame}
        BY <1>2, <2>1, <2>2
    <2>4. Contract!GiveNext
        BY <2>1 DEF Contract!GiveNext, Contract!VideoFrameMs, VideoFrameMs
    <2>5. Contract!NextFrame = NextFrame
        BY <2>1 DEF Contract!NextFrame, NextFrame
    <2>6. Contract!Give
        BY <1>2, <2>3, <2>4, <2>5 DEF Contract!Give
    <2> QED
        BY <2>6 DEF Contract!Next
<1>6. CASE ServeReset(r)
    <2>1. /\ open /\ UNCHANGED <<open, taken>> /\ epoch' = epoch + 1
          /\ clock' = 0 /\ nextVideoSequence' = 0
        BY <1>6 DEF ServeReset, NextEpoch
    <2>2. Contract!Reset
        BY <1>2, <2>1 DEF Contract!Reset
    <2> QED
        BY <2>2 DEF Contract!Next
<1>7. CASE ServeClose(r)
    <2>1. ~open' /\ UNCHANGED <<taken, epoch>>
        BY <1>7 DEF ServeClose, output
    <2>2. Contract!Close
        BY <1>2, <2>1 DEF Contract!Close
    <2> QED
        BY <2>2 DEF Contract!Next
<1> QED
    BY <1>1, <1>3, <1>4, <1>5, <1>6, <1>7 DEF Serves

LEMMA ContractReceived ==
    ASSUME TypeOK, Wire, Given, NEW t \in Tasks, NEW y \in replies, Takes(t, y)
    PROVE  [Contract!Next]_Contract!vars
<1>1. UNCHANGED <<open, clock, epoch, nextVideoSequence, taken>>
    BY DEF Takes, server, counters, output
<1>2. CASE y.ok /\ call[t].op = "pull"
    <2>1. Returned' = Returned \cup {y.frame} /\ y.frame \in taken \ Returned
        BY <1>2, ReturnedAfter DEF Given
    <2>2. (taken \ Returned)' = (taken \ Returned) \ {y.frame}
        BY <1>1, <2>1
    <2>3. Contract!Return(y.frame)
        BY <1>1, <2>1, <2>2 DEF Contract!Return
    <2> QED
        BY <2>1, <2>3 DEF Contract!Next
<1>3. CASE ~(y.ok /\ call[t].op = "pull")
    <2>1. Returned' = Returned
        BY <1>3, ReturnedAfter
    <2> QED
        BY <1>1, <2>1 DEF Contract!vars
<1> QED
    BY <1>2, <1>3

LEMMA ContractStep ==
    ASSUME TypeOK, Wire, Given, [Next]_vars
    PROVE  [Contract!Next]_Contract!vars
<1>0. TypeOK /\ Numbers /\ Apart
    BY DEF Wire
<1>1. CASE UNCHANGED vars
    BY <1>1, UnseenStep DEF vars, server, counters, output, app
<1>2. ASSUME NEW t \in Tasks, NEW r \in Request, Sends(t, r)
      PROVE  [Contract!Next]_Contract!vars
    BY <1>2, UnseenStep DEF Sends, server, counters, output, app
<1>3. ASSUME NEW t \in Tasks, Drops(t)
      PROVE  [Contract!Next]_Contract!vars
    BY <1>3, UnseenStep DEF Drops, server, counters, output, app
<1> QED
    BY <1>0, <1>1, <1>2, <1>3, ContractServed, ContractReceived, StepEffect

\* A session used over a network that loses and delays requests and answers is
\* still a session of the contract, for every number of tasks and calls and also
\* when calls overlap: no frame is given to two calls or returned twice, none
\* comes before its audio, and a request served after its call gave up does
\* nothing that a call on the server could not have done (client.py:171-226,
\* http_api.py:100-123, protocol.py:103-123).
THEOREM KeepsContractCorrect == Spec => KeepsContract
<1>1. Init => Contract!Opened
    BY DEF Init, Contract!Opened, Returned
<1>2. TypeOK /\ Wire /\ Given /\ [Next]_vars => [Contract!Next]_Contract!vars
    BY ContractStep
<1> QED
    BY <1>1, <1>2, GivenHolds, PTL DEF Spec, KeepsContract
=============================================================================
