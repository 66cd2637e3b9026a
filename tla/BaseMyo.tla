------------------------------- MODULE BaseMyo -------------------------------
(***************************************************************************)
(* The message dispatcher of the Android Myo library                        *)
(* (eu/darken/myolib/BaseMyo.java).                                         *)
(*                                                                          *)
(* Three kinds of thread share one BaseMyo object:                          *)
(*   - application threads call submit(), connect(), disconnect();          *)
(*   - every connect() that finds mRunning false starts a dispatcher thread *)
(*     (mLoop), which opens its own BluetoothGatt and sends one queued      *)
(*     message for every permit of the semaphore mWaitToken it obtains, or  *)
(*     for every mTimeoutSendQueue that passes without one;                 *)
(*   - the Bluetooth stack delivers the callbacks of each BluetoothGatt,    *)
(*     one at a time, on a thread of its own.                               *)
(*                                                                          *)
(* A dispatcher thread and the BluetoothGatt it opened have the same name,  *)
(* a member of Loop.  The BluetoothGatt is Android's and is modelled from   *)
(* how this class uses it: it has a link, a set of services that is known   *)
(* once they are discovered, and at most one outstanding operation; an      *)
(* operation issued while another one is outstanding is refused, and the    *)
(* code ignores the refusal.                                                *)
(***************************************************************************)
EXTENDS Naturals, Integers, Sequences, FiniteSets

CONSTANTS
    Msg,          \* the MyoMsg objects the program ever creates
    SetupMsg,     \* those that onServicesDiscovered creates
    Writes,       \* those that are a WriteMsg, the others are a ReadMsg
    Ident,        \* identifiers: "service:characteristic[:descriptor]"
    IdentOf,      \* MyoMsg.getIdentifier()
    RetryOf,      \* the retry counter a message is submitted with, -1: forever
    Missing,      \* identifiers this device has no attribute for
    Loop,         \* dispatcher threads, each with the gatt it opened
    NoMsg,        \* null
    NoGatt,       \* null
    TimeoutModes, \* the values of "mTimeoutSendQueue # -1" a caller may choose
    MaxTroubles   \* bound: lost links and failed discoveries in a behaviour

ASSUME MsgAssumption ==
    /\ SetupMsg \subseteq Msg
    /\ Writes \subseteq Msg
    /\ NoMsg \notin Msg
    /\ IdentOf \in [Msg -> Ident]
    /\ RetryOf \in [Msg -> Nat \cup {-1}]

ASSUME LoopAssumption == NoGatt \notin Loop

ASSUME ModeAssumption ==
    /\ TimeoutModes \subseteq BOOLEAN
    /\ MaxTroubles \in Nat

VARIABLES
    \* fields of BaseMyo
    mDispatchQueue,    \* LinkedBlockingQueue of messages
    mRunning,
    mConnectionState,
    mWaitToken,        \* permits of the semaphore
    mMsgCallbackMap,   \* identifier -> message waiting for its answer
    mBluetoothGatt,    \* the gatt the field refers to, or NoGatt
    timed,             \* mTimeoutSendQueue # -1
    \* the dispatcher threads
    pc,                \* where each dispatcher thread is in mLoop
    hand,              \* its local variable msg
    \* each gatt and the thread that runs its callbacks
    link,              \* the link and what is known of the services
    op,                \* the outstanding operation, by the message it carries
    handler,           \* the callback under way
    leaving,           \* the gatts whose disconnect() was called, not yet closed
    \* MyoMsg objects
    fresh,             \* not submitted yet
    retry,             \* mRetryCounter
    reports,           \* history: how often the callback of a message ran
    cause,             \* history: the message whose transmission it reported
    sends,             \* history: transmissions of a message with a retry limit
    \* bookkeeping
    crashed,           \* an exception left a dispatcher thread
    troubles,          \* how often the link was lost or a discovery failed
    past               \* history: the worst that has happened so far

fields  == <<mDispatchQueue, mRunning, mConnectionState, mWaitToken,
             mMsgCallbackMap, mBluetoothGatt, timed>>
threads == <<pc, hand>>
gatts   == <<link, op, handler, leaving>>
msgs    == <<fresh, retry, reports, cause, sends>>
vars    == <<fields, threads, gatts, msgs, crashed, troubles, past>>

States == {"CONNECTING", "CONNECTED", "DISCONNECTING", "DISCONNECTED"}
PCs    == {"unborn", "starting", "checking", "waiting", "woken", "sending",
           "closing", "hungUp", "clearing", "ended"}

\* timeout: a wait for a permit timed out.  early: one did when no services were
\* known.  overlap: a dispatcher thread was started while another was alive.
Pasts == {"calm", "timeout", "early", "overlap"}

\* none: not opened.  waiting: no link, services unknown.  discovering: link
\* up, discovery under way.  undiscovered: link up, discovery failed.  ready:
\* link up, services known.  lost: link down, services still cached.
Links  == {"none", "waiting", "discovering", "undiscovered", "ready", "lost",
           "closed"}
LinkUp == {"discovering", "undiscovered", "ready"}

Idle     == [kind |-> "idle", msg |-> NoMsg, from |-> NoMsg, ok |-> FALSE]
Enabling == [Idle EXCEPT !.kind = "enabling"]
Handlers == [kind : {"idle", "enabling", "answer"}, msg : Msg \cup {NoMsg},
             from : Msg \cup {NoMsg}, ok : BOOLEAN]

Init ==
    /\ mDispatchQueue = <<>>
    /\ mRunning = FALSE
    /\ mConnectionState = "DISCONNECTED"
    /\ mWaitToken = 0
    /\ mMsgCallbackMap = [i \in Ident |-> NoMsg]
    /\ mBluetoothGatt = NoGatt
    /\ timed \in TimeoutModes
    /\ pc = [l \in Loop |-> "unborn"]
    /\ hand = [l \in Loop |-> NoMsg]
    /\ link = [l \in Loop |-> "none"]
    /\ op = [l \in Loop |-> NoMsg]
    /\ handler = [l \in Loop |-> Idle]
    /\ fresh = Msg
    /\ retry = RetryOf
    /\ reports = [m \in Msg |-> 0]
    /\ cause = [m \in Msg |-> NoMsg]
    /\ sends = [m \in Msg |-> 0]
    /\ leaving = {}
    /\ crashed = FALSE
    /\ troubles = 0
    /\ past = "calm"

-----------------------------------------------------------------------------
(* The application's calls.                                                 *)

Release == mWaitToken' = mWaitToken + 1

Alive(l) == pc[l] \notin {"unborn", "ended"}

\* connect() when mRunning is false: a new dispatcher thread ...
NewThread ==
    /\ mRunning' = TRUE
    /\ past' = IF \E k \in Loop : Alive(k) THEN "overlap" ELSE past
    /\ \E l \in Loop : /\ pc[l] = "unborn"
                       /\ pc' = [pc EXCEPT ![l] = "starting"]

\* mutant of StartDispatcher: the semaphore starts with a permit
StartWithPermit == mWaitToken' = 1 /\ NewThread

\* ... and no permits.
StartDispatcher == mWaitToken' = 0 /\ NewThread

\* submit(m): enqueue, then connect() unless the dispatcher runs.
Enqueue(m) ==
    /\ mDispatchQueue' = Append(mDispatchQueue, m)
    /\ \/ mRunning /\ UNCHANGED <<mRunning, mWaitToken, pc, past>>
       \/ ~mRunning /\ StartDispatcher

Submit(m) ==
    /\ m \in fresh \ SetupMsg
    /\ fresh' = fresh \ {m}
    /\ Enqueue(m)
    /\ UNCHANGED <<mConnectionState, mMsgCallbackMap, mBluetoothGatt, timed,
                   hand, gatts, retry, reports, cause, sends, crashed, troubles>>

Connect ==
    /\ ~mRunning
    /\ StartDispatcher
    /\ UNCHANGED <<mDispatchQueue, mConnectionState, mMsgCallbackMap,
                   mBluetoothGatt, timed, hand, gatts, msgs, crashed, troubles>>

\* mutant of Stop: the dispatcher is not woken
StopWithoutRelease == mRunning' = FALSE /\ UNCHANGED mWaitToken

\* disconnect(): stop the loop, and wake it
Stop == mRunning' = FALSE /\ Release

Disconnect ==
    /\ mRunning
    /\ Stop
    /\ UNCHANGED <<mDispatchQueue, mConnectionState, mMsgCallbackMap,
                   mBluetoothGatt, timed, threads, gatts, msgs, crashed, troubles, past>>

SetTimeoutSendQueue ==
    /\ timed' \in TimeoutModes
    /\ UNCHANGED <<mDispatchQueue, mRunning, mConnectionState, mWaitToken,
                   mMsgCallbackMap, mBluetoothGatt, threads, gatts, msgs,
                   crashed, troubles, past>>

-----------------------------------------------------------------------------
(* The dispatcher thread l, mLoop.run().                                    *)

Goto(l, there) == pc' = [pc EXCEPT ![l] = there]

\* mBluetoothGatt = mDevice.connectGatt(...)
OpenGatt(l) ==
    /\ pc[l] = "starting"
    /\ mBluetoothGatt' = l
    /\ link' = [link EXCEPT ![l] = "waiting"]
    /\ Goto(l, "checking")
    /\ UNCHANGED <<mDispatchQueue, mRunning, mConnectionState, mWaitToken,
                   mMsgCallbackMap, timed, hand, op, handler, leaving, msgs, crashed,
                   troubles, past>>

\* while (mRunning) { if (mConnectionState != CONNECTED) continue; ... and
\* requestConnectionPriority() when a caller has changed the connection speed:
\* on a null field the exception ends the process.
CheckRunning(l) ==
    /\ pc[l] = "checking"
    /\ \/ ~mRunning /\ Goto(l, "closing") /\ UNCHANGED crashed
       \/ /\ mRunning
          /\ mConnectionState = "CONNECTED"
          /\ Goto(l, "waiting")
          /\ UNCHANGED crashed \/ (mBluetoothGatt = NoGatt /\ crashed' = TRUE)
    /\ UNCHANGED <<fields, hand, gatts, msgs, troubles, past>>

Acquire == mWaitToken > 0 /\ mWaitToken' = mWaitToken - 1 /\ UNCHANGED past

TimesOut ==
    /\ timed
    /\ past' = IF past \in {"overlap", "early"} THEN past
               ELSE IF \E l \in Loop : link[l] = "ready" THEN "timeout" ELSE "early"

\* mutants of TakeToken: a wait that timed out takes a permit all the same;
\* mTimeoutSendQueue is ignored
TakeTokenOverdrawn == Acquire \/ (TimesOut /\ mWaitToken' = mWaitToken - 1)
TakeTokenForever == Acquire

\* acquire() or tryAcquire(mTimeoutSendQueue); when the latter gives up, the
\* loop goes on as if it had the permit.
TakeToken == Acquire \/ (mWaitToken = 0 /\ TimesOut /\ UNCHANGED mWaitToken)

AwaitToken(l) ==
    /\ pc[l] = "waiting"
    /\ TakeToken
    /\ Goto(l, "woken")
    /\ UNCHANGED <<mDispatchQueue, mRunning, mConnectionState, mMsgCallbackMap,
                   mBluetoothGatt, timed, hand, gatts, msgs, crashed, troubles>>

\* if (!mRunning) break; msg = poll(); when there is none, release().
PollQueue(l) ==
    /\ pc[l] = "woken"
    /\ \/ /\ ~mRunning
          /\ Goto(l, "closing")
          /\ UNCHANGED <<mDispatchQueue, mWaitToken, hand>>
       \/ /\ mRunning
          /\ mDispatchQueue # <<>>
          /\ hand' = [hand EXCEPT ![l] = Head(mDispatchQueue)]
          /\ mDispatchQueue' = Tail(mDispatchQueue)
          /\ Goto(l, "sending")
          /\ UNCHANGED mWaitToken
       \/ /\ mRunning
          /\ mDispatchQueue = <<>>
          /\ Release
          /\ Goto(l, "checking")
          /\ UNCHANGED <<mDispatchQueue, hand>>
    /\ UNCHANGED <<mRunning, mConnectionState, mMsgCallbackMap, mBluetoothGatt,
                   timed, gatts, msgs, crashed, troubles, past>>

\* getService()/getCharacteristic()/getDescriptor() may find nothing when the
\* services of g are not known, and do when the device lacks the attribute.
MayLack(g, m) == link[g] \notin {"ready", "lost"} \/ IdentOf[m] \in Missing
MayHave(g, m) == link[g] \in {"ready", "lost", "closed"} /\ IdentOf[m] \notin Missing

\* internalSend(): the message is dropped ...
DropUnavailable(l) ==
    /\ mBluetoothGatt # NoGatt
    /\ MayLack(mBluetoothGatt, hand[l])
    /\ UNCHANGED <<mMsgCallbackMap, op, sends, crashed>>

\* ... or filed under its identifier and handed to the gatt ...
HandToGatt(l) ==
    LET g == mBluetoothGatt
        m == hand[l]
    IN  /\ g # NoGatt
        /\ MayHave(g, m)
        /\ mMsgCallbackMap' = [mMsgCallbackMap EXCEPT ![IdentOf[m]] = m]
        /\ op' = IF link[g] = "ready" /\ op[g] = NoMsg
                 THEN [op EXCEPT ![g] = m]
                 ELSE op
        /\ sends' = IF retry[m] >= 0 THEN [sends EXCEPT ![m] = @ + 1] ELSE sends
        /\ UNCHANGED crashed

\* ... or the field is null and the exception ends the process.
NullGatt(l) ==
    /\ mBluetoothGatt = NoGatt
    /\ crashed' = TRUE
    /\ UNCHANGED <<mMsgCallbackMap, op, sends>>

InternalSend(l) ==
    /\ pc[l] = "sending"
    /\ DropUnavailable(l) \/ HandToGatt(l) \/ NullGatt(l)
    /\ hand' = [hand EXCEPT ![l] = NoMsg]
    /\ Goto(l, "checking")
    /\ UNCHANGED <<mDispatchQueue, mRunning, mConnectionState, mWaitToken,
                   mBluetoothGatt, timed, link, handler, leaving, fresh, retry, reports,
                   cause, troubles, past>>

\* mBluetoothGatt.disconnect(): the gatt the field refers to will report it ...
HangUp(l) ==
    /\ pc[l] = "closing"
    /\ IF mBluetoothGatt = NoGatt
       THEN crashed' = TRUE /\ UNCHANGED leaving
       ELSE /\ leaving' = leaving \cup {mBluetoothGatt}
            /\ UNCHANGED crashed
    /\ Goto(l, "hungUp")
    /\ UNCHANGED <<fields, hand, link, op, handler, msgs, troubles, past>>

\* mBluetoothGatt.close(): ... unless it is closed first.  The field may refer
\* to another gatt by now.
CloseGatt(l) ==
    /\ pc[l] = "hungUp"
    /\ IF mBluetoothGatt = NoGatt
       THEN crashed' = TRUE /\ UNCHANGED <<link, op, leaving>>
       ELSE /\ link' = [link EXCEPT ![mBluetoothGatt] = "closed"]
            /\ op' = [op EXCEPT ![mBluetoothGatt] = NoMsg]
            /\ leaving' = leaving \ {mBluetoothGatt}
            /\ UNCHANGED crashed
    /\ Goto(l, "clearing")
    /\ UNCHANGED <<fields, hand, handler, msgs, troubles, past>>

\* mBluetoothGatt = null;
ClearGatt(l) ==
    /\ pc[l] = "clearing"
    /\ mBluetoothGatt' = NoGatt
    /\ Goto(l, "ended")
    /\ UNCHANGED <<mDispatchQueue, mRunning, mConnectionState, mWaitToken,
                   mMsgCallbackMap, timed, hand, gatts, msgs, crashed, troubles, past>>

Dispatch(l) ==
    \/ OpenGatt(l) \/ CheckRunning(l) \/ AwaitToken(l) \/ PollQueue(l)
    \/ InternalSend(l) \/ HangUp(l) \/ CloseGatt(l) \/ ClearGatt(l)

-----------------------------------------------------------------------------
(* The callbacks of gatt l.  Every one of them waits for the previous one.  *)

\* mutant of StateChange: a lost link also clears the field mBluetoothGatt
StateChangeForgetsGatt(l, s, from, to) ==
    /\ handler[l] = Idle
    /\ link[l] \in from
    /\ mConnectionState' = s
    /\ link' = [link EXCEPT ![l] = to]
    /\ mBluetoothGatt' = IF s = "DISCONNECTED" THEN NoGatt ELSE mBluetoothGatt
    /\ UNCHANGED <<mDispatchQueue, mRunning, mMsgCallbackMap, timed, threads,
                   handler, leaving, msgs, crashed, past>>

\* onConnectionStateChange for the state s; the link of l goes from one of
\* the states in from to state to.
StateChange(l, s, from, to) ==
    /\ handler[l] = Idle
    /\ link[l] \in from
    /\ mConnectionState' = s
    /\ link' = [link EXCEPT ![l] = to]
    /\ UNCHANGED <<mDispatchQueue, mRunning, mMsgCallbackMap, mBluetoothGatt,
                   timed, threads, handler, leaving, msgs, crashed, past>>

\* The link of l is going, as it does after disconnect() of its gatt and may do
\* by itself.
Losing(l) ==
    IF l \in leaving \/ mConnectionState = "DISCONNECTING"
    THEN UNCHANGED troubles
    ELSE troubles < MaxTroubles /\ troubles' = troubles + 1

OnConnecting(l) ==
    /\ l \notin leaving
    /\ \E down \in {"waiting", "lost"} : StateChange(l, "CONNECTING", {down}, down)
    /\ UNCHANGED <<mWaitToken, op, troubles>>

\* CONNECTED also starts the discovery, which forgets the services.
OnConnected(l) ==
    /\ l \notin leaving
    /\ StateChange(l, "CONNECTED", {"waiting", "lost"}, "discovering")
    /\ UNCHANGED <<mWaitToken, op, troubles>>

\* DISCONNECTING also drains the permits.
OnDisconnecting(l) ==
    /\ Losing(l)
    /\ \E up \in LinkUp : StateChange(l, "DISCONNECTING", {up}, up)
    /\ mWaitToken' = 0
    /\ UNCHANGED op

\* The operation that was outstanding gets no answer any more.
OnDisconnected(l) ==
    /\ Losing(l)
    /\ \/ StateChange(l, "DISCONNECTED", {"discovering", "undiscovered"}, "waiting")
       \/ StateChange(l, "DISCONNECTED", {"ready"}, "lost")
    /\ op' = [op EXCEPT ![l] = NoMsg]
    /\ UNCHANGED mWaitToken

DiscoveryFailed(l) ==
    /\ troubles < MaxTroubles
    /\ troubles' = troubles + 1
    /\ handler[l] = Idle
    /\ link[l] = "discovering"
    /\ link' = [link EXCEPT ![l] = "undiscovered"]
    /\ UNCHANGED <<fields, threads, op, handler, leaving, msgs, crashed, past>>

\* onServicesDiscovered begins; on a null field its exception is caught by the
\* Bluetooth stack and the callback ends here.
DiscoverySucceeded(l) ==
    /\ handler[l] = Idle
    /\ link[l] = "discovering"
    /\ link' = [link EXCEPT ![l] = "ready"]
    /\ handler' = IF mBluetoothGatt = NoGatt
                  THEN handler
                  ELSE [handler EXCEPT ![l] = Enabling]
    /\ UNCHANGED <<fields, threads, op, leaving, msgs, crashed, troubles, past>>

\* enableNotifications() or enableIndication() for a service the field's gatt has.
EnableNotification(l, m) ==
    /\ handler[l] = Enabling
    /\ mBluetoothGatt # NoGatt
    /\ link[mBluetoothGatt] \in {"ready", "lost", "closed"}
    /\ m \in fresh \cap SetupMsg
    /\ fresh' = fresh \ {m}
    /\ Enqueue(m)
    /\ UNCHANGED <<mConnectionState, mMsgCallbackMap, mBluetoothGatt, timed,
                   hand, gatts, retry, reports, cause, sends, crashed, troubles>>

\* onServicesDiscovered ends: the first permit; or it meets a null field.
DiscoveryHandled(l) ==
    /\ handler[l] = Enabling
    /\ \/ Release
       \/ mBluetoothGatt = NoGatt /\ UNCHANGED mWaitToken
    /\ handler' = [handler EXCEPT ![l] = Idle]
    /\ UNCHANGED <<mDispatchQueue, mRunning, mConnectionState, mMsgCallbackMap,
                   mBluetoothGatt, timed, threads, link, op, leaving, msgs,
                   crashed, troubles, past>>

Answer(l, m, ok) ==
    handler' = IF m = NoMsg THEN handler
               ELSE [handler EXCEPT ![l] = [kind |-> "answer", msg |-> m,
                                            from |-> op[l], ok |-> ok]]

\* mutant of FiledFor: the message sent is taken even when another one replaced
\* it in the map
FiledForForgotten(l) == op[l]

\* what is filed under the identifier of the operation that is answered
FiledFor(l) == mMsgCallbackMap[IdentOf[op[l]]]

\* mutant of CastFails: one callback for reads and writes
CastNeverFails(l) == FALSE

\* the cast of it to the kind of the operation, which null passes
CastFails(l) ==
    /\ FiledFor(l) # NoMsg
    /\ (FiledFor(l) \in Writes) # (op[l] \in Writes)

\* mutant of Unfile: get() for remove()
UnfileNothing(i) == UNCHANGED mMsgCallbackMap

Unfile(i) == mMsgCallbackMap' = [mMsgCallbackMap EXCEPT ![i] = NoMsg]

\* mutant of TakeAnswer: only a success releases
TakeAnswerReleasesOnSuccess(l, ok) ==
    /\ Unfile(IdentOf[op[l]])
    /\ ~CastFails(l) /\ Answer(l, FiledFor(l), ok)
    /\ IF ok THEN Release ELSE UNCHANGED mWaitToken

\* onCharacteristicRead, onCharacteristicWrite, onDescriptorRead,
\* onDescriptorWrite: take the message filed under the identifier, release.
\* With nothing filed the next statement throws; with a message of the other
\* kind filed the cast does, before the release.  The stack catches both.
TakeAnswer(l, ok) ==
    /\ Unfile(IdentOf[op[l]])
    /\ \/ CastFails(l) /\ UNCHANGED <<handler, mWaitToken>>
       \/ ~CastFails(l) /\ Answer(l, FiledFor(l), ok) /\ Release

AnswerArrives(l, ok) ==
    /\ handler[l] = Idle
    /\ op[l] # NoMsg
    /\ op' = [op EXCEPT ![l] = NoMsg]
    /\ TakeAnswer(l, ok)
    /\ UNCHANGED <<mDispatchQueue, mRunning, mConnectionState, mBluetoothGatt,
                   timed, threads, link, leaving, msgs, crashed, troubles,
                   past>>

\* ... then report it, on success or when its retries are used up ...
Report(l) ==
    LET m == handler[l].msg
    IN  /\ handler[l].kind = "answer"
        /\ handler[l].ok \/ retry[m] = 0
        /\ reports' = [reports EXCEPT ![m] = @ + 1]
        /\ cause' = [cause EXCEPT ![m] = handler[l].from]
        /\ handler' = [handler EXCEPT ![l] = Idle]
        /\ UNCHANGED <<fields, threads, link, op, leaving, fresh, retry, sends,
                       crashed, troubles, past>>

\* mutants of Resubmit: the counter is not decreased; submit() is forgotten
ResubmitSameCounter(m) == UNCHANGED retry /\ Enqueue(m)

ResubmitForgets(m) ==
    /\ retry' = IF retry[m] > 0 THEN [retry EXCEPT ![m] = @ - 1] ELSE retry
    /\ UNCHANGED <<mDispatchQueue, mRunning, mWaitToken, pc, past>>

\* ... or decreaseRetryCounter() and submit() it again.
Resubmit(m) ==
    /\ retry' = IF retry[m] > 0 THEN [retry EXCEPT ![m] = @ - 1] ELSE retry
    /\ Enqueue(m)

Retry(l) ==
    LET m == handler[l].msg
    IN  /\ handler[l].kind = "answer"
        /\ ~handler[l].ok /\ retry[m] # 0
        /\ Resubmit(m)
        /\ handler' = [handler EXCEPT ![l] = Idle]
        /\ UNCHANGED <<mConnectionState, mMsgCallbackMap, mBluetoothGatt, timed,
                       hand, link, op, leaving, fresh, reports, cause, sends,
                       crashed, troubles>>

Handle(l) ==
    \/ DiscoveryHandled(l) \/ Report(l) \/ Retry(l)
    \/ \E m \in SetupMsg : EnableNotification(l, m)

Platform(l) ==
    \/ OnConnecting(l) \/ OnConnected(l) \/ OnDisconnecting(l)
    \/ OnDisconnected(l) \/ DiscoveryFailed(l) \/ DiscoverySucceeded(l)
    \/ \E ok \in BOOLEAN : AnswerArrives(l, ok)

Application ==
    \/ \E m \in Msg : Submit(m)
    \/ Connect \/ Disconnect \/ SetTimeoutSendQueue

Next ==
    /\ ~crashed
    /\ Application \/ \E l \in Loop : Dispatch(l) \/ Handle(l) \/ Platform(l)

Spec == Init /\ [][Next]_vars

\* The dispatcher threads run, and a callback that has begun ends.  Nothing is
\* assumed of the application.
ThreadFairness ==
    \A l \in Loop : WF_vars(~crashed /\ Dispatch(l)) /\ WF_vars(~crashed /\ Handle(l))

\* The link comes up, its services are discovered and operations are answered.
LinkFairness ==
    \A l \in Loop :
        WF_vars(~crashed /\ (OnConnected(l) \/ DiscoverySucceeded(l)
                             \/ \E ok \in BOOLEAN : AnswerArrives(l, ok)))

FairSpec == Spec /\ ThreadFairness
-----------------------------------------------------------------------------
(* What holds.                                                              *)

\* Every variable has its type: the fields of BaseMyo.java:53-65, the four
\* connection states, the messages and the history kept about them.
TypeOK ==
    /\ mDispatchQueue \in Seq(Msg)
    /\ mRunning \in BOOLEAN
    /\ mConnectionState \in States
    /\ mWaitToken \in Nat
    /\ mMsgCallbackMap \in [Ident -> Msg \cup {NoMsg}]
    /\ mBluetoothGatt \in Loop \cup {NoGatt}
    /\ timed \in BOOLEAN
    /\ pc \in [Loop -> PCs]
    /\ hand \in [Loop -> Msg \cup {NoMsg}]
    /\ link \in [Loop -> Links]
    /\ op \in [Loop -> Msg \cup {NoMsg}]
    /\ handler \in [Loop -> Handlers]
    /\ fresh \subseteq Msg
    /\ retry \in [Msg -> Nat \cup {-1}]
    /\ reports \in [Msg -> Nat]
    /\ cause \in [Msg -> Msg \cup {NoMsg}]
    /\ sends \in [Msg -> Nat]
    /\ leaving \subseteq Loop
    /\ crashed \in BOOLEAN
    /\ troubles \in Nat
    /\ past \in Pasts

Queued(m)    == \E i \in DOMAIN mDispatchQueue : mDispatchQueue[i] = m
Held(m)      == \E l \in Loop : hand[l] = m
Filed(m)     == \E i \in Ident : mMsgCallbackMap[i] = m
Answering(l) == handler[l].kind = "answer"
Handled(m)   == \E l \in Loop : Answering(l) /\ handler[l].msg = m
Reported(m)  == reports[m] > 0
Pending(m)   == Queued(m) \/ Held(m) \/ Filed(m) \/ Handled(m)

QueuedOnce ==
    \A i, j \in DOMAIN mDispatchQueue :
        mDispatchQueue[i] = mDispatchQueue[j] => i = j
HeldOnce ==
    \A l, k \in Loop : hand[l] = hand[k] /\ hand[l] # NoMsg => l = k
FiledUnderOwnIdent ==
    \A i \in Ident : mMsgCallbackMap[i] # NoMsg => IdentOf[mMsgCallbackMap[i]] = i
HandledOnce ==
    \A l, k \in Loop :
        Answering(l) /\ Answering(k) /\ handler[l].msg = handler[k].msg => l = k
InOnePlace(m) ==
    /\ m \in fresh => ~Pending(m) /\ ~Reported(m)
    /\ Queued(m)    => ~Held(m) /\ ~Filed(m) /\ ~Handled(m) /\ ~Reported(m)
    /\ Held(m)      => ~Filed(m) /\ ~Handled(m) /\ ~Reported(m)
    /\ Filed(m)     => ~Handled(m) /\ ~Reported(m)
    /\ Handled(m)   => ~Reported(m)

\* A message object is in one place only: not submitted, once in the queue, in
\* the hands of one dispatcher thread, filed under its own identifier, in one
\* callback, or reported; whatever threads overlap, time out, retry or lose
\* the link (BaseMyo.java:295-301, 351-537).
OneCustodian ==
    /\ QueuedOnce /\ HeldOnce /\ FiledUnderOwnIdent /\ HandledOnce
    /\ \A m \in Msg : InOnePlace(m)

\* The callback of a message runs at most once (BaseMyo.java:443-459 and its
\* three siblings), although late answers, retries and a second dispatcher
\* thread all pass through the same map.
ReportedOnce == \A m \in Msg : reports[m] <= 1

\* A message with a retry limit is transmitted at most once more than the
\* limit (MyoMsg.java:131-150, BaseMyo.java:452-458).
RetryBudget == \A m \in Msg : RetryOf[m] >= 0 => sends[m] <= RetryOf[m] + 1

SameKind(m, n) == m \in Writes <=> n \in Writes

\* Whatever was replaced in the map, comes late or crosses a reconnection: the
\* result of a message is an answer for the same attribute and of the same kind,
\* never the result of a read for a write (BaseMyo.java:417-434, 439, 465).
AnswerFits ==
    \A m \in Msg : cause[m] # NoMsg =>
        IdentOf[cause[m]] = IdentOf[m] /\ SameKind(cause[m], m)

\* What the promises below are about: one dispatcher thread was started, its
\* link was not lost and no discovery failed, and no wait for a permit timed out
\* (or none did before the services were known).
OneThread   == \A l, k \in Loop : pc[l] # "unborn" /\ pc[k] # "unborn" => l = k
Steady      == OneThread /\ troubles = 0 /\ past \in {"calm", "timeout"}
Undisturbed == OneThread /\ troubles = 0 /\ past = "calm"

\* "Messages are sequentially as otherwise instruction can be lost"
\* (BaseMyo.java:288): until a wait times out or the link is disturbed, what is
\* about to be sent finds no operation outstanding and no unanswered message
\* filed, whoever passes the one permit on.
OneInFlight ==
    Undisturbed => \A l \in Loop : pc[l] = "sending" =>
        /\ \A g \in Loop : op[g] = NoMsg
        /\ \A i \in Ident : mMsgCallbackMap[i] = NoMsg

\* Until then the result given to a callback is that of the message's own
\* transmission (Myo.java:318, "the same object that was submitted, it now
\* contains information from the transmission"), although messages share
\* identifiers.
OwnAnswer == Undisturbed => \A m \in Msg : cause[m] \in {m, NoMsg}

Kept(m) == m \in fresh \/ Pending(m) \/ Reported(m)

\* Every message given to submit() is on its way or was reported, since "it will
\* be taken care of that the Myo is ready before any transmission attempt will
\* be made" (BaseMyo.java:290), and what was not transmitted ends in state
\* ERROR and in its callback (MyoMsg.java:50, 70).
NothingLost == \A m \in Msg : Kept(m)

Shared(m) == \E n \in Msg \ {m} : IdentOf[n] = IdentOf[m]

\* The timeouts of a link that stays up cost no message: if none came before the
\* services were known, only a message for an attribute the device lacks can
\* be lost, or one that shares its identifier with another and is replaced by
\* it in the map after a timeout (BaseMyo.java:369-389, 401-425, 439).
KeptOnceReady ==
    Steady => \A m \in Msg :
        IdentOf[m] \in Missing \/ (Shared(m) /\ past = "timeout") \/ Kept(m)

\* disconnect() "Disconnects the bluetooth connection and stops the dispatcher
\* loop" (BaseMyo.java:324): once it was called and every dispatcher thread
\* has ended, no gatt is left open.
ClosedWhenStopped ==
    ~mRunning /\ (\A l \in Loop : pc[l] \in {"unborn", "ended"})
        => \A l \in Loop : link[l] \in {"none", "closed"}

\* As long as every dispatcher thread has ended before the next one starts, none
\* finds the field mBluetoothGatt null in one of its reads between connectGatt()
\* and the end (BaseMyo.java:358-394, 399-434), and each closes its own gatt.
OwnGattAlone == past # "overlap" => ~crashed /\ ClosedWhenStopped

\* Once mTimeoutSendQueue stays finite no lost answer, refused operation or
\* missing attribute keeps a message in the queue (BaseMyo.java:359-389).
QueueDrains ==
    <>[]timed => \A m \in Msg :
        []<>(~Queued(m) \/ ~mRunning \/ mConnectionState # "CONNECTED")

\* disconnect() ends the dispatcher thread even if it waits for a permit that
\* no answer will bring (BaseMyo.java:331-332, 371, 380), unless the timeout is
\* infinite and a DISCONNECTING drains the permit (180).
DispatcherStops ==
    <>[]timed \/ [](mConnectionState # "DISCONNECTING") =>
        []<>(mRunning \/ \A l \in Loop : pc[l] \in {"unborn", "ended"})

\* The device has the attribute of every message submitted so far.
Supported == \A m \in Msg \ fresh : IdentOf[m] \notin Missing

\* On a link that comes up, stays up and answers, every submitted message is
\* reported in the end, unless the dispatcher is told to stop
\* (BaseMyo.java:351-537); a missing attribute would keep the permit (400-416).
EventuallyReported ==
    LinkFairness /\ [](Undisturbed /\ Supported) =>
        []<>(~mRunning \/ \A m \in Msg \ fresh : Reported(m))

-----------------------------------------------------------------------------
(* The dispatcher implements message delivery.                              *)

status == [m \in Msg |-> IF m \in fresh THEN "new"
                         ELSE IF Reported(m) THEN "done"
                         ELSE IF Pending(m) THEN "pending"
                         ELSE "lost"]

Delivery == INSTANCE MessageDelivery

\* Every step of the threads, of the callbacks and of the application is one
\* step of message delivery or none (BaseMyo.java:295-537).
DeliverySpec == Delivery!Spec
=============================================================================
