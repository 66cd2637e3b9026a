--------------------------- MODULE BaseMyoProofs ---------------------------
(***************************************************************************)
(* Theorems about the dispatcher, for any messages, identifiers, number of  *)
(* dispatcher threads, timeout modes and number of lost links.              *)
(***************************************************************************)
EXTENDS BaseMyo, TLAPS

-----------------------------------------------------------------------------
(* Type correctness.                                                        *)

\* What a thread is about to use is a message: without it nothing could be said
\* of IdentOf[hand[l]] or of retry[handler[l].msg].
InUse ==
    /\ \A l \in Loop : pc[l] = "sending" => hand[l] \in Msg
    /\ \A l \in Loop : Answering(l) => handler[l].msg \in Msg /\ handler[l].from \in Msg

Typed == TypeOK /\ InUse

\* Appending to the queue keeps its type (submit(), BaseMyo.java:295-301).
LEMMA EnqueueTyped ==
    ASSUME Typed, NEW m \in Msg, Enqueue(m)
    PROVE  /\ mDispatchQueue' \in Seq(Msg)
           /\ mRunning' \in BOOLEAN
           /\ mWaitToken' \in Nat
           /\ pc' \in [Loop -> PCs]
           /\ \A l \in Loop : pc'[l] = "sending" => pc[l] = "sending"
           /\ past' \in Pasts
<1>1. CASE mRunning
  BY <1>1 DEF Enqueue, Typed, TypeOK
<1>2. CASE ~mRunning
  <2>1. PICK l \in Loop : pc' = [pc EXCEPT ![l] = "starting"]
    BY <1>2 DEF Enqueue, StartDispatcher, NewThread
  <2>2. /\ pc' \in [Loop -> PCs]
        /\ \A k \in Loop : pc'[k] = "sending" => pc[k] = "sending"
    BY <2>1 DEF Typed, TypeOK, PCs
  <2>3. mDispatchQueue' \in Seq(Msg)
    BY DEF Enqueue, Typed, TypeOK
  <2>4. mRunning' = TRUE /\ mWaitToken' = 0
    BY <1>2, Zenon DEF Enqueue, StartDispatcher, NewThread
  <2>5. mRunning' \in BOOLEAN
    BY <2>4, Zenon
  <2>6. past' \in Pasts
    BY <1>2 DEF Enqueue, StartDispatcher, NewThread, Typed, TypeOK, Pasts
  <2>7. QED BY <2>2, <2>3, <2>4, <2>5, <2>6
<1>3. QED BY <1>1, <1>2

LEMMA InitTyped == Init => Typed
<1> SUFFICES ASSUME Init PROVE Typed
  OBVIOUS
<1>1. timed \in BOOLEAN
  BY ModeAssumption, Zenon DEF Init
<1>2. handler \in [Loop -> Handlers]
  BY DEF Init, Handlers, Idle
<1>3. pc \in [Loop -> PCs] /\ link \in [Loop -> Links] /\ mConnectionState \in States
  BY DEF Init, PCs, Links, States
<1>4. InUse
  BY DEF Init, InUse, Answering, Idle
<1>5. mRunning \in BOOLEAN /\ crashed \in BOOLEAN
  BY Zenon DEF Init
<1>6. /\ mDispatchQueue \in Seq(Msg) /\ fresh \subseteq Msg
      /\ mWaitToken \in Nat /\ troubles \in Nat
      /\ mBluetoothGatt \in Loop \cup {NoGatt}
      /\ mMsgCallbackMap \in [Ident -> Msg \cup {NoMsg}]
      /\ hand \in [Loop -> Msg \cup {NoMsg}] /\ op \in [Loop -> Msg \cup {NoMsg}]
      /\ reports \in [Msg -> Nat] /\ sends \in [Msg -> Nat]
      /\ cause \in [Msg -> Msg \cup {NoMsg}] /\ retry \in [Msg -> Nat \cup {-1}]
      /\ leaving \subseteq Loop /\ past \in Pasts
  BY MsgAssumption DEF Init, Pasts
<1>7. QED
  BY <1>1, <1>2, <1>3, <1>4, <1>5, <1>6 DEF Typed, TypeOK

\* What the application, the threads and the callbacks leave well typed.
LEMMA ApplicationTyped == Typed /\ Application => Typed'
<1> SUFFICES ASSUME Typed, Application PROVE Typed'
  OBVIOUS
<1>1. ASSUME NEW m \in Msg, Submit(m) PROVE Typed'
  <2>1. Enqueue(m)
    BY <1>1 DEF Submit
  <2>2. QED
    BY <1>1, <2>1, EnqueueTyped DEF Submit, Typed, TypeOK, InUse, Answering, gatts
<1>2. CASE Connect
  BY <1>2 DEF Connect, StartDispatcher, NewThread, Typed, TypeOK, InUse, Answering, gatts,
              msgs, PCs, Pasts
<1>3. CASE Disconnect
  <2>1. mRunning' \in BOOLEAN
    BY <1>3, Zenon DEF Disconnect, Stop
  <2>2. mWaitToken' \in Nat
    BY <1>3 DEF Disconnect, Stop, Release, Typed, TypeOK
  <2>3. QED
    BY <1>3, <2>1, <2>2
    DEF Disconnect, Typed, TypeOK, InUse, Answering, gatts, msgs, threads
<1>4. CASE SetTimeoutSendQueue
  <2>1. timed' \in BOOLEAN
    BY <1>4, ModeAssumption, Zenon DEF SetTimeoutSendQueue
  <2>2. QED
    BY <1>4, <2>1
    DEF SetTimeoutSendQueue, Typed, TypeOK, InUse, Answering, gatts, msgs, threads
<1>5. QED BY <1>1, <1>2, <1>3, <1>4 DEF Application

LEMMA DispatchTyped == ASSUME Typed, NEW l \in Loop, Dispatch(l) PROVE Typed'
<1> USE DEF Typed, TypeOK, InUse, Answering
<1>1. CASE OpenGatt(l)
  BY <1>1 DEF OpenGatt, Goto, msgs, Links, PCs
<1>2. CASE CheckRunning(l)
  <2>1. crashed' \in BOOLEAN
    BY <1>2 DEF CheckRunning
  <2>2. QED BY <1>2, <2>1 DEF CheckRunning, Goto, fields, gatts, msgs, PCs
<1>3. CASE AwaitToken(l)
  BY <1>3 DEF AwaitToken, TakeToken, Acquire, TimesOut, Goto, gatts, msgs, PCs, Pasts
<1>4. CASE PollQueue(l)
  <2>1. CASE mRunning /\ mDispatchQueue # <<>>
    <3>1. Head(mDispatchQueue) \in Msg /\ Tail(mDispatchQueue) \in Seq(Msg)
      BY <2>1
    <3>2. QED BY <1>4, <2>1, <3>1 DEF PollQueue, Goto, gatts, msgs, PCs
  <2>2. CASE mRunning /\ mDispatchQueue = <<>>
    <3>1. /\ mWaitToken' = mWaitToken + 1
          /\ pc' = [pc EXCEPT ![l] = "checking"]
          /\ UNCHANGED <<mDispatchQueue, hand>>
      BY <1>4, <2>2, Zenon DEF PollQueue, Release, Goto
    <3>2. mWaitToken' \in Nat /\ pc' \in [Loop -> PCs]
      BY <3>1 DEF PCs
    <3>3. QED BY <1>4, <3>1, <3>2 DEF PollQueue, gatts, msgs
  <2>3. CASE ~mRunning
    BY <1>4, <2>3 DEF PollQueue, Goto, gatts, msgs, PCs
  <2>4. QED BY <2>1, <2>2, <2>3, Zenon
<1>5. CASE InternalSend(l)
  <2>1. hand[l] \in Msg /\ IdentOf[hand[l]] \in Ident
    BY <1>5, MsgAssumption DEF InternalSend
  <2>2. hand' \in [Loop -> Msg \cup {NoMsg}]
    BY <1>5 DEF InternalSend
  <2>3. pc' \in [Loop -> PCs] /\ \A k \in Loop : pc'[k] = "sending" => pc[k] = "sending" /\ k # l
    BY <1>5 DEF InternalSend, Goto, PCs
  <2>4. /\ mMsgCallbackMap' \in [Ident -> Msg \cup {NoMsg}]
        /\ op' \in [Loop -> Msg \cup {NoMsg}]
        /\ sends' \in [Msg -> Nat]
        /\ crashed' \in BOOLEAN
    <3>1. CASE DropUnavailable(l)  BY <3>1 DEF DropUnavailable
    <3>2. CASE HandToGatt(l)       BY <3>2, <2>1 DEF HandToGatt
    <3>3. CASE NullGatt(l)         BY <3>3 DEF NullGatt
    <3>4. QED BY <1>5, <3>1, <3>2, <3>3 DEF InternalSend
  <2>5. \A k \in Loop : pc'[k] = "sending" => hand'[k] \in Msg
    BY <1>5, <2>3 DEF InternalSend
  <2>6. QED BY <1>5, <2>2, <2>3, <2>4, <2>5 DEF InternalSend
<1>6. CASE HangUp(l)
  BY <1>6 DEF HangUp, Goto, fields, msgs, PCs
<1>7. CASE CloseGatt(l)
  BY <1>7 DEF CloseGatt, Goto, fields, msgs, Links, PCs
<1>8. CASE ClearGatt(l)
  BY <1>8 DEF ClearGatt, Goto, gatts, msgs, PCs
<1>9. QED BY <1>1, <1>2, <1>3, <1>4, <1>5, <1>6, <1>7, <1>8 DEF Dispatch

LEMMA HandleTyped == ASSUME Typed, NEW l \in Loop, Handle(l) PROVE Typed'
<1>1. CASE DiscoveryHandled(l)
  BY <1>1 DEF DiscoveryHandled, Release, Typed, TypeOK, InUse, Answering, threads,
              msgs, Handlers, Idle
<1>2. CASE Report(l)
  BY <1>2 DEF Report, Typed, TypeOK, InUse, Answering, fields, threads, Handlers, Idle
<1>3. CASE Retry(l)
  <2> DEFINE m == handler[l].msg
  <2>1. m \in Msg /\ Enqueue(m)
    BY <1>3 DEF Retry, Resubmit, Typed, InUse, Answering
  <2>2. retry' \in [Msg -> Nat \cup {-1}]
    <3>1. retry[m] \in Nat \cup {-1} /\ retry \in [Msg -> Nat \cup {-1}]
      BY <2>1 DEF Typed, TypeOK
    <3>2. retry[m] > 0 => retry[m] - 1 \in Nat
      BY <3>1
    <3>3. retry' = IF retry[m] > 0 THEN [retry EXCEPT ![m] = @ - 1] ELSE retry
      BY <1>3 DEF Retry, Resubmit
    <3>4. QED BY <2>1, <3>1, <3>2, <3>3
  <2>3. handler' \in [Loop -> Handlers]
    BY <1>3 DEF Retry, Typed, TypeOK, Handlers, Idle
  <2>4. InUse'
    BY <1>3, <2>1, EnqueueTyped DEF Retry, Typed, TypeOK, InUse, Answering, Idle
  <2>5. QED
    BY <1>3, <2>1, <2>2, <2>3, <2>4, EnqueueTyped DEF Retry, Typed, TypeOK
<1>4. ASSUME NEW m \in SetupMsg, EnableNotification(l, m) PROVE Typed'
  <2>1. m \in Msg /\ Enqueue(m)
    BY <1>4, MsgAssumption DEF EnableNotification
  <2>2. QED
    BY <1>4, <2>1, EnqueueTyped
    DEF EnableNotification, Typed, TypeOK, InUse, Answering, gatts
<1>5. QED BY <1>1, <1>2, <1>3, <1>4 DEF Handle

LEMMA PlatformTyped == ASSUME Typed, NEW l \in Loop, Platform(l) PROVE Typed'
<1> USE ModeAssumption DEF Typed, TypeOK, InUse, Answering
<1>1. CASE OnConnecting(l)
  BY <1>1 DEF OnConnecting, StateChange, threads, msgs, States, Links
<1>2. CASE OnConnected(l)
  BY <1>2 DEF OnConnected, StateChange, threads, msgs, States, Links
<1>3. CASE OnDisconnecting(l)
  BY <1>3 DEF OnDisconnecting, Losing, StateChange, threads, msgs, States, Links, LinkUp
<1>4. CASE OnDisconnected(l)
  <2>1. link' \in [Loop -> Links] /\ mConnectionState' \in States
    BY <1>4 DEF OnDisconnected, StateChange, Links, States
  <2>2. op' \in [Loop -> Msg \cup {NoMsg}] /\ troubles' \in Nat
    BY <1>4 DEF OnDisconnected, Losing
  <2>3. QED
    BY <1>4, <2>1, <2>2 DEF OnDisconnected, StateChange, threads, msgs
<1>5. CASE DiscoveryFailed(l)
  BY <1>5 DEF DiscoveryFailed, fields, threads, msgs, Links
<1>6. CASE DiscoverySucceeded(l)
  BY <1>6 DEF DiscoverySucceeded, fields, threads, msgs, Links, Handlers, Enabling, Idle
<1>7. ASSUME NEW ok \in BOOLEAN, AnswerArrives(l, ok) PROVE Typed'
  <2>1. op[l] \in Msg /\ IdentOf[op[l]] \in Ident
    BY <1>7, MsgAssumption DEF AnswerArrives
  <2>2. mMsgCallbackMap' \in [Ident -> Msg \cup {NoMsg}] /\ mWaitToken' \in Nat
    BY <1>7, <2>1 DEF AnswerArrives, TakeAnswer, Unfile, Release
  <2> DEFINE m == mMsgCallbackMap[IdentOf[op[l]]]
  <2>3. UNCHANGED handler \/ Answer(l, m, ok)
    BY <1>7 DEF AnswerArrives, TakeAnswer, FiledFor
  <2>4. CASE UNCHANGED handler
    BY <1>7, <2>2, <2>4 DEF AnswerArrives, threads, msgs
  <2>5. CASE ~UNCHANGED handler
    <3>1. m \in Msg
      BY <2>1, <2>3, <2>5 DEF Answer
    <3>2. handler' = [handler EXCEPT ![l] =
                        [kind |-> "answer", msg |-> m, from |-> op[l], ok |-> ok]]
      BY <2>3, <2>5 DEF Answer
    <3>3. handler' \in [Loop -> Handlers]
      BY <2>1, <3>1, <3>2 DEF Handlers
    <3>4. \A k \in Loop : handler'[k].kind = "answer" =>
                            handler'[k].msg \in Msg /\ handler'[k].from \in Msg
      BY <2>1, <3>1, <3>2
    <3>5. QED
      BY <1>7, <2>2, <3>3, <3>4 DEF AnswerArrives, threads, msgs
  <2>6. QED BY <2>4, <2>5
<1>8. QED BY <1>1, <1>2, <1>3, <1>4, <1>5, <1>6, <1>7 DEF Platform

LEMMA TypedInductive == Typed /\ [Next]_vars => Typed'
<1>1. CASE UNCHANGED vars
  BY <1>1 DEF vars, fields, threads, gatts, msgs, Typed, TypeOK, InUse, Answering
<1>2. QED
  BY <1>1, ApplicationTyped, DispatchTyped, HandleTyped, PlatformTyped DEF Next

\* Every variable of the dispatcher always has its type.
THEOREM TypeCorrect == Spec => []TypeOK
<1>1. Typed => TypeOK
  BY DEF Typed
<1>2. QED BY InitTyped, TypedInductive, <1>1, PTL DEF Spec
-----------------------------------------------------------------------------
(* One custodian.                                                           *)

\* What submit() does to the queue, as seen by the invariant.
LEMMA EnqueueQueued ==
    ASSUME Typed, NEW m \in Msg, mDispatchQueue' = Append(mDispatchQueue, m)
    PROVE  /\ \A x \in Msg : Queued(x)' <=> Queued(x) \/ x = m
           /\ QueuedOnce /\ ~Queued(m) => QueuedOnce'
<1> DEFINE q == mDispatchQueue
<1>1. q \in Seq(Msg)
  BY DEF Typed, TypeOK
<1>2. /\ DOMAIN q = 1 .. Len(q) /\ Len(q) \in Nat
      /\ DOMAIN mDispatchQueue' = 1 .. Len(q) + 1
      /\ \A i \in 1 .. Len(q) : mDispatchQueue'[i] = q[i]
      /\ mDispatchQueue'[Len(q) + 1] = m
  BY <1>1
<1>3. \A i : i \in DOMAIN mDispatchQueue' <=> i \in DOMAIN q \/ i = Len(q) + 1
  BY <1>2
<1>4. \A x \in Msg : Queued(x)' <=> Queued(x) \/ x = m
  BY <1>2, <1>3 DEF Queued
<1>5. QueuedOnce /\ ~Queued(m) => QueuedOnce'
  BY <1>2, <1>3 DEF QueuedOnce, Queued
<1>6. QED BY <1>4, <1>5

\* What poll() does to it.
LEMMA DequeueQueued ==
    ASSUME Typed, mDispatchQueue # <<>>, mDispatchQueue' = Tail(mDispatchQueue),
           QueuedOnce
    PROVE  /\ Head(mDispatchQueue) \in Msg
           /\ \A x \in Msg :
                  Queued(x)' <=> Queued(x) /\ x # Head(mDispatchQueue)
           /\ Queued(Head(mDispatchQueue))
           /\ QueuedOnce'
<1> DEFINE q == mDispatchQueue
<1>1. q \in Seq(Msg)
  BY DEF Typed, TypeOK
<1>2. /\ DOMAIN q = 1 .. Len(q) /\ Len(q) \in Nat /\ Len(q) > 0
      /\ Head(q) = q[1] /\ Head(q) \in Msg
      /\ DOMAIN mDispatchQueue' = 1 .. Len(q) - 1
      /\ \A i \in 1 .. Len(q) - 1 : mDispatchQueue'[i] = q[i + 1]
  BY <1>1
<1>3. QueuedOnce'
  <2>1. \A i, j \in 1 .. Len(q) : q[i] = q[j] => i = j
    BY <1>2 DEF QueuedOnce
  <2>2. \A i, j \in 1 .. Len(q) - 1 : q[i + 1] = q[j + 1] => i = j
    BY <1>2, <2>1
  <2>3. QED BY <1>2, <2>2 DEF QueuedOnce
<1>4. ASSUME NEW x \in Msg PROVE Queued(x)' <=> Queued(x) /\ x # Head(q)
  <2>1. Queued(x)' <=> \E i \in 1 .. Len(q) - 1 : q[i + 1] = x
    BY <1>2 DEF Queued
  <2>2. Queued(x) <=> \E i \in 1 .. Len(q) : q[i] = x
    BY <1>2 DEF Queued
  <2>3. \A i \in 1 .. Len(q) : i = 1 \/ i - 1 \in 1 .. Len(q) - 1
    BY <1>2
  <2>4. \A i \in 1 .. Len(q) : q[i] = Head(q) => i = 1
    BY <1>2 DEF QueuedOnce
  <2>5. ASSUME Queued(x), x # Head(q) PROVE Queued(x)'
    <3>1. PICK i \in 1 .. Len(q) : q[i] = x
      BY <2>2, <2>5
    <3>2. i # 1 /\ i - 1 \in 1 .. Len(q) - 1 /\ (i - 1) + 1 = i
      BY <1>2, <2>3, <2>5, <3>1
    <3>3. QED BY <2>1, <3>1, <3>2
  <2>6. ASSUME Queued(x)' PROVE Queued(x) /\ x # Head(q)
    <3>1. PICK i \in 1 .. Len(q) - 1 : q[i + 1] = x
      BY <2>1, <2>6
    <3>2. i + 1 \in 1 .. Len(q) /\ i + 1 # 1
      BY <1>2
    <3>3. QED BY <2>2, <2>4, <3>1, <3>2
  <2>7. QED BY <2>5, <2>6
<1>5. Queued(Head(q))
  BY <1>2 DEF Queued
<1>6. QED BY <1>2, <1>3, <1>4, <1>5
\* The part of the state the custodians are made of.
custody == <<mDispatchQueue, hand, mMsgCallbackMap, handler, fresh, reports>>

LEMMA CustodyUnchanged == OneCustodian /\ UNCHANGED custody => OneCustodian'
  BY DEF custody, OneCustodian, QueuedOnce, HeldOnce, FiledUnderOwnIdent, HandledOnce,
         InOnePlace, Pending, Queued, Held, Filed, Handled, Reported, Answering

\* A callback that answers nothing, or a dispatcher that lets go of its message,
\* leaves everything else where it is.
LEMMA CustodyReleased ==
    ASSUME Typed, OneCustodian, NEW l \in Loop,
           UNCHANGED <<mDispatchQueue, mMsgCallbackMap, fresh, reports>>,
           \/ UNCHANGED hand
           \/ hand' = [hand EXCEPT ![l] = NoMsg],
           \/ UNCHANGED handler
           \/ /\ ~Answering(l)
              /\ \E h \in {Idle, Enabling} : handler' = [handler EXCEPT ![l] = h]
    PROVE  OneCustodian'
<1>1. \A k \in Loop : hand'[k] = hand[k] \/ hand'[k] = NoMsg
  BY DEF Typed, TypeOK
<1>2. \A k \in Loop : Answering(k)' <=> Answering(k)
  <2>1. CASE UNCHANGED handler
    BY <2>1 DEF Answering
  <2>2. ASSUME NEW h \in {Idle, Enabling}, handler' = [handler EXCEPT ![l] = h],
               ~Answering(l)
        PROVE  \A k \in Loop : Answering(k)' <=> Answering(k)
    <3>1. h.kind # "answer"
      BY DEF Idle, Enabling
    <3>2. QED BY <2>2, <3>1 DEF Typed, TypeOK, Answering
  <2>3. QED BY <2>1, <2>2
<1>3. \A k \in Loop : Answering(k) => handler'[k] = handler[k]
  BY DEF Typed, TypeOK, Answering
<1>4. QueuedOnce' /\ FiledUnderOwnIdent'
  BY DEF OneCustodian, QueuedOnce, FiledUnderOwnIdent
<1>5. HeldOnce'
  BY <1>1 DEF OneCustodian, HeldOnce
<1>6. HandledOnce'
  BY <1>2, <1>3 DEF OneCustodian, HandledOnce
<1>7. ASSUME NEW m \in Msg PROVE InOnePlace(m)'
  <2>1. /\ Queued(m)' <=> Queued(m)
        /\ Filed(m)' <=> Filed(m)
        /\ Reported(m)' <=> Reported(m)
    BY DEF Queued, Filed, Reported
  <2>2. Held(m)' => Held(m)
    BY <1>1, MsgAssumption DEF Held
  <2>3. Handled(m)' <=> Handled(m)
    BY <1>2, <1>3 DEF Handled
  <2>4. InOnePlace(m)
    BY DEF OneCustodian
  <2>5. QED BY <2>1, <2>2, <2>3, <2>4 DEF InOnePlace, Pending
<1>8. QED BY <1>4, <1>5, <1>6, <1>7 DEF OneCustodian

\* A message that is nowhere else goes into the queue: submit() by the
\* application, by onServicesDiscovered and by a retry.
LEMMA CustodyEnqueued ==
    ASSUME Typed, OneCustodian, NEW m \in Msg,
           mDispatchQueue' = Append(mDispatchQueue, m),
           UNCHANGED <<hand, mMsgCallbackMap, reports>>,
           \/ m \in fresh /\ fresh' = fresh \ {m} /\ UNCHANGED handler
           \/ /\ UNCHANGED fresh
              /\ \E l \in Loop : /\ Answering(l) /\ handler[l].msg = m
                                 /\ handler' = [handler EXCEPT ![l] = Idle]
    PROVE  OneCustodian'
<1>1. InOnePlace(m)
  BY DEF OneCustodian
<1>2. ~Queued(m) /\ ~Held(m) /\ ~Filed(m) /\ ~Reported(m) /\ m \notin fresh'
  BY <1>1 DEF InOnePlace, Pending, Handled
<1>3. ~Handled(m)' /\ \A x \in Msg : Handled(x)' => Handled(x)
  <2>1. CASE m \in fresh /\ UNCHANGED handler
    BY <1>1, <2>1 DEF InOnePlace, Pending, Handled, Answering
  <2>2. ASSUME NEW l \in Loop, Answering(l), handler[l].msg = m,
               handler' = [handler EXCEPT ![l] = Idle]
        PROVE  ~Handled(m)' /\ \A x \in Msg : Handled(x)' => Handled(x)
    BY <2>2 DEF OneCustodian, HandledOnce, Handled, Answering, Idle, Typed, TypeOK
  <2>3. QED BY <2>1, <2>2
<1>4. HandledOnce'
  <2>1. CASE UNCHANGED handler
    BY <2>1 DEF OneCustodian, HandledOnce, Answering
  <2>2. ASSUME NEW l \in Loop, handler' = [handler EXCEPT ![l] = Idle]
        PROVE  HandledOnce'
    BY <2>2 DEF OneCustodian, HandledOnce, Answering, Idle, Typed, TypeOK
  <2>3. QED BY <2>1, <2>2
<1>5. QueuedOnce' /\ \A x \in Msg : Queued(x)' <=> Queued(x) \/ x = m
  BY <1>2, EnqueueQueued DEF OneCustodian
<1>6. HeldOnce' /\ FiledUnderOwnIdent'
  BY DEF OneCustodian, HeldOnce, FiledUnderOwnIdent
<1>7. ASSUME NEW x \in Msg PROVE InOnePlace(x)'
  <2>1. /\ Held(x)' <=> Held(x)
        /\ Filed(x)' <=> Filed(x)
        /\ Reported(x)' <=> Reported(x)
        /\ x \in fresh' => x \in fresh
    BY DEF Held, Filed, Reported
  <2>2. InOnePlace(x)
    BY DEF OneCustodian
  <2>3. CASE x = m
    BY <1>2, <1>3, <2>1, <2>3 DEF InOnePlace
  <2>4. CASE x # m
    BY <1>3, <1>5, <2>1, <2>2, <2>4 DEF InOnePlace, Pending
  <2>5. QED BY <2>3, <2>4
<1>8. QED BY <1>4, <1>5, <1>6, <1>7 DEF OneCustodian
\* poll(): from the queue into the hands of thread l.
LEMMA CustodyPolled ==
    ASSUME Typed, OneCustodian, NEW l \in Loop, mDispatchQueue # <<>>,
           mDispatchQueue' = Tail(mDispatchQueue),
           hand' = [hand EXCEPT ![l] = Head(mDispatchQueue)],
           UNCHANGED <<mMsgCallbackMap, handler, fresh, reports>>
    PROVE  OneCustodian'
<1> DEFINE m == Head(mDispatchQueue)
<1>1. /\ m \in Msg /\ Queued(m) /\ QueuedOnce'
      /\ \A x \in Msg : Queued(x)' <=> Queued(x) /\ x # m
  BY DequeueQueued DEF OneCustodian
<1>2. InOnePlace(m)
  BY <1>1 DEF OneCustodian
<1>3. ~Held(m) /\ ~Filed(m) /\ ~Handled(m) /\ ~Reported(m) /\ m \notin fresh
  BY <1>1, <1>2 DEF InOnePlace, Pending
<1>4. hand'[l] = m /\ \A k \in Loop : k # l => hand'[k] = hand[k]
  BY DEF Typed, TypeOK
<1>5. \A x \in Msg : Held(x)' => Held(x) \/ x = m
  BY <1>4 DEF Held
<1>6. HeldOnce'
  BY <1>3, <1>4 DEF OneCustodian, HeldOnce, Held
<1>7. FiledUnderOwnIdent' /\ HandledOnce'
  BY DEF OneCustodian, FiledUnderOwnIdent, HandledOnce, Answering
<1>8. ASSUME NEW x \in Msg PROVE InOnePlace(x)'
  <2>1. /\ Filed(x)' <=> Filed(x)
        /\ Handled(x)' <=> Handled(x)
        /\ Reported(x)' <=> Reported(x)
    BY DEF Filed, Handled, Reported, Answering
  <2>2. InOnePlace(x)
    BY DEF OneCustodian
  <2>3. CASE x = m
    BY <1>1, <1>3, <2>1, <2>3 DEF InOnePlace
  <2>4. CASE x # m
    BY <1>1, <1>5, <2>1, <2>2, <2>4 DEF InOnePlace, Pending
  <2>5. QED BY <2>3, <2>4
<1>9. QED BY <1>1, <1>6, <1>7, <1>8 DEF OneCustodian

\* internalSend(): out of the hands of thread l, filed under its identifier.
LEMMA CustodyFiled ==
    ASSUME Typed, OneCustodian, NEW l \in Loop, NEW m \in Msg, hand[l] = m,
           mMsgCallbackMap' = [mMsgCallbackMap EXCEPT ![IdentOf[m]] = m],
           hand' = [hand EXCEPT ![l] = NoMsg],
           UNCHANGED <<mDispatchQueue, handler, fresh, reports>>
    PROVE  OneCustodian'
<1>1. IdentOf[m] \in Ident
  BY MsgAssumption
<1>2. Held(m) /\ InOnePlace(m)
  BY DEF OneCustodian, Held
<1>3. ~Queued(m) /\ ~Handled(m) /\ ~Reported(m) /\ m \notin fresh
  BY <1>2 DEF InOnePlace, Pending
<1>4. /\ \A k \in Loop : hand'[k] = hand[k] \/ hand'[k] = NoMsg
      /\ hand'[l] = NoMsg
      /\ mMsgCallbackMap'[IdentOf[m]] = m
      /\ \A i \in Ident : mMsgCallbackMap'[i] = mMsgCallbackMap[i] \/ mMsgCallbackMap'[i] = m
  BY <1>1 DEF Typed, TypeOK
<1>5. ~Held(m)'
  BY <1>4, MsgAssumption DEF Held, OneCustodian, HeldOnce
<1>6. HeldOnce'
  BY <1>4 DEF OneCustodian, HeldOnce
<1>7. FiledUnderOwnIdent'
  BY <1>1 DEF OneCustodian, FiledUnderOwnIdent, Typed, TypeOK
<1>8. QueuedOnce' /\ HandledOnce'
  BY DEF OneCustodian, QueuedOnce, HandledOnce, Answering
<1>9. ASSUME NEW x \in Msg PROVE InOnePlace(x)'
  <2>1. /\ Queued(x)' <=> Queued(x)
        /\ Handled(x)' <=> Handled(x)
        /\ Reported(x)' <=> Reported(x)
    BY DEF Queued, Handled, Reported, Answering
  <2>2. InOnePlace(x)
    BY DEF OneCustodian
  <2>3. Held(x)' => Held(x)
    BY <1>4, MsgAssumption DEF Held
  <2>4. CASE x = m
    BY <1>3, <1>5, <2>1, <2>4 DEF InOnePlace
  <2>5. CASE x # m
    <3>1. Filed(x)' => Filed(x)
      BY <1>4, <2>5 DEF Filed
    <3>2. QED BY <2>1, <2>2, <2>3, <3>1 DEF InOnePlace, Pending
  <2>6. QED BY <2>4, <2>5
<1>10. QED BY <1>6, <1>7, <1>8, <1>9 DEF OneCustodian

\* An answer takes message m from under identifier i into the callback of l.
LEMMA CustodyAnswered ==
    ASSUME Typed, OneCustodian, NEW l \in Loop, NEW i \in Ident, NEW ok,
           NEW from \in Msg, ~Answering(l),
           NEW m \in Msg, mMsgCallbackMap[i] = m,
           mMsgCallbackMap' = [mMsgCallbackMap EXCEPT ![i] = NoMsg],
           handler' = [handler EXCEPT ![l] =
               [kind |-> "answer", msg |-> m, from |-> from, ok |-> ok]],
           UNCHANGED <<mDispatchQueue, hand, fresh, reports>>
    PROVE  OneCustodian'
<1>1. Filed(m) /\ InOnePlace(m)
  BY DEF OneCustodian, Filed
<1>2. ~Queued(m) /\ ~Held(m) /\ ~Handled(m) /\ ~Reported(m) /\ m \notin fresh
  BY <1>1 DEF InOnePlace, Pending
<1>3. /\ mMsgCallbackMap'[i] = NoMsg
      /\ \A j \in Ident : j # i => mMsgCallbackMap'[j] = mMsgCallbackMap[j]
      /\ Answering(l)' /\ handler'[l].msg = m
      /\ \A k \in Loop : k # l => handler'[k] = handler[k]
  BY DEF Typed, TypeOK, Answering
<1>4. FiledUnderOwnIdent'
  BY <1>3 DEF OneCustodian, FiledUnderOwnIdent
<1>5. ~Filed(m)'
  BY <1>3, MsgAssumption DEF OneCustodian, FiledUnderOwnIdent, Filed
<1>6. HandledOnce'
  BY <1>2, <1>3 DEF OneCustodian, HandledOnce, Handled, Answering
<1>7. QueuedOnce' /\ HeldOnce'
  BY DEF OneCustodian, QueuedOnce, HeldOnce
<1>8. ASSUME NEW x \in Msg PROVE InOnePlace(x)'
  <2>1. /\ Queued(x)' <=> Queued(x)
        /\ Held(x)' <=> Held(x)
        /\ Reported(x)' <=> Reported(x)
    BY DEF Queued, Held, Reported
  <2>2. InOnePlace(x)
    BY DEF OneCustodian
  <2>3. Filed(x)' => Filed(x)
    BY <1>3, MsgAssumption DEF Filed
  <2>4. CASE x = m
    BY <1>2, <1>5, <2>1, <2>4 DEF InOnePlace
  <2>5. CASE x # m
    <3>1. Handled(x)' => Handled(x)
      BY <1>3, <2>5 DEF Handled, Answering
    <3>2. QED BY <2>1, <2>2, <2>3, <3>1 DEF InOnePlace, Pending
  <2>6. QED BY <2>4, <2>5
<1>9. QED BY <1>4, <1>6, <1>7, <1>8 DEF OneCustodian

\* An answer whose cast fails takes what is filed under i away.
LEMMA CustodyUnfiled ==
    ASSUME Typed, OneCustodian, NEW i \in Ident, Unfile(i),
           UNCHANGED <<mDispatchQueue, hand, handler, fresh, reports>>
    PROVE  OneCustodian'
<1>1. \A j \in Ident : mMsgCallbackMap'[j] = mMsgCallbackMap[j] \/ mMsgCallbackMap'[j] = NoMsg
  BY DEF Unfile, Typed, TypeOK
<1>2. QueuedOnce' /\ HeldOnce' /\ HandledOnce' /\ FiledUnderOwnIdent'
  BY <1>1 DEF OneCustodian, QueuedOnce, HeldOnce, HandledOnce, FiledUnderOwnIdent, Answering
<1>3. \A x \in Msg : /\ Filed(x)' => Filed(x)
                     /\ Queued(x)' <=> Queued(x)
                     /\ Held(x)' <=> Held(x)
                     /\ Handled(x)' <=> Handled(x)
                     /\ Reported(x)' <=> Reported(x)
  BY <1>1, MsgAssumption DEF Filed, Queued, Held, Handled, Reported, Answering
<1>4. \A x \in Msg : InOnePlace(x)'
  BY <1>3 DEF OneCustodian, InOnePlace, Pending
<1>5. QED BY <1>2, <1>4 DEF OneCustodian

\* The callback of the message that l handles runs.
LEMMA CustodyReported ==
    ASSUME Typed, OneCustodian, NEW l \in Loop, Report(l),
           NEW m, m = handler[l].msg
    PROVE  OneCustodian' /\ (ReportedOnce => ReportedOnce')
<1>1. /\ Answering(l)
      /\ reports' = [reports EXCEPT ![m] = @ + 1]
      /\ handler' = [handler EXCEPT ![l] = Idle]
      /\ UNCHANGED <<mDispatchQueue, hand, mMsgCallbackMap, fresh>>
  BY DEF Report, Answering, fields, threads
<1>2. m \in Msg /\ Handled(m)
  BY <1>1 DEF Typed, InUse, Handled
<1>3. ~Queued(m) /\ ~Held(m) /\ ~Filed(m) /\ ~Reported(m) /\ m \notin fresh
  BY <1>2 DEF OneCustodian, InOnePlace, Pending
<1>4. /\ ~Answering(l)'
      /\ \A k \in Loop : k # l => handler'[k] = handler[k]
  BY <1>1 DEF Typed, TypeOK, Answering, Idle
<1>5. HandledOnce'
  BY <1>4 DEF OneCustodian, HandledOnce, Answering
<1>6. ~Handled(m)' /\ \A x \in Msg : Handled(x)' => Handled(x)
  BY <1>1, <1>4 DEF OneCustodian, HandledOnce, Handled, Answering
<1>7. \A x \in Msg : x # m => reports'[x] = reports[x]
  BY <1>1, <1>2 DEF Typed, TypeOK
<1>8. ASSUME NEW x \in Msg PROVE InOnePlace(x)'
  <2>1. /\ Queued(x)' <=> Queued(x)
        /\ Held(x)' <=> Held(x)
        /\ Filed(x)' <=> Filed(x)
        /\ x \in fresh' <=> x \in fresh
    BY <1>1 DEF Queued, Held, Filed
  <2>2. CASE x = m
    BY <1>3, <1>6, <2>1, <2>2 DEF InOnePlace
  <2>3. CASE x # m
    <3>1. Reported(x)' <=> Reported(x)
      BY <1>7, <2>3 DEF Reported
    <3>2. QED BY <1>6, <2>1, <3>1 DEF OneCustodian, InOnePlace, Pending
  <2>4. QED BY <2>2, <2>3
<1>9. QueuedOnce' /\ HeldOnce' /\ FiledUnderOwnIdent'
  BY <1>1 DEF OneCustodian, QueuedOnce, HeldOnce, FiledUnderOwnIdent
<1>10. ReportedOnce => ReportedOnce'
  <2>1. reports[m] = 0 /\ reports'[m] = 1
    BY <1>1, <1>2, <1>3 DEF Reported, Typed, TypeOK
  <2>2. QED BY <1>7, <2>1 DEF ReportedOnce
<1>11. QED BY <1>5, <1>8, <1>9, <1>10 DEF OneCustodian

\* Invariant of the custody proof.
Custodian == Typed /\ OneCustodian /\ ReportedOnce

LEMMA ReportsUnchanged == ReportedOnce /\ UNCHANGED reports => ReportedOnce'
  BY DEF ReportedOnce

LEMMA InitCustodian == Init => OneCustodian /\ ReportedOnce
<1> SUFFICES ASSUME Init PROVE OneCustodian /\ ReportedOnce
  OBVIOUS
<1>1. /\ \A m \in Msg : ~Queued(m) /\ ~Held(m) /\ ~Filed(m) /\ ~Handled(m) /\ ~Reported(m)
      /\ QueuedOnce
  BY MsgAssumption DEF Init, Queued, Held, Filed, Handled, Answering, Reported, Idle, QueuedOnce
<1>2. HeldOnce /\ FiledUnderOwnIdent /\ HandledOnce /\ ReportedOnce
  BY DEF Init, HeldOnce, FiledUnderOwnIdent, HandledOnce, Answering, Idle, ReportedOnce
<1>3. QED BY <1>1, <1>2 DEF OneCustodian, InOnePlace, Pending

LEMMA ApplicationCustodian == Custodian /\ Application => OneCustodian' /\ ReportedOnce'
<1> SUFFICES ASSUME Custodian, Application PROVE OneCustodian' /\ ReportedOnce'
  OBVIOUS
<1> USE DEF Custodian
<1>1. ASSUME NEW m \in Msg, Submit(m) PROVE OneCustodian' /\ ReportedOnce'
  <2>1. /\ mDispatchQueue' = Append(mDispatchQueue, m)
        /\ UNCHANGED <<hand, mMsgCallbackMap, reports>>
        /\ m \in fresh /\ fresh' = fresh \ {m} /\ UNCHANGED handler
    BY <1>1 DEF Submit, Enqueue, gatts
  <2>2. OneCustodian'
    BY <2>1, CustodyEnqueued
  <2>3. QED BY <2>1, <2>2, ReportsUnchanged
<1>2. CASE Connect \/ Disconnect \/ SetTimeoutSendQueue
  <2>1. UNCHANGED custody /\ UNCHANGED reports
    BY <1>2 DEF Connect, Disconnect, SetTimeoutSendQueue, custody, gatts, msgs, threads
  <2>2. QED BY <2>1, CustodyUnchanged, ReportsUnchanged
<1>3. QED BY <1>1, <1>2 DEF Application

LEMMA DispatchCustodian ==
    ASSUME Custodian, NEW l \in Loop, Dispatch(l)
    PROVE  OneCustodian' /\ ReportedOnce'
<1> USE DEF Custodian
<1>1. CASE OpenGatt(l) \/ CheckRunning(l) \/ AwaitToken(l) \/ HangUp(l)
             \/ CloseGatt(l) \/ ClearGatt(l)
  <2>1. UNCHANGED custody /\ UNCHANGED reports
    BY <1>1 DEF OpenGatt, CheckRunning, AwaitToken, HangUp, CloseGatt, ClearGatt, custody,
                fields, gatts, msgs
  <2>2. QED BY <2>1, CustodyUnchanged, ReportsUnchanged
<1>2. CASE PollQueue(l)
  <2>1. UNCHANGED <<mMsgCallbackMap, handler, fresh, reports>>
    BY <1>2 DEF PollQueue, gatts, msgs
  <2>2. CASE UNCHANGED <<mDispatchQueue, hand>>
    BY <2>1, <2>2, CustodyUnchanged, ReportsUnchanged DEF custody
  <2>3. CASE /\ mDispatchQueue # <<>>
             /\ hand' = [hand EXCEPT ![l] = Head(mDispatchQueue)]
             /\ mDispatchQueue' = Tail(mDispatchQueue)
    BY <2>1, <2>3, CustodyPolled, ReportsUnchanged
  <2>4. QED BY <1>2, <2>2, <2>3 DEF PollQueue
<1>3. CASE InternalSend(l)
  <2>1. /\ hand' = [hand EXCEPT ![l] = NoMsg]
        /\ UNCHANGED <<mDispatchQueue, handler, fresh, reports>>
        /\ hand[l] \in Msg
    BY <1>3 DEF InternalSend, Typed, InUse
  <2>2. CASE UNCHANGED mMsgCallbackMap
    BY <2>1, <2>2, CustodyReleased, ReportsUnchanged
  <2>3. CASE mMsgCallbackMap' = [mMsgCallbackMap EXCEPT ![IdentOf[hand[l]]] = hand[l]]
    <3>1. PICK m \in Msg : hand[l] = m
      BY <2>1
    <3>2. QED BY <2>1, <2>3, <3>1, CustodyFiled, ReportsUnchanged
  <2>4. QED BY <1>3, <2>2, <2>3 DEF InternalSend, DropUnavailable, HandToGatt, NullGatt
<1>4. QED BY <1>1, <1>2, <1>3 DEF Dispatch

LEMMA HandleCustodian ==
    ASSUME Custodian, NEW l \in Loop, Handle(l)
    PROVE  OneCustodian' /\ ReportedOnce'
<1> USE DEF Custodian
<1>1. CASE DiscoveryHandled(l)
  <2>1. /\ UNCHANGED <<mDispatchQueue, mMsgCallbackMap, fresh, reports, hand>>
        /\ ~Answering(l)
        /\ handler' = [handler EXCEPT ![l] = Idle]
    BY <1>1 DEF DiscoveryHandled, threads, msgs, Answering, Enabling, Idle
  <2>2. QED BY <2>1, CustodyReleased, ReportsUnchanged
<1>2. CASE Report(l)
  BY <1>2, CustodyReported
<1>3. CASE Retry(l)
  <2>1. PICK m \in Msg : handler[l].msg = m
    BY <1>3 DEF Retry, Typed, InUse, Answering
  <2>2. /\ mDispatchQueue' = Append(mDispatchQueue, m)
        /\ UNCHANGED <<hand, mMsgCallbackMap, reports, fresh>>
        /\ Answering(l) /\ handler[l].msg = m
        /\ handler' = [handler EXCEPT ![l] = Idle]
    BY <1>3, <2>1 DEF Retry, Resubmit, Enqueue, Answering
  <2>3. QED BY <2>2, CustodyEnqueued, ReportsUnchanged
<1>4. ASSUME NEW m \in SetupMsg, EnableNotification(l, m)
      PROVE  OneCustodian' /\ ReportedOnce'
  <2>1. /\ m \in Msg
        /\ mDispatchQueue' = Append(mDispatchQueue, m)
        /\ UNCHANGED <<hand, mMsgCallbackMap, reports>>
        /\ m \in fresh /\ fresh' = fresh \ {m} /\ UNCHANGED handler
    BY <1>4, MsgAssumption DEF EnableNotification, Enqueue, gatts
  <2>2. QED BY <2>1, CustodyEnqueued, ReportsUnchanged
<1>5. QED BY <1>1, <1>2, <1>3, <1>4 DEF Handle

LEMMA PlatformCustodian ==
    ASSUME Custodian, NEW l \in Loop, Platform(l)
    PROVE  OneCustodian' /\ ReportedOnce'
<1> USE DEF Custodian
<1>1. CASE OnConnecting(l) \/ OnConnected(l) \/ OnDisconnecting(l) \/ OnDisconnected(l)
           \/ DiscoveryFailed(l)
  <2>1. UNCHANGED custody /\ UNCHANGED reports
    BY <1>1 DEF OnConnecting, OnConnected, OnDisconnecting, OnDisconnected, StateChange,
                DiscoveryFailed, custody, fields, threads, msgs
  <2>2. QED BY <2>1, CustodyUnchanged, ReportsUnchanged
<1>2. CASE DiscoverySucceeded(l)
  <2>1. /\ UNCHANGED <<mDispatchQueue, mMsgCallbackMap, fresh, reports, hand>>
        /\ ~Answering(l)
        /\ \/ UNCHANGED handler
           \/ handler' = [handler EXCEPT ![l] = Enabling]
    BY <1>2 DEF DiscoverySucceeded, fields, threads, msgs, Answering, Idle
  <2>2. QED BY <2>1, CustodyReleased, ReportsUnchanged
<1>3. ASSUME NEW ok \in BOOLEAN, AnswerArrives(l, ok)
      PROVE  OneCustodian' /\ ReportedOnce'
  <2>1. PICK i \in Ident : i = IdentOf[op[l]]
    BY <1>3, MsgAssumption DEF AnswerArrives, Typed, TypeOK
  <2>2. PICK m \in Msg \cup {NoMsg} : m = mMsgCallbackMap[i]
    BY DEF Typed, TypeOK
  <2>3. /\ UNCHANGED <<mDispatchQueue, hand, fresh, reports>>
        /\ mMsgCallbackMap' = [mMsgCallbackMap EXCEPT ![i] = NoMsg]
        /\ ~Answering(l)
        /\ op[l] \in Msg
    BY <1>3, <2>1 DEF AnswerArrives, TakeAnswer, Unfile, threads, msgs, Answering, Idle,
                      Typed, TypeOK
  <2>4. CASE UNCHANGED handler
    BY <2>3, <2>4, CustodyUnfiled, ReportsUnchanged DEF Unfile
  <2>5. CASE ~UNCHANGED handler
    <3>1. m # NoMsg /\ handler' = [handler EXCEPT ![l] =
                         [kind |-> "answer", msg |-> m, from |-> op[l], ok |-> ok]]
      BY <1>3, <2>1, <2>2, <2>5 DEF AnswerArrives, TakeAnswer, FiledFor, Answer
    <3>2. m \in Msg
      BY <3>1
    <3>3. PICK from \in Msg : from = op[l]
      BY <2>3
    <3>4. QED BY <2>2, <2>3, <3>1, <3>2, <3>3, CustodyAnswered, ReportsUnchanged
  <2>6. QED BY <2>4, <2>5
<1>4. QED BY <1>1, <1>2, <1>3 DEF Platform

LEMMA CustodianInductive == Custodian /\ [Next]_vars => Custodian'
<1> SUFFICES ASSUME Custodian, [Next]_vars PROVE OneCustodian' /\ ReportedOnce'
  BY TypedInductive DEF Custodian
<1>1. CASE UNCHANGED vars
  <2>1. UNCHANGED custody /\ UNCHANGED reports
    BY <1>1 DEF vars, custody, fields, threads, gatts, msgs
  <2>2. QED BY <2>1, CustodyUnchanged, ReportsUnchanged DEF Custodian
<1>2. QED
  BY <1>1, ApplicationCustodian, DispatchCustodian, HandleCustodian, PlatformCustodian DEF Next

\* A message object is always in one place: however many dispatcher threads run
\* at once and whatever is answered late, retried or timed out.
THEOREM Custody == Spec => []OneCustodian
<1>1. Init => Custodian
  BY InitTyped, InitCustodian DEF Custodian
<1>2. Custodian => OneCustodian
  BY DEF Custodian
<1>3. QED BY <1>1, CustodianInductive, <1>2, PTL DEF Spec

\* No message is reported twice.
THEOREM ReportedAtMostOnce == Spec => []ReportedOnce
<1>1. Init => Custodian
  BY InitTyped, InitCustodian DEF Custodian
<1>2. Custodian => ReportedOnce
  BY DEF Custodian
<1>3. QED BY <1>1, CustodianInductive, <1>2, PTL DEF Spec
-----------------------------------------------------------------------------
(* The dispatcher implements message delivery.                              *)

LEMMA StatusMoves ==
    ASSUME NEW m \in Msg, NEW to, status'[m] = to,
           \A x \in Msg : x # m => status'[x] = status[x]
    PROVE  status' = [status EXCEPT ![m] = to]
<1>1. /\ status = [x \in Msg |-> status[x]]
      /\ status' = [x \in Msg |-> status'[x]]
  BY DEF status
<1>2. QED BY <1>1

\* A step that reports nothing and submits nothing loses one message at most.
LEMMA LosesAtMost ==
    ASSUME NEW y, UNCHANGED <<fresh, reports>>,
           \A x \in Msg : x # y => (Pending(x)' <=> Pending(x)),
           y \in Msg => (Pending(y)' => Pending(y))
    PROVE  [Delivery!Next]_status
<1>1. \A x \in Msg : x # y => status'[x] = status[x]
  BY DEF status, Reported
<1>2. CASE y \in Msg /\ status'[y] # status[y]
  <2>1. status[y] = "pending" /\ status'[y] = "lost"
    BY <1>2 DEF status, Reported
  <2>2. status' = [status EXCEPT ![y] = "lost"]
    BY <1>1, <1>2, <2>1, StatusMoves
  <2>3. QED BY <1>2, <2>1, <2>2 DEF Delivery!Next, Delivery!Lose, Delivery!Move
<1>3. CASE ~(y \in Msg /\ status'[y] # status[y])
  <2>1. \A x \in Msg : status'[x] = status[x]
    BY <1>1, <1>3
  <2>2. status' = status
    BY <2>1 DEF status
  <2>3. QED BY <2>2
<1>4. QED BY <1>2, <1>3

LEMMA DeliverySubmit ==
    ASSUME Custodian, NEW m \in Msg, m \in fresh, fresh' = fresh \ {m},
           mDispatchQueue' = Append(mDispatchQueue, m),
           UNCHANGED <<hand, mMsgCallbackMap, handler, reports>>
    PROVE  [Delivery!Next]_status
<1>1. ~Reported(m)
  BY DEF Custodian, OneCustodian, InOnePlace
<1>2. \A x \in Msg : Queued(x)' <=> Queued(x) \/ x = m
  BY EnqueueQueued DEF Custodian
<1>3. \A x \in Msg : /\ Pending(x)' <=> Pending(x) \/ x = m
                     /\ Reported(x)' <=> Reported(x)
  BY <1>2 DEF Pending, Held, Filed, Handled, Answering, Reported
<1>4. status[m] = "new" /\ status'[m] = "pending"
  BY <1>1, <1>3 DEF status
<1>5. \A x \in Msg : x # m => status'[x] = status[x]
  BY <1>3 DEF status
<1>6. QED
  BY <1>4, <1>5, StatusMoves DEF Delivery!Next, Delivery!Submit, Delivery!Move

LEMMA DeliveryReport ==
    ASSUME Custodian, NEW l \in Loop, Report(l)
    PROVE  [Delivery!Next]_status
<1>1. PICK m \in Msg : m = handler[l].msg
  BY DEF Report, Custodian, Typed, InUse, Answering
<1>2. /\ Answering(l)
      /\ reports' = [reports EXCEPT ![m] = @ + 1]
      /\ handler' = [handler EXCEPT ![l] = Idle]
      /\ UNCHANGED <<mDispatchQueue, hand, mMsgCallbackMap, fresh>>
  BY <1>1 DEF Report, Answering, fields, threads
<1>3. /\ m \notin fresh /\ ~Reported(m) /\ Pending(m)
      /\ reports \in [Msg -> Nat] /\ handler \in [Loop -> Handlers]
  BY <1>1, <1>2 DEF Custodian, OneCustodian, InOnePlace, Pending, Handled, Typed, TypeOK
<1>4. reports'[m] > 0 /\ \A x \in Msg : x # m => reports'[x] = reports[x]
  BY <1>2, <1>3
<1>5. \A k \in Loop : k # l => handler'[k] = handler[k]
  BY <1>2, <1>3
<1>6. handler'[l].kind # "answer"
  BY <1>2, <1>3 DEF Idle
<1>7. \A x \in Msg : x # m => (Handled(x)' <=> Handled(x))
  BY <1>1, <1>5, <1>6 DEF Handled, Answering
<1>8. \A x \in Msg : x # m => status'[x] = status[x]
  BY <1>2, <1>4, <1>7 DEF status, Pending, Queued, Held, Filed, Reported
<1>9. status[m] = "pending" /\ status'[m] = "done"
  BY <1>2, <1>3, <1>4 DEF status, Reported
<1>10. QED
  BY <1>8, <1>9, StatusMoves DEF Delivery!Next, Delivery!Report, Delivery!Move

\* A retry puts the message back into the queue: it stays pending.
LEMMA DeliveryRetry ==
    ASSUME Custodian, NEW l \in Loop, Retry(l)
    PROVE  [Delivery!Next]_status
<1>1. PICK m \in Msg : m = handler[l].msg
  BY DEF Retry, Custodian, Typed, InUse, Answering
<1>2. /\ Answering(l)
      /\ mDispatchQueue' = Append(mDispatchQueue, m)
      /\ handler' = [handler EXCEPT ![l] = Idle]
      /\ UNCHANGED <<hand, mMsgCallbackMap, fresh, reports>>
      /\ handler \in [Loop -> Handlers]
  BY <1>1 DEF Retry, Resubmit, Enqueue, Answering, Custodian, Typed, TypeOK
<1>3. \A x \in Msg : Queued(x)' <=> Queued(x) \/ x = m
  BY <1>2, EnqueueQueued DEF Custodian
<1>4. /\ handler'[l].kind # "answer"
      /\ \A k \in Loop : k # l => handler'[k] = handler[k]
  BY <1>2 DEF Idle
<1>5. \A x \in Msg : x # m => (Handled(x)' <=> Handled(x))
  BY <1>1, <1>4 DEF Handled, Answering
<1>6. \A x \in Msg : x # m => (Pending(x)' <=> Pending(x))
  BY <1>2, <1>3, <1>5 DEF Pending, Held, Filed
<1>7. Pending(m)
  BY <1>1, <1>2 DEF Pending, Handled
<1>8. QED BY <1>2, <1>6, <1>7, LosesAtMost

LEMMA DeliveryPoll ==
    ASSUME Custodian, NEW l \in Loop, mDispatchQueue # <<>>,
           hand' = [hand EXCEPT ![l] = Head(mDispatchQueue)],
           mDispatchQueue' = Tail(mDispatchQueue),
           UNCHANGED <<mMsgCallbackMap, handler, fresh, reports>>
    PROVE  [Delivery!Next]_status
<1>1. PICK m \in Msg : m = Head(mDispatchQueue)
  BY DequeueQueued DEF Custodian, OneCustodian
<1>2. /\ \A x \in Msg : Queued(x)' <=> Queued(x) /\ x # m
      /\ Queued(m)
  BY <1>1, DequeueQueued DEF Custodian, OneCustodian
<1>3. hand'[l] = m /\ \A k \in Loop : k # l => hand'[k] = hand[k]
  BY <1>1 DEF Custodian, Typed, TypeOK
<1>4. PICK y : y = hand[l]
  OBVIOUS
<1>5. \A x \in Msg : x # y => (Held(x)' <=> Held(x) \/ x = m)
  BY <1>3, <1>4 DEF Held
<1>6. \A x \in Msg : x # y => (Pending(x)' <=> Pending(x))
  BY <1>2, <1>5 DEF Pending, Filed, Handled, Answering
<1>7. y \in Msg => Pending(y)
  BY <1>4 DEF Pending, Held
<1>8. QED BY <1>6, <1>7, LosesAtMost

\* internalSend() keeps its message, replaces another one, or drops its own.
LEMMA DeliverySend ==
    ASSUME Custodian, NEW l \in Loop, InternalSend(l)
    PROVE  [Delivery!Next]_status
<1>1. PICK m \in Msg : m = hand[l]
  BY DEF InternalSend, Custodian, Typed, InUse
<1>2. /\ hand'[l] = NoMsg
      /\ \A k \in Loop : k # l => hand'[k] = hand[k]
      /\ UNCHANGED <<mDispatchQueue, handler, fresh, reports>>
  BY DEF InternalSend, Custodian, Typed, TypeOK
<1>3. \A x \in Msg : x # m => (Held(x)' <=> Held(x))
  BY <1>1, <1>2, MsgAssumption DEF Held
<1>4. Pending(m)
  BY <1>1 DEF Pending, Held
<1>5. CASE UNCHANGED mMsgCallbackMap
  <2>1. \A x \in Msg : x # m => (Pending(x)' <=> Pending(x))
    BY <1>2, <1>3, <1>5 DEF Pending, Queued, Filed, Handled, Answering
  <2>2. QED BY <1>2, <1>4, <2>1, LosesAtMost
<1>6. CASE mMsgCallbackMap' = [mMsgCallbackMap EXCEPT ![IdentOf[m]] = m]
  <2>1. PICK i \in Ident : i = IdentOf[m]
    BY MsgAssumption
  <2>2. PICK y : y = mMsgCallbackMap[i]
    OBVIOUS
  <2>3. /\ mMsgCallbackMap'[i] = m
        /\ \A j \in Ident : j # i => mMsgCallbackMap'[j] = mMsgCallbackMap[j]
    BY <1>6, <2>1 DEF Custodian, Typed, TypeOK
  <2>4. \A x \in Msg : x # y => (Filed(x)' <=> Filed(x) \/ x = m)
    BY <2>2, <2>3 DEF Filed
  <2>5. Filed(m)'
    BY <2>3 DEF Filed
  <2>6. \A x \in Msg : x # y => (Pending(x)' <=> Pending(x))
    <3> SUFFICES ASSUME NEW x \in Msg, x # y PROVE Pending(x)' <=> Pending(x)
      OBVIOUS
    <3>1. CASE x = m
      BY <1>4, <2>5, <3>1 DEF Pending
    <3>2. CASE x # m
      BY <1>2, <1>3, <2>4, <3>2 DEF Pending, Queued, Handled, Answering
    <3>3. QED BY <3>1, <3>2
  <2>7. y \in Msg => Pending(y)
    BY <2>2 DEF Pending, Filed
  <2>8. QED BY <1>2, <2>6, <2>7, LosesAtMost
<1>7. QED BY <1>1, <1>5, <1>6 DEF InternalSend, DropUnavailable, HandToGatt, NullGatt

LEMMA DeliveryCallback ==
    ASSUME Custodian, NEW l \in Loop, ~Answering(l), NEW h \in {Idle, Enabling},
           handler' = [handler EXCEPT ![l] = h],
           UNCHANGED <<mDispatchQueue, hand, mMsgCallbackMap, fresh, reports>>
    PROVE  [Delivery!Next]_status
<1>1. /\ handler'[l].kind # "answer"
      /\ \A k \in Loop : k # l => handler'[k] = handler[k]
  BY DEF Custodian, Typed, TypeOK, Idle, Enabling
<1>2. \A x \in Msg : Handled(x)' <=> Handled(x)
  BY <1>1 DEF Handled, Answering
<1>3. \A x \in Msg : Pending(x)' <=> Pending(x)
  BY <1>2 DEF Pending, Queued, Held, Filed
<1>4. QED BY <1>3, LosesAtMost

LEMMA DeliveryAnswer ==
    ASSUME Custodian, NEW l \in Loop, NEW ok \in BOOLEAN, AnswerArrives(l, ok)
    PROVE  [Delivery!Next]_status
<1>1. PICK i \in Ident : i = IdentOf[op[l]]
  BY MsgAssumption DEF AnswerArrives, Custodian, Typed, TypeOK
<1>2. PICK m : m = mMsgCallbackMap[i]
  OBVIOUS
<1>3. /\ UNCHANGED <<mDispatchQueue, hand, fresh, reports>>
      /\ mMsgCallbackMap'[i] = NoMsg
      /\ \A j \in Ident : j # i => mMsgCallbackMap'[j] = mMsgCallbackMap[j]
      /\ ~Answering(l)
  BY <1>1 DEF AnswerArrives, TakeAnswer, Unfile, threads, msgs, Answering, Idle,
              Custodian, Typed, TypeOK
<1>4. \A x \in Msg : Filed(x)' \/ x = m <=> Filed(x) \/ x = m
  BY <1>2, <1>3, MsgAssumption DEF Filed
<1>5. CASE UNCHANGED handler
  <2>1. \A x \in Msg : x # m => (Pending(x)' <=> Pending(x))
    BY <1>3, <1>4, <1>5 DEF Pending, Queued, Held, Handled, Answering
  <2>2. m \in Msg => Pending(m)
    BY <1>2 DEF Pending, Filed
  <2>3. QED BY <1>3, <2>1, <2>2, LosesAtMost
<1>6. CASE ~UNCHANGED handler
  <2>2. /\ m # NoMsg
        /\ handler' = [handler EXCEPT ![l] = [kind |-> "answer", msg |-> m,
                                              from |-> op[l], ok |-> ok]]
    BY <1>1, <1>2, <1>6 DEF AnswerArrives, TakeAnswer, FiledFor, Answer
  <2>1. m \in Msg /\ Pending(m)
    BY <1>2, <2>2 DEF Custodian, Typed, TypeOK, Pending, Filed
  <2>3. /\ handler'[l].kind = "answer" /\ handler'[l].msg = m
        /\ \A k \in Loop : k # l => handler'[k] = handler[k]
    BY <2>2 DEF Custodian, Typed, TypeOK
  <2>4. \A x \in Msg : Handled(x)' <=> Handled(x) \/ x = m
    BY <1>3, <2>3 DEF Handled, Answering
  <2>5. \A x \in Msg : x # m => (Pending(x)' <=> Pending(x))
    BY <1>3, <1>4, <2>4 DEF Pending, Queued, Held
  <2>6. QED BY <1>3, <2>1, <2>5, LosesAtMost
<1>7. QED BY <1>5, <1>6

LEMMA DeliveryUnchanged == UNCHANGED custody => [Delivery!Next]_status
<1> SUFFICES ASSUME UNCHANGED custody PROVE status' = status
  OBVIOUS
<1>1. QED
  BY DEF custody, status, Pending, Queued, Held, Filed, Handled, Answering, Reported

LEMMA DeliveryStep == Custodian /\ [Next]_vars => [Delivery!Next]_status
<1> SUFFICES ASSUME Custodian, [Next]_vars PROVE [Delivery!Next]_status
  OBVIOUS
<1>1. CASE UNCHANGED vars
  <2>1. UNCHANGED custody
    BY <1>1 DEF vars, custody, fields, threads, gatts, msgs
  <2>2. QED BY <2>1, DeliveryUnchanged
<1>2. CASE Application
  <2>1. ASSUME NEW m \in Msg, Submit(m) PROVE [Delivery!Next]_status
    BY <2>1, DeliverySubmit DEF Submit, Enqueue, gatts
  <2>2. CASE Connect \/ Disconnect \/ SetTimeoutSendQueue
    <3>1. UNCHANGED custody
      BY <2>2 DEF Connect, Disconnect, SetTimeoutSendQueue, custody, gatts, msgs, threads
    <3>2. QED BY <3>1, DeliveryUnchanged
  <2>3. QED BY <1>2, <2>1, <2>2 DEF Application
<1>3. ASSUME NEW l \in Loop, Dispatch(l) PROVE [Delivery!Next]_status
  <2>1. CASE OpenGatt(l) \/ CheckRunning(l) \/ AwaitToken(l) \/ HangUp(l)
             \/ CloseGatt(l) \/ ClearGatt(l)
    <3>1. UNCHANGED custody
      BY <2>1 DEF OpenGatt, CheckRunning, AwaitToken, HangUp, CloseGatt, ClearGatt, custody,
                  fields, gatts, msgs
    <3>2. QED BY <3>1, DeliveryUnchanged
  <2>2. CASE PollQueue(l)
    <3>1. UNCHANGED <<mMsgCallbackMap, handler, fresh, reports>>
      BY <2>2 DEF PollQueue, gatts, msgs
    <3>2. CASE UNCHANGED <<mDispatchQueue, hand>>
      BY <3>1, <3>2, DeliveryUnchanged DEF custody
    <3>3. CASE /\ mDispatchQueue # <<>>
               /\ hand' = [hand EXCEPT ![l] = Head(mDispatchQueue)]
               /\ mDispatchQueue' = Tail(mDispatchQueue)
      BY <3>1, <3>3, DeliveryPoll
    <3>4. QED BY <2>2, <3>2, <3>3 DEF PollQueue
  <2>3. CASE InternalSend(l)
    BY <2>3, DeliverySend
  <2>4. QED BY <1>3, <2>1, <2>2, <2>3 DEF Dispatch
<1>4. ASSUME NEW l \in Loop, Handle(l) PROVE [Delivery!Next]_status
  <2>1. CASE DiscoveryHandled(l)
    BY <2>1, DeliveryCallback
       DEF DiscoveryHandled, threads, msgs, Answering, Enabling, Idle
  <2>2. CASE Report(l)
    BY <2>2, DeliveryReport
  <2>3. CASE Retry(l)
    BY <2>3, DeliveryRetry
  <2>4. ASSUME NEW m \in SetupMsg, EnableNotification(l, m)
        PROVE  [Delivery!Next]_status
    BY <2>4, MsgAssumption, DeliverySubmit DEF EnableNotification, Enqueue, gatts
  <2>5. QED BY <1>4, <2>1, <2>2, <2>3, <2>4 DEF Handle
<1>5. ASSUME NEW l \in Loop, Platform(l) PROVE [Delivery!Next]_status
  <2>1. CASE OnConnecting(l) \/ OnConnected(l) \/ OnDisconnecting(l) \/ OnDisconnected(l)
             \/ DiscoveryFailed(l)
    <3>1. UNCHANGED custody
      BY <2>1 DEF OnConnecting, OnConnected, OnDisconnecting, OnDisconnected,
                  StateChange, DiscoveryFailed, custody, fields, threads, msgs
    <3>2. QED BY <3>1, DeliveryUnchanged
  <2>2. CASE DiscoverySucceeded(l)
    <3>1. /\ UNCHANGED <<mDispatchQueue, mMsgCallbackMap, fresh, reports, hand>>
          /\ ~Answering(l)
          /\ \/ UNCHANGED handler
             \/ handler' = [handler EXCEPT ![l] = Enabling]
      BY <2>2 DEF DiscoverySucceeded, fields, threads, msgs, Answering, Idle
    <3>2. QED BY <3>1, DeliveryUnchanged, DeliveryCallback DEF custody
  <2>3. QED BY <1>5, <2>1, <2>2, DeliveryAnswer DEF Platform
<1>6. QED BY <1>1, <1>2, <1>3, <1>4, <1>5 DEF Next

\* BaseMyo implements message delivery: every step of its threads, callbacks and
\* callers submits, reports or loses one message, or changes none.
THEOREM ImplementsDelivery == Spec => DeliverySpec
<1>1. Init => Delivery!Init
  BY DEF Init, Delivery!Init, status
<1>2. Init => Custodian
  BY InitTyped, InitCustodian DEF Custodian
<1>3. QED
  BY <1>1, <1>2, CustodianInductive, DeliveryStep, PTL DEF Spec, DeliverySpec, Delivery!Spec
-----------------------------------------------------------------------------
(* Answers.                                                                 *)

\* What a callback is about to report was sent under the identifier of the
\* message it is reported to, by a message of the same kind.
AnswersMatch ==
    \A l \in Loop : Answering(l) =>
        /\ IdentOf[handler[l].from] = IdentOf[handler[l].msg]
        /\ SameKind(handler[l].from, handler[l].msg)

AnswerInvariant == Custodian /\ AnswersMatch /\ AnswerFits

\* A handler only changes when an answer arrives or when it ends or begins a
\* callback of another kind; a cause is only recorded by a report.
LEMMA AnswersMoveOnly ==
    ASSUME Custodian, [Next]_vars
    PROVE  /\ \/ UNCHANGED cause
              \/ \E l \in Loop : Report(l)
           /\ \/ \A k \in Loop : Answering(k)' => Answering(k) /\ handler'[k] = handler[k]
              \/ \E l \in Loop, ok \in BOOLEAN : AnswerArrives(l, ok)
<1> DEFINE SameAnswers == \A k \in Loop : Answering(k)' => Answering(k) /\ handler'[k] = handler[k]
<1> USE DEF Answering
<1>1. ASSUME UNCHANGED handler PROVE SameAnswers
  BY <1>1
<1>2. ASSUME NEW l \in Loop, NEW h \in {Idle, Enabling},
             handler' = [handler EXCEPT ![l] = h]
      PROVE  SameAnswers
  BY <1>2 DEF Custodian, Typed, TypeOK, Idle, Enabling
<1>3. CASE UNCHANGED vars
  BY <1>1, <1>3 DEF vars, gatts, msgs
<1>4. CASE Application
  BY <1>1, <1>4 DEF Application, Submit, Connect, Disconnect, SetTimeoutSendQueue, gatts, msgs
<1>5. ASSUME NEW l \in Loop, Dispatch(l) PROVE SameAnswers /\ UNCHANGED cause
  <2>1. UNCHANGED <<handler, cause>>
    BY <1>5 DEF Dispatch, OpenGatt, CheckRunning, AwaitToken, PollQueue, InternalSend,
                HangUp, CloseGatt, ClearGatt, gatts, msgs
  <2>2. QED BY <1>1, <2>1
<1>6. ASSUME NEW l \in Loop, Handle(l)
      PROVE  SameAnswers /\ (UNCHANGED cause \/ Report(l))
  <2>1. CASE DiscoveryHandled(l) \/ Report(l) \/ Retry(l)
    BY <1>2, <2>1 DEF DiscoveryHandled, Report, Retry, msgs
  <2>2. ASSUME NEW m \in SetupMsg, EnableNotification(l, m)
        PROVE  SameAnswers /\ (UNCHANGED cause \/ Report(l))
    BY <1>1, <2>2 DEF EnableNotification, gatts
  <2>3. QED BY <1>6, <2>1, <2>2 DEF Handle
<1>7. ASSUME NEW l \in Loop, Platform(l)
      PROVE  UNCHANGED cause /\ (SameAnswers \/ \E ok \in BOOLEAN : AnswerArrives(l, ok))
  <2>1. CASE OnConnecting(l) \/ OnConnected(l) \/ OnDisconnecting(l) \/ OnDisconnected(l)
             \/ DiscoveryFailed(l)
    BY <1>1, <2>1 DEF OnConnecting, OnConnected, OnDisconnecting, OnDisconnected,
                      StateChange, DiscoveryFailed, msgs
  <2>2. CASE DiscoverySucceeded(l)
    BY <1>1, <1>2, <2>2 DEF DiscoverySucceeded, msgs
  <2>3. CASE \E ok \in BOOLEAN : AnswerArrives(l, ok)
    BY <2>3 DEF AnswerArrives, msgs
  <2>4. QED BY <1>7, <2>1, <2>2, <2>3 DEF Platform
<1>8. QED BY <1>3, <1>4, <1>5, <1>6, <1>7 DEF Next

LEMMA AnswersInductive == AnswerInvariant /\ [Next]_vars => AnswerInvariant'
<1> SUFFICES ASSUME AnswerInvariant, [Next]_vars
             PROVE  AnswersMatch' /\ AnswerFits'
  BY CustodianInductive DEF AnswerInvariant
<1> USE DEF AnswerInvariant
<1>1. AnswersMatch'
  <2>1. CASE \A k \in Loop : Answering(k)' => Answering(k) /\ handler'[k] = handler[k]
    BY <2>1 DEF AnswersMatch
  <2>2. ASSUME NEW l \in Loop, NEW ok \in BOOLEAN, AnswerArrives(l, ok)
        PROVE  AnswersMatch'
    <3>1. PICK i \in Ident : i = IdentOf[op[l]]
      BY <2>2, MsgAssumption DEF AnswerArrives, Custodian, Typed, TypeOK
    <3>2. PICK m : m = mMsgCallbackMap[i]
      OBVIOUS
    <3>3. CASE UNCHANGED handler
      BY <3>3 DEF AnswersMatch, Answering
    <3>4. CASE ~UNCHANGED handler
      <4>2. /\ m # NoMsg
            /\ handler' = [handler EXCEPT ![l] = [kind |-> "answer", msg |-> m,
                                                  from |-> op[l], ok |-> ok]]
            /\ SameKind(op[l], m)
        BY <2>2, <3>1, <3>2, <3>4
           DEF AnswerArrives, TakeAnswer, FiledFor, CastFails, Answer, SameKind
      <4>1. IdentOf[m] = i
        BY <3>2, <4>2 DEF Custodian, OneCustodian, FiledUnderOwnIdent
      <4>3. /\ handler'[l].msg = m /\ handler'[l].from = op[l]
            /\ \A k \in Loop : k # l => handler'[k] = handler[k]
        BY <4>2 DEF Custodian, Typed, TypeOK
      <4>4. QED BY <3>1, <4>1, <4>2, <4>3 DEF AnswersMatch, Answering
    <3>5. QED BY <3>3, <3>4
  <2>3. QED BY <2>1, <2>2, AnswersMoveOnly
<1>2. AnswerFits'
  <2>1. CASE UNCHANGED cause
    BY <2>1 DEF AnswerFits
  <2>2. ASSUME NEW l \in Loop, Report(l) PROVE AnswerFits'
    <3>1. /\ Answering(l)
          /\ cause' = [cause EXCEPT ![handler[l].msg] = handler[l].from]
      BY <2>2 DEF Report, Answering
    <3>2. /\ IdentOf[handler[l].from] = IdentOf[handler[l].msg]
          /\ SameKind(handler[l].from, handler[l].msg)
      BY <3>1 DEF AnswersMatch
    <3>3. QED
      BY <3>1, <3>2 DEF AnswerFits, Custodian, Typed, TypeOK
  <2>3. QED BY <2>1, <2>2, AnswersMoveOnly
<1>3. QED BY <1>1, <1>2

\* Whatever answers come late, are replaced in the map or cross a reconnection,
\* what a message reports is an answer for its own attribute and kind.
THEOREM AnswersFit == Spec => []AnswerFits
<1>1. Init => AnswerInvariant
  <2>1. Init => AnswersMatch /\ AnswerFits
    BY DEF Init, AnswersMatch, Answering, Idle, AnswerFits
  <2>2. QED BY <2>1, InitTyped, InitCustodian DEF AnswerInvariant, Custodian
<1>2. AnswerInvariant => AnswerFits
  BY DEF AnswerInvariant
<1>3. QED BY <1>1, <1>2, AnswersInductive, PTL DEF Spec
-----------------------------------------------------------------------------
(* The retry budget.                                                        *)

\* A message that waits to be sent has, with the transmissions it had and the
\* retries it has left, not used up its retry limit; after a transmission it
\* may be one beyond, until a retry takes one from the counter.
Waiting(m) == m \in fresh \/ Queued(m) \/ Held(m)

Budget(m) ==
    RetryOf[m] >= 0 =>
        /\ retry[m] >= 0
        /\ sends[m] + retry[m] <= RetryOf[m] + 1
        /\ Waiting(m) => sends[m] + retry[m] <= RetryOf[m]

BudgetInvariant == Custodian /\ \A m \in Msg : Budget(m)

\* A step that transmits nothing and retries nothing.
LEMMA BudgetKept ==
    ASSUME BudgetInvariant, UNCHANGED <<retry, sends>>,
           \A m \in Msg : Waiting(m)' => Waiting(m)
    PROVE  \A m \in Msg : Budget(m)'
BY DEF BudgetInvariant, Budget

LEMMA WaitingEnqueued ==
    ASSUME Custodian, NEW m \in Msg, m \in fresh, fresh' = fresh \ {m}, Enqueue(m),
           UNCHANGED hand
    PROVE  \A x \in Msg : Waiting(x)' => Waiting(x)
<1>1. \A x \in Msg : Queued(x)' <=> Queued(x) \/ x = m
  BY EnqueueQueued DEF Custodian, Enqueue
<1>2. QED BY <1>1 DEF Waiting, Held

\* Handing a message to the gatt spends one transmission, and the message no
\* longer waits.
LEMMA BudgetSent ==
    ASSUME BudgetInvariant, NEW l \in Loop, InternalSend(l)
    PROVE  \A m \in Msg : Budget(m)'
<1> USE DEF BudgetInvariant
<1>1. PICK m \in Msg : m = hand[l]
  BY DEF InternalSend, Custodian, Typed, InUse
<1>2. /\ UNCHANGED <<mDispatchQueue, fresh, retry>>
      /\ hand'[l] = NoMsg
      /\ \A k \in Loop : k # l => hand'[k] = hand[k]
  BY DEF InternalSend, Custodian, Typed, TypeOK
<1>3. \A x \in Msg : Waiting(x)' => Waiting(x)
  BY <1>2, MsgAssumption DEF Waiting, Queued, Held
<1>4. CASE UNCHANGED sends
  BY <1>2, <1>3, <1>4, BudgetKept
<1>5. CASE retry[m] >= 0 /\ sends' = [sends EXCEPT ![m] = @ + 1]
  <2>1. InOnePlace(m) /\ Held(m)
    BY <1>1 DEF Custodian, OneCustodian, Held
  <2>2. ~Held(m)'
    BY <1>1, <1>2, MsgAssumption DEF Held, Custodian, OneCustodian, HeldOnce
  <2>3. ~Waiting(m)'
    BY <1>2, <2>1, <2>2 DEF Waiting, InOnePlace, Queued, Pending
  <2>4. Budget(m)'
    <3>1. /\ sends[m] \in Nat /\ retry[m] \in Nat \cup {-1} /\ RetryOf[m] \in Nat \cup {-1}
          /\ sends'[m] = sends[m] + 1 /\ retry'[m] = retry[m]
      BY <1>2, <1>5, MsgAssumption DEF Custodian, Typed, TypeOK
    <3>2. Budget(m) /\ Waiting(m)
      BY <2>1 DEF Waiting
    <3>3. QED BY <2>3, <3>1, <3>2 DEF Budget
  <2>5. ASSUME NEW x \in Msg, x # m PROVE Budget(x)'
    <3>1. sends'[x] = sends[x] /\ retry'[x] = retry[x]
      BY <1>2, <1>5, <2>5 DEF Custodian, Typed, TypeOK
    <3>2. QED BY <1>3, <3>1 DEF Budget
  <2>6. QED BY <2>4, <2>5
<1>6. QED
  BY <1>1, <1>4, <1>5 DEF InternalSend, DropUnavailable, HandToGatt, NullGatt

\* A retry takes one from the counter before the message waits again.
LEMMA BudgetRetried ==
    ASSUME BudgetInvariant, NEW l \in Loop, Retry(l)
    PROVE  \A m \in Msg : Budget(m)'
<1> USE DEF BudgetInvariant
<1>1. PICK m \in Msg : m = handler[l].msg
  BY DEF Retry, Custodian, Typed, InUse, Answering
<1>2. /\ retry[m] # 0 /\ Enqueue(m)
      /\ retry' = IF retry[m] > 0 THEN [retry EXCEPT ![m] = @ - 1] ELSE retry
      /\ UNCHANGED <<hand, fresh, sends>>
  BY <1>1 DEF Retry, Resubmit
<1>3. \A x \in Msg : Queued(x)' <=> Queued(x) \/ x = m
  BY <1>2, EnqueueQueued DEF Custodian, Enqueue
<1>4. /\ sends[m] \in Nat /\ retry[m] \in Nat \cup {-1} /\ RetryOf[m] \in Nat \cup {-1}
      /\ retry \in [Msg -> Nat \cup {-1}]
  BY MsgAssumption DEF Custodian, Typed, TypeOK
<1>5. Budget(m)'
  <2>1. CASE retry[m] > 0
    <3>1. retry'[m] = retry[m] - 1 /\ sends'[m] = sends[m]
      BY <1>2, <1>4, <2>1
    <3>2. QED BY <1>4, <2>1, <3>1 DEF Budget
  <2>2. CASE ~(retry[m] > 0)
    <3>1. retry[m] = -1 /\ retry'[m] = retry[m]
      BY <1>2, <1>4, <2>2
    <3>2. ~(RetryOf[m] >= 0)
      BY <3>1 DEF Budget
    <3>3. QED BY <3>2 DEF Budget
  <2>3. QED BY <2>1, <2>2
<1>6. ASSUME NEW x \in Msg, x # m PROVE Budget(x)'
  <2>1. retry'[x] = retry[x] /\ sends'[x] = sends[x]
    BY <1>2, <1>4, <1>6
  <2>2. Waiting(x)' => Waiting(x)
    BY <1>2, <1>3, <1>6 DEF Waiting, Held
  <2>3. QED BY <2>1, <2>2 DEF Budget
<1>7. QED BY <1>5, <1>6

LEMMA BudgetInductive == BudgetInvariant /\ [Next]_vars => BudgetInvariant'
<1> SUFFICES ASSUME BudgetInvariant, [Next]_vars PROVE \A m \in Msg : Budget(m)'
  BY CustodianInductive DEF BudgetInvariant
<1>1. ASSUME UNCHANGED <<mDispatchQueue, hand, fresh, retry, sends>>
      PROVE  \A m \in Msg : Budget(m)'
  BY <1>1, BudgetKept DEF Waiting, Queued, Held
<1>2. CASE UNCHANGED vars
  BY <1>1, <1>2 DEF vars, fields, threads, msgs
<1>3. CASE Application
  <2>1. ASSUME NEW m \in Msg, Submit(m) PROVE \A x \in Msg : Budget(x)'
    BY <2>1, BudgetKept, WaitingEnqueued DEF Submit, BudgetInvariant
  <2>2. CASE Connect \/ Disconnect \/ SetTimeoutSendQueue
    BY <1>1, <2>2 DEF Connect, Disconnect, SetTimeoutSendQueue, threads, msgs
  <2>3. QED BY <1>3, <2>1, <2>2 DEF Application
<1>4. ASSUME NEW l \in Loop, Dispatch(l) PROVE \A m \in Msg : Budget(m)'
  <2>1. CASE OpenGatt(l) \/ CheckRunning(l) \/ AwaitToken(l) \/ HangUp(l)
             \/ CloseGatt(l) \/ ClearGatt(l)
    BY <1>1, <2>1 DEF OpenGatt, CheckRunning, AwaitToken, HangUp, CloseGatt, ClearGatt, fields, msgs
  <2>2. CASE PollQueue(l)
    <3>1. UNCHANGED <<fresh, retry, sends>>
      BY <2>2 DEF PollQueue, msgs
    <3>2. CASE UNCHANGED <<mDispatchQueue, hand>>
      BY <1>1, <3>1, <3>2
    <3>3. CASE /\ mDispatchQueue # <<>>
               /\ hand' = [hand EXCEPT ![l] = Head(mDispatchQueue)]
               /\ mDispatchQueue' = Tail(mDispatchQueue)
      <4>1. PICK m \in Msg : m = Head(mDispatchQueue)
        BY <3>3, DequeueQueued DEF BudgetInvariant, Custodian, OneCustodian
      <4>2. Queued(m) /\ \A x \in Msg : Queued(x)' => Queued(x)
        BY <3>3, <4>1, DequeueQueued DEF BudgetInvariant, Custodian, OneCustodian
      <4>3. \A x \in Msg : Held(x)' => Held(x) \/ x = m
        BY <3>3, <4>1 DEF Held, BudgetInvariant, Custodian, Typed, TypeOK
      <4>4. QED BY <3>1, <4>2, <4>3, BudgetKept DEF Waiting
    <3>4. QED BY <2>2, <3>2, <3>3 DEF PollQueue
  <2>3. CASE InternalSend(l)
    BY <2>3, BudgetSent
  <2>4. QED BY <1>4, <2>1, <2>2, <2>3 DEF Dispatch
<1>5. ASSUME NEW l \in Loop, Handle(l) PROVE \A m \in Msg : Budget(m)'
  <2>1. CASE DiscoveryHandled(l) \/ Report(l)
    BY <1>1, <2>1 DEF DiscoveryHandled, Report, fields, threads, msgs
  <2>2. CASE Retry(l)
    BY <2>2, BudgetRetried
  <2>3. ASSUME NEW m \in SetupMsg, EnableNotification(l, m)
        PROVE  \A x \in Msg : Budget(x)'
    BY <2>3, BudgetKept, WaitingEnqueued, MsgAssumption
       DEF EnableNotification, BudgetInvariant
  <2>4. QED BY <1>5, <2>1, <2>2, <2>3 DEF Handle
<1>6. ASSUME NEW l \in Loop, Platform(l) PROVE \A m \in Msg : Budget(m)'
  BY <1>1, <1>6 DEF Platform, OnConnecting, OnConnected, OnDisconnecting, OnDisconnected,
         StateChange, DiscoveryFailed, DiscoverySucceeded, AnswerArrives, fields, threads, msgs
<1>7. QED BY <1>2, <1>3, <1>4, <1>5, <1>6 DEF Next

\* No overlap of dispatcher threads, late answer or timeout lets a message be
\* transmitted more than once beyond its retry limit.
THEOREM RetriesAreLimited == Spec => []RetryBudget
<1>1. Init => BudgetInvariant
  <2> SUFFICES ASSUME Init PROVE BudgetInvariant
    OBVIOUS
  <2>1. \A m \in Msg : Budget(m)
    BY MsgAssumption DEF Init, Budget
  <2>2. QED BY <2>1, InitTyped, InitCustodian DEF BudgetInvariant, Custodian
<1>2. BudgetInvariant => RetryBudget
  <2> SUFFICES ASSUME BudgetInvariant, NEW m \in Msg, RetryOf[m] >= 0
               PROVE  sends[m] <= RetryOf[m] + 1
    BY DEF RetryBudget
  <2>1. sends[m] \in Nat /\ retry[m] \in Nat \cup {-1} /\ RetryOf[m] \in Nat \cup {-1}
    BY MsgAssumption DEF BudgetInvariant, Custodian, Typed, TypeOK
  <2>2. QED BY <2>1 DEF BudgetInvariant, Budget
<1>3. QED BY <1>1, <1>2, BudgetInductive, PTL DEF Spec
=============================================================================
