------------------------- MODULE BaseMyoSessionProofs -------------------------
(***************************************************************************)
(* Theorems about one dispatcher thread at a time.                          *)
(*                                                                          *)
(* Nothing keeps two dispatcher threads of a BaseMyo from overlapping, and  *)
(* then one may send on the gatt of the other or find the field null.       *)
(* Until they do each thread owns the field mBluetoothGatt; and until a     *)
(* second thread, a timeout or a lost link disturbs the session, messages   *)
(* are sent and answered one after the other.  Each theorem holds of every  *)
(* behaviour: what it promises is conditional on the history so far.        *)
(***************************************************************************)
EXTENDS BaseMyoProofs

-----------------------------------------------------------------------------
(* The field mBluetoothGatt.                                                *)

\* From connectGatt() to close() the gatt of a thread may be open.
Busy == {"checking", "waiting", "woken", "sending", "closing", "hungUp"}

OneAtATime == \A l, k \in Loop : Alive(l) /\ Alive(k) => l = k

\* A busy thread finds its own gatt in the field.
OwnGatt == \A l \in Loop : pc[l] \in Busy => mBluetoothGatt = l

\* A gatt is open only while the thread that opened it is busy.
OpenedByThread == \A l \in Loop : link[l] \notin {"none", "closed"} => pc[l] \in Busy

Alone == OneAtATime /\ OwnGatt /\ OpenedByThread /\ ~crashed

GattInvariant == Typed /\ (past # "overlap" => Alone)

\* What a step may do to the field, to the gatts and to the place of a thread.
LEMMA GattMoves ==
    ASSUME [Next]_vars
    PROVE  \/ UNCHANGED <<mBluetoothGatt, crashed, link, past>> /\ pc' = pc
           \/ UNCHANGED <<mBluetoothGatt, crashed, link>> /\ NewThread
           \/ \E l \in Loop : Dispatch(l)
           \/ \E l \in Loop : Platform(l) /\ UNCHANGED <<mBluetoothGatt, crashed, past, pc>>
<1> DEFINE Still == UNCHANGED <<mBluetoothGatt, crashed, link, past>> /\ pc' = pc
           Starts == UNCHANGED <<mBluetoothGatt, crashed, link>> /\ NewThread
<1>1. CASE UNCHANGED vars
  BY <1>1 DEF vars, fields, threads, gatts
<1>2. CASE Application
  BY <1>2 DEF Application, Submit, Enqueue, StartDispatcher, Connect, Disconnect,
              SetTimeoutSendQueue, threads, gatts
<1>3. ASSUME NEW l \in Loop, Handle(l) PROVE Still \/ Starts
  BY <1>3 DEF Handle, DiscoveryHandled, Report, Retry, Resubmit, EnableNotification, Enqueue,
              StartDispatcher, fields, threads, gatts
<1>4. ASSUME NEW l \in Loop, Platform(l)
      PROVE  UNCHANGED <<mBluetoothGatt, crashed, past, pc>>
  BY <1>4 DEF Platform, OnConnecting, OnConnected, OnDisconnecting, OnDisconnected,
         StateChange, DiscoveryFailed, DiscoverySucceeded, AnswerArrives, fields, threads
<1>5. QED BY <1>1, <1>2, <1>3, <1>4 DEF Next

\* A thread that is started while no other is alive disturbs nothing.
LEMMA AloneStarted ==
    ASSUME GattInvariant, UNCHANGED <<mBluetoothGatt, crashed, link>>, NewThread,
           past' # "overlap"
    PROVE  Alone'
<1>1. (\A k \in Loop : ~Alive(k)) /\ past # "overlap"
  BY DEF NewThread
<1>2. PICK l \in Loop : pc[l] = "unborn" /\ pc' = [pc EXCEPT ![l] = "starting"]
  BY DEF NewThread
<1>3. pc'[l] = "starting" /\ \A k \in Loop : k # l => pc'[k] = pc[k]
  BY <1>2 DEF GattInvariant, Typed, TypeOK
<1>4. Alone
  BY <1>1 DEF GattInvariant
<1>5. OneAtATime' /\ OwnGatt'
  BY <1>1, <1>3 DEF OneAtATime, OwnGatt, Alive, Busy
<1>6. OpenedByThread' /\ ~crashed'
  BY <1>1, <1>4, <1>3 DEF Alone, OpenedByThread, Alive, Busy
<1>7. QED BY <1>5, <1>6 DEF Alone

LEMMA AloneDispatched ==
    ASSUME Typed, Alone, NEW l \in Loop, Dispatch(l)
    PROVE  Alone'
<1>1. pc \in [Loop -> PCs] /\ link \in [Loop -> Links] /\ Alive(l)
  BY DEF Typed, TypeOK, Alive, Dispatch, OpenGatt, CheckRunning, AwaitToken, PollQueue,
         InternalSend, HangUp, CloseGatt, ClearGatt
<1>2. \A k \in Loop : k # l => pc[k] \in {"unborn", "ended"}
  BY <1>1 DEF Alone, OneAtATime, Alive
<1>3. ASSUME NEW there, Goto(l, there)
      PROVE  pc'[l] = there /\ \A k \in Loop : k # l => pc'[k] = pc[k]
  BY <1>1, <1>3 DEF Goto
<1>4. OneAtATime'
  <2>1. PICK there \in PCs : Goto(l, there)
    BY DEF Dispatch, OpenGatt, CheckRunning, AwaitToken, PollQueue, InternalSend, HangUp,
           CloseGatt, ClearGatt, PCs
  <2>2. QED BY <1>2, <1>3, <2>1 DEF OneAtATime, Alive
<1>5. CASE OpenGatt(l)
  BY <1>1, <1>2, <1>3, <1>4, <1>5 DEF OpenGatt, Alone, OwnGatt, OpenedByThread, Busy
<1>6. CASE CheckRunning(l) \/ AwaitToken(l) \/ PollQueue(l) \/ InternalSend(l) \/ HangUp(l)
  <2>1. UNCHANGED <<link, mBluetoothGatt>> /\ pc[l] \in Busy
    BY <1>6 DEF CheckRunning, AwaitToken, PollQueue, InternalSend, HangUp, fields, gatts, Busy
  <2>2. PICK there \in Busy : Goto(l, there)
    BY <1>6 DEF CheckRunning, AwaitToken, PollQueue, InternalSend, HangUp, Busy
  <2>3. mBluetoothGatt # NoGatt
    BY <2>1, LoopAssumption DEF Alone, OwnGatt
  <2>4. UNCHANGED crashed
    BY <1>6, <2>3 DEF CheckRunning, AwaitToken, PollQueue, InternalSend, DropUnavailable,
                      HandToGatt, NullGatt, HangUp
  <2>5. OwnGatt'
    BY <1>2, <1>3, <2>1, <2>2 DEF Alone, OwnGatt, Busy
  <2>6. OpenedByThread'
    BY <1>3, <2>1, <2>2 DEF Alone, OpenedByThread
  <2>7. QED BY <1>4, <2>4, <2>5, <2>6 DEF Alone
<1>7. CASE CloseGatt(l)
  <2>1. mBluetoothGatt = l /\ mBluetoothGatt # NoGatt
    BY <1>7, LoopAssumption DEF CloseGatt, Alone, OwnGatt, Busy
  <2>2. /\ link' = [link EXCEPT ![l] = "closed"] /\ Goto(l, "clearing")
        /\ UNCHANGED <<mBluetoothGatt, crashed>>
    BY <1>7, <2>1 DEF CloseGatt, fields
  <2>3. OwnGatt' /\ OpenedByThread'
    BY <1>1, <1>2, <1>3, <2>2 DEF Alone, OwnGatt, OpenedByThread, Busy
  <2>4. QED BY <1>4, <2>2, <2>3 DEF Alone
<1>8. CASE ClearGatt(l)
  BY <1>2, <1>3, <1>4, <1>8 DEF ClearGatt, gatts, Alone, OwnGatt, OpenedByThread, Busy
<1>9. QED
  BY <1>5, <1>6, <1>7, <1>8 DEF Dispatch

LEMMA AloneCalledBack ==
    ASSUME Typed, Alone, NEW l \in Loop, Platform(l),
           UNCHANGED <<mBluetoothGatt, crashed, pc>>
    PROVE  Alone'
<1>1. link \in [Loop -> Links]
  BY DEF Typed, TypeOK
<1>2. \/ UNCHANGED link
      \/ link[l] \notin {"none", "closed"} /\ \E s \in Links : link' = [link EXCEPT ![l] = s]
  BY DEF Platform, OnConnecting, OnConnected, OnDisconnecting, OnDisconnected,
         StateChange, DiscoveryFailed, DiscoverySucceeded, AnswerArrives, Links, LinkUp
<1>3. OpenedByThread'
  BY <1>1, <1>2 DEF Alone, OpenedByThread
<1>4. QED BY <1>3 DEF Alone, OneAtATime, OwnGatt, Alive

\* The history never forgets an overlap.
LEMMA OverlapStays == [Next]_vars /\ past' # "overlap" => past # "overlap"
<1> SUFFICES ASSUME [Next]_vars, past = "overlap" PROVE past' = "overlap"
  OBVIOUS
<1>1. CASE UNCHANGED vars
  BY <1>1 DEF vars
<1>2. CASE Application
  BY <1>2 DEF Application, Submit, Enqueue, StartDispatcher, NewThread, Connect, Disconnect,
              SetTimeoutSendQueue
<1>3. ASSUME NEW l \in Loop, Dispatch(l) PROVE past' = "overlap"
  BY <1>3 DEF Dispatch, OpenGatt, CheckRunning, AwaitToken, TakeToken, Acquire, TimesOut,
              PollQueue, InternalSend, HangUp, CloseGatt, ClearGatt
<1>4. ASSUME NEW l \in Loop, Handle(l) PROVE past' = "overlap"
  BY <1>4 DEF Handle, DiscoveryHandled, Report, Retry, Resubmit, EnableNotification, Enqueue,
              StartDispatcher, NewThread
<1>5. ASSUME NEW l \in Loop, Platform(l) PROVE past' = "overlap"
  BY <1>5 DEF Platform, OnConnecting, OnConnected, OnDisconnecting, OnDisconnected,
              StateChange, DiscoveryFailed, DiscoverySucceeded, AnswerArrives
<1>6. QED BY <1>1, <1>2, <1>3, <1>4, <1>5 DEF Next

LEMMA GattInductive == GattInvariant /\ [Next]_vars => GattInvariant'
<1> SUFFICES ASSUME GattInvariant, [Next]_vars, past' # "overlap" PROVE Alone'
  BY TypedInductive DEF GattInvariant
<1>1. Typed /\ Alone
  BY OverlapStays DEF GattInvariant
<1>2. CASE UNCHANGED <<mBluetoothGatt, crashed, link>> /\ pc' = pc
  BY <1>1, <1>2 DEF Alone, OneAtATime, OwnGatt, OpenedByThread, Alive
<1>3. QED
  BY <1>1, <1>2, GattMoves, AloneStarted, AloneDispatched, AloneCalledBack

\* Only dispatcher threads that overlap can find the field null or leave a gatt
\* open: as long as each has ended before the next one starts, whatever the link,
\* the timeouts and the callers do, none fails and each closes its own gatt.
THEOREM OnlyOverlapHarms == Spec => []OwnGattAlone
<1>1. Init => GattInvariant
  <2>1. Init => Alone
    BY DEF Init, Alone, OneAtATime, OwnGatt, OpenedByThread, Alive, Busy
  <2>2. QED BY <2>1, InitTyped DEF GattInvariant
<1>2. GattInvariant => OwnGattAlone
  BY DEF GattInvariant, Alone, OpenedByThread, Busy, OwnGattAlone, ClosedWhenStopped, Typed,
         TypeOK
<1>3. QED BY <1>1, <1>2, GattInductive, PTL DEF Spec
-----------------------------------------------------------------------------
(* One undisturbed session.                                                 *)

\* onServicesDiscovered has released its permit.
Discovered(l) == link[l] = "ready" /\ handler[l].kind # "enabling"

\* Where the one thread, its gatt and the field are: the link stays up until
\* the thread hangs up, which it only does when the dispatcher was stopped.
Stage(l) ==
    /\ pc[l] \in {"unborn", "starting"} =>
           link[l] = "none" /\ handler[l] = Idle /\ op[l] = NoMsg
    /\ pc[l] \in Busy => mBluetoothGatt = l
    /\ pc[l] \in {"closing", "hungUp", "clearing", "ended"} => ~mRunning
    /\ pc[l] \in Busy \ {"hungUp"} =>
           link[l] \in {"waiting"} \cup LinkUp /\ mConnectionState # "DISCONNECTING"
    /\ l \in leaving => pc[l] = "hungUp"
    /\ handler[l].kind = "enabling" /\ mRunning => link[l] = "ready"

\* Before the services are known there is no permit, and nothing is sent.
Early(l) == link[l] # "ready" =>
    /\ op[l] = NoMsg /\ pc[l] # "sending"
    /\ mRunning /\ pc[l] # "unborn" => mWaitToken = 0 /\ pc[l] # "woken"

\* Until a wait times out, there is one permit or one message under way while the
\* dispatcher runs: the permit of the discovery, passed on by every answer and by
\* every empty poll.
OneTurn(l) == past = "calm" =>
    /\ ~Discovered(l) =>
           /\ op[l] = NoMsg /\ pc[l] # "sending"
           /\ mRunning /\ pc[l] # "unborn" => mWaitToken = 0 /\ pc[l] # "woken"
    /\ pc[l] = "sending" => op[l] = NoMsg
    /\ mRunning /\ pc[l] # "unborn" =>
           /\ mWaitToken <= 1
           /\ pc[l] = "woken" => op[l] = NoMsg
           /\ mWaitToken > 0 => pc[l] \notin {"woken", "sending"} /\ op[l] = NoMsg

\* The outstanding message is the one filed, and what is answered is its own.
OwnTurn(l) == past = "calm" =>
    /\ op[l] # NoMsg => mMsgCallbackMap[IdentOf[op[l]]] = op[l]
    /\ Answering(l) => handler[l].from = handler[l].msg

\* A filed message is outstanding, until the gatt is closed under it.
FiledOutstanding == past = "calm" =>
    \A i \in Ident : mMsgCallbackMap[i] # NoMsg =>
        \E l \in Loop : op[l] = mMsgCallbackMap[i] \/ pc[l] \in {"hungUp", "clearing", "ended"}

HandSends == \A l \in Loop : hand[l] # NoMsg => pc[l] = "sending"

Turn(l) == Stage(l) /\ Early(l) /\ OneTurn(l) /\ OwnTurn(l)

\* Before the first connectGatt() nothing was said of the connection.
Untouched ==
    (\A l \in Loop : pc[l] \in {"unborn", "starting"}) => mConnectionState = "DISCONNECTED"

Turns == (\A l \in Loop : Turn(l)) /\ FiledOutstanding /\ HandSends /\ Untouched

SessionInvariant == Custodian /\ (Steady => Turns) /\ OwnAnswer

\* What Turns is about, the queue and the message objects left aside.
turns == <<mRunning, mConnectionState, mWaitToken, mMsgCallbackMap, mBluetoothGatt,
           pc, hand, link, op, handler, leaving, past>>

LEMMA TurnsUnchanged == Turns /\ UNCHANGED turns => Turns'
BY DEF turns, Turns, Turn, Stage, Early, OneTurn, OwnTurn, Discovered, Answering,
       FiledOutstanding, HandSends, Untouched

\* A callback of another kind than "enabling" ends.
LEMMA TurnsAnswered ==
    ASSUME Custodian, Turns, NEW l \in Loop, Answering(l),
           handler' = [handler EXCEPT ![l] = Idle],
           UNCHANGED <<mRunning, mConnectionState, mWaitToken, mMsgCallbackMap,
                       mBluetoothGatt, pc, hand, link, op, leaving, past>>
    PROVE  Turns'
<1>1. /\ handler'[l] = Idle
      /\ \A k \in Loop : k # l => handler'[k] = handler[k]
  BY DEF Custodian, Typed, TypeOK
<1>2. \A k \in Loop : /\ Discovered(k)' <=> Discovered(k)
                      /\ Answering(k)' => Answering(k) /\ handler'[k] = handler[k]
  BY <1>1 DEF Discovered, Answering, Idle
<1>3. \A k \in Loop : /\ handler[k] = Idle => handler'[k] = Idle
                      /\ handler'[k].kind = "enabling" => handler[k].kind = "enabling"
  BY <1>1 DEF Idle
<1>4. ASSUME NEW k \in Loop PROVE Turn(k)'
  BY <1>2, <1>3 DEF Turns, Turn, Stage, Early, OneTurn, OwnTurn
<1>5. QED BY <1>4 DEF Turns, FiledOutstanding, HandSends, Untouched

\* connect() starts the first dispatcher thread: in a steady session none was
\* started before.
LEMMA StartsAlone ==
    ASSUME Typed, Steady', StartDispatcher
    PROVE  \A k \in Loop : pc[k] = "unborn"
<1>1. PICK l \in Loop : pc[l] = "unborn" /\ pc' = [pc EXCEPT ![l] = "starting"]
  BY DEF StartDispatcher, NewThread
<1>2. pc'[l] = "starting" /\ \A k \in Loop : k # l => pc'[k] = pc[k]
  BY <1>1 DEF Typed, TypeOK
<1>3. QED BY <1>1, <1>2 DEF Steady, OneThread

LEMMA TurnsStarted ==
    ASSUME Custodian, Turns, Steady', StartDispatcher,
           UNCHANGED <<mConnectionState, mMsgCallbackMap, mBluetoothGatt, hand, link, op,
                       handler, leaving>>
    PROVE  Turns'
<1>1. \A k \in Loop : pc[k] = "unborn"
  BY StartsAlone DEF Custodian
<1>2. /\ \A k \in Loop : pc'[k] \in {"unborn", "starting"}
      /\ past' = past /\ mWaitToken' = 0
  BY <1>1 DEF StartDispatcher, NewThread, Alive, Custodian, Typed, TypeOK
<1>3. \A k \in Loop : /\ link[k] = "none" /\ handler[k] = Idle /\ op[k] = NoMsg
                      /\ hand[k] = NoMsg /\ k \notin leaving
  BY <1>1 DEF Turns, Turn, Stage, HandSends
<1>4. ASSUME NEW k \in Loop PROVE Turn(k)'
  <2>1. link'[k] = "none" /\ op'[k] = NoMsg /\ handler'[k] = Idle /\ k \notin leaving'
    BY <1>3
  <2>2. handler'[k].kind = "idle"
    BY <2>1 DEF Idle
  <2>3. Stage(k)' /\ Early(k)'
    BY <1>2, <2>1, <2>2 DEF Stage, Early, Busy
  <2>4. OneTurn(k)' /\ OwnTurn(k)'
    BY <1>2, <2>1, <2>2 DEF OneTurn, OwnTurn, Discovered, Answering
  <2>5. QED BY <2>3, <2>4 DEF Turn
<1>5. HandSends'
  BY <1>3 DEF HandSends
<1>6. FiledOutstanding'
  BY <1>1, <1>2, <1>3 DEF Turns, FiledOutstanding
<1>7. Untouched'
  BY <1>1 DEF Turns, Untouched
<1>8. QED BY <1>4, <1>5, <1>6, <1>7 DEF Turns

\* submit() by the application, by onServicesDiscovered and by a retry.
LEMMA TurnsEnqueued ==
    ASSUME Custodian, Turns, Steady', NEW m, Enqueue(m),
           UNCHANGED <<mConnectionState, mMsgCallbackMap, mBluetoothGatt, hand, link, op,
                       leaving>>,
           \/ UNCHANGED handler
           \/ \E l \in Loop : Answering(l) /\ handler' = [handler EXCEPT ![l] = Idle]
    PROVE  Turns'
<1>1. CASE mRunning
  BY <1>1, TurnsUnchanged, TurnsAnswered DEF Enqueue, turns
<1>2. CASE ~mRunning
  <2>1. StartDispatcher
    BY <1>2 DEF Enqueue
  <2>2. \A k \in Loop : ~Answering(k)
    BY <2>1, StartsAlone DEF Custodian, Turns, Turn, Stage, Answering, Idle
  <2>3. QED BY <2>1, <2>2, TurnsStarted
<1>3. QED BY <1>1, <1>2

LEMMA TurnsApplication ==
    ASSUME Custodian, Turns, Steady', Application
    PROVE  Turns'
<1>1. ASSUME NEW m \in Msg, Submit(m) PROVE Turns'
  BY <1>1, TurnsEnqueued DEF Submit, gatts
<1>2. CASE Connect
  BY <1>2, TurnsStarted DEF Connect, gatts
<1>3. CASE Disconnect
  <2>1. ~mRunning'
    BY <1>3, Zenon DEF Disconnect, Stop
  <2>2. UNCHANGED <<mConnectionState, mMsgCallbackMap, mBluetoothGatt, pc, hand, link, op,
                    handler, leaving, past>>
    BY <1>3 DEF Disconnect, threads, gatts
  <2>3. \A k \in Loop : Turn(k)'
    BY <2>1, <2>2 DEF Turns, Turn, Stage, Early, OneTurn, OwnTurn, Discovered, Answering
  <2>4. QED BY <2>2, <2>3 DEF Turns, FiledOutstanding, HandSends, Untouched
<1>4. CASE SetTimeoutSendQueue
  BY <1>4, TurnsUnchanged DEF SetTimeoutSendQueue, turns, threads, gatts
<1>5. QED BY <1>1, <1>2, <1>3, <1>4 DEF Application

\* A thread that was never started has no gatt, no operation and no callback.
LEMMA Bystander ==
    ASSUME Turns, NEW k \in Loop, pc[k] = "unborn", pc'[k] = "unborn",
           link'[k] = link[k], handler'[k] = handler[k], op'[k] = op[k],
           k \in leaving' => k \in leaving
    PROVE  Turn(k)'
<1>1. link'[k] = "none" /\ handler'[k] = Idle /\ op'[k] = NoMsg /\ k \notin leaving'
  BY DEF Turns, Turn, Stage
<1>2. handler'[k].kind = "idle"
  BY <1>1 DEF Idle
<1>3. QED
  BY <1>1, <1>2 DEF Turn, Stage, Early, OneTurn, OwnTurn, Discovered, Answering, Busy

\* The thread that takes a step is the only one.
LEMMA DispatchesAlone ==
    ASSUME Typed, Steady, NEW l \in Loop, Dispatch(l)
    PROVE  /\ pc[l] # "unborn"
           /\ \A k \in Loop : k # l => pc[k] = "unborn"
           /\ \A there : Goto(l, there) =>
                  pc'[l] = there /\ \A k \in Loop : k # l => pc'[k] = pc[k]
<1>1. pc[l] # "unborn"
  BY DEF Dispatch, OpenGatt, CheckRunning, AwaitToken, PollQueue, InternalSend, HangUp,
         CloseGatt, ClearGatt
<1>2. QED BY <1>1 DEF Steady, OneThread, Typed, TypeOK, Goto

LEMMA TurnsDispatch ==
    ASSUME Custodian, Turns, Steady, Steady', NEW l \in Loop, Dispatch(l)
    PROVE  Turns'
<1> DEFINE Moves(there) ==
               pc'[l] = there /\ \A k \in Loop : k # l => pc[k] = "unborn" /\ pc'[k] = "unborn"
<1>1. pc[l] # "unborn" /\ \A there : Goto(l, there) => Moves(there)
  BY DispatchesAlone DEF Custodian
<1>2. /\ Typed /\ FiledOutstanding /\ HandSends
      /\ Stage(l) /\ Early(l) /\ OneTurn(l) /\ OwnTurn(l)
  BY DEF Custodian, Turns, Turn
<1>3. ASSUME NEW there, Moves(there), Turn(l)', FiledOutstanding', HandSends',
             \A k \in Loop : k # l =>
                 /\ link'[k] = link[k] /\ handler'[k] = handler[k]
                 /\ op'[k] = op[k] /\ (k \in leaving' => k \in leaving),
             there \notin {"unborn", "starting"}
      PROVE  Turns'
  <2>1. \A k \in Loop : Turn(k)'
    BY <1>3, Bystander
  <2>2. QED BY <1>3, <2>1 DEF Turns, Untouched
<1>4. CASE OpenGatt(l)
  <2>1. /\ pc[l] = "starting" /\ Moves("checking") /\ mBluetoothGatt' = l
        /\ link'[l] = "waiting" /\ \A k \in Loop : k # l => link'[k] = link[k]
        /\ UNCHANGED <<mRunning, mConnectionState, mWaitToken, mMsgCallbackMap, hand, op,
                       handler, leaving, past>>
    BY <1>1, <1>2, <1>4 DEF OpenGatt, Typed, TypeOK
  <2>2. op[l] = NoMsg /\ handler[l] = Idle /\ ~Discovered(l) /\ ~Discovered(l)'
    BY <1>2, <2>1 DEF Stage, Discovered
  <2>3. mConnectionState # "DISCONNECTING"
    BY <1>1, <2>1 DEF Turns, Untouched
  <2>4. Turn(l)'
    BY <1>2, <2>1, <2>2, <2>3
       DEF Turn, Stage, Early, OneTurn, OwnTurn, Answering, Idle, Busy
  <2>5. FiledOutstanding' /\ HandSends'
    BY <1>1, <1>2, <2>1 DEF FiledOutstanding, HandSends
  <2>6. QED BY <1>3, <2>1, <2>4, <2>5
<1>5. CASE CheckRunning(l)
  <2>1. /\ pc[l] = "checking"
        /\ \/ ~mRunning /\ Moves("closing")
           \/ mRunning /\ Moves("waiting")
        /\ UNCHANGED <<mRunning, mConnectionState, mWaitToken, mMsgCallbackMap, mBluetoothGatt,
                       hand, link, op, handler, leaving, past>>
    BY <1>1, <1>5 DEF CheckRunning, fields, gatts
  <2>2. Turn(l)'
    BY <1>2, <2>1 DEF Turn, Stage, Early, OneTurn, OwnTurn, Answering, Discovered, Busy
  <2>3. FiledOutstanding' /\ HandSends'
    BY <1>1, <1>2, <2>1 DEF FiledOutstanding, HandSends
  <2>4. QED BY <1>3, <2>1, <2>2, <2>3
<1>6. CASE AwaitToken(l)
  <2>1. /\ pc[l] = "waiting" /\ Moves("woken")
        /\ UNCHANGED <<mRunning, mConnectionState, mMsgCallbackMap, mBluetoothGatt, hand, link,
                       op, handler, leaving>>
        /\ mWaitToken \in Nat
    BY <1>1, <1>2, <1>6 DEF AwaitToken, gatts, Typed, TypeOK
  \* a wait that times out before the services are known is an early one
  <2>2. \/ mWaitToken > 0 /\ mWaitToken' = mWaitToken - 1 /\ past' = past
        \/ mWaitToken' = mWaitToken /\ past' = "timeout" /\ \E k \in Loop : link[k] = "ready"
    BY <1>6 DEF AwaitToken, TakeToken, Acquire, TimesOut, Steady
  <2>3. mRunning => link[l] = "ready"
    <3>1. CASE mWaitToken > 0
      BY <1>2, <2>1, <3>1 DEF Early
    <3>2. CASE \E k \in Loop : link[k] = "ready"
      BY <2>1, <3>2 DEF Turns, Turn, Stage
    <3>3. QED BY <2>2, <3>1, <3>2
  <2>4. link[l] = "ready" \/ ~mRunning
    BY <2>3
  <2>5. Stage(l)' /\ Early(l)'
    BY <1>2, <2>1, <2>4 DEF Stage, Early, Busy
  <2>6. past' = "calm" /\ mRunning => Discovered(l) /\ mWaitToken' = 0 /\ op[l] = NoMsg
    BY <1>2, <2>1, <2>2 DEF OneTurn
  <2>7. OneTurn(l)' /\ OwnTurn(l)'
    BY <1>2, <2>1, <2>2, <2>6 DEF OneTurn, OwnTurn, Answering, Discovered
  <2>8. FiledOutstanding' /\ HandSends'
    BY <1>1, <1>2, <2>1, <2>2 DEF FiledOutstanding, HandSends
  <2>9. QED BY <1>3, <2>1, <2>5, <2>7, <2>8 DEF Turn
<1>7. CASE PollQueue(l)
  <2>1. /\ pc[l] = "woken"
        /\ UNCHANGED <<mRunning, mConnectionState, mMsgCallbackMap, mBluetoothGatt, link, op,
                       handler, leaving, past>>
    BY <1>7 DEF PollQueue, gatts
  <2>2. CASE ~mRunning
    <3>1. Moves("closing") /\ UNCHANGED <<mWaitToken, hand>>
      BY <1>1, <1>7, <2>2 DEF PollQueue
    <3>2. Turn(l)'
      BY <1>2, <2>1, <2>2, <3>1
         DEF Turn, Stage, Early, OneTurn, OwnTurn, Answering, Discovered, Busy
    <3>3. FiledOutstanding' /\ HandSends'
      BY <1>1, <1>2, <2>1, <3>1 DEF FiledOutstanding, HandSends
    <3>4. QED BY <1>3, <2>1, <3>1, <3>2, <3>3
  <2>3. CASE mRunning
    <3>1. /\ link[l] = "ready" /\ mWaitToken \in Nat
          /\ past = "calm" => Discovered(l) /\ mWaitToken = 0 /\ op[l] = NoMsg
      BY <1>1, <1>2, <2>1, <2>3 DEF Early, OneTurn, Typed, TypeOK
    <3>2. \/ Moves("sending") /\ mWaitToken' = mWaitToken
          \/ Moves("checking") /\ mWaitToken' = mWaitToken + 1
      BY <1>1, <1>7, <2>3, <3>1 DEF PollQueue, Release
    <3>3. Stage(l)' /\ Early(l)'
      BY <1>2, <2>1, <2>3, <3>1, <3>2 DEF Stage, Early, Busy
    <3>4. OneTurn(l)' /\ OwnTurn(l)'
      BY <1>2, <2>1, <2>3, <3>1, <3>2 DEF OneTurn, OwnTurn, Answering, Discovered
    <3>5. \/ Moves("sending") /\ \A k \in Loop : k # l => hand'[k] = hand[k]
          \/ UNCHANGED hand
      BY <1>1, <1>2, <1>7, <2>3 DEF PollQueue, Typed, TypeOK
    <3>6. FiledOutstanding' /\ HandSends'
      BY <1>1, <1>2, <2>1, <3>2, <3>5 DEF FiledOutstanding, HandSends
    <3>7. QED BY <1>3, <2>1, <3>2, <3>3, <3>4, <3>6 DEF Turn
  <2>4. QED BY <2>2, <2>3
<1>8. CASE InternalSend(l)
  <2>1. /\ pc[l] = "sending" /\ Moves("checking") /\ hand'[l] = NoMsg
        /\ \A k \in Loop : k # l => hand'[k] = hand[k]
        /\ UNCHANGED <<mRunning, mConnectionState, mWaitToken, mBluetoothGatt, link, handler,
                       leaving, past>>
        /\ mBluetoothGatt = l /\ link[l] = "ready"
    BY <1>1, <1>2, <1>8 DEF InternalSend, Stage, Early, Busy, Typed, TypeOK
  <2>2. PICK m \in Msg : m = hand[l]
    BY <1>2, <2>1 DEF Typed, InUse
  <2>3. past = "calm" => /\ op[l] = NoMsg /\ Discovered(l) /\ Discovered(l)'
                         /\ mRunning => mWaitToken = 0
    BY <1>1, <1>2, <2>1 DEF OneTurn, Discovered, Typed, TypeOK
  <2>4. Stage(l)' /\ Early(l)'
    BY <1>2, <2>1 DEF Stage, Early, Busy
  <2>5. OneTurn(l)'
    BY <2>1, <2>3 DEF OneTurn
  <2>6. Answering(l)' => Answering(l) /\ handler'[l] = handler[l]
    BY <2>1 DEF Answering
  <2>7. HandSends'
    BY <1>1, <1>2, <2>1 DEF HandSends
  <2>8. past = "calm" => \A i \in Ident : mMsgCallbackMap[i] = NoMsg
    <3> SUFFICES ASSUME past = "calm" PROVE \A i \in Ident : mMsgCallbackMap[i] = NoMsg
      OBVIOUS
    <3>1. \A k \in Loop : op[k] = NoMsg /\ pc[k] \notin {"hungUp", "clearing", "ended"}
      BY <2>1, <2>3 DEF Turns, Turn, Stage
    <3>2. QED BY <1>2, <3>1 DEF FiledOutstanding
  <2>9. CASE UNCHANGED <<mMsgCallbackMap, op>>
    <3>1. OwnTurn(l)' /\ FiledOutstanding'
      BY <1>2, <2>1, <2>6, <2>8, <2>9 DEF OwnTurn, FiledOutstanding
    <3>2. QED BY <1>3, <2>1, <2>4, <2>5, <2>7, <2>9, <3>1 DEF Turn
  <2>10. CASE /\ mMsgCallbackMap' = [mMsgCallbackMap EXCEPT ![IdentOf[m]] = m]
              /\ op' = IF op[l] = NoMsg THEN [op EXCEPT ![l] = m] ELSE op
    <3>1. \A k \in Loop : k # l => op'[k] = op[k]
      BY <1>2, <2>10 DEF Typed, TypeOK
    <3>2. CASE past # "calm"
      <4>1. OwnTurn(l)' /\ FiledOutstanding'
        BY <2>1, <3>2 DEF OwnTurn, FiledOutstanding
      <4>2. QED BY <1>3, <2>1, <2>4, <2>5, <2>7, <3>1, <4>1 DEF Turn
    <3>3. CASE past = "calm"
      <4>1. /\ op'[l] = m
            /\ mMsgCallbackMap'[IdentOf[m]] = m
            /\ \A i \in Ident : i # IdentOf[m] => mMsgCallbackMap'[i] = NoMsg
        BY <1>2, <2>3, <2>8, <2>10, <3>3, MsgAssumption DEF Typed, TypeOK
      <4>2. OwnTurn(l)' /\ FiledOutstanding'
        BY <1>2, <2>1, <2>6, <4>1 DEF OwnTurn, FiledOutstanding
      <4>3. QED BY <1>3, <2>1, <2>4, <2>5, <2>7, <3>1, <4>2 DEF Turn
    <3>4. QED BY <3>2, <3>3
  <2>11. QED
    BY <1>8, <2>1, <2>2, <2>9, <2>10
       DEF InternalSend, DropUnavailable, HandToGatt, NullGatt
<1>9. CASE HangUp(l)
  <2>1. /\ pc[l] = "closing" /\ Moves("hungUp") /\ mBluetoothGatt = l /\ ~mRunning
        /\ UNCHANGED <<mRunning, mConnectionState, mWaitToken, mMsgCallbackMap, mBluetoothGatt,
                       hand, link, op, handler, past>>
    BY <1>1, <1>2, <1>9 DEF HangUp, fields, Stage, Busy
  <2>2. leaving' \subseteq leaving \cup {l}
    BY <1>9, <2>1 DEF HangUp
  <2>3. Turn(l)'
    BY <1>2, <2>1 DEF Turn, Stage, Early, OneTurn, OwnTurn, Answering, Discovered, Busy
  <2>4. FiledOutstanding' /\ HandSends'
    BY <1>1, <1>2, <2>1 DEF FiledOutstanding, HandSends
  <2>5. QED BY <1>3, <2>1, <2>2, <2>3, <2>4
<1>10. CASE CloseGatt(l)
  <2>1. /\ pc[l] = "hungUp" /\ Moves("clearing") /\ mBluetoothGatt = l /\ ~mRunning
        /\ UNCHANGED <<mRunning, mConnectionState, mWaitToken, mMsgCallbackMap, mBluetoothGatt,
                       hand, handler, past>>
    BY <1>1, <1>2, <1>10 DEF CloseGatt, fields, Stage, Busy
  <2>2. /\ op'[l] = NoMsg /\ leaving' = leaving \ {l}
        /\ \A k \in Loop : k # l => link'[k] = link[k] /\ op'[k] = op[k]
    BY <1>2, <1>10, <2>1, LoopAssumption DEF CloseGatt, Typed, TypeOK
  <2>3. Turn(l)'
    BY <1>2, <2>1, <2>2 DEF Turn, Stage, Early, OneTurn, OwnTurn, Answering, Busy
  <2>4. FiledOutstanding' /\ HandSends'
    BY <1>1, <1>2, <2>1 DEF FiledOutstanding, HandSends
  <2>5. QED BY <1>3, <2>1, <2>2, <2>3, <2>4
<1>11. CASE ClearGatt(l)
  <2>1. /\ pc[l] = "clearing" /\ Moves("ended") /\ ~mRunning
        /\ UNCHANGED <<mRunning, mConnectionState, mWaitToken, mMsgCallbackMap, hand, link, op,
                       handler, leaving, past>>
    BY <1>1, <1>2, <1>11 DEF ClearGatt, gatts, Stage
  <2>2. Turn(l)'
    BY <1>2, <2>1 DEF Turn, Stage, Early, OneTurn, OwnTurn, Answering, Discovered, Busy
  <2>3. FiledOutstanding' /\ HandSends'
    BY <1>1, <1>2, <2>1 DEF FiledOutstanding, HandSends
  <2>4. QED BY <1>3, <2>1, <2>2, <2>3
<1>12. QED
  BY <1>4, <1>5, <1>6, <1>7, <1>8, <1>9, <1>10, <1>11 DEF Dispatch

\* A step of the gatt of l, or of the callback it runs, leaves the threads alone.
LEMMA TurnsCallback ==
    ASSUME Turns, NEW l \in Loop,
           UNCHANGED <<mRunning, mBluetoothGatt, pc, hand, leaving, past>>,
           \A k \in Loop : k # l =>
               /\ link'[k] = link[k] /\ handler'[k] = handler[k] /\ op'[k] = op[k]
               /\ pc[k] = "unborn",
           pc[l] # "unborn", pc[l] # "starting",
           pc[l] \in Busy \ {"hungUp"} =>
               link'[l] \in {"waiting"} \cup LinkUp /\ mConnectionState' # "DISCONNECTING",
           mRunning /\ handler'[l].kind = "enabling" => link'[l] = "ready",
           Early(l)', OneTurn(l)', OwnTurn(l)', FiledOutstanding'
    PROVE  Turns'
<1>1. Stage(l)' /\ HandSends' /\ Untouched'
  BY DEF Turns, Turn, Stage, HandSends, Untouched
<1>2. \A k \in Loop : Turn(k)'
  BY <1>1, Bystander DEF Turn
<1>3. QED BY <1>1, <1>2 DEF Turns

\* Only the gatt of the one thread has anything to call back about.
LEMMA CallsBackAlone ==
    ASSUME Turns, Steady, NEW l \in Loop,
           link[l] # "none" \/ handler[l] # Idle \/ op[l] # NoMsg
    PROVE  /\ pc[l] # "unborn" /\ pc[l] # "starting"
           /\ \A k \in Loop : k # l => pc[k] = "unborn"
BY DEF Turns, Turn, Stage, Steady, OneThread

LEMMA TurnsHandle ==
    ASSUME Custodian, Turns, Steady, Steady', NEW l \in Loop, Handle(l)
    PROVE  Turns'
<1>1. CASE DiscoveryHandled(l)
  <2>1. /\ handler[l] = Enabling /\ handler'[l] = Idle
        /\ \A k \in Loop : k # l => handler'[k] = handler[k]
        /\ mWaitToken' = mWaitToken + 1 \/ mWaitToken' = mWaitToken
        /\ mWaitToken \in Nat
        /\ UNCHANGED <<mRunning, mConnectionState, mMsgCallbackMap, mBluetoothGatt, pc, hand,
                       link, op, leaving, past>>
    BY <1>1 DEF DiscoveryHandled, Release, threads, Custodian, Typed, TypeOK
  <2>2. /\ pc[l] # "unborn" /\ pc[l] # "starting"
        /\ \A k \in Loop : k # l => pc[k] = "unborn"
    BY <2>1, CallsBackAlone DEF Enabling, Idle
  <2>3. ~Discovered(l) /\ Stage(l) /\ Early(l) /\ OneTurn(l) /\ FiledOutstanding
    BY <2>1 DEF Turns, Turn, Discovered, Enabling
  <2>4. past = "calm" => /\ op[l] = NoMsg /\ pc[l] # "sending"
                         /\ mRunning => mWaitToken = 0 /\ pc[l] # "woken"
    BY <2>2, <2>3 DEF OneTurn
  <2>5. mRunning => link[l] = "ready" /\ Discovered(l)'
    BY <2>1, <2>3 DEF Stage, Discovered, Enabling, Idle
  <2>6. Early(l)' /\ OneTurn(l)'
    BY <2>1, <2>2, <2>3, <2>4, <2>5 DEF Early, OneTurn
  <2>7. OwnTurn(l)' /\ FiledOutstanding'
    BY <2>1, <2>3, <2>4 DEF OwnTurn, FiledOutstanding, Answering, Idle
  <2>8. pc[l] \in Busy \ {"hungUp"} =>
            link'[l] \in {"waiting"} \cup LinkUp /\ mConnectionState' # "DISCONNECTING"
    BY <2>1, <2>3 DEF Stage
  <2>9. handler'[l].kind # "enabling"
    BY <2>1 DEF Idle
  <2>10. QED BY <2>1, <2>2, <2>6, <2>7, <2>8, <2>9, TurnsCallback
<1>2. CASE Report(l)
  BY <1>2, TurnsAnswered DEF Report, Answering, fields, threads
<1>3. CASE Retry(l)
  BY <1>3, TurnsEnqueued DEF Retry, Resubmit, Answering
<1>4. ASSUME NEW m \in SetupMsg, EnableNotification(l, m) PROVE Turns'
  BY <1>4, TurnsEnqueued DEF EnableNotification, gatts
<1>5. QED BY <1>1, <1>2, <1>3, <1>4 DEF Handle

\* The link of a thread that has not hung up is not going in a steady session.
LEMMA LostWhenLeft ==
    ASSUME Typed, Turns, Steady, Steady', NEW l \in Loop, Losing(l), link[l] # "none"
    PROVE  pc[l] \notin Busy \ {"hungUp"} /\ ~mRunning
<1>1. l \in leaving \/ mConnectionState = "DISCONNECTING"
  BY DEF Losing, Steady
<1>2. pc[l] # "unborn" /\ pc[l] # "starting"
  BY DEF Turns, Turn, Stage
<1>3. pc[l] \notin Busy \ {"hungUp"}
  BY <1>1 DEF Turns, Turn, Stage
<1>4. pc[l] \in {"hungUp", "clearing", "ended"}
  BY <1>2, <1>3 DEF Typed, TypeOK, PCs, Busy
<1>5. QED BY <1>3, <1>4 DEF Turns, Turn, Stage

LEMMA IdleNotEnabling == Idle # Enabling
BY DEF Idle, Enabling

LEMMA TurnsPlatform ==
    ASSUME Custodian, Turns, Steady, Steady', NEW l \in Loop, Platform(l)
    PROVE  Turns'
<1>1. /\ Typed /\ FiledOutstanding
      /\ Stage(l) /\ Early(l) /\ OneTurn(l) /\ OwnTurn(l)
  BY DEF Custodian, Turns, Turn
\* the link of l, and possibly its callback, moves on
<1>2. ASSUME NEW to, link[l] # "none", link' = [link EXCEPT ![l] = to],
             handler[l] = Idle,
             UNCHANGED <<mRunning, mBluetoothGatt, pc, hand, mMsgCallbackMap, leaving, past>>,
             \A k \in Loop : k # l => handler'[k] = handler[k] /\ op'[k] = op[k],
             op'[l] \in {op[l], NoMsg},
             \/ to \in {link[l], "ready"} /\ handler'[l] \in {Idle, Enabling}
             \/ handler' = handler /\ link[l] # "ready"
             \/ /\ handler' = handler /\ op'[l] = NoMsg /\ ~mRunning
                /\ pc[l] \notin Busy \ {"hungUp"},
             handler'[l] = Enabling => to = "ready" /\ link[l] # "ready",
             mWaitToken' = 0 \/ mWaitToken' = mWaitToken,
             pc[l] \in Busy \ {"hungUp"} =>
                 /\ to \in {"waiting"} \cup LinkUp /\ mConnectionState' # "DISCONNECTING"
                 /\ op' = op
      PROVE  Turns'
  <2>1. /\ pc[l] # "unborn" /\ pc[l] # "starting"
        /\ \A k \in Loop : k # l => pc[k] = "unborn"
    BY <1>2, CallsBackAlone
  <2>2. /\ link'[l] = to /\ \A k \in Loop : k # l => link'[k] = link[k]
        /\ mWaitToken \in Nat
    BY <1>1, <1>2 DEF Typed, TypeOK
  <2>3. handler'[l] \in {Idle, Enabling}
    BY <1>2
  <2>4. Early(l)' /\ OneTurn(l)'
    <3>1. CASE to \in {link[l], "ready"}
      <4>1. Early(l)' /\ (link[l] # "ready" => OneTurn(l)')
        BY <1>1, <1>2, <2>1, <2>2, <3>1 DEF Early, OneTurn
      <4>2. link[l] = "ready" => OneTurn(l)'
        BY <1>1, <1>2, <2>2, <2>3, <3>1 DEF OneTurn, Discovered
      <4>3. QED BY <4>1, <4>2
    <3>2. CASE link[l] # "ready"
      BY <1>1, <1>2, <2>1, <2>2, <3>2 DEF Early, OneTurn
    <3>3. CASE op'[l] = NoMsg /\ ~mRunning /\ pc[l] \notin Busy \ {"hungUp"}
      BY <1>2, <3>3 DEF Early, OneTurn, Busy
    <3>4. QED BY <1>2, <3>1, <3>2, <3>3
  <2>5. OwnTurn(l)'
    BY <1>1, <1>2, <2>3 DEF OwnTurn, Answering, Idle, Enabling
  <2>6. FiledOutstanding'
    <3>1. CASE op' = op
      BY <1>1, <1>2, <3>1 DEF FiledOutstanding
    <3>2. CASE pc[l] \notin Busy \ {"hungUp"}
      <4>1. pc'[l] \in {"hungUp", "clearing", "ended"}
        BY <1>1, <1>2, <2>1, <3>2 DEF Typed, TypeOK, PCs, Busy
      <4>2. QED BY <4>1 DEF FiledOutstanding
    <3>3. QED BY <1>2, <3>1, <3>2
  <2>7. handler'[l].kind = "enabling" => link'[l] = "ready"
    BY <1>2, <2>2, <2>3 DEF Idle
  <2>8. QED BY <1>2, <2>1, <2>2, <2>4, <2>5, <2>6, <2>7, TurnsCallback
<1>3. CASE OnConnecting(l)
  <2>1. PICK down \in {"waiting", "lost"} : StateChange(l, "CONNECTING", {down}, down)
    BY <1>3 DEF OnConnecting
  <2>2. UNCHANGED <<mWaitToken, op>>
    BY <1>3 DEF OnConnecting
  <2>3. pc[l] \in Busy \ {"hungUp"} => down = "waiting"
    BY <1>1, <2>1 DEF Stage, StateChange, LinkUp
  <2>4. QED BY <1>2, <2>1, <2>2, <2>3, IdleNotEnabling DEF StateChange, threads
<1>4. CASE OnConnected(l)
  BY <1>2, <1>4, IdleNotEnabling DEF OnConnected, StateChange, threads, LinkUp
<1>5. CASE OnDisconnecting(l)
  <2>1. PICK up \in LinkUp : StateChange(l, "DISCONNECTING", {up}, up)
    BY <1>5 DEF OnDisconnecting
  <2>2. mWaitToken' = 0 /\ UNCHANGED op
    BY <1>5 DEF OnDisconnecting
  <2>3. pc[l] \notin Busy \ {"hungUp"}
    BY <1>1, <1>5, <2>1, LostWhenLeft DEF OnDisconnecting, StateChange, LinkUp
  <2>4. QED BY <1>2, <2>1, <2>2, <2>3, IdleNotEnabling DEF StateChange, threads, LinkUp
<1>6. CASE OnDisconnected(l)
  <2>1. PICK to \in Links : StateChange(l, "DISCONNECTED", {link[l]}, to)
    BY <1>6 DEF OnDisconnected, StateChange, Links
  <2>2. link[l] # "none" /\ Losing(l)
    BY <1>6 DEF OnDisconnected, StateChange
  <2>3. pc[l] \notin Busy \ {"hungUp"} /\ ~mRunning
    BY <1>1, <2>2, LostWhenLeft
  <2>4. UNCHANGED mWaitToken /\ op'[l] = NoMsg /\ \A k \in Loop : k # l => op'[k] = op[k]
    BY <1>1, <1>6 DEF OnDisconnected, Typed, TypeOK
  <2>5. QED BY <1>2, <2>1, <2>2, <2>3, <2>4, IdleNotEnabling DEF StateChange, threads
<1>7. CASE DiscoveryFailed(l)
  BY <1>7 DEF DiscoveryFailed, Steady
<1>8. CASE DiscoverySucceeded(l)
  <2>1. /\ \A k \in Loop : k # l => handler'[k] = handler[k]
        /\ handler'[l] \in {Idle, Enabling}
        /\ pc[l] \in Busy \ {"hungUp"} => mConnectionState # "DISCONNECTING"
    BY <1>1, <1>8 DEF DiscoverySucceeded, Stage, Typed, TypeOK
  <2>2. QED BY <1>2, <1>8, <2>1 DEF DiscoverySucceeded, fields, threads, LinkUp
<1>9. ASSUME NEW ok \in BOOLEAN, AnswerArrives(l, ok) PROVE Turns'
  <2>1. PICK m \in Msg : m = op[l]
    BY <1>1, <1>9 DEF AnswerArrives, Typed, TypeOK
  <2>2. /\ m # NoMsg
        /\ op'[l] = NoMsg /\ \A k \in Loop : k # l => op'[k] = op[k]
        /\ UNCHANGED <<mRunning, mConnectionState, mBluetoothGatt, pc, hand, link, leaving, past>>
        /\ mMsgCallbackMap' = [mMsgCallbackMap EXCEPT ![IdentOf[m]] = NoMsg]
        /\ handler[l] = Idle /\ link[l] = "ready"
        /\ \A k \in Loop : k # l => handler'[k] = handler[k]
    BY <1>1, <1>9, <2>1
       DEF AnswerArrives, TakeAnswer, Answer, Unfile, threads, Early, Typed, TypeOK
  <2>3. /\ pc[l] # "unborn" /\ pc[l] # "starting"
        /\ \A k \in Loop : k # l => pc[k] = "unborn"
    BY <2>1, <2>2, CallsBackAlone
  <2>4. handler'[l] = Idle \/ handler'[l].kind = "answer"
    BY <1>1, <1>9, <2>2 DEF AnswerArrives, TakeAnswer, Answer, Typed, TypeOK
  <2>5. /\ handler'[l].kind # "enabling" /\ Early(l)'
        /\ pc[l] \in Busy \ {"hungUp"} =>
               link'[l] \in {"waiting"} \cup LinkUp /\ mConnectionState' # "DISCONNECTING"
    BY <1>1, <2>2, <2>4 DEF Idle, Early, Stage
  <2>6. CASE past # "calm"
    <3>1. OneTurn(l)' /\ OwnTurn(l)' /\ FiledOutstanding'
      BY <2>2, <2>6 DEF OneTurn, OwnTurn, FiledOutstanding
    <3>2. QED BY <2>2, <2>3, <2>5, <3>1, TurnsCallback
  <2>7. CASE past = "calm"
    <3>1. mMsgCallbackMap[IdentOf[m]] = m
      BY <1>1, <2>1, <2>2, <2>7 DEF OwnTurn
    <3>2. /\ handler' = [handler EXCEPT ![l] =
                            [kind |-> "answer", msg |-> m, from |-> m, ok |-> ok]]
          /\ mWaitToken' = mWaitToken + 1
      BY <1>9, <2>1, <2>2, <3>1
         DEF AnswerArrives, TakeAnswer, FiledFor, CastFails, Answer, Release
    <3>3. handler'[l] = [kind |-> "answer", msg |-> m, from |-> m, ok |-> ok]
      BY <1>1, <3>2 DEF Typed, TypeOK
    <3>4. Discovered(l) /\ Discovered(l)'
      BY <2>2, <3>3 DEF Discovered, Idle
    <3>5. mRunning => mWaitToken = 0 /\ pc[l] \notin {"woken", "sending"}
      BY <1>1, <2>1, <2>2, <2>3, <2>7 DEF OneTurn, Typed, TypeOK
    <3>6. OneTurn(l)' /\ OwnTurn(l)'
      BY <2>2, <3>2, <3>3, <3>4, <3>5 DEF OneTurn, OwnTurn
    <3>7. FiledOutstanding'
      <4>1. ASSUME NEW i \in Ident, mMsgCallbackMap'[i] # NoMsg
            PROVE  \E k \in Loop : pc[k] \in {"hungUp", "clearing", "ended"}
        <5>1. i # IdentOf[m] /\ mMsgCallbackMap'[i] = mMsgCallbackMap[i]
          BY <1>1, <2>2, <4>1 DEF Typed, TypeOK
        <5>2. mMsgCallbackMap[i] # m
          BY <2>2, <4>1, <5>1 DEF Custodian, OneCustodian, FiledUnderOwnIdent
        <5>3. PICK k \in Loop : op[k] = mMsgCallbackMap[i]
                                \/ pc[k] \in {"hungUp", "clearing", "ended"}
          BY <1>1, <2>7, <4>1, <5>1 DEF FiledOutstanding
        <5>4. k # l => op[k] = NoMsg
          BY <2>3 DEF Turns, Turn, Stage
        <5>5. QED BY <2>1, <4>1, <5>1, <5>2, <5>3, <5>4
      <4>2. QED BY <2>2, <4>1 DEF FiledOutstanding
    <3>8. QED BY <2>2, <2>3, <2>5, <3>6, <3>7, TurnsCallback
  <2>8. QED BY <2>6, <2>7
<1>10. QED BY <1>3, <1>4, <1>5, <1>6, <1>7, <1>8, <1>9 DEF Platform

LEMMA InitTurns == Init => SessionInvariant
<1> SUFFICES ASSUME Init PROVE SessionInvariant
  OBVIOUS
<1>1. Custodian
  BY InitTyped, InitCustodian DEF Custodian
<1>2. \A l \in Loop : /\ pc[l] = "unborn" /\ link[l] = "none" /\ handler[l] = Idle
                      /\ op[l] = NoMsg /\ hand[l] = NoMsg /\ l \notin leaving
  BY DEF Init
<1>3. ~mRunning /\ \A i \in Ident : mMsgCallbackMap[i] = NoMsg
  BY Zenon DEF Init
<1>4. \A l \in Loop : handler[l].kind = "idle"
  BY <1>2 DEF Idle
<1>5. \A l \in Loop : Turn(l)
  BY <1>2, <1>3, <1>4 DEF Turn, Stage, Early, OneTurn, OwnTurn, Answering, Busy
<1>6. FiledOutstanding /\ HandSends /\ Untouched
  BY <1>2, <1>3 DEF FiledOutstanding, HandSends, Untouched, Init
<1>7. OwnAnswer
  BY DEF Init, OwnAnswer
<1>8. QED BY <1>1, <1>5, <1>6, <1>7 DEF SessionInvariant, Turns

\* What disturbs a session is not forgotten.
LEMMA SteadyBefore ==
    ASSUME Typed, [Next]_vars
    PROVE  /\ (Steady' => Steady) /\ (Undisturbed' => Undisturbed)
           /\ Steady' /\ past = "timeout" => past' = "timeout"
<1>1. past' # past => \/ past' # "calm" /\ past \notin {"early", "overlap"}
                      \/ past' = "overlap"
  <2>1. CASE UNCHANGED vars
    BY <2>1 DEF vars
  <2>2. CASE Application
    BY <2>2 DEF Application, Submit, Enqueue, StartDispatcher, NewThread, Connect, Disconnect,
                SetTimeoutSendQueue
  <2>3. ASSUME NEW l \in Loop, Dispatch(l), past' # past
        PROVE  past' # "calm" /\ past \notin {"early", "overlap"}
    BY <2>3 DEF Dispatch, OpenGatt, CheckRunning, AwaitToken, TakeToken, Acquire, TimesOut,
                PollQueue, InternalSend, HangUp, CloseGatt, ClearGatt
  <2>4. ASSUME NEW l \in Loop, Handle(l), past' # past PROVE past' = "overlap"
    BY <2>4 DEF Handle, DiscoveryHandled, Report, Retry, Resubmit, EnableNotification, Enqueue,
                StartDispatcher, NewThread
  <2>5. ASSUME NEW l \in Loop, Platform(l) PROVE past' = past
    BY <2>5 DEF Platform, OnConnecting, OnConnected, OnDisconnecting, OnDisconnected,
                StateChange, DiscoveryFailed, DiscoverySucceeded, AnswerArrives
  <2>6. QED BY <2>1, <2>2, <2>3, <2>4, <2>5 DEF Next
<1>2. troubles' = 0 => troubles = 0
  <2>1. troubles \in Nat /\ (troubles' = troubles \/ troubles' = troubles + 1)
    <3>1. CASE UNCHANGED vars
      BY <3>1 DEF vars, Typed, TypeOK
    <3>2. CASE Application
      BY <3>2 DEF Application, Submit, Connect, Disconnect, SetTimeoutSendQueue, Typed, TypeOK
    <3>3. ASSUME NEW l \in Loop, Dispatch(l) PROVE UNCHANGED troubles
      BY <3>3 DEF Dispatch, OpenGatt, CheckRunning, AwaitToken, PollQueue, InternalSend,
                  HangUp, CloseGatt, ClearGatt
    <3>4. ASSUME NEW l \in Loop, Handle(l) PROVE UNCHANGED troubles
      BY <3>4 DEF Handle, DiscoveryHandled, Report, Retry, EnableNotification
    <3>5. ASSUME NEW l \in Loop, Platform(l)
          PROVE  troubles' = troubles \/ troubles' = troubles + 1
      BY <3>5 DEF Platform, OnConnecting, OnConnected, OnDisconnecting, OnDisconnected, Losing,
                  DiscoveryFailed, DiscoverySucceeded, AnswerArrives
    <3>6. QED BY <3>1, <3>2, <3>3, <3>4, <3>5 DEF Next, Typed, TypeOK
  <2>2. QED BY <2>1
<1>3. \A k \in Loop : pc'[k] = "unborn" => pc[k] = "unborn"
  <2>1. ASSUME NewThread PROVE \A k \in Loop : pc'[k] = "unborn" => pc[k] = "unborn"
    BY <2>1 DEF NewThread, Typed, TypeOK
  <2>2. ASSUME NEW l \in Loop, Dispatch(l)
        PROVE  \A k \in Loop : pc'[k] = "unborn" => pc[k] = "unborn"
    <3>1. PICK there \in PCs \ {"unborn"} : Goto(l, there)
      BY <2>2 DEF Dispatch, OpenGatt, CheckRunning, AwaitToken, PollQueue, InternalSend,
                  HangUp, CloseGatt, ClearGatt, PCs
    <3>2. QED BY <3>1 DEF Goto, Typed, TypeOK
  <2>3. QED BY <2>1, <2>2, GattMoves
<1>4. OneThread' => OneThread
  BY <1>3 DEF OneThread
<1>5. QED BY <1>1, <1>2, <1>4 DEF Steady, Undisturbed, Typed, TypeOK, Pasts

LEMMA SessionInductive == SessionInvariant /\ [Next]_vars => SessionInvariant'
<1> SUFFICES ASSUME SessionInvariant, [Next]_vars
             PROVE  (Steady' => Turns') /\ OwnAnswer'
  BY CustodianInductive DEF SessionInvariant
<1> USE DEF SessionInvariant
<1>1. (Steady' => Steady) /\ (Undisturbed' => Undisturbed)
  BY SteadyBefore DEF Custodian
<1>2. ASSUME Steady' PROVE Turns'
  <2>1. Steady /\ Turns
    BY <1>1, <1>2
  <2>2. CASE UNCHANGED vars
    BY <2>1, <2>2, TurnsUnchanged DEF vars, fields, threads, gatts, turns
  <2>3. QED
    BY <1>2, <2>1, <2>2, TurnsApplication, TurnsDispatch, TurnsHandle, TurnsPlatform DEF Next
<1>3. ASSUME Undisturbed' PROVE \A m \in Msg : cause'[m] \in {m, NoMsg}
  <2>1. Undisturbed /\ Turns /\ past = "calm" /\ \A m \in Msg : cause[m] \in {m, NoMsg}
    BY <1>1, <1>3 DEF Undisturbed, Steady, OwnAnswer
  <2>2. ASSUME NEW l \in Loop, Report(l) PROVE \A m \in Msg : cause'[m] \in {m, NoMsg}
    <3>1. /\ Answering(l)
          /\ cause' = [cause EXCEPT ![handler[l].msg] = handler[l].from]
      BY <2>2 DEF Report, Answering
    <3>2. handler[l].from = handler[l].msg
      BY <2>1, <3>1 DEF Turns, Turn, OwnTurn
    <3>3. QED BY <2>1, <3>1, <3>2 DEF Custodian, Typed, TypeOK
  <2>3. QED BY <2>1, <2>2, AnswersMoveOnly
<1>4. QED BY <1>2, <1>3 DEF OwnAnswer

LEMMA SessionHolds == Spec => []SessionInvariant
BY InitTurns, SessionInductive, PTL DEF Spec

LEMMA SentAlone == SessionInvariant => OneInFlight
<1> SUFFICES ASSUME SessionInvariant, Undisturbed, NEW l \in Loop, pc[l] = "sending"
             PROVE  /\ \A g \in Loop : op[g] = NoMsg
                    /\ \A i \in Ident : mMsgCallbackMap[i] = NoMsg
  BY DEF OneInFlight
<1>1. Turns /\ past = "calm" /\ \A k \in Loop : k # l => pc[k] = "unborn"
  BY DEF SessionInvariant, Steady, Undisturbed, OneThread
<1>2. \A k \in Loop : op[k] = NoMsg /\ pc[k] \notin {"hungUp", "clearing", "ended"}
  BY <1>1 DEF Turns, Turn, Stage, OneTurn
<1>3. QED BY <1>1, <1>2 DEF Turns, FiledOutstanding

\* "Messages are sequentially as otherwise instruction can be lost": until a
\* second thread, a timeout or a lost link disturbs the session, what is about to
\* be sent finds nothing outstanding and nothing filed.
THEOREM SentInTurn == Spec => []OneInFlight
BY SentAlone, SessionHolds, PTL

\* Until then the result a message is reported with is that of its own
\* transmission.
THEOREM AnswersAreOwn == Spec => []OwnAnswer
<1>1. SessionInvariant => OwnAnswer
  BY DEF SessionInvariant
<1>2. QED BY <1>1, SessionHolds, PTL
-----------------------------------------------------------------------------
(* Nothing is lost.                                                         *)

\* What may lose a message of a steady session.
Endangered(m) == IdentOf[m] \in Missing \/ (Shared(m) /\ past = "timeout")

\* Whether a message is kept can be told from the custody variables.
LEMMA KeptUnchanged == UNCHANGED custody => \A m \in Msg : Kept(m) => Kept(m)'
BY DEF custody, Kept, Pending, Queued, Held, Filed, Handled, Answering, Reported

\* submit(): what was unsubmitted or in its callback is in the queue afterwards.
LEMMA KeptEnqueued ==
    ASSUME Custodian, NEW m \in Msg, Enqueue(m),
           UNCHANGED <<hand, mMsgCallbackMap, reports>>,
           \/ fresh' = fresh \ {m} /\ UNCHANGED handler
           \/ /\ UNCHANGED fresh
              /\ \E l \in Loop : /\ handler[l].msg = m
                                 /\ handler' = [handler EXCEPT ![l] = Idle]
    PROVE  \A x \in Msg : Kept(x) => Kept(x)'
<1>1. \A x \in Msg : Queued(x)' <=> Queued(x) \/ x = m
  BY EnqueueQueued DEF Custodian, Enqueue
<1>2. \A x \in Msg : x # m => (x \in fresh => x \in fresh') /\ (Handled(x) => Handled(x)')
  <2>1. CASE fresh' = fresh \ {m} /\ UNCHANGED handler
    BY <2>1 DEF Handled, Answering
  <2>2. ASSUME NEW l \in Loop, handler[l].msg = m, handler' = [handler EXCEPT ![l] = Idle]
        PROVE  \A x \in Msg : x # m => (Handled(x) => Handled(x)')
    <3>1. \A k \in Loop : k # l => handler'[k] = handler[k]
      BY <2>2 DEF Custodian, Typed, TypeOK
    <3>2. QED BY <2>2, <3>1 DEF Handled, Answering
  <2>3. QED BY <2>1, <2>2
<1>3. QED BY <1>1, <1>2 DEF Kept, Pending, Held, Filed, Reported

\* A callback that handles no message begins or ends.
LEMMA KeptCallback ==
    ASSUME Custodian, NEW l \in Loop, ~Answering(l), NEW h,
           handler' = [handler EXCEPT ![l] = h],
           UNCHANGED <<mDispatchQueue, hand, mMsgCallbackMap, fresh, reports>>
    PROVE  \A x \in Msg : Kept(x) => Kept(x)'
<1>1. \A k \in Loop : k # l => handler'[k] = handler[k]
  BY DEF Custodian, Typed, TypeOK
<1>2. \A x \in Msg : Handled(x) => Handled(x)'
  BY <1>1 DEF Handled, Answering
<1>3. QED BY <1>2 DEF Kept, Pending, Queued, Held, Filed, Reported

\* poll(): the thread that takes a message has none in its hands.
LEMMA KeptPolled ==
    ASSUME Custodian, HandSends, NEW l \in Loop, PollQueue(l)
    PROVE  \A x \in Msg : Kept(x) => Kept(x)'
<1>1. UNCHANGED <<mMsgCallbackMap, handler, fresh, reports>> /\ hand[l] = NoMsg
  BY DEF PollQueue, gatts, msgs, HandSends
<1>2. CASE UNCHANGED <<mDispatchQueue, hand>>
  BY <1>1, <1>2, KeptUnchanged DEF custody
<1>3. CASE /\ mDispatchQueue # <<>>
           /\ hand' = [hand EXCEPT ![l] = Head(mDispatchQueue)]
           /\ mDispatchQueue' = Tail(mDispatchQueue)
  <2>1. \A x \in Msg : Queued(x) => Queued(x)' \/ x = Head(mDispatchQueue)
    BY <1>3, DequeueQueued DEF Custodian, OneCustodian
  <2>2. /\ hand'[l] = Head(mDispatchQueue)
        /\ \A k \in Loop : k # l => hand'[k] = hand[k]
    BY <1>3 DEF Custodian, Typed, TypeOK
  <2>3. \A x \in Msg : (Held(x) => Held(x)') /\ (x = Head(mDispatchQueue) => Held(x)')
    BY <1>1, <2>2, MsgAssumption DEF Held
  <2>4. QED
    BY <1>1, <2>1, <2>3 DEF Kept, Pending, Filed, Handled, Answering, Reported
<1>4. QED BY <1>2, <1>3 DEF PollQueue

\* internalSend(): the services are known, and what is replaced in the map shares
\* its identifier and was still filed after a timeout.
LEMMA KeptSent ==
    ASSUME SessionInvariant, Steady, NEW l \in Loop, InternalSend(l)
    PROVE  \A x \in Msg : Kept(x) => Kept(x)' \/ Endangered(x)
<1>1. PICK m \in Msg : m = hand[l]
  BY DEF InternalSend, SessionInvariant, Custodian, Typed, InUse
<1>2. /\ pc[l] = "sending" /\ mBluetoothGatt = l /\ link[l] = "ready"
      /\ mBluetoothGatt # NoGatt
  BY LoopAssumption DEF InternalSend, SessionInvariant, Turns, Turn, Stage, Early, Busy
<1>3. /\ UNCHANGED <<mDispatchQueue, handler, fresh, reports>>
      /\ \A k \in Loop : k # l => hand'[k] = hand[k]
      /\ mMsgCallbackMap \in [Ident -> Msg \cup {NoMsg}] /\ IdentOf[m] \in Ident
  BY MsgAssumption DEF InternalSend, SessionInvariant, Custodian, Typed, TypeOK
<1>4. \A x \in Msg : x # m => (Held(x) => Held(x)')
  BY <1>1, <1>3 DEF Held
<1>5. CASE UNCHANGED mMsgCallbackMap /\ IdentOf[m] \in Missing
  BY <1>3, <1>4, <1>5
     DEF Endangered, Kept, Pending, Queued, Filed, Handled, Answering, Reported
<1>6. CASE mMsgCallbackMap' = [mMsgCallbackMap EXCEPT ![IdentOf[m]] = m]
  <2>1. PICK y : y = mMsgCallbackMap[IdentOf[m]]
    OBVIOUS
  <2>2. Filed(m)' /\ \A x \in Msg : x # y => (Filed(x) => Filed(x)')
    BY <1>3, <1>6, <2>1 DEF Filed
  <2>3. y \in Msg /\ y # m => Endangered(y)
    <3> SUFFICES ASSUME y \in Msg, y # m PROVE Endangered(y)
      OBVIOUS
    <3>1. IdentOf[y] = IdentOf[m]
      BY <1>3, <2>1, MsgAssumption DEF SessionInvariant, Custodian, OneCustodian, FiledUnderOwnIdent
    <3>2. Shared(y)
      BY <3>1 DEF Shared
    <3>3. past # "calm"
      BY <1>2, <1>3, <2>1, SentAlone, MsgAssumption DEF OneInFlight, Undisturbed, Steady
    <3>4. QED BY <3>2, <3>3 DEF Endangered, Steady
  <2>4. QED
    BY <1>3, <1>4, <2>2, <2>3 DEF Kept, Pending, Queued, Handled, Answering, Reported
<1>7. QED
  BY <1>1, <1>2, <1>5, <1>6
     DEF InternalSend, DropUnavailable, HandToGatt, NullGatt, MayLack, MayHave

\* An answer moves what was filed into its callback, unless the cast of what
\* replaced it in the map fails.
LEMMA KeptAnswered ==
    ASSUME SessionInvariant, Steady, NEW l \in Loop, NEW ok \in BOOLEAN, AnswerArrives(l, ok)
    PROVE  \A x \in Msg : Kept(x) => Kept(x)' \/ Endangered(x)
<1> USE DEF SessionInvariant
<1>1. PICK i \in Ident : i = IdentOf[op[l]]
  BY MsgAssumption DEF AnswerArrives, Custodian, Typed, TypeOK
<1>2. PICK m : m = mMsgCallbackMap[i]
  OBVIOUS
<1>3. /\ UNCHANGED <<mDispatchQueue, hand, fresh, reports>>
      /\ \A j \in Ident : j # i => mMsgCallbackMap'[j] = mMsgCallbackMap[j]
      /\ ~Answering(l)
  BY <1>1 DEF AnswerArrives, TakeAnswer, Unfile, threads, msgs, Answering, Idle,
              Custodian, Typed, TypeOK
<1>4. \A x \in Msg : x # m => (Filed(x) => Filed(x)')
  BY <1>2, <1>3 DEF Filed
<1>5. CASE UNCHANGED handler
  <2>1. m \in Msg => Endangered(m)
    <3> SUFFICES ASSUME m \in Msg PROVE Endangered(m)
      OBVIOUS
    <3>1. /\ m # NoMsg /\ op[l] \in Msg /\ op[l] # NoMsg
          /\ handler \in [Loop -> Handlers] /\ handler[l].kind = "idle"
      BY MsgAssumption DEF AnswerArrives, Idle, Custodian, Typed, TypeOK
    <3>2. CastFails(l)
      <4> SUFFICES ASSUME ~CastFails(l) PROVE FALSE
        OBVIOUS
      <4>1. handler'[l].kind = "answer"
        BY <1>1, <1>2, <3>1 DEF AnswerArrives, TakeAnswer, FiledFor, Answer
      <4>2. QED BY <1>5, <3>1, <4>1
    <3>3. m # op[l] /\ IdentOf[m] = IdentOf[op[l]]
      BY <1>1, <1>2, <3>1, <3>2
         DEF CastFails, FiledFor, Custodian, OneCustodian, FiledUnderOwnIdent
    <3>4. past # "calm"
      BY <1>1, <1>2, <3>1, <3>3 DEF Turns, Turn, OwnTurn
    <3>5. QED BY <3>1, <3>3, <3>4 DEF Endangered, Shared, Steady
  <2>2. QED
    BY <1>3, <1>4, <1>5, <2>1 DEF Kept, Pending, Queued, Held, Handled, Answering, Reported
<1>6. CASE ~UNCHANGED handler
  <2>1. handler' = [handler EXCEPT ![l] = [kind |-> "answer", msg |-> m,
                                           from |-> op[l], ok |-> ok]]
    BY <1>1, <1>2, <1>6 DEF AnswerArrives, TakeAnswer, FiledFor, Answer
  <2>2. /\ handler'[l].kind = "answer" /\ handler'[l].msg = m
        /\ \A k \in Loop : k # l => handler'[k] = handler[k]
    BY <2>1 DEF Custodian, Typed, TypeOK
  <2>3. \A x \in Msg : (Handled(x) => Handled(x)') /\ (x = m => Handled(x)')
    BY <1>3, <2>2 DEF Handled, Answering
  <2>4. QED BY <1>3, <1>4, <2>3 DEF Kept, Pending, Queued, Held, Reported
<1>7. QED BY <1>5, <1>6

LEMMA KeptReported ==
    ASSUME Custodian, NEW l \in Loop, Report(l)
    PROVE  \A x \in Msg : Kept(x) => Kept(x)'
<1>1. PICK m \in Msg : m = handler[l].msg
  BY DEF Report, Custodian, Typed, InUse, Answering
<1>2. /\ reports'[m] = reports[m] + 1
      /\ \A x \in Msg : x # m => reports'[x] = reports[x]
      /\ \A k \in Loop : k # l => handler'[k] = handler[k]
      /\ UNCHANGED <<mDispatchQueue, hand, mMsgCallbackMap, fresh>>
      /\ reports[m] \in Nat
  BY <1>1 DEF Report, fields, threads, Custodian, Typed, TypeOK
<1>3. Reported(m)' /\ \A x \in Msg : Reported(x) => Reported(x)'
  BY <1>2 DEF Reported
<1>4. \A x \in Msg : x # m => (Handled(x) => Handled(x)')
  BY <1>1, <1>2 DEF Handled, Answering
<1>5. QED BY <1>2, <1>3, <1>4 DEF Kept, Pending, Queued, Held, Filed

LEMMA KeptStep ==
    ASSUME SessionInvariant, Steady, [Next]_vars
    PROVE  \A m \in Msg : Kept(m) => Kept(m)' \/ Endangered(m)
<1> DEFINE Keeps == \A m \in Msg : Kept(m) => Kept(m)' \/ Endangered(m)
<1>0. Custodian /\ HandSends
  BY DEF SessionInvariant, Turns
<1>1. CASE UNCHANGED vars
  <2>1. UNCHANGED custody
    BY <1>1 DEF vars, custody, fields, threads, gatts, msgs
  <2>2. QED BY <2>1, KeptUnchanged
<1>2. CASE Application
  <2>1. ASSUME NEW m \in Msg, Submit(m) PROVE Keeps
    BY <1>0, <2>1, KeptEnqueued DEF Submit, gatts
  <2>2. CASE Connect \/ Disconnect \/ SetTimeoutSendQueue
    <3>1. UNCHANGED custody
      BY <2>2 DEF Connect, Disconnect, SetTimeoutSendQueue, custody, gatts, msgs, threads
    <3>2. QED BY <3>1, KeptUnchanged
  <2>3. QED BY <1>2, <2>1, <2>2 DEF Application
<1>3. ASSUME NEW l \in Loop, Dispatch(l) PROVE Keeps
  <2>1. CASE OpenGatt(l) \/ CheckRunning(l) \/ AwaitToken(l) \/ HangUp(l)
             \/ CloseGatt(l) \/ ClearGatt(l)
    <3>1. UNCHANGED custody
      BY <2>1 DEF OpenGatt, CheckRunning, AwaitToken, HangUp, CloseGatt, ClearGatt, custody,
                  fields, gatts, msgs
    <3>2. QED BY <3>1, KeptUnchanged
  <2>2. QED BY <1>0, <1>3, <2>1, KeptPolled, KeptSent DEF Dispatch
<1>4. ASSUME NEW l \in Loop, Handle(l) PROVE Keeps
  <2>1. CASE DiscoveryHandled(l)
    BY <1>0, <2>1, KeptCallback DEF DiscoveryHandled, threads, msgs, Answering, Enabling, Idle
  <2>2. CASE Report(l)
    BY <1>0, <2>2, KeptReported
  <2>3. CASE Retry(l)
    <3>1. handler[l].msg \in Msg
      BY <1>0, <2>3 DEF Retry, Custodian, Typed, InUse, Answering
    <3>2. QED BY <1>0, <2>3, <3>1, KeptEnqueued DEF Retry, Resubmit
  <2>4. ASSUME NEW m \in SetupMsg, EnableNotification(l, m) PROVE Keeps
    BY <1>0, <2>4, MsgAssumption, KeptEnqueued DEF EnableNotification, gatts
  <2>5. QED BY <1>4, <2>1, <2>2, <2>3, <2>4 DEF Handle
<1>5. ASSUME NEW l \in Loop, Platform(l) PROVE Keeps
  <2>1. CASE OnConnecting(l) \/ OnConnected(l) \/ OnDisconnecting(l) \/ OnDisconnected(l)
             \/ DiscoveryFailed(l)
    <3>1. UNCHANGED custody
      BY <2>1 DEF OnConnecting, OnConnected, OnDisconnecting, OnDisconnected,
                  StateChange, DiscoveryFailed, custody, fields, threads, msgs
    <3>2. QED BY <3>1, KeptUnchanged
  <2>2. CASE DiscoverySucceeded(l)
    <3>1. /\ UNCHANGED <<mDispatchQueue, mMsgCallbackMap, fresh, reports, hand>>
          /\ ~Answering(l)
          /\ \/ UNCHANGED handler
             \/ handler' = [handler EXCEPT ![l] = Enabling]
      BY <2>2 DEF DiscoverySucceeded, fields, threads, msgs, Answering, Idle
    <3>2. QED BY <1>0, <3>1, KeptUnchanged, KeptCallback DEF custody
  <2>3. QED BY <1>5, <2>1, <2>2, KeptAnswered DEF Platform
<1>6. QED BY <1>1, <1>2, <1>3, <1>4, <1>5 DEF Next

\* The timeouts of a link that stays up cost no message: if none came before the
\* services were known, only a message for an attribute the device lacks or one
\* that shares its identifier, after a timeout, can be lost.
THEOREM KeptOnceTheServicesAreKnown == Spec => []KeptOnceReady
<1> DEFINE I == SessionInvariant /\ KeptOnceReady
<1>1. Init => I
  <2>1. Init => KeptOnceReady
    BY DEF Init, KeptOnceReady, Kept
  <2>2. QED BY <2>1, InitTurns
<1>2. I /\ [Next]_vars => I'
  <2> SUFFICES ASSUME I, [Next]_vars, Steady', NEW m \in Msg
               PROVE  IdentOf[m] \in Missing \/ (Shared(m) /\ past' = "timeout") \/ Kept(m)'
    BY SessionInductive DEF KeptOnceReady, Shared
  <2>1. Steady /\ (past = "timeout" => past' = "timeout")
    BY SteadyBefore DEF SessionInvariant, Custodian
  <2>2. Endangered(m) \/ Kept(m)
    BY <2>1 DEF KeptOnceReady, Endangered
  <2>3. Endangered(m) \/ Kept(m)'
    BY <2>1, <2>2, KeptStep
  <2>4. QED BY <2>1, <2>3 DEF Endangered
<1>3. I => KeptOnceReady
  OBVIOUS
<1> HIDE DEF I
<1>4. QED BY <1>1, <1>2, <1>3, PTL DEF Spec
=============================================================================
