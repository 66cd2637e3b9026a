--------------------------- MODULE DronePilotProofs ---------------------------
(***************************************************************************)
(* Proofs about DronePilot, for any number of drones and of gestures.      *)
(*                                                                         *)
(* A handler that has sent flag 0 and has still to write STOP or JUMP has  *)
(* stopped the drone (Begun), unless the history says the pair was torn;   *)
(* the action is only trusted once no handler has one to write (Paired).   *)
(***************************************************************************)
EXTENDS DronePilot, SequenceTheorems, TLAPS

Halts == {"STOP", "JUMP"}

\* What a handler has to write: a halting action comes right after flag 0.
Shape(s) ==
  /\ Len(s) <= 3
  /\ Len(s) >= 2 /\ s[2] \in Halts => s[1] = "flag0"
  /\ Len(s) = 3 => s[3] \in Arms

Shapes == \A t \in Threads : Shape(writes[t])

\* Only an action that moves the drone is compared with the last one.
Comparing == \A t \in Threads : place[t] = "compare" => goal[t] \notin Halts

LifeInv ==
  \A d \in Drones : /\ d > mJumpingSumo => life[d] = "NONE"
                    /\ moving[d] => life[d] \in {"RUNNING", "STOPPING", "STOPPED"}

Begun ==
  \A t \in Threads :
    (~torn /\ writes[t] # <<>> /\ writes[t][1] \in Halts) => ~Driving

Paired ==
  (~torn /\ mActionState \in Halts /\ \A t \in Threads : ~WillAct(t)) => ~Driving

\* A handler plans its writes only when it has none left.
Quiet ==
  \A t \in Threads : place[t] \notin {"setArmState", "send"} => writes[t] = <<>>

IInv == TypeOK /\ Shapes /\ Comparing /\ Quiet /\ LifeInv /\ Begun /\ Paired

-----------------------------------------------------------------------------
LEMMA OtherThread ==
  \A t \in Threads : Other(t) \in Threads /\ Other(t) # t
                     /\ \A u \in Threads : u = t \/ u = Other(t)
BY DEF Other, Threads

\* The first write is taken off; an action that was not first is still there.
LEMMA TailOfPlan ==
  ASSUME NEW s \in Seq(Writes), s # <<>>
  PROVE  /\ Tail(s) \in Seq(Writes) /\ Head(s) = s[1] /\ s[1] \in Writes
         /\ Len(s) \in Nat \ {0} /\ Len(Tail(s)) = Len(s) - 1
         /\ \A i \in 1..Len(Tail(s)) : Tail(s)[i] = s[i + 1]
         /\ Shape(s) => Shape(Tail(s))
         /\ Shape(s) /\ Tail(s) # <<>> /\ Tail(s)[1] \in Halts => s[1] = "flag0"
         /\ (\E i \in 1..Len(s) : s[i] \in Actions) /\ s[1] \notin Actions
              => \E i \in 1..Len(Tail(s)) : Tail(s)[i] \in Actions
<1>1. /\ Tail(s) \in Seq(Writes) /\ Head(s) = s[1] /\ s[1] \in Writes
      /\ Len(s) \in Nat \ {0} /\ Len(Tail(s)) = Len(s) - 1
      /\ \A i \in 1..Len(Tail(s)) : Tail(s)[i] = s[i + 1]
  BY HeadTailProperties, EmptySeq, LenProperties, ElementOfSeq
<1>2. Shape(s) => Shape(Tail(s))
  BY <1>1 DEF Shape, Halts, Arms
<1>3. Shape(s) /\ Tail(s) # <<>> /\ Tail(s)[1] \in Halts => s[1] = "flag0"
  <2>1. Tail(s) # <<>> => Len(s) >= 2 /\ Tail(s)[1] = s[2]
    BY <1>1, EmptySeq
  <2> QED BY <2>1 DEF Shape
<1>4. ASSUME NEW i \in 1..Len(s), s[i] \in Actions, s[1] \notin Actions
      PROVE  \E j \in 1..Len(Tail(s)) : Tail(s)[j] \in Actions
  <2>1. i - 1 \in 1..Len(Tail(s)) /\ (i - 1) + 1 = i
    BY <1>1, <1>4
  <2> QED BY <1>1, <1>4, <2>1
<1> QED BY <1>1, <1>2, <1>3, <1>4

LEMMA AsksActions ==
  ASSUME NEW class, NEW state, Asks(class, state) # "none"
  PROVE  Asks(class, state) \in Actions
BY DEF Asks, Actions

\* The plans of setArmState and doAction.
LEMMA PlansTyped ==
  /\ <<>> \in Seq(Writes) /\ Shape(<<>>)
  /\ \A state \in Arms : ArmWrites(state) \in Seq(Writes) /\ Shape(ArmWrites(state))
  /\ \A a \in Actions \ Halts : <<"flag1", a>> \in Seq(Writes) /\ Shape(<<"flag1", a>>)
  /\ \A a \in Halts : <<"flag0", a>> \in Seq(Writes) /\ Shape(<<"flag0", a>>)
  /\ <<"flag1">> \in Seq(Writes) /\ Shape(<<"flag1">>)
BY DEF ArmWrites, Arms, Writes, Actions, Halts, Shape

LEMMA PlansBegin ==
  /\ \A state \in Arms : ArmWrites(state)[1] \notin Halts
  /\ \A a : <<"flag1", a>>[1] \notin Halts /\ <<"flag0", a>>[1] \notin Halts
  /\ <<"flag1">>[1] \notin Halts
BY DEF ArmWrites, Arms, Halts

-----------------------------------------------------------------------------
(* Types, and the shape of what a handler has to write.                    *)

\* The plan of one handler replaced by a well-formed one.
LEMMA PlanStep ==
  ASSUME writes \in [Threads -> Seq(Writes)], Shapes,
         NEW t \in Threads, NEW s \in Seq(Writes), Shape(s), Plan(t, s)
  PROVE  writes' \in [Threads -> Seq(Writes)] /\ Shapes'
<1>1. writes' = [writes EXCEPT ![t] = s]
  BY DEF Plan
<1>2. \A u \in Threads : writes'[u] = s \/ writes'[u] = writes[u]
  BY <1>1
<1> QED BY <1>1, <1>2 DEF Shapes

LEMMA TypeStep ==
  ASSUME TypeOK, Shapes, Comparing, [Next]_vars
  PROVE  TypeOK' /\ Shapes'
<1> USE DEF At
<1> DEFINE Places == {"idle", "setArmState", "ask", "doAction", "compare", "send", "crashed"}
<1>0. /\ mJumpingSumo \in 0..MaxFound
      /\ life \in [Drones -> {"NONE", "READY", "STARTING", "RUNNING", "STOPPING", "STOPPED"}]
      /\ moving \in [Drones -> BOOLEAN] /\ mActionState \in Actions /\ mArmState \in Arms
      /\ place \in [Threads -> Places] /\ goal \in [Threads -> Actions]
      /\ writes \in [Threads -> Seq(Writes)] /\ arm \in Arms /\ torn \in BOOLEAN
      /\ mLastImuData \in BOOLEAN /\ blind \in BOOLEAN
  BY DEF TypeOK
<1>1. ASSUME LifeNext, UNCHANGED pilotVars
      PROVE  TypeOK' /\ Shapes'
  <2>1. /\ mJumpingSumo' \in 0..MaxFound
        /\ life' \in [Drones -> {"NONE", "READY", "STARTING", "RUNNING", "STOPPING", "STOPPED"}]
    <3> DEFINE Lives == {"NONE", "READY", "STARTING", "RUNNING", "STOPPING", "STOPPED"}
    <3>1. PICK d \in Drones :
            \/ Make(d)
            \/ \E from \in Lives, to \in Lives : Goes(d, from, to)
      BY <1>1, Zenon DEF LifeNext
    <3>2. CASE Make(d)
      BY <1>0, <3>2, LifeConstants DEF Make, Drones
    <3>3. CASE \E from \in Lives, to \in Lives : Goes(d, from, to)
      BY <1>0, <3>3 DEF Goes
    <3> QED BY <3>1, <3>2, <3>3
  <2> QED BY <1>0, <1>1, <2>1 DEF pilotVars, sample, TypeOK, Shapes
<1>2. ASSUME NEW class \in Classes, Gesture(class), UNCHANGED lifeVars
      PROVE  TypeOK' /\ Shapes'
  <2>1. Asks(class, mArmState) \in Actions
    BY <1>2, AsksActions DEF Gesture
  <2>2. goal' \in [Threads -> Actions] /\ place' \in [Threads -> Places]
    BY <1>0, <1>2, <2>1 DEF Gesture
  <2>3. blind' \in BOOLEAN
    BY <1>2, Zenon DEF Gesture
  <2> QED BY <1>0, <1>2, <2>2, <2>3 DEF Gesture, TypeOK, Shapes, lifeVars
<1>3. ASSUME NEW state \in Arms, NewImuData(state), UNCHANGED lifeVars
      PROVE  TypeOK' /\ Shapes'
  <2>1. "imu" \in Threads /\ place' \in [Threads -> Places]
    BY <1>0, <1>3 DEF NewImuData, Threads
  <2>2. writes' \in [Threads -> Seq(Writes)] /\ Shapes'
    BY <1>0, <1>3, <2>1, PlanStep, PlansTyped DEF NewImuData
  <2> QED BY <1>0, <1>3, <2>1, <2>2 DEF NewImuData, TypeOK, lifeVars
<1>4. ASSUME AskGo, UNCHANGED lifeVars
      PROVE  TypeOK' /\ Shapes'
  <2>1. place' \in [Threads -> Places] /\ goal' \in [Threads -> Actions]
    BY <1>0, <1>4 DEF AskGo, Actions
  <2> QED BY <1>0, <1>4, <2>1 DEF AskGo, sample, TypeOK, Shapes, lifeVars
<1>5. ASSUME NEW t \in Threads, doAction(t), UNCHANGED sample, UNCHANGED lifeVars
      PROVE  TypeOK' /\ Shapes'
  <2>1. place' \in [Threads -> Places]
    BY <1>0, <1>5 DEF doAction
  <2>2. writes' \in [Threads -> Seq(Writes)] /\ Shapes'
    <3>1. CASE Plan(t, <<"flag0", "JUMP">>) \/ Plan(t, <<"flag0", "STOP">>)
      BY <1>0, <3>1, PlanStep, PlansTyped DEF Halts
    <3>2. CASE UNCHANGED writes
      BY <1>0, <3>2 DEF Shapes
    <3> QED BY <1>5, <3>1, <3>2 DEF doAction
  <2> QED BY <1>0, <1>5, <2>1, <2>2 DEF doAction, sample, TypeOK, lifeVars
<1>6. ASSUME NEW t \in Threads, Compare(t), UNCHANGED sample, UNCHANGED lifeVars
      PROVE  TypeOK' /\ Shapes'
  <2>1. place' \in [Threads -> Places]
    BY <1>0, <1>6 DEF Compare
  <2>2. writes' \in [Threads -> Seq(Writes)] /\ Shapes'
    <3>0. goal[t] \in Actions \ Halts
      BY <1>0, <1>6 DEF Compare, Comparing
    <3>1. CASE Plan(t, <<"flag1", goal[t]>>)
      BY <1>0, <3>0, <3>1, PlanStep, PlansTyped
    <3>2. CASE Plan(t, <<"flag1">>)
      BY <1>0, <3>2, PlanStep, PlansTyped
    <3>3. CASE UNCHANGED writes
      BY <1>0, <3>3 DEF Shapes
    <3> QED BY <1>6, <3>1, <3>2, <3>3 DEF Compare
  <2> QED BY <1>0, <1>6, <2>1, <2>2 DEF Compare, sample, TypeOK, lifeVars
<1>7. ASSUME NEW t \in Threads, Write(t), UNCHANGED sample, UNCHANGED lifeVars
      PROVE  TypeOK' /\ Shapes'
  <2>1. writes[t] # <<>> /\ Plan(t, Tail(writes[t])) /\ writes[t] \in Seq(Writes)
    BY <1>0, <1>7 DEF Write, Plan
  <2>2. writes' \in [Threads -> Seq(Writes)] /\ Shapes'
    BY <1>0, <2>1, PlanStep, TailOfPlan DEF Shapes
  <2>3. moving' \in [Drones -> BOOLEAN]
    <3>1. CASE moving' = moving
      BY <1>0, <3>1
    <3>2. ASSUME NEW flag \in BOOLEAN, SendFlag(flag)
          PROVE  moving' \in [Drones -> BOOLEAN]
      BY <1>0, <3>2 DEF SendFlag
    <3>3. (Head(writes[t]) = "flag1") \in BOOLEAN
      BY Zenon
    <3> QED BY <1>7, <3>1, <3>2, <3>3 DEF Write, WriteFlag, WriteAction, WriteArm
  <2>4. mActionState' \in Actions /\ mArmState' \in Arms
    BY <1>0, <1>7 DEF Write, WriteFlag, WriteAction, WriteArm
  <2>5. torn' \in BOOLEAN
    BY <1>0, <1>7, Zenon DEF Write, WriteFlag, WriteAction, WriteArm
  <2>6. UNCHANGED <<place, goal, arm, mLastImuData, blind, mJumpingSumo, life>>
    BY <1>7 DEF Write, sample, lifeVars
  <2> QED BY <1>0, <2>2, <2>3, <2>4, <2>5, <2>6 DEF TypeOK
<1>8. ASSUME NEW t \in Threads, Return(t), UNCHANGED sample, UNCHANGED lifeVars
      PROVE  TypeOK' /\ Shapes'
  <2>1. place' \in [Threads -> Places]
    BY <1>0, <1>8 DEF Return
  <2> QED BY <1>0, <1>8, <2>1 DEF Return, sample, TypeOK, Shapes, lifeVars
<1>9. CASE UNCHANGED vars
  BY <1>0, <1>9 DEF vars, lifeVars, pilotVars, sample, TypeOK, Shapes
<1> QED BY <1>1, <1>2, <1>3, <1>4, <1>5, <1>6, <1>7, <1>8, <1>9
        DEF Next, PilotNext, ImuThread, Step, Threads

LEMMA CompareStep ==
  ASSUME TypeOK, Comparing, [Next]_vars
  PROVE  Comparing'
<1> USE DEF At, TypeOK
<1>1. ASSUME NEW class \in Classes, Gesture(class)
      PROVE  Comparing'
  BY <1>1 DEF Gesture, Comparing
<1>2. ASSUME NEW state \in Arms, NewImuData(state)
      PROVE  Comparing'
  BY <1>2 DEF NewImuData, Comparing
<1>3. CASE AskGo
  BY <1>3 DEF AskGo, Comparing
<1>4. ASSUME NEW t \in Threads, doAction(t)
      PROVE  Comparing'
  BY <1>4 DEF doAction, Comparing, Halts
<1>5. ASSUME NEW t \in Threads, Compare(t)
      PROVE  Comparing'
  BY <1>5 DEF Compare, Comparing
<1>6. ASSUME NEW t \in Threads, Write(t) \/ Return(t)
      PROVE  Comparing'
  <2>1. CASE Write(t)
    BY <2>1 DEF Write, Comparing
  <2>2. CASE Return(t)
    BY <2>2 DEF Return, Comparing
  <2> QED BY <1>6, <2>1, <2>2
<1>7. CASE UNCHANGED pilotVars
  BY <1>7 DEF pilotVars, Comparing
<1> QED BY <1>1, <1>2, <1>3, <1>4, <1>5, <1>6, <1>7
        DEF Next, PilotNext, ImuThread, Step, Threads, vars

-----------------------------------------------------------------------------
(* The drone and the handlers' writes.                                     *)

LEMMA LifeStep ==
  ASSUME TypeOK, LifeInv, LifeNext, UNCHANGED pilotVars
  PROVE  LifeInv' /\ (Driving' => Driving)
<1>0. mJumpingSumo \in 0..MaxFound /\ moving \in [Drones -> BOOLEAN] /\ moving' = moving
      /\ DOMAIN life = Drones /\ life = [d \in Drones |-> life[d]]
  BY DEF TypeOK, pilotVars
<1> DEFINE Lives == {"NONE", "READY", "STARTING", "RUNNING", "STOPPING", "STOPPED"}
           Ok(from, to) == \/ from = "READY" /\ to = "STARTING"
                           \/ from = "STARTING" /\ to \in {"RUNNING", "STOPPED"}
                           \/ from = "RUNNING" /\ to = "STOPPING"
                           \/ from = "STOPPING" /\ to = "STOPPED"
<1>1. PICK d \in Drones : Make(d) \/ \E from \in Lives, to \in Lives : Ok(from, to) /\ Goes(d, from, to)
  <2>1. PICK d \in Drones :
          \/ Make(d)
          \/ Goes(d, "READY", "STARTING")
          \/ Goes(d, "STARTING", "RUNNING") \/ Goes(d, "STARTING", "STOPPED")
          \/ Goes(d, "RUNNING", "STOPPING") \/ Goes(d, "STOPPING", "STOPPED")
    BY Zenon DEF LifeNext
  <2> QED BY <2>1
<1>2. CASE Make(d)
  <2>1. PICK state \in {"READY", "STOPPED"} :
          d = mJumpingSumo + 1 /\ mJumpingSumo' = d /\ life' = [life EXCEPT ![d] = state]
    BY <1>2 DEF Make
  <2>2. ~moving[d] /\ life'[d] = state
    BY <1>0, <2>1 DEF LifeInv, Drones
  <2>3. ~Driving'
    BY <2>1, <2>2 DEF Driving, isJumpingSumoConnected
  <2>4. ASSUME NEW e \in Drones
        PROVE  /\ e > mJumpingSumo' => life'[e] = "NONE"
               /\ moving'[e] => life'[e] \in {"RUNNING", "STOPPING", "STOPPED"}
    <3>1. e # d => life'[e] = life[e]
      BY <1>0, <2>1
    <3>2. e > mJumpingSumo' => e > mJumpingSumo /\ e # d
      BY <1>0, <2>1 DEF Drones
    <3> QED BY <1>0, <2>2, <3>1, <3>2 DEF LifeInv
  <2> QED BY <2>3, <2>4 DEF LifeInv
<1>3. ASSUME NEW from \in Lives, NEW to \in Lives, Ok(from, to), Goes(d, from, to)
      PROVE  LifeInv' /\ (Driving' => Driving)
  <2>1. life[d] = from /\ life' = [life EXCEPT ![d] = to] /\ mJumpingSumo' = mJumpingSumo
    BY <1>3 DEF Goes
  <2>2. life'[d] = to /\ \A e \in Drones : e # d => life'[e] = life[e]
    BY <1>0, <2>1
  <2>3. moving[d] => from \in {"RUNNING", "STOPPING", "STOPPED"}
    BY <2>1 DEF LifeInv
  <2>4. LifeInv'
    BY <1>0, <1>3, <2>1, <2>2, <2>3 DEF LifeInv
  <2>5. Driving' => Driving
    <3>1. CASE mJumpingSumo = d
      BY <1>0, <1>3, <2>1, <2>2, <2>3, <3>1 DEF Driving, isJumpingSumoConnected
    <3>2. CASE mJumpingSumo # d
      <4>1. mJumpingSumo # 0 => mJumpingSumo \in Drones
        BY <1>0 DEF Drones
      <4> QED BY <1>0, <2>1, <2>2, <3>2, <4>1 DEF Driving, isJumpingSumoConnected
    <3> QED BY <3>1, <3>2
  <2> QED BY <2>4, <2>5
<1> QED BY <1>1, <1>2, <1>3

\* The handlers that write nothing leave the drone, and only begin with a flag.
LEMMA PlannedStep ==
  ASSUME TypeOK, LifeInv, Begun, Paired, UNCHANGED <<lifeVars, moving, mActionState, torn>>,
         NEW t \in Threads,
         \/ UNCHANGED writes
         \/ writes[t] = <<>> /\ \E s \in Seq(Writes) : Plan(t, s) /\ (s # <<>> => s[1] \notin Halts)
  PROVE  LifeInv' /\ Begun' /\ Paired'
<1>1. LifeInv' /\ (Driving' <=> Driving)
  BY DEF LifeInv, Driving, isJumpingSumoConnected, lifeVars
<1>2. CASE UNCHANGED writes
  BY <1>1, <1>2 DEF Begun, Paired, WillAct
<1>3. ASSUME writes[t] = <<>>, NEW s \in Seq(Writes), Plan(t, s), s # <<>> => s[1] \notin Halts
      PROVE  LifeInv' /\ Begun' /\ Paired'
  <2>1. writes'[t] = s /\ \A u \in Threads : u # t => writes'[u] = writes[u]
    BY <1>3 DEF Plan, TypeOK
  <2>2. Begun'
    BY <1>1, <1>3, <2>1 DEF Begun
  <2>3. ~WillAct(t)
    BY <1>3 DEF WillAct
  <2>4. \A u \in Threads : u # t => (WillAct(u)' <=> WillAct(u))
    BY <2>1 DEF WillAct
  <2>5. (\A u \in Threads : ~WillAct(u)') => \A u \in Threads : ~WillAct(u)
    BY <2>3, <2>4
  <2> QED BY <1>1, <2>2, <2>5 DEF Paired
<1> QED BY <1>2, <1>3

\* A flag begins a pair and an action ends one; an arm state touches neither.
LEMMA WriteStep ==
  ASSUME TypeOK, Shapes, LifeInv, Begun, Paired, NEW t \in Threads, Write(t), UNCHANGED lifeVars
  PROVE  LifeInv' /\ Begun' /\ Paired'
<1> DEFINE s == writes[t]
           u == Other(t)
<1>1. /\ s \in Seq(Writes) /\ s # <<>> /\ Shape(s)
      /\ mJumpingSumo \in 0..MaxFound /\ moving \in [Drones -> BOOLEAN]
      /\ mJumpingSumo' = mJumpingSumo /\ life' = life
  BY DEF Write, TypeOK, Shapes, lifeVars
<1>2. writes'[t] = Tail(s) /\ u \in Threads /\ u # t /\ writes'[u] = writes[u]
      /\ \A v \in Threads : v = t \/ v = u
  BY OtherThread DEF Write, TypeOK
<1>3. /\ Head(s) = s[1] /\ s[1] \in Writes /\ Len(s) \in Nat \ {0}
      /\ Tail(s) # <<>> /\ Tail(s)[1] \in Halts => s[1] = "flag0"
  BY <1>1, TailOfPlan
<1>4. WillAct(t) /\ s[1] \notin Actions => WillAct(t)'
  BY <1>1, <1>2, TailOfPlan DEF WillAct
<1>5. WillAct(u)' <=> WillAct(u)
  BY <1>2 DEF WillAct
<1>6. writes[u] # <<>> /\ writes[u][1] \in Halts => WillAct(u)
  <2>1. writes[u] \in Seq(Writes)
    BY <1>2 DEF TypeOK
  <2>2. writes[u] # <<>> => Len(writes[u]) \in Nat \ {0}
    BY <2>1, EmptySeq, LenProperties
  <2> QED BY <2>2 DEF WillAct, Halts, Actions
<1>7. CASE WriteFlag(t)
  <2> DEFINE flag == Head(s) = "flag1"
  <2>1. /\ s[1] \in {"flag0", "flag1"} /\ s[1] \notin Actions /\ SendFlag(flag)
        /\ mActionState' = mActionState
        /\ torn' = (WillAct(u) \/ (~WillAct(t) /\ (torn \/ mActionState # "GO")))
    BY <1>3, <1>7 DEF WriteFlag, Actions
  <2>2. /\ isJumpingSumoConnected => mJumpingSumo \in Drones /\ life[mJumpingSumo] = "RUNNING"
        /\ isJumpingSumoConnected' <=> isJumpingSumoConnected
    BY <1>1 DEF isJumpingSumoConnected, Drones
  <2>3. /\ isJumpingSumoConnected => moving' = [moving EXCEPT ![mJumpingSumo] = flag]
        /\ ~isJumpingSumoConnected => moving' = moving
    BY <2>1 DEF SendFlag
  <2>4. LifeInv'
    <3>1. \A d \in Drones : moving'[d] => moving[d] \/ life[d] = "RUNNING"
      BY <1>1, <2>2, <2>3
    <3> QED BY <1>1, <3>1 DEF LifeInv
  <2>5. s[1] = "flag0" => ~Driving'
    <3>1. s[1] = "flag0" => ~flag
      BY <1>3
    <3>2. isJumpingSumoConnected => (moving'[mJumpingSumo] <=> flag)
      BY <1>1, <2>2, <2>3
    <3> QED BY <1>1, <2>2, <3>1, <3>2 DEF Driving
  <2>6. Begun'
    <3>1. (~torn' /\ writes'[t] # <<>> /\ writes'[t][1] \in Halts) => ~Driving'
      BY <1>2, <1>3, <2>5
    <3>2. ~(~torn' /\ writes'[u] # <<>> /\ writes'[u][1] \in Halts)
      BY <1>2, <1>6, <2>1
    <3> QED BY <1>2, <3>1, <3>2 DEF Begun
  <2>7. Paired'
    <3>1. SUFFICES ASSUME ~torn', \A v \in Threads : ~WillAct(v)'
                   PROVE  mActionState' \notin Halts
      BY DEF Paired
    <3>2. ~WillAct(t)
      BY <1>4, <2>1, <3>1
    <3> QED BY <2>1, <3>1, <3>2 DEF Halts
  <2> QED BY <2>4, <2>6, <2>7
<1>8. CASE WriteAction(t)
  <2>1. /\ s[1] \in Actions /\ s[1] # "flag0" /\ mActionState' = s[1] /\ moving' = moving
        /\ torn' = (torn \/ WillAct(u))
    BY <1>3, <1>8 DEF WriteAction, Actions
  <2>2. LifeInv' /\ (Driving' <=> Driving)
    BY <1>1, <2>1 DEF LifeInv, Driving, isJumpingSumoConnected
  <2>3. Begun'
    <3>1. ~(writes'[t] # <<>> /\ writes'[t][1] \in Halts)
      BY <1>2, <1>3, <2>1
    <3>2. ~(~torn' /\ writes'[u] # <<>> /\ writes'[u][1] \in Halts)
      BY <1>2, <1>6, <2>1
    <3> QED BY <1>2, <3>1, <3>2 DEF Begun
  <2>4. Paired'
    BY <1>1, <2>1, <2>2 DEF Begun, Paired
  <2> QED BY <2>2, <2>3, <2>4
<1>9. CASE WriteArm(t)
  <2>1. /\ s[1] \in Arms /\ s[1] # "flag0" /\ s[1] \notin Actions
        /\ UNCHANGED <<moving, mActionState, torn>>
    BY <1>3, <1>9 DEF WriteArm, Arms, Actions
  <2>2. LifeInv' /\ (Driving' <=> Driving)
    BY <1>1, <2>1 DEF LifeInv, Driving, isJumpingSumoConnected
  <2>3. Begun'
    <3>1. ~(writes'[t] # <<>> /\ writes'[t][1] \in Halts)
      BY <1>2, <1>3, <2>1
    <3> QED BY <1>2, <2>1, <2>2, <3>1 DEF Begun
  <2>4. Paired'
    <3>1. (\A v \in Threads : ~WillAct(v)') => \A v \in Threads : ~WillAct(v)
      BY <1>2, <1>4, <1>5, <2>1
    <3> QED BY <2>1, <2>2, <3>1 DEF Paired
  <2> QED BY <2>2, <2>3, <2>4
<1> QED BY <1>7, <1>8, <1>9 DEF Write

LEMMA QuietStep ==
  ASSUME TypeOK, Quiet, [Next]_vars
  PROVE  Quiet'
<1> USE DEF At, TypeOK, Plan
<1>1. ASSUME NEW class \in Classes, Gesture(class)
      PROVE  Quiet'
  BY <1>1 DEF Gesture, Quiet
<1>2. ASSUME NEW state \in Arms, NewImuData(state)
      PROVE  Quiet'
  BY <1>2 DEF NewImuData, Quiet
<1>3. CASE AskGo
  BY <1>3 DEF AskGo, Quiet
<1>4. ASSUME NEW t \in Threads, doAction(t)
      PROVE  Quiet'
  BY <1>4 DEF doAction, Quiet
<1>5. ASSUME NEW t \in Threads, Compare(t)
      PROVE  Quiet'
  BY <1>5 DEF Compare, Quiet
<1>6. ASSUME NEW t \in Threads, Write(t)
      PROVE  Quiet'
  BY <1>6 DEF Write, Quiet
<1>7. ASSUME NEW t \in Threads, Return(t)
      PROVE  Quiet'
  BY <1>7 DEF Return, Quiet
<1>8. CASE UNCHANGED pilotVars
  BY <1>8 DEF pilotVars, Quiet
<1> QED BY <1>1, <1>2, <1>3, <1>4, <1>5, <1>6, <1>7, <1>8
        DEF Next, PilotNext, ImuThread, Step, Threads, vars

-----------------------------------------------------------------------------
LEMMA InitInv == Init => IInv
<1> SUFFICES ASSUME Init PROVE IInv
  OBVIOUS
<1>1. /\ mJumpingSumo = 0 /\ life = [d \in Drones |-> "NONE"]
      /\ moving = [d \in Drones |-> FALSE]
      /\ mActionState = "STOP" /\ mArmState = "CENTER"
      /\ place = [t \in Threads |-> "idle"] /\ goal = [t \in Threads |-> "STOP"]
      /\ writes = [t \in Threads |-> <<>>] /\ arm = "CENTER" /\ torn = FALSE
      /\ mLastImuData = FALSE /\ blind = FALSE
  BY DEF Init, LifeInit, PilotInit
<1>2. TypeOK
  <2>1. mJumpingSumo \in 0..MaxFound /\ <<>> \in Seq(Writes)
    BY <1>1, LifeConstants, PlansTyped
  <2>2. "STOP" \in Actions /\ "CENTER" \in Arms /\ torn \in BOOLEAN
        /\ mLastImuData \in BOOLEAN /\ blind \in BOOLEAN
    BY <1>1, Zenon DEF Actions, Arms
  <2>3. moving \in [Drones -> BOOLEAN]
    BY <1>1, Zenon
  <2> QED BY <1>1, <2>1, <2>2, <2>3 DEF TypeOK
<1>3. Shapes /\ Comparing /\ Quiet
  BY <1>1, PlansTyped DEF Shapes, Comparing, Quiet
<1>4. LifeInv /\ Begun /\ Paired
  BY <1>1 DEF LifeInv, Begun, Paired, Driving, isJumpingSumoConnected
<1> QED BY <1>2, <1>3, <1>4 DEF IInv

LEMMA Inductive ==
  ASSUME IInv, [Next]_vars
  PROVE  IInv'
<1>0. TypeOK /\ Shapes /\ Comparing /\ Quiet /\ LifeInv /\ Begun /\ Paired
  BY DEF IInv
<1>1. TypeOK' /\ Shapes' /\ Comparing' /\ Quiet'
  BY <1>0, TypeStep, CompareStep, QuietStep
<1>2. ASSUME LifeNext, UNCHANGED pilotVars
      PROVE  LifeInv' /\ Begun' /\ Paired'
  <2>1. LifeInv' /\ (Driving' => Driving)
    BY <1>0, <1>2, LifeStep
  <2>2. UNCHANGED <<writes, torn, mActionState>>
    BY <1>2 DEF pilotVars
  <2> QED BY <1>0, <2>1, <2>2 DEF Begun, Paired, WillAct
<1>3. ASSUME UNCHANGED lifeVars, NEW class \in Classes, Gesture(class)
      PROVE  LifeInv' /\ Begun' /\ Paired'
  BY <1>0, <1>3, PlannedStep DEF Gesture, Threads
<1>4. ASSUME UNCHANGED lifeVars, NEW state \in Arms, NewImuData(state)
      PROVE  LifeInv' /\ Begun' /\ Paired'
  <2>1. "imu" \in Threads /\ writes["imu"] = <<>>
    BY <1>0, <1>4 DEF NewImuData, At, Quiet, Threads
  <2>2. \E s \in Seq(Writes) : Plan("imu", s) /\ (s # <<>> => s[1] \notin Halts)
    BY <1>4, PlansTyped, PlansBegin DEF NewImuData
  <2>3. UNCHANGED <<moving, mActionState, torn>>
    BY <1>4 DEF NewImuData
  <2> QED BY <1>0, <1>4, <2>1, <2>2, <2>3, PlannedStep
<1>5. ASSUME UNCHANGED lifeVars, AskGo
      PROVE  LifeInv' /\ Begun' /\ Paired'
  BY <1>0, <1>5, PlannedStep DEF AskGo, Threads
<1>6. ASSUME UNCHANGED lifeVars, NEW t \in Threads, doAction(t)
      PROVE  LifeInv' /\ Begun' /\ Paired'
  <2>1. UNCHANGED <<moving, mActionState, torn>> /\ writes[t] = <<>>
    BY <1>0, <1>6 DEF doAction, Quiet
  <2>2. \/ UNCHANGED writes
        \/ \E s \in Seq(Writes) : Plan(t, s) /\ (s # <<>> => s[1] \notin Halts)
    <3>1. <<"flag0", "JUMP">> \in Seq(Writes) /\ <<"flag0", "STOP">> \in Seq(Writes)
      BY PlansTyped DEF Halts
    <3>2. \/ UNCHANGED writes
          \/ Plan(t, <<"flag0", "JUMP">>) \/ Plan(t, <<"flag0", "STOP">>)
      BY <1>6, Zenon DEF doAction
    <3> QED BY <3>1, <3>2, PlansBegin
  <2> QED BY <1>0, <1>6, <2>1, <2>2, PlannedStep
<1>7. ASSUME UNCHANGED lifeVars, NEW t \in Threads, Compare(t)
      PROVE  LifeInv' /\ Begun' /\ Paired'
  <2>1. UNCHANGED <<moving, mActionState, torn>> /\ writes[t] = <<>>
    BY <1>0, <1>7 DEF Compare, Quiet, At
  <2>2. \/ UNCHANGED writes
        \/ \E s \in Seq(Writes) : Plan(t, s) /\ (s # <<>> => s[1] \notin Halts)
    <3>1. <<"flag1", goal[t]>> \in Seq(Writes) /\ <<"flag1">> \in Seq(Writes)
      <4>1. goal[t] \in Actions \ Halts
        BY <1>0, <1>7 DEF Compare, At, Comparing, TypeOK
      <4> QED BY <4>1, PlansTyped
    <3>2. UNCHANGED writes \/ Plan(t, <<"flag1", goal[t]>>) \/ Plan(t, <<"flag1">>)
      BY <1>7, Zenon DEF Compare
    <3> QED BY <3>1, <3>2, PlansBegin
  <2> QED BY <1>0, <1>7, <2>1, <2>2, PlannedStep
<1>8. ASSUME UNCHANGED lifeVars, NEW t \in Threads, Write(t)
      PROVE  LifeInv' /\ Begun' /\ Paired'
  BY <1>0, <1>8, WriteStep
<1>9. ASSUME UNCHANGED lifeVars, NEW t \in Threads, Return(t)
      PROVE  LifeInv' /\ Begun' /\ Paired'
  BY <1>0, <1>9, PlannedStep DEF Return
<1>10. ASSUME UNCHANGED vars
       PROVE  LifeInv' /\ Begun' /\ Paired'
  <2>1. "imu" \in Threads
    BY DEF Threads
  <2>2. UNCHANGED <<lifeVars, moving, mActionState, torn>> /\ UNCHANGED writes
    BY <1>10 DEF vars, pilotVars
  <2>3. UNCHANGED <<lifeVars, moving, mActionState, torn>>
    BY <2>2
  <2> QED BY <1>0, <2>1, <2>2, <2>3, PlannedStep, Zenon
<1>11. LifeInv' /\ Begun' /\ Paired'
  <2>1. ASSUME UNCHANGED lifeVars, NEW t \in Threads, Step(t)
        PROVE  LifeInv' /\ Begun' /\ Paired'
    BY <1>6, <1>7, <1>8, <1>9, <2>1, Zenon DEF Step
  <2>2. CASE PilotNext /\ UNCHANGED lifeVars
    <3>1. "gesture" \in Threads /\ "imu" \in Threads
      BY DEF Threads
    <3> QED BY <1>3, <1>4, <1>5, <2>1, <2>2, <3>1, Zenon DEF PilotNext, ImuThread
  <2>3. \/ PilotNext /\ UNCHANGED lifeVars
        \/ LifeNext /\ UNCHANGED pilotVars
        \/ UNCHANGED vars
    BY DEF Next
  <2> QED BY <1>2, <1>10, <2>2, <2>3
<1> QED BY <1>1, <1>11 DEF IInv

LEMMA Invariant == Spec => []IInv
BY InitInv, Inductive, PTL DEF Spec

-----------------------------------------------------------------------------
\* The state of drones, handlers and their writes is well formed, whatever the
\* number of drones and the interleaving of the handlers of MainMyoClassifierParrot.
THEOREM TypeCorrect == Spec => []TypeOK
<1>1. IInv => TypeOK
  BY DEF IInv
<1> QED BY <1>1, Invariant, PTL

\* A drone told to stop or to jump by an unbroken pair of writes stands still: the
\* unlocked handlers can only be wrong about it by cutting such a pair in two.
THEOREM StoppedIsStill == Spec => []StoppedMeansStill
<1>1. IInv => StoppedMeansStill
  BY DEF IInv, Paired, StoppedMeansStill, Halts
<1> QED BY <1>1, Invariant, PTL
=============================================================================
