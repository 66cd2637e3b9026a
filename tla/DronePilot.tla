------------------------------- MODULE DronePilot ------------------------------
(***************************************************************************)
(* How gestures and the arm's position steer the drone                     *)
(* (JumpingSumoActionManager of MainMyoClassifierParrot and the piloting   *)
(* commands of JumpingSumo), composed with the life of a drone (DroneLife). *)
(*                                                                         *)
(* Two threads run its handlers without any lock: "gesture", the worker    *)
(* that calls executeJumpingSumoAction, and "imu", the IMU processor that  *)
(* calls onNewImuData. A handler first reads the shared fields, one read a *)
(* step, and then makes its writes in order, one a step. Of the piloting   *)
(* command only the flag is kept: speed and turn count only while it is 1. *)
(***************************************************************************)
EXTENDS DroneLife, Sequences

CONSTANT Classes   \* the gestures the classifier was trained with

ASSUME PilotConstants == Classes \subseteq {"normal", "fist", "left", "right", "other"}

VARIABLES
  moving,         \* the flag last sent to each drone is 1
  mActionState, mArmState,
  place,          \* where each handler is
  goal,           \* the action each handler calls doAction with
  writes,         \* what each handler still has to write
  mLastImuData,   \* is not null
  blind,          \* the gesture under way was given no IMU sample to go by
  arm,            \* where the last IMU sample says the arm is
  torn            \* history: the last flag and the last action may not belong
                  \* together, another handler wrote in between

sample == <<mLastImuData, blind>>
pilotVars == <<moving, mActionState, mArmState, place, goal, writes, sample, arm, torn>>
vars == <<lifeVars, pilotVars>>

isJumpingSumoConnected == mJumpingSumo # 0 /\ life[mJumpingSumo] = "RUNNING"

Threads == {"gesture", "imu"}
Arms == {"TOP", "CENTER", "BOTTOM"}
Actions == {"STOP", "LEFT", "RIGHT", "GO", "JUMP"}
Writes == {"flag0", "flag1"} \union Actions \union Arms
Other(t) == CHOOSE u \in Threads : u # t

At(t, from, to) == place[t] = from /\ place' = [place EXCEPT ![t] = to]
\* the handler t goes on to write s
Plan(t, s) == writes' = [writes EXCEPT ![t] = s]

PilotInit ==
  /\ moving = [d \in Drones |-> FALSE]
  /\ mActionState = "STOP" /\ mArmState = "CENTER"
  /\ place = [t \in Threads |-> "idle"] /\ goal = [t \in Threads |-> "STOP"]
  /\ writes = [t \in Threads |-> <<>>]
  /\ mLastImuData = FALSE /\ blind = FALSE
  /\ arm = "CENTER" /\ torn = FALSE

-----------------------------------------------------------------------------
\* executeJumpingSumoAction: what a gesture asks of a drone, by the arm
Asks(class, state) ==
  CASE state = "TOP" /\ class = "fist" -> "JUMP"
    [] state = "CENTER" /\ class = "normal" -> "STOP"
    [] state = "CENTER" /\ class = "fist" -> "GO"
    [] state = "CENTER" /\ class = "right" -> "RIGHT"
    [] state = "CENTER" /\ class = "left" -> "LEFT"
    [] OTHER -> "none"

Gesture(class) ==
  /\ mJumpingSumo # 0 /\ Asks(class, mArmState) # "none"
  /\ At("gesture", "idle", "doAction")
  /\ goal' = [goal EXCEPT !["gesture"] = Asks(class, mArmState)]
  /\ blind' = (Asks(class, mArmState) = "GO" /\ ~mLastImuData)
  /\ UNCHANGED <<moving, mActionState, mArmState, writes, mLastImuData, arm, torn>>

\* Mutant: a drone is only halted when the arm has moved.
HaltOnChange(state) ==
  IF state \in {"TOP", "BOTTOM"} \ {mArmState} THEN <<"flag0", "STOP", state>> ELSE <<state>>

\* Mutant: only speed and turn are reset.
HaltKeepsFlag(state) ==
  IF state \in {"TOP", "BOTTOM"} THEN <<"STOP", state>> ELSE <<state>>

\* setArmState
ArmWrites(state) ==
  IF state \in {"TOP", "BOTTOM"} THEN <<"flag0", "STOP", state>> ELSE <<state>>

\* onNewImuData: without a drone setArmState returns at once
NewImuData(state) ==
  /\ At("imu", "idle", "setArmState") /\ arm' = state /\ mLastImuData' = TRUE
  /\ Plan("imu", IF mJumpingSumo = 0 THEN <<>> ELSE ArmWrites(state))
  /\ UNCHANGED <<moving, mActionState, mArmState, goal, blind, torn>>

\* if(mActionState == ACT_GO) of onNewImuData
AskGo ==
  /\ place["imu"] = "ask"
  /\ IF mActionState = "GO" /\ mJumpingSumo # 0
     THEN At("imu", "ask", "doAction") /\ goal' = [goal EXCEPT !["imu"] = "GO"]
     ELSE At("imu", "ask", "idle") /\ UNCHANGED goal
  /\ UNCHANGED <<moving, mActionState, mArmState, writes, sample, arm, torn>>

\* doAction reads mArmState once more
doAction(t) ==
  /\ place[t] = "doAction"
  /\ \/ /\ mArmState = "TOP" /\ goal[t] = "JUMP"
        /\ At(t, "doAction", "send") /\ Plan(t, <<"flag0", "JUMP">>)
     \/ /\ mArmState = "CENTER" /\ goal[t] = "STOP"
        /\ At(t, "doAction", "send") /\ Plan(t, <<"flag0", "STOP">>)
     \/ /\ mArmState = "CENTER" /\ goal[t] \in {"LEFT", "RIGHT", "GO"}
        /\ At(t, "doAction", "compare") /\ UNCHANGED writes
     \/ /\ \/ mArmState = "CENTER" /\ goal[t] = "JUMP"
           \/ mArmState = "TOP" /\ goal[t] # "JUMP"
           \/ mArmState = "BOTTOM"
        /\ At(t, "doAction", "idle") /\ UNCHANGED writes
  /\ UNCHANGED <<moving, mActionState, mArmState, goal, arm, torn>>

Blind(t) == t = "gesture" /\ blind
crashed == place["gesture"] = "crashed"

\* Mutant: a drone that goes already is not told again.
CompareAny(t) ==
  /\ IF mActionState # goal[t]
     THEN At(t, "compare", "send") /\ Plan(t, <<"flag1", goal[t]>>)
     ELSE At(t, "compare", "idle") /\ UNCHANGED writes
  /\ UNCHANGED <<moving, mActionState, mArmState, goal, arm, torn>>

\* and then mActionState: a drone that goes already is only turned. To go without
\* an IMU sample throws before the first write, on the worker, which detaches from
\* the virtual machine with the exception pending: the process ends.
Compare(t) ==
  /\ \/ /\ mActionState # goal[t] /\ ~Blind(t)
        /\ At(t, "compare", "send") /\ Plan(t, <<"flag1", goal[t]>>)
     \/ /\ mActionState = goal[t] /\ goal[t] = "GO" /\ ~Blind(t)
        /\ At(t, "compare", "send") /\ Plan(t, <<"flag1">>)
     \/ /\ mActionState = goal[t] /\ goal[t] # "GO"
        /\ At(t, "compare", "idle") /\ UNCHANGED writes
     \/ /\ Blind(t)
        /\ At(t, "compare", "crashed") /\ UNCHANGED writes
  /\ UNCHANGED <<moving, mActionState, mArmState, goal, arm, torn>>

-----------------------------------------------------------------------------
(* The writes of a handler, each to the drone mJumpingSumo is at that time. *)

\* setFlag: only a drone that runs is sent anything
SendFlag(flag) ==
  moving' = IF isJumpingSumoConnected THEN [moving EXCEPT ![mJumpingSumo] = flag] ELSE moving

\* the handler t has still to write an action
WillAct(t) == \E i \in 1..Len(writes[t]) : writes[t][i] \in Actions

\* a flag that an action follows begins a new pair; one without tells a drone to
\* go on, unless meanwhile the other handler made it stop
WriteFlag(t) ==
  /\ Head(writes[t]) \in {"flag0", "flag1"}
  /\ SendFlag(Head(writes[t]) = "flag1")
  /\ torn' = (WillAct(Other(t)) \/ (~WillAct(t) /\ (torn \/ mActionState # "GO")))
  /\ UNCHANGED <<mActionState, mArmState>>

WriteAction(t) ==
  /\ Head(writes[t]) \in Actions
  /\ mActionState' = Head(writes[t])
  /\ torn' = (torn \/ WillAct(Other(t)))
  /\ UNCHANGED <<moving, mArmState>>

WriteArm(t) ==
  /\ Head(writes[t]) \in Arms
  /\ mArmState' = Head(writes[t])
  /\ UNCHANGED <<moving, mActionState, torn>>

Write(t) ==
  /\ writes[t] # <<>>
  /\ writes' = [writes EXCEPT ![t] = Tail(@)]
  /\ WriteFlag(t) \/ WriteAction(t) \/ WriteArm(t)
  /\ UNCHANGED <<place, goal, arm>>

\* setArmState is followed by the rest of onNewImuData, doAction by nothing
Return(t) ==
  /\ writes[t] = <<>>
  /\ At(t, "setArmState", "ask") \/ At(t, "send", "idle")
  /\ UNCHANGED <<moving, mActionState, mArmState, goal, writes, arm, torn>>

-----------------------------------------------------------------------------
Step(t) ==
  /\ doAction(t) \/ Compare(t) \/ Write(t) \/ Return(t)
  /\ UNCHANGED sample
ImuThread == (\E state \in Arms : NewImuData(state)) \/ AskGo \/ Step("imu")
PilotNext == (\E class \in Classes : Gesture(class)) \/ Step("gesture") \/ ImuThread

Init == LifeInit /\ PilotInit
Next == /\ ~crashed
        /\ \/ PilotNext /\ UNCHANGED lifeVars
           \/ LifeNext /\ UNCHANGED pilotVars

\* the Myo streams IMU data, and a handler that has begun goes on; neither the
\* user nor the drone owes anything
Spec == /\ Init /\ [][Next]_vars
        /\ WF_vars(~crashed /\ ImuThread /\ UNCHANGED lifeVars)
        /\ WF_vars(~crashed /\ Step("gesture") /\ UNCHANGED lifeVars)

-----------------------------------------------------------------------------
TypeOK ==
  /\ mJumpingSumo \in 0..MaxFound
  /\ life \in [Drones -> {"NONE", "READY", "STARTING", "RUNNING", "STOPPING", "STOPPED"}]
  /\ moving \in [Drones -> BOOLEAN]
  /\ mActionState \in Actions /\ mArmState \in Arms
  /\ place \in [Threads -> {"idle", "setArmState", "ask", "doAction", "compare", "send", "crashed"}]
  /\ goal \in [Threads -> Actions] /\ writes \in [Threads -> Seq(Writes)]
  /\ mLastImuData \in BOOLEAN /\ blind \in BOOLEAN
  /\ arm \in Arms /\ torn \in BOOLEAN

Driving == isJumpingSumoConnected /\ moving[mJumpingSumo]

\* A drone that runs stands still when the action is to stop or to jump, for every
\* order of the two handlers, of connections and of new drones, except after a pair
\* of writes the other handler cut in two: nothing orders the flag and the action.
StoppedMeansStill ==
  (~torn /\ mActionState \in {"STOP", "JUMP"} /\ \A t \in Threads : ~WillAct(t)) => ~Driving

\* Whatever the race, the arm is the emergency stop: once it stays up or down,
\* the drone ends up standing still and stays so, unless a fist that came before
\* the first IMU sample has ended the process.
ArmStops == <>[](arm # "CENTER") => <>[](crashed \/ ~Driving)

\* A drone told to go is driving in the end, also when it was told before it ran
\* or when the other handler's flag came last: each IMU sample tells it again.
GoMeansDriving ==
  <>[](mActionState = "GO" /\ mArmState = "CENTER" /\ isJumpingSumoConnected) => <>[]Driving
=============================================================================
