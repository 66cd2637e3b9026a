------------------------------- MODULE DroneLife -------------------------------
(***************************************************************************)
(* What the connection of a drone promises to the code that steers it: the *)
(* JumpingSumo objects are made one after the other, gestures go to the    *)
(* last one, and an object runs at most once. DroneLink implements this;   *)
(* DronePilot is composed with it.                                         *)
(***************************************************************************)
EXTENDS Integers

CONSTANT MaxFound   \* bound of the run: JumpingSumo objects made

ASSUME LifeConstants == MaxFound \in Nat

VARIABLES
  mJumpingSumo,   \* the last object made, 0: null
  life            \* mState of each object, "NONE": not made, "READY": not started yet

lifeVars == <<mJumpingSumo, life>>

Drones == 1..MaxFound

LifeInit == mJumpingSumo = 0 /\ life = [d \in Drones |-> "NONE"]

Goes(d, from, to) ==
  life[d] = from /\ life' = [life EXCEPT ![d] = to] /\ UNCHANGED mJumpingSumo

Make(d) ==
  /\ d = mJumpingSumo + 1 /\ mJumpingSumo' = d
  /\ \E state \in {"READY", "STOPPED"} : life' = [life EXCEPT ![d] = state]

LifeNext ==
  \E d \in Drones :
    \/ Make(d)
    \/ Goes(d, "READY", "STARTING")
    \/ Goes(d, "STARTING", "RUNNING") \/ Goes(d, "STARTING", "STOPPED")
    \/ Goes(d, "RUNNING", "STOPPING") \/ Goes(d, "STOPPING", "STOPPED")

LifeSpec == LifeInit /\ [][LifeNext]_lifeVars
=============================================================================
