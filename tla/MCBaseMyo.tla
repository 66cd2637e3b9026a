------------------------------ MODULE MCBaseMyo ------------------------------
(* Instances of BaseMyo for TLC: two commands of the application that share    *)
(* the command characteristic, as every Myo.write*() does; a read and a write  *)
(* that share another one, as readDeviceName() and writeDeviceName() do; and   *)
(* one descriptor write of onServicesDiscovered.                               *)
EXTENDS BaseMyo, TLC

CONSTANTS vibrate, unlock, name, rename, enable

MCIdentOf == [m \in Msg |-> CASE m \in {vibrate, unlock} -> "command"
                              [] m \in {name, rename}    -> "name"
                              [] OTHER                   -> "emg"]

\* retries as a caller may set them, and the default, for ever
MCRetryOf == [m \in Msg |-> CASE m \in {unlock, rename} -> 1
                              [] m = name               -> -1
                              [] OTHER                  -> 0]

LoopSymmetry == Permutations(Loop)
=============================================================================
