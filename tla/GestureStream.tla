---------------------------- MODULE GestureStream ----------------------------
(***************************************************************************)
(* What the listener of classified gestures may rely on: it hears one      *)
(* session at a time, never a session that a later one has replaced, and   *)
(* never the same gesture twice in a row within a session.                 *)
(***************************************************************************)
EXTENDS Naturals

CONSTANTS Class,   \* classes a model can answer
          NoClass  \* nothing heard yet

VARIABLES current, \* number of the session that classifies, 0 before the first
          shown    \* last gesture heard, the session it came from, and a
                   \* turn, so that hearing a gesture is never a stutter

Heard(s, c, turn) == [by |-> s, class |-> c, turn |-> turn]

Init == current = 0 /\ shown = Heard(0, NoClass, 0)

Replace == current' = current + 1 /\ UNCHANGED shown

Hear(c) ==
    /\ current > 0
    /\ shown.by = current => shown.class # c
    /\ shown' = Heard(current, c, 1 - shown.turn)
    /\ UNCHANGED current

Next == Replace \/ \E c \in Class : Hear(c)

StreamSpec == Init /\ [][Next]_<<current, shown>>
=============================================================================
