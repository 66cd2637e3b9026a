--------------------------- MODULE MessageDelivery ---------------------------
(***************************************************************************)
(* What BaseMyo promises of a submitted message, whatever becomes of the    *)
(* link: it is reported at most once, only after it was submitted, and a    *)
(* message the dispatcher has lost track of is never heard of again.        *)
(***************************************************************************)
CONSTANT Msg
VARIABLE status

Init == status = [m \in Msg |-> "new"]

Move(m, from, to) == status[m] = from /\ status' = [status EXCEPT ![m] = to]

Submit(m) == Move(m, "new", "pending")
Report(m) == Move(m, "pending", "done")
Lose(m)   == Move(m, "pending", "lost")

Next == \E m \in Msg : Submit(m) \/ Report(m) \/ Lose(m)

Spec == Init /\ [][Next]_status
=============================================================================
