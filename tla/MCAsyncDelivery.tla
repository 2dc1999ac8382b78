-------------------------- MODULE MCAsyncDelivery --------------------------
(* Constants of AsyncDelivery for model checking.                          *)
EXTENDS AsyncDelivery

CONSTANTS w1

\* The first record of one writer is urgent, its second and the other writer's
\* are not.
MCUrgent == {[writer |-> w1, n |-> 1]}
=============================================================================
