-------------------------------- MODULE Clock -------------------------------
(***************************************************************************)
(* The time that the processes of the server read.  A module that extends  *)
(* this one has an action of its own for the passing of time, which says   *)
(* what of its state waits for the clock.                                  *)
(***************************************************************************)
EXTENDS Naturals

CONSTANT MaxTime   \* bound: the end of the modelled time

VARIABLE now

\* Time passes by one unit.
Later == now < MaxTime /\ now' = now + 1

=============================================================================
