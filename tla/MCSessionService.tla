-------------------------- MODULE MCSessionService --------------------------
(***************************************************************************)
(* A small instance of SessionService: two clients, one session id they    *)
(* may both choose, and generated ids.                                     *)
(***************************************************************************)
EXTENDS SessionService, TLC

MCClientSymmetry == Permutations(Clients)
=============================================================================
