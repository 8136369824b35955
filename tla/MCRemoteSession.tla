-------------------------- MODULE MCRemoteSession --------------------------
(***************************************************************************)
(* A small instance of RemoteSession: two tasks of the application.        *)
(***************************************************************************)
EXTENDS RemoteSession, TLC

MCTaskSymmetry == Permutations(Tasks)
=============================================================================
