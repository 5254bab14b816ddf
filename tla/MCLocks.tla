------------------------------ MODULE MCLocks ------------------------------
(* A small instance of Locks for TLC. *)
EXTENDS Locks
============================================================================
