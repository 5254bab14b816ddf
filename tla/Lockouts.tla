------------------------------ MODULE Lockouts ------------------------------
(***************************************************************************)
(* The lockout record of a login id (auth_policy.rs).  The code keeps the  *)
(* time of the first failure and compares its age with a window; the model *)
(* keeps the age, and lets it grow no further than the window, because     *)
(* every age from there on is treated alike.                               *)
(***************************************************************************)
EXTENDS Integers

CONSTANTS
  MaxFailures, \* MAX_FAILURES
  Window       \* LOCKOUT_WINDOW_SECS

ASSUME LockoutsAssumption ==
  /\ MaxFailures \in Nat \ {0}
  /\ Window \in Nat \ {0}

Record == [count : Nat, age : 0..Window]

\* No entry in the map.
NoFailures == [count |-> 0, age |-> 0]

\* Mutant of LockedOut: one failure too late.
LockedOutLate(f) == f.count > MaxFailures /\ f.age < Window

\* check_not_locked_out
LockedOut(f) == f.count >= MaxFailures /\ f.age < Window

\* Mutant of Recorded: every failure restarts the window.
RecordedAfresh(f) == [count |-> f.count + 1, age |-> 0]

\* record_failure: the window runs from its first failure, and a failure after
\* its end opens a new one.
Recorded(f) ==
  IF f.age >= Window THEN [count |-> 1, age |-> 0]
  ELSE [count |-> f.count + 1, age |-> IF f.count = 0 THEN 0 ELSE f.age]

\* A unit of time passes.
Aged(f) == [f EXCEPT !.age = IF f.count = 0 \/ f.age = Window THEN @ ELSE @ + 1]
=============================================================================
