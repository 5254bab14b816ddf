---------------------------- MODULE MCUserStore ----------------------------
(* A small instance of UserStore for TLC: an email in both cases, the bare
   name before its @, and phones. *)
EXTENDS UserStore, TLC

CONSTANTS name, email, Email, phone, phone2

MCIds == {name, email, Email, phone, phone2}
MCLower == [x \in MCIds |-> IF x = Email THEN email ELSE x]
MCNameOf == [x \in MCIds |-> IF x \in {email, Email} THEN name ELSE Absent]

UidSymmetry == Permutations(Uids)
============================================================================
