-------------------------- MODULE AccessLifecycleMC --------------------------
(* Instances of AccessLifecycle for TLC. *)
EXTENDS AccessLifecycle

CONSTANT u1

\* All requests are one user's: the limit is per user.
OneUser == {u1}
OwnedByOne == [r \in Requests |-> u1]
=============================================================================
