------------------------------- MODULE MCLogin -------------------------------
(* Instances of Login: the tokens of two sessions may differ in length. *)
EXTENDS Login

CONSTANTS l1, l2

MCSize == [l \in Logins \cup {old} |-> CASE l = old -> 3 [] l = l1 -> 2 [] OTHER -> 3]
=============================================================================
