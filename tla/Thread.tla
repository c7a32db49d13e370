------------------------------- MODULE Thread -------------------------------
(***************************************************************************)
(* What a Conversation promises its callers: every answered turn is asked  *)
(* on the thread exactly as the turn before it left it, and leaves it at   *)
(* what its own answer said.  A turn happens at once; one that fails does  *)
(* not happen at all.                                                      *)
(***************************************************************************)
CONSTANTS Convs, Ids, None

VARIABLES thread,   \* the thread identity each conversation has reached
          turns     \* the answered turns of each conversation

Or(new, old) == IF new = None THEN old ELSE new

Init == /\ thread = [c \in Convs |-> [uuid |-> None, token |-> None]]
        /\ turns = [c \in Convs |-> {}]

Turn(c, uuid, token) ==
  /\ thread' = [thread EXCEPT ![c] = [uuid  |-> Or(uuid, thread[c].uuid),
                                      token |-> Or(token, thread[c].token)]]
  /\ turns' = [turns EXCEPT ![c] = @ \cup
        {[uuid        |-> uuid,
          token       |-> token,
          parent      |-> thread[c].uuid,
          parentToken |-> IF thread[c].uuid = None THEN None ELSE thread[c].token]}]

Next == \E c \in Convs, uuid, token \in Ids \cup {None} : Turn(c, uuid, token)

Spec == Init /\ [][Next]_<<thread, turns>>
=============================================================================
