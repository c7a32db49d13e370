--------------------------- MODULE MCConversation ---------------------------
(* Conversation for TLC.                                                     *)
EXTENDS Conversation, FiniteSets, TLC

Symmetric == Permutations(Asks) \cup Permutations(Convs)

\* Bounds of the run "overlap", whose asks are numbers.  Asks and conversations
\* are interchangeable, so the asks begin in their order, the first one on a
\* fixed conversation.  Every race is between two asks; a third one is needed to
\* find what they left behind, and it comes to asks of one kind and one
\* conversation, whose answers have no token.
Begun == {a \in Asks : pc'[a] # "idle"}

Bounded ==
  /\ \A b \in Begun : (1..b) \subseteq Begun /\ (b = 1 => conv'[b] = CHOOSE c \in Convs : TRUE)
  /\ Cardinality({a \in Begun : pc'[a] # "done"}) <= 2
  /\ Cardinality(Begun) > 2 => \A a \in Begun : /\ conv'[a] = conv'[1] /\ kind'[a] = "Ask"
                                                /\ head'[a].token = Absent
=============================================================================
