---------------------------- MODULE MCApiServer -----------------------------
(* ApiServer for TLC: requests that pass every check, for two conversation   *)
(* ids and both kinds of response, and one request refused by each check.    *)
EXTENDS ApiServer, TLC

CONSTANTS key, wrong

Good == [method |-> "POST", xApiKey |-> Absent, bearer |-> key, json |-> TRUE,
         messages |-> <<"ok", "ok">>, model |-> TRUE, conversation |-> Absent, stream |-> FALSE]

MCInputs ==
  { [Good EXCEPT !.stream = s, !.conversation = id] : s \in BOOLEAN, id \in {Absent, "mine"} }
  \cup { [Good EXCEPT !.method = "GET"],
         [Good EXCEPT !.xApiKey = wrong],
         [Good EXCEPT !.messages = <<"ok", "badContent">>] }

Symmetric == Permutations(Reqs)
=============================================================================
