----------------------------- MODULE MCAskWire -----------------------------
(***************************************************************************)
(* AskWire for TLC: an answer of four chunks of one letter each on the     *)
(* recorded wire, and one frame of every shape that processData            *)
(* distinguishes for a server that sends any.                              *)
(***************************************************************************)
EXTENDS AskWire

CONSTANTS a, b, c, e, \* pieces of answer text
          u1, u2,     \* web result urls
          uuid1       \* a backend uuid

MCTruth == <<<<a>>, <<b>>, <<c>>, <<e>>>>

NoData == [results |-> Absent, answer |-> Absent, chunks |-> Absent,
           title |-> Absent, progress |-> "none"]

MCData == { [NoData EXCEPT !.answer = <<a>>],
            [NoData EXCEPT !.answer = <<>>],
            [NoData EXCEPT !.chunks = <<>>],
            [NoData EXCEPT !.chunks = <<<<b>>>>, !.results = <<>>],
            [NoData EXCEPT !.chunks = <<<<a>>, <<b>>>>, !.answer = <<a, b>>],
            [NoData EXCEPT !.results = <<Absent, u1, u2>>] }

MCBlocks == { <<[usage |-> "ask_text", data |-> [NoData EXCEPT !.chunks = <<<<a>>>>, !.progress = "IN_PROGRESS"]]>>,
              <<[usage |-> "web_results", data |-> [NoData EXCEPT !.results = <<u1>>]],
                [usage |-> "ask_text", data |-> Absent],
                [usage |-> "ask_text", data |-> [NoData EXCEPT !.chunks = <<<<a>>, <<b>>>>, !.answer = <<a, b>>, !.progress = "DONE"]]>>,
              <<[usage |-> "web_results", data |-> [NoData EXCEPT !.results = <<Absent>>]],
                [usage |-> "plan", data |-> NoData]>> }

MCSteps == { <<[type |-> "other", data |-> [NoData EXCEPT !.answer = <<b>>]],
               [type |-> "FINAL", data |-> [NoData EXCEPT !.answer = <<a>>]],
               [type |-> "FINAL", data |-> [NoData EXCEPT !.answer = <<b>>]]>>,
             <<[type |-> "FINAL", data |-> Absent]>>,
             <<[type |-> "RESEARCH_CLARIFYING_QUESTIONS", data |-> Absent],
               [type |-> "FINAL", data |-> [NoData EXCEPT !.answer = <<a>>]]>> }

MCBodies == {[kind |-> "other"]}
              \cup {[kind |-> "object", data |-> d] : d \in MCData}
              \cup {[kind |-> "blocks", blocks |-> bs] : bs \in MCBlocks}
              \cup {[kind |-> "steps", steps |-> s] : s \in MCSteps}

Plain == [rateLimited |-> FALSE, upsell |-> FALSE, uuid |-> Absent,
          token |-> Absent, title |-> Absent, final |-> FALSE, body |-> [kind |-> "other"]]

MCFrames == {[Plain EXCEPT !.body = bd] : bd \in MCBodies}
              \cup { [Plain EXCEPT !.upsell = TRUE, !.uuid = uuid1],
                     [Plain EXCEPT !.rateLimited = TRUE],
                     [Plain EXCEPT !.final = TRUE,
                                   !.body = [kind |-> "object", data |-> [NoData EXCEPT !.answer = <<b>>]]] }
=============================================================================
