---------------------------- MODULE MCMDNSQuestions ----------------------------
(***************************************************************************)
(* Small sets of questions and records for MDNSQuestions.                  *)
(***************************************************************************)
EXTENDS MDNSQuestions

CONSTANTS q1, q2, q3, e1, e2, e3

\* Two clients ask the same question, a third one of type ANY that more records
\* answer; the third record answers it alone
ThreeQuestions  == {q1, q2, q3}
Entries         == {e1, e2, e3}
Identities      == (q1 :> 1) @@ (q2 :> 1) @@ (q3 :> 2)
AnyAnswers      == {<<e1, q1>>, <<e1, q2>>, <<e1, q3>>, <<e2, q1>>, <<e2, q2>>, <<e2, q3>>, <<e3, q3>>}
================================================================================
