------------------------------- MODULE MDNSView -------------------------------
(***************************************************************************)
(* What the clients that ask questions see, whatever the engine does to    *)
(* show it to them: each client is told of every record once when it       *)
(* appears and once when it goes, about nothing it did not ask for, and    *)
(* never once it has stopped asking.                                       *)
(***************************************************************************)
CONSTANTS
  Question, NoQuestion, Entry,
  Answers                \* the pairs <<e, q>> of a record that answers q

VARIABLES
  asked,                 \* questions that clients have started
  known,                 \* records the engine has learned of
  view,                  \* what the client of each question has been told of
  told                   \* the question whose client is being told, if any

vars == <<asked, known, view, told>>

Init ==
  /\ asked = {}
  /\ known = {}
  /\ view = [q \in Question |-> {}]
  /\ told = NoQuestion

Ask(q) ==
  /\ q \notin asked
  /\ asked' = asked \union {q}
  /\ UNCHANGED <<known, view, told>>

Withdraw(q) ==
  /\ q \in asked
  /\ asked' = asked \ {q}
  /\ view' = [view EXCEPT ![q] = {}]
  /\ UNCHANGED <<known, told>>

Unseen(e) == \A q \in Question : e \notin view[q]

\* A record is learned of when no client has still to be told that it went.
\* Records that no client knows of may have to make room for it
Learn(e, recycled) ==
  /\ told = NoQuestion
  /\ e \notin known
  /\ Unseen(e)
  /\ \A x \in recycled : Unseen(x)
  /\ known' = (known \ recycled) \union {e}
  /\ UNCHANGED <<asked, view, told>>

Forget(e) ==
  /\ told = NoQuestion
  /\ e \in known
  /\ known' = known \ {e}
  /\ UNCHANGED <<asked, view, told>>

Tell(q, e) ==
  /\ told = NoQuestion
  /\ q \in asked
  /\ e \in known
  /\ <<e, q>> \in Answers
  /\ e \notin view[q]
  /\ view' = [view EXCEPT ![q] = @ \union {e}]
  /\ told' = q
  /\ UNCHANGED <<asked, known>>

Retract(q, e) ==
  /\ told = NoQuestion
  /\ q \in asked
  /\ e \in view[q]
  /\ e \notin known
  /\ view' = [view EXCEPT ![q] = @ \ {e}]
  /\ told' = q
  /\ UNCHANGED <<asked, known>>

Return ==
  /\ told # NoQuestion
  /\ told' = NoQuestion
  /\ UNCHANGED <<asked, known, view>>

Next ==
  \/ \E q \in Question : Ask(q) \/ Withdraw(q)
  \/ \E e \in Entry : Forget(e) \/ \E recycled \in SUBSET known : Learn(e, recycled)
  \/ \E q \in Question, e \in Entry : Tell(q, e) \/ Retract(q, e)
  \/ Return

Spec == Init /\ [][Next]_vars
===============================================================================
