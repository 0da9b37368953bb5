----------------------------- MODULE MCMDNSTieBreak -----------------------------
(***************************************************************************)
(* Two hosts for MDNSTieBreak.                                             *)
(***************************************************************************)
EXTENDS MDNSTieBreak, TLC

CONSTANTS h1, h2

Hosts    == {h1, h2}
SameType == [h \in Hosts |-> 33]
TwoData  == (h1 :> 1) @@ (h2 :> 2)
================================================================================
