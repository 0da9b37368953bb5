------------------------------- MODULE MCMDNSLoop -------------------------------
(***************************************************************************)
(* Records, a question and a small clock for MDNSLoop.                     *)
(***************************************************************************)
EXTENDS MDNSLoop, TLC

CONSTANTS r1, r2, q1

\* The clock is set back, or forward
ClockSteps == {-2, 3}

NeedsNone == [r \in Record |-> {}]

\* A PTR record needs the SRV record
PTRNeedsSRV == (r1 :> {}) @@ (r2 :> {r1})
================================================================================
