--------------------------- MODULE MCSmartClient ---------------------------
(***************************************************************************)
(* SmartClient for TLC.                                                    *)
(***************************************************************************)
EXTENDS SmartClient

WarmupAfter == [k \in Kinds |-> IF k = "recovery" THEN 1 ELSE 0]

\* The observation being sent is one of the warmup: after the last one the
\* arming is still to come.
OfWarmup == mode = "warmup" \/ todo # <<>>

\* The warmup "fills the policy server's context window with consistent
\* home-state frames before the actual must_go inference fires": none of its
\* observations demands an inference.
WarmupFirst ==
  [][OfWarmup /\ pcC = "send" /\ pcC' = "sending" => ~up'.must]_vars
=============================================================================
