----------------------------- MODULE MCPipeline -----------------------------
(* Two symbols or one, for TLC.                                            *)
EXTENDS Pipeline

CONSTANTS s1, s2

TwoSymbols == <<s1, s2>>
OneSymbol == <<s1>>

\* One feed makes enough ticks to fill its queue and wait.
Uneven == s1 :> 2 @@ s2 :> 1
Three == s1 :> 3
=============================================================================
