----------------------------- MODULE MCPPEngine -----------------------------
(***************************************************************************)
(* Constants of the model-checked instances of PPEngine.                   *)
(***************************************************************************)
EXTENDS PPEngine, TLC
CONSTANTS r1, r2

Prompts11 == r1 :> 1 @@ r2 :> 1
Prompts51 == r1 :> 5 @@ r2 :> 1
Prompts3  == r1 :> 3
Tokens22  == r1 :> 2 @@ r2 :> 2
Tokens43  == r1 :> 4 @@ r2 :> 3
Tokens4   == r1 :> 4
=============================================================================
