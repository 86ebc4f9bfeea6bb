--------------------------- MODULE MCGeneration ---------------------------
(* Generation for TLC: four prompts.                                       *)
EXTENDS Generation

PromptIds == <<1, 2, 3, 4>>
=============================================================================
