--------------------------- MODULE PrepareSteps ---------------------------
(***************************************************************************)
(* What preparing a model promises: the checkpoint arrives once, then its  *)
(* parts land one at a time, each after all the parts before it, and       *)
(* nothing that landed is ever lost.                                       *)
(***************************************************************************)
EXTENDS Naturals, Sequences

CONSTANT Order   \* the parts, in the order they land

VARIABLES downloaded, landed

vars == <<downloaded, landed>>

Init == downloaded = FALSE /\ landed = {}

Download ==
  /\ ~downloaded
  /\ downloaded' = TRUE
  /\ UNCHANGED landed

Land(i) ==
  /\ downloaded
  /\ landed = {Order[j] : j \in 1..(i - 1)}
  /\ landed' = landed \cup {Order[i]}
  /\ UNCHANGED downloaded

Next == Download \/ \E i \in 1..Len(Order) : Land(i)

Spec == Init /\ [][Next]_vars
=============================================================================
