------------------------------- MODULE MCLsa -------------------------------
(* Two conversations of three blocks that part in the second one.          *)
EXTENDS Lsa, TLC

MCTexts == <<<<1, 3, -2, 5, 4, -6, 7, -2, -1, 8, 6>>,
             <<1, 3, -2, 5, 4, -6, -5, 2, 9, 3, -4>>>>
Served(page, texts, prompts, chunks, n) ==
  [page |-> page, texts |-> texts, prompts |-> prompts, chunks |-> chunks, starts |-> n]
Straight == {Served(6, 1, {3, 9}, {2, 5}, 2), Served(4, 2, {3, 9}, {2, 5}, 2),
             Served(4, 1, {9}, {2}, 3)}
Forked == {Served(6, 2, {3, 9}, {2, 5}, 2)}
MCScoreRows == [0 .. 5 -> {0, 1, 3}]
SameBoxes == Permutations(Pages) \cup Permutations(Requests)
=============================================================================
