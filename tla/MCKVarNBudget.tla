--------------------------- MODULE MCKVarNBudget ---------------------------
(* One model in the layouts repositories ship, at sizes on both sides of   *)
(* every step of the cap.                                                  *)
EXTENDS KVarNBudget

Nothing == [n \in {} |-> 0]
NoManifest == [safetensors |-> {}, bin |-> {}]
Shards(w) == "one" :> w \div 4 @@ "two" :> w - w \div 4
Layouts(w) ==
  LET named == [safetensors |-> {"one", "two"}, bin |-> {}]
      of(st, bin, manifest) == [disk |-> [safetensors |-> st, bin |-> bin],
                                manifest |-> manifest, loaded |-> w]
  IN {of(Shards(w), Nothing, named),
      of(Shards(w) @@ "consolidated" :> w, Nothing, named),
      of("one" :> w \div 4 @@ "consolidated" :> w, Nothing, named),
      of("model" :> w, Nothing, NoManifest),
      of("consolidated" :> w, Shards(w), NoManifest),
      of(Shards(w), Nothing, NoManifest),
      of(Nothing, Shards(w), [safetensors |-> {}, bin |-> {"one", "two"}]),
      of(Nothing, Nothing, NoManifest)}
MCCheckpoints ==
  UNION {Layouts(w) : w \in {7200, 5664, 5536, 5408, 5280, 5152, 4640, 3744, 2080}}
MCBudgets == {MaxSlots(c) : c \in MCCheckpoints}
=============================================================================
