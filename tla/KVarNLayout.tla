----------------------------- MODULE KVarNLayout -----------------------------
(***************************************************************************)
(* The byte layout of a packed record, as KVarNConfig derives it from the  *)
(* head size D, the group G and the bits of keys and values.               *)
(***************************************************************************)
EXTENDS Integers

CONSTANT BigHead  \* head size from which KVARN_POW2_SLOT rounds the slot (256)

ASSUME BigHeadOK == BigHead \in Nat

KPackedBytes(c) == (c.D * c.G * c.kb + 7) \div 8
VPackedBytes(c) == (c.G * c.D * c.vb + 7) \div 8

\* q, channel scale, channel zero and token scale of K; q, channel scale,
\* token scale and token zero of V.
Size(c) ==
  [kq |-> KPackedBytes(c), kc |-> c.D * 2, kz |-> c.D * 2, kr |-> c.G * 2,
   vq |-> VPackedBytes(c), vc |-> c.D * 2, vr |-> c.G * 2, vz |-> c.G * 2]

Offset(c) ==
  LET kc == KPackedBytes(c)
      kz == kc + c.D * 2
      kr == kz + c.D * 2
      vq == kr + c.G * 2
      vc == vq + VPackedBytes(c)
      vr == vc + c.D * 2
      vz == vr + c.G * 2
  IN [kq |-> 0, kc |-> kc, kz |-> kz, kr |-> kr, vq |-> vq, vc |-> vc, vr |-> vr, vz |-> vz]

TileBytes(c) ==
  KPackedBytes(c) + (2 * c.D + c.G) * 2 + VPackedBytes(c) + (c.D + 2 * c.G) * 2

RoundUp(n, unit) == ((n + unit - 1) \div unit) * unit

\* lcm(8, G) and the power of two of at least n.
Lcm8(n) == IF n % 8 = 0 THEN n ELSE IF n % 4 = 0 THEN 2 * n ELSE IF n % 2 = 0 THEN 4 * n ELSE 8 * n
Pow2(n) ==
  LET shifted[i \in 0 .. n] == IF i = 0 THEN 1 ELSE 2 * shifted[i - 1]
  IN CHOOSE p \in {shifted[i] : i \in 0 .. n} : n <= p /\ (p = 1 \/ p < 2 * n)

\* The record is padded so that the slot of a token is whole.
Aligned_To8(c) == RoundUp(TileBytes(c), 8)
Aligned(c) ==
  IF c.D >= BigHead /\ c.pow2 THEN Pow2((TileBytes(c) + c.G - 1) \div c.G) * c.G
  ELSE RoundUp(TileBytes(c), Lcm8(c.G))
=============================================================================
