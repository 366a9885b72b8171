------------------------------- MODULE MacArith -------------------------------
(***************************************************************************)
(* The arithmetic of the authenticators: Poly1305 on limbs with delayed    *)
(* carries (crypto/donna/poly1305-donna-32.h) and GHASH's multiplication   *)
(* bit by bit (crypto/ghash/ghash.c).                                      *)
(*                                                                         *)
(* Poly1305 has five limbs of 26 bits and the modulus 2^130 - 5; here five *)
(* limbs of W bits and 2^(5W) - 5.  The carry of a product is then smaller *)
(* by the same share of a limb, from W = 6 on.  An element of GHASH's      *)
(* field is the set of the exponents of its polynomial, bit 0 leftmost.    *)
(***************************************************************************)
EXTENDS Integers, Sequences, FiniteSets

CONSTANTS W,              \* bits of a limb
          Keys, Pads,     \* r as limbs, pad as a number
          MacBlocks,      \* blocks as limbs, the last two bits short
          MaxBlocks,
          Degree, LowTerms,   \* GHASH's polynomial: x^Degree plus the terms of LowTerms
          GhashKeys, GhashBlocks

VARIABLES r, pad, acc,   \* the Poly1305 state
          value,         \* the number the blocks so far stand for
          count, mac,
          ghKey, ghY,    \* the GHASH state
          ghValue        \* the polynomial the blocks so far stand for
macVars == <<r, pad, acc, value, count, mac, ghKey, ghY, ghValue>>

Limb == 2^W
HiBit == 2^(W - 2)                        \* of the last limb: 1 << 128
Modulus == 2^(5 * W) - 5
Low(x) == x % Limb
High(x) == x \div Limb

Num(l) == l[1] + Limb * (l[2] + Limb * (l[3] + Limb * (l[4] + Limb * l[5])))

\* poly1305_blocks on one block: h += m, h *= r, partial carries.
PartialMutant(d) ==
  LET d2 == d[2] + High(d[1])
      d3 == d[3] + High(d2)
      d4 == d[4] + High(d3)
      d5 == d[5] + High(d4)
      h1 == Low(d[1]) + 5 * High(d5)
  IN  <<Low(h1), Low(d2), Low(d3), Low(d4), Low(d5)>>

Partial(d) ==
  LET d2 == d[2] + High(d[1])
      d3 == d[3] + High(d2)
      d4 == d[4] + High(d3)
      d5 == d[5] + High(d4)
      h1 == Low(d[1]) + 5 * High(d5)
  IN  <<Low(h1), Low(d2) + High(h1), Low(d3), Low(d4), Low(d5)>>

poly1305_block(a, k, m, hibit) ==
  LET h == [i \in 1..5 |-> a[i] + m[i] + (IF i = 5 THEN hibit * HiBit ELSE 0)]
      \* limb j of r, times 5 where the product wraps round the modulus
      Term(i, j) == h[j] * (IF j <= i THEN k[i - j + 1] ELSE 5 * k[i - j + 6])
  IN  Partial([i \in 1..5 |-> Term(i, 1) + Term(i, 2) + Term(i, 3) + Term(i, 4) + Term(i, 5)])

\* poly1305_finish: carry fully and take h or h - p.
Select(h, g) == IF g[5] < 0 THEN h ELSE g

ReducedLimbs(a) ==
  LET h3 == a[3] + High(a[2])
      h4 == a[4] + High(h3)
      h5 == a[5] + High(h4)
      h1 == a[1] + 5 * High(h5)
      h == <<Low(h1), Low(a[2]) + High(h1), Low(h3), Low(h4), Low(h5)>>
      g1 == h[1] + 5
      g2 == h[2] + High(g1)
      g3 == h[3] + High(g2)
      g4 == h[4] + High(g3)
      g == <<Low(g1), Low(g2), Low(g3), Low(g4), (h[5] + High(g4)) - Limb>>
  IN  Select(h, g)

\* The limbs are ORed into words, which is their sum as long as no limb has a
\* carry left (TagReduced), and the pad is added modulo 2^128.
FinishMac(a) == (Num(ReducedLimbs(a)) + pad) % 2^((5 * W) - 2)

\* GF128_mul.
Sum2(a, b) == (a \ b) \cup (b \ a)
TimesX(v) == Sum2({e + 1 : e \in v \ {Degree - 1}}, IF Degree - 1 \in v THEN LowTerms ELSE {})

RECURSIVE MulBits(_, _, _, _)
MulBits(y, v, z, bit) ==
  IF bit = Degree THEN z
  ELSE MulBits(y, TimesX(v), IF bit \in y THEN Sum2(z, v) ELSE z, bit + 1)
GF128_mul(y, h) == MulBits(y, h, {}, 0)

---------------------------------------------------------------------------
\* The definitions: numbers modulo Modulus, polynomials modulo x^Degree + LowTerms.
RECURSIVE TimesMod(_, _)
TimesMod(a, b) ==
  IF b = 0 THEN 0
  ELSE LET half == TimesMod(a, b \div 2)
           twice == (half + half) % Modulus
       IN  IF b % 2 = 1 THEN (twice + a) % Modulus ELSE twice

RECURSIVE ModPoly(_)
ModPoly(p) ==
  IF \A e \in p : e < Degree THEN p
  ELSE LET top == CHOOSE e \in p : \A f \in p : f <= e
       IN  ModPoly(Sum2(p \ {top}, {t + top - Degree : t \in LowTerms}))

TimesPoly(a, b) ==
  {e \in 0..(2 * Degree) : Cardinality({<<i, j>> \in a \X b : i + j = e}) % 2 = 1}

MacInit ==
  /\ r \in Keys /\ pad \in Pads /\ acc = <<0, 0, 0, 0, 0>> /\ value = 0
  /\ count = 0 /\ mac = -1
  /\ ghKey \in GhashKeys /\ ghY = {} /\ ghValue = {}

AbsorbBlock(m, hibit) ==
  /\ mac = -1 /\ count < MaxBlocks
  /\ count' = count + 1
  /\ acc' = poly1305_block(acc, r, m, hibit)
  /\ value' = TimesMod((value + Num(m) + (hibit * (2^((5 * W) - 2)))) % Modulus, Num(r) % Modulus)
  /\ UNCHANGED <<r, pad, mac, ghKey, ghY, ghValue>>

FinishTag ==
  /\ mac = -1
  /\ mac' = FinishMac(acc)
  /\ UNCHANGED <<r, pad, acc, value, count, ghKey, ghY, ghValue>>

AbsorbGhash(b) ==
  /\ mac = -1 /\ count < MaxBlocks
  /\ count' = count + 1
  /\ ghY' = GF128_mul(Sum2(ghY, b), ghKey)
  /\ ghValue' = ModPoly(TimesPoly(Sum2(ghValue, b), ghKey))
  /\ UNCHANGED <<r, pad, acc, value, mac, ghKey>>

MacNext ==
  \/ \E m \in MacBlocks, hibit \in {0, 1} : AbsorbBlock(m, hibit)
  \/ FinishTag
  \/ \E b \in GhashBlocks : AbsorbGhash(b)

---------------------------------------------------------------------------
\* The limbs with their delayed carries stay the number modulo 2^130 - 5
\* and stay small enough for the next product (poly1305-donna-32.h:98-122).
LimbsAreTheNumber ==
  /\ Num(acc) % Modulus = value
  /\ \A i \in 1..5 : acc[i] < 2 * Limb

\* The one pass of carries at the end leaves none, so that the limbs do not
\* overlap in the words they are ORed into, and the tag is the reduced number
\* plus the pad, for a number at or just above the modulus too
\* (poly1305-donna-32.h:150-200).
TagReduced ==
  /\ \A i \in 1..5 : ReducedLimbs(acc)[i] \in 0..(Limb - 1)
  /\ mac # -1 => mac = (value + pad) % 2^((5 * W) - 2)

\* GHASH's shift and add is the product of polynomials (ghash.c:136-176).
GhashIsProduct == ghY = ghValue

\* The limb and bit arithmetic computes the polynomials of Poly1305 and GHASH.
MacSound == LimbsAreTheNumber /\ TagReduced /\ GhashIsProduct
=============================================================================
