------------------------------ MODULE RandState ------------------------------
(***************************************************************************)
(* The random number generator of the Noise library                        *)
(* (src/components/noise_ref/src/protocol/randstate.c): a ChaCha20 stream  *)
(* that is reseeded from the system's entropy and rekeys itself.           *)
(*                                                                         *)
(* A key is a number: keys are taken from keystream nobody else has, so    *)
(* every keysetup gives a new one.  A block of keystream is the key and    *)
(* the block counter.                                                      *)
(***************************************************************************)
EXTENDS Integers, Sequences, FiniteSets

CONSTANTS StreamLen,          \* 64 bytes of keystream
          ReseedCount,    \* 1600000, a multiple of StreamLen
          RekeyCount,     \* 16
          Lengths,        \* lengths of requests
          MaxKeys         \* bound: keys used

VARIABLES rng,       \* [key, ctr, left], the NoiseRandState
          handed,    \* keystream blocks given to callers, in order
          eaten,     \* keystream blocks that became keys
          seeded     \* bytes handed out since entropy was last mixed in
randVars == <<rng, handed, eaten, seeded>>

\* What a call does, step by step, to r = [rng, handed, eaten, seeded].
BlockOf(r) == [key |-> r.rng.key, ctr |-> r.rng.ctr]

\* chacha_encrypt_bytes on up to a block, then keysetup and ivsetup.
noise_randstate_rekey(r) ==
  [r EXCEPT !.rng.key = @ + 1, !.rng.ctr = 0, !.eaten = @ \cup {BlockOf(r)}]

noise_randstate_reseed(r) ==
  LET mixed == noise_randstate_rekey(r)
  IN  [noise_randstate_rekey(mixed) EXCEPT !.rng.left = ReseedCount, !.seeded = 0]

HandOut(r, n) ==
  [r EXCEPT !.handed = Append(@, BlockOf(r)), !.rng.ctr = @ + 1, !.seeded = @ + n]

MinOf(a, b) == IF a < b THEN a ELSE b

\* The loop of noise_randstate_generate: charge the block or reseed, rekey
\* after RekeyCount blocks of this request, hand out.
RECURSIVE GenerateLoop(_, _, _)
GenerateLoop(r, len, blocks) ==
  IF len = 0 THEN r
  ELSE LET enough == r.rng.left >= StreamLen
           charged == IF enough THEN [r EXCEPT !.rng.left = @ - StreamLen] ELSE noise_randstate_reseed(r)
           count == IF enough THEN blocks ELSE 0
           full == count >= RekeyCount
           ready == IF full THEN noise_randstate_rekey(charged) ELSE charged
           n == MinOf(len, StreamLen)
       IN  GenerateLoop(HandOut(ready, n), len - n, IF full THEN 0 ELSE count + 1)

GenerateMutant(r, len) == GenerateLoop(IF r.rng.left < len THEN noise_randstate_reseed(r) ELSE r, len, 0)
Generate(r, len) ==
  noise_randstate_rekey(GenerateLoop(IF r.rng.left < len THEN noise_randstate_reseed(r) ELSE r, len, 0))

State == [rng |-> rng, handed |-> handed, eaten |-> eaten, seeded |-> seeded]
Call(r) ==
  /\ r.rng.key <= MaxKeys
  /\ rng' = r.rng /\ handed' = r.handed /\ eaten' = r.eaten /\ seeded' = r.seeded

\* noise_randstate_new: the fixed starting key, then a reseed.
New == noise_randstate_reseed(
         [rng |-> [key |-> 0, ctr |-> 0, left |-> 0], handed |-> <<>>, eaten |-> {}, seeded |-> 0])

RandInit ==
  /\ rng = New.rng /\ handed = New.handed /\ eaten = New.eaten /\ seeded = New.seeded

noise_randstate_generate == \E len \in Lengths : Call(Generate(State, len))
ForceReseed == Call(noise_randstate_reseed(State))

RandNext == noise_randstate_generate \/ ForceReseed

---------------------------------------------------------------------------
HandedBlocks == {handed[i] : i \in 1..Len(handed)}

\* No keystream block is handed out twice, and none that is handed out is or
\* becomes a key (randstate.c:280-313).
KeystreamOnce ==
  /\ Cardinality(HandedBlocks) = Len(handed)
  /\ HandedBlocks \cap eaten = {}

\* "This prevents the state from being rolled backwards" (randstate.c:312):
\* between requests the key in memory has produced none of the bytes handed
\* out before.
NotRolledBack == \A b \in HandedBlocks : b.key # rng.key

\* Fresh entropy is mixed in after at most ReseedCount bytes, and one block
\* more when a single request is longer than that (randstate.c:281-298); a
\* key gives at most RekeyCount blocks, and one more after a rekey within
\* the request.
Refreshed ==
  /\ seeded <= ReseedCount + StreamLen
  /\ \A k \in {b.key : b \in HandedBlocks} :
       Cardinality({b \in HandedBlocks : b.key = k}) <= RekeyCount + 1

\* The generator never repeats itself, cannot be rolled back and is refreshed.
RandSound == KeystreamOnce /\ NotRolledBack /\ Refreshed
=============================================================================
