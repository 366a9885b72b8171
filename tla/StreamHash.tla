------------------------------ MODULE StreamHash ------------------------------
(***************************************************************************)
(* The block buffering of the hashes and authenticators of the Noise       *)
(* library (crypto/sha2, crypto/blake2, crypto/donna/poly1305-donna.c,     *)
(* crypto/ghash): data comes in pieces of any length and is compressed     *)
(* block by block.                                                         *)
(*                                                                         *)
(* The compression functions are symbolic: the chaining value is the       *)
(* sequence of everything compressed so far.  A context is [h, m, posn,    *)
(* length]; m keeps the bytes of earlier use, as the buffers do.  A byte   *)
(* is a set of atoms, so that XOR is symmetric difference and {} is zero.  *)
(* Blocks are scaled from 16, 64 or 128 bytes to Block bytes and a length  *)
(* field to one byte.                                                      *)
(***************************************************************************)
EXTENDS Integers, Sequences

CONSTANT Block

Zeros(n) == [i \in 1..n |-> {}]
Marker == {128}                           \* 0x80 of the SHA-2 padding
One == {1}
LengthByte(n) == {1000 + n}               \* a byte of a length field
Prefix(d, n) == SubSeq(d, 1, n)
Rest(d, n) == SubSeq(d, n + 1, Len(d))
Least(a, b) == IF a < b THEN a ELSE b
\* memcpy into a buffer at an offset.
Put(m, at, d) == [i \in 1..Len(m) |-> IF i > at /\ i <= at + Len(d) THEN d[i - at] ELSE m[i]]

\* The reset functions leave m alone.
Reset(c) == [c EXCEPT !.h = <<>>, !.posn = 0, !.length = 0]
NewContext == [h |-> <<>>, m |-> Zeros(Block), posn |-> 0, length |-> 0]

---------------------------------------------------------------------------
\* SHA-256 and SHA-512.
sha256_reset(c) == Reset(c)
sha256_transform(c, block) == [c EXCEPT !.h = Append(@, block)]

RECURSIVE sha256_update(_, _)
sha256_update(c, d) ==
  IF d = <<>> THEN c
  ELSE IF c.posn = 0 /\ Len(d) >= Block
  THEN sha256_update([sha256_transform(c, Prefix(d, Block)) EXCEPT !.length = @ + Block], Rest(d, Block))
  ELSE LET temp == Least(Block - c.posn, Len(d))
           filled == [c EXCEPT !.m = Put(@, c.posn, Prefix(d, temp)), !.posn = @ + temp,
                               !.length = @ + temp]
       IN  sha256_update(IF filled.posn >= Block THEN [sha256_transform(filled, filled.m) EXCEPT !.posn = 0]
                         ELSE filled,
                         Rest(d, temp))

\* The end mark and zeroes up to the length field; in a block of their own
\* when the field does not fit behind the mark.
Marked(c) == Put(c.m, c.posn, <<Marker>> \o Zeros(Block - c.posn - 1))
Finish(c, fits, field) ==
  LET last == IF fits THEN Marked(c) ELSE Zeros(Block)
      one == IF fits THEN c ELSE sha256_transform(c, Marked(c))
  IN  [sha256_transform(one, Put(last, Block - Len(field), field)) EXCEPT !.posn = 0]

sha256_finishMutant(c) == Finish(c, TRUE, <<LengthByte(c.length)>>)
sha256_finish(c) == Finish(c, c.posn <= Block - 2, <<LengthByte(c.length)>>)

\* sha512.c is sha256.c with words twice as wide, but its length field is
\* twice the length it holds: here two bytes.
sha512_reset(c) == Reset(c)
sha512_transform(c, block) == sha256_transform(c, block)
sha512_update(c, d) == sha256_update(c, d)
sha512_finish(c) == Finish(c, c.posn <= Block - 3, Zeros(1) \o <<LengthByte(c.length)>>)

---------------------------------------------------------------------------
\* BLAKE2s: a full block waits, it may be the last; a block is compressed
\* with the byte count and the finalisation flag.
BLAKE2s_reset(c) == Reset(c)
blake2s_transform(c, block, final) ==
  [c EXCEPT !.h = Append(@, [block |-> block, count |-> c.length, final |-> final])]

RECURSIVE BLAKE2s_update(_, _)
BLAKE2s_update(c, d) ==
  IF d = <<>> THEN c
  ELSE LET e == IF c.posn = Block THEN [blake2s_transform(c, c.m, FALSE) EXCEPT !.posn = 0] ELSE c
       IN  IF Len(d) > Block /\ e.posn = 0
           THEN BLAKE2s_update(blake2s_transform([e EXCEPT !.length = @ + Block], Prefix(d, Block), FALSE),
                               Rest(d, Block))
           ELSE LET n == Least(Block - e.posn, Len(d))
                IN  BLAKE2s_update([e EXCEPT !.m = Put(@, e.posn, Prefix(d, n)), !.posn = @ + n,
                                             !.length = @ + n],
                                   Rest(d, n))

BLAKE2s_finish(c) ==
  LET padded == [c EXCEPT !.m = Put(@, c.posn, Zeros(Block - c.posn))]
  IN  blake2s_transform(padded, padded.m, TRUE)

\* blake2b.c is blake2s.c with words twice as wide.
BLAKE2b_reset(c) == Reset(c)
blake2b_transform(c, block, final) == blake2s_transform(c, block, final)
BLAKE2b_update(c, d) == BLAKE2s_update(c, d)
BLAKE2b_finish(c) == BLAKE2s_finish(c)

---------------------------------------------------------------------------
\* Poly1305: hibit is the bit above a full block.
poly1305_init(c) == Reset(c)

RECURSIVE poly1305_blocks(_, _, _)
poly1305_blocks(c, d, hibit) ==
  IF Len(d) < Block THEN c
  ELSE poly1305_blocks([c EXCEPT !.h = Append(@, [block |-> Prefix(d, Block), hibit |-> hibit])],
                       Rest(d, Block), hibit)

poly1305_update(c, d) ==
  LET want == IF c.posn = 0 THEN 0 ELSE Least(Block - c.posn, Len(d))
      topped == [c EXCEPT !.m = Put(@, c.posn, Prefix(d, want)), !.posn = @ + want]
      early == c.posn # 0 /\ topped.posn < Block
      e == IF c.posn = 0 THEN c ELSE [poly1305_blocks(topped, topped.m, 1) EXCEPT !.posn = 0]
      more == Rest(d, want)
      whole == Len(more) - (Len(more) % Block)
      done == poly1305_blocks(e, Prefix(more, whole), 1)
      left == Rest(more, whole)
  IN  IF early THEN topped
      ELSE [done EXCEPT !.m = Put(@, done.posn, left), !.posn = @ + Len(left)]

poly1305_finish(c) ==
  IF c.posn = 0 THEN c
  ELSE poly1305_blocks(c, Put(c.m, c.posn, <<One>> \o Zeros(Block - c.posn - 1)), 0)

---------------------------------------------------------------------------
\* GHASH: data is added into Y in place; m holds what was added since the
\* last multiplication.
GF128_mulStep(c) == [c EXCEPT !.h = Append(@, c.m), !.m = Zeros(Block), !.posn = 0]

RECURSIVE ghash_update(_, _)
ghash_update(c, d) ==
  IF d = <<>> THEN c
  ELSE LET size == Least(Block - c.posn, Len(d))
           e == [c EXCEPT !.m = Put(@, c.posn, Prefix(d, size)), !.posn = @ + size]
       IN  ghash_update(IF e.posn = Block THEN GF128_mulStep(e) ELSE e, Rest(d, size))

ghash_pad(c) == IF c.posn # 0 THEN GF128_mulStep(c) ELSE c
ghash_reset(c) == NewContext
-----------------------------------------------------------------------------
(* A hash object (backend/ref/hash-*.c) or a bitle_sha256_ctx_t            *)
(* (src/main/bitle_hash.c) in use: reset, any number of updates of any     *)
(* size, finish, and again.                                                *)
CONSTANTS MaxChunk,      \* bytes of one update
          MaxMessage,    \* bytes of one message
          MaxUses        \* messages through one context

VARIABLES alg,       \* the algorithm
          hctx,      \* its context
          message,   \* bytes since the reset
          uses,
          digest     \* of the message, once finished
hashVars == <<alg, hctx, message, uses, digest>>

Algs == {"SHA256", "SHA512", "BLAKE2s", "BLAKE2b", "Poly1305", "GHASH", "PSA"}
Unfinished == [state |-> "pending", h |-> <<>>]
AllOnes == [state |-> "0xFF", h |-> <<>>]     \* what bitle_hash.c writes for a failed hash
Digest(h) == [state |-> "digest", h |-> h]

\* The PSA operation (external): posn is 1 while it is active.
psa_hash_setup(c) == [NewContext EXCEPT !.posn = 1]
psa_hash_abort(c) == NewContext
psa_hash_update(c, d) == [c EXCEPT !.h = @ \o d]

bitle_sha256_begin(c, ok) == IF ok THEN psa_hash_setup(c) ELSE psa_hash_abort(c)

bitle_sha256_update(c, d, ok) ==
  IF d = <<>> THEN c
  ELSE IF ok /\ c.posn = 1 THEN psa_hash_update(c, d)
  ELSE psa_hash_abort(c)

bitle_sha256_finish(c, ok) == IF ok /\ c.posn = 1 THEN Digest(c.h) ELSE AllOnes

\* The backends' reset, update and finalize (hash-*.c).
Fresh(c, ok) == CASE alg = "SHA256" -> sha256_reset(c)
                  [] alg = "SHA512" -> sha512_reset(c)
                  [] alg = "BLAKE2s" -> BLAKE2s_reset(c)
                  [] alg = "BLAKE2b" -> BLAKE2b_reset(c)
                  [] alg = "Poly1305" -> poly1305_init(c)
                  [] alg = "GHASH" -> ghash_reset(c)
                  [] alg = "PSA" -> bitle_sha256_begin(c, ok)

Fed(c, d, ok) == CASE alg = "SHA256" -> sha256_update(c, d)
                   [] alg = "SHA512" -> sha512_update(c, d)
                   [] alg = "BLAKE2s" -> BLAKE2s_update(c, d)
                   [] alg = "BLAKE2b" -> BLAKE2b_update(c, d)
                   [] alg = "Poly1305" -> poly1305_update(c, d)
                   [] alg = "GHASH" -> ghash_update(c, d)
                   [] alg = "PSA" -> bitle_sha256_update(c, d, ok)

Closed(c) == CASE alg = "SHA256" -> sha256_finish(c)
               [] alg = "SHA512" -> sha512_finish(c)
               [] alg = "BLAKE2s" -> BLAKE2s_finish(c)
               [] alg = "BLAKE2b" -> BLAKE2b_finish(c)
               [] alg = "Poly1305" -> poly1305_finish(c)
               [] alg = "GHASH" -> ghash_pad(c)
               [] alg = "PSA" -> NewContext

HashInit ==
  /\ alg \in Algs
  /\ hctx = Fresh(NewContext, TRUE)
  /\ message = <<>> /\ uses = 1 /\ digest = Unfinished

\* Bytes differ between messages and places.
NextBytes(n) == [i \in 1..n |-> {100 * uses + Len(message) + i}]

\* ok: whether a PSA call succeeds.
HashUpdate(n, ok) ==
  /\ digest = Unfinished
  /\ Len(message) + n <= MaxMessage
  /\ ok \/ alg = "PSA"
  /\ hctx' = Fed(hctx, NextBytes(n), ok)
  /\ message' = message \o NextBytes(n)
  /\ UNCHANGED <<alg, uses, digest>>

HashFinish(ok) ==
  /\ digest = Unfinished
  /\ ok \/ alg = "PSA"
  /\ hctx' = Closed(hctx)
  /\ digest' = IF alg = "PSA" THEN bitle_sha256_finish(hctx, ok) ELSE Digest(Closed(hctx).h)
  /\ UNCHANGED <<alg, message, uses>>

HashReset(ok) ==
  /\ uses < MaxUses
  /\ ok \/ alg = "PSA"
  /\ uses' = uses + 1
  /\ hctx' = Fresh(hctx, ok)
  /\ message' = <<>> /\ digest' = Unfinished
  /\ UNCHANGED alg

HashNext ==
  \E ok \in BOOLEAN :
    HashReset(ok) \/ HashFinish(ok) \/ \E n \in 0..MaxChunk : HashUpdate(n, ok)

---------------------------------------------------------------------------
\* What the algorithms' definitions compress for a whole message d.
Ceil(n) == (n + Block - 1) \div Block
Chunk(d, i) == SubSeq(d, (i - 1) * Block + 1, Least(i * Block, Len(d)))
ZeroPadded(d) == d \o Zeros(Block - Len(d))
Chunks(d) == [i \in 1..Ceil(Len(d)) |-> Chunk(d, i)]

Sha2(d, field) ==
  LET used == Len(d) + 1 + Len(field)
  IN  Chunks(d \o <<Marker>> \o Zeros((Ceil(used) * Block) - used) \o field)

Defined(d) ==
  CASE alg = "SHA256" -> Sha2(d, <<LengthByte(Len(d))>>)
    [] alg = "SHA512" -> Sha2(d, Zeros(1) \o <<LengthByte(Len(d))>>)
    [] alg \in {"BLAKE2s", "BLAKE2b"} ->
         LET last == IF d = <<>> THEN 1 ELSE Ceil(Len(d))
         IN  [i \in 1..last |-> [block |-> ZeroPadded(Chunk(d, i)), count |-> Least(i * Block, Len(d)),
                                 final |-> i = last]]
    [] alg = "Poly1305" ->
         [i \in 1..Ceil(Len(d)) |->
            LET c == Chunk(d, i) IN
            IF Len(c) = Block THEN [block |-> c, hibit |-> 1]
            ELSE [block |-> ZeroPadded(c \o <<One>>), hibit |-> 0]]
    [] alg = "GHASH" -> [i \in 1..Ceil(Len(d)) |-> ZeroPadded(Chunk(d, i))]
    [] OTHER -> d

\* However a message is cut into updates, and whatever the context hashed
\* before, the digest is that of the whole message: sha256.c:129-181,
\* sha512.c:142-198, blake2s.c:213-266, blake2b.c:145-202,
\* poly1305-donna.c:26-61, ghash.c:188-224.  And bitle_hash.c:42, "A
\* failed/aborted operation must never yield a digest that could match
\* anything real".
DigestOfWhole == digest.state = "digest" => digest.h = Defined(message)
=============================================================================
