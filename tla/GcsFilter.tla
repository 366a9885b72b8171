----------------------------- MODULE GcsFilter ------------------------------
(***************************************************************************)
(* The Golomb-coded set of a sync request (src/main/bitle_sync.c): the     *)
(* identifiers a node has, hashed to buckets, sorted and coded as bits,    *)
(* most significant first, and the decoder at the other end.               *)
(***************************************************************************)
EXTENDS Integers, Sequences, FiniteSets, SequencesExt

CONSTANTS Digest,     \* a number for every identifier: its SHA-256
          GcsP,       \* GCS_P
          MaxBytes    \* GCS_MAX_BYTES

gcs_bucket(id, m) ==
  LET v == Digest[id] % m
  IN  IF m <= 1 THEN 0 ELSE IF v = 0 THEN 1 ELSE v

\* The count low bits of a value.
bw_put_bits(value, count) ==
  [i \in 1..count |-> (value \div (2^(count - i))) % 2]

\* delta - 1 as that many ones for the quotient, a zero, and p bits.
GolombCode(delta, p) ==
  [i \in 1..((delta - 1) \div (2^p)) |-> 1] \o <<0>> \o bw_put_bits((delta - 1) % (2^p), p)

\* The mutated form codes the distance itself.
gcs_encodeMutant(sorted, p) ==
  LET prev(i) == IF i = 1 THEN 0 ELSE sorted[i - 1]
      bits == FlattenSeq([i \in 1..Len(sorted) |-> GolombCode(sorted[i] - prev(i) + 1, p)])
      pad == (8 - (Len(bits) % 8)) % 8
  IN  bits \o [i \in 1..pad |-> 0]

\* Whole bytes; nothing when the buffer is too small.
gcs_encode(sorted, p) ==
  LET prev(i) == IF i = 1 THEN 0 ELSE sorted[i - 1]
      bits == FlattenSeq([i \in 1..Len(sorted) |-> GolombCode(sorted[i] - prev(i), p)])
      pad == (8 - (Len(bits) % 8)) % 8
  IN  IF Len(bits) > 8 * MaxBytes THEN <<>>
      ELSE bits \o [i \in 1..pad |-> 0]

\* The value of a sequence of bits.
ValueOf(bits) == FoldLeft(LAMBDA v, b : 2 * v + b, 0, bits)

RECURSIVE DecodeFrom(_, _, _, _)
\* The buckets coded in the bits, after acc.
DecodeFrom(bits, p, m, acc) ==
  LET q == IF \A i \in 1..Len(bits) : bits[i] = 1 THEN Len(bits)
           ELSE (CHOOSE i \in 1..Len(bits) :
                   bits[i] = 0 /\ \A j \in 1..(i - 1) : bits[j] = 1) - 1
      next == acc + q * 2^p + ValueOf(SubSeq(bits, q + 2, q + 1 + p)) + 1
  IN  IF Len(bits) < q + 1 + p \/ next >= m THEN <<>>
      ELSE <<next>> \o DecodeFrom(SubSeq(bits, q + 2 + p, Len(bits)), p, m, next)

gcs_decode(bits, p, m) ==
  IF p \notin 1..32 \/ m <= 1 THEN <<>> ELSE DecodeFrom(bits, p, m, 0)

\* Binary search of a sorted sequence.
RECURSIVE SearchIn(_, _, _, _)
SearchIn(values, needle, lo, hi) ==
  LET mid == (lo + hi) \div 2
  IN  IF lo >= hi THEN FALSE
      ELSE IF values[mid + 1] < needle THEN SearchIn(values, needle, mid + 1, hi)
      ELSE IF values[mid + 1] > needle THEN SearchIn(values, needle, lo, mid)
      ELSE TRUE

sorted_contains(values, needle) == SearchIn(values, needle, 0, Len(values))

\* The modulus and the sorted buckets of a set of identifiers.
collect_buckets(ids) ==
  LET m == IF ids = {} THEN 1 ELSE Cardinality(ids) * 2^GcsP
  IN  [m |-> m, sorted |-> SetToSortSeq({gcs_bucket(id, m) : id \in ids}, <)]
=============================================================================
