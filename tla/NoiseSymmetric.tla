--------------------------- MODULE NoiseSymmetric ---------------------------
(* The lower objects of the Noise library, with symbolic cryptography:     *)
(* DHState (dhstate.c), CipherState (cipherstate.c), HashState             *)
(* (hashstate.c) and SymmetricState (symmetricstate.c).                    *)
(*                                                                         *)
(* A public key is a triple; a shared secret is the set of the two public  *)
(* keys; a hash or a derived key is the sequence of what went into it.     *)
(* Lengths are in units of 16 bytes, so that a key is 2 and a MAC is 1.    *)
EXTENDS Naturals, Sequences

CONSTANT MaxNonce   (* 2^64 - 1, the reserved nonce *)

ASSUME NonceAssumption == MaxNonce \in Nat \ {0}

KeyLen == 2
MacLen == 1

NullKey == <<"null", "", 0>>       (* all zeroes                                   *)
Junk    == <<"junk", "", 0>>       (* bytes that no party made as a key            *)
Empty   == <<"empty", "", 0>>      (* an empty payload                             *)
-----------------------------------------------------------------------------
(* DHState.  "absent" stands for a null pointer.                           *)
NoDH == [type |-> "absent", key |-> NullKey]

noise_dhstate_new          == [type |-> "none", key |-> NullKey]
noise_dhstate_set_keypair(key)    == [type |-> "keypair", key |-> key]
noise_dhstate_set_public_key(key) == [type |-> "public", key |-> key]
noise_dhstate_clear_key(d) == IF d.type = "absent" THEN d ELSE noise_dhstate_new

noise_dhstate_has_keypair(d)      == d.type = "keypair"
noise_dhstate_has_public_key(d)   == d.type \notin {"absent", "none"}
noise_dhstate_is_null_public_key(d) == noise_dhstate_has_public_key(d) /\ d.key = NullKey

\* A null public key, or a missing one, gives the null secret without an error.
noise_dhstate_calculate(priv, pub) ==
  IF pub.key = NullKey THEN {} ELSE {priv.key, pub.key}
-----------------------------------------------------------------------------
(* HashState.  Every call of noise_hashstate_hkdf has a chaining key as    *)
(* its key; the two outputs are told apart by where they are used.         *)
Item(t, v) == [t |-> t, v |-> v, k |-> <<>>, n |-> 0]
Sealed(k, n, v) == [t |-> "sealed", v |-> v, k |-> k, n |-> n]

noise_hashstate_hash_two(h, item) == Append(h, item)
noise_hashstate_hkdf(ck, item)    == Append(ck, item)
-----------------------------------------------------------------------------
(* CipherState: the key, <<>> when it is not set, and the next nonce.      *)
noise_cipherstate_init_key(k) == [k |-> k, n |-> 0]
noise_cipherstate_has_key(c)  == c.k # <<>>

\* A field of a message: with a key, the ciphertext and its MAC.
noise_cipherstate_encrypt_with_ad(c, ad, pt, size) ==
  IF noise_cipherstate_has_key(c)
  THEN [k |-> c.k, n |-> c.n, ad |-> ad, pt |-> pt, size |-> size + MacLen]
  ELSE [k |-> <<>>, n |-> 0, ad |-> <<>>, pt |-> pt, size |-> size]

\* Encryption is impossible once the nonce has reached the reserved value.
CanEncrypt(c) == noise_cipherstate_has_key(c) => c.n # MaxNonce

AfterCipher(c) == IF noise_cipherstate_has_key(c) THEN [c EXCEPT !.n = @ + 1] ELSE c

\* The MAC is right when key, nonce, associated data and ciphertext are.
noise_cipherstate_decrypt_with_ad(c, ad, f) ==
  \/ ~ noise_cipherstate_has_key(c)
  \/ f.size >= MacLen /\ c.n # MaxNonce /\ f.k = c.k /\ f.n = c.n /\ f.ad = ad

\* What decryption leaves in the buffer: without a key the bytes as they are.
Plaintext(c, f) ==
  IF noise_cipherstate_has_key(c) \/ f.k = <<>> THEN f.pt ELSE Junk

\* Mutant: the nonce may go backwards.
noise_cipherstate_set_nonceMutant(c, n) == noise_cipherstate_has_key(c)

noise_cipherstate_set_nonce(c, n) == noise_cipherstate_has_key(c) /\ c.n <= n
-----------------------------------------------------------------------------
(* SymmetricState; open is FALSE once the cipher has been split off.       *)
noise_symmetricstate_new(name) ==
  [ck |-> <<name>>, h |-> <<name>>, c |-> noise_cipherstate_init_key(<<>>), open |-> TRUE]

noise_symmetricstate_mix_key(s, item) ==
  LET ck == noise_hashstate_hkdf(s.ck, item)
  IN [s EXCEPT !.ck = ck, !.c = noise_cipherstate_init_key(ck)]

noise_symmetricstate_mix_hash(s, item) ==
  [s EXCEPT !.h = noise_hashstate_hash_two(@, item)]

\* What is hashed of a field: with its key and nonce it stands for the bytes,
\* since its associated data is the hash it is added to.
Hashed(f) == IF f.k = <<>> THEN Item("plain", {f.pt}) ELSE Sealed(f.k, f.n, {f.pt})

noise_symmetricstate_get_mac_length(s) ==
  IF s.open /\ noise_cipherstate_has_key(s.c) THEN MacLen ELSE 0

noise_symmetricstate_encrypt_and_hash(s, pt, size) ==
  LET f == noise_cipherstate_encrypt_with_ad(s.c, s.h, pt, size)
  IN [sym |-> noise_symmetricstate_mix_hash([s EXCEPT !.c = AfterCipher(@)], Hashed(f)),
      field |-> f]

\* Mutant: the error of the decryption is not looked at.
noise_symmetricstate_decrypt_and_hashMutant(s, f) ==
  [ok |-> TRUE, pt |-> Plaintext(s.c, f),
   sym |-> noise_symmetricstate_mix_hash([s EXCEPT !.c = AfterCipher(@)], Hashed(f))]

\* The hash takes the ciphertext only when it decrypts.
noise_symmetricstate_decrypt_and_hash(s, f) ==
  IF noise_cipherstate_decrypt_with_ad(s.c, s.h, f)
  THEN [ok |-> TRUE, pt |-> Plaintext(s.c, f),
        sym |-> noise_symmetricstate_mix_hash([s EXCEPT !.c = AfterCipher(@)], Hashed(f))]
  ELSE [ok |-> FALSE, pt |-> Junk, sym |-> s]

\* The two transport ciphers: c1 from the initiator, c2 to the initiator.
noise_symmetricstate_split(s) ==
  LET key(t) == noise_cipherstate_init_key(noise_hashstate_hkdf(s.ck, Item(t, {})))
  IN [c1 |-> key("k1"), c2 |-> key("k2"), sym |-> [s EXCEPT !.open = FALSE]]
=============================================================================
