----------------------------- MODULE KeyObjects -----------------------------
(***************************************************************************)
(* The key objects of the Noise library: NoiseDHState (dhstate.c with      *)
(* dh-curve25519.c) and NoiseSignState (signstate.c with sign-ed25519.c),  *)
(* under any sequence of calls.  The two differ in what a rejected key     *)
(* leaves behind.                                                          *)
(***************************************************************************)
EXTENDS Naturals, FiniteSets

CONSTANTS Slots,        \* pointers to objects
          Privates,     \* private keys, none of them all zero
          Zero,         \* a buffer of zero bytes
          Messages

ASSUME KeyAssumption == Zero \notin Privates

Pub(k) == [of |-> k]                            \* the public key of k
Zeroes == [of |-> Zero]                         \* a zero public key
Publics == {Pub(k) : k \in Privates} \cup {Zeroes}

VARIABLES kind,      \* what each pointer points to, "dh" or "sign"
          objs,      \* the object behind each pointer
          sigs,      \* signatures made
          shared,    \* Diffie-Hellman results
          copied     \* what the last get_keypair or get_public_key copied out
keyVars == <<kind, objs, sigs, shared, copied>>

Absent == [type |-> "absent", priv |-> Zero, pub |-> Zeroes]
EmptyKey == [type |-> "none", priv |-> Zero, pub |-> Zeroes]
PublicOnly(p) == [type |-> "public", priv |-> Zero, pub |-> p]
KeyPair(k, p) == [type |-> "keypair", priv |-> k, pub |-> p]

Exists(s) == objs[s] # Absent
IsDH(s) == kind[s] = "dh" /\ Exists(s)
IsSign(s) == kind[s] = "sign" /\ Exists(s)

KeyInit ==
  /\ kind \in [Slots -> {"dh", "sign"}]
  /\ objs = [s \in Slots |-> Absent]
  /\ sigs = {} /\ shared = {} /\ copied = [ok |-> FALSE, priv |-> Zero, pub |-> Zeroes]

Becomes(s, o) ==
  /\ objs' = [objs EXCEPT ![s] = o]
  /\ UNCHANGED <<kind, sigs, shared, copied>>

CopiesOut(c) == copied' = c /\ UNCHANGED <<kind, objs, sigs, shared>>

---------------------------------------------------------------------------
\* Diffie-Hellman objects.
noise_curve25519_new == EmptyKey
noise_curve25519_generate_keypair == {KeyPair(k, Pub(k)) : k \in Privates}
\* The pair is copied whether it belongs together or not.
noise_curve25519_set_keypair(k, p) == [ok |-> p = Pub(k), key |-> KeyPair(k, p)]
noise_curve25519_set_keypair_private(k) == KeyPair(k, Pub(k))
noise_curve25519_copy(from) == [priv |-> from.priv, pub |-> from.pub]
noise_curve25519_calculate(priv, pub) == {priv, pub.of}

noise_dhstate_has_keypair(s) == objs[s].type = "keypair"
noise_dhstate_has_public_key(s) == objs[s].type # "none"

noise_dhstate_new_by_id(s) == kind[s] = "dh" /\ ~Exists(s) /\ Becomes(s, noise_curve25519_new)
noise_dhstate_free(s) == IsDH(s) /\ Becomes(s, Absent)

noise_dhstate_generate_keypair(s) ==
  IsDH(s) /\ \E pair \in noise_curve25519_generate_keypair : Becomes(s, pair)

\* Curve25519 ignores the object a pair is to depend on.
noise_dhstate_generate_dependent_keypair(s, other) ==
  IsDH(s) /\ IsDH(other) /\ \E pair \in noise_curve25519_generate_keypair : Becomes(s, pair)

\* A pair that does not belong together has been copied: the object is
\* cleared.
noise_dhstate_set_keypairMutant(s, k, p) ==
  IsDH(s) /\ Becomes(s, noise_curve25519_set_keypair(k, p).key)

noise_dhstate_set_keypair(s, k, p) ==
  /\ IsDH(s)
  /\ LET set == noise_curve25519_set_keypair(k, p)
     IN  Becomes(s, IF set.ok THEN set.key ELSE EmptyKey)

noise_dhstate_set_keypair_private(s, k) ==
  IsDH(s) /\ Becomes(s, noise_curve25519_set_keypair_private(k))

\* Without a keypair the caller's buffers are zeroed.
noise_dhstate_get_keypair(s) ==
  /\ IsDH(s)
  /\ CopiesOut(IF noise_dhstate_has_keypair(s) THEN [ok |-> TRUE, priv |-> objs[s].priv, pub |-> objs[s].pub]
               ELSE [ok |-> FALSE, priv |-> Zero, pub |-> Zeroes])

noise_dhstate_set_public_key(s, p) == IsDH(s) /\ Becomes(s, PublicOnly(p))
\* An object without a key gives its zeroes.
noise_dhstate_get_public_key(s) ==
  IsDH(s) /\ CopiesOut([ok |-> TRUE, priv |-> Zero, pub |-> objs[s].pub])
noise_dhstate_set_null_public_key(s) == IsDH(s) /\ Becomes(s, PublicOnly(Zeroes))
noise_dhstate_clear_key(s) == IsDH(s) /\ Becomes(s, EmptyKey)

noise_dhstate_copy(s, from) ==
  /\ IsDH(s) /\ IsDH(from) /\ s # from
  /\ LET c == noise_curve25519_copy(objs[from])
     IN  Becomes(s, [type |-> objs[from].type, priv |-> c.priv, pub |-> c.pub])

\* The shared point of a private and a public key, a null result for a null
\* public key; an object without a key has a zero public key.
noise_cmove_zero(secret, isNull) == IF isNull THEN {Zero} ELSE secret

noise_dhstate_calculate(s, t) ==
  /\ IsDH(s) /\ IsDH(t) /\ noise_dhstate_has_keypair(s)
  /\ LET isNull == objs[t].pub = Zeroes
         secret == noise_curve25519_calculate(objs[s].priv, objs[t].pub)
     IN  shared' = shared \cup {[priv |-> objs[s].priv, pub |-> objs[t].pub,
                                 out |-> noise_cmove_zero(secret, isNull)]}
  /\ UNCHANGED <<kind, objs, sigs, copied>>

---------------------------------------------------------------------------
\* Signature objects.
noise_ed25519_new == EmptyKey
noise_ed25519_generate_keypair == {KeyPair(k, Pub(k)) : k \in Privates}
noise_ed25519_validate_keypair(k, p) == p = Pub(k)
noise_ed25519_derive_public_key(k) == Pub(k)
noise_ed25519_sign(o, m) == [priv |-> o.priv, pub |-> o.pub, msg |-> m]
\* Ed25519 accepts a signature of m made with both halves of a pair, under
\* the public half.
noise_ed25519_verify(pub, m, sig) == sig.msg = m /\ sig.pub = pub /\ pub = Pub(sig.priv)

noise_signstate_has_keypair(s) == objs[s].type = "keypair"
noise_signstate_has_public_key(s) == objs[s].type # "none"

noise_signstate_new_by_id(s) == kind[s] = "sign" /\ ~Exists(s) /\ Becomes(s, noise_ed25519_new)
noise_signstate_free(s) == IsSign(s) /\ Becomes(s, Absent)
noise_signstate_generate_keypair(s) ==
  IsSign(s) /\ \E pair \in noise_ed25519_generate_keypair : Becomes(s, pair)

\* Here a mismatch is found first and leaves the old key.
noise_signstate_set_keypair(s, k, p) ==
  /\ IsSign(s) /\ noise_ed25519_validate_keypair(k, p)
  /\ Becomes(s, KeyPair(k, p))

noise_signstate_set_keypair_private(s, k) ==
  IsSign(s) /\ Becomes(s, KeyPair(k, noise_ed25519_derive_public_key(k)))

noise_signstate_get_keypair(s) ==
  /\ IsSign(s)
  /\ CopiesOut(IF noise_signstate_has_keypair(s) THEN [ok |-> TRUE, priv |-> objs[s].priv, pub |-> objs[s].pub]
               ELSE [ok |-> FALSE, priv |-> Zero, pub |-> Zeroes])

noise_signstate_set_public_key(s, p) == IsSign(s) /\ Becomes(s, PublicOnly(p))
noise_signstate_get_public_key(s) ==
  /\ IsSign(s) /\ noise_signstate_has_public_key(s)
  /\ CopiesOut([ok |-> TRUE, priv |-> Zero, pub |-> objs[s].pub])
noise_signstate_clear_key(s) == IsSign(s) /\ Becomes(s, EmptyKey)
noise_signstate_copy(s, from) == IsSign(s) /\ IsSign(from) /\ s # from /\ Becomes(s, objs[from])

noise_signstate_sign(s, m) ==
  /\ IsSign(s) /\ noise_signstate_has_keypair(s)
  /\ sigs' = sigs \cup {noise_ed25519_sign(objs[s], m)}
  /\ UNCHANGED <<kind, objs, shared, copied>>

noise_signstate_verify(s, m, sig) ==
  noise_signstate_has_public_key(s) /\ noise_ed25519_verify(objs[s].pub, m, sig)

KeyNext ==
  \/ \E s \in Slots :
       \/ noise_dhstate_new_by_id(s) \/ noise_dhstate_free(s) \/ noise_dhstate_generate_keypair(s)
       \/ noise_dhstate_clear_key(s) \/ noise_dhstate_set_null_public_key(s)
       \/ noise_dhstate_get_keypair(s) \/ noise_dhstate_get_public_key(s)
       \/ \E k \in Privates, p \in Publics : noise_dhstate_set_keypair(s, k, p)
       \/ \E k \in Privates : noise_dhstate_set_keypair_private(s, k)
       \/ \E p \in Publics : noise_dhstate_set_public_key(s, p)
       \/ \E t \in Slots :
            \/ noise_dhstate_copy(s, t) \/ noise_dhstate_generate_dependent_keypair(s, t)
            \/ noise_dhstate_calculate(s, t)
  \/ \E s \in Slots :
       \/ noise_signstate_new_by_id(s) \/ noise_signstate_free(s) \/ noise_signstate_generate_keypair(s)
       \/ noise_signstate_clear_key(s)
       \/ noise_signstate_get_keypair(s) \/ noise_signstate_get_public_key(s)
       \/ \E k \in Privates, p \in Publics : noise_signstate_set_keypair(s, k, p)
       \/ \E k \in Privates : noise_signstate_set_keypair_private(s, k)
       \/ \E p \in Publics : noise_signstate_set_public_key(s, p)
       \/ \E t \in Slots : noise_signstate_copy(s, t)
       \/ \E m \in Messages : noise_signstate_sign(s, m)

---------------------------------------------------------------------------
\* Whatever calls were made, a pair in an object belongs together, and an
\* object without a pair holds no private key (dhstate.c:375-637,
\* signstate.c:300-520).
PairsMatch ==
  \A s \in Slots : Exists(s) =>
    /\ objs[s].type = "keypair" => objs[s].pub = Pub(objs[s].priv)
    /\ objs[s].type # "keypair" => objs[s].priv = Zero
    /\ objs[s].type = "none" => objs[s].pub = Zeroes

\* Every signature made verifies in every object that holds the signer's
\* public key, and in no other (signstate.c:544-596).
SignaturesVerify ==
  \A sig \in sigs, s \in Slots : IsSign(s) =>
    (noise_signstate_verify(s, sig.msg, sig) <=> objs[s].pub = Pub(sig.priv))

\* Two parties that calculated with each other's public key have one secret,
\* and a null public key gives the null secret (dhstate.c:687-719).
SecretsAgree ==
  \A a, b \in shared :
    /\ a.pub = Pub(b.priv) /\ b.pub = Pub(a.priv) => a.out = b.out
    /\ (a.pub = Zeroes) <=> (a.out = {Zero})

\* A caller whose get_keypair failed has no part of a key in its buffers
\* (dhstate.c:463-486, signstate.c:394-417).
NothingCopiedOnError == copied.ok \/ (copied.priv = Zero /\ copied.pub = Zeroes)

\* The key objects hold whole pairs or none, and what two of them compute
\* with each other's public keys agrees.
KeysSound == PairsMatch /\ SignaturesVerify /\ SecretsAgree /\ NothingCopiedOnError
=============================================================================
