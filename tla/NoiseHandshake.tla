--------------------------- MODULE NoiseHandshake ---------------------------
(* HandshakeState of the Noise library (handshakestate.c): the calls that  *)
(* make, configure, start, run, split and fall back a handshake, as        *)
(* operators on its state.                                                 *)
EXTENDS NoisePatterns, NoiseSymmetric, SequencesExt

\* A protocol identifier: prefix "Noise" or "NoisePSK", pattern, and whether a
\* hybrid algorithm is named.
Name(id) == Item("name", {<<id.prefix, id.pattern, IF id.hybrid THEN 1 ELSE 0>>})

noise_handshakestate_requirements(p, prefix, isFallback) ==
  (IF "s" \in p.local THEN {"local"} ELSE {})
  \cup (IF "req" \in p.local THEN {"local", "localPremsg"} ELSE {})
  \cup (IF "req" \in p.remote THEN {"remote", "remotePremsg"} ELSE {})
  \cup (IF isFallback /\ "ereq" \in p.local \cup p.remote THEN {"fallbackPremsg"} ELSE {})
  \cup (IF prefix = "NoisePSK" THEN {"psk"} ELSE {})

\* noise_handshakestate_new refuses a hybrid algorithm the pattern does not use,
\* and the lack of one that it does.
Applicable(id) == id.hybrid = ("f" \in noise_pattern_lookup(id.pattern).local)

Flags(id, role) ==
  LET p == noise_pattern_lookup(id.pattern)
  IN IF role = "responder" THEN noise_pattern_reverse_flags(p) ELSE p

\* owner and gen name the keys the object will generate.
noise_handshakestate_new(id, role, owner, gen) ==
  LET p == Flags(id, role)
      dh(side, x) == IF x \in side THEN noise_dhstate_new ELSE NoDH
  IN [id |-> id, role |-> role, action |-> "none", err |-> "none",
      owner |-> owner, gen |-> gen,
      reqs |-> noise_handshakestate_requirements(p, id.prefix, FALSE)
               \cup (IF "req" \in noise_pattern_lookup(id.pattern).remote
                     THEN {"fallback"} ELSE {}),
      tokens |-> p.tokens, sym |-> noise_symmetricstate_new(Name(id)), psk |-> FALSE,
      ls |-> dh(p.local, "s"), le |-> dh(p.local, "e"), lf |-> dh(p.local, "f"),
      rs |-> dh(p.remote, "s"), re |-> dh(p.remote, "e"), rf |-> dh(p.remote, "f")]

noise_handshakestate_needs_local_keypair(s) ==
  "local" \in s.reqs /\ ~ noise_dhstate_has_keypair(s.ls)

noise_handshakestate_needs_remote_public_key(s) ==
  "remote" \in s.reqs /\ ~ noise_dhstate_has_public_key(s.rs)

noise_handshakestate_needs_pre_shared_key(s) == "psk" \in s.reqs /\ ~ s.psk
-----------------------------------------------------------------------------
noise_handshakestate_mix_public_key(sym, d) ==
  IF noise_dhstate_has_public_key(d)
  THEN noise_symmetricstate_mix_hash(sym, Item("plain", {d.key})) ELSE sym

noise_handshakestate_mix_chaining_key(sym, d) ==
  IF noise_dhstate_has_public_key(d)
  THEN noise_symmetricstate_mix_key(sym, Item("key", {d.key})) ELSE sym

\* What start accepts: a handshake that has not begun and has all it requires.
CanStart(s) ==
  /\ s.action = "none"
  /\ s.id.pattern = "XXfallback" => "fallbackPremsg" \in s.reqs
  /\ ~ noise_handshakestate_needs_local_keypair(s)
  /\ ~ noise_handshakestate_needs_remote_public_key(s)
  /\ ~ noise_handshakestate_needs_pre_shared_key(s)

\* The empty prologue, and the pre shared key when there is one.
Prologue(s) ==
  LET h == noise_symmetricstate_mix_hash(s.sym, Item("prologue", {}))
      ck == noise_hashstate_hkdf(h.ck, Item("psk", {}))
  IN IF s.psk
     THEN noise_symmetricstate_mix_hash([h EXCEPT !.ck = ck], Sealed(ck, 0, {}))
     ELSE h

\* Mutant: the keys that carry over are not part of the new handshake of a responder.
FallbackPremsgMutant(s, sym, e, f) ==
  IF s.role = "responder" THEN sym ELSE noise_handshakestate_mix_public_key(sym, e)

\* The initiator's ephemeral and hybrid keys, after a fallback.
FallbackPremsg(s, sym, e, f) ==
  IF "fallbackPremsg" \notin s.reqs THEN sym
  ELSE LET keys == noise_handshakestate_mix_public_key(
                     noise_handshakestate_mix_public_key(sym, e), f)
       IN IF "psk" \in s.reqs THEN noise_handshakestate_mix_chaining_key(keys, e) ELSE keys

Premsg(s, sym, req, d) ==
  IF req \in s.reqs THEN noise_handshakestate_mix_public_key(sym, d) ELSE sym

noise_handshakestate_start(s) ==
  LET p == Prologue(s)
      asInitiator == Premsg(s, FallbackPremsg(s, Premsg(s, p, "localPremsg", s.ls),
                                              s.re, s.rf), "remotePremsg", s.rs)
      asResponder == Premsg(s, FallbackPremsg(s, Premsg(s, p, "remotePremsg", s.rs),
                                              s.le, s.lf), "localPremsg", s.ls)
  IN IF s.role = "initiator" THEN [s EXCEPT !.sym = asInitiator, !.action = "write"]
     ELSE [s EXCEPT !.sym = asResponder, !.action = "read"]
-----------------------------------------------------------------------------
(* Tokens.  t is the state of a write or a read: the handshake, the        *)
(* message (written so far, or still to be read) and the error.            *)
Fail(t, e) == [t EXCEPT !.err = e]

\* A null private key pointer is dereferenced.
noise_handshake_mix_dh(t, priv, pub) ==
  LET secret == Item("dh", noise_dhstate_calculate(priv, pub))
  IN IF priv.type = "absent" THEN Fail(t, "null pointer")
     ELSE IF pub.type = "absent" THEN Fail(t, "invalid param")
     ELSE IF ~ noise_dhstate_has_keypair(priv) THEN Fail(t, "invalid private key")
     ELSE [t EXCEPT !.s.sym = noise_symmetricstate_mix_key(@, secret)]

\* The tokens that both sides process alike; the first letter of "es" and "se"
\* is the initiator's key.
MixDH(t, token) ==
  LET s == t.s
      mine == s.role = "initiator"
  IN CASE token = "ee" -> noise_handshake_mix_dh(t, s.le, s.re)
       [] token = "ss" -> noise_handshake_mix_dh(t, s.ls, s.rs)
       [] token = "ff" -> noise_handshake_mix_dh(t, s.lf, s.rf)
       [] token = "es" -> IF mine THEN noise_handshake_mix_dh(t, s.le, s.rs)
                          ELSE noise_handshake_mix_dh(t, s.ls, s.re)
       [] token = "se" -> IF mine THEN noise_handshake_mix_dh(t, s.ls, s.re)
                          ELSE noise_handshake_mix_dh(t, s.le, s.rs)

\* With pre-shared keys the ephemeral key also goes into the chaining key.
MixEphemeral(s, key) ==
  LET sym == noise_symmetricstate_mix_hash(s.sym, Item("plain", {key}))
  IN IF s.id.prefix = "NoisePSK" THEN noise_symmetricstate_mix_key(sym, Item("key", {key}))
     ELSE sym

\* Adds pt, sealed when there is a key, to the message.
PutSealed(t, pt, size) ==
  LET w == noise_symmetricstate_encrypt_and_hash(t.s.sym, pt, size)
  IN IF ~ CanEncrypt(t.s.sym.c) THEN Fail(t, "invalid nonce")
     ELSE [t EXCEPT !.s.sym = w.sym, !.msg = Append(@, w.field)]

WriteE(t, key) ==
  IF t.s.le.type = "absent" THEN Fail(t, "invalid state")
  ELSE [t EXCEPT !.s = [@ EXCEPT !.le = noise_dhstate_set_keypair(key),
                                 !.sym = MixEphemeral(t.s, key)],
                 !.msg = Append(@, [k |-> <<>>, n |-> 0, ad |-> <<>>, pt |-> key,
                                    size |-> KeyLen])]

WriteF(t, key) ==
  IF t.s.lf.type = "absent" \/ t.s.rf.type = "absent" THEN Fail(t, "invalid state")
  ELSE PutSealed([t EXCEPT !.s.lf = noise_dhstate_set_keypair(key)], key, KeyLen)

WriteToken(t, token) ==
  LET me == t.s.ls.key
      fresh(kind) == <<t.s.owner, kind, t.s.gen>>
  IN IF t.err # "none" THEN t
     ELSE CASE token = "e" -> WriteE(t, fresh("e"))
            [] token = "f" -> WriteF(t, fresh("f"))
            [] token = "s" -> IF t.s.ls.type = "absent" THEN Fail(t, "invalid state")
                              ELSE PutSealed(t, me, KeyLen)
            [] OTHER -> MixDH(t, token)

\* The end of a message: the next one goes the other way, or there is none.
Finish(t, next) ==
  IF t.err # "none" THEN [t EXCEPT !.s.action = "failed", !.s.err = t.err]
  ELSE [t EXCEPT !.s.tokens = Tail(@),
                 !.s.action = IF Len(t.s.tokens) = 1 THEN "split" ELSE next]

noise_handshakestate_write(s) ==
  LET t == FoldLeft(WriteToken, [s |-> s, msg |-> <<>>, err |-> "none"], Head(s.tokens))
  IN Finish(IF t.err # "none" THEN t ELSE PutSealed(t, Empty, 0), "read")
-----------------------------------------------------------------------------
Total(msg) == FoldLeft(LAMBDA a, f : a + f.size, 0, msg)
JunkField(len) == [k |-> <<>>, n |-> 0, ad |-> <<>>, pt |-> Junk, size |-> len]

\* The first len bytes of a message, whatever the fields it was written with.
Take(msg, len) ==
  IF msg # <<>> /\ Head(msg).size = len THEN [f |-> Head(msg), rest |-> Tail(msg)]
  ELSE [f |-> JunkField(len), rest |-> <<JunkField(Total(msg) - len)>>]

AsKey(f) == IF f.k = <<>> THEN f.pt ELSE Junk

\* Opens the next field of the message, len bytes and a MAC: the state, and
\* what was in it.
GetSealed(t, len) ==
  LET size == len + noise_symmetricstate_get_mac_length(t.s.sym)
      got  == Take(t.msg, size)
      open == noise_symmetricstate_decrypt_and_hash(t.s.sym, got.f)
  IN [pt |-> open.pt,
      t  |-> IF Total(t.msg) < size THEN Fail(t, "invalid length")
             ELSE IF ~ open.ok THEN Fail(t, "mac failure")
             ELSE [t EXCEPT !.s.sym = open.sym, !.msg = got.rest]]

ReadE(t) ==
  LET got == Take(t.msg, KeyLen)
      key == AsKey(got.f)
  IN IF t.s.re.type = "absent" THEN Fail(t, "invalid state")
     ELSE IF Total(t.msg) < KeyLen THEN Fail(t, "invalid length")
     ELSE [t EXCEPT !.s = [@ EXCEPT !.re = noise_dhstate_set_public_key(key),
                                    !.sym = MixEphemeral(t.s, key)],
                    !.msg = got.rest,
                    !.err = IF key = NullKey THEN "invalid public key" ELSE @]

ReadS(t) ==
  LET got == GetSealed(t, KeyLen)
  IN IF t.s.rs.type = "absent" THEN Fail(t, "invalid state")
     ELSE IF got.t.err # "none" THEN got.t
     ELSE [got.t EXCEPT !.s.rs = noise_dhstate_set_public_key(got.pt)]

ReadF(t) ==
  LET got == GetSealed(t, KeyLen)
  IN IF t.s.lf.type = "absent" \/ t.s.rf.type = "absent" THEN Fail(t, "invalid state")
     ELSE IF got.t.err # "none" THEN got.t
     ELSE [got.t EXCEPT !.s.rf = noise_dhstate_set_public_key(got.pt),
                        !.err = IF got.pt = NullKey THEN "invalid public key" ELSE @]

ReadToken(t, token) ==
  IF t.err # "none" THEN t
  ELSE CASE token = "e" -> ReadE(t) [] token = "f" -> ReadF(t) [] token = "s" -> ReadS(t)
         [] OTHER -> MixDH(t, token)

\* All that is left is the payload.
ReadPayload(t) ==
  LET all  == IF Len(t.msg) = 1 THEN Head(t.msg) ELSE JunkField(Total(t.msg))
      open == noise_symmetricstate_decrypt_and_hash(t.s.sym, all)
  IN IF open.ok THEN [t EXCEPT !.s.sym = open.sym] ELSE Fail(t, "mac failure")

noise_handshakestate_read(s, msg) ==
  LET t == FoldLeft(ReadToken, [s |-> s, msg |-> msg, err |-> "none"], Head(s.tokens))
  IN Finish(IF t.err # "none" THEN t ELSE ReadPayload(t), "write")
-----------------------------------------------------------------------------
noise_handshakestate_split(s) ==
  LET w == noise_symmetricstate_split(s.sym)
  IN [s |-> [s EXCEPT !.action = "complete", !.sym = w.sym],
      send |-> IF s.role = "responder" THEN w.c2 ELSE w.c1,
      recv |-> IF s.role = "responder" THEN w.c1 ELSE w.c2]

OneWay == {"N", "K", "X"}   (* identifiers below NOISE_PATTERN_NN *)

\* What noise_handshakestate_fallback_to accepts.
CanFallback(s, target) ==
  /\ s.id.pattern \notin OneWay /\ "fallback" \in s.reqs
  /\ "ereq" \in noise_pattern_lookup(target).remote
  /\ IF s.role = "initiator"
     THEN /\ s.action \in {"failed", "read"} /\ noise_dhstate_has_public_key(s.le)
          /\ s.lf.type = "absent" \/ noise_dhstate_has_public_key(s.lf)
     ELSE /\ s.action \in {"failed", "write"} /\ noise_dhstate_has_public_key(s.re)
          /\ s.rf.type = "absent" \/ noise_dhstate_has_public_key(s.rf)

\* The roles change; the initiator's ephemeral key carries over.
noise_handshakestate_fallback_to(s, target) ==
  LET id    == [s.id EXCEPT !.pattern = target]
      wasI  == s.role = "initiator"
      role  == IF wasI THEN "responder" ELSE "initiator"
      keep  == "req" \in noise_pattern_lookup(target).remote
  IN [s EXCEPT !.id = id, !.role = role, !.action = "none", !.err = "none",
               !.gen = @ + 1, !.tokens = Flags(id, role).tokens,
               !.reqs = noise_handshakestate_requirements(Flags(id, role), id.prefix, TRUE),
               !.sym = noise_symmetricstate_new(Name(id)),
               !.le = IF wasI THEN @ ELSE noise_dhstate_clear_key(@),
               !.lf = IF wasI THEN @ ELSE noise_dhstate_clear_key(@),
               !.re = IF wasI THEN noise_dhstate_clear_key(@) ELSE @,
               !.rf = IF wasI THEN noise_dhstate_clear_key(@) ELSE @,
               !.rs = IF wasI \/ ~ keep THEN noise_dhstate_clear_key(@) ELSE @]
=============================================================================
