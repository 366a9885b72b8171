------------------------------- MODULE AeadLife -------------------------------
(***************************************************************************)
(* The AEAD ciphers of the Noise library: ChaChaPoly                       *)
(* (backend/ref/cipher-chachapoly.c with crypto/chacha/chacha.c) and       *)
(* AES-GCM (backend/ref/cipher-aesgcm.c).  A message is encrypted, may be  *)
(* changed on its way, and is decrypted.                                   *)
(*                                                                         *)
(* Byte i of keystream block c under nonce n is an atom of its own; a tag  *)
(* is the keystream block that keys it and what was authenticated.         *)
(***************************************************************************)
EXTENDS StreamHash, FiniteSets

CONSTANTS StreamBlock,   \* bytes of a ChaCha20 block (64 to Poly1305's 16)
          MaxAd, MaxData, \* bytes of associated data and of plaintext
          MaxChanges

VARIABLES cipher,    \* "ChaChaPoly" or "AESGCM"
          sent,      \* [nonce, ad, plain]
          wire,      \* [nonce, ad, data, tag]: the buffers of the receiver
          came,      \* history: the message as it came
          status,    \* "sent", "ok", "mac failure"
          changes    \* made on the way
aeadVars == <<cipher, sent, wire, came, status, changes>>

Xor(a, b) == (a \ b) \cup (b \ a)
Keystream(n, ctr, i) == {10000 * (n + 1) + 100 * ctr + i}
KeystreamAtoms(n, ctr) == {10000 * (n + 1) + 100 * ctr + i : i \in 1..StreamBlock}

XorStream(n, first, size, d) ==
  [i \in 1..Len(d) |-> Xor(d[i], Keystream(n, first + ((i - 1) \div size), ((i - 1) % size) + 1))]

\* The last block authenticated holds both lengths.
LengthBlock(adLen, dataLen) == Zeros(Block - 2) \o <<LengthByte(adLen), LengthByte(dataLen)>>

---------------------------------------------------------------------------
\* ChaChaPoly.  A last, partial block uses up a block of keystream.
chacha_ivsetup(n, ctr) == [nonce |-> n, ctr |-> ctr]
chacha_encrypt_bytes(x, d) ==
  [data |-> XorStream(x.nonce, x.ctr, StreamBlock, d),
   next |-> [x EXCEPT !.ctr = @ + ((Len(d) + StreamBlock - 1) \div StreamBlock)]]

\* The first block of keystream keys the tag.
noise_chachapoly_setup(n) ==
  LET x == chacha_ivsetup(n, 0)
  IN  [key |-> x, stream |-> chacha_encrypt_bytes(x, Zeros(StreamBlock)).next,
       auth |-> poly1305_init(NewContext)]

\* Padding by the length of what was added last.
noise_chachapoly_pad_auth(h, len) ==
  IF len % Block = 0 THEN h ELSE poly1305_update(h, Zeros(Block - (len % Block)))

noise_chachapoly_auth_lengthsMutant(h, adLen, dataLen) == h
noise_chachapoly_auth_lengths(h, adLen, dataLen) == poly1305_update(h, LengthBlock(adLen, dataLen))

\* What encrypt and decrypt both feed to the authenticator.
ChaChaPolyTag(st, ad, data) ==
  LET withAd == IF ad = <<>> THEN st.auth
                ELSE noise_chachapoly_pad_auth(poly1305_update(st.auth, ad), Len(ad))
      withData == noise_chachapoly_pad_auth(poly1305_update(withAd, data), Len(data))
      done == noise_chachapoly_auth_lengths(withData, Len(ad), Len(data))
  IN  [key |-> st.key, of |-> poly1305_finish(done).h]

Sealed(n, ad, data, tag) == [nonce |-> n, ad |-> ad, data |-> data, tag |-> tag]

ChaChaPolySeal(n, ad, st, data) == Sealed(n, ad, data, ChaChaPolyTag(st, ad, data))
ChaChaPolyEncrypt(n, ad, plain, st) ==
  ChaChaPolySeal(n, ad, st, chacha_encrypt_bytes(st.stream, plain).data)
noise_chachapoly_encrypt(n, ad, plain) == ChaChaPolyEncrypt(n, ad, plain, noise_chachapoly_setup(n))

\* The tag is compared before anything is decrypted in place.
ChaChaPolyOpen(w, st) ==
  IF w.tag = ChaChaPolyTag(st, w.ad, w.data)
  THEN [ok |-> TRUE, data |-> chacha_encrypt_bytes(st.stream, w.data).data]
  ELSE [ok |-> FALSE, data |-> w.data]
noise_chachapoly_decrypt(w) == ChaChaPolyOpen(w, noise_chachapoly_setup(w.nonce))

---------------------------------------------------------------------------
\* AES-GCM.  Counter 1 masks the tag; the counter is incremented before a
\* block is drawn.
noise_aesgcm_setup_iv(n) ==
  LET x == [nonce |-> n, ctr |-> 1] IN [key |-> x, stream |-> x, auth |-> ghash_reset(NewContext)]

noise_aesgcm_encrypt_or_decrypt(x, d) == XorStream(x.nonce, x.ctr + 1, Block, d)

noise_aesgcm_finalize_hash(st, h, adLen, dataLen) ==
  [key |-> st.key, of |-> ghash_update(ghash_pad(h), LengthBlock(adLen, dataLen)).h]

AesGcmTag(st, ad, data) ==
  LET withAd == IF ad = <<>> THEN st.auth ELSE ghash_pad(ghash_update(st.auth, ad))
  IN  noise_aesgcm_finalize_hash(st, ghash_update(withAd, data), Len(ad), Len(data))

noise_aesgcm_encrypt(n, ad, plain) ==
  LET st == noise_aesgcm_setup_iv(n)
      data == noise_aesgcm_encrypt_or_decrypt(st.stream, plain)
  IN  [nonce |-> n, ad |-> ad, data |-> data, tag |-> AesGcmTag(st, ad, data)]

noise_aesgcm_decrypt(w) ==
  LET st == noise_aesgcm_setup_iv(w.nonce)
      ok == w.tag = AesGcmTag(st, w.ad, w.data)
  IN  [ok |-> ok, data |-> IF ok THEN noise_aesgcm_encrypt_or_decrypt(st.stream, w.data) ELSE w.data]

---------------------------------------------------------------------------
Encrypt(c, n, ad, plain) ==
  IF c = "ChaChaPoly" THEN noise_chachapoly_encrypt(n, ad, plain) ELSE noise_aesgcm_encrypt(n, ad, plain)
Decrypt(c, w) == IF c = "ChaChaPoly" THEN noise_chachapoly_decrypt(w) ELSE noise_aesgcm_decrypt(w)

AdBytes(n) == [i \in 1..n |-> {20 + i}]
PlainBytes(n) == [i \in 1..n |-> {40 + i}]

AeadInit ==
  /\ cipher \in {"ChaChaPoly", "AESGCM"}
  /\ \E a \in 0..MaxAd, d \in 0..MaxData :
       sent = [nonce |-> 1, ad |-> AdBytes(a), plain |-> PlainBytes(d)]
  /\ wire = Encrypt(cipher, sent.nonce, sent.ad, sent.plain)
  /\ came = <<>> /\ status = "sent" /\ changes = 0

\* What may differ at the receiver: a byte, the end, the border between
\* associated data and ciphertext, zeroes appended, the nonce, the tag.
Changed ==
  {[wire EXCEPT !.data[i] = Xor(@, {9})] : i \in 1..Len(wire.data)}
  \cup {[wire EXCEPT !.ad[i] = Xor(@, {9})] : i \in 1..Len(wire.ad)}
  \cup {[wire EXCEPT !.data = Prefix(@, n)] : n \in 0..Len(wire.data)}
  \cup {[wire EXCEPT !.ad = Prefix(@, n)] : n \in 0..Len(wire.ad)}
  \cup {[wire EXCEPT !.data = Rest(@, n), !.ad = @ \o Prefix(wire.data, n)] : n \in 0..Len(wire.data)}
  \cup {[wire EXCEPT !.ad = Prefix(@, n), !.data = Rest(wire.ad, n) \o @] : n \in 0..Len(wire.ad)}
  \cup {[wire EXCEPT !.ad = @ \o Zeros(n)] : n \in 1..Block}
  \cup {[wire EXCEPT !.data = @ \o Zeros(n)] : n \in 1..Block}
  \cup {[wire EXCEPT !.data = @ \o <<One>>], [wire EXCEPT !.nonce = 2], [wire EXCEPT !.tag.of = <<>>]}

ChangeOnTheWay ==
  /\ status = "sent"
  /\ changes < MaxChanges /\ changes' = changes + 1
  /\ wire' \in Changed
  /\ UNCHANGED <<cipher, sent, came, status>>

Decrypted(r) ==
  /\ status' = IF r.ok THEN "ok" ELSE "mac failure"
  /\ wire' = [wire EXCEPT !.data = r.data]

Receive ==
  /\ status = "sent" /\ came' = wire
  /\ Decrypted(Decrypt(cipher, wire))
  /\ UNCHANGED <<cipher, sent, changes>>

AeadNext == ChangeOnTheWay \/ Receive

---------------------------------------------------------------------------
Genuine == Encrypt(cipher, sent.nonce, sent.ad, sent.plain)

\* What is accepted is what was sent, and what was sent is accepted: no
\* other split of the bytes into associated data and ciphertext, no padding
\* and no other nonce has the same tag (cipher-chachapoly.c:107-143,
\* cipher-aesgcm.c:156-188).
AcceptedOnly(genuine) ==
  /\ status = "ok" => wire = [genuine EXCEPT !.data = sent.plain]
  /\ status = "mac failure" => wire # genuine
AcceptsWhatWasSent == AcceptedOnly(Genuine)

\* A message that fails is left as it came: no plaintext is in the buffer.
RejectsUntouched == status = "mac failure" => wire = came

\* Two bytes of a message never share keystream, and none uses the block
\* that keys the tag.
PadsApart(genuine) ==
  LET pads == [i \in 1..Len(sent.plain) |-> Xor(genuine.data[i], sent.plain[i])]
  IN  \A i \in 1..Len(sent.plain) :
        /\ pads[i] \cap KeystreamAtoms(sent.nonce, genuine.tag.key.ctr) = {}
        /\ \A j \in 1..Len(sent.plain) : i # j => pads[i] # pads[j]
KeystreamApart == PadsApart(Genuine)

\* Decryption accepts exactly what encryption made, leaves anything else
\* alone, and no two bytes share keystream.
AeadSound == AcceptsWhatWasSent /\ RejectsUntouched /\ KeystreamApart
=============================================================================
