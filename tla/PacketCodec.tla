---------------------------- MODULE PacketCodec -----------------------------
(***************************************************************************)
(* The BitChat frame as bytes: the encoder and the decoder                 *)
(* (src/main/packet_codec.c), the two other readers of the same layout,    *)
(* the relay fingerprint and the LoRa trunk's padding strip                *)
(* (src/main/bitle_lora.c), and the canonical form that is signed          *)
(* (src/main/noise_handshake.c).  A frame is                               *)
(*   version type ttl timestamp flags length sender [recipient] [route]    *)
(*   payload [signature] [padding]                                         *)
(* with the widths of the code scaled down by constants.                   *)
(***************************************************************************)
EXTENDS Integers, Sequences, FiniteSets, SequencesExt

CONSTANTS TsLen, IdLen, SigLen,   \* 8, 8 and 64 bytes
          Blocks,                 \* the padding blocks, ascending
          PadMargin,              \* what choose_padding_block leaves room for
          MaxPad,                 \* the longest run of padding, 255
          MaxFrame,               \* BITCHAT_BLE_MAX_PACKET_SIZE
          ZMark                   \* the byte a deflated payload starts with

Recipient == 1
Signature == 2
Compressed == 4
Route == 8
Rsr == 16
Has(flags, bit) == (flags \div bit) % 2 = 1
Bit(cond, bit) == IF cond THEN bit ELSE 0

FlagsAt == 4 + TsLen
HeaderLen(version) == FlagsAt + (IF version = 1 THEN 2 ELSE 4) + IdLen

\* Big-endian numbers.
Number(bytes) == FoldLeft(LAMBDA v, b : 256 * v + b, 0, bytes)
Bytes(v, n) == [i \in 1..n |-> (v \div (256^(n - i))) % 256]
Take(s, from, n) == SubSeq(s, from + 1, from + n)

Rejected == [ok |-> FALSE]

\* The inflater: a deflated payload is a mark and the bytes, complete.
Inflate(in, len) ==
  IF in # <<>> /\ Head(in) = ZMark /\ Len(in) = len + 1
    THEN [ok |-> TRUE, bytes |-> Tail(in)] ELSE Rejected

---------------------------------------------------------------------------
\* Only version 1 is encoded; <<>> if the frame would be too long.
bitchat_packet_encode(p) ==
  LET total == HeaderLen(1) + Len(p.recipient) + Len(p.payload) + Len(p.signature)
  IN  IF p.version # 1 \/ total > MaxFrame THEN <<>>
      ELSE <<p.version, p.type, p.ttl>> \o p.ts
           \o <<Bit(p.recipient # <<>>, Recipient) + Bit(p.signature # <<>>, Signature)
                + Bit(p.rsr, Rsr)>>
           \o Bytes(Len(p.payload), 2) \o p.sender \o p.recipient \o p.payload \o p.signature

\* Trailing bytes are padding: each is the number of them.
PaddingOk(pad) == \A i \in 1..Len(pad) : pad[i] = Len(pad)

\* The payload, inflated in version 1; a version 2 packet is not interpreted.
PayloadOf(raw, flags, version) ==
  IF ~Has(flags, Compressed) \/ version = 2 THEN [ok |-> TRUE, bytes |-> raw]
  ELSE IF Len(raw) <= 2 \/ Number(Take(raw, 0, 2)) = 0 THEN Rejected
  ELSE Inflate(SubSeq(raw, 3, Len(raw)), Number(Take(raw, 0, 2)))

bitchat_packet_decode(data) ==
  IF data = <<>> \/ data[1] \notin {1, 2} \/ Len(data) < HeaderLen(data[1]) THEN Rejected
  ELSE
  LET v == data[1]
      flags == data[FlagsAt]
      header == HeaderLen(v)
      plen == Number(Take(data, FlagsAt, IF v = 1 THEN 2 ELSE 4))
      dest == header + (IF Has(flags, Recipient) THEN IdLen ELSE 0)
      routed == v = 2 /\ Has(flags, Route)
      route == dest + (IF routed /\ dest < Len(data) THEN 1 + data[dest + 1] * IdLen ELSE 0)
      body == route + plen
      end == body + (IF Has(flags, Signature) THEN SigLen ELSE 0)
      payload == PayloadOf(Take(data, route, plen), flags, v)
  IN  IF \/ plen >= 65536 \/ dest > Len(data) \/ (routed /\ dest = Len(data))
         \/ route > Len(data) \/ body > Len(data) \/ end > Len(data)
         \/ ~PaddingOk(SubSeq(data, end + 1, Len(data)))
        THEN Rejected
      ELSE IF ~payload.ok THEN Rejected
      ELSE [ok |-> TRUE, end |-> end, version |-> v, type |-> data[2], ttl |-> data[3],
            ts |-> Take(data, 3, TsLen), rsr |-> Has(flags, Rsr),
            sender |-> Take(data, header - IdLen, IdLen),
            recipient |-> IF Has(flags, Recipient) THEN Take(data, header, IdLen) ELSE <<>>,
            payload |-> payload.bytes,
            signature |-> IF Has(flags, Signature) THEN Take(data, body, SigLen) ELSE <<>>]

---------------------------------------------------------------------------
\* The length of the frame without padding, 0 if it does not parse.
relay_wire_len(data) ==
  IF Len(data) < HeaderLen(1) \/ data[1] \notin {1, 2} \/ Len(data) < HeaderLen(data[1]) THEN 0
  ELSE
  LET v == data[1]
      flags == data[FlagsAt]
      plen == Number(Take(data, FlagsAt, IF v = 1 THEN 2 ELSE 4))
      dest == HeaderLen(v) + (IF Has(flags, Recipient) THEN IdLen ELSE 0)
      routed == v = 2 /\ Has(flags, Route)
      route == dest + (IF routed /\ dest < Len(data) THEN 1 + data[dest + 1] * IdLen ELSE 0)
      end == route + plen + (IF Has(flags, Signature) THEN SigLen ELSE 0)
  IN  IF (routed /\ dest >= Len(data)) \/ route > Len(data) \/ end > Len(data) THEN 0 ELSE end

\* What bitchat_relay_fingerprint hashes: the TTL and the replay mark are left
\* out, and so is the padding.
Fingerprint(data) ==
  [Take(data, 0, relay_wire_len(data)) EXCEPT
     ![3] = 0, ![FlagsAt] = @ - Bit(Has(@, Rsr), Rsr)]

\* The length the trunk sends, which takes every frame for version 1.
trunk_true_len(data) ==
  LET real == HeaderLen(1) + Number(Take(data, FlagsAt, 2))
              + (IF Has(data[FlagsAt], Recipient) THEN IdLen ELSE 0)
              + (IF Has(data[FlagsAt], Signature) THEN SigLen ELSE 0)
  IN  IF Len(data) < FlagsAt + 2 \/ real > Len(data) THEN Len(data) ELSE real

---------------------------------------------------------------------------
choose_padding_block(len) ==
  LET fits == {b \in Blocks : len + PadMargin <= b}
  IN  IF fits = {} THEN 0 ELSE CHOOSE b \in fits : \A c \in fits : b <= c

apply_pkcs7_padding(bytes) ==
  LET block == choose_padding_block(Len(bytes))
      pad == block - Len(bytes)
  IN  IF block = 0 \/ pad \notin 1..MaxPad \/ block > MaxFrame THEN bytes
      ELSE bytes \o [i \in 1..pad |-> pad]

\* The mutated form leaves the recipient out.
build_canonical_packetBlind(p) ==
  apply_pkcs7_padding(
    <<p.version, p.type, 0>> \o p.ts \o <<0>>
    \o Bytes(Len(p.payload), 2) \o p.sender \o p.payload)

\* The bytes that are signed: no TTL, and of the flags only the recipient.
build_canonical_packet(p) ==
  apply_pkcs7_padding(
    <<p.version, p.type, 0>> \o p.ts \o <<Bit(p.recipient # <<>>, Recipient)>>
    \o Bytes(Len(p.payload), 2) \o p.sender \o p.recipient \o p.payload)
-----------------------------------------------------------------------------
(* The structured payloads: the announce of type-length-value items and    *)
(* the legacy identity (src/main/noise_handshake.c), the sync request      *)
(* (src/main/bitle_sync.c) and the courier's envelope                      *)
(* (src/main/bitle_courier.c), each with the code that builds it and the   *)
(* code that reads it.                                                     *)
CONSTANTS KeyLen,      \* 32
          NickMax,     \* longest nickname kept, sizeof(s_nickname) - 1
          MaxAccept,   \* GCS_MAX_ACCEPT
          TagLen,      \* TAG_LEN, 16
          MaxCopies    \* MAX_COPIES, 8

Tlv(type, value, width) == <<type>> \o Bytes(Len(value), width) \o value

\* An item in front of the items behind it.
ItemBefore(item, rest) == IF rest.ok THEN [ok |-> TRUE, items |-> <<item>> \o rest.items] ELSE Rejected

RECURSIVE TlvItems(_, _), TlvItem(_, _, _)
\* The items of a payload whose lengths have so many bytes; an item that
\* does not fit makes the whole unreadable, fewer bytes than a header are
\* ignored.
TlvItems(p, width) ==
  IF Len(p) < 1 + width THEN [ok |-> TRUE, items |-> <<>>]
  ELSE TlvItem(p, width, Number(Take(p, 1, width)))
TlvItem(p, width, n) ==
  IF 1 + width + n > Len(p) THEN Rejected
  ELSE ItemBefore([type |-> p[1], value |-> Take(p, 1 + width, n)],
               TlvItems(SubSeq(p, 2 + width + n, Len(p)), width))

\* The last value of a type that is acceptable, or the default.
LastOf(items, type, acceptable(_), default) ==
  FoldLeft(LAMBDA v, it : IF it.type = type /\ acceptable(it.value) THEN it.value ELSE v,
           default, items)

---------------------------------------------------------------------------
build_announce_payload(id) ==
  Tlv(1, id.nick, 1) \o Tlv(2, id.noise, 1) \o Tlv(3, id.sign, 1)
  \o Tlv(176, Bytes(id.fw, 4), 1) \o Tlv(177, <<1 + Bit(id.authoritative, 2)>>, 1)

\* The items of any order; unknown ones are skipped, a nickname is cut.
AnnounceOf(t) ==
  IF ~t.ok THEN Rejected
  ELSE
  LET any(v) == TRUE
      nick == LastOf(t.items, 1, any, <<>>)
      noise == LastOf(t.items, 2, any, <<>>)
      sign == LastOf(t.items, 3, any, <<>>)
      fw == LastOf(t.items, 176, LAMBDA v : Len(v) = 4, <<0, 0, 0, 0>>)
      role == LastOf(t.items, 177, LAMBDA v : Len(v) >= 1, <<0>>)
  IN  IF \/ \E i \in 1..Len(t.items) :
              \/ t.items[i].type = 1 /\ t.items[i].value = <<>>
              \/ t.items[i].type \in {2, 3} /\ Len(t.items[i].value) # KeyLen
         \/ <<>> \in {nick, noise, sign}
        THEN Rejected
        ELSE [ok |-> TRUE, noise |-> noise, sign |-> sign, fw |-> Number(fw),
              nick |-> Take(nick, 0, IF Len(nick) < NickMax THEN Len(nick) ELSE NickMax),
              infra |-> Has(role[1], 1), authoritative |-> Has(role[1], 2)]

parse_announce_tlv(p) == AnnounceOf(TlvItems(p, 1))

---------------------------------------------------------------------------
\* Flags, peer, two keys, nickname, no previous peer, time and signature.
build_identity_payload(id) ==
  <<0>> \o id.peer \o <<KeyLen>> \o id.noise \o <<KeyLen>> \o id.sign
  \o <<Len(id.nick)>> \o id.nick \o <<0>> \o id.ts \o <<SigLen>> \o id.proof

\* The offset after a field that starts with its length, or one past the end.
Skip(p, off) ==
  IF off >= Len(p) \/ off + 1 + p[off + 1] > Len(p) THEN Len(p) + 1
  ELSE off + 1 + p[off + 1]

parse_identity_payload(p) ==
  LET static == 1 + IdLen
      sign == Skip(p, static)
      nick == Skip(p, sign)
      prev == Skip(p, nick)
      time == Skip(p, prev)
      sig == time + TsLen
  IN  IF \/ static > Len(p) \/ time + TsLen > Len(p) \/ Skip(p, sig) > Len(p)
        THEN Rejected
      ELSE IF p[nick + 1] \notin 1..NickMax THEN Rejected
      ELSE [ok |-> TRUE, peer |-> Take(p, 1, IdLen), nick |-> Take(p, nick + 1, p[nick + 1]),
            ts |-> Take(p, time, TsLen)]

---------------------------------------------------------------------------
\* The flags of a request are little-endian, all other numbers big-endian;
\* a reader also takes the time from which on packets are wanted.
build_request(r) ==
  Tlv(1, <<r.p>>, 2) \o Tlv(2, Bytes(r.m, 4), 2) \o Tlv(3, r.filter, 2)
  \o Tlv(4, Reverse(Bytes(r.flags, 2)), 2)

RequestOf(t) ==
  IF ~t.ok THEN Rejected
  ELSE
  LET gp == LastOf(t.items, 1, LAMBDA v : Len(v) = 1, <<0>>)[1]
      m == Number(LastOf(t.items, 2, LAMBDA v : Len(v) = 4, <<0>>))
      flags == LastOf(t.items, 4, LAMBDA v : TRUE, <<3>>)
  IN  IF \/ \E i \in 1..Len(t.items) : t.items[i].type = 3 /\ Len(t.items[i].value) > MaxAccept
         \/ ~\E i \in 1..Len(t.items) : t.items[i].type = 3
         \/ gp \notin 1..32 \/ m = 0
        THEN Rejected
        ELSE [ok |-> TRUE, p |-> gp, m |-> m, filter |-> LastOf(t.items, 3, LAMBDA v : TRUE, <<>>),
              since |-> LastOf(t.items, 5, LAMBDA v : Len(v) = TsLen, <<>>),
              flags |-> Number(Reverse(Take(flags, 0, IF Len(flags) < 8 THEN Len(flags) ELSE 8)))]

parse_request(p) == RequestOf(TlvItems(p, 2))

---------------------------------------------------------------------------
\* The mutated form writes the prekey with several copies only.
encode_envelopeMutant(env, copies) ==
  Tlv(1, env.tag, 2) \o Tlv(2, env.expiry, 2) \o Tlv(3, env.ciphertext, 2)
  \o (IF copies > 1 THEN Tlv(4, <<copies>>, 2) \o Tlv(5, env.prekey, 2) ELSE <<>>)

\* The envelope with another number of copies; one is not written.
encode_envelope(env, copies) ==
  LET out == Tlv(1, env.tag, 2) \o Tlv(2, env.expiry, 2) \o Tlv(3, env.ciphertext, 2)
             \o (IF copies > 1 THEN Tlv(4, <<copies>>, 2) ELSE <<>>)
             \o (IF env.prekey # <<>> THEN Tlv(5, env.prekey, 2) ELSE <<>>)
  IN  IF Len(out) > MaxFrame THEN <<>> ELSE out

\* Items in any order; the copies are brought into 1..MAX_COPIES.
EnvelopeOf(t, len) ==
  IF ~t.ok THEN Rejected
  ELSE
  LET any(v) == TRUE
      fits == [i \in 1..5 |-> CASE i = 1 -> {TagLen} [] i = 2 -> {TsLen} [] i = 3 -> 1..len
                                [] i = 4 -> {1} [] i = 5 -> {4}]
      tag == LastOf(t.items, 1, any, <<>>)
      expiry == LastOf(t.items, 2, any, <<>>)
      ciphertext == LastOf(t.items, 3, any, <<>>)
      copies == LastOf(t.items, 4, any, <<1>>)
  IN  IF \/ \E i \in 1..Len(t.items) :
              t.items[i].type \in 1..5 /\ Len(t.items[i].value) \notin fits[t.items[i].type]
         \/ <<>> \in {tag, expiry, ciphertext}
        THEN Rejected
        ELSE [ok |-> TRUE, tag |-> tag, expiry |-> expiry, ciphertext |-> ciphertext,
              copies |-> IF copies[1] < 1 THEN 1 ELSE IF copies[1] > MaxCopies THEN MaxCopies ELSE copies[1],
              prekey |-> LastOf(t.items, 5, any, <<>>)]

parse_envelope(p) == EnvelopeOf(TlvItems(p, 2), Len(p))
=============================================================================
