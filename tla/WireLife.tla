------------------------------ MODULE WireLife ------------------------------
(***************************************************************************)
(* The life of a frame: it is built by a Bitle or a phone, relayed with a  *)
(* smaller TTL (src/main/bitle_mesh.c), replayed with the replay mark      *)
(* (src/main/bitle_sync.c), padded by phones, stripped by the LoRa trunk   *)
(* (src/main/bitle_lora.c), in any order; or a byte of it is damaged or    *)
(* its end is cut off.                                                     *)
(***************************************************************************)
EXTENDS PacketCodec

CONSTANTS Sources,     \* what is sent: a kind, a meaning and the packet
          Damage,      \* the values a damaged byte may take
          SignKey,     \* the sender's Ed25519 public key
          SigBytes     \* its signature of the one packet that is sent

VARIABLES source,      \* what was sent
          frame,       \* the bytes as they are now
          honest,      \* nothing was damaged
          trunked      \* the frame went over the LoRa trunk

wireVars == <<source, frame, honest, trunked>>

\* Ed25519 (external): there is one signature, and it opens over the bytes
\* and under the key it was made with.
ed25519_sign(bytes) == SigBytes
ed25519_sign_open(bytes, key, sig) ==
  /\ sig = source.packet.signature /\ key = SignKey
  /\ bytes = build_canonical_packet(source.packet)

\* bitle_sha256 (external), as far as a peer ID shows it.
PeerIdOf(key) == <<(key[1] + key[2]) % 256>>

sign_packet(p) == [p EXCEPT !.signature = ed25519_sign(build_canonical_packet(p))]

\* Nothing is sent without a clock, nor what does not fit.
noise_send_packet(p, sign) ==
  IF Number(p.ts) = 0 THEN <<>>
  ELSE bitchat_packet_encode(IF sign THEN sign_packet(p) ELSE p)

\* The packet as the worker puts it together again from an event.
event_to_packet(p) ==
  [version |-> 1, type |-> p.type, ttl |-> p.ttl, ts |-> p.ts, sender |-> p.sender,
   recipient |-> p.recipient, payload |-> p.payload, signature |-> p.signature]

noise_verify_packet_signature(p, key) ==
  p.signature # <<>> /\ ed25519_sign_open(build_canonical_packet(p), key, p.signature)

\* Whether an announce is taken at all, and whether as a verified one.
verify_announce_event(p, record) ==
  LET packet == [event_to_packet(p) EXCEPT !.type = 1, !.recipient = <<>>]
      derived == PeerIdOf(record.noise) = p.sender
  IN  [taken |-> derived,
       sigOk |-> derived /\ noise_verify_packet_signature(packet, record.sign)]

\* Version 2 is written by phones only.
PhoneEncode(p) ==
  <<2, p.type, p.ttl>> \o p.ts
  \o <<Bit(p.recipient # <<>>, Recipient) + Bit(p.signature # <<>>, Signature)
       + Bit(p.route # <<>>, Route)>>
  \o Bytes(Len(p.payload), 4) \o p.sender \o p.recipient
  \o (IF p.route # <<>> THEN <<Len(p.route) \div IdLen>> \o p.route ELSE <<>>)
  \o p.payload \o p.signature

\* A phone deflates a payload: its length, and the deflated bytes.
PhoneDeflate(p) ==
  LET f == bitchat_packet_encode([p EXCEPT !.payload =
             Bytes(Len(p.payload), 2) \o <<ZMark>> \o p.payload])
  IN  [f EXCEPT ![FlagsAt] = @ + Compressed]

First(s) ==
  IF s.packet.version = 2 THEN PhoneEncode(s.packet)
  ELSE IF s.kind = "deflated" THEN PhoneDeflate(s.packet)
  ELSE noise_send_packet([s.packet EXCEPT !.signature = <<>>], s.packet.signature # <<>>)

WireInit ==
  /\ source \in Sources
  /\ frame = First(source) /\ frame # <<>>
  /\ honest = TRUE
  /\ trunked = FALSE

\* A relay sends the bytes on with a smaller TTL.
relay_packet ==
  /\ bitchat_packet_decode(frame).ok /\ frame[3] > 1
  /\ frame' = [frame EXCEPT ![3] = @ - 1]
  /\ UNCHANGED <<source, honest, trunked>>

\* A stored frame is replayed with TTL 0 and the replay mark.
ReplayFrame ==
  LET p == bitchat_packet_decode(frame)
  IN  /\ p.ok /\ p.version = 1 /\ p.signature # <<>>
      /\ frame' = [frame EXCEPT ![3] = 0, ![FlagsAt] = @ + Bit(~Has(@, Rsr), Rsr)]
      /\ UNCHANGED <<source, honest, trunked>>

\* A phone pads what it sends.
PhonePads ==
  /\ relay_wire_len(frame) = Len(frame)
  /\ frame' = apply_pkcs7_padding(frame)
  /\ UNCHANGED <<source, honest, trunked>>

\* The LoRa trunk sends what it takes for the frame without padding.
CrossTrunk ==
  /\ frame' = Take(frame, 0, trunk_true_len(frame))
  /\ trunked' = TRUE
  /\ UNCHANGED <<source, honest>>

DamageByte(i, b) ==
  /\ honest
  /\ frame' = [frame EXCEPT ![i] = b]
  /\ honest' = FALSE
  /\ UNCHANGED <<source, trunked>>

CutEnd(n) ==
  /\ honest
  /\ frame' = Take(frame, 0, n)
  /\ honest' = FALSE
  /\ UNCHANGED <<source, trunked>>

WireNext ==
  \/ relay_packet \/ ReplayFrame \/ PhonePads \/ CrossTrunk
  \/ \E i \in 1..Len(frame), b \in Damage : DamageByte(i, b)
  \/ \E n \in 1..Len(frame) : CutEnd(n)

---------------------------------------------------------------------------
Unharmed == honest /\ ~(source.packet.version = 2 /\ trunked)

\* The fields a reader cares about.
Fields(p) == <<p.type, p.ts, p.sender, p.recipient, p.payload>>

\* Whatever hops a frame made, its decoder finds the packet that was sent,
\* its signature and a TTL no larger than it had (packet_codec.c:196-326).
ArrivesAsSent(p) ==
  Unharmed => /\ p.ok
              /\ Fields(p) = Fields(source.packet) /\ p.signature = source.packet.signature
              /\ p.ttl <= source.packet.ttl

\* All copies of a frame have one fingerprint, so that a relay knows them
\* again (packet_codec.c:173-194), with other TTL, replay mark or padding.
OneFingerprint ==
  Unharmed => Fingerprint(frame) = Fingerprint(First(source))

\* Who reads a frame finds it signed: the announce handler by the key in
\* the announce, the others by the key they know the sender by.
VerifiedAnnounce(p, r) == IF r.ok THEN verify_announce_event(p, r).sigOk ELSE FALSE
Verified(p) ==
  IF p.type = 1 THEN VerifiedAnnounce(p, parse_announce_tlv(p.payload))
  ELSE noise_verify_packet_signature(event_to_packet(p), SignKey)

\* The signature made by the sender verifies after relays, replays and
\* padding (noise_handshake.c:664-724, 1036-1063, 1808-1821), and a frame
\* that verifies says what was sent: no damage to what a reader acts on
\* stays unsigned.
SignatureBinds(p, verified) ==
  /\ Unharmed /\ source.packet.signature # <<>> => verified
  /\ verified => Fields(p) = Fields(source.packet)

\* The three readers of the layout agree on where a frame that decodes ends,
\* damaged or not (packet_codec.c:126-171, bitle_lora.c:312-327).
ParsersAgree(p) ==
  p.ok => /\ relay_wire_len(frame) = p.end
          /\ p.version = 1 => trunk_true_len(frame) = p.end

\* What is read from a payload is what was built into it
\* (noise_handshake.c:532-662, 890-1031, bitle_sync.c:468-536).
SameOn(fields, r, said) == r.ok /\ \A f \in fields : r[f] = said[f]
Reads(payload) ==
  CASE source.kind = "announce" ->
         SameOn({"nick", "noise", "sign", "fw", "authoritative", "infra"},
                parse_announce_tlv(payload), source.meaning @@ [infra |-> TRUE])
    [] source.kind = "identity" ->
         SameOn({"peer", "nick", "ts"}, parse_identity_payload(payload), source.meaning)
    [] source.kind = "request" ->
         SameOn({"p", "m", "filter", "flags"}, parse_request(payload), source.meaning)
    [] source.kind = "courier" -> parse_envelope(payload) = source.meaning
    [] OTHER -> TRUE
PayloadReads == Unharmed => Reads(bitchat_packet_decode(frame).payload)

\* A courier that takes an envelope, damaged or not, hands it on with other
\* copies and all else as it was (bitle_courier.c:46-140, 264, 328).
HandedOn(r) ==
  r.ok => \A copies \in 1..MaxCopies :
            parse_envelope(encode_envelope(r, copies)) = [r EXCEPT !.copies = copies]
CarriedOn(p) == p.ok => HandedOn(parse_envelope(p.payload))
EnvelopeKept == CarriedOn(bitchat_packet_decode(frame))

\* "v2: validated and relayed, never interpreted" (noise_handshake.h:63) and
\* "trimming to true length never touches signed/encrypted bytes"
\* (bitle_lora.c:309): a version 2 frame, too, arrives as it was sent.
TrunkKeepsFrames ==
  honest => bitchat_packet_decode(frame).ok

FrameKeptAs(p) ==
  /\ ArrivesAsSent(p) /\ ParsersAgree(p)
  /\ p.ok => (p.version = 1 => SignatureBinds(p, Verified(p)))

\* On any way through the mesh a frame decodes to what was sent, has one
\* fingerprint, ends where every reader says, and verifies if and only if
\* nothing that is signed was changed.
FrameKept == OneFingerprint /\ FrameKeptAs(bitchat_packet_decode(frame))

\* Payloads are read as they were built, and envelopes handed on as they came.
PayloadsKept == PayloadReads /\ EnvelopeKept
=============================================================================
