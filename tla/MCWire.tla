------------------------------- MODULE MCWire -------------------------------
(***************************************************************************)
(* Frames of every kind, short ones and ones past the last padding block.  *)
(***************************************************************************)
EXTENDS WireLife

WireSpec == WireInit /\ [][WireNext]_wireVars

MCSigBytes == <<5, 6>>
MCSignKey == <<8, 8>>

Plain(payload) == [version |-> 1, type |-> 2, ttl |-> 3, ts |-> <<9>>, sender |-> <<7>>,
                   recipient |-> <<>>, payload |-> payload, signature |-> MCSigBytes, rsr |-> FALSE]
To(p) == [p EXCEPT !.recipient = <<8>>]
Unsigned(p) == [p EXCEPT !.signature = <<>>]
V2(route) == [version |-> 2, type |-> 2, ttl |-> 3, ts |-> <<9>>, sender |-> <<7>>, route |-> route,
              recipient |-> <<8>>, payload |-> <<1, 1, 2>>, signature |-> MCSigBytes]

Src(form, meaning, packet) == [kind |-> form, meaning |-> meaning, packet |-> packet]
None == [none |-> TRUE]

Announced == [nick |-> <<3, 4>>, noise |-> <<3, 4>>, sign |-> MCSignKey, fw |-> 258, authoritative |-> TRUE]
Legacy == [peer |-> <<7>>, noise |-> <<3, 4>>, sign |-> MCSignKey, nick |-> <<3, 4>>, ts |-> <<9>>, proof |-> <<1, 2>>]
Mail == [ok |-> TRUE, tag |-> <<2>>, expiry |-> <<9>>, ciphertext |-> <<1, 2>>, copies |-> 3,
         prekey |-> <<0, 0, 0, 4>>]
Asking == [p |-> 7, m |-> 384, filter |-> <<5, 0, 1>>, flags |-> 1539]

MCSources ==
  {Src("plain", None, Plain(p)) : p \in {<<>>, <<1>>, <<2, 2, 2>>, <<1, 2, 3, 4, 5, 6, 7, 8>>}}
  \cup {Src("plain", None, To(Plain(<<1, 2>>))), Src("plain", None, Unsigned(To(Plain(<<4>>)))),
        Src("deflated", None, Plain(<<4, 4, 4>>)), Src("v2", None, V2(<<>>)), Src("v2", None, V2(<<1, 2>>)),
        Src("announce", Announced, [Plain(build_announce_payload(Announced)) EXCEPT !.type = 1]),
        Src("identity", Legacy, Plain(build_identity_payload(Legacy))),
        Src("courier", Mail, [To(Plain(encode_envelope(Mail, Mail.copies))) EXCEPT !.type = 4]),
        Src("plain", None, [Plain(<<1>>) EXCEPT !.ts = <<0>>]),
        Src("request", Asking, To(Plain(build_request(Asking))))}
=============================================================================
