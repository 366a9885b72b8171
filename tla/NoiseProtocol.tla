---------------------------- MODULE NoiseProtocol ----------------------------
(* Two parties that run handshakes of the Noise library with each other    *)
(* and then exchange transport messages.  The channel keeps everything     *)
(* that was ever sent and delivers any of it at any time: messages are     *)
(* lost, repeated, reordered, and arrive in a later handshake than the one *)
(* they belong to.                                                         *)
EXTENDS NoiseHandshake, FiniteSets

CONSTANTS
  MaxMade,    (* handshakes that the two parties begin, together                 *)
  MaxRead,    (* messages that are read out of turn                              *)
  MaxData     (* transport messages that a party sends                           *)

Parties == {"a", "b"}               (* a initiates *)
Peer(p) == IF p = "a" THEN "b" ELSE "a"

\* The patterns a handshake can fall back to.
Targets == {p.id : p \in {q \in Patterns : "ereq" \in q.remote}}
\* Every pattern a handshake begins with, with and without a pre-shared key.
Ids == [prefix : {"Noise", "NoisePSK"}, pattern : {p.id : p \in Patterns} \ Targets, hybrid : BOOLEAN]

VARIABLES
  conf,      (* id: the protocol; target: the pattern to fall back to, if any;
                stale: a knows an earlier static key of b                        *)
  hs,        (* the HandshakeState of each party; <<>> before there is one       *)
  cs,        (* the transport ciphers of each party, send and recv               *)
  sent,      (* the handshake messages that each party sent, in order            *)
  rd,        (* how many of the peer's messages it had sent when p last read one *)
  data,      (* the transport messages that each party sent                      *)
  got,       (* the transport messages that each party accepted, in order        *)
  made,      (* handshakes begun by each party                                   *)
  done,      (* the handshakes whose last message was written                    *)
  odd        (* messages read out of turn                                        *)

vars == <<conf, hs, cs, sent, rd, data, got, made, done, odd>>

NoCiphers == [send |-> noise_cipherstate_init_key(<<>>),
              recv |-> noise_cipherstate_init_key(<<>>)]



Init ==
  /\ conf \in {c \in [id : {i \in Ids : Applicable(i)}, target : Targets, stale : BOOLEAN] :
                 /\ Applicable([c.id EXCEPT !.pattern = c.target])
                 /\ c.stale => "req" \in noise_pattern_lookup(c.id.pattern).remote}
  /\ hs = [p \in Parties |-> <<>>]
  /\ cs = [p \in Parties |-> NoCiphers]
  /\ sent = [p \in Parties |-> <<>>]
  /\ rd = [p \in Parties |-> 0]
  /\ data = [p \in Parties |-> <<>>]
  /\ got = [p \in Parties |-> <<>>]
  /\ made = [p \in Parties |-> 0]
  /\ done = {}
  /\ odd = 0

Static(p) == <<p, "s", 0>>
Known(p)  == IF p = "b" \/ ~ conf.stale THEN Static(Peer(p)) ELSE <<"b", "s", 1>>

\* The application gives the handshake the keys that it needs and starts it; a
\* key for which the pattern made no object has nowhere to go.
Configure(p, s) ==
  LET keyed == [s EXCEPT
        !.ls = IF noise_handshakestate_needs_local_keypair(s) /\ @.type # "absent"
               THEN noise_dhstate_set_keypair(Static(p)) ELSE @,
        !.rs = IF noise_handshakestate_needs_remote_public_key(s) /\ @.type # "absent"
               THEN noise_dhstate_set_public_key(Known(p)) ELSE @,
        !.psk = @ \/ noise_handshakestate_needs_pre_shared_key(s)]
  IN IF CanStart(keyed) THEN noise_handshakestate_start(keyed) ELSE keyed

\* With a pattern of one message the application has no transport messages from
\* the responder.
OneMessage(pattern) == Len(noise_pattern_lookup(pattern).tokens) = 1

\* The application falls back from a pattern with an answer, in which the initiator
\* has a static key: without one there is no object to read it into later.
FallsBack == /\ ~ OneMessage(conf.id.pattern)
             /\ "s" \in noise_pattern_lookup(conf.id.pattern).local

Action(p) == IF hs[p] = <<>> THEN "absent" ELSE hs[p].action

\* A new handshake, in place of the one there is.
Begin(p) ==
  /\ made["a"] + made["b"] < MaxMade
  /\ hs' = [hs EXCEPT ![p] = Configure(p, noise_handshakestate_new(conf.id,
                       IF p = "a" THEN "initiator" ELSE "responder", p, 2 * made[p]))]
  /\ cs' = [cs EXCEPT ![p] = NoCiphers]
  /\ made' = [made EXCEPT ![p] = @ + 1]
  /\ UNCHANGED <<conf, sent, rd, data, got, done, odd>>

noise_handshakestate_write_message(p) ==
  /\ Action(p) = "write"
  /\ LET t == noise_handshakestate_write(hs[p])
     IN /\ hs' = [hs EXCEPT ![p] = t.s]
        /\ sent' = IF t.err = "none" THEN [sent EXCEPT ![p] = Append(@, t.msg)] ELSE sent
        /\ done' = IF t.s.action = "split"
                   THEN done \cup {[p |-> p, h |-> t.s.sym.h, ck |-> t.s.sym.ck]} ELSE done
  /\ UNCHANGED <<conf, cs, rd, data, got, made, odd>>

\* Message i of the peer is the one p waits for.
InTurn(p, i) ==
  LET q == Peer(p)
  IN i = Len(sent[q]) /\ i > rd[p] /\ hs[q] # <<>> /\ hs[q].id.pattern = hs[p].id.pattern

\* Any message of the peer may be the next to arrive.
noise_handshakestate_read_message(p, i) ==
  /\ Action(p) = "read"
  /\ InTurn(p, i) \/ odd < MaxRead
  /\ hs' = [hs EXCEPT ![p] = noise_handshakestate_read(@, sent[Peer(p)][i]).s]
  /\ rd' = [rd EXCEPT ![p] = Len(sent[Peer(p)])]
  /\ odd' = IF InTurn(p, i) THEN odd ELSE odd + 1
  /\ UNCHANGED <<conf, cs, sent, data, got, made, done>>

Split(p) ==
  /\ Action(p) = "split"
  /\ LET w == noise_handshakestate_split(hs[p])
     IN /\ hs' = [hs EXCEPT ![p] = w.s]
        /\ cs' = [cs EXCEPT ![p] = [send |-> w.send, recv |-> w.recv]]
  /\ UNCHANGED <<conf, sent, rd, data, got, made, done, odd>>

\* The responder falls back when the first message fails, the initiator when it
\* learns that the responder has.
MayFallback(p) ==
  /\ hs[p] # <<>> /\ FallsBack /\ CanFallback(hs[p], conf.target)
  /\ IF p = "b" THEN hs[p].action = "failed"
     ELSE hs["b"] # <<>> /\ hs["b"].id.pattern = conf.target

Fallback(p) ==
  /\ MayFallback(p)
  /\ hs' = [hs EXCEPT ![p] = Configure(p, noise_handshakestate_fallback_to(@, conf.target))]
  /\ UNCHANGED <<conf, cs, sent, rd, data, got, made, done, odd>>

Send(p) ==
  /\ Action(p) = "complete" /\ Len(data[p]) < MaxData
  /\ p = "b" => ~ OneMessage(conf.id.pattern)
  /\ CanEncrypt(cs[p].send)
  /\ data' = [data EXCEPT ![p] = Append(@, noise_cipherstate_encrypt_with_ad(
                 cs[p].send, <<>>, <<"data", p, Len(@)>>, 1))]
  /\ cs' = [cs EXCEPT ![p].send = AfterCipher(@)]
  /\ UNCHANGED <<conf, hs, sent, rd, got, made, done, odd>>

\* A transport message comes with its nonce.  The nonce of the cipher moves to it,
\* never backwards, before the MAC is checked.
Receive(p, f) ==
  /\ Action(p) = "complete"
  /\ noise_cipherstate_set_nonce(cs[p].recv, f.n)
  /\ LET c  == [cs[p].recv EXCEPT !.n = f.n]
         ok == noise_cipherstate_decrypt_with_ad(c, <<>>, f)
     IN /\ cs' = [cs EXCEPT ![p].recv = IF ok THEN AfterCipher(c) ELSE c]
        /\ got' = IF ok THEN [got EXCEPT ![p] = Append(@, f.pt)] ELSE got
  /\ UNCHANGED <<conf, hs, sent, rd, data, made, done, odd>>

Next ==
  \E p \in Parties :
    \/ Begin(p) \/ noise_handshakestate_write_message(p) \/ Split(p) \/ Fallback(p) \/ Send(p)
    \/ \E i \in DOMAIN sent[Peer(p)] : noise_handshakestate_read_message(p, i)
    \/ \E i \in DOMAIN data[Peer(p)] : Receive(p, data[Peer(p)][i])

Spec == Init /\ [][Next]_vars
-----------------------------------------------------------------------------
Fields == UNION {ToSet(m) : m \in UNION {ToSet(sent[p]) : p \in Parties}}
          \cup UNION {ToSet(data[p]) : p \in Parties}

Actions == {"absent", "none", "write", "read", "failed", "split", "complete"}

\* The types of the variables.
TypeOK ==
  /\ \A p \in Parties : /\ Action(p) \in Actions
                        /\ rd[p] \in 0 .. Len(sent[Peer(p)]) /\ made[p] \in 0 .. MaxMade
                        /\ cs[p].send.n <= MaxNonce /\ cs[p].recv.n <= MaxNonce
  /\ odd \in 0 .. MaxRead

\* The pattern tables give every handshake, also one that fell back, the key
\* objects its tokens use: it only ever fails because a message was not the one
\* expected, never on a key that is missing, and it never mixes in a null secret.
KeysAreThere ==
  \A p \in Parties : hs[p] # <<>> =>
    /\ hs[p].err \in {"none", "mac failure", "invalid length", "invalid nonce"}
    /\ \A i \in DOMAIN hs[p].sym.ck : hs[p].sym.ck[i] # Item("dh", {})

\* The party that reads the last message of its pattern.
ReadsLast(s) == (Len(noise_pattern_lookup(s.id.pattern).tokens) % 2 = 1) = (s.role = "responder")

\* A party that completes by reading the last message has the transcript and the
\* keys of a handshake that its peer completed, whatever was delivered to it.
Agreed ==
  \A p \in Parties : Action(p) \in {"split", "complete"} /\ ReadsLast(hs[p]) =>
    [p |-> Peer(p), h |-> hs[p].sym.h, ck |-> hs[p].sym.ck] \in done

\* No key encrypts two different things under one nonce, in the handshakes and in
\* the transport messages of all of them together.  Hybrid public keys are left
\* out: a pattern seals them before the new ephemeral keys have been mixed in.
NonceOnce ==
  \A f, g \in {x \in Fields : x.pt[2] # "f"} : f.k = g.k /\ f.n = g.n /\ f.k # <<>> => f = g

\* Outside the patterns of one message a transport message is accepted at most once, also
\* when it is delivered again in a later handshake, and always in the order sent.
DataOnce ==
  ~ OneMessage(conf.id.pattern) =>
    \A p \in Parties : \A i, j \in DOMAIN got[p] : i < j => got[p][i][3] < got[p][j][3]

\* What p has to do next when nothing is lost or repeated.
HasWork(p) ==
  \/ Action(p) \in {"absent", "write", "split"}
  \/ Action(p) = "read" /\ InTurn(p, Len(sent[Peer(p)]))
  \/ MayFallback(p)

\* With no message lost, repeated or out of turn the two parties never stop before
\* both have completed the handshake: directly or, when the initiator has an old
\* static key of the responder, by falling back.  With a pre-shared key the hybrid
\* key is sealed under the old static key, so there is no falling back from it.
HandshakeCompletes ==
  /\ conf.stale => FallsBack /\ ~ (conf.id.hybrid /\ conf.id.prefix = "NoisePSK")
  /\ odd = 0
  /\ \A p \in Parties : made[p] = 1 /\ ~ HasWork(p)
  => \A p \in Parties : Action(p) = "complete"

\* The reader of a last message and its peer agree on the handshake, and no
\* token was ever processed without the keys it needs.
HandshakeSound == TypeOK /\ KeysAreThere /\ Agreed

\* No nonce is used for two messages and no transport message is taken twice.
NothingTwice == NonceOnce /\ DataOnce
=============================================================================
