------------------------------- MODULE MCParts -------------------------------
(***************************************************************************)
(* The parts of the firmware that do not act on each other, in one state   *)
(* graph: each initial state picks a part and the others stand still, so   *)
(* the graph is the union of the graphs of the parts.                      *)
(***************************************************************************)
EXTENDS BitleFragments, MCWire, BitleBoot, KeyObjects, RandState, AeadLife, MacArith,
        NoiseNames, LinkTable

VARIABLE part

fragVars == vars
partVars == <<part, fragVars, wireVars, bootVars, keyVars, randVars, hashVars, aeadVars, macVars, nameVars, linkVars>>

---------------------------------------------------------------------------
CONSTANTS fa, fa2, fb, fb2, fc, fd     (* streams *)

\* fa2 and fb2 are the packets of fa and fb as other relayers cut them, who
\* kept the fragment ID they found; fb2 even has as many parts as fb.
KeyOf   == [s \in Streams |-> IF s = fa2 THEN fa ELSE IF s = fb2 THEN fb ELSE s]
InnerOf == KeyOf
\* fd has more parts than there is room for.
TotalOf == [s \in Streams |-> IF s = fa THEN 1 ELSE IF s = fd THEN 3 ELSE 2]
\* One packet cut twice next to another; more streams than slots; two streams
\* that mix.
SceneOf(S, n) == [way |-> UNION {Whole(s) : s \in S} \ {<<0, fd>>, <<1, fd>>}, extra |-> n]
MCFragScenes == {SceneOf({fa, fa2, fb}, 1), SceneOf({fa, fb, fc}, 1), SceneOf({fb, fb2, fd}, 1)}

\* The nicknames NVS may hold at first boot.
MCNicks == {NoNick} \cup {[form |-> f, n |-> 1] : f \in {"anon", "custom", "unprintable"}}

\* Keys and blocks of extreme limbs; with r = 1 two largest blocks sum to
\* just above the modulus.
MCMacKeys == {<<1, 0, 0, 0, 0>>, <<63, 63, 63, 63, 15>>, <<63, 63, 63, 63, 63>>, <<5, 0, 33, 0, 9>>}
MCMacBlocks == {<<0, 0, 0, 0, 0>>, <<63, 63, 63, 63, 15>>, <<60, 63, 63, 63, 15>>, <<1, 2, 62, 0, 7>>}
MCGhashKeys == {{0}, {4}, {1, 2, 4}}
MCGhashBlocks == {{}, {0}, {4}, {0, 1, 2, 3, 4}, {1, 3}}

\* Patterns and key exchanges with and without a plus, and identifiers of
\* another category or none.
MCNameIds ==
  [prefix : {<<"Noise">>, <<"NoisePSK">>}, dh : {<<"25519">>, <<"448">>},
   pattern : {<<"N">>, <<"XX">>, <<"XX", "fallback", "+", "hfs">>, <<"IK", "noidh">>, <<>>},
   hybrid : {<<>>, <<"NewHope">>, <<"SHA256">>},
   cipher : {<<"ChaChaPoly">>}, hash : {<<"BLAKE2s">>, <<"SHA512">>}, reserved : {0}]
  \cup {[prefix |-> <<"Noise">>, pattern |-> <<"XX">>, dh |-> <<"25519">>, hybrid |-> <<>>,
         cipher |-> <<"AESGCM">>, hash |-> <<"SHA256">>, reserved |-> 1]}
MCBufferLens == 0..57

---------------------------------------------------------------------------
Parts == {"fragments", "wire", "boot", "keys", "rand", "hash", "aead", "mac", "names", "links"}

\* Which of its initial states a part that stands still is in.
PartsInit ==
  /\ part \in Parts
  /\ Init /\ (part = "fragments" \/ fc \in {p[2] : p \in way})
  /\ WireInit /\ (part = "wire" \/ source = Src("plain", None, Plain(<<1>>)))
  /\ IF part = "boot" THEN BootInit
     ELSE /\ stage = "running" /\ ram = NoRam /\ dirty = NoWrites /\ flash = Empty /\ pages = "ok"
          /\ made = 0 /\ ranAs = {} /\ cuts = 0 /\ faults = MaxFaults
  /\ KeyInit /\ (part = "keys" \/ \A o \in Slots : kind[o] = "dh")
  /\ RandInit
  /\ HashInit /\ (part = "hash" \/ alg = "SHA256")
  /\ AeadInit /\ (part = "aead" \/ (cipher = "AESGCM" /\ sent.ad = <<>> /\ sent.plain = <<>>))
  /\ MacInit /\ (part = "mac" \/ (Num(r) = 1 /\ pad = 0 /\ ghKey = {0}))
  /\ NameInit /\ (part = "names" \/ (nameId.prefix = <<"Noise">> /\ nameId.reserved = 1))
  /\ LinkInit

PartsNext ==
  \/ /\ part = "fragments" /\ Next
     /\ UNCHANGED <<part, wireVars, bootVars, keyVars, randVars, hashVars, aeadVars, macVars, nameVars, linkVars>>
  \/ /\ part = "wire" /\ WireNext
     /\ UNCHANGED <<part, fragVars, bootVars, keyVars, randVars, hashVars, aeadVars, macVars, nameVars, linkVars>>
  \/ /\ part = "boot" /\ BootNext
     /\ UNCHANGED <<part, fragVars, wireVars, keyVars, randVars, hashVars, aeadVars, macVars, nameVars, linkVars>>
  \/ /\ part = "keys" /\ KeyNext
     /\ UNCHANGED <<part, fragVars, wireVars, bootVars, randVars, hashVars, aeadVars, macVars, nameVars, linkVars>>
  \/ /\ part = "rand" /\ RandNext
     /\ UNCHANGED <<part, fragVars, wireVars, bootVars, keyVars, hashVars, aeadVars, macVars, nameVars, linkVars>>
  \/ /\ part = "hash" /\ HashNext
     /\ UNCHANGED <<part, fragVars, wireVars, bootVars, keyVars, randVars, aeadVars, macVars, nameVars, linkVars>>
  \/ /\ part = "aead" /\ AeadNext
     /\ UNCHANGED <<part, fragVars, wireVars, bootVars, keyVars, randVars, hashVars, macVars, nameVars, linkVars>>
  \/ /\ part = "mac" /\ MacNext
     /\ UNCHANGED <<part, fragVars, wireVars, bootVars, keyVars, randVars, hashVars, aeadVars, nameVars, linkVars>>
  \/ /\ part = "names" /\ NameNext
     /\ UNCHANGED <<part, fragVars, wireVars, bootVars, keyVars, randVars, hashVars, aeadVars, macVars, linkVars>>
  \/ /\ part = "links" /\ LinkNext
     /\ UNCHANGED <<part, fragVars, wireVars, bootVars, keyVars, randVars, hashVars, aeadVars, macVars, nameVars>>

\* app_main runs on as long as the chip has power.
PartsSpec ==
  /\ PartsInit /\ [][PartsNext]_partVars
  /\ WF_partVars(part = "boot" /\ BootStep
                   /\ UNCHANGED <<part, fragVars, wireVars, keyVars, randVars, hashVars, aeadVars, macVars, nameVars, linkVars>>)
=============================================================================
