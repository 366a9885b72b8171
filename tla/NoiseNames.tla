------------------------------ MODULE NoiseNames ------------------------------
(***************************************************************************)
(* Protocol names of the Noise library                                     *)
(* (src/components/noise_ref/src/protocol/names.c), such as                *)
(* Noise_XXfallback+hfs_25519+NewHope_ChaChaPoly_BLAKE2s: formatted into a *)
(* buffer of given length, and parsed.                                     *)
(*                                                                         *)
(* A name is a sequence of words and separators, and an algorithm's        *)
(* identifier is its name; <<>> is the identifier 0.                       *)
(***************************************************************************)
EXTENDS Integers, Sequences

CONSTANTS NameIds,       \* the protocols that are named
          BufferLens,    \* lengths of the buffer
          Garbage        \* words that may take the place of another

VARIABLES nameId, nameLen, nameText,
          written,       \* bytes of the buffer that were written to
          nameState      \* "new", "spelled", "refused", "garbled"
nameVars == <<nameId, nameLen, nameText, written, nameState>>

OneWay == {"N", "X", "K"}
TwoWay == {"NN", "NK", "NX", "XN", "XK", "XX", "KN", "KK", "KX", "IN", "IK", "IX"}
NoIdh == {"NX", "XX", "KX", "IK", "IX"}

\* The names of each category.
algorithm_names ==
  [prefix |-> {<<"Noise">>, <<"NoisePSK">>},
   pattern |-> {<<p>> : p \in OneWay \cup TwoWay} \cup {<<"XX", "fallback">>}
               \cup {<<p, "noidh">> : p \in NoIdh \cup {"X"}} \cup {<<p, "hfs">> : p \in TwoWay}
               \cup {<<"XX", "fallback", "+", "hfs">>} \cup {<<p, "noidh", "+", "hfs">> : p \in NoIdh},
   dh |-> {<<"25519">>, <<"448">>, <<"NewHope">>},
   cipher |-> {<<"ChaChaPoly">>, <<"AESGCM">>},
   hash |-> {<<"BLAKE2s">>, <<"BLAKE2b">>, <<"SHA256">>, <<"SHA512">>},
   sign |-> {<<"Ed25519">>}]

\* The length of a word.
Letters(w) ==
  CASE w \in {"_", "+", "N", "X", "K"} -> 1
    [] w \in TwoWay -> 2
    [] w \in {"hfs", "448"} -> 3
    [] w \in {"Noise", "25519", "noidh"} -> 5
    [] w \in {"AESGCM", "SHA256", "SHA512"} -> 6
    [] w \in {"BLAKE2s", "BLAKE2b", "NewHope", "Ed25519"} -> 7
    [] w \in {"NoisePSK", "fallback"} -> 8
    [] w = "ChaChaPoly" -> 10
Chars[n \in Seq(STRING)] == IF n = <<>> THEN 0 ELSE Letters(Head(n)) + Chars[Tail(n)]

noise_name_to_id(category, name) == IF name \in algorithm_names[category] THEN name ELSE <<>>
noise_id_to_name(category, id) == IF id \in algorithm_names[category] THEN id ELSE <<>>

---------------------------------------------------------------------------
\* Formatting: b is the buffer, its length, the bytes written and the error.
\* A field is followed by an underscore, or by the terminator.
noise_protocol_format_field(b, category, id, last) ==
  LET alg == noise_id_to_name(category, id)
      more == b.out \o alg \o (IF last THEN <<>> ELSE <<"_">>)
  IN  IF b.err \/ alg = <<>> \/ Chars[alg] >= b.len - Chars[b.out] THEN [b EXCEPT !.err = TRUE]
      ELSE [b EXCEPT !.out = more, !.written = Chars[more] + (IF last THEN 1 ELSE 0)]

AddPlus(b) ==
  IF b.err \/ Chars[b.out] + 1 >= b.len THEN [b EXCEPT !.err = TRUE]
  ELSE [b EXCEPT !.out = Append(@, "+"), !.written = Chars[b.out] + 1]

noise_protocol_id_to_name(len, id) ==
  LET prefix == noise_protocol_format_field(
                  [out |-> <<>>, len |-> len, written |-> 0, err |-> len = 0], "prefix", id.prefix, FALSE)
      pattern == noise_protocol_format_field(prefix, "pattern", id.pattern, FALSE)
      dh == IF id.hybrid = <<>> THEN noise_protocol_format_field(pattern, "dh", id.dh, FALSE)
            ELSE noise_protocol_format_field(
                   AddPlus(noise_protocol_format_field(pattern, "dh", id.dh, TRUE)),
                   "dh", id.hybrid, FALSE)
      cipher == noise_protocol_format_field(dh, "cipher", id.cipher, FALSE)
      hash == noise_protocol_format_field(cipher, "hash", id.hash, TRUE)
  IN  IF hash.err \/ id.reserved # 0 THEN [hash EXCEPT !.err = TRUE, !.out = <<>>] ELSE hash

---------------------------------------------------------------------------
\* Parsing: s is what is left, and whether all is well so far.
Before(text, stops) ==
  LET at == {i \in 1..Len(text) : text[i] \in stops}
      n == IF at = {} THEN Len(text) ELSE (CHOOSE i \in at : \A j \in at : i <= j) - 1
  IN  SubSeq(text, 1, n)
After(text, field) == SubSeq(text, Len(field) + 2, Len(text))

noise_protocol_parse_fieldMutant(s, category, last) ==
  LET field == Before(s.rest, {"_", "+"})
      id == noise_name_to_id(category, field)
  IN  [rest |-> After(s.rest, field), id |-> id,
       ok |-> s.ok /\ id # <<>> /\ (last <=> Len(field) = Len(s.rest))]

noise_protocol_parse_field(s, category, last) ==
  LET field == Before(s.rest, {"_"})
      id == noise_name_to_id(category, field)
  IN  [rest |-> After(s.rest, field), id |-> id,
       ok |-> s.ok /\ id # <<>> /\ (last <=> Len(field) = Len(s.rest))]

noise_protocol_parse_dual_field(s) ==
  LET field == Before(s.rest, {"_", "+"})
      id == noise_name_to_id("dh", field)
      ended == Len(field) = Len(s.rest)
      next == [rest |-> After(s.rest, field), id |-> <<>>, ok |-> s.ok /\ ~ended /\ id # <<>>]
      second == noise_protocol_parse_field(next, "dh", FALSE)
      dual == IF ended THEN FALSE ELSE s.rest[Len(field) + 1] = "+"
  IN  IF dual THEN [rest |-> second.rest, id |-> id, hybrid |-> second.id, ok |-> second.ok]
      ELSE [rest |-> next.rest, id |-> id, hybrid |-> <<>>, ok |-> next.ok]

\* Each field is read from what the one before it left.
NameRead(prefix, pattern, dh, cipher, hash) ==
  [ok |-> hash.ok,
   id |-> [prefix |-> prefix.id, pattern |-> pattern.id, dh |-> dh.id, hybrid |-> dh.hybrid,
           cipher |-> cipher.id, hash |-> hash.id, reserved |-> 0]]
FromCipher(prefix, pattern, dh, cipher) ==
  NameRead(prefix, pattern, dh, cipher, noise_protocol_parse_field(cipher, "hash", TRUE))
FromDh(prefix, pattern, dh) ==
  FromCipher(prefix, pattern, dh, noise_protocol_parse_field(dh, "cipher", FALSE))
FromPattern(prefix, pattern) == FromDh(prefix, pattern, noise_protocol_parse_dual_field(pattern))
FromPrefix(prefix) == FromPattern(prefix, noise_protocol_parse_field(prefix, "pattern", FALSE))

noise_protocol_name_to_id(text) ==
  FromPrefix(noise_protocol_parse_field([rest |-> text, id |-> <<>>, ok |-> TRUE], "prefix", FALSE))

---------------------------------------------------------------------------
NameInit ==
  /\ nameId \in NameIds
  /\ nameLen = 0 /\ nameText = <<>> /\ written = 0 /\ nameState = "new"

Formatted(b) ==
  /\ nameText' = b.out /\ written' = b.written
  /\ nameState' = IF b.err THEN "refused" ELSE "spelled"

FormatName(len) ==
  /\ nameState = "new"
  /\ Formatted(noise_protocol_id_to_name(len, nameId))
  /\ nameLen' = len
  /\ UNCHANGED nameId

\* Some other text that somebody asks for: a word more, less, or another.
Garble(i) ==
  /\ nameState = "spelled"
  /\ LET front == SubSeq(nameText, 1, i - 1)
         back == SubSeq(nameText, i + 1, Len(nameText))
     IN  nameText' \in {front \o back, front} \cup {front \o <<w>> \o back : w \in Garbage}
                       \cup {front \o <<nameText[i], w>> \o back : w \in Garbage}
  /\ nameState' = "garbled" /\ nameLen' = 0 /\ written' = 0
  /\ UNCHANGED nameId

NameNext == (\E len \in BufferLens : FormatName(len)) \/ (\E i \in 1..Len(nameText) : Garble(i))

---------------------------------------------------------------------------
Spelling(id) ==
  id.prefix \o <<"_">> \o id.pattern \o <<"_">> \o id.dh
  \o (IF id.hybrid = <<>> THEN <<>> ELSE <<"+">> \o id.hybrid)
  \o <<"_">> \o id.cipher \o <<"_">> \o id.hash

Known(id) ==
  /\ \A c \in {"prefix", "pattern", "dh", "cipher", "hash"} : id[c] \in algorithm_names[c]
  /\ id.hybrid \in algorithm_names.dh \cup {<<>>}
  /\ id.reserved = 0

\* A name and its terminator are written into the buffer whole or not at
\* all, and never past its end: names.c:398, "Will the name fit into the
\* buffer, followed by either '_' or '\0'?".
NamesFit ==
  /\ written <= nameLen
  /\ nameState = "spelled" => nameText = Spelling(nameId) /\ written = Chars[nameText] + 1
  /\ nameState = "refused" => ~Known(nameId) \/ Chars[Spelling(nameId)] >= nameLen

\* A name that was formatted is parsed to the same protocol, with the plus
\* of a pattern kept apart from that of a hybrid, and no other text is a
\* second name of a protocol (names.c:214-364).
ReadsBack(parsed) ==
  /\ nameState = "spelled" => parsed.ok /\ parsed.id = nameId
  /\ parsed.ok => Spelling(parsed.id) = nameText
NamesReadBack == ReadsBack(noise_protocol_name_to_id(nameText))

\* A name is written whole, inside its buffer or not at all, and reads back.
NamesSound == NamesFit /\ NamesReadBack
=============================================================================
