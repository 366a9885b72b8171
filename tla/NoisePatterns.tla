--------------------------- MODULE NoisePatterns ---------------------------
(* The handshake patterns of the Noise library (noise_ref/src/protocol/    *)
(* patterns.c): the keys each side brings and the tokens of each message.  *)
(* NOISE_TOKEN_FLIP_DIR ends a message, so the tokens are a sequence of    *)
(* messages.  In the flags, seen from the initiator, "s", "e" and "f" are  *)
(* the STATIC, EPHEMERAL and HYBRID keys in use; "req", "ereq" and "freq"  *)
(* the ones that must be there before the first message.                   *)
EXTENDS Naturals

Pattern(id, local, remote, tokens) ==
  [id |-> id, local |-> local, remote |-> remote, tokens |-> tokens]

noise_pattern_N ==
  Pattern("N", {"e"}, {"s", "req"},
    << <<"e", "es">> >>)
noise_pattern_K ==
  Pattern("K", {"s", "e", "req"}, {"s", "req"},
    << <<"e", "es", "ss">> >>)
noise_pattern_X ==
  Pattern("X", {"s", "e"}, {"s", "req"},
    << <<"e", "es", "s", "ss">> >>)
noise_pattern_NN ==
  Pattern("NN", {"e"}, {"e"},
    << <<"e">>, <<"e", "ee">> >>)
noise_pattern_NK ==
  Pattern("NK", {"e"}, {"s", "e", "req"},
    << <<"e", "es">>, <<"e", "ee">> >>)
noise_pattern_NX ==
  Pattern("NX", {"e"}, {"s", "e"},
    << <<"e">>, <<"e", "ee", "s", "es">> >>)
noise_pattern_XN ==
  Pattern("XN", {"s", "e"}, {"e"},
    << <<"e">>, <<"e", "ee">>, <<"s", "se">> >>)
noise_pattern_XK ==
  Pattern("XK", {"s", "e"}, {"s", "e", "req"},
    << <<"e", "es">>, <<"e", "ee">>, <<"s", "se">> >>)
noise_pattern_XX ==
  Pattern("XX", {"s", "e"}, {"s", "e"},
    << <<"e">>, <<"e", "ee", "s", "es">>, <<"s", "se">> >>)
noise_pattern_KN ==
  Pattern("KN", {"s", "e", "req"}, {"e"},
    << <<"e">>, <<"e", "ee", "se">> >>)
noise_pattern_KK ==
  Pattern("KK", {"s", "e", "req"}, {"s", "e", "req"},
    << <<"e", "es", "ss">>, <<"e", "ee", "se">> >>)
noise_pattern_KX ==
  Pattern("KX", {"s", "e", "req"}, {"s", "e"},
    << <<"e">>, <<"e", "ee", "se", "s", "es">> >>)
noise_pattern_IN ==
  Pattern("IN", {"s", "e"}, {"e"},
    << <<"e", "s">>, <<"e", "ee", "se">> >>)
noise_pattern_IK ==
  Pattern("IK", {"s", "e"}, {"s", "e", "req"},
    << <<"e", "es", "s", "ss">>, <<"e", "ee", "se">> >>)
noise_pattern_IX ==
  Pattern("IX", {"s", "e"}, {"s", "e"},
    << <<"e", "s">>, <<"e", "ee", "se", "s", "es">> >>)
noise_pattern_XXfallback ==
  Pattern("XXfallback", {"s", "e"}, {"s", "e", "ereq"},
    << <<"e", "ee", "s", "se">>, <<"s", "es">> >>)
noise_pattern_Xnoidh ==
  Pattern("Xnoidh", {"s", "e"}, {"s", "req"},
    << <<"e", "s", "es", "ss">> >>)
noise_pattern_NXnoidh ==
  Pattern("NXnoidh", {"e"}, {"s", "e"},
    << <<"e">>, <<"e", "s", "ee", "es">> >>)
noise_pattern_XXnoidh ==
  Pattern("XXnoidh", {"s", "e"}, {"s", "e"},
    << <<"e">>, <<"e", "s", "ee", "es">>, <<"s", "se">> >>)
noise_pattern_KXnoidh ==
  Pattern("KXnoidh", {"s", "e", "req"}, {"s", "e"},
    << <<"e">>, <<"e", "s", "ee", "se", "es">> >>)
noise_pattern_IKnoidh ==
  Pattern("IKnoidh", {"s", "e"}, {"s", "e", "req"},
    << <<"e", "s", "es", "ss">>, <<"e", "ee", "se">> >>)
noise_pattern_IXnoidh ==
  Pattern("IXnoidh", {"s", "e"}, {"s", "e"},
    << <<"e", "s">>, <<"e", "s", "ee", "se", "es">> >>)
noise_pattern_NNhfs ==
  Pattern("NNhfs", {"e", "f"}, {"e", "f"},
    << <<"e", "f">>, <<"e", "f", "ee", "ff">> >>)
noise_pattern_NKhfs ==
  Pattern("NKhfs", {"e", "f"}, {"s", "e", "req", "f"},
    << <<"e", "f", "es">>, <<"e", "f", "ee", "ff">> >>)
noise_pattern_NXhfs ==
  Pattern("NXhfs", {"e", "f"}, {"s", "e", "f"},
    << <<"e", "f">>, <<"e", "f", "ee", "ff", "s", "es">> >>)
noise_pattern_XNhfs ==
  Pattern("XNhfs", {"s", "e", "f"}, {"e", "f"},
    << <<"e", "f">>, <<"e", "f", "ee", "ff">>, <<"s", "se">> >>)
noise_pattern_XKhfs ==
  Pattern("XKhfs", {"s", "e", "f"}, {"s", "e", "req", "f"},
    << <<"e", "f", "es">>, <<"e", "f", "ee", "ff">>, <<"s", "se">> >>)
noise_pattern_XXhfs ==
  Pattern("XXhfs", {"s", "e", "f"}, {"s", "e", "f"},
    << <<"e", "f">>, <<"e", "f", "ee", "ff", "s", "es">>, <<"s", "se">> >>)
noise_pattern_KNhfs ==
  Pattern("KNhfs", {"s", "e", "f", "req"}, {"e", "f"},
    << <<"e", "f">>, <<"e", "f", "ee", "ff", "se">> >>)
noise_pattern_KKhfs ==
  Pattern("KKhfs", {"s", "e", "req", "f"}, {"s", "e", "req", "f"},
    << <<"e", "f", "es", "ss">>, <<"e", "f", "ee", "ff", "se">> >>)
noise_pattern_KXhfs ==
  Pattern("KXhfs", {"s", "e", "req", "f"}, {"s", "e", "f"},
    << <<"e", "f">>, <<"e", "f", "ee", "ff", "se", "s", "es">> >>)
noise_pattern_INhfs ==
  Pattern("INhfs", {"s", "e", "f"}, {"e", "f"},
    << <<"e", "f", "s">>, <<"e", "f", "ee", "ff", "se">> >>)
noise_pattern_IKhfs ==
  Pattern("IKhfs", {"s", "e", "f"}, {"s", "e", "req", "f"},
    << <<"e", "f", "es", "s", "ss">>, <<"e", "f", "ee", "ff", "se">> >>)
noise_pattern_IXhfs ==
  Pattern("IXhfs", {"s", "e", "f"}, {"s", "e", "f"},
    << <<"e", "f", "s">>, <<"e", "f", "ee", "ff", "se", "s", "es">> >>)
noise_pattern_XXfallback_hfs ==
  Pattern("XXfallback_hfs", {"s", "e", "f"}, {"s", "e", "ereq", "f", "freq"},
    << <<"e", "f", "ee", "ff", "s", "se">>, <<"s", "es">> >>)
noise_pattern_NXnoidh_hfs ==
  Pattern("NXnoidh_hfs", {"e", "f"}, {"s", "e", "f"},
    << <<"e", "f">>, <<"e", "f", "s", "ee", "ff", "es">> >>)
noise_pattern_XXnoidh_hfs ==
  Pattern("XXnoidh_hfs", {"s", "e", "f"}, {"s", "e", "f"},
    << <<"e", "f">>, <<"e", "f", "s", "ee", "ff", "es">>, <<"s", "se">> >>)
noise_pattern_KXnoidh_hfs ==
  Pattern("KXnoidh_hfs", {"s", "e", "req", "f"}, {"s", "e", "f"},
    << <<"e", "f">>, <<"e", "f", "s", "ee", "ff", "se", "es">> >>)
noise_pattern_IKnoidh_hfs ==
  Pattern("IKnoidh_hfs", {"s", "e", "f"}, {"s", "e", "req", "f"},
    << <<"e", "f", "s", "es", "ss">>, <<"e", "f", "ee", "ff", "se">> >>)
noise_pattern_IXnoidh_hfs ==
  Pattern("IXnoidh_hfs", {"s", "e", "f"}, {"s", "e", "f"},
    << <<"e", "f", "s">>, <<"e", "f", "s", "ee", "ff", "se", "es">> >>)

Patterns ==
  { noise_pattern_N, noise_pattern_K, noise_pattern_X, noise_pattern_NN,
    noise_pattern_NK, noise_pattern_NX, noise_pattern_XN, noise_pattern_XK,
    noise_pattern_XX, noise_pattern_KN, noise_pattern_KK, noise_pattern_KX,
    noise_pattern_IN, noise_pattern_IK, noise_pattern_IX,
    noise_pattern_XXfallback, noise_pattern_Xnoidh, noise_pattern_NXnoidh,
    noise_pattern_XXnoidh, noise_pattern_KXnoidh, noise_pattern_IKnoidh,
    noise_pattern_IXnoidh, noise_pattern_NNhfs, noise_pattern_NKhfs,
    noise_pattern_NXhfs, noise_pattern_XNhfs, noise_pattern_XKhfs,
    noise_pattern_XXhfs, noise_pattern_KNhfs, noise_pattern_KKhfs,
    noise_pattern_KXhfs, noise_pattern_INhfs, noise_pattern_IKhfs,
    noise_pattern_IXhfs, noise_pattern_XXfallback_hfs,
    noise_pattern_NXnoidh_hfs, noise_pattern_XXnoidh_hfs,
    noise_pattern_KXnoidh_hfs, noise_pattern_IKnoidh_hfs,
    noise_pattern_IXnoidh_hfs }

noise_pattern_lookup(id) == CHOOSE p \in Patterns : p.id = id

\* The flags with the responder as the local side.
noise_pattern_reverse_flags(p) == [p EXCEPT !.local = p.remote, !.remote = p.local]
=============================================================================
