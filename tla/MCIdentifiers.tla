--------------------------- MODULE MCIdentifiers ----------------------------
(***************************************************************************)
(* Numbers of every scheme with a known algorithm.  The digits before the  *)
(* control run through arithmetic progressions modulo eleven, a hundred of *)
(* each length: every remainder occurs of the moduli up to 23, and most of *)
(* those of the moduli 37, 89 and 97.                                      *)
(***************************************************************************)
EXTENDS Checksums

Bodies(n) == {[k \in 1..n |-> ((a + b * k) % 11) % 10] : a, b \in Digit}

OneDigit  == {<<c>> : c \in Digit}
TwoDigit  == {<<c, d>> : c, d \in Digit}
OneLetter == {<<c>> : c \in Alpha}

Forms(lead, n, controls, trail) ==
  {lead \o body \o c \o trail : body \in Bodies(n), c \in controls}

Labelled(kind, cc, numbers) == [kind |-> kind, country |-> cc, numbers |-> numbers]

VAT(cc, numbers) == Labelled("VAT", cc, numbers)

Written(cc, x, y, n, controls, trail) == VAT(cc, Forms(Word(<<x, y>>), n, controls, trail))

MCSchemes ==
  {Written("DE", "D", "E", 8, OneDigit, <<>>),
   Written("NL", "N", "L", 8, OneDigit, Word(<<"B">>) \o <<0, 1>>),
   Written("IT", "I", "T", 10, OneDigit, <<>>),
   VAT("FR", Forms(Word(<<"F", "R">>) \o <<4, 2>>, 8, OneDigit, <<>>)),
   Written("CZ", "C", "Z", 7, OneDigit, <<>>),
   Written("HU", "H", "U", 7, OneDigit, <<>>),
   Written("EE", "E", "E", 8, OneDigit, <<>>),
   Written("GB", "G", "B", 7, TwoDigit, <<>>),
   Written("SK", "S", "K", 9, OneDigit, <<>>),
   Written("SI", "S", "I", 7, OneDigit, <<>>),
   Written("LU", "L", "U", 6, TwoDigit, <<>>),
   Written("MT", "M", "T", 6, TwoDigit, <<>>),
   VAT("AT", Forms(Word(<<"A", "T", "U">>), 7, OneDigit, <<>>)),
   VAT("BE", Forms(Word(<<"B", "E">>) \o <<0>>, 7, TwoDigit, <<>>)),
   Written("PL", "P", "L", 9, OneDigit, <<>>),
   VAT("SE", Forms(Word(<<"S", "E">>), 9, OneDigit, <<0, 1>>)),
   Written("DK", "D", "K", 7, OneDigit, <<>>),
   Written("FI", "F", "I", 7, OneDigit, <<>>),
   Written("PT", "P", "T", 8, OneDigit, <<>>),
   Written("IE", "I", "E", 7, OneLetter, <<>>),
   Written("RO", "R", "O", 7, OneDigit, <<>>),
   Written("EL", "E", "L", 8, OneDigit, <<>>),
   Written("BG", "B", "G", 8, OneDigit, <<>>),
   Written("HR", "H", "R", 10, OneDigit, <<>>),
   Written("ES", "E", "S", 8, OneLetter, <<>>),
   VAT("ES", Forms(Word(<<"E", "S", "B">>), 7, OneDigit, <<>>)),
   VAT("ES", Forms(Word(<<"E", "S", "Q">>), 7, OneLetter, <<>>)),
   VAT("ES", Forms(Word(<<"E", "S", "Y">>), 7, OneLetter, <<>>)),
   Labelled("UID", "CH", Forms(Word(<<"C", "H", "E">>), 8, OneDigit, <<>>)),
   Labelled("OrgNr", "NO", Forms(<<>>, 8, OneDigit, <<>>)),
   Labelled("Imones kodas", "LT", Forms(<<>>, 8, OneDigit, <<>>)),
   Labelled("CorporateNumber", "JP", {c \o body : c \in OneDigit, body \in Bodies(12)}),
   Labelled("ABN", "AU", Forms(<<>>, 9, TwoDigit, <<>>)),
   Labelled("ACN", "AU", Forms(<<>>, 8, OneDigit, <<>>)),
   Labelled("SIREN", "FR", Forms(<<>>, 8, OneDigit, <<>>)),
   Labelled("Adoszam", "HU", Forms(<<>>, 7, OneDigit, <<2, 4, 1>>))}

=============================================================================
