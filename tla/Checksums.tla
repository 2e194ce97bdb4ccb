----------------------------- MODULE Checksums ------------------------------
(***************************************************************************)
(* validateIdentifier (imprint_checksum.go): what can be said of a VAT or  *)
(* register number without asking a registry, from its check characters.   *)
(*                                                                         *)
(* A number is the sequence of its characters after onlyAlnum: 0..9 for a  *)
(* digit, 10..35 for the letters A..Z.  The label in front of a domestic   *)
(* number is its kind; non-ASCII kinds are transcribed.  What a width of   *)
(* Japanese digits or the punctuation inside a number adds is dropped by   *)
(* the code before it looks, and here by the representation.               *)
(***************************************************************************)
EXTENDS Integers, Sequences, FiniteSets, Functions

Digit == 0..9
Alpha == 10..35

Alphabet == <<"A", "B", "C", "D", "E", "F", "G", "H", "I", "J", "K", "L", "M",
              "N", "O", "P", "Q", "R", "S", "T", "U", "V", "W", "X", "Y", "Z">>

CodeOf == [l \in Range(Alphabet) |-> 9 + CHOOSE i \in 1..26 : Alphabet[i] = l]

Word(letters) == [i \in DOMAIN letters |-> CodeOf[letters[i]]]

allDigits(s) == s # <<>> /\ \A i \in DOMAIN s : s[i] \in Digit

HasDigits(s, n) == Len(s) = n /\ allDigits(s)

DigitsIn(s) == {i \in DOMAIN s : s[i] \in Digit}

extractDigits(s) ==
  [k \in 1..Cardinality(DigitsIn(s)) |->
     s[CHOOSE i \in DigitsIn(s) : Cardinality({j \in DigitsIn(s) : j <= i}) = k]]

LastOf(s, n) == IF Len(s) > n THEN SubSeq(s, Len(s) - n + 1, Len(s)) ELSE s

mod11Verdict(ok) == IF ok THEN "checksum_valid" ELSE "checksum_invalid"

-----------------------------------------------------------------------------
(* Sums the algorithms are made of                                         *)

(* What a loop over s leaves: step takes its value so far and a digit to   *)
(* the next.  The step is a function, for which lemmas can be stated.      *)
Accumulate(step, start, s) ==
  LET value[n \in 0..Len(s)] ==
        IF n = 0 THEN start ELSE step[<<value[n - 1], s[n]>>]
  IN  value[Len(s)]

Total(terms) == Accumulate([x \in Int \X Int |-> x[1] + x[2]], 0, terms)

Weighted(w, s) == Total([i \in DOMAIN w |-> w[i] * s[i]])

(* The number's value modulo m, digit by digit.                            *)
Remainder(s, m) ==
  Accumulate([x \in (0..(m - 1)) \X Digit |-> (10 * x[1] + x[2]) % m], 0, s)

TwoDigits(s, i) == 10 * s[i] + s[i + 1]

(* Fault: the doubled digit keeps its carry.                               *)
Doubled_WithCarry(d) == 2 * d

Doubled(d) == IF 2 * d > 9 THEN 2 * d - 9 ELSE 2 * d

(* Every second digit from the right is doubled.                           *)
luhnValid(s) ==
  /\ allDigits(s)
  /\ Total([i \in DOMAIN s |-> IF (Len(s) - i) % 2 = 1 THEN Doubled(s[i]) ELSE s[i]]) % 10 = 0

(* ISO 7064 MOD 11,10.                                                     *)
HybridStep(p, d) == LET m == (d + p) % 10 IN (2 * (IF m = 0 THEN 10 ELSE m)) % 11

Hybrid(s) == Accumulate([x \in (1..10) \X Digit |-> HybridStep(x[1], x[2])], 10, s)

HybridValid(s, n) == HasDigits(s, n) /\ (11 - Hybrid(SubSeq(s, 1, n - 1))) % 10 = s[n]

-----------------------------------------------------------------------------
(* One algorithm per country                                               *)

deVATValid(s) == HybridValid(s, 9)

hrOIBValid(s) == HybridValid(s, 11)

eeVATValid(s) ==
  HasDigits(s, 9) /\ (10 - (Weighted(<<3, 7, 1, 3, 7, 1, 3, 7>>, s) % 10)) % 10 = s[9]

gbVATValid(s) ==
  /\ HasDigits(s, 9)
  /\ LET r == Weighted(<<8, 7, 6, 5, 4, 3, 2, 10, 1>>, s) % 97
     IN  r = 0 \/ (s[1] # 0 /\ r \in {42, 55})

skVATValid(s) ==
  HasDigits(s, 10) /\ s[1] # 0 /\ s[3] \in {2, 3, 4, 7, 8, 9} /\ Remainder(s, 11) = 0

siVATValid(s) ==
  /\ HasDigits(s, 8) /\ s[1] # 0
  /\ LET c == 11 - (Weighted(<<8, 7, 6, 5, 4, 3, 2>>, s) % 11)
     IN  s[8] = IF c = 10 THEN 0 ELSE c

luVATValid(s) == HasDigits(s, 8) /\ Remainder(SubSeq(s, 1, 6), 89) = TwoDigits(s, 7)

mtVATValid(s) ==
  HasDigits(s, 8) /\ s[1] # 0 /\ 37 - (Weighted(<<3, 4, 6, 7, 8, 9>>, s) % 37) = TwoDigits(s, 7)

chUIDValid(s) ==
  /\ HasDigits(s, 9)
  /\ LET c == 11 - (Weighted(<<5, 4, 3, 2, 7, 6, 5, 4>>, s) % 11)
     IN  c # 10 /\ s[9] = IF c = 11 THEN 0 ELSE c

NLCheck(s) == Weighted(<<9, 8, 7, 6, 5, 4, 3, 2>>, s) % 11

nlVATValid(s) == HasDigits(s, 9) /\ NLCheck(s) # 10 /\ NLCheck(s) = s[9]

(* Fault: a number whose control is wrong gets no verdict either.          *)
nlVATIndeterminate_Any(s) == HasDigits(s, 9)

nlVATIndeterminate(s) == HasDigits(s, 9) /\ NLCheck(s) = 10

atVATValid(s) ==
  /\ HasDigits(s, 8)
  /\ LET digitSum(p) == (p \div 10) + (p % 10)
         sum == Total([i \in 1..7 |-> digitSum(<<1, 2, 1, 2, 1, 2, 1>>[i] * s[i])])
     IN  (96 - sum) % 10 = s[8]

plVATValid(s) ==
  HasDigits(s, 10) /\ Weighted(<<6, 5, 7, 2, 3, 4, 5, 6, 7>>, s) % 11 = s[10]

seVATValid(s) == HasDigits(s, 12) /\ luhnValid(SubSeq(s, 1, 10))

dkVATValid(s) ==
  HasDigits(s, 8) /\ s[1] # 0 /\ Weighted(<<2, 7, 6, 5, 4, 3, 2, 1>>, s) % 11 = 0

fiVATValid(s) == HasDigits(s, 8) /\ Weighted(<<7, 9, 10, 5, 8, 4, 2, 1>>, s) % 11 = 0

norwayOrgNrValid(s) ==
  /\ HasDigits(s, 9)
  /\ LET rem == Weighted(<<3, 2, 7, 6, 5, 4, 3, 2>>, s) % 11
     IN  rem # 1 /\ s[9] = IF rem = 0 THEN 0 ELSE 11 - rem

czICOValid(s) ==
  /\ HasDigits(s, 8)
  /\ LET rem == Weighted(<<8, 7, 6, 5, 4, 3, 2>>, s) % 11
     IN  s[8] = CASE rem = 0 -> 1 [] rem = 1 -> 0 [] OTHER -> 11 - rem

huAdoszamValid(s) ==
  HasDigits(s, 8) /\ (10 - (Weighted(<<9, 7, 3, 1, 9, 7, 3>>, s) % 10)) % 10 = s[8]

grVATValid(s) ==
  /\ HasDigits(s, 9)
  /\ LET c == Weighted(<<256, 128, 64, 32, 16, 8, 4, 2>>, s) % 11
     IN  s[9] = IF c = 10 THEN 0 ELSE c

(* Bulgaria and Lithuania: a second row of weights when the first leaves   *)
(* ten.                                                                    *)
TwoRowCheck(s) ==
  LET first  == Weighted(<<1, 2, 3, 4, 5, 6, 7, 8>>, s) % 11
      second == Weighted(<<3, 4, 5, 6, 7, 8, 9, 10>>, s) % 11
  IN  IF first # 10 THEN first ELSE second % 10

bgEIKValid(s) == HasDigits(s, 9) /\ TwoRowCheck(s) = s[9]

ltCompanyCodeValid(s) == HasDigits(s, 9) /\ TwoRowCheck(s) = s[9]

ptVATValid(s) ==
  /\ HasDigits(s, 9) /\ s[1] # 0
  /\ LET c == 11 - (Weighted(<<9, 8, 7, 6, 5, 4, 3, 2>>, s) % 11)
     IN  s[9] = IF c >= 10 THEN 0 ELSE c

abnValid(s) ==
  /\ HasDigits(s, 11)
  /\ (Weighted(<<10, 1, 3, 5, 7, 9, 11, 13, 15, 17, 19>>, s) - 10) % 89 = 0

acnValid(s) ==
  HasDigits(s, 9) /\ (10 - (Weighted(<<8, 7, 6, 5, 4, 3, 2, 1>>, s) % 10)) % 10 = s[9]

beVATValid(s) ==
  LET t == IF Len(s) = 9 THEN <<0>> \o s ELSE s
  IN  HasDigits(t, 10) /\ 97 - Remainder(SubSeq(t, 1, 8), 97) = TwoDigits(t, 9)

jpCorporateNumberValid(s) ==
  /\ HasDigits(s, 13)
  /\ s[1] = 9 - (Total([i \in 1..12 |-> (IF i % 2 = 1 THEN 2 ELSE 1) * s[i + 1]]) % 9)

(* The key's last digits weigh the body's; no body is longer than the key. *)
roCUIValid(s) ==
  /\ Len(s) \in 2..10 /\ allDigits(s) /\ s[1] # 0
  /\ LET key  == <<7, 5, 3, 2, 1, 7, 5, 3, 2>>
         body == SubSeq(s, 1, Len(s) - 1)
         want == (10 * Weighted(LastOf(key, Len(body)), body)) % 11
     IN  s[Len(s)] = IF want = 10 THEN 0 ELSE want

ieCheckChars ==
  Word(<<"W", "A", "B", "C", "D", "E", "F", "G", "H", "I", "J", "K", "L",
         "M", "N", "O", "P", "Q", "R", "S", "T", "U", "V">>)

(* Seven digits and a letter, or the old form with a letter in second      *)
(* place; a ninth character is not looked at.                              *)
ieVATValid(raw) ==
  LET s == IF Len(raw) = 9 /\ raw[9] \in Alpha THEN SubSeq(raw, 1, 8) ELSE raw
  IN  /\ Len(s) = 8 /\ s[8] \in Range(ieCheckChars)
      /\ LET idx == (CHOOSE i \in 1..23 : ieCheckChars[i] = s[8]) - 1
         IN  \/ /\ allDigits(SubSeq(s, 1, 7))
                /\ idx = Weighted(<<8, 7, 6, 5, 4, 3, 2>>, s) % 23
             \/ /\ s[1] \in Digit /\ s[2] \in Alpha /\ allDigits(SubSeq(s, 3, 7))
                /\ idx = Weighted(<<7, 6, 5, 4, 3, 2>>, SubSeq(s, 3, 7) \o <<s[1]>>) % 23

(* Whether the control is the digit, the letter or either depends on the   *)
(* kind of organisation, the first letter.                                 *)
esCIFValid(s) ==
  /\ Len(s) = 9 /\ s[1] \in Alpha /\ allDigits(SubSeq(s, 2, 8))
  /\ LET sum  == Total([i \in 1..7 |-> IF i % 2 = 1 THEN Doubled(s[i + 1]) ELSE s[i + 1]])
         ctrl == (10 - (sum % 10)) % 10
         letter == IF ctrl = 0 THEN CodeOf["J"] ELSE 9 + ctrl
         byDigit  == s[1] \in Range(Word(<<"A", "B", "E", "H">>))
         byLetter == s[1] \in Range(Word(<<"K", "P", "Q", "S", "N", "W">>))
     IN  s[9] \in (IF byLetter THEN {} ELSE {ctrl}) \cup (IF byDigit THEN {} ELSE {letter})

nifLetters ==
  Word(<<"T", "R", "W", "A", "G", "M", "Y", "F", "P", "D", "X", "B",
         "N", "J", "Z", "S", "Q", "V", "H", "L", "C", "K", "E">>)

(* A person's number, a foreigner's (X, Y, Z standing for 0, 1, 2), one    *)
(* with no published algorithm, or an organisation's.                      *)
esNIFVerdict(s) ==
  LET letterAgrees(body) ==
        mod11Verdict(/\ allDigits(body) /\ s[9] \in Alpha
                     /\ nifLetters[Remainder(body, 23) + 1] = s[9])
  IN  CASE Len(s) # 9 -> "format_valid"
        [] Len(s) = 9 /\ s[1] \in Digit -> letterAgrees(SubSeq(s, 1, 8))
        [] Len(s) = 9 /\ s[1] \in CodeOf["X"]..CodeOf["Z"] ->
             letterAgrees(<<s[1] - CodeOf["X"]>> \o SubSeq(s, 2, 8))
        [] Len(s) = 9 /\ s[1] \in CodeOf["K"]..CodeOf["M"] -> "format_valid"
        [] OTHER -> mod11Verdict(esCIFValid(s))

=============================================================================
