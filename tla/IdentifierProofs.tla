-------------------------- MODULE IdentifierProofs --------------------------
(***************************************************************************)
(* validateIdentifier and validateVAT, whatever numbers are issued: an     *)
(* error that the arithmetic of a number's scheme covers is noticed, a     *)
(* verdict is withheld only where none can be given, and a number has one  *)
(* verdict in each form it is written in.                                  *)
(*                                                                         *)
(* The sums are loops over the digits, whose values exist and are unique   *)
(* (LoopRuns).  A loop whose step tells digits and values apart tells two  *)
(* numbers with an error apart (LoopTellsApart); a weighted sum changes by *)
(* the weight times the difference (WeightedChanges), which is never a    *)
(* multiple of the modulus.  On these rest one lemma per algorithm         *)
(* (PLNotices, ...) and per form a number has: prefixes, cut digits,       *)
(* letters.                                                                *)
(***************************************************************************)
EXTENDS Identifiers, FiniteSetTheorems, WellFoundedInduction, TLAPS

-----------------------------------------------------------------------------
(* Loops over a number                                                     *)

LEMMA LeastExists ==
  ASSUME NEW S \in SUBSET Nat, S # {}
  PROVE  \E m \in S : \A n \in S : m <= n
<1> DEFINE R == {ss \in Nat \X Nat : ss[1] < ss[2]}
<1>1. R = OpToRel(<, Nat)
  BY DEF OpToRel
<1>2. IsWellFoundedOn(R, Nat)
  BY <1>1, NatLessThanWellFounded
<1> HIDE DEF R
<1>3. PICK m \in S : \A n \in S : ~(<<n, m>> \in R)
  BY <1>2, WFMin
<1>4. ASSUME NEW n \in S PROVE m <= n
  <2>1. m \in Nat /\ n \in Nat
    OBVIOUS
  <2>2. n < m => <<n, m>> \in R
    BY <2>1 DEF R
  <2> QED
    BY <1>3, <2>1, <2>2
<1> QED
  BY <1>4

(* What is asked of the values of a loop over the first k characters.      *)
Computes(v, step, start, s, k) ==
  v = [n \in 0..k |-> IF n = 0 THEN start ELSE step[<<v[n - 1], s[n]>>]]

LEMMA ComputesOneMore ==
  ASSUME NEW step, NEW start, NEW s, NEW k \in Nat, NEW v, Computes(v, step, start, s, k)
  PROVE  \E u : Computes(u, step, start, s, k + 1)
<1> DEFINE u == [n \in 0..(k + 1) |-> IF n = k + 1 THEN step[<<v[k], s[k + 1]>>] ELSE v[n]]
<1>1. ASSUME NEW n \in 0..(k + 1)
      PROVE  u[n] = IF n = 0 THEN start ELSE step[<<u[n - 1], s[n]>>]
  <2>1. CASE n = k + 1
    <3>1. n # 0 /\ n - 1 = k /\ n - 1 \in 0..(k + 1) /\ n - 1 # k + 1
      BY <2>1
    <3>2. u[n] = step[<<v[k], s[k + 1]>>] /\ u[n - 1] = v[k]
      BY <2>1, <3>1
    <3> QED
      BY <2>1, <3>1, <3>2
  <2>2. CASE n # k + 1
    <3>1. n \in 0..k
      BY <2>2
    <3>2. u[n] = v[n]
      BY <2>2
    <3>3. v[n] = IF n = 0 THEN start ELSE step[<<v[n - 1], s[n]>>]
      BY <3>1, Zenon DEF Computes
    <3>4. n # 0 => u[n - 1] = v[n - 1]
      BY <3>1
    <3> QED
      BY <3>2, <3>3, <3>4
  <2> QED
    BY <2>1, <2>2
<1>2. u = [n \in 0..(k + 1) |-> u[n]]
  OBVIOUS
<1> HIDE DEF u
<1>3. u = [n \in 0..(k + 1) |-> IF n = 0 THEN start ELSE step[<<u[n - 1], s[n]>>]]
  BY <1>1, <1>2
<1> QED
  BY <1>3 DEF Computes

LEMMA ComputationExists ==
  ASSUME NEW step, NEW start, NEW s, NEW k \in Nat
  PROVE  \E v : Computes(v, step, start, s, k)
<1> DEFINE bad == {j \in Nat : ~\E v : Computes(v, step, start, s, j)}
<1> SUFFICES ASSUME bad # {} PROVE FALSE
  OBVIOUS
<1>1. PICK m \in bad : \A n \in bad : m <= n
  BY LeastExists
<1>2. m \in Nat /\ ~\E v : Computes(v, step, start, s, m)
  BY <1>1
<1>3. CASE m = 0
  <2> DEFINE v == [n \in 0..0 |-> start]
  <2>1. v = [n \in 0..0 |-> IF n = 0 THEN start ELSE step[<<v[n - 1], s[n]>>]]
    <3>1. \A n \in 0..0 : n = 0
      OBVIOUS
    <3> QED
      BY <3>1
  <2> HIDE DEF v
  <2>2. Computes(v, step, start, s, 0)
    BY <2>1 DEF Computes
  <2> QED
    BY <1>2, <1>3, <2>2
<1>4. CASE m # 0
  <2>1. m - 1 \in Nat /\ (m - 1) + 1 = m /\ ~(m <= m - 1)
    BY <1>2, <1>4
  <2>2. m - 1 \notin bad
    BY <1>1, <2>1
  <2>3. PICK v : Computes(v, step, start, s, m - 1)
    BY <2>1, <2>2
  <2>4. \E u : Computes(u, step, start, s, (m - 1) + 1)
    BY <2>1, <2>3, ComputesOneMore
  <2> QED
    BY <1>2, <2>1, <2>4
<1> QED
  BY <1>3, <1>4

(* The values of a loop are there, and its result is the last of them.     *)
LEMMA LoopRuns ==
  ASSUME NEW step, NEW start, NEW s, Len(s) \in Nat
  PROVE  \E v : /\ v[0] = start
                /\ \A n \in 1..Len(s) : v[n] = step[<<v[n - 1], s[n]>>]
                /\ Accumulate(step, start, s) = v[Len(s)]
<1> DEFINE v == CHOOSE v : Computes(v, step, start, s, Len(s))
<1>1. Accumulate(step, start, s) = v[Len(s)]
  BY Zenon DEF Accumulate, Computes
<1>2. Computes(v, step, start, s, Len(s))
  BY ComputationExists, Zenon
<1> HIDE DEF v
<1>3. \A n \in 0..Len(s) : v[n] = IF n = 0 THEN start ELSE step[<<v[n - 1], s[n]>>]
  BY <1>2, Zenon DEF Computes
<1>4. v[0] = start
  <2>1. 0 \in 0..Len(s)
    OBVIOUS
  <2> QED
    BY <1>3, <2>1
<1>5. \A n \in 1..Len(s) : v[n] = step[<<v[n - 1], s[n]>>]
  BY <1>3
<1> QED
  BY <1>1, <1>4, <1>5

(* What holds at a and at n + 1 if at n holds from a to b.                 *)
LEMMA Stretch ==
  ASSUME NEW a \in Nat, NEW b \in Nat, NEW Q, a \in Q,
         \A n \in a..(b - 1) : n \in Q => n + 1 \in Q
  PROVE  \A n \in a..b : n \in Q
<1> DEFINE bad == {n \in a..b : n \notin Q}
<1> SUFFICES ASSUME bad # {} PROVE FALSE
  OBVIOUS
<1>1. bad \in SUBSET Nat
  OBVIOUS
<1>2. PICK m \in bad : \A n \in bad : m <= n
  BY <1>1, LeastExists
<1>3. m \in a..b /\ m \notin Q /\ m # a
  BY <1>2
<1>4. m - 1 \in a..(b - 1) /\ m - 1 \in a..b /\ (m - 1) + 1 = m /\ ~(m <= m - 1)
  BY <1>3
<1>5. m - 1 \notin bad
  BY <1>2, <1>4
<1> QED
  BY <1>3, <1>4, <1>5

(* The values stay among P if the step leads from P to P.                  *)
LEMMA LoopKeeps ==
  ASSUME NEW P, NEW step, NEW start \in P, NEW S, NEW s \in Seq(S), NEW v,
         \A p \in P, d \in S : step[<<p, d>>] \in P,
         v[0] = start, \A n \in 1..Len(s) : v[n] = step[<<v[n - 1], s[n]>>]
  PROVE  \A n \in 0..Len(s) : v[n] \in P
<1> DEFINE Q == {n \in 0..Len(s) : v[n] \in P}
<1>1. Len(s) \in Nat /\ 0 \in Q
  OBVIOUS
<1>2. ASSUME NEW n \in 0..(Len(s) - 1), n \in Q PROVE n + 1 \in Q
  <2>1. n + 1 \in 1..Len(s) /\ (n + 1) - 1 = n
    OBVIOUS
  <2>2. v[n + 1] = step[<<v[n], s[n + 1]>>] /\ s[n + 1] \in S
    BY <2>1
  <2> QED
    BY <1>2, <2>1, <2>2
<1> HIDE DEF Q
<1>3. \A n \in 0..Len(s) : n \in Q
  BY <1>1, <1>2, Stretch
<1> QED
  BY <1>3 DEF Q

(* Two numbers that differ from i to j only.                               *)
DifferWithin(s, t, i, j) ==
  /\ Len(t) = Len(s)
  /\ i \in 1..Len(s) /\ j \in i..Len(s)
  /\ \A n \in 1..Len(s) : n < i \/ n > j => s[n] = t[n]

(* A step that tells its values, and the digits it takes, apart.           *)
TellsApart(step, P) ==
  /\ \A p \in P, d \in Digit : step[<<p, d>>] \in P
  /\ \A p, q \in P, d \in Digit : step[<<p, d>>] = step[<<q, d>>] => p = q
  /\ \A p \in P, d, e \in Digit : step[<<p, d>>] = step[<<p, e>>] => d = e

(* Loops that agree before the difference do not agree behind it.          *)
PartsAt(step, P, s, t, i, j) ==
  \A v, u : /\ \A n \in i..j : /\ v[n] = step[<<v[n - 1], s[n]>>]
                               /\ u[n] = step[<<u[n - 1], t[n]>>]
            /\ v[i - 1] = u[i - 1] /\ v[i - 1] \in P
            => v[j] # u[j]

(* Such a loop tells two numbers apart for good once it has done so.       *)
LEMMA LoopTellsApart ==
  ASSUME NEW P, NEW step, NEW start \in P, NEW s \in Seq(Digit), NEW t \in Seq(Digit),
         NEW i, NEW j, DifferWithin(s, t, i, j), TellsApart(step, P),
         PartsAt(step, P, s, t, i, j)
  PROVE  Accumulate(step, start, s) # Accumulate(step, start, t)
<1>1. /\ \A p \in P, d \in Digit : step[<<p, d>>] \in P
      /\ \A p, q \in P, d \in Digit : step[<<p, d>>] = step[<<q, d>>] => p = q
  BY DEF TellsApart
<1>2. /\ Len(s) \in Nat /\ Len(t) = Len(s)
      /\ i \in Nat /\ j \in Nat /\ i - 1 \in Nat /\ j <= Len(s) /\ i <= j
      /\ \A n \in 1..Len(s) : n < i \/ n > j => s[n] = t[n]
  BY DEF DifferWithin
<1>3. PICK v : /\ v[0] = start
               /\ \A n \in 1..Len(s) : v[n] = step[<<v[n - 1], s[n]>>]
               /\ Accumulate(step, start, s) = v[Len(s)]
  BY <1>2, LoopRuns
<1>4. PICK u : /\ u[0] = start
               /\ \A n \in 1..Len(s) : u[n] = step[<<u[n - 1], t[n]>>]
               /\ Accumulate(step, start, t) = u[Len(s)]
  BY <1>2, LoopRuns
<1>5. (\A n \in 0..Len(s) : v[n] \in P) /\ (\A n \in 0..Len(s) : u[n] \in P)
  <2>1. \A n \in 0..Len(s) : v[n] \in P
    BY <1>1, <1>3, LoopKeeps, Zenon
  <2>2. \A n \in 1..Len(t) : u[n] = step[<<u[n - 1], t[n]>>]
    BY <1>2, <1>4
  <2>3. \A n \in 0..Len(t) : u[n] \in P
    BY <1>1, <1>4, <2>2, LoopKeeps, Zenon
  <2> QED
    BY <1>2, <2>1, <2>3
<1>6. v[i - 1] = u[i - 1]
  <2> DEFINE Q == {n \in 0..(i - 1) : v[n] = u[n]}
  <2>1. 0 \in Q
    BY <1>2, <1>3, <1>4
  <2>2. ASSUME NEW n \in 0..((i - 1) - 1), n \in Q PROVE n + 1 \in Q
    <3>1. n + 1 \in 1..Len(s) /\ (n + 1) - 1 = n /\ n + 1 < i /\ n + 1 \in 0..(i - 1)
      BY <1>2
    <3>2. v[n + 1] = step[<<v[n], s[n + 1]>>] /\ u[n + 1] = step[<<u[n], t[n + 1]>>]
      BY <1>3, <1>4, <3>1
    <3> QED
      BY <1>2, <2>2, <3>1, <3>2
  <2> HIDE DEF Q
  <2>3. \A n \in 0..(i - 1) : n \in Q
    BY <1>2, <2>1, <2>2, Stretch
  <2> QED
    BY <1>2, <2>3 DEF Q
<1>7. v[j] # u[j]
  <2>1. \A n \in i..j : n \in 1..Len(s)
    BY <1>2
  <2>2. v[i - 1] \in P
    BY <1>2, <1>5
  <2>3. \A n \in i..j : v[n] = step[<<v[n - 1], s[n]>>] /\ u[n] = step[<<u[n - 1], t[n]>>]
    BY <1>3, <1>4, <2>1
  <2> QED
    BY <1>6, <2>2, <2>3, Zenon DEF PartsAt
<1>8. v[Len(s)] # u[Len(s)]
  <2> DEFINE Q == {n \in j..Len(s) : v[n] # u[n]}
  <2>1. j \in Q
    BY <1>2, <1>7
  <2>2. ASSUME NEW n \in j..(Len(s) - 1), n \in Q PROVE n + 1 \in Q
    <3>1. /\ n \in 0..Len(s) /\ n + 1 \in 1..Len(s) /\ (n + 1) - 1 = n
          /\ n + 1 > j /\ n + 1 \in j..Len(s)
      BY <1>2
    <3>2. /\ v[n + 1] = step[<<v[n], s[n + 1]>>] /\ u[n + 1] = step[<<u[n], t[n + 1]>>]
          /\ s[n + 1] = t[n + 1] /\ s[n + 1] \in Digit /\ v[n] \in P /\ u[n] \in P
      BY <1>2, <1>3, <1>4, <1>5, <3>1
    <3>3. v[n] # u[n]
      BY <2>2
    <3>4. v[n + 1] # u[n + 1]
      BY <1>1, <3>2, <3>3
    <3> QED
      BY <3>1, <3>4
  <2> HIDE DEF Q
  <2>3. \A n \in j..Len(s) : n \in Q
    BY <1>2, <2>1, <2>2, Stretch
  <2>4. Len(s) \in j..Len(s)
    BY <1>2
  <2> QED
    BY <2>3, <2>4 DEF Q
<1> QED
  BY <1>3, <1>4, <1>8

-----------------------------------------------------------------------------
(* Sums                                                                    *)

Add == [x \in Int \X Int |-> x[1] + x[2]]

LEMMA AddAdds == \A a, b \in Int : Add[<<a, b>>] = a + b
<1> SUFFICES ASSUME NEW a \in Int, NEW b \in Int PROVE Add[<<a, b>>] = a + b
  OBVIOUS
<1>1. <<a, b>> \in Int \X Int
  OBVIOUS
<1> QED
  BY <1>1 DEF Add

(* A sum's terms add up one by one.                                        *)
LEMMA TotalAdds ==
  ASSUME NEW t \in Seq(Int)
  PROVE  \E v : /\ v[0] = 0 /\ Total(t) = v[Len(t)]
                /\ \A n \in 0..Len(t) : v[n] \in Int
                /\ \A n \in 1..Len(t) : v[n] = v[n - 1] + t[n]
<1>1. Len(t) \in Nat
  OBVIOUS
<1> DEFINE step == Add
           start == 0
<1> HIDE DEF step, start
<1>2. PICK v : /\ v[0] = start
               /\ \A n \in 1..Len(t) : v[n] = step[<<v[n - 1], t[n]>>]
               /\ Accumulate(step, start, t) = v[Len(t)]
  BY <1>1, LoopRuns
<1> USE DEF step, start
<1>3. ASSUME NEW p \in Int, NEW d \in Int PROVE Add[<<p, d>>] \in Int
  <2>1. Add[<<p, d>>] = p + d
    BY AddAdds, Zenon
  <2> QED
    BY <2>1
<1>4. \A n \in 0..Len(t) : v[n] \in Int
  <2>1. 0 \in Int
    OBVIOUS
  <2> QED
    BY <1>2, <1>3, <2>1, LoopKeeps, Zenon
<1>5. ASSUME NEW n \in 1..Len(t) PROVE v[n] = v[n - 1] + t[n]
  <2>1. v[n - 1] \in Int /\ t[n] \in Int
    BY <1>4
  <2> QED
    BY <1>2, <2>1, AddAdds, Zenon
<1>6. Total(t) = v[Len(t)]
  BY <1>2 DEF Total, Add
<1> QED
  BY <1>2, <1>4, <1>5, <1>6

(* Two sums that differ in one term differ by what it differs by.          *)
LEMMA TotalChanges ==
  ASSUME NEW t \in Seq(Int), NEW u \in Seq(Int), Len(u) = Len(t), NEW i \in 1..Len(t),
         \A j \in 1..Len(t) : j # i => u[j] = t[j]
  PROVE  Total(t) \in Int /\ Total(u) = Total(t) + (u[i] - t[i])
<1>1. Len(t) \in Nat /\ i \in Nat /\ t[i] \in Int /\ u[i] \in Int
  OBVIOUS
<1>2. PICK v : /\ v[0] = 0 /\ Total(t) = v[Len(t)]
               /\ \A n \in 0..Len(t) : v[n] \in Int
               /\ \A n \in 1..Len(t) : v[n] = v[n - 1] + t[n]
  BY TotalAdds
<1>3. PICK w : /\ w[0] = 0 /\ Total(u) = w[Len(u)]
               /\ \A n \in 0..Len(u) : w[n] \in Int
               /\ \A n \in 1..Len(u) : w[n] = w[n - 1] + u[n]
  BY TotalAdds
<1> DEFINE Gap(n) == IF n < i THEN 0 ELSE u[i] - t[i]
           Q == {n \in 0..Len(t) : w[n] = v[n] + Gap(n)}
<1>4. 0 \in Q
  BY <1>1, <1>2, <1>3
<1>5. ASSUME NEW n \in 0..(Len(t) - 1), n \in Q PROVE n + 1 \in Q
  <2>1. n \in 0..Len(t) /\ n + 1 \in 1..Len(t) /\ (n + 1) - 1 = n /\ n + 1 \in 0..Len(t)
    OBVIOUS
  <2>2. /\ v[n + 1] = v[n] + t[n + 1] /\ w[n + 1] = w[n] + u[n + 1] /\ v[n] \in Int
        /\ t[n + 1] \in Int /\ u[n + 1] \in Int
    BY <1>2, <1>3, <2>1
  <2>3. w[n] = v[n] + Gap(n)
    BY <1>5
  <2>4. w[n + 1] = v[n + 1] + Gap(n + 1)
    <3>1. CASE n + 1 = i
      BY <1>1, <2>1, <2>2, <2>3, <3>1
    <3>2. CASE n + 1 # i
      <4>1. u[n + 1] = t[n + 1]
        BY <2>1, <3>2
      <4>2. Gap(n + 1) = Gap(n) /\ Gap(n) \in Int
        BY <1>1, <2>1, <3>2
      <4> HIDE DEF Gap
      <4> QED
        BY <2>2, <2>3, <4>1, <4>2
    <3> QED
      BY <3>1, <3>2
  <2> QED
    BY <2>1, <2>4
<1> HIDE DEF Q
<1>6. \A n \in 0..Len(t) : n \in Q
  BY <1>1, <1>4, <1>5, Stretch
<1>7. w[Len(t)] = v[Len(t)] + (u[i] - t[i])
  BY <1>1, <1>6 DEF Q
<1> QED
  BY <1>1, <1>2, <1>3, <1>7

-----------------------------------------------------------------------------
(* Remainders                                                              *)

Moduli == {10, 11, 23, 37, 89, 97}

(* A weight that no difference of two digits makes a multiple of m.        *)
Tells(k, m) == \A e \in -9..9 : e # 0 => (k * e) % m # 0

LEMMA SameRemainder ==
  ASSUME NEW m \in Moduli, NEW a \in Int, NEW b \in Int, a % m = b % m
  PROVE  (b - a) % m = 0
BY DEF Moduli

LEMMA TellsModulo11 == \A k \in -10..10 : k # 0 => Tells(k, 11)
<1> SUFFICES ASSUME NEW k \in -10..10, k # 0, NEW e \in -9..9, e # 0, (k * e) % 11 = 0
             PROVE  FALSE
  BY DEF Tells
<1> QED
  OBVIOUS

LEMMA TellsModulo23 == \A k \in -22..22 : k # 0 => Tells(k, 23)
<1> SUFFICES ASSUME NEW k \in -22..22, k # 0, NEW e \in -9..9, e # 0, (k * e) % 23 = 0
             PROVE  FALSE
  BY DEF Tells
<1> QED
  OBVIOUS

LEMMA TellsModulo37 == \A k \in -10..10 : k # 0 => Tells(k, 37)
<1> SUFFICES ASSUME NEW k \in -10..10, k # 0, NEW e \in -9..9, e # 0, (k * e) % 37 = 0
             PROVE  FALSE
  BY DEF Tells
<1> QED
  OBVIOUS

LEMMA TellsModulo89 == \A k \in 1..19 : Tells(k, 89)
<1> SUFFICES ASSUME NEW k \in 1..19, NEW e \in -9..9, e # 0, (k * e) % 89 = 0
             PROVE  FALSE
  BY DEF Tells
<1> QED
  OBVIOUS

LEMMA TellsModulo10 == \A k \in {1, 3, 7, 9} : Tells(k, 10)
<1> SUFFICES ASSUME NEW k \in {1, 3, 7, 9}, NEW e \in -9..9, e # 0, (k * e) % 10 = 0
             PROVE  FALSE
  BY DEF Tells
<1> QED
  OBVIOUS

-----------------------------------------------------------------------------
(* Numbers with an error                                                   *)

Characters == 0..35

LEMMA CharactersAreNumbers ==
  (\A c \in Characters : c \in Int) /\ (\A c \in Digit : c \in Characters)
BY DEF Characters, Digit

LEMMA Differences ==
  \A a, b \in Digit : a - b \in -9..9 /\ a - b \in Int /\ (a # b => a - b # 0)
<1>1. \A a, b \in Digit : a - b \in -9..9
  BY DEF Digit
<1>2. \A a, b \in Digit : a - b \in Int
  BY DEF Digit
<1>3. \A a, b \in Digit : a # b => a - b # 0
  BY DEF Digit
<1> QED
  BY <1>1, <1>2, <1>3, Zenon

(* t is s with the character at i misread for another of its sort.         *)
Misread(s, t, i) ==
  /\ s \in Seq(Characters) /\ t \in Seq(Characters) /\ Len(t) = Len(s)
  /\ i \in 1..Len(s) /\ s[i] # t[i] /\ (s[i] \in Digit <=> t[i] \in Digit)
  /\ \A j \in 1..Len(s) : j # i => t[j] = s[j]

(* t is s with the digits at i and i + 1 in the wrong order.               *)
Swapped(s, t, i) ==
  /\ s \in Seq(Characters) /\ t \in Seq(Characters) /\ Len(t) = Len(s)
  /\ i \in 1..(Len(s) - 1) /\ s[i] # s[i + 1]
  /\ s[i] \in Digit /\ s[i + 1] \in Digit /\ t[i] = s[i + 1] /\ t[i + 1] = s[i]
  /\ \A j \in 1..Len(s) : j # i /\ j # i + 1 => t[j] = s[j]

(* A number with two digits swapped is one with one of them misread, with  *)
(* the other one misread.                                                  *)
LEMMA SwappedIsMisreadTwice ==
  ASSUME NEW s, NEW t, NEW i, Swapped(s, t, i)
  PROVE  \E r : Misread(s, r, i) /\ Misread(r, t, i + 1) /\ r[i] = s[i + 1] /\ r[i + 1] = s[i + 1]
<1> DEFINE r == [s EXCEPT ![i] = s[i + 1]]
<1>1. /\ s \in Seq(Characters) /\ t \in Seq(Characters) /\ Len(t) = Len(s) /\ Len(s) \in Nat
      /\ i \in Nat /\ i \in 1..Len(s) /\ i + 1 \in 1..Len(s)
      /\ \A j \in 1..Len(s) : j # i /\ j # i + 1 => t[j] = s[j]
      /\ s[i] # s[i + 1] /\ s[i] \in Digit /\ s[i + 1] \in Digit
      /\ t[i] = s[i + 1] /\ t[i + 1] = s[i]
  BY DEF Swapped
<1>2. r \in Seq(Characters) /\ Len(r) = Len(s)
  BY <1>1
<1>3. r[i] = s[i + 1] /\ \A j \in 1..Len(s) : j # i => r[j] = s[j]
  BY <1>1
<1> HIDE DEF r
<1>4. r[i + 1] = s[i + 1]
  BY <1>1, <1>3
<1>5. Misread(s, r, i)
  BY <1>1, <1>2, <1>3 DEF Misread
<1>6. Misread(r, t, i + 1)
  BY <1>1, <1>2, <1>3, <1>4 DEF Misread
<1> QED
  BY <1>3, <1>4, <1>5, <1>6

-----------------------------------------------------------------------------
(* Weighted sums                                                           *)

LEMMA Products ==
  \A x, y, z \in Int : x * y \in Int /\ x * y - x * z = x * (y - z)
OBVIOUS

LEMMA TermsAre ==
  ASSUME NEW w \in Seq(Int), NEW s \in Seq(Characters), Len(w) <= Len(s)
  PROVE  LET t == [i \in DOMAIN w |-> w[i] * s[i]]
         IN  t \in Seq(Int) /\ Len(t) = Len(w) /\ \A i \in 1..Len(w) : t[i] = w[i] * s[i]
<1> DEFINE t == [i \in DOMAIN w |-> w[i] * s[i]]
<1>1. DOMAIN w = 1..Len(w) /\ Len(w) \in Nat /\ Len(s) \in Nat
  OBVIOUS
<1>2. \A i \in 1..Len(w) : w[i] \in Int /\ s[i] \in Characters
  BY <1>1
<1>3. ASSUME NEW i \in 1..Len(w) PROVE w[i] * s[i] \in Int
  <2>1. w[i] \in Int /\ s[i] \in Int
    BY <1>2, CharactersAreNumbers, Zenon
  <2> QED
    BY <2>1, Products
<1>4. t \in [1..Len(w) -> Int]
  BY <1>1, <1>3
<1> QED
  BY <1>1, <1>4

LEMMA WeightedIsInt ==
  ASSUME NEW w \in Seq(Int), NEW s \in Seq(Characters), Len(w) <= Len(s)
  PROVE  Weighted(w, s) \in Int
<1> DEFINE t == [i \in DOMAIN w |-> w[i] * s[i]]
<1>1. t \in Seq(Int)
  BY TermsAre
<1> HIDE DEF t
<1>2. PICK v : Total(t) = v[Len(t)] /\ \A n \in 0..Len(t) : v[n] \in Int
  BY <1>1, TotalAdds
<1>3. Len(t) \in 0..Len(t)
  BY <1>1
<1> QED
  BY <1>2, <1>3 DEF Weighted, t

(* A misread character changes the sum by its weight times the difference. *)
LEMMA WeightedChanges ==
  ASSUME NEW w \in Seq(Int), NEW s, NEW t, NEW i, Misread(s, t, i), Len(w) <= Len(s)
  PROVE  /\ Weighted(w, s) \in Int
         /\ i > Len(w) => Weighted(w, t) = Weighted(w, s)
         /\ i <= Len(w) => Weighted(w, t) = Weighted(w, s) + w[i] * (t[i] - s[i])
<1> DEFINE a == [j \in DOMAIN w |-> w[j] * s[j]]
           b == [j \in DOMAIN w |-> w[j] * t[j]]
<1>1. /\ s \in Seq(Characters) /\ t \in Seq(Characters) /\ Len(t) = Len(s) /\ i \in 1..Len(s)
      /\ \A j \in 1..Len(s) : j # i => t[j] = s[j]
      /\ Len(w) \in Nat /\ Len(s) \in Nat /\ Len(w) <= Len(t) /\ DOMAIN w = 1..Len(w)
  BY DEF Misread
<1>2. Weighted(w, s) \in Int
  BY <1>1, WeightedIsInt
<1>3. CASE i > Len(w)
  <2>1. \A j \in DOMAIN w : t[j] = s[j]
    BY <1>1, <1>3
  <2>2. a = b
    BY <2>1
  <2>3. Weighted(w, t) = Weighted(w, s)
    BY <2>2 DEF Weighted
  <2> QED
    BY <1>1, <1>2, <1>3, <2>3
<1>4. CASE i <= Len(w)
  <2>1. /\ a \in Seq(Int) /\ Len(a) = Len(w) /\ \A j \in 1..Len(w) : a[j] = w[j] * s[j]
        /\ b \in Seq(Int) /\ Len(b) = Len(w) /\ \A j \in 1..Len(w) : b[j] = w[j] * t[j]
    BY <1>1, TermsAre
  <2>2. Weighted(w, s) = Total(a) /\ Weighted(w, t) = Total(b)
    BY DEF Weighted
  <2> HIDE DEF a, b
  <2>3. i \in 1..Len(a) /\ i \in 1..Len(w)
    BY <1>1, <1>4, <2>1
  <2>4. ASSUME NEW j \in 1..Len(a), j # i PROVE b[j] = a[j]
    <3>1. j \in 1..Len(w) /\ j \in 1..Len(s)
      BY <1>1, <2>1
    <3>2. t[j] = s[j] /\ a[j] = w[j] * s[j] /\ b[j] = w[j] * t[j]
      BY <1>1, <2>1, <2>4, <3>1, Zenon
    <3> QED
      BY <3>2, Zenon
  <2>5. Total(b) = Total(a) + (b[i] - a[i])
    BY <2>1, <2>3, <2>4, TotalChanges
  <2>6. w[i] \in Int /\ s[i] \in Int /\ t[i] \in Int
    <3>1. s[i] \in Characters /\ t[i] \in Characters /\ w[i] \in Int
      BY <1>1, <2>3
    <3> QED
      BY <3>1, CharactersAreNumbers, Zenon
  <2>7. b[i] - a[i] = w[i] * (t[i] - s[i])
    <3>1. w[i] * t[i] - w[i] * s[i] = w[i] * (t[i] - s[i])
      BY <2>6, Products
    <3>2. a[i] = w[i] * s[i] /\ b[i] = w[i] * t[i]
      BY <2>1, <2>3, Zenon
    <3> QED
      BY <3>1, <3>2
  <2> QED
    BY <1>1, <1>2, <1>4, <2>2, <2>5, <2>7
<1> QED
  BY <1>1, <1>3, <1>4

LEMMA MisreadShows ==
  ASSUME NEW m \in Moduli, NEW w \in Seq(Int), NEW s, NEW t, NEW i, Misread(s, t, i),
         Len(w) <= Len(s), i <= Len(w), s[i] \in Digit, Tells(w[i], m)
  PROVE  Weighted(w, s) % m # Weighted(w, t) % m
<1>1. /\ Weighted(w, s) \in Int
      /\ Weighted(w, t) = Weighted(w, s) + w[i] * (t[i] - s[i])
  BY WeightedChanges
<1>2. i \in 1..Len(w) /\ w[i] \in Int /\ s[i] \in Digit /\ t[i] \in Digit /\ s[i] # t[i]
  BY DEF Misread
<1>3. t[i] - s[i] \in -9..9 /\ t[i] - s[i] # 0
  BY <1>2, Differences, Zenon
<1>4. (w[i] * (t[i] - s[i])) % m # 0
  BY <1>3, Zenon DEF Tells
<1> DEFINE d == w[i] * (t[i] - s[i])
<1>5. d \in Int
  <2>1. t[i] - s[i] \in Int
    BY <1>2, Differences, Zenon
  <2> QED
    BY <1>2, <2>1, Products
<1> HIDE DEF d
<1>6. Weighted(w, t) = Weighted(w, s) + d /\ d % m # 0
  BY <1>1, <1>4 DEF d
<1>7. Weighted(w, t) \in Int /\ Weighted(w, t) - Weighted(w, s) = d
  BY <1>1, <1>5, <1>6
<1> QED
  BY <1>1, <1>6, <1>7, SameRemainder

LEMMA SwapChanges ==
  ASSUME NEW w \in Seq(Int), NEW s, NEW t, NEW i, Swapped(s, t, i), Len(w) <= Len(s),
         i + 1 <= Len(w)
  PROVE  /\ Weighted(w, s) \in Int
         /\ Weighted(w, t) = Weighted(w, s) + (w[i] - w[i + 1]) * (s[i + 1] - s[i])
<1>1. PICK r : Misread(s, r, i) /\ Misread(r, t, i + 1) /\ r[i] = s[i + 1] /\ r[i + 1] = s[i + 1]
  BY SwappedIsMisreadTwice
<1>2. /\ i \in 1..Len(w) /\ i + 1 \in 1..Len(w) /\ t[i + 1] = s[i] /\ Len(r) = Len(s)
      /\ s[i] \in Digit /\ s[i + 1] \in Digit
  BY <1>1 DEF Swapped, Misread
<1>3. /\ Weighted(w, s) \in Int
      /\ Weighted(w, r) = Weighted(w, s) + w[i] * (s[i + 1] - s[i])
  BY <1>1, <1>2, WeightedChanges
<1>4. Weighted(w, t) = Weighted(w, r) + w[i + 1] * (s[i] - s[i + 1])
  BY <1>1, <1>2, WeightedChanges
<1> DEFINE x == w[i]
           y == w[i + 1]
           a == s[i]
           b == s[i + 1]
<1>5. x \in Int /\ y \in Int /\ a \in Int /\ b \in Int
  <2>1. a \in Int /\ b \in Int
    BY <1>2, CharactersAreNumbers, Zenon
  <2> QED
    BY <1>2, <2>1
<1>6. Weighted(w, t) = (Weighted(w, s) + x * (b - a)) + y * (a - b)
  BY <1>3, <1>4
<1> SUFFICES Weighted(w, t) = Weighted(w, s) + (x - y) * (b - a)
  BY <1>3
<1> HIDE DEF x, y, a, b
<1> QED
  BY <1>3, <1>5, <1>6

LEMMA SwapShows ==
  ASSUME NEW m \in Moduli, NEW w \in Seq(Int), NEW s, NEW t, NEW i, Swapped(s, t, i),
         Len(w) <= Len(s), i + 1 <= Len(w), Tells(w[i] - w[i + 1], m)
  PROVE  Weighted(w, s) % m # Weighted(w, t) % m
<1>1. /\ Weighted(w, s) \in Int
      /\ Weighted(w, t) = Weighted(w, s) + (w[i] - w[i + 1]) * (s[i + 1] - s[i])
  BY SwapChanges
<1>2. /\ i \in 1..Len(w) /\ i + 1 \in 1..Len(w) /\ w[i] \in Int /\ w[i + 1] \in Int
      /\ s[i] \in Digit /\ s[i + 1] \in Digit /\ s[i] # s[i + 1]
  BY DEF Swapped
<1>3. s[i + 1] - s[i] \in -9..9 /\ s[i + 1] - s[i] # 0
  BY <1>2, Differences, Zenon
<1>4. ((w[i] - w[i + 1]) * (s[i + 1] - s[i])) % m # 0
  BY <1>3, Zenon DEF Tells
<1> DEFINE d == (w[i] - w[i + 1]) * (s[i + 1] - s[i])
<1>5. d \in Int
  <2>1. s[i + 1] - s[i] \in Int
    BY <1>2, Differences, Zenon
  <2>2. w[i] - w[i + 1] \in Int
    BY <1>2
  <2> QED
    BY <2>1, <2>2, Products
<1> HIDE DEF d
<1>6. Weighted(w, t) = Weighted(w, s) + d /\ d % m # 0
  BY <1>1, <1>4 DEF d
<1>7. Weighted(w, t) \in Int /\ Weighted(w, t) - Weighted(w, s) = d
  BY <1>1, <1>5, <1>6
<1> QED
  BY <1>1, <1>6, <1>7, SameRemainder

(* One more term, and the sum grows by it.                                 *)
LEMMA TotalGrows ==
  ASSUME NEW t \in Seq(Int), NEW u \in Seq(Int), Len(u) = Len(t) + 1,
         \A j \in 1..Len(t) : u[j] = t[j]
  PROVE  Total(t) \in Int /\ Total(u) = Total(t) + u[Len(u)]
<1>1. Len(t) \in Nat /\ Len(u) \in 1..Len(u)
  OBVIOUS
<1>2. PICK v : /\ v[0] = 0 /\ Total(t) = v[Len(t)]
               /\ \A n \in 0..Len(t) : v[n] \in Int
               /\ \A n \in 1..Len(t) : v[n] = v[n - 1] + t[n]
  BY TotalAdds
<1>3. PICK w : /\ w[0] = 0 /\ Total(u) = w[Len(u)]
               /\ \A n \in 0..Len(u) : w[n] \in Int
               /\ \A n \in 1..Len(u) : w[n] = w[n - 1] + u[n]
  BY TotalAdds
<1> DEFINE Q == {n \in 0..Len(t) : w[n] = v[n]}
<1>4. 0 \in Q
  BY <1>1, <1>2, <1>3
<1>5. ASSUME NEW n \in 0..(Len(t) - 1), n \in Q PROVE n + 1 \in Q
  <2>1. n + 1 \in 1..Len(t) /\ n + 1 \in 1..Len(u) /\ (n + 1) - 1 = n /\ n + 1 \in 0..Len(t)
    OBVIOUS
  <2>2. v[n + 1] = v[n] + t[n + 1] /\ w[n + 1] = w[n] + u[n + 1] /\ u[n + 1] = t[n + 1]
    BY <1>2, <1>3, <2>1
  <2> QED
    BY <1>5, <2>1, <2>2
<1> HIDE DEF Q
<1>6. \A n \in 0..Len(t) : n \in Q
  BY <1>1, <1>4, <1>5, Stretch
<1>7. w[Len(t)] = v[Len(t)] /\ v[Len(t)] \in Int
  BY <1>1, <1>2, <1>6 DEF Q
<1>8. w[Len(u)] = w[Len(t)] + u[Len(u)]
  BY <1>1, <1>3
<1> QED
  BY <1>2, <1>3, <1>7, <1>8

LEMMA WeightedGrows ==
  ASSUME NEW w \in Seq(Int), NEW x \in Seq(Int), Len(x) = Len(w) + 1,
         \A j \in 1..Len(w) : x[j] = w[j], NEW s \in Seq(Characters), Len(x) <= Len(s)
  PROVE  Weighted(w, s) \in Int /\ Weighted(x, s) = Weighted(w, s) + x[Len(x)] * s[Len(x)]
<1> DEFINE a == [j \in DOMAIN w |-> w[j] * s[j]]
           b == [j \in DOMAIN x |-> x[j] * s[j]]
<1>1. Len(w) \in Nat /\ Len(x) \in 1..Len(x) /\ Len(w) <= Len(s)
  OBVIOUS
<1>2. /\ a \in Seq(Int) /\ Len(a) = Len(w) /\ \A j \in 1..Len(w) : a[j] = w[j] * s[j]
      /\ b \in Seq(Int) /\ Len(b) = Len(x) /\ \A j \in 1..Len(x) : b[j] = x[j] * s[j]
  BY <1>1, TermsAre
<1>3. Weighted(w, s) = Total(a) /\ Weighted(x, s) = Total(b)
  BY DEF Weighted
<1> HIDE DEF a, b
<1>4. ASSUME NEW j \in 1..Len(a) PROVE b[j] = a[j]
  <2>1. j \in 1..Len(w) /\ j \in 1..Len(x)
    BY <1>1, <1>2
  <2>2. a[j] = w[j] * s[j] /\ b[j] = x[j] * s[j] /\ x[j] = w[j]
    BY <1>2, <2>1, Zenon
  <2> QED
    BY <2>2, Zenon
<1>5. Total(a) \in Int /\ Total(b) = Total(a) + b[Len(b)]
  BY <1>2, <1>4, TotalGrows
<1>6. b[Len(b)] = x[Len(x)] * s[Len(x)]
  BY <1>1, <1>2, Zenon
<1> QED
  BY <1>3, <1>5, <1>6

-----------------------------------------------------------------------------
(* What the algorithms notice                                              *)

Digits(s) == s \in Seq(Characters) /\ \A j \in 1..Len(s) : s[j] \in Digit

(* A number with an error that its neighbours do not hide.                 *)
Wrong(s, t) == \E i : Misread(s, t, i) \/ Swapped(s, t, i)

(* All that is asked of a row of weights.                                  *)
TellsDigits(x, m) == \A j \in 1..Len(x) : Tells(x[j], m)
TellsNeighbours(x, m) == \A j \in 1..(Len(x) - 1) : Tells(x[j] - x[j + 1], m)

LEMMA SumNotices ==
  ASSUME NEW m \in Moduli, NEW x \in Seq(Int), NEW s, NEW t, NEW i, Misread(s, t, i),
         Digits(s), Len(x) <= Len(s), i <= Len(x), TellsDigits(x, m)
  PROVE  Weighted(x, s) % m # Weighted(x, t) % m
<1>1. i \in 1..Len(x) /\ i \in 1..Len(s)
  BY DEF Misread
<1>2. s[i] \in Digit /\ Tells(x[i], m)
  BY <1>1, Zenon DEF Digits, TellsDigits
<1> QED
  BY <1>2, MisreadShows

LEMMA SumNoticesAll ==
  ASSUME NEW m \in Moduli, NEW x \in Seq(Int), NEW s, NEW t, Wrong(s, t),
         Digits(s), Len(x) = Len(s), TellsDigits(x, m), TellsNeighbours(x, m)
  PROVE  Weighted(x, s) % m # Weighted(x, t) % m
<1>1. PICK i : Misread(s, t, i) \/ Swapped(s, t, i)
  BY DEF Wrong
<1>2. CASE Misread(s, t, i)
  <2>1. i <= Len(x) /\ Len(x) <= Len(s)
    BY <1>2 DEF Misread
  <2> QED
    BY <1>2, <2>1, SumNotices
<1>3. CASE Swapped(s, t, i)
  <2>1. i + 1 <= Len(x) /\ i \in 1..(Len(x) - 1) /\ Len(x) <= Len(s)
    BY <1>3 DEF Swapped
  <2>2. Tells(x[i] - x[i + 1], m)
    BY <2>1, Zenon DEF TellsNeighbours
  <2> QED
    BY <1>3, <2>1, <2>2, SwapShows
<1> QED
  BY <1>1, <1>2, <1>3

LEMMA HasDigitsIs ==
  ASSUME NEW s \in Seq(Characters), NEW n, HasDigits(s, n)
  PROVE  /\ Digits(s) /\ Len(s) = n
         /\ \A j \in 1..n : s[j] \in Digit /\ s[j] \in Int
<1>1. \A j \in 1..Len(s) : s[j] \in Digit
  BY DEF HasDigits, allDigits
<1>2. Len(s) = n
  BY DEF HasDigits
<1>3. \A j \in 1..n : s[j] \in Digit /\ s[j] \in Int
  BY <1>1, <1>2, CharactersAreNumbers, Zenon
<1> QED
  BY <1>1, <1>2, <1>3 DEF Digits

(* A row of weights, and the same with the control's weight behind it.     *)
Extends(x, w, n) ==
  /\ w \in Seq(Int) /\ x \in Seq(Int) /\ Len(w) = n - 1 /\ Len(x) = n /\ n \in Nat
  /\ \A j \in 1..(n - 1) : x[j] = w[j]

LEMMA Balance ==
  ASSUME NEW s \in Seq(Characters), NEW n, NEW w, NEW x, Extends(x, w, n), HasDigits(s, n)
  PROVE  /\ Weighted(w, s) \in Int /\ s[n] \in Digit /\ s[n] \in Int
         /\ Weighted(x, s) = Weighted(w, s) + x[n] * s[n]
<1>1. Len(s) = n /\ n \in 1..n
  BY HasDigitsIs DEF Extends
<1>2. s[n] \in Digit /\ s[n] \in Int
  BY <1>1, HasDigitsIs, Zenon
<1>3. Len(x) = Len(w) + 1 /\ Len(x) <= Len(s) /\ \A j \in 1..Len(w) : x[j] = w[j]
  BY <1>1 DEF Extends
<1>4. w \in Seq(Int) /\ x \in Seq(Int) /\ Len(x) = n
  BY DEF Extends
<1>5. Weighted(w, s) \in Int /\ Weighted(x, s) = Weighted(w, s) + x[Len(x)] * s[Len(x)]
  BY <1>3, <1>4, WeightedGrows
<1> QED
  BY <1>2, <1>4, <1>5, Zenon

(* Rows whose weights, and the differences of whose neighbours, are small. *)
LEMMA RowTells11 ==
  ASSUME NEW x \in Seq(Int), \A j \in 1..Len(x) : x[j] \in -10..10 /\ x[j] # 0
  PROVE  TellsDigits(x, 11)
BY TellsModulo11, Zenon DEF TellsDigits

LEMMA RowTellsNeighbours11 ==
  ASSUME NEW x \in Seq(Int),
         \A j \in 1..(Len(x) - 1) : x[j] - x[j + 1] \in -10..10 /\ x[j] - x[j + 1] # 0
  PROVE  TellsNeighbours(x, 11)
BY TellsModulo11, Zenon DEF TellsNeighbours

LEMMA RowTells37 ==
  ASSUME NEW x \in Seq(Int), \A j \in 1..Len(x) : x[j] \in -10..10 /\ x[j] # 0
  PROVE  TellsDigits(x, 37)
BY TellsModulo37, Zenon DEF TellsDigits

LEMMA RowTellsNeighbours37 ==
  ASSUME NEW x \in Seq(Int),
         \A j \in 1..(Len(x) - 1) : x[j] - x[j + 1] \in -10..10 /\ x[j] - x[j + 1] # 0
  PROVE  TellsNeighbours(x, 37)
BY TellsModulo37, Zenon DEF TellsNeighbours

LEMMA RowTells89 ==
  ASSUME NEW x \in Seq(Int), \A j \in 1..Len(x) : x[j] \in 1..19
  PROVE  TellsDigits(x, 89)
BY TellsModulo89, Zenon DEF TellsDigits

LEMMA RowTells10 ==
  ASSUME NEW x \in Seq(Int), \A j \in 1..Len(x) : x[j] \in {1, 3, 7, 9}
  PROVE  TellsDigits(x, 10)
BY TellsModulo10, Zenon DEF TellsDigits

LEMMA TheModuli == {10, 11, 23, 37, 89, 97} \subseteq Moduli
BY DEF Moduli

LEMMA WrongIs ==
  ASSUME NEW s, NEW t, Wrong(s, t)
  PROVE  s \in Seq(Characters) /\ t \in Seq(Characters) /\ Len(t) = Len(s)
BY DEF Wrong, Misread, Swapped

LEMMA ControlIsRemainder ==
  \A a \in Int, b \in Digit : a % 11 = b => (a + (-1) * b) % 11 = 0
BY DEF Digit

LEMMA ControlCompletesTen ==
  \A a \in Int, b \in Digit : (10 - (a % 10)) % 10 = b => (a + 1 * b) % 10 = 0
BY DEF Digit

LEMMA ControlCompletesEleven ==
  /\ \A a \in Int, b \in Digit :
       11 - (a % 11) # 10 /\ b = (IF 11 - (a % 11) = 11 THEN 0 ELSE 11 - (a % 11))
         => (a + 1 * b) % 11 = 0
  /\ \A a \in Int, b \in Digit :
       a % 11 # 1 /\ b = (IF a % 11 = 0 THEN 0 ELSE 11 - (a % 11)) => (a + 1 * b) % 11 = 0
BY DEF Digit

(* A number is noticed to be wrong: it and the right one cannot both have  *)
(* a sum of remainder r.                                                   *)
LEMMA RowNotices ==
  ASSUME NEW m \in Moduli, NEW x \in Seq(Int), NEW r, NEW s, NEW t, Wrong(s, t),
         TellsDigits(x, m), TellsNeighbours(x, m),
         Digits(s), Len(s) = Len(x), Weighted(x, s) % m = r, Weighted(x, t) % m = r
  PROVE  FALSE
BY SumNoticesAll

LEMMA RowNoticesMisread ==
  ASSUME NEW m \in Moduli, NEW x \in Seq(Int), NEW r, NEW s, NEW t, NEW i, Misread(s, t, i),
         TellsDigits(x, m),
         Digits(s), Len(s) = Len(x), Weighted(x, s) % m = r, Weighted(x, t) % m = r
  PROVE  FALSE
<1>1. i <= Len(x) /\ Len(x) <= Len(s)
  BY DEF Misread
<1> QED
  BY <1>1, SumNotices

LEMMA PLNotices ==
  ASSUME NEW s, NEW t, Wrong(s, t), plVATValid(s), plVATValid(t)
  PROVE  FALSE
<1> DEFINE w == <<6, 5, 7, 2, 3, 4, 5, 6, 7>>
           x == <<6, 5, 7, 2, 3, 4, 5, 6, 7, -1>>
<1>1. Extends(x, w, 10) /\ Len(x) = 10 /\ x \in Seq(Int) /\ x[10] = -1
  BY DEF Extends
<1>2. \A j \in 1..10 : x[j] \in -10..10 /\ x[j] # 0
  OBVIOUS
<1>3. \A j \in 1..(10 - 1) : x[j] - x[j + 1] \in -10..10 /\ x[j] - x[j + 1] # 0
  OBVIOUS
<1>4. ASSUME NEW u \in Seq(Characters), plVATValid(u)
      PROVE  Digits(u) /\ Len(u) = 10 /\ Weighted(x, u) % 11 = 0
  <2>1. HasDigits(u, 10) /\ Weighted(w, u) % 11 = u[10]
    BY <1>4 DEF plVATValid
  <2> HIDE DEF w, x
  <2>2. Digits(u) /\ Len(u) = 10
    BY <2>1, HasDigitsIs
  <2>3. /\ Weighted(w, u) \in Int /\ u[10] \in Digit
        /\ Weighted(x, u) = Weighted(w, u) + (-1) * u[10]
    BY <1>1, <2>1, Balance
  <2> QED
    BY <2>1, <2>2, <2>3, ControlIsRemainder, Zenon
<1> HIDE DEF w, x
<1>5. TellsDigits(x, 11)
  BY <1>1, <1>2, RowTells11
<1>6. TellsNeighbours(x, 11)
  BY <1>1, <1>3, RowTellsNeighbours11
<1> QED
  BY <1>1, <1>4, <1>5, <1>6, TheModuli, WrongIs, RowNotices

LEMMA MisreadIs ==
  ASSUME NEW s, NEW t, NEW i, Misread(s, t, i)
  PROVE  s \in Seq(Characters) /\ t \in Seq(Characters) /\ Len(t) = Len(s)
BY DEF Misread

LEMMA NLNotices ==
  ASSUME NEW s, NEW t, Wrong(s, t), nlVATValid(s), nlVATValid(t)
  PROVE  FALSE
<1> DEFINE w == <<9, 8, 7, 6, 5, 4, 3, 2>>
           x == <<9, 8, 7, 6, 5, 4, 3, 2, -1>>
<1>1. Extends(x, w, 9) /\ Len(x) = 9 /\ x \in Seq(Int) /\ x[9] = -1
  BY DEF Extends
<1>2. \A j \in 1..9 : x[j] \in -10..10 /\ x[j] # 0
  OBVIOUS
<1>3. \A j \in 1..(9 - 1) : x[j] - x[j + 1] \in -10..10 /\ x[j] - x[j + 1] # 0
  OBVIOUS
<1>4. ASSUME NEW u \in Seq(Characters), nlVATValid(u)
      PROVE  Digits(u) /\ Len(u) = 9 /\ Weighted(x, u) % 11 = 0
  <2>1. HasDigits(u, 9)
    BY <1>4 DEF nlVATValid
  <2>2. Weighted(w, u) % 11 = u[9]
    BY <1>4 DEF nlVATValid, NLCheck
  <2> HIDE DEF w, x
  <2>3. Digits(u) /\ Len(u) = 9
    BY <2>1, HasDigitsIs
  <2>4. /\ Weighted(w, u) \in Int /\ u[9] \in Digit
        /\ Weighted(x, u) = Weighted(w, u) + (-1) * u[9]
    BY <1>1, <2>1, Balance
  <2> QED
    BY <2>2, <2>3, <2>4, ControlIsRemainder, Zenon
<1> HIDE DEF w, x
<1>5. TellsDigits(x, 11)
  BY <1>1, <1>2, RowTells11
<1>6. TellsNeighbours(x, 11)
  BY <1>1, <1>3, RowTellsNeighbours11
<1> QED
  BY <1>1, <1>4, <1>5, <1>6, TheModuli, WrongIs, RowNotices

LEMMA CHNotices ==
  ASSUME NEW s, NEW t, Wrong(s, t), chUIDValid(s), chUIDValid(t)
  PROVE  FALSE
<1> DEFINE w == <<5, 4, 3, 2, 7, 6, 5, 4>>
           x == <<5, 4, 3, 2, 7, 6, 5, 4, 1>>
<1>1. Extends(x, w, 9) /\ Len(x) = 9 /\ x \in Seq(Int) /\ x[9] = 1
  BY DEF Extends
<1>2. \A j \in 1..9 : x[j] \in -10..10 /\ x[j] # 0
  OBVIOUS
<1>3. \A j \in 1..(9 - 1) : x[j] - x[j + 1] \in -10..10 /\ x[j] - x[j + 1] # 0
  OBVIOUS
<1>4. ASSUME NEW u \in Seq(Characters), chUIDValid(u)
      PROVE  Digits(u) /\ Len(u) = 9 /\ Weighted(x, u) % 11 = 0
  <2>1. HasDigits(u, 9)
    BY <1>4 DEF chUIDValid
  <2>2. /\ 11 - (Weighted(w, u) % 11) # 10
        /\ u[9] = IF 11 - (Weighted(w, u) % 11) = 11 THEN 0 ELSE 11 - (Weighted(w, u) % 11)
    BY <1>4 DEF chUIDValid
  <2> HIDE DEF w, x
  <2>3. Digits(u) /\ Len(u) = 9
    BY <2>1, HasDigitsIs
  <2>4. /\ Weighted(w, u) \in Int /\ u[9] \in Digit
        /\ Weighted(x, u) = Weighted(w, u) + 1 * u[9]
    BY <1>1, <2>1, Balance
  <2> QED
    BY <2>2, <2>3, <2>4, ControlCompletesEleven, Zenon
<1> HIDE DEF w, x
<1>5. TellsDigits(x, 11)
  BY <1>1, <1>2, RowTells11
<1>6. TellsNeighbours(x, 11)
  BY <1>1, <1>3, RowTellsNeighbours11
<1> QED
  BY <1>1, <1>4, <1>5, <1>6, TheModuli, WrongIs, RowNotices

LEMMA NONotices ==
  ASSUME NEW s, NEW t, Wrong(s, t), norwayOrgNrValid(s), norwayOrgNrValid(t)
  PROVE  FALSE
<1> DEFINE w == <<3, 2, 7, 6, 5, 4, 3, 2>>
           x == <<3, 2, 7, 6, 5, 4, 3, 2, 1>>
<1>1. Extends(x, w, 9) /\ Len(x) = 9 /\ x \in Seq(Int) /\ x[9] = 1
  BY DEF Extends
<1>2. \A j \in 1..9 : x[j] \in -10..10 /\ x[j] # 0
  OBVIOUS
<1>3. \A j \in 1..(9 - 1) : x[j] - x[j + 1] \in -10..10 /\ x[j] - x[j + 1] # 0
  OBVIOUS
<1>4. ASSUME NEW u \in Seq(Characters), norwayOrgNrValid(u)
      PROVE  Digits(u) /\ Len(u) = 9 /\ Weighted(x, u) % 11 = 0
  <2>1. HasDigits(u, 9)
    BY <1>4 DEF norwayOrgNrValid
  <2>2. /\ Weighted(w, u) % 11 # 1
        /\ u[9] = IF Weighted(w, u) % 11 = 0 THEN 0 ELSE 11 - (Weighted(w, u) % 11)
    BY <1>4 DEF norwayOrgNrValid
  <2> HIDE DEF w, x
  <2>3. Digits(u) /\ Len(u) = 9
    BY <2>1, HasDigitsIs
  <2>4. /\ Weighted(w, u) \in Int /\ u[9] \in Digit
        /\ Weighted(x, u) = Weighted(w, u) + 1 * u[9]
    BY <1>1, <2>1, Balance
  <2> QED
    BY <2>2, <2>3, <2>4, ControlCompletesEleven, Zenon
<1> HIDE DEF w, x
<1>5. TellsDigits(x, 11)
  BY <1>1, <1>2, RowTells11
<1>6. TellsNeighbours(x, 11)
  BY <1>1, <1>3, RowTellsNeighbours11
<1> QED
  BY <1>1, <1>4, <1>5, <1>6, TheModuli, WrongIs, RowNotices

LEMMA EENotices ==
  ASSUME NEW s, NEW t, NEW i, Misread(s, t, i), eeVATValid(s), eeVATValid(t)
  PROVE  FALSE
<1> DEFINE w == <<3, 7, 1, 3, 7, 1, 3, 7>>
           x == <<3, 7, 1, 3, 7, 1, 3, 7, 1>>
<1>1. Extends(x, w, 9) /\ Len(x) = 9 /\ x \in Seq(Int) /\ x[9] = 1
  BY DEF Extends
<1>2. \A j \in 1..9 : x[j] \in {1, 3, 7, 9}
  OBVIOUS
<1>3. ASSUME NEW u \in Seq(Characters), eeVATValid(u)
      PROVE  Digits(u) /\ Len(u) = 9 /\ Weighted(x, u) % 10 = 0
  <2>1. HasDigits(u, 9)
    BY <1>3 DEF eeVATValid
  <2>2. (10 - (Weighted(w, u) % 10)) % 10 = u[9]
    BY <1>3 DEF eeVATValid
  <2> HIDE DEF w, x
  <2>3. Digits(u) /\ Len(u) = 9
    BY <2>1, HasDigitsIs
  <2>4. /\ Weighted(w, u) \in Int /\ u[9] \in Digit
        /\ Weighted(x, u) = Weighted(w, u) + 1 * u[9]
    BY <1>1, <2>1, Balance
  <2> QED
    BY <2>2, <2>3, <2>4, ControlCompletesTen, Zenon
<1> HIDE DEF w, x
<1>4. TellsDigits(x, 10)
  BY <1>1, <1>2, RowTells10
<1> QED
  BY <1>1, <1>3, <1>4, TheModuli, MisreadIs, RowNoticesMisread

LEMMA HUNotices ==
  ASSUME NEW s, NEW t, NEW i, Misread(s, t, i), huAdoszamValid(s), huAdoszamValid(t)
  PROVE  FALSE
<1> DEFINE w == <<9, 7, 3, 1, 9, 7, 3>>
           x == <<9, 7, 3, 1, 9, 7, 3, 1>>
<1>1. Extends(x, w, 8) /\ Len(x) = 8 /\ x \in Seq(Int) /\ x[8] = 1
  BY DEF Extends
<1>2. \A j \in 1..8 : x[j] \in {1, 3, 7, 9}
  OBVIOUS
<1>3. ASSUME NEW u \in Seq(Characters), huAdoszamValid(u)
      PROVE  Digits(u) /\ Len(u) = 8 /\ Weighted(x, u) % 10 = 0
  <2>1. HasDigits(u, 8)
    BY <1>3 DEF huAdoszamValid
  <2>2. (10 - (Weighted(w, u) % 10)) % 10 = u[8]
    BY <1>3 DEF huAdoszamValid
  <2> HIDE DEF w, x
  <2>3. Digits(u) /\ Len(u) = 8
    BY <2>1, HasDigitsIs
  <2>4. /\ Weighted(w, u) \in Int /\ u[8] \in Digit
        /\ Weighted(x, u) = Weighted(w, u) + 1 * u[8]
    BY <1>1, <2>1, Balance
  <2> QED
    BY <2>2, <2>3, <2>4, ControlCompletesTen, Zenon
<1> HIDE DEF w, x
<1>4. TellsDigits(x, 10)
  BY <1>1, <1>2, RowTells10
<1> QED
  BY <1>1, <1>3, <1>4, TheModuli, MisreadIs, RowNoticesMisread

LEMMA DKNotices ==
  ASSUME NEW s, NEW t, Wrong(s, t), dkVATValid(s), dkVATValid(t)
  PROVE  FALSE
<1> DEFINE x == <<2, 7, 6, 5, 4, 3, 2, 1>>
<1>1. Len(x) = 8 /\ x \in Seq(Int)
  OBVIOUS
<1>2. \A j \in 1..8 : x[j] \in -10..10 /\ x[j] # 0
  OBVIOUS
<1>3. \A j \in 1..(8 - 1) : x[j] - x[j + 1] \in -10..10 /\ x[j] - x[j + 1] # 0
  OBVIOUS
<1>4. ASSUME NEW u \in Seq(Characters), dkVATValid(u)
      PROVE  Digits(u) /\ Len(u) = 8 /\ Weighted(x, u) % 11 = 0
  <2>1. HasDigits(u, 8) /\ Weighted(x, u) % 11 = 0
    BY <1>4 DEF dkVATValid
  <2> HIDE DEF x
  <2> QED
    BY <2>1, HasDigitsIs
<1> HIDE DEF x
<1>5. TellsDigits(x, 11)
  BY <1>1, <1>2, RowTells11
<1>6. TellsNeighbours(x, 11)
  BY <1>1, <1>3, RowTellsNeighbours11
<1> QED
  BY <1>1, <1>4, <1>5, <1>6, TheModuli, WrongIs, RowNotices

LEMMA FINotices ==
  ASSUME NEW s, NEW t, Wrong(s, t), fiVATValid(s), fiVATValid(t)
  PROVE  FALSE
<1> DEFINE x == <<7, 9, 10, 5, 8, 4, 2, 1>>
<1>1. Len(x) = 8 /\ x \in Seq(Int)
  OBVIOUS
<1>2. \A j \in 1..8 : x[j] \in -10..10 /\ x[j] # 0
  OBVIOUS
<1>3. \A j \in 1..(8 - 1) : x[j] - x[j + 1] \in -10..10 /\ x[j] - x[j + 1] # 0
  OBVIOUS
<1>4. ASSUME NEW u \in Seq(Characters), fiVATValid(u)
      PROVE  Digits(u) /\ Len(u) = 8 /\ Weighted(x, u) % 11 = 0
  <2>1. HasDigits(u, 8) /\ Weighted(x, u) % 11 = 0
    BY <1>4 DEF fiVATValid
  <2> HIDE DEF x
  <2> QED
    BY <2>1, HasDigitsIs
<1> HIDE DEF x
<1>5. TellsDigits(x, 11)
  BY <1>1, <1>2, RowTells11
<1>6. TellsNeighbours(x, 11)
  BY <1>1, <1>3, RowTellsNeighbours11
<1> QED
  BY <1>1, <1>4, <1>5, <1>6, TheModuli, WrongIs, RowNotices

LEMMA TenMore == \A a \in Int : (a - 10) % 89 = 0 => a % 89 = 10
OBVIOUS

LEMMA ABNNotices ==
  ASSUME NEW s, NEW t, NEW i, Misread(s, t, i), abnValid(s), abnValid(t)
  PROVE  FALSE
<1> DEFINE x == <<10, 1, 3, 5, 7, 9, 11, 13, 15, 17, 19>>
<1>1. Len(x) = 11 /\ x \in Seq(Int)
  OBVIOUS
<1>2. \A j \in 1..11 : x[j] \in 1..19
  OBVIOUS
<1>3. ASSUME NEW u \in Seq(Characters), abnValid(u)
      PROVE  Digits(u) /\ Len(u) = 11 /\ Weighted(x, u) % 89 = 10
  <2>1. HasDigits(u, 11) /\ (Weighted(x, u) - 10) % 89 = 0
    BY <1>3 DEF abnValid
  <2> HIDE DEF x
  <2>2. Len(u) = 11
    BY <2>1, HasDigitsIs
  <2>3. Weighted(x, u) \in Int
    BY <1>1, <2>2, WeightedIsInt
  <2>4. Weighted(x, u) % 89 = 10
    BY <2>1, <2>3, TenMore, Zenon
  <2> QED
    BY <2>1, <2>2, <2>4, HasDigitsIs
<1> HIDE DEF x
<1>4. TellsDigits(x, 89)
  BY <1>1, <1>2, RowTells89
<1> QED
  BY <1>1, <1>3, <1>4, TheModuli, MisreadIs, RowNoticesMisread

(* Two controls behind the weights. *)
LEMMA ControlsComplete37 ==
  \A a \in Int, b, c \in Digit : 37 - (a % 37) = 10 * b + c => (a + 10 * b + 1 * c) % 37 = 0
BY DEF Digit

LEMMA MTNotices ==
  ASSUME NEW s, NEW t, Wrong(s, t), mtVATValid(s), mtVATValid(t)
  PROVE  FALSE
<1> DEFINE w == <<3, 4, 6, 7, 8, 9>>
           y == <<3, 4, 6, 7, 8, 9, 10>>
           x == <<3, 4, 6, 7, 8, 9, 10, 1>>
<1>1. /\ w \in Seq(Int) /\ Len(w) = 6
      /\ y \in Seq(Int) /\ Len(y) = 7 /\ y[7] = 10 /\ \A j \in 1..6 : y[j] = w[j]
      /\ Extends(x, y, 8) /\ Len(x) = 8 /\ x \in Seq(Int) /\ x[8] = 1
  BY DEF Extends
<1>2. \A j \in 1..8 : x[j] \in -10..10 /\ x[j] # 0
  OBVIOUS
<1>3. \A j \in 1..(8 - 1) : x[j] - x[j + 1] \in -10..10 /\ x[j] - x[j + 1] # 0
  OBVIOUS
<1>4. ASSUME NEW u \in Seq(Characters), mtVATValid(u)
      PROVE  Digits(u) /\ Len(u) = 8 /\ Weighted(x, u) % 37 = 0
  <2>1. HasDigits(u, 8) /\ 37 - (Weighted(w, u) % 37) = 10 * u[7] + u[8]
    BY <1>4 DEF mtVATValid, TwoDigits
  <2> HIDE DEF w, x, y
  <2>2. Digits(u) /\ Len(u) = 8
    BY <2>1, HasDigitsIs
  <2>3. /\ Weighted(y, u) \in Int /\ u[8] \in Digit
        /\ Weighted(x, u) = Weighted(y, u) + 1 * u[8]
    <3> DEFINE k == 8
    <3>1. Extends(x, y, k) /\ HasDigits(u, k) /\ x[k] = 1
      BY <1>1, <2>1
    <3> HIDE DEF k
    <3>2. /\ Weighted(y, u) \in Int /\ u[k] \in Digit
          /\ Weighted(x, u) = Weighted(y, u) + x[k] * u[k]
      BY <3>1, Balance
    <3> QED
      BY <3>1, <3>2, Zenon DEF k
  <2>4. Weighted(w, u) \in Int /\ Weighted(y, u) = Weighted(w, u) + 10 * u[7]
    <3>1. /\ w \in Seq(Int) /\ y \in Seq(Int) /\ Len(y) = Len(w) + 1 /\ Len(y) <= Len(u)
          /\ \A j \in 1..Len(w) : y[j] = w[j]
      BY <1>1, <2>2
    <3>2. Weighted(w, u) \in Int /\ Weighted(y, u) = Weighted(w, u) + y[Len(y)] * u[Len(y)]
      BY <3>1, WeightedGrows, Zenon
    <3> QED
      BY <1>1, <3>2, Zenon
  <2>5. u[7] \in Digit
    BY <2>2 DEF Digits
  <2>6. Weighted(x, u) = Weighted(w, u) + 10 * u[7] + 1 * u[8]
    BY <2>3, <2>4, Zenon
  <2>7. (Weighted(w, u) + 10 * u[7] + 1 * u[8]) % 37 = 0
    BY <2>1, <2>3, <2>4, <2>5, ControlsComplete37, Zenon
  <2> QED
    BY <2>2, <2>6, <2>7, Zenon
<1> HIDE DEF w, x
<1>5. TellsDigits(x, 37)
  BY <1>1, <1>2, RowTells37
<1>6. TellsNeighbours(x, 37)
  BY <1>1, <1>3, RowTellsNeighbours37
<1> QED
  BY <1>1, <1>4, <1>5, <1>6, TheModuli, WrongIs, RowNotices

(* Where the digits before the control leave a remainder that the control  *)
(* shows, and the remainder the control, an error in one shows in the      *)
(* other.                                                                  *)
LEMMA ControlShows ==
  ASSUME NEW m \in Moduli, NEW w \in Seq(Int), NEW s, NEW t, NEW i, Misread(s, t, i),
         TellsDigits(w, m), Digits(s), Len(s) = Len(w) + 1,
         s[Len(s)] = t[Len(s)] <=> Weighted(w, s) % m = Weighted(w, t) % m
  PROVE  FALSE
<1>1. /\ Len(w) \in Nat /\ i \in 1..Len(s) /\ s[i] # t[i]
      /\ \A j \in 1..Len(s) : j # i => t[j] = s[j]
      /\ Len(w) <= Len(s) /\ Len(s) \in 1..Len(s)
  BY DEF Misread
<1>2. CASE i = Len(s)
  <2>1. i > Len(w)
    BY <1>1, <1>2
  <2>2. Weighted(w, t) = Weighted(w, s)
    BY <1>1, <2>1, WeightedChanges
  <2> QED
    BY <1>1, <1>2, <2>2
<1>3. CASE i # Len(s)
  <2>1. i <= Len(w) /\ t[Len(s)] = s[Len(s)]
    BY <1>1, <1>3
  <2> QED
    BY <1>1, <2>1, SumNotices
<1> QED
  BY <1>2, <1>3

LEMMA SIControls ==
  \A a, b \in 0..10, c, d \in Digit :
    c = (IF 11 - a = 10 THEN 0 ELSE 11 - a) /\ d = (IF 11 - b = 10 THEN 0 ELSE 11 - b)
      => (c = d <=> a = b)
BY DEF Digit

LEMMA SINotices ==
  ASSUME NEW s, NEW t, NEW i, Misread(s, t, i), siVATValid(s), siVATValid(t)
  PROVE  FALSE
<1> DEFINE w == <<8, 7, 6, 5, 4, 3, 2>>
<1>1. w \in Seq(Int) /\ Len(w) = 7
  OBVIOUS
<1>2. \A j \in 1..7 : w[j] \in -10..10 /\ w[j] # 0
  OBVIOUS
<1>3. ASSUME NEW u \in Seq(Characters), siVATValid(u)
      PROVE  /\ Digits(u) /\ Len(u) = 8 /\ u[8] \in Digit /\ Weighted(w, u) % 11 \in 0..10
             /\ u[8] = IF 11 - (Weighted(w, u) % 11) = 10 THEN 0 ELSE 11 - (Weighted(w, u) % 11)
  <2>1. /\ HasDigits(u, 8)
        /\ u[8] = IF 11 - (Weighted(w, u) % 11) = 10 THEN 0 ELSE 11 - (Weighted(w, u) % 11)
    BY <1>3 DEF siVATValid
  <2> HIDE DEF w
  <2>2. Digits(u) /\ Len(u) = 8
    BY <2>1, HasDigitsIs
  <2>3. u[8] \in Digit
    BY <2>2 DEF Digits
  <2>4. Weighted(w, u) \in Int
    BY <1>1, <2>2, WeightedIsInt
  <2>5. Weighted(w, u) % 11 \in 0..10
    BY <2>4
  <2> QED
    BY <2>1, <2>2, <2>3, <2>5, Zenon
<1> HIDE DEF w
<1>4. TellsDigits(w, 11)
  BY <1>1, <1>2, RowTells11
<1>5. s[8] = t[8] <=> Weighted(w, s) % 11 = Weighted(w, t) % 11
  <2>1. s \in Seq(Characters) /\ t \in Seq(Characters)
    BY MisreadIs
  <2> DEFINE a == Weighted(w, s) % 11
             b == Weighted(w, t) % 11
  <2>2. /\ a \in 0..10 /\ s[8] \in Digit /\ s[8] = IF 11 - a = 10 THEN 0 ELSE 11 - a
        /\ b \in 0..10 /\ t[8] \in Digit /\ t[8] = IF 11 - b = 10 THEN 0 ELSE 11 - b
    BY <1>3, <2>1, Zenon
  <2> HIDE DEF a, b
  <2>3. s[8] = t[8] <=> a = b
    BY <2>2, SIControls
  <2> QED
    BY <2>3 DEF a, b
<1>6. Digits(s) /\ Len(s) = 8 /\ Len(s) = Len(w) + 1
  BY <1>1, <1>3, MisreadIs
<1> QED
  BY <1>1, <1>4, <1>5, <1>6, TheModuli, ControlShows

(* What is behind the weights does not matter to the sum.                  *)
LEMMA ControlOnly ==
  ASSUME NEW s, NEW t, NEW i, Misread(s, t, i), NEW w \in Seq(Int), Len(w) < i
  PROVE  Weighted(w, t) = Weighted(w, s) /\ s[i] # t[i]
<1>1. Len(w) \in Nat /\ Len(w) <= Len(s) /\ i > Len(w) /\ s[i] # t[i]
  BY DEF Misread
<1> QED
  BY <1>1, WeightedChanges

LEMMA CZNotices ==
  ASSUME NEW s, NEW t, Misread(s, t, 8), czICOValid(s), czICOValid(t)
  PROVE  FALSE
<1> DEFINE w == <<8, 7, 6, 5, 4, 3, 2>>
           rem(u) == Weighted(w, u) % 11
           control(u) == CASE rem(u) = 0 -> 1 [] rem(u) = 1 -> 0 [] OTHER -> 11 - rem(u)
<1>1. w \in Seq(Int) /\ Len(w) < 8
  OBVIOUS
<1>2. s[8] = control(s) /\ t[8] = control(t)
  BY DEF czICOValid
<1> HIDE DEF w
<1>3. Weighted(w, t) = Weighted(w, s) /\ s[8] # t[8]
  BY <1>1, ControlOnly
<1> QED
  BY <1>2, <1>3

LEMMA PTNotices ==
  ASSUME NEW s, NEW t, Misread(s, t, 9), ptVATValid(s), ptVATValid(t)
  PROVE  FALSE
<1> DEFINE w == <<9, 8, 7, 6, 5, 4, 3, 2>>
           control(u) == IF 11 - (Weighted(w, u) % 11) >= 10 THEN 0 ELSE 11 - (Weighted(w, u) % 11)
<1>1. w \in Seq(Int) /\ Len(w) < 9
  OBVIOUS
<1>2. s[9] = control(s) /\ t[9] = control(t)
  BY DEF ptVATValid
<1> HIDE DEF w
<1>3. Weighted(w, t) = Weighted(w, s) /\ s[9] # t[9]
  BY <1>1, ControlOnly
<1> QED
  BY <1>2, <1>3

LEMMA ELNotices ==
  ASSUME NEW s, NEW t, Misread(s, t, 9), grVATValid(s), grVATValid(t)
  PROVE  FALSE
<1> DEFINE w == <<256, 128, 64, 32, 16, 8, 4, 2>>
           control(u) == IF Weighted(w, u) % 11 = 10 THEN 0 ELSE Weighted(w, u) % 11
<1>1. w \in Seq(Int) /\ Len(w) < 9
  OBVIOUS
<1>2. s[9] = control(s) /\ t[9] = control(t)
  BY DEF grVATValid
<1> HIDE DEF w
<1>3. Weighted(w, t) = Weighted(w, s) /\ s[9] # t[9]
  BY <1>1, ControlOnly
<1> QED
  BY <1>2, <1>3

LEMMA ACNNotices ==
  ASSUME NEW s, NEW t, Misread(s, t, 9), acnValid(s), acnValid(t)
  PROVE  FALSE
<1> DEFINE w == <<8, 7, 6, 5, 4, 3, 2, 1>>
<1>1. w \in Seq(Int) /\ Len(w) < 9
  OBVIOUS
<1>2. s[9] = (10 - (Weighted(w, s) % 10)) % 10 /\ t[9] = (10 - (Weighted(w, t) % 10)) % 10
  BY DEF acnValid
<1> HIDE DEF w
<1>3. Weighted(w, t) = Weighted(w, s) /\ s[9] # t[9]
  BY <1>1, ControlOnly
<1> QED
  BY <1>2, <1>3

LEMMA TwoRowsNotice ==
  ASSUME NEW s, NEW t, Misread(s, t, 9), TwoRowCheck(s) = s[9], TwoRowCheck(t) = t[9]
  PROVE  FALSE
<1> DEFINE w == <<1, 2, 3, 4, 5, 6, 7, 8>>
           x == <<3, 4, 5, 6, 7, 8, 9, 10>>
           control(u) == IF Weighted(w, u) % 11 # 10 THEN Weighted(w, u) % 11
                         ELSE (Weighted(x, u) % 11) % 10
<1>1. w \in Seq(Int) /\ Len(w) < 9 /\ x \in Seq(Int) /\ Len(x) < 9
  OBVIOUS
<1>2. s[9] = control(s) /\ t[9] = control(t)
  BY DEF TwoRowCheck
<1> HIDE DEF w, x
<1>3. Weighted(w, t) = Weighted(w, s) /\ Weighted(x, t) = Weighted(x, s) /\ s[9] # t[9]
  BY <1>1, ControlOnly
<1> QED
  BY <1>2, <1>3

LEMMA GBRemainders ==
  \A a \in Int, d \in -9..9 : d # 0 /\ a % 97 \in {0, 42, 55} => (a + d) % 97 \notin {0, 42, 55}
OBVIOUS

LEMMA GBNotices ==
  ASSUME NEW s, NEW t, Misread(s, t, 9), gbVATValid(s), gbVATValid(t)
  PROVE  FALSE
<1> DEFINE x == <<8, 7, 6, 5, 4, 3, 2, 10, 1>>
<1>1. x \in Seq(Int) /\ Len(x) = 9 /\ x[9] = 1
  OBVIOUS
<1>2. /\ HasDigits(s, 9) /\ Weighted(x, s) % 97 \in {0, 42, 55}
      /\ HasDigits(t, 9) /\ Weighted(x, t) % 97 \in {0, 42, 55}
  BY DEF gbVATValid
<1> HIDE DEF x
<1>3. Len(s) = 9 /\ s[9] \in Digit /\ t[9] \in Digit /\ s[9] # t[9]
  <2>1. s \in Seq(Characters) /\ t \in Seq(Characters) /\ s[9] # t[9] /\ 9 \in 1..9
    BY DEF Misread
  <2>2. Len(s) = 9 /\ s[9] \in Digit
    BY <1>2, <2>1, HasDigitsIs, ZenonT(60)
  <2>3. t[9] \in Digit
    BY <1>2, <2>1, HasDigitsIs, Zenon
  <2> QED
    BY <2>1, <2>2, <2>3
<1>4. Weighted(x, s) \in Int /\ Weighted(x, t) = Weighted(x, s) + 1 * (t[9] - s[9])
  <2>1. 9 <= Len(x) /\ Len(x) <= Len(s)
    BY <1>1, <1>3
  <2> DEFINE i == 9
  <2>2. Misread(s, t, i) /\ i <= Len(x)
    BY <2>1
  <2> HIDE DEF i
  <2>3. Weighted(x, s) \in Int /\ Weighted(x, t) = Weighted(x, s) + x[i] * (t[i] - s[i])
    <3>1. x \in Seq(Int) /\ Len(x) <= Len(s)
      BY <1>1, <2>1
    <3> QED
      BY <2>2, <3>1, WeightedChanges
  <2> QED
    BY <1>1, <2>3 DEF i
<1>5. t[9] - s[9] \in -9..9 /\ t[9] - s[9] # 0
  BY <1>3, Differences, Zenon
<1> DEFINE d == t[9] - s[9]
<1> HIDE DEF d
<1>6. d \in -9..9 /\ d # 0 /\ Weighted(x, t) = Weighted(x, s) + d
  BY <1>4, <1>5 DEF d
<1> QED
  BY <1>2, <1>4, <1>6, GBRemainders

LEMMA JPNotices ==
  ASSUME NEW s, NEW t, Misread(s, t, 1), jpCorporateNumberValid(s), jpCorporateNumberValid(t)
  PROVE  FALSE
<1> DEFINE terms(u) == [i \in 1..12 |-> (IF i % 2 = 1 THEN 2 ELSE 1) * u[i + 1]]
<1>1. /\ s[1] = 9 - (Total(terms(s)) % 9) /\ t[1] = 9 - (Total(terms(t)) % 9)
      /\ HasDigits(s, 13)
  BY DEF jpCorporateNumberValid
<1>2. s[1] # t[1] /\ Len(s) = 13 /\ \A j \in 1..Len(s) : j # 1 => t[j] = s[j]
  BY <1>1 DEF Misread, HasDigits
<1>3. \A i \in 1..12 : t[i + 1] = s[i + 1]
  BY <1>2
<1>4. terms(s) = terms(t)
  BY <1>3
<1> QED
  BY <1>1, <1>2, <1>4

(* Two numbers that differ in one character have the same others.          *)
LEMMA SameRest ==
  ASSUME NEW s, NEW t, NEW i, Misread(s, t, i), NEW a \in 1..Len(s), NEW b \in 0..Len(s),
         i < a \/ i > b
  PROVE  SubSeq(t, a, b) = SubSeq(s, a, b)
<1>1. /\ s \in Seq(Characters) /\ t \in Seq(Characters) /\ Len(t) = Len(s) /\ i \in 1..Len(s)
      /\ \A j \in 1..Len(s) : j # i => t[j] = s[j]
  BY DEF Misread
<1>2. \A j \in a..b : t[j] = s[j]
  BY <1>1
<1> QED
  BY <1>1, <1>2

LEMMA RONotices ==
  ASSUME NEW s, NEW t, Misread(s, t, Len(s)), roCUIValid(s), roCUIValid(t)
  PROVE  FALSE
<1> DEFINE key == <<7, 5, 3, 2, 1, 7, 5, 3, 2>>
           body(u) == SubSeq(u, 1, Len(u) - 1)
           want(u) == (10 * Weighted(LastOf(key, Len(body(u))), body(u))) % 11
           control(u) == IF want(u) = 10 THEN 0 ELSE want(u)
<1>1. Len(s) \in 2..10 /\ s[Len(s)] = control(s) /\ t[Len(t)] = control(t)
  BY DEF roCUIValid
<1>2. Len(t) = Len(s) /\ s[Len(s)] # t[Len(s)]
  BY DEF Misread
<1>3. body(t) = body(s)
  BY <1>1, <1>2, SameRest, SMTT(30)
<1> QED
  BY <1>1, <1>2, <1>3

-----------------------------------------------------------------------------
(* Sums of digits                                                          *)

LEMMA NearRemainders ==
  \A a \in Int, d \in -9..9 : d # 0 => a + d \in Int /\ a % 10 # (a + d) % 10
OBVIOUS

LEMMA OneTermShows ==
  ASSUME NEW t \in Seq(Digit), NEW u \in Seq(Digit), Len(u) = Len(t), NEW i \in 1..Len(t),
         u[i] # t[i], \A j \in 1..Len(t) : j # i => u[j] = t[j]
  PROVE  /\ Total(t) \in Int /\ Total(u) \in Int
         /\ Total(t) % 10 # Total(u) % 10
<1>1. t \in Seq(Int) /\ u \in Seq(Int)
  <2>1. \A d \in Digit : d \in Int
    BY DEF Digit
  <2> QED
    BY <2>1
<1>2. Total(t) \in Int /\ Total(u) = Total(t) + (u[i] - t[i])
  BY <1>1, TotalChanges
<1>3. u[i] \in Digit /\ t[i] \in Digit
  OBVIOUS
<1>4. u[i] - t[i] \in -9..9 /\ u[i] - t[i] # 0
  BY <1>3, Differences, Zenon
<1> DEFINE d == u[i] - t[i]
<1> HIDE DEF d
<1>5. d \in -9..9 /\ d # 0 /\ Total(u) = Total(t) + d
  BY <1>2, <1>4 DEF d
<1> QED
  BY <1>2, <1>5, NearRemainders, Zenon

LEMMA DoubledIs ==
  /\ \A d \in Digit : Doubled(d) \in Digit
  /\ \A d, e \in Digit : d # e => Doubled(d) # Doubled(e)
<1>1. \A d \in Digit : Doubled(d) \in Digit
  BY DEF Doubled, Digit
<1>2. \A d, e \in Digit : d # e => Doubled(d) # Doubled(e)
  BY DEF Doubled, Digit
<1> QED
  BY <1>1, <1>2, Zenon

LEMMA LuhnNotices ==
  ASSUME NEW s, NEW t, NEW i, Misread(s, t, i), luhnValid(s), luhnValid(t)
  PROVE  FALSE
<1> DEFINE term(u, j) == IF (Len(u) - j) % 2 = 1 THEN Doubled(u[j]) ELSE u[j]
           terms(u) == [j \in DOMAIN u |-> term(u, j)]
<1>1. /\ s \in Seq(Characters) /\ t \in Seq(Characters) /\ Len(t) = Len(s) /\ i \in 1..Len(s)
      /\ s[i] # t[i] /\ \A j \in 1..Len(s) : j # i => t[j] = s[j]
  BY DEF Misread
<1>2. \A j \in 1..Len(s) : s[j] \in Digit /\ t[j] \in Digit
  BY <1>1 DEF luhnValid, allDigits
<1>3. Total(terms(s)) % 10 = 0 /\ Total(terms(t)) % 10 = 0
  BY DEF luhnValid
<1>4. \A j \in 1..Len(s) : term(s, j) \in Digit /\ term(t, j) \in Digit
  BY <1>1, <1>2, DoubledIs, Zenon
<1>5. term(t, i) # term(s, i)
  BY <1>1, <1>2, DoubledIs, Zenon
<1>6. \A j \in 1..Len(s) : j # i => term(t, j) = term(s, j)
  BY <1>1, Zenon
<1> HIDE DEF term
<1>7. /\ terms(s) \in Seq(Digit) /\ Len(terms(s)) = Len(s)
      /\ \A j \in 1..Len(s) : terms(s)[j] = term(s, j)
  BY <1>1, <1>4
<1>8. /\ terms(t) \in Seq(Digit) /\ Len(terms(t)) = Len(s)
      /\ \A j \in 1..Len(s) : terms(t)[j] = term(t, j)
  BY <1>1, <1>4
<1> DEFINE p == terms(s)
           q == terms(t)
<1>9. /\ p \in Seq(Digit) /\ q \in Seq(Digit) /\ Len(q) = Len(p) /\ i \in 1..Len(p)
      /\ q[i] # p[i] /\ \A j \in 1..Len(p) : j # i => q[j] = p[j]
      /\ Total(p) % 10 = 0 /\ Total(q) % 10 = 0
  BY <1>1, <1>3, <1>5, <1>6, <1>7, <1>8
<1> HIDE DEF terms, p, q
<1> QED
  BY <1>9, OneTermShows

LEMMA DigitSums ==
  /\ \A d \in Digit : ((1 * d) \div 10) + ((1 * d) % 10) = d
  /\ \A d \in Digit : ((2 * d) \div 10) + ((2 * d) % 10) = Doubled(d)
<1>1. \A d \in Digit : ((1 * d) \div 10) + ((1 * d) % 10) = d
  BY DEF Digit
<1>2. \A d \in Digit : ((2 * d) \div 10) + ((2 * d) % 10) = Doubled(d)
  BY DEF Digit, Doubled
<1> QED
  BY <1>1, <1>2, Zenon

LEMMA ATControls ==
  \A a, b \in Int : (96 - a) % 10 = (96 - b) % 10 => a % 10 = b % 10
OBVIOUS

LEMMA ATNotices ==
  ASSUME NEW s, NEW t, NEW i, Misread(s, t, i), atVATValid(s), atVATValid(t)
  PROVE  FALSE
<1> DEFINE w == <<1, 2, 1, 2, 1, 2, 1>>
           digitSum(p) == (p \div 10) + (p % 10)
           term(u, j) == digitSum(w[j] * u[j])
           terms(u) == [j \in 1..7 |-> term(u, j)]
<1>1. /\ s \in Seq(Characters) /\ t \in Seq(Characters) /\ i \in 1..8
      /\ s[i] # t[i] /\ \A j \in 1..8 : j # i => t[j] = s[j]
  BY DEF Misread, atVATValid, HasDigits
<1>2. \A j \in 1..8 : s[j] \in Digit /\ t[j] \in Digit
  BY <1>1, HasDigitsIs, Zenon DEF atVATValid
<1>3. (96 - Total(terms(s))) % 10 = s[8] /\ (96 - Total(terms(t))) % 10 = t[8]
  BY DEF atVATValid
<1>4. \A j \in 1..7 : w[j] = 1 \/ w[j] = 2
  OBVIOUS
<1> HIDE DEF w
<1>5. \A j \in 1..7 : j \in 1..8
  OBVIOUS
<1>6. ASSUME NEW j \in 1..7
      PROVE  /\ term(s, j) \in Digit /\ term(t, j) \in Digit
             /\ s[j] # t[j] => term(s, j) # term(t, j)
  <2>1. s[j] \in Digit /\ t[j] \in Digit
    BY <1>2, <1>5
  <2>2. CASE w[j] = 1
    <3>1. term(s, j) = s[j] /\ term(t, j) = t[j]
      BY <2>1, <2>2, DigitSums, Zenon
    <3> QED
      BY <2>1, <3>1, Zenon
  <2>3. CASE w[j] = 2
    <3>1. term(s, j) = Doubled(s[j]) /\ term(t, j) = Doubled(t[j])
      BY <2>1, <2>3, DigitSums, Zenon
    <3> QED
      BY <2>1, <3>1, DoubledIs, Zenon
  <2> QED
    BY <1>4, <2>2, <2>3
<1>7. \A j \in 1..7 : j # i => term(t, j) = term(s, j)
  BY <1>1, <1>5, Zenon
<1> HIDE DEF term
<1>8. CASE i = 8
  <2>1. terms(t) = terms(s)
    BY <1>7, <1>8
  <2> QED
    BY <1>1, <1>3, <1>8, <2>1
<1>9. CASE i # 8
  <2>1. i \in 1..7 /\ 8 \in 1..8
    BY <1>1, <1>9
  <2>2. t[8] = s[8] /\ term(t, i) # term(s, i)
    BY <1>1, <1>6, <1>9, <2>1
  <2>3. /\ terms(s) \in Seq(Digit) /\ Len(terms(s)) = 7 /\ \A j \in 1..7 : terms(s)[j] = term(s, j)
        /\ terms(t) \in Seq(Digit) /\ Len(terms(t)) = 7 /\ \A j \in 1..7 : terms(t)[j] = term(t, j)
    BY <1>6
  <2> DEFINE p == terms(s)
             q == terms(t)
  <2>4. /\ p \in Seq(Digit) /\ q \in Seq(Digit) /\ Len(q) = Len(p) /\ i \in 1..Len(p)
        /\ q[i] # p[i] /\ \A j \in 1..Len(p) : j # i => q[j] = p[j]
    BY <1>7, <2>1, <2>2, <2>3
  <2>5. (96 - Total(p)) % 10 = s[8] /\ (96 - Total(q)) % 10 = s[8]
    BY <1>3, <2>2
  <2> HIDE DEF terms, p, q
  <2>6. Total(p) \in Int /\ Total(q) \in Int /\ Total(p) % 10 # Total(q) % 10
    BY <2>4, OneTermShows
  <2>7. (96 - Total(p)) % 10 = (96 - Total(q)) % 10
    BY <2>5
  <2> QED
    BY <2>6, <2>7, ATControls, Zenon
<1> QED
  BY <1>8, <1>9

-----------------------------------------------------------------------------
(* Remainders of whole numbers                                             *)

Chains == {11, 23, 89, 97}

Append1(m) == [x \in (0..(m - 1)) \X Digit |-> (10 * x[1] + x[2]) % m]

LEMMA Append1Is ==
  ASSUME NEW m \in Chains, NEW p \in 0..(m - 1), NEW d \in Digit
  PROVE  Append1(m)[<<p, d>>] = (10 * p + d) % m
<1>1. <<p, d>> \in (0..(m - 1)) \X Digit
  OBVIOUS
<1> QED
  BY <1>1 DEF Append1

LEMMA ChainArithmetic ==
  ASSUME NEW m \in Chains
  PROVE  /\ \A p \in 0..(m - 1), d \in Digit : (10 * p + d) % m \in 0..(m - 1)
         /\ \A p, q \in 0..(m - 1), d \in Digit : (10 * p + d) % m = (10 * q + d) % m => p = q
         /\ \A p \in 0..(m - 1), d, e \in Digit : (10 * p + d) % m = (10 * p + e) % m => d = e
         /\ \A p, q, r \in 0..(m - 1), d, e \in Digit :
              q = (10 * p + d) % m /\ r = (10 * p + e) % m
              /\ (10 * q + e) % m = (10 * r + d) % m => d = e
<1>1. \A p \in 0..(m - 1), d \in Digit : (10 * p + d) % m \in 0..(m - 1)
  BY DEF Chains, Digit
<1>2. \A p, q \in 0..(m - 1), d \in Digit : (10 * p + d) % m = (10 * q + d) % m => p = q
  BY DEF Chains, Digit
<1>3. \A p \in 0..(m - 1), d, e \in Digit : (10 * p + d) % m = (10 * p + e) % m => d = e
  BY DEF Chains, Digit
<1>4. \A p, q, r \in 0..(m - 1), d, e \in Digit :
        q = (10 * p + d) % m /\ r = (10 * p + e) % m
        /\ (10 * q + e) % m = (10 * r + d) % m => d = e
  BY DEF Chains, Digit
<1> QED
  BY <1>1, <1>2, <1>3, <1>4, Zenon

(* One more character, and the loop takes one more step.                   *)
LEMMA LoopGrows ==
  ASSUME NEW step, NEW start, NEW s, NEW u, Len(s) \in Nat, Len(u) = Len(s) + 1,
         \A j \in 1..Len(s) : u[j] = s[j]
  PROVE  Accumulate(step, start, u) = step[<<Accumulate(step, start, s), u[Len(u)]>>]
<1>1. PICK v : /\ v[0] = start
               /\ \A n \in 1..Len(s) : v[n] = step[<<v[n - 1], s[n]>>]
               /\ Accumulate(step, start, s) = v[Len(s)]
  BY LoopRuns
<1>2. PICK w : /\ w[0] = start
               /\ \A n \in 1..Len(u) : w[n] = step[<<w[n - 1], u[n]>>]
               /\ Accumulate(step, start, u) = w[Len(u)]
  BY LoopRuns
<1> DEFINE Q == {n \in 0..Len(s) : w[n] = v[n]}
<1>3. 0 \in Q
  BY <1>1, <1>2
<1>4. ASSUME NEW n \in 0..(Len(s) - 1), n \in Q PROVE n + 1 \in Q
  <2>1. n + 1 \in 1..Len(s) /\ n + 1 \in 1..Len(u) /\ (n + 1) - 1 = n /\ n + 1 \in 0..Len(s)
    OBVIOUS
  <2>2. /\ v[n + 1] = step[<<v[n], s[n + 1]>>] /\ w[n + 1] = step[<<w[n], u[n + 1]>>]
        /\ u[n + 1] = s[n + 1]
    BY <1>1, <1>2, <2>1
  <2> QED
    BY <1>4, <2>1, <2>2
<1> HIDE DEF Q
<1>5. \A n \in 0..Len(s) : n \in Q
  BY <1>3, <1>4, Stretch
<1>6. w[Len(s)] = v[Len(s)]
  BY <1>5 DEF Q
<1>7. Len(u) \in 1..Len(u) /\ Len(u) - 1 = Len(s)
  OBVIOUS
<1> QED
  BY <1>1, <1>2, <1>6, <1>7

LEMMA DigitsAreSeq == ASSUME NEW s, Digits(s) PROVE s \in Seq(Digit)
BY DEF Digits

LEMMA ErrorsStandSomewhere ==
  ASSUME NEW s, NEW t, NEW i
  PROVE  /\ Misread(s, t, i) => DifferWithin(s, t, i, i)
         /\ Swapped(s, t, i) => DifferWithin(s, t, i, i + 1)
<1>1. ASSUME Misread(s, t, i) PROVE DifferWithin(s, t, i, i)
  BY <1>1 DEF Misread, DifferWithin
<1>2. ASSUME Swapped(s, t, i) PROVE DifferWithin(s, t, i, i + 1)
  BY <1>2 DEF Swapped, DifferWithin
<1> QED
  BY <1>1, <1>2

LEMMA LoopNoticesMisread ==
  ASSUME NEW P, NEW step, NEW start \in P, TellsApart(step, P),
         NEW s \in Seq(Digit), NEW t \in Seq(Digit), NEW i, Misread(s, t, i)
  PROVE  Accumulate(step, start, s) # Accumulate(step, start, t)
<1>1. i \in i..i /\ s[i] # t[i] /\ s[i] \in Digit /\ t[i] \in Digit
  BY DEF Misread
<1>2. ASSUME NEW v, NEW u,
             \A n \in i..i : v[n] = step[<<v[n - 1], s[n]>>] /\ u[n] = step[<<u[n - 1], t[n]>>],
             v[i - 1] = u[i - 1], v[i - 1] \in P
      PROVE  v[i] # u[i]
  <2>1. v[i] = step[<<v[i - 1], s[i]>>] /\ u[i] = step[<<v[i - 1], t[i]>>]
    BY <1>1, <1>2, Zenon
  <2>2. step[<<v[i - 1], s[i]>>] # step[<<v[i - 1], t[i]>>]
    BY <1>1, <1>2, ZenonT(60) DEF TellsApart
  <2> QED
    BY <2>1, <2>2
<1>3. DifferWithin(s, t, i, i)
  BY ErrorsStandSomewhere
<1>4. PartsAt(step, P, s, t, i, i)
  BY <1>2, Zenon DEF PartsAt
<1> QED
  BY <1>3, <1>4, LoopTellsApart, Zenon

LEMMA LoopNoticesSwap ==
  ASSUME NEW P, NEW step, NEW start \in P, TellsApart(step, P),
         \A p \in P, d, e \in Digit :
           step[<<step[<<p, d>>], e>>] = step[<<step[<<p, e>>], d>>] => d = e,
         NEW s \in Seq(Digit), NEW t \in Seq(Digit), NEW i, Swapped(s, t, i)
  PROVE  Accumulate(step, start, s) # Accumulate(step, start, t)
<1> DEFINE j == i + 1
<1>1. /\ i \in i..j /\ j \in i..j /\ j - 1 = i /\ s[i] # s[j]
      /\ s[i] \in Digit /\ s[j] \in Digit /\ t[i] = s[j] /\ t[j] = s[i]
  BY DEF Swapped
<1>2. DifferWithin(s, t, i, j)
  BY ErrorsStandSomewhere
<1> HIDE DEF j
<1>3. ASSUME NEW v, NEW u,
             \A n \in i..j : v[n] = step[<<v[n - 1], s[n]>>] /\ u[n] = step[<<u[n - 1], t[n]>>],
             v[i - 1] = u[i - 1], v[i - 1] \in P
      PROVE  v[j] # u[j]
  <2>1. v[i] = step[<<v[i - 1], s[i]>>] /\ u[i] = step[<<v[i - 1], s[j]>>]
    BY <1>1, <1>3, Zenon
  <2>2. v[j] = step[<<v[i], s[j]>>] /\ u[j] = step[<<u[i], s[i]>>]
    BY <1>1, <1>3, Zenon
  <2>3. step[<<step[<<v[i - 1], s[i]>>], s[j]>>] # step[<<step[<<v[i - 1], s[j]>>], s[i]>>]
    BY <1>1, <1>3, Zenon
  <2> QED
    BY <2>1, <2>2, <2>3, Zenon
<1>4. PartsAt(step, P, s, t, i, j)
  BY <1>3, Zenon DEF PartsAt
<1> QED
  BY <1>2, <1>4, LoopTellsApart, Zenon

LEMMA LoopStays ==
  ASSUME NEW P, NEW step, NEW start \in P, TellsApart(step, P), NEW s \in Seq(Digit)
  PROVE  Accumulate(step, start, s) \in P
<1>1. PICK v : /\ v[0] = start
               /\ \A n \in 1..Len(s) : v[n] = step[<<v[n - 1], s[n]>>]
               /\ Accumulate(step, start, s) = v[Len(s)]
  BY LoopRuns
<1>2. \A p \in P, d \in Digit : step[<<p, d>>] \in P
  BY DEF TellsApart
<1>3. \A n \in 0..Len(s) : v[n] \in P
  BY <1>1, <1>2, LoopKeeps, Zenon
<1>4. Len(s) \in 0..Len(s)
  OBVIOUS
<1> QED
  BY <1>1, <1>3, <1>4

LEMMA Append1Tells ==
  ASSUME NEW m \in Chains
  PROVE  /\ TellsApart(Append1(m), 0..(m - 1)) /\ 0 \in 0..(m - 1)
         /\ \A p \in 0..(m - 1), d, e \in Digit :
              Append1(m)[<<Append1(m)[<<p, d>>], e>>] = Append1(m)[<<Append1(m)[<<p, e>>], d>>]
                => d = e
<1> DEFINE P == 0..(m - 1)
           step == Append1(m)
<1>1. \A p \in P, d \in Digit : step[<<p, d>>] = (10 * p + d) % m
  BY Append1Is
<1> HIDE DEF P, step
<1>2. ASSUME NEW q \in P, NEW d \in Digit PROVE step[<<q, d>>] \in P
  <2>1. (10 * q + d) % m \in P
    BY ChainArithmetic DEF P
  <2> QED
    BY <1>1, <2>1
<1>3. ASSUME NEW q \in P, NEW r \in P, NEW d \in Digit, step[<<q, d>>] = step[<<r, d>>] PROVE q = r
  <2>1. (10 * q + d) % m = (10 * r + d) % m
    BY <1>1, <1>3
  <2> QED
    BY <2>1, ChainArithmetic DEF P
<1>4. ASSUME NEW q \in P, NEW d \in Digit, NEW e \in Digit, step[<<q, d>>] = step[<<q, e>>]
      PROVE  d = e
  <2>1. (10 * q + d) % m = (10 * q + e) % m
    BY <1>1, <1>4
  <2> QED
    BY <2>1, ChainArithmetic DEF P
<1>5. ASSUME NEW q \in P, NEW d \in Digit, NEW e \in Digit,
             step[<<step[<<q, d>>], e>>] = step[<<step[<<q, e>>], d>>]
      PROVE  d = e
  <2> DEFINE a == step[<<q, d>>]
             b == step[<<q, e>>]
  <2>1. a \in P /\ b \in P /\ a = (10 * q + d) % m /\ b = (10 * q + e) % m
    BY <1>1, <1>2
  <2>2. step[<<a, e>>] = step[<<b, d>>]
    BY <1>5
  <2> HIDE DEF a, b
  <2>3. (10 * a + e) % m = (10 * b + d) % m
    BY <1>1, <2>1, <2>2
  <2> QED
    BY <2>1, <2>3, ChainArithmetic DEF P
<1>6. 0 \in P
  BY DEF P, Chains
<1>7. TellsApart(step, P)
  BY <1>2, <1>3, <1>4, Zenon DEF TellsApart
<1>8. \A p \in P, d, e \in Digit :
        step[<<step[<<p, d>>], e>>] = step[<<step[<<p, e>>], d>>] => d = e
  BY <1>5, Zenon
<1> QED
  BY <1>6, <1>7, <1>8 DEF P, step

LEMMA RemainderIsLoop ==
  ASSUME NEW m, NEW s PROVE Remainder(s, m) = Accumulate(Append1(m), 0, s)
BY DEF Remainder, Append1

LEMMA RemainderIs ==
  ASSUME NEW m \in Chains, NEW s, Digits(s)
  PROVE  Remainder(s, m) \in 0..(m - 1)
BY RemainderIsLoop, DigitsAreSeq, Append1Tells, LoopStays, Zenon

LEMMA RemainderGrows ==
  ASSUME NEW m \in Chains, NEW s, Digits(s), NEW u, Digits(u), Len(u) = Len(s) + 1,
         \A j \in 1..Len(s) : u[j] = s[j]
  PROVE  Remainder(u, m) = (10 * Remainder(s, m) + u[Len(u)]) % m
<1> DEFINE step == Append1(m)
           start == 0
<1>1. Len(s) \in Nat /\ Len(u) \in 1..Len(u)
  BY DEF Digits
<1>2. Remainder(s, m) = Accumulate(step, start, s) /\ Remainder(u, m) = Accumulate(step, start, u)
  BY RemainderIsLoop, Zenon
<1>3. u[Len(u)] \in Digit /\ Remainder(s, m) \in 0..(m - 1)
  BY <1>1, RemainderIs, Zenon DEF Digits
<1>4. step[<<Remainder(s, m), u[Len(u)]>>] = (10 * Remainder(s, m) + u[Len(u)]) % m
  BY <1>3, Append1Is, Zenon
<1> HIDE DEF step, start
<1>5. Accumulate(step, start, u) = step[<<Accumulate(step, start, s), u[Len(u)]>>]
  BY <1>1, LoopGrows
<1> QED
  BY <1>2, <1>4, <1>5, Zenon

LEMMA RemainderNotices ==
  ASSUME NEW m \in Chains, NEW s, NEW t, Wrong(s, t), Digits(s), Digits(t)
  PROVE  Remainder(s, m) # Remainder(t, m)
<1>1. s \in Seq(Digit) /\ t \in Seq(Digit)
  BY DigitsAreSeq
<1> SUFFICES Accumulate(Append1(m), 0, s) # Accumulate(Append1(m), 0, t)
  BY RemainderIsLoop, Zenon
<1>2. PICK i : Misread(s, t, i) \/ Swapped(s, t, i)
  BY DEF Wrong
<1>3. CASE Misread(s, t, i)
  BY <1>1, <1>3, Append1Tells, LoopNoticesMisread, Zenon
<1>4. CASE Swapped(s, t, i)
  BY <1>1, <1>4, Append1Tells, LoopNoticesSwap, Zenon
<1> QED
  BY <1>2, <1>3, <1>4

LEMMA SKNotices ==
  ASSUME NEW s, NEW t, Wrong(s, t), skVATValid(s), skVATValid(t)
  PROVE  FALSE
<1>1. HasDigits(s, 10) /\ HasDigits(t, 10) /\ Remainder(s, 11) = 0 /\ Remainder(t, 11) = 0
  BY DEF skVATValid
<1>2. Digits(s) /\ Digits(t) /\ 11 \in Chains
  BY <1>1, WrongIs, HasDigitsIs DEF Chains
<1> QED
  BY <1>1, <1>2, RemainderNotices

-----------------------------------------------------------------------------
(* Parts of a number                                                       *)

LEMMA PartIs ==
  ASSUME NEW s \in Seq(Characters), NEW k \in Nat, NEW n \in Nat, k <= n, n <= Len(s)
  PROVE  /\ SubSeq(s, k + 1, n) \in Seq(Characters) /\ Len(SubSeq(s, k + 1, n)) = n - k
         /\ \A j \in 1..(n - k) : SubSeq(s, k + 1, n)[j] = s[j + k]
<1>1. \A j \in (k + 1)..n : j \in 1..Len(s)
  OBVIOUS
<1>2. \A j \in (k + 1)..n : s[j] \in Characters
  BY <1>1
<1> QED
  BY <1>2

LEMMA PartMisread ==
  ASSUME NEW s, NEW t, NEW i, Misread(s, t, i), NEW k \in Nat, NEW n \in Nat, k <= n, n <= Len(s)
  PROVE  /\ i > k /\ i <= n => Misread(SubSeq(s, k + 1, n), SubSeq(t, k + 1, n), i - k)
         /\ i <= k \/ i > n => SubSeq(s, k + 1, n) = SubSeq(t, k + 1, n)
<1> DEFINE a == SubSeq(s, k + 1, n)
           b == SubSeq(t, k + 1, n)
<1>1. /\ s \in Seq(Characters) /\ t \in Seq(Characters) /\ Len(t) = Len(s) /\ Len(s) \in Nat
      /\ i \in 1..Len(s) /\ s[i] # t[i] /\ (s[i] \in Digit <=> t[i] \in Digit)
      /\ \A j \in 1..Len(s) : j # i => t[j] = s[j]
  BY DEF Misread
<1>2. /\ a \in Seq(Characters) /\ Len(a) = n - k /\ \A j \in 1..(n - k) : a[j] = s[j + k]
      /\ b \in Seq(Characters) /\ Len(b) = n - k /\ \A j \in 1..(n - k) : b[j] = t[j + k]
  BY <1>1, PartIs
<1> HIDE DEF a, b
<1>3. \A j \in 1..(n - k) : j + k \in 1..Len(s) /\ (j # i - k => j + k # i)
  BY <1>1
<1>4. ASSUME i > k, i <= n PROVE Misread(a, b, i - k)
  <2>1. i - k \in 1..(n - k) /\ (i - k) + k = i
    BY <1>1, <1>4
  <2>2. a[i - k] = s[i] /\ b[i - k] = t[i]
    BY <1>2, <2>1
  <2>3. \A j \in 1..Len(a) : j # i - k => b[j] = a[j]
    BY <1>1, <1>2, <1>3
  <2>4. Len(b) = Len(a) /\ i - k \in 1..Len(a)
    BY <1>2, <2>1
  <2> QED
    BY <1>1, <1>2, <2>2, <2>3, <2>4, Zenon DEF Misread
<1>5. ASSUME i <= k \/ i > n PROVE a = b
  <2>1. \A j \in 1..(n - k) : j + k # i
    BY <1>1, <1>5
  <2>2. \A j \in 1..(n - k) : a[j] = b[j]
    BY <1>1, <1>2, <1>3, <2>1
  <2> QED
    BY <1>2, <2>2
<1> QED
  BY <1>4, <1>5 DEF a, b

LEMMA PartSwapped ==
  ASSUME NEW s, NEW t, NEW i, Swapped(s, t, i), NEW k \in Nat, NEW n \in Nat, k <= n, n <= Len(s)
  PROVE  /\ i > k /\ i < n => Swapped(SubSeq(s, k + 1, n), SubSeq(t, k + 1, n), i - k)
         /\ i < k \/ i > n => SubSeq(s, k + 1, n) = SubSeq(t, k + 1, n)
<1> DEFINE a == SubSeq(s, k + 1, n)
           b == SubSeq(t, k + 1, n)
<1>1. /\ s \in Seq(Characters) /\ t \in Seq(Characters) /\ Len(t) = Len(s) /\ Len(s) \in Nat
      /\ i \in 1..(Len(s) - 1) /\ s[i] # s[i + 1] /\ s[i] \in Digit /\ s[i + 1] \in Digit
      /\ t[i] = s[i + 1] /\ t[i + 1] = s[i]
      /\ \A j \in 1..Len(s) : j # i /\ j # i + 1 => t[j] = s[j]
  BY DEF Swapped
<1>2. /\ a \in Seq(Characters) /\ Len(a) = n - k /\ \A j \in 1..(n - k) : a[j] = s[j + k]
      /\ b \in Seq(Characters) /\ Len(b) = n - k /\ \A j \in 1..(n - k) : b[j] = t[j + k]
  BY <1>1, PartIs
<1> HIDE DEF a, b
<1>3. \A j \in 1..(n - k) : /\ j + k \in 1..Len(s) /\ (j # i - k => j + k # i)
                            /\ (j # (i - k) + 1 => j + k # i + 1)
  BY <1>1
<1>4. ASSUME i > k, i < n PROVE Swapped(a, b, i - k)
  <2>1. /\ i - k \in 1..(n - k) /\ (i - k) + k = i
        /\ (i - k) + 1 \in 1..(n - k) /\ ((i - k) + 1) + k = i + 1
    BY <1>1, <1>4
  <2> DEFINE l == (i - k) + 1
  <2>2. l \in 1..(n - k) /\ l + k = i + 1
    BY <2>1
  <2> HIDE DEF l
  <2>3. a[l] = s[i + 1] /\ b[l] = t[i + 1]
    BY <1>2, <2>2
  <2>4. /\ a[i - k] = s[i] /\ b[i - k] = t[i]
        /\ a[(i - k) + 1] = s[i + 1] /\ b[(i - k) + 1] = t[i + 1]
    BY <1>2, <2>1, <2>3 DEF l
  <2>5. \A j \in 1..Len(a) : j # i - k /\ j # (i - k) + 1 => b[j] = a[j]
    BY <1>1, <1>2, <1>3
  <2>6. Len(b) = Len(a) /\ i - k \in 1..(Len(a) - 1)
    BY <1>1, <1>2, <1>4
  <2> QED
    BY <1>1, <1>2, <2>4, <2>5, <2>6, Zenon DEF Swapped
<1>5. ASSUME i < k \/ i > n PROVE a = b
  <2>1. i \in Nat
    BY <1>1
  <2>2. \A j \in 1..(n - k) : j + k # i /\ j + k # i + 1
    BY <1>5, <2>1
  <2>3. \A j \in 1..(n - k) : a[j] = b[j]
    BY <1>1, <1>2, <1>3, <2>2
  <2> QED
    BY <1>2, <2>3
<1> QED
  BY <1>4, <1>5 DEF a, b

(* The first n digits of a number.                                         *)
LEMMA FrontIs ==
  ASSUME NEW s, Digits(s), NEW n \in Nat, n <= Len(s)
  PROVE  /\ Digits(SubSeq(s, 1, n)) /\ Len(SubSeq(s, 1, n)) = n
         /\ \A j \in 1..n : SubSeq(s, 1, n)[j] = s[j]
<1>1. s \in Seq(Characters) /\ Len(s) \in Nat /\ \A j \in 1..n : s[j] \in Digit
  BY DEF Digits
<1>2. /\ SubSeq(s, 1, n) \in Seq(Characters) /\ Len(SubSeq(s, 1, n)) = n
      /\ \A j \in 1..n : SubSeq(s, 1, n)[j] = s[j]
  BY <1>1
<1> QED
  BY <1>1, <1>2 DEF Digits

LEMMA FrontMisread ==
  ASSUME NEW s, NEW t, NEW i, Misread(s, t, i), NEW n \in Nat, n <= Len(s)
  PROVE  /\ i <= n => Misread(SubSeq(s, 1, n), SubSeq(t, 1, n), i)
         /\ i > n => SubSeq(s, 1, n) = SubSeq(t, 1, n)
<1> DEFINE k == 0
<1>1. k \in Nat /\ k <= n /\ k + 1 = 1
  OBVIOUS
<1>2. i \in Nat /\ i > k /\ i - k = i
  BY DEF Misread, k
<1> HIDE DEF k
<1>3. /\ i > k /\ i <= n => Misread(SubSeq(s, k + 1, n), SubSeq(t, k + 1, n), i - k)
      /\ i <= k \/ i > n => SubSeq(s, k + 1, n) = SubSeq(t, k + 1, n)
  BY <1>1, PartMisread, Zenon
<1> QED
  BY <1>1, <1>2, <1>3

LEMMA FrontSwapped ==
  ASSUME NEW s, NEW t, NEW i, Swapped(s, t, i), NEW n \in Nat, n <= Len(s)
  PROVE  /\ i < n => Swapped(SubSeq(s, 1, n), SubSeq(t, 1, n), i)
         /\ i > n => SubSeq(s, 1, n) = SubSeq(t, 1, n)
<1> DEFINE k == 0
<1>1. k \in Nat /\ k <= n /\ k + 1 = 1
  OBVIOUS
<1>2. i \in Nat /\ i > k /\ i - k = i
  BY DEF Swapped, k
<1> HIDE DEF k
<1>3. /\ i > k /\ i < n => Swapped(SubSeq(s, k + 1, n), SubSeq(t, k + 1, n), i - k)
      /\ i < k \/ i > n => SubSeq(s, k + 1, n) = SubSeq(t, k + 1, n)
  BY <1>1, PartSwapped, Zenon
<1> QED
  BY <1>1, <1>2, <1>3

(* The remainder of the first n digits, and of one digit more.             *)
LEMMA FrontGrows ==
  ASSUME NEW m \in Chains, NEW s, Digits(s), NEW n \in Nat, n + 1 <= Len(s)
  PROVE  /\ Remainder(SubSeq(s, 1, n), m) \in 0..(m - 1)
         /\ Remainder(SubSeq(s, 1, n + 1), m) = (10 * Remainder(SubSeq(s, 1, n), m) + s[n + 1]) % m
<1> DEFINE a == SubSeq(s, 1, n)
           b == SubSeq(s, 1, n + 1)
<1>1. Len(s) \in Nat /\ n <= Len(s) /\ n + 1 \in Nat
  BY DEF Digits
<1>2. /\ Digits(a) /\ Len(a) = n /\ \A j \in 1..n : a[j] = s[j]
      /\ Digits(b) /\ Len(b) = n + 1 /\ \A j \in 1..(n + 1) : b[j] = s[j]
  BY <1>1, FrontIs
<1> HIDE DEF a, b
<1>3. Remainder(a, m) \in 0..(m - 1)
  BY <1>2, RemainderIs
<1>4. Remainder(b, m) = (10 * Remainder(a, m) + b[n + 1]) % m
  BY <1>2, RemainderGrows
<1>5. b[n + 1] = s[n + 1]
  BY <1>1, <1>2
<1> QED
  BY <1>3, <1>4, <1>5 DEF a, b

LEMMA PairsTell ==
  \A a, b, c, d \in Digit : 10 * a + b = 10 * c + d => a = c /\ b = d
BY DEF Digit

(* The remainder of n digits with two controls behind them: an error       *)
(* changes one of the two, or moves a digit across.                        *)
Tells2(a, b, x, y, m) ==
  \/ Remainder(a, m) # Remainder(b, m) /\ x = y
  \/ Remainder(a, m) = Remainder(b, m) /\ x # y
  \/ \E q \in 0..(m - 1), c, d, e \in Digit :
       /\ c # d /\ Remainder(a, m) = (10 * q + c) % m /\ Remainder(b, m) = (10 * q + d) % m
       /\ x = 10 * d + e /\ y = 10 * c + e

LEMMA TwoControlsTell ==
  ASSUME NEW m \in Chains, NEW n \in Nat \ {0}, NEW s, NEW t, Wrong(s, t), Digits(s), Digits(t),
         Len(s) = n + 2
  PROVE  Tells2(SubSeq(s, 1, n), SubSeq(t, 1, n),
                10 * s[n + 1] + s[n + 2], 10 * t[n + 1] + t[n + 2], m)
<1> DEFINE a == SubSeq(s, 1, n)
           b == SubSeq(t, 1, n)
           x == 10 * s[n + 1] + s[n + 2]
           y == 10 * t[n + 1] + t[n + 2]
<1>1. Len(t) = n + 2 /\ n \in Nat /\ n <= Len(s) /\ n <= Len(t)
  BY WrongIs
<1>2. Digits(a) /\ Digits(b)
  BY <1>1, FrontIs
<1>3. /\ s[n + 1] \in Digit /\ s[n + 2] \in Digit /\ s[n] \in Digit
      /\ t[n + 1] \in Digit /\ t[n + 2] \in Digit /\ t[n] \in Digit
  BY <1>1 DEF Digits
<1>4. s[n + 1] # t[n + 1] \/ s[n + 2] # t[n + 2] => x # y
  <2> DEFINE c == s[n + 1]
             d == s[n + 2]
             e == t[n + 1]
             f == t[n + 2]
  <2>1. c \in Digit /\ d \in Digit /\ e \in Digit /\ f \in Digit
    BY <1>3
  <2> HIDE DEF c, d, e, f
  <2>2. 10 * c + d = 10 * e + f => c = e /\ d = f
    BY <2>1, PairsTell
  <2> QED
    BY <2>2 DEF c, d, e, f
<1>5. /\ s[n + 1] = t[n + 1] /\ s[n + 2] = t[n + 2] => x = y
      /\ s[n] = t[n + 1] /\ s[n + 2] = t[n + 2] => y = 10 * s[n] + s[n + 2]
      /\ t[n] = s[n + 1] => x = 10 * t[n] + s[n + 2]
  OBVIOUS
<1>6. PICK i : Misread(s, t, i) \/ Swapped(s, t, i)
  BY DEF Wrong
<1>7. i \in Nat
  BY <1>6 DEF Misread, Swapped
<1> HIDE DEF x, y
<1>8. CASE Misread(s, t, i)
  <2>1. CASE i <= n
    <3>1. s[n + 1] = t[n + 1] /\ s[n + 2] = t[n + 2]
      BY <1>7, <1>8, <2>1 DEF Misread
    <3>2. Wrong(a, b)
      BY <1>1, <1>8, <2>1, FrontMisread DEF Wrong
    <3> HIDE DEF a, b
    <3>3. Remainder(a, m) # Remainder(b, m)
      BY <1>2, <3>2, RemainderNotices
    <3> QED
      BY <1>5, <3>1, <3>3, Zenon DEF Tells2, a, b, x, y
  <2>2. CASE i > n
    <3>1. a = b
      BY <1>1, <1>8, <2>2, FrontMisread
    <3>2. s[n + 1] # t[n + 1] \/ s[n + 2] # t[n + 2]
      BY <1>7, <1>8, <2>2 DEF Misread
    <3> QED
      BY <1>4, <3>1, <3>2, Zenon DEF Tells2, x, y
  <2> QED
    BY <1>1, <1>7, <2>1, <2>2
<1>9. CASE Swapped(s, t, i)
  <2>1. CASE i < n
    <3>1. s[n + 1] = t[n + 1] /\ s[n + 2] = t[n + 2]
      BY <1>7, <1>9, <2>1 DEF Swapped
    <3>2. Wrong(a, b)
      BY <1>1, <1>9, <2>1, FrontSwapped DEF Wrong
    <3> HIDE DEF a, b
    <3>3. Remainder(a, m) # Remainder(b, m)
      BY <1>2, <3>2, RemainderNotices
    <3> QED
      BY <1>5, <3>1, <3>3, Zenon DEF Tells2, a, b, x, y
  <2>2. CASE i > n
    <3>1. a = b
      BY <1>1, <1>9, <2>2, FrontSwapped
    <3>2. i = n + 1
      BY <1>7, <1>9, <2>2 DEF Swapped
    <3>3. s[n + 1] # t[n + 1]
      BY <1>9, <3>2 DEF Swapped
    <3> QED
      BY <1>4, <3>1, <3>3, Zenon DEF Tells2, x, y
  <2>3. CASE i = n
    <3> DEFINE k == n - 1
               q == Remainder(SubSeq(s, 1, k), m)
    <3>1. k \in Nat /\ k + 1 = n /\ k + 1 <= Len(s) /\ k + 1 <= Len(t) /\ i > k /\ k <= Len(s)
      BY <1>1, <2>3
    <3> HIDE DEF k
    <3>2. SubSeq(s, 1, k) = SubSeq(t, 1, k)
      BY <1>9, <3>1, FrontSwapped
    <3>3. q \in 0..(m - 1) /\ Remainder(SubSeq(s, 1, k + 1), m) = (10 * q + s[k + 1]) % m
      BY <3>1, FrontGrows
    <3>4. Remainder(SubSeq(t, 1, k + 1), m) = (10 * q + t[k + 1]) % m
      BY <3>1, <3>2, FrontGrows
    <3> HIDE DEF q
    <3>5. Remainder(a, m) = (10 * q + s[n]) % m /\ Remainder(b, m) = (10 * q + t[n]) % m
      BY <3>1, <3>3, <3>4
    <3>6. s[n] # t[n] /\ t[n] = s[n + 1] /\ s[n] = t[n + 1] /\ s[n + 2] = t[n + 2]
      BY <1>1, <1>9, <2>3 DEF Swapped
    <3>7. x = 10 * t[n] + s[n + 2] /\ y = 10 * s[n] + s[n + 2]
      BY <1>5, <3>6, Zenon
    <3> QED
      BY <1>3, <3>3, <3>5, <3>6, <3>7, Zenon DEF Tells2, x, y
  <2> QED
    BY <1>1, <1>7, <2>1, <2>2, <2>3
<1> QED
  BY <1>6, <1>8, <1>9

LEMMA LUControls ==
  \A q \in 0..(89 - 1), a, b, c \in Digit :
    (10 * q + a) % 89 = 10 * b + c /\ (10 * q + b) % 89 = 10 * a + c => a = b
BY DEF Digit

LEMMA LUNotices ==
  ASSUME NEW s, NEW t, Wrong(s, t), luVATValid(s), luVATValid(t)
  PROVE  FALSE
<1> DEFINE a == SubSeq(s, 1, 6)
           b == SubSeq(t, 1, 6)
           x == 10 * s[7] + s[8]
           y == 10 * t[7] + t[8]
<1>1. 89 \in Chains /\ 6 \in Nat \ {0} /\ 6 + 1 = 7 /\ 6 + 2 = 8
  BY DEF Chains
<1>2. HasDigits(s, 8) /\ HasDigits(t, 8) /\ Remainder(a, 89) = x /\ Remainder(b, 89) = y
  BY DEF luVATValid, TwoDigits
<1>3. Digits(s) /\ Digits(t) /\ Len(s) = 8
  BY <1>2, WrongIs, HasDigitsIs
<1>4. Tells2(a, b, x, y, 89)
  BY <1>1, <1>3, TwoControlsTell
<1> HIDE DEF a, b, x, y
<1>5. PICK q \in 0..(89 - 1), c \in Digit, d \in Digit, e \in Digit :
        /\ c # d /\ Remainder(a, 89) = (10 * q + c) % 89 /\ Remainder(b, 89) = (10 * q + d) % 89
        /\ x = 10 * d + e /\ y = 10 * c + e
  BY <1>2, <1>4 DEF Tells2
<1> QED
  BY <1>2, <1>5, LUControls

LEMMA BEControls ==
  /\ \A q \in 0..(97 - 1), a, b, c \in Digit :
       97 - ((10 * q + a) % 97) = 10 * b + c /\ 97 - ((10 * q + b) % 97) = 10 * a + c => a = b
  /\ \A q, r \in Int : 97 - q = 97 - r => q = r
BY DEF Digit

LEMMA BETenNotice ==
  ASSUME NEW s, NEW t, Wrong(s, t), HasDigits(s, 10), HasDigits(t, 10),
         97 - Remainder(SubSeq(s, 1, 8), 97) = TwoDigits(s, 9),
         97 - Remainder(SubSeq(t, 1, 8), 97) = TwoDigits(t, 9)
  PROVE  FALSE
<1> DEFINE a == SubSeq(s, 1, 8)
           b == SubSeq(t, 1, 8)
           x == 10 * s[9] + s[10]
           y == 10 * t[9] + t[10]
<1>1. 97 \in Chains /\ 8 \in Nat \ {0} /\ 8 + 1 = 9 /\ 8 + 2 = 10
  BY DEF Chains
<1>2. 97 - Remainder(a, 97) = x /\ 97 - Remainder(b, 97) = y
  BY DEF TwoDigits
<1>3. Digits(s) /\ Digits(t) /\ Len(s) = 10 /\ Len(t) = 10
  BY WrongIs, HasDigitsIs
<1>4. Tells2(a, b, x, y, 97)
  BY <1>1, <1>3, TwoControlsTell
<1>5. Digits(a) /\ Digits(b)
  <2>1. 8 \in Nat /\ 8 <= Len(s) /\ 8 <= Len(t)
    BY <1>3
  <2> QED
    BY <1>3, <2>1, FrontIs, Zenon
<1> HIDE DEF a, b, x, y
<1>6. Remainder(a, 97) \in Int /\ Remainder(b, 97) \in Int
  BY <1>1, <1>5, RemainderIs
<1>7. Remainder(a, 97) = Remainder(b, 97) <=> x = y
  BY <1>2, <1>6, BEControls, SMTT(30)
<1>8. PICK q \in 0..(97 - 1), c \in Digit, d \in Digit, e \in Digit :
        /\ c # d /\ Remainder(a, 97) = (10 * q + c) % 97 /\ Remainder(b, 97) = (10 * q + d) % 97
        /\ x = 10 * d + e /\ y = 10 * c + e
  BY <1>4, <1>7 DEF Tells2
<1> QED
  BY <1>2, <1>8, BEControls

LEMMA PrefixedWrong ==
  ASSUME NEW s, NEW t, Wrong(s, t)
  PROVE  Wrong(<<0>> \o s, <<0>> \o t)
<1> DEFINE a == <<0>> \o s
           b == <<0>> \o t
<1>1. s \in Seq(Characters) /\ t \in Seq(Characters) /\ Len(t) = Len(s) /\ Len(s) \in Nat
  BY WrongIs
<1>2. 0 \in Characters
  BY DEF Characters
<1>3. /\ a \in Seq(Characters) /\ Len(a) = Len(s) + 1 /\ a[1] = 0
      /\ b \in Seq(Characters) /\ Len(b) = Len(s) + 1 /\ b[1] = 0
      /\ \A j \in 1..Len(s) : a[j + 1] = s[j] /\ b[j + 1] = t[j]
  BY <1>1, <1>2
<1> HIDE DEF a, b
<1>4. PICK i : Misread(s, t, i) \/ Swapped(s, t, i)
  BY DEF Wrong
<1>5. i \in 1..Len(s) /\ i + 1 \in 1..Len(a)
  BY <1>1, <1>3, <1>4 DEF Misread, Swapped
<1>6. ASSUME NEW j \in 1..Len(a), j # i + 1, Misread(s, t, i) \/ (Swapped(s, t, i) /\ j # i + 2)
      PROVE  b[j] = a[j]
  <2>1. CASE j = 1
    BY <1>3, <2>1
  <2>2. CASE j # 1
    <3> DEFINE k == j - 1
    <3>1. k \in 1..Len(s) /\ k + 1 = j /\ k # i /\ (j # i + 2 => k # i + 1)
      BY <1>1, <1>3, <1>5, <1>6, <2>2
    <3> HIDE DEF k
    <3>2. t[k] = s[k]
      BY <1>6, <3>1 DEF Misread, Swapped
    <3>3. a[k + 1] = s[k] /\ b[k + 1] = t[k]
      BY <1>3, <3>1
    <3> QED
      BY <3>1, <3>2, <3>3
  <2> QED
    BY <2>1, <2>2
<1>7. CASE Misread(s, t, i)
  <2>1. s[i] # t[i] /\ (s[i] \in Digit <=> t[i] \in Digit)
    BY <1>7 DEF Misread
  <2>2. a[i + 1] = s[i] /\ b[i + 1] = t[i] /\ Len(b) = Len(a)
    BY <1>3, <1>5
  <2>3. \A j \in 1..Len(a) : j # i + 1 => b[j] = a[j]
    BY <1>6, <1>7
  <2>4. Misread(a, b, i + 1)
    BY <1>3, <1>5, <2>1, <2>2, <2>3, Zenon DEF Misread
  <2> QED
    BY <2>4 DEF Wrong, a, b
<1>8. CASE Swapped(s, t, i)
  <2> DEFINE k == i + 1
  <2>1. /\ s[i] # s[k] /\ s[i] \in Digit /\ s[k] \in Digit /\ t[i] = s[k] /\ t[k] = s[i]
        /\ k \in 1..Len(s) /\ k \in 1..(Len(a) - 1)
    BY <1>1, <1>3, <1>8 DEF Swapped
  <2>2. \A j \in 1..Len(a) : j # i + 1 /\ j # i + 2 => b[j] = a[j]
    BY <1>6, <1>8
  <2>3. i + 2 = k + 1
    BY <1>5
  <2>4. \A j \in 1..Len(a) : j # k /\ j # k + 1 => b[j] = a[j]
    BY <2>2, <2>3
  <2>5. a[k] = s[i] /\ b[k] = t[i] /\ Len(b) = Len(a)
    BY <1>3, <1>5
  <2> HIDE DEF k
  <2>6. a[k + 1] = s[k] /\ b[k + 1] = t[k]
    BY <1>3, <2>1
  <2>7. Swapped(a, b, k)
    BY <1>3, <2>1, <2>4, <2>5, <2>6, Zenon DEF Swapped
  <2> QED
    BY <2>7 DEF Wrong, a, b
<1> QED
  BY <1>4, <1>7, <1>8

LEMMA BENotices ==
  ASSUME NEW s, NEW t, Wrong(s, t), beVATValid(s), beVATValid(t)
  PROVE  FALSE
<1>1. Len(t) = Len(s)
  BY WrongIs
<1>2. CASE Len(s) = 9
  <2> DEFINE a == <<0>> \o s
             b == <<0>> \o t
  <2>1. /\ HasDigits(a, 10) /\ 97 - Remainder(SubSeq(a, 1, 8), 97) = TwoDigits(a, 9)
        /\ HasDigits(b, 10) /\ 97 - Remainder(SubSeq(b, 1, 8), 97) = TwoDigits(b, 9)
    BY <1>1, <1>2 DEF beVATValid
  <2>2. Wrong(a, b)
    BY PrefixedWrong
  <2> HIDE DEF a, b
  <2> QED
    BY <2>1, <2>2, BETenNotice
<1>3. CASE Len(s) # 9
  <2>1. /\ HasDigits(s, 10) /\ 97 - Remainder(SubSeq(s, 1, 8), 97) = TwoDigits(s, 9)
        /\ HasDigits(t, 10) /\ 97 - Remainder(SubSeq(t, 1, 8), 97) = TwoDigits(t, 9)
    BY <1>1, <1>3 DEF beVATValid
  <2> QED
    BY <2>1, BETenNotice
<1> QED
  BY <1>2, <1>3

-----------------------------------------------------------------------------
(* ISO 7064                                                                *)

HybridLoop == [x \in (1..10) \X Digit |-> HybridStep(x[1], x[2])]

LEMMA HybridLoopIs == \A p \in 1..10, d \in Digit : HybridLoop[<<p, d>>] = HybridStep(p, d)
<1> SUFFICES ASSUME NEW p \in 1..10, NEW d \in Digit
             PROVE  HybridLoop[<<p, d>>] = HybridStep(p, d)
  OBVIOUS
<1>1. <<p, d>> \in (1..10) \X Digit
  OBVIOUS
<1> QED
  BY <1>1 DEF HybridLoop

LEMMA HybridArithmetic ==
  /\ \A p \in 1..10, d \in Digit : HybridStep(p, d) \in 1..10
  /\ \A p, q \in 1..10, d \in Digit : HybridStep(p, d) = HybridStep(q, d) => p = q
  /\ \A p \in 1..10, d, e \in Digit : HybridStep(p, d) = HybridStep(p, e) => d = e
<1>1. \A p \in 1..10, d \in Digit : HybridStep(p, d) \in 1..10
  BY DEF HybridStep, Digit
<1>2. \A p, q \in 1..10, d \in Digit : HybridStep(p, d) = HybridStep(q, d) => p = q
  BY DEF HybridStep, Digit
<1>3. \A p \in 1..10, d, e \in Digit : HybridStep(p, d) = HybridStep(p, e) => d = e
  BY DEF HybridStep, Digit
<1> QED
  BY <1>1, <1>2, <1>3, Zenon

LEMMA HybridTells == TellsApart(HybridLoop, 1..10)
<1> DEFINE P == 1..10
<1>1. \A p \in P, d \in Digit : HybridLoop[<<p, d>>] = HybridStep(p, d)
  BY HybridLoopIs
<1>2. ASSUME NEW p \in P, NEW d \in Digit PROVE HybridLoop[<<p, d>>] \in P
  BY <1>1, HybridArithmetic
<1>3. ASSUME NEW p \in P, NEW q \in P, NEW d \in Digit, HybridLoop[<<p, d>>] = HybridLoop[<<q, d>>]
      PROVE  p = q
  BY <1>1, <1>3, HybridArithmetic
<1>4. ASSUME NEW p \in P, NEW d \in Digit, NEW e \in Digit, HybridLoop[<<p, d>>] = HybridLoop[<<p, e>>]
      PROVE  d = e
  BY <1>1, <1>4, HybridArithmetic
<1> HIDE DEF P
<1>5. TellsApart(HybridLoop, P)
  BY <1>2, <1>3, <1>4, Zenon DEF TellsApart
<1> QED
  BY <1>5 DEF P

LEMMA HybridControls ==
  \A a, b \in 1..10 : (11 - a) % 10 = (11 - b) % 10 => a = b
OBVIOUS

LEMMA HybridNotices ==
  ASSUME NEW n \in Nat \ {0}, NEW s, NEW t, NEW i, Misread(s, t, i),
         HybridValid(s, n), HybridValid(t, n)
  PROVE  FALSE
<1> DEFINE a == SubSeq(s, 1, n - 1)
           b == SubSeq(t, 1, n - 1)
           P == 1..10
<1>1. /\ s \in Seq(Characters) /\ t \in Seq(Characters) /\ i \in 1..Len(s) /\ s[i] # t[i]
      /\ \A j \in 1..Len(s) : j # i => t[j] = s[j]
  BY DEF Misread
<1>2. HasDigits(s, n) /\ HasDigits(t, n) /\ (11 - Hybrid(a)) % 10 = s[n] /\ (11 - Hybrid(b)) % 10 = t[n]
  BY DEF HybridValid
<1>3. Digits(s) /\ Digits(t) /\ Len(s) = n /\ Len(t) = n
  BY <1>1, <1>2, HasDigitsIs
<1>4. n - 1 \in Nat /\ n - 1 <= Len(s) /\ n - 1 <= Len(t) /\ n \in 1..Len(s)
  BY <1>3
<1>5. Digits(a) /\ Digits(b)
  BY <1>3, <1>4, FrontIs
<1>6. a \in Seq(Digit) /\ b \in Seq(Digit)
  BY <1>5, DigitsAreSeq
<1>7. i <= n - 1 => Misread(a, b, i)
  BY <1>4, FrontMisread
<1>8. i > n - 1 => a = b
  BY <1>4, FrontMisread
<1>9. Hybrid(a) = Accumulate(HybridLoop, 10, a) /\ Hybrid(b) = Accumulate(HybridLoop, 10, b)
  BY DEF Hybrid, HybridLoop
<1>10. 10 \in P /\ TellsApart(HybridLoop, P)
  BY HybridTells
<1> HIDE DEF a, b, P
<1>11. Hybrid(a) \in P /\ Hybrid(b) \in P
  <2>1. Accumulate(HybridLoop, 10, a) \in P
    BY <1>6, <1>10, LoopStays
  <2>2. Accumulate(HybridLoop, 10, b) \in P
    BY <1>6, <1>10, LoopStays
  <2> QED
    BY <1>9, <2>1, <2>2
<1>12. CASE i = n
  <2>1. i > n - 1
    BY <1>1, <1>3, <1>12
  <2> QED
    BY <1>1, <1>2, <1>8, <1>12, <2>1
<1>13. CASE i # n
  <2>1. i <= n - 1
    BY <1>1, <1>3, <1>13
  <2>2. Misread(a, b, i)
    BY <1>7, <2>1
  <2>3. Hybrid(a) # Hybrid(b)
    BY <1>6, <1>9, <1>10, <2>2, LoopNoticesMisread, Zenon
  <2>4. s[n] = t[n]
    BY <1>1, <1>4, <1>13
  <2> QED
    BY <1>2, <1>11, <2>3, <2>4, HybridControls DEF P
<1> QED
  BY <1>12, <1>13

-----------------------------------------------------------------------------
(* Letters                                                                 *)

LEMMA LettersAre ==
  /\ \A l \in Range(Alphabet) : CodeOf[l] \in Alpha
  /\ \A l, k \in Range(Alphabet) : CodeOf[l] = CodeOf[k] => l = k
<1> DEFINE at(l) == CHOOSE i \in 1..26 : Alphabet[i] = l
<1>1. ASSUME NEW l \in Range(Alphabet)
      PROVE  at(l) \in 1..26 /\ Alphabet[at(l)] = l /\ CodeOf[l] = 9 + at(l)
  <2>1. DOMAIN Alphabet = 1..26
    BY DEF Alphabet
  <2>2. \E i \in 1..26 : Alphabet[i] = l
    BY <2>1 DEF Range
  <2>3. at(l) \in 1..26 /\ Alphabet[at(l)] = l
    BY <2>2, Zenon
  <2>4. CodeOf[l] = 9 + at(l)
    BY Zenon DEF CodeOf
  <2> QED
    BY <2>3, <2>4
<1> HIDE DEF at
<1>2. \A l \in Range(Alphabet) : CodeOf[l] \in Alpha
  BY <1>1 DEF Alpha
<1>3. ASSUME NEW l \in Range(Alphabet), NEW k \in Range(Alphabet), CodeOf[l] = CodeOf[k]
      PROVE  l = k
  <2>1. at(l) = at(k)
    BY <1>1, <1>3
  <2> QED
    BY <1>1, <2>1
<1> QED
  BY <1>2, <1>3

(* The letter J stands for a control of ten, behind A to I for one to nine. *)
LEMMA TenthLetter == CodeOf["J"] = 19
<1> DEFINE n == CHOOSE i \in 1..26 : Alphabet[i] = "J"
<1>1. Alphabet[10] = "J" /\ \A i \in 1..26 : Alphabet[i] = "J" => i = 10
  BY DEF Alphabet
<1>2. n \in 1..26 /\ Alphabet[n] = "J"
  <2>1. 10 \in 1..26
    OBVIOUS
  <2> QED
    BY <1>1, <2>1, Zenon
<1>3. n = 10
  BY <1>1, <1>2
<1>4. "J" \in Range(Alphabet)
  BY DEF Alphabet, Range
<1>5. CodeOf["J"] = 9 + n
  BY <1>4, Zenon DEF CodeOf
<1> HIDE DEF n
<1> QED
  BY <1>3, <1>5

-----------------------------------------------------------------------------
(* Spain                                                                   *)

LEMMA CIFControls ==
  \A a, b \in Int :
    LET c == (10 - (a % 10)) % 10
        d == (10 - (b % 10)) % 10
    IN  /\ c \in Digit /\ d \in Digit /\ (c = d => a % 10 = b % 10)
        /\ (IF c = 0 THEN 19 ELSE 9 + c) \in Alpha /\ (IF d = 0 THEN 19 ELSE 9 + d) \in Alpha
        /\ (IF c = 0 THEN 19 ELSE 9 + c) = (IF d = 0 THEN 19 ELSE 9 + d) => c = d
BY DEF Digit, Alpha

LEMMA RestOfNine ==
  ASSUME NEW u \in Seq(Characters), Len(u) = 9, allDigits(SubSeq(u, 2, 8))
  PROVE  \A j \in 1..7 : u[j + 1] \in Digit
<1> DEFINE a == SubSeq(u, 2, 8)
<1>1. DOMAIN a = 1..7 /\ \A j \in 1..7 : a[j] = u[j + 1]
  OBVIOUS
<1> HIDE DEF a
<1>2. \A j \in DOMAIN a : a[j] \in Digit
  BY DEF allDigits, a
<1> QED
  BY <1>1, <1>2

LEMMA CIFNotices ==
  ASSUME NEW s, NEW t, NEW i, Misread(s, t, i), i # 1, esCIFValid(s), esCIFValid(t)
  PROVE  FALSE
<1> DEFINE term(u, j) == IF j % 2 = 1 THEN Doubled(u[j + 1]) ELSE u[j + 1]
           terms(u) == [j \in 1..7 |-> term(u, j)]
           control(x) == (10 - (x % 10)) % 10
           letter(x) == IF control(x) = 0 THEN 19 ELSE 9 + control(x)
<1>1. /\ s \in Seq(Characters) /\ t \in Seq(Characters) /\ Len(s) = 9 /\ i \in 2..9
      /\ s[i] # t[i] /\ (s[i] \in Digit <=> t[i] \in Digit)
      /\ \A j \in 1..9 : j # i => t[j] = s[j]
  BY DEF Misread, esCIFValid
<1>2. ASSUME NEW u \in Seq(Characters), esCIFValid(u)
      PROVE  /\ \A j \in 1..7 : u[j + 1] \in Digit
             /\ u[9] = control(Total(terms(u))) \/ u[9] = letter(Total(terms(u)))
  <2>1. allDigits(SubSeq(u, 2, 8)) /\ Len(u) = 9
    BY <1>2 DEF esCIFValid
  <2>2. \A j \in 1..7 : u[j + 1] \in Digit
    BY <2>1, RestOfNine
  <2>3. u[9] = control(Total(terms(u))) \/ u[9] = letter(Total(terms(u)))
    BY <1>2, TenthLetter DEF esCIFValid
  <2> QED
    BY <2>2, <2>3
<1>3. \A j \in 1..7 : s[j + 1] \in Digit /\ t[j + 1] \in Digit
  BY <1>1, <1>2
<1>4. \A j \in 1..7 : term(s, j) \in Digit /\ term(t, j) \in Digit
  BY <1>3, DoubledIs, Zenon
<1>5. \A j \in 1..7 : s[j + 1] # t[j + 1] => term(s, j) # term(t, j)
  BY <1>3, DoubledIs, Zenon
<1>6. \A j \in 1..7 : s[j + 1] = t[j + 1] => term(s, j) = term(t, j)
  OBVIOUS
<1> HIDE DEF term
<1> DEFINE p == terms(s)
           q == terms(t)
<1>7. /\ p \in Seq(Digit) /\ Len(p) = 7 /\ \A j \in 1..7 : p[j] = term(s, j)
      /\ q \in Seq(Digit) /\ Len(q) = 7 /\ \A j \in 1..7 : q[j] = term(t, j)
  BY <1>4
<1>8. /\ s[9] = control(Total(p)) \/ s[9] = letter(Total(p))
      /\ t[9] = control(Total(q)) \/ t[9] = letter(Total(q))
  BY <1>1, <1>2
<1> HIDE DEF terms, p, q
<1>9. CASE i = 9
  <2>1. \A j \in 1..7 : s[j + 1] = t[j + 1]
    BY <1>1, <1>9
  <2>2. p = q
    BY <1>6, <1>7, <2>1
  <2>3. p \in Seq(Int)
    BY <1>7 DEF Digit
  <2>4. Total(p) \in Int
    <3>1. PICK v : Total(p) = v[Len(p)] /\ \A n \in 0..Len(p) : v[n] \in Int
      BY <2>3, TotalAdds
    <3>2. Len(p) \in 0..Len(p)
      BY <1>7
    <3> QED
      BY <3>1, <3>2
  <2> DEFINE a == Total(p)
  <2> HIDE DEF a
  <2>5. /\ control(a) \in Digit /\ letter(a) \in Alpha
        /\ s[9] = control(a) \/ s[9] = letter(a)
        /\ t[9] = control(a) \/ t[9] = letter(a)
    BY <1>8, <2>2, <2>4, CIFControls DEF a
  <2>6. \A c \in Alpha : c \notin Digit
    BY DEF Alpha, Digit
  <2> HIDE DEF control, letter
  <2> QED
    BY <1>1, <1>9, <2>5, <2>6
<1>10. CASE i # 9
  <2> DEFINE k == i - 1
  <2>1. k \in 1..7 /\ k + 1 = i /\ s[9] = t[9]
    BY <1>1, <1>10
  <2> HIDE DEF k
  <2>2. p[k] # q[k]
    BY <1>1, <1>5, <1>7, <2>1
  <2>3. \A j \in 1..7 : j # k => q[j] = p[j]
    BY <1>1, <1>6, <1>7, <2>1
  <2>4. Total(p) \in Int /\ Total(q) \in Int /\ Total(p) % 10 # Total(q) % 10
    <3>1. Len(q) = Len(p) /\ k \in 1..Len(p) /\ \A j \in 1..Len(p) : j # k => q[j] = p[j]
      BY <1>7, <2>1, <2>3
    <3> QED
      BY <1>7, <2>2, <3>1, OneTermShows
  <2> DEFINE a == Total(p)
             b == Total(q)
  <2>5. /\ a \in Int /\ b \in Int /\ a % 10 # b % 10
        /\ s[9] = control(a) \/ s[9] = letter(a)
        /\ s[9] = control(b) \/ s[9] = letter(b)
    BY <1>8, <2>1, <2>4
  <2> HIDE DEF a, b
  <2>6. /\ control(a) \in Digit /\ control(b) \in Digit
        /\ letter(a) \in Alpha /\ letter(b) \in Alpha
        /\ control(a) # control(b) /\ letter(a) # letter(b)
    BY <2>5, CIFControls
  <2>7. \A c \in Alpha : c \notin Digit
    BY DEF Alpha, Digit
  <2> HIDE DEF control, letter
  <2> QED
    BY <2>5, <2>6, <2>7
<1> QED
  BY <1>9, <1>10

LEMMA VerdictIs == \A ok \in BOOLEAN : mod11Verdict(ok) = "checksum_valid" <=> ok
BY DEF mod11Verdict

(* The letter that stands for a number's remainder.                        *)
LetterAgrees(s, body) ==
  allDigits(body) /\ s[9] \in Alpha /\ nifLetters[Remainder(body, 23) + 1] = s[9]

LEMMA NIFIs ==
  ASSUME NEW s, esNIFVerdict(s) = "checksum_valid"
  PROVE  /\ Len(s) = 9
         /\ \/ s[1] \in Digit /\ LetterAgrees(s, SubSeq(s, 1, 8))
            \/ /\ s[1] \notin Digit /\ s[1] \in CodeOf["X"]..CodeOf["Z"]
               /\ LetterAgrees(s, <<s[1] - CodeOf["X"]>> \o SubSeq(s, 2, 8))
            \/ /\ s[1] \notin Digit /\ s[1] \notin CodeOf["X"]..CodeOf["Z"]
               /\ esCIFValid(s)
<1> DEFINE X == CodeOf["X"]..CodeOf["Z"]
           K == CodeOf["K"]..CodeOf["M"]
<1>1. Len(s) = 9
  BY DEF esNIFVerdict
<1>2. CASE s[1] \in Digit
  <2> DEFINE first == "X"
             second == "K"
  <2>1. first \in Range(Alphabet) /\ second \in Range(Alphabet)
    BY DEF Alphabet, Range
  <2> HIDE DEF first, second
  <2>2. CodeOf[first] \in Alpha /\ CodeOf[second] \in Alpha
    BY <2>1, LettersAre
  <2>3. s[1] \notin X /\ s[1] \notin K
    BY <1>2, <2>2 DEF Digit, Alpha, first, second
  <2> DEFINE body == SubSeq(s, 1, 8)
             agrees == allDigits(body) /\ s[9] \in Alpha
                         /\ nifLetters[Remainder(body, 23) + 1] = s[9]
  <2>4. mod11Verdict(agrees) = "checksum_valid"
    BY <1>1, <1>2, <2>3 DEF esNIFVerdict
  <2>5. LetterAgrees(s, SubSeq(s, 1, 8))
    BY <2>4 DEF mod11Verdict, LetterAgrees
  <2> QED
    BY <1>1, <1>2, <2>5
<1>3. CASE s[1] \notin Digit /\ s[1] \in X
  <2>1. mod11Verdict(LetterAgrees(s, <<s[1] - CodeOf["X"]>> \o SubSeq(s, 2, 8))) = "checksum_valid"
    BY <1>1, <1>3 DEF esNIFVerdict, LetterAgrees
  <2>2. LetterAgrees(s, <<s[1] - CodeOf["X"]>> \o SubSeq(s, 2, 8))
    BY <2>1 DEF mod11Verdict
  <2> QED
    BY <1>1, <1>3, <2>2
<1>4. CASE s[1] \notin Digit /\ s[1] \notin X
  <2>1. s[1] \notin K
    BY <1>1, <1>4 DEF esNIFVerdict
  <2>2. mod11Verdict(esCIFValid(s)) = "checksum_valid"
    BY <1>1, <1>4, <2>1 DEF esNIFVerdict
  <2>3. esCIFValid(s)
    BY <2>2 DEF mod11Verdict
  <2> QED
    BY <1>1, <1>4, <2>3
<1> QED
  BY <1>2, <1>3, <1>4

LEMMA NIFLettersDiffer ==
  \A i, j \in 1..23 : nifLetters[i] = nifLetters[j] => i = j
<1> DEFINE letters == <<"T", "R", "W", "A", "G", "M", "Y", "F", "P", "D", "X", "B",
                        "N", "J", "Z", "S", "Q", "V", "H", "L", "C", "K", "E">>
<1>1. DOMAIN letters = 1..23
  OBVIOUS
<1>2. \A i \in 1..23 : letters[i] \in Range(Alphabet)
  BY DEF Alphabet, Range
<1>3. \A i, j \in 1..23 : letters[i] = letters[j] => i = j
  OBVIOUS
<1>4. nifLetters = [i \in DOMAIN letters |-> CodeOf[letters[i]]]
  BY DEF nifLetters, Word
<1> HIDE DEF letters
<1>5. \A i \in 1..23 : nifLetters[i] = CodeOf[letters[i]]
  BY <1>1, <1>4
<1> QED
  BY <1>2, <1>3, <1>5, LettersAre, ZenonT(60)

(* A number, and the digits its letter was computed from.                  *)
LEMMA LetterNotices ==
  ASSUME NEW s, NEW t, NEW a, NEW b, NEW i, LetterAgrees(s, a), LetterAgrees(t, b),
         a \in Seq(Characters), b \in Seq(Characters),
         \/ a = b /\ s[9] # t[9]
         \/ Misread(a, b, i) /\ s[9] = t[9]
  PROVE  FALSE
<1>1. /\ nifLetters[Remainder(a, 23) + 1] = s[9] /\ nifLetters[Remainder(b, 23) + 1] = t[9]
      /\ Digits(a) /\ Digits(b)
  BY DEF LetterAgrees, allDigits, Digits
<1>2. 23 \in Chains
  BY DEF Chains
<1>3. Remainder(a, 23) \in 0..(23 - 1) /\ Remainder(b, 23) \in 0..(23 - 1)
  BY <1>1, <1>2, RemainderIs
<1>4. CASE a = b /\ s[9] # t[9]
  BY <1>1, <1>4
<1>5. CASE Misread(a, b, i) /\ s[9] = t[9]
  <2>1. Remainder(a, 23) # Remainder(b, 23)
    BY <1>1, <1>2, <1>5, RemainderNotices DEF Wrong
  <2>2. nifLetters[Remainder(a, 23) + 1] = nifLetters[Remainder(b, 23) + 1]
    BY <1>1, <1>5
  <2> DEFINE x == Remainder(a, 23)
             y == Remainder(b, 23)
  <2>3. x \in 0..(23 - 1) /\ y \in 0..(23 - 1)
    BY <1>3
  <2> HIDE DEF x, y
  <2>4. x + 1 \in 1..23 /\ y + 1 \in 1..23 /\ x \in Int /\ y \in Int
    BY <2>3
  <2>5. x + 1 = y + 1
    BY <2>2, <2>4, NIFLettersDiffer DEF x, y
  <2>6. x = y
    BY <2>4, <2>5
  <2> QED
    BY <2>1, <2>6 DEF x, y
<1> QED
  BY <1>4, <1>5

LEMMA EightOfNine ==
  ASSUME NEW u \in Seq(Characters), Len(u) = 9
  PROVE  SubSeq(u, 1, 8) \in Seq(Characters) /\ SubSeq(u, 2, 8) \in Seq(Characters)
<1> DEFINE k == 0
           l == 1
           n == 8
<1>1. k \in Nat /\ l \in Nat /\ n \in Nat /\ k <= n /\ l <= n /\ n <= Len(u)
  OBVIOUS
<1> HIDE DEF k, l, n
<1>2. SubSeq(u, k + 1, n) \in Seq(Characters) /\ SubSeq(u, l + 1, n) \in Seq(Characters)
  BY <1>1, PartIs
<1> QED
  BY <1>2 DEF k, l, n

LEMMA ESNotices ==
  ASSUME NEW s, NEW t, NEW i, Misread(s, t, i), i = 1 => s[1] \in Digit,
         esNIFVerdict(s) = "checksum_valid", esNIFVerdict(t) = "checksum_valid"
  PROVE  FALSE
<1>1. /\ s \in Seq(Characters) /\ t \in Seq(Characters) /\ i \in 1..Len(s) /\ s[i] # t[i]
      /\ (s[i] \in Digit <=> t[i] \in Digit) /\ Len(t) = Len(s)
      /\ \A j \in 1..Len(s) : j # i => t[j] = s[j]
  BY DEF Misread
<1>2. Len(s) = 9 /\ Len(t) = 9
  BY NIFIs
<1>3. s[1] \in Digit <=> t[1] \in Digit
  BY <1>1, <1>2
<1>4. i # 9 => s[9] = t[9]
  BY <1>1, <1>2
<1>5. CASE s[1] \in Digit
  <2> DEFINE a == SubSeq(s, 1, 8)
             b == SubSeq(t, 1, 8)
             n == 8
  <2>1. LetterAgrees(s, a) /\ LetterAgrees(t, b)
    BY <1>3, <1>5, NIFIs
  <2>2. a \in Seq(Characters) /\ b \in Seq(Characters)
    BY <1>1, <1>2, EightOfNine
  <2>3. n \in Nat /\ n <= Len(s)
    BY <1>2
  <2>4. a = SubSeq(s, 1, n) /\ b = SubSeq(t, 1, n)
    OBVIOUS
  <2>5. i <= n \/ (i = 9 /\ i > n)
    BY <1>1, <1>2
  <2> HIDE DEF n, a, b
  <2>6. CASE i <= n
    <3>1. i # 9
      BY <2>6 DEF n
    <3>2. Misread(a, b, i)
      BY <2>3, <2>4, <2>6, FrontMisread
    <3> QED
      BY <1>4, <2>1, <2>2, <3>1, <3>2, LetterNotices
  <2>7. CASE i = 9 /\ i > n
    <3>1. a = b
      BY <2>3, <2>4, <2>7, FrontMisread
    <3> QED
      BY <1>1, <2>1, <2>2, <2>7, <3>1, LetterNotices
  <2> QED
    BY <2>5, <2>6, <2>7
<1>6. CASE s[1] \notin Digit
  <2>1. i # 1 /\ t[1] = s[1] /\ t[1] \notin Digit
    BY <1>1, <1>2, <1>3, <1>6
  <2>2. CASE s[1] \in CodeOf["X"]..CodeOf["Z"]
    <3> DEFINE x == s[1] - CodeOf["X"]
               a == <<x>> \o SubSeq(s, 2, 8)
               b == <<x>> \o SubSeq(t, 2, 8)
    <3>1. LetterAgrees(s, a) /\ LetterAgrees(t, b)
      BY <1>6, <2>1, <2>2, NIFIs
    <3>2. Len(a) = 8 /\ Len(b) = 8 /\ a[1] = x
      BY <1>1, <1>2
    <3>3. x \in Characters
      <4>1. 1 \in DOMAIN a
        BY <3>2
      <4>2. a[1] \in Digit
        BY <3>1, <4>1, Zenon DEF LetterAgrees, allDigits
      <4> QED
        BY <3>2, <4>2, CharactersAreNumbers
    <3> HIDE DEF x
    <3>4. SubSeq(s, 2, 8) \in Seq(Characters) /\ SubSeq(t, 2, 8) \in Seq(Characters)
      BY <1>1, <1>2, EightOfNine
    <3>5. <<x>> \in Seq(Characters)
      BY <3>3
    <3>6. a \in Seq(Characters) /\ b \in Seq(Characters)
      BY <3>4, <3>5
    <3>7. a[1] = b[1] /\ \A j \in 2..8 : a[j] = s[j] /\ b[j] = t[j]
      BY <1>1, <1>2
    <3> HIDE DEF a, b
    <3>8. CASE i = 9
      <4>1. \A j \in 1..8 : a[j] = b[j]
        BY <1>1, <1>2, <3>7, <3>8
      <4>2. a = b
        BY <3>2, <3>6, <4>1
      <4> QED
        BY <1>1, <3>1, <3>6, <3>8, <4>2, LetterNotices
    <3>9. CASE i # 9
      <4>1. i \in 2..8
        BY <1>1, <1>2, <2>1, <3>9
      <4>2. \A j \in 1..8 : j # i => b[j] = a[j]
        BY <1>1, <1>2, <3>7
      <4>3. Misread(a, b, i)
        BY <1>1, <1>2, <3>2, <3>6, <3>7, <4>1, <4>2 DEF Misread
      <4> QED
        BY <1>4, <3>1, <3>6, <3>9, <4>3, LetterNotices
    <3> QED
      BY <3>8, <3>9
  <2>3. CASE s[1] \notin CodeOf["X"]..CodeOf["Z"]
    BY <1>6, <2>1, <2>3, NIFIs, CIFNotices
  <2> QED
    BY <2>2, <2>3
<1> QED
  BY <1>5, <1>6

-----------------------------------------------------------------------------
(* Ireland                                                                 *)

(* An error keeps the sort of every character.                             *)
LEMMA SortsAreKept ==
  ASSUME NEW s, NEW t, Wrong(s, t)
  PROVE  \A j \in 1..Len(s) : s[j] \in Digit <=> t[j] \in Digit
<1>1. PICK i : Misread(s, t, i) \/ Swapped(s, t, i)
  BY DEF Wrong
<1>2. CASE Misread(s, t, i)
  BY <1>2 DEF Misread
<1>3. CASE Swapped(s, t, i)
  <2>1. ASSUME NEW j \in 1..Len(s) PROVE s[j] \in Digit <=> t[j] \in Digit
    <3>1. j = i \/ j = i + 1 \/ (j # i /\ j # i + 1)
      OBVIOUS
    <3> QED
      BY <1>3, <3>1 DEF Swapped
  <2> QED
    BY <2>1
<1> QED
  BY <1>1, <1>2, <1>3

(* A digit misread, or two swapped, and the sum's remainder is another.    *)
LEMMA RowDiffers ==
  ASSUME NEW m \in Moduli, NEW x \in Seq(Int), NEW s, NEW t, NEW i,
         \/ Misread(s, t, i) /\ s[i] \in Digit /\ i <= Len(x)
         \/ Swapped(s, t, i) /\ i + 1 <= Len(x),
         Len(x) <= Len(s), TellsDigits(x, m), TellsNeighbours(x, m)
  PROVE  Weighted(x, s) % m # Weighted(x, t) % m
<1>1. CASE Misread(s, t, i) /\ s[i] \in Digit /\ i <= Len(x)
  <2>1. i \in 1..Len(x)
    BY <1>1 DEF Misread
  <2>2. Tells(x[i], m)
    BY <2>1, Zenon DEF TellsDigits
  <2> QED
    BY <1>1, <2>2, MisreadShows
<1>2. CASE Swapped(s, t, i) /\ i + 1 <= Len(x)
  <2>1. i \in 1..(Len(x) - 1)
    BY <1>2 DEF Swapped
  <2>2. Tells(x[i] - x[i + 1], m)
    BY <2>1, Zenon DEF TellsNeighbours
  <2> QED
    BY <1>2, <2>2, SwapShows
<1> QED
  BY <1>1, <1>2

LEMMA RowTells23 ==
  ASSUME NEW x \in Seq(Int), \A j \in 1..Len(x) : x[j] \in -22..22 /\ x[j] # 0
  PROVE  TellsDigits(x, 23)
BY TellsModulo23, Zenon DEF TellsDigits

LEMMA RowTellsNeighbours23 ==
  ASSUME NEW x \in Seq(Int),
         \A j \in 1..(Len(x) - 1) : x[j] - x[j + 1] \in -22..22 /\ x[j] - x[j + 1] # 0
  PROVE  TellsNeighbours(x, 23)
BY TellsModulo23, Zenon DEF TellsNeighbours

(* ieVATValid of a number that is cut to its eight characters.             *)
IEIndex(s) == (CHOOSE i \in 1..23 : ieCheckChars[i] = s[8]) - 1

IEOldBody(s) == SubSeq(s, 3, 7) \o <<s[1]>>

IENewForm(s) ==
  allDigits(SubSeq(s, 1, 7)) /\ IEIndex(s) = Weighted(<<8, 7, 6, 5, 4, 3, 2>>, s) % 23

IEOldForm(s) ==
  /\ s[1] \in Digit /\ s[2] \in Alpha /\ allDigits(SubSeq(s, 3, 7))
  /\ IEIndex(s) = Weighted(<<7, 6, 5, 4, 3, 2>>, IEOldBody(s)) % 23

IEAgrees(s) ==
  Len(s) = 8 /\ s[8] \in Range(ieCheckChars) /\ (IENewForm(s) \/ IEOldForm(s))

IECut(s) == IF Len(s) = 9 /\ s[9] \in Alpha THEN SubSeq(s, 1, 8) ELSE s

LEMMA IEValidIs == \A s : ieVATValid(s) => IEAgrees(IECut(s))
<1> TAKE s
<1> HAVE ieVATValid(s)
<1> DEFINE u == IECut(s)
<1>1. u = IF Len(s) = 9 /\ s[9] \in Alpha THEN SubSeq(s, 1, 8) ELSE s
  BY DEF IECut
<1>2. ieVATValid(s) = IEAgrees(IF Len(s) = 9 /\ s[9] \in Alpha THEN SubSeq(s, 1, 8) ELSE s)
  BY DEF ieVATValid, IEAgrees, IENewForm, IEOldForm, IEIndex, IEOldBody
<1> HIDE DEF u
<1> QED
  BY <1>1, <1>2 DEF u

(* The letter is known by its place.                                       *)
LEMMA IEIndexIs ==
  ASSUME NEW s, s[8] \in Range(ieCheckChars)
  PROVE  ieCheckChars[IEIndex(s) + 1] = s[8]
<1>1. DOMAIN ieCheckChars = 1..23
  BY DEF ieCheckChars, Word
<1>2. \E i \in 1..23 : ieCheckChars[i] = s[8]
  BY <1>1 DEF Range
<1> DEFINE c == CHOOSE i \in 1..23 : ieCheckChars[i] = s[8]
<1>3. c \in 1..23 /\ ieCheckChars[c] = s[8]
  BY <1>2, Zenon
<1>4. IEIndex(s) = c - 1
  BY DEF IEIndex
<1> HIDE DEF c
<1>5. IEIndex(s) + 1 = c
  BY <1>3, <1>4
<1> QED
  BY <1>3, <1>5

(* Errors that are covered by the letter: in a digit, or the letter.       *)
IEError(s, t, i) ==
  \/ Misread(s, t, i) /\ i \in 1..8 /\ (i = 8 \/ s[i] \in Digit)
  \/ Swapped(s, t, i) /\ i \in 1..7

LEMMA IEErrorIs ==
  ASSUME NEW s, NEW t, NEW i, IEError(s, t, i), Len(s) = 8, s[8] \notin Digit
  PROVE  /\ s \in Seq(Characters) /\ t \in Seq(Characters) /\ Len(t) = 8 /\ i \in 1..8
         /\ \A j \in 1..8 : s[j] \in Digit <=> t[j] \in Digit
         /\ i = 8 => Misread(s, t, i)
         /\ i # 8 => \/ Misread(s, t, i) /\ s[i] \in Digit /\ i \in 1..7
                     \/ /\ Swapped(s, t, i) /\ i \in 1..6
                        /\ s[i] \in Digit /\ s[i + 1] \in Digit
<1>1. Wrong(s, t)
  BY DEF IEError, Wrong
<1>2. \A j \in 1..8 : s[j] \in Digit <=> t[j] \in Digit
  BY <1>1, SortsAreKept
<1>3. s \in Seq(Characters) /\ t \in Seq(Characters) /\ Len(t) = 8
  BY <1>1, WrongIs
<1>4. CASE Misread(s, t, i) /\ i \in 1..8 /\ (i = 8 \/ s[i] \in Digit)
  BY <1>2, <1>3, <1>4
<1>5. CASE Swapped(s, t, i) /\ i \in 1..7
  <2>1. s[i] \in Digit /\ s[i + 1] \in Digit
    BY <1>5 DEF Swapped
  <2>2. i + 1 # 8 /\ i \in 1..6
    <3>1. i = 7 => i + 1 = 8
      OBVIOUS
    <3> QED
      BY <1>5, <2>1, <3>1
  <2> QED
    BY <1>2, <1>3, <1>5, <2>1, <2>2
<1> QED
  BY <1>4, <1>5 DEF IEError

(* The letter changes if, and only if, the sum's remainder does.           *)
LEMMA IELetterTells ==
  ASSUME NEW s, NEW t, NEW a, NEW b, s[8] \in Range(ieCheckChars), t[8] \in Range(ieCheckChars),
         IEIndex(s) = a, IEIndex(t) = b
  PROVE  s[8] = t[8] <=> a = b
<1>1. ieCheckChars[IEIndex(s) + 1] = s[8] /\ ieCheckChars[IEIndex(t) + 1] = t[8]
  BY IEIndexIs
<1>2. s[8] = t[8] => IEIndex(s) = IEIndex(t)
  BY DEF IEIndex
<1> QED
  BY <1>1, <1>2

LEMMA IESorts ==
  /\ \A s : s[8] \in Range(ieCheckChars) => s[8] \notin Digit
  /\ \A s : s[2] \in Alpha => s[2] \notin Digit
  /\ \A s \in Seq(Characters) : Len(s) = 8 /\ allDigits(SubSeq(s, 1, 7)) => s[2] \in Digit
<1> DEFINE letters == <<"W", "A", "B", "C", "D", "E", "F", "G", "H", "I", "J", "K", "L",
                        "M", "N", "O", "P", "Q", "R", "S", "T", "U", "V">>
<1>1. ieCheckChars = [i \in DOMAIN letters |-> CodeOf[letters[i]]]
  BY DEF ieCheckChars, Word
<1>2. \A i \in DOMAIN letters : letters[i] \in Range(Alphabet)
  BY DEF Alphabet, Range
<1> HIDE DEF letters
<1>3. \A i \in DOMAIN letters : ieCheckChars[i] \in Alpha
  BY <1>1, <1>2, LettersAre
<1>4. \A c \in Alpha : c \notin Digit
  BY DEF Alpha, Digit
<1>5. \A c \in Range(ieCheckChars) : c \in Alpha
  BY <1>1, <1>3 DEF Range
<1>6. ASSUME NEW s \in Seq(Characters), Len(s) = 8, allDigits(SubSeq(s, 1, 7)) PROVE s[2] \in Digit
  <2> DEFINE a == SubSeq(s, 1, 7)
  <2>1. 2 \in DOMAIN a /\ a[2] = s[2]
    BY <1>6
  <2> HIDE DEF a
  <2> QED
    BY <1>6, <2>1 DEF allDigits, a
<1> QED
  BY <1>4, <1>5, <1>6

LEMMA IENewNotices ==
  ASSUME NEW s, NEW t, NEW i, IEError(s, t, i), Len(s) = 8,
         s[8] \in Range(ieCheckChars), t[8] \in Range(ieCheckChars), IENewForm(s), IENewForm(t)
  PROVE  FALSE
<1> DEFINE x == <<8, 7, 6, 5, 4, 3, 2>>
<1>1. x \in Seq(Int) /\ Len(x) = 7
  OBVIOUS
<1>2. \A j \in 1..7 : x[j] \in -22..22 /\ x[j] # 0
  OBVIOUS
<1>3. \A j \in 1..(7 - 1) : x[j] - x[j + 1] \in -22..22 /\ x[j] - x[j + 1] # 0
  OBVIOUS
<1>4. IEIndex(s) = Weighted(x, s) % 23 /\ IEIndex(t) = Weighted(x, t) % 23
  BY DEF IENewForm
<1> HIDE DEF x
<1>5. TellsDigits(x, 23)
  BY <1>1, <1>2, RowTells23
<1>6. TellsNeighbours(x, 23)
  BY <1>1, <1>3, RowTellsNeighbours23
<1>7. s[8] \notin Digit
  BY IESorts
<1>8. s[8] = t[8] <=> Weighted(x, s) % 23 = Weighted(x, t) % 23
  BY <1>4, IELetterTells
<1>9. CASE i = 8
  <2>1. Misread(s, t, i) /\ Len(x) < i
    BY <1>1, <1>7, <1>9, IEErrorIs
  <2>2. Weighted(x, t) = Weighted(x, s) /\ s[i] # t[i]
    BY <1>1, <2>1, ControlOnly
  <2> QED
    BY <1>8, <1>9, <2>2
<1>10. CASE i # 8
  <2>1. \/ Misread(s, t, i) /\ s[i] \in Digit /\ i \in 1..7
        \/ Swapped(s, t, i) /\ i \in 1..6
    BY <1>7, <1>10, IEErrorIs
  <2>2. \/ Misread(s, t, i) /\ s[i] \in Digit /\ i <= Len(x)
        \/ Swapped(s, t, i) /\ i + 1 <= Len(x)
    BY <1>1, <2>1
  <2>3. Len(x) <= Len(s)
    BY <1>1
  <2>4. Weighted(x, s) % 23 # Weighted(x, t) % 23
    BY <1>1, <1>5, <1>6, <2>2, <2>3, TheModuli, RowDiffers
  <2>5. s[8] = t[8]
    <3>1. 8 \in 1..Len(s) /\ i # 8 /\ (i \in 1..6 => i + 1 # 8)
      BY <1>10
    <3> QED
      BY <2>1, <3>1 DEF Misread, Swapped
  <2> QED
    BY <1>8, <2>4, <2>5
<1> QED
  BY <1>9, <1>10

LEMMA OneBehind ==
  ASSUME NEW b \in Seq(Characters), NEW x \in Characters
  PROVE  /\ b \o <<x>> \in Seq(Characters) /\ Len(b \o <<x>>) = Len(b) + 1
         /\ (b \o <<x>>)[Len(b) + 1] = x /\ \A j \in 1..Len(b) : (b \o <<x>>)[j] = b[j]
OBVIOUS

LEMMA IEOldBodyIs ==
  ASSUME NEW s \in Seq(Characters), Len(s) = 8
  PROVE  /\ IEOldBody(s) \in Seq(Characters) /\ Len(IEOldBody(s)) = 6 /\ IEOldBody(s)[6] = s[1]
         /\ \A j \in 1..5 : IEOldBody(s)[j] = s[j + 2]
<1> DEFINE k == 2
           n == 7
<1>1. k \in Nat /\ n \in Nat /\ k <= n /\ n <= Len(s) /\ n - k = 5 /\ k + 1 = 3
  OBVIOUS
<1> HIDE DEF k, n
<1>2. /\ SubSeq(s, k + 1, n) \in Seq(Characters) /\ Len(SubSeq(s, k + 1, n)) = n - k
      /\ \A j \in 1..(n - k) : SubSeq(s, k + 1, n)[j] = s[j + k]
  BY <1>1, PartIs
<1> DEFINE b == SubSeq(s, 3, 7)
<1>3. b \in Seq(Characters) /\ Len(b) = 5 /\ \A j \in 1..5 : b[j] = s[j + 2]
  BY <1>1, <1>2 DEF k, n
<1>4. s[1] \in Characters
  OBVIOUS
<1> DEFINE a == b \o <<s[1]>>
<1>5. IEOldBody(s) = a
  BY DEF IEOldBody
<1> HIDE DEF b
<1>6. /\ a \in Seq(Characters) /\ Len(a) = Len(b) + 1 /\ a[Len(b) + 1] = s[1]
      /\ \A j \in 1..Len(b) : a[j] = b[j]
  BY <1>3, <1>4, OneBehind
<1> HIDE DEF a
<1>7. /\ a \in Seq(Characters) /\ Len(a) = 6 /\ a[6] = s[1]
      /\ \A j \in 1..5 : a[j] = s[j + 2]
  BY <1>3, <1>6
<1> QED
  BY <1>5, <1>7

(* The body of an old number has the error at another place.               *)
LEMMA IEOldBodyWrong ==
  ASSUME NEW s, NEW t, NEW i, IEError(s, t, i), Len(s) = 8, i # 8,
         s[8] \notin Digit, s[2] \notin Digit
  PROVE  \E k : \/ /\ Misread(IEOldBody(s), IEOldBody(t), k) /\ IEOldBody(s)[k] \in Digit
                   /\ k <= 6
                \/ Swapped(IEOldBody(s), IEOldBody(t), k) /\ k + 1 <= 6
<1> DEFINE a == IEOldBody(s)
           b == IEOldBody(t)
<1>1. /\ s \in Seq(Characters) /\ t \in Seq(Characters) /\ Len(t) = 8
      /\ \/ Misread(s, t, i) /\ s[i] \in Digit /\ i \in 1..7
         \/ Swapped(s, t, i) /\ i \in 1..6 /\ s[i] \in Digit /\ s[i + 1] \in Digit
  BY IEErrorIs
<1>2. /\ a \in Seq(Characters) /\ Len(a) = 6 /\ a[6] = s[1] /\ \A j \in 1..5 : a[j] = s[j + 2]
      /\ b \in Seq(Characters) /\ Len(b) = 6 /\ b[6] = t[1] /\ \A j \in 1..5 : b[j] = t[j + 2]
  BY <1>1, IEOldBodyIs
<1> HIDE DEF a, b
<1>3. CASE Misread(s, t, i) /\ s[i] \in Digit /\ i \in 1..7
  <2>1. /\ s[i] # t[i] /\ t[i] \in Digit /\ \A j \in 1..8 : j # i => t[j] = s[j]
    BY <1>3 DEF Misread
  <2>2. CASE i = 1
    <3>1. \A j \in 1..6 : j # 6 => b[j] = a[j]
      BY <1>2, <2>1, <2>2
    <3>2. Misread(a, b, 6)
      BY <1>2, <1>3, <2>1, <2>2, <3>1 DEF Misread
    <3> QED
      BY <1>2, <1>3, <2>2, <3>2 DEF a, b
  <2>3. CASE i # 1
    <3> DEFINE k == i - 2
    <3>1. i # 2
      BY <1>3
    <3>2. k \in 1..5 /\ k + 2 = i
      BY <1>3, <2>3, <3>1
    <3> HIDE DEF k
    <3>3. a[k] = s[i] /\ b[k] = t[i]
      BY <1>2, <3>2
    <3>4. \A j \in 1..6 : j # k => b[j] = a[j]
      BY <1>2, <1>3, <2>1, <2>3, <3>2
    <3>5. Misread(a, b, k)
      BY <1>2, <1>3, <2>1, <3>2, <3>3, <3>4 DEF Misread
    <3>6. a[k] \in Digit /\ k <= 6
      BY <1>3, <3>2, <3>3
    <3> QED
      BY <3>5, <3>6 DEF a, b
  <2> QED
    BY <2>2, <2>3
<1>4. CASE Swapped(s, t, i) /\ i \in 1..6 /\ s[i] \in Digit /\ s[i + 1] \in Digit
  <2>1. i # 1 /\ i # 2
    <3>1. i = 1 => i + 1 = 2
      OBVIOUS
    <3> QED
      BY <1>4, <3>1
  <2> DEFINE k == i - 2
             l == i + 1
  <2>2. k \in 1..4 /\ k + 2 = i /\ (k + 1) + 2 = l /\ k + 1 \in 1..5
    BY <1>4, <2>1
  <2>3. /\ s[i] # s[l] /\ s[i] \in Digit /\ s[l] \in Digit /\ t[i] = s[l] /\ t[l] = s[i]
        /\ \A j \in 1..8 : j # i /\ j # l => t[j] = s[j]
    BY <1>4 DEF Swapped
  <2>4. l # 1 /\ i # 1
    BY <1>4, <2>1
  <2> HIDE DEF k, l
  <2>5. a[k] = s[i] /\ b[k] = t[i] /\ a[k + 1] = s[l] /\ b[k + 1] = t[l]
    <3>1. \A j \in 1..5 : a[j] = s[j + 2] /\ b[j] = t[j + 2]
      BY <1>2
    <3>2. k \in 1..5
      BY <2>2
    <3>3. a[k] = s[k + 2] /\ b[k] = t[k + 2]
      BY <3>1, <3>2
    <3>4. a[k + 1] = s[(k + 1) + 2] /\ b[k + 1] = t[(k + 1) + 2]
      BY <2>2, <3>1
    <3> QED
      BY <2>2, <3>3, <3>4
  <2>6. \A j \in 1..6 : j # k /\ j # k + 1 => b[j] = a[j]
    <3>1. ASSUME NEW j \in 1..6, j # k, j # k + 1 PROVE b[j] = a[j]
      <4>1. CASE j = 6
        BY <1>2, <2>3, <2>4, <4>1
      <4>2. CASE j # 6
        <5>1. j \in 1..5 /\ j + 2 \in 1..8 /\ j + 2 # i /\ j + 2 # l
          BY <2>2, <3>1, <4>2
        <5> QED
          BY <1>2, <2>3, <5>1
      <4> QED
        BY <4>1, <4>2
    <3> QED
      BY <3>1
  <2>7. Swapped(a, b, k)
    <3>1. Len(b) = Len(a) /\ k \in 1..(Len(a) - 1)
      BY <1>2, <2>2
    <3>2. \A j \in 1..Len(a) : j # k /\ j # k + 1 => b[j] = a[j]
      BY <1>2, <2>6
    <3> QED
      BY <1>2, <2>3, <2>5, <3>1, <3>2, Zenon DEF Swapped
  <2>8. k + 1 <= 6
    BY <2>2
  <2> QED
    BY <2>7, <2>8 DEF a, b
<1> QED
  BY <1>1, <1>3, <1>4

LEMMA IEOldNotices ==
  ASSUME NEW s, NEW t, NEW i, IEError(s, t, i), Len(s) = 8,
         s[8] \in Range(ieCheckChars), t[8] \in Range(ieCheckChars), IEOldForm(s), IEOldForm(t)
  PROVE  FALSE
<1> DEFINE x == <<7, 6, 5, 4, 3, 2>>
           a == IEOldBody(s)
           b == IEOldBody(t)
<1>1. x \in Seq(Int) /\ Len(x) = 6
  OBVIOUS
<1>2. \A j \in 1..6 : x[j] \in -22..22 /\ x[j] # 0
  OBVIOUS
<1>3. \A j \in 1..(6 - 1) : x[j] - x[j + 1] \in -22..22 /\ x[j] - x[j + 1] # 0
  OBVIOUS
<1>4. IEIndex(s) = Weighted(x, a) % 23 /\ IEIndex(t) = Weighted(x, b) % 23
  BY DEF IEOldForm
<1> HIDE DEF x
<1>5. TellsDigits(x, 23)
  BY <1>1, <1>2, RowTells23
<1>6. TellsNeighbours(x, 23)
  BY <1>1, <1>3, RowTellsNeighbours23
<1>7. s[8] \notin Digit /\ s[2] \notin Digit
  BY IESorts DEF IEOldForm
<1>8. s[8] = t[8] <=> Weighted(x, a) % 23 = Weighted(x, b) % 23
  BY <1>4, IELetterTells
<1>9. CASE i = 8
  <2>1. Misread(s, t, i)
    BY <1>7, <1>9, IEErrorIs
  <2>2. s[8] # t[8] /\ Len(s) = 8 /\ \A j \in 1..8 : j # 8 => t[j] = s[j]
    BY <1>9, <2>1 DEF Misread
  <2>3. s \in Seq(Characters) /\ t \in Seq(Characters) /\ Len(t) = 8
    BY <1>7, IEErrorIs
  <2>4. /\ a \in Seq(Characters) /\ Len(a) = 6 /\ a[6] = s[1] /\ \A j \in 1..5 : a[j] = s[j + 2]
        /\ b \in Seq(Characters) /\ Len(b) = 6 /\ b[6] = t[1] /\ \A j \in 1..5 : b[j] = t[j + 2]
    BY <2>3, IEOldBodyIs
  <2> HIDE DEF a, b
  <2>5. \A j \in 1..6 : a[j] = b[j]
    BY <2>2, <2>4
  <2>6. a = b
    BY <2>4, <2>5
  <2> QED
    BY <1>8, <2>2, <2>6
<1>10. CASE i # 8
  <2>1. PICK k : \/ Misread(a, b, k) /\ a[k] \in Digit /\ k <= 6
                 \/ Swapped(a, b, k) /\ k + 1 <= 6
    BY <1>7, <1>10, IEOldBodyWrong
  <2>2. s \in Seq(Characters) /\ i \in 1..8
        /\ (\/ Misread(s, t, i) /\ i \in 1..7
            \/ Swapped(s, t, i) /\ i \in 1..6)
    BY <1>7, <1>10, IEErrorIs
  <2>3. Len(a) = 6
    BY <2>2, IEOldBodyIs
  <2> HIDE DEF a, b
  <2>4. \/ Misread(a, b, k) /\ a[k] \in Digit /\ k <= Len(x)
        \/ Swapped(a, b, k) /\ k + 1 <= Len(x)
    BY <1>1, <2>1
  <2>5. Len(x) <= Len(a)
    BY <1>1, <2>3
  <2>6. Weighted(x, a) % 23 # Weighted(x, b) % 23
    BY <1>1, <1>5, <1>6, <2>4, <2>5, TheModuli, RowDiffers
  <2>7. s[8] = t[8]
    <3>1. 8 \in 1..Len(s) /\ i # 8 /\ (i \in 1..6 => i + 1 # 8)
      BY <1>10
    <3> QED
      BY <2>2, <3>1 DEF Misread, Swapped
  <2> QED
    BY <1>8, <2>6, <2>7
<1> QED
  BY <1>9, <1>10

(* An Irish number with an error in a digit or in the letter is noticed.   *)
LEMMA IENotices ==
  ASSUME NEW s, NEW t, NEW i, IEError(s, t, i), ieVATValid(s), ieVATValid(t)
  PROVE  FALSE
<1> DEFINE a == IECut(s)
           b == IECut(t)
<1>1. IEAgrees(a) /\ IEAgrees(b)
  BY IEValidIs
<1>2. Wrong(s, t)
  BY DEF IEError, Wrong
<1>3. s \in Seq(Characters) /\ t \in Seq(Characters) /\ Len(t) = Len(s)
  BY <1>2, WrongIs
<1>4. Len(a) = 8 /\ a[8] \in Range(ieCheckChars) /\ b[8] \in Range(ieCheckChars)
      /\ a[8] \notin Digit /\ b[8] \notin Digit
  BY <1>1, IESorts DEF IEAgrees
<1>5. IEError(a, b, i)
  <2>1. CASE Len(s) = 9 /\ s[9] \in Alpha
    <3>1. t[9] = s[9]
      <4>1. 9 \in 1..Len(s) /\ (i \in 1..8 => i # 9) /\ (i \in 1..7 => i # 9 /\ i + 1 # 9)
        BY <2>1
      <4> QED
        BY <4>1 DEF IEError, Misread, Swapped
    <3> DEFINE n == 8
    <3>2. a = SubSeq(s, 1, n) /\ b = SubSeq(t, 1, n)
      BY <1>3, <2>1, <3>1 DEF IECut
    <3>3. n \in Nat /\ n <= Len(s) /\ (i \in 1..8 => i <= n) /\ (i \in 1..7 => i < n)
      BY <2>1
    <3> HIDE DEF n, a, b
    <3>4. CASE Misread(s, t, i) /\ i \in 1..8 /\ (i = 8 \/ s[i] \in Digit)
      <4>1. Misread(a, b, i)
        BY <3>2, <3>3, <3>4, FrontMisread
      <4>2. a[i] = s[i]
        BY <1>3, <3>2, <3>3, <3>4
      <4> QED
        BY <3>4, <4>1, <4>2 DEF IEError
    <3>5. CASE Swapped(s, t, i) /\ i \in 1..7
      <4>1. Swapped(a, b, i)
        BY <3>2, <3>3, <3>5, FrontSwapped
      <4> QED
        BY <3>5, <4>1 DEF IEError
    <3> QED
      BY <3>4, <3>5 DEF IEError
  <2>2. CASE ~(Len(s) = 9 /\ s[9] \in Alpha)
    <3>1. Len(s) = 8 /\ a = s
      BY <1>4, <2>2 DEF IECut
    <3>2. b = t
      BY <1>3, <3>1 DEF IECut
    <3> QED
      BY <3>1, <3>2
  <2> QED
    BY <2>1, <2>2
<1> HIDE DEF a, b
<1>6. a[2] \in Digit <=> b[2] \in Digit
  BY <1>4, <1>5, IEErrorIs
<1>7. a \in Seq(Characters) /\ b \in Seq(Characters)
  BY <1>4, <1>5, IEErrorIs
<1>8. CASE a[2] \in Digit
  <2>1. IENewForm(a) /\ IENewForm(b)
    BY <1>1, <1>6, <1>8, IESorts DEF IEAgrees, IEOldForm
  <2> QED
    BY <1>4, <1>5, <2>1, IENewNotices
<1>9. CASE a[2] \notin Digit
  <2>1. IEOldForm(a) /\ IEOldForm(b)
    <3>1. Len(a) = 8 /\ Len(b) = 8 /\ (IENewForm(a) \/ IEOldForm(a))
          /\ (IENewForm(b) \/ IEOldForm(b))
      BY <1>1 DEF IEAgrees
    <3>2. ~IENewForm(a) /\ ~IENewForm(b)
      BY <1>6, <1>7, <1>9, <3>1, IESorts DEF IENewForm
    <3> QED
      BY <3>1, <3>2
  <2> QED
    BY <1>4, <1>5, <2>1, IEOldNotices
<1> QED
  BY <1>8, <1>9

-----------------------------------------------------------------------------
(* The digits of a number                                                  *)

LEMMA DigitsInAre ==
  ASSUME NEW s \in Seq(Characters)
  PROVE  Cardinality(DigitsIn(s)) \in Nat /\ Len(extractDigits(s)) = Cardinality(DigitsIn(s))
<1>1. IsFiniteSet(1..Len(s)) /\ DigitsIn(s) \subseteq 1..Len(s)
  BY FS_Interval DEF DigitsIn
<1>2. Cardinality(DigitsIn(s)) \in Nat
  BY <1>1, FS_Subset, FS_CardinalityType
<1> QED
  BY <1>2 DEF extractDigits

(* Digits behind letters are what extractDigits returns.                   *)
LEMMA DigitsBehindLetters ==
  ASSUME NEW s \in Seq(Characters), NEW k \in Nat, k <= Len(s),
         \A j \in 1..k : s[j] \notin Digit, \A j \in (k + 1)..Len(s) : s[j] \in Digit
  PROVE  extractDigits(s) = SubSeq(s, k + 1, Len(s))
<1> DEFINE D == DigitsIn(s)
           n == Len(s) - k
           place(m) == CHOOSE i \in D : Cardinality({j \in D : j <= i}) = m
<1>1. n \in Nat /\ Len(s) \in Nat
  OBVIOUS
<1>2. D = (k + 1)..Len(s)
  BY DEF DigitsIn
<1>3. extractDigits(s) = [m \in 1..Cardinality(D) |-> s[place(m)]]
  BY DEF extractDigits
<1> HIDE DEF D
<1>4. ASSUME NEW i \in D PROVE Cardinality({j \in D : j <= i}) = i - k
  <2>1. k + 1 \in Int /\ i \in Int /\ k + 1 <= i
    BY <1>2, <1>4
  <2> DEFINE a == k + 1
  <2>2. a \in Int /\ a <= i
    BY <2>1
  <2>3. i - a + 1 = i - k
    BY <2>1
  <2>4. {j \in D : j <= i} = a..i
    BY <1>2, <1>4
  <2> HIDE DEF a
  <2>5. Cardinality(a..i) = i - a + 1
    BY <2>1, <2>2, FS_Interval
  <2> QED
    BY <2>3, <2>4, <2>5, Zenon
<1>5. Cardinality(D) = n
  <2>1. CASE k = Len(s)
    <3>1. D = {} /\ n = 0
      BY <1>2, <2>1
    <3> QED
      BY <3>1, FS_EmptySet
  <2>2. CASE k # Len(s)
    <3>1. Len(s) \in D /\ {j \in D : j <= Len(s)} = D
      BY <1>2, <2>2
    <3> QED
      BY <1>4, <3>1
  <2> QED
    BY <2>1, <2>2
<1>6. ASSUME NEW m \in 1..n PROVE place(m) = k + m
  <2>1. k + m \in D /\ (k + m) - k = m
    BY <1>1, <1>2, <1>6
  <2>2. Cardinality({j \in D : j <= k + m}) = m
    BY <1>4, <2>1
  <2>3. place(m) \in D /\ Cardinality({j \in D : j <= place(m)}) = m
    BY <2>1, <2>2, Zenon
  <2> DEFINE i == place(m)
  <2>4. i \in D /\ Cardinality({j \in D : j <= i}) = m
    BY <2>3
  <2> HIDE DEF i
  <2>5. i - k = m
    BY <1>4, <2>4
  <2>6. i = k + m
    BY <1>1, <1>2, <2>4, <2>5
  <2> QED
    BY <2>6 DEF i
<1>7. extractDigits(s) = [m \in 1..n |-> s[place(m)]]
  <2> HIDE DEF place, n
  <2> QED
    BY <1>3, <1>5
<1>8. \A m \in 1..n : s[place(m)] = s[k + m]
  BY <1>6, Zenon
<1> HIDE DEF place
<1>9. extractDigits(s) = [m \in 1..n |-> s[k + m]]
  BY <1>7, <1>8
<1>10. SubSeq(s, k + 1, Len(s)) = [m \in 1..n |-> s[k + m]]
  <2> DEFINE b == SubSeq(s, k + 1, Len(s))
  <2>1. b \in Seq(Characters) /\ Len(b) = n /\ \A j \in 1..n : b[j] = s[j + k]
    BY <1>1, PartIs
  <2> HIDE DEF b
  <2>2. b = [m \in 1..n |-> b[m]]
    BY <2>1
  <2>3. \A m \in 1..n : b[m] = s[k + m]
    BY <1>1, <2>1
  <2>4. b = [m \in 1..n |-> s[k + m]]
    BY <2>2, <2>3
  <2> QED
    BY <2>4 DEF b
<1> QED
  BY <1>9, <1>10

LEMMA DigitsAlone ==
  ASSUME NEW s, Digits(s)
  PROVE  extractDigits(s) = s
<1> DEFINE k == 0
<1>1. s \in Seq(Characters) /\ k \in Nat /\ k <= Len(s) /\ k + 1 = 1
  BY DEF Digits
<1>2. (\A j \in 1..k : s[j] \notin Digit) /\ \A j \in (k + 1)..Len(s) : s[j] \in Digit
  BY <1>1 DEF Digits
<1> HIDE DEF k
<1>3. extractDigits(s) = SubSeq(s, k + 1, Len(s))
  BY <1>1, <1>2, DigitsBehindLetters
<1>4. SubSeq(s, 1, Len(s)) = s
  BY <1>1
<1> QED
  BY <1>1, <1>3, <1>4

(* Numbers alike in sorts have as many digits.                             *)
LEMMA AsManyDigits ==
  ASSUME NEW s \in Seq(Characters), NEW t \in Seq(Characters), Len(t) = Len(s),
         \A j \in 1..Len(s) : s[j] \in Digit <=> t[j] \in Digit
  PROVE  Len(extractDigits(t)) = Len(extractDigits(s))
<1>1. DigitsIn(t) = DigitsIn(s)
  BY DEF DigitsIn
<1> QED
  BY <1>1, DigitsInAre

-----------------------------------------------------------------------------
(* VAT numbers                                                             *)

(* What validateVAT says of a number without its prefix.                   *)
CountryVerdict(cc, s) ==
  CASE cc = "ES" -> esNIFVerdict(s)
    [] cc \notin Algorithms \cup {"ES"} -> "format_valid"
    [] cc \in Algorithms /\ ~CheckedLength(cc, s) -> "format_valid"
    [] cc = "NL" /\ ~nlVATValid(DutchBody(s)) /\ nlVATIndeterminate(DutchBody(s)) -> "format_valid"
    [] OTHER -> mod11Verdict(CountryAlgorithm(cc, s))

LEMMA VATIs ==
  ASSUME NEW country, NEW raw
  PROVE  /\ StartsWithLetters(raw) =>
              validateVAT(country, raw) = CountryVerdict(FirstTwo(raw), SubSeq(raw, 3, Len(raw)))
         /\ ~StartsWithLetters(raw) => validateVAT(country, raw) = CountryVerdict(country, raw)
BY DEF validateVAT, CountryVerdict

LEMMA VerdictsDiffer ==
  \A ok : /\ mod11Verdict(ok) # "format_valid"
          /\ mod11Verdict(ok) = "checksum_valid" <=> ok
BY DEF mod11Verdict

LEMMA CountryValidIs ==
  ASSUME NEW cc, NEW s, cc # "ES", CountryVerdict(cc, s) = "checksum_valid"
  PROVE  cc \in Algorithms /\ CheckedLength(cc, s) /\ CountryAlgorithm(cc, s)
<1>1. cc \in Algorithms
  BY DEF CountryVerdict, Algorithms
<1>2. CheckedLength(cc, s)
  BY <1>1 DEF CountryVerdict, Algorithms
<1>3. ~(cc = "NL" /\ ~nlVATValid(DutchBody(s)) /\ nlVATIndeterminate(DutchBody(s)))
  BY <1>1, <1>2 DEF CountryVerdict
<1>4. CountryVerdict(cc, s) = mod11Verdict(CountryAlgorithm(cc, s))
  BY <1>1, <1>2, <1>3 DEF CountryVerdict
<1> QED
  BY <1>1, <1>2, <1>4, VerdictsDiffer

LEMMA AlgorithmsAre ==
  ASSUME NEW s
  PROVE  /\ CountryAlgorithm("DE", s) = deVATValid(s)
         /\ CountryAlgorithm("NL", s) = nlVATValid(DutchBody(s))
         /\ CountryAlgorithm("IT", s) = luhnValid(extractDigits(s))
         /\ CountryAlgorithm("FR", s) = luhnValid(SubSeq(s, 3, Len(s)))
         /\ CountryAlgorithm("CZ", s) = czICOValid(s)
         /\ CountryAlgorithm("HU", s) = huAdoszamValid(s)
         /\ CountryAlgorithm("EE", s) = eeVATValid(s)
         /\ CountryAlgorithm("GB", s) = gbVATValid(SubSeq(s, 1, 9))
         /\ CountryAlgorithm("SK", s) = skVATValid(s)
         /\ CountryAlgorithm("SI", s) = siVATValid(s)
         /\ CountryAlgorithm("LU", s) = luVATValid(s)
         /\ CountryAlgorithm("MT", s) = mtVATValid(s)
         /\ CountryAlgorithm("BE", s) = beVATValid(s)
         /\ CountryAlgorithm("PL", s) = plVATValid(s)
         /\ CountryAlgorithm("SE", s) = seVATValid(s)
         /\ CountryAlgorithm("DK", s) = dkVATValid(s)
         /\ CountryAlgorithm("FI", s) = fiVATValid(s)
         /\ CountryAlgorithm("PT", s) = ptVATValid(s)
         /\ CountryAlgorithm("IE", s) = ieVATValid(s)
         /\ CountryAlgorithm("RO", s) = roCUIValid(s)
         /\ CountryAlgorithm("EL", s) = grVATValid(s)
         /\ CountryAlgorithm("BG", s) = bgEIKValid(s)
         /\ CountryAlgorithm("HR", s) = hrOIBValid(s)
BY DEF CountryAlgorithm

LEMMA CheckedLengthsAre ==
  ASSUME NEW s
  PROVE  /\ CheckedLength("FR", s) <=> Len(s) = 11
         /\ CheckedLength("CZ", s) <=> Len(s) = 8
         /\ CheckedLength("GB", s) <=> Len(s) \in {9, 12}
         /\ CheckedLength("BG", s) <=> Len(s) = 9
         /\ CheckedLength("CH", s) <=> Len(extractDigits(s)) = 9
         /\ \A cc \in Algorithms \ {"FR", "CZ", "GB", "BG", "CH"} : CheckedLength(cc, s)
BY DEF CheckedLength

(* Where the last check character stands behind the prefix.                *)
ControlOf(cc, s) ==
  CASE cc = "IE" -> 8
    [] cc \in {"NL", "GB"} -> 9
    [] cc = "SE" -> 10
    [] OTHER -> Len(s)

LEMMA ControlsAre ==
  ASSUME NEW s
  PROVE  /\ ControlOf("IE", s) = 8 /\ ControlOf("NL", s) = 9 /\ ControlOf("GB", s) = 9
         /\ ControlOf("SE", s) = 10
         /\ \A cc : cc \notin {"IE", "NL", "GB", "SE"} => ControlOf(cc, s) = Len(s)
BY DEF ControlOf

LEMMA FrontWrong ==
  ASSUME NEW s, NEW t, NEW i, NEW n \in Nat, n <= Len(s),
         \/ Misread(s, t, i) /\ i <= n
         \/ Swapped(s, t, i) /\ i < n
  PROVE  Wrong(SubSeq(s, 1, n), SubSeq(t, 1, n))
BY FrontMisread, FrontSwapped DEF Wrong

(* The company's part of a Dutch number has the error the number has.      *)
LEMMA DutchBodyWrong ==
  ASSUME NEW s, NEW t, NEW i,
         \/ Misread(s, t, i) /\ i \in 1..9
         \/ Swapped(s, t, i) /\ i \in 1..8
  PROVE  Wrong(DutchBody(s), DutchBody(t))
<1>1. Wrong(s, t)
  BY DEF Wrong
<1>2. Len(t) = Len(s) /\ s \in Seq(Characters)
  BY <1>1, WrongIs
<1>3. CASE Len(s) > 9
  <2>1. t[10] = s[10]
    <3>1. 10 \in 1..Len(s) /\ (i \in 1..9 => i # 10) /\ (i \in 1..8 => i # 10 /\ i + 1 # 10)
      BY <1>2, <1>3
    <3> QED
      BY <3>1 DEF Misread, Swapped
  <2>2. CASE s[10] = CodeOf["B"]
    <3> DEFINE n == 9
    <3>1. DutchBody(s) = SubSeq(s, 1, n) /\ DutchBody(t) = SubSeq(t, 1, n)
      BY <1>2, <1>3, <2>1, <2>2 DEF DutchBody
    <3>2. n \in Nat /\ n <= Len(s) /\ (i \in 1..9 => i <= n) /\ (i \in 1..8 => i < n)
      BY <1>2, <1>3
    <3> HIDE DEF n
    <3> QED
      BY <3>1, <3>2, FrontWrong
  <2>3. CASE s[10] # CodeOf["B"]
    BY <1>1, <2>1, <2>3 DEF DutchBody
  <2> QED
    BY <2>2, <2>3
<1>4. CASE ~(Len(s) > 9)
  BY <1>1, <1>2, <1>4 DEF DutchBody
<1> QED
  BY <1>3, <1>4

LEMMA SENotices ==
  ASSUME NEW s, NEW t, NEW i, Misread(s, t, i), i \in 1..10, seVATValid(s), seVATValid(t)
  PROVE  FALSE
<1> DEFINE n == 10
<1>1. n \in Nat /\ n <= Len(s) /\ i <= n
  BY DEF seVATValid, HasDigits
<1>2. luhnValid(SubSeq(s, 1, n)) /\ luhnValid(SubSeq(t, 1, n))
  BY DEF seVATValid
<1> HIDE DEF n
<1>3. Misread(SubSeq(s, 1, n), SubSeq(t, 1, n), i)
  BY <1>1, FrontMisread
<1> QED
  BY <1>2, <1>3, LuhnNotices

LEMMA FRNotices ==
  ASSUME NEW s, NEW t, NEW i, Misread(s, t, i), i > 2, Len(s) = 11,
         luhnValid(SubSeq(s, 3, Len(s))), luhnValid(SubSeq(t, 3, Len(t)))
  PROVE  FALSE
<1> DEFINE k == 2
           n == 11
<1>1. Len(t) = Len(s) /\ i \in 1..11
  BY DEF Misread
<1>2. luhnValid(SubSeq(s, k + 1, n)) /\ luhnValid(SubSeq(t, k + 1, n))
  BY <1>1
<1>3. k \in Nat /\ n \in Nat /\ k <= n /\ n <= Len(s) /\ i > k /\ i <= n
  BY <1>1
<1> HIDE DEF k, n
<1>4. Misread(SubSeq(s, k + 1, n), SubSeq(t, k + 1, n), i - k)
  BY <1>3, PartMisread
<1> QED
  BY <1>2, <1>4, LuhnNotices

LEMMA LetterUIsNoDigit == CodeOf["U"] \notin Digit
<1> DEFINE u == "U"
<1>1. u \in Range(Alphabet)
  BY DEF Alphabet, Range
<1> HIDE DEF u
<1>2. CodeOf[u] \in Alpha
  BY <1>1, LettersAre
<1>3. \A c \in Alpha : c \notin Digit
  BY DEF Alpha, Digit
<1> QED
  BY <1>2, <1>3, Zenon DEF u

(* An Austrian number without its U.                                       *)
ATBody(s) == IF s # <<>> /\ Head(s) = CodeOf["U"] THEN Tail(s) ELSE s

LEMMA AustrianAlgorithm == \A s : CountryAlgorithm("AT", s) = atVATValid(ATBody(s))
BY DEF CountryAlgorithm, ATBody

LEMMA TailIs ==
  ASSUME NEW s \in Seq(Characters), s # <<>>
  PROVE  /\ Head(s) = s[1] /\ Tail(s) = SubSeq(s, 2, Len(s)) /\ Len(Tail(s)) = Len(s) - 1
         /\ Len(s) \in Nat /\ Len(s) >= 1
OBVIOUS

LEMMA ATNumberNotices ==
  ASSUME NEW s, NEW t, NEW i, Misread(s, t, i), s[i] \in Digit \/ i = Len(s),
         atVATValid(ATBody(s)), atVATValid(ATBody(t))
  PROVE  FALSE
<1>1. /\ s \in Seq(Characters) /\ t \in Seq(Characters) /\ Len(t) = Len(s) /\ i \in 1..Len(s)
      /\ (s[i] \in Digit <=> t[i] \in Digit) /\ \A j \in 1..Len(s) : j # i => t[j] = s[j]
  BY DEF Misread
<1>2. s # <<>> /\ t # <<>>
  BY <1>1
<1>3. Head(s) = s[1] /\ Head(t) = t[1] /\ Len(s) \in Nat /\ Len(s) >= 1
  BY <1>1, <1>2, TailIs
<1>4. CASE s[1] = CodeOf["U"]
  <2>1. Tail(s) = SubSeq(s, 2, Len(s)) /\ Tail(t) = SubSeq(t, 2, Len(t)) /\ Len(Tail(s)) = Len(s) - 1
    BY <1>1, <1>2, TailIs
  <2>2. atVATValid(Tail(s))
    BY <1>2, <1>3, <1>4 DEF ATBody
  <2>3. Len(Tail(s)) = 8
    BY <2>2 DEF atVATValid, HasDigits
  <2>4. i # 1
    <3>1. Len(s) # 1
      <4>1. Len(s) - 1 = 8
        BY <2>1, <2>3, Zenon
      <4> QED
        BY <4>1
    <3> QED
      BY <1>4, <3>1, LetterUIsNoDigit
  <2>5. t[1] = s[1]
    BY <1>1, <1>3, <2>4
  <2>6. atVATValid(Tail(t))
    BY <1>2, <1>3, <1>4, <2>5 DEF ATBody
  <2> DEFINE k == 1
             n == Len(s)
  <2>7. k \in Nat /\ n \in Nat /\ k <= n /\ n <= Len(s) /\ i > k /\ i <= n
    BY <1>1, <1>3, <2>4
  <2>8. Tail(s) = SubSeq(s, k + 1, n) /\ Tail(t) = SubSeq(t, k + 1, n)
    BY <1>1, <2>1
  <2> HIDE DEF k, n
  <2>9. Misread(SubSeq(s, k + 1, n), SubSeq(t, k + 1, n), i - k)
    BY <2>7, PartMisread
  <2>10. Misread(Tail(s), Tail(t), i - k)
    BY <2>8, <2>9, Zenon
  <2> QED
    BY <2>2, <2>6, <2>10, ATNotices
<1>5. CASE s[1] # CodeOf["U"]
  <2>1. atVATValid(s)
    BY <1>2, <1>3, <1>5 DEF ATBody
  <2>2. s[1] \in Digit
    <3>1. HasDigits(s, 8)
      BY <2>1 DEF atVATValid
    <3>2. 1 \in DOMAIN s
      BY <1>1, <1>2
    <3> QED
      BY <3>1, <3>2 DEF HasDigits, allDigits
  <2>3. t[1] \in Digit
    BY <1>1, <1>3, <2>2
  <2>4. atVATValid(t)
    BY <1>2, <1>3, <2>3, LetterUIsNoDigit DEF ATBody
  <2> QED
    BY <2>1, <2>4, ATNotices
<1> QED
  BY <1>4, <1>5

SharingCountries == {"GB", "CZ", "PT", "RO", "EL", "BG"}

TellingCountries == {"NL", "PL", "DK", "FI", "LU", "MT", "BE", "SK", "IE"}

(* What the check characters of a country's numbers cover.                 *)
CoveredSlip(cc, s, t, i) ==
  /\ Misread(s, t, i)
  /\ \/ i = ControlOf(cc, s)
     \/ /\ cc \notin SharingCountries
        /\ s[i] \in Digit /\ i <= ControlOf(cc, s) /\ (cc = "FR" => i > 2)

CoveredSwap(cc, s, t, i) == Swapped(s, t, i) /\ i + 1 <= ControlOf(cc, s)

(* An error that a country's check characters cover does not get past      *)
(* them.                                                                   *)
LEMMA SlipStands ==
  ASSUME NEW cc, NEW s, NEW t, NEW i, CoveredSlip(cc, s, t, i)
  PROVE  /\ Misread(s, t, i) /\ Wrong(s, t) /\ Len(t) = Len(s) /\ i \in 1..Len(s) /\ Len(s) \in Nat
         /\ s \in Seq(Characters) /\ t \in Seq(Characters)
         /\ cc = "NL" => i \in 1..9
         /\ cc = "SE" => i \in 1..10
         /\ cc = "FR" => i = Len(s) \/ i > 2
         /\ cc = "IE" => i \in 1..8 /\ (i = 8 \/ s[i] \in Digit)
         /\ cc \notin {"IE", "NL", "GB", "SE"} => s[i] \in Digit \/ i = Len(s)
         /\ cc \in SharingCountries \ {"GB"} => i = Len(s)
         /\ cc = "GB" => i = 9
<1>1. Misread(s, t, i) /\ i \in 1..Len(s) /\ Len(t) = Len(s) /\ Len(s) \in Nat
  BY DEF CoveredSlip, Misread
<1>2. Wrong(s, t)
  BY <1>1 DEF Wrong
<1>3. s \in Seq(Characters) /\ t \in Seq(Characters)
  BY <1>1 DEF Misread
<1>4. cc = "NL" => i \in 1..9
  BY <1>1, ControlsAre DEF CoveredSlip
<1>5. cc = "SE" => i \in 1..10
  BY <1>1, ControlsAre DEF CoveredSlip
<1>6. cc = "FR" => i = Len(s) \/ i > 2
  BY <1>1, ControlsAre DEF CoveredSlip
<1>7. cc = "IE" => i \in 1..8 /\ (i = 8 \/ s[i] \in Digit)
  BY <1>1, ControlsAre DEF CoveredSlip
<1>8. cc \notin {"IE", "NL", "GB", "SE"} => s[i] \in Digit \/ i = Len(s)
  BY <1>1, ControlsAre DEF CoveredSlip
<1>9. cc \in SharingCountries \ {"GB"} => i = Len(s)
  BY <1>1, ControlsAre DEF CoveredSlip, SharingCountries
<1>10. cc = "GB" => i = 9
  BY <1>1, ControlsAre DEF CoveredSlip, SharingCountries
<1> QED
  BY <1>1, <1>2, <1>3, <1>4, <1>5, <1>6, <1>7, <1>8, <1>9, <1>10

(* Countries whose weights tell neighbours apart.                          *)
LEMMA TellingCountriesNotice ==
  ASSUME NEW cc \in TellingCountries, NEW s, NEW t, NEW i,
         CoveredSlip(cc, s, t, i) \/ CoveredSwap(cc, s, t, i),
         CountryAlgorithm(cc, s), CountryAlgorithm(cc, t)
  PROVE  FALSE
<1>1. Wrong(s, t)
  BY DEF CoveredSlip, CoveredSwap, Wrong
<1>2. CASE cc = "PL"
  BY <1>1, <1>2, AlgorithmsAre, PLNotices
<1>3. CASE cc = "DK"
  BY <1>1, <1>3, AlgorithmsAre, DKNotices
<1>4. CASE cc = "FI"
  BY <1>1, <1>4, AlgorithmsAre, FINotices
<1>5. CASE cc = "LU"
  BY <1>1, <1>5, AlgorithmsAre, LUNotices
<1>6. CASE cc = "MT"
  BY <1>1, <1>6, AlgorithmsAre, MTNotices
<1>7. CASE cc = "BE"
  BY <1>1, <1>7, AlgorithmsAre, BENotices
<1>8. CASE cc = "SK"
  BY <1>1, <1>8, AlgorithmsAre, SKNotices
<1>9. CASE cc = "NL"
  <2>1. CASE CoveredSlip(cc, s, t, i)
    <3>1. Misread(s, t, i) /\ i \in 1..9
      BY <1>9, <2>1, SlipStands
    <3>2. Wrong(DutchBody(s), DutchBody(t))
      BY <3>1, DutchBodyWrong
    <3> QED
      BY <1>9, <3>2, AlgorithmsAre, NLNotices
  <2>2. CASE CoveredSwap(cc, s, t, i)
    <3>1. Swapped(s, t, i) /\ i \in 1..8
      BY <1>9, <2>2, ControlsAre DEF CoveredSwap, Swapped
    <3>2. Wrong(DutchBody(s), DutchBody(t))
      BY <3>1, DutchBodyWrong
    <3> QED
      BY <1>9, <3>2, AlgorithmsAre, NLNotices
  <2> QED
    BY <2>1, <2>2
<1>10. CASE cc = "IE"
  <2>1. CASE CoveredSlip(cc, s, t, i)
    <3>1. IEError(s, t, i)
      BY <1>10, <2>1, SlipStands DEF IEError
    <3> QED
      BY <1>10, <3>1, AlgorithmsAre, IENotices
  <2>2. CASE CoveredSwap(cc, s, t, i)
    <3>1. Swapped(s, t, i) /\ i \in 1..7
      BY <1>10, <2>2, ControlsAre DEF CoveredSwap, Swapped
    <3>2. IEError(s, t, i)
      BY <3>1 DEF IEError
    <3> QED
      BY <1>10, <3>2, AlgorithmsAre, IENotices
  <2> QED
    BY <2>1, <2>2
<1> QED
  BY <1>2, <1>3, <1>4, <1>5, <1>6, <1>7, <1>8, <1>9, <1>10 DEF TellingCountries

(* Countries in which several numbers share a control.                     *)
LEMMA SharingCountriesNotice ==
  ASSUME NEW cc \in SharingCountries, NEW s, NEW t, NEW i, CoveredSlip(cc, s, t, i),
         CountryAlgorithm(cc, s), CountryAlgorithm(cc, t), CheckedLength(cc, s)
  PROVE  FALSE
<1>1. Misread(s, t, i) /\ s \in Seq(Characters) /\ Len(s) \in Nat
  BY SlipStands
<1>2. CASE cc = "CZ"
  <2>1. Len(s) = 8 /\ i = Len(s)
    BY <1>2, SlipStands, CheckedLengthsAre
  <2> QED
    BY <1>1, <1>2, <2>1, AlgorithmsAre, CZNotices
<1>3. CASE cc = "PT"
  <2>1. ptVATValid(s)
    BY <1>3, AlgorithmsAre
  <2>2. Len(s) = 9
    BY <2>1 DEF ptVATValid, HasDigits
  <2>3. Len(s) = 9 /\ i = Len(s)
    BY <1>3, <2>2, SlipStands
  <2> QED
    BY <1>1, <1>3, <2>3, AlgorithmsAre, PTNotices
<1>4. CASE cc = "RO"
  <2>1. i = Len(s)
    BY <1>4, SlipStands
  <2> QED
    BY <1>1, <1>4, <2>1, AlgorithmsAre, RONotices
<1>5. CASE cc = "EL"
  <2>1. grVATValid(s)
    BY <1>5, AlgorithmsAre
  <2>2. Len(s) = 9
    BY <2>1 DEF grVATValid, HasDigits
  <2>3. Len(s) = 9 /\ i = Len(s)
    BY <1>5, <2>2, SlipStands
  <2> QED
    BY <1>1, <1>5, <2>3, AlgorithmsAre, ELNotices
<1>6. CASE cc = "BG"
  <2>1. Len(s) = 9 /\ i = Len(s)
    BY <1>6, SlipStands, CheckedLengthsAre
  <2>2. TwoRowCheck(s) = s[9] /\ TwoRowCheck(t) = t[9]
    BY <1>6, AlgorithmsAre DEF bgEIKValid
  <2> QED
    BY <1>1, <2>1, <2>2, TwoRowsNotice
<1>7. CASE cc = "GB"
  <2>1. i = 9 /\ Len(s) >= 9
    BY <1>7, SlipStands, CheckedLengthsAre
  <2> DEFINE n == 9
  <2>2. n \in Nat /\ n <= Len(s) /\ i <= n
    BY <1>1, <2>1
  <2>3. gbVATValid(SubSeq(s, 1, n)) /\ gbVATValid(SubSeq(t, 1, n))
    BY <1>7, AlgorithmsAre
  <2> HIDE DEF n
  <2>4. Misread(SubSeq(s, 1, n), SubSeq(t, 1, n), i)
    BY <1>1, <2>2, FrontMisread
  <2> QED
    BY <2>1, <2>3, <2>4, GBNotices
<1> QED
  BY <1>2, <1>3, <1>4, <1>5, <1>6, <1>7 DEF SharingCountries

OtherCountries == {"DE", "IT", "FR", "HU", "EE", "SI", "AT", "SE", "HR"}

LEMMA OtherCountriesNotice ==
  ASSUME NEW cc \in OtherCountries, NEW s, NEW t, NEW i, CoveredSlip(cc, s, t, i),
         CountryAlgorithm(cc, s), CountryAlgorithm(cc, t), CheckedLength(cc, s),
         cc = "IT" => HasDigits(s, 11)
  PROVE  FALSE
<1>1. /\ Misread(s, t, i) /\ s \in Seq(Characters) /\ Len(s) \in Nat /\ Len(t) = Len(s)
      /\ t \in Seq(Characters) /\ Wrong(s, t)
  BY SlipStands
<1>2. CASE cc = "DE"
  <2> DEFINE n == 9
  <2>1. n \in Nat \ {0} /\ HybridValid(s, n) /\ HybridValid(t, n)
    BY <1>2, AlgorithmsAre DEF deVATValid
  <2> HIDE DEF n
  <2> QED
    BY <1>1, <2>1, HybridNotices
<1>3. CASE cc = "HR"
  <2> DEFINE n == 11
  <2>1. n \in Nat \ {0} /\ HybridValid(s, n) /\ HybridValid(t, n)
    BY <1>3, AlgorithmsAre DEF hrOIBValid
  <2> HIDE DEF n
  <2> QED
    BY <1>1, <2>1, HybridNotices
<1>4. CASE cc = "HU"
  BY <1>1, <1>4, AlgorithmsAre, HUNotices
<1>5. CASE cc = "EE"
  BY <1>1, <1>5, AlgorithmsAre, EENotices
<1>6. CASE cc = "SI"
  BY <1>1, <1>6, AlgorithmsAre, SINotices
<1>7. CASE cc = "IT"
  <2>1. Digits(s)
    BY <1>1, <1>7, HasDigitsIs
  <2>2. Digits(t)
    BY <1>1, <2>1, SortsAreKept DEF Digits
  <2>3. luhnValid(s) /\ luhnValid(t)
    BY <1>7, <2>1, <2>2, AlgorithmsAre, DigitsAlone
  <2> QED
    BY <1>1, <2>3, LuhnNotices
<1>8. CASE cc = "AT"
  BY <1>1, <1>8, SlipStands, AustrianAlgorithm, ATNumberNotices
<1>9. CASE cc = "SE"
  BY <1>1, <1>9, SlipStands, AlgorithmsAre, SENotices
<1>10. CASE cc = "FR"
  <2>1. Len(s) = 11
    BY <1>10, CheckedLengthsAre
  <2>2. i = Len(s) \/ i > 2
    BY <1>10, SlipStands, ZenonT(60)
  <2>3. Len(s) = 11 /\ i > 2
    BY <2>1, <2>2
  <2> QED
    BY <1>1, <1>10, <2>3, AlgorithmsAre, FRNotices
<1> QED
  BY <1>2, <1>3, <1>4, <1>5, <1>6, <1>7, <1>8, <1>9, <1>10 DEF OtherCountries

(* No number that is a VAT number with an error is valid as well.          *)
LEMMA CountryNotices ==
  ASSUME NEW cc \in knownVATPrefixes, NEW s, NEW t, NEW i, CoveredSlip(cc, s, t, i),
         CountryVerdict(cc, s) = "checksum_valid", CountryVerdict(cc, t) = "checksum_valid",
         cc = "IT" => HasDigits(s, 11)
  PROVE  FALSE
<1>1. CASE cc = "ES"
  <2>1. esNIFVerdict(s) = "checksum_valid" /\ esNIFVerdict(t) = "checksum_valid"
    BY <1>1 DEF CountryVerdict, Algorithms
  <2>2. Misread(s, t, i) /\ (s[i] \in Digit \/ i = Len(s)) /\ Len(s) = 9
    BY <1>1, <2>1, SlipStands, NIFIs, ZenonT(60)
  <2> QED
    BY <2>1, <2>2, ESNotices
<1>2. CASE cc # "ES"
  <2>1. /\ cc \in Algorithms /\ CheckedLength(cc, s)
        /\ CountryAlgorithm(cc, s) /\ CountryAlgorithm(cc, t)
    BY <1>2, CountryValidIs
  <2>2. cc \in TellingCountries \cup SharingCountries \cup OtherCountries
    BY <1>2, <2>1
       DEF Algorithms, knownVATPrefixes, TellingCountries, SharingCountries, OtherCountries
  <2> QED
    BY <2>1, <2>2, TellingCountriesNotice, SharingCountriesNotice, OtherCountriesNotice
<1> QED
  BY <1>1, <1>2

(* The two letters of a prefix, and what is behind them.                   *)
LEMMA BehindPrefix ==
  ASSUME NEW n \in Seq(Characters), Len(n) > 3
  PROVE  /\ SubSeq(n, 3, Len(n)) \in Seq(Characters) /\ Len(SubSeq(n, 3, Len(n))) = Len(n) - 2
         /\ \A j \in 1..(Len(n) - 2) : SubSeq(n, 3, Len(n))[j] = n[j + 2]
<1> DEFINE k == 2
           l == Len(n)
<1>1. k \in Nat /\ l \in Nat /\ k <= l /\ l <= Len(n) /\ k + 1 = 3
  OBVIOUS
<1> HIDE DEF k, l
<1>2. /\ SubSeq(n, k + 1, l) \in Seq(Characters) /\ Len(SubSeq(n, k + 1, l)) = l - k
      /\ \A j \in 1..(l - k) : SubSeq(n, k + 1, l)[j] = n[j + k]
  BY <1>1, PartIs
<1>3. SubSeq(n, k + 1, l) = SubSeq(n, 3, Len(n)) /\ l - k = Len(n) - 2 /\ k = 2
  BY <1>1 DEF k, l
<1> QED
  BY <1>2, <1>3

LEMMA BehindPrefixWrong ==
  ASSUME NEW n, NEW m, NEW i, Len(n) > 3, i > 2
  PROVE  /\ Misread(n, m, i) =>
              Misread(SubSeq(n, 3, Len(n)), SubSeq(m, 3, Len(m)), i - 2)
         /\ Swapped(n, m, i) =>
              Swapped(SubSeq(n, 3, Len(n)), SubSeq(m, 3, Len(m)), i - 2)
<1> DEFINE k == 2
           l == Len(n)
<1>1. ASSUME Misread(n, m, i) PROVE Misread(SubSeq(n, 3, Len(n)), SubSeq(m, 3, Len(m)), i - 2)
  <2>1. k \in Nat /\ l \in Nat /\ k <= l /\ l <= Len(n) /\ k + 1 = 3 /\ i > k /\ i <= l
        /\ Len(m) = Len(n)
    BY <1>1 DEF Misread
  <2> HIDE DEF k, l
  <2>2. Misread(SubSeq(n, k + 1, l), SubSeq(m, k + 1, l), i - k)
    BY <1>1, <2>1, PartMisread
  <2> QED
    BY <2>1, <2>2 DEF k, l
<1>2. ASSUME Swapped(n, m, i) PROVE Swapped(SubSeq(n, 3, Len(n)), SubSeq(m, 3, Len(m)), i - 2)
  <2>1. k \in Nat /\ l \in Nat /\ k <= l /\ l <= Len(n) /\ k + 1 = 3 /\ i > k /\ i < l
        /\ Len(m) = Len(n)
    BY <1>2 DEF Swapped
  <2> HIDE DEF k, l
  <2>2. Swapped(SubSeq(n, k + 1, l), SubSeq(m, k + 1, l), i - k)
    BY <1>2, <2>1, PartSwapped
  <2> QED
    BY <2>1, <2>2 DEF k, l
<1> QED
  BY <1>1, <1>2

LEMMA LettersAreNoDigits == \A c \in Alpha : c \notin Digit
BY DEF Alpha, Digit

(* An error behind the prefix leaves the prefix as it was.                 *)
LEMMA PrefixStays ==
  ASSUME NEW n, NEW m, NEW i, Misread(n, m, i) \/ Swapped(n, m, i), i > 2, Len(n) > 3,
         StartsWithLetters(n)
  PROVE  StartsWithLetters(m) /\ FirstTwo(m) = FirstTwo(n)
<1>1. m[1] = n[1] /\ m[2] = n[2] /\ Len(m) = Len(n)
  <2>1. 1 \in 1..Len(n) /\ 2 \in 1..Len(n) /\ i # 1 /\ i # 2 /\ i + 1 # 1 /\ i + 1 # 2
    BY DEF Misread, Swapped
  <2> QED
    BY <2>1 DEF Misread, Swapped
<1> QED
  BY <1>1 DEF StartsWithLetters, FirstTwo

LEMMA VATSlipNoticed ==
  ASSUME NEW cc \in knownVATPrefixes, NEW n, NEW m, NEW i, Misread(n, m, i), Len(n) > 3,
         StartsWithLetters(n), FirstTwo(n) = cc,
         cc = "IT" => HasDigits(SubSeq(n, 3, Len(n)), 11),
         validateVAT(cc, n) = "checksum_valid", validateVAT(cc, m) = "checksum_valid",
         \/ i = ControlOf(cc, SubSeq(n, 3, Len(n))) + 2
         \/ /\ cc \notin SharingCountries /\ n[i] \in Digit
            /\ i <= ControlOf(cc, SubSeq(n, 3, Len(n))) + 2 /\ (cc = "FR" => i > 4)
  PROVE  FALSE
<1> DEFINE s == SubSeq(n, 3, Len(n))
           t == SubSeq(m, 3, Len(m))
<1>1. n \in Seq(Characters) /\ i \in 1..Len(n) /\ Len(n) \in Nat
  BY DEF Misread
<1>2. Len(s) = Len(n) - 2 /\ \A j \in 1..(Len(n) - 2) : s[j] = n[j + 2]
  BY <1>1, BehindPrefix
<1> HIDE DEF s, t
<1>3. ControlOf(cc, s) \in Nat /\ ControlOf(cc, s) >= 1
  BY <1>1, <1>2 DEF ControlOf
<1>4. \/ i = ControlOf(cc, s) + 2
      \/ /\ cc \notin SharingCountries /\ n[i] \in Digit
         /\ i <= ControlOf(cc, s) + 2 /\ (cc = "FR" => i > 4)
  BY DEF s
<1>5. i > 2
  <2>1. n[1] \notin Digit /\ n[2] \notin Digit
    BY LettersAreNoDigits DEF StartsWithLetters
  <2> QED
    BY <1>1, <1>3, <1>4, <2>1
<1>6. Misread(s, t, i - 2)
  BY <1>5, BehindPrefixWrong DEF s, t
<1>7. CountryVerdict(cc, s) = "checksum_valid" /\ CountryVerdict(cc, t) = "checksum_valid"
  BY <1>5, PrefixStays, VATIs DEF s, t
<1> DEFINE k == i - 2
<1>8. k \in 1..(Len(n) - 2) /\ k + 2 = i
  BY <1>1, <1>5
<1>9. s[k] = n[i]
  BY <1>2, <1>8
<1>10. Misread(s, t, k)
  BY <1>6
<1> HIDE DEF k
<1>11. CoveredSlip(cc, s, t, k)
  <2>1. CASE i = ControlOf(cc, s) + 2
    <3>1. k = ControlOf(cc, s)
      BY <1>3, <1>8, <2>1
    <3> QED
      BY <1>10, <3>1 DEF CoveredSlip
  <2>2. CASE /\ cc \notin SharingCountries /\ n[i] \in Digit
             /\ i <= ControlOf(cc, s) + 2 /\ (cc = "FR" => i > 4)
    <3>1. k <= ControlOf(cc, s) /\ (cc = "FR" => k > 2)
      BY <1>3, <1>8, <2>2
    <3> QED
      BY <1>9, <1>10, <2>2, <3>1 DEF CoveredSlip
  <2> QED
    BY <1>4, <2>1, <2>2
<1>12. cc = "IT" => HasDigits(s, 11)
  BY DEF s
<1> QED
  BY <1>7, <1>11, <1>12, CountryNotices

LEMMA VATSwapNoticed ==
  ASSUME NEW cc \in TellingCountries, NEW n, NEW m, NEW i, Swapped(n, m, i), Len(n) > 3,
         StartsWithLetters(n), FirstTwo(n) = cc,
         validateVAT(cc, n) = "checksum_valid", validateVAT(cc, m) = "checksum_valid",
         i + 1 <= ControlOf(cc, SubSeq(n, 3, Len(n))) + 2
  PROVE  FALSE
<1> DEFINE s == SubSeq(n, 3, Len(n))
           t == SubSeq(m, 3, Len(m))
<1>1. n \in Seq(Characters) /\ i \in 1..(Len(n) - 1) /\ Len(n) \in Nat
      /\ n[i] \in Digit /\ n[i + 1] \in Digit
  BY DEF Swapped
<1>2. Len(s) = Len(n) - 2
  BY <1>1, BehindPrefix
<1> HIDE DEF s, t
<1>3. ControlOf(cc, s) \in Nat
  BY <1>1, <1>2 DEF ControlOf
<1>4. i > 2
  <2>1. n[1] \notin Digit /\ n[2] \notin Digit
    BY LettersAreNoDigits DEF StartsWithLetters
  <2> QED
    BY <1>1, <2>1
<1>5. Swapped(s, t, i - 2)
  BY <1>4, BehindPrefixWrong DEF s, t
<1>6. CountryVerdict(cc, s) = "checksum_valid" /\ CountryVerdict(cc, t) = "checksum_valid"
  BY <1>4, PrefixStays, VATIs DEF s, t
<1> DEFINE k == i - 2
<1>7. Swapped(s, t, k) /\ k + 1 <= ControlOf(cc, s)
  <2>1. i + 1 <= ControlOf(cc, s) + 2
    BY DEF s
  <2> QED
    BY <1>1, <1>3, <1>5, <2>1
<1> HIDE DEF k
<1>8. CoveredSwap(cc, s, t, k)
  BY <1>7 DEF CoveredSwap
<1>9. cc # "ES"
  BY DEF TellingCountries
<1> QED
  BY <1>6, <1>8, <1>9, CountryValidIs, TellingCountriesNotice

-----------------------------------------------------------------------------
(* National numbers                                                        *)

LEMMA NationalVerdicts ==
  ASSUME NEW n, NEW cc
  PROVE  /\ validateIdentifier("VAT", n, cc) = validateVAT(cc, n)
         /\ validateIdentifier("OrgNr", n, cc) = mod11Verdict(norwayOrgNrValid(extractDigits(n)))
         /\ validateIdentifier("Imones kodas", n, cc) =
              mod11Verdict(ltCompanyCodeValid(extractDigits(n)))
         /\ validateIdentifier("CorporateNumber", n, cc) =
              mod11Verdict(jpCorporateNumberValid(extractDigits(n)))
         /\ validateIdentifier("ABN", n, cc) = mod11Verdict(abnValid(extractDigits(n)))
         /\ validateIdentifier("ACN", n, cc) = mod11Verdict(acnValid(extractDigits(n)))
BY DEF validateIdentifier

LEMMA SIRENVerdict ==
  ASSUME NEW n, NEW cc
  PROVE  validateIdentifier("SIREN", n, cc) =
           mod11Verdict(\/ Len(extractDigits(n)) = 14 /\ luhnValid(extractDigits(n))
                        \/ Len(extractDigits(n)) >= 9 /\ luhnValid(SubSeq(extractDigits(n), 1, 9)))
BY DEF validateIdentifier

LEMMA UIDVerdict ==
  ASSUME NEW n, NEW cc
  PROVE  validateIdentifier("UID", n, cc) =
           IF Len(extractDigits(n)) = 9 THEN mod11Verdict(chUIDValid(extractDigits(n)))
           ELSE "format_valid"
BY DEF validateIdentifier

LEMMA AdoszamVerdict ==
  ASSUME NEW n, NEW cc
  PROVE  validateIdentifier("Adoszam", n, cc) =
           IF Len(extractDigits(n)) < 8 THEN "format_valid"
           ELSE mod11Verdict(huAdoszamValid(SubSeq(extractDigits(n), 1, 8)))
BY DEF validateIdentifier

LEMMA AllDigitsAre ==
  ASSUME NEW n \in Seq(Characters), allDigits(n)
  PROVE  Digits(n) /\ extractDigits(n) = n
<1>1. Digits(n)
  BY DEF allDigits, Digits
<1> QED
  BY <1>1, DigitsAlone

(* A verdict that says the control agrees.                                 *)
LEMMA NationalValid ==
  ASSUME NEW u, NEW cc, extractDigits(u) = u
  PROVE  /\ validateIdentifier("OrgNr", u, cc) = "checksum_valid" => norwayOrgNrValid(u)
         /\ validateIdentifier("Imones kodas", u, cc) = "checksum_valid" => ltCompanyCodeValid(u)
         /\ validateIdentifier("CorporateNumber", u, cc) = "checksum_valid" =>
              jpCorporateNumberValid(u)
         /\ validateIdentifier("ABN", u, cc) = "checksum_valid" => abnValid(u)
         /\ validateIdentifier("ACN", u, cc) = "checksum_valid" => acnValid(u)
BY NationalVerdicts DEF mod11Verdict

LEMMA SIRENValid ==
  ASSUME NEW u, NEW cc, extractDigits(u) = u, Len(u) = 9,
         validateIdentifier("SIREN", u, cc) = "checksum_valid"
  PROVE  luhnValid(SubSeq(u, 1, 9))
<1> DEFINE all == Len(u) = 14 /\ luhnValid(u)
           first == Len(u) >= 9 /\ luhnValid(SubSeq(u, 1, 9))
<1>1. mod11Verdict(all \/ first) = "checksum_valid"
  BY SIRENVerdict, Zenon
<1>2. all \/ first
  BY <1>1, Zenon DEF mod11Verdict
<1>3. ~all
  BY 14 # 9
<1> QED
  BY <1>2, <1>3

LEMMA AdoszamValid ==
  ASSUME NEW u, NEW cc, extractDigits(u) = u, Len(u) \in Nat,
         validateIdentifier("Adoszam", u, cc) = "checksum_valid"
  PROVE  Len(u) >= 8 /\ huAdoszamValid(SubSeq(u, 1, 8))
BY AdoszamVerdict DEF mod11Verdict

LEMMA UIDValid ==
  ASSUME NEW u, NEW cc, validateIdentifier("UID", u, cc) = "checksum_valid"
  PROVE  Len(extractDigits(u)) = 9 /\ chUIDValid(extractDigits(u))
BY UIDVerdict DEF mod11Verdict

(* With one error in it, a number of digits is still one.                  *)
LEMMA DigitsStay ==
  ASSUME NEW n, NEW m, Wrong(n, m), allDigits(n)
  PROVE  /\ Digits(n) /\ extractDigits(n) = n
         /\ Digits(m) /\ extractDigits(m) = m
         /\ Len(m) = Len(n) /\ Len(n) \in Nat
<1>1. n \in Seq(Characters) /\ m \in Seq(Characters) /\ Len(m) = Len(n)
  BY WrongIs
<1>2. Digits(n) /\ extractDigits(n) = n
  BY <1>1, AllDigitsAre
<1>3. \A j \in 1..Len(n) : n[j] \in Digit <=> m[j] \in Digit
  BY SortsAreKept
<1>4. \A j \in 1..Len(n) : n[j] \in Digit
  BY <1>1, <1>2 DEF Digits
<1>5. \A j \in 1..Len(m) : m[j] \in Digit
  BY <1>1, <1>3, <1>4
<1>6. Digits(m)
  BY <1>1, <1>5 DEF Digits
<1> QED
  BY <1>1, <1>2, <1>6, DigitsAlone

LEMMA WithinNine == \A l, i : l = 9 /\ i \in 1..l => 9 \in Nat /\ 9 <= l /\ i <= 9
OBVIOUS

(* An error in the digits of a national number does not get past the       *)
(* control, as far as that covers it.                                      *)
LEMMA NationalSlipNoticed ==
  ASSUME NEW kind, NEW cc, <<kind, cc>> \in NationalNumbers,
         NEW n, NEW m, NEW i, Misread(n, m, i), allDigits(n), kind = "SIREN" => Len(n) = 9,
         validateIdentifier(kind, n, cc) = "checksum_valid",
         validateIdentifier(kind, m, cc) = "checksum_valid",
         kind = "Adoszam" => i <= 8,
         kind \in {"Imones kodas", "ACN"} => i = Len(n),
         kind = "CorporateNumber" => i = 1
  PROVE  FALSE
<1>1. Wrong(n, m) /\ i \in 1..Len(n)
  BY DEF Misread, Wrong
<1>2. /\ extractDigits(n) = n /\ extractDigits(m) = m
      /\ Len(m) = Len(n) /\ Len(n) \in Nat
  BY <1>1, DigitsStay
<1>3. CASE kind = "OrgNr"
  <2>1. norwayOrgNrValid(n) /\ norwayOrgNrValid(m)
    BY <1>2, <1>3, NationalValid
  <2> QED
    BY <1>1, <2>1, NONotices
<1>4. CASE kind = "Imones kodas"
  <2>1. ltCompanyCodeValid(n) /\ ltCompanyCodeValid(m)
    BY <1>2, <1>4, NationalValid
  <2>2. TwoRowCheck(n) = n[9] /\ TwoRowCheck(m) = m[9] /\ Len(n) = 9
    BY <2>1 DEF ltCompanyCodeValid, HasDigits
  <2>3. Misread(n, m, 9)
    BY <1>4, <2>2
  <2> QED
    BY <2>2, <2>3, TwoRowsNotice
<1>5. CASE kind = "CorporateNumber"
  <2>1. jpCorporateNumberValid(n) /\ jpCorporateNumberValid(m)
    BY <1>2, <1>5, NationalValid
  <2>2. Misread(n, m, 1)
    BY <1>5
  <2> QED
    BY <2>1, <2>2, JPNotices
<1>6. CASE kind = "ABN"
  <2>1. abnValid(n) /\ abnValid(m)
    BY <1>2, <1>6, NationalValid
  <2> QED
    BY <2>1, ABNNotices
<1>7. CASE kind = "ACN"
  <2>1. acnValid(n) /\ acnValid(m)
    BY <1>2, <1>7, NationalValid
  <2>2. Len(n) = 9
    BY <2>1 DEF acnValid, HasDigits
  <2>3. Misread(n, m, 9)
    BY <1>7, <2>2
  <2> QED
    BY <2>1, <2>3, ACNNotices
<1>8. CASE kind = "SIREN"
  <2> DEFINE k == 9
  <2>1. Len(n) = 9 /\ Len(m) = 9
    BY <1>2, <1>8
  <2>2. luhnValid(SubSeq(n, 1, k)) /\ luhnValid(SubSeq(m, 1, k))
    BY <1>2, <1>8, <2>1, SIRENValid
  <2>3. k \in Nat /\ k <= Len(n) /\ i <= k
    <3>1. i \in 1..Len(n)
      BY <1>1
    <3> QED
      BY <2>1, <3>1, WithinNine, Zenon
  <2> HIDE DEF k
  <2>4. Misread(SubSeq(n, 1, k), SubSeq(m, 1, k), i)
    BY <2>3, FrontMisread
  <2> QED
    BY <2>2, <2>4, LuhnNotices
<1>9. CASE kind = "Adoszam"
  <2> DEFINE k == 8
  <2>1. /\ Len(n) >= 8
        /\ huAdoszamValid(SubSeq(n, 1, k)) /\ huAdoszamValid(SubSeq(m, 1, k))
    BY <1>2, <1>9, AdoszamValid
  <2>2. k \in Nat /\ k <= Len(n) /\ i <= k
    BY <1>1, <1>2, <1>9, <2>1
  <2> HIDE DEF k
  <2>3. Misread(SubSeq(n, 1, k), SubSeq(m, 1, k), i)
    BY <2>2, FrontMisread
  <2> QED
    BY <2>1, <2>3, HUNotices
<1> QED
  BY <1>3, <1>4, <1>5, <1>6, <1>7, <1>8, <1>9 DEF NationalNumbers

LEMMA NorwegianSwapNoticed ==
  ASSUME NEW cc, NEW n, NEW m, NEW i, Swapped(n, m, i), allDigits(n),
         validateIdentifier("OrgNr", n, cc) = "checksum_valid",
         validateIdentifier("OrgNr", m, cc) = "checksum_valid"
  PROVE  FALSE
<1>1. Wrong(n, m)
  BY DEF Wrong
<1>2. extractDigits(n) = n /\ extractDigits(m) = m
  BY <1>1, DigitsStay
<1>3. norwayOrgNrValid(n) /\ norwayOrgNrValid(m)
  BY <1>2, NationalValid
<1> QED
  BY <1>1, <1>3, NONotices

(* A Swiss number is CHE and nine digits.                                  *)
SwissNumber(n) ==
  /\ n \in Seq(Characters) /\ Len(n) > 3
  /\ SubSeq(n, 1, 3) = Word(<<"C", "H", "E">>) /\ HasDigits(SubSeq(n, 4, Len(n)), 9)

LEMMA SwissLetters ==
  \A j \in 1..3 : Word(<<"C", "H", "E">>)[j] \in Alpha
<1>1. Alphabet[3] = "C" /\ Alphabet[8] = "H" /\ Alphabet[5] = "E" /\ DOMAIN Alphabet = 1..26
  BY DEF Alphabet
<1>2. {"C", "H", "E"} \subseteq Range(Alphabet)
  BY <1>1 DEF Range
<1>3. CodeOf["C"] \in Alpha /\ CodeOf["H"] \in Alpha /\ CodeOf["E"] \in Alpha
  BY <1>2, LettersAre
<1> QED
  BY <1>3 DEF Word

LEMMA SwissNumberIs ==
  ASSUME NEW n, SwissNumber(n)
  PROVE  /\ Len(n) = 12
         /\ \A j \in 1..3 : n[j] \notin Digit
         /\ \A j \in 4..12 : n[j] \in Digit
<1> DEFINE k == 3
           l == Len(n)
<1>1. n \in Seq(Characters) /\ l \in Nat /\ k \in Nat /\ k <= l /\ l <= Len(n) /\ k + 1 = 4
  BY DEF SwissNumber
<1>2. SubSeq(n, k + 1, l) = SubSeq(n, 4, Len(n))
  OBVIOUS
<1>3. HasDigits(SubSeq(n, k + 1, l), 9)
  BY <1>2 DEF SwissNumber
<1>4. \A j \in 1..k : n[j] = Word(<<"C", "H", "E">>)[j]
  <2>1. \A j \in 1..3 : SubSeq(n, 1, 3)[j] = n[j]
    BY <1>1
  <2> QED
    BY <2>1 DEF SwissNumber
<1> HIDE DEF k, l
<1>5. /\ SubSeq(n, k + 1, l) \in Seq(Characters) /\ Len(SubSeq(n, k + 1, l)) = l - k
      /\ \A j \in 1..(l - k) : SubSeq(n, k + 1, l)[j] = n[j + k]
  BY <1>1, PartIs
<1>6. Len(SubSeq(n, k + 1, l)) = 9 /\ \A j \in 1..9 : SubSeq(n, k + 1, l)[j] \in Digit
  BY <1>3, <1>5, HasDigitsIs
<1>7. l = 12 /\ k = 3
  BY <1>1, <1>5, <1>6 DEF k
<1>8. \A j \in 1..9 : n[j + 3] \in Digit
  BY <1>5, <1>6, <1>7
<1>9. ASSUME NEW j \in 4..12 PROVE n[j] \in Digit
  <2>1. j - 3 \in 1..9 /\ (j - 3) + 3 = j
    OBVIOUS
  <2>2. n[(j - 3) + 3] \in Digit
    BY <1>8, <2>1
  <2> QED
    BY <2>1, <2>2
<1>10. \A j \in 1..3 : n[j] \notin Digit
  BY <1>4, <1>7, SwissLetters, LettersAreNoDigits
<1> QED
  BY <1>7, <1>9, <1>10 DEF l

(* An error in a Swiss number's digits does not get past its control.      *)
LEMMA SwissErrorNoticed ==
  ASSUME NEW cc, NEW n, NEW m, NEW i, SwissNumber(n),
         (Misread(n, m, i) /\ (n[i] \in Digit \/ i = Len(n))) \/ Swapped(n, m, i),
         validateIdentifier("UID", n, cc) = "checksum_valid",
         validateIdentifier("UID", m, cc) = "checksum_valid"
  PROVE  FALSE
<1> DEFINE k == 3
           l == 12
<1>1. /\ Len(n) = 12 /\ \A j \in 1..3 : n[j] \notin Digit
      /\ \A j \in 4..12 : n[j] \in Digit
  BY SwissNumberIs
<1>2. Wrong(n, m)
  BY DEF Wrong
<1>3. n \in Seq(Characters) /\ m \in Seq(Characters) /\ Len(m) = 12
  BY <1>1, <1>2, WrongIs
<1>4. \A j \in 1..12 : n[j] \in Digit <=> m[j] \in Digit
  BY <1>1, <1>2, SortsAreKept
<1>5. k \in Nat /\ l \in Nat /\ k <= l /\ l <= Len(n) /\ l = Len(n) /\ l = Len(m) /\ k <= Len(n)
      /\ k <= Len(m)
  BY <1>1, <1>3
<1>6. /\ \A j \in 1..k : n[j] \notin Digit
      /\ \A j \in 1..k : m[j] \notin Digit
      /\ \A j \in (k + 1)..l : n[j] \in Digit
      /\ \A j \in (k + 1)..l : m[j] \in Digit
  BY <1>1, <1>4
<1>7. \/ Misread(n, m, i) /\ i > k /\ i <= l
      \/ Swapped(n, m, i) /\ i > k /\ i < l
  <2>1. CASE Misread(n, m, i) /\ (n[i] \in Digit \/ i = Len(n))
    <3>1. i \in 1..12
      BY <1>1, <2>1 DEF Misread
    <3>2. i \notin 1..3
      BY <1>1, <2>1
    <3> QED
      BY <2>1, <3>1, <3>2
  <2>2. CASE Swapped(n, m, i)
    <3>1. i \in 1..11 /\ n[i] \in Digit
      BY <1>1, <2>2 DEF Swapped
    <3>2. i \notin 1..3
      BY <1>1, <3>1
    <3> QED
      BY <2>2, <3>1, <3>2
  <2> QED
    BY <2>1, <2>2
<1> HIDE DEF k, l
<1>8. /\ extractDigits(n) = SubSeq(n, k + 1, l)
      /\ extractDigits(m) = SubSeq(m, k + 1, l)
  <2>1. extractDigits(n) = SubSeq(n, k + 1, Len(n))
    <3>1. \A j \in (k + 1)..Len(n) : n[j] \in Digit
      BY <1>5, <1>6
    <3> QED
      BY <1>3, <1>5, <1>6, <3>1, DigitsBehindLetters
  <2>2. extractDigits(m) = SubSeq(m, k + 1, Len(m))
    <3>1. \A j \in (k + 1)..Len(m) : m[j] \in Digit
      BY <1>5, <1>6
    <3> QED
      BY <1>3, <1>5, <1>6, <3>1, DigitsBehindLetters
  <2> QED
    BY <1>5, <2>1, <2>2
<1>9. Wrong(SubSeq(n, k + 1, l), SubSeq(m, k + 1, l))
  BY <1>5, <1>7, PartMisread, PartSwapped DEF Wrong
<1>10. chUIDValid(extractDigits(n)) /\ chUIDValid(extractDigits(m))
  BY UIDValid
<1> QED
  BY <1>8, <1>9, <1>10, CHNotices

-----------------------------------------------------------------------------
(* The specification                                                       *)

LEMMA CharactersAre == Digit \cup Alpha = Characters
BY DEF Digit, Alpha, Characters

(* The number that was issued is genuine, what stands on the page is it or *)
(* has one error, and the verdict is on what stands there.                 *)
IssuedIsGenuine ==
  /\ IsMatched(scheme.kind, scheme.country, issued)
  /\ Verdict(issued) = "checksum_valid"

OneErrorAtMost == copied = issued \/ Wrong(issued, copied)

VerdictIsOnThePage == verdict # "" => verdict = Verdict(copied)

NumberInv == IssuedIsGenuine /\ OneErrorAtMost /\ VerdictIsOnThePage

LEMMA MatchedIs ==
  ASSUME NEW kind, NEW cc, NEW n, IsMatched(kind, cc, n)
  PROVE  /\ n \in Seq(Characters) /\ Len(n) \in Nat /\ Len(n) > 3 /\ DOMAIN n = 1..Len(n)
         /\ kind = "VAT" => /\ cc \in knownVATPrefixes /\ StartsWithLetters(n) /\ FirstTwo(n) = cc
                            /\ cc = "IT" => HasDigits(SubSeq(n, 3, Len(n)), 11)
         /\ kind = "UID" => cc = "CH" /\ SwissNumber(n)
         /\ kind \notin {"VAT", "UID"} =>
              <<kind, cc>> \in NationalNumbers /\ allDigits(n) /\ (kind = "SIREN" => Len(n) = 9)
<1>1. n \in Seq(Characters) /\ Len(n) > 3
  BY CharactersAre DEF IsMatched
<1>2. ASSUME kind = "VAT"
      PROVE  /\ cc \in knownVATPrefixes /\ StartsWithLetters(n) /\ FirstTwo(n) = cc
             /\ cc = "IT" => HasDigits(SubSeq(n, 3, Len(n)), 11)
  BY <1>2 DEF IsMatched, NationalNumbers
<1>3. ASSUME kind = "UID" PROVE cc = "CH" /\ SwissNumber(n)
  BY <1>1, <1>3 DEF IsMatched, NationalNumbers, SwissNumber
<1>4. ASSUME kind \notin {"VAT", "UID"}
      PROVE  <<kind, cc>> \in NationalNumbers /\ allDigits(n) /\ (kind = "SIREN" => Len(n) = 9)
  BY <1>4 DEF IsMatched
<1> QED
  BY <1>1, <1>2, <1>3, <1>4

LEMMA IssuedIs ==
  ASSUME NumberInv
  PROVE  /\ issued \in Seq(Characters) /\ Len(issued) \in Nat /\ Len(issued) > 3
         /\ DOMAIN issued = 1..Len(issued)
         /\ scheme.kind = "VAT" =>
              /\ scheme.country \in knownVATPrefixes
              /\ StartsWithLetters(issued) /\ FirstTwo(issued) = scheme.country
              /\ scheme.country = "IT" => HasDigits(SubSeq(issued, 3, Len(issued)), 11)
<1>1. IsMatched(scheme.kind, scheme.country, issued)
  BY DEF NumberInv, IssuedIsGenuine
<1> QED
  BY <1>1, MatchedIs

LEMMA NumberInvInit == NumberInit => NumberInv
BY DEF NumberInit, NumberInv, IssuedIsGenuine, OneErrorAtMost, VerdictIsOnThePage

LEMMA SlipIsMisread ==
  ASSUME NumberInv, NEW i \in DOMAIN issued, Slip(i)
  PROVE  Misread(issued, copied', i)
<1>1. issued \in Seq(Characters) /\ DOMAIN issued = 1..Len(issued)
  BY IssuedIs
<1>2. PICK c \in Like(issued[i]) \ {issued[i]} : copied' = [issued EXCEPT ![i] = c]
  BY DEF Slip
<1>3. issued[i] \in Characters
  BY <1>1
<1>4. c \in Characters /\ c # issued[i] /\ (issued[i] \in Digit <=> c \in Digit)
  BY <1>2, <1>3, CharactersAre, LettersAreNoDigits DEF Like
<1>5. [issued EXCEPT ![i] = c] \in Seq(Characters) /\ Len([issued EXCEPT ![i] = c]) = Len(issued)
  BY <1>1, <1>4
<1> QED
  BY <1>1, <1>2, <1>4, <1>5 DEF Misread

LEMMA SwapIsSwapped ==
  ASSUME NumberInv, NEW i \in 1..(Len(issued) - 1), Swap(i)
  PROVE  Swapped(issued, copied', i)
<1>1. /\ issued \in Seq(Characters) /\ DOMAIN issued = 1..Len(issued) /\ Len(issued) \in Nat
  BY IssuedIs
<1>2. /\ copied' = [issued EXCEPT ![i] = issued[i + 1], ![i + 1] = issued[i]]
      /\ issued[i] # issued[i + 1] /\ issued[i] \in Digit /\ issued[i + 1] \in Digit
  BY DEF Swap
<1>3. i \in 1..Len(issued) /\ i + 1 \in 1..Len(issued) /\ i # i + 1
  BY <1>1
<1>4. issued[i] \in Characters /\ issued[i + 1] \in Characters
  BY <1>1, <1>3
<1>5. copied' \in Seq(Characters) /\ Len(copied') = Len(issued)
  BY <1>1, <1>2, <1>3, <1>4
<1> QED
  BY <1>1, <1>2, <1>3, <1>5 DEF Swapped

LEMMA NumberInvNext == NumberInv /\ [NumberNext]_numberVars => NumberInv'
<1> SUFFICES ASSUME NumberInv, [NumberNext]_numberVars PROVE NumberInv'
  OBVIOUS
<1>1. ASSUME NEW i \in DOMAIN issued, Slip(i) PROVE NumberInv'
  <2>1. Misread(issued, copied', i)
    BY <1>1, SlipIsMisread
  <2>2. Wrong(issued, copied')
    BY <2>1 DEF Wrong
  <2>3. UNCHANGED <<scheme, issued, verdict>> /\ verdict = ""
    BY <1>1 DEF Slip
  <2>4. OneErrorAtMost'
    BY <2>2, <2>3 DEF OneErrorAtMost
  <2> QED
    BY <2>3, <2>4 DEF NumberInv, IssuedIsGenuine, VerdictIsOnThePage, Verdict
<1>2. ASSUME NEW i \in 1..(Len(issued) - 1), Swap(i) PROVE NumberInv'
  <2>1. Swapped(issued, copied', i)
    BY <1>2, SwapIsSwapped
  <2>2. Wrong(issued, copied')
    BY <2>1 DEF Wrong
  <2>3. UNCHANGED <<scheme, issued, verdict>> /\ verdict = ""
    BY <1>2 DEF Swap
  <2>4. OneErrorAtMost'
    BY <2>2, <2>3 DEF OneErrorAtMost
  <2> QED
    BY <2>3, <2>4 DEF NumberInv, IssuedIsGenuine, VerdictIsOnThePage, Verdict
<1>3. CASE Read
  BY <1>3
  DEF Read, NumberInv, IssuedIsGenuine, OneErrorAtMost, VerdictIsOnThePage, Verdict
<1>4. CASE UNCHANGED numberVars
  BY <1>4
  DEF numberVars, NumberInv, IssuedIsGenuine, OneErrorAtMost, VerdictIsOnThePage, Verdict
<1> QED
  BY <1>1, <1>2, <1>3, <1>4 DEF NumberNext

(* Whatever is on the page carries at most one error, and the verdict is   *)
(* the one its characters deserve.                                         *)
LEMMA NumberInvHolds == NumberSpec => []NumberInv
<1>1. NumberInit => NumberInv
  BY NumberInvInit
<1>2. NumberInv /\ [NumberNext]_numberVars => NumberInv'
  BY NumberInvNext
<1> QED
  BY <1>1, <1>2, PTL DEF NumberSpec

-----------------------------------------------------------------------------
(* Errors are noticed                                                      *)

LEMMA ControlBehindPrefix ==
  ASSUME NumberInv, scheme.kind = "VAT"
  PROVE  /\ ControlAt = ControlOf(scheme.country, SubSeq(issued, 3, Len(issued))) + 2
         /\ ControlAt \in Nat /\ ControlAt # 1
<1>1. /\ issued \in Seq(Characters) /\ Len(issued) \in Nat /\ Len(issued) > 3
      /\ scheme.country \in knownVATPrefixes
  BY IssuedIs
<1>2. Len(SubSeq(issued, 3, Len(issued))) = Len(issued) - 2
  BY <1>1, BehindPrefix
<1>3. scheme.country # "JP" /\ scheme.kind # "Adoszam"
  BY <1>1 DEF knownVATPrefixes
<1> DEFINE s == SubSeq(issued, 3, Len(issued))
<1> HIDE DEF s
<1>4. Len(s) + 2 = Len(issued)
  BY <1>1, <1>2 DEF s
<1>5. ControlAt = ControlOf(scheme.country, s) + 2
  BY <1>3, <1>4 DEF ControlAt, ControlOf
<1>6. ControlOf(scheme.country, s) \in {8, 9, 10} \/ ControlOf(scheme.country, s) = Len(s)
  BY DEF ControlOf
<1>7. ControlAt \in Nat /\ ControlAt # 1
  <2> DEFINE c == ControlOf(scheme.country, s)
             l == Len(s)
  <2>1. ControlAt = c + 2 /\ (c \in {8, 9, 10} \/ c = l) /\ l + 2 = Len(issued)
    BY <1>4, <1>5, <1>6
  <2>2. l \in Nat
    BY <1>1, BehindPrefix DEF s
  <2> HIDE DEF c, l
  <2> QED
    BY <1>1, <2>1, <2>2
<1> QED
  BY <1>5, <1>7 DEF s

LEMMA ControlOfOthers ==
  /\ scheme.country = "JP" /\ scheme.kind # "Adoszam" => ControlAt = 1
  /\ scheme.country \notin {"IE", "NL", "GB", "SE", "JP"} =>
       ControlAt = IF scheme.kind = "Adoszam" THEN 8 ELSE Len(issued)
<1>1. ASSUME scheme.country = "JP", scheme.kind # "Adoszam" PROVE ControlAt = 1
  BY <1>1 DEF ControlAt
<1>2. ASSUME scheme.country \notin {"IE", "NL", "GB", "SE", "JP"}
      PROVE  ControlAt = IF scheme.kind = "Adoszam" THEN 8 ELSE Len(issued)
  <2>1. CASE scheme.kind = "Adoszam"
    BY <1>2, <2>1 DEF ControlAt
  <2>2. CASE scheme.kind # "Adoszam"
    BY <1>2, <2>2 DEF ControlAt
  <2> QED
    BY <2>1, <2>2
<1> QED
  BY <1>1, <1>2

(* A misread character the control covers does not leave a good verdict.   *)
LEMMA CoveredSlipNoticed ==
  ASSUME NumberInv, NEW i, Misread(issued, copied, i), Verdict(copied) = "checksum_valid",
         i = ControlAt \/ (~SharesControls /\ i \in Covered)
  PROVE  FALSE
<1> DEFINE cc == scheme.country
<1>1. /\ IsMatched(scheme.kind, cc, issued)
      /\ validateIdentifier(scheme.kind, issued, cc) = "checksum_valid"
      /\ validateIdentifier(scheme.kind, copied, cc) = "checksum_valid"
  BY DEF NumberInv, IssuedIsGenuine, Verdict
<1>2. \/ i = ControlAt
      \/ /\ ~SharesControls /\ issued[i] \in Digit /\ (ControlAt # 1 => i <= ControlAt)
         /\ cc = "FR" /\ scheme.kind = "VAT" => i > 4
  BY DEF Covered
<1>3. CASE scheme.kind = "VAT"
  <2> DEFINE c == ControlOf(cc, SubSeq(issued, 3, Len(issued))) + 2
  <2>1. ControlAt = c /\ ControlAt # 1
    BY <1>3, ControlBehindPrefix
  <2>2. /\ cc \in knownVATPrefixes /\ StartsWithLetters(issued) /\ FirstTwo(issued) = cc
        /\ Len(issued) > 3 /\ (cc = "IT" => HasDigits(SubSeq(issued, 3, Len(issued)), 11))
    BY <1>1, <1>3, MatchedIs, ZenonT(60)
  <2>3. validateVAT(cc, issued) = "checksum_valid" /\ validateVAT(cc, copied) = "checksum_valid"
    BY <1>1, <1>3, NationalVerdicts
  <2>4. ~SharesControls => cc \notin SharingCountries
    BY <1>3 DEF SharesControls, SharingCountries
  <2>5. \/ i = c
        \/ cc \notin SharingCountries /\ issued[i] \in Digit /\ i <= c /\ (cc = "FR" => i > 4)
    BY <1>2, <1>3, <2>1, <2>4
  <2> HIDE DEF cc
  <2> QED
    BY <2>2, <2>3, <2>5, VATSlipNoticed
<1>4. CASE scheme.kind = "UID"
  <2>1. cc = "CH" /\ SwissNumber(issued)
    BY <1>1, <1>4, MatchedIs
  <2>2. ControlAt = Len(issued)
    BY <1>4, <2>1, ControlOfOthers
  <2>3. issued[i] \in Digit \/ i = Len(issued)
    BY <1>2, <2>2
  <2> QED
    BY <1>1, <1>4, <2>1, <2>3, SwissErrorNoticed
<1>5. CASE scheme.kind \notin {"VAT", "UID"}
  <2>1. /\ <<scheme.kind, cc>> \in NationalNumbers /\ allDigits(issued)
        /\ scheme.kind = "SIREN" => Len(issued) = 9
    BY <1>1, <1>5, MatchedIs
  <2>2. scheme.kind = "CorporateNumber" <=> cc = "JP"
    BY <2>1 DEF NationalNumbers
  <2>3. cc \notin {"IE", "NL", "GB", "SE"}
    BY <2>1 DEF NationalNumbers
  <2>4. cc # "JP" => ControlAt = IF scheme.kind = "Adoszam" THEN 8 ELSE Len(issued)
    BY <2>3, ControlOfOthers
  <2>5. scheme.kind \in {"Imones kodas", "CorporateNumber", "ACN"} => i = ControlAt
    BY <1>2 DEF SharesControls
  <2>6. scheme.kind = "CorporateNumber" => i = 1
    BY <2>2, <2>5, ControlOfOthers
  <2>7. scheme.kind \in {"Imones kodas", "ACN"} => i = Len(issued)
    BY <2>2, <2>4, <2>5
  <2>8. scheme.kind = "Adoszam" => i <= 8
    BY <1>2, <2>2, <2>4
  <2> HIDE DEF cc
  <2> QED
    BY <1>1, <2>1, <2>6, <2>7, <2>8, NationalSlipNoticed
<1> QED
  BY <1>3, <1>4, <1>5

(* Neither do two neighbours in the wrong order, where the weights tell.   *)
LEMMA CoveredSwapNoticed ==
  ASSUME NumberInv, NEW i, Swapped(issued, copied, i), Verdict(copied) = "checksum_valid",
         TellsNeighboursApart, i \in Covered, i + 1 \in Covered
  PROVE  FALSE
<1> DEFINE cc == scheme.country
<1>1. /\ IsMatched(scheme.kind, cc, issued)
      /\ validateIdentifier(scheme.kind, issued, cc) = "checksum_valid"
      /\ validateIdentifier(scheme.kind, copied, cc) = "checksum_valid"
  BY DEF NumberInv, IssuedIsGenuine, Verdict
<1>2. ControlAt # 1 => i + 1 <= ControlAt
  BY DEF Covered
<1>3. CASE scheme.kind = "VAT"
  <2> DEFINE c == ControlOf(cc, SubSeq(issued, 3, Len(issued))) + 2
  <2>1. i + 1 <= c
    BY <1>2, <1>3, ControlBehindPrefix
  <2>2. /\ cc \in knownVATPrefixes /\ StartsWithLetters(issued) /\ FirstTwo(issued) = cc
        /\ Len(issued) > 3
    BY <1>1, <1>3, MatchedIs, ZenonT(60)
  <2>3. validateVAT(cc, issued) = "checksum_valid" /\ validateVAT(cc, copied) = "checksum_valid"
    BY <1>1, <1>3, NationalVerdicts
  <2>4. cc \in TellingCountries
    BY <2>2 DEF TellsNeighboursApart, knownVATPrefixes, TellingCountries
  <2> HIDE DEF cc
  <2> QED
    BY <2>1, <2>2, <2>3, <2>4, VATSwapNoticed
<1>4. CASE scheme.kind = "UID"
  <2>1. SwissNumber(issued)
    BY <1>1, <1>4, MatchedIs
  <2> QED
    BY <1>1, <1>4, <2>1, SwissErrorNoticed
<1>5. CASE scheme.kind \notin {"VAT", "UID"}
  <2>1. <<scheme.kind, cc>> \in NationalNumbers /\ allDigits(issued)
    BY <1>1, <1>5, MatchedIs
  <2>2. scheme.kind = "OrgNr"
    BY <2>1 DEF NationalNumbers, TellsNeighboursApart
  <2> QED
    BY <1>1, <2>1, <2>2, NorwegianSwapNoticed
<1> QED
  BY <1>3, <1>4, <1>5

LEMMA ChangedIs ==
  ASSUME NumberInv
  PROVE  /\ copied = issued => Changed = {}
         /\ \A i : Misread(issued, copied, i) => Changed = {i}
         /\ \A i : Swapped(issued, copied, i) => i # i + 1 /\ Changed = {i, i + 1}
<1>1. DOMAIN issued = 1..Len(issued) /\ Len(issued) \in Nat
  BY IssuedIs
<1>2. ASSUME NEW i, Misread(issued, copied, i) PROVE Changed = {i}
  BY <1>1, <1>2 DEF Changed, Misread
<1>3. ASSUME NEW i, Swapped(issued, copied, i) PROVE i # i + 1 /\ Changed = {i, i + 1}
  <2>1. i \in 1..Len(issued) /\ i + 1 \in 1..Len(issued) /\ i # i + 1
    BY <1>1, <1>3 DEF Swapped
  <2>2. copied[i] # issued[i] /\ copied[i + 1] # issued[i + 1]
    BY <1>3 DEF Swapped
  <2>3. \A j \in 1..Len(issued) : j # i /\ j # i + 1 => copied[j] = issued[j]
    BY <1>3 DEF Swapped
  <2> QED
    BY <1>1, <2>1, <2>2, <2>3 DEF Changed
<1> QED
  BY <1>2, <1>3 DEF Changed

LEMMA OneAndTwo ==
  /\ Cardinality({}) = 0
  /\ \A x : Cardinality({x}) = 1
  /\ \A x, y : x # y => Cardinality({x, y}) = 2
<1>1. Cardinality({}) = 0
  BY FS_EmptySet
<1>2. \A x : IsFiniteSet({x}) /\ Cardinality({x}) = 1
  BY FS_Singleton
<1>3. ASSUME NEW x, NEW y, x # y PROVE Cardinality({x, y}) = 2
  <2>1. Cardinality({x} \cup {y}) = 1 + 1
    <3>1. IsFiniteSet({x}) /\ Cardinality({x}) = 1 /\ y \notin {x}
      BY <1>2, <1>3
    <3> QED
      BY <3>1, FS_AddElement
  <2>2. {x} \cup {y} = {x, y}
    OBVIOUS
  <2> QED
    BY <2>1, <2>2
<1> QED
  BY <1>1, <1>2, <1>3

(* A misread digit or a swapped pair never passes for a genuine number,    *)
(* whatever numbers are issued, as far as each scheme's arithmetic reaches *)
(* (imprint_checksum.go 13-26).                                            *)
THEOREM ErrorsNeverPass == NumberSpec => []ErrorsAreNoticed
<1>1. NumberInv => ErrorsAreNoticed
  <2> SUFFICES ASSUME NumberInv, verdict = "checksum_valid" PROVE ErrorsAreNoticed
    BY DEF ErrorsAreNoticed, SlipIsNoticed, SwapIsNoticed
  <2>1. Verdict(copied) = "checksum_valid"
    BY DEF NumberInv, VerdictIsOnThePage
  <2>2. CASE copied = issued
    <3>1. Cardinality(Changed) = 0
      BY <2>2, ChangedIs, OneAndTwo
    <3> QED
      BY <3>1 DEF ErrorsAreNoticed, SlipIsNoticed, SwapIsNoticed
  <2>3. ASSUME NEW i, Misread(issued, copied, i) PROVE ErrorsAreNoticed
    <3>1. Changed = {i}
      BY <2>3, ChangedIs
    <3>2. Cardinality(Changed) = 1
      BY <3>1, OneAndTwo
    <3>3. ~(i = ControlAt \/ (~SharesControls /\ i \in Covered))
      BY <2>1, <2>3, CoveredSlipNoticed
    <3>4. Changed # {ControlAt}
      BY <3>1, <3>3
    <3>5. SharesControls \/ ~(Changed \subseteq Covered)
      BY <3>1, <3>3
    <3> QED
      BY <3>2, <3>4, <3>5 DEF ErrorsAreNoticed, SlipIsNoticed, SwapIsNoticed
  <2>4. ASSUME NEW i, Swapped(issued, copied, i) PROVE ErrorsAreNoticed
    <3>1. i # i + 1 /\ Changed = {i, i + 1}
      BY <2>4, ChangedIs
    <3>2. Cardinality(Changed) = 2
      BY <3>1, OneAndTwo
    <3>3. ~(TellsNeighboursApart /\ i \in Covered /\ i + 1 \in Covered)
      BY <2>1, <2>4, CoveredSwapNoticed
    <3>4. TellsNeighboursApart => ~(Changed \subseteq Covered)
      BY <3>1, <3>3
    <3> QED
      BY <3>2, <3>4 DEF ErrorsAreNoticed, SlipIsNoticed, SwapIsNoticed
  <2> QED
    BY <2>2, <2>3, <2>4 DEF NumberInv, OneErrorAtMost, Wrong
<1> QED
  BY <1>1, NumberInvHolds, PTL

-----------------------------------------------------------------------------
(* Verdicts that are withheld                                              *)

LEMMA LettersOfForeigners ==
  \A c : c \in CodeOf["X"]..CodeOf["Z"] => c \notin CodeOf["K"]..CodeOf["M"]
<1> DEFINE at(l) == CHOOSE i \in 1..26 : Alphabet[i] = l
<1>1. /\ Alphabet[13] = "M" /\ \A i \in 1..26 : Alphabet[i] = "M" => i = 13
      /\ Alphabet[24] = "X" /\ \A i \in 1..26 : Alphabet[i] = "X" => i = 24
  BY DEF Alphabet
<1>2. at("M") = 13 /\ at("X") = 24
  <2>1. 13 \in 1..26 /\ 24 \in 1..26
    OBVIOUS
  <2>2. at("M") \in 1..26 /\ Alphabet[at("M")] = "M"
    BY <1>1, <2>1, Zenon
  <2>3. at("X") \in 1..26 /\ Alphabet[at("X")] = "X"
    BY <1>1, <2>1, Zenon
  <2> QED
    BY <1>1, <2>2, <2>3, Zenon
<1>3. "M" \in Range(Alphabet) /\ "X" \in Range(Alphabet)
  BY DEF Alphabet, Range
<1>4. CodeOf["M"] = 9 + at("M") /\ CodeOf["X"] = 9 + at("X")
  BY <1>3, Zenon DEF CodeOf
<1> DEFINE m == at("M")
           x == at("X")
<1>5. m = 13 /\ x = 24 /\ CodeOf["M"] = 9 + m /\ CodeOf["X"] = 9 + x
  BY <1>2, <1>4, Zenon
<1> HIDE DEF m, x
<1>6. CodeOf["M"] = 22 /\ CodeOf["X"] = 33
  BY <1>5
<1>7. CodeOf["K"] \in Int /\ CodeOf["Z"] \in Int
  <2> DEFINE k == "K"
             z == "Z"
  <2>1. k \in Range(Alphabet) /\ z \in Range(Alphabet)
    BY DEF Alphabet, Range
  <2> HIDE DEF k, z
  <2>2. CodeOf[k] \in Alpha /\ CodeOf[z] \in Alpha
    BY <2>1, LettersAre
  <2> QED
    BY <2>2 DEF Alpha, k, z
<1> QED
  BY <1>6, <1>7

(* Whether a Spanish number gets a verdict depends on its length and on    *)
(* the character it starts with.                                           *)
LEMMA NIFWithheld ==
  ASSUME NEW s, esNIFVerdict(s) = "format_valid", Len(s) = 9
  PROVE  s[1] \notin Digit /\ s[1] \notin CodeOf["X"]..CodeOf["Z"] /\ s[1] \in CodeOf["K"]..CodeOf["M"]
<1> DEFINE X == CodeOf["X"]..CodeOf["Z"]
           K == CodeOf["K"]..CodeOf["M"]
<1>1. s[1] \notin Digit
  <2> SUFFICES ASSUME s[1] \in Digit PROVE FALSE
    OBVIOUS
  <2> DEFINE first == "X"
             second == "K"
  <2>1. first \in Range(Alphabet) /\ second \in Range(Alphabet)
    BY DEF Alphabet, Range
  <2> HIDE DEF first, second
  <2>2. CodeOf[first] \in Alpha /\ CodeOf[second] \in Alpha
    BY <2>1, LettersAre
  <2>3. s[1] \notin X /\ s[1] \notin K
    BY <2>2 DEF Digit, Alpha, first, second
  <2>4. mod11Verdict(LetterAgrees(s, SubSeq(s, 1, 8))) = "format_valid"
    BY <2>3 DEF esNIFVerdict, LetterAgrees
  <2> QED
    BY <2>4 DEF mod11Verdict
<1>2. s[1] \notin X
  <2> SUFFICES ASSUME s[1] \in X PROVE FALSE
    OBVIOUS
  <2> DEFINE body == <<s[1] - CodeOf["X"]>> \o SubSeq(s, 2, 8)
             agrees == allDigits(body) /\ s[9] \in Alpha
                         /\ nifLetters[Remainder(body, 23) + 1] = s[9]
  <2>1. s[1] \notin K
    BY LettersOfForeigners
  <2>2. mod11Verdict(agrees) = "format_valid"
    BY <1>1, <2>1 DEF esNIFVerdict
  <2> QED
    BY <2>2 DEF mod11Verdict
<1>3. s[1] \in K
  <2> SUFFICES ASSUME s[1] \notin K PROVE FALSE
    OBVIOUS
  <2>1. mod11Verdict(esCIFValid(s)) = "format_valid"
    BY <1>1, <1>2 DEF esNIFVerdict
  <2> QED
    BY <2>1 DEF mod11Verdict
<1> QED
  BY <1>1, <1>2, <1>3

LEMMA NIFStaysWithheld ==
  ASSUME NEW s, NEW t, esNIFVerdict(s) = "format_valid", Len(t) = Len(s), t[1] = s[1]
  PROVE  esNIFVerdict(t) # "checksum_valid"
<1> SUFFICES ASSUME esNIFVerdict(t) = "checksum_valid" PROVE FALSE
  OBVIOUS
<1>1. Len(s) = 9 /\ Len(t) = 9
  BY NIFIs
<1>2. /\ t[1] \notin Digit /\ t[1] \notin CodeOf["X"]..CodeOf["Z"]
      /\ t[1] \in CodeOf["K"]..CodeOf["M"]
  BY <1>1, NIFWithheld
<1> QED
  BY <1>1, <1>2 DEF esNIFVerdict

(* The ways a number without its prefix gets no verdict.                   *)
LEMMA CountryWithheld ==
  ASSUME NEW cc, NEW s, CountryVerdict(cc, s) = "format_valid"
  PROVE  \/ cc = "ES" /\ esNIFVerdict(s) = "format_valid"
         \/ cc \notin Algorithms \cup {"ES"}
         \/ cc \in Algorithms /\ ~CheckedLength(cc, s)
         \/ cc = "NL" /\ nlVATIndeterminate(DutchBody(s))
<1>1. CASE cc = "ES"
  <2>1. "ES" \notin Algorithms
    BY DEF Algorithms
  <2>2. CountryVerdict(cc, s) = esNIFVerdict(s)
    BY <1>1, <2>1 DEF CountryVerdict
  <2> QED
    BY <1>1, <2>2
<1>2. CASE /\ cc # "ES" /\ cc \in Algorithms /\ CheckedLength(cc, s)
           /\ ~(cc = "NL" /\ nlVATIndeterminate(DutchBody(s)))
  <2>1. CountryVerdict(cc, s) = mod11Verdict(CountryAlgorithm(cc, s))
    BY <1>2 DEF CountryVerdict
  <2> QED
    BY <2>1, VerdictsDiffer
<1> QED
  BY <1>1, <1>2

(* The Dutch check looks at the first eight characters.                    *)
LEMMA NLCheckLooksAt ==
  ASSUME NEW u, NEW v, \A j \in 1..8 : u[j] = v[j]
  PROVE  NLCheck(u) = NLCheck(v)
<1> DEFINE w == <<9, 8, 7, 6, 5, 4, 3, 2>>
<1>1. DOMAIN w = 1..8
  OBVIOUS
<1> HIDE DEF w
<1>2. [i \in DOMAIN w |-> w[i] * u[i]] = [i \in DOMAIN w |-> w[i] * v[i]]
  BY <1>1
<1>3. Weighted(w, u) = Weighted(w, v)
  BY <1>2 DEF Weighted
<1> QED
  BY <1>3 DEF NLCheck, w

LEMMA DutchBodyIs ==
  ASSUME NEW s \in Seq(Characters), HasDigits(DutchBody(s), 9)
  PROVE  Len(s) >= 9 /\ \A j \in 1..9 : DutchBody(s)[j] = s[j]
<1>1. CASE Len(s) > 9 /\ s[10] = CodeOf["B"]
  <2>1. DutchBody(s) = SubSeq(s, 1, 9)
    BY <1>1 DEF DutchBody
  <2> QED
    BY <1>1, <2>1
<1>2. CASE ~(Len(s) > 9 /\ s[10] = CodeOf["B"])
  <2>1. DutchBody(s) = s
    BY <1>2 DEF DutchBody
  <2>2. Len(s) = 9
    BY <2>1 DEF HasDigits
  <2> QED
    BY <2>1, <2>2
<1> QED
  BY <1>1, <1>2

(* The control of a Dutch number that none can satisfy stays without a     *)
(* verdict, whatever character is put from the ninth place on.             *)
LEMMA DutchStaysWithheld ==
  ASSUME NEW s, NEW t, NEW k, Misread(s, t, k), k = 8 => s[8] \notin Digit, k >= 8,
         nlVATIndeterminate(DutchBody(s)), nlVATValid(DutchBody(t))
  PROVE  FALSE
<1>1. /\ s \in Seq(Characters) /\ t \in Seq(Characters) /\ Len(t) = Len(s) /\ k \in 1..Len(s)
      /\ \A j \in 1..Len(s) : j # k => t[j] = s[j]
  BY DEF Misread
<1>2. HasDigits(DutchBody(s), 9) /\ NLCheck(DutchBody(s)) = 10
  BY DEF nlVATIndeterminate
<1>3. HasDigits(DutchBody(t), 9) /\ NLCheck(DutchBody(t)) # 10
  BY DEF nlVATValid
<1>4. /\ Len(s) >= 9 /\ \A j \in 1..9 : DutchBody(s)[j] = s[j]
      /\ \A j \in 1..9 : DutchBody(t)[j] = t[j]
  BY <1>1, <1>2, <1>3, DutchBodyIs
<1>5. DutchBody(s)[8] \in Digit
  BY <1>2 DEF HasDigits, allDigits
<1>6. s[8] \in Digit
  BY <1>4, <1>5
<1>7. k # 8
  BY <1>6
<1>8. \A j \in 1..8 : s[j] = t[j]
  BY <1>1, <1>4, <1>7
<1>9. \A j \in 1..8 : DutchBody(s)[j] = DutchBody(t)[j]
  BY <1>4, <1>8
<1> HIDE DEF DutchBody
<1> QED
  BY <1>2, <1>3, <1>9, NLCheckLooksAt

LEMMA IrishControlIsLetter ==
  ASSUME NEW s \in Seq(Characters), ieVATValid(s)
  PROVE  s[8] \notin Digit
<1>1. IEAgrees(IECut(s))
  BY IEValidIs
<1>2. Len(IECut(s)) = 8 /\ IECut(s)[8] \in Range(ieCheckChars)
  BY <1>1 DEF IEAgrees
<1>3. IECut(s)[8] = s[8]
  BY DEF IECut
<1> QED
  BY <1>2, <1>3, IESorts

LEMMA CheckedLengthKept ==
  ASSUME NEW cc \in Algorithms, NEW s, NEW t, Wrong(s, t), CheckedLength(cc, t)
  PROVE  CheckedLength(cc, s)
<1>1. s \in Seq(Characters) /\ t \in Seq(Characters) /\ Len(t) = Len(s)
  BY WrongIs
<1>2. Len(extractDigits(t)) = Len(extractDigits(s))
  BY <1>1, SortsAreKept, AsManyDigits
<1>3. CASE cc \in {"FR", "CZ", "GB", "BG", "CH"}
  BY <1>1, <1>2, <1>3, CheckedLengthsAre
<1>4. CASE cc \in Algorithms \ {"FR", "CZ", "GB", "BG", "CH"}
  BY <1>4, CheckedLengthsAre
<1> QED
  BY <1>3, <1>4

(* No other control earns a number a verdict that has been withheld.       *)
LEMMA CountryStaysWithheld ==
  ASSUME NEW cc, NEW s, NEW t, NEW k, Misread(s, t, k), k # 1,
         \/ k = 8 /\ s[8] \notin Digit
         \/ k \in {9, 10}
         \/ k = Len(s),
         CountryVerdict(cc, s) = "format_valid"
  PROVE  CountryVerdict(cc, t) # "checksum_valid"
<1> SUFFICES ASSUME CountryVerdict(cc, t) = "checksum_valid" PROVE FALSE
  OBVIOUS
<1>1. /\ s \in Seq(Characters) /\ t \in Seq(Characters) /\ Len(t) = Len(s) /\ k \in 1..Len(s)
      /\ \A j \in 1..Len(s) : j # k => t[j] = s[j]
  BY DEF Misread
<1>2. Wrong(s, t)
  BY DEF Wrong
<1>3. t[1] = s[1]
  BY <1>1
<1>4. CASE cc = "ES"
  <2>1. "ES" \notin Algorithms
    BY DEF Algorithms
  <2>2. \A u : CountryVerdict(cc, u) = esNIFVerdict(u)
    BY <1>4, <2>1 DEF CountryVerdict
  <2> QED
    BY <1>1, <1>3, <2>2, NIFStaysWithheld
<1>5. CASE cc # "ES"
  <2>1. cc \in Algorithms /\ CheckedLength(cc, t) /\ CountryAlgorithm(cc, t)
    BY <1>5, CountryValidIs
  <2>2. CheckedLength(cc, s)
    BY <1>2, <2>1, CheckedLengthKept
  <2>3. cc = "NL" /\ nlVATIndeterminate(DutchBody(s))
    BY <1>5, <2>1, <2>2, CountryWithheld
  <2>4. nlVATValid(DutchBody(t))
    BY <2>1, <2>3, AlgorithmsAre
  <2>5. Len(s) >= 9
    BY <1>1, <2>3, DutchBodyIs DEF nlVATIndeterminate
  <2>6. k >= 8 /\ (k = 8 => s[8] \notin Digit)
    BY <1>1, <2>5
  <2> QED
    BY <2>3, <2>4, <2>6, DutchStaysWithheld
<1> QED
  BY <1>4, <1>5

(* What the error has left alone.                                          *)
LEMMA CopiedIs ==
  ASSUME NumberInv
  PROVE  /\ copied \in Seq(Characters) /\ Len(copied) = Len(issued)
         /\ \A j \in 1..Len(issued) : issued[j] \in Digit <=> copied[j] \in Digit
<1>1. issued \in Seq(Characters)
  BY IssuedIs
<1>2. CASE copied = issued
  BY <1>1, <1>2
<1>3. CASE Wrong(issued, copied)
  BY <1>3, WrongIs, SortsAreKept
<1> QED
  BY <1>2, <1>3 DEF NumberInv, OneErrorAtMost

LEMMA PrefixIsLetters ==
  ASSUME NumberInv, scheme.kind = "VAT"
  PROVE  StartsWithLetters(copied) /\ Len(copied) > 3
<1>1. /\ Len(issued) > 3 /\ Len(issued) \in Nat /\ issued[1] \in Alpha /\ issued[2] \in Alpha
  BY IssuedIs DEF StartsWithLetters
<1>2. issued[1] \notin Digit /\ issued[2] \notin Digit
  BY <1>1, LettersAreNoDigits
<1>3. /\ Len(copied) = Len(issued) /\ copied[1] \notin Digit /\ copied[2] \notin Digit
      /\ copied[1] \in Characters /\ copied[2] \in Characters
  BY <1>1, <1>2, CopiedIs
<1> QED
  BY <1>1, <1>3, CharactersAre DEF StartsWithLetters

LEMMA VATStaysWithheld ==
  ASSUME NumberInv, scheme.kind = "VAT", Verdict(copied) = "format_valid",
         NEW r, Misread(copied, r, ControlAt)
  PROVE  Verdict(r) # "checksum_valid"
<1> DEFINE cc == scheme.country
           si == SubSeq(issued, 3, Len(issued))
           s == SubSeq(copied, 3, Len(copied))
           t == SubSeq(r, 3, Len(r))
           k == ControlOf(cc, si)
<1>1. /\ issued \in Seq(Characters) /\ Len(issued) \in Nat /\ Len(issued) > 3
      /\ StartsWithLetters(issued) /\ FirstTwo(issued) = cc
  BY IssuedIs
<1>2. /\ copied \in Seq(Characters) /\ Len(copied) = Len(issued)
      /\ \A j \in 1..Len(issued) : issued[j] \in Digit <=> copied[j] \in Digit
  BY CopiedIs
<1>3. Len(si) = Len(issued) - 2 /\ \A j \in 1..(Len(issued) - 2) : si[j] = issued[j + 2]
  BY <1>1, BehindPrefix
<1>4. /\ s \in Seq(Characters) /\ Len(s) = Len(issued) - 2
      /\ \A j \in 1..(Len(issued) - 2) : s[j] = copied[j + 2]
  BY <1>1, <1>2, BehindPrefix
<1>5. ControlAt = k + 2
  BY ControlBehindPrefix
<1>6. ControlAt > 2 /\ ControlAt - 2 = k /\ k # 1 /\ k \in Nat
  <2> HIDE DEF si
  <2>1. k \in {8, 9, 10} \/ k = Len(si)
    BY DEF ControlOf
  <2>2. k \in Nat /\ k > 1
    BY <1>1, <1>3, <2>1
  <2> HIDE DEF k
  <2> QED
    BY <1>5, <2>2
<1>7. StartsWithLetters(copied) /\ Len(copied) > 3
  BY PrefixIsLetters
<1>8. StartsWithLetters(r) /\ FirstTwo(r) = FirstTwo(copied)
  BY <1>6, <1>7, PrefixStays
<1>9. Misread(s, t, k)
  BY <1>6, <1>7, BehindPrefixWrong
<1> HIDE DEF cc
<1>10. /\ Verdict(copied) = CountryVerdict(FirstTwo(copied), s)
       /\ Verdict(r) = CountryVerdict(FirstTwo(copied), t)
       /\ Verdict(issued) = CountryVerdict(cc, si)
  <2>1. \A u : Verdict(u) = validateVAT(cc, u)
    BY NationalVerdicts DEF Verdict, cc
  <2> QED
    BY <1>1, <1>7, <1>8, <2>1, VATIs
<1> HIDE DEF si, s, t
<1>11. CASE cc = "IE"
  <2>1. k = 8
    BY <1>11, ControlsAre
  <2>2. CountryVerdict("IE", si) = "checksum_valid"
    BY <1>10, <1>11 DEF NumberInv, IssuedIsGenuine
  <2>3. ieVATValid(si)
    BY <2>2, CountryValidIs, AlgorithmsAre
  <2>4. si \in Seq(Characters)
    BY <1>1, BehindPrefix DEF si
  <2>5. si[8] \notin Digit
    BY <2>3, <2>4, IrishControlIsLetter
  <2>6. 8 \in 1..(Len(issued) - 2)
    BY <1>4, <1>9, <2>1 DEF Misread
  <2>7. s[8] \notin Digit
    BY <1>2, <1>3, <1>4, <2>5, <2>6
  <2> HIDE DEF k
  <2> QED
    BY <1>6, <1>9, <1>10, <2>1, <2>7, CountryStaysWithheld
<1>12. CASE cc # "IE"
  <2>1. k \in {9, 10} \/ k = Len(s)
    <3>1. k \in {9, 10} \/ k = Len(si)
      BY <1>12, ControlsAre
    <3> QED
      BY <1>3, <1>4, <3>1
  <2> HIDE DEF k
  <2> QED
    BY <1>6, <1>9, <1>10, <2>1, CountryStaysWithheld
<1> QED
  BY <1>11, <1>12

LEMMA NationalNeverWithheld ==
  ASSUME NumberInv, scheme.kind # "VAT"
  PROVE  Verdict(copied) # "format_valid"
<1> DEFINE cc == scheme.country
<1>1. /\ IsMatched(scheme.kind, cc, issued)
      /\ validateIdentifier(scheme.kind, issued, cc) = "checksum_valid"
  BY DEF NumberInv, IssuedIsGenuine, Verdict
<1>2. Verdict(copied) = validateIdentifier(scheme.kind, copied, cc)
  BY DEF Verdict
<1>3. issued \in Seq(Characters)
  BY <1>1, MatchedIs
<1>4. Len(extractDigits(copied)) = Len(extractDigits(issued))
  BY <1>3, CopiedIs, AsManyDigits
<1> HIDE DEF cc
<1>5. CASE scheme.kind = "UID"
  <2>1. Len(extractDigits(copied)) = 9
    BY <1>1, <1>4, <1>5, UIDValid
  <2> QED
    BY <1>2, <1>5, <2>1, UIDVerdict DEF mod11Verdict
<1>6. CASE scheme.kind = "Adoszam"
  <2>1. ~(Len(extractDigits(copied)) < 8)
    <3>1. ~(Len(extractDigits(issued)) < 8)
      BY <1>1, <1>6, AdoszamVerdict
    <3> QED
      BY <1>4, <3>1
  <2> QED
    BY <1>2, <1>6, <2>1, AdoszamVerdict DEF mod11Verdict
<1>7. CASE scheme.kind = "SIREN"
  BY <1>2, <1>7, SIRENVerdict DEF mod11Verdict
<1>8. CASE scheme.kind \in {"OrgNr", "Imones kodas", "CorporateNumber", "ABN", "ACN"}
  BY <1>2, <1>8, NationalVerdicts, ZenonT(60) DEF mod11Verdict
<1>9. scheme.kind \in {"UID", "Adoszam", "SIREN", "OrgNr", "Imones kodas", "CorporateNumber",
                       "ABN", "ACN"}
  BY <1>1, MatchedIs DEF NationalNumbers
<1> QED
  BY <1>5, <1>6, <1>7, <1>8, <1>9

(* A verdict is withheld only where no other control character would have  *)
(* earned one (validateVAT's and validateIdentifier's format_valid).       *)
THEOREM AbstentionsAreHonest == NumberSpec => []AbstentionIsHonest
<1>1. NumberInv => AbstentionIsHonest
  <2> SUFFICES ASSUME NumberInv, verdict = "format_valid", NEW c \in Like(copied[ControlAt])
               PROVE  Verdict([copied EXCEPT ![ControlAt] = c]) # "checksum_valid"
    BY DEF AbstentionIsHonest
  <2> DEFINE q == ControlAt
             r == [copied EXCEPT ![q] = c]
  <2>1. Verdict(copied) = "format_valid"
    BY DEF NumberInv, VerdictIsOnThePage
  <2>2. copied \in Seq(Characters) /\ DOMAIN copied = 1..Len(copied) /\ Len(copied) \in Nat
    BY CopiedIs
  <2> HIDE DEF q
  <2>3. CASE q \notin DOMAIN copied \/ c = copied[q]
    <3>1. r = copied
      BY <2>2, <2>3
    <3> QED
      BY <2>1, <3>1 DEF q
  <2>4. CASE q \in DOMAIN copied /\ c # copied[q]
    <3>1. c \in Like(copied[q]) /\ copied[q] \in Characters
      BY <2>2, <2>4 DEF q
    <3>2. c \in Characters /\ (copied[q] \in Digit <=> c \in Digit)
      BY <3>1, CharactersAre, LettersAreNoDigits DEF Like
    <3>3. r \in Seq(Characters) /\ Len(r) = Len(copied)
      BY <2>2, <2>4, <3>2
    <3>4. Misread(copied, r, q)
      BY <2>2, <2>4, <3>2, <3>3 DEF Misread
    <3>5. scheme.kind = "VAT"
      BY <2>1, NationalNeverWithheld
    <3>6. Misread(copied, r, ControlAt)
      BY <3>4 DEF q
    <3> HIDE DEF r
    <3>7. Verdict(r) # "checksum_valid"
      BY <2>1, <3>5, <3>6, VATStaysWithheld
    <3> QED
      BY <3>7 DEF q, r
  <2> QED
    BY <2>3, <2>4
<1> QED
  BY <1>1, NumberInvHolds, PTL

-----------------------------------------------------------------------------
(* One number, one verdict                                                 *)

LEMMA DomesticVerdicts ==
  ASSUME NEW s, NEW cc, extractDigits(s) = s
  PROVE  /\ validateIdentifier("NIP", s, cc) = mod11Verdict(plVATValid(s))
         /\ validateIdentifier("NIPC", s, cc) = mod11Verdict(ptVATValid(s))
         /\ validateIdentifier("AFM", s, cc) = validateVAT("EL", s)
         /\ validateIdentifier("EIK", s, cc) = validateVAT("BG", s)
         /\ validateIdentifier("OIB", s, cc) = validateVAT("HR", s)
         /\ validateIdentifier("CVR", s, cc) = mod11Verdict(dkVATValid(s))
         /\ validateIdentifier("Y-tunnus", s, cc) = mod11Verdict(fiVATValid(s))
         /\ validateIdentifier("CUI", s, cc) = mod11Verdict(roCUIValid(s))
         /\ validateIdentifier("PartitaIVA", s, cc) = mod11Verdict(luhnValid(s))
         /\ validateIdentifier("ICO", s, cc) = mod11Verdict(czICOValid(s))
         /\ validateIdentifier("USt-IdNr", s, cc) = validateVAT("DE", LastOf(s, 9))
BY DEF validateIdentifier

LEMMA CIFVerdict ==
  ASSUME NEW s, NEW cc, Len(s) = 9
  PROVE  validateIdentifier("CIF", s, cc) = mod11Verdict(esCIFValid(s))
<1>1. LastOf(s, 9) = s /\ ~(Len(s) < 9)
  BY DEF LastOf
<1> QED
  BY <1>1 DEF validateIdentifier

LEMMA CleanedAre ==
  ASSUME NEW s
  PROVE  /\ cleanIdentifierValue("NIP", s) = LastOf(extractDigits(s), 10)
         /\ cleanIdentifierValue("NIPC", s) = LastOf(extractDigits(s), 9)
         /\ cleanIdentifierValue("EIK", s) = LastOf(extractDigits(s), 9)
         /\ cleanIdentifierValue("OIB", s) = LastOf(extractDigits(s), 11)
         /\ cleanIdentifierValue("PartitaIVA", s) = LastOf(extractDigits(s), 11)
         /\ cleanIdentifierValue("CIF", s) = LastOf(s, 9)
BY DEF cleanIdentifierValue, CleanLength

(* The country a label of a VAT number's digits proves.                    *)
LEMMA LabelsProve ==
  /\ vatPrefixForCountry(singleCountryIdentifierKind("NIP")) = "PL"
  /\ vatPrefixForCountry(singleCountryIdentifierKind("NIPC")) = "PT"
  /\ vatPrefixForCountry(singleCountryIdentifierKind("EIK")) = "BG"
  /\ vatPrefixForCountry(singleCountryIdentifierKind("OIB")) = "HR"
  /\ vatPrefixForCountry(singleCountryIdentifierKind("PartitaIVA")) = "IT"
  /\ vatPrefixForCountry(singleCountryIdentifierKind("CIF")) = "ES"
<1>1. {"PL", "PT", "BG", "HR", "IT", "ES"} \subseteq DOMAIN KindsOf
  BY DEF KindsOf
<1>2. /\ "NIP" \in KindsOf["PL"] /\ "NIPC" \in KindsOf["PT"] /\ "EIK" \in KindsOf["BG"]
      /\ "OIB" \in KindsOf["HR"] /\ "PartitaIVA" \in KindsOf["IT"] /\ "CIF" \in KindsOf["ES"]
  BY DEF KindsOf
<1>3. \A cc \in DOMAIN KindsOf :
        /\ "NIP" \in KindsOf[cc] => cc = "PL"
        /\ "NIPC" \in KindsOf[cc] => cc = "PT"
        /\ "EIK" \in KindsOf[cc] => cc = "BG"
        /\ "OIB" \in KindsOf[cc] => cc = "HR"
        /\ "PartitaIVA" \in KindsOf[cc] => cc = "IT"
        /\ "CIF" \in KindsOf[cc] => cc = "ES"
  <2> SUFFICES ASSUME NEW cc \in DOMAIN KindsOf
               PROVE  /\ "NIP" \in KindsOf[cc] => cc = "PL"
                      /\ "NIPC" \in KindsOf[cc] => cc = "PT"
                      /\ "EIK" \in KindsOf[cc] => cc = "BG"
                      /\ "OIB" \in KindsOf[cc] => cc = "HR"
                      /\ "PartitaIVA" \in KindsOf[cc] => cc = "IT"
                      /\ "CIF" \in KindsOf[cc] => cc = "ES"
    OBVIOUS
  <2>1. DOMAIN KindsOf = {"IT", "ES", "FR", "NL", "PL", "PT", "IE", "LU", "SE", "DK", "FI", "NO", "HU", "GR",
                           "BG", "HR", "SI", "CY", "LT", "LV", "EE", "RO", "MT", "JP"}
    BY DEF KindsOf
  <2>2. /\ KindsOf["IT"] = {"PartitaIVA", "REA"}
        /\ KindsOf["ES"] = {"Hoja", "CIF"}
        /\ KindsOf["FR"] = {"SIRET", "SIREN"}
        /\ KindsOf["NL"] = {"KvK"}
        /\ KindsOf["PL"] = {"NIP", "KRS", "REGON"}
        /\ KindsOf["PT"] = {"NIPC"}
        /\ KindsOf["IE"] = {"CRO"}
        /\ KindsOf["LU"] = {"RCS"}
        /\ KindsOf["SE"] = {"Organisationsnummer"}
        /\ KindsOf["DK"] = {"CVR"}
        /\ KindsOf["FI"] = {"Y-tunnus"}
        /\ KindsOf["NO"] = {"OrgNr"}
        /\ KindsOf["HU"] = {"Cegjegyzekszam", "Adoszam"}
        /\ KindsOf["GR"] = {"GEMI"}
        /\ KindsOf["BG"] = {"EIK"}
        /\ KindsOf["HR"] = {"OIB", "MBS"}
        /\ KindsOf["SI"] = {"Maticna"}
        /\ KindsOf["CY"] = {"HE", "VAT Number"}
        /\ KindsOf["LT"] = {"Imones kodas"}
        /\ KindsOf["LV"] = {"Registracijas"}
        /\ KindsOf["EE"] = {"registrikood"}
        /\ KindsOf["RO"] = {"CUI"}
        /\ KindsOf["MT"] = {"Company Registration Number"}
        /\ KindsOf["JP"] = {"CorporateNumber", "InvoiceIssuerRegistration"}
    BY DEF KindsOf
  <2>3. CASE cc = "IT"
    BY <2>2, <2>3
  <2>4. CASE cc = "ES"
    BY <2>2, <2>4
  <2>5. CASE cc = "FR"
    BY <2>2, <2>5
  <2>6. CASE cc = "NL"
    BY <2>2, <2>6
  <2>7. CASE cc = "PL"
    BY <2>2, <2>7
  <2>8. CASE cc = "PT"
    BY <2>2, <2>8
  <2>9. CASE cc = "IE"
    BY <2>2, <2>9
  <2>10. CASE cc = "LU"
    BY <2>2, <2>10
  <2>11. CASE cc = "SE"
    BY <2>2, <2>11
  <2>12. CASE cc = "DK"
    BY <2>2, <2>12
  <2>13. CASE cc = "FI"
    BY <2>2, <2>13
  <2>14. CASE cc = "NO"
    BY <2>2, <2>14
  <2>15. CASE cc = "HU"
    BY <2>2, <2>15
  <2>16. CASE cc = "GR"
    BY <2>2, <2>16
  <2>17. CASE cc = "BG"
    BY <2>2, <2>17
  <2>18. CASE cc = "HR"
    BY <2>2, <2>18
  <2>19. CASE cc = "SI"
    BY <2>2, <2>19
  <2>20. CASE cc = "CY"
    BY <2>2, <2>20
  <2>21. CASE cc = "LT"
    BY <2>2, <2>21
  <2>22. CASE cc = "LV"
    BY <2>2, <2>22
  <2>23. CASE cc = "EE"
    BY <2>2, <2>23
  <2>24. CASE cc = "RO"
    BY <2>2, <2>24
  <2>25. CASE cc = "MT"
    BY <2>2, <2>25
  <2>26. CASE cc = "JP"
    BY <2>2, <2>26
  <2> QED
    BY <2>1, <2>3, <2>4, <2>5, <2>6, <2>7, <2>8, <2>9, <2>10, <2>11, <2>12, <2>13, <2>14,
       <2>15, <2>16, <2>17, <2>18, <2>19, <2>20, <2>21, <2>22, <2>23, <2>24, <2>25, <2>26
<1>4. /\ singleCountryIdentifierKind("NIP") = "PL"
      /\ singleCountryIdentifierKind("NIPC") = "PT"
      /\ singleCountryIdentifierKind("EIK") = "BG"
      /\ singleCountryIdentifierKind("OIB") = "HR"
      /\ singleCountryIdentifierKind("PartitaIVA") = "IT"
      /\ singleCountryIdentifierKind("CIF") = "ES"
  BY <1>1, <1>2, <1>3 DEF singleCountryIdentifierKind
<1> QED
  BY <1>4 DEF vatPrefixForCountry, knownVATPrefixes

LEMMA PlainVerdict ==
  ASSUME NEW cc \in Algorithms \ {"NL"}, NEW s, CheckedLength(cc, s)
  PROVE  CountryVerdict(cc, s) = mod11Verdict(CountryAlgorithm(cc, s))
<1>1. cc # "ES"
  BY DEF Algorithms
<1> QED
  BY <1>1 DEF CountryVerdict

(* The digits behind a prefix are the number the country's own label       *)
(* stands before.                                                          *)
DomesticLength(cc, s) ==
  /\ cc \in {"PL"} => Len(s) = 10
  /\ cc \in {"PT", "BG", "DE"} => Len(s) = 9
  /\ cc \in {"HR", "IT"} => Len(s) = 11
  /\ cc \in {"CZ", "HU"} => Len(s) = 8

DigitCountries == {"PL", "PT", "EL", "BG", "HR", "DK", "FI", "RO", "IT", "DE", "CZ", "HU"}

LEMMA GenuineIsDigits ==
  ASSUME NEW cc \in DigitCountries, NEW s, CountryVerdict(cc, s) = "checksum_valid",
         cc = "IT" => HasDigits(s, 11)
  PROVE  allDigits(s) /\ DomesticLength(cc, s)
<1>1. cc # "ES"
  BY DEF DigitCountries
<1>2. CheckedLength(cc, s) /\ CountryAlgorithm(cc, s)
  BY <1>1, CountryValidIs
<1>3. CASE cc = "PL"
  BY <1>2, <1>3, AlgorithmsAre DEF plVATValid, HasDigits, DomesticLength
<1>4. CASE cc = "PT"
  BY <1>2, <1>4, AlgorithmsAre DEF ptVATValid, HasDigits, DomesticLength
<1>5. CASE cc = "EL"
  BY <1>2, <1>5, AlgorithmsAre DEF grVATValid, HasDigits, DomesticLength
<1>6. CASE cc = "BG"
  BY <1>2, <1>6, AlgorithmsAre DEF bgEIKValid, HasDigits, DomesticLength
<1>7. CASE cc = "HR"
  BY <1>2, <1>7, AlgorithmsAre DEF hrOIBValid, HybridValid, HasDigits, DomesticLength
<1>8. CASE cc = "DK"
  BY <1>2, <1>8, AlgorithmsAre DEF dkVATValid, HasDigits, DomesticLength
<1>9. CASE cc = "FI"
  BY <1>2, <1>9, AlgorithmsAre DEF fiVATValid, HasDigits, DomesticLength
<1>10. CASE cc = "RO"
  BY <1>2, <1>10, AlgorithmsAre DEF roCUIValid, DomesticLength
<1>11. CASE cc = "IT"
  BY <1>11 DEF HasDigits, DomesticLength
<1>12. CASE cc = "DE"
  BY <1>2, <1>12, AlgorithmsAre DEF deVATValid, HybridValid, HasDigits, DomesticLength
<1>13. CASE cc = "CZ"
  BY <1>2, <1>13, AlgorithmsAre DEF czICOValid, HasDigits, DomesticLength
<1>14. CASE cc = "HU"
  BY <1>2, <1>14, AlgorithmsAre DEF huAdoszamValid, HasDigits, DomesticLength
<1> QED
  BY <1>3, <1>4, <1>5, <1>6, <1>7, <1>8, <1>9, <1>10, <1>11, <1>12, <1>13, <1>14
  DEF DigitCountries

(* At home and abroad the number gets the verdict that its digits do.      *)
SameAtHome(cc, kind, s) ==
  /\ validateIdentifier(kind, s, cc) = CountryVerdict(cc, s)
  /\ isVATLikeIdentifierKind(kind) /\ kind \notin {"Adoszam", "AFM"} =>
       validateVAT(vatPrefixForCountry(singleCountryIdentifierKind(kind)),
                   cleanIdentifierValue(kind, s)) = CountryVerdict(cc, s)

LEMMA DigitsAreChecked ==
  ASSUME NEW cc \in DigitCountries, NEW s, DomesticLength(cc, s)
  PROVE  CountryVerdict(cc, s) =
           IF CheckedLength(cc, s) THEN mod11Verdict(CountryAlgorithm(cc, s)) ELSE "format_valid"
<1>1. cc \in Algorithms \ {"NL"} /\ cc # "ES"
  BY DEF DigitCountries, Algorithms
<1>2. CASE CheckedLength(cc, s)
  BY <1>1, <1>2, PlainVerdict
<1>3. CASE ~CheckedLength(cc, s)
  BY <1>1, <1>3 DEF CountryVerdict
<1> QED
  BY <1>2, <1>3

LEMMA DigitsHaveNoPrefix ==
  ASSUME NEW s, Digits(s), NEW country
  PROVE  validateVAT(country, s) = CountryVerdict(country, s)
<1>1. ~StartsWithLetters(s)
  <2>1. Len(s) >= 1 => s[1] \in Digit
    BY DEF Digits
  <2> QED
    BY <2>1, LettersAreNoDigits DEF StartsWithLetters, Digits
<1> QED
  BY <1>1, VATIs

LEMMA LastIsAll == \A s, n : Len(s) = n /\ n \in Nat => LastOf(s, n) = s
BY DEF LastOf

LEMMA DigitsAtHome ==
  ASSUME NEW cc \in DigitCountries, NEW kind \in DomesticKinds[cc],
         NEW s, Digits(s), DomesticLength(cc, s)
  PROVE  SameAtHome(cc, kind, s)
<1>1. extractDigits(s) = s
  BY DigitsAlone
<1>2. \A country : validateVAT(country, s) = CountryVerdict(country, s)
  BY DigitsHaveNoPrefix
<1>3. /\ CheckedLength(cc, s) =>
           CountryVerdict(cc, s) = mod11Verdict(CountryAlgorithm(cc, s))
      /\ cc \notin {"FR", "CZ", "GB", "BG", "CH"} => CheckedLength(cc, s)
      /\ cc = "CZ" => CheckedLength(cc, s)
  <2>1. cc \in Algorithms
    BY DEF DigitCountries, Algorithms
  <2>2. cc = "CZ" => Len(s) = 8
    BY DEF DomesticLength
  <2>3. cc \notin {"FR", "CZ", "GB", "BG", "CH"} => CheckedLength(cc, s)
    BY <2>1, CheckedLengthsAre
  <2>4. cc = "CZ" => CheckedLength(cc, s)
    BY <2>2, CheckedLengthsAre
  <2>5. CheckedLength(cc, s) =>
          CountryVerdict(cc, s) = mod11Verdict(CountryAlgorithm(cc, s))
    BY DigitsAreChecked
  <2> QED
    BY <2>3, <2>4, <2>5
<1>4. CASE cc = "PL"
  <2>1. kind = "NIP"
    BY <1>4 DEF DomesticKinds
  <2>2. CountryVerdict("PL", s) = mod11Verdict(plVATValid(s))
    BY <1>3, <1>4, AlgorithmsAre
  <2>3. cleanIdentifierValue("NIP", s) = s
    BY <1>1, <1>4, CleanedAre, LastIsAll, ZenonT(60) DEF DomesticLength
  <2> QED
    BY <1>1, <1>2, <1>4, <2>1, <2>2, <2>3, DomesticVerdicts, LabelsProve DEF SameAtHome
<1>5. CASE cc = "PT"
  <2>1. kind = "NIPC"
    BY <1>5 DEF DomesticKinds
  <2>2. CountryVerdict("PT", s) = mod11Verdict(ptVATValid(s))
    BY <1>3, <1>5, AlgorithmsAre
  <2>3. cleanIdentifierValue("NIPC", s) = s
    BY <1>1, <1>5, CleanedAre, LastIsAll DEF DomesticLength
  <2> QED
    BY <1>1, <1>2, <1>5, <2>1, <2>2, <2>3, DomesticVerdicts, LabelsProve DEF SameAtHome
<1>6. CASE cc = "EL"
  <2>1. kind = "AFM"
    BY <1>6 DEF DomesticKinds
  <2> QED
    BY <1>1, <1>2, <1>6, <2>1, DomesticVerdicts DEF SameAtHome
<1>7. CASE cc = "BG"
  <2>1. kind = "EIK"
    BY <1>7 DEF DomesticKinds
  <2>2. cleanIdentifierValue("EIK", s) = s
    BY <1>1, <1>7, CleanedAre, LastIsAll, ZenonT(60) DEF DomesticLength
  <2> QED
    BY <1>1, <1>2, <1>7, <2>1, <2>2, DomesticVerdicts, LabelsProve DEF SameAtHome
<1>8. CASE cc = "HR"
  <2>1. kind = "OIB"
    BY <1>8 DEF DomesticKinds
  <2>2. cleanIdentifierValue("OIB", s) = s
    BY <1>1, <1>8, CleanedAre, LastIsAll DEF DomesticLength
  <2> QED
    BY <1>1, <1>2, <1>8, <2>1, <2>2, DomesticVerdicts, LabelsProve DEF SameAtHome
<1>9. CASE cc = "DK"
  <2>1. kind = "CVR"
    BY <1>9 DEF DomesticKinds
  <2>2. CountryVerdict("DK", s) = mod11Verdict(dkVATValid(s))
    BY <1>3, <1>9, AlgorithmsAre
  <2>3. ~isVATLikeIdentifierKind("CVR")
    BY DEF isVATLikeIdentifierKind
  <2> QED
    BY <1>1, <1>9, <2>1, <2>2, <2>3, DomesticVerdicts DEF SameAtHome
<1>10. CASE cc = "FI"
  <2>1. kind = "Y-tunnus"
    BY <1>10 DEF DomesticKinds
  <2>2. CountryVerdict("FI", s) = mod11Verdict(fiVATValid(s))
    BY <1>3, <1>10, AlgorithmsAre
  <2>3. ~isVATLikeIdentifierKind("Y-tunnus")
    BY DEF isVATLikeIdentifierKind
  <2> QED
    BY <1>1, <1>10, <2>1, <2>2, <2>3, DomesticVerdicts DEF SameAtHome
<1>11. CASE cc = "RO"
  <2>1. kind = "CUI"
    BY <1>11 DEF DomesticKinds
  <2>2. CountryVerdict("RO", s) = mod11Verdict(roCUIValid(s))
    BY <1>3, <1>11, AlgorithmsAre
  <2>3. ~isVATLikeIdentifierKind("CUI")
    BY DEF isVATLikeIdentifierKind
  <2> QED
    BY <1>1, <1>11, <2>1, <2>2, <2>3, DomesticVerdicts DEF SameAtHome
<1>12. CASE cc = "IT"
  <2>1. kind = "PartitaIVA"
    BY <1>12 DEF DomesticKinds
  <2>2. CountryVerdict("IT", s) = mod11Verdict(luhnValid(s))
    BY <1>1, <1>3, <1>12, AlgorithmsAre
  <2>3. cleanIdentifierValue("PartitaIVA", s) = s
    BY <1>1, <1>12, CleanedAre, LastIsAll DEF DomesticLength
  <2> QED
    BY <1>1, <1>2, <1>12, <2>1, <2>2, <2>3, DomesticVerdicts, LabelsProve DEF SameAtHome
<1>13. CASE cc = "DE"
  <2>1. kind = "USt-IdNr"
    BY <1>13 DEF DomesticKinds
  <2>2. LastOf(s, 9) = s
    BY <1>13, LastIsAll DEF DomesticLength
  <2>3. ~isVATLikeIdentifierKind("USt-IdNr")
    BY DEF isVATLikeIdentifierKind
  <2> QED
    BY <1>1, <1>2, <1>13, <2>1, <2>2, <2>3, DomesticVerdicts DEF SameAtHome
<1>14. CASE cc = "CZ"
  <2>1. kind = "ICO"
    BY <1>14 DEF DomesticKinds
  <2>2. CountryVerdict("CZ", s) = mod11Verdict(czICOValid(s))
    BY <1>3, <1>14, AlgorithmsAre
  <2>3. ~isVATLikeIdentifierKind("ICO")
    BY DEF isVATLikeIdentifierKind
  <2> QED
    BY <1>1, <1>14, <2>1, <2>2, <2>3, DomesticVerdicts DEF SameAtHome
<1>15. CASE cc = "HU"
  <2>1. kind = "Adoszam"
    BY <1>15 DEF DomesticKinds
  <2>2. CountryVerdict("HU", s) = mod11Verdict(huAdoszamValid(s))
    BY <1>3, <1>15, AlgorithmsAre
  <2>3. Len(s) = 8 /\ SubSeq(s, 1, 8) = s
    BY <1>15 DEF DomesticLength, Digits
  <2>4. validateIdentifier("Adoszam", s, cc) = mod11Verdict(huAdoszamValid(s))
    <3>1. ~(Len(extractDigits(s)) < 8) /\ SubSeq(extractDigits(s), 1, 8) = s
      BY <1>1, <2>3
    <3> QED
      BY <3>1, AdoszamVerdict
  <2> QED
    BY <1>15, <2>1, <2>2, <2>4 DEF SameAtHome
<1> QED
  BY <1>4, <1>5, <1>6, <1>7, <1>8, <1>9, <1>10, <1>11, <1>12, <1>13, <1>14, <1>15
  DEF DigitCountries

LEMMA SecondOfAll ==
  ASSUME NEW S, NEW x \in S, NEW b \in Seq(S), Len(b) = 7, allDigits(<<x>> \o b)
  PROVE  b[1] \in Digit
<1>1. 2 \in DOMAIN (<<x>> \o b) /\ (<<x>> \o b)[2] = b[1]
  OBVIOUS
<1> QED
  BY <1>1, Zenon DEF allDigits

(* A genuine Spanish number that starts with a letter goes on with a digit. *)
LEMMA SpanishNumberIs ==
  ASSUME NEW s \in Seq(Characters), esNIFVerdict(s) = "checksum_valid", s[1] \notin Digit
  PROVE  Len(s) = 9 /\ s[2] \in Digit
<1>1. Len(s) = 9
  BY NIFIs
<1> DEFINE x == s[1] - CodeOf["X"]
           b == SubSeq(s, 2, 8)
<1>2. Len(b) = 7 /\ b[1] = s[2] /\ b \in Seq(Characters)
  BY <1>1, EightOfNine
<1>3. esCIFValid(s) \/ LetterAgrees(s, <<x>> \o b)
  BY NIFIs
<1> HIDE DEF x, b
<1>4. CASE esCIFValid(s)
  <2>1. allDigits(b)
    BY <1>4 DEF esCIFValid, b
  <2>2. 1 \in DOMAIN b
    BY <1>2
  <2> QED
    BY <1>1, <1>2, <2>1, <2>2 DEF allDigits
<1>5. CASE LetterAgrees(s, <<x>> \o b)
  <2> DEFINE S == Characters \cup {x}
  <2>1. x \in S /\ b \in Seq(S) /\ Len(b) = 7
    BY <1>2
  <2>2. allDigits(<<x>> \o b)
    BY <1>5 DEF LetterAgrees
  <2> HIDE DEF S
  <2>3. b[1] \in Digit
    BY <2>1, <2>2, SecondOfAll
  <2> QED
    BY <1>1, <1>2, <2>3
<1> QED
  BY <1>3, <1>4, <1>5

LEMMA SpanishAtHome ==
  ASSUME NEW kind \in DomesticKinds["ES"], NEW s, Len(s) = 9, s[2] \in Digit,
         s[1] \in Alpha \ (CodeOf["K"]..CodeOf["M"] \cup CodeOf["X"]..CodeOf["Z"])
  PROVE  SameAtHome("ES", kind, s)
<1>1. kind = "CIF"
  BY DEF DomesticKinds
<1>2. CountryVerdict("ES", s) = esNIFVerdict(s)
  <2>1. "ES" \notin Algorithms
    BY DEF Algorithms
  <2> QED
    BY <2>1 DEF CountryVerdict
<1>3. esNIFVerdict(s) = mod11Verdict(esCIFValid(s))
  <2>1. s[1] \notin Digit
    BY LettersAreNoDigits
  <2> QED
    BY <2>1 DEF esNIFVerdict
<1>4. cleanIdentifierValue("CIF", s) = s
  BY CleanedAre, LastIsAll
<1>5. validateVAT("ES", s) = CountryVerdict("ES", s)
  <2>1. ~StartsWithLetters(s)
    BY LettersAreNoDigits DEF StartsWithLetters
  <2> QED
    BY <2>1, VATIs
<1> QED
  BY <1>1, <1>2, <1>3, <1>4, <1>5, CIFVerdict, LabelsProve DEF SameAtHome

(* An error behind the prefix, and the number is still its country's.      *)
LEMMA PrefixIsCountry ==
  ASSUME NumberInv, HasDomesticForm
  PROVE  Verdict(copied) = CountryVerdict(scheme.country, SubSeq(copied, 3, Len(copied)))
<1> DEFINE cc == scheme.country
<1>1. /\ scheme.kind = "VAT" /\ Changed \cap {1, 2} = {}
  BY DEF HasDomesticForm
<1>2. /\ Len(issued) > 3 /\ Len(issued) \in Nat /\ DOMAIN issued = 1..Len(issued)
      /\ StartsWithLetters(issued) /\ FirstTwo(issued) = cc
  BY <1>1, IssuedIs
<1>3. 1 \in DOMAIN issued /\ 2 \in DOMAIN issued
  BY <1>2
<1>4. copied[1] = issued[1] /\ copied[2] = issued[2]
  BY <1>1, <1>3 DEF Changed
<1>5. StartsWithLetters(copied) /\ FirstTwo(copied) = cc
  BY <1>1, <1>2, <1>4, PrefixIsLetters DEF FirstTwo
<1>6. Verdict(copied) = validateVAT(cc, copied)
  BY <1>1, NationalVerdicts DEF Verdict
<1> QED
  BY <1>5, <1>6, VATIs

LEMMA DomesticCountries ==
  ASSUME NEW cc \in DOMAIN DomesticKinds
  PROVE  cc \in DigitCountries \/ cc = "ES"
BY DEF DomesticKinds, DigitCountries

LEMMA DomesticFormIsDigits ==
  ASSUME NumberInv, HasDomesticForm, NEW kind \in DomesticKinds[scheme.country]
  PROVE  SameAtHome(scheme.country, kind, SubSeq(copied, 3, Len(copied)))
<1> DEFINE cc == scheme.country
           si == SubSeq(issued, 3, Len(issued))
           s == SubSeq(copied, 3, Len(copied))
<1>1. /\ scheme.kind = "VAT" /\ cc \in DOMAIN DomesticKinds
      /\ cc = "ES" =>
           copied[3] \in Alpha \ (CodeOf["K"]..CodeOf["M"] \cup CodeOf["X"]..CodeOf["Z"])
  BY DEF HasDomesticForm
<1>2. /\ issued \in Seq(Characters) /\ Len(issued) \in Nat /\ Len(issued) > 3
      /\ StartsWithLetters(issued) /\ FirstTwo(issued) = cc
      /\ cc = "IT" => HasDigits(si, 11)
  BY <1>1, IssuedIs
<1>3. /\ copied \in Seq(Characters) /\ Len(copied) = Len(issued)
      /\ \A j \in 1..Len(issued) : issued[j] \in Digit <=> copied[j] \in Digit
  BY CopiedIs
<1>4. CountryVerdict(cc, si) = "checksum_valid"
  <2>1. validateVAT(cc, issued) = "checksum_valid"
    BY <1>1, NationalVerdicts DEF NumberInv, IssuedIsGenuine, Verdict
  <2> QED
    BY <1>2, <2>1, VATIs
<1>5. /\ si \in Seq(Characters) /\ Len(si) = Len(issued) - 2
      /\ \A j \in 1..(Len(issued) - 2) : si[j] = issued[j + 2]
  BY <1>2, BehindPrefix
<1>6. /\ s \in Seq(Characters) /\ Len(s) = Len(issued) - 2
      /\ \A j \in 1..(Len(issued) - 2) : s[j] = copied[j + 2]
  BY <1>2, <1>3, BehindPrefix
<1> HIDE DEF cc, si, s
<1>7. \A j \in 1..Len(s) : si[j] \in Digit <=> s[j] \in Digit
  <2>1. ASSUME NEW j \in 1..(Len(issued) - 2) PROVE si[j] \in Digit <=> s[j] \in Digit
    <3>1. j + 2 \in 1..Len(issued)
      BY <1>2
    <3> QED
      BY <1>3, <1>5, <1>6, <3>1
  <2> QED
    BY <1>6, <2>1
<1>8. CASE cc \in DigitCountries
  <2>1. allDigits(si) /\ DomesticLength(cc, si)
    BY <1>2, <1>4, <1>8, GenuineIsDigits
  <2>2. \A j \in 1..Len(s) : si[j] \in Digit
    BY <1>5, <1>6, <2>1 DEF allDigits
  <2>3. Digits(s)
    BY <1>6, <1>7, <2>2 DEF Digits
  <2>4. DomesticLength(cc, s)
    BY <1>5, <1>6, <2>1 DEF DomesticLength
  <2> QED
    BY <1>8, <2>3, <2>4, DigitsAtHome DEF cc, s
<1>9. CASE cc = "ES"
  <2>1. esNIFVerdict(si) = "checksum_valid"
    <3>1. "ES" \notin Algorithms
      BY DEF Algorithms
    <3> QED
      BY <1>4, <1>9, <3>1 DEF CountryVerdict
  <2>2. Len(s) = 9
    BY <1>5, <1>6, <2>1, NIFIs
  <2>3. s[1] = copied[3]
    <3>1. 1 \in 1..(Len(issued) - 2) /\ 1 + 2 = 3
      BY <1>2
    <3> QED
      BY <1>6, <3>1
  <2>4. s[1] \in Alpha \ (CodeOf["K"]..CodeOf["M"] \cup CodeOf["X"]..CodeOf["Z"])
    BY <1>1, <1>9, <2>3
  <2>5. si[1] \notin Digit
    BY <1>7, <2>2, <2>4, LettersAreNoDigits
  <2>6. si[2] \in Digit
    BY <1>5, <2>1, <2>5, SpanishNumberIs
  <2>7. s[2] \in Digit
    BY <1>7, <2>2, <2>6
  <2>8. kind \in DomesticKinds["ES"]
    BY <1>9 DEF cc
  <2> QED
    BY <1>9, <2>2, <2>4, <2>7, <2>8, SpanishAtHome DEF cc, s
<1> QED
  BY <1>1, <1>8, <1>9, DomesticCountries

(* A number gets one verdict, with its prefix, behind its country's own    *)
(* label, and when the reported form of it is checked again                *)
(* (validateIdentifier, cleanIdentifierValue, vatPrefixForCountry).        *)
THEOREM OneVerdictPerNumber == NumberSpec => []OneNumberOneVerdict
<1>1. NumberInv => OneNumberOneVerdict
  <2> SUFFICES ASSUME NumberInv, verdict # "", HasDomesticForm,
                      NEW kind \in DomesticKinds[scheme.country]
               PROVE  LET digits == SubSeq(copied, 3, Len(copied))
                      IN  /\ validateIdentifier(kind, digits, scheme.country) = verdict
                          /\ isVATLikeIdentifierKind(kind) /\ kind \notin {"Adoszam", "AFM"} =>
                               validateVAT(vatPrefixForCountry(singleCountryIdentifierKind(kind)),
                                           cleanIdentifierValue(kind, digits)) = verdict
    BY DEF OneNumberOneVerdict
  <2>1. verdict = CountryVerdict(scheme.country, SubSeq(copied, 3, Len(copied)))
    BY PrefixIsCountry DEF NumberInv, VerdictIsOnThePage
  <2>2. SameAtHome(scheme.country, kind, SubSeq(copied, 3, Len(copied)))
    BY DomesticFormIsDigits
  <2> QED
    BY <2>1, <2>2 DEF SameAtHome
<1> QED
  BY <1>1, NumberInvHolds, PTL

=============================================================================
