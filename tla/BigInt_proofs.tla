---------------------------- MODULE BigInt_proofs ----------------------------
(***************************************************************************)
(* Theorems about the big integers, for every set of variables, every word *)
(* base and width, all data and every pattern of failing allocations.      *)
(***************************************************************************)
EXTENDS BigInt, SequenceTheorems, WellFoundedInduction, TLAPS

Word == 0 .. MaxWord

----------------------------------------------------------------------------
(***************************************************************************)
(* Loops.  A recursive function of an index is what a loop leaves in its   *)
(* variable; the loop counts up to a bound, so that the two lemmas need no *)
(* induction but the least index that is missing from a set.               *)
(***************************************************************************)

\* A set with the start, and with each index that follows one of the set.
LEMMA CountingUp ==
  ASSUME NEW n \in Nat, NEW P, 0 \in P, \A i \in 1 .. n : i - 1 \in P => i \in P
  PROVE  \A i \in 0 .. n : i \in P
<1> DEFINE Gaps == {i \in 0 .. n : i \notin P}
           less == OpToRel(<, Nat)
<1>1. SUFFICES ASSUME Gaps # {} PROVE FALSE
  OBVIOUS
<1>2. IsWellFoundedOn(less, Nat)  BY NatLessThanWellFounded
<1>3. \A k, m \in Nat : <<k, m>> \notin less => m <= k
  BY DEF OpToRel
<1>4. Gaps \subseteq Nat
  OBVIOUS
<1> HIDE DEF less, Gaps
<1>5. PICK i \in Gaps : \A j \in Gaps : <<j, i>> \notin less
  BY <1>1, <1>2, <1>4, WFMin
<1>6. i \in 1 .. n /\ i \notin P /\ i - 1 \in 0 .. n
  BY <1>5 DEF Gaps
<1>7. i - 1 \in Gaps
  BY <1>6 DEF Gaps
<1>8. <<i - 1, i>> \notin less /\ i - 1 \in Nat /\ i \in Nat
  BY <1>5, <1>6, <1>7
<1>9. i <= i - 1
  BY <1>3, <1>8
<1> QED  BY <1>8, <1>9

\* f is what a loop over 1 .. n with this body leaves in its variable.
Runs(f, n, start, body) == /\ f[0] = start
                           /\ \A i \in 1 .. n : f[i] = body[<<i, f[i - 1]>>]

\* A loop whose body keeps its variable in S can be executed.
LEMMA LoopExists ==
  ASSUME NEW n \in Nat, NEW S, NEW start \in S, NEW body \in [(1 .. n) \X S -> S]
  PROVE  \E f \in [0 .. n -> S] : Runs(f, n, start, body)
<1> DEFINE Loop(k, f) == /\ f \in [0 .. k -> S]
                         /\ f[0] = start
                         /\ \A i \in 1 .. k : f[i] = body[<<i, f[i - 1]>>]
           P == {k \in 0 .. n : \E f : Loop(k, f)}
<1>1. 0 \in P
  <2> DEFINE g == [i \in 0 .. 0 |-> start]
  <2>1. g \in [0 .. 0 -> S] /\ g[0] = start
    OBVIOUS
  <2> HIDE DEF g
  <2>2. Loop(0, g)
    BY <2>1
  <2>3. 0 \in 0 .. n
    OBVIOUS
  <2> HIDE DEF Loop
  <2> QED  BY <2>2, <2>3
<1>2. \A k \in 1 .. n : k - 1 \in P => k \in P
  <2> SUFFICES ASSUME NEW k \in 1 .. n, k - 1 \in P PROVE k \in P
    OBVIOUS
  <2>1. PICK f : Loop(k - 1, f)
    OBVIOUS
  <2> DEFINE g == [i \in 0 .. k |-> IF i = k THEN body[<<k, f[k - 1]>>] ELSE f[i]]
  <2>2. f[k - 1] \in S
    BY <2>1
  <2>3. body[<<k, f[k - 1]>>] \in S
    BY <2>2
  <2>4. g \in [0 .. k -> S]
    BY <2>1, <2>3
  <2>5. g[0] = start
    BY <2>1
  <2>6. \A i \in 1 .. k : g[i] = body[<<i, g[i - 1]>>]
    <3> TAKE i \in 1 .. k
    <3>1. CASE i = k
      <4>1. k - 1 \in 0 .. k /\ k - 1 # k /\ k \in 0 .. k
        OBVIOUS
      <4>2. g[k - 1] = f[k - 1] /\ g[k] = body[<<k, f[k - 1]>>]
        BY <4>1
      <4> QED  BY <3>1, <4>2
    <3>2. CASE i # k
      BY <2>1, <3>2
    <3> QED  BY <3>1, <3>2
  <2> HIDE DEF g
  <2>7. Loop(k, g)
    BY <2>4, <2>5, <2>6
  <2> QED  BY <2>7
<1> HIDE DEF P
<1>3. n \in P
  BY <1>1, <1>2, CountingUp
<1>4. PICK f : Loop(n, f)
  BY <1>3 DEF P
<1> QED  BY <1>4 DEF Runs

\* Whatever function is such a loop has its values in S.
LEMMA LoopType ==
  ASSUME NEW n \in Nat, NEW S, NEW f, f[0] \in S,
         \A i \in 1 .. n : f[i - 1] \in S => f[i] \in S
  PROVE  \A i \in 0 .. n : f[i] \in S
<1> DEFINE P == {i \in 0 .. n : f[i] \in S}
<1>1. 0 \in P  OBVIOUS
<1>2. \A i \in 1 .. n : i - 1 \in P => i \in P  OBVIOUS
<1> HIDE DEF P
<1>3. \A i \in 0 .. n : i \in P
  BY <1>1, <1>2, CountingUp
<1> QED  BY <1>3 DEF P

----------------------------------------------------------------------------
(***************************************************************************)
(* Powers.                                                                 *)
(***************************************************************************)

\* The loop of Power, for any bound.
LEMMA PowerLoop ==
  ASSUME NEW base \in Nat, NEW k \in Nat
  PROVE  \E f \in [0 .. k -> Nat] : /\ f[0] = 1
                                    /\ \A i \in 1 .. k : f[i] = base * f[i - 1]
                                    /\ Power(base, k) = f[k]
<1> DEFINE Is(f) == f = [i \in 0 .. k |-> IF i = 0 THEN 1 ELSE base * f[i - 1]]
           body == [p \in (1 .. k) \X Nat |-> base * p[2]]
           power == CHOOSE f : Is(f)
<1>1. body \in [(1 .. k) \X Nat -> Nat]
      /\ \A i \in 1 .. k, x \in Nat : body[<<i, x>>] = base * x
  OBVIOUS
<1> HIDE DEF body
<1>2. PICK g \in [0 .. k -> Nat] : Runs(g, k, 1, body)
  <2>1. 1 \in Nat  OBVIOUS
  <2> HIDE DEF Is
  <2> QED  BY <1>1, <2>1, LoopExists
<1>3. Is(g)
  <2>1. \A i \in 1 .. k : g[i - 1] \in Nat
    OBVIOUS
  <2>2. \A i \in 1 .. k : g[i] = base * g[i - 1]
    BY <1>1, <1>2, <2>1 DEF Runs
  <2> QED  BY <1>2, <2>2 DEF Runs
<1>4. Is(power)
  <2> HIDE DEF Is
  <2> QED  BY <1>3
<1>5. Power(base, k) = power[k]
  BY DEF Power
<1> HIDE DEF power
<1>6. power[0] = 1 /\ \A i \in 1 .. k : power[i] = base * power[i - 1]
  BY <1>4
<1>7. \A i \in 0 .. k : power[i] \in Nat
  <2>1. \A i \in 1 .. k : power[i - 1] \in Nat => power[i] \in Nat
    BY <1>6
  <2>2. power[0] \in Nat  BY <1>6
  <2> HIDE DEF Is
  <2> QED  BY <2>1, <2>2, LoopType
<1>8. power \in [0 .. k -> Nat]
  BY <1>4, <1>7
<1> QED  BY <1>5, <1>6, <1>8

\* Each power is the base times the one before, and all are positive.
LEMMA PowerStep ==
  ASSUME NEW base \in Nat, NEW k \in Nat
  PROVE  /\ Power(base, k) \in Nat
         /\ Power(base, 0) = 1
         /\ Power(base, k + 1) = base * Power(base, k)
<1> DEFINE Loop(f, n) == /\ f \in [0 .. n -> Nat]
                         /\ f[0] = 1
                         /\ \A i \in 1 .. n : f[i] = base * f[i - 1]
                         /\ Power(base, n) = f[n]
<1>0. \A n \in Nat : \E f : Loop(f, n)
  <2> SUFFICES ASSUME NEW n \in Nat PROVE \E f : Loop(f, n)
    OBVIOUS
  <2>1. PICK f \in [0 .. n -> Nat] : /\ f[0] = 1
                                     /\ \A i \in 1 .. n : f[i] = base * f[i - 1]
                                     /\ Power(base, n) = f[n]
    <3> HIDE DEF Loop
    <3> QED  BY PowerLoop
  <2>2. Loop(f, n)
    BY <2>1 DEF Loop
  <2> HIDE DEF Loop
  <2> QED  BY <2>2
<1>1. PICK f : Loop(f, k)
  BY <1>0
<1>2. PICK g : Loop(g, k + 1)
  <2>1. k + 1 \in Nat  OBVIOUS
  <2> HIDE DEF Loop
  <2> QED  BY <1>0, <2>1
<1>3. PICK h : Loop(h, 0)
  BY <1>0
<1>4. \A i \in 0 .. k : g[i] = f[i]
  <2> DEFINE P == {i \in 0 .. k : g[i] = f[i]}
  <2>1. 0 \in P
    BY <1>1, <1>2
  <2>2. \A i \in 1 .. k : i - 1 \in P => i \in P
    <3> SUFFICES ASSUME NEW i \in 1 .. k, i - 1 \in P PROVE i \in P
      OBVIOUS
    <3>1. f[i] = base * f[i - 1]
      BY <1>1
    <3>2. g[i] = base * g[i - 1]
      BY <1>2
    <3> QED  BY <3>1, <3>2
  <2> HIDE DEF P
  <2>3. \A i \in 0 .. k : i \in P
    BY <2>1, <2>2, CountingUp
  <2> QED  BY <2>3 DEF P
<1>5. g[k + 1] = base * g[k]
  <2>1. k + 1 \in 1 .. k + 1 /\ (k + 1) - 1 = k
    OBVIOUS
  <2> QED  BY <1>2, <2>1
<1>6. Power(base, k + 1) = base * f[k]
  BY <1>2, <1>4, <1>5
<1>7. Power(base, k) = f[k] /\ f[k] \in Nat /\ Power(base, 0) = 1
  BY <1>1, <1>3
<1> QED  BY <1>6, <1>7

\* Powers of a base grow.
LEMMA PowerGrows ==
  ASSUME NEW base \in Nat, base > 1, NEW n \in Nat
  PROVE  \A k \in 0 .. n : /\ Power(base, k) \in Nat \ {0}
                           /\ Power(base, k) <= Power(base, n)
                           /\ k > 0 => Power(base, k) > 1
<1> DEFINE P == {k \in 0 .. n : Power(base, k) \in Nat \ {0} /\ (k > 0 => Power(base, k) > 1)}
<1>1. 0 \in P
  BY PowerStep
<1>2. \A k \in 1 .. n : k - 1 \in P => k \in P
  <2> SUFFICES ASSUME NEW k \in 1 .. n, k - 1 \in P PROVE k \in P
    OBVIOUS
  <2> DEFINE x == Power(base, k - 1)
             y == Power(base, k)
  <2>1. k - 1 \in Nat /\ (k - 1) + 1 = k
    OBVIOUS
  <2>2. y = base * x
    BY <2>1, PowerStep
  <2>3. x \in Nat \ {0}
    OBVIOUS
  <2> HIDE DEF x, y
  <2>4. base * x > 1
    BY <2>3
  <2>5. y \in Nat \ {0} /\ y > 1
    BY <2>2, <2>3, <2>4
  <2> QED  BY <2>5 DEF y
<1> HIDE DEF P
<1>3. \A k \in 0 .. n : k \in P
  BY <1>1, <1>2, CountingUp
<1>4. \A k \in 0 .. n : Power(base, k) \in Nat \ {0} /\ (k > 0 => Power(base, k) > 1)
  BY <1>3 DEF P
<1> DEFINE Q == {j \in 0 .. n : Power(base, n - j) <= Power(base, n)}
<1>5. 0 \in Q
  BY <1>4
<1>6. \A j \in 1 .. n : j - 1 \in Q => j \in Q
  <2> SUFFICES ASSUME NEW j \in 1 .. n, j - 1 \in Q PROVE j \in Q
    OBVIOUS
  <2> DEFINE x == Power(base, n - j)
             y == Power(base, n - (j - 1))
             z == Power(base, n)
  <2>1. n - j \in 0 .. n /\ n - (j - 1) = (n - j) + 1 /\ n - (j - 1) \in 0 .. n
    OBVIOUS
  <2>2. y = base * x
    BY <2>1, PowerStep
  <2>3. x \in Nat /\ y \in Nat /\ z \in Nat
    BY <1>4, <2>1
  <2>4. y <= z
    OBVIOUS
  <2> HIDE DEF x, y, z
  <2>5. x <= base * x
    BY <2>3
  <2>6. x <= z
    BY <2>2, <2>3, <2>4, <2>5
  <2> QED  BY <2>6 DEF x, z
<1> HIDE DEF Q
<1>7. \A j \in 0 .. n : j \in Q
  BY <1>5, <1>6, CountingUp
<1>8. \A k \in 0 .. n : Power(base, k) <= Power(base, n)
  <2> TAKE k \in 0 .. n
  <2>1. n - k \in 0 .. n /\ n - (n - k) = k
    OBVIOUS
  <2>2. n - k \in Q
    BY <1>7, <2>1
  <2> QED  BY <2>1, <2>2 DEF Q
<1> QED  BY <1>4, <1>8

\* There are at least two words.
LEMMA WordBaseType ==
  /\ WordBase \in Nat /\ WordBase > 1 /\ MaxWord \in Nat \ {0} /\ WordBase = MaxWord + 1
<1>1. WordBase \in Nat /\ WordBase > 1
  BY MpAssumption, PowerGrows DEF WordBase
<1> QED  BY <1>1 DEF MaxWord

----------------------------------------------------------------------------
(***************************************************************************)
(* Words.                                                                  *)
(***************************************************************************)

\* Beyond the top, a number has words of zero.
LEMMA WordAtType ==
  ASSUME NEW s \in Seq(Word), NEW i \in Nat \ {0} PROVE WordAt(s, i) \in Word
<1>1. 0 \in Word
  BY WordBaseType DEF Word
<1>2. i <= Len(s) => i \in 1 .. Len(s)
  OBVIOUS
<1>3. i <= Len(s) => s[i] \in Word
  BY <1>2
<1> QED  BY <1>1, <1>3 DEF WordAt

\* The longer of two lengths is a length, and at least each.
LEMMA LongerType ==
  ASSUME NEW m \in Nat, NEW n \in Nat
  PROVE  Longer(m, n) \in Nat /\ Longer(m, n) >= m /\ Longer(m, n) >= n
  BY DEF Longer

\* The length tells whether there are words.
LEMMA LengthOfWords ==
  ASSUME NEW S, NEW s \in Seq(S)
  PROVE  Len(s) \in Nat /\ (Len(s) > 0) = (s # <<>>)
  OBVIOUS

\* Words that a function gives are a sequence.
LEMMA WordsAreSeq ==
  ASSUME NEW n \in Nat, NEW f \in [1 .. n -> Word]
  PROVE  f \in Seq(Word) /\ Len(f) = n
<1> HIDE DEF Word
<1>1. f \in Seq(Word)
  BY SeqDef
<1>2. DOMAIN f = 1 .. n /\ DOMAIN f = 1 .. Len(f) /\ Len(f) \in Nat
  BY <1>1
<1> QED  BY <1>1, <1>2

\* What is stored of a sum is reduced to a word.
LEMMA RemainderIsWord ==
  ASSUME NEW x \in Int PROVE x % WordBase \in Word
<1> DEFINE B == WordBase
<1>1. B \in Nat /\ B > 0 /\ MaxWord = B - 1
  BY WordBaseType
<1> HIDE DEF B
<1>2. x % B \in 0 .. B - 1
  BY <1>1
<1> QED  BY <1>1, <1>2 DEF Word, B

\* The loop of SummedWords: each carry is zero or one.
LEMMA CarriesAre ==
  ASSUME NEW a \in Seq(Word), NEW b \in Seq(Word)
  PROVE  LET n == Longer(Len(a), Len(b))
             carry == Carries(a, b)
         IN  /\ n \in Nat
             /\ \A i \in 0 .. n : carry[i] \in {0, 1}
             /\ carry[0] = 0
             /\ \A i \in 1 .. n :
                   carry[i] = CarryOf(WordAt(a, i), WordAt(b, i), carry[i - 1])
<1> DEFINE n == Longer(Len(a), Len(b))
           Next1(i, c) == CarryOf(WordAt(a, i), WordAt(b, i), c)
           Is(f) == f = [i \in 0 .. n |-> IF i = 0 THEN 0 ELSE Next1(i, f[i - 1])]
           S == {0, 1}
           body == [p \in (1 .. n) \X S |-> Next1(p[1], p[2])]
           carry == CHOOSE f : Is(f)
<1>1. n \in Nat
  <2>1. Len(a) \in Nat /\ Len(b) \in Nat  OBVIOUS
  <2> QED  BY <2>1, LongerType
<1>2. \A i, c : Next1(i, c) \in S
  BY DEF CarryOf
<1> HIDE DEF n, Next1
<1>3. body \in [(1 .. n) \X S -> S]
      /\ \A i \in 1 .. n, x \in S : body[<<i, x>>] = Next1(i, x)
  BY <1>2
<1> HIDE DEF body
<1>4. PICK g \in [0 .. n -> S] : Runs(g, n, 0, body)
  <2>1. 0 \in S  OBVIOUS
  <2> HIDE DEF Is, S
  <2> QED  BY <1>1, <1>3, <2>1, LoopExists
<1>5. Is(g)
  <2>1. \A i \in 1 .. n : g[i - 1] \in S
    BY <1>1
  <2>2. \A i \in 1 .. n : g[i] = Next1(i, g[i - 1])
    BY <1>3, <1>4, <2>1 DEF Runs
  <2> QED  BY <1>1, <1>4, <2>2 DEF Runs
<1>6. Is(carry)
  <2> HIDE DEF Is
  <2> QED  BY <1>5
<1>7. Carries(a, b) = carry
  BY DEF Carries, Next1, n
<1> HIDE DEF carry
<1>8. carry[0] = 0 /\ \A i \in 1 .. n : carry[i] = Next1(i, carry[i - 1])
  BY <1>1, <1>6
<1>9. \A i \in 0 .. n : carry[i] \in S
  <2>1. \A i \in 1 .. n : carry[i] \in S
    BY <1>2, <1>8
  <2> QED  BY <1>1, <1>8, <2>1
<1> QED  BY <1>1, <1>7, <1>8, <1>9 DEF n, Next1

\* The borrows of a subtraction are bits as well.
LEMMA BorrowsAre ==
  ASSUME NEW a \in Seq(Word), NEW b \in Seq(Word)
  PROVE  LET n == Longer(Len(a), Len(b))
             borrow == Borrows(a, b)
         IN  /\ n \in Nat
             /\ \A i \in 0 .. n : borrow[i] \in {0, 1}
             /\ borrow[0] = 0
             /\ \A i \in 1 .. n :
                   borrow[i] = BorrowOf(WordAt(a, i), WordAt(b, i), borrow[i - 1])
<1> DEFINE n == Longer(Len(a), Len(b))
           Next1(i, c) == BorrowOf(WordAt(a, i), WordAt(b, i), c)
           Is(f) == f = [i \in 0 .. n |-> IF i = 0 THEN 0 ELSE Next1(i, f[i - 1])]
           S == {0, 1}
           body == [p \in (1 .. n) \X S |-> Next1(p[1], p[2])]
           borrow == CHOOSE f : Is(f)
<1>1. n \in Nat
  <2>1. Len(a) \in Nat /\ Len(b) \in Nat  OBVIOUS
  <2> QED  BY <2>1, LongerType
<1>2. \A i, c : Next1(i, c) \in S
  BY DEF BorrowOf
<1> HIDE DEF n, Next1
<1>3. body \in [(1 .. n) \X S -> S]
      /\ \A i \in 1 .. n, x \in S : body[<<i, x>>] = Next1(i, x)
  BY <1>2
<1> HIDE DEF body
<1>4. PICK g \in [0 .. n -> S] : Runs(g, n, 0, body)
  <2>1. 0 \in S  OBVIOUS
  <2> HIDE DEF Is, S
  <2> QED  BY <1>1, <1>3, <2>1, LoopExists
<1>5. Is(g)
  <2>1. \A i \in 1 .. n : g[i - 1] \in S
    BY <1>1
  <2>2. \A i \in 1 .. n : g[i] = Next1(i, g[i - 1])
    BY <1>3, <1>4, <2>1 DEF Runs
  <2> QED  BY <1>1, <1>4, <2>2 DEF Runs
<1>6. Is(borrow)
  <2> HIDE DEF Is
  <2> QED  BY <1>5
<1>7. Borrows(a, b) = borrow
  BY DEF Borrows, Next1, n
<1> HIDE DEF borrow
<1>8. borrow[0] = 0 /\ \A i \in 1 .. n : borrow[i] = Next1(i, borrow[i - 1])
  BY <1>1, <1>6
<1>9. \A i \in 0 .. n : borrow[i] \in S
  <2>1. \A i \in 1 .. n : borrow[i] \in S
    BY <1>2, <1>8
  <2> QED  BY <1>1, <1>8, <2>1
<1> QED  BY <1>1, <1>7, <1>8, <1>9 DEF n, Next1

\* A sum has as many words as the longer operand, and a carry.
LEMMA SumType ==
  ASSUME NEW a \in Seq(Word), NEW b \in Seq(Word)
  PROVE  LET s == SummedWords(a, b)
         IN  /\ s.words \in Seq(Word) /\ Len(s.words) = Longer(Len(a), Len(b))
             /\ s.carry = Carries(a, b)[Longer(Len(a), Len(b))]
             /\ s.carry \in {0, 1}
             /\ \A i \in 1 .. Longer(Len(a), Len(b)) :
                   s.words[i] = SumWord(WordAt(a, i), WordAt(b, i), Carries(a, b)[i - 1])
<1> DEFINE n == Longer(Len(a), Len(b))
           carry == Carries(a, b)
           w == [i \in 1 .. n |-> SumWord(WordAt(a, i), WordAt(b, i), carry[i - 1])]
<1>1. n \in Nat /\ \A i \in 0 .. n : carry[i] \in {0, 1}
  BY CarriesAre
<1> HIDE DEF n, carry
<1>2. \A i \in 1 .. n : SumWord(WordAt(a, i), WordAt(b, i), carry[i - 1]) \in Word
  <2> TAKE i \in 1 .. n
  <2>1. WordAt(a, i) \in Int /\ WordAt(b, i) \in Int
    BY <1>1, WordAtType, WordBaseType DEF Word
  <2>2. carry[i - 1] \in {0, 1}
    BY <1>1
  <2> QED  BY <2>1, <2>2, RemainderIsWord DEF SumWord
<1>3. w \in [1 .. n -> Word]
  BY <1>2
<1> HIDE DEF w
<1>4. w \in Seq(Word) /\ Len(w) = n
  BY <1>1, <1>3, WordsAreSeq
<1>5. SummedWords(a, b) = [words |-> w, carry |-> carry[n]]
  BY DEF SummedWords, w, n, carry
<1>6. n \in 0 .. n
  BY <1>1
<1>7. \A i \in 1 .. n : w[i] = SumWord(WordAt(a, i), WordAt(b, i), carry[i - 1])
  BY DEF w
<1> QED  BY <1>1, <1>4, <1>5, <1>6, <1>7 DEF n, carry

\* A difference has as many words as the longer operand, and a borrow.
LEMMA DifferenceType ==
  ASSUME NEW a \in Seq(Word), NEW b \in Seq(Word)
  PROVE  LET d == SubtractedWords(a, b)
         IN  /\ d.words \in Seq(Word) /\ Len(d.words) = Longer(Len(a), Len(b))
             /\ d.borrow = Borrows(a, b)[Longer(Len(a), Len(b))]
             /\ d.borrow \in {0, 1}
             /\ \A i \in 1 .. Longer(Len(a), Len(b)) :
                   d.words[i] = DifferenceWord(WordAt(a, i), WordAt(b, i), Borrows(a, b)[i - 1])
<1> DEFINE n == Longer(Len(a), Len(b))
           borrow == Borrows(a, b)
           w == [i \in 1 .. n |-> DifferenceWord(WordAt(a, i), WordAt(b, i), borrow[i - 1])]
<1>1. n \in Nat /\ \A i \in 0 .. n : borrow[i] \in {0, 1}
  BY BorrowsAre
<1> HIDE DEF n, borrow
<1>2. \A i \in 1 .. n : DifferenceWord(WordAt(a, i), WordAt(b, i), borrow[i - 1]) \in Word
  <2> TAKE i \in 1 .. n
  <2>1. WordAt(a, i) \in Int /\ WordAt(b, i) \in Int
    BY <1>1, WordAtType, WordBaseType DEF Word
  <2>2. borrow[i - 1] \in {0, 1}
    BY <1>1
  <2> QED  BY <2>1, <2>2, RemainderIsWord DEF DifferenceWord
<1>3. w \in [1 .. n -> Word]
  BY <1>2
<1> HIDE DEF w
<1>4. w \in Seq(Word) /\ Len(w) = n
  BY <1>1, <1>3, WordsAreSeq
<1>5. SubtractedWords(a, b) = [words |-> w, borrow |-> borrow[n]]
  BY DEF SubtractedWords, w, n, borrow
<1>6. n \in 0 .. n
  BY <1>1
<1>7. \A i \in 1 .. n : w[i] = DifferenceWord(WordAt(a, i), WordAt(b, i), borrow[i - 1])
  BY DEF w
<1> QED  BY <1>1, <1>4, <1>5, <1>6, <1>7 DEF n, borrow

\* A set of positions has a greatest one,
LEMMA GreatestExists ==
  ASSUME NEW n \in Nat, NEW T, T \subseteq 1 .. n, T # {}
  PROVE  \E i \in T : \A j \in T : j <= i
<1> DEFINE Top(k) == \E i \in T : i <= k /\ \A j \in T : j <= k => j <= i
           P == {k \in 0 .. n : (\A j \in T : j > k) \/ Top(k)}
<1>1. 0 \in P
  OBVIOUS
<1>2. \A k \in 1 .. n : k - 1 \in P => k \in P
  <2> SUFFICES ASSUME NEW k \in 1 .. n, k - 1 \in P PROVE k \in P
    OBVIOUS
  <2>1. CASE k \in T
    <3>1. Top(k)
      BY <2>1
    <3> HIDE DEF Top
    <3> QED  BY <3>1
  <2>2. CASE k \notin T
    <3>1. \A j \in T : j \in Int /\ (j <= k => j <= k - 1) /\ (j > k - 1 => j > k)
      BY <2>2
    <3> QED  BY <3>1
  <2> QED  BY <2>1, <2>2
<1> HIDE DEF P
<1>3. \A k \in 0 .. n : k \in P
  BY <1>1, <1>2, CountingUp
<1>4. (\A j \in T : j > n) \/ Top(n)
  <2>1. n \in 0 .. n  OBVIOUS
  <2>2. n \in P  BY <1>3, <2>1
  <2> QED  BY <2>2 DEF P
<1>5. \A j \in T : j <= n /\ ~ (j > n)
  OBVIOUS
<1> QED  BY <1>4, <1>5

\* and a least one.
LEMMA LeastExists ==
  ASSUME NEW T, T \subseteq Nat, T # {}
  PROVE  \E i \in T : \A j \in T : i <= j
<1> DEFINE less == OpToRel(<, Nat)
<1>1. IsWellFoundedOn(less, Nat)  BY NatLessThanWellFounded
<1>2. \A m, k \in Nat : <<m, k>> \notin less => k <= m
  BY DEF OpToRel
<1> HIDE DEF less
<1>3. PICK i \in T : \A j \in T : <<j, i>> \notin less
  BY <1>1, WFMin
<1> QED  BY <1>2, <1>3

\* A prefix of words.
LEMMA PrefixType ==
  ASSUME NEW S, NEW s \in Seq(S), NEW n \in 0 .. Len(s)
  PROVE  /\ SubSeq(s, 1, n) \in Seq(S) /\ Len(SubSeq(s, 1, n)) = n
         /\ \A i \in 1 .. n : SubSeq(s, 1, n)[i] = s[i]
  OBVIOUS

\* Truncating keeps a word at least, and the words that stay.
LEMMA TruncatedType ==
  ASSUME NEW s \in Seq(Word), s # <<>>
  PROVE  /\ Truncated(s) \in Seq(Word) /\ Truncated(s) # <<>>
         /\ Len(Truncated(s)) \in 1 .. Len(s)
         /\ \A i \in 1 .. Len(Truncated(s)) : Truncated(s)[i] = s[i]
         /\ \/ /\ \A i \in 1 .. Len(s) : s[i] = 0
               /\ Truncated(s) = s
            \/ /\ \A i \in 1 .. Len(s) : i > Len(Truncated(s)) => s[i] = 0
               /\ s[Len(Truncated(s))] # 0
<1> DEFINE significant == {i \in 1 .. Len(s) : s[i] # 0}
           top == CHOOSE i \in significant : \A j \in significant : j <= i
<1>1. Len(s) \in Nat \ {0}
  OBVIOUS
<1>2. CASE significant = {}
  <2>1. Truncated(s) = s
    BY <1>2 DEF Truncated
  <2> QED  BY <1>1, <1>2, <2>1
<1>3. CASE significant # {}
  <2>1. \E i \in significant : \A j \in significant : j <= i
    <3>1. significant \subseteq 1 .. Len(s)  OBVIOUS
    <3> HIDE DEF significant
    <3> QED  BY <1>1, <1>3, <3>1, GreatestExists
  <2>2. top \in significant /\ \A j \in significant : j <= top
    <3> HIDE DEF significant
    <3> QED  BY <2>1
  <2>3. Truncated(s) = SubSeq(s, 1, top)
    BY <1>3 DEF Truncated
  <2> HIDE DEF top
  <2>4. top \in 1 .. Len(s) /\ s[top] # 0 /\ \A i \in 1 .. Len(s) : i > top => s[i] = 0
    BY <2>2
  <2>5. top \in 0 .. Len(s)
    BY <2>4
  <2>6. /\ Truncated(s) \in Seq(Word) /\ Len(Truncated(s)) = top
        /\ \A i \in 1 .. top : Truncated(s)[i] = s[i]
    <3> HIDE DEF Word
    <3> QED  BY <2>3, <2>5, PrefixType
  <2>7. Truncated(s) # <<>>
    BY <2>4, <2>6
  <2> QED  BY <2>4, <2>6, <2>7
<1> QED  BY <1>2, <1>3

----------------------------------------------------------------------------
\* The double word of a multiplication holds a word, a product and a carry.
LEMMA DoubleWordType ==
  ASSUME NEW x \in Word, NEW y \in Word, NEW digit \in Word, NEW c \in Word
  PROVE  LET uv == x + y * digit + c
         IN  uv \in Nat /\ uv % WordBase \in Word /\ uv \div WordBase \in Word
             /\ uv = (uv \div WordBase) * WordBase + (uv % WordBase)
<1> DEFINE B == WordBase
           uv == x + y * digit + c
<1>1. B \in Nat /\ B > 1 /\ Word = 0 .. B - 1
  BY WordBaseType DEF Word
<1> HIDE DEF B
<1>2. x \in 0 .. B - 1 /\ y \in 0 .. B - 1 /\ digit \in 0 .. B - 1 /\ c \in 0 .. B - 1
  BY <1>1
<1>3. y * digit \in Nat /\ y * digit <= (B - 1) * (B - 1)
  <2>1. y * digit <= (B - 1) * digit
    BY <1>1, <1>2
  <2>2. (B - 1) * digit <= (B - 1) * (B - 1)
    BY <1>1, <1>2
  <2>3. y * digit \in Nat /\ (B - 1) * digit \in Nat /\ (B - 1) * (B - 1) \in Nat
    BY <1>1, <1>2
  <2> QED  BY <2>1, <2>2, <2>3
<1>4. (B - 1) * (B - 1) = B * B - 2 * B + 1 /\ B * B \in Nat
  BY <1>1
<1>5. uv \in Nat /\ uv < B * B
  <2> DEFINE p == y * digit
             q == (B - 1) * (B - 1)
             s == B * B
  <2>1. p \in Nat /\ p <= q /\ q = s - 2 * B + 1 /\ s \in Nat
    BY <1>3, <1>4
  <2> HIDE DEF p, q, s
  <2>2. x + p + c \in Nat /\ x + p + c < s
    BY <1>1, <1>2, <2>1
  <2> QED  BY <2>2 DEF p, s
<1> HIDE DEF uv
<1>6. uv % B \in 0 .. B - 1 /\ uv = (uv \div B) * B + (uv % B) /\ uv \div B \in Nat
  BY <1>1, <1>5
<1>7. uv \div B < B
  <2> DEFINE d == uv \div B
             r == uv % B
  <2>1. d \in Nat /\ r \in Nat /\ d * B + r < B * B
    BY <1>5, <1>6
  <2> HIDE DEF d, r
  <2>2. ~ (d >= B)
    <3> SUFFICES ASSUME d >= B PROVE FALSE
      OBVIOUS
    <3>1. d * B >= B * B
      BY <1>1, <2>1
    <3>2. d * B \in Nat /\ B * B \in Nat
      BY <1>1, <2>1
    <3> QED  BY <2>1, <3>1, <3>2
  <2> QED  BY <1>1, <2>1, <2>2 DEF d
<1>8. uv \div B \in 0 .. B - 1
  BY <1>1, <1>6, <1>7
<1> QED  BY <1>1, <1>5, <1>6, <1>8 DEF uv, B

\* uv are the double words of one row of a multiplication, whose result is row.
DoubleWords(uv, z, a, digit, i, row) ==
  /\ uv[0] = 0
  /\ \A j \in 0 .. Len(a) : uv[j] \in Nat /\ uv[j] \div WordBase \in Word
  /\ \A j \in 1 .. Len(a) : uv[j] = z[i + j] + a[j] * digit + (uv[j - 1] \div WordBase)
  /\ \A k \in 1 .. Len(z) :
        row[k] = IF k \in i + 1 .. i + Len(a) THEN uv[k - i] % WordBase
                 ELSE IF k = i + Len(a) + 1 THEN uv[Len(a)] \div WordBase
                 ELSE z[k]

\* One row of a multiplication: what is stored are words.
LEMMA RowIs ==
  ASSUME NEW z \in Seq(Word), NEW a \in Seq(Word), NEW digit \in Word, NEW i \in Nat,
         i + Len(a) + 1 <= Len(z)
  PROVE  /\ MulRow(z, a, digit, i) \in Seq(Word)
         /\ Len(MulRow(z, a, digit, i)) = Len(z)
         /\ \E uv : DoubleWords(uv, z, a, digit, i, MulRow(z, a, digit, i))
<1> DEFINE n == Len(a)
           S == {u \in Nat : u \div WordBase \in Word}
           Next1(j, c) == z[i + j] + a[j] * digit + c \div WordBase
           Is(f) == f = [j \in 0 .. n |-> IF j = 0 THEN 0 ELSE Next1(j, f[j - 1])]
           body == [p \in (1 .. n) \X S |-> Next1(p[1], p[2])]
           uv == CHOOSE f : Is(f)
           Entry(k) == IF k \in i + 1 .. i + n THEN uv[k - i] % WordBase
                       ELSE IF k = i + n + 1 THEN uv[n] \div WordBase ELSE z[k]
           row == [k \in 1 .. Len(z) |-> Entry(k)]
<1>1. n \in Nat /\ Len(z) \in Nat
  OBVIOUS
<1>2. \A j \in 1 .. n, c \in S : Next1(j, c) \in S
  <2> TAKE j \in 1 .. n, c \in S
  <2> DEFINE x == z[i + j]
             y == a[j]
             d == c \div WordBase
  <2>1. i + j \in 1 .. Len(z)
    BY <1>1
  <2>2. x \in Word /\ y \in Word /\ d \in Word
    BY <2>1
  <2> HIDE DEF x, y, d
  <2>3. x + y * digit + d \in Nat /\ (x + y * digit + d) \div WordBase \in Word
    BY <2>2, DoubleWordType
  <2> QED  BY <2>3 DEF x, y, d
<1>3. 0 \in S
  <2> DEFINE B == WordBase
  <2>1. B \in Nat /\ B > 1 /\ Word = 0 .. B - 1
    BY WordBaseType DEF Word
  <2> HIDE DEF B
  <2>2. 0 \div B = 0 /\ 0 \in 0 .. B - 1
    BY <2>1
  <2> QED  BY <2>1, <2>2 DEF B
<1> HIDE DEF n, Next1, S
<1>4. body \in [(1 .. n) \X S -> S]
      /\ \A j \in 1 .. n, c \in S : body[<<j, c>>] = Next1(j, c)
  BY <1>2
<1> HIDE DEF body
<1>5. PICK g \in [0 .. n -> S] : Runs(g, n, 0, body)
  <2> HIDE DEF Is
  <2> QED  BY <1>1, <1>3, <1>4, LoopExists
<1>6. Is(g)
  <2>1. \A j \in 1 .. n : g[j - 1] \in S
    BY <1>1
  <2>2. \A j \in 1 .. n : g[j] = Next1(j, g[j - 1])
    BY <1>4, <1>5, <2>1 DEF Runs
  <2> QED  BY <1>1, <1>5, <2>2 DEF Runs
<1>7. Is(uv)
  <2> HIDE DEF Is
  <2> QED  BY <1>6
<1>8. MulRow(z, a, digit, i) = row
  BY DEF MulRow, Next1, n
<1> HIDE DEF uv
<1>9. uv[0] = 0 /\ \A j \in 1 .. n : uv[j] = Next1(j, uv[j - 1])
  BY <1>1, <1>7
<1>10. \A j \in 0 .. n : uv[j] \in S
  <2>1. \A j \in 1 .. n : uv[j - 1] \in S => uv[j] \in S
    BY <1>2, <1>9
  <2>2. uv[0] \in S
    BY <1>3, <1>9
  <2> HIDE DEF Is
  <2> QED  BY <1>1, <2>1, <2>2, LoopType
<1>11. \A j \in 0 .. n : uv[j] \in Nat /\ uv[j] \div WordBase \in Word
  BY <1>10 DEF S
<1>12. \A k \in 1 .. Len(z) : Entry(k) \in Word
  <2> TAKE k \in 1 .. Len(z)
  <2>1. CASE k \in i + 1 .. i + n
    <3>1. k - i \in 0 .. n
      BY <1>1, <2>1
    <3>2. uv[k - i] \in Int
      BY <1>11, <3>1
    <3> QED  BY <2>1, <3>2, RemainderIsWord
  <2>2. CASE k \notin i + 1 .. i + n /\ k = i + n + 1
    <3>1. n \in 0 .. n  BY <1>1
    <3> QED  BY <1>11, <2>2, <3>1
  <2>3. CASE k \notin i + 1 .. i + n /\ k # i + n + 1
    <3>1. z[k] \in Word
      OBVIOUS
    <3> QED  BY <2>3, <3>1
  <2> QED  BY <2>1, <2>2, <2>3
<1>13. row \in [1 .. Len(z) -> Word]
  <2> HIDE DEF Entry
  <2> QED  BY <1>12
<1>14. row \in Seq(Word) /\ Len(row) = Len(z)
  <2> HIDE DEF row
  <2> QED  BY <1>1, <1>13, WordsAreSeq
<1>15. DoubleWords(uv, z, a, digit, i, row)
  <2>1. \A j \in 1 .. n : uv[j] = z[i + j] + a[j] * digit + (uv[j - 1] \div WordBase)
    BY <1>9 DEF Next1
  <2>2. \A k \in 1 .. Len(z) : row[k] = Entry(k)
    OBVIOUS
  <2> HIDE DEF row
  <2> QED  BY <1>9, <1>11, <2>1, <2>2 DEF DoubleWords, n
<1> HIDE DEF row
<1> QED  BY <1>8, <1>14, <1>15

\* The rounds of a multiplication.
LEMMA RoundsAre ==
  ASSUME NEW a \in Seq(Word), NEW b \in Seq(Word)
  PROVE  \E z : /\ z[0] = Zeros(Len(a) + Len(b))
                /\ \A i \in 0 .. Len(b) : z[i] \in Seq(Word) /\ Len(z[i]) = Len(a) + Len(b)
                /\ \A i \in 1 .. Len(b) : z[i] = MulRow(z[i - 1], a, b[i], i - 1)
                /\ MultipliedWords(a, b) = z[Len(b)]
<1> DEFINE n == Len(b)
           m == Len(a) + Len(b)
           S == {s \in Seq(Word) : Len(s) = m}
           Row(i, s) == MulRow(s, a, b[i], i - 1)
           Is(f) == f = [i \in 0 .. n |-> IF i = 0 THEN Zeros(m) ELSE Row(i, f[i - 1])]
           body == [p \in (1 .. n) \X S |-> Row(p[1], p[2])]
           z == CHOOSE f : Is(f)
<1>1. n \in Nat /\ m \in Nat /\ m = Len(a) + n /\ Len(a) \in Nat
  OBVIOUS
<1>2. \A i \in 1 .. n, s \in S : Row(i, s) \in S
  <2> SUFFICES ASSUME NEW i \in 1 .. n, NEW s \in S PROVE Row(i, s) \in S
    OBVIOUS
  <2>1. b[i] \in Word /\ i - 1 \in Nat
    OBVIOUS
  <2>2. (i - 1) + Len(a) + 1 <= m /\ s \in Seq(Word) /\ Len(s) = m
    BY <1>1
  <2> HIDE DEF n, m
  <2>3. MulRow(s, a, b[i], i - 1) \in Seq(Word) /\ Len(MulRow(s, a, b[i], i - 1)) = m
    BY <2>1, <2>2, RowIs
  <2> QED  BY <2>3
<1>3. Zeros(m) \in S
  <2>1. Zeros(m) \in [1 .. m -> Word]
    BY WordBaseType DEF Zeros, Word
  <2> HIDE DEF m
  <2>2. Zeros(m) \in Seq(Word) /\ Len(Zeros(m)) = m
    BY <1>1, <2>1, WordsAreSeq
  <2> QED  BY <2>2
<1> HIDE DEF n, m, S, Row
<1>4. body \in [(1 .. n) \X S -> S]
      /\ \A i \in 1 .. n, s \in S : body[<<i, s>>] = Row(i, s)
  BY <1>2
<1> HIDE DEF body
<1> DEFINE start == Zeros(m)
<1>5. PICK g \in [0 .. n -> S] : Runs(g, n, start, body)
  <2> HIDE DEF Is, start
  <2>1. start \in S  BY <1>3 DEF start
  <2> QED  BY <1>1, <2>1, <1>4, LoopExists
<1>6. Is(g)
  <2>1. \A i \in 1 .. n : g[i - 1] \in S
    BY <1>1
  <2>2. \A i \in 1 .. n : g[i] = Row(i, g[i - 1])
    BY <1>4, <1>5, <2>1 DEF Runs
  <2> QED  BY <1>1, <1>5, <2>2 DEF Runs
<1>7. Is(z)
  <2> HIDE DEF Is
  <2> QED  BY <1>6
<1>8. MultipliedWords(a, b) = z[n]
  BY DEF MultipliedWords, Row, n, m
<1> HIDE DEF z
<1>9. z[0] = Zeros(m) /\ \A i \in 1 .. n : z[i] = Row(i, z[i - 1])
  BY <1>1, <1>7
<1>10. \A i \in 0 .. n : z[i] \in S
  <2>1. \A i \in 1 .. n : z[i - 1] \in S => z[i] \in S
    BY <1>2, <1>9
  <2>2. z[0] \in S
    BY <1>3, <1>9
  <2> HIDE DEF Is
  <2> QED  BY <1>1, <2>1, <2>2, LoopType
<1>11. \A i \in 0 .. n : z[i] \in Seq(Word) /\ Len(z[i]) = m
  BY <1>10 DEF S
<1>12. \A i \in 1 .. n : z[i] = MulRow(z[i - 1], a, b[i], i - 1)
  BY <1>9 DEF Row
<1> QED  BY <1>8, <1>9, <1>11, <1>12 DEF n, m

\* A product has as many words as its operands together.
LEMMA ProductType ==
  ASSUME NEW a \in Seq(Word), NEW b \in Seq(Word)
  PROVE  MultipliedWords(a, b) \in Seq(Word) /\ Len(MultipliedWords(a, b)) = Len(a) + Len(b)
<1>1. Len(b) \in 0 .. Len(b)
  OBVIOUS
<1> QED  BY <1>1, RoundsAre

----------------------------------------------------------------------------
(***************************************************************************)
(* Digits.                                                                 *)
(***************************************************************************)

\* The loop of Value.
LEMMA ValueLoop ==
  ASSUME NEW base \in Nat, NEW digits \in Seq(Nat)
  PROVE  \E f \in [0 .. Len(digits) -> Nat] :
           /\ f[0] = 0
           /\ \A i \in 1 .. Len(digits) : f[i] = f[i - 1] + digits[i] * Power(base, i - 1)
           /\ Value(digits, base) = f[Len(digits)]
<1> DEFINE n == Len(digits)
           Next1(i, c) == c + digits[i] * Power(base, i - 1)
           Is(f) == f = [i \in 0 .. n |-> IF i = 0 THEN 0 ELSE Next1(i, f[i - 1])]
           body == [p \in (1 .. n) \X Nat |-> Next1(p[1], p[2])]
           sum == CHOOSE f : Is(f)
<1>1. n \in Nat
  OBVIOUS
<1>2. \A i \in 1 .. n, c \in Nat : Next1(i, c) \in Nat
  <2> TAKE i \in 1 .. n, c \in Nat
  <2>1. i - 1 \in Nat /\ digits[i] \in Nat
    OBVIOUS
  <2>2. Power(base, i - 1) \in Nat
    BY <2>1, PowerStep
  <2>3. digits[i] * Power(base, i - 1) \in Nat
    BY <2>1, <2>2
  <2> QED  BY <2>3
<1> HIDE DEF n, Next1
<1>3. body \in [(1 .. n) \X Nat -> Nat]
      /\ \A i \in 1 .. n, x \in Nat : body[<<i, x>>] = Next1(i, x)
  BY <1>2
<1> HIDE DEF body
<1>4. PICK g \in [0 .. n -> Nat] : Runs(g, n, 0, body)
  <2>1. 0 \in Nat  OBVIOUS
  <2> HIDE DEF Is
  <2> QED  BY <1>1, <1>3, <2>1, LoopExists
<1>5. Is(g)
  <2>1. \A i \in 1 .. n : g[i - 1] \in Nat
    BY <1>1
  <2>2. \A i \in 1 .. n : g[i] = Next1(i, g[i - 1])
    BY <1>3, <1>4, <2>1 DEF Runs
  <2> QED  BY <1>1, <1>4, <2>2 DEF Runs
<1>6. Is(sum)
  <2> HIDE DEF Is
  <2> QED  BY <1>5
<1>7. Value(digits, base) = sum[n]
  BY DEF Value, Next1, n
<1> HIDE DEF sum
<1>8. sum[0] = 0 /\ \A i \in 1 .. n : sum[i] = Next1(i, sum[i - 1])
  BY <1>1, <1>6
<1>9. \A i \in 0 .. n : sum[i] \in Nat
  <2>1. \A i \in 1 .. n : sum[i - 1] \in Nat => sum[i] \in Nat
    BY <1>2, <1>8
  <2>2. sum[0] \in Nat
    BY <1>8
  <2> HIDE DEF Is
  <2> QED  BY <1>1, <2>1, <2>2, LoopType
<1>10. sum \in [0 .. n -> Nat]
  BY <1>6, <1>9
<1>11. \A i \in 1 .. n : sum[i] = sum[i - 1] + digits[i] * Power(base, i - 1)
  BY <1>8 DEF Next1
<1> QED  BY <1>7, <1>8, <1>10, <1>11 DEF n

\* What n digits denote is less than the power n of their base.
LEMMA ValueBound ==
  ASSUME NEW base \in Nat, base > 1, NEW digits \in Seq(0 .. base - 1)
  PROVE  Value(digits, base) \in Nat /\ Value(digits, base) < Power(base, Len(digits))
<1> DEFINE n == Len(digits)
<1>1. n \in Nat /\ digits \in Seq(Nat) /\ \A i \in 1 .. n : digits[i] \in 0 .. base - 1
  OBVIOUS
<1>2. PICK f \in [0 .. n -> Nat] :
        /\ f[0] = 0
        /\ \A i \in 1 .. n : f[i] = f[i - 1] + digits[i] * Power(base, i - 1)
        /\ Value(digits, base) = f[n]
  BY <1>1, ValueLoop
<1> DEFINE P == {i \in 0 .. n : f[i] < Power(base, i)}
<1> HIDE DEF n
<1>3. 0 \in P
  BY <1>1, <1>2, PowerStep
<1>4. \A i \in 1 .. n : i - 1 \in P => i \in P
  <2> SUFFICES ASSUME NEW i \in 1 .. n, i - 1 \in P PROVE i \in P
    OBVIOUS
  <2> DEFINE p == Power(base, i - 1)
             x == f[i - 1]
             d == digits[i]
             y == f[i]
             q == Power(base, i)
  <2>1. i - 1 \in Nat /\ (i - 1) + 1 = i /\ i - 1 \in 0 .. n /\ i \in 0 .. n
    BY <1>1
  <2>2. p \in Nat /\ q = base * p
    BY <2>1, PowerStep
  <2>3. x \in Nat /\ x < p /\ d \in 0 .. base - 1 /\ y = x + d * p
    BY <1>1, <1>2, <2>1
  <2> HIDE DEF p, x, d, y, q
  <2>4. d * p <= (base - 1) * p
    BY <2>2, <2>3
  <2>5. (base - 1) * p = base * p - p /\ d * p \in Nat /\ base * p \in Nat
    BY <2>2, <2>3
  <2>6. y < q
    <3> DEFINE s == d * p
               t == base * p
    <3>1. s \in Nat /\ t \in Nat /\ s <= t - p /\ y = x + s /\ q = t
      BY <2>2, <2>3, <2>4, <2>5
    <3> HIDE DEF s, t
    <3> QED  BY <2>2, <2>3, <3>1
  <2> QED  BY <2>1, <2>6 DEF y, q
<1> HIDE DEF P
<1>5. \A i \in 0 .. n : i \in P
  BY <1>1, <1>3, <1>4, CountingUp
<1>6. n \in P /\ n \in 0 .. n
  BY <1>1, <1>5
<1>7. f[n] < Power(base, n)
  BY <1>6 DEF P
<1> QED  BY <1>2, <1>6, <1>7 DEF n

Byte == 0 .. ByteBase - 1

\* At least one byte of the data is used, and at most all are.
LEMMA UsedLengthType ==
  ASSUME NEW data \in Seq(Byte), data # <<>>
  PROVE  UsedLength(data) \in 1 .. Len(data)
<1> DEFINE significant == {i \in 1 .. Len(data) : data[i] # 0 \/ i = Len(data)}
           first == CHOOSE i \in significant : \A j \in significant : i <= j
<1>1. Len(data) \in Nat \ {0}
  OBVIOUS
<1>2. Len(data) \in significant /\ significant \subseteq 1 .. Len(data)
  BY <1>1
<1>3. \E i \in significant : \A j \in significant : i <= j
  <2> HIDE DEF significant
  <2>1. significant \subseteq Nat /\ significant # {}
    BY <1>2
  <2> QED  BY <2>1, LeastExists
<1>4. first \in significant
  <2> HIDE DEF significant
  <2> QED  BY <1>3
<1>5. UsedLength(data) = Len(data) - first + 1
  BY DEF UsedLength
<1> HIDE DEF first, significant
<1>6. first \in 1 .. Len(data)
  BY <1>2, <1>4
<1> QED  BY <1>1, <1>5, <1>6

\* Bytes that make up a word.
LEMMA WordOfBytes ==
  ASSUME NEW digits \in Seq(Byte), Len(digits) <= WordBytes
  PROVE  Value(digits, ByteBase) \in Word
<1> DEFINE v == Value(digits, ByteBase)
           p == Power(ByteBase, Len(digits))
<1>1. ByteBase \in Nat /\ ByteBase > 1 /\ WordBytes \in Nat
  BY MpAssumption
<1>2. v \in Nat /\ v < p
  BY <1>1, ValueBound DEF Byte
<1>3. Len(digits) \in 0 .. WordBytes
  BY <1>1
<1>4. p \in Nat /\ p <= WordBase
  BY <1>1, <1>3, PowerGrows DEF WordBase
<1> HIDE DEF v, p
<1>5. v \in 0 .. MaxWord
  BY <1>2, <1>4, WordBaseType
<1> QED  BY <1>5 DEF Word, v

\* The words read from any data but the empty one are words.
LEMMA LoadedType ==
  ASSUME NEW data \in Seq(Byte), data # <<>>
  PROVE  LoadedWords(data) \in Seq(Word)
<1> DEFINE used   == UsedLength(data)
           count  == used \div WordBytes
           remain == used % WordBytes
           Digits(i) == [k \in 1 .. WordBytes |->
                           data[Len(data) - (i - 1) * WordBytes - k + 1]]
           words == [i \in 1 .. count |-> Value(Digits(i), ByteBase)]
           rest  == SubSeq(data, 1, remain)
<1>1. used \in 1 .. Len(data) /\ Len(data) \in Nat /\ WordBytes \in Nat \ {0}
  BY UsedLengthType, MpAssumption
<1> HIDE DEF used
<1>2. count \in Nat /\ remain \in 0 .. WordBytes - 1 /\ used = count * WordBytes + remain
  BY <1>1
<1> HIDE DEF count, remain
<1>3. \A i \in 1 .. count : Value(Digits(i), ByteBase) \in Word
  <2> TAKE i \in 1 .. count
  <2>1. \A k \in 1 .. WordBytes : Len(data) - (i - 1) * WordBytes - k + 1 \in 1 .. Len(data)
    <3> TAKE k \in 1 .. WordBytes
    <3> DEFINE e == (i - 1) * WordBytes
               f == count * WordBytes
    <3>1. e \in Nat /\ f \in Nat /\ e <= f - WordBytes
      <4>1. i - 1 \in Nat /\ i - 1 <= count - 1
        BY <1>2
      <4>2. (i - 1) * WordBytes <= (count - 1) * WordBytes
        BY <1>1, <1>2, <4>1
      <4>3. (count - 1) * WordBytes = count * WordBytes - WordBytes
        BY <1>1, <1>2
      <4>4. e \in Nat /\ f \in Nat
        BY <1>1, <1>2, <4>1
      <4> QED  BY <4>2, <4>3, <4>4
    <3>2. f <= Len(data)
      <4> HIDE DEF f
      <4>1. used = f + remain  BY <1>2 DEF f
      <4> QED  BY <1>1, <1>2, <3>1, <4>1
    <3> HIDE DEF e, f
    <3>3. Len(data) - e - k + 1 \in 1 .. Len(data)
      BY <1>1, <3>1, <3>2
    <3> QED  BY <3>3 DEF e
  <2>2. Digits(i) \in [1 .. WordBytes -> Byte]
    BY <2>1
  <2> DEFINE digits == Digits(i)
  <2> HIDE DEF digits, Byte
  <2>3. digits \in [1 .. WordBytes -> Byte]
    BY <2>2 DEF digits
  <2>4. digits \in Seq(Byte)
    BY <1>1, <2>3, SeqDef
  <2>5. Len(digits) = WordBytes
    <3>1. DOMAIN digits = 1 .. WordBytes /\ DOMAIN digits = 1 .. Len(digits) /\ Len(digits) \in Nat
      BY <2>3, <2>4
    <3> QED  BY <1>1, <3>1
  <2>6. Value(digits, ByteBase) \in Word
    BY <1>1, <2>4, <2>5, WordOfBytes
  <2> QED  BY <2>6 DEF digits
<1>4. words \in Seq(Word)
  <2>1. words \in [1 .. count -> Word]
    <3> HIDE DEF Digits
    <3> QED  BY <1>3
  <2> HIDE DEF words
  <2> QED  BY <1>2, <2>1, WordsAreSeq
<1>5. Value(rest, ByteBase) \in Word
  <2>1. remain \in 0 .. Len(data)
    <3> DEFINE f == count * WordBytes
    <3>1. f \in Nat /\ used = f + remain
      BY <1>1, <1>2
    <3> HIDE DEF f
    <3> QED  BY <1>1, <1>2, <3>1
  <2>2. rest \in Seq(Byte) /\ Len(rest) = remain
    <3> HIDE DEF Byte
    <3> QED  BY <2>1, PrefixType
  <2> HIDE DEF rest
  <2>3. Len(rest) <= WordBytes
    BY <1>1, <1>2, <2>2
  <2> QED  BY <2>2, <2>3, WordOfBytes
<1>6. LoadedWords(data) = IF remain = 0 THEN words ELSE Append(words, Value(rest, ByteBase))
  BY DEF LoadedWords, used, count, remain
<1> HIDE DEF words, rest, Word
<1> QED  BY <1>4, <1>5, <1>6

----------------------------------------------------------------------------
(***************************************************************************)
(* The values of digits.                                                   *)
(***************************************************************************)

\* The first k words of a number, extended by zeros, and what they denote.
Padded(x, k)    == [i \in 1 .. k |-> WordAt(x, i)]
Low(x, k, base) == Value(Padded(x, k), base)

LEMMA PaddedType ==
  ASSUME NEW S, 0 \in S, NEW x \in Seq(S), NEW k \in Nat
  PROVE  /\ Padded(x, k) \in Seq(S) /\ Len(Padded(x, k)) = k
         /\ \A i \in 1 .. k : Padded(x, k)[i] = WordAt(x, i) /\ WordAt(x, i) \in S
         /\ k = Len(x) => Padded(x, k) = x
<1> DEFINE p == Padded(x, k)
<1>1. \A i \in 1 .. k : WordAt(x, i) \in S
  <2> TAKE i \in 1 .. k
  <2>1. i <= Len(x) => i \in 1 .. Len(x)  OBVIOUS
  <2> QED  BY <2>1 DEF WordAt
<1>2. p \in [1 .. k -> S] /\ \A i \in 1 .. k : p[i] = WordAt(x, i)
  BY <1>1 DEF Padded
<1>3. k = Len(x) => p = x
  <2> SUFFICES ASSUME k = Len(x) PROVE p = x  OBVIOUS
  <2>1. x = [i \in 1 .. k |-> x[i]]  OBVIOUS
  <2>2. \A i \in 1 .. k : WordAt(x, i) = x[i]  BY DEF WordAt
  <2> QED  BY <2>1, <2>2 DEF Padded
<1> HIDE DEF p
<1>4. p \in Seq(S)  BY <1>2, SeqDef
<1>5. DOMAIN p = 1 .. k /\ DOMAIN p = 1 .. Len(p) /\ Len(p) \in Nat
  BY <1>2, <1>4
<1> QED  BY <1>1, <1>2, <1>3, <1>4, <1>5 DEF p

\* One digit more.
LEMMA LowStep ==
  ASSUME NEW base \in Nat, NEW x \in Seq(Nat), NEW k \in Nat
  PROVE  /\ Low(x, 0, base) = 0
         /\ Low(x, k, base) \in Nat
         /\ Low(x, k + 1, base) = Low(x, k, base) + WordAt(x, k + 1) * Power(base, k)
<1> DEFINE Loop(f, n) == /\ f \in [0 .. n -> Nat]
                         /\ f[0] = 0
                         /\ \A i \in 1 .. n : f[i] = f[i - 1] + WordAt(x, i) * Power(base, i - 1)
                         /\ Low(x, n, base) = f[n]
<1>1. \A n \in Nat : \E f : Loop(f, n)
  <2> SUFFICES ASSUME NEW n \in Nat PROVE \E f : Loop(f, n)
    OBVIOUS
  <2> DEFINE d == Padded(x, n)
  <2>1. d \in Seq(Nat) /\ Len(d) = n /\ \A i \in 1 .. n : d[i] = WordAt(x, i)
    BY PaddedType
  <2> HIDE DEF d
  <2>2. PICK f \in [0 .. Len(d) -> Nat] :
           /\ f[0] = 0
           /\ \A i \in 1 .. Len(d) : f[i] = f[i - 1] + d[i] * Power(base, i - 1)
           /\ Value(d, base) = f[Len(d)]
    <3> HIDE DEF Loop
    <3> QED  BY <2>1, ValueLoop
  <2>3. Loop(f, n)
    BY <2>1, <2>2 DEF Low, d
  <2> HIDE DEF Loop
  <2> QED  BY <2>3
<1>2. PICK f : Loop(f, k)
  BY <1>1
<1>3. PICK g : Loop(g, k + 1)
  <2>1. k + 1 \in Nat  OBVIOUS
  <2> HIDE DEF Loop
  <2> QED  BY <1>1, <2>1
<1>4. PICK h : Loop(h, 0)
  BY <1>1
<1>5. \A i \in 0 .. k : g[i] = f[i]
  <2> DEFINE P == {i \in 0 .. k : g[i] = f[i]}
  <2>1. 0 \in P
    BY <1>2, <1>3
  <2>2. \A i \in 1 .. k : i - 1 \in P => i \in P
    <3> SUFFICES ASSUME NEW i \in 1 .. k, i - 1 \in P PROVE i \in P
      OBVIOUS
    <3> DEFINE t == WordAt(x, i) * Power(base, i - 1)
    <3>1. f[i] = f[i - 1] + t
      BY <1>2
    <3>2. g[i] = g[i - 1] + t
      BY <1>3
    <3> HIDE DEF t
    <3> QED  BY <3>1, <3>2
  <2> HIDE DEF P
  <2>3. \A i \in 0 .. k : i \in P
    BY <2>1, <2>2, CountingUp
  <2> QED  BY <2>3 DEF P
<1>6. g[k + 1] = g[k] + WordAt(x, k + 1) * Power(base, k)
  <2>1. k + 1 \in 1 .. k + 1 /\ (k + 1) - 1 = k
    OBVIOUS
  <2> QED  BY <1>3, <2>1
<1>7. Low(x, k + 1, base) = f[k] + WordAt(x, k + 1) * Power(base, k)
  BY <1>3, <1>5, <1>6
<1>8. Low(x, k, base) = f[k] /\ f[k] \in Nat /\ Low(x, 0, base) = 0
  BY <1>2, <1>4
<1> QED  BY <1>7, <1>8

\* Digits that are zero add nothing,
LEMMA LowZeros ==
  ASSUME NEW base \in Nat, NEW x \in Seq(Nat), NEW m \in Nat, NEW n \in Nat, m <= n,
         \A i \in m + 1 .. n : WordAt(x, i) = 0
  PROVE  Low(x, n, base) = Low(x, m, base)
<1> DEFINE P == {j \in 0 .. n - m : Low(x, m + j, base) = Low(x, m, base)}
<1>1. n - m \in Nat /\ m + (n - m) = n /\ n - m \in 0 .. n - m
  OBVIOUS
<1>2. 0 \in P
  BY <1>1
<1>3. \A j \in 1 .. n - m : j - 1 \in P => j \in P
  <2> SUFFICES ASSUME NEW j \in 1 .. n - m, j - 1 \in P PROVE j \in P
    OBVIOUS
  <2> DEFINE k == m + (j - 1)
  <2>1. k \in Nat /\ m + j = k + 1 /\ k + 1 \in m + 1 .. n
    BY <1>1
  <2>2. WordAt(x, k + 1) = 0
    BY <2>1
  <2>3. Power(base, k) \in Nat
    BY <2>1, PowerStep
  <2>4. Low(x, k + 1, base) = Low(x, k, base) + WordAt(x, k + 1) * Power(base, k)
        /\ Low(x, k, base) \in Nat
    <3> HIDE DEF k
    <3> QED  BY <2>1, LowStep
  <2>5. Low(x, k, base) = Low(x, m, base)
    OBVIOUS
  <2>6. Low(x, k + 1, base) = Low(x, m, base)
    <3> HIDE DEF k
    <3> QED  BY <2>2, <2>3, <2>4, <2>5
  <2> QED  BY <2>1, <2>6
<1> HIDE DEF P
<1>4. \A j \in 0 .. n - m : j \in P
  BY <1>1, <1>2, <1>3, CountingUp
<1>5. n - m \in P
  BY <1>1, <1>4
<1> QED  BY <1>1, <1>5 DEF P

\* so that it does not matter how many zeros are beyond the top.
LEMMA LowIsValue ==
  ASSUME NEW base \in Nat, NEW x \in Seq(Nat), NEW n \in Nat, n >= Len(x)
  PROVE  Low(x, n, base) = Value(x, base)
<1> DEFINE m == Len(x)
<1>1. m \in Nat /\ m <= n /\ \A i \in m + 1 .. n : WordAt(x, i) = 0
  BY DEF WordAt
<1>2. Padded(x, m) = x
  BY PaddedType
<1> HIDE DEF m
<1>3. Low(x, n, base) = Low(x, m, base)
  BY <1>1, LowZeros
<1> QED  BY <1>2, <1>3 DEF Low

\* k digits denote less than the power k of their base.
LEMMA LowBound ==
  ASSUME NEW base \in Nat, base > 1, NEW x \in Seq(0 .. base - 1), NEW k \in Nat
  PROVE  Low(x, k, base) \in Nat /\ Low(x, k, base) < Power(base, k)
<1> DEFINE S == 0 .. base - 1
<1>1. 0 \in S  OBVIOUS
<1>2. Padded(x, k) \in Seq(S) /\ Len(Padded(x, k)) = k
  <2> HIDE DEF S
  <2> QED  BY <1>1, PaddedType DEF S
<1> QED  BY <1>2, ValueBound DEF Low

\* Numbers that agree in their first k digits agree in what these denote.
LEMMA LowSame ==
  ASSUME NEW base \in Nat, NEW x \in Seq(Nat), NEW y \in Seq(Nat), NEW k \in Nat,
         \A i \in 1 .. k : WordAt(x, i) = WordAt(y, i)
  PROVE  Low(x, k, base) = Low(y, k, base)
<1>1. Padded(x, k) = Padded(y, k)
  BY DEF Padded
<1> QED  BY <1>1 DEF Low

\* Powers multiply.
LEMMA PowerSum ==
  ASSUME NEW base \in Nat, NEW i \in Nat, NEW j \in Nat
  PROVE  Power(base, i + j) = Power(base, i) * Power(base, j)
<1> DEFINE P == {k \in 0 .. j : Power(base, i + k) = Power(base, i) * Power(base, k)}
<1>1. 0 \in P
  <2>1. i + 0 = i /\ Power(base, 0) = 1 /\ Power(base, i) \in Nat
    BY PowerStep
  <2> QED  BY <2>1
<1>2. \A k \in 1 .. j : k - 1 \in P => k \in P
  <2> SUFFICES ASSUME NEW k \in 1 .. j, k - 1 \in P PROVE k \in P
    OBVIOUS
  <2> DEFINE a == Power(base, i)
             x == Power(base, k - 1)
             y == Power(base, i + (k - 1))
  <2>1. k - 1 \in Nat /\ (k - 1) + 1 = k /\ i + (k - 1) \in Nat /\ (i + (k - 1)) + 1 = i + k
    OBVIOUS
  <2>2. /\ a \in Nat /\ x \in Nat /\ y \in Nat
        /\ Power(base, k) = base * x /\ Power(base, i + k) = base * y
    BY <2>1, PowerStep
  <2>3. y = a * x
    OBVIOUS
  <2> HIDE DEF a, x, y
  <2>4. base * y = a * (base * x)
    BY <2>2, <2>3
  <2> QED  BY <2>2, <2>4 DEF a
<1> HIDE DEF P
<1>3. \A k \in 0 .. j : k \in P
  BY <1>1, <1>2, CountingUp
<1>4. j \in P
  BY <1>3
<1> QED  BY <1>4 DEF P

\* Quotient and remainder are unique.
LEMMA Division ==
  ASSUME NEW B \in Nat, B > 0, NEW x \in Int, NEW q \in Int, NEW r \in 0 .. B - 1,
         x = q * B + r
  PROVE  x \div B = q /\ x % B = r
<1> DEFINE p == x \div B
           s == x % B
<1>1. p \in Int /\ s \in 0 .. B - 1 /\ x = p * B + s
  OBVIOUS
<1> HIDE DEF p, s
<1>2. (p - q) * B = r - s
  BY <1>1
<1>3. ~ (p - q >= 1)
  <2> SUFFICES ASSUME p - q >= 1 PROVE FALSE  OBVIOUS
  <2>1. (p - q) * B >= B  BY <1>1
  <2> QED  BY <1>1, <1>2, <2>1
<1>4. ~ (q - p >= 1)
  <2> SUFFICES ASSUME q - p >= 1 PROVE FALSE  OBVIOUS
  <2>1. (q - p) * B >= B  BY <1>1
  <2>2. (q - p) * B = s - r  BY <1>1, <1>2
  <2> QED  BY <1>1, <2>1, <2>2
<1>5. p = q
  BY <1>1, <1>3, <1>4
<1>6. s = r
  BY <1>1, <1>2, <1>5
<1> QED  BY <1>5, <1>6 DEF p, s

----------------------------------------------------------------------------
(***************************************************************************)
(* Magnitudes.                                                             *)
(***************************************************************************)

\* What the first k words of a number denote, and the weight of the next one.
Mag(x, k) == Low(x, k, WordBase)
Weight(k) == Power(WordBase, k)

LEMMA WordsAreDigits ==
  ASSUME NEW x \in Seq(Word)
  PROVE  x \in Seq(Nat) /\ x \in Seq(0 .. WordBase - 1)
<1>1. Word = 0 .. WordBase - 1
  BY WordBaseType DEF Word
<1>2. x \in Seq(0 .. WordBase - 1)
  BY <1>1
<1>3. 0 .. WordBase - 1 \subseteq Nat
  BY WordBaseType
<1> DEFINE S == 0 .. WordBase - 1
<1> HIDE DEF S
<1>4. x \in Seq(S) /\ S \subseteq Nat
  BY <1>2, <1>3 DEF S
<1>5. x \in Seq(Nat)
  <2>1. Len(x) \in Nat /\ x \in [1 .. Len(x) -> S]
    BY <1>4
  <2>2. x \in [1 .. Len(x) -> Nat]
    BY <1>4, <2>1
  <2> QED  BY <2>1, <2>2, SeqDef
<1> QED  BY <1>2, <1>5

LEMMA WeightStep ==
  ASSUME NEW k \in Nat
  PROVE  /\ Weight(k) \in Nat /\ Weight(k) > 0 /\ Weight(0) = 1
         /\ Weight(k + 1) = WordBase * Weight(k)
<1>1. WordBase \in Nat /\ WordBase > 1
  BY WordBaseType
<1>2. k \in 0 .. k
  OBVIOUS
<1>3. Power(WordBase, k) \in Nat \ {0}
  BY <1>1, <1>2, PowerGrows
<1> QED  BY <1>1, <1>3, PowerStep DEF Weight

LEMMA MagStep ==
  ASSUME NEW x \in Seq(Word), NEW k \in Nat
  PROVE  /\ Mag(x, 0) = 0
         /\ Mag(x, k) \in Nat /\ Mag(x, k) < Weight(k)
         /\ WordAt(x, k + 1) \in Word
         /\ Mag(x, k + 1) = Mag(x, k) + WordAt(x, k + 1) * Weight(k)
         /\ k >= Len(x) => Mag(x, k) = Magnitude(x)
<1>1. WordBase \in Nat /\ WordBase > 1
  BY WordBaseType
<1>2. x \in Seq(Nat) /\ x \in Seq(0 .. WordBase - 1)
  BY WordsAreDigits
<1>3. WordAt(x, k + 1) \in Word
  <2>1. k + 1 \in Nat \ {0}  OBVIOUS
  <2> QED  BY <2>1, WordAtType
<1>4. Low(x, k, WordBase) < Power(WordBase, k)
  BY <1>1, <1>2, LowBound
<1>5. k >= Len(x) => Low(x, k, WordBase) = Value(x, WordBase)
  BY <1>1, <1>2, LowIsValue
<1>6. /\ Low(x, 0, WordBase) = 0
      /\ Low(x, k, WordBase) \in Nat
      /\ Low(x, k + 1, WordBase) = Low(x, k, WordBase) + WordAt(x, k + 1) * Power(WordBase, k)
  BY <1>1, <1>2, LowStep
<1> QED  BY <1>3, <1>4, <1>5, <1>6 DEF Mag, Weight, Magnitude

\* The sum of two words, with the carry that CarryOf recognises.
LEMMA AddedWord ==
  ASSUME NEW v \in Word, NEW w \in Word, NEW c \in {0, 1}, ~ (w = MaxWord /\ c = 1)
  PROVE  /\ SumWord(v, w, c) \in Word
         /\ SumWord(v, w, c) + CarryOf(v, w, c) * WordBase = v + w + c
<1> DEFINE B == WordBase
           s == v + w + c
           z == SumWord(v, w, c)
<1>1. B \in Nat /\ B > 1 /\ Word = 0 .. B - 1 /\ MaxWord = B - 1
  BY WordBaseType DEF Word
<1>2. z = s % B
  BY DEF SumWord
<1> HIDE DEF B, z
<1>3. v \in 0 .. B - 1 /\ w \in 0 .. B - 1 /\ w + c <= B - 1 /\ c \in Nat
  BY <1>1
<1>4. CASE s < B
  <2>1. s = 0 * B + s /\ s \in 0 .. B - 1
    BY <1>1, <1>3, <1>4
  <2>2. z = s
    BY <1>1, <1>2, <2>1, Division
  <2>3. CarryOf(v, w, c) = 0
    BY <1>3, <2>2 DEF CarryOf, z
  <2> QED  BY <1>1, <1>3, <2>1, <2>2, <2>3 DEF z, B
<1>5. CASE s >= B
  <2>1. s = 1 * B + (s - B) /\ s - B \in 0 .. B - 1 /\ s \in Int
    BY <1>1, <1>3, <1>5
  <2>2. z = s - B
    BY <1>1, <1>2, <2>1, Division
  <2>3. CarryOf(v, w, c) = 1
    BY <1>1, <1>3, <2>2 DEF CarryOf, z
  <2>4. z + 1 * B = s
    BY <1>1, <2>1, <2>2
  <2> QED  BY <1>1, <2>1, <2>2, <2>3, <2>4 DEF z, B
<1> QED  BY <1>1, <1>3, <1>4, <1>5

\* The difference of two words, with the borrow that BorrowOf recognises.
LEMMA SubtractedWord ==
  ASSUME NEW v \in Word, NEW w \in Word, NEW c \in {0, 1}, ~ (w = MaxWord /\ c = 1)
  PROVE  /\ DifferenceWord(v, w, c) \in Word
         /\ DifferenceWord(v, w, c) - BorrowOf(v, w, c) * WordBase = v - w - c
<1> DEFINE B == WordBase
           s == v - w - c
           z == DifferenceWord(v, w, c)
<1>1. B \in Nat /\ B > 1 /\ Word = 0 .. B - 1 /\ MaxWord = B - 1
  BY WordBaseType DEF Word
<1>2. z = s % B
  BY DEF DifferenceWord
<1> HIDE DEF B, z
<1>3. v \in 0 .. B - 1 /\ w \in 0 .. B - 1 /\ w + c <= B - 1 /\ c \in Nat
  BY <1>1
<1>4. CASE s >= 0
  <2>1. s = 0 * B + s /\ s \in 0 .. B - 1
    BY <1>1, <1>3, <1>4
  <2>2. z = s
    BY <1>1, <1>2, <2>1, Division
  <2>3. BorrowOf(v, w, c) = 0
    BY <1>3, <2>2 DEF BorrowOf, z
  <2> QED  BY <1>1, <1>3, <2>1, <2>2, <2>3 DEF z, B
<1>5. CASE s < 0
  <2>1. s = (-1) * B + (s + B) /\ s + B \in 0 .. B - 1 /\ s \in Int /\ -1 \in Int
    BY <1>1, <1>3, <1>5
  <2>2. z = s + B
    BY <1>1, <1>2, <2>1, Division
  <2>3. BorrowOf(v, w, c) = 1
    BY <1>1, <1>3, <2>2 DEF BorrowOf, z
  <2>4. z - 1 * B = s
    BY <1>1, <2>1, <2>2
  <2> QED  BY <1>1, <2>1, <2>2, <2>3, <2>4 DEF z, B
<1> QED  BY <1>1, <1>3, <1>4, <1>5

\* One word of an addition: the carry into it and the carry out of it.
LEMMA AddedDigit ==
  ASSUME NEW B \in Nat, NEW u \in Nat,
         NEW p \in Int, NEW q \in Int, NEW r \in Int,
         NEW v \in Int, NEW w \in Int, NEW s \in Int, NEW c \in Int, NEW d \in Int,
         r + c * u = p + q, s + d * B = v + w + c
  PROVE  (r + s * u) + d * (B * u) = (p + v * u) + (q + w * u)
<1>1. s = v + w + c - d * B
  OBVIOUS
<1>2. s * u = (v + w + c - d * B) * u
  BY <1>1
<1>3. (v + w + c - d * B) * u = v * u + w * u + c * u - d * (B * u)
  OBVIOUS
<1>4. r = p + q - c * u
  OBVIOUS
<1> DEFINE su == s * u
           vu == v * u
           wu == w * u
           cu == c * u
           dbu == d * (B * u)
<1>5. su \in Int /\ vu \in Int /\ wu \in Int /\ cu \in Int /\ dbu \in Int
  OBVIOUS
<1>6. su = vu + wu + cu - dbu /\ r = p + q - cu
  BY <1>2, <1>3, <1>4
<1> HIDE DEF su, vu, wu, cu, dbu
<1>7. (r + su) + dbu = (p + vu) + (q + wu)
  BY <1>5, <1>6
<1> QED  BY <1>7 DEF su, vu, wu, cu, dbu

\* SummedWords gives the sum of the magnitudes, its carry on top, if no carry is lost.
LEMMA AddExact ==
  ASSUME NEW a \in Seq(Word), NEW b \in Seq(Word), ~ LosesCarry(a, b)
  PROVE  LET s == SummedWords(a, b)
         IN  Magnitude(s.words) + s.carry * Weight(Longer(Len(a), Len(b))) =
               Magnitude(a) + Magnitude(b)
<1> DEFINE n == Longer(Len(a), Len(b))
           s == SummedWords(a, b)
           z == s.words
           carry == Carries(a, b)
           P == {i \in 0 .. n : Mag(z, i) + carry[i] * Weight(i) = Mag(a, i) + Mag(b, i)}
<1>1. /\ n \in Nat
      /\ \A i \in 0 .. n : carry[i] \in {0, 1}
      /\ carry[0] = 0
      /\ \A i \in 1 .. n : carry[i] = CarryOf(WordAt(a, i), WordAt(b, i), carry[i - 1])
  BY CarriesAre
<1>2. /\ z \in Seq(Word) /\ Len(z) = n /\ s.carry = carry[n]
      /\ \A i \in 1 .. n : z[i] = SumWord(WordAt(a, i), WordAt(b, i), carry[i - 1])
  BY SumType
<1>3. Len(a) \in Nat /\ Len(b) \in Nat /\ n >= Len(a) /\ n >= Len(b)
  <2> HIDE DEF Word
  <2>1. Len(a) \in Nat /\ Len(b) \in Nat  OBVIOUS
  <2> QED  BY <2>1, LongerType
<1>4. \A i \in 1 .. n : ~ (WordAt(b, i) = MaxWord /\ carry[i - 1] = 1)
  BY DEF LosesCarry
<1> HIDE DEF n, z, s, carry
<1>5. 0 \in P
  <2>1. Mag(z, 0) = 0 /\ Mag(a, 0) = 0 /\ Mag(b, 0) = 0 /\ Weight(0) \in Nat
    BY <1>2, MagStep, WeightStep
  <2> QED  BY <1>1, <2>1
<1>6. \A i \in 1 .. n : i - 1 \in P => i \in P
  <2> SUFFICES ASSUME NEW i \in 1 .. n, i - 1 \in P PROVE i \in P
    OBVIOUS
  <2> DEFINE k == i - 1
             v == WordAt(a, i)
             w == WordAt(b, i)
             x == WordAt(z, i)
             c == carry[k]
             d == carry[i]
             u == Weight(k)
  <2>1. k \in Nat /\ k \in 0 .. n /\ i = k + 1 /\ i \in 0 .. n
    BY <1>1
  <2>2. /\ v \in Word /\ w \in Word /\ x \in Word
        /\ Mag(z, k) \in Nat /\ Mag(a, k) \in Nat /\ Mag(b, k) \in Nat
        /\ Mag(z, i) = Mag(z, k) + x * u
        /\ Mag(a, i) = Mag(a, k) + v * u
        /\ Mag(b, i) = Mag(b, k) + w * u
    <3> HIDE DEF k
    <3> QED  BY <1>2, <2>1, MagStep
  <2>3. u \in Nat /\ Weight(i) = WordBase * u
    <3> HIDE DEF k
    <3> QED  BY <2>1, WeightStep
  <2>4. c \in {0, 1} /\ d \in {0, 1} /\ d = CarryOf(v, w, c) /\ ~ (w = MaxWord /\ c = 1)
    BY <1>1, <1>4, <2>1
  <2>5. x = SumWord(v, w, c)
    BY <1>2 DEF WordAt
  <2>6. Mag(z, k) + c * u = Mag(a, k) + Mag(b, k)
    OBVIOUS
  <2> HIDE DEF k, v, w, x, c, d, u, P
  <2>7. x + d * WordBase = v + w + c
    BY <2>2, <2>4, <2>5, AddedWord
  <2>8. v \in Int /\ w \in Int /\ x \in Int /\ c \in Int /\ d \in Int /\ WordBase \in Nat
    BY <2>2, <2>4, WordBaseType DEF Word
  <2>9. (Mag(z, k) + x * u) + d * (WordBase * u) = (Mag(a, k) + v * u) + (Mag(b, k) + w * u)
    <3> DEFINE r == Mag(z, k)
               p == Mag(a, k)
               q == Mag(b, k)
               B == WordBase
    <3>1. r \in Int /\ p \in Int /\ q \in Int /\ B \in Nat /\ r + c * u = p + q
      BY <2>2, <2>6, <2>8
    <3>2. x + d * B = v + w + c
      BY <2>7
    <3> HIDE DEF r, p, q, B
    <3>3. (r + x * u) + d * (B * u) = (p + v * u) + (q + w * u)
      BY <2>3, <2>8, <3>1, <3>2, AddedDigit
    <3> QED  BY <3>3 DEF r, p, q, B
  <2>10. Mag(z, i) + d * Weight(i) = Mag(a, i) + Mag(b, i)
    BY <2>2, <2>3, <2>9
  <2> QED  BY <2>1, <2>10 DEF P, d
<1> HIDE DEF P
<1>7. \A i \in 0 .. n : i \in P
  BY <1>1, <1>5, <1>6, CountingUp
<1>8. n \in P
  BY <1>1, <1>7
<1>9. Mag(z, n) = Magnitude(z) /\ Mag(a, n) = Magnitude(a) /\ Mag(b, n) = Magnitude(b)
  BY <1>1, <1>2, <1>3, MagStep
<1>10. Magnitude(z) + s.carry * Weight(n) = Magnitude(a) + Magnitude(b)
  BY <1>2, <1>8, <1>9 DEF P
<1> QED  BY <1>10 DEF z, s, n

\* One word of a subtraction: the borrow into it and the borrow out of it.
LEMMA SubtractedDigit ==
  ASSUME NEW B \in Nat, NEW u \in Nat,
         NEW p \in Int, NEW q \in Int, NEW r \in Int,
         NEW v \in Int, NEW w \in Int, NEW s \in Int, NEW c \in Int, NEW d \in Int,
         r - c * u = p - q, s - d * B = v - w - c
  PROVE  (r + s * u) - d * (B * u) = (p + v * u) - (q + w * u)
<1>1. s = v - w - c + d * B
  OBVIOUS
<1>2. s * u = (v - w - c + d * B) * u
  BY <1>1
<1>3. (v - w - c + d * B) * u = v * u - w * u - c * u + d * (B * u)
  OBVIOUS
<1>4. r = p - q + c * u
  OBVIOUS
<1> DEFINE su == s * u
           vu == v * u
           wu == w * u
           cu == c * u
           dbu == d * (B * u)
<1>5. su \in Int /\ vu \in Int /\ wu \in Int /\ cu \in Int /\ dbu \in Int
  OBVIOUS
<1>6. su = vu - wu - cu + dbu /\ r = p - q + cu
  BY <1>2, <1>3, <1>4
<1> HIDE DEF su, vu, wu, cu, dbu
<1>7. (r + su) - dbu = (p + vu) - (q + wu)
  BY <1>5, <1>6
<1> QED  BY <1>7 DEF su, vu, wu, cu, dbu

\* SubtractedWords gives the difference of the magnitudes, its borrow under it, if no
\* borrow is lost.
LEMMA SubExact ==
  ASSUME NEW a \in Seq(Word), NEW b \in Seq(Word), ~ LosesBorrow(a, b)
  PROVE  LET s == SubtractedWords(a, b)
         IN  Magnitude(s.words) - s.borrow * Weight(Longer(Len(a), Len(b))) =
               Magnitude(a) - Magnitude(b)
<1> DEFINE n == Longer(Len(a), Len(b))
           s == SubtractedWords(a, b)
           z == s.words
           borrow == Borrows(a, b)
           P == {i \in 0 .. n : Mag(z, i) - borrow[i] * Weight(i) = Mag(a, i) - Mag(b, i)}
<1>1. /\ n \in Nat
      /\ \A i \in 0 .. n : borrow[i] \in {0, 1}
      /\ borrow[0] = 0
      /\ \A i \in 1 .. n : borrow[i] = BorrowOf(WordAt(a, i), WordAt(b, i), borrow[i - 1])
  BY BorrowsAre
<1>2. /\ z \in Seq(Word) /\ Len(z) = n /\ s.borrow = borrow[n]
      /\ \A i \in 1 .. n : z[i] = DifferenceWord(WordAt(a, i), WordAt(b, i), borrow[i - 1])
  BY DifferenceType
<1>3. Len(a) \in Nat /\ Len(b) \in Nat /\ n >= Len(a) /\ n >= Len(b)
  <2> HIDE DEF Word
  <2>1. Len(a) \in Nat /\ Len(b) \in Nat  OBVIOUS
  <2> QED  BY <2>1, LongerType
<1>4. \A i \in 1 .. n : ~ (WordAt(b, i) = MaxWord /\ borrow[i - 1] = 1)
  BY DEF LosesBorrow
<1> HIDE DEF n, z, s, borrow
<1>5. 0 \in P
  <2>1. Mag(z, 0) = 0 /\ Mag(a, 0) = 0 /\ Mag(b, 0) = 0 /\ Weight(0) \in Nat
    BY <1>2, MagStep, WeightStep
  <2> QED  BY <1>1, <2>1
<1>6. \A i \in 1 .. n : i - 1 \in P => i \in P
  <2> SUFFICES ASSUME NEW i \in 1 .. n, i - 1 \in P PROVE i \in P
    OBVIOUS
  <2> DEFINE k == i - 1
             v == WordAt(a, i)
             w == WordAt(b, i)
             x == WordAt(z, i)
             c == borrow[k]
             d == borrow[i]
             u == Weight(k)
  <2>1. k \in Nat /\ k \in 0 .. n /\ i = k + 1 /\ i \in 0 .. n
    BY <1>1
  <2>2. /\ v \in Word /\ w \in Word /\ x \in Word
        /\ Mag(z, k) \in Nat /\ Mag(a, k) \in Nat /\ Mag(b, k) \in Nat
        /\ Mag(z, i) = Mag(z, k) + x * u
        /\ Mag(a, i) = Mag(a, k) + v * u
        /\ Mag(b, i) = Mag(b, k) + w * u
    <3> HIDE DEF k
    <3> QED  BY <1>2, <2>1, MagStep
  <2>3. u \in Nat /\ Weight(i) = WordBase * u
    <3> HIDE DEF k
    <3> QED  BY <2>1, WeightStep
  <2>4. c \in {0, 1} /\ d \in {0, 1} /\ d = BorrowOf(v, w, c) /\ ~ (w = MaxWord /\ c = 1)
    BY <1>1, <1>4, <2>1
  <2>5. x = DifferenceWord(v, w, c)
    BY <1>2 DEF WordAt
  <2>6. Mag(z, k) - c * u = Mag(a, k) - Mag(b, k)
    OBVIOUS
  <2> HIDE DEF k, v, w, x, c, d, u, P
  <2>7. x - d * WordBase = v - w - c
    BY <2>2, <2>4, <2>5, SubtractedWord
  <2>8. v \in Int /\ w \in Int /\ x \in Int /\ c \in Int /\ d \in Int /\ WordBase \in Nat
    BY <2>2, <2>4, WordBaseType DEF Word
  <2>9. (Mag(z, k) + x * u) - d * (WordBase * u) = (Mag(a, k) + v * u) - (Mag(b, k) + w * u)
    <3> DEFINE r == Mag(z, k)
               p == Mag(a, k)
               q == Mag(b, k)
               B == WordBase
    <3>1. r \in Int /\ p \in Int /\ q \in Int /\ B \in Nat /\ r - c * u = p - q
      BY <2>2, <2>6, <2>8
    <3>2. x - d * B = v - w - c
      BY <2>7
    <3> HIDE DEF r, p, q, B
    <3>3. (r + x * u) - d * (B * u) = (p + v * u) - (q + w * u)
      BY <2>3, <2>8, <3>1, <3>2, SubtractedDigit
    <3> QED  BY <3>3 DEF r, p, q, B
  <2>10. Mag(z, i) - d * Weight(i) = Mag(a, i) - Mag(b, i)
    BY <2>2, <2>3, <2>9
  <2> QED  BY <2>1, <2>10 DEF P, d
<1> HIDE DEF P
<1>7. \A i \in 0 .. n : i \in P
  BY <1>1, <1>5, <1>6, CountingUp
<1>8. n \in P
  BY <1>1, <1>7
<1>9. Mag(z, n) = Magnitude(z) /\ Mag(a, n) = Magnitude(a) /\ Mag(b, n) = Magnitude(b)
  BY <1>1, <1>2, <1>3, MagStep
<1>10. Magnitude(z) - s.borrow * Weight(n) = Magnitude(a) - Magnitude(b)
  BY <1>2, <1>8, <1>9 DEF P
<1> QED  BY <1>10 DEF z, s, n

\* The magnitude of words is a natural number, and less than their weight.
LEMMA MagnitudeType ==
  ASSUME NEW x \in Seq(Word), NEW n \in Nat, n >= Len(x)
  PROVE  Magnitude(x) \in Nat /\ Magnitude(x) < Weight(n) /\ Magnitude(x) = Mag(x, n)
         /\ Weight(n) \in Nat
  BY MagStep, WeightStep

\* The words that BigIntSub and BigIntAdd take for a difference of operands that
\* have their words denote the greater magnitude less the smaller one, if no
\* borrow is lost.
DifferenceOfWords(a, b) ==
  LET d == SubtractedWords(a, b)
  IN  IF d.borrow = 0 THEN d.words ELSE SubtractedWords(<<0>>, d.words).words

LEMMA DifferenceOfWordsExact ==
  ASSUME NEW a \in Seq(Word), NEW b \in Seq(Word), a # <<>>, DifferenceKept(a, b)
  PROVE  LET p == Magnitude(a)
             q == Magnitude(b)
         IN  Magnitude(DifferenceOfWords(a, b)) = IF p >= q THEN p - q ELSE q - p
<1> DEFINE n == Longer(Len(a), Len(b))
           d == SubtractedWords(a, b)
           o == <<0>>
           e == SubtractedWords(o, d.words)
           p == Magnitude(a)
           q == Magnitude(b)
           x == Magnitude(d.words)
           y == Magnitude(e.words)
           W == Weight(n)
<1>1. /\ d.words \in Seq(Word) /\ Len(d.words) = n /\ d.borrow \in {0, 1}
  BY DifferenceType
<1>2. Len(a) \in Nat /\ Len(b) \in Nat /\ Len(a) > 0
  BY LengthOfWords
<1>3. n \in Nat /\ n >= Len(a) /\ n >= Len(b) /\ n >= 1
  <2> DEFINE la == Len(a)
             lb == Len(b)
  <2>1. la \in Nat /\ lb \in Nat /\ la > 0
    BY <1>2
  <2> HIDE DEF la, lb
  <2>2. Longer(la, lb) \in Nat /\ Longer(la, lb) >= la /\ Longer(la, lb) >= lb
    BY <2>1, LongerType
  <2>3. Longer(la, lb) >= 1
    BY <2>1, <2>2
  <2> QED  BY <2>2, <2>3 DEF la, lb
<1>4. ~ LosesBorrow(a, b) /\ (d.borrow = 1 => ~ LosesBorrow(o, d.words))
  BY DEF DifferenceKept
<1>5. DifferenceOfWords(a, b) = IF d.borrow = 0 THEN d.words ELSE e.words
  BY DEF DifferenceOfWords
<1>6. x - d.borrow * W = p - q
  BY <1>4, SubExact
<1>7. o \in Seq(Word) /\ Len(o) = 1
  <2>1. 0 \in Word  BY WordBaseType DEF Word
  <2> HIDE DEF Word
  <2> QED  BY <2>1
<1>8. /\ p \in Nat /\ q \in Nat /\ x \in Nat /\ W \in Nat
      /\ p < W /\ q < W /\ x < W
  <2> HIDE DEF n, d, Word
  <2>1. n >= Len(d.words)
    BY <1>1, <1>3
  <2> QED  BY <1>1, <1>3, <2>1, MagnitudeType
<1>9. CASE d.borrow = 0
  <2>1. Magnitude(DifferenceOfWords(a, b)) = x
    BY <1>5, <1>9
  <2> HIDE DEF x, p, q, W, d
  <2>2. x = p - q /\ p >= q
    BY <1>6, <1>8, <1>9
  <2> QED  BY <2>1, <2>2 DEF p, q
<1>10. CASE d.borrow = 1
  <2> DEFINE w == d.words
             f == e.borrow
  <2>1. w \in Seq(Word) /\ Len(w) = n /\ ~ LosesBorrow(o, w)
    BY <1>1, <1>4, <1>10
  <2>2. Longer(Len(o), Len(w)) = n
    <3> HIDE DEF o, w, n
    <3> QED  BY <1>3, <1>7, <2>1 DEF Longer
  <2>3. Magnitude(o) = 0
    <3>1. Mag(o, 0) = 0 /\ Mag(o, 0 + 1) = Mag(o, 0) + WordAt(o, 0 + 1) * Weight(0)
      BY <1>7, MagStep
    <3>2. WordAt(o, 1) = 0 /\ Weight(0) \in Nat
      BY WeightStep DEF WordAt
    <3>3. Mag(o, 1) = 0
      BY <3>1, <3>2
    <3>4. Magnitude(o) = Mag(o, 1)
      <4>1. 1 \in Nat /\ 1 >= Len(o)
        BY <1>7
      <4> HIDE DEF o, Word
      <4> QED  BY <1>7, <4>1, MagnitudeType
    <3> QED  BY <3>3, <3>4
  <2>4. y - f * W = 0 - x
    <3>1. LET s == SubtractedWords(o, w)
          IN  Magnitude(s.words) - s.borrow * Weight(Longer(Len(o), Len(w))) =
                Magnitude(o) - Magnitude(w)
      <4> HIDE DEF o, w
      <4> QED  BY <1>7, <2>1, SubExact
    <3> HIDE DEF n
    <3> QED  BY <2>2, <2>3, <3>1
  <2>5. f \in {0, 1} /\ y \in Nat
    <3> DEFINE s == SubtractedWords(o, w)
    <3>1. s.words \in Seq(Word) /\ Len(s.words) = Longer(Len(o), Len(w)) /\ s.borrow \in {0, 1}
      <4> HIDE DEF o, w
      <4> QED  BY <1>7, <2>1, DifferenceType
    <3>2. n >= Len(s.words)
      <4> HIDE DEF n, s
      <4> QED  BY <1>3, <2>2, <3>1
    <3>3. Magnitude(s.words) \in Nat
      <4> HIDE DEF n, s
      <4> QED  BY <1>3, <3>1, <3>2, MagnitudeType
    <3> QED  BY <3>1, <3>3
  <2>6. Magnitude(DifferenceOfWords(a, b)) = y
    BY <1>5, <1>10
  <2> HIDE DEF x, p, q, W, d, y, f
  <2>7. x - W = p - q
    BY <1>6, <1>8, <1>10
  <2>8. x > 0 /\ q > p
    BY <1>8, <2>7
  <2>9. f = 1
    BY <1>8, <2>4, <2>5, <2>8
  <2>10. y = q - p
    BY <1>8, <2>4, <2>5, <2>7, <2>9
  <2>11. ~ (p >= q)
    BY <1>8, <2>8
  <2> QED  BY <2>6, <2>10, <2>11 DEF p, q
<1> QED  BY <1>1, <1>9, <1>10

\* The number that is greater in the highest word in which two differ is the
\* greater one.
LEMMA TopDecides ==
  ASSUME NEW a \in Seq(Word), NEW b \in Seq(Word), NEW n \in Nat, NEW t \in 1 .. n,
         n >= Len(a), n >= Len(b), WordAt(a, t) > WordAt(b, t),
         \A i \in 1 .. n : i > t => WordAt(a, i) = WordAt(b, i)
  PROVE  Magnitude(a) > Magnitude(b)
<1> DEFINE P == {j \in 0 .. n - t : Mag(a, t + j) > Mag(b, t + j)}
<1>1. n - t \in Nat /\ t + (n - t) = n /\ n - t \in 0 .. n - t
  OBVIOUS
<1>2. 0 \in P
  <2> DEFINE k == t - 1
             u == Weight(k)
             v == WordAt(a, t)
             w == WordAt(b, t)
             x == Mag(a, k)
             y == Mag(b, k)
  <2>1. k \in Nat /\ t = k + 1 /\ t + 0 = t
    OBVIOUS
  <2>2. /\ v \in Word /\ w \in Word /\ x \in Nat /\ y \in Nat /\ y < u
        /\ Mag(a, t) = x + v * u /\ Mag(b, t) = y + w * u
    <3> HIDE DEF k
    <3> QED  BY <2>1, MagStep
  <2>3. u \in Nat
    <3> HIDE DEF k
    <3> QED  BY <2>1, WeightStep
  <2>4. v \in Nat /\ w \in Nat /\ v >= w + 1
    BY <2>2, WordBaseType DEF Word
  <2> HIDE DEF k, u, v, w, x, y
  <2>5. v * u >= (w + 1) * u
    BY <2>3, <2>4
  <2>6. (w + 1) * u = w * u + u
    BY <2>3, <2>4
  <2> DEFINE vu == v * u
             wu == w * u
  <2>7. vu \in Nat /\ wu \in Nat /\ vu >= wu + u
    <3>1. v * u \in Nat /\ w * u \in Nat
      BY <2>3, <2>4
    <3> QED  BY <2>5, <2>6, <3>1
  <2>8. Mag(a, t) = x + vu /\ Mag(b, t) = y + wu
    BY <2>2
  <2> HIDE DEF vu, wu
  <2>9. Mag(a, t) > Mag(b, t)
    BY <2>2, <2>3, <2>7, <2>8
  <2> QED  BY <1>1, <2>1, <2>9
<1>3. \A j \in 1 .. n - t : j - 1 \in P => j \in P
  <2> SUFFICES ASSUME NEW j \in 1 .. n - t, j - 1 \in P PROVE j \in P
    OBVIOUS
  <2> DEFINE k == t + (j - 1)
             u == Weight(k)
             v == WordAt(a, k + 1)
             x == Mag(a, k)
             y == Mag(b, k)
  <2>1. k \in Nat /\ t + j = k + 1 /\ k + 1 \in 1 .. n /\ k + 1 > t
    BY <1>1
  <2>2. WordAt(b, k + 1) = v
    BY <2>1
  <2>3. /\ v \in Word /\ x \in Nat /\ y \in Nat
        /\ Mag(a, k + 1) = x + v * u /\ Mag(b, k + 1) = y + v * u
    <3> HIDE DEF k
    <3> QED  BY <2>1, <2>2, MagStep
  <2>4. u \in Nat /\ v \in Nat
    <3>1. v \in Nat  BY <2>3, WordBaseType DEF Word
    <3> HIDE DEF k
    <3> QED  BY <2>1, <3>1, WeightStep
  <2>5. x > y
    OBVIOUS
  <2>6. Mag(a, k + 1) > Mag(b, k + 1)
    <3> HIDE DEF k, u, v, x, y
    <3> DEFINE m == v * u
    <3>1. m \in Nat  BY <2>4
    <3>2. Mag(a, k + 1) = x + m /\ Mag(b, k + 1) = y + m  BY <2>3
    <3> HIDE DEF m
    <3> QED  BY <2>3, <2>5, <3>1, <3>2
  <2> QED  BY <2>1, <2>6
<1> HIDE DEF P
<1>4. \A j \in 0 .. n - t : j \in P
  BY <1>1, <1>2, <1>3, CountingUp
<1>5. Mag(a, n) > Mag(b, n)
  BY <1>1, <1>4 DEF P
<1>6. Magnitude(a) = Mag(a, n) /\ Magnitude(b) = Mag(b, n)
  <2> HIDE DEF Word
  <2> QED  BY MagnitudeType
<1> QED  BY <1>5, <1>6

\* ComparedWords orders the magnitudes.
LEMMA CompareExact ==
  ASSUME NEW a \in Seq(Word), NEW b \in Seq(Word)
  PROVE  LET p == Magnitude(a)
             q == Magnitude(b)
         IN  /\ p \in Nat /\ q \in Nat
             /\ ComparedWords(a, b) = IF p < q THEN -1 ELSE IF p > q THEN 1 ELSE 0
<1> DEFINE n == Longer(Len(a), Len(b))
           p == Magnitude(a)
           q == Magnitude(b)
           differ == {i \in 1 .. n : WordAt(a, i) # WordAt(b, i)}
           top == CHOOSE i \in differ : \A j \in differ : j <= i
<1>1. n \in Nat /\ n >= Len(a) /\ n >= Len(b)
  <2> HIDE DEF Word
  <2>1. Len(a) \in Nat /\ Len(b) \in Nat  OBVIOUS
  <2> QED  BY <2>1, LongerType
<1>2. ComparedWords(a, b) = IF differ = {} THEN 0
                        ELSE IF WordAt(a, top) > WordAt(b, top) THEN 1 ELSE -1
  BY DEF ComparedWords
<1> HIDE DEF n
<1>3. p \in Nat /\ q \in Nat /\ p = Mag(a, n) /\ q = Mag(b, n)
  <2> HIDE DEF Word
  <2> QED  BY <1>1, MagnitudeType
<1>4. CASE differ = {}
  <2>1. \A i \in 1 .. n : WordAt(a, i) = WordAt(b, i)
    BY <1>4
  <2>2. Mag(a, n) = Mag(b, n)
    <3>1. WordBase \in Nat /\ a \in Seq(Nat) /\ b \in Seq(Nat)
      BY WordBaseType, WordsAreDigits
    <3> QED  BY <1>1, <2>1, <3>1, LowSame DEF Mag
  <2>3. ComparedWords(a, b) = 0
    BY <1>2, <1>4
  <2> HIDE DEF p, q
  <2> QED  BY <1>3, <2>2, <2>3 DEF p, q
<1>5. CASE differ # {}
  <2>1. \E i \in differ : \A j \in differ : j <= i
    <3>1. differ \subseteq 1 .. n  OBVIOUS
    <3> HIDE DEF differ
    <3> QED  BY <1>1, <1>5, <3>1, GreatestExists
  <2>2. top \in differ /\ \A j \in differ : j <= top
    <3> HIDE DEF differ
    <3> QED  BY <2>1
  <2> HIDE DEF top
  <2> DEFINE v == WordAt(a, top)
             w == WordAt(b, top)
  <2>3. top \in 1 .. n /\ v # w /\ \A i \in 1 .. n : i > top => WordAt(a, i) = WordAt(b, i)
    BY <2>2
  <2>4. v \in Nat /\ w \in Nat
    <3>1. top \in Nat \ {0}  BY <1>1, <2>3
    <3>2. v \in Word /\ w \in Word  BY <3>1, WordAtType
    <3> QED  BY <3>2, WordBaseType DEF Word
  <2>5. ComparedWords(a, b) = IF v > w THEN 1 ELSE -1
    BY <1>2, <1>5
  <2>6. v > w => p > q
    <3> HIDE DEF Word
    <3> QED  BY <1>1, <2>3, TopDecides
  <2>7. w > v => q > p
    <3> HIDE DEF Word
    <3> QED  BY <1>1, <2>3, TopDecides
  <2> HIDE DEF v, w, p, q
  <2>8. ComparedWords(a, b) = IF p < q THEN -1 ELSE IF p > q THEN 1 ELSE 0
    BY <1>3, <2>3, <2>4, <2>5, <2>6, <2>7
  <2> QED  BY <1>3, <2>8 DEF p, q
<1> QED  BY <1>4, <1>5

\* Words that are all zero denote zero, and the words of a number other than
\* zero at the top denote more.
LEMMA ZeroWords ==
  ASSUME NEW x \in Seq(Word)
  PROVE  /\ (\A i \in 1 .. Len(x) : x[i] = 0) <=> Magnitude(x) = 0
         /\ x # <<>> /\ x[Len(x)] # 0 => Magnitude(x) > 0
<1> DEFINE n == Len(x)
<1>1. n \in Nat /\ (x # <<>> => n > 0)
  <2> HIDE DEF Word
  <2> QED  OBVIOUS
<1>2. \A i \in 1 .. n : WordAt(x, i) = x[i] /\ x[i] \in Nat
  <2>1. \A i \in 1 .. n : x[i] \in Word  OBVIOUS
  <2> QED  BY <1>1, <2>1, WordBaseType DEF WordAt, Word
<1>3. x \in Seq(Nat) /\ WordBase \in Nat
  BY WordBaseType, WordsAreDigits
<1>4. Magnitude(x) = Mag(x, n) /\ Magnitude(x) \in Nat
  <2>1. n >= Len(x)  BY <1>1
  <2> HIDE DEF Word, n
  <2> QED  BY <1>1, <2>1, MagnitudeType
<1> HIDE DEF n
<1>5. ASSUME \A i \in 1 .. n : x[i] = 0 PROVE Magnitude(x) = 0
  <2>1. \A i \in 0 + 1 .. n : WordAt(x, i) = 0
    BY <1>1, <1>2, <1>5
  <2>2. Low(x, n, WordBase) = Low(x, 0, WordBase)
    BY <1>1, <1>3, <2>1, LowZeros
  <2>3. Low(x, 0, WordBase) = 0
    BY <1>3, LowStep
  <2> QED  BY <1>4, <2>2, <2>3 DEF Mag
<1>6. ASSUME NEW i \in 1 .. n, x[i] # 0 PROVE Magnitude(x) > 0
  <2> DEFINE P == {j \in 0 .. n : j >= i => Mag(x, j) > 0}
  <2>1. 0 \in P
    BY <1>1
  <2>2. \A j \in 1 .. n : j - 1 \in P => j \in P
    <3> SUFFICES ASSUME NEW j \in 1 .. n, j - 1 \in P, j >= i PROVE Mag(x, j) > 0
      BY <1>1
    <3> DEFINE k == j - 1
               u == Weight(k)
               w == x[j]
               m == Mag(x, k)
    <3>1. k \in Nat /\ j = k + 1
      BY <1>1
    <3>2. m \in Nat /\ Mag(x, j) = m + w * u /\ u \in Nat /\ u > 0 /\ w \in Nat
      <4>1. w = WordAt(x, k + 1) /\ w \in Nat
        BY <1>2, <3>1
      <4> HIDE DEF k, w
      <4> QED  BY <3>1, <4>1, MagStep, WeightStep
    <3>3. CASE j = i
      <4>1. w > 0
        BY <1>6, <3>2, <3>3
      <4> HIDE DEF w, u, m, k
      <4>2. w * u > 0
        BY <3>2, <4>1
      <4>3. w * u \in Nat
        BY <3>2
      <4> QED  BY <3>2, <4>2, <4>3
    <3>4. CASE j # i
      <4>1. k >= i
        BY <1>1, <3>1, <3>4
      <4>2. m > 0
        BY <4>1
      <4> HIDE DEF w, u, m, k
      <4>3. w * u \in Nat
        BY <3>2
      <4> QED  BY <3>2, <4>2, <4>3
    <3> QED  BY <3>3, <3>4
  <2> HIDE DEF P
  <2>3. \A j \in 0 .. n : j \in P
    BY <1>1, <2>1, <2>2, CountingUp
  <2>4. Mag(x, n) > 0
    <3>1. n \in P /\ n >= i
      BY <1>1, <2>3
    <3> QED  BY <3>1 DEF P
  <2> QED  BY <1>4, <2>4
<1>7. x # <<>> => n \in 1 .. n
  BY <1>1
<1>8. ~ (\A i \in 1 .. n : x[i] = 0) => Magnitude(x) > 0
  BY <1>6
<1>9. x # <<>> /\ x[n] # 0 => Magnitude(x) > 0
  BY <1>6, <1>7
<1> QED  BY <1>4, <1>5, <1>8, <1>9 DEF n

\* Truncating takes nothing from the magnitude, and leaves a number other than
\* zero without a zero at the top.
LEMMA TruncatedExact ==
  ASSUME NEW s \in Seq(Word), s # <<>>
  PROVE  LET t == Truncated(s)
         IN  /\ t \in Seq(Word) /\ t # <<>>
             /\ Magnitude(t) = Magnitude(s)
             /\ Magnitude(s) # 0 => t[Len(t)] # 0
<1> DEFINE t == Truncated(s)
           k == Len(t)
           n == Len(s)
<1>1. /\ t \in Seq(Word) /\ t # <<>> /\ k \in 1 .. n
      /\ \A i \in 1 .. k : t[i] = s[i]
      /\ \/ (\A i \in 1 .. n : s[i] = 0) /\ t = s
         \/ (\A i \in 1 .. n : i > k => s[i] = 0) /\ s[k] # 0
  BY TruncatedType
<1>2. n \in Nat /\ k \in Nat /\ k >= 1 /\ n >= k
  <2>1. n \in Nat
    <3> HIDE DEF Word
    <3> QED  OBVIOUS
  <2> HIDE DEF n, k
  <2> QED  BY <1>1, <2>1
<1>3. CASE (\A i \in 1 .. n : s[i] = 0) /\ t = s
  <2>1. Magnitude(s) = 0
    BY <1>3, ZeroWords
  <2> QED  BY <1>1, <1>3, <2>1
<1>4. CASE (\A i \in 1 .. n : i > k => s[i] = 0) /\ s[k] # 0
  <2>1. t[k] # 0
    <3>1. k \in 1 .. k  BY <1>2
    <3> QED  BY <1>1, <1>4, <3>1
  <2>2. s \in Seq(Nat) /\ t \in Seq(Nat) /\ WordBase \in Nat
    <3> HIDE DEF t
    <3> QED  BY <1>1, WordBaseType, WordsAreDigits
  <2>3. \A i \in k + 1 .. n : WordAt(s, i) = 0
    BY <1>2, <1>4 DEF WordAt
  <2>4. Low(s, n, WordBase) = Low(s, k, WordBase)
    <3> HIDE DEF k, n, t
    <3> QED  BY <1>2, <2>2, <2>3, LowZeros
  <2>5. \A i \in 1 .. k : WordAt(s, i) = WordAt(t, i)
    BY <1>1, <1>2 DEF WordAt
  <2>6. Low(s, k, WordBase) = Low(t, k, WordBase)
    <3> HIDE DEF k, n, t
    <3> QED  BY <1>2, <2>2, <2>5, LowSame
  <2>7. Magnitude(s) = Mag(s, n) /\ Magnitude(t) = Mag(t, k)
    <3>1. n >= Len(s) /\ k >= Len(t)  BY <1>2
    <3> HIDE DEF k, n, t, Word
    <3> QED  BY <1>1, <1>2, <3>1, MagnitudeType
  <2>8. Magnitude(t) = Magnitude(s)
    BY <2>4, <2>6, <2>7 DEF Mag
  <2> HIDE DEF Word
  <2> QED  BY <1>1, <2>1, <2>8
<1> QED  BY <1>1, <1>3, <1>4

\* A row of a multiplication adds digit * a, at its place, to a number that has
\* no words there yet beyond those of a.
LEMMA RowExact ==
  ASSUME NEW z \in Seq(Word), NEW a \in Seq(Word), NEW digit \in Word, NEW i \in Nat,
         i + Len(a) + 1 <= Len(z),
         \A k \in 1 .. Len(z) : k > i + Len(a) => z[k] = 0
  PROVE  LET r == MulRow(z, a, digit, i)
         IN  /\ Magnitude(r) = Magnitude(z) + (digit * Magnitude(a)) * Weight(i)
             /\ \A k \in 1 .. Len(z) : k > i + Len(a) + 1 => r[k] = 0
<1> DEFINE r == MulRow(z, a, digit, i)
           m == Len(a)
           l == Len(z)
           B == WordBase
<1>1. m \in Nat /\ l \in Nat
  <2> HIDE DEF Word
  <2> QED  OBVIOUS
<1>2. r \in Seq(Word) /\ Len(r) = l /\ \E f : DoubleWords(f, z, a, digit, i, r)
  BY RowIs
<1>3. PICK uv :
           /\ uv[0] = 0
           /\ \A j \in 0 .. m : uv[j] \in Nat /\ uv[j] \div B \in Word
           /\ \A j \in 1 .. m : uv[j] = z[i + j] + a[j] * digit + (uv[j - 1] \div B)
           /\ \A k \in 1 .. l : r[k] =
                 IF k \in i + 1 .. i + m THEN uv[k - i] % B
                 ELSE IF k = i + m + 1 THEN uv[m] \div B ELSE z[k]
  <2>1. PICK f : DoubleWords(f, z, a, digit, i, r)
    BY <1>2
  <2> HIDE DEF r
  <2> WITNESS f
  <2> QED  BY <2>1 DEF DoubleWords
<1>4. /\ \A k \in 1 .. l : k <= i => r[k] = z[k]
      /\ \A k \in 1 .. l : k \in i + 1 .. i + m => r[k] = uv[k - i] % B
      /\ \A k \in 1 .. l : k = i + m + 1 => r[k] = uv[m] \div B
      /\ \A k \in 1 .. l : k > i + m + 1 => r[k] = z[k]
  <2> HIDE DEF r, m, l, B
  <2> QED  BY <1>1, <1>3
<1>5. B \in Nat /\ B > 1 /\ Word = 0 .. B - 1
  BY WordBaseType DEF Word
<1>6. i + m + 1 <= l /\ \A k \in 1 .. l : k > i + m => z[k] = 0
  OBVIOUS
<1>7. z \in Seq(Nat) /\ a \in Seq(Nat) /\ r \in Seq(Nat)
  <2> HIDE DEF r
  <2> QED  BY <1>2, WordsAreDigits
<1>8. /\ \A k \in 1 .. l : WordAt(z, k) = z[k] /\ WordAt(r, k) = r[k]
      /\ \A k \in 1 .. m : WordAt(a, k) = a[k]
  <2> HIDE DEF r
  <2> QED  BY <1>1, <1>2 DEF WordAt
<1>9. Magnitude(z) = Mag(z, l) /\ Magnitude(r) = Mag(r, l) /\ Magnitude(a) = Mag(a, m)
      /\ Magnitude(a) \in Nat /\ digit \in Nat
  <2>1. l >= Len(z) /\ l >= Len(r) /\ m >= Len(a)
    BY <1>1, <1>2
  <2>2. digit \in Nat
    BY <1>5
  <2> HIDE DEF r, l, m, Word
  <2> QED  BY <1>1, <1>2, <2>1, <2>2, MagnitudeType
<1> HIDE DEF r, l, m, B
<1> DEFINE c(j) == uv[j] \div B
           P == {j \in 0 .. m : Mag(r, i + j) + c(j) * Weight(i + j)
                                  = Mag(z, i + j) + (digit * Mag(a, j)) * Weight(i)}
<1>10. 0 \in P
  <2>1. i + 0 = i /\ 0 \in 0 .. m
    BY <1>1
  <2>2. c(0) = 0
    <3>1. 0 = 0 * B + 0 /\ 0 \in 0 .. B - 1  BY <1>5
    <3>2. 0 \div B = 0  BY <1>5, <3>1, Division
    <3> QED  BY <1>3, <3>2
  <2>3. Mag(a, 0) = 0 /\ Weight(i) \in Nat /\ Mag(z, i) \in Nat
    BY MagStep, WeightStep
  <2>4. Mag(r, i) = Mag(z, i)
    <3>1. \A k \in 1 .. i : WordAt(r, k) = WordAt(z, k)
      BY <1>1, <1>4, <1>6, <1>8
    <3>2. WordBase \in Nat  BY WordBaseType
    <3> QED  BY <1>7, <3>1, <3>2, LowSame DEF Mag
  <2> HIDE DEF c
  <2>5. Mag(r, i) + c(0) * Weight(i) = Mag(z, i) + (digit * Mag(a, 0)) * Weight(i)
    BY <1>9, <2>2, <2>3, <2>4
  <2> QED  BY <2>1, <2>5
<1>11. \A j \in 1 .. m : j - 1 \in P => j \in P
  <2> SUFFICES ASSUME NEW j \in 1 .. m, j - 1 \in P PROVE j \in P
    OBVIOUS
  <2> DEFINE k == j - 1
             t == i + k
             g == Weight(i)
             h == Weight(k)
             w == z[i + j]
             v == a[j]
             s == r[i + j]
  <2>1. /\ k \in Nat /\ k \in 0 .. m /\ j = k + 1 /\ t \in Nat /\ i + j = t + 1
        /\ j \in 0 .. m /\ i + j \in 1 .. l /\ i + j \in i + 1 .. i + m /\ (i + j) - i = j
    BY <1>1, <1>6
  <2>2. /\ g \in Nat /\ h \in Nat /\ Weight(t) = g * h /\ Weight(i + j) = B * (g * h)
    <3>1. WordBase \in Nat  BY WordBaseType
    <3> HIDE DEF k
    <3>2. Weight(i) \in Nat /\ Weight(k) \in Nat /\ Weight(i + k) = Weight(i) * Weight(k)
      BY <2>1, <3>1, PowerSum, WeightStep DEF Weight
    <3>3. Weight(t + 1) = WordBase * Weight(t)
      BY <2>1, WeightStep
    <3> QED  BY <2>1, <3>2, <3>3 DEF B
  <2>3. /\ w \in Word /\ v \in Word /\ s \in Word
        /\ Mag(z, t) \in Nat /\ Mag(r, t) \in Nat /\ Mag(a, k) \in Nat
        /\ Mag(z, i + j) = Mag(z, t) + w * (g * h)
        /\ Mag(r, i + j) = Mag(r, t) + s * (g * h)
        /\ Mag(a, j) = Mag(a, k) + v * h
    <3>1. WordAt(z, t + 1) = w /\ WordAt(r, t + 1) = s /\ WordAt(a, k + 1) = v
      BY <1>8, <2>1
    <3> HIDE DEF k, t, w, v, s
    <3>2. /\ w \in Word /\ s \in Word /\ Mag(z, t) \in Nat /\ Mag(r, t) \in Nat
          /\ Mag(z, t + 1) = Mag(z, t) + w * Weight(t)
          /\ Mag(r, t + 1) = Mag(r, t) + s * Weight(t)
      BY <1>2, <2>1, <3>1, MagStep
    <3>3. v \in Word /\ Mag(a, k) \in Nat /\ Mag(a, k + 1) = Mag(a, k) + v * Weight(k)
      BY <2>1, <3>1, MagStep
    <3> QED  BY <2>1, <2>2, <3>2, <3>3
  <2>4. c(k) \in Word /\ c(j) \in Word /\ uv[j] \in Nat
    BY <1>3, <2>1
  <2>5. s + c(j) * B = w + v * digit + c(k)
    <3>1. uv[j] = w + v * digit + c(k)
      BY <1>3, <2>1
    <3>2. s = uv[j] % B
      BY <1>4, <2>1
    <3> DEFINE y == uv[j]
    <3>3. y \in Nat
      BY <2>4
    <3> HIDE DEF y
    <3>4. (y % B) + (y \div B) * B = y
      BY <1>5, <3>3
    <3> QED  BY <3>1, <3>2, <3>4 DEF y
  <2>6. Mag(r, t) + c(k) * (g * h) = Mag(z, t) + (digit * Mag(a, k)) * g
    <3>1. Mag(r, i + k) + c(k) * Weight(i + k) = Mag(z, i + k) + (digit * Mag(a, k)) * Weight(i)
      OBVIOUS
    <3> QED  BY <2>2, <3>1
  <2> DEFINE e == c(k)
             d == c(j)
             p == Mag(a, k)
             q == Mag(z, t)
             o == Mag(r, t)
  <2>7. /\ o + e * (g * h) = q + (digit * p) * g
        /\ s + d * B = w + v * digit + e
    BY <2>5, <2>6
  <2>8. /\ B \in Nat /\ digit \in Nat /\ p \in Nat /\ q \in Nat /\ o \in Nat
        /\ v \in Nat /\ w \in Nat /\ s \in Nat /\ e \in Nat /\ d \in Nat
    <3> HIDE DEF c, v, w, s
    <3> QED  BY <1>5, <1>9, <2>3, <2>4
  <2> HIDE DEF c, e, d, p, q, o, g, h, v, w, s, P, k, t
  <2>9. (o + s * (g * h)) + d * (B * (g * h)) = (q + w * (g * h)) + (digit * (p + v * h)) * g
    <3> DEFINE u == g * h
               vd == v * digit
               dpg == (digit * p) * g
    <3>1. u \in Nat /\ vd \in Nat /\ dpg \in Nat
      BY <2>2, <2>8
    <3>2. (digit * (p + v * h)) * g = dpg + vd * u
      BY <2>2, <2>8
    <3>3. o + e * u = q + dpg /\ s = w + vd + e - d * B
      BY <2>7, <2>8, <3>1
    <3> HIDE DEF u, vd, dpg
    <3>4. s * u = w * u + vd * u + e * u - d * (B * u)
      <4>1. s * u = (w + vd + e - d * B) * u
        BY <3>3
      <4>2. (w + vd + e - d * B) * u = w * u + vd * u + e * u - d * (B * u)
        BY <2>8, <3>1
      <4> QED  BY <4>1, <4>2
    <3> DEFINE su == s * u
               wu == w * u
               vdu == vd * u
               eu == e * u
               dbu == d * (B * u)
    <3>5. su \in Int /\ wu \in Int /\ vdu \in Int /\ eu \in Int /\ dbu \in Int
      BY <2>8, <3>1
    <3>6. su = wu + vdu + eu - dbu /\ o + eu = q + dpg
      BY <3>3, <3>4
    <3> HIDE DEF su, wu, vdu, eu, dbu
    <3>7. (o + su) + dbu = (q + wu) + (dpg + vdu)
      BY <2>8, <3>1, <3>5, <3>6
    <3> QED  BY <3>2, <3>7 DEF su, wu, vdu, dbu, u
  <2>10. Mag(r, i + j) = o + s * (g * h) /\ Mag(z, i + j) = q + w * (g * h) /\ Mag(a, j) = p + v * h
    BY <2>3 DEF o, q, p
  <2>11. Mag(r, i + j) + c(j) * Weight(i + j) = Mag(z, i + j) + (digit * Mag(a, j)) * Weight(i)
    BY <2>2, <2>9, <2>10 DEF d, g
  <2> QED  BY <2>1, <2>11 DEF P
<1> HIDE DEF P
<1>12. \A j \in 0 .. m : j \in P
  BY <1>1, <1>10, <1>11, CountingUp
<1> DEFINE t == i + m
<1>13. t \in Nat /\ t + 1 \in 1 .. l /\ t <= l /\ t + 1 <= l /\ m \in 0 .. m
  BY <1>1, <1>6
<1>14. Mag(r, t) + c(m) * Weight(t) = Mag(z, t) + (digit * Mag(a, m)) * Weight(i)
  BY <1>12, <1>13 DEF P
<1>15. Mag(r, t + 1) = Mag(r, t) + c(m) * Weight(t)
  <2>1. WordAt(r, t + 1) = c(m)
    BY <1>4, <1>8, <1>13
  <2> HIDE DEF t, c
  <2> QED  BY <1>2, <1>13, <2>1, MagStep
<1>16. WordBase \in Nat
  BY WordBaseType
<1>17. Mag(r, l) = Mag(r, t + 1)
  <2>1. \A k \in (t + 1) + 1 .. l : WordAt(r, k) = 0
    BY <1>1, <1>4, <1>6, <1>8, <1>13
  <2> HIDE DEF t
  <2> QED  BY <1>1, <1>7, <1>13, <1>16, <2>1, LowZeros DEF Mag
<1>18. Mag(z, l) = Mag(z, t)
  <2>1. \A k \in t + 1 .. l : WordAt(z, k) = 0
    BY <1>1, <1>6, <1>8, <1>13
  <2> HIDE DEF t
  <2> QED  BY <1>1, <1>7, <1>13, <1>16, <2>1, LowZeros DEF Mag
<1>19. Magnitude(r) = Magnitude(z) + (digit * Magnitude(a)) * Weight(i)
  BY <1>9, <1>14, <1>15, <1>17, <1>18
<1>20. \A k \in 1 .. l : k > i + m + 1 => r[k] = 0
  BY <1>1, <1>4, <1>6
<1> QED  BY <1>19, <1>20 DEF r, l, m

\* MultipliedWords gives the product of the magnitudes.
LEMMA MulExact ==
  ASSUME NEW a \in Seq(Word), NEW b \in Seq(Word)
  PROVE  Magnitude(MultipliedWords(a, b)) = Magnitude(a) * Magnitude(b)
<1> DEFINE m == Len(a)
           n == Len(b)
           x == Magnitude(a)
<1>1. m \in Nat /\ n \in Nat
  <2> HIDE DEF Word
  <2> QED  OBVIOUS
<1>2. PICK z :
        /\ z[0] = Zeros(m + n)
        /\ \A i \in 0 .. n : z[i] \in Seq(Word) /\ Len(z[i]) = m + n
        /\ \A i \in 1 .. n : z[i] = MulRow(z[i - 1], a, b[i], i - 1)
        /\ MultipliedWords(a, b) = z[n]
  BY RoundsAre
<1>3. x \in Nat /\ Magnitude(b) = Mag(b, n)
  <2>1. m >= Len(a) /\ n >= Len(b)
    BY <1>1
  <2> HIDE DEF m, n, Word
  <2> QED  BY <1>1, <2>1, MagnitudeType
<1>4. \A i \in 1 .. n : b[i] \in Word /\ WordAt(b, i) = b[i]
  BY <1>1 DEF WordAt
<1> HIDE DEF n, x
<1> DEFINE P == {i \in 0 .. n : /\ Magnitude(z[i]) = x * Mag(b, i)
                                /\ \A k \in 1 .. m + n : k > i + m => z[i][k] = 0}
<1>5. 0 \in P
  <2> DEFINE o == z[0]
  <2>1. o \in Seq(Word) /\ Len(o) = m + n
    BY <1>1, <1>2
  <2>2. \A k \in 1 .. m + n : o[k] = 0
    BY <1>2 DEF Zeros
  <2> HIDE DEF o, m, Word
  <2>3. Magnitude(o) = 0
    BY <2>1, <2>2, ZeroWords
  <2>4. Mag(b, 0) = 0
    <3>1. 0 \in Nat  OBVIOUS
    <3> QED  BY <3>1, MagStep
  <2>5. Magnitude(o) = x * Mag(b, 0)
    BY <1>3, <2>3, <2>4
  <2> QED  BY <1>1, <2>2, <2>5 DEF o
<1>6. \A i \in 1 .. n : i - 1 \in P => i \in P
  <2> SUFFICES ASSUME NEW i \in 1 .. n, i - 1 \in P PROVE i \in P
    OBVIOUS
  <2> DEFINE k == i - 1
             y == z[k]
             r == z[i]
             w == b[i]
  <2>1. k \in Nat /\ k \in 0 .. n /\ i = k + 1 /\ i \in 0 .. n /\ k + m + 1 <= m + n
        /\ k + m + 1 = i + m
    BY <1>1
  <2>2. y \in Seq(Word) /\ Len(y) = m + n /\ w \in Word /\ r = MulRow(y, a, w, k)
    BY <1>2, <1>4, <2>1
  <2>3. Magnitude(y) = x * Mag(b, k) /\ \A j \in 1 .. m + n : j > k + m => y[j] = 0
    OBVIOUS
  <2>4. /\ Magnitude(r) = Magnitude(y) + (w * x) * Weight(k)
        /\ \A j \in 1 .. m + n : j > k + m + 1 => r[j] = 0
    <3> DEFINE R == MulRow(y, a, w, k)
    <3>1. k + Len(a) + 1 <= Len(y) /\ \A j \in 1 .. Len(y) : j > k + Len(a) => y[j] = 0
      BY <2>1, <2>2, <2>3
    <3>2. /\ Magnitude(R) = Magnitude(y) + (w * Magnitude(a)) * Weight(k)
          /\ \A j \in 1 .. Len(y) : j > k + Len(a) + 1 => R[j] = 0
      <4> HIDE DEF k, y, w
      <4> QED  BY <2>1, <2>2, <3>1, RowExact
    <3> HIDE DEF k, y, w, r
    <3> QED  BY <2>2, <3>2 DEF x
  <2>5. Mag(b, i) = Mag(b, k) + w * Weight(k) /\ Mag(b, k) \in Nat /\ Weight(k) \in Nat
        /\ w \in Nat
    <3>1. WordAt(b, k + 1) = w
      BY <1>4, <2>1
    <3>2. w \in Nat
      BY <2>2, WordBaseType DEF Word
    <3> HIDE DEF k, w
    <3> QED  BY <2>1, <3>1, <3>2, MagStep, WeightStep
  <2>6. Magnitude(r) = x * Mag(b, i)
    <3> DEFINE q == Mag(b, k)
               u == Weight(k)
    <3>1. /\ q \in Nat /\ u \in Nat /\ w \in Nat /\ x \in Nat
          /\ Magnitude(r) = x * q + (w * x) * u /\ Mag(b, i) = q + w * u
      BY <1>3, <2>3, <2>4, <2>5
    <3> HIDE DEF q, u, w, r
    <3>2. x * q + (w * x) * u = x * (q + w * u)
      BY <3>1
    <3> QED  BY <3>1, <3>2
  <2>7. \A j \in 1 .. m + n : j > i + m => r[j] = 0
    <3> HIDE DEF k, m, r
    <3> QED  BY <2>1, <2>4
  <2> QED  BY <2>1, <2>6, <2>7
<1> HIDE DEF P
<1>7. \A i \in 0 .. n : i \in P
  BY <1>1, <1>5, <1>6, CountingUp
<1>8. n \in P
  BY <1>1, <1>7
<1>9. Magnitude(z[n]) = x * Mag(b, n)
  BY <1>8 DEF P
<1> QED  BY <1>2, <1>3, <1>9 DEF x

----------------------------------------------------------------------------
(***************************************************************************)
(* Bytes and words.                                                        *)
(***************************************************************************)

\* A power of a power.
LEMMA PowerPower ==
  ASSUME NEW base \in Nat, NEW w \in Nat, NEW j \in Nat
  PROVE  Power(Power(base, w), j) = Power(base, j * w) /\ j * w \in Nat
<1> DEFINE W == Power(base, w)
           P == {k \in 0 .. j : Power(W, k) = Power(base, k * w)}
<1>1. W \in Nat
  BY PowerStep
<1> HIDE DEF W
<1>2. 0 \in P
  <2>1. 0 * w = 0 /\ Power(W, 0) = 1 /\ Power(base, 0) = 1
    BY <1>1, PowerStep
  <2> QED  BY <2>1
<1>3. \A k \in 1 .. j : k - 1 \in P => k \in P
  <2> SUFFICES ASSUME NEW k \in 1 .. j, k - 1 \in P PROVE k \in P
    OBVIOUS
  <2> DEFINE i == k - 1
             e == i * w
  <2>1. i \in Nat /\ k = i + 1 /\ e \in Nat /\ k * w = e + w
    OBVIOUS
  <2>2. Power(W, i) = Power(base, e)
    OBVIOUS
  <2> HIDE DEF P, i, e
  <2>3. Power(W, i + 1) = W * Power(W, i)
    BY <1>1, <2>1, PowerStep
  <2>4. Power(base, e + w) = Power(base, e) * W /\ Power(base, e) \in Nat
    BY <2>1, PowerStep, PowerSum DEF W
  <2>5. Power(W, k) = Power(base, k * w)
    BY <1>1, <2>1, <2>2, <2>3, <2>4
  <2> QED  BY <2>5 DEF P
<1> HIDE DEF P
<1>4. \A k \in 0 .. j : k \in P
  BY <1>2, <1>3, CountingUp
<1>5. j \in P
  BY <1>4
<1>6. j * w \in Nat
  OBVIOUS
<1> QED  BY <1>5, <1>6 DEF P, W

\* The words beyond the first k denote a multiple of their weight.
LEMMA HighWords ==
  ASSUME NEW x \in Seq(Word), NEW k \in Nat
  PROVE  \E h \in Nat : Magnitude(x) = Mag(x, k) + h * Weight(k)
<1> DEFINE n == Len(x)
           g == Weight(k)
           P == {j \in 0 .. n : \E h \in Nat : Mag(x, k + j) = Mag(x, k) + h * g}
<1>1. n \in Nat
  <2> HIDE DEF Word
  <2> QED  OBVIOUS
<1>2. g \in Nat /\ Mag(x, k) \in Nat
  BY MagStep, WeightStep
<1>3. Magnitude(x) = Mag(x, k + n)
  <2>1. k + n \in Nat /\ k + n >= Len(x)
    BY <1>1
  <2> DEFINE m == k + n
  <2> HIDE DEF m
  <2>2. Magnitude(x) = Mag(x, m)
    BY <2>1, MagnitudeType DEF m
  <2> QED  BY <2>2 DEF m
<1> HIDE DEF n, g
<1>4. 0 \in P
  <2>1. k + 0 = k /\ Mag(x, k) = Mag(x, k) + 0 * g
    BY <1>2
  <2> QED  BY <1>1, <2>1
<1>5. \A j \in 1 .. n : j - 1 \in P => j \in P
  <2> SUFFICES ASSUME NEW j \in 1 .. n, j - 1 \in P PROVE j \in P
    OBVIOUS
  <2> DEFINE i == j - 1
             t == k + i
             v == WordAt(x, t + 1)
             u == Weight(i)
             m == Mag(x, k)
  <2>1. i \in Nat /\ t \in Nat /\ k + j = t + 1 /\ j \in 0 .. n
    BY <1>1
  <2>2. PICK h \in Nat : Mag(x, t) = m + h * g
    OBVIOUS
  <2> HIDE DEF P
  <2>3. /\ v \in Nat /\ Mag(x, t + 1) = Mag(x, t) + v * Weight(t)
    <3>1. v \in Word /\ Mag(x, t + 1) = Mag(x, t) + v * Weight(t)
      <4> HIDE DEF t
      <4> QED  BY <2>1, MagStep DEF v
    <3>2. v \in Nat
      <4> HIDE DEF v
      <4> QED  BY <3>1, WordBaseType DEF Word
    <3> QED  BY <3>1, <3>2
  <2>4. u \in Nat /\ Weight(t) = g * u
    <3>1. t = k + i
      OBVIOUS
    <3> HIDE DEF i, t
    <3>2. u \in Nat
      BY <2>1, WeightStep
    <3>3. Power(WordBase, k + i) = Power(WordBase, k) * Power(WordBase, i)
      BY <2>1, WordBaseType, PowerSum
    <3> QED  BY <3>1, <3>2, <3>3 DEF Weight, g
  <2> HIDE DEF i, t, v, u, m
  <2>5. h + v * u \in Nat
    BY <2>2, <2>3, <2>4
  <2>6. Mag(x, t + 1) = m + (h + v * u) * g
    <3>1. v * (g * u) = (v * u) * g /\ (h + v * u) * g = h * g + (v * u) * g
      BY <1>2, <2>2, <2>3, <2>4
    <3> DEFINE a == h * g
               b == (v * u) * g
    <3>2. a \in Nat /\ b \in Nat /\ m \in Nat
      BY <1>2, <2>2, <2>3, <2>4 DEF m
    <3>3. Mag(x, t) = m + a /\ Mag(x, t + 1) = Mag(x, t) + b
      BY <2>2, <2>3, <2>4, <3>1
    <3>4. (h + v * u) * g = a + b
      BY <3>1
    <3> HIDE DEF a, b
    <3>5. Mag(x, t + 1) = m + (a + b)
      BY <3>2, <3>3
    <3> QED  BY <3>4, <3>5
  <2>7. \E q \in Nat : Mag(x, k + j) = Mag(x, k) + q * g
    BY <2>1, <2>5, <2>6 DEF m
  <2> QED  BY <2>1, <2>7 DEF P
<1> HIDE DEF P
<1>6. \A j \in 0 .. n : j \in P
  BY <1>1, <1>4, <1>5, CountingUp
<1>7. n \in P
  BY <1>1, <1>6
<1> QED  BY <1>3, <1>7 DEF P, g

\* A digit of a digit: the byte that ByteAt takes from its word is the byte of
\* this weight of the whole magnitude.
LEMMA ByteOfMagnitude ==
  ASSUME NEW x \in Seq(Word), NEW k \in Nat
  PROVE  /\ ByteAt(x, k) = (Magnitude(x) \div Power(ByteBase, k)) % ByteBase
         /\ ByteAt(x, k) \in Byte
<1> DEFINE B == ByteBase
           w == WordBytes
           j == k \div w
           r == k % w
           v == WordAt(x, j + 1)
           u == Weight(j)
           g == Power(B, r)
           G == Power(B, w - r - 1)
           M == Magnitude(x)
           L == Mag(x, j)
<1>1. B \in Nat /\ B > 1 /\ w \in Nat /\ w > 0
  BY MpAssumption
<1> HIDE DEF B, w
<1>2. j \in Nat /\ r \in 0 .. w - 1 /\ k = j * w + r
  BY <1>1
<1>3. ByteAt(x, k) = (v \div g) % B
  BY DEF ByteAt, B, w
<1> HIDE DEF j, r
<1>4. g \in Nat /\ g > 0 /\ G \in Nat
  <2> DEFINE e == w - r - 1
  <2>1. r \in 0 .. r /\ r \in Nat /\ e \in Nat
    BY <1>1, <1>2
  <2>2. g \in Nat \ {0}
    BY <1>1, <2>1, PowerGrows
  <2> HIDE DEF e
  <2>3. Power(B, e) \in Nat
    BY <1>1, <2>1, PowerStep
  <2> QED  BY <2>2, <2>3 DEF e
<1>5. u = Power(B, j * w) /\ u \in Nat /\ u > 0 /\ j * w \in Nat
  <2>1. u \in Nat /\ u > 0
    BY <1>2, WeightStep
  <2>2. Power(Power(B, w), j) = Power(B, j * w) /\ j * w \in Nat
    BY <1>1, <1>2, PowerPower
  <2> QED  BY <2>1, <2>2 DEF Weight, WordBase, B, w
<1>6. Power(B, k) = u * g
  <2> DEFINE e == j * w
  <2>1. e \in Nat /\ k = e + r /\ u = Power(B, e) /\ r \in Nat
    BY <1>1, <1>2, <1>5
  <2> HIDE DEF e, u
  <2> QED  BY <1>1, <2>1, PowerSum
<1>7. WordBase = g * (B * G)
  <2> DEFINE e == w - r - 1
  <2>1. e \in Nat /\ r \in Nat /\ w = r + (e + 1) /\ e + 1 \in Nat
    BY <1>1, <1>2
  <2> HIDE DEF e
  <2>2. Power(B, e + 1) = B * Power(B, e)
    BY <1>1, <2>1, PowerStep
  <2>3. Power(B, r + (e + 1)) = Power(B, r) * Power(B, e + 1)
    <3> DEFINE f == e + 1
    <3>1. f \in Nat
      BY <2>1
    <3> HIDE DEF f
    <3>2. Power(B, r + f) = Power(B, r) * Power(B, f)
      BY <1>1, <2>1, <3>1, PowerSum
    <3> QED  BY <3>2 DEF f
  <2>4. Power(B, w) = Power(B, r) * (B * Power(B, e))
    BY <2>1, <2>2, <2>3
  <2> QED  BY <2>4 DEF WordBase, B, w, e
<1>8. /\ v \in Nat /\ L \in Nat /\ L < u
      /\ Mag(x, j + 1) = L + v * u /\ Weight(j + 1) = WordBase * u
  <2>1. v \in Word /\ L \in Nat /\ L < u /\ Mag(x, j + 1) = L + v * u
    BY <1>2, MagStep
  <2>2. v \in Nat
    <3> HIDE DEF v
    <3> QED  BY <2>1, WordBaseType DEF Word
  <2> QED  BY <1>2, <2>1, <2>2, WeightStep
<1>9. PICK h \in Nat : M = Mag(x, j + 1) + h * Weight(j + 1)
  <2>1. j + 1 \in Nat
    BY <1>2
  <2> DEFINE i == j + 1
  <2> HIDE DEF i
  <2>2. \E h \in Nat : Magnitude(x) = Mag(x, i) + h * Weight(i)
    BY <2>1, HighWords DEF i
  <2> QED  BY <2>2 DEF i
<1> HIDE DEF v, u, g, G, M, L
<1> DEFINE d == v \div g
           s == v % g
           e == d % B
           f == d \div B
           q == e + (f + h * G) * B
           m == L + s * u
<1>10. d \in Nat /\ s \in 0 .. g - 1 /\ v = d * g + s
  BY <1>4, <1>8
<1> HIDE DEF d, s
<1>11. f \in Nat /\ e \in 0 .. B - 1 /\ d = f * B + e
  BY <1>1, <1>10
<1> HIDE DEF e, f
<1>12. M = q * (u * g) + m
  <2> DEFINE y == u * g
  <2>1. y \in Nat
    BY <1>4, <1>5
  <2>2. M = (L + v * u) + h * ((g * (B * G)) * u)
    BY <1>7, <1>8, <1>9
  <2>3. v * u = ((f * B + e) * g + s) * u
    BY <1>10, <1>11
  <2>4. ((f * B + e) * g + s) * u = (f * B) * y + e * y + s * u
    <3> DEFINE t == f * B
    <3>1. t \in Nat /\ e \in Nat /\ s \in Nat
      BY <1>1, <1>4, <1>10, <1>11
    <3> HIDE DEF t
    <3>2. ((t + e) * g + s) * u = ((t + e) * g) * u + s * u
      BY <1>4, <1>5, <3>1
    <3>3. ((t + e) * g) * u = (t + e) * y
      BY <1>4, <1>5, <3>1
    <3> HIDE DEF y
    <3>4. (t + e) * y = t * y + e * y
      BY <2>1, <3>1
    <3> QED  BY <3>2, <3>3, <3>4 DEF t
  <2>5. h * ((g * (B * G)) * u) = ((h * G) * B) * y
    <3> DEFINE p == B * G
    <3>1. p \in Nat /\ h \in Nat
      BY <1>1, <1>4, <1>9
    <3>2. h * p = (h * G) * B
      BY <1>1, <1>4, <1>9
    <3> HIDE DEF p
    <3>3. (g * p) * u = p * y
      BY <1>4, <1>5, <3>1
    <3> HIDE DEF y
    <3>4. h * (p * y) = (h * p) * y
      BY <2>1, <3>1
    <3> QED  BY <3>2, <3>3, <3>4 DEF p
  <2>6. q * y = e * y + (f * B) * y + ((h * G) * B) * y
    <3> HIDE DEF y
    <3> DEFINE p == h * G
    <3>1. p \in Nat  BY <1>4, <1>9
    <3> HIDE DEF p
    <3>2. (e + (f + p) * B) * y = e * y + (f * B) * y + (p * B) * y
      BY <1>1, <1>11, <2>1, <3>1
    <3> QED  BY <3>2 DEF p
  <2> DEFINE a1 == e * y
             a2 == (f * B) * y
             a3 == ((h * G) * B) * y
             a4 == s * u
             a5 == q * y
  <2>7. a1 \in Nat /\ a2 \in Nat /\ a3 \in Nat /\ a4 \in Nat
    <3>1. f * B \in Nat /\ s \in Nat /\ e \in Nat /\ h * G \in Nat
      BY <1>1, <1>4, <1>9, <1>10, <1>11
    <3> DEFINE c == f * B
               i == h * G
    <3> HIDE DEF y, c, i
    <3>2. c * y \in Nat /\ e * y \in Nat /\ s * u \in Nat
      BY <1>5, <2>1, <3>1 DEF c
    <3>3. i * B \in Nat
      BY <1>1, <3>1 DEF i
    <3>4. (i * B) * y \in Nat
      BY <2>1, <3>3
    <3> QED  BY <3>2, <3>4 DEF c, i
  <2>8. M = (L + (a2 + a1 + a4)) + a3 /\ a5 = a1 + a2 + a3
    BY <2>2, <2>3, <2>4, <2>5, <2>6
  <2> HIDE DEF a1, a2, a3, a4, a5
  <2>9. M = a5 + (L + a4)
    BY <1>8, <2>7, <2>8
  <2> QED  BY <2>9 DEF a4, a5
<1>13. m \in 0 .. (u * g) - 1
  <2>1. s * u <= (g - 1) * u
    BY <1>4, <1>5, <1>10
  <2>2. (g - 1) * u = u * g - u
    BY <1>4, <1>5
  <2> DEFINE y == u * g
             a == s * u
  <2>3. y \in Nat /\ a \in Nat /\ a <= y - u
    BY <1>4, <1>5, <1>10, <2>1, <2>2
  <2> HIDE DEF y, a
  <2>4. L + a \in 0 .. y - 1
    BY <1>5, <1>8, <2>3
  <2> QED  BY <2>4 DEF y, a
<1>14. q \in Int /\ M \in Int /\ u * g \in Nat /\ u * g > 0
  <2>1. M \in Nat
    <3> HIDE DEF Word
    <3>1. Len(x) \in Nat /\ Len(x) >= Len(x)  OBVIOUS
    <3> QED  BY <3>1, MagnitudeType DEF M
  <2>2. u * g \in Nat /\ u * g > 0
    BY <1>4, <1>5
  <2>3. q \in Int
    BY <1>1, <1>4, <1>9, <1>11
  <2> QED  BY <2>1, <2>2, <2>3
<1>15. M \div (u * g) = q
  <2> DEFINE y == u * g
  <2>1. y \in Nat /\ y > 0 /\ m \in 0 .. y - 1 /\ M = q * y + m
    BY <1>12, <1>13, <1>14
  <2> HIDE DEF y, q, m
  <2>2. M \div y = q
    BY <1>14, <2>1, Division
  <2> QED  BY <2>2 DEF y
<1>16. q % B = e
  <2> DEFINE p == f + h * G
  <2>1. p \in Int
    BY <1>4, <1>9, <1>11
  <2>2. q = p * B + e
    <3>1. p * B \in Int
      BY <1>1, <2>1
    <3> DEFINE pb == p * B
    <3>2. pb \in Int /\ q = e + pb
      BY <3>1
    <3> HIDE DEF pb, q
    <3>3. q = pb + e  BY <1>1, <1>11, <3>2
    <3> QED  BY <3>3 DEF pb
  <2> HIDE DEF p, q
  <2> QED  BY <1>1, <1>11, <1>14, <2>1, <2>2, Division
<1>17. ByteAt(x, k) = e /\ (M \div Power(B, k)) % B = e
  BY <1>3, <1>6, <1>15, <1>16 DEF d, e
<1> QED  BY <1>11, <1>17 DEF M, B, Byte

\* Bytes are numbers.
LEMMA BytesAreNumbers ==
  ASSUME NEW x \in Seq(Byte)
  PROVE  x \in Seq(Nat)
<1>1. Byte \subseteq Nat
  BY MpAssumption DEF Byte
<1> HIDE DEF Byte
<1>2. Len(x) \in Nat /\ x \in [1 .. Len(x) -> Byte]
  OBVIOUS
<1>3. x \in [1 .. Len(x) -> Nat]
  BY <1>1, <1>2
<1> QED  BY <1>2, <1>3, SeqDef

\* One digit more of a remainder.
LEMMA RemainderStep ==
  ASSUME NEW base \in Nat, base > 1, NEW p \in Nat, p > 0, NEW M \in Nat
  PROVE  M % (base * p) = (M % p) + ((M \div p) % base) * p
<1> DEFINE q == M \div p
           r == M % p
           f == q \div base
           e == q % base
<1>1. q \in Nat /\ r \in 0 .. p - 1 /\ M = q * p + r
  OBVIOUS
<1> HIDE DEF q, r
<1>2. f \in Nat /\ e \in 0 .. base - 1 /\ q = f * base + e
  BY <1>1
<1> HIDE DEF f, e
<1>3. base * p \in Nat /\ base * p > 0
  OBVIOUS
<1> DEFINE s == e * p + r
<1>4. M = f * (base * p) + s
  <2>1. (f * base + e) * p = f * (base * p) + e * p
    BY <1>2
  <2> DEFINE a == f * (base * p)
             b == e * p
  <2>2. a \in Nat /\ b \in Nat
    BY <1>2
  <2>3. q * p = a + b
    BY <1>2, <2>1
  <2>4. M = (a + b) + r
    BY <1>1, <2>3
  <2> HIDE DEF a, b
  <2>5. M = a + (b + r)
    BY <1>1, <2>2, <2>4
  <2> QED  BY <2>5 DEF a, b
<1>5. s \in 0 .. (base * p) - 1
  <2>1. e * p <= (base - 1) * p
    BY <1>2
  <2>2. (base - 1) * p = base * p - p
    OBVIOUS
  <2> DEFINE y == base * p
             b == e * p
  <2>3. y \in Nat /\ b \in Nat /\ b <= y - p
    BY <1>2, <1>3, <2>1, <2>2
  <2> HIDE DEF y, b
  <2>4. b + r \in 0 .. y - 1
    BY <1>1, <2>3
  <2> QED  BY <2>4 DEF y, b
<1>6. M % (base * p) = s
  <2> DEFINE y == base * p
  <2>1. y \in Nat /\ y > 0 /\ s \in 0 .. y - 1 /\ M = f * y + s
    BY <1>3, <1>4, <1>5
  <2> HIDE DEF y, s
  <2>2. M % y = s
    BY <1>2, <2>1, Division
  <2> QED  BY <2>2 DEF y
<1>7. s = r + e * p
  <2> DEFINE b == e * p
  <2>1. b \in Nat  BY <1>2
  <2> HIDE DEF b
  <2>2. b + r = r + b  BY <1>1, <2>1
  <2> QED  BY <2>2 DEF b
<1> QED  BY <1>6, <1>7 DEF r, e, q

\* Digits that are those of M denote its remainder.
LEMMA DigitsOf ==
  ASSUME NEW base \in Nat, base > 1, NEW d \in Seq(Nat), NEW M \in Nat,
         \A i \in 1 .. Len(d) : d[i] = (M \div Power(base, i - 1)) % base
  PROVE  Value(d, base) = M % Power(base, Len(d))
<1> DEFINE n == Len(d)
           P == {i \in 0 .. n : Low(d, i, base) = M % Power(base, i)}
<1>1. n \in Nat /\ Value(d, base) = Low(d, n, base)
  <2>1. n \in Nat /\ n >= Len(d)  OBVIOUS
  <2> QED  BY <2>1, LowIsValue
<1>2. \A i \in 1 .. n : WordAt(d, i) = (M \div Power(base, i - 1)) % base
  BY <1>1 DEF WordAt
<1> HIDE DEF n
<1>3. 0 \in P
  <2>1. Power(base, 0) = 1 /\ Low(d, 0, base) = 0
    BY PowerStep, LowStep
  <2>2. M % 1 = 0
    <3>1. M = M * 1 + 0 /\ 0 \in 0 .. 1 - 1  OBVIOUS
    <3> QED  BY <3>1, Division
  <2> QED  BY <1>1, <2>1, <2>2
<1>4. \A i \in 1 .. n : i - 1 \in P => i \in P
  <2> SUFFICES ASSUME NEW i \in 1 .. n, i - 1 \in P PROVE i \in P
    OBVIOUS
  <2> DEFINE k == i - 1
             p == Power(base, k)
  <2>1. k \in Nat /\ i = k + 1 /\ i \in 0 .. n /\ k \in 0 .. k
    BY <1>1
  <2>2. p \in Nat /\ p > 0 /\ Power(base, k + 1) = base * p
    <3> HIDE DEF k
    <3>1. p \in Nat \ {0}
      BY <2>1, PowerGrows
    <3> QED  BY <2>1, <3>1, PowerStep
  <2>3. Low(d, k, base) = M % p
    OBVIOUS
  <2>4. Low(d, k + 1, base) = Low(d, k, base) + WordAt(d, k + 1) * p
    <3> HIDE DEF k
    <3> QED  BY <2>1, LowStep
  <2>5. WordAt(d, k + 1) = (M \div p) % base
    BY <1>2, <2>1
  <2>6. M % (base * p) = (M % p) + ((M \div p) % base) * p
    <3> HIDE DEF p
    <3> QED  BY <2>2, RemainderStep
  <2>7. Low(d, i, base) = M % Power(base, i)
    <3> HIDE DEF p, k
    <3> QED  BY <2>1, <2>2, <2>3, <2>4, <2>5, <2>6
  <2> QED  BY <2>1, <2>7
<1> HIDE DEF P
<1>5. \A i \in 0 .. n : i \in P
  BY <1>1, <1>3, <1>4, CountingUp
<1>6. n \in P
  BY <1>1, <1>5
<1> QED  BY <1>1, <1>6 DEF P, n

\* Digits further up count for as much more.
LEMMA LowShift ==
  ASSUME NEW base \in Nat, NEW x \in Seq(Nat), NEW y \in Seq(Nat), NEW t \in Nat,
         NEW n \in Nat, \A r \in 1 .. n : WordAt(x, t + r) = WordAt(y, r)
  PROVE  Low(x, t + n, base) = Low(x, t, base) + Low(y, n, base) * Power(base, t)
<1> DEFINE p == Power(base, t)
           P == {r \in 0 .. n : Low(x, t + r, base) = Low(x, t, base) + Low(y, r, base) * p}
<1>1. p \in Nat /\ Low(x, t, base) \in Nat
  BY PowerStep, LowStep
<1> HIDE DEF p
<1>2. 0 \in P
  <2>1. t + 0 = t /\ Low(y, 0, base) = 0
    BY LowStep
  <2>2. Low(x, t, base) = Low(x, t, base) + 0 * p
    BY <1>1
  <2> QED  BY <2>1, <2>2
<1>3. \A r \in 1 .. n : r - 1 \in P => r \in P
  <2> SUFFICES ASSUME NEW r \in 1 .. n, r - 1 \in P PROVE r \in P
    OBVIOUS
  <2> DEFINE k == r - 1
             i == t + k
             v == WordAt(y, k + 1)
             u == Power(base, k)
             a == Low(x, t, base)
             b == Low(y, k, base)
  <2>1. k \in Nat /\ i \in Nat /\ r = k + 1 /\ t + r = i + 1 /\ r \in 0 .. n
    OBVIOUS
  <2>2. WordAt(x, i + 1) = v
    BY <2>1
  <2>3. Low(x, i, base) = a + b * p
    OBVIOUS
  <2> HIDE DEF P
  <2>4. /\ Low(x, i + 1, base) = Low(x, i, base) + v * Power(base, i)
    <3> HIDE DEF i, v
    <3> QED  BY <2>1, <2>2, LowStep
  <2>5. Power(base, i) = p * u /\ u \in Nat
    <3>1. i = t + k
      OBVIOUS
    <3> HIDE DEF k, i
    <3>2. u \in Nat
      BY <2>1, PowerStep
    <3>3. Power(base, t + k) = Power(base, t) * Power(base, k)
      BY <2>1, PowerSum
    <3> QED  BY <3>1, <3>2, <3>3 DEF p
  <2>6. b \in Nat /\ Low(y, k + 1, base) = b + v * u
    <3> HIDE DEF k
    <3> QED  BY <2>1, LowStep
  <2>7. v \in Nat
    <3>1. k + 1 <= Len(y) => y[k + 1] \in Nat
      BY <2>1
    <3> HIDE DEF k
    <3> QED  BY <3>1 DEF WordAt
  <2> HIDE DEF k, i, v, u, b
  <2>8. Low(x, i + 1, base) = a + (b + v * u) * p
    <3> DEFINE c == b * p
               e == (v * u) * p
    <3>1. c \in Nat /\ e \in Nat /\ v * (p * u) = e /\ (b + v * u) * p = c + e
      BY <1>1, <2>5, <2>6, <2>7
    <3>2. Low(x, i + 1, base) = (a + c) + e
      BY <2>3, <2>4, <2>5, <3>1
    <3>3. a \in Nat
      BY <1>1
    <3> HIDE DEF c, e, a
    <3>4. Low(x, i + 1, base) = a + (c + e)
      BY <3>1, <3>2, <3>3
    <3> QED  BY <3>1, <3>4
  <2>9. Low(x, t + r, base) = Low(x, t, base) + Low(y, r, base) * p
    BY <2>1, <2>6, <2>8
  <2> QED  BY <2>1, <2>9 DEF P
<1> HIDE DEF P
<1>4. \A r \in 0 .. n : r \in P
  BY <1>2, <1>3, CountingUp
<1>5. n \in P
  BY <1>4
<1> QED  BY <1>5 DEF P, p

\* word i of words is made of the digits of y from (i - 1) * WordBytes + 1 on.
MadeOfDigits(words, y, i) ==
  \E s \in Seq(Byte) :
     /\ Len(s) = WordBytes
     /\ words[i] = Value(s, ByteBase)
     /\ \A r \in 1 .. WordBytes : WordAt(y, (i - 1) * WordBytes + r) = s[r]

\* Words made of digits denote what the digits do.
LEMMA GroupedDigits ==
  ASSUME NEW y \in Seq(Byte), NEW words \in Seq(Word),
         \A i \in 1 .. Len(words) : MadeOfDigits(words, y, i)
  PROVE  Magnitude(words) = Low(y, Len(words) * WordBytes, ByteBase)
<1> DEFINE B == ByteBase
           w == WordBytes
           n == Len(words)
           P == {i \in 0 .. n : Mag(words, i) = Low(y, i * w, B)}
<1>1. B \in Nat /\ B > 1 /\ w \in Nat
  BY MpAssumption
<1>2. n \in Nat
  <2> HIDE DEF Word
  <2> QED  OBVIOUS
<1>3. Magnitude(words) = Mag(words, n)
  <2>1. n >= Len(words)  BY <1>2
  <2> HIDE DEF n
  <2> QED  BY <1>2, <2>1, MagnitudeType
<1>4. y \in Seq(Nat)
  BY BytesAreNumbers
<1>5. \A i \in 1 .. n : WordAt(words, i) = words[i]
  BY <1>2 DEF WordAt
<1> HIDE DEF B, w
<1>6. 0 \in P
  <2>1. 0 * w = 0 /\ Mag(words, 0) = 0 /\ Low(y, 0, B) = 0
    <3> HIDE DEF Word
    <3>1. 0 \in Nat  OBVIOUS
    <3>2. 0 * w = 0  BY <1>1
    <3> QED  BY <1>1, <1>4, <3>1, <3>2, MagStep, LowStep
  <2> HIDE DEF n
  <2>2. 0 \in 0 .. n  BY <1>2
  <2> QED  BY <2>1, <2>2
<1>7. \A i \in 1 .. n : i - 1 \in P => i \in P
  <2> SUFFICES ASSUME NEW i \in 1 .. n, i - 1 \in P PROVE i \in P
    OBVIOUS
  <2> DEFINE k == i - 1
             t == k * w
             u == Weight(k)
  <2>1. k \in Nat /\ i = k + 1 /\ i \in 0 .. n /\ t \in Nat /\ i * w = t + w
    BY <1>1, <1>2
  <2>2. PICK s \in Seq(Byte) :
           /\ Len(s) = w
           /\ words[i] = Value(s, B)
           /\ \A r \in 1 .. w : WordAt(y, t + r) = s[r]
    BY DEF MadeOfDigits, w, B
  <2>3. Mag(words, k) = Low(y, t, B)
    OBVIOUS
  <2> HIDE DEF P, t, n
  <2>4. u = Power(B, t)
    <3> HIDE DEF k
    <3> QED  BY <1>1, <2>1, PowerPower DEF Weight, WordBase, B, w, t
  <2>5. Mag(words, k + 1) = Mag(words, k) + words[i] * u
    <3>1. WordAt(words, k + 1) = words[i]
      BY <1>5, <2>1
    <3> HIDE DEF k
    <3> QED  BY <2>1, <3>1, MagStep
  <2>6. s \in Seq(Nat)
    BY <2>2, BytesAreNumbers
  <2>7. Low(s, w, B) = Value(s, B)
    <3>1. w >= Len(s)  BY <1>1, <2>2
    <3> QED  BY <1>1, <2>6, <3>1, LowIsValue
  <2>8. Low(y, t + w, B) = Low(y, t, B) + Low(s, w, B) * Power(B, t)
    <3>1. \A r \in 1 .. w : WordAt(y, t + r) = WordAt(s, r)
      BY <1>1, <2>2 DEF WordAt
    <3> QED  BY <1>1, <1>4, <2>1, <2>6, <3>1, LowShift
  <2>9. Mag(words, i) = Low(y, i * w, B)
    BY <2>1, <2>2, <2>3, <2>4, <2>5, <2>7, <2>8
  <2> QED  BY <2>1, <2>9 DEF P
<1> HIDE DEF P
<1>8. \A i \in 0 .. n : i \in P
  <2> HIDE DEF n
  <2> QED  BY <1>2, <1>6, <1>7, CountingUp
<1>9. n \in P
  BY <1>2, <1>8
<1> QED  BY <1>3, <1>9 DEF P, B, w, n

\* The bytes of data, the least significant first.
LowFirst(data) == [i \in 1 .. Len(data) |-> data[Len(data) - i + 1]]

LEMMA LowFirstType ==
  ASSUME NEW data \in Seq(Byte)
  PROVE  /\ LowFirst(data) \in Seq(Byte) /\ Len(LowFirst(data)) = Len(data)
         /\ Len(data) \in Nat
         /\ \A i \in 1 .. Len(data) : LowFirst(data)[i] = data[Len(data) - i + 1]
<1> DEFINE n == Len(data)
           y == LowFirst(data)
<1> HIDE DEF Byte
<1>1. n \in Nat
  OBVIOUS
<1>2. \A i \in 1 .. n : n - i + 1 \in 1 .. n /\ data[n - i + 1] \in Byte
  <2> TAKE i \in 1 .. n
  <2>1. n - i + 1 \in 1 .. n
    BY <1>1
  <2> QED  BY <2>1
<1>3. y \in [1 .. n -> Byte] /\ \A i \in 1 .. n : y[i] = data[n - i + 1]
  BY <1>2 DEF LowFirst
<1> HIDE DEF y
<1>4. y \in Seq(Byte)
  BY <1>1, <1>3, SeqDef
<1>5. DOMAIN y = 1 .. n /\ DOMAIN y = 1 .. Len(y) /\ Len(y) \in Nat
  BY <1>3, <1>4
<1> QED  BY <1>1, <1>3, <1>4, <1>5 DEF y

\* Beyond the used bytes there are zeros only.
LEMMA UnusedAreZero ==
  ASSUME NEW data \in Seq(Byte), data # <<>>
  PROVE  /\ UsedLength(data) \in 1 .. Len(data)
         /\ \A p \in UsedLength(data) + 1 .. Len(data) : LowFirst(data)[p] = 0
<1> DEFINE n == Len(data)
           significant == {i \in 1 .. n : data[i] # 0 \/ i = n}
           first == CHOOSE i \in significant : \A j \in significant : i <= j
<1>1. n \in Nat \ {0}
  OBVIOUS
<1>2. n \in significant /\ significant \subseteq 1 .. n
  BY <1>1
<1>3. \E i \in significant : \A j \in significant : i <= j
  <2> HIDE DEF significant
  <2>1. significant \subseteq Nat /\ significant # {}
    BY <1>2
  <2> QED  BY <2>1, LeastExists
<1>4. first \in significant /\ \A j \in significant : first <= j
  <2> HIDE DEF significant
  <2> QED  BY <1>3
<1>5. UsedLength(data) = n - first + 1
  BY DEF UsedLength
<1> HIDE DEF first
<1>6. first \in 1 .. n /\ \A j \in 1 .. n : data[j] # 0 => first <= j
  BY <1>4
<1>7. ASSUME NEW p \in (n - first + 1) + 1 .. n PROVE LowFirst(data)[p] = 0
  <2> DEFINE q == n - p + 1
  <2>1. q \in 1 .. n /\ q < first /\ p \in 1 .. n
    BY <1>1, <1>6
  <2>2. LowFirst(data)[p] = data[q]
    BY <2>1, LowFirstType
  <2> HIDE DEF q
  <2>3. ~ (first <= q)
    BY <1>6, <2>1
  <2> QED  BY <1>6, <2>1, <2>2, <2>3
<1>8. n - first + 1 \in 1 .. n
  BY <1>1, <1>6
<1> QED  BY <1>5, <1>7, <1>8 DEF n

\* BigIntLoad reads the number that the bytes denote, if they fill whole words.
LEMMA LoadedExact ==
  ASSUME NEW data \in Seq(Byte), data # <<>>, UsedLength(data) % WordBytes = 0
  PROVE  /\ LoadedWords(data) \in Seq(Word)
         /\ Magnitude(LoadedWords(data)) = Value(LowFirst(data), ByteBase)
<1> DEFINE n == Len(data)
           w == WordBytes
           used == UsedLength(data)
           count == used \div w
           y == LowFirst(data)
           Digits(i) == [k \in 1 .. w |-> data[n - (i - 1) * w - k + 1]]
           words == [i \in 1 .. count |-> Value(Digits(i), ByteBase)]
<1>1. used \in 1 .. n /\ \A p \in used + 1 .. n : y[p] = 0
  BY UnusedAreZero
<1>2. y \in Seq(Byte) /\ Len(y) = n /\ n \in Nat /\ \A i \in 1 .. n : y[i] = data[n - i + 1]
  BY LowFirstType
<1>3. w \in Nat /\ w > 0 /\ ByteBase \in Nat
  BY MpAssumption
<1>4. LoadedWords(data) = words
  BY DEF LoadedWords
<1>5. LoadedWords(data) \in Seq(Word)
  BY LoadedType
<1>6. used % w = 0
  OBVIOUS
<1> HIDE DEF used, y, w, n
<1>7. count \in Nat /\ used = count * w
  BY <1>1, <1>2, <1>3, <1>6
<1> HIDE DEF count
<1>8. DOMAIN words = 1 .. count /\ \A i \in 1 .. count : words[i] = Value(Digits(i), ByteBase)
  OBVIOUS
<1> HIDE DEF words
<1>9. words \in Seq(Word) /\ Len(words) = count
  <2>1. words \in Seq(Word)
    BY <1>4, <1>5
  <2> HIDE DEF Word
  <2>2. DOMAIN words = 1 .. Len(words) /\ Len(words) \in Nat
    BY <2>1
  <2> QED  BY <1>7, <1>8, <2>1, <2>2
<1>10. ASSUME NEW i \in 1 .. count PROVE MadeOfDigits(words, y, i)
  <2> DEFINE t == (i - 1) * w
             s == Digits(i)
  <2>1. t \in Nat /\ t + w <= n
    <3>1. i - 1 \in Nat /\ i <= count
      BY <1>7
    <3>2. i * w <= count * w
      BY <1>3, <1>7, <3>1
    <3>3. i * w = t + w /\ t \in Nat
      BY <1>3, <3>1
    <3> DEFINE a == i * w
               b == count * w
    <3>4. a <= b /\ b <= n /\ a = t + w /\ b \in Nat
      BY <1>1, <1>2, <1>3, <1>7, <3>2, <3>3
    <3> HIDE DEF a, b, t
    <3> QED  BY <1>2, <1>3, <3>3, <3>4
  <2> HIDE DEF t
  <2>2. \A r \in 1 .. w : /\ t + r \in 1 .. n
                          /\ y[t + r] = data[n - (t + r) + 1]
                          /\ n - (t + r) + 1 = n - t - r + 1
    BY <1>2, <1>3, <2>1
  <2>3. s \in [1 .. w -> Byte] /\ \A r \in 1 .. w : s[r] = y[t + r]
    <3>1. \A r \in 1 .. w : data[n - t - r + 1] = y[t + r] /\ y[t + r] \in Byte
      <4> HIDE DEF Byte
      <4> QED  BY <1>2, <2>2
    <3>2. s = [k \in 1 .. w |-> data[n - t - k + 1]]
      BY DEF t
    <3> HIDE DEF s, Byte
    <3> QED  BY <3>1, <3>2
  <2>4. words[i] = Value(s, ByteBase)
    BY <1>8
  <2> HIDE DEF s, Byte
  <2>5. s \in Seq(Byte)
    BY <1>3, <2>3, SeqDef
  <2>6. Len(s) = w
    <3>1. DOMAIN s = 1 .. w /\ DOMAIN s = 1 .. Len(s) /\ Len(s) \in Nat
      BY <2>3, <2>5
    <3> QED  BY <1>3, <3>1
  <2>7. \A r \in 1 .. w : WordAt(y, t + r) = s[r]
    BY <1>2, <2>2, <2>3 DEF WordAt
  <2> QED  BY <2>4, <2>5, <2>6, <2>7 DEF MadeOfDigits, t, w
<1>11. Magnitude(words) = Low(y, used, ByteBase)
  <2>1. \A i \in 1 .. Len(words) : MadeOfDigits(words, y, i)
    BY <1>9, <1>10
  <2>2. Magnitude(words) = Low(y, Len(words) * w, ByteBase)
    BY <1>2, <1>9, <2>1, GroupedDigits DEF w
  <2> QED  BY <1>7, <1>9, <2>2
<1>12. y \in Seq(Nat)
  BY <1>2, BytesAreNumbers
<1>13. Low(y, n, ByteBase) = Low(y, used, ByteBase)
  <2>1. \A p \in used + 1 .. n : WordAt(y, p) = 0
    BY <1>1, <1>2 DEF WordAt
  <2>2. used \in Nat /\ used <= n
    BY <1>1, <1>2
  <2> QED  BY <1>2, <1>3, <1>12, <2>1, <2>2, LowZeros
<1>14. Low(y, n, ByteBase) = Value(y, ByteBase)
  <2>1. n >= Len(y)  BY <1>2
  <2> QED  BY <1>2, <1>3, <1>12, <2>1, LowIsValue
<1> QED  BY <1>4, <1>5, <1>11, <1>13, <1>14 DEF y

\* BigIntSave writes the low bytes of the magnitude, if the array has no room for
\* another whole word.
LEMMA SavedExact ==
  ASSUME NEW data \in Seq(Byte), NEW words \in Seq(Word),
         Len(data) < (Len(words) + 1) * WordBytes
  PROVE  LET saved == BigIntSave(data, words)
         IN  /\ saved \in Seq(Byte) /\ Len(saved) = Len(data)
             /\ Value(LowFirst(saved), ByteBase) =
                  Magnitude(words) % Power(ByteBase, Len(data))
<1> DEFINE len == Len(data)
           n == Len(words)
           w == WordBytes
           count == len \div w
           r == len % w
           written == IF count >= n THEN (n * w) + r ELSE len
           saved == BigIntSave(data, words)
           M == Magnitude(words)
           y == LowFirst(saved)
<1>1. len \in Nat /\ n \in Nat /\ w \in Nat /\ w > 0 /\ len < (n + 1) * w
  <2>1. len \in Nat /\ n \in Nat
    <3> HIDE DEF Word, Byte
    <3> QED  OBVIOUS
  <2> QED  BY <2>1, MpAssumption
<1>2. saved = [i \in 1 .. len |-> IF len - i < written THEN ByteAt(words, len - i) ELSE data[i]]
  BY DEF BigIntSave
<1> HIDE DEF len, n, w, saved
<1>3. count \in Nat /\ r \in 0 .. w - 1 /\ len = count * w + r
  BY <1>1
<1> HIDE DEF count, r
<1>4. written = len
  <2>1. CASE count >= n
    <3>1. ~ (count >= n + 1)
      <4> SUFFICES ASSUME count >= n + 1 PROVE FALSE
        OBVIOUS
      <4>1. count * w >= (n + 1) * w
        BY <1>1, <1>3
      <4> DEFINE a == count * w
                 b == (n + 1) * w
      <4>2. a \in Nat /\ b \in Nat /\ a >= b /\ len = a + r /\ len < b
        BY <1>1, <1>3, <4>1
      <4> HIDE DEF a, b
      <4> QED  BY <1>1, <1>3, <4>2
    <3>2. count = n
      BY <1>1, <1>3, <2>1, <3>1
    <3> QED  BY <1>3, <2>1, <3>2
  <2>2. CASE ~ (count >= n)
    BY <2>2
  <2> QED  BY <2>1, <2>2
<1> HIDE DEF written
<1>5. \A i \in 1 .. len : len - i \in Nat /\ len - i < written
  BY <1>1, <1>4
<1>6. \A i \in 1 .. len : ByteAt(words, len - i) \in Byte
  <2> TAKE i \in 1 .. len
  <2>1. len - i \in Nat
    BY <1>5
  <2> QED  BY <2>1, ByteOfMagnitude
<1>7. saved \in [1 .. len -> Byte] /\ \A i \in 1 .. len : saved[i] = ByteAt(words, len - i)
  <2> HIDE DEF Byte
  <2> QED  BY <1>2, <1>5, <1>6
<1>8. saved \in Seq(Byte) /\ Len(saved) = len
  <2> HIDE DEF Byte
  <2>1. saved \in Seq(Byte)
    BY <1>1, <1>7, SeqDef
  <2>2. DOMAIN saved = 1 .. len /\ DOMAIN saved = 1 .. Len(saved) /\ Len(saved) \in Nat
    BY <1>7, <2>1
  <2> QED  BY <1>1, <2>1, <2>2
<1>9. y \in Seq(Byte) /\ Len(y) = len /\ \A i \in 1 .. len : y[i] = saved[len - i + 1]
  BY <1>8, LowFirstType
<1> HIDE DEF y
<1>10. y \in Seq(Nat) /\ ByteBase \in Nat /\ ByteBase > 1 /\ M \in Nat
  <2>1. M \in Nat
    <3>1. n >= Len(words) /\ n \in Nat  BY <1>1 DEF n
    <3> HIDE DEF n
    <3> QED  BY <3>1, MagnitudeType
  <2> QED  BY <1>9, <2>1, BytesAreNumbers, MpAssumption
<1>11. ASSUME NEW i \in 1 .. len PROVE y[i] = (M \div Power(ByteBase, i - 1)) % ByteBase
  <2>1. i - 1 \in Nat /\ len - i + 1 \in 1 .. len /\ len - (len - i + 1) = i - 1
    BY <1>1
  <2>2. y[i] = ByteAt(words, i - 1)
    BY <1>7, <1>9, <2>1
  <2> DEFINE k == i - 1
  <2> HIDE DEF k
  <2>3. ByteAt(words, k) = (M \div Power(ByteBase, k)) % ByteBase
    BY <2>1, ByteOfMagnitude DEF k
  <2> QED  BY <2>2, <2>3 DEF k
<1>12. Value(y, ByteBase) = M % Power(ByteBase, len)
  <2> HIDE DEF M
  <2>1. \A i \in 1 .. Len(y) : y[i] = (M \div Power(ByteBase, i - 1)) % ByteBase
    BY <1>9, <1>11
  <2>2. Value(y, ByteBase) = M % Power(ByteBase, Len(y))
    BY <1>10, <2>1, DigitsOf
  <2> QED  BY <1>9, <2>2
<1> QED  BY <1>8, <1>12 DEF y, saved, len

----------------------------------------------------------------------------
(***************************************************************************)
(* Structures and machines.                                                *)
(***************************************************************************)

\* The structures: a number that has its words also has their count.
BigInteger ==
  {n \in [sign : Int, words : Seq(Word), wordcount : Nat] :
     n.words = <<>> \/ n.wordcount = Len(n.words)}

\* The machines with the structures of D.
MachineOn(D) == [big : [D -> BigInteger], live : SUBSET D, left : Nat]

\* What a call that is to set z to the number n may return, with temporaries
\* named by T: these are gone, nothing but z has changed, and z is n if the call
\* succeeded, and else what it was or without words.
Outcome(D, T, m, r, z, n) ==
  /\ r.ok \in BOOLEAN
  /\ r.m \in MachineOn(D)
  /\ r.m.live = m.live
  /\ \A o \in D \ (T \cup {z}) : r.m.big[o] = m.big[o]
  /\ r.ok => r.m.big[z] = n
  /\ r.ok \/ r.m.big[z] = m.big[z] \/ r.m.big[z].words = <<>>

\* A sign and words make a number.
LEMMA NumberType ==
  ASSUME NEW s \in Int, NEW w \in Seq(Word)
  PROVE  /\ Number(s, w) \in BigInteger
         /\ Number(s, w).sign = s /\ Number(s, w).words = w
         /\ Number(s, w).wordcount = Len(w)
<1> HIDE DEF Word
<1> QED  BY DEF Number, BigInteger

\* Zero is a number with a word.
LEMMA ZeroType == Zero \in BigInteger /\ Zero.words # <<>> /\ Zero.sign = zero
<1>1. <<0>> \in Seq(Word) /\ <<0>> # <<>>
  <2>1. 0 \in Word  BY WordBaseType DEF Word
  <2> HIDE DEF Word
  <2> QED  BY <2>1
<1>2. zero \in Int
  BY DEF zero
<1> HIDE DEF Word
<1> QED  BY <1>1, <1>2, NumberType DEF Zero

\* A number with its words is what its sign and its words make.
LEMMA WholeNumber ==
  ASSUME NEW n \in BigInteger, n.words # <<>> PROVE n = Number(n.sign, n.words)
<1> HIDE DEF Word
<1> QED  BY DEF BigInteger, Number

\* What a number is made of.
LEMMA NumberFields ==
  ASSUME NEW n \in BigInteger
  PROVE  /\ n.sign \in Int /\ n.words \in Seq(Word)
         /\ n.wordcount \in Nat /\ (n.words = <<>> \/ n.wordcount = Len(n.words))
<1> HIDE DEF Word
<1> QED  BY DEF BigInteger

\* What a machine is made of.
LEMMA MachineFields ==
  ASSUME NEW D, NEW m \in MachineOn(D)
  PROVE  /\ m.big \in [D -> BigInteger] /\ m.live \subseteq D /\ m.left \in Nat
         /\ \A o \in D : m.big[o] \in BigInteger
<1> HIDE DEF BigInteger
<1> QED  BY DEF MachineOn

\* Putting a structure into a machine.
LEMMA PutType ==
  ASSUME NEW D, NEW m \in MachineOn(D), NEW z \in D, NEW n \in BigInteger
  PROVE  LET k == [m EXCEPT !.big[z] = n]
         IN  /\ k \in MachineOn(D)
             /\ k.live = m.live /\ k.left = m.left
             /\ k.big[z] = n /\ \A o \in D \ {z} : k.big[o] = m.big[o]
<1> HIDE DEF BigInteger
<1> QED  BY DEF MachineOn

\* An allocation needs two calls of malloc and a word to store; one that fails
\* changes nothing.
LEMMA AllocatedDoes ==
  ASSUME NEW D, NEW m \in MachineOn(D), NEW t \in D, NEW w \in Seq(Word)
  PROVE  LET r == Allocated(m, t, w)
         IN  /\ r.ok = (m.left >= 2 /\ w # <<>>)
             /\ r.m \in MachineOn(D)
             /\ ~ r.ok => r.m = m
             /\ r.ok => /\ r.m.live = m.live \cup {t} /\ r.m.left = m.left - 2
                        /\ r.m.big[t] = Number(zero, w)
                        /\ \A o \in D \ {t} : r.m.big[o] = m.big[o]
<1> DEFINE n == Number(zero, w)
           k == [m EXCEPT !.left = @ - 2, !.live = @ \cup {t}, !.big[t] = n]
<1>1. n \in BigInteger
  BY NumberType DEF negative, zero, positive
<1>2. m.left \in Nat
  BY MachineFields
<1> HIDE DEF n, BigInteger
<1>3. m.left >= 2 => k \in MachineOn(D)
  <2> SUFFICES ASSUME m.left >= 2 PROVE k \in MachineOn(D)
    OBVIOUS
  <2> DEFINE k1 == [m EXCEPT !.left = @ - 2]
             k2 == [k1 EXCEPT !.live = @ \cup {t}]
  <2>1. k = [k2 EXCEPT !.big[t] = n]
    OBVIOUS
  <2>2. k1 \in MachineOn(D)
    BY <1>2 DEF MachineOn
  <2> HIDE DEF k, k1
  <2>3. k2 \in MachineOn(D)
    BY <2>2 DEF MachineOn
  <2> HIDE DEF k2
  <2> QED  BY <1>1, <2>1, <2>3 DEF MachineOn
<1>4. /\ k.live = m.live \cup {t} /\ k.left = m.left - 2 /\ k.big[t] = n
      /\ \A o \in D \ {t} : k.big[o] = m.big[o]
  BY DEF MachineOn
<1>5. Allocated(m, t, w) = IF m.left < 2 \/ w = <<>> THEN Failed(m) ELSE Done(k)
  BY DEF Allocated, n
<1> HIDE DEF k
<1> DEFINE r == Allocated(m, t, w)
<1>6. IF m.left < 2 \/ w = <<>> THEN r.ok = FALSE /\ r.m = m ELSE r.ok = TRUE /\ r.m = k
  BY <1>5 DEF Failed, Done
<1> HIDE DEF r
<1>7. CASE m.left < 2 \/ w = <<>>
  <2>1. r.ok = FALSE /\ r.m = m /\ (m.left >= 2 /\ w # <<>>) = FALSE
    BY <1>2, <1>6, <1>7
  <2> QED  BY <2>1 DEF r
<1>8. CASE ~ (m.left < 2 \/ w = <<>>)
  <2>1. r.ok = TRUE /\ r.m = k /\ (m.left >= 2 /\ w # <<>>) = TRUE
    BY <1>2, <1>6, <1>8
  <2>2. m.left >= 2
    BY <1>2, <1>8
  <2> QED  BY <1>3, <1>4, <2>1, <2>2 DEF r, n
<1> QED  BY <1>7, <1>8

\* A structure that is freed is gone, and no other has changed.
LEMMA FreedDoes ==
  ASSUME NEW D, NEW m \in MachineOn(D), NEW u \in D
  PROVE  LET k == BigIntFree(m, u)
         IN  /\ k \in MachineOn(D) /\ k.live = m.live \ {u} /\ k.left = m.left
             /\ \A o \in D \ {u} : k.big[o] = m.big[o]
<1>1. Zero \in BigInteger
  BY ZeroType
<1> HIDE DEF BigInteger, Zero
<1> QED  BY <1>1 DEF BigIntFree, MachineOn

\* A realloc that fails costs the structure its words, and nothing else.
LEMMA ResizedDoes ==
  ASSUME NEW D, NEW m \in MachineOn(D), NEW z \in D, NEW w \in Seq(Word)
  PROVE  LET r == Resized(m, z, w)
         IN  /\ r.ok = (m.left >= 1)
             /\ r.m \in MachineOn(D) /\ r.m.live = m.live
             /\ \A o \in D \ {z} : r.m.big[o] = m.big[o]
             /\ ~ r.ok => r.m.big[z].words = <<>>
             /\ r.ok => /\ r.m.left = m.left - 1
                        /\ r.m.big[z] = Number(m.big[z].sign, w)
<1> DEFINE x == m.big[z]
           lost == [x EXCEPT !.words = <<>>]
           new == Number(x.sign, w)
           k == [m EXCEPT !.big[z] = lost]
           l == [m EXCEPT !.big[z] = new]
           j == [l EXCEPT !.left = @ - 1]
<1>1. x \in BigInteger /\ m.left \in Nat
  BY MachineFields
<1>2. lost \in BigInteger /\ lost.words = <<>>
  <2> HIDE DEF Word, x
  <2>1. <<>> \in Seq(Word)  OBVIOUS
  <2> QED  BY <1>1, <2>1 DEF BigInteger
<1>3. new \in BigInteger
  <2> HIDE DEF x
  <2> QED  BY <1>1, NumberType, NumberFields
<1>4. Resized(m, z, w) = IF m.left = 0 THEN Failed(k) ELSE Done(j)
  <2>1. [m EXCEPT !.big[z].words = <<>>] = k
    BY DEF MachineOn
  <2>2. [m EXCEPT !.left = @ - 1, !.big[z].words = w, !.big[z].wordcount = Len(w)] = j
    <3> DEFINE e == [x EXCEPT !.words = w]
    <3>1. e = [sign |-> x.sign, words |-> w, wordcount |-> x.wordcount]
      <4> HIDE DEF x, Word
      <4> QED  BY <1>1 DEF BigInteger
    <3>2. [e EXCEPT !.wordcount = Len(w)] = new
      <4> HIDE DEF e, x
      <4> QED  BY <3>1 DEF Number
    <3>3. [x EXCEPT !.words = w, !.wordcount = Len(w)] = [e EXCEPT !.wordcount = Len(w)]
      <4> HIDE DEF x
      <4> QED  OBVIOUS
    <3> HIDE DEF new, BigInteger, Word
    <3> QED  BY <3>2, <3>3 DEF MachineOn
  <2> HIDE DEF k, j
  <2> QED  BY <2>1, <2>2 DEF Resized
<1> HIDE DEF lost, new, BigInteger
<1>5. /\ k \in MachineOn(D) /\ k.live = m.live /\ k.big[z] = lost
      /\ \A o \in D \ {z} : k.big[o] = m.big[o]
  BY <1>2, PutType
<1>6. /\ l \in MachineOn(D) /\ l.live = m.live /\ l.left = m.left /\ l.big[z] = new
      /\ \A o \in D \ {z} : l.big[o] = m.big[o]
  BY <1>3, PutType
<1> HIDE DEF k, l
<1>7. m.left # 0 => j \in MachineOn(D)
  BY <1>1, <1>6 DEF MachineOn
<1>8. /\ j.live = m.live /\ j.big[z] = new /\ j.left = m.left - 1
      /\ \A o \in D \ {z} : j.big[o] = m.big[o]
  BY <1>6 DEF MachineOn
<1> HIDE DEF j
<1> DEFINE r == Resized(m, z, w)
<1>9. IF m.left = 0 THEN r.ok = FALSE /\ r.m = k ELSE r.ok = TRUE /\ r.m = j
  BY <1>4 DEF Failed, Done
<1> HIDE DEF r
<1>10. CASE m.left = 0
  <2>1. r.ok = FALSE /\ r.m = k /\ (m.left >= 1) = FALSE
    BY <1>9, <1>10
  <2> QED  BY <1>2, <1>5, <2>1 DEF r
<1>11. CASE m.left # 0
  <2>1. r.ok = TRUE /\ r.m = j /\ (m.left >= 1) = TRUE
    BY <1>1, <1>9, <1>11
  <2> QED  BY <1>7, <1>8, <1>11, <2>1 DEF r, new
<1> QED  BY <1>10, <1>11

\* What BigIntNeg and BigIntAbs compute.
Negated(n) == [n EXCEPT !.sign = - n.sign]
Absolute(n) == IF n.sign >= 0 THEN n ELSE Negated(n)

\* A negated number is a number.
LEMMA NegatedType ==
  ASSUME NEW n \in BigInteger
  PROVE  /\ Negated(n) \in BigInteger /\ Negated(n).words = n.words
         /\ Negated(n).sign = - n.sign
<1>1. - n.sign \in Int
  <2>1. n.sign \in Int
    BY NumberFields
  <2> QED  BY <2>1
<1> HIDE DEF Word
<1> QED  BY <1>1 DEF BigInteger, Negated

\* A call that fails at once has changed nothing.
LEMMA FailedDoes ==
  ASSUME NEW D, NEW m \in MachineOn(D), NEW z, NEW n
  PROVE  Outcome(D, {}, m, Failed(m), z, n) /\ Failed(m).ok = FALSE /\ Failed(m).m = m
<1> HIDE DEF MachineOn
<1> QED  BY DEF Outcome, Failed

\* BigIntCopy sets z to a, or fails with z as it was or without words.
LEMMA CopyDoes ==
  ASSUME NEW D, NEW m \in MachineOn(D), NEW z \in D, NEW a \in D
  PROVE  LET r == BigIntCopy(m, z, a)
         IN  /\ Outcome(D, {}, m, r, z, m.big[a])
             /\ r.ok => {z, a} \subseteq m.live
             /\ /\ {z, a} \subseteq m.live /\ m.big[a].words # <<>> /\ m.left >= 1
                => r.ok
             /\ r.ok => r.m.left >= m.left - 1
<1> DEFINE r == BigIntCopy(m, z, a)
           x == m.big[a]
           y == [m.big[z] EXCEPT !.sign = x.sign]
           k == [m EXCEPT !.big[z] = y]
           g == Resized(k, z, x.words)
<1>1. x \in BigInteger /\ m.big[z] \in BigInteger /\ m.left \in Nat
  BY MachineFields
<1>2. x.sign \in Int /\ x.words \in Seq(Word)
  <2> HIDE DEF x
  <2> QED  BY <1>1, NumberFields
<1>3. y \in BigInteger /\ y.sign = x.sign
  <2> DEFINE o == m.big[z]
             s == x.sign
  <2>1. o \in BigInteger /\ s \in Int
    BY <1>1, <1>2
  <2> HIDE DEF o, s, x, Word, negative, zero, positive
  <2>2. [o EXCEPT !.sign = s] \in BigInteger /\ [o EXCEPT !.sign = s].sign = s
    BY <2>1 DEF BigInteger
  <2> QED  BY <2>2 DEF o, s
<1>4. r = IF ~ {z, a} \subseteq m.live THEN Failed(m)
          ELSE IF z = a THEN Done(m)
          ELSE IF x.words = <<>> THEN Failed(m) ELSE g
  <2>1. [m EXCEPT !.big[z].sign = m.big[a].sign] = k
    BY DEF MachineOn
  <2> HIDE DEF k
  <2> QED  BY <2>1 DEF BigIntCopy
<1> HIDE DEF r, y
<1>5. /\ k \in MachineOn(D) /\ k.live = m.live /\ k.left = m.left /\ k.big[z] = y
      /\ \A o \in D \ {z} : k.big[o] = m.big[o]
  BY <1>3, PutType
<1> HIDE DEF k
<1>6. /\ g.ok = (m.left >= 1)
      /\ g.m \in MachineOn(D) /\ g.m.live = m.live
      /\ \A o \in D \ {z} : g.m.big[o] = m.big[o]
      /\ ~ g.ok => g.m.big[z].words = <<>>
      /\ g.ok => g.m.left = m.left - 1 /\ g.m.big[z] = Number(x.sign, x.words)
  <2> HIDE DEF x, MachineOn
  <2> QED  BY <1>2, <1>3, <1>5, ResizedDoes
<1> HIDE DEF g
<1>7. CASE ~ {z, a} \subseteq m.live
  <2>1. r = Failed(m)
    BY <1>4, <1>7
  <2>2. Outcome(D, {}, m, r, z, x) /\ r.ok = FALSE
    BY <2>1, FailedDoes
  <2> HIDE DEF x
  <2> QED  BY <1>7, <2>2 DEF r, x
<1>8. CASE {z, a} \subseteq m.live /\ z = a
  <2>1. r = Done(m)
    BY <1>4, <1>8
  <2>2. r.ok = TRUE /\ r.m = m
    BY <2>1 DEF Done
  <2>3. Outcome(D, {}, m, r, z, m.big[a])
    BY <1>8, <2>2 DEF Outcome
  <2>4. r.m.left >= m.left - 1
    BY <1>1, <2>2
  <2> QED  BY <1>8, <2>2, <2>3, <2>4 DEF r
<1>9. CASE {z, a} \subseteq m.live /\ z # a /\ x.words = <<>>
  <2>1. r = Failed(m)
    BY <1>4, <1>9
  <2>2. Outcome(D, {}, m, r, z, m.big[a]) /\ r.ok = FALSE
    BY <2>1, FailedDoes
  <2> QED  BY <1>9, <2>2 DEF r
<1>10. CASE {z, a} \subseteq m.live /\ z # a /\ x.words # <<>>
  <2>1. r = g
    BY <1>4, <1>10
  <2>2. Number(x.sign, x.words) = x
    <3> HIDE DEF x
    <3> QED  BY <1>1, <1>10, WholeNumber
  <2>3. g.ok \in BOOLEAN
    BY <1>6
  <2>4. Outcome(D, {}, m, r, z, x)
    <3> HIDE DEF x
    <3> QED  BY <1>6, <2>1, <2>2, <2>3 DEF Outcome
  <2>5. m.left >= 1 => r.ok
    BY <1>6, <2>1
  <2>6. r.ok => r.m.left >= m.left - 1
    BY <1>1, <1>6, <2>1
  <2> QED  BY <1>10, <2>4, <2>5, <2>6 DEF r
<1> QED  BY <1>7, <1>8, <1>9, <1>10

\* BigIntNeg likewise, with the sign changed; z may be a.
LEMMA NegDoes ==
  ASSUME NEW D, NEW m \in MachineOn(D), NEW z \in D, NEW a \in D
  PROVE  LET r == BigIntNeg(m, z, a)
         IN  /\ Outcome(D, {}, m, r, z, Negated(m.big[a]))
             /\ r.ok => {z, a} \subseteq m.live
             /\ /\ {z, a} \subseteq m.live /\ m.big[a].words # <<>> /\ m.left >= 1
                => r.ok
             /\ r.ok => r.m.left >= m.left - 1
<1> DEFINE r == BigIntNeg(m, z, a)
           c == BigIntCopy(m, z, a)
           x == m.big[a]
           k == [c.m EXCEPT !.big[z] = Negated(x)]
<1>1. /\ Outcome(D, {}, m, c, z, x)
      /\ c.ok => {z, a} \subseteq m.live
      /\ /\ {z, a} \subseteq m.live /\ x.words # <<>> /\ m.left >= 1
         => c.ok
      /\ c.ok => c.m.left >= m.left - 1
  BY CopyDoes
<1> HIDE DEF c
<1>2. x \in BigInteger
  BY MachineFields
<1>3. Negated(x) \in BigInteger
  <2> HIDE DEF x
  <2> QED  BY <1>2, NegatedType
<1>4. c.ok \in BOOLEAN /\ c.m \in MachineOn(D) /\ (c.ok => c.m.big[z] = x /\ c.m.big[a] = x)
  BY <1>1 DEF Outcome
<1>5. c.ok => r = Done(k)
  <2> SUFFICES ASSUME c.ok PROVE r = Done(k)
    OBVIOUS
  <2>1. r = Done([c.m EXCEPT !.big[z].sign = - c.m.big[a].sign])
    BY DEF BigIntNeg, c
  <2>2. [c.m EXCEPT !.big[z].sign = - c.m.big[a].sign] = k
    BY <1>4 DEF MachineOn, Negated
  <2> QED  BY <2>1, <2>2
<1>6. ~ c.ok => r = c
  BY DEF BigIntNeg, c
<1> HIDE DEF r, x
<1>7. /\ k \in MachineOn(D) /\ k.live = c.m.live /\ k.left = c.m.left /\ k.big[z] = Negated(x)
      /\ \A o \in D \ {z} : k.big[o] = c.m.big[o]
  BY <1>3, <1>4, PutType
<1> HIDE DEF k
<1>8. CASE c.ok
  <2>1. r.ok = TRUE /\ r.m = k
    BY <1>5, <1>8 DEF Done
  <2>2. Outcome(D, {}, m, r, z, Negated(x))
    BY <1>1, <1>7, <2>1 DEF Outcome
  <2> QED  BY <1>1, <1>7, <1>8, <2>1, <2>2 DEF r, x
<1>9. CASE ~ c.ok
  <2>1. r = c
    BY <1>6, <1>9
  <2>2. Outcome(D, {}, m, r, z, Negated(x))
    BY <1>1, <1>9, <2>1 DEF Outcome
  <2> QED  BY <1>1, <1>9, <2>1, <2>2 DEF r, x
<1> QED  BY <1>8, <1>9

\* BigIntAbs is one or the other.
LEMMA AbsDoes ==
  ASSUME NEW D, NEW m \in MachineOn(D), NEW z \in D, NEW a \in D
  PROVE  LET r == BigIntAbs(m, z, a)
         IN  /\ Outcome(D, {}, m, r, z, Absolute(m.big[a]))
             /\ r.ok => {z, a} \subseteq m.live
             /\ /\ {z, a} \subseteq m.live /\ m.big[a].words # <<>> /\ m.left >= 1
                => r.ok
<1> DEFINE r == BigIntAbs(m, z, a)
           x == m.big[a]
           Good(q, n) == /\ Outcome(D, {}, m, q, z, n)
                         /\ q.ok => {z, a} \subseteq m.live
                         /\ /\ {z, a} \subseteq m.live /\ x.words # <<>> /\ m.left >= 1
                            => q.ok
<1>1. Good(BigIntCopy(m, z, a), x)
  BY CopyDoes
<1>2. Good(BigIntNeg(m, z, a), Negated(x))
  BY NegDoes
<1>3. CASE a \in m.live
  <2>1. BigIntSgn(m, a) = x.sign
    BY <1>3 DEF BigIntSgn
  <2>2. r = IF x.sign >= 0 THEN BigIntCopy(m, z, a) ELSE BigIntNeg(m, z, a)
    BY <2>1 DEF BigIntAbs
  <2> HIDE DEF r, x, Good
  <2>3. Good(r, Absolute(x))
    BY <1>1, <1>2, <2>2 DEF Absolute
  <2> QED  BY <2>3 DEF Good, r, x
<1>4. CASE a \notin m.live
  <2>1. r = BigIntCopy(m, z, a)
    <3>1. BigIntSgn(m, a) = 0
      BY <1>4 DEF BigIntSgn
    <3> QED  BY <3>1 DEF BigIntAbs
  <2>2. r.ok = FALSE
    BY <1>1, <1>4, <2>1 DEF Outcome
  <2>3. Outcome(D, {}, m, r, z, x)
    BY <1>1, <2>1
  <2> HIDE DEF r, x
  <2>4. Outcome(D, {}, m, r, z, Absolute(x))
    BY <2>2, <2>3 DEF Outcome
  <2> QED  BY <1>4, <2>2, <2>4 DEF r, x
<1> QED  BY <1>3, <1>4

----------------------------------------------------------------------------
(***************************************************************************)
(* What the operations compute, as functions of their operands alone.      *)
(***************************************************************************)

\* The words of a sum and of a product as MpAdd and MpMul leave them.
Added(x, y) == MpAdd(Zeros(Longer(x.wordcount, y.wordcount)),
                     x.words, x.wordcount, y.words, y.wordcount)
Multiplied(x, y) == MpMul(Zeros(x.wordcount + y.wordcount),
                          x.words, x.wordcount, y.words, y.wordcount)

AddedWords(x, y) ==
  IF Added(x, y).carry = 0 THEN Added(x, y).words ELSE Append(Added(x, y).words, 1)
SumOfMagnitudes(x, y) == Number(x.sign, Truncated(AddedWords(x, y)))

Compared(x, y) ==
  IF x.sign < y.sign THEN -1
  ELSE IF x.sign > y.sign THEN 1
  ELSE IF x.sign = positive
  THEN MpCompare(x.words, x.wordcount, y.words, y.wordcount)
  ELSE MpCompare(y.words, y.wordcount, x.words, x.wordcount)

DifferenceOfMagnitudes(x, y) ==
  LET cmp == IF x.sign = negative THEN - Compared(x, y) ELSE Compared(x, y)
  IN  IF cmp = 0 THEN Zero
      ELSE Number(x.sign * cmp, Truncated(DifferenceWords(x, y)))

SumOf(x, y) ==
  IF x.sign = zero THEN y
  ELSE IF y.sign = zero THEN x
  ELSE IF x.sign = y.sign THEN SumOfMagnitudes(x, y)
  ELSE IF x.sign > y.sign THEN DifferenceOfMagnitudes(x, Negated(y))
  ELSE DifferenceOfMagnitudes(y, Negated(x))

DifferenceOf(x, y) ==
  IF x.sign = zero THEN y
  ELSE IF y.sign = zero THEN x
  ELSE IF x.sign = y.sign THEN DifferenceOfMagnitudes(x, y)
  ELSE IF x.sign > y.sign THEN SumOfMagnitudes(x, Negated(y))
  ELSE SumOfMagnitudes(Negated(y), x)

ProductOf(x, y) ==
  LET uv == Multiplied(x, y)
  IN  Number(x.sign * y.sign,
             IF \A i \in 1 .. Len(uv) : uv[i] = 0 THEN <<0>> ELSE Truncated(uv))

\* With an operand that has words, the longer length is positive.
LEMMA LongerPositive ==
  ASSUME NEW m \in Nat, NEW n \in Nat, m > 0 \/ n > 0
  PROVE  Longer(m, n) \in Nat \ {0} /\ Longer(m, n) > 0
  BY DEF Longer

\* What a call that refuses an operand leaves are words as well.
LEMMA ZerosType ==
  ASSUME NEW n \in Nat PROVE Zeros(n) \in Seq(Word)
<1>1. 0 \in Word  BY WordBaseType DEF Word
<1> HIDE DEF Word
<1> QED  BY <1>1 DEF Zeros

\* Truncating makes words of words, even of none.
LEMMA TruncatedIsWords ==
  ASSUME NEW s \in Seq(Word) PROVE Truncated(s) \in Seq(Word)
<1>1. CASE s # <<>>
  BY <1>1, TruncatedType
<1>2. CASE s = <<>>
  <2>1. {i \in 1 .. Len(s) : s[i] # 0} = {}
    BY <1>2
  <2> HIDE DEF Word
  <2> QED  BY <2>1 DEF Truncated
<1> QED  BY <1>1, <1>2

\* Operands that have their words are not refused.
LEMMA OperandsTaken ==
  ASSUME NEW x \in BigInteger, NEW y \in BigInteger, x.words # <<>>, y.words # <<>>
  PROVE  /\ Added(x, y) = SummedWords(x.words, y.words)
         /\ Multiplied(x, y) = MultipliedWords(x.words, y.words)
         /\ MpCompare(x.words, x.wordcount, y.words, y.wordcount) =
              ComparedWords(x.words, y.words)
         /\ DifferenceWords(x, y) = DifferenceOfWords(x.words, y.words)
<1>1. ~ Missing(x.words, x.wordcount) /\ ~ Missing(y.words, y.wordcount)
  BY DEF Missing
<1> DEFINE d == SubtractedWords(x.words, y.words)
<1>2. MpSub(Zeros(Longer(x.wordcount, y.wordcount)),
            x.words, x.wordcount, y.words, y.wordcount) = d
  BY <1>1 DEF MpSub
<1>3. d.words \in Seq(Word)
  <2>1. x.words \in Seq(Word) /\ y.words \in Seq(Word)
    BY NumberFields
  <2> QED  BY <2>1, DifferenceType
<1> DEFINE w == d.words
<1>4. ~ Missing(<<0>>, 1) /\ ~ Missing(w, Len(w))
  <2>1. w \in Seq(Word)
    BY <1>3
  <2> HIDE DEF w, Word
  <2> QED  BY <2>1 DEF Missing
<1>5. MpSub(w, <<0>>, 1, w, Len(w)) = SubtractedWords(<<0>>, w)
  BY <1>4 DEF MpSub
<1>6. DifferenceWords(x, y) = DifferenceOfWords(x.words, y.words)
  BY <1>2, <1>5 DEF DifferenceWords, DifferenceOfWords
<1> QED  BY <1>1, <1>6 DEF Added, Multiplied, MpAdd, MpMul, MpCompare

\* A sum of magnitudes is a number, and one with words if the operands have
\* theirs.
LEMMA SumOfMagnitudesType ==
  ASSUME NEW x \in BigInteger, NEW y \in BigInteger
  PROVE  /\ AddedWords(x, y) \in Seq(Word) /\ Added(x, y).words \in Seq(Word)
         /\ SumOfMagnitudes(x, y) \in BigInteger /\ SumOfMagnitudes(x, y).sign = x.sign
         /\ x.words # <<>> /\ y.words # <<>> =>
              /\ AddedWords(x, y) # <<>> /\ Added(x, y).words # <<>>
              /\ SumOfMagnitudes(x, y).words # <<>>
<1> DEFINE sum == Added(x, y)
           n == Longer(Len(x.words), Len(y.words))
           w == AddedWords(x, y)
           t == Truncated(w)
           s == x.sign
<1>1. /\ x.words \in Seq(Word) /\ y.words \in Seq(Word)
      /\ x.wordcount \in Nat /\ y.wordcount \in Nat
      /\ s \in Int
  BY NumberFields
<1>2. /\ SummedWords(x.words, y.words).words \in Seq(Word)
      /\ Len(SummedWords(x.words, y.words).words) = n
  BY <1>1, SumType
<1>3. sum.words \in Seq(Word)
  <2> DEFINE l == Longer(x.wordcount, y.wordcount)
  <2>1. l \in Nat
    BY <1>1, LongerType
  <2> HIDE DEF l
  <2>2. Zeros(l) \in Seq(Word)
    BY <2>1, ZerosType
  <2>3. sum = IF Missing(x.words, x.wordcount) \/ Missing(y.words, y.wordcount)
              THEN [words |-> Zeros(l), carry |-> 0]
              ELSE SummedWords(x.words, y.words)
    BY DEF Added, MpAdd, l
  <2> HIDE DEF sum, Word
  <2> QED  BY <1>2, <2>2, <2>3
<1>4. w = IF sum.carry = 0 THEN sum.words ELSE Append(sum.words, 1)
  BY DEF AddedWords
<1>5. 1 \in Word
  BY WordBaseType DEF Word
<1>6. x.words # <<>> /\ y.words # <<>> => sum.words # <<>>
  <2> SUFFICES ASSUME x.words # <<>>, y.words # <<>> PROVE sum.words # <<>>
    OBVIOUS
  <2>1. n \in Nat \ {0}
    BY <1>1, LengthOfWords, LongerPositive
  <2>2. sum = SummedWords(x.words, y.words)
    BY OperandsTaken
  <2> HIDE DEF sum, n, Word
  <2> QED  BY <1>2, <2>1, <2>2
<1> HIDE DEF sum, n, w, Word
<1>7. w \in Seq(Word) /\ (sum.words # <<>> => w # <<>>)
  BY <1>3, <1>4, <1>5
<1>8. t \in Seq(Word) /\ (w # <<>> => t # <<>>)
  BY <1>7, TruncatedType, TruncatedIsWords
<1> HIDE DEF t, s
<1>9. Number(s, t) \in BigInteger /\ Number(s, t).words = t /\ Number(s, t).sign = s
  BY <1>1, <1>8, NumberType
<1>10. SumOfMagnitudes(x, y) = Number(s, t)
  BY DEF SumOfMagnitudes, w, t, s
<1> HIDE DEF BigInteger
<1> QED  BY <1>3, <1>6, <1>7, <1>8, <1>9, <1>10 DEF w, sum, s

\* So are the words of a difference, reversed or not,
LEMMA DifferenceOfWordsType ==
  ASSUME NEW v \in Seq(Word), NEW w \in Seq(Word)
  PROVE  /\ DifferenceOfWords(v, w) \in Seq(Word)
         /\ v # <<>> => DifferenceOfWords(v, w) # <<>>
<1> DEFINE d == SubtractedWords(v, w)
           o == <<0>>
           e == SubtractedWords(o, d.words)
<1>1. d.words \in Seq(Word) /\ Len(d.words) = Longer(Len(v), Len(w))
  BY DifferenceType
<1>2. o \in Seq(Word) /\ Len(o) = 1
  <2>1. 0 \in Word  BY WordBaseType DEF Word
  <2> HIDE DEF Word
  <2> QED  BY <2>1
<1>3. e.words \in Seq(Word) /\ Len(e.words) = Longer(1, Len(d.words))
  <2> HIDE DEF d, o
  <2>1. SubtractedWords(o, d.words).words \in Seq(Word)
        /\ Len(SubtractedWords(o, d.words).words) = Longer(Len(o), Len(d.words))
    BY <1>1, <1>2, DifferenceType
  <2> QED  BY <1>2, <2>1
<1>4. DifferenceOfWords(v, w) = IF d.borrow = 0 THEN d.words ELSE e.words
  BY DEF DifferenceOfWords
<1> HIDE DEF d, e, Word
<1>5. v # <<>> => d.words # <<>> /\ e.words # <<>>
  <2> SUFFICES ASSUME v # <<>> PROVE d.words # <<>> /\ e.words # <<>>
    OBVIOUS
  <2>1. Len(v) \in Nat /\ Len(v) > 0 /\ Len(w) \in Nat /\ Len(d.words) \in Nat
    BY <1>1, LengthOfWords
  <2>2. Len(d.words) > 0
    BY <1>1, <2>1, LongerPositive
  <2>3. Len(e.words) > 0
    <3> DEFINE p == Len(d.words)
    <3>1. p \in Nat /\ Len(e.words) = Longer(1, p)
      BY <1>3, <2>1
    <3> HIDE DEF p
    <3>2. Longer(1, p) > 0
      BY <3>1 DEF Longer
    <3> QED  BY <3>1, <3>2
  <2> QED  BY <1>1, <1>3, <2>2, <2>3, LengthOfWords
<1> QED  BY <1>1, <1>3, <1>4, <1>5

\* also where an operand is refused,
LEMMA DifferenceWordsType ==
  ASSUME NEW x \in BigInteger, NEW y \in BigInteger
  PROVE  /\ DifferenceWords(x, y) \in Seq(Word)
         /\ x.words # <<>> /\ y.words # <<>> => DifferenceWords(x, y) # <<>>
<1> DEFINE l == Longer(x.wordcount, y.wordcount)
           lacking == Missing(x.words, x.wordcount) \/ Missing(y.words, y.wordcount)
           d == MpSub(Zeros(l), x.words, x.wordcount, y.words, y.wordcount)
           w == d.words
           e == MpSub(w, <<0>>, 1, w, Len(w))
<1>1. /\ x.words \in Seq(Word) /\ y.words \in Seq(Word)
      /\ x.wordcount \in Nat /\ y.wordcount \in Nat
  BY NumberFields
<1>2. Zeros(l) \in Seq(Word)
  <2>1. l \in Nat
    BY <1>1, LongerType
  <2> HIDE DEF l, Word
  <2> QED  BY <2>1, ZerosType
<1>3. d = IF lacking THEN [words |-> Zeros(l), borrow |-> 0]
          ELSE SubtractedWords(x.words, y.words)
  BY DEF MpSub
<1>4. DifferenceWords(x, y) = IF d.borrow = 0 THEN d.words ELSE e.words
  BY DEF DifferenceWords
<1>5. w \in Seq(Word)
  <2>1. SubtractedWords(x.words, y.words).words \in Seq(Word)
    BY <1>1, DifferenceType
  <2> HIDE DEF d, l, lacking, Word
  <2> QED  BY <1>2, <1>3, <2>1
<1>6. e.words \in Seq(Word)
  <2> DEFINE o == <<0>>
  <2>1. o \in Seq(Word)
    <3>1. 0 \in Word  BY WordBaseType DEF Word
    <3> HIDE DEF Word
    <3> QED  BY <3>1
  <2>2. e = IF Missing(o, 1) \/ Missing(w, Len(w)) THEN [words |-> w, borrow |-> 0]
            ELSE SubtractedWords(o, w)
    BY DEF MpSub
  <2> HIDE DEF w, o, e
  <2>3. SubtractedWords(o, w).words \in Seq(Word)
    BY <1>5, <2>1, DifferenceType
  <2> HIDE DEF Word
  <2> QED  BY <1>5, <2>2, <2>3
<1>7. DifferenceWords(x, y) \in Seq(Word)
  <2> HIDE DEF d, e, Word
  <2> QED  BY <1>4, <1>5, <1>6
<1>8. x.words # <<>> /\ y.words # <<>> => DifferenceWords(x, y) # <<>>
  <2> HIDE DEF Word
  <2> QED  BY <1>1, OperandsTaken, DifferenceOfWordsType
<1> QED  BY <1>7, <1>8

\* The order of two numbers is one of three, or -2 or 2 if one lacks its words,
LEMMA ComparedType ==
  ASSUME NEW x \in BigInteger, NEW y \in BigInteger
  PROVE  /\ Compared(x, y) \in Int
         /\ x.words # <<>> /\ y.words # <<>> => Compared(x, y) \in {-1, 0, 1}
<1>1. \A v, w : ComparedWords(v, w) \in {-1, 0, 1}
  BY DEF ComparedWords
<1>2. \A v, k, w, n : MpCompare(v, k, w, n) \in {-2, -1, 0, 1}
  BY <1>1 DEF MpCompare
<1>3. Compared(x, y) \in {-2, -1, 0, 1}
  <2> HIDE DEF BigInteger
  <2> QED  BY <1>2 DEF Compared
<1>4. ASSUME x.words # <<>>, y.words # <<>> PROVE Compared(x, y) \in {-1, 0, 1}
  <2>1. /\ MpCompare(x.words, x.wordcount, y.words, y.wordcount) =
             ComparedWords(x.words, y.words)
        /\ MpCompare(y.words, y.wordcount, x.words, x.wordcount) =
             ComparedWords(y.words, x.words)
    BY <1>4, OperandsTaken
  <2> HIDE DEF BigInteger
  <2> QED  BY <1>1, <2>1 DEF Compared
<1> QED  BY <1>3, <1>4

\* and a difference of magnitudes is a number, with words if the operands have
\* theirs, and with one of the three signs if theirs are,
LEMMA DifferenceOfMagnitudesType ==
  ASSUME NEW x \in BigInteger, NEW y \in BigInteger
  PROVE  /\ DifferenceOfMagnitudes(x, y) \in BigInteger
         /\ x.words # <<>> /\ y.words # <<>> =>
              /\ DifferenceOfMagnitudes(x, y).words # <<>>
              /\ x.sign \in {-1, 0, 1} =>
                   DifferenceOfMagnitudes(x, y).sign \in {-1, 0, 1}
<1> DEFINE c == Compared(x, y)
           cmp == IF x.sign = negative THEN - c ELSE c
           w == DifferenceWords(x, y)
           t == Truncated(w)
           s == x.sign * cmp
           p == x.sign
<1>1. p \in Int
  BY NumberFields
<1>2. w \in Seq(Word) /\ (x.words # <<>> /\ y.words # <<>> => w # <<>>)
  <2> HIDE DEF Word
  <2> QED  BY DifferenceWordsType
<1>3. t \in Seq(Word) /\ (w # <<>> => t # <<>>)
  <2> HIDE DEF w
  <2> QED  BY <1>2, TruncatedType, TruncatedIsWords
<1>4. c \in Int /\ (x.words # <<>> /\ y.words # <<>> => c \in {-1, 0, 1})
  BY ComparedType
<1>5. /\ s \in Int
      /\ c \in {-1, 0, 1} /\ p \in {-1, 0, 1} => s \in {-1, 0, 1}
  <2> HIDE DEF c
  <2>1. cmp \in Int /\ (c \in {-1, 0, 1} => cmp \in {-1, 0, 1})
    <3> HIDE DEF p
    <3>1. CASE x.sign = negative
      BY <1>4, <3>1
    <3>2. CASE x.sign # negative
      BY <1>4, <3>2
    <3> QED  BY <3>1, <3>2
  <2> HIDE DEF cmp, p
  <2>2. p * cmp \in Int
    BY <1>1, <2>1
  <2>3. cmp \in {-1, 0, 1} /\ p \in {-1, 0, 1} => p * cmp \in {-1, 0, 1}
    OBVIOUS
  <2> QED  BY <2>1, <2>2, <2>3 DEF p
<1>6. DifferenceOfMagnitudes(x, y) = IF cmp = 0 THEN Zero ELSE Number(s, t)
  BY DEF DifferenceOfMagnitudes
<1> HIDE DEF cmp, s, t, c, w
<1>7. Number(s, t) \in BigInteger /\ Number(s, t).words = t /\ Number(s, t).sign = s
  BY <1>3, <1>5, NumberType
<1>8. Zero.sign \in {-1, 0, 1}
  BY ZeroType DEF zero
<1> HIDE DEF BigInteger, Zero
<1> QED  BY <1>2, <1>3, <1>4, <1>5, <1>6, <1>7, <1>8, ZeroType DEF p

\* as is a product.
LEMMA ProductOfType ==
  ASSUME NEW x \in BigInteger, NEW y \in BigInteger
  PROVE  /\ Multiplied(x, y) \in Seq(Word)
         /\ ProductOf(x, y) \in BigInteger
         /\ x.words # <<>> /\ y.words # <<>> =>
              /\ Multiplied(x, y) # <<>> /\ ProductOf(x, y).words # <<>>
         /\ x.sign \in {-1, 0, 1} /\ y.sign \in {-1, 0, 1} =>
              ProductOf(x, y).sign \in {-1, 0, 1}
<1> DEFINE uv == Multiplied(x, y)
           t == IF \A i \in 1 .. Len(uv) : uv[i] = 0 THEN <<0>> ELSE Truncated(uv)
           p == x.sign
           q == y.sign
           s == p * q
<1>1. /\ x.words \in Seq(Word) /\ y.words \in Seq(Word)
      /\ x.wordcount \in Nat /\ y.wordcount \in Nat
      /\ p \in Int /\ q \in Int
  BY NumberFields
<1>2. MultipliedWords(x.words, y.words) \in Seq(Word)
      /\ Len(MultipliedWords(x.words, y.words)) = Len(x.words) + Len(y.words)
  BY <1>1, ProductType
<1>3. uv \in Seq(Word)
  <2> DEFINE n == x.wordcount + y.wordcount
  <2>1. n \in Nat
    BY <1>1
  <2> HIDE DEF n
  <2>2. Zeros(n) \in Seq(Word)
    BY <2>1, ZerosType
  <2>3. uv = IF Missing(x.words, x.wordcount) \/ Missing(y.words, y.wordcount)
             THEN Zeros(n) ELSE MultipliedWords(x.words, y.words)
    BY DEF Multiplied, MpMul, n
  <2> HIDE DEF uv, Word
  <2> QED  BY <1>2, <2>2, <2>3
<1>4. x.words # <<>> /\ y.words # <<>> => uv # <<>>
  <2> SUFFICES ASSUME x.words # <<>>, y.words # <<>> PROVE uv # <<>>
    OBVIOUS
  <2> DEFINE v == x.words
             w == y.words
  <2>1. Len(v) \in Nat /\ Len(v) > 0 /\ Len(w) \in Nat
    BY <1>1, LengthOfWords
  <2>2. Len(uv) = Len(v) + Len(w)
    BY <1>2, OperandsTaken
  <2> HIDE DEF uv, v, w, Word
  <2> QED  BY <1>3, <2>1, <2>2
<1>5. t \in Seq(Word) /\ t # <<>>
  <2>1. <<0>> \in Seq(Word) /\ <<0>> # <<>>
    <3>1. 0 \in Word  BY WordBaseType DEF Word
    <3> HIDE DEF Word
    <3> QED  BY <3>1
  <2>2. CASE \A i \in 1 .. Len(uv) : uv[i] = 0
    <3> HIDE DEF Word, uv
    <3> QED  BY <2>1, <2>2
  <2>3. CASE ~ \A i \in 1 .. Len(uv) : uv[i] = 0
    <3> HIDE DEF uv, Word
    <3>1. uv # <<>>
      BY <2>3
    <3>2. Truncated(uv) \in Seq(Word) /\ Truncated(uv) # <<>>
      BY <1>3, <3>1, TruncatedType
    <3> QED  BY <2>3, <3>2
  <2> QED  BY <2>2, <2>3
<1>6. /\ s \in Int
      /\ p \in {-1, 0, 1} /\ q \in {-1, 0, 1} => s \in {-1, 0, 1}
  <2> HIDE DEF p, q
  <2>1. p * q \in Int
    BY <1>1
  <2>2. p \in {-1, 0, 1} /\ q \in {-1, 0, 1} => p * q \in {-1, 0, 1}
    OBVIOUS
  <2> QED  BY <2>1, <2>2
<1>7. ProductOf(x, y) = Number(s, t)
  BY DEF ProductOf
<1> HIDE DEF s, t, uv
<1>8. Number(s, t) \in BigInteger /\ Number(s, t).words = t /\ Number(s, t).sign = s
  BY <1>5, <1>6, NumberType
<1> HIDE DEF BigInteger
<1> QED  BY <1>3, <1>4, <1>5, <1>6, <1>7, <1>8 DEF uv, p, q

\* What the operations make of operands that have their words and signs of the
\* enum has both as well.
LEMMA ProperResults ==
  ASSUME NEW x \in BigInteger, NEW y \in BigInteger, Proper(x), Proper(y)
  PROVE  /\ Proper(Negated(x)) /\ Proper(Absolute(x))
         /\ Proper(SumOf(x, y)) /\ Proper(DifferenceOf(x, y)) /\ Proper(ProductOf(x, y))
<1>1. \A n : Proper(n) <=> n.words # <<>> /\ n.sign \in {-1, 0, 1}
  BY DEF Proper, negative, zero, positive
<1>2. ASSUME NEW v \in BigInteger, Proper(v)
      PROVE  Negated(v) \in BigInteger /\ Proper(Negated(v))
  <2>1. Negated(v) \in BigInteger /\ Negated(v).words = v.words /\ Negated(v).sign = - v.sign
    BY NegatedType
  <2> HIDE DEF BigInteger
  <2>2. v.words # <<>> /\ v.sign \in {-1, 0, 1}
    BY <1>1, <1>2
  <2>3. - v.sign \in {-1, 0, 1}
    BY <2>2
  <2> QED  BY <1>1, <2>1, <2>2, <2>3
<1>3. ASSUME NEW v \in BigInteger, NEW w \in BigInteger, Proper(v), Proper(w)
      PROVE  /\ Proper(SumOfMagnitudes(v, w))
             /\ Proper(DifferenceOfMagnitudes(v, w))
             /\ Proper(ProductOf(v, w))
  <2>1. /\ v.words # <<>> /\ v.sign \in {-1, 0, 1}
        /\ w.words # <<>> /\ w.sign \in {-1, 0, 1}
    BY <1>1, <1>3
  <2>2. SumOfMagnitudes(v, w).words # <<>> /\ SumOfMagnitudes(v, w).sign = v.sign
    BY <2>1, SumOfMagnitudesType
  <2>3. /\ DifferenceOfMagnitudes(v, w).words # <<>>
        /\ DifferenceOfMagnitudes(v, w).sign \in {-1, 0, 1}
    BY <2>1, DifferenceOfMagnitudesType
  <2>4. ProductOf(v, w).words # <<>> /\ ProductOf(v, w).sign \in {-1, 0, 1}
    BY <2>1, ProductOfType
  <2> HIDE DEF BigInteger
  <2> QED  BY <1>1, <2>1, <2>2, <2>3, <2>4
<1> HIDE DEF BigInteger
<1>4. /\ Negated(x) \in BigInteger /\ Proper(Negated(x))
      /\ Negated(y) \in BigInteger /\ Proper(Negated(y))
  BY <1>2
<1>5. Proper(SumOf(x, y))
  BY <1>3, <1>4 DEF SumOf
<1>6. Proper(DifferenceOf(x, y))
  BY <1>3, <1>4 DEF DifferenceOf
<1> QED  BY <1>3, <1>4, <1>5, <1>6 DEF Absolute

----------------------------------------------------------------------------
(***************************************************************************)
(* What the operations denote.                                             *)
(***************************************************************************)

\* A well-formed number: its sign, its magnitude, and what it denotes.
LEMMA Denoted ==
  ASSUME NEW x \in BigInteger, WellFormed(x)
  PROVE  /\ x.sign \in {-1, 0, 1} /\ x.words \in Seq(Word) /\ x.words # <<>>
         /\ Magnitude(x.words) \in Nat
         /\ x.sign = 0 <=> Magnitude(x.words) = 0
         /\ Denotes(x) = x.sign * Magnitude(x.words)
         /\ x.sign = 0 => Denotes(x) = 0
         /\ x.sign = 1 => Denotes(x) = Magnitude(x.words)
         /\ x.sign = -1 => Denotes(x) = - Magnitude(x.words)
<1> DEFINE s == x.sign
           w == x.words
           p == Magnitude(w)
<1>1. s \in {-1, 0, 1} /\ w \in Seq(Word)
  <2>1. s \in {-1, 0, 1}
    BY DEF WellFormed, negative, zero, positive
  <2> QED  BY <2>1, NumberFields
<1>2. p \in Nat
  <2> HIDE DEF w
  <2>1. Len(w) \in Nat /\ Len(w) >= Len(w)
    <3> HIDE DEF Word
    <3> QED  BY <1>1
  <2> QED  BY <1>1, <2>1, MagnitudeType
<1>3. w # <<>> /\ (s = 0 <=> p = 0) /\ Denotes(x) = s * p
  BY DEF WellFormed, Denotes, zero
<1> HIDE DEF s, w, p
<1>4. (s = 0 => s * p = 0) /\ (s = 1 => s * p = p) /\ (s = -1 => s * p = -p)
  BY <1>2
<1> QED  BY <1>1, <1>2, <1>3, <1>4 DEF s, w, p

\* A number made of a sign and of words without a zero at the top.
LEMMA MadeOf ==
  ASSUME NEW s \in {-1, 0, 1}, NEW w \in Seq(Word), w # <<>>,
         s = 0 <=> Magnitude(w) = 0, Len(w) = 1 \/ w[Len(w)] # 0
  PROVE  /\ WellFormed(Number(s, w)) /\ Denotes(Number(s, w)) = s * Magnitude(w)
         /\ Number(s, w) \in BigInteger
<1>1. /\ Number(s, w) \in BigInteger /\ Number(s, w).sign = s /\ Number(s, w).words = w
  BY NumberType
<1> QED  BY <1>1 DEF WellFormed, Denotes, negative, zero, positive

\* The number zero denotes zero.
LEMMA ZeroDenotes == WellFormed(Zero) /\ Denotes(Zero) = 0
<1> DEFINE o == <<0>>
<1>1. o \in Seq(Word) /\ Len(o) = 1 /\ o # <<>> /\ \A i \in 1 .. Len(o) : o[i] = 0
  <2>1. 0 \in Word  BY WordBaseType DEF Word
  <2> HIDE DEF Word
  <2> QED  BY <2>1
<1> HIDE DEF o
<1>2. Magnitude(o) = 0
  BY <1>1, ZeroWords
<1>3. Number(0, o).sign = 0 /\ Number(0, o).words = o
  BY DEF Number
<1>4. WellFormed(Number(0, o)) /\ Denotes(Number(0, o)) = 0
  BY <1>1, <1>2, <1>3 DEF WellFormed, Denotes, negative, zero, positive
<1> QED  BY <1>4 DEF Zero, zero, o

\* Negating a number negates what it denotes.
LEMMA NegatedDenotes ==
  ASSUME NEW x \in BigInteger, WellFormed(x)
  PROVE  /\ Negated(x) \in BigInteger /\ WellFormed(Negated(x))
         /\ Denotes(Negated(x)) = - Denotes(x)
         /\ Negated(x).words = x.words /\ Negated(x).sign = - x.sign
<1> DEFINE n == Negated(x)
           s == x.sign
           p == Magnitude(x.words)
<1>1. n \in BigInteger /\ n.words = x.words /\ n.sign = - s
  BY NegatedType
<1>2. s \in {-1, 0, 1} /\ p \in Nat /\ Denotes(x) = s * p /\ (s = 0 <=> p = 0)
  BY Denoted
<1>3. Denotes(n) = (- s) * p
  <2> HIDE DEF n
  <2> QED  BY <1>1 DEF Denotes
<1>4. WellFormed(n)
  <2>1. (n.sign = 0 <=> p = 0) /\ n.sign \in {-1, 0, 1}
    <3> HIDE DEF n, s, p
    <3> QED  BY <1>1, <1>2
  <2> HIDE DEF n
  <2> QED  BY <1>1, <2>1 DEF WellFormed, negative, zero, positive
<1> HIDE DEF s, p
<1>5. (- s) * p = - (s * p)
  BY <1>2
<1> QED  BY <1>1, <1>2, <1>3, <1>4, <1>5 DEF s

\* The words that AddMagnitudes stores denote the sum of the magnitudes.
LEMMA AddedWordsExact ==
  ASSUME NEW x \in BigInteger, NEW y \in BigInteger, ~ LosesCarry(x.words, y.words),
         x.words # <<>>, y.words # <<>>
  PROVE  Magnitude(AddedWords(x, y)) = Magnitude(x.words) + Magnitude(y.words)
<1> DEFINE a == x.words
           b == y.words
           n == Longer(Len(a), Len(b))
           s == SummedWords(a, b)
           w == s.words
           t == Append(w, 1)
<1>1. a \in Seq(Word) /\ b \in Seq(Word) /\ ~ LosesCarry(a, b)
  BY NumberFields
<1> HIDE DEF a, b
<1>2. Magnitude(w) + s.carry * Weight(n) = Magnitude(a) + Magnitude(b)
  BY <1>1, AddExact
<1>3. w \in Seq(Word) /\ Len(w) = n /\ s.carry \in {0, 1}
  BY <1>1, SumType
<1>4. n \in Nat
  <2>1. Len(a) \in Nat /\ Len(b) \in Nat
    <3> HIDE DEF Word
    <3> QED  BY <1>1
  <2> QED  BY <2>1, LongerType
<1>5. AddedWords(x, y) = IF s.carry = 0 THEN w ELSE t
  <2>1. Added(x, y) = s
    BY OperandsTaken DEF a, b
  <2> QED  BY <2>1 DEF AddedWords
<1> HIDE DEF n, w
<1>6. Magnitude(w) \in Nat /\ Magnitude(w) = Mag(w, n) /\ Weight(n) \in Nat
  <2>1. n >= Len(w)  BY <1>3, <1>4
  <2> QED  BY <1>3, <1>4, <2>1, MagnitudeType
<1>7. CASE s.carry = 0
  <2> DEFINE c == s.carry
             W == Weight(n)
             p == Magnitude(w)
  <2>1. p \in Nat /\ W \in Nat /\ p + c * W = Magnitude(a) + Magnitude(b) /\ c = 0
    BY <1>2, <1>6, <1>7
  <2> HIDE DEF c, W, p
  <2>2. p = Magnitude(a) + Magnitude(b)
    BY <2>1
  <2> QED  BY <1>5, <1>7, <2>2 DEF p, a, b
<1>8. CASE s.carry = 1
  <2>1. /\ t \in Seq(Word) /\ Len(t) = n + 1
        /\ \A i \in 1 .. n : t[i] = w[i]
        /\ t[n + 1] = 1
    <3>1. 1 \in Word  BY WordBaseType DEF Word
    <3> HIDE DEF Word
    <3> QED  BY <1>3, <1>4, <3>1
  <2> HIDE DEF t
  <2>2. Magnitude(t) = Mag(t, n + 1)
    <3>1. n + 1 \in Nat /\ n + 1 >= Len(t)  BY <1>4, <2>1
    <3> DEFINE k == n + 1
    <3> HIDE DEF k
    <3>2. Magnitude(t) = Mag(t, k)  BY <2>1, <3>1, MagnitudeType DEF k
    <3> QED  BY <3>2 DEF k
  <2>3. Mag(t, n + 1) = Mag(t, n) + WordAt(t, n + 1) * Weight(n)
    BY <1>4, <2>1, MagStep
  <2>4. WordAt(t, n + 1) = 1
    BY <1>4, <2>1 DEF WordAt
  <2>5. Mag(t, n) = Mag(w, n)
    <3>1. \A i \in 1 .. n : WordAt(t, i) = WordAt(w, i)
      BY <1>3, <1>4, <2>1 DEF WordAt
    <3>2. t \in Seq(Nat) /\ w \in Seq(Nat) /\ WordBase \in Nat
      BY <1>3, <2>1, WordBaseType, WordsAreDigits
    <3> QED  BY <1>4, <3>1, <3>2, LowSame DEF Mag
  <2> DEFINE c == s.carry
             W == Weight(n)
             p == Magnitude(w)
  <2>6. p \in Nat /\ W \in Nat /\ p + c * W = Magnitude(a) + Magnitude(b) /\ c = 1
        /\ Magnitude(t) = p + 1 * W
    BY <1>2, <1>6, <1>8, <2>2, <2>3, <2>4, <2>5
  <2> HIDE DEF c, W, p
  <2>7. Magnitude(t) = Magnitude(a) + Magnitude(b)
    BY <2>6
  <2> QED  BY <1>5, <1>8, <2>7 DEF a, b
<1> QED  BY <1>3, <1>7, <1>8

\* AddMagnitudes gives the sum, with the sign of its first operand.
LEMMA SumOfMagnitudesExact ==
  ASSUME NEW x \in BigInteger, NEW y \in BigInteger, WellFormed(x), WellFormed(y),
         x.sign = y.sign, x.sign # 0, ~ LosesCarry(x.words, y.words)
  PROVE  /\ WellFormed(SumOfMagnitudes(x, y))
         /\ Denotes(SumOfMagnitudes(x, y)) = Denotes(x) + Denotes(y)
<1> DEFINE w == AddedWords(x, y)
           t == Truncated(w)
           s == x.sign
           p == Magnitude(x.words)
           q == Magnitude(y.words)
<1>1. /\ s \in {-1, 0, 1} /\ s # 0 /\ p \in Nat /\ q \in Nat /\ p # 0
      /\ Denotes(x) = s * p /\ Denotes(y) = s * q
      /\ x.words # <<>> /\ y.words # <<>>
  BY Denoted
<1>2. w \in Seq(Word) /\ w # <<>>
  BY <1>1, SumOfMagnitudesType
<1>3. Magnitude(w) = p + q
  BY <1>1, AddedWordsExact
<1>4. SumOfMagnitudes(x, y) = Number(s, t)
  BY DEF SumOfMagnitudes
<1> HIDE DEF w, s, p, q
<1>5. Magnitude(w) # 0
  BY <1>1, <1>3
<1>6. t \in Seq(Word) /\ t # <<>> /\ Magnitude(t) = p + q /\ t[Len(t)] # 0 /\ Magnitude(t) # 0
  BY <1>2, <1>3, <1>5, TruncatedExact
<1> HIDE DEF t
<1>7. s = 0 <=> Magnitude(t) = 0
  BY <1>1, <1>6
<1>8. WellFormed(Number(s, t)) /\ Denotes(Number(s, t)) = s * Magnitude(t)
  BY <1>1, <1>6, <1>7, MadeOf
<1>9. s * (p + q) = s * p + s * q
  BY <1>1
<1> QED  BY <1>1, <1>4, <1>6, <1>8, <1>9

\* BigIntCompare orders well-formed numbers as what they denote.
LEMMA ComparedExact ==
  ASSUME NEW x \in BigInteger, NEW y \in BigInteger, WellFormed(x), WellFormed(y)
  PROVE  LET d == Denotes(x) - Denotes(y)
         IN  Compared(x, y) = IF d < 0 THEN -1 ELSE IF d > 0 THEN 1 ELSE 0
<1> DEFINE s == x.sign
           r == y.sign
           p == Magnitude(x.words)
           q == Magnitude(y.words)
           e == Denotes(x)
           f == Denotes(y)
           C(i, j) == IF i < j THEN -1 ELSE IF i > j THEN 1 ELSE 0
<1>1. /\ s \in {-1, 0, 1} /\ p \in Nat /\ (s = 0 <=> p = 0)
      /\ (s = 0 => e = 0) /\ (s = 1 => e = p) /\ (s = -1 => e = -p)
      /\ x.words \in Seq(Word) /\ x.words # <<>>
  BY Denoted
<1>2. /\ r \in {-1, 0, 1} /\ q \in Nat /\ (r = 0 <=> q = 0)
      /\ (r = 0 => f = 0) /\ (r = 1 => f = q) /\ (r = -1 => f = -q)
      /\ y.words \in Seq(Word) /\ y.words # <<>>
  BY Denoted
<1>3. /\ MpCompare(x.words, x.wordcount, y.words, y.wordcount) = C(p, q)
      /\ MpCompare(y.words, y.wordcount, x.words, x.wordcount) = C(q, p)
  <2>1. /\ ComparedWords(x.words, y.words) = C(p, q)
        /\ ComparedWords(y.words, x.words) = C(q, p)
    BY <1>1, <1>2, CompareExact
  <2>2. /\ MpCompare(x.words, x.wordcount, y.words, y.wordcount) =
             ComparedWords(x.words, y.words)
        /\ MpCompare(y.words, y.wordcount, x.words, x.wordcount) =
             ComparedWords(y.words, x.words)
    BY <1>1, <1>2, OperandsTaken
  <2> QED  BY <2>1, <2>2
<1>4. Compared(x, y) = IF s < r THEN -1 ELSE IF s > r THEN 1
                       ELSE IF s = 1 THEN C(p, q) ELSE C(q, p)
  BY <1>3 DEF Compared, positive
<1> HIDE DEF s, r, p, q, e, f
<1>5. e \in Int /\ f \in Int
  BY <1>1, <1>2
<1>6. (IF s < r THEN -1 ELSE IF s > r THEN 1 ELSE IF s = 1 THEN C(p, q) ELSE C(q, p)) = C(e, f)
  <2>1. CASE s < r
    <3>1. e < f  BY <1>1, <1>2, <2>1
    <3> QED  BY <2>1, <3>1
  <2>2. CASE s > r
    <3>1. e > f  BY <1>1, <1>2, <2>2
    <3> QED  BY <1>1, <1>2, <1>5, <2>2, <3>1
  <2>3. CASE s = r
    <3>1. C(e, f) = IF s = 1 THEN C(p, q) ELSE C(q, p)
      BY <1>1, <1>2, <2>3
    <3> QED  BY <1>1, <1>2, <2>3, <3>1
  <2> QED  BY <1>1, <1>2, <2>1, <2>2, <2>3
<1>7. (e - f < 0 <=> e < f) /\ (e - f > 0 <=> e > f)
  BY <1>5
<1> QED  BY <1>4, <1>6, <1>7 DEF e, f

\* SubtractMagnitudes gives the difference of numbers of one sign.
LEMMA DifferenceOfMagnitudesExact ==
  ASSUME NEW x \in BigInteger, NEW y \in BigInteger, WellFormed(x), WellFormed(y),
         x.sign = y.sign, x.sign # 0, DifferenceKept(x.words, y.words)
  PROVE  /\ WellFormed(DifferenceOfMagnitudes(x, y))
         /\ Denotes(DifferenceOfMagnitudes(x, y)) = Denotes(x) - Denotes(y)
<1> DEFINE s == x.sign
           p == Magnitude(x.words)
           q == Magnitude(y.words)
           e == Denotes(x)
           f == Denotes(y)
           o == Compared(x, y)
           cmp == IF s = negative THEN - o ELSE o
           w == DifferenceWords(x, y)
           t == Truncated(w)
<1>1. /\ s \in {-1, 1} /\ p \in Nat /\ (s = 1 => e = p) /\ (s = -1 => e = -p)
      /\ x.words \in Seq(Word) /\ x.words # <<>>
  BY Denoted
<1>2. /\ q \in Nat /\ (s = 1 => f = q) /\ (s = -1 => f = -q)
      /\ y.words \in Seq(Word) /\ y.words # <<>>
  BY Denoted
<1>3. o = IF e - f < 0 THEN -1 ELSE IF e - f > 0 THEN 1 ELSE 0
  BY ComparedExact
<1>4. DifferenceOfMagnitudes(x, y) = IF cmp = 0 THEN Zero ELSE Number(s * cmp, t)
  BY DEF DifferenceOfMagnitudes
<1>5. w \in Seq(Word) /\ w # <<>>
  BY <1>1, <1>2, DifferenceWordsType
<1>6. Magnitude(w) = IF p >= q THEN p - q ELSE q - p
  <2>1. w = DifferenceOfWords(x.words, y.words)
    BY <1>1, <1>2, OperandsTaken
  <2>2. Magnitude(DifferenceOfWords(x.words, y.words)) = IF p >= q THEN p - q ELSE q - p
    BY <1>1, <1>2, DifferenceOfWordsExact
  <2> QED  BY <2>1, <2>2
<1> HIDE DEF s, p, q, e, f, w, o
<1>7. cmp = IF p < q THEN -1 ELSE IF p > q THEN 1 ELSE 0
  <2>1. CASE s = 1
    <3>1. cmp = o  BY <2>1 DEF negative
    <3>2. e = p /\ f = q  BY <1>1, <1>2, <2>1
    <3> HIDE DEF cmp
    <3>3. (e - f < 0 <=> p < q) /\ (e - f > 0 <=> p > q)  BY <1>1, <1>2, <3>2
    <3> QED  BY <1>3, <3>1, <3>3
  <2>2. CASE s = -1
    <3>1. cmp = - o  BY <2>2 DEF negative
    <3>2. e = -p /\ f = -q  BY <1>1, <1>2, <2>2
    <3> HIDE DEF cmp
    <3>3. (e - f < 0 <=> p > q) /\ (e - f > 0 <=> p < q)  BY <1>1, <1>2, <3>2
    <3>4. o = IF p > q THEN -1 ELSE IF p < q THEN 1 ELSE 0  BY <1>3, <3>3
    <3> QED  BY <1>1, <1>2, <3>1, <3>4
  <2> QED  BY <1>1, <2>1, <2>2
<1> HIDE DEF cmp
<1>8. CASE p = q
  <2>1. cmp = 0 /\ e - f = 0
    BY <1>1, <1>2, <1>7, <1>8
  <2> QED  BY <1>4, <2>1, ZeroDenotes DEF e, f
<1>9. CASE p # q
  <2>1. cmp # 0 /\ s * cmp \in {-1, 1} /\ Magnitude(w) # 0 /\ (s * cmp) * Magnitude(w) = e - f
    <3>1. CASE p > q
      <4>1. cmp = 1 /\ Magnitude(w) = p - q /\ s * cmp = s
        BY <1>1, <1>2, <1>6, <1>7, <3>1
      <4>2. s * (p - q) = e - f
        BY <1>1, <1>2
      <4> QED  BY <1>1, <1>2, <3>1, <4>1, <4>2
    <3>2. CASE p < q
      <4>1. cmp = -1 /\ Magnitude(w) = q - p /\ s * cmp = - s
        BY <1>1, <1>2, <1>6, <1>7, <3>2
      <4>2. (- s) * (q - p) = e - f
        BY <1>1, <1>2
      <4> QED  BY <1>1, <1>2, <3>2, <4>1, <4>2
    <3> QED  BY <1>1, <1>2, <1>9, <3>1, <3>2
  <2>2. /\ t \in Seq(Word) /\ t # <<>> /\ Magnitude(t) = Magnitude(w) /\ t[Len(t)] # 0
    BY <1>5, <2>1, TruncatedExact
  <2> DEFINE r == s * cmp
  <2>3. r \in {-1, 0, 1} /\ (r = 0 <=> Magnitude(t) = 0)
    BY <2>1, <2>2
  <2> HIDE DEF r, t
  <2>4. WellFormed(Number(r, t)) /\ Denotes(Number(r, t)) = r * Magnitude(t)
    BY <2>2, <2>3, MadeOf
  <2>5. DifferenceOfMagnitudes(x, y) = Number(r, t)
    BY <1>4, <2>1 DEF r
  <2> QED  BY <2>1, <2>2, <2>4, <2>5 DEF r, e, f
<1> QED  BY <1>8, <1>9

\* BigIntAdd gives the sum,
LEMMA SumOfExact ==
  ASSUME NEW x \in BigInteger, NEW y \in BigInteger, WellFormed(x), WellFormed(y),
         SumKept(x, y)
  PROVE  WellFormed(SumOf(x, y)) /\ Denotes(SumOf(x, y)) = Denotes(x) + Denotes(y)
<1> DEFINE s == x.sign
           r == y.sign
           e == Denotes(x)
           f == Denotes(y)
           n == SumOf(x, y)
<1>1. /\ s \in {-1, 0, 1} /\ e \in Int /\ (s = 0 => e = 0)
      /\ r \in {-1, 0, 1} /\ f \in Int /\ (r = 0 => f = 0)
  <2>1. s \in {-1, 0, 1} /\ (s = 0 => e = 0) /\ e \in Int
    <3> DEFINE p == Magnitude(x.words)
    <3>1. /\ s \in {-1, 0, 1} /\ p \in Nat
          /\ (s = 0 => e = 0) /\ (s = 1 => e = p) /\ (s = -1 => e = -p)
      BY Denoted
    <3> HIDE DEF s, e, p
    <3> QED  BY <3>1
  <2>2. r \in {-1, 0, 1} /\ (r = 0 => f = 0) /\ f \in Int
    <3> DEFINE p == Magnitude(y.words)
    <3>1. /\ r \in {-1, 0, 1} /\ p \in Nat
          /\ (r = 0 => f = 0) /\ (r = 1 => f = p) /\ (r = -1 => f = -p)
      BY Denoted
    <3> HIDE DEF r, f, p
    <3> QED  BY <3>1
  <2> QED  BY <2>1, <2>2
<1>2. n = IF s = 0 THEN y ELSE IF r = 0 THEN x
          ELSE IF s = r THEN SumOfMagnitudes(x, y)
          ELSE IF s > r THEN DifferenceOfMagnitudes(x, Negated(y))
          ELSE DifferenceOfMagnitudes(y, Negated(x))
  BY DEF SumOf, zero
<1>3. \/ s * r = 0
      \/ s = r /\ ~ LosesCarry(x.words, y.words)
      \/ s # r /\ s = 1 /\ DifferenceKept(x.words, y.words)
      \/ s # r /\ s # 1 /\ DifferenceKept(y.words, x.words)
  BY DEF SumKept, positive
<1>4. /\ Negated(x) \in BigInteger /\ WellFormed(Negated(x)) /\ Denotes(Negated(x)) = - e
      /\ Negated(x).words = x.words /\ Negated(x).sign = - s
      /\ Negated(y) \in BigInteger /\ WellFormed(Negated(y)) /\ Denotes(Negated(y)) = - f
      /\ Negated(y).words = y.words /\ Negated(y).sign = - r
  BY NegatedDenotes
<1> HIDE DEF s, r, e, f, n
<1>5. CASE s = 0
  <2>1. n = y /\ e + f = f
    BY <1>1, <1>2, <1>5
  <2> QED  BY <2>1 DEF n, e, f
<1>6. CASE s # 0 /\ r = 0
  <2>1. n = x /\ e + f = e
    BY <1>1, <1>2, <1>6
  <2> QED  BY <2>1 DEF n, e, f
<1>7. CASE s # 0 /\ r # 0 /\ s = r
  <2>1. n = SumOfMagnitudes(x, y)
    BY <1>2, <1>7
  <2>2. ~ LosesCarry(x.words, y.words)
    BY <1>1, <1>3, <1>7
  <2> QED  BY <1>7, <2>1, <2>2, SumOfMagnitudesExact DEF n, s, r
<1>8. CASE s = 1 /\ r = -1
  <2> DEFINE m == Negated(y)
  <2>1. n = DifferenceOfMagnitudes(x, m)
    BY <1>2, <1>8
  <2>2. DifferenceKept(x.words, m.words)
    BY <1>3, <1>4, <1>8
  <2>3. m \in BigInteger /\ WellFormed(m) /\ x.sign = m.sign /\ x.sign # 0
    <3>1. m.sign = - r /\ - r = s /\ s # 0
      <4>1. s + r = 0 /\ s # 0
        BY <1>8
      <4>2. - r = s
        BY <1>1, <4>1
      <4> QED  BY <1>4, <4>1, <4>2
    <3> HIDE DEF m
    <3> QED  BY <1>4, <3>1 DEF s, m
  <2>4. Denotes(m) = - f
    BY <1>4
  <2> HIDE DEF m
  <2>5. WellFormed(n) /\ Denotes(n) = e - Denotes(m)
    BY <2>1, <2>2, <2>3, DifferenceOfMagnitudesExact DEF e
  <2>6. e - (- f) = e + f
    BY <1>1
  <2> QED  BY <2>4, <2>5, <2>6 DEF n, e, f
<1>9. CASE s = -1 /\ r = 1
  <2> DEFINE m == Negated(x)
  <2>1. n = DifferenceOfMagnitudes(y, m)
    BY <1>2, <1>9
  <2>2. DifferenceKept(y.words, m.words)
    BY <1>3, <1>4, <1>9
  <2>3. m \in BigInteger /\ WellFormed(m) /\ y.sign = m.sign /\ y.sign # 0
    <3>1. m.sign = - s /\ - s = r /\ r # 0
      <4>1. r + s = 0 /\ r # 0
        BY <1>9
      <4>2. - s = r
        BY <1>1, <4>1
      <4> QED  BY <1>4, <4>1, <4>2
    <3> HIDE DEF m
    <3> QED  BY <1>4, <3>1 DEF r, m
  <2>4. Denotes(m) = - e
    BY <1>4
  <2> HIDE DEF m
  <2>5. WellFormed(n) /\ Denotes(n) = f - Denotes(m)
    BY <2>1, <2>2, <2>3, DifferenceOfMagnitudesExact DEF f
  <2>6. f - (- e) = e + f
    BY <1>1
  <2> QED  BY <2>4, <2>5, <2>6 DEF n, e, f
<1> QED  BY <1>1, <1>5, <1>6, <1>7, <1>8, <1>9

\* BigIntSub the difference,
LEMMA DifferenceOfExact ==
  ASSUME NEW x \in BigInteger, NEW y \in BigInteger, WellFormed(x), WellFormed(y),
         x.sign = zero => y.sign = zero,
         IF x.sign = y.sign THEN DifferenceKept(x.words, y.words)
         ELSE IF x.sign = positive THEN ~ LosesCarry(x.words, y.words)
         ELSE ~ LosesCarry(y.words, x.words)
  PROVE  /\ WellFormed(DifferenceOf(x, y))
         /\ Denotes(DifferenceOf(x, y)) = Denotes(x) - Denotes(y)
<1> DEFINE s == x.sign
           r == y.sign
           e == Denotes(x)
           f == Denotes(y)
           n == DifferenceOf(x, y)
<1>1. /\ s \in {-1, 0, 1} /\ e \in Int /\ (s = 0 => e = 0)
      /\ r \in {-1, 0, 1} /\ f \in Int /\ (r = 0 => f = 0)
  <2>1. s \in {-1, 0, 1} /\ (s = 0 => e = 0) /\ e \in Int
    <3> DEFINE p == Magnitude(x.words)
    <3>1. /\ s \in {-1, 0, 1} /\ p \in Nat
          /\ (s = 0 => e = 0) /\ (s = 1 => e = p) /\ (s = -1 => e = -p)
      BY Denoted
    <3> HIDE DEF s, e, p
    <3> QED  BY <3>1
  <2>2. r \in {-1, 0, 1} /\ (r = 0 => f = 0) /\ f \in Int
    <3> DEFINE p == Magnitude(y.words)
    <3>1. /\ r \in {-1, 0, 1} /\ p \in Nat
          /\ (r = 0 => f = 0) /\ (r = 1 => f = p) /\ (r = -1 => f = -p)
      BY Denoted
    <3> HIDE DEF r, f, p
    <3> QED  BY <3>1
  <2> QED  BY <2>1, <2>2
<1>2. n = IF s = 0 THEN y ELSE IF r = 0 THEN x
          ELSE IF s = r THEN DifferenceOfMagnitudes(x, y)
          ELSE IF s > r THEN SumOfMagnitudes(x, Negated(y))
          ELSE SumOfMagnitudes(Negated(y), x)
  BY DEF DifferenceOf, zero
<1>3. /\ s = 0 => r = 0
      /\ \/ s = r /\ DifferenceKept(x.words, y.words)
         \/ s # r /\ s = 1 /\ ~ LosesCarry(x.words, y.words)
         \/ s # r /\ s # 1 /\ ~ LosesCarry(y.words, x.words)
  BY DEF positive, zero
<1> DEFINE m == Negated(y)
<1>4. /\ m \in BigInteger /\ WellFormed(m) /\ Denotes(m) = - f
      /\ m.words = y.words /\ m.sign = - r
  BY NegatedDenotes
<1> HIDE DEF s, r, e, f, n, m
<1>5. CASE s = 0
  <2>1. n = y /\ e - f = f
    BY <1>1, <1>2, <1>3, <1>5
  <2> QED  BY <2>1 DEF n, e, f
<1>6. CASE s # 0 /\ r = 0
  <2>1. n = x /\ e - f = e
    BY <1>1, <1>2, <1>6
  <2> QED  BY <2>1 DEF n, e, f
<1>7. CASE s # 0 /\ r # 0 /\ s = r
  <2>1. n = DifferenceOfMagnitudes(x, y)
    BY <1>2, <1>7
  <2>2. DifferenceKept(x.words, y.words)
    BY <1>1, <1>3, <1>7
  <2> QED  BY <1>7, <2>1, <2>2, DifferenceOfMagnitudesExact DEF n, s, r
<1>8. CASE s = 1 /\ r = -1
  <2>1. n = SumOfMagnitudes(x, m)
    BY <1>2, <1>8 DEF m
  <2>2. ~ LosesCarry(x.words, m.words)
    BY <1>3, <1>4, <1>8
  <2>3. x.sign = m.sign /\ x.sign # 0
    <3>1. m.sign = - r /\ - r = s /\ s # 0
      <4>1. s + r = 0 /\ s # 0
        BY <1>8
      <4>2. - r = s
        BY <1>1, <4>1
      <4> QED  BY <1>4, <4>1, <4>2
    <3> QED  BY <3>1 DEF s
  <2>5. WellFormed(n) /\ Denotes(n) = e + Denotes(m)
    BY <1>4, <2>1, <2>2, <2>3, SumOfMagnitudesExact DEF e
  <2>6. e + (- f) = e - f
    BY <1>1
  <2> QED  BY <1>4, <2>5, <2>6 DEF n, e, f
<1>9. CASE s = -1 /\ r = 1
  <2>1. n = SumOfMagnitudes(m, x)
    BY <1>2, <1>9 DEF m
  <2>2. ~ LosesCarry(m.words, x.words)
    BY <1>3, <1>4, <1>9
  <2>3. m.sign = x.sign /\ m.sign # 0
    BY <1>4, <1>9 DEF s
  <2>5. WellFormed(n) /\ Denotes(n) = Denotes(m) + e
    BY <1>4, <2>1, <2>2, <2>3, SumOfMagnitudesExact DEF e
  <2>6. (- f) + e = e - f
    BY <1>1
  <2> QED  BY <1>4, <2>5, <2>6 DEF n, e, f
<1> QED  BY <1>1, <1>5, <1>6, <1>7, <1>8, <1>9

\* and BigIntMul the product.
LEMMA ProductOfExact ==
  ASSUME NEW x \in BigInteger, NEW y \in BigInteger, WellFormed(x), WellFormed(y)
  PROVE  WellFormed(ProductOf(x, y)) /\ Denotes(ProductOf(x, y)) = Denotes(x) * Denotes(y)
<1> DEFINE s == x.sign
           r == y.sign
           p == Magnitude(x.words)
           q == Magnitude(y.words)
           e == Denotes(x)
           f == Denotes(y)
           uv == Multiplied(x, y)
           t == Truncated(uv)
           n == ProductOf(x, y)
<1>1. /\ s \in {-1, 0, 1} /\ p \in Nat /\ (s = 0 <=> p = 0) /\ e = s * p
      /\ x.words \in Seq(Word) /\ x.words # <<>>
  BY Denoted
<1>2. /\ r \in {-1, 0, 1} /\ q \in Nat /\ (r = 0 <=> q = 0) /\ f = r * q
      /\ y.words \in Seq(Word) /\ y.words # <<>>
  BY Denoted
<1>3. n = Number(s * r, IF \A i \in 1 .. Len(uv) : uv[i] = 0 THEN <<0>> ELSE t)
  BY DEF ProductOf
<1>4. uv \in Seq(Word) /\ uv # <<>>
  BY <1>1, <1>2, ProductOfType
<1>5. Magnitude(uv) = p * q
  <2>1. uv = MultipliedWords(x.words, y.words)
    BY <1>1, <1>2, OperandsTaken
  <2> QED  BY <1>1, <1>2, <2>1, MulExact
<1>6. (\A i \in 1 .. Len(uv) : uv[i] = 0) <=> Magnitude(uv) = 0
  <2> HIDE DEF uv
  <2> QED  BY <1>4, ZeroWords
<1> HIDE DEF s, r, p, q, e, f, uv, n
<1>7. s * r \in {-1, 0, 1} /\ (s * r = 0 <=> p * q = 0) /\ (s * r) * (p * q) = e * f
  <2>1. s * r \in {-1, 0, 1} /\ (s * r = 0 <=> s = 0 \/ r = 0)
    BY <1>1, <1>2
  <2>2. p * q = 0 <=> p = 0 \/ q = 0
    BY <1>1, <1>2
  <2>3. (s * r) * (p * q) = (s * p) * (r * q)
    BY <1>1, <1>2
  <2> QED  BY <1>1, <1>2, <2>1, <2>2, <2>3
<1>8. CASE Magnitude(uv) = 0
  <2>1. n = Zero
    <3>1. s * r = 0  BY <1>5, <1>7, <1>8
    <3> QED  BY <1>3, <1>6, <1>8, <3>1 DEF Zero, zero
  <2>2. e * f = 0
    <3>1. s * r = 0 /\ p * q = 0  BY <1>5, <1>7, <1>8
    <3> QED  BY <1>7, <3>1
  <2> QED  BY <2>1, <2>2, ZeroDenotes DEF n, e, f
<1>9. CASE Magnitude(uv) # 0
  <2>1. t \in Seq(Word) /\ t # <<>> /\ Magnitude(t) = p * q /\ t[Len(t)] # 0
    BY <1>4, <1>5, <1>9, TruncatedExact
  <2> DEFINE o == s * r
  <2>2. n = Number(o, t)
    BY <1>3, <1>6, <1>9
  <2>3. o \in {-1, 0, 1} /\ (o = 0 <=> Magnitude(t) = 0) /\ o * Magnitude(t) = e * f
    BY <1>7, <2>1
  <2> HIDE DEF o, t
  <2>4. WellFormed(Number(o, t)) /\ Denotes(Number(o, t)) = o * Magnitude(t)
    BY <2>1, <2>3, MadeOf
  <2> QED  BY <2>2, <2>3, <2>4 DEF n, e, f
<1> QED  BY <1>8, <1>9

----------------------------------------------------------------------------
(***************************************************************************)
(* The calls that work in a temporary.                                     *)
(***************************************************************************)

\* t holds the result n; only z is written, and t is gone.
LEMMA DeliverDoes ==
  ASSUME NEW D, NEW m \in MachineOn(D), NEW z \in D, NEW t \in D, z # t,
         {z, t} \subseteq m.live
  PROVE  LET r == Deliver(m, z, t)
         IN  /\ r.ok \in BOOLEAN
             /\ r.m \in MachineOn(D)
             /\ r.m.live = m.live \ {t}
             /\ \A o \in D \ {z, t} : r.m.big[o] = m.big[o]
             /\ r.ok => r.m.big[z] = m.big[t]
             /\ r.ok \/ r.m.big[z] = m.big[z] \/ r.m.big[z].words = <<>>
             /\ m.big[t].words # <<>> /\ m.left >= 1 => r.ok
<1> DEFINE c == BigIntCopy(m, z, t)
           k == BigIntFree(c.m, t)
           r == Deliver(m, z, t)
<1>1. /\ Outcome(D, {}, m, c, z, m.big[t])
      /\ m.big[t].words # <<>> /\ m.left >= 1 => c.ok
  BY CopyDoes
<1>2. r.ok = c.ok /\ r.m = k
  <2>1. c = [ok |-> c.ok, m |-> c.m]
    BY DEF BigIntCopy, Resized, Done, Failed
  <2> HIDE DEF k
  <2>2. r = [c EXCEPT !.m = k]
    BY DEF Deliver, k
  <2> HIDE DEF c, r
  <2> QED  BY <2>1, <2>2
<1> HIDE DEF c, r
<1>3. c.m \in MachineOn(D)
  BY <1>1 DEF Outcome
<1>4. /\ k \in MachineOn(D) /\ k.live = c.m.live \ {t}
      /\ \A o \in D \ {t} : k.big[o] = c.m.big[o]
  <2> DEFINE l == c.m
             j == BigIntFree(l, t)
  <2>1. l \in MachineOn(D)
    BY <1>3
  <2> HIDE DEF l, MachineOn
  <2>2. /\ j \in MachineOn(D) /\ j.live = l.live \ {t}
        /\ \A o \in D \ {t} : j.big[o] = l.big[o]
    BY <2>1, FreedDoes
  <2> QED  BY <2>2 DEF l
<1> HIDE DEF k, MachineOn
<1> QED  BY <1>1, <1>2, <1>4 DEF Outcome, r

\* Freeing the temporary with the result.
LEMMA ResultFreed ==
  ASSUME NEW D, NEW m \in MachineOn(D), "result" \in D
  PROVE  LET k == BigIntFree(m, "result")
         IN  /\ k \in MachineOn(D) /\ k.live = m.live \ {"result"}
             /\ \A o \in D \ {"result"} : k.big[o] = m.big[o]
  BY FreedDoes

\* AddMagnitudes sets z to the sum, wherever an allocation fails; it needs four,
\* and operands that have their words.
LEMMA AddMagnitudesDoes ==
  ASSUME NEW D, NEW m \in MachineOn(D), NEW z \in D, NEW a \in D, NEW b \in D,
         "result" \in D, "result" \notin {z, a, b}, "result" \notin m.live, z \in m.live
  PROVE  LET r == AddMagnitudes(m, z, a, b)
         IN  /\ Outcome(D, {"result"}, m, r, z, SumOfMagnitudes(m.big[a], m.big[b]))
             /\ m.big[a].words # <<>> /\ m.big[b].words # <<>> /\ m.left >= 4 => r.ok
<1> DEFINE x == m.big[a]
           y == m.big[b]
           whole == x.words # <<>> /\ y.words # <<>>
           sum == Added(x, y)
           t == Allocated(m, "result", sum.words)
           g == IF sum.carry = 0 THEN t
                ELSE Resized(t.m, "result", Append(sum.words, 1))
           w == AddedWords(x, y)
           res == SumOfMagnitudes(x, y)
           k == [g.m EXCEPT !.big["result"] = res]
           d == Deliver(k, z, "result")
           f == BigIntFree(g.m, "result")
           r == AddMagnitudes(m, z, a, b)
<1>1. x \in BigInteger /\ y \in BigInteger /\ m.left \in Nat
  BY MachineFields
<1>2. /\ w \in Seq(Word) /\ sum.words \in Seq(Word) /\ res \in BigInteger
      /\ whole => w # <<>> /\ sum.words # <<>> /\ res.words # <<>>
  <2> HIDE DEF x, y
  <2> QED  BY <1>1, SumOfMagnitudesType DEF x, y
<1>3. w = IF sum.carry = 0 THEN sum.words ELSE Append(sum.words, 1)
  BY DEF AddedWords
<1>4. r = IF ~ t.ok THEN t ELSE IF ~ g.ok THEN Failed(f)
          ELSE Deliver([g.m EXCEPT !.big["result"] =
                          Number(x.sign, Truncated(g.m.big["result"].words))], z, "result")
  BY DEF AddMagnitudes, Added
<1> HIDE DEF sum, w, res, x, y, r, k, d, f, whole
<1>5. /\ t.ok = (m.left >= 2 /\ sum.words # <<>>)
      /\ t.m \in MachineOn(D)
      /\ ~ t.ok => t.m = m
      /\ t.ok => /\ t.m.live = m.live \cup {"result"} /\ t.m.left = m.left - 2
                 /\ t.m.big["result"] = Number(zero, sum.words)
                 /\ \A o \in D \ {"result"} : t.m.big[o] = m.big[o]
  BY <1>2, AllocatedDoes
<1> HIDE DEF t, Word, MachineOn, BigInteger
<1>6. t.ok => /\ g.ok \in BOOLEAN
              /\ g.m \in MachineOn(D) /\ g.m.live = m.live \cup {"result"}
              /\ \A o \in D \ {"result"} : g.m.big[o] = m.big[o]
              /\ g.ok => /\ g.m.left >= m.left - 3
                         /\ g.m.big["result"].words = w
              /\ m.left >= 3 => g.ok
  <2> SUFFICES ASSUME t.ok
               PROVE  /\ g.ok \in BOOLEAN
                      /\ g.m \in MachineOn(D) /\ g.m.live = m.live \cup {"result"}
                      /\ \A o \in D \ {"result"} : g.m.big[o] = m.big[o]
                      /\ g.ok => /\ g.m.left >= m.left - 3
                                 /\ g.m.big["result"].words = w
                      /\ m.left >= 3 => g.ok
    OBVIOUS
  <2>0. t.ok = TRUE /\ m.left >= 2
    BY <1>1, <1>5
  <2>1. CASE sum.carry = 0
    <3>1. g = t /\ w = sum.words
      BY <1>3, <2>1
    <3>2. t.m.big["result"].words = w
      <4>1. zero \in Int  BY DEF zero
      <4> QED  BY <1>2, <1>5, <3>1, <4>1, NumberType
    <3> HIDE DEF g
    <3>3. g.ok = TRUE /\ g.m = t.m /\ t.m.left = m.left - 2
      BY <1>5, <2>0, <3>1
    <3>4. t.m.left >= m.left - 3
      BY <1>1, <3>3
    <3> QED  BY <1>5, <2>0, <3>2, <3>3, <3>4
  <2>2. CASE sum.carry # 0
    <3>1. g = Resized(t.m, "result", w) /\ w = Append(sum.words, 1)
      BY <1>3, <2>2
    <3> HIDE DEF g
    <3>2. /\ g.ok = (t.m.left >= 1)
          /\ g.m \in MachineOn(D) /\ g.m.live = t.m.live
          /\ \A o \in D \ {"result"} : g.m.big[o] = t.m.big[o]
          /\ g.ok => /\ g.m.left = t.m.left - 1
                     /\ g.m.big["result"] = Number(t.m.big["result"].sign, w)
      <4> DEFINE l == t.m
                 q == Resized(l, "result", w)
      <4>1. l \in MachineOn(D) /\ w \in Seq(Word)
        BY <1>2, <1>5
      <4> HIDE DEF l
      <4>2. /\ q.ok = (l.left >= 1)
            /\ q.m \in MachineOn(D) /\ q.m.live = l.live
            /\ \A o \in D \ {"result"} : q.m.big[o] = l.big[o]
            /\ q.ok => /\ q.m.left = l.left - 1
                       /\ q.m.big["result"] = Number(l.big["result"].sign, w)
        BY <4>1, ResizedDoes
      <4>3. g = q
        BY <3>1 DEF l
      <4> HIDE DEF q
      <4> QED  BY <4>2, <4>3 DEF l
    <3>3. g.ok => g.m.big["result"].words = w
      <4>1. t.m.big["result"].sign \in Int
        <5>1. t.m.big["result"] \in BigInteger
          BY <1>5, MachineFields
        <5> QED  BY <5>1, NumberFields
      <4> QED  BY <1>2, <3>2, <4>1, NumberType
    <3>4. g.ok \in BOOLEAN
      BY <3>2
    <3>5. g.m.live = m.live \cup {"result"} /\ \A o \in D \ {"result"} : g.m.big[o] = m.big[o]
      BY <1>5, <3>2
    <3>6. (g.ok => g.m.left >= m.left - 3) /\ (m.left >= 3 => g.ok)
      <4> DEFINE p == m.left
                 q == t.m.left
      <4>1. p \in Nat /\ q = p - 2
        BY <1>1, <1>5, <2>0
      <4>2. /\ g.ok => g.m.left = q - 1
            /\ q >= 1 => g.ok
        BY <3>2
      <4> HIDE DEF p, q
      <4>3. /\ g.ok => g.m.left >= p - 3
            /\ p >= 3 => g.ok
        BY <4>1, <4>2
      <4> QED  BY <4>3 DEF p
    <3> QED  BY <3>2, <3>3, <3>4, <3>5, <3>6
  <2> QED  BY <2>1, <2>2
<1> HIDE DEF g
<1>7. CASE ~ t.ok
  <2>1. r = t /\ t.m = m
    BY <1>4, <1>5, <1>7
  <2>2. t.ok = FALSE /\ (~ (m.left >= 2) \/ sum.words = <<>>)
    <3>1. t.ok \in BOOLEAN
      BY <1>5
    <3> QED  BY <1>5, <1>7, <3>1
  <2>3. Outcome(D, {"result"}, m, r, z, res)
    BY <1>5, <2>1, <2>2 DEF Outcome
  <2>4. whole /\ m.left >= 4 => r.ok
    BY <1>1, <1>2, <2>1, <2>2
  <2> QED  BY <2>3, <2>4 DEF r, res, x, y, whole
<1>8. CASE t.ok /\ ~ g.ok
  <2>1. r = Failed(f)
    BY <1>4, <1>8
  <2>2. f \in MachineOn(D) /\ f.live = g.m.live \ {"result"}
        /\ \A o \in D \ {"result"} : f.big[o] = g.m.big[o]
    BY <1>6, <1>8, ResultFreed DEF f
  <2>3. r.ok = FALSE /\ r.m = f
    BY <2>1 DEF Failed
  <2>4. f.live = m.live /\ \A o \in D \ {"result"} : f.big[o] = m.big[o]
    BY <1>6, <1>8, <2>2
  <2>5. Outcome(D, {"result"}, m, r, z, res)
    BY <2>2, <2>3, <2>4 DEF Outcome
  <2>6. whole /\ m.left >= 4 => r.ok
    BY <1>1, <1>6, <1>8
  <2> QED  BY <2>5, <2>6 DEF r, res, x, y, whole
<1>9. CASE t.ok /\ g.ok
  <2>1. r = d
    <3>1. Number(x.sign, Truncated(g.m.big["result"].words)) = res
      BY <1>6, <1>9 DEF res, SumOfMagnitudes, w
    <3> QED  BY <1>4, <1>9, <3>1 DEF d, k
  <2>2. /\ k \in MachineOn(D) /\ k.live = g.m.live /\ k.left = g.m.left /\ k.big["result"] = res
        /\ \A o \in D \ {"result"} : k.big[o] = g.m.big[o]
    BY <1>2, <1>6, <1>9, PutType DEF k
  <2>3. {z, "result"} \subseteq k.live /\ z # "result"
    BY <1>6, <1>9, <2>2
  <2>4. /\ d.ok \in BOOLEAN
        /\ d.m \in MachineOn(D)
        /\ d.m.live = k.live \ {"result"}
        /\ \A o \in D \ {z, "result"} : d.m.big[o] = k.big[o]
        /\ d.ok => d.m.big[z] = res
        /\ d.ok \/ d.m.big[z] = k.big[z] \/ d.m.big[z].words = <<>>
        /\ whole /\ k.left >= 1 => d.ok
    BY <1>2, <2>2, <2>3, DeliverDoes DEF d
  <2>5. d.m.live = m.live
    BY <1>6, <1>9, <2>2, <2>4
  <2>6. k.big[z] = m.big[z] /\ \A o \in D \ {z, "result"} : d.m.big[o] = m.big[o]
    BY <1>6, <1>9, <2>2, <2>3, <2>4
  <2>7. Outcome(D, {"result"}, m, r, z, res)
    BY <2>1, <2>4, <2>5, <2>6 DEF Outcome
  <2>8. whole /\ m.left >= 4 => r.ok
    <3> SUFFICES ASSUME whole, m.left >= 4 PROVE r.ok
      OBVIOUS
    <3>1. g.m.left \in Nat
      BY <1>6, <1>9, MachineFields
    <3>2. k.left >= 1
      BY <1>1, <1>6, <1>9, <2>2, <3>1
    <3> QED  BY <2>1, <2>4, <3>2
  <2> QED  BY <2>7, <2>8 DEF r, res, x, y, whole
<1> QED  BY <1>7, <1>8, <1>9

\* SubtractMagnitudes sets z to the difference; it needs three.
LEMMA SubtractMagnitudesDoes ==
  ASSUME NEW D, NEW m \in MachineOn(D), NEW z \in D, NEW a \in D, NEW b \in D,
         "result" \in D, "result" \notin {z, a, b}, "result" \notin m.live,
         {z, a, b} \subseteq m.live
  PROVE  LET r == SubtractMagnitudes(m, z, a, b)
         IN  /\ Outcome(D, {"result"}, m, r, z, DifferenceOfMagnitudes(m.big[a], m.big[b]))
             /\ m.big[a].words # <<>> /\ m.big[b].words # <<>> /\ m.left >= 3 => r.ok
<1> DEFINE x == m.big[a]
           y == m.big[b]
           whole == x.words # <<>> /\ y.words # <<>>
           res == DifferenceOfMagnitudes(x, y)
           t == Allocated(m, "result", res.words)
           k == [t.m EXCEPT !.big["result"] = res]
           d == Deliver(k, z, "result")
           r == SubtractMagnitudes(m, z, a, b)
<1>1. x \in BigInteger /\ y \in BigInteger /\ m.left \in Nat
  BY MachineFields
<1>2. res \in BigInteger /\ (whole => res.words # <<>>)
  <2> HIDE DEF x, y
  <2> QED  BY <1>1, DifferenceOfMagnitudesType DEF x, y
<1>3. res.words \in Seq(Word)
  <2> HIDE DEF res
  <2> QED  BY <1>2, NumberFields
<1>4. r = IF ~ t.ok THEN t ELSE d
  <2>1. BigIntCompare(m, a, b) = Compared(x, y)
    BY DEF BigIntCompare, Compared
  <2>2. res = LET cmp == IF x.sign = negative THEN - BigIntCompare(m, a, b)
                         ELSE BigIntCompare(m, a, b)
              IN  IF cmp = 0 THEN Zero
                  ELSE Number(x.sign * cmp, Truncated(DifferenceWords(x, y)))
    BY <2>1 DEF DifferenceOfMagnitudes
  <2> HIDE DEF res
  <2> QED  BY <2>2 DEF SubtractMagnitudes
<1> HIDE DEF res, x, y, r, k, d, whole
<1>5. /\ t.ok = (m.left >= 2 /\ res.words # <<>>)
      /\ t.m \in MachineOn(D)
      /\ ~ t.ok => t.m = m
      /\ t.ok => /\ t.m.live = m.live \cup {"result"} /\ t.m.left = m.left - 2
                 /\ \A o \in D \ {"result"} : t.m.big[o] = m.big[o]
  BY <1>3, AllocatedDoes
<1> HIDE DEF t, Word, MachineOn, BigInteger
<1>7. CASE ~ t.ok
  <2>1. r = t /\ t.m = m
    BY <1>4, <1>5, <1>7
  <2>2. t.ok = FALSE /\ (~ (m.left >= 2) \/ res.words = <<>>)
    <3>1. t.ok \in BOOLEAN
      BY <1>5
    <3> QED  BY <1>5, <1>7, <3>1
  <2>3. Outcome(D, {"result"}, m, r, z, res)
    BY <1>5, <2>1, <2>2 DEF Outcome
  <2>4. whole /\ m.left >= 3 => r.ok
    BY <1>1, <1>2, <2>1, <2>2
  <2> QED  BY <2>3, <2>4 DEF r, res, x, y, whole
<1>8. CASE t.ok
  <2>1. r = d
    BY <1>4, <1>8
  <2>2. /\ k \in MachineOn(D) /\ k.live = t.m.live /\ k.left = t.m.left /\ k.big["result"] = res
        /\ \A o \in D \ {"result"} : k.big[o] = t.m.big[o]
    BY <1>2, <1>5, <1>8, PutType DEF k
  <2>3. {z, "result"} \subseteq k.live /\ z # "result"
    BY <1>5, <1>8, <2>2
  <2>4. /\ d.ok \in BOOLEAN
        /\ d.m \in MachineOn(D)
        /\ d.m.live = k.live \ {"result"}
        /\ \A o \in D \ {z, "result"} : d.m.big[o] = k.big[o]
        /\ d.ok => d.m.big[z] = res
        /\ d.ok \/ d.m.big[z] = k.big[z] \/ d.m.big[z].words = <<>>
        /\ whole /\ k.left >= 1 => d.ok
    BY <1>2, <2>2, <2>3, DeliverDoes DEF d
  <2>5. d.m.live = m.live
    BY <1>5, <1>8, <2>2, <2>4
  <2>6. k.big[z] = m.big[z] /\ \A o \in D \ {z, "result"} : d.m.big[o] = m.big[o]
    BY <1>5, <1>8, <2>2, <2>3, <2>4
  <2>7. Outcome(D, {"result"}, m, r, z, res)
    BY <2>1, <2>4, <2>5, <2>6 DEF Outcome
  <2>8. whole /\ m.left >= 3 => r.ok
    BY <1>1, <1>5, <1>8, <2>1, <2>2, <2>4
  <2> QED  BY <2>7, <2>8 DEF r, res, x, y, whole
<1> QED  BY <1>7, <1>8

\* What a call returns has these two fields.
IsResult(r) == r = [ok |-> r.ok, m |-> r.m]

\* The two calls that WithNegated finishes with.
LEMMA Results ==
  ASSUME NEW m, NEW z, NEW a, NEW b
  PROVE  IsResult(AddMagnitudes(m, z, a, b)) /\ IsResult(SubtractMagnitudes(m, z, a, b))
<1>2. \A k : IsResult(Failed(k)) /\ IsResult(Done(k))
  BY DEF IsResult, Done, Failed
<1>1. \A k, t, w : IsResult(Resized(k, t, w)) /\ IsResult(Allocated(k, t, w))
  <2> TAKE k, t, w
  <2> HIDE DEF IsResult
  <2> QED  BY <1>2 DEF Resized, Allocated
<1>3. \A k, t, c : IsResult(BigIntCopy(k, t, c))
  <2> TAKE k, t, c
  <2> HIDE DEF IsResult
  <2> QED  BY <1>1, <1>2 DEF BigIntCopy
<1>4. \A k, t, c : IsResult(Deliver(k, t, c))
  <2> TAKE k, t, c
  <2> DEFINE q == BigIntCopy(k, t, c)
             f == BigIntFree(q.m, c)
  <2>1. q = [ok |-> q.ok, m |-> q.m]
    BY <1>3 DEF IsResult
  <2>2. Deliver(k, t, c) = [q EXCEPT !.m = f]
    BY DEF Deliver
  <2> HIDE DEF q, f
  <2>3. [q EXCEPT !.m = f] = [ok |-> q.ok, m |-> f]
    BY <2>1
  <2> QED  BY <2>2, <2>3 DEF IsResult
<1> HIDE DEF IsResult
<1> QED  BY <1>1, <1>2, <1>4 DEF AddMagnitudes, SubtractMagnitudes

\* Freeing the temporary with the negated operand,
LEMMA NegatedFreed ==
  ASSUME NEW D, NEW m \in MachineOn(D), "negated" \in D
  PROVE  LET k == BigIntFree(m, "negated")
         IN  /\ k \in MachineOn(D) /\ k.live = m.live \ {"negated"}
             /\ \A o \in D \ {"negated"} : k.big[o] = m.big[o]
  BY FreedDoes

\* and allocating it.
LEMMA NegatedAllocated ==
  ASSUME NEW D, NEW m \in MachineOn(D), "negated" \in D
  PROVE  LET t == BigIntAlloc(m, "negated")
         IN  /\ t.ok = (m.left >= 2)
             /\ t.m \in MachineOn(D)
             /\ ~ t.ok => t.m = m
             /\ t.ok => /\ t.m.live = m.live \cup {"negated"} /\ t.m.left = m.left - 2
                        /\ \A o \in D \ {"negated"} : t.m.big[o] = m.big[o]
<1>1. <<0>> \in Seq(Word)
  <2>1. 0 \in Word  BY WordBaseType DEF Word
  <2> HIDE DEF Word
  <2> QED  BY <2>1
<1> DEFINE w == <<0>>
<1>2. w \in Seq(Word) /\ w # <<>> /\ BigIntAlloc(m, "negated") = Allocated(m, "negated", w)
  BY <1>1 DEF BigIntAlloc
<1> HIDE DEF w, Word
<1>3. (m.left >= 2 /\ w # <<>>) = (m.left >= 2)
  <2>1. m.left \in Nat
    BY MachineFields
  <2> QED  BY <1>2, <2>1
<1> QED  BY <1>2, <1>3, AllocatedDoes

\* The temporary with the operand negated.
LEMMA OperandNegated ==
  ASSUME NEW D, NEW m \in MachineOn(D), NEW c \in D, "negated" \in D, "negated" # c,
         c \in m.live
  PROVE  LET t == BigIntAlloc(m, "negated")
             n == BigIntNeg(t.m, "negated", c)
         IN  /\ t.ok \in BOOLEAN /\ (~ t.ok => t.m = m)
             /\ t.ok => /\ n.ok \in BOOLEAN /\ n.m \in MachineOn(D)
                        /\ n.m.live = m.live \cup {"negated"}
                        /\ \A o \in D \ {"negated"} : n.m.big[o] = m.big[o]
                        /\ n.ok => /\ n.m.big["negated"] = Negated(m.big[c])
                                   /\ n.m.left >= m.left - 3
             /\ m.big[c].words # <<>> /\ m.left >= 3 => t.ok /\ n.ok
<1> DEFINE t == BigIntAlloc(m, "negated")
           n == BigIntNeg(t.m, "negated", c)
<1>1. /\ t.ok = (m.left >= 2)
      /\ t.m \in MachineOn(D)
      /\ ~ t.ok => t.m = m
      /\ t.ok => /\ t.m.live = m.live \cup {"negated"} /\ t.m.left = m.left - 2
                 /\ \A o \in D \ {"negated"} : t.m.big[o] = m.big[o]
  BY NegatedAllocated
<1>2. m.left \in Nat
  BY MachineFields
<1> HIDE DEF t
<1>3. t.ok \in BOOLEAN
  BY <1>1
<1>4. /\ Outcome(D, {}, t.m, n, "negated", Negated(t.m.big[c]))
      /\ /\ {"negated", c} \subseteq t.m.live /\ t.m.big[c].words # <<>> /\ t.m.left >= 1
         => n.ok
      /\ n.ok => n.m.left >= t.m.left - 1
  BY <1>1, NegDoes
<1> HIDE DEF n, MachineOn
<1>5. t.ok => t.m.big[c] = m.big[c] /\ {"negated", c} \subseteq t.m.live
  BY <1>1
<1>6. t.ok => /\ n.ok \in BOOLEAN /\ n.m \in MachineOn(D)
              /\ n.m.live = m.live \cup {"negated"}
              /\ \A o \in D \ {"negated"} : n.m.big[o] = m.big[o]
              /\ n.ok => n.m.big["negated"] = Negated(m.big[c])
  BY <1>1, <1>4, <1>5 DEF Outcome
<1>7. t.ok /\ n.ok => n.m.left >= m.left - 3
  <2> SUFFICES ASSUME t.ok, n.ok PROVE n.m.left >= m.left - 3
    OBVIOUS
  <2>1. n.m.left \in Nat
    BY <1>6, MachineFields
  <2>2. t.m.left = m.left - 2 /\ n.m.left >= t.m.left - 1
    BY <1>1, <1>4
  <2> QED  BY <1>2, <2>1, <2>2
<1>8. m.big[c].words # <<>> /\ m.left >= 3 => t.ok /\ n.ok
  <2> SUFFICES ASSUME m.big[c].words # <<>>, m.left >= 3 PROVE t.ok /\ n.ok
    OBVIOUS
  <2>1. m.left >= 2
    BY <1>2
  <2>2. t.ok
    BY <1>1, <2>1
  <2>3. t.m.left >= 1
    BY <1>1, <1>2, <2>2
  <2> QED  BY <1>4, <1>5, <2>2, <2>3
<1> QED  BY <1>1, <1>3, <1>6, <1>7, <1>8 DEF t, n

\* What WithNegated returns: the temporary is freed whether the allocation, the
\* negation or the call q that is made with it fails.
Cleared(t, n, q) ==
  IF ~ t.ok THEN t
  ELSE IF ~ n.ok THEN Failed(BigIntFree(n.m, "negated"))
  ELSE [q EXCEPT !.m = BigIntFree(q.m, "negated")]

\* The call with the negated operand is q, and is to set z to val.
NegatedCall(D, m, z, c, val, q) ==
  /\ m \in MachineOn(D) /\ z \in D /\ c \in D
  /\ "negated" \in D /\ "negated" \notin {z, c} /\ "negated" \notin m.live
  /\ c \in m.live
  /\ IsResult(q)
  /\ LET t == BigIntAlloc(m, "negated")
         n == BigIntNeg(t.m, "negated", c)
     IN  t.ok /\ n.ok => Outcome(D, {"result"}, n.m, q, z, val)

\* Both temporaries are gone, and z is val or the call has failed.
LEMMA WithNegatedDoes ==
  ASSUME NEW D, NEW m, NEW z, NEW c, NEW val, NEW q, NegatedCall(D, m, z, c, val, q)
  PROVE  LET t == BigIntAlloc(m, "negated")
             n == BigIntNeg(t.m, "negated", c)
             r == Cleared(t, n, q)
         IN  /\ Outcome(D, Temps, m, r, z, val)
             /\ t.ok /\ n.ok => r.ok = q.ok
<1> DEFINE t == BigIntAlloc(m, "negated")
           n == BigIntNeg(t.m, "negated", c)
           f == BigIntFree(n.m, "negated")
           k == BigIntFree(q.m, "negated")
           e == [q EXCEPT !.m = k]
           r == IF ~ t.ok THEN t ELSE IF ~ n.ok THEN Failed(f) ELSE e
<1>0. /\ m \in MachineOn(D) /\ z \in D /\ c \in D
      /\ "negated" \in D /\ "negated" \notin {z, c} /\ "negated" \notin m.live
      /\ c \in m.live
      /\ IsResult(q)
  BY DEF NegatedCall
<1>6. Cleared(t, n, q) = r
  BY DEF Cleared
<1> HIDE DEF r
<1> SUFFICES /\ Outcome(D, Temps, m, r, z, val)
             /\ t.ok /\ n.ok => r.ok = q.ok
  BY <1>6
<1> USE DEF r
<1>1. /\ t.ok \in BOOLEAN /\ (~ t.ok => t.m = m)
      /\ t.ok => /\ n.ok \in BOOLEAN /\ n.m \in MachineOn(D)
                 /\ n.m.live = m.live \cup {"negated"}
                 /\ \A o \in D \ {"negated"} : n.m.big[o] = m.big[o]
  BY <1>0, OperandNegated
<1>2. t.ok /\ n.ok => Outcome(D, {"result"}, n.m, q, z, val)
  BY DEF NegatedCall
<1> HIDE DEF t, n, MachineOn
<1>3. CASE ~ t.ok
  <2>1. r = t /\ t.ok = FALSE /\ t.m = m
    BY <1>1, <1>3
  <2> HIDE DEF r
  <2>2. Outcome(D, Temps, m, r, z, val)
    BY <1>0, <2>1 DEF Outcome
  <2> QED  BY <1>3, <2>2 DEF r, t, n
<1>4. CASE t.ok /\ ~ n.ok
  <2>1. f \in MachineOn(D) /\ f.live = n.m.live \ {"negated"}
        /\ \A o \in D \ {"negated"} : f.big[o] = n.m.big[o]
    BY <1>0, <1>1, <1>4, NegatedFreed
  <2>2. r = Failed(f)
    BY <1>4
  <2> HIDE DEF f, r
  <2>3. r.ok = FALSE /\ r.m = f
    BY <2>2 DEF Failed
  <2>4. f.live = m.live /\ f.big[z] = m.big[z] /\ \A o \in D \ (Temps \cup {z}) : f.big[o] = m.big[o]
    BY <1>0, <1>1, <1>4, <2>1 DEF Temps
  <2>5. Outcome(D, Temps, m, r, z, val)
    BY <2>1, <2>3, <2>4 DEF Outcome
  <2> QED  BY <1>4, <2>5 DEF r, f, t, n
<1>5. CASE t.ok /\ n.ok
  <2>1. Outcome(D, {"result"}, n.m, q, z, val)
    BY <1>2, <1>5
  <2>2. q.m \in MachineOn(D)
    BY <2>1 DEF Outcome
  <2>3. k \in MachineOn(D) /\ k.live = q.m.live \ {"negated"}
        /\ \A o \in D \ {"negated"} : k.big[o] = q.m.big[o]
    BY <1>0, <2>2, NegatedFreed
  <2>4. r = e
    BY <1>5
  <2> HIDE DEF k
  <2>5. e.ok = q.ok /\ e.m = k
    <3>1. q = [ok |-> q.ok, m |-> q.m]
      BY <1>0 DEF IsResult
    <3> QED  BY <3>1
  <2> HIDE DEF e, r
  <2>6. k.live = m.live
    BY <1>0, <1>1, <1>5, <2>1, <2>3 DEF Outcome
  <2>7. \A o \in D \ (Temps \cup {z}) : k.big[o] = m.big[o]
    BY <1>1, <1>5, <2>1, <2>3 DEF Outcome, Temps
  <2>8. q.ok \in BOOLEAN /\ (q.ok => k.big[z] = val)
        /\ (q.ok \/ k.big[z] = m.big[z] \/ k.big[z].words = <<>>)
    <3>1. n.m.big[z] = m.big[z] /\ k.big[z] = q.m.big[z]
      BY <1>0, <1>1, <1>5, <2>3
    <3> QED  BY <2>1, <3>1 DEF Outcome
  <2>9. Outcome(D, Temps, m, r, z, val)
    BY <2>3, <2>4, <2>5, <2>6, <2>7, <2>8 DEF Outcome
  <2>10. r.ok = q.ok
    BY <2>4, <2>5
  <2> QED  BY <2>9, <2>10 DEF r, e, k, f, t, n
<1> QED  BY <1>1, <1>3, <1>4, <1>5

\* The calls that are made with c negated: a + -c as |a| - |c|, a - c as |a| + |c|,
\* and the latter with its operands in the other order.
MinusNegated(m, z, a, c) ==
  WithNegated(m, c, LAMBDA n : SubtractMagnitudes(n, z, a, "negated"))
PlusNegated(m, z, a, c) ==
  WithNegated(m, c, LAMBDA n : AddMagnitudes(n, z, a, "negated"))
NegatedPlus(m, z, a, c) ==
  WithNegated(m, c, LAMBDA n : AddMagnitudes(n, z, "negated", a))

\* What the calls may be made on: no temporary is allocated.
Ready(D, m) == /\ m \in MachineOn(D)
               /\ Temps \subseteq D /\ m.live \cap Temps = {}

\* The operands of a call that have their words.
Whole(m, a, b) == m.big[a].words # <<>> /\ m.big[b].words # <<>>

\* The machine on which the call with a negated operand is made.
LEMMA NegatedReady ==
  ASSUME NEW D, NEW m, Ready(D, m), NEW z \in D \ Temps, NEW a \in D \ Temps,
         NEW c \in D \ Temps, {z, a, c} \subseteq m.live
  PROVE  LET t == BigIntAlloc(m, "negated")
             n == BigIntNeg(t.m, "negated", c)
         IN  /\ t.ok /\ n.ok =>
                  /\ n.m \in MachineOn(D)
                  /\ {z, a, "negated"} \subseteq n.m.live /\ "result" \notin n.m.live
                  /\ n.m.big[a] = m.big[a] /\ n.m.big["negated"] = Negated(m.big[c])
                  /\ Whole(m, a, c) => Whole(n.m, a, "negated")
             /\ Whole(m, a, c) /\ m.left >= 8 => t.ok /\ n.ok /\ n.m.left >= 4
<1> DEFINE t == BigIntAlloc(m, "negated")
           n == BigIntNeg(t.m, "negated", c)
<1>1. /\ m \in MachineOn(D) /\ "negated" \in D /\ "negated" # c /\ c \in m.live
      /\ "negated" \notin {z, a, c} /\ "result" \notin m.live
  BY DEF Ready, Temps
<1>2. /\ t.ok \in BOOLEAN /\ (~ t.ok => t.m = m)
      /\ t.ok => /\ n.ok \in BOOLEAN /\ n.m \in MachineOn(D)
                 /\ n.m.live = m.live \cup {"negated"}
                 /\ \A o \in D \ {"negated"} : n.m.big[o] = m.big[o]
                 /\ n.ok => /\ n.m.big["negated"] = Negated(m.big[c])
                            /\ n.m.left >= m.left - 3
      /\ m.big[c].words # <<>> /\ m.left >= 3 => t.ok /\ n.ok
  BY <1>1, OperandNegated
<1>3. Negated(m.big[c]).words = m.big[c].words /\ m.left \in Nat
  BY <1>1, MachineFields, NegatedType
<1> HIDE DEF t, n, MachineOn
<1>4. t.ok /\ n.ok => n.m.big[a] = m.big[a] /\ n.m.left \in Nat
  BY <1>1, <1>2, MachineFields
<1>5. t.ok /\ n.ok => {z, a, "negated"} \subseteq n.m.live /\ "result" \notin n.m.live
  BY <1>1, <1>2
<1>6. Whole(m, a, c) /\ m.left >= 8 => t.ok /\ n.ok /\ n.m.left >= 4
  <2> SUFFICES ASSUME Whole(m, a, c), m.left >= 8 PROVE t.ok /\ n.ok /\ n.m.left >= 4
    OBVIOUS
  <2>1. m.left >= 3
    BY <1>3
  <2>2. t.ok /\ n.ok
    BY <1>2, <2>1 DEF Whole
  <2>3. n.m.left >= m.left - 3 /\ n.m.left \in Nat
    BY <1>2, <1>4, <2>2
  <2> QED  BY <1>3, <2>2, <2>3
<1>7. t.ok /\ n.ok /\ Whole(m, a, c) => Whole(n.m, a, "negated")
  BY <1>2, <1>3, <1>4 DEF Whole
<1> QED  BY <1>1, <1>2, <1>3, <1>4, <1>5, <1>6, <1>7 DEF t, n

\* a + -c as a difference of magnitudes: z is set or not, and nothing leaks.
LEMMA SubtractNegatedDoes ==
  ASSUME NEW D, NEW m, Ready(D, m), NEW z \in D \ Temps, NEW a \in D \ Temps,
         NEW c \in D \ Temps, {z, a, c} \subseteq m.live
  PROVE  LET r == MinusNegated(m, z, a, c)
         IN  /\ Outcome(D, Temps, m, r, z, DifferenceOfMagnitudes(m.big[a], Negated(m.big[c])))
             /\ Whole(m, a, c) /\ m.left >= 8 => r.ok
<1> DEFINE t == BigIntAlloc(m, "negated")
           n == BigIntNeg(t.m, "negated", c)
           q == SubtractMagnitudes(n.m, z, a, "negated")
           r == Cleared(t, n, q)
           val == DifferenceOfMagnitudes(m.big[a], Negated(m.big[c]))
<1>1. /\ t.ok /\ n.ok =>
                  /\ n.m \in MachineOn(D)
                  /\ {z, a, "negated"} \subseteq n.m.live /\ "result" \notin n.m.live
                  /\ n.m.big[a] = m.big[a] /\ n.m.big["negated"] = Negated(m.big[c])
                  /\ Whole(m, a, c) => Whole(n.m, a, "negated")
      /\ Whole(m, a, c) /\ m.left >= 8 => t.ok /\ n.ok /\ n.m.left >= 4
  BY NegatedReady
<1>2. MinusNegated(m, z, a, c) = r
  BY DEF WithNegated, Cleared, MinusNegated, PlusNegated, NegatedPlus
<1>3. /\ m \in MachineOn(D) /\ "negated" \in D /\ "negated" \notin {z, c}
      /\ "negated" \notin m.live /\ c \in m.live
      /\ "result" \in D /\ "result" \notin {z, a, "negated"} /\ z \in D /\ a \in D /\ c \in D
  BY DEF Ready, Temps
<1>4. IsResult(q)
  BY Results
<1>5. t.ok /\ n.ok => /\ Outcome(D, {"result"}, n.m, q, z, val)
                      /\ Whole(n.m, a, "negated") /\ n.m.left >= 3 => q.ok
  <2> SUFFICES ASSUME t.ok, n.ok
               PROVE  /\ Outcome(D, {"result"}, n.m, q, z, val)
                      /\ Whole(n.m, a, "negated") /\ n.m.left >= 3 => q.ok
    OBVIOUS
  <2> DEFINE k == n.m
             e == "negated"
  <2>1. /\ k \in MachineOn(D) /\ e \in D /\ "result" \notin {z, a, e} /\ "result" \notin k.live
        /\ {z, a, e} \subseteq k.live
        /\ val = DifferenceOfMagnitudes(k.big[a], k.big[e])
    BY <1>1, <1>3
  <2>2. q = SubtractMagnitudes(k, z, a, e)
    OBVIOUS
  <2> HIDE DEF k, e, q, val, MachineOn
  <2>3. /\ Outcome(D, {"result"}, k, q, z, val)
        /\ Whole(k, a, e) /\ k.left >= 3 => q.ok
    BY <1>3, <2>1, <2>2, SubtractMagnitudesDoes DEF Whole
  <2> QED  BY <2>3 DEF k, e
<1>6. /\ Outcome(D, Temps, m, r, z, val)
      /\ t.ok /\ n.ok => r.ok = q.ok
  <2> HIDE DEF q, val, MachineOn
  <2>1. NegatedCall(D, m, z, c, val, q)
    BY <1>3, <1>4, <1>5 DEF NegatedCall
  <2> QED  BY <2>1, WithNegatedDoes
<1>7. Whole(m, a, c) /\ m.left >= 8 => r.ok
  <2> HIDE DEF q, r, t, n, val
  <2> SUFFICES ASSUME Whole(m, a, c), m.left >= 8 PROVE r.ok
    OBVIOUS
  <2>1. t.ok /\ n.ok /\ n.m.left >= 4 /\ n.m.left \in Nat /\ Whole(n.m, a, "negated")
    BY <1>1, MachineFields
  <2>2. n.m.left >= 3
    BY <2>1
  <2>3. q.ok /\ r.ok = q.ok
    BY <1>5, <1>6, <2>1, <2>2
  <2> QED  BY <2>3
<1> HIDE DEF r
<1> QED  BY <1>2, <1>6, <1>7

\* a - -c as a sum of magnitudes, in either order.
LEMMA AddNegatedDoes ==
  ASSUME NEW D, NEW m, Ready(D, m), NEW z \in D \ Temps, NEW a \in D \ Temps,
         NEW c \in D \ Temps, {z, a, c} \subseteq m.live
  PROVE  LET r == PlusNegated(m, z, a, c)
             s == NegatedPlus(m, z, a, c)
         IN  /\ Outcome(D, Temps, m, r, z, SumOfMagnitudes(m.big[a], Negated(m.big[c])))
             /\ Whole(m, a, c) /\ m.left >= 8 => r.ok
             /\ Outcome(D, Temps, m, s, z, SumOfMagnitudes(Negated(m.big[c]), m.big[a]))
             /\ Whole(m, a, c) /\ m.left >= 8 => s.ok
<1> DEFINE t == BigIntAlloc(m, "negated")
           n == BigIntNeg(t.m, "negated", c)
           With(q) == Cleared(t, n, q)
           q1 == AddMagnitudes(n.m, z, a, "negated")
           q2 == AddMagnitudes(n.m, z, "negated", a)
           v1 == SumOfMagnitudes(m.big[a], Negated(m.big[c]))
           v2 == SumOfMagnitudes(Negated(m.big[c]), m.big[a])
<1>1. /\ t.ok /\ n.ok =>
                  /\ n.m \in MachineOn(D)
                  /\ {z, a, "negated"} \subseteq n.m.live /\ "result" \notin n.m.live
                  /\ n.m.big[a] = m.big[a] /\ n.m.big["negated"] = Negated(m.big[c])
                  /\ Whole(m, a, c) => Whole(n.m, a, "negated")
      /\ Whole(m, a, c) /\ m.left >= 8 => t.ok /\ n.ok /\ n.m.left >= 4
  BY NegatedReady
<1>2. /\ PlusNegated(m, z, a, c) = With(q1)
      /\ NegatedPlus(m, z, a, c) = With(q2)
  BY DEF WithNegated, Cleared, MinusNegated, PlusNegated, NegatedPlus
<1>3. /\ m \in MachineOn(D) /\ "negated" \in D /\ "negated" \notin {z, c}
      /\ "negated" \notin m.live /\ c \in m.live
      /\ "result" \in D /\ "result" \notin {z, a, "negated"} /\ z \in D /\ a \in D /\ c \in D
  BY DEF Ready, Temps
<1>4. IsResult(q1) /\ IsResult(q2)
  BY Results
<1>5. t.ok /\ n.ok => /\ Outcome(D, {"result"}, n.m, q1, z, v1)
                      /\ Whole(n.m, a, "negated") /\ n.m.left >= 4 => q1.ok
                      /\ Outcome(D, {"result"}, n.m, q2, z, v2)
                      /\ Whole(n.m, a, "negated") /\ n.m.left >= 4 => q2.ok
  <2> SUFFICES ASSUME t.ok, n.ok
               PROVE  /\ Outcome(D, {"result"}, n.m, q1, z, v1)
                      /\ Whole(n.m, a, "negated") /\ n.m.left >= 4 => q1.ok
                      /\ Outcome(D, {"result"}, n.m, q2, z, v2)
                      /\ Whole(n.m, a, "negated") /\ n.m.left >= 4 => q2.ok
    OBVIOUS
  <2> DEFINE k == n.m
             e == "negated"
  <2>1. /\ k \in MachineOn(D) /\ e \in D /\ "result" \notin {z, a, e} /\ "result" \notin k.live
        /\ z \in k.live
        /\ v1 = SumOfMagnitudes(k.big[a], k.big[e])
        /\ v2 = SumOfMagnitudes(k.big[e], k.big[a])
    BY <1>1, <1>3
  <2>2. q1 = AddMagnitudes(k, z, a, e) /\ q2 = AddMagnitudes(k, z, e, a)
    OBVIOUS
  <2> HIDE DEF k, e, q1, q2, v1, v2, MachineOn
  <2>3. /\ Outcome(D, {"result"}, k, q1, z, v1)
        /\ Whole(k, a, e) /\ k.left >= 4 => q1.ok
    BY <1>3, <2>1, <2>2, AddMagnitudesDoes DEF Whole
  <2>4. /\ Outcome(D, {"result"}, k, q2, z, v2)
        /\ Whole(k, a, e) /\ k.left >= 4 => q2.ok
    BY <1>3, <2>1, <2>2, AddMagnitudesDoes DEF Whole
  <2> QED  BY <2>3, <2>4 DEF k, e
<1>6. /\ Outcome(D, Temps, m, With(q1), z, v1)
      /\ t.ok /\ n.ok => With(q1).ok = q1.ok
  <2> HIDE DEF q1, v1, MachineOn
  <2>1. NegatedCall(D, m, z, c, v1, q1)
    BY <1>3, <1>4, <1>5 DEF NegatedCall
  <2> QED  BY <2>1, WithNegatedDoes
<1>7. /\ Outcome(D, Temps, m, With(q2), z, v2)
      /\ t.ok /\ n.ok => With(q2).ok = q2.ok
  <2> HIDE DEF q2, v2, MachineOn
  <2>1. NegatedCall(D, m, z, c, v2, q2)
    BY <1>3, <1>4, <1>5 DEF NegatedCall
  <2> QED  BY <2>1, WithNegatedDoes
<1> DEFINE r1 == With(q1)
           r2 == With(q2)
<1>8. Whole(m, a, c) /\ m.left >= 8 => r1.ok /\ r2.ok
  <2> HIDE DEF q1, q2, r1, r2, t, n, v1, v2
  <2> SUFFICES ASSUME Whole(m, a, c), m.left >= 8 PROVE r1.ok /\ r2.ok
    OBVIOUS
  <2>1. t.ok /\ n.ok /\ n.m.left >= 4 /\ Whole(n.m, a, "negated")
    BY <1>1
  <2>2. q1.ok /\ q2.ok
    BY <1>5, <2>1
  <2>3. r1.ok = q1.ok /\ r2.ok = q2.ok
    BY <1>6, <1>7, <2>1 DEF r1, r2
  <2> QED  BY <2>2, <2>3
<1>9. /\ Outcome(D, Temps, m, r1, z, v1) /\ Outcome(D, Temps, m, r2, z, v2)
      /\ PlusNegated(m, z, a, c) = r1
      /\ NegatedPlus(m, z, a, c) = r2
  BY <1>2, <1>6, <1>7
<1> HIDE DEF r1, r2
<1> QED  BY <1>8, <1>9

\* A call that uses fewer temporaries leaves none of the others either.
LEMMA FewerTemporaries ==
  ASSUME NEW D, NEW T, NEW m, NEW r, NEW z, NEW n, Outcome(D, T, m, r, z, n),
         T \subseteq Temps
  PROVE  Outcome(D, Temps, m, r, z, n)
<1> HIDE DEF MachineOn, Temps
<1> QED  BY DEF Outcome

\* What holds of a call r that is to set z to n, with operands a and b, whether
\* they have their words or not.
Computes(D, m, r, z, a, b, n) ==
  /\ Outcome(D, Temps, m, r, z, n)
  /\ {z, a, b} \subseteq m.live /\ Whole(m, a, b) /\ m.left >= 8 => r.ok

\* Operands of one sign.
LEMMA ReadyMagnitudes ==
  ASSUME NEW D, NEW m, Ready(D, m), NEW z \in D \ Temps, NEW a \in D \ Temps,
         NEW b \in D \ Temps, {z, a, b} \subseteq m.live
  PROVE  /\ Computes(D, m, AddMagnitudes(m, z, a, b), z, a, b,
                     SumOfMagnitudes(m.big[a], m.big[b]))
         /\ Computes(D, m, SubtractMagnitudes(m, z, a, b), z, a, b,
                     DifferenceOfMagnitudes(m.big[a], m.big[b]))
<1>1. /\ m \in MachineOn(D) /\ "result" \in D /\ "result" \notin {z, a, b}
      /\ "result" \notin m.live /\ {z, a, b} \subseteq m.live
      /\ z \in D /\ a \in D /\ b \in D /\ {"result"} \subseteq Temps
  BY DEF Ready, Temps
<1>2. m.left \in Nat
  BY <1>1, MachineFields
<1> DEFINE r == AddMagnitudes(m, z, a, b)
           v == SumOfMagnitudes(m.big[a], m.big[b])
           s == SubtractMagnitudes(m, z, a, b)
           w == DifferenceOfMagnitudes(m.big[a], m.big[b])
<1>3. Outcome(D, {"result"}, m, r, z, v) /\ (Whole(m, a, b) /\ m.left >= 4 => r.ok)
  BY <1>1, AddMagnitudesDoes DEF Whole
<1>4. Outcome(D, {"result"}, m, s, z, w) /\ (Whole(m, a, b) /\ m.left >= 3 => s.ok)
  BY <1>1, SubtractMagnitudesDoes DEF Whole
<1> HIDE DEF r, v, s, w, MachineOn
<1>5. Outcome(D, Temps, m, r, z, v) /\ Outcome(D, Temps, m, s, z, w)
  BY <1>1, <1>3, <1>4, FewerTemporaries
<1>6. m.left >= 8 => m.left >= 4 /\ m.left >= 3
  BY <1>2
<1>7. Computes(D, m, r, z, a, b, v) /\ Computes(D, m, s, z, a, b, w)
  BY <1>3, <1>4, <1>5, <1>6 DEF Computes
<1> QED  BY <1>7 DEF r, v, s, w

\* An operand that is zero.
LEMMA ReadyCopy ==
  ASSUME NEW D, NEW m, Ready(D, m), NEW z \in D \ Temps, NEW a \in D \ Temps,
         NEW b \in D \ Temps, {z, a, b} \subseteq m.live
  PROVE  /\ Computes(D, m, BigIntCopy(m, z, a), z, a, b, m.big[a])
         /\ Computes(D, m, BigIntCopy(m, z, b), z, a, b, m.big[b])
<1>1. /\ m \in MachineOn(D)
      /\ z \in D /\ a \in D /\ b \in D /\ {} \subseteq Temps
      /\ {z, a} \subseteq m.live /\ {z, b} \subseteq m.live
  BY DEF Ready
<1>2. m.left \in Nat
  BY <1>1, MachineFields
<1> DEFINE r == BigIntCopy(m, z, a)
           s == BigIntCopy(m, z, b)
<1>3. Outcome(D, {}, m, r, z, m.big[a]) /\ (Whole(m, a, b) /\ m.left >= 1 => r.ok)
  BY <1>1, CopyDoes DEF Whole
<1>4. Outcome(D, {}, m, s, z, m.big[b]) /\ (Whole(m, a, b) /\ m.left >= 1 => s.ok)
  BY <1>1, CopyDoes DEF Whole
<1> HIDE DEF r, s, MachineOn
<1>5. Outcome(D, Temps, m, r, z, m.big[a]) /\ Outcome(D, Temps, m, s, z, m.big[b])
  BY <1>1, <1>3, <1>4, FewerTemporaries
<1>6. m.left >= 8 => m.left >= 1
  BY <1>2
<1> QED  BY <1>3, <1>4, <1>5, <1>6 DEF Computes, r, s

\* Operands of different signs.
LEMMA ReadyNegated ==
  ASSUME NEW D, NEW m, Ready(D, m), NEW z \in D \ Temps, NEW a \in D \ Temps,
         NEW b \in D \ Temps, {z, a, b} \subseteq m.live
  PROVE  /\ Computes(D, m, MinusNegated(m, z, a, b),
                     z, a, b, DifferenceOfMagnitudes(m.big[a], Negated(m.big[b])))
         /\ Computes(D, m, PlusNegated(m, z, a, b),
                     z, a, b, SumOfMagnitudes(m.big[a], Negated(m.big[b])))
         /\ Computes(D, m, NegatedPlus(m, z, a, b),
                     z, a, b, SumOfMagnitudes(Negated(m.big[b]), m.big[a]))
<1> DEFINE s == MinusNegated(m, z, a, b)
           p == PlusNegated(m, z, a, b)
           q == NegatedPlus(m, z, a, b)
<1>1. /\ Outcome(D, Temps, m, s, z, DifferenceOfMagnitudes(m.big[a], Negated(m.big[b])))
      /\ Whole(m, a, b) /\ m.left >= 8 => s.ok
  BY SubtractNegatedDoes
<1>2. /\ Outcome(D, Temps, m, p, z, SumOfMagnitudes(m.big[a], Negated(m.big[b])))
      /\ Whole(m, a, b) /\ m.left >= 8 => p.ok
      /\ Outcome(D, Temps, m, q, z, SumOfMagnitudes(Negated(m.big[b]), m.big[a]))
      /\ Whole(m, a, b) /\ m.left >= 8 => q.ok
  BY AddNegatedDoes
<1> HIDE DEF s, p, q
<1>3. /\ Computes(D, m, s, z, a, b, DifferenceOfMagnitudes(m.big[a], Negated(m.big[b])))
      /\ Computes(D, m, p, z, a, b, SumOfMagnitudes(m.big[a], Negated(m.big[b])))
      /\ Computes(D, m, q, z, a, b, SumOfMagnitudes(Negated(m.big[b]), m.big[a]))
  BY <1>1, <1>2 DEF Computes
<1> QED  BY <1>3 DEF s, p, q

\* A NULL operand or target.
LEMMA NotAllocated ==
  ASSUME NEW D, NEW m, Ready(D, m), NEW z, NEW a, NEW b, NEW n,
         ~ {z, a, b} \subseteq m.live
  PROVE  Computes(D, m, Failed(m), z, a, b, n)
<1>1. m \in MachineOn(D) /\ {} \subseteq Temps
  BY DEF Ready
<1>2. Outcome(D, {}, m, Failed(m), z, n)
  BY <1>1, FailedDoes
<1>3. Outcome(D, Temps, m, Failed(m), z, n)
  BY <1>1, <1>2, FewerTemporaries
<1> QED  BY <1>3 DEF Computes

\* BigIntAdd sets z to a function of its operands alone, or fails cleanly.
LEMMA AddDoes ==
  ASSUME NEW D, NEW m, Ready(D, m), NEW z \in D \ Temps, NEW a \in D \ Temps,
         NEW b \in D \ Temps
  PROVE  Computes(D, m, BigIntAdd(m, z, a, b), z, a, b, SumOf(m.big[a], m.big[b]))
<1>1. CASE ~ {z, a, b} \subseteq m.live
  <2>1. BigIntAdd(m, z, a, b) = Failed(m)
    BY <1>1 DEF BigIntAdd
  <2> QED  BY <1>1, <2>1, NotAllocated
<1>2. CASE {z, a, b} \subseteq m.live
  <2> DEFINE s == MinusNegated(m, z, a, b)
             t == MinusNegated(m, z, b, a)
             x == m.big[a]
             y == m.big[b]
             C(r, n) == Computes(D, m, r, z, a, b, n)
  <2>1. BigIntAdd(m, z, a, b) =
          IF x.sign = zero THEN BigIntCopy(m, z, b)
          ELSE IF y.sign = zero THEN BigIntCopy(m, z, a)
          ELSE IF x.sign = y.sign THEN AddMagnitudes(m, z, a, b)
          ELSE IF x.sign > y.sign THEN s ELSE t
    BY <1>2 DEF BigIntAdd, MinusNegated
  <2>2. C(BigIntCopy(m, z, a), x) /\ C(BigIntCopy(m, z, b), y)
    BY <1>2, ReadyCopy
  <2>3. C(AddMagnitudes(m, z, a, b), SumOfMagnitudes(x, y))
    BY <1>2, ReadyMagnitudes
  <2>4. C(s, DifferenceOfMagnitudes(x, Negated(y)))
    BY <1>2, ReadyNegated
  <2>5. C(t, DifferenceOfMagnitudes(y, Negated(x)))
    <3>1. Computes(D, m, t, z, b, a, DifferenceOfMagnitudes(y, Negated(x)))
      BY <1>2, ReadyNegated
    <3> HIDE DEF t, x, y
    <3> QED  BY <3>1 DEF Computes, Whole
  <2> HIDE DEF s, t, x, y, C
  <2>6. C(BigIntAdd(m, z, a, b), SumOf(x, y))
    BY <2>1, <2>2, <2>3, <2>4, <2>5 DEF SumOf
  <2> QED  BY <2>6 DEF C, x, y
<1> QED  BY <1>1, <1>2

\* BigIntSub does,
LEMMA SubDoes ==
  ASSUME NEW D, NEW m, Ready(D, m), NEW z \in D \ Temps, NEW a \in D \ Temps,
         NEW b \in D \ Temps
  PROVE  Computes(D, m, BigIntSub(m, z, a, b), z, a, b, DifferenceOf(m.big[a], m.big[b]))
<1>1. CASE ~ {z, a, b} \subseteq m.live
  <2>1. BigIntSub(m, z, a, b) = Failed(m)
    BY <1>1 DEF BigIntSub
  <2> QED  BY <1>1, <2>1, NotAllocated
<1>2. CASE {z, a, b} \subseteq m.live
  <2> DEFINE s == PlusNegated(m, z, a, b)
             t == NegatedPlus(m, z, a, b)
             x == m.big[a]
             y == m.big[b]
             C(r, n) == Computes(D, m, r, z, a, b, n)
  <2>1. BigIntSub(m, z, a, b) =
          IF x.sign = zero THEN BigIntCopy(m, z, b)
          ELSE IF y.sign = zero THEN BigIntCopy(m, z, a)
          ELSE IF x.sign = y.sign THEN SubtractMagnitudes(m, z, a, b)
          ELSE IF x.sign > y.sign THEN s ELSE t
    BY <1>2 DEF BigIntSub, PlusNegated, NegatedPlus
  <2>2. C(BigIntCopy(m, z, a), x) /\ C(BigIntCopy(m, z, b), y)
    BY <1>2, ReadyCopy
  <2>3. C(SubtractMagnitudes(m, z, a, b), DifferenceOfMagnitudes(x, y))
    BY <1>2, ReadyMagnitudes
  <2>4. /\ C(s, SumOfMagnitudes(x, Negated(y)))
        /\ C(t, SumOfMagnitudes(Negated(y), x))
    BY <1>2, ReadyNegated
  <2> HIDE DEF s, t, x, y, C
  <2>6. C(BigIntSub(m, z, a, b), DifferenceOf(x, y))
    BY <2>1, <2>2, <2>3, <2>4 DEF DifferenceOf
  <2> QED  BY <2>6 DEF C, x, y
<1> QED  BY <1>1, <1>2

\* and BigIntMul.
LEMMA MulDoes ==
  ASSUME NEW D, NEW m, Ready(D, m), NEW z \in D \ Temps, NEW a \in D \ Temps,
         NEW b \in D \ Temps
  PROVE  Computes(D, m, BigIntMul(m, z, a, b), z, a, b, ProductOf(m.big[a], m.big[b]))
<1>1. CASE ~ {z, a, b} \subseteq m.live
  <2>1. BigIntMul(m, z, a, b) = Failed(m)
    BY <1>1 DEF BigIntMul
  <2> QED  BY <1>1, <2>1, NotAllocated
<1>2. CASE {z, a, b} \subseteq m.live
  <2> DEFINE x == m.big[a]
             y == m.big[b]
             uv == Multiplied(x, y)
             res == ProductOf(x, y)
             whole == x.words # <<>> /\ y.words # <<>>
             t == Allocated(m, "result", uv)
             k == [t.m EXCEPT !.big["result"] = res]
             d == Deliver(k, z, "result")
             r == BigIntMul(m, z, a, b)
  <2>1. /\ m \in MachineOn(D) /\ "result" \in D /\ "result" \notin {z, a, b}
        /\ "result" \notin m.live
        /\ z \in D /\ a \in D /\ b \in D /\ {"result"} \subseteq Temps
    BY <1>2 DEF Ready, Temps
  <2>2. x \in BigInteger /\ y \in BigInteger /\ m.left \in Nat
    BY <2>1, MachineFields
  <2>3. /\ uv \in Seq(Word) /\ res \in BigInteger
        /\ whole => uv # <<>> /\ res.words # <<>>
    <3> HIDE DEF x, y
    <3> QED  BY <2>1, <2>2, ProductOfType DEF x, y
  <2>4. r = IF ~ t.ok THEN t ELSE d
    BY <1>2 DEF BigIntMul, ProductOf, Multiplied
  <2> HIDE DEF res, x, y, uv, r, k, d, whole
  <2>5. /\ t.ok = (m.left >= 2 /\ uv # <<>>)
        /\ t.m \in MachineOn(D)
        /\ ~ t.ok => t.m = m
        /\ t.ok => /\ t.m.live = m.live \cup {"result"} /\ t.m.left = m.left - 2
                   /\ \A o \in D \ {"result"} : t.m.big[o] = m.big[o]
    BY <2>1, <2>3, AllocatedDoes
  <2> HIDE DEF t, Word, MachineOn, BigInteger
  <2>6. t.ok \in BOOLEAN
    BY <2>5
  <2>7. CASE ~ t.ok
    <3>1. r = t /\ t.m = m
      BY <2>4, <2>5, <2>7
    <3>2. t.ok = FALSE /\ (~ (m.left >= 2) \/ uv = <<>>)
      BY <2>5, <2>6, <2>7
    <3>3. Outcome(D, Temps, m, r, z, res)
      BY <2>1, <2>5, <3>1, <3>2 DEF Outcome
    <3>4. ~ (whole /\ m.left >= 8)
      BY <2>2, <2>3, <3>2
    <3> QED  BY <3>3, <3>4 DEF r, res, x, y, whole, Computes, Whole
  <2>8. CASE t.ok
    <3>1. r = d
      BY <2>4, <2>8
    <3>2. /\ k \in MachineOn(D) /\ k.live = t.m.live /\ k.left = t.m.left /\ k.big["result"] = res
          /\ \A o \in D \ {"result"} : k.big[o] = t.m.big[o]
      BY <2>1, <2>3, <2>5, <2>8, PutType DEF k
    <3>3. {z, "result"} \subseteq k.live /\ z # "result"
      BY <1>2, <2>1, <2>5, <2>8, <3>2
    <3>4. /\ d.ok \in BOOLEAN
          /\ d.m \in MachineOn(D)
          /\ d.m.live = k.live \ {"result"}
          /\ \A o \in D \ {z, "result"} : d.m.big[o] = k.big[o]
          /\ d.ok => d.m.big[z] = res
          /\ d.ok \/ d.m.big[z] = k.big[z] \/ d.m.big[z].words = <<>>
          /\ whole /\ k.left >= 1 => d.ok
      BY <2>1, <2>3, <3>2, <3>3, DeliverDoes DEF d
    <3>5. d.m.live = m.live
      BY <2>1, <2>5, <2>8, <3>2, <3>4
    <3>6. k.big[z] = m.big[z] /\ \A o \in D \ {z, "result"} : d.m.big[o] = m.big[o]
      BY <2>1, <2>5, <2>8, <3>2, <3>3, <3>4
    <3>7. Outcome(D, {"result"}, m, r, z, res)
      BY <3>1, <3>4, <3>5, <3>6 DEF Outcome
    <3>8. whole /\ m.left >= 8 => r.ok
      BY <2>2, <2>5, <2>8, <3>1, <3>2, <3>4
    <3>9. Outcome(D, Temps, m, r, z, res)
      BY <2>1, <3>7, FewerTemporaries
    <3> QED  BY <3>8, <3>9 DEF r, res, x, y, whole, Computes, Whole
  <2> QED  BY <2>7, <2>8
<1> QED  BY <1>1, <1>2

----------------------------------------------------------------------------
(***************************************************************************)
(* The calls that set a number from outside.                               *)
(***************************************************************************)

\* A call that keeps the structures what they should be, and frees and allocates
\* none.
Keeps(D, m, r) == r.m \in MachineOn(D) /\ r.m.live = m.live

\* Storing a word into words.
LEMMA StoredWord ==
  ASSUME NEW w \in Seq(Word), NEW j \in 1 .. Len(w), NEW v \in Word
  PROVE  [w EXCEPT ![j] = v] \in Seq(Word) /\ Len([w EXCEPT ![j] = v]) = Len(w)
<1> HIDE DEF Word
<1> QED  OBVIOUS

StoredAt(k, z, s, j, v) == [k EXCEPT !.big[z].sign = s, !.big[z].words[j] = v]

\* The places of the words of a number.
Places(k, z) == 1 .. Len(k.big[z].words)

\* Setting the sign of a number and one of its words.
LEMMA StoreKeeps ==
  ASSUME NEW D, NEW k \in MachineOn(D), NEW z \in D,
         NEW s \in Int, NEW j \in Places(k, z), NEW v \in Word
  PROVE  StoredAt(k, z, s, j, v) \in MachineOn(D) /\ StoredAt(k, z, s, j, v).live = k.live
<1> DEFINE x == k.big[z]
           w == [x.words EXCEPT ![j] = v]
           y == [x EXCEPT !.sign = s]
           n == [y EXCEPT !.words = w]
           p == [k EXCEPT !.big[z].sign = s, !.big[z].words[j] = v]
<1>1. x \in BigInteger /\ x.words \in Seq(Word)
  BY MachineFields, NumberFields
<1>2. w \in Seq(Word) /\ Len(w) = Len(x.words)
  <2> DEFINE o == x.words
  <2>1. o \in Seq(Word) /\ j \in 1 .. Len(o)
    BY <1>1 DEF Places
  <2> HIDE DEF o, Word
  <2>2. [o EXCEPT ![j] = v] \in Seq(Word) /\ Len([o EXCEPT ![j] = v]) = Len(o)
    BY <2>1, StoredWord
  <2> QED  BY <2>2 DEF o
<1>3. n \in BigInteger
  <2> HIDE DEF x, w, Word
  <2>1. /\ n.sign = s /\ n.words = w /\ n.wordcount = x.wordcount
        /\ n \in [sign : Int, words : Seq(Word), wordcount : Nat]
    BY <1>1, <1>2 DEF BigInteger
  <2>2. x.words # <<>> /\ x.wordcount = Len(x.words)
    <3>1. Len(x.words) # 0 /\ x.words \in Seq(Word)
      BY <1>1 DEF x, Places
    <3>2. x.words # <<>>
      BY <3>1
    <3> QED  BY <1>1, <3>2 DEF BigInteger
  <2> HIDE DEF n
  <2> QED  BY <1>2, <2>1, <2>2 DEF BigInteger
<1>4. y \in BigInteger
  <2> HIDE DEF x, Word
  <2> QED  BY <1>1 DEF BigInteger
<1> DEFINE k1 == [k EXCEPT !.big[z] = y]
<1>5. p = [k1 EXCEPT !.big[z].words[j] = v]
  BY DEF MachineOn
<1>6. n = [y EXCEPT !.words[j] = v]
  <2>1. y.words = x.words
    <3> HIDE DEF x
    <3> QED  BY <1>1 DEF BigInteger
  <2> QED  BY <2>1
<1> HIDE DEF n, p, x, y
<1>7. k1 \in MachineOn(D) /\ k1.live = k.live /\ k1.big[z] = y
  BY <1>4, PutType
<1> HIDE DEF k1
<1>8. p = [k1 EXCEPT !.big[z] = n]
  BY <1>5, <1>6, <1>7 DEF MachineOn
<1>9. p \in MachineOn(D) /\ p.live = k.live
  BY <1>3, <1>7, <1>8, PutType
<1> QED  BY <1>9 DEF p, StoredAt

\* The words of a number that a store beyond its top has grown.
LEMMA GrownType ==
  ASSUME NEW w \in Seq(Word), NEW n \in Nat
  PROVE  LET g == [i \in 1 .. n + 1 |-> WordAt(w, i)]
         IN  g \in Seq(Word) /\ Len(g) = n + 1
<1> DEFINE g == [i \in 1 .. n + 1 |-> WordAt(w, i)]
<1>1. n + 1 \in Nat
  OBVIOUS
<1>2. \A i \in 1 .. n + 1 : WordAt(w, i) \in Word
  <2> TAKE i \in 1 .. n + 1
  <2> HIDE DEF Word
  <2>1. i \in Nat \ {0}
    OBVIOUS
  <2> QED  BY <2>1, WordAtType
<1> HIDE DEF Word
<1> QED  BY <1>1, <1>2

\* BigIntSetAt keeps every structure a number,
LEMMA SetAtKeeps ==
  ASSUME NEW D, NEW m \in MachineOn(D), NEW z \in D, NEW index \in Nat, NEW value \in Word
  PROVE  Keeps(D, m, BigIntSetAt(m, z, index, value))
<1> DEFINE x == m.big[z]
           n == Len(x.words)
           fixed == [m EXCEPT !.big[z].wordcount = n]
           grown == [i \in 1 .. index + 1 |-> WordAt(x.words, i)]
           g == Resized(fixed, z, grown)
           sign == IF x.sign = zero /\ value # 0 THEN positive ELSE x.sign
           Store(k) == [k EXCEPT !.big[z].sign = sign, !.big[z].words[index + 1] = value]
           less == SubSeq(x.words, 1, n - 1)
           cut == Resized(m, z, less)
<1>1. x \in BigInteger /\ x.words \in Seq(Word) /\ n \in Nat
      /\ x.sign \in Int
  BY MachineFields, NumberFields
<1>2. fixed \in MachineOn(D) /\ fixed.live = m.live
  <2> DEFINE y == [x EXCEPT !.wordcount = n]
  <2>1. y \in BigInteger
    <3> HIDE DEF x, Word
    <3> QED  BY <1>1 DEF BigInteger
  <2>2. fixed = [m EXCEPT !.big[z] = y]
    BY DEF MachineOn
  <2> HIDE DEF fixed, y
  <2> QED  BY <2>1, <2>2, PutType
<1>3. grown \in Seq(Word) /\ Len(grown) = index + 1
  <2> HIDE DEF x
  <2> QED  BY <1>1, GrownType
<1>4. sign \in Int
  BY <1>1 DEF zero, positive
<1>5. BigIntSetAt(m, z, index, value) =
        IF z \notin m.live THEN Failed(m)
        ELSE IF index >= n
        THEN IF value = 0 THEN Done(fixed)
             ELSE IF g.ok THEN Done(Store(g.m)) ELSE g
        ELSE IF index = n - 1 /\ value = 0 /\ n > 1 THEN cut
        ELSE Done(Store(m))
  BY DEF BigIntSetAt
<1> HIDE DEF fixed, grown, sign
<1>6. /\ g.ok \in BOOLEAN
      /\ g.m \in MachineOn(D) /\ g.m.live = m.live
      /\ g.ok => g.m.big[z] = Number(fixed.big[z].sign, grown)
  <2>1. /\ g.ok = (fixed.left >= 1)
        /\ g.m \in MachineOn(D) /\ g.m.live = fixed.live
        /\ g.ok => g.m.big[z] = Number(fixed.big[z].sign, grown)
    BY <1>2, <1>3, ResizedDoes
  <2> HIDE DEF g
  <2>2. g.ok \in BOOLEAN
    BY <2>1
  <2> QED  BY <1>2, <2>1, <2>2
<1>7. g.ok => Store(g.m) \in MachineOn(D) /\ Store(g.m).live = m.live
  <2> SUFFICES ASSUME g.ok PROVE Store(g.m) \in MachineOn(D) /\ Store(g.m).live = m.live
    OBVIOUS
  <2> DEFINE k == g.m
             j == index + 1
  <2>1. k.big[z].words = grown
    BY <1>6 DEF Number
  <2>2. k \in MachineOn(D) /\ k.live = m.live
    BY <1>6
  <2> HIDE DEF k, g
  <2>3. j \in 1 .. Len(k.big[z].words)
    BY <1>3, <2>1
  <2> DEFINE p == StoredAt(k, z, sign, j, value)
  <2>4. p \in MachineOn(D) /\ p.live = k.live
    <3>1. j \in Places(k, z)
      BY <2>3 DEF Places
    <3> HIDE DEF j, MachineOn, Word, negative, zero, positive
    <3> QED  BY <1>4, <2>2, <3>1, StoreKeeps
  <2>5. Store(g.m) = p
    BY DEF k, StoredAt
  <2> HIDE DEF p, Store
  <2> QED  BY <2>2, <2>4, <2>5
<1>8. ASSUME ~ (index >= n)
      PROVE  Store(m) \in MachineOn(D) /\ Store(m).live = m.live
  <2> DEFINE j == index + 1
  <2>1. j \in 1 .. Len(m.big[z].words)
    <3> HIDE DEF n
    <3>1. index < n /\ j \in 1 .. n
      BY <1>1, <1>8
    <3> QED  BY <3>1 DEF n
  <2> DEFINE k == m
             p == StoredAt(k, z, sign, j, value)
  <2>2. p \in MachineOn(D) /\ p.live = k.live
    <3>1. j \in Places(k, z) /\ k \in MachineOn(D)
      BY <2>1 DEF Places
    <3> HIDE DEF k, j, p, MachineOn, Word, negative, zero, positive
    <3> QED  BY <1>4, <3>1, StoreKeeps DEF p
  <2>3. Store(m) = p
    BY DEF k, StoredAt
  <2> HIDE DEF p, Store
  <2> QED  BY <2>2, <2>3 DEF k
<1>9. n > 1 => cut.m \in MachineOn(D) /\ cut.m.live = m.live
  <2> SUFFICES ASSUME n > 1 PROVE cut.m \in MachineOn(D) /\ cut.m.live = m.live
    OBVIOUS
  <2>1. less \in Seq(Word)
    <3> DEFINE w == x.words
               l == n - 1
    <3>1. w \in Seq(Word) /\ Len(w) = n
      BY <1>1
    <3>2. l \in 0 .. n
      <4> HIDE DEF n
      <4> QED  BY <1>1
    <3> HIDE DEF w, l, n, Word
    <3>3. SubSeq(w, 1, l) \in Seq(Word)
      BY <3>1, <3>2, PrefixType
    <3> QED  BY <3>3 DEF w, l
  <2> HIDE DEF less, x
  <2> QED  BY <2>1, ResizedDoes
<1> HIDE DEF g, cut, Store, x, n
<1>10. \A k : Done(k).m = k /\ Failed(k).m = k
  BY DEF Done, Failed
<1> DEFINE r == BigIntSetAt(m, z, index, value)
<1>11. \/ r.m = m
       \/ r.m = fixed
       \/ g.ok /\ r.m = Store(g.m)
       \/ r.m = g.m
       \/ n > 1 /\ r.m = cut.m
       \/ ~ (index >= n) /\ r.m = Store(m)
  BY <1>5, <1>10
<1> HIDE DEF r
<1>12. r.m \in MachineOn(D) /\ r.m.live = m.live
  BY <1>2, <1>6, <1>7, <1>8, <1>9, <1>11
<1> QED  BY <1>12 DEF Keeps, r

\* and so does BigIntLoad.
LEMMA LoadKeeps ==
  ASSUME NEW D, NEW m \in MachineOn(D), NEW z \in D, NEW data \in Seq(0 .. ByteBase - 1)
  PROVE  Keeps(D, m, BigIntLoad(m, z, data))
<1> DEFINE x == m.big[z]
           sign == IF UsedLength(data) = 1 THEN zero ELSE positive
           k == [m EXCEPT !.big[z].sign = sign]
           w == LoadedWords(data)
           g == Resized(k, z, w)
           h == Resized(m, z, <<0>>)
           l == [h.m EXCEPT !.big[z].sign = zero]
           r == BigIntLoad(m, z, data)
<1>1. x \in BigInteger
  BY MachineFields
<1>2. \A s \in Int, i \in MachineOn(D) :
        /\ [i EXCEPT !.big[z].sign = s] \in MachineOn(D)
        /\ [i EXCEPT !.big[z].sign = s].live = i.live
  <2> TAKE s \in Int, i \in MachineOn(D)
  <2> DEFINE o == i.big[z]
             y == [o EXCEPT !.sign = s]
  <2>1. o \in BigInteger
    BY MachineFields
  <2>2. y \in BigInteger
    <3> HIDE DEF o, Word
    <3> QED  BY <2>1 DEF BigInteger
  <2>3. [i EXCEPT !.big[z].sign = s] = [i EXCEPT !.big[z] = y]
    BY DEF MachineOn
  <2> HIDE DEF y
  <2>4. [i EXCEPT !.big[z] = y] \in MachineOn(D) /\ [i EXCEPT !.big[z] = y].live = i.live
    BY <2>2, PutType
  <2> QED  BY <2>3, <2>4
<1>3. sign \in Int /\ zero \in Int
  BY DEF zero, positive
<1>4. k \in MachineOn(D) /\ k.live = m.live
  <2> HIDE DEF sign
  <2> QED  BY <1>2, <1>3
<1>5. data # <<>> => g.m \in MachineOn(D) /\ g.m.live = m.live
  <2> SUFFICES ASSUME data # <<>> PROVE g.m \in MachineOn(D) /\ g.m.live = m.live
    OBVIOUS
  <2>1. w \in Seq(Word)
    <3>1. data \in Seq(Byte)
      BY DEF Byte
    <3> HIDE DEF Byte, Word
    <3> QED  BY <3>1, LoadedType
  <2> HIDE DEF k, w
  <2> QED  BY <1>4, <2>1, ResizedDoes
<1>6. h.m \in MachineOn(D) /\ h.m.live = m.live
  <2> DEFINE o == <<0>>
  <2>1. o \in Seq(Word)
    <3>1. 0 \in Word  BY WordBaseType DEF Word
    <3> HIDE DEF Word
    <3> QED  BY <3>1
  <2> HIDE DEF o
  <2>2. Resized(m, z, o).m \in MachineOn(D) /\ Resized(m, z, o).m.live = m.live
    BY <2>1, ResizedDoes
  <2> QED  BY <2>2 DEF o
<1>7. l \in MachineOn(D) /\ l.live = m.live
  <2> HIDE DEF h
  <2> QED  BY <1>2, <1>3, <1>6
<1>8. r = IF z \notin m.live THEN Failed(m)
          ELSE IF data = <<>> THEN (IF h.ok THEN Done(l) ELSE h) ELSE g
  BY DEF BigIntLoad, Nulled
<1> HIDE DEF g, h, l, r
<1>9. \/ r.m = m
      \/ r.m = l
      \/ r.m = h.m
      \/ data # <<>> /\ r.m = g.m
  BY <1>8 DEF Done, Failed
<1>10. r.m \in MachineOn(D) /\ r.m.live = m.live
  BY <1>5, <1>6, <1>7, <1>9
<1> QED  BY <1>10 DEF Keeps, r

----------------------------------------------------------------------------
(***************************************************************************)
(* The inductive invariant: every structure is a number, and the program's *)
(* variables are all that is allocated between two calls.                  *)
(***************************************************************************)
BInv == /\ big \in [Objects -> BigInteger]
        /\ live \subseteq Vars

\* The program's variables, the temporaries and the spare name are apart.
LEMMA VariablesApart ==
  /\ Vars \subseteq Objects \ Temps /\ Temps \subseteq Objects
  /\ "spare" \notin Objects
  BY VarsAssumption DEF Objects, Temps

\* The machine that an action calls the library on.
LEMMA MachineReady ==
  ASSUME BInv, NEW left \in Nat
  PROVE  LET m == Machine(left)
         IN  /\ m \in MachineOn(Objects) /\ Ready(Objects, m)
             /\ m.big = big /\ m.live = live /\ m.left = left
<1> DEFINE m == Machine(left)
<1>1. m.big = big /\ m.live = live /\ m.left = left
  BY DEF Machine
<1>2. live \subseteq Objects /\ live \cap Temps = {}
  BY VariablesApart DEF BInv
<1>3. m \in MachineOn(Objects)
  <2> HIDE DEF BigInteger
  <2> QED  BY <1>2 DEF Machine, MachineOn, BInv
<1>4. Ready(Objects, m)
  <2> HIDE DEF m
  <2> QED  BY <1>1, <1>2, <1>3, VariablesApart DEF Ready
<1> QED  BY <1>1, <1>3, <1>4

\* What an action leaves behind, if the call kept the invariant.
LEMMA Performed ==
  ASSUME NEW r, r.m \in MachineOn(Objects), r.m.live \subseteq Vars, Perform(r)
  PROVE  BInv'
<1>1. big' = r.m.big /\ live' = r.m.live
  BY DEF Perform
<1>2. r.m.big \in [Objects -> BigInteger]
  BY MachineFields
<1>3. big' \in [Objects -> BigInteger] /\ live' \subseteq Vars
  <2> HIDE DEF BigInteger
  <2> QED  BY <1>1, <1>2
<1>4. Objects' = Objects /\ BigInteger' = BigInteger
  OBVIOUS
<1> QED  BY <1>3 DEF BInv

\* No structure is allocated at first.
LEMMA Initially == Init => BInv
<1> SUFFICES ASSUME Init PROVE BInv
  OBVIOUS
<1>1. Zero \in BigInteger
  BY ZeroType
<1> HIDE DEF Zero, BigInteger
<1> QED  BY <1>1 DEF Init, BInv

\* Every action keeps the invariant.
LEMMA Steps == BInv /\ [Next]_bvars => BInv'
<1> SUFFICES ASSUME BInv, [Next]_bvars PROVE BInv'
  OBVIOUS
<1>1. Memory \subseteq Nat /\ Data \subseteq Seq(0 .. ByteBase - 1) /\ MaxWords \in Nat
  BY VarsAssumption
<1>2. live \subseteq Vars /\ Vars \subseteq Objects \ Temps /\ Vars \subseteq Objects
  BY VariablesApart DEF BInv
<1>3. ASSUME NEW z, NEW n, NEW r, NEW T, NEW left \in Nat,
             Outcome(Objects, T, Machine(left), r, z, n), Perform(r)
      PROVE  BInv'
  <2>1. r.m \in MachineOn(Objects) /\ r.m.live = Machine(left).live
    BY <1>3 DEF Outcome
  <2>2. Machine(left).live = live
    BY MachineReady
  <2> QED  BY <1>2, <1>3, <2>1, <2>2, Performed
<1>4. ASSUME NEW z, NEW a, NEW b, NEW n, NEW r, NEW left \in Nat,
             Computes(Objects, Machine(left), r, z, a, b, n), Perform(r)
      PROVE  BInv'
  BY <1>3, <1>4 DEF Computes
<1>5. ASSUME NEW r, NEW left \in Nat, Keeps(Objects, Machine(left), r), Perform(r)
      PROVE  BInv'
  <2>1. Machine(left).live = live
    BY MachineReady
  <2>2. r.m \in MachineOn(Objects) /\ r.m.live \subseteq Vars
    BY <1>2, <1>5, <2>1 DEF Keeps
  <2> QED  BY <1>5, <2>2, Performed
<1>6. CASE Alloc
  <2>1. PICK z \in Vars \ live, left \in Memory : Perform(BigIntAlloc(Machine(left), z))
    BY <1>6 DEF Alloc
  <2> DEFINE m == Machine(left)
             w == <<0>>
             r == Allocated(m, z, w)
  <2>2. m \in MachineOn(Objects) /\ m.live = live /\ z \in Objects
    BY <1>1, <1>2, MachineReady
  <2>3. w \in Seq(Word)
    <3>1. 0 \in Word  BY WordBaseType DEF Word
    <3> HIDE DEF Word
    <3> QED  BY <3>1
  <2>4. BigIntAlloc(m, z) = r
    BY DEF BigIntAlloc
  <2> HIDE DEF m, w
  <2>5. /\ r.m \in MachineOn(Objects)
        /\ ~ r.ok => r.m = m
        /\ r.ok => r.m.live = m.live \cup {z}
    BY <2>2, <2>3, AllocatedDoes
  <2> HIDE DEF r
  <2>6. r.m.live \subseteq Vars
    BY <1>2, <2>2, <2>5
  <2>7. Perform(r)
    BY <2>1, <2>4 DEF m
  <2> QED  BY <2>5, <2>6, <2>7, Performed
<1>7. CASE Free
  <2>1. PICK z \in live : Perform(Done(BigIntFree(Machine(0), z)))
    BY <1>7 DEF Free
  <2> DEFINE m == Machine(0)
             k == BigIntFree(m, z)
             r == Done(k)
  <2>2. m \in MachineOn(Objects) /\ m.live = live /\ z \in Objects
    BY <1>2, MachineReady
  <2> HIDE DEF m
  <2>3. k \in MachineOn(Objects) /\ k.live = m.live \ {z}
    BY <2>2, FreedDoes
  <2>4. Perform(r)
    BY <2>1 DEF m
  <2> HIDE DEF k
  <2>5. r.m = k
    BY DEF Done
  <2> HIDE DEF r
  <2>6. r.m \in MachineOn(Objects) /\ r.m.live \subseteq Vars
    BY <1>2, <2>2, <2>3, <2>5
  <2> QED  BY <2>4, <2>6, Performed
<1>8. CASE Copy
  <2>1. PICK z \in Vars, a \in Vars, left \in Memory : Perform(BigIntCopy(Machine(left), z, a))
    BY <1>8 DEF Copy
  <2>2. Machine(left) \in MachineOn(Objects) /\ z \in Objects /\ a \in Objects /\ left \in Nat
    BY <1>1, <1>2, MachineReady
  <2>3. PICK n : Outcome(Objects, {}, Machine(left), BigIntCopy(Machine(left), z, a), z, n)
    BY <2>2, CopyDoes
  <2> QED  BY <1>3, <2>1, <2>2, <2>3
<1>9. CASE Neg
  <2>1. PICK z \in Vars, a \in Vars, left \in Memory : Perform(BigIntNeg(Machine(left), z, a))
    BY <1>9 DEF Neg
  <2>2. Machine(left) \in MachineOn(Objects) /\ z \in Objects /\ a \in Objects /\ left \in Nat
    BY <1>1, <1>2, MachineReady
  <2>3. PICK n : Outcome(Objects, {}, Machine(left), BigIntNeg(Machine(left), z, a), z, n)
    BY <2>2, NegDoes
  <2> QED  BY <1>3, <2>1, <2>2, <2>3
<1>10. CASE Abs
  <2>1. PICK z \in Vars, a \in Vars, left \in Memory : Perform(BigIntAbs(Machine(left), z, a))
    BY <1>10 DEF Abs
  <2>2. Machine(left) \in MachineOn(Objects) /\ z \in Objects /\ a \in Objects /\ left \in Nat
    BY <1>1, <1>2, MachineReady
  <2>3. PICK n : Outcome(Objects, {}, Machine(left), BigIntAbs(Machine(left), z, a), z, n)
    BY <2>2, AbsDoes
  <2> QED  BY <1>3, <2>1, <2>2, <2>3
<1>11. CASE Add
  <2>1. PICK z \in Vars, a \in Vars, b \in Vars, left \in Memory :
          Perform(BigIntAdd(Machine(left), z, a, b))
    BY <1>11 DEF Add
  <2>2. /\ Ready(Objects, Machine(left)) /\ left \in Nat
        /\ z \in Objects \ Temps /\ a \in Objects \ Temps /\ b \in Objects \ Temps
    BY <1>1, <1>2, <2>1, MachineReady
  <2>3. PICK n : Computes(Objects, Machine(left), BigIntAdd(Machine(left), z, a, b), z, a, b, n)
    BY <2>2, AddDoes
  <2> QED  BY <1>4, <2>1, <2>2, <2>3
<1>12. CASE Sub
  <2>1. PICK z \in Vars, a \in Vars, b \in Vars, left \in Memory :
          Perform(BigIntSub(Machine(left), z, a, b))
    BY <1>12 DEF Sub
  <2>2. /\ Ready(Objects, Machine(left)) /\ left \in Nat
        /\ z \in Objects \ Temps /\ a \in Objects \ Temps /\ b \in Objects \ Temps
    BY <1>1, <1>2, <2>1, MachineReady
  <2>3. PICK n : Computes(Objects, Machine(left), BigIntSub(Machine(left), z, a, b), z, a, b, n)
    BY <2>2, SubDoes
  <2> QED  BY <1>4, <2>1, <2>2, <2>3
<1>13. CASE Mul
  <2>1. PICK z \in Vars, a \in Vars, b \in Vars, left \in Memory :
          Perform(BigIntMul(Machine(left), z, a, b))
    BY <1>13 DEF Mul
  <2>2. /\ Ready(Objects, Machine(left)) /\ left \in Nat
        /\ z \in Objects \ Temps /\ a \in Objects \ Temps /\ b \in Objects \ Temps
    BY <1>1, <1>2, <2>1, MachineReady
  <2>3. PICK n : Computes(Objects, Machine(left), BigIntMul(Machine(left), z, a, b), z, a, b, n)
    BY <2>2, MulDoes
  <2> QED  BY <1>4, <2>1, <2>2, <2>3
<1>14. CASE SetAt
  <2>1. PICK z \in Vars, left \in Memory, index \in 0 .. MaxWords - 1, value \in 0 .. MaxWord :
          Perform(BigIntSetAt(Machine(left), z, index, value))
    BY <1>14 DEF SetAt
  <2>2. Machine(left) \in MachineOn(Objects) /\ z \in Objects /\ left \in Nat
        /\ index \in Nat /\ value \in Word
    BY <1>1, <1>2, MachineReady DEF Word
  <2>3. Keeps(Objects, Machine(left), BigIntSetAt(Machine(left), z, index, value))
    BY <2>2, SetAtKeeps
  <2> QED  BY <1>5, <2>1, <2>2, <2>3
<1>15. CASE Load
  <2>1. PICK z \in Vars, left \in Memory, data \in Data :
          Perform(BigIntLoad(Machine(left), z, data))
    BY <1>15 DEF Load
  <2>2. Machine(left) \in MachineOn(Objects) /\ z \in Objects /\ left \in Nat
        /\ data \in Seq(0 .. ByteBase - 1)
    BY <1>1, <1>2, MachineReady
  <2>3. Keeps(Objects, Machine(left), BigIntLoad(Machine(left), z, data))
    BY <2>2, LoadKeeps
  <2> QED  BY <1>5, <2>1, <2>2, <2>3
<1>16. CASE UNCHANGED bvars
  BY <1>16 DEF bvars, BInv
<1> QED  BY <1>6, <1>7, <1>8, <1>9, <1>10, <1>11, <1>12, <1>13, <1>14, <1>15, <1>16 DEF Next

\* The invariant implies the three properties.
LEMMA InvariantTypes == BInv => TypeOK
<1> SUFFICES ASSUME BInv PROVE TypeOK
  OBVIOUS
<1>1. live \subseteq Objects
  BY VariablesApart DEF BInv
<1>2. ASSUME NEW o \in Objects
      PROVE  /\ big[o].sign \in Int /\ big[o].wordcount \in Nat
             /\ big[o].words \in Seq(0 .. MaxWord)
             /\ big[o].words = <<>> \/ big[o].wordcount = Len(big[o].words)
  <2> DEFINE n == big[o]
  <2>1. n \in BigInteger
    BY DEF BInv
  <2> HIDE DEF n
  <2>2. /\ n.sign \in Int /\ n.words \in Seq(Word) /\ n.wordcount \in Nat
        /\ (n.words = <<>> \/ n.wordcount = Len(n.words))
    BY <2>1, NumberFields
  <2> QED  BY <2>2 DEF n, Word
<1> QED  BY <1>1, <1>2 DEF TypeOK

\* What FailuresAreClean says of the outcome r of one call.
Clean(z, a, b, r) ==
  /\ r.ok \/ r.m.big[z] = big[z] \/ r.m.big[z].words = <<>>
  /\ \A o \in live \ {z} : r.m.big[o] = big[o]
  /\ Proper(big[a]) /\ Proper(big[b]) /\ r.ok => Proper(r.m.big[z])

LEMMA InvariantFailures == BInv => FailuresAreClean
<1> SUFFICES ASSUME BInv PROVE FailuresAreClean
  OBVIOUS
<1>1. /\ live \subseteq Vars /\ Vars \subseteq Objects \ Temps /\ Vars \subseteq Objects
      /\ Memory \subseteq Nat
  BY VariablesApart, VarsAssumption DEF BInv
<1>2. ASSUME NEW z \in live, NEW a \in live, NEW b \in live, NEW left \in Memory,
             NEW r \in Calls(Machine(left), z, a, b)
      PROVE  /\ r.ok \/ r.m.big[z] = big[z] \/ r.m.big[z].words = <<>>
             /\ \A o \in live \ {z} : r.m.big[o] = big[o]
             /\ Proper(big[a]) /\ Proper(big[b]) /\ r.ok => Proper(r.m.big[z])
  <2> DEFINE m == Machine(left)
             x == big[a]
             y == big[b]
  <2>1. /\ m \in MachineOn(Objects) /\ Ready(Objects, m) /\ m.big = big
        /\ z \in Objects \ Temps /\ a \in Objects \ Temps /\ b \in Objects \ Temps
        /\ z \in Objects /\ a \in Objects /\ b \in Objects
    BY <1>1, MachineReady
  <2>2. \/ r = BigIntAdd(m, z, a, b)
        \/ r = BigIntSub(m, z, a, b)
        \/ r = BigIntMul(m, z, a, b)
        \/ r = BigIntCopy(m, z, a)
        \/ r = BigIntNeg(m, z, a)
        \/ r = BigIntAbs(m, z, a)
    BY DEF Calls
  <2> HIDE DEF m
  <2>3. x \in BigInteger /\ y \in BigInteger /\ x = m.big[a] /\ y = m.big[b]
    BY <2>1, MachineFields
  <2>4. Proper(x) /\ Proper(y) =>
          /\ Proper(Negated(x)) /\ Proper(Absolute(x))
          /\ Proper(SumOf(x, y)) /\ Proper(DifferenceOf(x, y)) /\ Proper(ProductOf(x, y))
    BY <2>3, ProperResults
  <2> HIDE DEF x, y
  <2>5. ASSUME NEW T \in SUBSET Temps, NEW n, Outcome(Objects, T, m, r, z, n),
               Proper(x) /\ Proper(y) => Proper(n)
        PROVE  Clean(z, a, b, r)
    <3>1. \A o \in Objects \ (T \cup {z}) : r.m.big[o] = m.big[o]
      BY <2>5 DEF Outcome
    <3>2. live \ {z} \subseteq Objects \ (T \cup {z})
      BY <1>1
    <3>3. r.ok \/ r.m.big[z] = m.big[z] \/ r.m.big[z].words = <<>>
      BY <2>5 DEF Outcome
    <3>4. r.ok => r.m.big[z] = n
      BY <2>5 DEF Outcome
    <3> QED  BY <2>1, <2>3, <2>5, <3>1, <3>2, <3>3, <3>4 DEF Clean, x, y
  <2>6. ASSUME NEW n, Computes(Objects, m, r, z, a, b, n), Proper(x) /\ Proper(y) => Proper(n)
        PROVE  Clean(z, a, b, r)
    <3>1. Outcome(Objects, Temps, m, r, z, n)
      BY <2>6 DEF Computes
    <3> QED  BY <2>5, <2>6, <3>1
  <2>7. ASSUME r = BigIntAdd(m, z, a, b) PROVE Clean(z, a, b, r)
    BY <2>1, <2>3, <2>4, <2>6, <2>7, AddDoes
  <2>8. ASSUME r = BigIntSub(m, z, a, b) PROVE Clean(z, a, b, r)
    BY <2>1, <2>3, <2>4, <2>6, <2>8, SubDoes
  <2>9. ASSUME r = BigIntMul(m, z, a, b) PROVE Clean(z, a, b, r)
    BY <2>1, <2>3, <2>4, <2>6, <2>9, MulDoes
  <2>10. ASSUME r = BigIntCopy(m, z, a) PROVE Clean(z, a, b, r)
    BY <2>1, <2>3, <2>4, <2>5, <2>10, CopyDoes
  <2>11. ASSUME r = BigIntNeg(m, z, a) PROVE Clean(z, a, b, r)
    BY <2>1, <2>3, <2>4, <2>5, <2>11, NegDoes
  <2>12. ASSUME r = BigIntAbs(m, z, a) PROVE Clean(z, a, b, r)
    BY <2>1, <2>3, <2>4, <2>5, <2>12, AbsDoes
  <2>13. Clean(z, a, b, r)
    BY <2>2, <2>7, <2>8, <2>9, <2>10, <2>11, <2>12
  <2> QED  BY <2>13 DEF Clean
<1>3. FailureKeepsOrLoses
  BY <1>2 DEF FailureKeepsOrLoses
<1>4. ProperStaysProper
  BY <1>2 DEF ProperStaysProper
<1>5. NoTemporaryLeft
  BY DEF BInv, NoTemporaryLeft
<1> QED  BY <1>3, <1>4, <1>5 DEF FailuresAreClean

\* The machine with a structure of its own for the result.
LEMMA SpareReady ==
  ASSUME BInv
  PROVE  LET s == WithSpare(Plenty)
             D == Objects \cup {"spare"}
         IN  /\ s \in MachineOn(D) /\ Ready(D, s) /\ "spare" \in D \ Temps
             /\ \A o \in Objects : s.big[o] = big[o]
             /\ s.live = live \cup {"spare"} /\ s.left = 8
<1> DEFINE D == Objects \cup {"spare"}
           f == [o \in D |-> IF o = "spare" THEN Zero ELSE big[o]]
           m == Machine(8)
           s == WithSpare(Plenty)
<1>1. /\ m \in MachineOn(Objects) /\ m.big = big /\ m.live = live /\ m.left = 8
      /\ Ready(Objects, m)
  BY MachineReady
<1>2. f \in [D -> BigInteger]
  <2> HIDE DEF BigInteger, Zero
  <2> QED  BY ZeroType DEF BInv
<1>3. /\ \A o \in Objects : f[o] = big[o]
      /\ f["spare"] = Zero
  BY VariablesApart
<1>4. s = [m EXCEPT !.big = f, !.live = @ \cup {"spare"}]
  BY DEF WithSpare, Plenty
<1> HIDE DEF f, m
<1>5. /\ s.big = f /\ s.live = live \cup {"spare"} /\ s.left = 8
      /\ s \in MachineOn(D)
  <2> DEFINE k == [m EXCEPT !.big = f]
             v == live \cup {"spare"}
  <2>1. s = [k EXCEPT !.live = v]
    BY <1>1, <1>4
  <2>2. m = [big |-> m.big, live |-> m.live, left |-> m.left]
    BY <1>1 DEF MachineOn
  <2> HIDE DEF s
  <2>3. k = [big |-> f, live |-> m.live, left |-> m.left]
    BY <2>2
  <2> HIDE DEF k, v
  <2>4. [k EXCEPT !.live = v] = [big |-> f, live |-> v, left |-> m.left]
    BY <2>3
  <2>5. v \subseteq D
    BY VariablesApart DEF BInv, v
  <2>6. s = [big |-> f, live |-> v, left |-> 8]
    BY <1>1, <2>1, <2>4
  <2> HIDE DEF D, BigInteger
  <2>7. s \in MachineOn(D)
    BY <1>2, <2>5, <2>6 DEF MachineOn
  <2> QED  BY <2>6, <2>7 DEF v
<1>6. Temps \subseteq D /\ "spare" \in D \ Temps /\ (live \cup {"spare"}) \cap Temps = {}
      /\ live \subseteq Objects /\ "spare" \notin live
  BY VariablesApart DEF BInv
<1> HIDE DEF s
<1>7. Ready(D, s)
  BY <1>5, <1>6 DEF Ready
<1> HIDE DEF D
<1> QED  BY <1>3, <1>5, <1>6, <1>7 DEF D, s

LEMMA InvariantAliases == BInv => AliasesHarmless
<1> SUFFICES ASSUME BInv PROVE AliasesHarmless
  OBVIOUS
<1> DEFINE m == Plenty
           s == WithSpare(m)
           e == "spare"
           D == Objects \cup {e}
           Same(r, q, z) == r.ok => r.m.big[z] = q.m.big[e]
<1>1. /\ live \subseteq Vars /\ Vars \subseteq Objects \ Temps /\ Vars \subseteq Objects
      /\ Vars \subseteq D \ Temps
  BY VariablesApart DEF BInv
<1>2. /\ m \in MachineOn(Objects) /\ Ready(Objects, m) /\ m.big = big
  BY MachineReady DEF Plenty
<1>3. /\ s \in MachineOn(D) /\ Ready(D, s) /\ e \in D \ Temps
      /\ \A o \in Objects : s.big[o] = big[o]
      /\ s.live = live \cup {e} /\ s.left = 8
  BY SpareReady
<1> HIDE DEF m, s, e, D
<1>4. ASSUME NEW z, NEW a \in live, NEW b \in live, NEW r, NEW q, NEW n,
             Computes(Objects, m, r, z, a, b, n), Computes(D, s, q, e, a, b, n),
             Whole(s, a, b)
      PROVE  Same(r, q, z)
  <2>1. r.ok => r.m.big[z] = n
    BY <1>4 DEF Computes, Outcome
  <2>2. q.ok
    <3>1. {e, a, b} \subseteq s.live /\ s.left >= 8
      BY <1>3
    <3> QED  BY <1>4, <3>1 DEF Computes
  <2>3. q.m.big[e] = n
    BY <1>4, <2>2 DEF Computes, Outcome
  <2> QED  BY <2>1, <2>3
<1>5. ASSUME NEW a \in live, NEW b \in live, NEW z \in {a, b}, Usable(a), Usable(b)
      PROVE  /\ Same(BigIntAdd(m, z, a, b), BigIntAdd(s, e, a, b), z)
             /\ Same(BigIntSub(m, z, a, b), BigIntSub(s, e, a, b), z)
             /\ Same(BigIntMul(m, z, a, b), BigIntMul(s, e, a, b), z)
             /\ Same(BigIntNeg(m, a, a), BigIntNeg(s, e, a), z) \/ z # a
             /\ Same(BigIntAbs(m, a, a), BigIntAbs(s, e, a), z) \/ z # a
  <2>1. /\ z \in Objects \ Temps /\ a \in Objects \ Temps /\ b \in Objects \ Temps
        /\ a \in D \ Temps /\ b \in D \ Temps
        /\ Whole(s, a, b)
        /\ s.big[a] = m.big[a] /\ s.big[b] = m.big[b]
    BY <1>1, <1>2, <1>3, <1>5 DEF Usable, Whole
  <2> HIDE DEF Same
  <2>2. Same(BigIntAdd(m, z, a, b), BigIntAdd(s, e, a, b), z)
    <3>1. Computes(Objects, m, BigIntAdd(m, z, a, b), z, a, b, SumOf(m.big[a], m.big[b]))
      BY <1>2, <2>1, AddDoes
    <3>2. Computes(D, s, BigIntAdd(s, e, a, b), e, a, b, SumOf(s.big[a], s.big[b]))
      BY <1>3, <2>1, AddDoes
    <3> QED  BY <1>4, <2>1, <3>1, <3>2
  <2>3. Same(BigIntSub(m, z, a, b), BigIntSub(s, e, a, b), z)
    <3>1. Computes(Objects, m, BigIntSub(m, z, a, b), z, a, b, DifferenceOf(m.big[a], m.big[b]))
      BY <1>2, <2>1, SubDoes
    <3>2. Computes(D, s, BigIntSub(s, e, a, b), e, a, b, DifferenceOf(s.big[a], s.big[b]))
      BY <1>3, <2>1, SubDoes
    <3> QED  BY <1>4, <2>1, <3>1, <3>2
  <2>4. Same(BigIntMul(m, z, a, b), BigIntMul(s, e, a, b), z)
    <3>1. Computes(Objects, m, BigIntMul(m, z, a, b), z, a, b, ProductOf(m.big[a], m.big[b]))
      BY <1>2, <2>1, MulDoes
    <3>2. Computes(D, s, BigIntMul(s, e, a, b), e, a, b, ProductOf(s.big[a], s.big[b]))
      BY <1>3, <2>1, MulDoes
    <3> QED  BY <1>4, <2>1, <3>1, <3>2
  <2>5. {e, a} \subseteq s.live /\ s.big[a].words # <<>> /\ s.left >= 1
    BY <1>3, <1>5, <2>1 DEF Whole
  <2>6. ASSUME NEW n, NEW r, NEW q, Outcome(Objects, {}, m, r, a, n),
               Outcome(D, {}, s, q, e, n), q.ok
        PROVE  Same(r, q, a)
    <3>1. (r.ok => r.m.big[a] = n) /\ q.m.big[e] = n
      BY <2>6 DEF Outcome
    <3> QED  BY <3>1 DEF Same
  <2>7. Same(BigIntNeg(m, a, a), BigIntNeg(s, e, a), a)
    <3>1. Outcome(Objects, {}, m, BigIntNeg(m, a, a), a, Negated(m.big[a]))
      BY <1>2, <2>1, NegDoes
    <3>2. Outcome(D, {}, s, BigIntNeg(s, e, a), e, Negated(s.big[a])) /\ BigIntNeg(s, e, a).ok
      BY <1>3, <2>1, <2>5, NegDoes
    <3> QED  BY <2>1, <2>6, <3>1, <3>2
  <2>8. Same(BigIntAbs(m, a, a), BigIntAbs(s, e, a), a)
    <3>1. Outcome(Objects, {}, m, BigIntAbs(m, a, a), a, Absolute(m.big[a]))
      BY <1>2, <2>1, AbsDoes
    <3>2. Outcome(D, {}, s, BigIntAbs(s, e, a), e, Absolute(s.big[a])) /\ BigIntAbs(s, e, a).ok
      BY <1>3, <2>1, <2>5, AbsDoes
    <3> QED  BY <2>1, <2>6, <3>1, <3>2
  <2> QED  BY <2>2, <2>3, <2>4, <2>7, <2>8
<1> QED  BY <1>5 DEF AliasesHarmless, m, s, e

----------------------------------------------------------------------------
\* What a call with plenty of memory leaves in its target.
LEMMA PlentyGives ==
  ASSUME BInv, NEW z \in live, NEW a \in live, NEW b \in live,
         WellFormed(big[a]), WellFormed(big[b])
  PROVE  /\ big[a] \in BigInteger /\ big[b] \in BigInteger
         /\ LET r == BigIntAdd(Plenty, z, a, b)
            IN  r.ok /\ r.m.big[z] = SumOf(big[a], big[b])
         /\ LET r == BigIntSub(Plenty, z, a, b)
            IN  r.ok /\ r.m.big[z] = DifferenceOf(big[a], big[b])
         /\ LET r == BigIntMul(Plenty, z, a, b)
            IN  r.ok /\ r.m.big[z] = ProductOf(big[a], big[b])
<1> DEFINE m == Plenty
<1>1. /\ live \subseteq Vars /\ Vars \subseteq Objects \ Temps
  BY VariablesApart DEF BInv
<1>2. 8 \in Nat
  OBVIOUS
<1>3. /\ Ready(Objects, m) /\ m.big = big /\ m.live = live /\ m.left = 8
  BY <1>2, MachineReady DEF Plenty
<1>4. Whole(m, a, b)
  BY <1>3 DEF WellFormed, Whole
<1>5. z \in Objects \ Temps /\ a \in Objects \ Temps /\ b \in Objects \ Temps
  BY <1>1
<1>6. big[a] \in BigInteger /\ big[b] \in BigInteger
  <2>1. big \in [Objects -> BigInteger]  BY DEF BInv
  <2> HIDE DEF BigInteger
  <2> QED  BY <1>5, <2>1
<1> HIDE DEF m
<1>7. {z, a, b} \subseteq m.live /\ m.left >= 8 /\ Whole(m, a, b)
  BY <1>3, <1>4
<1>8. ASSUME NEW r, NEW n, Computes(Objects, m, r, z, a, b, n)
      PROVE  r.ok /\ r.m.big[z] = n
  BY <1>7, <1>8 DEF Computes, Outcome
<1>9. BigIntAdd(m, z, a, b).ok /\ BigIntAdd(m, z, a, b).m.big[z] = SumOf(big[a], big[b])
  <2>1. Computes(Objects, m, BigIntAdd(m, z, a, b), z, a, b, SumOf(m.big[a], m.big[b]))
    BY <1>3, <1>5, AddDoes
  <2> QED  BY <1>3, <1>8, <2>1
<1>10. BigIntSub(m, z, a, b).ok /\ BigIntSub(m, z, a, b).m.big[z] = DifferenceOf(big[a], big[b])
  <2>1. Computes(Objects, m, BigIntSub(m, z, a, b), z, a, b, DifferenceOf(m.big[a], m.big[b]))
    BY <1>3, <1>5, SubDoes
  <2> QED  BY <1>3, <1>8, <2>1
<1>11. BigIntMul(m, z, a, b).ok /\ BigIntMul(m, z, a, b).m.big[z] = ProductOf(big[a], big[b])
  <2>1. Computes(Objects, m, BigIntMul(m, z, a, b), z, a, b, ProductOf(m.big[a], m.big[b]))
    BY <1>3, <1>5, MulDoes
  <2> QED  BY <1>3, <1>8, <2>1
<1> QED  BY <1>6, <1>9, <1>10, <1>11 DEF m

\* Every state that the invariant allows computes exactly.
LEMMA InvariantArithmetic == BInv => ArithmeticExact
<1> SUFFICES ASSUME BInv PROVE ArithmeticExact
  OBVIOUS
<1>1. SumExact
  <2> SUFFICES ASSUME NEW z \in live, NEW a \in live, NEW b \in live,
                      WellFormed(big[a]), WellFormed(big[b]), SumKept(big[a], big[b])
               PROVE  LET r == BigIntAdd(Plenty, z, a, b)
                      IN  /\ r.ok
                          /\ Denotes(r.m.big[z]) = Denotes(big[a]) + Denotes(big[b])
                          /\ WellFormed(r.m.big[z])
    BY DEF SumExact, Gives
  <2> DEFINE r == BigIntAdd(Plenty, z, a, b)
  <2>1. /\ big[a] \in BigInteger /\ big[b] \in BigInteger
        /\ r.ok /\ r.m.big[z] = SumOf(big[a], big[b])
    BY PlentyGives
  <2>2. WellFormed(SumOf(big[a], big[b]))
        /\ Denotes(SumOf(big[a], big[b])) = Denotes(big[a]) + Denotes(big[b])
    BY <2>1, SumOfExact
  <2> HIDE DEF r
  <2>3. /\ r.ok /\ Denotes(r.m.big[z]) = Denotes(big[a]) + Denotes(big[b])
        /\ WellFormed(r.m.big[z])
    BY <2>1, <2>2
  <2> QED  BY <2>3 DEF r
<1>2. DifferenceExact
  <2> SUFFICES ASSUME NEW z \in live, NEW a \in live, NEW b \in live,
                      WellFormed(big[a]), WellFormed(big[b]),
                      big[a].sign = zero => big[b].sign = zero,
                      IF big[a].sign = big[b].sign
                      THEN DifferenceKept(big[a].words, big[b].words)
                      ELSE IF big[a].sign = positive
                      THEN ~ LosesCarry(big[a].words, big[b].words)
                      ELSE ~ LosesCarry(big[b].words, big[a].words)
               PROVE  LET r == BigIntSub(Plenty, z, a, b)
                      IN  /\ r.ok
                          /\ Denotes(r.m.big[z]) = Denotes(big[a]) - Denotes(big[b])
                          /\ WellFormed(r.m.big[z])
    BY DEF DifferenceExact, Gives
  <2> DEFINE r == BigIntSub(Plenty, z, a, b)
  <2>1. /\ big[a] \in BigInteger /\ big[b] \in BigInteger
        /\ r.ok /\ r.m.big[z] = DifferenceOf(big[a], big[b])
    BY PlentyGives
  <2>2. WellFormed(DifferenceOf(big[a], big[b]))
        /\ Denotes(DifferenceOf(big[a], big[b])) = Denotes(big[a]) - Denotes(big[b])
    <3> DEFINE x == big[a]
               y == big[b]
    <3>1. /\ x \in BigInteger /\ y \in BigInteger /\ WellFormed(x) /\ WellFormed(y)
          /\ x.sign = zero => y.sign = zero
          /\ IF x.sign = y.sign THEN DifferenceKept(x.words, y.words)
             ELSE IF x.sign = positive THEN ~ LosesCarry(x.words, y.words)
             ELSE ~ LosesCarry(y.words, x.words)
      BY <2>1
    <3> HIDE DEF x, y
    <3>2. WellFormed(DifferenceOf(x, y)) /\ Denotes(DifferenceOf(x, y)) = Denotes(x) - Denotes(y)
      BY <3>1, DifferenceOfExact
    <3> QED  BY <3>2 DEF x, y
  <2> HIDE DEF r
  <2>3. /\ r.ok /\ Denotes(r.m.big[z]) = Denotes(big[a]) - Denotes(big[b])
        /\ WellFormed(r.m.big[z])
    BY <2>1, <2>2
  <2> QED  BY <2>3 DEF r
<1>3. ProductExact
  <2> SUFFICES ASSUME NEW z \in live, NEW a \in live, NEW b \in live,
                      WellFormed(big[a]), WellFormed(big[b])
               PROVE  LET r == BigIntMul(Plenty, z, a, b)
                      IN  /\ r.ok
                          /\ Denotes(r.m.big[z]) = Denotes(big[a]) * Denotes(big[b])
                          /\ WellFormed(r.m.big[z])
    BY DEF ProductExact, Gives
  <2> DEFINE r == BigIntMul(Plenty, z, a, b)
  <2>1. /\ big[a] \in BigInteger /\ big[b] \in BigInteger
        /\ r.ok /\ r.m.big[z] = ProductOf(big[a], big[b])
    BY PlentyGives
  <2>2. WellFormed(ProductOf(big[a], big[b]))
        /\ Denotes(ProductOf(big[a], big[b])) = Denotes(big[a]) * Denotes(big[b])
    BY <2>1, ProductOfExact
  <2> HIDE DEF r
  <2>3. /\ r.ok /\ Denotes(r.m.big[z]) = Denotes(big[a]) * Denotes(big[b])
        /\ WellFormed(r.m.big[z])
    BY <2>1, <2>2
  <2> QED  BY <2>3 DEF r
<1>4. OrderExact
  <2> SUFFICES ASSUME NEW a \in live, NEW b \in live, WellFormed(big[a]), WellFormed(big[b])
               PROVE  LET d == Denotes(big[a]) - Denotes(big[b])
                      IN  BigIntCompare(Plenty, a, b) =
                            IF d < 0 THEN -1 ELSE IF d > 0 THEN 1 ELSE 0
    BY DEF OrderExact
  <2>1. big[a] \in BigInteger /\ big[b] \in BigInteger
    BY PlentyGives
  <2>2. Plenty.big = big /\ Plenty.live = live
    BY DEF Plenty, Machine
  <2>3. BigIntCompare(Plenty, a, b) = Compared(big[a], big[b])
    BY <2>2 DEF BigIntCompare, Compared
  <2> QED  BY <2>1, <2>3, ComparedExact
<1> QED  BY <1>1, <1>2, <1>3, <1>4 DEF ArithmeticExact

\* What BigIntLoad leaves with plenty of memory.
LEMMA PlentyLoads ==
  ASSUME BInv, NEW a \in live, NEW data \in Seq(Byte), data # <<>>
  PROVE  BigIntLoad(Plenty, a, data).m.big[a].words = LoadedWords(data)
<1> DEFINE sign == IF UsedLength(data) = 1 THEN zero ELSE positive
           m == Plenty
           x == m.big[a]
           y == [x EXCEPT !.sign = sign]
           k == [m EXCEPT !.big[a] = y]
           w == LoadedWords(data)
           r == Resized(k, a, w)
<1>1. a \in Objects
  BY VariablesApart DEF BInv
<1>2. m \in MachineOn(Objects)
  BY MachineReady DEF Plenty
<1>3. m.left = 8 /\ m.live = live
  BY DEF Plenty, Machine
<1>4. BigIntLoad(m, a, data) = Resized([m EXCEPT !.big[a].sign = sign], a, w)
  <2> HIDE DEF m, sign, w
  <2> QED  BY <1>3 DEF BigIntLoad, sign, w
<1>5. w \in Seq(Word)
  <2> HIDE DEF Byte, Word
  <2> QED  BY LoadedType
<1> HIDE DEF m
<1>6. [m EXCEPT !.big[a].sign = sign] = k
  <2> HIDE DEF sign
  <2> QED  BY <1>1, <1>2 DEF MachineOn
<1>7. y \in BigInteger
  <2>1. x \in BigInteger /\ sign \in Int
    BY <1>1, <1>2, MachineFields DEF zero, positive
  <2> HIDE DEF x, Word, sign
  <2> QED  BY <2>1 DEF BigInteger
<1> HIDE DEF y, w, sign
<1>8. k \in MachineOn(Objects) /\ k.left = 8
  BY <1>1, <1>2, <1>3, <1>7, PutType
<1> HIDE DEF k
<1>9. r.ok /\ r.m.big[a] = Number(k.big[a].sign, w)
  <2>1. /\ r.ok = (k.left >= 1)
        /\ r.ok => r.m.big[a] = Number(k.big[a].sign, w)
    BY <1>1, <1>5, <1>8, ResizedDoes
  <2>2. (k.left >= 1) = TRUE
    BY <1>8
  <2> HIDE DEF r
  <2> QED  BY <2>1, <2>2
<1>10. r.m.big[a].words = w
  <2> HIDE DEF r
  <2>1. k.big[a] \in BigInteger
    BY <1>1, <1>8, MachineFields
  <2>2. k.big[a].sign \in Int
    BY <2>1, NumberFields
  <2>3. Number(k.big[a].sign, w).words = w
    BY <1>5, <2>2, NumberType
  <2> QED  BY <1>9, <2>3
<1> QED  BY <1>4, <1>6, <1>10 DEF w, m

\* Every state that the invariant allows saves and loads its numbers.
LEMMA InvariantSaved == BInv => SavedThenLoaded
<1> SUFFICES ASSUME BInv, NEW a \in live, NEW data \in Data,
                    big[a].words # <<>>,
                    Len(data) < (Len(big[a].words) + 1) * WordBytes
             PROVE  LET words == big[a].words
                        saved == BigIntSave(data, words)
                        back  == BigIntLoad(Plenty, a, saved).m.big[a]
                        low   == Magnitude(words) % Power(ByteBase, Len(data))
                    IN  /\ Value([i \in 1 .. Len(data) |-> saved[Len(data) - i + 1]],
                                 ByteBase) = low
                        /\ data # <<>> /\ UsedLength(saved) % WordBytes = 0 =>
                             Magnitude(back.words) = low
  BY DEF SavedThenLoaded
<1> DEFINE words == big[a].words
           saved == BigIntSave(data, words)
           back  == BigIntLoad(Plenty, a, saved).m.big[a]
           low   == Magnitude(words) % Power(ByteBase, Len(data))
<1>1. words \in Seq(Word)
  <2>1. a \in Objects /\ big \in [Objects -> BigInteger]
    BY VariablesApart DEF BInv
  <2>2. big[a] \in BigInteger
    <3> HIDE DEF BigInteger
    <3> QED  BY <2>1
  <2> QED  BY <2>2, NumberFields
<1>2. data \in Seq(Byte)
  BY VarsAssumption DEF Byte
<1>3. Len(data) < (Len(words) + 1) * WordBytes
  OBVIOUS
<1> HIDE DEF words
<1>4. saved \in Seq(Byte) /\ Len(saved) = Len(data) /\ Value(LowFirst(saved), ByteBase) = low
  BY <1>1, <1>2, <1>3, SavedExact
<1> HIDE DEF saved, low
<1>5. Value([i \in 1 .. Len(data) |-> saved[Len(data) - i + 1]], ByteBase) = low
  BY <1>4 DEF LowFirst
<1>6. ASSUME data # <<>>, UsedLength(saved) % WordBytes = 0
      PROVE  Magnitude(back.words) = low
  <2>1. saved # <<>>
    <3> HIDE DEF Byte
    <3>1. Len(data) # 0
      BY <1>2, <1>6
    <3> QED  BY <1>4, <3>1
  <2>2. back.words = LoadedWords(saved)
    <3> HIDE DEF Byte
    <3> QED  BY <1>4, <2>1, PlentyLoads
  <2>3. Magnitude(LoadedWords(saved)) = Value(LowFirst(saved), ByteBase)
    BY <1>4, <1>6, <2>1, LoadedExact
  <2> QED  BY <1>4, <2>2, <2>3
<1> QED  BY <1>5, <1>6 DEF back, saved, low, words

----------------------------------------------------------------------------
LEMMA Invariant == Spec => []BInv
<1> QED  BY Initially, Steps, PTL DEF Spec

\* Every call leaves every structure an integer for its sign, words that are
\* words, and the wordcount that these have, unless a failed realloc took the
\* words away; its operands may have lost theirs before (bigint_*.c).  That the
\* sign is one of the enum's would be too much: SgnIsSign is violated.
THEOREM TypeCorrect == Spec => []TypeOK
<1> QED  BY Invariant, InvariantTypes, PTL

\* Whatever allocation of whatever call fails, no temporary survives, no other
\* number than the target changes, and the target of a call that failed is what
\* it was or has no words.  Operands that have their words, and signs of the
\* enum, give such numbers (bigint_addsub.c, bigint_mul.c, bigint_misc.c).
THEOREM FailuresClean == Spec => []FailuresAreClean
<1> QED  BY Invariant, InvariantFailures, PTL

\* The result of a call does not depend on whether its target is one of its
\* operands (tinybn.h: "z may refer to the same object as a and/or b"), if these
\* have their words.
THEOREM AliasesAreHarmless == Spec => []AliasesHarmless
<1> QED  BY Invariant, InvariantAliases, PTL

\* BigIntAdd, BigIntSub, BigIntMul and BigIntCompare are exact on well-formed
\* numbers of any sign, length and word size, aliased or not, wherever no carry
\* or borrow is lost (bigint_addsub.c, bigint_mul.c, bigint_compare.c over
\* mp_add.c, mp_sub.c, mp_mul.c and mp_cmp.c).
THEOREM ArithmeticIsExact == Spec => []ArithmeticExact
<1> QED  BY Invariant, InvariantArithmetic, PTL

\* What BigIntSave writes are the low bytes of the magnitude, for every number,
\* word size and array with no room for another whole word; and BigIntLoad reads
\* the number back from whole words (bigint_io.c).
THEOREM SavedNumbersLoad == Spec => []SavedThenLoaded
<1> QED  BY Invariant, InvariantSaved, PTL
==============================================================================
