--------------------------- MODULE AsmLexer_proofs ---------------------------
(***************************************************************************)
(* Theorems about the scanner, for every alphabet, every set of keywords   *)
(* and inputs of any length.                                               *)
(***************************************************************************)
EXTENDS AsmLexer, FiniteSetTheorems, SequenceTheorems, WellFoundedInduction, TLAPS

\* What a token is made of.
Chars == Alphabet \cup {"A", "x"}
Token == [type : Alphabet \cup {"int", "keyword", "identifier", "local"},
          text : Seq(Chars), line : Nat]

----------------------------------------------------------------------------
(***************************************************************************)
(* Lexemes, by their first character.                                      *)
(***************************************************************************)

\* A part of a text.
LEMMA PartIs ==
  ASSUME NEW S, NEW x \in Seq(S), NEW i \in Nat, NEW j \in Nat, 1 <= i, i <= j + 1, j <= Len(x)
  PROVE  LET w == SubSeq(x, i, j)
         IN  /\ w \in Seq(S) /\ Len(w) = j - i + 1
             /\ \A k \in 1 .. j - i + 1 : w[k] = x[i + k - 1]
<1> QED  BY SubSeqProperties

\* Where the digits of a number begin: behind its sign.
Signed(w) == IF w[1] = "-" THEN 1 ELSE 0

Decimal(w, o) == /\ Len(w) > o /\ w[o + 1] \in Digit \ {"0"}
                 /\ \A k \in o + 2 .. Len(w) : w[k] \in Digit
Octal(w, o)   == /\ Len(w) > o /\ w[o + 1] = "0"
                 /\ \A k \in o + 2 .. Len(w) : w[k] \in Oct
Hexadecimal(w, o) == /\ Len(w) > o + 2 /\ w[o + 1] = "0" /\ w[o + 2] \in {"x", "X"}
                     /\ \A k \in o + 3 .. Len(w) : w[k] \in Hex

\* The digits of a number, in place.
LEMMA IntegerIs ==
  ASSUME NEW w \in Seq(Alphabet), w # <<>>
  PROVE  IsInteger(w) <=> \/ Decimal(w, Signed(w))
                          \/ Octal(w, Signed(w))
                          \/ Hexadecimal(w, Signed(w))
<1> DEFINE m == Magnitude(w)
           o == Signed(w)
           n == Len(w)
<1>1. /\ o \in {0, 1} /\ n \in Nat \ {0} /\ Len(m) = n - o
      /\ \A k \in 1 .. n - o : m[k] = w[o + k]
  <2>1. CASE w[1] = "-"
    <3>1. /\ o = 1 /\ m = Tail(w) /\ Len(Tail(w)) = n - 1
          /\ \A k \in 1 .. n - 1 : Tail(w)[k] = w[k + 1]
      BY <2>1 DEF Signed, Magnitude
    <3>2. \A k \in 1 .. n - 1 : k + 1 = 1 + k
      OBVIOUS
    <3> QED  BY <3>1, <3>2
  <2>2. CASE w[1] # "-"
    <3>1. o = 0 /\ m = w
      BY <2>2 DEF Signed, Magnitude
    <3> QED  BY <3>1
  <2> QED  BY <2>1, <2>2
<1> HIDE DEF m, o, n
<1>2. m # <<>> <=> n > o
  <2>1. m \in Seq(Alphabet)
    BY DEF m, Magnitude
  <2> QED  BY <1>1, <2>1
<1>3. n > o => m[1] = w[o + 1]
  BY <1>1
<1>4. n > o + 1 => m[2] = w[o + 2]
  BY <1>1
<1>5. \A S : AllIn(m, 2, S) <=> \A k \in o + 2 .. n : w[k] \in S
  <2> TAKE S
  <2>1. ASSUME \A k \in 2 .. n - o : m[k] \in S, NEW k \in o + 2 .. n
        PROVE  w[k] \in S
    <3>1. k - o \in 2 .. n - o /\ o + (k - o) = k /\ k - o \in 1 .. n - o
      BY <1>1
    <3> DEFINE l == k - o
    <3> HIDE DEF l
    <3>2. m[l] \in S /\ m[l] = w[o + l]
      BY <1>1, <2>1, <3>1 DEF l
    <3> QED  BY <3>1, <3>2 DEF l
  <2>2. ASSUME \A k \in o + 2 .. n : w[k] \in S, NEW k \in 2 .. n - o
        PROVE  m[k] \in S
    <3>1. o + k \in o + 2 .. n /\ k \in 1 .. n - o
      BY <1>1
    <3> QED  BY <1>1, <2>2, <3>1
  <2> QED  BY <1>1, <2>1, <2>2 DEF AllIn
<1>6. \A S : AllIn(m, 3, S) <=> \A k \in o + 3 .. n : w[k] \in S
  <2> TAKE S
  <2>1. ASSUME \A k \in 3 .. n - o : m[k] \in S, NEW k \in o + 3 .. n
        PROVE  w[k] \in S
    <3>1. k - o \in 3 .. n - o /\ o + (k - o) = k /\ k - o \in 1 .. n - o
      BY <1>1
    <3> DEFINE l == k - o
    <3> HIDE DEF l
    <3>2. m[l] \in S /\ m[l] = w[o + l]
      BY <1>1, <2>1, <3>1 DEF l
    <3> QED  BY <3>1, <3>2 DEF l
  <2>2. ASSUME \A k \in o + 3 .. n : w[k] \in S, NEW k \in 3 .. n - o
        PROVE  m[k] \in S
    <3>1. o + k \in o + 3 .. n /\ k \in 1 .. n - o
      BY <1>1
    <3> QED  BY <1>1, <2>2, <3>1
  <2> QED  BY <1>1, <2>1, <2>2 DEF AllIn
<1>7. Len(m) > 2 <=> n > o + 2
  BY <1>1
<1>8. IsInteger(w) <=>
        /\ n > o
        /\ \/ w[o + 1] \in Digit \ {"0"} /\ \A k \in o + 2 .. n : w[k] \in Digit
           \/ w[o + 1] = "0" /\ \A k \in o + 2 .. n : w[k] \in Oct
           \/ n > o + 2 /\ w[o + 1] = "0" /\ w[o + 2] \in {"x", "X"}
              /\ \A k \in o + 3 .. n : w[k] \in Hex
  <2>1. IsInteger(w) <=>
        /\ m # <<>>
        /\ \/ m[1] \in Digit \ {"0"} /\ AllIn(m, 2, Digit)
           \/ m[1] = "0" /\ AllIn(m, 2, Oct)
           \/ Len(m) > 2 /\ m[1] = "0" /\ m[2] \in {"x", "X"} /\ AllIn(m, 3, Hex)
    BY DEF IsInteger, m
  <2> HIDE DEF Digit, Oct, Hex
  <2>2. n > o + 2 => n > o + 1
    BY <1>1
  <2> QED  BY <1>2, <1>3, <1>4, <1>5, <1>6, <1>7, <2>1, <2>2
<1>9. n > o + 2 => n > o
  BY <1>1
<1> QED  BY <1>8, <1>9 DEF n, o, Decimal, Octal, Hexadecimal

\* The kinds of lexemes exclude each other.
LEMMA Kinds ==
  ASSUME NEW w \in Seq(Alphabet), w # <<>>
  PROVE  /\ IsInteger(w) => w[1] \in Digit \cup {"-"}
         /\ IsName(w) <=> w[1] \in Letter \cup {"_"} /\ \A k \in 1 .. Len(w) : w[k] \in Word
         /\ IsLocal(w) <=> w[1] = "@" /\ \A k \in 2 .. Len(w) : w[k] \in Word
         /\ IsDotWord(w) <=> w[1] = "." /\ \A k \in 2 .. Len(w) : w[k] \in Letter
         /\ IsComment(w) => w[1] = "/"
         /\ IsBlank(w) <=> IsComment(w) \/ (w[1] \in Space /\ Len(w) = 1)
         /\ IsSingle(w) <=> w[1] \in Single /\ Len(w) = 1
         /\ IsKeyword(w) => w[1] \in Letter \cup {"."}
<1> DEFINE c == w[1]
<1>1. IsName(w) <=> c \in Letter \cup {"_"} /\ \A k \in 1 .. Len(w) : w[k] \in Word
  <2>1. 1 \in 1 .. Len(w)
    OBVIOUS
  <2> QED  BY <2>1 DEF IsName, AllIn, Word, Digit, Oct, Letter
<1>2. IsInteger(w) => c \in Digit \cup {"-"}
  <2>1. IsInteger(w) /\ c # "-" => c \in Digit
    BY IntegerIs DEF Signed, Decimal, Octal, Hexadecimal, Digit, Oct
  <2> QED  BY <2>1
<1>3. \A S : w \in {<<d>> : d \in S} <=> c \in S /\ Len(w) = 1
  <2> TAKE S
  <2>1. Len(w) = 1 => w = <<w[1]>>
    OBVIOUS
  <2>2. \A d : Len(<<d>>) = 1 /\ <<d>>[1] = d
    OBVIOUS
  <2> QED  BY <2>1, <2>2
<1>4. IsKeyword(w) => c \in Letter \cup {"."}
  <2> DEFINE l == [i \in DOMAIN w |-> lower(w[i])]
  <2>1. l[1] = lower(c)
    OBVIOUS
  <2>2. IsKeyword(w) => l \in Keywords
    BY DEF IsKeyword
  <2> HIDE DEF l
  <2>3. IsKeyword(w) => lower(c) \in Letter \cup {"."}
    BY <2>1, <2>2, KeywordAssumption
  <2> QED  BY <2>3 DEF lower, Letter
<1> QED  BY <1>1, <1>2, <1>3, <1>4
         DEF IsLocal, IsDotWord, AllIn, IsComment, IsBlank, IsSingle

\* What a lexeme is, and which one, can be told from its first character.
LEMMA Lexemes ==
  ASSUME NEW w \in Seq(Alphabet), w # <<>>
  PROVE  /\ w[1] \in Letter \cup {"_"} =>
              (IsLexeme(w) <=> \A k \in 1 .. Len(w) : w[k] \in Word)
         /\ w[1] \in Digit \cup {"-"} => (IsLexeme(w) <=> IsInteger(w))
         /\ w[1] = "@" => (IsLexeme(w) <=> \A k \in 2 .. Len(w) : w[k] \in Word)
         /\ w[1] = "." => (IsLexeme(w) <=> \A k \in 2 .. Len(w) : w[k] \in Letter)
         /\ w[1] = "/" => (IsLexeme(w) <=> IsComment(w))
         /\ w[1] \in Space \cup Single => (IsLexeme(w) <=> Len(w) = 1)
         /\ Begins(w[1]) = "none" /\ w[1] \notin Space \cup Single \cup {"/"} => ~ IsLexeme(w)
<1> DEFINE c == w[1]
<1>1. IsLexeme(w) <=> \/ IsInteger(w) \/ IsName(w) \/ IsLocal(w) \/ IsDotWord(w)
                      \/ IsBlank(w) \/ IsSingle(w)
  BY DEF IsLexeme
<1>2. Begins(c) = "none" => c \notin Letter \cup Digit \cup {"_", "@", ".", "-"}
  BY DEF Begins, Digit
<1> QED  BY <1>1, <1>2, Kinds DEF Letter, Digit, Oct, Space, Single, Special

----------------------------------------------------------------------------
(***************************************************************************)
(* What has been read of a token.                                          *)
(***************************************************************************)

\* The characters u have been read of a token, and t is in the buffer.
Scanned(s, t, u) ==
  LET o == Signed(u)
      n == Len(u)
  IN  /\ u \in Seq(Alphabet) /\ u # <<>>
      /\ t = IF s \in {"identifier", "local", "keyword"} THEN u
             ELSE [i \in DOMAIN u |-> upper(u[i])]
      /\ s = "identifier" => /\ u[1] \in Letter \cup {"_"}
                             /\ \A k \in 1 .. n : u[k] \in Word
      /\ s = "local"   => u[1] = "@" /\ \A k \in 2 .. n : u[k] \in Word
      /\ s = "keyword" => u[1] = "." /\ \A k \in 2 .. n : u[k] \in Letter
      /\ s = "minus"   => n = 1 /\ u[1] = "-"
      /\ s = "zero"    => n = o + 1 /\ u[o + 1] = "0"
      /\ s = "octal"   => n > o + 1 /\ Octal(u, o)
      /\ s = "x"       => n = o + 2 /\ u[o + 1] = "0" /\ u[o + 2] \in {"x", "X"}
      /\ s = "hex"     => Hexadecimal(u, o)
      /\ s = "decimal" => Decimal(u, o)

LEMMA ScannedFirst ==
  ASSUME NEW c \in Alphabet, Begins(c) # "none"
  PROVE  Scanned(Begins(c), <<c>>, <<c>>) /\ Begins(c) \in InToken
<1> DEFINE u == <<c>>
<1>1. u \in Seq(Alphabet) /\ u # <<>> /\ Len(u) = 1 /\ u[1] = c /\ DOMAIN u = 1 .. 1
  OBVIOUS
<1>2. c \notin Letter \cup {"_"} => c = upper(c)
  BY DEF upper, Letter
<1>3. [i \in DOMAIN u |-> upper(u[i])] = <<upper(c)>>
  OBVIOUS
<1> HIDE DEF u
<1>4. c \in Letter \cup {"_", "@", ".", "-"} \cup Digit
  BY DEF Begins, Letter, Digit, Oct
<1>5. CASE c \in Letter \cup {"_"}
  <2>1. Begins(c) = "identifier"
    BY <1>5 DEF Begins, Letter, Digit, Oct
  <2>2. \A k \in 1 .. 1 : u[k] \in Word
    <3>1. c \in Word
      BY <1>5 DEF Word
    <3>2. \A k \in 1 .. 1 : k = 1
      OBVIOUS
    <3> HIDE DEF Word
    <3> QED  BY <1>1, <3>1, <3>2
  <2> QED  BY <1>1, <1>5, <2>1, <2>2 DEF Scanned, InToken, u
<1>6. CASE c = "@"
  <2>1. Begins(c) = "local"
    BY <1>6 DEF Begins, Letter, Digit, Oct
  <2> QED  BY <1>1, <1>6, <2>1 DEF Scanned, InToken, u
<1>7. CASE c = "."
  <2>1. Begins(c) = "keyword"
    BY <1>7 DEF Begins, Letter, Digit, Oct
  <2> QED  BY <1>1, <1>7, <2>1 DEF Scanned, InToken, u
<1>8. CASE c = "-"
  <2>1. Begins(c) = "minus"
    BY <1>8 DEF Begins, Letter, Digit, Oct
  <2>2. u = [i \in DOMAIN u |-> upper(u[i])]
    BY <1>2, <1>3, <1>8 DEF u, Letter
  <2> QED  BY <1>1, <1>8, <2>1, <2>2 DEF Scanned, InToken, u
<1>9. CASE c \in Digit
  <2>1. Begins(c) = IF c = "0" THEN "zero" ELSE "decimal"
    BY <1>9 DEF Begins, Letter, Digit, Oct
  <2>2. u = [i \in DOMAIN u |-> upper(u[i])]
    BY <1>2, <1>3, <1>9 DEF u, Letter, Digit, Oct
  <2>3. Signed(u) = 0
    BY <1>1, <1>9 DEF Signed, Digit, Oct
  <2>4. c # "0" => Decimal(u, 0)
    BY <1>1, <1>9 DEF Decimal
  <2> QED  BY <1>1, <1>9, <2>1, <2>2, <2>3, <2>4 DEF Scanned, InToken, Numbers, u
<1> QED  BY <1>4, <1>5, <1>6, <1>7, <1>8, <1>9

\* How a token goes on.
LEMMA ContinuesAs ==
  ASSUME NEW s, NEW c
  PROVE  LET r == Continues(s, c)
         IN  /\ r # "none" =>
                  \/ s \in {"identifier", "local"} /\ c \in Word /\ r = s
                  \/ s = "keyword" /\ c \in Letter /\ r = s
                  \/ s = "minus" /\ c \in Digit /\ r = IF c = "0" THEN "zero" ELSE "decimal"
                  \/ s = "zero" /\ c \in {"x", "X"} /\ r = "x"
                  \/ s \in {"zero", "octal"} /\ c \in Oct /\ r = "octal"
                  \/ s \in {"x", "hex"} /\ c \in Hex /\ r = "hex"
                  \/ s = "decimal" /\ c \in Digit /\ r = s
             /\ r = "none" =>
                  /\ s \in {"identifier", "local"} => c \notin Word
                  /\ s = "keyword" => c \notin Letter
                  /\ s \in {"minus", "decimal"} => c \notin Digit
                  /\ s = "zero" => c \notin {"x", "X"} \cup Oct
                  /\ s = "octal" => c \notin Oct
                  /\ s \in {"x", "hex"} => c \notin Hex
<1>1. c \in Digit => Begins(c) = IF c = "0" THEN "zero" ELSE "decimal"
  BY DEF Begins, Letter, Digit, Oct
<1> QED  BY <1>1 DEF Continues, Oct

\* One character more.
LEMMA ScannedNext ==
  ASSUME NEW s \in InToken, NEW t, NEW u, Scanned(s, t, u),
         NEW c \in Alphabet, Continues(s, c) # "none"
  PROVE  LET r == Continues(s, c)
         IN  Scanned(r, Append(t, Byte(r, c)), Append(u, c)) /\ r \in InToken
<1> DEFINE r == Continues(s, c)
           v == Append(u, c)
           n == Len(u)
           o == Signed(u)
           Upper(w) == [i \in DOMAIN w |-> upper(w[i])]
           b == Append(t, Byte(r, c))
           Names == {"identifier", "local", "keyword"}
<1>1. u \in Seq(Alphabet) /\ u # <<>> /\ n \in Nat /\ n > 0
  <2>1. u \in Seq(Alphabet) /\ u # <<>>
    BY DEF Scanned
  <2> QED  BY <2>1
<1>2. /\ v \in Seq(Alphabet) /\ v # <<>> /\ Len(v) = n + 1
      /\ \A k \in 1 .. n : v[k] = u[k]
      /\ v[n + 1] = c
  BY <1>1
<1>3. Signed(v) = o /\ o \in {0, 1} /\ v[1] = u[1]
  BY <1>1, <1>2 DEF Signed
<1>4. Upper(v) = Append(Upper(u), upper(c))
  <2>1. Upper(u) \in Seq({upper(u[i]) : i \in DOMAIN u}) /\ Len(Upper(u)) = n
        /\ \A k \in 1 .. n : Upper(u)[k] = upper(u[k])
    BY <1>1
  <2> DEFINE a == Upper(u)
  <2> HIDE DEF a
  <2>2. Append(a, upper(c)) = [k \in 1 .. n + 1 |-> IF k <= n THEN a[k] ELSE upper(c)]
    BY <1>1, <2>1 DEF a
  <2>3. Upper(v) = [k \in 1 .. n + 1 |-> upper(v[k])]
    BY <1>1, <1>2
  <2>4. \A k \in 1 .. n + 1 : upper(v[k]) = IF k <= n THEN a[k] ELSE upper(c)
    <3> TAKE k \in 1 .. n + 1
    <3>1. CASE k <= n
      BY <1>1, <1>2, <2>1, <3>1 DEF a
    <3>2. CASE ~ (k <= n)
      <4>1. k = n + 1
        BY <1>1, <3>2
      <4> QED  BY <1>2, <3>2, <4>1
    <3> QED  BY <3>1, <3>2
  <2> HIDE DEF v
  <2>5. Append(a, upper(c)) = [k \in 1 .. n + 1 |-> upper(v[k])]
    BY <2>2, <2>4
  <2> QED  BY <2>3, <2>5 DEF a
<1>5. t = IF s \in Names THEN u ELSE Upper(u)
  BY DEF Scanned
<1>6. \/ s \in {"identifier", "local"} /\ c \in Word /\ r = s
      \/ s = "keyword" /\ c \in Letter /\ r = s
      \/ s = "minus" /\ c \in Digit /\ r = IF c = "0" THEN "zero" ELSE "decimal"
      \/ s = "zero" /\ c \in {"x", "X"} /\ r = "x"
      \/ s \in {"zero", "octal"} /\ c \in Oct /\ r = "octal"
      \/ s \in {"x", "hex"} /\ c \in Hex /\ r = "hex"
      \/ s = "decimal" /\ c \in Digit /\ r = s
  BY ContinuesAs
<1> HIDE DEF r
<1>7. b = IF r \in Names THEN v ELSE Upper(v)
  <2>1. s \in Names <=> r \in Names
    BY <1>6
  <2>2. r \in Names => Byte(r, c) = c
    BY DEF Byte
  <2>3. r \notin Names => Byte(r, c) = upper(c)
    <3>1. r \in {"x", "hex"} => Byte(r, c) = upper(c)
      BY DEF Byte
    <3>2. r \notin Names \cup {"x", "hex"} => c \in Digit
      BY <1>6 DEF Digit
    <3>3. c \in Digit => upper(c) = c
      BY DEF Digit, Oct, upper
    <3>4. r \notin {"x", "hex"} => Byte(r, c) = c
      BY DEF Byte
    <3> QED  BY <3>1, <3>2, <3>3, <3>4
  <2> HIDE DEF Upper, v, Names
  <2> QED  BY <1>4, <1>5, <2>1, <2>2, <2>3 DEF v
<1>8. /\ r \in InToken
      /\ r = "identifier" => /\ v[1] \in Letter \cup {"_"}
                             /\ \A k \in 1 .. n + 1 : v[k] \in Word
      /\ r = "local"   => v[1] = "@" /\ \A k \in 2 .. n + 1 : v[k] \in Word
      /\ r = "keyword" => v[1] = "." /\ \A k \in 2 .. n + 1 : v[k] \in Letter
      /\ r # "minus"
  <2> HIDE DEF v
  <2>1. \A S : \A i \in 1 .. 2 : AllIn(u, i, S) /\ c \in S => AllIn(v, i, S)
    <3> TAKE S
    <3> TAKE i \in 1 .. 2
    <3> SUFFICES ASSUME AllIn(u, i, S), c \in S, NEW k \in i .. n + 1 PROVE v[k] \in S
      BY <1>2 DEF AllIn
    <3>1. CASE k = n + 1
      BY <1>2, <3>1
    <3>2. CASE k # n + 1
      BY <1>1, <1>2, <3>2 DEF AllIn
    <3> QED  BY <3>1, <3>2
  <2>2. r = "identifier" => s = r /\ c \in Word
    BY <1>6
  <2>3. r = "local" => s = r /\ c \in Word
    BY <1>6
  <2>4. r = "keyword" => s = r /\ c \in Letter
    BY <1>6
  <2>5. r \in InToken /\ r # "minus"
    BY <1>6 DEF InToken, Numbers
  <2>6. 1 \in 1 .. 2 /\ 2 \in 1 .. 2
    OBVIOUS
  <2> HIDE DEF Names, b
  <2>7. /\ s = "identifier" => /\ u[1] \in Letter \cup {"_"}
                               /\ AllIn(u, 1, Word)
        /\ s = "local"   => u[1] = "@" /\ AllIn(u, 2, Word)
        /\ s = "keyword" => u[1] = "." /\ AllIn(u, 2, Letter)
    BY DEF Scanned, AllIn
  <2>8. /\ r = "identifier" => v[1] \in Letter \cup {"_"} /\ AllIn(v, 1, Word)
        /\ r = "local"   => v[1] = "@" /\ AllIn(v, 2, Word)
        /\ r = "keyword" => v[1] = "." /\ AllIn(v, 2, Letter)
    BY <1>3, <2>1, <2>2, <2>3, <2>4, <2>6, <2>7
  <2> QED  BY <1>2, <2>5, <2>8 DEF AllIn
<1>9. /\ r = "zero"    => n + 1 = o + 1 /\ v[o + 1] = "0"
      /\ r = "octal"   => n + 1 > o + 1 /\ Octal(v, o)
      /\ r = "x"       => n + 1 = o + 2 /\ v[o + 1] = "0" /\ v[o + 2] \in {"x", "X"}
      /\ r = "hex"     => Hexadecimal(v, o)
      /\ r = "decimal" => Decimal(v, o)
  <2> HIDE DEF v
  <2>1. /\ s = "minus"   => n = 1 /\ u[1] = "-"
        /\ s = "zero"    => n = o + 1 /\ u[o + 1] = "0"
        /\ s = "octal"   => n > o + 1 /\ Octal(u, o)
        /\ s = "x"       => n = o + 2 /\ u[o + 1] = "0" /\ u[o + 2] \in {"x", "X"}
        /\ s = "hex"     => Hexadecimal(u, o)
        /\ s = "decimal" => Decimal(u, o)
    BY DEF Scanned
  <2>2. s = "minus" => o = 1
    BY <2>1 DEF Signed
  <2>3. \A S : \A i \in 2 .. 4 : AllIn(u, i, S) /\ c \in S => AllIn(v, i, S)
    <3> TAKE S
    <3> TAKE i \in 2 .. 4
    <3> SUFFICES ASSUME AllIn(u, i, S), c \in S, NEW k \in i .. n + 1 PROVE v[k] \in S
      BY <1>2 DEF AllIn
    <3>1. CASE k = n + 1
      BY <1>2, <3>1
    <3>2. CASE k # n + 1
      BY <1>1, <1>2, <3>2 DEF AllIn
    <3> QED  BY <3>1, <3>2
  <2>4. o + 2 \in 2 .. 4 /\ o + 3 \in 2 .. 4
    BY <1>3
  <2>5. r = "zero" => n + 1 = o + 1 /\ v[o + 1] = "0"
    <3>1. r = "zero" => s = "minus" /\ c = "0"
      BY <1>6
    <3> QED  BY <1>2, <2>1, <2>2, <3>1
  <2>6. r = "octal" => n + 1 > o + 1 /\ Octal(v, o)
    <3> SUFFICES ASSUME r = "octal" PROVE n + 1 > o + 1 /\ Octal(v, o)
      OBVIOUS
    <3>1. s \in {"zero", "octal"} /\ c \in Oct
      BY <1>6
    <3>2. n >= o + 1 /\ u[o + 1] = "0" /\ \A k \in o + 2 .. n : u[k] \in Oct
      BY <1>1, <1>3, <2>1, <3>1 DEF Octal
    <3>3. v[o + 1] = "0"
      BY <1>1, <1>2, <1>3, <3>2
    <3>4. \A k \in o + 2 .. n + 1 : v[k] \in Oct
      <4>1. AllIn(u, o + 2, Oct)
        BY <3>2 DEF AllIn
      <4> HIDE DEF Oct, o
      <4>2. AllIn(v, o + 2, Oct)
        BY <2>3, <2>4, <3>1, <4>1
      <4> QED  BY <1>2, <4>2 DEF AllIn
    <3> QED  BY <1>1, <1>2, <1>3, <3>2, <3>3, <3>4 DEF Octal
  <2>7. r = "x" => n + 1 = o + 2 /\ v[o + 1] = "0" /\ v[o + 2] \in {"x", "X"}
    <3> SUFFICES ASSUME r = "x"
                 PROVE  n + 1 = o + 2 /\ v[o + 1] = "0" /\ v[o + 2] \in {"x", "X"}
      OBVIOUS
    <3>1. s = "zero" /\ c \in {"x", "X"}
      BY <1>6
    <3> QED  BY <1>1, <1>2, <1>3, <2>1, <3>1
  <2>8. r = "hex" => Hexadecimal(v, o)
    <3> SUFFICES ASSUME r = "hex" PROVE Hexadecimal(v, o)
      OBVIOUS
    <3>1. s \in {"x", "hex"} /\ c \in Hex
      BY <1>6
    <3>2. n >= o + 2 /\ u[o + 1] = "0" /\ u[o + 2] \in {"x", "X"} /\ \A k \in o + 3 .. n : u[k] \in Hex
      BY <1>1, <1>3, <2>1, <3>1 DEF Hexadecimal
    <3>3. v[o + 1] = "0" /\ v[o + 2] \in {"x", "X"}
      BY <1>1, <1>2, <1>3, <3>2
    <3>4. \A k \in o + 3 .. n + 1 : v[k] \in Hex
      <4>1. AllIn(u, o + 3, Hex)
        BY <3>2 DEF AllIn
      <4> HIDE DEF Hex, o
      <4>2. AllIn(v, o + 3, Hex)
        BY <2>3, <2>4, <3>1, <4>1
      <4> QED  BY <1>2, <4>2 DEF AllIn
    <3> QED  BY <1>1, <1>2, <1>3, <3>2, <3>3, <3>4 DEF Hexadecimal
  <2>9. r = "decimal" => Decimal(v, o)
    <3> SUFFICES ASSUME r = "decimal" PROVE Decimal(v, o)
      OBVIOUS
    <3>1. \/ s = "minus" /\ c \in Digit \ {"0"}
          \/ s = "decimal" /\ c \in Digit
      BY <1>6
    <3>2. CASE s = "minus"
      <4>1. n = 1 /\ o = 1 /\ c \in Digit \ {"0"}
        BY <2>1, <2>2, <3>1, <3>2
      <4>2. ~ \E k \in o + 2 .. n + 1 : TRUE
        BY <4>1
      <4> QED  BY <1>2, <4>1, <4>2 DEF Decimal
    <3>3. CASE s = "decimal"
      <4>1. n > o /\ u[o + 1] \in Digit \ {"0"} /\ (\A k \in o + 2 .. n : u[k] \in Digit)
            /\ c \in Digit
        BY <2>1, <3>1, <3>3 DEF Decimal
      <4>2. v[o + 1] = u[o + 1]
        BY <1>1, <1>2, <1>3, <4>1
      <4>3. \A k \in o + 2 .. n + 1 : v[k] \in Digit
        <5>1. AllIn(u, o + 2, Digit)
          BY <4>1 DEF AllIn
        <5> HIDE DEF Digit, o
        <5>2. AllIn(v, o + 2, Digit)
          BY <2>3, <2>4, <4>1, <5>1
        <5> QED  BY <1>2, <5>2 DEF AllIn
      <4> QED  BY <1>1, <1>2, <1>3, <4>1, <4>2, <4>3 DEF Decimal
    <3> QED  BY <3>1, <3>2, <3>3
  <2> QED  BY <2>5, <2>6, <2>7, <2>8, <2>9
<1> HIDE DEF v, b
<1> QED  BY <1>2, <1>3, <1>7, <1>8, <1>9 DEF Scanned, r, v, b

\* A number begins with its sign or a digit.
LEMMA NumberBegins ==
  ASSUME NEW s \in Numbers \cup {"minus", "x"}, NEW t, NEW u, Scanned(s, t, u)
  PROVE  u[1] \in Digit \cup {"-"} /\ Signed(u) \in {0, 1} /\ Len(u) \in Nat /\ Len(u) > 0
<1> DEFINE o == Signed(u)
<1>1. u \in Seq(Alphabet) /\ u # <<>>
  BY DEF Scanned
<1>2. Len(u) \in Nat /\ Len(u) > 0
  BY <1>1
<1>3. o = IF u[1] = "-" THEN 1 ELSE 0
  BY DEF Signed
<1>4. s # "minus" => u[o + 1] \in Digit
  BY DEF Scanned, Numbers, Decimal, Octal, Hexadecimal, Digit, Oct
<1>5. s = "minus" => u[1] = "-"
  BY DEF Scanned
<1> HIDE DEF o
<1>6. u[1] # "-" => u[1] \in Digit
  <2>1. u[1] # "-" => o + 1 = 1
    BY <1>3
  <2> QED  BY <1>4, <1>5, <2>1
<1> QED  BY <1>2, <1>3, <1>6 DEF o

\* No lexeme goes on where the scanner sees a token end.
LEMMA NoLonger ==
  ASSUME NEW s \in InToken, NEW t, NEW u, Scanned(s, t, u),
         NEW w \in Seq(Alphabet), Len(w) > Len(u),
         \A k \in 1 .. Len(u) : w[k] = u[k], Continues(s, w[Len(u) + 1]) = "none"
  PROVE  ~ IsLexeme(w)
<1> DEFINE n == Len(u)
           o == Signed(u)
           c == w[n + 1]
<1>1. n \in Nat /\ n > 0 /\ Len(w) \in Nat /\ Len(w) >= n + 1 /\ w # <<>>
  <2>1. u \in Seq(Alphabet) /\ u # <<>>
    BY DEF Scanned
  <2>2. n \in Nat /\ n > 0
    BY <2>1
  <2> QED  BY <2>2
<1>2. w[1] = u[1] /\ Signed(w) = o
  BY <1>1 DEF Signed
<1>3. /\ s \in {"identifier", "local"} => c \notin Word
      /\ s = "keyword" => c \notin Letter
      /\ s \in {"minus", "decimal"} => c \notin Digit
      /\ s = "zero" => c \notin {"x", "X"} \cup Oct
      /\ s = "octal" => c \notin Oct
      /\ s \in {"x", "hex"} => c \notin Hex
  BY ContinuesAs
<1>4. n + 1 \in 1 .. Len(w) /\ n + 1 \in 2 .. Len(w)
  BY <1>1
<1>5. CASE s \in {"identifier", "local", "keyword"}
  <2>1. /\ s = "identifier" => w[1] \in Letter \cup {"_"}
        /\ s = "local" => w[1] = "@"
        /\ s = "keyword" => w[1] = "."
    BY <1>2 DEF Scanned
  <2> HIDE DEF n
  <2> QED  BY <1>1, <1>3, <1>4, <1>5, <2>1, Lexemes
<1>6. CASE s \in Numbers \cup {"minus", "x"}
  <2>1. u[1] \in Digit \cup {"-"} /\ o \in {0, 1}
    BY <1>6, NumberBegins
  <2>2. IsLexeme(w) <=> Decimal(w, o) \/ Octal(w, o) \/ Hexadecimal(w, o)
    <3>1. IsLexeme(w) <=> IsInteger(w)
      BY <1>1, <1>2, <2>1, Lexemes
    <3> QED  BY <1>1, <1>2, <3>1, IntegerIs
  <2> DEFINE a == w[o + 1]
             b == w[o + 2]
  <2>3. /\ s = "minus"   => n = o
        /\ s = "zero"    => n = o + 1 /\ a = "0"
        /\ s = "octal"   => n > o + 1 /\ a = "0" /\ b \in Oct
        /\ s = "x"       => n = o + 2 /\ a = "0" /\ b \in {"x", "X"}
        /\ s = "hex"     => n > o + 2 /\ a = "0" /\ b \in {"x", "X"}
        /\ s = "decimal" => n > o /\ a \in Digit \ {"0"}
    <3>1. n > o => a = u[o + 1]
      BY <1>1, <2>1
    <3>2. n > o + 1 => b = u[o + 2]
      BY <1>1, <2>1
    <3>3. /\ s = "minus"   => n = 1 /\ u[1] = "-"
          /\ s = "zero"    => n = o + 1 /\ u[o + 1] = "0"
          /\ s = "octal"   => n > o + 1 /\ Octal(u, o)
          /\ s = "x"       => n = o + 2 /\ u[o + 1] = "0" /\ u[o + 2] \in {"x", "X"}
          /\ s = "hex"     => Hexadecimal(u, o)
          /\ s = "decimal" => Decimal(u, o)
      BY DEF Scanned
    <3>4. s = "minus" => n = o
      BY <3>3 DEF Signed
    <3>5. s = "octal" => a = "0" /\ b \in Oct
      <4> SUFFICES ASSUME s = "octal" PROVE a = "0" /\ b \in Oct
        OBVIOUS
      <4>1. n > o + 1 /\ o + 2 \in o + 2 .. n
        BY <1>1, <2>1, <3>3
      <4>2. u[o + 1] = "0" /\ u[o + 2] \in Oct
        BY <3>3, <4>1 DEF Octal
      <4> QED  BY <1>1, <2>1, <3>1, <3>2, <4>1, <4>2
    <3>6. s \in {"zero", "x"} => n > o /\ a = "0"
      BY <1>1, <2>1, <3>1, <3>3
    <3>7. s = "hex" => n > o + 2 /\ a = "0" /\ b \in {"x", "X"}
      BY <1>1, <2>1, <3>1, <3>2, <3>3 DEF Hexadecimal
    <3>8. s = "decimal" => n > o /\ a \in Digit \ {"0"}
      BY <1>1, <2>1, <3>1, <3>3 DEF Decimal
    <3>9. s = "x" => b \in {"x", "X"}
      BY <1>1, <2>1, <3>2, <3>3
    <3> HIDE DEF a, b
    <3> QED  BY <3>3, <3>4, <3>5, <3>6, <3>7, <3>8, <3>9
  <2>4. Decimal(w, o) => /\ a \in Digit \ {"0"}
                         /\ \A k \in o + 2 .. Len(w) : w[k] \in Digit
    BY DEF Decimal
  <2>5. Octal(w, o) => a = "0" /\ \A k \in o + 2 .. Len(w) : w[k] \in Oct
    BY DEF Octal
  <2>6. Hexadecimal(w, o) => /\ a = "0" /\ b \in {"x", "X"}
                             /\ \A k \in o + 3 .. Len(w) : w[k] \in Hex
    BY DEF Hexadecimal
  <2>7. /\ s = "minus" => a = c
        /\ s = "zero"  => b = c
    BY <1>1, <2>1, <2>3
  <2>8. /\ s \in {"zero", "octal", "x", "hex", "decimal"} => n + 1 \in o + 2 .. Len(w)
        /\ s \in {"x", "hex"} => n + 1 \in o + 3 .. Len(w)
    BY <1>1, <2>1, <2>3
  <2>9. s \in {"zero", "octal", "x", "hex", "decimal", "minus"}
    BY <1>6 DEF Numbers
  <2>10. "0" \in Digit /\ "0" \notin {"x", "X"} /\ Oct \cap {"x", "X"} = {}
    BY DEF Digit, Oct
  <2>11. Octal(w, o) => s \in {"zero", "octal"}
    <3>1. s = "minus" => a # "0"
      BY <1>3, <2>7, <2>10
    <3>2. Octal(w, o) => s \notin {"x", "hex"}
      <4>1. Len(w) >= o + 2 => o + 2 \in o + 2 .. Len(w)
        BY <1>1, <2>1
      <4>2. s \in {"x", "hex"} => Len(w) >= o + 2
        BY <1>1, <2>1, <2>3
      <4>3. Octal(w, o) /\ Len(w) >= o + 2 => b \in Oct
        BY <2>5, <4>1
      <4> HIDE DEF a, b
      <4> QED  BY <2>3, <2>10, <4>2, <4>3
    <3> HIDE DEF a, b
    <3> QED  BY <2>3, <2>5, <2>9, <3>1, <3>2
  <2> HIDE DEF a, b, n, o
  <2>12. ~ Decimal(w, o)
    BY <1>3, <2>3, <2>4, <2>7, <2>8, <2>9, <2>10
  <2>13. ~ Octal(w, o)
    BY <1>3, <2>5, <2>8, <2>11
  <2>14. ~ Hexadecimal(w, o)
    <3>1. s \in {"minus", "zero", "octal", "decimal"} => ~ Hexadecimal(w, o)
      BY <1>3, <2>3, <2>6, <2>7, <2>10
    <3>2. s \in {"x", "hex"} => ~ Hexadecimal(w, o)
      BY <1>3, <2>6, <2>8
    <3> QED  BY <2>9, <3>1, <3>2
  <2> QED  BY <2>2, <2>12, <2>13, <2>14
<1> QED  BY <1>5, <1>6 DEF InToken

\* The states in which a number may end have read a number.
LEMMA NumbersAre ==
  ASSUME NEW s \in Numbers, NEW t, NEW u, Scanned(s, t, u)
  PROVE  IsInteger(u)
<1> DEFINE o == Signed(u)
           n == Len(u)
<1>1. u \in Seq(Alphabet) /\ u # <<>>
  BY DEF Scanned
<1>2. o \in {0, 1} /\ n \in Nat
  BY <1>1 DEF Signed
<1>3. /\ s = "zero"    => n = o + 1 /\ u[o + 1] = "0"
      /\ s = "octal"   => Octal(u, o)
      /\ s = "hex"     => Hexadecimal(u, o)
      /\ s = "decimal" => Decimal(u, o)
  BY DEF Scanned
<1>4. s = "zero" => Octal(u, o)
  <2> SUFFICES ASSUME s = "zero" PROVE Octal(u, o)
    OBVIOUS
  <2>1. \A k \in o + 2 .. n : FALSE
    BY <1>2, <1>3
  <2> QED  BY <1>2, <1>3, <2>1 DEF Octal
<1> QED  BY <1>1, <1>3, <1>4, IntegerIs DEF Numbers

\* The token that the scanner returns is the one of the lexeme it has read.
LEMMA Complete ==
  ASSUME NEW s \in InToken, NEW t, NEW u, Scanned(s, t, u), NEW c, Ends(s, t, c)
  PROVE  /\ IsLexeme(u) /\ ~ IsBlank(u) /\ ~ IsSingle(u) /\ ~ IsIllegal(u, c)
         /\ TypeOf(s, t) = Kind(u)
         /\ TypeOf(s, t) \in {"int", "keyword", "identifier", "local"}
         /\ t = IF IsInteger(u) THEN [i \in DOMAIN u |-> upper(u[i])] ELSE u
<1> DEFINE n == Len(u)
           Upper == [i \in DOMAIN u |-> upper(u[i])]
<1>1. u \in Seq(Alphabet) /\ u # <<>> /\ n \in Nat
  <2>1. u \in Seq(Alphabet) /\ u # <<>>
    BY DEF Scanned
  <2> QED  BY <2>1
<1>2. t = IF s \in {"identifier", "local", "keyword"} THEN u ELSE Upper
  BY DEF Scanned
<1>3. \/ s \in {"identifier", "local"}
      \/ s = "keyword" /\ IsKeyword(t)
      \/ s \in Numbers /\ c \in Delimiters
  BY DEF Ends
<1> HIDE DEF Upper, n
<1>4. CASE s = "identifier"
  <2>1. u[1] \in Letter \cup {"_"} /\ \A k \in 1 .. Len(u) : u[k] \in Word
    BY <1>4 DEF Scanned
  <2>2. /\ u[1] \notin Digit \cup {"-", "@", ".", "/"}
        /\ u[1] \notin Space \cup Single
    BY <2>1 DEF Letter, Digit, Oct, Space, Single, Special
  <2>3. IsName(u) /\ ~ IsInteger(u) /\ ~ IsDotWord(u) /\ ~ IsComment(u)
    BY <1>1, <2>1, <2>2, Kinds
  <2>4. ~ IsBlank(u) /\ ~ IsSingle(u)
    BY <1>1, <2>2, Kinds
  <2>5. IsLexeme(u) /\ ~ IsIllegal(u, c)
    BY <2>3 DEF IsLexeme, IsIllegal
  <2>6. TypeOf(s, t) = Kind(u) /\ TypeOf(s, t) \in {"keyword", "identifier"}
    <3>1. ~ IsLocal(u) /\ t = u
      BY <1>1, <1>2, <1>4, <2>2, Kinds
    <3> QED  BY <1>4, <2>3, <3>1 DEF TypeOf, Kind, Numbers
  <2> QED  BY <1>2, <1>4, <2>3, <2>4, <2>5, <2>6
<1>5. CASE s = "local"
  <2>1. u[1] = "@" /\ \A k \in 2 .. Len(u) : u[k] \in Word
    BY <1>5 DEF Scanned
  <2>2. /\ u[1] \notin Digit \cup {"-", ".", "/"} \cup Letter \cup {"_"}
        /\ u[1] \notin Space \cup Single
    BY <2>1 DEF Letter, Digit, Oct, Space, Single, Special
  <2>3. IsLocal(u) /\ ~ IsName(u) /\ ~ IsInteger(u) /\ ~ IsDotWord(u) /\ ~ IsComment(u)
        /\ ~ IsKeyword(u)
    BY <1>1, <2>1, <2>2, Kinds
  <2>4. ~ IsBlank(u) /\ ~ IsSingle(u)
    BY <1>1, <2>2, Kinds
  <2>5. IsLexeme(u) /\ ~ IsIllegal(u, c)
    BY <2>3 DEF IsLexeme, IsIllegal
  <2>6. TypeOf(s, t) = "local" /\ Kind(u) = "local"
    BY <1>5, <2>3 DEF TypeOf, Kind, Numbers
  <2> QED  BY <1>2, <1>5, <2>3, <2>4, <2>5, <2>6
<1>6. CASE s = "keyword"
  <2>1. u[1] = "." /\ \A k \in 2 .. Len(u) : u[k] \in Letter
    BY <1>6 DEF Scanned
  <2>2. /\ u[1] \notin Digit \cup {"-", "@", "/"} \cup Letter \cup {"_"}
        /\ u[1] \notin Space \cup Single
    BY <2>1 DEF Letter, Digit, Oct, Space, Single, Special
  <2>3. IsDotWord(u) /\ ~ IsInteger(u) /\ ~ IsComment(u) /\ IsKeyword(u)
    BY <1>1, <1>2, <1>3, <1>6, <2>1, <2>2, Kinds DEF Numbers
  <2>4. ~ IsBlank(u) /\ ~ IsSingle(u)
    BY <1>1, <2>2, Kinds
  <2>5. IsLexeme(u) /\ ~ IsIllegal(u, c)
    BY <2>3 DEF IsLexeme, IsIllegal
  <2>6. TypeOf(s, t) = "keyword" /\ Kind(u) = "keyword"
    <3>1. ~ IsLocal(u) /\ ~ IsName(u) /\ t = u
      BY <1>1, <1>2, <1>6, <2>2, Kinds
    <3> QED  BY <1>6, <2>3, <3>1 DEF TypeOf, Kind, Numbers
  <2> QED  BY <1>2, <1>6, <2>3, <2>4, <2>5, <2>6
<1>7. CASE s \in Numbers /\ c \in Delimiters
  <2>1. IsInteger(u) /\ u[1] \in Digit \cup {"-"}
    <3>1. s \in Numbers \cup {"minus", "x"}
      BY <1>7
    <3> QED  BY <1>7, <3>1, NumbersAre, NumberBegins
  <2>2. u[1] \notin {".", "/"} /\ u[1] \notin Space \cup Single
    BY <2>1 DEF Digit, Oct, Space, Single, Special
  <2>3. ~ IsDotWord(u) /\ ~ IsComment(u)
    BY <1>1, <2>2, Kinds
  <2>4. ~ IsBlank(u) /\ ~ IsSingle(u)
    BY <1>1, <2>2, <2>3, Kinds
  <2>5. IsLexeme(u) /\ ~ IsIllegal(u, c)
    BY <1>7, <2>1, <2>3 DEF IsLexeme, IsIllegal
  <2>6. s \notin {"identifier", "local", "keyword"}
    BY <1>7 DEF Numbers
  <2>7. TypeOf(s, t) = "int" /\ Kind(u) = "int"
    <3>1. u[1] \notin Letter \cup {"_", "@"}
      BY <2>1 DEF Letter, Digit, Oct
    <3>2. ~ IsLocal(u) /\ ~ IsName(u) /\ ~ IsKeyword(u)
      BY <1>1, <2>2, <3>1, Kinds
    <3> QED  BY <1>7, <2>1, <2>6, <3>2 DEF TypeOf, Kind
  <2> QED  BY <1>2, <2>1, <2>4, <2>5, <2>6, <2>7 DEF Upper
<1> QED  BY <1>3, <1>4, <1>5, <1>6, <1>7

\* What is no token where it ends is illegal there, or no lexeme.
LEMMA Incomplete ==
  ASSUME NEW s \in InToken, NEW t, NEW u, Scanned(s, t, u), NEW c, ~ Ends(s, t, c)
  PROVE  \/ IsLexeme(u) /\ IsIllegal(u, c)
         \/ s = "minus" /\ Len(u) = 1 /\ ~ IsLexeme(u)
         \/ s = "x" /\ ~ IsLexeme(u)
<1>1. u \in Seq(Alphabet) /\ u # <<>>
  BY DEF Scanned
<1>2. s \in {"keyword", "minus", "x"} \cup Numbers
  BY DEF Ends, InToken
<1>3. CASE s = "keyword"
  <2>1. u[1] = "." /\ (\A k \in 2 .. Len(u) : u[k] \in Letter) /\ t = u
    BY <1>3 DEF Scanned
  <2>2. IsDotWord(u) /\ ~ IsKeyword(u)
    BY <1>1, <1>3, <2>1, Kinds DEF Ends
  <2> QED  BY <2>2 DEF IsIllegal, IsLexeme
<1>4. CASE s \in Numbers
  <2>1. IsInteger(u) /\ c \notin Delimiters
    BY <1>4, NumbersAre DEF Ends
  <2> QED  BY <2>1 DEF IsIllegal, IsLexeme
<1>5. CASE s = "minus"
  <2>1. Len(u) = 1 /\ u[1] = "-"
    BY <1>5 DEF Scanned
  <2>2. Signed(u) = 1
    BY <2>1 DEF Signed
  <2>3. ~ IsInteger(u)
    BY <1>1, <2>1, <2>2, IntegerIs DEF Decimal, Octal, Hexadecimal
  <2> QED  BY <1>1, <1>5, <2>1, <2>3, Lexemes
<1>6. CASE s = "x"
  <2> DEFINE o == Signed(u)
  <2>1. Len(u) = o + 2 /\ u[o + 1] = "0" /\ u[o + 2] \in {"x", "X"} /\ o \in {0, 1}
    BY <1>6 DEF Scanned, Signed
  <2>2. o + 2 \in o + 2 .. Len(u) /\ u[o + 2] \notin Oct /\ ~ (Len(u) > o + 2)
    BY <2>1 DEF Oct
  <2>3. ~ Decimal(u, o) /\ ~ Octal(u, o) /\ ~ Hexadecimal(u, o)
    BY <2>1, <2>2 DEF Decimal, Octal, Hexadecimal
  <2>4. ~ IsInteger(u)
    BY <1>1, <2>3, IntegerIs
  <2>5. u[1] \in Digit \cup {"-"}
    BY <1>6, NumberBegins
  <2> QED  BY <1>1, <1>6, <2>4, <2>5, Lexemes
<1> QED  BY <1>2, <1>3, <1>4, <1>5, <1>6

\* Before the x of a hexadecimal number without digits there is a zero, which
\* nothing delimits.
LEMMA ZeroBeforeX ==
  ASSUME NEW t, NEW u, Scanned("x", t, u),
         NEW w \in Seq(Alphabet), Len(w) + 1 = Len(u), \A k \in 1 .. Len(w) : w[k] = u[k]
  PROVE  IsLexeme(w) /\ IsIllegal(w, u[Len(u)]) /\ w # <<>>
<1> DEFINE o == Signed(u)
<1>1. Len(u) = o + 2 /\ u[o + 1] = "0" /\ u[o + 2] \in {"x", "X"} /\ o \in {0, 1}
  BY DEF Scanned, Signed
<1>2. Len(w) = o + 1 /\ w # <<>> /\ w[o + 1] = "0"
  <2>1. Len(w) \in Nat
    OBVIOUS
  <2>2. Len(w) = o + 1
    BY <1>1, <2>1
  <2> HIDE DEF o
  <2> QED  BY <1>1, <2>2
<1>3. Signed(w) = o
  <2>1. w[1] = u[1]
    BY <1>1, <1>2
  <2> QED  BY <2>1 DEF Signed
<1>4. Octal(w, o)
  <2>1. \A k \in o + 2 .. Len(w) : FALSE
    BY <1>1, <1>2
  <2> QED  BY <1>1, <1>2, <2>1 DEF Octal
<1>5. IsInteger(w)
  BY <1>2, <1>3, <1>4, IntegerIs
<1>6. u[Len(u)] \notin Delimiters
  BY <1>1 DEF Delimiters, None, Space, Special
<1> QED  BY <1>2, <1>5, <1>6 DEF IsLexeme, IsIllegal

----------------------------------------------------------------------------
(***************************************************************************)
(* The types.                                                              *)
(***************************************************************************)

\* How many characters of the input have been put back.
Held == IF lookahead # None THEN 1 ELSE 0

\* Each conjunct that TypeOK does not have is needed for one that it has.
TInv ==
  /\ input \in Seq(Alphabet) /\ Len(input) <= MaxLength
  /\ stream \in {"open", "ended", "broken"}
  /\ stream = "broken" => state = "error"
  /\ lookahead # None => state = "start" /\ input # <<>> /\ lookahead = input[Len(input)]
  /\ line \in 1 .. Len(input) + 1
  /\ state \in InToken \cup {"start", "slash", "comment", "end", "error"}
  /\ tokens \in Seq(Token)
  /\ \A i \in DOMAIN tokens : tokens[i].line \in 1 .. line
  /\ text \in Seq(Chars)
  /\ state \in InToken /\ ~exhausted => text # <<>>
  /\ exhausted \in BOOLEAN

\* What AsmLexerNextChar does to the input.
LEMMA NextCharDoes ==
  ASSUME TInv, NEW c, NextChar(c)
  PROVE  /\ input' \in Seq(Alphabet) /\ Len(input') <= MaxLength
         /\ stream' \in {"open", "ended", "broken"}
         /\ stream # "broken" => stream' # "broken"
         /\ line' \in 1 .. Len(input') + 1 /\ line \in Nat /\ line' >= line
         /\ Len(input) - Held \in Nat
         /\ \/ /\ c \in Alphabet /\ c # None /\ input' # <<>>
               /\ c = input'[Len(input')]
               /\ Len(input') = Len(input) - Held + 1
               /\ \A k \in 1 .. Len(input) - Held : input'[k] = input[k]
            \/ /\ c = None /\ input' = input /\ Held = 0
               /\ stream' = "ended" /\ line' = line
<1>0. /\ input \in Seq(Alphabet) /\ Len(input) <= MaxLength
      /\ stream \in {"open", "ended", "broken"}
      /\ lookahead # None => input # <<>> /\ lookahead = input[Len(input)]
      /\ line \in 1 .. Len(input) + 1
      /\ Len(input) \in Nat /\ (input # <<>> => Len(input) > 0)
  BY DEF TInv
<1>1. Len(input) - Held \in Nat /\ line \in Nat /\ MaxLength \in Nat /\ None \notin Alphabet
  BY <1>0, LexerAssumption DEF Held
<1>2. CASE /\ lookahead # None
           /\ c = lookahead
           /\ UNCHANGED <<input, stream, line>>
  <2>1. input # <<>> /\ c = input[Len(input)] /\ Held = 1 /\ Len(input) > 0
    BY <1>0, <1>2 DEF Held
  <2>2. c \in Alphabet
    BY <1>0, <2>1
  <2> QED  BY <1>0, <1>1, <1>2, <2>1, <2>2
<1>3. CASE /\ lookahead = None
           /\ stream = "open" /\ Len(input) < MaxLength
           /\ c \in Alphabet
           /\ input' = Append(input, c)
           /\ line' = line + IF c = "\n" THEN 1 ELSE 0
           /\ UNCHANGED stream
  <2>1. Held = 0
    BY <1>3 DEF Held
  <2>2. /\ input' \in Seq(Alphabet) /\ Len(input') = Len(input) + 1 /\ input' # <<>>
        /\ c = input'[Len(input')]
        /\ \A k \in 1 .. Len(input) : input'[k] = input[k]
    BY <1>0, <1>3
  <2>3. line' \in 1 .. Len(input') + 1 /\ line' >= line
    BY <1>0, <1>1, <1>3, <2>2
  <2> QED  BY <1>0, <1>1, <1>3, <2>1, <2>2, <2>3
<1>4. CASE lookahead = None /\ c = None /\ stream' = "ended" /\ UNCHANGED <<input, line>>
  BY <1>0, <1>1, <1>4 DEF Held
<1> QED  BY <1>2, <1>3, <1>4 DEF NextChar

\* A byte that is appended.
LEMMA AppendByteDoes ==
  ASSUME NEW b \in Seq(Chars), NEW c \in Chars, AppendByte(b, c), exhausted \in BOOLEAN
  PROVE  /\ text' \in Seq(Chars) /\ exhausted' \in BOOLEAN
         /\ ~ exhausted' => ~ exhausted /\ text' = Append(b, c) /\ text' # <<>>
<1>1. Append(b, c) \in Seq(Chars) /\ Append(b, c) # <<>>
  OBVIOUS
<1>2. CASE text' = Append(b, c) /\ UNCHANGED exhausted
  BY <1>1, <1>2
<1>3. CASE exhausted' = TRUE /\ text' = b
  BY <1>3
<1> QED  BY <1>2, <1>3 DEF AppendByte

\* The line of an earlier token is not behind the current one.
LEMMA EarlierLines ==
  ASSUME TInv, line' \in Nat, line' >= line
  PROVE  /\ tokens \in Seq(Token)
         /\ \A i \in DOMAIN tokens : tokens[i].line \in 1 .. line'
<1>1. \A i \in DOMAIN tokens : tokens[i].line \in 1 .. line
  BY DEF TInv
<1>2. line \in Nat
  BY DEF TInv
<1> HIDE DEF Token
<1> QED  BY <1>1, <1>2 DEF TInv

\* A return of a token.
LEMMA ReturnDoes ==
  ASSUME TInv, NEW type \in Alphabet \cup {"int", "keyword", "identifier", "local"},
         NEW w \in Seq(Chars), NEW c, line' \in Nat, line' >= line, line' >= 1,
         Return(type, w, c)
  PROVE  /\ text' = <<>> /\ exhausted' \in BOOLEAN /\ (~ exhausted' => ~ exhausted)
         /\ tokens' \in Seq(Token)
         /\ \A i \in DOMAIN tokens' : tokens'[i].line \in 1 .. line'
         /\ \/ /\ tokens' = Append(tokens, [type |-> type, text |-> w, line |-> line'])
               /\ state' = "start" /\ lookahead' = c
            \/ exhausted' /\ state' = "error" /\ lookahead' = None
<1> DEFINE T == [type |-> type, text |-> w, line |-> line']
<1>1. T \in Token /\ T.line = line'
  BY DEF Token
<1>2. tokens \in Seq(Token) /\ \A i \in DOMAIN tokens : tokens[i].line \in 1 .. line'
  BY EarlierLines
<1>3. exhausted \in BOOLEAN
  BY DEF TInv
<1>4. CASE /\ tokens' = Append(tokens, T)
           /\ text' = <<>> /\ state' = "start" /\ lookahead' = c
           /\ UNCHANGED exhausted
  <2> HIDE DEF Token, T
  <2>1. tokens' \in Seq(Token) /\ Len(tokens') = Len(tokens) + 1
        /\ tokens'[Len(tokens) + 1] = T /\ \A i \in 1 .. Len(tokens) : tokens'[i] = tokens[i]
    BY <1>1, <1>2, <1>4
  <2>2. \A i \in DOMAIN tokens' : tokens'[i].line \in 1 .. line'
    <3> TAKE i \in DOMAIN tokens'
    <3>1. i \in 1 .. Len(tokens) + 1 /\ Len(tokens) \in Nat
      BY <1>2, <2>1
    <3>2. CASE i = Len(tokens) + 1
      BY <1>1, <2>1, <3>2
    <3>3. CASE i \in 1 .. Len(tokens)
      <4>1. i \in DOMAIN tokens
        BY <1>2, <3>3
      <4> QED  BY <1>2, <2>1, <3>3, <4>1
    <3> QED  BY <3>1, <3>2, <3>3
  <2> QED  BY <1>3, <1>4, <2>1, <2>2 DEF T
<1>5. CASE /\ MemoryFails /\ ~exhausted /\ exhausted' = TRUE
           /\ GoTo("error") /\ text' = <<>>
           /\ UNCHANGED tokens
  BY <1>2, <1>5 DEF GoTo
<1> QED  BY <1>4, <1>5 DEF Return

\* A byte of the buffer.
LEMMA ByteType ==
  ASSUME NEW s, NEW c \in Alphabet
  PROVE  c \in Chars /\ Byte(s, c) \in Chars
BY DEF Byte, upper, Chars

\* The types of tokens.
LEMMA TypeOfType ==
  ASSUME NEW s \in InToken, NEW w, NEW c, Ends(s, w, c)
  PROVE  TypeOf(s, w) \in {"int", "keyword", "identifier", "local"}
<1>1. s \in {"identifier", "local", "keyword"} \cup Numbers
  BY DEF Ends
<1>2. CASE s \in {"identifier", "keyword"}
  BY <1>2 DEF TypeOf, Numbers
<1>3. CASE s \in Numbers
  BY <1>3 DEF TypeOf, Numbers
<1>4. CASE s = "local"
  BY <1>4 DEF TypeOf, Numbers
<1> QED  BY <1>1, <1>2, <1>3, <1>4

LEMMA InitTypes == Init => TInv
<1> SUFFICES ASSUME Init PROVE TInv
  OBVIOUS
<1>1. MaxLength \in Nat
  BY LexerAssumption
<1>2. "start" \notin InToken
  BY DEF InToken, Numbers
<1>3. \A S : <<>> \in Seq(S)
  OBVIOUS
<1>4. Len(<<>>) = 0 /\ DOMAIN <<>> = {}
  OBVIOUS
<1>5. input \in Seq(Alphabet) /\ tokens \in Seq(Token) /\ text \in Seq(Chars)
  BY <1>3 DEF Init
<1>6. Len(input) = 0 /\ DOMAIN tokens = {}
  BY <1>4 DEF Init
<1>7. /\ stream = "open" /\ lookahead = None /\ line = 1 /\ state = "start"
      /\ exhausted \in BOOLEAN
  BY DEF Init
<1>8. line \in 1 .. Len(input) + 1 /\ Len(input) <= MaxLength
  BY <1>1, <1>6, <1>7
<1>9. \A i \in DOMAIN tokens : tokens[i].line \in 1 .. line
  BY <1>6
<1> QED  BY <1>2, <1>5, <1>7, <1>8, <1>9 DEF TInv

LEMMA NextTypes == TInv /\ [Next]_lvars => TInv'
<1> SUFFICES ASSUME TInv, [Next]_lvars PROVE TInv'
  OBVIOUS
<1> DEFINE Lines == \A i \in DOMAIN tokens : tokens[i].line \in 1 .. line
<1>1. /\ input \in Seq(Alphabet) /\ Len(input) <= MaxLength
      /\ stream \in {"open", "ended", "broken"}
      /\ stream = "broken" => state = "error"
      /\ line \in 1 .. Len(input) + 1
      /\ tokens \in Seq(Token) /\ Lines
      /\ text \in Seq(Chars) /\ exhausted \in BOOLEAN
  BY DEF TInv
<1>2. {"start", "slash", "comment", "end", "error"} \cap InToken = {}
  BY DEF InToken, Numbers
<1> HIDE DEF Lines
<1>3. ASSUME NEW c, NextChar(c), state \notin {"end", "error"},
             lookahead' # None => state' = "start" /\ lookahead' = c /\ c # None,
             state' \in InToken \cup {"start", "slash", "comment", "end", "error"},
             tokens' \in Seq(Token), Lines',
             text' \in Seq(Chars), exhausted' \in BOOLEAN,
             state' \in InToken /\ ~exhausted' => text' # <<>>
      PROVE  TInv'
  BY <1>1, <1>3, NextCharDoes DEF TInv, Lines
<1>4. ASSUME NEW c, NextChar(c), UNCHANGED tokens
      PROVE  tokens' \in Seq(Token) /\ Lines'
  BY <1>4, NextCharDoes, EarlierLines DEF Lines
<1>5. CASE SkipSpace
  <2>1. PICK c \in Space : NextChar(c)
    BY <1>5 DEF SkipSpace
  <2> QED  BY <1>1, <1>2, <1>3, <1>4, <1>5, <2>1 DEF SkipSpace
<1>6. CASE EndOfFile
  BY <1>1, <1>2, <1>3, <1>4, <1>6 DEF EndOfFile, GoTo
<1>7. CASE BeginComment
  BY <1>1, <1>2, <1>3, <1>4, <1>7 DEF BeginComment, GoTo
<1>8. CASE BeginToken
  <2>1. PICK c \in Alphabet : /\ Begins(c) # "none"
                              /\ NextChar(c)
                              /\ GoTo(Begins(c))
                              /\ AppendByte(<<>>, c)
    BY <1>8 DEF BeginToken
  <2>2. Begins(c) \in InToken
    BY <2>1, ScannedFirst
  <2>3. /\ text' \in Seq(Chars) /\ exhausted' \in BOOLEAN
        /\ ~ exhausted' => text' # <<>>
    <3>1. <<>> \in Seq(Chars) /\ c \in Chars
      BY ByteType
    <3> QED  BY <1>1, <2>1, <3>1, AppendByteDoes
  <2> QED  BY <1>2, <1>3, <1>4, <1>8, <2>1, <2>2, <2>3 DEF BeginToken, GoTo
<1>9. CASE AsmScanSingle
  <2>1. PICK c \in Single : NextChar(c) /\ Return(c, <<c>>, None)
    BY <1>9 DEF AsmScanSingle
  <2>2. c # None
    BY <2>1 DEF None, Single, Special
  <2>3. c \in Alphabet /\ line' \in Nat /\ line' >= line /\ line' >= 1
    BY <2>1, <2>2, NextCharDoes
  <2>4. <<c>> \in Seq(Chars)
    BY <2>3, ByteType
  <2>5. /\ text' = <<>> /\ exhausted' \in BOOLEAN /\ tokens' \in Seq(Token) /\ Lines'
        /\ lookahead' = None /\ state' \in {"start", "error"}
    BY <2>1, <2>3, <2>4, ReturnDoes DEF Lines
  <2> QED  BY <1>2, <1>3, <1>9, <2>1, <2>5 DEF AsmScanSingle
<1>10. CASE Unrecognized
  <2>1. PICK c \in Alphabet : NextChar(c)
    BY <1>10 DEF Unrecognized
  <2> QED  BY <1>1, <1>2, <1>3, <1>4, <1>10, <2>1 DEF Unrecognized, Fail, GoTo
<1>11. CASE SecondSlash
  <2>1. PICK c \in Alphabet \cup {None} :
           /\ NextChar(c)
           /\ \/ c = "/" /\ GoTo("comment") /\ UNCHANGED <<text, tokens, exhausted>>
              \/ c # "/" /\ Fail
    BY <1>11 DEF SecondSlash
  <2>2. CASE GoTo("comment") /\ UNCHANGED <<text, tokens, exhausted>>
    BY <1>1, <1>2, <1>3, <1>4, <1>11, <2>1, <2>2 DEF SecondSlash, GoTo
  <2>3. CASE Fail
    BY <1>1, <1>2, <1>3, <1>4, <1>11, <2>1, <2>3 DEF SecondSlash, Fail, GoTo
  <2> QED  BY <2>1, <2>2, <2>3
<1>12. CASE SkipComment
  <2>1. PICK c \in Alphabet \cup {None} :
           /\ NextChar(c)
           /\ lookahead' = IF c = "\n" THEN c ELSE None
           /\ state' = IF c \in {"\n", None} THEN "start" ELSE state
    BY <1>12 DEF SkipComment
  <2> QED  BY <1>1, <1>2, <1>3, <1>4, <1>12, <2>1 DEF SkipComment
<1>13. CASE ContinueToken
  <2>1. PICK c \in Alphabet : /\ Continues(state, c) # "none"
                              /\ NextChar(c)
                              /\ GoTo(Continues(state, c))
                              /\ AppendByte(text, Byte(state', c))
    BY <1>13 DEF ContinueToken
  <2>2. state \in InToken /\ Continues(state, c) \in InToken
    <3>1. Continues(state, c) \in {"identifier", "local", "keyword", "zero", "decimal",
                                   "x", "octal", "hex"}
      <4> DEFINE r == Continues(state, c)
      <4> HIDE DEF r
      <4>1. \/ state \in {"identifier", "local", "keyword", "decimal"} /\ r = state
            \/ r \in {"zero", "decimal", "x", "octal", "hex"}
        BY <2>1, ContinuesAs DEF r
      <4> QED  BY <4>1 DEF r
    <3> QED  BY <1>13, <3>1 DEF ContinueToken, InToken, Numbers
  <2>3. /\ text' \in Seq(Chars) /\ exhausted' \in BOOLEAN
        /\ ~ exhausted' => text' # <<>>
    BY <1>1, <2>1, ByteType, AppendByteDoes
  <2> QED  BY <1>2, <1>3, <1>4, <1>13, <2>1, <2>2, <2>3 DEF ContinueToken, GoTo
<1>14. CASE EndToken
  <2>1. PICK c \in Alphabet \cup {None} :
           /\ NextChar(c)
           /\ IF Ends(state, text, c) THEN Return(TypeOf(state, text), text, c) ELSE Fail
    BY <1>14 DEF EndToken
  <2>2. state \in InToken
    BY <1>14 DEF EndToken
  <2>3. line' \in Nat /\ line' >= line /\ line' >= 1
    BY <2>1, NextCharDoes
  <2>4. CASE Ends(state, text, c) /\ Return(TypeOf(state, text), text, c)
    <3>1. TypeOf(state, text) \in {"int", "keyword", "identifier", "local"}
      BY <2>2, <2>4, TypeOfType
    <3>2. /\ text' = <<>> /\ exhausted' \in BOOLEAN /\ tokens' \in Seq(Token) /\ Lines'
          /\ \/ lookahead' = None /\ state' = "error"
             \/ lookahead' = c /\ state' = "start"
      BY <1>1, <2>3, <2>4, <3>1, ReturnDoes DEF Lines
    <3> QED  BY <1>2, <1>3, <2>1, <2>2, <3>2
  <2>5. CASE Fail
    BY <1>1, <1>2, <1>3, <1>4, <2>1, <2>2, <2>5 DEF Fail, GoTo
  <2> QED  BY <2>1, <2>4, <2>5
<1>15. CASE ReadError
  BY <1>1, <1>2, <1>15 DEF ReadError, Fail, GoTo, TInv, Lines
<1>16. CASE UNCHANGED lvars
  BY <1>16 DEF lvars, TInv
<1> QED  BY <1>5, <1>6, <1>7, <1>8, <1>9, <1>10, <1>11, <1>12, <1>13, <1>14, <1>15, <1>16 DEF Next

THEOREM TypeInvariant == Spec => []TInv
<1> QED  BY InitTypes, NextTypes, PTL DEF Spec

\* The variables have their types, and a character is put back only between two
\* tokens.
THEOREM TypeCorrect == Spec => []TypeOK
<1>1. TInv => TypeOK
  <2> SUFFICES ASSUME TInv PROVE TypeOK
    OBVIOUS
  <2>1. line \in 1 .. MaxLength + 1
    BY LexerAssumption DEF TInv
  <2> QED  BY <2>1 DEF TInv, TypeOK
<1> QED  BY <1>1, TypeInvariant, PTL

----------------------------------------------------------------------------
(***************************************************************************)
(* The language: a text is cut from its end, which needs no induction but  *)
(* the least index that is missing from a set.                             *)
(***************************************************************************)

\* A set with the start, and with each index that follows one of the set.
LEMMA CountingUp ==
  ASSUME NEW n \in Nat, NEW P, 0 \in P, \A i \in 1 .. n : i - 1 \in P => i \in P
  PROVE  \A i \in 0 .. n : i \in P
<1> DEFINE Missing == {i \in 0 .. n : i \notin P}
           less == OpToRel(<, Nat)
<1>1. SUFFICES ASSUME Missing # {} PROVE FALSE
  OBVIOUS
<1>2. IsWellFoundedOn(less, Nat)  BY NatLessThanWellFounded
<1>3. \A k, m \in Nat : <<k, m>> \notin less => m <= k
  BY DEF OpToRel
<1>4. Missing \subseteq Nat
  OBVIOUS
<1> HIDE DEF less, Missing
<1>5. PICK i \in Missing : \A j \in Missing : <<j, i>> \notin less
  BY <1>1, <1>2, <1>4, WFMin
<1>6. i \in 1 .. n /\ i \notin P /\ i - 1 \in 0 .. n
  BY <1>5 DEF Missing
<1>7. i - 1 \in Missing
  BY <1>6 DEF Missing
<1>8. <<i - 1, i>> \notin less /\ i - 1 \in Nat /\ i \in Nat
  BY <1>5, <1>6, <1>7
<1>9. i <= i - 1
  BY <1>3, <1>8
<1> QED  BY <1>8, <1>9

\* A set of positions has a greatest one.
LEMMA GreatestExists ==
  ASSUME NEW n \in Nat, NEW T, T \subseteq 1 .. n, T # {}
  PROVE  \E i \in T : \A j \in T : j <= i
<1> DEFINE Top(k) == \E i \in T : i <= k /\ \A j \in T : j <= k => j <= i
           P == {k \in 0 .. n : (\A j \in T : j > k) \/ Top(k)}
<1>1. 0 \in P
  OBVIOUS
<1>2. \A k \in 1 .. n : k - 1 \in P => k \in P
  <2> SUFFICES ASSUME NEW k \in 1 .. n, k - 1 \in P PROVE k \in P
    OBVIOUS
  <2>1. CASE k \in T
    <3>1. Top(k)
      BY <2>1
    <3> HIDE DEF Top
    <3> QED  BY <3>1
  <2>2. CASE k \notin T
    <3>1. \A j \in T : j \in Int /\ (j <= k => j <= k - 1) /\ (j > k - 1 => j > k)
      BY <2>2
    <3> QED  BY <3>1
  <2> QED  BY <2>1, <2>2
<1> HIDE DEF P
<1>3. \A k \in 0 .. n : k \in P
  BY <1>1, <1>2, CountingUp
<1>4. (\A j \in T : j > n) \/ Top(n)
  <2>1. n \in 0 .. n  OBVIOUS
  <2>2. n \in P  BY <1>3, <2>1
  <2> QED  BY <2>2 DEF P
<1>5. \A j \in T : j <= n /\ ~ (j > n)
  OBVIOUS
<1> QED  BY <1>4, <1>5

\* The longest lexeme.
LEMMA LongestIs ==
  ASSUME NEW x \in Seq(Alphabet), NEW i \in 1 .. Len(x), LexemeEnds(x, i) # {}
  PROVE  /\ Longest(x, i) \in LexemeEnds(x, i)
         /\ Longest(x, i) \in i .. Len(x)
         /\ \A e \in LexemeEnds(x, i) : e <= Longest(x, i)
<1> DEFINE T == LexemeEnds(x, i)
<1>1. T \subseteq i .. Len(x) /\ Len(x) \in Nat
  BY DEF LexemeEnds
<1> HIDE DEF T
<1>2. T \subseteq 1 .. Len(x)
  BY <1>1
<1>3. \E e \in T : \A f \in T : f <= e
  <2>1. T # {}
    BY DEF T
  <2> QED  BY <1>1, <1>2, <2>1, GreatestExists
<1>4. Longest(x, i) = CHOOSE e \in T : \A f \in T : f <= e
  BY DEF Longest, T
<1>5. Longest(x, i) \in T /\ \A e \in T : e <= Longest(x, i)
  BY <1>3, <1>4
<1> QED  BY <1>1, <1>5 DEF T

\* What is cut off at i, when f is what follows.
CutBody(x, f, i) ==
  IF i > Len(x) THEN [legal |-> TRUE, tokens |-> <<>>]
  ELSE IF LexemeEnds(x, i) = {} THEN [legal |-> FALSE, tokens |-> <<>>]
  ELSE LET j    == Longest(x, i)
           w    == SubSeq(x, i, j)
           rest == f[j + 1]
       IN  [legal  |-> /\ ~IsIllegal(w, IF j < Len(x) THEN x[j + 1] ELSE None)
                       /\ rest.legal,
            tokens |-> IF IsBlank(w) THEN rest.tokens
                       ELSE <<TokenAt(x, w, j)>> \o rest.tokens]

Pieces == [legal : BOOLEAN, tokens : Seq(Token)]

LEMMA BodyLocal ==
  ASSUME NEW x \in Seq(Alphabet), NEW i \in 1 .. Len(x) + 1, NEW f, NEW g,
         \A m \in i + 1 .. Len(x) + 1 : f[m] = g[m]
  PROVE  CutBody(x, f, i) = CutBody(x, g, i)
<1>1. CASE i > Len(x) \/ LexemeEnds(x, i) = {}
  BY <1>1 DEF CutBody
<1>2. CASE ~ (i > Len(x)) /\ LexemeEnds(x, i) # {}
  <2>1. i \in 1 .. Len(x) /\ Len(x) \in Nat
    BY <1>2
  <2>2. Longest(x, i) \in i .. Len(x)
    BY <1>2, <2>1, LongestIs
  <2>3. Longest(x, i) + 1 \in i + 1 .. Len(x) + 1
    BY <2>1, <2>2
  <2>4. f[Longest(x, i) + 1] = g[Longest(x, i) + 1]
    BY <2>3
  <2> QED  BY <2>4 DEF CutBody
<1> QED  BY <1>1, <1>2

\* The token of a text has its types.
LEMMA TokenType ==
  ASSUME NEW x \in Seq(Alphabet), NEW w \in Seq(Alphabet), w # <<>>, NEW j \in Int
  PROVE  TokenAt(x, w, j) \in Token
<1>1. \A k \in Int : LineAt(x, k) \in Nat
  <2> TAKE k \in Int
  <2> DEFINE S == {l \in DOMAIN x : l <= k /\ x[l] = "\n"}
  <2>1. IsFiniteSet(DOMAIN x)
    BY FS_Interval
  <2>2. IsFiniteSet(S)
    BY <2>1, FS_Subset
  <2> HIDE DEF S
  <2>3. Cardinality(S) \in Nat
    BY <2>2, FS_CardinalityType
  <2>4. LineAt(x, k) = 1 + Cardinality(S)
    BY DEF LineAt, S
  <2> QED  BY <2>3, <2>4
<1>2. w[1] \in Alphabet
  OBVIOUS
<1>3. Kind(w) \in Alphabet \cup {"int", "keyword", "identifier", "local"}
  <2>1. ~ (IsInteger(w) /\ IsKeyword(w)) /\ ~ (IsInteger(w) /\ IsName(w))
        /\ ~ (IsInteger(w) /\ IsLocal(w)) /\ ~ (IsName(w) /\ IsLocal(w))
        /\ ~ (IsKeyword(w) /\ IsLocal(w))
    BY Kinds DEF Digit, Oct, Letter
  <2> QED  BY <1>2, <2>1 DEF Kind
<1>4. w \in Seq(Chars) /\ [i \in DOMAIN w |-> upper(w[i])] \in Seq(Chars)
  <2>1. \A i \in DOMAIN w : w[i] \in Chars /\ upper(w[i]) \in Chars
    BY DEF Chars, upper
  <2>2. \A i \in 1 .. Len(w) : w[i] \in Chars /\ upper(w[i]) \in Chars
    BY <2>1
  <2> HIDE DEF Chars
  <2> QED  BY <2>2
<1>5. LineAt(x, IF IsSingle(w) THEN j ELSE j + 1) \in Nat
  BY <1>1
<1> QED  BY <1>3, <1>4, <1>5 DEF TokenAt, Token

LEMMA BodyType ==
  ASSUME NEW x \in Seq(Alphabet), NEW i \in 1 .. Len(x) + 1, NEW f,
         \A m \in i + 1 .. Len(x) + 1 : f[m] \in Pieces
  PROVE  CutBody(x, f, i) \in Pieces
<1>1. CASE i > Len(x) \/ LexemeEnds(x, i) = {}
  <2>1. <<>> \in Seq(Token)
    OBVIOUS
  <2> QED  BY <1>1, <2>1 DEF CutBody, Pieces
<1>2. CASE ~ (i > Len(x)) /\ LexemeEnds(x, i) # {}
  <2> DEFINE j == Longest(x, i)
             w == SubSeq(x, i, j)
             T == TokenAt(x, w, j)
             rest == f[j + 1]
             wrong == IsIllegal(w, IF j < Len(x) THEN x[j + 1] ELSE None)
  <2>1. i \in 1 .. Len(x) /\ Len(x) \in Nat
    BY <1>2
  <2>2. j \in i .. Len(x)
    BY <1>2, <2>1, LongestIs
  <2> HIDE DEF j
  <2>3. j + 1 \in i + 1 .. Len(x) + 1 /\ j \in Nat /\ i \in Nat /\ 1 <= i /\ i <= j + 1 /\ j <= Len(x)
    BY <2>1, <2>2
  <2>4. w \in Seq(Alphabet) /\ w # <<>>
    <3>1. w \in Seq(Alphabet) /\ Len(w) = j - i + 1
      BY <2>3, PartIs
    <3> QED  BY <2>1, <2>2, <3>1
  <2> HIDE DEF w
  <2>5. T \in Token
    BY <2>3, <2>4, TokenType
  <2>6. rest \in Pieces
    BY <2>3
  <2> HIDE DEF T, rest, wrong
  <2>7. rest.legal \in BOOLEAN /\ rest.tokens \in Seq(Token)
    BY <2>6 DEF Pieces
  <2>8. <<T>> \o rest.tokens \in Seq(Token)
    <3> HIDE DEF Token
    <3> QED  BY <2>5, <2>7
  <2>9. CutBody(x, f, i) = [legal  |-> ~ wrong /\ rest.legal,
                            tokens |-> IF IsBlank(w) THEN rest.tokens
                                       ELSE <<T>> \o rest.tokens]
    BY <1>2 DEF CutBody, j, w, T, rest, wrong
  <2>10. (IF IsBlank(w) THEN rest.tokens ELSE <<T>> \o rest.tokens) \in Seq(Token)
    BY <2>7, <2>8
  <2>11. (~ wrong /\ rest.legal) \in BOOLEAN
    OBVIOUS
  <2> DEFINE a == ~ wrong /\ rest.legal
             b == IF IsBlank(w) THEN rest.tokens ELSE <<T>> \o rest.tokens
  <2>12. CutBody(x, f, i) = [legal |-> a, tokens |-> b] /\ a \in BOOLEAN /\ b \in Seq(Token)
    BY <2>9, <2>10, <2>11
  <2> HIDE DEF a, b
  <2> QED  BY <2>12 DEF Pieces
<1> QED  BY <1>1, <1>2

\* A text has a cut.
LEMMA CutIs ==
  ASSUME NEW x \in Seq(Alphabet)
  PROVE  \A i \in 1 .. Len(x) + 1 : Cut(x)[i] = CutBody(x, Cut(x), i)
<1> DEFINE n == Len(x)
           Good(k, f) == \A i \in n + 1 - k .. n + 1 : f[i] = CutBody(x, f, i)
           P == {k \in 0 .. n : \E f : Good(k, f)}
           Is(f) == f = [i \in 1 .. n + 1 |-> CutBody(x, f, i)]
<1>1. n \in Nat
  OBVIOUS
<1>2. 0 \in P
  <2> DEFINE f == [i \in 1 .. n + 1 |-> [legal |-> TRUE, tokens |-> <<>>]]
  <2>1. \A i \in n + 1 - 0 .. n + 1 : i = n + 1 /\ i \in 1 .. n + 1 /\ i > n
    BY <1>1
  <2>2. Good(0, f)
    BY <2>1 DEF CutBody
  <2> HIDE DEF f, Good
  <2> QED  BY <1>1, <2>2
<1>3. \A k \in 1 .. n : k - 1 \in P => k \in P
  <2> SUFFICES ASSUME NEW k \in 1 .. n, k - 1 \in P PROVE k \in P
    OBVIOUS
  <2> HIDE DEF n
  <2>1. PICK f : Good(k - 1, f)
    OBVIOUS
  <2> DEFINE m == n + 1 - k
             g == [i \in 1 .. n + 1 |-> IF i = m THEN CutBody(x, f, m) ELSE f[i]]
  <2>2. m \in 1 .. n /\ \A i \in m + 1 .. n + 1 : i \in n + 1 - (k - 1) .. n + 1 /\ i # m /\ i \in 1 .. n + 1
    BY <1>1
  <2>3. \A i \in m .. n + 1 : i \in 1 .. n + 1 /\ (i # m => i \in m + 1 .. n + 1)
    BY <1>1, <2>2
  <2> HIDE DEF m
  <2>4. g[m] = CutBody(x, f, m) /\ \A i \in m + 1 .. n + 1 : g[i] = f[i]
    <3>1. m \in 1 .. n + 1
      BY <1>1, <2>2
    <3> QED  BY <2>2, <3>1
  <2> HIDE DEF g
  <2>5. \A i \in m .. n + 1 : CutBody(x, g, i) = CutBody(x, f, i)
    <3> TAKE i \in m .. n + 1
    <3>1. i \in 1 .. n + 1 /\ \A l \in i + 1 .. n + 1 : l \in m + 1 .. n + 1
      BY <1>1, <2>2, <2>3
    <3>2. \A l \in i + 1 .. n + 1 : g[l] = f[l]
      BY <2>4, <3>1
    <3> QED  BY <3>1, <3>2, BodyLocal DEF n
  <2>6. \A i \in m + 1 .. n + 1 : f[i] = CutBody(x, f, i)
    BY <2>1, <2>2
  <2>7. \A i \in m .. n + 1 : g[i] = CutBody(x, g, i)
    <3> TAKE i \in m .. n + 1
    <3>1. CASE i = m
      BY <2>4, <2>5, <3>1
    <3>2. CASE i # m
      BY <2>3, <2>4, <2>5, <2>6, <3>2
    <3> QED  BY <3>1, <3>2
  <2>8. Good(k, g)
    BY <2>7 DEF m
  <2> HIDE DEF Good
  <2> QED  BY <2>8
<1>4. PICK f : Good(n, f)
  <2> HIDE DEF P
  <2> HIDE DEF n
  <2>1. n \in P
    <3>1. \A k \in 0 .. n : k \in P
      BY <1>1, <1>2, <1>3, CountingUp
    <3> QED  BY <1>1, <3>1
  <2> HIDE DEF Good
  <2> QED  BY <2>1 DEF P
<1> HIDE DEF n
<1>5. \A i \in 1 .. n + 1 : f[i] = CutBody(x, f, i)
  <2>1. n + 1 - n = 1
    BY <1>1
  <2> QED  BY <1>4, <2>1
<1> DEFINE h == [i \in 1 .. n + 1 |-> f[i]]
           c == CHOOSE e : Is(e)
<1>6. Is(h)
  <2>1. \A i \in 1 .. n + 1 : CutBody(x, h, i) = CutBody(x, f, i)
    <3> TAKE i \in 1 .. n + 1
    <3>1. \A l \in i + 1 .. n + 1 : h[l] = f[l]
      <4> TAKE l \in i + 1 .. n + 1
      <4>1. l \in 1 .. n + 1
        BY <1>1
      <4> QED  BY <4>1
    <3> HIDE DEF h
    <3> QED  BY <3>1, BodyLocal DEF n
  <2>2. h = [i \in 1 .. n + 1 |-> CutBody(x, f, i)]
    BY <1>5
  <2>3. [i \in 1 .. n + 1 |-> CutBody(x, h, i)] = [i \in 1 .. n + 1 |-> CutBody(x, f, i)]
    <3> HIDE DEF h
    <3> QED  BY <2>1
  <2> QED  BY <2>2, <2>3
<1>7. Is(c)
  <2> HIDE DEF Is, h
  <2> QED  BY <1>6
<1>8. Cut(x) = c
  BY DEF Cut, CutBody, n
<1> HIDE DEF c
<1>9. \A i \in 1 .. n + 1 : c[i] = CutBody(x, c, i)
  BY <1>7
<1> QED  BY <1>8, <1>9 DEF n

LEMMA CutType ==
  ASSUME NEW x \in Seq(Alphabet), NEW i \in 1 .. Len(x) + 1
  PROVE  Cut(x)[i] \in Pieces
<1> DEFINE n == Len(x)
           c == Cut(x)
           P == {k \in 0 .. n : \A m \in n + 1 - k .. n + 1 : c[m] \in Pieces}
<1>1. n \in Nat /\ i \in 1 .. n + 1
  OBVIOUS
<1>2. \A m \in 1 .. n + 1 : c[m] = CutBody(x, c, m)
  BY CutIs
<1>3. ASSUME NEW m \in 1 .. n + 1, \A l \in m + 1 .. n + 1 : c[l] \in Pieces
      PROVE  c[m] \in Pieces
  <2> HIDE DEF c
  <2>1. CutBody(x, c, m) \in Pieces
    BY <1>3, BodyType
  <2> QED  BY <1>2, <2>1
<1> HIDE DEF n, c
<1>4. 0 \in P
  <2>1. n + 1 \in 1 .. n + 1 /\ ~ \E l \in n + 1 + 1 .. n + 1 : TRUE
    BY <1>1
  <2>2. c[n + 1] \in Pieces
    BY <1>3, <2>1
  <2>3. \A m \in n + 1 - 0 .. n + 1 : m = n + 1
    BY <1>1
  <2> QED  BY <1>1, <2>2, <2>3
<1>5. \A k \in 1 .. n : k - 1 \in P => k \in P
  <2> SUFFICES ASSUME NEW k \in 1 .. n, k - 1 \in P PROVE k \in P
    OBVIOUS
  <2> DEFINE o == n + 1 - k
  <2>1. o \in 1 .. n + 1 /\ o + 1 = n + 1 - (k - 1)
    BY <1>1
  <2>2. \A l \in o + 1 .. n + 1 : c[l] \in Pieces
    BY <2>1
  <2> HIDE DEF o
  <2>3. c[o] \in Pieces
    BY <1>3, <2>1, <2>2
  <2>4. \A m \in o .. n + 1 : m = o \/ m \in o + 1 .. n + 1
    BY <1>1, <2>1
  <2>5. \A m \in o .. n + 1 : c[m] \in Pieces
    BY <2>2, <2>3, <2>4
  <2> QED  BY <2>5 DEF o
<1> HIDE DEF P
<1>6. n \in P
  <2>1. \A k \in 0 .. n : k \in P
    BY <1>1, <1>4, <1>5, CountingUp
  <2> QED  BY <1>1, <2>1
<1>7. i \in n + 1 - n .. n + 1
  BY <1>1
<1> QED  BY <1>6, <1>7 DEF P, c

\* The three ways in which a text goes on at i.
LEMMA CutEnd ==
  ASSUME NEW x \in Seq(Alphabet)
  PROVE  Cut(x)[Len(x) + 1] = [legal |-> TRUE, tokens |-> <<>>]
<1>1. Len(x) + 1 \in 1 .. Len(x) + 1 /\ Len(x) + 1 > Len(x)
  OBVIOUS
<1>2. Cut(x)[Len(x) + 1] = CutBody(x, Cut(x), Len(x) + 1)
  BY <1>1, CutIs
<1> QED  BY <1>1, <1>2 DEF CutBody

LEMMA CutNone ==
  ASSUME NEW x \in Seq(Alphabet), NEW i \in 1 .. Len(x),
         \A j \in i .. Len(x) : ~ IsLexeme(SubSeq(x, i, j))
  PROVE  ~ Cut(x)[i].legal
<1>1. LexemeEnds(x, i) = {}
  BY DEF LexemeEnds
<1>2. i \in 1 .. Len(x) + 1 /\ ~ (i > Len(x))
  OBVIOUS
<1>3. Cut(x)[i] = CutBody(x, Cut(x), i)
  BY <1>2, CutIs
<1>4. Cut(x)[i] = [legal |-> FALSE, tokens |-> <<>>]
  BY <1>1, <1>2, <1>3 DEF CutBody
<1> QED  BY <1>4

LEMMA CutAt ==
  ASSUME NEW x \in Seq(Alphabet), NEW i \in 1 .. Len(x), NEW j \in i .. Len(x),
         IsLexeme(SubSeq(x, i, j)),
         \A e \in j + 1 .. Len(x) : ~ IsLexeme(SubSeq(x, i, e))
  PROVE  LET w == SubSeq(x, i, j)
             rest == Cut(x)[j + 1]
         IN  Cut(x)[i] =
               [legal  |-> /\ ~ IsIllegal(w, IF j < Len(x) THEN x[j + 1] ELSE None)
                           /\ rest.legal,
                tokens |-> IF IsBlank(w) THEN rest.tokens
                           ELSE <<TokenAt(x, w, j)>> \o rest.tokens]
<1>1. j \in LexemeEnds(x, i) /\ i \in 1 .. Len(x) + 1 /\ ~ (i > Len(x))
  BY DEF LexemeEnds
<1>2. Longest(x, i) \in LexemeEnds(x, i) /\ j <= Longest(x, i) /\ Longest(x, i) \in i .. Len(x)
  BY <1>1, LongestIs
<1>3. IsLexeme(SubSeq(x, i, Longest(x, i)))
  BY <1>2 DEF LexemeEnds
<1>4. Longest(x, i) = j
  <2> DEFINE l == Longest(x, i)
  <2> HIDE DEF l
  <2>1. l \in i .. Len(x) /\ j <= l /\ IsLexeme(SubSeq(x, i, l))
    BY <1>2, <1>3 DEF l
  <2>2. l \notin j + 1 .. Len(x)
    BY <2>1
  <2>3. l = j
    BY <2>1, <2>2
  <2> QED  BY <2>3 DEF l
<1>5. Cut(x)[i] = CutBody(x, Cut(x), i)
  BY <1>1, CutIs
<1> QED  BY <1>1, <1>4, <1>5 DEF CutBody

----------------------------------------------------------------------------
(***************************************************************************)
(* Lines, and the lexemes that no token is made of.                        *)
(***************************************************************************)

\* The line feeds of x up to j.
LineFeeds(x, j) == {k \in DOMAIN x : k <= j /\ x[k] = "\n"}

LEMMA LineFeedsFinite ==
  ASSUME NEW x \in Seq(Alphabet), NEW j
  PROVE  IsFiniteSet(LineFeeds(x, j)) /\ LineAt(x, j) = 1 + Cardinality(LineFeeds(x, j))
<1>1. IsFiniteSet(DOMAIN x)
  BY FS_Interval
<1> QED  BY <1>1, FS_Subset DEF LineFeeds, LineAt

LEMMA LineFirst == LineAt(<<>>, Len(<<>>)) = 1
<1>1. LineFeeds(<<>>, Len(<<>>)) = {} /\ <<>> \in Seq(Alphabet)
  BY DEF LineFeeds
<1>2. Cardinality({}) = 0
  BY FS_EmptySet
<1>3. LineAt(<<>>, Len(<<>>)) = 1 + Cardinality(LineFeeds(<<>>, Len(<<>>)))
  BY <1>1, LineFeedsFinite
<1>4. LineAt(<<>>, Len(<<>>)) = 1 + 0
  BY <1>1, <1>2, <1>3
<1> QED  BY <1>4

LEMMA LineAppend ==
  ASSUME NEW x \in Seq(Alphabet), NEW c \in Alphabet
  PROVE  LineAt(Append(x, c), Len(x) + 1) = LineAt(x, Len(x)) + IF c = "\n" THEN 1 ELSE 0
<1> DEFINE n == Len(x)
           y == Append(x, c)
           S == LineFeeds(x, n)
<1>1. /\ n \in Nat /\ y \in Seq(Alphabet) /\ DOMAIN y = 1 .. n + 1 /\ DOMAIN x = 1 .. n
      /\ y[n + 1] = c /\ \A k \in 1 .. n : y[k] = x[k]
  OBVIOUS
<1>2. IsFiniteSet(S) /\ Cardinality(S) \in Nat /\ LineAt(x, n) = 1 + Cardinality(S)
  BY LineFeedsFinite, FS_CardinalityType
<1>3. LineAt(y, n + 1) = 1 + Cardinality(LineFeeds(y, n + 1))
  BY <1>1, LineFeedsFinite
<1>4. S = {k \in 1 .. n : x[k] = "\n"}
  BY <1>1 DEF LineFeeds
<1>5. LineFeeds(y, n + 1) = {k \in 1 .. n + 1 : y[k] = "\n"}
  BY <1>1 DEF LineFeeds
<1> HIDE DEF n, y, S
<1>6. LineFeeds(y, n + 1) = IF c = "\n" THEN S \cup {n + 1} ELSE S
  <2>1. \A k : k \in 1 .. n + 1 <=> k \in 1 .. n \/ k = n + 1
    BY <1>1
  <2> QED  BY <1>1, <1>4, <1>5, <2>1
<1>7. n + 1 \notin S
  BY <1>1, <1>4
<1>8. Cardinality(S \cup {n + 1}) = Cardinality(S) + 1
  BY <1>2, <1>7, FS_AddElement
<1> QED  BY <1>2, <1>3, <1>6, <1>8 DEF n, y

LEMMA LinePrefix ==
  ASSUME NEW x \in Seq(Alphabet), NEW y \in Seq(Alphabet), NEW j \in Nat,
         j <= Len(x), j <= Len(y), \A k \in 1 .. j : x[k] = y[k]
  PROVE  LineAt(x, j) = LineAt(y, j)
<1>1. \A z \in Seq(Alphabet) : j <= Len(z) => LineFeeds(z, j) = {k \in 1 .. j : z[k] = "\n"}
  <2> TAKE z \in Seq(Alphabet)
  <2> HAVE j <= Len(z)
  <2>1. \A k : k \in DOMAIN z /\ k <= j <=> k \in 1 .. j
    OBVIOUS
  <2> QED  BY <2>1 DEF LineFeeds
<1>2. LineFeeds(x, j) = LineFeeds(y, j)
  BY <1>1
<1> QED  BY <1>2, LineFeedsFinite

LEMMA LineBehind ==
  ASSUME NEW x \in Seq(Alphabet)
  PROVE  LineAt(x, Len(x) + 1) = LineAt(x, Len(x))
<1>1. LineFeeds(x, Len(x) + 1) = LineFeeds(x, Len(x))
  BY DEF LineFeeds
<1> QED  BY <1>1, LineFeedsFinite

LEMMA SingleLexeme ==
  ASSUME NEW w \in Seq(Alphabet), w # <<>>, w[1] \in Single, Len(w) = 1, NEW next
  PROVE  /\ IsLexeme(w) /\ IsSingle(w) /\ ~ IsBlank(w) /\ ~ IsInteger(w)
         /\ ~ IsIllegal(w, next) /\ Kind(w) = w[1]
<1>1. w[1] \notin Letter \cup Digit \cup Space \cup {"_", "-", "@", ".", "/"}
  BY DEF Single, Special, Letter, Digit, Oct, Space
<1>2. /\ ~ IsInteger(w) /\ ~ IsName(w) /\ ~ IsLocal(w) /\ ~ IsDotWord(w) /\ ~ IsComment(w)
      /\ ~ IsBlank(w) /\ ~ IsKeyword(w) /\ IsSingle(w)
  BY <1>1, Kinds
<1> QED  BY <1>2 DEF IsLexeme, IsIllegal, Kind

LEMMA SpaceLexeme ==
  ASSUME NEW w \in Seq(Alphabet), w # <<>>, w[1] \in Space, Len(w) = 1, NEW next
  PROVE  IsLexeme(w) /\ IsBlank(w) /\ ~ IsIllegal(w, next)
<1>1. w[1] \notin Digit \cup {"-", "."}
  BY DEF Digit, Oct, Space
<1>2. ~ IsInteger(w) /\ ~ IsDotWord(w) /\ IsBlank(w)
  BY <1>1, Kinds
<1> QED  BY <1>2 DEF IsLexeme, IsIllegal

LEMMA CommentLexeme ==
  ASSUME NEW w \in Seq(Alphabet), IsComment(w), NEW next
  PROVE  IsLexeme(w) /\ IsBlank(w) /\ ~ IsIllegal(w, next)
<1>1. w # <<>>
  BY DEF IsComment
<1>2. w[1] \notin Digit \cup {"-", "."}
  BY <1>1, Kinds DEF Digit, Oct
<1>3. ~ IsInteger(w) /\ ~ IsDotWord(w) /\ IsBlank(w)
  BY <1>1, <1>2, Kinds
<1> QED  BY <1>3 DEF IsLexeme, IsIllegal

----------------------------------------------------------------------------
(***************************************************************************)
(* How a text goes on behind its first p characters.                       *)
(***************************************************************************)

\* The text x has the tokens t from p to q.
Leads(x, p, t, q) ==
  LET rest == Cut(x)[q + 1]
  IN  Cut(x)[p + 1] = [legal |-> rest.legal, tokens |-> t \o rest.tokens]

\* What follows q in the text.
Behind(x, q) == IF q < Len(x) THEN x[q + 1] ELSE None

\* The part of the text behind p up to q.
LEMMA PartBehind ==
  ASSUME NEW x \in Seq(Alphabet), NEW p \in Nat, NEW q \in p + 1 .. Len(x)
  PROVE  LET w == SubSeq(x, p + 1, q)
         IN  /\ w \in Seq(Alphabet) /\ w # <<>> /\ Len(w) = q - p
             /\ w[1] = x[p + 1]
             /\ \A k \in 1 .. q - p : w[k] = x[p + k]
<1> DEFINE w == SubSeq(x, p + 1, q)
<1>1. /\ p + 1 \in Nat /\ q \in Nat /\ 1 <= p + 1 /\ p + 1 <= q + 1 /\ q <= Len(x)
      /\ q - (p + 1) + 1 = q - p
  OBVIOUS
<1>2. /\ w \in Seq(Alphabet) /\ Len(w) = q - (p + 1) + 1
      /\ \A k \in 1 .. q - (p + 1) + 1 : w[k] = x[p + 1 + k - 1]
  BY <1>1, PartIs
<1> HIDE DEF w
<1>3. \A k \in 1 .. q - p : w[k] = x[p + k]
  <2> TAKE k \in 1 .. q - p
  <2>1. p + 1 + k - 1 = p + k
    OBVIOUS
  <2> QED  BY <1>1, <1>2, <2>1
<1>4. w # <<>> /\ 1 \in 1 .. q - p
  BY <1>1, <1>2
<1> QED  BY <1>1, <1>2, <1>3, <1>4 DEF w

\* A lexeme that nothing makes longer, where it is legal.
LEMMA Settles ==
  ASSUME NEW x \in Seq(Alphabet), NEW p \in Nat, NEW q \in p + 1 .. Len(x),
         IsLexeme(SubSeq(x, p + 1, q)),
         \A e \in q + 1 .. Len(x) : ~ IsLexeme(SubSeq(x, p + 1, e)),
         ~ IsIllegal(SubSeq(x, p + 1, q), Behind(x, q))
  PROVE  Leads(x, p, IF IsBlank(SubSeq(x, p + 1, q)) THEN <<>>
                     ELSE <<TokenAt(x, SubSeq(x, p + 1, q), q)>>, q)
<1> DEFINE i == p + 1
           w == SubSeq(x, p + 1, q)
           rest == Cut(x)[q + 1]
<1>1. p + 1 \in 1 .. Len(x) /\ q + 1 \in 1 .. Len(x) + 1
  OBVIOUS
<1>2. rest \in Pieces
  BY <1>1, CutType
<1>3. Cut(x)[p + 1] =
               [legal  |-> ~ IsIllegal(w, Behind(x, q)) /\ rest.legal,
                tokens |-> IF IsBlank(w) THEN rest.tokens
                           ELSE <<TokenAt(x, w, q)>> \o rest.tokens]
  <2>1. i \in 1 .. Len(x) /\ q \in i .. Len(x) /\ IsLexeme(SubSeq(x, i, q))
        /\ \A e \in q + 1 .. Len(x) : ~ IsLexeme(SubSeq(x, i, e))
    BY <1>1
  <2> HIDE DEF i
  <2>2. Cut(x)[i] =
               [legal  |-> /\ ~ IsIllegal(SubSeq(x, i, q), IF q < Len(x) THEN x[q + 1] ELSE None)
                           /\ rest.legal,
                tokens |-> IF IsBlank(SubSeq(x, i, q)) THEN rest.tokens
                           ELSE <<TokenAt(x, SubSeq(x, i, q), q)>> \o rest.tokens]
    BY <2>1, CutAt
  <2> QED  BY <2>2 DEF Behind, i
<1> HIDE DEF rest, w
<1>4. rest.legal \in BOOLEAN /\ rest.tokens \in Seq(Token)
  BY <1>2 DEF Pieces
<1>5. (~ IsIllegal(w, Behind(x, q)) /\ rest.legal) = rest.legal
  BY <1>4 DEF w
<1>6. <<>> \o rest.tokens = rest.tokens
  <2> HIDE DEF Token
  <2> QED  BY <1>4
<1> DEFINE t == IF IsBlank(w) THEN <<>> ELSE <<TokenAt(x, w, q)>>
<1>7. (IF IsBlank(w) THEN rest.tokens ELSE <<TokenAt(x, w, q)>> \o rest.tokens)
        = t \o rest.tokens
  BY <1>6
<1>8. Leads(x, p, t, q)
  <2> HIDE DEF t
  <2> QED  BY <1>3, <1>5, <1>7 DEF Leads, rest
<1> QED  BY <1>8 DEF w

LEMMA LeadsOn ==
  ASSUME NEW x \in Seq(Alphabet), NEW p \in Nat, NEW q \in Nat, NEW r \in 0 .. Len(x),
         NEW s \in Seq(Token), NEW t \in Seq(Token),
         Leads(x, p, s, q), Leads(x, q, t, r)
  PROVE  Leads(x, p, s \o t, r)
<1> DEFINE rest == Cut(x)[r + 1]
<1>1. rest.tokens \in Seq(Token)
  <2>1. r + 1 \in 1 .. Len(x) + 1
    OBVIOUS
  <2>2. rest \in Pieces
    BY <2>1, CutType
  <2> QED  BY <2>2 DEF Pieces
<1>2. Cut(x)[q + 1] = [legal |-> rest.legal, tokens |-> t \o rest.tokens]
  BY DEF Leads
<1>3. Cut(x)[p + 1] = [legal |-> Cut(x)[q + 1].legal, tokens |-> s \o Cut(x)[q + 1].tokens]
  BY DEF Leads
<1> HIDE DEF rest
<1>4. s \o (t \o rest.tokens) = (s \o t) \o rest.tokens
  <2> DEFINE u == rest.tokens
  <2>1. u \in Seq(Token)
    BY <1>1
  <2> HIDE DEF u
  <2>2. (s \o t) \o u = s \o (t \o u)
    BY <2>1, ConcatAssociative
  <2> QED  BY <2>2 DEF u
<1>5. Cut(x)[p + 1] = [legal |-> rest.legal, tokens |-> (s \o t) \o rest.tokens]
  <2>1. Cut(x)[q + 1].legal = rest.legal /\ Cut(x)[q + 1].tokens = t \o rest.tokens
    BY <1>2
  <2> QED  BY <1>3, <1>4, <2>1
<1> QED  BY <1>5 DEF Leads, rest

LEMMA AtSpace ==
  ASSUME NEW x \in Seq(Alphabet), NEW p \in Nat, p < Len(x), x[p + 1] \in Space
  PROVE  Leads(x, p, <<>>, p + 1)
<1> DEFINE q == p + 1
           w == SubSeq(x, p + 1, q)
<1>1. q \in p + 1 .. Len(x) /\ q - p = 1 /\ x[q] \in Space
  OBVIOUS
<1> HIDE DEF q
<1>2. w \in Seq(Alphabet) /\ w # <<>> /\ Len(w) = 1 /\ w[1] \in Space
  BY <1>1, PartBehind DEF q
<1>3. IsLexeme(w) /\ IsBlank(w) /\ ~ IsIllegal(w, Behind(x, q))
  <2> HIDE DEF w
  <2> QED  BY <1>2, SpaceLexeme
<1>4. \A e \in q + 1 .. Len(x) : ~ IsLexeme(SubSeq(x, p + 1, e))
  <2> TAKE e \in q + 1 .. Len(x)
  <2> DEFINE v == SubSeq(x, p + 1, e)
  <2>1. e \in p + 1 .. Len(x) /\ e - p > 1
    BY <1>1
  <2>2. v \in Seq(Alphabet) /\ v # <<>> /\ Len(v) = e - p /\ v[1] = x[p + 1]
    BY <2>1, PartBehind
  <2> HIDE DEF v
  <2>3. Len(v) # 1 /\ v[1] \in Space \cup Single
    BY <2>1, <2>2
  <2>4. ~ IsLexeme(v)
    BY <2>2, <2>3, Lexemes
  <2> QED  BY <2>4 DEF v
<1>5. Leads(x, p, <<>>, q)
  BY <1>1, <1>3, <1>4, Settles
<1> QED  BY <1>5 DEF q

LEMMA AtSingle ==
  ASSUME NEW x \in Seq(Alphabet), NEW p \in Nat, p < Len(x), x[p + 1] \in Single
  PROVE  Leads(x, p, <<[type |-> x[p + 1], text |-> <<x[p + 1]>>, line |-> LineAt(x, p + 1)]>>, p + 1)
<1> DEFINE q == p + 1
           w == SubSeq(x, p + 1, q)
           c == x[p + 1]
<1>1. q \in p + 1 .. Len(x) /\ q - p = 1 /\ x[q] = c /\ c \in Single
  OBVIOUS
<1> HIDE DEF q, c
<1>2. w \in Seq(Alphabet) /\ w # <<>> /\ Len(w) = 1 /\ w[1] = c
  BY <1>1, PartBehind DEF c
<1>3. /\ IsLexeme(w) /\ ~ IsBlank(w) /\ ~ IsIllegal(w, Behind(x, q))
      /\ IsSingle(w) /\ ~ IsInteger(w) /\ Kind(w) = c
  <2> HIDE DEF w
  <2> QED  BY <1>1, <1>2, SingleLexeme
<1>4. \A e \in q + 1 .. Len(x) : ~ IsLexeme(SubSeq(x, p + 1, e))
  <2> TAKE e \in q + 1 .. Len(x)
  <2> DEFINE v == SubSeq(x, p + 1, e)
  <2>1. e \in p + 1 .. Len(x) /\ e - p > 1
    BY <1>1
  <2>2. v \in Seq(Alphabet) /\ v # <<>> /\ Len(v) = e - p /\ v[1] = c
    BY <2>1, PartBehind DEF c
  <2> HIDE DEF v
  <2>3. Len(v) # 1 /\ v[1] \in Space \cup Single
    BY <1>1, <2>1, <2>2
  <2>4. ~ IsLexeme(v)
    BY <2>2, <2>3, Lexemes
  <2> QED  BY <2>4 DEF v
<1>5. Leads(x, p, <<TokenAt(x, w, q)>>, q)
  BY <1>1, <1>3, <1>4, Settles
<1>6. w = <<c>>
  <2> HIDE DEF w
  <2> QED  BY <1>2
<1>7. TokenAt(x, w, q) = [type |-> c, text |-> <<c>>, line |-> LineAt(x, q)]
  <2> HIDE DEF w
  <2> QED  BY <1>3, <1>6 DEF TokenAt
<1>8. Leads(x, p, <<[type |-> c, text |-> <<c>>, line |-> LineAt(x, q)]>>, q)
  BY <1>5, <1>7
<1> QED  BY <1>8 DEF q, c

LEMMA NotLexeme ==
  ASSUME NEW x \in Seq(Alphabet), NEW p \in Nat, p < Len(x),
         Begins(x[p + 1]) = "none", x[p + 1] \notin Space \cup Single \cup {"/"}
  PROVE  ~ Cut(x)[p + 1].legal
<1>1. \A e \in p + 1 .. Len(x) : ~ IsLexeme(SubSeq(x, p + 1, e))
  <2> TAKE e \in p + 1 .. Len(x)
  <2> DEFINE v == SubSeq(x, p + 1, e)
  <2>1. v \in Seq(Alphabet) /\ v # <<>> /\ v[1] = x[p + 1]
    BY PartBehind
  <2> HIDE DEF v
  <2>2. ~ IsLexeme(v)
    BY <2>1, Lexemes
  <2> QED  BY <2>2 DEF v
<1>2. p + 1 \in 1 .. Len(x)
  OBVIOUS
<1> QED  BY <1>1, <1>2, CutNone

LEMMA AtComment ==
  ASSUME NEW x \in Seq(Alphabet), NEW p \in Nat, NEW q \in p + 2 .. Len(x),
         x[p + 1] = "/", x[p + 2] = "/", \A k \in p + 1 .. q : x[k] # "\n",
         q < Len(x) => x[q + 1] = "\n"
  PROVE  Leads(x, p, <<>>, q)
<1> DEFINE w == SubSeq(x, p + 1, q)
<1>1. q \in p + 1 .. Len(x) /\ q \in Nat /\ Len(x) \in Nat
  OBVIOUS
<1>2. w \in Seq(Alphabet) /\ w # <<>> /\ Len(w) = q - p /\ \A k \in 1 .. q - p : w[k] = x[p + k]
  BY <1>1, PartBehind
<1> HIDE DEF w
<1>3. IsComment(w)
  <2>1. Len(w) > 1 /\ w[1] = "/" /\ w[2] = "/"
    BY <1>1, <1>2
  <2>2. \A k \in DOMAIN w : w[k] # "\n"
    <3> TAKE k \in DOMAIN w
    <3>1. k \in 1 .. q - p /\ p + k \in p + 1 .. q
      BY <1>1, <1>2
    <3> QED  BY <1>2, <3>1
  <2> QED  BY <2>1, <2>2 DEF IsComment
<1>4. IsLexeme(w) /\ IsBlank(w) /\ ~ IsIllegal(w, Behind(x, q))
  BY <1>2, <1>3, CommentLexeme
<1>5. \A e \in q + 1 .. Len(x) : ~ IsLexeme(SubSeq(x, p + 1, e))
  <2> TAKE e \in q + 1 .. Len(x)
  <2> DEFINE v == SubSeq(x, p + 1, e)
             l == q - p + 1
  <2>1. e \in p + 1 .. Len(x) /\ l \in 1 .. e - p /\ p + l = q + 1 /\ 1 \in 1 .. e - p /\ q < Len(x)
    BY <1>1
  <2>2. v \in Seq(Alphabet) /\ v # <<>> /\ Len(v) = e - p /\ v[1] = x[p + 1]
        /\ \A k \in 1 .. e - p : v[k] = x[p + k]
    BY <2>1, PartBehind
  <2> HIDE DEF v, l
  <2>3. v[l] = "\n" /\ l \in DOMAIN v
    BY <2>1, <2>2
  <2>4. ~ IsComment(v)
    BY <2>3 DEF IsComment
  <2>5. ~ IsLexeme(v)
    BY <2>2, <2>4, Lexemes
  <2> QED  BY <2>5 DEF v
<1> QED  BY <1>1, <1>4, <1>5, Settles DEF w

LEMMA NotComment ==
  ASSUME NEW x \in Seq(Alphabet), NEW p \in Nat, p < Len(x),
         x[p + 1] = "/", p + 1 < Len(x) => x[p + 2] # "/"
  PROVE  ~ Cut(x)[p + 1].legal
<1>1. \A e \in p + 1 .. Len(x) : ~ IsLexeme(SubSeq(x, p + 1, e))
  <2> TAKE e \in p + 1 .. Len(x)
  <2> DEFINE v == SubSeq(x, p + 1, e)
  <2>1. v \in Seq(Alphabet) /\ v # <<>> /\ v[1] = "/" /\ Len(v) = e - p
        /\ \A k \in 1 .. e - p : v[k] = x[p + k]
    BY PartBehind
  <2> HIDE DEF v
  <2>2. Len(v) > 1 => v[2] # "/"
    <3> HAVE Len(v) > 1
    <3>1. 2 \in 1 .. e - p /\ p + 1 < Len(x)
      BY <2>1
    <3> QED  BY <2>1, <3>1
  <2>3. ~ IsLexeme(v)
    BY <2>1, <2>2, Lexemes DEF IsComment
  <2> QED  BY <2>3 DEF v
<1>2. p + 1 \in 1 .. Len(x)
  OBVIOUS
<1> QED  BY <1>1, <1>2, CutNone

\* A lexeme that nothing makes longer, where it is illegal.
LEMMA Spoils ==
  ASSUME NEW x \in Seq(Alphabet), NEW i \in 1 .. Len(x), NEW j \in i .. Len(x),
         IsLexeme(SubSeq(x, i, j)),
         \A e \in j + 1 .. Len(x) : ~ IsLexeme(SubSeq(x, i, e)),
         IsIllegal(SubSeq(x, i, j), Behind(x, j))
  PROVE  ~ Cut(x)[i].legal
<1> DEFINE w == SubSeq(x, i, j)
           rest == Cut(x)[j + 1]
           wrong == IsIllegal(w, Behind(x, j))
           a == ~ wrong /\ rest.legal
           b == IF IsBlank(w) THEN rest.tokens ELSE <<TokenAt(x, w, j)>> \o rest.tokens
<1>1. Cut(x)[i] = [legal |-> a, tokens |-> b]
  BY CutAt DEF Behind
<1>2. a = FALSE
  OBVIOUS
<1> HIDE DEF a, b
<1> QED  BY <1>1, <1>2

\* No lexeme is longer than what the scanner has read.
LEMMA NothingLonger ==
  ASSUME NEW x \in Seq(Alphabet), NEW p \in Nat, NEW q \in p + 1 .. Len(x),
         NEW s \in InToken, NEW t, Scanned(s, t, SubSeq(x, p + 1, q)),
         q < Len(x) => Continues(s, x[q + 1]) = "none"
  PROVE  \A e \in q + 1 .. Len(x) : ~ IsLexeme(SubSeq(x, p + 1, e))
<1> DEFINE u == SubSeq(x, p + 1, q)
<1> TAKE e \in q + 1 .. Len(x)
<1> DEFINE w == SubSeq(x, p + 1, e)
<1>1. e \in p + 1 .. Len(x) /\ q < Len(x) /\ Len(x) \in Nat /\ q \in Nat
  OBVIOUS
<1>2. u \in Seq(Alphabet) /\ Len(u) = q - p /\ \A k \in 1 .. q - p : u[k] = x[p + k]
  BY PartBehind
<1>3. w \in Seq(Alphabet) /\ Len(w) = e - p /\ \A k \in 1 .. e - p : w[k] = x[p + k]
  BY <1>1, PartBehind
<1>4. Scanned(s, t, u)
  OBVIOUS
<1> HIDE DEF u, w
<1>5. Len(w) > Len(u) /\ \A k \in 1 .. Len(u) : w[k] = u[k]
  <2>1. e - p > q - p /\ \A k \in 1 .. q - p : k \in 1 .. e - p
    BY <1>1
  <2>2. Len(w) > Len(u)
    BY <1>2, <1>3, <2>1
  <2>3. \A k \in 1 .. q - p : w[k] = u[k]
    BY <1>2, <1>3, <2>1
  <2> QED  BY <1>2, <2>2, <2>3
<1>6. w[Len(u) + 1] = x[q + 1]
  <2> DEFINE l == Len(u) + 1
  <2>1. l \in 1 .. e - p /\ p + l = q + 1
    BY <1>1, <1>2
  <2> HIDE DEF l
  <2>2. w[l] = x[q + 1]
    BY <1>3, <2>1
  <2> QED  BY <2>2 DEF l
<1>7. ~ IsLexeme(w)
  BY <1>1, <1>3, <1>4, <1>5, <1>6, NoLonger
<1> QED  BY <1>7 DEF w

LEMMA AtToken ==
  ASSUME NEW x \in Seq(Alphabet), NEW p \in Nat, NEW q \in p + 1 .. Len(x),
         NEW s \in InToken, NEW t, Scanned(s, t, SubSeq(x, p + 1, q)),
         q < Len(x) => Continues(s, x[q + 1]) = "none",
         Ends(s, t, Behind(x, q))
  PROVE  Leads(x, p, <<[type |-> TypeOf(s, t), text |-> t, line |-> LineAt(x, q + 1)]>>, q)
<1> DEFINE u == SubSeq(x, p + 1, q)
<1>1. Scanned(s, t, u)
  OBVIOUS
<1>2. \A e \in q + 1 .. Len(x) : ~ IsLexeme(SubSeq(x, p + 1, e))
  BY NothingLonger
<1> HIDE DEF u
<1>3. /\ IsLexeme(u) /\ ~ IsBlank(u) /\ ~ IsSingle(u) /\ ~ IsIllegal(u, Behind(x, q))
      /\ TypeOf(s, t) = Kind(u)
      /\ t = IF IsInteger(u) THEN [i \in DOMAIN u |-> upper(u[i])] ELSE u
  BY <1>1, Complete
<1>4. TokenAt(x, u, q) = [type |-> TypeOf(s, t), text |-> t, line |-> LineAt(x, q + 1)]
  BY <1>3 DEF TokenAt
<1>5. Leads(x, p, <<TokenAt(x, u, q)>>, q)
  BY <1>2, <1>3, Settles DEF u
<1> QED  BY <1>4, <1>5

LEMMA NotToken ==
  ASSUME NEW x \in Seq(Alphabet), NEW p \in Nat, NEW q \in p + 1 .. Len(x),
         NEW s \in InToken, NEW t, Scanned(s, t, SubSeq(x, p + 1, q)),
         q < Len(x) => Continues(s, x[q + 1]) = "none",
         ~ Ends(s, t, Behind(x, q))
  PROVE  ~ Cut(x)[p + 1].legal
<1> DEFINE i == p + 1
           u == SubSeq(x, p + 1, q)
<1>1. Scanned(s, t, u) /\ Len(u) = q - p /\ u \in Seq(Alphabet)
      /\ \A k \in 1 .. q - p : u[k] = x[p + k]
  BY PartBehind
<1>2. \A e \in q + 1 .. Len(x) : ~ IsLexeme(SubSeq(x, i, e))
  BY NothingLonger
<1>3. i \in 1 .. Len(x) /\ q \in i .. Len(x) /\ q \in Nat /\ Len(x) \in Nat
  OBVIOUS
<1>4. \/ IsLexeme(u) /\ IsIllegal(u, Behind(x, q))
      \/ s = "minus" /\ Len(u) = 1 /\ ~ IsLexeme(u)
      \/ s = "x" /\ ~ IsLexeme(u)
  <2> HIDE DEF u
  <2> QED  BY <1>1, Incomplete
<1>5. u = SubSeq(x, i, q)
  OBVIOUS
<1>6. p = i - 1 /\ i \in Nat
  OBVIOUS
<1> HIDE DEF u, i
<1>7. CASE IsLexeme(u) /\ IsIllegal(u, Behind(x, q))
  <2>1. IsLexeme(SubSeq(x, i, q)) /\ IsIllegal(SubSeq(x, i, q), Behind(x, q))
    BY <1>5, <1>7
  <2>2. ~ Cut(x)[i].legal
    BY <1>2, <1>3, <2>1, Spoils
  <2> QED  BY <2>2 DEF i
<1>8. CASE s = "minus" /\ Len(u) = 1 /\ ~ IsLexeme(u)
  <2>1. q = i
    <3>1. q - p = 1
      BY <1>1, <1>8
    <3> QED  BY <1>3, <1>6, <3>1
  <2>2. \A e \in i .. Len(x) : ~ IsLexeme(SubSeq(x, i, e))
    <3> TAKE e \in i .. Len(x)
    <3>1. e = q \/ e \in q + 1 .. Len(x)
      BY <1>3, <2>1
    <3> QED  BY <1>2, <1>5, <1>8, <3>1
  <2>3. ~ Cut(x)[i].legal
    BY <1>3, <2>2, CutNone
  <2> QED  BY <2>3 DEF i
<1>9. CASE s = "x" /\ ~ IsLexeme(u)
  <2> DEFINE o == q - 1
             w == SubSeq(x, p + 1, o)
  <2>1. Len(u) >= 2
    <3>1. Len(u) = Signed(u) + 2
      BY <1>1, <1>9 DEF Scanned
    <3>2. Signed(u) \in {0, 1}
      BY DEF Signed
    <3> QED  BY <3>1, <3>2
  <2>2. o \in p + 1 .. Len(x) /\ o - p = Len(u) - 1 /\ o + 1 = q /\ o < Len(x) /\ o \in i .. Len(x)
    BY <1>1, <1>3, <1>6, <2>1
  <2> HIDE DEF o
  <2>3. w \in Seq(Alphabet) /\ Len(w) = o - p /\ \A k \in 1 .. o - p : w[k] = x[p + k]
    BY <2>2, PartBehind
  <2>4. w = SubSeq(x, i, o)
    BY DEF i
  <2> HIDE DEF w
  <2>5. Len(w) + 1 = Len(u) /\ \A k \in 1 .. Len(w) : w[k] = u[k]
    BY <1>1, <1>3, <2>2, <2>3
  <2>6. u[Len(u)] = Behind(x, o)
    <3> DEFINE l == Len(u)
    <3>1. l \in 1 .. q - p /\ p + l = q
      BY <1>1, <1>3, <2>1
    <3> HIDE DEF l
    <3>2. u[l] = x[q]
      BY <1>1, <3>1
    <3> QED  BY <2>2, <3>2 DEF Behind, l
  <2>7. IsLexeme(w) /\ IsIllegal(w, Behind(x, o))
    BY <1>1, <1>9, <2>3, <2>5, <2>6, ZeroBeforeX
  <2>8. \A e \in o + 1 .. Len(x) : ~ IsLexeme(SubSeq(x, i, e))
    <3> TAKE e \in o + 1 .. Len(x)
    <3>1. e = q \/ e \in q + 1 .. Len(x)
      BY <1>3, <2>2
    <3> QED  BY <1>2, <1>5, <1>9, <3>1
  <2>9. IsLexeme(SubSeq(x, i, o)) /\ IsIllegal(SubSeq(x, i, o), Behind(x, o))
    BY <2>4, <2>7
  <2>10. ~ Cut(x)[i].legal
    BY <1>3, <2>2, <2>8, <2>9, Spoils
  <2> QED  BY <2>10 DEF i
<1> QED  BY <1>4, <1>7, <1>8, <1>9

----------------------------------------------------------------------------
(***************************************************************************)
(* What the scanner has done, whatever follows.  At p ends the text that   *)
(* is settled: however the input goes on, its first tokens are those that  *)
(* have been returned, and the rest is cut from p on.                      *)
(***************************************************************************)

\* The text full is one that may still be read, when x has been.
Extends(full, x, end) ==
  /\ full \in Seq(Alphabet) /\ Len(x) <= Len(full)
  /\ \A k \in 1 .. Len(x) : full[k] = x[k]
  /\ end = "ended" => full = x

Sofar(p) == \A full \in Seq(Alphabet) : Extends(full, input, stream) => Leads(full, 0, tokens, p)

\* What has been read behind p.
At(p) ==
  LET n == Len(input)
  IN  /\ state = "start" => p = n - Held
      /\ state = "slash" => n = p + 1 /\ input[p + 1] = "/"
      /\ state = "comment" => /\ n >= p + 2 /\ input[p + 1] = "/" /\ input[p + 2] = "/"
                              /\ \A k \in p + 1 .. n : input[k] # "\n"
      /\ state \in InToken => n >= p + 1 /\ Scanned(state, text, SubSeq(input, p + 1, n))
      /\ state = "end" => p = n

IInv ==
  /\ TInv
  /\ line = LineAt(input, Len(input))
  /\ ~ exhausted /\ stream # "broken" =>
       /\ state = "error" => ~ Cut(input)[1].legal
       /\ state # "error" => \E p \in Nat : At(p) /\ Sofar(p)

\* A text that may be read after a step may be read before it.
LEMMA Reads ==
  ASSUME TInv, NEW c, NextChar(c), stream # "broken",
         NEW full \in Seq(Alphabet), Extends(full, input', stream')
  PROVE  LET q == Len(input) - Held
         IN  /\ Extends(full, input, stream)
             /\ q \in 0 .. Len(full)
             /\ \A k \in 1 .. q : full[k] = input[k]
             /\ Behind(full, q) = c
             /\ c # None => q < Len(full) /\ full[q + 1] = c
             /\ c = None => q = Len(full) /\ full = input
<1> DEFINE q == Len(input) - Held
<1>1. /\ input \in Seq(Alphabet) /\ Len(input) \in Nat
      /\ lookahead # None => input # <<>> /\ lookahead = input[Len(input)]
      /\ input # <<>> => Len(input) > 0
  BY DEF TInv
<1>2. /\ q \in Nat /\ Len(full) \in Nat /\ Held \in {0, 1} /\ q + Held = Len(input)
      /\ input' \in Seq(Alphabet)
  BY <1>1, NextCharDoes DEF Held
<1>3. /\ Len(input') <= Len(full) /\ \A k \in 1 .. Len(input') : full[k] = input'[k]
      /\ stream' = "ended" => full = input'
  BY DEF Extends
<1> HIDE DEF q
<1>4. CASE /\ lookahead # None
           /\ c = lookahead
           /\ UNCHANGED <<input, stream, line>>
  <2>1. Held = 1 /\ q + 1 = Len(input) /\ c = input[Len(input)] /\ c # None
    BY <1>1, <1>2, <1>4 DEF Held, q
  <2>2. Extends(full, input, stream)
    BY <1>3, <1>4 DEF Extends
  <2>3. q < Len(full) /\ full[q + 1] = c /\ q \in 0 .. Len(full)
    BY <1>2, <1>3, <1>4, <2>1
  <2>4. \A k \in 1 .. q : full[k] = input[k]
    <3>1. \A k \in 1 .. q : k \in 1 .. Len(input)
      BY <1>2, <2>1
    <3> QED  BY <1>3, <1>4, <3>1
  <2> QED  BY <2>1, <2>2, <2>3, <2>4 DEF Behind, q
<1>5. CASE /\ lookahead = None
           /\ stream = "open" /\ Len(input) < MaxLength
           /\ c \in Alphabet
           /\ input' = Append(input, c)
           /\ line' = line + IF c = "\n" THEN 1 ELSE 0
           /\ UNCHANGED stream
  <2>1. Held = 0 /\ q = Len(input) /\ c # None
    BY <1>2, <1>5, LexerAssumption DEF Held
  <2>2. /\ Len(input') = q + 1 /\ input'[q + 1] = c
        /\ \A k \in 1 .. q : input'[k] = input[k]
    BY <1>1, <1>5, <2>1
  <2>3. q < Len(full) /\ full[q + 1] = c /\ q \in 0 .. Len(full)
    BY <1>2, <1>3, <2>2
  <2>4. \A k \in 1 .. q : full[k] = input[k]
    <3>1. \A k \in 1 .. q : k \in 1 .. Len(input')
      BY <1>2, <2>2
    <3> QED  BY <1>3, <2>2, <3>1
  <2>5. Extends(full, input, stream)
    <3>1. Len(input) <= Len(full)
      BY <1>2, <2>1, <2>3
    <3> QED  BY <1>5, <2>1, <2>4, <3>1 DEF Extends
  <2> QED  BY <2>1, <2>3, <2>4, <2>5 DEF Behind, q
<1>6. CASE lookahead = None /\ c = None /\ stream' = "ended" /\ UNCHANGED <<input, line>>
  <2>1. Held = 0 /\ q = Len(input) /\ full = input
    BY <1>2, <1>3, <1>6 DEF Held
  <2>2. Extends(full, input, stream)
    BY <1>1, <2>1 DEF Extends
  <2>3. q \in 0 .. Len(full) /\ ~ (q < Len(full)) /\ q = Len(full)
    BY <1>2, <2>1
  <2> QED  BY <1>6, <2>1, <2>2, <2>3 DEF Behind, q
<1> QED  BY <1>4, <1>5, <1>6 DEF NextChar

\* The input may be all there is.
LEMMA Itself ==
  ASSUME NEW x \in Seq(Alphabet), NEW end
  PROVE  Extends(x, x, end)
BY DEF Extends

LEMMA LineKept ==
  ASSUME TInv, line = LineAt(input, Len(input)), NEW c, NextChar(c)
  PROVE  line' = LineAt(input', Len(input'))
<1>1. CASE UNCHANGED <<input, line>>
  BY <1>1
<1>2. CASE /\ c \in Alphabet
           /\ input' = Append(input, c)
           /\ line' = line + IF c = "\n" THEN 1 ELSE 0
  <2>1. input \in Seq(Alphabet)
    BY DEF TInv
  <2>2. Len(input') = Len(input) + 1
    BY <1>2, <2>1
  <2>3. LineAt(Append(input, c), Len(input) + 1) = line'
    BY <1>2, <2>1, LineAppend
  <2> QED  BY <1>2, <2>2, <2>3
<1> QED  BY <1>1, <1>2 DEF NextChar

\* Nothing is settled, or the tokens t up to q.
LEMMA Stays ==
  ASSUME TInv, NEW c, NextChar(c), stream # "broken", NEW p \in Nat, Sofar(p), tokens' = tokens
  PROVE  Sofar(p)'
<1> SUFFICES ASSUME NEW full \in Seq(Alphabet), Extends(full, input', stream')
             PROVE  Leads(full, 0, tokens', p)
  BY DEF Sofar
<1>1. Extends(full, input, stream)
  BY Reads
<1> QED  BY <1>1 DEF Sofar

LEMMA Advances ==
  ASSUME TInv, NEW c, NextChar(c), stream # "broken", NEW p \in Nat, Sofar(p),
         NEW t \in Seq(Token), tokens' = tokens \o t, NEW q \in Nat,
         \A full \in Seq(Alphabet) : Extends(full, input', stream') =>
            q <= Len(full) /\ Leads(full, p, t, q)
  PROVE  Sofar(q)'
<1> SUFFICES ASSUME NEW full \in Seq(Alphabet), Extends(full, input', stream')
             PROVE  Leads(full, 0, tokens', q)
  BY DEF Sofar
<1>1. Leads(full, 0, tokens, p)
  BY Reads DEF Sofar
<1>2. q \in 0 .. Len(full) /\ Leads(full, p, t, q)
  OBVIOUS
<1>3. tokens \in Seq(Token) /\ 0 \in Nat
  BY DEF TInv
<1>4. Leads(full, 0, tokens \o t, q)
  BY <1>1, <1>2, <1>3, LeadsOn
<1> QED  BY <1>4

LEMMA Refuses ==
  ASSUME TInv, NEW c, NextChar(c), stream # "broken", NEW p \in Nat, Sofar(p),
         ~ Cut(input')[p + 1].legal
  PROVE  ~ Cut(input')[1].legal
<1> DEFINE x == input'
<1>1. x \in Seq(Alphabet)
  BY NextCharDoes
<1>2. Extends(x, input', stream')
  BY <1>1, Itself
<1>3. Extends(x, input, stream)
  BY <1>1, <1>2, Reads
<1>4. Leads(x, 0, tokens, p)
  BY <1>1, <1>3 DEF Sofar
<1>5. Cut(x)[0 + 1].legal = Cut(x)[p + 1].legal
  BY <1>4 DEF Leads
<1> QED  BY <1>5

----------------------------------------------------------------------------
(***************************************************************************)
(* The actions.                                                            *)
(***************************************************************************)

\* What a step knows that is no failure of memory or of the stream.
Good == TInv /\ ~ exhausted /\ stream # "broken"

\* What has been settled before a step.
LEMMA Before ==
  ASSUME IInv, Good, state # "error"
  PROVE  \E p \in Nat : At(p) /\ Sofar(p)
BY DEF IInv, Good

\* What is to be shown of a step.
After == /\ state = "error" => ~ Cut(input)[1].legal
         /\ state # "error" => \E p \in Nat : At(p) /\ Sofar(p)

LEMMA SpaceSkipped ==
  ASSUME IInv, Good, SkipSpace
  PROVE  After'
<1>0. TInv /\ stream # "broken" /\ state = "start"
  BY DEF Good, SkipSpace
<1>1. PICK c \in Space : NextChar(c)
  BY DEF SkipSpace
<1>2. PICK p \in Nat : At(p) /\ Sofar(p)
  BY <1>0, Before
<1>3. c # None /\ p = Len(input) - Held
  BY <1>0, <1>2 DEF Space, None, At
<1>4. Len(input') = p + 1
  BY <1>0, <1>1, <1>3, NextCharDoes
<1>5. <<>> \in Seq(Token) /\ tokens' = tokens \o <<>> /\ p + 1 \in Nat
  <2>1. tokens \in Seq(Token)
    BY <1>0 DEF TInv
  <2> HIDE DEF Token
  <2> QED  BY <2>1 DEF SkipSpace
<1>6. \A full \in Seq(Alphabet) : Extends(full, input', stream') =>
         p + 1 <= Len(full) /\ Leads(full, p, <<>>, p + 1)
  <2> SUFFICES ASSUME NEW full \in Seq(Alphabet), Extends(full, input', stream')
               PROVE  p + 1 <= Len(full) /\ Leads(full, p, <<>>, p + 1)
    OBVIOUS
  <2>1. p < Len(full) /\ full[p + 1] = c
    BY <1>0, <1>1, <1>3, Reads
  <2> QED  BY <1>1, <2>1, AtSpace
<1>7. Sofar(p + 1)'
  BY <1>0, <1>1, <1>2, <1>5, <1>6, Advances
<1>8. At(p + 1)'
  <2>1. state' = "start" /\ lookahead' = None /\ "start" \notin InToken
    BY <1>0 DEF SkipSpace, InToken, Numbers
  <2>2. Held' = 0
    BY <2>1 DEF Held
  <2> QED  BY <1>4, <2>1, <2>2 DEF At
<1>9. state' # "error" /\ p + 1 \in Nat
  BY <1>0 DEF SkipSpace
<1> QED  BY <1>7, <1>8, <1>9 DEF After

LEMMA FileEnded ==
  ASSUME IInv, Good, EndOfFile
  PROVE  After'
<1>0. TInv /\ stream # "broken" /\ state = "start" /\ NextChar(None)
      /\ state' = "end" /\ tokens' = tokens
  BY DEF Good, EndOfFile, GoTo
<1>1. PICK p \in Nat : At(p) /\ Sofar(p)
  BY <1>0, Before
<1>2. Sofar(p)'
  BY <1>0, <1>1, Stays
<1>3. At(p)'
  <2>1. p = Len(input) - Held /\ "end" \notin InToken
    BY <1>0, <1>1 DEF At, InToken, Numbers
  <2>2. input' = input /\ Held = 0
    BY <1>0, NextCharDoes, LexerAssumption
  <2>3. Len(input) \in Nat
    BY <1>0 DEF TInv
  <2>4. p = Len(input')
    BY <2>1, <2>2, <2>3
  <2> QED  BY <1>0, <2>1, <2>4 DEF At
<1> QED  BY <1>0, <1>2, <1>3 DEF After

LEMMA CommentBegun ==
  ASSUME IInv, Good, BeginComment
  PROVE  After'
<1>0. TInv /\ stream # "broken" /\ state = "start" /\ NextChar("/")
      /\ state' = "slash" /\ tokens' = tokens
  BY DEF Good, BeginComment, GoTo
<1>1. PICK p \in Nat : At(p) /\ Sofar(p)
  BY <1>0, Before
<1>2. Sofar(p)'
  BY <1>0, <1>1, Stays
<1>3. At(p)'
  <2>1. p = Len(input) - Held /\ "slash" \notin InToken /\ "/" # None
    BY <1>0, <1>1 DEF At, InToken, Numbers, None
  <2>2. Len(input') = p + 1 /\ input'[Len(input')] = "/"
    BY <1>0, <2>1, NextCharDoes
  <2> QED  BY <1>0, <2>1, <2>2 DEF At
<1> QED  BY <1>0, <1>2, <1>3 DEF After

LEMMA TokenBegun ==
  ASSUME IInv, Good, BeginToken, ~ exhausted'
  PROVE  After'
<1>0. TInv /\ stream # "broken" /\ state = "start" /\ tokens' = tokens
  BY DEF Good, BeginToken
<1>1. PICK c \in Alphabet : /\ Begins(c) # "none"
                            /\ NextChar(c)
                            /\ GoTo(Begins(c))
                            /\ AppendByte(<<>>, c)
  BY DEF BeginToken
<1>2. PICK p \in Nat : At(p) /\ Sofar(p)
  BY <1>0, Before
<1>3. Sofar(p)'
  BY <1>0, <1>1, <1>2, Stays
<1>4. At(p)'
  <2> DEFINE s == Begins(c)
  <2>1. p = Len(input) - Held /\ c # None
    BY <1>0, <1>2, LexerAssumption DEF At
  <2>2. Len(input') = p + 1 /\ input'[Len(input')] = c /\ input' \in Seq(Alphabet)
    BY <1>0, <1>1, <2>1, NextCharDoes
  <2>3. text' = <<c>>
    BY <1>1 DEF AppendByte
  <2>4. Scanned(s, <<c>>, <<c>>) /\ s \in InToken
    BY <1>1, ScannedFirst
  <2> DEFINE n == p + 1
             u == SubSeq(input', p + 1, n)
  <2>5. u = <<c>>
    <3>1. n \in p + 1 .. Len(input') /\ n - p = 1
      BY <2>2
    <3> HIDE DEF n
    <3>2. u \in Seq(Alphabet) /\ Len(u) = 1 /\ u[1] = input'[p + 1]
      BY <2>2, <3>1, PartBehind
    <3> HIDE DEF u
    <3> QED  BY <2>2, <3>2
  <2>6. s \notin {"start", "slash", "comment", "end"} /\ state' = s
    BY <1>1, <2>4 DEF InToken, Numbers, GoTo
  <2>7. Scanned(state', text', SubSeq(input', p + 1, Len(input')))
    BY <2>2, <2>3, <2>4, <2>5, <2>6
  <2> HIDE DEF s
  <2> QED  BY <2>2, <2>6, <2>7 DEF At
<1>5. state' # "error"
  BY <1>1, ScannedFirst DEF GoTo, InToken, Numbers
<1> QED  BY <1>3, <1>4, <1>5 DEF After

LEMMA SingleScanned ==
  ASSUME IInv, Good, AsmScanSingle, ~ exhausted'
  PROVE  After'
<1>0. TInv /\ stream # "broken" /\ state = "start"
  BY DEF Good, AsmScanSingle
<1>1. PICK c \in Single : NextChar(c) /\ Return(c, <<c>>, None)
  BY DEF AsmScanSingle
<1>2. PICK p \in Nat : At(p) /\ Sofar(p)
  BY <1>0, Before
<1>3. c # None /\ p = Len(input) - Held
  BY <1>0, <1>1, <1>2 DEF Single, Special, None, At
<1>4. Len(input') = p + 1 /\ c \in Alphabet /\ input' \in Seq(Alphabet) /\ line' \in Nat
  BY <1>0, <1>1, <1>3, NextCharDoes
<1> DEFINE T == [type |-> c, text |-> <<c>>, line |-> line']
<1>5. tokens' = Append(tokens, T) /\ state' = "start" /\ lookahead' = None
  BY <1>1 DEF Return
<1>6. T \in Token
  <2>1. <<c>> \in Seq(Chars)
    BY <1>4, ByteType
  <2> QED  BY <1>4, <2>1 DEF Token
<1>7. line' = LineAt(input', p + 1)
  BY <1>0, <1>1, <1>4, LineKept DEF IInv
<1>8. \A full \in Seq(Alphabet) : Extends(full, input', stream') =>
         p + 1 <= Len(full) /\ Leads(full, p, <<T>>, p + 1)
  <2> SUFFICES ASSUME NEW full \in Seq(Alphabet), Extends(full, input', stream')
               PROVE  p + 1 <= Len(full) /\ Leads(full, p, <<T>>, p + 1)
    OBVIOUS
  <2>1. p < Len(full) /\ full[p + 1] = c
    BY <1>0, <1>1, <1>3, Reads
  <2>2. LineAt(input', p + 1) = LineAt(full, p + 1)
    <3>1. \A k \in 1 .. p + 1 : input'[k] = full[k]
      BY <1>4 DEF Extends
    <3>2. p + 1 \in Nat /\ p + 1 <= Len(full) /\ p + 1 <= Len(input')
      BY <1>4, <2>1
    <3> QED  BY <1>4, <3>1, <3>2, LinePrefix
  <2>3. Leads(full, p, <<[type |-> c, text |-> <<c>>, line |-> LineAt(full, p + 1)]>>, p + 1)
    BY <1>1, <2>1, AtSingle
  <2>4. T = [type |-> c, text |-> <<c>>, line |-> LineAt(full, p + 1)]
    BY <1>7, <2>2
  <2> QED  BY <2>1, <2>3, <2>4
<1> HIDE DEF T
<1>9. <<T>> \in Seq(Token) /\ tokens' = tokens \o <<T>>
  <2>1. tokens \in Seq(Token)
    BY <1>0 DEF TInv
  <2> HIDE DEF Token
  <2> QED  BY <1>5, <1>6, <2>1
<1>10. Sofar(p + 1)'
  <2>1. p + 1 \in Nat
    OBVIOUS
  <2> QED  BY <1>0, <1>1, <1>2, <1>8, <1>9, <2>1, Advances
<1>11. At(p + 1)'
  <2>1. Held' = 0 /\ "start" \notin InToken
    BY <1>5 DEF Held, InToken, Numbers
  <2> QED  BY <1>4, <1>5, <2>1 DEF At
<1>12. p + 1 \in Nat /\ state' # "error"
  BY <1>5
<1> QED  BY <1>10, <1>11, <1>12 DEF After

LEMMA NotRecognized ==
  ASSUME IInv, Good, Unrecognized
  PROVE  After'
<1>0. TInv /\ stream # "broken" /\ state = "start" /\ state' = "error"
  BY DEF Good, Unrecognized, Fail, GoTo
<1>1. PICK c \in Alphabet : /\ Begins(c) = "none" /\ c \notin Space \cup Single \cup {"/"}
                            /\ NextChar(c)
  BY DEF Unrecognized
<1>2. PICK p \in Nat : At(p) /\ Sofar(p)
  BY <1>0, Before
<1>3. c # None /\ p = Len(input) - Held
  BY <1>0, <1>2, LexerAssumption DEF At
<1>4. Len(input') = p + 1 /\ input'[p + 1] = c /\ input' \in Seq(Alphabet)
  BY <1>0, <1>1, <1>3, NextCharDoes
<1>5. ~ Cut(input')[p + 1].legal
  <2> DEFINE x == input'
  <2>1. x \in Seq(Alphabet) /\ p < Len(x) /\ x[p + 1] = c
    BY <1>4
  <2> HIDE DEF x
  <2>2. ~ Cut(x)[p + 1].legal
    BY <1>1, <2>1, NotLexeme
  <2> QED  BY <2>2 DEF x
<1>6. ~ Cut(input')[1].legal
  BY <1>0, <1>1, <1>2, <1>5, Refuses
<1> QED  BY <1>0, <1>6 DEF After

\* No character is held within a comment or a token.
LEMMA NothingHeld ==
  ASSUME TInv, state # "start"
  PROVE  Held = 0 /\ input \in Seq(Alphabet) /\ Len(input) \in Nat /\ Len(input) - Held = Len(input)
BY DEF TInv, Held

LEMMA SlashSeen ==
  ASSUME IInv, Good, SecondSlash
  PROVE  After'
<1>0. TInv /\ stream # "broken" /\ state = "slash"
  BY DEF Good, SecondSlash
<1>1. PICK c \in Alphabet \cup {None} :
         /\ NextChar(c)
         /\ \/ c = "/" /\ GoTo("comment") /\ UNCHANGED <<text, tokens, exhausted>>
            \/ c # "/" /\ Fail
  BY DEF SecondSlash
<1>2. PICK p \in Nat : At(p) /\ Sofar(p)
  BY <1>0, Before
<1> DEFINE n == Len(input)
<1>3. n = p + 1 /\ input[p + 1] = "/" /\ n - Held = n /\ n \in Nat
  BY <1>0, <1>2, NothingHeld DEF At
<1> HIDE DEF n
<1>4. /\ input' \in Seq(Alphabet) /\ input'[p + 1] = "/" /\ p < Len(input')
      /\ c # None => Len(input') = p + 2 /\ input'[p + 2] = c
      /\ c = None => Len(input') = p + 1
  <2>1. \/ /\ c # None /\ input' \in Seq(Alphabet) /\ Len(input') = n + 1
           /\ c = input'[Len(input')] /\ \A k \in 1 .. n : input'[k] = input[k]
        \/ c = None /\ input' = input /\ input' \in Seq(Alphabet)
    BY <1>0, <1>1, <1>3, NextCharDoes DEF n
  <2>2. p + 1 \in 1 .. n /\ n + 1 = p + 2
    BY <1>3
  <2>3. Len(input) = n
    BY DEF n
  <2> QED  BY <1>3, <2>1, <2>2, <2>3
<1>5. CASE c = "/" /\ GoTo("comment") /\ UNCHANGED <<text, tokens, exhausted>>
  <2>1. Sofar(p)'
    BY <1>0, <1>1, <1>2, <1>5, Stays
  <2>2. state' = "comment" /\ "comment" \notin InToken
    BY <1>5 DEF GoTo, InToken, Numbers
  <2>3. Len(input') = p + 2 /\ input'[p + 2] = "/"
    BY <1>4, <1>5 DEF None
  <2>4. \A k \in p + 1 .. Len(input') : input'[k] # "\n"
    <3> TAKE k \in p + 1 .. Len(input')
    <3>1. k = p + 1 \/ k = p + 2
      BY <2>3
    <3> QED  BY <1>4, <2>3, <3>1
  <2>5. At(p)'
    BY <1>4, <2>2, <2>3, <2>4 DEF At
  <2> QED  BY <2>1, <2>2, <2>5 DEF After
<1>6. CASE c # "/" /\ Fail
  <2> DEFINE x == input'
  <2>1. x \in Seq(Alphabet) /\ p < Len(x) /\ x[p + 1] = "/" /\ (p + 1 < Len(x) => x[p + 2] # "/")
    BY <1>4, <1>6
  <2> HIDE DEF x
  <2>2. ~ Cut(x)[p + 1].legal
    BY <2>1, NotComment
  <2>3. ~ Cut(input')[1].legal
    BY <1>0, <1>1, <1>2, <2>2, Refuses DEF x
  <2>4. state' = "error"
    BY <1>6 DEF Fail, GoTo
  <2> QED  BY <2>3, <2>4 DEF After
<1> QED  BY <1>1, <1>5, <1>6

LEMMA CommentSkipped ==
  ASSUME IInv, Good, SkipComment
  PROVE  After'
<1>0. TInv /\ stream # "broken" /\ state = "comment" /\ tokens' = tokens
  BY DEF Good, SkipComment
<1>1. PICK c \in Alphabet \cup {None} :
         /\ NextChar(c)
         /\ lookahead' = IF c = "\n" THEN c ELSE None
         /\ state' = IF c \in {"\n", None} THEN "start" ELSE state
  BY DEF SkipComment
<1>2. PICK p \in Nat : At(p) /\ Sofar(p)
  BY <1>0, Before
<1>3. PICK n \in Nat : n = Len(input) /\ Len(input) - Held = n
  BY <1>0, NothingHeld
<1>4. /\ n >= p + 2 /\ input[p + 1] = "/" /\ input[p + 2] = "/"
      /\ \A k \in p + 1 .. n : input[k] # "\n"
  BY <1>0, <1>2, <1>3 DEF At
<1>5. /\ input' \in Seq(Alphabet)
      /\ c # None => Len(input') = n + 1 /\ c = input'[n + 1] /\ \A k \in 1 .. n : input'[k] = input[k]
      /\ c = None => Len(input') = n
  BY <1>0, <1>1, <1>3, NextCharDoes
<1>6. CASE c \notin {"\n", None}
  <2>1. Sofar(p)'
    BY <1>0, <1>1, <1>2, Stays
  <2>2. state' = "comment" /\ "comment" \notin InToken
    BY <1>0, <1>1, <1>6 DEF InToken, Numbers
  <2>3. Len(input') >= p + 2 /\ input'[p + 1] = "/" /\ input'[p + 2] = "/"
    BY <1>4, <1>3, <1>5, <1>6
  <2>4. \A k \in p + 1 .. Len(input') : input'[k] # "\n"
    <3> TAKE k \in p + 1 .. Len(input')
    <3>1. k = n + 1 \/ (k \in p + 1 .. n /\ k \in 1 .. n)
      BY <1>3, <1>5, <1>6
    <3> QED  BY <1>4, <1>5, <1>6, <3>1
  <2>5. At(p)'
    BY <2>2, <2>3, <2>4 DEF At
  <2> QED  BY <2>1, <2>2, <2>5 DEF After
<1>7. CASE c \in {"\n", None}
  <2>1. <<>> \in Seq(Token) /\ tokens' = tokens \o <<>>
    <3>1. tokens \in Seq(Token)
      BY <1>0 DEF TInv
    <3> HIDE DEF Token
    <3> QED  BY <1>0, <3>1
  <2>2. \A full \in Seq(Alphabet) : Extends(full, input', stream') =>
           n <= Len(full) /\ Leads(full, p, <<>>, n)
    <3> SUFFICES ASSUME NEW full \in Seq(Alphabet), Extends(full, input', stream')
                 PROVE  n <= Len(full) /\ Leads(full, p, <<>>, n)
      OBVIOUS
    <3>1. /\ n \in 0 .. Len(full) /\ \A k \in 1 .. n : full[k] = input[k]
          /\ c # None => n < Len(full) /\ full[n + 1] = c
          /\ c = None => n = Len(full)
      BY <1>0, <1>1, <1>3, Reads
    <3>2. n \in p + 2 .. Len(full) /\ p + 1 \in 1 .. n /\ p + 2 \in 1 .. n
          /\ (\A k \in p + 1 .. n : k \in 1 .. n) /\ n <= Len(full)
      BY <1>4, <1>3, <3>1
    <3>3. full[p + 1] = "/" /\ full[p + 2] = "/" /\ \A k \in p + 1 .. n : full[k] # "\n"
      BY <1>4, <3>1, <3>2
    <3>4. n < Len(full) => full[n + 1] = "\n"
      BY <1>3, <1>7, <3>1
    <3> QED  BY <3>2, <3>3, <3>4, AtComment
  <2>3. Sofar(n)'
    BY <1>0, <1>1, <1>2, <1>3, <2>1, <2>2, Advances
  <2>4. state' = "start" /\ "start" \notin InToken
    BY <1>1, <1>7 DEF InToken, Numbers
  <2>5. n = Len(input') - Held'
    <3>1. "\n" # None
      BY DEF None
    <3>2. Held' = IF c = None THEN 0 ELSE 1
      BY <1>1, <1>7, <3>1 DEF Held
    <3> QED  BY <1>3, <1>5, <3>2
  <2>6. At(n)'
    BY <2>4, <2>5 DEF At
  <2> QED  BY <1>3, <2>3, <2>4, <2>6 DEF After
<1> QED  BY <1>6, <1>7

LEMMA TokenContinued ==
  ASSUME IInv, Good, ContinueToken, ~ exhausted'
  PROVE  After'
<1>0. TInv /\ stream # "broken" /\ state \in InToken /\ tokens' = tokens
  BY DEF Good, ContinueToken
<1>1. PICK c \in Alphabet : /\ Continues(state, c) # "none"
                            /\ NextChar(c)
                            /\ GoTo(Continues(state, c))
                            /\ AppendByte(text, Byte(state', c))
  BY DEF ContinueToken
<1>2. state \notin {"start", "error"}
  BY <1>0 DEF InToken, Numbers
<1>3. PICK p \in Nat : At(p) /\ Sofar(p)
  BY <1>0, <1>2, Before
<1> DEFINE n == Len(input)
           r == Continues(state, c)
           u == SubSeq(input, p + 1, n)
<1>4. n >= p + 1 /\ Scanned(state, text, u)
  BY <1>0, <1>3 DEF At
<1>5. n - Held = n /\ n \in Nat /\ n = Len(input) /\ input \in Seq(Alphabet)
  BY <1>0, <1>2, NothingHeld
<1>6. Scanned(r, Append(text, Byte(r, c)), Append(u, c)) /\ r \in InToken
  <2> HIDE DEF u
  <2> QED  BY <1>0, <1>1, <1>4, ScannedNext
<1>7. u \in Seq(Alphabet) /\ Len(u) = n - p /\ \A k \in 1 .. n - p : u[k] = input[p + k]
  <2>1. n \in p + 1 .. Len(input)
    BY <1>4, <1>5
  <2> QED  BY <1>5, <2>1, PartBehind
<1> HIDE DEF n, u
<1>8. /\ input' \in Seq(Alphabet) /\ Len(input') = n + 1 /\ c = input'[n + 1]
      /\ \A k \in 1 .. n : input'[k] = input[k]
  <2>1. c # None
    BY LexerAssumption
  <2> QED  BY <1>0, <1>1, <1>5, <2>1, NextCharDoes
<1>9. SubSeq(input', p + 1, Len(input')) = Append(u, c)
  <2> DEFINE v == SubSeq(input', p + 1, Len(input'))
  <2>1. Len(input') \in p + 1 .. Len(input') /\ Len(input') - p = n - p + 1
    BY <1>4, <1>5, <1>8
  <2>2. v \in Seq(Alphabet) /\ Len(v) = n - p + 1 /\ \A k \in 1 .. n - p + 1 : v[k] = input'[p + k]
    BY <1>8, <2>1, PartBehind
  <2> HIDE DEF v
  <2>3. \A k \in 1 .. n - p : v[k] = u[k]
    <3> TAKE k \in 1 .. n - p
    <3>1. k \in 1 .. n - p + 1 /\ p + k \in 1 .. n
      BY <1>5
    <3> QED  BY <1>7, <1>8, <2>2, <3>1
  <2>4. v[n - p + 1] = c
    <3> DEFINE l == n - p + 1
    <3>1. l \in 1 .. n - p + 1 /\ p + l = n + 1
      BY <1>4, <1>5
    <3> HIDE DEF l
    <3>2. v[l] = c
      BY <1>8, <2>2, <3>1
    <3> QED  BY <3>2 DEF l
  <2>5. v = Append(u, c)
    <3> DEFINE m == n - p
    <3>1. m \in Nat /\ Len(u) = m /\ Len(v) = m + 1 /\ v[m + 1] = c /\ \A k \in 1 .. m : v[k] = u[k]
      BY <1>4, <1>5, <1>7, <2>2, <2>3, <2>4
    <3> HIDE DEF m
    <3>2. Append(u, c) \in Seq(Alphabet) /\ Len(Append(u, c)) = m + 1
          /\ Append(u, c)[m + 1] = c /\ \A k \in 1 .. m : Append(u, c)[k] = u[k]
      BY <1>7, <3>1
    <3>3. \A k \in 1 .. m + 1 : v[k] = Append(u, c)[k]
      <4> TAKE k \in 1 .. m + 1
      <4>1. k = m + 1 \/ k \in 1 .. m
        BY <3>1
      <4> QED  BY <3>1, <3>2, <4>1
    <3> QED  BY <2>2, <3>1, <3>2, <3>3, SeqEqual
  <2> QED  BY <2>5 DEF v
<1>10. text' = Append(text, Byte(r, c)) /\ state' = r
  BY <1>1 DEF AppendByte, GoTo
<1>11. r \notin {"start", "slash", "comment", "end", "error"}
  BY <1>6 DEF InToken, Numbers
<1>12. Sofar(p)'
  BY <1>0, <1>1, <1>3, Stays
<1>13. At(p)'
  <2>1. Len(input') >= p + 1
    BY <1>4, <1>5, <1>8
  <2>2. Scanned(state', text', SubSeq(input', p + 1, Len(input')))
    BY <1>6, <1>9, <1>10
  <2> HIDE DEF r
  <2> QED  BY <1>10, <1>11, <2>1, <2>2 DEF At
<1> QED  BY <1>10, <1>11, <1>12, <1>13 DEF After

LEMMA TokenEnded ==
  ASSUME IInv, Good, EndToken, ~ exhausted'
  PROVE  After'
<1>0. TInv /\ stream # "broken" /\ state \in InToken
  BY DEF Good, EndToken
<1>1. PICK c \in Alphabet \cup {None} :
         /\ Continues(state, c) = "none"
         /\ NextChar(c)
         /\ IF Ends(state, text, c) THEN Return(TypeOf(state, text), text, c) ELSE Fail
  BY DEF EndToken
<1>2. state \notin {"start", "error"}
  BY <1>0 DEF InToken, Numbers
<1>3. PICK p \in Nat : At(p) /\ Sofar(p)
  BY <1>0, <1>2, Before
<1>4. PICK n \in Nat : n = Len(input) /\ Len(input) - Held = n /\ input \in Seq(Alphabet)
  BY <1>0, <1>2, NothingHeld
<1>5. n >= p + 1 /\ Scanned(state, text, SubSeq(input, p + 1, n))
  BY <1>0, <1>3, <1>4 DEF At
<1>6. /\ input' \in Seq(Alphabet) /\ line' \in Nat
      /\ c # None => Len(input') = n + 1
      /\ c = None => Len(input') = n /\ line' = line
  BY <1>0, <1>1, <1>4, NextCharDoes
\* Whatever follows, the scanner has read the same.
<1>7. ASSUME NEW full \in Seq(Alphabet), Extends(full, input', stream')
      PROVE  /\ n \in p + 1 .. Len(full) /\ Behind(full, n) = c
             /\ Scanned(state, text, SubSeq(full, p + 1, n))
             /\ n < Len(full) => Continues(state, full[n + 1]) = "none"
             /\ c = None => full = input
             /\ c # None => n < Len(full)
  <2>1. /\ n \in 0 .. Len(full) /\ \A k \in 1 .. n : full[k] = input[k]
        /\ Behind(full, n) = c
        /\ c # None => n < Len(full) /\ full[n + 1] = c
        /\ c = None => n = Len(full) /\ full = input
    BY <1>0, <1>1, <1>4, <1>7, Reads
  <2>2. n \in p + 1 .. Len(full) /\ n \in p + 1 .. Len(input)
    BY <1>4, <1>5, <2>1
  <2>3. n < Len(full) => Continues(state, full[n + 1]) = "none"
    BY <1>1, <1>4, <2>1
  <2>4. SubSeq(full, p + 1, n) = SubSeq(input, p + 1, n)
    <3> DEFINE v == SubSeq(full, p + 1, n)
               u == SubSeq(input, p + 1, n)
    <3>1. v \in Seq(Alphabet) /\ Len(v) = n - p /\ \A k \in 1 .. n - p : v[k] = full[p + k]
      BY <2>2, PartBehind
    <3>2. u \in Seq(Alphabet) /\ Len(u) = n - p /\ \A k \in 1 .. n - p : u[k] = input[p + k]
      BY <1>4, <2>2, PartBehind
    <3> HIDE DEF u, v
    <3>3. \A k \in 1 .. n - p : v[k] = u[k]
      <4> TAKE k \in 1 .. n - p
      <4>1. p + k \in 1 .. n
        BY <1>5
      <4> QED  BY <2>1, <3>1, <3>2, <4>1
    <3>4. v = u
      BY <3>1, <3>2, <3>3, SeqEqual
    <3> QED  BY <3>4 DEF u, v
  <2> QED  BY <1>5, <2>1, <2>2, <2>3, <2>4
<1>8. CASE Ends(state, text, c)
  <2> DEFINE T == [type |-> TypeOf(state, text), text |-> text, line |-> line']
  <2>1. tokens' = Append(tokens, T) /\ state' = "start" /\ lookahead' = c
    BY <1>1, <1>8 DEF Return
  <2>2. T \in Token
    <3>1. TypeOf(state, text) \in {"int", "keyword", "identifier", "local"}
      BY <1>0, <1>8, TypeOfType
    <3>2. text \in Seq(Chars)
      BY <1>0 DEF TInv
    <3> QED  BY <1>6, <3>1, <3>2 DEF Token
  <2>3. line' = LineAt(input', Len(input'))
    BY <1>0, <1>1, LineKept DEF IInv
  <2>4. \A full \in Seq(Alphabet) : Extends(full, input', stream') =>
           n <= Len(full) /\ Leads(full, p, <<T>>, n)
    <3> SUFFICES ASSUME NEW full \in Seq(Alphabet), Extends(full, input', stream')
                 PROVE  n <= Len(full) /\ Leads(full, p, <<T>>, n)
      OBVIOUS
    <3>1. /\ n \in p + 1 .. Len(full) /\ Behind(full, n) = c
          /\ Scanned(state, text, SubSeq(full, p + 1, n))
          /\ n < Len(full) => Continues(state, full[n + 1]) = "none"
          /\ c = None => full = input
          /\ c # None => n < Len(full)
      BY <1>7
    <3>2. Leads(full, p, <<[type |-> TypeOf(state, text), text |-> text,
                            line |-> LineAt(full, n + 1)]>>, n)
      BY <1>0, <1>8, <3>1, AtToken
    <3>3. line' = LineAt(full, n + 1)
      <4>1. CASE c = None
        <5>1. line = LineAt(full, Len(full)) /\ n = Len(full)
          BY <1>4, <3>1, <4>1 DEF IInv
        <5> QED  BY <1>6, <4>1, <5>1, LineBehind
      <4>2. CASE c # None
        <5>1. \A k \in 1 .. n + 1 : input'[k] = full[k]
          BY <1>6, <4>2 DEF Extends
        <5>2. n + 1 \in Nat /\ n + 1 <= Len(full) /\ n + 1 <= Len(input')
          BY <1>6, <3>1, <4>2
        <5>3. LineAt(input', n + 1) = LineAt(full, n + 1)
          BY <1>6, <5>1, <5>2, LinePrefix
        <5> QED  BY <1>6, <2>3, <4>2, <5>3
      <4> QED  BY <4>1, <4>2
    <3>4. n <= Len(full)
      BY <3>1
    <3> QED  BY <3>2, <3>3, <3>4
  <2> HIDE DEF T
  <2>5. <<T>> \in Seq(Token) /\ tokens' = tokens \o <<T>>
    <3>1. tokens \in Seq(Token)
      BY <1>0 DEF TInv
    <3> HIDE DEF Token
    <3> QED  BY <2>1, <2>2, <3>1
  <2>6. Sofar(n)'
    BY <1>0, <1>1, <1>3, <2>4, <2>5, Advances
  <2>7. At(n)'
    <3>1. "start" \notin InToken
      BY DEF InToken, Numbers
    <3>2. Held' = IF c = None THEN 0 ELSE 1
      BY <2>1 DEF Held
    <3>3. n = Len(input') - Held'
      BY <1>6, <3>2
    <3> QED  BY <2>1, <3>1, <3>3 DEF At
  <2> QED  BY <2>1, <2>6, <2>7 DEF After
<1>9. CASE ~ Ends(state, text, c)
  <2> DEFINE x == input'
  <2>1. x \in Seq(Alphabet) /\ Extends(x, input', stream')
    BY <1>6, Itself
  <2>2. /\ n \in p + 1 .. Len(x) /\ Behind(x, n) = c
        /\ Scanned(state, text, SubSeq(x, p + 1, n))
        /\ n < Len(x) => Continues(state, x[n + 1]) = "none"
    BY <1>7, <2>1
  <2> HIDE DEF x
  <2>3. ~ Cut(x)[p + 1].legal
    BY <1>0, <1>9, <2>1, <2>2, NotToken
  <2>4. ~ Cut(input')[1].legal
    BY <1>0, <1>1, <1>3, <2>3, Refuses DEF x
  <2>5. state' = "error"
    BY <1>1, <1>9 DEF Fail, GoTo
  <2> QED  BY <2>4, <2>5 DEF After
<1> QED  BY <1>8, <1>9

LEMMA InitScanned == Init => IInv
<1> SUFFICES ASSUME Init PROVE IInv
  OBVIOUS
<1>1. TInv
  BY InitTypes
<1>2. input = <<>> /\ stream = "open" /\ line = 1 /\ state = "start" /\ tokens = <<>>
      /\ Held = 0 /\ Len(input) = 0
  BY DEF Init, Held
<1>3. line = LineAt(input, Len(input))
  BY <1>2, LineFirst
<1>4. At(0)
  <2>1. "start" \notin InToken
    BY DEF InToken, Numbers
  <2> QED  BY <1>2, <2>1 DEF At
<1>5. Sofar(0)
  <2> SUFFICES ASSUME NEW full \in Seq(Alphabet) PROVE Leads(full, 0, tokens, 0)
    BY DEF Sofar
  <2> DEFINE r == Cut(full)[0 + 1]
  <2>1. r \in Pieces
    <3>1. 0 + 1 \in 1 .. Len(full) + 1
      OBVIOUS
    <3> QED  BY <3>1, CutType
  <2> HIDE DEF r
  <2>2. r = [legal |-> r.legal, tokens |-> r.tokens] /\ r.tokens \in Seq(Token)
    BY <2>1 DEF Pieces
  <2>3. tokens \o r.tokens = r.tokens
    <3> HIDE DEF Token
    <3> QED  BY <1>2, <2>2
  <2> QED  BY <2>2, <2>3 DEF Leads, r
<1> QED  BY <1>1, <1>2, <1>3, <1>4, <1>5 DEF IInv

LEMMA NextScanned == IInv /\ [Next]_lvars => IInv'
<1> SUFFICES ASSUME IInv, [Next]_lvars PROVE IInv'
  OBVIOUS
<1>1. TInv /\ TInv'
  BY NextTypes DEF IInv
<1>2. ASSUME ~ exhausted' /\ stream' # "broken" => After'
      PROVE  line' = LineAt(input', Len(input')) => IInv'
  BY <1>1, <1>2 DEF IInv, After
<1>3. ASSUME NEW c, NextChar(c)
      PROVE  line' = LineAt(input', Len(input'))
  BY <1>1, <1>3, LineKept DEF IInv
<1>4. stream = "broken" => state = "error"
  BY <1>1 DEF TInv
<1>5. exhausted \in BOOLEAN /\ exhausted' \in BOOLEAN
  BY <1>1 DEF TInv
<1>6. CASE SkipSpace
  <2>1. PICK c \in Space : NextChar(c)
    BY <1>6 DEF SkipSpace
  <2>2. exhausted' = exhausted /\ stream # "broken"
    BY <1>4, <1>6 DEF SkipSpace
  <2> QED  BY <1>1, <1>2, <1>3, <1>6, <2>1, <2>2, SpaceSkipped DEF Good
<1>7. CASE EndOfFile
  <2>1. NextChar(None) /\ exhausted' = exhausted /\ stream # "broken"
    BY <1>4, <1>7 DEF EndOfFile
  <2> QED  BY <1>1, <1>2, <1>3, <1>7, <2>1, FileEnded DEF Good
<1>8. CASE BeginComment
  <2>1. NextChar("/") /\ exhausted' = exhausted /\ stream # "broken"
    BY <1>4, <1>8 DEF BeginComment
  <2> QED  BY <1>1, <1>2, <1>3, <1>8, <2>1, CommentBegun DEF Good
<1>9. CASE BeginToken
  <2>1. PICK c \in Alphabet : NextChar(c) /\ AppendByte(<<>>, c)
    BY <1>9 DEF BeginToken
  <2>2. (~ exhausted' => ~ exhausted) /\ stream # "broken"
    BY <1>4, <1>9, <2>1 DEF BeginToken, AppendByte
  <2> QED  BY <1>1, <1>2, <1>3, <1>9, <2>1, <2>2, TokenBegun DEF Good
<1>10. CASE AsmScanSingle
  <2>1. PICK c \in Single : NextChar(c) /\ Return(c, <<c>>, None)
    BY <1>10 DEF AsmScanSingle
  <2>2. (~ exhausted' => ~ exhausted) /\ stream # "broken"
    BY <1>4, <1>10, <2>1 DEF AsmScanSingle, Return
  <2> QED  BY <1>1, <1>2, <1>3, <1>10, <2>1, <2>2, SingleScanned DEF Good
<1>11. CASE Unrecognized
  <2>1. PICK c \in Alphabet : NextChar(c)
    BY <1>11 DEF Unrecognized
  <2>2. exhausted' = exhausted /\ stream # "broken"
    BY <1>4, <1>11 DEF Unrecognized, Fail
  <2> QED  BY <1>1, <1>2, <1>3, <1>11, <2>1, <2>2, NotRecognized DEF Good
<1>12. CASE SecondSlash
  <2>1. PICK c \in Alphabet \cup {None} : NextChar(c)
    BY <1>12 DEF SecondSlash
  <2>2. exhausted' = exhausted /\ stream # "broken"
    BY <1>4, <1>12 DEF SecondSlash, Fail
  <2> QED  BY <1>1, <1>2, <1>3, <1>12, <2>1, <2>2, SlashSeen DEF Good
<1>13. CASE SkipComment
  <2>1. PICK c \in Alphabet \cup {None} : NextChar(c)
    BY <1>13 DEF SkipComment
  <2>2. exhausted' = exhausted /\ stream # "broken"
    BY <1>4, <1>13 DEF SkipComment
  <2> QED  BY <1>1, <1>2, <1>3, <1>13, <2>1, <2>2, CommentSkipped DEF Good
<1>14. CASE ContinueToken
  <2>1. PICK c \in Alphabet : NextChar(c) /\ AppendByte(text, Byte(state', c))
    BY <1>14 DEF ContinueToken
  <2>2. (~ exhausted' => ~ exhausted) /\ stream # "broken"
    BY <1>4, <1>14, <2>1 DEF ContinueToken, AppendByte, InToken, Numbers
  <2> QED  BY <1>1, <1>2, <1>3, <1>14, <2>1, <2>2, TokenContinued DEF Good
<1>15. CASE EndToken
  <2>1. PICK c \in Alphabet \cup {None} :
           /\ NextChar(c)
           /\ IF Ends(state, text, c) THEN Return(TypeOf(state, text), text, c) ELSE Fail
    BY <1>15 DEF EndToken
  <2>2. stream # "broken"
    BY <1>4, <1>15 DEF EndToken, InToken, Numbers
  <2>3. ~ exhausted' => ~ exhausted
    BY <2>1 DEF Return, Fail
  <2> QED  BY <1>1, <1>2, <1>3, <1>15, <2>1, <2>2, <2>3, TokenEnded DEF Good
<1>16. CASE ReadError
  <2>1. stream' = "broken" /\ line' = LineAt(input', Len(input'))
    BY <1>16 DEF ReadError, IInv
  <2> QED  BY <1>2, <2>1
<1>17. CASE UNCHANGED lvars
  BY <1>1, <1>17 DEF lvars, IInv, At, Sofar, Held
<1> QED  BY <1>6, <1>7, <1>8, <1>9, <1>10, <1>11, <1>12, <1>13, <1>14, <1>15, <1>16, <1>17
         DEF Next

\* If memory and reading do not fail, the scanner returns exactly the tokens of
\* the input, which are cut off as the longest lexemes, and refuses only inputs
\* that are not made of them: whatever follows a token, and whatever it is that
\* ends it, no character is lost or taken twice.  Lexemes, and the lines of
\* tokens, are those of the code: a bare "@" is one, and the last token of a line
\* has the number of the next (asm_lexer.c).
THEOREM ScannedExactly == Spec => []ScannedAsDefined
<1>1. IInv => ScannedAsDefined
  <2> SUFFICES ASSUME IInv, ~ exhausted, stream # "broken"
               PROVE  /\ state = "end" => Defined.legal /\ tokens = Defined.tokens
                      /\ state = "error" => ~ Defined.legal
    BY DEF ScannedAsDefined
  <2>1. state = "error" => ~ Defined.legal
    BY DEF IInv, Defined
  <2>2. ASSUME state = "end"
        PROVE  Defined.legal /\ tokens = Defined.tokens
    <3>1. PICK p \in Nat : At(p) /\ Sofar(p)
      BY <2>2 DEF IInv
    <3>2. input \in Seq(Alphabet) /\ tokens \in Seq(Token) /\ p = Len(input)
      BY <2>2, <3>1 DEF IInv, TInv, At
    <3>3. Leads(input, 0, tokens, p)
      BY <3>1, <3>2, Itself DEF Sofar
    <3>4. Cut(input)[p + 1] = [legal |-> TRUE, tokens |-> <<>>]
      BY <3>2, CutEnd
    <3>5. Cut(input)[0 + 1] = [legal |-> TRUE, tokens |-> tokens \o <<>>]
      BY <3>3, <3>4 DEF Leads
    <3>6. tokens \o <<>> = tokens
      <4> HIDE DEF Token
      <4> QED  BY <3>2
    <3>7. Defined = [legal |-> TRUE, tokens |-> tokens]
      BY <3>5, <3>6 DEF Defined
    <3> QED  BY <3>7
  <2> QED  BY <2>1, <2>2
<1> QED  BY <1>1, InitScanned, NextScanned, PTL DEF Spec
==============================================================================
