--------------------------- MODULE Assembler_proofs ---------------------------
(***************************************************************************)
(* Theorems about the assembler, for every grammar of items and names, all *)
(* limits and handle ranges, and memory and output that may fail.          *)
(***************************************************************************)
EXTENDS Assembler, SequenceTheorems, FiniteSetTheorems, WellFoundedInduction, TLAPS

----------------------------------------------------------------------------
(***************************************************************************)
(* Loops.  A recursive function of an index is what a loop leaves in its   *)
(* variable.                                                               *)
(***************************************************************************)

\* A set with the start, and with each index that follows one of the set.
LEMMA CountingUp ==
  ASSUME NEW n \in Nat, NEW P, 0 \in P, \A i \in 1 .. n : i - 1 \in P => i \in P
  PROVE  \A i \in 0 .. n : i \in P
<1> DEFINE Missing == {i \in 0 .. n : i \notin P}
           less == OpToRel(<, Nat)
<1>1. SUFFICES ASSUME Missing # {} PROVE FALSE
  OBVIOUS
<1>2. IsWellFoundedOn(less, Nat)  BY NatLessThanWellFounded
<1>3. \A k, m \in Nat : <<k, m>> \notin less => m <= k
  BY DEF OpToRel
<1>4. Missing \subseteq Nat
  OBVIOUS
<1> HIDE DEF less, Missing
<1>5. PICK i \in Missing : \A j \in Missing : <<j, i>> \notin less
  BY <1>1, <1>2, <1>4, WFMin
<1>6. i \in 1 .. n /\ i \notin P /\ i - 1 \in 0 .. n
  BY <1>5 DEF Missing
<1>7. i - 1 \in Missing
  BY <1>6 DEF Missing
<1>8. <<i - 1, i>> \notin less /\ i - 1 \in Nat /\ i \in Nat
  BY <1>5, <1>6, <1>7
<1>9. i <= i - 1
  BY <1>3, <1>8
<1> QED  BY <1>8, <1>9

\* f is what a loop over 1 .. n with this body leaves in its variable.
Runs(f, n, start, body) == /\ f[0] = start
                           /\ \A i \in 1 .. n : f[i] = body[<<i, f[i - 1]>>]

\* A loop whose body keeps its variable in S can be executed.
LEMMA LoopExists ==
  ASSUME NEW n \in Nat, NEW S, NEW start \in S, NEW body \in [(1 .. n) \X S -> S]
  PROVE  \E f \in [0 .. n -> S] : Runs(f, n, start, body)
<1> DEFINE Loop(k, f) == /\ f \in [0 .. k -> S]
                         /\ f[0] = start
                         /\ \A i \in 1 .. k : f[i] = body[<<i, f[i - 1]>>]
           P == {k \in 0 .. n : \E f : Loop(k, f)}
<1>1. 0 \in P
  <2> DEFINE g == [i \in 0 .. 0 |-> start]
  <2>1. g \in [0 .. 0 -> S] /\ g[0] = start
    OBVIOUS
  <2> HIDE DEF g
  <2>2. Loop(0, g)
    BY <2>1
  <2>3. 0 \in 0 .. n
    OBVIOUS
  <2> HIDE DEF Loop
  <2> QED  BY <2>2, <2>3
<1>2. \A k \in 1 .. n : k - 1 \in P => k \in P
  <2> SUFFICES ASSUME NEW k \in 1 .. n, k - 1 \in P PROVE k \in P
    OBVIOUS
  <2>1. PICK f : Loop(k - 1, f)
    OBVIOUS
  <2> DEFINE g == [i \in 0 .. k |-> IF i = k THEN body[<<k, f[k - 1]>>] ELSE f[i]]
  <2>2. f[k - 1] \in S
    BY <2>1
  <2>3. body[<<k, f[k - 1]>>] \in S
    BY <2>2
  <2>4. g \in [0 .. k -> S]
    BY <2>1, <2>3
  <2>5. g[0] = start
    BY <2>1
  <2>6. \A i \in 1 .. k : g[i] = body[<<i, g[i - 1]>>]
    <3> TAKE i \in 1 .. k
    <3>1. CASE i = k
      <4>1. k - 1 \in 0 .. k /\ k - 1 # k /\ k \in 0 .. k
        OBVIOUS
      <4>2. g[k - 1] = f[k - 1] /\ g[k] = body[<<k, f[k - 1]>>]
        BY <4>1
      <4> QED  BY <3>1, <4>2
    <3>2. CASE i # k
      BY <2>1, <3>2
    <3> QED  BY <3>1, <3>2
  <2> HIDE DEF g
  <2>7. Loop(k, g)
    BY <2>4, <2>5, <2>6
  <2> QED  BY <2>7
<1> HIDE DEF P
<1>3. n \in P
  BY <1>1, <1>2, CountingUp
<1>4. PICK f : Loop(n, f)
  BY <1>3 DEF P
<1> QED  BY <1>4 DEF Runs

\* Whatever function is such a loop has its values in S.
LEMMA LoopType ==
  ASSUME NEW n \in Nat, NEW S, NEW f, f[0] \in S,
         \A i \in 1 .. n : f[i - 1] \in S => f[i] \in S
  PROVE  \A i \in 0 .. n : f[i] \in S
<1> DEFINE P == {i \in 0 .. n : f[i] \in S}
<1>1. 0 \in P  OBVIOUS
<1>2. \A i \in 1 .. n : i - 1 \in P => i \in P  OBVIOUS
<1> HIDE DEF P
<1>3. \A i \in 0 .. n : i \in P
  BY <1>1, <1>2, CountingUp
<1> QED  BY <1>3 DEF P

\* Min finds the least member of a set of numbers.
LEMMA MinIn ==
  ASSUME NEW T, T \subseteq Nat, T # {}
  PROVE  Min(T) \in T /\ \A y \in T : Min(T) <= y
<1> DEFINE less == OpToRel(<, Nat)
<1>1. IsWellFoundedOn(less, Nat)  BY NatLessThanWellFounded
<1>2. \A m, k \in Nat : <<m, k>> \notin less => k <= m
  BY DEF OpToRel
<1> HIDE DEF less
<1>3. PICK i \in T : \A j \in T : <<j, i>> \notin less
  BY <1>1, WFMin
<1>4. \E x \in T : \A y \in T : x <= y
  BY <1>2, <1>3
<1> QED  BY <1>4 DEF Min

----------------------------------------------------------------------------
(***************************************************************************)
(* What the data of the assembler are.                                     *)
(***************************************************************************)

Kind        == {"function", "object"}
Relocation  == [type : DOMAIN SizeOf, offset : Nat, symbol : STRING]
Variable    == [name : STRING, index : Byte]
CodeBuffer  == [bytes : Seq(Byte), relocations : Seq(Relocation), locals : Seq(Variable)]
Declaration == [kind : Kind, name : STRING, handle : Nat, args : Seq(STRING),
                results : Nat, text : Seq(Items)]

\* Every relocation has its bytes in the first n of the buffer.
Within(relocations, n) ==
  \A i \in 1 .. Len(relocations) : relocations[i].offset + SizeOf[relocations[i].type] <= n

Sound  == {c \in CodeBuffer : Within(c.relocations, Len(c.bytes))}
Object == [name : STRING, kind : Kind, handle : Nat, content : Sound]

\* The objects are those of the first n declarations, in their order.
Matches(objs, declarations, n) ==
  /\ Len(objs) = n
  /\ \A i \in 1 .. n : /\ objs[i].kind = declarations[i].kind
                       /\ objs[i].handle = declarations[i].handle

\* What the parser has made of the declarations: all that are closed.
Corresponds ==
  /\ phase \in {"declarations", "parsed"} => Matches(objects, source, Len(source))
  /\ phase \in Kind => /\ Len(source) > 0
                       /\ Matches(objects, source, Len(source) - 1)
                       /\ source[Len(source)].kind = phase

AInv ==
  /\ bigEndian \in BOOLEAN /\ phase \in Phases /\ errors \in Nat /\ fault \in BOOLEAN
  /\ (errors > 0) <=> phase \in Failed
  /\ fault => MayFail
  /\ code \in Sound
  /\ objects \in Seq(Object) /\ source \in Seq(Declaration)
  /\ Corresponds
  /\ HandlesAssigned

\* The limits of functions.
LEMMA LimitsHave ==
  /\ MaxLocals \in Nat /\ MaxArgs \in Nat /\ MaxResults \in Nat
  /\ MaxLocals <= 255 /\ MaxArgs <= 255 /\ MaxResults <= 255
  /\ MaxLocals + MaxArgs <= 256
<1>1. MaxLocals \in 0 .. 255 /\ MaxArgs \in 0 .. 255 /\ MaxResults \in 0 .. 255
  BY AssemblerAssumption
<1>2. MaxLocals + MaxArgs <= 256
  BY AssemblerAssumption
<1> QED  BY <1>1, <1>2

\* Sizes of relocations.
LEMMA Sizes ==
  ASSUME NEW t \in DOMAIN SizeOf
  PROVE  SizeOf[t] \in {0, 1, 2, 4}
BY DEF SizeOf

\* A sequence of S, by its length and its elements.
LEMMA SeqIs ==
  ASSUME NEW S, NEW n \in Nat, NEW f, f = [i \in 1 .. n |-> f[i]],
         \A i \in 1 .. n : f[i] \in S
  PROVE  f \in Seq(S) /\ Len(f) = n
<1>1. f \in [1 .. n -> S]  OBVIOUS
<1>2. \E k \in Nat : f \in [1 .. k -> S]  BY <1>1
<1> QED  BY <1>1, <1>2, LenProperties, SeqDef

LEMMA ByteOfType ==
  ASSUME NEW value \in Int, NEW j \in 0 .. 3
  PROVE  ByteOf(value, j) \in Byte
<1>1. j + 1 \in {1, 2, 3, 4}  OBVIOUS
<1>2. PlaceValue[j + 1] \in Nat \ {0}
  BY <1>1 DEF PlaceValue
<1> DEFINE q == value \div PlaceValue[j + 1]
<1>3. q \in Int  BY <1>2
<1> HIDE DEF q
<1>4. q % 256 \in 0 .. 255  BY <1>3
<1> QED  BY <1>4 DEF ByteOf, Byte, q

\* ASM_INIT_WORD and ASM_INIT_HALF: any value gives n bytes.
LEMMA EncodedType ==
  ASSUME NEW value \in Int, NEW n \in {0, 1, 2, 4}
  PROVE  Encoded(value, n) \in Seq(Byte) /\ Len(Encoded(value, n)) = n
<1> DEFINE f == Encoded(value, n)
           k(i) == IF bigEndian THEN n - i ELSE i - 1
<1>1. f = [i \in 1 .. n |-> ByteOf(value, k(i))]
  BY DEF Encoded
<1>2. \A j \in 0 .. 3 : ByteOf(value, j) \in Byte  BY ByteOfType
<1>3. \A i \in 1 .. n : k(i) \in 0 .. 3
  OBVIOUS
<1> HIDE DEF k
<1>4. \A i \in 1 .. n : f[i] \in Byte
  BY <1>1, <1>2, <1>3
<1>5. f = [i \in 1 .. n |-> f[i]]
  BY <1>1
<1> HIDE DEF f
<1>6. n \in Nat  OBVIOUS
<1>7. f \in Seq(Byte) /\ Len(f) = n
  BY <1>4, <1>5, <1>6, SeqIs
<1> QED  BY <1>7 DEF f

LEMMA FillBytes ==
  ASSUME NEW n \in Nat
  PROVE  Fill(n, 0) \in Seq(Byte) /\ Len(Fill(n, 0)) = n
<1> DEFINE f == Fill(n, 0)
<1>1. f = [i \in 1 .. n |-> f[i]] /\ \A i \in 1 .. n : f[i] \in Byte
  BY DEF Fill, Byte
<1> HIDE DEF f
<1>2. f \in Seq(Byte) /\ Len(f) = n
  BY <1>1, SeqIs
<1> QED  BY <1>2 DEF f

LEMMA Concat ==
  ASSUME NEW S, NEW s \in Seq(S), NEW t \in Seq(S)
  PROVE  /\ s \o t \in Seq(S) /\ Len(s \o t) = Len(s) + Len(t)
         /\ \A i \in 1 .. Len(s) : (s \o t)[i] = s[i]
         /\ \A i \in 1 .. Len(t) : (s \o t)[Len(s) + i] = t[i]
  OBVIOUS

----------------------------------------------------------------------------
(***************************************************************************)
(* Code buffers: whatever is appended, prepended or merged, a relocation   *)
(* keeps the bytes that AsmCodeAddRelocation reserved for it.              *)
(***************************************************************************)

\* A buffer, by its three parts.
LEMMA SoundIs ==
  ASSUME NEW b \in Seq(Byte), NEW r \in Seq(Relocation), NEW l \in Seq(Variable),
         Within(r, Len(b)), NEW c,
         c = [bytes |-> b, relocations |-> r, locals |-> l]
  PROVE  c \in Sound
BY DEF Sound, CodeBuffer

LEMMA SoundHas ==
  ASSUME NEW c \in Sound
  PROVE  /\ c = [bytes |-> c.bytes, relocations |-> c.relocations, locals |-> c.locals]
         /\ c.bytes \in Seq(Byte) /\ c.relocations \in Seq(Relocation)
         /\ c.locals \in Seq(Variable) /\ Within(c.relocations, Len(c.bytes))
         /\ Len(c.bytes) \in Nat /\ Len(c.relocations) \in Nat /\ Len(c.locals) \in Nat
BY DEF Sound, CodeBuffer

LEMMA EmptySound == EmptyCode \in Sound
<1>1. <<>> \in Seq(Byte) /\ <<>> \in Seq(Relocation) /\ <<>> \in Seq(Variable)
  OBVIOUS
<1>2. Within(<<>>, Len(<<>>))  BY DEF Within
<1> QED  BY <1>1, <1>2, SoundIs DEF EmptyCode

\* More bytes behind the relocations.
LEMMA WithinMore ==
  ASSUME NEW r \in Seq(Relocation), NEW n \in Nat, NEW m \in Nat, Within(r, n), n <= m
  PROVE  Within(r, m)
<1> SUFFICES ASSUME NEW i \in 1 .. Len(r) PROVE r[i].offset + SizeOf[r[i].type] <= m
  BY DEF Within
<1>1. r[i] \in Relocation  OBVIOUS
<1>2. r[i].offset \in Nat /\ SizeOf[r[i].type] \in Nat
  BY <1>1, Sizes DEF Relocation
<1>3. r[i].offset + SizeOf[r[i].type] <= n  BY DEF Within
<1> QED  BY <1>2, <1>3

LEMMA AppendBytesSound ==
  ASSUME NEW c \in Sound, NEW b \in Seq(Byte)
  PROVE  /\ AppendBytes(c, b) \in Sound
         /\ AppendBytes(c, b).relocations = c.relocations
         /\ AppendBytes(c, b).locals = c.locals
         /\ Len(AppendBytes(c, b).bytes) = Len(c.bytes) + Len(b)
<1> DEFINE d == AppendBytes(c, b)
<1>1. /\ c = [bytes |-> c.bytes, relocations |-> c.relocations, locals |-> c.locals]
      /\ c.bytes \in Seq(Byte) /\ c.relocations \in Seq(Relocation)
      /\ c.locals \in Seq(Variable) /\ Within(c.relocations, Len(c.bytes))
      /\ Len(c.bytes) \in Nat /\ Len(b) \in Nat
  BY SoundHas
<1>2. d = [bytes |-> c.bytes \o b, relocations |-> c.relocations, locals |-> c.locals]
  <2>1. d = [c EXCEPT !.bytes = c.bytes \o b]  BY DEF AppendBytes
  <2> QED  BY <1>1, <2>1
<1>3. c.bytes \o b \in Seq(Byte) /\ Len(c.bytes \o b) = Len(c.bytes) + Len(b)
  BY <1>1, Concat
<1>4. Within(c.relocations, Len(c.bytes \o b))
  <2>1. Len(c.bytes) + Len(b) \in Nat /\ Len(c.bytes) <= Len(c.bytes) + Len(b)
    BY <1>1
  <2> QED  BY <1>1, <1>3, <2>1, WithinMore
<1>5. d \in Sound  BY <1>1, <1>2, <1>3, <1>4, SoundIs
<1>6. /\ d.relocations = c.relocations /\ d.locals = c.locals
      /\ d.bytes = c.bytes \o b
  BY <1>2
<1> HIDE DEF d
<1>7. Len(d.bytes) = Len(c.bytes) + Len(b)  BY <1>3, <1>6
<1> QED  BY <1>5, <1>6, <1>7 DEF d

LEMMA AddRelocationSound ==
  ASSUME NEW c \in Sound, NEW type \in DOMAIN SizeOf, NEW symbol \in STRING
  PROVE  AsmCodeAddRelocation(c, type, symbol) \in Sound
<1> DEFINE r == [type |-> type, offset |-> Len(c.bytes), symbol |-> symbol]
           b == Fill(SizeOf[type], 0)
           a == AppendBytes(c, b)
           d == AsmCodeAddRelocation(c, type, symbol)
           rs == Append(c.relocations, r)
<1>0. SizeOf[type] \in Nat  BY Sizes
<1>1. b \in Seq(Byte) /\ Len(b) = SizeOf[type]  BY <1>0, FillBytes
<1>2. /\ a \in Sound /\ a.relocations = c.relocations /\ a.locals = c.locals
      /\ Len(a.bytes) = Len(c.bytes) + SizeOf[type]
  <2> HIDE DEF b
  <2> QED  BY <1>1, AppendBytesSound
<1>3. /\ a = [bytes |-> a.bytes, relocations |-> a.relocations, locals |-> a.locals]
      /\ a.bytes \in Seq(Byte) /\ c.relocations \in Seq(Relocation)
      /\ a.locals \in Seq(Variable) /\ Within(a.relocations, Len(a.bytes))
      /\ Len(a.bytes) \in Nat /\ Len(c.bytes) \in Nat /\ Len(c.relocations) \in Nat
  <2> HIDE DEF a
  <2> QED  BY <1>2, SoundHas
<1>4. d = [bytes |-> a.bytes, relocations |-> rs, locals |-> a.locals]
  <2>1. d = [a EXCEPT !.relocations = Append(a.relocations, r)]
    BY DEF AsmCodeAddRelocation
  <2> HIDE DEF a, r, d
  <2>2. d = [a EXCEPT !.relocations = rs]  BY <1>2, <2>1
  <2> QED  BY <1>3, <2>2
<1>5. r \in Relocation /\ r.offset = Len(c.bytes) /\ r.type = type
  BY <1>3 DEF Relocation
<1> HIDE DEF r, a, b, d
<1>6. /\ rs \in Seq(Relocation) /\ Len(rs) = Len(c.relocations) + 1
      /\ \A i \in 1 .. Len(c.relocations) : rs[i] = c.relocations[i]
      /\ rs[Len(c.relocations) + 1] = r
  BY <1>3, <1>5
<1>7. Within(rs, Len(a.bytes))
  <2> SUFFICES ASSUME NEW i \in 1 .. Len(rs)
               PROVE  rs[i].offset + SizeOf[rs[i].type] <= Len(a.bytes)
    BY DEF Within
  <2> HIDE DEF rs
  <2>1. CASE i = Len(c.relocations) + 1
    BY <1>0, <1>2, <1>3, <1>5, <1>6, <2>1
  <2>2. CASE i # Len(c.relocations) + 1  BY <1>2, <1>3, <1>6, <2>2 DEF Within
  <2> QED  BY <2>1, <2>2
<1> HIDE DEF rs
<1>8. d \in Sound  BY <1>3, <1>4, <1>6, <1>7, SoundIs
<1> QED  BY <1>8 DEF d

LEMMA AdjustedType ==
  ASSUME NEW r \in Seq(Relocation), NEW delta \in Nat
  PROVE  /\ Adjusted(r, delta) \in Seq(Relocation)
         /\ Len(Adjusted(r, delta)) = Len(r)
         /\ \A i \in 1 .. Len(r) : /\ Adjusted(r, delta)[i].type = r[i].type
                                   /\ Adjusted(r, delta)[i].symbol = r[i].symbol
                                   /\ Adjusted(r, delta)[i].offset = r[i].offset + delta
<1> DEFINE f == Adjusted(r, delta)
           n == Len(r)
<1>1. n \in Nat /\ DOMAIN r = 1 .. n  OBVIOUS
<1>2. f = [i \in 1 .. n |-> [r[i] EXCEPT !.offset = @ + delta]]
  BY <1>1 DEF Adjusted
<1>3. ASSUME NEW i \in 1 .. n
      PROVE  /\ f[i] \in Relocation /\ f[i].type = r[i].type
             /\ f[i].symbol = r[i].symbol /\ f[i].offset = r[i].offset + delta
  <2> DEFINE x == r[i]
             at == x.offset + delta
  <2>1. x \in Relocation  OBVIOUS
  <2>2. f[i] = [x EXCEPT !.offset = at]  BY <1>2
  <2> HIDE DEF x
  <2>3. at \in Nat  BY <2>1 DEF Relocation
  <2> HIDE DEF at, f, n
  <2>4. /\ f[i] \in Relocation /\ f[i].type = x.type /\ f[i].offset = at
        /\ f[i].symbol = x.symbol
    BY <2>1, <2>2, <2>3 DEF Relocation
  <2> QED  BY <2>4 DEF x, at
<1>4. f = [i \in 1 .. n |-> f[i]]  BY <1>2
<1> HIDE DEF f
<1>5. f \in Seq(Relocation) /\ Len(f) = n
  <2> HIDE DEF n
  <2> QED  BY <1>1, <1>3, <1>4, SeqIs
<1> QED  BY <1>3, <1>5 DEF f

\* Relocations that move with the bytes they are in.
LEMMA AdjustedWithin ==
  ASSUME NEW r \in Seq(Relocation), NEW n \in Nat, NEW delta \in Nat, Within(r, n)
  PROVE  Within(Adjusted(r, delta), n + delta)
<1> SUFFICES ASSUME NEW i \in 1 .. Len(Adjusted(r, delta))
             PROVE  Adjusted(r, delta)[i].offset + SizeOf[Adjusted(r, delta)[i].type]
                      <= n + delta
  BY DEF Within
<1>1. i \in 1 .. Len(r)  BY AdjustedType
<1>2. /\ Adjusted(r, delta)[i].type = r[i].type
      /\ Adjusted(r, delta)[i].offset = r[i].offset + delta
  BY <1>1, AdjustedType
<1>3. r[i] \in Relocation  BY <1>1
<1>4. r[i].offset \in Nat /\ SizeOf[r[i].type] \in Nat
  BY <1>3, Sizes DEF Relocation
<1>5. r[i].offset + SizeOf[r[i].type] <= n  BY <1>1 DEF Within
<1> QED  BY <1>2, <1>4, <1>5

LEMMA AddMetadataSound ==
  ASSUME NEW c \in Sound, NEW data \in Seq(Byte)
  PROVE  AsmCodeAddMetadata(c, data) \in Sound
<1> DEFINE d == AsmCodeAddMetadata(c, data)
           b == data \o c.bytes
           rs == Adjusted(c.relocations, Len(data))
<1>1. /\ c = [bytes |-> c.bytes, relocations |-> c.relocations, locals |-> c.locals]
      /\ c.bytes \in Seq(Byte) /\ c.relocations \in Seq(Relocation)
      /\ c.locals \in Seq(Variable) /\ Within(c.relocations, Len(c.bytes))
      /\ Len(c.bytes) \in Nat /\ Len(data) \in Nat
  BY SoundHas
<1>2. d = [bytes |-> b, relocations |-> rs, locals |-> c.locals]
  <2> DEFINE e == [c EXCEPT !.bytes = b]
  <2>1. d = [e EXCEPT !.relocations = rs]
    BY <1>1 DEF AsmCodeAddMetadata
  <2>2. e = [bytes |-> b, relocations |-> c.relocations, locals |-> c.locals]
    <3>1. c = [bytes |-> c.bytes, relocations |-> c.relocations, locals |-> c.locals]
      BY <1>1
    <3> HIDE DEF b
    <3> QED  BY <3>1
  <2> HIDE DEF e, b, rs, d
  <2> QED  BY <2>1, <2>2
<1>3. b \in Seq(Byte) /\ Len(b) = Len(data) + Len(c.bytes)
  BY <1>1, Concat
<1>4. rs \in Seq(Relocation)  BY <1>1, AdjustedType
<1>5. Within(rs, Len(c.bytes) + Len(data))  BY <1>1, AdjustedWithin
<1>6. Len(b) = Len(c.bytes) + Len(data)  BY <1>1, <1>3
<1> HIDE DEF b, rs, d
<1>7. d \in Sound  BY <1>1, <1>2, <1>3, <1>4, <1>5, <1>6, SoundIs
<1> QED  BY <1>7 DEF d

LEMMA MergeSound ==
  ASSUME NEW head \in Sound, NEW tail \in Sound
  PROVE  AsmCodeMerge(head, tail) \in Sound
<1> DEFINE b == head.bytes \o tail.bytes
           moved == Adjusted(tail.relocations, Len(head.bytes))
           rs == head.relocations \o moved
           l == head.locals \o tail.locals
           h == head.relocations
           n == Len(head.bytes)
<1>1. /\ head.bytes \in Seq(Byte) /\ h \in Seq(Relocation)
      /\ head.locals \in Seq(Variable) /\ Within(h, n)
      /\ n \in Nat /\ Len(h) \in Nat
  BY SoundHas
<1>2. /\ tail.bytes \in Seq(Byte) /\ tail.relocations \in Seq(Relocation)
      /\ tail.locals \in Seq(Variable) /\ Within(tail.relocations, Len(tail.bytes))
      /\ Len(tail.bytes) \in Nat /\ Len(tail.relocations) \in Nat
  BY SoundHas
<1>3. AsmCodeMerge(head, tail) = [bytes |-> b, relocations |-> rs, locals |-> l]
  BY DEF AsmCodeMerge
<1>4. /\ b \in Seq(Byte) /\ Len(b) = Len(tail.bytes) + n
      /\ l \in Seq(Variable)
  <2>1. b \in Seq(Byte) /\ Len(b) = n + Len(tail.bytes)
    BY <1>1, <1>2, Concat
  <2>2. l \in Seq(Variable)  BY <1>1, <1>2, Concat
  <2> HIDE DEF b, l, n
  <2> QED  BY <1>1, <1>2, <2>1, <2>2
<1>5. moved \in Seq(Relocation) /\ Len(moved) \in Nat  BY <1>1, <1>2, AdjustedType
<1>6. Within(moved, Len(tail.bytes) + n)  BY <1>1, <1>2, AdjustedWithin
<1>7. Within(h, Len(tail.bytes) + n)
  <2>1. Len(tail.bytes) + n \in Nat /\ n <= Len(tail.bytes) + n
    <3> HIDE DEF n
    <3> QED  BY <1>1, <1>2
  <2> QED  BY <1>1, <2>1, WithinMore
<1> HIDE DEF b, l, n, moved, h
<1>8. /\ rs \in Seq(Relocation) /\ Len(rs) = Len(h) + Len(moved)
      /\ \A i \in 1 .. Len(h) : rs[i] = h[i]
      /\ \A i \in 1 .. Len(moved) : rs[Len(h) + i] = moved[i]
  BY <1>1, <1>5, Concat DEF h
<1> HIDE DEF rs
<1>9. Within(rs, Len(b))
  <2> SUFFICES ASSUME NEW i \in 1 .. Len(rs)
               PROVE  rs[i].offset + SizeOf[rs[i].type] <= Len(b)
    BY DEF Within
  <2>1. CASE i <= Len(h)  BY <1>1, <1>4, <1>7, <1>8, <2>1 DEF Within
  <2>2. CASE ~ (i <= Len(h))
    <3>1. i - Len(h) \in 1 .. Len(moved) /\ i = Len(h) + (i - Len(h))
      BY <1>1, <1>5, <1>8, <2>2
    <3>2. rs[i] = moved[i - Len(h)]  BY <1>8, <3>1
    <3> QED  BY <1>4, <1>6, <3>1, <3>2 DEF Within
  <2> QED  BY <2>1, <2>2
<1> QED  BY <1>3, <1>4, <1>8, <1>9, SoundIs

LEMMA ItemHas ==
  ASSUME NEW item \in Items
  PROVE  /\ item.kind \in ItemKinds /\ item.symbol \in STRING /\ item.value \in Int
         /\ item.kind = "byte" => item.value \in Byte
         /\ item.kind = "skip" => item.value \in Nat
<1>1. item \in [kind : ItemKinds, symbol : STRING, value : Int]  BY SourceAssumption
<1> QED  BY <1>1, SourceAssumption DEF Byte

LEMMA OneByte == ASSUME NEW b \in Byte PROVE <<b>> \in Seq(Byte)
<1> HIDE DEF Byte
<1> QED  OBVIOUS

LEMMA WithOpCodeSound ==
  ASSUME NEW c \in Sound, NEW item \in Items,
         item.kind \in {"op", "imm", "jump", "local", "call"}
  PROVE  WithOpCode(c, item) \in Sound
<1>1. OpCode[item.kind] \in Byte  BY DEF OpCode, Byte
<1>2. <<OpCode[item.kind]>> \in Seq(Byte)  BY <1>1, OneByte
<1> QED  BY <1>2, AppendBytesSound DEF WithOpCode

LEMMA AppendEncoded ==
  ASSUME NEW c \in Sound, NEW value \in Int, NEW n \in {0, 1, 2, 4}
  PROVE  AppendBytes(c, Encoded(value, n)) \in Sound
BY EncodedType, AppendBytesSound

LEMMA AppendRelocationSound ==
  ASSUME NEW c \in Sound, NEW type \in DOMAIN SizeOf, NEW item \in Items
  PROVE  AsmUtilAppendRelocation(c, type, item) \in Sound
<1>1. item.symbol \in STRING /\ item.value \in Int  BY ItemHas
<1>2. CASE item.symbol # ""
  BY <1>1, <1>2, AddRelocationSound DEF AsmUtilAppendRelocation
<1>3. CASE item.symbol = ""
  BY <1>1, <1>3, AppendEncoded, Sizes DEF AsmUtilAppendRelocation
<1> QED  BY <1>2, <1>3

\* A buffer with other variables.
LEMMA LocalsSound ==
  ASSUME NEW c \in Sound, NEW l \in Seq(Variable)
  PROVE  [c EXCEPT !.locals = l] \in Sound
<1> DEFINE d == [c EXCEPT !.locals = l]
<1>1. /\ c = [bytes |-> c.bytes, relocations |-> c.relocations, locals |-> c.locals]
      /\ c.bytes \in Seq(Byte) /\ c.relocations \in Seq(Relocation)
      /\ Within(c.relocations, Len(c.bytes))
  BY SoundHas
<1>2. d = [bytes |-> c.bytes, relocations |-> c.relocations, locals |-> l]  BY <1>1
<1> HIDE DEF d
<1>3. d \in Sound  BY <1>1, <1>2, SoundIs
<1> QED  BY <1>3 DEF d

LEMMA DeclaredSound ==
  ASSUME NEW c \in Sound, NEW name \in STRING
  PROVE  Declared(c, name) \in Sound
<1> DEFINE v == [name |-> name, index |-> 0]
           l == Append(c.locals, v)
<1>1. v \in Variable  BY DEF Variable, Byte
<1>2. c.locals \in Seq(Variable)  BY SoundHas
<1> HIDE DEF v
<1>3. l \in Seq(Variable)  BY <1>1, <1>2
<1>4. [c EXCEPT !.locals = l] \in Sound
  <2> HIDE DEF l
  <2> QED  BY <1>3, LocalsSound
<1>5. Declared(c, name) = c \/ Declared(c, name) = [c EXCEPT !.locals = l]
  BY DEF Declared, v
<1> QED  BY <1>4, <1>5

\* The reduction of an item leaves a sound buffer.
LEMMA ReducedSound ==
  ASSUME NEW c \in Sound, NEW item \in Items
  PROVE  Reduced(c, item) \in Sound
<1> DEFINE k == item.kind
<1>0. /\ k \in ItemKinds /\ item.symbol \in STRING /\ item.value \in Int
      /\ k = "byte" => item.value \in Byte
      /\ k = "skip" => item.value \in Nat
  BY ItemHas
<1>1. CASE k = "op"
  BY <1>1, WithOpCodeSound DEF Reduced
<1>2. CASE k = "imm"  BY <1>0, <1>2, AppendEncoded, WithOpCodeSound DEF Reduced
<1>3. CASE k \in {"jump", "local"}
  BY <1>3, AppendRelocationSound, WithOpCodeSound DEF SizeOf, Reduced
<1>4. CASE k = "call"  BY <1>4, AppendRelocationSound, WithOpCodeSound DEF SizeOf, Reduced
<1>5. CASE k \in {"label", "handle"}  BY <1>5, AppendRelocationSound DEF SizeOf, Reduced
<1>6. CASE k = "declare"  BY <1>0, <1>6, DeclaredSound DEF Reduced
<1>7. CASE k = "byte"
  BY <1>0, <1>7, AppendBytesSound, EmptySound, MergeSound, OneByte DEF Reduced
<1>8. CASE k = "word"  BY <1>0, <1>8, AppendEncoded, EmptySound, MergeSound DEF Reduced
<1>9. CASE k = "skip"  BY <1>0, <1>9, AppendBytesSound, FillBytes DEF Reduced
<1> HIDE DEF k
<1> QED  BY <1>0, <1>1, <1>2, <1>3, <1>4, <1>5, <1>6, <1>7, <1>8, <1>9 DEF ItemKinds

\* The indices of variables are bytes: locals from 0, arguments behind all
\* possible locals (AsmUtilProcessLocals).
LEMMA ProcessLocalsSound ==
  ASSUME NEW c \in Sound, NEW args \in Seq(STRING),
         Len(c.locals) <= MaxLocals, Len(args) <= MaxArgs
  PROVE  AsmUtilProcessLocals(c, args) \in Sound
<1> DEFINE l == IndexedLocals(c)
           a == IndexedArgs(args)
           n == Len(c.locals)
           m == Len(args)
<1>1. /\ MaxLocals \in Nat /\ MaxArgs \in Nat /\ MaxLocals <= 255
      /\ MaxLocals + MaxArgs <= 256
  BY LimitsHave
<1>2. c.locals \in Seq(Variable)  BY SoundHas
<1>3. n \in Nat /\ m \in Nat /\ DOMAIN c.locals = 1 .. n /\ DOMAIN args = 1 .. m
      /\ n <= MaxLocals /\ m <= MaxArgs
  BY <1>2
<1>4. l \in Seq(Variable)
  <2>1. l = [i \in 1 .. n |-> [name |-> c.locals[i].name, index |-> i - 1]]
    BY <1>3 DEF IndexedLocals
  <2>2. ASSUME NEW i \in 1 .. n PROVE l[i] \in Variable
    <3>1. c.locals[i] \in Variable  BY <1>2
    <3>2. c.locals[i].name \in STRING  BY <3>1 DEF Variable
    <3>3. l[i] = [name |-> c.locals[i].name, index |-> i - 1]  BY <2>1
    <3> HIDE DEF l
    <3>4. i - 1 \in Byte  BY <1>1, <1>3 DEF Byte
    <3> QED  BY <3>2, <3>3, <3>4 DEF Variable
  <2>3. l = [i \in 1 .. n |-> l[i]]  BY <2>1
  <2> HIDE DEF l, n
  <2> QED  BY <1>3, <2>2, <2>3, SeqIs
<1>5. a \in Seq(Variable)
  <2>1. a = [i \in 1 .. m |-> [name |-> args[i], index |-> MaxLocals + i - 1]]
    BY <1>3 DEF IndexedArgs
  <2>2. ASSUME NEW i \in 1 .. m PROVE a[i] \in Variable
    BY <1>1, <1>3, <2>1 DEF Byte, Variable
  <2>3. a = [i \in 1 .. m |-> a[i]]  BY <2>1
  <2> HIDE DEF a, m
  <2> QED  BY <1>3, <2>2, <2>3, SeqIs
<1>6. AsmUtilProcessLocals(c, args) = [c EXCEPT !.locals = l \o a]
  BY DEF AsmUtilProcessLocals
<1> HIDE DEF l, a
<1>7. l \o a \in Seq(Variable)  BY <1>4, <1>5, Concat
<1>8. [c EXCEPT !.locals = l \o a] \in Sound  BY <1>7, LocalsSound
<1> QED  BY <1>6, <1>8

----------------------------------------------------------------------------
(***************************************************************************)
(* The linker's second pass.                                               *)
(***************************************************************************)

\* A name that is found is found in the chain.
LEMMA LookupIn ==
  ASSUME NEW chain, Len(chain) \in Nat, NEW name, Lookup(chain, name) # 0
  PROVE  Lookup(chain, name) \in 1 .. Len(chain)
<1> DEFINE T == {i \in 1 .. Len(chain) : chain[i].name = name}
<1>1. Lookup(chain, name) = IF T # {} THEN Min(T) ELSE 0
  BY DEF Lookup, SelectInSeq
<1>2. T \subseteq 1 .. Len(chain) /\ T \subseteq Nat
  OBVIOUS
<1> HIDE DEF T
<1>3. T # {} => Min(T) \in T  BY <1>2, MinIn
<1> QED  BY <1>1, <1>2, <1>3

LEMMA FindLabelIn ==
  ASSUME NEW chain, Len(chain) \in Nat, NEW symbol,
         AsmRelocationsFindLabel(chain, symbol) # 0
  PROVE  AsmRelocationsFindLabel(chain, symbol) \in 1 .. Len(chain)
<1> DEFINE T == {i \in 1 .. Len(chain) :
                   chain[i].type = "label" /\ chain[i].symbol = symbol}
<1>1. AsmRelocationsFindLabel(chain, symbol) = IF T # {} THEN Min(T) ELSE 0
  BY DEF AsmRelocationsFindLabel, SelectInSeq
<1>2. T \subseteq 1 .. Len(chain) /\ T \subseteq Nat
  OBVIOUS
<1> HIDE DEF T
<1>3. T # {} => Min(T) \in T  BY <1>2, MinIn
<1> QED  BY <1>1, <1>2, <1>3

\* What a relocation is resolved to is a number.
LEMMA ResolvedType ==
  ASSUME NEW objs \in Seq(Object), NEW c \in Sound, NEW r \in Relocation,
         r.type # "label", Resolvable(objs, c, r)
  PROVE  Resolved(objs, c, r) \in Int
<1>1. r.type \in {"local", "jump", "handle"} /\ r.offset \in Nat
  BY DEF Relocation, SizeOf
<1>2. CASE r.type = "handle"
  <2> DEFINE i == Lookup(objs, r.symbol)
  <2>1. i # 0  BY <1>2 DEF Resolvable
  <2>2. i \in 1 .. Len(objs)  BY <2>1, LookupIn
  <2> HIDE DEF i
  <2>3. objs[i] \in Object  BY <2>2
  <2>4. objs[i].handle \in Nat  BY <2>3 DEF Object
  <2>5. Resolved(objs, c, r) = objs[i].handle  BY <1>2 DEF Resolved, i
  <2> QED  BY <2>4, <2>5
<1>3. CASE r.type = "local"
  <2> DEFINE l == c.locals
             i == Lookup(l, r.symbol)
  <2>1. i # 0  BY <1>3 DEF Resolvable
  <2>2. l \in Seq(Variable) /\ Len(l) \in Nat  BY SoundHas
  <2>3. i \in 1 .. Len(l)  BY <2>1, <2>2, LookupIn
  <2>4. Resolved(objs, c, r) = l[i].index  BY <1>3 DEF Resolved
  <2> HIDE DEF i, l
  <2>5. l[i] \in Variable  BY <2>2, <2>3
  <2>6. \A v \in Variable : v.index \in Byte  BY DEF Variable
  <2>7. \A b \in Byte : b \in Int  BY DEF Byte
  <2> QED  BY <2>4, <2>5, <2>6, <2>7
<1>4. CASE r.type = "jump"
  BY <1>1, <1>4, FindLabelIn, SoundHas DEF Resolvable, Delta, Relocation, Resolved
<1> QED  BY <1>1, <1>2, <1>3, <1>4

\* An operand replaces bytes by bytes.
LEMMA ApplySound ==
  ASSUME NEW c \in Sound, NEW r \in Relocation, NEW value \in Int
  PROVE  AsmCodeApplyRelocation(c, r, value) \in Sound
<1> DEFINE o == Encoded(value, SizeOf[r.type])
           b == [i \in DOMAIN c.bytes |-> IF i - r.offset \in DOMAIN o
                                          THEN o[i - r.offset] ELSE c.bytes[i]]
           n == Len(c.bytes)
           d == AsmCodeApplyRelocation(c, r, value)
<1>1. o \in Seq(Byte)  BY EncodedType, Sizes DEF Relocation
<1>2. /\ c = [bytes |-> c.bytes, relocations |-> c.relocations, locals |-> c.locals]
      /\ c.bytes \in Seq(Byte) /\ c.relocations \in Seq(Relocation)
      /\ c.locals \in Seq(Variable) /\ Within(c.relocations, Len(c.bytes))
      /\ n \in Nat
  BY SoundHas
<1>3. d = [c EXCEPT !.bytes = b]
  BY DEF AsmCodeApplyRelocation
<1> HIDE DEF o
<1>4. DOMAIN c.bytes = 1 .. n  BY <1>2
<1>5. b = [i \in 1 .. n |-> b[i]]  BY <1>4
<1>6. \A i \in 1 .. n : b[i] \in Byte  BY <1>1, <1>2, <1>4
<1> HIDE DEF b, d, n
<1>7. b \in Seq(Byte) /\ Len(b) = n  BY <1>2, <1>5, <1>6, SeqIs
<1>8. d = [bytes |-> b, relocations |-> c.relocations, locals |-> c.locals]  BY <1>2, <1>3
<1>9. Within(c.relocations, Len(b))  BY <1>2, <1>7 DEF n
<1>10. d \in Sound  BY <1>2, <1>7, <1>8, <1>9, SoundIs
<1> QED  BY <1>10 DEF d

LinkPass == [content : Sound, errors : Nat]

LEMMA RelocateType ==
  ASSUME NEW objs \in Seq(Object), NEW pass \in LinkPass, NEW r \in Relocation
  PROVE  Relocate(objs, pass, r) \in LinkPass
<1> DEFINE c == pass.content
           more == [pass EXCEPT !.errors = @ + 1]
           new == AsmCodeApplyRelocation(c, r, Resolved(objs, c, r))
           applied == [pass EXCEPT !.content = new]
<1>1. c \in Sound /\ pass.errors \in Nat  BY DEF LinkPass
<1>2. more \in LinkPass
  <2>1. pass.errors + 1 \in Nat  BY <1>1
  <2> QED  BY <2>1 DEF LinkPass
<1>3. ASSUME r.type # "label", Resolvable(objs, c, r)  PROVE applied \in LinkPass
  BY <1>1, <1>3, ApplySound, ResolvedType DEF LinkPass
<1>4. \/ Relocate(objs, pass, r) = pass
      \/ Relocate(objs, pass, r) = more
      \/ /\ r.type # "label" /\ Resolvable(objs, c, r)
         /\ Relocate(objs, pass, r) = applied
  BY DEF Relocate
<1> HIDE DEF more, applied, c
<1> QED  BY <1>2, <1>3, <1>4

\* Linking an object relocates what the chain holds, one after the other.
LEMMA LinkObjectRuns ==
  ASSUME NEW objs \in Seq(Object), NEW c \in Sound
  PROVE  \E pass :
           /\ AsmLinkObject(objs, c) = pass[Len(c.relocations)]
           /\ pass[0] = [content |-> c, errors |-> 0]
           /\ \A i \in 1 .. Len(c.relocations) :
                pass[i] = Relocate(objs, pass[i - 1], c.relocations[i])
           /\ \A i \in 0 .. Len(c.relocations) : pass[i] \in LinkPass
<1> DEFINE n == Len(c.relocations)
           start == [content |-> c, errors |-> 0]
           Is(f) == f = [i \in 0 .. n |-> IF i = 0 THEN start
                                          ELSE Relocate(objs, f[i - 1], c.relocations[i])]
           body == [p \in (1 .. n) \X LinkPass |-> Relocate(objs, p[2], c.relocations[p[1]])]
           pass == CHOOSE f : Is(f)
<1>1. n \in Nat /\ c.relocations \in Seq(Relocation)  BY SoundHas
<1>2. start \in LinkPass  BY DEF LinkPass
<1>3. \A i \in 1 .. n, p \in LinkPass : Relocate(objs, p, c.relocations[i]) \in LinkPass
  BY <1>1, RelocateType
<1>4. AsmLinkObject(objs, c) = pass[n]  BY DEF AsmLinkObject
<1> HIDE DEF start, n
<1>5. /\ body \in [(1 .. n) \X LinkPass -> LinkPass]
      /\ \A i \in 1 .. n, p \in LinkPass :
            body[<<i, p>>] = Relocate(objs, p, c.relocations[i])
  BY <1>3
<1> HIDE DEF body
<1>6. PICK g \in [0 .. n -> LinkPass] : Runs(g, n, start, body)
  <2> HIDE DEF Is
  <2> QED  BY <1>1, <1>2, <1>5, LoopExists
<1>7. Is(g)
  <2>1. \A i \in 1 .. n : g[i - 1] \in LinkPass  BY <1>1
  <2>2. \A i \in 1 .. n : g[i] = Relocate(objs, g[i - 1], c.relocations[i])
    BY <1>5, <1>6, <2>1 DEF Runs
  <2> QED  BY <1>6, <2>2 DEF Runs
<1>8. Is(pass)
  <2> HIDE DEF Is
  <2> QED  BY <1>7
<1> HIDE DEF pass
<1>9. /\ pass[0] = start
      /\ \A i \in 1 .. n : pass[i] = Relocate(objs, pass[i - 1], c.relocations[i])
  BY <1>1, <1>8
<1>10. \A i \in 0 .. n : pass[i] \in LinkPass  BY <1>1, <1>2, <1>3, <1>9, LoopType
<1> HIDE DEF Is
<1> QED  BY <1>4, <1>9, <1>10 DEF start, n

\* Linking an object leaves a sound buffer, and counts errors.
LEMMA LinkObjectType ==
  ASSUME NEW objs \in Seq(Object), NEW c \in Sound
  PROVE  AsmLinkObject(objs, c) \in LinkPass
<1> DEFINE n == Len(c.relocations)
<1>1. PICK pass : /\ AsmLinkObject(objs, c) = pass[n]
                  /\ \A i \in 0 .. n : pass[i] \in LinkPass
  BY LinkObjectRuns
<1>2. n \in 0 .. n  BY SoundHas
<1> QED  BY <1>1, <1>2

\* The errors of all passes: none exactly when no pass has any.
LEMMA ErrorsOfType ==
  ASSUME NEW passes, Len(passes) \in Nat,
         \A i \in 1 .. Len(passes) : passes[i].errors \in Nat
  PROVE  /\ ErrorsOf(passes) \in Nat
         /\ ErrorsOf(passes) = 0 <=> \A i \in 1 .. Len(passes) : passes[i].errors = 0
<1> DEFINE n == Len(passes)
           Is(f) == f = [i \in 0 .. n |-> IF i = 0 THEN 0 ELSE f[i - 1] + passes[i].errors]
           body == [p \in (1 .. n) \X Nat |-> p[2] + passes[p[1]].errors]
           sum == CHOOSE f : Is(f)
<1>1. ErrorsOf(passes) = sum[n]  BY DEF ErrorsOf
<1>2. n \in Nat  OBVIOUS
<1>3. \A i \in 1 .. n, x \in Nat : x + passes[i].errors \in Nat  OBVIOUS
<1> HIDE DEF n
<1>4. /\ body \in [(1 .. n) \X Nat -> Nat]
      /\ \A i \in 1 .. n, x \in Nat : body[<<i, x>>] = x + passes[i].errors
  BY <1>3
<1> HIDE DEF body
<1>5. PICK g \in [0 .. n -> Nat] : Runs(g, n, 0, body)  BY <1>2, <1>4, LoopExists
<1>6. Is(g)
  <2>1. \A i \in 1 .. n : g[i - 1] \in Nat  BY <1>2
  <2>2. \A i \in 1 .. n : g[i] = g[i - 1] + passes[i].errors
    BY <1>4, <1>5, <2>1 DEF Runs
  <2> QED  BY <1>5, <2>2 DEF Runs
<1>7. Is(sum)
  <2> HIDE DEF Is
  <2> QED  BY <1>6
<1> HIDE DEF sum
<1>8. sum[0] = 0 /\ \A i \in 1 .. n : sum[i] = sum[i - 1] + passes[i].errors
  BY <1>2, <1>7
<1>9. \A i \in 0 .. n : sum[i] \in Nat
  <2>1. \A i \in 1 .. n : sum[i - 1] \in Nat => sum[i] \in Nat
    BY <1>3, <1>8
  <2>2. sum[0] \in Nat  BY <1>8
  <2> HIDE DEF Is
  <2> QED  BY <1>2, <2>1, <2>2, LoopType
<1> HIDE DEF Is
<1> DEFINE P == {i \in 0 .. n : sum[i] = 0 <=> \A j \in 1 .. i : passes[j].errors = 0}
<1>10. 0 \in P  BY <1>2, <1>8
<1>11. \A i \in 1 .. n : i - 1 \in P => i \in P
  <2> SUFFICES ASSUME NEW i \in 1 .. n, i - 1 \in P PROVE i \in P  OBVIOUS
  <2>1. sum[i] = sum[i - 1] + passes[i].errors /\ passes[i].errors \in Nat
    BY <1>8 DEF n
  <2>2. sum[i - 1] \in Nat  BY <1>2, <1>9
  <2>3. sum[i - 1] = 0 <=> \A j \in 1 .. i - 1 : passes[j].errors = 0  OBVIOUS
  <2>4. \A j \in 1 .. i : j = i \/ j \in 1 .. i - 1  BY <1>2
  <2>5. \A j \in 1 .. i - 1 : j \in 1 .. i  BY <1>2
  <2>6. sum[i] = 0 <=> sum[i - 1] = 0 /\ passes[i].errors = 0  BY <2>1, <2>2
  <2>7. i \in 1 .. i /\ i \in 0 .. n  BY <1>2
  <2>8. sum[i] = 0 <=> \A j \in 1 .. i : passes[j].errors = 0
    BY <2>3, <2>4, <2>5, <2>6, <2>7
  <2> QED  BY <2>7, <2>8
<1> HIDE DEF P
<1>12. \A i \in 0 .. n : i \in P  BY <1>2, <1>10, <1>11, CountingUp
<1>13. n \in 0 .. n  BY <1>2
<1>14. sum[n] = 0 <=> \A j \in 1 .. n : passes[j].errors = 0  BY <1>12, <1>13 DEF P
<1> QED  BY <1>1, <1>9, <1>13, <1>14 DEF n

----------------------------------------------------------------------------
(***************************************************************************)
(* The linker's first pass.                                                *)
(***************************************************************************)

HandlesOfKind(kind) == IF kind = "function" THEN CodeFirst .. CodeLast
                                            ELSE DataFirst .. DataLast

\* What the pass has in its variables when objs were the objects.
AssignPass(objs) ==
  {p \in [objs : Seq(Object), code : Nat, data : Nat, errors : Nat] :
     /\ Len(p.objs) = Len(objs)
     /\ CodeFirst <= p.code /\ DataFirst <= p.data}

LEMMA RangesHave ==
  /\ CodeFirst \in Nat /\ CodeFirst > 0 /\ CodeLast \in Nat
  /\ DataFirst \in Nat /\ DataFirst > 0 /\ DataLast \in Nat
<1>1. CodeFirst \in Nat \ {0} /\ CodeLast \in Nat
  BY AssemblerAssumption
<1>2. DataFirst \in Nat \ {0} /\ DataLast \in Nat
  BY AssemblerAssumption
<1> QED  BY <1>1, <1>2

\* A handle that is found is in the range and belongs to no object.
LEMMA FreeHandle ==
  ASSUME NEW objs, NEW start \in Nat, NEW limit \in Nat
  PROVE  LET handle == AsmFindFreeHandle(objs, start, limit)
         IN  \/ handle = NullHandle
             \/ handle \in start .. limit /\ handle \notin HandlesOf(objs)
<1> DEFINE free == (start .. limit) \ HandlesOf(objs)
<1>1. AsmFindFreeHandle(objs, start, limit) = IF free = {} THEN NullHandle ELSE Min(free)
  BY DEF AsmFindFreeHandle
<1>2. free \subseteq Nat
  OBVIOUS
<1>3. free # {} => Min(free) \in free
  <2> HIDE DEF free
  <2> QED  BY <1>2, MinIn
<1> QED  BY <1>1, <1>3

\* AsmObjectSetHandle
LEMMA SetHandle ==
  ASSUME NEW objs \in Seq(Object), NEW i \in 1 .. Len(objs), NEW handle \in Nat
  PROVE  LET set == [objs EXCEPT ![i].handle = handle]
         IN  /\ set \in Seq(Object) /\ Len(set) = Len(objs)
             /\ set[i].handle = handle /\ set[i].kind = objs[i].kind
             /\ set[i].content = objs[i].content /\ set[i].name = objs[i].name
             /\ \A j \in 1 .. Len(objs) : j # i => set[j] = objs[j]
<1> DEFINE x == objs[i]
           y == [x EXCEPT !.handle = handle]
           set == [objs EXCEPT ![i] = y]
           n == Len(objs)
<1>1. x \in Object /\ n \in Nat /\ DOMAIN objs = 1 .. n  OBVIOUS
<1>2. [objs EXCEPT ![i].handle = handle] = set  OBVIOUS
<1>3. \A j \in 1 .. n : objs[j] \in Object  OBVIOUS
<1>4. objs = [j \in 1 .. n |-> objs[j]]  BY <1>1
<1> HIDE DEF x
<1>5. /\ y \in Object /\ y.handle = handle /\ y.kind = x.kind
      /\ y.content = x.content /\ y.name = x.name
  BY <1>1 DEF Object
<1> HIDE DEF y
<1>6. i \in 1 .. n  OBVIOUS
<1> HIDE DEF n
<1>7. set = [j \in 1 .. n |-> IF j = i THEN y ELSE objs[j]]
  BY <1>4
<1>8. \A j \in 1 .. n : set[j] = IF j = i THEN y ELSE objs[j]
  BY <1>7
<1>9. set = [j \in 1 .. n |-> set[j]]  BY <1>7
<1> HIDE DEF set
<1>10. \A j \in 1 .. n : set[j] \in Object  BY <1>3, <1>5, <1>8
<1>11. set \in Seq(Object) /\ Len(set) = n  BY <1>1, <1>9, <1>10, SeqIs
<1>12. set[i] = y /\ \A j \in 1 .. n : j # i => set[j] = objs[j]  BY <1>6, <1>8
<1> QED  BY <1>2, <1>5, <1>11, <1>12 DEF n, x

\* What an iteration does: nothing, an error, or a fresh handle of the kind.
LEMMA AssignCases ==
  ASSUME NEW objs \in Seq(Object), NEW pass \in AssignPass(objs), NEW i \in 1 .. Len(objs)
  PROVE  LET o == pass.objs
             a == AssignHandle(pass, i)
         IN  /\ a \in AssignPass(objs)
             /\ \/ o[i].handle # NullHandle /\ a = pass
                \/ a.objs = o /\ a.errors = pass.errors + 1
                \/ \E handle \in HandlesOfKind(o[i].kind) \ HandlesOf(o) :
                     /\ o[i].handle = NullHandle /\ handle \in Nat
                     /\ a.objs = [o EXCEPT ![i].handle = handle]
                     /\ a.errors = pass.errors
<1> DEFINE o == pass.objs
           isCode == o[i].kind = "function"
           limit  == IF isCode THEN CodeLast ELSE DataLast
           next   == IF isCode THEN pass.code ELSE pass.data
           handle == AsmFindFreeHandle(o, next, limit)
           after  == NextHandle(handle, next, limit)
           set    == [o EXCEPT ![i].handle = handle]
           more   == [pass EXCEPT !.errors = @ + 1]
           done   == [objs |-> set, code |-> IF isCode THEN after ELSE pass.code,
                      data |-> IF isCode THEN pass.data ELSE after,
                      errors |-> pass.errors]
           a      == AssignHandle(pass, i)
<1>1. /\ pass = [objs |-> o, code |-> pass.code, data |-> pass.data, errors |-> pass.errors]
      /\ o \in Seq(Object) /\ Len(o) = Len(objs)
      /\ pass.code \in Nat /\ pass.data \in Nat /\ pass.errors \in Nat
      /\ CodeFirst <= pass.code /\ DataFirst <= pass.data
  BY DEF AssignPass
<1>2. a = IF o[i].handle # NullHandle THEN pass
          ELSE IF handle = NullHandle THEN more ELSE done
  BY DEF AssignHandle
<1>3. CASE o[i].handle # NullHandle  BY <1>2, <1>3 DEF a, o
<1>4. CASE o[i].handle = NullHandle /\ handle = NullHandle
  <2>1. a = more  BY <1>2, <1>4
  <2>2. more = [objs |-> o, code |-> pass.code, data |-> pass.data,
                errors |-> pass.errors + 1]
    BY <1>1
  <2>3. pass.errors + 1 \in Nat  BY <1>1
  <2> HIDE DEF a, o, more
  <2>4. a.objs = o /\ a.errors = pass.errors + 1  BY <2>1, <2>2
  <2>5. a \in AssignPass(objs)  BY <1>1, <2>1, <2>2, <2>3 DEF AssignPass
  <2> QED  BY <2>4, <2>5 DEF a, o
<1>5. CASE o[i].handle = NullHandle /\ handle # NullHandle
  <2>1. a = done  BY <1>2, <1>5
  <2>2. limit \in Nat /\ next \in Nat  BY <1>1, RangesHave
  <2>3. handle \in next .. limit /\ handle \notin HandlesOf(o)
    <3> HIDE DEF next, limit, o
    <3> QED  BY <1>5, <2>2, FreeHandle
  <2>4. handle \in HandlesOfKind(o[i].kind) /\ handle \in Nat
    <3> HIDE DEF handle, o
    <3> QED  BY <1>1, <2>3, RangesHave DEF HandlesOfKind
  <2>5. after \in Nat /\ next <= after  BY <2>2, <2>3 DEF NextHandle
  <2>6. i \in 1 .. Len(o)  BY <1>1
  <2>7. set \in Seq(Object) /\ Len(set) = Len(o)
    <3> HIDE DEF handle, o
    <3> QED  BY <1>1, <2>4, <2>6, SetHandle, SMTT(20)
  <2> DEFINE nextCode == IF isCode THEN after ELSE pass.code
             nextData == IF isCode THEN pass.data ELSE after
  <2>8. /\ nextCode \in Nat /\ nextData \in Nat
        /\ CodeFirst <= nextCode /\ DataFirst <= nextData
    <3>1. CASE isCode  BY <1>1, <2>5, <3>1, RangesHave
    <3>2. CASE ~ isCode  BY <1>1, <2>5, <3>2, RangesHave
    <3> QED  BY <3>1, <3>2
  <2>9. a = [objs |-> set, code |-> nextCode, data |-> nextData, errors |-> pass.errors]
    BY <2>1
  <2>10. set = [o EXCEPT ![i].handle = handle]  OBVIOUS
  <2> HIDE DEF a, set, nextCode, nextData, handle, o
  <2>11. a \in AssignPass(objs)  BY <1>1, <2>7, <2>8, <2>9 DEF AssignPass
  <2>12. a.objs = set /\ a.errors = pass.errors  BY <2>9
  <2>13. \E h \in HandlesOfKind(o[i].kind) \ HandlesOf(o) :
           /\ o[i].handle = NullHandle /\ h \in Nat
           /\ a.objs = [o EXCEPT ![i].handle = h]
           /\ a.errors = pass.errors
    BY <1>5, <2>3, <2>4, <2>10, <2>12
  <2> QED  BY <2>11, <2>13 DEF a, o
<1> QED  BY <1>3, <1>4, <1>5

\* The handle of object i is in the range of its kind and is its own.
Chosen(objs, i) ==
  /\ objs[i].handle \in HandlesOfKind(objs[i].kind)
  /\ \A j \in 1 .. Len(objs) : j # i => objs[j].handle # objs[i].handle

\* After n iterations: handles of the source and those that are still to come
\* are kept, and without an error the first n objects that had none have one.
Assigned(objs, pass, n) ==
  /\ \A i \in 1 .. Len(objs) :
       /\ pass.objs[i].kind = objs[i].kind
       /\ objs[i].handle # NullHandle \/ i > n => pass.objs[i].handle = objs[i].handle
  /\ pass.errors = 0 =>
       \A i \in 1 .. n : objs[i].handle = NullHandle => Chosen(pass.objs, i)

LEMMA AssignStep ==
  ASSUME NEW objs \in Seq(Object), NEW n \in 1 .. Len(objs), NEW pass \in AssignPass(objs),
         Assigned(objs, pass, n - 1)
  PROVE  Assigned(objs, AssignHandle(pass, n), n)
<1> DEFINE o == pass.objs
           a == AssignHandle(pass, n)
           m == Len(objs)
<1>1. /\ o \in Seq(Object) /\ Len(o) = m /\ m \in Nat /\ pass.errors \in Nat
      /\ n \in 1 .. m
  BY DEF AssignPass
<1>2. \/ o[n].handle # NullHandle /\ a = pass
      \/ a.objs = o /\ a.errors = pass.errors + 1
      \/ \E handle \in HandlesOfKind(o[n].kind) \ HandlesOf(o) :
           /\ o[n].handle = NullHandle /\ handle \in Nat
           /\ a.objs = [o EXCEPT ![n].handle = handle]
           /\ a.errors = pass.errors
  BY AssignCases
<1>3. /\ \A i \in 1 .. m :
           /\ o[i].kind = objs[i].kind
           /\ objs[i].handle # NullHandle \/ i > n - 1 => o[i].handle = objs[i].handle
      /\ pass.errors = 0 =>
           \A i \in 1 .. n - 1 : objs[i].handle = NullHandle => Chosen(o, i)
  BY DEF Assigned
<1>4. \A i \in 1 .. m : i > n => i > n - 1
  <2> HIDE DEF m
  <2> QED  BY <1>1
<1>5. \A i \in 1 .. n : i = n \/ i \in 1 .. n - 1
  <2> HIDE DEF m
  <2> QED  BY <1>1
<1>6. n > n - 1
  <2> HIDE DEF m
  <2> QED  BY <1>1
<1> HIDE DEF a, o
<1>7. SUFFICES
        /\ \A i \in 1 .. m :
             /\ a.objs[i].kind = objs[i].kind
             /\ objs[i].handle # NullHandle \/ i > n => a.objs[i].handle = objs[i].handle
        /\ a.errors = 0 =>
             \A i \in 1 .. n : objs[i].handle = NullHandle => Chosen(a.objs, i)
  BY DEF Assigned, a
<1> HIDE DEF m
<1>8. CASE o[n].handle # NullHandle /\ a = pass
  BY <1>1, <1>3, <1>4, <1>5, <1>6, <1>8 DEF o
<1>9. CASE a.objs = o /\ a.errors = pass.errors + 1
  <2>1. a.errors # 0  BY <1>1, <1>9
  <2> QED  BY <1>3, <1>4, <1>9, <2>1
<1>10. CASE \E handle \in HandlesOfKind(o[n].kind) \ HandlesOf(o) :
              /\ o[n].handle = NullHandle /\ handle \in Nat
              /\ a.objs = [o EXCEPT ![n].handle = handle]
              /\ a.errors = pass.errors
  <2>1. PICK handle \in HandlesOfKind(o[n].kind) \ HandlesOf(o) :
              /\ o[n].handle = NullHandle /\ handle \in Nat
              /\ a.objs = [o EXCEPT ![n].handle = handle]
              /\ a.errors = pass.errors
    BY <1>10
  <2> DEFINE s == a.objs
  <2>2. /\ Len(s) = m
        /\ s[n].handle = handle /\ s[n].kind = o[n].kind
        /\ \A j \in 1 .. m : j # n => s[j] = o[j]
    BY <1>1, <2>1, SetHandle
  <2>3. objs[n].handle = NullHandle  BY <1>1, <1>3, <1>6, <2>1
  <2>4. \A j \in 1 .. m : o[j].handle # handle
    <3>1. DOMAIN o = 1 .. m  BY <1>1
    <3> QED  BY <2>1, <3>1 DEF HandlesOf
  <2> HIDE DEF s
  <2>5. ASSUME NEW i \in 1 .. m
        PROVE  /\ s[i].kind = objs[i].kind
               /\ objs[i].handle # NullHandle \/ i > n => s[i].handle = objs[i].handle
    <3>1. CASE i = n
      <4>1. ~ (i > n)  BY <1>1, <3>1
      <4> QED  BY <1>3, <2>2, <2>3, <3>1, <4>1
    <3>2. CASE i # n
      BY <1>3, <1>4, <2>2, <3>2
    <3> QED  BY <3>1, <3>2
  <2>6. ASSUME a.errors = 0, NEW i \in 1 .. n, objs[i].handle = NullHandle
        PROVE  Chosen(s, i)
    <3>0. i \in 1 .. m  BY <1>1
    <3>1. CASE i = n  BY <2>1, <2>2, <2>4, <3>1 DEF Chosen
    <3>2. CASE i # n
      <4>1. Chosen(o, i)  BY <1>3, <1>5, <2>1, <2>6, <3>2
      <4>2. s[i] = o[i]  BY <2>2, <3>0, <3>2
      <4>3. ASSUME NEW j \in 1 .. m, j # i PROVE s[j].handle # s[i].handle
        BY <1>1, <2>2, <2>4, <3>0, <4>1, <4>2, <4>3 DEF Chosen
      <4>4. s[i].handle \in HandlesOfKind(s[i].kind)  BY <4>1, <4>2 DEF Chosen
      <4> QED  BY <2>2, <4>3, <4>4 DEF Chosen
    <3> QED  BY <3>1, <3>2
  <2> QED  BY <2>5, <2>6 DEF s
<1> QED  BY <1>2, <1>8, <1>9, <1>10 DEF a, o

\* AsmAssignHandles takes the objects one after the other.
LEMMA AssignHandlesRun ==
  ASSUME NEW objs \in Seq(Object)
  PROVE  \E pass :
           /\ AsmAssignHandles(objs) = pass[Len(objs)]
           /\ pass[0] = [objs |-> objs, code |-> CodeFirst, data |-> DataFirst, errors |-> 0]
           /\ \A i \in 1 .. Len(objs) : pass[i] = AssignHandle(pass[i - 1], i)
           /\ \A i \in 0 .. Len(objs) : /\ pass[i] \in AssignPass(objs)
                                        /\ Assigned(objs, pass[i], i)
<1> DEFINE n == Len(objs)
           S == AssignPass(objs)
           start == [objs |-> objs, code |-> CodeFirst, data |-> DataFirst, errors |-> 0]
           Is(f) == f = [i \in 0 .. n |-> IF i = 0 THEN start ELSE AssignHandle(f[i - 1], i)]
           body == [p \in (1 .. n) \X S |-> AssignHandle(p[2], p[1])]
           pass == CHOOSE f : Is(f)
<1>1. n \in Nat  OBVIOUS
<1>2. start \in S
  BY RangesHave DEF AssignPass
<1>3. \A i \in 1 .. n, p \in S : AssignHandle(p, i) \in S
  BY AssignCases
<1>4. AsmAssignHandles(objs) = pass[n]  BY DEF AsmAssignHandles
<1>5. Assigned(objs, start, 0)
  BY <1>1 DEF Assigned
<1>6. \A i \in 1 .. n, p \in S :
        Assigned(objs, p, i - 1) => Assigned(objs, AssignHandle(p, i), i)
  BY AssignStep
<1> HIDE DEF start, n, S
<1>7. /\ body \in [(1 .. n) \X S -> S]
      /\ \A i \in 1 .. n, p \in S : body[<<i, p>>] = AssignHandle(p, i)
  BY <1>3
<1> HIDE DEF body
<1>8. PICK g \in [0 .. n -> S] : Runs(g, n, start, body)
  <2> HIDE DEF Is
  <2> QED  BY <1>1, <1>2, <1>7, LoopExists
<1>9. Is(g)
  <2>1. \A i \in 1 .. n : g[i - 1] \in S  BY <1>1
  <2>2. \A i \in 1 .. n : g[i] = AssignHandle(g[i - 1], i)
    BY <1>7, <1>8, <2>1 DEF Runs
  <2> QED  BY <1>8, <2>2 DEF Runs
<1>10. Is(pass)
  <2> HIDE DEF Is
  <2> QED  BY <1>9
<1> HIDE DEF pass
<1>11. pass[0] = start /\ \A i \in 1 .. n : pass[i] = AssignHandle(pass[i - 1], i)
  BY <1>1, <1>10
<1> HIDE DEF Is
<1>12. \A i \in 0 .. n : pass[i] \in S /\ Assigned(objs, pass[i], i)
  <2> DEFINE P == {i \in 0 .. n : pass[i] \in S /\ Assigned(objs, pass[i], i)}
  <2>1. 0 \in P  BY <1>1, <1>2, <1>5, <1>11
  <2>2. \A i \in 1 .. n : i - 1 \in P => i \in P  BY <1>1, <1>3, <1>6, <1>11
  <2> HIDE DEF P
  <2>3. \A i \in 0 .. n : i \in P  BY <1>1, <2>1, <2>2, CountingUp
  <2> QED  BY <2>3 DEF P
<1> QED  BY <1>4, <1>11, <1>12 DEF n, S, start

\* AsmAssignHandles, for any objects.
LEMMA AssignHandlesDo ==
  ASSUME NEW objs \in Seq(Object)
  PROVE  /\ AsmAssignHandles(objs) \in AssignPass(objs)
         /\ Assigned(objs, AsmAssignHandles(objs), Len(objs))
<1>1. PICK pass :
        /\ AsmAssignHandles(objs) = pass[Len(objs)]
        /\ \A i \in 0 .. Len(objs) : /\ pass[i] \in AssignPass(objs)
                                     /\ Assigned(objs, pass[i], i)
  BY AssignHandlesRun
<1>2. Len(objs) \in 0 .. Len(objs)  OBVIOUS
<1> QED  BY <1>1, <1>2

----------------------------------------------------------------------------
(***************************************************************************)
(* The steps of the assembler.                                             *)
(***************************************************************************)

\* The invariant, from its parts.
Status(ph, errs) == ph \in Phases /\ errs \in Nat /\ (errs > 0 <=> ph \in Failed)

LEMMA GoodStatus ==
  ASSUME NEW ph \in Parsing \cup {"parsed", "linked", "written"}
  PROVE  Status(ph, 0)
<1>1. ph \in Phases  BY DEF Phases
<1>2. ph \notin Failed  BY DEF Parsing, Failed
<1> QED  BY <1>1, <1>2 DEF Status

LEMMA BadStatus ==
  ASSUME NEW ph \in Failed, NEW n \in Nat \ {0}
  PROVE  Status(ph, n)
<1>1. ph \in Phases  BY DEF Phases
<1> QED  BY <1>1 DEF Status

LEMMA AInvIs ==
  ASSUME bigEndian \in BOOLEAN, fault \in BOOLEAN, fault => MayFail,
         Status(phase, errors), code \in Sound,
         objects \in Seq(Object), source \in Seq(Declaration),
         Corresponds, HandlesAssigned
  PROVE  AInv
BY DEF AInv, Status

LEMMA AInvHas ==
  ASSUME AInv
  PROVE  /\ bigEndian \in BOOLEAN /\ fault \in BOOLEAN /\ (fault => MayFail)
         /\ Status(phase, errors) /\ code \in Sound
         /\ objects \in Seq(Object) /\ source \in Seq(Declaration)
         /\ Corresponds /\ HandlesAssigned
         /\ phase \notin Failed => errors = 0
BY DEF AInv, Status

\* Nothing is claimed of the handles of a program that is not accepted.
LEMMA NotAccepted ==
  ASSUME phase \in Parsing \cup {"parsed", "parsing failed", "linking failed"}
  PROVE  HandlesAssigned
BY DEF Parsing, HandlesAssigned, Accepted

LEMMA ReductionStatus ==
  ASSUME AInv, phase \in Parsing, NEW n \in {0, 1}, NEW next \in Parsing,
         AfterReduction(n, next)
  PROVE  /\ Status(phase', errors')
         /\ phase' \in Parsing \cup {"parsed", "parsing failed", "linking failed"}
         /\ n = 0 => phase' = next
         /\ n = 1 => phase' = "parsing failed"
<1>1. errors = 0  BY AInvHas DEF Parsing, Failed
<1>2. CASE n = 0
  <2>1. errors' = 0 /\ phase' = next  BY <1>1, <1>2 DEF AfterReduction
  <2>2. Status(next, 0)  BY GoodStatus
  <2>3. n # 1  BY <1>2
  <2> QED  BY <1>2, <2>1, <2>2, <2>3, Zenon
<1>3. CASE n = 1
  <2>0. n # 0  BY <1>3
  <2>1. phase' = "parsing failed"  BY <2>0, Zenon DEF AfterReduction
  <2>2. errors' = errors + n + 1  BY <2>0, Zenon DEF AfterReduction
  <2>3. errors' \in Nat \ {0}  BY <1>1, <1>3, <2>2
  <2>4. Status("parsing failed", errors')  BY <2>3, BadStatus DEF Failed
  <2> QED  BY <2>0, <2>1, <2>4, Zenon
<1> QED  BY <1>2, <1>3

LEMMA InitInv == ASSUME Init PROVE AInv
<1>1. /\ bigEndian \in BOOLEAN /\ phase = "declarations" /\ errors = 0
      /\ objects = <<>> /\ code = EmptyCode /\ source = <<>> /\ fault = FALSE
  BY DEF Init
<1>2. Status(phase, errors)  BY <1>1, GoodStatus DEF Parsing
<1>3. Corresponds  BY <1>1 DEF Matches, Kind, Corresponds
<1>4. HandlesAssigned  BY <1>1, NotAccepted DEF Parsing
<1>5. objects \in Seq(Object) /\ source \in Seq(Declaration)  BY <1>1
<1>6. code \in Sound  BY <1>1, EmptySound
<1> QED  BY <1>1, <1>2, <1>3, <1>4, <1>5, <1>6, AInvIs

LEMMA BeginInv ==
  ASSUME AInv, NEW p \in Kind, NEW name \in STRING, NEW handle \in Nat,
         NEW args \in Seq(STRING), NEW results \in Nat,
         Begin(p, name, handle, args, results)
  PROVE  AInv'
<1> DEFINE d == [kind |-> p, name |-> name, handle |-> handle, args |-> args,
                 results |-> results, text |-> <<>>]
           n == Len(source)
<1>0. phase = "declarations"  BY DEF Begin
<1>1. /\ bigEndian \in BOOLEAN /\ fault \in BOOLEAN /\ (fault => MayFail)
      /\ objects \in Seq(Object) /\ source \in Seq(Declaration) /\ Corresponds
      /\ errors = 0 /\ n \in Nat
  BY <1>0, AInvHas DEF Failed
<1>2. /\ source' = Append(source, d) /\ code' = EmptyCode /\ phase' = p
      /\ UNCHANGED <<errors, objects, bigEndian, fault>>
  BY DEF Begin, Undefined
<1>3. d \in Declaration /\ d.kind = p
  <2>1. <<>> \in Seq(Items)  OBVIOUS
  <2> QED  BY <2>1 DEF Declaration
<1> HIDE DEF d
<1>4. /\ source' \in Seq(Declaration) /\ Len(source') = n + 1
      /\ source'[n + 1] = d
      /\ \A i \in 1 .. n : source'[i] = source[i]
  BY <1>1, <1>2, <1>3
<1>5. Status(phase', errors') /\ p \in Parsing
  BY <1>1, <1>2, GoodStatus DEF Parsing, Kind
<1>6. Corresponds'
  <2>1. Matches(objects, source, n)  BY <1>0, <1>1 DEF Corresponds
  <2>2. Matches(objects', source', n)
    <3> HIDE DEF n
    <3> QED  BY <1>2, <1>4, <2>1 DEF Matches
  <2>3. Len(source') - 1 = n /\ Len(source') > 0
    <3> HIDE DEF n
    <3> QED  BY <1>1, <1>4
  <2>4. source'[Len(source')].kind = phase'
    BY <1>2, <1>3, <1>4
  <2>5. phase' \notin {"declarations", "parsed"}  BY <1>2 DEF Kind
  <2> HIDE DEF n
  <2> QED  BY <2>2, <2>3, <2>4, <2>5 DEF Corresponds
<1>7. HandlesAssigned'  BY <1>2, <1>5, NotAccepted DEF HandlesAssigned, Accepted, Parsing
<1>8. code' \in Sound  BY <1>2, EmptySound
<1> QED  BY <1>1, <1>2, <1>4, <1>5, <1>6, <1>7, <1>8, AInvIs DEF AInv, Status

LEMMA ParseItemInv ==
  ASSUME AInv, NEW item \in Items, ParseItem(item)
  PROVE  AInv'
<1> DEFINE n == Len(source)
           d == source[n]
           e == [d EXCEPT !.text = Append(@, item)]
           rejected == IF Rejected(code, item) THEN 1 ELSE 0
<1>0. phase \in Kind  BY DEF ParseItem, Kind
<1>1. /\ bigEndian \in BOOLEAN /\ fault \in BOOLEAN /\ (fault => MayFail)
      /\ objects \in Seq(Object) /\ source \in Seq(Declaration) /\ Corresponds
      /\ code \in Sound
  BY AInvHas
<1>2. /\ source' = [source EXCEPT ![n] = e]
      /\ code' = Reduced(code, item)
      /\ AfterReduction(rejected, phase)
      /\ UNCHANGED <<objects, bigEndian, fault>>
  BY DEF ParseItem, Undefined
<1>3. /\ n > 0 /\ n \in Nat /\ Matches(objects, source, n - 1) /\ d.kind = phase
  BY <1>0, <1>1 DEF Corresponds
<1>4. d \in Declaration  BY <1>1, <1>3
<1>5. e \in Declaration /\ e.kind = d.kind /\ e.handle = d.handle
  <2> HIDE DEF d
  <2>1. d.text \in Seq(Items)  BY <1>4 DEF Declaration
  <2> DEFINE t == Append(d.text, item)
  <2>2. t \in Seq(Items)  BY <2>1
  <2>3. e = [d EXCEPT !.text = t]  OBVIOUS
  <2> HIDE DEF t, e
  <2> QED  BY <1>4, <2>2, <2>3 DEF Declaration
<1> HIDE DEF e, rejected
<1>6. /\ source' \in Seq(Declaration) /\ Len(source') = n
      /\ source'[n] = e /\ \A i \in 1 .. n : i # n => source'[i] = source[i]
  BY <1>1, <1>2, <1>3, <1>5
<1>7. phase \in Parsing /\ rejected \in {0, 1}
  BY <1>0 DEF Kind, Parsing, rejected
<1>8. /\ Status(phase', errors')
      /\ phase' \in Parsing \cup {"parsed", "parsing failed", "linking failed"}
      /\ phase' \in {phase, "parsing failed"}
  BY <1>2, <1>7, ReductionStatus
<1>9. Corresponds'
  <2>1. CASE phase' = phase
    <3>1. Matches(objects', source', n - 1)
      <4>1. \A i \in 1 .. n - 1 : i \in 1 .. n /\ i # n
        <5> HIDE DEF n
        <5> QED  BY <1>3
      <4> HIDE DEF n
      <4> QED  BY <1>2, <1>3, <1>6, <4>1 DEF Matches
    <3>2. source'[Len(source')].kind = phase'  BY <1>3, <1>5, <1>6, <2>1
    <3>3. phase' \notin {"declarations", "parsed"}  BY <1>0, <2>1 DEF Kind
    <3> HIDE DEF n, d
    <3> QED  BY <1>3, <1>6, <3>1, <3>2, <3>3 DEF Corresponds
  <2>2. CASE phase' = "parsing failed"
    BY <2>2 DEF Corresponds, Kind
  <2> QED  BY <1>8, <2>1, <2>2
<1>10. HandlesAssigned'  BY <1>8 DEF HandlesAssigned, Accepted, Parsing
<1>11. code' \in Sound  BY <1>1, <1>2, ReducedSound
<1> QED  BY <1>1, <1>2, <1>6, <1>8, <1>9, <1>10, <1>11 DEF AInv, Status

\* A phase in which parsing has failed.
LEMMA FailedInv ==
  ASSUME AInv, phase \in Parsing, NEW next \in Parsing, AfterReduction(1, next),
         fault' \in BOOLEAN, fault' => MayFail, bigEndian' = bigEndian,
         code' \in Sound, UNCHANGED <<objects, source>>
  PROVE  AInv'
<1>1. bigEndian \in BOOLEAN /\ objects \in Seq(Object) /\ source \in Seq(Declaration)
  BY AInvHas
<1>2. Status(phase', errors') /\ phase' = "parsing failed"
  BY ReductionStatus
<1>3. Corresponds'  BY <1>2 DEF Corresponds, Kind
<1>4. HandlesAssigned'  BY <1>2 DEF HandlesAssigned, Accepted
<1> QED  BY <1>1, <1>2, <1>3, <1>4 DEF AInv, Status

LEMMA DefineObjectInv ==
  ASSUME AInv, phase \in Kind, NEW c \in Sound, AsmUtilDefineObject(Open, c),
         code' = EmptyCode, UNCHANGED source, Undefined
  PROVE  AInv'
<1> DEFINE n == Len(source)
           d == source[n]
           r == [name |-> d.name, kind |-> d.kind, handle |-> d.handle, content |-> c]
<1>1. /\ bigEndian \in BOOLEAN /\ fault \in BOOLEAN /\ (fault => MayFail)
      /\ objects \in Seq(Object) /\ source \in Seq(Declaration) /\ Corresponds
  BY AInvHas
<1>2. UNCHANGED <<bigEndian, fault>>  BY DEF Undefined
<1>3. /\ n > 0 /\ n \in Nat /\ Matches(objects, source, n - 1) /\ d.kind = phase
  BY <1>1 DEF Corresponds
<1>4. d \in Declaration /\ Open = d  BY <1>1, <1>3 DEF Open, Last
<1>5. phase \in Parsing /\ "declarations" \in Parsing  BY DEF Kind, Parsing
<1>6. code' \in Sound  BY EmptySound
<1>7. CASE ~ AsmCanAddObjects(Open)
  BY <1>1, <1>2, <1>5, <1>6, <1>7, FailedInv DEF AsmUtilDefineObject
<1>8. CASE AsmCanAddObjects(Open)
  <2>1. objects' = Append(objects, r) /\ AfterReduction(0, "declarations")
    BY <1>4, <1>8 DEF AsmUtilDefineObject
  <2>2. r \in Object /\ r.kind = d.kind /\ r.handle = d.handle
    BY <1>4 DEF Declaration, Object
  <2> HIDE DEF r, d, n
  <2>3. Len(objects) = n - 1  BY <1>3 DEF Matches
  <2>4. /\ objects' \in Seq(Object) /\ Len(objects') = n /\ objects'[n] = r
        /\ \A i \in 1 .. n - 1 : objects'[i] = objects[i]
    BY <1>1, <1>3, <2>1, <2>2, <2>3
  <2>5. Status(phase', errors') /\ phase' = "declarations"
    BY <1>5, <2>1, ReductionStatus
  <2>6. Matches(objects', source, n)  BY <1>3, <2>2, <2>4 DEF Matches, d
  <2>7. Corresponds'  BY <2>5, <2>6 DEF n, Kind, Corresponds
  <2>8. HandlesAssigned'  BY <2>5 DEF HandlesAssigned, Accepted
  <2> QED  BY <1>1, <1>2, <1>6, <2>4, <2>5, <2>7, <2>8 DEF AInv, Status
<1> QED  BY <1>7, <1>8

LEMMA FourBytes ==
  ASSUME NEW a \in Byte, NEW b \in Byte, NEW c \in Byte, NEW d \in Byte
  PROVE  <<a, b, c, d>> \in Seq(Byte)
<1> HIDE DEF Byte
<1> QED  OBVIOUS

\* The buffer of a function that keeps its limits, with its metadata.
LEMMA FunctionSound ==
  ASSUME AInv, phase = "function", ~ TooMany(Open, code)
  PROVE  /\ Header(Open, code) \in Seq(Byte) /\ Len(Header(Open, code)) = 4
         /\ AsmCodeAddMetadata(AsmUtilProcessLocals(code, Open.args),
                               Header(Open, code)) \in Sound
<1> DEFINE n == Len(source)
           d == source[n]
           l == code.locals
           k == Len(l)
           m == Len(d.args)
           x == d.results
<1>1. source \in Seq(Declaration) /\ Corresponds /\ code \in Sound  BY AInvHas
<1>2. n > 0 /\ n \in Nat  BY <1>1 DEF Corresponds, Kind
<1>3. d \in Declaration /\ Open = d  BY <1>1, <1>2 DEF Open, Last
<1> HIDE DEF d
<1>4. ~ (x > MaxResults) /\ ~ (k > MaxLocals) /\ ~ (m > MaxArgs)
  BY <1>3 DEF TooMany
<1>5. l \in Seq(Variable)  BY <1>1, SoundHas
<1>6. x \in Nat /\ d.args \in Seq(STRING)  BY <1>3 DEF Declaration
<1>7. k \in Nat /\ m \in Nat  BY <1>5, <1>6
<1> HIDE DEF l, k, m, x
<1>8. x <= MaxResults /\ k <= MaxLocals /\ m <= MaxArgs
  BY <1>4, <1>6, <1>7, LimitsHave
<1>9. 0 \in Byte /\ x \in Byte /\ k \in Byte /\ m \in Byte
  BY <1>6, <1>7, <1>8, LimitsHave DEF Byte
<1>10. Header(Open, code) \in Seq(Byte) /\ Len(Header(Open, code)) = 4
  BY <1>3, <1>9, FourBytes DEF Header, k, m, l, x
<1>11. AsmUtilProcessLocals(code, Open.args) \in Sound
  BY <1>1, <1>3, <1>6, <1>8, ProcessLocalsSound DEF k, m, l
<1> QED  BY <1>10, <1>11, AddMetadataSound

LEMMA EndFunctionInv ==
  ASSUME AInv, EndFunction
  PROVE  AInv'
<1> DEFINE c == AsmCodeAddMetadata(AsmUtilProcessLocals(code, Open.args), Header(Open, code))
<1>1. fault \in BOOLEAN /\ (fault => MayFail) /\ source \in Seq(Declaration)
  BY AInvHas
<1>2. /\ phase = "function" /\ code' = EmptyCode /\ UNCHANGED source /\ Undefined
      /\ UNCHANGED <<bigEndian, fault>>
  BY DEF EndFunction, Undefined
<1>3. phase \in Kind /\ phase \in Parsing /\ "declarations" \in Parsing
  BY <1>2 DEF Kind, Parsing
<1>4. CASE TooMany(Open, code)
  BY <1>1, <1>2, <1>3, <1>4, EmptySound, FailedInv DEF EndFunction
<1>5. CASE ~ TooMany(Open, code)
  BY <1>2, <1>3, <1>5, DefineObjectInv, FunctionSound DEF EndFunction
<1> QED  BY <1>4, <1>5

LEMMA EndObjectInv ==
  ASSUME AInv, EndObject
  PROVE  AInv'
<1>1. /\ phase \in Kind /\ code' = EmptyCode /\ UNCHANGED source /\ Undefined
      /\ AsmUtilDefineObject(Open, code)
  BY DEF EndObject, Kind
<1>2. code \in Sound  BY AInvHas
<1> QED  BY <1>1, <1>2, DefineObjectInv

LEMMA EndOfInputInv ==
  ASSUME AInv, EndOfInput
  PROVE  AInv'
<1>1. /\ phase = "declarations" /\ phase' = "parsed"
      /\ UNCHANGED <<errors, objects, code, source, bigEndian, fault>>
  BY DEF EndOfInput, Undefined
<1>2. /\ bigEndian \in BOOLEAN /\ fault \in BOOLEAN /\ (fault => MayFail)
      /\ objects \in Seq(Object) /\ source \in Seq(Declaration) /\ Corresponds
      /\ code \in Sound /\ errors = 0
  BY <1>1, AInvHas DEF Failed
<1>3. Status("parsed", 0)  BY GoodStatus
<1>4. Corresponds'  BY <1>1, <1>2 DEF Corresponds, Kind
<1>5. HandlesAssigned'  BY <1>1 DEF HandlesAssigned, Accepted
<1> QED  BY <1>1, <1>2, <1>3, <1>4, <1>5 DEF AInv, Status

LEMMA OutOfMemoryInv ==
  ASSUME AInv, OutOfMemory
  PROVE  AInv'
<1>1. /\ MayFail /\ phase \in Parsing /\ fault' = TRUE /\ AfterReduction(1, phase)
      /\ UNCHANGED <<bigEndian, objects, code, file, source>>
  BY DEF OutOfMemory
<1>2. code \in Sound  BY AInvHas
<1> QED  BY <1>1, <1>2, FailedInv

\* What the first pass has done to the objects, when all correspond to a
\* declaration and it found a handle for each.
AllAssigned(objs) ==
  \A i \in 1 .. Len(objs) :
    IF source[i].handle # NullHandle THEN objs[i].handle = source[i].handle
    ELSE /\ objs[i].handle \in HandlesOfKind(source[i].kind)
         /\ \A j \in 1 .. Len(objs) : j # i => objs[j].handle # objs[i].handle

LEMMA HandlesFound ==
  ASSUME objects \in Seq(Object), Matches(objects, source, Len(source)),
         NEW pass \in AssignPass(objects), Assigned(objects, pass, Len(objects)),
         pass.errors = 0
  PROVE  AllAssigned(pass.objs)
<1> DEFINE o == pass.objs
           n == Len(objects)
<1>1. Len(o) = n /\ n \in Nat  BY DEF AssignPass
<1>2. \A i \in 1 .. n : /\ objects[i].kind = source[i].kind
                        /\ objects[i].handle = source[i].handle
  BY DEF Matches
<1>3. /\ \A i \in 1 .. n :
           /\ o[i].kind = objects[i].kind
           /\ objects[i].handle # NullHandle => o[i].handle = objects[i].handle
      /\ \A i \in 1 .. n : objects[i].handle = NullHandle => Chosen(o, i)
  BY DEF Assigned
<1> HIDE DEF o, n
<1>4. SUFFICES ASSUME NEW i \in 1 .. n
      PROVE  IF source[i].handle # NullHandle THEN o[i].handle = source[i].handle
             ELSE /\ o[i].handle \in HandlesOfKind(source[i].kind)
                  /\ \A j \in 1 .. n : j # i => o[j].handle # o[i].handle
  BY <1>1 DEF AllAssigned, o
<1>5. CASE source[i].handle # NullHandle
  BY <1>2, <1>3, <1>5
<1>6. CASE source[i].handle = NullHandle  BY <1>1, <1>2, <1>3, <1>6 DEF Chosen
<1> QED  BY <1>5, <1>6

\* Another content in the same object.
LEMMA SetContent ==
  ASSUME NEW x \in Object, NEW c \in Sound
  PROVE  LET y == [x EXCEPT !.content = c] IN y \in Object /\ y.handle = x.handle
BY DEF Object

LEMMA CountedErrors ==
  ASSUME NEW n \in Nat \ {0}, NEW m
  PROVE  /\ m = 0 + n + 1 => m \in Nat \ {0}
         /\ m \in {0 + 1, 0 + 2} => m \in Nat \ {0}
OBVIOUS

LEMMA AsmLinkInv ==
  ASSUME AInv, AsmLink
  PROVE  AInv'
<1> DEFINE n == Len(objects)
           pass1 == AsmAssignHandles(objects)
           pass2 == [i \in DOMAIN objects |->
                       AsmLinkObject(pass1.objs, pass1.objs[i].content)]
           failures == IF pass1.errors > 0 THEN pass1.errors ELSE ErrorsOf(pass2)
           linked == [i \in DOMAIN objects |->
                        [pass1.objs[i] EXCEPT !.content = pass2[i].content]]
<1>1. /\ phase = "parsed"
      /\ objects' = IF pass1.errors > 0 THEN pass1.objs ELSE linked
      /\ errors' = IF failures = 0 THEN errors ELSE errors + failures + 1
      /\ phase' = IF failures = 0 THEN "linked" ELSE "linking failed"
      /\ UNCHANGED <<code, source, bigEndian, fault>>
  BY DEF AsmLink, Undefined
<1>2. /\ bigEndian \in BOOLEAN /\ fault \in BOOLEAN /\ (fault => MayFail)
      /\ objects \in Seq(Object) /\ source \in Seq(Declaration) /\ Corresponds
      /\ code \in Sound /\ errors = 0
  BY <1>1, AInvHas DEF Failed
<1>3. n \in Nat /\ DOMAIN objects = 1 .. n /\ Matches(objects, source, Len(source))
  <2>1. Matches(objects, source, Len(source))  BY <1>1, <1>2 DEF Corresponds
  <2>2. n \in Nat /\ DOMAIN objects = 1 .. n  BY <1>2
  <2> QED  BY <2>1, <2>2
<1>4. pass1 \in AssignPass(objects) /\ Assigned(objects, pass1, n)
  BY <1>2, AssignHandlesDo
<1> HIDE DEF pass1
<1>5. pass1.objs \in Seq(Object) /\ Len(pass1.objs) = n /\ pass1.errors \in Nat
  BY <1>4 DEF AssignPass
<1>6. \A i \in 1 .. n : pass2[i] \in LinkPass
  <2> SUFFICES ASSUME NEW i \in 1 .. n PROVE pass2[i] \in LinkPass  OBVIOUS
  <2>1. pass2[i] = AsmLinkObject(pass1.objs, pass1.objs[i].content)  BY <1>3
  <2>2. pass1.objs[i] \in Object
    <3> HIDE DEF n
    <3> QED  BY <1>5
  <2>3. pass1.objs[i].content \in Sound  BY <2>2 DEF Object
  <2> HIDE DEF pass2
  <2> QED  BY <1>5, <2>1, <2>3, LinkObjectType
<1>7. DOMAIN pass2 = 1 .. n /\ Len(pass2) = n  BY <1>3, <1>6, SeqIs
<1>8. failures \in Nat
  <2>1. \A i \in 1 .. n : pass2[i].errors \in Nat
    <3> HIDE DEF pass2, n
    <3> QED  BY <1>6 DEF LinkPass
  <2> HIDE DEF pass2, n
  <2>2. ErrorsOf(pass2) \in Nat  BY <1>3, <1>7, <2>1, ErrorsOfType
  <2> QED  BY <1>5, <2>2
<1>9. /\ linked \in Seq(Object) /\ Len(linked) = n
      /\ \A i \in 1 .. n : linked[i].handle = pass1.objs[i].handle
  <2>1. \A i \in 1 .. n : pass2[i].content \in Sound
    <3> HIDE DEF pass2, n
    <3> QED  BY <1>6 DEF LinkPass
  <2> DEFINE o == pass1.objs
  <2>2. /\ linked = [i \in 1 .. n |-> linked[i]]
        /\ \A i \in 1 .. n : linked[i] = [o[i] EXCEPT !.content = pass2[i].content]
    BY <1>3
  <2> HIDE DEF pass2, n, linked
  <2>3. o \in Seq(Object) /\ n = Len(o)  BY <1>5
  <2> HIDE DEF o
  <2>4. ASSUME NEW i \in 1 .. n
        PROVE  linked[i] \in Object /\ linked[i].handle = o[i].handle
    <3> DEFINE x == o[i]
               c == pass2[i].content
    <3>1. x \in Object  BY <2>3
    <3>2. c \in Sound  BY <2>1
    <3>3. linked[i] = [x EXCEPT !.content = c]  BY <2>2
    <3> HIDE DEF x, c
    <3>4. linked[i] \in Object /\ linked[i].handle = x.handle
      BY <3>1, <3>2, <3>3, SetContent
    <3> QED  BY <3>4 DEF x
  <2>5. linked \in Seq(Object) /\ Len(linked) = n  BY <1>3, <2>2, <2>4, SeqIs
  <2> QED  BY <2>4, <2>5 DEF o
<1> HIDE DEF pass2, linked, n
<1>10. objects' \in Seq(Object)  BY <1>1, <1>5, <1>9
<1>11. failures = 0 => pass1.errors = 0  BY <1>5
<1>12. Status(phase', errors')
  <2> HIDE DEF failures
  <2>1. CASE failures = 0  BY <1>1, <1>2, <2>1, GoodStatus
  <2>2. CASE failures # 0
    <3>1. phase' = "linking failed" /\ errors' = errors + failures + 1
      BY <1>1, <2>2, Zenon
    <3>2. failures \in Nat \ {0} /\ errors' = 0 + failures + 1
      <4>1. errors = 0  BY <1>2
      <4> QED  BY <1>8, <2>2, <3>1, <4>1, Zenon
    <3>3. errors' \in Nat \ {0}  BY <3>2, CountedErrors
    <3>4. Status("linking failed", errors')  BY <3>3, BadStatus DEF Failed
    <3> QED  BY <3>1, <3>4
  <2> QED  BY <2>1, <2>2
<1>13. phase' \in {"linked", "linking failed"}
  <2> HIDE DEF failures
  <2> QED  BY <1>1
<1>14. Corresponds'  BY <1>13 DEF Corresponds, Kind
<1>15. HandlesAssigned'
  <2>1. CASE failures = 0
    <3>1. pass1.errors = 0  BY <1>11, <2>1
    <3>2. AllAssigned(pass1.objs)  BY <1>2, <1>3, <1>4, <3>1, HandlesFound DEF n
    <3>3. objects' = linked
      <4>1. ~ (pass1.errors > 0)  BY <3>1
      <4> QED  BY <1>1, <4>1, Zenon
    <3> DEFINE o == objects'
    <3>4. DOMAIN o = 1 .. n /\ \A i \in 1 .. n : o[i].handle = pass1.objs[i].handle
      BY <1>9, <3>3
    <3>5. \A i \in 1 .. n :
            IF source[i].handle # NullHandle THEN pass1.objs[i].handle = source[i].handle
            ELSE /\ pass1.objs[i].handle \in HandlesOfKind(source[i].kind)
                 /\ \A j \in 1 .. n : j # i =>
                      pass1.objs[j].handle # pass1.objs[i].handle
      BY <1>5, <3>2 DEF AllAssigned
    <3>6. source' = source  BY <1>1
    <3> HIDE DEF o
    <3>7. \A i \in DOMAIN o :
            IF source'[i].handle # NullHandle THEN o[i].handle = source'[i].handle
            ELSE /\ o[i].handle \in IF IsFunction(source'[i]) THEN CodeFirst .. CodeLast
                                                              ELSE DataFirst .. DataLast
                 /\ \A j \in DOMAIN o \ {i} : o[j].handle # o[i].handle
      <4> SUFFICES ASSUME NEW i \in 1 .. n
          PROVE IF source[i].handle # NullHandle THEN o[i].handle = source[i].handle
            ELSE /\ o[i].handle \in IF IsFunction(source[i]) THEN CodeFirst .. CodeLast
                                                             ELSE DataFirst .. DataLast
                 /\ \A j \in 1 .. n : j # i => o[j].handle # o[i].handle
        BY <3>4, <3>6
      <4>1. CASE source[i].handle # NullHandle
        BY <3>4, <3>5, <4>1
      <4>2. CASE source[i].handle = NullHandle
        BY <3>4, <3>5, <4>2 DEF HandlesOfKind, IsFunction
      <4> QED  BY <4>1, <4>2
    <3> QED  BY <3>7 DEF HandlesAssigned, o
  <2>2. CASE failures # 0
    <3>1. phase' = "linking failed"
      <4> HIDE DEF failures
      <4> QED  BY <1>1, <2>2, Zenon
    <3> QED  BY <3>1 DEF HandlesAssigned, Accepted
  <2> QED  BY <2>1, <2>2
<1> HIDE DEF failures
<1> QED  BY <1>1, <1>2, <1>10, <1>12, <1>14, <1>15 DEF AInv, Status

LEMMA WriteOutputInv ==
  ASSUME AInv, AsmWriteOutput
  PROVE  AInv'
<1>1. /\ phase = "linked"
      /\ UNCHANGED <<bigEndian, objects, code, source>>
  BY DEF AsmWriteOutput
<1>2. /\ bigEndian \in BOOLEAN /\ fault \in BOOLEAN /\ (fault => MayFail)
      /\ objects \in Seq(Object) /\ source \in Seq(Declaration)
      /\ HandlesAssigned /\ code \in Sound /\ errors = 0
  BY <1>1, AInvHas DEF Failed
<1>3. \/ phase' = "writing failed" /\ errors' \in {errors + 1, errors + 2}
      \/ phase' = "written" /\ errors' = errors
  BY DEF AsmWriteOutput, OpenFails, WriteFails, AllWritten
<1>4. fault' \in BOOLEAN /\ (fault' => MayFail)
  <2>1. fault \in BOOLEAN /\ (fault => MayFail)  BY <1>2
  <2>2. CASE OpenFails  BY <2>2 DEF OpenFails
  <2>3. ASSUME NEW n, WriteFails(n) PROVE fault' \in BOOLEAN /\ (fault' => MayFail)
    BY <2>1, <2>3 DEF WriteFails, Writable
  <2>4. CASE AllWritten
    <3>1. fault' = fault \/ (MayFail /\ fault' = TRUE)
      BY <2>4, Zenon DEF AllWritten
    <3>2. CASE fault' = fault  BY <2>1, <3>2
    <3>3. CASE MayFail /\ fault' = TRUE  BY <3>3
    <3> QED  BY <3>1, <3>2, <3>3, Zenon
  <2>5. OpenFails \/ AllWritten \/ \E n : WriteFails(n)  BY Zenon DEF AsmWriteOutput
  <2> QED  BY <2>2, <2>3, <2>4, <2>5
<1>5. Status(phase', errors')
  <2>1. CASE phase' = "writing failed" /\ errors' \in {errors + 1, errors + 2}
    <3>1. errors' \in Nat \ {0}
      <4>1. errors = 0  BY <1>2
      <4>2. errors' \in {0 + 1, 0 + 2}  BY <2>1, <4>1, Zenon
      <4> QED  BY <4>2, CountedErrors
    <3>2. Status("writing failed", errors')  BY <3>1, BadStatus DEF Failed
    <3> QED  BY <2>1, <3>2
  <2>2. CASE phase' = "written" /\ errors' = errors
    <3>1. Status("written", 0)  BY GoodStatus
    <3> QED  BY <1>2, <2>2, <3>1
  <2> QED  BY <1>3, <2>1, <2>2
<1>6. Corresponds'  BY <1>3 DEF Corresponds, Kind
<1>7. HandlesAssigned'
  <2>1. Accepted  BY <1>1 DEF Accepted
  <2> QED  BY <1>1, <1>2, <2>1 DEF HandlesAssigned
<1> QED  BY <1>1, <1>2, <1>4, <1>5, <1>6, <1>7 DEF AInv, Status

\* The invariant holds after every step.
LEMMA AInvStep ==
  ASSUME AInv, [Next]_avars
  PROVE  AInv'
<1>1. CASE BeginFunction  BY <1>1, BeginInv, SourceAssumption DEF BeginFunction, Kind
<1>2. CASE BeginObject
  <2>1. PICK name \in Names, handle \in Handles : Begin("object", name, handle, <<>>, 0)
    BY <1>2 DEF BeginObject
  <2>2. name \in STRING /\ handle \in Nat /\ "object" \in Kind
    BY SourceAssumption DEF Kind
  <2>3. <<>> \in Seq(STRING) /\ 0 \in Nat  OBVIOUS
  <2> QED  BY <2>1, <2>2, <2>3, BeginInv
<1>3. ASSUME NEW item \in Items, ParseItem(item) PROVE AInv'
  BY <1>3, ParseItemInv
<1>4. CASE EndFunction  BY <1>4, EndFunctionInv
<1>5. CASE EndObject  BY <1>5, EndObjectInv
<1>6. CASE EndOfInput  BY <1>6, EndOfInputInv
<1>7. CASE OutOfMemory  BY <1>7, OutOfMemoryInv
<1>8. CASE AsmLink  BY <1>8, AsmLinkInv
<1>9. CASE AsmWriteOutput  BY <1>9, WriteOutputInv
<1>10. CASE UNCHANGED avars
  BY <1>10 DEF avars, AInv, Corresponds, HandlesAssigned, Accepted
<1> QED
  BY <1>1, <1>2, <1>3, <1>4, <1>5, <1>6, <1>7, <1>8, <1>9, <1>10 DEF Next

LEMMA AlwaysAInv == Spec => []AInv
<1>1. Init => AInv  BY InitInv
<1>2. AInv /\ [Next]_avars => AInv'  BY AInvStep
<1> QED  BY <1>1, <1>2, PTL DEF Spec

----------------------------------------------------------------------------
LEMMA SoundIsCode == ASSUME NEW c \in Sound PROVE IsCode(c)
<1>1. /\ c.bytes \in Seq(Byte) /\ c.relocations \in Seq(Relocation)
      /\ c.locals \in Seq(Variable) /\ Within(c.relocations, Len(c.bytes))
      /\ Len(c.bytes) \in Nat
  BY SoundHas
<1>2. ASSUME NEW r \in Range(c.relocations)
      PROVE  r.type \in DOMAIN SizeOf /\ r.offset \in 0 .. Len(c.bytes) - SizeOf[r.type]
  <2>1. PICK i \in 1 .. Len(c.relocations) : r = c.relocations[i]
    BY <1>1 DEF Range
  <2>2. r \in Relocation  BY <1>1, <2>1
  <2>3. r.type \in DOMAIN SizeOf /\ r.offset \in Nat  BY <2>2 DEF Relocation
  <2>4. SizeOf[r.type] \in Nat  BY <2>3, Sizes
  <2>5. r.offset + SizeOf[r.type] <= Len(c.bytes)  BY <1>1, <2>1 DEF Within
  <2> QED  BY <1>1, <2>3, <2>4, <2>5
<1>3. ASSUME NEW v \in Range(c.locals) PROVE v.index \in Byte
  <2>1. v \in Variable  BY <1>1 DEF Range
  <2> QED  BY <2>1 DEF Variable
<1> QED  BY <1>1, <1>2, <1>3 DEF IsCode

\* Whatever the source, a relocation stays within the bytes of its buffer, so
\* that applying it writes no byte outside of them (AsmCodeAddRelocation,
\* AsmCodeAddMetadata, AsmCodeMerge and AsmCodeApplyRelocation); and an error is
\* counted exactly in the phases that have failed.
THEOREM TypeCorrect == Spec => []TypeOK
<1>1. AInv => TypeOK
  <2> SUFFICES ASSUME AInv PROVE TypeOK  OBVIOUS
  <2>1. code \in Sound /\ objects \in Seq(Object)  BY AInvHas
  <2>2. IsCode(code)  BY <2>1, SoundIsCode
  <2>3. ASSUME NEW obj \in Range(objects) PROVE IsCode(obj.content) /\ obj.handle \in Nat
    <3>1. obj \in Object  BY <2>1 DEF Range
    <3>2. obj.content \in Sound /\ obj.handle \in Nat  BY <3>1 DEF Object
    <3> QED  BY <3>2, SoundIsCode
  <2> QED  BY <2>2, <2>3 DEF TypeOK, AInv
<1> QED  BY <1>1, AlwaysAInv, PTL

\* Whatever the declarations and the ranges, the linker gives an object without
\* a handle one of the range of its kind that no other object has or gets, and
\* keeps those of the source (AsmAssignHandles, AsmFindFreeHandle).
THEOREM LinkerAssignsHandles == Spec => []HandlesAssigned
<1>1. AInv => HandlesAssigned  BY AInvHas
<1> QED  BY <1>1, AlwaysAInv, PTL

----------------------------------------------------------------------------
(***************************************************************************)
(* Where items are.                                                        *)
(***************************************************************************)

Base(d) == IF IsFunction(d) THEN 4 ELSE 0

LEMMA TextSizeType ==
  ASSUME NEW item \in Items
  PROVE  TextSize(item) \in Nat
<1>1. item.kind \in ItemKinds /\ (item.kind = "skip" => item.value \in Nat)  BY ItemHas
<1> DEFINE k == item.kind
           f == [op |-> 1, imm |-> 5, jump |-> 3, local |-> 2, call |-> 5, label |-> 0,
                 declare |-> 0, handle |-> 4, byte |-> 1, word |-> 4, skip |-> item.value]
<1>2. TextSize(item) = f[k]  BY DEF TextSize
<1>3. k \in ItemKinds \ {"skip"} => f[k] \in Nat  BY DEF ItemKinds
<1>4. k = "skip" => f[k] = item.value  OBVIOUS
<1> QED  BY <1>1, <1>2, <1>3, <1>4

LEMMA DeclarationHas ==
  ASSUME NEW d \in Declaration
  PROVE  /\ d.kind \in Kind /\ d.name \in STRING /\ d.handle \in Nat
         /\ d.args \in Seq(STRING) /\ d.results \in Nat /\ d.text \in Seq(Items)
         /\ Len(d.text) \in Nat /\ DOMAIN d.text = 1 .. Len(d.text)
         /\ \A i \in 1 .. Len(d.text) : d.text[i] \in Items
BY DEF Declaration

\* The items lie one behind the other, behind the header.
LEMMA Positions ==
  ASSUME NEW d \in Declaration
  PROVE  /\ Position(d, 1) = Base(d)
         /\ \A i \in 1 .. Len(d.text) :
              /\ Position(d, i) \in Nat
              /\ Position(d, i + 1) = Position(d, i) + TextSize(d.text[i])
         /\ \A i \in 1 .. Len(d.text) + 1 : Position(d, i) \in Nat
<1> DEFINE n == Len(d.text)
           Is(f) == f = [i \in 0 .. n |-> IF i = 0 THEN IF IsFunction(d) THEN 4 ELSE 0
                                          ELSE f[i - 1] + TextSize(d.text[i])]
           body == [p \in (1 .. n) \X Nat |-> p[2] + TextSize(d.text[p[1]])]
           end == CHOOSE f : Is(f)
<1>1. n \in Nat /\ \A i \in 1 .. n : TextSize(d.text[i]) \in Nat
  BY DeclarationHas, TextSizeType
<1>2. \A i : Position(d, i) = end[i - 1]  BY DEF Position
<1>3. Base(d) \in Nat /\ Base(d) = IF IsFunction(d) THEN 4 ELSE 0  BY DEF Base
<1> HIDE DEF n
<1>4. /\ body \in [(1 .. n) \X Nat -> Nat]
      /\ \A i \in 1 .. n, x \in Nat : body[<<i, x>>] = x + TextSize(d.text[i])
  BY <1>1
<1> HIDE DEF body
<1>5. PICK g \in [0 .. n -> Nat] : Runs(g, n, Base(d), body)
  <2> HIDE DEF Is
  <2> QED  BY <1>1, <1>3, <1>4, LoopExists
<1>6. Is(g)
  <2>1. \A i \in 1 .. n : g[i - 1] \in Nat  BY <1>1
  <2>2. \A i \in 1 .. n : g[i] = g[i - 1] + TextSize(d.text[i])
    BY <1>4, <1>5, <2>1 DEF Runs
  <2> QED  BY <1>3, <1>5, <2>2 DEF Runs
<1>7. Is(end)
  <2> HIDE DEF Is
  <2> QED  BY <1>6
<1> HIDE DEF end
<1>8. /\ end[0] = Base(d)
      /\ \A i \in 1 .. n : end[i] = end[i - 1] + TextSize(d.text[i])
  BY <1>1, <1>3, <1>7
<1>9. \A i \in 0 .. n : end[i] \in Nat
  <2>1. \A i \in 1 .. n : end[i - 1] \in Nat => end[i] \in Nat
    BY <1>1, <1>8
  <2>2. end[0] \in Nat  BY <1>3, <1>8
  <2> HIDE DEF Is
  <2> QED  BY <1>1, <2>1, <2>2, LoopType
<1> HIDE DEF Is
<1>10. \A i \in 1 .. n : i + 1 - 1 = i /\ i \in 0 .. n /\ i - 1 \in 0 .. n
  BY <1>1
<1>11. \A i \in 1 .. n : Position(d, i + 1) = Position(d, i) + TextSize(d.text[i])
  BY <1>2, <1>8, <1>10
<1>12. \A i \in 1 .. n + 1 : Position(d, i) \in Nat
  <2>1. \A i \in 1 .. n + 1 : i - 1 \in 0 .. n  BY <1>1
  <2> QED  BY <1>2, <1>9, <2>1
<1>13. \A i \in 1 .. n : i \in 1 .. n + 1  BY <1>1
<1>14. Position(d, 1) = Base(d)
  <2>1. 1 - 1 = 0  OBVIOUS
  <2> QED  BY <1>2, <1>8, <2>1
<1> QED  BY <1>11, <1>12, <1>13, <1>14 DEF n

\* d with another item.
Extends(e, d, item) == /\ e \in Declaration /\ d \in Declaration
                       /\ e.kind = d.kind /\ e.args = d.args /\ e.results = d.results
                       /\ e.name = d.name
                       /\ e.text = Append(d.text, item)

LEMMA ExtendedText ==
  ASSUME NEW e, NEW d, NEW item, Extends(e, d, item)
  PROVE  LET n == Len(d.text)
         IN  /\ n \in Nat /\ Len(e.text) = n + 1 /\ e.text[n + 1] = item
             /\ DOMAIN d.text = 1 .. n /\ DOMAIN e.text = 1 .. n + 1
             /\ \A i \in 1 .. n : e.text[i] = d.text[i]
             /\ item \in Items
<1> DEFINE n == Len(d.text)
           t == d.text
           u == e.text
<1>1. t \in Seq(Items) /\ n \in Nat /\ DOMAIN d.text = 1 .. n /\ u \in Seq(Items)
      /\ u = Append(t, item)
  BY DeclarationHas DEF Extends
<1> HIDE DEF t, u
<1>2. Len(u) = Len(t) + 1 /\ u[Len(t) + 1] = item /\ \A i \in 1 .. Len(t) : u[i] = t[i]
      /\ DOMAIN u = 1 .. Len(t) + 1
  BY <1>1
<1>3. Len(t) + 1 \in DOMAIN u  BY <1>1, <1>2 DEF t
<1>4. item \in Items  BY <1>1, <1>2, <1>3
<1> QED  BY <1>1, <1>2, <1>4 DEF t, u

LEMMA ExtendedPositions ==
  ASSUME NEW e, NEW d, NEW item, Extends(e, d, item)
  PROVE  /\ \A i \in 1 .. Len(d.text) + 1 : Position(e, i) = Position(d, i)
         /\ Position(e, Len(e.text) + 1) = Position(d, Len(d.text) + 1) + TextSize(item)
         /\ Base(e) = Base(d)
<1> DEFINE n == Len(d.text)
           P == {i \in 0 .. n : Position(e, i + 1) = Position(d, i + 1)}
<1>1. /\ n \in Nat /\ Len(e.text) = n + 1 /\ e.text[n + 1] = item
      /\ \A i \in 1 .. n : e.text[i] = d.text[i]
  BY ExtendedText
<1>2. Base(e) = Base(d)  BY DEF Extends, Base, IsFunction
<1>3. /\ Position(e, 1) = Base(e) /\ Position(d, 1) = Base(d)
      /\ \A i \in 1 .. n + 1 : Position(e, i + 1) = Position(e, i) + TextSize(e.text[i])
      /\ \A i \in 1 .. n : Position(d, i + 1) = Position(d, i) + TextSize(d.text[i])
  BY <1>1, Positions DEF Extends, n
<1> HIDE DEF n
<1>4. 0 \in P
  <2>1. 0 + 1 = 1 /\ 0 \in 0 .. n  BY <1>1
  <2> QED  BY <1>2, <1>3, <2>1
<1>5. \A i \in 1 .. n : i - 1 \in P => i \in P
  <2> SUFFICES ASSUME NEW i \in 1 .. n, i - 1 \in P PROVE i \in P  OBVIOUS
  <2>1. i - 1 + 1 = i /\ i \in 0 .. n /\ i \in 1 .. n + 1  BY <1>1
  <2>2. Position(e, i) = Position(d, i)  BY <2>1
  <2>3. Position(e, i + 1) = Position(d, i + 1)  BY <1>1, <1>3, <2>1, <2>2
  <2> QED  BY <2>1, <2>3
<1> HIDE DEF P
<1>6. \A i \in 0 .. n : i \in P  BY <1>1, <1>4, <1>5, CountingUp
<1>7. \A i \in 1 .. n + 1 : Position(e, i) = Position(d, i)  BY <1>1, <1>6 DEF P
<1>8. n + 1 \in 1 .. n + 1  BY <1>1
<1> QED  BY <1>1, <1>2, <1>3, <1>7, <1>8 DEF n

----------------------------------------------------------------------------
(***************************************************************************)
(* What the reduction of an item does to the code buffer.                  *)
(***************************************************************************)

RelocatedKinds == {"label", "jump", "local", "call", "handle"}
RelocationType == [label |-> "label", jump |-> "jump", local |-> "local",
                   call |-> "handle", handle |-> "handle"]

\* An item with an operand that the linker finds, and where its operand is.
Relocated(item) == item.kind \in RelocatedKinds /\ item.symbol # ""
Shift(item) == IF item.kind \in {"jump", "local", "call"} THEN 1 ELSE 0

RelocationOf(item, at) == [type |-> RelocationType[item.kind],
                           offset |-> at + Shift(item), symbol |-> item.symbol]

Operand(item, n) == IF item.symbol # "" THEN Fill(n, 0) ELSE Encoded(item.value, n)

\* The bytes of an item before linking.
ItemBytes(item) ==
  CASE item.kind = "op"      -> <<OpCode[item.kind]>>
    [] item.kind = "imm"     -> <<OpCode[item.kind]>> \o Encoded(item.value, 4)
    [] item.kind = "jump"    -> <<OpCode[item.kind]>> \o Operand(item, 2)
    [] item.kind = "local"   -> <<OpCode[item.kind]>> \o Operand(item, 1)
    [] item.kind = "call"    -> <<OpCode[item.kind]>> \o Operand(item, 4)
    [] item.kind = "label"   -> Operand(item, 0)
    [] item.kind = "declare" -> <<>>
    [] item.kind = "handle"  -> Operand(item, 4)
    [] item.kind = "byte"    -> <<item.value>>
    [] item.kind = "word"    -> Encoded(item.value, 4)
    [] item.kind = "skip"    -> Fill(item.value, 0)

\* A buffer with more bytes, relocations and locals than c.
Grown(e, c, bytes, relocations, locals) ==
  /\ e.bytes = c.bytes \o bytes /\ bytes \in Seq(Byte)
  /\ e.relocations = relocations /\ e.locals = locals

NewRelocations(c, item) ==
  IF Relocated(item) THEN Append(c.relocations, RelocationOf(item, Len(c.bytes)))
                     ELSE c.relocations

NewLocals(c, item) ==
  IF item.kind = "declare" /\ Lookup(c.locals, item.symbol) = 0
  THEN Append(c.locals, [name |-> item.symbol, index |-> 0]) ELSE c.locals

LEMMA AppendBytesGrows ==
  ASSUME NEW c \in Sound, NEW b \in Seq(Byte)
  PROVE  /\ Grown(AppendBytes(c, b), c, b, c.relocations, c.locals)
         /\ AppendBytes(c, b) \in Sound
<1>1. c = [bytes |-> c.bytes, relocations |-> c.relocations, locals |-> c.locals]
  BY SoundHas
<1>2. AppendBytes(c, b) = [c EXCEPT !.bytes = c.bytes \o b]  BY DEF AppendBytes
<1>3. AppendBytes(c, b) = [bytes |-> c.bytes \o b, relocations |-> c.relocations,
                           locals |-> c.locals]
  BY <1>1, <1>2
<1> DEFINE e == AppendBytes(c, b)
<1>4. e \in Sound  BY AppendBytesSound
<1> HIDE DEF e
<1>5. e.bytes = c.bytes \o b /\ e.relocations = c.relocations /\ e.locals = c.locals
  BY <1>3 DEF e
<1> QED  BY <1>4, <1>5 DEF Grown, e

LEMMA OperandType ==
  ASSUME NEW item \in Items, NEW n \in {0, 1, 2, 4}
  PROVE  Operand(item, n) \in Seq(Byte) /\ Len(Operand(item, n)) = n
<1>1. n \in Nat /\ item.value \in Int  BY ItemHas
<1> QED  BY <1>1, EncodedType, FillBytes DEF Operand

LEMMA AppendRelocationGrows ==
  ASSUME NEW c \in Sound, NEW type \in DOMAIN SizeOf, NEW item \in Items
  PROVE  Grown(AsmUtilAppendRelocation(c, type, item), c, Operand(item, SizeOf[type]),
               IF item.symbol # ""
               THEN Append(c.relocations, [type |-> type, offset |-> Len(c.bytes),
                                           symbol |-> item.symbol])
               ELSE c.relocations,
               c.locals)
<1> DEFINE b == Operand(item, SizeOf[type])
           r == [type |-> type, offset |-> Len(c.bytes), symbol |-> item.symbol]
           a == AppendBytes(c, b)
           d == AsmUtilAppendRelocation(c, type, item)
<1>1. b \in Seq(Byte)  BY Sizes, OperandType
<1>2. Grown(a, c, b, c.relocations, c.locals) /\ a \in Sound
  BY <1>1, AppendBytesGrows
<1>3. CASE item.symbol = ""
  <2>1. d = a  BY <1>3 DEF AsmUtilAppendRelocation, Operand
  <2> QED  BY <1>2, <1>3, <2>1
<1>4. CASE item.symbol # ""
  <2>1. d = [a EXCEPT !.relocations = Append(@, r)]
    BY <1>4 DEF AsmUtilAppendRelocation, AsmCodeAddRelocation, Operand
  <2>2. a = [bytes |-> a.bytes, relocations |-> a.relocations, locals |-> a.locals]
    <3> HIDE DEF a
    <3> QED  BY <1>2, SoundHas
  <2> DEFINE rs == Append(a.relocations, r)
  <2>3. d = [a EXCEPT !.relocations = rs]  BY <2>1
  <2> HIDE DEF rs, a, d
  <2>4. d = [bytes |-> a.bytes, relocations |-> rs, locals |-> a.locals]
    BY <2>2, <2>3
  <2>5. rs = Append(c.relocations, r)  BY <1>2 DEF rs, Grown
  <2> HIDE DEF b, r
  <2>6. Grown(d, c, b, Append(c.relocations, r), c.locals)
    BY <1>2, <2>4, <2>5 DEF Grown
  <2> QED  BY <1>4, <2>6 DEF d, b, r
<1> QED  BY <1>3, <1>4

LEMMA Associative ==
  ASSUME NEW s \in Seq(Byte), NEW t \in Seq(Byte), NEW u \in Seq(Byte)
  PROVE  (s \o t) \o u = s \o (t \o u)
BY ConcatAssociative

\* Growing twice.
LEMMA GrownTwice ==
  ASSUME NEW c \in Sound, NEW a, NEW e, NEW b1, NEW b2, NEW r, NEW l,
         Grown(a, c, b1, c.relocations, c.locals), Grown(e, a, b2, r, l)
  PROVE  Grown(e, c, b1 \o b2, r, l)
<1>1. c.bytes \in Seq(Byte) /\ b1 \in Seq(Byte) /\ b2 \in Seq(Byte)
  BY SoundHas DEF Grown
<1>2. (c.bytes \o b1) \o b2 = c.bytes \o (b1 \o b2)
  BY <1>1, Associative, Zenon
<1>3. b1 \o b2 \in Seq(Byte)
  BY <1>1, ConcatProperties, Zenon
<1>4. e.bytes = c.bytes \o (b1 \o b2)
  BY <1>2, Zenon DEF Grown
<1> QED  BY <1>3, <1>4 DEF Grown

LEMMA OpCodeGrows ==
  ASSUME NEW c \in Sound, NEW item \in Items,
         item.kind \in {"op", "imm", "jump", "local", "call"}
  PROVE  /\ Grown(WithOpCode(c, item), c, <<OpCode[item.kind]>>, c.relocations, c.locals)
         /\ WithOpCode(c, item) \in Sound
         /\ Len(WithOpCode(c, item).bytes) = Len(c.bytes) + 1
         /\ <<OpCode[item.kind]>> \in Seq(Byte)
<1> DEFINE b == <<OpCode[item.kind]>>
<1>1. OpCode[item.kind] \in Byte  BY DEF OpCode, Byte
<1>2. b \in Seq(Byte) /\ Len(b) = 1  BY <1>1, OneByte
<1> HIDE DEF b
<1>3. WithOpCode(c, item) = AppendBytes(c, b)  BY DEF WithOpCode, b
<1>4. Grown(WithOpCode(c, item), c, b, c.relocations, c.locals)
  BY <1>2, <1>3, AppendBytesGrows
<1>5. Len(WithOpCode(c, item).bytes) = Len(c.bytes) + 1
  BY <1>2, <1>3, AppendBytesSound
<1> QED  BY <1>2, <1>3, <1>4, <1>5, AppendBytesGrows DEF b

\* An instruction whose operand may have to be found.
LEMMA ReferenceGrows ==
  ASSUME NEW c \in Sound, NEW item \in Items, item.kind \in {"jump", "local", "call"},
         NEW type \in DOMAIN SizeOf, type = RelocationType[item.kind]
  PROVE  Grown(AsmUtilAppendRelocation(WithOpCode(c, item), type, item), c,
               <<OpCode[item.kind]>> \o Operand(item, SizeOf[type]),
               NewRelocations(c, item), c.locals)
<1> DEFINE w == WithOpCode(c, item)
           e == AsmUtilAppendRelocation(w, type, item)
           b == Operand(item, SizeOf[type])
           r == [type |-> type, offset |-> Len(w.bytes), symbol |-> item.symbol]
           rs == IF item.symbol # "" THEN Append(w.relocations, r) ELSE w.relocations
<1>1. /\ Grown(w, c, <<OpCode[item.kind]>>, c.relocations, c.locals)
      /\ w \in Sound /\ Len(w.bytes) = Len(c.bytes) + 1
  BY OpCodeGrows
<1>2. Grown(e, w, b, rs, w.locals)
  <2> HIDE DEF w
  <2> QED  BY <1>1, AppendRelocationGrows
<1>3. rs = NewRelocations(c, item) /\ w.locals = c.locals
  BY <1>1 DEF Grown, RelocationOf, Shift, Relocated, RelocatedKinds, NewRelocations
<1> HIDE DEF w, e, b, rs
<1>4. Grown(e, c, <<OpCode[item.kind]>> \o b, NewRelocations(c, item), c.locals)
  BY <1>1, <1>2, <1>3, GrownTwice
<1> QED  BY <1>4 DEF w, e, b

\* .byte and .word: the buffer of the list is merged.
LEMMA MergeGrows ==
  ASSUME NEW c \in Sound, NEW b \in Seq(Byte)
  PROVE  Grown(AsmCodeMerge(c, AppendBytes(EmptyCode, b)), c, b, c.relocations, c.locals)
<1> DEFINE t == AppendBytes(EmptyCode, b)
<1>1. Grown(t, EmptyCode, b, <<>>, <<>>) /\ EmptyCode.bytes = <<>>
  BY EmptySound, AppendBytesGrows DEF EmptyCode
<1>2. <<>> \o b = b  BY ConcatEmptySeq
<1>3. t.bytes = b /\ t.relocations = <<>> /\ t.locals = <<>>
  BY <1>1, <1>2 DEF Grown
<1> HIDE DEF t
<1>4. Adjusted(<<>>, Len(c.bytes)) = <<>>  BY DEF Adjusted
<1>5. c.relocations \in Seq(Relocation) /\ c.locals \in Seq(Variable)  BY SoundHas
<1>6. c.relocations \o <<>> = c.relocations /\ c.locals \o <<>> = c.locals
  BY <1>5, ConcatEmptySeq
<1>7. AsmCodeMerge(c, t) = [bytes |-> c.bytes \o b, relocations |-> c.relocations,
                            locals |-> c.locals]
  BY <1>3, <1>4, <1>6 DEF AsmCodeMerge
<1> QED  BY <1>7 DEF Grown, t

LEMMA DeclaredGrows ==
  ASSUME NEW c \in Sound, NEW item \in Items, item.kind = "declare"
  PROVE  Grown(Declared(c, item.symbol), c, <<>>, c.relocations, NewLocals(c, item))
<1> DEFINE l == NewLocals(c, item)
<1>1. /\ c = [bytes |-> c.bytes, relocations |-> c.relocations, locals |-> c.locals]
      /\ c.bytes \in Seq(Byte)
  BY SoundHas
<1>2. <<>> \in Seq(Byte) /\ c.bytes \o <<>> = c.bytes  BY <1>1, ConcatEmptySeq
<1>3. Declared(c, item.symbol) = c \/ Declared(c, item.symbol) = [c EXCEPT !.locals = l]
  BY DEF Declared, NewLocals
<1>4. Declared(c, item.symbol) = c => c.locals = l
  <2>1. CASE Lookup(c.locals, item.symbol) # 0
    BY <2>1 DEF NewLocals
  <2>2. CASE Lookup(c.locals, item.symbol) = 0  BY <1>1, <2>2 DEF Declared, NewLocals
  <2> QED  BY <2>1, <2>2
<1> HIDE DEF l
<1>5. [c EXCEPT !.locals = l] = [bytes |-> c.bytes, relocations |-> c.relocations, locals |-> l]
  BY <1>1
<1>6. Grown(Declared(c, item.symbol), c, <<>>, c.relocations, l)
  BY <1>2, <1>3, <1>4, <1>5 DEF Grown
<1> QED  BY <1>6 DEF l

LEMMA TextSizes ==
  ASSUME NEW item \in Items
  PROVE  /\ item.kind \in {"op", "byte"} => TextSize(item) = 1
         /\ item.kind \in {"imm", "call"} => TextSize(item) = 5
         /\ item.kind = "jump" => TextSize(item) = 3
         /\ item.kind = "local" => TextSize(item) = 2
         /\ item.kind \in {"label", "declare"} => TextSize(item) = 0
         /\ item.kind \in {"handle", "word"} => TextSize(item) = 4
         /\ item.kind = "skip" => TextSize(item) = item.value
<1> DEFINE k == item.kind
           f == [op |-> 1, imm |-> 5, jump |-> 3, local |-> 2, call |-> 5, label |-> 0,
                 declare |-> 0, handle |-> 4, byte |-> 1, word |-> 4, skip |-> item.value]
<1>1. TextSize(item) = f[k]  BY DEF TextSize
<1> QED  BY <1>1

LEMMA ByteThen ==
  ASSUME NEW s \in Seq(Byte), NEW t \in Seq(Byte), Len(s) = 1
  PROVE  s \o t \in Seq(Byte) /\ Len(s \o t) = Len(t) + 1
<1>1. s \o t \in Seq(Byte) /\ Len(s \o t) = Len(s) + Len(t)  BY Concat
<1>2. Len(t) \in Nat  OBVIOUS
<1> QED  BY <1>1, <1>2

\* The bytes of an item are as many as its size.
LEMMA ItemBytesType ==
  ASSUME NEW item \in Items
  PROVE  ItemBytes(item) \in Seq(Byte) /\ Len(ItemBytes(item)) = TextSize(item)
<1> DEFINE k == item.kind
           o == <<OpCode[item.kind]>>
<1>0. /\ k \in ItemKinds /\ item.value \in Int
      /\ k = "byte" => item.value \in Byte
      /\ k = "skip" => item.value \in Nat
  BY ItemHas
<1>1. k \in {"op", "imm", "jump", "local", "call"} => o \in Seq(Byte) /\ Len(o) = 1
  BY OneByte DEF OpCode, Byte
<1>2. \A n \in {0, 1, 2, 4} : Operand(item, n) \in Seq(Byte) /\ Len(Operand(item, n)) = n
  BY OperandType
<1>3. Encoded(item.value, 4) \in Seq(Byte) /\ Len(Encoded(item.value, 4)) = 4
  BY <1>0, EncodedType
<1>4. CASE k = "op"  BY <1>1, <1>4, TextSizes DEF ItemBytes
<1>5. CASE k = "imm"
  <2>1. ItemBytes(item) = o \o Encoded(item.value, 4)  BY <1>5 DEF ItemBytes
  <2>2. TextSize(item) = 5  BY <1>5, TextSizes
  <2> DEFINE t == Encoded(item.value, 4)
  <2>3. o \in Seq(Byte) /\ Len(o) = 1 /\ t \in Seq(Byte) /\ Len(t) = 4
    BY <1>1, <1>3, <1>5
  <2> HIDE DEF o, t
  <2>4. o \o t \in Seq(Byte) /\ Len(o \o t) = Len(t) + 1  BY <2>3, ByteThen
  <2>5. ItemBytes(item) = o \o t  BY <2>1 DEF t
  <2> QED  BY <2>2, <2>3, <2>4, <2>5
<1>6. CASE k = "jump"
  <2>1. ItemBytes(item) = o \o Operand(item, 2)  BY <1>6 DEF ItemBytes
  <2>2. TextSize(item) = 3  BY <1>6, TextSizes
  <2> DEFINE t == Operand(item, 2)
  <2>3. o \in Seq(Byte) /\ Len(o) = 1 /\ t \in Seq(Byte) /\ Len(t) = 2
    BY <1>1, <1>2, <1>6
  <2> HIDE DEF o, t
  <2>4. o \o t \in Seq(Byte) /\ Len(o \o t) = Len(t) + 1  BY <2>3, ByteThen
  <2>5. ItemBytes(item) = o \o t  BY <2>1 DEF t
  <2> QED  BY <2>2, <2>3, <2>4, <2>5
<1>7. CASE k = "local"  BY <1>1, <1>2, <1>7, ByteThen, TextSizes DEF ItemBytes
<1>8. CASE k = "call"
  <2>1. ItemBytes(item) = o \o Operand(item, 4)  BY <1>8 DEF ItemBytes
  <2>2. TextSize(item) = 5  BY <1>8, TextSizes
  <2> DEFINE t == Operand(item, 4)
  <2>3. o \in Seq(Byte) /\ Len(o) = 1 /\ t \in Seq(Byte) /\ Len(t) = 4
    BY <1>1, <1>2, <1>8
  <2> HIDE DEF o, t
  <2>4. o \o t \in Seq(Byte) /\ Len(o \o t) = Len(t) + 1  BY <2>3, ByteThen
  <2>5. ItemBytes(item) = o \o t  BY <2>1 DEF t
  <2> QED  BY <2>2, <2>3, <2>4, <2>5
<1>9. CASE k = "label"  BY <1>2, <1>9, TextSizes DEF ItemBytes
<1>10. CASE k = "declare"
  <2>1. ItemBytes(item) = <<>>  BY <1>10 DEF ItemBytes
  <2> QED  BY <1>10, <2>1, TextSizes
<1>11. CASE k = "handle"  BY <1>2, <1>11, TextSizes DEF ItemBytes
<1>12. CASE k = "byte"  BY <1>0, <1>12, OneByte, TextSizes DEF ItemBytes
<1>13. CASE k = "word"  BY <1>3, <1>13, TextSizes DEF ItemBytes
<1>14. CASE k = "skip"  BY <1>0, <1>14, FillBytes, TextSizes DEF ItemBytes
<1> HIDE DEF k
<1> QED
  BY <1>0, <1>4, <1>5, <1>6, <1>7, <1>8, <1>9, <1>10, <1>11, <1>12, <1>13, <1>14
     DEF ItemKinds

\* The reduction of an item appends its bytes, its relocation and its local.
LEMMA ReducedGrows ==
  ASSUME NEW c \in Sound, NEW item \in Items
  PROVE  Grown(Reduced(c, item), c, ItemBytes(item), NewRelocations(c, item),
               NewLocals(c, item))
<1> DEFINE k == item.kind
           e == Reduced(c, item)
<1>0. /\ k \in ItemKinds /\ item.value \in Int
      /\ k = "byte" => item.value \in Byte
      /\ k = "skip" => item.value \in Nat
  BY ItemHas
<1>1. k # "declare" => NewLocals(c, item) = c.locals  BY DEF NewLocals
<1>2. k \notin RelocatedKinds => NewRelocations(c, item) = c.relocations
  BY DEF NewRelocations, Relocated
<1>3. Encoded(item.value, 4) \in Seq(Byte)  BY <1>0, EncodedType
<1>4. /\ "label" \in DOMAIN SizeOf /\ "local" \in DOMAIN SizeOf
      /\ "jump" \in DOMAIN SizeOf /\ "handle" \in DOMAIN SizeOf
      /\ SizeOf["label"] = 0 /\ SizeOf["local"] = 1 /\ SizeOf["jump"] = 2
      /\ SizeOf["handle"] = 4
  BY DEF SizeOf
<1>5. CASE k = "op"
  BY <1>1, <1>2, <1>5, OpCodeGrows DEF Reduced, ItemBytes, RelocatedKinds
<1>6. CASE k = "imm"
  <2>1. /\ e = AppendBytes(WithOpCode(c, item), Encoded(item.value, 4))
        /\ ItemBytes(item) = <<OpCode[k]>> \o Encoded(item.value, 4)
    BY <1>6 DEF Reduced, ItemBytes
  <2>2. k \notin RelocatedKinds  BY <1>6 DEF RelocatedKinds
  <2> DEFINE w == WithOpCode(c, item)
  <2>3. w \in Sound /\ Grown(w, c, <<OpCode[k]>>, c.relocations, c.locals)
    BY <1>6, OpCodeGrows
  <2>4. Grown(e, w, Encoded(item.value, 4), w.relocations, w.locals)
    <3> HIDE DEF w
    <3> QED  BY <1>3, <2>1, <2>3, AppendBytesGrows DEF w
  <2>5. w.relocations = c.relocations /\ w.locals = c.locals  BY <2>3 DEF Grown
  <2> HIDE DEF w, e
  <2>6. Grown(e, c, <<OpCode[k]>> \o Encoded(item.value, 4), c.relocations, c.locals)
    BY <2>3, <2>4, <2>5, GrownTwice
  <2> QED  BY <1>1, <1>2, <1>6, <2>1, <2>2, <2>6 DEF e
<1>7. CASE k = "jump"
  BY <1>1, <1>4, <1>7, ReferenceGrows DEF Reduced, ItemBytes, RelocationType
<1>8. CASE k = "local"
  BY <1>1, <1>4, <1>8, ReferenceGrows DEF Reduced, ItemBytes, RelocationType
<1>9. CASE k = "call"
  BY <1>1, <1>4, <1>9, ReferenceGrows DEF Reduced, ItemBytes, RelocationType
<1>10. CASE k \in {"label", "handle"}
  <2>1. e = AsmUtilAppendRelocation(c, k, item)
    BY <1>10 DEF Reduced
  <2>2. ItemBytes(item) = Operand(item, SizeOf[k])
    BY <1>4, <1>10 DEF ItemBytes
  <2>3. k \in DOMAIN SizeOf  BY <1>4, <1>10
  <2> DEFINE r == [type |-> k, offset |-> Len(c.bytes), symbol |-> item.symbol]
  <2>4. RelocationOf(item, Len(c.bytes)) = r
    <3>1. Shift(item) = 0 /\ RelocationType[k] = k  BY <1>10 DEF Shift, RelocationType
    <3>2. Len(c.bytes) + 0 = Len(c.bytes)  BY SoundHas
    <3> QED  BY <3>1, <3>2 DEF RelocationOf
  <2>5. Relocated(item) <=> item.symbol # ""  BY <1>10 DEF Relocated, RelocatedKinds
  <2>6. NewRelocations(c, item) = IF item.symbol # "" THEN Append(c.relocations, r)
                                                      ELSE c.relocations
    BY <2>4, <2>5 DEF NewRelocations
  <2>7. Grown(e, c, Operand(item, SizeOf[k]), NewRelocations(c, item), c.locals)
    BY <2>1, <2>3, <2>6, AppendRelocationGrows
  <2> QED  BY <1>1, <1>10, <2>2, <2>7
<1>11. CASE k = "declare"
  BY <1>2, <1>11, DeclaredGrows DEF Reduced, ItemBytes, RelocatedKinds
<1>12. CASE k = "byte"
  BY <1>0, <1>1, <1>2, <1>12, MergeGrows, OneByte DEF Reduced, ItemBytes, RelocatedKinds
<1>13. CASE k = "word"
  BY <1>1, <1>2, <1>3, <1>13, MergeGrows DEF Reduced, ItemBytes, RelocatedKinds
<1>14. CASE k = "skip"
  BY <1>0, <1>1, <1>2, <1>14, AppendBytesGrows, FillBytes DEF Reduced, ItemBytes,
     RelocatedKinds
<1> HIDE DEF k
<1> QED
  BY <1>0, <1>5, <1>6, <1>7, <1>8, <1>9, <1>10, <1>11, <1>12, <1>13, <1>14 DEF ItemKinds

LEMMA ReducedLength ==
  ASSUME NEW c \in Sound, NEW item \in Items
  PROVE  Len(Reduced(c, item).bytes) = Len(c.bytes) + TextSize(item)
<1> DEFINE b == ItemBytes(item)
           e == Reduced(c, item)
<1>1. e.bytes = c.bytes \o b  BY ReducedGrows DEF Grown
<1>2. b \in Seq(Byte) /\ Len(b) = TextSize(item)  BY ItemBytesType
<1>3. c.bytes \in Seq(Byte)  BY SoundHas
<1> HIDE DEF e, b
<1>4. Len(c.bytes \o b) = Len(c.bytes) + Len(b)  BY <1>2, <1>3, Concat
<1> QED  BY <1>1, <1>2, <1>4 DEF e

----------------------------------------------------------------------------
(***************************************************************************)
(* What a code buffer has to do with the text it is made of.               *)
(***************************************************************************)

OperandAt(d, i) == Position(d, i) + Shift(d.text[i])

\* The references of a text that the linker resolves, and its labels.
Refs(d) == {i \in 1 .. Len(d.text) : Relocated(d.text[i])}

\* r is the relocation of item i, in a buffer that lacks the first base bytes.
IsFor(r, d, i, base) ==
  /\ r.type = RelocationType[d.text[i].kind]
  /\ r.symbol = d.text[i].symbol
  /\ r.offset + base = OperandAt(d, i)

\* Every reference has a relocation, and every relocation a reference.
Records(relocations, d, base) ==
  /\ \A j \in 1 .. Len(relocations) : \E i \in Refs(d) : IsFor(relocations[j], d, i, base)
  /\ \A i \in Refs(d) : \E j \in 1 .. Len(relocations) : IsFor(relocations[j], d, i, base)

NamesOf(chain) == {chain[j].name : j \in 1 .. Len(chain)}

\* The buffer of a text that is being read.
Translates(c, d) ==
  /\ Len(c.bytes) + Base(d) = Position(d, Len(d.text) + 1)
  /\ Records(c.relocations, d, Base(d))
  /\ NamesOf(c.locals) = Symbols(d, "declare")
  /\ IsFiniteSet(Uses(d, "declare"))
  /\ Len(c.locals) = Cardinality(Uses(d, "declare"))
  /\ Once(d, "label") /\ Once(d, "declare")

\* The buffer of a declaration that has been read.
Finished(c, d) == Records(c.relocations, d, 0) /\ NamesOf(c.locals) = Variables(d)

LEMMA RecordsGrow ==
  ASSUME NEW e, NEW d, NEW item, Extends(e, d, item), NEW c \in Sound,
         Records(c.relocations, d, Base(d)),
         Len(c.bytes) + Base(d) = Position(d, Len(d.text) + 1)
  PROVE  Records(NewRelocations(c, item), e, Base(e))
<1> DEFINE n == Len(d.text)
           rs == c.relocations
           ns == NewRelocations(c, item)
           b == Base(d)
           r == RelocationOf(item, Len(c.bytes))
<1>1. /\ n \in Nat /\ Len(e.text) = n + 1 /\ e.text[n + 1] = item
      /\ \A i \in 1 .. n : e.text[i] = d.text[i]
      /\ item \in Items
  BY ExtendedText
<1>2. /\ \A i \in 1 .. n + 1 : Position(e, i) = Position(d, i)
      /\ Base(e) = b
  BY ExtendedPositions
<1>3. rs \in Seq(Relocation) /\ Len(rs) \in Nat /\ Len(c.bytes) \in Nat  BY SoundHas
<1>4. \A i \in Refs(d) : i \in Refs(e) /\ i \in 1 .. n
  BY <1>1 DEF Refs
<1>5. \A i \in 1 .. n : \A x : IsFor(x, e, i, b) <=> IsFor(x, d, i, b)
  BY <1>1, <1>2 DEF IsFor, OperandAt
<1>6. \A i \in Refs(e) : i \in Refs(d) \/ (i = n + 1 /\ Relocated(item))
  <2> SUFFICES ASSUME NEW i \in Refs(e) PROVE i \in Refs(d) \/ (i = n + 1 /\ Relocated(item))
    OBVIOUS
  <2>1. i \in 1 .. n + 1 /\ Relocated(e.text[i])  BY <1>1 DEF Refs
  <2>2. CASE i = n + 1  BY <1>1, <2>1, <2>2
  <2>3. CASE i # n + 1
    <3>1. i \in 1 .. n
      <4> HIDE DEF n
      <4> QED  BY <1>1, <2>1, <2>3
    <3> QED  BY <1>1, <2>1, <3>1 DEF Refs
  <2> QED  BY <2>2, <2>3
<1>7. CASE ~ Relocated(item)
  <2>1. ns = rs  BY <1>7 DEF NewRelocations
  <2> QED  BY <1>2, <1>4, <1>5, <1>6, <1>7, <2>1 DEF Records
<1>8. CASE Relocated(item)
  <2>1. ns = Append(rs, r)  BY <1>8 DEF NewRelocations
  <2> HIDE DEF rs, ns, r
  <2>2. /\ Len(ns) = Len(rs) + 1 /\ ns[Len(rs) + 1] = r
        /\ \A j \in 1 .. Len(rs) : ns[j] = rs[j]
    BY <1>3, <2>1
  <2>3. n + 1 \in Refs(e)  BY <1>1, <1>8 DEF Refs
  <2>4. IsFor(r, e, n + 1, b)
    <3>1. r.type = RelocationType[item.kind] /\ r.symbol = item.symbol
          /\ r.offset = Len(c.bytes) + Shift(item)
      BY DEF r, RelocationOf
    <3>2. n + 1 \in 1 .. n + 1  BY <1>1
    <3>3. Position(e, n + 1) = Position(d, n + 1)  BY <1>2, <3>2
    <3>4. b \in Nat /\ Shift(item) \in Nat  BY DEF Base, Shift
    <3> DEFINE p == Position(d, n + 1)
               l == Len(c.bytes)
               s == Shift(item)
    <3>5. l + b = p /\ l \in Nat  BY <1>3
    <3> HIDE DEF p, l, s, b
    <3>6. l + s + b = p + s  BY <3>4, <3>5 DEF s
    <3>7. OperandAt(e, n + 1) = p + s  BY <1>1, <3>3 DEF OperandAt, s, p
    <3> QED  BY <1>1, <3>1, <3>6, <3>7 DEF IsFor, l, s
  <2>5. ASSUME NEW j \in 1 .. Len(ns) PROVE \E i \in Refs(e) : IsFor(ns[j], e, i, b)
    <3>1. CASE j = Len(rs) + 1
      BY <2>2, <2>3, <2>4, <3>1
    <3>2. CASE j # Len(rs) + 1
      <4>1. j \in 1 .. Len(rs)  BY <1>3, <2>2, <3>2 DEF rs
      <4>2. PICK i \in Refs(d) : IsFor(rs[j], d, i, b)  BY <4>1 DEF Records, rs
      <4> QED  BY <1>4, <1>5, <2>2, <4>1, <4>2
    <3> QED  BY <3>1, <3>2
  <2>6. ASSUME NEW i \in Refs(e) PROVE \E j \in 1 .. Len(ns) : IsFor(ns[j], e, i, b)
    <3>1. CASE i = n + 1  BY <1>3, <2>2, <2>4, <3>1 DEF rs
    <3>2. CASE i # n + 1  BY <1>3, <1>4, <1>5, <1>6, <2>2, <3>2 DEF Records, rs
    <3> QED  BY <3>1, <3>2
  <2>7. Records(ns, e, b)  BY <2>5, <2>6 DEF Records
  <2> QED  BY <1>2, <2>7 DEF ns
<1> QED  BY <1>7, <1>8

\* A name is found in a chain exactly when one of its elements has it.
LEMMA LookupFinds ==
  ASSUME NEW chain, Len(chain) \in Nat, NEW name
  PROVE  /\ Lookup(chain, name) # 0 <=> name \in NamesOf(chain)
         /\ Lookup(chain, name) # 0 => /\ Lookup(chain, name) \in 1 .. Len(chain)
                                       /\ chain[Lookup(chain, name)].name = name
<1> DEFINE T == {i \in 1 .. Len(chain) : chain[i].name = name}
<1>1. Lookup(chain, name) = IF T # {} THEN Min(T) ELSE 0
  BY DEF Lookup, SelectInSeq
<1>2. T \subseteq Nat /\ \A i \in T : i # 0 /\ i \in 1 .. Len(chain) /\ chain[i].name = name
  OBVIOUS
<1>3. T # {} <=> name \in NamesOf(chain)  BY DEF NamesOf
<1> HIDE DEF T
<1>4. T # {} => Min(T) \in T  BY <1>2, MinIn
<1> QED  BY <1>1, <1>2, <1>3, <1>4

LEMMA FindLabelFinds ==
  ASSUME NEW chain, Len(chain) \in Nat, NEW symbol
  PROVE  LET j == AsmRelocationsFindLabel(chain, symbol)
         IN  /\ j # 0 <=> \E i \in 1 .. Len(chain) : /\ chain[i].type = "label"
                                                     /\ chain[i].symbol = symbol
             /\ j # 0 => /\ j \in 1 .. Len(chain)
                         /\ chain[j].type = "label" /\ chain[j].symbol = symbol
<1> DEFINE T == {i \in 1 .. Len(chain) :
                   chain[i].type = "label" /\ chain[i].symbol = symbol}
<1>1. AsmRelocationsFindLabel(chain, symbol) = IF T # {} THEN Min(T) ELSE 0
  BY DEF AsmRelocationsFindLabel, SelectInSeq
<1>2. T \subseteq Nat /\ \A i \in T : i # 0 /\ i \in 1 .. Len(chain) /\ chain[i].type = "label"
                                     /\ chain[i].symbol = symbol
  OBVIOUS
<1>3. T # {} <=> \E i \in 1 .. Len(chain) : chain[i].type = "label" /\ chain[i].symbol = symbol
  OBVIOUS
<1> HIDE DEF T
<1>4. T # {} => Min(T) \in T  BY <1>2, MinIn
<1> QED  BY <1>1, <1>2, <1>3, <1>4

LEMMA ReferenceIs ==
  ASSUME NEW d \in Declaration, NEW i \in 1 .. Len(d.text)
  PROVE  /\ d.text[i].kind \in {"label", "declare"} => d.text[i].symbol # ""
         /\ d.text[i].kind = "label" => i \in Refs(d)
         /\ i \in Uses(d, d.text[i].kind)
<1>1. d.text[i] \in Items /\ DOMAIN d.text = 1 .. Len(d.text)  BY DeclarationHas
<1>2. d.text[i].kind \in {"label", "declare"} => d.text[i].symbol # ""
  BY <1>1, SourceAssumption
<1> QED  BY <1>1, <1>2 DEF Refs, Relocated, RelocatedKinds, Uses

\* The items of a kind, and their symbols, when there is another item.
LEMMA UsesGrow ==
  ASSUME NEW e, NEW d, NEW item, Extends(e, d, item), NEW kind
  PROVE  LET n == Len(d.text)
         IN  /\ item.kind # kind => /\ Uses(e, kind) = Uses(d, kind)
                                    /\ Symbols(e, kind) = Symbols(d, kind)
             /\ item.kind = kind =>
                  /\ Uses(e, kind) = Uses(d, kind) \cup {n + 1}
                  /\ Symbols(e, kind) = Symbols(d, kind) \cup {item.symbol}
             /\ n + 1 \notin Uses(d, kind)
             /\ \A i \in Uses(d, kind) : e.text[i] = d.text[i] /\ i \in 1 .. n
<1> DEFINE n == Len(d.text)
<1>1. /\ n \in Nat /\ Len(e.text) = n + 1 /\ e.text[n + 1] = item
      /\ \A i \in 1 .. n : e.text[i] = d.text[i]
      /\ DOMAIN d.text = 1 .. n /\ DOMAIN e.text = 1 .. n + 1
  BY ExtendedText
<1> HIDE DEF n
<1>2. \A i \in 1 .. n + 1 : i = n + 1 \/ i \in 1 .. n
  BY <1>1
<1>3. n + 1 \notin 1 .. n /\ n + 1 \in 1 .. n + 1 /\ \A i \in 1 .. n : i \in 1 .. n + 1
  BY <1>1
<1>4. \A i : i \in Uses(e, kind) <=> \/ i \in Uses(d, kind)
                                     \/ (i = n + 1 /\ item.kind = kind)
  BY <1>1, <1>2, <1>3 DEF Uses
<1>5. \A i \in Uses(d, kind) : e.text[i] = d.text[i] /\ i \in 1 .. n
  BY <1>1 DEF Uses
<1>6. n + 1 \notin Uses(d, kind)  BY <1>1, <1>3 DEF Uses
<1>7. \A x : x \in Symbols(e, kind) <=> \/ x \in Symbols(d, kind)
                                        \/ (x = item.symbol /\ item.kind = kind)
  BY <1>1, <1>4, <1>5 DEF Symbols
<1>8. CASE item.kind # kind  BY <1>4, <1>5, <1>6, <1>7, <1>8 DEF n
<1>9. CASE item.kind = kind  BY <1>4, <1>5, <1>6, <1>7, <1>9 DEF n
<1> QED  BY <1>8, <1>9

\* A symbol is declared again exactly when it was declared before.
LEMMA OnceGrows ==
  ASSUME NEW e, NEW d, NEW item, Extends(e, d, item), NEW kind, Once(d, kind)
  PROVE  Once(e, kind) <=> ~ (item.kind = kind /\ item.symbol \in Symbols(d, kind))
<1> DEFINE n == Len(d.text)
<1>1. /\ item.kind # kind => Uses(e, kind) = Uses(d, kind)
      /\ item.kind = kind => Uses(e, kind) = Uses(d, kind) \cup {n + 1}
      /\ n + 1 \notin Uses(d, kind)
      /\ \A i \in Uses(d, kind) : e.text[i] = d.text[i]
  BY UsesGrow
<1>2. e.text[n + 1] = item  BY ExtendedText
<1> HIDE DEF n
<1>3. CASE item.kind # kind
  BY <1>1, <1>3 DEF Once
<1>4. CASE item.kind = kind /\ item.symbol \in Symbols(d, kind)
  BY <1>1, <1>2, <1>4 DEF Symbols, Once
<1>5. CASE item.kind = kind /\ item.symbol \notin Symbols(d, kind)
  BY <1>1, <1>2, <1>5 DEF Once, Symbols
<1> QED  BY <1>3, <1>4, <1>5

LEMMA RelocationTypes ==
  \A kind \in RelocatedKinds :
    /\ RelocationType[kind] \in DOMAIN SizeOf
    /\ RelocationType[kind] = "label" <=> kind = "label"
    /\ RelocationType[kind] = "jump" <=> kind = "jump"
    /\ RelocationType[kind] = "local" <=> kind = "local"
    /\ RelocationType[kind] = "handle" <=> kind \in {"call", "handle"}
BY DEF RelocatedKinds, RelocationType, SizeOf

\* The relocation chain has the labels of the text.
LEMMA LabelsFound ==
  ASSUME NEW d \in Declaration, NEW c \in Sound, NEW base, Records(c.relocations, d, base),
         NEW symbol
  PROVE  AsmRelocationsFindLabel(c.relocations, symbol) # 0
           <=> symbol \in Symbols(d, "label") /\ symbol # ""
<1> DEFINE rs == c.relocations
           n == Len(d.text)
<1>1. Len(rs) \in Nat  BY SoundHas
<1>2. DOMAIN d.text = 1 .. n  BY DeclarationHas
<1>3. AsmRelocationsFindLabel(rs, symbol) # 0
        <=> \E j \in 1 .. Len(rs) : rs[j].type = "label" /\ rs[j].symbol = symbol
  <2> HIDE DEF rs
  <2> QED  BY <1>1, FindLabelFinds
<1>4. ASSUME NEW j \in 1 .. Len(rs), rs[j].type = "label", rs[j].symbol = symbol
      PROVE  symbol \in Symbols(d, "label") /\ symbol # ""
  <2>1. PICK i \in Refs(d) : IsFor(rs[j], d, i, base)  BY DEF Records
  <2>2. /\ i \in 1 .. n /\ d.text[i].kind \in RelocatedKinds /\ d.text[i].symbol = symbol
        /\ RelocationType[d.text[i].kind] = "label" /\ d.text[i].symbol # ""
    BY <1>4, <2>1 DEF Refs, Relocated, IsFor
  <2>3. d.text[i].kind = "label"  BY <2>2, RelocationTypes
  <2> QED  BY <1>2, <2>2, <2>3 DEF Symbols, Uses
<1>5. ASSUME symbol \in Symbols(d, "label")
      PROVE  \E j \in 1 .. Len(rs) : rs[j].type = "label" /\ rs[j].symbol = symbol
  <2>1. PICK i \in Uses(d, "label") : d.text[i].symbol = symbol
    BY <1>5 DEF Symbols
  <2>2. i \in 1 .. n /\ d.text[i].kind = "label"  BY <1>2, <2>1 DEF Uses
  <2>3. i \in Refs(d)  BY <2>2, ReferenceIs
  <2>4. PICK j \in 1 .. Len(rs) : IsFor(rs[j], d, i, base)  BY <2>3 DEF Records
  <2> QED  BY <2>1, <2>2, <2>4 DEF IsFor, RelocationType
<1> QED  BY <1>3, <1>4, <1>5

\* A reduction is rejected exactly when what it declares was declared before.
LEMMA RejectedWhenDeclared ==
  ASSUME NEW e, NEW d, NEW item, Extends(e, d, item), NEW c \in Sound, Translates(c, d)
  PROVE  Rejected(c, item) <=> ~ (Once(e, "label") /\ Once(e, "declare"))
<1>1. d \in Declaration /\ item \in Items  BY ExtendedText DEF Extends
<1>2. Once(d, "label") /\ Once(d, "declare")  BY DEF Translates
<1>3. item.kind = "label" => item.symbol # ""  BY <1>1, SourceAssumption
<1>4. AsmRelocationsFindLabel(c.relocations, item.symbol) # 0
        <=> item.symbol \in Symbols(d, "label") /\ item.symbol # ""
  BY <1>1, LabelsFound DEF Translates
<1>5. Len(c.locals) \in Nat /\ NamesOf(c.locals) = Symbols(d, "declare")
  BY SoundHas DEF Translates
<1>6. Lookup(c.locals, item.symbol) # 0 <=> item.symbol \in Symbols(d, "declare")
  BY <1>5, LookupFinds
<1>7. /\ Once(e, "label") <=> ~ (item.kind = "label" /\ item.symbol \in Symbols(d, "label"))
      /\ Once(e, "declare") <=> ~ (item.kind = "declare" /\ item.symbol \in Symbols(d, "declare"))
  BY <1>2, OnceGrows
<1> QED  BY <1>3, <1>4, <1>6, <1>7 DEF Rejected

LEMMA TranslatesStep ==
  ASSUME NEW e, NEW d, NEW item, Extends(e, d, item), NEW c \in Sound, Translates(c, d),
         ~ Rejected(c, item)
  PROVE  Translates(Reduced(c, item), e)
<1> DEFINE f == Reduced(c, item)
           l == c.locals
           n == Len(d.text)
<1>1. item \in Items /\ d \in Declaration /\ Len(e.text) = n + 1 /\ n \in Nat
  BY ExtendedText DEF Extends
<1>2. f.relocations = NewRelocations(c, item) /\ f.locals = NewLocals(c, item)
  BY <1>1, ReducedGrows DEF Grown
<1>3. Len(f.bytes) = Len(c.bytes) + TextSize(item)  BY <1>1, ReducedLength
<1>4. /\ Position(e, Len(e.text) + 1) = Position(d, n + 1) + TextSize(item)
      /\ Base(e) = Base(d)
  BY ExtendedPositions
<1>5. Once(e, "label") /\ Once(e, "declare")  BY RejectedWhenDeclared
<1>6. Len(f.bytes) + Base(e) = Position(e, Len(e.text) + 1)
  <2> DEFINE s == TextSize(item)
             m == Len(c.bytes)
             b == Base(d)
             p == Position(d, n + 1)
  <2>1. s \in Nat /\ m \in Nat /\ b \in Nat
    BY <1>1, TextSizeType, SoundHas DEF Base
  <2>2. m + b = p  BY DEF Translates
  <2> HIDE DEF s, m, b, p
  <2>3. m + s + b = p + s  BY <2>1, <2>2
  <2> QED  BY <1>3, <1>4, <2>3 DEF s, m, b, p
<1>7. Records(f.relocations, e, Base(e))
  BY <1>2, RecordsGrow DEF Translates
<1>8. l \in Seq(Variable) /\ Len(l) \in Nat  BY SoundHas
<1>9. /\ NamesOf(f.locals) = Symbols(e, "declare")
      /\ IsFiniteSet(Uses(e, "declare"))
      /\ Len(f.locals) = Cardinality(Uses(e, "declare"))
  <2>1. /\ NamesOf(l) = Symbols(d, "declare") /\ IsFiniteSet(Uses(d, "declare"))
        /\ Len(l) = Cardinality(Uses(d, "declare"))
    BY DEF Translates
  <2>2. CASE item.kind # "declare"  BY <1>2, <2>1, <2>2, UsesGrow DEF NewLocals
  <2>3. CASE item.kind = "declare"
    <3> DEFINE v == [name |-> item.symbol, index |-> 0]
    <3>1. Lookup(l, item.symbol) = 0  BY <2>3 DEF Rejected
    <3>2. f.locals = Append(l, v)  BY <1>2, <2>3, <3>1 DEF NewLocals
    <3>3. v.name = item.symbol  OBVIOUS
    <3> HIDE DEF v, l
    <3> DEFINE k == f.locals
    <3>4. /\ Len(k) = Len(l) + 1 /\ k[Len(l) + 1] = v
          /\ \A j \in 1 .. Len(l) : k[j] = l[j]
      BY <1>8, <3>2
    <3> HIDE DEF k
    <3>5. NamesOf(k) = NamesOf(l) \cup {item.symbol}  BY <1>8, <3>3, <3>4 DEF NamesOf
    <3>6. /\ Uses(e, "declare") = Uses(d, "declare") \cup {n + 1}
          /\ Symbols(e, "declare") = Symbols(d, "declare") \cup {item.symbol}
          /\ n + 1 \notin Uses(d, "declare")
      BY <2>3, UsesGrow
    <3>7. /\ IsFiniteSet(Uses(e, "declare"))
          /\ Cardinality(Uses(e, "declare")) = Cardinality(Uses(d, "declare")) + 1
      BY <2>1, <3>6, FS_AddElement
    <3> QED  BY <2>1, <3>4, <3>5, <3>6, <3>7 DEF k
  <2> QED  BY <2>2, <2>3
<1> QED  BY <1>5, <1>6, <1>7, <1>9 DEF Translates

----------------------------------------------------------------------------
(***************************************************************************)
(* The end of a declaration.                                               *)
(***************************************************************************)

\* The names of a function's variables: the locals and the arguments.
LEMMA ProcessedNames ==
  ASSUME NEW c \in Sound, NEW args \in Seq(STRING)
  PROVE  NamesOf(AsmUtilProcessLocals(c, args).locals)
           = NamesOf(c.locals) \cup {args[i] : i \in DOMAIN args}
<1> DEFINE l == c.locals
           n == Len(l)
           m == Len(args)
           x == IndexedLocals(c)
           y == IndexedArgs(args)
           z == x \o y
<1>1. /\ n \in Nat /\ m \in Nat /\ DOMAIN l = 1 .. n /\ DOMAIN args = 1 .. m
      /\ l \in Seq(Variable)
      /\ c = [bytes |-> c.bytes, relocations |-> c.relocations, locals |-> c.locals]
  BY SoundHas
<1>2. AsmUtilProcessLocals(c, args).locals = z  BY <1>1 DEF AsmUtilProcessLocals
<1>3. /\ x = [i \in 1 .. n |-> [name |-> l[i].name, index |-> i - 1]]
      /\ y = [i \in 1 .. m |-> [name |-> args[i], index |-> MaxLocals + i - 1]]
  BY <1>1 DEF IndexedLocals, IndexedArgs
<1> DEFINE V == [name : STRING, index : Int]
<1>4. /\ \A i \in 1 .. n : x[i] \in V /\ x[i].name = l[i].name
      /\ \A i \in 1 .. m : y[i] \in V /\ y[i].name = args[i]
  <2>1. ASSUME NEW i \in 1 .. n PROVE x[i] \in V /\ x[i].name = l[i].name
    <3>1. l[i] \in Variable  BY <1>1
    <3>2. l[i].name \in STRING /\ i - 1 \in Int  BY <3>1 DEF Variable
    <3>3. x[i] = [name |-> l[i].name, index |-> i - 1]  BY <1>3
    <3> QED  BY <3>2, <3>3
  <2>2. ASSUME NEW i \in 1 .. m PROVE y[i] \in V /\ y[i].name = args[i]
    BY <1>3, LimitsHave
  <2> QED  BY <2>1, <2>2
<1>5. x = [i \in 1 .. n |-> x[i]] /\ y = [i \in 1 .. m |-> y[i]]  BY <1>3
<1> HIDE DEF x, y, V, n, m, l
<1>6. x \in Seq(V) /\ Len(x) = n /\ y \in Seq(V) /\ Len(y) = m
  BY <1>1, <1>4, <1>5, SeqIs
<1>7. /\ Len(z) = n + m
      /\ \A i \in 1 .. n : z[i] = x[i]
      /\ \A i \in 1 .. m : z[n + i] = y[i]
  <2>1. z = x \o y  OBVIOUS
  <2> HIDE DEF z
  <2>2. x \in Seq(V) /\ y \in Seq(V)  BY <1>6
  <2>3. /\ Len(z) = Len(x) + Len(y)
        /\ \A i \in 1 .. Len(x) : z[i] = x[i]
        /\ \A i \in 1 .. Len(y) : z[Len(x) + i] = y[i]
    BY <2>1, <2>2, Concat
  <2> QED  BY <1>6, <2>3
<1> HIDE DEF z
<1>8. \A j \in 1 .. n + m : j \in 1 .. n \/ (j - n \in 1 .. m /\ n + (j - n) = j)
  BY <1>1
<1>9. \A i \in 1 .. n : i \in 1 .. n + m  BY <1>1
<1>10. \A i \in 1 .. m : n + i \in 1 .. n + m  BY <1>1
<1>11. ASSUME NEW j \in 1 .. n + m
       PROVE  z[j].name \in NamesOf(l) \cup {args[i] : i \in 1 .. m}
  <2>1. CASE j \in 1 .. n
    BY <1>4, <1>7, <2>1 DEF NamesOf, n
  <2>2. CASE j - n \in 1 .. m /\ n + (j - n) = j
    <3>1. z[j] = y[j - n]  BY <1>7, <2>2
    <3> QED  BY <1>4, <2>2, <3>1
  <2> QED  BY <1>8, <2>1, <2>2
<1>12. ASSUME NEW name \in NamesOf(l) \cup {args[i] : i \in 1 .. m}
       PROVE  \E j \in 1 .. n + m : z[j].name = name
  <2>1. CASE name \in NamesOf(l)  BY <1>4, <1>7, <1>9, <2>1 DEF NamesOf, n
  <2>2. CASE name \in {args[i] : i \in 1 .. m}  BY <1>4, <1>7, <1>10, <2>2
  <2> QED  BY <2>1, <2>2
<1>13. NamesOf(z) = NamesOf(l) \cup {args[i] : i \in 1 .. m}
  BY <1>7, <1>11, <1>12 DEF NamesOf
<1> QED  BY <1>1, <1>2, <1>13 DEF l

\* Behind the header all relocations are where the text says.
LEMMA AdjustedRecords ==
  ASSUME NEW d \in Declaration, NEW r \in Seq(Relocation), NEW base \in Nat,
         Records(r, d, base)
  PROVE  Records(Adjusted(r, base), d, 0)
<1> DEFINE a == Adjusted(r, base)
<1>1. Len(a) = Len(r)  BY AdjustedType
<1>2. ASSUME NEW j \in 1 .. Len(r), NEW i
      PROVE  IsFor(r[j], d, i, base) => IsFor(a[j], d, i, 0)
  <2>1. a[j].type = r[j].type /\ a[j].symbol = r[j].symbol /\ a[j].offset = r[j].offset + base
    BY AdjustedType
  <2>2. r[j].offset \in Nat
    <3>1. r[j] \in Relocation  OBVIOUS
    <3> QED  BY <3>1 DEF Relocation
  <2> HIDE DEF a
  <2>3. a[j].offset + 0 = r[j].offset + base  BY <2>1, <2>2
  <2> QED  BY <2>1, <2>3 DEF IsFor
<1> HIDE DEF a
<1>3. Records(a, d, 0)  BY <1>1, <1>2 DEF Records
<1> QED  BY <1>3 DEF a

LEMMA FunctionFinished ==
  ASSUME NEW d \in Declaration, IsFunction(d), NEW c \in Sound, Translates(c, d),
         NEW h \in Seq(Byte), Len(h) = 4
  PROVE  Finished(AsmCodeAddMetadata(AsmUtilProcessLocals(c, d.args), h), d)
<1> DEFINE p == AsmUtilProcessLocals(c, d.args)
           f == AsmCodeAddMetadata(p, h)
           l == IndexedLocals(c) \o IndexedArgs(d.args)
<1>1. /\ c = [bytes |-> c.bytes, relocations |-> c.relocations, locals |-> c.locals]
      /\ c.relocations \in Seq(Relocation) /\ d.args \in Seq(STRING)
  BY SoundHas, DeclarationHas
<1>2. p = [bytes |-> c.bytes, relocations |-> c.relocations, locals |-> p.locals]
  <2>1. p = [c EXCEPT !.locals = l]  BY DEF AsmUtilProcessLocals
  <2> HIDE DEF l, p
  <2>2. p = [bytes |-> c.bytes, relocations |-> c.relocations, locals |-> l]
    BY <1>1, <2>1
  <2> QED  BY <2>2
<1>3. NamesOf(p.locals) = NamesOf(c.locals) \cup {d.args[i] : i \in DOMAIN d.args}
  BY <1>1, ProcessedNames
<1> HIDE DEF p
<1> DEFINE b == h \o p.bytes
           e == [p EXCEPT !.bytes = b]
<1>4. f = [e EXCEPT !.relocations = Adjusted(@, Len(h))]  BY DEF AsmCodeAddMetadata
<1>5. e.relocations = c.relocations /\ e.locals = p.locals
      /\ e = [bytes |-> e.bytes, relocations |-> e.relocations, locals |-> e.locals]
  <2> HIDE DEF b
  <2>1. e = [bytes |-> b, relocations |-> c.relocations, locals |-> p.locals]
    BY <1>2
  <2> HIDE DEF e
  <2> QED  BY <2>1
<1> HIDE DEF e, f
<1>6. f.relocations = Adjusted(c.relocations, 4) /\ f.locals = p.locals
  BY <1>4, <1>5
<1>7. Base(d) = 4  BY DEF Base
<1>8. Records(f.relocations, d, 0)
  BY <1>1, <1>6, <1>7, AdjustedRecords DEF Translates
<1>9. NamesOf(f.locals) = Variables(d)
  BY <1>3, <1>6 DEF Variables, Translates
<1> QED  BY <1>8, <1>9 DEF Finished, f, p

LEMMA ObjectFinished ==
  ASSUME NEW d \in Declaration, ~ IsFunction(d), d.args = <<>>, NEW c, Translates(c, d)
  PROVE  Finished(c, d)
<1>1. Base(d) = 0  BY DEF Base
<1>2. {d.args[i] : i \in DOMAIN d.args} = {}  OBVIOUS
<1> QED  BY <1>1, <1>2 DEF Finished, Translates, Variables

----------------------------------------------------------------------------
(***************************************************************************)
(* The second pass of the linker finds what the text refers to.            *)
(***************************************************************************)

\* Applying a relocation leaves the chains.
LEMMA ApplyKeeps ==
  ASSUME NEW c \in Sound, NEW r, NEW value
  PROVE  /\ AsmCodeApplyRelocation(c, r, value).relocations = c.relocations
         /\ AsmCodeApplyRelocation(c, r, value).locals = c.locals
<1> DEFINE o == Encoded(value, SizeOf[r.type])
           b == [i \in DOMAIN c.bytes |-> IF i - r.offset \in DOMAIN o
                                          THEN o[i - r.offset] ELSE c.bytes[i]]
<1>1. c = [bytes |-> c.bytes, relocations |-> c.relocations, locals |-> c.locals]
  BY SoundHas
<1>2. AsmCodeApplyRelocation(c, r, value) = [c EXCEPT !.bytes = b]
  BY DEF AsmCodeApplyRelocation
<1> HIDE DEF b
<1> QED  BY <1>1, <1>2

\* What is resolved depends on the chains of the buffer only.
LEMMA ResolvableAlike ==
  ASSUME NEW objs, NEW c, NEW e, NEW r, r.type \in DOMAIN SizeOf,
         e.relocations = c.relocations, e.locals = c.locals
  PROVE  Resolvable(objs, e, r) <=> Resolvable(objs, c, r)
<1>1. r.type \in {"label", "local", "jump", "handle"}  BY DEF SizeOf
<1>2. CASE r.type = "label"  BY <1>2 DEF Resolvable, Delta
<1>3. CASE r.type = "local"  BY <1>3 DEF Resolvable
<1>4. CASE r.type = "jump"   BY <1>4 DEF Resolvable, Delta
<1>5. CASE r.type = "handle"  BY <1>5 DEF Resolvable
<1> QED  BY <1>1, <1>2, <1>3, <1>4, <1>5

\* The chains of a pass over the buffer c.
PassOf(c) == {p \in LinkPass : /\ p.content.relocations = c.relocations
                               /\ p.content.locals = c.locals}

LEMMA RelocateCounts ==
  ASSUME NEW objs \in Seq(Object), NEW c \in Sound, NEW p \in PassOf(c),
         NEW j \in 1 .. Len(c.relocations)
  PROVE  LET r == c.relocations[j]
             q == Relocate(objs, p, r)
         IN  /\ q \in PassOf(c)
             /\ q.errors = IF r.type = "label" \/ Resolvable(objs, c, r)
                           THEN p.errors ELSE p.errors + 1
<1> DEFINE r == c.relocations[j]
           q == Relocate(objs, p, r)
           e == p.content
           new == AsmCodeApplyRelocation(e, r, Resolved(objs, e, r))
           more == [p EXCEPT !.errors = @ + 1]
           applied == [p EXCEPT !.content = new]
<1>1. /\ p \in LinkPass /\ e \in Sound /\ p.errors \in Nat
      /\ e.relocations = c.relocations /\ e.locals = c.locals
      /\ p = [content |-> e, errors |-> p.errors]
  BY DEF PassOf, LinkPass
<1>2. r \in Relocation  BY SoundHas
<1>3. r.type \in DOMAIN SizeOf  BY <1>2 DEF Relocation
<1>4. q \in LinkPass  BY <1>1, <1>2, RelocateType
<1>5. r.type # "label" => Applies(e, r)
  BY <1>1, <1>3, SoundHas DEF Within, SizeOf, Applies
<1>6. Resolvable(objs, e, r) <=> Resolvable(objs, c, r)
  BY <1>1, <1>3, ResolvableAlike
<1>7. q = IF r.type = "label" THEN p
          ELSE IF Resolvable(objs, e, r) /\ Applies(e, r) THEN applied ELSE more
  BY DEF Relocate
<1>8. new.relocations = c.relocations /\ new.locals = c.locals
  <2> HIDE DEF e
  <2> QED  BY <1>1, ApplyKeeps
<1>9. more.content = e /\ more.errors = p.errors + 1
  BY <1>1
<1>10. applied.content = new /\ applied.errors = p.errors
  <2> HIDE DEF new
  <2> QED  BY <1>1
<1> HIDE DEF more, applied, new, e, r, q
<1>11. /\ q.content.relocations = c.relocations /\ q.content.locals = c.locals
       /\ q.errors = IF r.type = "label" \/ Resolvable(objs, c, r)
                     THEN p.errors ELSE p.errors + 1
  BY <1>1, <1>5, <1>6, <1>7, <1>8, <1>9, <1>10 DEF e
<1> QED  BY <1>4, <1>11 DEF PassOf, q, r

\* An object is linked without an error exactly when all its references resolve.
AllResolve(objs, c) ==
  \A j \in 1 .. Len(c.relocations) :
    c.relocations[j].type # "label" => Resolvable(objs, c, c.relocations[j])

LEMMA LinkObjectCounts ==
  ASSUME NEW objs \in Seq(Object), NEW c \in Sound
  PROVE  AsmLinkObject(objs, c).errors = 0 <=> AllResolve(objs, c)
<1> DEFINE n == Len(c.relocations)
           Good(j) == \/ c.relocations[j].type = "label"
                      \/ Resolvable(objs, c, c.relocations[j])
<1>1. PICK pass : /\ AsmLinkObject(objs, c) = pass[n]
                  /\ pass[0] = [content |-> c, errors |-> 0]
                  /\ \A i \in 1 .. n : pass[i] = Relocate(objs, pass[i - 1], c.relocations[i])
  BY LinkObjectRuns
<1>2. n \in Nat  BY SoundHas
<1>3. \A i \in 1 .. n, p \in PassOf(c) :
        /\ Relocate(objs, p, c.relocations[i]) \in PassOf(c)
        /\ Relocate(objs, p, c.relocations[i]).errors = IF Good(i) THEN p.errors ELSE p.errors + 1
  BY RelocateCounts
<1>4. pass[0] \in PassOf(c) /\ pass[0].errors = 0
  BY <1>1 DEF PassOf, LinkPass
<1>5. \A p \in PassOf(c) : p.errors \in Nat  BY DEF PassOf, LinkPass
<1> HIDE DEF n, Good
<1> DEFINE P == {i \in 0 .. n : /\ pass[i] \in PassOf(c)
                                /\ pass[i].errors = 0 <=> \A j \in 1 .. i : Good(j)}
<1>6. 0 \in P  BY <1>2, <1>4
<1>7. \A i \in 1 .. n : i - 1 \in P => i \in P
  <2> SUFFICES ASSUME NEW i \in 1 .. n, i - 1 \in P PROVE i \in P  OBVIOUS
  <2>1. /\ pass[i - 1] \in PassOf(c)
        /\ pass[i - 1].errors = 0 <=> \A j \in 1 .. i - 1 : Good(j)
    OBVIOUS
  <2>2. /\ pass[i] \in PassOf(c)
        /\ pass[i].errors = IF Good(i) THEN pass[i - 1].errors ELSE pass[i - 1].errors + 1
    <3>1. pass[i] = Relocate(objs, pass[i - 1], c.relocations[i])  BY <1>1
    <3> DEFINE q == pass[i - 1]
    <3>2. q \in PassOf(c)  BY <2>1
    <3> HIDE DEF q
    <3>3. /\ Relocate(objs, q, c.relocations[i]) \in PassOf(c)
          /\ Relocate(objs, q, c.relocations[i]).errors = IF Good(i) THEN q.errors ELSE q.errors + 1
      BY <1>3, <3>2
    <3> QED  BY <3>1, <3>3 DEF q
  <2>3. pass[i - 1].errors \in Nat  BY <1>5, <2>1
  <2>4. pass[i].errors = 0 <=> pass[i - 1].errors = 0 /\ Good(i)  BY <2>2, <2>3
  <2>5. \A j \in 1 .. i : j = i \/ j \in 1 .. i - 1  BY <1>2
  <2>6. \A j \in 1 .. i - 1 : j \in 1 .. i  BY <1>2
  <2>7. i \in 1 .. i /\ i \in 0 .. n  BY <1>2
  <2>8. pass[i].errors = 0 <=> \A j \in 1 .. i : Good(j)
    BY <2>1, <2>4, <2>5, <2>6, <2>7
  <2> QED  BY <2>2, <2>7, <2>8
<1> HIDE DEF P
<1>8. \A i \in 0 .. n : i \in P  BY <1>2, <1>6, <1>7, CountingUp
<1>9. n \in 0 .. n  BY <1>2
<1>10. pass[n].errors = 0 <=> \A j \in 1 .. n : Good(j)  BY <1>8, <1>9 DEF P
<1> QED  BY <1>1, <1>10 DEF AllResolve, Good, n

\* The references of a declaration resolve exactly when it is linkable.  Names
\* are those of the source.
LinkableIn(d, names) ==
  /\ Symbols(d, "local") \subseteq Variables(d) \cup {""}
  /\ Symbols(d, "call") \cup Symbols(d, "handle") \subseteq names \cup {""}
  /\ \A i \in Uses(d, "jump") :
       d.text[i].symbol # "" =>
         /\ d.text[i].symbol \in Symbols(d, "label")
         /\ LabelPosition(d, d.text[i].symbol) - (Position(d, i) + 1)
              \in MinJump .. MaxJump

\* A jump is resolved to the position of its label.
LEMMA LabelFound ==
  ASSUME NEW d \in Declaration, NEW c \in Sound, Records(c.relocations, d, 0),
         Once(d, "label"), NEW i \in Uses(d, "jump"), NEW r \in Relocation,
         IsFor(r, d, i, 0),
         AsmRelocationsFindLabel(c.relocations, d.text[i].symbol) # 0
  PROVE  Delta(c, r) = LabelPosition(d, d.text[i].symbol) - (Position(d, i) + 1)
<1> DEFINE s == d.text[i].symbol
           j == AsmRelocationsFindLabel(c.relocations, s)
           x == c.relocations[j]
           n == Len(d.text)
<1>1. Len(c.relocations) \in Nat /\ c.relocations \in Seq(Relocation)  BY SoundHas
<1>2. j # 0  OBVIOUS
<1>3. j \in 1 .. Len(c.relocations) /\ x.type = "label" /\ x.symbol = s
  BY <1>1, <1>2, FindLabelFinds
<1> HIDE DEF j
<1>4. PICK k \in Refs(d) : IsFor(x, d, k, 0)  BY <1>3 DEF Records
<1>5. DOMAIN d.text = 1 .. n  BY DeclarationHas
<1>6. /\ k \in 1 .. n /\ d.text[k].kind \in RelocatedKinds
      /\ RelocationType[d.text[k].kind] = "label" /\ d.text[k].symbol = s
  BY <1>3, <1>4 DEF Refs, Relocated, IsFor
<1>7. d.text[k].kind = "label"  BY <1>6, RelocationTypes
<1>8. k \in Uses(d, "label") /\ d.text[k].symbol = s  BY <1>5, <1>6, <1>7 DEF Uses
<1> DEFINE chosen == CHOOSE m \in Uses(d, "label") : d.text[m].symbol = s
<1>9. chosen \in Uses(d, "label") /\ d.text[chosen].symbol = s  BY <1>8
<1>10. chosen = k  BY <1>8, <1>9 DEF Once
<1>11. LabelPosition(d, s) = Position(d, k)  BY <1>10 DEF LabelPosition
<1>12. Position(d, k) \in Nat /\ Position(d, i) \in Nat /\ i \in 1 .. n
  <2>1. i \in 1 .. n  BY <1>5 DEF Uses
  <2> QED  BY <1>6, <2>1, Positions
<1>13. x.offset + 0 = Position(d, k) + 0
  BY <1>4, <1>7 DEF IsFor, OperandAt, Shift
<1>14. r.offset + 0 = Position(d, i) + 1 /\ r.symbol = s
  BY DEF IsFor, OperandAt, Shift, Uses
<1>15. x \in Relocation  BY <1>1, <1>3
<1>16. x.offset \in Nat /\ r.offset \in Nat  BY <1>15 DEF Relocation
<1>17. x.offset = Position(d, k) /\ r.offset = Position(d, i) + 1
  BY <1>12, <1>13, <1>14, <1>16
<1>18. Delta(c, r) = x.offset - r.offset  BY <1>14 DEF Delta, j
<1> QED  BY <1>11, <1>17, <1>18

\* A reference of a text is found.
RefFound(d, i, names) ==
  LET symbol == d.text[i].symbol
      kind   == d.text[i].kind
  IN  /\ kind = "local" => symbol \in Variables(d)
      /\ kind \in {"call", "handle"} => symbol \in names
      /\ kind = "jump" =>
           /\ symbol \in Symbols(d, "label")
           /\ LabelPosition(d, symbol) - (Position(d, i) + 1) \in MinJump .. MaxJump

LEMMA RefResolves ==
  ASSUME NEW d \in Declaration, NEW c \in Sound, Finished(c, d), Once(d, "label"),
         NEW objs \in Seq(Object), NEW i \in Refs(d), NEW r \in Relocation,
         IsFor(r, d, i, 0), r.type # "label"
  PROVE  Resolvable(objs, c, r) <=> RefFound(d, i, NamesOf(objs))
<1> DEFINE k == d.text[i].kind
           s == d.text[i].symbol
<1>1. /\ i \in 1 .. Len(d.text) /\ k \in RelocatedKinds /\ s # ""
      /\ r.type = RelocationType[k] /\ r.symbol = s
  BY DEF Refs, Relocated, IsFor
<1>2. /\ Records(c.relocations, d, 0) /\ NamesOf(c.locals) = Variables(d)
  BY DEF Finished
<1>3. Len(c.locals) \in Nat /\ Len(objs) \in Nat  BY SoundHas
<1>4. CASE k = "local"
  <2>1. r.type = "local"  BY <1>1, <1>4, RelocationTypes
  <2>2. Resolvable(objs, c, r) <=> Lookup(c.locals, s) # 0
    BY <1>1, <2>1 DEF Resolvable
  <2>3. Lookup(c.locals, s) # 0 <=> s \in Variables(d)  BY <1>2, <1>3, LookupFinds
  <2> QED  BY <1>4, <2>2, <2>3 DEF RefFound
<1>5. CASE k \in {"call", "handle"}
  <2>1. r.type = "handle"  BY <1>1, <1>5, RelocationTypes
  <2>2. Resolvable(objs, c, r) <=> Lookup(objs, s) # 0
    BY <1>1, <2>1 DEF Resolvable
  <2>3. Lookup(objs, s) # 0 <=> s \in NamesOf(objs)  BY <1>3, LookupFinds
  <2> QED  BY <1>5, <2>2, <2>3 DEF RefFound
<1>6. CASE k = "jump"
  <2>1. r.type = "jump"  BY <1>1, <1>6, RelocationTypes
  <2>2. Resolvable(objs, c, r) <=> /\ AsmRelocationsFindLabel(c.relocations, s) # 0
                                   /\ Delta(c, r) \in MinJump .. MaxJump
    BY <1>1, <2>1 DEF Resolvable
  <2>3. AsmRelocationsFindLabel(c.relocations, s) # 0 <=> s \in Symbols(d, "label")
    BY <1>1, <1>2, LabelsFound
  <2>4. i \in Uses(d, "jump")  BY <1>1, <1>6, DeclarationHas DEF Uses
  <2>5. AsmRelocationsFindLabel(c.relocations, s) # 0
          => Delta(c, r) = LabelPosition(d, s) - (Position(d, i) + 1)
    BY <1>2, <2>4, LabelFound
  <2> DEFINE found == AsmRelocationsFindLabel(c.relocations, s) # 0
             labelled == s \in Symbols(d, "label")
             delta == LabelPosition(d, s) - (Position(d, i) + 1)
  <2>6. RefFound(d, i, NamesOf(objs)) <=> labelled /\ delta \in MinJump .. MaxJump
    BY <1>6 DEF RefFound
  <2> HIDE DEF delta
  <2>7. CASE found
    <3>1. Delta(c, r) = delta  BY <2>5, <2>7 DEF delta
    <3> QED  BY <2>2, <2>3, <2>6, <2>7, <3>1
  <2>8. CASE ~ found
    BY <2>2, <2>3, <2>6, <2>8
  <2> QED  BY <2>7, <2>8
<1>7. k # "label"  BY <1>1, RelocationTypes
<1> QED  BY <1>1, <1>4, <1>5, <1>6, <1>7 DEF RelocatedKinds

LEMMA RefsLinkable ==
  ASSUME NEW d \in Declaration, NEW names
  PROVE  (\A i \in Refs(d) : RefFound(d, i, names)) <=> LinkableIn(d, names)
<1> DEFINE n == Len(d.text)
<1>1. DOMAIN d.text = 1 .. n  BY DeclarationHas
<1>2. \A i \in 1 .. n : i \in Refs(d) <=> Relocated(d.text[i])  BY DEF Refs
<1>3. ASSUME \A i \in Refs(d) : RefFound(d, i, names)
      PROVE  LinkableIn(d, names)
  <2>1. ASSUME NEW kind \in RelocatedKinds, NEW i \in Uses(d, kind), d.text[i].symbol # ""
        PROVE  RefFound(d, i, names) /\ d.text[i].kind = kind
    BY <1>1, <1>2, <1>3, <2>1 DEF Uses, Relocated
  <2>2. {"local", "call", "handle", "jump"} \subseteq RelocatedKinds  BY DEF RelocatedKinds
  <2>3. ASSUME NEW s \in Symbols(d, "local") PROVE s \in Variables(d) \cup {""}
    <3>1. PICK i \in Uses(d, "local") : s = d.text[i].symbol  BY DEF Symbols
    <3>2. s # "" => RefFound(d, i, names) /\ d.text[i].kind = "local"
      BY <2>1, <2>2, <3>1
    <3> QED  BY <3>1, <3>2 DEF RefFound
  <2>4. ASSUME NEW kind \in {"call", "handle"}, NEW s \in Symbols(d, kind)
        PROVE  s \in names \cup {""}
    <3>1. PICK i \in Uses(d, kind) : s = d.text[i].symbol  BY DEF Symbols
    <3>2. s # "" => RefFound(d, i, names) /\ d.text[i].kind = kind
      BY <2>1, <2>2, <3>1
    <3> QED  BY <3>1, <3>2 DEF RefFound
  <2>5. ASSUME NEW i \in Uses(d, "jump"), d.text[i].symbol # ""
        PROVE  /\ d.text[i].symbol \in Symbols(d, "label")
               /\ LabelPosition(d, d.text[i].symbol) - (Position(d, i) + 1)
                    \in MinJump .. MaxJump
    BY <2>1, <2>2, <2>5 DEF RefFound
  <2> QED  BY <2>3, <2>4, <2>5 DEF LinkableIn
<1>4. ASSUME LinkableIn(d, names), NEW i \in Refs(d)
      PROVE  RefFound(d, i, names)
  BY <1>1, <1>4 DEF Refs, Relocated, Uses, Symbols, LinkableIn, RefFound
<1> QED  BY <1>3, <1>4

LEMMA AllResolveLinkable ==
  ASSUME NEW d \in Declaration, NEW c \in Sound, Finished(c, d), Once(d, "label"),
         NEW objs \in Seq(Object)
  PROVE  AllResolve(objs, c) <=> LinkableIn(d, NamesOf(objs))
<1> DEFINE rs == c.relocations
           n == Len(rs)
<1>1. /\ \A j \in 1 .. n : \E i \in Refs(d) : IsFor(rs[j], d, i, 0)
      /\ \A i \in Refs(d) : \E j \in 1 .. n : IsFor(rs[j], d, i, 0)
  BY DEF Finished, Records
<1>2. \A j \in 1 .. n : rs[j] \in Relocation  BY SoundHas
<1>3. ASSUME NEW j \in 1 .. n, NEW i \in Refs(d), IsFor(rs[j], d, i, 0)
      PROVE  (rs[j].type # "label" => Resolvable(objs, c, rs[j]))
               <=> RefFound(d, i, NamesOf(objs))
  <2> DEFINE r == rs[j]
  <2>1. r \in Relocation  BY <1>2
  <2>2. IsFor(r, d, i, 0)  BY <1>3
  <2> HIDE DEF r
  <2>3. r.type # "label" => (Resolvable(objs, c, r) <=> RefFound(d, i, NamesOf(objs)))
    BY <2>1, <2>2, RefResolves
  <2>4. r.type = "label" => RefFound(d, i, NamesOf(objs))
    BY <2>2, RelocationTypes DEF Refs, Relocated, IsFor, RefFound
  <2> QED  BY <2>3, <2>4 DEF r
<1>4. AllResolve(objs, c)
        <=> \A j \in 1 .. n : rs[j].type # "label" => Resolvable(objs, c, rs[j])
  BY DEF AllResolve
<1> HIDE DEF rs, n
<1>5. AllResolve(objs, c) <=> \A i \in Refs(d) : RefFound(d, i, NamesOf(objs))
  BY <1>1, <1>3, <1>4
<1> QED  BY <1>5, RefsLinkable

----------------------------------------------------------------------------
(***************************************************************************)
(* The first pass of the linker fails only when there are too few handles. *)
(***************************************************************************)

Free(objs, kind) == HandlesOfKind(kind) \ HandlesOf(objs)
NextOf(pass, kind) == IF kind = "function" THEN pass.code ELSE pass.data
LastOf(kind) == IF kind = "function" THEN CodeLast ELSE DataLast

\* All free handles are still to be tried.
Ahead(pass) == \A kind \in Kind : \A h \in Free(pass.objs, kind) : NextOf(pass, kind) <= h

LEMMA FreeIs ==
  ASSUME NEW objs, NEW kind
  PROVE  /\ IsFiniteSet(Free(objs, kind)) /\ Cardinality(Free(objs, kind)) \in Nat
         /\ \A h \in Free(objs, kind) : h \in Nat /\ h > 0 /\ h <= LastOf(kind)
<1>1. /\ CodeFirst \in Nat /\ CodeFirst > 0 /\ CodeLast \in Nat
      /\ DataFirst \in Nat /\ DataFirst > 0 /\ DataLast \in Nat
  BY RangesHave
<1>2. HandlesOfKind(kind) = IF kind = "function" THEN CodeFirst .. CodeLast
                                                 ELSE DataFirst .. DataLast
  BY DEF HandlesOfKind
<1>3. IsFiniteSet(CodeFirst .. CodeLast) /\ IsFiniteSet(DataFirst .. DataLast)
  BY <1>1, FS_Interval
<1>4. IsFiniteSet(HandlesOfKind(kind))  BY <1>2, <1>3
<1>5. Free(objs, kind) \subseteq HandlesOfKind(kind)  BY DEF Free
<1>6. IsFiniteSet(Free(objs, kind))  BY <1>4, <1>5, FS_Subset
<1>7. Cardinality(Free(objs, kind)) \in Nat  BY <1>6, FS_CardinalityType
<1>8. \A h \in HandlesOfKind(kind) : h \in Nat /\ h > 0 /\ h <= LastOf(kind)
  BY <1>1, <1>2 DEF LastOf
<1> QED  BY <1>5, <1>6, <1>7, <1>8

\* AsmFindFreeHandle finds the least free handle, if any is ahead.
LEMMA LeastFree ==
  ASSUME NEW objs, NEW start \in Nat, NEW limit \in Nat
  PROVE  LET handle == AsmFindFreeHandle(objs, start, limit)
             free   == (start .. limit) \ HandlesOf(objs)
         IN  \/ free = {} /\ handle = NullHandle
             \/ handle \in free /\ \A h \in free : handle <= h
<1> DEFINE free == (start .. limit) \ HandlesOf(objs)
<1>1. AsmFindFreeHandle(objs, start, limit) = IF free = {} THEN NullHandle ELSE Min(free)
  BY DEF AsmFindFreeHandle
<1>2. free \subseteq Nat  OBVIOUS
<1>3. free # {} => Min(free) \in free /\ \A h \in free : Min(free) <= h
  <2> HIDE DEF free
  <2> QED  BY <1>2, MinIn
<1> QED  BY <1>1, <1>3

\* An iteration does nothing, or finds no free handle, or takes one.
LEMMA AssignDetail ==
  ASSUME NEW objs \in Seq(Object), NEW pass \in AssignPass(objs), NEW i \in 1 .. Len(objs),
         Ahead(pass)
  PROVE  LET o == pass.objs
             a == AssignHandle(pass, i)
             kind == o[i].kind
         IN  \/ o[i].handle # NullHandle /\ a = pass
             \/ /\ o[i].handle = NullHandle /\ Free(o, kind) = {}
                /\ a.objs = o /\ a.errors = pass.errors + 1
                /\ a.code = pass.code /\ a.data = pass.data
             \/ \E h \in Free(o, kind) :
                  /\ o[i].handle = NullHandle
                  /\ a.objs = [o EXCEPT ![i].handle = h]
                  /\ a.errors = pass.errors
                  /\ \A g \in Free(o, kind) \ {h} : NextOf(a, kind) <= g
                  /\ \A k \in Kind \ {kind} : NextOf(a, k) = NextOf(pass, k)
<1> DEFINE o == pass.objs
           kind == o[i].kind
           isCode == kind = "function"
           limit  == IF isCode THEN CodeLast ELSE DataLast
           next   == IF isCode THEN pass.code ELSE pass.data
           handle == AsmFindFreeHandle(o, next, limit)
           after  == NextHandle(handle, next, limit)
           set    == [o EXCEPT ![i].handle = handle]
           more   == [pass EXCEPT !.errors = @ + 1]
           done   == [objs |-> set, code |-> IF isCode THEN after ELSE pass.code,
                      data |-> IF isCode THEN pass.data ELSE after,
                      errors |-> pass.errors]
           a      == AssignHandle(pass, i)
           free   == (next .. limit) \ HandlesOf(o)
<1>1. /\ pass = [objs |-> o, code |-> pass.code, data |-> pass.data, errors |-> pass.errors]
      /\ o \in Seq(Object) /\ Len(o) = Len(objs)
      /\ pass.code \in Nat /\ pass.data \in Nat /\ pass.errors \in Nat
      /\ CodeFirst <= pass.code /\ DataFirst <= pass.data
  BY DEF AssignPass
<1>2. a = IF o[i].handle # NullHandle THEN pass
          ELSE IF handle = NullHandle THEN more ELSE done
  BY DEF AssignHandle
<1>3. kind \in Kind
  <2>1. \A j \in 1 .. Len(o) : o[j] \in Object  BY <1>1
  <2>2. o[i] \in Object  BY <1>1, <2>1
  <2> QED  BY <2>2 DEF Object
<1>4. limit \in Nat /\ next \in Nat /\ next > 0 /\ limit = LastOf(kind) /\ next = NextOf(pass, kind)
  BY <1>1, RangesHave DEF LastOf, NextOf
<1>5. \A h \in Free(o, kind) : h \in next .. limit /\ h \in Nat
  BY <1>3, <1>4, FreeIs DEF Ahead
<1>6. free = Free(o, kind)
  <2>1. next .. limit \subseteq HandlesOfKind(kind)
    <3>1. CASE isCode  BY <1>1, <3>1, RangesHave DEF HandlesOfKind
    <3>2. CASE ~ isCode  BY <1>1, <3>2, RangesHave DEF HandlesOfKind
    <3> QED  BY <3>1, <3>2
  <2> HIDE DEF next, limit, kind
  <2> QED  BY <1>5, <2>1 DEF Free
<1>7. \/ free = {} /\ handle = NullHandle
      \/ handle \in free /\ \A h \in free : handle <= h
  <2> HIDE DEF next, limit, o
  <2> QED  BY <1>4, LeastFree
<1>8. CASE o[i].handle # NullHandle  BY <1>2, <1>8 DEF a, o
<1>9. CASE o[i].handle = NullHandle /\ free = {} /\ handle = NullHandle
  <2>1. a = more  BY <1>2, <1>9
  <2>2. more = [objs |-> o, code |-> pass.code, data |-> pass.data,
                errors |-> pass.errors + 1]
    <3> HIDE DEF o
    <3> QED  BY <1>1
  <2> HIDE DEF a, o, more, free, kind
  <2>3. /\ a.objs = o /\ a.errors = pass.errors + 1
        /\ a.code = pass.code /\ a.data = pass.data
    BY <2>1, <2>2
  <2> QED  BY <1>6, <1>9, <2>3 DEF a, o, kind
<1>10. CASE o[i].handle = NullHandle /\ handle \in free /\ \A h \in free : handle <= h
  <2>1. handle \in Free(o, kind)  BY <1>6, <1>10
  <2>2. handle \in Nat /\ handle > 0 /\ handle <= limit
    <3> HIDE DEF handle, o, kind, limit
    <3> QED  BY <1>4, <2>1, FreeIs
  <2>3. handle # NullHandle
    <3> HIDE DEF handle
    <3> QED  BY <2>2 DEF NullHandle
  <2>4. a = done  BY <1>2, <1>10, <2>3
  <2>5. \A g \in Free(o, kind) \ {handle} : after <= g
    <3> SUFFICES ASSUME NEW g \in Free(o, kind), g # handle PROVE after <= g
      OBVIOUS
    <3>1. g \in Nat /\ next <= g /\ g \in free /\ handle <= g  BY <1>4, <1>5, <1>6, <1>10
    <3> HIDE DEF handle, next, limit, free
    <3>2. handle + 1 <= g  BY <2>2, <3>1
    <3> QED  BY <3>1, <3>2 DEF NextHandle
  <2> DEFINE nextCode == IF isCode THEN after ELSE pass.code
             nextData == IF isCode THEN pass.data ELSE after
  <2>6. a = [objs |-> set, code |-> nextCode, data |-> nextData, errors |-> pass.errors]
    BY <2>4
  <2>7. set = [o EXCEPT ![i].handle = handle]  OBVIOUS
  <2> HIDE DEF set, nextCode, nextData, a, after
  <2>8. a.objs = set /\ a.errors = pass.errors /\ a.code = nextCode /\ a.data = nextData
    BY <2>6
  <2>9. NextOf(a, kind) = after
    BY <2>8 DEF NextOf, nextCode, nextData
  <2>10. \A k \in Kind \ {kind} : NextOf(a, k) = NextOf(pass, k)
    <3> SUFFICES ASSUME NEW k \in Kind, k # kind PROVE NextOf(a, k) = NextOf(pass, k)
      OBVIOUS
    <3>1. (k = "function") <=> ~ isCode
      <4> HIDE DEF o
      <4> QED  BY <1>3 DEF Kind
    <3>2. CASE isCode  BY <2>8, <3>1, <3>2 DEF NextOf, nextCode, nextData
    <3>3. CASE ~ isCode  BY <2>8, <3>1, <3>3 DEF NextOf, nextCode, nextData
    <3> QED  BY <3>2, <3>3
  <2> HIDE DEF handle, o, kind
  <2>11. \E h \in Free(o, kind) :
           /\ o[i].handle = NullHandle
           /\ a.objs = [o EXCEPT ![i].handle = h]
           /\ a.errors = pass.errors
           /\ \A g \in Free(o, kind) \ {h} : NextOf(a, kind) <= g
           /\ \A k \in Kind \ {kind} : NextOf(a, k) = NextOf(pass, k)
    BY <1>10, <2>1, <2>5, <2>7, <2>8, <2>9, <2>10
  <2> QED  BY <2>11 DEF a, o, kind
<1> QED  BY <1>7, <1>8, <1>9, <1>10

\* The objects up to n that need a handle.
UnnamedTo(objs, n, kind) ==
  {i \in 1 .. n : objs[i].kind = kind /\ objs[i].handle = NullHandle}

LEMMA UnnamedGrows ==
  ASSUME NEW objs, NEW n \in Nat \ {0}, NEW kind
  PROVE  LET count(m) == Cardinality(UnnamedTo(objs, m, kind))
         IN  /\ count(n - 1) \in Nat /\ count(n) \in Nat
             /\ count(n) = IF objs[n].kind = kind /\ objs[n].handle = NullHandle
                           THEN count(n - 1) + 1 ELSE count(n - 1)
<1> DEFINE u == UnnamedTo(objs, n - 1, kind)
<1>1. n - 1 \in Nat /\ (1 .. n) = (1 .. n - 1) \cup {n} /\ n \notin 1 .. n - 1
  OBVIOUS
<1>2. IsFiniteSet(u) /\ n \notin u
  <2>1. u \subseteq 1 .. n - 1  BY DEF UnnamedTo
  <2>2. IsFiniteSet(1 .. n - 1)  BY <1>1, FS_Interval
  <2> QED  BY <1>1, <2>1, <2>2, FS_Subset
<1>3. Cardinality(u) \in Nat  BY <1>2, FS_CardinalityType
<1>4. CASE objs[n].kind = kind /\ objs[n].handle = NullHandle
  <2>1. UnnamedTo(objs, n, kind) = u \cup {n}  BY <1>1, <1>4 DEF UnnamedTo
  <2> HIDE DEF u
  <2>2. Cardinality(u \cup {n}) = Cardinality(u) + 1  BY <1>2, FS_AddElement
  <2> QED  BY <1>3, <1>4, <2>1, <2>2 DEF u
<1>5. CASE ~ (objs[n].kind = kind /\ objs[n].handle = NullHandle)
  BY <1>1, <1>3, <1>5 DEF UnnamedTo
<1> QED  BY <1>4, <1>5

\* Object i takes the handle h, which is free.
Takes(set, objs, i, kind, h) ==
  /\ i \in 1 .. Len(objs) /\ objs[i].handle = NullHandle /\ kind = objs[i].kind
  /\ h \in Free(objs, kind)
  /\ set \in Seq(Object) /\ Len(set) = Len(objs) /\ set[i].handle = h
  /\ \A j \in 1 .. Len(objs) : j # i => set[j] = objs[j]

\* A free handle that is given to an object is free no longer, the others are.
LEMMA TakeHandle ==
  ASSUME NEW objs \in Seq(Object), NEW set, NEW i, NEW kind, NEW h,
         Takes(set, objs, i, kind, h)
  PROVE  /\ Free(set, kind) = Free(objs, kind) \ {h}
         /\ Cardinality(Free(set, kind)) + 1 = Cardinality(Free(objs, kind))
         /\ \A k \in Kind \ {kind} : Free(set, k) = Free(objs, k)
<1> /\ i \in 1 .. Len(objs) /\ objs[i].handle = NullHandle /\ kind = objs[i].kind
    /\ h \in Free(objs, kind)
  BY DEF Takes
<1>1. h \in Nat /\ h > 0  BY FreeIs
<1>2. /\ set \in Seq(Object) /\ Len(set) = Len(objs) /\ set[i].handle = h
      /\ \A j \in 1 .. Len(objs) : j # i => set[j] = objs[j]
  BY DEF Takes
<1>3. DOMAIN set = 1 .. Len(objs) /\ DOMAIN objs = 1 .. Len(objs)  BY <1>2
<1>4. ASSUME NEW g, g # NullHandle
      PROVE  g \in HandlesOf(set) <=> g = h \/ g \in HandlesOf(objs)
  <2>1. ASSUME g \in HandlesOf(set) PROVE g = h \/ g \in HandlesOf(objs)
    BY <1>2, <1>3, <2>1 DEF HandlesOf
  <2>2. h \in HandlesOf(set)  BY <1>2, <1>3 DEF HandlesOf
  <2>3. ASSUME g \in HandlesOf(objs) PROVE g \in HandlesOf(set)
    BY <1>2, <1>3, <1>4, <2>3 DEF HandlesOf
  <2> QED  BY <2>1, <2>2, <2>3
<1>5. \A k : \A g \in HandlesOfKind(k) : g # NullHandle
  BY RangesHave DEF HandlesOfKind, NullHandle
<1>6. ASSUME NEW k PROVE Free(set, k) = Free(objs, k) \ {h}
  <2> QED  BY <1>4, <1>5 DEF Free
<1>7. Cardinality(Free(objs, kind) \ {h}) = Cardinality(Free(objs, kind)) - 1
  BY FS_RemoveElement, FreeIs
<1>8. Cardinality(Free(objs, kind)) \in Nat  BY FreeIs
<1>9. ASSUME NEW k \in Kind, k # kind PROVE h \notin Free(objs, k)
  <2>1. h \in HandlesOfKind(kind)  BY DEF Free
  <2>2. kind \in Kind
    <3>1. objs[i] \in Object  OBVIOUS
    <3> QED  BY <3>1 DEF Object
  <2>3. h \notin HandlesOfKind(k)
    BY <1>9, <2>1, <2>2, AssemblerAssumption, RangesHave DEF Kind, HandlesOfKind
  <2> QED  BY <2>3 DEF Free
<1>10. ASSUME NEW k \in Kind, k # kind PROVE Free(set, k) = Free(objs, k)
  BY <1>6, <1>9, <1>10
<1>11. /\ Free(set, kind) = Free(objs, kind) \ {h}
       /\ Cardinality(Free(set, kind)) + 1 = Cardinality(Free(objs, kind))
  <2>1. Free(set, kind) = Free(objs, kind) \ {h}  BY <1>6
  <2> DEFINE n == Cardinality(Free(objs, kind))
  <2>2. Cardinality(Free(set, kind)) = n - 1  BY <1>7, <2>1
  <2>3. n \in Nat  BY <1>8
  <2> HIDE DEF n
  <2>4. Cardinality(Free(set, kind)) + 1 = n  BY <2>2, <2>3
  <2> QED  BY <2>1, <2>4 DEF n
<1> QED  BY <1>10, <1>11

\* After n iterations.  As long as there is no error, every object that needed
\* a handle took one of the free ones; the first error is one object too many.
Counts(objs, pass, n) ==
  LET unnamed(kind) == Cardinality(UnnamedTo(objs, n, kind))
  IN  /\ Ahead(pass)
      /\ pass.errors = 0 =>
           \A kind \in Kind : Cardinality(Free(pass.objs, kind)) + unnamed(kind)
                                = Cardinality(Free(objs, kind))
      /\ pass.errors > 0 =>
           \E kind \in Kind : unnamed(kind) > Cardinality(Free(objs, kind))

\* The names and the contents are those of the objects.
Keeps(objs, pass) == \A i \in 1 .. Len(objs) : /\ pass.objs[i].name = objs[i].name
                                               /\ pass.objs[i].content = objs[i].content

LEMMA CountsStep ==
  ASSUME NEW objs \in Seq(Object), NEW n \in 1 .. Len(objs), NEW pass \in AssignPass(objs),
         Assigned(objs, pass, n - 1), Counts(objs, pass, n - 1), Keeps(objs, pass)
  PROVE  Counts(objs, AssignHandle(pass, n), n) /\ Keeps(objs, AssignHandle(pass, n))
<1> DEFINE o == pass.objs
           a == AssignHandle(pass, n)
           kind == objs[n].kind
           free(p, k) == Cardinality(Free(p, k))
           count(m, k) == Cardinality(UnnamedTo(objs, m, k))
<1>1. n \in Nat \ {0} /\ o \in Seq(Object) /\ Len(o) = Len(objs) /\ pass.errors \in Nat
  BY DEF AssignPass
<1>2. o[n].kind = kind /\ o[n].handle = objs[n].handle
  BY <1>1 DEF Assigned
<1>3. kind \in Kind
  <2>1. objs[n] \in Object  OBVIOUS
  <2> QED  BY <2>1 DEF Object
<1>4. \A k \in Kind : /\ count(n - 1, k) \in Nat /\ count(n, k) \in Nat
                      /\ count(n, k) = IF kind = k /\ objs[n].handle = NullHandle
                                       THEN count(n - 1, k) + 1 ELSE count(n - 1, k)
  BY <1>1, UnnamedGrows
<1>5. \A p, k : free(p, k) \in Nat  BY FreeIs
<1>6. Ahead(pass)
  BY DEF Counts
<1>7. pass.errors = 0 => \A k \in Kind : free(o, k) + count(n - 1, k) = free(objs, k)
  BY DEF Counts
<1>8. pass.errors > 0 => \E k \in Kind : count(n - 1, k) > free(objs, k)
  BY DEF Counts
<1> HIDE DEF free, count
<1>9. pass.errors > 0 => \E k \in Kind : count(n, k) > free(objs, k)  BY <1>4, <1>5, <1>8
<1> HIDE DEF a, o, kind
<1>10. CASE o[n].handle # NullHandle /\ a = pass
  <2>1. \A k \in Kind : count(n, k) = count(n - 1, k)  BY <1>2, <1>4, <1>10
  <2>2. a.errors = 0 => \A k \in Kind : free(a.objs, k) + count(n, k) = free(objs, k)
    BY <1>7, <1>10, <2>1 DEF o
  <2>3. Ahead(a) /\ Keeps(objs, a)  BY <1>6, <1>10
  <2>4. a.errors > 0 => \E k \in Kind : count(n, k) > free(objs, k)  BY <1>9, <1>10
  <2> QED  BY <2>2, <2>3, <2>4 DEF Counts, a, free, count
<1>11. CASE /\ o[n].handle = NullHandle /\ Free(o, kind) = {}
            /\ a.objs = o /\ a.errors = pass.errors + 1
            /\ a.code = pass.code /\ a.data = pass.data
  <2>1. Ahead(a)  BY <1>6, <1>11 DEF Ahead, NextOf, o
  <2>2. Keeps(objs, a)  BY <1>11 DEF Keeps, o
  <2>3. free(o, kind) = 0  BY <1>11, FS_EmptySet DEF free
  <2>4. \E k \in Kind : count(n, k) > free(objs, k)
    <3>1. CASE pass.errors > 0  BY <1>9, <3>1
    <3>2. CASE pass.errors = 0  BY <1>2, <1>3, <1>4, <1>7, <1>11, <2>3, <3>2
    <3> QED  BY <1>1, <3>1, <3>2
  <2>5. a.errors # 0  BY <1>1, <1>11
  <2> QED  BY <2>1, <2>2, <2>4, <2>5 DEF Counts, a, free, count
<1>12. ASSUME NEW h \in Free(o, kind), o[n].handle = NullHandle,
              a.objs = [o EXCEPT ![n].handle = h], a.errors = pass.errors,
              \A g \in Free(o, kind) \ {h} : NextOf(a, kind) <= g,
              \A k \in Kind \ {kind} : NextOf(a, k) = NextOf(pass, k)
       PROVE  Counts(objs, a, n) /\ Keeps(objs, a)
  <2>1. /\ Free(a.objs, kind) = Free(o, kind) \ {h}
        /\ Cardinality(Free(a.objs, kind)) + 1 = Cardinality(Free(o, kind))
        /\ \A k \in Kind \ {kind} : Free(a.objs, k) = Free(o, k)
    <3>1. h \in Free(o, o[n].kind) /\ n \in 1 .. Len(o)  BY <1>1, <1>2
    <3>2. o \in Seq(Object) /\ o[n].handle = NullHandle /\ kind = o[n].kind
      BY <1>1, <1>2, <1>12
    <3>3. /\ a.objs \in Seq(Object) /\ Len(a.objs) = Len(o) /\ a.objs[n].handle = h
          /\ \A j \in 1 .. Len(o) : j # n => a.objs[j] = o[j]
      <4>1. h \in Nat  BY FreeIs
      <4> QED  BY <1>12, <3>1, <3>2, <4>1, SetHandle
    <3>4. Takes(a.objs, o, n, kind, h)  BY <3>1, <3>2, <3>3 DEF Takes
    <3> QED  BY <3>2, <3>4, TakeHandle
  <2>2. Ahead(a)
    <3> SUFFICES ASSUME NEW k \in Kind, NEW g \in Free(a.objs, k) PROVE NextOf(a, k) <= g
      BY DEF Ahead
    <3>1. CASE k = kind  BY <1>12, <2>1, <3>1
    <3>2. CASE k # kind  BY <1>6, <1>12, <2>1, <3>2 DEF Ahead, o
    <3> QED  BY <3>1, <3>2
  <2>3. Keeps(objs, a)  BY <1>1, <1>12, FreeIs, SetHandle DEF Keeps, o
  <2>4. ASSUME a.errors = 0, NEW k \in Kind
        PROVE  free(a.objs, k) + count(n, k) = free(objs, k)
    <3>1. free(o, k) + count(n - 1, k) = free(objs, k)  BY <1>7, <1>12, <2>4
    <3>2. /\ free(o, k) \in Nat /\ free(objs, k) \in Nat /\ free(a.objs, k) \in Nat
          /\ count(n, k) \in Nat /\ count(n - 1, k) \in Nat
      BY <1>4, <1>5
    <3>3. CASE k = kind  BY <1>2, <1>4, <1>12, <2>1, <3>1, <3>2, <3>3 DEF free
    <3>4. CASE k # kind  BY <1>4, <2>1, <3>1, <3>4 DEF free
    <3> QED  BY <3>3, <3>4
  <2>5. a.errors > 0 => \E k \in Kind : count(n, k) > free(objs, k)  BY <1>9, <1>12
  <2> QED  BY <2>2, <2>3, <2>4, <2>5 DEF Counts, free, count
<1>13. \/ o[n].handle # NullHandle /\ a = pass
       \/ /\ o[n].handle = NullHandle /\ Free(o, kind) = {}
          /\ a.objs = o /\ a.errors = pass.errors + 1
          /\ a.code = pass.code /\ a.data = pass.data
       \/ \E h \in Free(o, kind) :
            /\ o[n].handle = NullHandle
            /\ a.objs = [o EXCEPT ![n].handle = h]
            /\ a.errors = pass.errors
            /\ \A g \in Free(o, kind) \ {h} : NextOf(a, kind) <= g
            /\ \A k \in Kind \ {kind} : NextOf(a, k) = NextOf(pass, k)
  <2>1. \/ pass.objs[n].handle # NullHandle /\ AssignHandle(pass, n) = pass
        \/ /\ pass.objs[n].handle = NullHandle /\ Free(pass.objs, pass.objs[n].kind) = {}
           /\ AssignHandle(pass, n).objs = pass.objs
           /\ AssignHandle(pass, n).errors = pass.errors + 1
           /\ AssignHandle(pass, n).code = pass.code
           /\ AssignHandle(pass, n).data = pass.data
        \/ \E h \in Free(pass.objs, pass.objs[n].kind) :
             /\ pass.objs[n].handle = NullHandle
             /\ AssignHandle(pass, n).objs = [pass.objs EXCEPT ![n].handle = h]
             /\ AssignHandle(pass, n).errors = pass.errors
             /\ \A g \in Free(pass.objs, pass.objs[n].kind) \ {h} :
                  NextOf(AssignHandle(pass, n), pass.objs[n].kind) <= g
             /\ \A k \in Kind \ {pass.objs[n].kind} :
                  NextOf(AssignHandle(pass, n), k) = NextOf(pass, k)
    BY <1>6, AssignDetail, ZenonT(60)
  <2>2. pass.objs[n].kind = kind  BY <1>2 DEF o
  <2> QED  BY <2>1, <2>2 DEF a, o
<1>14. Counts(objs, a, n) /\ Keeps(objs, a)  BY <1>10, <1>11, <1>12, <1>13 DEF a
<1> QED  BY <1>14 DEF a

LEMMA CountsStart ==
  ASSUME NEW objs \in Seq(Object), NEW p,
         p = [objs |-> objs, code |-> CodeFirst, data |-> DataFirst, errors |-> 0]
  PROVE  Counts(objs, p, 0) /\ Keeps(objs, p)
<1>1. p.objs = objs /\ p.code = CodeFirst /\ p.data = DataFirst /\ p.errors = 0
  OBVIOUS
<1>2. Ahead(p)  BY <1>1, RangesHave DEF Ahead, Free, HandlesOfKind, NextOf
<1>3. ASSUME NEW k PROVE Cardinality(Free(objs, k)) + Cardinality(UnnamedTo(objs, 0, k))
                         = Cardinality(Free(objs, k))
  BY FS_EmptySet, FreeIs DEF UnnamedTo
<1> QED  BY <1>1, <1>2, <1>3 DEF Counts, Keeps

\* The pass succeeds exactly when there are enough free handles.
LEMMA AssignHandlesCount ==
  ASSUME NEW objs \in Seq(Object)
  PROVE  /\ Keeps(objs, AsmAssignHandles(objs))
         /\ AsmAssignHandles(objs).errors = 0 <=>
              \A kind \in Kind : Cardinality(UnnamedTo(objs, Len(objs), kind))
                                   <= Cardinality(Free(objs, kind))
<1>1. PICK pass :
        /\ AsmAssignHandles(objs) = pass[Len(objs)]
        /\ pass[0] = [objs |-> objs, code |-> CodeFirst, data |-> DataFirst, errors |-> 0]
        /\ \A i \in 1 .. Len(objs) : pass[i] = AssignHandle(pass[i - 1], i)
        /\ \A i \in 0 .. Len(objs) : /\ pass[i] \in AssignPass(objs)
                                     /\ Assigned(objs, pass[i], i)
  BY AssignHandlesRun
<1> DEFINE n == Len(objs)
           Q(i) == Counts(objs, pass[i], i) /\ Keeps(objs, pass[i])
           P == {i \in 0 .. n : Q(i)}
<1>2. n \in Nat  OBVIOUS
<1>3. Q(0)  BY <1>1, CountsStart
<1>4. ASSUME NEW i \in 1 .. n, Q(i - 1) PROVE Q(i)  BY <1>1, <1>2, <1>4, CountsStep
<1> HIDE DEF Q
<1>5. \A i \in 0 .. n : i \in P
  <2>1. 0 \in P  BY <1>2, <1>3
  <2>2. \A i \in 1 .. n : i - 1 \in P => i \in P  BY <1>2, <1>4
  <2> HIDE DEF P, n
  <2> QED  BY <1>2, <2>1, <2>2, CountingUp
<1> DEFINE p == pass[n]
           need(k) == Cardinality(UnnamedTo(objs, n, k))
           have(k) == Cardinality(Free(objs, k))
<1>6. Counts(objs, p, n) /\ Keeps(objs, p)  BY <1>2, <1>5 DEF Q
<1>7. AsmAssignHandles(objs) = p  BY <1>1
<1>8. p.errors \in Nat
  <2>1. p \in AssignPass(objs)  BY <1>1, <1>2
  <2> QED  BY <2>1 DEF AssignPass
<1>9. ASSUME NEW k PROVE need(k) \in Nat /\ have(k) \in Nat /\ Cardinality(Free(p.objs, k)) \in Nat
  <2>1. UnnamedTo(objs, n, k) \subseteq 1 .. n  BY DEF UnnamedTo
  <2>2. IsFiniteSet(1 .. n)  BY <1>2, FS_Interval
  <2>3. IsFiniteSet(UnnamedTo(objs, n, k))  BY <2>1, <2>2, FS_Subset
  <2> QED  BY <2>3, FreeIs, FS_CardinalityType
<1>10. p.errors = 0 => \A k \in Kind : Cardinality(Free(p.objs, k)) + need(k) = have(k)
  BY <1>6 DEF Counts
<1>11. p.errors > 0 => \E k \in Kind : need(k) > have(k)
  BY <1>6 DEF Counts
<1> HIDE DEF need, have, p
<1>12. p.errors = 0 <=> \A k \in Kind : need(k) <= have(k)
  <2>1. ASSUME p.errors = 0, NEW k \in Kind PROVE need(k) <= have(k)  BY <1>9, <1>10, <2>1
  <2>2. ASSUME p.errors # 0 PROVE \E k \in Kind : ~ (need(k) <= have(k))
    BY <1>8, <1>9, <1>11, <2>2
  <2> QED  BY <2>1, <2>2
<1> QED  BY <1>6, <1>7, <1>12 DEF need, have, p

----------------------------------------------------------------------------
(***************************************************************************)
(* The chunks of the output.                                               *)
(***************************************************************************)

\* Some first parts of a sequence of parts, put together.
LEMMA FlattenRuns ==
  ASSUME NEW S, NEW seqs \in Seq(Seq(S)), Len(seqs) # 0
  PROVE  \E flat : /\ FlattenSeq(seqs) = flat[Len(seqs)]
                   /\ flat[1] = seqs[1]
                   /\ \A i \in 2 .. Len(seqs) : flat[i] = flat[i - 1] \o seqs[i]
                   /\ \A i \in 1 .. Len(seqs) : flat[i] \in Seq(S)
<1> DEFINE n == Len(seqs)
           T == Seq(S)
           Is(f) == f = [i \in 1 .. n |-> IF i = 1 THEN seqs[i] ELSE f[i - 1] \o seqs[i]]
           flat == CHOOSE f : Is(f)
           m == n - 1
           body == [x \in (1 .. m) \X T |-> x[2] \o seqs[x[1] + 1]]
<1>1. n \in Nat /\ \A i \in 1 .. n : seqs[i] \in T  OBVIOUS
<1>2. FlattenSeq(seqs) = flat[n]  BY DEF FlattenSeq
<1>3. \A s, t \in T : s \o t \in T  BY Concat
<1>4. n # 0  OBVIOUS
<1> HIDE DEF n, T
<1>5. m \in Nat /\ m + 1 = n /\ \A i \in 1 .. m : i + 1 \in 1 .. n  BY <1>1, <1>4
<1>6. /\ body \in [(1 .. m) \X T -> T]
      /\ \A i \in 1 .. m, s \in T : body[<<i, s>>] = s \o seqs[i + 1]
  <2> HIDE DEF m
  <2> QED  BY <1>1, <1>3, <1>5
<1>7. seqs[1] \in T  BY <1>1, <1>5
<1> HIDE DEF body
<1>8. PICK g \in [0 .. m -> T] : Runs(g, m, seqs[1], body)
  <2> HIDE DEF Is, m
  <2> QED  BY <1>5, <1>6, <1>7, LoopExists
<1> DEFINE h == [i \in 1 .. n |-> g[i - 1]]
<1>9. Is(h)
  <2>1. g[0] = seqs[1] /\ \A i \in 1 .. m : g[i] = body[<<i, g[i - 1]>>]
    BY <1>8 DEF Runs
  <2>2. \A i \in 1 .. m : g[i - 1] \in T
    <3>1. \A i \in 1 .. m : i - 1 \in 0 .. m  BY <1>5
    <3> HIDE DEF m
    <3> QED  BY <1>8, <3>1
  <2>3. \A i \in 1 .. m : g[i] = g[i - 1] \o seqs[i + 1]
    BY <1>6, <2>1, <2>2
  <2>4. ASSUME NEW i \in 1 .. n
        PROVE  h[i] = IF i = 1 THEN seqs[i] ELSE h[i - 1] \o seqs[i]
    <3>1. CASE i = 1  BY <2>1, <3>1
    <3>2. CASE i # 1
      <4>1. i - 1 \in 1 .. m /\ i - 1 \in 1 .. n /\ (i - 1) + 1 = i  BY <1>1, <1>5, <3>2
      <4>2. g[i - 1] = g[i - 1 - 1] \o seqs[i]  BY <2>3, <4>1
      <4> QED  BY <3>2, <4>1, <4>2
    <3> QED  BY <3>1, <3>2
  <2>5. h = [i \in 1 .. n |-> h[i]]  OBVIOUS
  <2> HIDE DEF h
  <2> QED  BY <2>4, <2>5
<1>10. Is(flat)
  <2> HIDE DEF Is, h
  <2> QED  BY <1>9
<1> HIDE DEF flat
<1>11. \A i \in 1 .. n : flat[i] = IF i = 1 THEN seqs[i] ELSE flat[i - 1] \o seqs[i]
  BY <1>10
<1> HIDE DEF Is
<1>12. flat[1] = seqs[1] /\ \A i \in 2 .. n : flat[i] = flat[i - 1] \o seqs[i]
  <2>1. 1 \in 1 .. n /\ \A i \in 2 .. n : i \in 1 .. n /\ i # 1  BY <1>1, <1>5
  <2> QED  BY <1>11, <2>1
<1> DEFINE P == {i \in 0 .. m : flat[i + 1] \in T}
<1>13. \A i \in 0 .. m : i \in P
  <2>1. 0 \in P
    <3>1. 0 + 1 = 1 /\ 0 \in 0 .. m  BY <1>5
    <3> QED  BY <1>7, <1>12, <3>1
  <2>2. ASSUME NEW i \in 1 .. m, i - 1 \in P PROVE i \in P
    <3>1. (i - 1) + 1 = i /\ i + 1 \in 1 .. n /\ i + 1 \in 2 .. n /\ (i + 1) - 1 = i /\ i \in 0 .. m
      BY <1>1, <1>5
    <3>2. flat[i] \in T  BY <2>2, <3>1
    <3>3. flat[i + 1] = flat[i] \o seqs[i + 1]  BY <1>12, <3>1
    <3>4. seqs[i + 1] \in T  BY <1>1, <3>1
    <3> QED  BY <1>3, <3>1, <3>2, <3>3, <3>4
  <2> HIDE DEF P
  <2> QED  BY <1>5, <2>1, <2>2, CountingUp
<1>14. \A i \in 1 .. n : flat[i] \in T
  <2>1. \A i \in 1 .. n : i - 1 \in 0 .. m /\ (i - 1) + 1 = i  BY <1>1, <1>5
  <2> QED  BY <1>13, <2>1
<1> QED  BY <1>2, <1>12, <1>14 DEF n, T

LEMMA FlattenType ==
  ASSUME NEW S, NEW seqs \in Seq(Seq(S))
  PROVE  FlattenSeq(seqs) \in Seq(S)
<1>1. CASE Len(seqs) = 0  BY <1>1 DEF FlattenSeq
<1>2. CASE Len(seqs) # 0
  <2>1. Len(seqs) \in 1 .. Len(seqs)  BY <1>2
  <2> QED  BY <1>2, <2>1, FlattenRuns
<1> QED  BY <1>1, <1>2

Chunk == Seq(Byte) \ {<<>>}

LEMMA FourParts ==
  ASSUME NEW a \in Seq(Byte), NEW b \in Seq(Byte), NEW c \in Seq(Byte), NEW d \in Seq(Byte),
         Len(a) > 0
  PROVE  a \o b \o c \o d \in Chunk
<1> DEFINE x == a \o b
           y == x \o c
           z == y \o d
<1>1. Len(a) \in Nat /\ Len(b) \in Nat /\ Len(c) \in Nat /\ Len(d) \in Nat  OBVIOUS
<1>2. x \in Seq(Byte) /\ Len(x) = Len(a) + Len(b)  BY Concat
<1> HIDE DEF x
<1>3. y \in Seq(Byte) /\ Len(y) = Len(x) + Len(c)  BY <1>2, Concat
<1> HIDE DEF y
<1>4. z \in Seq(Byte) /\ Len(z) = Len(y) + Len(d)  BY <1>3, Concat
<1> HIDE DEF z
<1>5. z # <<>>
  <2>1. Len(z) > 0  BY <1>1, <1>2, <1>3, <1>4
  <2> QED  BY <2>1
<1> QED  BY <1>4, <1>5 DEF Chunk, x, y, z

\* No chunk is empty: nothing but a failing output can stop the writer.
LEMMA UnitWritable ==
  ASSUME objects \in Seq(Object), bigEndian \in BOOLEAN
  PROVE  /\ Unit \in Seq(Chunk) /\ Len(Unit) \in Nat
         /\ \A i \in 1 .. Len(Unit) : Writable(Unit[i])
<1>1. \A v \in Int, n \in {2, 4} : Encoded(v, n) \in Seq(Byte) /\ Len(Encoded(v, n)) = n
  BY EncodedType
<1>4. VM_TAG_OBJECT \in Int /\ VM_TAG_UNIT \in Int /\ VM_TAG_END \in Int
  BY DEF VM_TAG_OBJECT, VM_TAG_UNIT, VM_TAG_END
<1>5. \A i \in 1 .. Len(objects) : objects[i].handle \in Int
  <2>1. \A i \in 1 .. Len(objects) : objects[i] \in Object  OBVIOUS
  <2> QED  BY <2>1 DEF Object
<1>6. ASSUME NEW obj \in Object PROVE AsmObjectWrite(obj) \in Seq(Chunk)
  <2> DEFINE a == Encoded(VM_TAG_OBJECT, 4)
             b == Encoded(VmQualifiers[obj.kind], 4)
             c == Encoded(obj.handle, 4)
             d == Encoded(Len(obj.content.bytes), 4)
             s == obj.content.bytes
  <2>1. obj.kind \in Kind /\ obj.handle \in Nat /\ obj.content \in Sound  BY DEF Object
  <2>2. VmQualifiers[obj.kind] \in Int  BY <2>1 DEF VmQualifiers, Kind
  <2>3. s \in Seq(Byte) /\ Len(s) \in Int  BY <2>1, SoundHas
  <2>4. /\ a \in Seq(Byte) /\ Len(a) = 4
        /\ b \in Seq(Byte) /\ Len(b) = 4
        /\ c \in Seq(Byte) /\ Len(c) = 4
        /\ d \in Seq(Byte) /\ Len(d) = 4
    <3> HIDE DEF s
    <3> QED  BY <1>1, <1>4, <2>1, <2>2, <2>3 DEF s
  <2>5. ObjectHeader(obj) = a \o b \o c \o d  BY DEF ObjectHeader
  <2> HIDE DEF a, b, c, d
  <2>6. Len(a) > 0  BY <2>4
  <2>8. a \o b \o c \o d \in Chunk  BY <2>4, <2>6, FourParts
  <2>9. ObjectHeader(obj) \in Chunk  BY <2>5, <2>8
  <2> DEFINE h == ObjectHeader(obj)
  <2>10. AsmObjectWrite(obj) = <<h>> \o (IF s = <<>> THEN <<>> ELSE <<s>>)
    BY DEF AsmObjectWrite
  <2>11. s # <<>> => s \in Chunk  BY <2>3 DEF Chunk
  <2> HIDE DEF h, s
  <2> QED  BY <2>9, <2>10, <2>11 DEF h
<1>7. \A i \in 1 .. Len(objects) : AsmObjectWrite(objects[i]) \in Seq(Chunk)  BY <1>6
<1> DEFINE parts == [i \in DOMAIN objects |-> AsmObjectWrite(objects[i])]
           body  == FlattenSeq(parts)
           a == Encoded(VM_TAG_UNIT, 4)
           b == Encoded(1, 2)
           c == Encoded(0, 2)
           d == Encoded(Entry, 4)
<1>8. body \in Seq(Chunk)
  <2>1. DOMAIN objects = 1 .. Len(objects) /\ Len(objects) \in Nat  OBVIOUS
  <2>2. parts \in Seq(Seq(Chunk))  BY <1>7, <2>1, SeqIs
  <2> HIDE DEF parts
  <2> QED  BY <2>2, FlattenType
<1>9. Entry \in Int
  <2>1. CASE Lookup(objects, Main) = 0  BY <2>1 DEF Entry, NullHandle
  <2>2. CASE Lookup(objects, Main) # 0  BY <1>5, <2>2, LookupIn DEF Entry
  <2> QED  BY <2>1, <2>2
<1>10. /\ a \in Seq(Byte) /\ Len(a) = 4
       /\ b \in Seq(Byte) /\ Len(b) = 2
       /\ c \in Seq(Byte) /\ Len(c) = 2
       /\ d \in Seq(Byte) /\ Len(d) = 4
  BY <1>1, <1>4, <1>9
<1>11. AsmWritePrologue = a \o b \o c \o d /\ AsmWriteEpilogue = Encoded(VM_TAG_END, 4)
  BY DEF AsmWritePrologue, AsmWriteEpilogue
<1>12. AsmWritePrologue \in Chunk /\ AsmWriteEpilogue \in Chunk
  <2>1. Encoded(VM_TAG_END, 4) \in Seq(Byte) /\ Len(Encoded(VM_TAG_END, 4)) = 4
    BY <1>1, <1>4
  <2> HIDE DEF a, b, c, d
  <2>2. Len(a) > 0  BY <1>10
  <2>3. a \o b \o c \o d \in Chunk  BY <1>10, <2>2, FourParts
  <2>4. Encoded(VM_TAG_END, 4) # <<>>  BY <2>1
  <2>5. AsmWriteEpilogue \in Chunk  BY <1>11, <2>1, <2>4 DEF Chunk
  <2> QED  BY <1>11, <2>3, <2>5
<1>13. Unit = <<AsmWritePrologue>> \o body \o <<AsmWriteEpilogue>>
  BY DEF Unit
<1> HIDE DEF body
<1>14. Unit \in Seq(Chunk)  BY <1>8, <1>12, <1>13
<1>15. \A i \in 1 .. Len(Unit) : Unit[i] \in Chunk  BY <1>14
<1> QED  BY <1>14, <1>15 DEF Writable, Chunk

----------------------------------------------------------------------------
(***************************************************************************)
(* The verdict: what is known of the source while it is parsed.            *)
(***************************************************************************)

\* The first n declarations pass the checks, and their objects are finished.
Closed(objs, declarations, n) ==
  /\ \A i \in 1 .. n : /\ objs[i].name = declarations[i].name
                       /\ CheckedDeclaration(declarations[i])
                       /\ Finished(objs[i].content, declarations[i])
  /\ \A i, j \in 1 .. n : declarations[i].name = declarations[j].name => i = j

\* A declaration of an object has the parts of a function, but empty.
Plain(d) == d.results = 0 /\ d.args = <<>> /\ Uses(d, "declare") = {}

Reading ==
  /\ phase \in {"declarations", "parsed"} => Closed(objects, source, Len(source))
  /\ phase \in Kind => /\ Closed(objects, source, Len(source) - 1)
                       /\ Translates(code, source[Len(source)])
  /\ phase = "object" => Plain(source[Len(source)])

VInv == AInv /\ Reading /\ VerdictIsRight

\* Nothing is said before the verdict.
LEMMA NoVerdict ==
  ASSUME phase \in Parsing \cup {"parsed"}
  PROVE  VerdictIsRight
BY DEF VerdictIsRight, AcceptedIsChecked, RejectedForReason, Accepted, Parsing

LEMMA ReductionPhase ==
  ASSUME NEW next
  PROVE  /\ AfterReduction(0, next) => phase' = next
         /\ AfterReduction(1, next) => phase' = "parsing failed"
<1>1. 1 # 0  OBVIOUS
<1>2. AfterReduction(0, next) => phase' = next  BY DEF AfterReduction
<1>3. AfterReduction(1, next) => phase' = "parsing failed"  BY <1>1, Zenon DEF AfterReduction
<1> QED  BY <1>2, <1>3

LEMMA InitVerdict ==
  ASSUME Init
  PROVE  VInv
<1>1. AInv  BY InitInv
<1>2. phase = "declarations" /\ source = <<>>  BY DEF Init
<1>3. Closed(objects, source, Len(source))  BY <1>2 DEF Closed
<1>4. Reading  BY <1>2, <1>3 DEF Reading, Kind
<1>5. VerdictIsRight  BY <1>2, NoVerdict DEF Parsing
<1> QED  BY <1>1, <1>4, <1>5 DEF VInv

\* What is known of the declarations before the last one does not depend on it.
LEMMA ClosedPrefix ==
  ASSUME NEW objs, NEW s, NEW t, NEW n, Closed(objs, s, n), \A i \in 1 .. n : t[i] = s[i]
  PROVE  Closed(objs, t, n)
BY DEF Closed

LEMMA EmptyTranslates ==
  ASSUME NEW d \in Declaration, d.text = <<>>
  PROVE  Translates(EmptyCode, d)
<1>1. Len(d.text) = 0 /\ DOMAIN d.text = {}
  BY DEF Declaration
<1>2. Position(d, Len(d.text) + 1) = Base(d)  BY <1>1, Positions
<1>3. \A kind : Uses(d, kind) = {}  BY <1>1 DEF Uses
<1>4. Refs(d) = {}  BY <1>1 DEF Refs
<1>5. EmptyCode.bytes = <<>> /\ EmptyCode.relocations = <<>> /\ EmptyCode.locals = <<>>
  BY DEF EmptyCode
<1>6. Records(EmptyCode.relocations, d, Base(d))  BY <1>4, <1>5 DEF Records
<1>7. Base(d) \in Nat  BY DEF Base
<1>8. NamesOf(EmptyCode.locals) = Symbols(d, "declare")
  BY <1>3, <1>5 DEF NamesOf, Symbols
<1>9. IsFiniteSet(Uses(d, "declare")) /\ Cardinality(Uses(d, "declare")) = 0
  BY <1>3, FS_EmptySet
<1>10. Once(d, "label") /\ Once(d, "declare")  BY <1>3 DEF Once
<1>11. Len(EmptyCode.bytes) + Base(d) = Position(d, Len(d.text) + 1)
  BY <1>2, <1>5, <1>7
<1>12. Len(EmptyCode.locals) = Cardinality(Uses(d, "declare"))  BY <1>5, <1>9
<1> QED  BY <1>6, <1>8, <1>9, <1>10, <1>11, <1>12 DEF Translates

LEMMA BeginVerdict ==
  ASSUME VInv, NEW p \in Kind, NEW name \in STRING, NEW handle \in Nat,
         NEW args \in Seq(STRING), NEW results \in Nat,
         p = "object" => args = <<>> /\ results = 0,
         Begin(p, name, handle, args, results)
  PROVE  VInv'
<1> DEFINE d == [kind |-> p, name |-> name, handle |-> handle, args |-> args,
                 results |-> results, text |-> <<>>]
           n == Len(source)
<1>1. AInv /\ Reading  BY DEF VInv
<1>2. AInv'  BY <1>1, BeginInv
<1>3. /\ phase = "declarations" /\ source' = Append(source, d) /\ code' = EmptyCode
      /\ phase' = p /\ UNCHANGED objects
  BY DEF Begin
<1>4. source \in Seq(Declaration) /\ n \in Nat  BY <1>1, AInvHas
<1>5. d \in Declaration /\ d.text = <<>> /\ d.results = results /\ d.args = args
  <2>1. <<>> \in Seq(Items)  OBVIOUS
  <2> QED  BY <2>1 DEF Declaration
<1> HIDE DEF d
<1>6. /\ Len(source') = n + 1 /\ source'[n + 1] = d
      /\ \A i \in 1 .. n : source'[i] = source[i]
  BY <1>3, <1>4, <1>5
<1>7. Closed(objects', source', n)  BY <1>1, <1>3, <1>6, ClosedPrefix DEF Reading
<1>8. Translates(code', d)  BY <1>3, <1>5, EmptyTranslates
<1>9. p = "object" => Plain(d)  BY <1>5 DEF Uses, Plain
<1>10. Reading'  BY <1>3, <1>4, <1>6, <1>7, <1>8, <1>9 DEF Kind, Reading
<1>11. VerdictIsRight'
  <2>1. phase' \in Parsing  BY <1>3 DEF Kind, Parsing
  <2> QED  BY <2>1 DEF VerdictIsRight, AcceptedIsChecked, RejectedForReason, Accepted, Parsing
<1> QED  BY <1>2, <1>10, <1>11 DEF VInv

\* The declaration that is open, with one item more.
LEMMA ItemExtends ==
  ASSUME AInv, NEW item \in Items, ParseItem(item)
  PROVE  LET n == Len(source)
         IN  /\ phase \in Kind /\ n \in Nat /\ n > 0 /\ Len(source') = n
             /\ source[n] \in Declaration /\ source'[n] \in Declaration
             /\ Extends(source'[n], source[n], item)
             /\ \A i \in 1 .. n - 1 : source'[i] = source[i]
<1> DEFINE n == Len(source)
           d == source[n]
           e == [d EXCEPT !.text = Append(@, item)]
<1>1. phase \in Kind  BY DEF ParseItem, Kind
<1>2. source \in Seq(Declaration) /\ Corresponds  BY AInvHas
<1>3. n \in Nat /\ n > 0  BY <1>1, <1>2 DEF Corresponds
<1>4. source' = [source EXCEPT ![n] = e]  BY DEF ParseItem
<1>5. d \in Declaration  BY <1>2, <1>3
<1>6. e \in Declaration /\ Extends(e, d, item)
  <2> HIDE DEF d
  <2>1. d.text \in Seq(Items)  BY <1>5 DEF Declaration
  <2> DEFINE t == Append(d.text, item)
  <2>2. t \in Seq(Items)  BY <2>1
  <2>3. e = [d EXCEPT !.text = t]  OBVIOUS
  <2> HIDE DEF e
  <2>4. e \in Declaration /\ e.text = t /\ e.kind = d.kind /\ e.args = d.args
        /\ e.results = d.results /\ e.name = d.name
    <3> HIDE DEF t
    <3> QED  BY <1>5, <2>2, <2>3 DEF Declaration
  <2> QED  BY <1>5, <2>4 DEF Extends
<1> HIDE DEF e
<1>7. /\ Len(source') = n /\ source'[n] = e
      /\ \A i \in 1 .. n : i # n => source'[i] = source[i]
  BY <1>2, <1>3, <1>4, <1>6
<1>8. \A i \in 1 .. n - 1 : source'[i] = source[i]
  <2>1. \A i \in 1 .. n - 1 : i \in 1 .. n /\ i # n
    <3> HIDE DEF n
    <3> QED  BY <1>3
  <2> QED  BY <1>7, <2>1
<1> QED  BY <1>1, <1>3, <1>5, <1>6, <1>7, <1>8

LEMMA ParseItemVerdict ==
  ASSUME VInv, NEW item \in Items, ParseItem(item)
  PROVE  VInv'
<1> DEFINE n == Len(source)
           d == source[n]
           e == source'[n]
<1>1. AInv /\ Reading  BY DEF VInv
<1>2. AInv'  BY <1>1, ParseItemInv
<1>3. /\ phase \in Kind /\ n \in Nat /\ n > 0 /\ Len(source') = n
      /\ d \in Declaration /\ e \in Declaration /\ Extends(e, d, item)
      /\ \A i \in 1 .. n - 1 : source'[i] = source[i]
  BY <1>1, ItemExtends
<1>4. code \in Sound /\ source' \in Seq(Declaration)
  <2>1. source' \in Seq(Declaration)  BY <1>2 DEF AInv
  <2> QED  BY <1>1, <2>1, AInvHas
<1>5. Closed(objects, source, n - 1) /\ Translates(code, d) /\ (phase = "object" => Plain(d))
  BY <1>1, <1>3 DEF Reading
<1>6. /\ code' = Reduced(code, item) /\ UNCHANGED objects
      /\ AfterReduction(IF Rejected(code, item) THEN 1 ELSE 0, phase)
      /\ item.kind \in BodyKinds(phase)
  BY DEF ParseItem
<1>7. Rejected(code, item) <=> ~ (Once(e, "label") /\ Once(e, "declare"))
  BY <1>3, <1>4, <1>5, RejectedWhenDeclared
<1> HIDE DEF d
<1>8. CASE Rejected(code, item)
  <2>1. phase' = "parsing failed"
    <3>1. AfterReduction(1, phase)  BY <1>6, <1>8
    <3> QED  BY <3>1, ReductionPhase
  <2>2. ~ CheckedDeclaration(e)  BY <1>7, <1>8 DEF CheckedDeclaration
  <2>3. ~ CheckedSource'
    <3>1. n \in DOMAIN source'
      <4> HIDE DEF n
      <4> QED  BY <1>3, <1>4
    <3> QED  BY <2>2, <3>1 DEF CheckedSource
  <2>4. Reading' /\ VerdictIsRight'
    BY <2>1, <2>3
    DEF Reading, VerdictIsRight, AcceptedIsChecked, RejectedForReason, Accepted, Kind
  <2> QED  BY <1>2, <2>4 DEF VInv
<1>9. CASE ~ Rejected(code, item)
  <2>1. phase' = phase  BY <1>6, <1>9 DEF AfterReduction
  <2>2. Translates(code', e)  BY <1>3, <1>4, <1>5, <1>6, <1>9, TranslatesStep
  <2>3. Closed(objects', source', n - 1)  BY <1>3, <1>5, <1>6, ClosedPrefix
  <2>4. phase = "object" => Plain(e)
    <3> SUFFICES ASSUME phase = "object" PROVE Plain(e)  OBVIOUS
    <3>1. item.kind # "declare"  BY <1>6 DEF BodyKinds
    <3>2. Uses(e, "declare") = Uses(d, "declare")  BY <1>3, <3>1, UsesGrow
    <3> QED  BY <1>3, <1>5, <3>2 DEF Plain, Extends
  <2>5. Reading'  BY <1>3, <2>1, <2>2, <2>3, <2>4 DEF Kind, Reading, n
  <2>6. VerdictIsRight'
    <3>1. phase' \in Parsing  BY <1>3, <2>1 DEF Kind, Parsing
    <3> QED  BY <3>1 DEF VerdictIsRight, AcceptedIsChecked, RejectedForReason, Accepted, Parsing
  <2> QED  BY <1>2, <2>5, <2>6 DEF VInv
<1> QED  BY <1>8, <1>9

\* The end of a declaration that passes the checks and is finished; its name may be taken.
LEMMA DefineObjectVerdict ==
  ASSUME VInv, AInv', phase \in Kind, NEW c \in Sound, AsmUtilDefineObject(Open, c),
         UNCHANGED source, CheckedDeclaration(Open), Finished(c, Open)
  PROVE  VInv'
<1> DEFINE n == Len(source)
           d == source[n]
           r == [name |-> d.name, kind |-> d.kind, handle |-> d.handle, content |-> c]
<1>1. AInv /\ Reading  BY DEF VInv
<1>2. objects \in Seq(Object) /\ source \in Seq(Declaration) /\ Corresponds  BY <1>1, AInvHas
<1>3. n > 0 /\ n \in Nat /\ Len(objects) = n - 1
  BY <1>2 DEF Corresponds, Matches
<1>4. d \in Declaration /\ Open = d  BY <1>2, <1>3 DEF Open, Last
<1>5. Closed(objects, source, n - 1)  BY <1>1 DEF Reading
<1>6. CheckedDeclaration(d) /\ Finished(c, d)  BY <1>4
<1>7. Lookup(objects, d.name) # 0 <=> d.name \in NamesOf(objects)
  <2>1. Len(objects) \in Nat  BY <1>2
  <2> QED  BY <2>1, LookupFinds
<1>8. NamesOf(objects) = {source[i].name : i \in 1 .. n - 1}
  <2> HIDE DEF n
  <2> QED  BY <1>3, <1>5 DEF NamesOf, Closed
<1>9. CASE ~ AsmCanAddObjects(Open)
  <2>1. phase' = "parsing failed"  BY <1>9, ReductionPhase DEF AsmUtilDefineObject
  <2>2. d.name \in NamesOf(objects)  BY <1>4, <1>7, <1>9 DEF AsmCanAddObjects
  <2>3. PICK i \in 1 .. n - 1 : d.name = source[i].name  BY <1>8, <2>2
  <2>4. i \in DOMAIN source /\ n \in DOMAIN source /\ i # n  BY <1>2, <1>3
  <2>5. ~ CheckedSource  BY <2>3, <2>4 DEF CheckedSource
  <2>6. ~ CheckedSource'  BY <2>5 DEF CheckedSource
  <2>7. Reading' /\ VerdictIsRight'
    BY <2>1, <2>6
    DEF Reading, VerdictIsRight, AcceptedIsChecked, RejectedForReason, Accepted, Kind
  <2> QED  BY <2>7 DEF VInv
<1>10. CASE AsmCanAddObjects(Open)
  <2>1. objects' = Append(objects, r) /\ phase' = "declarations"
    BY <1>4, <1>10 DEF AsmUtilDefineObject, AfterReduction
  <2>2. d.name \notin NamesOf(objects)  BY <1>4, <1>7, <1>10 DEF AsmCanAddObjects
  <2>3. r.name = d.name /\ r.content = c
    <3> HIDE DEF d
    <3> QED  OBVIOUS
  <2> HIDE DEF r
  <2>4. objects'[n] = r /\ \A i \in 1 .. n - 1 : objects'[i] = objects[i]
    <3> HIDE DEF n
    <3> QED  BY <1>2, <1>3, <2>1
  <2> HIDE DEF n, d
  <2>5. \A i \in 1 .. n : i = n \/ i \in 1 .. n - 1  BY <1>3
  <2>6. \A i \in 1 .. n - 1 : /\ objects[i].name = source[i].name
                              /\ CheckedDeclaration(source[i])
                              /\ Finished(objects[i].content, source[i])
    BY <1>5 DEF Closed
  <2>7. d = source[n]  BY DEF d
  <2>8. ASSUME NEW i \in 1 .. n
        PROVE  /\ objects'[i].name = source[i].name
               /\ CheckedDeclaration(source[i])
               /\ Finished(objects'[i].content, source[i])
    BY <1>6, <2>3, <2>4, <2>5, <2>6, <2>7
  <2>9. \A i \in 1 .. n - 1 : source[i].name # source[n].name
    BY <1>8, <2>2, <2>7
  <2>10. ASSUME NEW i \in 1 .. n, NEW j \in 1 .. n, source[i].name = source[j].name
         PROVE  i = j
    BY <1>5, <2>5, <2>9, <2>10 DEF Closed
  <2>11. Closed(objects', source', n)  BY <2>8, <2>10 DEF Closed
  <2>12. Reading'  BY <2>1, <2>11 DEF Reading, Kind, n
  <2>13. VerdictIsRight'
    BY <2>1 DEF VerdictIsRight, AcceptedIsChecked, RejectedForReason, Accepted
  <2> QED  BY <2>12, <2>13 DEF VInv
<1> QED  BY <1>9, <1>10

LEMMA EndFunctionVerdict ==
  ASSUME VInv, EndFunction
  PROVE  VInv'
<1> DEFINE n == Len(source)
           d == source[n]
           locals == Len(code.locals)
           args == Len(d.args)
           h == Header(Open, code)
           c == AsmCodeAddMetadata(AsmUtilProcessLocals(code, Open.args), h)
<1>1. AInv /\ Reading  BY DEF VInv
<1>2. AInv'  BY <1>1, EndFunctionInv
<1>3. phase = "function" /\ phase \in Kind /\ UNCHANGED source
  BY DEF EndFunction, Kind
<1>4. source \in Seq(Declaration) /\ Corresponds /\ code \in Sound  BY <1>1, AInvHas
<1>5. n > 0 /\ n \in Nat /\ d.kind = "function"
  BY <1>3, <1>4 DEF Corresponds
<1>6. d \in Declaration /\ Open = d  BY <1>4, <1>5 DEF Open, Last
<1>7. Translates(code, d)  BY <1>1, <1>3 DEF Reading
<1>8. TooMany(Open, code) <=> ~ CheckedDeclaration(d)
  <2> HIDE DEF d
  <2> DEFINE declared == Cardinality(Uses(d, "declare"))
             results == d.results
  <2>1. /\ locals = declared /\ Once(d, "label") /\ Once(d, "declare")
    BY <1>7 DEF Translates
  <2>2. results \in Nat /\ args \in Nat  BY <1>6, DeclarationHas
  <2>3. locals \in Nat  BY <1>4, SoundHas
  <2> HIDE DEF locals, args, declared, results
  <2>4. \/ results > MaxResults \/ locals > MaxLocals \/ args > MaxArgs
        <=> ~ (results <= MaxResults /\ args <= MaxArgs /\ locals <= MaxLocals)
    BY <2>2, <2>3, LimitsHave
  <2>5. TooMany(Open, code) <=> \/ results > MaxResults \/ locals > MaxLocals
                                \/ args > MaxArgs
    BY <1>6 DEF TooMany, results, locals, args
  <2>6. CheckedDeclaration(d) <=> /\ results <= MaxResults /\ args <= MaxArgs
                                /\ declared <= MaxLocals
    BY <2>1 DEF CheckedDeclaration, results, args, declared
  <2> QED  BY <2>1, <2>4, <2>5, <2>6
<1>9. CASE TooMany(Open, code)
  <2>1. phase' = "parsing failed"  BY <1>9, ReductionPhase DEF EndFunction
  <2>2. ~ CheckedSource'
    <3>1. n \in DOMAIN source  BY <1>4, <1>5
    <3>2. source' = source /\ ~ CheckedDeclaration(source[n])  BY <1>3, <1>8, <1>9
    <3> HIDE DEF n
    <3> QED  BY <3>1, <3>2 DEF CheckedSource
  <2>3. Reading' /\ VerdictIsRight'
    BY <2>1, <2>2
    DEF Reading, VerdictIsRight, AcceptedIsChecked, RejectedForReason, Accepted, Kind
  <2> QED  BY <1>2, <2>3 DEF VInv
<1>10. CASE ~ TooMany(Open, code)
  <2>1. AsmUtilDefineObject(Open, c)  BY <1>10 DEF EndFunction
  <2>2. h \in Seq(Byte) /\ Len(h) = 4 /\ c \in Sound
    BY <1>1, <1>3, <1>10, FunctionSound
  <2>3. Finished(AsmCodeAddMetadata(AsmUtilProcessLocals(code, d.args), h), d)
    BY <1>4, <1>5, <1>6, <1>7, <2>2, FunctionFinished DEF IsFunction, d
  <2>4. Finished(c, Open)  BY <1>6, <2>3
  <2>5. CheckedDeclaration(Open)  BY <1>6, <1>8, <1>10
  <2> HIDE DEF c
  <2> QED  BY <1>2, <1>3, <2>1, <2>2, <2>4, <2>5, DefineObjectVerdict
<1> QED  BY <1>9, <1>10

LEMMA EndObjectVerdict ==
  ASSUME VInv, EndObject
  PROVE  VInv'
<1> DEFINE n == Len(source)
           d == source[n]
<1>1. AInv /\ Reading  BY DEF VInv
<1>2. AInv'  BY <1>1, EndObjectInv
<1>3. phase = "object" /\ phase \in Kind /\ UNCHANGED source /\ AsmUtilDefineObject(Open, code)
  BY DEF EndObject, Kind
<1>4. source \in Seq(Declaration) /\ Corresponds /\ code \in Sound  BY <1>1, AInvHas
<1>5. n > 0 /\ n \in Nat /\ d.kind = "object"
  BY <1>3, <1>4 DEF Corresponds
<1>6. d \in Declaration /\ Open = d  BY <1>4, <1>5 DEF Open, Last
<1>7. Translates(code, d) /\ Plain(d)  BY <1>1, <1>3 DEF Reading
<1> HIDE DEF d
<1>8. CheckedDeclaration(d)
  BY <1>7, FS_EmptySet, LimitsHave DEF Translates, Plain, CheckedDeclaration
<1>9. Finished(code, d)
  <2>1. ~ IsFunction(d)  BY <1>5 DEF IsFunction, d
  <2> QED  BY <1>6, <1>7, <2>1, ObjectFinished DEF Plain
<1> QED  BY <1>2, <1>3, <1>4, <1>6, <1>8, <1>9, DefineObjectVerdict

LEMMA EndOfInputVerdict ==
  ASSUME VInv, EndOfInput
  PROVE  VInv'
<1>1. AInv /\ Reading  BY DEF VInv
<1>2. AInv'  BY <1>1, EndOfInputInv
<1>3. phase = "declarations" /\ phase' = "parsed" /\ UNCHANGED <<objects, source>>
  BY DEF EndOfInput
<1>4. Reading'  BY <1>1, <1>3 DEF Reading, Kind
<1>5. VerdictIsRight'
  BY <1>3 DEF VerdictIsRight, AcceptedIsChecked, RejectedForReason, Accepted
<1> QED  BY <1>2, <1>4, <1>5 DEF VInv

LEMMA OutOfMemoryVerdict ==
  ASSUME VInv, OutOfMemory
  PROVE  VInv'
<1>1. AInv  BY DEF VInv
<1>2. AInv'  BY <1>1, OutOfMemoryInv
<1>3. fault' = TRUE /\ AfterReduction(1, phase)  BY DEF OutOfMemory
<1>4. phase' = "parsing failed"  BY <1>3, ReductionPhase
<1>5. Reading' /\ VerdictIsRight'
  BY <1>3, <1>4
  DEF Reading, VerdictIsRight, AcceptedIsChecked, RejectedForReason, Accepted, Kind
<1> QED  BY <1>2, <1>5 DEF VInv

----------------------------------------------------------------------------
(***************************************************************************)
(* The verdict of the linker.                                              *)
(***************************************************************************)

\* When all declarations have been read, the source passes the checks.
LEMMA ParsedIsChecked ==
  ASSUME source \in Seq(Declaration), Closed(objects, source, Len(source))
  PROVE  CheckedSource
BY DEF CheckedSource, Closed

\* The linker counts what the source says.
LEMMA CountedInSource ==
  ASSUME objects \in Seq(Object), source \in Seq(Declaration),
         Matches(objects, source, Len(source)), NEW kind \in Kind
  PROVE  /\ UnnamedTo(objects, Len(objects), kind) = Unnamed(kind)
         /\ Free(objects, kind) = HandlesOfKind(kind) \ Given
<1> DEFINE n == Len(source)
<1>1. DOMAIN source = 1 .. n /\ DOMAIN objects = 1 .. n /\ Len(objects) = n
  BY DEF Matches
<1>2. \A i \in 1 .. n : objects[i].kind = source[i].kind /\ objects[i].handle = source[i].handle
  BY DEF Matches
<1> HIDE DEF n
<1>3. UnnamedTo(objects, n, kind) = Unnamed(kind)
  BY <1>1, <1>2 DEF UnnamedTo, Unnamed
<1>4. HandlesOf(objects) = Given
  BY <1>1, <1>2 DEF HandlesOf, Given
<1> QED  BY <1>1, <1>3, <1>4 DEF Free

LEMMA EnoughHandles ==
  ASSUME objects \in Seq(Object), source \in Seq(Declaration),
         Matches(objects, source, Len(source))
  PROVE  AsmAssignHandles(objects).errors = 0 <=>
           /\ Cardinality(Unnamed("function")) <= Cardinality((CodeFirst .. CodeLast) \ Given)
           /\ Cardinality(Unnamed("object")) <= Cardinality((DataFirst .. DataLast) \ Given)
<1> DEFINE fits(kind) == Cardinality(UnnamedTo(objects, Len(objects), kind))
                           <= Cardinality(Free(objects, kind))
<1>1. AsmAssignHandles(objects).errors = 0 <=> \A kind \in Kind : fits(kind)
  BY AssignHandlesCount
<1>2. fits("function") <=>
        Cardinality(Unnamed("function")) <= Cardinality((CodeFirst .. CodeLast) \ Given)
  BY CountedInSource DEF Kind, HandlesOfKind
<1>3. fits("object") <=>
        Cardinality(Unnamed("object")) <= Cardinality((DataFirst .. DataLast) \ Given)
  BY CountedInSource DEF Kind, HandlesOfKind
<1> HIDE DEF fits
<1>4. (\A kind \in Kind : fits(kind)) <=> fits("function") /\ fits("object")
  BY DEF Kind
<1> QED  BY <1>1, <1>2, <1>3, <1>4

\* The second pass fails for the declarations that cannot be linked.
LEMMA LinkedContent ==
  ASSUME objects \in Seq(Object), source \in Seq(Declaration), Len(objects) = Len(source),
         Closed(objects, source, Len(source)),
         NEW pass, pass = AsmAssignHandles(objects), NEW i \in 1 .. Len(source)
  PROVE  AsmLinkObject(pass.objs, pass.objs[i].content).errors = 0
           <=> LinkableDeclaration(source[i])
<1> DEFINE o == pass.objs
           n == Len(source)
           c == o[i].content
<1>1. o \in Seq(Object) /\ Len(o) = n
  <2>1. pass \in AssignPass(objects)  BY AssignHandlesDo
  <2> QED  BY <2>1 DEF AssignPass
<1>2. \A j \in 1 .. n : o[j].name = objects[j].name /\ o[j].content = objects[j].content
  <2>1. Keeps(objects, pass)  BY AssignHandlesCount
  <2> QED  BY <2>1 DEF Keeps
<1>3. \A j \in 1 .. n : /\ objects[j].name = source[j].name
                        /\ CheckedDeclaration(source[j])
                        /\ Finished(objects[j].content, source[j])
  BY DEF Closed
<1>4. NamesOf(o) = Global
  <2>1. DOMAIN source = 1 .. n  OBVIOUS
  <2>2. \A j \in 1 .. n : o[j].name = source[j].name  BY <1>2, <1>3
  <2> HIDE DEF o, n
  <2> QED  BY <1>1, <2>1, <2>2 DEF NamesOf, Global
<1>5. c \in Sound
  <2> HIDE DEF o
  <2>1. o[i] \in Object  BY <1>1
  <2> QED  BY <2>1 DEF Object
<1>6. Finished(c, source[i]) /\ Once(source[i], "label") /\ source[i] \in Declaration
  BY <1>2, <1>3 DEF CheckedDeclaration
<1> HIDE DEF o, n, c
<1>7. AsmLinkObject(o, c).errors = 0 <=> AllResolve(o, c)
  BY <1>1, <1>5, LinkObjectCounts
<1>8. AllResolve(o, c) <=> LinkableIn(source[i], NamesOf(o))
  BY <1>1, <1>5, <1>6, AllResolveLinkable
<1>9. LinkableIn(source[i], Global) <=> LinkableDeclaration(source[i])
  BY DEF LinkableIn, LinkableDeclaration
<1> QED  BY <1>4, <1>7, <1>8, <1>9 DEF o, c

LEMMA AsmLinkVerdict ==
  ASSUME VInv, AsmLink
  PROVE  VInv'
<1> DEFINE n == Len(source)
           pass1 == AsmAssignHandles(objects)
           pass2 == [i \in DOMAIN objects |->
                       AsmLinkObject(pass1.objs, pass1.objs[i].content)]
           failures == IF pass1.errors > 0 THEN pass1.errors ELSE ErrorsOf(pass2)
           enough == /\ Cardinality(Unnamed("function"))
                          <= Cardinality((CodeFirst .. CodeLast) \ Given)
                     /\ Cardinality(Unnamed("object"))
                          <= Cardinality((DataFirst .. DataLast) \ Given)
<1>1. AInv /\ Reading  BY DEF VInv
<1>2. AInv'  BY <1>1, AsmLinkInv
<1>3. /\ phase = "parsed" /\ UNCHANGED source
      /\ phase' = IF failures = 0 THEN "linked" ELSE "linking failed"
  BY DEF AsmLink
<1>4. /\ objects \in Seq(Object) /\ source \in Seq(Declaration)
      /\ Matches(objects, source, n) /\ Closed(objects, source, n)
  BY <1>1, <1>3, AInvHas DEF Corresponds, Reading
<1>5. Len(objects) = n /\ n \in Nat /\ DOMAIN objects = 1 .. n /\ DOMAIN source = 1 .. n
  BY <1>4 DEF Matches
<1>6. pass1.errors \in Nat /\ (pass1.errors = 0 <=> enough)
  BY <1>4, AssignHandlesDo, EnoughHandles DEF AssignPass
<1> HIDE DEF enough, n
<1>7. /\ ErrorsOf(pass2) \in Nat
      /\ ErrorsOf(pass2) = 0 <=> \A i \in 1 .. n : LinkableDeclaration(source[i])
  <2>1. \A i \in 1 .. n : /\ pass2[i].errors \in Nat
                          /\ pass2[i].errors = 0 <=> LinkableDeclaration(source[i])
    <3> SUFFICES ASSUME NEW i \in 1 .. n
                 PROVE  /\ pass2[i].errors \in Nat
                        /\ pass2[i].errors = 0 <=> LinkableDeclaration(source[i])
      OBVIOUS
    <3>1. pass2[i] = AsmLinkObject(pass1.objs, pass1.objs[i].content)  BY <1>5
    <3> HIDE DEF pass2
    <3>2. pass1.objs \in Seq(Object) /\ Len(pass1.objs) = n
      BY <1>4, <1>5, AssignHandlesDo DEF AssignPass
    <3>3. pass1.objs[i].content \in Sound
      <4> DEFINE o == pass1.objs
      <4>1. o[i] \in Object  BY <3>2
      <4> HIDE DEF o
      <4>2. o[i].content \in Sound  BY <4>1 DEF Object
      <4> QED  BY <4>2 DEF o
    <3>4. pass2[i] \in LinkPass
      <4> HIDE DEF pass1
      <4> QED  BY <3>1, <3>2, <3>3, LinkObjectType
    <3>5. AsmLinkObject(pass1.objs, pass1.objs[i].content).errors = 0
            <=> LinkableDeclaration(source[i])
      BY <1>4, <1>5, LinkedContent DEF n
    <3> HIDE DEF pass1
    <3> QED  BY <3>1, <3>4, <3>5 DEF LinkPass
  <2>2. Len(pass2) = n  BY <1>5
  <2> HIDE DEF pass2
  <2>3. /\ ErrorsOf(pass2) \in Nat
        /\ ErrorsOf(pass2) = 0 <=> \A i \in 1 .. n : pass2[i].errors = 0
    BY <1>5, <2>1, <2>2, ErrorsOfType
  <2> QED  BY <2>1, <2>3
<1> HIDE DEF pass1, pass2
<1>8. failures = 0 <=> LinkableSource  BY <1>5, <1>6, <1>7 DEF LinkableSource, enough
<1>9. CheckedSource  BY <1>4, ParsedIsChecked DEF n
<1>10. CheckedSource' /\ (LinkableSource' <=> LinkableSource)
  <2>1. CheckedSource' <=> CheckedSource  BY <1>3 DEF CheckedSource
  <2>2. LinkableSource' <=> LinkableSource
    BY <1>3 DEF LinkableSource, LinkableDeclaration, Global, Unnamed, Given
  <2> QED  BY <1>9, <2>1, <2>2
<1> HIDE DEF failures
<1>11. Reading' /\ VerdictIsRight'
  <2>1. CASE failures = 0
    <3>1. phase' = "linked" /\ LinkableSource'  BY <1>3, <1>8, <1>10, <2>1
    <3> QED  BY <1>10, <3>1
      DEF Reading, VerdictIsRight, AcceptedIsChecked, RejectedForReason, Accepted, Kind
  <2>2. CASE failures # 0
    <3>1. phase' = "linking failed" /\ ~ LinkableSource'  BY <1>3, <1>8, <1>10, <2>2
    <3> QED  BY <1>10, <3>1
      DEF Reading, VerdictIsRight, AcceptedIsChecked, RejectedForReason, Accepted, Kind
  <2> QED  BY <2>1, <2>2
<1> QED  BY <1>2, <1>11 DEF VInv

LEMMA WriteOutputVerdict ==
  ASSUME VInv, AsmWriteOutput
  PROVE  VInv'
<1>1. AInv /\ VerdictIsRight  BY DEF VInv
<1>2. AInv'  BY <1>1, WriteOutputInv
<1>3. phase = "linked" /\ UNCHANGED source  BY DEF AsmWriteOutput
<1>4. CheckedSource /\ LinkableSource
  BY <1>1, <1>3 DEF VerdictIsRight, AcceptedIsChecked, Accepted
<1>5. CheckedSource' /\ LinkableSource'
  BY <1>3, <1>4 DEF CheckedSource, LinkableSource, LinkableDeclaration, Global, Unnamed,
     Given
<1>6. Len(Unit) \in Nat /\ \A i \in 1 .. Len(Unit) : Writable(Unit[i])
  BY <1>1, AInvHas, UnitWritable
<1>7. phase' = "written" \/ (phase' = "writing failed" /\ fault' = TRUE)
  <2>1. CASE OpenFails  BY <2>1 DEF OpenFails
  <2>2. ASSUME NEW n \in 0 .. Len(Unit), WriteFails(n)
        PROVE  phase' = "writing failed" /\ fault' = TRUE
    <3>1. n < Len(Unit) /\ phase' = "writing failed"
          /\ fault' = (fault \/ Writable(Unit[n + 1]))
      BY <2>2 DEF WriteFails
    <3> DEFINE m == Len(Unit)
               u == Unit
    <3>2. m \in Nat /\ n < m /\ \A i \in 1 .. m : Writable(u[i])  BY <1>6, <3>1
    <3> HIDE DEF m, u
    <3>3. n + 1 \in 1 .. m  BY <2>2, <3>2 DEF m
    <3>4. Writable(u[n + 1])  BY <3>2, <3>3
    <3> QED  BY <3>1, <3>4 DEF u
  <2>3. ASSUME AllWritten
        PROVE  phase' = "written" \/ (phase' = "writing failed" /\ fault' = TRUE)
    BY <2>3 DEF AllWritten
  <2> QED  BY <2>1, <2>2, <2>3 DEF AsmWriteOutput
<1>8. Reading' /\ VerdictIsRight'
  BY <1>5, <1>7 DEF Reading, VerdictIsRight, AcceptedIsChecked, RejectedForReason, Accepted,
     Kind
<1> QED  BY <1>2, <1>8 DEF VInv

LEMMA VInvStep ==
  ASSUME VInv, [Next]_avars
  PROVE  VInv'
<1>1. /\ Names \subseteq STRING /\ Arguments \subseteq Seq(STRING)
      /\ Handles \subseteq Nat /\ Results \subseteq Nat
  BY SourceAssumption
<1>2. "function" \in Kind /\ "object" \in Kind  BY DEF Kind
<1>3. CASE BeginFunction  BY <1>1, <1>2, <1>3, BeginVerdict DEF BeginFunction
<1>4. CASE BeginObject
  <2>1. PICK name \in Names, handle \in Handles : Begin("object", name, handle, <<>>, 0)
    BY <1>4 DEF BeginObject
  <2>2. name \in STRING /\ handle \in Nat  BY <1>1
  <2>3. <<>> \in Seq(STRING) /\ 0 \in Nat  OBVIOUS
  <2> QED  BY <1>2, <2>1, <2>2, <2>3, BeginVerdict
<1>5. CASE \E item \in Items : ParseItem(item)  BY <1>5, ParseItemVerdict
<1>6. CASE EndFunction  BY <1>6, EndFunctionVerdict
<1>7. CASE EndObject  BY <1>7, EndObjectVerdict
<1>8. CASE EndOfInput  BY <1>8, EndOfInputVerdict
<1>9. CASE OutOfMemory  BY <1>9, OutOfMemoryVerdict
<1>10. CASE AsmLink  BY <1>10, AsmLinkVerdict
<1>11. CASE AsmWriteOutput  BY <1>11, WriteOutputVerdict
<1>12. CASE UNCHANGED avars
  <2>1. AInv /\ Reading /\ VerdictIsRight  BY DEF VInv
  <2>2. UNCHANGED <<phase, objects, code, source, fault>>  BY <1>12 DEF avars
  <2>3. AInv'  BY <1>12, <2>1, AInvStep
  <2>4. Reading'  BY <2>1, <2>2 DEF Reading
  <2>5. VerdictIsRight'
    <3>1. CheckedSource' <=> CheckedSource  BY <2>2 DEF CheckedSource
    <3>2. LinkableSource' <=> LinkableSource
      BY <2>2 DEF LinkableSource, LinkableDeclaration, Global, Unnamed, Given
    <3> QED  BY <2>1, <2>2, <3>1, <3>2
      DEF VerdictIsRight, AcceptedIsChecked, RejectedForReason, Accepted
  <2> QED  BY <2>3, <2>4, <2>5 DEF VInv
<1> QED  BY <1>3, <1>4, <1>5, <1>6, <1>7, <1>8, <1>9, <1>10, <1>11, <1>12 DEF Next

\* tinyasm accepts exactly the programs that have none of the faults its checks
\* look for.  What it accepts has no label or name twice, no local after another
\* of its name, keeps the limits of functions, and all its references can be
\* resolved; what it rejects has such a fault, unless memory or output failed
\* (AsmUtilDeclareLabel, AsmUtilDeclareVariables, AsmUtilDefineFunction,
\* AsmCanAddObjects, AsmLink).  The grammar asks for more: NamesDistinct and
\* DeclaredBeforeUse, which the code does not keep.
THEOREM AssemblerVerdict == Spec => []VerdictIsRight
<1>1. Init => VInv  BY InitVerdict
<1>2. VInv /\ [Next]_avars => VInv'  BY VInvStep
<1>3. VInv => VerdictIsRight  BY DEF VInv
<1> QED  BY <1>1, <1>2, <1>3, PTL DEF Spec

----------------------------------------------------------------------------
(***************************************************************************)
(* What the machine reads.                                                 *)
(***************************************************************************)

\* The parts of a value from its digits of 8 bits.
LEMMA DigitsOfValue ==
  ASSUME NEW v \in Int
  PROVE  /\ ByteOf(v, 0) = v % 256
         /\ ByteOf(v, 0) \in Byte /\ ByteOf(v, 1) \in Byte
         /\ ByteOf(v, 2) \in Byte /\ ByteOf(v, 3) \in Byte
         /\ ByteOf(v, 1) * 256 + ByteOf(v, 0) = v % 65536
         /\ IsWord(v) => ((ByteOf(v, 3) * 256 + ByteOf(v, 2)) * 256 + ByteOf(v, 1)) * 256
                           + ByteOf(v, 0) = v
<1>1. /\ ByteOf(v, 0) = (v \div 1) % 256
      /\ ByteOf(v, 1) = (v \div 256) % 256
      /\ ByteOf(v, 2) = (v \div 65536) % 256
      /\ ByteOf(v, 3) = (v \div 16777216) % 256
  BY DEF PlaceValue, ByteOf
<1>2. v \div 1 = v  OBVIOUS
<1> DEFINE q1 == v \div 256
           q2 == v \div 65536
           q3 == v \div 16777216
           r0 == v % 256
           r1 == q1 % 256
           r2 == q2 % 256
<1>3. q1 \in Int /\ r0 \in 0 .. 255 /\ v = q1 * 256 + r0  OBVIOUS
<1>4. q2 \in Int /\ r1 \in 0 .. 255 /\ q1 = q2 * 256 + r1  BY <1>3 DEF r1
<1>5. q3 \in Int /\ r2 \in 0 .. 255 /\ q2 = q3 * 256 + r2  BY <1>4 DEF r2
<1>6. v % 65536 = r1 * 256 + r0  OBVIOUS
<1>7. q3 % 256 \in 0 .. 255
  <2> HIDE DEF q3
  <2> QED  BY <1>5
<1>8. IsWord(v) => q3 % 256 = q3  BY <1>5 DEF IsWord
<1>9. /\ ByteOf(v, 0) = r0 /\ ByteOf(v, 1) = r1 /\ ByteOf(v, 2) = r2
      /\ ByteOf(v, 3) = q3 % 256
  BY <1>1, <1>2
<1>10. v % 256 = r0  OBVIOUS
<1> HIDE DEF q1, q2, q3, r0, r1, r2
<1>11. IsWord(v) => ((q3 * 256 + r2) * 256 + r1) * 256 + r0 = v
  BY <1>3, <1>4, <1>5
<1> QED  BY <1>3, <1>4, <1>5, <1>6, <1>7, <1>8, <1>9, <1>10, <1>11 DEF Byte

ReadsAs(bytes, at, n, v) ==
  /\ n = 1 => ReadAt(bytes, at, n) = v % 256
  /\ n = 2 => ReadAt(bytes, at, n) = v % 65536
  /\ n = 4 /\ IsWord(v) => ReadAt(bytes, at, n) = v

\* ReadAt, without the loop.
LEMMA ReadAtIs ==
  ASSUME NEW bytes, NEW at \in Nat, NEW v \in Int, NEW n \in {1, 2, 4}, bigEndian \in BOOLEAN,
         \A k \in 1 .. n : bytes[at + k] = Encoded(v, n)[k]
  PROVE  ReadsAs(bytes, at, n, v)
<1> SUFFICES /\ n = 1 => ReadAt(bytes, at, n) = v % 256
             /\ n = 2 => ReadAt(bytes, at, n) = v % 65536
             /\ n = 4 /\ IsWord(v) => ReadAt(bytes, at, n) = v
  BY DEF ReadsAs
<1> DEFINE digit(i) == bytes[at + (IF bigEndian THEN i ELSE n + 1 - i)]
           Is(f) == f = [i \in 0 .. n |-> IF i = 0 THEN 0 ELSE f[i - 1] * 256 + digit(i)]
           value == CHOOSE f : Is(f)
           d(k) == ByteOf(v, n - k)
           v1 == d(1)
           v2 == v1 * 256 + d(2)
           v3 == v2 * 256 + d(3)
           v4 == v3 * 256 + d(4)
           f0 == [i \in 0 .. n |-> IF i = 0 THEN 0 ELSE IF i = 1 THEN v1 ELSE
                                   IF i = 2 THEN v2 ELSE IF i = 3 THEN v3 ELSE v4]
<1>1. ReadAt(bytes, at, n) = value[n]  BY DEF ReadAt
<1>2. \A i \in 1 .. n : digit(i) = d(i)
  <2> SUFFICES ASSUME NEW i \in 1 .. n PROVE digit(i) = d(i)  OBVIOUS
  <2>1. n \in Nat  OBVIOUS
  <2>2. \A k \in 1 .. n : Encoded(v, n)[k] = ByteOf(v, IF bigEndian THEN n - k ELSE k - 1)
    BY DEF Encoded
  <2>3. CASE bigEndian  BY <2>2, <2>3
  <2>4. CASE ~ bigEndian  BY <2>1, <2>2, <2>4
  <2> QED  BY <2>3, <2>4
<1>3. /\ d(n) = ByteOf(v, 0)
      /\ n >= 2 => d(n - 1) = ByteOf(v, 1)
      /\ n = 4 => d(1) = ByteOf(v, 3) /\ d(2) = ByteOf(v, 2)
  OBVIOUS
<1>4. \A k \in 1 .. n : d(k) \in Int
  <2> SUFFICES ASSUME NEW k \in 1 .. n PROVE d(k) \in Int  OBVIOUS
  <2>1. n - k \in 0 .. 3  OBVIOUS
  <2>2. d(k) \in Byte  BY <2>1, ByteOfType
  <2> HIDE DEF d
  <2> QED  BY <2>2 DEF Byte
<1> HIDE DEF digit, d
<1>5. Is(f0)
  <2>1. \A i \in 1 .. n : f0[i] = f0[i - 1] * 256 + d(i)
    <3> SUFFICES ASSUME NEW i \in 1 .. n PROVE f0[i] = f0[i - 1] * 256 + d(i)  OBVIOUS
    <3>1. CASE i = 1  BY <1>4, <3>1
    <3>2. CASE i = 2  BY <3>2
    <3>3. CASE i = 3  BY <3>3
    <3>4. CASE i = 4  BY <3>4
    <3> QED  BY <3>1, <3>2, <3>3, <3>4
  <2>2. f0[0] = 0  OBVIOUS
  <2>3. f0 = [i \in 0 .. n |-> f0[i]]  OBVIOUS
  <2> DEFINE g(i) == IF i = 0 THEN 0 ELSE f0[i - 1] * 256 + digit(i)
  <2>4. \A i \in 0 .. n : f0[i] = g(i)
    <3> SUFFICES ASSUME NEW i \in 0 .. n PROVE f0[i] = g(i)  OBVIOUS
    <3>1. CASE i = 0  BY <2>2, <3>1
    <3>2. CASE i # 0
      <4>1. i \in 1 .. n  BY <3>2
      <4> HIDE DEF f0
      <4> QED  BY <1>2, <2>1, <3>2, <4>1
    <3> QED  BY <3>1, <3>2
  <2> HIDE DEF f0, g
  <2>5. f0 = [i \in 0 .. n |-> g(i)]  BY <2>3, <2>4
  <2> QED  BY <2>5 DEF g
<1>6. Is(value)
  <2> HIDE DEF Is, f0
  <2> QED  BY <1>5
<1> HIDE DEF value, f0
<1>7. value[0] = 0 /\ \A i \in 1 .. n : value[i] = value[i - 1] * 256 + d(i)
  BY <1>2, <1>6
<1> HIDE DEF Is
<1>8. value[1] = d(1)  BY <1>4, <1>7
<1>9. CASE n = 1
  BY <1>1, <1>3, <1>8, <1>9, DigitsOfValue
<1>10. CASE n = 2  BY <1>1, <1>3, <1>7, <1>8, <1>10, DigitsOfValue
<1>11. CASE n = 4  BY <1>1, <1>3, <1>7, <1>8, <1>11, DigitsOfValue
<1> QED  BY <1>9, <1>10, <1>11

----------------------------------------------------------------------------
(***************************************************************************)
(* Where the items are in the bytes of their object.                       *)
(***************************************************************************)

\* Items come one after the other.
LEMMA PositionsRise ==
  ASSUME NEW d \in Declaration, NEW i \in 1 .. Len(d.text) + 1, NEW j \in 1 .. Len(d.text) + 1,
         i <= j
  PROVE  Position(d, i) <= Position(d, j)
<1> DEFINE n == Len(d.text)
           P == {k \in 0 .. n + 1 - i : Position(d, i) <= Position(d, i + k)}
<1>1. n \in Nat /\ i \in Nat  BY DeclarationHas
<1>2. /\ \A k \in 1 .. n : /\ Position(d, k) \in Nat
                           /\ Position(d, k + 1) = Position(d, k) + TextSize(d.text[k])
                           /\ TextSize(d.text[k]) \in Nat
      /\ \A k \in 1 .. n + 1 : Position(d, k) \in Nat
  BY Positions, DeclarationHas, TextSizeType
<1> HIDE DEF n
<1>3. 0 \in P  BY <1>1, <1>2 DEF n
<1>4. ASSUME NEW k \in 1 .. n + 1 - i, k - 1 \in P PROVE k \in P
  <2>1. /\ i + (k - 1) \in 1 .. n /\ (i + (k - 1)) + 1 = i + k /\ k \in 0 .. n + 1 - i
        /\ i \in 1 .. n + 1
    BY <1>1 DEF n
  <2> DEFINE m == i + (k - 1)
  <2>2. Position(d, i) <= Position(d, m)  BY <1>4
  <2>3. Position(d, m + 1) = Position(d, m) + TextSize(d.text[m])  BY <1>2, <2>1
  <2>4. /\ Position(d, m) \in Nat /\ TextSize(d.text[m]) \in Nat /\ Position(d, i) \in Nat
    BY <1>2, <2>1
  <2>5. m + 1 = i + k  BY <2>1
  <2> HIDE DEF m
  <2>6. Position(d, i) <= Position(d, m + 1)  BY <2>2, <2>3, <2>4
  <2> QED  BY <2>1, <2>5, <2>6
<1>5. n + 1 - i \in Nat  BY <1>1 DEF n
<1>6. \A k \in 0 .. n + 1 - i : k \in P  BY <1>3, <1>4, <1>5, CountingUp
<1>7. j - i \in 0 .. n + 1 - i /\ i + (j - i) = j  BY <1>1 DEF n
<1>8. j - i \in P  BY <1>6, <1>7
<1> QED  BY <1>7, <1>8

\* p is a byte of item i.
ByteOfItem(d, i, p) == p \in Position(d, i) + 1 .. Position(d, i + 1)

\* A byte belongs to one item.
LEMMA OneItem ==
  ASSUME NEW d \in Declaration, NEW i \in 1 .. Len(d.text), NEW j \in 1 .. Len(d.text), NEW p,
         ByteOfItem(d, i, p), ByteOfItem(d, j, p)
  PROVE  i = j
<1> DEFINE n == Len(d.text)
<1>1. n \in Nat  BY DeclarationHas
<1>2. \A k \in 1 .. n + 1 : Position(d, k) \in Nat  BY Positions
<1>3. /\ i \in 1 .. n + 1 /\ i + 1 \in 1 .. n + 1
      /\ j \in 1 .. n + 1 /\ j + 1 \in 1 .. n + 1
  BY <1>1
<1>4. /\ Position(d, i) \in Nat /\ Position(d, i + 1) \in Nat
      /\ Position(d, j) \in Nat /\ Position(d, j + 1) \in Nat
  BY <1>2, <1>3
<1>5. /\ Position(d, i) < p /\ p <= Position(d, i + 1)
      /\ Position(d, j) < p /\ p <= Position(d, j + 1) /\ p \in Int
  BY <1>4 DEF ByteOfItem
<1>6. CASE i < j  BY <1>3, <1>4, <1>5, <1>6, PositionsRise
<1>7. CASE j < i  BY <1>3, <1>4, <1>5, <1>7, PositionsRise
<1> QED  BY <1>6, <1>7

----------------------------------------------------------------------------
(***************************************************************************)
(* What a code buffer holds of the text it is made of.                     *)
(***************************************************************************)

\* The byte order as a parameter.
EncodedAs(value, n, big) ==
  [k \in 1 .. n |-> ByteOf(value, IF big THEN n - k ELSE k - 1)]
OperandAs(item, n, big) ==
  IF item.symbol # "" THEN Fill(n, 0) ELSE EncodedAs(item.value, n, big)
ItemBytesAs(item, big) ==
  CASE item.kind = "op"      -> <<OpCode[item.kind]>>
    [] item.kind = "imm"     -> <<OpCode[item.kind]>> \o EncodedAs(item.value, 4, big)
    [] item.kind = "jump"    -> <<OpCode[item.kind]>> \o OperandAs(item, 2, big)
    [] item.kind = "local"   -> <<OpCode[item.kind]>> \o OperandAs(item, 1, big)
    [] item.kind = "call"    -> <<OpCode[item.kind]>> \o OperandAs(item, 4, big)
    [] item.kind = "label"   -> OperandAs(item, 0, big)
    [] item.kind = "declare" -> <<>>
    [] item.kind = "handle"  -> OperandAs(item, 4, big)
    [] item.kind = "byte"    -> <<item.value>>
    [] item.kind = "word"    -> EncodedAs(item.value, 4, big)
    [] item.kind = "skip"    -> Fill(item.value, 0)

LEMMA EncodedSame ==
  ASSUME NEW value, NEW n
  PROVE  Encoded(value, n) = EncodedAs(value, n, bigEndian)
BY DEF Encoded, EncodedAs

LEMMA ItemBytesSame ==
  ASSUME NEW item
  PROVE  ItemBytes(item) = ItemBytesAs(item, bigEndian)
<1>1. \A n : Operand(item, n) = OperandAs(item, n, bigEndian)
  BY EncodedSame DEF Operand, OperandAs
<1> QED  BY <1>1, EncodedSame DEF ItemBytes, ItemBytesAs

\* The bytes of an item, before linking.
HasItem(bytes, at, item, big) ==
  \A j \in 1 .. TextSize(item) : bytes[at + j] = ItemBytesAs(item, big)[j]

\* A buffer that lacks the first base bytes has the text of d.
HasText(bytes, d, base, big) ==
  \A i \in 1 .. Len(d.text) : HasItem(bytes, Position(d, i) - base, d.text[i], big)

Earlier(d, i) == {j \in Uses(d, "declare") : j < i}

\* The chain of variables has what d declares, in that order.
HasLocals(locals, d) ==
  /\ IsFiniteSet(Symbols(d, "declare"))
  /\ Cardinality(Symbols(d, "declare")) = Len(locals)
  /\ \A k \in 1 .. Len(locals) :
       \E i \in Uses(d, "declare") : /\ d.text[i].symbol = locals[k].name
                                     /\ Cardinality(Earlier(d, i)) = k - 1

\* While d is read, and when it has been read.
Spells(c, d, big) == HasText(c.bytes, d, Base(d), big) /\ HasLocals(c.locals, d)

HasHeader(bytes, d) ==
  IsFunction(d) => /\ bytes[1] = 0 /\ bytes[2] = d.results /\ bytes[3] = Len(d.args)
                   /\ bytes[4] = Cardinality(Symbols(d, "declare"))
HasSlots(locals, d) ==
  \A name \in Variables(d) : locals[Lookup(locals, name)].index = Slot(d, name)

Complete(c, d, big) ==
  /\ Len(c.bytes) = Position(d, Len(d.text) + 1)
  /\ HasHeader(c.bytes, d) /\ HasText(c.bytes, d, 0, big) /\ HasSlots(c.locals, d)

\* An item keeps its bytes when others follow.
LEMMA HasItemMore ==
  ASSUME NEW b \in Seq(Byte), NEW t \in Seq(Byte), NEW at \in Nat, NEW item \in Items, NEW big,
         HasItem(b, at, item, big), at + TextSize(item) <= Len(b)
  PROVE  HasItem(b \o t, at, item, big)
<1> SUFFICES ASSUME NEW j \in 1 .. TextSize(item)
             PROVE  (b \o t)[at + j] = ItemBytesAs(item, big)[j]
  BY DEF HasItem
<1>1. TextSize(item) \in Nat /\ Len(b) \in Nat  BY TextSizeType
<1>2. at + j \in 1 .. Len(b)  BY <1>1
<1>3. (b \o t)[at + j] = b[at + j]  BY <1>2, Concat
<1> QED  BY <1>3 DEF HasItem

\* An item is where its bytes are appended.
LEMMA HasItemAppended ==
  ASSUME NEW b \in Seq(Byte), NEW item \in Items
  PROVE  HasItem(b \o ItemBytes(item), Len(b), item, bigEndian)
<1> DEFINE t == ItemBytes(item)
<1>1. t \in Seq(Byte) /\ Len(t) = TextSize(item)  BY ItemBytesType
<1>2. t = ItemBytesAs(item, bigEndian)  BY ItemBytesSame
<1> HIDE DEF t
<1>3. \A j \in 1 .. Len(t) : (b \o t)[Len(b) + j] = t[j]  BY <1>1, Concat
<1>4. HasItem(b \o t, Len(b), item, bigEndian)  BY <1>1, <1>2, <1>3 DEF HasItem
<1> QED  BY <1>4 DEF t

LEMMA TextGrows ==
  ASSUME NEW e, NEW d, NEW item, Extends(e, d, item), NEW c \in Sound,
         Len(c.bytes) + Base(d) = Position(d, Len(d.text) + 1),
         HasText(c.bytes, d, Base(d), bigEndian)
  PROVE  HasText(Reduced(c, item).bytes, e, Base(e), bigEndian)
<1> DEFINE n == Len(d.text)
           b == c.bytes
           t == ItemBytes(item)
           base == Base(d)
<1>1. /\ n \in Nat /\ Len(e.text) = n + 1 /\ e.text[n + 1] = item
      /\ \A i \in 1 .. n : e.text[i] = d.text[i]
      /\ item \in Items
  BY ExtendedText
<1>2. (\A i \in 1 .. n + 1 : Position(e, i) = Position(d, i)) /\ Base(e) = base
  BY ExtendedPositions
<1>3. Reduced(c, item).bytes = b \o t  BY <1>1, ReducedGrows DEF Grown
<1>4. t \in Seq(Byte) /\ b \in Seq(Byte) /\ Len(b) \in Nat /\ base \in Nat
  BY <1>1, ItemBytesType, SoundHas DEF Base
<1>5. d \in Declaration  BY DEF Extends
<1>6. /\ \A i \in 1 .. n : /\ Position(d, i) \in Nat
                           /\ Position(d, i + 1) = Position(d, i) + TextSize(d.text[i])
                           /\ TextSize(d.text[i]) \in Nat /\ d.text[i] \in Items
      /\ \A i \in 1 .. n + 1 : Position(d, i) \in Nat
      /\ Position(d, 1) = base
  BY <1>5, Positions, DeclarationHas, TextSizeType
<1>7. Len(b) + base = Position(d, n + 1)  OBVIOUS
<1>8. \A i \in 1 .. n : HasItem(b, Position(d, i) - base, d.text[i], bigEndian)
  BY DEF HasText
<1>9. ASSUME NEW i \in 1 .. n
      PROVE  HasItem(b \o t, Position(d, i) - base, d.text[i], bigEndian)
  <2>1. /\ 1 \in 1 .. n + 1 /\ i \in 1 .. n + 1 /\ i + 1 \in 1 .. n + 1
        /\ n + 1 \in 1 .. n + 1 /\ 1 <= i /\ i + 1 <= n + 1
    BY <1>1
  <2>2. Position(d, 1) <= Position(d, i) /\ Position(d, i + 1) <= Position(d, n + 1)
    BY <1>5, <2>1, PositionsRise
  <2> DEFINE at == Position(d, i) - base
             size == TextSize(d.text[i])
             p == Position(d, i)
             l == Len(b)
  <2>3. p \in Nat /\ size \in Nat /\ l \in Nat /\ base <= p /\ p + size <= l + base
    BY <1>4, <1>6, <1>7, <2>1, <2>2
  <2>4. at \in Nat /\ at + size <= l
    <3>1. base \in Nat  BY <1>4
    <3> HIDE DEF p, l, size, base
    <3>2. p - base \in Nat /\ (p - base) + size <= l  BY <2>3, <3>1
    <3> QED  BY <3>2 DEF p
  <2>5. d.text[i] \in Items /\ HasItem(b, at, d.text[i], bigEndian)  BY <1>6, <1>8
  <2> HIDE DEF b, t, at
  <2> QED  BY <1>4, <2>4, <2>5, HasItemMore DEF at
<1>10. HasItem(b \o t, Position(d, n + 1) - base, item, bigEndian)
  <2>1. Position(d, n + 1) - base = Len(b)  BY <1>4, <1>7
  <2> QED  BY <1>1, <1>4, <2>1, HasItemAppended
<1> HIDE DEF n, b, t, base
<1>11. ASSUME NEW i \in 1 .. n + 1
       PROVE  HasItem(b \o t, Position(e, i) - base, e.text[i], bigEndian)
  BY <1>1, <1>2, <1>9, <1>10
<1> QED  BY <1>1, <1>2, <1>3, <1>11 DEF HasText

\* The chain of variables is the one that Slot counts.
LEMMA LocalsGrow ==
  ASSUME NEW e, NEW d, NEW item, Extends(e, d, item), NEW c \in Sound,
         Translates(c, d), HasLocals(c.locals, d), ~ Rejected(c, item)
  PROVE  HasLocals(Reduced(c, item).locals, e)
<1> DEFINE l == c.locals
           m == Reduced(c, item).locals
           n == Len(d.text)
<1>1. /\ n \in Nat /\ Len(e.text) = n + 1 /\ e.text[n + 1] = item
      /\ \A i \in 1 .. n : e.text[i] = d.text[i]
      /\ item \in Items
  BY ExtendedText
<1>2. m = NewLocals(c, item)  BY <1>1, ReducedGrows DEF Grown
<1>3. l \in Seq(Variable) /\ Len(l) \in Nat  BY SoundHas
<1>4. /\ IsFiniteSet(Uses(d, "declare"))
      /\ Len(l) = Cardinality(Uses(d, "declare")) /\ NamesOf(l) = Symbols(d, "declare")
  BY DEF Translates
<1>5. /\ IsFiniteSet(Symbols(d, "declare"))
      /\ Cardinality(Symbols(d, "declare")) = Len(l)
  BY DEF HasLocals
<1>6. \A k \in 1 .. Len(l) :
        \E i \in Uses(d, "declare") : /\ d.text[i].symbol = l[k].name
                                      /\ Cardinality(Earlier(d, i)) = k - 1
  BY DEF HasLocals
<1>7. /\ \A i \in Uses(d, "declare") : e.text[i] = d.text[i] /\ i \in 1 .. n
      /\ n + 1 \notin Uses(d, "declare")
  BY UsesGrow
<1> HIDE DEF m, l
<1>8. CASE item.kind # "declare"
  <2>1. m = l  BY <1>2, <1>8 DEF NewLocals, l
  <2>2. Uses(e, "declare") = Uses(d, "declare") /\ Symbols(e, "declare") = Symbols(d, "declare")
    BY <1>8, UsesGrow
  <2>3. \A i : Earlier(e, i) = Earlier(d, i)  BY <2>2 DEF Earlier
  <2> QED  BY <1>5, <1>6, <1>7, <2>1, <2>2, <2>3 DEF HasLocals, m
<1>9. CASE item.kind = "declare"
  <2> DEFINE v == [name |-> item.symbol, index |-> 0]
  <2>1. Lookup(l, item.symbol) = 0  BY <1>9 DEF Rejected, l
  <2>2. m = Append(l, v)  BY <1>2, <1>9, <2>1 DEF NewLocals, l
  <2>3. v.name = item.symbol  OBVIOUS
  <2> HIDE DEF v
  <2>4. /\ Len(m) = Len(l) + 1 /\ m[Len(l) + 1] = v
        /\ \A j \in 1 .. Len(l) : m[j] = l[j]
    BY <1>3, <2>2
  <2>5. /\ Uses(e, "declare") = Uses(d, "declare") \cup {n + 1}
        /\ Symbols(e, "declare") = Symbols(d, "declare") \cup {item.symbol}
    BY <1>9, UsesGrow
  <2>6. item.symbol \notin Symbols(d, "declare")  BY <1>3, <1>4, <2>1, LookupFinds
  <2>7. /\ IsFiniteSet(Symbols(e, "declare"))
        /\ Cardinality(Symbols(e, "declare")) = Len(m)
    BY <1>5, <2>4, <2>5, <2>6, FS_AddElement
  <2>8. \A i \in 1 .. n : Earlier(e, i) = Earlier(d, i)
    BY <1>1, <2>5 DEF Earlier
  <2>9. Earlier(e, n + 1) = Uses(d, "declare")
    BY <1>1, <1>7, <2>5 DEF Earlier
  <2>10. ASSUME NEW k \in 1 .. Len(m)
         PROVE  \E i \in Uses(e, "declare") : /\ e.text[i].symbol = m[k].name
                                              /\ Cardinality(Earlier(e, i)) = k - 1
    <3>1. CASE k = Len(l) + 1
      <4>1. n + 1 \in Uses(e, "declare") /\ e.text[n + 1].symbol = m[k].name
        BY <1>1, <2>3, <2>4, <2>5, <3>1
      <4>2. Cardinality(Earlier(e, n + 1)) = k - 1  BY <1>3, <1>4, <2>9, <3>1
      <4> QED  BY <4>1, <4>2
    <3>2. CASE k \in 1 .. Len(l)  BY <1>6, <1>7, <2>4, <2>5, <2>8, <3>2
    <3>3. k = Len(l) + 1 \/ k \in 1 .. Len(l)  BY <1>3, <2>4
    <3> QED  BY <3>1, <3>2, <3>3
  <2> QED  BY <2>7, <2>10 DEF HasLocals, m
<1> QED  BY <1>8, <1>9

LEMMA SpellsStep ==
  ASSUME NEW e, NEW d, NEW item, Extends(e, d, item), NEW c \in Sound,
         Translates(c, d), Spells(c, d, bigEndian), ~ Rejected(c, item)
  PROVE  Spells(Reduced(c, item), e, bigEndian)
<1>1. Len(c.bytes) + Base(d) = Position(d, Len(d.text) + 1)  BY DEF Translates
<1>2. HasText(Reduced(c, item).bytes, e, Base(e), bigEndian)  BY <1>1, TextGrows DEF Spells
<1>3. HasLocals(Reduced(c, item).locals, e)  BY LocalsGrow DEF Spells
<1> QED  BY <1>2, <1>3 DEF Spells

LEMMA EmptySpells ==
  ASSUME NEW d \in Declaration, d.text = <<>>, NEW big
  PROVE  Spells(EmptyCode, d, big)
<1>1. Len(d.text) = 0 /\ DOMAIN d.text = {}  BY DEF Declaration
<1>2. HasText(EmptyCode.bytes, d, Base(d), big)  BY <1>1 DEF HasText
<1>3. Symbols(d, "declare") = {}  BY <1>1 DEF Symbols, Uses
<1>4. EmptyCode.locals = <<>>  BY DEF EmptyCode
<1>5. HasLocals(<<>>, d)  BY <1>3, FS_EmptySet DEF HasLocals
<1> QED  BY <1>2, <1>4, <1>5 DEF Spells

----------------------------------------------------------------------------
(***************************************************************************)
(* The end of a declaration: its header and the slots of its variables.    *)
(***************************************************************************)

\* Of several elements with a name the first is found.
LEMMA LookupFirst ==
  ASSUME NEW chain, Len(chain) \in Nat, NEW name, NEW i \in 1 .. Len(chain),
         chain[i].name = name
  PROVE  /\ Lookup(chain, name) \in 1 .. Len(chain)
         /\ Lookup(chain, name) <= i
         /\ chain[Lookup(chain, name)].name = name
<1> DEFINE T == {k \in 1 .. Len(chain) : chain[k].name = name}
<1>1. Lookup(chain, name) = IF T # {} THEN Min(T) ELSE 0
  BY DEF Lookup, SelectInSeq
<1>2. T \subseteq Nat /\ i \in T /\ \A k \in T : k \in 1 .. Len(chain) /\ chain[k].name = name
  OBVIOUS
<1> HIDE DEF T
<1>3. T # {}  BY <1>2
<1>4. Min(T) \in T /\ Min(T) <= i  BY <1>2, <1>3, MinIn
<1> QED  BY <1>1, <1>2, <1>3, <1>4

\* The variables of a function: the locals, and behind them the arguments.
LEMMA ProcessedLocals ==
  ASSUME NEW c \in Sound, NEW args \in Seq(STRING)
  PROVE  LET z == AsmUtilProcessLocals(c, args).locals
             n == Len(c.locals)
             m == Len(args)
         IN  /\ Len(z) = n + m
             /\ \A i \in 1 .. n : z[i].name = c.locals[i].name /\ z[i].index = i - 1
             /\ \A i \in 1 .. m : /\ z[n + i].name = args[i]
                                  /\ z[n + i].index = MaxLocals + i - 1
<1> DEFINE l == c.locals
           n == Len(l)
           m == Len(args)
           x == IndexedLocals(c)
           y == IndexedArgs(args)
           z == x \o y
<1>1. /\ n \in Nat /\ m \in Nat /\ DOMAIN l = 1 .. n /\ DOMAIN args = 1 .. m
      /\ l \in Seq(Variable)
      /\ c = [bytes |-> c.bytes, relocations |-> c.relocations, locals |-> c.locals]
  BY SoundHas
<1>2. AsmUtilProcessLocals(c, args).locals = z  BY <1>1 DEF AsmUtilProcessLocals
<1>3. /\ x = [i \in 1 .. n |-> [name |-> l[i].name, index |-> i - 1]]
      /\ y = [i \in 1 .. m |-> [name |-> args[i], index |-> MaxLocals + i - 1]]
  BY <1>1 DEF IndexedLocals, IndexedArgs
<1> DEFINE V == [name : STRING, index : Int]
<1>4. /\ \A i \in 1 .. n : x[i] \in V /\ x[i].name = l[i].name /\ x[i].index = i - 1
      /\ \A i \in 1 .. m : y[i] \in V /\ y[i].name = args[i] /\ y[i].index = MaxLocals + i - 1
  <2>1. ASSUME NEW i \in 1 .. n
        PROVE  x[i] \in V /\ x[i].name = l[i].name /\ x[i].index = i - 1
    <3>1. l[i] \in Variable  BY <1>1
    <3>2. l[i].name \in STRING /\ i - 1 \in Int  BY <3>1 DEF Variable
    <3>3. x[i] = [name |-> l[i].name, index |-> i - 1]  BY <1>3
    <3> QED  BY <3>2, <3>3
  <2>2. ASSUME NEW i \in 1 .. m
        PROVE  y[i] \in V /\ y[i].name = args[i] /\ y[i].index = MaxLocals + i - 1
    BY <1>3, LimitsHave
  <2> QED  BY <2>1, <2>2
<1>5. x = [i \in 1 .. n |-> x[i]] /\ y = [i \in 1 .. m |-> y[i]]  BY <1>3
<1> HIDE DEF x, y, V, n, m, l
<1>6. x \in Seq(V) /\ Len(x) = n /\ y \in Seq(V) /\ Len(y) = m
  BY <1>1, <1>4, <1>5, SeqIs
<1>7. /\ Len(z) = n + m
      /\ \A i \in 1 .. n : z[i] = x[i]
      /\ \A i \in 1 .. m : z[n + i] = y[i]
  <2>1. z = x \o y  OBVIOUS
  <2> HIDE DEF z
  <2>2. x \in Seq(V) /\ y \in Seq(V)  BY <1>6
  <2>3. /\ Len(z) = Len(x) + Len(y)
        /\ \A i \in 1 .. Len(x) : z[i] = x[i]
        /\ \A i \in 1 .. Len(y) : z[Len(x) + i] = y[i]
    BY <2>1, <2>2, Concat
  <2> QED  BY <1>6, <2>3
<1> HIDE DEF z
<1> QED  BY <1>2, <1>4, <1>7 DEF n, m, l

\* The linker's index of a variable is its slot.
LEMMA SlotsOfFunction ==
  ASSUME NEW d \in Declaration, NEW c \in Sound, Translates(c, d), HasLocals(c.locals, d)
  PROVE  HasSlots(AsmUtilProcessLocals(c, d.args).locals, d)
<1> DEFINE l == c.locals
           n == Len(l)
           m == Len(d.args)
           z == AsmUtilProcessLocals(c, d.args).locals
<1>1. d.args \in Seq(STRING) /\ m \in Nat /\ DOMAIN d.args = 1 .. m /\ n \in Nat
  BY DeclarationHas, SoundHas
<1>2. /\ Len(z) = n + m
      /\ \A i \in 1 .. n : z[i].name = l[i].name /\ z[i].index = i - 1
      /\ \A i \in 1 .. m : z[n + i].name = d.args[i] /\ z[n + i].index = MaxLocals + i - 1
  BY <1>1, ProcessedLocals
<1>3. NamesOf(l) = Symbols(d, "declare") /\ Once(d, "declare")  BY DEF Translates
<1>4. \A k \in 1 .. n :
        \E i \in Uses(d, "declare") : /\ d.text[i].symbol = l[k].name
                                      /\ Cardinality(Earlier(d, i)) = k - 1
  BY DEF HasLocals
<1>5. \A name : name \in Symbols(d, "declare") <=> \E i \in 1 .. n : l[i].name = name
  BY <1>3 DEF NamesOf
<1> HIDE DEF l, n, m, z
<1>6. Len(z) \in Nat  BY <1>1, <1>2
<1> SUFFICES ASSUME NEW name \in Variables(d)
             PROVE  z[Lookup(z, name)].index = Slot(d, name)
  BY DEF HasSlots, z
<1> DEFINE k == Lookup(z, name)
<1>7. CASE name \in Symbols(d, "declare")
  <2>1. PICK j \in 1 .. n : l[j].name = name  BY <1>5, <1>7
  <2>2. j \in 1 .. Len(z) /\ z[j].name = name  BY <1>1, <1>2, <2>1
  <2>3. k \in 1 .. Len(z) /\ k <= j /\ z[k].name = name  BY <1>6, <2>2, LookupFirst
  <2> HIDE DEF k
  <2>4. k \in 1 .. n  BY <1>1, <1>2, <2>3
  <2>5. l[k].name = name /\ z[k].index = k - 1  BY <1>2, <2>3, <2>4
  <2>6. PICK i \in Uses(d, "declare") : /\ d.text[i].symbol = name
                                        /\ Cardinality(Earlier(d, i)) = k - 1
    BY <1>4, <2>4, <2>5
  <2> DEFINE i0 == CHOOSE i0 \in Uses(d, "declare") : d.text[i0].symbol = name
  <2>7. i0 \in Uses(d, "declare") /\ d.text[i0].symbol = name  BY <2>6
  <2>8. i0 = i  BY <1>3, <2>6, <2>7 DEF Once
  <2>9. Slot(d, name) = Cardinality(Earlier(d, i0))  BY <1>7 DEF Slot, Earlier
  <2> QED  BY <2>5, <2>6, <2>8, <2>9 DEF k
<1>8. CASE name \notin Symbols(d, "declare")
  <2> DEFINE First(i) == d.args[i] = name /\ \A j \in 1 .. i - 1 : d.args[j] # name
  <2>1. PICK a \in 1 .. m : d.args[a] = name  BY <1>1, <1>8 DEF Variables
  <2>2. n + a \in 1 .. Len(z) /\ z[n + a].name = name  BY <1>1, <1>2, <2>1
  <2>3. k \in 1 .. Len(z) /\ z[k].name = name  BY <1>6, <2>2, LookupFirst
  <2>4. \A i \in 1 .. Len(z) : z[i].name = name => k <= i  BY <1>6, LookupFirst
  <2> HIDE DEF k
  <2>5. k \notin 1 .. n  BY <1>2, <1>5, <1>8, <2>3
  <2> DEFINE b == k - n
  <2>6. b \in 1 .. m /\ n + b = k /\ k \in Nat  BY <1>1, <1>2, <2>3, <2>5
  <2> HIDE DEF b
  <2>7. d.args[b] = name /\ z[k].index = MaxLocals + b - 1  BY <1>2, <2>3, <2>6
  <2>8. ASSUME NEW j \in 1 .. b - 1 PROVE d.args[j] # name
    <3>1. j \in 1 .. m /\ n + j \in 1 .. Len(z) /\ n + j < k  BY <1>1, <1>2, <2>6
    <3>2. z[n + j].name = d.args[j]  BY <1>2, <3>1
    <3>3. z[n + j].name = name => k <= n + j  BY <2>4, <3>1
    <3>4. ~ (k <= n + j)  BY <1>1, <2>6, <3>1
    <3> QED  BY <3>2, <3>3, <3>4
  <2>9. First(b)  BY <2>7, <2>8
  <2> DEFINE f == CHOOSE i \in DOMAIN d.args : First(i)
  <2>10. f \in 1 .. m /\ First(f)  BY <1>1, <2>6, <2>9
  <2>11. Slot(d, name) = MaxLocals - 1 + f  BY <1>8 DEF Slot
  <2>12. f = b
    <3>1. ~ (f < b)
      <4> SUFFICES ASSUME f < b PROVE FALSE  OBVIOUS
      <4> HIDE DEF f
      <4>1. f \in 1 .. b - 1  BY <1>1, <2>6, <2>10
      <4> QED  BY <2>8, <2>10, <4>1
    <3>2. ~ (b < f)  BY <1>1, <2>6, <2>7, <2>10
    <3> HIDE DEF f, First
    <3> QED  BY <1>1, <2>6, <2>10, <3>1, <3>2
  <2>13. MaxLocals + b - 1 = MaxLocals - 1 + b  BY <1>1, <2>6, LimitsHave
  <2> HIDE DEF f
  <2> QED  BY <2>7, <2>11, <2>12, <2>13 DEF k
<1> QED  BY <1>7, <1>8

\* An item lies between the base of its object and the end of the text.
LEMMA ItemWithin ==
  ASSUME NEW d \in Declaration, NEW i \in 1 .. Len(d.text)
  PROVE  /\ Position(d, i) \in Nat /\ TextSize(d.text[i]) \in Nat /\ Base(d) \in Nat
         /\ Base(d) <= Position(d, i)
         /\ Position(d, i) + TextSize(d.text[i]) = Position(d, i + 1)
         /\ Position(d, i) + TextSize(d.text[i]) <= Position(d, Len(d.text) + 1)
         /\ Position(d, Len(d.text) + 1) \in Nat
<1> DEFINE n == Len(d.text)
<1>1. n \in Nat /\ d.text[i] \in Items  BY DeclarationHas
<1>2. /\ Position(d, i) \in Nat /\ Position(d, 1) = Base(d)
      /\ Position(d, i + 1) = Position(d, i) + TextSize(d.text[i])
      /\ \A k \in 1 .. n + 1 : Position(d, k) \in Nat
  BY Positions
<1>3. /\ 1 \in 1 .. n + 1 /\ i \in 1 .. n + 1 /\ i + 1 \in 1 .. n + 1
      /\ n + 1 \in 1 .. n + 1 /\ 1 <= i /\ i + 1 <= n + 1
  BY <1>1
<1>4. Position(d, 1) <= Position(d, i) /\ Position(d, i + 1) <= Position(d, n + 1)
  BY <1>3, PositionsRise
<1>5. Base(d) \in Nat  BY DEF Base
<1>6. TextSize(d.text[i]) \in Nat  BY <1>1, TextSizeType
<1> QED  BY <1>2, <1>3, <1>4, <1>5, <1>6

\* Behind the header the text is where it says.
LEMMA TextShifted ==
  ASSUME NEW d \in Declaration, NEW b \in Seq(Byte), NEW h \in Seq(Byte), NEW big,
         Len(h) = Base(d), HasText(b, d, Base(d), big),
         Len(b) + Base(d) = Position(d, Len(d.text) + 1)
  PROVE  HasText(h \o b, d, 0, big)
<1> SUFFICES ASSUME NEW i \in 1 .. Len(d.text), NEW j \in 1 .. TextSize(d.text[i])
             PROVE  (h \o b)[Position(d, i) - 0 + j] = ItemBytesAs(d.text[i], big)[j]
  BY DEF HasText, HasItem
<1> DEFINE p == Position(d, i)
           base == Base(d)
           s == TextSize(d.text[i])
           e == Position(d, Len(d.text) + 1)
           l == Len(b)
<1>1. p \in Nat /\ s \in Nat /\ base \in Nat /\ base <= p /\ p + s <= e /\ e \in Nat
  BY ItemWithin
<1>2. l \in Nat /\ l + base = e  OBVIOUS
<1>3. b[p - base + j] = ItemBytesAs(d.text[i], big)[j]  BY DEF HasText, HasItem
<1>4. p - base + j \in 1 .. l /\ base + (p - base + j) = p - 0 + j  BY <1>1, <1>2
<1>5. (h \o b)[base + (p - base + j)] = b[p - base + j]  BY <1>4, Concat
<1> QED  BY <1>3, <1>4, <1>5

LEMMA FunctionComplete ==
  ASSUME NEW d \in Declaration, IsFunction(d), NEW c \in Sound, Translates(c, d), NEW big,
         Spells(c, d, big), Header(d, c) \in Seq(Byte), Len(Header(d, c)) = 4
  PROVE  Complete(AsmCodeAddMetadata(AsmUtilProcessLocals(c, d.args), Header(d, c)), d, big)
<1> DEFINE p == AsmUtilProcessLocals(c, d.args)
           h == Header(d, c)
           f == AsmCodeAddMetadata(p, h)
           l == IndexedLocals(c) \o IndexedArgs(d.args)
           b == c.bytes
<1>1. /\ c = [bytes |-> c.bytes, relocations |-> c.relocations, locals |-> c.locals]
      /\ c.relocations \in Seq(Relocation) /\ d.args \in Seq(STRING)
      /\ b \in Seq(Byte) /\ Len(b) \in Nat
  BY SoundHas, DeclarationHas
<1>2. p = [bytes |-> c.bytes, relocations |-> c.relocations, locals |-> p.locals]
  <2>1. p = [c EXCEPT !.locals = l]  BY DEF AsmUtilProcessLocals
  <2> HIDE DEF l, p
  <2>2. p = [bytes |-> c.bytes, relocations |-> c.relocations, locals |-> l]
    BY <1>1, <2>1
  <2> QED  BY <2>2
<1>3. HasSlots(p.locals, d)  BY SlotsOfFunction DEF Spells
<1>4. /\ h \in Seq(Byte) /\ Len(h) = 4
      /\ h[1] = 0 /\ h[2] = d.results /\ h[3] = Len(d.args) /\ h[4] = Len(c.locals)
  BY DEF Header
<1> HIDE DEF p, h
<1> DEFINE x == h \o p.bytes
           e == [p EXCEPT !.bytes = x]
<1>5. f = [e EXCEPT !.relocations = Adjusted(@, Len(h))]  BY DEF AsmCodeAddMetadata
<1>6. /\ e.bytes = h \o b /\ e.locals = p.locals
      /\ e = [bytes |-> e.bytes, relocations |-> e.relocations, locals |-> e.locals]
  <2>1. x = h \o b  BY <1>2
  <2> HIDE DEF x
  <2>2. e = [bytes |-> x, relocations |-> c.relocations, locals |-> p.locals]
    BY <1>2
  <2> HIDE DEF e
  <2> QED  BY <2>1, <2>2
<1> HIDE DEF e, f
<1>7. f.bytes = h \o b /\ f.locals = p.locals
  BY <1>5, <1>6
<1>8. Base(d) = 4  BY DEF Base
<1>9. /\ Len(h \o b) = 4 + Len(b)
      /\ (h \o b)[1] = h[1] /\ (h \o b)[2] = h[2] /\ (h \o b)[3] = h[3] /\ (h \o b)[4] = h[4]
  <2>0. h \in Seq(Byte) /\ b \in Seq(Byte)  BY <1>1, <1>4
  <2> HIDE DEF h, b
  <2>1. Len(h \o b) = Len(h) + Len(b) /\ \A i \in 1 .. Len(h) : (h \o b)[i] = h[i]
    BY <2>0, Concat
  <2> QED  BY <1>4, <2>1
<1>10. Len(b) + Base(d) = Position(d, Len(d.text) + 1)  BY DEF Translates
<1>11. Len(f.bytes) = Position(d, Len(d.text) + 1)
  <2>1. 4 + Len(b) = Len(b) + Base(d)  BY <1>1, <1>8
  <2> QED  BY <1>7, <1>9, <1>10, <2>1
<1>12. HasText(f.bytes, d, 0, big)
  BY <1>1, <1>4, <1>7, <1>8, <1>10, TextShifted DEF Spells
<1>13. HasHeader(f.bytes, d)  BY <1>4, <1>7, <1>9 DEF Spells, HasLocals, HasHeader
<1>14. HasSlots(f.locals, d)  BY <1>3, <1>7
<1> QED  BY <1>11, <1>12, <1>13, <1>14 DEF Complete, f, p, h

LEMMA ObjectComplete ==
  ASSUME NEW d \in Declaration, ~ IsFunction(d), Plain(d), NEW c \in Sound, Translates(c, d),
         NEW big, Spells(c, d, big)
  PROVE  Complete(c, d, big)
<1>1. Base(d) = 0 /\ Len(c.bytes) \in Nat  BY SoundHas DEF Base
<1>2. Variables(d) = {}  BY DEF Plain, Symbols, Variables
<1>3. HasSlots(c.locals, d)  BY <1>2 DEF HasSlots
<1>4. Len(c.bytes) = Position(d, Len(d.text) + 1)  BY <1>1 DEF Translates
<1> QED  BY <1>1, <1>3, <1>4 DEF Complete, HasHeader, Spells

----------------------------------------------------------------------------
(***************************************************************************)
(* The bytes that the linker leaves: every relocation gets its operand and *)
(* nothing else is changed.                                                *)
(***************************************************************************)

\* What a relocation is resolved to depends on the chains of the buffer only.
LEMMA ResolvedAlike ==
  ASSUME NEW objs, NEW c, NEW e, NEW r, r.type \in DOMAIN SizeOf, r.type # "label",
         e.relocations = c.relocations, e.locals = c.locals
  PROVE  Resolved(objs, e, r) = Resolved(objs, c, r)
<1>1. r.type \in {"local", "jump", "handle"}  BY DEF SizeOf
<1>2. CASE r.type = "local"  BY <1>2 DEF Resolved
<1>3. CASE r.type = "jump"   BY <1>3 DEF Resolved, Delta
<1>4. CASE r.type = "handle"  BY <1>4 DEF Resolved
<1> QED  BY <1>1, <1>2, <1>3, <1>4

\* The bytes of the operand of a relocation.
Covers(r, k) == k - r.offset \in 1 .. SizeOf[r.type]
OperandByte(objs, c, r, k) == Encoded(Resolved(objs, c, r), SizeOf[r.type])[k - r.offset]

LEMMA ApplyBytes ==
  ASSUME NEW c \in Sound, NEW r \in Relocation, NEW value \in Int
  PROVE  LET e == AsmCodeApplyRelocation(c, r, value)
         IN  /\ Len(e.bytes) = Len(c.bytes)
             /\ \A k \in 1 .. Len(c.bytes) :
                  e.bytes[k] = IF Covers(r, k) THEN Encoded(value, SizeOf[r.type])[k - r.offset]
                                               ELSE c.bytes[k]
<1> DEFINE o == Encoded(value, SizeOf[r.type])
           b == [i \in DOMAIN c.bytes |-> IF i - r.offset \in DOMAIN o
                                          THEN o[i - r.offset] ELSE c.bytes[i]]
           e == AsmCodeApplyRelocation(c, r, value)
           n == Len(c.bytes)
<1>1. /\ c = [bytes |-> c.bytes, relocations |-> c.relocations, locals |-> c.locals]
      /\ c.bytes \in Seq(Byte) /\ n \in Nat /\ DOMAIN c.bytes = 1 .. n
  BY SoundHas
<1>2. e = [c EXCEPT !.bytes = b]  BY DEF AsmCodeApplyRelocation
<1>3. DOMAIN o = 1 .. SizeOf[r.type]
  <2>1. r.type \in DOMAIN SizeOf  BY DEF Relocation
  <2>2. SizeOf[r.type] \in {0, 1, 2, 4}  BY <2>1, Sizes
  <2>3. o \in Seq(Byte) /\ Len(o) = SizeOf[r.type]  BY <2>2, EncodedType
  <2> HIDE DEF o
  <2> QED  BY <2>3
<1> HIDE DEF o
<1>4. b = [i \in 1 .. n |-> b[i]]
      /\ \A k \in 1 .. n : b[k] = IF Covers(r, k) THEN o[k - r.offset] ELSE c.bytes[k]
  BY <1>1, <1>3 DEF Covers
<1> HIDE DEF b, e
<1>5. e.bytes = b  BY <1>1, <1>2
<1>6. Len(b) = n
  <2> HIDE DEF n
  <2> QED  BY <1>1, <1>4
<1> QED  BY <1>4, <1>5, <1>6 DEF o, e

LEMMA RelocateBytes ==
  ASSUME NEW objs \in Seq(Object), NEW c \in Sound, NEW p \in PassOf(c),
         NEW r \in Relocation, Within(c.relocations, Len(c.bytes)),
         \E j \in 1 .. Len(c.relocations) : r = c.relocations[j],
         Len(p.content.bytes) = Len(c.bytes),
         r.type # "label" => Resolvable(objs, c, r)
  PROVE  LET q == Relocate(objs, p, r)
         IN  /\ Len(q.content.bytes) = Len(c.bytes)
             /\ \A k \in 1 .. Len(c.bytes) :
                  q.content.bytes[k] = IF Covers(r, k) THEN OperandByte(objs, c, r, k)
                                                       ELSE p.content.bytes[k]
<1> DEFINE q == Relocate(objs, p, r)
           e == p.content
           value == Resolved(objs, c, r)
           new == AsmCodeApplyRelocation(e, r, value)
           applied == [p EXCEPT !.content = new]
<1>1. /\ p \in LinkPass /\ e \in Sound /\ Len(e.bytes) = Len(c.bytes)
      /\ e.relocations = c.relocations /\ e.locals = c.locals
      /\ p = [content |-> e, errors |-> p.errors]
  BY DEF PassOf, LinkPass
<1>2. r.type \in DOMAIN SizeOf  BY DEF Relocation
<1>3. CASE r.type = "label"  BY <1>1, <1>3 DEF Relocate, Covers, SizeOf
<1>4. CASE r.type # "label"
  <2>1. Resolvable(objs, e, r)  BY <1>1, <1>2, <1>4, ResolvableAlike
  <2>2. Resolved(objs, e, r) = value  BY <1>1, <1>2, <1>4, ResolvedAlike
  <2>3. Applies(e, r)  BY <1>1, <1>2, <1>4 DEF Within, SizeOf, Applies
  <2>4. q = [p EXCEPT !.content = AsmCodeApplyRelocation(e, r, Resolved(objs, e, r))]
    BY <1>4, <2>1, <2>3 DEF Relocate
  <2>5. q = applied  BY <2>2, <2>4
  <2>6. value \in Int  BY <1>4, ResolvedType
  <2> HIDE DEF value, e
  <2>7. /\ Len(new.bytes) = Len(e.bytes)
        /\ \A k \in 1 .. Len(e.bytes) :
             new.bytes[k] = IF Covers(r, k) THEN Encoded(value, SizeOf[r.type])[k - r.offset]
                                            ELSE e.bytes[k]
    BY <1>1, <2>6, ApplyBytes
  <2> HIDE DEF new
  <2>8. applied.content = new  BY <1>1
  <2> HIDE DEF applied, q
  <2> QED  BY <1>1, <2>5, <2>7, <2>8 DEF OperandByte, value, e, q
<1> QED  BY <1>3, <1>4

\* A byte has one relocation at most.
Exclusive(relocations, n) ==
  \A i, j \in 1 .. Len(relocations) : \A k \in 1 .. n :
    Covers(relocations[i], k) /\ Covers(relocations[j], k) => relocations[i] = relocations[j]

LEMMA LinkObjectBytes ==
  ASSUME NEW objs \in Seq(Object), NEW c \in Sound, AllResolve(objs, c),
         Exclusive(c.relocations, Len(c.bytes))
  PROVE  LET e == AsmLinkObject(objs, c).content
         IN  /\ Len(e.bytes) = Len(c.bytes) /\ e.locals = c.locals
             /\ \A k \in 1 .. Len(c.bytes) :
                  /\ (\A j \in 1 .. Len(c.relocations) : ~ Covers(c.relocations[j], k))
                       => e.bytes[k] = c.bytes[k]
                  /\ \A j \in 1 .. Len(c.relocations) :
                       Covers(c.relocations[j], k)
                         => e.bytes[k] = OperandByte(objs, c, c.relocations[j], k)
<1> DEFINE rs == c.relocations
           n == Len(rs)
           l == Len(c.bytes)
<1>1. PICK pass : /\ AsmLinkObject(objs, c) = pass[n]
                  /\ pass[0] = [content |-> c, errors |-> 0]
                  /\ \A i \in 1 .. n : pass[i] = Relocate(objs, pass[i - 1], rs[i])
  BY LinkObjectRuns
<1>2. n \in Nat /\ Within(rs, l) /\ \A j \in 1 .. n : rs[j] \in Relocation  BY SoundHas
<1>3. \A i \in 1 .. n : \A p \in PassOf(c) : Relocate(objs, p, rs[i]) \in PassOf(c)
  BY RelocateCounts
<1>4. \A j \in 1 .. n : rs[j].type # "label" => Resolvable(objs, c, rs[j])
  BY DEF AllResolve
<1>5. \A i \in 1 .. n : \A p \in PassOf(c) : Len(p.content.bytes) = l =>
        LET q == Relocate(objs, p, rs[i])
        IN  /\ Len(q.content.bytes) = l
            /\ \A k \in 1 .. l :
                 q.content.bytes[k] = IF Covers(rs[i], k) THEN OperandByte(objs, c, rs[i], k)
                                                          ELSE p.content.bytes[k]
  BY <1>2, <1>4, RelocateBytes
<1>6. pass[0] \in PassOf(c) /\ pass[0].content = c
  BY <1>1 DEF PassOf, LinkPass
<1>7. \A i, j \in 1 .. n : \A k \in 1 .. l :
        Covers(rs[i], k) /\ Covers(rs[j], k) => rs[i] = rs[j]
  BY DEF Exclusive
<1> DEFINE Unchanged(m, k) == (\A j \in 1 .. m : ~ Covers(rs[j], k))
                                => pass[m].content.bytes[k] = c.bytes[k]
           Resolves(m, k) == \A j \in 1 .. m :
             Covers(rs[j], k) => pass[m].content.bytes[k] = OperandByte(objs, c, rs[j], k)
           P == {m \in 0 .. n : /\ pass[m] \in PassOf(c) /\ Len(pass[m].content.bytes) = l
                                /\ \A k \in 1 .. l : Unchanged(m, k) /\ Resolves(m, k)}
<1> HIDE DEF rs, n, l
<1>8. 0 \in P  BY <1>2, <1>6 DEF l
<1>9. \A m \in 1 .. n : m - 1 \in P => m \in P
  <2> SUFFICES ASSUME NEW m \in 1 .. n, m - 1 \in P PROVE m \in P  OBVIOUS
  <2> DEFINE p == pass[m - 1]
             q == pass[m]
  <2>1. /\ p \in PassOf(c) /\ Len(p.content.bytes) = l
        /\ \A k \in 1 .. l : Unchanged(m - 1, k) /\ Resolves(m - 1, k)
    OBVIOUS
  <2>2. q = Relocate(objs, p, rs[m])  BY <1>1 DEF rs, n
  <2> HIDE DEF p, q
  <2>3. q \in PassOf(c)  BY <1>3, <2>1, <2>2
  <2>4. /\ Len(q.content.bytes) = l
        /\ \A k \in 1 .. l :
             q.content.bytes[k] = IF Covers(rs[m], k) THEN OperandByte(objs, c, rs[m], k)
                                                      ELSE p.content.bytes[k]
    BY <1>5, <2>1, <2>2
  <2>5. /\ \A j \in 1 .. m : j = m \/ j \in 1 .. m - 1
        /\ \A j \in 1 .. m - 1 : j \in 1 .. m /\ j \in 1 .. n
        /\ m \in 1 .. m /\ m \in 0 .. n
    BY <1>2
  <2>6. ASSUME NEW k \in 1 .. l PROVE Unchanged(m, k) /\ Resolves(m, k)
    <3>1. q.content.bytes[k] = IF Covers(rs[m], k) THEN OperandByte(objs, c, rs[m], k)
                                                   ELSE p.content.bytes[k]
      BY <2>4
    <3>2. Unchanged(m - 1, k) /\ Resolves(m - 1, k)  BY <2>1
    <3>3. Unchanged(m, k)  BY <2>5, <3>1, <3>2 DEF q, p
    <3>4. Resolves(m, k)
      <4> SUFFICES ASSUME NEW j \in 1 .. m, Covers(rs[j], k)
                   PROVE  q.content.bytes[k] = OperandByte(objs, c, rs[j], k)
        BY DEF q
      <4>1. CASE Covers(rs[m], k)  BY <1>7, <2>5, <3>1, <4>1
      <4>2. CASE ~ Covers(rs[m], k)  BY <2>5, <3>1, <3>2, <4>2 DEF p
      <4> QED  BY <4>1, <4>2
    <3> QED  BY <3>3, <3>4
  <2> HIDE DEF Unchanged, Resolves
  <2> QED  BY <2>3, <2>4, <2>5, <2>6 DEF q
<1> HIDE DEF P
<1>10. \A m \in 0 .. n : m \in P  BY <1>2, <1>8, <1>9, CountingUp
<1>11. n \in P  BY <1>2, <1>10
<1>12. /\ pass[n] \in PassOf(c) /\ Len(pass[n].content.bytes) = l
       /\ \A k \in 1 .. l : Unchanged(n, k) /\ Resolves(n, k)
  BY <1>11 DEF P
<1>13. pass[n].content.locals = c.locals  BY <1>12 DEF PassOf
<1> QED  BY <1>1, <1>12, <1>13 DEF rs, n, l

----------------------------------------------------------------------------
(***************************************************************************)
(* A linked declaration.                                                   *)
(***************************************************************************)

HandleIn(objs, name) == objs[CHOOSE m \in DOMAIN objs : objs[m].name = name].handle

\* What the operand of item i is to be, when it is a reference.
Target(objs, d, i) ==
  LET symbol == d.text[i].symbol
  IN  CASE d.text[i].kind = "local" -> Slot(d, symbol)
        [] d.text[i].kind = "jump"  ->
             (LabelPosition(d, symbol) - (Position(d, i) + 1)) % 65536
        [] d.text[i].kind \in {"call", "handle"} -> HandleIn(objs, symbol)

OperandSize(item) == SizeOf[RelocationType[item.kind]]
References(d) == {i \in Refs(d) : d.text[i].kind # "label"}

Linked(bytes, objs, d, big) ==
  /\ Len(bytes) = Position(d, Len(d.text) + 1)
  /\ HasHeader(bytes, d)
  /\ \A i \in 1 .. Len(d.text) : \A j \in 1 .. TextSize(d.text[i]) :
       (i \in References(d) => j <= Shift(d.text[i]))
         => bytes[Position(d, i) + j] = ItemBytesAs(d.text[i], big)[j]
  /\ \A i \in References(d) :
       /\ \A m \in 1 .. OperandSize(d.text[i]) :
            bytes[OperandAt(d, i) + m]
              = EncodedAs(Target(objs, d, i), OperandSize(d.text[i]), big)[m]
       /\ d.text[i].kind = "local" => Target(objs, d, i) \in Byte

\* The operand of a reference is the rest of its item.
LEMMA ReferenceSizes ==
  ASSUME NEW d \in Declaration, NEW i \in References(d)
  PROVE  /\ i \in 1 .. Len(d.text) /\ d.text[i].symbol # ""
         /\ d.text[i].kind \in {"jump", "local", "call", "handle"}
         /\ RelocationType[d.text[i].kind] \in DOMAIN SizeOf
         /\ RelocationType[d.text[i].kind] # "label"
         /\ OperandSize(d.text[i]) \in {1, 2, 4} /\ Shift(d.text[i]) \in {0, 1}
         /\ TextSize(d.text[i]) = Shift(d.text[i]) + OperandSize(d.text[i])
         /\ Position(d, i) \in Nat /\ OperandAt(d, i) = Position(d, i) + Shift(d.text[i])
<1> DEFINE item == d.text[i]
           k == item.kind
<1>1. /\ i \in 1 .. Len(d.text) /\ item.symbol # "" /\ k \in RelocatedKinds /\ k # "label"
  BY DEF References, Refs, Relocated
<1>2. k \in {"jump", "local", "call", "handle"}  BY <1>1 DEF RelocatedKinds
<1>3. item \in Items  BY <1>1, DeclarationHas
<1>4. Position(d, i) \in Nat  BY <1>1, ItemWithin
<1>5. /\ RelocationType[k] \in DOMAIN SizeOf /\ RelocationType[k] # "label"
  BY <1>1, RelocationTypes
<1>6. /\ OperandSize(item) \in {1, 2, 4} /\ Shift(item) \in {0, 1}
      /\ TextSize(item) = Shift(item) + OperandSize(item)
  <2>1. CASE k = "jump"
    <3>1. TextSize(item) = 3  BY <1>3, <2>1, TextSizes
    <3> QED  BY <2>1, <3>1 DEF OperandSize, RelocationType, SizeOf, Shift
  <2>2. CASE k = "local"
    <3>1. TextSize(item) = 2  BY <1>3, <2>2, TextSizes
    <3> QED  BY <2>2, <3>1 DEF OperandSize, RelocationType, SizeOf, Shift
  <2>3. CASE k = "call"
    <3>1. TextSize(item) = 5  BY <1>3, <2>3, TextSizes
    <3> QED  BY <2>3, <3>1 DEF OperandSize, RelocationType, SizeOf, Shift
  <2>4. CASE k = "handle"
    <3>1. TextSize(item) = 4  BY <1>3, <2>4, TextSizes
    <3> QED  BY <2>4, <3>1 DEF OperandSize, RelocationType, SizeOf, Shift
  <2> QED  BY <1>2, <2>1, <2>2, <2>3, <2>4
<1> QED  BY <1>1, <1>2, <1>4, <1>5, <1>6 DEF OperandAt

\* The bytes that the relocation of item i covers belong to this item.
LEMMA CoveredBytes ==
  ASSUME NEW d \in Declaration, NEW i \in Refs(d), NEW r \in Relocation, IsFor(r, d, i, 0),
         NEW k \in Nat, Covers(r, k)
  PROVE  /\ ByteOfItem(d, i, k) /\ i \in References(d)
         /\ r.offset = OperandAt(d, i) /\ SizeOf[r.type] = OperandSize(d.text[i])
         /\ k - OperandAt(d, i) \in 1 .. OperandSize(d.text[i])
<1>1. /\ r.type = RelocationType[d.text[i].kind] /\ r.offset \in Nat
      /\ r.offset + 0 = OperandAt(d, i)
  BY DEF IsFor, Relocation
<1>2. r.type # "label"
  <2>1. SizeOf["label"] = 0  BY DEF SizeOf
  <2> QED  BY <2>1 DEF Covers
<1>3. d.text[i].kind # "label"  BY <1>1, <1>2 DEF RelocationType
<1>4. i \in References(d)  BY <1>3 DEF References
<1> DEFINE p == Position(d, i)
           h == Shift(d.text[i])
           s == OperandSize(d.text[i])
<1>5. /\ i \in 1 .. Len(d.text) /\ p \in Nat /\ h \in {0, 1} /\ s \in {1, 2, 4}
      /\ TextSize(d.text[i]) = h + s /\ OperandAt(d, i) = p + h
  BY <1>4, ReferenceSizes
<1>6. p + TextSize(d.text[i]) = Position(d, i + 1)  BY <1>5, ItemWithin
<1>7. SizeOf[r.type] = s  BY <1>1 DEF OperandSize
<1>8. k - r.offset \in 1 .. s  BY <1>7 DEF Covers
<1> DEFINE o == r.offset
           e == Position(d, i + 1)
           a == OperandAt(d, i)
<1>9. o \in Nat /\ o + 0 = a /\ a = p + h /\ e = p + (h + s)  BY <1>1, <1>5, <1>6
<1>10. k - o \in 1 .. s  BY <1>8
<1> HIDE DEF p, h, s, o, e, a
<1>11. o = a /\ k \in p + 1 .. e /\ k - a \in 1 .. s
  <2>1. p \in Nat /\ h \in Nat /\ s \in Nat  BY <1>5 DEF p, h, s
  <2>2. o = p + h  BY <1>9, <2>1
  <2> QED  BY <1>9, <1>10, <2>1, <2>2
<1> QED  BY <1>4, <1>7, <1>11 DEF ByteOfItem, p, e, a, o, s

\* The relocations of a declaration do not overlap.
LEMMA RecordsExclusive ==
  ASSUME NEW d \in Declaration, NEW rs \in Seq(Relocation), Records(rs, d, 0), NEW n \in Nat
  PROVE  Exclusive(rs, n)
<1> SUFFICES ASSUME NEW x \in 1 .. Len(rs), NEW y \in 1 .. Len(rs), NEW k \in 1 .. n,
                    Covers(rs[x], k), Covers(rs[y], k)
             PROVE  rs[x] = rs[y]
  BY DEF Exclusive
<1> DEFINE r == rs[x]
           s == rs[y]
<1>1. r \in Relocation /\ s \in Relocation /\ k \in Nat  OBVIOUS
<1>2. PICK i \in Refs(d) : IsFor(r, d, i, 0)  BY DEF Records
<1>3. PICK j \in Refs(d) : IsFor(s, d, j, 0)  BY DEF Records
<1>4. Covers(r, k) /\ Covers(s, k)  OBVIOUS
<1> HIDE DEF r, s
<1>5. ByteOfItem(d, i, k) /\ r.offset = OperandAt(d, i)  BY <1>1, <1>2, <1>4, CoveredBytes
<1>6. ByteOfItem(d, j, k) /\ s.offset = OperandAt(d, j)  BY <1>1, <1>3, <1>4, CoveredBytes
<1>7. i \in 1 .. Len(d.text) /\ j \in 1 .. Len(d.text)  BY DEF Refs
<1>8. i = j  BY <1>5, <1>6, <1>7, OneItem
<1>9. r.type = s.type /\ r.symbol = s.symbol  BY <1>2, <1>3, <1>8 DEF IsFor
<1>10. r = s  BY <1>1, <1>5, <1>6, <1>8, <1>9 DEF Relocation
<1> QED  BY <1>10 DEF r, s

\* With distinct names the linker finds the object of that name.
DistinctNames(objs) == \A i, j \in 1 .. Len(objs) : objs[i].name = objs[j].name => i = j

LEMMA LookupHandle ==
  ASSUME NEW objs \in Seq(Object), DistinctNames(objs), NEW name, Lookup(objs, name) # 0
  PROVE  objs[Lookup(objs, name)].handle = HandleIn(objs, name)
<1> DEFINE i == Lookup(objs, name)
           m == CHOOSE m \in DOMAIN objs : objs[m].name = name
<1>1. Len(objs) \in Nat /\ DOMAIN objs = 1 .. Len(objs)  OBVIOUS
<1>2. i \in 1 .. Len(objs) /\ objs[i].name = name  BY <1>1, LookupFinds
<1>3. m \in 1 .. Len(objs) /\ objs[m].name = name
  <2> HIDE DEF i
  <2> QED  BY <1>1, <1>2
<1> HIDE DEF i, m
<1>4. i = m  BY <1>2, <1>3 DEF DistinctNames
<1> QED  BY <1>4 DEF HandleIn, i, m

\* A reference is resolved to what the source says.
LEMMA ResolvedToTarget ==
  ASSUME NEW d \in Declaration, NEW c \in Sound, Finished(c, d), HasSlots(c.locals, d),
         Once(d, "label"), NEW objs \in Seq(Object), DistinctNames(objs),
         NEW i \in References(d), NEW r \in Relocation, IsFor(r, d, i, 0),
         Resolvable(objs, c, r)
  PROVE  /\ Resolved(objs, c, r) = Target(objs, d, i)
         /\ d.text[i].kind = "local" => Target(objs, d, i) \in Byte
<1> DEFINE k == d.text[i].kind
           s == d.text[i].symbol
<1>1. /\ i \in 1 .. Len(d.text) /\ k \in {"jump", "local", "call", "handle"}
      /\ r.type = RelocationType[k] /\ r.symbol = s
  BY ReferenceSizes DEF IsFor
<1>2. /\ Records(c.relocations, d, 0) /\ NamesOf(c.locals) = Variables(d)
  BY DEF Finished
<1>3. Len(c.locals) \in Nat /\ c.locals \in Seq(Variable)  BY SoundHas
<1>4. k \in RelocatedKinds  BY <1>1 DEF RelocatedKinds
<1>5. CASE k = "local"
  <2>1. r.type = "local"  BY <1>1, <1>4, <1>5, RelocationTypes
  <2> DEFINE l == c.locals
             x == Lookup(l, s)
  <2>2. x # 0 /\ Resolved(objs, c, r) = l[x].index
    BY <1>1, <2>1 DEF Resolvable, Resolved
  <2>3. l \in Seq(Variable) /\ Len(l) \in Nat /\ NamesOf(l) = Variables(d) /\ HasSlots(l, d)
    BY <1>2, <1>3
  <2> HIDE DEF l
  <2>4. x \in 1 .. Len(l) /\ s \in Variables(d)  BY <2>2, <2>3, LookupFinds
  <2>5. l[x].index = Slot(d, s)  BY <2>3, <2>4 DEF HasSlots
  <2>6. l[x].index \in Byte
    <3> HIDE DEF x
    <3>1. l[x] \in Variable  BY <2>3, <2>4
    <3> QED  BY <3>1 DEF Variable
  <2>7. Target(objs, d, i) = Slot(d, s)  BY <1>5 DEF Target
  <2> QED  BY <2>2, <2>5, <2>6, <2>7
<1>6. CASE k \in {"call", "handle"}
  <2>1. r.type = "handle"  BY <1>1, <1>4, <1>6, RelocationTypes
  <2>2. Lookup(objs, s) # 0 /\ Resolved(objs, c, r) = objs[Lookup(objs, s)].handle
    BY <1>1, <2>1 DEF Resolvable, Resolved
  <2>3. Target(objs, d, i) = HandleIn(objs, s)  BY <1>6 DEF Target
  <2> QED  BY <1>6, <2>2, <2>3, LookupHandle
<1>7. CASE k = "jump"
  <2>1. r.type = "jump"  BY <1>1, <1>4, <1>7, RelocationTypes
  <2>2. /\ AsmRelocationsFindLabel(c.relocations, s) # 0
        /\ Resolved(objs, c, r) = Delta(c, r) % 65536
    BY <1>1, <2>1 DEF Resolvable, Resolved
  <2>3. i \in Uses(d, "jump")  BY <1>1, <1>7, DeclarationHas DEF Uses
  <2>4. Delta(c, r) = LabelPosition(d, s) - (Position(d, i) + 1)
    BY <1>2, <2>2, <2>3, LabelFound
  <2>5. Target(objs, d, i) = (LabelPosition(d, s) - (Position(d, i) + 1)) % 65536
    BY <1>7 DEF Target
  <2> QED  BY <1>7, <2>2, <2>4, <2>5
<1> QED  BY <1>1, <1>5, <1>6, <1>7

\* Linking puts into every reference what it is to be, and changes nothing else.
LEMMA LinkedDeclaration ==
  ASSUME NEW d \in Declaration, NEW c \in Sound, Finished(c, d), Complete(c, d, bigEndian),
         Once(d, "label"), NEW objs \in Seq(Object), DistinctNames(objs), AllResolve(objs, c)
  PROVE  Linked(AsmLinkObject(objs, c).content.bytes, objs, d, bigEndian)
<1> DEFINE e == AsmLinkObject(objs, c).content.bytes
           b == c.bytes
           rs == c.relocations
           l == Len(b)
           end == Position(d, Len(d.text) + 1)
<1>1. /\ rs \in Seq(Relocation) /\ b \in Seq(Byte) /\ l \in Nat /\ Len(rs) \in Nat
      /\ \A j \in 1 .. Len(rs) : rs[j] \in Relocation
  BY SoundHas
<1>2. Records(rs, d, 0)  BY DEF Finished
<1>3. /\ l = end /\ HasHeader(b, d) /\ HasText(b, d, 0, bigEndian) /\ HasSlots(c.locals, d)
  BY DEF Complete
<1>4. Exclusive(rs, l)  BY <1>1, <1>2, RecordsExclusive
<1>5. /\ Len(e) = l
      /\ \A k \in 1 .. l :
           /\ (\A j \in 1 .. Len(rs) : ~ Covers(rs[j], k)) => e[k] = b[k]
           /\ \A j \in 1 .. Len(rs) : Covers(rs[j], k) => e[k] = OperandByte(objs, c, rs[j], k)
  BY <1>4, LinkObjectBytes
<1>6. ASSUME NEW j \in 1 .. Len(rs), NEW k \in 1 .. l, Covers(rs[j], k)
      PROVE  \E i \in References(d) :
               /\ ByteOfItem(d, i, k) /\ IsFor(rs[j], d, i, 0)
               /\ k - OperandAt(d, i) \in 1 .. OperandSize(d.text[i])
  BY <1>1, <1>2, <1>6, CoveredBytes DEF Records
<1> HIDE DEF e, b, rs, l
<1>7. HasHeader(e, d)
  <2> SUFFICES ASSUME IsFunction(d) PROVE HasHeader(e, d)  BY DEF HasHeader
  <2>1. Base(d) = 4  BY DEF Base
  <2>2. 4 <= l  BY <1>3, <2>1, DeclarationHas, Positions, PositionsRise
  <2>3. ASSUME NEW k \in 1 .. 4 PROVE e[k] = b[k]
    <3>1. k \in 1 .. l  BY <1>1, <2>2
    <3>2. ASSUME NEW j \in 1 .. Len(rs), Covers(rs[j], k) PROVE FALSE
      <4>1. PICK i \in References(d) : ByteOfItem(d, i, k)  BY <1>6, <3>1, <3>2
      <4>2. i \in 1 .. Len(d.text)  BY ReferenceSizes
      <4>3. 4 <= Position(d, i) /\ Position(d, i) \in Nat  BY <2>1, <4>2, ItemWithin
      <4>4. Position(d, i) + 1 <= k  BY <4>1 DEF ByteOfItem
      <4> QED  BY <4>3, <4>4
    <3> QED  BY <1>5, <3>1, <3>2
  <2>4. e[1] = b[1] /\ e[2] = b[2] /\ e[3] = b[3] /\ e[4] = b[4]
    BY <2>3
  <2> QED  BY <1>3, <2>4 DEF HasHeader
<1>8. ASSUME NEW i \in 1 .. Len(d.text), NEW j \in 1 .. TextSize(d.text[i]),
             i \in References(d) => j <= Shift(d.text[i])
      PROVE  e[Position(d, i) + j] = ItemBytesAs(d.text[i], bigEndian)[j]
  <2> DEFINE p == Position(d, i)
             s == TextSize(d.text[i])
             k == p + j
  <2>1. p \in Nat /\ s \in Nat /\ p + s = Position(d, i + 1) /\ p + s <= end /\ end \in Nat
    BY ItemWithin
  <2>2. j \in Nat /\ 1 <= j /\ j <= s  BY <2>1
  <2>3. k \in 1 .. l /\ k \in p + 1 .. p + s
    <3> HIDE DEF p, s, end
    <3> QED  BY <1>3, <2>1, <2>2
  <2>4. b[p - 0 + j] = ItemBytesAs(d.text[i], bigEndian)[j]  BY <1>3 DEF HasText, HasItem
  <2>5. p - 0 + j = k  BY <2>1, <2>2
  <2>6. ByteOfItem(d, i, k)  BY <2>1, <2>3 DEF ByteOfItem
  <2>7. ASSUME NEW m \in 1 .. Len(rs), Covers(rs[m], k) PROVE FALSE
    <3>1. PICK x \in References(d) : /\ ByteOfItem(d, x, k)
                                     /\ k - OperandAt(d, x) \in 1 .. OperandSize(d.text[x])
      BY <1>6, <2>3, <2>7
    <3>2. x \in 1 .. Len(d.text)  BY ReferenceSizes
    <3>3. x = i  BY <2>6, <3>1, <3>2, OneItem
    <3>4. OperandAt(d, i) = p + Shift(d.text[i]) /\ Shift(d.text[i]) \in Nat
      <4>1. i \in References(d)  BY <3>3
      <4>2. OperandAt(d, i) = Position(d, i) + Shift(d.text[i]) /\ Shift(d.text[i]) \in {0, 1}
        BY <4>1, ReferenceSizes
      <4> QED  BY <4>2
    <3>5. j <= Shift(d.text[i])  BY <1>8, <3>3
    <3> DEFINE h == Shift(d.text[i])
    <3>6. k - (p + h) \in 1 .. OperandSize(d.text[i])  BY <3>1, <3>3, <3>4
    <3>7. k - (p + h) >= 1  BY <3>6
    <3> HIDE DEF p, h
    <3>8. j <= h /\ h \in Nat  BY <3>4, <3>5 DEF h
    <3> QED  BY <2>1, <2>2, <3>7, <3>8
  <2> HIDE DEF k, p
  <2>8. e[k] = b[k]  BY <1>5, <2>3, <2>7
  <2>9. e[k] = ItemBytesAs(d.text[i], bigEndian)[j]  BY <2>4, <2>5, <2>8
  <2> QED  BY <2>9 DEF k, p
<1>9. ASSUME NEW i \in References(d)
      PROVE  /\ \A m \in 1 .. OperandSize(d.text[i]) :
                  e[OperandAt(d, i) + m]
                    = EncodedAs(Target(objs, d, i), OperandSize(d.text[i]), bigEndian)[m]
             /\ d.text[i].kind = "local" => Target(objs, d, i) \in Byte
  <2>1. i \in Refs(d)  BY DEF References
  <2>2. PICK x \in 1 .. Len(rs) : IsFor(rs[x], d, i, 0)  BY <1>2, <2>1 DEF Records
  <2> DEFINE r == rs[x]
             n == OperandSize(d.text[i])
             a == OperandAt(d, i)
  <2>3. /\ i \in 1 .. Len(d.text) /\ n \in {1, 2, 4} /\ Shift(d.text[i]) \in {0, 1}
        /\ TextSize(d.text[i]) = Shift(d.text[i]) + n
        /\ Position(d, i) \in Nat /\ a = Position(d, i) + Shift(d.text[i])
        /\ RelocationType[d.text[i].kind] # "label"
    BY ReferenceSizes
  <2>4. r \in Relocation /\ IsFor(r, d, i, 0)  BY <1>1, <2>2
  <2> HIDE DEF r, n, a
  <2>5. r.type = RelocationType[d.text[i].kind] /\ r.offset \in Nat /\ r.offset + 0 = a
    BY <2>4 DEF IsFor, Relocation, a
  <2>6. r.offset = a /\ SizeOf[r.type] = n  BY <2>5 DEF OperandSize, n
  <2>7. Resolvable(objs, c, r)
    <3>1. r.type # "label"  BY <2>3, <2>5
    <3> QED  BY <3>1 DEF AllResolve, rs, r
  <2>8. /\ Resolved(objs, c, r) = Target(objs, d, i)
        /\ d.text[i].kind = "local" => Target(objs, d, i) \in Byte
    BY <1>3, <2>4, <2>7, ResolvedToTarget
  <2>9. ASSUME NEW m \in 1 .. n
        PROVE  e[a + m] = EncodedAs(Target(objs, d, i), n, bigEndian)[m]
    <3> DEFINE k == a + m
               p == Position(d, i)
               h == Shift(d.text[i])
               s == TextSize(d.text[i])
    <3>1. p \in Nat /\ s \in Nat /\ p + s <= end /\ end \in Nat  BY <2>3, ItemWithin
    <3>2. s = h + n /\ a = p + h /\ h \in Nat /\ n \in Nat  BY <2>3
    <3>3. m \in Nat /\ 1 <= m /\ m <= n  BY <3>2
    <3>4. k \in 1 .. l /\ k - a = m
      <4> HIDE DEF p, h, s, end
      <4> QED  BY <1>3, <3>1, <3>2, <3>3
    <3> HIDE DEF k
    <3>5. Covers(r, k)  BY <2>6, <3>4 DEF Covers
    <3>6. e[k] = OperandByte(objs, c, r, k)  BY <1>5, <3>4, <3>5 DEF r
    <3>7. OperandByte(objs, c, r, k) = Encoded(Target(objs, d, i), n)[m]
      BY <2>6, <2>8, <3>4 DEF OperandByte
    <3>8. Encoded(Target(objs, d, i), n) = EncodedAs(Target(objs, d, i), n, bigEndian)
      BY EncodedSame
    <3>9. e[k] = EncodedAs(Target(objs, d, i), n, bigEndian)[m]  BY <3>6, <3>7, <3>8
    <3> QED  BY <3>9 DEF k
  <2> QED  BY <2>8, <2>9 DEF n, a
<1>10. Len(e) = end  BY <1>3, <1>5
<1> HIDE DEF end
<1> QED  BY <1>7, <1>8, <1>9, <1>10 DEF Linked, e, end

----------------------------------------------------------------------------
(***************************************************************************)
(* What the machine reads in a linked declaration.                         *)
(***************************************************************************)

\* An item with a value has the digits of the value behind its first h bytes.
HasValue(item, h, n) ==
  \/ h = 1 /\ n = 4 /\ item.kind = "imm"
  \/ h = 1 /\ n = 2 /\ item.kind = "jump" /\ item.symbol = ""
  \/ h = 1 /\ n = 1 /\ item.kind = "local" /\ item.symbol = ""
  \/ h = 1 /\ n = 4 /\ item.kind = "call" /\ item.symbol = ""
  \/ h = 0 /\ n = 4 /\ item.kind = "handle" /\ item.symbol = ""
  \/ h = 0 /\ n = 4 /\ item.kind = "word"

LEMMA ByteBefore ==
  ASSUME NEW o \in Byte, NEW t \in Seq(Byte)
  PROVE  /\ (<<o>> \o t)[1] = o
         /\ \A m \in 1 .. Len(t) : (<<o>> \o t)[1 + m] = t[m]
<1>1. <<o>> \in Seq(Byte) /\ Len(<<o>>) = 1 /\ <<o>>[1] = o  BY OneByte
<1> DEFINE s == <<o>>
<1>2. s \in Seq(Byte) /\ Len(s) = 1 /\ s[1] = o  BY <1>1
<1> HIDE DEF s
<1>3. /\ \A i \in 1 .. Len(s) : (s \o t)[i] = s[i]
      /\ \A i \in 1 .. Len(t) : (s \o t)[Len(s) + i] = t[i]
  <2>1. s \in Seq(Byte)  BY <1>2
  <2> QED  BY <2>1, Concat
<1> QED  BY <1>2, <1>3 DEF s

LEMMA OpCodeFirst ==
  ASSUME NEW item \in Items, item.kind \in DOMAIN OpCode
  PROVE  ItemBytes(item)[1] = OpCode[item.kind] /\ TextSize(item) >= 1
<1> DEFINE k == item.kind
           o == OpCode[k]
<1>1. k \in {"op", "imm", "jump", "local", "call"} /\ o \in Byte
  BY DEF OpCode, Byte
<1>2. item.value \in Int  BY ItemHas
<1>3. \A n \in {0, 1, 2, 4} : Operand(item, n) \in Seq(Byte) /\ Encoded(item.value, n) \in Seq(Byte)
  BY <1>2, OperandType, EncodedType
<1>4. \A t \in Seq(Byte) : (<<o>> \o t)[1] = o  BY <1>1, ByteBefore
<1>5. CASE k = "op"  BY <1>5, TextSizes DEF ItemBytes, o
<1>6. CASE k = "imm"  BY <1>3, <1>4, <1>6, TextSizes DEF ItemBytes
<1>7. CASE k = "jump"  BY <1>3, <1>4, <1>7, TextSizes DEF ItemBytes
<1>8. CASE k = "local"  BY <1>3, <1>4, <1>8, TextSizes DEF ItemBytes
<1>9. CASE k = "call"  BY <1>3, <1>4, <1>9, TextSizes DEF ItemBytes
<1> QED  BY <1>1, <1>5, <1>6, <1>7, <1>8, <1>9

LEMMA ValueBytes ==
  ASSUME NEW item \in Items, NEW h, NEW n, HasValue(item, h, n)
  PROVE  /\ h \in {0, 1} /\ n \in {1, 2, 4} /\ TextSize(item) = h + n
         /\ \A m \in 1 .. n : ItemBytes(item)[h + m] = Encoded(item.value, n)[m]
<1> DEFINE k == item.kind
           o == OpCode[k]
           t == Encoded(item.value, n)
<1>1. item.value \in Int  BY ItemHas
<1>2. h \in {0, 1} /\ n \in {1, 2, 4}  BY DEF HasValue
<1>3. t \in Seq(Byte) /\ Len(t) = n  BY <1>1, <1>2, EncodedType
<1>4. item.symbol = "" => Operand(item, n) = t  BY DEF Operand
<1>5. /\ TextSize(item) = h + n
      /\ h = 1 => k \in {"imm", "jump", "local", "call"} /\ ItemBytes(item) = <<o>> \o t
      /\ h = 0 => ItemBytes(item) = t
  <2>1. CASE k = "imm"  BY <2>1, TextSizes DEF HasValue, ItemBytes
  <2>2. CASE k = "jump"
    <3>1. h = 1 /\ n = 2  BY <2>2 DEF HasValue
    <3>2. item.symbol = ""  BY <2>2 DEF HasValue
    <3>3. TextSize(item) = 3  BY <2>2, TextSizes
    <3>4. ItemBytes(item) = <<o>> \o Operand(item, 2)  BY <2>2 DEF ItemBytes
    <3>5. ItemBytes(item) = <<o>> \o t  BY <1>4, <3>1, <3>4, <3>2
    <3>6. k \in {"imm", "jump", "local", "call"} <=> h = 1  BY <2>2, <3>1
    <3>7. TextSize(item) = h + n  BY <3>1, <3>3
    <3> HIDE DEF k, o, t
    <3> QED  BY <3>1, <3>5, <3>6, <3>7
  <2>3. CASE k = "local"
    <3>1. h = 1 /\ n = 1  BY <2>3 DEF HasValue
    <3>2. item.symbol = ""  BY <2>3 DEF HasValue
    <3>3. TextSize(item) = 2  BY <2>3, TextSizes
    <3>4. ItemBytes(item) = <<o>> \o Operand(item, 1)  BY <2>3 DEF ItemBytes
    <3>5. ItemBytes(item) = <<o>> \o t  BY <1>4, <3>1, <3>4, <3>2
    <3>6. k \in {"imm", "jump", "local", "call"} <=> h = 1  BY <2>3, <3>1
    <3>7. TextSize(item) = h + n  BY <3>1, <3>3
    <3> HIDE DEF k, o, t
    <3> QED  BY <3>1, <3>5, <3>6, <3>7
  <2>4. CASE k = "call"
    <3>1. h = 1 /\ n = 4  BY <2>4 DEF HasValue
    <3>2. item.symbol = ""  BY <2>4 DEF HasValue
    <3>3. TextSize(item) = 5  BY <2>4, TextSizes
    <3>4. ItemBytes(item) = <<o>> \o Operand(item, 4)  BY <2>4 DEF ItemBytes
    <3>5. ItemBytes(item) = <<o>> \o t  BY <1>4, <3>1, <3>4, <3>2
    <3>6. k \in {"imm", "jump", "local", "call"} <=> h = 1  BY <2>4, <3>1
    <3>7. TextSize(item) = h + n  BY <3>1, <3>3
    <3> HIDE DEF k, o, t
    <3> QED  BY <3>1, <3>5, <3>6, <3>7
  <2>5. CASE k = "handle"
    <3>1. h = 0 /\ n = 4  BY <2>5 DEF HasValue
    <3>2. item.symbol = ""  BY <2>5 DEF HasValue
    <3>3. TextSize(item) = 4  BY <2>5, TextSizes
    <3>4. ItemBytes(item) = Operand(item, 4)  BY <2>5 DEF ItemBytes
    <3>5. ItemBytes(item) = t  BY <1>4, <3>1, <3>4, <3>2
    <3>6. k \in {"imm", "jump", "local", "call"} <=> h = 1  BY <2>5, <3>1
    <3>7. TextSize(item) = h + n  BY <3>1, <3>3
    <3> HIDE DEF k, o, t
    <3> QED  BY <3>1, <3>5, <3>6, <3>7
  <2>6. CASE k = "word"  BY <2>6, TextSizes DEF HasValue, ItemBytes
  <2> QED  BY <2>1, <2>2, <2>3, <2>4, <2>5, <2>6 DEF HasValue
<1>6. CASE h = 1
  <2>1. k \in {"imm", "jump", "local", "call"}  BY <1>5, <1>6
  <2>2. ItemBytes(item) = <<o>> \o t  BY <1>5, <1>6
  <2>3. o \in Byte  BY <2>1 DEF OpCode, Byte
  <2> HIDE DEF o, t
  <2>4. \A m \in 1 .. Len(t) : (<<o>> \o t)[1 + m] = t[m]  BY <1>3, <2>3, ByteBefore
  <2>5. \A m \in 1 .. n : ItemBytes(item)[h + m] = t[m]  BY <1>3, <1>6, <2>2, <2>4
  <2> QED  BY <1>2, <1>5, <2>5 DEF t
<1>7. CASE h = 0  BY <1>2, <1>5, <1>7 DEF t
<1> QED  BY <1>2, <1>6, <1>7

\* The bytes of an item that is no reference are what it says.
LEMMA PlainBytes ==
  ASSUME NEW d \in Declaration, NEW bytes, NEW objs, Linked(bytes, objs, d, bigEndian),
         NEW i \in 1 .. Len(d.text), i \notin References(d)
  PROVE  \A j \in 1 .. TextSize(d.text[i]) : bytes[Position(d, i) + j] = ItemBytes(d.text[i])[j]
BY ItemBytesSame DEF Linked

LEMMA ReferenceKinds ==
  ASSUME NEW d \in Declaration, NEW i \in 1 .. Len(d.text)
  PROVE  i \in References(d) <=> /\ d.text[i].kind \in {"jump", "local", "call", "handle"}
                                 /\ d.text[i].symbol # ""
BY DEF References, Refs, Relocated, RelocatedKinds

LEMMA OpCodeKept ==
  ASSUME NEW d \in Declaration, NEW bytes, NEW objs, Linked(bytes, objs, d, bigEndian),
         NEW i \in 1 .. Len(d.text), d.text[i].kind \in DOMAIN OpCode
  PROVE  bytes[Position(d, i) + 1] = OpCode[d.text[i].kind]
<1> DEFINE item == d.text[i]
<1>1. item \in Items  BY DeclarationHas
<1>2. ItemBytes(item)[1] = OpCode[item.kind] /\ TextSize(item) >= 1 /\ TextSize(item) \in Nat
  BY <1>1, OpCodeFirst, TextSizeType
<1>3. 1 \in 1 .. TextSize(item)  BY <1>2
<1>4. i \in References(d) => 1 <= Shift(item)
  <2>1. item.kind \in {"op", "imm", "jump", "local", "call"}  BY DEF OpCode
  <2>2. i \in References(d) => item.kind \in {"jump", "local", "call", "handle"}
    BY ReferenceKinds
  <2> HIDE DEF item
  <2> QED  BY <2>1, <2>2 DEF Shift
<1>5. bytes[Position(d, i) + 1] = ItemBytesAs(item, bigEndian)[1]
  BY <1>3, <1>4 DEF Linked
<1> QED  BY <1>2, <1>5, ItemBytesSame

\* The machine reads the value of an item that has one.
LEMMA ValueRead ==
  ASSUME NEW d \in Declaration, NEW bytes, NEW objs, Linked(bytes, objs, d, bigEndian),
         NEW i \in 1 .. Len(d.text), NEW h, NEW n, HasValue(d.text[i], h, n),
         bigEndian \in BOOLEAN
  PROVE  LET v == d.text[i].value
             at == Position(d, i) + h
         IN  /\ n = 1 => ReadAt(bytes, at, n) = v % 256
             /\ n = 2 => ReadAt(bytes, at, n) = v % 65536
             /\ n = 4 /\ IsWord(v) => ReadAt(bytes, at, n) = v
<1> DEFINE item == d.text[i]
           v == item.value
           p == Position(d, i)
           at == p + h
<1>1. item \in Items /\ v \in Int /\ p \in Nat  BY DeclarationHas, ItemHas, ItemWithin
<1>2. /\ h \in {0, 1} /\ n \in {1, 2, 4} /\ TextSize(item) = h + n
      /\ \A m \in 1 .. n : ItemBytes(item)[h + m] = Encoded(v, n)[m]
  BY <1>1, ValueBytes
<1>3. i \notin References(d)  BY ReferenceKinds DEF HasValue
<1>4. \A j \in 1 .. TextSize(item) : bytes[p + j] = ItemBytes(item)[j]
  BY <1>3, PlainBytes
<1> HIDE DEF item, v, p
<1>5. \A m \in 1 .. n : h + m \in 1 .. h + n /\ p + (h + m) = at + m  BY <1>1, <1>2
<1>6. \A m \in 1 .. n : bytes[at + m] = Encoded(v, n)[m]  BY <1>2, <1>4, <1>5
<1>7. at \in Nat  BY <1>1, <1>2
<1> HIDE DEF at
<1>8. v \in Int /\ n \in {1, 2, 4}  BY <1>1, <1>2
<1>9. ReadsAs(bytes, at, n, v)  BY <1>6, <1>7, <1>8, ReadAtIs
<1> QED  BY <1>9 DEF ReadsAs, at, p, v, item

\* The machine reads what a reference is to be.
LEMMA ReferenceRead ==
  ASSUME NEW d \in Declaration, NEW bytes, NEW objs, Linked(bytes, objs, d, bigEndian),
         NEW i \in References(d), bigEndian \in BOOLEAN, Target(objs, d, i) \in Int
  PROVE  LET v == Target(objs, d, i)
             n == OperandSize(d.text[i])
             at == OperandAt(d, i)
         IN  /\ n = 1 => ReadAt(bytes, at, n) = v % 256
             /\ n = 2 => ReadAt(bytes, at, n) = v % 65536
             /\ n = 4 /\ IsWord(v) => ReadAt(bytes, at, n) = v
<1> DEFINE v == Target(objs, d, i)
           n == OperandSize(d.text[i])
           at == OperandAt(d, i)
<1>1. n \in {1, 2, 4} /\ at \in Nat
  <2>1. /\ n \in {1, 2, 4} /\ Shift(d.text[i]) \in {0, 1}
        /\ Position(d, i) \in Nat /\ at = Position(d, i) + Shift(d.text[i])
    BY ReferenceSizes
  <2> HIDE DEF at
  <2> QED  BY <2>1
<1>2. \A m \in 1 .. n : bytes[at + m] = EncodedAs(v, n, bigEndian)[m]  BY DEF Linked
<1>3. Encoded(v, n) = EncodedAs(v, n, bigEndian)  BY EncodedSame
<1>4. v \in Int  OBVIOUS
<1> HIDE DEF v, n, at
<1>5. \A m \in 1 .. n : bytes[at + m] = Encoded(v, n)[m]  BY <1>2, <1>3
<1>6. ReadsAs(bytes, at, n, v)  BY <1>1, <1>4, <1>5, ReadAtIs
<1> QED  BY <1>6 DEF ReadsAs, v, n, at

LEMMA SignedBack ==
  ASSUME NEW v \in Int, IsInt16(v)
  PROVE  Signed16(v % 65536) = v /\ (v % 65536) % 65536 = v % 65536 /\ v % 65536 \in Int
<1> DEFINE m == v % 65536
<1>0. -32768 <= v /\ v <= 32767  BY DEF IsInt16
<1>1. CASE v >= 0  BY <1>0, <1>1 DEF Signed16, m
<1>2. CASE v < 0  BY <1>0, <1>2 DEF Signed16, m
<1> QED  BY <1>1, <1>2

LEMMA JumpsHave ==
  /\ MinJump \in Int /\ MaxJump \in Int
  /\ \A delta \in Int : MinJump <= delta /\ delta <= MaxJump => IsInt16(delta)
<1>3. MinJump \in Int /\ -32768 <= MinJump  BY JumpAssumption DEF IsInt16
<1>4. MaxJump \in Int /\ MaxJump <= 32767  BY JumpAssumption DEF IsInt16
<1>5. ASSUME NEW delta \in Int, MinJump <= delta, delta <= MaxJump
      PROVE  IsInt16(delta)
  BY <1>3, <1>4, <1>5 DEF IsInt16
<1> QED  BY <1>3, <1>4, <1>5

\* The values of the items fit their operands.
LEMMA ItemFits ==
  ASSUME NEW item \in Items
  PROVE  /\ item.kind \in ItemKinds /\ item.value \in Int /\ item.symbol \in STRING
         /\ item.kind \in {"byte", "local"} => item.value \in Byte
         /\ item.kind = "jump" => IsInt16(item.value)
         /\ item.kind \in {"imm", "word", "call", "handle"} => IsWord(item.value)
         /\ item.kind = "skip" => item.value \in Nat
<1>1. item.kind = "jump" => IsInt16(item.value)  BY SourceAssumption
<1>2. item.kind \in {"byte", "local"} => item.value \in Byte
  BY SourceAssumption DEF Byte
<1>3. item.kind \in {"imm", "word", "call", "handle"} => IsWord(item.value)
  BY SourceAssumption
<1>4. /\ item.kind \in ItemKinds /\ item.value \in Int /\ item.symbol \in STRING
      /\ item.kind = "skip" => item.value \in Nat
  BY ItemHas
<1> QED  BY <1>1, <1>2, <1>3, <1>4

WordHandles(objs) == \A m \in 1 .. Len(objs) : IsWord(objs[m].handle)

LEMMA HandleIsWord ==
  ASSUME NEW objs \in Seq(Object), WordHandles(objs), NEW name \in NamesOf(objs)
  PROVE  IsWord(HandleIn(objs, name)) /\ HandleIn(objs, name) \in Nat
<1> DEFINE m == CHOOSE m \in DOMAIN objs : objs[m].name = name
<1>1. DOMAIN objs = 1 .. Len(objs)  OBVIOUS
<1>2. \E x \in DOMAIN objs : objs[x].name = name  BY <1>1 DEF NamesOf
<1>3. m \in DOMAIN objs  BY <1>2
<1> HIDE DEF m
<1>4. IsWord(objs[m].handle)  BY <1>1, <1>3 DEF WordHandles
<1> QED  BY <1>4 DEF HandleIn, m, IsWord

\* The item of a function or object that is linked, as the machine finds it.
LEMMA ItemMeant ==
  ASSUME bigEndian \in BOOLEAN, objects \in Seq(Object), WordHandles(objects),
         NEW d \in Declaration, LinkableIn(d, NamesOf(objects)),
         NEW bytes, Linked(bytes, objects, d, bigEndian), NEW i \in 1 .. Len(d.text)
  PROVE  ItemKept(d, bytes, i)
<1> DEFINE item == d.text[i]
           k == item.kind
           s == item.symbol
           v == item.value
           p == Position(d, i)
           t == Target(objects, d, i)
<1>1. /\ item \in Items /\ k \in ItemKinds /\ v \in Int /\ p \in Nat
      /\ DOMAIN d.text = 1 .. Len(d.text) /\ i \in DOMAIN d.text
  BY DeclarationHas, ItemFits, ItemWithin
<1>2. k \in DOMAIN OpCode => bytes[p + 1] = OpCode[k]  BY OpCodeKept
<1>3. \A name \in NamesOf(objects) : /\ IsWord(HandleOf(name)) /\ HandleOf(name) \in Nat
                                     /\ HandleOf(name) = HandleIn(objects, name)
  BY HandleIsWord DEF HandleOf, HandleIn
<1>4. i \in References(d) <=> k \in {"jump", "local", "call", "handle"} /\ s # ""
  BY ReferenceKinds
<1>5. i \in References(d) => OperandAt(d, i) = p + Shift(item)
  BY DEF OperandAt
<1>6. \A n : HasValue(item, 1, n) =>
        /\ n = 1 => ReadAt(bytes, p + 1, n) = v % 256
        /\ n = 2 => ReadAt(bytes, p + 1, n) = v % 65536
        /\ n = 4 /\ IsWord(v) => ReadAt(bytes, p + 1, n) = v
  BY ValueRead
<1>7. HasValue(item, 0, 4) /\ IsWord(v) => ReadAt(bytes, p, 4) = v  BY <1>1, ValueRead
<1>8. CASE k = "imm"  BY <1>1, <1>2, <1>6, <1>8, ItemFits DEF HasValue, ItemKept
<1>9. CASE k = "jump" /\ s = ""
  <2>0. k = "jump"  BY <1>9, Zenon
  <2>1. HasValue(item, 1, 2)  BY <1>9 DEF HasValue
  <2>2. Signed16(v % 65536) = v  BY <1>1, <2>0, ItemFits, SignedBack
  <2>3. ReadAt(bytes, p + 1, 2) = v % 65536  BY <1>6, <2>1
  <2>4. Signed16(ReadAt(bytes, p + 1, 2)) = v  BY <2>2, <2>3
  <2> QED  BY <1>2, <1>9, <2>4 DEF ItemKept
<1>10. CASE k = "local" /\ s = ""
  <2>0. k = "local"  BY <1>10, Zenon
  <2>1. HasValue(item, 1, 1)  BY <1>10 DEF HasValue
  <2>2. v \in Byte  BY <1>1, <2>0, ItemFits
  <2>3. v % 256 = v
    <3> HIDE DEF v
    <3> QED  BY <2>2 DEF Byte
  <2>4. ReadAt(bytes, p + 1, 1) = v  BY <1>6, <2>1, <2>3
  <2> QED  BY <1>2, <1>10, <2>4 DEF ItemKept
<1>11. CASE k = "call" /\ s = ""
  <2>0. k = "call"  BY <1>11, Zenon
  <2>1. HasValue(item, 1, 4)  BY <1>11 DEF HasValue
  <2>2. IsWord(v)  BY <1>1, <2>0, ItemFits
  <2>3. ReadAt(bytes, p + 1, 4) = v  BY <1>6, <2>1, <2>2
  <2> QED  BY <1>2, <1>11, <2>3 DEF ItemKept
<1>12. CASE k = "handle" /\ s = ""
  BY <1>1, <1>2, <1>7, <1>12, ItemFits DEF HasValue, ItemKept
<1>13. CASE k = "word"  BY <1>1, <1>2, <1>7, <1>13, ItemFits DEF HasValue, ItemKept
<1>14. CASE k = "byte"
  <2>1. i \notin References(d)  BY <1>4, <1>14
  <2>2. TextSize(item) = 1 /\ ItemBytes(item) = <<v>>
    BY <1>1, <1>14, TextSizes DEF ItemBytes
  <2>3. 1 \in 1 .. TextSize(item)  BY <2>2
  <2>4. bytes[p + 1] = ItemBytes(item)[1]  BY <2>1, <2>3, PlainBytes
  <2>5. bytes[p + 1] = v  BY <2>2, <2>4
  <2> QED  BY <1>2, <1>14, <2>5 DEF ItemKept
<1>15. CASE k = "skip"
  <2>1. i \notin References(d)  BY <1>4, <1>15
  <2>2. TextSize(item) = v  BY <1>1, <1>15, TextSizes
  <2>3. ItemBytes(item) = Fill(v, 0)  BY <1>15 DEF ItemBytes
  <2>4. \A j \in 1 .. v : bytes[p + j] = Fill(v, 0)[j]  BY <2>1, <2>2, <2>3, PlainBytes
  <2>5. \A j \in 1 .. v : bytes[p + j] = 0  BY <2>4 DEF Fill
  <2> QED  BY <1>2, <1>15, <2>5 DEF ItemKept
<1>16. CASE k \in {"op", "label", "declare"}
  BY <1>2, <1>16 DEF ItemKept
<1>17. ASSUME i \in References(d), t \in Int
       PROVE  LET n == OperandSize(item)
              IN  /\ n = 1 => ReadAt(bytes, p + Shift(item), n) = t % 256
                  /\ n = 2 => ReadAt(bytes, p + Shift(item), n) = t % 65536
                  /\ n = 4 /\ IsWord(t) => ReadAt(bytes, p + Shift(item), n) = t
  BY <1>5, <1>17, ReferenceRead
<1>18. CASE k = "jump" /\ s # ""
  <2>0. k = "jump"  BY <1>18, Zenon
  <2> DEFINE l == LabelPosition(d, s)
             delta == l - (p + 1)
  <2>1. i \in Uses(d, "jump")  BY <1>1, <1>18 DEF Uses
  <2>2. s \in Symbols(d, "label") /\ delta \in MinJump .. MaxJump
    BY <1>18, <2>1 DEF LinkableIn
  <2>3. l \in Int
    <3> DEFINE x == CHOOSE j \in Uses(d, "label") : d.text[j].symbol = s
    <3>1. \E j \in Uses(d, "label") : d.text[j].symbol = s  BY <2>2 DEF Symbols
    <3>2. x \in Uses(d, "label")  BY <3>1
    <3> HIDE DEF x
    <3>3. x \in 1 .. Len(d.text)  BY <1>1, <3>2 DEF Uses
    <3>4. Position(d, x) \in Nat  BY <3>3, ItemWithin
    <3> QED  BY <3>4 DEF LabelPosition, x
  <2>4. delta \in Int /\ IsInt16(delta) /\ (p + 1) + delta = l
    <3> HIDE DEF l, p
    <3>1. delta \in Int /\ (p + 1) + delta = l  BY <1>1, <2>3
    <3>2. MinJump <= delta /\ delta <= MaxJump
      <4> HIDE DEF delta
      <4> QED  BY <2>2, <3>1, JumpsHave
    <3> HIDE DEF delta
    <3>3. IsInt16(delta)  BY <3>1, <3>2, JumpsHave
    <3> QED  BY <3>1, <3>3
  <2>5. t = delta % 65536  BY <2>0 DEF Target
  <2>6. i \in References(d) /\ OperandSize(item) = 2 /\ Shift(item) = 1
    <3>1. i \in References(d)  BY <1>4, <1>18
    <3>2. OperandSize(item) = 2 /\ Shift(item) = 1
      BY <2>0 DEF OperandSize, RelocationType, SizeOf, Shift
    <3> QED  BY <3>1, <3>2
  <2> HIDE DEF l, delta, t
  <2>7. Signed16(t) = delta /\ t % 65536 = t /\ t \in Int  BY <2>4, <2>5, SignedBack
  <2>8. ReadAt(bytes, p + 1, 2) = t  BY <1>17, <2>6, <2>7
  <2>9. (p + 1) + Signed16(ReadAt(bytes, p + 1, 2)) = l  BY <2>4, <2>7, <2>8
  <2> QED  BY <1>2, <1>18, <2>9 DEF ItemKept, l
<1>19. CASE k = "local" /\ s # ""
  <2>0. k = "local"  BY <1>19, Zenon
  <2>1. i \in References(d) /\ OperandSize(item) = 1 /\ Shift(item) = 1
    <3>1. i \in References(d)  BY <1>4, <1>19
    <3>2. OperandSize(item) = 1 /\ Shift(item) = 1
      BY <2>0 DEF OperandSize, RelocationType, SizeOf, Shift
    <3> QED  BY <3>1, <3>2
  <2>2. t \in Byte  BY <2>0, <2>1 DEF Linked
  <2>3. t = Slot(d, s)  BY <2>0 DEF Target
  <2> HIDE DEF t
  <2>4. t % 256 = t /\ t \in Int  BY <2>2 DEF Byte
  <2>5. ReadAt(bytes, p + 1, 1) = Slot(d, s)  BY <1>17, <2>1, <2>3, <2>4
  <2> QED  BY <1>2, <1>19, <2>5 DEF ItemKept
<1>20. ASSUME k \in {"call", "handle"}, s # ""
       PROVE  ReadAt(bytes, p + Shift(item), 4) = HandleOf(s)
  <2>0. k \in {"call", "handle"}  BY <1>20
  <2>1. i \in References(d) /\ OperandSize(item) = 4
    <3>1. i \in References(d)  BY <1>4, <1>20
    <3>2. OperandSize(item) = 4  BY <2>0 DEF OperandSize, RelocationType, SizeOf
    <3> QED  BY <3>1, <3>2
  <2>2. s \in NamesOf(objects)  BY <1>1, <1>20 DEF Uses, Symbols, LinkableIn
  <2>3. t = HandleIn(objects, s)  BY <2>0 DEF Target
  <2> HIDE DEF t, s
  <2>4. t = HandleOf(s) /\ IsWord(t) /\ t \in Int  BY <1>3, <2>2, <2>3
  <2> QED  BY <1>17, <2>1, <2>4
<1>21. CASE k = "call" /\ s # ""  BY <1>2, <1>20, <1>21 DEF Shift, ItemKept
<1>22. CASE k = "handle" /\ s # ""
  <2>0. k = "handle"  BY <1>22, Zenon
  <2>1. Shift(item) = 0  BY <1>22 DEF Shift
  <2>2. p + 0 = p  BY <1>1
  <2>3. ReadAt(bytes, p, 4) = HandleOf(s)  BY <1>20, <1>22, <2>1, <2>2
  <2> QED  BY <1>2, <1>22, <2>3 DEF ItemKept
<1> QED
  BY <1>1, <1>8, <1>9, <1>10, <1>11, <1>12, <1>13, <1>14, <1>15, <1>16, <1>18, <1>19,
     <1>21, <1>22 DEF ItemKinds

----------------------------------------------------------------------------
(***************************************************************************)
(* The output: what is known of the bytes.                                 *)
(***************************************************************************)

CompleteAll(objs, declarations, n, big) ==
  \A i \in 1 .. n : Complete(objs[i].content, declarations[i], big)

LinkedAll(objs, declarations, big) ==
  /\ Len(objs) = Len(declarations) /\ WordHandles(objs)
  /\ \A k \in 1 .. Len(declarations) :
       /\ objs[k].name = declarations[k].name
       /\ Linked(objs[k].content.bytes, objs, declarations[k], big)

Spelled ==
  /\ WordHandles(source)
  /\ phase \in {"declarations", "parsed"}
       => CompleteAll(objects, source, Len(source), bigEndian)
  /\ phase \in Kind => /\ CompleteAll(objects, source, Len(source) - 1, bigEndian)
                       /\ Spells(code, source[Len(source)], bigEndian)
  /\ Accepted => LinkedAll(objects, source, bigEndian)

MInv == VInv /\ Spelled

\* The names of the objects are those of the source.
LEMMA NamesOfSource ==
  ASSUME NEW objs, Len(objs) = Len(source), source \in Seq(Declaration),
         \A k \in 1 .. Len(source) : objs[k].name = source[k].name
  PROVE  NamesOf(objs) = Global
<1> DEFINE n == Len(source)
<1>1. DOMAIN source = 1 .. n  OBVIOUS
<1> HIDE DEF n
<1>2. \A k \in 1 .. n : objs[k].name = source[k].name  BY DEF n
<1>3. Len(objs) = n  BY DEF n
<1> QED  BY <1>1, <1>2, <1>3 DEF NamesOf, Global

LEMMA FirstFour ==
  ASSUME NEW b \in Seq(Byte), 4 <= Len(b)
  PROVE  SubSeq(b, 1, 4) = <<b[1], b[2], b[3], b[4]>>
<1> DEFINE s == SubSeq(b, 1, 4)
           t == <<b[1], b[2], b[3], b[4]>>
<1>1. s = [i \in 1 .. 4 |-> s[i]] /\ \A i \in 1 .. 4 : s[i] = b[i]  OBVIOUS
<1>2. t = [i \in 1 .. 4 |-> t[i]]  OBVIOUS
<1>3. t[1] = b[1] /\ t[2] = b[2] /\ t[3] = b[3] /\ t[4] = b[4]  OBVIOUS
<1> HIDE DEF s, t
<1>4. \A i \in 1 .. 4 : s[i] = t[i]  BY <1>1, <1>3
<1>5. s = t  BY <1>1, <1>2, <1>4
<1> QED  BY <1>5 DEF s, t

LEMMA SourceMeant ==
  ASSUME MInv
  PROVE  OutputMeansSource
<1> SUFFICES ASSUME Accepted
             PROVE  /\ DOMAIN objects = DOMAIN source
                    /\ \A k \in DOMAIN source :
                         LET d == source[k]
                             bytes == objects[k].content.bytes
                         IN  /\ objects[k].name = d.name
                             /\ Len(bytes) = Position(d, Len(d.text) + 1)
                             /\ IsFunction(d) =>
                                  SubSeq(bytes, 1, 4) = <<0, d.results, Len(d.args),
                                                          Cardinality(Symbols(d, "declare"))>>
                             /\ \A i \in DOMAIN d.text : ItemKept(d, bytes, i)
  BY DEF OutputMeansSource
<1>1. AInv /\ VerdictIsRight /\ LinkedAll(objects, source, bigEndian)
  BY DEF MInv, VInv, Spelled
<1>2. bigEndian \in BOOLEAN /\ objects \in Seq(Object) /\ source \in Seq(Declaration)
  BY <1>1, AInvHas
<1>3. LinkableSource  BY <1>1 DEF VerdictIsRight, AcceptedIsChecked
<1>4. /\ Len(objects) = Len(source) /\ WordHandles(objects)
      /\ \A k \in 1 .. Len(source) :
           /\ objects[k].name = source[k].name
           /\ Linked(objects[k].content.bytes, objects, source[k], bigEndian)
  BY <1>1 DEF LinkedAll
<1>5. NamesOf(objects) = Global  BY <1>2, <1>4, NamesOfSource
<1>6. DOMAIN objects = 1 .. Len(source) /\ DOMAIN source = 1 .. Len(source)
  BY <1>2, <1>4
<1>7. ASSUME NEW k \in 1 .. Len(source)
      PROVE  LET d == source[k]
                 bytes == objects[k].content.bytes
             IN  /\ objects[k].name = d.name
                 /\ Len(bytes) = Position(d, Len(d.text) + 1)
                 /\ IsFunction(d) =>
                      SubSeq(bytes, 1, 4) = <<0, d.results, Len(d.args),
                                              Cardinality(Symbols(d, "declare"))>>
                 /\ \A i \in DOMAIN d.text : ItemKept(d, bytes, i)
  <2> DEFINE d == source[k]
             c == objects[k].content
             b == c.bytes
  <2>1. d \in Declaration /\ c \in Sound
    <3>1. objects[k] \in Object  BY <1>2, <1>6
    <3> QED  BY <1>2, <3>1 DEF Object
  <2>2. Linked(b, objects, d, bigEndian)  BY <1>4
  <2>3. LinkableIn(d, NamesOf(objects))
    BY <1>3, <1>5, <1>6 DEF LinkableSource, LinkableDeclaration, LinkableIn
  <2>4. objects[k].name = d.name  BY <1>4
  <2> HIDE DEF d, c
  <2>5. b \in Seq(Byte)  BY <2>1, SoundHas
  <2> HIDE DEF b
  <2>6. \A i \in DOMAIN d.text : ItemKept(d, b, i)
    BY <1>2, <1>4, <2>1, <2>2, <2>3, DeclarationHas, ItemMeant
  <2>7. Len(b) = Position(d, Len(d.text) + 1)  BY <2>2 DEF Linked
  <2>8. ASSUME IsFunction(d)
        PROVE  SubSeq(b, 1, 4) = <<0, d.results, Len(d.args),
                                   Cardinality(Symbols(d, "declare"))>>
    <3>1. /\ b[1] = 0 /\ b[2] = d.results /\ b[3] = Len(d.args)
          /\ b[4] = Cardinality(Symbols(d, "declare"))
      BY <2>2, <2>8 DEF Linked, HasHeader
    <3>2. 4 <= Len(b)
      BY <2>1, <2>7, <2>8, DeclarationHas, Positions, PositionsRise DEF Base
    <3>3. SubSeq(b, 1, 4) = <<b[1], b[2], b[3], b[4]>>  BY <2>5, <3>2, FirstFour
    <3> QED  BY <3>1, <3>3
  <2> QED  BY <2>4, <2>6, <2>7, <2>8 DEF d, c, b
<1> QED  BY <1>6, <1>7

\* What the linker has done depends on the names and the handles only.
LEMMA LinkedAlike ==
  ASSUME NEW o, NEW p, DOMAIN p = DOMAIN o,
         \A m \in DOMAIN o : p[m].name = o[m].name /\ p[m].handle = o[m].handle,
         DOMAIN o = 1 .. Len(o), NEW d \in Declaration, LinkableIn(d, NamesOf(o)),
         NEW bytes, NEW big, Linked(bytes, o, d, big)
  PROVE  Linked(bytes, p, d, big)
<1>1. ASSUME NEW name, \E m \in DOMAIN o : o[m].name = name
      PROVE  HandleIn(p, name) = HandleIn(o, name)
  <2> DEFINE x == CHOOSE m \in DOMAIN o : o[m].name = name
             y == CHOOSE m \in DOMAIN p : p[m].name = name
  <2>1. x \in DOMAIN o  BY <1>1
  <2>2. x = y  OBVIOUS
  <2> HIDE DEF x, y
  <2>3. p[x].handle = o[x].handle  BY <2>1
  <2> QED  BY <2>2, <2>3 DEF HandleIn, x, y
<1>2. ASSUME NEW i \in References(d)
      PROVE  Target(p, d, i) = Target(o, d, i)
  <2> DEFINE k == d.text[i].kind
             s == d.text[i].symbol
  <2>1. i \in 1 .. Len(d.text) /\ k \in {"jump", "local", "call", "handle"}
    BY ReferenceSizes
  <2>2. CASE k \in {"jump", "local"}  BY <2>2 DEF Target
  <2>3. CASE k \in {"call", "handle"}
    <3>1. DOMAIN d.text = 1 .. Len(d.text)  BY DeclarationHas
    <3>2. s \in Symbols(d, "call") \cup Symbols(d, "handle")
      BY <2>1, <2>3, <3>1 DEF Symbols, Uses
    <3>3. s # ""  BY ReferenceSizes
    <3>4. s \in NamesOf(o)  BY <3>2, <3>3 DEF LinkableIn
    <3> HIDE DEF s
    <3>5. \E m \in DOMAIN o : o[m].name = s  BY <3>4 DEF NamesOf
    <3>6. HandleIn(p, s) = HandleIn(o, s)  BY <1>1, <3>5
    <3>7. Target(p, d, i) = HandleIn(p, s) /\ Target(o, d, i) = HandleIn(o, s)
      BY <2>3 DEF Target, s
    <3> QED  BY <3>6, <3>7
  <2> QED  BY <2>1, <2>2, <2>3
<1> QED  BY <1>2 DEF Linked

LEMMA WordBelow ==
  ASSUME NEW w \in Nat, IsWord(w), NEW v \in Nat, v <= w
  PROVE  IsWord(v)
<1>1. v \div 65536 <= w \div 65536  OBVIOUS
<1>2. w \div 65536 < 65536  BY DEF IsWord
<1> QED  BY <1>1, <1>2 DEF IsWord

\* The handles are words, those of the source and those that were chosen.
LEMMA HandlesAreWords ==
  ASSUME NEW objs, Len(objs) = Len(source), DOMAIN objs = 1 .. Len(objs), WordHandles(source),
         \A i \in 1 .. Len(objs) :
           \/ objs[i].handle = source[i].handle
           \/ objs[i].handle \in CodeFirst .. CodeLast
           \/ objs[i].handle \in DataFirst .. DataLast
  PROVE  WordHandles(objs)
<1> SUFFICES ASSUME NEW i \in 1 .. Len(objs) PROVE IsWord(objs[i].handle)
  BY DEF WordHandles
<1> DEFINE h == objs[i].handle
<1>1. /\ CodeFirst \in Nat /\ CodeLast \in Nat /\ DataFirst \in Nat /\ DataLast \in Nat
  BY RangesHave
<1>2. IsWord(CodeLast) /\ IsWord(DataLast)  BY SourceAssumption
<1>3. CASE h = source[i].handle  BY <1>3 DEF WordHandles
<1>4. CASE h \in CodeFirst .. CodeLast
  <2>1. h \in Nat /\ h <= CodeLast
    <3> HIDE DEF h
    <3> QED  BY <1>1, <1>4
  <2> QED  BY <1>1, <1>2, <2>1, WordBelow
<1>5. CASE h \in DataFirst .. DataLast
  <2>1. h \in Nat /\ h <= DataLast
    <3> HIDE DEF h
    <3> QED  BY <1>1, <1>5
  <2> QED  BY <1>1, <1>2, <2>1, WordBelow
<1> QED  BY <1>3, <1>4, <1>5

LEMMA InitSpelled ==
  ASSUME Init
  PROVE  Spelled
<1>1. phase = "declarations" /\ source = <<>>  BY DEF Init
<1>2. WordHandles(source) /\ CompleteAll(objects, source, Len(source), bigEndian)
  BY <1>1 DEF WordHandles, CompleteAll
<1> QED  BY <1>1, <1>2 DEF Spelled, Kind, Accepted

LEMMA CompletePrefix ==
  ASSUME NEW objs, NEW s, NEW t, NEW n, NEW big, CompleteAll(objs, s, n, big),
         \A i \in 1 .. n : t[i] = s[i]
  PROVE  CompleteAll(objs, t, n, big)
BY DEF CompleteAll

LEMMA BeginSpelled ==
  ASSUME MInv, NEW p \in Kind, NEW name \in STRING, NEW handle \in Nat, IsWord(handle),
         NEW args \in Seq(STRING), NEW results \in Nat,
         Begin(p, name, handle, args, results)
  PROVE  Spelled'
<1> DEFINE d == [kind |-> p, name |-> name, handle |-> handle, args |-> args,
                 results |-> results, text |-> <<>>]
           n == Len(source)
<1>1. AInv /\ Spelled  BY DEF MInv, VInv
<1>2. /\ phase = "declarations" /\ source' = Append(source, d) /\ code' = EmptyCode
      /\ phase' = p /\ UNCHANGED <<objects, bigEndian>>
  BY DEF Begin, Undefined
<1>3. source \in Seq(Declaration) /\ n \in Nat  BY <1>1, AInvHas
<1>4. d \in Declaration /\ d.text = <<>> /\ d.handle = handle
  <2>1. <<>> \in Seq(Items)  OBVIOUS
  <2> QED  BY <2>1 DEF Declaration
<1> HIDE DEF d
<1>5. /\ Len(source') = n + 1 /\ source'[n + 1] = d
      /\ \A i \in 1 .. n : source'[i] = source[i]
  BY <1>2, <1>3, <1>4
<1>6. CompleteAll(objects, source, n, bigEndian) /\ WordHandles(source)
  BY <1>1, <1>2 DEF Spelled
<1> HIDE DEF n
<1>7. CompleteAll(objects', source', n, bigEndian')  BY <1>2, <1>5, <1>6, CompletePrefix
<1>8. Spells(code', d, bigEndian')  BY <1>2, <1>4, EmptySpells
<1>9. WordHandles(source')  BY <1>3, <1>4, <1>5, <1>6 DEF WordHandles, n
<1>10. (n + 1) - 1 = n  BY <1>3
<1>11. phase' \notin {"declarations", "parsed"} /\ ~ Accepted'
  BY <1>2 DEF Kind, Accepted
<1> QED  BY <1>5, <1>7, <1>8, <1>9, <1>10, <1>11 DEF Spelled

LEMMA ParseItemSpelled ==
  ASSUME MInv, NEW item \in Items, ParseItem(item)
  PROVE  Spelled'
<1> DEFINE n == Len(source)
           d == source[n]
           e == source'[n]
<1>1. AInv /\ Reading /\ Spelled  BY DEF MInv, VInv
<1>2. /\ phase \in Kind /\ n \in Nat /\ n > 0 /\ Len(source') = n
      /\ Extends(e, d, item) /\ \A i \in 1 .. n - 1 : source'[i] = source[i]
  BY <1>1, ItemExtends
<1>3. /\ code' = Reduced(code, item) /\ UNCHANGED <<objects, bigEndian>>
      /\ AfterReduction(IF Rejected(code, item) THEN 1 ELSE 0, phase)
  BY DEF ParseItem, Undefined
<1>4. code \in Sound /\ source \in Seq(Declaration)  BY <1>1, AInvHas
<1>5. Translates(code, d)  BY <1>1, <1>2 DEF Reading
<1>6. /\ CompleteAll(objects, source, n - 1, bigEndian) /\ Spells(code, d, bigEndian)
      /\ WordHandles(source)
  BY <1>1, <1>2 DEF Spelled
<1>7. WordHandles(source')
  <2> SUFFICES ASSUME NEW i \in 1 .. n PROVE source'[i].handle = source[i].handle
    BY <1>2, <1>6 DEF WordHandles
  <2>1. source' = [source EXCEPT ![n].text = Append(@, item)]  BY DEF ParseItem
  <2>2. n \in DOMAIN source /\ d \in Declaration  BY <1>2, <1>4
  <2>3. e = [d EXCEPT !.text = Append(@, item)]  BY <2>1, <2>2
  <2> HIDE DEF d, e
  <2>4. e.handle = d.handle  BY <2>2, <2>3 DEF Declaration
  <2>5. CASE i = n  BY <2>4, <2>5 DEF d, e
  <2>6. CASE i # n
    <3>1. i \in 1 .. n - 1
      <4> HIDE DEF n
      <4> QED  BY <1>2, <2>6
    <3> QED  BY <1>2, <3>1
  <2> QED  BY <2>5, <2>6
<1>8. CASE Rejected(code, item)
  BY <1>3, <1>7, <1>8, ReductionPhase DEF Spelled, Kind, Accepted
<1>9. CASE ~ Rejected(code, item)
  <2>1. phase' = phase  BY <1>3, <1>9 DEF AfterReduction
  <2>2. Spells(code', e, bigEndian')  BY <1>2, <1>3, <1>4, <1>5, <1>6, <1>9, SpellsStep
  <2> HIDE DEF d
  <2>3. CompleteAll(objects', source', n - 1, bigEndian')
    BY <1>2, <1>3, <1>6, CompletePrefix
  <2>4. phase' \in Kind /\ phase' \notin {"declarations", "parsed"} /\ ~ Accepted'
    BY <1>2, <2>1 DEF Kind, Accepted
  <2>5. Len(source') = n  BY <1>2
  <2> HIDE DEF n
  <2> QED  BY <1>7, <2>2, <2>3, <2>4, <2>5 DEF Spelled
<1> QED  BY <1>8, <1>9

\* The end of a declaration whose buffer is complete.
LEMMA DefineObjectSpelled ==
  ASSUME MInv, phase \in Kind, NEW c \in Sound, AsmUtilDefineObject(Open, c),
         UNCHANGED source, UNCHANGED bigEndian, Complete(c, Open, bigEndian)
  PROVE  Spelled'
<1> DEFINE n == Len(source)
           d == source[n]
           r == [name |-> d.name, kind |-> d.kind, handle |-> d.handle, content |-> c]
<1>1. AInv /\ Spelled  BY DEF MInv, VInv
<1>2. objects \in Seq(Object) /\ source \in Seq(Declaration) /\ Corresponds  BY <1>1, AInvHas
<1>3. n > 0 /\ n \in Nat /\ Len(objects) = n - 1
  BY <1>2 DEF Corresponds, Matches
<1>4. d \in Declaration /\ Open = d  BY <1>2, <1>3 DEF Open, Last
<1>5. CompleteAll(objects, source, n - 1, bigEndian) /\ WordHandles(source)
  BY <1>1 DEF Spelled
<1>6. WordHandles(source')  BY <1>5
<1>7. CASE ~ AsmCanAddObjects(Open)
  BY <1>6, <1>7, ReductionPhase DEF AsmUtilDefineObject, Spelled, Kind, Accepted
<1>8. CASE AsmCanAddObjects(Open)
  <2>1. objects' = Append(objects, r) /\ phase' = "declarations"
    BY <1>4, <1>8 DEF AsmUtilDefineObject, AfterReduction
  <2>2. r.content = c
    <3> HIDE DEF d
    <3> QED  OBVIOUS
  <2> HIDE DEF r
  <2>3. objects'[n] = r /\ \A i \in 1 .. n - 1 : objects'[i] = objects[i]
    <3> HIDE DEF n
    <3> QED  BY <1>2, <1>3, <2>1
  <2>4. Complete(c, d, bigEndian)  BY <1>4
  <2> HIDE DEF n, d
  <2>5. \A i \in 1 .. n : i = n \/ i \in 1 .. n - 1  BY <1>3
  <2>6. CompleteAll(objects', source', n, bigEndian')
    BY <1>5, <2>2, <2>3, <2>4, <2>5 DEF CompleteAll, d
  <2> QED  BY <1>6, <2>1, <2>6 DEF Spelled, Kind, Accepted, n
<1> QED  BY <1>7, <1>8

LEMMA EndFunctionSpelled ==
  ASSUME MInv, EndFunction
  PROVE  Spelled'
<1> DEFINE n == Len(source)
           d == source[n]
           h == Header(Open, code)
           c == AsmCodeAddMetadata(AsmUtilProcessLocals(code, Open.args), h)
<1>1. AInv /\ Reading /\ Spelled  BY DEF MInv, VInv
<1>2. phase = "function" /\ phase \in Kind /\ UNCHANGED <<source, bigEndian>>
  BY DEF EndFunction, Undefined, Kind
<1>3. source \in Seq(Declaration) /\ Corresponds /\ code \in Sound  BY <1>1, AInvHas
<1>4. n > 0 /\ n \in Nat /\ d.kind = "function"
  BY <1>2, <1>3 DEF Corresponds
<1>5. d \in Declaration /\ Open = d  BY <1>3, <1>4 DEF Open, Last
<1>6. Translates(code, d) /\ Spells(code, d, bigEndian) /\ WordHandles(source)
  BY <1>1, <1>2 DEF Reading, Spelled
<1>7. CASE TooMany(Open, code)
  BY <1>2, <1>6, <1>7, ReductionPhase DEF EndFunction, Spelled, Kind, Accepted
<1>8. CASE ~ TooMany(Open, code)
  <2>1. AsmUtilDefineObject(Open, c)  BY <1>8 DEF EndFunction
  <2>2. h \in Seq(Byte) /\ Len(h) = 4 /\ c \in Sound
    BY <1>1, <1>2, <1>8, FunctionSound
  <2>3. IsFunction(d)  BY <1>4 DEF IsFunction
  <2> HIDE DEF d
  <2>4. Complete(AsmCodeAddMetadata(AsmUtilProcessLocals(code, d.args), Header(d, code)), d,
                 bigEndian)
    BY <1>3, <1>5, <1>6, <2>2, <2>3, FunctionComplete
  <2>5. Complete(c, Open, bigEndian)  BY <1>5, <2>4
  <2> HIDE DEF c
  <2> QED  BY <1>2, <2>1, <2>2, <2>5, DefineObjectSpelled
<1> QED  BY <1>7, <1>8

LEMMA EndObjectSpelled ==
  ASSUME MInv, EndObject
  PROVE  Spelled'
<1> DEFINE n == Len(source)
           d == source[n]
<1>1. AInv /\ Reading /\ Spelled  BY DEF MInv, VInv
<1>2. /\ phase = "object" /\ phase \in Kind /\ UNCHANGED <<source, bigEndian>>
      /\ AsmUtilDefineObject(Open, code)
  BY DEF EndObject, Undefined, Kind
<1>3. source \in Seq(Declaration) /\ Corresponds /\ code \in Sound  BY <1>1, AInvHas
<1>4. n > 0 /\ n \in Nat /\ d.kind = "object"
  BY <1>2, <1>3 DEF Corresponds
<1>5. d \in Declaration /\ Open = d  BY <1>3, <1>4 DEF Open, Last
<1>6. Translates(code, d) /\ Plain(d) /\ Spells(code, d, bigEndian)
  BY <1>1, <1>2 DEF Reading, Spelled
<1>7. ~ IsFunction(d)  BY <1>4 DEF IsFunction
<1> HIDE DEF d
<1>8. Complete(code, d, bigEndian)  BY <1>3, <1>5, <1>6, <1>7, ObjectComplete
<1>9. Complete(code, Open, bigEndian)  BY <1>5, <1>8
<1> QED  BY <1>2, <1>3, <1>9, DefineObjectSpelled

LEMMA EndOfInputSpelled ==
  ASSUME MInv, EndOfInput
  PROVE  Spelled'
<1>1. Spelled  BY DEF MInv
<1>2. phase = "declarations" /\ phase' = "parsed" /\ UNCHANGED <<objects, source, bigEndian>>
  BY DEF EndOfInput, Undefined
<1> QED  BY <1>1, <1>2 DEF Spelled, Kind, Accepted

LEMMA OutOfMemorySpelled ==
  ASSUME MInv, OutOfMemory
  PROVE  Spelled'
<1>1. Spelled  BY DEF MInv
<1>2. AfterReduction(1, phase) /\ UNCHANGED source  BY DEF OutOfMemory
<1>3. phase' = "parsing failed"  BY <1>2, ReductionPhase
<1>4. WordHandles(source')  BY <1>1, <1>2 DEF Spelled
<1> QED  BY <1>3, <1>4 DEF Spelled, Kind, Accepted

LEMMA SetContentKeeps ==
  ASSUME NEW x \in Object, NEW c
  PROVE  LET y == [x EXCEPT !.content = c]
         IN y.name = x.name /\ y.handle = x.handle /\ y.content = c
BY DEF Object

\* The second pass makes a declaration of the source what it is to be.
LEMMA LinkedContents ==
  ASSUME objects \in Seq(Object), source \in Seq(Declaration), Len(objects) = Len(source),
         Closed(objects, source, Len(source)),
         NEW pass, pass = AsmAssignHandles(objects), NEW i \in 1 .. Len(source),
         Complete(objects[i].content, source[i], bigEndian),
         AsmLinkObject(pass.objs, pass.objs[i].content).errors = 0
  PROVE  /\ Linked(AsmLinkObject(pass.objs, pass.objs[i].content).content.bytes,
                   pass.objs, source[i], bigEndian)
         /\ LinkableIn(source[i], NamesOf(pass.objs))
<1> DEFINE o == pass.objs
           n == Len(source)
           c == o[i].content
<1>0. LinkableDeclaration(source[i])  BY LinkedContent
<1>1. o \in Seq(Object) /\ Len(o) = n
  <2>1. pass \in AssignPass(objects)  BY AssignHandlesDo
  <2> QED  BY <2>1 DEF AssignPass
<1>2. \A j \in 1 .. n : o[j].name = objects[j].name /\ o[j].content = objects[j].content
  <2>1. Keeps(objects, pass)  BY AssignHandlesCount
  <2> QED  BY <2>1 DEF Keeps
<1>3. /\ \A j \in 1 .. n : /\ objects[j].name = source[j].name
                           /\ CheckedDeclaration(source[j])
                           /\ Finished(objects[j].content, source[j])
      /\ \A j, k \in 1 .. n : source[j].name = source[k].name => j = k
  BY DEF Closed
<1>4. NamesOf(o) = Global  BY <1>1, <1>2, <1>3, NamesOfSource
<1>5. DistinctNames(o)  BY <1>1, <1>2, <1>3 DEF DistinctNames
<1>6. c \in Sound
  <2> HIDE DEF o
  <2>1. o[i] \in Object  BY <1>1
  <2> QED  BY <2>1 DEF Object
<1> DEFINE d == source[i]
<1>7. /\ Finished(c, d) /\ Once(d, "label") /\ d \in Declaration
      /\ Complete(c, d, bigEndian)
  BY <1>2, <1>3 DEF CheckedDeclaration
<1>8. AsmLinkObject(o, c).errors = 0  OBVIOUS
<1>9. LinkableIn(d, NamesOf(o))
  <2> HIDE DEF o
  <2> QED  BY <1>0, <1>4 DEF LinkableIn, LinkableDeclaration
<1> HIDE DEF o, n, c, d
<1>10. AllResolve(o, c)  BY <1>1, <1>6, <1>8, LinkObjectCounts
<1>11. Linked(AsmLinkObject(o, c).content.bytes, o, d, bigEndian)
  BY <1>1, <1>5, <1>6, <1>7, <1>10, LinkedDeclaration
<1> QED  BY <1>9, <1>11 DEF o, c, d

LEMMA AsmLinkSpelled ==
  ASSUME MInv, AsmLink
  PROVE  Spelled'
<1> DEFINE n == Len(source)
           pass1 == AsmAssignHandles(objects)
           o == pass1.objs
           pass2 == [i \in DOMAIN objects |->
                       AsmLinkObject(pass1.objs, pass1.objs[i].content)]
           failures == IF pass1.errors > 0 THEN pass1.errors ELSE ErrorsOf(pass2)
           linked == [i \in DOMAIN objects |->
                        [pass1.objs[i] EXCEPT !.content = pass2[i].content]]
<1>1. AInv /\ Reading /\ Spelled  BY DEF MInv, VInv
<1>2. AInv'  BY <1>1, AsmLinkInv
<1>3. /\ phase = "parsed"
      /\ objects' = IF pass1.errors > 0 THEN pass1.objs ELSE linked
      /\ phase' = IF failures = 0 THEN "linked" ELSE "linking failed"
      /\ UNCHANGED <<source, bigEndian>>
  BY DEF AsmLink, Undefined
<1>4. /\ objects \in Seq(Object) /\ source \in Seq(Declaration)
      /\ Matches(objects, source, n) /\ Closed(objects, source, n)
  BY <1>1, <1>3, AInvHas DEF Corresponds, Reading
<1>5. Len(objects) = n /\ n \in Nat /\ DOMAIN objects = 1 .. n /\ DOMAIN source = 1 .. n
  BY <1>4 DEF Matches
<1>6. WordHandles(source) /\ CompleteAll(objects, source, n, bigEndian)
  BY <1>1, <1>3 DEF Spelled
<1>7. WordHandles(source')  BY <1>3, <1>6
<1>8. CASE failures # 0  BY <1>3, <1>7, <1>8 DEF Spelled, Kind, Accepted
<1>9. CASE failures = 0
  <2> HIDE DEF n
  <2>1. /\ pass1.objs \in Seq(Object) /\ Len(pass1.objs) = n /\ pass1.errors \in Nat
        /\ Keeps(objects, pass1)
    BY <1>4, <1>5, AssignHandlesCount, AssignHandlesDo DEF AssignPass
  <2>2. pass1.errors = 0 /\ ErrorsOf(pass2) = 0
    <3> HIDE DEF pass1, pass2
    <3> QED  BY <1>9, <2>1
  <2>3. objects' = linked /\ phase' = "linked"
    <3> HIDE DEF failures, linked, pass1
    <3> QED  BY <1>3, <1>9, <2>2
  <2>4. \A i \in 1 .. n : pass2[i] = AsmLinkObject(pass1.objs, pass1.objs[i].content)
    <3> HIDE DEF pass1
    <3> QED  BY <1>5
  <2>5. ASSUME NEW i \in 1 .. n PROVE pass2[i] \in LinkPass
    <3>1. pass1.objs[i].content \in Sound
      <4> HIDE DEF o
      <4>1. o[i] \in Object  BY <2>1 DEF o
      <4>2. o[i].content \in Sound  BY <4>1 DEF Object
      <4> QED  BY <4>2 DEF o
    <3> HIDE DEF pass1, pass2
    <3> QED  BY <2>1, <2>4, <3>1, LinkObjectType
  <2>6. DOMAIN pass2 = 1 .. n /\ Len(pass2) = n  BY <1>5
  <2>7. \A i \in 1 .. n : linked[i] = [o[i] EXCEPT !.content = pass2[i].content]
    <3> HIDE DEF pass1, pass2
    <3> QED  BY <1>5
  <2>8. DOMAIN linked = 1 .. n /\ Len(linked) = n  BY <1>5
  <2>9. pass1 = AsmAssignHandles(objects)  OBVIOUS
  <2> HIDE DEF pass2, linked, failures, pass1
  <2>10. \A i \in 1 .. n : pass2[i].errors = 0
    BY <1>5, <2>2, <2>5, <2>6, ErrorsOfType DEF LinkPass
  <2>11. \A i \in 1 .. n : /\ linked[i].name = o[i].name
                           /\ linked[i].handle = o[i].handle
                           /\ linked[i].content = pass2[i].content
    <3> SUFFICES ASSUME NEW i \in 1 .. n
                 PROVE  /\ linked[i].name = o[i].name
                        /\ linked[i].handle = o[i].handle
                        /\ linked[i].content = pass2[i].content
      OBVIOUS
    <3> DEFINE x == o[i]
               c == pass2[i].content
    <3>1. x \in Object  BY <2>1
    <3>2. linked[i] = [x EXCEPT !.content = c]  BY <2>7
    <3> HIDE DEF x, c
    <3>3. linked[i].name = x.name /\ linked[i].handle = x.handle /\ linked[i].content = c
      BY <3>1, <3>2, SetContentKeeps
    <3> QED  BY <3>3 DEF x, c
  <2>12. ASSUME NEW k \in 1 .. n
         PROVE  Linked(pass2[k].content.bytes, o, source[k], bigEndian)
                /\ LinkableIn(source[k], NamesOf(o))
    BY <1>4, <1>5, <1>6, <2>4, <2>9, <2>10, LinkedContents DEF CompleteAll, n
  <2>13. DOMAIN o = 1 .. n /\ Len(o) = n /\ \A k \in 1 .. n : o[k].name = source[k].name
    BY <1>4, <1>5, <2>1 DEF Keeps, Closed
  <2> HIDE DEF o
  <2>14. ASSUME NEW k \in 1 .. n
         PROVE  /\ linked[k].name = source[k].name
                /\ Linked(linked[k].content.bytes, linked, source[k], bigEndian)
    BY <1>4, <1>5, <2>8, <2>11, <2>12, <2>13, LinkedAlike
  <2>15. WordHandles(linked)
    <3>1. Accepted'  BY <2>3 DEF Accepted
    <3>2. HandlesAssigned'  BY <1>2 DEF AInv
    <3>3. \A i \in 1 .. n :
            \/ linked[i].handle = source[i].handle
            \/ linked[i].handle \in CodeFirst .. CodeLast
            \/ linked[i].handle \in DataFirst .. DataLast
      <4>1. DOMAIN linked = 1 .. n  BY <2>8
      <4> QED  BY <1>3, <2>3, <3>1, <3>2, <4>1 DEF HandlesAssigned, IsFunction
    <3>4. Len(linked) = Len(source) /\ DOMAIN linked = 1 .. Len(linked)
      BY <2>8 DEF n
    <3>5. \A i \in 1 .. Len(linked) :
            \/ linked[i].handle = source[i].handle
            \/ linked[i].handle \in CodeFirst .. CodeLast
            \/ linked[i].handle \in DataFirst .. DataLast
      BY <2>8, <3>3
    <3> QED  BY <1>6, <3>4, <3>5, HandlesAreWords
  <2>16. LinkedAll(linked, source, bigEndian)
    BY <2>8, <2>14, <2>15 DEF LinkedAll, n
  <2>17. LinkedAll(objects', source', bigEndian')  BY <1>3, <2>3, <2>16
  <2> QED  BY <1>7, <2>3, <2>17 DEF Spelled, Kind
<1> QED  BY <1>8, <1>9

LEMMA WriteOutputSpelled ==
  ASSUME MInv, AsmWriteOutput
  PROVE  Spelled'
<1>1. Spelled  BY DEF MInv
<1>2. phase = "linked" /\ UNCHANGED <<bigEndian, objects, source>>  BY DEF AsmWriteOutput
<1>3. phase' \in {"written", "writing failed"}
  BY DEF OpenFails, WriteFails, AllWritten, AsmWriteOutput
<1>4. WordHandles(source) /\ LinkedAll(objects, source, bigEndian)
  BY <1>1, <1>2 DEF Spelled, Accepted
<1>5. WordHandles(source') /\ LinkedAll(objects', source', bigEndian')  BY <1>2, <1>4
<1> QED  BY <1>3, <1>5 DEF Spelled, Kind

LEMMA MInvStep ==
  ASSUME MInv, [Next]_avars
  PROVE  MInv'
<1>0. VInv /\ VInv'  BY VInvStep DEF MInv
<1>1. /\ Names \subseteq STRING /\ Arguments \subseteq Seq(STRING)
      /\ Handles \subseteq Nat /\ Results \subseteq Nat
      /\ \A handle \in Handles : IsWord(handle)
  BY SourceAssumption
<1>2. "function" \in Kind /\ "object" \in Kind  BY DEF Kind
<1>3. CASE BeginFunction  BY <1>0, <1>1, <1>2, <1>3, BeginSpelled DEF BeginFunction, MInv
<1>4. CASE BeginObject
  <2>1. PICK name \in Names, handle \in Handles : Begin("object", name, handle, <<>>, 0)
    BY <1>4 DEF BeginObject
  <2>2. name \in STRING /\ handle \in Nat /\ IsWord(handle)  BY <1>1
  <2>3. <<>> \in Seq(STRING) /\ 0 \in Nat  OBVIOUS
  <2>4. Spelled'  BY <1>2, <2>1, <2>2, <2>3, BeginSpelled
  <2> QED  BY <1>0, <2>4 DEF MInv
<1>5. CASE \E item \in Items : ParseItem(item)
  BY <1>0, <1>5, ParseItemSpelled DEF MInv
<1>6. CASE EndFunction  BY <1>0, <1>6, EndFunctionSpelled DEF MInv
<1>7. CASE EndObject  BY <1>0, <1>7, EndObjectSpelled DEF MInv
<1>8. CASE EndOfInput  BY <1>0, <1>8, EndOfInputSpelled DEF MInv
<1>9. CASE OutOfMemory  BY <1>0, <1>9, OutOfMemorySpelled DEF MInv
<1>10. CASE AsmLink  BY <1>0, <1>10, AsmLinkSpelled DEF MInv
<1>11. CASE AsmWriteOutput  BY <1>0, <1>11, WriteOutputSpelled DEF MInv
<1>12. CASE UNCHANGED avars  BY <1>0, <1>12 DEF MInv, avars, Spelled, Accepted
<1> QED  BY <1>3, <1>4, <1>5, <1>6, <1>7, <1>8, <1>9, <1>10, <1>11, <1>12 DEF Next

\* What tinyasm accepts it assembles to what it says.  Header, opcodes and plain
\* operands are written where the machine reads them, in either byte order, and
\* stay there when code is prepended, appended and merged; every reference is
\* relocated to what its name stands for, once and within its own bytes
\* (AsmCodeAddMetadata, AsmCodePrependByte, AsmCodeMerge, AsmLinkObject,
\* AsmCodeApplyRelocation).
THEOREM OutputIsRight == Spec => []OutputMeansSource
<1>1. Init => MInv  BY InitVerdict, InitSpelled DEF MInv
<1>2. MInv /\ [Next]_avars => MInv'  BY MInvStep
<1>3. MInv => OutputMeansSource  BY SourceMeant
<1> QED  BY <1>1, <1>2, <1>3, PTL DEF Spec

----------------------------------------------------------------------------
(***************************************************************************)
(* The unit: where the chunks are in the bytes of the file.                *)
(***************************************************************************)

\* ends[i] is the length of the first i parts, one after the other.
Ends(seqs, ends) ==
  /\ ends \in [0 .. Len(seqs) -> Nat] /\ ends[0] = 0
  /\ \A i \in 1 .. Len(seqs) : ends[i] = ends[i - 1] + Len(seqs[i])

\* s is what the parts make up, as far as it goes.
Carries(s, seqs, ends) ==
  \A i \in 1 .. Len(seqs) : \A j \in 1 .. Len(seqs[i]) :
    ends[i - 1] + j <= Len(s) => s[ends[i - 1] + j] = seqs[i][j]

\* The ends do not come down.
LEMMA EndsRise ==
  ASSUME NEW seqs, Len(seqs) \in Nat, \A i \in 1 .. Len(seqs) : Len(seqs[i]) \in Nat,
         NEW ends, Ends(seqs, ends), NEW i \in 0 .. Len(seqs), NEW k \in 0 .. Len(seqs), i <= k
  PROVE  ends[i] <= ends[k]
<1> DEFINE n == Len(seqs)
           P == {x \in 0 .. n : i <= x => ends[i] <= ends[x]}
<1>1. /\ ends \in [0 .. n -> Nat]
      /\ \A x \in 1 .. n : ends[x] = ends[x - 1] + Len(seqs[x])
  BY DEF Ends
<1>2. n \in Nat /\ \A x \in 1 .. n : Len(seqs[x]) \in Nat  OBVIOUS
<1>3. i \in 0 .. n /\ k \in 0 .. n  OBVIOUS
<1> HIDE DEF n
<1>4. 0 \in P  BY <1>1, <1>2, <1>3
<1>5. ASSUME NEW x \in 1 .. n, x - 1 \in P PROVE x \in P
  <2>1. x \in 0 .. n /\ x - 1 \in 0 .. n /\ i \in Int /\ x \in Int  BY <1>2, <1>3
  <2>2. ends[x - 1] \in Nat /\ ends[x] \in Nat /\ ends[i] \in Nat  BY <1>1, <1>3, <2>1
  <2>3. ends[x - 1] <= ends[x]
    <3>1. ends[x] = ends[x - 1] + Len(seqs[x])  BY <1>1
    <3>2. Len(seqs[x]) \in Nat  BY <1>2
    <3> QED  BY <2>2, <3>1, <3>2
  <2>4. i <= x => i = x \/ i <= x - 1  BY <2>1
  <2>5. i <= x - 1 => ends[i] <= ends[x - 1]  BY <1>5
  <2>6. i <= x => ends[i] <= ends[x]  BY <2>2, <2>3, <2>4, <2>5
  <2> QED  BY <2>1, <2>6
<1> HIDE DEF P
<1>6. k \in P  BY <1>2, <1>3, <1>4, <1>5, CountingUp
<1> QED  BY <1>6 DEF P

LEMMA InBetween ==
  ASSUME NEW a \in Nat, NEW b \in Nat, NEW c \in Nat, NEW e \in Nat, b = a + c, b <= e,
         NEW j \in 1 .. c
  PROVE  a + j \in 1 .. e /\ a + j <= e
OBVIOUS

LEMMA FlattenCarries ==
  ASSUME NEW S, NEW seqs \in Seq(Seq(S))
  PROVE  \E ends : /\ Ends(seqs, ends) /\ Len(FlattenSeq(seqs)) = ends[Len(seqs)]
                   /\ Carries(FlattenSeq(seqs), seqs, ends)
<1> DEFINE n == Len(seqs)
           f == FlattenSeq(seqs)
<1>1. n \in Nat /\ \A i \in 1 .. n : seqs[i] \in Seq(S) /\ Len(seqs[i]) \in Nat  OBVIOUS
<1>2. CASE n = 0
  <2> DEFINE ends == [i \in 0 .. 0 |-> 0]
  <2>1. f = <<>>  BY <1>2 DEF FlattenSeq
  <2>2. Ends(seqs, ends) /\ ends[n] = 0 /\ Len(f) = 0  BY <1>2, <2>1 DEF Ends
  <2>3. Carries(f, seqs, ends)  BY <1>2 DEF Carries
  <2> QED  BY <2>2, <2>3
<1>3. CASE n # 0
  <2>1. PICK flat : /\ f = flat[n]
                    /\ flat[1] = seqs[1]
                    /\ \A i \in 2 .. n : flat[i] = flat[i - 1] \o seqs[i]
                    /\ \A i \in 1 .. n : flat[i] \in Seq(S)
    BY <1>3, FlattenRuns
  <2> DEFINE ends == [i \in 0 .. n |-> IF i = 0 THEN 0 ELSE Len(flat[i])]
             m == n - 1
             P == {k \in 0 .. m : \A i \in 1 .. k + 1 : \A j \in 1 .. Len(seqs[i]) :
                                    flat[k + 1][ends[i - 1] + j] = seqs[i][j]}
  <2> HIDE DEF n, f
  <2>2. m \in Nat /\ m + 1 = n /\ 1 \in 1 .. n  BY <1>1, <1>3
  <2>3. \A i \in 1 .. n : Len(flat[i]) \in Nat  BY <2>1
  <2>4. ends \in [0 .. n -> Nat] /\ ends[0] = 0 /\ \A i \in 1 .. n : ends[i] = Len(flat[i])
    BY <1>1, <2>3
  <2> HIDE DEF ends
  <2>5. ASSUME NEW i \in 1 .. n PROVE ends[i] = ends[i - 1] + Len(seqs[i])
    <3>1. CASE i = 1  BY <2>1, <2>4, <1>1, <3>1
    <3>2. CASE i # 1
      <4>1. i \in 2 .. n /\ i - 1 \in 1 .. n  BY <1>1, <3>2
      <4>2. flat[i] = flat[i - 1] \o seqs[i] /\ flat[i - 1] \in Seq(S) /\ seqs[i] \in Seq(S)
        BY <1>1, <2>1, <4>1
      <4>3. Len(flat[i]) = Len(flat[i - 1]) + Len(seqs[i])  BY <4>2, Concat
      <4> QED  BY <2>4, <4>1, <4>3
    <3> QED  BY <3>1, <3>2
  <2>6. Ends(seqs, ends)  BY <2>4, <2>5 DEF Ends, n
  <2>7. 0 \in P  BY <2>1, <2>2, <2>4
  <2>8. ASSUME NEW k \in 1 .. m, k - 1 \in P PROVE k \in P
    <3> DEFINE s == flat[k]
               t == seqs[k + 1]
    <3>1. k \in 1 .. n /\ k + 1 \in 2 .. n /\ k + 1 \in 1 .. n /\ (k + 1) - 1 = k /\ (k - 1) + 1 = k
          /\ k \in 0 .. m
      BY <2>2, <1>1
    <3>2. flat[k + 1] = s \o t /\ s \in Seq(S) /\ t \in Seq(S) /\ ends[k] = Len(s)
      BY <1>1, <2>1, <2>4, <3>1
    <3>3. \A i \in 1 .. k : \A j \in 1 .. Len(seqs[i]) : s[ends[i - 1] + j] = seqs[i][j]
      BY <2>8, <3>1
    <3> HIDE DEF s, t
    <3>4. /\ \A p \in 1 .. Len(s) : (s \o t)[p] = s[p]
          /\ \A j \in 1 .. Len(t) : (s \o t)[Len(s) + j] = t[j]
      BY <3>2, Concat
    <3>5. ASSUME NEW i \in 1 .. k, NEW j \in 1 .. Len(seqs[i])
          PROVE  (s \o t)[ends[i - 1] + j] = seqs[i][j]
      <4>1. i \in 1 .. n /\ i - 1 \in 0 .. n /\ i \in 0 .. n /\ k \in 0 .. n /\ i <= k
        BY <1>1, <3>1
      <4>2. ends[i - 1] \in Nat /\ ends[i] \in Nat /\ Len(seqs[i]) \in Nat  BY <1>1, <2>4, <4>1
      <4>3. ends[i] = ends[i - 1] + Len(seqs[i])  BY <2>5, <4>1
      <4>4. ends[i] <= ends[k]  BY <1>1, <2>6, <4>1, EndsRise DEF n
      <4>5. ends[i - 1] + j \in 1 .. ends[k]
        <5>1. ends[k] \in Nat  BY <2>4, <4>1
        <5> QED  BY <4>2, <4>3, <4>4, <5>1, InBetween
      <4>6. ends[i - 1] + j \in 1 .. Len(s)  BY <3>2, <4>5
      <4> QED  BY <3>3, <3>4, <4>6
    <3>6. \A j \in 1 .. Len(t) : (s \o t)[ends[(k + 1) - 1] + j] = t[j]
      BY <3>1, <3>2, <3>4
    <3>7. \A i \in 1 .. k + 1 : i \in 1 .. k \/ i = k + 1  BY <3>1
    <3>8. \A i \in 1 .. k + 1 : \A j \in 1 .. Len(seqs[i]) :
            flat[k + 1][ends[i - 1] + j] = seqs[i][j]
      BY <3>2, <3>5, <3>6, <3>7 DEF t
    <3> QED  BY <3>1, <3>8
  <2> HIDE DEF P, m
  <2>9. m \in P
    <3>1. m \in 0 .. m  BY <2>2
    <3> QED  BY <2>2, <2>7, <2>8, <3>1, CountingUp
  <2>10. \A i \in 1 .. n : \A j \in 1 .. Len(seqs[i]) : f[ends[i - 1] + j] = seqs[i][j]
    BY <2>1, <2>2, <2>9 DEF P
  <2>11. Carries(f, seqs, ends)  BY <2>10 DEF Carries, n
  <2>12. Len(f) = ends[n]  BY <2>1, <2>2, <2>4, <1>1, <1>3
  <2> QED  BY <2>6, <2>11, <2>12 DEF n, f
<1> QED  BY <1>2, <1>3

\* The ends of what is in front of a place depend on it alone.
LEMMA EndsOfPrefix ==
  ASSUME NEW seqs, NEW m \in Nat, m <= Len(seqs), Len(seqs) \in Nat, NEW front, Len(front) = m,
         \A i \in 1 .. m : front[i] = seqs[i],
         NEW ends, Ends(seqs, ends), NEW fends, Ends(front, fends), NEW k \in 0 .. m
  PROVE  fends[k] = ends[k]
<1> DEFINE P == {x \in 0 .. m : fends[x] = ends[x]}
<1>1. /\ ends[0] = 0 /\ \A i \in 1 .. m : ends[i] = ends[i - 1] + Len(seqs[i])
      /\ fends[0] = 0 /\ \A i \in 1 .. m : fends[i] = fends[i - 1] + Len(front[i])
  BY SMTT(20) DEF Ends
<1>2. 0 \in P  BY <1>1
<1>3. ASSUME NEW i \in 1 .. m, i - 1 \in P PROVE i \in P
  <2>1. fends[i - 1] = ends[i - 1] /\ front[i] = seqs[i] /\ i \in 0 .. m  BY <1>3
  <2>2. fends[i] = fends[i - 1] + Len(front[i]) /\ ends[i] = ends[i - 1] + Len(seqs[i])
    BY <1>1
  <2> QED  BY <2>1, <2>2
<1> HIDE DEF P
<1>4. k \in P  BY <1>2, <1>3, CountingUp
<1> QED  BY <1>4 DEF P

\* What was cut off within a part is still what the parts make up, but shorter.
LEMMA CutCarries ==
  ASSUME NEW S, NEW seqs \in Seq(Seq(S)), NEW ends, Ends(seqs, ends),
         NEW m \in 0 .. Len(seqs) - 1, NEW k \in 0 .. Len(seqs[m + 1]) - 1
  PROVE  LET s == FlattenSeq(SubSeq(seqs, 1, m)) \o SubSeq(seqs[m + 1], 1, k)
         IN  s \in Seq(S) /\ Len(s) < ends[Len(seqs)] /\ Carries(s, seqs, ends)
<1> DEFINE n == Len(seqs)
           front == SubSeq(seqs, 1, m)
           f == FlattenSeq(front)
           next == seqs[m + 1]
           t == SubSeq(next, 1, k)
           s == f \o t
<1>1. n \in Nat /\ \A i \in 1 .. n : seqs[i] \in Seq(S) /\ Len(seqs[i]) \in Nat  OBVIOUS
<1>2. m \in Nat /\ m + 1 \in 1 .. n /\ m <= n /\ m \in 0 .. n /\ (m + 1) - 1 = m  BY <1>1
<1>3. next \in Seq(S) /\ Len(next) \in Nat  BY <1>1, <1>2
<1>4. front \in Seq(Seq(S)) /\ Len(front) = m /\ \A i \in 1 .. m : front[i] = seqs[i]
  BY <1>2
<1>5. k \in Nat /\ k < Len(next)  BY <1>3
<1>6. t \in Seq(S) /\ Len(t) = k /\ \A j \in 1 .. k : t[j] = next[j]
  <2> HIDE DEF next
  <2> QED  BY <1>3, <1>5
<1> HIDE DEF front, t, n
<1>7. f \in Seq(S)  BY <1>4, FlattenType
<1>8. PICK fends : /\ Ends(front, fends) /\ Len(f) = fends[Len(front)]
                   /\ Carries(f, front, fends)
  BY <1>4, FlattenCarries
<1>9. \A x \in 0 .. m : fends[x] = ends[x]
  <2>1. m \in Nat /\ m <= Len(seqs) /\ Len(seqs) \in Nat  BY <1>1, <1>2 DEF n
  <2>2. Len(front) = m /\ (\A i \in 1 .. m : front[i] = seqs[i]) /\ Ends(front, fends)
    BY <1>4, <1>8
  <2> SUFFICES ASSUME NEW x \in 0 .. m PROVE fends[x] = ends[x]  OBVIOUS
  <2> QED  BY <2>1, <2>2, EndsOfPrefix
<1> HIDE DEF f
<1>10. Len(f) = ends[m] /\ ends[m] \in Nat  BY <1>2, <1>4, <1>8, <1>9 DEF Ends, n
<1>11. /\ s \in Seq(S) /\ Len(s) = ends[m] + k
       /\ \A i \in 1 .. ends[m] : s[i] = f[i]
       /\ \A i \in 1 .. k : s[ends[m] + i] = t[i]
  <2>1. /\ f \o t \in Seq(S) /\ Len(f \o t) = Len(f) + Len(t)
        /\ \A i \in 1 .. Len(f) : (f \o t)[i] = f[i]
        /\ \A i \in 1 .. Len(t) : (f \o t)[Len(f) + i] = t[i]
    <3>1. t \in Seq(S)  BY <1>6
    <3> HIDE DEF s, next
    <3> QED  BY <1>7, <3>1, Concat
  <2>2. Len(f) = ends[m] /\ Len(t) = k  BY <1>6, <1>10
  <2> QED  BY <2>1, <2>2
<1> HIDE DEF s
<1>12. /\ ends \in [0 .. n -> Nat]
       /\ \A i \in 1 .. n : ends[i] = ends[i - 1] + Len(seqs[i])
  BY DEF Ends, n
<1>13. ends[m + 1] = ends[m] + Len(next)  BY <1>2, <1>12
<1>14. \A x, y \in 0 .. n : x <= y => ends[x] <= ends[y]
  BY <1>1, EndsRise DEF n
<1> HIDE DEF next
<1>15. Len(s) < ends[m + 1] /\ ends[m + 1] <= ends[n]
  BY <1>1, <1>2, <1>3, <1>5, <1>10, <1>11, <1>13, <1>14
<1>16. Len(s) < ends[n]
  <2>1. ends[n] \in Nat /\ ends[m + 1] \in Nat  BY <1>1, <1>2, <1>12
  <2> QED  BY <1>5, <1>10, <1>11, <1>15, <2>1, SMTT(20)
<1>17. ASSUME NEW i \in 1 .. n, NEW j \in 1 .. Len(seqs[i]), ends[i - 1] + j <= Len(s)
       PROVE  s[ends[i - 1] + j] = seqs[i][j]
  <2>1. /\ i \in 0 .. n /\ i - 1 \in 0 .. n /\ ends[i - 1] \in Nat /\ ends[i] \in Nat
        /\ Len(seqs[i]) \in Nat /\ j \in Nat /\ j > 0 /\ j <= Len(seqs[i])
    BY <1>1, <1>12
  <2>2. CASE i <= m
    <3>1. i \in 1 .. m /\ i - 1 \in 0 .. m  BY <1>2, <2>2
    <3>2. ends[i] <= ends[m]  BY <1>2, <1>14, <2>1, <2>2
    <3>3. ends[i] = ends[i - 1] + Len(seqs[i])  BY <1>12
    <3>4. ends[i - 1] + j \in 1 .. ends[m] /\ ends[i - 1] + j <= Len(f)
      <4>1. ends[m] \in Nat /\ Len(f) = ends[m]  BY <1>10
      <4>2. ends[i - 1] + j \in 1 .. ends[m] /\ ends[i - 1] + j <= ends[m]
        BY <2>1, <3>2, <3>3, <4>1, InBetween
      <4> QED  BY <4>1, <4>2
    <3>5. s[ends[i - 1] + j] = f[ends[i - 1] + j]  BY <1>11, <3>4
    <3>6. front[i] = seqs[i] /\ fends[i - 1] = ends[i - 1]  BY <1>4, <1>9, <3>1
    <3>7. f[fends[i - 1] + j] = front[i][j]  BY <1>4, <1>8, <3>1, <3>4, <3>6 DEF Carries
    <3> QED  BY <3>5, <3>6, <3>7
  <2>3. CASE i = m + 1
    <3>1. i - 1 = m /\ seqs[i] = next  BY <1>2, <2>3 DEF next
    <3>2. j <= k  BY <1>5, <1>10, <1>11, <1>17, <2>1, <3>1
    <3>3. j \in 1 .. k  BY <1>5, <2>1, <3>2
    <3> QED  BY <1>6, <1>11, <3>1, <3>3
  <2>4. CASE i > m + 1
    <3>1. m + 1 <= i - 1 /\ m + 1 \in 0 .. n  BY <1>1, <1>2, <2>4
    <3>2. ends[m + 1] <= ends[i - 1]  BY <1>14, <2>1, <3>1
    <3>3. Len(s) \in Nat /\ ends[m + 1] \in Nat
      <4>1. Len(s) = ends[m] + k /\ ends[m] \in Nat /\ k \in Nat  BY <1>5, <1>10, <1>11
      <4>2. ends[m + 1] \in Nat  BY <1>12, <3>1
      <4> QED  BY <4>1, <4>2
    <3> QED  BY <1>15, <1>17, <2>1, <3>2, <3>3
  <2> QED  BY <1>2, <2>2, <2>3, <2>4
<1>18. Carries(s, seqs, ends)  BY <1>17 DEF Carries, n
<1> QED  BY <1>11, <1>16, <1>18 DEF s, f, front, t, next, n

LEMMA FourPartsAre ==
  ASSUME NEW a \in Seq(Byte), NEW b \in Seq(Byte), NEW c \in Seq(Byte), NEW d \in Seq(Byte),
         NEW s, s = a \o b \o c \o d
  PROVE  /\ s \in Seq(Byte) /\ Len(s) = Len(a) + Len(b) + Len(c) + Len(d)
         /\ \A j \in 1 .. Len(a) : s[j] = a[j]
         /\ \A j \in 1 .. Len(b) : s[Len(a) + j] = b[j]
         /\ \A j \in 1 .. Len(c) : s[Len(a) + Len(b) + j] = c[j]
         /\ \A j \in 1 .. Len(d) : s[Len(a) + Len(b) + Len(c) + j] = d[j]
<1> DEFINE x == a \o b
           y == x \o c
           z == y \o d
<1>1. Len(a) \in Nat /\ Len(b) \in Nat /\ Len(c) \in Nat /\ Len(d) \in Nat  OBVIOUS
<1>2. /\ x \in Seq(Byte) /\ Len(x) = Len(a) + Len(b)
      /\ \A j \in 1 .. Len(a) : x[j] = a[j]
      /\ \A j \in 1 .. Len(b) : x[Len(a) + j] = b[j]
  BY Concat
<1> HIDE DEF x
<1>3. /\ y \in Seq(Byte) /\ Len(y) = Len(x) + Len(c)
      /\ \A j \in 1 .. Len(x) : y[j] = x[j]
      /\ \A j \in 1 .. Len(c) : y[Len(x) + j] = c[j]
  <2>1. x \in Seq(Byte)  BY <1>2
  <2> HIDE DEF z
  <2> QED  BY <2>1, Concat
<1> HIDE DEF y
<1>4. /\ z \in Seq(Byte) /\ Len(z) = Len(y) + Len(d)
      /\ \A j \in 1 .. Len(y) : z[j] = y[j]
      /\ \A j \in 1 .. Len(d) : z[Len(y) + j] = d[j]
  <2>1. y \in Seq(Byte)  BY <1>3
  <2> QED  BY <2>1, Concat
<1> HIDE DEF z
<1>5. Len(z) = Len(a) + Len(b) + Len(c) + Len(d)  BY <1>1, <1>2, <1>3, <1>4
<1>6. \A j \in 1 .. Len(a) : z[j] = a[j]  BY <1>1, <1>2, <1>3, <1>4
<1>7. \A j \in 1 .. Len(b) : z[Len(a) + j] = b[j]
  <2> SUFFICES ASSUME NEW j \in 1 .. Len(b) PROVE z[Len(a) + j] = b[j]  OBVIOUS
  <2>1. Len(a) + j \in 1 .. Len(x) /\ Len(a) + j \in 1 .. Len(y)  BY <1>1, <1>2, <1>3
  <2> QED  BY <1>2, <1>3, <1>4, <2>1
<1>8. \A j \in 1 .. Len(c) : z[Len(a) + Len(b) + j] = c[j]  BY <1>1, <1>2, <1>3, <1>4
<1>9. \A j \in 1 .. Len(d) : z[Len(a) + Len(b) + Len(c) + j] = d[j]
  BY <1>1, <1>2, <1>3, <1>4
<1> QED  BY <1>4, <1>5, <1>6, <1>7, <1>8, <1>9 DEF x, y, z

LEMMA ObjectFields ==
  ASSUME NEW obj \in Object
  PROVE  /\ obj.kind \in Kind /\ obj.handle \in Nat /\ VmQualifiers[obj.kind] \in {1, 6}
         /\ obj.content.bytes \in Seq(Byte) /\ Len(obj.content.bytes) \in Nat
<1>1. obj.kind \in Kind /\ obj.handle \in Nat /\ obj.content \in Sound  BY DEF Object
<1>2. VmQualifiers[obj.kind] \in {1, 6}  BY <1>1 DEF VmQualifiers, Kind
<1> DEFINE c == obj.content
<1>3. c \in Sound  BY <1>1
<1> HIDE DEF c
<1>4. c.bytes \in Seq(Byte) /\ Len(c.bytes) \in Nat  BY <1>3, SoundHas
<1> QED  BY <1>1, <1>2, <1>4 DEF c

LEMMA HeaderIs ==
  ASSUME NEW obj \in Object
  PROVE  LET h == ObjectHeader(obj)
         IN  /\ h \in Seq(Byte) /\ Len(h) = 16
             /\ \A j \in 1 .. 4 :
                  /\ h[j] = Encoded(VM_TAG_OBJECT, 4)[j]
                  /\ h[4 + j] = Encoded(VmQualifiers[obj.kind], 4)[j]
                  /\ h[8 + j] = Encoded(obj.handle, 4)[j]
                  /\ h[12 + j] = Encoded(Len(obj.content.bytes), 4)[j]
<1> DEFINE a == Encoded(VM_TAG_OBJECT, 4)
           b == Encoded(VmQualifiers[obj.kind], 4)
           c == Encoded(obj.handle, 4)
           d == Encoded(Len(obj.content.bytes), 4)
<1>1. \A v \in Int : Encoded(v, 4) \in Seq(Byte) /\ Len(Encoded(v, 4)) = 4
  BY EncodedType
<1>2. VM_TAG_OBJECT \in Int  BY DEF VM_TAG_OBJECT
<1>3. VmQualifiers[obj.kind] \in Int /\ obj.handle \in Int /\ Len(obj.content.bytes) \in Int
  BY ObjectFields
<1>4. /\ a \in Seq(Byte) /\ Len(a) = 4 /\ b \in Seq(Byte) /\ Len(b) = 4
      /\ c \in Seq(Byte) /\ Len(c) = 4 /\ d \in Seq(Byte) /\ Len(d) = 4
  BY <1>1, <1>2, <1>3
<1>5. ObjectHeader(obj) = a \o b \o c \o d  BY DEF ObjectHeader
<1> HIDE DEF a, b, c, d
<1> DEFINE s == a \o b \o c \o d
<1>6. /\ s \in Seq(Byte) /\ Len(s) = Len(a) + Len(b) + Len(c) + Len(d)
      /\ \A j \in 1 .. Len(a) : s[j] = a[j]
      /\ \A j \in 1 .. Len(b) : s[Len(a) + j] = b[j]
      /\ \A j \in 1 .. Len(c) : s[Len(a) + Len(b) + j] = c[j]
      /\ \A j \in 1 .. Len(d) : s[Len(a) + Len(b) + Len(c) + j] = d[j]
  <2>1. a \in Seq(Byte)  BY <1>4
  <2>2. b \in Seq(Byte)  BY <1>4
  <2>3. c \in Seq(Byte)  BY <1>4
  <2>4. d \in Seq(Byte)  BY <1>4
  <2>5. s = a \o b \o c \o d  OBVIOUS
  <2> HIDE DEF s
  <2> QED  BY <2>1, <2>2, <2>3, <2>4, <2>5, FourPartsAre
<1> HIDE DEF s
<1>7. /\ s \in Seq(Byte) /\ Len(s) = 16
      /\ \A j \in 1 .. 4 : s[j] = a[j] /\ s[4 + j] = b[j] /\ s[8 + j] = c[j] /\ s[12 + j] = d[j]
  BY <1>4, <1>6
<1> QED  BY <1>5, <1>7 DEF s, a, b, c, d

LEMMA EntryIsInt ==
  ASSUME objects \in Seq(Object)
  PROVE  Entry \in Int
<1>1. CASE Lookup(objects, Main) = 0  BY <1>1 DEF Entry, NullHandle
<1>2. CASE Lookup(objects, Main) # 0
  <2>1. Len(objects) \in Nat  OBVIOUS
  <2> DEFINE i == Lookup(objects, Main)
  <2>2. i \in 1 .. Len(objects)  BY <1>2, <2>1, LookupIn
  <2>3. Entry = objects[i].handle  BY <1>2 DEF Entry
  <2> HIDE DEF i
  <2>4. objects[i] \in Object  BY <2>2
  <2> QED  BY <2>3, <2>4 DEF Object
<1> QED  BY <1>1, <1>2

LEMMA FrameIs ==
  ASSUME objects \in Seq(Object)
  PROVE  /\ AsmWritePrologue \in Seq(Byte) /\ Len(AsmWritePrologue) = 12
         /\ \A j \in 1 .. 4 : /\ AsmWritePrologue[j] = Encoded(VM_TAG_UNIT, 4)[j]
                              /\ AsmWritePrologue[8 + j] = Encoded(Entry, 4)[j]
         /\ AsmWriteEpilogue = Encoded(VM_TAG_END, 4)
         /\ AsmWriteEpilogue \in Seq(Byte) /\ Len(AsmWriteEpilogue) = 4
<1> DEFINE a == Encoded(VM_TAG_UNIT, 4)
           b == Encoded(1, 2)
           c == Encoded(0, 2)
           d == Encoded(Entry, 4)
<1>1. \A v \in Int, n \in {2, 4} : Encoded(v, n) \in Seq(Byte) /\ Len(Encoded(v, n)) = n
  BY EncodedType
<1>2. VM_TAG_UNIT \in Int /\ VM_TAG_END \in Int  BY DEF VM_TAG_UNIT, VM_TAG_END
<1>3. Entry \in Int  BY EntryIsInt
<1>4. /\ a \in Seq(Byte) /\ Len(a) = 4 /\ b \in Seq(Byte) /\ Len(b) = 2
      /\ c \in Seq(Byte) /\ Len(c) = 2 /\ d \in Seq(Byte) /\ Len(d) = 4
  BY <1>1, <1>2, <1>3
<1>5. AsmWritePrologue = a \o b \o c \o d  BY DEF AsmWritePrologue
<1>6. /\ AsmWriteEpilogue = Encoded(VM_TAG_END, 4)
      /\ AsmWriteEpilogue \in Seq(Byte) /\ Len(AsmWriteEpilogue) = 4
  BY <1>1, <1>2 DEF AsmWriteEpilogue
<1> HIDE DEF a, b, c, d
<1> DEFINE s == a \o b \o c \o d
<1>7. /\ s \in Seq(Byte) /\ Len(s) = Len(a) + Len(b) + Len(c) + Len(d)
      /\ \A j \in 1 .. Len(a) : s[j] = a[j]
      /\ \A j \in 1 .. Len(d) : s[Len(a) + Len(b) + Len(c) + j] = d[j]
  <2>1. a \in Seq(Byte)  BY <1>4
  <2>2. b \in Seq(Byte)  BY <1>4
  <2>3. c \in Seq(Byte)  BY <1>4
  <2>4. d \in Seq(Byte)  BY <1>4
  <2>5. s = a \o b \o c \o d  OBVIOUS
  <2> HIDE DEF s
  <2> QED  BY <2>1, <2>2, <2>3, <2>4, <2>5, FourPartsAre
<1> HIDE DEF s
<1>8. /\ s \in Seq(Byte) /\ Len(s) = 12
      /\ \A j \in 1 .. 4 : s[j] = a[j] /\ s[8 + j] = d[j]
  BY <1>4, <1>7
<1> QED  BY <1>5, <1>6, <1>8 DEF s, a, d

\* The machine reads the words that the assembler writes.
LEMMA WordRead ==
  ASSUME NEW g \in Seq(Byte), NEW at \in Nat, bigEndian \in BOOLEAN, BigEndian(g) <=> bigEndian,
         NEW v \in Int, IsWord(v), \A j \in 1 .. 4 : g[at + j] = Encoded(v, 4)[j]
  PROVE  WordAt(g, at) = v
<1>1. ((ByteOf(v, 3) * 256 + ByteOf(v, 2)) * 256 + ByteOf(v, 1)) * 256 + ByteOf(v, 0) = v
  BY DigitsOfValue
<1>2. \A j \in 1 .. 4 : Encoded(v, 4)[j] = ByteOf(v, IF bigEndian THEN 4 - j ELSE j - 1)
  BY DEF Encoded
<1>3. 4 - 1 = 3 /\ 4 - 2 = 2 /\ 4 - 3 = 1 /\ 4 - 4 = 0 /\ 1 - 1 = 0 /\ 2 - 1 = 1 /\ 3 - 1 = 2
  OBVIOUS
<1>4. CASE bigEndian  BY <1>1, <1>2, <1>3, <1>4 DEF WordAt, Word
<1>5. CASE ~ bigEndian  BY <1>1, <1>2, <1>3, <1>5 DEF WordAt, Word
<1> QED  BY <1>4, <1>5

LEMMA WordIsNat ==
  ASSUME NEW g \in Seq(Byte), NEW at \in Nat, at + 4 <= Len(g)
  PROVE  WordAt(g, at) \in Nat
<1>1. /\ at + 1 \in 1 .. Len(g) /\ at + 2 \in 1 .. Len(g)
      /\ at + 3 \in 1 .. Len(g) /\ at + 4 \in 1 .. Len(g)
  OBVIOUS
<1>2. \A i \in 1 .. Len(g) : g[i] \in Nat
  <2>1. \A i \in 1 .. Len(g) : g[i] \in Byte  OBVIOUS
  <2>2. \A b \in Byte : b \in Nat  BY DEF Byte
  <2> QED  BY <2>1, <2>2
<1>4. g[at + 1] \in Nat /\ g[at + 2] \in Nat /\ g[at + 3] \in Nat /\ g[at + 4] \in Nat
  BY <1>1, <1>2
<1>3. \A a, b, c, d \in Nat : Word(a, b, c, d) \in Nat  BY DEF Word
<1> QED  BY <1>3, <1>4 DEF WordAt

\* The byte order is that of the assembler.
LEMMA OrderRead ==
  ASSUME bigEndian \in BOOLEAN, NEW g, g[1] = Encoded(VM_TAG_UNIT, 4)[1]
  PROVE  BigEndian(g) <=> bigEndian
<1>1. g[1] = ByteOf(VM_TAG_UNIT, IF bigEndian THEN 3 ELSE 0)  BY DEF Encoded
<1>2. ByteOf(VM_TAG_UNIT, 3) = 116
  <2>1. PlaceValue[3 + 1] = 16777216  BY DEF PlaceValue
  <2> QED  BY <2>1 DEF ByteOf, VM_TAG_UNIT
<1>3. ByteOf(VM_TAG_UNIT, 0) = 0
  <2>1. PlaceValue[0 + 1] = 1  BY DEF PlaceValue
  <2> QED  BY <2>1 DEF ByteOf, VM_TAG_UNIT
<1>4. CASE bigEndian  BY <1>1, <1>2, <1>4 DEF BigEndian
<1>5. CASE ~ bigEndian  BY <1>1, <1>3, <1>5 DEF BigEndian
<1> QED  BY <1>4, <1>5

LEMMA TagsAre ==
  /\ VM_TAG_UNIT \in Int /\ VM_TAG_OBJECT \in Int /\ VM_TAG_END \in Int
  /\ IsWord(VM_TAG_UNIT) /\ IsWord(VM_TAG_OBJECT) /\ IsWord(VM_TAG_END)
  /\ VM_TAG_OBJECT # VM_TAG_END
BY DEF VM_TAG_UNIT, VM_TAG_OBJECT, VM_TAG_END, IsWord

----------------------------------------------------------------------------
(***************************************************************************)
(* The layout of a unit, in bytes.                                         *)
(***************************************************************************)

LEMMA ObjectWriteIs ==
  ASSUME NEW obj \in Object
  PROVE  /\ AsmObjectWrite(obj) \in Seq(Seq(Byte)) /\ Len(AsmObjectWrite(obj)) \in {1, 2}
         /\ AsmObjectWrite(obj)[1] = ObjectHeader(obj)
         /\ obj.content.bytes = <<>> => Len(AsmObjectWrite(obj)) = 1
         /\ obj.content.bytes # <<>> => /\ Len(AsmObjectWrite(obj)) = 2
                                        /\ AsmObjectWrite(obj)[2] = obj.content.bytes
<1> DEFINE h == ObjectHeader(obj)
           c == obj.content.bytes
           w == AsmObjectWrite(obj)
<1>1. h \in Seq(Byte)  BY HeaderIs
<1>2. c \in Seq(Byte)  BY ObjectFields
<1>3. w = <<h>> \o (IF c = <<>> THEN <<>> ELSE <<c>>)  BY DEF AsmObjectWrite
<1> HIDE DEF h, c, w
<1>4. CASE c = <<>>  BY <1>1, <1>3, <1>4 DEF h, c, w
<1>5. CASE c # <<>>  BY <1>1, <1>2, <1>3, <1>5 DEF h, c, w
<1> QED  BY <1>4, <1>5

\* The chunks of the objects, between that of the prologue and that of the epilogue.
Chunks(q) ==
  /\ q \in [0 .. Len(objects) -> Nat] /\ q[0] = 0
  /\ \A i \in 1 .. Len(objects) : q[i] = q[i - 1] + Len(AsmObjectWrite(objects[i]))
  /\ Unit \in Seq(Seq(Byte)) /\ Len(Unit) = q[Len(objects)] + 2
  /\ Unit[1] = AsmWritePrologue /\ Unit[Len(Unit)] = AsmWriteEpilogue
  /\ \A i \in 1 .. Len(objects) : \A j \in 1 .. Len(AsmObjectWrite(objects[i])) :
       Unit[1 + (q[i - 1] + j)] = AsmObjectWrite(objects[i])[j]

LEMMA UnitChunks ==
  ASSUME objects \in Seq(Object)
  PROVE  \E q : Chunks(q)
<1> DEFINE n == Len(objects)
           T == Seq(Byte)
           W(i) == AsmObjectWrite(objects[i])
           parts == [i \in 1 .. n |-> W(i)]
           body == FlattenSeq(parts)
           P == AsmWritePrologue
           E == AsmWriteEpilogue
<1>1. n \in Nat /\ DOMAIN objects = 1 .. n /\ \A i \in 1 .. n : objects[i] \in Object
  OBVIOUS
<1>2. \A i \in 1 .. n : W(i) \in Seq(T) /\ Len(W(i)) \in Nat  BY <1>1, ObjectWriteIs
<1>3. P \in T /\ E \in T  BY FrameIs
<1>4. Unit = <<P>> \o body \o <<E>>  BY <1>1 DEF Unit
<1> HIDE DEF n, T, W, P, E
<1>5. parts \in Seq(Seq(T)) /\ Len(parts) = n /\ \A i \in 1 .. n : parts[i] = W(i)
  BY <1>1, <1>2, SeqIs
<1> HIDE DEF parts
<1>6. body \in Seq(T)  BY <1>5, FlattenType
<1>7. PICK q : Ends(parts, q) /\ Len(body) = q[Len(parts)] /\ Carries(body, parts, q)
  BY <1>5, FlattenCarries
<1> HIDE DEF body
<1>8. q \in [0 .. n -> Nat] /\ q[0] = 0 /\ \A i \in 1 .. n : q[i] = q[i - 1] + Len(W(i))
  BY <1>5, <1>7 DEF Ends
<1>9. Len(body) = q[n] /\ q[n] \in Nat
  <2>1. n \in 0 .. n  BY <1>1
  <2> QED  BY <1>5, <1>7, <1>8, <2>1
<1>10. \A i \in 1 .. n : \A j \in 1 .. Len(W(i)) :
         q[i - 1] + j \in 1 .. q[n] /\ body[q[i - 1] + j] = W(i)[j]
  <2> SUFFICES ASSUME NEW i \in 1 .. n, NEW j \in 1 .. Len(W(i))
               PROVE  q[i - 1] + j \in 1 .. q[n] /\ body[q[i - 1] + j] = W(i)[j]
    OBVIOUS
  <2>1. i \in 0 .. n /\ i - 1 \in 0 .. n /\ n \in 0 .. n /\ i <= n  BY <1>1
  <2>2. q[i] <= q[n]  BY <1>1, <1>2, <1>5, <1>7, <2>1, EndsRise
  <2>3. q[i - 1] \in Nat /\ q[i] \in Nat /\ Len(W(i)) \in Nat /\ q[i] = q[i - 1] + Len(W(i))
    BY <1>2, <1>8, <2>1
  <2>4. q[i - 1] + j \in 1 .. q[n] /\ q[i - 1] + j <= q[n]
    BY <1>9, <2>2, <2>3, InBetween
  <2> QED  BY <1>5, <1>7, <1>9, <2>4 DEF Carries
<1> DEFINE u == <<P>> \o body
           v == u \o <<E>>
<1>11. /\ u \in Seq(T) /\ Len(u) = 1 + q[n] /\ u[1] = P
       /\ \A k \in 1 .. q[n] : u[1 + k] = body[k]
  BY <1>3, <1>6, <1>9
<1> HIDE DEF u
<1>12. /\ v \in Seq(T) /\ Len(v) = q[n] + 2 /\ v[Len(v)] = E /\ v[1] = P
       /\ \A k \in 1 .. q[n] : v[1 + k] = body[k]
  BY <1>3, <1>9, <1>11
<1> HIDE DEF v
<1>13. Unit = v  BY <1>4 DEF v, u
<1>14. \A i \in 1 .. n : \A j \in 1 .. Len(W(i)) : v[1 + (q[i - 1] + j)] = W(i)[j]
  BY <1>10, <1>12
<1>15. /\ Unit \in Seq(T) /\ Len(Unit) = q[n] + 2 /\ Unit[1] = P /\ Unit[Len(Unit)] = E
       /\ \A i \in 1 .. n : \A j \in 1 .. Len(W(i)) : Unit[1 + (q[i - 1] + j)] = W(i)[j]
  BY <1>12, <1>13, <1>14
<1>16. Chunks(q)  BY <1>8, <1>15 DEF Chunks, n, T, W, P, E
<1> QED  BY <1>16

\* The bytes from an offset are those of a part, as far as there are any.
At(g, at, part) == \A j \in 1 .. Len(part) : at + j <= Len(g) => g[at + j] = part[j]

\* begin[i] is where the unit goes on after i objects: each takes a header of 16
\* bytes and its content.
Begins(begin) ==
  /\ begin \in [0 .. Len(objects) -> Nat] /\ begin[0] = 12
  /\ \A i \in 1 .. Len(objects) :
       begin[i] = begin[i - 1] + 16 + Len(objects[i].content.bytes)

\* The bytes of a unit, or of the front of it.
UnitBytes(g, begin) ==
  /\ At(g, 0, AsmWritePrologue)
  /\ \A i \in 1 .. Len(objects) : /\ At(g, begin[i - 1], ObjectHeader(objects[i]))
                                  /\ At(g, begin[i - 1] + 16, objects[i].content.bytes)
  /\ At(g, begin[Len(objects)], AsmWriteEpilogue)

LEMMA UnitLayout ==
  ASSUME objects \in Seq(Object), NEW g, NEW ends, Ends(Unit, ends), Carries(g, Unit, ends)
  PROVE  \E begin : /\ Begins(begin) /\ ends[Len(Unit)] = begin[Len(objects)] + 4
                    /\ UnitBytes(g, begin)
<1> DEFINE n == Len(objects)
           W(i) == AsmObjectWrite(objects[i])
           C(i) == objects[i].content.bytes
           H(i) == ObjectHeader(objects[i])
<1>1. n \in Nat /\ \A i \in 1 .. n : objects[i] \in Object  OBVIOUS
<1>2. PICK q : Chunks(q)  BY UnitChunks
<1>3. \A i \in 1 .. n : /\ Len(W(i)) \in {1, 2} /\ W(i)[1] = H(i) /\ Len(H(i)) = 16
                        /\ C(i) \in Seq(Byte) /\ Len(C(i)) \in Nat
                        /\ C(i) = <<>> => Len(W(i)) = 1
                        /\ C(i) # <<>> => Len(W(i)) = 2 /\ W(i)[2] = C(i)
  BY <1>1, HeaderIs, ObjectFields, ObjectWriteIs
<1>4. /\ q \in [0 .. n -> Nat] /\ q[0] = 0 /\ Len(Unit) = q[n] + 2
      /\ Unit[1] = AsmWritePrologue /\ Unit[Len(Unit)] = AsmWriteEpilogue
      /\ \A i \in 1 .. n : q[i] = q[i - 1] + Len(W(i))
      /\ \A i \in 1 .. n : \A j \in 1 .. Len(W(i)) : Unit[1 + (q[i - 1] + j)] = W(i)[j]
  BY <1>2 DEF Chunks
<1>5. Len(AsmWritePrologue) = 12 /\ Len(AsmWriteEpilogue) = 4  BY FrameIs
<1>6. /\ ends \in [0 .. Len(Unit) -> Nat] /\ ends[0] = 0
      /\ \A i \in 1 .. Len(Unit) : ends[i] = ends[i - 1] + Len(Unit[i])
      /\ \A i \in 1 .. Len(Unit) : At(g, ends[i - 1], Unit[i])
  BY DEF Ends, Carries, At
<1> DEFINE m == Len(Unit)
           begin == [i \in 0 .. n |-> ends[1 + q[i]]]
<1> HIDE DEF n, W, C, H, m
<1>7. /\ \A i \in 0 .. n : q[i] \in Nat /\ q[i] <= q[n]
      /\ m = q[n] + 2
  <2>1. \A i \in 1 .. n : q[i - 1] \in Nat /\ q[i] \in Nat /\ q[i - 1] <= q[i]
    <3> SUFFICES ASSUME NEW i \in 1 .. n
                 PROVE  q[i - 1] \in Nat /\ q[i] \in Nat /\ q[i - 1] <= q[i]
      OBVIOUS
    <3>1. i \in 0 .. n /\ i - 1 \in 0 .. n  BY <1>1
    <3>2. Len(W(i)) \in Nat  BY <1>3
    <3>3. q[i - 1] \in Nat /\ q[i] = q[i - 1] + Len(W(i))  BY <1>4, <3>1
    <3> QED  BY <3>2, <3>3
  <2> DEFINE P == {i \in 0 .. n : q[n - i] <= q[n]}
  <2>2. 0 \in P  BY <1>1, <1>4
  <2>3. ASSUME NEW i \in 1 .. n, i - 1 \in P PROVE i \in P  BY <1>1, <1>4, <2>1, <2>3
  <2> HIDE DEF P
  <2>4. \A i \in 0 .. n : i \in P  BY <1>1, <2>2, <2>3, CountingUp
  <2>5. \A i \in 0 .. n : q[i] \in Nat /\ n - i \in 0 .. n /\ n - (n - i) = i  BY <1>1, <1>4
  <2>6. \A i \in 0 .. n : q[n - (n - i)] <= q[n]  BY <2>4, <2>5 DEF P
  <2> QED  BY <1>4, <2>5, <2>6 DEF m
<1>8. /\ ends \in [0 .. m -> Nat] /\ ends[0] = 0
      /\ \A i \in 1 .. m : ends[i] = ends[i - 1] + Len(Unit[i]) /\ At(g, ends[i - 1], Unit[i])
  BY <1>6 DEF m
<1>9. \A i \in 0 .. n : 1 + q[i] \in 1 .. m /\ 1 + q[i] \in 0 .. m
  <2> SUFFICES ASSUME NEW i \in 0 .. n PROVE 1 + q[i] \in 1 .. m /\ 1 + q[i] \in 0 .. m  OBVIOUS
  <2>1. q[i] \in Nat /\ q[n] \in Nat /\ q[i] <= q[n] /\ m = q[n] + 2
    <3>1. n \in 0 .. n  BY <1>1
    <3> QED  BY <1>7, <3>1
  <2> QED  BY <2>1
<1>10. \A i \in 0 .. n : begin[i] = ends[1 + q[i]] /\ begin[i] \in Nat
  BY <1>8, <1>9
<1>11. begin \in [0 .. n -> Nat]  BY <1>10
<1> HIDE DEF begin
<1>12. begin[0] = 12
  <2>1. 0 \in 0 .. n /\ 1 + 0 = 1 /\ 1 \in 1 .. m /\ 1 - 1 = 0  BY <1>1, <1>4, <1>9
  <2>2. ends[1] = 0 + 12  BY <1>4, <1>5, <1>8, <2>1
  <2> QED  BY <1>4, <1>10, <2>1, <2>2
<1>13. ASSUME NEW i \in 1 .. n
       PROVE  /\ begin[i] = begin[i - 1] + 16 + Len(C(i))
              /\ At(g, begin[i - 1], H(i)) /\ At(g, begin[i - 1] + 16, C(i))
  <2>1. i \in 0 .. n /\ i - 1 \in 0 .. n  BY <1>1
  <2> DEFINE k == q[i - 1]
  <2>2. /\ k \in Nat /\ begin[i - 1] = ends[1 + k] /\ begin[i - 1] \in Nat
        /\ q[i] = k + Len(W(i)) /\ q[i] \in Nat /\ begin[i] = ends[1 + q[i]]
        /\ 1 + q[i] \in 1 .. m
    BY <1>4, <1>7, <1>9, <1>10, <2>1
  <2>3. \A j \in 1 .. Len(W(i)) : Unit[1 + (k + j)] = W(i)[j]  BY <1>4
  <2> HIDE DEF k
  <2>4. /\ Len(W(i)) \in {1, 2} /\ W(i)[1] = H(i) /\ Len(H(i)) = 16 /\ Len(C(i)) \in Nat
        /\ C(i) = <<>> => Len(W(i)) = 1
        /\ C(i) # <<>> => Len(W(i)) = 2 /\ W(i)[2] = C(i)
    BY <1>3
  <2>5. 2 + k \in 1 .. m /\ (2 + k) - 1 = 1 + k /\ 1 + (k + 1) = 2 + k
    BY <1>7, <2>2, <2>4
  <2>6. Unit[2 + k] = H(i)
    <3>1. 1 \in 1 .. Len(W(i))  BY <2>4
    <3> QED  BY <2>3, <2>4, <2>5, <3>1
  <2>7. At(g, begin[i - 1], H(i)) /\ ends[2 + k] = begin[i - 1] + 16
    BY <1>8, <2>2, <2>4, <2>5, <2>6
  <2>8. CASE C(i) = <<>>
    <3>1. Len(C(i)) = 0  BY <2>8
    <3>2. begin[i] = begin[i - 1] + 16
      <4>1. Len(W(i)) = 1  BY <2>4, <2>8
      <4>2. 1 + q[i] = 2 + k  BY <2>2, <4>1
      <4> QED  BY <2>2, <2>7, <4>2
    <3>3. begin[i] = begin[i - 1] + 16 + Len(C(i))  BY <2>2, <3>1, <3>2
    <3>4. At(g, begin[i - 1] + 16, C(i))  BY <3>1 DEF At
    <3> QED  BY <2>7, <3>3, <3>4
  <2>9. CASE C(i) # <<>>
    <3>1. Len(W(i)) = 2 /\ W(i)[2] = C(i)  BY <2>4, <2>9
    <3>2. 3 + k \in 1 .. m /\ (3 + k) - 1 = 2 + k /\ 1 + (k + 2) = 3 + k /\ 1 + q[i] = 3 + k
      BY <1>7, <2>2, <3>1
    <3>3. Unit[3 + k] = C(i)  BY <2>3, <3>1, <3>2
    <3>4. At(g, ends[2 + k], C(i)) /\ ends[3 + k] = ends[2 + k] + Len(C(i))
      BY <1>8, <3>2, <3>3
    <3>5. begin[i] = begin[i - 1] + 16 + Len(C(i))  BY <2>2, <2>7, <3>2, <3>4
    <3> QED  BY <2>7, <3>4, <3>5
  <2> QED  BY <2>8, <2>9
<1>14. Begins(begin)  BY <1>11, <1>12, <1>13 DEF Begins, n, C
<1>15. ends[m] = begin[n] + 4 /\ At(g, begin[n], AsmWriteEpilogue)
  <2>1. n \in 0 .. n /\ q[n] \in Nat /\ m = q[n] + 2 /\ m - 1 = 1 + q[n] /\ m \in 1 .. m
    BY <1>1, <1>7
  <2>2. ends[m - 1] = begin[n]  BY <1>10, <2>1
  <2>3. Unit[m] = AsmWriteEpilogue  BY <1>4 DEF m
  <2> QED  BY <1>5, <1>8, <2>1, <2>2, <2>3
<1>16. At(g, 0, AsmWritePrologue)
  <2>1. 1 \in 1 .. m /\ 1 - 1 = 0
    <3>1. 0 \in 0 .. n /\ 1 + 0 = 1  BY <1>1
    <3> QED  BY <1>4, <1>9, <3>1
  <2> QED  BY <1>4, <1>8, <2>1
<1>17. UnitBytes(g, begin)  BY <1>13, <1>15, <1>16 DEF UnitBytes, n, H, C
<1>18. Begins(begin) /\ ends[Len(Unit)] = begin[Len(objects)] + 4 /\ UnitBytes(g, begin)
  BY <1>14, <1>15, <1>17 DEF m, n
<1> QED  BY <1>18

----------------------------------------------------------------------------
(***************************************************************************)
(* The loader of the machine.                                              *)
(***************************************************************************)

\* What the loader makes of the bytes from an offset, given what it makes of
\* those that follow an object there.
Load(g, entry, from, at) ==
  IF IsEnd(g, at) THEN Loaded(entry, <<>>)
  ELSE IF IsObject(g, at)
  THEN Created(entry, ObjectAt(g, at), from[at + 16 + LengthAt(g, at)])
  ELSE Refused

Loads(g, entry, from) == \A at \in 0 .. Len(g) : from[at] = Load(g, entry, from, at)

LEMMA DataIs ==
  ASSUME NEW g \in Seq(Byte), NEW at \in Nat, IsObject(g, at)
  PROVE  /\ LengthAt(g, at) \in Nat /\ LengthAt(g, at) > 0
         /\ at + 16 + LengthAt(g, at) <= Len(g)
         /\ ObjectAt(g, at).data \in Seq(Byte)
         /\ Len(ObjectAt(g, at).data) = LengthAt(g, at)
         /\ \A j \in 1 .. LengthAt(g, at) : ObjectAt(g, at).data[j] = g[at + 16 + j]
<1> DEFINE c == LengthAt(g, at)
           d == SubSeq(g, at + 17, at + 16 + c)
<1>1. at + 16 <= Len(g) /\ c > 0 /\ at + 16 + c <= Len(g)
  BY DEF IsObject, Readable
<1>2. c \in Nat  BY <1>1, WordIsNat DEF LengthAt
<1>3. ObjectAt(g, at).data = d  BY DEF ObjectAt
<1> HIDE DEF c
<1>4. d \in Seq(Byte) /\ Len(d) = c /\ \A j \in 1 .. c : d[j] = g[at + 16 + j]
  BY <1>1, <1>2
<1> QED  BY <1>1, <1>2, <1>3, <1>4 DEF c

\* It looks at what follows only behind the offset.
LEMMA LoadLooksAhead ==
  ASSUME NEW g \in Seq(Byte), NEW entry, NEW at \in Nat, NEW f, NEW h,
         \A x \in at + 1 .. Len(g) : f[x] = h[x]
  PROVE  Load(g, entry, f, at) = Load(g, entry, h, at)
<1> DEFINE L(r) == Load(g, entry, r, at)
<1>3. \A r : L(r) = IF IsEnd(g, at) THEN Loaded(entry, <<>>)
                    ELSE IF IsObject(g, at)
                    THEN Created(entry, ObjectAt(g, at), r[at + 16 + LengthAt(g, at)])
                    ELSE Refused
  BY DEF Load
<1> HIDE DEF L
<1>1. CASE IsObject(g, at)
  <2> DEFINE next == at + 16 + LengthAt(g, at)
  <2>1. LengthAt(g, at) \in Nat /\ LengthAt(g, at) > 0 /\ at + 16 + LengthAt(g, at) <= Len(g)
    BY <1>1, DataIs
  <2>2. next \in at + 1 .. Len(g)  BY <2>1
  <2>3. f[next] = h[next]  BY <2>2
  <2> HIDE DEF next
  <2>4. \A r : L(r) = IF IsEnd(g, at) THEN Loaded(entry, <<>>)
                      ELSE Created(entry, ObjectAt(g, at), r[next])
    BY <1>1, <1>3 DEF next
  <2> QED  BY <2>3, <2>4 DEF L
<1>2. CASE ~ IsObject(g, at)  BY <1>2, <1>3 DEF L
<1> QED  BY <1>1, <1>2

LEMMA ObjectsRun ==
  ASSUME NEW g \in Seq(Byte), NEW entry, 12 <= Len(g)
  PROVE  \E from : Objects(g, entry) = from[12] /\ Loads(g, entry, from)
<1> DEFINE n == Len(g)
           B(f, at) == Load(g, entry, f, at)
           Is(f, k) == f = [at \in n - k .. n |-> B(f, at)]
           P == {k \in 0 .. n : \E f : Is(f, k)}
           Whole(f) == f = [at \in 0 .. n |-> B(f, at)]
           from == CHOOSE f : Whole(f)
<1>1. n \in Nat  OBVIOUS
<1>2. \A f, h : \A at \in 0 .. n :
        (\A x \in at + 1 .. n : f[x] = h[x]) => B(f, at) = B(h, at)
  BY <1>1, LoadLooksAhead
<1>3. Objects(g, entry) = from[12]  BY DEF Objects, Load
<1> HIDE DEF n, B
<1>4. 0 \in P
  <2> DEFINE h == [at \in n .. n |-> B(<<>>, at)]
  <2>1. \A at \in n .. n : B(<<>>, at) = B(h, at)  BY <1>1, <1>2
  <2>2. h = [at \in n .. n |-> h[at]] /\ \A at \in n .. n : h[at] = B(<<>>, at)  OBVIOUS
  <2> HIDE DEF h
  <2>3. h = [at \in n .. n |-> B(h, at)]  BY <2>1, <2>2
  <2>4. n - 0 = n /\ 0 \in 0 .. n  BY <1>1
  <2>5. Is(h, 0)  BY <2>3, <2>4
  <2> HIDE DEF Is
  <2> QED  BY <2>4, <2>5
<1>5. ASSUME NEW k \in 1 .. n, k - 1 \in P PROVE k \in P
  <2> DEFINE a == n - k
  <2>1. PICK f : Is(f, k - 1)  BY <1>5
  <2>2. a \in 0 .. n /\ n - (k - 1) = a + 1 /\ k \in 0 .. n /\ a \in Nat
    BY <1>1
  <2>3. f = [at \in a + 1 .. n |-> B(f, at)]  BY <2>1, <2>2
  <2> HIDE DEF a, Is
  <2> DEFINE h == [at \in a .. n |-> IF at = a THEN B(f, a) ELSE f[at]]
  <2>4. h = [at \in a .. n |-> h[at]] /\ h[a] = B(f, a) /\ \A x \in a + 1 .. n : h[x] = f[x]
    BY <1>1, <2>2
  <2> HIDE DEF h
  <2>5. ASSUME NEW at \in a .. n PROVE h[at] = B(h, at)
    <3>1. at \in 0 .. n /\ \A x \in at + 1 .. n : x \in a + 1 .. n  BY <1>1, <2>2
    <3>2. B(f, at) = B(h, at)
      <4>1. \A x \in at + 1 .. n : f[x] = h[x]  BY <2>4, <3>1
      <4> QED  BY <1>2, <3>1, <4>1
    <3>3. h[at] = B(f, at)
      <4>1. at = a \/ at \in a + 1 .. n  BY <1>1, <2>2
      <4>2. CASE at = a  BY <2>4, <4>2
      <4>3. CASE at \in a + 1 .. n  BY <2>3, <2>4, <4>3
      <4> QED  BY <4>1, <4>2, <4>3
    <3> QED  BY <3>2, <3>3
  <2>6. h = [at \in a .. n |-> B(h, at)]  BY <2>4, <2>5
  <2>7. Is(h, k)  BY <2>6 DEF Is, a
  <2> QED  BY <2>2, <2>7
<1> HIDE DEF P
<1>6. n \in P
  <2>1. n \in 0 .. n  BY <1>1
  <2> QED  BY <1>1, <1>4, <1>5, <2>1, CountingUp
<1>7. \E f : Is(f, n)
  <2> HIDE DEF Is
  <2> QED  BY <1>6 DEF P
<1>8. \E f : Whole(f)  BY <1>1, <1>7
<1>10. Whole(from)
  <2> HIDE DEF Whole
  <2> QED  BY <1>8
<1> HIDE DEF from
<1>9. \A at \in 0 .. n : from[at] = B(from, at)  BY <1>10
<1> QED  BY <1>3, <1>9 DEF n, B, Loads

\* An object as the machine keeps it.
Machine(obj) ==
  [qualifiers |-> VmQualifiers[obj.kind], handle |-> obj.handle,
   data |-> obj.content.bytes, big |-> bigEndian]

\* The words of the header of an object.
Fits(obj) == IsWord(obj.handle) /\ IsWord(Len(obj.content.bytes))

LEMMA HeaderRead ==
  ASSUME NEW g \in Seq(Byte), NEW at \in Nat, bigEndian \in BOOLEAN, BigEndian(g) <=> bigEndian,
         NEW obj \in Object, Fits(obj), At(g, at, ObjectHeader(obj))
  PROVE  /\ at + 4 <= Len(g) => WordAt(g, at) = VM_TAG_OBJECT
         /\ at + 16 <= Len(g) => /\ WordAt(g, at + 4) = VmQualifiers[obj.kind]
                                 /\ WordAt(g, at + 8) = obj.handle
                                 /\ LengthAt(g, at) = Len(obj.content.bytes)
<1> DEFINE h == ObjectHeader(obj)
           c == Len(obj.content.bytes)
           u == VmQualifiers[obj.kind]
           d == obj.handle
<1>1. /\ Len(h) = 16
      /\ \A j \in 1 .. 4 : /\ h[j] = Encoded(VM_TAG_OBJECT, 4)[j]
                           /\ h[4 + j] = Encoded(u, 4)[j]
                           /\ h[8 + j] = Encoded(d, 4)[j]
                           /\ h[12 + j] = Encoded(c, 4)[j]
  BY HeaderIs
<1>2. u \in Int /\ d \in Int /\ c \in Int /\ IsWord(u) /\ IsWord(d) /\ IsWord(c)
  <2>1. u \in {1, 6} /\ d \in Nat /\ c \in Nat  BY ObjectFields
  <2>2. IsWord(d) /\ IsWord(c)  BY DEF Fits
  <2> HIDE DEF u, d, c
  <2>3. IsWord(u)  BY <2>1 DEF IsWord
  <2> QED  BY <2>1, <2>2, <2>3
<1>3. VM_TAG_OBJECT \in Int /\ IsWord(VM_TAG_OBJECT)  BY TagsAre
<1> HIDE DEF h, c, u, d
<1>4. \A p \in 1 .. 16 : at + p <= Len(g) => g[at + p] = h[p]
  BY <1>1 DEF At, h
<1>5. ASSUME NEW k \in {0, 4, 8, 12}, at + k + 4 <= Len(g), NEW v \in Int, IsWord(v),
             \A j \in 1 .. 4 : h[k + j] = Encoded(v, 4)[j]
      PROVE  WordAt(g, at + k) = v
  <2>1. \A j \in 1 .. 4 : g[(at + k) + j] = Encoded(v, 4)[j]
    <3> SUFFICES ASSUME NEW j \in 1 .. 4 PROVE g[(at + k) + j] = Encoded(v, 4)[j]  OBVIOUS
    <3>1. k + j \in 1 .. 16 /\ at + (k + j) <= Len(g) /\ (at + k) + j = at + (k + j)
      BY <1>5
    <3> QED  BY <1>4, <1>5, <3>1
  <2>2. at + k \in Nat  OBVIOUS
  <2>3. v \in Int /\ IsWord(v)  BY <1>5
  <2>4. g \in Seq(Byte) /\ bigEndian \in BOOLEAN /\ (BigEndian(g) <=> bigEndian)  OBVIOUS
  <2> QED  BY <2>1, <2>2, <2>3, <2>4, WordRead
<1>6. ASSUME at + 4 <= Len(g) PROVE WordAt(g, at) = VM_TAG_OBJECT
  <2>1. at + 0 = at /\ at + 0 + 4 <= Len(g) /\ \A j \in 1 .. 4 : 0 + j = j  BY <1>6
  <2>2. \A j \in 1 .. 4 : h[0 + j] = Encoded(VM_TAG_OBJECT, 4)[j]  BY <1>1, <2>1
  <2>3. WordAt(g, at + 0) = VM_TAG_OBJECT  BY <1>3, <1>5, <2>1, <2>2
  <2> QED  BY <2>1, <2>3
<1>7. ASSUME at + 16 <= Len(g)
      PROVE  WordAt(g, at + 4) = u /\ WordAt(g, at + 8) = d /\ WordAt(g, at + 12) = c
  <2>1. at + 4 + 4 <= Len(g) /\ at + 8 + 4 <= Len(g) /\ at + 12 + 4 <= Len(g)  BY <1>7
  <2>2. WordAt(g, at + 4) = u  BY <1>1, <1>2, <1>5, <2>1
  <2>3. WordAt(g, at + 8) = d  BY <1>1, <1>2, <1>5, <2>1
  <2>4. WordAt(g, at + 12) = c  BY <1>1, <1>2, <1>5, <2>1
  <2> QED  BY <2>2, <2>3, <2>4
<1> QED  BY <1>6, <1>7 DEF u, d, c, LengthAt

\* Where an object begins, the loader reads it, if it is all there and not empty.
LEMMA ObjectRead ==
  ASSUME NEW g \in Seq(Byte), NEW at \in Nat, bigEndian \in BOOLEAN, BigEndian(g) <=> bigEndian,
         NEW obj \in Object, Fits(obj), At(g, at, ObjectHeader(obj)),
         At(g, at + 16, obj.content.bytes)
  PROVE  /\ ~ IsEnd(g, at)
         /\ IsObject(g, at) <=> /\ obj.content.bytes # <<>>
                                /\ at + 16 + Len(obj.content.bytes) <= Len(g)
         /\ IsObject(g, at) => /\ ObjectAt(g, at) = Machine(obj)
                               /\ LengthAt(g, at) = Len(obj.content.bytes)
<1> DEFINE s == obj.content.bytes
           c == Len(s)
<1>1. /\ at + 4 <= Len(g) => WordAt(g, at) = VM_TAG_OBJECT
      /\ at + 16 <= Len(g) => /\ WordAt(g, at + 4) = VmQualifiers[obj.kind]
                              /\ WordAt(g, at + 8) = obj.handle
                              /\ LengthAt(g, at) = c
  BY HeaderRead
<1>2. s \in Seq(Byte) /\ c \in Nat  BY ObjectFields
<1>3. At(g, at + 16, s)  OBVIOUS
<1> HIDE DEF s
<1>4. ~ IsEnd(g, at)  BY <1>1, TagsAre DEF IsEnd, HasTag, Readable
<1>5. s # <<>> <=> c > 0  BY <1>2
<1> HIDE DEF c
<1>6. IsObject(g, at) <=> at + 16 <= Len(g) /\ c > 0 /\ at + 16 + c <= Len(g)
  BY <1>1 DEF IsObject, HasTag, Readable
<1>7. IsObject(g, at) <=> c > 0 /\ at + 16 + c <= Len(g)  BY <1>2, <1>6
<1>8. ASSUME IsObject(g, at) PROVE ObjectAt(g, at) = Machine(obj) /\ LengthAt(g, at) = c
  <2>1. at + 16 <= Len(g) /\ at + 16 + c <= Len(g) /\ c > 0  BY <1>6, <1>8
  <2>2. LengthAt(g, at) = c  BY <1>1, <2>1
  <2> DEFINE d == ObjectAt(g, at).data
  <2>3. d \in Seq(Byte) /\ Len(d) = c /\ \A j \in 1 .. c : d[j] = g[at + 16 + j]
    BY <1>8, <2>2, DataIs
  <2>4. ObjectAt(g, at) = [qualifiers |-> VmQualifiers[obj.kind], handle |-> obj.handle,
                           data |-> d, big |-> BigEndian(g)]
    BY <1>1, <2>1 DEF ObjectAt
  <2> HIDE DEF d
  <2>5. \A j \in 1 .. c : d[j] = s[j]
    <3>1. \A j \in 1 .. c : (at + 16) + j <= Len(g) => g[(at + 16) + j] = s[j]
      BY <1>3 DEF At, c
    <3>2. \A j \in 1 .. c : (at + 16) + j <= Len(g)  BY <1>2, <2>1
    <3> QED  BY <2>3, <3>1, <3>2
  <2>6. d = s  BY <1>2, <2>3, <2>5 DEF c
  <2>7. BigEndian(g) = bigEndian
    <3>1. BigEndian(g) \in BOOLEAN  BY DEF BigEndian
    <3> QED  BY <3>1
  <2> QED  BY <2>2, <2>4, <2>6, <2>7 DEF Machine, s
<1> QED  BY <1>4, <1>5, <1>7, <1>8 DEF s, c

\* The objects after the first i: those that the machine keeps, and whether it does.
Rest(i) == [j \in 1 .. Len(objects) - i |-> Machine(objects[i + j])]
Good(i) ==
  \A k \in i + 1 .. Len(objects) :
    /\ objects[k].content.bytes # <<>>
    /\ \A j \in i + 1 .. Len(objects) : j # k => objects[j].handle # objects[k].handle

Result(whole, entry, i) == IF whole /\ Good(i) THEN Loaded(entry, Rest(i)) ELSE Refused

LEMMA RestGrows ==
  ASSUME objects \in Seq(Object), NEW i \in 1 .. Len(objects)
  PROVE  /\ <<Machine(objects[i])>> \o Rest(i) = Rest(i - 1)
         /\ \A h : (\A obj \in Range(Rest(i)) : obj.handle # h)
                     <=> \A k \in i + 1 .. Len(objects) : objects[k].handle # h
<1> DEFINE n == Len(objects)
           M(k) == Machine(objects[k])
           S == {M(k) : k \in 1 .. n}
           r == Rest(i)
           a == <<M(i)>>
           b == Rest(i - 1)
<1>1. n \in Nat /\ i \in 1 .. n /\ \A k \in 1 .. n : M(k).handle = objects[k].handle
  BY DEF Machine
<1>2. \A k \in 1 .. n : M(k) \in S  OBVIOUS
<1>3. r = [j \in 1 .. n - i |-> M(i + j)]  BY DEF Rest
<1>4. b = [j \in 1 .. n - (i - 1) |-> M((i - 1) + j)]  BY DEF Rest
<1> HIDE DEF M, S, r, b, n
<1>5. n - i \in Nat /\ \A j \in 1 .. n - i : i + j \in i + 1 .. n /\ i + j \in 1 .. n
  BY <1>1
<1>6. n - (i - 1) \in Nat /\ n - (i - 1) = 1 + (n - i)
      /\ \A j \in 1 .. n - (i - 1) : (i - 1) + j \in 1 .. n
  BY <1>1
<1>7. r \in Seq(S) /\ Len(r) = n - i /\ \A j \in 1 .. n - i : r[j] = M(i + j)
  BY <1>2, <1>3, <1>5, SeqIs
<1>8. b \in Seq(S) /\ Len(b) = n - (i - 1) /\ \A j \in 1 .. n - (i - 1) : b[j] = M((i - 1) + j)
  BY <1>2, <1>4, <1>6, SeqIs
<1>9. a \in Seq(S) /\ Len(a) = 1 /\ a[1] = M(i)  BY <1>1, <1>2
<1> DEFINE c == a \o r
<1>10. /\ c \in Seq(S) /\ Len(c) = 1 + (n - i) /\ c[1] = M(i)
       /\ \A j \in 1 .. n - i : c[1 + j] = M(i + j)
  <2> HIDE DEF a
  <2>1. /\ c \in Seq(S) /\ Len(c) = Len(a) + Len(r)
        /\ \A j \in 1 .. Len(a) : c[j] = a[j]
        /\ \A j \in 1 .. Len(r) : c[Len(a) + j] = r[j]
    <3>1. a \in Seq(S)  BY <1>9
    <3>2. r \in Seq(S)  BY <1>7
    <3> QED  BY <3>1, <3>2, Concat
  <2> HIDE DEF c
  <2> QED  BY <1>7, <1>9, <2>1
<1> HIDE DEF c
<1>11. c = b
  <2>1. Len(c) = Len(b)  BY <1>6, <1>8, <1>10
  <2>2. ASSUME NEW j \in 1 .. Len(c) PROVE c[j] = b[j]
    <3>1. j \in 1 .. n - (i - 1) /\ b[j] = M((i - 1) + j)  BY <1>6, <1>8, <1>10
    <3>2. CASE j = 1
      <4>1. (i - 1) + 1 = i  BY <1>1
      <4> QED  BY <1>10, <3>1, <3>2, <4>1
    <3>3. CASE j # 1
      <4>1. j - 1 \in 1 .. n - i /\ 1 + (j - 1) = j /\ i + (j - 1) = (i - 1) + j
        BY <1>1, <1>6, <3>1, <3>3
      <4>2. c[1 + (j - 1)] = M(i + (j - 1))  BY <1>10, <4>1
      <4> QED  BY <3>1, <4>1, <4>2
    <3> QED  BY <3>2, <3>3
  <2> QED  BY <1>8, <1>10, <2>1, <2>2
<1>12. \A h : (\A obj \in Range(r) : obj.handle # h)
                 <=> \A k \in i + 1 .. n : objects[k].handle # h
  <2> SUFFICES ASSUME NEW h
               PROVE  (\A obj \in Range(r) : obj.handle # h)
                        <=> \A k \in i + 1 .. n : objects[k].handle # h
    OBVIOUS
  <2>1. Range(r) = {r[j] : j \in 1 .. n - i}
    <3>1. DOMAIN r = 1 .. n - i  BY <1>7
    <3> QED  BY <3>1 DEF Range
  <2>2. (\A obj \in Range(r) : obj.handle # h) <=> \A j \in 1 .. n - i : M(i + j).handle # h
    BY <1>7, <2>1
  <2>3. \A j \in 1 .. n - i : M(i + j).handle = objects[i + j].handle  BY <1>1, <1>5
  <2>4. \A k \in i + 1 .. n : k - i \in 1 .. n - i /\ i + (k - i) = k  BY <1>1
  <2>5. (\A j \in 1 .. n - i : objects[i + j].handle # h)
          <=> \A k \in i + 1 .. n : objects[k].handle # h
    BY <1>5, <2>4
  <2> QED  BY <2>2, <2>3, <2>5
<1> QED  BY <1>11, <1>12 DEF c, a, b, r, n, M

LEMMA GoodBefore ==
  ASSUME objects \in Seq(Object), NEW i \in 1 .. Len(objects)
  PROVE  Good(i - 1) <=> /\ Good(i) /\ objects[i].content.bytes # <<>>
                         /\ \A k \in i + 1 .. Len(objects) :
                              objects[k].handle # objects[i].handle
<1> DEFINE n == Len(objects)
           H(k) == objects[k].handle
           C(k) == objects[k].content.bytes # <<>>
<1>1. n \in Nat  OBVIOUS
<1>2. /\ Good(i) <=> \A k \in i + 1 .. n : C(k) /\ \A j \in i + 1 .. n : j # k => H(j) # H(k)
      /\ Good(i - 1) <=> \A k \in i .. n : C(k) /\ \A j \in i .. n : j # k => H(j) # H(k)
  <2>1. (i - 1) + 1 = i  BY <1>1
  <2> QED  BY <2>1 DEF Good
<1> HIDE DEF H, C, n
<1>3. i \in 1 .. n  BY DEF n
<1>4. /\ i \in i .. n /\ \A k \in i + 1 .. n : k \in i .. n /\ k # i
      /\ \A k \in i .. n : k = i \/ k \in i + 1 .. n
  BY <1>1, <1>3
<1>5. ASSUME Good(i - 1) PROVE Good(i) /\ C(i) /\ \A k \in i + 1 .. n : H(k) # H(i)
  BY <1>2, <1>4, <1>5
<1>6. ASSUME Good(i), C(i), \A k \in i + 1 .. n : H(k) # H(i) PROVE Good(i - 1)
  BY <1>2, <1>4, <1>6
<1>7. Good(i - 1) <=> Good(i) /\ C(i) /\ \A k \in i + 1 .. n : H(k) # H(i)
  BY <1>5, <1>6
<1> QED  BY <1>7 DEF C, H, n

\* An object in front of the rest.
LEMMA CreatedBefore ==
  ASSUME objects \in Seq(Object), NEW i \in 1 .. Len(objects), NEW whole, NEW entry,
         objects[i].handle # 0, objects[i].content.bytes # <<>>
  PROVE  Created(entry, Machine(objects[i]), Result(whole, entry, i))
           = Result(whole, entry, i - 1)
<1> DEFINE first == Machine(objects[i])
           rest == Result(whole, entry, i)
<1>1. /\ <<first>> \o Rest(i) = Rest(i - 1)
      /\ (\A obj \in Range(Rest(i)) : obj.handle # objects[i].handle)
           <=> \A k \in i + 1 .. Len(objects) : objects[k].handle # objects[i].handle
  BY RestGrows
<1>2. first.handle = objects[i].handle /\ first.qualifiers # 0
  BY ObjectFields DEF Machine
<1> HIDE DEF first
<1>3. CASE whole /\ Good(i)
  BY <1>1, <1>2, <1>3, GoodBefore DEF Result, Loaded, Created, first, rest
<1>4. CASE ~ (whole /\ Good(i))
  BY <1>4, GoodBefore DEF Result, Refused, Created, first, rest
<1> QED  BY <1>3, <1>4

LEMMA BeginsRise ==
  ASSUME Len(objects) \in Nat, \A i \in 1 .. Len(objects) : Len(objects[i].content.bytes) \in Nat,
         NEW begin, Begins(begin), NEW k \in 0 .. Len(objects)
  PROVE  /\ begin[k] \in Nat /\ begin[Len(objects)] \in Nat
         /\ 12 <= begin[k] /\ begin[k] <= begin[Len(objects)]
<1> DEFINE n == Len(objects)
           c(i) == Len(objects[i].content.bytes)
           P == {i \in 0 .. n : 12 <= begin[i] /\ (k <= i => begin[k] <= begin[i])}
<1>1. /\ begin \in [0 .. n -> Nat] /\ begin[0] = 12
      /\ \A i \in 1 .. n : begin[i] = begin[i - 1] + 16 + c(i)
  BY DEF Begins
<1>2. n \in Nat /\ \A i \in 1 .. n : c(i) \in Nat  OBVIOUS
<1>3. k \in 0 .. n  OBVIOUS
<1> HIDE DEF n, c
<1>4. \A i \in 0 .. n : begin[i] \in Nat  BY <1>1
<1>5. 0 \in P  BY <1>1, <1>2, <1>3
<1>6. ASSUME NEW i \in 1 .. n, i - 1 \in P PROVE i \in P
  <2>1. i \in 0 .. n /\ i - 1 \in 0 .. n /\ (k <= i => k = i \/ k <= i - 1)  BY <1>2, <1>3
  <2>2. begin[i] = begin[i - 1] + 16 + c(i) /\ begin[i - 1] \in Nat /\ begin[i] \in Nat
        /\ c(i) \in Nat /\ begin[k] \in Nat
    BY <1>1, <1>2, <1>3, <1>4, <2>1
  <2>3. begin[i - 1] <= begin[i]  BY <2>2
  <2>4. 12 <= begin[i - 1] /\ (k <= i - 1 => begin[k] <= begin[i - 1])  BY <1>6
  <2>5. 12 <= begin[i] /\ (k <= i => begin[k] <= begin[i])  BY <2>1, <2>2, <2>3, <2>4
  <2> QED  BY <2>1, <2>5
<1> HIDE DEF P
<1>7. \A i \in 0 .. n : i \in P  BY <1>2, <1>5, <1>6, CountingUp
<1>8. \A i \in 0 .. n : 12 <= begin[i] /\ (k <= i => begin[k] <= begin[i])
  BY <1>7 DEF P
<1>9. n \in 0 .. n /\ k <= n  BY <1>2, <1>3
<1> QED  BY <1>3, <1>4, <1>8, <1>9 DEF n

\* The end tag, when it is all there.
LEMMA EndRead ==
  ASSUME objects \in Seq(Object), NEW g \in Seq(Byte), NEW at \in Nat, bigEndian \in BOOLEAN,
         BigEndian(g) <=> bigEndian, At(g, at, AsmWriteEpilogue), Len(g) <= at + 4
  PROVE  /\ IsEnd(g, at) <=> Len(g) = at + 4
         /\ ~ IsEnd(g, at) => ~ IsObject(g, at)
<1>1. Len(g) \in Nat  OBVIOUS
<1>2. CASE Len(g) = at + 4
  <2>1. AsmWriteEpilogue = Encoded(VM_TAG_END, 4) /\ Len(AsmWriteEpilogue) = 4  BY FrameIs
  <2>2. \A j \in 1 .. 4 : g[at + j] = Encoded(VM_TAG_END, 4)[j]  BY <1>2, <2>1 DEF At
  <2>3. VM_TAG_END \in Int /\ IsWord(VM_TAG_END)  BY TagsAre
  <2>4. g \in Seq(Byte) /\ at \in Nat /\ bigEndian \in BOOLEAN /\ (BigEndian(g) <=> bigEndian)
    OBVIOUS
  <2>5. WordAt(g, at) = VM_TAG_END  BY <2>2, <2>3, <2>4, WordRead
  <2> QED  BY <1>1, <1>2, <2>5 DEF IsEnd, HasTag, Readable
<1>3. CASE Len(g) # at + 4
  <2>1. ~ (at + 4 <= Len(g))  BY <1>1, <1>3
  <2> QED  BY <1>3, <2>1 DEF IsEnd, IsObject, HasTag, Readable
<1> QED  BY <1>2, <1>3

LEMMA TooShort ==
  ASSUME NEW length \in Nat, NEW at \in Nat, NEW c \in Nat, NEW b \in Nat, NEW e \in Nat,
         b = at + 16 + c, b <= e, ~ (at + 16 + c <= length)
  PROVE  length # e + 4
OBVIOUS

\* From the beginning of each object on, the loader finds the rest.
LEMMA FromBegin ==
  ASSUME objects \in Seq(Object), bigEndian \in BOOLEAN,
         \A k \in 1 .. Len(objects) : Fits(objects[k]) /\ objects[k].handle # 0,
         NEW g \in Seq(Byte), BigEndian(g) <=> bigEndian,
         NEW begin, Begins(begin), UnitBytes(g, begin), Len(g) <= begin[Len(objects)] + 4,
         NEW entry, NEW from, Loads(g, entry, from), NEW x \in 0 .. Len(objects), begin[x] <= Len(g)
  PROVE  from[begin[x]] = Result(Len(g) = begin[Len(objects)] + 4, entry, x)
<1> DEFINE n == Len(objects)
           C(k) == objects[k].content.bytes
           whole == Len(g) = begin[n] + 4
           R(k) == begin[k] <= Len(g) => from[begin[k]] = Result(whole, entry, k)
           P == {d \in 0 .. n : R(n - d)}
<1>1. n \in Nat /\ Len(g) \in Nat /\ \A k \in 1 .. n : objects[k] \in Object  OBVIOUS
<1>2. \A k \in 1 .. n : C(k) \in Seq(Byte) /\ Len(C(k)) \in Nat  BY <1>1, ObjectFields
<1>3. \A k \in 0 .. n : begin[k] \in Nat /\ begin[n] \in Nat /\ begin[k] <= begin[n]
  BY <1>1, <1>2, BeginsRise
<1>4. \A k \in 1 .. n : begin[k] = begin[k - 1] + 16 + Len(C(k))  BY DEF Begins
<1>5. /\ \A k \in 1 .. n : /\ At(g, begin[k - 1], ObjectHeader(objects[k]))
                           /\ At(g, begin[k - 1] + 16, C(k))
      /\ At(g, begin[n], AsmWriteEpilogue)
  BY DEF UnitBytes
<1>6. \A at \in Nat : at <= Len(g) => from[at] = Load(g, entry, from, at)
  BY <1>1 DEF Loads
<1>7. n \in 0 .. n  BY <1>1
<1>8. R(n)
  <2> DEFINE at == begin[n]
  <2>1. at \in Nat  BY <1>3, <1>7
  <2>2. At(g, at, AsmWriteEpilogue) /\ Len(g) <= at + 4  BY <1>5
  <2> HIDE DEF at, n
  <2>3. /\ IsEnd(g, at) <=> Len(g) = at + 4
        /\ ~ IsEnd(g, at) => ~ IsObject(g, at)
    BY <2>1, <2>2, EndRead
  <2>4. Good(n) /\ Rest(n) = <<>>  BY <1>1 DEF Good, Rest, n
  <2>5. ASSUME at <= Len(g) PROVE from[at] = Result(Len(g) = at + 4, entry, n)
    BY <1>6, <2>1, <2>3, <2>4, <2>5 DEF Load, Result
  <2> QED  BY <2>5 DEF at
<1>9. ASSUME NEW k \in 1 .. n, R(k) PROVE R(k - 1)
  <2> DEFINE at == begin[k - 1]
             obj == objects[k]
             s == obj.content.bytes
  <2>1. k \in 0 .. n /\ k - 1 \in 0 .. n  BY <1>1
  <2>2. at \in Nat /\ begin[k] = at + 16 + Len(s) /\ Len(s) \in Nat /\ begin[k] \in Nat
        /\ begin[n] \in Nat /\ begin[k] <= begin[n]
    BY <1>2, <1>3, <1>4, <2>1
  <2>3. /\ obj \in Object /\ Fits(obj) /\ obj.handle # 0
        /\ At(g, at, ObjectHeader(obj)) /\ At(g, at + 16, obj.content.bytes)
    BY <1>1, <1>5
  <2> HIDE DEF at, R
  <2>4. /\ ~ IsEnd(g, at)
        /\ IsObject(g, at) <=> s # <<>> /\ at + 16 + Len(s) <= Len(g)
        /\ IsObject(g, at) => ObjectAt(g, at) = Machine(obj) /\ LengthAt(g, at) = Len(s)
    BY <2>2, <2>3, ObjectRead
  <2>5. ASSUME at <= Len(g) PROVE from[at] = Result(whole, entry, k - 1)
    <3>1. from[at] = Load(g, entry, from, at)  BY <1>6, <2>2, <2>5
    <3>2. CASE IsObject(g, at)
      <4>1. s # <<>> /\ begin[k] <= Len(g) /\ LengthAt(g, at) = Len(s)
        BY <2>2, <2>4, <3>2
      <4>2. from[begin[k]] = Result(whole, entry, k)  BY <1>9, <4>1 DEF R
      <4>3. from[at + 16 + LengthAt(g, at)] = from[begin[k]]  BY <2>2, <4>1
      <4>4. from[at] = Created(entry, Machine(obj), Result(whole, entry, k))
        BY <2>4, <3>1, <3>2, <4>2, <4>3 DEF Load
      <4>5. objects \in Seq(Object) /\ k \in 1 .. Len(objects)  OBVIOUS
      <4>6. objects[k].handle # 0 /\ objects[k].content.bytes # <<>>  BY <2>3, <4>1
      <4> HIDE DEF whole, n
      <4>7. Created(entry, Machine(objects[k]), Result(whole, entry, k))
              = Result(whole, entry, k - 1)
        BY <4>5, <4>6, CreatedBefore
      <4> QED  BY <4>4, <4>7
    <3>3. CASE ~ IsObject(g, at)
      <4>1. from[at] = Refused  BY <2>4, <3>1, <3>3 DEF Load
      <4>2. ~ (whole /\ Good(k - 1))
        <5>1. CASE s = <<>>  BY <5>1, GoodBefore
        <5>2. CASE ~ (at + 16 + Len(s) <= Len(g))  BY <1>1, <2>2, <5>2, TooShort
        <5> QED  BY <2>4, <3>3, <5>1, <5>2
      <4>3. Result(whole, entry, k - 1) = Refused  BY <4>2 DEF Result
      <4> QED  BY <4>1, <4>3
    <3> QED  BY <3>2, <3>3
  <2> QED  BY <2>5 DEF at, R
<1> HIDE DEF R
<1>10. 0 \in P
  <2>1. n - 0 = n /\ 0 \in 0 .. n  BY <1>1
  <2> QED  BY <1>8, <2>1
<1>11. ASSUME NEW d \in 1 .. n, d - 1 \in P PROVE d \in P  BY <1>1, <1>9, <1>11
<1> HIDE DEF n
<1>12. R(x)
  <2>1. n - x \in 0 .. n /\ n - (n - x) = x  BY <1>1 DEF n
  <2> HIDE DEF P
  <2>2. n - x \in P  BY <1>1, <1>10, <1>11, <2>1, CountingUp
  <2>3. R(n - (n - x))  BY <2>2 DEF P
  <2> QED  BY <2>1, <2>3
<1> QED  BY <1>12 DEF R, n

\* What the loader makes of the bytes of a unit, or of the front of it.
LEMMA LoadsUnit ==
  ASSUME objects \in Seq(Object), bigEndian \in BOOLEAN, IsWord(Entry),
         \A k \in 1 .. Len(objects) : Fits(objects[k]) /\ objects[k].handle # 0,
         NEW g \in Seq(Byte),
         NEW begin, Begins(begin), UnitBytes(g, begin), Len(g) <= begin[Len(objects)] + 4
  PROVE  UnitObjects(g) = Result(Len(g) = begin[Len(objects)] + 4, Entry, 0)
<1> DEFINE n == Len(objects)
           whole == Len(g) = begin[n] + 4
<1>1. n \in Nat /\ Len(g) \in Nat /\ 0 \in 0 .. n  OBVIOUS
<1>2. begin[0] = 12  BY DEF Begins
<1>3. begin[n] \in Nat /\ 12 <= begin[n]
  <2>1. \A i \in 1 .. Len(objects) : Len(objects[i].content.bytes) \in Nat
    BY ObjectFields
  <2>2. Len(objects) \in Nat /\ 0 \in 0 .. Len(objects)  BY <1>1
  <2> QED  BY <2>1, <2>2, BeginsRise
<1>4. /\ Len(AsmWritePrologue) = 12
      /\ \A j \in 1 .. 4 : /\ AsmWritePrologue[j] = Encoded(VM_TAG_UNIT, 4)[j]
                           /\ AsmWritePrologue[8 + j] = Encoded(Entry, 4)[j]
  BY FrameIs
<1>5. At(g, 0, AsmWritePrologue)  BY DEF UnitBytes
<1>6. \A p \in 1 .. 12 : p <= Len(g) => g[p] = AsmWritePrologue[p]
  BY <1>4, <1>5 DEF At
<1>7. CASE Len(g) >= 12
  <2>1. /\ \A j \in 1 .. 4 : g[0 + j] = Encoded(VM_TAG_UNIT, 4)[j]
        /\ \A j \in 1 .. 4 : g[8 + j] = Encoded(Entry, 4)[j]
    BY <1>1, <1>4, <1>6, <1>7
  <2>2. BigEndian(g) <=> bigEndian  BY <2>1, OrderRead
  <2>3. g \in Seq(Byte) /\ bigEndian \in BOOLEAN /\ 0 \in Nat /\ 8 \in Nat  OBVIOUS
  <2>4. VM_TAG_UNIT \in Int /\ IsWord(VM_TAG_UNIT)  BY TagsAre
  <2>5. Entry \in Int /\ IsWord(Entry)  BY EntryIsInt
  <2>6. WordAt(g, 0) = VM_TAG_UNIT  BY <2>1, <2>2, <2>3, <2>4, WordRead
  <2>7. WordAt(g, 8) = Entry  BY <2>1, <2>2, <2>3, <2>5, WordRead
  <2>8. UnitObjects(g) = Objects(g, Entry)
    BY <1>1, <1>7, <2>6, <2>7 DEF UnitObjects, HasTag, Readable
  <2>9. 12 <= Len(g)  BY <1>1, <1>7
  <2>10. PICK from : Objects(g, Entry) = from[12] /\ Loads(g, Entry, from)
    BY <2>3, <2>9, ObjectsRun
  <2>11. begin[0] <= Len(g) /\ 0 \in 0 .. Len(objects)  BY <1>1, <1>2, <2>9
  <2>12. from[begin[0]] = Result(Len(g) = begin[Len(objects)] + 4, Entry, 0)
    BY <2>2, <2>10, <2>11, FromBegin
  <2> QED  BY <1>2, <2>8, <2>10, <2>12
<1>8. CASE ~ (Len(g) >= 12)  BY <1>1, <1>3, <1>8 DEF UnitObjects, Readable, Result
<1> QED  BY <1>7, <1>8

----------------------------------------------------------------------------
(***************************************************************************)
(* The file: nothing, a unit or the front of one.                          *)
(***************************************************************************)

Output ==
  /\ phase \notin {"written", "writing failed"} => file = <<>>
  /\ phase = "written" => file = Unit
  /\ phase = "writing failed" =>
       file = Unit \/ \E m \in 0 .. Len(Unit) - 1 : file = SubSeq(Unit, 1, m)

KindsMatch == Accepted => \A k \in 1 .. Len(source) : objects[k].kind = source[k].kind

FInv == MInv /\ KindsMatch /\ Output

\* The unit depends on the objects and the byte order alone.
LEMMA UnitSame ==
  ASSUME UNCHANGED <<bigEndian, objects>>
  PROVE  Unit' = Unit
<1>1. bigEndian' = bigEndian /\ objects' = objects  OBVIOUS
<1>2. \A v, n : Encoded(v, n)' = Encoded(v, n)  BY <1>1 DEF Encoded
<1>3. Entry' = Entry  BY <1>1 DEF Entry
<1>4. AsmWritePrologue' = AsmWritePrologue /\ AsmWriteEpilogue' = AsmWriteEpilogue
  BY <1>2, <1>3 DEF AsmWritePrologue, AsmWriteEpilogue
<1>5. \A obj : ObjectHeader(obj)' = ObjectHeader(obj)  BY <1>2 DEF ObjectHeader
<1>6. \A obj : AsmObjectWrite(obj)' = AsmObjectWrite(obj)  BY <1>5 DEF AsmObjectWrite
<1>7. [i \in DOMAIN objects |-> AsmObjectWrite(objects[i])]'
        = [i \in DOMAIN objects |-> AsmObjectWrite(objects[i])]
  BY <1>1, <1>6
<1> QED  BY <1>4, <1>7 DEF Unit

\* Before the output there is none.
LEMMA NoOutput ==
  ASSUME Output, phase \in Parsing \cup {"parsed"}, file' = file,
         phase' \in Parsing \cup {"parsed", "parsing failed", "linking failed"}
  PROVE  KindsMatch' /\ Output'
<1>1. file = <<>>  BY DEF Output, Parsing
<1>2. phase' \notin {"linked", "written", "writing failed"}  BY DEF Parsing
<1> QED  BY <1>1, <1>2 DEF KindsMatch, Output, Accepted

LEMMA ReductionAfter ==
  ASSUME NEW n, NEW next \in Parsing, AfterReduction(n, next)
  PROVE  phase' \in Parsing \cup {"parsed", "parsing failed", "linking failed"}
<1>1. phase' = next \/ phase' = "parsing failed"  BY DEF AfterReduction
<1> QED  BY <1>1

\* The steps of the parser leave the file alone.
LEMMA ParserOutput ==
  ASSUME Output,
         \/ BeginFunction \/ BeginObject \/ EndFunction \/ EndObject \/ EndOfInput
         \/ OutOfMemory \/ \E item \in Items : ParseItem(item)
  PROVE  KindsMatch' /\ Output'
<1> DEFINE After == phase' \in Parsing \cup {"parsed", "parsing failed", "linking failed"}
           Before == phase \in Parsing \cup {"parsed"}
<1>1. "declarations" \in Parsing /\ "function" \in Parsing /\ "object" \in Parsing
  BY DEF Parsing
<1>2. \A name, handle, args, n, p : p \in {"function", "object"} /\ Begin(p, name, handle, args, n)
        => Before /\ After /\ file' = file
  BY <1>1 DEF Begin, Undefined
<1>3. BeginFunction \/ BeginObject => Before /\ After /\ file' = file
  <2> HIDE DEF Before, After
  <2> QED  BY <1>2 DEF BeginFunction, BeginObject
<1>4. \A item : ParseItem(item) => Before /\ After /\ file' = file
  BY <1>1, ReductionAfter DEF ParseItem, Undefined, After
<1>5. \A d, c : AsmUtilDefineObject(d, c) => After
  <2> SUFFICES ASSUME NEW d, NEW c, AsmUtilDefineObject(d, c) PROVE After  OBVIOUS
  <2>1. \E n : AfterReduction(n, "declarations")  BY DEF AsmUtilDefineObject
  <2> QED  BY <1>1, <2>1, ReductionAfter
<1>6. EndFunction => Before /\ After /\ file' = file
  BY <1>1, <1>5, ReductionAfter DEF EndFunction, Undefined
<1>7. EndObject => Before /\ After /\ file' = file  BY <1>1, <1>5 DEF EndObject, Undefined
<1>8. EndOfInput => Before /\ After /\ file' = file
  BY <1>1 DEF EndOfInput, Undefined
<1>9. OutOfMemory => Before /\ After /\ file' = file  BY ReductionAfter DEF OutOfMemory
<1>10. Before /\ After /\ file' = file
  <2> HIDE DEF Before, After
  <2> QED  BY <1>3, <1>4, <1>6, <1>7, <1>8, <1>9
<1> QED  BY <1>10, NoOutput


LEMMA SetContentKind ==
  ASSUME NEW x \in Object, NEW c
  PROVE  LET y == [x EXCEPT !.content = c] IN y.kind = x.kind
BY DEF Object

\* The linker gives objects handles and contents, and keeps what they are.
LEMMA LinkOutput ==
  ASSUME MInv, Output, AsmLink
  PROVE  KindsMatch' /\ Output'
<1> DEFINE n == Len(source)
           pass1 == AsmAssignHandles(objects)
           o == pass1.objs
           pass2 == [i \in DOMAIN objects |->
                       AsmLinkObject(pass1.objs, pass1.objs[i].content)]
           failures == IF pass1.errors > 0 THEN pass1.errors ELSE ErrorsOf(pass2)
           linked == [i \in DOMAIN objects |->
                        [pass1.objs[i] EXCEPT !.content = pass2[i].content]]
<1>1. AInv  BY DEF MInv, VInv
<1>2. /\ phase = "parsed"
      /\ objects' = IF pass1.errors > 0 THEN pass1.objs ELSE linked
      /\ phase' = IF failures = 0 THEN "linked" ELSE "linking failed"
      /\ UNCHANGED <<source, file>>
  BY DEF AsmLink, Undefined
<1>3. objects \in Seq(Object) /\ source \in Seq(Declaration) /\ Matches(objects, source, n)
  BY <1>1, <1>2, AInvHas DEF Corresponds
<1>4. Len(objects) = n /\ n \in Nat /\ DOMAIN objects = 1 .. n
  BY <1>3 DEF Matches
<1>5. \A i \in 1 .. n : objects[i].kind = source[i].kind  BY <1>3 DEF Matches
<1>6. file' = <<>>  BY <1>2 DEF Output
<1>7. phase' \in {"linked", "linking failed"}
  <2> HIDE DEF failures
  <2> QED  BY <1>2
<1>8. Output'  BY <1>6, <1>7 DEF Output
<1>9. CASE failures # 0
  <2>1. phase' = "linking failed"
    <3> HIDE DEF failures
    <3> QED  BY <1>2, <1>9
  <2> QED  BY <1>8, <2>1 DEF KindsMatch, Accepted
<1>10. CASE failures = 0
  <2> HIDE DEF n
  <2>1. /\ pass1.objs \in Seq(Object) /\ Len(pass1.objs) = n /\ pass1.errors \in Nat
        /\ Assigned(objects, pass1, n)
    BY <1>3, <1>4, AssignHandlesDo DEF AssignPass
  <2>2. pass1.errors = 0
    <3> HIDE DEF pass1, pass2
    <3> QED  BY <1>10, <2>1
  <2>3. objects' = linked
    <3>1. ~ (pass1.errors > 0)
      <4> HIDE DEF pass1
      <4> QED  BY <2>2
    <3>2. objects' = IF pass1.errors > 0 THEN pass1.objs ELSE linked  BY <1>2, Zenon
    <3> HIDE DEF failures, linked, pass1, o, pass2
    <3> QED  BY <3>1, <3>2, Zenon
  <2>4. \A i \in 1 .. n : linked[i] = [o[i] EXCEPT !.content = pass2[i].content]
    <3> HIDE DEF pass1, pass2
    <3> QED  BY <1>4
  <2> HIDE DEF pass2, linked, failures, pass1
  <2>5. \A i \in 1 .. n : o[i] \in Object /\ o[i].kind = objects[i].kind
    BY <1>4, <2>1 DEF Assigned
  <2>6. ASSUME NEW i \in 1 .. n PROVE objects'[i].kind = source'[i].kind
    <3> DEFINE x == o[i]
               c == pass2[i].content
    <3>1. x \in Object /\ x.kind = source[i].kind  BY <1>5, <2>5
    <3>2. objects'[i] = [x EXCEPT !.content = c]  BY <2>3, <2>4
    <3>3. source' = source  BY <1>2
    <3> HIDE DEF x, c
    <3>4. objects'[i].kind = x.kind  BY <3>1, <3>2, SetContentKind
    <3> QED  BY <3>1, <3>3, <3>4
  <2>7. Len(source') = n  BY <1>2 DEF n
  <2>8. \A i \in 1 .. Len(source') : objects'[i].kind = source'[i].kind  BY <2>6, <2>7
  <2> QED  BY <1>8, <2>8 DEF KindsMatch
<1> QED  BY <1>9, <1>10

\* The output is the unit or the front of it.
LEMMA WriteOutput ==
  ASSUME MInv, KindsMatch, Output, AsmWriteOutput
  PROVE  KindsMatch' /\ Output'
<1>1. phase = "linked" /\ UNCHANGED <<bigEndian, objects, source>>  BY DEF AsmWriteOutput
<1>2. KindsMatch'
  <2>1. Accepted  BY <1>1 DEF Accepted
  <2> QED  BY <1>1, <2>1 DEF KindsMatch
<1>3. objects \in Seq(Object)  BY AInvHas DEF MInv, VInv
<1>4. Unit' = Unit  BY <1>1, UnitSame
<1>5. file = <<>>  BY <1>1 DEF Output
<1>6. PICK q : Chunks(q)  BY <1>3, UnitChunks
<1>7. Unit \in Seq(Seq(Byte)) /\ Len(Unit) \in Nat /\ 0 < Len(Unit)
  <2>1. Unit \in Seq(Seq(Byte))  BY <1>6 DEF Chunks
  <2>2. q[Len(objects)] \in Nat  BY <1>3, <1>6 DEF Chunks
  <2>3. Len(Unit) = q[Len(objects)] + 2  BY <1>6 DEF Chunks
  <2> QED  BY <2>1, <2>2, <2>3
<1>8. CASE OpenFails
  <2>1. phase' = "writing failed" /\ file' = <<>>  BY <1>5, <1>8 DEF OpenFails
  <2>2. SubSeq(Unit, 1, 0) = <<>> /\ 0 \in 0 .. Len(Unit) - 1  BY <1>7
  <2>3. \E m \in 0 .. Len(Unit) - 1 : file' = SubSeq(Unit, 1, m)  BY <2>1, <2>2
  <2> QED  BY <1>2, <1>4, <2>1, <2>3 DEF Output
<1>9. ASSUME NEW m \in 0 .. Len(Unit), WriteFails(m) PROVE Output'
  <2>1. phase' = "writing failed" /\ file' = SubSeq(Unit, 1, m) /\ m < Len(Unit)
    BY <1>9 DEF WriteFails
  <2>2. m \in 0 .. Len(Unit) - 1
    <3> DEFINE l == Len(Unit)
    <3>1. l \in Nat /\ m \in 0 .. l  BY <1>7
    <3>2. m < l  BY <2>1
    <3> HIDE DEF l
    <3>3. m \in 0 .. l - 1  BY <3>1, <3>2
    <3> QED  BY <3>3 DEF l
  <2>3. \E x \in 0 .. Len(Unit) - 1 : file' = SubSeq(Unit, 1, x)  BY <2>1, <2>2
  <2> QED  BY <1>4, <2>1, <2>3 DEF Output
<1>10. CASE AllWritten  BY <1>2, <1>4, <1>10 DEF AllWritten, Output
<1> QED  BY <1>2, <1>8, <1>9, <1>10 DEF AsmWriteOutput

LEMMA FInvStep ==
  ASSUME FInv, [Next]_avars
  PROVE  FInv'
<1>1. MInv /\ KindsMatch /\ Output /\ MInv'  BY MInvStep DEF FInv
<1>2. CASE AsmLink  BY <1>1, <1>2, LinkOutput DEF FInv
<1>3. CASE AsmWriteOutput  BY <1>1, <1>3, WriteOutput DEF FInv
<1>4. CASE UNCHANGED avars
  BY <1>1, <1>4, UnitSame DEF avars, KindsMatch, Accepted, Output, FInv
<1>5. CASE \/ BeginFunction \/ BeginObject \/ EndFunction \/ EndObject \/ EndOfInput
           \/ OutOfMemory \/ \E item \in Items : ParseItem(item)
  BY <1>1, <1>5, ParserOutput DEF FInv
<1> QED  BY <1>2, <1>3, <1>4, <1>5 DEF Next

LEMMA InitOutput ==
  ASSUME Init
  PROVE  KindsMatch /\ Output
<1>1. phase = "declarations" /\ file = <<>>  BY DEF Init
<1> QED  BY <1>1 DEF KindsMatch, Output, Accepted


----------------------------------------------------------------------------
(***************************************************************************)
(* What tinyvm is given.                                                   *)
(***************************************************************************)

\* Contents are shorter than 4 gigabytes: a header has a word for the length.
Sized == \A k \in DOMAIN objects : IsWord(Len(objects[k].content.bytes))

\* The handle of the entry is that of the object with the name Main.
LEMMA EntryIs ==
  ASSUME objects \in Seq(Object), DistinctNames(objects), NamesOf(objects) = Global
  PROVE  Entry = MainHandle
<1>1. /\ Lookup(objects, Main) \in 0 .. Len(objects)
      /\ Lookup(objects, Main) # 0 <=> Main \in NamesOf(objects)
  BY LookupFinds
<1>2. CASE Lookup(objects, Main) = 0
  <2>1. Main \notin Global  BY <1>1, <1>2
  <2> QED  BY <1>2, <2>1 DEF Entry, MainHandle
<1>3. CASE Lookup(objects, Main) # 0
  BY <1>1, <1>3, LookupHandle DEF HandleIn, HandleOf, Entry, MainHandle
<1> QED  BY <1>2, <1>3

\* What is known of an accepted program.
LEMMA AcceptedHas ==
  ASSUME FInv, Accepted
  PROVE  /\ objects \in Seq(Object) /\ source \in Seq(Declaration) /\ bigEndian \in BOOLEAN
         /\ Len(objects) = Len(source)
         /\ DistinctNames(objects) /\ NamesOf(objects) = Global
         /\ \A k \in 1 .. Len(objects) : /\ IsWord(objects[k].handle)
                                         /\ objects[k].kind = source[k].kind
                                         /\ Len(objects[k].content.bytes)
                                              = Position(source[k], Len(source[k].text) + 1)
<1>1. MInv /\ VInv /\ AInv /\ LinkedAll(objects, source, bigEndian)
      /\ \A k \in 1 .. Len(source) : objects[k].kind = source[k].kind
  BY DEF FInv, MInv, VInv, Spelled, KindsMatch
<1>2. objects \in Seq(Object) /\ source \in Seq(Declaration) /\ bigEndian \in BOOLEAN
  BY <1>1, AInvHas
<1>3. Len(objects) = Len(source) /\ WordHandles(objects)
      /\ \A k \in 1 .. Len(source) : objects[k].name = source[k].name
  BY <1>1 DEF LinkedAll
<1>4. NamesOf(objects) = Global  BY <1>2, <1>3, NamesOfSource
<1>5. DOMAIN source = 1 .. Len(source)  BY <1>2
<1>6. DistinctNames(objects)
  BY <1>1, <1>3, <1>5 DEF VInv, VerdictIsRight, AcceptedIsChecked, CheckedSource, DistinctNames
<1>7. \A k \in 1 .. Len(source) :
        Len(objects[k].content.bytes) = Position(source[k], Len(source[k].text) + 1)
  <2>1. OutputMeansSource  BY <1>1, SourceMeant
  <2> QED  BY <1>5, <2>1 DEF OutputMeansSource
<1> QED  BY <1>1, <1>2, <1>3, <1>4, <1>6, <1>7 DEF WordHandles


\* No object has the null handle, which the machine refuses.
LEMMA HandlesNotNull ==
  ASSUME FInv, Accepted, NEW k \in 1 .. Len(objects)
  PROVE  objects[k].handle # 0
<1>1. AInv  BY DEF FInv, MInv, VInv
<1>2. HandlesAssigned /\ objects \in Seq(Object)  BY <1>1, AInvHas
<1>3. k \in DOMAIN objects  BY <1>2
<1> DEFINE h == objects[k].handle
<1>4. /\ CodeFirst \in Nat /\ CodeFirst > 0 /\ CodeLast \in Nat
      /\ DataFirst \in Nat /\ DataFirst > 0 /\ DataLast \in Nat
  BY RangesHave
<1>5. \/ source[k].handle # NullHandle /\ h = source[k].handle
      \/ h \in CodeFirst .. CodeLast
      \/ h \in DataFirst .. DataLast
  BY <1>2, <1>3 DEF HandlesAssigned
<1> HIDE DEF h
<1>6. CASE source[k].handle # NullHandle /\ h = source[k].handle
  BY <1>6 DEF NullHandle, h
<1>7. CASE h \in CodeFirst .. CodeLast
  <2>1. h # 0  BY <1>4, <1>7
  <2> QED  BY <2>1 DEF h
<1>8. CASE h \in DataFirst .. DataLast
  <2>1. h # 0  BY <1>4, <1>8
  <2> QED  BY <2>1 DEF h
<1> QED  BY <1>5, <1>6, <1>7, <1>8

LEMMA EntryIsWord ==
  ASSUME objects \in Seq(Object), \A k \in 1 .. Len(objects) : IsWord(objects[k].handle)
  PROVE  IsWord(Entry)
<1>1. Lookup(objects, Main) # 0 => Lookup(objects, Main) \in 1 .. Len(objects)
  BY LookupFinds
<1>2. IsWord(0)  BY DEF IsWord
<1>3. CASE Lookup(objects, Main) = 0  BY <1>2, <1>3 DEF Entry, NullHandle
<1>4. CASE Lookup(objects, Main) # 0  BY <1>1, <1>4 DEF Entry
<1> QED  BY <1>3, <1>4

\* What the machine keeps and when it does, as the source says it.
LEMMA ResultIs ==
  ASSUME FInv, Accepted
  PROVE  Result(TRUE, Entry, 0)
           = IF Loadable THEN Loaded(MainHandle, MachineObjects) ELSE Refused
<1> DEFINE n == Len(objects)
           C(k) == objects[k].content.bytes
           P(k) == Position(source[k], Len(source[k].text) + 1)
           H(k) == objects[k].handle
<1>1. /\ objects \in Seq(Object) /\ source \in Seq(Declaration) /\ Len(source) = n
      /\ \A k \in 1 .. n : objects[k].kind = source[k].kind /\ Len(C(k)) = P(k)
  BY AcceptedHas
<1>2. n \in Nat /\ DOMAIN source = 1 .. n
  BY <1>1
<1>3. \A k \in 1 .. n : C(k) \in Seq(Byte)  BY <1>1, ObjectFields
<1>4. Entry = MainHandle  BY AcceptedHas, EntryIs
<1>5. Good(0) <=> Loadable
  <2>1. Good(0) <=> \A k \in 1 .. n : /\ C(k) # <<>>
                                      /\ \A j \in 1 .. n : j # k => H(j) # H(k)
    <3>1. 0 + 1 = 1  OBVIOUS
    <3> QED  BY <3>1, Zenon DEF Good
  <2>2. Loadable <=> \A k \in 1 .. n : /\ P(k) > 0
                                       /\ \A j \in (1 .. n) \ {k} : H(j) # H(k)
    <3> HIDE DEF n
    <3> QED  BY <1>2, Zenon DEF Loadable
  <2>3. \A k \in 1 .. n : C(k) # <<>> <=> P(k) > 0  BY <1>1, <1>3
  <2> HIDE DEF C, P, H, n
  <2> QED  BY <2>1, <2>2, <2>3
<1>6. Rest(0) = MachineObjects  BY <1>1, <1>2 DEF Rest, Machine, MachineObjects
<1> QED  BY <1>4, <1>5, <1>6 DEF Result

\* A file that holds the unit or the front of it.
LEMMA FileLoads ==
  ASSUME FInv, Accepted, Sized, NEW ends, Ends(Unit, ends),
         NEW g \in Seq(Byte), Carries(g, Unit, ends), Len(g) <= ends[Len(Unit)]
  PROVE  UnitObjects(g) = Result(Len(g) = ends[Len(Unit)], Entry, 0)
<1>1. /\ objects \in Seq(Object) /\ bigEndian \in BOOLEAN
      /\ \A k \in 1 .. Len(objects) : IsWord(objects[k].handle)
  BY AcceptedHas
<1>2. PICK begin : /\ Begins(begin) /\ ends[Len(Unit)] = begin[Len(objects)] + 4
                   /\ UnitBytes(g, begin)
  BY <1>1, UnitLayout
<1>3. IsWord(Entry)  BY <1>1, EntryIsWord
<1>4. \A k \in 1 .. Len(objects) : Fits(objects[k]) /\ objects[k].handle # 0
  BY <1>1, HandlesNotNull DEF Fits, Sized
<1>5. Len(g) <= begin[Len(objects)] + 4  BY <1>2
<1>6. Begins(begin) /\ UnitBytes(g, begin)  BY <1>2
<1>7. UnitObjects(g) = Result(Len(g) = begin[Len(objects)] + 4, Entry, 0)
  BY <1>1, <1>3, <1>4, <1>5, <1>6, LoadsUnit
<1> QED  BY <1>2, <1>7


LEMMA UnitIsChunks ==
  ASSUME objects \in Seq(Object)
  PROVE  Unit \in Seq(Seq(Byte))
<1>1. PICK q : Chunks(q)  BY UnitChunks
<1> QED  BY <1>1 DEF Chunks

LEMMA WrittenLoads ==
  ASSUME FInv, Sized, phase = "written"
  PROVE  UnitObjects(FlattenSeq(file))
           = IF Loadable THEN Loaded(MainHandle, MachineObjects) ELSE Refused
<1>1. Accepted /\ file = Unit  BY DEF Accepted, FInv, Output
<1>2. Unit \in Seq(Seq(Byte))  BY <1>1, AcceptedHas, UnitIsChunks
<1> DEFINE g == FlattenSeq(Unit)
<1>3. PICK ends : /\ Ends(Unit, ends) /\ Len(g) = ends[Len(Unit)]
                  /\ Carries(g, Unit, ends)
  BY <1>2, FlattenCarries
<1>4. g \in Seq(Byte)  BY <1>2, FlattenType
<1>5. Len(g) <= ends[Len(Unit)]  BY <1>3, <1>4
<1> HIDE DEF g
<1>6. UnitObjects(g) = Result(Len(g) = ends[Len(Unit)], Entry, 0)
  BY <1>1, <1>3, <1>4, <1>5, FileLoads
<1>7. (Len(g) = ends[Len(Unit)]) = TRUE  BY <1>3
<1>8. UnitObjects(g) = Result(TRUE, Entry, 0)  BY <1>6, <1>7
<1> QED  BY <1>1, <1>8, ResultIs DEF g

LEMMA FrontLength ==
  ASSUME NEW S, NEW u \in Seq(S), NEW m \in 0 .. Len(u) - 1
  PROVE  Len(SubSeq(u, 1, m)) = m
OBVIOUS

LEMMA LastEnd ==
  ASSUME NEW S, NEW seqs \in Seq(S), NEW ends, Ends(seqs, ends)
  PROVE  ends[Len(seqs)] \in Nat
<1>1. Len(seqs) \in 0 .. Len(seqs)  OBVIOUS
<1> QED  BY <1>1 DEF Ends

LEMMA Shorter ==
  ASSUME NEW S, NEW s \in Seq(S), NEW e \in Nat, Len(s) < e
  PROVE  Len(s) <= e /\ Len(s) # e
OBVIOUS

LEMMA CutIsRefused ==
  ASSUME FInv, Sized, phase = "writing failed", file # Unit,
         NEW k \in 0 .. Len(Unit[Len(file) + 1]) - 1
  PROVE  UnitObjects(FlattenSeq(file) \o SubSeq(Unit[Len(file) + 1], 1, k)) = Refused
<1>1. Accepted  BY DEF Accepted
<1>2. PICK m \in 0 .. Len(Unit) - 1 : file = SubSeq(Unit, 1, m)  BY DEF FInv, Output
<1>3. Unit \in Seq(Seq(Byte))  BY <1>1, AcceptedHas, UnitIsChunks
<1>4. Len(file) = m
  <2>1. Len(SubSeq(Unit, 1, m)) = m  BY <1>3, FrontLength
  <2> QED  BY <1>2, <2>1
<1> DEFINE g == FlattenSeq(SubSeq(Unit, 1, m)) \o SubSeq(Unit[m + 1], 1, k)
<1>5. PICK ends : Ends(Unit, ends)  BY <1>3, FlattenCarries
<1>6. k \in 0 .. Len(Unit[m + 1]) - 1  BY <1>4
<1>7. g \in Seq(Byte) /\ Len(g) < ends[Len(Unit)] /\ Carries(g, Unit, ends)
  BY <1>3, <1>5, <1>6, CutCarries
<1>8. ends[Len(Unit)] \in Nat  BY <1>3, <1>5, LastEnd
<1>9. FlattenSeq(file) \o SubSeq(Unit[Len(file) + 1], 1, k) = g  BY <1>2, <1>4
<1> HIDE DEF g
<1>10. Len(g) <= ends[Len(Unit)] /\ Len(g) # ends[Len(Unit)]  BY <1>7, <1>8, Shorter
<1>11. UnitObjects(g) = Result(Len(g) = ends[Len(Unit)], Entry, 0)
  BY <1>1, <1>5, <1>7, <1>10, FileLoads
<1>12. UnitObjects(g) = Refused  BY <1>10, <1>11 DEF Result
<1> QED  BY <1>9, <1>12

LEMMA UnitLoads ==
  ASSUME FInv, Sized
  PROVE  UnitIsLoaded
<1>1. file # <<>> => Accepted  BY DEF FInv, Output, Accepted
<1>2. phase = "written" =>
        UnitObjects(FlattenSeq(file))
          = IF Loadable THEN Loaded(MainHandle, MachineObjects) ELSE Refused
  BY WrittenLoads
<1>3. phase = "writing failed" /\ file # Unit =>
        \A k \in 0 .. Len(Unit[Len(file) + 1]) - 1 :
          UnitObjects(FlattenSeq(file) \o SubSeq(Unit[Len(file) + 1], 1, k)) = Refused
  BY CutIsRefused
<1> QED  BY <1>1, <1>2, <1>3 DEF UnitIsLoaded

\* A program unit is taken apart by the machine as it was put together, in either
\* byte order: from what tinyasm reports as written tinyvm takes the entry and the
\* objects that were assembled, to call the one among the others, or refuses it
\* because of an empty object or of a handle given twice; a file that was cut off at any byte is refused, and one of
\* a program that was not accepted is empty.  Contents of 4 gigabytes and more
\* are left aside: the word for their length holds less (AsmObjectWrite,
\* ASM_INIT_WORD, AsmWriteOutput, VmLoadByteCode).
THEOREM UnitsLoad == Spec => [](Sized => UnitIsLoaded)
<1>1. Init => FInv  BY InitVerdict, InitSpelled, InitOutput DEF FInv, MInv
<1>2. FInv /\ [Next]_avars => FInv'  BY FInvStep
<1>3. FInv => (Sized => UnitIsLoaded)  BY UnitLoads
<1> QED  BY <1>1, <1>2, <1>3, PTL DEF Spec
====
