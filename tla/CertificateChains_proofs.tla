----------------------- MODULE CertificateChains_proofs -----------------------
(***************************************************************************)
(* Proofs about the search for certificate chains: in every store, with    *)
(* any number of names, keys and certificates, what getChains collects is  *)
(* a chain of signed certificates of the store (ChainsSound).              *)
(***************************************************************************)
EXTENDS CertificateChains, SequenceTheorems, TLAPS

Has(s, c) == \E i \in DOMAIN s.adjacency_list[c.subject] : s.adjacency_list[c.subject][i] = c

\* A chain of certificates of the store that begins with the name of the leaf.
Begun(s, c) == /\ c \in Seq(Certs) /\ c # <<>>
               /\ c[1].subject = s.leaf.subject
               /\ \A i \in DOMAIN c : Has(s, c[i])

\* A chain of which every link has been checked.
Linked(s, c) == Begun(s, c) /\ Simple(c) /\ Signed(c) /\ Named(c, 1)

\* A chain whose last link has not been checked yet: its last certificate was
\* added for its name, or as the mark behind a root.
Extended(s, c) ==
  /\ Begun(s, c)
  /\ \A i, j \in 1 .. Len(c) - 1 : c[i].subject = c[j].subject => i = j
  /\ \A i \in 1 .. Len(c) - 2 : Verified(c[i], c[i + 1])
  /\ Named(c, 1)
  /\ Len(c) > 1 /\ SelfIssued(c[Len(c) - 1]) => c[Len(c)] = c[Len(c) - 1]

Sound(s, c) ==
  /\ c \in Seq(Certs) /\ Len(c) > 0 /\ c[1] = s.leaf
  /\ \A i \in DOMAIN c : Has(s, c[i])
  /\ Simple(c) /\ Signed(c) /\ Named(c, 2)
  /\ Len(c) > 1 => EndsAtRoot(c)

\* The inductive invariant: which part of the current chain has been checked
\* depends on where the search is.
IInv ==
  /\ store \in Stores
  /\ chainz \in Seq(Seq(Certs))
  /\ \A i \in DOMAIN chainz : Extended(store, chainz[i])
  /\ current \in Seq(Certs)
  /\ skip \in BOOLEAN
  /\ at \in {"start", "loop", "check", "returned", "thrown"}
  /\ at \in {"start", "check"} => ~skip
  /\ at = "start" => current = <<>>
  /\ skip => Extended(store, current) /\ Len(current) > 1
  /\ at = "check" => Extended(store, current) /\ Len(current) > 1
  /\ current # <<>> /\ ~skip /\ at # "check" => Linked(store, current)
  /\ \A c \in chains : Sound(store, c)

-----------------------------------------------------------------------------
(***************************************************************************)
(* The store, and what is appended to a chain.                             *)
(***************************************************************************)
\* The certificates that adjacency_list gives for a name are of that name.
LEMMA ListedCertificates ==
  ASSUME NEW s \in Stores, NEW n \in Names, NEW i \in DOMAIN s.adjacency_list[n]
  PROVE  /\ s.adjacency_list[n] \in Seq(Certs)
         /\ s.adjacency_list[n][i] \in Certs
         /\ s.adjacency_list[n][i].subject = n
         /\ Has(s, s.adjacency_list[n][i])
<1>1. s.adjacency_list \in [Names -> Seq(Certs)]  BY DEF Stores
<1>2. s.adjacency_list[n] \in Seq(Certs)  BY <1>1
<1>3. s.adjacency_list[n][i] \in Certs  BY <1>2
<1>4. s.adjacency_list[n][i].subject = n  BY DEF Stores
<1> QED  BY <1>2, <1>3, <1>4 DEF Has

\* The leaf is a certificate of the store.
LEMMA LeafListed ==
  ASSUME NEW s \in Stores
  PROVE  s.leaf \in Certs /\ s.leaf.subject \in Names /\ Has(s, s.leaf)
         /\ s.adjacency_list[s.leaf.subject] \in Seq(Certs)
         /\ s.adjacency_list[s.leaf.subject] # <<>>
<1>1. s.leaf \in Certs /\ Has(s, s.leaf)  BY DEF Stores, Has
<1>2. s.leaf.subject \in Names  BY <1>1 DEF Certs
<1>3. s.adjacency_list[s.leaf.subject] \in Seq(Certs)  BY <1>2 DEF Stores
<1> QED  BY <1>1, <1>2, <1>3 DEF Has

\* A single certificate of the leaf's name begins a chain.
LEMMA SingleExtended ==
  ASSUME NEW s \in Stores, NEW c \in Certs, Has(s, c), c.subject = s.leaf.subject
  PROVE  /\ <<c>> \in Seq(Certs) /\ <<c>> # <<>>
         /\ Extended(s, <<c>>) /\ Linked(s, <<c>>)
  BY DEF Extended, Linked, Begun, Simple, Signed, Named

\* A certificate of the right name extends a checked chain.
LEMMA AppendExtended ==
  ASSUME NEW s \in Stores, NEW c, Linked(s, c), NEW d \in Certs, Has(s, d),
         d.subject = c[Len(c)].issuer,
         SelfIssued(c[Len(c)]) => d = c[Len(c)]
  PROVE  /\ Append(c, d) \in Seq(Certs) /\ Len(Append(c, d)) > 1
         /\ Extended(s, Append(c, d))
<1> DEFINE e == Append(c, d)
<1>1. c \in Seq(Certs) /\ c # <<>> /\ Len(c) \in Nat /\ Len(c) > 0
  BY DEF Linked, Begun
<1>2. e \in Seq(Certs) /\ Len(e) = Len(c) + 1 /\ e[Len(c) + 1] = d
      /\ \A i \in 1 .. Len(c) : e[i] = c[i]
  BY <1>1
<1>3. DOMAIN c = 1 .. Len(c) /\ DOMAIN e = 1 .. Len(c) + 1
  BY <1>1, <1>2
<1> HIDE DEF e
<1>4. Begun(s, e)
  BY <1>1, <1>2, <1>3 DEF Begun, Linked
<1>5. \A i, j \in 1 .. Len(e) - 1 : e[i].subject = e[j].subject => i = j
  BY <1>1, <1>2, <1>3 DEF Linked, Simple
<1>6. \A i \in 1 .. Len(e) - 2 : Verified(e[i], e[i + 1])
  BY <1>1, <1>2, <1>3 DEF Linked, Signed
<1>7. Named(e, 1)
  <2> SUFFICES ASSUME NEW i \in 1 .. Len(e) - 1 PROVE e[i].issuer = e[i + 1].subject
    BY DEF Named
  <2>1. CASE i = Len(c)  BY <2>1, <1>1, <1>2
  <2>2. CASE i # Len(c)
    <3>1. i \in 1 .. Len(c) - 1  BY <2>2, <1>1, <1>2
    <3>2. c[i].issuer = c[i + 1].subject  BY <3>1 DEF Linked, Named
    <3> QED  BY <3>1, <3>2, <1>1, <1>2
  <2> QED  BY <2>1, <2>2
<1>8. SelfIssued(e[Len(e) - 1]) => e[Len(e)] = e[Len(e) - 1]
  BY <1>1, <1>2 DEF SelfIssued
<1>9. Extended(s, e) /\ Len(e) > 1
  BY <1>1, <1>2, <1>4, <1>5, <1>6, <1>7, <1>8 DEF Extended
<1> QED  BY <1>2, <1>9 DEF e

\* The copies that a fork pushes are extended chains, if each alternative is.
LEMMA CopiesExtended ==
  ASSUME NEW s, NEW c \in Seq(Certs), NEW certs \in Seq(Certs), certs # <<>>,
         \A i \in DOMAIN certs : Extended(s, Append(c, certs[i]))
  PROVE  /\ Copies(c, certs) \in Seq(Seq(Certs))
         /\ \A i \in DOMAIN Copies(c, certs) : Extended(s, Copies(c, certs)[i])
<1> DEFINE n == Len(certs) - 1
           f(i) == Append(c, certs[Len(certs) + 1 - i])
<1>1. Len(certs) \in Nat /\ n \in Nat /\ DOMAIN certs = 1 .. Len(certs)  OBVIOUS
<1>2. \A i \in 1 .. n : Len(certs) + 1 - i \in DOMAIN certs  BY <1>1
<1>3. \A i \in 1 .. n : f(i) \in Seq(Certs) /\ Extended(s, f(i))  BY <1>2
<1>4. Copies(c, certs) = [i \in 1 .. n |-> f(i)]  BY DEF Copies
<1> HIDE DEF f, n
<1>5. [i \in 1 .. n |-> f(i)] \in Seq(Seq(Certs))  BY <1>1, <1>3
<1> QED  BY <1>3, <1>4, <1>5

\* Where two sequences of chains are joined, each chain is extended.
LEMMA JoinedExtended ==
  ASSUME NEW s, NEW p \in Seq(Seq(Certs)), NEW q \in Seq(Seq(Certs)),
         \A i \in DOMAIN p : Extended(s, p[i]), \A i \in DOMAIN q : Extended(s, q[i])
  PROVE  /\ p \o q \in Seq(Seq(Certs))
         /\ \A i \in DOMAIN (p \o q) : Extended(s, (p \o q)[i])
<1>1. \A i \in 1 .. Len(p) + Len(q) :
        (p \o q)[i] = IF i <= Len(p) THEN p[i] ELSE q[i - Len(p)]
  OBVIOUS
<1>2. DOMAIN (p \o q) = 1 .. Len(p) + Len(q) /\ DOMAIN p = 1 .. Len(p) /\ DOMAIN q = 1 .. Len(q)
  OBVIOUS
<1> SUFFICES ASSUME NEW i \in DOMAIN (p \o q) PROVE Extended(s, (p \o q)[i])
  OBVIOUS
<1>3. CASE i <= Len(p)  BY <1>1, <1>2, <1>3
<1>4. CASE ~(i <= Len(p))
  <2>1. i - Len(p) \in DOMAIN q  BY <1>2, <1>4
  <2> QED  BY <1>1, <1>2, <1>4, <2>1
<1> QED  BY <1>3, <1>4

\* A chain of which the last link turns out to be signed and new is checked.
LEMMA CheckedLinked ==
  ASSUME NEW s, NEW c, Extended(s, c), Len(c) > 1,
         Verified(c[Len(c) - 1], c[Len(c)]),
         \A i \in 1 .. Len(c) - 1 : c[i].subject # c[Len(c)].subject
  PROVE  Linked(s, c)
<1>1. c \in Seq(Certs) /\ Len(c) \in Nat /\ DOMAIN c = 1 .. Len(c)
  BY DEF Extended, Begun
<1>2. \A i \in 1 .. Len(c) - 1 : i # Len(c) - 1 => i \in 1 .. Len(c) - 2
  <2> DEFINE l == Len(c)
  <2>1. l \in Nat  BY <1>1
  <2> HIDE DEF l
  <2>2. \A i \in 1 .. l - 1 : i # l - 1 => i \in 1 .. l - 2  BY <2>1
  <2> QED  BY <2>2 DEF l
<1>3. Simple(c)
  BY <1>1 DEF Extended, Simple
<1>4. Signed(c)
  <2> SUFFICES ASSUME NEW i \in 1 .. Len(c) - 1 PROVE Verified(c[i], c[i + 1])
    BY DEF Signed
  <2>1. CASE i = Len(c) - 1  BY <2>1, <1>1
  <2>2. CASE i # Len(c) - 1
    <3>1. i \in 1 .. Len(c) - 2  BY <2>2, <1>2
    <3> QED  BY <3>1 DEF Extended
  <2> QED  BY <2>1, <2>2
<1> QED  BY <1>3, <1>4 DEF Linked, Extended

\* What becomes of a chain that ends at a self-issued certificate: without the
\* mark and with the leaf in front it is sound, if the leaf is signed too.
LEMMA SwappedSound ==
  ASSUME NEW s \in Stores, NEW c, Extended(s, c), Len(c) > 1,
         Verified(c[Len(c) - 1], c[Len(c)]),
         c[Len(c) - 1].subject = c[Len(c)].subject,
         NEW e, e = [i \in 1 .. Len(c) - 1 |-> IF i = 1 THEN s.leaf ELSE c[i]],
         Len(e) > 1 => Verified(s.leaf, e[2])
  PROVE  Sound(s, e)
<1> DEFINE n == Len(c) - 1
<1>1. c \in Seq(Certs) /\ n \in Nat /\ n > 0 /\ Len(c) = n + 1 /\ DOMAIN c = 1 .. n + 1
  BY DEF Extended, Begun
<1>2. \A i \in 1 .. n : c[i] \in Certs /\ Has(s, c[i])
  <2> SUFFICES ASSUME NEW i \in 1 .. n PROVE c[i] \in Certs /\ Has(s, c[i])
    OBVIOUS
  <2>1. i \in DOMAIN c  BY <1>1
  <2>2. Has(s, c[i])  BY <2>1 DEF Extended, Begun
  <2>3. c[i] \in Certs  BY <1>1, <2>1
  <2> QED  BY <2>2, <2>3
<1>3. s.leaf \in Certs /\ Has(s, s.leaf)
  BY LeafListed
<1>4. e \in Seq(Certs) /\ Len(e) = n /\ DOMAIN e = 1 .. n /\ e[1] = s.leaf
      /\ \A i \in 2 .. n : e[i] = c[i]
  <2> HIDE DEF n
  <2>1. e = [i \in 1 .. n |-> IF i = 1 THEN s.leaf ELSE c[i]]  BY DEF n
  <2>2. \A i \in 1 .. n : (IF i = 1 THEN s.leaf ELSE c[i]) \in Certs  BY <1>2, <1>3
  <2>3. e \in Seq(Certs)  BY <2>1, <2>2, <1>1
  <2> QED  BY <2>1, <2>3, <1>1
<1> HIDE DEF n
<1>5. \A i \in 1 .. n : e[i].subject = c[i].subject /\ Has(s, e[i])
  BY <1>1, <1>2, <1>3, <1>4 DEF Extended, Begun
<1>6. Simple(e)
  BY <1>1, <1>4, <1>5 DEF Extended, Simple
<1>7. Signed(e)
  <2> SUFFICES ASSUME NEW i \in 1 .. n - 1 PROVE Verified(e[i], e[i + 1])
    BY <1>4 DEF Signed
  <2>1. CASE i = 1  BY <2>1, <1>1, <1>4
  <2>2. CASE i # 1
    <3>1. i \in 1 .. Len(c) - 2 /\ i \in 2 .. n /\ i + 1 \in 2 .. n  BY <2>2, <1>1
    <3>2. Verified(c[i], c[i + 1])  BY <3>1 DEF Extended
    <3> QED  BY <3>1, <3>2, <1>4
  <2> QED  BY <2>1, <2>2
<1>8. Named(e, 2)
  <2> SUFFICES ASSUME NEW i \in 2 .. n - 1 PROVE e[i].issuer = e[i + 1].subject
    BY <1>4 DEF Named
  <2>1. i \in 1 .. Len(c) - 1 /\ i \in 2 .. n /\ i + 1 \in 2 .. n  BY <1>1
  <2>2. c[i].issuer = c[i + 1].subject  BY <2>1 DEF Extended, Named
  <2> QED  BY <2>1, <2>2, <1>4
<1>9. n > 1 => EndsAtRoot(e)
  <2> SUFFICES ASSUME n > 1 PROVE EndsAtRoot(e)
    OBVIOUS
  <2>1. e[Len(e)] = c[n] /\ n \in 1 .. Len(c) - 1  BY <1>1, <1>4
  <2>2. c[n].issuer = c[n + 1].subject  BY <2>1 DEF Extended, Named
  <2>3. SelfIssued(c[n])  BY <2>2, <1>1 DEF SelfIssued
  <2>4. c[n + 1] = c[n]  BY <2>3, <1>1 DEF Extended
  <2> QED  BY <2>1, <2>3, <2>4, <1>1 DEF EndsAtRoot
<1> QED  BY <1>1, <1>4, <1>5, <1>6, <1>7, <1>8, <1>9 DEF Sound

-----------------------------------------------------------------------------
(***************************************************************************)
(* The invariant, action by action.                                        *)
(***************************************************************************)
LEMMA InvInit == ASSUME Init PROVE IInv
<1>1. <<>> \in Seq(Seq(Certs)) /\ <<>> \in Seq(Certs) /\ DOMAIN <<>> = {}  OBVIOUS
<1> QED  BY <1>1 DEF Init, Start, Null, IInv

\* Every certificate of the leaf's name begins a chain.
LEMMA InvCreate == ASSUME IInv, CreateInitialChains PROVE IInv'
<1> DEFINE tmp == WithSubject(store.leaf.subject)
<1>1. store \in Stores  BY DEF IInv
<1>2. tmp \in Seq(Certs) /\ tmp # <<>> /\ store.leaf.subject \in Names
  BY <1>1, LeafListed DEF WithSubject
<1>3. \A i \in DOMAIN tmp : tmp[i] \in Certs /\ tmp[i].subject = store.leaf.subject
                            /\ Has(store, tmp[i])
  BY <1>1, <1>2, ListedCertificates DEF WithSubject
<1>4. current' = <<tmp[1]>> /\ chainz' = Copies(<<>>, tmp) /\ at' = "loop" /\ at = "start"
      /\ UNCHANGED <<store, skip, chains>>
  BY DEF CreateInitialChains
<1> HIDE DEF tmp
<1>5. \A i \in DOMAIN tmp : Extended(store, <<tmp[i]>>) /\ Linked(store, <<tmp[i]>>)
                            /\ <<tmp[i]>> \in Seq(Certs)
  BY <1>1, <1>3, SingleExtended
<1>6. 1 \in DOMAIN tmp  BY <1>2
<1>7. \A i \in DOMAIN tmp : Append(<<>>, tmp[i]) = <<tmp[i]>>  OBVIOUS
<1>8. Copies(<<>>, tmp) \in Seq(Seq(Certs))
      /\ \A i \in DOMAIN Copies(<<>>, tmp) : Extended(store, Copies(<<>>, tmp)[i])
  <2>1. <<>> \in Seq(Certs)  OBVIOUS
  <2>2. \A i \in DOMAIN tmp : Extended(store, Append(<<>>, tmp[i]))  BY <1>5, <1>7
  <2> QED  BY <1>2, <2>1, <2>2, CopiesExtended
<1>9. Linked(store, current') /\ current' \in Seq(Certs)  BY <1>4, <1>5, <1>6
<1> QED  BY <1>4, <1>8, <1>9 DEF IInv

\* A chain that waits is taken from the stack: one of a single certificate has
\* nothing left to check, another one goes on with the check of its last link.
LEMMA InvUseNewChain == ASSUME IInv, UseNewChain PROVE IInv'
<1> DEFINE l == Len(chainz)
<1>1. chainz \in Seq(Seq(Certs)) /\ l \in Nat /\ l > 0 /\ DOMAIN chainz = 1 .. l
  BY DEF IInv, UseNewChain
<1>2. chainz[l] \in Seq(Certs) /\ Extended(store, chainz[l])
  <2>1. l \in DOMAIN chainz  BY <1>1
  <2>2. \A i \in DOMAIN chainz : chainz[i] \in Seq(Certs)  BY <1>1
  <2> QED  BY <2>1, <2>2 DEF IInv
<1>3. current' = chainz[l] /\ chainz' = SubSeq(chainz, 1, l - 1)
      /\ skip' = (Len(current') # 1) /\ at = "loop" /\ UNCHANGED <<store, chains, at>>
  BY DEF UseNewChain
<1> HIDE DEF l
<1>4. chainz' \in Seq(Seq(Certs)) /\ DOMAIN (chainz') = 1 .. l - 1
      /\ \A i \in 1 .. l - 1 : chainz'[i] = chainz[i]
  BY <1>1, <1>3
<1>5. \A i \in DOMAIN (chainz') : Extended(store, chainz'[i])
  BY <1>1, <1>4 DEF IInv
<1>6. Len(current') \in Nat /\ Len(current') > 0
  BY <1>2, <1>3 DEF Extended, Begun
<1>7. skip' => Len(current') > 1
  <2>1. skip' => Len(current') # 1  BY <1>3
  <2>2. \A n \in Nat : n > 0 /\ n # 1 => n > 1  OBVIOUS
  <2> QED  BY <1>6, <2>1, <2>2, Zenon
<1>8. ~skip' => Linked(store, current')
  <2> SUFFICES ASSUME ~skip' PROVE Linked(store, chainz[l])
    BY <1>3
  <2>1. Len(chainz[l]) = 1  BY <1>3
  <2> QED  BY <1>2, <2>1 DEF Extended, Linked, Begun, Simple, Signed, Named
<1> QED  BY <1>2, <1>3, <1>4, <1>5, <1>7, <1>8 DEF IInv

LEMMA InvSkipFork == ASSUME IInv, SkipFork PROVE IInv'
  BY DEF IInv, SkipFork

\* The last certificate of the current chain, where the chain goes on.
LEMMA LastCertificate ==
  ASSUME IInv, at = "loop", current # Null, ~skip
  PROVE  /\ Linked(store, current) /\ lastElement \in Certs /\ Has(store, lastElement)
         /\ lastElement.issuer \in Names
<1>1. Linked(store, current)  BY DEF IInv, Null
<1>2. current \in Seq(Certs) /\ Len(current) \in DOMAIN current
  BY <1>1 DEF Linked, Begun
<1>3. lastElement \in Certs /\ Has(store, lastElement)
  BY <1>1, <1>2 DEF Linked, Begun, lastElement
<1> QED  BY <1>1, <1>3 DEF Certs

LEMMA InvAddRoot == ASSUME IInv, AddRoot PROVE IInv'
<1>1. /\ at = "loop" /\ current # Null /\ ~skip /\ SelfIssued(lastElement)
      /\ current' = Append(current, lastElement) /\ at' = "check"
      /\ UNCHANGED <<store, chainz, skip, chains>>
  BY DEF AddRoot
<1>2. Linked(store, current) /\ lastElement \in Certs /\ Has(store, lastElement)
  BY <1>1, LastCertificate
<1>3. lastElement.subject = current[Len(current)].issuer
  BY <1>1 DEF SelfIssued, lastElement
<1>4. current' \in Seq(Certs) /\ Extended(store, current') /\ Len(current') > 1
  <2>1. store \in Stores  BY DEF IInv
  <2>2. SelfIssued(current[Len(current)]) => lastElement = current[Len(current)]
    BY DEF lastElement
  <2> QED  BY <1>1, <1>2, <1>3, <2>1, <2>2, AppendExtended
<1> QED  BY <1>1, <1>4 DEF IInv

\* A fork goes on with the first issuer and lets the others wait.
LEMMA InvFork == ASSUME IInv, Fork PROVE IInv'
<1> DEFINE issuers == WithSubject(lastElement.issuer)
<1>1. /\ at = "loop" /\ current # Null /\ ~skip /\ ~SelfIssued(lastElement)
      /\ UNCHANGED <<store, skip, chains>>
      /\ IF issuers = <<>>
         THEN current' = Null /\ UNCHANGED <<chainz, at>>
         ELSE /\ chainz' = chainz \o Copies(current, issuers)
              /\ current' = Append(current, issuers[1])
              /\ at' = "check"
  BY DEF Fork
<1>2. Linked(store, current) /\ lastElement.issuer \in Names
  BY <1>1, LastCertificate
<1>3. store \in Stores /\ current \in Seq(Certs)  BY DEF IInv
<1>4. issuers \in Seq(Certs)  BY <1>2, <1>3 DEF WithSubject, Stores
<1>5. \A i \in DOMAIN issuers :
        issuers[i] \in Certs /\ issuers[i].subject = lastElement.issuer /\ Has(store, issuers[i])
  BY <1>2, <1>3, ListedCertificates DEF WithSubject
<1> HIDE DEF issuers
<1>6. CASE issuers = <<>>
  <2>1. <<>> \in Seq(Certs)  OBVIOUS
  <2> QED  BY <1>1, <1>6, <2>1 DEF IInv, Null
<1>7. CASE issuers # <<>>
  <2>1. \A i \in DOMAIN issuers :
          /\ Append(current, issuers[i]) \in Seq(Certs)
          /\ Len(Append(current, issuers[i])) > 1
          /\ Extended(store, Append(current, issuers[i]))
    <3> SUFFICES ASSUME NEW i \in DOMAIN issuers
                 PROVE  /\ Append(current, issuers[i]) \in Seq(Certs)
                        /\ Len(Append(current, issuers[i])) > 1
                        /\ Extended(store, Append(current, issuers[i]))
      OBVIOUS
    <3>1. issuers[i].subject = current[Len(current)].issuer  BY <1>5 DEF lastElement
    <3>2. ~SelfIssued(current[Len(current)])  BY <1>1 DEF lastElement
    <3> QED  BY <1>2, <1>3, <1>5, <3>1, <3>2, AppendExtended
  <2>2. 1 \in DOMAIN issuers  BY <1>4, <1>7
  <2>3. /\ Copies(current, issuers) \in Seq(Seq(Certs))
        /\ \A i \in DOMAIN Copies(current, issuers) : Extended(store, Copies(current, issuers)[i])
    BY <1>3, <1>4, <1>7, <2>1, CopiesExtended
  <2>4. chainz' \in Seq(Seq(Certs)) /\ \A i \in DOMAIN (chainz') : Extended(store, chainz'[i])
    <3>1. chainz \in Seq(Seq(Certs)) /\ \A i \in DOMAIN chainz : Extended(store, chainz[i])
      BY DEF IInv
    <3>2. chainz' = chainz \o Copies(current, issuers)  BY <1>1, <1>7
    <3> QED  BY <2>3, <3>1, <3>2, JoinedExtended
  <2>5. current' \in Seq(Certs) /\ Extended(store, current') /\ Len(current') > 1
    BY <1>1, <1>7, <2>1, <2>2
  <2> QED  BY <1>1, <1>7, <2>4, <2>5 DEF IInv
<1> QED  BY <1>6, <1>7

\* The check of the last link drops the chain, finishes it or lets it grow.
LEMMA InvCheck == ASSUME IInv, Check PROVE IInv'
<1>1. /\ at = "check" /\ at' = "loop" /\ UNCHANGED <<store, chainz, skip>>
      /\ Invalid \/ Finished \/ FoundLoop \/ GoOn
  BY DEF Check
<1>2. /\ Extended(store, current) /\ Len(current) > 1 /\ ~skip /\ store \in Stores
      /\ current \in Seq(Certs)
  BY <1>1 DEF IInv
<1>3. <<>> \in Seq(Certs)  OBVIOUS
<1>4. ASSUME current' = Null, UNCHANGED chains PROVE IInv'
  BY <1>1, <1>2, <1>3, <1>4 DEF IInv, Null
<1>5. CASE Invalid  BY <1>4, <1>5 DEF Invalid, Drop
<1>6. CASE FoundLoop  BY <1>4, <1>6 DEF FoundLoop, Drop
<1>7. CASE GoOn
  <2>1. /\ Verified(current[Len(current) - 1], current[Len(current)])
        /\ \A i \in 1 .. Len(current) - 1 : current[i].subject # current[Len(current)].subject
        /\ UNCHANGED <<current, chains>>
    BY <1>7 DEF GoOn, Repeated, cert, issuer, lastElement
  <2>2. Linked(store, current)  BY <1>2, <2>1, CheckedLinked
  <2> QED  BY <1>1, <1>2, <2>1, <2>2 DEF IInv
<1>8. CASE Finished
  <2>1. /\ Verified(current[Len(current) - 1], current[Len(current)])
        /\ current[Len(current) - 1].subject = current[Len(current)].subject
        /\ current' = Null
        /\ chains' = IF SwapSucceeds THEN chains \cup {Swapped} ELSE chains
    BY <1>8 DEF Finished, cert, issuer, lastElement
  <2>2. SwapSucceeds => Sound(store, Swapped)
    BY <1>2, <2>1, SwappedSound DEF Swapped, SwapSucceeds
  <2>3. \A c \in chains' : Sound(store, c)
    BY <2>1, <2>2 DEF IInv
  <2> QED  BY <1>1, <1>2, <1>3, <2>1, <2>3 DEF IInv, Null
<1> QED  BY <1>1, <1>5, <1>6, <1>7, <1>8

LEMMA InvReturn == ASSUME IInv, Return PROVE IInv'
<1>1. current = Null /\ at' \in {"returned", "thrown"}
      /\ UNCHANGED <<store, chainz, current, skip, chains>>
  BY DEF Return
<1>2. ~(Len(Null) > 1)  BY DEF Null
<1> QED  BY <1>1, <1>2 DEF IInv, Null

\* Every step preserves the invariant.
LEMMA InvNext == ASSUME IInv, [Next]_ccvars PROVE IInv'
<1>1. CASE UNCHANGED ccvars  BY <1>1 DEF ccvars, IInv
<1> QED  BY <1>1, InvCreate, InvUseNewChain, InvSkipFork, InvAddRoot, InvFork, InvCheck,
            InvReturn DEF Next

\* The search keeps its invariant, for every store.
THEOREM Invariance == Spec => []IInv
<1>1. Init => IInv  BY InvInit
<1>2. IInv /\ [Next]_ccvars => IInv'  BY InvNext
<1> QED  BY <1>1, <1>2, PTL DEF Spec

\* For every set of names and keys and every store over them: what getChains
\* has collected at any time are chains of certificates of the store that begin
\* with the leaf, each signed by the next, with no name twice, and those of more
\* than one certificate end at a root that signed itself.  Of the chain of the
\* leaf alone no root is claimed, because the code returns a leaf that is none
\* (Certificates.java:420; ChainsEndAtRoot does not hold).
THEOREM Soundness == Spec => []ChainsSound
<1>1. IInv => ChainsSound
  BY DEF IInv, Sound, ChainsSound, Has, InStore, WithSubject
<1> QED  BY <1>1, Invariance, PTL

\* For every store: the chains that wait are never empty, and a check finds two
\* certificates to look at (the indices of getChains).
THEOREM TypeCorrect == Spec => []TypeOK
<1>1. IInv => TypeOK
  <2> SUFFICES ASSUME IInv PROVE TypeOK
    OBVIOUS
  <2>1. \A c : Begun(store, c) => Chain(c) /\ c # <<>>
    BY DEF Begun, Chain, Has, InStore, WithSubject
  <2>2. \A i \in DOMAIN chainz : Chain(chainz[i]) /\ chainz[i] # <<>>
    BY <2>1 DEF IInv, Extended
  <2>3. Chain(current)
    <3>1. CASE current = <<>>  BY <3>1 DEF Chain
    <3>2. CASE current # <<>>  BY <2>1, <3>2 DEF IInv, Extended, Linked
    <3> QED  BY <3>1, <3>2
  <2> QED  BY <2>2, <2>3 DEF IInv, TypeOK, Sound
<1> QED  BY <1>1, Invariance, PTL

-----------------------------------------------------------------------------
(***************************************************************************)
(* All chains are found.                                                   *)
(***************************************************************************)
\* Chain c is on the way to path p.
Way(p, c) == Len(c) \in 1 .. Len(p) /\ \A i \in 1 .. Len(c) : c[i] = p[i]

\* Where a path is that has not been found yet: the search has not begun, a part
\* of it waits or is being extended, or its end has been marked.
Pending(p) ==
  \/ at = "start"
  \/ \E i \in DOMAIN chainz : Way(p, chainz[i])
  \/ Way(p, current)
  \/ at = "check" /\ current = Append(p, p[Len(p)])

CInv == /\ \A p \in Paths : p \in chains \/ Pending(p)
        /\ ended => chainz = <<>> /\ current = Null

\* What a path is.
LEMMA PathParts ==
  ASSUME store \in Stores, NEW p \in Paths
  PROVE  /\ p \in Seq(Certs) /\ Len(p) \in Nat /\ Len(p) > 0
         /\ p[1] = store.leaf
         /\ \A i \in 1 .. Len(p) :
              /\ p[i] \in Certs
              /\ \E j \in DOMAIN WithSubject(p[i].subject) : WithSubject(p[i].subject)[j] = p[i]
         /\ \A i, j \in 1 .. Len(p) : p[i].subject = p[j].subject => i = j
         /\ \A i \in 1 .. Len(p) - 1 : /\ Verified(p[i], p[i + 1])
                                       /\ p[i].issuer = p[i + 1].subject
                                       /\ ~SelfIssued(p[i])
         /\ SelfIssued(p[Len(p)]) /\ Verified(p[Len(p)], p[Len(p)])
<1>1. PICK n \in 1 .. Cardinality(Names) : p \in [1 .. n -> StoreSet]
  BY DEF Paths
<1>2. n \in Nat /\ n > 0  OBVIOUS
<1>3. \A c \in StoreSet : /\ c \in Certs
                          /\ \E j \in DOMAIN WithSubject(c.subject) : WithSubject(c.subject)[j] = c
  <2> SUFFICES ASSUME NEW m \in Names, NEW i \in DOMAIN WithSubject(m)
      PROVE  /\ WithSubject(m)[i] \in Certs
             /\ WithSubject(m)[i].subject = m
    BY DEF StoreSet
  <2> QED  BY ListedCertificates DEF WithSubject
<1>4. p \in Seq(StoreSet) /\ Len(p) = n /\ DOMAIN p = 1 .. n
  BY <1>1, <1>2
<1>5. StoreSet \subseteq Certs  BY <1>3
<1>6. p \in Seq(Certs)  BY <1>1, <1>2, <1>5
<1>7. \A i \in 1 .. n : p[i] \in StoreSet  BY <1>1
<1>8. p[1] = store.leaf /\ Simple(p) /\ Signed(p) /\ Named(p, 1) /\ EndsAtRoot(p)
  BY DEF Paths
<1>9. \A i, j \in 1 .. n : p[i].subject = p[j].subject => i = j  BY <1>4, <1>8 DEF Simple
<1>10. ASSUME NEW i \in 1 .. n - 1
       PROVE Verified(p[i], p[i + 1]) /\ p[i].issuer = p[i + 1].subject /\ ~SelfIssued(p[i])
  <2>1. Verified(p[i], p[i + 1]) /\ p[i].issuer = p[i + 1].subject
    BY <1>4, <1>8 DEF Signed, Named
  <2>2. i \in 1 .. n /\ i + 1 \in 1 .. n /\ i # i + 1  BY <1>2
  <2>3. p[i].subject # p[i + 1].subject  BY <1>9, <2>2
  <2> QED  BY <2>1, <2>3 DEF SelfIssued
<1> QED  BY <1>2, <1>3, <1>4, <1>6, <1>7, <1>8, <1>9, <1>10 DEF EndsAtRoot

LEMMA SamePaths == ASSUME UNCHANGED store PROVE Paths' = Paths
  BY DEF Paths, StoreSet, WithSubject, Simple, Signed, Named, EndsAtRoot, SelfIssued, Verified

\* A fork keeps a copy for each of the alternatives but the first.
LEMMA Alternatives ==
  ASSUME NEW c \in Seq(Certs), NEW certs \in Seq(Certs), NEW j \in DOMAIN certs, j # 1
  PROVE  \E i \in DOMAIN Copies(c, certs) : Copies(c, certs)[i] = Append(c, certs[j])
<1> DEFINE l == Len(certs)
           i == l + 1 - j
<1>1. l \in Nat /\ j \in 1 .. l  OBVIOUS
<1>2. i \in 1 .. l - 1 /\ l + 1 - i = j  BY <1>1
<1>3. Copies(c, certs)[i] = Append(c, certs[l + 1 - i])
  <2> HIDE DEF i
  <2> QED  BY <1>2 DEF Copies
<1>4. i \in DOMAIN Copies(c, certs)
  <2> HIDE DEF i
  <2> QED  BY <1>2 DEF Copies
<1> HIDE DEF i, l
<1> QED  BY <1>2, <1>3, <1>4


\* One more certificate on the way to a path.
LEMMA WayOn ==
  ASSUME NEW p \in Seq(Certs), NEW c \in Seq(Certs), Way(p, c), Len(c) < Len(p), NEW d \in Certs,
         d = p[Len(c) + 1]
  PROVE  Way(p, Append(c, d))
<1>1. Len(c) \in Nat /\ Len(p) \in Nat /\ Len(Append(c, d)) = Len(c) + 1
  OBVIOUS
<1>2. Append(c, d)[Len(c) + 1] = d /\ \A i \in 1 .. Len(c) : Append(c, d)[i] = c[i]
  OBVIOUS
<1>3. \A i \in 1 .. Len(c) + 1 : i \in 1 .. Len(c) \/ i = Len(c) + 1  BY <1>1
<1>4. Len(c) + 1 \in 1 .. Len(p)  BY <1>1 DEF Way
<1> HIDE DEF Way
<1>5. \A i \in 1 .. Len(c) : c[i] = p[i]  BY DEF Way
<1>6. \A i \in 1 .. Len(c) + 1 : Append(c, d)[i] = p[i]  BY <1>2, <1>3, <1>5
<1> QED  BY <1>1, <1>4, <1>6 DEF Way

\* The chains that wait go on waiting.
LEMMA WaitingStays ==
  ASSUME NEW p, NEW i \in DOMAIN chainz, Way(p, chainz[i]),
         chainz \in Seq(Seq(Certs)), NEW more \in Seq(Seq(Certs)), chainz' = chainz \o more
  PROVE  \E k \in DOMAIN (chainz') : Way(p, chainz'[k])
<1>1. i \in DOMAIN (chainz \o more) /\ (chainz \o more)[i] = chainz[i]  OBVIOUS
<1> QED  BY <1>1

LEMMA FoundCreate ==
  ASSUME IInv, CInv, CreateInitialChains, NEW p \in Paths
  PROVE  Pending(p)'
<1> DEFINE tmp == WithSubject(store.leaf.subject)
<1>1. store \in Stores /\ p \in Seq(Certs) /\ Len(p) \in Nat /\ Len(p) > 0 /\ p[1] = store.leaf
      /\ p[1] \in Certs
  BY PathParts, LeafListed DEF IInv
<1>2. PICK j \in DOMAIN tmp : tmp[j] = store.leaf
  <2>1. 1 \in 1 .. Len(p)  BY <1>1
  <2>2. \E j \in DOMAIN WithSubject(p[1].subject) : WithSubject(p[1].subject)[j] = p[1]
    BY <1>1, <2>1, PathParts
  <2> QED  BY <1>1, <2>2
<1>3. tmp \in Seq(Certs)  BY <1>1, LeafListed DEF WithSubject
<1>4. chainz' = Copies(<<>>, tmp) /\ current' = <<tmp[1]>>  BY DEF CreateInitialChains
<1> HIDE DEF tmp
<1>5. Way(p, <<p[1]>>)  BY <1>1 DEF Way
<1>6. CASE j = 1  BY <1>1, <1>2, <1>4, <1>5, <1>6 DEF Pending, Way
<1>7. CASE j # 1
  <2>1. <<>> \in Seq(Certs) /\ Append(<<>>, tmp[j]) = <<tmp[j]>>  OBVIOUS
  <2>2. PICK i \in DOMAIN Copies(<<>>, tmp) : Copies(<<>>, tmp)[i] = <<tmp[j]>>
    BY <1>3, <1>7, <2>1, Alternatives
  <2>3. i \in DOMAIN (chainz') /\ chainz'[i] = <<p[1]>>  BY <1>1, <1>2, <1>4, <2>2
  <2> QED  BY <1>5, <2>3 DEF Pending, Way
<1> QED  BY <1>6, <1>7

LEMMA FoundUseNewChain ==
  ASSUME IInv, CInv, UseNewChain, NEW p \in Paths
  PROVE  p \in chains \/ Pending(p)'
<1> DEFINE l == Len(chainz)
<1>1. chainz \in Seq(Seq(Certs)) /\ l \in Nat /\ l > 0 /\ DOMAIN chainz = 1 .. l
  BY DEF IInv, UseNewChain
<1>2. /\ current' = chainz[l] /\ chainz' = SubSeq(chainz, 1, l - 1)
      /\ at = "loop" /\ current = Null
  BY DEF UseNewChain
<1>3. ~Way(p, current)  BY <1>2 DEF Null, Way
<1> SUFFICES ASSUME p \notin chains PROVE Pending(p)'
  OBVIOUS
<1>4. PICK i \in DOMAIN chainz : Way(p, chainz[i])
  BY <1>2, <1>3 DEF CInv, Pending
<1>5. CASE i = l  BY <1>2, <1>4, <1>5 DEF Pending, Way
<1>6. CASE i # l
  <2> HIDE DEF l
  <2>1. i \in DOMAIN (chainz') /\ chainz'[i] = chainz[i]
    BY <1>1, <1>2, <1>6
  <2> QED  BY <1>4, <2>1 DEF Pending, Way
<1> QED  BY <1>5, <1>6

\* The last certificate of a chain on the way to a path.
LEMMA WhereOnWay ==
  ASSUME IInv, NEW p \in Paths, Way(p, current)
  PROVE  /\ Len(current) \in 1 .. Len(p) /\ lastElement = p[Len(current)]
         /\ SelfIssued(lastElement) <=> current = p
<1>1. p \in Seq(Certs) /\ Len(p) \in Nat  BY PathParts DEF IInv
<1>2. current \in Seq(Certs)  BY DEF IInv
<1>3. Len(current) \in 1 .. Len(p) /\ \A i \in 1 .. Len(current) : current[i] = p[i]
  BY DEF Way
<1>4. lastElement = p[Len(current)]  BY <1>3 DEF lastElement
<1>5. CASE Len(current) = Len(p)
  <2>1. SelfIssued(lastElement)  BY <1>4, <1>5, PathParts DEF IInv
  <2>2. current = p  BY <1>1, <1>2, <1>3, <1>5
  <2> QED  BY <1>3, <1>4, <2>1, <2>2
<1>6. CASE Len(current) # Len(p)
  <2>1. Len(current) \in 1 .. Len(p) - 1  BY <1>1, <1>3, <1>6
  <2>2. ~SelfIssued(lastElement)  BY <1>4, <2>1, PathParts DEF IInv
  <2> QED  BY <1>3, <1>4, <1>6, <2>2
<1> QED  BY <1>5, <1>6

LEMMA FoundAddRoot ==
  ASSUME IInv, CInv, AddRoot, NEW p \in Paths
  PROVE  p \in chains \/ Pending(p)'
<1>1. /\ at = "loop" /\ SelfIssued(lastElement) /\ at' = "check"
      /\ current' = Append(current, lastElement) /\ chainz' = chainz
  BY DEF AddRoot
<1>2. CASE Way(p, current)
  <2>1. current = p /\ lastElement = p[Len(p)]  BY <1>1, <1>2, WhereOnWay
  <2> QED  BY <1>1, <2>1 DEF Pending
<1>3. CASE ~Way(p, current)  BY <1>1, <1>3 DEF CInv, Pending, Way
<1> QED  BY <1>2, <1>3

LEMMA FoundFork ==
  ASSUME IInv, CInv, Fork, NEW p \in Paths
  PROVE  p \in chains \/ Pending(p)'
<1> DEFINE issuers == WithSubject(lastElement.issuer)
<1>1. /\ at = "loop" /\ current # Null /\ ~skip /\ ~SelfIssued(lastElement)
      /\ IF issuers = <<>>
         THEN current' = Null /\ UNCHANGED <<chainz, at>>
         ELSE /\ chainz' = chainz \o Copies(current, issuers)
              /\ current' = Append(current, issuers[1])
              /\ at' = "check"
  BY DEF Fork
<1>2. store \in Stores /\ current \in Seq(Certs) /\ chainz \in Seq(Seq(Certs))
      /\ lastElement.issuer \in Names
  BY <1>1, LastCertificate DEF IInv
<1>3. issuers \in Seq(Certs)  BY <1>2 DEF WithSubject, Stores
<1>4. issuers # <<>> => Copies(current, issuers) \in Seq(Seq(Certs))
  <2>1. issuers # <<>> => Len(issuers) - 1 \in Nat  BY <1>3
  <2>2. \A i \in 1 .. Len(issuers) - 1 :
          Append(current, issuers[Len(issuers) + 1 - i]) \in Seq(Certs)
    BY <1>2, <1>3
  <2> QED  BY <2>1, <2>2 DEF Copies
<1>5. CASE ~Way(p, current)
  <2>1. CASE p \in chains  BY <2>1
  <2>2. CASE p \notin chains
    <3>1. PICK i \in DOMAIN chainz : Way(p, chainz[i])
      BY <1>1, <1>5, <2>2 DEF CInv, Pending
    <3>2. \E k \in DOMAIN (chainz') : Way(p, chainz'[k])
      BY <1>1, <1>2, <1>4, <3>1, WaitingStays
    <3> QED  BY <3>2 DEF Pending, Way
  <2> QED  BY <2>1, <2>2
<1>6. CASE Way(p, current)
  <2> DEFINE k == Len(current)
  <2>1. p \in Seq(Certs) /\ Len(p) \in Nat  BY <1>2, PathParts
  <2>2. k \in 1 .. Len(p) /\ lastElement = p[k] /\ current # p
    BY <1>1, <1>6, WhereOnWay
  <2>3. k # Len(p)  BY <1>2, <1>6, <2>1, <2>2 DEF Way
  <2>4. k \in 1 .. Len(p) - 1 /\ k + 1 \in 1 .. Len(p) /\ k < Len(p)
    <3> HIDE DEF k
    <3> QED  BY <2>1, <2>2, <2>3
  <2>5. lastElement.issuer = p[k + 1].subject /\ p[k + 1] \in Certs
    BY <1>2, <2>2, <2>4, PathParts
  <2>6. PICK j \in DOMAIN issuers : issuers[j] = p[k + 1]
    BY <1>2, <2>4, <2>5, PathParts
  <2>7. Way(p, Append(current, p[k + 1]))
    BY <1>2, <1>6, <2>1, <2>4, <2>5, WayOn
  <2>8. issuers # <<>>  BY <1>3, <2>6
  <2> HIDE DEF issuers
  <2>9. CASE j = 1
    <3>1. current' = Append(current, p[k + 1])  BY <1>1, <2>6, <2>8, <2>9
    <3> QED  BY <2>7, <3>1 DEF Pending, Way
  <2>10. CASE j # 1
    <3>1. PICK i \in DOMAIN Copies(current, issuers) :
            Copies(current, issuers)[i] = Append(current, p[k + 1])
      BY <1>2, <1>3, <2>6, <2>10, Alternatives
    <3> DEFINE more == Copies(current, issuers)
    <3>2. more \in Seq(Seq(Certs)) /\ i \in DOMAIN more  BY <1>4, <2>8, <3>1
    <3>3. chainz' = chainz \o more  BY <1>1, <2>8
    <3>4. more[i] = Append(current, p[k + 1])  BY <3>1
    <3> HIDE DEF more, k
    <3>5. Len(chainz) + i \in DOMAIN (chainz \o more)
          /\ (chainz \o more)[Len(chainz) + i] = more[i]
      BY <1>2, <3>2
    <3>6. \E x \in DOMAIN (chainz') : chainz'[x] = Append(current, p[k + 1])
      BY <3>3, <3>4, <3>5
    <3> QED  BY <2>7, <3>6 DEF Pending, Way
  <2> QED  BY <2>9, <2>10
<1> QED  BY <1>5, <1>6

LEMMA FoundCheck ==
  ASSUME IInv, CInv, Check, NEW p \in Paths
  PROVE  p \in chains' \/ Pending(p)'
<1> DEFINE n == Len(current)
<1>1. /\ at = "check" /\ chainz' = chainz
      /\ Invalid \/ Finished \/ FoundLoop \/ GoOn
  BY DEF Check
<1>2. n > 1 /\ current \in Seq(Certs) /\ store \in Stores /\ n \in Nat
  BY <1>1 DEF IInv
<1>3. p \in Seq(Certs) /\ Len(p) \in Nat /\ Len(p) > 0  BY <1>2, PathParts
<1>4. chains \subseteq chains'
  BY <1>1 DEF Invalid, Finished, FoundLoop, GoOn, Drop
<1>5. CASE Way(p, current)
  <2>1. /\ n \in 1 .. Len(p) /\ \A i \in 1 .. n : current[i] = p[i]
    BY <1>5 DEF Way
  <2> HIDE DEF n
  <2>2. /\ n - 1 \in 1 .. Len(p) - 1 /\ n - 1 \in 1 .. n /\ n \in 1 .. n /\ (n - 1) + 1 = n
    BY <1>2, <1>3, <2>1
  <2>3. cert = p[n - 1] /\ issuer = p[n]
    BY <2>1, <2>2 DEF cert, issuer, lastElement, n
  <2>4. Verified(p[n - 1], p[n])
    BY <1>2, <2>2, PathParts
  <2>5. \A i \in 1 .. n - 1 : p[i].subject # p[n].subject
    <3>1. \A i \in 1 .. n - 1 : i \in 1 .. Len(p) /\ i # n
      BY <1>2, <1>3, <2>1
    <3> QED  BY <1>2, <2>1, <3>1, PathParts
  <2>6. p[n - 1].subject # p[n].subject
    <3>1. n - 1 \in 1 .. n - 1  BY <1>2
    <3> QED  BY <2>5, <3>1
  <2>7. \A i \in 1 .. n - 1 : current[i] = p[i]
    <3>1. \A i \in 1 .. n - 1 : i \in 1 .. n  BY <1>2
    <3> QED  BY <2>1, <3>1
  <2>8. ~Repeated  BY <2>3, <2>5, <2>7 DEF Repeated, n
  <2>9. GoOn
    BY <1>1, <2>3, <2>4, <2>6, <2>8 DEF Invalid, Finished, FoundLoop
  <2> QED  BY <1>5, <2>9 DEF GoOn, Pending, Way
<1>6. CASE current = Append(p, p[Len(p)])
  <2>1. /\ n = Len(p) + 1 /\ current[n] = p[Len(p)] /\ n - 1 = Len(p)
        /\ \A i \in 1 .. Len(p) : current[i] = p[i]
    BY <1>3, <1>6
  <2>2. cert = p[Len(p)] /\ issuer = p[Len(p)]
    BY <1>3, <2>1 DEF cert, issuer, lastElement
  <2>3. Verified(cert, issuer)  BY <1>2, <2>2, PathParts
  <2>4. Finished  BY <1>1, <2>2, <2>3 DEF Invalid, FoundLoop, GoOn
  <2>5. p[1] = store.leaf  BY <1>2, PathParts
  <2>6. Swapped = p
    <3>1. Swapped = [i \in 1 .. Len(p) |-> p[i]]
      <4>1. Swapped = [i \in 1 .. Len(p) |-> IF i = 1 THEN store.leaf ELSE current[i]]
        BY <2>1 DEF Swapped
      <4>2. \A i \in 1 .. Len(p) : (IF i = 1 THEN store.leaf ELSE current[i]) = p[i]
        BY <2>1, <2>5
      <4> QED  BY <4>1, <4>2
    <3> QED  BY <1>3, <3>1
  <2>7. SwapSucceeds
    <3>1. Len(p) > 1 => Verified(p[1], p[2])
      <4>1. Len(p) > 1 => 1 \in 1 .. Len(p) - 1 /\ 1 + 1 = 2  BY <1>3
      <4> QED  BY <1>2, <4>1, PathParts
    <3> QED  BY <2>5, <2>6, <3>1 DEF SwapSucceeds
  <2> QED  BY <2>4, <2>6, <2>7 DEF Finished
<1>7. CASE p \notin chains /\ ~Way(p, current) /\ current # Append(p, p[Len(p)])
  <2>1. PICK i \in DOMAIN chainz : Way(p, chainz[i])
    BY <1>1, <1>7 DEF CInv, Pending
  <2> QED  BY <1>1, <2>1 DEF Pending, Way
<1> QED  BY <1>4, <1>5, <1>6, <1>7

LEMMA FoundReturn ==
  ASSUME IInv, CInv, Return, NEW p \in Paths
  PROVE  p \in chains
<1>1. at = "loop" /\ current = <<>> /\ chainz = <<>>  BY DEF Return, Null
<1>2. ~Way(p, current)  BY <1>1 DEF Way
<1> QED  BY <1>1, <1>2 DEF CInv, Pending

LEMMA InitCInv == ASSUME Init PROVE CInv
  BY DEF Init, Start, CInv, Pending, ended

LEMMA NextCInv == ASSUME IInv, CInv, [Next]_ccvars PROVE CInv'
<1>1. CASE UNCHANGED ccvars
  <2>1. Paths' = Paths  BY <1>1, SamePaths DEF ccvars
  <2> QED  BY <1>1, <2>1 DEF ccvars, CInv, Pending, Way, ended, Null
<1>2. CASE Next
  <2>1. Paths' = Paths
    <3>1. UNCHANGED store
      BY <1>2 DEF Next, CreateInitialChains, UseNewChain, SkipFork, AddRoot, Fork, Check, Return
    <3> QED  BY <3>1, SamePaths
  <2>2. (ended => chainz = <<>> /\ current = Null)'
    BY <1>2 DEF Next, CreateInitialChains, UseNewChain, SkipFork, AddRoot, Fork, Check, Return,
                ended, Null
  <2>3. ASSUME NEW p \in Paths PROVE p \in chains' \/ Pending(p)'
    <3>1. CASE CreateInitialChains  BY <3>1, FoundCreate
    <3>2. CASE UseNewChain  BY <3>2, FoundUseNewChain DEF UseNewChain
    <3>3. CASE SkipFork
      BY <3>3 DEF SkipFork, CInv, Pending, Way
    <3>4. CASE AddRoot  BY <3>4, FoundAddRoot DEF AddRoot
    <3>5. CASE Fork  BY <3>5, FoundFork DEF Fork
    <3>6. CASE Check  BY <3>6, FoundCheck
    <3>7. CASE Return  BY <3>7, FoundReturn DEF Return
    <3> QED  BY <1>2, <3>1, <3>2, <3>3, <3>4, <3>5, <3>6, <3>7 DEF Next
  <2> QED  BY <2>1, <2>2, <2>3 DEF CInv
<1> QED  BY <1>1, <1>2

\* For every store: when getChains ends, it has found every chain of certificates
\* of the store from the leaf to a root that repeats no name (Certificates.getChains).
THEOREM Completeness == Spec => []ChainsComplete
<1>1. CInv => ChainsComplete
  <2> SUFFICES ASSUME CInv, ended, NEW p \in Paths PROVE p \in chains
    BY DEF ChainsComplete
  <2>1. chainz = <<>> /\ current = <<>> /\ at \notin {"start", "check"}
    BY DEF CInv, ended, Null
  <2> QED  BY <2>1 DEF CInv, Pending, Way
<1>2. Init => CInv  BY InitCInv
<1>3. IInv /\ CInv /\ [Next]_ccvars => CInv'  BY NextCInv
<1> QED  BY <1>1, <1>2, <1>3, Invariance, PTL DEF Spec

=============================================================================
