--------------------------- MODULE CertificateChains ---------------------------
(***************************************************************************)
(* The search for all chains from a certificate of the store to a root     *)
(* (Certificates.getChains): depth first over the certificates whose       *)
(* subject is the issuer, with a stack of chains that wait.  Authorities   *)
(* may certify each other, in cycles, and have several certificates.       *)
(***************************************************************************)
EXTENDS Naturals, Sequences, FiniteSets

CONSTANTS Names, Keys   \* distinguished names, and keys

(* Signatures are symbolic: signer is the key that made the signature.     *)
Certs == [subject : Names, issuer : Names, key : Keys, signer : Keys]

VARIABLES store,     \* what is searched, for which leaf
          chainz,    \* the stack of chains to be processed
          current,   \* current_chain, or <<>> for null
          skip,      \* skip_fork
          chains,    \* the finished chains (a list, of which repetitions do not count)
          at         \* where the search is

ccvars == <<store, chainz, current, skip, chains, at>>

-----------------------------------------------------------------------------
Verified(cert, issuer) == cert.signer = issuer.key
SelfIssued(cert) == cert.subject = cert.issuer

(* adjacency_list: the certificates of the store of a name, in any order.  *)
WithSubject(n) == store.adjacency_list[n]

(* The copies of the current chain that a fork pushes, the first of the    *)
(* alternatives being left for the current chain itself.                   *)
Copies(chain, certs) == [i \in 1 .. Len(certs) - 1 |-> Append(chain, certs[Len(certs) + 1 - i])]

Null == <<>>
lastElement == current[Len(current)]
issuer == lastElement
cert == current[Len(current) - 1]

Stores == {s \in [adjacency_list : [Names -> Seq(Certs)], leaf : Certs] :
             /\ \A n \in Names : \A i \in DOMAIN s.adjacency_list[n] :
                  s.adjacency_list[n][i].subject = n
             /\ \E i \in DOMAIN s.adjacency_list[s.leaf.subject] :
                  s.adjacency_list[s.leaf.subject][i] = s.leaf}

Start == /\ chainz = <<>> /\ current = Null
         /\ skip = FALSE
         /\ chains = {}
         /\ at = "start"

Init == store \in Stores /\ Start

(* Every certificate of the leaf's name begins a chain.                    *)
CreateInitialChains ==
  LET tmp == WithSubject(store.leaf.subject) IN
  /\ at = "start"
  /\ chainz' = Copies(<<>>, tmp)
  /\ current' = <<tmp[1]>>
  /\ at' = "loop"
  /\ UNCHANGED <<store, skip, chains>>

-----------------------------------------------------------------------------
(* The loop                                                                *)

\* Wrong: the fork is skipped for the initial chains as well.
UseNewChainSkipping == /\ at = "loop" /\ current = Null /\ chainz # <<>>
                       /\ current' = chainz[Len(chainz)]
                       /\ chainz' = SubSeq(chainz, 1, Len(chainz) - 1)
                       /\ skip' = TRUE
                       /\ UNCHANGED <<store, chains, at>>

\* Wrong: peek() for pop().
UseNewChainPeek == /\ at = "loop" /\ current = Null /\ chainz # <<>>
                   /\ current' = chainz[Len(chainz)]
                   /\ skip' = (Len(current') # 1)
                   /\ UNCHANGED <<store, chainz, chains, at>>

UseNewChain == /\ at = "loop" /\ current = Null /\ chainz # <<>>
               /\ current' = chainz[Len(chainz)]
               /\ chainz' = SubSeq(chainz, 1, Len(chainz) - 1)
               /\ skip' = (Len(current') # 1)
               /\ UNCHANGED <<store, chains, at>>

SkipFork == /\ at = "loop" /\ current # Null /\ skip
            /\ skip' = FALSE
            /\ at' = "check"
            /\ UNCHANGED <<store, chainz, current, chains>>

(* A root gets itself for an issuer, a mark that the check removes.        *)
AddRoot == /\ at = "loop" /\ current # Null /\ ~skip
           /\ SelfIssued(lastElement)
           /\ current' = Append(current, lastElement)
           /\ at' = "check"
           /\ UNCHANGED <<store, chainz, skip, chains>>

\* Wrong: only the first certificate of the issuer is followed.
ForkFirst == LET issuers == WithSubject(lastElement.issuer) IN
  /\ at = "loop" /\ current # Null /\ ~skip
  /\ ~SelfIssued(lastElement)
  /\ IF issuers = <<>>
     THEN current' = Null /\ UNCHANGED at
     ELSE current' = Append(current, issuers[1]) /\ at' = "check"
  /\ UNCHANGED <<store, chainz, skip, chains>>

Fork == LET issuers == WithSubject(lastElement.issuer) IN
  /\ at = "loop" /\ current # Null /\ ~skip
  /\ ~SelfIssued(lastElement)
  /\ IF issuers = <<>>
     THEN current' = Null /\ UNCHANGED <<chainz, at>>
     ELSE /\ chainz' = chainz \o Copies(current, issuers)
          /\ current' = Append(current, issuers[1])
          /\ at' = "check"
  /\ UNCHANGED <<store, skip, chains>>

-----------------------------------------------------------------------------
(* The checks of the last two certificates                                 *)

\* Wrong: loop detection looks for the certificate itself.
RepeatedItself == \E i \in 1 .. Len(current) - 1 : current[i] = issuer

(* Loop detection goes by the subject.                                     *)
Repeated == \E i \in 1 .. Len(current) - 1 : current[i].subject = issuer.subject

Drop == current' = Null /\ UNCHANGED chains

(* The chain without the mark, and with the leaf for the certificate of    *)
(* its name that the search began with.                                    *)
Swapped == [i \in 1 .. Len(current) - 1 |-> IF i = 1 THEN store.leaf ELSE current[i]]
SwapSucceeds == Len(Swapped) > 1 => Verified(store.leaf, Swapped[2])

Invalid == ~Verified(cert, issuer) /\ Drop

Finished == /\ Verified(cert, issuer) /\ cert.subject = issuer.subject
            /\ current' = Null
            /\ chains' = IF SwapSucceeds THEN chains \cup {Swapped} ELSE chains

FoundLoop == /\ Verified(cert, issuer) /\ cert.subject # issuer.subject
             /\ Repeated
             /\ Drop

GoOn == /\ Verified(cert, issuer) /\ cert.subject # issuer.subject
        /\ ~Repeated
        /\ UNCHANGED <<current, chains>>

Check == /\ at = "check"
         /\ Invalid \/ Finished \/ FoundLoop \/ GoOn
         /\ at' = "loop"
         /\ UNCHANGED <<store, chainz, skip>>

(* Without a chain the method throws.                                      *)
Return == /\ at = "loop" /\ current = Null /\ chainz = <<>>
          /\ at' = IF chains = {} THEN "thrown" ELSE "returned"
          /\ UNCHANGED <<store, chainz, current, skip, chains>>

Next == \/ CreateInitialChains \/ UseNewChain \/ SkipFork \/ AddRoot \/ Fork
        \/ Check \/ Return

(* The thread of the caller runs.                                          *)
Spec == Init /\ [][Next]_ccvars /\ WF_ccvars(Next)

-----------------------------------------------------------------------------
(* Properties                                                              *)

ended == at \in {"returned", "thrown"}
InStore(c) == \E i \in DOMAIN WithSubject(c.subject) : WithSubject(c.subject)[i] = c

Chain(c) == c \in Seq(Certs) /\ \A i \in DOMAIN c : InStore(c[i])

(* Chains are chains of certificates of the store; one that waits is never *)
(* empty, and a check always has two certificates to look at.              *)
TypeOK == /\ store \in Stores
          /\ chainz \in Seq(Seq(Certs))
          /\ \A i \in DOMAIN chainz : Chain(chainz[i]) /\ chainz[i] # <<>>
          /\ Chain(current)
          /\ skip \in BOOLEAN
          /\ chains \subseteq Seq(Certs)
          /\ at \in {"start", "loop", "check", "returned", "thrown"}
          /\ at = "check" => Len(current) > 1
          /\ skip => Len(current) > 1

(* No name comes twice, each certificate is signed by the next, and the    *)
(* last, which is self-signed, is of the name that its predecessor states. *)
Simple(c) == \A i, j \in DOMAIN c : c[i].subject = c[j].subject => i = j
Signed(c) == \A i \in 1 .. Len(c) - 1 : Verified(c[i], c[i + 1])
Named(c, first) == \A i \in first .. Len(c) - 1 : c[i].issuer = c[i + 1].subject
EndsAtRoot(c) == SelfIssued(c[Len(c)]) /\ Verified(c[Len(c)], c[Len(c)])

(* What getChains finds, with cycles and cross certificates of any kind,   *)
(* is a chain from the leaf to a root.  The leaf alone is excepted: it may *)
(* stand for a self-signed certificate of its name, be it a root or not.   *)
ChainsSound ==
  \A c \in chains : /\ Len(c) > 0 /\ c[1] = store.leaf
                    /\ \A i \in DOMAIN c : InStore(c[i])
                    /\ Simple(c) /\ Signed(c) /\ Named(c, 2)
                    /\ Len(c) > 1 => EndsAtRoot(c)

(* All of them are found: every chain of certificates of the store without *)
(* a repeated name.                                                        *)
StoreSet == UNION {{WithSubject(n)[i] : i \in DOMAIN WithSubject(n)} : n \in Names}
Paths == {c \in UNION {[1 .. n -> StoreSet] : n \in 1 .. Cardinality(Names)} :
            c[1] = store.leaf /\ Simple(c) /\ Signed(c) /\ Named(c, 1) /\ EndsAtRoot(c)}

ChainsComplete == ended => Paths \subseteq chains

(* "Gets all certificate chains, which start at the given certificate and  *)
(* end at root certificate" (Certificates.java:236-237).  The root that is *)
(* checked is the certificate before the mark, and a chain of one          *)
(* certificate is the leaf put in its place, which nothing checks: the     *)
(* leaf may have got only its name from a root.                            *)
ChainsEndAtRoot == \A c \in chains : EndsAtRoot(c)

(* The search ends, whatever cycles the issuers form.                      *)
Terminates == <>ended

=============================================================================
