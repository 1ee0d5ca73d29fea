-------------------------- MODULE MCCertificateChains --------------------------
(* All stores of up to four certificates of three names, each name with two   *)
(* keys of its own.  The leaf is of the first name with its first key and     *)
(* signed by the first or the second name: the others differ by renaming.     *)
EXTENDS CertificateChains

MCNames == 0 .. 2
MCKeys == MCNames \X {0, 1}

(* The n-th of the 36 certificates.                                           *)
Cert(n) == LET s == n % 3  i == (n \div 3) % 3
           IN [subject |-> s, issuer |-> i, key |-> <<s, (n \div 9) % 2>>,
               signer |-> <<i, n \div 18>>]
Numbers == 0 .. 35
Leaves == {n \in Numbers : Cert(n).subject = 0 /\ Cert(n).key = <<0, 0>> /\ Cert(n).issuer # 2}

(* The leaf is the second certificate of the map, so that others of its name  *)
(* come before and after it.                                                  *)
Order(a, l, b, c) ==
  CASE a < b /\ b < c -> <<Cert(a), Cert(l), Cert(b), Cert(c)>>
    [] a < b /\ b = c -> <<Cert(a), Cert(l), Cert(b)>>
    [] a = b /\ b = c -> <<Cert(a), Cert(l)>>
    [] OTHER -> <<Cert(l)>>

MCInit ==
  /\ \E l \in Leaves : \E a, b, c \in Numbers \ {l} :
       store = [adjacency_list |-> [n \in Names |-> SelectSeq(Order(a, l, b, c),
                                                             LAMBDA x : x.subject = n)],
                leaf |-> Cert(l)]
  /\ Start

MCSpec == MCInit /\ [][Next]_ccvars /\ WF_ccvars(Next)
=============================================================================
