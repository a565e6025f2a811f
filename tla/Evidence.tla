------------------------------ MODULE Evidence ------------------------------
(***************************************************************************)
(* What the ledger promises about a document, without runs, transactions   *)
(* or storage: provenance first, then a witness, then quotes.  A document  *)
(* is secured once; it may then be time-stamped by each authority once and *)
(* attested once, the latter only when the archive lists its bytes; and    *)
(* only an attested document is quoted, once and completely.  Nothing is   *)
(* ever taken back.                                                        *)
(***************************************************************************)
CONSTANTS
  Documents,    \* the documents
  Authorities,  \* the time-stamping authorities
  Positions     \* Positions[d]: the places of d a quote is taken from

VARIABLES
  listed,       \* documents whose bytes the archive lists
  secured,      \* documents in the ledger
  stamps,       \* stamps[d]: the authorities that have stamped d
  attested,     \* documents the archive was seen to hold
  quotes        \* quotes[d]: the quotes taken from d, each with its place pos

evidenceVars == <<listed, secured, stamps, attested, quotes>>

\* Earlier work may be in the ledger already.
EvidenceInit ==
  /\ secured \subseteq Documents
  /\ listed \subseteq Documents
  /\ attested \subseteq secured \cap listed
  /\ stamps = [d \in Documents |-> {}]
  /\ quotes = [d \in Documents |-> {}]

List(d) ==
  /\ listed' = listed \cup {d}
  /\ UNCHANGED <<secured, stamps, attested, quotes>>

Secure(d) ==
  /\ d \notin secured
  /\ secured' = secured \cup {d}
  /\ UNCHANGED <<listed, stamps, attested, quotes>>

Stamp(d, a) ==
  /\ d \in secured
  /\ a \notin stamps[d]
  /\ stamps' = [stamps EXCEPT ![d] = @ \cup {a}]
  /\ UNCHANGED <<listed, secured, attested, quotes>>

Attest(d) ==
  /\ d \in (secured \cap listed) \ attested
  /\ attested' = attested \cup {d}
  /\ UNCHANGED <<listed, secured, stamps, quotes>>

\* One quote for every place, and no place quoted twice.
Complete(d, Q) ==
  /\ {q.pos : q \in Q} = Positions[d]
  /\ \A p, q \in Q : p.pos = q.pos => p = q

Quote(d) ==
  /\ d \in attested
  /\ quotes[d] = {}
  /\ Complete(d, quotes'[d])
  /\ quotes' = [quotes EXCEPT ![d] = quotes'[d]]
  /\ UNCHANGED <<listed, secured, stamps, attested>>

EvidenceNext ==
  \E d \in Documents :
    \/ List(d) \/ Secure(d) \/ Attest(d) \/ Quote(d)
    \/ \E a \in Authorities : Stamp(d, a)

EvidenceSpec == EvidenceInit /\ [][EvidenceNext]_evidenceVars
=============================================================================
