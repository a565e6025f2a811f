------------------------------- MODULE World -------------------------------
(***************************************************************************)
(* What wortlaut depends on and does not control: the parliament's website *)
(* (a URL whose document may be replaced), the Internet Archive (snapshots *)
(* and the CDX index that shows them later) and the clock.  All of it is   *)
(* external: it is modelled from how the code under src/ uses it.          *)
(*                                                                         *)
(* A byte string stands for itself and for its SHA-256, which is taken to  *)
(* be collision free.  Its SHA-1 is the value of Sha1, which need not be   *)
(* injective: the code uses SHA-1 only to search the CDX index.            *)
(***************************************************************************)
EXTENDS Naturals, FiniteSets

CONSTANTS
  Bytes,      \* the byte strings a document may consist of
  Urls,       \* the official URLs
  Sha1,       \* a function on Bytes
  Revised,    \* the URLs whose document may be replaced
  Crawled,    \* the URLs others than wortlaut have archived
  MaxClock    \* bound: the clock stops here

ASSUME WorldAssumption == Crawled \subseteq Urls /\ MaxClock \in Nat

VARIABLES
  live,       \* live[u]: what the official site serves at u
  snaps,      \* the snapshots the Internet Archive holds
  cdx,        \* those of them its CDX index already lists
  clock

worldVars == <<live, snaps, cdx, clock>>

Snapshot == [url : Urls, bytes : Bytes]

WorldTypeOK ==
  /\ live \in [Urls -> Bytes]
  /\ snaps \subseteq Snapshot
  /\ cdx \subseteq snaps
  /\ clock \in Nat

\* known: the snapshots that are listed already.
WorldInit(known) ==
  /\ live \in [Urls -> Bytes]
  /\ snaps = known
  /\ cdx = known
  /\ clock = 0

\* The parliament replaces the document behind a URL.
Publish(u) ==
  /\ u \in Revised
  /\ live' \in {[live EXCEPT ![u] = b] : b \in Bytes \ {live[u]}}
  /\ UNCHANGED <<snaps, cdx, clock>>

\* The archive stores what the site serves now: Save Page Now carrying out
\* an order, or a crawl nobody here asked for.
Archived(u) ==
  /\ snaps' = snaps \cup {[url |-> u, bytes |-> live[u]]}
  /\ UNCHANGED <<live, cdx, clock>>

\* A stored snapshot becomes visible in the CDX index, hours to days later.
Index(s) ==
  /\ s \in snaps \ cdx
  /\ cdx' = cdx \cup {s}
  /\ UNCHANGED <<live, snaps, clock>>

Tick ==
  /\ clock < MaxClock
  /\ clock' = clock + 1
  /\ UNCHANGED <<live, snaps, cdx>>

WorldNext ==
  \/ \E u \in Urls : Publish(u)
  \/ \E u \in Crawled : Archived(u)
  \/ \E s \in snaps : Index(s)
  \/ Tick

\* Mutant: every snapshot of the URL will do, whatever its digest.
CandidatesAnyDigest(u, digest) == {s \in cdx : s.url = u}

\* WaybackLookup.candidates: the index rows for this URL and SHA-1 digest.
Candidates(u, digest) == {s \in cdx : s.url = u /\ Sha1[s.bytes] = digest}
=============================================================================
