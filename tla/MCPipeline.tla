----------------------------- MODULE MCPipeline -----------------------------
(* Constant values for the runs of Pipeline and Progress. *)
EXTENDS Progress, Invariants, TLC

CONSTANTS b1, b2, u1, ann, bob, none

\* Every byte string has a SHA-1 of its own.
MCSha1 == [b \in Bytes |-> b]
\* All byte strings collide.
MCSha1Collision == [b \in Bytes |-> "digest"]

Says(name, dated, sane) ==
  [name |-> name, party |-> none, dated |-> dated, sane |-> sane]

\* b1 holds two speeches and one without a date, b2 one by a speaker of b1.
MCSpeeches ==
  [b \in Bytes |->
     IF b = b1 THEN <<Says(ann, TRUE, TRUE), Says(ann, FALSE, TRUE), Says(bob, TRUE, TRUE)>>
               ELSE <<Says(ann, TRUE, TRUE)>>]
\* The same, but both speeches of b2 are by bob, and the second has empty
\* offsets.
MCRefused ==
  [b \in Bytes |->
     IF b = b1 THEN <<Says(ann, TRUE, TRUE), Says(ann, FALSE, TRUE), Says(bob, TRUE, TRUE)>>
               ELSE <<Says(bob, TRUE, TRUE), Says(bob, TRUE, FALSE)>>]
MCOneSpeech == [b \in Bytes |-> <<Says(ann, TRUE, TRUE)>>]

Secured(b, u, attested) ==
  [hash |-> b, url |-> u, text |-> TRUE, attested |-> attested]

\* Both authorities, or the only one.
MCChain == <<"t1", "t2">>
MCOneTsa == <<"t1">>

MCNoSeed == <<>>
MCOneSecured == <<Secured(b1, u1, FALSE)>>
\* Two versions of the document at one URL.
MCTwoSecured == <<Secured(b1, u1, FALSE), Secured(b2, u1, FALSE)>>
MCOneAttested == <<Secured(b2, u1, TRUE)>>
MCTwoAttested == <<Secured(b1, u1, TRUE), Secured(b2, u1, TRUE)>>
\* One document with an attestation and one still without.
MCMixed == <<Secured(b1, u1, TRUE), Secured(b2, u1, FALSE)>>
\* Runs of ingest are alike.
MCIngestSymmetry == Permutations(IngestRuns)
=============================================================================
