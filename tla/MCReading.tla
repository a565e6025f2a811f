----------------------------- MODULE MCReading -----------------------------
(* Constant values for the runs of Reading. *)
EXTENDS Reading

CONSTANTS b1, b2, u1, ann, bob, none

\* SHA-1 tells nothing: a search for one document finds the other.
MCSha1Collision == [b \in Bytes |-> "digest"]

Says(name, dated) ==
  [name |-> name, party |-> none, dated |-> dated, sane |-> TRUE]

\* Two speeches in b1 with one between them that has no date.
MCSpeeches ==
  [b \in Bytes |->
     IF b = b1 THEN <<Says(ann, TRUE), Says(ann, FALSE), Says(bob, TRUE)>>
               ELSE <<Says(ann, TRUE)>>]
\* All in the agenda item of the same name.
MCAgenda == [b \in Bytes |-> [i \in 1..Len(Speeches[b]) |-> "top1"]]

\* b2 is of a later day, so that its span comes before those of b1.
MCDay == [b \in Bytes |-> IF b = b1 THEN 1 ELSE 2]

MCOneTsa == <<"t1">>

\* One document is attested, the other is not yet.
MCSeed ==
  <<[hash |-> b1, url |-> u1, text |-> TRUE, attested |-> TRUE],
    [hash |-> b2, url |-> u1, text |-> TRUE, attested |-> FALSE]>>
=============================================================================
