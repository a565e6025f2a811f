---------------------------- MODULE MCDipAdapter ----------------------------
(* Constant values for the run of DipAdapter. *)
EXTENDS DipAdapter, SequencesExt

CONSTANT MaxLines  \* bound: lines of a text

Lines == Speakers \cup Headers \cup {Chair, Word, White}

\* As _canonicalize leaves it: no blank line first or last, no two in a row.
Canonical(l) ==
  /\ l[1] # White /\ l[Len(l)] # White
  /\ \A i \in 1..(Len(l) - 1) : ~(l[i] = White /\ l[i + 1] = White)

\* A line, then its line break; a blank line is a line break.
TextOf(l) ==
  FlattenSeq([i \in 1..Len(l) |->
                IF l[i] = White THEN <<White>> ELSE <<l[i], White>>])

MCTexts ==
  {<<White>>} \cup
  {TextOf(l) : l \in {k \in UNION {[1..n -> Lines] : n \in 1..MaxLines} :
                        Canonical(k)}}

\* d2 has no PDF; the page behind c2 is empty.
MCListed ==
  [c \in Pages |->
     CASE c = NoCursor -> <<"d1", "d2">>
       [] c = "c1" -> <<"d3">>
       [] c = "c2" -> <<>>
       [] OTHER -> <<"d4">>]
=============================================================================
