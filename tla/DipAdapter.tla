----------------------------- MODULE DipAdapter -----------------------------
(***************************************************************************)
(* One call of the adapter for plenary protocols: discover follows the     *)
(* cursors of the DIP service from page to page; parse cuts the frozen     *)
(* text of a protocol into one draft per turn of a speaker.  The regular   *)
(* expressions are abstracted to what they find: a token of the text is a  *)
(* speaker's marker, the marker of the chair, an agenda header, a word or  *)
(* white space, one position long.                                         *)
(***************************************************************************)
EXTENDS Naturals, Sequences, FiniteSetsExt

CONSTANTS
  Cursors,   \* what the service may hand out as a cursor
  Listed,    \* Listed[c]: the documents of the page behind cursor c
  Linked,    \* the documents that have a pdf_url
  MaxPages,  \* _MAX_PAGES
  Speakers,  \* tokens: the marker of each speaker
  Headers,   \* tokens: agenda headers
  Texts      \* the frozen texts: sequences of tokens

NoCursor == "none"
Chair == "chair"
Word == "word"
White == "white"
Tokens == Speakers \cup Headers \cup {Chair, Word, White}

ASSUME DipAssumption ==
  /\ NoCursor \notin Cursors
  /\ MaxPages \in Nat \ {0}
  /\ Texts \subseteq Seq(Tokens)
  /\ Speakers \cap (Headers \cup {Chair, Word, White}) = {}
  /\ Headers \cap {Chair, Word, White} = {}

VARIABLES
  call,    \* the method: "discover" or "parse"
  follow,  \* follow[c]: the cursor the page behind c carries
  cursor,  \* discover: the cursor of the next request
  pages,   \* discover: pages requested so far
  refs,    \* discover: the documents found, as <<page, place on it>>
  failed,  \* history: a request got no proper answer
  text,    \* parse: the text
  drafts,  \* parse: the segment of each turn, by the position of its marker
  result   \* "running", "returned" or "raised"

vars == <<call, follow, cursor, pages, refs, failed, text, drafts, result>>

Pages == Cursors \cup {NoCursor}

\* Either method, with whatever service or text it meets.
Init ==
  /\ \/ /\ call = "discover"
        /\ follow \in [Pages -> Pages]
        /\ text = <<>>
     \/ /\ call = "parse"
        /\ follow = [c \in Pages |-> NoCursor]
        /\ text \in Texts
  /\ cursor = NoCursor
  /\ pages = 0
  /\ refs = {}
  /\ failed = FALSE
  /\ drafts = <<>>
  /\ result = "running"

-----------------------------------------------------------------------------
(* discover *)

\* _refs_from_documents skips what has no pdf_url: the places of the others.
RefsFrom(documents) == {i \in 1..Len(documents) : documents[i] \in Linked}

\* What page n contributes, if it is the one behind cursor c.
Found(n, c) == {n} \X RefsFrom(Listed[c])

\* Mutant: the cursor is looked at before the documents are taken.
PageLastLost ==
  /\ call = "discover" /\ result = "running" /\ pages < MaxPages
  /\ pages' = pages + 1
  /\ IF follow[cursor] \in {NoCursor, cursor}
     THEN result' = "returned" /\ UNCHANGED <<cursor, refs>>
     ELSE /\ refs' = refs \cup Found(pages, cursor)
          /\ cursor' = follow[cursor] /\ UNCHANGED result
  /\ UNCHANGED <<call, follow, failed, text, drafts>>

\* A page is fetched; the last one carries no cursor or its own.
Page ==
  /\ call = "discover" /\ result = "running" /\ pages < MaxPages
  /\ pages' = pages + 1
  /\ refs' = refs \cup Found(pages, cursor)
  /\ IF follow[cursor] \in {NoCursor, cursor}
     THEN result' = "returned" /\ UNCHANGED cursor
     ELSE cursor' = follow[cursor] /\ UNCHANGED result
  /\ UNCHANGED <<call, follow, failed, text, drafts>>

\* No answer, a status that is not 2xx, or no JSON: nothing is discovered.
PageFails ==
  /\ call = "discover" /\ result = "running" /\ pages < MaxPages
  /\ result' = "raised"
  /\ failed' = TRUE
  /\ UNCHANGED <<call, follow, cursor, pages, refs, text, drafts>>

\* Mutant: the guard comes one page early.
RunawayEarly ==
  /\ call = "discover" /\ result = "running" /\ pages + 1 >= MaxPages
  /\ result' = "raised"
  /\ UNCHANGED <<call, follow, cursor, pages, refs, failed, text, drafts>>

\* The guard against endless pagination.
Runaway ==
  /\ call = "discover" /\ result = "running" /\ pages = MaxPages
  /\ result' = "raised"
  /\ UNCHANGED <<call, follow, cursor, pages, refs, failed, text, drafts>>

-----------------------------------------------------------------------------
(* parse *)

Where(t, S) == {k \in 1..Len(t) : t[k] \in S}

\* Mutant: the chair's markers are left out at once.
MarkersOfSpeakers(t) == Where(t, Speakers)

Markers(t) == Where(t, Speakers \cup {Chair})

\* Where the turn of marker m ends: at the next marker of whomever.
Until(t, m) == Min({k \in Markers(t) : k > m} \cup {Len(t) + 1})

\* From a on, the first position before b that is not white space, else b.
SkipWhite(t, a, b) == Min({k \in a..b : k = b \/ t[k] # White})

\* The end, at a or later, of what is left of a..b-1 without white space
\* behind it.
TrimWhite(t, a, b) == Max({k \in a..b : k = a \/ t[k - 1] # White})

\* Mutant: a header at the offset itself counts.
TopBeforeOrAt(t, offset) ==
  LET tops == {k \in Where(t, Headers) : k <= offset}
  IN IF tops = {} THEN NoCursor ELSE t[Max(tops)]

\* _top_before: the last header before the offset.
TopBefore(t, offset) ==
  LET tops == {k \in Where(t, Headers) : k < offset}
  IN IF tops = {} THEN NoCursor ELSE t[Max(tops)]

\* The turn of marker m: its positions are start..end-1.
Turn(t, m) ==
  LET start == SkipWhite(t, m + 1, Until(t, m))
  IN [start |-> start, end |-> TrimWhite(t, start, Until(t, m)),
      name |-> t[m], header |-> TopBefore(t, start)]

\* segment_speeches: one segment from each speaker's marker to the next marker
\* of whomever, without outer white space.
Segments(t) == [m \in {k \in Markers(t) : t[k] # Chair} |-> Turn(t, m)]

\* parse: the date in the head of the protocol may be one no calendar has.
Parse ==
  /\ call = "parse" /\ result = "running"
  /\ \/ result' = "raised" /\ UNCHANGED drafts
     \/ result' = "returned" /\ drafts' = Segments(text)
  /\ UNCHANGED <<call, follow, cursor, pages, refs, failed, text>>

Next == Page \/ PageFails \/ Runaway \/ Parse

Spec == Init /\ [][Next]_vars

-----------------------------------------------------------------------------
(* What discover promises *)

\* path[m] is the cursor of page m, the first n of a reader of the service.
IsPath(path, n) ==
  /\ path \in [0..n -> Pages]
  /\ path[0] = NoCursor
  /\ \A m \in 0..(n - 1) : path[m + 1] = follow[path[m]]

LastPage(c) == follow[c] \in {NoCursor, c}

\* A list that is returned is the whole one: each document with a PDF on a
\* page up to the last is in it once, and nothing else, whichever way the
\* cursors lead.  And the guard hits endless lists only: a service that answers
\* and has at most _MAX_PAGES pages is never given up.
DiscoversAll ==
  /\ (call = "discover" /\ result = "returned") =>
       \E n \in 0..(MaxPages - 1) : \E path \in [0..n -> Pages] :
         /\ IsPath(path, n)
         /\ LastPage(path[n]) /\ \A m \in 0..(n - 1) : ~LastPage(path[m])
         /\ refs = UNION {Found(m, path[m]) : m \in 0..n}
  /\ (call = "discover" /\ result = "raised" /\ ~failed) =>
       \E path \in [0..(MaxPages - 1) -> Pages] :
         IsPath(path, MaxPages - 1) /\ \A m \in 0..(MaxPages - 1) : ~LastPage(path[m])

-----------------------------------------------------------------------------
(* What parse promises *)

Parsed == call = "parse" /\ result = "returned"

\* Whose turn it is at k: the marker at or before k; 0 before the first one.
TurnAt(k) ==
  Max({0} \cup {m \in 1..k : text[m] \in Speakers \cup {Chair}})

Quoting(k) == {m \in DOMAIN drafts : k \in drafts[m].start..(drafts[m].end - 1)}

\* Every word and header is quoted once, as said by the speaker whose marker
\* came last; nothing the chair says, and no marker, is quoted at all.
QuotedAsSpoken ==
  Parsed =>
    \A k \in 1..Len(text) :
      \/ text[k] = White
      \/ TurnAt(k) \in {0, k} /\ Quoting(k) = {}
      \/ TurnAt(k) \notin {0, k} /\ text[TurnAt(k)] = Chair /\ Quoting(k) = {}
      \/ /\ TurnAt(k) \notin {0, k} /\ text[TurnAt(k)] \in Speakers
         /\ Quoting(k) = {TurnAt(k)}
         /\ drafts[TurnAt(k)].name = text[TurnAt(k)]

\* docs/adapter-konformitaet.md, span_offsets: "0 <= text_start < text_end" of
\* every draft.  chk_offsets asks the same of a span.
NoEmptyDraft == Parsed => \A m \in DOMAIN drafts : drafts[m].start < drafts[m].end

\* What does hold: a draft is empty only if nothing is said in the turn.
EmptyOnlyIfSilent ==
  Parsed =>
    \A m \in DOMAIN drafts :
      \/ drafts[m].start < drafts[m].end
      \/ \A k \in (m + 1)..Len(text) : TurnAt(k) = m => text[k] = White

\* A quote is filed under the agenda item that was open when its speaker was
\* called, also if the speech itself begins with a line that looks like one.
FiledUnderOpenItem ==
  Parsed =>
    \A m \in DOMAIN drafts :
      LET opened == {k \in 1..m : text[k] \in Headers}
      IN drafts[m].header = IF opened = {} THEN NoCursor ELSE text[Max(opened)]
=============================================================================
