------------------------------ MODULE DipProofs ------------------------------
(***************************************************************************)
(* The adapter for plenary protocols, for every service and every text:    *)
(* discover returns the whole list or gives up an endless one, and what    *)
(* parse quotes is what each speaker said, under the item that was open.   *)
(***************************************************************************)
EXTENDS DipAdapter, TLAPS, WellFoundedInduction

-----------------------------------------------------------------------------
(* Least and greatest positions *)

LEMMA LeastOf ==
  ASSUME NEW S \in SUBSET Nat, S # {}
  PROVE  Min(S) \in S /\ \A n \in S : Min(S) <= n
<1>1. PICK m \in S : \A n \in S : <<n, m>> \notin OpToRel(<, Nat)
  BY NatLessThanWellFounded, WFMin
<1>2. \A n \in S : ~(n < m)
  BY <1>1 DEF OpToRel
<1>3. \A n \in S : m <= n
  BY <1>2
<1> QED BY <1>3 DEF Min

LEMMA GreatestOf ==
  ASSUME NEW S \in SUBSET Nat, S # {}, NEW b \in Nat, \A n \in S : n <= b
  PROVE  Max(S) \in S /\ \A n \in S : n <= Max(S)
<1> DEFINE U == {u \in Nat : \A n \in S : n <= u}
<1>1. PICK m \in U : \A u \in U : m <= u
  <2>1. U \in SUBSET Nat /\ U # {}
    OBVIOUS
  <2> HIDE DEF U
  <2> QED BY <2>1, LeastOf
<1>2. m \in S
  <2> SUFFICES ASSUME m \notin S PROVE FALSE
    OBVIOUS
  <2>1. \A n \in S : n < m
    BY <1>1
  <2>2. PICK n \in S : TRUE
    OBVIOUS
  <2>3. m - 1 \in U
    BY <1>1, <2>1, <2>2
  <2> QED BY <1>1, <2>3
<1>3. \A n \in S : m >= n
  BY <1>1
<1> QED BY <1>2, <1>3 DEF Max

-----------------------------------------------------------------------------
(* discover *)

\* The cursors of f lead along the path, and none but the last of the pages may
\* be the last page.
Walked(f, path, n) ==
  /\ path \in [0..n -> Pages] /\ path[0] = NoCursor
  /\ \A m \in 0..(n - 1) :
       path[m + 1] = f[path[m]] /\ f[path[m]] \notin {NoCursor, path[m]}

FoundTo(path, n) == UNION {Found(m, path[m]) : m \in 0..n}

\* While discover runs it stands at the end of the path and has read the pages
\* before; once it has returned it has read the last one too.
DiscoverInv ==
  /\ follow \in [Pages -> Pages] /\ pages \in 0..MaxPages
  /\ call = "discover" =>
       /\ result = "running" =>
            \E path : /\ Walked(follow, path, pages)
                      /\ path[pages] = cursor /\ refs = FoundTo(path, pages - 1)
       /\ result = "returned" =>
            \E n \in 0..(MaxPages - 1) : \E path :
              /\ Walked(follow, path, n)
              /\ follow[path[n]] \in {NoCursor, path[n]} /\ refs = FoundTo(path, n)
       /\ (result = "raised" /\ ~failed) =>
            \E path : Walked(follow, path, MaxPages)

LEMMA DiscoverStep == ASSUME DiscoverInv, [Next]_vars PROVE DiscoverInv'
<1>0. MaxPages \in Nat \ {0} /\ pages \in Nat /\ follow \in [Pages -> Pages]
  BY DipAssumption DEF DiscoverInv
<1>1. CASE Page
  <2>1. PICK n \in Nat : n = pages
    BY <1>0
  <2>2. PICK path : /\ Walked(follow, path, n)
                    /\ path[n] = cursor /\ refs = FoundTo(path, n - 1)
    BY <1>1, <2>1 DEF DiscoverInv, Page
  <2>3. /\ call = "discover" /\ pages' = n + 1 /\ n < MaxPages
        /\ UNCHANGED <<call, follow, failed>>
        /\ refs' = refs \cup Found(n, cursor)
    BY <1>1, <2>1 DEF Page
  <2>4. path \in [0..n -> Pages] /\ cursor \in Pages
    BY <2>2 DEF Walked
  <2>5. refs' = FoundTo(path, n)
    <3>1. 0..n = 0..(n - 1) \cup {n}
      OBVIOUS
    <3> QED BY <2>2, <2>3, <3>1 DEF FoundTo
  <2>6. CASE follow[cursor] \in {NoCursor, cursor}
    <3>1. result' = "returned" /\ n \in 0..(MaxPages - 1)
      BY <1>0, <1>1, <2>1, <2>3, <2>6 DEF Page
    <3> QED BY <1>0, <2>2, <2>3, <2>5, <2>6, <3>1 DEF DiscoverInv
  <2>7. CASE follow[cursor] \notin {NoCursor, cursor}
    <3>1. result' = "running" /\ cursor' = follow[cursor]
      BY <1>1, <2>7 DEF Page
    <3> DEFINE longer == [m \in 0..(n + 1) |->
                            IF m <= n THEN path[m] ELSE follow[cursor]]
    <3>2. /\ longer \in [0..(n + 1) -> Pages] /\ longer[n + 1] = follow[cursor]
          /\ \A m \in 0..n : longer[m] = path[m]
      BY <1>0, <2>4
    <3> HIDE DEF longer
    <3>3. ASSUME NEW m \in 0..n
          PROVE  /\ longer[m + 1] = follow[longer[m]]
                 /\ follow[longer[m]] \notin {NoCursor, longer[m]}
      BY <2>2, <2>7, <3>2 DEF Walked
    <3>4. Walked(follow, longer, n + 1)
      BY <2>2, <3>2, <3>3 DEF Walked
    <3>5. FoundTo(longer, n) = FoundTo(path, n)
      BY <3>2 DEF FoundTo
    <3> QED BY <1>0, <2>3, <2>5, <3>1, <3>2, <3>4, <3>5 DEF DiscoverInv
  <2> QED BY <2>6, <2>7
<1>2. CASE PageFails
  BY <1>2 DEF PageFails, DiscoverInv
<1>3. CASE Runaway
  BY <1>0, <1>3 DEF Runaway, DiscoverInv
<1>4. CASE Parse \/ UNCHANGED vars
  BY <1>4 DEF Parse, vars, DiscoverInv
<1> QED BY <1>1, <1>2, <1>3, <1>4 DEF Next

\* Whatever the service hands out as cursors, a list that discover returns is
\* the whole one, and only a list without a last page among the first MaxPages
\* is given up.
THEOREM WholeListOrNone == Spec => []DiscoversAll
<1>1. Init => DiscoverInv
  <2> SUFFICES ASSUME Init PROVE DiscoverInv
    OBVIOUS
  <2>3. follow \in [Pages -> Pages] /\ pages \in 0..MaxPages
    BY DipAssumption DEF Init, Pages
  <2> DEFINE path == [m \in 0..0 |-> NoCursor]
  <2>1. path \in [0..0 -> Pages] /\ path[0] = NoCursor
    BY DEF Pages
  <2> HIDE DEF path
  <2>2. Walked(follow, path, 0) /\ FoundTo(path, 0 - 1) = {}
    BY <2>1 DEF Walked, FoundTo
  <2> QED BY <2>1, <2>2, <2>3 DEF Init, DiscoverInv
<1>2. DiscoverInv => DiscoversAll
  <2>1. ASSUME DiscoverInv, call = "discover", result = "returned"
        PROVE  \E n \in 0..(MaxPages - 1) : \E path \in [0..n -> Pages] :
                 /\ IsPath(path, n)
                 /\ LastPage(path[n]) /\ \A m \in 0..(n - 1) : ~LastPage(path[m])
                 /\ refs = UNION {Found(m, path[m]) : m \in 0..n}
    BY <2>1 DEF DiscoverInv, Walked, FoundTo, IsPath, LastPage
  <2>2. ASSUME DiscoverInv, call = "discover", result = "raised", ~failed
        PROVE  \E path \in [0..(MaxPages - 1) -> Pages] :
                 /\ IsPath(path, MaxPages - 1)
                 /\ \A m \in 0..(MaxPages - 1) : ~LastPage(path[m])
    <3>1. PICK path : Walked(follow, path, MaxPages)
      BY <2>2 DEF DiscoverInv
    <3> DEFINE first == [m \in 0..(MaxPages - 1) |-> path[m]]
    <3>2. first \in [0..(MaxPages - 1) -> Pages]
      BY <3>1, DipAssumption DEF Walked
    <3>3. IsPath(first, MaxPages - 1) /\ \A m \in 0..(MaxPages - 1) : ~LastPage(first[m])
      BY <3>1, <3>2, DipAssumption DEF Walked, IsPath, LastPage
    <3> QED BY <3>2, <3>3
  <2> QED BY <2>1, <2>2 DEF DiscoversAll
<1> QED BY <1>1, <1>2, DiscoverStep, PTL DEF Spec

-----------------------------------------------------------------------------
(* parse: the turns of a text *)

LEMMA TurnEnds ==
  ASSUME NEW t \in Seq(Tokens), NEW m \in Markers(t)
  PROVE  /\ m \in 1..Len(t) /\ Until(t, m) \in (m + 1)..(Len(t) + 1)
         /\ Until(t, m) \in Markers(t) \cup {Len(t) + 1}
         /\ \A k \in (m + 1)..(Until(t, m) - 1) : k \notin Markers(t)
<1> DEFINE S == {k \in Markers(t) : k > m} \cup {Len(t) + 1}
<1>1. Len(t) \in Nat /\ Markers(t) \subseteq 1..Len(t)
  BY DEF Markers, Where
<1>2. S \in SUBSET Nat /\ S # {}
  BY <1>1
<1>3. Min(S) \in S /\ \A n \in S : Min(S) <= n
  <2> HIDE DEF S
  <2> QED BY <1>2, LeastOf
<1>4. Until(t, m) = Min(S)
  BY DEF Until
<1>5. PICK u : u = Min(S)
  OBVIOUS
<1>6. /\ (u \in Markers(t) /\ u > m) \/ u = Len(t) + 1
      /\ \A k \in Markers(t) : k > m => u <= k
  BY <1>3, <1>5
<1>7. \A k \in (m + 1)..(u - 1) : k \notin Markers(t)
  BY <1>1, <1>6
<1> HIDE DEF S
<1> QED BY <1>1, <1>4, <1>5, <1>6, <1>7

LEMMA WhiteSkipped ==
  ASSUME NEW t, NEW a \in Nat, NEW b \in Nat, a <= b
  PROVE  /\ SkipWhite(t, a, b) \in a..b
         /\ SkipWhite(t, a, b) = b \/ t[SkipWhite(t, a, b)] # White
         /\ \A k \in a..(SkipWhite(t, a, b) - 1) : t[k] = White
<1> DEFINE S == {k \in a..b : k = b \/ t[k] # White}
<1>1. S \in SUBSET Nat /\ S # {}
  OBVIOUS
<1>2. Min(S) \in S /\ \A n \in S : Min(S) <= n
  <2> HIDE DEF S
  <2> QED BY <1>1, LeastOf
<1> QED BY <1>2 DEF SkipWhite

LEMMA WhiteTrimmed ==
  ASSUME NEW t, NEW a \in Nat, NEW b \in Nat, a <= b
  PROVE  /\ TrimWhite(t, a, b) \in a..b
         /\ TrimWhite(t, a, b) = a \/ t[TrimWhite(t, a, b) - 1] # White
         /\ \A k \in TrimWhite(t, a, b)..(b - 1) : t[k] = White
<1> DEFINE S == {k \in a..b : k = a \/ t[k - 1] # White}
<1>1. S \in SUBSET Nat /\ S # {} /\ \A n \in S : n <= b
  OBVIOUS
<1>2. Max(S) \in S /\ \A n \in S : n <= Max(S)
  <2> HIDE DEF S
  <2> QED BY <1>1, GreatestOf
<1>3. TrimWhite(t, a, b) = Max(S)
  BY DEF TrimWhite
<1>4. \A k \in Max(S)..(b - 1) : k + 1 \in a..b /\ k + 1 \notin S
  BY <1>2
<1>5. \A k \in Max(S)..(b - 1) : t[k] = White
  BY <1>4
<1> QED BY <1>2, <1>3, <1>5

\* What is left of a turn: all that is not white space, and nothing outside it.
LEMMA TurnTrimmed ==
  ASSUME NEW t \in Seq(Tokens), NEW m \in Markers(t)
  PROVE  LET turn == Turn(t, m)
         IN /\ turn.start \in (m + 1)..Until(t, m)
            /\ turn.end \in turn.start..Until(t, m)
            /\ turn.start < turn.end =>
                 t[turn.start] # White /\ t[turn.end - 1] # White
            /\ \A k \in (m + 1)..(Until(t, m) - 1) :
                 t[k] # White => k \in turn.start..(turn.end - 1)
            /\ \A k \in (m + 1)..(turn.start - 1) : t[k] = White
            /\ turn.name = t[m] /\ turn.header = TopBefore(t, turn.start)
<1> DEFINE U == Until(t, m)
           s == SkipWhite(t, m + 1, U)
           e == TrimWhite(t, s, U)
<1>1. m \in Nat /\ U \in Nat /\ m + 1 \in Nat /\ m + 1 <= U
  BY TurnEnds
<1>2. /\ Turn(t, m).start = s /\ Turn(t, m).end = e
      /\ Turn(t, m).name = t[m] /\ Turn(t, m).header = TopBefore(t, s)
  BY DEF Turn
<1>3. /\ s \in (m + 1)..U /\ (s = U \/ t[s] # White)
      /\ \A k \in (m + 1)..(s - 1) : t[k] = White
  <2> HIDE DEF U
  <2> QED BY <1>1, WhiteSkipped
<1>4. s \in Nat /\ s <= U
  BY <1>1, <1>3
<1>5. /\ e \in s..U /\ (e = s \/ t[e - 1] # White)
      /\ \A k \in e..(U - 1) : t[k] = White
  <2> HIDE DEF U, s
  <2> QED BY <1>1, <1>4, WhiteTrimmed
<1> HIDE DEF U, s, e
<1>6. s < e => t[s] # White /\ t[e - 1] # White
  BY <1>1, <1>3, <1>4, <1>5
<1>7. \A k \in (m + 1)..(U - 1) : t[k] # White => k \in s..(e - 1)
  BY <1>1, <1>3, <1>4, <1>5
<1> QED BY <1>2, <1>3, <1>5, <1>6, <1>7 DEF U

\* Whose turn it is.
LEMMA TurnFound ==
  ASSUME text \in Seq(Tokens), NEW k \in 1..Len(text)
  PROVE  /\ TurnAt(k) \in 0..k
         /\ TurnAt(k) # 0 => TurnAt(k) \in Markers(text)
         /\ \A m \in Markers(text) : m <= k => m <= TurnAt(k)
<1> DEFINE S == {0} \cup {m \in 1..k : text[m] \in Speakers \cup {Chair}}
<1>1. S \in SUBSET Nat /\ S # {} /\ k \in Nat /\ \A n \in S : n <= k
  OBVIOUS
<1>2. Max(S) \in S /\ \A n \in S : n <= Max(S)
  <2> HIDE DEF S
  <2> QED BY <1>1, GreatestOf
<1>3. TurnAt(k) = Max(S)
  BY DEF TurnAt
<1>4. \A m \in 1..k : m \in Markers(text) <=> m \in S
  BY DEF Markers, Where
<1>5. \A m \in Markers(text) : m \in Nat /\ m >= 1
  BY DEF Markers, Where
<1> QED BY <1>1, <1>2, <1>3, <1>4, <1>5

\* A position after a marker and before the end of its turn, and only such a
\* one, is in the marker's turn.
LEMMA InTurn ==
  ASSUME text \in Seq(Tokens), NEW k \in 1..Len(text), NEW m \in Markers(text)
  PROVE  k \in (m + 1)..(Until(text, m) - 1) <=> TurnAt(k) = m /\ k # m
<1>1. /\ m \in 1..Len(text) /\ Until(text, m) \in (m + 1)..(Len(text) + 1)
      /\ Until(text, m) \in Markers(text) \cup {Len(text) + 1}
      /\ \A j \in (m + 1)..(Until(text, m) - 1) : j \notin Markers(text)
  BY TurnEnds
<1>2. /\ TurnAt(k) \in 0..k
      /\ TurnAt(k) # 0 => TurnAt(k) \in Markers(text)
      /\ \A j \in Markers(text) : j <= k => j <= TurnAt(k)
  BY TurnFound
<1>3. Len(text) \in Nat
  OBVIOUS
<1>4. ASSUME k \in (m + 1)..(Until(text, m) - 1) PROVE TurnAt(k) = m
  BY <1>1, <1>2, <1>3, <1>4
<1>5. ASSUME TurnAt(k) = m, k # m PROVE k \in (m + 1)..(Until(text, m) - 1)
  BY <1>1, <1>2, <1>3, <1>5
<1> QED BY <1>1, <1>3, <1>4, <1>5

-----------------------------------------------------------------------------
(* parse: what is quoted *)

ParseInv ==
  text \in Seq(Tokens) /\ (Parsed => drafts = Segments(text))

LEMMA ParseInvariant == Spec => []ParseInv
<1>1. Init => ParseInv
  <2>1. <<>> \in Seq(Tokens)
    OBVIOUS
  <2> QED BY <2>1, DipAssumption DEF Init, ParseInv, Parsed
<1>2. ParseInv /\ [Next]_vars => ParseInv'
  BY DEF ParseInv, Parsed, Next, Page, PageFails, Runaway, Parse, vars
<1> QED BY <1>1, <1>2, PTL DEF Spec

\* The turns that are quoted.
LEMMA QuotedTurns ==
  ASSUME ParseInv, Parsed
  PROVE  /\ DOMAIN drafts = Where(text, Speakers)
         /\ \A m \in DOMAIN drafts :
              m \in Markers(text) /\ text[m] # Chair /\ drafts[m] = Turn(text, m)
<1>1. Where(text, Speakers) = {k \in Markers(text) : text[k] # Chair}
  BY DipAssumption DEF Where, Markers
<1> QED BY <1>1 DEF ParseInv, Segments

\* Whatever the text: parse quotes each word and header of a turn exactly once,
\* under the name of the speaker whose marker came last, and nothing of the
\* chair's turns or before the first marker.
THEOREM EveryWordQuoted == Spec => []QuotedAsSpoken
<1>1. ParseInv => QuotedAsSpoken
  <2> SUFFICES ASSUME ParseInv, Parsed, NEW k \in 1..Len(text), text[k] # White
               PROVE  \/ TurnAt(k) \in {0, k} /\ Quoting(k) = {}
                      \/ /\ TurnAt(k) \notin {0, k} /\ text[TurnAt(k)] = Chair
                         /\ Quoting(k) = {}
                      \/ /\ TurnAt(k) \notin {0, k}
                         /\ text[TurnAt(k)] \in Speakers
                         /\ Quoting(k) = {TurnAt(k)}
                         /\ drafts[TurnAt(k)].name = text[TurnAt(k)]
    BY DEF QuotedAsSpoken
  <2>1. text \in Seq(Tokens)
    BY DEF ParseInv
  <2>2. ASSUME NEW m \in DOMAIN drafts
        PROVE  m \in Quoting(k) <=> TurnAt(k) = m /\ k # m
    <3>1. m \in Markers(text) /\ drafts[m] = Turn(text, m)
      BY QuotedTurns
    <3>2. m \in Quoting(k) <=> k \in drafts[m].start..(drafts[m].end - 1)
      BY DEF Quoting
    <3>3. k \in drafts[m].start..(drafts[m].end - 1) <=>
            k \in (m + 1)..(Until(text, m) - 1)
      <4>1. /\ drafts[m].start \in (m + 1)..Until(text, m)
            /\ drafts[m].end \in drafts[m].start..Until(text, m)
            /\ k \in (m + 1)..(Until(text, m) - 1) =>
                 k \in drafts[m].start..(drafts[m].end - 1)
        BY <2>1, <3>1, TurnTrimmed
      <4>2. m \in Nat /\ Until(text, m) \in Nat
        BY <2>1, <3>1, TurnEnds
      <4> QED BY <4>1, <4>2
    <3> QED BY <2>1, <3>1, <3>2, <3>3, InTurn
  <2>3. Quoting(k) = {m \in DOMAIN drafts : TurnAt(k) = m /\ k # m}
    BY <2>2 DEF Quoting
  <2>4. \A m \in DOMAIN drafts : m # 0
    BY QuotedTurns DEF Where
  <2>5. CASE TurnAt(k) \in {0, k}
    BY <2>3, <2>4, <2>5
  <2>6. CASE TurnAt(k) \notin {0, k}
    <3>1. TurnAt(k) \in Markers(text)
      BY <2>1, <2>6, TurnFound
    <3>2. /\ text[TurnAt(k)] \in Speakers \cup {Chair}
          /\ TurnAt(k) \in DOMAIN drafts <=> text[TurnAt(k)] \in Speakers
      BY <3>1, QuotedTurns DEF Markers, Where
    <3>3. CASE text[TurnAt(k)] \in Speakers
      <4>1. TurnAt(k) \in DOMAIN drafts
        BY <3>2, <3>3
      <4>2. drafts[TurnAt(k)].name = text[TurnAt(k)]
        BY <2>1, <3>1, <4>1, QuotedTurns, TurnTrimmed
      <4> QED BY <2>3, <2>6, <3>3, <4>1, <4>2
    <3>4. CASE text[TurnAt(k)] \notin Speakers
      BY <2>3, <2>6, <3>2, <3>4
    <3> QED BY <3>3, <3>4
  <2> QED BY <2>5, <2>6
<1> QED BY <1>1, ParseInvariant, PTL

\* Whatever the text: a draft that chk_offsets refuses, the counterexample to
\* NoEmptyDraft, comes only from a turn in which nothing is said.
THEOREM OnlySilenceIsEmpty == Spec => []EmptyOnlyIfSilent
<1>1. ParseInv => EmptyOnlyIfSilent
  <2> SUFFICES ASSUME ParseInv, Parsed, NEW m \in DOMAIN drafts,
                      NEW k \in (m + 1)..Len(text), TurnAt(k) = m, text[k] # White
               PROVE  drafts[m].start < drafts[m].end
    BY DEF EmptyOnlyIfSilent
  <2>1. text \in Seq(Tokens)
    BY DEF ParseInv
  <2>2. m \in Markers(text) /\ drafts[m] = Turn(text, m)
    BY QuotedTurns
  <2>3. /\ \A j \in (m + 1)..(Until(text, m) - 1) :
             text[j] # White => j \in drafts[m].start..(drafts[m].end - 1)
        /\ drafts[m].start \in (m + 1)..Until(text, m)
        /\ drafts[m].end \in drafts[m].start..Until(text, m)
    BY <2>1, <2>2, TurnTrimmed
  <2>4. /\ m \in 1..Len(text) /\ Len(text) \in Nat
        /\ Until(text, m) \in (m + 1)..(Len(text) + 1)
    BY <2>1, <2>2, TurnEnds
  <2>5. k \in 1..Len(text) /\ k # m
    BY <2>4
  <2>6. k \in (m + 1)..(Until(text, m) - 1)
    BY <2>1, <2>2, <2>5, InTurn
  <2> QED BY <2>3, <2>4, <2>6
<1> QED BY <1>1, ParseInvariant, PTL

\* Whatever the text: the agenda item parse files a quote under is the last one
\* opened before the speaker's marker, never one the speech itself mentions.
THEOREM OpenItem == Spec => []FiledUnderOpenItem
<1>1. ParseInv => FiledUnderOpenItem
  <2> SUFFICES ASSUME ParseInv, Parsed, NEW m \in DOMAIN drafts
               PROVE  drafts[m].header =
                        IF {k \in 1..m : text[k] \in Headers} = {} THEN NoCursor
                        ELSE text[Max({k \in 1..m : text[k] \in Headers})]
    BY DEF FiledUnderOpenItem
  <2>1. text \in Seq(Tokens)
    BY DEF ParseInv
  <2>2. m \in Markers(text) /\ drafts[m] = Turn(text, m)
    BY QuotedTurns
  <2>3. /\ drafts[m].header = TopBefore(text, drafts[m].start)
        /\ drafts[m].start \in (m + 1)..Until(text, m)
        /\ \A k \in (m + 1)..(drafts[m].start - 1) : text[k] = White
    BY <2>1, <2>2, TurnTrimmed
  <2>4. /\ m \in 1..Len(text) /\ Len(text) \in Nat
        /\ Until(text, m) \in (m + 1)..(Len(text) + 1)
    BY <2>1, <2>2, TurnEnds
  <2>5. {k \in Where(text, Headers) : k < drafts[m].start} =
          {k \in 1..m : text[k] \in Headers}
    BY <2>3, <2>4, DipAssumption DEF Where
  <2> QED BY <2>3, <2>5 DEF TopBefore
<1> QED BY <1>1, ParseInvariant, PTL
=============================================================================
