--------------------------- MODULE Pagination_proofs ---------------------------
(* Proofs about walks: the order of the rows, what a page is of them, and WalkInv. *)
EXTENDS Pagination, FiniteSetTheorems, WellFoundedInduction, TLAPS

Keyed(d) == d.id \in Nat /\ d.value \in Int \cup {Null}

-------------------------------------------------------------------------------
(* ORDER BY is a strict total order of the rows, and the keyset condition its tail *)

LEMMA BeforeTransitive ==
  ASSUME NEW d, NEW e, NEW f, Keyed(d), Keyed(e), Keyed(f), Before(d, e), Before(e, f)
  PROVE  Before(d, f)
  BY PaginationAssumption DEF Keyed, Before

LEMMA BeforeIrreflexive == ASSUME NEW d, Keyed(d) PROVE ~Before(d, d)
  BY PaginationAssumption DEF Keyed, Before

LEMMA EntryKeyed == \A d \in Entry \cup Cursor : Keyed(d)
  BY PaginationAssumption DEF Entry, Cursor, Keyed

LEMMA BeforeTotal ==
  ASSUME NEW d \in Entry, NEW e \in Entry, d # e
  PROVE  Before(d, e) \/ Before(e, d)
<1>1. d.id # e.id \/ d.value # e.value
  BY DEF Entry
<1>2. Keyed(d) /\ Keyed(e)
  BY EntryKeyed
<1>3. CASE d.value = e.value
  <2>1. d.id > e.id \/ e.id > d.id
    BY <1>1, <1>2, <1>3 DEF Keyed
  <2>2. QED
    BY <1>3, <2>1 DEF Before
<1>4. CASE d.value # e.value
  BY <1>2, <1>4, PaginationAssumption DEF Keyed, Before
<1>5. QED
  BY <1>3, <1>4

\* A row with a key comes after the cursor exactly when SQL's row comparison says so.
LEMMA BehindIsBefore ==
  ASSUME NEW e, NEW c, Keyed(e), Keyed(c)
  PROVE  Behind(e, c) <=> Before(c, e) /\ e.value # Null
  BY PaginationAssumption DEF Keyed, Before, Behind

-------------------------------------------------------------------------------
(* The first rows of a finite set *)

LEMMA FirstIsUpperPart ==
  ASSUME NEW E \in SUBSET Entry, IsFiniteSet(E), NEW n \in Nat,
         NEW e \in First(E, n), NEW d \in E, Before(d, e)
  PROVE  d \in First(E, n)
<1> DEFINE Rank(x) == {y \in E : Before(y, x)}
<1>1. Rank(d) \subseteq Rank(e)
  BY BeforeTransitive, EntryKeyed DEF First
<1>2. IsFiniteSet(Rank(e))
  BY FS_Subset
<1>3. IsFiniteSet(Rank(d)) /\ Cardinality(Rank(d)) <= Cardinality(Rank(e))
  BY <1>1, <1>2, FS_Subset
<1>4. Cardinality(Rank(d)) \in Nat /\ Cardinality(Rank(e)) \in Nat
  BY <1>2, <1>3, FS_CardinalityType
<1>5. Cardinality(Rank(e)) < n
  BY DEF First
<1>6. QED
  BY <1>3, <1>4, <1>5 DEF First

LEMMA SmallestOfASet ==
  ASSUME NEW S \in SUBSET Nat, S # {}
  PROVE  \E k \in S : \A m \in S : k <= m
<1>1. PICK k \in S : \A m \in S : <<m, k>> \notin OpToRel(<, Nat)
  BY WFMin, NatLessThanWellFounded, Zenon
<1>2. \A m \in S : ~(m < k)
  BY <1>1, Zenon DEF OpToRel
<1>3. QED
  BY <1>2

LEMMA HasFirst ==
  ASSUME NEW E \in SUBSET Entry, IsFiniteSet(E), E # {}
  PROVE  \E l \in E : \A d \in E : d = l \/ Before(l, d)
<1> DEFINE Rank(x) == {y \in E : Before(y, x)}
           S == {k \in Nat : \E x \in E : Cardinality(Rank(x)) = k}
<1>1. \A x \in E : IsFiniteSet(Rank(x)) /\ Cardinality(Rank(x)) \in Nat
  BY FS_Subset, FS_CardinalityType
<1>2. S # {} /\ S \in SUBSET Nat
  BY <1>1
<1>3. PICK k \in S : \A m \in S : k <= m
  BY <1>2, SmallestOfASet
<1>4. PICK l \in E : Cardinality(Rank(l)) = k
  BY <1>3
<1>5. ASSUME NEW d \in E, Before(d, l) PROVE FALSE
  <2>1. Rank(d) \subseteq Rank(l) /\ d \in Rank(l) /\ d \notin Rank(d)
    BY <1>5, BeforeTransitive, BeforeIrreflexive, EntryKeyed
  <2>2. Cardinality(Rank(d)) <= Cardinality(Rank(l)) /\ Cardinality(Rank(d)) # Cardinality(Rank(l))
    BY <2>1, <1>1, FS_Subset
  <2>3. Cardinality(Rank(d)) \in S
    BY <1>1
  <2>4. k <= Cardinality(Rank(d))
    BY <2>3, <1>3
  <2>5. Cardinality(Rank(l)) \in Nat /\ Cardinality(Rank(d)) \in Nat
    BY <1>1
  <2> HIDE DEF Rank
  <2>6. QED
    BY <2>2, <2>4, <2>5, <1>4
<1>6. QED
  BY <1>5, BeforeTotal

LEMMA HasLast ==
  ASSUME NEW E \in SUBSET Entry, IsFiniteSet(E), E # {}
  PROVE  \E l \in E : \A d \in E : d = l \/ Before(d, l)
<1> DEFINE Rank(x) == {y \in E : Before(x, y)}
           S == {k \in Nat : \E x \in E : Cardinality(Rank(x)) = k}
<1>1. \A x \in E : IsFiniteSet(Rank(x)) /\ Cardinality(Rank(x)) \in Nat
  BY FS_Subset, FS_CardinalityType
<1>2. S # {} /\ S \in SUBSET Nat
  BY <1>1
<1>3. PICK k \in S : \A m \in S : k <= m
  BY <1>2, SmallestOfASet
<1>4. PICK l \in E : Cardinality(Rank(l)) = k
  BY <1>3
<1>5. ASSUME NEW d \in E, Before(l, d) PROVE FALSE
  <2>1. Rank(d) \subseteq Rank(l) /\ d \in Rank(l) /\ d \notin Rank(d)
    BY <1>5, BeforeTransitive, BeforeIrreflexive, EntryKeyed
  <2>2. Cardinality(Rank(d)) <= Cardinality(Rank(l)) /\ Cardinality(Rank(d)) # Cardinality(Rank(l))
    BY <2>1, <1>1, FS_Subset
  <2>3. Cardinality(Rank(d)) \in S
    BY <1>1
  <2>4. k <= Cardinality(Rank(d))
    BY <2>3, <1>3
  <2>5. Cardinality(Rank(l)) \in Nat /\ Cardinality(Rank(d)) \in Nat
    BY <1>1
  <2> HIDE DEF Rank
  <2>6. QED
    BY <2>2, <2>4, <2>5, <1>4
<1>6. QED
  BY <1>5, BeforeTotal

LEMMA FirstIsNotEmpty ==
  ASSUME NEW E \in SUBSET Entry, IsFiniteSet(E), E # {}, NEW n \in Nat \ {0}
  PROVE  First(E, n) # {}
<1>1. PICK l \in E : \A d \in E : d = l \/ Before(l, d)
  BY HasFirst
<1>2. {d \in E : Before(d, l)} = {}
  BY <1>1, BeforeTransitive, BeforeIrreflexive, EntryKeyed
<1>3. Cardinality({d \in E : Before(d, l)}) = 0
  BY <1>2, FS_EmptySet
<1>4. QED
  BY <1>3 DEF First

\* A page leaves something out exactly when there are more rows than it may show.
LEMMA FirstIsAll ==
  ASSUME NEW E \in SUBSET Entry, IsFiniteSet(E), NEW n \in Nat \ {0}
  PROVE  First(E, n) # E <=> Cardinality(E) > n
<1> DEFINE Rank(x) == {y \in E : Before(y, x)}
<1>1. \A x \in E : IsFiniteSet(Rank(x)) /\ Cardinality(Rank(x)) \in Nat
  BY FS_Subset, FS_CardinalityType
<1>2. Cardinality(E) \in Nat
  BY FS_CardinalityType
<1>3. ASSUME Cardinality(E) <= n PROVE First(E, n) = E
  <2>1. ASSUME NEW x \in E PROVE Cardinality(Rank(x)) < n
    <3>1. x \notin Rank(x) /\ Rank(x) \subseteq E
      BY BeforeIrreflexive, EntryKeyed
    <3>2. Cardinality(Rank(x)) <= Cardinality(E) /\ Cardinality(Rank(x)) # Cardinality(E)
      BY <3>1, FS_Subset
    <3>3. QED
      BY <3>2, <1>1, <1>2, <1>3
  <2>2. QED
    BY <2>1 DEF First
<1>4. ASSUME Cardinality(E) > n PROVE First(E, n) # E
  <2>1. E # {}
    BY <1>4, FS_EmptySet
  <2>2. PICK l \in E : \A d \in E : d = l \/ Before(d, l)
    BY <2>1, HasLast
  <2>3. Rank(l) = E \ {l}
    BY <2>2, BeforeIrreflexive, EntryKeyed
  <2>4. Cardinality(Rank(l)) = Cardinality(E) - 1
    BY <2>3, FS_RemoveElement
  <2>5. l \notin First(E, n)
    BY <2>4, <1>2, <1>4 DEF First
  <2>6. QED
    BY <2>5
<1>5. QED
  BY <1>2, <1>3, <1>4

LEMMA LastIsLast ==
  ASSUME NEW E \in SUBSET Entry, IsFiniteSet(E), E # {}
  PROVE  Last(E) \in E /\ \A d \in E : d = Last(E) \/ Before(d, Last(E))
  BY HasLast DEF Last

-------------------------------------------------------------------------------
(* The listed rows *)

LEMMA ListedRows ==
  ASSUME TypeOK, NEW s \in Sort
  PROVE  Listed(s) \subseteq Entry /\ IsFiniteSet(Listed(s))
<1>1. Listed(s) \subseteq Entry
  BY PaginationAssumption DEF TypeOK, Listed, Entry, Row
<1>2. IsFiniteSet(DOMAIN table)
  BY PaginationAssumption, FS_Subset DEF TypeOK
<1> DEFINE f == [i \in DOMAIN table |-> [id |-> i, value |-> table[i][s]]]
<1>3. f \in Surjection(DOMAIN table, Listed(s))
  BY DEF Surjection, Listed
<1>4. QED
  BY <1>1, <1>2, <1>3, FS_Surjection

LEMMA CandidateRows ==
  ASSUME TypeOK, NEW s \in Sort, NEW n \in Nat \ {0}
  PROVE  /\ Candidates(s, cursor) \subseteq Listed(s)
         /\ IsFiniteSet(Candidates(s, cursor))
         /\ First(Candidates(s, cursor), n) \subseteq Candidates(s, cursor)
         /\ IsFiniteSet(First(Candidates(s, cursor), n))
<1>1. Candidates(s, cursor) \subseteq Listed(s)
  BY DEF Candidates
<1>2. IsFiniteSet(Candidates(s, cursor))
  BY <1>1, ListedRows, FS_Subset
<1>3. First(Candidates(s, cursor), n) \subseteq Candidates(s, cursor)
  BY DEF First
<1>4. QED
  BY <1>1, <1>2, <1>3, FS_Subset

-------------------------------------------------------------------------------
(* An answer *)

\* The page, and what is left of the rows after it.
LEMMA PageOfCandidates ==
  ASSUME TypeOK, NEW s \in Sort, NEW n \in Limits, Answer(s, n)
  PROVE  LET C == Candidates(s, cursor) IN
         /\ page' \subseteq C /\ C \subseteq Listed(s) /\ C \subseteq Entry
         /\ \A e \in C \ page', d \in page' : Before(d, e)
         /\ more' <=> C \ page' # {}
         /\ C # {} => page' # {}
         /\ page' # {} => Last(page') \in page' /\ \A d \in page' : d = Last(page') \/ Before(d, Last(page'))
<1> DEFINE C == Candidates(s, cursor)
<1>1. n \in Nat \ {0}
  BY PaginationAssumption
<1>2. page' = First(C, n)
  BY DEF Answer
<1>3. /\ C \subseteq Listed(s) /\ C \in SUBSET Entry /\ IsFiniteSet(C)
      /\ First(C, n) \subseteq C /\ First(C, n) \in SUBSET Entry /\ IsFiniteSet(First(C, n))
  BY <1>1, CandidateRows, ListedRows
<1>4. ASSUME NEW e \in C \ page', NEW d \in page' PROVE Before(d, e)
  <2>1. d # e /\ d \in Entry /\ e \in Entry /\ d \in First(C, n) /\ e \notin First(C, n)
    BY <1>2, <1>3, <1>4
  <2>2. ~Before(e, d)
    BY <2>1, <1>1, <1>3, <1>4, FirstIsUpperPart
  <2>3. QED
    BY <2>1, <2>2, BeforeTotal
<1>5. more' <=> Cardinality(C) > n
  BY DEF Answer, HasMore
<1>6. more' <=> C \ page' # {}
  BY <1>1, <1>2, <1>3, <1>5, FirstIsAll
<1>7. C # {} => page' # {}
  BY <1>1, <1>2, <1>3, FirstIsNotEmpty
<1>8. page' # {} => Last(page') \in page' /\ \A d \in page' : d = Last(page') \/ Before(d, Last(page'))
  BY <1>2, <1>3, LastIsLast
<1>9. QED
  BY <1>2, <1>3, <1>4, <1>6, <1>7, <1>8

\* Where an answer continues a walk, every candidate comes after everything shown.
LEMMA CandidatesAreNew ==
  ASSUME WalkInv, NEW s \in Sort, pc = "idle" \/ (pc = "walking" /\ CursorFits(s))
  PROVE  \A e \in Candidates(s, cursor), d \in page \cup shown : Before(d, e)
<1>1. CASE pc = "idle"
  BY <1>1 DEF WalkInv
<1>2. CASE pc = "walking" /\ CursorFits(s)
  <2>1. PICK l \in page :
          /\ l.id = cursor.id /\ l.value = cursor.value
          /\ \A d \in page \cup shown : d = l \/ Before(d, l)
    BY <1>2 DEF WalkInv, CursorIsLast
  <2>2. cursor \in Cursor /\ cursor.sort = sort /\ cursor # NoCursor
    BY <1>2 DEF WalkInv, CursorIsLast, Cursor, NoCursor, Keyset, Sort
  <2>3. s \in Keyset
    BY <1>2, <2>2 DEF CursorFits, Cursor
  <2>4. SUFFICES ASSUME NEW e \in Candidates(s, cursor), NEW d \in page \cup shown
                 PROVE  Before(d, e)
    OBVIOUS
  <2>5. e \in Entry /\ Behind(e, cursor)
    BY <2>2, <2>3, ListedRows DEF Candidates, WalkInv
  <2>6. Before(cursor, e)
    BY <2>2, <2>5, BehindIsBefore, EntryKeyed
  <2>7. Before(l, e)
    BY <2>1, <2>6 DEF Before
  <2>8. l \in Entry /\ d \in Entry
    BY DEF WalkInv, TypeOK
  <2>9. QED
    BY <2>1, <2>5, <2>7, <2>8, BeforeTransitive, EntryKeyed
<1>3. QED
  BY <1>1, <1>2

\* And every row with a key that comes after everything shown is a candidate.
LEMMA NewRowsAreCandidates ==
  ASSUME WalkInv, NEW s \in Sort, pc = "idle" \/ (pc = "walking" /\ CursorFits(s)),
         NEW e \in Listed(s), e.value # Null, \A d \in page \cup shown : Before(d, e)
  PROVE  e \in Candidates(s, cursor)
<1>1. CASE pc = "idle"
  BY <1>1 DEF WalkInv, Candidates
<1>2. CASE pc = "walking" /\ CursorFits(s)
  <2>1. PICK l \in page : l.id = cursor.id /\ l.value = cursor.value
    BY <1>2 DEF WalkInv, CursorIsLast
  <2>2. Before(cursor, e)
    BY <2>1 DEF Before
  <2>3. cursor \in Cursor /\ e \in Entry
    BY <1>2, ListedRows DEF WalkInv, CursorIsLast
  <2>4. Behind(e, cursor)
    BY <2>2, <2>3, BehindIsBefore, EntryKeyed
  <2>5. QED
    BY <2>4 DEF Candidates
<1>3. QED
  BY <1>1, <1>2

\* A request that is answered, the first of a walk or a later one.
Answered(s, n) ==
  /\ pc = "idle" \/ (pc = "walking" /\ CursorFits(s))
  /\ Answer(s, n)
  /\ table' = table
  /\ steady' = IF pc = "idle" THEN DOMAIN table ELSE steady

LEMMA RequestIsAnswered == \A s, n : Request(s, n) => Answered(s, n)
  BY DEF Request, FirstPage, NextPage, Answered

LEMMA AnswerTypes ==
  ASSUME TypeOK, NEW s \in Sort, NEW n \in Limits, Answered(s, n)
  PROVE  TypeOK'
<1>1. page' \subseteq Entry /\ (page' # {} => Last(page') \in page')
  BY PageOfCandidates DEF Answered
<1>2. cursor' \in Cursor \cup {NoCursor}
  BY <1>1 DEF Answered, Answer, NextCursor, Entry, Cursor
<1>3. QED
  BY <1>1, <1>2 DEF TypeOK, Answered, Answer, HasMore

LEMMA AnswerDescends ==
  ASSUME WalkInv, NEW s \in Sort, NEW n \in Limits, Answered(s, n)
  PROVE  PagesDescend'
<1>1. page' \subseteq Candidates(s, cursor)
  BY PageOfCandidates DEF Answered, WalkInv
<1>2. QED
  BY <1>1, CandidatesAreNew DEF Answered, Answer, PagesDescend

LEMMA AnswerMovesCursor ==
  ASSUME WalkInv, NEW s \in Sort, NEW n \in Limits, Answered(s, n)
  PROVE  CursorIsLast'
<1> SUFFICES ASSUME pc' = "walking"
             PROVE  CursorIsLast'
  BY DEF CursorIsLast
<1>1. cursor' # NoCursor
  BY DEF Answered, Answer
<1>2. /\ page' # {} /\ s \in Keyset
      /\ cursor' = [id |-> Last(page').id, value |-> Last(page').value, sort |-> s]
  BY <1>1 DEF Answered, Answer, NextCursor
<1>3. Last(page') \in page' /\ \A d \in page' : d = Last(page') \/ Before(d, Last(page'))
  BY <1>2, PageOfCandidates DEF Answered, WalkInv
<1>4. \A d \in shown' : Before(d, Last(page'))
  BY <1>3, AnswerDescends DEF PagesDescend
<1>5. cursor' \in Cursor
  BY <1>1, AnswerTypes DEF WalkInv, TypeOK
<1>6. QED
  BY <1>2, <1>3, <1>4, <1>5 DEF CursorIsLast, Answered, Answer

LEMMA AnswerKeepsSteady ==
  ASSUME WalkInv, NEW s \in Sort, NEW n \in Limits, Answered(s, n)
  PROVE  SteadyRowsAreAhead'
<1> SUFFICES ASSUME s \in Keyset, NEW i \in steady', table[i][s] # Null,
                    [id |-> i, value |-> table[i][s]] \notin page' \cup shown'
             PROVE  pc' = "walking" /\ Behind([id |-> i, value |-> table[i][s]], cursor')
  BY DEF SteadyRowsAreAhead, Answered, Answer
<1> DEFINE e == [id |-> i, value |-> table[i][s]]
           C == Candidates(s, cursor)
<1>1. i \in DOMAIN table /\ e \in Listed(s) /\ e.value # Null
  BY DEF Answered, WalkInv, TypeOK, Listed
<1>2. e \in C
  <2>1. CASE pc = "idle"
    BY <1>1, <2>1 DEF WalkInv, Candidates
  <2>2. CASE pc = "walking" /\ CursorFits(s)
    <3>1. cursor.sort = sort /\ cursor # NoCursor
      BY <2>2 DEF WalkInv, CursorIsLast, Cursor, NoCursor, Keyset, Sort
    <3>2. s = sort /\ i \in steady
      BY <2>2, <3>1 DEF CursorFits, Answered
    <3>3. e \notin page \cup shown \/ Behind(e, cursor)
      BY <2>2 DEF Answered, Answer
    <3>4. Behind(e, cursor)
      BY <2>2, <3>2, <3>3, <1>1 DEF WalkInv, SteadyRowsAreAhead, Answered, Answer
    <3>5. QED
      BY <3>4, <1>1 DEF Candidates
  <2>3. QED
    BY <2>1, <2>2 DEF Answered
<1>3. /\ more' /\ page' # {} /\ page' \subseteq Entry /\ e \in Entry
      /\ \A d \in page' : Before(d, e)
      /\ Last(page') \in page'
  BY <1>2, PageOfCandidates DEF Answered, WalkInv
<1>4. cursor' = [id |-> Last(page').id, value |-> Last(page').value, sort |-> s]
  BY <1>3 DEF Answered, Answer, NextCursor
<1>5. cursor' # NoCursor /\ cursor' \in Cursor
  BY <1>3, <1>4 DEF NoCursor, Cursor, Entry
<1>6. Before(cursor', e)
  BY <1>3, <1>4 DEF Before
<1>7. Behind(e, cursor')
  BY <1>1, <1>3, <1>5, <1>6, BehindIsBefore, EntryKeyed
<1>8. QED
  BY <1>5, <1>7 DEF Answered, Answer

\* What has_more says of rows with a key is true, and what it promises is there.
LEMMA AnswerTellsMore ==
  ASSUME WalkInv, NEW s \in Sort, NEW n \in Limits, Answered(s, n)
  PROVE  /\ more' => Unseen' # {}
         /\ (\E e \in Unseen' : e.value # Null) => more'
<1> DEFINE C == Candidates(s, cursor)
<1>1. Unseen' = {e \in Listed(s) : \A d \in page' \cup shown' : Before(d, e)}
  BY DEF Unseen, Listed, Answered, Answer
<1>2. shown' = shown \cup page
  BY DEF Answered, Answer
<1>3. ASSUME more' PROVE Unseen' # {}
  <2>1. PICK e \in C \ page' : TRUE
    BY <1>3, PageOfCandidates DEF Answered, WalkInv
  <2>2. e \in Listed(s) /\ \A d \in page' : Before(d, e)
    BY <2>1, PageOfCandidates DEF Answered, WalkInv
  <2>3. \A d \in shown' : Before(d, e)
    BY <2>1, <1>2, CandidatesAreNew DEF Answered
  <2>4. QED
    BY <2>2, <2>3, <1>1
<1>4. ASSUME NEW e \in Unseen', e.value # Null PROVE more'
  <2>1. e \in Listed(s) /\ \A d \in page' \cup page \cup shown : Before(d, e)
    BY <1>1, <1>2
  <2>2. e \in C
    BY <2>1, <1>4, NewRowsAreCandidates DEF Answered
  <2>3. e \notin page'
    BY <2>1, BeforeIrreflexive, EntryKeyed, ListedRows DEF WalkInv
  <2>4. QED
    BY <2>2, <2>3, PageOfCandidates DEF Answered, WalkInv
<1>5. QED
  BY <1>3, <1>4

-------------------------------------------------------------------------------
(* The invariant *)

LEMMA RewriteKeepsWalk ==
  ASSUME WalkInv, Rewrite
  PROVE  WalkInv'
<1>1. UNCHANGED walk
  BY DEF Rewrite, Vanish, Appear, Change
<1>2. TypeOK'
  <2>1. PICK i \in Ids : Vanish(i) \/ \E r \in Rows : Appear(i, r) \/ Change(i, r)
    BY DEF Rewrite
  <2>2. /\ DOMAIN table' \subseteq Ids /\ table' \in [DOMAIN table' -> Rows]
        /\ steady' \subseteq DOMAIN table'
    <3>1. CASE Vanish(i)
      BY <3>1 DEF Vanish, WalkInv, TypeOK
    <3>2. CASE \E r \in Rows : Appear(i, r)
      BY <3>2 DEF Appear, WalkInv, TypeOK
    <3>3. CASE \E r \in Rows : Change(i, r)
      BY <3>3 DEF Change, WalkInv, TypeOK
    <3>4. QED
      BY <2>1, <3>1, <3>2, <3>3
  <2>3. QED
    BY <1>1, <2>2 DEF walk, WalkInv, TypeOK
<1>3. \A k \in steady' : k \in steady /\ table'[k][sort] = table[k][sort]
  <2>1. PICK i \in Ids : Vanish(i) \/ \E r \in Rows : Appear(i, r) \/ Change(i, r)
    BY DEF Rewrite
  <2>2. CASE Vanish(i)
    BY <2>2 DEF Vanish, WalkInv, TypeOK
  <2>3. CASE \E r \in Rows : Appear(i, r)
    BY <2>3 DEF Appear, WalkInv, TypeOK
  <2>4. CASE \E r \in Rows : Change(i, r)
    BY <2>4 DEF Change, WalkInv, TypeOK
  <2>5. QED
    BY <2>1, <2>2, <2>3, <2>4
<1>4. SteadyRowsAreAhead'
  BY <1>1, <1>3 DEF walk, WalkInv, SteadyRowsAreAhead, Behind
<1>5. CursorIsLast' /\ PagesDescend'
  BY <1>1 DEF walk, WalkInv, CursorIsLast, PagesDescend
<1>6. QED
  BY <1>1, <1>2, <1>4, <1>5 DEF walk, WalkInv

LEMMA InitWalk == Init => WalkInv
  BY PaginationAssumption
  DEF Init, WalkInv, TypeOK, CursorIsLast, PagesDescend, SteadyRowsAreAhead, Sort

LEMMA NextWalk == WalkInv /\ [Next]_vars => WalkInv'
<1> SUFFICES ASSUME WalkInv, [Next]_vars
             PROVE  WalkInv'
  OBVIOUS
<1>1. CASE Rewrite
  BY <1>1, RewriteKeepsWalk
<1>2. ASSUME NEW s \in Sort, NEW n \in Limits, Request(s, n)
      PROVE  WalkInv'
  <2>1. Answered(s, n)
    BY <1>2, RequestIsAnswered
  <2>2. pc' # "idle"
    BY <2>1 DEF Answered, Answer
  <2>3. QED
    BY <2>1, <2>2, AnswerTypes, AnswerDescends, AnswerMovesCursor, AnswerKeepsSteady DEF WalkInv
<1>3. ASSUME NEW s \in Sort, Refuse(s)
      PROVE  WalkInv'
  BY <1>3 DEF Refuse, WalkInv, TypeOK, CursorIsLast, PagesDescend, SteadyRowsAreAhead
<1>4. CASE UNCHANGED vars
  BY <1>4 DEF vars, walk, WalkInv, TypeOK, CursorIsLast, PagesDescend, SteadyRowsAreAhead, Behind
<1>5. QED
  BY <1>1, <1>2, <1>3, <1>4 DEF Next

\* A walk's bookkeeping is right for every set of rows, page size and change between pages.
THEOREM Walk == Spec => []WalkInv
  BY InitWalk, NextWalk, PTL DEF Spec

\* The types, and pages that sort after all that was shown before.
THEOREM PagesAreDisjoint == Spec => []TypeOK /\ []PagesDescend
<1>1. WalkInv => TypeOK /\ PagesDescend
  BY DEF WalkInv
<1>2. QED
  BY <1>1, Walk, PTL

\* A finished walk has shown every row that matched throughout and has an unchanged key.
THEOREM SteadyShown == Spec => []SteadyRowsAreShown
<1>1. WalkInv => SteadyRowsAreShown
  BY DEF WalkInv, SteadyRowsAreAhead, SteadyRowsAreShown
<1>2. QED
  BY <1>1, Walk, PTL

\* has_more errs only about rows without a key.
THEOREM MoreOfKeyed == Spec => MoreExistOfKeyed
<1> DEFINE A == page # page' \/ shown # shown' =>
                  /\ more' => Unseen' # {}
                  /\ (\E e \in Unseen' : e.value # Null) => more'
<1>1. WalkInv /\ [Next]_vars => [A]_vars
  <2> SUFFICES ASSUME WalkInv, Next, page # page' \/ shown # shown'
               PROVE  A
    BY DEF vars, walk
  <2>1. PICK s \in Sort, n \in Limits : Request(s, n)
    BY DEF Next, Refuse, Rewrite, Vanish, Appear, Change, walk
  <2>2. QED
    BY <2>1, RequestIsAnswered, AnswerTellsMore
<1>2. QED
  BY <1>1, Walk, PTL DEF Spec, MoreExistOfKeyed
===============================================================================
