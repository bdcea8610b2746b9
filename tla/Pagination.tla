------------------------------ MODULE Pagination ------------------------------
(***************************************************************************)
(* A client walks a job list page by page while loads, retention and       *)
(* purges change the rows under it: JobRepository.search, _page and        *)
(* _parse_cursor.  The rows are those that match the client's filters; a   *)
(* row that stops matching is removed.  A key is a date or a salary, of    *)
(* which only the order matters.                                           *)
(***************************************************************************)
EXTENDS Integers, FiniteSets

CONSTANTS
  Ids,    \* job ids
  Keys,   \* values of a sort column
  Null,   \* SQL NULL
  Rows,   \* the rows a job may have
  Limits  \* page sizes a client may ask for

\* SORT_OPTIONS
Sort == {"posted_at_desc", "first_seen_desc", "salary_desc", "relevance"}
NotNull == {"first_seen_desc", "relevance"}
Keyset == Sort \ {"relevance"}

Row == {r \in [Sort -> Keys \cup {Null}] : \A s \in NotNull : r[s] # Null}

ASSUME PaginationAssumption ==
  /\ Ids \subseteq Nat /\ IsFiniteSet(Ids)
  /\ Keys \subseteq Int /\ Null \notin Int
  /\ Rows \subseteq Row
  /\ Limits \subseteq Nat \ {0}

VARIABLES
  table,   \* job id -> row
  pc,      \* the walk: "idle", "walking", "ended", "refused"
  sort,    \* its order
  cursor,  \* next_cursor, decoded; NoCursor if there was none
  page,    \* what the last answer showed: [id, value]
  shown,   \* what the answers before it showed
  more,    \* its has_more
  steady   \* ids that matched when the walk began, and have kept their place in its order

walk == <<pc, sort, cursor, page, shown, more>>
vars == <<table, walk, steady>>

Entry == [id : Ids, value : Keys \cup {Null}]
NoCursor == [sort |-> "none"]
Cursor == [id : Ids, value : Keys \cup {Null}, sort : Keyset]

TypeOK ==
  /\ DOMAIN table \subseteq Ids /\ table \in [DOMAIN table -> Rows]
  /\ pc \in {"idle", "walking", "ended", "refused"}
  /\ sort \in Sort
  /\ cursor \in Cursor \cup {NoCursor}
  /\ page \subseteq Entry /\ shown \subseteq Entry
  /\ more \in BOOLEAN
  /\ steady \subseteq DOMAIN table

Init ==
  /\ \E S \in SUBSET Ids : table \in [S -> Rows]
  /\ pc = "idle" /\ sort = "posted_at_desc" /\ cursor = NoCursor
  /\ page = {} /\ shown = {} /\ more = FALSE /\ steady = {}

-------------------------------------------------------------------------------
(* search *)

\* ORDER BY key DESC NULLS LAST, id DESC.
Before(d, e) ==
  \/ d.value # Null /\ e.value = Null
  \/ d.value # Null /\ e.value # Null /\ d.value > e.value
  \/ d.value = e.value /\ d.id > e.id

\* Mutant: the key alone.
BehindKey(e, c) == e.value # Null /\ c.value # Null /\ e.value < c.value

\* (key, id) < (cursor_value, cursor_id): never true of a NULL.
Behind(e, c) ==
  /\ e.value # Null /\ c.value # Null
  /\ e.value < c.value \/ (e.value = c.value /\ e.id < c.id)

Listed(s) == {[id |-> i, value |-> table[i][s]] : i \in DOMAIN table}

\* The rows of the WHERE clause.
Candidates(s, c) ==
  IF c = NoCursor \/ s \notin Keyset THEN Listed(s) ELSE {e \in Listed(s) : Behind(e, c)}

\* LIMIT
First(E, n) == {e \in E : Cardinality({d \in E : Before(d, e)}) < n}

\* Mutant: a full page counts as a sign of more.
HasMoreIfFull(s, n) == Cardinality(Candidates(s, cursor)) >= n

\* LIMIT is one more than the page shows.
HasMore(s, n) == Cardinality(Candidates(s, cursor)) > n

Last(E) == CHOOSE e \in E : \A d \in E : d = e \/ Before(d, e)

-------------------------------------------------------------------------------
(* The routes *)

\* Mutant: a cursor for any sort, whether it can be continued or not.
NextCursorAlways(s, E, hasMore) ==
  IF hasMore /\ E # {} THEN [id |-> Last(E).id, value |-> Last(E).value, sort |-> s] ELSE NoCursor

\* _page
NextCursor(s, E, hasMore) ==
  IF hasMore /\ E # {} /\ s \in Keyset
  THEN [id |-> Last(E).id, value |-> Last(E).value, sort |-> s] ELSE NoCursor

\* Mutant: _parse_cursor does not compare the sorts.
CursorFitsAny(s) == TRUE

\* _parse_cursor
CursorFits(s) == cursor = NoCursor \/ cursor.sort = s

Answer(s, n) ==
  LET E == First(Candidates(s, cursor), n)
  IN /\ sort' = s
     /\ page' = E
     /\ shown' = shown \cup page
     /\ more' = HasMore(s, n)
     /\ cursor' = NextCursor(s, E, more')
     /\ pc' = IF cursor' = NoCursor THEN "ended" ELSE "walking"

FirstPage(s, n) ==
  /\ pc = "idle"
  /\ Answer(s, n)
  /\ steady' = DOMAIN table
  /\ UNCHANGED table

\* The client follows next_cursor.
NextPage(s, n) ==
  /\ pc = "walking" /\ CursorFits(s)
  /\ Answer(s, n)
  /\ UNCHANGED <<table, steady>>

\* 422: the cursor was issued for a different sort order.
Refuse(s) ==
  /\ pc = "walking" /\ ~CursorFits(s)
  /\ pc' = "refused"
  /\ UNCHANGED <<table, sort, cursor, page, shown, more, steady>>

-------------------------------------------------------------------------------
(* What happens to the rows meanwhile *)

\* Inserted, or matching from now on.
Appear(i, r) ==
  /\ i \notin DOMAIN table
  /\ table' = [k \in DOMAIN table \cup {i} |-> IF k = i THEN r ELSE table[k]]
  /\ UNCHANGED <<walk, steady>>

\* Expired, purged, or no longer matching.
Vanish(i) ==
  /\ i \in DOMAIN table
  /\ table' = [k \in DOMAIN table \ {i} |-> table[k]]
  /\ steady' = steady \ {i}
  /\ UNCHANGED walk

\* Updated by a load.
Change(i, r) ==
  /\ i \in DOMAIN table
  /\ table' = [table EXCEPT ![i] = r]
  /\ steady' = IF r[sort] = table[i][sort] THEN steady ELSE steady \ {i}
  /\ UNCHANGED walk

Rewrite == \E i \in Ids : Vanish(i) \/ \E r \in Rows : Appear(i, r) \/ Change(i, r)

Request(s, n) == FirstPage(s, n) \/ NextPage(s, n)

Next ==
  \/ \E s \in Sort : Refuse(s) \/ \E n \in Limits : Request(s, n)
  \/ Rewrite

Spec == Init /\ [][Next]_vars

\* A client that follows the links, with no claim on how fast the rows change.
FairSpec == Spec /\ WF_vars(\E n \in Limits : NextPage(sort, n))

-------------------------------------------------------------------------------
(* Properties *)

\* jobs.py: "Silently restarting would look to the client like duplicated results".  Every page
\* sorts after all that was shown before, whatever happens to the rows in between, so no row
\* is shown twice unless it was moved down.
PagesDescend == \A d \in shown, e \in page : Before(d, e)

\* A walk misses no row that matched all the time, kept its key and has one.
SteadyRowsAreShown ==
  pc = "ended" /\ sort \in Keyset =>
    \A i \in steady :
      table[i][sort] # Null => [id |-> i, value |-> table[i][sort]] \in page \cup shown

\* The rows that sort after everything the client has seen.
Unseen == {e \in Listed(sort) : \A d \in page \cup shown : Before(d, e)}

\* has_more is never wrong about rows with a key, and never promises what is not there.
MoreExistOfKeyed ==
  [][page # page' \/ shown # shown' =>
       /\ more' => Unseen' # {}
       /\ (\E e \in Unseen' : e.value # Null) => more']_vars

\* Every walk ends, however the rows change meanwhile.
WalksEnd == pc = "walking" ~> pc # "walking"

-------------------------------------------------------------------------------
(* Strengthenings *)

\* The cursor is the last row of the page, and everything shown comes before it.
CursorIsLast ==
  pc = "walking" =>
    /\ cursor \in Cursor /\ cursor.sort = sort
    /\ \E l \in page :
         /\ l.id = cursor.id /\ l.value = cursor.value
         /\ \A d \in page \cup shown : d = l \/ Before(d, l)

\* What is steady and not yet shown is behind the cursor.
SteadyRowsAreAhead ==
  pc \in {"walking", "ended"} /\ sort \in Keyset =>
    \A i \in steady :
      LET e == [id |-> i, value |-> table[i][sort]]
      IN e.value # Null => e \in page \cup shown \/ (pc = "walking" /\ Behind(e, cursor))

WalkInv ==
  /\ TypeOK /\ CursorIsLast /\ PagesDescend /\ SteadyRowsAreAhead
  /\ pc = "idle" => cursor = NoCursor /\ page = {} /\ shown = {}
===============================================================================
