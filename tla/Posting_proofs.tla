----------------------------- MODULE Posting_proofs ----------------------------
(***************************************************************************)
(* Proofs about what is made of a posting's text: its place, for records   *)
(* of any words, and its role category, of which ScopeInv is inductive.    *)
(* The tables of places are opened in TableFacts alone, those of           *)
(* categories in TaxonomyFacts: the rest holds of every set of tables with *)
(* those facts.                                                            *)
(***************************************************************************)
EXTENDS Location, Scope, FiniteSetTheorems, WellFoundedInduction, TLAPS

(***************************************************************************)
(* Location                                                                *)
(***************************************************************************)

\* Lookups answer with a code of their table, and no city that is the shorthand of a state
\* is listed as foreign.
LEMMA TableFacts ==
  /\ \A w : resolve_state_code(w) \in US_STATE_CODES \union {None}
  /\ \A w : resolve_india_state_code(w) \in INDIA_STATE_CODES \union {None}
  /\ \A w : resolve_india_state_from_city(w) \in INDIA_STATE_CODES \union {None}
  /\ \A c \in DOMAIN CITY_ALIASES : CITY_ALIASES[c][2] \in US_STATE_CODES
  /\ \A c \in DOMAIN CITY_ALIASES \union TwoLetters : c # None /\ c \notin NON_US_CITIES
<1>1. \A w \in DOMAIN STATE_NAME_TO_CODE : STATE_NAME_TO_CODE[w] \in US_STATE_CODES
  BY DEF STATE_NAME_TO_CODE, US_STATE_CODES
<1>2. \A w \in DOMAIN INDIA_NAME_TO_CODE : INDIA_NAME_TO_CODE[w] \in INDIA_STATE_CODES
  BY DEF INDIA_NAME_TO_CODE, INDIA_STATE_CODES
<1>3. \A w \in DOMAIN INDIA_CITY_TO_STATE : INDIA_CITY_TO_STATE[w] \in INDIA_STATE_CODES
  BY DEF INDIA_CITY_TO_STATE, INDIA_STATE_CODES
<1>4. \A c \in DOMAIN CITY_ALIASES : CITY_ALIASES[c][2] \in US_STATE_CODES
  <2>1. CITY_ALIASES["NYC"] = <<"New York", "NY">> /\ CITY_ALIASES["LA"] = <<"Los Angeles", "CA">>
    BY DEF CITY_ALIASES
  <2>2. DOMAIN CITY_ALIASES = {"NYC", "LA"}
    BY DEF CITY_ALIASES
  <2>3. <<"New York", "NY">>[2] = "NY" /\ <<"Los Angeles", "CA">>[2] = "CA"
    OBVIOUS
  <2>4. CITY_ALIASES["NYC"][2] = "NY" /\ CITY_ALIASES["LA"][2] = "CA"
    BY <2>1, <2>3
  <2>. QED  BY <2>2, <2>4, Zenon DEF US_STATE_CODES
<1>5. \A c \in DOMAIN CITY_ALIASES \union TwoLetters : c # None /\ c \notin NON_US_CITIES
  BY DEF CITY_ALIASES, TwoLetters, NON_US_CITIES, None
<1>6. \A w : resolve_state_code(w) \in US_STATE_CODES \union {None}
  BY <1>1 DEF resolve_state_code
<1>7. \A w : resolve_india_state_code(w) \in INDIA_STATE_CODES \union {None}
  BY <1>2 DEF resolve_india_state_code
<1>8. \A w : resolve_india_state_from_city(w) \in INDIA_STATE_CODES \union {None}
  BY <1>3 DEF resolve_india_state_from_city
<1>. QED  BY <1>4, <1>5, <1>6, <1>7, <1>8

\* No code is the empty field.
LEMMA CodesAreWords == None \notin US_STATE_CODES /\ "US" # None /\ "IN" # None
BY DEF None, US_STATE_CODES

-------------------------------------------------------------------------------

\* A state in the city field is only read when neither of the two state fields has one, and
\* then the city is that of the record: a text never has a city without a state.
LEMMA StateOfCity ==
  ASSUME NEW r \in Raw, State(r) # None, StateRead(r) = None
  PROVE  Shorthand(r.city)
<1>1. r.text \in Texts /\ r.text.state = None /\ r.text.city = None
  BY TextsAssumption DEF Raw, StateRead, Or
<1>2. CityRead(r) = r.city
  BY <1>1 DEF CityRead, Or
<1>. QED  BY <1>2 DEF State, Promoted, Alias, Shorthand

LEMMA CityAloneStep ==
  ASSUME NEW r \in Raw, Normalize(r).country # None
  PROVE  CountrySignals(r) # {} \/ Shorthand(r.city)
<1>1. Claimed(r) # None
  BY DEF Normalize
<1>2. CASE Country(r) # None
  <2>1. Named(r) # None \/ Indian(r) # None
    BY <1>2 DEF Country
  <2>. QED  BY <2>1 DEF Named, Indian, Or, CountrySignals
<1>3. CASE Country(r) = None /\ StateRead(r) # None
  BY <1>3 DEF StateRead, Or, CountrySignals
<1>4. CASE Country(r) = None /\ StateRead(r) = None
  <2>1. State(r) # None
    BY <1>1, <1>4 DEF Claimed
  <2>. QED  BY <1>4, <2>1, StateOfCity
<1>. QED  BY <1>2, <1>3, <1>4

-------------------------------------------------------------------------------

\* Only a shorthand is replaced by another city.
LEMMA CityOrShorthand ==
  ASSUME NEW r \in Raw
  PROVE  City(r) = CityRead(r) \/ CityRead(r) \in DOMAIN CITY_ALIASES \union TwoLetters
BY DEF City, Promoted, Alias

\* A city that is read unchanged is the only one that comes without a state.
LEMMA UnconfirmedCity ==
  ASSUME NEW r \in Raw, State(r) = None
  PROVE  City(r) = CityRead(r)
<1>1. ~Promoted(r)
  BY DEF State, Promoted
<1>2. ~Alias(r)
  <2>1. SUFFICES ASSUME Alias(r) PROVE FALSE
    OBVIOUS
  <2>2. CITY_ALIASES[CityRead(r)][2] # None
    BY <2>1, TableFacts, CodesAreWords DEF Alias
  <2>. QED  BY <1>1, <2>1, <2>2 DEF State, Or
<1>. QED  BY <1>1, <1>2 DEF City

LEMMA ForeignStep ==
  ASSUME NEW r \in Raw, Normalize(r).country = "US"
  PROVE  LET city == Or(r.city, r.text.city) IN
         /\ r.state \notin NON_US_SUBDIVISIONS
         /\ city \notin NON_US_CITIES
         /\ Normalize(r).state = None =>
              /\ resolve_country_code(r.employer) \in {None, "US"}
              /\ city \notin AMBIGUOUS_CITY_NAMES
<1>1. ~Rejected(r) /\ Claimed(r) = "US"
  BY CodesAreWords DEF Normalize
<1>2. Country(r) # "IN"
  BY <1>1, CodesAreWords DEF Claimed, Or
<1>3. r.state \notin NON_US_SUBDIVISIONS
  <2>1. IndiaState(r) = None
    BY <1>2, CodesAreWords DEF IndiaState, Country
  <2>. QED  BY <1>1, <2>1 DEF Rejected, ForeignSubdivision
<1>4. CityRead(r) \notin NON_US_CITIES
  BY <1>1, CityOrShorthand, TableFacts DEF Rejected, ForeignCity
<1>5. ASSUME Normalize(r).state = None
      PROVE  /\ resolve_country_code(r.employer) \in {None, "US"}
             /\ CityRead(r) \notin AMBIGUOUS_CITY_NAMES
  <2>1. State(r) = None
    BY <1>1, <1>5 DEF Normalize, Subdivision
  <2>2. City(r) = CityRead(r)
    BY <2>1, UnconfirmedCity
  <2>. QED  BY <1>1, <2>1, <2>2 DEF Rejected, ForeignEmployer, AmbiguousCity, Unconfirmed
<1>. QED  BY <1>3, <1>4, <1>5 DEF CityRead

-------------------------------------------------------------------------------

LEMMA StateIsCode ==
  ASSUME NEW r \in Raw
  PROVE  State(r) \in US_STATE_CODES \union {None}
<1>1. r.text.state \in US_STATE_CODES \union {None}
  BY TextsAssumption DEF Raw
<1>2. StateRead(r) \in US_STATE_CODES \union {None}
  BY <1>1, TableFacts DEF StateRead, Or
<1>. QED  BY <1>2, TableFacts DEF State, Alias, Or

LEMMA StatesStep ==
  ASSUME NEW r \in Raw
  PROVE  /\ Normalize(r).state # None =>
              \/ Normalize(r).country = "US" /\ Normalize(r).state \in US_STATE_CODES
              \/ Normalize(r).country = "IN" /\ Normalize(r).state \in INDIA_STATE_CODES
         /\ Normalize(r).zip => Normalize(r).country = "US"
<1>1. CASE Rejected(r)
  BY <1>1 DEF Normalize
<1>2. CASE ~Rejected(r)
  <2>1. /\ Normalize(r).state = Subdivision(r)
        /\ Normalize(r).country = Claimed(r)
        /\ Normalize(r).zip = (r.zip /\ Claimed(r) = "US")
    BY <1>2 DEF Normalize
  <2>2. IndiaState(r) \in INDIA_STATE_CODES \union {None}
    BY TableFacts DEF IndiaState, Indian
  <2>. QED  BY <2>1, <2>2, StateIsCode, TableFacts DEF Subdivision, Or
<1>. QED  BY <1>1, <1>2

-------------------------------------------------------------------------------

\* A result is that of its record.
PlaceInv == raw \in Raw /\ (Resolved => place = Normalize(raw))

LEMMA PlaceInvariance == LocationSpec => []PlaceInv
<1>1. LocationInit => PlaceInv
  BY DEF LocationInit, PlaceInv, Resolved
<1>2. PlaceInv /\ [LocationNext]_locationVars => PlaceInv'
  BY DEF PlaceInv, LocationNext, Resolve, locationVars, Resolved
<1>. QED  BY <1>1, <1>2, PTL DEF LocationSpec

\* Whatever the words of a record are, its city alone gives it no country.
THEOREM CityAlone_always == LocationSpec => []CityAloneNamesNoCountry
<1>1. PlaceInv => CityAloneNamesNoCountry
  BY CityAloneStep DEF PlaceInv, CityAloneNamesNoCountry
<1>. QED  BY <1>1, PlaceInvariance, PTL

\* A record that is placed in the United States has nothing in it that speaks of another
\* country more strongly than a country field does.
THEOREM ForeignEvidence_always == LocationSpec => []ForeignEvidenceWins
<1>1. PlaceInv => ForeignEvidenceWins
  BY ForeignStep DEF PlaceInv, ForeignEvidenceWins
<1>. QED  BY <1>1, PlaceInvariance, PTL

\* A stored subdivision belongs to the stored country.
THEOREM StatesFit_always == LocationSpec => []StatesFitTheirCountry
<1>1. PlaceInv => StatesFitTheirCountry
  BY StatesStep DEF PlaceInv, StatesFitTheirCountry
<1>. QED  BY <1>1, PlaceInvariance, PTL

(***************************************************************************)
(* Classification and scope                                                *)
(***************************************************************************)

-------------------------------------------------------------------------------
(* Least and greatest numbers *)

LEMMA HasLeast ==
  ASSUME NEW S \in SUBSET Nat, S # {}
  PROVE  \E k \in S : \A m \in S : k <= m
<1>1. PICK k \in S : \A m \in S : <<m, k>> \notin OpToRel(<, Nat)
  BY WFMin, NatLessThanWellFounded, Zenon
<1>2. \A m \in S : ~(m < k)
  BY <1>1, Zenon DEF OpToRel
<1>. QED  BY <1>2

LEMMA MinIsLeast ==
  ASSUME NEW S \in SUBSET Nat, S # {}
  PROVE  Min(S) \in S /\ \A m \in S : Min(S) <= m
BY HasLeast DEF Min

LEMMA MaxIsGreatest ==
  ASSUME NEW b \in Nat, NEW S \in SUBSET (1..b), S # {}
  PROVE  Max(S) \in S /\ \A m \in S : m <= Max(S)
<1> DEFINE Bounds == {n \in Nat : \A m \in S : m <= n}
<1>1. b \in Bounds
  OBVIOUS
<1>2. PICK k \in Bounds : \A n \in Bounds : k <= n
  BY <1>1, HasLeast
<1>3. k \in S
  <2>1. SUFFICES ASSUME k \notin S PROVE FALSE
    OBVIOUS
  <2>2. \A m \in S : m \in Nat /\ m >= 1 /\ m < k
    BY <2>1, <1>2
  <2>3. k \in Nat /\ k > 1
    <3>1. PICK m : m \in S
      OBVIOUS
    <3>. QED  BY <2>2, <1>2, <3>1
  <2>4. k - 1 \in Nat /\ \A m \in S : m <= k - 1
    BY <2>2, <2>3
  <2>. QED  BY <2>3, <2>4, <1>2
<1>4. \A m \in S : m <= k /\ m \in Nat
  BY <1>2
<1>. QED  BY <1>3, <1>4 DEF Max

-------------------------------------------------------------------------------
(* Classification *)

\* The rule that wins is one of the order.
LEMMA FirstOfIsListed ==
  ASSUME NEW n \in Nat, NEW order, DOMAIN order = 1..n,
         NEW matched \in SUBSET Listed(order), NEW otherwise
  PROVE  FirstOf(order, matched, otherwise) \in Listed(order) \union {otherwise}
<1>1. CASE matched = {}
  BY <1>1 DEF FirstOf
<1>2. CASE matched # {}
  <2> DEFINE S == {i \in DOMAIN order : order[i] \in matched}
  <2>1. S # {} /\ S \in SUBSET Nat
    BY <1>2 DEF Listed
  <2>2. Min(S) \in DOMAIN order
    BY <2>1, MinIsLeast
  <2>. QED  BY <1>2, <2>2 DEF FirstOf, Listed
<1>. QED  BY <1>1, <1>2

\* The taxonomy of the two releases: what its rules name it lists, and what a migration
\* splits it files under slugs of the next.
LEMMA TaxonomyFacts ==
  /\ \A v \in Releases : \E n \in Nat : DOMAIN CATEGORIES[v] = 1..n
  /\ \A v \in Releases : \A word : Rules(v, word) \subseteq Listed(CATEGORIES[v])
  /\ \A c \in Slugs(1) : c \notin DOMAIN Split => c \in Slugs(2)
  /\ \A c \in DOMAIN Split : Split[c] \in Slugs(2)
<1>1. /\ CATEGORIES[1] = <<"healthcare", "data", "software", "management">>
      /\ CATEGORIES[2] = <<"healthcare", "data-engineering", "data-analytics", "software", "management">>
  BY DEF CATEGORIES
<1>2. DOMAIN CATEGORIES[1] = 1..4 /\ DOMAIN CATEGORIES[2] = 1..5
  BY <1>1
<1>3. Listed(CATEGORIES[1]) = {"healthcare", "data", "software", "management"}
  <2>1. \A i \in 1..4 : i \in {1, 2, 3, 4}
    OBVIOUS
  <2>. QED  BY <1>1, <2>1 DEF Listed
<1>4. Listed(CATEGORIES[2]) =
        {"healthcare", "data-engineering", "data-analytics", "software", "management"}
  <2>1. \A i \in 1..5 : i \in {1, 2, 3, 4, 5}
    OBVIOUS
  <2>. QED  BY <1>1, <2>1 DEF Listed
<1>5. \A v \in Releases : \A word : Rules(v, word) \subseteq Listed(CATEGORIES[v])
  BY <1>3, <1>4 DEF Releases, Rules
<1>6. \A v \in Releases : \E n \in Nat : DOMAIN CATEGORIES[v] = 1..n
  BY <1>2 DEF Releases
<1>. QED  BY <1>3, <1>4, <1>5, <1>6 DEF Slugs, Split

LEMMA ClassifyType ==
  ASSUME NEW v \in Releases, NEW title, NEW department, NEW seniority
  PROVE  classify(v, title, department, seniority) \in Class(v)
<1>1. PICK n \in Nat : DOMAIN CATEGORIES[v] = 1..n
  BY TaxonomyFacts
<1>2. classify_category(v, title, department) \in Slugs(v)
  <2> DEFINE m == IF Rules(v, title) # {} THEN Rules(v, title) ELSE Rules(v, department)
  <2>1. m \in SUBSET Listed(CATEGORIES[v])
    BY TaxonomyFacts
  <2>2. FirstOf(CATEGORIES[v], m, "other") \in Listed(CATEGORIES[v]) \union {"other"}
    BY <1>1, <2>1, FirstOfIsListed
  <2>. QED  BY <2>2 DEF classify_category, Slugs
<1>3. classify_level(title, seniority) \in {"MANAGER", "ENTRY", "MID", "UNKNOWN"}
  <2>1. FirstOf(LevelRules, LevelsIn(title), "UNKNOWN") \in Listed(LevelRules) \union {"UNKNOWN"}
    <3>1. DOMAIN LevelRules = 1..2 /\ LevelRules[1] = "MANAGER"
      BY DEF LevelRules
    <3>2. "MANAGER" \in Listed(LevelRules)
      BY <3>1 DEF Listed
    <3>3. LevelsIn(title) \in SUBSET Listed(LevelRules)
      BY <3>2 DEF LevelsIn
    <3>. QED  BY <3>1, <3>3, FirstOfIsListed
  <2>2. Listed(LevelRules) \subseteq {"MANAGER", "ENTRY"}
    BY DEF Listed, LevelRules
  <2>. QED  BY <2>1, <2>2 DEF classify_level, SourceSeniority
<1>. QED  BY <1>2, <1>3 DEF classify, Class

-------------------------------------------------------------------------------
(* Pages *)

\* A page is not empty, and a row up to its last is on it.
LEMMA PageFacts ==
  ASSUME NEW b \in Nat, NEW S \in SUBSET (1..b), S # {}
  PROVE  LET page == FirstBatch(S) IN
         /\ page \subseteq S /\ page # {}
         /\ Max(page) \in Nat
         /\ \A i \in S : i <= Max(page) => i \in page
<1> DEFINE page == FirstBatch(S)
           Before(i) == {j \in S : j < i}
<1>0. S \in SUBSET Nat /\ IsFiniteSet(S) /\ BATCH \in Nat \ {0}
  <2>1. IsFiniteSet(1..b)
    BY FS_Interval
  <2>2. IsFiniteSet(S)
    BY <2>1, FS_Subset
  <2>. QED  BY <2>2, ScopeAssumption
<1>1. page \subseteq S
  BY DEF FirstBatch
<1>2. page # {}
  <2>1. PICK k \in S : \A m \in S : k <= m
    BY <1>0, HasLeast
  <2>2. Before(k) = {}
    <3>1. ASSUME NEW j \in S, j < k PROVE FALSE
      BY <1>0, <2>1, <3>1
    <3>. QED  BY <3>1, Zenon
  <2>3. Cardinality(Before(k)) = 0
    BY <2>2, FS_EmptySet
  <2>. QED  BY <1>0, <2>3 DEF FirstBatch
<1>3. Max(page) \in page /\ \A m \in page : m <= Max(page)
  BY <1>1, <1>2, MaxIsGreatest
<1>4. ASSUME NEW i \in S, i <= Max(page) PROVE i \in page
  <2>1. Before(i) \subseteq Before(Max(page))
    <3>1. Max(page) \in Nat /\ i \in Nat /\ \A j \in S : j \in Nat
      BY <1>0, <1>1, <1>3
    <3>2. ASSUME NEW j \in S, j < i PROVE j < Max(page)
      <4> HIDE DEF page
      <4>. QED  BY <3>1, <3>2, <1>4
    <3>. QED  BY <3>2, Zenon
  <2>2. IsFiniteSet(Before(Max(page))) /\ IsFiniteSet(Before(i))
    BY <1>0, FS_Subset
  <2>3. Cardinality(Before(i)) <= Cardinality(Before(Max(page)))
    BY <2>1, <2>2, FS_Subset
  <2>4. Cardinality(Before(Max(page))) < BATCH
    BY <1>3 DEF FirstBatch
  <2>5. Cardinality(Before(i)) \in Nat /\ Cardinality(Before(Max(page))) \in Nat
    BY <2>2, FS_CardinalityType
  <2>6. Cardinality(Before(i)) < BATCH
    BY <1>0, <2>3, <2>4, <2>5
  <2>. QED  BY <2>6 DEF FirstBatch
<1>. QED  BY <1>0, <1>1, <1>2, <1>3, <1>4

-------------------------------------------------------------------------------
(* The table *)

LEMMA RelabelFacts ==
  ASSUME ScopeTypes, NEW S, NEW f
  PROVE  /\ Relabel(S, f) = [i \in DOMAIN jobs |-> Relabel(S, f)[i]]
         /\ DOMAIN Relabel(S, f) = DOMAIN jobs
         /\ \A i \in DOMAIN jobs :
              /\ Relabel(S, f)[i].posting = jobs[i].posting
              /\ Relabel(S, f)[i].class = IF i \in S THEN f[i] ELSE jobs[i].class
              /\ \A C : Relabel(S, f)[i].class \in C =>
                   Relabel(S, f)[i] \in [posting : Postings, class : C]
<1>1. \A i \in DOMAIN jobs : jobs[i] \in [posting : Postings, class : Class(release)]
  BY DEF ScopeTypes
<1>. QED  BY <1>1 DEF Relabel

\* The row that a load writes, and those it leaves alone.
LEMMA StoreFacts ==
  ASSUME ScopeTypes, NEW i, NEW p, ingest # Idle, Store(i, p)
  PROVE  /\ DOMAIN jobs' = DOMAIN jobs \union {i}
         /\ jobs' = [j \in DOMAIN jobs' |-> jobs'[j]]
         /\ jobs'[i] = [posting |-> p, class |-> OfPosting(ingest.release, p)]
         /\ \A j \in DOMAIN jobs : j # i => jobs'[j] = jobs[j]
         /\ ingest.release \in Releases /\ ingest.release \in 1..release
         /\ OfPosting(ingest.release, p) \in Class(release)
<1>1. ingest.release \in 1..release /\ release \in Releases
  BY DEF ScopeTypes
<1>2. ingest.release \in Releases
  BY <1>1 DEF Releases
<1>3. OfPosting(ingest.release, p) \in Class(ingest.release)
  BY <1>2, ClassifyType DEF OfPosting
<1>4. OfPosting(ingest.release, p).category \in Slugs(release)
  BY DEF Store, Known, Slugs
<1>5. OfPosting(ingest.release, p) \in Class(release)
  BY <1>3, <1>4 DEF Class
<1>. QED  BY <1>1, <1>2, <1>5 DEF Store

LEMMA ReleaseFacts == release \in Releases => 1..release \subseteq Releases
BY DEF Releases

LEMMA ScopeTypesInit == Init => ScopeTypes
<1> SUFFICES ASSUME Init PROVE ScopeTypes
  OBVIOUS
<1>0. PICK n \in 0..MaxJob - 1 :
        /\ issued = n
        /\ \E p \in [1..n -> Postings] :
             jobs = [i \in 1..n |-> [posting |-> p[i], class |-> [category |-> None, level |-> "UNKNOWN"]]]
  BY DEF Init
<1>1. PICK p \in [1..n -> Postings] :
        /\ issued = n
        /\ jobs = [i \in 1..n |-> [posting |-> p[i], class |-> [category |-> None, level |-> "UNKNOWN"]]]
  BY <1>0
<1>2. [category |-> None, level |-> "UNKNOWN"] \in Class(release)
  BY DEF Class, Slugs
<1>3. issued \in 0..MaxJob
  BY <1>1, ScopeAssumption
<1>4. DOMAIN jobs = 1..issued /\ jobs \in [DOMAIN jobs -> [posting : Postings, class : Class(release)]]
  BY <1>1, <1>2
<1>. QED  BY <1>3, <1>4 DEF Init, ScopeTypes, Releases, Idle

\* Migration 0006: a row whose slug it splits has one of the next release, or none.
LEMMA DeployType == ASSUME ScopeTypes, Deploy PROVE ScopeTypes'
<1>1. release = 1 /\ release' = 2
  BY DEF ScopeTypes, Deploy, Releases
<1> DEFINE split == {i \in DOMAIN jobs : jobs[i].class.category \in DOMAIN Split}
<1>2. PICK missed \in SUBSET split :
        jobs' = Relabel(split, [i \in split |->
                   [jobs[i].class EXCEPT !.category = IF i \in missed THEN None ELSE Split[@]]])
  BY Zenon DEF Deploy
<1> DEFINE f == [i \in split |->
                   [jobs[i].class EXCEPT !.category = IF i \in missed THEN None ELSE Split[@]]]
<1>3. \A i \in DOMAIN jobs : jobs[i].class \in Class(1)
  BY <1>1 DEF ScopeTypes
<1>4. ASSUME NEW i \in split PROVE f[i] \in Class(2)
  <2>1. f[i] = [jobs[i].class EXCEPT !.category = IF i \in missed THEN None ELSE Split[@]]
    OBVIOUS
  <2>2. (IF i \in missed THEN None ELSE Split[jobs[i].class.category]) \in Slugs(2)
    BY TaxonomyFacts DEF Slugs
  <2>3. jobs[i].class \in Class(1)
    BY <1>3
  <2>. QED  BY <2>1, <2>2, <2>3 DEF Class
<1>5. ASSUME NEW i \in DOMAIN jobs, i \notin split PROVE jobs[i].class \in Class(2)
  BY <1>3, <1>5, TaxonomyFacts DEF Class
<1>6. \A i \in DOMAIN jobs : Relabel(split, f)[i] \in [posting : Postings, class : Class(2)]
  <2> HIDE DEF f
  <2>. QED  BY <1>4, <1>5, RelabelFacts
<1>7. DOMAIN jobs' = DOMAIN jobs /\ jobs' \in [DOMAIN jobs -> [posting : Postings, class : Class(2)]]
  <2> HIDE DEF f, split
  <2>. QED  BY <1>2, <1>6, RelabelFacts DEF f
<1>8. UNCHANGED <<issued, setting, ingest, backfill, purge>>
  BY DEF Deploy
<1>9. 1..release \subseteq 1..release'
  BY <1>1
<1>. QED  BY <1>1, <1>7, <1>8, <1>9 DEF ScopeTypes, Releases, Updates

LEMMA StoreType ==
  ASSUME ScopeTypes, NEW i \in 1..MaxJob, NEW p \in Postings, ingest # Idle, Store(i, p),
         issued' \in 0..MaxJob, i <= issued', issued <= issued'
  PROVE  ScopeTypes'
<1>0. /\ DOMAIN jobs' = DOMAIN jobs \union {i}
      /\ jobs' = [j \in DOMAIN jobs' |-> jobs'[j]]
      /\ jobs'[i] = [posting |-> p, class |-> OfPosting(ingest.release, p)]
      /\ \A j \in DOMAIN jobs : j # i => jobs'[j] = jobs[j]
      /\ OfPosting(ingest.release, p) \in Class(release)
  BY StoreFacts
<1>1. DOMAIN jobs' \subseteq 1..issued'
  <2>1. issued \in Nat /\ issued' \in Nat /\ DOMAIN jobs \subseteq 1..issued
    BY ScopeAssumption DEF ScopeTypes
  <2>2. 1..issued \subseteq 1..issued' /\ i \in 1..issued'
    BY <2>1
  <2>. QED  BY <2>1, <2>2, <1>0
<1>2. ASSUME NEW j \in DOMAIN jobs'
      PROVE  jobs'[j] \in [posting : Postings, class : Class(release)]
  <2>1. CASE j = i
    BY <2>1, <1>0
  <2>2. CASE j # i
    <3>1. j \in DOMAIN jobs /\ jobs'[j] = jobs[j]
      BY <2>2, <1>0
    <3>. QED  BY <3>1 DEF ScopeTypes
  <2>. QED  BY <2>1, <2>2
<1>3. jobs' \in [DOMAIN jobs' -> [posting : Postings, class : Class(release)]]
  BY <1>0, <1>2
<1>4. UNCHANGED <<release, setting, ingest, backfill, purge>>
  BY DEF Store
<1>. QED  BY <1>1, <1>3, <1>4 DEF ScopeTypes, Updates

\* The page that a backfill reads, and what it makes of its rows.
LEMMA ReadFacts ==
  ASSUME ScopeTypes, ReadBatch
  PROVE  LET S == {i \in ToClassify(backfill.all) : i > backfill.last}
             page == FirstBatch(S)
         IN  /\ backfill \in [pc : {"reading", "ended"}, all : BOOLEAN, release : 1..release, last : Nat]
             /\ backfill.pc = "reading"
             /\ UNCHANGED <<jobs, issued, release, setting, ingest, purge, doubtful, late>>
             /\ \/ /\ S = {} /\ backfill' = [backfill EXCEPT !.pc = "ended"]
                   /\ UNCHANGED touched
                \/ /\ page \subseteq S /\ page # {} /\ Max(page) \in Nat
                   /\ \A i \in S : i <= Max(page) => i \in page
                   /\ backfill' = [pc |-> "writing", all |-> backfill.all,
                                   release |-> backfill.release, last |-> Max(page),
                                   updates |-> [i \in page |->
                                      OfStored(backfill.release, jobs[i].posting)]]
                   /\ touched' = touched \ page
<1> DEFINE S == {i \in ToClassify(backfill.all) : i > backfill.last}
           page == FirstBatch(S)
<1>1. backfill.pc = "reading"
  BY DEF ReadBatch
<1>2. backfill \in [pc : {"reading", "ended"}, all : BOOLEAN, release : 1..release, last : Nat]
  BY <1>1 DEF ScopeTypes, Idle
<1>3. issued \in Nat /\ S \in SUBSET (1..issued)
  BY ScopeAssumption DEF ScopeTypes, ToClassify
<1>4. S # {} => /\ page \subseteq S /\ page # {} /\ Max(page) \in Nat
               /\ \A i \in S : i <= Max(page) => i \in page
  <2> HIDE DEF S
  <2>. QED  BY <1>3, PageFacts
<1>. QED  BY <1>1, <1>2, <1>4 DEF ReadBatch

LEMMA ReadType == ASSUME ScopeTypes, ReadBatch PROVE ScopeTypes'
<1> DEFINE S == {i \in ToClassify(backfill.all) : i > backfill.last}
           page == FirstBatch(S)
           updates == [i \in page |-> OfStored(backfill.release, jobs[i].posting)]
<1>1. /\ backfill \in [pc : {"reading", "ended"}, all : BOOLEAN, release : 1..release, last : Nat]
      /\ UNCHANGED <<jobs, issued, release, setting, ingest, purge, doubtful, late>>
  BY ReadFacts
<1>2. CASE backfill' = [backfill EXCEPT !.pc = "ended"]
  <2>1. backfill' \in [pc : {"reading", "ended"}, all : BOOLEAN, release : 1..release, last : Nat]
    BY <1>1, <1>2
  <2>. QED  BY <1>1, <2>1 DEF ScopeTypes, Updates
<1>3. CASE /\ Max(page) \in Nat
           /\ backfill' = [pc |-> "writing", all |-> backfill.all,
                           release |-> backfill.release, last |-> Max(page),
                           updates |-> updates]
  <2>1. backfill.release \in Releases
    BY <1>1, ReleaseFacts DEF ScopeTypes
  <2>2. \A i \in page : updates[i] \in Class(backfill.release)
    BY <2>1, ClassifyType DEF OfStored
  <2>3. updates \in [page -> Class(backfill.release)] /\ DOMAIN updates = page
    BY <2>2
  <2> HIDE DEF updates, page
  <2>4. Updates' = updates
    BY <1>3 DEF Updates
  <2>. QED  BY <1>1, <1>3, <2>3, <2>4 DEF ScopeTypes
<1>. QED  BY <1>2, <1>3, ReadFacts

LEMMA WriteFacts ==
  ASSUME ScopeTypes, WriteBatch
  PROVE  /\ backfill.pc = "writing" /\ backfill # Idle
         /\ backfill.all \in BOOLEAN /\ backfill.release \in 1..release /\ backfill.last \in Nat
         /\ backfill' = [pc |-> "reading", all |-> backfill.all, release |-> backfill.release,
                         last |-> backfill.last]
         /\ DOMAIN jobs' = DOMAIN jobs
         /\ \A i \in DOMAIN jobs :
              /\ jobs'[i].posting = jobs[i].posting
              /\ jobs'[i].class = IF i \in DOMAIN Updates THEN Updates[i] ELSE jobs[i].class
         /\ jobs' \in [DOMAIN jobs -> [posting : Postings, class : Class(release)]]
<1>1. /\ backfill.pc = "writing" /\ jobs' = Relabel(DOMAIN Updates, Updates)
      /\ backfill' = [pc |-> "reading", all |-> backfill.all, release |-> backfill.release,
                         last |-> backfill.last]
      /\ \A i \in DOMAIN Updates \intersect DOMAIN jobs : Known(Updates[i].category)
  BY DEF WriteBatch
<1>2. /\ backfill # Idle /\ backfill.all \in BOOLEAN /\ backfill.release \in 1..release
      /\ backfill.last \in Nat /\ Updates \in [DOMAIN Updates -> Class(backfill.release)]
  BY <1>1 DEF ScopeTypes, Idle
<1>3. ASSUME NEW i \in DOMAIN jobs
      PROVE  (IF i \in DOMAIN Updates THEN Updates[i] ELSE jobs[i].class) \in Class(release)
  <2>1. CASE i \in DOMAIN Updates
    <3>1. Updates[i] \in Class(backfill.release) /\ Updates[i].category \in Slugs(release)
      BY <1>1, <1>2, <2>1 DEF Known, Slugs
    <3>. QED  BY <2>1, <3>1 DEF Class
  <2>2. CASE i \notin DOMAIN Updates
    BY <2>2 DEF ScopeTypes
  <2>. QED  BY <2>1, <2>2
<1>4. \A i \in DOMAIN jobs : jobs'[i] \in [posting : Postings, class : Class(release)]
  BY <1>1, <1>3, RelabelFacts
<1>5. jobs' \in [DOMAIN jobs -> [posting : Postings, class : Class(release)]]
  BY <1>1, <1>4, RelabelFacts
<1>. QED  BY <1>1, <1>2, <1>5, RelabelFacts

\* What a batch of a purge leaves.
LEMMA DeleteFacts ==
  ASSUME ScopeTypes, DeleteBatch
  PROVE  /\ DOMAIN jobs' \subseteq DOMAIN jobs /\ jobs' = [i \in DOMAIN jobs' |-> jobs[i]]
         /\ \/ jobs' = jobs /\ Deletable(purge.keep) = {} /\ purge' = [purge EXCEPT !.pc = "ended"]
            \/ UNCHANGED purge
         /\ purge.pc = "deleting"
         /\ purge \in [pc : {"deleting", "ended"}, keep : {s.allow : s \in Settings}]
<1>1. purge \in [pc : {"deleting", "ended"}, keep : {s.allow : s \in Settings}]
  BY DEF DeleteBatch, ScopeTypes, Idle
<1>2. jobs = [i \in DOMAIN jobs |-> jobs[i]]
  BY DEF ScopeTypes
<1>. QED  BY <1>1, <1>2 DEF DeleteBatch

LEMMA ScopeTypesStep == ScopeTypes /\ [Next]_vars => ScopeTypes'
<1> SUFFICES ASSUME ScopeTypes, [Next]_vars PROVE ScopeTypes'
  OBVIOUS
<1>0. issued \in 0..MaxJob /\ MaxJob \in Nat /\ issued \in Nat
  BY ScopeAssumption DEF ScopeTypes
<1>1. CASE Configure
  BY <1>1 DEF Configure, ScopeTypes, Updates
<1>2. CASE Deploy
  BY <1>2, DeployType
<1>3. CASE StartIngest
  <2>1. release \in 1..release
    BY DEF ScopeTypes, Releases
  <2>. QED  BY <1>3, <2>1 DEF StartIngest, ScopeTypes, Updates
<1>4. CASE EndIngest
  BY <1>4 DEF EndIngest, ScopeTypes, Updates
<1>5. CASE Insert
  <2>1. issued' = issued + 1 /\ issued < MaxJob /\ ingest # Idle
    BY <1>5 DEF Insert
  <2>2. PICK p \in Postings : Store(issued + 1, p)
    BY <1>5 DEF Insert
  <2>. QED  BY <1>0, <2>1, <2>2, StoreType
<1>6. CASE Update
  <2>1. issued' = issued /\ ingest # Idle
    BY <1>6 DEF Update
  <2>2. PICK i \in DOMAIN jobs, p \in Postings : Store(i, p)
    BY <1>6 DEF Update
  <2>3. i \in 1..issued
    BY DEF ScopeTypes
  <2>. QED  BY <1>0, <2>1, <2>2, <2>3, StoreType
<1>7. CASE StartBackfill
  <2>1. PICK all \in BOOLEAN : backfill' = [pc |-> "reading", all |-> all, release |-> release, last |-> 0]
    BY <1>7 DEF StartBackfill
  <2>2. release \in 1..release
    BY DEF ScopeTypes, Releases
  <2>3. backfill' \in [pc : {"reading", "ended"}, all : BOOLEAN, release : 1..release, last : Nat]
    BY <2>1, <2>2
  <2>. QED  BY <1>7, <2>3 DEF StartBackfill, ScopeTypes, Updates
<1>8. CASE ReadBatch
  BY <1>8, ReadType
<1>9. CASE WriteBatch
  <2>1. backfill' \in [pc : {"reading", "ended"}, all : BOOLEAN, release : 1..release, last : Nat]
    BY <1>9, WriteFacts
  <2>2. UNCHANGED <<issued, release, setting, ingest, purge>>
    BY <1>9 DEF WriteBatch
  <2>. QED  BY <1>9, <2>1, <2>2, WriteFacts DEF ScopeTypes
<1>10. CASE BackfillDies
  BY <1>10 DEF BackfillDies, ScopeTypes, Updates
<1>11. CASE StartPurge
  BY <1>11 DEF StartPurge, ScopeTypes, Updates
<1>12. CASE DeleteBatch
  <2>1. purge' \in [pc : {"deleting", "ended"}, keep : {s.allow : s \in Settings}]
    BY <1>12, DeleteFacts
  <2>2. UNCHANGED <<issued, release, setting, ingest, backfill>>
    BY <1>12 DEF DeleteBatch, history
  <2>3. DOMAIN jobs' \subseteq 1..issued /\ jobs' \in [DOMAIN jobs' -> [posting : Postings, class : Class(release)]]
    BY <1>12, DeleteFacts DEF ScopeTypes
  <2>. QED  BY <2>1, <2>2, <2>3 DEF ScopeTypes, Updates
<1>13. CASE PurgeDies
  BY <1>13 DEF PurgeDies, ScopeTypes, Updates
<1>14. CASE UNCHANGED vars
  BY <1>14 DEF vars, history, ScopeTypes, Updates
<1>. QED
  BY <1>1, <1>2, <1>3, <1>4, <1>5, <1>6, <1>7, <1>8, <1>9, <1>10, <1>11, <1>12, <1>13, <1>14 DEF Next

-------------------------------------------------------------------------------
(* Whose labels change *)

\* A migration leaves a row alone that it does not remap, and marks the others.
LEMMA DeployFacts ==
  ASSUME ScopeTypes, Deploy
  PROVE  /\ DOMAIN jobs' = DOMAIN jobs
         /\ \A i \in DOMAIN jobs :
              /\ jobs'[i].posting = jobs[i].posting
              /\ i \notin doubtful' => i \notin doubtful /\ jobs'[i].class = jobs[i].class
              /\ purge # Idle /\ i \notin late' => i \notin late /\ jobs'[i].class = jobs[i].class
         /\ release' = release + 1 /\ UNCHANGED <<backfill, purge, touched>>
<1> DEFINE split == {i \in DOMAIN jobs : jobs[i].class.category \in DOMAIN Split}
<1>1. PICK missed \in SUBSET split :
        jobs' = Relabel(split, [i \in split |->
                   [jobs[i].class EXCEPT !.category = IF i \in missed THEN None ELSE Split[@]]])
  BY Zenon DEF Deploy
<1>2. /\ doubtful' = doubtful \union split
      /\ late' = IF purge = Idle THEN late ELSE late \union split
      /\ release' = release + 1 /\ UNCHANGED <<backfill, purge, touched>>
  BY DEF Deploy
<1>3. /\ DOMAIN jobs' = DOMAIN jobs
      /\ \A i \in DOMAIN jobs :
           /\ jobs'[i].posting = jobs[i].posting
           /\ i \notin split => jobs'[i].class = jobs[i].class
  <2> HIDE DEF split
  <2>. QED  BY <1>1, RelabelFacts
<1>. QED
  <2> HIDE DEF split
  <2>. QED  BY <1>2, <1>3

\* An ingest writes one row, or none.
LEMMA LoadFacts ==
  ASSUME ScopeTypes, Insert \/ Update
  PROVE  /\ ingest # Idle
         /\ \E i \in 1..MaxJob, p \in Postings : Store(i, p)
<1>1. issued \in 0..MaxJob /\ MaxJob \in Nat /\ DOMAIN jobs \subseteq 1..issued
  BY ScopeAssumption DEF ScopeTypes
<1>2. CASE Insert
  BY <1>1, <1>2 DEF Insert
<1>3. CASE Update
  <2>1. PICK i \in DOMAIN jobs, p \in Postings : Store(i, p)
    BY <1>3 DEF Update
  <2>2. i \in 1..MaxJob
    BY <1>1
  <2>. QED  BY <1>3, <2>1, <2>2 DEF Update
<1>. QED  BY <1>2, <1>3

\* Everything else leaves the rows as they are, and what is said of them.
Bystander ==
  \/ Configure \/ StartIngest \/ EndIngest \/ UNCHANGED vars

LEMMA BystanderFacts ==
  Bystander => UNCHANGED <<jobs, release, backfill, purge, touched, doubtful, late>>
BY DEF Bystander, Configure, StartIngest, EndIngest, vars, history

LEMMA StepCases ==
  [Next]_vars =>
    \/ Bystander \/ Deploy \/ Insert \/ Update
    \/ StartBackfill \/ ReadBatch \/ WriteBatch \/ BackfillDies
    \/ StartPurge \/ DeleteBatch \/ PurgeDies
BY DEF Next, Bystander

LEMMA UpdatesStep ==
  ASSUME ScopeTypes, UpdatesAreCurrent, [Next]_vars
  PROVE  UpdatesAreCurrent'
<1>1. CASE Bystander
  BY <1>1, BystanderFacts DEF UpdatesAreCurrent, Updates
<1>2. CASE Deploy
  BY <1>2, DeployFacts DEF UpdatesAreCurrent, Updates
<1>3. CASE Insert \/ Update
  <2>1. PICK i \in 1..MaxJob, p \in Postings : Store(i, p)
    BY <1>3, LoadFacts
  <2>2. /\ DOMAIN jobs' = DOMAIN jobs \union {i}
        /\ \A j \in DOMAIN jobs : j # i => jobs'[j] = jobs[j]
    BY <1>3, <2>1, LoadFacts, StoreFacts
  <2>3. backfill' = backfill /\ (backfill # Idle => touched' = touched \union {i})
    BY <2>1 DEF Store
  <2>4. backfill.pc = "writing" => backfill # Idle
    BY DEF Idle
  <2>. QED  BY <2>2, <2>3, <2>4 DEF UpdatesAreCurrent, Updates
<1>4. CASE StartBackfill
  <2>1. backfill'.pc = "reading"
    BY <1>4 DEF StartBackfill
  <2>. QED  BY <2>1 DEF UpdatesAreCurrent
<1>5. CASE ReadBatch
  <2> DEFINE page == FirstBatch({i \in ToClassify(backfill.all) : i > backfill.last})
             updates == [i \in page |-> OfStored(backfill.release, jobs[i].posting)]
  <2>1. jobs' = jobs /\ backfill.pc = "reading"
    BY <1>5, ReadFacts
  <2>2. CASE backfill' = [backfill EXCEPT !.pc = "ended"]
    <3>1. backfill'.pc = "ended"
      BY <1>5, <2>2, ReadFacts
    <3>. QED  BY <3>1 DEF UpdatesAreCurrent
  <2>3. CASE backfill' = [pc |-> "writing", all |-> backfill.all, release |-> backfill.release,
                          last |-> Max(page), updates |-> updates]
    <3>1. Updates' = updates /\ backfill'.release = backfill.release
      BY <2>3 DEF Updates
    <3>2. \A i \in DOMAIN updates : updates[i] = OfStored(backfill.release, jobs[i].posting)
      OBVIOUS
    <3> HIDE DEF updates
    <3>. QED  BY <2>1, <3>1, <3>2 DEF UpdatesAreCurrent, OfStored
  <2>. QED  BY <1>5, <2>2, <2>3, ReadFacts
<1>6. CASE WriteBatch
  <2>1. backfill'.pc = "reading"
    BY <1>6, WriteFacts
  <2>. QED  BY <2>1 DEF UpdatesAreCurrent
<1>7. CASE BackfillDies
  <2>1. backfill'.pc = "idle"
    BY <1>7 DEF BackfillDies, Idle
  <2>. QED  BY <2>1 DEF UpdatesAreCurrent
<1>8. CASE StartPurge \/ PurgeDies
  BY <1>8 DEF StartPurge, PurgeDies, UpdatesAreCurrent, Updates
<1>9. CASE DeleteBatch
  <2>1. DOMAIN jobs' \subseteq DOMAIN jobs /\ \A i \in DOMAIN jobs' : jobs'[i] = jobs[i]
    BY <1>9, DeleteFacts
  <2>2. UNCHANGED <<backfill, touched>>
    BY <1>9 DEF DeleteBatch, history
  <2>. QED  BY <2>1, <2>2 DEF UpdatesAreCurrent, Updates
<1>. QED
  BY <1>1, <1>2, <1>3, <1>4, <1>5, <1>6, <1>7, <1>8, <1>9, StepCases

LEMMA CursorStep ==
  ASSUME ScopeTypes, UpdatesAreCurrent, BehindTheCursor, [Next]_vars
  PROVE  BehindTheCursor'
<1>1. CASE Bystander
  BY <1>1, BystanderFacts DEF BehindTheCursor, Updates
<1>2. CASE Deploy
  <2>1. release \in Nat /\ release' = release + 1 /\ backfill' = backfill
    BY <1>2, DeployFacts DEF ScopeTypes, Releases
  <2>2. backfill # Idle => backfill.release \in 1..release
    BY DEF ScopeTypes
  <2>. QED  BY <2>1, <2>2 DEF BehindTheCursor
<1>3. CASE Insert \/ Update
  <2>1. PICK i \in 1..MaxJob, p \in Postings : Store(i, p)
    BY <1>3, LoadFacts
  <2>2. /\ DOMAIN jobs' = DOMAIN jobs \union {i}
        /\ \A j \in DOMAIN jobs : j # i => jobs'[j] = jobs[j]
    BY <1>3, <2>1, LoadFacts, StoreFacts
  <2>3. UNCHANGED <<backfill, release>> /\ (backfill # Idle => touched' = touched \union {i})
    BY <2>1 DEF Store
  <2>. QED  BY <2>2, <2>3 DEF BehindTheCursor, Updates
<1>4. CASE StartBackfill
  <2>1. backfill'.pc = "reading" /\ backfill'.last = 0 /\ jobs' = jobs
    BY <1>4 DEF StartBackfill
  <2>2. \A i \in DOMAIN jobs : i > 0
    BY DEF ScopeTypes
  <2>. QED  BY <2>1, <2>2 DEF BehindTheCursor
<1>5. CASE ReadBatch
  <2> DEFINE S == {i \in ToClassify(backfill.all) : i > backfill.last}
             page == FirstBatch(S)
             updates == [i \in page |-> OfStored(backfill.release, jobs[i].posting)]
             Done(i) == jobs[i].class = OfStored(release, jobs[i].posting)
  <2>1. /\ UNCHANGED <<jobs, release>> /\ backfill.pc = "reading"
        /\ backfill \in [pc : {"reading", "ended"}, all : BOOLEAN, release : 1..release, last : Nat]
        /\ backfill # Idle
    BY <1>5, ReadFacts DEF Idle
  <2>2. SUFFICES ASSUME backfill'.all, backfill'.release = release,
                        NEW i \in DOMAIN jobs, i \notin touched'
                 PROVE  \/ Done(i)
                        \/ backfill'.pc # "ended" /\ i > backfill'.last
                        \/ backfill'.pc = "writing" /\ i \in DOMAIN Updates'
    BY <2>1 DEF BehindTheCursor, OfStored
  <2>3. CASE S = {} /\ backfill' = [backfill EXCEPT !.pc = "ended"] /\ touched' = touched
    <3>1. backfill.all /\ backfill.release = release
      BY <2>1, <2>2, <2>3
    <3>2. i \notin S /\ i \in ToClassify(backfill.all)
      BY <2>3, <3>1 DEF ToClassify
    <3>3. ~(i > backfill.last)
      BY <3>2
    <3>. QED  BY <2>1, <2>2, <2>3, <3>1, <3>3 DEF BehindTheCursor
  <2>4. CASE /\ \A j \in S : j <= Max(page) => j \in page
             /\ Max(page) \in Nat
             /\ backfill' = [pc |-> "writing", all |-> backfill.all, release |-> backfill.release,
                             last |-> Max(page), updates |-> updates]
             /\ touched' = touched \ page
    <3>1. /\ backfill.all /\ backfill.release = release
          /\ backfill'.pc = "writing" /\ backfill'.last = Max(page)
      BY <2>2, <2>4
    <3>2. DOMAIN Updates' = page
      BY <2>4 DEF Updates
    <3>3. CASE i \in page
      BY <3>1, <3>2, <3>3
    <3>4. CASE i \notin page
      <4>1. i \notin touched
        BY <2>2, <2>4, <3>4
      <4>2. Done(i) \/ i > backfill.last
        BY <2>1, <3>1, <4>1 DEF BehindTheCursor
      <4>3. i > backfill.last => i \in S
        BY <3>1 DEF ToClassify
      <4>4. i \in S => ~(i <= Max(page))
        BY <2>4, <3>4
      <4>5. i \in Nat
        BY DEF ScopeTypes
      <4> HIDE DEF S, page, Done
      <4>6. Done(i) \/ i > Max(page)
        BY <2>4, <4>2, <4>3, <4>4, <4>5
      <4>. QED  BY <3>1, <4>6
    <3>. QED  BY <3>3, <3>4
  <2>. QED  BY <1>5, <2>3, <2>4, ReadFacts
<1>6. CASE WriteBatch
  <2>1. /\ backfill.pc = "writing" /\ backfill # Idle
        /\ backfill' = [pc |-> "reading", all |-> backfill.all, release |-> backfill.release,
                         last |-> backfill.last]
        /\ DOMAIN jobs' = DOMAIN jobs
        /\ \A i \in DOMAIN jobs :
             /\ jobs'[i].posting = jobs[i].posting
             /\ jobs'[i].class = IF i \in DOMAIN Updates THEN Updates[i] ELSE jobs[i].class
    BY <1>6, WriteFacts
  <2>2. UNCHANGED <<release, touched>>
    BY <1>6 DEF WriteBatch
  <2>3. SUFFICES ASSUME backfill.all, backfill.release = release,
                        NEW i \in DOMAIN jobs, i \notin touched
                 PROVE  \/ jobs'[i].class = OfStored(release, jobs[i].posting)
                        \/ i > backfill.last
    BY <2>1, <2>2 DEF BehindTheCursor, OfStored
  <2>4. CASE i \in DOMAIN Updates
    BY <2>1, <2>3, <2>4 DEF UpdatesAreCurrent
  <2>5. CASE i \notin DOMAIN Updates
    BY <2>1, <2>3, <2>5 DEF BehindTheCursor
  <2>. QED  BY <2>4, <2>5
<1>7. CASE BackfillDies
  BY <1>7 DEF BackfillDies, BehindTheCursor
<1>8. CASE StartPurge \/ PurgeDies
  BY <1>8 DEF StartPurge, PurgeDies, BehindTheCursor, Updates
<1>9. CASE DeleteBatch
  <2>1. DOMAIN jobs' \subseteq DOMAIN jobs /\ \A i \in DOMAIN jobs' : jobs'[i] = jobs[i]
    BY <1>9, DeleteFacts
  <2>2. UNCHANGED <<backfill, touched, release>>
    BY <1>9 DEF DeleteBatch, history
  <2>. QED  BY <2>1, <2>2 DEF BehindTheCursor, Updates
<1>. QED
  BY <1>1, <1>2, <1>3, <1>4, <1>5, <1>6, <1>7, <1>8, <1>9, StepCases

LEMMA MislabelStep ==
  ASSUME ScopeTypes, UpdatesAreCurrent, OnlyRacesMislabel, [Next]_vars
  PROVE  OnlyRacesMislabel'
<1> DEFINE Honest(row) ==
      \/ row.class.category = None
      \/ \E v \in Releases : row.class \in {OfPosting(v, row.posting), OfStored(v, row.posting)}
<1>1. \A i \in DOMAIN jobs \ doubtful : Honest(jobs[i])
  BY DEF OnlyRacesMislabel
<1>2. SUFFICES \A i \in DOMAIN jobs' \ doubtful' : Honest(jobs'[i])
  BY DEF OnlyRacesMislabel, OfPosting, OfStored
<1>3. ASSUME NEW i \in DOMAIN jobs \ doubtful, DOMAIN jobs' \subseteq DOMAIN jobs,
             jobs'[i].posting = jobs[i].posting, jobs'[i].class = jobs[i].class
      PROVE  Honest(jobs'[i])
  BY <1>1, <1>3
<1>4. CASE Bystander
  BY <1>1, <1>4, BystanderFacts
<1>5. CASE Deploy
  <2>1. \A i \in DOMAIN jobs' \ doubtful' : i \in DOMAIN jobs \ doubtful
          /\ jobs'[i].posting = jobs[i].posting /\ jobs'[i].class = jobs[i].class
    BY <1>5, DeployFacts
  <2>. QED  BY <1>1, <2>1
<1>6. CASE Insert \/ Update
  <2>1. PICK i \in 1..MaxJob, p \in Postings : Store(i, p)
    BY <1>6, LoadFacts
  <2>2. /\ DOMAIN jobs' = DOMAIN jobs \union {i}
        /\ jobs'[i] = [posting |-> p, class |-> OfPosting(ingest.release, p)]
        /\ \A j \in DOMAIN jobs : j # i => jobs'[j] = jobs[j]
        /\ ingest.release \in Releases
    BY <1>6, <2>1, LoadFacts, StoreFacts
  <2>3. doubtful' = doubtful \ {i}
    BY <2>1 DEF Store
  <2>4. Honest(jobs'[i])
    BY <2>2
  <2> HIDE DEF Honest
  <2>. QED  BY <1>1, <2>2, <2>3, <2>4
<1>7. CASE StartBackfill
  BY <1>1, <1>7 DEF StartBackfill
<1>8. CASE ReadBatch
  BY <1>1, <1>8, ReadFacts
<1>9. CASE WriteBatch
  <2>1. /\ backfill.pc = "writing" /\ backfill.release \in Releases
        /\ DOMAIN jobs' = DOMAIN jobs
        /\ \A i \in DOMAIN jobs :
             /\ jobs'[i].posting = jobs[i].posting
             /\ jobs'[i].class = IF i \in DOMAIN Updates THEN Updates[i] ELSE jobs[i].class
    BY <1>9, WriteFacts, ReleaseFacts DEF ScopeTypes
  <2>2. doubtful' = (doubtful \ DOMAIN Updates) \union (DOMAIN Updates \intersect touched)
    BY <1>9 DEF WriteBatch
  <2>3. ASSUME NEW i \in DOMAIN jobs' \ doubtful' PROVE Honest(jobs'[i])
    <3>1. CASE i \in DOMAIN Updates
      <4>1. i \notin touched /\ i \in DOMAIN jobs
        BY <2>1, <2>2, <2>3, <3>1
      <4>2. jobs'[i].class = OfStored(backfill.release, jobs'[i].posting)
        BY <2>1, <3>1, <4>1 DEF UpdatesAreCurrent
      <4>. QED  BY <2>1, <4>2
    <3>2. CASE i \notin DOMAIN Updates
      <4>1. i \in DOMAIN jobs \ doubtful
        BY <2>1, <2>2, <2>3, <3>2
      <4>. QED  BY <1>1, <2>1, <3>2, <4>1
    <3>. QED  BY <3>1, <3>2
  <2>. QED  BY <2>3
<1>10. CASE BackfillDies
  BY <1>1, <1>10 DEF BackfillDies
<1>11. CASE StartPurge \/ PurgeDies
  BY <1>1, <1>11 DEF StartPurge, PurgeDies
<1>12. CASE DeleteBatch
  <2>1. DOMAIN jobs' \subseteq DOMAIN jobs /\ \A i \in DOMAIN jobs' : jobs'[i] = jobs[i]
    BY <1>12, DeleteFacts
  <2>2. doubtful' = doubtful
    BY <1>12 DEF DeleteBatch, history
  <2> HIDE DEF Honest
  <2>. QED  BY <1>1, <2>1, <2>2
<1>. QED
  BY <1>4, <1>5, <1>6, <1>7, <1>8, <1>9, <1>10, <1>11, <1>12, StepCases

LEMMA PurgeStep ==
  ASSUME ScopeTypes, PurgedScopeHolds, [Next]_vars
  PROVE  PurgedScopeHolds'
<1>0. purge.pc = "ended" => purge # Idle
  BY DEF Idle
<1>1. CASE Bystander
  BY <1>1, BystanderFacts DEF PurgedScopeHolds
<1>2. CASE Deploy
  BY <1>0, <1>2, DeployFacts DEF PurgedScopeHolds
<1>3. CASE Insert \/ Update
  <2>1. PICK i \in 1..MaxJob, p \in Postings : Store(i, p)
    BY <1>3, LoadFacts
  <2>2. /\ DOMAIN jobs' = DOMAIN jobs \union {i}
        /\ jobs'[i] = [posting |-> p, class |-> OfPosting(ingest.release, p)]
        /\ \A j \in DOMAIN jobs : j # i => jobs'[j] = jobs[j]
    BY <1>3, <2>1, LoadFacts, StoreFacts
  <2>3. /\ purge' = purge
        /\ InScope(ingest.setting, OfPosting(ingest.release, p).category)
        /\ purge # Idle => late' = IF WithinKeep THEN late \ {i} ELSE late \union {i}
    BY <2>1 DEF Store
  <2>4. WithinKeep => jobs'[i].class.category \in purge.keep
    BY <2>2, <2>3 DEF WithinKeep, InScope
  <2>. QED  BY <1>0, <2>2, <2>3, <2>4 DEF PurgedScopeHolds
<1>4. CASE StartBackfill \/ BackfillDies
  BY <1>4 DEF StartBackfill, BackfillDies, PurgedScopeHolds
<1>5. CASE ReadBatch
  BY <1>5, ReadFacts DEF PurgedScopeHolds
<1>6. CASE WriteBatch
  <2>1. /\ DOMAIN jobs' = DOMAIN jobs
        /\ \A i \in DOMAIN jobs : i \notin DOMAIN Updates => jobs'[i].class = jobs[i].class
    BY <1>6, WriteFacts
  <2>2. purge' = purge /\ (purge # Idle => late' = late \union DOMAIN Updates)
    BY <1>6 DEF WriteBatch
  <2>. QED  BY <1>0, <2>1, <2>2 DEF PurgedScopeHolds
<1>7. CASE StartPurge \/ PurgeDies
  <2>1. purge'.pc # "ended"
    BY <1>7 DEF StartPurge, PurgeDies, Idle
  <2>. QED  BY <2>1 DEF PurgedScopeHolds
<1>8. CASE DeleteBatch
  <2>1. purge.pc = "deleting"
    BY <1>8, DeleteFacts
  <2>2. CASE UNCHANGED purge
    BY <2>1, <2>2 DEF PurgedScopeHolds
  <2>3. CASE jobs' = jobs /\ Deletable(purge.keep) = {} /\ purge' = [purge EXCEPT !.pc = "ended"]
    <3>1. purge'.keep = purge.keep
      BY <1>8, <2>3, DeleteFacts
    <3>2. \A i \in DOMAIN jobs : jobs[i].class.category \in purge.keep
      BY <2>3 DEF Deletable
    <3>. QED  BY <2>3, <3>1, <3>2 DEF PurgedScopeHolds
  <2>. QED  BY <1>8, <2>2, <2>3, DeleteFacts
<1>. QED
  BY <1>1, <1>2, <1>3, <1>4, <1>5, <1>6, <1>7, <1>8, StepCases

-------------------------------------------------------------------------------
(* The theorems *)

LEMMA ScopeInv_init == Init => ScopeInv
<1> SUFFICES ASSUME Init PROVE ScopeInv
  OBVIOUS
<1>1. ScopeTypes
  BY ScopeTypesInit
<1>2. backfill = Idle /\ purge = Idle
  BY DEF Init
<1>3. UpdatesAreCurrent /\ BehindTheCursor /\ PurgedScopeHolds
  BY <1>2 DEF UpdatesAreCurrent, BehindTheCursor, PurgedScopeHolds, Idle
<1>4. \A i \in DOMAIN jobs : jobs[i].class.category = None
  <2>1. PICK n \in 0..MaxJob - 1 : \E p \in [1..n -> Postings] :
          jobs = [i \in 1..n |-> [posting |-> p[i], class |-> [category |-> None, level |-> "UNKNOWN"]]]
    BY DEF Init
  <2>. QED  BY <2>1
<1>5. OnlyRacesMislabel
  BY <1>4 DEF OnlyRacesMislabel
<1>. QED  BY <1>1, <1>3, <1>5 DEF ScopeInv

\* Types hold, and with them what a backfill's page and its cursor promise, whatever runs beside
\* it: ingests, releases with their migrations, a purge, and changes of the settings.
THEOREM ScopeSound == Spec => []ScopeInv
<1>1. ASSUME ScopeInv, [Next]_vars PROVE ScopeInv'
  BY <1>1, ScopeTypesStep, UpdatesStep, CursorStep, MislabelStep, PurgeStep DEF ScopeInv
<1>. QED  BY ScopeInv_init, <1>1, PTL DEF Spec

\* backfill_categories.py --all: when it has ended and no release came after it, every row says
\* what the new rules make of it, except those that an ingest wrote since it read them.
THEOREM Reclassified == Spec => []AllAreReclassified
<1>1. ASSUME ScopeInv PROVE AllAreReclassified
  <2>1. SUFFICES ASSUME backfill.pc = "ended", backfill.all, backfill.release = release,
                        NEW i \in DOMAIN jobs \ touched
                 PROVE  jobs[i].class = OfStored(release, jobs[i].posting)
    BY DEF AllAreReclassified
  <2>2. backfill # Idle
    BY <2>1 DEF Idle
  <2>. QED  BY <1>1, <2>1, <2>2 DEF ScopeInv, BehindTheCursor
<1>. QED  BY <1>1, ScopeSound, PTL

\* A label comes from the posting beside it, by the rules of some release, unless a migration
\* remapped it or a backfill wrote what it had read before a load.
THEOREM OnlyRaces == Spec => []OnlyRacesMislabel
<1>1. ScopeInv => OnlyRacesMislabel
  BY DEF ScopeInv
<1>. QED  BY <1>1, ScopeSound, PTL

\* purge_out_of_scope.py: when it has ended, a row outside the categories it keeps was written
\* since it began, by a backfill, by a migration or by an ingest of a wider scope.
THEOREM PurgedScope == Spec => []PurgedScopeHolds
<1>1. ScopeInv => PurgedScopeHolds
  BY DEF ScopeInv
<1>. QED  BY <1>1, ScopeSound, PTL
===============================================================================
