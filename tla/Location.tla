------------------------------- MODULE Location -------------------------------
(***************************************************************************)
(* LocationNormalizer.normalize: from the words of a record to a country,  *)
(* a subdivision and a city that the rest of the platform trusts.  The     *)
(* fields contradict one another and each is wrong at times; the code      *)
(* weighs them in a fixed order with five early returns, all of which      *)
(* leave the record without a country.  An empty field is None.            *)
(*                                                                         *)
(* Of the free text we keep what its patterns find: a country, and the     *)
(* city and the state of a trailing pair.  Step 5 of the code is not here: *)
(* a text with a phrase like "US Remote" holds an alias of the United      *)
(* States, which is found before.                                          *)
(***************************************************************************)
EXTENDS Geography

CONSTANTS
  CountryWords,    \* what the country fields, of the job and of its employer, may hold
  StateWords,
  CityWords,
  Texts            \* what the patterns find in a location text

\* _parse_city_state finds a city only together with a state of the United States.
ASSUME TextsAssumption ==
  \A t \in Texts :
    t.state \in US_STATE_CODES \union {None} /\ (t.city # None => t.state # None)

VARIABLES
  raw,             \* the record
  place            \* its ResolvedLocation, Unresolved before

locationVars == <<raw, place>>

Raw == [country : CountryWords, state : StateWords, city : CityWords, text : Texts,
        employer : CountryWords, zip : BOOLEAN]

Unresolved == <<>>

-------------------------------------------------------------------------------
(* 1, 2: country, and what an Indian state says of it *)

Named(r) == Or(resolve_country_code(r.country), r.text.country)

Indian(r) == resolve_india_state_code(r.state)

\* An Indian subdivision counts unless a country says otherwise.
IndiaState(r) == IF Named(r) \in {None, "IN"} THEN Indian(r) ELSE None

\* Mutant: a known Indian city stands for its country.
CountryOrCity(r) ==
  IF Named(r) = None /\ (Indian(r) # None \/ resolve_india_state_from_city(r.city) # None)
  THEN "IN" ELSE Named(r)

Country(r) == IF Named(r) = None /\ Indian(r) # None THEN "IN" ELSE Named(r)

ForeignSubdivision(r) == IndiaState(r) = None /\ r.state \in NON_US_SUBDIVISIONS

-------------------------------------------------------------------------------
(* 3: state and city, from three fields *)

StateRead(r) == Or(resolve_state_code(r.state), r.text.state)
CityRead(r) == Or(r.city, r.text.city)

\* city="TX": the state in the wrong field, unless a state is known.
Promoted(r) ==
  StateRead(r) = None /\ CityRead(r) \in TwoLetters /\ resolve_state_code(CityRead(r)) # None

Alias(r) == ~Promoted(r) /\ CityRead(r) \in DOMAIN CITY_ALIASES

State(r) ==
  IF Promoted(r) THEN resolve_state_code(CityRead(r))
  ELSE IF Alias(r) THEN Or(StateRead(r), CITY_ALIASES[CityRead(r)][2]) ELSE StateRead(r)

\* Mutant: the city field alone is looked at.
CityOfField(r) ==
  IF Promoted(r) THEN None ELSE IF r.city \in DOMAIN CITY_ALIASES THEN CITY_ALIASES[r.city][1]
  ELSE r.city

City(r) ==
  IF Promoted(r) THEN None
  ELSE IF Alias(r) THEN CITY_ALIASES[CityRead(r)][1] ELSE CityRead(r)

\* A state is evidence of a job in the United States, even when the country was junk.
Claimed(r) == IF State(r) # None THEN Or(Country(r), "US") ELSE Country(r)

-------------------------------------------------------------------------------
(* 3b, 6: the early returns *)

ForeignCity(r) == Claimed(r) # "IN" /\ City(r) \in NON_US_CITIES

Unconfirmed(r) == Claimed(r) = "US" /\ State(r) = None

ForeignEmployer(r) ==
  Unconfirmed(r) /\ resolve_country_code(r.employer) \notin {None, "US"}

AmbiguousCity(r) == Unconfirmed(r) /\ City(r) \in AMBIGUOUS_CITY_NAMES

CityAlone(r) == Claimed(r) = None /\ City(r) # None

Rejected(r) ==
  ForeignSubdivision(r) \/ ForeignCity(r) \/ ForeignEmployer(r) \/ AmbiguousCity(r) \/ CityAlone(r)

-------------------------------------------------------------------------------
(* 4, and the result *)

\* Mutant: an Indian row falls back to the state that was read as one of the United States.
SubdivisionKept(r) ==
  IF Claimed(r) = "IN"
  THEN Or(Or(IndiaState(r), resolve_india_state_from_city(City(r))), State(r))
  ELSE IF Claimed(r) = "US" THEN State(r) ELSE None

Subdivision(r) ==
  IF Claimed(r) = "IN" THEN Or(IndiaState(r), resolve_india_state_from_city(City(r)))
  ELSE IF Claimed(r) = "US" THEN State(r) ELSE None

Normalize(r) ==
  IF Rejected(r)
  THEN [country |-> None, state |-> None,
        city |-> IF ForeignSubdivision(r) THEN r.city ELSE City(r), zip |-> FALSE]
  ELSE [country |-> Claimed(r), state |-> Subdivision(r), city |-> City(r),
        zip |-> r.zip /\ Claimed(r) = "US"]

-------------------------------------------------------------------------------

LocationInit == raw \in Raw /\ place = Unresolved

Resolve == place = Unresolved /\ place' = Normalize(raw) /\ UNCHANGED raw

LocationNext == Resolve

LocationSpec == LocationInit /\ [][LocationNext]_locationVars

-------------------------------------------------------------------------------
(* Properties.  Each compares the place with what the record says, field by field,
   and does not know in which order the code looks at them. *)

Resolved == place # Unresolved

\* What the fields say besides a city: a country, a state, or the shorthand of a state.
CountrySignals(r) ==
  {resolve_country_code(r.country), r.text.country, resolve_state_code(r.state),
   resolve_india_state_code(r.state), r.text.state} \ {None}

Shorthand(city) == city \in DOMAIN CITY_ALIASES \union TwoLetters

\* A city alone must never stand for a country: a record with a country has a country or a
\* state in one of its fields, or a city field that is the shorthand of a state.
CityAloneNamesNoCountry ==
  Resolved /\ place.country # None => CountrySignals(raw) # {} \/ Shorthand(raw.city)

\* A job is only in the United States when no field says that it is abroad: its state is no
\* foreign subdivision, its city, from the field or from the text, is no foreign city, and
\* if no state confirms it, neither is its employer registered abroad nor its city shared.
ForeignEvidenceWins ==
  Resolved /\ place.country = "US" =>
    LET city == Or(raw.city, raw.text.city) IN
    /\ raw.state \notin NON_US_SUBDIVISIONS
    /\ city \notin NON_US_CITIES
    /\ place.state = None =>
         /\ resolve_country_code(raw.employer) \in {None, "US"}
         /\ city \notin AMBIGUOUS_CITY_NAMES

\* A subdivision belongs to the country of its row, and only rows of the United States have
\* a ZIP: the facets count states by their code alone, and GA is in two countries.
StatesFitTheirCountry ==
  Resolved =>
    /\ place.state # None =>
         \/ place.country = "US" /\ place.state \in US_STATE_CODES
         \/ place.country = "IN" /\ place.state \in INDIA_STATE_CODES
    /\ place.zip => place.country = "US"
===============================================================================
