------------------------------- MODULE Geography -------------------------------
(***************************************************************************)
(* The reference tables us_states.py, india_states.py and those at the     *)
(* head of location.py, cut down to one word of each kind.  What a word    *)
(* does depends only on the tables it is in, and all the ways in which     *)
(* they overlap are here: bare codes of two countries (GA is Georgia and   *)
(* Goa), Indian states that are listed as foreign, cities listed as        *)
(* foreign, as ambiguous, as Indian, or as two of these.  Words are        *)
(* written as the source sends them, since every lookup ignores case.      *)
(***************************************************************************)
EXTENDS Fields

\* The postal codes of states, and what a full name stands for.
US_STATE_CODES == {"MI", "GA", "TX", "NM", "NY", "LA", "CA", "VA", "IN"}
STATE_NAME_TO_CODE == [Georgia |-> "GA", Michigan |-> "MI"]

resolve_state_code(word) ==
  IF word \in US_STATE_CODES THEN word
  ELSE IF word \in DOMAIN STATE_NAME_TO_CODE THEN STATE_NAME_TO_CODE[word] ELSE None

\* "us" and "usa" are two letters or three, and no state codes.
US_COUNTRY_ALIASES == {"United States", "US"}
NON_US_COUNTRY_ALIASES == [Canada |-> "CA", Mexico |-> "MX", India |-> "IN"]

\* Two letters that no table has; CA, IN, DE and the other codes of a state are none of them.
BareCountryCodes == {"FR"}

resolve_country_code(word) ==
  IF word \in US_COUNTRY_ALIASES THEN "US"
  ELSE IF word \in DOMAIN NON_US_COUNTRY_ALIASES THEN NON_US_COUNTRY_ALIASES[word]
  ELSE IF word \in BareCountryCodes THEN word ELSE None

INDIA_STATE_CODES == {"GA", "MH", "KA", "TG", "RJ", "SK"}
INDIA_NAME_TO_CODE == [Maharashtra |-> "MH", Sikkim |-> "SK"]

resolve_india_state_code(word) ==
  IF word \in INDIA_STATE_CODES THEN word
  ELSE IF word \in DOMAIN INDIA_NAME_TO_CODE THEN INDIA_NAME_TO_CODE[word] ELSE None

INDIA_CITY_TO_STATE == [Bengaluru |-> "KA", Hyderabad |-> "TG", Jaipur |-> "RJ"]

resolve_india_state_from_city(city) ==
  IF city \in DOMAIN INDIA_CITY_TO_STATE THEN INDIA_CITY_TO_STATE[city] ELSE None

\* Cities of the United States and of another country, and cities of another country only.
AMBIGUOUS_CITY_NAMES == {"Boston", "Monterrey", "Hyderabad"}
NON_US_CITIES == {"Toronto", "Monterrey", "Bengaluru", "Vienna"}

\* Subdivisions that are no state of the United States; those of India are among them.
NON_US_SUBDIVISIONS == {"Quebec", "Maharashtra"}

\* Shorthands of a metropolis: a city and its state.
CITY_ALIASES == [NYC |-> <<"New York", "NY">>, LA |-> <<"Los Angeles", "CA">>]

\* City fields of two letters, of which the codes of a state are taken for the state.
TwoLetters == {"TX", "LA"}
===============================================================================
