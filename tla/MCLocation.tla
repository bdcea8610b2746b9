------------------------------ MODULE MCLocation ------------------------------
(* A word of every class that the tables tell apart, in each field. *)
EXTENDS Location

\* CA is no country by itself, and REMOTE is the junk that the source sends.
MCCountryWords == {None, "United States", "India", "Canada", "CA", "FR", "REMOTE"}

MCStateWords ==
  {None, "MI", "GA", "Georgia", "MH", "Maharashtra", "Sikkim", "Quebec", "Elsewhere"}

MCCityWords ==
  {None, "Detroit", "Toronto", "Boston", "Bengaluru", "Jaipur", "Hyderabad", "Monterrey",
   "NYC", "LA", "TX"}

Text(country, city, state) == [country |-> country, city |-> city, state |-> state]

\* An empty text, a country, a pair, a foreign city in the United States, a state whose
\* name holds that of a country, a state alone.
MCTexts ==
  {Text(None, None, None), Text("US", None, None), Text("IN", None, None),
   Text(None, "Detroit", "MI"), Text(None, "Vienna", "VA"), Text("MX", "Albuquerque", "NM"),
   Text("US", "Boston", "MI"), Text(None, None, "GA")}
===============================================================================
