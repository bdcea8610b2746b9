\* Every record made of one word of each class.
SPECIFICATION LocationSpec
CONSTANTS
  CountryWords <- MCCountryWords
  StateWords <- MCStateWords
  CityWords <- MCCityWords
  Texts <- MCTexts
INVARIANTS
  CityAloneNamesNoCountry
  ForeignEvidenceWins
  StatesFitTheirCountry
\* A record is resolved once.
CHECK_DEADLOCK FALSE
