-------------------------------- MODULE Intake --------------------------------
(***************************************************************************)
(* What the pipeline decides of one record: OpenJobDataConnector.validate, *)
(* FreshnessService.assess and the gates of IngestionPipeline._prepare.    *)
(* Instants are hours; the texts of a record are reduced to what the gates *)
(* tell apart, its country to what LocationNormalizer made of it.          *)
(***************************************************************************)
EXTENDS Integers

CONSTANTS
  Ids,               \* external ids
  NoId,              \* the record carries none
  Countries,         \* country codes
  NoCountry,         \* the location could not be resolved
  CountryAllowlist,  \* ingest_country_allowlist; empty: every country
  Categories,        \* role categories
  AllowedCategories, \* ingest_category_allowlist; empty: every category
  BlockedCategories, \* ingest_category_blocklist
  NoDate,            \* posted_at is NULL
  Now,               \* utc_now()
  FirstPlausible,    \* the first instant of ingest_min_posted_at_year
  MaxFuture,         \* ingest_max_future_posted_at_hours
  MaxAge,            \* ingest_max_posted_age_days in hours; 0: no window
  FallBack           \* ingest_age_fallback_to_first_seen

ASSUME IntakeAssumption ==
  /\ NoId \notin Ids
  /\ NoCountry \notin Countries
  /\ CountryAllowlist \subseteq Countries
  /\ AllowedCategories \subseteq Categories
  /\ BlockedCategories \subseteq Categories
  /\ Now \in Int /\ FirstPlausible \in Int /\ NoDate \notin Int
  /\ MaxFuture \in Nat /\ MaxAge \in Nat
  /\ FallBack \in BOOLEAN

Record == [id : Ids \cup {NoId}, titled : BOOLEAN, company : BOOLEAN,
           apply : {"http", "other", "none"}, model : BOOLEAN,
           country : Countries \cup {NoCountry}, posted : Int \cup {NoDate},
           category : Categories]

Reason == {"MISSING_EXTERNAL_ID", "MISSING_TITLE", "MISSING_COMPANY", "MISSING_APPLY_URL",
           "INVALID_URL", "UNPARSEABLE_PAYLOAD", "INVALID_COUNTRY", "COUNTRY_NOT_ALLOWED",
           "FUTURE_POSTED_AT", "IMPLAUSIBLE_POSTED_AT", "TOO_OLD", "CATEGORY_NOT_ALLOWED",
           "DUPLICATE_IN_BATCH"}

-------------------------------------------------------------------------------

\* A conditional member: {x} or nothing.
When(condition, x) == {y \in {x} : condition}

\* validate: every structural fault is a reason of its own.
Faults(r) ==
  When(r.id = NoId, "MISSING_EXTERNAL_ID") \cup
  When(~r.titled, "MISSING_TITLE") \cup
  When(~r.company, "MISSING_COMPANY") \cup
  When(r.apply = "none", "MISSING_APPLY_URL") \cup
  When(r.apply = "other", "INVALID_URL") \cup
  When(~r.model, "UNPARSEABLE_PAYLOAD")

CountryAllowed(r) == CountryAllowlist = {} \/ r.country \in CountryAllowlist

CountryReason(r) == IF r.country = NoCountry THEN "INVALID_COUNTRY" ELSE "COUNTRY_NOT_ALLOWED"

Future(r) == r.posted # NoDate /\ r.posted > Now + MaxFuture
Implausible(r) == r.posted # NoDate /\ ~Future(r) /\ r.posted < FirstPlausible
PostedAtIsValid(r) == r.posted # NoDate /\ ~Future(r) /\ ~Implausible(r)

\* The date is untrustworthy, not the posting: a reason that rejects nothing.
DateReasons(r) ==
  When(Future(r), "FUTURE_POSTED_AT") \cup When(Implausible(r), "IMPLAUSIBLE_POSTED_AT")

\* The employer's date when it can be trusted, else the time of detection.
TooOld(r) ==
  /\ MaxAge > 0
  /\ IF PostedAtIsValid(r) THEN r.posted < Now - MaxAge ELSE ~FallBack

InScope(r) ==
  /\ AllowedCategories # {} => r.category \in AllowedCategories
  /\ r.category \notin BlockedCategories

-------------------------------------------------------------------------------

\* Mutant: an unresolved country is dropped without a reason.
RejectionsSilent(r) ==
  IF Faults(r) # {} THEN Faults(r)
  ELSE IF ~CountryAllowed(r) THEN When(r.country # NoCountry, "COUNTRY_NOT_ALLOWED")
  ELSE DateReasons(r) \cup When(TooOld(r), "TOO_OLD")
       \cup When(~TooOld(r) /\ ~InScope(r), "CATEGORY_NOT_ALLOWED")

\* The reasons _prepare hands to the rejection buffer: the first gate that closes ends it.
Rejections(r) ==
  IF Faults(r) # {} THEN Faults(r)
  ELSE IF ~CountryAllowed(r) THEN {CountryReason(r)}
  ELSE DateReasons(r) \cup When(TooOld(r), "TOO_OLD")
       \cup When(~TooOld(r) /\ ~InScope(r), "CATEGORY_NOT_ALLOWED")

\* _prepare returns a job.
Accepted(r) == Faults(r) = {} /\ CountryAllowed(r) /\ ~TooOld(r) /\ InScope(r)
===============================================================================
