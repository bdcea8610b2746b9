-------------------------- MODULE RecordStream_proofs --------------------------
(* Proofs about the records of a run: every refusal has a reason, and StreamInv is inductive. *)
EXTENDS RecordStream, FiniteSetTheorems, TLAPS

LEMMA WhenIn == \A c \in BOOLEAN : \A x, y : y \in When(c, x) <=> c /\ y = x
  BY DEF When

LEMMA RejectionsType == ASSUME NEW r \in Record PROVE Rejections(r) \subseteq Reason
  BY DEF Rejections, Faults, CountryReason, DateReasons, When, Reason

\* _prepare returns None exactly when it has added a reason that says why; a reason about
\* the date alone never refuses a record.
THEOREM RefusedHaveAReason ==
  ASSUME NEW r \in Record
  PROVE  Accepted(r) <=> Rejections(r) \subseteq {"FUTURE_POSTED_AT", "IMPLAUSIBLE_POSTED_AT"}
<1>1. CASE Faults(r) # {}
  <2>1. PICK x \in Faults(r) : TRUE
    BY <1>1
  <2>2. x \notin {"FUTURE_POSTED_AT", "IMPLAUSIBLE_POSTED_AT"}
    BY <2>1 DEF Faults, When
  <2>3. QED
    BY <1>1, <2>1, <2>2 DEF Accepted, Rejections
<1>2. CASE Faults(r) = {} /\ ~CountryAllowed(r)
  BY <1>2 DEF Accepted, Rejections, CountryReason
<1>3. CASE Faults(r) = {} /\ CountryAllowed(r) /\ TooOld(r)
  <2>1. "TOO_OLD" \in Rejections(r)
    BY <1>3 DEF Rejections, When
  <2>2. QED
    BY <1>3, <2>1 DEF Accepted
<1>4. CASE Faults(r) = {} /\ CountryAllowed(r) /\ ~TooOld(r) /\ ~InScope(r)
  <2>1. "CATEGORY_NOT_ALLOWED" \in Rejections(r)
    BY <1>4 DEF Rejections, When
  <2>2. QED
    BY <1>4, <2>1 DEF Accepted
<1>5. CASE Faults(r) = {} /\ CountryAllowed(r) /\ ~TooOld(r) /\ InScope(r)
  BY <1>5 DEF Accepted, Rejections, DateReasons, When
<1>6. QED
  BY <1>1, <1>2, <1>3, <1>4, <1>5

-------------------------------------------------------------------------------
(* Counting in a sequence *)

LEMMA CountEmpty == \A x : Count(<<>>, x) = 0
  BY FS_EmptySet DEF Count

LEMMA CountNat == ASSUME NEW s \in Seq(Reason), NEW x PROVE Count(s, x) \in Nat
<1>1. IsFiniteSet(1..Len(s))
  BY FS_Interval
<1>2. IsFiniteSet({i \in DOMAIN s : s[i] = x})
  BY <1>1, FS_Subset
<1>3. QED
  BY <1>2, FS_CardinalityType DEF Count

LEMMA CountAppend ==
  ASSUME NEW s \in Seq(Reason), NEW y \in Reason, NEW x
  PROVE  Count(Append(s, y), x) = Count(s, x) + (IF x = y THEN 1 ELSE 0)
<1> DEFINE S == {i \in DOMAIN s : s[i] = x}
           T == {i \in DOMAIN Append(s, y) : Append(s, y)[i] = x}
<1>1. IsFiniteSet(S)
  <2>1. IsFiniteSet(1..Len(s))
    BY FS_Interval
  <2>2. QED
    BY <2>1, FS_Subset
<1>2. Len(s) + 1 \notin S
  OBVIOUS
<1>3. CASE x = y
  <2>1. T = S \cup {Len(s) + 1}
    BY <1>3
  <2>2. Cardinality(T) = Cardinality(S) + 1
    BY <1>1, <1>2, <2>1, FS_AddElement
  <2>3. Count(Append(s, y), x) = Cardinality(T) /\ Count(s, x) = Cardinality(S)
    BY DEF Count
  <2>4. QED
    BY <1>3, <2>2, <2>3
<1>4. CASE x # y
  <2>1. T = S
    BY <1>4
  <2>2. Cardinality(S) \in Nat
    BY <1>1, FS_CardinalityType
  <2>3. Count(Append(s, y), x) = Cardinality(T) /\ Count(s, x) = Cardinality(S)
    BY DEF Count
  <2>4. Count(s, x) \in Nat
    BY <2>2, <2>3
  <2> HIDE DEF S, T
  <2>5. QED
    BY <1>4, <2>1, <2>3, <2>4
<1>5. QED
  BY <1>3, <1>4

LEMMA MembersAppend ==
  ASSUME NEW S, NEW s \in Seq(S), NEW y \in S
  PROVE  Members(Append(s, y)) = Members(s) \cup {y}
<1>1. ASSUME NEW z \in Members(Append(s, y)) PROVE z \in Members(s) \cup {y}
  BY <1>1 DEF Members
<1>2. ASSUME NEW z \in Members(s) PROVE z \in Members(Append(s, y))
  <2>1. PICK i \in DOMAIN s : s[i] = z
    BY <1>2 DEF Members
  <2>2. i \in DOMAIN Append(s, y) /\ Append(s, y)[i] = z
    BY <2>1
  <2>3. QED
    BY <2>2 DEF Members
<1>3. y \in Members(Append(s, y))
  <2>1. Len(s) + 1 \in DOMAIN Append(s, y) /\ Append(s, y)[Len(s) + 1] = y
    OBVIOUS
  <2>2. QED
    BY <2>1 DEF Members
<1>4. QED
  BY <1>1, <1>2, <1>3

LEMMA MembersOf ==
  /\ Members(<<>>) = {}
  /\ \A s \in Seq(Ids) : Members(s) \subseteq Ids
  BY DEF Members

-------------------------------------------------------------------------------
(* Types *)

LEMMA EmptyType == \A S : <<>> \in Seq(S)
  OBVIOUS

LEMMA ZeroType == Zero \in Tally
  BY DEF Zero, Tally

LEMMA Bumped ==
  ASSUME NEW f \in Tally, NEW x \in Reason
  PROVE  /\ [f EXCEPT ![x] = @ + 1] \in Tally
         /\ \A y \in Reason : [f EXCEPT ![x] = @ + 1][y] = f[y] + (IF y = x THEN 1 ELSE 0)
  BY DEF Tally

LEMMA InitType == Init => TypeOK
<1> SUFFICES ASSUME Init PROVE TypeOK
  OBVIOUS
<1>1. pc \in {"idle", "ended"} \cup InFile /\ files \in Nat /\ fetched \in Nat
  BY DEF Init, InFile
<1>2. rec \in Records \cup {NoId} /\ todo \subseteq Reason
  BY DEF Init
<1>3. keep \in BOOLEAN /\ eof \in BOOLEAN /\ failed \in BOOLEAN /\ lost \in BOOLEAN
  BY DEF Init
<1>4. batch \in Seq(Ids)
  BY DEF Init
<1>5. pending \in Seq(Reason)
  BY DEF Init
<1>6. examples \in Tally /\ overflow \in Tally /\ samples \in Tally /\ counted \in Tally /\ dropped \in Tally
  BY ZeroType DEF Init
<1>7. processed \in Nat /\ accepted \in Nat /\ rejected \in Nat /\ wanted \subseteq Ids /\ stored \subseteq Ids
  BY DEF Init
<1>8. QED
  BY <1>1, <1>2, <1>3, <1>4, <1>5, <1>6, <1>7 DEF TypeOK

LEMMA FlushedType ==
  ASSUME samples \in Tally, NEW s \in Seq(Reason) PROVE Flushed(s) \in Tally
  BY CountNat DEF Flushed, Tally

LEMMA NextType == StreamInv /\ [Next]_vars => TypeOK'
<1> SUFFICES ASSUME StreamInv, [Next]_vars PROVE TypeOK'
  OBVIOUS
<1> USE RecordStreamAssumption DEF InFile
<1>1. TypeOK /\ WantedAreOnTheirWay
  BY DEF StreamInv
<1> USE DEF TypeOK
<1>2. CASE StartFile
  <2>1. pending' \in Seq(Reason)
    BY <1>2 DEF StartFile
  <2>2. batch' \in Seq(Ids)
    BY <1>2 DEF StartFile
  <2>3. examples' \in Tally /\ overflow' \in Tally
    BY <1>2, ZeroType DEF StartFile
  <2>4. pc' = "reading" /\ files' \in Nat /\ fetched' = 0 /\ eof' = FALSE /\ wanted' = {} /\ stored' = {}
    BY <1>1, <1>2 DEF StartFile
  <2>5. UNCHANGED <<rec, keep, todo, failed, samples, counted, processed, accepted, rejected, dropped, lost>>
    BY <1>2 DEF StartFile, errors, report
  <2>6. QED
    BY <1>1, <2>1, <2>2, <2>3, <2>4, <2>5
<1>3. ASSUME NEW r \in Records, Fetch(r) PROVE TypeOK'
  <2>1. Rejections(r) \subseteq Reason
    BY RejectionsType
  <2>2. Accepted(r) => r.id \in Ids
    BY DEF Accepted, Faults, When, Record
  <2>3. Accepted(r) \in BOOLEAN
    BY DEF Accepted, CountryAllowed, TooOld, InScope
  <2>4. QED
    BY <1>1, <1>3, <2>1, <2>2, <2>3 DEF Fetch, buffer, errors
<1>4. CASE EndOfFile
  BY <1>1, <1>4 DEF EndOfFile, current, buffer, errors, report, written
<1>5. CASE Refuse
  BY <1>1, <1>5 DEF Refuse, current, buffer, errors, report, written
<1>6. CASE Repeat
  BY <1>1, <1>6 DEF Repeat, current, buffer, errors, report, written, Reason
<1>7. CASE Accept
  <2>1. rec.id \in Ids
    BY <1>1, <1>7 DEF Accept, WantedAreOnTheirWay, Accepted, Faults, When, Record
  <2>2. QED
    BY <1>1, <1>7, <2>1 DEF Accept, current, buffer, errors, report, written
<1>8. CASE Load
  BY <1>1, <1>8, MembersOf DEF Load, current, buffer, errors, report, written
<1>9. CASE Flush
  BY <1>1, <1>9, FlushedType DEF Flush, current, buffer, errors, report, written
<1>10. CASE WriteCounts
  BY <1>1, <1>10 DEF WriteCounts, Tally, Zero, current, buffer, errors, report, written
<1>11. CASE FinishFile
  BY <1>1, <1>11 DEF FinishFile, current, buffer, errors, report, written
<1>12. CASE BodyFails
  BY <1>1, <1>12 DEF BodyFails, current, buffer, errors, report, written
<1>13. CASE FinalizeFails
  BY <1>1, <1>13 DEF FinalizeFails, current, buffer, errors, report, written
<1>14. CASE Kill
  BY <1>1, <1>14 DEF Kill, current, buffer, errors, report, written
<1>15. ASSUME NEW x \in Reason, AddExample(x) PROVE TypeOK'
  <2>1. Append(pending, x) \in Seq(Reason)
    BY <1>1
  <2>2. Flushed(Append(pending, x)) \in Tally
    BY <1>1, <2>1, FlushedType
  <2>3. pending' \in Seq(Reason) /\ samples' \in Tally
    <3>1. samples' = samples \/ samples' = Flushed(Append(pending, x))
      BY <1>15 DEF AddExample
    <3>2. pending' = Append(pending, x) \/ pending' = <<>>
      BY <1>15 DEF AddExample
    <3>3. QED
      BY <1>1, <2>1, <2>2, <3>1, <3>2, EmptyType
  <2>4. examples' \in Tally /\ dropped' \in Tally
    BY <1>1, <1>15, Bumped DEF AddExample
  <2>5. QED
    BY <1>1, <1>15, <2>3, <2>4 DEF AddExample, current, report, written
<1>16. ASSUME NEW x \in Reason, AddFlushFails(x) PROVE TypeOK'
  <2>1. examples' \in Tally /\ dropped' \in Tally
    BY <1>1, <1>16, Bumped DEF AddFlushFails
  <2>2. QED
    BY <1>1, <1>16, <2>1 DEF AddFlushFails, current, errors, report, written
<1>17. ASSUME NEW x \in Reason, AddCounted(x) PROVE TypeOK'
  <2>1. overflow' \in Tally /\ dropped' \in Tally
    BY <1>1, <1>17, Bumped DEF AddCounted
  <2>2. QED
    BY <1>1, <1>17, <2>1 DEF AddCounted, current, errors, report, written
<1>18. CASE UNCHANGED vars
  BY <1>1, <1>18 DEF vars, current, buffer, errors, report, written
<1>19. QED
  BY <1>2, <1>3, <1>4, <1>5, <1>6, <1>7, <1>8, <1>9, <1>10, <1>11, <1>12, <1>13, <1>14, <1>15, <1>16, <1>17, <1>18 DEF Next

-------------------------------------------------------------------------------
(* Every rejection is in one place *)

LEMMA NextAddsUp == StreamInv /\ [Next]_vars => BufferAddsUp'
<1> SUFFICES ASSUME StreamInv, [Next]_vars PROVE BufferAddsUp'
  OBVIOUS
<1> USE RecordStreamAssumption DEF InFile
<1>1. TypeOK /\ BufferAddsUp /\ BufferIsWritten
  BY DEF StreamInv
<1>2. CASE StartFile
  BY <1>1, <1>2, CountEmpty DEF StartFile, BufferAddsUp, BufferIsWritten, errors, report, Zero
<1>3. CASE EndOfFile
  BY <1>1, <1>3 DEF EndOfFile, current, buffer, errors, report, written, BufferAddsUp
<1>4. CASE Refuse
  BY <1>1, <1>4 DEF Refuse, current, buffer, errors, report, written, BufferAddsUp
<1>5. CASE Repeat
  BY <1>1, <1>5 DEF Repeat, current, buffer, errors, report, written, BufferAddsUp
<1>6. CASE Accept
  BY <1>1, <1>6 DEF Accept, current, buffer, errors, report, written, BufferAddsUp
<1>7. CASE Load
  BY <1>1, <1>7 DEF Load, current, buffer, errors, report, written, BufferAddsUp
<1>8. CASE Flush
  <2> SUFFICES ASSUME NEW y \in Reason
               PROVE  samples'[y] + counted'[y] + Count(pending', y) + overflow'[y] = dropped'[y]
    BY DEF BufferAddsUp
  <2>1. /\ Count(pending, y) \in Nat
        /\ samples[y] \in Nat /\ counted[y] \in Nat /\ overflow[y] \in Nat /\ dropped[y] \in Nat
        /\ samples[y] + counted[y] + Count(pending, y) + overflow[y] = dropped[y]
    BY <1>1, CountNat DEF TypeOK, Tally, BufferAddsUp
  <2>2. samples'[y] = samples[y] + Count(pending, y) /\ Count(pending', y) = 0
    BY <1>8, CountEmpty DEF Flush, Flushed
  <2>3. UNCHANGED <<counted, overflow, dropped>>
    BY <1>8 DEF Flush
  <2>4. QED
    BY <2>1, <2>2, <2>3
<1>9. CASE WriteCounts
  <2> SUFFICES ASSUME NEW y \in Reason
               PROVE  samples'[y] + counted'[y] + Count(pending', y) + overflow'[y] = dropped'[y]
    BY DEF BufferAddsUp
  <2>1. /\ Count(pending, y) \in Nat
        /\ samples[y] \in Nat /\ counted[y] \in Nat /\ overflow[y] \in Nat /\ dropped[y] \in Nat
        /\ samples[y] + counted[y] + Count(pending, y) + overflow[y] = dropped[y]
    BY <1>1, CountNat DEF TypeOK, Tally, BufferAddsUp
  <2>2. counted'[y] = counted[y] + overflow[y] /\ overflow'[y] = 0
    BY <1>9 DEF WriteCounts, Zero
  <2>3. UNCHANGED <<samples, pending, dropped>>
    BY <1>9 DEF WriteCounts
  <2>4. QED
    BY <2>1, <2>2, <2>3
<1>10. CASE FinishFile
  BY <1>1, <1>10 DEF FinishFile, current, buffer, errors, report, written, BufferAddsUp
<1>11. CASE BodyFails
  BY <1>1, <1>11 DEF BodyFails, current, buffer, errors, report, written, BufferAddsUp
<1>12. CASE FinalizeFails
  BY <1>1, <1>12 DEF FinalizeFails, current, buffer, errors, report, written, BufferAddsUp
<1>13. CASE Kill
  BY <1>1, <1>13 DEF Kill, current, buffer, errors, report, written, BufferAddsUp
<1>14. ASSUME NEW r \in Records, Fetch(r) PROVE BufferAddsUp'
  BY <1>1, <1>14 DEF Fetch, current, buffer, errors, report, written, BufferAddsUp
<1>15. ASSUME NEW x \in Reason, AddExample(x) PROVE BufferAddsUp'
  <2> SUFFICES ASSUME NEW y \in Reason
               PROVE  samples'[y] + counted'[y] + Count(pending', y) + overflow'[y] = dropped'[y]
    BY DEF BufferAddsUp
  <2>1. /\ Count(pending, y) \in Nat
        /\ samples[y] \in Nat /\ counted[y] \in Nat /\ overflow[y] \in Nat /\ dropped[y] \in Nat
        /\ samples[y] + counted[y] + Count(pending, y) + overflow[y] = dropped[y]
    BY <1>1, CountNat DEF TypeOK, Tally, BufferAddsUp
  <2>2. dropped'[y] = dropped[y] + (IF y = x THEN 1 ELSE 0)
    BY <1>1, <1>15, Bumped DEF AddExample, TypeOK
  <2>3. UNCHANGED <<counted, overflow>>
    BY <1>15 DEF AddExample
  <2>4. Count(Append(pending, x), y) = Count(pending, y) + (IF y = x THEN 1 ELSE 0)
    BY <1>1, CountAppend DEF TypeOK
  <2>5. samples'[y] + Count(pending', y) = samples[y] + Count(Append(pending, x), y)
    <3>1. CASE Len(Append(pending, x)) < FlushSize
      BY <1>15, <3>1 DEF AddExample
    <3>2. CASE ~(Len(Append(pending, x)) < FlushSize)
      <4>1. samples'[y] = samples[y] + Count(Append(pending, x), y) /\ Count(pending', y) = 0
        BY <1>15, <3>2, CountEmpty DEF AddExample, Flushed
      <4>2. QED
        BY <2>1, <2>4, <4>1
    <3>3. QED
      BY <3>1, <3>2
  <2>6. samples'[y] + counted'[y] + Count(pending', y) + overflow'[y]
          = samples[y] + Count(Append(pending, x), y) + counted[y] + overflow[y]
    <3>1. samples'[y] \in Nat /\ Count(pending', y) \in Nat
      BY NextType, CountNat DEF TypeOK, Tally
    <3>2. QED
      BY <2>1, <2>3, <2>4, <2>5, <3>1
  <2>7. QED
    BY <2>1, <2>2, <2>4, <2>6
<1>16. ASSUME NEW x \in Reason, AddFlushFails(x) PROVE BufferAddsUp'
  <2> SUFFICES ASSUME NEW y \in Reason
               PROVE  samples'[y] + counted'[y] + Count(pending', y) + overflow'[y] = dropped'[y]
    BY DEF BufferAddsUp
  <2>1. /\ Count(pending, y) \in Nat
        /\ samples[y] \in Nat /\ counted[y] \in Nat /\ overflow[y] \in Nat /\ dropped[y] \in Nat
        /\ samples[y] + counted[y] + Count(pending, y) + overflow[y] = dropped[y]
    BY <1>1, CountNat DEF TypeOK, Tally, BufferAddsUp
  <2>2. dropped'[y] = dropped[y] + (IF y = x THEN 1 ELSE 0)
    BY <1>1, <1>16, Bumped DEF AddFlushFails, TypeOK
  <2>3. UNCHANGED <<samples, counted, overflow>> /\ pending' = Append(pending, x)
    BY <1>16 DEF AddFlushFails, errors
  <2>4. Count(pending', y) = Count(pending, y) + (IF y = x THEN 1 ELSE 0)
    BY <1>1, <2>3, CountAppend DEF TypeOK
  <2>5. samples'[y] = samples[y] /\ counted'[y] = counted[y] /\ overflow'[y] = overflow[y]
    BY <2>3
  <2>6. QED
    BY <2>1, <2>2, <2>4, <2>5
<1>17. ASSUME NEW x \in Reason, AddCounted(x) PROVE BufferAddsUp'
  <2> SUFFICES ASSUME NEW y \in Reason
               PROVE  samples'[y] + counted'[y] + Count(pending', y) + overflow'[y] = dropped'[y]
    BY DEF BufferAddsUp
  <2>1. /\ Count(pending, y) \in Nat
        /\ samples[y] \in Nat /\ counted[y] \in Nat /\ overflow[y] \in Nat /\ dropped[y] \in Nat
        /\ samples[y] + counted[y] + Count(pending, y) + overflow[y] = dropped[y]
    BY <1>1, CountNat DEF TypeOK, Tally, BufferAddsUp
  <2>2. /\ dropped'[y] = dropped[y] + (IF y = x THEN 1 ELSE 0)
        /\ overflow'[y] = overflow[y] + (IF y = x THEN 1 ELSE 0)
    <3>1. overflow \in Tally /\ dropped \in Tally
      BY <1>1 DEF TypeOK
    <3>2. /\ overflow' = [overflow EXCEPT ![x] = @ + 1]
          /\ dropped' = [dropped EXCEPT ![x] = @ + 1]
      BY <1>17 DEF AddCounted
    <3>3. QED
      BY <3>1, <3>2, Bumped
  <2>3. UNCHANGED <<samples, counted, pending>>
    BY <1>17 DEF AddCounted, errors
  <2>4. QED
    BY <2>1, <2>2, <2>3
<1>18. CASE UNCHANGED vars
  BY <1>1, <1>18 DEF vars, current, buffer, errors, report, written, BufferAddsUp
<1>19. QED
  BY <1>2, <1>3, <1>4, <1>5, <1>6, <1>7, <1>8, <1>9, <1>10, <1>11, <1>12, <1>13, <1>14, <1>15, <1>16, <1>17, <1>18 DEF Next

LEMMA NextWritten == StreamInv /\ [Next]_vars => BufferIsWritten'
<1> SUFFICES ASSUME StreamInv, [Next]_vars PROVE BufferIsWritten'
  OBVIOUS
<1> USE RecordStreamAssumption DEF InFile
<1>1. TypeOK /\ BufferIsWritten
  BY DEF StreamInv
<1>2. CASE StartFile
  BY <1>1, <1>2 DEF StartFile, current, buffer, errors, report, written, BufferIsWritten
<1>3. CASE EndOfFile
  BY <1>1, <1>3 DEF EndOfFile, current, buffer, errors, report, written, BufferIsWritten
<1>4. CASE Refuse
  BY <1>1, <1>4 DEF Refuse, current, buffer, errors, report, written, BufferIsWritten
<1>5. CASE Repeat
  BY <1>1, <1>5 DEF Repeat, current, buffer, errors, report, written, BufferIsWritten
<1>6. CASE Accept
  BY <1>1, <1>6 DEF Accept, current, buffer, errors, report, written, BufferIsWritten
<1>7. CASE Load
  BY <1>1, <1>7 DEF Load, current, buffer, errors, report, written, BufferIsWritten
<1>8. CASE Flush
  BY <1>1, <1>8 DEF Flush, current, buffer, errors, report, written, BufferIsWritten
<1>9. CASE WriteCounts
  BY <1>1, <1>9 DEF WriteCounts, current, buffer, errors, report, written, BufferIsWritten
<1>10. CASE FinishFile
  BY <1>1, <1>10 DEF FinishFile, current, buffer, errors, report, written, BufferIsWritten
<1>11. CASE BodyFails
  BY <1>1, <1>11 DEF BodyFails, current, buffer, errors, report, written, BufferIsWritten
<1>12. CASE FinalizeFails
  BY <1>1, <1>12 DEF FinalizeFails, current, buffer, errors, report, written, BufferIsWritten
<1>13. CASE Kill
  BY <1>1, <1>13 DEF Kill, current, buffer, errors, report, written, BufferIsWritten
<1>14. ASSUME NEW r \in Records, Fetch(r) PROVE BufferIsWritten'
  BY <1>1, <1>14 DEF Fetch, current, buffer, errors, report, written, BufferIsWritten
<1>15. ASSUME NEW x \in Reason, AddExample(x) PROVE BufferIsWritten'
  BY <1>1, <1>15 DEF AddExample, current, buffer, errors, report, written, BufferIsWritten
<1>16. ASSUME NEW x \in Reason, AddFlushFails(x) PROVE BufferIsWritten'
  BY <1>1, <1>16 DEF AddFlushFails, current, buffer, errors, report, written, BufferIsWritten
<1>17. ASSUME NEW x \in Reason, AddCounted(x) PROVE BufferIsWritten'
  BY <1>1, <1>17 DEF AddCounted, current, buffer, errors, report, written, BufferIsWritten
<1>18. CASE UNCHANGED vars
  BY <1>1, <1>18 DEF vars, current, buffer, errors, report, written, BufferIsWritten
<1>19. QED
  BY <1>2, <1>3, <1>4, <1>5, <1>6, <1>7, <1>8, <1>9, <1>10, <1>11, <1>12, <1>13, <1>14, <1>15, <1>16, <1>17, <1>18 DEF Next

LEMMA NextRows == StreamInv /\ [Next]_vars => RowsAddUp'
<1> SUFFICES ASSUME StreamInv, [Next]_vars PROVE RowsAddUp'
  OBVIOUS
<1> USE RecordStreamAssumption DEF InFile
<1>1. TypeOK /\ RowsAddUp /\ WantedAreOnTheirWay
  BY DEF StreamInv
<1>2. CASE StartFile
  BY <1>1, <1>2 DEF StartFile, current, buffer, errors, report, written, RowsAddUp, TypeOK
<1>3. CASE EndOfFile
  BY <1>1, <1>3 DEF EndOfFile, current, buffer, errors, report, written, RowsAddUp, TypeOK
<1>4. CASE Refuse
  BY <1>1, <1>4 DEF Refuse, current, buffer, errors, report, written, RowsAddUp, TypeOK, WantedAreOnTheirWay
<1>5. CASE Repeat
  BY <1>1, <1>5 DEF Repeat, current, buffer, errors, report, written, RowsAddUp, TypeOK
<1>6. CASE Accept
  BY <1>1, <1>6 DEF Accept, current, buffer, errors, report, written, RowsAddUp, TypeOK, WantedAreOnTheirWay
<1>7. CASE Load
  BY <1>1, <1>7 DEF Load, current, buffer, errors, report, written, RowsAddUp, TypeOK
<1>8. CASE Flush
  BY <1>1, <1>8 DEF Flush, current, buffer, errors, report, written, RowsAddUp, TypeOK
<1>9. CASE WriteCounts
  BY <1>1, <1>9 DEF WriteCounts, current, buffer, errors, report, written, RowsAddUp, TypeOK
<1>10. CASE FinishFile
  BY <1>1, <1>10 DEF FinishFile, current, buffer, errors, report, written, RowsAddUp, TypeOK
<1>11. CASE BodyFails
  BY <1>1, <1>11 DEF BodyFails, current, buffer, errors, report, written, RowsAddUp, TypeOK
<1>12. CASE FinalizeFails
  BY <1>1, <1>12 DEF FinalizeFails, current, buffer, errors, report, written, RowsAddUp, TypeOK
<1>13. CASE Kill
  BY <1>1, <1>13 DEF Kill, current, buffer, errors, report, written, RowsAddUp, TypeOK
<1>14. ASSUME NEW r \in Records, Fetch(r) PROVE RowsAddUp'
  BY <1>1, <1>14 DEF Fetch, current, buffer, errors, report, written, RowsAddUp, TypeOK, WantedAreOnTheirWay
<1>15. ASSUME NEW x \in Reason, AddExample(x) PROVE RowsAddUp'
  BY <1>1, <1>15 DEF AddExample, current, buffer, errors, report, written, RowsAddUp, TypeOK
<1>16. ASSUME NEW x \in Reason, AddFlushFails(x) PROVE RowsAddUp'
  BY <1>1, <1>16 DEF AddFlushFails, current, buffer, errors, report, written, RowsAddUp, TypeOK
<1>17. ASSUME NEW x \in Reason, AddCounted(x) PROVE RowsAddUp'
  BY <1>1, <1>17 DEF AddCounted, current, buffer, errors, report, written, RowsAddUp, TypeOK
<1>18. CASE UNCHANGED vars
  BY <1>1, <1>18 DEF vars, current, buffer, errors, report, written, RowsAddUp, TypeOK
<1>19. QED
  BY <1>2, <1>3, <1>4, <1>5, <1>6, <1>7, <1>8, <1>9, <1>10, <1>11, <1>12, <1>13, <1>14, <1>15, <1>16, <1>17, <1>18 DEF Next

-------------------------------------------------------------------------------
(* Examples come before counts *)

LEMMA NextExamples == StreamInv /\ [Next]_vars => (SamplesComeFirst /\ CountsHaveExamples)'
<1> SUFFICES ASSUME StreamInv, [Next]_vars PROVE (SamplesComeFirst /\ CountsHaveExamples)'
  OBVIOUS
<1> USE RecordStreamAssumption DEF InFile
<1>1. TypeOK /\ BufferIsWritten /\ SamplesComeFirst /\ CountsHaveExamples
  BY DEF StreamInv
<1>2. CASE StartFile
  <2> SUFFICES ASSUME NEW y \in Reason
               PROVE  /\ overflow'[y] > 0 => examples'[y] >= MaxExamples
                      /\ pc' \in InFile => examples'[y] <= samples'[y] + Count(pending', y)
                      /\ counted'[y] > 0 => samples'[y] >= MaxExamples
    BY DEF SamplesComeFirst, CountsHaveExamples
  <2>1. /\ Count(pending, y) \in Nat
        /\ samples[y] \in Nat /\ counted[y] \in Nat /\ overflow[y] \in Nat /\ examples[y] \in Nat
        /\ overflow[y] > 0 => examples[y] >= MaxExamples
        /\ pc \in InFile => examples[y] <= samples[y] + Count(pending, y)
        /\ counted[y] > 0 => samples[y] >= MaxExamples
    BY <1>1, CountNat DEF TypeOK, Tally, SamplesComeFirst, CountsHaveExamples
  <2>2. overflow'[y] = 0 /\ examples'[y] = 0 /\ Count(pending', y) = 0
    BY <1>2, CountEmpty DEF StartFile, Zero
  <2>3. UNCHANGED <<samples, counted>>
    BY <1>2 DEF StartFile, errors
  <2>4. QED
    BY <2>1, <2>2, <2>3
<1>3. CASE EndOfFile
  BY <1>1, <1>3 DEF EndOfFile, current, buffer, errors, report, written, SamplesComeFirst, CountsHaveExamples
<1>4. CASE Refuse
  BY <1>1, <1>4 DEF Refuse, current, buffer, errors, report, written, SamplesComeFirst, CountsHaveExamples
<1>5. CASE Repeat
  BY <1>1, <1>5 DEF Repeat, current, buffer, errors, report, written, SamplesComeFirst, CountsHaveExamples
<1>6. CASE Accept
  BY <1>1, <1>6 DEF Accept, current, buffer, errors, report, written, SamplesComeFirst, CountsHaveExamples
<1>7. CASE Load
  BY <1>1, <1>7 DEF Load, current, buffer, errors, report, written, SamplesComeFirst, CountsHaveExamples
<1>8. CASE Flush
  <2> SUFFICES ASSUME NEW y \in Reason
               PROVE  /\ overflow'[y] > 0 => examples'[y] >= MaxExamples
                      /\ pc' \in InFile => examples'[y] <= samples'[y] + Count(pending', y)
                      /\ counted'[y] > 0 => samples'[y] >= MaxExamples
    BY DEF SamplesComeFirst, CountsHaveExamples
  <2>1. /\ Count(pending, y) \in Nat
        /\ samples[y] \in Nat /\ counted[y] \in Nat /\ overflow[y] \in Nat /\ examples[y] \in Nat
        /\ overflow[y] > 0 => examples[y] >= MaxExamples
        /\ pc \in InFile => examples[y] <= samples[y] + Count(pending, y)
        /\ counted[y] > 0 => samples[y] >= MaxExamples
    BY <1>1, CountNat DEF TypeOK, Tally, SamplesComeFirst, CountsHaveExamples
  <2>2. samples'[y] = samples[y] + Count(pending, y) /\ Count(pending', y) = 0
    BY <1>8, CountEmpty DEF Flush, Flushed
  <2>3. UNCHANGED <<counted, overflow, examples>> /\ pc \in InFile
    BY <1>8 DEF Flush
  <2>4. QED
    BY <2>1, <2>2, <2>3
<1>9. CASE WriteCounts
  <2> SUFFICES ASSUME NEW y \in Reason
               PROVE  /\ overflow'[y] > 0 => examples'[y] >= MaxExamples
                      /\ pc' \in InFile => examples'[y] <= samples'[y] + Count(pending', y)
                      /\ counted'[y] > 0 => samples'[y] >= MaxExamples
    BY DEF SamplesComeFirst, CountsHaveExamples
  <2>1. /\ Count(pending, y) \in Nat
        /\ samples[y] \in Nat /\ counted[y] \in Nat /\ overflow[y] \in Nat /\ examples[y] \in Nat
        /\ overflow[y] > 0 => examples[y] >= MaxExamples
        /\ pc \in InFile => examples[y] <= samples[y] + Count(pending, y)
        /\ counted[y] > 0 => samples[y] >= MaxExamples
    BY <1>1, CountNat DEF TypeOK, Tally, SamplesComeFirst, CountsHaveExamples
  <2>2. counted'[y] = counted[y] + overflow[y] /\ overflow'[y] = 0
    BY <1>9 DEF WriteCounts, Zero
  <2>3. UNCHANGED <<samples, pending, examples>> /\ pc = "counting"
    BY <1>9 DEF WriteCounts
  <2>4. Count(pending, y) = 0
    BY <1>1, <2>3, CountEmpty DEF BufferIsWritten
  <2>5. QED
    BY <2>1, <2>2, <2>3, <2>4
<1>10. CASE FinishFile
  BY <1>1, <1>10 DEF FinishFile, current, buffer, errors, report, written, SamplesComeFirst, CountsHaveExamples
<1>11. CASE BodyFails
  BY <1>1, <1>11 DEF BodyFails, current, buffer, errors, report, written, SamplesComeFirst, CountsHaveExamples
<1>12. CASE FinalizeFails
  BY <1>1, <1>12 DEF FinalizeFails, current, buffer, errors, report, written, SamplesComeFirst, CountsHaveExamples
<1>13. CASE Kill
  BY <1>1, <1>13 DEF Kill, current, buffer, errors, report, written, SamplesComeFirst, CountsHaveExamples
<1>14. ASSUME NEW r \in Records, Fetch(r) PROVE (SamplesComeFirst /\ CountsHaveExamples)'
  BY <1>1, <1>14 DEF Fetch, current, buffer, errors, report, written, SamplesComeFirst, CountsHaveExamples
<1>15. ASSUME NEW x \in Reason, AddExample(x) PROVE (SamplesComeFirst /\ CountsHaveExamples)'
  <2> SUFFICES ASSUME NEW y \in Reason
               PROVE  /\ overflow'[y] > 0 => examples'[y] >= MaxExamples
                      /\ pc' \in InFile => examples'[y] <= samples'[y] + Count(pending', y)
                      /\ counted'[y] > 0 => samples'[y] >= MaxExamples
    BY DEF SamplesComeFirst, CountsHaveExamples
  <2>1. /\ Count(pending, y) \in Nat
        /\ samples[y] \in Nat /\ counted[y] \in Nat /\ overflow[y] \in Nat /\ examples[y] \in Nat
        /\ overflow[y] > 0 => examples[y] >= MaxExamples
        /\ pc \in InFile => examples[y] <= samples[y] + Count(pending, y)
        /\ counted[y] > 0 => samples[y] >= MaxExamples
    BY <1>1, CountNat DEF TypeOK, Tally, SamplesComeFirst, CountsHaveExamples
  <2>2. examples'[y] = examples[y] + (IF y = x THEN 1 ELSE 0)
    BY <1>1, <1>15, Bumped DEF AddExample, TypeOK
  <2>3. UNCHANGED <<counted, overflow>> /\ pc \in InFile
    BY <1>15 DEF AddExample
  <2>4. Count(Append(pending, x), y) = Count(pending, y) + (IF y = x THEN 1 ELSE 0)
    BY <1>1, CountAppend DEF TypeOK
  <2>5. \/ samples' = samples /\ pending' = Append(pending, x)
        \/ samples'[y] = samples[y] + Count(Append(pending, x), y) /\ Count(pending', y) = 0
    <3>1. CASE Len(Append(pending, x)) < FlushSize
      BY <1>15, <3>1 DEF AddExample
    <3>2. CASE ~(Len(Append(pending, x)) < FlushSize)
      BY <1>15, <3>2, CountEmpty DEF AddExample, Flushed
    <3>3. QED
      BY <3>1, <3>2
  <2>6. samples'[y] + Count(pending', y) = samples[y] + Count(Append(pending, x), y) /\ samples'[y] >= samples[y]
    <3>1. CASE samples' = samples /\ pending' = Append(pending, x)
      BY <2>1, <3>1
    <3>2. CASE samples'[y] = samples[y] + Count(Append(pending, x), y) /\ Count(pending', y) = 0
      BY <2>1, <2>4, <3>2
    <3>3. QED
      BY <2>5, <3>1, <3>2
  <2>7. samples'[y] \in Nat
    BY NextType DEF TypeOK, Tally
  <2>8. QED
    BY <2>1, <2>2, <2>3, <2>4, <2>6, <2>7
<1>16. ASSUME NEW x \in Reason, AddFlushFails(x) PROVE (SamplesComeFirst /\ CountsHaveExamples)'
  <2> SUFFICES ASSUME NEW y \in Reason
               PROVE  /\ overflow'[y] > 0 => examples'[y] >= MaxExamples
                      /\ pc' \in InFile => examples'[y] <= samples'[y] + Count(pending', y)
                      /\ counted'[y] > 0 => samples'[y] >= MaxExamples
    BY DEF SamplesComeFirst, CountsHaveExamples
  <2>1. /\ Count(pending, y) \in Nat
        /\ samples[y] \in Nat /\ counted[y] \in Nat /\ overflow[y] \in Nat /\ examples[y] \in Nat
        /\ overflow[y] > 0 => examples[y] >= MaxExamples
        /\ pc \in InFile => examples[y] <= samples[y] + Count(pending, y)
        /\ counted[y] > 0 => samples[y] >= MaxExamples
    BY <1>1, CountNat DEF TypeOK, Tally, SamplesComeFirst, CountsHaveExamples
  <2>2. examples'[y] = examples[y] + (IF y = x THEN 1 ELSE 0)
    BY <1>1, <1>16, Bumped DEF AddFlushFails, TypeOK
  <2>3. UNCHANGED <<samples, counted, overflow>> /\ pending' = Append(pending, x) /\ pc \in InFile
    BY <1>16 DEF AddFlushFails, errors
  <2>4. Count(pending', y) = Count(pending, y) + (IF y = x THEN 1 ELSE 0)
    BY <1>1, <2>3, CountAppend DEF TypeOK
  <2>5. samples'[y] = samples[y] /\ counted'[y] = counted[y] /\ overflow'[y] = overflow[y]
    BY <2>3
  <2>6. pc \in InFile
    BY <2>3
  <2>7. QED
    BY <2>1, <2>2, <2>4, <2>5, <2>6
<1>17. ASSUME NEW x \in Reason, AddCounted(x) PROVE (SamplesComeFirst /\ CountsHaveExamples)'
  <2> SUFFICES ASSUME NEW y \in Reason
               PROVE  /\ overflow'[y] > 0 => examples'[y] >= MaxExamples
                      /\ pc' \in InFile => examples'[y] <= samples'[y] + Count(pending', y)
                      /\ counted'[y] > 0 => samples'[y] >= MaxExamples
    BY DEF SamplesComeFirst, CountsHaveExamples
  <2>1. /\ Count(pending, y) \in Nat
        /\ samples[y] \in Nat /\ counted[y] \in Nat /\ overflow[y] \in Nat /\ examples[y] \in Nat
        /\ overflow[y] > 0 => examples[y] >= MaxExamples
        /\ pc \in InFile => examples[y] <= samples[y] + Count(pending, y)
        /\ counted[y] > 0 => samples[y] >= MaxExamples
    BY <1>1, CountNat DEF TypeOK, Tally, SamplesComeFirst, CountsHaveExamples
  <2>2. overflow'[y] = overflow[y] + (IF y = x THEN 1 ELSE 0)
    BY <1>1, <1>17, Bumped DEF AddCounted, TypeOK
  <2>3. UNCHANGED <<samples, counted, pending, examples>> /\ pc \in InFile /\ examples[x] >= MaxExamples
    BY <1>17 DEF AddCounted, errors
  <2>4. QED
    BY <2>1, <2>2, <2>3
<1>18. CASE UNCHANGED vars
  BY <1>1, <1>18 DEF vars, current, buffer, errors, report, written, SamplesComeFirst, CountsHaveExamples
<1>19. QED
  BY <1>2, <1>3, <1>4, <1>5, <1>6, <1>7, <1>8, <1>9, <1>10, <1>11, <1>12, <1>13, <1>14, <1>15, <1>16, <1>17, <1>18 DEF Next

-------------------------------------------------------------------------------
(* The ids of a file *)

LEMMA NextWanted == StreamInv /\ [Next]_vars => WantedAreOnTheirWay'
<1> SUFFICES ASSUME StreamInv, [Next]_vars PROVE WantedAreOnTheirWay'
  OBVIOUS
<1> USE RecordStreamAssumption DEF InFile
<1>1. TypeOK /\ WantedAreOnTheirWay
  BY DEF StreamInv
<1>2. CASE StartFile
  BY <1>1, <1>2, MembersOf DEF StartFile, current, buffer, errors, report, written, WantedAreOnTheirWay
<1>3. CASE EndOfFile
  BY <1>1, <1>3 DEF EndOfFile, current, buffer, errors, report, written, WantedAreOnTheirWay
<1>4. CASE Refuse
  BY <1>1, <1>4 DEF Refuse, current, buffer, errors, report, written, WantedAreOnTheirWay
<1>5. CASE Repeat
  BY <1>1, <1>5 DEF Repeat, Seen, current, buffer, errors, report, written, WantedAreOnTheirWay
<1>6. CASE Accept
  <2>1. rec.id \in Ids /\ batch \in Seq(Ids)
    BY <1>1, <1>6 DEF Accept, WantedAreOnTheirWay, Accepted, Faults, When, Record, TypeOK
  <2>2. Members(batch') = Members(batch) \cup {rec.id}
    BY <1>6, <2>1, MembersAppend DEF Accept
  <2>3. QED
    BY <1>1, <1>6, <2>2 DEF Accept, current, buffer, errors, report, written, WantedAreOnTheirWay
<1>7. CASE Load
  BY <1>1, <1>7, MembersOf DEF Load, current, buffer, errors, report, written, WantedAreOnTheirWay
<1>8. CASE Flush
  BY <1>1, <1>8 DEF Flush, current, buffer, errors, report, written, WantedAreOnTheirWay
<1>9. CASE WriteCounts
  BY <1>1, <1>9 DEF WriteCounts, current, buffer, errors, report, written, WantedAreOnTheirWay
<1>10. CASE FinishFile
  BY <1>1, <1>10 DEF FinishFile, current, buffer, errors, report, written, WantedAreOnTheirWay
<1>11. CASE BodyFails
  BY <1>1, <1>11 DEF BodyFails, current, buffer, errors, report, written, WantedAreOnTheirWay
<1>12. CASE FinalizeFails
  BY <1>1, <1>12 DEF FinalizeFails, current, buffer, errors, report, written, WantedAreOnTheirWay
<1>13. CASE Kill
  BY <1>1, <1>13 DEF Kill, current, buffer, errors, report, written, WantedAreOnTheirWay
<1>14. ASSUME NEW r \in Records, Fetch(r) PROVE WantedAreOnTheirWay'
  <2>1. Accepted(r) \in BOOLEAN
    BY DEF Accepted, CountryAllowed, TooOld, InScope
  <2>2. QED
    BY <1>1, <1>14, <2>1 DEF Fetch, current, buffer, errors, report, written, WantedAreOnTheirWay
<1>15. ASSUME NEW x \in Reason, AddExample(x) PROVE WantedAreOnTheirWay'
  BY <1>1, <1>15 DEF AddExample, current, buffer, errors, report, written, WantedAreOnTheirWay
<1>16. ASSUME NEW x \in Reason, AddFlushFails(x) PROVE WantedAreOnTheirWay'
  BY <1>1, <1>16 DEF AddFlushFails, current, buffer, errors, report, written, WantedAreOnTheirWay
<1>17. ASSUME NEW x \in Reason, AddCounted(x) PROVE WantedAreOnTheirWay'
  BY <1>1, <1>17 DEF AddCounted, current, buffer, errors, report, written, WantedAreOnTheirWay
<1>18. CASE UNCHANGED vars
  BY <1>1, <1>18 DEF vars, current, buffer, errors, report, written, WantedAreOnTheirWay
<1>19. QED
  BY <1>2, <1>3, <1>4, <1>5, <1>6, <1>7, <1>8, <1>9, <1>10, <1>11, <1>12, <1>13, <1>14, <1>15, <1>16, <1>17, <1>18 DEF Next

LEMMA NextTwins == StreamInv /\ [Next]_vars => BatchesHaveNoTwins'
<1> SUFFICES ASSUME StreamInv, [Next]_vars PROVE BatchesHaveNoTwins'
  OBVIOUS
<1> USE RecordStreamAssumption DEF InFile
<1>1. TypeOK /\ WantedAreOnTheirWay /\ BatchesHaveNoTwins
  BY DEF StreamInv
<1>2. CASE StartFile
  BY <1>1, <1>2 DEF StartFile, current, buffer, errors, report, written, BatchesHaveNoTwins
<1>3. CASE EndOfFile
  BY <1>1, <1>3 DEF EndOfFile, current, buffer, errors, report, written, BatchesHaveNoTwins
<1>4. CASE Refuse
  BY <1>1, <1>4 DEF Refuse, current, buffer, errors, report, written, BatchesHaveNoTwins
<1>5. CASE Repeat
  BY <1>1, <1>5 DEF Repeat, current, buffer, errors, report, written, BatchesHaveNoTwins
<1>6. CASE Accept
  <2>1. rec.id \in Ids /\ batch \in Seq(Ids)
    BY <1>1, <1>6 DEF Accept, WantedAreOnTheirWay, Accepted, Faults, When, Record, TypeOK
  <2>2. \A i \in DOMAIN batch : batch[i] # rec.id
    BY <1>6 DEF Accept, Seen, Members
  <2>3. batch' = Append(batch, rec.id)
    BY <1>6 DEF Accept
  <2>4. QED
    BY <1>1, <2>1, <2>2, <2>3 DEF BatchesHaveNoTwins
<1>7. CASE Load
  BY <1>1, <1>7 DEF Load, current, buffer, errors, report, written, BatchesHaveNoTwins
<1>8. CASE Flush
  BY <1>1, <1>8 DEF Flush, current, buffer, errors, report, written, BatchesHaveNoTwins
<1>9. CASE WriteCounts
  BY <1>1, <1>9 DEF WriteCounts, current, buffer, errors, report, written, BatchesHaveNoTwins
<1>10. CASE FinishFile
  BY <1>1, <1>10 DEF FinishFile, current, buffer, errors, report, written, BatchesHaveNoTwins
<1>11. CASE BodyFails
  BY <1>1, <1>11 DEF BodyFails, current, buffer, errors, report, written, BatchesHaveNoTwins
<1>12. CASE FinalizeFails
  BY <1>1, <1>12 DEF FinalizeFails, current, buffer, errors, report, written, BatchesHaveNoTwins
<1>13. CASE Kill
  BY <1>1, <1>13 DEF Kill, current, buffer, errors, report, written, BatchesHaveNoTwins
<1>14. ASSUME NEW r \in Records, Fetch(r) PROVE BatchesHaveNoTwins'
  BY <1>1, <1>14 DEF Fetch, current, buffer, errors, report, written, BatchesHaveNoTwins
<1>15. ASSUME NEW x \in Reason, AddExample(x) PROVE BatchesHaveNoTwins'
  BY <1>1, <1>15 DEF AddExample, current, buffer, errors, report, written, BatchesHaveNoTwins
<1>16. ASSUME NEW x \in Reason, AddFlushFails(x) PROVE BatchesHaveNoTwins'
  BY <1>1, <1>16 DEF AddFlushFails, current, buffer, errors, report, written, BatchesHaveNoTwins
<1>17. ASSUME NEW x \in Reason, AddCounted(x) PROVE BatchesHaveNoTwins'
  BY <1>1, <1>17 DEF AddCounted, current, buffer, errors, report, written, BatchesHaveNoTwins
<1>18. CASE UNCHANGED vars
  BY <1>1, <1>18 DEF vars, current, buffer, errors, report, written, BatchesHaveNoTwins
<1>19. QED
  BY <1>2, <1>3, <1>4, <1>5, <1>6, <1>7, <1>8, <1>9, <1>10, <1>11, <1>12, <1>13, <1>14, <1>15, <1>16, <1>17, <1>18 DEF Next

-------------------------------------------------------------------------------
(* Counting refusals *)

\* The numbered occurrences of the reasons that refuse.
LEMMA RefusalsMember ==
  ASSUME NEW f, NEW o
  PROVE  o \in Refusals(f) <=> \E x \in Refusing : \E n \in 1..f[x] : o = <<x, n>>
  BY DEF Refusals

LEMMA ReasonsFinite == IsFiniteSet(Reason)
<1> DEFINE With(S, x) == S \cup {x}
<1>1. \A S, x : IsFiniteSet(S) => IsFiniteSet(With(S, x))
  BY FS_AddElement
<1>2. IsFiniteSet({})
  BY FS_EmptySet
<1> DEFINE A == With(With(With(With({}, "MISSING_EXTERNAL_ID"), "MISSING_TITLE"), "MISSING_COMPANY"),
                     "MISSING_APPLY_URL")
           B == With(With(With(With(A, "INVALID_URL"), "UNPARSEABLE_PAYLOAD"), "INVALID_COUNTRY"),
                     "COUNTRY_NOT_ALLOWED")
           C == With(With(With(With(With(B, "FUTURE_POSTED_AT"), "IMPLAUSIBLE_POSTED_AT"), "TOO_OLD"),
                     "CATEGORY_NOT_ALLOWED"), "DUPLICATE_IN_BATCH")
<1>3. Reason = C
  BY DEF Reason
<1>4. IsFiniteSet(C)
  <2> HIDE DEF With
  <2>1. QED
    BY <1>1, <1>2
<1>5. QED
  BY <1>3, <1>4

LEMMA RefusalsFinite ==
  ASSUME NEW f \in Tally
  PROVE  IsFiniteSet(Refusals(f)) /\ Cardinality(Refusals(f)) \in Nat
<1> DEFINE Column(x) == {x} \X (1..f[x])
           column == [x \in Refusing |-> Column(x)]
           Columns == {Column(x) : x \in Refusing}
<1>1. IsFiniteSet(Refusing)
  BY ReasonsFinite, FS_Subset DEF Refusing
<1>2. IsFiniteSet(Columns)
  <2>1. column \in Surjection(Refusing, Columns)
    BY DEF Surjection
  <2>2. QED
    BY <1>1, <2>1, FS_Surjection
<1>3. \A x \in Refusing : IsFiniteSet(Column(x))
  <2> SUFFICES ASSUME NEW x \in Refusing PROVE IsFiniteSet(Column(x))
    OBVIOUS
  <2>1. f[x] \in Nat
    BY DEF Tally, Refusing
  <2>2. IsFiniteSet(1..f[x])
    BY <2>1, FS_Interval
  <2>3. QED
    BY <2>2, FS_Singleton, FS_Product
<1>4. IsFiniteSet(UNION Columns)
  BY <1>2, <1>3, FS_UNION
<1>5. QED
  BY <1>4, FS_CardinalityType DEF Refusals

\* One rejection more counts as a refusal when its reason is one that refuses.
LEMMA RefusalsBumped ==
  ASSUME NEW f \in Tally, NEW x \in Reason
  PROVE  Cardinality(Refusals([f EXCEPT ![x] = @ + 1])) =
           Cardinality(Refusals(f)) + (IF x \in Refusing THEN 1 ELSE 0)
<1> DEFINE g == [f EXCEPT ![x] = @ + 1]
<1>1. /\ f[x] \in Nat /\ g[x] = f[x] + 1
      /\ \A y \in Refusing : y # x => g[y] = f[y]
  BY DEF Tally, Refusing
<1>2. 1..g[x] = (1..f[x]) \cup {g[x]} /\ g[x] \notin 1..f[x]
  BY <1>1
<1>3. IsFiniteSet(Refusals(f)) /\ Cardinality(Refusals(f)) \in Nat
  BY RefusalsFinite
<1> HIDE DEF g
<1>4. CASE x \in Refusing
  <2>1. <<x, g[x]>> \notin Refusals(f)
    BY <1>2, RefusalsMember
  <2>2. Refusals(g) = Refusals(f) \cup {<<x, g[x]>>}
    <3>1. ASSUME NEW o \in Refusals(g) PROVE o \in Refusals(f) \cup {<<x, g[x]>>}
      <4>1. PICK y \in Refusing : \E n \in 1..g[y] : o = <<y, n>>
        BY RefusalsMember
      <4>2. PICK n \in 1..g[y] : o = <<y, n>>
        BY <4>1
      <4>3. QED
        BY <1>1, <1>2, <4>2, RefusalsMember
    <3>2. ASSUME NEW o \in Refusals(f) PROVE o \in Refusals(g)
      <4>1. PICK y \in Refusing : \E n \in 1..f[y] : o = <<y, n>>
        BY RefusalsMember
      <4>2. PICK n \in 1..f[y] : o = <<y, n>>
        BY <4>1
      <4>3. n \in 1..g[y]
        BY <1>1, <1>2
      <4>4. QED
        BY <4>2, <4>3, RefusalsMember
    <3>3. <<x, g[x]>> \in Refusals(g)
      <4>1. g[x] \in 1..g[x]
        BY <1>1
      <4>2. QED
        BY <1>4, <4>1, RefusalsMember
    <3>4. QED
      BY <3>1, <3>2, <3>3
  <2>3. Cardinality(Refusals(g)) = Cardinality(Refusals(f)) + 1
    BY <1>3, <2>1, <2>2, FS_AddElement
  <2>4. QED
    BY <1>4, <2>3 DEF g
<1>5. CASE x \notin Refusing
  <2>1. Refusals(g) = Refusals(f)
    BY <1>1, <1>5 DEF Refusals
  <2>2. QED
    BY <1>3, <1>5, <2>1 DEF g
<1>6. QED
  BY <1>4, <1>5

LEMMA NextReasons == StreamInv /\ [Next]_vars => ReasonsComeFirst'
<1> SUFFICES ASSUME StreamInv, [Next]_vars PROVE ReasonsComeFirst'
  OBVIOUS
<1>1. /\ rejected \in Nat /\ dropped \in Tally /\ Cardinality(Refusals(dropped)) \in Nat
      /\ ReasonsComeFirst /\ WantedAreOnTheirWay
  BY RefusalsFinite DEF StreamInv, TypeOK
<1> DEFINE Owed == IF pc = "judging" /\ ~keep /\ todo \cap Refusing = {} THEN 1 ELSE 0
<1>2. ASSUME rejected' = rejected, dropped' = dropped, Owed' = 0 PROVE ReasonsComeFirst'
  BY <1>1, <1>2 DEF ReasonsComeFirst
<1>3. CASE StartFile
  BY <1>2, <1>3 DEF StartFile, report
<1>4. CASE EndOfFile
  BY <1>2, <1>4 DEF EndOfFile, report
<1>5. CASE Refuse
  <2>1. Owed = 1 /\ Owed' = 0 /\ rejected' = rejected + 1 /\ dropped' = dropped
    BY <1>5 DEF Refuse
  <2>2. QED
    BY <1>1, <2>1 DEF ReasonsComeFirst
<1>6. CASE Repeat
  <2>1. "DUPLICATE_IN_BATCH" \in Refusing
    BY DEF Refusing, Reason
  <2>2. QED
    BY <1>2, <1>6, <2>1 DEF Repeat, report
<1>7. CASE Accept
  BY <1>2, <1>7 DEF Accept, report
<1>8. CASE Load
  BY <1>2, <1>8 DEF Load, report
<1>9. CASE Flush
  BY <1>2, <1>9 DEF Flush, report
<1>10. CASE WriteCounts
  BY <1>2, <1>10 DEF WriteCounts, report
<1>11. CASE FinishFile
  BY <1>2, <1>11 DEF FinishFile, report
<1>12. CASE BodyFails
  BY <1>2, <1>12 DEF BodyFails, report
<1>13. CASE FinalizeFails
  BY <1>2, <1>13 DEF FinalizeFails, report
<1>14. CASE Kill
  BY <1>2, <1>14 DEF Kill, report
<1>15. ASSUME NEW r \in Records, Fetch(r) PROVE ReasonsComeFirst'
  <2>1. ~Accepted(r) => Rejections(r) \cap Refusing # {}
    <3>1. r \in Record
      BY RecordStreamAssumption
    <3>2. QED
      BY <3>1, RefusedHaveAReason, RejectionsType DEF Refusing
  <2>2. Owed' = 0
    BY <1>15, <2>1 DEF Fetch
  <2>3. QED
    BY <1>2, <1>15, <2>2 DEF Fetch
<1>16. ASSUME NEW x \in todo, x \in Reason, pc = "judging", rejected' = rejected, keep' = keep,
             todo' = todo \ {x}, dropped' = [dropped EXCEPT ![x] = @ + 1]
      PROVE  ReasonsComeFirst'
  <2>1. Cardinality(Refusals(dropped')) =
          Cardinality(Refusals(dropped)) + (IF x \in Refusing THEN 1 ELSE 0)
    BY <1>1, <1>16, RefusalsBumped
  <2>2. CASE x \in Refusing
    <3>1. Owed = 0 /\ Owed' \in {0, 1}
      BY <1>16, <2>2
    <3>2. QED
      BY <1>1, <1>16, <2>1, <2>2, <3>1 DEF ReasonsComeFirst
  <2>3. CASE x \notin Refusing
    <3>1. Owed' \in {0, 1} /\ (Owed' = 1 => Owed = 1)
      BY <1>16, <2>3
    <3>2. QED
      BY <1>1, <1>16, <2>1, <2>3, <3>1 DEF ReasonsComeFirst
  <2>4. QED
    BY <2>2, <2>3
<1>17. ASSUME NEW x \in Reason, AddExample(x) PROVE ReasonsComeFirst'
  BY <1>16, <1>17 DEF AddExample, current, report
<1>18. ASSUME NEW x \in Reason, AddFlushFails(x) PROVE ReasonsComeFirst'
  BY <1>16, <1>18 DEF AddFlushFails, current, report
<1>19. ASSUME NEW x \in Reason, AddCounted(x) PROVE ReasonsComeFirst'
  BY <1>16, <1>19 DEF AddCounted, current, report
<1>20. CASE UNCHANGED vars
  BY <1>1, <1>20 DEF vars, report, current, ReasonsComeFirst
<1>21. QED
  BY <1>3, <1>4, <1>5, <1>6, <1>7, <1>8, <1>9, <1>10, <1>11, <1>12, <1>13, <1>14, <1>15, <1>17, <1>18, <1>19, <1>20 DEF Next

LEMMA InitReasons == Init => ReasonsComeFirst
<1> SUFFICES ASSUME Init PROVE ReasonsComeFirst
  OBVIOUS
<1>1. pc = "idle" /\ rejected = 0 /\ Cardinality(Refusals(dropped)) \in Nat
  BY ZeroType, RefusalsFinite DEF Init
<1>2. QED
  BY <1>1 DEF ReasonsComeFirst

-------------------------------------------------------------------------------

LEMMA InitStream == Init => StreamInv
<1> SUFFICES ASSUME Init PROVE StreamInv
  OBVIOUS
<1> USE RecordStreamAssumption
<1>1. BufferAddsUp /\ SamplesComeFirst /\ CountsHaveExamples
  BY CountEmpty DEF Init, BufferAddsUp, SamplesComeFirst, CountsHaveExamples, Zero, InFile
<1>2. BufferIsWritten
  BY DEF Init, BufferIsWritten
<1>3. WantedAreOnTheirWay /\ BatchesHaveNoTwins
  BY MembersOf DEF Init, WantedAreOnTheirWay, BatchesHaveNoTwins, InFile
<1>4. RowsAddUp
  BY DEF Init, RowsAddUp
<1>5. QED
  BY <1>1, <1>2, <1>3, <1>4, InitType, InitReasons DEF StreamInv

\* The invariant of the stream: it holds in every state, whatever fails and wherever.
THEOREM Stream == Spec => []StreamInv
<1>1. Init => StreamInv
  BY InitStream
<1>2. StreamInv /\ [Next]_vars => StreamInv'
  BY NextType, NextAddsUp, NextWritten, NextRows, NextExamples, NextWanted, NextTwins, NextReasons
  DEF StreamInv
<1>3. QED
  BY <1>1, <1>2, PTL DEF Spec

LEMMA StreamIsTotal == StreamInv => TotalsAreExact
<1> SUFFICES ASSUME StreamInv, pc \in {"idle", "ended"}, ~lost, NEW x \in Reason
             PROVE  samples[x] + counted[x] = dropped[x]
  BY DEF TotalsAreExact
<1>1. Count(pending, x) = 0 /\ overflow[x] = 0
  BY CountEmpty DEF StreamInv, BufferIsWritten, Zero
<1>2. /\ samples[x] \in Nat /\ counted[x] \in Nat /\ dropped[x] \in Nat
      /\ samples[x] + counted[x] + Count(pending, x) + overflow[x] = dropped[x]
  BY DEF StreamInv, TypeOK, Tally, BufferAddsUp
<1>3. QED
  BY <1>1, <1>2

\* sync.py: "the totals are exact", for every limit and buffer size, unless a buffer is lost.
THEOREM Totals == Spec => []TotalsAreExact
BY StreamIsTotal, Stream, PTL

\* process.py: "Nothing is silently discarded".  Once the buffer is written, sync_errors has at
\* least as many occurrences of reasons that refuse as the report has rejected rows.
THEOREM RejectionsExplained == Spec => []RejectedRowsHaveReasons
<1>1. StreamInv => RejectedRowsHaveReasons
  <2> SUFFICES ASSUME StreamInv, pc \in {"idle", "ended"}, ~lost
               PROVE  rejected <= Cardinality(Refusals([x \in Reason |-> samples[x] + counted[x]]))
    BY DEF RejectedRowsHaveReasons
  <2>1. \A x \in Reason : samples[x] + counted[x] = dropped[x]
    BY StreamIsTotal DEF TotalsAreExact
  <2>2. dropped = [x \in Reason |-> samples[x] + counted[x]]
    BY <2>1 DEF StreamInv, TypeOK, Tally
  <2>3. rejected <= Cardinality(Refusals(dropped))
    BY RefusalsFinite DEF StreamInv, TypeOK, ReasonsComeFirst
  <2>4. QED
    BY <2>2, <2>3
<1>2. QED
  BY <1>1, Stream, PTL

\* No rejection is counted twice, although a failed flush is retried when the buffer closes.
THEOREM NoneTwice == Spec => []NothingIsCountedTwice
<1>1. StreamInv => NothingIsCountedTwice
  <2> SUFFICES ASSUME StreamInv, NEW x \in Reason
               PROVE  samples[x] + counted[x] <= dropped[x]
    BY DEF NothingIsCountedTwice
  <2>1. Count(pending, x) \in Nat
    BY CountNat DEF StreamInv, TypeOK
  <2>2. /\ samples[x] \in Nat /\ counted[x] \in Nat /\ dropped[x] \in Nat /\ overflow[x] \in Nat
        /\ samples[x] + counted[x] + Count(pending, x) + overflow[x] = dropped[x]
    BY DEF StreamInv, TypeOK, Tally, BufferAddsUp
  <2>3. QED
    BY <2>1, <2>2
<1>2. QED
  BY <1>1, Stream, PTL

\* A finished file leaves out no acceptable record, so the passes to come may skip it.
THEOREM FinishedStored == Spec => []FinishedFilesAreStored
<1>1. StreamInv => FinishedFilesAreStored
  BY MembersOf DEF StreamInv, FinishedFilesAreStored, WantedAreOnTheirWay, InFile
<1>2. QED
  BY <1>1, Stream, PTL

\* Counts come with examples, rows add up and batches hold no id twice.
THEOREM StreamSafety == Spec => [](CountsHaveExamples /\ RowsAddUp /\ BatchesHaveNoTwins)
<1>1. StreamInv => CountsHaveExamples /\ RowsAddUp /\ BatchesHaveNoTwins
  BY DEF StreamInv
<1>2. QED
  BY <1>1, Stream, PTL

===============================================================================
