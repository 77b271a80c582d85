--------------------------- MODULE CacheFillProofs ---------------------------
(***************************************************************************)
(* The safety of the offline fill, for any inputs, results, flags and      *)
(* bounds on failures and runs.  The inductive invariant says how far the  *)
(* run in progress has come, that its counts, the review file and the      *)
(* cache account for every sample handled so far, and which candidates     *)
(* back the judged rows.                                                   *)
(***************************************************************************)
EXTENDS CacheFill, CacheEntriesProofs, FiniteSetTheorems

Working == {"fetch", "pipeline", "row", "close", "done"}

\* How many samples the run has handled.
Handled ==
  IF phase = "row" THEN pos - 1 ELSE IF phase = "pipeline" THEN batch.first - 1 ELSE next - 1

\* Neither flag keeps a row out of the cache.
Whole == ~options.dryRun /\ options.floor = 0

Position ==
  /\ phase = "start" => next = 1 /\ total = NoCounts
  /\ phase \in {"pipeline", "row"} => batch.first \in 1..batch.last /\ next = batch.last + 1
  /\ phase = "row" => pos \in batch.first..batch.last
  /\ phase \in {"close", "done"} => next = Len(samples) + 1
  /\ phase \in (Working \cup {"start"}) \ {"row"} => part = NoCounts

\* The counts account for the samples handled, and agree with the file.
Added ==
  phase \in Working =>
    /\ total.processed + part.processed = IF phase = "row" THEN batch.last ELSE Handled
    /\ total.skipped = total.review /\ part.skipped = part.review
    /\ (total.cached + part.cached) + (total.skipped + part.skipped) <= Handled
    /\ Whole => (total.cached + part.cached) + (total.skipped + part.skipped) = Handled
    /\ options.reviewPath => total.review + part.review = Len(file.rows)

\* The review file of the run in progress.
Exported ==
  phase \in Working /\ options.reviewPath =>
    /\ file.exists /\ ~file.torn /\ (phase = "done" => file.closed)
    /\ \A j \in DOMAIN file.rows : file.rows[j] \in 1..Handled
    /\ \A i, j \in DOMAIN file.rows : i < j => file.rows[i] < file.rows[j]

\* Every sample handled is in the cache or in the file.
Kept ==
  phase \in Working /\ Whole =>
    \A i \in 1..Handled :
      \/ rows[Normalized[samples[i]]] # NoRow
      \/ \E j \in DOMAIN file.rows : file.rows[j] = i

IInv == TypeOK /\ Position /\ Added /\ Exported /\ Kept /\ JudgedRowsBacked

-----------------------------------------------------------------------------
\* A set of natural numbers that is not empty has a least member.
LEMMA LeastNatural ==
  ASSUME NEW T \in SUBSET Nat, T # {}
  PROVE  First(T) \in T
<1> DEFINE Below == {1..y : y \in T}
<1>1. Below \subseteq FiniteSubsetsOf(Nat)
  <2> SUFFICES ASSUME NEW y \in T PROVE 1..y \in FiniteSubsetsOf(Nat)
    OBVIOUS
  <2>1. IsFiniteSet(1..y)
    BY FS_Interval
  <2> QED
    BY <2>1 DEF FiniteSubsetsOf
<1>2. Below # {}
  OBVIOUS
<1>3. PICK B \in Below : \A D \in Below : ~ (<<D, B>> \in StrictSubsetOrdering(Nat))
  <2> HIDE DEF Below
  <2>1. IsWellFoundedOn(StrictSubsetOrdering(Nat), FiniteSubsetsOf(Nat))
    BY FS_StrictSubsetOrderingWellFounded
  <2> QED
    BY <1>1, <1>2, <2>1, WFMin
<1>4. PICK m \in T : B = 1..m
  OBVIOUS
<1>5. ASSUME NEW y \in T, y < m PROVE FALSE
  <2>1. 1..y \in SUBSET Nat /\ 1..m \in SUBSET Nat /\ 1..y \subseteq 1..m
    BY <1>5
  <2>2. m \in 1..m /\ m \notin 1..y
    BY <1>5
  <2>3. <<1..y, 1..m>> \in StrictSubsetOrdering(Nat)
    BY <2>1, <2>2 DEF StrictSubsetOrdering
  <2> QED
    BY <1>3, <1>4, <2>3
<1>6. \A y \in T : m <= y
  BY <1>4, <1>5
<1> QED
  BY <1>4, <1>6 DEF First

-----------------------------------------------------------------------------
\* What the fill writes.

\* The matches of a text, and which of them the judge is shown.
LEMMA Matches ==
  ASSUME NEW t \in Inputs
  PROVE  /\ \A i \in DOMAIN Results[t].countries : Results[t].countries[i] \in CountryMatch
         /\ \A i \in DOMAIN Results[t].towns : Results[t].towns[i] \in TownMatch
         /\ Places(t) \subseteq DOMAIN Results[t].countries /\ Places(t) \subseteq Nat
         /\ Settlements(t) \subseteq DOMAIN Results[t].towns /\ Settlements(t) \subseteq Nat
<1>1. Results[t].countries \in Seq(CountryMatch) /\ Results[t].towns \in Seq(TownMatch)
  BY CacheFillAssumption
<1> QED
  BY <1>1 DEF Places, Settlements

LEMMA KeyOfInput == \A t \in Inputs : Normalized[t] \in Keys
BY CacheFillAssumption

LEMMA PipelineAnswer ==
  ASSUME NEW t \in Inputs
  PROVE  FromResult(t) \in Address
<1>1. NoPlace \in CountryCodes \cup {NoPlace} /\ NoPlace \in TownNames \cup {NoPlace} /\ 0 \in Scores
  BY CacheFillAssumption DEF Scores
<1>2. Places(t) # {} => BestCountry(t) \in CountryMatch
  BY Matches, LeastNatural DEF BestCountry
<1>3. Settlements(t) # {} => BestTown(t) \in TownMatch
  BY Matches, LeastNatural DEF BestTown
<1> QED
  BY <1>1, <1>2, <1>3
     DEF FromResult, Address, CountryMatch, TownMatch, Sources, CRFPipeline

\* What a valid decision leads to was among the text's matches.
LEMMA JudgedAnswer ==
  ASSUME NEW t \in Inputs, NEW d \in Decision, ValidDecision(t, d)
  PROVE  /\ ApplyDecision(t, d) \in Address
         /\ \E i \in DOMAIN Results[t].countries :
              Results[t].countries[i] = [code |-> ApplyDecision(t, d).country,
                                         score |-> ApplyDecision(t, d).countryScore]
         /\ \E i \in DOMAIN Results[t].towns :
              Results[t].towns[i] = [name |-> ApplyDecision(t, d).town,
                                     code |-> ApplyDecision(t, d).country,
                                     score |-> ApplyDecision(t, d).townScore]
<1> DEFINE c == First(CountriesNamed(t, d))
           s == First(TownsNamed(t, d))
<1>1. /\ CountriesNamed(t, d) \in SUBSET Nat /\ CountriesNamed(t, d) # {}
      /\ TownsNamed(t, d) \in SUBSET Nat /\ TownsNamed(t, d) # {}
  BY Matches
     DEF CountriesNamed, TownsNamed, CountryCandidates, TownCandidates, Foremost, ValidDecision
<1>2. c \in CountriesNamed(t, d) /\ s \in TownsNamed(t, d)
  BY <1>1, LeastNatural
<1> HIDE DEF c, s
<1>3. /\ c \in DOMAIN Results[t].countries /\ Results[t].countries[c] \in CountryMatch
      /\ Results[t].countries[c].code = d.country
      /\ s \in DOMAIN Results[t].towns /\ Results[t].towns[s] \in TownMatch
      /\ Results[t].towns[s].name = d.town /\ Results[t].towns[s].code = d.country
  BY <1>2, Matches
     DEF CountriesNamed, TownsNamed, CountryCandidates, TownCandidates, Foremost, IsTownOfDecision
<1>4. ApplyDecision(t, d) = [author |-> LLMAssisted, country |-> d.country,
                             countryScore |-> Results[t].countries[c].score,
                             town |-> d.town, townScore |-> Results[t].towns[s].score]
  BY DEF ApplyDecision, c, s
<1>5. ApplyDecision(t, d) \in Address
  BY <1>3, <1>4 DEF Decision, Address, CountryMatch, TownMatch, Sources, LLMAssisted
<1>6. Results[t].countries[c] = [code |-> ApplyDecision(t, d).country,
                                 score |-> ApplyDecision(t, d).countryScore]
  BY <1>3, <1>4 DEF CountryMatch
<1>7. Results[t].towns[s] = [name |-> ApplyDecision(t, d).town,
                             code |-> ApplyDecision(t, d).country,
                             score |-> ApplyDecision(t, d).townScore]
  BY <1>3, <1>4 DEF TownMatch
<1> QED
  BY <1>3, <1>5, <1>6, <1>7

\* What is cached for an answer is an entry a cache accepts.
LEMMA EntryOfAnswer ==
  ASSUME NEW t \in Inputs, NEW a \in Address
  PROVE  /\ CacheEntry(t, a) \in Entry /\ Normalized[t] \in Keys
         /\ CacheEntry(t, a).source = a.author /\ CacheEntry(t, a).structured = a
BY CacheFillAssumption DEF CacheEntry, Entry, Row, Address

-----------------------------------------------------------------------------
\* The cache.

\* The store this module instantiates has the same rows, entries and merge.
LEMMA SameEntries == Store!Row = Row /\ Store!Entry = Entry
BY DEF Store!Row, Row, Store!Entry, Entry, Store!Sources, Sources,
       Store!HumanVerified, HumanVerified, Store!CRFPipeline, CRFPipeline,
       Store!LLMAssisted, LLMAssisted, Store!SonnetSeed, SonnetSeed

LEMMA SameMerge ==
  ASSUME NEW existing, NEW e
  PROVE  Store!MergeWrite(existing, e) = MergeWrite(existing, e)
BY DEF Store!MergeWrite, MergeWrite, Store!HumanVerified, HumanVerified

\* A judged answer is backed by a text of its key.
Backed(k, a) ==
  \E t \in Inputs :
    /\ Normalized[t] = k
    /\ \E i \in DOMAIN Results[t].countries :
         Results[t].countries[i] = [code |-> a.country, score |-> a.countryScore]
    /\ \E i \in DOMAIN Results[t].towns :
         Results[t].towns[i] = [name |-> a.town, code |-> a.country, score |-> a.townScore]

\* An upsert leaves a row, takes none away, and keeps judged rows backed if the
\* entry is.
LEMMA UpsertKeeps ==
  ASSUME Store!TypeOK, JudgedRowsBacked, NEW k \in Keys, NEW e \in Entry, Store!Upsert(k, e),
         e.source = LLMAssisted => Backed(k, e.structured)
  PROVE  /\ (Store!TypeOK)' /\ JudgedRowsBacked'
         /\ rows'[k] # NoRow
         /\ \A j \in Keys : rows[j] # NoRow => rows'[j] # NoRow
<1> USE CacheEntriesAssumption, SameEntries DEF Store!TypeOK
<1> DEFINE new == MergeWrite(rows[k], e)
<1>1. rows[k] \in Row \cup {NoRow} /\ e \in Row
  BY DEF Entry
<1>2. new \in Row /\ new # NoRow
  BY <1>1, MergeWriteType
<1>3. rows' = [rows EXCEPT ![k] = new]
  BY SameMerge DEF Store!Upsert
<1>4. verified' = IF e.source = HumanVerified
                  THEN [verified EXCEPT ![k] = e.structured] ELSE verified
  BY DEF Store!Upsert, Store!RecordReview, Store!HumanVerified, HumanVerified
<1>5. new.source = LLMAssisted => Backed(k, new.structured)
  BY <1>1 DEF MergeWrite, HumanVerified, LLMAssisted, Row
<1>6. e.structured \in Answers
  BY <1>1 DEF Row
<1> HIDE DEF new
<1>7. (Store!TypeOK)'
  BY <1>2, <1>3, <1>4, <1>6
<1>8. rows'[k] = new /\ \A j \in Keys \ {k} : rows'[j] = rows[j]
  BY <1>3
<1>9. JudgedRowsBacked <=> \A j \in Keys : rows[j] # NoRow /\ rows[j].source = LLMAssisted
                                             => Backed(j, rows[j].structured)
  BY DEF JudgedRowsBacked, Backed
<1>10. JudgedRowsBacked' <=> \A j \in Keys : rows'[j] # NoRow /\ rows'[j].source = LLMAssisted
                                               => Backed(j, rows'[j].structured)
  BY DEF JudgedRowsBacked, Backed
<1>11. JudgedRowsBacked'
  BY <1>5, <1>8, <1>9, <1>10
<1> QED
  BY <1>2, <1>7, <1>8, <1>11

-----------------------------------------------------------------------------
\* What the types say of the numbers.
LEMMA Numbers ==
  ASSUME TypeOK
  PROVE  /\ samples \in Seq(Inputs) /\ Len(samples) \in Nat /\ DOMAIN samples = 1..Len(samples)
         /\ next \in 1..Len(samples) + 1 /\ next \in Nat
         /\ batch.first \in Nat /\ batch.last \in 0..Len(samples) /\ batch.last \in Nat
         /\ batch = [first |-> batch.first, last |-> batch.last]
         /\ pos \in Nat /\ BatchSize \in Nat \ {0} /\ MaxFailures \in Nat /\ MaxRuns \in Nat
         /\ total \in Counts /\ part \in Counts /\ file \in ReviewFile
         /\ options \in Options
         /\ Len(file.rows) \in Nat /\ failures \in Nat /\ runs \in Nat
BY CacheFillAssumption DEF TypeOK, ReviewFile

LEMMA NoCountsType == NoCounts \in Counts
BY DEF NoCounts, Counts

\* A run that has ended, or is about to, owes nothing.
LEMMA NotWorking ==
  ASSUME TypeOK', JudgedRowsBacked', phase' \in {"abort", "failed", "dead"}
  PROVE  IInv'
BY DEF IInv, Position, Added, Exported, Kept, Working

\* Calls that fail before or between the rows, and the death of the process.
LEMMA EndsEarly ==
  ASSUME IInv,
         StartError \/ SourceError \/ PipelineRefuses \/ PipelineError \/ JudgeError
           \/ CloseAfterFailure \/ EndError \/ Die
  PROVE  IInv'
<1>1. /\ UNCHANGED <<options, samples, cacheVars, next, batch, pos, part, total, runs>>
      /\ phase' \in {"abort", "failed", "dead"}
      /\ failures' = failures \/ (failures < MaxFailures /\ failures' = failures + 1)
      /\ file' \in {file, ClosedFile, [NewFile EXCEPT !.torn = TRUE]}
  BY DEF StartError, SourceError, PipelineRefuses, PipelineError, JudgeError, CloseAfterFailure,
         EndRun, EndError, Die, Fail
<1>2. failures' \in 0..MaxFailures
  BY <1>1, Numbers DEF IInv, TypeOK
<1>3. file' \in ReviewFile
  <2>1. <<>> \in Seq(Nat)
    OBVIOUS
  <2>2. [NewFile EXCEPT !.torn = TRUE] \in ReviewFile
    BY <2>1 DEF NewFile, NoFile, ReviewFile
  <2>3. file \in ReviewFile /\ ClosedFile \in ReviewFile
    BY DEF IInv, TypeOK, ReviewFile, ClosedFile
  <2> QED
    BY <1>1, <2>2, <2>3
<1>4. TypeOK'
  BY <1>1, <1>2, <1>3 DEF IInv, TypeOK, cacheVars, Store!TypeOK, Running, Ended
<1>5. JudgedRowsBacked'
  BY <1>1 DEF IInv, JudgedRowsBacked, cacheVars
<1> QED
  BY <1>1, <1>4, <1>5, NotWorking

\* Steps of the run that touch neither cache nor failures.
LEMMA StartStep ==
  ASSUME IInv, Start
  PROVE  IInv'
<1>1. /\ UNCHANGED <<options, samples, cacheVars, next, batch, pos, part, total, failures, runs>>
      /\ phase = "start" /\ phase' = "fetch"
      /\ options.reviewPath =>
           file' = [exists |-> TRUE, rows |-> <<>>, closed |-> FALSE, torn |-> FALSE]
      /\ ~options.reviewPath => file' = file
  BY DEF Start, NewFile, NoFile
<1>2. next = 1 /\ next' = 1 /\ part' = NoCounts /\ total' = NoCounts
  BY <1>1 DEF IInv, Position, Working
<1>3. file' \in ReviewFile
  <2>1. CASE options.reviewPath
    <3>1. [exists |-> TRUE, rows |-> <<>>, closed |-> FALSE, torn |-> FALSE] \in ReviewFile
      BY DEF ReviewFile
    <3> QED
      BY <1>1, <2>1, <3>1
  <2>2. CASE ~options.reviewPath
    BY <1>1, <2>2 DEF IInv, TypeOK
  <2> QED
    BY <2>1, <2>2
<1>4. TypeOK'
  BY <1>1, <1>3 DEF IInv, TypeOK, cacheVars, Store!TypeOK, Running
<1>5. JudgedRowsBacked'
  BY <1>1 DEF IInv, JudgedRowsBacked, cacheVars
<1>6. Position'
  BY <1>1, <1>2 DEF Position, Working
<1>7. Handled' = 0
  BY <1>1, <1>2 DEF Handled
<1>8. Added'
  BY <1>1, <1>2, <1>7 DEF Added, NoCounts
<1>9. Exported' /\ Kept'
  BY <1>1, <1>7 DEF Exported, Kept
<1> QED
  BY <1>4, <1>5, <1>6, <1>8, <1>9 DEF IInv

\* The operator starts over.
LEMMA RerunStep ==
  ASSUME IInv, Rerun
  PROVE  IInv'
<1>1. /\ UNCHANGED <<options, samples, cacheVars, file, failures>>
      /\ phase' = "start" /\ next' = 1 /\ pos' = 0 /\ batch' = [first |-> 1, last |-> 0]
      /\ part' = NoCounts /\ total' = NoCounts /\ runs' = runs + 1 /\ runs < MaxRuns
  BY DEF Rerun
<1>2. runs' \in 1..MaxRuns /\ next' \in 1..Len(samples') + 1 /\ pos' \in Nat
      /\ batch' \in [first: Nat, last: 0..Len(samples')]
  BY <1>1, Numbers DEF IInv, TypeOK
<1>3. TypeOK'
  BY <1>1, <1>2, NoCountsType DEF IInv, TypeOK, cacheVars, Store!TypeOK, Running
<1>4. JudgedRowsBacked'
  BY <1>1 DEF IInv, JudgedRowsBacked, cacheVars
<1>5. Position' /\ Added' /\ Exported' /\ Kept'
  BY <1>1 DEF Position, Added, Exported, Kept, Working
<1> QED
  BY <1>3, <1>4, <1>5 DEF IInv

\* A new batch, its results, and the end of the input: nothing is handled yet.
LEMMA BatchSteps ==
  ASSUME IInv, NextBatch \/ RunPipeline \/ Finish
  PROVE  IInv'
<1>1. UNCHANGED <<options, samples, cacheVars, total, failures, runs>>
  BY DEF NextBatch, RunPipeline, Finish, EndRun
<1> USE Numbers
<1>2. /\ TypeOK' /\ Position' /\ Handled' = Handled
      /\ phase \in Working /\ phase # "row" /\ phase' \in Working
      /\ part = NoCounts /\ part'.cached = 0 /\ part'.skipped = 0 /\ part'.review = 0
      /\ part'.processed = IF phase' = "row" THEN batch'.last - Handled ELSE 0
      /\ file'.rows = file.rows /\ file'.exists = file.exists /\ file'.torn = file.torn
      /\ phase' = "done" => file'.closed = file.exists
  <2>1. CASE NextBatch
    <3>1. /\ phase = "fetch" /\ batch' = [first |-> next, last |-> BatchEnd]
          /\ next' = BatchEnd + 1 /\ UNCHANGED <<pos, part, file>>
          /\ phase' = IF BatchEnd < next THEN "close" ELSE "pipeline"
      BY <2>1 DEF NextBatch
    <3>2. /\ BatchEnd \in 0..Len(samples) /\ BatchEnd >= next - 1
          /\ BatchEnd < next => BatchEnd = Len(samples)
      BY DEF IInv, BatchEnd
    <3>3. TypeOK'
      BY <1>1, <3>1, <3>2 DEF IInv, TypeOK, cacheVars, Store!TypeOK, Running
    <3>4. part = NoCounts
      BY <3>1 DEF IInv, Position, Working
    <3>5. Position'
      BY <1>1, <3>1, <3>2, <3>4 DEF IInv, Position, Working
    <3>6. Handled' = Handled
      BY <3>1, <3>2 DEF IInv, Handled
    <3> QED
      BY <3>1, <3>3, <3>4, <3>5, <3>6 DEF Working, NoCounts
  <2>2. CASE RunPipeline
    <3>1. /\ phase = "pipeline" /\ phase' = "row" /\ pos' = batch.first
          /\ part' = [NoCounts EXCEPT !.processed = batch.last - batch.first + 1]
          /\ UNCHANGED <<next, batch, file>>
      BY <2>2 DEF RunPipeline
    <3>2. batch.first \in 1..batch.last /\ next = batch.last + 1 /\ part = NoCounts
      BY <3>1 DEF IInv, Position, Working
    <3>3. batch.last - batch.first + 1 \in Nat
      BY <3>2 DEF IInv
    <3>4. part' = [processed |-> batch.last - batch.first + 1, cached |-> 0, review |-> 0,
                   skipped |-> 0] /\ part' \in Counts
      BY <3>1, <3>3 DEF NoCounts, Counts
    <3>5. TypeOK'
      BY <1>1, <3>1, <3>2, <3>4 DEF IInv, TypeOK, cacheVars, Store!TypeOK, Running
    <3>6. Position'
      BY <1>1, <3>1, <3>2 DEF IInv, Position, Working
    <3>7. Handled' = Handled /\ Handled = batch.first - 1
      BY <3>1, <3>2 DEF IInv, Handled
    <3>8. part'.processed = batch'.last - Handled
      BY <3>1, <3>2, <3>4, <3>7 DEF IInv
    <3> QED
      BY <3>1, <3>2, <3>4, <3>5, <3>6, <3>7, <3>8 DEF Working
  <2>3. CASE Finish
    <3>1. /\ phase = "close" /\ phase' = "done" /\ UNCHANGED <<next, batch, pos, part>>
          /\ file' = [file EXCEPT !.closed = file.exists]
      BY <2>3 DEF Finish, EndRun, ClosedFile
    <3>2. /\ file' \in ReviewFile /\ file'.rows = file.rows /\ file'.exists = file.exists
          /\ file'.torn = file.torn /\ file'.closed = file.exists
      BY <3>1 DEF IInv, ReviewFile
    <3>3. TypeOK'
      BY <1>1, <3>1, <3>2 DEF IInv, TypeOK, cacheVars, Store!TypeOK, Ended
    <3>4. part = NoCounts /\ next = Len(samples) + 1
      BY <3>1 DEF IInv, Position, Working
    <3>5. Position' /\ Handled' = Handled
      BY <1>1, <3>1, <3>4 DEF Position, Working, Handled
    <3> QED
      BY <3>1, <3>2, <3>3, <3>4, <3>5 DEF Working, NoCounts
  <2> QED
    BY <2>1, <2>2, <2>3
<1>3. /\ rows' = rows /\ options' = options /\ samples' = samples /\ total' = total
      /\ Whole' <=> Whole
  BY <1>1 DEF cacheVars, Whole
<1>4. /\ part.processed = 0 /\ part.cached = 0 /\ part.skipped = 0 /\ part.review = 0
      /\ total.processed \in Nat /\ total.cached \in Nat /\ total.skipped \in Nat
      /\ total.review \in Nat /\ Handled \in Int /\ batch'.last \in Int
  <2>1. total \in Counts /\ part = NoCounts
    BY <1>2 DEF IInv
  <2>2. Handled \in Int
    BY DEF IInv, Handled
  <2>3. batch'.last \in Int
    BY <1>2 DEF TypeOK
  <2> QED
    BY <2>1, <2>2, <2>3 DEF NoCounts, Counts
<1>5. /\ total.processed = Handled
      /\ total.skipped = total.review
      /\ total.cached + total.skipped <= Handled
      /\ Whole => total.cached + total.skipped = Handled
      /\ options.reviewPath => total.review = Len(file.rows)
  <2>1. /\ total.processed + part.processed = Handled
        /\ total.skipped = total.review
        /\ (total.cached + part.cached) + (total.skipped + part.skipped) <= Handled
        /\ Whole => (total.cached + part.cached) + (total.skipped + part.skipped) = Handled
        /\ options.reviewPath => total.review + part.review = Len(file.rows)
    BY <1>2 DEF IInv, Added
  <2>2. /\ total.processed + 0 = total.processed /\ total.cached + 0 = total.cached
        /\ total.skipped + 0 = total.skipped /\ total.review + 0 = total.review
    BY <1>4
  <2> QED
    BY <1>4, <2>1, <2>2
<1>6. Added'
  BY <1>2, <1>3, <1>4, <1>5 DEF Added
<1>7. Exported'
  BY <1>2, <1>3 DEF IInv, Exported
<1>8. Kept'
  BY <1>2, <1>3 DEF IInv, Kept
<1>9. JudgedRowsBacked'
  BY <1>3 DEF IInv, JudgedRowsBacked
<1> QED
  BY <1>2, <1>6, <1>7, <1>8, <1>9 DEF IInv
-----------------------------------------------------------------------------
LEMMA PlusNatural ==
  ASSUME NEW x \in Nat, NEW y \in Nat
  PROVE  x + y \in Nat /\ x + 0 = x /\ 0 + x = x
OBVIOUS

LEMMA TwoCountsChanged ==
  ASSUME NEW p \in Counts, NEW x \in Nat, NEW y \in Nat
  PROVE  [p EXCEPT !.skipped = x, !.review = y]
           = [processed |-> p.processed, cached |-> p.cached, review |-> y, skipped |-> x]
<1> DEFINE q == [p EXCEPT !.skipped = x]
<1>1. q = [processed |-> p.processed, cached |-> p.cached, review |-> p.review, skipped |-> x]
  BY DEF Counts
<1>2. [p EXCEPT !.skipped = x, !.review = y] = [q EXCEPT !.review = y]
  OBVIOUS
<1> HIDE DEF q
<1>3. [q EXCEPT !.review = y]
        = [processed |-> p.processed, cached |-> p.cached, review |-> y, skipped |-> x]
  BY <1>1
<1> QED
  BY <1>2, <1>3

LEMMA PlusPlus ==
  ASSUME NEW x \in Nat, NEW y \in Nat, NEW z \in Nat
  PROVE  x + (y + z) = x + y + z
OBVIOUS

\* The counts of a batch once one more row is in them.
Counted(c, e) == [processed |-> part.processed, cached |-> part.cached + c,
                  review |-> part.review + e, skipped |-> part.skipped + e]

\* Whether or not the batch ends with it, the row is added once to the sum of both
\* counts.
LEMMA RowCounted ==
  ASSUME part \in Counts, total \in Counts, NEW c \in Nat, NEW e \in Nat,
         NextRow(Counted(c, e))
  PROVE  /\ total' \in Counts /\ part' \in Counts
         /\ total'.processed + part'.processed = total.processed + part.processed
         /\ total'.cached + part'.cached = total.cached + part.cached + c
         /\ total'.skipped + part'.skipped = total.skipped + part.skipped + e
         /\ total'.review + part'.review = total.review + part.review + e
         /\ total.skipped = total.review /\ part.skipped = part.review =>
              total'.skipped = total'.review /\ part'.skipped = part'.review
<1> DEFINE counts == Counted(c, e)
<1>1. /\ part.processed \in Nat /\ part.cached \in Nat /\ part.review \in Nat
      /\ part.skipped \in Nat /\ total.processed \in Nat /\ total.cached \in Nat
      /\ total.review \in Nat /\ total.skipped \in Nat
      /\ DOMAIN total = {"processed", "cached", "review", "skipped"}
  BY DEF Counts
<1>2. /\ counts.processed = part.processed /\ counts.cached = part.cached + c
      /\ counts.review = part.review + e /\ counts.skipped = part.skipped + e
      /\ DOMAIN counts = {"processed", "cached", "review", "skipped"}
  BY DEF Counted
<1>3. /\ part.cached + c \in Nat /\ part.review + e \in Nat /\ part.skipped + e \in Nat
  BY <1>1, PlusNatural
<1>4. counts \in Counts
  BY <1>1, <1>3 DEF Counts, Counted
<1>5. NextRow(counts)
  OBVIOUS
<1> HIDE DEF counts
<1>6. /\ total.cached + counts.cached = total.cached + part.cached + c
      /\ total.skipped + counts.skipped = total.skipped + part.skipped + e
      /\ total.review + counts.review = total.review + part.review + e
  BY <1>1, <1>2, PlusPlus
<1>7. total.skipped = total.review /\ part.skipped = part.review =>
        counts.skipped = counts.review
  BY <1>2
<1>8. CASE RowsLeft
  <2>1. part' = counts /\ total' = total
    BY <1>5, <1>8 DEF NextRow
  <2> QED
    BY <1>2, <1>4, <1>6, <1>7, <2>1
<1>9. CASE ~RowsLeft
  <2>1. part' = NoCounts /\ total' = MergedCounts(counts)
    BY <1>5, <1>9 DEF NextRow
  <2>2. total' = [f \in {"processed", "cached", "review", "skipped"} |-> total[f] + counts[f]]
    BY <1>1, <2>1 DEF MergedCounts, AddCounts
  <2>3. /\ total'.processed = total.processed + counts.processed
        /\ total'.cached = total.cached + counts.cached
        /\ total'.review = total.review + counts.review
        /\ total'.skipped = total.skipped + counts.skipped
    BY <2>2
  <2>4. /\ total.processed + counts.processed \in Nat /\ total.cached + counts.cached \in Nat
        /\ total.review + counts.review \in Nat /\ total.skipped + counts.skipped \in Nat
    BY <1>1, <1>2, <1>3, PlusNatural
  <2>5. total' = [processed |-> total.processed + counts.processed,
                  cached |-> total.cached + counts.cached,
                  review |-> total.review + counts.review,
                  skipped |-> total.skipped + counts.skipped]
    BY <2>2
  <2>6. total' \in Counts
    BY <2>4, <2>5 DEF Counts
  <2>7. part' \in Counts /\ part'.processed = 0 /\ part'.cached = 0 /\ part'.review = 0
        /\ part'.skipped = 0
    BY <2>1, NoCountsType DEF NoCounts
  <2>8. /\ total'.processed + 0 = total.processed + counts.processed
        /\ total'.cached + 0 = total.cached + counts.cached
        /\ total'.review + 0 = total.review + counts.review
        /\ total'.skipped + 0 = total.skipped + counts.skipped
    BY <2>3, <2>4, PlusNatural
  <2>9. total.skipped = total.review /\ part.skipped = part.review =>
          total'.skipped = total'.review /\ part'.skipped = part'.review
    BY <1>7, <2>3, <2>7
  <2> QED
    BY <1>2, <1>6, <2>6, <2>7, <2>8, <2>9
<1> QED
  BY <1>8, <1>9

\* A row was handled: it was cached, exported or kept out on purpose.
LEMMA RowHandled ==
  ASSUME IInv, phase = "row", NEW c \in {0, 1}, NEW e \in {0, 1}, c + e <= 1,
         Whole => c + e = 1,
         NextRow(Counted(c, e)),
         UNCHANGED <<options, samples, outside, next, batch, failures, runs>>,
         (Store!TypeOK)', JudgedRowsBacked',
         \A k \in Keys : rows[k] # NoRow => rows'[k] # NoRow,
         c = 1 => rows'[Normalized[samples[pos]]] # NoRow,
         e = 0 => file' = file,
         e = 1 => /\ options.reviewPath
                  /\ file' = [file EXCEPT !.rows = Append(file.rows, pos)]
  PROVE  IInv'
<1>1. /\ samples \in Seq(Inputs) /\ Len(samples) \in Nat
      /\ next \in Nat /\ next = batch.last + 1 /\ batch.last \in 0..Len(samples)
      /\ batch.first \in Nat /\ batch.last \in Nat
      /\ pos \in batch.first..batch.last /\ pos \in 1..Len(samples)
      /\ total \in Counts /\ part \in Counts /\ file \in ReviewFile /\ Len(file.rows) \in Nat
      /\ c \in Nat /\ e \in Nat
  BY Numbers DEF IInv, Position
<1>2. /\ total' \in Counts /\ part' \in Counts
      /\ total'.processed + part'.processed = total.processed + part.processed
      /\ total'.cached + part'.cached = total.cached + part.cached + c
      /\ total'.skipped + part'.skipped = total.skipped + part.skipped + e
      /\ total'.review + part'.review = total.review + part.review + e
      /\ total.skipped = total.review /\ part.skipped = part.review =>
           total'.skipped = total'.review /\ part'.skipped = part'.review
  BY <1>1, RowCounted
<1>3. /\ total.cached \in Nat /\ part.cached \in Nat /\ total.skipped \in Nat
      /\ part.skipped \in Nat /\ total.review \in Nat /\ part.review \in Nat
      /\ total'.cached \in Nat /\ part'.cached \in Nat /\ total'.skipped \in Nat
      /\ part'.skipped \in Nat
  BY <1>1, <1>2 DEF Counts
<1>4. \/ pos < batch.last /\ pos' = pos + 1 /\ phase' = "row"
      \/ ~(pos < batch.last) /\ pos' = pos /\ phase' = "fetch" /\ part' = NoCounts
  BY DEF NextRow, RowsLeft
<1>5. /\ pos' \in Nat /\ Handled' = pos
      /\ \/ phase' = "row" /\ pos' \in batch.first..batch.last
         \/ phase' = "fetch" /\ pos = batch.last /\ part' = NoCounts
  BY <1>1, <1>4 DEF Handled
<1>6. /\ file' \in ReviewFile /\ file'.exists = file.exists /\ file'.torn = file.torn
      /\ file'.closed = file.closed
      /\ Len(file'.rows) = Len(file.rows) + e
      /\ DOMAIN file.rows = 1..Len(file.rows) /\ DOMAIN file'.rows = 1..(Len(file.rows) + e)
      /\ \A j \in DOMAIN file.rows : file'.rows[j] = file.rows[j]
      /\ e = 1 => file'.rows[Len(file.rows) + 1] = pos
  <2>1. CASE e = 0
    BY <1>1, <2>1 DEF ReviewFile
  <2>2. CASE e = 1
    <3>1. file' = [file EXCEPT !.rows = Append(file.rows, pos)] /\ file.rows \in Seq(Nat) /\ pos \in Nat
      BY <1>1, <2>2 DEF ReviewFile
    <3>2. Append(file.rows, pos) \in Seq(Nat)
      BY <3>1
    <3>3. file'.rows = Append(file.rows, pos) /\ file' \in ReviewFile /\ file'.exists = file.exists
          /\ file'.torn = file.torn /\ file'.closed = file.closed
      BY <1>1, <3>1, <3>2 DEF ReviewFile
    <3> QED
      BY <2>2, <3>1, <3>3
  <2> QED
    BY <2>1, <2>2
<1>7. Handled = pos - 1 /\ phase \in Working /\ phase' \in Working /\ phase' # "done"
      /\ (Whole' <=> Whole) /\ options' = options
  BY <1>5 DEF Handled, Working, Whole
<1>8. TypeOK'
  BY <1>2, <1>5, <1>6 DEF IInv, TypeOK, Running
<1>9. Position'
  BY <1>1, <1>5 DEF IInv, Position, Working
<1>10. Added'
  <2>1. /\ total.processed + part.processed = batch.last
        /\ total.skipped = total.review /\ part.skipped = part.review
        /\ (total.cached + part.cached) + (total.skipped + part.skipped) <= pos - 1
        /\ Whole => (total.cached + part.cached) + (total.skipped + part.skipped) = pos - 1
        /\ options.reviewPath => total.review + part.review = Len(file.rows)
    BY <1>7 DEF IInv, Added
  <2>2. total'.processed + part'.processed = IF phase' = "row" THEN batch'.last ELSE Handled'
    BY <1>2, <1>5, <2>1
  <2>3. total'.skipped = total'.review /\ part'.skipped = part'.review
    BY <1>2, <2>1
  <2>4. /\ (total'.cached + part'.cached) + (total'.skipped + part'.skipped) <= pos
        /\ Whole => (total'.cached + part'.cached) + (total'.skipped + part'.skipped) = pos
    <3> DEFINE sumC == total.cached + part.cached
               sumS == total.skipped + part.skipped
    <3>1. sumC \in Nat /\ sumS \in Nat
      BY <1>3, PlusNatural
    <3>2. sumC + sumS <= pos - 1 /\ (Whole => sumC + sumS = pos - 1)
      BY <2>1
    <3>3. /\ total'.cached + part'.cached = sumC + c
          /\ total'.skipped + part'.skipped = sumS + e
      BY <1>2
    <3> HIDE DEF sumC, sumS
    <3>4. pos \in Nat /\ c \in Nat /\ e \in Nat /\ c + e <= 1 /\ (Whole => c + e = 1)
      BY <1>1
    <3>5. (sumC + c) + (sumS + e) <= pos /\ (Whole => (sumC + c) + (sumS + e) = pos)
      BY <3>1, <3>2, <3>4
    <3> QED
      BY <3>3, <3>5
  <2>5. options.reviewPath => total'.review + part'.review = Len(file'.rows)
    <3>1. Len(file'.rows) = Len(file.rows) + e
      BY <1>6
    <3> QED
      BY <1>2, <2>1, <3>1
  <2> QED
    BY <1>5, <1>7, <2>2, <2>3, <2>4, <2>5 DEF Added
<1>11. Exported'
  <2> SUFFICES ASSUME options.reviewPath
               PROVE  /\ file'.exists /\ ~file'.torn
                      /\ \A j \in DOMAIN file'.rows : file'.rows[j] \in 1..pos
                      /\ \A i, j \in DOMAIN file'.rows : i < j => file'.rows[i] < file'.rows[j]
    BY <1>5, <1>7 DEF Exported
  <2>1. /\ file.exists /\ ~file.torn
        /\ \A j \in DOMAIN file.rows : file.rows[j] \in 1..(pos - 1)
        /\ \A i, j \in DOMAIN file.rows : i < j => file.rows[i] < file.rows[j]
    BY <1>7 DEF IInv, Exported
  <2>2. \A j \in DOMAIN file'.rows :
          \/ j \in DOMAIN file.rows /\ file'.rows[j] = file.rows[j]
          \/ j = Len(file.rows) + 1 /\ file'.rows[j] = pos
    BY <1>1, <1>6
  <2>3. \A j \in DOMAIN file'.rows : file'.rows[j] \in 1..pos
    BY <1>1, <2>1, <2>2
  <2>4. \A i, j \in DOMAIN file'.rows : i < j => file'.rows[i] < file'.rows[j]
    <3> SUFFICES ASSUME NEW i \in DOMAIN file'.rows, NEW j \in DOMAIN file'.rows, i < j
                 PROVE  file'.rows[i] < file'.rows[j]
      OBVIOUS
    <3>1. i \in DOMAIN file.rows /\ file'.rows[i] = file.rows[i]
      BY <1>1, <1>6
    <3>2. CASE j \in DOMAIN file.rows
      BY <1>6, <2>1, <3>1, <3>2
    <3>3. CASE j \notin DOMAIN file.rows
      BY <1>1, <2>1, <2>2, <3>1, <3>3
    <3> QED
      BY <3>2, <3>3
  <2> QED
    BY <1>6, <2>1, <2>3, <2>4
<1>12. Kept'
  <2> SUFFICES ASSUME Whole, NEW i \in 1..pos
               PROVE  \/ rows'[Normalized[samples[i]]] # NoRow
                      \/ \E j \in DOMAIN file'.rows : file'.rows[j] = i
    BY <1>5, <1>7 DEF Kept
  <2>1. Normalized[samples[i]] \in Keys
    <3>1. samples[i] \in Inputs
      BY <1>1
    <3> QED
      BY <3>1, KeyOfInput
  <2>2. CASE i = pos
    <3>1. CASE c = 1
      BY <2>2, <3>1
    <3>2. CASE e = 1
      <4>1. Len(file.rows) + 1 \in DOMAIN file'.rows /\ file'.rows[Len(file.rows) + 1] = pos
        BY <1>1, <1>6, <3>2
      <4> QED
        BY <2>2, <4>1
    <3> QED
      BY <3>1, <3>2
  <2>3. CASE i # pos
    <3>1. i \in 1..(pos - 1)
      BY <1>1, <2>3
    <3>2. \/ rows[Normalized[samples[i]]] # NoRow
          \/ \E j \in DOMAIN file.rows : file.rows[j] = i
      BY <1>7, <3>1 DEF IInv, Kept
    <3>3. ASSUME NEW j \in DOMAIN file.rows, file.rows[j] = i
          PROVE  j \in DOMAIN file'.rows /\ file'.rows[j] = i
      BY <1>1, <1>6, <3>3
    <3> QED
      BY <2>1, <3>2, <3>3
  <2> QED
    BY <2>2, <2>3
<1> QED
  BY <1>8, <1>9, <1>10, <1>11, <1>12 DEF IInv

\* The three ways writing an answer can end.
LEMMA CacheRowKeeps ==
  ASSUME IInv, phase = "row", NEW t \in Inputs, t = samples[pos], NEW a \in Address,
         a.author = LLMAssisted => Backed(Normalized[t], a),
         CacheRow(t, a), UNCHANGED <<options, samples, outside, next, batch, file, runs>>
  PROVE  IInv'
<1>1. /\ CacheEntry(t, a) \in Entry /\ Normalized[t] \in Keys
      /\ CacheEntry(t, a).source = LLMAssisted => Backed(Normalized[t], CacheEntry(t, a).structured)
  BY EntryOfAnswer
<1>2. part \in Counts /\ part = [processed |-> part.processed, cached |-> part.cached,
                                 review |-> part.review, skipped |-> part.skipped]
      /\ part.processed \in Nat /\ part.cached \in Nat /\ part.review \in Nat /\ part.skipped \in Nat
  BY DEF IInv, TypeOK, Counts
<1>3. CASE /\ Store!Upsert(Normalized[t], CacheEntry(t, a))
           /\ NextRow([part EXCEPT !.cached = part.cached + 1])
           /\ UNCHANGED failures
  <2>1. [part EXCEPT !.cached = part.cached + 1]
          = Counted(1, 0)
    BY <1>2, PlusNatural DEF Counted
  <2>2. /\ (Store!TypeOK)' /\ JudgedRowsBacked' /\ rows'[Normalized[t]] # NoRow
        /\ \A k \in Keys : rows[k] # NoRow => rows'[k] # NoRow
    BY <1>1, <1>3, UpsertKeeps DEF IInv, TypeOK
  <2>3. 1 \in {0, 1} /\ 0 \in {0, 1} /\ 1 + 0 <= 1 /\ 1 + 0 = 1
    OBVIOUS
  <2> QED
    BY <1>3, <2>1, <2>2, <2>3, RowHandled
<1>4. CASE /\ ~Cacheable(a) \/ options.dryRun
           /\ NextRow(part)
           /\ UNCHANGED <<rows, verified, failures>>
  <2>1. part = Counted(0, 0)
    BY <1>2, PlusNatural DEF Counted
  <2>2. /\ (Store!TypeOK)' /\ JudgedRowsBacked'
        /\ \A k \in Keys : rows[k] # NoRow => rows'[k] # NoRow
    BY <1>4 DEF IInv, TypeOK, Store!TypeOK, JudgedRowsBacked
  <2>3. ~Whole
    BY <1>4 DEF Whole, Cacheable
  <2>4. 0 \in {0, 1} /\ 0 + 0 <= 1
    OBVIOUS
  <2> QED
    BY <1>4, <2>1, <2>2, <2>3, <2>4, RowHandled
<1>5. CASE /\ Fail
           /\ Store!Upsert(Normalized[t], CacheEntry(t, a)) \/ UNCHANGED <<rows, verified>>
           /\ UNCHANGED <<pos, part, total>>
  <2>1. (Store!TypeOK)' /\ JudgedRowsBacked'
    <3>1. CASE Store!Upsert(Normalized[t], CacheEntry(t, a))
      BY <1>1, <3>1, UpsertKeeps DEF IInv, TypeOK
    <3>2. CASE UNCHANGED <<rows, verified>>
      BY <3>2 DEF IInv, TypeOK, Store!TypeOK, JudgedRowsBacked
    <3> QED
      BY <1>5, <3>1, <3>2
  <2>2. phase' = "abort" /\ failures' \in 0..MaxFailures
    BY <1>5, Numbers DEF Fail, IInv, TypeOK
  <2>3. TypeOK'
    BY <1>5, <2>1, <2>2 DEF IInv, TypeOK, Running
  <2> QED
    BY <2>1, <2>2, <2>3, NotWorking
<1> QED
  BY <1>3, <1>4, <1>5 DEF CacheRow

\* The sample in hand is one of the inputs.
LEMMA SampleInHand ==
  ASSUME IInv, phase = "row"
  PROVE  samples[pos] \in Inputs
BY Numbers DEF IInv, Position

LEMMA HandleSteps ==
  ASSUME IInv, HandleConfident \/ HandleJudged \/ HandleUnresolved
  PROVE  IInv'
<1>1. CASE HandleConfident
  <2>1. FromResult(samples[pos]).author # LLMAssisted
    BY DEF FromResult, CRFPipeline, LLMAssisted
  <2> QED
    BY <1>1, <2>1, SampleInHand, PipelineAnswer, CacheRowKeeps DEF HandleConfident
<1>2. CASE HandleJudged
  <2>1. PICK d \in Decision : /\ ValidDecision(samples[pos], d)
                              /\ CacheRow(samples[pos], ApplyDecision(samples[pos], d))
    BY <1>2 DEF HandleJudged
  <2>2. phase = "row" /\ UNCHANGED <<options, samples, outside, next, batch, file, runs>>
    BY <1>2 DEF HandleJudged
  <2>3. /\ ApplyDecision(samples[pos], d) \in Address
        /\ Backed(Normalized[samples[pos]], ApplyDecision(samples[pos], d))
    BY <2>1, <2>2, SampleInHand, JudgedAnswer DEF Backed
  <2> QED
    BY <2>1, <2>2, <2>3, SampleInHand, CacheRowKeeps
<1>3. CASE HandleUnresolved
  <2>1. /\ phase = "row" /\ AddReviewRow
        /\ UNCHANGED <<options, samples, cacheVars, next, batch, runs>>
    BY <1>3 DEF HandleUnresolved
  <2>2. /\ (Store!TypeOK)' /\ JudgedRowsBacked' /\ rows' = rows /\ outside' = outside
    BY <2>1 DEF IInv, TypeOK, Store!TypeOK, JudgedRowsBacked, cacheVars
  <2>3. CASE /\ options.reviewPath
             /\ file' = [file EXCEPT !.rows = Append(file.rows, pos)]
             /\ NextRow([part EXCEPT !.skipped = part.skipped + 1, !.review = part.review + 1])
             /\ UNCHANGED failures
    <3>1. [part EXCEPT !.skipped = part.skipped + 1, !.review = part.review + 1]
            = Counted(0, 1)
      <4>1. /\ part \in Counts /\ part.cached \in Nat
            /\ part.skipped + 1 \in Nat /\ part.review + 1 \in Nat
        BY DEF IInv, TypeOK, Counts
      <4>2. [part EXCEPT !.skipped = part.skipped + 1, !.review = part.review + 1]
              = [processed |-> part.processed, cached |-> part.cached,
                 review |-> part.review + 1, skipped |-> part.skipped + 1]
        BY <4>1, TwoCountsChanged
      <4>3. part.cached + 0 = part.cached
        BY <4>1, PlusNatural
      <4> QED
        BY <4>2, <4>3 DEF Counted
    <3>2. 0 \in {0, 1} /\ 1 \in {0, 1} /\ 0 + 1 <= 1 /\ 0 + 1 = 1
      OBVIOUS
    <3> QED
      BY <2>1, <2>2, <2>3, <3>1, <3>2, RowHandled
  <2>4. CASE /\ options.reviewPath /\ failures < MaxFailures
             /\ file' \in {file, [file EXCEPT !.torn = TRUE]}
             /\ AfterReviewError
    <3>1. /\ phase' = "abort" /\ failures' = failures + 1 /\ UNCHANGED <<pos, part, total>>
      BY <2>4 DEF AfterReviewError, Fail
    <3>2. failures' \in 0..MaxFailures
      BY <2>4, <3>1, Numbers DEF IInv, TypeOK
    <3>3. file' \in ReviewFile
      BY <2>4 DEF IInv, TypeOK, ReviewFile
    <3>4. TypeOK'
      BY <2>1, <2>2, <3>1, <3>2, <3>3 DEF IInv, TypeOK, Running
    <3> QED
      BY <2>2, <3>1, <3>4, NotWorking
  <2>5. CASE phase' = "abort" /\ UNCHANGED <<file, failures, pos, part, total>>
    <3>1. TypeOK'
      BY <2>1, <2>2, <2>5 DEF IInv, TypeOK, Running
    <3> QED
      BY <2>2, <2>5, <3>1, NotWorking
  <2> QED
    BY <2>1, <2>3, <2>4, <2>5 DEF AddReviewRow
<1> QED
  BY <1>1, <1>2, <1>3

\* Others write meanwhile; no row goes away and no judged row comes in.
LEMMA OutsideStep ==
  ASSUME IInv, NEW w \in OutsideWrites, WriteFromOutside(w)
  PROVE  IInv'
<1>1. /\ Store!Upsert(w[1], w[2]) /\ outside' = outside \ {w}
      /\ UNCHANGED <<options, samples, phase, next, batch, pos, part, total, file, failures, runs>>
  BY DEF WriteFromOutside, runVars
<1>2. w[1] \in Keys /\ w[2] \in Entry /\ w[2].source # LLMAssisted
  BY CacheFillAssumption
<1>3. /\ (Store!TypeOK)' /\ JudgedRowsBacked'
      /\ \A k \in Keys : rows[k] # NoRow => rows'[k] # NoRow
  BY <1>1, <1>2, UpsertKeeps DEF IInv, TypeOK
<1>4. TypeOK'
  BY <1>1, <1>3 DEF IInv, TypeOK
<1>5. Handled' = Handled /\ (Whole' <=> Whole)
  BY <1>1 DEF Handled, Whole
<1>6. Position' /\ Added' /\ Exported'
  BY <1>1, <1>5 DEF IInv, Position, Added, Exported
<1>7. Kept'
  <2> SUFFICES ASSUME phase \in Working, Whole, NEW i \in 1..Handled
               PROVE  \/ rows'[Normalized[samples[i]]] # NoRow
                      \/ \E j \in DOMAIN file.rows : file.rows[j] = i
    BY <1>1, <1>5 DEF Kept
  <2>1. Handled <= Len(samples) /\ Handled \in Int
    <3>1. CASE phase = "row"
      BY <3>1, Numbers DEF IInv, Handled, Position
    <3>2. CASE phase = "pipeline"
      BY <3>2, Numbers DEF IInv, Handled, Position
    <3>3. CASE phase \notin {"row", "pipeline"}
      BY <3>3, Numbers DEF IInv, Handled
    <3> QED
      BY <3>1, <3>2, <3>3
  <2>2. i \in DOMAIN samples
    BY <2>1, Numbers DEF IInv
  <2>3. Normalized[samples[i]] \in Keys
    <3>1. samples[i] \in Inputs
      BY <2>2, Numbers DEF IInv
    <3> QED
      BY <3>1, KeyOfInput
  <2> QED
    BY <1>3, <2>3 DEF IInv, Kept
<1> QED
  BY <1>3, <1>4, <1>6, <1>7 DEF IInv

-----------------------------------------------------------------------------
LEMMA Initially ==
  ASSUME Init
  PROVE  IInv
<1>1. Store!TypeOK
  BY DEF Init, Store!Init, Store!TypeOK
<1>2. samples \in Seq(Inputs) /\ Len(samples) \in Nat
  BY CacheFillAssumption DEF Init
<1>3. NoFile \in ReviewFile
  BY DEF NoFile, ReviewFile
<1>4. 1 \in 1..MaxRuns
  BY CacheFillAssumption
<1>5. TypeOK
  BY <1>1, <1>2, <1>3, <1>4, NoCountsType, CacheFillAssumption DEF Init, TypeOK, Running
<1>6. Position /\ Added /\ Exported /\ Kept
  BY DEF Init, Position, Added, Exported, Kept, Working
<1>7. JudgedRowsBacked
  BY DEF Init, Store!Init, JudgedRowsBacked
<1> QED
  BY <1>5, <1>6, <1>7 DEF IInv

LEMMA Stuttering ==
  ASSUME IInv, UNCHANGED vars
  PROVE  IInv'
<1>1. UNCHANGED <<options, samples, rows, verified, outside, phase, next, batch, pos, part, total,
                  file, failures, runs>>
  BY DEF vars, cacheVars, runVars
<1>2. TypeOK' /\ Position' /\ JudgedRowsBacked'
  BY <1>1 DEF IInv, TypeOK, Store!TypeOK, Position, JudgedRowsBacked
<1>3. Handled' = Handled /\ (Whole' <=> Whole)
  BY <1>1 DEF Handled, Whole
<1>4. Added' /\ Exported' /\ Kept'
  BY <1>1, <1>3 DEF IInv, Added, Exported, Kept
<1> QED
  BY <1>2, <1>4 DEF IInv

LEMMA NextKeeps ==
  ASSUME IInv, [Next]_vars
  PROVE  IInv'
BY EndsEarly, StartStep, RerunStep, BatchSteps, HandleSteps, OutsideStep, Stuttering
   DEF Next, Step

\* The run's account of itself is right in every reachable state.
THEOREM Invariance == Spec => []IInv
<1>1. Init => IInv
  BY Initially
<1>2. IInv /\ [Next]_vars => IInv'
  BY NextKeeps
<1> QED
  BY <1>1, <1>2, PTL DEF Spec

\* The types hold: no index leaves the input and no count goes below zero.
THEOREM FillTypeCorrect == Spec => []TypeOK
<1>1. IInv => TypeOK
  BY DEF IInv
<1> QED
  BY <1>1, Invariance, PTL

\* After a full run every sample is in the cache or in the review file.
THEOREM NothingLostProved == Spec => []NothingLost
<1>1. ASSUME IInv, FullRun PROVE
        \A i \in DOMAIN samples :
          \/ rows[Normalized[samples[i]]] # NoRow
          \/ \E j \in DOMAIN file.rows : file.rows[j] = i
  <2>1. phase = "done" /\ Whole /\ Handled = Len(samples) /\ phase \in Working
    BY <1>1, Numbers DEF FullRun, Whole, Handled, IInv, Position, Working
  <2> QED
    BY <1>1, <2>1, Numbers DEF IInv, Kept
<1>2. IInv => NothingLost
  BY <1>1 DEF NothingLost
<1> QED
  BY <1>2, Invariance, PTL

\* The summary agrees with the input and with the review file.
THEOREM SummaryProved == Spec => []SummaryAddsUp
<1>1. ASSUME IInv, phase = "done" PROVE SummaryAddsUp
  <2>1. /\ part = NoCounts /\ Handled = Len(samples) /\ phase \in Working
        /\ (FullRun <=> Whole)
    BY <1>1, Numbers DEF FullRun, Whole, Handled, IInv, Position, Working
  <2>2. /\ total.processed \in Nat /\ total.cached \in Nat /\ total.review \in Nat
        /\ total.skipped \in Nat
        /\ part.processed = 0 /\ part.cached = 0 /\ part.review = 0 /\ part.skipped = 0
    BY <1>1, <2>1 DEF IInv, TypeOK, Counts, NoCounts
  <2>3. /\ total.processed + part.processed = Len(samples)
        /\ total.skipped = total.review
        /\ (total.cached + part.cached) + (total.skipped + part.skipped) <= Len(samples)
        /\ Whole => (total.cached + part.cached) + (total.skipped + part.skipped) = Len(samples)
        /\ options.reviewPath => total.review + part.review = Len(file.rows)
    BY <1>1, <2>1 DEF IInv, Added
  <2>4. /\ total.processed = Len(samples) /\ total.cached + total.skipped <= total.processed
        /\ Whole => total.cached + total.skipped = total.processed
        /\ options.reviewPath => total.review = Len(file.rows)
    BY <2>2, <2>3
  <2> QED
    BY <2>1, <2>3, <2>4 DEF SummaryAddsUp
<1>2. IInv => SummaryAddsUp
  BY <1>1 DEF SummaryAddsUp
<1> QED
  BY <1>2, Invariance, PTL

\* A successful run leaves a whole review file.
THEOREM ReviewFileProved == Spec => []ReviewFileWhole
<1>1. IInv => ReviewFileWhole
  BY DEF IInv, Exported, Working, ReviewFileWhole
<1> QED
  BY <1>1, Invariance, PTL

\* Every judged row is backed by matches of a text of its key.
THEOREM JudgedRowsProved == Spec => []JudgedRowsBacked
<1>1. IInv => JudgedRowsBacked
  BY DEF IInv
<1> QED
  BY <1>1, Invariance, PTL

-----------------------------------------------------------------------------
\* The gates an entry of the fill itself has passed.
Gated(e) ==
  /\ e.source # HumanVerified /\ ~options.dryRun /\ Cacheable(e.structured)
  /\ e.source = CRFPipeline => Confident(e.structured, High)

LEMMA CacheRowWrites ==
  ASSUME NEW t \in Inputs, NEW a \in Address, a.author # HumanVerified,
         a.author = CRFPipeline => Confident(a, High), CacheRow(t, a)
  PROVE  \/ UNCHANGED <<rows, verified>>
         \/ \E k \in Keys, e \in Entry : Store!Upsert(k, e) /\ Gated(e)
<1>1. \/ UNCHANGED <<rows, verified>>
      \/ Cacheable(a) /\ ~options.dryRun /\ Store!Upsert(Normalized[t], CacheEntry(t, a))
  BY DEF CacheRow
<1>2. /\ CacheEntry(t, a) \in Entry /\ Normalized[t] \in Keys
      /\ CacheEntry(t, a).source = a.author /\ CacheEntry(t, a).structured = a
  BY EntryOfAnswer
<1> QED
  BY <1>1, <1>2 DEF Gated

\* Every write to the cache is an upsert of an entry, by the fill itself past its
\* gates or by others.
LEMMA CacheWrites ==
  ASSUME IInv, [Next]_vars
  PROVE  \/ UNCHANGED <<rows, verified>>
         \/ \E k \in Keys, e \in Entry : Store!Upsert(k, e) /\ (outside' # outside \/ Gated(e))
<1>1. CASE HandleConfident
  <2>1. /\ samples[pos] \in Inputs /\ Confident(FromResult(samples[pos]), High)
        /\ CacheRow(samples[pos], FromResult(samples[pos]))
    BY <1>1, SampleInHand DEF HandleConfident
  <2>2. FromResult(samples[pos]).author # HumanVerified
    BY DEF FromResult, CRFPipeline, HumanVerified
  <2> QED
    BY <2>1, <2>2, PipelineAnswer, CacheRowWrites
<1>2. CASE HandleJudged
  <2>1. PICK d \in Decision : /\ ValidDecision(samples[pos], d)
                              /\ CacheRow(samples[pos], ApplyDecision(samples[pos], d))
    BY <1>2 DEF HandleJudged
  <2>2. samples[pos] \in Inputs
    BY <1>2, SampleInHand DEF HandleJudged
  <2>3. ApplyDecision(samples[pos], d).author = LLMAssisted
    BY DEF ApplyDecision
  <2>4. /\ ApplyDecision(samples[pos], d).author # HumanVerified
        /\ ApplyDecision(samples[pos], d).author # CRFPipeline
    BY <2>3 DEF LLMAssisted, HumanVerified, CRFPipeline
  <2> QED
    BY <2>1, <2>2, <2>4, JudgedAnswer, CacheRowWrites
<1>3. ASSUME NEW w \in OutsideWrites, WriteFromOutside(w)
      PROVE  \E k \in Keys, e \in Entry : Store!Upsert(k, e) /\ outside' # outside
  <2>1. w \in outside /\ outside' = outside \ {w} /\ Store!Upsert(w[1], w[2])
    BY <1>3 DEF WriteFromOutside
  <2>2. w[1] \in Keys /\ w[2] \in Entry
    BY CacheFillAssumption
  <2> QED
    BY <2>1, <2>2
<1>4. CASE Start \/ StartError \/ NextBatch \/ SourceError \/ RunPipeline \/ PipelineRefuses
             \/ PipelineError \/ JudgeError \/ HandleUnresolved \/ Finish \/ CloseAfterFailure
             \/ EndError \/ Die \/ Rerun \/ UNCHANGED vars
  BY <1>4 DEF Start, StartError, NextBatch, SourceError, RunPipeline, PipelineRefuses,
              PipelineError, JudgeError, HandleUnresolved, Finish, CloseAfterFailure,
              EndRun, EndError, Die, Rerun, vars, cacheVars
<1> QED
  BY <1>1, <1>2, <1>3, <1>4 DEF Next, Step

\* The fill implements the store: through failing, dying and repeated runs the cache
\* changes only by upserts of entries labelled as their producer's.
THEOREM UsesCacheAsPromised == Spec => CacheUsedAsPromised
<1>1. Init => Store!Init
  BY DEF Init
<1>2. IInv /\ [Next]_vars => [Store!Next]_Store!vars
  <2> SUFFICES ASSUME IInv, [Next]_vars PROVE Store!Next \/ UNCHANGED Store!vars
    OBVIOUS
  <2> QED
    BY CacheWrites, SameEntries DEF Store!Next, Store!vars
<1> QED
  BY <1>1, <1>2, Invariance, PTL DEF Spec, CacheUsedAsPromised, Store!Spec

\* What one write of the fill leaves under a key.
LEMMA GatedWrite ==
  ASSUME IInv, NEW k \in Keys, NEW j \in Keys, NEW e \in Entry, Store!Upsert(j, e), Gated(e),
         rows'[k] # rows[k]
  PROVE  /\ ~options.dryRun
         /\ IF rows[k] # NoRow /\ rows[k].source = HumanVerified
            THEN rows'[k].structured = rows[k].structured
            ELSE /\ rows'[k].structured.author = CRFPipeline
                      => Confident(rows'[k].structured, High)
                 /\ options.floor > 0 => Confident(rows'[k].structured, options.floor)
<1>1. rows \in [Keys -> Row \cup {NoRow}]
  BY SameEntries DEF IInv, TypeOK, Store!TypeOK
<1>2. k = j /\ rows'[k] = MergeWrite(rows[k], e)
  BY <1>1, SameMerge DEF Store!Upsert
<1>3. e.source # HumanVerified /\ e.structured.author = e.source
  BY CacheFillAssumption DEF Gated, Entry, Row
<1>4. CASE rows[k] # NoRow /\ rows[k].source = HumanVerified
  <2>1. rows[k] \in Row
    BY <1>1, <1>4
  <2> QED
    BY <1>2, <1>3, <1>4, <2>1, MergeWriteProtects DEF Gated
<1>5. CASE ~(rows[k] # NoRow /\ rows[k].source = HumanVerified)
  <2>1. rows'[k] = e
    BY <1>2, <1>5 DEF MergeWrite
  <2>2. options.floor > 0 => Confident(e.structured, options.floor)
    BY CacheFillAssumption DEF Gated, Cacheable, IInv, TypeOK, Options, Scores
  <2> QED
    BY <1>3, <1>5, <2>1, <2>2 DEF Gated
<1> QED
  BY <1>4, <1>5

\* Nothing the fill writes by itself gets past its gates.
THEOREM GatesHold == Spec => FillWritesPassGates
<1> DEFINE Passed ==
      \A k \in Keys :
        rows'[k] # rows[k] /\ outside' = outside =>
          LET a == rows'[k].structured IN
          /\ ~options.dryRun
          /\ IF rows[k] # NoRow /\ rows[k].source = HumanVerified
             THEN a = rows[k].structured
             ELSE /\ a.author = CRFPipeline => Confident(a, High)
                  /\ options.floor > 0 => Confident(a, options.floor)
<1>1. ASSUME IInv, [Next]_vars PROVE Passed
  BY <1>1, CacheWrites, GatedWrite
<1>2. IInv /\ [Next]_vars => [Passed]_vars
  BY <1>1
<1> QED
  BY <1>2, Invariance, PTL DEF Spec, FillWritesPassGates
=============================================================================
