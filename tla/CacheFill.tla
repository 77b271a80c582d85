----------------------------- MODULE CacheFill -----------------------------
(***************************************************************************)
(* The offline cache fill (cmd/iso-cache-fill/main.go): it takes samples   *)
(* in batches, runs the pipeline over each batch, writes the confident     *)
(* answers to the cache, lets an LLM judge decide the others (internal/    *)
(* judge) and exports what stays unresolved to a review file.  A run may   *)
(* fail at any call, its process may die at any point, and the operator    *)
(* may run it again over the same input; reviewers and API processes write *)
(* the same cache meanwhile.                                               *)
(*                                                                         *)
(* SampleSource models where the samples come from; here they are a list.  *)
(* Left out: the fields of an address other than country and town, the     *)
(* reason given in a review row, and logging.                              *)
(***************************************************************************)
EXTENDS CacheEntries, Naturals, Sequences, FiniteSets

CONSTANTS
  Normalized,      \* Normalized[t]: the key of text t
  SampleLists,     \* the inputs a fill may be started on: lists of texts
  Refused,         \* the texts the pipeline returns an error for
  CountryCodes, TownNames,
  NoPlace,         \* a country or town that is missing, or "NO COUNTRY"/"NO TOWN"
  MaxScore,        \* scores are 0..MaxScore
  High,            \* the high-confidence threshold
  Results,         \* Results[t]: the pipeline's ranked country and town matches
  CandidateLimit,  \* how many of each the judge is shown
  BatchSize,
  OptionSets,      \* the flags a fill may be started with
  OutsideWrites,   \* writes of reviewers and API processes: <<key, entry>>
  MaxFailures,     \* bound: how many calls may fail
  MaxRuns          \* bound: how often the operator starts the fill

Scores == 0..MaxScore

\* A structured address, with the process it was made by.
Address == [author: Sources, country: CountryCodes \cup {NoPlace}, countryScore: Scores,
            town: TownNames \cup {NoPlace}, townScore: Scores]

CountryMatch == [code: CountryCodes \cup {NoPlace}, score: Scores]
TownMatch == [name: TownNames \cup {NoPlace}, code: CountryCodes, score: Scores]

Options == [dryRun: BOOLEAN, judge: BOOLEAN, reviewPath: BOOLEAN, floor: Scores]

ASSUME CacheFillAssumption ==
  /\ Answers = Address /\ \A a \in Answers : Author[a] = a.author
  /\ Normalized \in [Inputs -> Keys]
  /\ SampleLists \subseteq Seq(Inputs) /\ Refused \subseteq Inputs
  /\ NoPlace \notin CountryCodes \cup TownNames
  /\ MaxScore \in Nat /\ High \in Scores
  /\ Results \in [Inputs -> [countries: Seq(CountryMatch), towns: Seq(TownMatch)]]
  /\ CandidateLimit \in Nat \ {0} /\ BatchSize \in Nat \ {0}
  /\ OptionSets \subseteq Options
  /\ OutsideWrites \subseteq Keys \X Entry
  \* No other process asks the judge.
  /\ \A w \in OutsideWrites : w[2].source # LLMAssisted
  /\ MaxFailures \in Nat /\ MaxRuns \in Nat \ {0}

VARIABLES
  options, samples,  \* what the fill was started with
  rows, verified,    \* the cache, and the history of its reviews
  outside,           \* the outside writes still to come
  phase,             \* where the run is
  next,              \* the next sample the source will deliver
  batch,             \* the samples in hand: indices first..last of the list
  pos,               \* the sample being handled
  part, total,       \* the counts of the batch in hand, and of the batches before
  file,              \* the review file
  failures, runs     \* how many calls have failed, how many runs were started

cacheVars == <<rows, verified, outside>>
runVars == <<phase, next, batch, pos, part, total>>
vars == <<options, samples, cacheVars, runVars, file, failures, runs>>

Store == INSTANCE AddressCache

Running == {"start", "fetch", "pipeline", "row", "close", "abort"}
Ended == {"done", "failed", "dead"}

Counts == [processed: Nat, cached: Nat, review: Nat, skipped: Nat]
NoCounts == [processed |-> 0, cached |-> 0, review |-> 0, skipped |-> 0]

\* The review file: the samples exported so far, whether its JSON array has been
\* closed, and whether a write of it failed half-way.
ReviewFile == [exists: BOOLEAN, rows: Seq(Nat), closed: BOOLEAN, torn: BOOLEAN]
NoFile == [exists |-> FALSE, rows |-> <<>>, closed |-> FALSE, torn |-> FALSE]
NewFile == [NoFile EXCEPT !.exists = TRUE]

TypeOK ==
  /\ options \in OptionSets /\ samples \in SampleLists
  /\ Store!TypeOK /\ outside \subseteq OutsideWrites
  /\ phase \in Running \cup Ended
  /\ next \in 1..Len(samples) + 1
  /\ batch \in [first: Nat, last: 0..Len(samples)] /\ pos \in Nat
  /\ part \in Counts /\ total \in Counts
  /\ file \in ReviewFile
  /\ failures \in 0..MaxFailures /\ runs \in 1..MaxRuns

Init ==
  /\ options \in OptionSets /\ samples \in SampleLists
  /\ Store!Init /\ outside = OutsideWrites
  /\ phase = "start" /\ next = 1 /\ pos = 0
  /\ batch = [first |-> 1, last |-> 0]
  /\ part = NoCounts /\ total = NoCounts
  /\ file = NoFile
  /\ failures = 0 /\ runs = 1

-----------------------------------------------------------------------------
\* The pipeline's answer, and what the judge is asked about it.

\* The ranks of the matches that name a place.
Places(t) == {i \in DOMAIN Results[t].countries : Results[t].countries[i].code # NoPlace}
Settlements(t) == {i \in DOMAIN Results[t].towns : Results[t].towns[i].name # NoPlace}

First(ranks) == CHOOSE i \in ranks : \A j \in ranks : i <= j

Foremost(ranks) == {i \in ranks : Cardinality({j \in ranks : j < i}) < CandidateLimit}

BestCountry(t) == Results[t].countries[First(Places(t))]
BestTown(t) == Results[t].towns[First(Settlements(t))]

\* The best country and the best town, each on its own.
FromResult(t) ==
  [author |-> CRFPipeline,
   country |-> IF Places(t) = {} THEN NoPlace ELSE BestCountry(t).code,
   countryScore |-> IF Places(t) = {} THEN 0 ELSE BestCountry(t).score,
   town |-> IF Settlements(t) = {} THEN NoPlace ELSE BestTown(t).name,
   townScore |-> IF Settlements(t) = {} THEN 0 ELSE BestTown(t).score]

\* Both country and town known with at least this confidence.
Confident(a, threshold) ==
  /\ a.country # NoPlace /\ a.countryScore >= threshold
  /\ a.town # NoPlace /\ a.townScore >= threshold

\* Slip: the floor is held against the country alone.
CacheableByCountry(a) == options.floor = 0 \/ a.countryScore >= options.floor

Cacheable(a) == options.floor = 0 \/ Confident(a, options.floor)

CountryCandidates(t) == Foremost(Places(t))
TownCandidates(t) == Foremost(Settlements(t))

\* The judge may answer anything.
Decision == [resolved: BOOLEAN, country: CountryCodes \cup {NoPlace},
             town: TownNames \cup {NoPlace}]

\* Slip: a town is accepted whatever country it lies in.
IsTownOfDecisionByName(m, d) == m.name = d.town

IsTownOfDecision(m, d) == m.name = d.town /\ m.code = d.country

CountriesNamed(t, d) == {i \in CountryCandidates(t) : Results[t].countries[i].code = d.country}
TownsNamed(t, d) == {i \in TownCandidates(t) : IsTownOfDecision(Results[t].towns[i], d)}

ValidDecision(t, d) ==
  /\ d.resolved
  /\ d.country # NoPlace /\ d.town # NoPlace
  /\ CountriesNamed(t, d) # {}
  /\ TownsNamed(t, d) # {}

\* The decided places, with the scores of the first candidates that name them.
ApplyDecision(t, d) ==
  [author |-> LLMAssisted,
   country |-> d.country, countryScore |-> Results[t].countries[First(CountriesNamed(t, d))].score,
   town |-> d.town, townScore |-> Results[t].towns[First(TownsNamed(t, d))].score]

-----------------------------------------------------------------------------
\* A call of the run fails, and with it the run.
Fail ==
  /\ failures < MaxFailures
  /\ failures' = failures + 1
  /\ phase' = "abort"

\* Open the input, load resources, model, cache, embedder and judge, and only then
\* create the review file, emptying one that an earlier run has left.
Start ==
  /\ phase = "start"
  /\ phase' = "fetch"
  /\ file' = IF options.reviewPath THEN NewFile ELSE file
  /\ UNCHANGED <<options, samples, cacheVars, next, batch, pos, part, total, failures, runs>>

\* One of these cannot be opened, or the array not begun in the file just emptied.
StartError ==
  /\ phase = "start"
  /\ failures < MaxFailures
  /\ failures' = failures + 1
  /\ phase' = "failed"
  /\ \/ file' = file
     \/ options.reviewPath /\ file' = [NewFile EXCEPT !.torn = TRUE]
  /\ UNCHANGED <<options, samples, cacheVars, next, batch, pos, part, total, runs>>

\* Slip: the last batch is taken to be a full one.
BatchEndUnchecked == next + BatchSize - 1

BatchEnd ==
  IF next + BatchSize - 1 < Len(samples) THEN next + BatchSize - 1 ELSE Len(samples)

NextBatch ==
  /\ phase = "fetch"
  /\ batch' = [first |-> next, last |-> BatchEnd]
  /\ next' = BatchEnd + 1
  /\ phase' = IF BatchEnd < next THEN "close" ELSE "pipeline"
  /\ UNCHANGED <<options, samples, cacheVars, pos, part, total, file, failures, runs>>

SourceError ==
  /\ phase = "fetch" /\ Fail
  /\ UNCHANGED <<options, samples, cacheVars, next, batch, pos, part, total, file, runs>>

\* The pipeline answers the whole batch or none of it.
RefusesBatch == \E i \in batch.first..batch.last : samples[i] \in Refused

RunPipeline ==
  /\ phase = "pipeline" /\ ~RefusesBatch
  /\ phase' = "row" /\ pos' = batch.first
  /\ part' = [NoCounts EXCEPT !.processed = batch.last - batch.first + 1]
  /\ UNCHANGED <<options, samples, cacheVars, next, batch, total, file, failures, runs>>

\* Slip: the batch is tried again.
PipelineRefusesRetried ==
  /\ phase = "pipeline" /\ RefusesBatch
  /\ phase' = "fetch" /\ next' = batch.first
  /\ UNCHANGED <<options, samples, cacheVars, batch, pos, part, total, file, failures, runs>>

PipelineRefuses ==
  /\ phase = "pipeline" /\ RefusesBatch
  /\ phase' = "abort"
  /\ UNCHANGED <<options, samples, cacheVars, next, batch, pos, part, total, file, failures, runs>>

PipelineError ==
  /\ phase = "pipeline" /\ Fail
  /\ UNCHANGED <<options, samples, cacheVars, next, batch, pos, part, total, file, runs>>

-----------------------------------------------------------------------------
AddCounts(a, b) == [f \in DOMAIN a |-> a[f] + b[f]]

\* Slip: the second batch's counts replace the first one's.
MergedCountsReplaced(counts) == counts

MergedCounts(counts) == AddCounts(total, counts)

\* Slip: the loop stops one row short.
RowsLeftButOne == pos + 1 < batch.last

RowsLeft == pos < batch.last

\* The loop goes on to the next sample; after the last one the batch is added up.
NextRow(counts) ==
  IF RowsLeft
  THEN /\ pos' = pos + 1 /\ part' = counts
       /\ UNCHANGED <<phase, total>>
  ELSE /\ phase' = "fetch"
       /\ total' = MergedCounts(counts) /\ part' = NoCounts
       /\ UNCHANGED pos

\* Slip: whatever is cached is labelled as the pipeline's.
CacheEntryOfPipeline(t, a) == [input |-> t, source |-> CRFPipeline, structured |-> a]

CacheEntry(t, a) == [input |-> t, source |-> a.author, structured |-> a]

CacheRow(t, a) ==
  \/ /\ Cacheable(a) /\ ~options.dryRun
     /\ Store!Upsert(Normalized[t], CacheEntry(t, a))
     /\ NextRow([part EXCEPT !.cached = part.cached + 1])
     /\ UNCHANGED failures
  \* Below the floor, or a dry run: nothing is written and nothing is counted.
  \/ /\ ~Cacheable(a) \/ options.dryRun
     /\ NextRow(part)
     /\ UNCHANGED <<rows, verified, failures>>
  \* Embedding or upsert fails; the upsert may have been applied all the same.
  \/ /\ Cacheable(a) /\ ~options.dryRun
     /\ Fail
     /\ Store!Upsert(Normalized[t], CacheEntry(t, a)) \/ UNCHANGED <<rows, verified>>
     /\ UNCHANGED <<pos, part, total>>

\* Slip: the row was not written, but the run goes on.
AfterReviewErrorGoesOn == NextRow(part) /\ UNCHANGED failures

AfterReviewError == Fail /\ UNCHANGED <<pos, part, total>>

\* An unresolved row is appended to the file.  Without --review-path the writer
\* is a nil *reviewFileWriter inside a non-nil interface, and Add returns an error.
AddReviewRow ==
  \/ /\ options.reviewPath
     /\ file' = [file EXCEPT !.rows = Append(file.rows, pos)]
     /\ NextRow([part EXCEPT !.skipped = part.skipped + 1, !.review = part.review + 1])
     /\ UNCHANGED failures
  \/ /\ options.reviewPath
     /\ failures < MaxFailures
     /\ file' \in {file, [file EXCEPT !.torn = TRUE]}
     /\ AfterReviewError
  \/ /\ ~options.reviewPath
     /\ phase' = "abort"
     /\ UNCHANGED <<file, failures, pos, part, total>>

\* A confident answer goes to the cache as the pipeline's.
HandleConfident ==
  LET a == FromResult(samples[pos]) IN
  /\ phase = "row"
  /\ Confident(a, High)
  /\ CacheRow(samples[pos], a)
  /\ UNCHANGED <<options, samples, outside, next, batch, file, runs>>

\* A valid decision of the judge goes to the cache as the judge's.
HandleJudged ==
  LET t == samples[pos] IN
  /\ phase = "row" /\ options.judge
  /\ ~Confident(FromResult(t), High)
  /\ \E d \in Decision : ValidDecision(t, d) /\ CacheRow(t, ApplyDecision(t, d))
  /\ UNCHANGED <<options, samples, outside, next, batch, file, runs>>

JudgeError ==
  /\ phase = "row" /\ options.judge
  /\ ~Confident(FromResult(samples[pos]), High)
  /\ Fail
  /\ UNCHANGED <<options, samples, cacheVars, next, batch, pos, part, total, file, runs>>

\* Everything else is for a human: without a judge, or without a valid decision.
HandleUnresolved ==
  LET t == samples[pos] IN
  /\ phase = "row"
  /\ ~Confident(FromResult(t), High)
  /\ options.judge => \E d \in Decision : ~ValidDecision(t, d)
  /\ AddReviewRow
  /\ UNCHANGED <<options, samples, cacheVars, next, batch, runs>>

-----------------------------------------------------------------------------
\* reviewFileWriter.Close ends the JSON array; a nil writer has nothing to close.
ClosedFile == [file EXCEPT !.closed = file.exists]

\* The end of a run, however it closed the file.
EndRun(end, files) ==
  /\ phase' = end
  /\ file' \in files
  /\ UNCHANGED <<options, samples, cacheVars, next, batch, pos, part, total, runs>>

Finish == phase = "close" /\ EndRun("done", {ClosedFile}) /\ UNCHANGED failures

\* The file is closed after a failure too; if that fails as well it is only logged.
CloseAfterFailure ==
  phase = "abort" /\ EndRun("failed", {file, ClosedFile}) /\ UNCHANGED failures

\* Closing the file fails, before or after the array was ended, or else the writing
\* of the summary.
EndError ==
  /\ phase = "close"
  /\ failures < MaxFailures
  /\ failures' = failures + 1
  /\ EndRun("failed", {file, ClosedFile})

\* The process dies; what it wrote stays.
Die ==
  /\ phase \in Running
  /\ phase' = "dead"
  /\ UNCHANGED <<options, samples, cacheVars, next, batch, pos, part, total, file, failures, runs>>

\* The operator starts the same fill again.
Rerun ==
  /\ phase \in Ended /\ runs < MaxRuns
  /\ phase' = "start" /\ next' = 1 /\ pos' = 0
  /\ batch' = [first |-> 1, last |-> 0]
  /\ part' = NoCounts /\ total' = NoCounts
  /\ runs' = runs + 1
  /\ UNCHANGED <<options, samples, cacheVars, file, failures>>

WriteFromOutside(w) ==
  /\ w \in outside
  /\ outside' = outside \ {w}
  /\ Store!Upsert(w[1], w[2])
  /\ UNCHANGED <<options, samples, runVars, file, failures, runs>>

Step ==
  \/ Start \/ StartError \/ NextBatch \/ SourceError
  \/ RunPipeline \/ PipelineRefuses \/ PipelineError
  \/ HandleConfident \/ HandleJudged \/ JudgeError \/ HandleUnresolved
  \/ Finish \/ CloseAfterFailure \/ EndError

Next ==
  \/ Step \/ Die \/ Rerun
  \/ \E w \in OutsideWrites : WriteFromOutside(w)

\* Every call a run makes returns, with a result or an error.
Spec == Init /\ [][Next]_vars /\ WF_vars(Step)

-----------------------------------------------------------------------------
\* The last run has finished and has left nothing out on purpose.
FullRun == phase = "done" /\ ~options.dryRun /\ options.floor = 0

(***************************************************************************)
(* After a full run every sample has a row in the cache or an entry in the *)
(* review file, whatever earlier runs failed or died at and whatever       *)
(* others wrote in between (README, cache-fill flow, steps 2, 5 and 6).    *)
(***************************************************************************)
NothingLost ==
  FullRun =>
    \A i \in DOMAIN samples :
      \/ rows[Normalized[samples[i]]] # NoRow
      \/ \E j \in DOMAIN file.rows : file.rows[j] = i

(***************************************************************************)
(* The summary line agrees with the input, with the review file and with   *)
(* itself: every sample is counted once, as cached or as skipped, except   *)
(* those the floor or a dry run kept out, which are in neither count.      *)
(***************************************************************************)
SummaryAddsUp ==
  phase = "done" =>
    /\ total.processed = Len(samples)
    /\ total.skipped = total.review
    /\ total.cached + total.skipped <= total.processed
    /\ FullRun => total.cached + total.skipped = total.processed
    /\ options.reviewPath => total.review = Len(file.rows)

(***************************************************************************)
(* When a run reports success its review file is a complete JSON array of  *)
(* whole rows, each unresolved sample once and in input order: a write     *)
(* error never ends in a success over a damaged file, and a rerun never    *)
(* appends to what an earlier run has left (reviewFileWriter).             *)
(***************************************************************************)
ReviewFileWhole ==
  phase = "done" /\ options.reviewPath =>
    /\ file.exists /\ file.closed /\ ~file.torn
    /\ \A i, j \in DOMAIN file.rows : i < j => file.rows[i] < file.rows[j]

(***************************************************************************)
(* Every answer of the judge in the cache names a country and a town of    *)
(* that country which the pipeline had found in a text of this key, with   *)
(* the scores found for them: an invented place, or a namesake in another  *)
(* country, never gets in (README, flow step 4).                           *)
(***************************************************************************)
JudgedRowsBacked ==
  \A k \in Keys :
    rows[k] # NoRow /\ rows[k].source = LLMAssisted =>
      LET a == rows[k].structured IN
      \E t \in Inputs :
        /\ Normalized[t] = k
        /\ \E i \in DOMAIN Results[t].countries :
             Results[t].countries[i] = [code |-> a.country, score |-> a.countryScore]
        /\ \E i \in DOMAIN Results[t].towns :
             Results[t].towns[i] = [name |-> a.town, code |-> a.country, score |-> a.townScore]

(***************************************************************************)
(* What the fill itself writes passes its gates: a pipeline answer is      *)
(* confident in both country and town and every answer reaches the floor;  *)
(* a human's row keeps its answer; a dry run writes nothing.               *)
(***************************************************************************)
FillWritesPassGates ==
  [][\A k \in Keys :
       rows'[k] # rows[k] /\ outside' = outside =>
         LET a == rows'[k].structured IN
         /\ ~options.dryRun
         /\ IF rows[k] # NoRow /\ rows[k].source = HumanVerified
            THEN a = rows[k].structured
            ELSE /\ a.author = CRFPipeline => Confident(a, High)
                 /\ options.floor > 0 => Confident(a, options.floor)]_vars

(***************************************************************************)
(* The fill and whoever else writes use the cache only as AddressCache     *)
(* allows, each write an upsert of an entry labelled as its producer's; so *)
(* everything the cache promises holds through failing, dying and repeated *)
(* runs: no review is lost and no label gets on another's answer.          *)
(***************************************************************************)
CacheUsedAsPromised == Store!Spec

\* A run that was started ends, by itself or with its process.
RunEnds == phase \in Running ~> phase \in Ended

(***************************************************************************)
(* A run ends early only because a call failed or the pipeline refused a   *)
(* text.  In particular --review-path is "optional" (main.go line 226).    *)
(***************************************************************************)
AbortsOnlyOnFailure ==
  phase \in {"abort", "failed"} =>
    failures > 0 \/ \E i \in DOMAIN samples : samples[i] \in Refused
=============================================================================
