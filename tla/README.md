# Verification of the address conversion service

TLA+ models, TLC runs and TLAPS proofs of the concurrent and failure-prone parts
of the repository (the address cache, the two-stage cascade that serves
`/convert` from it, and the offline fill that fills it), of the algorithms its
answers come from (tagging an address text, finding names and postcodes in it,
ranking the combinations of country and town), and of the ONNX Runtime
environment these share in a process.  Paths are relative to the repository
(`internal/...`, `cmd/...`).

## 1. The system

| Component | State | Operations | Talks to |
|---|---|---|---|
| Address cache, Postgres store (`internal/cache/postgres.go`, `sql/`) | one row per normalized address: raw text, embedding, source, structured answer | lookup by key, nearest-neighbour search, upsert (one SQL statement) | written by iso-api, iso-cache-fill and reviewers |
| Redis store (`internal/cache/redis.go`) | one hash per normalized address, HNSW index | the same; upsert is a read followed by a write | written by iso-api, reviewers and other tools; iso-cache-fill opens Postgres only |
| Cascade (`internal/cascade`) | per request: loop index, misses, items | `Convert`, `tryStage1`, write-back | cache, embedder, pipeline |
| HTTP handler (`internal/api`) | none | decode, `Convert`, encode | cascade |
| iso-api (`cmd/iso-api`) | wiring, one process | start, serve | everything above |
| iso-cache-fill (`cmd/iso-cache-fill`) | batch, counts, review file | fetch batch, pipeline, cache / judge / export each row | sample source, pipeline, judge, cache |
| Sample sources, holdout filter (`cmd/iso-cache-fill`, `internal/holdout`) | file and scanner position, batches, count | `NextBatch` through up to three layers | files |
| LLM judge (`internal/judge`) | none | ask, validate the decision | HTTP endpoint |
| Structured address, quality (`internal/structured`, `internal/quality`) | none | best country and town, confidence bands | — |
| Pipeline (`internal/pipeline`) | none | clean, tag, match, postprocess, batch by batch | model, fuzzy, postcode, postprocess |
| CRF model (`internal/model`) | none per call | tokenize, run ONNX, decode, spans | ONNX Runtime |
| ONNX environment (`internal/model/onnx.go`, `internal/embedding/local.go`) | reference count, process-wide flags, two mutexes | acquire, release, destroy | ONNX Runtime |
| Fuzzy matching (`internal/fuzzy`) | none | distance, windows, choice of matches | resource maps |
| Postcodes (`internal/postcode`, `internal/postaldb`) | none, or a database handle | pattern and file lookup, SQL lookup | resource files, SQLite |
| Postprocess (`internal/postprocess`) | the candidates of one address | flags, scores, combinations, reranking | all of the above |
| Readers, output, resources, config, iso-run, evaluation client | none, or local | parsing, loading, metrics | files, HTTP, SQLite |

### Where it is hard

* **Shared cache, no locks.** API processes, reviewers and, in Postgres, fills write
  the same rows.  The Postgres upsert is atomic; the Redis one is not.
* **Long gaps between reading and writing.** The cascade looks a key up, embeds,
  searches, runs the pipeline and only then writes back.
* **Partial failure.** Each text of a request takes up to four remote calls, each
  with an error path of its own; the misses of a request are re-batched and their
  results put back by index; write-backs may fail one by one.
* **Provenance.** A row may be served only if the process that produced its answer
  is trusted; labels and answers are merged, overwritten and served by similarity.
* **Long offline runs.** A fill can fail in any call, die at any point and be run
  again; its review file is written incrementally; its input passes through
  layered batch sources with a filter and a limit.
* **Index arithmetic.** Decoding, marginals and span cutting are hand-written loops
  over a padded, masked text, in both directions, with missing weights read as
  zero and impossible ones as minus infinity; so are the distance table, the
  windows and the line structure of the matchers.
* **Long chains of rules.** A candidate passes some thirty flags, two scores, a
  threshold, generated placeholders, the removal of duplicates and a rerank, and
  each rule may undo what an earlier one promised.
* **Two owners of one environment.** Inference engines count themselves in the ONNX
  Runtime environment, local embedders do not; constructors and `Close` take their
  lock twice with something else in between, and may fail on the way.

### What makes each part correct

* Store: the latest human decision stands; a label always belongs to its answer;
  an upsert looks atomic.
* Cascade: every text gets an answer that was made for it; what is stored under a
  key was made for that key; only trusted answers are served; reviewed addresses
  are answered by the review; a failed request leaves nothing behind; every
  request ends.
* Fill: no sample is lost between cache and review file; the summary adds up; the
  review file of a successful run is whole; judged rows are backed by candidates;
  what is written passed its gate; every run ends.
* Sources: only the fill's own buckets, in order, once; the limit is exact;
  nothing is passed over.
* Model: the decoded path is a best one; the marginals are those of the CRF; spans
  cover the text, in whole entities; a confidence is backed by the path its span
  was cut from; a text that is too long is refused.
* Fuzzy matching: the distance is the edit distance; no close spelling is missed.
* Postprocess: a forced suggestion is obeyed; the line before a final country code
  is offered as a town; a foreign town is the last resort; the answer's country and
  town belong together where they can.
* ONNX environment: the count is exact; a session never outlives its environment.

The full list of hazards, each at its line, is in `PROJECT.json`.

## 2. Modules

| Module | Models | Notes |
|---|---|---|
| `CacheEntries` | rows, sources, `mergeCacheWrite` | the data both stores share |
| `AddressCache` | the store as its callers are promised it; the Postgres upsert to the letter | the abstract specification |
| `RedisStore` | `RedisStore.Upsert` as two commands | refines `AddressCache` (`AtomicUpserts`) |
| `Cascade` | `Handler.ServeHTTP`, `Service.Convert`, `tryStage1` | uses `AddressCache`'s upsert as its cache, and refines it (`CacheUsedAsPromised`) |
| `CacheFill` | `run`, `fillFromSource`, `fillCacheWithReviews`, `reviewFileWriter`, judge validation | as `Cascade` |
| `SampleSource` | memory and GeoJSON sources, holdout and limit wrappers | feeds `CacheFill` |
| `AddressText` | slices, trimming, filtering, sorting, the lines of an address | used by the matchers; filters and sorts are defined by the positions of the elements they keep, so that they can be proved about |
| `FuzzyMatch` | `internal/fuzzy`: distance table, partial ratio, near matches, `ScanAllBatched` | operators, with a reference definition of the distance |
| `PostcodeMatch` | `postcode.FindTownMatches`, `postaldb.Runner.MatchBatch` | operators |
| `MatchFlags` | `flags.go` | operators |
| `MatchScore` | `score.go`, `combinations.go`, `line_structure.go` | operators |
| `Postprocess` | one address through `Pipeline.Run`, `postprocess.Runner.runOne`, `structured.FromResult` and `quality.Assess` | composes the five above; takes what `Tagging` may answer as its input |
| `OnnxEnvironment` | `acquireONNXEnvironment`, `releaseONNXEnvironment`, engines, local embedders | refines `EnvironmentLease` |
| `EnvironmentLease` | what a user of the environment is promised | the abstract specification |
| `Tagging` | length check, `TagBatch`, `CRF.Decode`, `CRF.MarginalProbabilities`, `CreateDetailsFromBIOTags` | one text, one action per turn of an outer loop |
| `MC*` | small instances of these | constants only |
| `CacheEntriesProofs`, `RedisStoreProofs`, `CascadeProofs`, `TaggingProofs`, `PostprocessProofs`, `OnnxEnvironmentProofs`, `SampleSourceProofs`, `CacheFillProofs` | theorems | section 5 |

An operator commented "Slip" is a plausible wrong version of the operator defined
after it.  No action uses it: it is there to show that a property notices.

### State and actions

`AddressCache.rows[k]` is the row of `address_cache` whose `normalized_address` is
`k`.  A structured address is an opaque value; `Author` says which process
produced it, and so what its label should be.  `verified` is a history variable:
the answer of the latest human write of each key.

`RedisStore` splits `Upsert` at its two commands: `ReadExisting` is the `Fetch`
(redis.go line 237), `WriteMerged` the merge and `Load` (lines 241-259), `Abandon`
any error or death in between.  The sources it writes include those of a fill, whoever
brings such rows into Redis.  `QuietReview` is the operating assumption stated
in the store's design note: a review of an address does not overlap another write
of it.

`Cascade` gives each request a program counter.  One action is one remote call and
the code up to the next one: `LookupHit`, `LookupMiss` and `LookupError` are the
outcomes of `LookupNormalized`; `EmbedError`, `SearchHit`, `SearchMiss` and
`SearchError` those of `Embed` and `Search`; `RunPipeline` and `PipelineError`
those of the pipeline; `WriteBack` is one turn of the result loop with its upsert.
`WriteFromOutside` is a fill or a reviewer writing in between.  A search returns
any few rows in order of similarity, because Redis's HNSW index is approximate;
Postgres returns the nearest, which is one of these outcomes.

`CacheFill` has one action per step of the loop: `NextBatch`, `RunPipeline`, one
of `HandleConfident`, `HandleJudged`, `HandleUnresolved` per row, `Finish`.  Every
call can fail (`...Error`, or the failing disjunct of `CacheRow` and
`AddReviewRow`); the upsert of a failing call may have been applied.  The review file
can fail at every step of its life: when it is created (`StartError`, which may have
emptied the file of the run before), within `Add`, and in `Close`, after a complete
loop (`EndError`, which is also the summary that cannot be written) as after a failure
(`CloseAfterFailure`, which only logs it).  `Die` stops the process and `Rerun` starts
it again on the same input.  The pipeline's ranked
matches are inputs; `FromResult`, the judge's candidates and `ApplyDecision` are
computed from them as the code does.

`SampleSource` has one action per line read, per file opened or closed, per sample
the filter takes over or lets go, and per batch returned; `OpenError` and `FileError`
are the calls that fail (a file that does not open; a line that cannot be parsed or
read, a file that does not close).

`Tagging` follows one text through `Pipeline.cleanAndValidateSample` (`CleanSample`,
`RejectLong`), the network (`RunEngine`, which returns any matrix of the right
shape, or `EngineError`), `CRF.Decode` (`DecodeFirst`, one `DecodeNext` per
position, `DecodeLast`, one `TraceBack` per backpointer), the forward and backward
passes of `CRF.MarginalProbabilities` (`Forward`, `Backward`, `Marginals`), the span
loop (`CutSpan`) and the confidences (`Report`).  The code adds logarithms; the
model multiplies the weights they stand for, so that a score of minus infinity is
the weight 0, a missing entry the weight 1 and log-sum-exp a plain sum, and every
comparison is the code's.  Rounding is lost with that; marginals are kept as
multiples of the partition sum instead of being divided by it.

`Postprocess` follows one cleaned address from the network's answer (`TagBatch`, any
of the span sequences and country heads of the instance) through the names found in
it (`MatchNames`) and the postcodes (`MatchPostcodes`, from the resource files or from
any answer the database may give) into `runOne`, one action
per stage: `ProcessSuggestedCountry`, `FlagMatches`, `RelateMatches`, `ScoreMatches`
and `FinalMatches`, the last of which generates the combinations, removes duplicates
and reranks.  `TagBatchFails`, `MatchPostcodesFails` and `FindIBANsFails` are the errors:
of the network or of the number of its answers, of the database or a pattern that does
not compile, and of the IBAN pattern.  `MeanSpan` is the mean of a tag's marginals over
a match: one constant inside the tag's spans and another, `Elsewhere`, outside them in a
text that has such a span, where the marginals are small but not zero.  It rounds up, so
that it is positive exactly where the code's mean is, as `filterCountryCodeMatches` asks.
`Answer` is `FromResult` with `Assess`.  A candidate is the code's
`core.FuzzyMatch` as a record; its flags are a set of the code's flag names.  A text is a sequence of character
codes, since the matchers work on offsets; distances, offsets and lines are computed.

`OnnxEnvironment` has one action per critical section of the environment's mutex and
one per session created or destroyed: `NewEngine` acquires (or fails and changes
nothing), `CreateSession` or `CreateSessionFails` follow, `DestroySession` and
`LeaveEnvironment` are the two halves of `Close`, and `CloseAgain` is a second `Close`
after a failed one.  `NewEmbedder`, `CreateEmbedderSession` and `CloseEmbedder` are the
local embedder's, which initializes the environment under a mutex of its own and
never counts itself.  Two facts come from the callers in `cmd/` and are not checked by
the code: nobody asks for the destruction of the environment in a process with local
embedders, and a `Close` is not repeated after it succeeded.

A third one is a parameter.  `Close` (onnx.go lines 90-106) may be called again after
it failed, at any time.  With `PromptRetries` a failed `Close` is repeated, if at all,
while no engine holds a reference, that is before another is created; this is what the
run and every theorem about the module assume.  The engines of `cmd/` are closed once,
so the program meets it.  Without it (`PromptRetries = FALSE`) TLC finds
`CountedExactly` violated: the second release takes the reference of the newer engine.
That is a limit of `ONNXEngine.Close`, which no document or test says more of, and not
an expected violation of the project.

## 3. Runs

| Run | Expect | Question |
|---|---|---|
| `redis_quiet` | pass | Is the two-command upsert as good as the atomic one when reviews are quiet? |
| `redis_race` | violation | And when they are not? A review between read and write is lost. |
| `cascade` | pass | Do two interleaved requests, a fill and a reviewer keep the cascade's promises? |
| `cascade_live` | pass | Does every request end? |
| `cache_fill` | pass | Do failing, dying and repeated fills keep theirs? |
| `fill_no_review_path` | violation | Can a fill be run without `--review-path`? Not past its first unresolved row. |
| `sample_source` | pass | Do the sources deliver the right samples? |
| `holdout_loss` | violation | Is every sample of the fill's buckets processed? Not with a holdout filter. |
| `tagging` | pass | Are path, marginals, spans and confidences what they should be, compared with all paths? |
| `postprocess` | pass | Are the matches the nearest ones, and do the rules of flags, scores and ranking keep their promises together? |
| `onnx_environment` | pass | Does the environment outlive every session, and is the count exact? |
| `long_address` | violation | Is a text that is too long for the model refused? Not if the pipeline's maximum is larger. |

The gazetteer of `postprocess` has "NO COUNTRY" with the empty origin, as
`LoadCountryAliases` adds it, so the code's tests for an empty origin matter.

The type invariants of `RedisStore` and `OnnxEnvironment` are proved (section 5) and not
run: what they bound, `AtomicUpserts` and `CountedExactly` determine.

### Findings

1. **Review lost in Redis** (`redis_race`). Writer reads the row, reviewer writes,
   writer writes its merge of the old row.  The comment on `mergeCacheWrite` rules
   this out, the design note accepts it.  Everything else the store promises
   holds even then: `LabelMatchesAnswer` is proved without the assumption.
2. **`--review-path` is not optional** (`fill_no_review_path`). `run` passes a nil
   `*reviewFileWriter` as an interface, which is then not nil; the first
   unresolved row aborts the fill with "review writer is closed".
3. **Samples dropped by the holdout filter** (`holdout_loss`). When its batch is
   full, the filter drops the rest of the inner batch it had already taken.
4. **Long texts tagged in part** (`long_address`). The pipeline checks its own maximum
   (224, set nowhere else), the runner cuts at the converted model's.  A text between
   the two loses its tail without an error, although the port's design lists it
   among the explicit errors.

### Bounds, and why they are enough

* `redis_quiet`: three writers, two keys, two inputs, four answers (two of a
  reviewer).  A race needs a reader, an interloper and a third writer that acts on
  the result; keys do not interact.  `redis_race` needs one key and one input.
* `cascade`: two requests of at most two texts; five batches with two spellings of
  one address, two addresses that pass both gates exactly at the thresholds, one
  that is close in meaning only, a text without letters or digits and a blank
  one; at most two candidates per search; one human and one LLM write.  Two texts are
  the fewest with a hit before a miss (where batch index and miss index differ);
  two requests the fewest of which one can serve what the other has stored.
* `cascade_live`: one candidate per search, two batches, a reviewer; no symmetry,
  since a liveness property is checked.
* `cache_fill`: up to five samples in batches of two (a full batch, a partial one
  and an empty input), at most two failing calls and three runs, so that a rerun
  can fail again and still be followed by a complete one; scores 0..2.
* `sample_source`: all pairs of files of up to two lines and all lists of up to
  five samples over three buckets, batches of two, no limit or three.
* `tagging`: a model of length three, texts of up to three characters before
  cleaning, one more after it (as `strings.ToUpper` or transliteration may add), so
  that there are empty, padded, full and cut texts; three positions are the fewest
  with a backpointer to a backpointer and an inner position of both passes; every
  matrix made of five rows of emissions, with equal, zero and dominant entries, and one of
  the wrong length; two entities and OTHER, so that an inside label may follow its
  own entity, another one or none; no weights, weights with ties and missing
  entries, and weights that forbid whole paths.
* `long_address` differs in the pipeline's maximum only: four instead of three.
* `postprocess`: eleven texts, every tagging and country head given for each, ten
  suggestions, both postcode runners.  The gazetteer has two countries, one name in
  both, a town that is also the alias of the other country, towns with separators,
  a postcode and a code that is a province alias too.  The texts have one to three
  lines, a town broken by a line end, a final country code, a name overlapping
  itself, a phone prefix, a blank line, nothing at all, or "NO COUNTRY" itself.  They
  are as short as these cases allow, as a window is compared with every name.  The
  weights are the defaults of `internal/config`, in hundredths, a tag's probability
  and a CRF score percentages, a final score thousandths, and a combination's score the
  sum of its two scores, which is twice the code's mean.  `log` and `exp` are tables
  with linear interpolation; they are increasing, and the thresholds the properties
  depend on are far from the interpolation's error.  `MaxMatches` is 1, so that the
  database's limit cuts; one of its rows has an empty town, which takes a place under
  that limit and says no more than its country.
* `onnx_environment`: three engines and two embedders, created and closed again and
  again, each asking for the destruction or not: one engine more than a race between
  the last to leave and the next to come needs.  `PromptRetries` is set.
* `CHECK_DEADLOCK FALSE` in `Cascade`, `CacheFill`, `SampleSource` and `Postprocess`:
  requests, runs, inputs and texts are finite, and the system rests when they are
  used up.

### What the runs showed beside the findings

* Country and town of a structured address are each the first of their own list.
  They come from one combination if the leading one has both
  (`AnswerFromOneCombination`); when the leader lacks one, the answer may mix two.
* Duplicates are removed before the rerank, so it is the order by score that
  decides which of two equal towns survives.
* A generated placeholder has the span 0..0 and so lies on the first line.
* `noCountryScore` never changes the ranking of two combinations that share their
  country; `CountryIsPresentMalus`, despite its name, is a bonus by default (+0.10).

### Fairness

`Cascade` and `CacheFill` assume weak fairness of each request's, or the run's,
next step, and nothing else: a call that was made returns sooner or later, with a
result or an error, and the goroutine that waits for it goes on.  What the code
has for it: the OpenAI embedder's client times out after 30 seconds
(`internal/embedding/openai.go` line 44), the judge's after 60
(`internal/judge/judge.go` line 112); the local embedder and the pipeline compute
over input of bounded length; a cache call of iso-api carries the request's
context, which ends when the caller hangs up.  A cache call of the fill has no
deadline of its own: there the assumption is on the database.  No fairness is
assumed of outside writes, deaths or reruns, nor of any particular outcome of a
call.

## 4. What is not modelled

* Scores, normalization and the pipeline's answer are functions of the text, given
  as constants, in `Cascade` and `CacheFill`.  The cascade's `Semantic` and `Lexical` stand for cosine
  similarity and `LexicalIdentity`.
* The vocabulary and the network: `Tagging` takes any matrix of emissions.  Its
  country head, a softmax of its own, and the emission series of a tag, which only
  feed reports.  Rounding of logarithms.
* Quality fields of an item and wording of errors and review reasons.
* Opening stores, loading resources, flags, JSON decoding.
* Of postprocessing: the extended town lists, the aliases of saints, the regular
  expression of an IBAN (which texts hold one is given), texts with characters that
  are still not ASCII after clean-up.  Postcode patterns are sets of codes.
* Of `postaldb`: `Validate`, opening and closing, the parsing of columns.
* Of the ONNX engines and the local embedder: tensors, shapes, the WordPiece
  tokenizer, pooling: sequential arithmetic on data the models do not have.
* The split of a run into batches in `Pipeline.Run`, and its checks that the matchers
  and the postprocessing answer one result per text: those of the repository do.  The
  same check of the network's answers is part of `TagBatchFails`.
* Of the edit distance, that two rows of memory are swapped: `NextRow` makes a new row.
  Of the span loops, their single turns: `RunEnd` is where one stops.  Of `Pipeline`'s
  length check, that cleaning may make a text longer: `Tagging` has such texts, but
  `LongAddressRefused` speaks of the two maxima.
* `iso-run`, readers, output, resource loading and the OpenAI client: parsing,
  formatting and transport, no state that could go wrong between steps.
* The evaluation client under `examples/`: it measures the service from outside.
* The queries `sqlc` generates: the SQL they wrap is what `AddressCache` models.

## 5. Proofs

TLAPS proves, for any sets of keys, inputs, answers, writers and requests, from the
assumptions of the modules (and three facts of `Postprocess` about its data and one
about a threshold, listed below): `CacheEntriesAssumption` and
`RedisStoreAssumption` (the sentinels are no members of the sets they are added
to, and `Author` is a function) and `CascadeAssumption` (which also says that the
pipeline's answer to a text, and whatever the fill and the reviewers store under a
key, was made for that address):

* `CacheEntriesProofs`: what `MergeWrite` preserves: its type, the agreement of
  label and answer, a human row's answer, and that merging twice is merging once.
* `RedisStoreProofs`: `StoreTypeCorrect`, `StoreLabelsMatch` and `StoreHumanDecision`
  for the atomic store (`Store!Spec`); for the Redis store `RedisTypeCorrect`;
  `RedisLabelsMatch`, without any assumption on reviewers; and, assuming
  `QuietReview`, `RedisImplementsStore` (every behaviour of the two-command store is
  one of the atomic store) and `RedisHumanDecision`.

The invariant behind the last two is `IInv`: besides the types it says
`ReviewsAlone` (a review in flight is the only write of its key in flight) and
`MergesStillValid` (for every upsert in flight, merging with the row it read gives
what merging with the row of now would give).  The second is what makes a stale
read harmless, and it is not inductive without the first: a review that ends while
another write of its key is in flight would break it.

* `CascadeProofs`: `CascadeTypeCorrect`, `OwnTextAnswered`, `RowsOwnKey`,
  `TrustedServed`, `ReviewedServed`, `NoTraceOfFailure` and
  `ServiceUsesCacheAsPromised`, that is every property the run `cascade` checks, for
  any number of requests of any length, any scores and thresholds and any
  configuration.

The invariant of `CascadeProofs` is `IInv`: the types, `CacheInv` (the cache is in
order: reviews stand, labels match, rows are about their keys) and, for each
request, `RequestInv`: `Place` (its loop index points into the list it runs over,
and only texts with a key get that far), `Covered` (a text that was passed has its
answer or is a miss still to be written), `PassedOver` (a text whose review was
known is among the misses only with an excuse), `StillReviewed`, `AnswersGood` and
`WritesLast`.  `AnswersOwnText` is not inductive without `Covered`, and
`ReviewedAnswerServed` not without `PassedOver`, `StillReviewed` and the
`HumanDecisionStands` of the cache.  `StepShapes` reduces the twelve branches of
`Step` to six shapes; one lemma per shape shows that it keeps the invariant for its
own request and leaves the others alone, and `UntouchedKeeps` does the rest.  That
the service implements `AddressCache` needs the invariant too: what is written back
is an entry only because `Place` keeps the result loop on misses whose text has a key.

* `TaggingProofs`: `TaggingTypeCorrect`, `SpansCoverText`, `StrictSpansCorrect`,
  `NonStrictSpansCorrect`, `DecodingCorrect`, `MarginalsCorrect` and
  `ConfidenceCorrect`, every property of the run `tagging`, for any set of models,
  texts, tags and network outputs, from `TaggingAssumption` (labels are labels, there
  is one at least, lengths and weights are natural numbers).

The invariant of `TaggingProofs` is `IInv`: the types, `Progress` (how long the path
and the backpointers are in each phase), the three span properties and
`RunsAreLongest` (a span ends where its run ends), which says of a span that the
next one cannot have its tag.  Where a loop of the code runs "while the label
still fits", `RunEnd` chooses its end; that there is exactly one to choose is
`RunEnds`, from `LeastNatural`: a set of natural numbers that is not empty has a
least element.

The last three theorems compare with all paths, and have the invariant `CrfInv`.  It
describes the decoder and the two passes by what they have computed so far:
`ScoresExact` (the scores and backpointers are those of the positions passed),
`PathFollows` (what was traced follows the backpointers from the best last label),
`PassesExact` (a forward sum is the weight of all that leads to its label, a backward
sum of all that goes on from it) and `ProbsExact`.  These speak of chains of labels
in general, about which the first part of the module proves what the code relies on:
that the best chain to a label extends a best chain to some label before it, also
where scores are zero, and that the chains through a label are those that lead to
it times those that go on, so that their total is the product.  That weights are
natural numbers is all that is assumed of them; the argument does not divide.

* `PostprocessProofs`: `TypeCorrect`, `DistancesAreEditDistances`, `NothingMissed`,
  `ForcedCountryAnswered`, `PenultimateLineStands`, `ForeignTownsLast` and
  `OneCombinationAnswered`, every property of the run `postprocess`, for any
  gazetteer, texts, network answers, postcode data, weights and thresholds, from the
  assumptions of the modules (names are texts, no town is empty, a pattern
  matches no empty text, weights are integers, probabilities percentages).

The invariant of `PostprocessProofs` is `IInv`, and it is small because of what the
stages do: `Typed` says that every candidate lies in the text and is called by an
entry that was looked for, which no flag and no score changes (`Moved`, `Adorned`);
`SuggestionStays` that the candidate made of the suggestion is still among the
countries, with its score; `Results` that the combinations and the address are the
ones `finalMatches` and `FromResult` compute from the countries and towns.  The rest
is about `FinalMatches` as a whole.  `OfferedIs` describes what is offered, after
generation, sorting, removal of duplicates and reranking, by where it comes from:
each combination is a pair, a country or a town alone, or nothing, and of every pair
one with its key is among them.  `ForeignTownIsLastResort` and `PenultimateLineOffered`
follow from that and from `WithFallbackIs`.  Sorting and filtering are permutations and
selections of positions (`StableOrders`, `SubsequenceIs`).  `DistanceIs` is the theorem
behind `DistanceIsEditDistance`, for any two texts: each cell of the table is the
least cost of lining up two prefixes, which are written as two sets of positions
of the same size.  `NothingMissed` follows a fold over the candidates in order.

Four of these theorems' hypotheses are facts about the data, and each is there because
the argument breaks without it:

* `NoTownIsNoCode`, in `ForeignTownsLast`: no country has the code "NO TOWN".
* `NoCountryHasNoCode`, in `ForcedCountryAnswered`: the name "NO COUNTRY" has only the
  empty origin that `internal/resources/resources.go` line 116 gives it.
* `SuggestionCounts`, in `ForcedCountryAnswered`: the score of a suggestion reaches the
  threshold for countries.  It does by default, 0.95 against 0.15
  (`internal/config/config.go` lines 141 and 144); a configuration in which it did not
  would drop a forced suggestion.
* `TownNamesTrimmed`, in `PenultimateLineStands`: names have no blanks around them.
  `cleanResourceName` (`resources.go` line 221) trims them, but the alias of a name
  that begins or ends with a dash has a blank there.  A line is trimmed before it is
  compared, so such an alias would not be recognized as the line's town.

The instance of the run `postprocess` meets all four (an `ASSUME` of `MCPostprocess`).

* `OnnxEnvironmentProofs`: `TypeCorrect`, `ReferencesCounted`, `SessionsSafe` and
  `ImplementsLease`, for any finite set of engines and any set of embedders, from
  `OnnxAssumption` (the engines are finitely many, and no engine is an embedder) and
  `PromptRetries` (section 2), which each of the four theorems names.

The invariant of `OnnxEnvironmentProofs` is `IInv`: the types, `CountedExactly`,
`InPlace` (while anyone uses the environment it is alive), `EveryUserCounted` (in a
process with local embedders no destruction is requested; in any other every user
is counted) and `HoldersCreated` (who holds a
reference holds it of an environment this process created).  `InPlace` is not
inductive without the other two: `Release` looks at the count alone, so it destroys
the right thing only if nobody uncounted is in.  `ImplementsLease` is the step
simulation under the mapping `environment <- alive, users <- Using`.

* `SampleSourceProofs`: `SourceTypeCorrect`, `HoldoutProved`, `LimitProved` and
  `NothingPassedOverProved`, every property of the run `sample_source`, for any input
  files, filter, limit and batch size, from `SampleSourceAssumption` (files are
  sequences of lines, a filter is one that `parseArgs` accepts, the batch size is
  positive).

The invariant of `SampleSourceProofs` is `IInv`: what was delivered, what the filter
holds and what was read but not taken over are three ordered stretches of the input,
one ahead of the other and all behind the place the source has reached
(`Stretches`), `Position` (that place is in the input), `Layers` (who holds what in
which phase; an empty batch means that the input is exhausted), `Counted` (the limit has
room for the batch in hand) and `CaughtUp` (without a filter what was passed is in
one of the stretches; this is the part that a filter breaks, see `holdout_loss`).

* `CacheFillProofs`: `FillTypeCorrect`, `NothingLostProved`, `SummaryProved`,
  `ReviewFileProved`, `JudgedRowsProved`, `GatesHold` and `UsesCacheAsPromised`, every
  safety property of the run `cache_fill`, for any inputs, ranked matches, flags,
  batch size and bounds on failures and runs, from `CacheFillAssumption` (the texts'
  results are sequences of matches, a run is started at least once, and no other
  process writes answers of the judge).

The invariant of `CacheFillProofs` is `IInv`: the types, `Position` (where the run is
in its input and its batch), and three parts that account for every one of the
`Handled` samples: `Added` (in the counts, those of the batch in hand and of the
batches before it together), `Exported` (in the review file, in input order and no
further than the run has come) and `Kept` (in the cache or in the file); and
`JudgedRowsBacked`, which is inductive by itself.  `SummaryAddsUp` and `NothingLost`
speak of the last state of a run only and say nothing of the states before it.  A run
that failed or died owes nothing (`NotWorking`), and a rerun starts from an empty
account while the cache stays as it is; so that nothing is lost over several runs rests on
`UpsertKeeps`: no write, whoever makes it, takes a row away.

Every invariant and every action property of the passing runs is proved, and so is
every refinement.  What recursive definitions and folds compute is proved too,
without the induction rules of the library, whose parameters are operators: a
recursion is turned into a table of its values (`BuiltUpExists`, `FoldExists`,
`SumTableExists`), and induction into a statement about a set of natural numbers
(`LeastNatural`, `Inductive`).  Only model-checked, since it is out of the prover's
reach: liveness under fairness (`EveryRequestReturns`, `RunEnds`).  The expected
violations are TLC's as well.

## 6. What is left

* The split of a run into batches in `Pipeline.Run`, composed with `Tagging`'s length
  check and `Postprocess`: worth a module when the runners stop answering one result
  per text.
* Proofs: the models take the split into stages as the code has it; a theorem that
  `Tagging`'s answers are among the `Taggings` that `Postprocess` accepts would join the
  two, and needs the tags of the two modules to be one set.
