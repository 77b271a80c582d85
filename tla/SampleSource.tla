---------------------------- MODULE SampleSource ----------------------------
(***************************************************************************)
(* Where the cache fill gets its samples from (cmd/iso-cache-fill/main.go  *)
(* lines 308-540, internal/holdout): a source that reads GeoJSON files     *)
(* line by line, or a list read before, wrapped in a holdout filter when   *)
(* --holdout-mod is set, and in a limit when --max-records is.  The fill   *)
(* calls NextBatch on the outermost source until a batch is empty or a     *)
(* call fails.                                                             *)
(*                                                                         *)
(* The bucket of a sample stands for the sample.  Left out: the choice of  *)
(* files in a directory, and parsing a feature.                            *)
(***************************************************************************)
EXTENDS Naturals, Sequences

CONSTANTS
  Inputs,     \* what the input may be: a list of files, a file a list of lines
  Filters,    \* the holdout filters: [mod, min, max], mod = 0 for none
  Limits,     \* values of --max-records, 0 for none
  BatchSize,
  Blank,      \* a line that holds no sample: empty, or a feature without an address
  Malformed   \* a line that cannot be parsed

Line == Nat \cup {Blank, Malformed}

ASSUME SampleSourceAssumption ==
  /\ Inputs \subseteq Seq(Seq(Line))
  /\ Filters \subseteq [mod: Nat, min: Nat, max: Nat]
  /\ \A f \in Filters : f.mod > 0 => f.max <= f.mod /\ f.min < (IF f.max > 0 THEN f.max ELSE f.mod)
  /\ Limits \subseteq Nat
  /\ BatchSize \in Nat \ {0}
  /\ Blank \notin Nat /\ Malformed \notin Nat /\ Blank # Malformed

VARIABLES
  files, filter, limit,  \* the input and the flags
  inMemory,              \* whether the whole input was read before the first call
  fileIndex, line,       \* the file in hand and the next line of it; line = 0: none open
  phase,                 \* who is at work
  ask,                   \* the batch size the limit leaves
  inner,                 \* the batch the reading source is filling
  held,                  \* the batch the holdout filter is filling
  records,               \* what the limit has let through
  delivered              \* everything the fill has been given

setupVars == <<files, filter, limit, inMemory>>
readVars == <<fileIndex, line, inner>>
vars == <<setupVars, readVars, phase, ask, held, records, delivered>>

\* A sample is known by its file and line.
Place == Nat \X Nat

TypeOK ==
  /\ files \in Inputs /\ filter \in Filters /\ limit \in Limits /\ inMemory \in BOOLEAN
  /\ fileIndex \in Nat /\ line \in Nat
  /\ phase \in {"idle", "read", "filter", "return", "ended", "failed"}
  /\ ask \in 0..BatchSize
  /\ inner \in Seq(Place) /\ Len(inner) <= ask
  /\ held \in Seq(Place) /\ Len(held) <= ask
  /\ records \in Nat
  /\ delivered \in Seq(Place)

\* A list holds samples only.
Readable(input) == Len(input) = 1 /\ \A i \in DOMAIN input[1] : input[1][i] \in Nat

Init ==
  /\ files \in Inputs /\ filter \in Filters /\ limit \in Limits
  /\ inMemory \in {b \in BOOLEAN : b => Readable(files)}
  /\ fileIndex = 0 /\ line = 0
  /\ phase = "idle" /\ ask = 0
  /\ inner = <<>> /\ held = <<>>
  /\ records = 0
  /\ delivered = <<>>

-----------------------------------------------------------------------------
Bucket(place) == files[place[1]][place[2]]

Enabled == filter.mod > 0
EffectiveMaxBucket == IF filter.max > 0 THEN filter.max ELSE filter.mod

\* Slip: the upper bound is taken to be included.
IncludeThrough(bucket) ==
  Enabled => bucket >= filter.min /\ bucket <= EffectiveMaxBucket

Include(bucket) ==
  Enabled => bucket >= filter.min /\ bucket < EffectiveMaxBucket

\* Slip: the limit bounds each batch, not all of them together.
RemainingOfBatch == limit

Remaining == limit - records

\* The fill asks for a batch; the limit lowers the size, and answers an empty
\* batch itself once it is used up.
AskFor(n) ==
  /\ phase' = "read"
  /\ ask' = n
  /\ inner' = <<>> /\ held' = <<>>
  /\ UNCHANGED <<setupVars, fileIndex, line, records, delivered>>

NextBatch ==
  /\ phase = "idle"
  /\ limit > 0 => Remaining > 0
  /\ AskFor(IF limit > 0 /\ Remaining < BatchSize THEN Remaining ELSE BatchSize)

LimitReached ==
  /\ phase = "idle"
  /\ limit > 0 /\ ~(Remaining > 0)
  /\ phase' = "ended"
  /\ UNCHANGED <<setupVars, readVars, ask, held, records, delivered>>

-----------------------------------------------------------------------------
\* The source that reads.

Fail ==
  /\ phase' = "failed"
  /\ UNCHANGED <<setupVars, readVars, ask, held, records, delivered>>

\* A batch goes up to the filter, if there is one, or back to the fill.
GoesUp == IF Enabled THEN "filter" ELSE "return"

OpenNext ==
  /\ phase = "read" /\ ~inMemory /\ line = 0
  /\ fileIndex < Len(files)
  /\ fileIndex' = fileIndex + 1 /\ line' = 1
  /\ UNCHANGED <<setupVars, inner, phase, ask, held, records, delivered>>

OpenError ==
  /\ phase = "read" /\ ~inMemory /\ line = 0
  /\ fileIndex < Len(files)
  /\ Fail

NoMoreFiles ==
  /\ phase = "read" /\ ~inMemory /\ line = 0
  /\ fileIndex = Len(files)
  /\ phase' = GoesUp
  /\ UNCHANGED <<setupVars, readVars, ask, held, records, delivered>>

AtLine == ~inMemory /\ line > 0 /\ line <= Len(files[fileIndex])

\* Slip: the line after the one that filled the batch is lost with the loop.
LineAfterFullSkipped == line + 2

LineAfterFull == line + 1

ScanSample ==
  /\ phase = "read" /\ AtLine /\ files[fileIndex][line] \in Nat
  /\ inner' = Append(inner, <<fileIndex, line>>)
  /\ IF Len(inner) + 1 = ask
     THEN phase' = GoesUp /\ line' = LineAfterFull
     ELSE phase' = phase /\ line' = line + 1
  /\ UNCHANGED <<setupVars, fileIndex, ask, held, records, delivered>>

ScanBlank ==
  /\ phase = "read" /\ AtLine /\ files[fileIndex][line] = Blank
  /\ line' = line + 1
  /\ UNCHANGED <<setupVars, fileIndex, inner, phase, ask, held, records, delivered>>

\* The call fails, and the batch is gone: a line cannot be parsed, the file cannot
\* be read on, at any line of it, or not be closed when it is at its end.
FileError ==
  /\ phase = "read" /\ ~inMemory /\ line > 0
  /\ Fail

CloseCurrent ==
  /\ phase = "read" /\ ~inMemory
  /\ line > 0 /\ line = Len(files[fileIndex]) + 1
  /\ line' = 0
  /\ UNCHANGED <<setupVars, fileIndex, inner, phase, ask, held, records, delivered>>

\* The list hands out its next ask samples at once; line counts those handed out.
ReadFromMemory ==
  LET end == IF line + ask < Len(files[1]) THEN line + ask ELSE Len(files[1]) IN
  /\ phase = "read" /\ inMemory
  /\ inner' = [k \in 1..(end - line) |-> <<1, line + k>>]
  /\ line' = end
  /\ phase' = GoesUp
  /\ UNCHANGED <<setupVars, fileIndex, ask, held, records, delivered>>

-----------------------------------------------------------------------------
\* The holdout filter.

\* Slip: whether the batch is full is asked between inner batches only.
FullAfterInner(batch) == Len(batch) >= ask /\ Len(inner) = 1

Full(batch) == Len(batch) = ask

\* The samples of the inner batch are taken over one by one until the batch is
\* full; those behind are dropped.
TakeOver ==
  /\ phase = "filter" /\ inner # <<>>
  /\ held' = IF Include(Bucket(Head(inner))) THEN Append(held, Head(inner)) ELSE held
  /\ \/ Full(held') /\ phase' = "return" /\ inner' = <<>>
     \/ /\ ~Full(held')
        /\ phase' = IF Len(inner) = 1 THEN "read" ELSE "filter"
        /\ inner' = Tail(inner)
  /\ UNCHANGED <<setupVars, fileIndex, line, ask, records, delivered>>

SourceExhausted ==
  /\ phase = "filter" /\ inner = <<>>
  /\ phase' = "return"
  /\ UNCHANGED <<setupVars, readVars, ask, held, records, delivered>>

\* The fill is given the batch; an empty one ends the run.
Return ==
  LET batch == IF Enabled THEN held ELSE inner IN
  /\ phase = "return"
  /\ records' = records + Len(batch)
  /\ delivered' = delivered \o batch
  /\ phase' = IF batch = <<>> THEN "ended" ELSE "idle"
  /\ inner' = <<>> /\ held' = <<>>
  /\ UNCHANGED <<setupVars, fileIndex, line, ask>>

Next ==
  \/ NextBatch \/ LimitReached
  \/ OpenNext \/ OpenError \/ NoMoreFiles
  \/ ScanSample \/ ScanBlank \/ FileError \/ CloseCurrent \/ ReadFromMemory
  \/ TakeOver \/ SourceExhausted \/ Return

Spec == Init /\ [][Next]_vars

-----------------------------------------------------------------------------
\* p comes before q in the input.
Before(p, q) == p[1] < q[1] \/ (p[1] = q[1] /\ p[2] < q[2])

\* The samples the fill should see.
Wanted ==
  LET places == UNION {{f} \X DOMAIN files[f] : f \in DOMAIN files} IN
  {p \in places :
     /\ Bucket(p) \in Nat
     /\ Enabled => filter.min <= Bucket(p) /\ Bucket(p) < EffectiveMaxBucket}

Given == {delivered[i] : i \in DOMAIN delivered}

(***************************************************************************)
(* The fill is given samples of its own buckets only, none twice, and in   *)
(* input order: a row of the evaluation's buckets never gets into the      *)
(* cache ("holdout never in cache-fill", docs/evaluation-plan.md:443).     *)
(***************************************************************************)
HoldoutKept ==
  /\ Given \subseteq Wanted
  /\ \A i, j \in DOMAIN delivered : i < j => Before(delivered[i], delivered[j])

(***************************************************************************)
(* The limit counts what the fill is given, over all batches and after the *)
(* filter; and a run ends with fewer only when the input is exhausted.     *)
(***************************************************************************)
LimitIsExact ==
  /\ limit > 0 => Len(delivered) <= limit
  /\ phase = "ended" /\ ~(limit > 0 /\ Len(delivered) = limit) =>
       IF inMemory THEN line = Len(files[1]) ELSE fileIndex = Len(files) /\ line = 0

(***************************************************************************)
(* No sample of the fill's buckets is passed over: what it is given is all *)
(* that is wanted up to some point, and at the end all of it or the limit. *)
(* The documented split is "cache-fill: stable_hash(address_id) % 10 in    *)
(* [0, 8)".                                                                *)
(***************************************************************************)
NothingPassedOver ==
  /\ \A p \in Wanted, q \in Given : Before(p, q) => p \in Given
  /\ phase = "ended" => Given = Wanted \/ (limit > 0 /\ Len(delivered) = limit)

\* It holds without a holdout filter.
NothingPassedOverWithoutHoldout == ~Enabled => NothingPassedOver
=============================================================================
