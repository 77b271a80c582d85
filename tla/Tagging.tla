------------------------------ MODULE Tagging ------------------------------
(***************************************************************************)
(* How one address text becomes tagged spans: the length check of          *)
(* internal/pipeline, then Runner.TagBatch of internal/model, which pads   *)
(* and masks the text, runs the network, decodes the best path (CRF.Decode)*)
(* and the marginals (CRF.MarginalProbabilities) and cuts the path into    *)
(* spans.  One action is one turn of an outer loop over the text.          *)
(*                                                                         *)
(* The code adds scores; here they are weights, their exponentials, which  *)
(* multiply: a score of minus infinity is 0, an absent one (read as 0 by   *)
(* the code) is 1, and log-sum-exp is a sum.  Weights are natural numbers, *)
(* so rounding is left out.  Labels and positions are counted from 1; the  *)
(* Start and End of a span are the code's: it holds Start + 1 .. End.      *)
(* Left out: the vocabulary (the network is any function of the text), and *)
(* the country head.  Texts of a batch do not interact.                    *)
(***************************************************************************)
EXTENDS Naturals, Sequences, Functions

CONSTANTS
  Models,         \* converted models: labels, CRF weights, maxLength, strict
  CheckedLength,  \* the pipeline's cfg.CRF.MaxSequenceLength
  Texts,          \* lengths of a text as received and as cleaned: [raw, cleaned]
  Outputs,        \* emission matrices the network may return
  Tags,           \* core.Tag
  Other           \* core.TagOther

\* core.BIOTag; core.BioBefore, BioInside and BioOther
Before == "B"
Inside == "I"
Outside == "OTHER"
Label == [bio: {Before, Inside, Outside}, tag: Tags]

ASSUME TaggingAssumption ==
  /\ Other \in Tags
  /\ \A m \in Models :
       /\ m.labels \in Seq(Label) /\ m.labels # <<>>
       /\ m.maxLength \in Nat \ {0}
       /\ m.strict \in BOOLEAN
       /\ m.start \in Seq(Nat) /\ m.end \in Seq(Nat)
       /\ m.transitions \in Seq(Seq(Nat)) /\ m.transitionsOrder2 \in Seq(Seq(Nat))
  /\ CheckedLength \in Nat
  /\ Texts \subseteq [raw: Nat, cleaned: Nat]
  /\ Outputs \subseteq Seq(Seq(Nat))

VARIABLES
  model,       \* what LoadModelRunner loaded
  text,        \* the lengths of the address
  phase,       \* how far Run and TagBatch have come
  emissions,   \* what the network returned
  scores,      \* Decode: the best weight of a path so far, by last label
  back,        \* Decode: backpointers
  path,        \* Decode: the path, from the position traced back to, to the end
  alpha, beta, \* MarginalProbabilities: forward and backward sums
  probs,       \* MarginalProbabilities: the marginals, times the partition sum
  spans,       \* CreateDetailsFromBIOTags: the spans cut so far
  confidence   \* of each span, the sum of its marginals, times the partition sum

vars == <<model, text, phase, emissions, scores, back, path, alpha, beta, probs, spans, confidence>>

Phases == {"clean", "infer", "decode", "trace", "forward", "backward", "cut", "report",
           "answered", "failed"}

LabelIds == 1..Len(model.labels)

\* How many positions the mask lets through: encodeBatch cuts the text at the
\* model's length, and pads a shorter one.
Masked == IF text.cleaned < model.maxLength THEN text.cleaned ELSE model.maxLength

Init ==
  /\ model \in Models
  /\ text \in Texts
  /\ phase = "clean"
  /\ emissions = <<>>
  /\ scores = <<>> /\ back = <<>> /\ path = <<>>
  /\ alpha = <<>> /\ beta = <<>> /\ probs = <<>>
  /\ spans = <<>> /\ confidence = <<>>

(***************************************************************************)
(* The CRF's weights.  A missing entry counts as score 0.                  *)
(***************************************************************************)
ValueAt(values, id) == IF id \in DOMAIN values THEN values[id] ELSE 1
MatrixValueAt(values, row, column) ==
  IF row \in DOMAIN values THEN ValueAt(values[row], column) ELSE 1

Transition(from, to) ==
  MatrixValueAt(model.transitions, from, to) * MatrixValueAt(model.transitionsOrder2, from, to)

\* The index a scan for a strictly better weight ends with: the first of the
\* largest, and the initial 1 if there is none.
FirstBest(weights) ==
  LET best == {k \in LabelIds : /\ \A j \in LabelIds : weights[j] <= weights[k]
                                /\ \A j \in 1..(k - 1) : weights[j] # weights[k]}
  IN IF best = {} THEN 1 ELSE CHOOSE k \in best : TRUE

(***************************************************************************)
(* Pipeline.cleanAndValidateSample.  The length it checks is the raw one.  *)
(***************************************************************************)
CleanSample ==
  /\ phase = "clean"
  /\ text.raw <= CheckedLength
  /\ phase' = "infer"
  /\ UNCHANGED <<model, text, emissions, scores, back, path, alpha, beta, probs, spans, confidence>>

RejectLong ==
  /\ phase = "clean"
  /\ text.raw > CheckedLength
  /\ phase' = "failed"
  /\ UNCHANGED <<model, text, emissions, scores, back, path, alpha, beta, probs, spans, confidence>>

(***************************************************************************)
(* InferenceEngine.Run, then validateOutputs and validateCRFInputs: as     *)
(* many rows as the mask is long, each with one entry per label.           *)
(***************************************************************************)
WellShaped(output) ==
  /\ Len(output) = model.maxLength
  /\ \A p \in DOMAIN output : Len(output[p]) = Len(model.labels)

\* A text of no characters has no valid position: an empty path, marginals that
\* are all zero and no span.
RunEngine ==
  /\ phase = "infer"
  /\ \E output \in Outputs :
       /\ WellShaped(output)
       /\ emissions' = output
  /\ phase' = IF Masked = 0 THEN "report" ELSE "decode"
  /\ probs' = IF Masked = 0 THEN [p \in 1..model.maxLength |-> [k \in LabelIds |-> 0]] ELSE probs
  /\ UNCHANGED <<model, text, scores, back, path, alpha, beta, spans, confidence>>

\* The engine's own error, or an output of the wrong shape.
EngineError ==
  /\ phase = "infer"
  /\ phase' = "failed"
  /\ UNCHANGED <<model, text, emissions, scores, back, path, alpha, beta, probs, spans, confidence>>

(***************************************************************************)
(* CRF.Decode: best weights forward, then the backpointers back.           *)
(***************************************************************************)
StartWeight(id) == ValueAt(model.start, id) * emissions[1][id]

LastLabel == FirstBest([id \in LabelIds |-> scores[id] * ValueAt(model.end, id)])

\* Slip: the transition is left out of the comparison.
PreviousByScore == [next \in LabelIds |-> FirstBest(scores)]

\* The best label to come from, at each label of position Len(back) + 2.
Previous ==
  [next \in LabelIds |->
     FirstBest([prev \in LabelIds |->
                  scores[prev] * Transition(prev, next) * emissions[Len(back) + 2][next]])]

DecodeFirst ==
  /\ phase = "decode" /\ scores = <<>>
  /\ scores' = [id \in LabelIds |-> StartWeight(id)]
  /\ UNCHANGED <<model, text, phase, emissions, back, path, alpha, beta, probs, spans, confidence>>

DecodeNext ==
  /\ phase = "decode" /\ scores # <<>> /\ Len(back) + 1 < Masked
  /\ back' = Append(back, Previous)
  /\ scores' = [next \in LabelIds |->
                  scores[Previous[next]] * Transition(Previous[next], next)
                    * emissions[Len(back) + 2][next]]
  /\ UNCHANGED <<model, text, phase, emissions, path, alpha, beta, probs, spans, confidence>>

DecodeLast ==
  /\ phase = "decode" /\ scores # <<>> /\ Len(back) + 1 = Masked
  /\ path' = <<LastLabel>>
  /\ phase' = "trace"
  /\ UNCHANGED <<model, text, emissions, scores, back, alpha, beta, probs, spans, confidence>>

TraceBack ==
  /\ phase = "trace" /\ Len(path) < Masked
  /\ path' = <<back[Masked - Len(path)][Head(path)]>> \o path
  /\ UNCHANGED <<model, text, phase, emissions, scores, back, alpha, beta, probs, spans, confidence>>

DecodeDone ==
  /\ phase = "trace" /\ Len(path) = Masked
  /\ phase' = "forward"
  /\ UNCHANGED <<model, text, emissions, scores, back, path, alpha, beta, probs, spans, confidence>>

(***************************************************************************)
(* CRF.MarginalProbabilities: forward sums, backward sums, their product.  *)
(***************************************************************************)
AlphaAt(position) ==
  [next \in LabelIds |->
     IF position = 1 THEN StartWeight(next)
     ELSE emissions[position][next]
            * SumFunction([prev \in LabelIds |-> alpha[position - 1][prev] * Transition(prev, next)])]

\* Slip: the backward sum takes the emission of its own position.
BetaOwnEmission(position) ==
  [prev \in LabelIds |->
     IF position = Masked THEN ValueAt(model.end, prev)
     ELSE SumFunction([next \in LabelIds |->
            Transition(prev, next) * emissions[position][next] * Head(beta)[next]])]

\* beta grows from the end: its head belongs to the position after this one.
BetaAt(position) ==
  [prev \in LabelIds |->
     IF position = Masked THEN ValueAt(model.end, prev)
     ELSE SumFunction([next \in LabelIds |->
            Transition(prev, next) * emissions[position + 1][next] * Head(beta)[next]])]

Forward ==
  /\ phase = "forward"
  /\ alpha' = Append(alpha, AlphaAt(Len(alpha) + 1))
  /\ phase' = IF Len(alpha) + 1 = Masked THEN "backward" ELSE phase
  /\ UNCHANGED <<model, text, emissions, scores, back, path, beta, probs, spans, confidence>>

Backward ==
  /\ phase = "backward" /\ Len(beta) < Masked
  /\ beta' = <<BetaAt(Masked - Len(beta))>> \o beta
  /\ UNCHANGED <<model, text, phase, emissions, scores, back, path, alpha, probs, spans, confidence>>

\* The code's z.  Where it is 0 the code leaves the marginals at zero, and the
\* products are zero too.
Partition == SumFunction([id \in LabelIds |-> alpha[Masked][id] * ValueAt(model.end, id)])

Marginals ==
  /\ phase = "backward" /\ Len(beta) = Masked
  /\ probs' = [p \in 1..model.maxLength |-> [k \in LabelIds |->
                 IF p <= Masked THEN alpha[p][k] * beta[p][k] ELSE 0]]
  /\ phase' = "cut"
  /\ UNCHANGED <<model, text, emissions, scores, back, path, alpha, beta, spans, confidence>>

(***************************************************************************)
(* CreateDetailsFromBIOTags: one turn of the span loop.                    *)
(***************************************************************************)
TagAt(p) == model.labels[path[p]]

IsOther(label) == label.bio = Outside \/ label.tag = Other

TagForSpan(label) == IF label.bio = Outside THEN Other ELSE label.tag

\* Slip: the end of a run is the position after it.
RunPast(i, S) == 1 + CHOOSE e \in i..Len(path) : (i + 1)..e \subseteq S /\ e + 1 \notin S

\* The end of the run of positions of S that follows position i.
RunEnd(i, S) == CHOOSE e \in i..Len(path) : (i + 1)..e \subseteq S /\ e + 1 \notin S

Span(i, e, tag) == [start |-> i, end |-> e, tag |-> tag]

Positions == 1..Len(path)

\* Slip: labels are compared instead of tags.
LabelRun(i) ==
  Span(i, RunEnd(i, {p \in Positions : TagAt(p) = TagAt(i + 1)}), TagForSpan(TagAt(i + 1)))

NonStrictSpan(i) ==
  LET tag == TagForSpan(TagAt(i + 1))
  IN Span(i, RunEnd(i, {p \in Positions : TagForSpan(TagAt(p)) = tag}), tag)

\* Slip: an entity goes on over the inside labels of any entity.
AnyInside(i, entity) == RunEnd(i, {p \in Positions : TagAt(p).bio = Inside})

EntityEnd(i, entity) ==
  RunEnd(i, {p \in Positions : TagAt(p).bio = Inside /\ TagAt(p).tag = entity})

\* An inside label with no entity to be inside of is made OTHER, with those
\* that follow it.
StrictSpan(i) ==
  LET label == TagAt(i + 1)
  IN IF IsOther(label)
     THEN Span(i, RunEnd(i, {p \in Positions : IsOther(TagAt(p))}), Other)
     ELSE IF label.bio # Before
     THEN Span(i, RunEnd(i, {p \in Positions : TagAt(p).bio \notin {Before, Outside}}), Other)
     ELSE Span(i, EntityEnd(i + 1, label.tag), label.tag)

NextSpan(i) == IF model.strict THEN StrictSpan(i) ELSE NonStrictSpan(i)

\* Slip: the position after a span is skipped.
CutSkipping == IF spans = <<>> THEN 0 ELSE spans[Len(spans)].end + 1

\* Where the spans cut so far end.
Cut == IF spans = <<>> THEN 0 ELSE spans[Len(spans)].end

CutSpan ==
  /\ phase = "cut" /\ Cut < Len(path)
  /\ spans' = Append(spans, NextSpan(Cut))
  /\ UNCHANGED <<model, text, phase, emissions, scores, back, path, alpha, beta, probs, confidence>>

CutDone ==
  /\ phase = "cut" /\ Cut >= Len(path)
  /\ phase' = "report"
  /\ UNCHANGED <<model, text, emissions, scores, back, path, alpha, beta, probs, spans, confidence>>

(***************************************************************************)
(* The end of TagBatch: the confidence of each span.                       *)
(***************************************************************************)
\* Slip: the inside labels of a tag are left out of its series.
BeforeOnly(tag) == {k \in LabelIds : model.labels[k].tag = tag /\ model.labels[k].bio = Before}

\* Runner.bioTagIndices: of the labels that mean OTHER, the first only.
BioTagIndices(tag) ==
  IF tag = Other
  THEN {k \in LabelIds : /\ IsOther(model.labels[k])
                         /\ \A j \in 1..(k - 1) : ~IsOther(model.labels[j])}
  ELSE {k \in LabelIds : model.labels[k].tag = tag /\ model.labels[k].bio \in {Before, Inside}}

TagSeries(tag, p) == SumFunctionOnSet(probs[p], BioTagIndices(tag))

\* meanSlice, times the length of the span.
SpanSum(span) ==
  SumFunction([p \in (span.start + 1)..span.end |-> TagSeries(span.tag, p)])

Report ==
  /\ phase = "report"
  /\ confidence' = [s \in DOMAIN spans |-> SpanSum(spans[s])]
  /\ phase' = "answered"
  /\ UNCHANGED <<model, text, emissions, scores, back, path, alpha, beta, probs, spans>>

\* Tag has returned.
Rest == phase \in {"answered", "failed"} /\ UNCHANGED vars

Decode == DecodeFirst \/ DecodeNext \/ DecodeLast \/ TraceBack \/ DecodeDone

MarginalProbabilities == Forward \/ Backward \/ Marginals

Next ==
  \/ CleanSample \/ RejectLong
  \/ RunEngine \/ EngineError
  \/ Decode
  \/ MarginalProbabilities
  \/ CutSpan \/ CutDone
  \/ Report
  \/ Rest

Spec == Init /\ [][Next]_vars

(***************************************************************************)
(* Properties                                                              *)
(***************************************************************************)
\* Every variable keeps its type, and paths and spans stay within the text.
TypeOK ==
  /\ model \in Models /\ text \in Texts /\ phase \in Phases
  /\ path \in Seq(LabelIds) /\ Len(path) <= Masked
  /\ back \in Seq([LabelIds -> LabelIds])
  /\ spans \in Seq([start: Nat, end: 0..Len(path), tag: Tags])

Paths == [1..Masked -> LabelIds]

\* What CRF.Decode maximizes: all the weights along a path.
Weight(p) ==
  LET step(t) == (IF t = 1 THEN StartWeight(p[1])
                  ELSE Transition(p[t - 1], p[t]) * emissions[t][p[t]])
                 * (IF t = Masked THEN ValueAt(model.end, p[t]) ELSE 1)
  IN FoldFunction(LAMBDA x, y : x * y, 1, [t \in 1..Masked |-> step(t)])

\* Decode's path, found label by label with one backpointer each, is as good as
\* the best of all paths over the masked positions.
DecodedPathIsBest ==
  phase = "forward" /\ alpha = <<>> =>
    /\ Len(path) = Masked
    /\ \A p \in Paths : Weight(p) <= Weight(path)

\* MarginalProbabilities, from its two passes, gives each label at each position
\* the total weight of the paths through it, and nothing where the text has ended.
MarginalsAreExact ==
  phase = "cut" /\ spans = <<>> =>
    \A t \in 1..model.maxLength : \A k \in LabelIds :
      probs[t][k] = IF t > Masked THEN 0
                    ELSE LET through == {p \in Paths : p[t] = k}
                         IN SumFunction([p \in through |-> Weight(p)])

\* The spans cut so far follow one another without gap or overlap from the start
\* of the text, and an answered text is cut to the last masked character.
SpansTile ==
  /\ \A s \in DOMAIN spans :
       /\ spans[s].start = IF s = 1 THEN 0 ELSE spans[s - 1].end
       /\ spans[s].start < spans[s].end
  /\ phase = "answered" => Cut = Masked

Held(span) == (span.start + 1)..span.end

\* In strict mode an entity's span begins where the entity begins, continues over
\* its own inside labels and stops only where they stop; and wherever an entity
\* begins, a span of it begins: none is swallowed by its neighbour.
StrictSpansAreEntities ==
  model.strict =>
    /\ \A s \in DOMAIN spans : spans[s].tag # Other =>
         LET span == spans[s]
             insideOf == {p \in Positions : TagAt(p).bio = Inside /\ TagAt(p).tag = span.tag}
         IN /\ TagAt(span.start + 1).bio = Before /\ TagAt(span.start + 1).tag = span.tag
            /\ Held(span) \ {span.start + 1} \subseteq insideOf
            /\ span.end + 1 \notin insideOf
    /\ \A p \in 1..Cut : TagAt(p).bio = Before /\ TagAt(p).tag # Other =>
         \E s \in DOMAIN spans : spans[s].start = p - 1 /\ spans[s].tag = TagAt(p).tag

\* In the default mode a span is a longest run of one tag: each of its labels
\* says so, and the spans on both sides say something else.
NonStrictSpansAreRuns ==
  ~model.strict =>
    \A s \in DOMAIN spans :
      /\ \A p \in Held(spans[s]) : TagForSpan(TagAt(p)) = spans[s].tag
      /\ s > 1 => spans[s - 1].tag # spans[s].tag

\* The confidence reported with an entity is backed by the path it was cut from:
\* per character no less than that path's probability, and no more than 1.  It
\* ties the two passes over the text, decoding and marginals, to the spans.
ConfidenceIsBacked ==
  phase = "answered" =>
    \A s \in DOMAIN spans :
      LET length == spans[s].end - spans[s].start
      IN /\ confidence[s] <= length * Partition
         /\ spans[s].tag # Other => confidence[s] >= length * Weight(path)

\* The CLI's promise: an address longer than the configured maximum is an error.
\* The check uses the program's own setting, the model its converted one.
LongAddressRefused == phase = "answered" => text.raw <= model.maxLength

=============================================================================
