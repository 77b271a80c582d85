--------------------------- MODULE CascadeProofs ---------------------------
(***************************************************************************)
(* The safety of the online service for any number of requests, of any     *)
(* texts, in any configuration.  The inductive invariant adds to the       *)
(* properties of Cascade where each request is in its loops, which texts   *)
(* it still owes an answer, and what it knew of the reviews.               *)
(*                                                                         *)
(* A step of a request has one of six shapes, whatever branch of         *)
(* tryStage1 it comes from; the lemmas below go through the shapes.        *)
(***************************************************************************)
EXTENDS Cascade, CacheEntriesProofs

\* Where a request is in its two loops, and which texts get that far.
Place(r) ==
  /\ pc[r] = "idle" => batch[r] = <<>> /\ misses[r] = <<>>
  /\ pc[r] \in {"lookup", "search"} => pos[r] \in 1..Len(batch[r])
  /\ pc[r] = "search" => Key(r) \in Keys
  /\ pc[r] \in {"pipeline", "write"} => pos[r] \in 1..Len(misses[r])
  /\ \A i \in 1..Len(misses[r]) : Normalized[batch[r][misses[r][i].index]] \in Keys
  /\ \A i \in 1..Len(batch[r]) : items[r][i] # NoItem => Normalized[batch[r][i]] \in Keys

\* A text that has been passed has its answer or is a miss still to be written.
Covered(r) ==
  /\ pc[r] \in {"lookup", "search"} =>
       \A i \in 1..Len(batch[r]) :
         i < pos[r] => \/ items[r][i] # NoItem
                       \/ \E m \in 1..Len(misses[r]) : misses[r][m].index = i
  /\ pc[r] \in {"pipeline", "write"} =>
       \A i \in 1..Len(batch[r]) :
         \/ items[r][i] # NoItem
         \/ \E m \in 1..Len(misses[r]) : pos[r] <= m /\ misses[r][m].index = i
  /\ pc[r] = "done" => \A i \in 1..Len(batch[r]) : items[r][i] # NoItem

Excused == {"stage1_unconfigured", "cache_error"}

\* A request gets past the exact lookup of a reviewed address only with an excuse.
PassedOver(r) ==
  /\ pc[r] = "search" => known[r][Key(r)] = Unverified
  /\ \A i \in 1..Len(misses[r]) :
       known[r][Normalized[batch[r][misses[r][i].index]]] # Unverified =>
         misses[r][i].reason \in Excused

\* What a request knew to be reviewed still is.
StillReviewed(r) == \A k \in Keys : known[r][k] # Unverified => verified[k] # Unverified

\* The answers given so far.
AnswersGood(r) ==
  \A i \in 1..Len(batch[r]) : items[r][i] # NoItem =>
    LET item == items[r][i]
        k == Normalized[batch[r][i]] IN
    /\ item.input = batch[r][i]
    /\ IF item.servedBy = "stage2_pipeline"
       THEN Subject[item.structured] = k
       ELSE CloseEnough(k, Subject[item.structured])
    /\ Trusted(Author[item.structured])
    /\ known[r][k] # Unverified =>
         \/ item.reason \in Excused
         \/ Author[item.structured] = HumanVerified /\ Subject[item.structured] = k

WritesLast(r) == wrote[r] => pc[r] \in {"write", "done", "dead"}

RequestInv(r) ==
  Place(r) /\ Covered(r) /\ PassedOver(r) /\ StillReviewed(r) /\ AnswersGood(r) /\ WritesLast(r)

CacheInv == Store!HumanDecisionStands /\ Store!LabelMatchesAnswer /\ RowsAboutTheirKey

IInv == TypeOK /\ CacheInv /\ \A r \in Requests : RequestInv(r)

-----------------------------------------------------------------------------
\* The store this module instantiates has the same rows, entries and merge.
LEMMA SameEntries == Store!Row = Row /\ Store!Entry = Entry
BY DEF Store!Row, Row, Store!Entry, Entry, Store!Sources, Sources,
       Store!HumanVerified, HumanVerified, Store!CRFPipeline, CRFPipeline,
       Store!LLMAssisted, LLMAssisted, Store!SonnetSeed, SonnetSeed

LEMMA SameMerge ==
  ASSUME NEW existing, NEW e
  PROVE  Store!MergeWrite(existing, e) = MergeWrite(existing, e)
BY DEF Store!MergeWrite, MergeWrite, Store!HumanVerified, HumanVerified

\* An upsert of an answer made for its key keeps the cache in order, and no
\* review is ever forgotten.
LEMMA UpsertKeeps ==
  ASSUME Store!TypeOK, CacheInv, NEW k \in Keys, NEW e \in Entry,
         Subject[e.structured] = k, Store!Upsert(k, e)
  PROVE  /\ Store!TypeOK'
         /\ CacheInv'
         /\ \A j \in Keys : verified[j] # Unverified => verified'[j] # Unverified
<1> USE CacheEntriesAssumption, SameEntries DEF Store!TypeOK
<1> DEFINE new == MergeWrite(rows[k], e)
<1>1. rows[k] \in Row \cup {NoRow} /\ e \in Row
  BY DEF Entry
<1>2. new \in Row /\ new # NoRow
  BY <1>1, MergeWriteType
<1>3. rows' = [rows EXCEPT ![k] = new]
  BY SameMerge DEF Store!Upsert
<1>4. verified' = IF e.source = HumanVerified
                  THEN [verified EXCEPT ![k] = e.structured] ELSE verified
  BY DEF Store!Upsert, Store!RecordReview, Store!HumanVerified, HumanVerified
<1>5. e.structured \in Answers /\ e.structured # Unverified
  BY <1>1 DEF Row
<1> HIDE DEF new
<1>6. Store!TypeOK'
  BY <1>2, <1>3, <1>4, <1>5
<1>7. \A j \in Keys : verified[j] # Unverified => verified'[j] # Unverified
  BY <1>4, <1>5
<1>8. RowsAboutTheirKey'
  <2>1. Subject[new.structured] = k
    BY <1>1 DEF CacheInv, RowsAboutTheirKey, MergeWrite, new, Row
  <2> QED
    BY <1>3, <2>1 DEF CacheInv, RowsAboutTheirKey
<1>9. (Store!LabelMatchesAnswer)'
  <2>1. new.source = Author[new.structured]
    BY <1>1, MergeWriteLabel DEF CacheInv, Store!LabelMatchesAnswer, new
  <2> QED
    BY <1>3, <2>1 DEF CacheInv, Store!LabelMatchesAnswer
<1>10. (Store!HumanDecisionStands)'
  <2> USE DEF Store!HumanDecisionStands, Store!HumanVerified, HumanVerified
  <2>1. CASE e.source = HumanVerified
    <3>1. new = e
      BY <2>1, MergeWriteReview DEF new
    <3> QED
      BY <1>2, <1>3, <1>4, <2>1, <3>1 DEF CacheInv
  <2>2. CASE e.source # HumanVerified
    <3>1. verified[k] # Unverified => new.source = HumanVerified /\ new.structured = verified[k]
      BY <1>1, <2>2, MergeWriteProtects DEF CacheInv, new
    <3> QED
      BY <1>2, <1>3, <1>4, <2>2, <3>1 DEF CacheInv
  <2> QED
    BY <2>1, <2>2
<1> QED
  BY <1>6, <1>7, <1>8, <1>9, <1>10 DEF CacheInv

-----------------------------------------------------------------------------
\* The shapes of a request's steps up to the pipeline.
OnlyPc(r, phase) ==
  /\ pc' = [pc EXCEPT ![r] = phase]
  /\ UNCHANGED <<setup, cacheVars, batch, pos, misses, items, known, wrote>>

Fails(r) == OnlyPc(r, "failed")

Searches(r) ==
  /\ pc[r] = "lookup" /\ Key(r) \in Keys
  /\ known[r][Key(r)] = Unverified
  /\ OnlyPc(r, "search")

Serves(r) ==
  /\ pc[r] \in {"lookup", "search"} /\ Key(r) \in Keys
  /\ \E k \in Keys :
       /\ rows[k] # NoRow /\ Trusted(rows[k].source) /\ CloseEnough(Key(r), k)
       /\ known[r][Key(r)] # Unverified => k = Key(r)
       /\ ServeFrom(r, rows[k])

GivesUp(r) ==
  /\ pc[r] \in {"lookup", "search"} /\ Key(r) \in Keys
  /\ \E reason \in Reasons, embedded \in BOOLEAN :
       /\ known[r][Key(r)] # Unverified => reason \in Excused
       /\ FallBack(r, reason, embedded)

LEMMA StepShapes ==
  ASSUME IInv, NEW r \in Requests, Step(r)
  PROVE  \/ (pc[r] \in {"lookup", "pipeline"} /\ Fails(r))
         \/ Searches(r) \/ Serves(r) \/ GivesUp(r)
         \/ RunPipeline(r) \/ WriteBack(r)
<1> USE CacheEntriesAssumption, SameEntries
<1>1. Place(r) /\ PassedOver(r) /\ StillReviewed(r) /\ CacheInv /\ TypeOK
  BY DEF IInv, RequestInv
<1>2. pc[r] = "lookup" => Key(r) \in Keys \cup {NoKey}
  BY <1>1, CascadeAssumption DEF Place, TypeOK, Key, Text
<1>3. ASSUME pc[r] = "lookup", Key(r) # NoKey, known[r][Key(r)] # Unverified
      PROVE  rows[Key(r)] # NoRow /\ rows[Key(r)].source = HumanVerified
  BY <1>1, <1>2, <1>3 DEF StillReviewed, CacheInv, Store!HumanDecisionStands,
     Store!HumanVerified, HumanVerified
<1>4. CASE NothingToConvert(r) \/ PipelineError(r)
  BY <1>4 DEF NothingToConvert, PipelineError, Fails, OnlyPc
<1>5. CASE Unconfigured(r)
  BY <1>2, <1>5 DEF Unconfigured, GivesUp, Reasons, Excused
<1>6. CASE LookupError(r)
  BY <1>2, <1>6 DEF LookupError, GivesUp, Reasons, Excused
<1>7. CASE LookupHit(r)
  BY <1>2, <1>7 DEF LookupHit, Serves, CloseEnough
<1>8. CASE LookupMiss(r)
  <2>1. Key(r) \in Keys /\ known[r][Key(r)] = Unverified
    BY <1>2, <1>3, <1>8 DEF LookupMiss, Trusted
  <2>2. CASE setup.embedder
    BY <1>8, <2>1, <2>2 DEF LookupMiss, Searches, OnlyPc
  <2>3. CASE ~setup.embedder
    BY <1>8, <2>1, <2>3 DEF LookupMiss, GivesUp, Reasons
  <2> QED
    BY <2>2, <2>3
<1>9. ASSUME pc[r] = "search"
      PROVE  Key(r) \in Keys /\ known[r][Key(r)] = Unverified
  BY <1>1, <1>9 DEF Place, PassedOver
<1>10. CASE EmbedError(r)
  BY <1>9, <1>10 DEF EmbedError, GivesUp, Reasons
<1>11. CASE SearchError(r)
  BY <1>9, <1>11 DEF SearchError, GivesUp, Reasons
<1>12. CASE SearchHit(r)
  <2>1. PICK j \in Keys : rows[j] # NoRow /\ PassesGates(Key(r), j) /\ ServeFrom(r, rows[j])
    BY <1>12 DEF SearchHit, Candidates
  <2> QED
    BY <1>9, <1>12, <2>1 DEF SearchHit, PassesGates, Serves, CloseEnough
<1>13. CASE SearchMiss(r)
  <2>1. FallBack(r, "cache_miss", TRUE) \/ \E j \in Keys : FallBack(r, FailedGate(Key(r), j), TRUE)
    BY <1>13 DEF SearchMiss, Candidates
  <2>2. \A j \in Keys : FailedGate(Key(r), j) \in Reasons
    BY <1>9, <1>13, CascadeAssumption DEF SearchMiss, FailedGate, Reasons
  <2> QED
    BY <1>9, <1>13, <2>1, <2>2 DEF SearchMiss, GivesUp, Reasons
<1> QED
  BY <1>4, <1>5, <1>6, <1>7, <1>8, <1>10, <1>11, <1>12, <1>13 DEF Step

-----------------------------------------------------------------------------
\* What every shape is shown to do: the step keeps the invariant for its own
\* request, the cache and the types, and nothing of the other requests changes.
Untouched(q) ==
  /\ batch'[q] = batch[q] /\ pc'[q] = pc[q] /\ pos'[q] = pos[q]
  /\ misses'[q] = misses[q] /\ items'[q] = items[q]
  /\ known'[q] = known[q] /\ wrote'[q] = wrote[q]

ReviewsKept == \A k \in Keys : verified[k] # Unverified => verified'[k] # Unverified

Kept(r) ==
  /\ TypeOK' /\ CacheInv' /\ RequestInv(r)'
  /\ setup' = setup /\ ReviewsKept
  /\ \A q \in Requests \ {r} : Untouched(q)

LEMMA UntouchedKeeps ==
  ASSUME NEW q \in Requests, RequestInv(q), Untouched(q), setup' = setup, ReviewsKept
  PROVE  RequestInv(q)'
<1> USE DEF Untouched
<1>1. Place(q)' /\ Covered(q)' /\ PassedOver(q)' /\ WritesLast(q)'
  BY DEF RequestInv, Place, Covered, PassedOver, WritesLast, Key, Text
<1>2. StillReviewed(q)'
  BY DEF RequestInv, StillReviewed, ReviewsKept
<1>3. AnswersGood(q)'
  BY DEF RequestInv, AnswersGood, Trusted, CloseEnough
<1> QED
  BY <1>1, <1>2, <1>3 DEF RequestInv

LEMMA CacheUntouched == ASSUME CacheInv, UNCHANGED cacheVars PROVE CacheInv' /\ ReviewsKept
BY DEF CacheInv, cacheVars, Store!HumanDecisionStands, Store!LabelMatchesAnswer,
       RowsAboutTheirKey, ReviewsKept

\* A step that only moves the request on.
LEMMA OnlyPcKeeps ==
  ASSUME IInv, NEW r \in Requests, NEW phase \in Phases, OnlyPc(r, phase),
         \/ phase = "failed" /\ pc[r] \in {"lookup", "pipeline"}
         \/ phase = "dead" /\ pc[r] \in Running
         \/ phase = "write" /\ pc[r] = "pipeline"
         \/ phase = "search" /\ pc[r] = "lookup" /\ Key(r) \in Keys /\ known[r][Key(r)] = Unverified
  PROVE  Kept(r)
<1>1. pc'[r] = phase /\ \A q \in Requests \ {r} : pc'[q] = pc[q]
  BY DEF IInv, TypeOK, OnlyPc
<1>2. UNCHANGED <<setup, cacheVars, batch, pos, misses, items, known, wrote>>
  BY DEF OnlyPc
<1>3. TypeOK'
  BY <1>2 DEF IInv, TypeOK, OnlyPc, Store!TypeOK, cacheVars
<1>4. CacheInv' /\ ReviewsKept
  BY <1>2, CacheUntouched DEF IInv
<1>5. Place(r)'
  BY <1>1, <1>2 DEF IInv, RequestInv, Place, Key, Text, Running
<1>6. Covered(r)'
  BY <1>1, <1>2 DEF IInv, RequestInv, Covered, Running
<1>7. PassedOver(r)' /\ StillReviewed(r)' /\ WritesLast(r)'
  BY <1>1, <1>2 DEF IInv, RequestInv, PassedOver, StillReviewed, WritesLast, Key, Text, Running, cacheVars
<1>8. AnswersGood(r)'
  BY <1>2 DEF IInv, RequestInv, AnswersGood, Trusted, CloseEnough
<1> QED
  BY <1>1, <1>2, <1>3, <1>4, <1>5, <1>6, <1>7, <1>8 DEF Kept, RequestInv, Untouched

\* The types of one request's lists.
LEMMA Lists ==
  ASSUME TypeOK, NEW r \in Requests
  PROVE  /\ batch[r] \in Seq(Inputs) /\ DOMAIN batch[r] = 1..Len(batch[r]) /\ Len(batch[r]) \in Nat
         /\ \A i \in 1..Len(batch[r]) : batch[r][i] \in Inputs
         /\ misses[r] \in Seq(Miss) /\ Len(misses[r]) \in Nat
         /\ \A i \in 1..Len(misses[r]) :
              misses[r][i] \in Miss /\ misses[r][i].index \in 1..Len(batch[r])
         /\ items[r] \in Seq(Item \cup {NoItem}) /\ Len(items[r]) = Len(batch[r])
         /\ DOMAIN items[r] = 1..Len(batch[r]) /\ pos[r] \in Nat
<1>1. batch[r] \in Seq(Inputs)
  BY CascadeAssumption DEF TypeOK
<1>2. misses[r] \in Seq(Miss) /\ items[r] \in Seq(Item \cup {NoItem}) /\ pos[r] \in Nat
  BY DEF TypeOK
<1>3. DOMAIN batch[r] = 1..Len(batch[r]) /\ Len(batch[r]) \in Nat
      /\ \A i \in 1..Len(batch[r]) : batch[r][i] \in Inputs
  BY <1>1
<1>4. Len(misses[r]) \in Nat /\ DOMAIN misses[r] = 1..Len(misses[r])
      /\ \A i \in 1..Len(misses[r]) : misses[r][i] \in Miss
  BY <1>2
<1>5. \A i \in 1..Len(misses[r]) : misses[r][i].index \in 1..Len(batch[r])
  BY <1>3, <1>4 DEF TypeOK
<1>6. DOMAIN items[r] = DOMAIN batch[r]
  BY DEF TypeOK
<1>7. DOMAIN items[r] = 1..Len(batch[r]) /\ Len(items[r]) = Len(batch[r])
  BY <1>2, <1>3, <1>6
<1> QED
  BY <1>1, <1>2, <1>3, <1>4, <1>5, <1>7

\* The loop index goes to the next text, or the loop is over.
LEMMA NextTextMoves ==
  ASSUME TypeOK, NEW r \in Requests, pos[r] \in 1..Len(batch[r]), NEW found, NextText(r, found)
  PROVE  /\ pc' \in [Requests -> Phases] /\ pos' \in [Requests -> Nat]
         /\ \A q \in Requests \ {r} : pc'[q] = pc[q] /\ pos'[q] = pos[q]
         /\ \/ pos[r] < Len(batch[r]) /\ pc'[r] = "lookup" /\ pos'[r] = pos[r] + 1
            \/ pos[r] = Len(batch[r]) /\ pos'[r] = 1 /\ pc'[r] = "done" /\ found = <<>>
            \/ pos[r] = Len(batch[r]) /\ pos'[r] = 1 /\ pc'[r] = "pipeline" /\ found # <<>>
<1>1. batch[r] \in Seq(Inputs) /\ Len(batch[r]) \in Nat /\ pos[r] \in Nat
  BY CascadeAssumption DEF TypeOK
<1>2. CASE pos[r] < Len(batch[r])
  <2>1. pc' = [pc EXCEPT ![r] = "lookup"] /\ pos' = [pos EXCEPT ![r] = pos[r] + 1]
    BY <1>2 DEF NextText
  <2> QED
    BY <1>1, <1>2, <2>1 DEF TypeOK, Phases
<1>3. CASE ~(pos[r] < Len(batch[r])) /\ found = <<>>
  <2>1. pc' = [pc EXCEPT ![r] = "done"] /\ pos' = [pos EXCEPT ![r] = 1]
    BY <1>3 DEF NextText
  <2> QED
    BY <1>1, <1>3, <2>1 DEF TypeOK, Phases
<1>4. CASE ~(pos[r] < Len(batch[r])) /\ found # <<>>
  <2>1. pc' = [pc EXCEPT ![r] = "pipeline"] /\ pos' = [pos EXCEPT ![r] = 1]
    BY <1>4 DEF NextText
  <2> QED
    BY <1>1, <1>4, <2>1 DEF TypeOK, Phases
<1> QED
  BY <1>2, <1>3, <1>4

\* A text given up: one miss more, at the text's own place.
LEMMA GivesUpKeeps == ASSUME IInv, NEW r \in Requests, GivesUp(r) PROVE Kept(r)
<1> PICK reason \in Reasons, embedded \in BOOLEAN :
      /\ known[r][Key(r)] # Unverified => reason \in Excused
      /\ FallBack(r, reason, embedded)
  BY DEF GivesUp
<1> DEFINE miss == [index |-> pos[r], embedded |-> embedded, reason |-> reason]
           found == Append(misses[r], miss)
           n == Len(misses[r])
<1>1. /\ TypeOK /\ CacheInv /\ RequestInv(r)
      /\ pc[r] \in {"lookup", "search"} /\ Key(r) \in Keys
      /\ pos[r] \in 1..Len(batch[r]) /\ pos[r] \in Nat /\ Len(batch[r]) \in Nat
      /\ batch[r] \in Seq(Inputs) /\ DOMAIN batch[r] = 1..Len(batch[r])
  BY Lists DEF IInv, RequestInv, Place, GivesUp
<1>2. misses[r] \in Seq(Miss) /\ n \in Nat /\ miss \in Miss
  BY <1>1, Lists DEF Miss
<1>3. /\ found \in Seq(Miss) /\ found # <<>> /\ Len(found) = n + 1 /\ found[n + 1] = miss
      /\ \A i \in 1..n : found[i] = misses[r][i]
  BY <1>2
<1>4. /\ misses' = [misses EXCEPT ![r] = found] /\ NextText(r, found)
      /\ UNCHANGED <<setup, cacheVars, batch, items, known, wrote>>
  BY DEF FallBack
<1> HIDE DEF miss, found, n
<1>5. /\ pc' \in [Requests -> Phases] /\ pos' \in [Requests -> Nat]
      /\ \A q \in Requests \ {r} : pc'[q] = pc[q] /\ pos'[q] = pos[q]
      /\ \/ pos[r] < Len(batch[r]) /\ pc'[r] = "lookup" /\ pos'[r] = pos[r] + 1
         \/ pos[r] = Len(batch[r]) /\ pos'[r] = 1 /\ pc'[r] = "pipeline"
  BY <1>1, <1>3, <1>4, NextTextMoves
<1>6. misses' \in [Requests -> Seq(Miss)] /\ misses'[r] = found
      /\ \A q \in Requests \ {r} : misses'[q] = misses[q]
  BY <1>1, <1>3, <1>4 DEF TypeOK
<1>7. miss.index = pos[r] /\ miss.reason = reason /\ Normalized[batch[r][pos[r]]] = Key(r)
  BY DEF miss, Key, Text
<1>8. TypeOK'
  <2>1. \A q \in Requests : \A i \in DOMAIN misses'[q] : misses'[q][i].index \in DOMAIN batch[q]
    <3>1. \A i \in 1..n : found[i].index \in 1..Len(batch[r])
      BY <1>1, <1>3, Lists DEF n
    <3>2. \A i \in DOMAIN found : found[i].index \in DOMAIN batch[r]
      <4>1. DOMAIN found = 1..(n + 1)
        BY <1>2, <1>3
      <4> QED
        BY <1>1, <1>2, <1>3, <1>7, <3>1, <4>1
    <3> QED
      BY <1>1, <1>6, <3>2 DEF TypeOK
  <2> QED
    BY <1>1, <1>4, <1>5, <1>6, <2>1 DEF TypeOK, Store!TypeOK, cacheVars
<1>9. CacheInv' /\ ReviewsKept
  BY <1>1, <1>4, CacheUntouched
<1>10. Place(r)'
  <2>1. \A i \in 1..n : Normalized[batch[r][found[i].index]] \in Keys
    BY <1>1, <1>3 DEF RequestInv, Place, n
  <2>2. \A i \in 1..Len(found) : Normalized[batch[r][found[i].index]] \in Keys
    BY <1>1, <1>2, <1>3, <1>7, <2>1
  <2>4. pc'[r] \in {"lookup", "pipeline"} /\ (pc'[r] = "lookup" => pos'[r] \in 1..Len(batch[r]))
    BY <1>1, <1>5
  <2>5. pc'[r] = "pipeline" => pos'[r] \in 1..Len(found)
    BY <1>2, <1>3, <1>5
  <2>6. \A i \in 1..Len(batch[r]) : items[r][i] # NoItem => Normalized[batch[r][i]] \in Keys
    BY <1>1 DEF RequestInv, Place
  <2> QED
    BY <1>4, <1>6, <2>2, <2>4, <2>5, <2>6 DEF Place
<1>11. Covered(r)'
  <2>1. ASSUME NEW i \in 1..Len(batch[r]), i <= pos[r], items[r][i] = NoItem
        PROVE  \E m \in 1..Len(found) : found[m].index = i
    <3>1. CASE i = pos[r]
      BY <1>2, <1>3, <1>7, <3>1
    <3>2. CASE i < pos[r]
      <4>1. PICK m \in 1..n : misses[r][m].index = i
        BY <1>1, <2>1, <3>2 DEF RequestInv, Covered, n
      <4> QED
        BY <1>2, <1>3, <4>1
    <3> QED
      BY <1>1, <2>1, <3>1, <3>2
  <2>2. \A m \in 1..Len(found) : 1 <= m
    BY <1>2, <1>3
  <2> QED
    BY <1>1, <1>4, <1>5, <1>6, <2>1, <2>2 DEF Covered
<1>12. PassedOver(r)' /\ StillReviewed(r)' /\ WritesLast(r)'
  <2>1. \A i \in 1..n : known[r][Normalized[batch[r][found[i].index]]] # Unverified =>
                         found[i].reason \in Excused
    BY <1>1, <1>3 DEF RequestInv, PassedOver, n
  <2>2. \A i \in 1..Len(found) : known[r][Normalized[batch[r][found[i].index]]] # Unverified =>
                                 found[i].reason \in Excused
    BY <1>2, <1>3, <1>7, <2>1
  <2> QED
    BY <1>1, <1>4, <1>5, <1>6, <2>2 DEF RequestInv, PassedOver, StillReviewed, WritesLast, cacheVars
<1>13. AnswersGood(r)'
  BY <1>1, <1>4 DEF RequestInv, AnswersGood, Trusted, CloseEnough
<1> QED
  BY <1>4, <1>5, <1>6, <1>8, <1>9, <1>10, <1>11, <1>12, <1>13 DEF Kept, RequestInv, Untouched

\* An answer put in its own place leaves the others where they are.
LEMMA PutItem ==
  ASSUME TypeOK, NEW r \in Requests, NEW i \in 1..Len(batch[r]), NEW item \in Item,
         items' = [items EXCEPT ![r][i] = item]
  PROVE  /\ items' \in [Requests -> Seq(Item \cup {NoItem})]
         /\ \A q \in Requests \ {r} : items'[q] = items[q]
         /\ DOMAIN items'[r] = 1..Len(batch[r])
         /\ items'[r][i] = item /\ item # NoItem
         /\ \A j \in 1..Len(batch[r]) : j # i => items'[r][j] = items[r][j]
<1>1. items[r] \in Seq(Item \cup {NoItem}) /\ DOMAIN items[r] = 1..Len(batch[r])
  BY Lists
<1>2. items \in [Requests -> Seq(Item \cup {NoItem})]
  BY DEF TypeOK
<1>3. [items[r] EXCEPT ![i] = item] \in Seq(Item \cup {NoItem})
  BY <1>1
<1>4. items'[r] = [items[r] EXCEPT ![i] = item] /\ \A q \in Requests \ {r} : items'[q] = items[q]
  BY <1>2
<1>5. items' \in [Requests -> Seq(Item \cup {NoItem})]
  BY <1>2, <1>3
<1> QED
  BY <1>1, <1>4, <1>5, CascadeAssumption

\* A text answered from the cache.
LEMMA ServesKeeps == ASSUME IInv, NEW r \in Requests, Serves(r) PROVE Kept(r)
<1> USE CacheEntriesAssumption, SameEntries
<1>1. PICK k \in Keys :
        /\ rows[k] # NoRow /\ Trusted(rows[k].source) /\ CloseEnough(Key(r), k)
        /\ known[r][Key(r)] # Unverified => k = Key(r)
        /\ ServeFrom(r, rows[k])
  BY DEF Serves
<1> DEFINE item == [input |-> Text(r), structured |-> rows[k].structured,
                    servedBy |-> "stage1_cache", source |-> rows[k].source, reason |-> ""]
<1>2. /\ TypeOK /\ CacheInv /\ RequestInv(r)
      /\ pc[r] \in {"lookup", "search"} /\ Key(r) \in Keys
      /\ pos[r] \in 1..Len(batch[r]) /\ pos[r] \in Nat /\ Len(batch[r]) \in Nat
      /\ batch[r] \in Seq(Inputs) /\ DOMAIN batch[r] = 1..Len(batch[r])
  BY Lists DEF IInv, RequestInv, Place, Serves
<1>3. rows[k] \in Row
  BY <1>1, <1>2 DEF TypeOK, Store!TypeOK
<1>4. item \in Item
  BY <1>2, <1>3, Lists DEF Item, Row, Text
<1>5. /\ items' = [items EXCEPT ![r][pos[r]] = item] /\ NextText(r, misses[r])
      /\ UNCHANGED <<setup, cacheVars, batch, misses, known, wrote>>
  BY <1>1 DEF ServeFrom
<1>6. /\ item.input = batch[r][pos[r]] /\ item.structured = rows[k].structured
      /\ item.servedBy = "stage1_cache"
  BY DEF Text
<1> HIDE DEF item
<1>7. /\ pc' \in [Requests -> Phases] /\ pos' \in [Requests -> Nat]
      /\ \A q \in Requests \ {r} : pc'[q] = pc[q] /\ pos'[q] = pos[q]
      /\ \/ pos[r] < Len(batch[r]) /\ pc'[r] = "lookup" /\ pos'[r] = pos[r] + 1
         \/ pos[r] = Len(batch[r]) /\ pos'[r] = 1 /\ pc'[r] = "done" /\ misses[r] = <<>>
         \/ pos[r] = Len(batch[r]) /\ pos'[r] = 1 /\ pc'[r] = "pipeline" /\ misses[r] # <<>>
  BY <1>2, <1>5, NextTextMoves
<1>8. /\ items' \in [Requests -> Seq(Item \cup {NoItem})]
      /\ \A q \in Requests \ {r} : items'[q] = items[q]
      /\ DOMAIN items'[r] = 1..Len(batch[r])
      /\ items'[r][pos[r]] = item /\ item # NoItem
      /\ \A j \in 1..Len(batch[r]) : j # pos[r] => items'[r][j] = items[r][j]
  BY <1>2, <1>4, <1>5, PutItem
<1>9. TypeOK'
  <2>1. \A q \in Requests : DOMAIN items'[q] = DOMAIN batch[q]
    BY <1>2, <1>8 DEF TypeOK
  <2> QED
    BY <1>2, <1>5, <1>7, <1>8, <2>1 DEF TypeOK, Store!TypeOK, cacheVars
<1>10. CacheInv' /\ ReviewsKept
  BY <1>2, <1>5, CacheUntouched
<1>11. Len(misses[r]) \in Nat /\ (misses[r] # <<>> => Len(misses[r]) >= 1)
       /\ (misses[r] = <<>> => Len(misses[r]) = 0)
  <2>1. misses[r] \in Seq(Miss)
    BY <1>2, Lists
  <2> QED
    BY <2>1
<1>12. Place(r)'
  <2>1. pc'[r] = "lookup" => pos'[r] \in 1..Len(batch[r])
    BY <1>2, <1>7
  <2>2. pc'[r] = "pipeline" => pos'[r] \in 1..Len(misses[r])
    BY <1>7, <1>11
  <2>3. \A i \in 1..Len(batch[r]) : items'[r][i] # NoItem => Normalized[batch[r][i]] \in Keys
    BY <1>2, <1>8 DEF RequestInv, Place, Key, Text
  <2> QED
    BY <1>2, <1>5, <1>7, <2>1, <2>2, <2>3 DEF RequestInv, Place
<1>13. Covered(r)'
  <2>1. ASSUME NEW i \in 1..Len(batch[r]), i <= pos[r], items'[r][i] = NoItem
        PROVE  \E m \in 1..Len(misses[r]) : misses[r][m].index = i
    BY <1>2, <1>8, <2>1 DEF RequestInv, Covered
  <2>2. \A m \in 1..Len(misses[r]) : 1 <= m
    BY <1>11
  <2>3. pc'[r] = "lookup" => \A i \in 1..Len(batch[r]) : i < pos'[r] => i <= pos[r]
    BY <1>2, <1>7
  <2>4. pc'[r] # "lookup" => \A i \in 1..Len(batch[r]) : i <= pos[r]
    BY <1>2, <1>7
  <2>5. pc'[r] = "done" => Len(misses[r]) = 0
    BY <1>7, <1>11
  <2> QED
    BY <1>5, <1>7, <2>1, <2>2, <2>3, <2>4, <2>5 DEF Covered
<1>14. PassedOver(r)' /\ StillReviewed(r)' /\ WritesLast(r)'
  BY <1>2, <1>5, <1>7 DEF RequestInv, PassedOver, StillReviewed, WritesLast, cacheVars
<1>15. AnswersGood(r)'
  <2>1. Subject[rows[k].structured] = k /\ Author[rows[k].structured] = rows[k].source
    BY <1>1, <1>2 DEF CacheInv, RowsAboutTheirKey, Store!LabelMatchesAnswer
  <2>2. known[r][Key(r)] # Unverified => rows[k].source = HumanVerified
    BY <1>1, <1>2 DEF RequestInv, StillReviewed, CacheInv, Store!HumanDecisionStands,
       Store!HumanVerified, HumanVerified
  <2> SUFFICES ASSUME NEW i \in 1..Len(batch[r]), items'[r][i] # NoItem
               PROVE  LET it == items'[r][i]
                          j == Normalized[batch[r][i]] IN
                      /\ it.input = batch[r][i]
                      /\ IF it.servedBy = "stage2_pipeline"
                         THEN Subject[it.structured] = j
                         ELSE CloseEnough(j, Subject[it.structured])
                      /\ Trusted(Author[it.structured])
                      /\ known[r][j] # Unverified =>
                           \/ it.reason \in Excused
                           \/ Author[it.structured] = HumanVerified /\ Subject[it.structured] = j
    BY <1>5 DEF AnswersGood, Trusted, CloseEnough
  <2>3. CASE i = pos[r]
    BY <1>1, <1>6, <1>8, <2>1, <2>2, <2>3 DEF Key, Text
  <2>4. CASE i # pos[r]
    BY <1>2, <1>8, <2>4 DEF RequestInv, AnswersGood
  <2> QED
    BY <2>3, <2>4
<1> QED
  BY <1>5, <1>7, <1>8, <1>9, <1>10, <1>12, <1>13, <1>14, <1>15 DEF Kept, RequestInv, Untouched

\* One result of the pipeline delivered, and written back or not.
LEMMA WriteBackKeeps == ASSUME IInv, NEW r \in Requests, WriteBack(r) PROVE Kept(r)
<1> USE CacheEntriesAssumption, SameEntries
<1> DEFINE miss == misses[r][pos[r]]
           at == miss.index
           text == batch[r][at]
           item == [input |-> text, structured |-> Stage2[text], servedBy |-> "stage2_pipeline",
                    source |-> CRFPipeline, reason |-> miss.reason]
           n == Len(misses[r])
<1>1. /\ TypeOK /\ CacheInv /\ RequestInv(r) /\ pc[r] = "write"
      /\ n \in Nat /\ pos[r] \in 1..n /\ pos[r] \in Nat
      /\ miss \in Miss /\ at \in 1..Len(batch[r]) /\ text \in Inputs
      /\ batch[r] \in Seq(Inputs) /\ DOMAIN batch[r] = 1..Len(batch[r])
  BY Lists DEF IInv, RequestInv, Place, WriteBack
<1>2. Normalized[text] \in Keys /\ Stage2[text] \in Answers
      /\ Author[Stage2[text]] = CRFPipeline /\ Subject[Stage2[text]] = Normalized[text]
  BY <1>1, CascadeAssumption DEF RequestInv, Place
<1>3. item \in Item
  BY <1>1, <1>2 DEF Item, Miss, Sources
<1>4. /\ items' = [items EXCEPT ![r][at] = item]
      /\ pos' = [pos EXCEPT ![r] = pos[r] + 1]
      /\ pc' = [pc EXCEPT ![r] = IF pos[r] < n THEN "write" ELSE "done"]
      /\ UNCHANGED <<setup, outside, batch, misses, known>>
  BY DEF WriteBack, ResultIndex, AfterWriteError
<1>5. \/ Store!Upsert(WriteBackKey(r), WriteBackEntry(r)) /\ wrote' = [wrote EXCEPT ![r] = TRUE]
      \/ UNCHANGED <<rows, verified, wrote>>
  BY DEF WriteBack
<1>6. /\ WriteBackKey(r) = Normalized[text]
      /\ WriteBackEntry(r) = [input |-> text, source |-> CRFPipeline, structured |-> Stage2[text]]
  BY DEF WriteBackKey, WriteBackEntry, ResultIndex
<1>7. /\ item.input = text /\ item.structured = Stage2[text]
      /\ item.servedBy = "stage2_pipeline" /\ item.reason = miss.reason
  OBVIOUS
<1> HIDE DEF item, text, at, miss, n
<1>8. (Store!TypeOK)' /\ CacheInv' /\ ReviewsKept
  <2>1. CASE Store!Upsert(WriteBackKey(r), WriteBackEntry(r))
    <3>1. WriteBackEntry(r) \in Entry /\ Subject[WriteBackEntry(r).structured] = WriteBackKey(r)
      BY <1>1, <1>2, <1>6 DEF Entry, Row, Sources
    <3> QED
      BY <1>1, <1>2, <1>6, <2>1, <3>1, UpsertKeeps DEF TypeOK, ReviewsKept
  <2>2. CASE UNCHANGED <<rows, verified, wrote>>
    BY <1>1, <1>4, <2>2, CacheUntouched DEF TypeOK, Store!TypeOK, cacheVars
  <2> QED
    BY <1>5, <2>1, <2>2
<1>9. /\ items' \in [Requests -> Seq(Item \cup {NoItem})]
      /\ \A q \in Requests \ {r} : items'[q] = items[q]
      /\ DOMAIN items'[r] = 1..Len(batch[r])
      /\ items'[r][at] = item /\ item # NoItem
      /\ \A j \in 1..Len(batch[r]) : j # at => items'[r][j] = items[r][j]
  BY <1>1, <1>3, <1>4, PutItem
<1>10. /\ pc' \in [Requests -> Phases] /\ pos' \in [Requests -> Nat] /\ wrote' \in [Requests -> BOOLEAN]
       /\ \A q \in Requests \ {r} : pc'[q] = pc[q] /\ pos'[q] = pos[q] /\ wrote'[q] = wrote[q]
       /\ pos'[r] = pos[r] + 1
       /\ \/ pos[r] < n /\ pc'[r] = "write"
          \/ pos[r] = n /\ pc'[r] = "done"
  <2>1. wrote' \in [Requests -> BOOLEAN] /\ \A q \in Requests \ {r} : wrote'[q] = wrote[q]
    BY <1>1, <1>5 DEF TypeOK
  <2>2. /\ pc' \in [Requests -> Phases] /\ pos' \in [Requests -> Nat]
        /\ \A q \in Requests \ {r} : pc'[q] = pc[q] /\ pos'[q] = pos[q]
        /\ pos'[r] = pos[r] + 1
    BY <1>1, <1>4 DEF TypeOK, Phases
  <2>3. CASE pos[r] < n
    BY <1>1, <1>4, <2>1, <2>2, <2>3 DEF TypeOK
  <2>4. CASE pos[r] = n
    BY <1>1, <1>4, <2>1, <2>2, <2>4 DEF TypeOK
  <2> QED
    BY <1>1, <2>1, <2>2, <2>3, <2>4
<1>11. TypeOK'
  <2>1. \A q \in Requests : DOMAIN items'[q] = DOMAIN batch[q]
    BY <1>1, <1>9 DEF TypeOK
  <2> QED
    BY <1>1, <1>4, <1>8, <1>9, <1>10, <2>1 DEF TypeOK
<1>12. Place(r)'
  <2>1. \A i \in 1..Len(batch[r]) : items'[r][i] # NoItem => Normalized[batch[r][i]] \in Keys
    BY <1>1, <1>2, <1>9 DEF RequestInv, Place, text
  <2>2. pc'[r] = "write" => pos'[r] \in 1..n
    BY <1>1, <1>10
  <2> QED
    BY <1>1, <1>4, <1>10, <2>1, <2>2 DEF RequestInv, Place, n
<1>13. Covered(r)'
  <2>1. ASSUME NEW i \in 1..Len(batch[r]), items'[r][i] = NoItem
        PROVE  \E m \in 1..n : pos[r] + 1 <= m /\ misses[r][m].index = i
    <3>1. i # at /\ items[r][i] = NoItem
      BY <1>9, <2>1
    <3>2. PICK m \in 1..n : pos[r] <= m /\ misses[r][m].index = i
      BY <1>1, <3>1 DEF RequestInv, Covered, n
    <3>3. m # pos[r]
      BY <3>1, <3>2 DEF at, miss
    <3> QED
      BY <1>1, <3>2, <3>3
  <2>2. pc'[r] = "done" => \A i \in 1..Len(batch[r]) : items'[r][i] # NoItem
    BY <1>1, <1>10, <2>1
  <2> QED
    BY <1>4, <1>10, <2>1, <2>2 DEF Covered, n
<1>14. PassedOver(r)' /\ StillReviewed(r)' /\ WritesLast(r)'
  BY <1>1, <1>4, <1>8, <1>10 DEF RequestInv, PassedOver, StillReviewed, WritesLast, ReviewsKept, TypeOK
<1>15. AnswersGood(r)'
  <2>1. known[r][Normalized[text]] # Unverified => miss.reason \in Excused
    BY <1>1 DEF RequestInv, PassedOver, miss, at, text, n
  <2> SUFFICES ASSUME NEW i \in 1..Len(batch[r]), items'[r][i] # NoItem
               PROVE  LET it == items'[r][i]
                          j == Normalized[batch[r][i]] IN
                      /\ it.input = batch[r][i]
                      /\ IF it.servedBy = "stage2_pipeline"
                         THEN Subject[it.structured] = j
                         ELSE CloseEnough(j, Subject[it.structured])
                      /\ Trusted(Author[it.structured])
                      /\ known[r][j] # Unverified =>
                           \/ it.reason \in Excused
                           \/ Author[it.structured] = HumanVerified /\ Subject[it.structured] = j
    BY <1>4 DEF AnswersGood, Trusted, CloseEnough
  <2>2. CASE i = at
    BY <1>2, <1>7, <1>9, <2>1, <2>2 DEF Trusted, text
  <2>3. CASE i # at
    BY <1>1, <1>9, <2>3 DEF RequestInv, AnswersGood
  <2> QED
    BY <2>2, <2>3
<1> QED
  BY <1>4, <1>8, <1>9, <1>10, <1>11, <1>12, <1>13, <1>14, <1>15 DEF Kept, RequestInv, Untouched

\* A new request knows the reviews of its time and has answered nothing.
LEMMA ReceiveKeeps == ASSUME IInv, NEW r \in Requests, NEW b \in Batches, Receive(r, b) PROVE Kept(r)
<1>1. /\ TypeOK /\ CacheInv /\ RequestInv(r) /\ pc[r] = "idle" /\ misses[r] = <<>>
      /\ b \in Seq(Inputs) /\ b # <<>> /\ Len(b) \in Nat /\ Len(b) >= 1 /\ DOMAIN b = 1..Len(b)
  <2>1. b \in Seq(Inputs) /\ b # <<>>
    BY CascadeAssumption
  <2>2. Len(b) \in Nat /\ Len(b) >= 1 /\ DOMAIN b = 1..Len(b)
    BY <2>1
  <2> QED
    BY <2>1, <2>2 DEF IInv, RequestInv, Place, Receive
<1>2. PICK phase \in {"rejected", "lookup"} : pc' = [pc EXCEPT ![r] = phase]
  <2>1. CASE \E i \in DOMAIN b : b[i] \in Blank
    <3>1. pc' = [pc EXCEPT ![r] = "rejected"]
      BY <2>1 DEF Receive
    <3> QED
      BY <3>1
  <2>2. CASE ~\E i \in DOMAIN b : b[i] \in Blank
    <3>1. pc' = [pc EXCEPT ![r] = "lookup"]
      BY <2>2 DEF Receive
    <3> QED
      BY <3>1
  <2> QED
    BY <2>1, <2>2
<1> DEFINE none == [i \in DOMAIN b |-> NoItem]
<1>3. none \in Seq(Item \cup {NoItem}) /\ DOMAIN none = DOMAIN b
      /\ \A i \in 1..Len(b) : none[i] = NoItem
  <2>1. none \in [1..Len(b) -> Item \cup {NoItem}]
    BY <1>1
  <2>2. none \in Seq(Item \cup {NoItem})
    BY <1>1, <2>1
  <2> QED
    BY <1>1, <2>1, <2>2
<1>4. /\ batch' = [batch EXCEPT ![r] = b] /\ pos' = [pos EXCEPT ![r] = 1]
      /\ items' = [items EXCEPT ![r] = none] /\ known' = [known EXCEPT ![r] = verified]
      /\ UNCHANGED <<setup, cacheVars, misses, wrote>>
  BY DEF Receive
<1> HIDE DEF none
<1>5. /\ batch'[r] = b /\ pc'[r] = phase /\ pos'[r] = 1 /\ items'[r] = none /\ known'[r] = verified
      /\ \A q \in Requests \ {r} : Untouched(q)
  BY <1>1, <1>2, <1>4 DEF TypeOK, Untouched
<1>6. TypeOK'
  <2>1. /\ batch' \in [Requests -> Batches \cup {<<>>}] /\ pc' \in [Requests -> Phases]
        /\ pos' \in [Requests -> Nat] /\ items' \in [Requests -> Seq(Item \cup {NoItem})]
    BY <1>1, <1>2, <1>3, <1>4 DEF TypeOK, Phases
  <2>2. known' \in [Requests -> [Keys -> Answers \cup {Unverified}]]
    BY <1>1, <1>4 DEF TypeOK, Store!TypeOK
  <2>3. \A q \in Requests : DOMAIN items'[q] = DOMAIN batch'[q]
    BY <1>1, <1>3, <1>5 DEF TypeOK, Untouched
  <2>4. \A q \in Requests : \A i \in DOMAIN misses'[q] : misses'[q][i].index \in DOMAIN batch'[q]
    BY <1>1, <1>4, <1>5 DEF TypeOK, Untouched
  <2> QED
    BY <1>1, <1>4, <2>1, <2>2, <2>3, <2>4 DEF TypeOK, Store!TypeOK, cacheVars
<1>7. CacheInv' /\ ReviewsKept
  BY <1>1, <1>4, CacheUntouched
<1>8. misses'[r] = <<>> /\ Len(misses'[r]) = 0 /\ wrote'[r] = wrote[r]
  BY <1>1, <1>4
<1>9. Place(r)' /\ Covered(r)' /\ PassedOver(r)' /\ AnswersGood(r)'
  BY <1>1, <1>3, <1>5, <1>8 DEF Place, Covered, PassedOver, AnswersGood
<1>10. StillReviewed(r)' /\ WritesLast(r)'
  BY <1>1, <1>4, <1>5, <1>8 DEF StillReviewed, WritesLast, RequestInv, cacheVars
<1> QED
  BY <1>4, <1>5, <1>6, <1>7, <1>9, <1>10 DEF Kept, RequestInv

\* The fill or a reviewer writes the cache: the requests see it later.
LEMMA OutsideKeeps == ASSUME IInv, NEW w \in OutsideWrites, WriteFromOutside(w) PROVE IInv'
<1>1. w[1] \in Keys /\ w[2] \in Entry /\ Subject[w[2].structured] = w[1]
  BY CascadeAssumption
<1>2. /\ Store!Upsert(w[1], w[2]) /\ outside' \subseteq outside
      /\ UNCHANGED <<setup, batch, pc, pos, misses, items, known, wrote>>
  BY DEF WriteFromOutside, requestVars
<1>3. (Store!TypeOK)' /\ CacheInv' /\ ReviewsKept
  BY <1>1, <1>2, UpsertKeeps DEF IInv, TypeOK, ReviewsKept
<1>4. TypeOK'
  BY <1>2, <1>3 DEF IInv, TypeOK
<1>5. ASSUME NEW r \in Requests
      PROVE  RequestInv(r)'
  BY <1>2, <1>3, UntouchedKeeps DEF IInv, Untouched
<1> QED
  BY <1>3, <1>4, <1>5 DEF IInv

-----------------------------------------------------------------------------
LEMMA InitInv == Init => IInv
<1> SUFFICES ASSUME Init
             PROVE  IInv
  OBVIOUS
<1> USE DEF Init, Store!Init
<1>1. Store!TypeOK /\ CacheInv
  BY DEF Store!TypeOK, CacheInv, RowsAboutTheirKey, Store!HumanDecisionStands, Store!LabelMatchesAnswer
<1>2. TypeOK
  BY <1>1 DEF TypeOK, Phases
<1>3. ASSUME NEW r \in Requests
      PROVE  RequestInv(r)
  <2>1. /\ batch[r] = <<>> /\ misses[r] = <<>> /\ items[r] = <<>> /\ pc[r] = "idle"
        /\ wrote[r] = FALSE /\ known[r] = [k \in Keys |-> Unverified]
        /\ Len(batch[r]) = 0 /\ Len(misses[r]) = 0
    OBVIOUS
  <2> QED
    BY <2>1 DEF RequestInv, Place, Covered, PassedOver, StillReviewed, AnswersGood, WritesLast
<1> QED
  BY <1>1, <1>2, <1>3 DEF IInv

LEMMA NextInv == IInv /\ [Next]_vars => IInv'
<1> SUFFICES ASSUME IInv, [Next]_vars
             PROVE  IInv'
  OBVIOUS
<1>1. ASSUME NEW r \in Requests, Kept(r)
      PROVE  IInv'
  BY <1>1, UntouchedKeeps DEF Kept, IInv
<1>2. ASSUME NEW r \in Requests, Step(r)
      PROVE  Kept(r)
  <2>1. CASE pc[r] \in {"lookup", "pipeline"} /\ Fails(r)
    BY <2>1, OnlyPcKeeps DEF Fails, Phases
  <2>2. CASE Searches(r)
    BY <2>2, OnlyPcKeeps DEF Searches, Phases
  <2>3. CASE RunPipeline(r)
    BY <2>3, OnlyPcKeeps DEF RunPipeline, OnlyPc, Phases
  <2> QED
    BY <1>2, <2>1, <2>2, <2>3, StepShapes, ServesKeeps, GivesUpKeeps, WriteBackKeeps
<1>3. ASSUME NEW r \in Requests, Die(r)
      PROVE  Kept(r)
  BY <1>3, OnlyPcKeeps DEF Die, OnlyPc, Phases
<1>4. CASE UNCHANGED vars
  <2>1. CacheInv' /\ ReviewsKept
    BY <1>4, CacheUntouched DEF IInv, vars
  <2>2. TypeOK'
    BY <1>4 DEF IInv, TypeOK, Store!TypeOK, vars, cacheVars, requestVars
  <2>3. ASSUME NEW r \in Requests
        PROVE  RequestInv(r)'
    BY <1>4, <2>1, UntouchedKeeps DEF IInv, Untouched, vars, requestVars
  <2> QED
    BY <2>1, <2>2, <2>3 DEF IInv
<1> QED
  BY <1>1, <1>2, <1>3, <1>4, ReceiveKeeps, OutsideKeeps DEF Next

LEMMA Invariant == Spec => []IInv
BY InitInv, NextInv, PTL DEF Spec

\* Type correctness of the service, its cache included (Cascade.TypeOK).
THEOREM CascadeTypeCorrect == Spec => []TypeOK
<1>1. IInv => TypeOK
  BY DEF IInv
<1> QED
  BY <1>1, Invariant, PTL

\* Every text of a finished request is answered, at its own place, with an
\* answer made for it or for an address that passes both gates.
THEOREM OwnTextAnswered == Spec => []AnswersOwnText
<1>1. IInv => AnswersOwnText
  <2> SUFFICES ASSUME IInv, NEW r \in Requests
               PROVE  /\ pc[r] = "done" => Answered(r) = DOMAIN batch[r]
                      /\ \A i \in Answered(r) :
                           LET item == items[r][i]
                               k == Normalized[batch[r][i]] IN
                           /\ item.input = batch[r][i]
                           /\ IF item.servedBy = "stage2_pipeline"
                              THEN Subject[item.structured] = k
                              ELSE CloseEnough(k, Subject[item.structured])
    BY DEF AnswersOwnText
  <2>1. DOMAIN items[r] = 1..Len(batch[r]) /\ DOMAIN batch[r] = 1..Len(batch[r])
    BY Lists DEF IInv
  <2>2. AnswersGood(r) /\ Covered(r)
    BY DEF IInv, RequestInv
  <2> QED
    BY <2>1, <2>2 DEF Answered, AnswersGood, Covered
<1> QED
  BY <1>1, Invariant, PTL

\* A row's answer was made for the address it is stored under, whatever the
\* cascade writes back: near misses never chain.
THEOREM RowsOwnKey == Spec => []RowsAboutTheirKey
<1>1. IInv => RowsAboutTheirKey
  BY DEF IInv, CacheInv
<1> QED
  BY <1>1, Invariant, PTL

\* Nothing made by an untrusted process is served, by any path.
THEOREM TrustedServed == Spec => []OnlyTrustedServed
<1>1. IInv => OnlyTrustedServed
  <2> SUFFICES ASSUME IInv, NEW r \in Requests, NEW i \in Answered(r)
               PROVE  Trusted(Author[items[r][i].structured])
    BY DEF OnlyTrustedServed
  <2>1. i \in 1..Len(batch[r])
    BY Lists DEF IInv, Answered
  <2> QED
    BY <2>1 DEF IInv, RequestInv, AnswersGood, Answered
<1> QED
  BY <1>1, Invariant, PTL

\* A review known when the request came in is what the request is answered,
\* unless the cache is missing or failing.
THEOREM ReviewedServed == Spec => []ReviewedAnswerServed
<1>1. IInv => ReviewedAnswerServed
  <2> SUFFICES ASSUME IInv, NEW r \in Requests, NEW i \in Answered(r)
               PROVE  LET item == items[r][i]
                          k == Normalized[batch[r][i]] IN
                      known[r][k] # Unverified =>
                        \/ item.reason \in {"stage1_unconfigured", "cache_error"}
                        \/ Author[item.structured] = HumanVerified /\ Subject[item.structured] = k
    BY DEF ReviewedAnswerServed
  <2>1. i \in 1..Len(batch[r])
    BY Lists DEF IInv, Answered
  <2> QED
    BY <2>1 DEF IInv, RequestInv, AnswersGood, Answered, Excused
<1> QED
  BY <1>1, Invariant, PTL

\* A request answered with an error has written nothing to the cache.
THEOREM NoTraceOfFailure == Spec => []FailedLeavesNoTrace
<1>1. IInv => FailedLeavesNoTrace
  BY DEF IInv, RequestInv, WritesLast, FailedLeavesNoTrace
<1> QED
  BY <1>1, Invariant, PTL
-----------------------------------------------------------------------------
\* What is written back is an entry labelled as its producer's.
LEMMA WriteBackType ==
  ASSUME IInv, NEW r \in Requests, pc[r] = "write"
  PROVE  WriteBackKey(r) \in Keys /\ WriteBackEntry(r) \in Entry
<1> DEFINE at == misses[r][pos[r]].index
           text == batch[r][at]
<1>1. /\ RequestInv(r) /\ pos[r] \in 1..Len(misses[r]) /\ at \in 1..Len(batch[r])
      /\ text \in Inputs /\ DOMAIN batch[r] = 1..Len(batch[r])
  BY Lists DEF IInv, RequestInv, Place
<1>2. Normalized[text] \in Keys /\ Stage2[text] \in Answers /\ Author[Stage2[text]] = CRFPipeline
  BY <1>1, CascadeAssumption DEF RequestInv, Place
<1>3. /\ WriteBackKey(r) = Normalized[text]
      /\ WriteBackEntry(r) = [input |-> text, source |-> CRFPipeline, structured |-> Stage2[text]]
  BY DEF WriteBackKey, WriteBackEntry, ResultIndex
<1> HIDE DEF at, text
<1> QED
  BY <1>1, <1>2, <1>3 DEF Entry, Row, Sources

LEMMA StoreStep ==
  ASSUME IInv, [Next]_vars
  PROVE  \/ UNCHANGED <<rows, verified>>
         \/ \E k \in Keys, e \in Entry : Store!Upsert(k, e)
<1>1. ASSUME NEW r \in Requests, Step(r)
      PROVE  \/ UNCHANGED <<rows, verified>>
             \/ \E k \in Keys, e \in Entry : Store!Upsert(k, e)
  <2>1. CASE WriteBack(r)
    BY <2>1, WriteBackType DEF WriteBack
  <2>2. CASE ~WriteBack(r)
    BY <1>1, <2>2, StepShapes
       DEF Fails, Searches, OnlyPc, Serves, ServeFrom, GivesUp, FallBack, RunPipeline, cacheVars
  <2> QED
    BY <2>1, <2>2
<1>2. ASSUME NEW r \in Requests, Die(r) \/ \E b \in Batches : Receive(r, b)
      PROVE  UNCHANGED <<rows, verified>>
  BY <1>2 DEF Die, Receive, cacheVars
<1>3. ASSUME NEW w \in OutsideWrites, WriteFromOutside(w)
      PROVE  \E k \in Keys, e \in Entry : Store!Upsert(k, e)
  <2>1. w[1] \in Keys /\ w[2] \in Entry /\ Store!Upsert(w[1], w[2])
    BY <1>3, CascadeAssumption DEF WriteFromOutside
  <2> QED
    BY <2>1
<1>4. CASE UNCHANGED vars
  BY <1>4 DEF vars, cacheVars
<1> QED
  BY <1>1, <1>2, <1>3, <1>4 DEF Next

\* The service implements the store: every step of every request is one upsert of an
\* entry labelled as its producer's, or leaves the cache alone.
THEOREM ServiceUsesCacheAsPromised == Spec => CacheUsedAsPromised
<1>1. Init => Store!Init
  BY DEF Init
<1>2. IInv /\ [Next]_vars => [Store!Next]_Store!vars
  <2> SUFFICES ASSUME IInv, [Next]_vars PROVE Store!Next \/ UNCHANGED Store!vars
    OBVIOUS
  <2> QED
    BY StoreStep, SameEntries DEF Store!Next, Store!vars
<1> QED
  BY <1>1, <1>2, Invariant, PTL DEF Spec, CacheUsedAsPromised, Store!Spec
=============================================================================
