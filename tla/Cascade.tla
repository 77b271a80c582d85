------------------------------ MODULE Cascade ------------------------------
(***************************************************************************)
(* The online conversion service: POST /convert (internal/api/handler.go)  *)
(* and the two-stage cascade behind it (internal/cascade/service.go), with *)
(* any number of requests in progress at once, all sharing one cache with  *)
(* the offline fill and the reviewers.                                     *)
(*                                                                         *)
(* Every call that leaves the process is a step of its own: the exact      *)
(* lookup, the embedding and the search, the pipeline, each write-back.    *)
(* Between two steps of a request other requests, the fill and the         *)
(* reviewers may change the cache.  The cache itself is atomic             *)
(* (AddressCache); RedisStore says when the Redis backend is.              *)
(*                                                                         *)
(* Left out: scores and quality fields of an item, which are computed from *)
(* its structured address, and the wording of errors.                      *)
(***************************************************************************)
EXTENDS CacheEntries, Naturals, Sequences, FiniteSets

CONSTANTS
  Requests,            \* the /convert requests that may come in
  Blank,               \* the texts that are only white space
  Normalized,          \* Normalized[t]: NormalizeAddress(t), a key or NoKey
  NoKey,               \* the empty normalized address
  Batches,             \* the lists of texts a request may carry
  Stage2,              \* Stage2[t]: the pipeline's structured answer for text t
  Subject,             \* Subject[a]: the normalized address answer a was made for
  Semantic, Lexical,   \* Semantic[k][j]: the scores of the address k against a row j
  SemanticThreshold, LexicalThreshold, SearchLimit,
  Setups,              \* the configurations the service may be started with
  OutsideWrites,       \* the writes of the fill and the reviewers: <<key, entry>>
  NoItem               \* an item not filled in yet

Reasons == {"cache_miss", "stage1_unconfigured", "embedding_error", "cache_error",
            "semantic_gate_failed", "lexical_gate_failed", "untrusted_cache_source"}

Miss == [index: Nat, embedded: BOOLEAN, reason: Reasons]

Item == [input: Inputs, structured: Answers, servedBy: {"stage1_cache", "stage2_pipeline"},
         source: Sources, reason: Reasons \cup {""}]

ASSUME CascadeAssumption ==
  /\ NoItem \notin Item
  /\ Normalized \in [Inputs -> Keys \cup {NoKey}]
  /\ NoKey \notin Keys
  /\ Batches \subseteq Seq(Inputs) \ {<<>>}
  /\ Stage2 \in [Inputs -> Answers]
  /\ Subject \in [Answers -> Keys]
  /\ \A t \in Inputs : Normalized[t] # NoKey =>
       Author[Stage2[t]] = CRFPipeline /\ Subject[Stage2[t]] = Normalized[t]
  /\ Semantic \in [Keys -> [Keys -> Nat]] /\ Lexical \in [Keys -> [Keys -> Nat]]
  /\ SemanticThreshold \in Nat /\ LexicalThreshold \in Nat
  /\ SearchLimit \in Nat \ {0}
  /\ Setups \subseteq [cache: BOOLEAN, embedder: BOOLEAN,
                       trustSonnetSeed: BOOLEAN, trustLLMAssisted: BOOLEAN]
  \* Whoever else writes the cache writes answers made for the address itself.
  /\ OutsideWrites \subseteq {w \in Keys \X Entry : Subject[w[2].structured] = w[1]}

VARIABLES
  setup,     \* the service's configuration
  rows,      \* the cache
  verified,  \* history: the latest human-verified answer of each key
  outside,   \* the outside writes still to come
  batch,     \* batch[r]: the texts of request r
  pc,        \* pc[r]: where request r is
  pos,       \* pos[r]: the loop index of request r
  misses,    \* misses[r]: its misses so far, in batch order
  items,     \* items[r]: its answers so far
  known,     \* history: what was verified when request r came in
  wrote      \* history: whether request r has written to the cache

cacheVars == <<rows, verified, outside>>
requestVars == <<batch, pc, pos, misses, items, known, wrote>>
vars == <<setup, cacheVars, requestVars>>

Store == INSTANCE AddressCache

Phases == {"idle", "lookup", "search", "pipeline", "write",
           "done", "failed", "rejected", "dead"}
Running == {"lookup", "search", "pipeline", "write"}

TypeOK ==
  /\ setup \in Setups
  /\ Store!TypeOK
  /\ outside \subseteq OutsideWrites
  /\ batch \in [Requests -> Batches \cup {<<>>}]
  /\ pc \in [Requests -> Phases]
  /\ pos \in [Requests -> Nat]
  /\ misses \in [Requests -> Seq(Miss)]
  /\ items \in [Requests -> Seq(Item \cup {NoItem})]
  /\ \A r \in Requests :
       /\ \A i \in DOMAIN misses[r] : misses[r][i].index \in DOMAIN batch[r]
       /\ DOMAIN items[r] = DOMAIN batch[r]
  /\ known \in [Requests -> [Keys -> Answers \cup {Unverified}]]
  /\ wrote \in [Requests -> BOOLEAN]

Init ==
  /\ setup \in Setups
  /\ Store!Init
  /\ outside = OutsideWrites
  /\ batch = [r \in Requests |-> <<>>]
  /\ pc = [r \in Requests |-> "idle"]
  /\ pos = [r \in Requests |-> 0]
  /\ misses = [r \in Requests |-> <<>>]
  /\ items = [r \in Requests |-> <<>>]
  /\ known = [r \in Requests |-> [k \in Keys |-> Unverified]]
  /\ wrote = [r \in Requests |-> FALSE]

-----------------------------------------------------------------------------
\* Where a request is in its Stage 1 loop.
Text(r) == batch[r][pos[r]]
Key(r) == Normalized[Text(r)]

\* Slip: the switch forgets human_verified.
TrustedWithoutHuman(source) ==
  \/ source = CRFPipeline
  \/ source = SonnetSeed /\ setup.trustSonnetSeed
  \/ source = LLMAssisted /\ setup.trustLLMAssisted

\* Sources an answer may be served from.
Trusted(source) ==
  \/ source \in {HumanVerified, CRFPipeline}
  \/ source = SonnetSeed /\ setup.trustSonnetSeed
  \/ source = LLMAssisted /\ setup.trustLLMAssisted

\* The loop goes on to the next text; after the last one the misses, if any,
\* go to the pipeline in one call.
NextText(r, found) ==
  IF pos[r] < Len(batch[r])
  THEN pc' = [pc EXCEPT ![r] = "lookup"] /\ pos' = [pos EXCEPT ![r] = pos[r] + 1]
  ELSE /\ pc' = [pc EXCEPT ![r] = IF found = <<>> THEN "done" ELSE "pipeline"]
       /\ pos' = [pos EXCEPT ![r] = 1]

\* Stage 1 answers the text from a row.
ServeFrom(r, row) ==
  /\ items' = [items EXCEPT ![r][pos[r]] =
                 [input |-> Text(r), structured |-> row.structured,
                  servedBy |-> "stage1_cache", source |-> row.source, reason |-> ""]]
  /\ NextText(r, misses[r])
  /\ UNCHANGED <<setup, cacheVars, batch, misses, known, wrote>>

\* Stage 1 gives the text up, with its embedding or without.
FallBack(r, reason, embedded) ==
  LET found == Append(misses[r], [index |-> pos[r], embedded |-> embedded, reason |-> reason]) IN
  /\ misses' = [misses EXCEPT ![r] = found]
  /\ NextText(r, found)
  /\ UNCHANGED <<setup, cacheVars, batch, items, known, wrote>>

-----------------------------------------------------------------------------
\* The handler decodes the request: white space only is answered 400.
Receive(r, b) ==
  /\ pc[r] = "idle"
  /\ batch' = [batch EXCEPT ![r] = b]
  /\ pc' = [pc EXCEPT ![r] = IF \E i \in DOMAIN b : b[i] \in Blank THEN "rejected" ELSE "lookup"]
  /\ pos' = [pos EXCEPT ![r] = 1]
  /\ items' = [items EXCEPT ![r] = [i \in DOMAIN b |-> NoItem]]
  /\ known' = [known EXCEPT ![r] = verified]
  /\ UNCHANGED <<setup, cacheVars, misses, wrote>>

\* A text without a letter or digit fails the whole request (500).
NothingToConvert(r) ==
  /\ pc[r] = "lookup" /\ Key(r) = NoKey
  /\ pc' = [pc EXCEPT ![r] = "failed"]
  /\ UNCHANGED <<setup, cacheVars, batch, pos, misses, items, known, wrote>>

Unconfigured(r) ==
  /\ pc[r] = "lookup" /\ Key(r) # NoKey
  /\ ~setup.cache
  /\ FallBack(r, "stage1_unconfigured", FALSE)

LookupError(r) ==
  /\ pc[r] = "lookup" /\ Key(r) # NoKey
  /\ setup.cache
  /\ FallBack(r, "cache_error", FALSE)

\* An exact hit of a trusted source is served without further gates.
LookupHit(r) ==
  /\ pc[r] = "lookup" /\ Key(r) # NoKey
  /\ setup.cache
  /\ rows[Key(r)] # NoRow
  /\ Trusted(rows[Key(r)].source)
  /\ ServeFrom(r, rows[Key(r)])

\* No row, or one of an untrusted source: try semantic search, if there is an
\* embedder to search with.
LookupMiss(r) ==
  /\ pc[r] = "lookup" /\ Key(r) # NoKey
  /\ setup.cache
  /\ rows[Key(r)] # NoRow => ~Trusted(rows[Key(r)].source)
  /\ IF setup.embedder
     THEN /\ pc' = [pc EXCEPT ![r] = "search"]
          /\ UNCHANGED <<setup, cacheVars, batch, pos, misses, items, known, wrote>>
     ELSE FallBack(r, IF rows[Key(r)] = NoRow THEN "cache_miss" ELSE "untrusted_cache_source",
                   FALSE)

\* Slip: an embedding error sends the text back to the beginning of Stage 1.
EmbedErrorRetried(r) ==
  /\ pc[r] = "search"
  /\ pc' = [pc EXCEPT ![r] = "lookup"]
  /\ UNCHANGED <<setup, cacheVars, batch, pos, misses, items, known, wrote>>

EmbedError(r) ==
  /\ pc[r] = "search"
  /\ FallBack(r, "embedding_error", FALSE)

SearchError(r) ==
  /\ pc[r] = "search"
  /\ FallBack(r, "cache_error", TRUE)

\* What a search may return.  The HNSW index of the Redis store is approximate
\* and may miss any row, so any few of the rows; Postgres returns the nearest.
Candidates ==
  {found \in SUBSET {k \in Keys : rows[k] # NoRow} : Cardinality(found) <= SearchLimit}

\* Slip: the similar row's source is not looked at.
PassesGatesUntrusted(k, j) ==
  /\ Semantic[k][j] >= SemanticThreshold
  /\ Lexical[k][j] >= LexicalThreshold

PassesGates(k, j) ==
  /\ Semantic[k][j] >= SemanticThreshold
  /\ Lexical[k][j] >= LexicalThreshold
  /\ Trusted(rows[j].source)

\* Slip: no reason is recorded.
FailedGateUnset(k, j) == ""

FailedGate(k, j) ==
  IF Semantic[k][j] < SemanticThreshold THEN "semantic_gate_failed"
  ELSE IF Lexical[k][j] < LexicalThreshold THEN "lexical_gate_failed"
  ELSE "untrusted_cache_source"

\* The candidates are tried from the most similar down.  The first to pass all
\* gates answers; if none does, the reason is the last one's.
SearchHit(r) ==
  /\ pc[r] = "search"
  /\ \E found \in Candidates :
       LET passing == {j \in found : PassesGates(Key(r), j)} IN
       \E j \in passing :
         /\ \A i \in passing : Semantic[Key(r)][i] <= Semantic[Key(r)][j]
         /\ ServeFrom(r, rows[j])

SearchMiss(r) ==
  /\ pc[r] = "search"
  /\ \E found \in Candidates :
       /\ \A j \in found : ~PassesGates(Key(r), j)
       /\ \/ found = {} /\ FallBack(r, "cache_miss", TRUE)
          \/ \E j \in found :
               /\ \A i \in found : Semantic[Key(r)][j] <= Semantic[Key(r)][i]
               /\ FallBack(r, FailedGate(Key(r), j), TRUE)

\* All misses of the request go through the pipeline together, or none.
RunPipeline(r) ==
  /\ pc[r] = "pipeline"
  /\ pc' = [pc EXCEPT ![r] = "write"]
  /\ UNCHANGED <<setup, cacheVars, batch, pos, misses, items, known, wrote>>

PipelineError(r) ==
  /\ pc[r] = "pipeline"
  /\ pc' = [pc EXCEPT ![r] = "failed"]
  /\ UNCHANGED <<setup, cacheVars, batch, pos, misses, items, known, wrote>>

-----------------------------------------------------------------------------
\* Slip: the i-th result answers the i-th text.
ResultIndexOfBatch(r) == pos[r]

\* The i-th result belongs to the i-th miss, and answers the text at the
\* miss's own place in the batch.
ResultIndex(r) == misses[r][pos[r]].index

\* Slip: the key left over from the Stage 1 loop.
WriteBackLastKey(r) == Normalized[batch[r][Len(batch[r])]]

\* What is written back: the text's own normalized address, labelled as the
\* pipeline's answer.
WriteBackKey(r) == Normalized[batch[r][ResultIndex(r)]]

\* Slip: the new answer is put under the label of the row it replaces.
WriteBackEntryRelabelled(r) ==
  LET text == batch[r][ResultIndex(r)]
      row == rows[WriteBackKey(r)] IN
  [input |-> text, source |-> IF row = NoRow THEN CRFPipeline ELSE row.source,
   structured |-> Stage2[text]]

WriteBackEntry(r) ==
  LET text == batch[r][ResultIndex(r)] IN
  [input |-> text, source |-> CRFPipeline, structured |-> Stage2[text]]

\* Slip: a failed write-back fails the request.
AfterWriteErrorFails(r) == "failed"

\* A failed write-back is not an error of the request.
AfterWriteError(r) == IF pos[r] < Len(misses[r]) THEN "write" ELSE "done"

WriteBack(r) ==
  LET miss == misses[r][pos[r]]
      text == batch[r][ResultIndex(r)]
      item == [input |-> text, structured |-> Stage2[text], servedBy |-> "stage2_pipeline",
               source |-> CRFPipeline, reason |-> miss.reason]
      next == IF pos[r] < Len(misses[r]) THEN "write" ELSE "done"
  IN
  /\ pc[r] = "write"
  /\ items' = [items EXCEPT ![r][ResultIndex(r)] = item]
  /\ pos' = [pos EXCEPT ![r] = pos[r] + 1]
  /\ UNCHANGED <<setup, outside, batch, misses, known>>
  /\ \/ /\ setup.cache /\ miss.embedded
        /\ Store!Upsert(WriteBackKey(r), WriteBackEntry(r))
        /\ wrote' = [wrote EXCEPT ![r] = TRUE]
        /\ pc' = [pc EXCEPT ![r] = next]
     \/ /\ setup.cache /\ miss.embedded
        /\ pc' = [pc EXCEPT ![r] = AfterWriteError(r)]
        /\ UNCHANGED <<rows, verified, wrote>>
     \/ /\ ~(setup.cache /\ miss.embedded)
        /\ pc' = [pc EXCEPT ![r] = next]
        /\ UNCHANGED <<rows, verified, wrote>>

\* A request ends without an answer: its handler panicked, or its process died,
\* which is a Die of every request the process was serving.
Die(r) ==
  /\ pc[r] \in Running
  /\ pc' = [pc EXCEPT ![r] = "dead"]
  /\ UNCHANGED <<setup, cacheVars, batch, pos, misses, items, known, wrote>>

\* The fill, a seeding script or a reviewer writes the cache.
WriteFromOutside(w) ==
  /\ w \in outside
  /\ outside' = outside \ {w}
  /\ Store!Upsert(w[1], w[2])
  /\ UNCHANGED <<setup, requestVars>>

Step(r) ==
  \/ NothingToConvert(r) \/ Unconfigured(r)
  \/ LookupError(r) \/ LookupHit(r) \/ LookupMiss(r)
  \/ EmbedError(r) \/ SearchError(r) \/ SearchHit(r) \/ SearchMiss(r)
  \/ RunPipeline(r) \/ PipelineError(r) \/ WriteBack(r)

Next ==
  \/ \E r \in Requests : Step(r) \/ Die(r) \/ \E b \in Batches : Receive(r, b)
  \/ \E w \in OutsideWrites : WriteFromOutside(w)

\* Every call a request makes returns sooner or later, with a result or an
\* error, and then the handler's goroutine goes on.
Spec == Init /\ [][Next]_vars /\ \A r \in Requests : WF_vars(Step(r))
-----------------------------------------------------------------------------
\* The answers a request has been given or will be, once it has got this far.
Answered(r) == {i \in DOMAIN items[r] : items[r][i] # NoItem}

\* The answer was made for this very address, or for one that is close enough.
CloseEnough(k, j) ==
  k = j \/ (Semantic[k][j] >= SemanticThreshold /\ Lexical[k][j] >= LexicalThreshold)

(***************************************************************************)
(* Every text of a finished request has an answer, at its own place in the *)
(* response, made for it: by the pipeline from this very address, or by    *)
(* the cache from one that passes both gates.  Convert splits the batch    *)
(* into hits and misses, runs the misses as a batch of their own and puts  *)
(* the results back by index (service.go lines 134-189).                   *)
(***************************************************************************)
AnswersOwnText ==
  \A r \in Requests :
    /\ pc[r] = "done" => Answered(r) = DOMAIN batch[r]
    /\ \A i \in Answered(r) :
         LET item == items[r][i]
             k == Normalized[batch[r][i]] IN
         /\ item.input = batch[r][i]
         /\ IF item.servedBy = "stage2_pipeline"
            THEN Subject[item.structured] = k
            ELSE CloseEnough(k, Subject[item.structured])

(***************************************************************************)
(* Closeness is not passed on: what the cache holds under an address was   *)
(* made for that address.  An answer served for a similar address, or the  *)
(* one of a neighbour in the batch, is never written back under the        *)
(* caller's key, so a chain of near misses cannot drift (lines 180-188).   *)
(***************************************************************************)
RowsAboutTheirKey ==
  \A k \in Keys : rows[k] # NoRow => Subject[rows[k].structured] = k

(***************************************************************************)
(* Nothing an untrusted process produced is ever returned: neither by an   *)
(* exact hit, nor by similarity, nor by taking another source's label in   *)
(* the cache first ("trusted", lines 279-290, over the authors, not the    *)
(* labels).                                                                *)
(***************************************************************************)
OnlyTrustedServed ==
  \A r \in Requests : \A i \in Answered(r) :
    Trusted(Author[items[r][i].structured])

(***************************************************************************)
(* An address a human had verified when the request came in is answered by *)
(* a human's decision for it, whatever the pipelines write in the meantime.*)
(* Only a service without a cache, or a cache that fails, may say          *)
(* otherwise, and then the answer says so in its fallback reason.          *)
(***************************************************************************)
ReviewedAnswerServed ==
  \A r \in Requests : \A i \in Answered(r) :
    LET item == items[r][i]
        k == Normalized[batch[r][i]] IN
    known[r][k] # Unverified =>
      \/ item.reason \in {"stage1_unconfigured", "cache_error"}
      \/ Author[item.structured] = HumanVerified /\ Subject[item.structured] = k

(***************************************************************************)
(* A request that is answered with an error has left nothing behind in the *)
(* cache: write-backs begin only when every text has its answer, and their *)
(* own errors are not the request's (lines 158-188).                       *)
(***************************************************************************)
FailedLeavesNoTrace ==
  \A r \in Requests : pc[r] \in {"failed", "rejected"} => ~wrote[r]

(***************************************************************************)
(* However many requests write back at once, fail or die, the service and  *)
(* whoever else writes use the cache only as AddressCache allows: one      *)
(* upsert at a time, of an entry labelled as its producer's.  So all that  *)
(* the cache promises of reviews and of labels holds under the service.    *)
(***************************************************************************)
CacheUsedAsPromised == Store!Spec

\* Every request that is accepted is answered, or its process is gone.
EveryRequestReturns ==
  \A r \in Requests : pc[r] \in Running ~> pc[r] \in {"done", "failed", "dead"}
=============================================================================
