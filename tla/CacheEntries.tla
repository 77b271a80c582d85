---------------------------- MODULE CacheEntries ----------------------------
(***************************************************************************)
(* The rows of the address cache and the merge rule both stores share      *)
(* (internal/cache/types.go, redis.go mergeCacheWrite and the CASE         *)
(* expressions of sql/queries/address_cache.sql).                          *)
(*                                                                         *)
(* A structured address is opaque here: all that matters is which process  *)
(* produced it, so that a row can be asked whether its source label and    *)
(* its structured fields still belong together.  The raw address and its   *)
(* embedding always travel together and are one "input".                   *)
(***************************************************************************)
CONSTANTS
  Keys,       \* normalized addresses, the unique key of the table
  Inputs,     \* raw address texts, each with its embedding
  Answers,    \* structured addresses
  Author,     \* Author[a]: the source whose process produced answer a
  NoRow,      \* "no row under this key"
  Unverified  \* "no human has written this key yet"

HumanVerified == "human_verified"
CRFPipeline   == "crf_pipeline"
LLMAssisted   == "llm_assisted"
SonnetSeed    == "sonnet_seed"

Sources == {HumanVerified, CRFPipeline, LLMAssisted, SonnetSeed}

\* The stored columns.  The key is the normalized address, so it is not
\* repeated in the row.
Row == [input: Inputs, source: Sources, structured: Answers]

\* A caller of Upsert labels what it produced itself: the cascade and the
\* offline fill write their pipeline's answers as crf_pipeline, the fill its
\* judged answers as llm_assisted, a reviewer a verified one.
Entry == {e \in Row : Author[e.structured] = e.source}

ASSUME CacheEntriesAssumption ==
  /\ Author \in [Answers -> Sources]
  /\ NoRow \notin Row
  /\ Unverified \notin Answers

\* What an upsert leaves in the row: a write that is not human_verified keeps
\* the source and the structured fields of a human_verified row, and refreshes
\* its input in any case.
MergeWrite(existing, incoming) ==
  IF existing # NoRow /\ existing.source = HumanVerified /\ incoming.source # HumanVerified
  THEN [incoming EXCEPT !.source = existing.source, !.structured = existing.structured]
  ELSE incoming
=============================================================================
