----------------------------- MODULE RedisStore -----------------------------
(***************************************************************************)
(* The Redis store (internal/cache/redis.go) under several writers: API    *)
(* processes writing back Stage 2 answers, a human reviewer, and whoever   *)
(* else fills the store (iso-cache-fill opens Postgres only).              *)
(* RedisStore.Upsert reads the existing document, merges in the process    *)
(* and writes the merged document back: two commands, between which any    *)
(* other writer may run.                                                   *)
(*                                                                         *)
(* A write that the server applied but whose reply was lost is a           *)
(* WriteMerged; one that was not applied, a failed read and a process that *)
(* dies in between are an Abandon.                                         *)
(***************************************************************************)
EXTENDS CacheEntries

CONSTANTS
  Writers,      \* processes that call Upsert
  Idle,         \* "no upsert in progress"
  QuietReview   \* TRUE: a reviewer and another writer of the same key never overlap

\* What Upsert holds between its two commands: its argument and the row it read.
Pending == [key: Keys, entry: Entry, existing: Row \cup {NoRow}]

ASSUME RedisStoreAssumption ==
  /\ Idle \notin Pending
  /\ QuietReview \in BOOLEAN

VARIABLES
  rows,      \* the documents, by normalized address
  verified,  \* history: the latest human-verified answer of each key
  upserts    \* upserts[w]: the upsert writer w is in the middle of, or Idle

vars == <<rows, verified, upserts>>

\* The cache as a caller of Upsert is promised it.
Store == INSTANCE AddressCache

TypeOK ==
  /\ Store!TypeOK
  /\ upserts \in [Writers -> Pending \cup {Idle}]

Init ==
  /\ Store!Init
  /\ upserts = [w \in Writers |-> Idle]

InFlight(k) == {w \in Writers : upserts[w] # Idle /\ upserts[w].key = k}

\* The operating assumption of the store's design note: a review of k begins
\* only while nobody is writing k, and nobody begins while it is under way.
MayBegin(k, e) ==
  QuietReview =>
    IF e.source = HumanVerified
    THEN InFlight(k) = {}
    ELSE \A w \in InFlight(k) : upserts[w].entry.source # HumanVerified

-----------------------------------------------------------------------------
\* Slips the properties below are tried against.

\* The incoming document simply replaces the old one.
MergedWithoutProtection(u) == u.entry

\* The label of a human row survives, its answer does not.
MergedLabelOnly(u) ==
  IF u.existing # NoRow /\ u.existing.source = HumanVerified
  THEN [u.entry EXCEPT !.source = HumanVerified]
  ELSE u.entry

\* A human row is kept whoever writes: the first review can never be corrected.
MergedFirstReviewKept(u) ==
  IF u.existing # NoRow /\ u.existing.source = HumanVerified THEN u.existing ELSE u.entry

-----------------------------------------------------------------------------
Merged(u) == MergeWrite(u.existing, u.entry)

\* The first command of Upsert: LookupNormalized of the entry's own key.
ReadExisting(w, k, e) ==
  /\ upserts[w] = Idle
  /\ MayBegin(k, e)
  /\ upserts' = [upserts EXCEPT ![w] = [key |-> k, entry |-> e, existing |-> rows[k]]]
  /\ UNCHANGED <<rows, verified>>

\* The second command: the merged document is loaded under the same key.
WriteMerged(w) ==
  LET u == upserts[w] IN
  /\ u # Idle
  /\ rows' = [rows EXCEPT ![u.key] = Merged(u)]
  /\ Store!RecordReview(u.key, u.entry)
  /\ upserts' = [upserts EXCEPT ![w] = Idle]

Abandon(w) ==
  /\ upserts[w] # Idle
  /\ upserts' = [upserts EXCEPT ![w] = Idle]
  /\ UNCHANGED <<rows, verified>>

Next ==
  \E w \in Writers :
    \/ \E k \in Keys, e \in Entry : ReadExisting(w, k, e)
    \/ WriteMerged(w)
    \/ Abandon(w)

Spec == Init /\ [][Next]_vars

-----------------------------------------------------------------------------
(***************************************************************************)
(* Under quiet reviews the two-command upsert is indistinguishable from    *)
(* the atomic one: pipeline writers that race each other do no harm, which *)
(* is what redis.go lines 234-236 and the type's "mirroring the semantics  *)
(* of PostgresStore" (lines 84-85) rely on.                                *)
(***************************************************************************)
AtomicUpserts == Store!Spec

\* As in AddressCache: the latest review of an address is what its row holds.
HumanDecisionStands == Store!HumanDecisionStands

\* As in AddressCache, and here without any assumption on the reviewers: a
\* stale read never mixes one writer's label with another writer's answer.
LabelMatchesAnswer == Store!LabelMatchesAnswer
=============================================================================
