---------------------------- MODULE AddressCache ----------------------------
(***************************************************************************)
(* What the rest of the system is promised by a cache.Store: every upsert  *)
(* reads the row, merges and writes in one indivisible step.  The Postgres *)
(* store keeps this promise to the letter, because its upsert is a single  *)
(* INSERT ... ON CONFLICT statement.  RedisStore is shown to keep it too   *)
(* as long as reviews are quiet.                                           *)
(*                                                                         *)
(* "verified" is a history variable: the answer of the latest human write  *)
(* of each key.  No code reads it.                                         *)
(***************************************************************************)
EXTENDS CacheEntries

VARIABLES
  rows,      \* rows[k]: the row under normalized address k, or NoRow
  verified   \* verified[k]: the latest human-verified answer for k

vars == <<rows, verified>>

TypeOK ==
  /\ rows \in [Keys -> Row \cup {NoRow}]
  /\ verified \in [Keys -> Answers \cup {Unverified}]

Init ==
  /\ rows = [k \in Keys |-> NoRow]
  /\ verified = [k \in Keys |-> Unverified]

\* History: a human write becomes the decision for its key.
RecordReview(k, e) ==
  verified' = IF e.source = HumanVerified
              THEN [verified EXCEPT ![k] = e.structured]
              ELSE verified

Upsert(k, e) ==
  /\ rows' = [rows EXCEPT ![k] = MergeWrite(rows[k], e)]
  /\ RecordReview(k, e)

Next == \E k \in Keys, e \in Entry : Upsert(k, e)

Spec == Init /\ [][Next]_vars

-----------------------------------------------------------------------------
(***************************************************************************)
(* Once a human has verified an address, its row is labelled human_verified *)
(* and holds exactly the answer of the latest review, whatever the         *)
(* pipelines write afterwards (the purpose of mergeCacheWrite, redis.go    *)
(* lines 27-30, and of the CASE expressions of the SQL upsert).            *)
(***************************************************************************)
HumanDecisionStands ==
  \A k \in Keys :
    verified[k] # Unverified =>
      /\ rows[k] # NoRow
      /\ rows[k].source = HumanVerified
      /\ rows[k].structured = verified[k]

(***************************************************************************)
(* A row never carries one process's label over another process's answer:  *)
(* source and structured are kept or replaced together.  The cascade's     *)
(* trust in a source is worth nothing without it.                          *)
(***************************************************************************)
LabelMatchesAnswer ==
  \A k \in Keys : rows[k] # NoRow => rows[k].source = Author[rows[k].structured]
=============================================================================
