-------------------------- MODULE RedisStoreProofs --------------------------
(***************************************************************************)
(* The Redis store, whose upsert is two commands, implements the atomic    *)
(* store for any number of writers when reviews are quiet.  The inductive  *)
(* invariant says that what a writer read before its merge is still a good *)
(* enough picture of the row when it writes: it may be stale, but it is    *)
(* right about the only thing the merge looks at, the human decision.      *)
(* The atomic store's own theorems, about Store!Spec, come first.          *)
(***************************************************************************)
EXTENDS RedisStore, CacheEntriesProofs

\* While a reviewer is writing an address nobody else is.
ReviewsAlone ==
  \A w, v \in Writers :
    /\ upserts[w] # Idle /\ upserts[v] # Idle /\ w # v
    /\ upserts[w].key = upserts[v].key
    => upserts[w].entry.source # HumanVerified

\* The merge would come out the same against the row as it is now.
MergesStillValid ==
  \A w \in Writers :
    upserts[w] # Idle =>
      Merged(upserts[w]) = MergeWrite(rows[upserts[w].key], upserts[w].entry)

IInv == TypeOK /\ ReviewsAlone /\ MergesStillValid

\* What a writer read was properly labelled.
ReadsLabelled ==
  \A w \in Writers :
    upserts[w] # Idle /\ upserts[w].existing # NoRow =>
      upserts[w].existing.source = Author[upserts[w].existing.structured]

-----------------------------------------------------------------------------
\* The store this module instantiates has the same rows, entries and merge.
LEMMA SameEntries == Store!Row = Row /\ Store!Entry = Entry
BY DEF Store!Row, Row, Store!Entry, Entry, Store!Sources, Sources,
       Store!HumanVerified, HumanVerified, Store!CRFPipeline, CRFPipeline,
       Store!LLMAssisted, LLMAssisted, Store!SonnetSeed, SonnetSeed

LEMMA SameMerge ==
  ASSUME NEW existing, NEW e
  PROVE  Store!MergeWrite(existing, e) = MergeWrite(existing, e)
BY DEF Store!MergeWrite, MergeWrite, Store!HumanVerified, HumanVerified

-----------------------------------------------------------------------------
(***************************************************************************)
(* The atomic store itself, for any sequence of upserts.                   *)
(***************************************************************************)
\* The rows hold well-formed entries (AddressCache.TypeOK).
THEOREM StoreTypeCorrect == Store!Spec => []Store!TypeOK
<1> USE SameEntries
<1>1. Store!Init => Store!TypeOK
  BY CacheEntriesAssumption DEF Store!Init, Store!TypeOK
<1>2. Store!TypeOK /\ [Store!Next]_(Store!vars) => Store!TypeOK'
  <2> SUFFICES ASSUME Store!TypeOK, [Store!Next]_(Store!vars)
               PROVE  Store!TypeOK'
    OBVIOUS
  <2>1. ASSUME NEW k \in Keys, NEW e \in Entry, Store!Upsert(k, e)
        PROVE  Store!TypeOK'
    <3>1. rows[k] \in Row \cup {NoRow}
      BY DEF Store!TypeOK
    <3>2. Store!MergeWrite(rows[k], e) \in Row
      BY <3>1, MergeWriteType, SameMerge
    <3>3. rows' \in [Keys -> Row \cup {NoRow}]
      BY <2>1, <3>2 DEF Store!TypeOK, Store!Upsert
    <3>4. verified' \in [Keys -> Answers \cup {Unverified}]
      BY <2>1 DEF Store!TypeOK, Store!Upsert, Store!RecordReview, Entry, Row
    <3> QED
      BY <3>3, <3>4 DEF Store!TypeOK
  <2>2. CASE UNCHANGED Store!vars
    BY <2>2 DEF Store!vars, Store!TypeOK
  <2> QED
    BY <2>1, <2>2 DEF Store!Next
<1> QED
  BY <1>1, <1>2, PTL DEF Store!Spec

\* No row ever carries one process's label over another's answer, which is
\* what the cascade's trust in a source relies on.
THEOREM StoreLabelsMatch == Store!Spec => []Store!LabelMatchesAnswer
<1> USE SameEntries
<1>1. Store!Init => Store!LabelMatchesAnswer
  BY DEF Store!Init, Store!LabelMatchesAnswer
<1>2. Store!TypeOK /\ Store!LabelMatchesAnswer /\ [Store!Next]_(Store!vars)
        => Store!LabelMatchesAnswer'
  <2> SUFFICES ASSUME Store!TypeOK, Store!LabelMatchesAnswer, [Store!Next]_(Store!vars)
               PROVE  Store!LabelMatchesAnswer'
    OBVIOUS
  <2>1. ASSUME NEW k \in Keys, NEW e \in Entry, Store!Upsert(k, e)
        PROVE  Store!LabelMatchesAnswer'
    <3> DEFINE merged == MergeWrite(rows[k], e)
    <3>1. rows[k] \in Row \cup {NoRow}
      BY DEF Store!TypeOK
    <3>2. merged.source = Author[merged.structured]
      BY <3>1, MergeWriteLabel DEF Store!LabelMatchesAnswer
    <3>3. rows' = [rows EXCEPT ![k] = merged]
      BY <2>1, SameMerge DEF Store!Upsert
    <3> HIDE DEF merged
    <3> QED
      BY <3>2, <3>3 DEF Store!LabelMatchesAnswer, Store!TypeOK
  <2>2. CASE UNCHANGED Store!vars
    BY <2>2 DEF Store!vars, Store!LabelMatchesAnswer
  <2> QED
    BY <2>1, <2>2 DEF Store!Next
<1> QED
  BY <1>1, <1>2, StoreTypeCorrect, PTL DEF Store!Spec

\* Once reviewed, an address keeps the latest review: no pipeline write
\* changes the source or the structured fields of its row.
THEOREM StoreHumanDecision == Store!Spec => []Store!HumanDecisionStands
<1> USE CacheEntriesAssumption, SameEntries DEF Store!HumanVerified, HumanVerified
<1>1. Store!Init => Store!HumanDecisionStands
  BY DEF Store!Init, Store!HumanDecisionStands
<1>2. Store!TypeOK /\ Store!HumanDecisionStands /\ [Store!Next]_(Store!vars)
        => Store!HumanDecisionStands'
  <2> SUFFICES ASSUME Store!TypeOK, Store!HumanDecisionStands, [Store!Next]_(Store!vars),
                      NEW j \in Keys, verified'[j] # Unverified
               PROVE  /\ rows'[j] # NoRow
                      /\ rows'[j].source = HumanVerified
                      /\ rows'[j].structured = verified'[j]
    BY DEF Store!HumanDecisionStands
  <2>1. ASSUME NEW k \in Keys, NEW e \in Entry, Store!Upsert(k, e), j = k
        PROVE  /\ rows'[j] # NoRow
               /\ rows'[j].source = HumanVerified
               /\ rows'[j].structured = verified'[j]
    <3>1. rows[k] \in Row \cup {NoRow} /\ e \in Row
      BY DEF Store!TypeOK, Entry
    <3>2. rows'[k] = MergeWrite(rows[k], e) /\ rows'[k] # NoRow
      BY <2>1, <3>1, MergeWriteType, SameMerge DEF Store!Upsert, Store!TypeOK
    <3>3. CASE e.source = HumanVerified
      <4>1. rows'[k] = e
        BY <3>2, <3>3, MergeWriteReview
      <4>2. verified'[k] = e.structured
        BY <2>1, <3>3 DEF Store!Upsert, Store!RecordReview, Store!TypeOK
      <4> QED
        BY <2>1, <3>2, <3>3, <4>1, <4>2
    <3>4. CASE e.source # HumanVerified
      <4>1. verified' = verified
        BY <2>1, <3>4 DEF Store!Upsert, Store!RecordReview
      <4>2. rows[k] \in Row /\ rows[k].source = HumanVerified /\ rows[k].structured = verified[k]
        BY <2>1, <3>1, <4>1 DEF Store!HumanDecisionStands
      <4> QED
        BY <2>1, <3>2, <3>4, <4>1, <4>2, MergeWriteProtects
    <3> QED
      BY <3>3, <3>4
  <2>2. ASSUME NEW k \in Keys, NEW e \in Entry, Store!Upsert(k, e), j # k
        PROVE  /\ rows'[j] # NoRow
               /\ rows'[j].source = HumanVerified
               /\ rows'[j].structured = verified'[j]
    <3>1. rows'[j] = rows[j] /\ verified'[j] = verified[j]
      BY <2>2 DEF Store!Upsert, Store!RecordReview, Store!TypeOK
    <3> QED
      BY <3>1 DEF Store!HumanDecisionStands
  <2>3. CASE UNCHANGED Store!vars
    BY <2>3 DEF Store!vars, Store!HumanDecisionStands
  <2> QED
    BY <2>1, <2>2, <2>3 DEF Store!Next
<1> QED
  BY <1>1, <1>2, StoreTypeCorrect, PTL DEF Store!Spec

-----------------------------------------------------------------------------
\* The store's well-formedness survives each of an upsert's two commands.
LEMMA TypeStep == TypeOK /\ [Next]_vars => TypeOK'
<1> USE CacheEntriesAssumption, RedisStoreAssumption, SameEntries
<1> SUFFICES ASSUME TypeOK, [Next]_vars
             PROVE  TypeOK'
  OBVIOUS
<1>1. ASSUME NEW w \in Writers, NEW k \in Keys, NEW e \in Entry, ReadExisting(w, k, e)
      PROVE  TypeOK'
  <2>1. [key |-> k, entry |-> e, existing |-> rows[k]] \in Pending
    BY DEF TypeOK, Store!TypeOK, Pending
  <2> QED
    BY <1>1, <2>1 DEF ReadExisting, TypeOK, Store!TypeOK
<1>2. ASSUME NEW w \in Writers, WriteMerged(w)
      PROVE  TypeOK'
  <2>1. upserts[w] \in Pending
    BY <1>2 DEF WriteMerged, TypeOK
  <2>2. upserts[w].key \in Keys /\ upserts[w].entry \in Entry /\ upserts[w].existing \in Row \cup {NoRow}
    BY <2>1 DEF Pending
  <2>3. Merged(upserts[w]) \in Row
    BY <2>2 DEF Merged, MergeWrite, Entry, Row, Sources, HumanVerified
  <2>4. upserts[w].entry.structured \in Answers
    BY <2>2 DEF Entry, Row
  <2>5. rows' \in [Keys -> Row \cup {NoRow}]
    BY <1>2, <2>2, <2>3 DEF WriteMerged, TypeOK, Store!TypeOK
  <2>6. verified' \in [Keys -> Answers \cup {Unverified}]
    BY <1>2, <2>2, <2>4 DEF WriteMerged, Store!RecordReview, TypeOK, Store!TypeOK
  <2>7. upserts' \in [Writers -> Pending \cup {Idle}]
    BY <1>2 DEF WriteMerged, TypeOK
  <2> QED
    BY <2>5, <2>6, <2>7 DEF TypeOK, Store!TypeOK
<1>3. ASSUME NEW w \in Writers, Abandon(w)
      PROVE  TypeOK'
  BY <1>3 DEF Abandon, TypeOK, Store!TypeOK
<1>4. CASE UNCHANGED vars
  BY <1>4 DEF vars, TypeOK, Store!TypeOK
<1> QED
  BY <1>1, <1>2, <1>3, <1>4 DEF Next

LEMMA InitType == Init => TypeOK
BY DEF Init, TypeOK, Store!Init, Store!TypeOK

\* A quiet review is alone on its address for as long as it lasts.
LEMMA ReviewsAloneStep == QuietReview /\ TypeOK /\ ReviewsAlone /\ [Next]_vars => ReviewsAlone'
<1> USE CacheEntriesAssumption, RedisStoreAssumption, SameEntries
<1> SUFFICES ASSUME QuietReview, TypeOK, ReviewsAlone, [Next]_vars
             PROVE  ReviewsAlone'
  OBVIOUS
<1>1. ASSUME NEW w \in Writers, NEW k \in Keys, NEW e \in Entry, ReadExisting(w, k, e)
      PROVE  ReviewsAlone'
  <2>1. \A v \in Writers : v # w => upserts'[v] = upserts[v]
    BY <1>1 DEF ReadExisting, TypeOK
  <2>2. upserts'[w].key = k /\ upserts'[w].entry = e
    BY <1>1 DEF ReadExisting, TypeOK
  <2>3. e.source = HumanVerified => InFlight(k) = {}
    BY <1>1 DEF ReadExisting, MayBegin
  <2>4. e.source # HumanVerified => \A v \in InFlight(k) : upserts[v].entry.source # HumanVerified
    BY <1>1 DEF ReadExisting, MayBegin
  <2> SUFFICES ASSUME NEW u \in Writers, NEW v \in Writers,
                      upserts'[u] # Idle, upserts'[v] # Idle, u # v,
                      upserts'[u].key = upserts'[v].key
               PROVE  upserts'[u].entry.source # HumanVerified
    BY DEF ReviewsAlone
  <2>5. CASE u = w
    <3>1. v \in InFlight(k)
      BY <2>1, <2>2, <2>5 DEF InFlight
    <3> QED
      BY <2>2, <2>3, <2>5, <3>1
  <2>6. CASE v = w
    <3>1. u \in InFlight(k)
      BY <2>1, <2>2, <2>6 DEF InFlight
    <3>2. e.source # HumanVerified
      BY <2>3, <3>1
    <3> QED
      BY <2>1, <2>4, <2>6, <3>1, <3>2
  <2>7. CASE u # w /\ v # w
    BY <2>1, <2>7 DEF ReviewsAlone
  <2> QED
    BY <2>5, <2>6, <2>7
<1>2. ASSUME NEW w \in Writers, WriteMerged(w) \/ Abandon(w)
      PROVE  ReviewsAlone'
  <2>1. upserts' = [upserts EXCEPT ![w] = Idle]
    BY <1>2 DEF WriteMerged, Abandon
  <2> QED
    BY <2>1 DEF ReviewsAlone, TypeOK
<1>3. CASE UNCHANGED vars
  BY <1>3 DEF vars, ReviewsAlone
<1> QED
  BY <1>1, <1>2, <1>3 DEF Next

\* Whoever else writes an address in between, a pending merge stays right.
LEMMA MergesStillValidStep == IInv /\ [Next]_vars => MergesStillValid'
<1> USE CacheEntriesAssumption, RedisStoreAssumption, SameEntries
<1> SUFFICES ASSUME IInv, [Next]_vars
             PROVE  MergesStillValid'
  OBVIOUS
<1>1. ASSUME NEW w \in Writers, NEW k \in Keys, NEW e \in Entry, ReadExisting(w, k, e)
      PROVE  MergesStillValid'
  <2>1. rows' = rows
    BY <1>1 DEF ReadExisting
  <2>2. \A v \in Writers : v # w => upserts'[v] = upserts[v]
    BY <1>1 DEF ReadExisting, IInv, TypeOK
  <2>3. upserts'[w] = [key |-> k, entry |-> e, existing |-> rows[k]]
    BY <1>1 DEF ReadExisting, IInv, TypeOK
  <2> QED
    BY <2>1, <2>2, <2>3 DEF MergesStillValid, IInv, Merged
<1>2. ASSUME NEW w \in Writers, WriteMerged(w)
      PROVE  MergesStillValid'
  <2> SUFFICES ASSUME NEW v \in Writers, upserts'[v] # Idle
               PROVE  Merged(upserts'[v]) = MergeWrite(rows'[upserts'[v].key], upserts'[v].entry)
    BY DEF MergesStillValid
  <2>1. v # w /\ upserts'[v] = upserts[v] /\ upserts[v] # Idle /\ upserts[w] # Idle
    BY <1>2 DEF WriteMerged, IInv, TypeOK
  <2>2. /\ upserts[v] \in Pending /\ upserts[w] \in Pending
        /\ upserts[v].key \in Keys /\ upserts[w].key \in Keys
        /\ upserts[v].entry \in Entry /\ upserts[w].entry \in Entry
        /\ rows[upserts[v].key] \in Row \cup {NoRow}
    BY <2>1 DEF IInv, TypeOK, Store!TypeOK, Pending
  <2>3. CASE upserts[v].key # upserts[w].key
    <3>1. rows'[upserts[v].key] = rows[upserts[v].key]
      BY <1>2, <2>2, <2>3 DEF WriteMerged, IInv, TypeOK, Store!TypeOK
    <3> QED
      BY <2>1, <3>1 DEF IInv, MergesStillValid
  <2>4. CASE upserts[v].key = upserts[w].key
    <3>1. upserts[w].entry.source # HumanVerified /\ upserts[v].entry.source # HumanVerified
      BY <2>1, <2>4 DEF IInv, ReviewsAlone
    <3>2. rows'[upserts[v].key] = MergeWrite(rows[upserts[v].key], upserts[w].entry)
      BY <1>2, <2>1, <2>2, <2>4 DEF WriteMerged, IInv, TypeOK, Store!TypeOK, MergesStillValid
    <3>3. MergeWrite(rows'[upserts[v].key], upserts[v].entry)
            = MergeWrite(rows[upserts[v].key], upserts[v].entry)
      BY <2>2, <3>1, <3>2, MergeWriteTwice
    <3> QED
      BY <2>1, <3>3 DEF IInv, MergesStillValid
  <2> QED
    BY <2>3, <2>4
<1>3. ASSUME NEW w \in Writers, Abandon(w)
      PROVE  MergesStillValid'
  BY <1>3 DEF Abandon, MergesStillValid, IInv, TypeOK
<1>4. CASE UNCHANGED vars
  BY <1>4 DEF vars, MergesStillValid, IInv
<1> QED
  BY <1>1, <1>2, <1>3, <1>4 DEF Next

-----------------------------------------------------------------------------
\* Well-formed documents, with or without quiet reviews (RedisStore.TypeOK).
THEOREM RedisTypeCorrect == Spec => []TypeOK
BY InitType, TypeStep, PTL DEF Spec

LEMMA QuietInvariant == ASSUME QuietReview PROVE Spec => []IInv
<1>1. Init => IInv
  BY InitType, RedisStoreAssumption DEF Init, IInv, ReviewsAlone, MergesStillValid
<1>2. IInv /\ [Next]_vars => IInv'
  BY TypeStep, ReviewsAloneStep, MergesStillValidStep DEF IInv
<1> QED
  BY <1>1, <1>2, PTL DEF Spec

\* Under quiet reviews every step of the two-command upsert is a step of the
\* atomic store or leaves its variables alone.
THEOREM RedisImplementsStore == ASSUME QuietReview PROVE Spec => AtomicUpserts
<1> USE CacheEntriesAssumption, RedisStoreAssumption, SameEntries
<1>1. Init => Store!Init
  BY DEF Init
<1>2. IInv /\ [Next]_vars => [Store!Next]_(Store!vars)
  <2> SUFFICES ASSUME IInv, [Next]_vars
               PROVE  [Store!Next]_(Store!vars)
    OBVIOUS
  <2>1. ASSUME NEW w \in Writers, WriteMerged(w)
        PROVE  Store!Next
    <3>1. upserts[w] \in Pending
      BY <2>1 DEF WriteMerged, IInv, TypeOK
    <3>2. upserts[w].key \in Keys /\ upserts[w].entry \in Entry
      BY <3>1 DEF Pending
    <3>3. Merged(upserts[w]) = MergeWrite(rows[upserts[w].key], upserts[w].entry)
      BY <2>1 DEF WriteMerged, IInv, MergesStillValid
    <3>4. Store!Upsert(upserts[w].key, upserts[w].entry)
      BY <2>1, <3>3, SameMerge DEF WriteMerged, Store!Upsert
    <3> QED
      BY <3>2, <3>4 DEF Store!Next
  <2>2. ASSUME NEW w \in Writers, NEW k \in Keys, NEW e \in Entry, ReadExisting(w, k, e)
        PROVE  UNCHANGED Store!vars
    BY <2>2 DEF ReadExisting, Store!vars
  <2>3. ASSUME NEW w \in Writers, Abandon(w)
        PROVE  UNCHANGED Store!vars
    BY <2>3 DEF Abandon, Store!vars
  <2>4. CASE UNCHANGED vars
    BY <2>4 DEF vars, Store!vars
  <2> QED
    BY <2>1, <2>2, <2>3, <2>4 DEF Next
<1> QED
  BY <1>1, <1>2, QuietInvariant, PTL DEF Spec, AtomicUpserts, Store!Spec

\* Hence, with quiet reviews, the latest review of an address stands in Redis
\* as it does in Postgres.
THEOREM RedisHumanDecision == ASSUME QuietReview PROVE Spec => []HumanDecisionStands
<1> USE CacheEntriesAssumption, SameEntries DEF HumanDecisionStands, Store!HumanDecisionStands,
        Store!HumanVerified, HumanVerified
<1>1. Init => HumanDecisionStands
  BY DEF Init, Store!Init
<1>2. IInv /\ HumanDecisionStands /\ [Next]_vars => HumanDecisionStands'
  <2> SUFFICES ASSUME IInv, HumanDecisionStands, [Next]_vars
               PROVE  HumanDecisionStands'
    OBVIOUS
  <2>1. ASSUME NEW w \in Writers, WriteMerged(w)
        PROVE  HumanDecisionStands'
    <3> DEFINE k == upserts[w].key
               e == upserts[w].entry
    <3>1. k \in Keys /\ e \in Entry /\ e \in Row /\ rows[k] \in Row \cup {NoRow}
      BY <2>1 DEF WriteMerged, IInv, TypeOK, Store!TypeOK, Pending, Entry
    <3>2. \A j \in Keys : j # k => rows'[j] = rows[j] /\ verified'[j] = verified[j]
      BY <2>1, <3>1 DEF WriteMerged, Store!RecordReview, IInv, TypeOK, Store!TypeOK
    <3>3. rows'[k] = MergeWrite(rows[k], e)
      BY <2>1, <3>1 DEF WriteMerged, IInv, MergesStillValid, TypeOK, Store!TypeOK
    <3>4. rows'[k] # NoRow
      BY <3>1, <3>3, MergeWriteType
    <3>5. CASE e.source = HumanVerified
      <4>1. rows'[k] = e
        BY <3>1, <3>3, <3>5, MergeWriteReview
      <4>2. verified'[k] = e.structured
        BY <2>1, <3>1, <3>5 DEF WriteMerged, Store!RecordReview, IInv, TypeOK, Store!TypeOK
      <4> QED
        BY <3>2, <3>4, <3>5, <4>1, <4>2
    <3>6. CASE e.source # HumanVerified
      <4>1. verified' = verified
        BY <2>1, <3>6 DEF WriteMerged, Store!RecordReview
      <4>2. verified[k] # Unverified => /\ rows'[k].source = HumanVerified
                                        /\ rows'[k].structured = verified[k]
        BY <3>1, <3>3, <3>6, MergeWriteProtects
      <4> QED
        BY <3>2, <3>4, <4>1, <4>2
    <3> QED
      BY <3>5, <3>6
  <2>2. ASSUME NEW w \in Writers, NEW k \in Keys, NEW e \in Entry, ReadExisting(w, k, e)
        PROVE  HumanDecisionStands'
    BY <2>2 DEF ReadExisting
  <2>3. ASSUME NEW w \in Writers, Abandon(w)
        PROVE  HumanDecisionStands'
    BY <2>3 DEF Abandon
  <2>4. CASE UNCHANGED vars
    BY <2>4 DEF vars
  <2> QED
    BY <2>1, <2>2, <2>3, <2>4 DEF Next
<1> QED
  BY <1>1, <1>2, QuietInvariant, PTL DEF Spec

\* Labels match answers in Redis even while reviews and pipeline writes race:
\* the merge takes source and structured from the same side.
THEOREM RedisLabelsMatch == Spec => []LabelMatchesAnswer
<1> DEFINE LInv == LabelMatchesAnswer /\ ReadsLabelled
<1> USE CacheEntriesAssumption, SameEntries
    DEF LabelMatchesAnswer, Store!LabelMatchesAnswer, ReadsLabelled
<1>1. Init => LInv
  BY DEF Init, Store!Init
<1>2. TypeOK /\ LInv /\ [Next]_vars => LInv'
  <2> SUFFICES ASSUME TypeOK, LInv, [Next]_vars
               PROVE  LInv'
    OBVIOUS
  <2>1. ASSUME NEW w \in Writers, NEW k \in Keys, NEW e \in Entry, ReadExisting(w, k, e)
        PROVE  LInv'
    BY <2>1 DEF ReadExisting, TypeOK
  <2>2. ASSUME NEW w \in Writers, WriteMerged(w)
        PROVE  LInv'
    <3>1. /\ upserts[w].key \in Keys /\ upserts[w].entry \in Entry
          /\ upserts[w].existing \in Row \cup {NoRow}
      BY <2>2 DEF WriteMerged, TypeOK, Pending
    <3>2. Merged(upserts[w]).source = Author[Merged(upserts[w]).structured]
      BY <2>2, <3>1, MergeWriteLabel DEF Merged, WriteMerged
    <3> QED
      BY <2>2, <3>1, <3>2 DEF WriteMerged, TypeOK, Store!TypeOK
  <2>3. ASSUME NEW w \in Writers, Abandon(w)
        PROVE  LInv'
    BY <2>3 DEF Abandon, TypeOK
  <2>4. CASE UNCHANGED vars
    BY <2>4 DEF vars
  <2> QED
    BY <2>1, <2>2, <2>3, <2>4 DEF Next
<1> QED
  BY <1>1, <1>2, RedisTypeCorrect, PTL DEF Spec
=============================================================================
