----------------------- MODULE OnnxEnvironmentProofs -----------------------
(***************************************************************************)
(* Reference counting keeps the ONNX Runtime environment for whoever uses  *)
(* it, for any number of engines and embedders.  The invariant's heart is  *)
(* that the environment may only be destroyed in a process where every     *)
(* user is counted: so a count of zero means that nobody is left.          *)
(***************************************************************************)
EXTENDS OnnxEnvironment, FiniteSetTheorems, TLAPS

Joined == {"joined", "open", "closing"}

\* Who has joined finds the environment, and nothing is owned or to be
\* destroyed without one.
InPlace ==
  /\ Using # {} => alive
  /\ owned => alive
  /\ destroyRequested => owned

\* Where the environment may be destroyed everyone in it is counted.
EveryUserCounted ==
  /\ embeds => ~destroyRequested
  /\ ~embeds => (alive => owned) /\ Using \subseteq counted

\* Only an engine that was created holds a reference.
HoldersCreated == \A e \in counted : stage[e] # "none"

IInv == TypeOK /\ CountedExactly /\ InPlace /\ EveryUserCounted /\ HoldersCreated

-----------------------------------------------------------------------------
\* Moving in or out of the stages of use is joining or leaving the users.
LEMMA UsingAfter ==
  ASSUME TypeOK, NEW x \in Engines \cup Embedders, NEW from, NEW to, Move(x, from, to)
  PROVE  /\ to \in Joined => Using' = Using \cup {x}
         /\ to \notin Joined => Using' = Using \ {x}
         /\ from \in Joined <=> x \in Using
BY DEF TypeOK, Move, Using, Joined

\* The holders of a reference are finitely many, so they can be counted.
LEMMA HoldersFinite ==
  ASSUME TypeOK, NEW S
  PROVE  /\ IsFiniteSet(counted \cap S)
         /\ Cardinality(counted \cap S) \in 0..Cardinality(Engines)
         /\ Cardinality(Engines) \in Nat
<1>1. counted \cap S \subseteq Engines
  BY DEF TypeOK
<1>2. /\ IsFiniteSet(counted \cap S)
      /\ Cardinality(counted \cap S) <= Cardinality(Engines)
  BY <1>1, OnnxAssumption, FS_Subset
<1>3. Cardinality(counted \cap S) \in Nat /\ Cardinality(Engines) \in Nat
  BY <1>2, OnnxAssumption, FS_CardinalityType
<1> QED
  BY <1>2, <1>3

\* What giving a reference back does, in a constructor that fails and in Close:
\* the count follows, and the environment goes only when nobody is left in it.
LEMMA GivingBack ==
  ASSUME IInv, NEW e \in Engines, NEW ok \in BOOLEAN, Release(e, ok),
         e \in Using \/ active = 0,
         Using' = Using \ {e},
         counted' = counted \/ counted' = counted \ {e}
  PROVE  /\ active' = Cardinality(counted' \cap Using')
         /\ active' \in 0..Cardinality(Engines)
         /\ \/ UNCHANGED <<alive, owned, destroyRequested>>
            \/ Using' = {} /\ ~alive' /\ ~owned' /\ ~destroyRequested'
         /\ alive' \in BOOLEAN /\ owned' \in BOOLEAN /\ destroyRequested' \in BOOLEAN
<1> DEFINE Holders == counted \cap Using
<1>1. counted' \cap Using' = Holders \ {e}
  OBVIOUS
<1>2. active = Cardinality(Holders) /\ IsFiniteSet(Holders) /\ active \in Nat
  BY HoldersFinite DEF IInv, CountedExactly, TypeOK
<1>3. active = 0 => Holders = {}
  BY <1>2, FS_EmptySet
<1>4. /\ IsFiniteSet(Holders \ {e})
      /\ Cardinality(Holders \ {e}) = IF e \in Holders THEN active - 1 ELSE active
  BY <1>2, FS_RemoveElement
<1>5. active' = Cardinality(Holders \ {e})
  <2>1. CASE e \in Holders
    <3>1. active > 0
      BY <2>1, <1>2, <1>3
    <3> QED
      BY <2>1, <3>1, <1>4 DEF Release
  <2>2. CASE e \notin Holders
    <3>1. e \notin counted \/ active = 0
      BY <2>2
    <3> QED
      BY <2>2, <3>1, <1>2, <1>4 DEF Release
  <2> QED
    BY <2>1, <2>2
<1>6. active' = Cardinality(counted' \cap Using') /\ active' \in 0..Cardinality(Engines)
  <2>1. counted' \cap Using' = counted \cap (Using \ {e})
    OBVIOUS
  <2>2. Cardinality(counted \cap (Using \ {e})) \in 0..Cardinality(Engines)
    BY HoldersFinite DEF IInv
  <2> QED
    BY <1>1, <1>5, <2>1, <2>2
<1>7. \/ UNCHANGED <<alive, owned, destroyRequested>>
      \/ Using' = {} /\ ~alive' /\ ~owned' /\ ~destroyRequested'
  <2> SUFFICES ASSUME ~UNCHANGED <<alive, owned, destroyRequested>>
               PROVE  Using' = {} /\ ~alive' /\ ~owned' /\ ~destroyRequested'
    OBVIOUS
  <2>1. active' = 0 /\ owned /\ (destroyRequested \/ ~alive) /\ ~alive' /\ ~owned' /\ ~destroyRequested'
    BY DEF Release
  <2>2. ~embeds
    BY <2>1 DEF IInv, InPlace, EveryUserCounted
  <2>3. Using \ {e} \subseteq Holders \ {e}
    BY <2>2 DEF IInv, EveryUserCounted
  <2>4. Holders \ {e} = {}
    BY <2>1, <1>4, <1>5, FS_EmptySet
  <2> QED
    BY <2>1, <2>3, <2>4
<1>8. alive' \in BOOLEAN /\ owned' \in BOOLEAN /\ destroyRequested' \in BOOLEAN
  BY DEF Release, IInv, TypeOK
<1> QED
  BY <1>6, <1>7, <1>8

\* The same, as a step of the invariant: e leaves, or was already out.
LEMMA GivingBackStep ==
  ASSUME IInv, NEW e \in Engines, NEW ok \in BOOLEAN, Release(e, ok),
         NEW from \in Stages, NEW to \in {"none", "refused"}, Move(e, from, to),
         from \in Joined \/ active = 0,
         counted' = IF to = "none" THEN counted \ {e} ELSE counted,
         UNCHANGED embeds
  PROVE  IInv'
<1>1. Using' = Using \ {e} /\ (from \in Joined <=> e \in Using)
  BY UsingAfter DEF IInv, Joined
<1>2. /\ active' = Cardinality(counted' \cap Using')
      /\ active' \in 0..Cardinality(Engines)
      /\ \/ UNCHANGED <<alive, owned, destroyRequested>>
         \/ Using' = {} /\ ~alive' /\ ~owned' /\ ~destroyRequested'
      /\ alive' \in BOOLEAN /\ owned' \in BOOLEAN /\ destroyRequested' \in BOOLEAN
  BY <1>1, GivingBack
<1>3. TypeOK'
  BY <1>2 DEF IInv, TypeOK, Move, Stages
<1>4. CountedExactly'
  BY <1>2 DEF CountedExactly
<1>5. InPlace'
  BY <1>1, <1>2 DEF IInv, InPlace
<1>6. EveryUserCounted'
  BY <1>1, <1>2 DEF IInv, EveryUserCounted
<1>7. HoldersCreated'
  BY DEF IInv, TypeOK, HoldersCreated, Move
<1> QED
  BY <1>3, <1>4, <1>5, <1>6, <1>7 DEF IInv

\* A new engine is counted exactly when the environment is the engines' own.
LEMMA NewEngineStep ==
  ASSUME IInv, NEW e \in Engines, NewEngine(e)
  PROVE  IInv' /\ Using' = Using \cup {e} /\ e \notin Using /\ alive' = TRUE
<1>1. Move(e, "none", "joined") /\ embeds' = embeds
  BY DEF NewEngine
<1>2. PICK destroy \in BOOLEAN : (embeds => ~destroy) /\ Acquire(e, destroy)
  BY DEF NewEngine
<1>3. Using' = Using \cup {e} /\ e \notin Using /\ e \notin counted
  BY <1>1, UsingAfter DEF IInv, Joined, HoldersCreated, Move
<1>4. TypeOK' /\ CountedExactly'
  <2> DEFINE Holders == counted \cap Using
  <2>1. active = Cardinality(Holders) /\ IsFiniteSet(Holders) /\ active \in Nat
    BY HoldersFinite DEF IInv, CountedExactly, TypeOK
  <2>2. Cardinality(Holders \cup {e}) = active + 1
    BY <2>1, <1>3, FS_AddElement
  <2>3. counted' \cap Using' = IF owned' THEN Holders \cup {e} ELSE Holders
    BY <1>2, <1>3 DEF Acquire
  <2>4. CountedExactly'
    BY <1>2, <2>1, <2>2, <2>3 DEF Acquire, CountedExactly
  <2>5. counted' \subseteq Engines /\ stage' \in [Engines \cup Embedders -> Stages]
    BY <1>1, <1>2 DEF Acquire, IInv, TypeOK, Move, Stages
  <2>6. Cardinality(counted' \cap Using') \in 0..Cardinality(Engines)
    <3>1. counted' \cap Using' \subseteq Engines
      BY <2>5
    <3>2. IsFiniteSet(counted' \cap Using') /\ Cardinality(counted' \cap Using') <= Cardinality(Engines)
      BY <3>1, OnnxAssumption, FS_Subset
    <3> QED
      BY <3>2, OnnxAssumption, FS_CardinalityType
  <2>7. alive' \in BOOLEAN /\ owned' \in BOOLEAN /\ destroyRequested' \in BOOLEAN
    BY <1>2 DEF Acquire, IInv, TypeOK
  <2>8. TypeOK'
    BY <1>1, <2>4, <2>5, <2>6, <2>7 DEF IInv, TypeOK, CountedExactly
  <2> QED
    BY <2>4, <2>8
<1>5. InPlace'
  BY <1>2, <1>3 DEF Acquire, IInv, TypeOK, InPlace
<1>6. EveryUserCounted'
  BY <1>1, <1>2, <1>3 DEF Acquire, IInv, TypeOK, EveryUserCounted
<1>7. HoldersCreated'
  BY <1>1, <1>2 DEF Acquire, IInv, TypeOK, HoldersCreated, Move
<1> QED
  BY <1>2, <1>3, <1>4, <1>5, <1>6, <1>7 DEF IInv, Acquire

\* Going from one stage of use to the next touches nothing else.
LEMMA StayingStep ==
  ASSUME IInv, NEW x \in Engines \cup Embedders, NEW from \in Joined, NEW to \in Joined,
         Move(x, from, to), UNCHANGED <<embeds, environment, counted>>
  PROVE  IInv' /\ Using' = Using
<1>1. Using' = Using
  BY UsingAfter DEF IInv
<1>2. TypeOK' /\ HoldersCreated'
  BY DEF IInv, TypeOK, HoldersCreated, Move, Joined, Stages, environment
<1> QED
  BY <1>1, <1>2 DEF IInv, CountedExactly, InPlace, EveryUserCounted, environment

\* An embedder is never counted, so it joins and leaves without a trace in the
\* count; where there is one the environment is not destroyed.
LEMMA EmbedderStep ==
  ASSUME IInv, NEW m \in Embedders,
         NewEmbedder(m) \/ CreateEmbedderSession(m) \/ CloseEmbedder(m)
  PROVE  /\ IInv'
         /\ \/ Using' = Using \cup {m} /\ alive' = TRUE
            \/ Using' = Using \ {m} /\ alive' = alive
<1>0. m \notin counted
  BY OnnxAssumption DEF IInv, TypeOK
<1>1. CASE NewEmbedder(m)
  <2>1. Using' = Using \cup {m}
    BY <1>1, UsingAfter DEF NewEmbedder, IInv, Joined
  <2>2. counted' \cap Using' = counted \cap Using
    BY <1>0, <1>1, <2>1 DEF NewEmbedder
  <2>3. TypeOK' /\ HoldersCreated'
    BY <1>0, <1>1 DEF NewEmbedder, IInv, TypeOK, HoldersCreated, Move, Stages
  <2>4. CountedExactly'
    BY <1>1, <2>2 DEF NewEmbedder, IInv, CountedExactly
  <2>5. InPlace' /\ EveryUserCounted'
    BY <1>1 DEF NewEmbedder, IInv, InPlace, EveryUserCounted
  <2> QED
    BY <1>1, <2>1, <2>3, <2>4, <2>5 DEF IInv, NewEmbedder
<1>2. CASE CreateEmbedderSession(m) \/ CloseEmbedder(m)
  <2>1. PICK from \in {"joined", "open"}, to \in {"open", "none"} :
          Move(m, from, to) /\ UNCHANGED <<embeds, environment, counted>>
    BY <1>2 DEF CreateEmbedderSession, CloseEmbedder
  <2>2. CASE to = "open"
    <3>1. IInv' /\ Using' = Using /\ m \in Using
      BY <2>1, <2>2, StayingStep, UsingAfter DEF Joined, IInv
    <3> QED
      BY <2>1, <2>2, <3>1, UsingAfter DEF Joined, environment, IInv, InPlace, TypeOK
  <2>3. CASE to = "none"
    <3>1. Using' = Using \ {m}
      BY <2>1, <2>3, UsingAfter DEF Joined, IInv
    <3>2. counted' \cap Using' = counted \cap Using
      BY <1>0, <2>1, <3>1
    <3>3. TypeOK' /\ HoldersCreated'
      BY <1>0, <2>1 DEF IInv, TypeOK, HoldersCreated, Move, Stages, environment
    <3>4. CountedExactly'
      BY <2>1, <3>2 DEF environment, IInv, CountedExactly
    <3>5. InPlace' /\ EveryUserCounted'
      BY <2>1, <3>1 DEF environment, IInv, InPlace, EveryUserCounted
    <3> QED
      BY <2>1, <3>1, <3>3, <3>4, <3>5 DEF environment, IInv
  <2> QED
    BY <2>1, <2>2, <2>3
<1> QED
  BY <1>1, <1>2

\* An engine that leaves, by a failed constructor or by Close, or that promptly calls
\* a failed Close again.
LEMMA LeavingStep ==
  ASSUME PromptRetries, IInv, NEW e \in Engines,
         CreateSessionFails(e) \/ LeaveEnvironment(e) \/ CloseAgain(e)
  PROVE  /\ IInv'
         /\ Using' = Using \ {e}
         /\ alive' = alive \/ (Using' = {} /\ ~alive')
<1>1. PICK from \in {"joined", "closing", "refused"}, to \in {"none", "refused"}, ok \in BOOLEAN :
        /\ Move(e, from, to) /\ Release(e, ok)
        /\ from = "refused" => active = 0
        /\ counted' = IF to = "none" THEN counted \ {e} ELSE counted
        /\ embeds' = embeds
  <2>1. CASE CreateSessionFails(e)
    <3>1. PICK ok \in BOOLEAN : Release(e, ok)
      BY <2>1 DEF CreateSessionFails, ReturnOnFailure
    <3> QED
      BY <2>1, <3>1 DEF CreateSessionFails
  <2>2. CASE LeaveEnvironment(e)
    <3>1. PICK ok \in BOOLEAN :
            /\ Move(e, "closing", IF ok THEN "none" ELSE "refused")
            /\ Release(e, ok)
            /\ counted' = (IF ok THEN counted \ {e} ELSE counted)
            /\ embeds' = embeds
      BY <2>2 DEF LeaveEnvironment
    <3> QED
      BY <3>1
  <2>3. CASE CloseAgain(e)
    <3>1. PICK ok \in BOOLEAN :
            /\ Move(e, "refused", IF ok THEN "none" ELSE "refused")
            /\ Release(e, ok)
            /\ counted' = (IF ok THEN counted \ {e} ELSE counted)
      BY <2>3 DEF CloseAgain
    <3>2. active = 0 /\ embeds' = embeds
      BY <2>3 DEF CloseAgain, MayCloseAgain
    <3> QED
      BY <3>1, <3>2
  <2> QED
    BY <2>1, <2>2, <2>3
<1>2. IInv'
  BY <1>1, GivingBackStep DEF Joined, Stages
<1>3. Using' = Using \ {e} /\ (e \in Using \/ active = 0)
  BY <1>1, UsingAfter DEF Joined, IInv
<1>4. alive' = alive \/ (Using' = {} /\ ~alive')
  BY <1>1, <1>3, GivingBack
<1> QED
  BY <1>2, <1>3, <1>4

\* Every step keeps the invariant, and is a step of the lease or changes nothing of it.
LEMMA StepOfTheLease ==
  ASSUME PromptRetries, IInv, [Next]_vars
  PROVE  IInv' /\ [Lease!Next]_<<alive, Using>>
<1>1. ASSUME NEW e \in Engines, NewEngine(e)
      PROVE  IInv' /\ Lease!Next
  <2>1. IInv' /\ Lease!Join(e)
    BY <1>1, NewEngineStep DEF Lease!Join
  <2> QED
    BY <2>1 DEF Lease!Next
<1>2. ASSUME NEW e \in Engines, CreateSession(e) \/ DestroySession(e)
      PROVE  IInv' /\ UNCHANGED <<alive, Using>>
  <2>1. PICK from \in Joined, to \in Joined :
          Move(e, from, to) /\ UNCHANGED <<embeds, environment, counted>>
    BY <1>2 DEF CreateSession, DestroySession, Joined
  <2>2. IInv' /\ Using' = Using
    BY <2>1, StayingStep
  <2> QED
    BY <2>1, <2>2 DEF environment
<1>3. ASSUME NEW e \in Engines,
             CreateSessionFails(e) \/ LeaveEnvironment(e) \/ CloseAgain(e)
      PROVE  IInv' /\ [Lease!Next]_<<alive, Using>>
  <2>1. IInv' /\ Using' = Using \ {e} /\ (alive' = alive \/ (Using' = {} /\ ~alive'))
    BY <1>3, LeavingStep
  <2>2. alive' \in BOOLEAN
    BY <2>1 DEF IInv, TypeOK
  <2>3. CASE e \in Using
    <3>1. Lease!Leave(e)
      BY <2>1, <2>2, <2>3 DEF Lease!Leave
    <3> QED
      BY <2>1, <3>1 DEF Lease!Next
  <2>4. CASE e \notin Using
    <3>1. UNCHANGED <<alive, Using>> \/ Lease!Destroy
      BY <2>1, <2>2, <2>4 DEF Lease!Destroy
    <3> QED
      BY <2>1, <3>1 DEF Lease!Next
  <2> QED
    BY <2>3, <2>4
<1>4. ASSUME NEW m \in Embedders,
             NewEmbedder(m) \/ CreateEmbedderSession(m) \/ CloseEmbedder(m)
      PROVE  IInv' /\ [Lease!Next]_<<alive, Using>>
  <2>1. /\ IInv'
        /\ \/ Using' = Using \cup {m} /\ alive' = TRUE
           \/ Using' = Using \ {m} /\ alive' = alive
    BY <1>4, EmbedderStep
  <2>2. m \in Using => alive
    BY DEF IInv, InPlace
  <2>3. UNCHANGED <<alive, Using>> \/ Lease!Join(m) \/ Lease!Leave(m)
    BY <2>1, <2>2 DEF Lease!Join, Lease!Leave, IInv, TypeOK
  <2> QED
    BY <2>1, <2>3 DEF Lease!Next
<1>5. ASSUME UNCHANGED vars
      PROVE  IInv' /\ UNCHANGED <<alive, Using>>
  BY <1>5 DEF vars, environment, IInv, TypeOK, CountedExactly, InPlace, EveryUserCounted,
              HoldersCreated, Using
<1> QED
  BY <1>1, <1>2, <1>3, <1>4, <1>5 DEF Next

LEMMA InitIInv == Init => IInv
<1> SUFFICES ASSUME Init PROVE IInv
  OBVIOUS
<1>1. Using = {}
  BY DEF Init, Using
<1>2. counted \cap Using = {} /\ Cardinality({}) = 0
  BY <1>1, FS_EmptySet
<1>3. TypeOK
  <2>1. Cardinality(Engines) \in Nat
    BY OnnxAssumption, FS_CardinalityType
  <2>2. active \in 0..Cardinality(Engines)
    BY <2>1 DEF Init
  <2>3. stage \in [Engines \cup Embedders -> Stages]
    BY DEF Init, Stages
  <2> QED
    BY <2>2, <2>3 DEF Init, TypeOK
<1> QED
  BY <1>1, <1>2, <1>3 DEF Init, IInv, CountedExactly, InPlace, EveryUserCounted, HoldersCreated

\* The strengthening holds of every reachable state, if a failed Close is not
\* repeated when a newer engine holds a reference.
THEOREM Invariance == ASSUME PromptRetries PROVE Spec => []IInv
<1>1. IInv /\ [Next]_vars => IInv'
  BY StepOfTheLease
<1> QED
  BY InitIInv, <1>1, PTL DEF Spec

\* The count of references never exceeds the engines there are, and embedders
\* never hold one.
THEOREM TypeCorrect == ASSUME PromptRetries PROVE Spec => []TypeOK
<1>1. IInv => TypeOK
  BY DEF IInv
<1> QED
  BY Invariance, <1>1, PTL

\* onnxEnvState.active is exact in any order of acquiring, failing to construct
\* and closing, as long as a failed Close is repeated promptly.
THEOREM ReferencesCounted == ASSUME PromptRetries PROVE Spec => []CountedExactly
<1>1. IInv => CountedExactly
  BY DEF IInv
<1> QED
  BY Invariance, <1>1, PTL

\* No open session is left without the environment.
THEOREM SessionsSafe == ASSUME PromptRetries PROVE Spec => []SessionsHaveEnvironment
<1>1. IInv => SessionsHaveEnvironment
  BY DEF IInv, InPlace, SessionsHaveEnvironment, Using
<1> QED
  BY Invariance, <1>1, PTL

\* The reference counting of onnx.go implements the lease its users rely on.
THEOREM ImplementsLease == ASSUME PromptRetries PROVE Spec => LeaseKept
<1>1. Init => Lease!Init
  BY DEF Init, Lease!Init, Using
<1>2. IInv /\ [Next]_vars => [Lease!Next]_<<alive, Using>>
  BY StepOfTheLease
<1> QED
  BY Invariance, <1>1, <1>2, PTL DEF Spec, LeaseKept, Lease!Spec
=============================================================================
