-------------------------- MODULE OnnxEnvironment --------------------------
(***************************************************************************)
(* The ONNX Runtime environment of a process.  The library has one, which  *)
(* sessions need and anyone may create or destroy.  Inference engines      *)
(* (internal/model/onnx.go) count themselves and the last one out destroys *)
(* it, if one of them asked for that; the local embedder                   *)
(* (internal/embedding/local.go) creates it if need be but is not counted. *)
(* A constructor joins the environment before it creates its session, and  *)
(* Close gives the session up before it leaves, so others come in between. *)
(*                                                                         *)
(* What callers do, as cmd/ and the tests have it: nobody asks for the     *)
(* destruction in a process that has local embedders, and a Close that     *)
(* succeeded is not repeated.  Nor is one that failed, by the callers of   *)
(* today; Close lets it be (PromptRetries).                                *)
(***************************************************************************)
EXTENDS Integers, FiniteSets

CONSTANTS
  Engines,
  Embedders,
  PromptRetries  \* TRUE: a failed Close is repeated, if at all, while no engine holds a reference

ASSUME OnnxAssumption ==
  /\ IsFiniteSet(Engines)
  /\ Engines \cap Embedders = {}
  /\ PromptRetries \in BOOLEAN

VARIABLES
  embeds,            \* the process uses local embedders
  alive,             \* ort.IsInitialized()
  owned, active, destroyRequested,  \* onnxEnvState
  stage,             \* where each engine and embedder is in its life
  counted            \* engines with releaseOnClose or releaseEnvironment set

environment == <<alive, owned, active, destroyRequested>>
vars == <<embeds, environment, stage, counted>>

\* "refused": Close returned an error, the environment was not destroyed.
Stages == {"none", "joined", "open", "closing", "refused"}

Init ==
  /\ embeds \in BOOLEAN
  /\ alive = FALSE /\ owned = FALSE /\ active = 0 /\ destroyRequested = FALSE
  /\ stage = [x \in Engines \cup Embedders |-> "none"]
  /\ counted = {}

Move(x, from, to) ==
  /\ stage[x] = from
  /\ stage' = [stage EXCEPT ![x] = to]

\* Slip: only the engine that creates the environment is counted.
CountFirst(e, destroy) ==
  /\ owned' = (owned \/ ~alive)
  /\ alive' = TRUE
  /\ active' = (IF ~alive THEN active + 1 ELSE active)
  /\ destroyRequested' = (destroyRequested \/ (owned' /\ destroy))
  /\ counted' = (IF owned' THEN counted \cup {e} ELSE counted)

\* acquireONNXEnvironment; when the library fails to initialize, nothing changes.
Acquire(e, destroy) ==
  /\ owned' = (owned \/ ~alive)
  /\ alive' = TRUE
  /\ active' = (IF owned' THEN active + 1 ELSE active)
  /\ destroyRequested' = (destroyRequested \/ (owned' /\ destroy))
  /\ counted' = (IF owned' THEN counted \cup {e} ELSE counted)

\* Slip: the environment goes with the first engine that leaves.
ReleaseAtOnce(e, ok) ==
  /\ active' = (IF e \in counted /\ active > 0 THEN active - 1 ELSE active)
  /\ IF e \in counted /\ owned /\ destroyRequested /\ ok
     THEN alive' = FALSE /\ owned' = FALSE /\ destroyRequested' = FALSE
     ELSE UNCHANGED <<alive, owned, destroyRequested>>

\* releaseONNXEnvironment; ok says that it returns no error.
Release(e, ok) ==
  LET last == e \in counted /\ active' = 0 /\ owned /\ (destroyRequested \/ ~alive)
  IN /\ active' = (IF e \in counted /\ active > 0 THEN active - 1 ELSE active)
     /\ IF last /\ ok
        THEN alive' = FALSE /\ owned' = FALSE /\ destroyRequested' = FALSE
        ELSE UNCHANGED <<alive, owned, destroyRequested>>
     /\ ok \/ (last /\ alive)

(***************************************************************************)
(* Engines.                                                                *)
(***************************************************************************)
NewEngine(e) ==
  /\ Move(e, "none", "joined")
  /\ \E destroy \in BOOLEAN : (embeds => ~destroy) /\ Acquire(e, destroy)
  /\ UNCHANGED embeds

CreateSession(e) ==
  /\ Move(e, "joined", "open")
  /\ UNCHANGED <<embeds, environment, counted>>

\* Slip: the constructor does not give back what it acquired.
ReturnNothing(e) == UNCHANGED environment

\* The deferred release of a constructor that fails; its error is dropped.
ReturnOnFailure(e) == \E ok \in BOOLEAN : Release(e, ok)

CreateSessionFails(e) ==
  /\ Move(e, "joined", "none")
  /\ ReturnOnFailure(e)
  /\ counted' = counted \ {e}
  /\ UNCHANGED embeds

\* The session is given up even if its destruction fails.
DestroySession(e) ==
  /\ Move(e, "open", "closing")
  /\ UNCHANGED <<embeds, environment, counted>>

LeaveEnvironment(e) ==
  \E ok \in BOOLEAN :
    /\ Move(e, "closing", IF ok THEN "none" ELSE "refused")
    /\ Release(e, ok)
    /\ counted' = (IF ok THEN counted \ {e} ELSE counted)
    /\ UNCHANGED embeds

\* Close after a Close that failed.  The code asks nothing more of it, but once a
\* newer engine was counted the second release takes away that engine's reference.
MayCloseAgain == PromptRetries => active = 0

CloseAgain(e) ==
  /\ MayCloseAgain
  /\ \E ok \in BOOLEAN :
       /\ Move(e, "refused", IF ok THEN "none" ELSE "refused")
       /\ Release(e, ok)
       /\ counted' = (IF ok THEN counted \ {e} ELSE counted)
  /\ UNCHANGED embeds

(***************************************************************************)
(* Local embedders.                                                        *)
(***************************************************************************)
NewEmbedder(m) ==
  /\ embeds
  /\ Move(m, "none", "joined")
  /\ alive' = TRUE
  /\ UNCHANGED <<embeds, owned, active, destroyRequested, counted>>

CreateEmbedderSession(m) ==
  /\ \E outcome \in {"open", "none"} : Move(m, "joined", outcome)
  /\ UNCHANGED <<embeds, environment, counted>>

CloseEmbedder(m) ==
  /\ Move(m, "open", "none")
  /\ UNCHANGED <<embeds, environment, counted>>

Next ==
  \/ \E e \in Engines :
       \/ NewEngine(e)
       \/ CreateSession(e)
       \/ CreateSessionFails(e)
       \/ DestroySession(e)
       \/ LeaveEnvironment(e)
       \/ CloseAgain(e)
  \/ \E m \in Embedders :
       \/ NewEmbedder(m)
       \/ CreateEmbedderSession(m)
       \/ CloseEmbedder(m)

Spec == Init /\ [][Next]_vars

-----------------------------------------------------------------------------
(***************************************************************************)
(* Properties.                                                             *)
(***************************************************************************)
\* The count stays within the number of engines, and embedders are never counted.
TypeOK ==
  /\ embeds \in BOOLEAN /\ alive \in BOOLEAN /\ owned \in BOOLEAN
  /\ destroyRequested \in BOOLEAN
  /\ stage \in [Engines \cup Embedders -> Stages]
  /\ counted \subseteq Engines
  /\ active \in 0..Cardinality(Engines)

\* Who has joined the environment and not left it.
Using == {x \in Engines \cup Embedders : stage[x] \in {"joined", "open", "closing"}}

\* onnxEnvState.active is exactly the number of engines that will still give a
\* reference back: none is dropped by a constructor that fails, and no Close takes
\* one that is not its own, in any order of acquiring and releasing in which a
\* failed Close is repeated promptly.
CountedExactly == active = Cardinality(counted \cap Using)

\* No session, of an engine or an embedder, outlives the environment it runs in.
SessionsHaveEnvironment ==
  \A x \in Engines \cup Embedders : stage[x] = "open" => alive

Lease == INSTANCE EnvironmentLease
           WITH environment <- alive, users <- Using, Users <- Engines \cup Embedders

\* Reference counting gives every engine and embedder what EnvironmentLease
\* promises: from the moment it joins until it leaves, the environment is there.
LeaseKept == Lease!Spec
=============================================================================
