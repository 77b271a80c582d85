-------------------------- MODULE EnvironmentLease --------------------------
(***************************************************************************)
(* What the users of one ONNX Runtime environment may rely on: whoever has *)
(* joined finds the environment in place until it leaves.  When nobody     *)
(* uses it, the environment may stay or go.                                *)
(***************************************************************************)
CONSTANT Users
VARIABLES environment, users

Init == environment = FALSE /\ users = {}

Join(u) ==
  /\ u \notin users
  /\ users' = users \cup {u}
  /\ environment' = TRUE

Leave(u) ==
  /\ u \in users
  /\ users' = users \ {u}
  /\ \/ environment' = environment
     \/ users' = {} /\ environment' = FALSE

Destroy ==
  /\ users = {}
  /\ environment' = FALSE
  /\ UNCHANGED users

Next == Destroy \/ \E u \in Users : Join(u) \/ Leave(u)

Spec == Init /\ [][Next]_<<environment, users>>
=============================================================================
