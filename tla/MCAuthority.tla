----------------------------- MODULE MCAuthority -----------------------------
(*****************************************************************************)
(* Who may contribute: admission at the collector, the authorization         *)
(* provider it asks, and the control plane behind it with its signing keys.  *)
(*                                                                           *)
(* A behaviour is one of one component: part, fixed in Init, says which, and *)
(* the others stay in an initial state.                                      *)
(*****************************************************************************)
EXTENDS Admission, AuthorizationCache, ControlPlane, TLC

\* Connections and operators are the same two model values, and so are
\* contexts and revisions: only one component moves in a behaviour.
Symmetry == Permutations(Conns) \cup Permutations(Contexts) \cup Permutations(Serials)

VARIABLE part

Init ==
    /\ part \in {"admission", "cache", "control", "keys"}
    /\ AdmissionInit
    /\ (part # "admission" => authority = [o \in Observers |-> NoContext])
    /\ AuthorizationInit
    /\ (part # "cache" => row = [k \in Credentials |-> "absent"])
    /\ ControlPlaneInit
    /\ AuthorityKeysInit

Next ==
    /\ UNCHANGED part
    /\ \/ /\ part = "admission" /\ AdmissionNext
          /\ UNCHANGED <<authVars, controlVars, authorityVars>>
       \/ /\ part = "cache" /\ AuthorizationNext
          /\ UNCHANGED <<admissionVars, controlVars, authorityVars>>
       \/ /\ part = "control" /\ ControlPlaneNext
          /\ UNCHANGED <<admissionVars, authVars, authorityVars>>
       \/ /\ part = "keys" /\ AuthorityKeysNext
          /\ UNCHANGED <<admissionVars, authVars, controlVars>>

Spec == Init /\ [][Next]_<<part, admissionVars, authVars, controlVars, authorityVars>>

=============================================================================
