----------------------------- MODULE MCProgress ------------------------------
(*****************************************************************************)
(* What must come to an end: the drain of the historian and the enforcement  *)
(* of a withdrawal.                                                          *)
(*                                                                           *)
(* A behaviour is one of one component: part, fixed in Init, says which, and *)
(* the others stay in an initial state.                                      *)
(*****************************************************************************)
EXTENDS HistorianFlush, Admission

\* Frames of the historian: a sample and its replay, two navigation frames and
\* one without raw bytes, under a schema that rejects every navigation row.
SeqFrames == {"a", "a2", "v", "w", "n"}
SeqKeyOf == [a |-> 1, a2 |-> 1, v |-> 2, w |-> 3, n |-> 4]
SeqTableOf == [a |-> "rf", a2 |-> "rf", v |-> "nav", w |-> "nav", n |-> "nav"]
SeqContent == [a |-> "good", a2 |-> "good", v |-> "good", w |-> "good", n |-> "nil"]
SchemaNotNull == [nav |-> "notnull", board |-> "ok", rf |-> "ok"]

VARIABLE part

Init ==
    /\ part \in {"historian", "admission"}
    /\ HistorianInit
    /\ AdmissionInit
    /\ (part # "admission" => authority = [o \in Observers |-> NoContext])

Next ==
    /\ UNCHANGED part
    /\ \/ /\ part = "historian" /\ HistorianNext
          /\ UNCHANGED <<admissionVars>>
       \/ /\ part = "admission" /\ AdmissionNext
          /\ UNCHANGED <<historianVars>>

\* The fairness of the two components, of the one that moves.
Admitting(action) == part = "admission" /\ action

Fairness ==
    /\ WF_historianVars(Writer)
    /\ \A c \in Conns : /\ WF_admissionVars(Admitting(Handler(c)))
                        /\ WF_admissionVars(Admitting(Watcher(c)))
    /\ WF_admissionVars(Admitting(Reconciler))
    /\ WF_admissionVars(Admitting(Decode)) /\ WF_admissionVars(Admitting(Project))

Spec == Init /\ [][Next]_<<part, historianVars, admissionVars>> /\ Fairness

=============================================================================
