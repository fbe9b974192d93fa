----------------------------- MODULE MCServices ------------------------------
(*****************************************************************************)
(* The services around the live picture: feed, audience views, the requests  *)
(* and the catalog of firmware updates, the field reports, and the budgets   *)
(* of connections that have not authenticated.                               *)
(*                                                                           *)
(* A behaviour is one of one component: part, fixed in Init, says which, and *)
(* the others stay in an initial state.                                      *)
(*****************************************************************************)
EXTENDS FeedServing, AudienceViews, FirmwareUpdates, FleetReports, PreAuth, TLC

\* Feed requests, firmware requests, boards and connections are the same two
\* model values: only one component moves in a behaviour.
Symmetry == Permutations(Requests)

VARIABLE part

Init ==
    /\ part \in {"feed", "views", "requests", "catalog", "reports", "preauth"}
    /\ FeedInit
    /\ (part # "feed" => listener.default = "public")
    /\ AudienceInit
    /\ (part # "views" => contexts = <<PublicContext, PrivateContext>>)
    /\ UpdInit
    /\ (part # "requests" => updRecord = EmptyRecord)
    /\ CatalogInit
    /\ ReportInit
    /\ PreAuthInit

Next ==
    /\ UNCHANGED part
    /\ \/ /\ part = "feed" /\ FeedNext
          /\ UNCHANGED <<audienceVars, updVars, catalogVars, reportVars, preAuthVars>>
       \/ /\ part = "views" /\ AudienceNext
          /\ UNCHANGED <<feedVars, updVars, catalogVars, reportVars, preAuthVars>>
       \/ /\ part = "requests" /\ UpdNext
          /\ UNCHANGED <<feedVars, audienceVars, catalogVars, reportVars, preAuthVars>>
       \/ /\ part = "catalog" /\ CatalogNext
          /\ UNCHANGED <<feedVars, audienceVars, updVars, reportVars, preAuthVars>>
       \/ /\ part = "reports" /\ ReportNext
          /\ UNCHANGED <<feedVars, audienceVars, updVars, catalogVars, preAuthVars>>
       \/ /\ part = "preauth" /\ PreAuthNext
          /\ UNCHANGED <<feedVars, audienceVars, updVars, catalogVars, reportVars>>

Spec == Init /\ [][Next]_<<part, feedVars, audienceVars, updVars, catalogVars, reportVars, preAuthVars>>

=============================================================================
