------------------------------ MODULE MCHistory ------------------------------
(*****************************************************************************)
(* The tracker of receipts, and the historian it waits for: the writer, the  *)
(* reading handlers, the evidence sweeper and the pruning of the replay      *)
(* ledger.                                                                   *)
(*                                                                           *)
(* A behaviour is one of one component: part, fixed in Init, says which, and *)
(* the others stay in an initial state.                                      *)
(*****************************************************************************)
EXTENDS ReceiptLedger, HistorianFlush, HistoryReads, StoreSweeps

\* Two observers, one of which restarts under a second session.
MCKeys == {<<"o1", "a">>, <<"o1", "b">>, <<"o2", "a">>}

\* Frames of the historian: a navigation frame and its replay, a poison row, a
\* frame that trips a check, and a board sample of a dial-mode source.
MCFrames == {"a", "a2", "p", "k", "d"}
MCKeyOf == [a |-> 1, a2 |-> 1, p |-> 2, k |-> 3, d |-> NoKey]
MCTableOf == [a |-> "nav", a2 |-> "nav", p |-> "nav", k |-> "rf", d |-> "board"]
MCContent == [a |-> "good", a2 |-> "good", p |-> "poison", k |-> "check", d |-> "good"]
SchemaOK == [nav |-> "ok", board |-> "ok", rf |-> "ok"]

VARIABLE part

StoredInit ==
    /\ part \in {"tracker", "historian", "reads", "evidence", "ledger"}
    /\ Init
    /\ HistorianInit
    /\ HistoryInit
    /\ EvidenceInit
    /\ (part # "evidence" => audienceOf = [e \in EventTimes |-> "public"])
    /\ LedgerInit

StoredNext ==
    /\ UNCHANGED part
    /\ \/ /\ part = "tracker" /\ Next
          /\ UNCHANGED <<historianVars, historyVars, evidenceVars, ledgerVars>>
       \/ /\ part = "historian" /\ HistorianNext
          /\ UNCHANGED <<vars, historyVars, evidenceVars, ledgerVars>>
       \/ /\ part = "reads" /\ HistoryNext
          /\ UNCHANGED <<vars, historianVars, evidenceVars, ledgerVars>>
       \/ /\ part = "evidence" /\ EvidenceNext
          /\ UNCHANGED <<vars, historianVars, historyVars, ledgerVars>>
       \/ /\ part = "ledger" /\ LedgerNext
          /\ UNCHANGED <<vars, historianVars, historyVars, evidenceVars>>

StoredSpec == StoredInit /\ [][StoredNext]_<<part, vars, historianVars, historyVars, evidenceVars, ledgerVars>>

=============================================================================
