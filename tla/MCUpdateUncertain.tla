-------------------------- MODULE MCUpdateUncertain -------------------------
(***************************************************************************)
(* The requests for one device, with the release tree left empty.          *)
(***************************************************************************)
EXTENDS FirmwareUpdates

RequestsSpec ==
    /\ UpdInit /\ CatalogInit
    /\ [][UpdNext /\ UNCHANGED catalogVars]_<<updVars, catalogVars>>

=============================================================================
