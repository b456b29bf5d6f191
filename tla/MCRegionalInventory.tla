------------------------ MODULE MCRegionalInventory ------------------------
(***************************************************************************)
(* One regional request over the fetches of the cfg, and one other call    *)
(* (ProcessStop, say), with times scaled down: a refresh takes up to 1, a  *)
(* call up to 2, a local step up to Delay.                                 *)
(***************************************************************************)
EXTENDS RegionalInventory, TLC

CONSTANTS w1, w2, clothing, processStop

MCWarehouse == {w1, w2}
MCCategory == {clothing}
MCCall == (MCWarehouse \X MCCategory) \cup {processStop}

=============================================================================
