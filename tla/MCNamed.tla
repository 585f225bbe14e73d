------------------------------ MODULE MCNamed ------------------------------
(***************************************************************************)
(* The instances of MCInventory whose file names cannot be confused: TLC   *)
(* evaluates the assumption that the proofs rest on.                       *)
(***************************************************************************)
EXTENDS MCInventory, InventoryArchive
=============================================================================
