------------------------------ MODULE MCEdits ------------------------------
(***************************************************************************)
(* Small instances of InventoryEdits for TLC, from MCInventory.            *)
(***************************************************************************)
EXTENDS MCNamed, InventoryEdits
=============================================================================
