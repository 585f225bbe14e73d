--------------------------- MODULE InventoryEdits ---------------------------
(***************************************************************************)
(* Inventory in a directory that anybody changes, with a history variable  *)
(* that tells after which changes, and which trust in them, a routine scan *)
(* is not expected to find everything out.                                 *)
(***************************************************************************)
EXTENDS InventoryNames

VARIABLE
  excused  \* a file was changed while the manager ran, without a trace in its size or time, or
           \* under the name of another package; or one that was changed is trusted by its size

EditsInit == Init /\ excused = FALSE

EditsNext ==
  \/ Next /\ excused' = (excused \/ \E n \in Names : TrustsBySize(n))
  \/ ManualNext /\ excused' = (excused \/ gate # "down" \/ ~OneClaim')
  \/ StealthNext /\ excused' = TRUE

EditsSpec == EditsInit /\ [][EditsNext]_<<vars, excused>>

\* Every scan, a routine one too, finds out each manual change that docs/deployment.md:111 allows:
\* made while the manager was stopped, and visible in a file's size or time. The two exceptions
\* are the code's: a row that was adopted from a record, after the upgrade or an interrupted full
\* verification, is trusted by its file's size alone (scan.go:57, 97, 284); and a file under a
\* name that another package has a claim on is deleted unrecorded with that one.
ScanFindsEdits ==
  [][SettleEnd /\ ~excused => \A k \in Keys : Recorded(k) => Matches(k)]_<<vars, excused>>
=============================================================================
