-------------------------- MODULE InventoryArchive --------------------------
(***************************************************************************)
(* The inventory seen through its records and downloads, and the claim     *)
(* that it implements the archive: no crash, failed step, scan or retry    *)
(* shows to a client who looks packages up and downloads them, and a power *)
(* failure shows only where a link was never flushed.                      *)
(***************************************************************************)
EXTENDS InventoryNames

\* The bytes a package is known by: packages.sha256.
Identity == [k \in Keys |-> IF Recorded(k) THEN packages[k].sha ELSE None]

Withdrawn == {k \in Keys : Recorded(k) /\ packages[k].status = "deleted"}

\* What GET /download yields for a key: the file under the recorded name of a stored
\* record, whatever that file holds, or 404.
DownloadUnchecked(k) ==   \* mutant: the status of the record is not looked at
  IF Recorded(k) /\ disk[packages[k].filename] # None
  THEN disk[packages[k].filename].bytes ELSE None
Download(k) ==
  IF /\ Recorded(k)
     /\ packages[k].status = "stored"
     /\ disk[packages[k].filename] # None
  THEN disk[packages[k].filename].bytes ELSE None

Downloads == [k \in Keys |-> Download(k)]

\* Downloads of files whose directory entry no flush has followed.
Frail == {k \in Keys : Download(k) # None /\ packages[k].filename \in Unsynced}

Lying == {c \in Contents : \E n \in Names : disk[n] # None /\ disk[n].bytes = c}

A == INSTANCE Archive WITH identity <- Identity, withdrawn <- Withdrawn, offered <- Downloads,
                           frail <- Frail, lying <- Lying

\* While the manager is the directory's only writer, every behaviour of the inventory
\* is one of the archive: a download yields a package's own bytes or nothing; a package
\* is lost to its clients by a deletion, by a dispute with another archive that lies in the
\* directory, or by a power failure before a flush has followed its link, and by nothing
\* else; a deletion takes all of its versions at once; and whatever a crash interrupts or
\* a scan repairs in between is a step that clients cannot see.
ImplementsArchive == A!Spec
=============================================================================
