--------------------------- MODULE InventoryNames ---------------------------
(***************************************************************************)
(* Inventory over packages whose file names cannot be confused.  The code  *)
(* does not see to it: vsix.CanonicalName joins ID, version and platform   *)
(* with hyphens, which versions and platforms may contain, so that version *)
(* 1.0.0-alpine for x64 and version 1.0.0 for alpine-x64 share a name; and *)
(* nothing keeps an operator from naming a file after another package.     *)
(***************************************************************************)
EXTENDS Inventory

\* Keys have canonical names of their own, and a directory that the manager is
\* first started on has no package under another one's canonical name.
ASSUME NameAssumption ==
  /\ \A k, x \in Keys : CanonicalName[k] = CanonicalName[x] => k = x
  /\ Found \subseteq [Names -> DiskFiles \cup {None}]
  /\ \A d \in Found, n \in Names, k, x \in Keys :
       d[n] # None /\ k \in KeysOf(ShaOf(d[n].bytes)) /\ CanonicalName[x] = n => x = k
=============================================================================
