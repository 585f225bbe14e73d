------------------------------ MODULE MCSyncer ------------------------------
(***************************************************************************)
(* Small instances of Syncer: one extension, of which the gallery has two  *)
(* versions.  The manager may hold a third one that the gallery lacks.     *)
(***************************************************************************)
EXTENDS Syncer, TLC

OneExt == [a \in Artifacts |-> "e"]
Place == "a1" :> "v1" @@ "a2x" :> "v2" @@ "a2y" :> "v2" @@ "a3" :> "v3"
Of == [a \in Artifacts |-> Place[a]]
Order == "v1" :> 1 @@ "v2" :> 2 @@ "v3" :> 3

\* What the manager has: the given packages in the given states, and no others.
Having(some) ==
  [a \in Artifacts |-> IF a \in DOMAIN some THEN some[a] ELSE "absent"]
Starts == {
  Having(<<>>),
  Having("a2x" :> "rival"),
  Having("a2x" :> "rival deleted" @@ "a1" :> "stored"),
  Having("a3" :> "stored" @@ "a1" :> "deleted")}
=============================================================================
