---------------------------- MODULE MCSummaries ----------------------------
(* Small instances of Summaries: two extensions, with two versions each at most. *)
EXTENDS Summaries, TLC

Place == "a1" :> "v1" @@ "a2" :> "v2" @@ "b1" :> "v1" @@ "b2" :> "v2"
Of == [k \in Keys |-> Place[k]]
Owner == "a1" :> 1 @@ "a2" :> 1 @@ "b1" :> 2 @@ "b2" :> 2
Owned == [k \in Keys |-> Owner[k]]
Order == "v1" :> 1 @@ "v2" :> 2

\* Both extensions exceed a limit of one, or one has a version that is deleted.
Having(some) == [k \in Keys |-> IF k \in DOMAIN some THEN some[k] ELSE None]
Full == Having([k \in Keys |-> "stored"])
Part == Having("a1" :> "deleted" @@ "a2" :> "stored" @@ "b1" :> "missing")
Databases == {Full, Part}
=============================================================================
