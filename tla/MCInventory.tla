---------------------------- MODULE MCInventory ----------------------------
(***************************************************************************)
(* Small instances of Inventory for TLC.  Both have one extension, two     *)
(* file names and two modification times.                                  *)
(***************************************************************************)
EXTENDS Inventory, TLC

Empty == [n \in Names |-> None]
OneTime == CHOOSE t \in Times : TRUE
Only(n, b) == [Empty EXCEPT ![n] = [bytes |-> b, mtime |-> OneTime]]
OneExt(k) == "ext"

(* Two versions of an extension, one archive each: what the limit works on. *)
TwoNames == {"n1", "n2"}
TwoKeys == {"k1", "k2"}
TwoVersions == {"v1", "v2"}
TwoArchives == {"a", "b"}
TwoSizes == ("a" :> 7) @@ ("b" :> 7)
TwoKeyOf == ("a" :> "k1") @@ ("b" :> "k2")
TwoCanonical == ("k1" :> "n1") @@ ("k2" :> "n2")
TwoExtOf == ("k1" :> "ext") @@ ("k2" :> "ext")
TwoVersionOf == ("k1" :> "v1") @@ ("k2" :> "v2")
TwoRank == ("v1" :> 1) @@ ("v2" :> 2)
TwoFound == {Empty}

\* The code compares times for equality only, so it does not matter which of them the
\* files have that are there to begin with.
AnyTimes == Permutations(Times)

(* Two keys with one canonical name. *)
OneCanonical == ("k1" :> "n1") @@ ("k2" :> "n1")

(* One version whose key two archives claim, and a file that is no archive. *)
OneKey == {"k1"}
OneVersion == {"v1"}
RivalArchives == {"a", "a2"}
RivalSizes == ("a" :> 7) @@ ("a2" :> 7) @@ ("junk" :> 7)
RivalKeyOf == ("a" :> "k1") @@ ("a2" :> "k1")
RivalCanonical == ("k1" :> "n1")
RivalExtOf == ("k1" :> "ext")
RivalVersionOf == ("k1" :> "v1")
RivalRank == ("v1" :> 1)
RivalFound == {Empty, Only("n1", "junk")} \cup {Only("n2", x) : x \in {"a", "a2", "junk"}}
                      \cup {[Only("n1", x) EXCEPT !["n2"] = [bytes |-> "a2", mtime |-> OneTime]]
                              : x \in {"a", "junk"}}

(* Manual changes: one archive is added to, and replaced by, others. *)
OneName == {"n1"}
OneFound == {Only("n1", "a")}

(* Limit changes run to their end, so that only scans are interrupted. *)
UninterruptedLimits ==
  Init /\ [][StoppedNext /\ (job = "limit" /\ todo # {} => pc' # "idle")]_vars
=============================================================================
