---------------------------- MODULE VersionLimit ----------------------------
(***************************************************************************)
(* The version-limit arithmetic of internal/server/limit.go: which of an   *)
(* extension's versions a limit keeps, which ones it cuts, and which       *)
(* uploads it refuses.  A version is a member of a set; what the code      *)
(* reads off its text is Rank, its place under vsix.CompareVersions, and   *)
(* Position, its place once slices.SortFunc has ordered a list.            *)
(***************************************************************************)
EXTENDS Naturals, FiniteSets

CONSTANTS
  Versions,  \* version strings
  Rank,      \* semantic precedence: equal for versions CompareVersions calls equal
             \* (they differ in build metadata, or neither is valid SemVer)
  Position   \* place in a sorted list, where such ties end up in some fixed order

ASSUME VersionAssumption ==
  /\ IsFiniteSet(Versions)
  /\ Rank \in [Versions -> Nat]
  /\ Position \in [Versions -> Nat]
  /\ \A v, w \in Versions : Position[v] = Position[w] => v = w
  /\ \A v, w \in Versions : Rank[v] < Rank[w] => Position[v] < Position[w]

\* The members of S that sort after v.
Newer(S, v) == {w \in S : Position[w] > Position[v]}

CutLate(S, keep) ==   \* mutant: off by one
  {v \in S : keep > 0 /\ Cardinality(Newer(S, v)) > keep}
\* The versions of S past its newest keep ones; keep = 0 keeps every version.
Cut(S, keep) ==
  {v \in S : keep > 0 /\ Cardinality(Newer(S, v)) >= keep}

\* Adding v to S would leave it older than the newest keep versions.
Outside(S, v, keep) ==
  /\ keep > 0
  /\ v \notin S
  /\ Cardinality({w \in S : Rank[w] > Rank[v]}) >= keep
=============================================================================
