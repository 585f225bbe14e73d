------------------------------ MODULE Archive ------------------------------
(***************************************************************************)
(* What the manager promises its clients: an archive of extension          *)
(* packages.  A package's bytes are fixed when the manager first meets it. *)
(* From then on it is either offered, with those bytes and no others, or   *)
(* for the time being not, or it has been withdrawn.                       *)
(*                                                                         *)
(* Nothing here knows of files, names, tables, journals, scans or crashes. *)
(***************************************************************************)
EXTENDS Naturals

CONSTANTS
  Keys,       \* packages: a version of an extension for a platform
  Contents,   \* archives
  KeyOf,      \* the package that an archive is
  ExtOf,      \* the extension of a package
  VersionOf,  \* the version of a package
  Rank,       \* the semantic precedence of a version
  None

VARIABLES
  identity,   \* the archive that a package means, or None while it is unknown
  withdrawn,  \* the packages that were deleted and have not come back since
  offered,    \* what downloading a package yields: an archive, or None
  frail,      \* the packages whose offer would not outlast a failure of the machine
  lying       \* the archives that lie in the library's directory

vars == <<identity, withdrawn, offered, frail, lying>>

Init ==
  /\ identity = [k \in Keys |-> None]
  /\ withdrawn = {}
  /\ offered = [k \in Keys |-> None]
  /\ frail = {}
  /\ lying \in SUBSET Contents

Known(k) == identity[k] # None
Present(k) == Known(k) /\ k \notin withdrawn
Without(S) == [k \in Keys |-> IF k \in S THEN None ELSE offered[k]]

\* The package is met for the first time, in an upload or in a file of the directory.
Learn(k, c) ==
  /\ ~Known(k)
  /\ KeyOf[c] = k
  /\ identity' = [identity EXCEPT ![k] = c]
  /\ UNCHANGED <<withdrawn, offered, frail, lying>>

\* A package that was withdrawn is uploaded again.
Readmit(k) ==
  /\ k \in withdrawn
  /\ withdrawn' = withdrawn \ {k}
  /\ UNCHANGED <<identity, offered, frail, lying>>

\* The package's bytes are there, to stay or not.
Offer(k) ==
  /\ Known(k)
  /\ offered[k] = None
  /\ identity[k] \in lying
  /\ offered' = [offered EXCEPT ![k] = identity[k]]
  /\ withdrawn' = withdrawn \ {k}
  /\ frail' \in {frail, frail \cup {k}}
  /\ UNCHANGED <<identity, lying>>

\* Packages of one extension are deleted: with any one, all that are present and older.
Withdraw(S) ==
  /\ S # {}
  /\ withdrawn' = withdrawn \cup S
  /\ \A k \in S : Present(k)
  /\ \A k \in S, x \in Keys :
       Present(x) => ExtOf[x] # ExtOf[k] \/ x \in S \/ Rank[VersionOf[x]] >= Rank[VersionOf[k]]
  /\ \A k, x \in S : ExtOf[k] = ExtOf[x]
  /\ offered' = Without(S)
  /\ frail' = frail \ S
  /\ UNCHANGED <<identity, lying>>

\* Another archive that claims to be the package has turned up: neither is offered.
Dispute(k) ==
  /\ offered[k] # None
  /\ \E c \in lying : KeyOf[c] = k /\ c # identity[k]
  /\ offered' = Without({k})
  /\ frail' = frail \ {k}
  /\ UNCHANGED <<identity, withdrawn, lying>>

\* Archives come to lie in the directory, or go; none that is offered goes.
Stow ==
  /\ lying' \in SUBSET Contents
  /\ \A k \in Keys : offered[k] # None => offered[k] \in lying'
  /\ UNCHANGED <<identity, withdrawn, offered, frail>>

\* Some of what is offered is there to stay now.
Persist ==
  /\ frail' \subseteq frail
  /\ UNCHANGED <<identity, withdrawn, offered, lying>>

\* The machine fails: frail offers may be lost, and no others.
Lose(S) ==
  /\ S \subseteq frail
  /\ frail' = {}
  /\ offered' = Without(S)
  /\ lying' \in SUBSET Contents
  /\ UNCHANGED <<identity, withdrawn>>

Next ==
  \/ Persist
  \/ Stow
  \/ \E k \in Keys : Readmit(k) \/ Offer(k) \/ Dispute(k) \/ \E c \in Contents : Learn(k, c)
  \/ \E S \in SUBSET Keys : Withdraw(S) \/ Lose(S)

Spec == Init /\ [][Next]_vars
=============================================================================
