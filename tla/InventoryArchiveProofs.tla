----------------------- MODULE InventoryArchiveProofs -----------------------
(***************************************************************************)
(* Proofs of what the inventory promises its clients, for every set of     *)
(* packages, names and limits: stored packages stay, trims are exact, and  *)
(* the inventory implements the archive.                                   *)
(***************************************************************************)
EXTENDS InventoryArchive, InventoryJournalProofs, VersionLimitProofs

-----------------------------------------------------------------------------
(* What a step may do to the records.                                      *)

\* Another archive lies in the directory that claims to be the package.
Rival(k) == \E c \in Lying : KeyOf[c] = k /\ c # packages[k].sha

\* What a scan or an upload may make of the record of k, short of a deletion.
Turn(k, r) ==
  \/ r.status = packages[k].status /\ r.filename = packages[k].filename
  \/ /\ r.status = "stored"
     /\ disk[r.filename] # None
     /\ Stored(k) /\ IsThere(k) => r.filename = packages[k].filename
  \/ r.status = "pending" /\ ~Stored(k)
  \/ r.status = "conflict" /\ packages[k].status # "deleted" /\ Rival(k)
  \/ r.status = "missing" /\ packages[k].status # "deleted" /\ OnDisk(k) = {}

Met(k, r) ==
  /\ ~Recorded(k)
  /\ KeyOf[r.sha] = k
  /\ r.status = "pending"
  /\ packages' = [packages EXCEPT ![k] = r]

Turned(k, r) ==
  /\ Recorded(k)
  /\ r.sha = packages[k].sha
  /\ Turn(k, r)
  /\ packages' = [packages EXCEPT ![k] = r]

\* The targets of a deletion: present versions of one extension, and all the older ones.
Targets(S) ==
  /\ \A k \in S : Live(k)
  /\ \A k, x \in S : ExtOf[k] = ExtOf[x]
  /\ \A k \in S, x \in Keys :
       Live(x) /\ ExtOf[x] = ExtOf[k] /\ Rank[VersionOf[x]] < Rank[VersionOf[k]] => x \in S

\* A step that changes records leaves the directory alone.
PackagesStep ==
  \/ UNCHANGED packages
  \/ /\ UNCHANGED <<disk, synced>>
     /\ \/ \E k \in Keys, r \in Records : Met(k, r) \/ Turned(k, r)
        \/ \E S \in SUBSET Keys, by \in Actors : Targets(S) /\ MarkDeleted(S, by)

\* So the keys that Trim marks deleted are targets in this sense,
LEMMA BeyondTargets ==
  ASSUME TypeOK, NEW e \in Exts
  PROVE  Targets(Beyond(e)) /\ Beyond(e) \subseteq Keys
<1> USE InventoryAssumption DEF TypeOK
<1>1. KeptVersions(e) \subseteq Versions
  BY DEF KeptVersions
<1>2. KeepOf(e) \in Nat
  BY DEF KeepOf
<1>3. ASSUME NEW k \in Beyond(e), NEW x \in Keys, Live(x), ExtOf[x] = ExtOf[k],
             Rank[VersionOf[x]] < Rank[VersionOf[k]]
      PROVE  x \in Beyond(e)
  <2>1. VersionOf[k] \in Cut(KeptVersions(e), KeepOf(e)) /\ ExtOf[k] = e /\ k \in Keys
    BY <1>3 DEF Beyond
  <2>2. VersionOf[x] \in KeptVersions(e)
    BY <1>3, <2>1 DEF KeptVersions
  <2>3. VersionOf[x] \in Cut(KeptVersions(e), KeepOf(e))
    BY <1>1, <1>2, <1>3, <2>1, <2>2, CutIsOldest
  <2> QED BY <1>3, <2>1, <2>3 DEF Beyond
<1> QED BY <1>3 DEF Targets, Beyond

\* and those of DeleteVersions.
LEMMA UpToTargets ==
  ASSUME NEW e \in Exts, NEW v \in Versions
  PROVE  Targets({k \in Keys : ExtOf[k] = e /\ Live(k) /\ Rank[VersionOf[k]] <= Rank[v]})
<1> USE InventoryAssumption, VersionAssumption
<1> DEFINE S == {k \in Keys : ExtOf[k] = e /\ Live(k) /\ Rank[VersionOf[k]] <= Rank[v]}
<1>1. ASSUME NEW k \in S, NEW x \in Keys, Live(x), ExtOf[x] = ExtOf[k],
             Rank[VersionOf[x]] < Rank[VersionOf[k]]
      PROVE  x \in S
  <2>1. Rank[VersionOf[x]] \in Nat /\ Rank[VersionOf[k]] \in Nat /\ Rank[v] \in Nat
    OBVIOUS
  <2> QED BY <1>1, <2>1
<1> QED BY <1>1 DEF Targets

\* Publishing makes a record stored that is there already.
LEMMA PublishTurns ==
  ASSUME TypeOK, NEW k \in Keys, Recorded(k), PublishRecord(k),
         disk[packages[k].filename] # None
  PROVE  Turned(k, As(packages[k], "stored", None)) /\ As(packages[k], "stored", None) \in Records
<1>1. packages[k] \in Records
  BY RecordedIsRecord
<1> QED BY <1>1 DEF PublishRecord, Turned, Turn, As, Records, Statuses

\* A scan that settles a record has seen all files of its key.
LEMMA SettledTurns ==
  ASSUME RowTruth, [Next]_vars, NEW k \in Keys, SettleLive(k)
  PROVE  Turned(k, Settled(k)) /\ Settled(k) \in Records
<1> USE InventoryAssumption DEF RowTruth, NameInv, TypeInv
<1> DEFINE r == Settled(k)
<1>1. Recorded(k) /\ packages[k].status # "deleted" /\ packages' = [packages EXCEPT ![k] = r]
  BY DEF SettleLive, Live
<1>2. r \in Records /\ r.sha = packages[k].sha
  BY <1>1, SettledTypes
<1>3. \A n \in Names : /\ files[n] # None => disk[n] # None
                       /\ disk[n] # None => Right(n)
  BY DEF SettleLive, SettleStep, ListingInv
<1>4. CASE Held(k) = {}
  <2>1. OnDisk(k) = {}
    BY <1>3, <1>4 DEF OnDisk, Held, Right
  <2>2. r.status = "missing"
    BY <1>4 DEF Settled, As
  <2> QED BY <1>1, <1>2, <2>1, <2>2 DEF Turned, Turn
<1>5. ASSUME NEW n \in Held(k), files[n].sha # packages[k].sha
      PROVE  Turned(k, r)
  <2>1. n \in Names /\ files[n] # None /\ k \in KeysOf(files[n].sha)
    BY DEF Held
  <2>2. files[n].sha \in Contents /\ KeyOf[files[n].sha] = k
    BY <2>1 DEF KeysOf, TypeOK, Rows
  <2>3. disk[n] # None /\ disk[n].bytes = files[n].sha
    BY <1>3, <2>1, <2>2 DEF Right, ShaOf, Bytes
  <2>4. Rival(k)
    BY <1>5, <2>1, <2>2, <2>3 DEF Rival, Lying
  <2>5. r.status = "conflict"
    BY <1>5 DEF Settled, As
  <2> QED BY <1>1, <1>2, <2>4, <2>5 DEF Turned, Turn
<1>6. CASE Held(k) # {} /\ \A n \in Held(k) : files[n].sha = packages[k].sha
  <2>1. (CHOOSE n \in Held(k) : TRUE) \in Held(k)
    BY <1>6
  <2>2. r.status = "stored" /\ r.filename \in Held(k)
    BY <1>6, <2>1 DEF Settled
  <2>3. disk[r.filename] # None
    BY <1>3, <2>2 DEF Held
  <2>4. packages'[k] = r
    BY <1>1 DEF TypeOK
  <2>5. Stored(k) /\ IsThere(k) => r.filename = packages[k].filename
    BY <2>4, StepName
  <2> QED BY <1>1, <1>2, <2>2, <2>3, <2>5 DEF Turned, Turn
<1> QED BY <1>2, <1>4, <1>5, <1>6

\* Every step changes the records in one of these ways: no step gives a record other bytes, and
\* none but a deletion, a dispute or the want of a file takes a stored package away.
LEMMA StepPackages ==
  ASSUME JournalInv, [Next]_vars
  PROVE  PackagesStep
<1> USE InventoryAssumption DEF JournalInv, RowTruth, NameInv, TypeInv
<1>1. ASSUME UNCHANGED packages
      PROVE  PackagesStep
  BY <1>1 DEF PackagesStep
<1>2. ASSUME NEW k \in Keys, NEW r \in Records, Met(k, r) \/ Turned(k, r),
             UNCHANGED <<disk, synced>>
      PROVE  PackagesStep
  BY <1>2 DEF PackagesStep
<1>3. ASSUME NEW S \in SUBSET Keys, NEW by \in Actors, Targets(S), MarkDeleted(S, by),
             UNCHANGED <<disk, synced>>
      PROVE  PackagesStep
  BY <1>3 DEF PackagesStep
<1>4. ASSUME NEW c \in Offered, NEW i \in IdemKeys \cup {None}, Journal(c, i)
      PROVE  PackagesStep
  <2> DEFINE k == KeyOf[c]
             r == Journaled(k, c)
  <2>1. c \in Contents /\ k \in Keys
    OBVIOUS
  <2>2. packages' = [packages EXCEPT ![k] = r] /\ UNCHANGED <<disk, synced>> /\ gate = "ready"
    BY <1>4 DEF Journal, Admitted, Ready
  <2>3. r \in Records /\ r.sha = c /\ r.status = "pending"
    BY <2>1, RecordedIsRecord DEF Journaled, Records, Statuses
  <2>4. CASE Recorded(k)
    <3>1. packages[k].sha = c /\ disk[packages[k].filename] = None
      BY <1>4, <2>4 DEF Journal, Admitted
    <3>2. ~Stored(k)
      BY <2>1, <2>2, <3>1 DEF ServedInv, Served, IsThere
    <3> HIDE DEF r, k
    <3> QED BY <1>2, <2>1, <2>2, <2>3, <2>4, <3>1, <3>2 DEF Turned, Turn
  <2>5. CASE ~Recorded(k)
    <3>1. Met(k, r)
      BY <2>2, <2>3, <2>5 DEF Met
    <3> QED BY <1>2, <2>1, <2>2, <2>3, <3>1
  <2> QED BY <2>4, <2>5
<1>5. ASSUME NEW k \in Keys, Recorded(k), PublishRecord(k), disk[packages[k].filename] # None,
             UNCHANGED <<disk, synced>>
      PROVE  PackagesStep
  <2> DEFINE r == As(packages[k], "stored", None)
  <2>1. Turned(k, r) /\ r \in Records
    BY <1>5, PublishTurns
  <2> QED BY <1>2, <1>5, <2>1
<1>6. ASSUME NEW c \in Offered, NEW i \in IdemKeys \cup {None}, Duplicate(c, i)
      PROVE  PackagesStep
  <2>1. /\ KeyOf[c] \in Keys /\ Recorded(KeyOf[c]) /\ PublishRecord(KeyOf[c])
        /\ disk[packages[KeyOf[c]].filename] # None /\ UNCHANGED <<disk, synced>>
    BY <1>6 DEF Duplicate
  <2> QED BY <1>5, <2>1
<1>7. CASE UploadNext
  <2>1. CASE Publish
    <3>1. /\ KeyOf[cur] \in Keys /\ Recorded(KeyOf[cur]) /\ PublishRecord(KeyOf[cur])
          /\ disk[packages[KeyOf[cur]].filename] # None /\ UNCHANGED <<disk, synced>>
      BY <2>1 DEF Publish, UploadInv
    <3> QED BY <1>5, <3>1
  <2> QED BY <1>1, <1>4, <1>6, <1>7, <2>1 DEF UploadNext, Link, Flush, Receipt
<1>8. CASE DeleteNext
  <2>1. ASSUME NEW e \in Exts, NEW v \in Versions, DeleteVersions(e, v)
        PROVE  PackagesStep
    BY <1>3, <2>1, UpToTargets DEF DeleteVersions, Actors
  <2> QED BY <1>1, <1>8, <2>1 DEF DeleteNext, Unlink, ForgetFiles
<1>9. CASE LimitNext
  <2>1. ASSUME NEW e \in Exts, Trim(e)
        PROVE  PackagesStep
    BY <1>1, <1>3, <2>1, BeyondTargets DEF Trim, Actors
  <2> QED BY <1>1, <1>9, <2>1 DEF LimitNext, SetLibraryLimit, SetExtensionLimit
<1>10. ASSUME NEW n \in Names, VerifyRead(n)
       PROVE  PackagesStep
  <2> DEFINE sha == ShaOf(disk[n].bytes)
             k == KeyOf[sha]
  <2>1. UNCHANGED <<disk, synced>>
    BY <1>10 DEF VerifyRead, Listed
  <2>2. CASE sha = None
    BY <1>1, <1>10, <2>2 DEF VerifyRead
  <2>3. CASE sha # None
    <3>1. sha \in Contents /\ k \in Keys /\ packages' = Inventoried(k, n, sha)
      BY <1>10, <2>3 DEF VerifyRead, ShaOf
    <3>2. CASE ~Recorded(k)
      <4> DEFINE r == [status |-> "pending", sha |-> sha, by |-> None, filename |-> n]
      <4>1. r \in Records /\ Met(k, r)
        BY <3>1, <3>2 DEF Records, Statuses, Inventoried, Met
      <4> QED BY <1>2, <2>1, <3>1, <4>1
    <3>3. CASE Recorded(k) /\ packages[k].sha = sha
      <4> DEFINE r == As(packages[k], packages[k].status, None)
      <4>1. packages[k] \in Records
        BY <3>1, <3>3, RecordedIsRecord
      <4>2. r \in Records /\ Turned(k, r)
        BY <3>1, <3>3, <4>1 DEF As, Records, Inventoried, Turned, Turn
      <4> QED BY <1>2, <2>1, <3>1, <4>2
    <3>4. CASE Recorded(k) /\ packages[k].sha # sha
      BY <1>1, <3>1, <3>4 DEF Inventoried
    <3> QED BY <3>2, <3>3, <3>4
  <2> QED BY <2>2, <2>3
<1>11. ASSUME NEW k \in Keys, SettleLive(k)
       PROVE  PackagesStep
  <2>1. UNCHANGED <<disk, synced>>
    BY <1>11 DEF SettleLive
  <2> QED BY <1>2, <1>11, <2>1, SettledTurns
<1>12. CASE ScanNext
  BY <1>1, <1>10, <1>11, <1>12
     DEF ScanNext, ScanFull, ScanRoutine, ScanAdopt, StartScan, VerifyUnread, DropVanished,
         SettleDeleted, SettleFails, SettleEnd, durable
<1>13. CASE Finish \/ Fail \/ Crash \/ PowerLoss \/ Restart \/ UNCHANGED vars
  BY <1>1, <1>13 DEF Finish, Fail, Crash, PowerLoss, Restart, vars, durable
<1> QED BY <1>7, <1>8, <1>9, <1>12, <1>13 DEF Next

\* A stored record stays stored, unless it is deleted, a rival turns up or its file has gone.
LEMMA StepStays ==
  ASSUME JournalInv, [Next]_vars, NEW k \in Keys, Stored(k)
  PROVE  \/ packages'[k].status \in {"stored", "deleted", "conflict"}
         \/ packages'[k].status = "missing" /\ OnDisk(k) = {}
<1> DEFINE Stays == \/ packages'[k].status \in {"stored", "deleted", "conflict"}
                    \/ packages'[k].status = "missing" /\ OnDisk(k) = {}
<1>1. TypeOK
  BY DEF JournalInv, RowTruth, NameInv, TypeInv
<1>2. ASSUME UNCHANGED packages
      PROVE  Stays
  BY <1>2 DEF Stored
<1>3. ASSUME NEW x \in Keys, NEW r \in Records, Met(x, r) \/ Turned(x, r)
      PROVE  Stays
  BY <1>1, <1>3 DEF Met, Turned, Turn, TypeOK, Stored
<1>4. ASSUME NEW S \in SUBSET Keys, NEW by \in Actors, MarkDeleted(S, by)
      PROVE  Stays
  BY <1>1, <1>4 DEF MarkDeleted, As, TypeOK, Stored
<1> HIDE DEF Stays
<1>5. PackagesStep
  BY StepPackages
<1>6. Stays
  BY <1>2, <1>3, <1>4, <1>5 DEF PackagesStep
<1> QED BY <1>6 DEF Stays

\* No crash, failed step, retry or scan takes a stored package's record back: only a deletion, a
\* file with other bytes under its key, or its file's having gone ends its being stored.
THEOREM StoredPackagesStay == Spec => StoredStays
<1>1. JournalInv /\ [Next /\ ~Orphans]_vars =>
        \A k \in Keys : Stored(k) =>
          \/ packages'[k].status \in {"stored", "deleted", "conflict"}
          \/ packages'[k].status = "missing" /\ OnDisk(k) = {}
  BY StepStays
<1> QED BY <1>1, InitTruthInv, InitJournalInv, StepSoleWriter, PTL DEF Spec, StoredStays

-----------------------------------------------------------------------------
(* What a trim leaves.                                                      *)

\* What is left of an extension's versions is what its limit spares.
LEMMA TrimSpares ==
  ASSUME TypeOK, NEW e \in Exts, Trim(e), NEW k \in Keys, Live(k)
  PROVE  packages'[k].status = "deleted" <=> k \in Beyond(e)
<1>1. packages[k] \in Records /\ packages[k].status # "deleted"
  BY RecordedIsRecord DEF Live
<1>2. CASE Beyond(e) = {}
  BY <1>1, <1>2 DEF Trim
<1>3. CASE Beyond(e) # {}
  <2>1. packages'[k] = IF k \in Beyond(e) THEN As(packages[k], "deleted", "limit") ELSE packages[k]
    BY <1>3 DEF Trim, MarkDeleted
  <2> QED BY <1>1, <2>1 DEF As
<1> QED BY <1>2, <1>3

\* It is all there is, if the limit keeps as many.
LEMMA WithinCutsNone ==
  ASSUME TypeOK, NEW e \in Exts, Within(e)
  PROVE  Beyond(e) = {}
<1> DEFINE S == KeptVersions(e)
           keep == KeepOf(e)
<1>1. S \in SUBSET Versions /\ keep \in Nat
  BY InventoryAssumption DEF KeptVersions, KeepOf, TypeOK
<1>2. CASE keep = 0
  BY <1>2 DEF Cut, Beyond
<1>3. CASE keep # 0
  <2>1. keep \in Nat \ {0} /\ Cardinality(S) <= keep
    BY <1>1, <1>3 DEF Within
  <2>2. IsFiniteSet(S) /\ Cardinality(S) \in Nat
    BY <1>1, VersionAssumption, FS_Subset, FS_CardinalityType
  <2>3. Cardinality(Spared(S, keep)) = Cardinality(S)
    <3> HIDE DEF S, keep
    <3> QED BY <1>1, <2>1, <2>2, LimitIsExact
  <2>4. Spared(S, keep) = S
    BY <2>2, <2>3, FS_Subset DEF Spared
  <2>5. Cut(S, keep) = {}
    BY <2>4 DEF Spared, Cut
  <2> QED BY <2>5 DEF Beyond
<1> QED BY <1>2, <1>3

\* And otherwise as many as it keeps.
LEMMA BeyondSpares ==
  ASSUME TypeOK, NEW e \in Exts, ~Within(e)
  PROVE  LET spared == {k \in Keys : ExtOf[k] = e /\ Live(k) /\ k \notin Beyond(e)}
         IN Cardinality({VersionOf[k] : k \in spared}) = KeepOf(e)
<1> DEFINE S == KeptVersions(e)
           keep == KeepOf(e)
           spared == {k \in Keys : ExtOf[k] = e /\ Live(k) /\ k \notin Beyond(e)}
<1>1. S \in SUBSET Versions /\ keep \in Nat
  BY InventoryAssumption DEF KeptVersions, KeepOf, TypeOK
<1>2. keep \in Nat \ {0} /\ Cardinality(S) > keep
  <2>1. Cardinality(S) \in Nat
    BY <1>1, VersionAssumption, FS_Subset, FS_CardinalityType
  <2> QED BY <1>1, <2>1 DEF Within
<1>3. Cardinality(Spared(S, keep)) = keep
  <2> HIDE DEF S, keep
  <2> QED BY <1>1, <1>2, LimitIsExact
<1>4. {VersionOf[k] : k \in spared} = Spared(S, keep)
  BY DEF KeptVersions, Beyond, Spared
<1> QED BY <1>3, <1>4

\* In the middle of a critical section only a trim takes an extension off the list.
LEMMA OnlyTrimDrops ==
  ASSUME TypeInv, [Next]_vars, NEW e \in todo \ todo', pc = "trim", pc' # "idle"
  PROVE  e \in Exts /\ Trim(e)
<1>1. e \in Exts
  BY DEF TypeInv, TypeOK
<1>2. todo' # todo
  OBVIOUS
<1>3. UploadNext => FALSE
  BY <1>2 DEF UploadNext, Journal, Duplicate, Admitted, Ready, Idle, Link, Flush, Publish, Receipt
<1>4. DeleteNext => FALSE
  BY <1>2 DEF DeleteNext, DeleteVersions, Ready, Idle, Unlink, ForgetFiles
<1>5. LimitNext => Trim(e)
  BY <1>1, <1>2 DEF LimitNext, SetLibraryLimit, SetExtensionLimit, Ready, Idle, Trim
<1>6. ScanNext => FALSE
  BY DEF ScanNext, ScanFull, ScanRoutine, ScanAdopt, StartScan, Idle, VerifyUnread, VerifyRead,
         Listed, DropVanished, SettleLive, SettleDeleted, SettleFails, SettleStep, SettleEnd
<1>7. Finish \/ Fail \/ Crash \/ PowerLoss \/ Restart \/ UNCHANGED vars => FALSE
  BY <1>2 DEF Finish, Fail, Abandon, Crash, PowerLoss, Restart, Release, vars, volatile
<1> QED BY <1>1, <1>3, <1>4, <1>5, <1>6, <1>7 DEF Next

\* That step leaves the newest versions, and as many as the limit keeps.
LEMMA StepTrims ==
  ASSUME TypeInv, [Next]_vars, NEW e \in todo \ todo', pc = "trim", pc' # "idle"
  PROVE  LET live == {k \in Keys : ExtOf[k] = e /\ Live(k)}
             spared == {k \in live : packages'[k].status # "deleted"}
         IN /\ \A k \in live \ spared, x \in spared : Rank[VersionOf[k]] <= Rank[VersionOf[x]]
            /\ IF Within(e) THEN spared = live
               ELSE Cardinality({VersionOf[k] : k \in spared}) = KeepOf(e)
<1> DEFINE live == {k \in Keys : ExtOf[k] = e /\ Live(k)}
           spared == {k \in live : packages'[k].status # "deleted"}
<1>1. TypeOK /\ e \in Exts /\ Trim(e)
  BY OnlyTrimDrops DEF TypeInv
<1>2. spared = {k \in Keys : ExtOf[k] = e /\ Live(k) /\ k \notin Beyond(e)}
  BY <1>1, TrimSpares
<1>3. ASSUME NEW k \in live \ spared, NEW x \in spared
      PROVE  Rank[VersionOf[k]] <= Rank[VersionOf[x]]
  <2>1. k \in Beyond(e) /\ x \in Keys /\ k \in Keys /\ ExtOf[x] = e /\ Live(x) /\ x \notin Beyond(e)
    BY <1>2, <1>3
  <2>2. ~(Rank[VersionOf[x]] < Rank[VersionOf[k]])
    <3>1. Targets(Beyond(e))
      BY <1>1, BeyondTargets
    <3>2. ExtOf[x] = ExtOf[k]
      BY <2>1 DEF Beyond
    <3> QED BY <2>1, <3>1, <3>2 DEF Targets
  <2>3. Rank[VersionOf[x]] \in Nat /\ Rank[VersionOf[k]] \in Nat
    BY <2>1, InventoryAssumption, VersionAssumption
  <2> QED BY <2>2, <2>3
<1>4. IF Within(e) THEN spared = live ELSE Cardinality({VersionOf[k] : k \in spared}) = KeepOf(e)
  <2>1. CASE Within(e)
    BY <1>1, <1>2, <2>1, WithinCutsNone
  <2>2. CASE ~Within(e)
    BY <1>1, <1>2, <2>2, BeyondSpares
  <2> QED BY <2>1, <2>2
<1> QED BY <1>3, <1>4

\* Trimming leaves an extension its newest versions, exactly as many as its limit keeps,
\* or all of them if they are no more.
THEOREM TrimsAreExact == Spec => TrimIsExact
<1>1. TypeInv /\ [Next]_vars =>
        \A e \in todo \ todo' : pc = "trim" /\ pc' # "idle" =>
          LET live == {k \in Keys : ExtOf[k] = e /\ Live(k)}
              spared == {k \in live : packages'[k].status # "deleted"}
          IN /\ \A k \in live \ spared, x \in spared : Rank[VersionOf[k]] <= Rank[VersionOf[x]]
             /\ IF Within(e) THEN spared = live
                ELSE Cardinality({VersionOf[k] : k \in spared}) = KeepOf(e)
  BY StepTrims
<1>2. Next => AnyNext
  BY DEF AnyNext
<1> QED BY <1>1, <1>2, InitTypeInv, StepTypeInv, PTL DEF Spec, TrimIsExact

-----------------------------------------------------------------------------
(* Refinement.                                                             *)

\* What is offered: the own bytes of a stored package whose file is there.
Offering(k) == Stored(k) /\ disk[packages[k].filename] # None

LEMMA DownloadIs ==
  ASSUME StoredRight, NEW k \in Keys
  PROVE  /\ Download(k) = IF Offering(k) THEN packages[k].sha ELSE None
         /\ Offering(k) => IsThere(k)
BY DEF StoredRight, Stored, Holds, Offering, Download, IsThere

\* The same of the next state.
LEMMA DownloadIsNext ==
  ASSUME StoredRight', NEW k \in Keys
  PROVE  Download(k)' = IF Offering(k)' THEN packages'[k].sha ELSE None
BY DEF StoredRight, Stored, Holds, Offering, Download

\* An offer is no None, and frail while no flush has followed its link.
LEMMA OfferIs ==
  ASSUME TypeOK, StoredRight, NEW k \in Keys
  PROVE  /\ Downloads[k] = IF Offering(k) THEN packages[k].sha ELSE None
         /\ Recorded(k) => packages[k].sha \in Contents /\ packages[k].sha # None
         /\ k \in Frail <=> Offering(k) /\ packages[k].filename \in Unsynced
<1>1. Recorded(k) => packages[k].sha \in Contents /\ packages[k].sha # None
  BY RecordedIsRecord, InventoryAssumption DEF Bytes
<1>2. Download(k) = IF Offering(k) THEN packages[k].sha ELSE None
  BY DownloadIs
<1> QED BY <1>1, <1>2 DEF Downloads, Frail, Offering, Stored

\* As long as the records and the directory stay, a client sees nothing.
LEMMA SameOffers ==
  ASSUME UNCHANGED packages
  PROVE  Identity' = Identity /\ Withdrawn' = Withdrawn
BY DEF Identity, Withdrawn, Recorded

\* A power failure loses offers that were frail, and no others; nothing comes back for them.
LEMMA PowerIsLose ==
  ASSUME TypeOK, StoredRight, StoredRight', PowerLoss
  PROVE  \E S \in SUBSET Keys : A!Lose(S)
<1> DEFINE S == {k \in Keys : Offering(k) /\ ~Offering(k)'}
<1>1. UNCHANGED packages /\ synced' = disk'
  BY DEF PowerLoss
<1>2. ASSUME NEW k \in Keys, Stored(k)
      PROVE  FinalStep(packages[k].filename)
  BY <1>2, RecordedIsRecord, StepFinal DEF Stored
<1>3. S \subseteq Frail
  <2> SUFFICES ASSUME NEW k \in S
               PROVE  k \in Frail
    OBVIOUS
  <2>1. /\ Stored(k) /\ disk[packages[k].filename] # None /\ packages[k].filename \in Names
        /\ disk'[packages[k].filename] = None
    BY <1>1, RecordedIsRecord DEF Offering, Stored, Recorded
  <2>2. packages[k].filename \in Unsynced
    BY <1>2, <2>1 DEF FinalStep, Unsynced
  <2> QED BY <2>1, <2>2, OfferIs DEF Offering
<1>4. Frail' = {}
  BY <1>1 DEF Frail, Unsynced
<1>5. ASSUME NEW k \in Keys
      PROVE  Download(k)' = IF k \in S THEN None ELSE Downloads[k]
  <2>1. Offering(k)' => Offering(k)
    <3> SUFFICES ASSUME Offering(k)'
                 PROVE  Offering(k)
      OBVIOUS
    <3>1. Stored(k) /\ disk'[packages[k].filename] # None
      BY <1>1 DEF Offering, Stored, Recorded
    <3> QED BY <1>2, <3>1 DEF FinalStep, StoredRight, Offering
  <2>2. Download(k)' = IF Offering(k)' THEN packages[k].sha ELSE None
    BY <1>1, DownloadIsNext
  <2> QED BY <2>1, <2>2, OfferIs
<1>6. Downloads' = A!Without(S)
  BY <1>5 DEF Downloads, A!Without
<1>7. Lying' \in SUBSET Contents
  BY DEF Lying
<1>8. S \in SUBSET Keys
  OBVIOUS
<1> HIDE DEF S
<1>9. A!Lose(S)
  BY <1>1, <1>3, <1>4, <1>6, <1>7, SameOffers DEF A!Lose
<1> QED BY <1>8, <1>9

\* Nothing else that leaves the records alone does anything to an offer; a flush makes it last.
LEMMA FilesAreSeen ==
  ASSUME NameInv, StoredRight, StoredRight', [Next]_vars, ~PowerLoss, UNCHANGED packages
  PROVE  A!Persist \/ A!Stow
<1> USE DEF NameInv, TypeInv
<1>1. ASSUME NEW k \in Keys, Stored(k)
      PROVE  /\ packages[k].filename \in Names
             /\ disk'[packages[k].filename] = disk[packages[k].filename]
             /\ ~Flush => synced'[packages[k].filename] = synced[packages[k].filename]
  <2>1. packages[k].filename \in Names
    BY <1>1, RecordedIsRecord DEF Stored
  <2>2. Holds(disk[packages[k].filename], k)
    BY <1>1 DEF StoredRight
  <2> QED BY <1>1, <2>1, <2>2, StepStoredFile DEF FinalStep
<1>2. ASSUME NEW k \in Keys
      PROVE  Offering(k)' <=> Offering(k)
  BY <1>1, <1>2 DEF Offering, Stored, Recorded
<1>3. Downloads' = Downloads
  <2>1. ASSUME NEW k \in Keys
        PROVE  Download(k)' = Download(k)
    BY <1>2, DownloadIs, DownloadIsNext
  <2> QED BY <2>1 DEF Downloads
<1>4. CASE Flush
  <2>1. Frail' = {} /\ Lying' = Lying
    BY <1>4 DEF Flush, Frail, Unsynced, Lying
  <2> QED BY <1>3, <2>1, SameOffers DEF A!Persist
<1>5. CASE ~Flush
  <2>1. ASSUME NEW k \in Keys
        PROVE  k \in Frail' <=> k \in Frail
    <3>1. (Download(k) # None)' <=> Download(k) # None
      BY <1>3 DEF Downloads
    <3>2. Download(k) # None =>
            (packages'[k].filename \in Unsynced' <=> packages[k].filename \in Unsynced)
      BY <1>1, <1>5 DEF Download, Stored, Unsynced
    <3> QED BY <3>1, <3>2 DEF Frail
  <2>2. Frail' = Frail
    BY <2>1 DEF Frail
  <2>3. ASSUME NEW k \in Keys, Downloads[k] # None
        PROVE  Downloads[k] \in Lying'
    <3>1. Offering(k) /\ IsThere(k) /\ Downloads[k] = packages[k].sha /\ packages[k].sha \in Contents
      BY <2>3, OfferIs, DownloadIs DEF Offering, Stored
    <3> QED BY <1>1, <3>1 DEF Offering, IsThere, Lying
  <2>4. Lying' \in SUBSET Contents
    BY DEF Lying
  <2> QED BY <1>3, <2>2, <2>3, <2>4, SameOffers DEF A!Stow
<1> QED BY <1>4, <1>5

\* What a step that changes one record shows of the others, and of it.
LEMMA OneRecord ==
  ASSUME TypeOK, StoredRight, StoredRight', NEW k \in Keys, NEW r \in Records,
         packages' = [packages EXCEPT ![k] = r], UNCHANGED <<disk, synced>>
  PROVE  LET offers == r.status = "stored" /\ disk[r.filename] # None IN
         /\ Identity' = [Identity EXCEPT ![k] = r.sha]
         /\ Withdrawn' = IF r.status = "deleted" THEN Withdrawn \cup {k} ELSE Withdrawn \ {k}
         /\ Downloads' = [Downloads EXCEPT ![k] = IF offers THEN r.sha ELSE None]
         /\ Frail' = IF offers /\ r.filename \in Unsynced THEN Frail \cup {k} ELSE Frail \ {k}
         /\ Lying' = Lying
<1> USE InventoryAssumption DEF TypeOK
<1> DEFINE offers == r.status = "stored" /\ disk[r.filename] # None
<1>1. packages'[k] = r /\ r # None
  OBVIOUS
<1>2. \A x \in Keys \ {k} : packages'[x] = packages[x]
  OBVIOUS
<1>3. Identity' = [Identity EXCEPT ![k] = r.sha]
  BY <1>1, <1>2 DEF Identity, Recorded
<1>4. ASSUME r.status = "deleted"
      PROVE  Withdrawn' = Withdrawn \cup {k}
  BY <1>1, <1>2, <1>4 DEF Withdrawn, Recorded
<1>5. ASSUME r.status # "deleted"
      PROVE  Withdrawn' = Withdrawn \ {k}
  BY <1>1, <1>2, <1>5 DEF Withdrawn, Recorded
<1>6. Download(k)' = IF offers THEN r.sha ELSE None
  BY <1>1, DownloadIsNext DEF Offering, Stored, Recorded
<1>7. ASSUME NEW x \in Keys, x # k
      PROVE  Download(x)' = Download(x)
  BY <1>2, <1>7 DEF Download, Recorded
<1>8. Downloads' = [Downloads EXCEPT ![k] = IF offers THEN r.sha ELSE None]
  <2> HIDE DEF offers
  <2> QED BY <1>6, <1>7 DEF Downloads
<1>9. r.sha # None
  BY DEF Records, Bytes
<1>10. Unsynced' = Unsynced /\ Lying' = Lying
  BY DEF Unsynced, Lying
<1>11. ASSUME NEW x \in Keys
       PROVE  x \in Frail' <=> IF x = k THEN offers /\ r.filename \in Unsynced ELSE x \in Frail
  <2>1. CASE x = k
    <3> HIDE DEF offers
    <3> QED BY <1>1, <1>6, <1>9, <1>10, <2>1 DEF Frail
  <2>2. CASE x # k
    BY <1>2, <1>7, <1>10, <2>2 DEF Frail
  <2> QED BY <2>1, <2>2
<1>12. Frail' = IF offers /\ r.filename \in Unsynced THEN Frail \cup {k} ELSE Frail \ {k}
  <2> HIDE DEF offers
  <2>1. Frail \subseteq Keys /\ Frail' \subseteq Keys
    BY DEF Frail
  <2> QED BY <1>11, <2>1
<1> QED BY <1>3, <1>4, <1>5, <1>8, <1>10, <1>12

\* The first record of a package is its archive learnt.
LEMMA MetIsLearn ==
  ASSUME TypeOK, StoredRight, StoredRight', NEW k \in Keys, NEW r \in Records, Met(k, r),
         UNCHANGED <<disk, synced>>
  PROVE  A!Learn(k, r.sha)
<1> USE InventoryAssumption
<1>1. /\ Identity' = [Identity EXCEPT ![k] = r.sha] /\ Withdrawn' = Withdrawn \ {k}
      /\ Downloads' = [Downloads EXCEPT ![k] = None]
      /\ Frail' = Frail \ {k} /\ Lying' = Lying
  BY OneRecord DEF Met
<1>2. k \notin Withdrawn /\ Identity[k] = None /\ Downloads[k] = None /\ k \notin Frail
  BY DEF Met, Withdrawn, Identity, Downloads, Download, Frail
<1>3. Withdrawn' = Withdrawn /\ Frail' = Frail
  BY <1>1, <1>2
<1>4. Downloads' = Downloads
  BY <1>1, <1>2 DEF Downloads
<1> QED BY <1>1, <1>2, <1>3, <1>4 DEF Met, A!Learn, A!Known

\* Another status is an offer, a readmission or a dispute, or nothing to a client.
LEMMA TurnedIsSeen ==
  ASSUME TypeOK, ShaKey, StoredRight, StoredRight', NEW k \in Keys, NEW r \in Records, Turned(k, r),
         UNCHANGED <<disk, synced>>
  PROVE  A!Offer(k) \/ A!Readmit(k) \/ A!Dispute(k) \/ UNCHANGED A!vars
<1> USE InventoryAssumption
<1> DEFINE offers == r.status = "stored" /\ disk[r.filename] # None
<1>1. /\ packages[k] \in Records /\ Recorded(k) /\ r.sha = packages[k].sha /\ r.sha # None
      /\ r.filename \in Names /\ r.sha \in Contents
  BY RecordedIsRecord DEF Turned, Bytes, Records
<1>2. /\ Identity' = [Identity EXCEPT ![k] = r.sha]
      /\ Withdrawn' = IF r.status = "deleted" THEN Withdrawn \cup {k} ELSE Withdrawn \ {k}
      /\ Downloads' = [Downloads EXCEPT ![k] = IF offers THEN r.sha ELSE None]
      /\ Frail' = IF offers /\ r.filename \in Unsynced THEN Frail \cup {k} ELSE Frail \ {k}
      /\ Lying' = Lying
  BY OneRecord DEF Turned
<1>3. /\ Identity[k] = r.sha
      /\ k \in Withdrawn <=> packages[k].status = "deleted"
      /\ Downloads[k] = IF Offering(k) THEN r.sha ELSE None
      /\ k \in Frail <=> Offering(k) /\ packages[k].filename \in Unsynced
  BY <1>1, OfferIs DEF Identity, Withdrawn
<1>4. Identity' = Identity
  BY <1>2, <1>3 DEF Identity
<1>5. ASSUME Offering(k) <=> offers, packages[k].status = "deleted" <=> r.status = "deleted",
             offers => r.filename = packages[k].filename
      PROVE  UNCHANGED A!vars
  <2>1. Withdrawn' = Withdrawn
    BY <1>2, <1>3, <1>5
  <2>2. Downloads' = Downloads
    BY <1>2, <1>3, <1>5 DEF Downloads
  <2>3. Frail' = Frail
    BY <1>2, <1>3, <1>5
  <2> QED BY <1>2, <1>4, <2>1, <2>2, <2>3 DEF A!vars
<1>6. CASE r.status = packages[k].status /\ r.filename = packages[k].filename
  BY <1>1, <1>5, <1>6 DEF Offering, Stored
<1>7. CASE /\ offers
           /\ Stored(k) /\ IsThere(k) => r.filename = packages[k].filename
  <2>1. CASE Offering(k)
    <3>1. Stored(k) /\ IsThere(k)
      BY <2>1, DownloadIs DEF Offering
    <3> QED BY <1>5, <1>7, <2>1, <3>1 DEF Stored
  <2>2. CASE ~Offering(k)
    <3>1. disk[r.filename].bytes = r.sha
      <4>1. packages'[k] = r /\ r # None
        BY DEF Turned, TypeOK
      <4> QED BY <1>7, <4>1 DEF StoredRight, Stored, Recorded, Holds
    <3>2. Identity[k] \in Lying
      BY <1>1, <1>3, <1>7, <3>1 DEF Lying
    <3>3. /\ Downloads[k] = None /\ Downloads' = [Downloads EXCEPT ![k] = Identity[k]]
          /\ Withdrawn' = Withdrawn \ {k} /\ Frail' \in {Frail, Frail \cup {k}}
      BY <1>2, <1>3, <1>7, <2>2
    <3> QED BY <1>1, <1>2, <1>3, <1>4, <3>2, <3>3 DEF A!Offer, A!Known
  <2> QED BY <2>1, <2>2
<1>8. CASE r.status = "pending" /\ ~Stored(k)
  <2>1. ~offers /\ ~Offering(k) /\ r.status # "deleted"
    BY <1>8 DEF Offering
  <2>2. CASE packages[k].status = "deleted"
    <3>1. Downloads' = Downloads
      BY <1>2, <1>3, <2>1 DEF Downloads
    <3>2. Frail' = Frail /\ Withdrawn' = Withdrawn \ {k} /\ k \in Withdrawn
      BY <1>2, <1>3, <2>1, <2>2
    <3> QED BY <1>2, <1>4, <3>1, <3>2 DEF A!Readmit
  <2> QED BY <1>5, <2>1, <2>2
<1>9. CASE r.status = "conflict" /\ packages[k].status # "deleted" /\ Rival(k)
  <2>1. ~offers /\ r.status # "deleted"
    BY <1>9
  <2>2. CASE Offering(k)
    <3>1. Withdrawn' = Withdrawn /\ Frail' = Frail \ {k} /\ Downloads[k] # None
      BY <1>1, <1>2, <1>3, <1>9, <2>1, <2>2
    <3>2. Downloads' = A!Without({k})
      BY <1>2, <2>1 DEF Downloads, A!Without
    <3> QED BY <1>1, <1>2, <1>3, <1>4, <1>9, <3>1, <3>2 DEF A!Dispute, Rival
  <2> QED BY <1>5, <1>9, <2>1, <2>2
<1>10. CASE r.status = "missing" /\ packages[k].status # "deleted" /\ OnDisk(k) = {}
  <2>1. ~Offering(k)
    <3> SUFFICES ASSUME Offering(k)
                 PROVE  FALSE
      OBVIOUS
    <3>1. disk[packages[k].filename] # None /\ disk[packages[k].filename].bytes = packages[k].sha
      BY DownloadIs DEF Offering, IsThere
    <3>2. packages[k].filename \in Names /\ KeyOf[packages[k].sha] = k
      BY <1>1 DEF Records, ShaKey
    <3> QED BY <1>1, <1>10, <3>1, <3>2 DEF OnDisk, ShaOf, KeysOf
  <2> QED BY <1>5, <1>10, <2>1
<1> QED BY <1>6, <1>7, <1>8, <1>9, <1>10 DEF Turned, Turn

\* Marking targets deleted withdraws them, in one step.
LEMMA MarkedIsWithdraw ==
  ASSUME TypeOK, StoredRight, StoredRight', NEW S \in SUBSET Keys, NEW by \in Actors,
         Targets(S), MarkDeleted(S, by), S # {}, UNCHANGED <<disk, synced>>
  PROVE  A!Withdraw(S)
<1> USE InventoryAssumption
<1>1. \A k \in S : packages[k] \in Records /\ Recorded(k) /\ packages[k].status # "deleted"
  BY RecordedIsRecord DEF Targets, Live
<1>2. \A k \in Keys : packages'[k] = IF k \in S THEN As(packages[k], "deleted", by) ELSE packages[k]
  BY DEF MarkDeleted
<1>3. \A k \in S : /\ As(packages[k], "deleted", by) \in Records
                   /\ As(packages[k], "deleted", by).sha = packages[k].sha
                   /\ As(packages[k], "deleted", by).status = "deleted"
  BY <1>1 DEF As, Records, Statuses
<1>4. \A k \in S : Recorded(k)' /\ packages'[k].sha = packages[k].sha /\ packages'[k].status = "deleted"
  BY <1>2, <1>3 DEF Recorded
<1>5. Identity' = Identity
  BY <1>1, <1>2, <1>4 DEF Identity, Recorded
<1>6. Withdrawn' = Withdrawn \cup S
  BY <1>2, <1>4 DEF Withdrawn, Recorded
<1>7. ASSUME NEW k \in Keys
      PROVE  Download(k)' = IF k \in S THEN None ELSE Download(k)
  BY <1>2, <1>4 DEF Download, Recorded
<1>8. Downloads' = A!Without(S)
  BY <1>7 DEF Downloads, A!Without
<1>9. Frail' = Frail \ S /\ Lying' = Lying
  <2>1. ASSUME NEW k \in Keys
        PROVE  k \in Frail' <=> k \in Frail \ S
    BY <1>2, <1>7 DEF Frail, Unsynced
  <2>2. Frail \subseteq Keys /\ Frail' \subseteq Keys
    BY DEF Frail
  <2>3. Frail' = Frail \ S
    BY <2>1, <2>2
  <2> QED BY <2>3 DEF Lying
<1>10. ASSUME NEW k \in Keys
      PROVE  A!Present(k) <=> Live(k)
  <2>1. Recorded(k) => packages[k].sha # None
    BY RecordedIsRecord DEF Bytes
  <2>2. Identity[k] # None <=> Recorded(k)
    BY <2>1 DEF Identity
  <2> QED BY <2>2 DEF A!Present, A!Known, Withdrawn, Live
<1>11. ASSUME NEW k \in S, NEW x \in Keys, Live(x)
      PROVE  ExtOf[x] # ExtOf[k] \/ x \in S \/ Rank[VersionOf[x]] >= Rank[VersionOf[k]]
  <2>1. Rank[VersionOf[x]] \in Nat /\ Rank[VersionOf[k]] \in Nat
    BY VersionAssumption
  <2> QED BY <1>11, <2>1 DEF Targets
<1> QED BY <1>5, <1>6, <1>8, <1>9, <1>10, <1>11 DEF Targets, A!Withdraw

\* Every step of the inventory is a step of the archive, or none.
LEMMA StepImplements ==
  ASSUME TruthInv, JournalInv, TruthInv', [Next]_vars
  PROVE  A!Next \/ UNCHANGED A!vars
<1> USE DEF TruthInv, RowTruth, NameInv, TypeInv
<1>1. CASE PowerLoss
  BY <1>1, PowerIsLose DEF A!Next
<1>2. CASE UNCHANGED packages /\ ~PowerLoss
  BY <1>2, FilesAreSeen DEF A!Next
<1>3. ASSUME NEW k \in Keys, NEW r \in Records, Met(k, r), UNCHANGED <<disk, synced>>
      PROVE  A!Next
  <2>1. A!Learn(k, r.sha)
    BY <1>3, MetIsLearn
  <2>2. r.sha \in Contents
    BY <1>3 DEF Records
  <2> QED BY <2>1, <2>2 DEF A!Next
<1>4. ASSUME NEW k \in Keys, NEW r \in Records, Turned(k, r), UNCHANGED <<disk, synced>>
      PROVE  A!Next \/ UNCHANGED A!vars
  BY <1>4, TurnedIsSeen DEF A!Next
<1>5. ASSUME NEW S \in SUBSET Keys, NEW by \in Actors, Targets(S), MarkDeleted(S, by),
             UNCHANGED <<disk, synced>>
      PROVE  A!Next \/ UNCHANGED A!vars
  <2>1. CASE S = {}
    BY <1>1, <1>2, <1>5, <2>1 DEF MarkDeleted, TypeOK
  <2>2. CASE S # {}
    BY <1>5, <2>2, MarkedIsWithdraw DEF A!Next
  <2> QED BY <2>1, <2>2
<1> QED BY <1>1, <1>2, <1>3, <1>4, <1>5, StepPackages DEF PackagesStep

\* Initially the archive is empty, whatever the directory holds.
LEMMA InitImplements == Init => A!Init
<1> SUFFICES ASSUME NEW d \in Found, InitOver(d)
             PROVE  A!Init
  BY DEF Init
<1>1. \A k \in Keys : ~Recorded(k)
  BY DEF InitOver, Recorded
<1> QED BY <1>1 DEF A!Init, Identity, Withdrawn, Downloads, Download, Frail, Lying

\* The inventory implements the archive: over any packages, versions, file names and limits, with
\* every interleaving of critical sections, failed steps, crashes and power failures that leaves
\* no upload in another file's place, clients see packages that keep their bytes, come and go
\* whole, and are lost to a deletion, to a dispute with an archive that lies in the directory, or
\* to a power failure that comes before a flush, and to nothing else.
THEOREM InventoryImplementsArchive == Spec => ImplementsArchive
<1>1. TruthInv /\ JournalInv /\ TruthInv' /\ [Next /\ ~Orphans]_vars => [A!Next]_(A!vars)
  BY StepImplements
<1> QED BY <1>1, InitTruthInv, InitJournalInv, StepSoleWriter, InitImplements, PTL
           DEF Spec, ImplementsArchive, A!Spec
=============================================================================
