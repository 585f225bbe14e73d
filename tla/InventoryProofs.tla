-------------------------- MODULE InventoryProofs --------------------------
(***************************************************************************)
(* Proofs about Inventory, for every set of packages, names and limits.    *)
(***************************************************************************)
EXTENDS InventoryNames, TLAPS

\* Every step that any of the specifications allows.
AnyNext == Next \/ ManualNext \/ StealthNext \/ FaultNext

-----------------------------------------------------------------------------
(* Types.                                                                  *)

\* What an upload knows between its steps: its archive is the one recorded, as pending until
\* it is published, and once linked it is there under its recorded name.
UploadInv ==
  /\ pc \in {"link", "flush", "publish", "receipt"} =>
       /\ cur \in Contents
       /\ Recorded(KeyOf[cur])
       /\ packages[KeyOf[cur]].sha = cur
  /\ pc \in {"link", "flush", "publish"} => packages[KeyOf[cur]].status = "pending"
  /\ pc \in {"flush", "publish"} =>
       LET f == disk[packages[KeyOf[cur]].filename] IN f # None /\ f.bytes = cur
  /\ pc = "receipt" => packages[KeyOf[cur]].status = "stored"

\* TypeOK is inductive only together with it: Link writes what cur names.
TypeInv == TypeOK /\ UploadInv

\* A recorded key's record has a record's fields.
LEMMA RecordedIsRecord ==
  ASSUME TypeOK, NEW k \in Keys, Recorded(k)
  PROVE  /\ packages[k] \in Records
         /\ packages[k].filename \in Names
         /\ packages[k].sha \in Contents
  BY InventoryAssumption DEF TypeOK, Recorded, Records

\* So it has after a step.
LEMMA RecordedIsRecordNext ==
  ASSUME TypeOK', NEW k \in Keys, Recorded(k)'
  PROVE  packages'[k].filename \in Names
  BY InventoryAssumption DEF TypeOK, Recorded, Records

\* Initially everything has its type and no upload is under way.
LEMMA InitTypeInv == Init => TypeInv
<1> SUFFICES ASSUME NEW d \in Found, InitOver(d)
             PROVE  TypeInv
  BY DEF Init
<1>1. d \in [Names -> DiskFiles \cup {None}]
  BY NameAssumption
<1>2. TypeOK
  BY <1>1 DEF InitOver, TypeOK, Jobs
<1>3. UploadInv
  BY DEF InitOver, UploadInv
<1> QED BY <1>2, <1>3 DEF TypeInv

\* Publishing keeps a record a record, with its bytes and its name, and gives the
\* name a row.
LEMMA PublishTypes ==
  ASSUME TypeOK, NEW k \in Keys, Recorded(k), PublishRecord(k),
         disk[packages[k].filename] # None
  PROVE  /\ packages' \in [Keys -> Records \cup {None}]
         /\ files' \in [Names -> Rows \cup {None}]
         /\ dirty' \subseteq Keys
         /\ Recorded(k)'
         /\ packages'[k].sha = packages[k].sha
         /\ packages'[k].filename = packages[k].filename
         /\ packages'[k].status = "stored"
<1> DEFINE n == packages[k].filename
           f == [bytes |-> packages[k].sha, mtime |-> disk[n].mtime]
<1> USE InventoryAssumption DEF TypeOK
<1>1. packages[k] \in Records /\ n \in Names /\ packages[k].sha \in Contents
  BY RecordedIsRecord
<1>2. As(packages[k], "stored", None) \in Records
  BY <1>1 DEF As, Records, Statuses
<1>4. f \in DiskFiles /\ RowFor(f) \in Rows
  BY <1>1 DEF DiskFiles, RowFor, ShaOf, Rows, Bytes
<1>5. Displaced(n, k) \subseteq Keys
  BY <1>1 DEF Displaced, KeysOf, Rows
<1> QED BY <1>1, <1>2, <1>4, <1>5 DEF PublishRecord, Recorded, Records, As

\* The upload's steps keep the types.
LEMMA UploadTypeInv ==
  ASSUME TypeInv, UploadNext
  PROVE  TypeInv'
<1> USE InventoryAssumption DEF TypeInv, TypeOK
<1>1. ASSUME NEW c \in Offered, NEW i \in IdemKeys \cup {None}, Journal(c, i)
      PROVE  TypeInv'
  <2> DEFINE k == KeyOf[c]
  <2>1. k \in Keys /\ c \in Contents /\ ExtOf[k] \in Exts
    OBVIOUS
  <2>2. Journaled(k, c) \in Records
    BY <2>1, RecordedIsRecord DEF Journaled, Records, Statuses, Actors
  <2>3. packages' = [packages EXCEPT ![k] = Journaled(k, c)]
    BY <1>1 DEF Journal
  <2>4. TypeOK'
    BY <1>1, <2>1, <2>2, <2>3 DEF Journal, StartUpload, Jobs
  <2>5. UploadInv'
    BY <1>1, <2>1, <2>2, <2>3 DEF Journal, StartUpload, UploadInv, Recorded, Journaled
  <2> QED BY <2>4, <2>5
<1>2. ASSUME Link
      PROVE  TypeInv'
  <2>1. PICK t \in Times : disk' = [disk EXCEPT ![packages[KeyOf[cur]].filename] = [bytes |-> cur, mtime |-> t]]
    BY <1>2 DEF Link, FreshTimes
  <2>2. cur \in Contents /\ Recorded(KeyOf[cur]) /\ packages[KeyOf[cur]].filename \in Names
    BY <1>2, RecordedIsRecord DEF Link, UploadInv
  <2>3. [bytes |-> cur, mtime |-> t] \in DiskFiles
    BY <2>1, <2>2 DEF DiskFiles, Bytes
  <2>4. TypeOK'
    BY <1>2, <2>1, <2>2, <2>3 DEF Link
  <2>5. UploadInv'
    BY <1>2, <2>1, <2>2, <2>3 DEF Link, UploadInv, Recorded
  <2> QED BY <2>4, <2>5
<1>3. ASSUME Publish
      PROVE  TypeInv'
  <2> DEFINE k == KeyOf[cur]
             n == packages[k].filename
  <2>1. /\ cur \in Contents /\ k \in Keys /\ Recorded(k) /\ n \in Names
        /\ packages[k] \in Records /\ packages[k].sha = cur
        /\ disk[n] # None /\ disk[n] \in DiskFiles
    BY <1>3, RecordedIsRecord DEF Publish, UploadInv
  <2> QED BY <1>3, <2>1, PublishTypes DEF Publish, UploadInv, Recorded
<1>4. ASSUME NEW c \in Offered, NEW i \in IdemKeys \cup {None}, Duplicate(c, i)
      PROVE  TypeInv'
  <2> DEFINE k == KeyOf[c]
             n == packages[k].filename
  <2>1. /\ c \in Contents /\ k \in Keys /\ Recorded(k) /\ n \in Names
        /\ packages[k] \in Records /\ packages[k].sha = c
        /\ disk[n] # None /\ disk[n] \in DiskFiles
    BY <1>4, RecordedIsRecord DEF Duplicate, Admitted
  <2> QED BY <1>4, <2>1, PublishTypes DEF Duplicate, StartUpload, UploadInv, Recorded, Jobs
<1>5. ASSUME Receipt
      PROVE  TypeInv'
  BY <1>5 DEF Receipt, UploadInv, Recorded
<1>6. ASSUME Flush
      PROVE  TypeInv'
  <2>1. packages' = packages /\ disk' = disk /\ cur' = cur
    BY <1>6 DEF Flush
  <2>2. TypeOK'
    BY <1>6 DEF Flush
  <2>3. UploadInv'
    BY <1>6, <2>1 DEF Flush, UploadInv, Recorded
  <2> QED BY <2>2, <2>3
<1> QED BY <1>1, <1>2, <1>3, <1>4, <1>5, <1>6 DEF UploadNext

\* Marking targets deleted keeps a record a record, with its bytes and its name.
LEMMA MarkTypes ==
  ASSUME TypeOK, NEW by \in Actors, NEW targets \in SUBSET Keys,
         \A k \in targets : Recorded(k), MarkDeleted(targets, by)
  PROVE  /\ packages' \in [Keys -> Records \cup {None}]
         /\ dirty' \subseteq Keys
         /\ doomed' \subseteq Names
         /\ \A k \in Keys : Recorded(k) =>
              /\ Recorded(k)'
              /\ packages'[k].sha = packages[k].sha
              /\ packages'[k].filename = packages[k].filename
<1>1. \A k \in targets : packages[k] \in Records /\ packages[k].filename \in Names
  BY RecordedIsRecord
<1>2. \A k \in targets : As(packages[k], "deleted", by) \in Records
  BY <1>1 DEF As, Records, Statuses
<1>3. NamesOf(targets) \subseteq Names
  BY <1>1 DEF NamesOf, Held
<1> QED BY <1>1, <1>2, <1>3, InventoryAssumption
        DEF MarkDeleted, TypeOK, Recorded, Records, As

\* Deleting files keeps the directory's type.
LEMMA DeleteFilesTypes ==
  ASSUME TypeOK, NEW ns, DeleteFiles(ns)
  PROVE  /\ disk' \in [Names -> DiskFiles \cup {None}]
         /\ synced' \in [Names -> DiskFiles \cup {None}]
  BY DEF TypeOK, DeleteFiles

\* So do the steps of deletions and limit changes.
LEMMA DeleteTypeInv ==
  ASSUME TypeInv, DeleteNext \/ LimitNext
  PROVE  TypeInv'
<1> USE InventoryAssumption DEF TypeInv
<1>1. ASSUME NEW e \in Exts, NEW v \in Versions, DeleteVersions(e, v)
      PROVE  TypeInv'
  <2>1. PICK targets \in SUBSET Keys : /\ MarkDeleted(targets, "operator")
                                       /\ \A k \in targets : Recorded(k)
    BY <1>1 DEF DeleteVersions, Live
  <2> QED BY <1>1, <2>1, MarkTypes DEF DeleteVersions, TypeOK, UploadInv, Actors, Jobs, MarkDeleted
<1>2. ASSUME NEW n \in Names, Unlink(n)
      PROVE  TypeInv'
  BY <1>2, DeleteFilesTypes DEF Unlink, TypeOK, UploadInv
<1>3. CASE ForgetFiles
  BY <1>3 DEF ForgetFiles, TypeOK, UploadInv
<1>4. ASSUME NEW keep \in Limits, SetLibraryLimit(keep)
      PROVE  TypeInv'
  BY <1>4 DEF SetLibraryLimit, TypeOK, UploadInv, Jobs
<1>5. ASSUME NEW e \in Exts, NEW keep \in Limits \cup {None}, SetExtensionLimit(e, keep)
      PROVE  TypeInv'
  BY <1>5 DEF SetExtensionLimit, TypeOK, UploadInv, Jobs
<1>6. ASSUME NEW e \in Exts, Trim(e)
      PROVE  TypeInv'
  <2>1. CASE Beyond(e) = {}
    BY <1>6, <2>1 DEF Trim, TypeOK, UploadInv
  <2>2. CASE Beyond(e) # {}
    <3>1. /\ MarkDeleted(Beyond(e), "limit")
          /\ Beyond(e) \in SUBSET Keys
          /\ \A k \in Beyond(e) : Recorded(k)
      BY <1>6, <2>2 DEF Trim, Beyond, Live
    <3> QED BY <1>6, <3>1, MarkTypes DEF Trim, TypeOK, UploadInv, Actors, MarkDeleted
  <2> QED BY <2>1, <2>2
<1> QED BY <1>1, <1>2, <1>3, <1>4, <1>5, <1>6 DEF DeleteNext, LimitNext

\* Taking a file into the inventory keeps every record and its bytes.
LEMMA InventoriedTypes ==
  ASSUME TypeOK, NEW n \in Names, NEW sha \in Contents,
         packages' = Inventoried(KeyOf[sha], n, sha)
  PROVE  /\ packages' \in [Keys -> Records \cup {None}]
         /\ \A k \in Keys : Recorded(k) =>
              /\ Recorded(k)'
              /\ packages'[k].sha = packages[k].sha
              /\ packages'[k].filename = packages[k].filename
<1> DEFINE k == KeyOf[sha]
<1> USE InventoryAssumption DEF TypeOK
<1>1. k \in Keys
  OBVIOUS
<1>2. CASE ~Recorded(k)
  <2>1. [status |-> "pending", sha |-> sha, by |-> None, filename |-> n] \in Records
    BY DEF Records, Statuses
  <2> QED BY <1>1, <1>2, <2>1 DEF Inventoried, Recorded
<1>3. CASE Recorded(k)
  <2>1. packages[k] \in Records /\ As(packages[k], packages[k].status, None) \in Records
    BY <1>1, <1>3, RecordedIsRecord DEF Records, As
  <2> QED BY <1>1, <1>3, <2>1 DEF Inventoried, Recorded, As, Records
<1> QED BY <1>2, <1>3

\* Settling makes a record with the same bytes.
LEMMA SettledTypes ==
  ASSUME TypeOK, NEW k \in Keys, Recorded(k)
  PROVE  Settled(k) \in Records /\ Settled(k).sha = packages[k].sha
<1>1. packages[k] \in Records /\ packages[k].filename \in Names
  BY RecordedIsRecord
<1>2. CASE Held(k) = {}
  BY <1>1, <1>2 DEF Settled, As, Records, Statuses
<1>3. CASE Held(k) # {}
  <2>1. (CHOOSE n \in Held(k) : TRUE) \in Names
    BY <1>3 DEF Held
  <2> QED BY <1>1, <1>3, <2>1 DEF Settled, As, Records, Statuses
<1> QED BY <1>2, <1>3

\* And those of a scan.
LEMMA ScanTypeInv ==
  ASSUME TypeInv, ScanNext \/ FaultNext
  PROVE  TypeInv'
<1> USE InventoryAssumption DEF TypeInv
<1>1. CASE ScanFull
  BY <1>1 DEF ScanFull, StartScan, TypeOK, UploadInv, Jobs, Scans
<1>2. CASE ScanRoutine
  BY <1>2 DEF ScanRoutine, StartScan, TypeOK, UploadInv, Jobs, Scans
<1>3. CASE ScanAdopt
  <2>1. ASSUME NEW n \in Names, Adopted(n) # {}
        PROVE  AdoptedRow(packages[CHOOSE k \in Claims(n) : TRUE].sha) \in Rows
    <3>1. (CHOOSE k \in Claims(n) : TRUE) \in Claims(n)
      BY <2>1 DEF Adopted
    <3>2. packages[CHOOSE k \in Claims(n) : TRUE].sha \in Contents
      BY <3>1, RecordedIsRecord DEF Claims
    <3> QED BY <3>2 DEF AdoptedRow, Rows, Bytes
  <2>2. files' \in [Names -> Rows \cup {None}]
    BY <1>3, <2>1 DEF ScanAdopt, TypeOK
  <2> QED BY <1>3, <2>2 DEF ScanAdopt, StartScan, TypeOK, UploadInv, Jobs, Scans
<1>4. ASSUME NEW n \in Names, VerifyUnread(n)
      PROVE  TypeInv'
  <2>1. files' \in [Names -> Rows \cup {None}]
    <3>1. CASE disk[n] = None
      BY <1>4, <3>1 DEF VerifyUnread, TypeOK
    <3>2. CASE disk[n] # None
      BY <1>4, <3>2 DEF VerifyUnread, Trusts, TypeOK, Rows, DiskFiles
    <3> QED BY <3>1, <3>2
  <2> QED BY <1>4, <2>1 DEF VerifyUnread, Listed, TypeOK, UploadInv
<1>5. ASSUME NEW n \in Names, VerifyRead(n)
      PROVE  TypeInv'
  <2> DEFINE sha == ShaOf(disk[n].bytes)
  <2>1. disk[n] \in DiskFiles /\ sha \in Contents \cup {None}
    BY <1>5 DEF VerifyRead, TypeOK, DiskFiles, ShaOf
  <2>2. RowFor(disk[n]) \in Rows
    BY <2>1 DEF RowFor, Rows, DiskFiles, Bytes
  <2>3. KeysOf(sha) \subseteq Keys /\ Displaced(n, None) \subseteq Keys
    BY <2>1 DEF KeysOf, Displaced, TypeOK, Rows
  <2>4. packages' \in [Keys -> Records \cup {None}]
    <3>1. CASE sha = None
      BY <1>5, <3>1 DEF VerifyRead, TypeOK
    <3>2. CASE sha # None
      BY <1>5, <2>1, <3>2, InventoriedTypes DEF VerifyRead
    <3> QED BY <3>1, <3>2
  <2> QED BY <1>5, <2>2, <2>3, <2>4 DEF VerifyRead, Listed, TypeOK, UploadInv
<1>6. ASSUME NEW n \in Names, VerifyUnreadable(n)
      PROVE  TypeInv'
  <2>1. [sha |-> None, size |-> SizeOf[disk[n].bytes], mtime |-> disk[n].mtime] \in Rows
    BY <1>6 DEF VerifyUnreadable, TypeOK, DiskFiles, Rows
  <2>2. Displaced(n, None) \subseteq Keys
    BY DEF KeysOf, Displaced, TypeOK, Rows
  <2> QED BY <1>6, <2>1, <2>2 DEF VerifyUnreadable, Listed, TypeOK, UploadInv
<1>7. CASE DropVanished
  <2>1. \A n \in Names : Displaced(n, None) \subseteq Keys
    BY DEF KeysOf, Displaced, TypeOK, Rows
  <2> QED BY <1>7, <2>1 DEF DropVanished, TypeOK, UploadInv
<1>8. ASSUME NEW k \in Keys, SettleLive(k)
      PROVE  TypeInv'
  <2>1. Settled(k) \in Records
    BY <1>8, SettledTypes DEF SettleLive, Live
  <2> QED BY <1>8, <2>1 DEF SettleLive, SettleStep, TypeOK, UploadInv
<1>9. ASSUME NEW k \in Keys, SettleDeleted(k)
      PROVE  TypeInv'
  BY <1>9, DeleteFilesTypes DEF SettleDeleted, SettleStep, TypeOK, UploadInv
<1>10. CASE SettleFails
  BY <1>10, DeleteFilesTypes DEF SettleFails, Abandon, Release, TypeOK, UploadInv, Jobs
<1>11. CASE SettleEnd
  BY <1>11 DEF SettleEnd, durable, TypeOK, UploadInv
<1> QED BY <1>1, <1>2, <1>3, <1>4, <1>5, <1>6, <1>7, <1>8, <1>9, <1>10, <1>11
        DEF ScanNext, FaultNext

\* And everything else.
LEMMA OtherTypeInv ==
  ASSUME TypeInv, \/ Finish \/ Fail \/ Crash \/ PowerLoss \/ Restart
                  \/ ManualNext \/ StealthNext \/ UNCHANGED vars
  PROVE  TypeInv'
<1> USE InventoryAssumption DEF TypeInv
<1>1. CASE Finish
  BY <1>1 DEF Finish, Release, TypeOK, UploadInv, Jobs
<1>2. CASE Fail
  BY <1>2 DEF Fail, Abandon, Release, durable, TypeOK, UploadInv, Jobs
<1>3. CASE Crash
  BY <1>3 DEF Crash, Release, durable, TypeOK, UploadInv, Jobs
<1>4. CASE PowerLoss
  <2>1. PICK undone \in SUBSET Unsynced, emptied \in SUBSET Unsynced :
          disk' = [n \in Names |-> IF n \in emptied THEN None
                                  ELSE IF n \in undone THEN synced[n] ELSE disk[n]]
    BY <1>4 DEF PowerLoss
  <2>2. disk' \in [Names -> DiskFiles \cup {None}]
    BY <2>1 DEF TypeOK
  <2>3. synced' \in [Names -> DiskFiles \cup {None}]
    BY <1>4, <2>2 DEF PowerLoss
  <2>4. /\ UNCHANGED <<packages, files, dirty, trusted, receipts, library, limits, edits>>
        /\ gate' = "down"
        /\ Release
    BY <1>4 DEF PowerLoss
  <2>5. TypeOK'
    BY <2>2, <2>3, <2>4 DEF Release, TypeOK, Jobs
  <2>6. UploadInv'
    BY <2>4 DEF Release, UploadInv
  <2> QED BY <2>5, <2>6
<1>5. CASE Restart
  BY <1>5 DEF Restart, durable, volatile, TypeOK, UploadInv, Recorded
<1>6. ASSUME NEW n \in Names, ManualDelete(n)
      PROVE  TypeInv'
  BY <1>6 DEF ManualDelete, Put, Edit, volatile, TypeOK, UploadInv
<1>7. ASSUME NEW n \in Names, NEW b \in Bytes, ManualChange(n, b)
      PROVE  TypeInv'
  BY <1>7 DEF ManualChange, FreshTimes, Put, Edit, volatile, TypeOK, UploadInv, DiskFiles
<1>8. ASSUME NEW n \in Names, NEW b \in Bytes, StealthEdit(n, b)
      PROVE  TypeInv'
  BY <1>8 DEF StealthEdit, Put, Edit, volatile, TypeOK, UploadInv, DiskFiles
<1>9. CASE UNCHANGED vars
  BY <1>9 DEF vars, durable, volatile, TypeOK, UploadInv, Recorded
<1> QED BY <1>1, <1>2, <1>3, <1>4, <1>5, <1>6, <1>7, <1>8, <1>9
        DEF ManualNext, StealthNext

\* No step of any specification breaks the types.
LEMMA StepTypeInv == TypeInv /\ [AnyNext]_vars => TypeInv'
  BY UploadTypeInv, DeleteTypeInv, ScanTypeInv, OtherTypeInv DEF AnyNext, Next

\* Every variable keeps its type whatever happens to the process, the machine and
\* the directory: no step writes a record, a row or a file with something missing.
THEOREM TypeCorrect == OpenSpec => []TypeOK
<1>1. Next \/ ManualNext \/ StealthNext => AnyNext
  BY DEF AnyNext
<1>2. TypeInv => TypeOK
  BY DEF TypeInv
<1> QED BY InitTypeInv, StepTypeInv, <1>1, <1>2, PTL DEF OpenSpec

-----------------------------------------------------------------------------
(* The directory: how a step may change a name's file, and what a power    *)
(* failure would bring back under it.                                      *)

LinkStep(n) ==
  /\ Link
  /\ packages[KeyOf[cur]].filename = n
  /\ disk[n] = None
  /\ \E t \in FreshTimes(n, cur) : disk'[n] = [bytes |-> cur, mtime |-> t]
  /\ synced'[n] = synced[n]
  /\ UNCHANGED files
\* A flush, or the machine going down: the directory is final.
FinalStep(n) ==
  /\ Flush \/ PowerLoss
  /\ synced'[n] = disk'[n]
  /\ disk'[n] \in {disk[n], synced[n], None}
  /\ ~PowerLoss \/ disk[n] = synced[n] => disk'[n] = disk[n]
  /\ UNCHANGED files
DeleteStep(n) ==
  /\ disk'[n] = None
  /\ synced'[n] = synced[n]
  /\ files'[n] \in {files[n], None}
FileStep(n) ==
  \/ LinkStep(n)
  \/ FinalStep(n)
  \/ DeleteStep(n)
  \/ disk'[n] = disk[n] /\ synced'[n] = synced[n]

\* A flush and a power failure are of that kind.
LEMMA StepFinal ==
  ASSUME TypeOK, Flush \/ PowerLoss, NEW n \in Names
  PROVE  FinalStep(n)
<1>1. CASE Flush
  BY <1>1 DEF Flush, FinalStep
<1>2. CASE PowerLoss
  <2>1. PICK undone \in SUBSET Unsynced, emptied \in SUBSET Unsynced :
          /\ emptied \subseteq undone
          /\ disk' = [m \in Names |-> IF m \in emptied THEN None
                                     ELSE IF m \in undone THEN synced[m] ELSE disk[m]]
    BY <1>2 DEF PowerLoss
  <2>2. synced' = disk' /\ UNCHANGED files
    BY <1>2 DEF PowerLoss
  <2> QED BY <1>2, <2>1, <2>2 DEF FinalStep, Unsynced
<1> QED BY <1>1, <1>2

\* Every step of the manager is one of these.
LEMMA StepFile ==
  ASSUME TypeInv, [Next]_vars, NEW n \in Names
  PROVE  FileStep(n)
<1> USE InventoryAssumption DEF TypeInv
<1>1. CASE UNCHANGED <<disk, synced>>
  BY <1>1 DEF FileStep
<1>2. ASSUME NEW ns, DeleteFiles(ns), n \in ns => files'[n] \in {files[n], None}
      PROVE  FileStep(n)
  BY <1>2 DEF DeleteFiles, FileStep, DeleteStep
<1>3. CASE Link
  <2>1. PICK t \in FreshTimes(packages[KeyOf[cur]].filename, cur) :
          disk' = [disk EXCEPT ![packages[KeyOf[cur]].filename] = [bytes |-> cur, mtime |-> t]]
    BY <1>3 DEF Link
  <2>2. disk[packages[KeyOf[cur]].filename] = None /\ UNCHANGED <<synced, files>>
    BY <1>3 DEF Link
  <2>3. CASE n = packages[KeyOf[cur]].filename
    <3>1. disk'[n] = [bytes |-> cur, mtime |-> t] /\ synced'[n] = synced[n]
      BY <2>1, <2>2, <2>3 DEF TypeOK
    <3> QED BY <1>3, <2>1, <2>2, <2>3, <3>1 DEF FileStep, LinkStep
  <2>4. CASE n # packages[KeyOf[cur]].filename
    BY <2>1, <2>2, <2>4 DEF FileStep, TypeOK
  <2> QED BY <2>3, <2>4
<1>4. CASE Flush \/ PowerLoss
  BY <1>4, StepFinal DEF FileStep
<1>5. CASE UploadNext
  BY <1>1, <1>3, <1>4, <1>5 DEF UploadNext, Journal, Duplicate, Publish, Receipt
<1>6. ASSUME NEW m \in Names, Unlink(m)
      PROVE  FileStep(n)
  BY <1>1, <1>2, <1>6 DEF Unlink
<1>7. CASE DeleteNext
  BY <1>1, <1>6, <1>7 DEF DeleteNext, DeleteVersions, ForgetFiles
<1>8. CASE LimitNext
  BY <1>1, <1>8 DEF LimitNext, SetLibraryLimit, SetExtensionLimit, Trim
<1>9. ASSUME NEW k \in Keys, SettleDeleted(k)
       PROVE  FileStep(n)
  BY <1>2, <1>9 DEF SettleDeleted
<1>10. CASE SettleFails
  BY <1>2, <1>10 DEF SettleFails
<1>11. CASE ScanNext
  BY <1>1, <1>9, <1>10, <1>11
     DEF ScanNext, ScanFull, ScanRoutine, ScanAdopt, StartScan, VerifyUnread, VerifyRead,
         Listed, DropVanished, SettleLive, SettleEnd, durable
<1>12. CASE Finish \/ Fail \/ Crash \/ Restart \/ UNCHANGED vars
  BY <1>1, <1>12 DEF Finish, Fail, Crash, Restart, vars, durable
<1> QED BY <1>4, <1>5, <1>7, <1>8, <1>11, <1>12 DEF Next

-----------------------------------------------------------------------------
(* Identity.                                                               *)

\* A record's bytes are an archive of the record's key.
ShaKey == \A k \in Keys : Recorded(k) => KeyOf[packages[k].sha] = k

Pinned(k) ==
  /\ packages'[k] # None
  /\ packages'[k].sha = packages[k].sha
  /\ packages'[k].filename = packages[k].filename \/ (SettleLive(k) /\ packages'[k] = Settled(k))

\* No step takes a record away or gives it other bytes, and only a scan that settles
\* it gives it another file name.
LEMMA StepPinned ==
  ASSUME TypeInv, [AnyNext]_vars, NEW k \in Keys, Recorded(k)
  PROVE  Pinned(k)
<1> USE InventoryAssumption DEF TypeInv
<1>1. ASSUME UNCHANGED packages
      PROVE  Pinned(k)
  BY <1>1 DEF Pinned, Recorded
<1>2. ASSUME NEW c \in Offered, NEW i \in IdemKeys \cup {None}, Journal(c, i)
      PROVE  Pinned(k)
  <2>1. KeyOf[c] \in Keys /\ c \in Contents
    OBVIOUS
  <2>2. Journaled(KeyOf[c], c) \in Records
    BY <2>1, RecordedIsRecord DEF Journaled, Records, Statuses
  <2> QED BY <1>2, <2>1, <2>2 DEF Journal, Admitted, Journaled, Pinned, Recorded, TypeOK
<1>3. ASSUME NEW x \in Keys, Recorded(x), PublishRecord(x)
      PROVE  Pinned(k)
  <2>1. As(packages[x], "stored", None) \in Records
    BY <1>3, RecordedIsRecord DEF As, Records, Statuses
  <2> QED BY <1>3, <2>1 DEF PublishRecord, As, Pinned, Recorded, TypeOK
<1>4. ASSUME NEW c \in Offered, NEW i \in IdemKeys \cup {None}, Duplicate(c, i)
      PROVE  Pinned(k)
  BY <1>3, <1>4 DEF Duplicate
<1>5. CASE Publish
  BY <1>3, <1>5 DEF Publish, UploadInv
<1>6. ASSUME NEW targets, NEW by \in Actors, MarkDeleted(targets, by)
      PROVE  Pinned(k)
  <2>1. As(packages[k], "deleted", by) \in Records
    BY RecordedIsRecord DEF As, Records, Statuses
  <2> QED BY <1>6, <2>1 DEF MarkDeleted, As, Pinned, Recorded
<1>7. ASSUME NEW e \in Exts, NEW v \in Versions, DeleteVersions(e, v)
      PROVE  Pinned(k)
  BY <1>6, <1>7 DEF DeleteVersions, Actors
<1>8. ASSUME NEW e \in Exts, Trim(e)
      PROVE  Pinned(k)
  BY <1>1, <1>6, <1>8 DEF Trim, Actors
<1>9. ASSUME NEW n \in Names, VerifyRead(n)
      PROVE  Pinned(k)
  <2>1. CASE ShaOf(disk[n].bytes) = None
    BY <1>1, <1>9, <2>1 DEF VerifyRead
  <2>2. CASE ShaOf(disk[n].bytes) # None
    BY <1>9, <2>2, InventoriedTypes DEF VerifyRead, ShaOf, Pinned, Recorded
  <2> QED BY <2>1, <2>2
<1>10. ASSUME NEW x \in Keys, SettleLive(x)
       PROVE  Pinned(k)
  <2>1. Settled(x) \in Records /\ Settled(x).sha = packages[x].sha
    BY <1>10, SettledTypes DEF SettleLive, Live
  <2>2. packages' = [packages EXCEPT ![x] = Settled(x)]
    BY <1>10 DEF SettleLive
  <2>3. CASE x = k
    BY <1>10, <2>1, <2>2, <2>3 DEF Pinned, TypeOK
  <2>4. CASE x # k
    BY <1>1, <2>2, <2>4 DEF Pinned, Recorded
  <2> QED BY <2>3, <2>4
<1>11. CASE UploadNext
  BY <1>1, <1>2, <1>4, <1>5, <1>11 DEF UploadNext, Link, Flush, Receipt
<1>12. CASE DeleteNext
  BY <1>1, <1>7, <1>12 DEF DeleteNext, Unlink, ForgetFiles
<1>13. CASE LimitNext
  BY <1>1, <1>8, <1>13 DEF LimitNext, SetLibraryLimit, SetExtensionLimit
<1>14. CASE ScanNext
  BY <1>1, <1>9, <1>10, <1>14
     DEF ScanNext, ScanFull, ScanRoutine, ScanAdopt, StartScan, VerifyUnread, DropVanished,
         SettleDeleted, SettleFails, SettleEnd, durable
<1>15. CASE Finish \/ Fail \/ Crash \/ PowerLoss \/ Restart \/ UNCHANGED vars
  BY <1>1, <1>15 DEF Finish, Fail, Crash, PowerLoss, Restart, vars, durable
<1>16. CASE ManualNext \/ StealthNext \/ FaultNext
  BY <1>1, <1>16
     DEF ManualNext, ManualChange, ManualDelete, StealthNext, StealthEdit, Edit,
         FaultNext, VerifyUnreadable
<1> QED BY <1>11, <1>12, <1>13, <1>14, <1>15, <1>16 DEF AnyNext, Next

\* Whatever anybody does to the directory, a key that has a record keeps it, and
\* with it the SHA-256 that uploads, scans and conflicts are judged by.
THEOREM IdentityIsPinned == OpenSpec => IdentityPinned
<1>1. TypeInv /\ [AnyNext]_vars =>
        \A k \in Keys : Recorded(k) => packages'[k] # None /\ packages'[k].sha = packages[k].sha
  BY StepPinned DEF Pinned
<1>2. Next \/ ManualNext \/ StealthNext => AnyNext
  BY DEF AnyNext
<1> QED BY InitTypeInv, StepTypeInv, <1>1, <1>2, PTL DEF OpenSpec, IdentityPinned

-----------------------------------------------------------------------------
(* Names.  No step of the manager gives a package a claim on a file name   *)
(* that it did not have, its canonical name being one from the start: so   *)
(* names that belong to one package each do so for good.                   *)

\* The ways to have a claim, one by one.
ByRecord(k, n) == Recorded(k) /\ packages[k].filename = n
ByFile(k, f) == f # None /\ k \in KeysOf(ShaOf(f.bytes))
ByRow(k, n) == files[n] # None /\ k \in KeysOf(files[n].sha)

\* A claim is one of these.
LEMMA ClaimsOnIs ==
  ASSUME NEW n \in Names, NEW k \in Keys
  PROVE  k \in ClaimsOn(n) <=> \/ CanonicalName[k] = n
                               \/ ByRecord(k, n)
                               \/ ByFile(k, disk[n])
                               \/ ByFile(k, synced[n])
                               \/ ByRow(k, n)
  BY DEF ClaimsOn, ByRecord, ByFile, ByRow

\* And so it is after a step.
LEMMA ClaimsOnIsNext ==
  ASSUME NEW n \in Names, NEW k \in Keys
  PROVE  (k \in ClaimsOn(n))' <=> \/ CanonicalName[k] = n
                                  \/ ByRecord(k, n)'
                                  \/ ByFile(k, disk'[n])
                                  \/ ByFile(k, synced'[n])
                                  \/ ByRow(k, n)'
  BY DEF ClaimsOn, ByRecord, ByFile, ByRow

\* Initially each record's bytes are its key's, there being none.
LEMMA InitShaKey == Init => ShaKey
  BY DEF Init, InitOver, ShaKey, Recorded

\* Only an upload and a scan make records.
LEMMA NewRecord ==
  ASSUME TypeInv, [AnyNext]_vars, NEW k \in Keys, ~Recorded(k), Recorded(k)'
  PROVE  \/ \E c \in Offered, i \in IdemKeys \cup {None} : Journal(c, i)
         \/ \E n \in Names : VerifyRead(n)
<1> USE InventoryAssumption DEF TypeInv
<1>1. ~UNCHANGED packages
  BY DEF Recorded
<1>2. ASSUME NEW x \in Keys, Recorded(x), PublishRecord(x)
      PROVE  FALSE
  BY <1>2 DEF PublishRecord, Recorded, TypeOK
<1>3. ASSUME NEW c \in Offered, NEW i \in IdemKeys \cup {None}, Duplicate(c, i)
      PROVE  FALSE
  BY <1>2, <1>3 DEF Duplicate
<1>4. ~Publish
  BY <1>2 DEF Publish, UploadInv
<1>5. ASSUME NEW targets, NEW by, MarkDeleted(targets, by), \A x \in targets : Recorded(x)
      PROVE  FALSE
  BY <1>5 DEF MarkDeleted, Recorded
<1>6. ASSUME NEW e \in Exts, NEW v \in Versions, DeleteVersions(e, v)
      PROVE  FALSE
  BY <1>5, <1>6 DEF DeleteVersions, Live
<1>7. ASSUME NEW e \in Exts, Trim(e)
      PROVE  FALSE
  BY <1>1, <1>5, <1>7 DEF Trim, Beyond, Live
<1>8. ASSUME NEW x \in Keys, SettleLive(x)
      PROVE  FALSE
  BY <1>8 DEF SettleLive, Live, Recorded, TypeOK
<1>9. ~(LimitNext \/ DeleteNext)
  BY <1>1, <1>6, <1>7
     DEF LimitNext, SetLibraryLimit, SetExtensionLimit, DeleteNext, Unlink, ForgetFiles
<1>10. ~(Finish \/ Fail \/ Crash \/ PowerLoss \/ Restart \/ UNCHANGED vars)
  BY <1>1 DEF Finish, Fail, Crash, PowerLoss, Restart, vars, durable
<1>11. ~(ManualNext \/ StealthNext \/ FaultNext)
  BY <1>1 DEF ManualNext, ManualChange, ManualDelete, StealthNext, StealthEdit, Edit,
              FaultNext, VerifyUnreadable
<1>12. CASE UploadNext
  BY <1>1, <1>3, <1>4, <1>12 DEF UploadNext, Link, Flush, Receipt
<1>13. CASE ScanNext
  BY <1>1, <1>8, <1>13
     DEF ScanNext, ScanFull, ScanRoutine, ScanAdopt, StartScan, VerifyUnread, DropVanished,
         SettleDeleted, SettleFails, SettleEnd, durable
<1> QED BY <1>9, <1>10, <1>11, <1>12, <1>13 DEF AnyNext, Next

\* Nor does a step give a record the bytes of another key.
LEMMA StepShaKey ==
  ASSUME TypeInv, ShaKey, [AnyNext]_vars
  PROVE  ShaKey'
<1> SUFFICES ASSUME NEW k \in Keys, Recorded(k)'
             PROVE  KeyOf[packages'[k].sha] = k
  BY DEF ShaKey
<1>1. CASE Recorded(k)
  BY <1>1, StepPinned DEF Pinned, ShaKey
<1>2. CASE ~Recorded(k)
  <2> USE InventoryAssumption DEF TypeInv
  <2>1. packages' # packages
    BY <1>2 DEF Recorded
  <2>2. ASSUME NEW c \in Offered, NEW i \in IdemKeys \cup {None}, Journal(c, i)
        PROVE  KeyOf[packages'[k].sha] = k
    BY <1>2, <2>2 DEF Journal, Journaled, Recorded, TypeOK
  <2>3. ASSUME NEW n \in Names, VerifyRead(n)
        PROVE  KeyOf[packages'[k].sha] = k
    <3> DEFINE sha == ShaOf(disk[n].bytes)
    <3>1. sha \in Contents /\ packages' = Inventoried(KeyOf[sha], n, sha)
      BY <2>1, <2>3 DEF VerifyRead, ShaOf
    <3>2. ~Recorded(KeyOf[sha])
      BY <1>2, <3>1 DEF Inventoried, Recorded, TypeOK
    <3>3. packages' = [packages EXCEPT ![KeyOf[sha]] =
                         [status |-> "pending", sha |-> sha, by |-> None, filename |-> n]]
      BY <3>1, <3>2 DEF Inventoried
    <3>4. k = KeyOf[sha]
      BY <1>2, <3>3 DEF Recorded, TypeOK
    <3>5. packages'[k].sha = sha
      BY <3>3, <3>4 DEF TypeOK
    <3> QED BY <3>4, <3>5
  <2> QED BY <1>2, <2>2, <2>3, NewRecord
<1> QED BY <1>1, <1>2

\* A claim by record: a new record has the canonical name, or its file's.
LEMMA RecordClaims ==
  ASSUME TypeInv, [Next]_vars, NEW n \in Names, NEW k \in Keys, ByRecord(k, n)'
  PROVE  k \in ClaimsOn(n)
<1> USE InventoryAssumption DEF TypeInv
<1>1. ASSUME Recorded(k), packages'[k].filename = packages[k].filename
      PROVE  k \in ClaimsOn(n)
  BY <1>1, ClaimsOnIs DEF ByRecord
<1>2. CASE ~Recorded(k)
  <2>1. [AnyNext]_vars /\ Recorded(k)'
    BY DEF AnyNext, ByRecord
  <2>2. ASSUME NEW c \in Offered, NEW i \in IdemKeys \cup {None}, Journal(c, i)
        PROVE  k \in ClaimsOn(n)
    <3>1. packages' = [packages EXCEPT ![KeyOf[c]] = Journaled(KeyOf[c], c)]
      BY <2>2 DEF Journal
    <3>2. k = KeyOf[c]
      BY <1>2, <2>1, <3>1 DEF Recorded, TypeOK
    <3>3. packages'[k].filename = CanonicalName[k]
      BY <1>2, <3>1, <3>2 DEF Journaled, TypeOK
    <3> QED BY <3>3, ClaimsOnIs DEF ByRecord
  <2>3. ASSUME NEW m \in Names, VerifyRead(m)
        PROVE  k \in ClaimsOn(n)
    <3> DEFINE sha == ShaOf(disk[m].bytes)
    <3>1. sha \in Contents /\ packages' = Inventoried(KeyOf[sha], m, sha)
      BY <1>2, <2>1, <2>3 DEF VerifyRead, ShaOf, Recorded
    <3>2. ~Recorded(KeyOf[sha])
      BY <1>2, <2>1, <3>1 DEF Inventoried, Recorded, TypeOK
    <3>3. packages' = [packages EXCEPT ![KeyOf[sha]] =
                         [status |-> "pending", sha |-> sha, by |-> None, filename |-> m]]
      BY <3>1, <3>2 DEF Inventoried
    <3>4. k = KeyOf[sha]
      BY <1>2, <2>1, <3>3 DEF Recorded, TypeOK
    <3>5. packages'[k].filename = m
      BY <3>3, <3>4 DEF TypeOK
    <3>6. ByFile(k, disk[m])
      BY <2>3, <3>1, <3>4 DEF VerifyRead, ByFile, KeysOf, Bytes
    <3> QED BY <3>5, <3>6, ClaimsOnIs DEF ByRecord
  <2> QED BY <1>2, <2>1, <2>2, <2>3, NewRecord
<1>3. CASE Recorded(k)
  <2>1. Pinned(k)
    BY <1>3, StepPinned DEF AnyNext
  <2>2. ASSUME SettleLive(k), packages'[k] = Settled(k)
        PROVE  k \in ClaimsOn(n)
    <3>1. Settled(k).filename \in {packages[k].filename} \cup Held(k)
      <4>1. CASE Held(k) = {}
        BY <4>1 DEF Settled, As
      <4>2. CASE Held(k) # {}
        <5>1. (CHOOSE m \in Held(k) : TRUE) \in Held(k)
          BY <4>2
        <5> QED BY <4>2, <5>1 DEF Settled, As
      <4> QED BY <4>1, <4>2
    <3>2. n \in Held(k) => ByRow(k, n)
      BY DEF Held, ByRow
    <3> QED BY <1>3, <2>2, <3>1, <3>2, ClaimsOnIs DEF ByRecord
  <2> QED BY <1>1, <1>3, <2>1, <2>2 DEF Pinned
<1> QED BY <1>2, <1>3

\* A claim by a file: an upload links its file under its record's name, and a
\* power failure puts back what was deleted.
LEMMA FileClaims ==
  ASSUME TypeInv, [Next]_vars, NEW n \in Names, NEW k \in Keys,
         ByFile(k, disk'[n]) \/ ByFile(k, synced'[n])
  PROVE  k \in ClaimsOn(n)
<1> USE InventoryAssumption DEF TypeInv
<1>1. ASSUME disk'[n] \in {disk[n], synced[n], None},
             synced'[n] \in {disk[n], synced[n], None}
      PROVE  k \in ClaimsOn(n)
  BY <1>1, ClaimsOnIs DEF ByFile
<1>2. CASE LinkStep(n)
  <2>1. cur \in Contents /\ Recorded(KeyOf[cur]) /\ packages[KeyOf[cur]].filename = n
    BY <1>2 DEF LinkStep, Link, UploadInv
  <2>2. CASE ByFile(k, disk'[n])
    <3>1. disk'[n].bytes = cur
      BY <1>2 DEF LinkStep
    <3>2. k = KeyOf[cur]
      BY <2>1, <2>2, <3>1 DEF ByFile, KeysOf, ShaOf
    <3> QED BY <2>1, <3>2, ClaimsOnIs DEF ByRecord
  <2>3. CASE ByFile(k, synced'[n])
    BY <1>2, <2>3, ClaimsOnIs DEF ByFile, LinkStep
  <2> QED BY <2>2, <2>3
<1> QED BY <1>1, <1>2, StepFile DEF FileStep, FinalStep, DeleteStep

\* A claim by a row: the row of a file that was read, or of a record's file.
LEMMA RowClaims ==
  ASSUME TypeInv, ShaKey, [Next]_vars, NEW n \in Names, NEW k \in Keys, ByRow(k, n)'
  PROVE  k \in ClaimsOn(n)
<1> USE InventoryAssumption DEF TypeInv
<1>1. ASSUME files'[n] = None \/ (files[n] # None /\ files'[n].sha = files[n].sha)
      PROVE  k \in ClaimsOn(n)
  BY <1>1, ClaimsOnIs DEF ByRow
<1>2. CASE UNCHANGED files
  BY <1>1, <1>2 DEF ByRow
<1>3. ASSUME NEW x \in Keys, Recorded(x), packages[x].filename = n,
             files'[n].sha = packages[x].sha
      PROVE  k \in ClaimsOn(n)
  <2>1. packages[x].sha \in Contents
    BY <1>3, RecordedIsRecord
  <2>2. k = x
    BY <1>3, <2>1 DEF ByRow, KeysOf, ShaKey
  <2> QED BY <1>3, <2>2, ClaimsOnIs DEF ByRecord
<1>4. ASSUME NEW x \in Keys, Recorded(x), PublishRecord(x)
      PROVE  k \in ClaimsOn(n)
  <2> DEFINE m == packages[x].filename
  <2>1. packages[x].sha \in Contents
    BY <1>4, RecordedIsRecord
  <2>2. RowFor([bytes |-> packages[x].sha, mtime |-> disk[m].mtime]).sha = packages[x].sha
    BY <2>1 DEF RowFor, ShaOf
  <2>3. CASE n = m
    BY <1>3, <1>4, <2>2, <2>3 DEF PublishRecord, TypeOK
  <2>4. CASE n # m
    BY <1>1, <1>4, <2>4 DEF PublishRecord, TypeOK, ByRow
  <2> QED BY <2>3, <2>4
<1>5. CASE ScanAdopt
  <2>1. CASE Adopted(n) = {}
    BY <1>1, <1>5, <2>1 DEF ScanAdopt, ByRow
  <2>2. CASE Adopted(n) # {}
    <3> DEFINE x == CHOOSE y \in Claims(n) : TRUE
    <3>1. x \in Claims(n)
      BY <2>2 DEF Adopted
    <3>2. files'[n].sha = packages[x].sha
      BY <1>5, <2>2 DEF ScanAdopt, AdoptedRow
    <3> QED BY <1>3, <3>1, <3>2 DEF Claims
  <2> QED BY <2>1, <2>2
<1>6. ASSUME NEW m \in Names, VerifyUnread(m)
      PROVE  k \in ClaimsOn(n)
  <2>1. CASE disk[m] = None
    BY <1>2, <1>6, <2>1 DEF VerifyUnread
  <2>2. CASE disk[m] # None
    BY <1>1, <1>6, <2>2 DEF VerifyUnread, Trusts, TypeOK, ByRow
  <2> QED BY <2>1, <2>2
<1>7. ASSUME NEW m \in Names, VerifyRead(m)
      PROVE  k \in ClaimsOn(n)
  <2>1. CASE n = m
    <3>1. files'[n].sha = ShaOf(disk[n].bytes) /\ disk[n] # None
      BY <1>7, <2>1 DEF VerifyRead, RowFor, TypeOK
    <3> QED BY <3>1, ClaimsOnIs DEF ByRow, ByFile
  <2>2. CASE n # m
    BY <1>1, <1>7, <2>2 DEF VerifyRead, TypeOK, ByRow
  <2> QED BY <2>1, <2>2
<1>8. ASSUME NEW ns, files' = [m \in Names |-> IF m \in ns THEN None ELSE files[m]]
      PROVE  k \in ClaimsOn(n)
  BY <1>1, <1>8 DEF ByRow
<1>9. CASE UploadNext
  BY <1>2, <1>4, <1>9 DEF UploadNext, Journal, Link, Flush, Duplicate, Publish, Receipt, UploadInv
<1>10. CASE DeleteNext
  BY <1>2, <1>8, <1>10 DEF DeleteNext, DeleteVersions, Unlink, ForgetFiles
<1>11. CASE LimitNext
  BY <1>2, <1>11 DEF LimitNext, SetLibraryLimit, SetExtensionLimit, Trim
<1>12. CASE ScanFull
  BY <1>1, <1>12 DEF ScanFull
<1>13. CASE DropVanished
  BY <1>1, <1>13 DEF DropVanished, ByRow
<1>14. ASSUME NEW x \in Keys, SettleDeleted(x)
       PROVE  k \in ClaimsOn(n)
  BY <1>1, <1>14 DEF SettleDeleted, ByRow
<1>15. CASE ScanNext
  BY <1>2, <1>5, <1>6, <1>7, <1>12, <1>15, <1>13, <1>14
     DEF ScanNext, ScanRoutine, SettleLive, SettleFails, SettleEnd, durable
<1>16. CASE Finish \/ Fail \/ Crash \/ PowerLoss \/ Restart \/ UNCHANGED vars
  BY <1>2, <1>16 DEF Finish, Fail, Crash, PowerLoss, Restart, vars, durable
<1> QED BY <1>9, <1>10, <1>11, <1>15, <1>16 DEF Next

\* No step of the manager makes a claim.
LEMMA ClaimsShrink ==
  ASSUME TypeInv, ShaKey, [Next]_vars, NEW n \in Names, NEW k \in Keys, (k \in ClaimsOn(n))'
  PROVE  k \in ClaimsOn(n)
<1>1. CASE CanonicalName[k] = n
  BY <1>1, ClaimsOnIs
<1> QED BY <1>1, ClaimsOnIsNext, RecordClaims, FileClaims, RowClaims

\* The names that remove is to delete belong to packages already marked deleted.
DoomedInv ==
  pc = "unlink" =>
    \A n \in doomed : \E k \in Keys :
      /\ Recorded(k)
      /\ packages[k].status = "deleted"
      /\ n \in Held(k) \cup {packages[k].filename}

NameInv == TypeInv /\ ShaKey /\ OneClaim /\ DoomedInv

\* Names start out with one claim each, by NameAssumption.
LEMMA InitNameInv == Init => NameInv
<1> SUFFICES ASSUME NEW d \in Found, InitOver(d)
             PROVE  NameInv
  BY DEF Init
<1>1. Init
  BY DEF Init
<1>2. ASSUME NEW n \in Names, NEW k \in ClaimsOn(n)
      PROVE  CanonicalName[k] = n \/ (d[n] # None /\ k \in KeysOf(ShaOf(d[n].bytes)))
  BY <1>2 DEF InitOver, ClaimsOn, Recorded
<1>3. ASSUME NEW n \in Names, NEW k \in ClaimsOn(n), NEW x \in ClaimsOn(n)
      PROVE  k = x
  <2>1. k \in Keys /\ x \in Keys
    BY DEF ClaimsOn
  <2>2. CASE CanonicalName[k] = n
    BY <1>2, <2>1, <2>2, NameAssumption
  <2>3. CASE CanonicalName[k] # n
    <3>1. k \in KeysOf(ShaOf(d[n].bytes)) /\ d[n] # None
      BY <1>2, <2>3
    <3>2. CASE CanonicalName[x] = n
      BY <2>1, <3>1, <3>2, NameAssumption
    <3>3. CASE CanonicalName[x] # n
      BY <1>2, <3>1, <3>3 DEF KeysOf
    <3> QED BY <3>2, <3>3
  <2> QED BY <2>2, <2>3
<1>4. OneClaim
  BY <1>3 DEF OneClaim
<1>5. DoomedInv
  BY DEF InitOver, DoomedInv
<1> QED BY <1>1, <1>4, <1>5, InitTypeInv, InitShaKey DEF NameInv

\* Claims never grow, so they stay apart.
LEMMA StepOneClaim ==
  ASSUME TypeInv, ShaKey, OneClaim, [Next]_vars
  PROVE  OneClaim'
<1> SUFFICES ASSUME NEW n \in Names, NEW k \in (ClaimsOn(n))', NEW x \in (ClaimsOn(n))'
             PROVE  k = x
  BY DEF OneClaim
<1>1. k \in Keys /\ x \in Keys
  BY DEF ClaimsOn
<1>2. k \in ClaimsOn(n) /\ x \in ClaimsOn(n)
  BY <1>1, ClaimsShrink
<1> QED BY <1>2 DEF OneClaim

\* Marking comes before deleting, and nothing else happens in between.
LEMMA StepDoomedInv ==
  ASSUME TypeInv, DoomedInv, [Next]_vars
  PROVE  DoomedInv'
<1> USE DEF TypeInv
<1>1. ASSUME pc' # "unlink"
      PROVE  DoomedInv'
  BY <1>1 DEF DoomedInv
<1>2. ASSUME UNCHANGED <<pc, packages, files>>, doomed' \subseteq doomed
      PROVE  DoomedInv'
  BY <1>2 DEF DoomedInv, Recorded, Held
<1>3. ASSUME NEW by \in Actors, NEW targets \in SUBSET Keys,
             \A k \in targets : Recorded(k), MarkDeleted(targets, by), UNCHANGED files
      PROVE  DoomedInv'
  <2> SUFFICES ASSUME NEW n \in doomed'
               PROVE  \E k \in Keys : /\ Recorded(k)'
                                      /\ packages'[k].status = "deleted"
                                      /\ n \in Held(k)' \cup {packages'[k].filename}
    BY DEF DoomedInv
  <2>1. PICK k \in targets : n \in Held(k) \cup {packages[k].filename}
    BY <1>3 DEF MarkDeleted, NamesOf
  <2>2. Recorded(k)' /\ packages'[k].filename = packages[k].filename
    BY <1>3, MarkTypes
  <2>3. packages'[k].status = "deleted"
    BY <1>3 DEF MarkDeleted, As
  <2>4. Held(k)' = Held(k)
    BY <1>3 DEF Held
  <2> QED BY <2>1, <2>2, <2>3, <2>4
<1>4. ASSUME NEW e \in Exts, NEW v \in Versions, DeleteVersions(e, v)
      PROVE  DoomedInv'
  BY <1>3, <1>4 DEF DeleteVersions, Live, Actors
<1>5. ASSUME NEW e \in Exts, Trim(e)
      PROVE  DoomedInv'
  <2>1. CASE Beyond(e) = {}
    BY <1>2, <1>5, <2>1 DEF Trim
  <2>2. CASE Beyond(e) # {}
    BY <1>3, <1>5, <2>2 DEF Trim, Beyond, Live, Actors
  <2> QED BY <2>1, <2>2
<1>6. CASE UploadNext
  BY <1>1, <1>6 DEF UploadNext, Journal, Duplicate, Link, Flush, Publish, Receipt
<1>7. CASE DeleteNext
  BY <1>1, <1>2, <1>4, <1>7 DEF DeleteNext, Unlink, ForgetFiles
<1>8. CASE LimitNext
  BY <1>1, <1>5, <1>8 DEF LimitNext, SetLibraryLimit, SetExtensionLimit
<1>9. CASE ScanNext
  BY <1>1, <1>9
     DEF ScanNext, ScanFull, ScanRoutine, ScanAdopt, StartScan, VerifyUnread, VerifyRead,
         Listed, DropVanished, SettleLive, SettleDeleted, SettleStep, SettleFails,
         SettleEnd, Abandon, Release
<1>10. CASE Finish \/ Fail \/ Crash \/ PowerLoss
  BY <1>1, <1>10 DEF Finish, Fail, Crash, PowerLoss, Abandon, Release
<1>11. CASE Restart \/ UNCHANGED vars
  BY <1>2, <1>11 DEF Restart, vars, durable, volatile
<1> QED BY <1>6, <1>7, <1>8, <1>9, <1>10, <1>11 DEF Next

\* Together the parts are inductive.
LEMMA StepNameInv == NameInv /\ [Next]_vars => NameInv'
<1>1. [Next]_vars => [AnyNext]_vars
  BY DEF AnyNext
<1> QED BY <1>1, StepTypeInv, StepShaKey, StepOneClaim, StepDoomedInv DEF NameInv

\* While the manager is the directory's only writer, every file name belongs to
\* one package: deleting by name, as remove does, cannot reach another's file.
THEOREM NamesAreDisjoint == Spec => []OneClaim
<1>1. NameInv => OneClaim
  BY DEF NameInv
<1>2. NameInv /\ [Next /\ ~Orphans]_vars => NameInv'
  BY StepNameInv
<1> QED BY <1>1, <1>2, InitNameInv, PTL DEF Spec

\* No step of the manager deletes a file whose package is not marked deleted.
LEMMA StepDeletes ==
  ASSUME NameInv, [Next]_vars, ~PowerLoss, NEW n \in Names,
         disk[n] # None, disk[n].bytes \in Contents, disk'[n] = None
  PROVE  LET r == packages[KeyOf[disk[n].bytes]] IN r # None /\ r.status = "deleted"
<1> DEFINE x == KeyOf[disk[n].bytes]
<1> USE InventoryAssumption DEF NameInv, TypeInv
<1>1. x \in ClaimsOn(n)
  BY ClaimsOnIs DEF ByFile, KeysOf, ShaOf, Bytes
<1>2. ASSUME NEW k \in Keys, Recorded(k), packages[k].status = "deleted",
             n \in Held(k) \cup {packages[k].filename}
      PROVE  Recorded(x) /\ packages[x].status = "deleted"
  <2>1. k \in ClaimsOn(n)
    BY <1>2, ClaimsOnIs DEF ByRecord, ByRow, Held
  <2> QED BY <1>1, <1>2, <2>1 DEF OneClaim
<1>3. ~UNCHANGED disk
  OBVIOUS
<1>4. ASSUME NEW m \in Names, Unlink(m)
      PROVE  Recorded(x) /\ packages[x].status = "deleted"
  <2>1. n = m
    BY <1>3, <1>4 DEF Unlink, DeleteFiles
  <2> QED BY <1>2, <1>4, <2>1 DEF Unlink, DoomedInv
<1>5. ASSUME NEW k \in Keys, Recorded(k), ~Live(k), n \in Leftovers(k)
      PROVE  Recorded(x) /\ packages[x].status = "deleted"
  BY <1>2, <1>5 DEF Leftovers, Live
<1>6. ASSUME NEW k \in Keys, SettleDeleted(k)
      PROVE  Recorded(x) /\ packages[x].status = "deleted"
  <2>1. Recorded(k) /\ n \in Leftovers(k)
    BY <1>3, <1>6 DEF SettleDeleted, DeleteFiles
  <2> QED BY <1>5, <1>6, <2>1 DEF SettleDeleted
<1>7. CASE SettleFails
  <2> DEFINE batch == {k \in dirty : Recorded(k) /\ ~Live(k)}
  <2>1. PICK some \in SUBSET UNION {Leftovers(k) : k \in batch} : DeleteFiles(some)
    BY <1>7 DEF SettleFails
  <2>2. n \in some
    BY <1>3, <2>1 DEF DeleteFiles
  <2>3. PICK k \in batch : n \in Leftovers(k)
    BY <2>2
  <2>4. k \in Keys
    BY DEF TypeOK
  <2> QED BY <1>5, <2>3, <2>4 DEF Recorded
<1>8. ~Link
  <2>1. ASSUME Link
        PROVE  FALSE
    <3>1. cur \in Contents /\ Recorded(KeyOf[cur])
      BY <2>1 DEF Link, UploadInv
    <3>2. PICK t \in Times :
            disk' = [disk EXCEPT ![packages[KeyOf[cur]].filename] = [bytes |-> cur, mtime |-> t]]
      BY <2>1 DEF Link, FreshTimes
    <3>3. [bytes |-> cur, mtime |-> t] \in DiskFiles
      BY <3>1 DEF DiskFiles, Bytes
    <3> QED BY <3>2, <3>3 DEF TypeOK
  <2> QED BY <2>1
<1>9. CASE UploadNext
  BY <1>3, <1>8, <1>9 DEF UploadNext, Journal, Duplicate, Flush, Publish, Receipt
<1>10. CASE DeleteNext
  BY <1>3, <1>4, <1>10 DEF DeleteNext, DeleteVersions, ForgetFiles, Recorded
<1>11. CASE LimitNext
  BY <1>3, <1>11 DEF LimitNext, SetLibraryLimit, SetExtensionLimit, Trim
<1>12. CASE ScanNext
  BY <1>3, <1>6, <1>7, <1>12
     DEF ScanNext, ScanFull, ScanRoutine, ScanAdopt, StartScan, VerifyUnread, VerifyRead,
         Listed, DropVanished, SettleLive, SettleEnd, durable, Recorded
<1>13. CASE Finish \/ Fail \/ Crash \/ Restart \/ UNCHANGED vars
  BY <1>3, <1>13 DEF Finish, Fail, Crash, Restart, vars, durable
<1> QED BY <1>9, <1>10, <1>11, <1>12, <1>13 DEF Next

\* Every VSIX that the manager removes, in remove or in a scan's clean-up of an
\* interrupted deletion, belongs to a package whose record already says deleted.
THEOREM DeletesAreRecorded == Spec => DeletesOnlyDeleted
<1>1. NameInv /\ [Next /\ ~Orphans]_vars =>
        \A n \in Names :
          Removes(n) /\ disk[n].bytes \in Contents =>
            LET r == packages[KeyOf[disk[n].bytes]] IN r # None /\ r.status = "deleted"
  BY StepDeletes DEF Removes, PowerLoss
<1>2. NameInv /\ [Next /\ ~Orphans]_vars => NameInv'
  BY StepNameInv
<1> QED BY <1>1, <1>2, InitNameInv, PTL DEF Spec, DeletesOnlyDeleted

-----------------------------------------------------------------------------
(* Truth.  What the records say of the directory rests on the rows of      *)
(* table files: a row that a scan would trust is right about the file      *)
(* under its name, the one a power failure would bring back included.      *)

\* Two files of one name and time are the same: the one that is there, and the one that a power
\* failure would bring back.
TimesInv ==
  \A n \in Names :
    /\ disk[n] # None
    /\ synced[n] # None
    /\ disk[n].mtime = synced[n].mtime
    => disk[n].bytes = synced[n].bytes

\* A row with a file's size and time has its identity.
Honest(n, f) ==
  /\ f # None
  /\ files[n] # None
  /\ files[n].size = SizeOf[f.bytes]
  /\ files[n].mtime = f.mtime
  => files[n].sha = ShaOf(f.bytes)
HonestInv == \A n \in Names : Honest(n, disk[n]) /\ Honest(n, synced[n])

\* A row read, or trusted, in this scan.
Right(n) == files[n] # None /\ files[n].sha = ShaOf(disk[n].bytes)
\* What a scan has established so far.
ListingInv ==
  /\ pc = "walk" => \A n \in Names \ unlisted : disk[n] # None => Right(n)
  /\ pc = "settle" =>
       \A n \in Names : /\ files[n] # None => disk[n] # None
                        /\ disk[n] # None => Right(n)

\* What is true of rows and files unless a scan trusts a file by its size that is not the
\* record's from which its row was adopted.
RowTruth == NameInv /\ TimesInv /\ HonestInv /\ ListingInv
Misled == \E n \in Names : TrustsBySize(n)

\* Initially nothing is recorded, remembered or deleted.
LEMMA InitRowTruth == Init => RowTruth
<1> SUFFICES ASSUME NEW d \in Found, InitOver(d)
             PROVE  RowTruth
  BY DEF Init
<1>1. Init
  BY DEF Init
<1> QED BY <1>1, InitNameInv
        DEF RowTruth, InitOver, TimesInv, HonestInv, Honest, ListingInv

\* What publishing makes of a name's row.
LEMMA PublishRow ==
  ASSUME TypeOK, NEW k \in Keys, Recorded(k), PublishRecord(k),
         disk[packages[k].filename] # None, disk[packages[k].filename].bytes = packages[k].sha
  PROVE  LET n == packages[k].filename IN
           /\ files' = [files EXCEPT ![n] = RowFor(disk[n])]
           /\ disk[n] \in DiskFiles
<1> DEFINE n == packages[k].filename
<1>1. n \in Names
  BY RecordedIsRecord
<1>2. disk[n] \in DiskFiles
  BY <1>1 DEF TypeOK
<1>3. disk[n] = [bytes |-> packages[k].sha, mtime |-> disk[n].mtime]
  BY <1>2 DEF DiskFiles
<1> QED BY <1>2, <1>3 DEF PublishRecord, RowFor

\* How a step may change a name's row.
RowSeen(n) == disk[n] # None /\ files'[n] = RowFor(disk[n])
RowTrusted(n) ==
  /\ VerifyUnread(n)
  /\ disk[n] # None
  /\ Trusts(n)
  /\ files'[n] # None /\ files'[n].sha = files[n].sha /\ files'[n].mtime = disk[n].mtime
RowAdopted(n) ==
  /\ ScanAdopt
  /\ files[n] = None
  /\ \E k \in Keys : /\ Stored(k)
                    /\ packages[k].filename = n
                    /\ files'[n] = AdoptedRow(packages[k].sha)
RowStep(n) ==
  \/ files'[n] \in {files[n], None}
  \/ /\ RowSeen(n) \/ RowTrusted(n) \/ RowAdopted(n)
     /\ disk'[n] = disk[n] /\ synced'[n] = synced[n]

\* Every step changes a row in one of these ways.
LEMMA StepRow ==
  ASSUME TypeInv, [Next]_vars, NEW n \in Names
  PROVE  RowStep(n)
<1> USE InventoryAssumption DEF TypeInv
<1>1. CASE UNCHANGED files
  BY <1>1 DEF RowStep
<1>2. ASSUME NEW k \in Keys, Recorded(k), PublishRecord(k), UNCHANGED <<disk, synced>>,
             disk[packages[k].filename] # None,
             disk[packages[k].filename].bytes = packages[k].sha
      PROVE  RowStep(n)
  <2>1. files' = [files EXCEPT ![packages[k].filename] = RowFor(disk[packages[k].filename])]
    BY <1>2, PublishRow
  <2>2. CASE n = packages[k].filename
    BY <1>2, <2>1, <2>2 DEF RowStep, RowSeen, TypeOK
  <2>3. CASE n # packages[k].filename
    BY <2>1, <2>3 DEF RowStep, TypeOK
  <2> QED BY <2>2, <2>3
<1>3. CASE Publish
  <2>1. /\ Recorded(KeyOf[cur]) /\ cur \in Contents
        /\ packages[KeyOf[cur]].sha = cur
        /\ disk[packages[KeyOf[cur]].filename] # None
        /\ disk[packages[KeyOf[cur]].filename].bytes = cur
    BY <1>3 DEF Publish, UploadInv
  <2> QED BY <1>2, <1>3, <2>1 DEF Publish
<1>4. ASSUME NEW c \in Offered, NEW i \in IdemKeys \cup {None}, Duplicate(c, i)
      PROVE  RowStep(n)
  BY <1>2, <1>4 DEF Duplicate, Admitted
<1>5. CASE ForgetFiles
  BY <1>5 DEF ForgetFiles, RowStep
<1>6. CASE ScanFull
  BY <1>6 DEF ScanFull, RowStep
<1>7. CASE ScanAdopt
  <2>1. CASE Adopted(n) = {}
    BY <1>7, <2>1 DEF ScanAdopt, RowStep
  <2>2. CASE Adopted(n) # {}
    <3> DEFINE k == CHOOSE x \in Claims(n) : TRUE
    <3>1. k \in Claims(n) /\ files[n] = None
      BY <2>2 DEF Adopted
    <3>2. files'[n] = AdoptedRow(packages[k].sha) /\ disk' = disk
      BY <1>7, <2>2 DEF ScanAdopt, StartScan
    <3>3. k \in Keys /\ Stored(k) /\ packages[k].filename = n
      BY <3>1 DEF Claims, Stored
    <3> HIDE DEF k
    <3> QED BY <1>7, <3>1, <3>2, <3>3 DEF RowStep, RowAdopted, ScanAdopt, StartScan
  <2> QED BY <2>1, <2>2
<1>8. ASSUME NEW m \in Names, VerifyUnread(m)
      PROVE  RowStep(n)
  <2>1. CASE disk[m] = None \/ m # n
    BY <1>8, <2>1 DEF VerifyUnread, RowStep, TypeOK
  <2>2. CASE disk[m] # None /\ m = n
    <3>1. Trusts(n) /\ UNCHANGED <<disk, synced>>
      BY <1>8, <2>2 DEF VerifyUnread, Listed
    <3>2. files' = [files EXCEPT ![n] = [sha |-> files[n].sha, size |-> files[n].size,
                                         mtime |-> disk[n].mtime]]
      BY <1>8, <2>2 DEF VerifyUnread
    <3>3. files'[n] = [sha |-> files[n].sha, size |-> files[n].size, mtime |-> disk[n].mtime]
      BY <3>2 DEF TypeOK
    <3>4. files'[n] \in Rows
      BY <2>2, <3>1, <3>3 DEF Trusts, TypeOK, Rows, DiskFiles
    <3>5. RowTrusted(n)
      BY <1>8, <2>2, <3>1, <3>3, <3>4 DEF RowTrusted
    <3> QED BY <3>1, <3>5 DEF RowStep
  <2> QED BY <2>1, <2>2
<1>9. ASSUME NEW m \in Names, VerifyRead(m)
      PROVE  RowStep(n)
  BY <1>9 DEF VerifyRead, Listed, RowStep, RowSeen, TypeOK
<1>10. CASE DropVanished
  BY <1>10 DEF DropVanished, RowStep
<1>11. ASSUME NEW k \in Keys, SettleDeleted(k)
       PROVE  RowStep(n)
  BY <1>11 DEF SettleDeleted, RowStep
<1>12. CASE UploadNext
  BY <1>1, <1>3, <1>4, <1>12 DEF UploadNext, Journal, Link, Flush, Receipt
<1>13. CASE DeleteNext
  BY <1>1, <1>5, <1>13 DEF DeleteNext, DeleteVersions, Unlink
<1>14. CASE LimitNext
  BY <1>1, <1>14 DEF LimitNext, SetLibraryLimit, SetExtensionLimit, Trim
<1>15. CASE ScanNext
  BY <1>1, <1>6, <1>7, <1>8, <1>9, <1>10, <1>11, <1>15
     DEF ScanNext, ScanRoutine, SettleLive, SettleFails, SettleEnd, durable
<1>16. CASE Finish \/ Fail \/ Crash \/ PowerLoss \/ Restart \/ UNCHANGED vars
  BY <1>1, <1>16 DEF Finish, Fail, Crash, PowerLoss, Restart, vars, durable
<1> QED BY <1>12, <1>13, <1>14, <1>15, <1>16 DEF Next

\* A file that is linked has a time of its own.
LEMMA StepTimesInv ==
  ASSUME TypeInv, TimesInv, [Next]_vars
  PROVE  TimesInv'
<1> SUFFICES ASSUME NEW n \in Names, disk'[n] # None, synced'[n] # None,
                    disk'[n].mtime = synced'[n].mtime
             PROVE  disk'[n].bytes = synced'[n].bytes
  BY DEF TimesInv
<1>1. CASE LinkStep(n)
  BY <1>1 DEF LinkStep, FreshTimes
<1> QED BY <1>1, StepFile DEF FileStep, FinalStep, DeleteStep, TimesInv

\* No step makes a row wrong that goes by its file's time.
LEMMA StepHonestInv ==
  ASSUME RowTruth, ~Misled, [Next]_vars
  PROVE  HonestInv'
<1> SUFFICES ASSUME NEW n \in Names
             PROVE  Honest(n, disk[n])' /\ Honest(n, synced[n])'
  BY DEF HonestInv
<1> USE InventoryAssumption DEF RowTruth, NameInv, TypeInv
<1>1. RowStep(n) /\ FileStep(n)
  BY StepRow, StepFile
<1>2. CASE LinkStep(n)
  BY <1>2 DEF LinkStep, FreshTimes, HonestInv, Honest
<1>3. CASE FinalStep(n) \/ DeleteStep(n)
  BY <1>3 DEF FinalStep, DeleteStep, HonestInv, Honest
<1>4. CASE disk'[n] = disk[n] /\ synced'[n] = synced[n]
  <2>1. CASE files'[n] \in {files[n], None}
    BY <1>4, <2>1 DEF HonestInv, Honest
  <2>2. ASSUME disk[n] # None, files'[n].mtime = disk[n].mtime, files'[n].sha = ShaOf(disk[n].bytes)
        PROVE  Honest(n, disk[n])' /\ Honest(n, synced[n])'
    BY <1>4, <2>2 DEF TimesInv, Honest
  <2>3. CASE RowSeen(n)
    BY <2>2, <2>3 DEF RowSeen, RowFor
  <2>4. CASE RowTrusted(n)
    <3>1. files[n].sha = ShaOf(disk[n].bytes)
      BY <2>4 DEF RowTrusted, Trusts, Misled, TrustsBySize, HonestInv, Honest
    <3> QED BY <2>2, <2>4, <3>1 DEF RowTrusted
  <2>5. ASSUME NEW k \in Keys, files'[n] = AdoptedRow(packages[k].sha)
        PROVE  Honest(n, disk[n])' /\ Honest(n, synced[n])'
    <3>1. /\ disk[n] # None => disk[n].mtime \in Times
          /\ synced[n] # None => synced[n].mtime \in Times
      BY DEF TypeOK, DiskFiles
    <3> QED BY <1>4, <2>5, <3>1 DEF AdoptedRow, Honest
  <2> QED BY <1>1, <2>1, <2>3, <2>4, <2>5 DEF RowStep, RowAdopted
<1> QED BY <1>1, <1>2, <1>3, <1>4 DEF FileStep

\* A scan goes on from what it has established.
LEMMA StepListingInv ==
  ASSUME RowTruth, ~Misled, [Next]_vars
  PROVE  ListingInv'
<1> USE InventoryAssumption DEF RowTruth, NameInv, TypeInv
<1>1. ASSUME pc' \notin {"walk", "settle"}
      PROVE  ListingInv'
  BY <1>1 DEF ListingInv
<1>2. ASSUME UNCHANGED <<pc, disk, files, unlisted>>
      PROVE  ListingInv'
  BY <1>2 DEF ListingInv, Right
<1>3. ASSUME pc' = "walk", unlisted' = Names
      PROVE  ListingInv'
  BY <1>3 DEF ListingInv
<1>4. ASSUME NEW n \in Names, Listed(n), disk[n] # None => Right(n)',
             \A m \in Names : m # n => files'[m] = files[m]
      PROVE  ListingInv'
  BY <1>4 DEF Listed, ListingInv, Right
<1>5. ASSUME NEW n \in Names, VerifyUnread(n)
      PROVE  ListingInv'
  <2>1. CASE disk[n] = None
    BY <1>4, <1>5, <2>1 DEF VerifyUnread
  <2>2. CASE disk[n] # None
    <3>1. Trusts(n) /\ files[n].sha = ShaOf(disk[n].bytes)
      BY <1>5, <2>2 DEF VerifyUnread, HonestInv, Honest, Trusts, Misled, TrustsBySize
    <3>2. files' = [files EXCEPT ![n] = [sha |-> files[n].sha, size |-> files[n].size,
                                         mtime |-> disk[n].mtime]]
      BY <1>5, <2>2 DEF VerifyUnread
    <3>3. [sha |-> files[n].sha, size |-> files[n].size, mtime |-> disk[n].mtime] \in Rows
      BY <2>2, <3>1 DEF Trusts, TypeOK, Rows, DiskFiles
    <3>4. Right(n)'
      BY <1>5, <3>1, <3>2, <3>3 DEF VerifyUnread, Listed, Right, TypeOK
    <3> QED BY <1>4, <1>5, <3>2, <3>4 DEF VerifyUnread, TypeOK
  <2> QED BY <2>1, <2>2
<1>6. ASSUME NEW n \in Names, VerifyRead(n)
      PROVE  ListingInv'
  <2>1. files' = [files EXCEPT ![n] = RowFor(disk[n])] /\ Listed(n) /\ disk[n] # None
    BY <1>6 DEF VerifyRead
  <2>2. RowFor(disk[n]) \in Rows
    BY <2>1 DEF RowFor, ShaOf, Rows, DiskFiles, Bytes, TypeOK
  <2>3. Right(n)'
    BY <2>1, <2>2 DEF Listed, Right, RowFor, TypeOK
  <2> QED BY <1>4, <2>1, <2>3 DEF TypeOK
<1>7. CASE DropVanished
  <2>1. \A n \in Names : files'[n] = (IF files[n] # None /\ disk[n] = None THEN None ELSE files[n])
    BY <1>7 DEF DropVanished
  <2>2. \A n \in Names : disk[n] # None => Right(n)
    BY <1>7 DEF DropVanished, ListingInv
  <2> QED BY <1>7, <2>1, <2>2 DEF DropVanished, ListingInv, Right
<1>8. ASSUME NEW k \in Keys, SettleLive(k)
      PROVE  ListingInv'
  BY <1>2, <1>8 DEF SettleLive, SettleStep
<1>9. ASSUME NEW k \in Keys, SettleDeleted(k)
      PROVE  ListingInv'
  BY <1>9 DEF SettleDeleted, SettleStep, DeleteFiles, ListingInv, Right
<1>10. CASE UploadNext
  BY <1>1, <1>10 DEF UploadNext, Journal, Duplicate, Link, Flush, Publish, Receipt
<1>11. CASE DeleteNext
  BY <1>1, <1>11 DEF DeleteNext, DeleteVersions, MarkDeleted, Unlink, ForgetFiles
<1>12. CASE LimitNext
  BY <1>1, <1>12 DEF LimitNext, SetLibraryLimit, SetExtensionLimit, Trim, MarkDeleted
<1>13. CASE ScanNext
  BY <1>1, <1>3, <1>5, <1>6, <1>7, <1>8, <1>9, <1>13
     DEF ScanNext, ScanFull, ScanRoutine, ScanAdopt, StartScan, SettleFails, SettleEnd,
         Abandon, Release
<1>14. CASE Finish \/ Fail \/ Crash \/ PowerLoss
  BY <1>1, <1>14 DEF Finish, Fail, Crash, PowerLoss, Abandon, Release
<1>15. CASE Restart \/ UNCHANGED vars
  BY <1>2, <1>15 DEF Restart, vars, durable, volatile
<1> QED BY <1>10, <1>11, <1>12, <1>13, <1>14, <1>15 DEF Next

\* Together the parts are inductive, as far as no scan trusts the wrong file by its size.
LEMMA StepRowTruth ==
  ASSUME RowTruth, ~Misled, [Next]_vars
  PROVE  RowTruth'
BY StepNameInv, StepTimesInv, StepHonestInv, StepListingInv DEF RowTruth, NameInv

-----------------------------------------------------------------------------
(* One writer.  While nobody else writes to the directory, and no upload's *)
(* link is left where a power failure may bring another file back, no row  *)
(* that was adopted is wrong either, and no stored package's file has      *)
(* other bytes than its own, now or after a power failure.                 *)

\* What a power failure would bring back is what is there, but for a name that an upload has
\* just linked.
NoForeign ==
  \A n \in Names :
    disk[n] # None /\ synced[n] # None =>
      \/ disk[n].bytes = synced[n].bytes
      \/ pc = "flush" /\ packages[KeyOf[cur]].filename = n

Holds(f, k) == f = None \/ f.bytes = packages[k].sha
\* Under a stored package's name there is its file, or nothing, and nothing comes back.
StoredRight ==
  \A k \in Keys :
    Stored(k) => LET n == packages[k].filename IN
                   /\ Holds(disk[n], k) /\ Holds(synced[n], k)
                   /\ disk[n] = None => synced[n] = None

\* A row that was adopted holds what some record says, and so does the file, if any.
AdoptedInv ==
  \A n \in Names :
    files[n] # None /\ files[n].mtime = UnknownTime =>
      \E k \in Keys : /\ Recorded(k) /\ files[n].sha = packages[k].sha
                       /\ Holds(disk[n], k) /\ Holds(synced[n], k)

TruthInv == RowTruth /\ NoForeign /\ StoredRight /\ AdoptedInv

\* Initially there is no record, and nothing was linked or deleted.
LEMMA InitTruthInv == Init => TruthInv
<1> SUFFICES ASSUME NEW d \in Found, InitOver(d)
             PROVE  TruthInv
  BY DEF Init
<1>1. Init
  BY DEF Init
<1> QED BY <1>1, InitRowTruth
        DEF TruthInv, InitOver, NoForeign, StoredRight, Stored, AdoptedInv, Recorded

\* So no scan is misled.
LEMMA TruthNotMisled == TruthInv => ~Misled
<1> SUFFICES ASSUME TruthInv, NEW n \in Names, TrustsBySize(n)
             PROVE  FALSE
  BY DEF Misled
<1>1. /\ disk[n] # None /\ files[n] # None
      /\ files[n].mtime = UnknownTime /\ files[n].sha # ShaOf(disk[n].bytes)
  BY DEF TrustsBySize, VerifyUnread, Trusts
<1>2. PICK k \in Keys : Recorded(k) /\ files[n].sha = packages[k].sha /\ Holds(disk[n], k)
  BY <1>1 DEF TruthInv, AdoptedInv
<1>3. packages[k].sha \in Contents
  BY <1>2, RecordedIsRecord DEF TruthInv, RowTruth, NameInv, TypeInv
<1> QED BY <1>1, <1>2, <1>3 DEF Holds, ShaOf

\* While a package is stored nobody links a file under its name, and its own is not deleted.
LEMMA StepStoredFile ==
  ASSUME NameInv, [Next]_vars, NEW k \in Keys, Stored(k), Holds(disk[packages[k].filename], k)
  PROVE  LET n == packages[k].filename IN
           FinalStep(n) \/ (disk'[n] = disk[n] /\ synced'[n] = synced[n])
<1> DEFINE n == packages[k].filename
<1> USE InventoryAssumption DEF NameInv, TypeInv
<1>1. Recorded(k) /\ n \in Names /\ packages[k].sha \in Contents /\ KeyOf[packages[k].sha] = k
  BY RecordedIsRecord DEF Stored, ShaKey
<1>2. ~LinkStep(n)
  <2> SUFFICES ASSUME LinkStep(n)
               PROVE  FALSE
    OBVIOUS
  <2>1. /\ KeyOf[cur] \in Keys /\ Recorded(KeyOf[cur]) /\ packages[KeyOf[cur]].filename = n
        /\ packages[KeyOf[cur]].status = "pending"
    BY DEF LinkStep, Link, UploadInv
  <2>2. k \in ClaimsOn(n) /\ KeyOf[cur] \in ClaimsOn(n)
    BY <1>1, <2>1, ClaimsOnIs DEF ByRecord
  <2>3. k = KeyOf[cur]
    BY <1>1, <2>2 DEF OneClaim
  <2> QED BY <2>1, <2>3 DEF Stored
<1>3. CASE DeleteStep(n) /\ disk[n] # None
  <2>1. PowerLoss
    BY <1>1, <1>3, StepDeletes DEF DeleteStep, Stored, Holds
  <2> QED BY <1>1, <2>1, StepFinal
<1> QED BY <1>1, <1>2, <1>3, StepFile DEF FileStep, DeleteStep

\* An upload that has linked its file flushes the directory, unless it fails or is killed.
LEMMA OnlyFlush ==
  ASSUME [Next]_vars, pc = "flush"
  PROVE  Flush \/ Fail \/ Crash \/ PowerLoss \/ Restart \/ UNCHANGED vars
<1>1. UploadNext => Flush
  BY DEF UploadNext, Journal, Duplicate, Admitted, Ready, Idle, Link, Publish, Receipt
<1>2. ~DeleteNext /\ ~LimitNext
  BY DEF DeleteNext, DeleteVersions, Unlink, ForgetFiles, LimitNext, SetLibraryLimit,
         SetExtensionLimit, Trim, Ready, Idle
<1>3. ~ScanNext
  BY DEF ScanNext, ScanFull, ScanRoutine, ScanAdopt, StartScan, Idle, VerifyUnread, VerifyRead,
         Listed, DropVanished, SettleLive, SettleDeleted, SettleFails, SettleStep, SettleEnd
<1>4. ~Finish
  BY DEF Finish
<1> QED BY <1>1, <1>2, <1>3, <1>4 DEF Next

\* What a step leaves under a name that is no upload's.
LEMMA StepNoForeign ==
  ASSUME NameInv, NoForeign, [Next /\ ~Orphans]_vars
  PROVE  NoForeign'
<1> SUFFICES ASSUME NEW n \in Names, disk'[n] # None, synced'[n] # None
             PROVE  \/ disk'[n].bytes = synced'[n].bytes
                    \/ pc' = "flush" /\ packages'[KeyOf[cur']].filename = n
  BY DEF NoForeign
<1> USE DEF NameInv, TypeInv
<1>1. CASE LinkStep(n)
  BY <1>1 DEF LinkStep, Link
<1>2. CASE FinalStep(n) \/ DeleteStep(n)
  BY <1>2 DEF FinalStep, DeleteStep
<1>3. CASE disk'[n] = disk[n] /\ synced'[n] = synced[n] /\ ~FinalStep(n)
  <2>1. CASE pc = "flush" /\ packages[KeyOf[cur]].filename = n
    <3>1. CASE Fail \/ Crash
      <4>1. ~Overlinked
        BY <2>1, <3>1 DEF Orphans, Fail, Crash, Abandon, Release, vars, volatile
      <4> QED BY <1>3, <2>1, <4>1 DEF Overlinked, UploadInv
    <3>2. CASE Restart \/ UNCHANGED vars
      BY <2>1, <3>2 DEF Restart, vars, durable, volatile
    <3>3. ~Flush /\ ~PowerLoss
      BY <1>3, StepFinal
    <3> QED BY <2>1, <3>1, <3>2, <3>3, OnlyFlush
  <2>2. CASE disk[n].bytes = synced[n].bytes
    BY <1>3, <2>2
  <2> QED BY <1>3, <2>1, <2>2 DEF NoForeign
<1> QED BY <1>1, <1>2, <1>3, StepFile DEF FileStep

\* A record that becomes stored, or gets another name, has its file there.
LEMMA StepStored ==
  ASSUME RowTruth, [Next]_vars, NEW k \in Keys, Stored(k)'
  PROVE  \/ Stored(k) /\ packages'[k].filename = packages[k].filename
         \/ UNCHANGED <<disk, synced>> /\ pc # "flush" /\ IsThere(k)'
<1> DEFINE Kept == Stored(k) /\ packages'[k].filename = packages[k].filename
           Lands == UNCHANGED <<disk, synced>> /\ pc # "flush" /\ IsThere(k)'
<1> SUFFICES Kept \/ Lands
  OBVIOUS
<1> USE InventoryAssumption DEF RowTruth, NameInv, TypeInv, Stored
<1>1. ASSUME packages'[k] = packages[k]
      PROVE  Kept
  BY <1>1 DEF Recorded
<1>2. CASE UNCHANGED packages
  BY <1>1, <1>2
<1>3. ASSUME NEW c \in Offered, NEW i \in IdemKeys \cup {None}, Journal(c, i)
      PROVE  Kept
  BY <1>1, <1>3 DEF Journal, Journaled, Recorded, TypeOK
<1>4. ASSUME NEW x \in Keys, Recorded(x), PublishRecord(x), UNCHANGED <<disk, synced>>,
             pc # "flush", disk[packages[x].filename] # None,
             disk[packages[x].filename].bytes = packages[x].sha
      PROVE  Kept \/ Lands
  BY <1>1, <1>4 DEF PublishRecord, As, Recorded, TypeOK, IsThere
<1>5. ASSUME NEW targets, NEW by, MarkDeleted(targets, by)
      PROVE  Kept
  BY <1>1, <1>5 DEF MarkDeleted, As, Recorded, TypeOK
<1>6. ASSUME NEW n \in Names, VerifyRead(n)
      PROVE  Kept
  <2> DEFINE sha == ShaOf(disk[n].bytes)
  <2>1. CASE sha = None
    BY <1>1, <1>6, <2>1 DEF VerifyRead
  <2>2. CASE sha # None
    <3>1. sha \in Contents /\ packages' = Inventoried(KeyOf[sha], n, sha)
      BY <1>6, <2>2 DEF VerifyRead, ShaOf
    <3>2. CASE ~Recorded(KeyOf[sha])
      BY <1>1, <3>1, <3>2 DEF Inventoried, Recorded, TypeOK
    <3>3. CASE Recorded(KeyOf[sha])
      BY <1>1, <3>1, <3>3 DEF Inventoried, As, Recorded, TypeOK
    <3> QED BY <3>2, <3>3
  <2> QED BY <2>1, <2>2
<1>7. ASSUME NEW x \in Keys, SettleLive(x)
      PROVE  Kept \/ Lands
  <2>1. packages' = [packages EXCEPT ![x] = Settled(x)] /\ UNCHANGED <<disk, synced>> /\ pc = "settle"
    BY <1>7 DEF SettleLive, SettleStep
  <2>2. CASE k # x
    BY <1>1, <2>1, <2>2 DEF Recorded, TypeOK
  <2>3. CASE k = x
    <3>1. packages'[k] = Settled(k) /\ Settled(k).status = "stored"
      BY <2>1, <2>3 DEF TypeOK
    <3>2. Held(k) # {} /\ \A n \in Held(k) : files[n].sha = packages[k].sha
      BY <3>1 DEF Settled, As
    <3>3. Settled(k).filename \in Held(k) /\ Settled(k).sha = packages[k].sha
      <4>1. (CHOOSE n \in Held(k) : TRUE) \in Held(k)
        BY <3>2
      <4> QED BY <3>2, <4>1 DEF Settled
    <3>4. PICK n \in Held(k) : n = Settled(k).filename
      BY <3>3
    <3>5. n \in Names /\ files[n] # None
      BY DEF Held
    <3>6. disk[n] # None /\ ShaOf(disk[n].bytes) = packages[k].sha
      BY <2>1, <3>2, <3>5 DEF ListingInv, Right
    <3>7. packages[k].sha \in Contents
      BY <1>7, <2>3, RecordedIsRecord DEF SettleLive, Live
    <3>8. disk[n].bytes = packages[k].sha
      BY <3>6, <3>7 DEF ShaOf, Bytes
    <3> QED BY <2>1, <3>1, <3>3, <3>4, <3>6, <3>8 DEF IsThere
  <2> QED BY <2>2, <2>3
<1>8. CASE Publish
  <2>1. /\ Recorded(KeyOf[cur]) /\ cur \in Contents
        /\ packages[KeyOf[cur]].sha = cur
        /\ disk[packages[KeyOf[cur]].filename] # None
        /\ disk[packages[KeyOf[cur]].filename].bytes = cur
    BY <1>8 DEF Publish, UploadInv
  <2>2. KeyOf[cur] \in Keys /\ PublishRecord(KeyOf[cur]) /\ UNCHANGED <<disk, synced>> /\ pc # "flush"
    BY <1>8, <2>1 DEF Publish
  <2> QED BY <1>4, <2>1, <2>2
<1>9. ASSUME NEW c \in Offered, NEW i \in IdemKeys \cup {None}, Duplicate(c, i)
      PROVE  Kept \/ Lands
  BY <1>4, <1>9 DEF Duplicate, Admitted, Ready, Idle
<1> HIDE DEF Kept, Lands
<1>10. CASE UploadNext
  BY <1>2, <1>3, <1>8, <1>9, <1>10 DEF UploadNext, Link, Flush, Receipt
<1>11. CASE DeleteNext
  BY <1>2, <1>5, <1>11 DEF DeleteNext, DeleteVersions, Unlink, ForgetFiles
<1>12. CASE LimitNext
  BY <1>2, <1>5, <1>12 DEF LimitNext, SetLibraryLimit, SetExtensionLimit, Trim
<1>13. CASE ScanNext
  BY <1>2, <1>6, <1>7, <1>13
     DEF ScanNext, ScanFull, ScanRoutine, ScanAdopt, StartScan, VerifyUnread, DropVanished,
         SettleDeleted, SettleFails, SettleEnd, durable
<1>14. CASE Finish \/ Fail \/ Crash \/ PowerLoss \/ Restart \/ UNCHANGED vars
  BY <1>2, <1>14 DEF Finish, Fail, Crash, PowerLoss, Restart, vars, durable
<1> QED BY <1>10, <1>11, <1>12, <1>13, <1>14 DEF Next

\* So what lies under a stored package's name stays right.
LEMMA StepStoredRight ==
  ASSUME TruthInv, [Next]_vars
  PROVE  StoredRight'
<1> SUFFICES ASSUME NEW k \in Keys, Stored(k)'
             PROVE  LET n == packages'[k].filename IN
                      /\ disk'[n] = None \/ disk'[n].bytes = packages'[k].sha
                      /\ synced'[n] = None \/ synced'[n].bytes = packages'[k].sha
                      /\ disk'[n] = None => synced'[n] = None
  BY DEF StoredRight, Holds
<1> USE DEF TruthInv, RowTruth
<1> DEFINE n == packages'[k].filename
<1>1. CASE Stored(k) /\ n = packages[k].filename
  <2>1. Holds(disk[n], k) /\ Holds(synced[n], k) /\ (disk[n] = None => synced[n] = None)
    BY <1>1 DEF StoredRight
  <2>2. packages'[k].sha = packages[k].sha
    BY <1>1, StepPinned DEF Pinned, Stored, NameInv, AnyNext
  <2>3. FinalStep(n) \/ (disk'[n] = disk[n] /\ synced'[n] = synced[n])
    BY <1>1, <2>1, StepStoredFile
  <2> QED BY <2>1, <2>2, <2>3 DEF FinalStep, Holds
<1>2. CASE UNCHANGED <<disk, synced>> /\ pc # "flush" /\ IsThere(k)'
  <2>1. n \in Names
    BY StepNameInv, RecordedIsRecordNext DEF Stored, NameInv, TypeInv
  <2> QED BY <1>2, <2>1 DEF IsThere, NoForeign
<1> QED BY <1>1, <1>2, StepStored

\* A row of unknown time goes on holding what its record says, and its file does.
LEMMA StepAdoptedInv ==
  ASSUME TruthInv, [Next]_vars
  PROVE  AdoptedInv'
<1> USE InventoryAssumption DEF TruthInv, RowTruth, NameInv, TypeInv
<1> SUFFICES ASSUME NEW n \in Names, files'[n] # None, files'[n].mtime = UnknownTime
             PROVE  \E k \in Keys :
                      /\ Recorded(k)' /\ files'[n].sha = packages'[k].sha
                      /\ disk'[n] = None \/ disk'[n].bytes = packages'[k].sha
                      /\ synced'[n] = None \/ synced'[n].bytes = packages'[k].sha
  BY DEF AdoptedInv, Holds
<1>1. RowStep(n) /\ FileStep(n) /\ [AnyNext]_vars
  BY StepRow, StepFile DEF AnyNext
<1>2. \A k \in Keys : Recorded(k) => Recorded(k)' /\ packages'[k].sha = packages[k].sha
  BY <1>1, StepPinned DEF Pinned, Recorded
<1>3. CASE files'[n] = files[n]
  <2>1. PICK k \in Keys : /\ Recorded(k) /\ files[n].sha = packages[k].sha
                          /\ Holds(disk[n], k) /\ Holds(synced[n], k)
    BY <1>3 DEF AdoptedInv
  <2>2. ASSUME LinkStep(n)
        PROVE  cur = packages[k].sha
    <3>1. /\ KeyOf[cur] \in Keys /\ Recorded(KeyOf[cur]) /\ packages[KeyOf[cur]].sha = cur
          /\ packages[KeyOf[cur]].filename = n
      BY <2>2 DEF LinkStep, Link, UploadInv
    <3>2. packages[k].sha \in Contents /\ KeyOf[packages[k].sha] = k
      BY <2>1, RecordedIsRecord DEF ShaKey
    <3>3. k \in KeysOf(files[n].sha)
      BY <2>1, <3>2 DEF KeysOf, Bytes
    <3>4. k \in ClaimsOn(n) /\ KeyOf[cur] \in ClaimsOn(n)
      BY <1>3, <3>1, <3>3, ClaimsOnIs DEF ByRecord, ByRow
    <3> QED BY <3>1, <3>4 DEF OneClaim
  <2>3. Holds(disk'[n], k) /\ Holds(synced'[n], k)
    <3>1. CASE LinkStep(n)
      BY <2>1, <2>2, <3>1 DEF LinkStep, Holds
    <3>2. CASE FinalStep(n) \/ DeleteStep(n)
      BY <2>1, <3>2 DEF FinalStep, DeleteStep, Holds
    <3> QED BY <1>1, <2>1, <3>1, <3>2 DEF FileStep
  <2>4. Recorded(k)' /\ packages'[k].sha = packages[k].sha
    BY <1>2, <2>1
  <2> QED BY <1>3, <2>1, <2>3, <2>4 DEF Holds
<1>4. disk[n] # None => disk[n].mtime # UnknownTime
  BY DEF TypeOK, DiskFiles
<1>5. ~RowSeen(n) /\ ~RowTrusted(n)
  BY <1>4 DEF RowSeen, RowFor, RowTrusted
<1>6. CASE RowAdopted(n) /\ disk'[n] = disk[n] /\ synced'[n] = synced[n]
  <2>1. PICK k \in Keys : /\ Stored(k) /\ packages[k].filename = n
                          /\ files'[n] = AdoptedRow(packages[k].sha)
    BY <1>6 DEF RowAdopted
  <2>2. Holds(disk[n], k) /\ Holds(synced[n], k)
    BY <2>1 DEF StoredRight
  <2> QED BY <1>2, <1>6, <2>1, <2>2 DEF AdoptedRow, Holds, Stored
<1> QED BY <1>1, <1>3, <1>5, <1>6 DEF RowStep

\* Together the parts are inductive.
LEMMA StepTruthInv == TruthInv /\ [Next /\ ~Orphans]_vars => TruthInv'
<1> SUFFICES ASSUME TruthInv, [Next /\ ~Orphans]_vars
             PROVE  TruthInv'
  OBVIOUS
<1>1. RowTruth'
  BY TruthNotMisled, StepRowTruth DEF TruthInv
<1> QED BY <1>1, StepNoForeign, StepStoredRight, StepAdoptedInv DEF TruthInv, RowTruth

\* A routine scan, which trusts a row whose size and modification time fit, or whose size if it
\* was adopted from a record, is never wrong to do so: while the manager is the only writer it
\* finds all that a full verification would.
THEOREM TrustedRowsAreRight == Spec => []RowsHonest
<1>1. TruthInv => RowsHonest
  <2> SUFFICES ASSUME TruthInv, NEW n \in Names, disk[n] # None, Trusts(n)
               PROVE  files[n].sha = ShaOf(disk[n].bytes)
    BY DEF RowsHonest
  <2>1. CASE files[n].mtime = disk[n].mtime
    BY <2>1 DEF TruthInv, RowTruth, HonestInv, Honest, Trusts
  <2>2. CASE files[n].mtime = UnknownTime
    <3>1. PICK k \in Keys : Recorded(k) /\ files[n].sha = packages[k].sha /\ Holds(disk[n], k)
      BY <2>2 DEF TruthInv, AdoptedInv, Trusts
    <3>2. packages[k].sha \in Contents
      BY <3>1, RecordedIsRecord DEF TruthInv, RowTruth, NameInv, TypeInv
    <3> QED BY <3>1, <3>2 DEF Holds, ShaOf
  <2> QED BY <2>1, <2>2 DEF Trusts
<1> QED BY <1>1, InitTruthInv, StepTruthInv, PTL DEF Spec

\* A stored package whose file is there keeps its name, as a scan has found the file.
LEMMA StepName ==
  ASSUME RowTruth, [Next]_vars, NEW k \in Keys, Stored(k), IsThere(k)
  PROVE  /\ packages'[k].filename = packages[k].filename
         /\ packages'[k].sha = packages[k].sha
<1> DEFINE n == packages[k].filename
<1> USE InventoryAssumption DEF RowTruth, NameInv, TypeInv
<1>1. Recorded(k) /\ n \in Names /\ packages[k].sha \in Contents /\ KeyOf[packages[k].sha] = k
  BY RecordedIsRecord DEF Stored, ShaKey
<1>2. Pinned(k)
  BY <1>1, StepPinned DEF AnyNext
<1>3. ASSUME SettleLive(k), packages'[k] = Settled(k)
      PROVE  packages'[k].filename = packages[k].filename
  <2>1. disk[n] # None /\ Right(n) /\ disk[n].bytes = packages[k].sha
    BY <1>1, <1>3 DEF SettleLive, SettleStep, ListingInv, IsThere
  <2>2. n \in Held(k)
    BY <1>1, <2>1 DEF Right, Held, KeysOf, ShaOf, Bytes
  <2> QED BY <1>3, <2>2 DEF Settled, As
<1> QED BY <1>2, <1>3 DEF Pinned

\* And only a power failure takes the file away, from a name that was not flushed.
LEMMA StepFilesLast ==
  ASSUME RowTruth, [Next]_vars, NEW k \in Keys, Stored(k), IsThere(k)
  PROVE  IsThere(k)' \/ (PowerLoss /\ packages[k].filename \in Unsynced)
<1> DEFINE n == packages[k].filename
<1>1. n \in Names
  BY RecordedIsRecord DEF Stored, RowTruth, NameInv, TypeInv
<1>2. FinalStep(n) \/ disk'[n] = disk[n]
  BY StepStoredFile DEF RowTruth, IsThere, Holds
<1>3. disk'[n] = disk[n] \/ (PowerLoss /\ n \in Unsynced)
  BY <1>1, <1>2 DEF FinalStep, Unsynced
<1> QED BY <1>3, StepName DEF IsThere

\* A stored package never loses its file while the machine runs, be the process killed or a step
\* failed wherever, and the machine's going down takes it only where no flush of the directory
\* has followed the link.
THEOREM FilesOutlast == Spec => FilesLast
<1>1. TruthInv /\ [Next /\ ~Orphans]_vars =>
        \A k \in Keys :
          Stored(k) /\ IsThere(k) /\ ~IsThere(k)' => PowerLoss /\ packages[k].filename \in Unsynced
  BY StepFilesLast DEF TruthInv
<1> QED BY <1>1, InitTruthInv, StepTruthInv, PTL DEF Spec, FilesLast
=============================================================================
