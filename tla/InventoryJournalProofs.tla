----------------------- MODULE InventoryJournalProofs -----------------------
(***************************************************************************)
(* Proofs, for every set of packages, names and limits, that table dirty   *)
(* is a complete journal, that stored packages are there while clients are *)
(* served, and that scans find out what others did to the directory.       *)
(***************************************************************************)
EXTENDS InventoryProofs, InventoryEdits

-----------------------------------------------------------------------------
(* The invariant.                                                          *)

\* A record and the rows of its key say the same.
Agrees(k) ==
  LET r == packages[k] IN
  /\ r.status # "pending"
  /\ r.status = "stored" => r.filename \in Held(k) /\ \A n \in Held(k) : files[n].sha = r.sha
  /\ r.status = "missing" => Held(k) = {}
  /\ r.status = "conflict" => \E n \in Held(k) : files[n].sha # r.sha
  /\ r.status = "deleted" => \A n \in Held(k) : files[n].sha # r.sha

\* Whatever is not queued has been settled by the rows that there are.
RowsInv == \A k \in Keys : Recorded(k) /\ k \notin dirty => Agrees(k)

\* A scan has compared the rows with the whole directory, in this life of the process.
Surveyed == gate = "ready" \/ (job \in Scans /\ pc \in {"settle", "trim", "unlink"})

\* A name's row and its file say the same of a key.
Tracked(n, k) ==
  /\ n \in OnDisk(k) => files[n] # None /\ files[n].sha = disk[n].bytes
  /\ n \in Held(k) => disk[n] # None /\ files[n].sha = disk[n].bytes

\* From then on rows and files differ only in what is queued.
SurveyInv ==
  Surveyed => \A k \in Keys, n \in Names : Recorded(k) /\ k \notin dirty => Tracked(n, k)

\* The key of an upload under way is queued until it is published, and so is every key with a
\* claim on a name that a deletion has to delete or to forget.
QueuedInv ==
  /\ pc \in {"link", "flush", "publish", "receipt"} => job = "upload"
  /\ pc \in {"link", "flush", "publish"} => KeyOf[cur] \in dirty
  /\ pc # "unlink" => doomed = {} /\ gone = {}
  /\ \A n \in doomed \cup gone : ClaimsOn(n) \subseteq dirty

\* Once a scan has settled everything, a stored package's file is there.
Served == gate = "ready" \/ (job \in Scans /\ pc \in {"trim", "unlink"})
ServedInv == Served => \A k \in Keys : Stored(k) => IsThere(k)

JournalInv == RowTruth /\ QueuedInv /\ RowsInv /\ SurveyInv /\ ServedInv

-----------------------------------------------------------------------------
(* What is queued.                                                         *)

\* A deletion queues its targets, which have the names it dooms for themselves.
LEMMA MarkQueues ==
  ASSUME TypeOK, OneClaim', QueuedInv, pc # "unlink", NEW S \in SUBSET Keys, NEW by \in Actors,
         \A k \in S : Live(k), MarkDeleted(S, by), gone' = gone, files' = files
  PROVE  QueuedInv'
<1>1. doomed' = NamesOf(S) /\ gone' = {} /\ dirty' = dirty \cup S /\ pc' = "unlink"
  BY DEF MarkDeleted, QueuedInv
<1>2. ASSUME NEW n \in NamesOf(S)
      PROVE  ClaimsOn(n)' \subseteq dirty'
  <2>1. PICK k \in S : n \in Held(k) \cup {packages[k].filename}
    BY DEF NamesOf
  <2>2. packages'[k] = As(packages[k], "deleted", by) /\ packages[k] \in Records
    BY <2>1, RecordedIsRecord DEF MarkDeleted, Live
  <2>3. packages'[k].filename = packages[k].filename /\ packages'[k] # None
    <3>1. As(packages[k], "deleted", by) \in Records
      BY <2>2 DEF As, Records, Statuses
    <3> QED BY <2>2, <3>1, InventoryAssumption DEF As
  <2>4. n \in Names
    BY <2>1, RecordedIsRecord DEF Held, Live
  <2>5. k \in ClaimsOn(n)'
    BY <2>1, <2>3 DEF ClaimsOn, Held, Recorded
  <2>6. \A x \in ClaimsOn(n)' : x = k
    BY <2>4, <2>5 DEF OneClaim
  <2> QED BY <1>1, <2>6
<1> QED BY <1>1, <1>2 DEF QueuedInv

\* Every step keeps queued what has to be.
LEMMA StepQueuedInv ==
  ASSUME NameInv, NameInv', QueuedInv, [Next]_vars
  PROVE  QueuedInv'
<1> USE InventoryAssumption DEF NameInv, TypeInv
<1>1. ASSUME pc' \notin {"link", "flush", "publish", "receipt", "unlink"}, doomed' = {}, gone' = {}
      PROVE  QueuedInv'
  BY <1>1 DEF QueuedInv
<1>2. CASE UploadNext
  <2>1. pc # "unlink" /\ UNCHANGED <<doomed, gone>>
    BY <1>2 DEF UploadNext, Journal, Duplicate, StartUpload, Admitted, Ready, Idle, Link, Flush,
                Publish, Receipt
  <2>2. doomed' = {} /\ gone' = {}
    BY <2>1 DEF QueuedInv
  <2>3. ASSUME NEW c \in Offered, NEW i \in IdemKeys \cup {None}, Journal(c, i)
        PROVE  KeyOf[cur'] \in dirty'
    BY <2>3 DEF Journal, StartUpload
  <2>4. pc' \in {"link", "flush", "publish"} => KeyOf[cur'] \in dirty'
    BY <1>2, <2>3 DEF UploadNext, Duplicate, Link, Flush, Publish, Receipt, QueuedInv
  <2>5. pc' \in {"link", "flush", "publish", "receipt"} => job' = "upload"
    BY <1>2 DEF UploadNext, Journal, Duplicate, StartUpload, Link, Flush, Publish, Receipt, QueuedInv
  <2> QED BY <2>2, <2>4, <2>5 DEF QueuedInv
<1>3. CASE DeleteNext
  <2>1. ASSUME NEW e \in Exts, NEW v \in Versions, DeleteVersions(e, v)
        PROVE  QueuedInv'
    BY <2>1, MarkQueues DEF DeleteVersions, Ready, Idle, Actors
  <2>2. ASSUME NEW n \in Names, Unlink(n)
        PROVE  QueuedInv'
    <3>1. doomed' \cup gone' \subseteq doomed \cup gone /\ doomed \cup gone \subseteq Names
      BY <2>2 DEF Unlink, TypeOK
    <3>2. ASSUME NEW m \in Names
          PROVE  ClaimsOn(m)' \subseteq ClaimsOn(m)
      <4>1. ASSUME NEW k \in Keys, (k \in ClaimsOn(m))'
            PROVE  k \in ClaimsOn(m)
        BY <4>1, ClaimsShrink
      <4> QED BY <4>1 DEF ClaimsOn
    <3> QED BY <2>2, <3>1, <3>2 DEF Unlink, QueuedInv
  <2>3. CASE ForgetFiles
    BY <2>3 DEF ForgetFiles, QueuedInv
  <2> QED BY <1>3, <2>1, <2>2, <2>3 DEF DeleteNext
<1>4. CASE LimitNext
  <2>1. ASSUME NEW e \in Exts, Trim(e)
        PROVE  QueuedInv'
    <3>1. CASE Beyond(e) = {}
      BY <2>1, <3>1 DEF Trim, QueuedInv
    <3>2. CASE Beyond(e) # {}
      <4>1. Beyond(e) \in SUBSET Keys /\ \A k \in Beyond(e) : Live(k)
        BY DEF Beyond
      <4> QED BY <2>1, <3>2, <4>1, MarkQueues DEF Trim, Actors
    <3> QED BY <3>1, <3>2
  <2> QED BY <1>4, <2>1 DEF LimitNext, SetLibraryLimit, SetExtensionLimit, Ready, Idle, QueuedInv
<1>5. CASE ScanNext
  BY <1>1, <1>5
     DEF ScanNext, ScanFull, ScanRoutine, ScanAdopt, StartScan, Idle, VerifyUnread, VerifyRead,
         Listed, DropVanished, SettleLive, SettleDeleted, SettleStep, SettleFails, SettleEnd,
         Abandon, Release, QueuedInv
<1>6. CASE Finish \/ Fail \/ Crash \/ PowerLoss
  BY <1>1, <1>6 DEF Finish, Fail, Crash, PowerLoss, Abandon, Release
<1>7. CASE Restart \/ UNCHANGED vars
  BY <1>7 DEF Restart, vars, durable, volatile, QueuedInv, ClaimsOn, Recorded
<1> QED BY <1>2, <1>3, <1>4, <1>5, <1>6, <1>7 DEF Next

-----------------------------------------------------------------------------
(* What the rows say.                                                      *)

\* A record goes on agreeing with its rows while both stay.
LEMMA AgreesKept ==
  ASSUME NEW k \in Keys, Agrees(k),
         packages'[k] = packages[k],
         \A n \in Names : (n \in Held(k))' <=> n \in Held(k),
         \A n \in Held(k) : files'[n].sha = files[n].sha
  PROVE  Agrees(k)'
<1>1. Held(k)' = Held(k)
  BY DEF Held
<1> QED BY <1>1 DEF Agrees

\* So it does if its rows do, and its record stays.
LEMMA RowsKept ==
  ASSUME RowsInv, dirty \subseteq dirty',
         \A k \in Keys : k \notin dirty' => packages'[k] = packages[k],
         \A n \in Names, k \in Keys : k \notin dirty' /\ Recorded(k) =>
           /\ (n \in Held(k))' <=> n \in Held(k)
           /\ n \in Held(k) => files'[n].sha = files[n].sha
  PROVE  RowsInv'
<1> SUFFICES ASSUME NEW k \in Keys, Recorded(k)', k \notin dirty'
             PROVE  Agrees(k)'
  BY DEF RowsInv
<1>1. Recorded(k) /\ packages'[k] = packages[k]
  BY DEF Recorded
<1>2. Agrees(k)
  BY <1>1 DEF RowsInv
<1>3. \A n \in Held(k) : files'[n].sha = files[n].sha
  BY <1>1 DEF Held
<1> QED BY <1>1, <1>2, <1>3, AgreesKept

\* The row that a name gets is of one key, and whatever key it had is queued.
LEMMA NewRow ==
  ASSUME TypeOK, NEW n \in Names, NEW r \in Rows, NEW k, NEW Q,
         files' = [files EXCEPT ![n] = r], KeysOf(r.sha) \subseteq Q \cup {k},
         Displaced(n, k) \subseteq Q
  PROVE  \A m \in Names, x \in Keys : x \notin Q \cup {k} =>
           /\ (m \in Held(x))' <=> m \in Held(x)
           /\ m \in Held(x) => files'[m] = files[m]
BY InventoryAssumption DEF Held, Displaced, TypeOK

\* A file that is there under its record's name makes a record that is not queued a stored one.
LEMMA DuplicateStored ==
  ASSUME TypeOK, RowsInv, SurveyInv, gate = "ready", NEW k \in Keys, Recorded(k), k \notin dirty,
         packages[k].status # "conflict", NEW n \in Names, disk[n] # None,
         disk[n].bytes = packages[k].sha, KeyOf[packages[k].sha] = k
  PROVE  packages[k].status = "stored"
<1> USE InventoryAssumption
<1>1. packages[k] \in Records /\ packages[k].sha \in Contents /\ packages[k].sha # None
  BY RecordedIsRecord DEF Bytes
<1>2. n \in OnDisk(k)
  BY <1>1 DEF OnDisk, ShaOf, KeysOf
<1>3. files[n] # None /\ files[n].sha = packages[k].sha
  BY <1>2 DEF SurveyInv, Surveyed, Tracked
<1>4. n \in Held(k)
  BY <1>1, <1>3 DEF Held, KeysOf
<1>5. Agrees(k)
  BY DEF RowsInv
<1> QED BY <1>1, <1>3, <1>4, <1>5 DEF Agrees, Records, Statuses

\* Publishing leaves a record in agreement with its rows, if it was queued, or stored already.
LEMMA PublishAgrees ==
  ASSUME TypeOK, ShaKey, RowsInv, NEW k \in Keys, Recorded(k), PublishRecord(k),
         disk[packages[k].filename] # None, disk[packages[k].filename].bytes = packages[k].sha,
         k \in dirty \/ packages[k].status = "stored"
  PROVE  RowsInv'
<1> USE InventoryAssumption DEF TypeOK
<1> DEFINE n == packages[k].filename
           row == RowFor(disk[n])
           r == As(packages[k], "stored", None)
<1>1. n \in Names /\ packages[k] \in Records /\ packages[k].sha \in Contents /\ KeyOf[packages[k].sha] = k
  BY RecordedIsRecord DEF ShaKey
<1>2. files' = [files EXCEPT ![n] = row] /\ disk[n] \in DiskFiles
  BY PublishRow
<1>3. row \in Rows /\ row.sha = packages[k].sha /\ KeysOf(row.sha) = {k}
  BY <1>1, <1>2 DEF RowFor, ShaOf, KeysOf, Rows, DiskFiles, Bytes
<1>4. dirty' = dirty \cup Displaced(n, k) /\ packages' = [packages EXCEPT ![k] = r]
  BY DEF PublishRecord
<1>5. \A m \in Names, x \in Keys : x \notin dirty' \cup {k} =>
        /\ (m \in Held(x))' <=> m \in Held(x)
        /\ m \in Held(x) => files'[m] = files[m]
  BY <1>1, <1>2, <1>3, <1>4, NewRow
<1>6. ASSUME NEW x \in Keys, x # k, x \notin dirty', Recorded(x)'
      PROVE  Agrees(x)'
  <2>1. packages'[x] = packages[x] /\ Recorded(x) /\ x \notin dirty
    BY <1>4, <1>6 DEF Recorded
  <2>2. Agrees(x)
    BY <2>1 DEF RowsInv
  <2>3. \A m \in Held(x) : files'[m].sha = files[m].sha
    BY <1>5, <1>6 DEF Held
  <2> QED BY <1>5, <1>6, <2>1, <2>2, <2>3, AgreesKept
<1>7. ASSUME k \notin dirty'
      PROVE  Agrees(k)'
  <2>1. packages[k].status = "stored" /\ k \notin dirty
    BY <1>4, <1>7
  <2>2. \A m \in Held(k) : files[m].sha = packages[k].sha
    BY <2>1 DEF RowsInv, Agrees
  <2>3. packages'[k] = r /\ r.status = "stored" /\ r.sha = packages[k].sha /\ r.filename = n
    BY <1>1, <1>4 DEF As
  <2>4. ASSUME NEW m \in Names, (m \in Held(k))'
        PROVE  files'[m].sha = packages[k].sha
    <3>1. CASE m = n
      BY <1>1, <1>2, <1>3, <3>1
    <3>2. CASE m # n
      BY <1>2, <2>2, <2>4, <3>2 DEF Held
    <3> QED BY <3>1, <3>2
  <2>5. \A m \in Held(k)' : files'[m].sha = packages'[k].sha
    BY <2>3, <2>4 DEF Held
  <2>6. n \in Held(k)'
    BY <1>1, <1>2, <1>3 DEF Held
  <2> QED BY <2>3, <2>5, <2>6 DEF Agrees
<1> QED BY <1>6, <1>7 DEF RowsInv

\* A settled record says what its rows do.
LEMMA SettleAgrees ==
  ASSUME TypeOK, RowsInv, NEW k \in Keys, SettleLive(k)
  PROVE  RowsInv'
<1> USE DEF TypeOK
<1> DEFINE r == Settled(k)
<1>1. /\ packages' = [packages EXCEPT ![k] = r] /\ dirty' = dirty \ {k} /\ files' = files
      /\ Recorded(k)
  BY DEF SettleLive, Live
<1>2. r \in Records /\ r.sha = packages[k].sha
  BY <1>1, SettledTypes
<1>3. \A x \in Keys : Held(x)' = Held(x)
  BY <1>1 DEF Held
<1>4. ASSUME NEW x \in Keys, x # k, x \notin dirty', Recorded(x)'
      PROVE  Agrees(x)'
  BY <1>1, <1>3, <1>4 DEF RowsInv, Agrees, Recorded
<1>5. Agrees(k)'
  <2>1. packages'[k] = r /\ Held(k)' = Held(k)
    BY <1>1, <1>3
  <2>2. CASE Held(k) = {}
    BY <1>1, <1>2, <2>1, <2>2 DEF Agrees, Settled, As
  <2>3. CASE Held(k) # {} /\ \E n \in Held(k) : files[n].sha # packages[k].sha
    <3>1. r.status = "conflict"
      BY <2>3 DEF Settled, As
    <3> QED BY <1>1, <1>2, <2>1, <2>3, <3>1 DEF Agrees
  <2>4. CASE Held(k) # {} /\ \A n \in Held(k) : files[n].sha = packages[k].sha
    <3>1. (CHOOSE n \in Held(k) : TRUE) \in Held(k)
      BY <2>4
    <3>2. r.status = "stored" /\ r.filename \in Held(k)
      BY <2>4, <3>1 DEF Settled, As
    <3> QED BY <1>1, <1>2, <2>1, <2>4, <3>2 DEF Agrees
  <2> QED BY <2>2, <2>3, <2>4
<1> QED BY <1>4, <1>5 DEF RowsInv

\* A deleted record is left with rows of other bytes only.
LEMMA ForgottenAgrees ==
  ASSUME TypeOK, ShaKey, RowsInv, NEW k \in Keys, SettleDeleted(k)
  PROVE  RowsInv'
<1> USE InventoryAssumption DEF TypeOK
<1> DEFINE left == IF Recorded(k) THEN Leftovers(k) ELSE {}
<1>1. /\ packages' = packages /\ dirty' = dirty \ {k}
      /\ \A n \in Names : files'[n] = IF n \in left THEN None ELSE files[n]
      /\ ~Live(k)
  BY DEF SettleDeleted
<1>2. ASSUME NEW x \in Keys, x # k, x \notin dirty', Recorded(x)'
      PROVE  Agrees(x)'
  <2>1. \A n \in left : n \notin Held(x)
    BY <1>2 DEF Leftovers, Held, ShaKey, KeysOf
  <2>2. \A n \in Names : (n \in Held(x))' <=> n \in Held(x)
    BY <1>1, <2>1 DEF Held
  <2>3. \A n \in Held(x) : files'[n].sha = files[n].sha
    BY <1>1, <2>1 DEF Held
  <2>4. Agrees(x) /\ packages'[x] = packages[x]
    BY <1>1, <1>2 DEF RowsInv, Recorded
  <2> QED BY <2>2, <2>3, <2>4, AgreesKept
<1>3. ASSUME Recorded(k)'
      PROVE  Agrees(k)'
  <2>1. Recorded(k) /\ packages'[k] = packages[k] /\ packages[k].status = "deleted"
    BY <1>1, <1>3 DEF Recorded, Live
  <2>2. ASSUME NEW n \in Held(k)'
        PROVE  files'[n].sha # packages[k].sha
    <3>1. n \in Held(k) /\ n \notin left /\ files'[n] = files[n]
      BY <1>1, <2>2 DEF Held
    <3> QED BY <2>1, <3>1 DEF Leftovers
  <2> QED BY <2>1, <2>2 DEF Agrees
<1> QED BY <1>1, <1>2, <1>3 DEF RowsInv

\* A file that is read makes queued whatever its name's row was about, and is about.
LEMMA ReadAgrees ==
  ASSUME TypeOK, RowsInv, NEW n \in Names, VerifyRead(n)
  PROVE  RowsInv'
<1> USE InventoryAssumption DEF TypeOK
<1> DEFINE sha == ShaOf(disk[n].bytes)
           row == RowFor(disk[n])
<1>1. /\ files' = [files EXCEPT ![n] = row] /\ disk[n] \in DiskFiles
      /\ dirty' = dirty \cup KeysOf(sha) \cup Displaced(n, None)
  BY DEF VerifyRead
<1>2. row \in Rows /\ row.sha = sha
  BY <1>1 DEF RowFor, ShaOf, Rows, DiskFiles, Bytes
<1>3. \A m \in Names, x \in Keys : x \notin dirty' \cup {None} =>
        /\ (m \in Held(x))' <=> m \in Held(x)
        /\ m \in Held(x) => files'[m] = files[m]
  <2>1. KeysOf(row.sha) \subseteq dirty' \cup {None} /\ Displaced(n, None) \subseteq dirty'
    BY <1>1, <1>2
  <2> HIDE DEF row
  <2> QED BY <1>1, <1>2, <2>1, NewRow
<1>4. \A x \in Keys : x \notin dirty' => packages'[x] = packages[x]
  <2>1. CASE sha = None
    BY <2>1 DEF VerifyRead
  <2>2. CASE sha # None
    <3>1. packages' = Inventoried(KeyOf[sha], n, sha) /\ KeyOf[sha] \in dirty'
      BY <1>1, <2>2 DEF VerifyRead, KeysOf
    <3> QED BY <3>1 DEF Inventoried
  <2> QED BY <2>1, <2>2
<1> QED BY <1>1, <1>3, <1>4, RowsKept

\* A record is adopted for want of the row that it would agree with, so it was queued before.
LEMMA AdoptAgrees ==
  ASSUME RowsInv, ScanAdopt
  PROVE  RowsInv'
<1>1. /\ packages' = packages
      /\ dirty' = dirty \cup {k \in Keys : Recorded(k) /\ \A n \in Names : k \notin Adopted(n)}
  BY DEF ScanAdopt, StartScan
<1> SUFFICES ASSUME NEW k \in Keys, Recorded(k), k \notin dirty'
             PROVE  FALSE
  BY <1>1 DEF RowsInv, Recorded
<1>2. PICK n \in Names : k \in Adopted(n)
  BY <1>1
<1>3. k \in Claims(n) /\ files[n] = None
  BY <1>2 DEF Adopted
<1>4. Agrees(k)
  BY <1>1 DEF RowsInv
<1> QED BY <1>3, <1>4 DEF Claims, Agrees, Held

\* Every step keeps records and rows in agreement, but for what it queues.
LEMMA StepRowsInv ==
  ASSUME NameInv, QueuedInv, RowsInv, SurveyInv, [Next]_vars
  PROVE  RowsInv'
<1> USE InventoryAssumption DEF NameInv, TypeInv
<1>1. ASSUME UNCHANGED <<packages, files, dirty>>
      PROVE  RowsInv'
  BY <1>1 DEF RowsInv, Agrees, Recorded, Held
<1>2. CASE UploadNext
  <2>1. ASSUME NEW c \in Offered, NEW i \in IdemKeys \cup {None}, Journal(c, i)
        PROVE  RowsInv'
    <3>1. /\ packages' = [packages EXCEPT ![KeyOf[c]] = Journaled(KeyOf[c], c)]
          /\ dirty' = dirty \cup {KeyOf[c]} /\ files' = files
      BY <2>1 DEF Journal
    <3> QED BY <3>1, RowsKept DEF Held
  <2>2. ASSUME NEW c \in Offered, NEW i \in IdemKeys \cup {None}, Duplicate(c, i)
        PROVE  RowsInv'
    <3> DEFINE k == KeyOf[c]
               n == packages[k].filename
    <3>1. /\ k \in Keys /\ Recorded(k) /\ PublishRecord(k) /\ gate = "ready"
          /\ packages[k].sha = c /\ packages[k].status # "conflict"
          /\ disk[n] # None /\ disk[n].bytes = c
      BY <2>2 DEF Duplicate, Admitted, Ready
    <3>2. n \in Names /\ KeyOf[packages[k].sha] = k
      BY <3>1, RecordedIsRecord
    <3>3. k \in dirty \/ packages[k].status = "stored"
      <4> HIDE DEF k, n
      <4> QED BY <3>1, <3>2, DuplicateStored
    <3> QED BY <3>1, <3>3, PublishAgrees
  <2>3. CASE Publish
    <3>1. /\ KeyOf[cur] \in Keys /\ Recorded(KeyOf[cur]) /\ PublishRecord(KeyOf[cur])
          /\ KeyOf[cur] \in dirty
          /\ disk[packages[KeyOf[cur]].filename] # None
          /\ disk[packages[KeyOf[cur]].filename].bytes = packages[KeyOf[cur]].sha
      BY <2>3 DEF Publish, UploadInv, QueuedInv
    <3> QED BY <3>1, PublishAgrees
  <2> QED BY <1>1, <1>2, <2>1, <2>2, <2>3 DEF UploadNext, Link, Flush, Receipt
<1>3. ASSUME NEW S, NEW by, MarkDeleted(S, by), files' = files
      PROVE  RowsInv'
  <2>1. \A k \in Keys : k \notin dirty' => packages'[k] = packages[k]
    BY <1>3 DEF MarkDeleted
  <2> QED BY <1>3, <2>1, RowsKept DEF MarkDeleted, Held
<1>4. CASE ForgetFiles
  <2>1. packages' = packages /\ dirty' = dirty
    BY <1>4 DEF ForgetFiles
  <2>2. \A n \in Names, k \in Keys : k \notin dirty /\ n \in Held(k) => n \notin gone
    BY DEF QueuedInv, ClaimsOn, Held
  <2>3. \A n \in Names, k \in Keys : k \notin dirty' /\ Recorded(k) =>
          /\ (n \in Held(k))' <=> n \in Held(k)
          /\ n \in Held(k) => files'[n].sha = files[n].sha
    <3>1. CASE UNCHANGED files
      BY <3>1 DEF Held
    <3>2. CASE files' = [n \in Names |-> IF n \in gone THEN None ELSE files[n]]
      BY <2>1, <2>2, <3>2 DEF Held
    <3> QED BY <1>4, <3>1, <3>2 DEF ForgetFiles
  <2> QED BY <2>1, <2>3, RowsKept
<1>5. CASE DeleteNext
  BY <1>1, <1>3, <1>4, <1>5 DEF DeleteNext, DeleteVersions, Unlink
<1>6. CASE LimitNext
  BY <1>1, <1>3, <1>6 DEF LimitNext, SetLibraryLimit, SetExtensionLimit, Trim
<1>7. CASE ScanFull
  BY <1>7 DEF ScanFull, StartScan, RowsInv, Recorded
<1>8. ASSUME NEW n \in Names, VerifyUnread(n)
      PROVE  RowsInv'
  <2>1. packages' = packages /\ dirty' = dirty
    BY <1>8 DEF VerifyUnread
  <2>2. \A m \in Names :
          \/ files'[m] = files[m]
          \/ files[m] # None /\ files'[m] # None /\ files'[m].sha = files[m].sha
    <3>1. CASE disk[n] = None
      BY <1>8, <3>1 DEF VerifyUnread
    <3>2. CASE disk[n] # None
      <4>1. files[n] \in Rows
        BY <1>8, <3>2 DEF VerifyUnread, Trusts, TypeOK
      <4> DEFINE row == [sha |-> files[n].sha, size |-> files[n].size, mtime |-> disk[n].mtime]
      <4>2. row \in Rows
        BY <3>2, <4>1 DEF Rows, TypeOK, DiskFiles
      <4>3. files' = [files EXCEPT ![n] = row]
        BY <1>8, <3>2 DEF VerifyUnread
      <4>4. row # None /\ row.sha = files[n].sha
        BY <4>2
      <4> HIDE DEF row
      <4> QED BY <4>1, <4>3, <4>4 DEF TypeOK
    <3> QED BY <3>1, <3>2
  <2>3. \A m \in Names, k \in Keys :
          /\ (m \in Held(k))' <=> m \in Held(k)
          /\ m \in Held(k) => files'[m].sha = files[m].sha
    BY <2>2 DEF Held
  <2> QED BY <2>1, <2>3, RowsKept
<1>9. CASE DropVanished
  <2> DEFINE vanished == {n \in Names : files[n] # None /\ disk[n] = None}
  <2>1. /\ packages' = packages
        /\ dirty' = dirty \cup UNION {Displaced(n, None) : n \in vanished}
        /\ files' = [n \in Names |-> IF n \in vanished THEN None ELSE files[n]]
    BY <1>9 DEF DropVanished
  <2>2. \A n \in vanished, k \in Keys : n \in Held(k) => k \in dirty'
    BY <2>1 DEF Displaced, Held
  <2>3. \A n \in Names, k \in Keys : k \notin dirty' /\ Recorded(k) =>
          /\ (n \in Held(k))' <=> n \in Held(k)
          /\ n \in Held(k) => files'[n].sha = files[n].sha
    <3> HIDE DEF vanished
    <3> QED BY <2>1, <2>2 DEF Held
  <2>4. dirty \subseteq dirty'
    BY <2>1
  <2> QED BY <2>1, <2>3, <2>4, RowsKept
<1>10. CASE ScanNext
  BY <1>1, <1>7, <1>8, <1>9, <1>10, AdoptAgrees, ReadAgrees, SettleAgrees, ForgottenAgrees
     DEF ScanNext, ScanRoutine, StartScan, SettleFails, SettleEnd, durable
<1>11. CASE Finish \/ Fail \/ Crash \/ PowerLoss \/ Restart \/ UNCHANGED vars
  BY <1>1, <1>11 DEF Finish, Fail, Crash, PowerLoss, Restart, vars, durable
<1> QED BY <1>2, <1>5, <1>6, <1>10, <1>11 DEF Next

-----------------------------------------------------------------------------
(* What the directory holds.                                               *)

\* A row that is right is about the file's key only.
LEMMA RightTracks ==
  ASSUME NEW n \in Names, NEW k \in Keys, disk[n] # None, Right(n)
  PROVE  Tracked(n, k)
BY DEF Right, Tracked, OnDisk, Held, ShaOf, KeysOf

\* The same of the next state.
LEMMA RightTracksNext ==
  ASSUME NEW n \in Names, NEW k \in Keys, disk'[n] # None, Right(n)'
  PROVE  Tracked(n, k)'
BY DEF Right, Tracked, OnDisk, Held, ShaOf, KeysOf

\* Once a scan has listed the directory it knows all of it.
LEMMA SettlingSurveyed ==
  ASSUME ListingInv', pc' = "settle"
  PROVE  SurveyInv'
<1> SUFFICES ASSUME NEW k \in Keys, NEW n \in Names
             PROVE  Tracked(n, k)'
  BY DEF SurveyInv
<1>1. CASE disk'[n] # None
  BY <1>1, RightTracksNext DEF ListingInv
<1>2. CASE disk'[n] = None
  BY <1>2 DEF ListingInv, Tracked, OnDisk, Held
<1> QED BY <1>1, <1>2

\* What is tracked stays so while nothing is done to the names that are about a key that is not
\* queued.
LEMMA SurveyKept ==
  ASSUME SurveyInv, Surveyed' => Surveyed, dirty \subseteq dirty',
         \A k \in Keys : k \notin dirty' /\ Recorded(k)' => Recorded(k),
         \A n \in Names, k \in Keys : k \notin dirty' /\ Tracked(n, k) => Tracked(n, k)'
  PROVE  SurveyInv'
BY DEF SurveyInv

\* Publishing gives a file its row.
LEMMA PublishTracks ==
  ASSUME TypeOK, ShaKey, SurveyInv, gate = "ready", NEW k \in Keys, Recorded(k), PublishRecord(k),
         disk[packages[k].filename] # None, disk[packages[k].filename].bytes = packages[k].sha,
         UNCHANGED disk
  PROVE  SurveyInv'
<1> USE InventoryAssumption DEF TypeOK
<1> DEFINE n == packages[k].filename
           row == RowFor(disk[n])
<1>1. n \in Names /\ packages[k] \in Records
  BY RecordedIsRecord
<1>2. files' = [files EXCEPT ![n] = row] /\ disk[n] \in DiskFiles
  BY PublishRow
<1>3. row \in Rows /\ row.sha = ShaOf(disk[n].bytes)
  BY <1>2 DEF RowFor, ShaOf, Rows, DiskFiles, Bytes
<1>4. dirty' = dirty \cup Displaced(n, k) /\ \A x \in Keys : Recorded(x)' => Recorded(x)
  BY DEF PublishRecord, Recorded
<1>5. \A m \in Names : m = n => Right(m)' /\ disk'[m] # None
  BY <1>1, <1>2, <1>3 DEF Right
<1>6. ASSUME NEW m \in Names, NEW x \in Keys, Tracked(m, x)
      PROVE  Tracked(m, x)'
  <2>1. CASE m = n
    BY <1>5, <2>1, RightTracksNext
  <2>2. CASE m # n
    BY <1>2, <1>6, <2>2 DEF Tracked, OnDisk, Held
  <2> QED BY <2>1, <2>2
<1> QED BY <1>4, <1>6, SurveyKept DEF Surveyed

\* A new file is that of the upload's key, which is queued.
LEMMA LinkTracks ==
  ASSUME TypeInv, QueuedInv, SurveyInv, Link
  PROVE  SurveyInv'
<1> USE InventoryAssumption DEF TypeInv, TypeOK
<1> DEFINE n == packages[KeyOf[cur]].filename
<1>1. /\ cur \in Contents /\ KeyOf[cur] \in dirty /\ n \in Names
      /\ disk[n] = None
  BY RecordedIsRecord DEF Link, UploadInv, QueuedInv
<1>2. PICK t \in Times : disk' = [disk EXCEPT ![n] = [bytes |-> cur, mtime |-> t]]
  BY DEF Link, FreshTimes
<1>3. UNCHANGED <<packages, files, dirty, gate, job>> /\ pc' = "flush"
  BY DEF Link
<1>4. disk'[n].bytes = cur /\ \A m \in Names : m # n => disk'[m] = disk[m]
  BY <1>1, <1>2
<1>5. ASSUME NEW m \in Names, NEW x \in Keys, x \notin dirty', Tracked(m, x)
      PROVE  Tracked(m, x)'
  <2>1. CASE m = n
    <3>1. m \notin Held(x)
      BY <1>1, <1>5, <2>1 DEF Tracked
    <3>2. ~(m \in OnDisk(x))'
      BY <1>1, <1>3, <1>4, <1>5, <2>1 DEF OnDisk, ShaOf, KeysOf
    <3>3. ~(m \in Held(x))'
      BY <1>3, <3>1 DEF Held
    <3> QED BY <3>2, <3>3 DEF Tracked
  <2>2. CASE m # n
    BY <1>3, <1>4, <1>5, <2>2 DEF Tracked, OnDisk, Held
  <2> QED BY <2>1, <2>2
<1>6. Surveyed' => Surveyed
  BY <1>3 DEF Surveyed
<1> QED BY <1>3, <1>5, <1>6, SurveyKept DEF Recorded

\* Files that go, or rows that do, are those of queued keys.
LEMMA LossTracks ==
  ASSUME SurveyInv, NEW S,
         \A n \in S, k \in Keys : k \notin dirty => n \notin OnDisk(k) \cup Held(k),
         \A n \in Names \ S : disk'[n] = disk[n] /\ files'[n] = files[n],
         \A n \in Names \cap S : disk'[n] \in {disk[n], None} /\ files'[n] \in {files[n], None},
         dirty' = dirty, packages' = packages, Surveyed' => Surveyed
  PROVE  SurveyInv'
<1>1. ASSUME NEW n \in Names, NEW k \in Keys, k \notin dirty', Tracked(n, k)
      PROVE  Tracked(n, k)'
  <2>1. CASE n \in S
    BY <1>1, <2>1 DEF Tracked, OnDisk, Held
  <2>2. CASE n \notin S
    BY <1>1, <2>2 DEF Tracked, OnDisk, Held
  <2> QED BY <2>1, <2>2
<1> QED BY <1>1, SurveyKept DEF Recorded

\* A record that is adopted is stored, and so its file is there if there has been a scan.
LEMMA AdoptTracks ==
  ASSUME TypeOK, ServedInv, SurveyInv, ScanAdopt
  PROVE  SurveyInv'
<1> SUFFICES ASSUME gate = "ready"
             PROVE  SurveyInv'
  BY DEF SurveyInv, Surveyed, ScanAdopt, StartScan
<1> USE InventoryAssumption DEF TypeOK
<1>1. UNCHANGED <<disk, packages, gate>> /\ dirty \subseteq dirty' /\ pc' = "walk"
  BY DEF ScanAdopt, StartScan
<1>2. ASSUME NEW n \in Names, NEW k \in Keys, Tracked(n, k)
      PROVE  Tracked(n, k)'
  <2>1. CASE Adopted(n) = {}
    <3>1. files'[n] = files[n]
      BY <2>1 DEF ScanAdopt
    <3> QED BY <1>1, <1>2, <3>1 DEF Tracked, OnDisk, Held
  <2>2. CASE Adopted(n) # {}
    <3> DEFINE x == CHOOSE x \in Claims(n) : TRUE
               row == AdoptedRow(packages[x].sha)
    <3>1. x \in Claims(n) /\ files'[n] = row
      BY <2>2 DEF ScanAdopt, Adopted
    <3>2. /\ x \in Keys /\ Recorded(x) /\ packages[x].sha \in Contents
          /\ disk[n] # None /\ disk[n].bytes = packages[x].sha
      BY <3>1, RecordedIsRecord DEF Claims, ServedInv, Served, Stored, IsThere
    <3>3. row.sha = ShaOf(disk[n].bytes)
      BY <3>2 DEF AdoptedRow, ShaOf
    <3>4. row \in Rows
      BY <3>2 DEF AdoptedRow, Rows, Bytes
    <3>5. Right(n)' /\ disk'[n] # None
      BY <1>1, <3>1, <3>2, <3>3, <3>4 DEF Right
    <3> QED BY <3>5, RightTracksNext
  <2> QED BY <2>1, <2>2
<1>3. Surveyed' => Surveyed
  BY <1>1 DEF Surveyed
<1> QED BY <1>1, <1>2, <1>3, SurveyKept DEF Recorded

\* A file that is read gets its row, and makes queued any key whose first record it is.
LEMMA ReadTracks ==
  ASSUME TypeOK, SurveyInv, NEW n \in Names, VerifyRead(n)
  PROVE  SurveyInv'
<1> USE InventoryAssumption DEF TypeOK
<1> DEFINE sha == ShaOf(disk[n].bytes)
           row == RowFor(disk[n])
<1>1. /\ files' = [files EXCEPT ![n] = row] /\ disk[n] \in DiskFiles /\ disk[n] # None
      /\ dirty' = dirty \cup KeysOf(sha) \cup Displaced(n, None)
      /\ UNCHANGED <<disk, gate, job, pc>>
  BY DEF VerifyRead, Listed
<1>2. row \in Rows /\ row.sha = sha
  BY <1>1 DEF RowFor, ShaOf, Rows, DiskFiles, Bytes
<1>3. Right(n)' /\ disk'[n] # None
  BY <1>1, <1>2 DEF Right
<1>4. ASSUME NEW m \in Names, NEW x \in Keys, Tracked(m, x)
      PROVE  Tracked(m, x)'
  <2>1. CASE m = n
    BY <1>3, <2>1, RightTracksNext
  <2>2. CASE m # n
    BY <1>1, <1>4, <2>2 DEF Tracked, OnDisk, Held
  <2> QED BY <2>1, <2>2
<1>5. ASSUME NEW x \in Keys, x \notin dirty', Recorded(x)'
      PROVE  Recorded(x)
  <2>1. CASE sha = None
    BY <1>5, <2>1 DEF VerifyRead, Recorded
  <2>2. CASE sha # None
    <3>1. packages' = Inventoried(KeyOf[sha], n, sha) /\ KeyOf[sha] \in dirty'
      BY <1>1, <2>2 DEF VerifyRead, KeysOf
    <3> QED BY <1>5, <3>1 DEF Inventoried, Recorded
  <2> QED BY <2>1, <2>2
<1>6. Surveyed' => Surveyed
  BY <1>1 DEF Surveyed
<1> QED BY <1>1, <1>4, <1>5, <1>6, SurveyKept

\* Names that a deletion has to deal with are about queued keys.
LEMMA DoomedQueued ==
  ASSUME QueuedInv, NEW n \in doomed \cup gone, NEW k \in Keys, k \notin dirty
  PROVE  n \notin OnDisk(k) \cup Held(k)
BY DEF QueuedInv, ClaimsOn, OnDisk, Held

\* Every step keeps files and rows in agreement, but for what is queued.
LEMMA StepSurveyInv ==
  ASSUME RowTruth, RowTruth', ServedInv, QueuedInv, SurveyInv, [Next]_vars
  PROVE  SurveyInv'
<1> USE InventoryAssumption DEF RowTruth, NameInv, TypeInv
<1>1. ASSUME UNCHANGED <<disk, files, packages, dirty>>, Surveyed' => Surveyed
      PROVE  SurveyInv'
  BY <1>1 DEF SurveyInv, Tracked, OnDisk, Held, Recorded
<1>2. CASE UploadNext
  <2>1. ASSUME NEW c \in Offered, NEW i \in IdemKeys \cup {None}, Journal(c, i)
        PROVE  SurveyInv'
    <3>1. /\ packages' = [packages EXCEPT ![KeyOf[c]] = Journaled(KeyOf[c], c)]
          /\ dirty' = dirty \cup {KeyOf[c]} /\ UNCHANGED <<disk, files>> /\ gate = "ready"
      BY <2>1 DEF Journal, Admitted, Ready
    <3>2. \A k \in Keys : k \notin dirty' /\ Recorded(k)' => Recorded(k)
      BY <3>1 DEF Recorded
    <3> QED BY <3>1, <3>2, SurveyKept DEF Tracked, OnDisk, Held, Surveyed
  <2>2. ASSUME NEW c \in Offered, NEW i \in IdemKeys \cup {None}, Duplicate(c, i)
        PROVE  SurveyInv'
    <3>1. /\ KeyOf[c] \in Keys /\ Recorded(KeyOf[c]) /\ PublishRecord(KeyOf[c]) /\ gate = "ready"
          /\ packages[KeyOf[c]].sha = c
          /\ disk[packages[KeyOf[c]].filename] # None
          /\ disk[packages[KeyOf[c]].filename].bytes = c
          /\ UNCHANGED disk
      BY <2>2 DEF Duplicate, Admitted, Ready
    <3> QED BY <3>1, PublishTracks
  <2>3. CASE Publish
    <3>1. /\ KeyOf[cur] \in Keys /\ Recorded(KeyOf[cur]) /\ PublishRecord(KeyOf[cur])
          /\ disk[packages[KeyOf[cur]].filename] # None
          /\ disk[packages[KeyOf[cur]].filename].bytes = packages[KeyOf[cur]].sha
          /\ UNCHANGED disk
      BY <2>3 DEF Publish, UploadInv
    <3>2. CASE gate = "ready"
      BY <3>1, <3>2, PublishTracks
    <3>3. CASE gate # "ready"
      BY <2>3, <3>3 DEF Publish, Surveyed, SurveyInv
    <3> QED BY <3>2, <3>3
  <2>4. CASE Flush
    BY <1>1, <2>4 DEF Flush, Surveyed
  <2>5. CASE Receipt
    BY <1>1, <2>5 DEF Receipt, QueuedInv, Surveyed, Scans
  <2> QED BY <1>2, <2>1, <2>2, <2>3, <2>4, <2>5, LinkTracks DEF UploadNext
<1>3. ASSUME NEW S, NEW by, MarkDeleted(S, by), UNCHANGED <<disk, files>>, Surveyed' => Surveyed
      PROVE  SurveyInv'
  <2>1. \A k \in Keys : k \notin dirty' => packages'[k] = packages[k]
    BY <1>3 DEF MarkDeleted
  <2> QED BY <1>3, <2>1, SurveyKept DEF MarkDeleted, Tracked, OnDisk, Held, Recorded
<1>4. CASE DeleteNext
  <2>1. ASSUME NEW e \in Exts, NEW v \in Versions, DeleteVersions(e, v)
        PROVE  SurveyInv'
    BY <1>3, <2>1 DEF DeleteVersions, Ready, Surveyed
  <2>2. ASSUME NEW n \in Names, Unlink(n)
        PROVE  SurveyInv'
    <3> DEFINE S == {n}
    <3>1. \A m \in S, k \in Keys : k \notin dirty => m \notin OnDisk(k) \cup Held(k)
      BY <2>2, DoomedQueued DEF Unlink
    <3>2. /\ \A m \in Names \ S : disk'[m] = disk[m] /\ files'[m] = files[m]
          /\ \A m \in Names \cap S : disk'[m] \in {disk[m], None} /\ files'[m] \in {files[m], None}
      BY <2>2 DEF Unlink, DeleteFiles, TypeOK
    <3>3. dirty' = dirty /\ packages' = packages /\ (Surveyed' => Surveyed)
      BY <2>2 DEF Unlink, Surveyed
    <3> HIDE DEF S
    <3> QED BY <3>1, <3>2, <3>3, LossTracks
  <2>3. CASE ForgetFiles
    <3>1. \A m \in gone, k \in Keys : k \notin dirty => m \notin OnDisk(k) \cup Held(k)
      BY DoomedQueued
    <3>2. /\ \A m \in Names \ gone : disk'[m] = disk[m] /\ files'[m] = files[m]
          /\ \A m \in Names \cap gone : disk'[m] \in {disk[m], None} /\ files'[m] \in {files[m], None}
      BY <2>3 DEF ForgetFiles, TypeOK
    <3>3. dirty' = dirty /\ packages' = packages /\ (Surveyed' => Surveyed)
      BY <2>3 DEF ForgetFiles, Surveyed
    <3> QED BY <3>1, <3>2, <3>3, LossTracks
  <2> QED BY <1>4, <2>1, <2>2, <2>3 DEF DeleteNext
<1>5. CASE LimitNext
  <2>1. ASSUME NEW e \in Exts, Trim(e)
        PROVE  SurveyInv'
    <3>1. CASE Beyond(e) = {}
      BY <1>1, <2>1, <3>1 DEF Trim, Surveyed
    <3>2. CASE Beyond(e) # {}
      BY <1>3, <2>1, <3>2 DEF Trim, MarkDeleted, Surveyed
    <3> QED BY <3>1, <3>2
  <2> QED BY <1>1, <1>5, <2>1
          DEF LimitNext, SetLibraryLimit, SetExtensionLimit, Ready, Surveyed
<1>6. CASE ScanFull
  BY <1>6 DEF ScanFull, StartScan, SurveyInv, Recorded
<1>7. CASE ScanRoutine
  BY <1>1, <1>7 DEF ScanRoutine, StartScan, Surveyed
<1>8. ASSUME NEW n \in Names, VerifyUnread(n)
      PROVE  SurveyInv'
  <2>1. UNCHANGED <<disk, packages, dirty, gate, job, pc>>
    BY <1>8 DEF VerifyUnread, Listed
  <2>2. ASSUME NEW m \in Names, NEW k \in Keys, Tracked(m, k)
        PROVE  Tracked(m, k)'
    <3>1. CASE disk[n] = None \/ m # n
      BY <1>8, <2>1, <2>2, <3>1 DEF VerifyUnread, Tracked, OnDisk, Held
    <3>2. CASE disk[n] # None /\ m = n
      <4> DEFINE row == [sha |-> files[n].sha, size |-> files[n].size, mtime |-> disk[n].mtime]
      <4>1. files[n] \in Rows /\ files[n] # None
        BY <1>8, <3>2 DEF VerifyUnread, Trusts, TypeOK
      <4>2. row \in Rows
        BY <3>2, <4>1 DEF Rows, TypeOK, DiskFiles
      <4>3. files'[n] = row
        BY <1>8, <3>2 DEF VerifyUnread, TypeOK
      <4>4. files'[n] # None /\ files'[n].sha = files[n].sha
        BY <4>2, <4>3
      <4> QED BY <2>1, <2>2, <3>2, <4>1, <4>4 DEF Tracked, OnDisk, Held
    <3> QED BY <3>1, <3>2
  <2> QED BY <2>1, <2>2, SurveyKept DEF Surveyed, Recorded
<1>9. ASSUME pc' = "settle"
      PROVE  SurveyInv'
  BY <1>9, SettlingSurveyed
<1>10. CASE SettleFails
  <2> DEFINE batch == {k \in dirty : Recorded(k) /\ ~Live(k)}
  <2>1. PICK some \in SUBSET UNION {Leftovers(k) : k \in batch} : DeleteFiles(some)
    BY <1>10 DEF SettleFails
  <2>2. ASSUME NEW n \in some, NEW x \in Keys, x \notin dirty
        PROVE  n \notin OnDisk(x) \cup Held(x)
    <3>1. PICK k \in batch : n \in Leftovers(k)
      BY <2>1
    <3>2. k \in Keys /\ k \in dirty /\ KeyOf[packages[k].sha] = k /\ packages[k].sha # None
      BY <3>1, RecordedIsRecord DEF ShaKey, TypeOK, Bytes
    <3>3. files[n].sha = packages[k].sha /\ n \in Names /\ files[n] # None
      BY <3>1 DEF Leftovers, Held
    <3>4. disk[n] # None => ShaOf(disk[n].bytes) = packages[k].sha
      BY <1>10, <3>3 DEF SettleFails, ListingInv, Right
    <3>5. KeysOf(packages[k].sha) = {k}
      BY <3>2 DEF KeysOf
    <3> QED BY <2>2, <3>2, <3>3, <3>4, <3>5 DEF Held, OnDisk
  <2>3. UNCHANGED <<packages, files, dirty>> /\ (Surveyed' => Surveyed)
    BY <1>10 DEF SettleFails, Abandon, Release, Surveyed, Scans
  <2>4. \A n \in Names : disk'[n] = IF n \in some THEN None ELSE disk[n]
    BY <2>1 DEF DeleteFiles
  <2> HIDE DEF batch
  <2> QED BY <2>2, <2>3, <2>4, LossTracks
<1>11. CASE ScanNext
  BY <1>1, <1>6, <1>7, <1>8, <1>9, <1>10, <1>11, AdoptTracks, ReadTracks
     DEF ScanNext, DropVanished, SettleLive, SettleDeleted, SettleStep, SettleEnd, durable, Surveyed
<1>12. CASE Finish
  BY <1>1, <1>12 DEF Finish, Release, Surveyed
<1>13. CASE Fail
  BY <1>1, <1>13 DEF Fail, Abandon, Release, durable, Surveyed, Scans
<1>14. CASE Crash \/ PowerLoss
  BY <1>14 DEF Crash, PowerLoss, Release, SurveyInv, Surveyed, Scans
<1>15. CASE Restart \/ UNCHANGED vars
  BY <1>1, <1>15 DEF Restart, vars, durable, volatile, Surveyed
<1> QED BY <1>2, <1>4, <1>5, <1>11, <1>12, <1>13, <1>14, <1>15 DEF Next

-----------------------------------------------------------------------------
(* Theorems.                                                               *)

\* A stored record that agrees with rows that agree with the files has its file.
LEMMA TrackedIsThere ==
  ASSUME TypeOK, NEW k \in Keys, Stored(k), Agrees(k), \A n \in Names : Tracked(n, k)
  PROVE  IsThere(k)
BY DEF Stored, Agrees, Held, Tracked, IsThere

\* A scan that ends its queue has seen to that, and the manager's steps keep it.
LEMMA StepServedInv ==
  ASSUME RowTruth, QueuedInv, RowsInv, SurveyInv, ServedInv, [Next]_vars
  PROVE  ServedInv'
<1> SUFFICES ASSUME Served', NEW k \in Keys, Stored(k)'
             PROVE  IsThere(k)'
  BY DEF ServedInv
<1>1. CASE Served
  <2>1. CASE Stored(k) /\ packages'[k].filename = packages[k].filename
    <3>1. IsThere(k)
      BY <1>1, <2>1 DEF ServedInv
    <3>2. ~PowerLoss
      BY DEF PowerLoss, Release, Served, Scans
    <3> QED BY <2>1, <3>1, <3>2, StepFilesLast
  <2> QED BY <2>1, StepStored
<1>2. CASE SettleEnd
  <2>1. UNCHANGED <<disk, packages, gate, job>> /\ dirty = {} /\ pc = "settle"
    BY <1>2 DEF SettleEnd, durable
  <2>2. Stored(k) /\ Surveyed
    BY <2>1 DEF Stored, Recorded, Served, Surveyed
  <2>3. IsThere(k)
    BY <2>1, <2>2, TrackedIsThere
       DEF RowsInv, SurveyInv, Stored, RowTruth, NameInv, TypeInv
  <2> QED BY <2>1, <2>3 DEF IsThere
<1>3. ~Served => SettleEnd
  <2> SUFFICES ASSUME ~Served, ~SettleEnd
               PROVE  FALSE
    OBVIOUS
  <2>1. ~UploadNext
    BY DEF UploadNext, Journal, Duplicate, Admitted, Link, Flush, Publish, Receipt, Ready, Served,
           QueuedInv, Scans
  <2>2. ~DeleteNext
    BY DEF DeleteNext, DeleteVersions, Unlink, ForgetFiles, Ready, Served
  <2>3. ~LimitNext
    BY DEF LimitNext, SetLibraryLimit, SetExtensionLimit, Trim, Ready, Served
  <2>4. ~ScanNext
    BY DEF ScanNext, ScanFull, ScanRoutine, ScanAdopt, StartScan, VerifyUnread, VerifyRead, Listed,
           DropVanished, SettleLive, SettleDeleted, SettleStep, SettleFails, Abandon, Release,
           Served, Scans
  <2> QED BY <2>1, <2>2, <2>3, <2>4
          DEF Next, Finish, Fail, Abandon, Crash, PowerLoss, Restart, Release, vars, durable,
              volatile, Served, Scans
<1> QED BY <1>1, <1>2, <1>3

\* Initially there is no record and nothing has been surveyed.
LEMMA InitJournalInv == Init => JournalInv
BY InitRowTruth DEF Init, InitOver, JournalInv, QueuedInv, RowsInv, SurveyInv, Surveyed, ServedInv,
                    Stored, Recorded, Scans

\* Together the parts are inductive, as far as no scan trusts the wrong file by its size.
LEMMA StepJournalInv ==
  ASSUME JournalInv, ~Misled, [Next]_vars
  PROVE  JournalInv'
<1>1. RowTruth'
  BY StepRowTruth DEF JournalInv
<1> QED BY <1>1, StepQueuedInv, StepRowsInv, StepSurveyInv, StepServedInv DEF JournalInv, RowTruth

\* A record that agrees with rows that agree with the files agrees with the files.
LEMMA JournalIsComplete ==
  ASSUME TypeOK, RowsInv, SurveyInv
  PROVE  JournalComplete
<1> USE InventoryAssumption
<1> SUFFICES ASSUME gate = "ready", NEW k \in Keys, Recorded(k), k \notin dirty
             PROVE  Matches(k)
  BY DEF JournalComplete
<1>1. Agrees(k) /\ \A n \in Names : Tracked(n, k)
  BY DEF RowsInv, SurveyInv, Surveyed
<1>2. packages[k].status \in Statuses
  BY RecordedIsRecord DEF Records
<1>3. \A n \in OnDisk(k) : n \in Held(k) /\ files[n].sha = disk[n].bytes
  BY <1>1 DEF Tracked, OnDisk, Held, ShaOf, KeysOf
<1>4. \A n \in Held(k) : n \in OnDisk(k) /\ disk[n].bytes = files[n].sha
  <2> SUFFICES ASSUME NEW n \in Held(k)
               PROVE  n \in OnDisk(k) /\ disk[n].bytes = files[n].sha
    OBVIOUS
  <2>1. n \in Names /\ disk[n] # None /\ files[n].sha = disk[n].bytes /\ k \in KeysOf(files[n].sha)
    BY <1>1 DEF Tracked, Held
  <2>2. files[n] # None /\ files[n] \in Rows
    BY DEF Held, TypeOK
  <2>3. files[n].sha \in Contents
    BY <2>1, <2>2 DEF Rows, KeysOf
  <2> QED BY <2>1, <2>3 DEF OnDisk, ShaOf
<1>5. CASE packages[k].status = "stored"
  <2>1. IsThere(k)
    BY <1>1, <1>5, TrackedIsThere DEF Stored
  <2> QED BY <1>1, <1>3, <1>5, <2>1 DEF Agrees, Matches
<1>6. CASE packages[k].status = "missing"
  BY <1>1, <1>3, <1>6 DEF Agrees, Matches
<1>7. CASE packages[k].status = "conflict"
  BY <1>1, <1>4, <1>7 DEF Agrees, Matches
<1>8. CASE packages[k].status = "deleted"
  BY <1>1, <1>3, <1>8 DEF Agrees, Matches
<1> QED BY <1>1, <1>2, <1>5, <1>6, <1>7, <1>8 DEF Agrees, Statuses

\* While nobody else writes to the directory no scan is misled, so the invariant holds.
LEMMA StepSoleWriter ==
  TruthInv /\ JournalInv /\ [Next /\ ~Orphans]_vars => TruthInv' /\ JournalInv'
BY StepTruthInv, TruthNotMisled, StepJournalInv

\* Wherever uploads, deletions, limit changes and scans stop, and whatever fails in them, table
\* dirty names every record that does not say what the directory holds.
THEOREM JournalIsKept == Spec => []JournalComplete
<1>1. TruthInv /\ JournalInv => JournalComplete
  BY JournalIsComplete DEF JournalInv, RowTruth, NameInv, TypeInv
<1> QED BY <1>1, InitTruthInv, InitJournalInv, StepSoleWriter, PTL DEF Spec

\* While the manager serves its clients every package recorded as stored has its own bytes under
\* its recorded name: at every step, and again once the startup scan has followed a kill or a
\* power failure, which may have taken a file whose link was not flushed.
THEOREM StoredPackagesAreThere == Spec => []StoredIsThere
<1>1. TruthInv /\ JournalInv => StoredIsThere
  BY DEF JournalInv, ServedInv, Served, StoredIsThere
<1> QED BY <1>1, InitTruthInv, InitJournalInv, StepSoleWriter, PTL DEF Spec

-----------------------------------------------------------------------------
(* A full scan, whatever anybody does to the directory between two         *)
(* critical sections.  Neither RowsInv nor SurveyInv survives that: the    *)
(* scan establishes anew what it needs, and while it holds publishMu       *)
(* nobody disturbs it.                                                     *)

\* A name's row says what is in the directory under it.
Seen(n) == IF disk[n] = None THEN files[n] = None ELSE Right(n)

\* Walking, a full scan has forgotten every row that it did not write itself, and every record is
\* queued; settling, its rows are the directory, and a record that has left the queue agrees with
\* them.
FullInv ==
  job = "full" =>
    /\ pc = "walk" => /\ \A n \in Names : IF n \in unlisted THEN files[n] = None ELSE Seen(n)
                      /\ \A k \in Keys : Recorded(k) => k \in dirty
    /\ pc = "settle" => RowsInv /\ \A n \in Names : Seen(n)

\* A name that is listed is seen: a full scan trusts no row, there being none.
LEMMA ListedIsSeen ==
  ASSUME TypeOK, FullInv, job = "full", NEW n \in Names, VerifyUnread(n) \/ VerifyRead(n)
  PROVE  FullInv'
<1> USE InventoryAssumption DEF TypeOK
<1>1. /\ UNCHANGED <<disk, job>> /\ pc = "walk" /\ pc' = "walk" /\ files[n] = None
      /\ n \in unlisted /\ unlisted' = unlisted \ {n} /\ unlisted \subseteq Names
  BY DEF VerifyUnread, VerifyRead, Listed, FullInv
<1>2. CASE VerifyUnread(n)
  <2>1. disk[n] = None /\ UNCHANGED <<packages, dirty, files>>
    BY <1>1, <1>2 DEF VerifyUnread, Trusts
  <2> QED BY <1>1, <2>1 DEF FullInv, Seen, Right, Recorded
<1>3. CASE VerifyRead(n)
  <2> DEFINE sha == ShaOf(disk[n].bytes)
             row == RowFor(disk[n])
  <2>1. /\ files' = [files EXCEPT ![n] = row] /\ disk[n] \in DiskFiles /\ disk[n] # None
        /\ dirty' = dirty \cup KeysOf(sha) \cup Displaced(n, None)
    BY <1>3 DEF VerifyRead
  <2>2. row \in Rows /\ row.sha = sha
    BY <2>1 DEF RowFor, ShaOf, Rows, DiskFiles, Bytes
  <2>3. Seen(n)'
    BY <1>1, <2>1, <2>2 DEF Seen, Right
  <2>4. ASSUME NEW m \in Names
        PROVE  IF m \in unlisted' THEN files'[m] = None ELSE Seen(m)'
    <3>1. CASE m = n
      BY <1>1, <2>3, <3>1
    <3>2. CASE m # n
      BY <1>1, <2>1, <3>2 DEF FullInv, Seen, Right
    <3> QED BY <3>1, <3>2
  <2>5. ASSUME NEW k \in Keys, Recorded(k)'
        PROVE  k \in dirty'
    <3>1. CASE sha = None
      BY <1>1, <1>3, <2>1, <2>5, <3>1 DEF VerifyRead, Recorded, FullInv
    <3>2. CASE sha # None
      <4>1. packages' = Inventoried(KeyOf[sha], n, sha) /\ KeyOf[sha] \in dirty'
        BY <1>3, <2>1, <3>2 DEF VerifyRead, KeysOf
      <4> QED BY <1>1, <2>1, <2>5, <4>1 DEF Inventoried, Recorded, FullInv
    <3> QED BY <3>1, <3>2
  <2> QED BY <1>1, <2>4, <2>5 DEF FullInv
<1> QED BY <1>2, <1>3

\* Once every name is listed the rows are the directory: none is left of a file that is gone.
LEMMA WalkIsSeen ==
  ASSUME TypeOK, FullInv, job = "full", DropVanished
  PROVE  FullInv'
<1>1. UNCHANGED <<disk, packages>> /\ pc = "walk" /\ pc' = "settle" /\ unlisted = {}
  BY DEF DropVanished
<1>2. \A n \in Names : Seen(n)
  BY <1>1 DEF FullInv
<1>3. \A n \in Names : files'[n] = files[n]
  BY <1>2 DEF DropVanished, Seen
<1>4. dirty \subseteq dirty'
  BY DEF DropVanished
<1> QED BY <1>1, <1>2, <1>3, <1>4 DEF FullInv, Seen, Right, RowsInv, Recorded

\* Settling a record changes no row, and deletes the files of the rows that it takes away.
LEMMA SettledIsSeen ==
  ASSUME TypeOK, ShaKey, FullInv, job = "full", NEW k \in Keys, SettleLive(k) \/ SettleDeleted(k)
  PROVE  FullInv'
<1>1. pc = "settle" /\ pc' = "settle" /\ RowsInv
  BY DEF SettleLive, SettleDeleted, SettleStep, FullInv
<1>2. RowsInv'
  BY <1>1, SettleAgrees, ForgottenAgrees
<1>3. ASSUME NEW n \in Names
      PROVE  Seen(n)'
  <2>1. Seen(n)
    BY <1>1 DEF FullInv
  <2>2. CASE SettleLive(k)
    BY <2>1, <2>2 DEF SettleLive, Seen, Right
  <2>3. CASE SettleDeleted(k)
    BY <2>1, <2>3 DEF SettleDeleted, DeleteFiles, Seen, Right
  <2> QED BY <2>2, <2>3
<1> QED BY <1>1, <1>2, <1>3 DEF FullInv

\* No step of any specification but one that fails to read a file breaks it.
LEMMA StepFullInv ==
  ASSUME TypeOK, ShaKey, FullInv, [Next \/ ManualNext \/ StealthNext]_vars
  PROVE  FullInv'
<1>1. ASSUME pc' \notin {"walk", "settle"}
      PROVE  FullInv'
  BY <1>1 DEF FullInv
<1>2. ASSUME UNCHANGED <<disk, packages, files, dirty, job, pc, unlisted>>
      PROVE  FullInv'
  BY <1>2 DEF FullInv, Seen, Right, RowsInv, Agrees, Held, Recorded
<1>3. CASE UploadNext
  BY <1>1, <1>3 DEF UploadNext, Journal, Duplicate, Link, Flush, Publish, Receipt
<1>4. CASE DeleteNext
  BY <1>1, <1>4 DEF DeleteNext, DeleteVersions, MarkDeleted, Unlink, ForgetFiles
<1>5. CASE LimitNext
  BY <1>1, <1>5 DEF LimitNext, SetLibraryLimit, SetExtensionLimit, Trim, MarkDeleted
<1>6. CASE ScanFull
  BY <1>6 DEF ScanFull, StartScan, FullInv, Recorded
<1>7. CASE ScanRoutine \/ ScanAdopt
  BY <1>7 DEF ScanRoutine, ScanAdopt, StartScan, FullInv
<1>8. ASSUME job' # "full"
      PROVE  FullInv'
  BY <1>8 DEF FullInv
<1>9. ASSUME NEW n \in Names, VerifyUnread(n) \/ VerifyRead(n)
      PROVE  FullInv'
  <2>1. job' = job
    BY <1>9 DEF VerifyUnread, VerifyRead, Listed
  <2> QED BY <1>8, <1>9, <2>1, ListedIsSeen
<1>10. CASE DropVanished
  <2>1. job' = job
    BY <1>10 DEF DropVanished
  <2> QED BY <1>8, <1>10, <2>1, WalkIsSeen
<1>11. ASSUME NEW k \in Keys, SettleLive(k) \/ SettleDeleted(k)
       PROVE  FullInv'
  <2>1. job' = job
    BY <1>11 DEF SettleLive, SettleDeleted
  <2> QED BY <1>8, <1>11, <2>1, SettledIsSeen
<1>12. CASE ScanNext
  BY <1>1, <1>6, <1>7, <1>9, <1>10, <1>11, <1>12
     DEF ScanNext, SettleFails, SettleEnd, Abandon, Release
<1>13. CASE Finish \/ Fail \/ Crash \/ PowerLoss
  BY <1>1, <1>13 DEF Finish, Fail, Crash, PowerLoss, Abandon, Release
<1>14. CASE Restart \/ UNCHANGED vars
  BY <1>2, <1>14 DEF Restart, vars, durable, volatile
<1>15. CASE ManualNext \/ StealthNext
  BY <1>1, <1>15 DEF ManualNext, StealthNext, ManualChange, ManualDelete, StealthEdit, Edit, volatile
<1> QED BY <1>3, <1>4, <1>5, <1>12, <1>13, <1>14, <1>15 DEF Next

\* A record that agrees with rows that are the directory says what the directory holds.
LEMMA SeenMatches ==
  ASSUME TypeOK, NEW k \in Keys, Recorded(k), Agrees(k), \A n \in Names : Seen(n)
  PROVE  Matches(k)
<1> USE InventoryAssumption
<1>1. packages[k].status \in Statuses
  BY RecordedIsRecord DEF Records
<1>2. \A n \in OnDisk(k) : n \in Held(k) /\ files[n].sha = disk[n].bytes
  BY DEF Seen, Right, OnDisk, Held, ShaOf, KeysOf
<1>3. \A n \in Held(k) : n \in OnDisk(k) /\ files[n].sha = disk[n].bytes
  BY DEF Seen, Right, OnDisk, Held, ShaOf, KeysOf
<1>4. CASE packages[k].status = "stored"
  <2>1. IsThere(k)
    BY <1>3, <1>4 DEF Agrees, IsThere, OnDisk
  <2> QED BY <1>2, <1>4, <2>1 DEF Agrees, Matches
<1>5. CASE packages[k].status = "missing"
  BY <1>2, <1>5 DEF Agrees, Matches
<1>6. CASE packages[k].status = "conflict"
  BY <1>3, <1>6 DEF Agrees, Matches
<1>7. CASE packages[k].status = "deleted"
  BY <1>2, <1>7 DEF Agrees, Matches
<1> QED BY <1>1, <1>4, <1>5, <1>6, <1>7 DEF Agrees, Statuses

\* Whatever was done to the files before, a full scan that gets to the end of its queue leaves
\* every record saying what the directory holds.
THEOREM FullScanIsTrue == OpenSpec => FullScanTruth
<1>1. Init => FullInv
  BY DEF Init, InitOver, FullInv
<1>2. TypeInv /\ ShaKey /\ FullInv /\ [Next \/ ManualNext \/ StealthNext]_vars => FullInv'
  BY StepFullInv DEF TypeInv
<1>3. ShaKey /\ TypeInv /\ [AnyNext]_vars => ShaKey'
  BY StepShaKey
<1>4. Next \/ ManualNext \/ StealthNext => AnyNext
  BY DEF AnyNext
<1>5. TypeInv /\ FullInv =>
        (SettleEnd /\ job = "full" => \A k \in Keys : Recorded(k) => Matches(k))
  BY SeenMatches DEF TypeInv, FullInv, SettleEnd, RowsInv
<1> QED BY InitTypeInv, InitShaKey, StepTypeInv, <1>1, <1>2, <1>3, <1>4, <1>5, PTL
        DEF OpenSpec, FullScanTruth

-----------------------------------------------------------------------------
(* Any scan, if the directory was only changed while the manager was       *)
(* stopped, and so that a file's size or time shows it.  What the manager  *)
(* keeps true as the only writer it then keeps true as well, but for the   *)
(* rows that it adopts from records.                                       *)

\* A change by hand is of one name, and lasts.
LEMMA PutFiles ==
  ASSUME TypeOK, NEW m \in Names, NEW f \in DiskFiles \cup {None}, Put(m, f)
  PROVE  /\ disk'[m] = f /\ synced'[m] = f
         /\ \A n \in Names \ {m} : disk'[n] = disk[n] /\ synced'[n] = synced[n]
BY DEF Put, TypeOK

\* Nobody breaks it who changes a file while the manager is stopped: the file's time is not the
\* one that its name's row shows.
LEMMA EditJournalInv ==
  ASSUME JournalInv, ManualNext, gate = "down", OneClaim'
  PROVE  JournalInv'
<1> USE DEF JournalInv, RowTruth, NameInv, TypeInv
<1>1. /\ pc = "idle"
      /\ UNCHANGED <<packages, files, dirty, trusted, gate, job, pc, doomed, gone>>
  BY DEF ManualNext, ManualDelete, ManualChange, Edit, volatile
<1>2. TypeInv' /\ ShaKey'
  BY StepTypeInv, StepShaKey DEF AnyNext
<1>3. NameInv'
  BY <1>1, <1>2 DEF DoomedInv
<1>4. PICK m \in Names, f \in DiskFiles \cup {None} :
        /\ Put(m, f)
        /\ f # None /\ files[m] # None => files[m].mtime # f.mtime
  <2>1. ASSUME NEW n \in Names, NEW b \in Bytes, ManualChange(n, b)
        PROVE  \E f \in DiskFiles : Put(n, f) /\ (files[n] # None => files[n].mtime # f.mtime)
    <3>1. PICK t \in FreshTimes(n, b) : Put(n, [bytes |-> b, mtime |-> t])
      BY <2>1 DEF ManualChange
    <3> QED BY <3>1 DEF FreshTimes, DiskFiles
  <2> QED BY <2>1 DEF ManualNext, ManualDelete
<1>5. /\ disk'[m] = f /\ synced'[m] = f
      /\ \A n \in Names \ {m} : disk'[n] = disk[n] /\ synced'[n] = synced[n]
  BY <1>4, PutFiles
<1>6. TimesInv'
  BY <1>5 DEF TimesInv
<1>7. HonestInv'
  <2> SUFFICES ASSUME NEW n \in Names
               PROVE  Honest(n, disk[n])' /\ Honest(n, synced[n])'
    BY DEF HonestInv
  <2>1. CASE n # m
    BY <1>1, <1>5, <2>1 DEF HonestInv, Honest
  <2>2. CASE n = m
    BY <1>1, <1>4, <1>5, <2>2 DEF Honest
  <2> QED BY <2>1, <2>2
<1>8. ListingInv' /\ SurveyInv' /\ ServedInv'
  BY <1>1 DEF ListingInv, SurveyInv, Surveyed, ServedInv, Served
<1>9. QueuedInv'
  BY <1>1 DEF QueuedInv
<1>10. RowsInv'
  BY <1>1 DEF RowsInv, Agrees, Held, Recorded
<1> QED BY <1>3, <1>6, <1>7, <1>8, <1>9, <1>10

\* At the end of a scan's queue the rows are the directory, and every record agrees with them.
LEMMA SettledMatches ==
  ASSUME JournalInv, SettleEnd, NEW k \in Keys, Recorded(k)
  PROVE  Matches(k)
<1>1. TypeOK /\ Agrees(k)
  BY DEF JournalInv, RowTruth, NameInv, TypeInv, RowsInv, SettleEnd
<1>2. \A n \in Names : Seen(n)
  BY DEF JournalInv, RowTruth, ListingInv, SettleEnd, Seen
<1> QED BY <1>1, <1>2, SeenMatches

\* A routine scan finds out every manual change, a deletion too, that was made while the manager
\* was stopped and that a file's size or time shows, however often the manager had been killed
\* before, unless it goes by the row of a record for a file of the record's size.
THEOREM ScansFindEdits == EditsSpec => ScanFindsEdits
<1> DEFINE EditInv == ~excused => JournalInv
<1>1. EditsInit => EditInv
  BY InitJournalInv DEF EditsInit
<1>2. EditInv /\ [EditsNext]_<<vars, excused>> => EditInv'
  <2> SUFFICES ASSUME EditInv, [EditsNext]_<<vars, excused>>, ~excused'
               PROVE  JournalInv'
    OBVIOUS
  <2>1. CASE Next /\ excused' = (excused \/ \E n \in Names : TrustsBySize(n))
    <3>1. ~excused /\ ~\E n \in Names : TrustsBySize(n)
      BY <2>1, Zenon
    <3> QED BY <2>1, <3>1, StepJournalInv DEF Misled
  <2>2. CASE ManualNext /\ excused' = (excused \/ gate # "down" \/ ~OneClaim')
    <3>1. ~excused /\ gate = "down" /\ OneClaim'
      BY <2>2, Zenon
    <3> QED BY <2>2, <3>1, EditJournalInv
  <2>3. CASE UNCHANGED <<vars, excused>>
    <3>1. JournalInv
      BY <2>3, Zenon
    <3>2. ~Misled
      BY <2>3, <3>1 DEF Misled, TrustsBySize, VerifyUnread, Listed, vars, volatile, TypeOK,
                        JournalInv, RowTruth, NameInv, TypeInv
    <3> QED BY <2>3, <3>1, <3>2, StepJournalInv
  <2>4. CASE StealthNext /\ excused' = TRUE
    BY <2>4, Zenon
  <2> QED BY <2>1, <2>2, <2>3, <2>4 DEF EditsNext
<1>3. EditInv => (SettleEnd /\ ~excused => \A k \in Keys : Recorded(k) => Matches(k))
  BY SettledMatches
<1> QED BY <1>1, <1>2, <1>3, PTL DEF EditsSpec, ScanFindsEdits
=============================================================================
