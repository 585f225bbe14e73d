----------------------------- MODULE Inventory -----------------------------
(***************************************************************************)
(* The manager's inventory: the extension directory, the SQLite records    *)
(* about it, and every critical section that changes either one            *)
(* (internal/server/server.go, limit.go, scan.go; internal/store).         *)
(*                                                                         *)
(* Uploads, deletions, limit changes and scans all hold publishMu, so at   *)
(* most one is under way.  It is a sequence of steps, each one transaction *)
(* or one file operation, and pc names the next one.  Between two steps    *)
(* the process may be killed (Crash) and a step may fail (Fail).           *)
(*                                                                         *)
(* A file is what a scan can tell about it: its bytes, and its             *)
(* modification time.  Its size is SizeOf its bytes, and its SHA-256 is    *)
(* the bytes themselves.                                                   *)
(***************************************************************************)
EXTENDS VersionLimit

CONSTANTS
  Names,          \* file names ending in .vsix in the extension directory
  Contents,       \* VSIX archives that vsix.Inspect accepts
  Junk,           \* file contents that it rejects
  SizeOf,         \* size of each file content
  Keys,           \* package keys: extension@version@platform
  KeyOf,          \* the key an archive's manifest gives it
  CanonicalName,  \* the name under which an upload of a key is published
  Exts,           \* extension IDs
  ExtOf,          \* the extension of a key
  VersionOf,      \* the version of a key
  Times,          \* modification times
  IdemKeys,       \* idempotency keys that clients send
  Offered,        \* the archives that clients upload
  Limits,         \* version limits that operators set (0 keeps every version)
  Found,          \* the directories that the manager may first be started on
  MaxEdits,       \* bound on the manual changes of the directory
  None

Bytes == Contents \cup Junk
UnknownTime == 0   \* the time of a row adopted from a record

Statuses == {"pending", "stored", "missing", "conflict", "deleted"}
Actors == {"operator", "limit"}
Records == [status : Statuses, sha : Contents, filename : Names, by : Actors \cup {None}]
DiskFiles == [bytes : Bytes, mtime : Times]
Rows == [sha : Contents \cup {None}, size : Nat, mtime : Times \cup {UnknownTime}]

ASSUME InventoryAssumption ==
  /\ SizeOf \in [Bytes -> Nat]
  /\ KeyOf \in [Contents -> Keys]
  /\ CanonicalName \in [Keys -> Names]
  /\ ExtOf \in [Keys -> Exts]
  /\ VersionOf \in [Keys -> Versions]
  /\ UnknownTime \notin Times
  /\ Contents \cap Junk = {}
  /\ Offered \subseteq Contents
  /\ Limits \subseteq Nat
  /\ MaxEdits \in Nat
  /\ None \notin Bytes \cup Keys \cup IdemKeys \cup Actors
  /\ None \notin Records
  /\ None \notin DiskFiles
  /\ None \notin Rows

VARIABLES
  disk,      \* the extension directory: a file, or None, under each name
  synced,    \* the directory as a flush last made it final: what a power failure may bring back
  packages,  \* table packages: each key's record, or None
  files,     \* table files: what was last verified under each name, or None
  dirty,     \* table dirty: the keys that the next scan must settle
  trusted,   \* meta 'files_trusted': a scan has completed over table files
  receipts,  \* table uploads: the archive stored under each idempotency key
  library,   \* meta 'keep': the library's version limit
  limits,    \* table limits: an extension's own limit, or None for the library's
  gate,      \* "down", or the state of the inventory scan that afterScan consults
  job,       \* the critical section under way
  pc,        \* its next step
  cur,       \* upload: the staged archive
  idem,      \* upload: its idempotency key, or None
  todo,      \* extensions still to be trimmed (a scan's grew)
  doomed,    \* remove: the file names still to be deleted
  gone,      \* remove: the file names deleted
  unlisted,  \* scan: the names the directory listing has yet to yield
  edits      \* manual changes of the directory so far

durable == <<disk, synced, packages, files, dirty, trusted, receipts, library, limits>>
volatile == <<job, pc, cur, idem, todo, doomed, gone, unlisted>>
vars == <<durable, gate, volatile, edits>>

Scans == {"routine", "full"}
Jobs == {"none", "upload", "limit", "delete"} \cup Scans

TypeOK ==
  /\ disk \in [Names -> DiskFiles \cup {None}]
  /\ synced \in [Names -> DiskFiles \cup {None}]
  /\ packages \in [Keys -> Records \cup {None}]
  /\ files \in [Names -> Rows \cup {None}]
  /\ dirty \subseteq Keys
  /\ trusted \in BOOLEAN
  /\ receipts \in [IdemKeys -> Contents \cup {None}]
  /\ library \in Nat
  /\ limits \in [Exts -> Nat \cup {None}]
  /\ gate \in {"down", "scanning", "ready", "failed"}
  /\ job \in Jobs
  /\ pc \in {"idle", "link", "flush", "publish", "receipt", "trim", "unlink", "walk", "settle"}
  /\ cur \in Contents \cup {None}
  /\ idem \in IdemKeys \cup {None}
  /\ todo \subseteq Exts
  /\ doomed \subseteq Names
  /\ gone \subseteq Names
  /\ unlisted \subseteq Names
  /\ edits \in Nat

-----------------------------------------------------------------------------
(* What the code reads off the tables and the directory.                   *)

Recorded(k) == packages[k] # None
Live(k) == Recorded(k) /\ packages[k].status # "deleted"
KeptVersions(e) == {VersionOf[k] : k \in {x \in Keys : ExtOf[x] = e /\ Live(x)}}
KeepOf(e) == IF limits[e] = None THEN library ELSE limits[e]
Beyond(e) ==
  {k \in Keys : /\ ExtOf[k] = e
                /\ Live(k)
                /\ VersionOf[k] \in Cut(KeptVersions(e), KeepOf(e))}

\* The identity that vsix.Inspect and HashFile find in a file: none if it is junk.
ShaOf(b) == IF b \in Contents THEN b ELSE None
KeysOf(sha) == IF sha = None THEN {} ELSE {KeyOf[sha]}

\* The names that table files remembers as holding a key.
Held(k) == {n \in Names : files[n] # None /\ k \in KeysOf(files[n].sha)}
\* The key that a name's row has to give up for another one, if it has any.
Displaced(n, k) == (IF files[n] = None THEN {} ELSE KeysOf(files[n].sha)) \ {k}

RowFor(f) == [sha |-> ShaOf(f.bytes), size |-> SizeOf[f.bytes], mtime |-> f.mtime]

\* The record r with another status, and deletedBy.
As(r, status, by) ==
  [status |-> status, sha |-> r.sha, filename |-> r.filename, by |-> by]

\* A new file's modification time is none that its name's row remembers, or that
\* another file has which a power failure may still bring back under the name.
FreshTimes(n, b) ==
  {t \in Times : /\ files[n] = None \/ files[n].mtime # t
                 /\ synced[n] = None \/ synced[n].bytes = b \/ synced[n].mtime # t}

Idle == pc = "idle" /\ gate # "down"
Ready == Idle /\ gate = "ready"

\* os.Remove of these names; the directory is not flushed.
DeleteFiles(ns) ==
  /\ disk' = [n \in Names |-> IF n \in ns THEN None ELSE disk[n]]
  /\ UNCHANGED synced

\* The critical section ends and its locals with it.
Release ==
  /\ job' = "none"
  /\ pc' = "idle"
  /\ cur' = None
  /\ idem' = None
  /\ todo' = {}
  /\ doomed' = {}
  /\ gone' = {}
  /\ unlisted' = {}

-----------------------------------------------------------------------------
(* Upload of a staged and inspected archive c, under publishMu.            *)

Admitted(c, i) ==
  LET k == KeyOf[c]
      e == ExtOf[k]
  IN /\ Ready
     /\ ~Outside(KeptVersions(e), VersionOf[k], KeepOf(e))
     /\ i # None => receipts[i] \in {None, c}
     /\ Recorded(k) => packages[k].status # "conflict" /\ packages[k].sha = c

StartUpload(c, i) ==
  /\ job' = "upload"
  /\ cur' = c
  /\ idem' = i
  /\ UNCHANGED <<doomed, gone, unlisted>>

JournaledAsStored(k, c) ==   \* mutant: the record promises the file before its link
  [status |-> "stored", sha |-> c, by |-> None,
   filename |-> IF Recorded(k) THEN packages[k].filename ELSE CanonicalName[k]]
Journaled(k, c) ==
  [status |-> "pending", sha |-> c, by |-> None,
   filename |-> IF Recorded(k) THEN packages[k].filename ELSE CanonicalName[k]]

\* The identity is new, or its file is not there: record the publication first.
Journal(c, i) ==
  LET k == KeyOf[c] IN
  /\ Admitted(c, i)
  /\ Recorded(k) => disk[packages[k].filename] = None
  /\ packages' = [packages EXCEPT ![k] = Journaled(k, c)]
  /\ dirty' = dirty \cup {k}
  /\ StartUpload(c, i)
  /\ pc' = "link"
  /\ todo' = {ExtOf[k]}
  /\ UNCHANGED <<disk, synced, files, trusted, receipts, library, limits, gate, edits>>

LinkUnpublished ==   \* mutant: the receipt comes before the publication
  LET n == packages[KeyOf[cur]].filename IN
  /\ pc = "link"
  /\ disk[n] = None
  /\ \E t \in FreshTimes(n, cur) : disk' = [disk EXCEPT ![n] = [bytes |-> cur, mtime |-> t]]
  /\ pc' = "receipt"
  /\ UNCHANGED <<synced, packages, files, dirty, trusted, receipts, library, limits, gate,
                 job, cur, idem, todo, doomed, gone, unlisted, edits>>
\* os.Link refuses an existing name: only Fail goes on from there.
Link ==
  LET n == packages[KeyOf[cur]].filename IN
  /\ pc = "link"
  /\ disk[n] = None
  /\ \E t \in FreshTimes(n, cur) : disk' = [disk EXCEPT ![n] = [bytes |-> cur, mtime |-> t]]
  /\ pc' = "flush"
  /\ UNCHANGED <<synced, packages, files, dirty, trusted, receipts, library, limits, gate,
                 job, cur, idem, todo, doomed, gone, unlisted, edits>>

\* The link, and whatever was linked or deleted before it, outlasts a power failure now.
Flush ==
  /\ pc = "flush"
  /\ synced' = disk
  /\ pc' = "publish"
  /\ UNCHANGED <<disk, packages, files, dirty, trusted, receipts, library, limits, gate,
                 job, cur, idem, todo, doomed, gone, unlisted, edits>>

\* store.Publish: the record is stored and table files remembers its file.
PublishRecord(k) ==
  LET n == packages[k].filename IN
  /\ packages' = [packages EXCEPT ![k] = As(packages[k], "stored", None)]
  /\ files' = [files EXCEPT ![n] =
       RowFor([bytes |-> packages[k].sha, mtime |-> disk[n].mtime])]
  /\ dirty' = dirty \cup Displaced(n, k)

Publish ==
  /\ pc = "publish"
  /\ PublishRecord(KeyOf[cur])
  /\ pc' = "receipt"
  /\ UNCHANGED <<disk, synced, trusted, receipts, library, limits, gate,
                 job, cur, idem, todo, doomed, gone, unlisted, edits>>

\* The identical file is already there: confirm it, whatever its status was.
Duplicate(c, i) ==
  LET k == KeyOf[c] IN
  /\ Admitted(c, i)
  /\ Recorded(k)
  /\ disk[packages[k].filename] # None
  /\ disk[packages[k].filename].bytes = c
  /\ PublishRecord(k)
  /\ StartUpload(c, i)
  /\ pc' = "receipt"
  /\ todo' = {}
  /\ UNCHANGED <<disk, synced, trusted, receipts, library, limits, gate, edits>>

\* store.Upload: the first receipt under an idempotency key stands.
Receipt ==
  /\ pc = "receipt"
  /\ receipts' = IF idem # None /\ receipts[idem] = None
                 THEN [receipts EXCEPT ![idem] = cur] ELSE receipts
  /\ pc' = "trim"
  /\ UNCHANGED <<disk, synced, packages, files, dirty, trusted, library, limits, gate,
                 job, cur, idem, todo, doomed, gone, unlisted, edits>>

-----------------------------------------------------------------------------
(* Deleting versions.  remove marks the targets deleted in one             *)
(* transaction, then deletes the remembered and the recorded file names    *)
(* one by one, then forgets the rows of those that are gone.               *)

NamesOfExtension(targets) ==   \* mutant: every file of the extensions concerned
  UNION {Held(k) \cup {packages[k].filename} :
           k \in {x \in Keys : Recorded(x) /\ \E y \in targets : ExtOf[x] = ExtOf[y]}}
NamesOf(targets) ==
  UNION {Held(k) \cup {packages[k].filename} : k \in targets}

MarkDeletedOnly(targets, by) ==   \* mutant: the deleted keys are not queued
  /\ packages' = [k \in Keys |->
       IF k \in targets THEN As(packages[k], "deleted", by) ELSE packages[k]]
  /\ doomed' = NamesOf(targets)
  /\ pc' = "unlink"
  /\ UNCHANGED dirty
MarkDeleted(targets, by) ==
  /\ packages' = [k \in Keys |->
       IF k \in targets THEN As(packages[k], "deleted", by) ELSE packages[k]]
  /\ dirty' = dirty \cup targets
  /\ doomed' = NamesOf(targets)
  /\ pc' = "unlink"

Unlink(n) ==
  /\ pc = "unlink"
  /\ n \in doomed
  /\ doomed' = doomed \ {n}
  /\ \/ /\ DeleteFiles({n})
        /\ gone' = gone \cup {n}
     \/ /\ disk[n] # None     \* os.Remove failed: counted in filesRemaining
        /\ UNCHANGED <<disk, synced, gone>>
  /\ UNCHANGED <<packages, files, dirty, trusted, receipts, library, limits, gate,
                 job, pc, cur, idem, todo, unlisted, edits>>

ForgetFiles ==
  /\ pc = "unlink"
  /\ doomed = {}
  /\ \/ files' = [n \in Names |-> IF n \in gone THEN None ELSE files[n]]
     \/ UNCHANGED files       \* the transaction failed: logged and passed over
  /\ gone' = {}
  /\ pc' = "trim"
  /\ UNCHANGED <<disk, synced, packages, dirty, trusted, receipts, library, limits, gate,
                 job, cur, idem, todo, doomed, unlisted, edits>>

\* Applies its limit to one extension: trim, or an iteration of a limit change.
Trim(e) ==
  /\ pc = "trim"
  /\ e \in todo
  /\ todo' = todo \ {e}
  /\ IF Beyond(e) = {}
     THEN UNCHANGED <<packages, dirty, doomed, pc>>
     ELSE MarkDeleted(Beyond(e), "limit")
  /\ UNCHANGED <<disk, synced, files, trusted, receipts, library, limits, gate,
                 job, cur, idem, gone, unlisted, edits>>

\* deleteVersions: of one extension, every version up to v in semantic order.
DeleteVersions(e, v) ==
  LET targets == {k \in Keys : /\ ExtOf[k] = e
                               /\ Live(k)
                               /\ Rank[VersionOf[k]] <= Rank[v]}
  IN /\ Ready
     /\ targets # {}
     /\ MarkDeleted(targets, "operator")
     /\ job' = "delete"
     /\ UNCHANGED <<disk, synced, files, trusted, receipts, library, limits, gate,
                    cur, idem, todo, gone, unlisted, edits>>

SetLibraryLimit(keep) ==
  /\ Ready
  /\ library' = keep
  /\ job' = "limit"
  /\ pc' = "trim"
  /\ todo' = IF keep = 0 THEN {} ELSE {e \in Exts : limits[e] = None}
  /\ UNCHANGED <<disk, synced, packages, files, dirty, trusted, receipts, limits, gate,
                 cur, idem, doomed, gone, unlisted, edits>>

SetExtensionLimit(e, keep) ==
  /\ Ready
  /\ limits' = [limits EXCEPT ![e] = keep]
  /\ job' = "limit"
  /\ pc' = "trim"
  /\ todo' = {e}
  /\ UNCHANGED <<disk, synced, packages, files, dirty, trusted, receipts, library, gate,
                 cur, idem, doomed, gone, unlisted, edits>>

-----------------------------------------------------------------------------
(* A scan: reconcileStorage, run at every start and by POST /reconcile.    *)
(* Each walk and settle batch is one file or one key here, the smallest    *)
(* transaction that scanBatch allows.                                      *)

StartScan(mode) ==
  /\ Idle
  /\ job' = mode
  /\ pc' = "walk"
  /\ unlisted' = Names
  /\ UNCHANGED <<disk, synced, packages, receipts, library, limits, gate,
                 cur, idem, todo, doomed, gone, edits>>

ScanFullTrusting ==   \* mutant: the remembered files are kept
  /\ gate \in {"ready", "failed"}
  /\ StartScan("full")
  /\ dirty' = dirty \cup {k \in Keys : Recorded(k)}
  /\ trusted' = FALSE
  /\ UNCHANGED files
\* Full: forget every remembered file and settle every record.
ScanFull ==
  /\ gate \in {"ready", "failed"}
  /\ StartScan("full")
  /\ files' = [n \in Names |-> None]
  /\ dirty' = dirty \cup {k \in Keys : Recorded(k)}
  /\ trusted' = FALSE

\* Routine, with table files trusted since an earlier scan completed.
ScanRoutine ==
  /\ trusted
  /\ StartScan("routine")
  /\ UNCHANGED <<files, dirty, trusted>>

\* Routine, without: the files of stored records are remembered unread, a name
\* for one record at most; every record that gets none is to be settled.
ClaimsUnsettled(n) ==   \* mutant: whatever the record's status
  {k \in Keys : Recorded(k) /\ packages[k].filename = n}
Claims(n) ==
  {k \in Keys : /\ Recorded(k)
                /\ packages[k].status = "stored"
                /\ packages[k].filename = n}
Adopted(n) ==
  IF files[n] = None /\ Claims(n) # {} THEN {CHOOSE k \in Claims(n) : TRUE} ELSE {}
AdoptedRow(sha) == [sha |-> sha, size |-> SizeOf[sha], mtime |-> UnknownTime]

ScanAdopt ==
  /\ ~trusted
  /\ StartScan("routine")
  /\ files' = [n \in Names |->
       IF Adopted(n) = {} THEN files[n]
       ELSE AdoptedRow(packages[CHOOSE k \in Claims(n) : TRUE].sha)]
  /\ dirty' = dirty \cup {k \in Keys : Recorded(k) /\ \A n \in Names : k \notin Adopted(n)}
  /\ UNCHANGED trusted

Listed(n) ==
  /\ pc = "walk"
  /\ n \in unlisted
  /\ unlisted' = unlisted \ {n}
  /\ UNCHANGED <<disk, synced, trusted, receipts, library, limits, gate,
                 job, pc, cur, idem, todo, doomed, gone, edits>>

TrustsSize(n) ==   \* mutant: the modification time is not compared
  files[n] # None /\ files[n].size = SizeOf[disk[n].bytes]
\* The name's row is as good as its file: the same size, and the same time or
\* the time of an adopted row.
Trusts(n) ==
  /\ files[n] # None
  /\ files[n].size = SizeOf[disk[n].bytes]
  /\ files[n].mtime \in {disk[n].mtime, UnknownTime}

\* Nothing under the name, or a file to be trusted without reading it.
VerifyUnread(n) ==
  /\ Listed(n)
  /\ disk[n] # None => Trusts(n)
  /\ files' = IF disk[n] = None THEN files
              ELSE [files EXCEPT ![n] = [sha |-> files[n].sha, size |-> files[n].size,
                                         mtime |-> disk[n].mtime]]
  /\ UNCHANGED <<packages, dirty>>

InventoriedAfresh(k, n, sha) ==   \* mutant: a record met again starts over
  IF ~Recorded(k) \/ packages[k].sha = sha
  THEN [packages EXCEPT ![k] =
          [status |-> "pending", sha |-> sha, by |-> None, filename |-> n]]
  ELSE packages
InventoriedOver(k, n, sha) ==   \* mutant: other bytes take the record over
  IF ~Recorded(k)
  THEN [packages EXCEPT ![k] =
          [status |-> "pending", sha |-> sha, by |-> None, filename |-> n]]
  ELSE [packages EXCEPT ![k].sha = sha]
\* inventory: a record for a key seen for the first time, fresh metadata (and no
\* deletedBy) for the record of identical bytes, nothing for one of other bytes.
Inventoried(k, n, sha) ==
  IF ~Recorded(k)
  THEN [packages EXCEPT ![k] =
          [status |-> "pending", sha |-> sha, by |-> None, filename |-> n]]
  ELSE IF packages[k].sha = sha
  THEN [packages EXCEPT ![k] = As(packages[k], packages[k].status, None)]
  ELSE packages

\* The file is new or changed: read it.
VerifyRead(n) ==
  /\ Listed(n)
  /\ disk[n] # None
  /\ ~Trusts(n)
  /\ files' = [files EXCEPT ![n] = RowFor(disk[n])]
  /\ LET sha == ShaOf(disk[n].bytes) IN
       /\ packages' = IF sha = None THEN packages ELSE Inventoried(KeyOf[sha], n, sha)
       /\ dirty' = dirty \cup KeysOf(sha) \cup Displaced(n, None)

DropVanished ==
  LET vanished == {n \in Names : files[n] # None /\ disk[n] = None} IN
  /\ pc = "walk"
  /\ unlisted = {}
  /\ files' = [n \in Names |-> IF n \in vanished THEN None ELSE files[n]]
  /\ dirty' = dirty \cup UNION {Displaced(n, None) : n \in vanished}
  /\ pc' = "settle"
  /\ UNCHANGED <<disk, synced, packages, trusted, receipts, library, limits, gate,
                 job, cur, idem, todo, doomed, gone, unlisted, edits>>

SettledUnnamed(k) ==   \* mutant: a missing record loses its file name
  IF Held(k) = {} THEN [packages[k] EXCEPT !.status = "missing", !.filename = None]
  ELSE [packages[k] EXCEPT !.status = "stored"]
SettledByOne(k) ==   \* mutant: one matching file is enough
  LET r == packages[k]
      same == {n \in Held(k) : files[n].sha = r.sha}
  IN IF Held(k) = {} THEN [r EXCEPT !.status = "missing"]
     ELSE IF same = {} THEN [r EXCEPT !.status = "conflict"]
     ELSE [r EXCEPT !.status = "stored", !.filename = CHOOSE n \in same : TRUE]
SettledByFirst(k) ==   \* mutant: the name is that of the batch's first file
  LET r == packages[k] IN
  IF Held(k) = {} THEN As(r, "missing", r.by)
  ELSE IF \E n \in Held(k) : files[n].sha # r.sha THEN As(r, "conflict", r.by)
  ELSE [status |-> "stored", sha |-> r.sha, by |-> r.by,
        filename |-> CHOOSE n \in Names : files[n] # None]
\* settled: the status and file name that the remembered files give a record.
Settled(k) ==
  LET r == packages[k] IN
  IF Held(k) = {} THEN As(r, "missing", r.by)
  ELSE IF \E n \in Held(k) : files[n].sha # r.sha THEN As(r, "conflict", r.by)
  ELSE [status |-> "stored", sha |-> r.sha, by |-> r.by,
        filename |-> IF r.filename \in Held(k) THEN r.filename
                     ELSE CHOOSE n \in Held(k) : TRUE]

\* The files that a deleted record still has: other bytes under its key are not.
Leftovers(k) == {n \in Held(k) : files[n].sha = packages[k].sha}

SettleStep(k) ==
  /\ pc = "settle"
  /\ k \in dirty
  /\ UNCHANGED <<trusted, receipts, library, limits,
                 cur, idem, doomed, gone, unlisted, edits>>

SettleLive(k) ==
  /\ SettleStep(k)
  /\ Live(k)
  /\ packages' = [packages EXCEPT ![k] = Settled(k)]
  /\ todo' = IF Settled(k).status = "stored" /\ packages[k].status # "stored"
             THEN todo \cup {ExtOf[k]} ELSE todo
  /\ dirty' = dirty \ {k}
  /\ UNCHANGED <<disk, synced, files, gate, job, pc>>

SettleDeletedAgain(k) ==   \* mutant: a deleted key stays queued
  LET left == IF Recorded(k) THEN Leftovers(k) ELSE {} IN
  /\ SettleStep(k)
  /\ ~Live(k)
  /\ DeleteFiles(left)
  /\ files' = [n \in Names |-> IF n \in left THEN None ELSE files[n]]
  /\ UNCHANGED <<packages, dirty, todo, gate, job, pc>>
\* A key in table dirty may have no record: only its row leaves the queue.
SettleDeleted(k) ==
  LET left == IF Recorded(k) THEN Leftovers(k) ELSE {} IN
  /\ SettleStep(k)
  /\ ~Live(k)
  /\ DeleteFiles(left)
  /\ files' = [n \in Names |-> IF n \in left THEN None ELSE files[n]]
  /\ dirty' = dirty \ {k}
  /\ UNCHANGED <<packages, todo, gate, job, pc>>

SettleEnd ==
  /\ pc = "settle"
  /\ dirty = {}
  /\ pc' = "trim"
  /\ UNCHANGED <<durable, gate, job, cur, idem, todo, doomed, gone, unlisted, edits>>

-----------------------------------------------------------------------------
(* Ends of a critical section, the process's life, and the outside.        *)

\* Nothing is left to trim.  A scan marks table files trusted and opens the gate.
Finish ==
  /\ pc = "trim"
  /\ todo = {}
  /\ trusted' = (trusted \/ job \in Scans)
  /\ gate' = IF job \in Scans THEN "ready" ELSE gate
  /\ Release
  /\ UNCHANGED <<disk, synced, packages, files, dirty, receipts, library, limits, edits>>

AbandonSilently ==   \* mutant: nobody is told of a failing scan
  /\ gate' = gate
  /\ Release
\* The critical section returns an error; a failing startup scan, or a reconcile
\* that was to make up for one, leaves the gate closed.
Abandon ==
  /\ gate' = IF job \in Scans /\ gate # "ready" THEN "failed" ELSE gate
  /\ Release

\* The next step fails and its transaction rolls back. After an upload's Receipt
\* only the trim is lost, which the handler logs.
Fail ==
  /\ pc \notin {"idle", "unlink"}
  /\ Abandon
  /\ UNCHANGED <<durable, edits>>

\* The transaction that settles a batch fails among the file deletions of its
\* deleted records: those it has done stay done.
SettleFails ==
  LET batch == {k \in dirty : Recorded(k) /\ ~Live(k)} IN
  /\ pc = "settle"
  /\ \E some \in SUBSET UNION {Leftovers(k) : k \in batch} : some # {} /\ DeleteFiles(some)
  /\ Abandon
  /\ UNCHANGED <<packages, files, dirty, trusted, receipts, library, limits, edits>>

\* The process is killed or stopped; only disk and database remain.
Crash ==
  /\ gate # "down"
  /\ gate' = "down"
  /\ Release
  /\ UNCHANGED <<durable, edits>>

\* The names that were changed since the directory was last flushed.
Unsynced == {n \in Names : disk[n] # synced[n]}

\* The machine goes down instead: what was not flushed may be undone with it, of a
\* deletion and a later link of one name both, the link, or neither.  The database
\* syncs every commit.
PowerLoss ==
  /\ gate # "down"
  /\ gate' = "down"
  /\ \E undone \in SUBSET Unsynced : \E emptied \in SUBSET undone :
       disk' = [n \in Names |-> IF n \in emptied THEN None
                               ELSE IF n \in undone THEN synced[n] ELSE disk[n]]
  /\ synced' = disk'
  /\ Release
  /\ UNCHANGED <<packages, files, dirty, trusted, receipts, library, limits, edits>>

\* New opens the database and Start begins a routine scan.
Restart ==
  /\ gate = "down"
  /\ gate' = "scanning"
  /\ UNCHANGED <<durable, volatile, edits>>

\* A file that could not be read is taken for one that is no VSIX.
VerifyUnreadable(n) ==
  /\ Listed(n)
  /\ disk[n] # None
  /\ ~Trusts(n)
  /\ files' = [files EXCEPT ![n] =
       [sha |-> None, size |-> SizeOf[disk[n].bytes], mtime |-> disk[n].mtime]]
  /\ dirty' = dirty \cup Displaced(n, None)
  /\ UNCHANGED packages

\* With the manager stopped, or between two of its critical sections, somebody
\* changes the directory, and sees to it that the change lasts.
Edit ==
  /\ pc = "idle"
  /\ edits < MaxEdits
  /\ edits' = edits + 1
  /\ UNCHANGED <<packages, files, dirty, trusted, receipts, library, limits, gate, volatile>>

Put(n, f) ==
  /\ disk' = [disk EXCEPT ![n] = f]
  /\ synced' = [synced EXCEPT ![n] = f]

\* A file is added or replaced.
ManualChange(n, b) ==
  /\ Edit
  /\ disk[n] # None => disk[n].bytes # b
  /\ \E t \in FreshTimes(n, b) : Put(n, [bytes |-> b, mtime |-> t])

ManualDelete(n) ==
  /\ Edit
  /\ disk[n] # None
  /\ Put(n, None)

\* A file's bytes are replaced by as many others and its time is put back.
StealthEdit(n, b) ==
  /\ Edit
  /\ disk[n] # None
  /\ b # disk[n].bytes
  /\ SizeOf[b] = SizeOf[disk[n].bytes]
  /\ Put(n, [bytes |-> b, mtime |-> disk[n].mtime])

-----------------------------------------------------------------------------
(* Specifications.                                                         *)

\* The first start over a directory d.
InitOver(d) ==
  /\ disk = d
  /\ synced = d
  /\ packages = [k \in Keys |-> None]
  /\ files = [n \in Names |-> None]
  /\ dirty = {}
  /\ trusted = FALSE
  /\ receipts = [i \in IdemKeys |-> None]
  /\ library = 0
  /\ limits = [e \in Exts |-> None]
  /\ gate = "down"
  /\ job = "none"
  /\ pc = "idle"
  /\ cur = None
  /\ idem = None
  /\ todo = {}
  /\ doomed = {}
  /\ gone = {}
  /\ unlisted = {}
  /\ edits = 0

Init == \E d \in Found : InitOver(d)

UploadNext ==
  \/ \E c \in Offered, i \in IdemKeys \cup {None} : Journal(c, i) \/ Duplicate(c, i)
  \/ Link
  \/ Flush
  \/ Publish
  \/ Receipt

DeleteNext ==
  \/ \E e \in Exts, v \in Versions : DeleteVersions(e, v)
  \/ \E n \in Names : Unlink(n)
  \/ ForgetFiles

LimitNext ==
  \/ \E keep \in Limits : SetLibraryLimit(keep)
  \/ \E e \in Exts, keep \in Limits \cup {None} : SetExtensionLimit(e, keep)
  \/ \E e \in Exts : Trim(e)

ScanNext ==
  \/ ScanFull
  \/ ScanRoutine
  \/ ScanAdopt
  \/ \E n \in Names : VerifyUnread(n) \/ VerifyRead(n)
  \/ DropVanished
  \/ \E k \in Keys : SettleLive(k) \/ SettleDeleted(k)
  \/ SettleFails
  \/ SettleEnd

Next == UploadNext \/ DeleteNext \/ LimitNext \/ ScanNext \/ Finish \/ Fail \/ Crash \/ PowerLoss \/ Restart

ManualNext == \E n \in Names : ManualDelete(n) \/ \E b \in Bytes : ManualChange(n, b)
StealthNext == \E n \in Names, b \in Bytes : StealthEdit(n, b)
FaultNext == \E n \in Names : VerifyUnreadable(n)

\* A walk takes the word of a row adopted from a record for a file that is not the
\* record's but has its size.
TrustsBySize(n) ==
  /\ VerifyUnread(n)
  /\ disk[n] # None
  /\ files[n].mtime = UnknownTime
  /\ files[n].sha # ShaOf(disk[n].bytes)

\* An upload fails or is killed before its flush, under a name from which a file of
\* other bytes was deleted since the last flush: a power failure may bring that file
\* back under the name, whatever becomes of the upload.
Overlinked ==
  /\ pc = "flush"
  /\ LET f == synced[packages[KeyOf[cur]].filename] IN f # None /\ f.bytes # cur
Orphans == Overlinked /\ (Fail \/ Crash)

\* One manager owns the directory, nobody else writes to it, and no power failure
\* puts another file in the place of an upload.
Spec == Init /\ [][Next /\ ~Orphans]_vars

\* Manual changes with the manager stopped, each of which a file's size or
\* time shows: what docs/deployment.md lets an operator do.
StoppedNext == Next \/ (gate = "down" /\ ManualNext)

\* Any manual changes.
OpenSpec == Init /\ [][Next \/ ManualNext \/ StealthNext]_vars

\* The sole owner again, but a file may fail to be read.
FaultySpec == Init /\ [][Next \/ FaultNext]_vars

\* The goroutine in a critical section goes on to its next step for as long as
\* there is one, and no failure or crash is counted on to end a loop; a refused
\* link is an error return; the one that Start launched gets to begin its scan.
Proceed == (pc # "idle" /\ Next /\ pc' # "idle") \/ Finish
LinkRefused == pc = "link" /\ disk[packages[KeyOf[cur]].filename] # None /\ Fail
Fairness ==
  /\ WF_vars(Proceed)
  /\ WF_vars(LinkRefused)
  /\ WF_vars(gate = "scanning" /\ (ScanRoutine \/ ScanAdopt))

FairSpec == Spec /\ Fairness

-----------------------------------------------------------------------------
(* Correctness.                                                            *)

\* Whenever the manager serves its clients, a package recorded as stored has its
\* recorded bytes under its recorded name: at every step of every operation, and
\* again after every crash and power failure, once the startup scan is through.
Stored(k) == Recorded(k) /\ packages[k].status = "stored"
IsThere(k) == LET f == disk[packages[k].filename] IN f # None /\ f.bytes = packages[k].sha
StoredIsThere == gate = "ready" => \A k \in Keys : Stored(k) => IsThere(k)

\* A stored package loses its file to one thing only, a power failure before any
\* flush of the directory has followed the file's link (server.go:805, 849): no
\* crash, failed step, retry, deletion of another package or scan takes it.
FilesLast ==
  [][\A k \in Keys :
       Stored(k) /\ IsThere(k) /\ ~IsThere(k)' =>
         PowerLoss /\ packages[k].filename \in Unsynced]_vars

\* An upload that is answered with success is on the disk to stay: a power failure
\* does not undo the link of its file (docs/api.md:53).
AcknowledgedIsDurable ==
  [][job = "upload" /\ Finish => packages[KeyOf[cur]].filename \notin Unsynced]_vars

\* No two packages lay claim to one file name, be it with the file itself, the
\* row that remembers it, the record, or the name an upload would publish under:
\* what lets remove delete by name, and Publish replace a row.
ClaimsOn(n) ==
  {k \in Keys : \/ CanonicalName[k] = n
                \/ Recorded(k) /\ packages[k].filename = n
                \/ disk[n] # None /\ k \in KeysOf(ShaOf(disk[n].bytes))
                \/ synced[n] # None /\ k \in KeysOf(ShaOf(synced[n].bytes))
                \/ files[n] # None /\ k \in KeysOf(files[n].sha)}
OneClaim == \A n \in Names : \A k, x \in ClaimsOn(n) : k = x

\* A routine scan never trusts a row that is wrong about its file.
RowsHonest ==
  \A n \in Names :
    disk[n] # None /\ Trusts(n) => files[n].sha = ShaOf(disk[n].bytes)

\* Table dirty is a complete journal: once a scan has listed the directory, a
\* record that is not queued says what the directory holds.
OnDisk(k) == {n \in Names : disk[n] # None /\ k \in KeysOf(ShaOf(disk[n].bytes))}
Matches(k) ==
  LET r == packages[k] IN
  CASE r.status = "pending" -> FALSE
    [] r.status = "stored" -> IsThere(k) /\ \A n \in OnDisk(k) : disk[n].bytes = r.sha
    [] r.status = "missing" -> OnDisk(k) = {}
    [] r.status = "conflict" -> \E n \in OnDisk(k) : disk[n].bytes # r.sha
    [] r.status = "deleted" -> \A n \in OnDisk(k) : disk[n].bytes # r.sha
JournalComplete ==
  gate = "ready" => \A k \in Keys : Recorded(k) /\ k \notin dirty => Matches(k)

\* A stored package stays stored until it is deleted, or a file with other bytes
\* under its key is found, or its file has gone, which FilesLast says how: no crash,
\* failure, retry or scan takes its record back.
StoredStays ==
  [][\A k \in Keys : Stored(k) =>
       \/ packages'[k].status \in {"stored", "deleted", "conflict"}
       \/ packages'[k].status = "missing" /\ OnDisk(k) = {}]_vars

\* A deleted version comes back by an upload only, not by a scan that meets its
\* file again.
DeletedStays ==
  [][\A k \in Keys : Recorded(k) /\ packages[k].status = "deleted" =>
       packages'[k].status = "deleted" \/ job' = "upload"]_vars

\* Trimming an extension leaves its newest versions and as many as the limit
\* keeps: what goes is no newer than all that stays.
Within(e) == KeepOf(e) = 0 \/ Cardinality(KeptVersions(e)) <= KeepOf(e)
TrimIsExact ==
  [][\A e \in todo \ todo' : pc = "trim" /\ pc' # "idle" =>
       LET live == {k \in Keys : ExtOf[k] = e /\ Live(k)}
           spared == {k \in live : packages'[k].status # "deleted"}
       IN /\ \A k \in live \ spared, x \in spared : Rank[VersionOf[k]] <= Rank[VersionOf[x]]
          /\ IF Within(e) THEN spared = live
             ELSE Cardinality({VersionOf[k] : k \in spared}) = KeepOf(e)]_vars

\* The manager deletes a file with a package's bytes only while that package's
\* record says deleted.
Removes(n) == pc # "idle" /\ gate' # "down" /\ disk[n] # None /\ disk'[n] = None
DeletesOnlyDeleted ==
  [][\A n \in Names :
       Removes(n) /\ disk[n].bytes \in Contents =>
         LET r == packages[KeyOf[disk[n].bytes]] IN r # None /\ r.status = "deleted"]_vars

\* A record is marked missing for want of a file, not because a file that is
\* there could not be read.
MissingIsAbsent ==
  [][\A k \in Keys : SettleLive(k) /\ packages'[k].status = "missing" => OnDisk(k) = {}]_vars

\* Once recorded, a key means the same bytes for good.
IdentityPinned ==
  [][\A k \in Keys : Recorded(k) =>
       packages'[k] # None /\ packages'[k].sha = packages[k].sha]_vars

\* A receipt stands for good, it is issued only for bytes that the inventory has
\* stored, and an upload answered with success has its own.
ReceiptsStand ==
  [][\A i \in IdemKeys :
       /\ receipts'[i] # receipts[i] =>
            /\ receipts[i] = None
            /\ packages[KeyOf[receipts'[i]]].status = "stored"
            /\ packages[KeyOf[receipts'[i]]].sha = receipts'[i]
       /\ job = "upload" /\ idem = i /\ Finish => receipts[i] = cur]_vars

\* What a full scan leaves behind is what the directory holds: every record, queued
\* since or not, says so, whatever was done to the files.
FullScanTruth ==
  [][SettleEnd /\ job = "full" => \A k \in Keys : Recorded(k) => Matches(k)]_vars

\* A scan that completes has applied the version limits to what it found.
LimitAfterScan == [][Finish /\ job \in Scans => \A e \in Exts : Within(e)]_vars

\* publishMu is released: no trim, deletion loop, settle loop or failing step of
\* a critical section keeps it for good.
LockReleased == job # "none" ~> job = "none"

\* The startup scan comes to an end, and with it the 503 answers.
StartupEnds == gate = "scanning" ~> gate # "scanning"
=============================================================================
