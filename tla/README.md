# A verification of Private Marketplace Manager

TLA+ modules, TLC configurations and TLAPS proofs about the manager of a private
VS Code extension library (`src/`). The subject is the part of the program that can
lose or corrupt a library without any single function being wrong: the SQLite
inventory, the extension directory, the operations that change both, the requests and
scans that share its locks, the summaries it answers from, and the client that keeps the
library in step with a gallery.

    tlc -config inv_two.cfg MCNamed.tla        # model-check one instance
    tlc -config sync.cfg MCSyncer.tla
    tlapm InventoryProofs.tla                  # check the proofs
    tlapm InventoryUploadProofs.tla
    tlapm InventoryJournalProofs.tla
    tlapm InventoryArchiveProofs.tla
    tlapm AdmissionProofs.tla
    tlapm SummariesProofs.tla
    tlapm VersionLimitProofs.tla
    tlapm SyncerProofs.tla

## The system

| Component | State | Operations | Modelled |
|---|---|---|---|
| Inventory records (`internal/store`) | tables `packages`, `files`, `dirty`, `uploads`, `limits`, `meta` | one transaction each: Journal, Publish, MarkDeleted, ForgetFiles, Upload, SetKeep, ... | `Inventory` |
| Upload (`server.go` upload) | a staged file; the locals of the handler | admission checks, Journal, link, flush, Publish, receipt, trim; the 200 path for a file that is already there | `Inventory` |
| Version limits (`limit.go`) | `meta 'keep'`, table `limits` | outside, beyond, trim, setLibraryLimit, setExtensionLimit | `VersionLimit`, `Inventory` |
| Deletion (`server.go` deleteVersions, `limit.go` remove) | file names still to delete | MarkDeleted, os.Remove one by one, ForgetFiles | `Inventory` |
| Scan (`scan.go`) | directory listing, `grew`, `files_trusted` | forget or adopt, walk and verify, dropVanished, settle, trims | `Inventory` |
| Startup gate (`server.go` Start, finishScan, afterScan, reconcile) | scan status | 503 until a scan has succeeded; reconcile retries a failed one | `Admission`, `Inventory` |
| Admission (`server.go`, `cmd/manager`) | `maintenance` and `publishMu` locks, four upload slots, staging files, the process's life | lock order, 429 for a fifth upload, sweeping, shutdown | `Admission` |
| Authentication | sessions, login attempts | token, login, logout, throttling | no: it decides who may send a request, and the models let every request come |
| Summaries and catalog (`store.go`) | tables `summaries`, `summary_dirty`, triggers | RefreshSummaries, Totals, Catalog, ExtensionsOver, the upgrade in Open | `Summaries` |
| Sync client (`internal/syncer`) | a run's report, a queue of artifacts, what each worker is doing | discover, check, newest, transfer, retry, awaitManager | `Syncer`, partly |
| Audit log, sync runs, disk report | append-only tables, statfs | reports | no: nothing decides by them |
| VSIX inspection, HTTP set-up, MCP server, API client, command lines, web page | none, or one process's own | parsing, presentation, configuration | no |

Inside the manager everything interacts through two pieces of shared durable state, the
directory and the database, which no transaction spans. Requests run in goroutines; every mutation
holds `publishMu` from its first look at the records to its last write (`server.go:755`,
`server.go:899`, `limit.go:192`, `limit.go:236`, `server.go:941`), so mutations do not
interleave with each other. They interleave with the death of the process, with the
failure of any step, with a power failure, and with whoever edits the directory by hand. Around
`publishMu` lies `maintenance`, which scans take for writing and all other mutations for
reading; uploads hold it while they receive their bodies, four at a time. Requests that read
the summaries take a mutex of their own and interleave with every mutation.

What is hard to get right, and hard to test, follows from that: every operation is a
sequence of transactions and file operations that may stop after any of them, a scan
must make sense of what the stopped operation left, and it must do so from a cache
(table `files`) that an earlier, perhaps also interrupted, operation wrote. The
list of hazards, each at its line, is in `PROJECT.json`.

The sync client talks to the manager by requests that get lost, repeated or answered late,
or that are refused while the manager scans. What it decides, it decides by answers that may
be out of date, and its workers run concurrently with each other and with the manager.

What makes each component correct:

- *upload and scan*: a record says stored only if the file with its bytes is there; the
  journal (table `dirty`) names every record that may be wrong; nothing stored is lost;
  an identity never changes its bytes; a receipt names something stored.
- *deletion and limits*: only files of deleted records are deleted; a deleted version
  does not come back by itself; a limit removes the oldest versions and only those.
- *file cache*: a row a routine scan trusts is right about its file.
- *admission*: nobody changes packages before a scan has succeeded; a scan has the manager for
  itself; slots and staging files are neither lost nor shared; every request, scan and
  shutdown ends.
- *summaries*: a row that is not marked stale is right; a request sees what was stored before
  it; a library limit misses no extension.
- *sync client*: a run ends; a run that reports no failure has accounted for everything it
  discovered, and has brought everything that the limit keeps.

## Modules

`VersionLimit` is the arithmetic of `limit.go`: `Cut` (beyond) and `Outside` over a set of
versions. A version is a member of a set with a `Rank`, semantic precedence, and a
`Position`, its place once sorted; versions that compare equal share the first but not
the second.

`Inventory` is the manager: nine durable variables, `disk` and `synced` for the directory and
seven for the tables,
`gate` for the scan status, and the critical section under way (`job`, `pc` and the
locals `cur`, `idem`, `todo`, `doomed`, `gone`, `unlisted`). One action is one
transaction or one file operation:

    upload      Journal, Link, Flush, Publish, Receipt | Duplicate, Receipt  then Trim*, Finish
    deletion    DeleteVersions, Unlink*, ForgetFiles                      then Finish
    limit       SetLibraryLimit | SetExtensionLimit                       then Trim*, Finish
    trim        Trim, Unlink*, ForgetFiles
    scan        ScanFull | ScanRoutine | ScanAdopt, VerifyUnread | VerifyRead, ...,
                DropVanished, SettleLive | SettleDeleted, ..., SettleEnd, Trim*, Finish

`Fail` is an error return at any step, `SettleFails` a settle transaction, of a batch of any
size, that rolls back after some of its file deletions, and `Unlink` and `ForgetFiles` may fail
by themselves, as the code goes on after either. `Crash` is the death of the process at any
point and `Restart` is New and Start. `synced` is the directory as a flush last made it final, and
`PowerLoss` is `Crash` with the file system's part: of every name that was changed since
(`Unsynced`), whichever operation changed it and however often, the change may be undone, or the
deletion in it kept and the link not. Only `Flush`, which is the one place where the code flushes
the directory, and the power failure itself bring `synced` up to `disk`; the 200 path and scans do
not. A manual change is taken to last.

A file is its bytes and its modification time; its size is a function of its bytes and its
SHA-256 is the bytes themselves. An upload's writes and a manual change give a file a time that
neither its row remembers nor a file of other bytes has that a power failure may bring back
under the name (`FreshTimes`).

`PROJECT.json` maps each definition to the lines it models.

The outside comes in several strengths:

| Specification | Who writes to the directory |
|---|---|
| `Spec`, `FairSpec` | the manager alone; and no power failure puts another file in the place of an upload (`Orphans`, below) |
| `EditsSpec` (`InventoryEdits`) | also anybody between two operations, and the model remembers whether that was while the manager was stopped, visible in size or time, and left every name to one package |
| `OpenSpec` | also anybody between two operations; what five of the theorems are about |
| `FaultySpec` | the manager alone, but reading a file may fail |

`InventoryEdits` adds a history variable, `excused`, to the inventory of a directory that anybody
changes. It is set by the changes that a routine scan is not expected to find out (made while the
manager ran, without a trace in size or time, or under a name that another package has a claim
on), and by the walk that takes the word of a row adopted from a record for a file that is not
the record's but has its size (`TrustsBySize`, `scan.go:284`). That an interrupted scan *may*
lead to such a walk excuses nothing.

`Orphans` is an upload that fails, or whose process is killed, between its link and its flush,
under a name from which a file of other bytes was deleted since the last flush. A retry, or a scan,
confirms the upload without a flush (`server.go:805`), and a power failure may then undo both, the
link and the deletion before it: a stored record, and a row that looks right, of a file with other
bytes. The code does not prevent that and notices it in a full verification only. It takes a file
of foreign bytes under a package's own name that the manager itself has deleted, which is a junk
file or a second archive of the key. `Spec` leaves these failures out, and
nothing else that a crash or a power failure does; without that condition TLC finds `RowsHonest`,
`JournalComplete` and `ImplementsArchive` violated in `rival`. `OpenSpec`, `EditsSpec` and
`FaultySpec` have them.

`InventoryNames` adds one assumption, that file names cannot be confused: packages have
canonical names of their own, and the first start finds no package under the
canonical name of another. The code does not ensure it; `finding_shared_name` shows what
happens without.

`Archive` is what all of this is for, seen by a client: each package has an identity, is offered with
those bytes or is not, or has been withdrawn. Its steps are `Learn`, `Readmit`, `Offer`,
`Withdraw` and `Dispute`, and, as the machine may fail, `Persist` and `Lose`: an offer may be
`frail`, and only a frail one is ever lost to a failure of the machine. A dispute needs another
archive that lies in the directory (`lying`), which `Stow` puts there. It has no
files, tables, crashes of the process or scans. `InventoryArchive` maps the
inventory to it: a package's identity is its record's hash, it is withdrawn if its record says
deleted, and it is offered what `GET /download` would send, the bytes *then on the disk*
under the name of a stored record, frailly while the name is in `Unsynced`. `ImplementsArchive` says that every behaviour of the
inventory is one of the archive. Uploads, deletions and scans that take many steps, or stop
in the middle, come down to at most one step a package, or one for all that a deletion marks.

`Admission` is the manager seen from its locks: one goroutine per client, one per reconcile and
the one that Start launches, each with its step. `readers`, `writer` and `publish` are the
locks, `slots` the channel, `staging` and `litter` the `.upload-*.part` files of this process and
of an earlier one, `gate` and `seen` the scan status and what a reconcile has read of it. What
a request does under `publishMu` is one step, `EndSection`; `Inventory` is about that step,
and takes from here that there is one at a time.

    request     Arrive, RLock,           LockPublish, EndSection,          RUnlock
    upload      ..., TakeSlot | Busy, Stage, Receive | Refuse, ..., Discard, RUnlock
    scan        Ask | Start, Lock, Drain, LockPublish, Walk, Succeed | ScanFails, Finish
    process     Start, Stop, Exit, Crash

A reader that finds a writer parks, and `Unlock` lets all that have parked in before the next
writer, as `sync.RWMutex` does. `Stop` is the signal, `Exit` the end of Close, which waits
for the startup scan but not for the requests still being served.

`Summaries` is the database of an extension's totals: the records' statuses, the rows computed
from them, table `summary_dirty` and the upgrade's mark. Readers and one library limit, which
pages through the rows, run `RefreshSummaries` concurrently and with changes of packages.

    open        Open, QueueAll
    refresh     Check, LockRefresh, Select, RecountBatch, ..., Refreshed
    reader      Ask, <refresh>, Read
    limit       SetLibraryLimit, <refresh>, SelectPage, TrimNext*, ..., Answer

`Syncer` is the client, one run after another in one work directory, beside an abstract
manager. `phase` is where Run is, `ids`, `found` and `queue` its lists, `report` its counters;
each worker has an artifact, a step and the answer on its way to it. `tries` counts the
attempts of the request each goroutine is making: `Again` is a retry, `Ended` the last
attempt, whatever its outcome. `late` holds uploads that the client gave up and the
manager may yet serve.

    run         AwaitAnswer | AwaitFails, Discover, CheckAnswer | CheckFails, TransfersDone,
                ..., Conclude, Report
    worker      Take, Download | Unusable, Serve | UploadFails, Hear

The manager in it (`packages`, `limit`, `gate`) serves an upload, a deletion or a limit change in
one step, which is what `publishMu` makes of them for a client; `Inventory` is about the
steps inside. Any number of others upload, delete and change the limit; `disturbed` remembers
that they did. A limit that the manager fails to read is not in its answer to a check,
and the client goes on as if there were none. `MCSyncer` holds its instances.

`MCInventory` holds the small instances of `Inventory`, `MCNamed` the same under the assumption
on names, `MCAdmission`, `MCSummaries` and `MCSyncer` those of the others. The modules whose
names end in `Proofs` hold the theorems: `InventoryProofs`, `InventoryUploadProofs`,
`InventoryJournalProofs`, `InventoryArchiveProofs`, `AdmissionProofs`, `SummariesProofs`,
`VersionLimitProofs` and `SyncerProofs`.

### Abstractions, and what they leave out

- Requests are those that pass validation; staging and inspecting the upload happen before
  `publishMu` and change no shared state. Read-only requests change nothing.
- A batch of the walk and of settle is one file and one key, the smallest transactions that
  `scanBatch` allows, which gives every point at which a scan may stop *between* transactions for
  any batch size. Within one, a rollback undoes everything but the file deletions of deleted
  records: `SettleFails` has those of any batch.
- `ScanAdopt` and `DropVanished` are one step each, though the code batches both. Adopting is
  idempotent and a restarted scan adopts again, as `files_trusted` is not yet set.
- The database is taken to have synced every commit when the machine fails
  (`PRAGMA synchronous=FULL`, `store.go:40`), and a flush of the directory to be final.
- `Position` gives versions of one rank one order for good, where `slices.SortFunc` may order them
  anew for every list. The theorems are about every `Position`, but a behaviour has one. The
  client takes versions by `Rank` only, in either order where it is equal.
- A name that is no regular file, a directory that cannot be listed, and a record whose
  metadata differ from the archive's are left out, as is the text of audit events.
- Nobody edits the directory in the middle of a critical section.
- In `Syncer` a download and its retries are one step, and so are the batches of a check. A
  deletion that fails and leaves a version beyond its limit is `Inventory`'s subject and not
  there; neither are pending and missing records.
- `Newest` of `Syncer` is any selection that an unstable sort may make of versions that compare
  equal; the instance has no two such versions, the theorems allow for them.
- In `Admission` a walk sweeps in one step, and the records that a scan or a section changes
  are not there. `ReadTimeout` is the fairness of `Receive`.
- In `Summaries` a row has the latest version, the numbers of versions and the counts by status;
  names, sizes, times, and the catalog's search and order are left out. So is the file side of
  a trim. An extension's own limit (`Own`) does not change during a run of the model.
- `deletedBy` is kept, `deletedAt` and the other metadata are not.

## Runs

The runs marked *violation* are findings, described below.

| Run | Instance | Shows |
|---|---|---|
| `two` | two versions of an extension, one archive each, two names, limits 1 and none | stored files are there while clients are served; names have one claim; the journal is complete; a stored file goes in a power failure before any flush, and in no other way; no record is taken back; only deleted records' files go; trims are exact; clients see an archive |
| `rival` | one key that two archives claim, a junk file of equal size, seven starting directories, one idempotency key | the cache is honest; the journal is complete; deleted stays deleted; receipts stand; clients see an archive, disputes included; the lock is released; the startup scan ends |
| `edits` | as `rival` without the idempotency key and with uploads of one of the two archives, two manual changes at any time, of any kind | a full scan finds out everything, whatever was done to the files; identities are pinned; a routine scan finds out every change made while stopped that shows in size or time, unless a name got a second package, or a changed file was trusted by size as an adopted row is |
| `admission` | three uploads, two slots, one deletion, one reconcile, the startup scan | staging files and slots are exact; scans are alone; nobody passes before a scan has succeeded; all of them, and a shutdown, end |
| `summaries` | two extensions of two versions each, two readers, one library limit, one change, two starting databases with and without summaries | unmarked rows are right; reads are recent; a limit that is answered holds; requests end |
| `sync` | one extension, two published versions, a third that the manager may hold; two workers, two attempts, limits none and 1, other clients, a restart | a complete run has accounted for everything; undisturbed, it has collected what the limit keeps; every run ends |
| `finding_unreadable` | as `edits`, no edits, unreadable files | violation of `MissingIsAbsent` |
| `finding_shared_name` | as `two`, one canonical name for both | violation of `DeletesOnlyDeleted` |
| `finding_interrupted` | as `two`, one change while stopped, limit changes uninterrupted | violation of `LimitAfterScan` |
| `finding_unflushed` | as `two`, no limit | violation of `AcknowledgedIsDurable` |
| `finding_gate` | one upload, one deletion, two reconciles | violation of `GateStaysOpen` |
| `finding_upgrade` | as `summaries`, every interruption | violation of `UnmarkedAreRight` |

**Bounds.** Two names are enough for a package to move, for two files of one key, and for
an upload next to a leftover. Two versions and a limit of one make every trim a choice. Two
modification times tell a fresh file from a remembered one, which is all that the code
compares; `FreshTimes` keeps a new file from reusing the remembered time, so a longer
range adds little but renamings. `MaxEdits` bounds manual changes only: crashes,
failures, restarts, uploads, deletions and scans are unbounded. All contents have one
size, the hard case for a cache that compares sizes. In `edits` clients upload one of the two
archives, and either may be the one recorded first: uploads of the recorded bytes and of others
both happen.

In `Admission` nothing is bounded but the number of goroutines. Three uploads on two slots
give one that is refused beside one that waits; a deletion is the reader without a slot, and a
reconcile beside the startup scan the second writer that readers wait for.

In `Summaries` a page and a batch hold one extension of two, so that each takes a second
turn with anything in between. `MaxChanges`, one, bounds the changes by others: with the
limit's own trims a row goes stale twice. `Own` is empty.

In `Syncer`, two workers give every order of two uploads, two attempts a retry that succeeds
and one that does not. `Known` names what the manager may have to begin with: nothing, an
archive of the other release channel, stored or deleted, and a version the gallery lacks with
a deleted one beside it. `MaxRestarts` bounds the manager's restarts at one; runs are unbounded.
Symmetry is used in `two` and `edits`, which have safety properties only, of the two times, which
nothing compares but for equality; canonical names and ranks tell the other members of `Inventory`
and `Syncer` apart, and symmetry is unsound for liveness.

**Fairness.** `Fairness` of `Inventory` asks three things. Whoever is in a critical section goes on to its
next step while there is one: only a goroutine that is never scheduled again would not,
and no step waits for another request. A link that is refused is answered with an
error. And the goroutine that `Start` launched begins its scan, as nobody else can hold the
lock at that point. No failure or crash is counted on, so that a loop that never ends would show
as one; nothing is assumed of clients, operators or restarts, or of which of two possible
steps is taken. `LockReleased` thus rests on the loops of the code: each step of a walk, a
settle, a deletion or a trim makes something smaller.

In `Admission` each goroutine's next step is strongly fair, because some steps wait for a lock
that others hold time and again: a `sync.Mutex` serves a goroutine that has waited for a
millisecond before any newcomer. A body ends, at the latest by the server's `ReadTimeout`.
Close returns once the startup scan has (`Exit`). No client, reconcile, signal or crash is
counted on. The waiting of a writer for readers, and of readers for a writer, is the code's own
hand-over and not fairness; a hand-over that is lost is one of the mutants.

In `Summaries` the same holds for each request's steps and the mutex. Changes end
(`MaxChanges`): somebody who changes packages faster than they are recounted keeps a refresh going.

`FairSpec` of `Syncer` asks that Run and each worker go on while they can, which the Go
scheduler, the clients' timeouts and the timers of retry and awaitManager give, and
that the manager's scan ends, which is `StartupEnds` and `EveryoneEnds`. The manager need not serve
anything, an operator need not retry a failed scan, and any request may fail. Restarts must
end: a manager that restarts for ever in time for each poll keeps awaitManager waiting
for ever.

## Findings

1. **An unreadable file is a missing package** (`finding_unreadable`). An I/O error in
   Inspect is taken for an invalid archive and remembered under the file's true size and
   time: the record is marked missing although its file is there, and later routine scans
   trust that row.
2. **Two packages, one file name** (`finding_shared_name`). `CanonicalName` is ambiguous, and
   remove deletes by recorded name: deleting a version whose link was refused deletes the file
   of the package that has the name. The same happens if an operator names a file after
   another package.
3. **A scan that is interrupted before its trims** (`finding_interrupted`). Which extensions
   grew is in memory only: the resumed scan finds nothing dirty and completes with an
   extension beyond its limit.
4. **A 200 for a file that is not on the disk to stay** (`finding_unflushed`). An upload whose
   directory flush fails has linked its file and answers 507; repeated, it finds the file,
   publishes the record and answers 200 without a flush. The API calls both answers durable.
5. **A failed reconcile that closes an open gate** (`finding_gate`). A reconcile writes its outcome
   by the status it read before it waited for the lock. Of two that retry a failed scan, the
   second one's failure takes back what the first one's success had opened.
6. **An upgrade that is interrupted for good** (`finding_upgrade`). Open commits the mark that
   summaries exist before it queues the extensions: killed in between, the manager never
   queues them, and its totals, catalog and library limits miss every extension that does not
   change again. `summaries` shows that this is the only interruption with that effect.

More behaviours that the models exclude where they would break a property, and no run is about:

- A routine scan that follows an interrupted full verification, or the upgrade to the file cache,
  adopts a row from each stored record and trusts it by size alone (`scan.go:284`).
  docs/deployment.md:111 says that only changes which keep both size and time go unnoticed;
  one that keeps the size while the manager is stopped does, too, if the scan that follows
  adopts. `TrustsBySize` is the condition on `ScanFindsEdits`.
- `Orphans`, above: a power failure may bring another file back under the name of a stored package.
- A file that somebody puts under the name of another package, in conflict with the record of its
  own: deleting the other package deletes the file (finding 2) and forgets its row, but does not
  queue the record, which stays in conflict with a file that is gone until a full scan. That
  is the other condition on `ScanFindsEdits`. The run's instance has one package; the attempt to
  prove the property for any number showed that the condition was missing, and TLC confirmed it
  on two packages and three archives.
- A client that cannot know of versions that the gallery lacks downloads packages that the manager
  then refuses or soon trims, which costs nothing but the download (`Collected` holds with such
  versions).
- Of versions that compare equal, client and manager may each take another for the newest
  (`sync.go:356`, `limit.go:80`). A complete run may then leave a platform's package of a version
  that the manager keeps on the gallery, because the client took that version to be beyond the
  limit. `Collected` asks for as many versions that are no older, and counts the package's own
  among them only if it has such a rival. Its first form did not: the proof could not be closed,
  and TLC found the counterexample with two platforms of one version and a rival of it.

## Proofs

Each theorem holds for any sets of packages, names, contents, limits, times, clients and
extensions, and any number of operations, crashes, power failures and failing steps. `Spec` of
the inventory is as above, without `Orphans`.

| Theorem | Statement | Under |
|---|---|---|
| `TypeCorrect` | `OpenSpec => []TypeOK` | any manual changes |
| `IdentityIsPinned` | `OpenSpec => IdentityPinned` | any manual changes |
| `DeletedVersionsStay` | `OpenSpec => DeletedStays` | any manual changes |
| `ReceiptsAreKept` | `OpenSpec => ReceiptsStand` | any manual changes |
| `FullScanIsTrue` | `OpenSpec => FullScanTruth` | any manual changes |
| `ScansFindEdits` | `EditsSpec => ScanFindsEdits` | unambiguous names at first; its own conditions on changes |
| `NamesAreDisjoint` | `Spec => []OneClaim` | unambiguous names |
| `DeletesAreRecorded` | `Spec => DeletesOnlyDeleted` | unambiguous names |
| `FilesOutlast` | `Spec => FilesLast` | unambiguous names |
| `StoredPackagesAreThere` | `Spec => []StoredIsThere` | unambiguous names |
| `TrustedRowsAreRight` | `Spec => []RowsHonest` | unambiguous names |
| `JournalIsKept` | `Spec => []JournalComplete` | unambiguous names |
| `StoredPackagesStay` | `Spec => StoredStays` | unambiguous names |
| `TrimsAreExact` | `Spec => TrimIsExact` | |
| `InventoryImplementsArchive` | `Spec => ImplementsArchive` | unambiguous names |
| `LimitIsExact` | a limit spares exactly as many versions as it keeps, or all | |
| `AdmissionTypes` | `Spec => []TypeOK` of `Admission` | |
| `StagingFilesAreSafe` | `Spec => []StagingExact` | |
| `ScansRunAlone` | `Spec => []ScansAlone` | |
| `NobodyPassesUnscanned` | `Spec => []AdmittedAfterScan` | |
| `SlotsAreExact` | `Spec => []SlotsExact` | |
| `SummariesTypes` | `SteadySpec => []TypeOK` of `Summaries` | upgrades uninterrupted |
| `RowsAreRight` | `SteadySpec => []UnmarkedAreRight` | upgrades uninterrupted |
| `ReadsSeeTheirPast` | `SteadySpec => ReadsAreRecent` | upgrades uninterrupted |
| `LimitsAreApplied` | `SteadySpec => []LimitApplied` | upgrades uninterrupted |
| `SyncerTypes` | `Spec => []TypeOK` of `Syncer` | |
| `ReportsAreTotal` | `Spec => []CompleteIsTotal` | |
| `CompleteRunsCollect` | `Spec => []Collected` | |

The assumptions are `VersionAssumption`, `InventoryAssumption`, `AdmissionAssumption`,
`SummariesAssumption` and `SyncerAssumption`, which give the constants their types, and `NameAssumption`. Of the
last, the theorems about `OpenSpec` and `TrimsAreExact` use nothing but the types. TLC
evaluates all of them in the runs, and it has checked each strengthened invariant below
on a small instance before it was proved.

**The inventory.** None of the invariants is inductive as it stands; they are strengthened
in three layers.

- `TypeInv` is `TypeOK` with `UploadInv`, what an upload knows between its steps: the archive
  it holds is the one recorded, its record is pending until it is published, and the file is
  under the recorded name once linked. Without it Publish could record a file that is not there.
- `NameInv` adds that a record's bytes belong to its key (`ShaKey`), that every name is claimed
  by one package (`OneClaim`, which counts what a power failure may bring back as a claim), and
  that the names a deletion still has to remove belong to deleted records only (`DoomedInv`). That
  makes deleting by name safe.
- `RowTruth` adds that a row with the size and the time of a file, on the disk or to be brought
  back, is right about it (`HonestInv`), and that a scan past its listing remembers only files that
  exist (`ListingInv`), which is what lets settle mark a record stored on the word of a row. It
  holds in a directory that others change, as long as no scan is `Misled`, which is to say that
  no changed file is trusted by size.
- `TruthInv` adds what one writer gives: no file of other bytes is about to be brought back under an
  upload that has been linked (`NoForeign`, which is where the condition against `Orphans` is
  used), under a stored package's name lies its file or nothing, now and after a power
  failure (`StoredRight`), and an adopted row's record is right about the row's file
  (`AdoptedInv`). No scan is misled then (`TruthNotMisled`).

`FilesOutlast` follows: with the package's own file there, the only steps that touch its name are a
flush, which takes nothing, and a power failure, which takes only what is unsynced
(`StepStoredFile`, `FinalStep`).

Each layer has a lemma per group of actions and one that puts them together; the temporal
step is the last one of each theorem.

`InventoryImplementsArchive` and `StoredPackagesStay` rest on `TruthInv` and `JournalInv`,
`TrimsAreExact` on `TypeInv`. `PackagesStep` sums up what any step may do to the
records: meet a package (`Met`), turn one record's status (`Turned`, with `Turn` saying which
turns there are), or mark a set of versions deleted that is closed under being older (`Targets`,
from `CutIsOldest`). A stored record turns only if another archive under its key has been found, or
none, because a scan that settles has rows that are the directory. What a step does to the disk
shows to a client only where a stored record's file changes, which is `FinalStep`: a flush makes
offers last, a power failure loses frail ones (`PowerIsLose`), and `StoredRight` rules out that
anything comes back with other bytes. Each case is then one of `Learn`, `Readmit`, `Offer`,
`Withdraw`, `Dispute`, `Persist`, `Stow`, `Lose` or a stutter. `StoredPackagesStay` is a
consequence of the same `PackagesStep`.

`DeletedVersionsStay` and `ReceiptsAreKept` need no names. A deleted record turns pending only
when an upload of its bytes is admitted, and what that upload publishes is then pending, not
deleted. `ReceiptInv` says that the idempotency key of an upload is free or has its receipt, and
has it once Receipt is done: no other operation runs between the two.

`JournalIsKept` has `JournalInv` beside `TruthInv`. It adds four parts to `RowTruth`. What agrees with what
is split at the rows: a record that is not in table `dirty` agrees with the rows that hold its key
(`RowsInv`, so settling it again would leave it as it is, and the row of a stored one is under
its own name), and a row with its file, once a scan of this process
has surveyed the directory (`SurveyInv`; when it leaves the listing, that is `ListingInv`). Every
step that parts the two queues what it parts: an upload its key from its admission to its
publication, a deletion every claim on a name that it has to delete or to forget, which by
`OneClaim` are its own targets (`QueuedInv`), and a scan both the key that a name's row had and
the one that it gets (`ReadAgrees`). `ServedInv` is that stored packages are there from the end of a
scan's queue on. A crash or a power failure closes the gate, so the next scan surveys anew, with
the queue that is on disk, and drops what the failure has taken: hence
`StoredPackagesAreThere`, which is about the time when clients are served.

`FullScanIsTrue` and `ScansFindEdits` are about directories that others write to. `FullInv`
needs little: a full scan has forgotten every row and queued every record, so that it trusts
nothing, and a name that it has listed is `Seen`; nobody writes to the directory while it holds
`publishMu`; settling deletes rows and files together, and a record that is settled is stored under
a name that holds its key or missing without any. `ScansFindEdits` is `JournalInv` for histories
without an excuse (`EditInv`): the manager's own steps are `StepJournalInv` once more, as `JournalInv` does
not count on one writer, and `EditJournalInv` is the step of anybody else. A manual change is made
while the gate is closed, and its file has another time than its row shows, so the next walk finds
it. What the proof cannot do without is that no scan is misled, which `excused` records.

**Version limits.** `LimitIsExact` counts: two versions have different numbers of newer ones
(`NewerDiffers`), since `Position` orders them strictly, so by the pigeonhole principle no more than
`keep` of them have fewer than `keep` newer ones, and no more than the rest have as many. `CutIsOldest`
says that what goes is never newer than what stays, ties included. `TrimsAreExact` takes both from
versions to records: in the middle of a critical section only `Trim` takes an extension off the list
(`OnlyTrimDrops`), and it spares the records of the versions that the limit spares.

**Admission.** `AdmissionInv` adds to the properties which step holds which lock (`LocksInv`: a
client reads from its `RLock` to its `RUnlock`, a scan writes from `Lock` on and is past the
readers once it has drained them, `publishMu` has one holder), that a scan which has walked the
directory left no staging file in it (`SweptInv`), that every way to an open gate is a success
of this process (`GateInv`, which is about the outcome that a scan carries from its unlocking
to its verdict, too), and that nothing runs in a process that is down (`DownInv`). Slots are
exact because each step of an upload puts one member into `Served`, or takes one out, when it
changes `slots`.

**Summaries.** `SummariesInv` says that before the first summary there are no rows (`FirstInv`)
and that from then on each is right or marked, also while the manager is stopped (`RightInv`). A
batch keeps that although what it recounts was selected before: it recounts and unmarks in one
transaction, by the packages of that moment (`RecountLocal`: a change of other extensions does not
show). `SinceInv` carries what a reader may still see from its request through its refresh
to its read. `LimitInv` is the argument for paging: at every step of a library limit each
extension is within it, on the page, or past it with a right row, because `publishMu` keeps
all other changes away; `LimitIsExact` takes an extension off the page when it is trimmed.

**Sync client.** `RunInv` is what types need: transfers belong to their phase, and a check has all
that the gallery publishes of one extension. `ReportsAreTotal` counts: while nothing has
failed, what was discovered is in one of the counters, in the queue, with a worker, or about to
be checked (`CountInv`). A lost answer does not part the two, because a worker keeps its artifact
through every attempt and counts it once, when it hears.

`CompleteRunsCollect` rests on `NothingLost`. As long as nothing has failed and nobody else has
used the manager, each published artifact is `Pending` (still to be discovered, checked, taken
from the queue or with a worker), `Settled`, or `Outdone`. Settled is more than to be present: an
artifact that is not there is settled if the manager keeps as many versions newer than it, in
the manager's own order, as the limit allows. That is stable under every upload and trim, in any
order and with late duplicates (`TrimKeepsNewer`, by `LimitIsExact`: a trim takes away only what
that many newer versions outdo). An upload that the manager answers settles its artifact, by
storing it, trimming it at once or refusing it (`HandleSettled`), and the answer proves it when
the worker hears, though it may be to an earlier attempt (`AnswerSettles`). Outdone is what the
client leaves out: as many other versions, no older, are pending or settled themselves. At the
end nothing is pending, and of the versions that outdo an artifact either all are there, or one is
settled without, and what settles it is newer than the artifact, too (`PromisesKept`). The order
is the client's up to ties, and the manager's within them; hence `Tied` in `Collected`.

**Only model-checked**: liveness (`LockReleased`, `StartupEnds`, `EveryoneEnds`, `StopEnds`,
`RequestsEnd`, `RunEnds`), which is out of the prover's reach, as is anything by induction over
data: no module that is proved about has a recursive operator. Every safety property of a
passing run has its theorem. The findings are counterexamples, which need no proof.

## Not modelled

- *Authentication*: tokens, passwords, sessions, CSRF and throttling decide who may send a
  request. The models let every request come at any time, which is the harder case for
  everything they state.
- *VSIX inspection*: the parsing of one archive, without state. Its result, a key and a hash or
  an error, is an input of `Inventory`; reading may fail in `FaultySpec`.
- *Audit log, sync runs, disk report*: written or computed, and read by no decision.
- *HTTP set-up, API client, MCP server, command lines, web page*: translation, configuration and
  presentation. The manager's shutdown is in `Admission`, a cancelled run in `Syncer`.
- Of the sync client, the discover-only mode, the list's parsing and the work directory's lock.

## Plan

What is left, in the order of what it would add:

1. The sync client's discover-only mode.
2. An instance of `Syncer` with versions of one rank that TLC finishes in time; the theorems
   cover such versions already.
3. An abstraction of `Inventory` that is the manager of `Syncer`, so that one theorem takes a sync
   run down to files.
