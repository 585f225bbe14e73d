------------------------------- MODULE Syncer -------------------------------
(***************************************************************************)
(* marketplace-sync (internal/syncer): runs that bring the versions which  *)
(* a gallery publishes to the manager.  A run asks the manager what it has *)
(* and how many versions it keeps, and hands the rest to workers that      *)
(* download and upload concurrently.  Requests and answers get lost, a     *)
(* request that the client has given up may be served late, and the        *)
(* manager restarts and is changed by others meanwhile.                    *)
(*                                                                         *)
(* The manager is what its API shows of it: an upload, a deletion and a    *)
(* limit change are one step each here.  Inventory has their steps.        *)
(***************************************************************************)
EXTENDS VersionLimit

CONSTANTS
  Artifacts,    \* packages: extension, version and platform
  Exts,         \* extension IDs
  ExtOf,        \* the extension of an artifact
  VersionOf,    \* the version of an artifact
  Published,    \* the artifacts that the gallery has
  Workers,      \* goroutines that transfer: Config.Concurrency
  Retries,      \* attempts at a request: Config.Retries
  Limits,       \* version limits that operators set
  Known,        \* what the manager may have to begin with
  MaxRestarts,  \* bound on restarts of the manager
  None

\* The record of an artifact's key, and when its package is there.
Present == {"stored", "rival"}
Kinds == {"absent", "deleted", "rival deleted"} \cup Present

ASSUME SyncerAssumption ==
  /\ IsFiniteSet(Artifacts)
  /\ IsFiniteSet(Workers)
  /\ ExtOf \in [Artifacts -> Exts]
  /\ VersionOf \in [Artifacts -> Versions]
  /\ Published \subseteq Artifacts
  /\ Retries \in Nat \ {0}
  /\ Limits \subseteq Nat
  /\ Known \subseteq [Artifacts -> Kinds]
  /\ MaxRestarts \in Nat
  /\ None \notin Artifacts

VARIABLES
  \* The manager.
  packages,   \* the record of each artifact's key: absent, stored or deleted, or, when
              \* it is of an archive of the other release channel, rival or rival deleted
  limit,      \* the library's version limit
  gate,       \* the state of its inventory scan
  late,       \* uploads that it goes on serving though the client has given them up
  restarts,   \* its restarts so far
  disturbed,  \* history: others have used it
  \* A run.
  phase,      \* where Run is
  ids,        \* extensions still to be discovered
  found,      \* artifacts discovered of the current one
  queue,      \* those still to be handed to a worker
  work,       \* each worker's artifact, the step of its transfer, and the manager's answer
  tries,      \* failed attempts at the current request: of Run, and of each worker
  report,     \* the run's counters
  cancelled   \* the run's context is cancelled

manager == <<packages, limit, gate, late, restarts, disturbed>>
run == <<phase, ids, found, queue, work, tries, report, cancelled>>
vars == <<manager, run>>

Main == "main"
Answers == {"stored", "retention", "conflict"}
Free == [item |-> None, step |-> "idle", answer |-> None]
NoReport == [discovered |-> 0, stored |-> 0, skipped |-> 0, beyondLimit |-> 0, failed |-> 0]

TypeOK ==
  /\ packages \in [Artifacts -> Kinds]
  /\ limit \in Nat
  /\ gate \in {"scanning", "ready", "failed"}
  /\ late \subseteq Artifacts
  /\ restarts \in Nat
  /\ disturbed \in BOOLEAN
  /\ phase \in {"await", "list", "check", "transfer", "report", "done", "stopped"}
  /\ ids \subseteq Exts
  /\ found \subseteq Artifacts
  /\ queue \subseteq Artifacts
  /\ work \in [Workers -> [item : Artifacts \cup {None},
                           step : {"idle", "download", "upload", "answered"},
                           answer : Answers \cup {None}]]
  /\ tries \in [Workers \cup {Main} -> 0 .. Retries - 1]
  /\ report \in [DOMAIN NoReport -> Nat]
  /\ cancelled \in BOOLEAN

-----------------------------------------------------------------------------
(* The manager.                                                            *)

Held(pkgs, e) ==
  {VersionOf[a] : a \in {x \in Artifacts : ExtOf[x] = e /\ pkgs[x] \in Present}}
Kept(e) == Held(packages, e)

\* A record keeps its bytes when its package is deleted.
Deleted(kind) == CASE kind = "stored" -> "deleted" [] kind = "rival" -> "rival deleted"
                   [] OTHER -> kind

\* The packages once the limit keep has been applied.
Trimmed(pkgs, keep) ==
  [a \in Artifacts |->
     IF VersionOf[a] \in Cut(Held(pkgs, ExtOf[a]), keep) THEN Deleted(pkgs[a]) ELSE pkgs[a]]

AnswerTo(a) ==
  IF Outside(Kept(ExtOf[a]), VersionOf[a], limit) THEN "retention"
  ELSE IF packages[a] \in {"rival", "rival deleted"} THEN "conflict"
  ELSE "stored"

\* The upload handler; what is stored already is confirmed and nothing is trimmed.
Handle(a) ==
  packages' = IF AnswerTo(a) # "stored" \/ packages[a] = "stored" THEN packages
              ELSE Trimmed([packages EXCEPT ![a] = "stored"], limit)

\* An upload goes on after its client has gone; the client sees no answer.
ServeLate(a) ==
  /\ a \in late
  /\ gate = "ready"
  /\ Handle(a)
  /\ late' = late \ {a}
  /\ UNCHANGED <<limit, gate, restarts, disturbed, run>>

Restart ==
  /\ restarts < MaxRestarts
  /\ restarts' = restarts + 1
  /\ gate' = "scanning"
  /\ late' = {}
  /\ UNCHANGED <<packages, limit, disturbed, run>>

ScanEnds ==
  /\ gate = "scanning"
  /\ gate' \in {"ready", "failed"}
  /\ UNCHANGED <<packages, limit, late, restarts, disturbed, run>>

\* An operator's reconcile retries a failed scan.
Reconcile ==
  /\ gate = "failed"
  /\ gate' = "ready"
  /\ UNCHANGED <<packages, limit, late, restarts, disturbed, run>>

\* Other clients and operators.
OthersUpload(a) ==
  /\ gate = "ready"
  /\ packages[a] # "stored"
  /\ Handle(a)
  /\ disturbed' = TRUE
  /\ UNCHANGED <<limit, gate, late, restarts, run>>

OthersDelete(a) ==
  /\ gate = "ready"
  /\ packages[a] \in Present
  /\ packages' = [packages EXCEPT ![a] = Deleted(@)]
  /\ disturbed' = TRUE
  /\ UNCHANGED <<limit, gate, late, restarts, run>>

OthersLimit(keep) ==
  /\ gate = "ready"
  /\ limit' = keep
  /\ packages' = Trimmed(packages, keep)
  /\ disturbed' = TRUE
  /\ UNCHANGED <<gate, late, restarts, run>>

-----------------------------------------------------------------------------
(* Run, up to the transfers.                                               *)

SameTry(who) == tries   \* mutant: the attempts are not counted
NextTry(who) == [tries EXCEPT ![who] = @ + 1]
AgainAlways(who) == ~cancelled /\ tries' = NextTry(who)   \* mutant: no limit
\* retry: an attempt has failed and another one is due.
Again(who) == ~cancelled /\ tries[who] + 1 < Retries /\ tries' = NextTry(who)
\* The request is over: answered, out of attempts, cancelled, or refused for good.
Ended(who) == tries' = [tries EXCEPT ![who] = 0]

Counted(r, counter, n) == [r EXCEPT ![counter] = @ + n]
Count(counter, n) == report' = Counted(report, counter, n)

Start ==
  /\ phase \in {"done", "stopped"}
  /\ phase' = "await"
  /\ ids' = Exts
  /\ found' = {}
  /\ report' = NoReport
  /\ cancelled' = FALSE
  /\ UNCHANGED <<manager, queue, work, tries>>

\* awaitManager: one poll of GET /status, answered or not.
AwaitAnswer ==
  /\ phase = "await"
  /\ ~cancelled
  /\ phase' = CASE gate = "ready" -> "list" [] gate = "failed" -> "stopped"
                [] OTHER -> "await"
  /\ Ended(Main)
  /\ UNCHANGED <<manager, ids, found, queue, work, report, cancelled>>

AwaitFails ==
  /\ phase = "await"
  /\ \/ Again(Main) /\ phase' = phase
     \/ Ended(Main) /\ phase' = "stopped"
  /\ UNCHANGED <<manager, ids, found, queue, work, report, cancelled>>

Discover(e) ==
  /\ phase = "list"
  /\ e \in ids
  /\ ~cancelled
  /\ ids' = ids \ {e}
  /\ \/ /\ found' = {a \in Published : ExtOf[a] = e}
        /\ found' # {}
        /\ Count("discovered", Cardinality(found'))
        /\ phase' = "check"
     \/ /\ Count("failed", 1)
        /\ UNCHANGED <<found, phase>>
  /\ UNCHANGED <<manager, queue, work, tries, cancelled>>

\* Run finds its context cancelled and leaves the loop.
BreakOff ==
  /\ phase = "list"
  /\ ids # {}
  /\ cancelled
  /\ Count("failed", 1)
  /\ ids' = {}
  /\ UNCHANGED <<manager, phase, found, queue, work, tries, cancelled>>

NewestShort(vs, keep) ==   \* mutant: off by one
  {S \in SUBSET vs :
     /\ keep > 0 /\ Cardinality(vs) >= keep => Cardinality(S) = keep - 1
     /\ keep = 0 \/ Cardinality(vs) < keep => S = vs
     /\ \A v \in S, w \in vs \ S : Rank[v] >= Rank[w]}
\* newest: the versions that a limit keeps, one of the selections that an unstable sort may make.
Newest(vs, keep) ==
  {S \in SUBSET vs :
     /\ IF keep > 0 /\ Cardinality(vs) > keep THEN Cardinality(S) = keep ELSE S = vs
     /\ \A v \in S, w \in vs \ S : Rank[v] >= Rank[w]}

QueuedSilently(skip, beyond) == report' = Counted(report, "skipped", Cardinality(skip))   \* mutant
\* What the check decides without a transfer.
Decided(skip, beyond) ==
  report' = Counted(Counted(report, "skipped", Cardinality(skip)),
                    "beyondLimit", Cardinality(beyond))

\* POST /extensions/check: what is stored is skipped, and what the limit would
\* not keep is beyond it.  A limit that the manager cannot read is not in its answer,
\* which the client takes for none.
CheckAnswer ==
  /\ phase = "check"
  /\ ~cancelled
  /\ gate = "ready"
  /\ \E keep \in {limit, 0} : \E wanted \in Newest({VersionOf[a] : a \in found}, keep) :
       LET skip == {a \in found : packages[a] = "stored"}
           beyond == {a \in found \ skip : VersionOf[a] \notin wanted}
       IN  /\ Decided(skip, beyond)
           /\ queue' = found \ (skip \cup beyond)
  /\ phase' = "transfer"
  /\ Ended(Main)
  /\ UNCHANGED <<manager, ids, found, work, cancelled>>

CheckFails ==
  /\ phase = "check"
  /\ \/ Again(Main) /\ UNCHANGED <<phase, report>>
     \/ /\ Ended(Main)
        /\ Count("failed", Cardinality(found))
        /\ phase' = "list"
  /\ UNCHANGED <<manager, ids, found, queue, work, cancelled>>

\* Every worker has run out of jobs.
TransfersDone ==
  /\ phase = "transfer"
  /\ queue = {}
  /\ \A w \in Workers : work[w] = Free
  /\ phase' = "list"
  /\ UNCHANGED <<manager, ids, found, queue, work, tries, report, cancelled>>

\* The report is complete and about to be sent.
Conclude ==
  /\ phase = "list"
  /\ ids = {}
  /\ phase' = "report"
  /\ UNCHANGED <<manager, ids, found, queue, work, tries, report, cancelled>>

Report ==
  /\ phase = "report"
  /\ \/ ~cancelled /\ Ended(Main) /\ phase' = "done"
     \/ Again(Main) /\ phase' = phase
     \/ Ended(Main) /\ phase' = "stopped"   \* also: its file cannot be written
  /\ UNCHANGED <<manager, ids, found, queue, work, report, cancelled>>

Cancel ==
  /\ phase \notin {"done", "stopped"}
  /\ ~cancelled
  /\ cancelled' = TRUE
  /\ UNCHANGED <<manager, phase, ids, found, queue, work, tries, report>>

-----------------------------------------------------------------------------
(* A worker's transfers.                                                   *)

At(w, step) == work[w].step = step
Worker == UNCHANGED <<phase, ids, found, cancelled>>

\* The next artifact, oldest version first; versions that compare equal in any order.
Take(w) ==
  /\ phase = "transfer"
  /\ At(w, "idle")
  /\ \E a \in queue :
       /\ \A b \in queue : Rank[VersionOf[a]] <= Rank[VersionOf[b]]
       /\ queue' = queue \ {a}
       /\ work' = [work EXCEPT ![w] = [item |-> a, step |-> "download", answer |-> None]]
  /\ Worker
  /\ UNCHANGED <<manager, tries, report>>

\* The transfer is over.
Over(w, counter) ==
  /\ work' = [work EXCEPT ![w] = Free]
  /\ Count(counter, 1)

Download(w) ==
  /\ At(w, "download")
  /\ ~cancelled
  /\ work' = [work EXCEPT ![w].step = "upload"]
  /\ Worker
  /\ UNCHANGED <<manager, queue, tries, report>>

\* No more attempts at the download, an archive that is not the announced one,
\* or a file that cannot be written.
Unusable(w) ==
  /\ At(w, "download")
  /\ Over(w, "failed")
  /\ Ended(w)
  /\ Worker
  /\ UNCHANGED <<manager, queue>>

\* The manager serves an upload; its answer is under way.
Serve(w) ==
  /\ At(w, "upload")
  /\ gate = "ready"
  /\ Handle(work[w].item)
  /\ work' = [work EXCEPT ![w] =
       [item |-> work[w].item, step |-> "answered", answer |-> AnswerTo(work[w].item)]]
  /\ Worker
  /\ UNCHANGED <<limit, gate, late, restarts, disturbed, queue, tries, report>>

\* The connection breaks, or the manager answers 429 or 503.  What it received
\* before that it may go on serving.
UploadFails(w) ==
  /\ At(w, "upload") \/ At(w, "answered")
  /\ late' = late \/ (At(w, "upload") /\ gate = "ready" /\ late' = late \cup {work[w].item})
  /\ \/ /\ Again(w)
        /\ work' = [work EXCEPT ![w] = [item |-> work[w].item, step |-> "upload", answer |-> None]]
        /\ UNCHANGED report
     \/ Ended(w) /\ Over(w, "failed")
  /\ Worker
  /\ UNCHANGED <<packages, limit, gate, restarts, disturbed, queue>>

Outcome(answer) ==
  CASE answer = "stored" -> "stored"
    [] answer = "retention" -> "beyondLimit"
    [] OTHER -> "failed"

Hear(w) ==
  /\ At(w, "answered")
  /\ Over(w, Outcome(work[w].answer))
  /\ Ended(w)
  /\ Worker
  /\ UNCHANGED <<manager, queue>>

-----------------------------------------------------------------------------
(* Specifications.                                                         *)

Init ==
  /\ packages \in Known
  /\ limit \in Limits
  /\ packages = Trimmed(packages, limit)
  /\ gate \in {"scanning", "ready"}
  /\ late = {}
  /\ restarts = 0
  /\ disturbed = FALSE
  /\ phase = "await"
  /\ ids = Exts
  /\ found = {}
  /\ queue = {}
  /\ work = [w \in Workers |-> Free]
  /\ tries = [x \in Workers \cup {Main} |-> 0]
  /\ report = NoReport
  /\ cancelled = FALSE

MainNext ==
  \/ AwaitAnswer \/ AwaitFails
  \/ \E e \in Exts : Discover(e)
  \/ BreakOff
  \/ CheckAnswer \/ CheckFails
  \/ TransfersDone \/ Conclude \/ Report

WorkerNext(w) == Take(w) \/ Download(w) \/ Unusable(w) \/ UploadFails(w) \/ Hear(w)

ManagerNext ==
  \/ \E w \in Workers : Serve(w)
  \/ \E a \in Artifacts : ServeLate(a)
  \/ Restart \/ ScanEnds \/ Reconcile

OthersNext ==
  \/ \E a \in Artifacts : OthersUpload(a) \/ OthersDelete(a)
  \/ \E keep \in Limits : OthersLimit(keep)

Next ==
  \/ Start \/ Cancel \/ MainNext
  \/ \E w \in Workers : WorkerNext(w)
  \/ ManagerNext \/ OthersNext
Spec == Init /\ [][Next]_vars

\* Every goroutine goes on, and the manager's startup scan ends.
FairSpec ==
  /\ Spec
  /\ WF_vars(MainNext)
  /\ \A w \in Workers : WF_vars(WorkerNext(w))
  /\ WF_vars(ScanEnds)

-----------------------------------------------------------------------------
(* Correctness.                                                            *)

\* What Run calls complete.
Complete == phase = "report" /\ report.failed = 0

\* Nothing that was discovered is left out of a report that names no failure,
\* or counted twice.
CompleteIsTotal ==
  Complete => report.discovered = report.stored + report.skipped + report.beyondLimit

\* Another version that the gallery has of the extension compares equal.
Tied(a) ==
  \E b \in Published :
    ExtOf[b] = ExtOf[a] /\ VersionOf[b] # VersionOf[a] /\ Rank[VersionOf[b]] = Rank[VersionOf[a]]

\* The versions in the manager that are no older than an artifact's: others, unless it is tied.
Superior(a) ==
  {v \in Kept(ExtOf[a]) : Rank[v] >= Rank[VersionOf[a]] /\ (v = VersionOf[a] => Tied(a))}

\* As long as nobody else has used the manager, a complete run leaves it with every published
\* package, or with as many versions that are no older as the limit keeps: in whatever order the
\* workers' uploads and the trims they cause, retries and late duplicates take effect, and
\* though the client does not know of versions that the gallery lacks (sync.go:270, 287, 458) and
\* sorts those that compare equal differently (sync.go:356).
Collected ==
  Complete /\ ~disturbed =>
    \A a \in Published :
      packages[a] \in Present \/ (limit > 0 /\ Cardinality(Superior(a)) >= limit)

\* A run comes to an end: no retry, poll, queue or worker holds it up for good.
RunEnds == phase = "await" ~> phase \in {"done", "stopped"}
=============================================================================
