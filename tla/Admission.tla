----------------------------- MODULE Admission -----------------------------
(***************************************************************************)
(* Which requests of the manager run beside which others                   *)
(* (internal/server/server.go): the gate that a startup scan opens, the    *)
(* lock maintenance that scans take for writing and everybody else for     *)
(* reading, publishMu inside it, the slots of the uploads, and the files   *)
(* that uploads stage in the extension directory and scans sweep.          *)
(*                                                                         *)
(* What a request does while it holds publishMu is one step here.          *)
(* Inventory has those steps and takes from here that they do not          *)
(* interleave.                                                             *)
(***************************************************************************)
EXTENDS Integers, FiniteSets

CONSTANTS
  Uploads,     \* clients that upload, one request at a time each
  Edits,       \* clients that delete versions or set limits
  Reconciles,  \* clients that ask for a scan
  Startup,     \* the goroutine that Start launches
  Slots,       \* uploads served at a time; 4 in the code
  None

Clients == Uploads \cup Edits
Scans == Reconciles \cup {Startup}
Procs == Clients \cup Scans

ASSUME AdmissionAssumption ==
  /\ IsFiniteSet(Procs)
  /\ Uploads \cap Edits = {}
  /\ Clients \cap Scans = {}
  /\ Startup \notin Reconciles
  /\ Slots \in Nat \ {0}
  /\ None \notin Procs

VARIABLES
  life,     \* the process: down, up, or closing after a signal to stop
  gate,     \* scan.State
  scanned,  \* history: a scan has succeeded since the start
  pc,       \* the step of each goroutine
  seen,     \* scan.State as each reconcile read it
  outcome,  \* what Reconcile returned to each of its callers: it succeeded
  readers,  \* who holds maintenance for reading
  writer,   \* who has it for writing, or waits for the readers to leave
  publish,  \* who holds publishMu
  slots,    \* the length of the channel slots
  staging,  \* uploads whose file .upload-*.part is in the extension directory
  litter    \* such files of an earlier process are there

vars == <<life, gate, scanned, pc, seen, outcome, readers, writer, publish, slots, staging, litter>>

locks == <<readers, writer, publish>>
files == <<staging, litter>>
status == <<life, gate, scanned, seen, outcome>>

Gates == {"scanning", "ready", "failed"}
Steps == {"idle", "rlock", "parked", "slot", "stage", "receive", "publish", "section",
          "discard", "runlock", "lock", "drain", "walk", "settle", "finish"}

TypeOK ==
  /\ life \in {"down", "up", "closing"}
  /\ gate \in Gates
  /\ scanned \in BOOLEAN
  /\ pc \in [Procs -> Steps]
  /\ seen \in [Reconciles -> Gates]
  /\ outcome \in [Scans -> BOOLEAN]
  /\ readers \subseteq Clients
  /\ writer \in Scans \cup {None}
  /\ publish \in Procs \cup {None}
  /\ slots \in 0 .. Slots
  /\ staging \subseteq Uploads
  /\ litter \in BOOLEAN

Goto(p, step) == pc' = [pc EXCEPT ![p] = step]

-----------------------------------------------------------------------------
(* Uploads, deletions and limit changes.                                   *)

\* afterScan lets a request pass.
Arrive(c) ==
  /\ life = "up"
  /\ pc[c] = "idle"
  /\ gate = "ready"
  /\ Goto(c, "rlock")
  /\ UNCHANGED <<status, locks, slots, files>>

\* The first step of a handler once it has maintenance.
Inside(c) == IF c \in Uploads THEN "slot" ELSE "publish"

RLockUnchecked(c) ==   \* mutant: no lock
  /\ pc[c] = "rlock"
  /\ readers' = readers \cup {c}
  /\ Goto(c, Inside(c))
  /\ UNCHANGED <<status, writer, publish, slots, files>>
RLockCounted(c) ==   \* mutant: a reader that waits counts as one inside
  /\ pc[c] = "rlock"
  /\ readers' = readers \cup {c}
  /\ Goto(c, IF writer = None THEN Inside(c) ELSE "parked")
  /\ UNCHANGED <<status, writer, publish, slots, files>>
\* maintenance.RLock gets the lock unless a scan has it or waits for it; in that case
\* the scan will hand it over.
RLock(c) ==
  /\ pc[c] = "rlock"
  /\ IF writer = None
       THEN readers' = readers \cup {c} /\ Goto(c, Inside(c))
       ELSE readers' = readers /\ Goto(c, "parked")
  /\ UNCHANGED <<status, writer, publish, slots, files>>

TakeSlotAlways(u) ==   \* mutant: no limit
  /\ pc[u] = "slot"
  /\ slots' = slots + 1
  /\ Goto(u, "stage")
  /\ UNCHANGED <<status, locks, files>>
TakeSlot(u) ==
  /\ pc[u] = "slot"
  /\ slots < Slots
  /\ slots' = slots + 1
  /\ Goto(u, "stage")
  /\ UNCHANGED <<status, locks, files>>

BusyDeferred(u) ==   \* mutant: the slot's return is deferred before it is taken
  /\ pc[u] = "slot"
  /\ slots = Slots
  /\ Goto(u, "discard")
  /\ UNCHANGED <<status, locks, slots, files>>
\* 429.
Busy(u) ==
  /\ pc[u] = "slot"
  /\ slots = Slots
  /\ Goto(u, "runlock")
  /\ UNCHANGED <<status, locks, slots, files>>

Stage(u) ==
  /\ pc[u] = "stage"
  /\ staging' = staging \cup {u}
  /\ Goto(u, "receive")
  /\ UNCHANGED <<status, locks, slots, litter>>

\* The body is there, its archive is valid and it is what the client said.
Receive(u) ==
  /\ pc[u] = "receive"
  /\ Goto(u, "publish")
  /\ UNCHANGED <<status, locks, slots, files>>

\* An error return before publishMu: no staging file, an interrupted or oversized body, an
\* archive that is refused.
Refuse(u) ==
  /\ pc[u] \in {"stage", "receive"}
  /\ Goto(u, "discard")
  /\ UNCHANGED <<status, locks, slots, files>>

LockPublish(p) ==
  /\ pc[p] = "publish"
  /\ publish = None
  /\ publish' = p
  /\ Goto(p, IF p \in Clients THEN "section" ELSE "walk")
  /\ UNCHANGED <<status, readers, writer, slots, files>>

\* All that the handler does with publishMu held, and the deferred publishMu.Unlock.
EndSection(c) ==
  /\ pc[c] = "section"
  /\ publish' = None
  /\ Goto(c, IF c \in Uploads THEN "discard" ELSE "runlock")
  /\ UNCHANGED <<status, readers, writer, slots, files>>

\* The deferred os.Remove and the slot's return.
Discard(u) ==
  /\ pc[u] = "discard"
  /\ staging' = staging \ {u}
  /\ slots' = slots - 1
  /\ Goto(u, "runlock")
  /\ UNCHANGED <<status, locks, litter>>

\* The deferred maintenance.RUnlock.
RUnlock(c) ==
  /\ pc[c] = "runlock"
  /\ readers' = readers \ {c}
  /\ Goto(c, "idle")
  /\ UNCHANGED <<status, writer, publish, slots, files>>

-----------------------------------------------------------------------------
(* Scans.                                                                  *)

\* The handler reads the scan status once and refuses to wait for the startup scan.
Ask(r) ==
  /\ life = "up"
  /\ pc[r] = "idle"
  /\ gate # "scanning"
  /\ seen' = [seen EXCEPT ![r] = gate]
  /\ Goto(r, "lock")
  /\ UNCHANGED <<life, gate, scanned, outcome, locks, slots, files>>

\* maintenance.Lock: one scan at a time keeps new readers out, and waits for those inside.
Lock(s) ==
  /\ pc[s] = "lock"
  /\ writer = None
  /\ writer' = s
  /\ Goto(s, "drain")
  /\ UNCHANGED <<status, readers, publish, slots, files>>

DrainNobody(s) ==   \* mutant: the scan shares the lock
  /\ pc[s] = "drain"
  /\ Goto(s, "publish")
  /\ UNCHANGED <<status, locks, slots, files>>
Drain(s) ==
  /\ pc[s] = "drain"
  /\ readers = {}
  /\ Goto(s, "publish")
  /\ UNCHANGED <<status, locks, slots, files>>

\* The walk lists the whole directory and removes every staging file it meets.
Walk(s) ==
  /\ pc[s] = "walk"
  /\ staging' = {}
  /\ litter' = FALSE
  /\ Goto(s, "settle")
  /\ UNCHANGED <<status, locks, slots>>

\* Reconcile returns: publishMu and maintenance are free, and the readers that waited for
\* the scan are inside before another scan can be.
Unlock(s) ==
  /\ publish' = None
  /\ writer' = None
  /\ readers' = readers \cup {c \in Clients : pc[c] = "parked"}
  /\ pc' = [p \in Procs |-> IF p = s THEN "finish"
                            ELSE IF p \in Clients /\ pc[p] = "parked" THEN Inside(p)
                            ELSE pc[p]]

Succeed(s) ==
  /\ pc[s] = "settle"
  /\ Unlock(s)
  /\ outcome' = [outcome EXCEPT ![s] = TRUE]
  /\ scanned' = TRUE
  /\ UNCHANGED <<life, gate, seen, slots, files>>

\* Any step may fail, also because the process is closing; a walk that fails has
\* swept some of the files.
ScanFails(s) ==
  /\ pc[s] \in {"walk", "settle"}
  /\ Unlock(s)
  /\ outcome' = [outcome EXCEPT ![s] = FALSE]
  /\ litter' \in {litter, FALSE}
  /\ UNCHANGED <<life, gate, scanned, seen, slots, staging>>

VerdictReady(s) == "ready"   \* mutant: the error is lost
Verdict(s) == IF outcome[s] THEN "ready" ELSE "failed"

FinishUnlessStopped(s) ==   \* mutant: the goroutine waits once it is cancelled
  /\ pc[s] = "finish"
  /\ life = "up"
  /\ gate' = IF s = Startup \/ seen[s] = "failed" THEN Verdict(s) ELSE gate
  /\ seen' = [r \in Reconciles |-> IF r = s THEN "scanning" ELSE seen[r]]
  /\ outcome' = [outcome EXCEPT ![s] = FALSE]
  /\ Goto(s, "idle")
  /\ UNCHANGED <<life, scanned, locks, slots, files>>
\* finishScan, without any of the locks: by the startup scan unless the process is closing, and by
\* a reconcile that read the status failed.
Finish(s) ==
  /\ pc[s] = "finish"
  /\ gate' = IF (IF s = Startup THEN life = "up" ELSE seen[s] = "failed") THEN Verdict(s) ELSE gate
  /\ seen' = [r \in Reconciles |-> IF r = s THEN "scanning" ELSE seen[r]]
  /\ outcome' = [outcome EXCEPT ![s] = FALSE]
  /\ Goto(s, "idle")
  /\ UNCHANGED <<life, scanned, locks, slots, files>>

-----------------------------------------------------------------------------
(* The process.                                                            *)

Start ==
  /\ life = "down"
  /\ life' = "up"
  /\ gate' = "scanning"
  /\ scanned' = FALSE
  /\ Goto(Startup, "lock")
  /\ UNCHANGED <<seen, outcome, locks, slots, files>>

\* SIGTERM: the listener closes, run returns and Close cancels the scan.  Requests go on.
Stop ==
  /\ life = "up"
  /\ life' = "closing"
  /\ UNCHANGED <<gate, scanned, pc, seen, outcome, locks, slots, files>>

\* What a process takes with it.  The files stay.
Die ==
  /\ life' = "down"
  /\ pc' = [p \in Procs |-> "idle"]
  /\ readers' = {}
  /\ writer' = None
  /\ publish' = None
  /\ slots' = 0
  /\ seen' = [r \in Reconciles |-> "scanning"]
  /\ outcome' = [s \in Scans |-> FALSE]
  /\ litter' = (litter \/ staging # {})
  /\ staging' = {}
  /\ UNCHANGED <<gate, scanned>>

\* Close waits for the startup scan only; the process ends under the requests that are left.
Exit ==
  /\ life = "closing"
  /\ pc[Startup] = "idle"
  /\ Die

Crash ==
  /\ life # "down"
  /\ Die

-----------------------------------------------------------------------------
Init ==
  /\ life = "down"
  /\ gate = "scanning"
  /\ scanned = FALSE
  /\ pc = [p \in Procs |-> "idle"]
  /\ seen = [r \in Reconciles |-> "scanning"]
  /\ outcome = [s \in Scans |-> FALSE]
  /\ readers = {}
  /\ writer = None
  /\ publish = None
  /\ slots = 0
  /\ staging = {}
  /\ litter \in BOOLEAN

Serve(u) == TakeSlot(u) \/ Busy(u) \/ Stage(u) \/ Receive(u) \/ Refuse(u) \/ Discard(u)
Scan(s) == Lock(s) \/ Drain(s) \/ Walk(s) \/ Succeed(s) \/ ScanFails(s) \/ Finish(s)

\* The next step of a goroutine that serves a request or runs a scan.
Proceed(p) ==
  \/ p \in Uploads /\ Serve(p)
  \/ p \in Clients /\ (RLock(p) \/ EndSection(p) \/ RUnlock(p))
  \/ p \in Scans /\ Scan(p)
  \/ LockPublish(p)

Next ==
  \/ \E p \in Procs : Proceed(p)
  \/ \E c \in Clients : Arrive(c)
  \/ \E r \in Reconciles : Ask(r)
  \/ Start \/ Stop \/ Exit \/ Crash

Spec == Init /\ [][Next]_vars

\* A goroutine goes on while it can; a body ends, at the latest by the server's ReadTimeout.
\* The fairness is strong because of the locks: who waits for a sync.Mutex gets it, though others
\* hold it time and again, as one that has waited for a millisecond is served in order.
Fairness == WF_vars(Exit) /\ \A p \in Procs : SF_vars(Proceed(p))

FairSpec == Spec /\ Fairness

-----------------------------------------------------------------------------
(* Properties.                                                             *)

\* The staging files of this process are those of the uploads that still need them: no scan
\* removes one under an upload that receives its body, inspects it or links it, and
\* no way out of the handler leaves one behind (server.go:692, 712, scan.go:236).
StagingExact ==
  \A u \in Uploads : pc[u] # "discard" =>
    (u \in staging <=> pc[u] \in {"receive", "publish", "section"})

\* A scan that settles records has the manager for itself: nobody is between RLock and
\* RUnlock, and no staging file is left (server.go:939, scan.go:236).
ScansAlone ==
  \A s \in Scans : pc[s] = "settle" =>
    /\ \A c \in Clients : pc[c] \in {"idle", "rlock", "parked"}
    /\ \A t \in Scans \ {s} : pc[t] \in {"idle", "lock", "finish"}
    /\ staging = {} /\ ~litter

\* Nobody changes packages before a scan of this process has succeeded, however scans and their
\* callers interleave (server.go:316).
AdmittedAfterScan == \A c \in Clients : pc[c] # "idle" => scanned

\* Each upload that is being served takes one slot, and every way out gives it back.
SlotsExact ==
  slots = Cardinality({u \in Uploads :
                         pc[u] \in {"stage", "receive", "publish", "section", "discard"}})

\* Requests and scans end, though each waits for the others' locks: the order of the two locks
\* leaves no cycle, and neither readers nor scans starve (server.go:692, 755, 939, 941).
EveryoneEnds == \A p \in Procs : []<>(pc[p] = "idle")

\* A manager that was told to stop does so; Close does not wait for ever (server.go:193).
StopEnds == []<>(life # "closing")

\* Success lifts the restriction that a failed scan left, for as long as the process lives
\* (docs/api.md:116).
GateStaysOpen == [][gate = "ready" /\ life' # "down" /\ life # "down" => gate' = "ready"]_vars
=============================================================================
