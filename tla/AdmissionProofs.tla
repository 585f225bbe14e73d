-------------------------- MODULE AdmissionProofs --------------------------
(***************************************************************************)
(* Proofs about Admission, for any number of clients, scans and slots.     *)
(***************************************************************************)
EXTENDS Admission, FiniteSetTheorems, TLAPS

-----------------------------------------------------------------------------
(* The invariant.                                                          *)

\* The steps of each kind of goroutine, in the order of its handler.
UploadSteps == {"idle", "rlock", "parked", "slot", "stage", "receive", "publish", "section",
                "discard", "runlock"}
EditSteps == {"idle", "rlock", "parked", "publish", "section", "runlock"}
ScanSteps == {"idle", "lock", "drain", "publish", "walk", "settle", "finish"}

StepsInv ==
  /\ \A u \in Uploads : pc[u] \in UploadSteps
  /\ \A d \in Edits : pc[d] \in EditSteps
  /\ \A s \in Scans : pc[s] \in ScanSteps

\* Who holds which lock, by its step: a scan has maintenance for itself once the readers are out,
\* and publishMu after that.
Reading == {"slot", "stage", "receive", "publish", "section", "discard", "runlock"}
Writing == {"drain", "publish", "walk", "settle"}

LocksInv ==
  /\ \A c \in Clients : c \in readers <=> pc[c] \in Reading
  /\ \A s \in Scans : s = writer <=> pc[s] \in Writing
  /\ \A s \in Scans : pc[s] \in {"publish", "walk", "settle"} => readers = {}
  /\ \A c \in Clients : c = publish <=> pc[c] = "section"
  /\ \A s \in Scans : s = publish <=> pc[s] \in {"walk", "settle"}

\* A scan that settles has swept the directory, and no upload stages a file meanwhile.
SweptInv == \A s \in Scans : pc[s] = "settle" => staging = {} /\ ~litter

\* Whatever lets a request through is a success of this process.
GateInv ==
  /\ gate = "ready" /\ life # "down" => scanned
  /\ \A s \in Scans : outcome[s] => scanned

\* Nothing runs in a process that is down.
DownInv == life = "down" => /\ \A p \in Procs : pc[p] = "idle"
                            /\ \A s \in Scans : ~outcome[s]

AdmissionInv ==
  /\ TypeOK
  /\ StepsInv
  /\ LocksInv
  /\ SweptInv
  /\ GateInv
  /\ DownInv
  /\ StagingExact
  /\ AdmittedAfterScan
  /\ SlotsExact
-----------------------------------------------------------------------------
(* What is used throughout.                                                *)

\* Clients and scans are different goroutines; so are uploads and edits.
LEMMA Kinds ==
  /\ Uploads \subseteq Clients /\ Edits \subseteq Clients /\ Clients \subseteq Procs
  /\ Reconciles \subseteq Scans /\ Startup \in Scans /\ Scans \subseteq Procs
  /\ Clients \cap Scans = {} /\ Uploads \cap Edits = {} /\ Clients = Uploads \cup Edits
  /\ None \notin Procs /\ Procs = Clients \cup Scans
BY AdmissionAssumption DEF Clients, Scans, Procs

\* The uploads that have a slot.
Served == {u \in Uploads : pc[u] \in {"stage", "receive", "publish", "section", "discard"}}

\* As long as they stay the same, slots need not change.
LEMMA SlotsKept ==
  ASSUME SlotsExact, Served' = Served, slots' = slots
  PROVE  SlotsExact'
BY DEF SlotsExact, Served

\* They can be counted.
LEMMA ServedFinite == IsFiniteSet(Served)
BY AdmissionAssumption, FS_Subset, Kinds DEF Served

-----------------------------------------------------------------------------
\* A request passes the gate, takes its locks and leaves them.
LEMMA RequestStepsKeep ==
  ASSUME AdmissionInv,
         \/ \E c \in Clients : Arrive(c)
         \/ \E c \in Clients : RLock(c)
         \/ \E c \in Clients : EndSection(c)
         \/ \E c \in Clients : RUnlock(c)
         \/ \E p \in Procs : LockPublish(p)
  PROVE  AdmissionInv'
<1> USE Kinds DEF AdmissionInv, Goto, TypeOK
<1>1. ASSUME NEW c \in Clients, Arrive(c)
      PROVE  AdmissionInv'
  <2>1. TypeOK'
    BY <1>1 DEF Arrive, Steps, status, files, locks
  <2>2. StepsInv'
    BY <1>1 DEF Arrive, StepsInv, UploadSteps, EditSteps, ScanSteps
  <2>3. LocksInv'
    BY <1>1 DEF Arrive, StepsInv, UploadSteps, EditSteps, ScanSteps,
       LocksInv, Reading, Writing, locks
  <2>4. SweptInv' /\ GateInv' /\ DownInv'
    BY <1>1 DEF Arrive, SweptInv, GateInv, DownInv, LocksInv, Reading, status, files
  <2>5. StagingExact' /\ AdmittedAfterScan'
    BY <1>1 DEF Arrive, StagingExact, AdmittedAfterScan, LocksInv, Reading, GateInv, DownInv,
       status, files
  <2>6. SlotsExact'
    <3>1. Served' = Served
      BY <1>1 DEF Arrive, Served, StepsInv, UploadSteps, ScanSteps
    <3> QED BY <1>1, <3>1, SlotsKept DEF Arrive
  <2> QED BY <2>1, <2>2, <2>3, <2>4, <2>5, <2>6
<1>2. ASSUME NEW c \in Clients, RLock(c)
      PROVE  AdmissionInv'
  <2>1. TypeOK'
    BY <1>2 DEF RLock, Inside, Steps, status, files, locks
  <2>2. StepsInv'
    BY <1>2 DEF RLock, Inside, StepsInv, UploadSteps, EditSteps, ScanSteps
  <2>3. LocksInv'
    BY <1>2 DEF RLock, Inside, StepsInv, UploadSteps, EditSteps, ScanSteps,
       LocksInv, Reading, Writing, locks
  <2>4. SweptInv' /\ GateInv' /\ DownInv'
    BY <1>2 DEF RLock, Inside, SweptInv, GateInv, DownInv, LocksInv, Reading, status, files
  <2>5. StagingExact' /\ AdmittedAfterScan'
    BY <1>2 DEF RLock, Inside, StagingExact, AdmittedAfterScan, LocksInv, Reading, GateInv, DownInv,
       status, files
  <2>6. SlotsExact'
    <3>1. Served' = Served
      BY <1>2 DEF RLock, Inside, Served, StepsInv, UploadSteps, ScanSteps
    <3> QED BY <1>2, <3>1, SlotsKept DEF RLock, Inside
  <2> QED BY <2>1, <2>2, <2>3, <2>4, <2>5, <2>6
<1>3. ASSUME NEW c \in Clients, EndSection(c)
      PROVE  AdmissionInv'
  <2>1. TypeOK'
    BY <1>3 DEF EndSection, Steps, status, files, locks
  <2>2. StepsInv'
    BY <1>3 DEF EndSection, StepsInv, UploadSteps, EditSteps, ScanSteps
  <2>3. LocksInv'
    BY <1>3 DEF EndSection, StepsInv, UploadSteps, EditSteps, ScanSteps,
       LocksInv, Reading, Writing, locks
  <2>4. SweptInv' /\ GateInv' /\ DownInv'
    BY <1>3 DEF EndSection, SweptInv, GateInv, DownInv, LocksInv, Reading, status, files
  <2>5. StagingExact' /\ AdmittedAfterScan'
    BY <1>3 DEF EndSection, StagingExact, AdmittedAfterScan, LocksInv, Reading, GateInv, DownInv,
       status, files
  <2>6. SlotsExact'
    <3>1. Served' = Served
      BY <1>3 DEF EndSection, Served, StepsInv, UploadSteps, ScanSteps
    <3> QED BY <1>3, <3>1, SlotsKept DEF EndSection
  <2> QED BY <2>1, <2>2, <2>3, <2>4, <2>5, <2>6
<1>4. ASSUME NEW c \in Clients, RUnlock(c)
      PROVE  AdmissionInv'
  <2>1. TypeOK'
    BY <1>4 DEF RUnlock, Steps, status, files, locks
  <2>2. StepsInv'
    BY <1>4 DEF RUnlock, StepsInv, UploadSteps, EditSteps, ScanSteps
  <2>3. LocksInv'
    BY <1>4 DEF RUnlock, StepsInv, UploadSteps, EditSteps, ScanSteps,
       LocksInv, Reading, Writing, locks
  <2>4. SweptInv' /\ GateInv' /\ DownInv'
    BY <1>4 DEF RUnlock, SweptInv, GateInv, DownInv, LocksInv, Reading, status, files
  <2>5. StagingExact' /\ AdmittedAfterScan'
    BY <1>4 DEF RUnlock, StagingExact, AdmittedAfterScan, LocksInv, Reading, GateInv, DownInv,
       status, files
  <2>6. SlotsExact'
    <3>1. Served' = Served
      BY <1>4 DEF RUnlock, Served, StepsInv, UploadSteps, ScanSteps
    <3> QED BY <1>4, <3>1, SlotsKept DEF RUnlock
  <2> QED BY <2>1, <2>2, <2>3, <2>4, <2>5, <2>6
<1>5. ASSUME NEW p \in Procs, LockPublish(p)
      PROVE  AdmissionInv'
  <2>1. TypeOK'
    BY <1>5 DEF LockPublish, Steps, status, files, locks
  <2>2. StepsInv'
    BY <1>5 DEF LockPublish, StepsInv, UploadSteps, EditSteps, ScanSteps
  <2>3. LocksInv'
    BY <1>5 DEF LockPublish, StepsInv, UploadSteps, EditSteps, ScanSteps,
       LocksInv, Reading, Writing, locks
  <2>4. SweptInv' /\ GateInv' /\ DownInv'
    BY <1>5 DEF LockPublish, SweptInv, GateInv, DownInv, LocksInv, Reading, status, files
  <2>5. StagingExact' /\ AdmittedAfterScan'
    BY <1>5 DEF LockPublish, StagingExact, AdmittedAfterScan, LocksInv, Reading, GateInv, DownInv,
       status, files
  <2>6. SlotsExact'
    <3>1. Served' = Served
      BY <1>5 DEF LockPublish, Served, StepsInv, UploadSteps, ScanSteps
    <3> QED BY <1>5, <3>1, SlotsKept DEF LockPublish
  <2> QED BY <2>1, <2>2, <2>3, <2>4, <2>5, <2>6
<1> QED BY <1>1, <1>2, <1>3, <1>4, <1>5

-----------------------------------------------------------------------------
\* An upload takes its slot, stages its file, and gives both up.
LEMMA UploadStepsKeep ==
  ASSUME AdmissionInv,
         \/ \E u \in Uploads : TakeSlot(u)
         \/ \E u \in Uploads : Busy(u)
         \/ \E u \in Uploads : Stage(u)
         \/ \E u \in Uploads : Receive(u)
         \/ \E u \in Uploads : Refuse(u)
         \/ \E u \in Uploads : Discard(u)
  PROVE  AdmissionInv'
<1> USE Kinds DEF AdmissionInv, Goto, TypeOK
<1>1. ASSUME NEW u \in Uploads, TakeSlot(u)
      PROVE  AdmissionInv'
  <2>1. TypeOK'
    BY <1>1, AdmissionAssumption DEF TakeSlot, Steps, status, files, locks
  <2>2. StepsInv'
    BY <1>1 DEF TakeSlot, StepsInv, UploadSteps, EditSteps, ScanSteps
  <2>3. LocksInv'
    BY <1>1 DEF TakeSlot, StepsInv, UploadSteps, EditSteps, ScanSteps,
       LocksInv, Reading, Writing, locks
  <2>4. SweptInv' /\ GateInv' /\ DownInv'
    BY <1>1 DEF TakeSlot, SweptInv, GateInv, DownInv, LocksInv, Reading, status, files
  <2>5. StagingExact' /\ AdmittedAfterScan'
    BY <1>1 DEF TakeSlot, StagingExact, AdmittedAfterScan, LocksInv, Reading, GateInv, DownInv,
       status, files
  <2>6. SlotsExact'
    <3>1. Served' = Served \cup {u} /\ u \notin Served
      BY <1>1 DEF TakeSlot, Served
    <3>2. Cardinality(Served') = Cardinality(Served) + 1
      BY <3>1, ServedFinite, FS_AddElement
    <3> QED BY <1>1, <3>2 DEF TakeSlot, SlotsExact, Served
  <2> QED BY <2>1, <2>2, <2>3, <2>4, <2>5, <2>6
<1>2. ASSUME NEW u \in Uploads, Busy(u)
      PROVE  AdmissionInv'
  <2>1. TypeOK'
    BY <1>2 DEF Busy, Steps, status, files, locks
  <2>2. StepsInv'
    BY <1>2 DEF Busy, StepsInv, UploadSteps, EditSteps, ScanSteps
  <2>3. LocksInv'
    BY <1>2 DEF Busy, StepsInv, UploadSteps, EditSteps, ScanSteps,
       LocksInv, Reading, Writing, locks
  <2>4. SweptInv' /\ GateInv' /\ DownInv'
    BY <1>2 DEF Busy, SweptInv, GateInv, DownInv, LocksInv, Reading, status, files
  <2>5. StagingExact' /\ AdmittedAfterScan'
    BY <1>2 DEF Busy, StagingExact, AdmittedAfterScan, LocksInv, Reading, GateInv, DownInv,
       status, files
  <2>6. SlotsExact'
    <3>1. Served' = Served
      BY <1>2 DEF Busy, Served, StepsInv, UploadSteps, ScanSteps
    <3> QED BY <1>2, <3>1, SlotsKept DEF Busy
  <2> QED BY <2>1, <2>2, <2>3, <2>4, <2>5, <2>6
<1>3. ASSUME NEW u \in Uploads, Stage(u)
      PROVE  AdmissionInv'
  <2>1. TypeOK'
    BY <1>3 DEF Stage, Steps, status, files, locks
  <2>2. StepsInv'
    BY <1>3 DEF Stage, StepsInv, UploadSteps, EditSteps, ScanSteps
  <2>3. LocksInv'
    BY <1>3 DEF Stage, StepsInv, UploadSteps, EditSteps, ScanSteps,
       LocksInv, Reading, Writing, locks
  <2>4. SweptInv' /\ GateInv' /\ DownInv'
    BY <1>3 DEF Stage, SweptInv, GateInv, DownInv, LocksInv, Reading, status, files
  <2>5. StagingExact' /\ AdmittedAfterScan'
    BY <1>3 DEF Stage, StagingExact, AdmittedAfterScan, LocksInv, Reading, GateInv, DownInv,
       status, files
  <2>6. SlotsExact'
    <3>1. Served' = Served
      BY <1>3 DEF Stage, Served, StepsInv, UploadSteps, ScanSteps
    <3> QED BY <1>3, <3>1, SlotsKept DEF Stage
  <2> QED BY <2>1, <2>2, <2>3, <2>4, <2>5, <2>6
<1>4. ASSUME NEW u \in Uploads, Receive(u)
      PROVE  AdmissionInv'
  <2>1. TypeOK'
    BY <1>4 DEF Receive, Steps, status, files, locks
  <2>2. StepsInv'
    BY <1>4 DEF Receive, StepsInv, UploadSteps, EditSteps, ScanSteps
  <2>3. LocksInv'
    BY <1>4 DEF Receive, StepsInv, UploadSteps, EditSteps, ScanSteps,
       LocksInv, Reading, Writing, locks
  <2>4. SweptInv' /\ GateInv' /\ DownInv'
    BY <1>4 DEF Receive, SweptInv, GateInv, DownInv, LocksInv, Reading, status, files
  <2>5. StagingExact' /\ AdmittedAfterScan'
    BY <1>4 DEF Receive, StagingExact, AdmittedAfterScan, LocksInv, Reading, GateInv, DownInv,
       status, files
  <2>6. SlotsExact'
    <3>1. Served' = Served
      BY <1>4 DEF Receive, Served, StepsInv, UploadSteps, ScanSteps
    <3> QED BY <1>4, <3>1, SlotsKept DEF Receive
  <2> QED BY <2>1, <2>2, <2>3, <2>4, <2>5, <2>6
<1>5. ASSUME NEW u \in Uploads, Refuse(u)
      PROVE  AdmissionInv'
  <2>1. TypeOK'
    BY <1>5 DEF Refuse, Steps, status, files, locks
  <2>2. StepsInv'
    BY <1>5 DEF Refuse, StepsInv, UploadSteps, EditSteps, ScanSteps
  <2>3. LocksInv'
    BY <1>5 DEF Refuse, StepsInv, UploadSteps, EditSteps, ScanSteps,
       LocksInv, Reading, Writing, locks
  <2>4. SweptInv' /\ GateInv' /\ DownInv'
    BY <1>5 DEF Refuse, SweptInv, GateInv, DownInv, LocksInv, Reading, status, files
  <2>5. StagingExact' /\ AdmittedAfterScan'
    BY <1>5 DEF Refuse, StagingExact, AdmittedAfterScan, LocksInv, Reading, GateInv, DownInv,
       status, files
  <2>6. SlotsExact'
    <3>1. Served' = Served
      BY <1>5 DEF Refuse, Served, StepsInv, UploadSteps, ScanSteps
    <3> QED BY <1>5, <3>1, SlotsKept DEF Refuse
  <2> QED BY <2>1, <2>2, <2>3, <2>4, <2>5, <2>6
<1>6. ASSUME NEW u \in Uploads, Discard(u)
      PROVE  AdmissionInv'
  <2>1. TypeOK'
    <3>1. u \in Served
      BY <1>6 DEF Discard, Served
    <3>2. slots # 0
      BY <3>1, ServedFinite, FS_EmptySet DEF SlotsExact, Served
    <3>3. slots - 1 \in 0 .. Slots
      BY <3>2, AdmissionAssumption
    <3> QED BY <1>6, <3>3 DEF Discard, Steps, status, files, locks
  <2>2. StepsInv'
    BY <1>6 DEF Discard, StepsInv, UploadSteps, EditSteps, ScanSteps
  <2>3. LocksInv'
    BY <1>6 DEF Discard, StepsInv, UploadSteps, EditSteps, ScanSteps,
       LocksInv, Reading, Writing, locks
  <2>4. SweptInv' /\ GateInv' /\ DownInv'
    BY <1>6 DEF Discard, SweptInv, GateInv, DownInv, LocksInv, Reading, status, files
  <2>5. StagingExact' /\ AdmittedAfterScan'
    BY <1>6 DEF Discard, StagingExact, AdmittedAfterScan, LocksInv, Reading, GateInv, DownInv,
       status, files
  <2>6. SlotsExact'
    <3>1. Served' = Served \ {u} /\ u \in Served
      BY <1>6 DEF Discard, Served
    <3>2. Cardinality(Served') = Cardinality(Served) - 1
      BY <3>1, ServedFinite, FS_RemoveElement
    <3> QED BY <1>6, <3>2 DEF Discard, SlotsExact, Served
  <2> QED BY <2>1, <2>2, <2>3, <2>4, <2>5, <2>6
<1> QED BY <1>1, <1>2, <1>3, <1>4, <1>5, <1>6

-----------------------------------------------------------------------------
\* A scan takes both locks, sweeps, and reports its outcome without them.
LEMMA ScanStepsKeep ==
  ASSUME AdmissionInv,
         \/ \E r \in Reconciles : Ask(r)
         \/ \E s \in Scans : Lock(s)
         \/ \E s \in Scans : Drain(s)
         \/ \E s \in Scans : Walk(s)
         \/ \E s \in Scans : Succeed(s)
         \/ \E s \in Scans : ScanFails(s)
         \/ \E s \in Scans : Finish(s)
  PROVE  AdmissionInv'
<1> USE Kinds DEF AdmissionInv, Goto, TypeOK
<1>1. ASSUME NEW r \in Reconciles, Ask(r)
      PROVE  AdmissionInv'
  <2>1. TypeOK'
    BY <1>1 DEF Ask, Steps, status, files, locks
  <2>2. StepsInv'
    BY <1>1 DEF Ask, StepsInv, UploadSteps, EditSteps, ScanSteps
  <2>3. LocksInv'
    BY <1>1 DEF Ask, StepsInv, UploadSteps, EditSteps, ScanSteps,
       LocksInv, Reading, Writing, locks
  <2>4. SweptInv' /\ GateInv' /\ DownInv'
    BY <1>1 DEF Ask, SweptInv, GateInv, DownInv, LocksInv, Reading, status, files
  <2>5. StagingExact' /\ AdmittedAfterScan'
    BY <1>1 DEF Ask, StagingExact, AdmittedAfterScan, LocksInv, Reading, GateInv, DownInv,
       status, files
  <2>6. SlotsExact'
    <3>1. Served' = Served
      BY <1>1 DEF Ask, Served, StepsInv, UploadSteps, ScanSteps
    <3> QED BY <1>1, <3>1, SlotsKept DEF Ask
  <2> QED BY <2>1, <2>2, <2>3, <2>4, <2>5, <2>6
<1>2. ASSUME NEW s \in Scans, Lock(s)
      PROVE  AdmissionInv'
  <2>1. TypeOK'
    BY <1>2 DEF Lock, Steps, status, files, locks
  <2>2. StepsInv'
    BY <1>2 DEF Lock, StepsInv, UploadSteps, EditSteps, ScanSteps
  <2>3. LocksInv'
    BY <1>2 DEF Lock, StepsInv, UploadSteps, EditSteps, ScanSteps,
       LocksInv, Reading, Writing, locks
  <2>4. SweptInv' /\ GateInv' /\ DownInv'
    BY <1>2 DEF Lock, SweptInv, GateInv, DownInv, LocksInv, Reading, status, files
  <2>5. StagingExact' /\ AdmittedAfterScan'
    BY <1>2 DEF Lock, StagingExact, AdmittedAfterScan, LocksInv, Reading, GateInv, DownInv,
       status, files
  <2>6. SlotsExact'
    <3>1. Served' = Served
      BY <1>2 DEF Lock, Served, StepsInv, UploadSteps, ScanSteps
    <3> QED BY <1>2, <3>1, SlotsKept DEF Lock
  <2> QED BY <2>1, <2>2, <2>3, <2>4, <2>5, <2>6
<1>3. ASSUME NEW s \in Scans, Drain(s)
      PROVE  AdmissionInv'
  <2>1. TypeOK'
    BY <1>3 DEF Drain, Steps, status, files, locks
  <2>2. StepsInv'
    BY <1>3 DEF Drain, StepsInv, UploadSteps, EditSteps, ScanSteps
  <2>3. LocksInv'
    BY <1>3 DEF Drain, StepsInv, UploadSteps, EditSteps, ScanSteps,
       LocksInv, Reading, Writing, locks
  <2>4. SweptInv' /\ GateInv' /\ DownInv'
    BY <1>3 DEF Drain, SweptInv, GateInv, DownInv, LocksInv, Reading, status, files
  <2>5. StagingExact' /\ AdmittedAfterScan'
    BY <1>3 DEF Drain, StagingExact, AdmittedAfterScan, LocksInv, Reading, GateInv, DownInv,
       status, files
  <2>6. SlotsExact'
    <3>1. Served' = Served
      BY <1>3 DEF Drain, Served, StepsInv, UploadSteps, ScanSteps
    <3> QED BY <1>3, <3>1, SlotsKept DEF Drain
  <2> QED BY <2>1, <2>2, <2>3, <2>4, <2>5, <2>6
<1>4. ASSUME NEW s \in Scans, Walk(s)
      PROVE  AdmissionInv'
  <2>1. TypeOK'
    BY <1>4 DEF Walk, Steps, status, files, locks
  <2>2. StepsInv'
    BY <1>4 DEF Walk, StepsInv, UploadSteps, EditSteps, ScanSteps
  <2>3. LocksInv'
    BY <1>4 DEF Walk, StepsInv, UploadSteps, EditSteps, ScanSteps,
       LocksInv, Reading, Writing, locks
  <2>4. SweptInv' /\ GateInv' /\ DownInv'
    BY <1>4 DEF Walk, SweptInv, GateInv, DownInv, LocksInv, Reading, status, files
  <2>5. StagingExact' /\ AdmittedAfterScan'
    BY <1>4 DEF Walk, StagingExact, AdmittedAfterScan, LocksInv, Reading, GateInv, DownInv,
       status, files
  <2>6. SlotsExact'
    <3>1. Served' = Served
      BY <1>4 DEF Walk, Served, StepsInv, UploadSteps, ScanSteps
    <3> QED BY <1>4, <3>1, SlotsKept DEF Walk
  <2> QED BY <2>1, <2>2, <2>3, <2>4, <2>5, <2>6
<1>5. ASSUME NEW s \in Scans, Succeed(s)
      PROVE  AdmissionInv'
  <2>1. TypeOK'
    BY <1>5 DEF Succeed, Unlock, Inside, Steps, status, files, locks
  <2>2. StepsInv'
    BY <1>5 DEF Succeed, Unlock, Inside, StepsInv, UploadSteps, EditSteps, ScanSteps
  <2>3. LocksInv'
    BY <1>5 DEF Succeed, Unlock, Inside, StepsInv, UploadSteps, EditSteps, ScanSteps,
       LocksInv, Reading, Writing, locks
  <2>4. SweptInv' /\ GateInv' /\ DownInv'
    BY <1>5 DEF Succeed, Unlock, Inside, SweptInv, GateInv, DownInv, LocksInv, Reading, status, files
  <2>5. StagingExact' /\ AdmittedAfterScan'
    BY <1>5 DEF Succeed, Unlock, Inside, StagingExact, AdmittedAfterScan, LocksInv, Reading, GateInv, DownInv,
       status, files
  <2>6. SlotsExact'
    <3>1. Served' = Served
      BY <1>5 DEF Succeed, Unlock, Inside, Served, StepsInv, UploadSteps, ScanSteps
    <3> QED BY <1>5, <3>1, SlotsKept DEF Succeed, Unlock, Inside
  <2> QED BY <2>1, <2>2, <2>3, <2>4, <2>5, <2>6
<1>6. ASSUME NEW s \in Scans, ScanFails(s)
      PROVE  AdmissionInv'
  <2>1. TypeOK'
    BY <1>6 DEF ScanFails, Unlock, Inside, Steps, status, files, locks
  <2>2. StepsInv'
    BY <1>6 DEF ScanFails, Unlock, Inside, StepsInv, UploadSteps, EditSteps, ScanSteps
  <2>3. LocksInv'
    BY <1>6 DEF ScanFails, Unlock, Inside, StepsInv, UploadSteps, EditSteps, ScanSteps,
       LocksInv, Reading, Writing, locks
  <2>4. SweptInv' /\ GateInv' /\ DownInv'
    BY <1>6 DEF ScanFails, Unlock, Inside, SweptInv, GateInv, DownInv, LocksInv, Reading, status, files
  <2>5. StagingExact' /\ AdmittedAfterScan'
    BY <1>6 DEF ScanFails, Unlock, Inside, StagingExact, AdmittedAfterScan, LocksInv, Reading, GateInv, DownInv,
       status, files
  <2>6. SlotsExact'
    <3>1. Served' = Served
      BY <1>6 DEF ScanFails, Unlock, Inside, Served, StepsInv, UploadSteps, ScanSteps
    <3> QED BY <1>6, <3>1, SlotsKept DEF ScanFails, Unlock, Inside
  <2> QED BY <2>1, <2>2, <2>3, <2>4, <2>5, <2>6
<1>7. ASSUME NEW s \in Scans, Finish(s)
      PROVE  AdmissionInv'
  <2>1. TypeOK'
    BY <1>7 DEF Finish, Verdict, Steps, Gates, status, files, locks
  <2>2. StepsInv'
    BY <1>7 DEF Finish, Verdict, StepsInv, UploadSteps, EditSteps, ScanSteps
  <2>3. LocksInv'
    BY <1>7 DEF Finish, Verdict, StepsInv, UploadSteps, EditSteps, ScanSteps,
       LocksInv, Reading, Writing, locks
  <2>4. SweptInv' /\ GateInv' /\ DownInv'
    BY <1>7 DEF Finish, Verdict, SweptInv, GateInv, DownInv, LocksInv, Reading, status, files
  <2>5. StagingExact' /\ AdmittedAfterScan'
    BY <1>7 DEF Finish, Verdict, StagingExact, AdmittedAfterScan, LocksInv, Reading, GateInv, DownInv,
       status, files
  <2>6. SlotsExact'
    <3>1. Served' = Served
      BY <1>7 DEF Finish, Verdict, Served, StepsInv, UploadSteps, ScanSteps
    <3> QED BY <1>7, <3>1, SlotsKept DEF Finish, Verdict
  <2> QED BY <2>1, <2>2, <2>3, <2>4, <2>5, <2>6
<1> QED BY <1>1, <1>2, <1>3, <1>4, <1>5, <1>6, <1>7

-----------------------------------------------------------------------------
\* The process starts, is told to stop, and ends.
LEMMA ProcessStepsKeep ==
  ASSUME AdmissionInv,
         \/ Start
         \/ Stop
         \/ Die
  PROVE  AdmissionInv'
<1> USE Kinds DEF AdmissionInv, Goto, TypeOK
<1>1. ASSUME Start
      PROVE  AdmissionInv'
  <2>1. TypeOK'
    BY <1>1 DEF Start, Steps, Gates, status, files, locks
  <2>2. StepsInv'
    BY <1>1 DEF Start, StepsInv, UploadSteps, EditSteps, ScanSteps
  <2>3. LocksInv'
    BY <1>1 DEF Start, DownInv, StepsInv, UploadSteps, EditSteps, ScanSteps,
       LocksInv, Reading, Writing, locks
  <2>4. SweptInv' /\ GateInv' /\ DownInv'
    BY <1>1 DEF Start, SweptInv, GateInv, DownInv, LocksInv, Reading, status, files
  <2>5. StagingExact' /\ AdmittedAfterScan'
    BY <1>1 DEF Start, StagingExact, AdmittedAfterScan, LocksInv, Reading, GateInv, DownInv,
       status, files
  <2>6. SlotsExact'
    <3>1. Served' = Served
      BY <1>1 DEF Start, Served, StepsInv, UploadSteps, ScanSteps
    <3> QED BY <1>1, <3>1, SlotsKept DEF Start
  <2> QED BY <2>1, <2>2, <2>3, <2>4, <2>5, <2>6
<1>2. ASSUME Stop
      PROVE  AdmissionInv'
  <2>1. TypeOK'
    BY <1>2 DEF Stop, Steps, status, files, locks
  <2>2. StepsInv'
    BY <1>2 DEF Stop, StepsInv, UploadSteps, EditSteps, ScanSteps
  <2>3. LocksInv'
    BY <1>2 DEF Stop, StepsInv, UploadSteps, EditSteps, ScanSteps,
       LocksInv, Reading, Writing, locks
  <2>4. SweptInv' /\ GateInv' /\ DownInv'
    BY <1>2 DEF Stop, SweptInv, GateInv, DownInv, LocksInv, Reading, status, files
  <2>5. StagingExact' /\ AdmittedAfterScan'
    BY <1>2 DEF Stop, StagingExact, AdmittedAfterScan, LocksInv, Reading, GateInv, DownInv,
       status, files
  <2>6. SlotsExact'
    <3>1. Served' = Served
      BY <1>2 DEF Stop, Served, StepsInv, UploadSteps, ScanSteps
    <3> QED BY <1>2, <3>1, SlotsKept DEF Stop
  <2> QED BY <2>1, <2>2, <2>3, <2>4, <2>5, <2>6
<1>3. ASSUME Die
      PROVE  AdmissionInv'
  <2>1. TypeOK'
    BY <1>3, AdmissionAssumption DEF Die, Steps, Gates, status, files, locks
  <2>2. StepsInv'
    BY <1>3 DEF Die, StepsInv, UploadSteps, EditSteps, ScanSteps
  <2>3. LocksInv'
    BY <1>3 DEF Die, StepsInv, UploadSteps, EditSteps, ScanSteps,
       LocksInv, Reading, Writing, locks
  <2>4. SweptInv' /\ GateInv' /\ DownInv'
    BY <1>3 DEF Die, SweptInv, GateInv, DownInv, LocksInv, Reading, status, files
  <2>5. StagingExact' /\ AdmittedAfterScan'
    BY <1>3 DEF Die, StagingExact, AdmittedAfterScan, LocksInv, Reading, GateInv, DownInv,
       status, files
  <2>6. SlotsExact'
    <3>1. Served' = {}
      BY <1>3 DEF Die, Served
    <3> QED BY <1>3, <3>1, FS_EmptySet DEF Die, SlotsExact, Served
  <2> QED BY <2>1, <2>2, <2>3, <2>4, <2>5, <2>6
<1> QED BY <1>1, <1>2, <1>3

-----------------------------------------------------------------------------
(* Theorems.                                                               *)

\* Initially nothing runs, though litter may be there.
LEMMA InitAdmissionInv == Init => AdmissionInv
<1> SUFFICES ASSUME Init
             PROVE  AdmissionInv
  OBVIOUS
<1> USE Kinds DEF Init
<1>1. TypeOK
  <2>1. outcome \in [Scans -> BOOLEAN] /\ litter \in BOOLEAN
    OBVIOUS
  <2>2. pc \in [Procs -> Steps] /\ seen \in [Reconciles -> Gates]
    BY DEF Gates, Steps
  <2>3. slots \in 0 .. Slots
    BY AdmissionAssumption
  <2> QED BY <2>1, <2>2, <2>3 DEF TypeOK, Gates
<1>2. StepsInv /\ LocksInv
  BY DEF StepsInv, LocksInv, UploadSteps, EditSteps, ScanSteps, Reading, Writing
<1>3. SweptInv /\ GateInv /\ DownInv /\ StagingExact /\ AdmittedAfterScan
  BY DEF SweptInv, GateInv, DownInv, StagingExact, AdmittedAfterScan
<1>4. SlotsExact
  <2>1. Served = {}
    BY DEF Served
  <2> QED BY <2>1, FS_EmptySet DEF SlotsExact, Served
<1> QED BY <1>1, <1>2, <1>3, <1>4 DEF AdmissionInv

\* Every step of every goroutine keeps the invariant.
LEMMA StepAdmissionInv == AdmissionInv /\ [Next]_vars => AdmissionInv'
<1> SUFFICES ASSUME AdmissionInv, [Next]_vars
             PROVE  AdmissionInv'
  OBVIOUS
<1>1. CASE UNCHANGED vars
  <2>1. TypeOK' /\ StepsInv' /\ LocksInv'
    BY <1>1 DEF AdmissionInv, TypeOK, StepsInv, LocksInv, vars
  <2>2. SweptInv' /\ GateInv' /\ DownInv' /\ StagingExact' /\ AdmittedAfterScan'
    BY <1>1 DEF AdmissionInv, SweptInv, GateInv, DownInv, StagingExact, AdmittedAfterScan, vars
  <2>3. SlotsExact'
    BY <1>1, SlotsKept DEF AdmissionInv, Served, vars
  <2> QED BY <2>1, <2>2, <2>3 DEF AdmissionInv
<1>2. ASSUME NEW p \in Procs, Proceed(p)
      PROVE  AdmissionInv'
  BY <1>2, RequestStepsKeep, UploadStepsKeep, ScanStepsKeep DEF Proceed, Serve, Scan
<1>3. CASE \E c \in Clients : Arrive(c)
  BY <1>3, RequestStepsKeep
<1>4. CASE \E r \in Reconciles : Ask(r)
  BY <1>4, ScanStepsKeep
<1>5. CASE Start \/ Stop \/ Exit \/ Crash
  BY <1>5, ProcessStepsKeep DEF Exit, Crash
<1> QED BY <1>1, <1>2, <1>3, <1>4, <1>5 DEF Next

\* It holds throughout.
LEMMA AlwaysAdmissionInv == Spec => []AdmissionInv
BY InitAdmissionInv, StepAdmissionInv, PTL DEF Spec

\* Every variable keeps its type: in particular no more slots are taken than there are, and none
\* is given back that was not taken.
THEOREM AdmissionTypes == Spec => []TypeOK
<1>1. AdmissionInv => TypeOK
  BY DEF AdmissionInv
<1> QED BY <1>1, AlwaysAdmissionInv, PTL

\* However many uploads and scans there are, no scan removes a staging file in use, and no
\* upload leaves one behind.
THEOREM StagingFilesAreSafe == Spec => []StagingExact
<1>1. AdmissionInv => StagingExact
  BY DEF AdmissionInv
<1> QED BY <1>1, AlwaysAdmissionInv, PTL

\* A scan that settles records is alone: no other scan, no upload, deletion or limit change is
\* past its lock.
THEOREM ScansRunAlone == Spec => []ScansAlone
<1>1. ASSUME AdmissionInv
      PROVE  ScansAlone
  <2> SUFFICES ASSUME NEW s \in Scans, pc[s] = "settle"
               PROVE  /\ \A c \in Clients : pc[c] \in {"idle", "rlock", "parked"}
                      /\ \A t \in Scans \ {s} : pc[t] \in {"idle", "lock", "finish"}
                      /\ staging = {} /\ ~litter
    BY DEF ScansAlone
  <2>1. \A c \in Clients : pc[c] \in {"idle", "rlock", "parked"}
    BY <1>1, Kinds DEF AdmissionInv, StepsInv, LocksInv, Reading, UploadSteps, EditSteps
  <2>2. \A t \in Scans \ {s} : pc[t] \in {"idle", "lock", "finish"}
    BY <1>1 DEF AdmissionInv, StepsInv, LocksInv, Writing, ScanSteps
  <2>3. staging = {} /\ ~litter
    BY <1>1 DEF AdmissionInv, SweptInv
  <2> QED BY <2>1, <2>2, <2>3
<1>2. AdmissionInv => ScansAlone
  BY <1>1
<1> QED BY <1>2, AlwaysAdmissionInv, PTL

\* Nobody changes packages before a scan of this process has succeeded.
THEOREM NobodyPassesUnscanned == Spec => []AdmittedAfterScan
<1>1. AdmissionInv => AdmittedAfterScan
  BY DEF AdmissionInv
<1> QED BY <1>1, AlwaysAdmissionInv, PTL

\* The channel holds one slot for each upload being served.
THEOREM SlotsAreExact == Spec => []SlotsExact
<1>1. AdmissionInv => SlotsExact
  BY DEF AdmissionInv
<1> QED BY <1>1, AlwaysAdmissionInv, PTL
=============================================================================
