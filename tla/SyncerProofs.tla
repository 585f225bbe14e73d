----------------------------- MODULE SyncerProofs -----------------------------
(***************************************************************************)
(* Proofs about Syncer, for every set of packages, workers and limits, any *)
(* number of attempts and restarts, and any versions, ties included.       *)
(***************************************************************************)
EXTENDS Syncer, VersionLimitProofs

-----------------------------------------------------------------------------
(* The invariants.                                                         *)

\* Who has a transfer has an artifact, transfers belong to their phase, a report is made when all
\* extensions are done, and what is checked is everything that the gallery has of one extension.
RunInv ==
  /\ \A w \in Workers : work[w] = Free \/ (work[w].step # "idle" /\ work[w].item \in Artifacts)
  /\ phase # "transfer" => queue = {} /\ \A w \in Workers : work[w] = Free
  /\ phase = "report" => ids = {}
  /\ phase = "check" => found # {} /\ \E e \in Exts : found = {a \in Published : ExtOf[a] = e}

TypeInv == TypeOK /\ RunInv

Busy == {w \in Workers : work[w] # Free}

\* What was discovered is counted, queued, with a worker, or about to be checked.
CountInv ==
  report.failed = 0 =>
    report.discovered = report.stored + report.skipped + report.beyondLimit
                          + Cardinality(queue) + Cardinality(Busy)
                          + (IF phase = "check" THEN Cardinality(found) ELSE 0)

\* An artifact is there, or the limit cuts its version whatever is uploaded from now on.
Settled(a) ==
  \/ packages[a] \in Present
  \/ limit > 0 /\ Cardinality(Newer(Kept(ExtOf[a]), VersionOf[a])) >= limit

\* An artifact is still to be discovered, checked or transferred.
Pending(a) ==
  \/ ExtOf[a] \in ids
  \/ phase = "check" /\ a \in found
  \/ a \in queue
  \/ \E w \in Workers : work[w].item = a

\* As many versions as the limit keeps, each of them no older, are there or on their way.
Outdone(a) ==
  /\ limit > 0
  /\ \E W \in SUBSET Versions :
       /\ Cardinality(W) = limit
       /\ \A v \in W :
            /\ v # VersionOf[a] /\ Rank[v] >= Rank[VersionOf[a]]
            /\ \E b \in Published :
                 ExtOf[b] = ExtOf[a] /\ VersionOf[b] = v /\ (Pending(b) \/ Settled(b))

\* Nothing is lost on its way through a run, as long as nothing fails and nobody interferes.
NothingLost ==
  /\ ~disturbed /\ report.failed = 0 =>
       \A a \in Published : Pending(a) \/ Settled(a) \/ Outdone(a)
  /\ ~disturbed =>
       \A w \in Workers :
         work[w].step = "answered" /\ work[w].answer \in {"stored", "retention"} =>
           Settled(work[w].item)

-----------------------------------------------------------------------------
(* Types.                                                                  *)

\* Counting adds to one counter of a report.
LEMMA CountedIsReport ==
  ASSUME NEW r \in [DOMAIN NoReport -> Nat], NEW counter \in DOMAIN NoReport, NEW n \in Nat
  PROVE  /\ Counted(r, counter, n) \in [DOMAIN NoReport -> Nat]
         /\ Counted(r, counter, n).discovered = IF counter = "discovered" THEN r.discovered + n ELSE r.discovered
         /\ Counted(r, counter, n).stored = IF counter = "stored" THEN r.stored + n ELSE r.stored
         /\ Counted(r, counter, n).skipped = IF counter = "skipped" THEN r.skipped + n ELSE r.skipped
         /\ Counted(r, counter, n).beyondLimit
              = IF counter = "beyondLimit" THEN r.beyondLimit + n ELSE r.beyondLimit
         /\ Counted(r, counter, n).failed = IF counter = "failed" THEN r.failed + n ELSE r.failed
BY DEF Counted, NoReport

\* The counters of a report.
LEMMA Counters ==
  DOMAIN NoReport = {"discovered", "stored", "skipped", "beyondLimit", "failed"}
BY DEF NoReport

\* The outcome of a transfer is one of them.
LEMMA OutcomeCounts ==
  ASSUME NEW answer
  PROVE  Outcome(answer) \in {"stored", "beyondLimit", "failed"}
BY DEF Outcome

\* A trim leaves records.
LEMMA TrimmedType ==
  ASSUME NEW pkgs \in [Artifacts -> Kinds], NEW keep
  PROVE  Trimmed(pkgs, keep) \in [Artifacts -> Kinds]
BY DEF Trimmed, Deleted, Kinds, Present

\* So does an upload.
LEMMA HandleType ==
  ASSUME packages \in [Artifacts -> Kinds], NEW a \in Artifacts, Handle(a)
  PROVE  packages' \in [Artifacts -> Kinds]
<1>1. [packages EXCEPT ![a] = "stored"] \in [Artifacts -> Kinds]
  BY DEF Kinds, Present
<1> QED BY <1>1, TrimmedType DEF Handle

\* An artifact set is finite, and so are a set of workers and what is counted of them.
LEMMA ArtifactsFinite ==
  ASSUME NEW S \in SUBSET Artifacts
  PROVE  IsFiniteSet(S) /\ Cardinality(S) \in Nat
BY SyncerAssumption, FS_Subset, FS_CardinalityType

\* Initially nobody does anything.
LEMMA InitTypeInv == Init => TypeInv
<1> SUFFICES ASSUME Init PROVE TypeInv
  OBVIOUS
<1> USE SyncerAssumption DEF Init
<1>1. work \in [Workers -> [item : Artifacts \cup {None},
                            step : {"idle", "download", "upload", "answered"},
                            answer : Answers \cup {None}]]
  BY DEF Free
<1>2. report \in [DOMAIN NoReport -> Nat]
  BY DEF NoReport
<1>3. tries \in [Workers \cup {Main} -> 0 .. Retries - 1]
  OBVIOUS
<1>4. TypeOK
  BY <1>1, <1>2, <1>3 DEF TypeOK
<1>5. RunInv
  BY DEF RunInv
<1> QED BY <1>4, <1>5 DEF TypeInv

\* The attempts at a request keep their bounds.
LEMMA TriesType ==
  ASSUME tries \in [Workers \cup {Main} -> 0 .. Retries - 1],
         NEW who \in Workers \cup {Main}, Again(who) \/ Ended(who)
  PROVE  tries' \in [Workers \cup {Main} -> 0 .. Retries - 1]
<1>1. CASE Again(who)
  BY <1>1, SyncerAssumption DEF Again, NextTry
<1>2. CASE Ended(who)
  BY <1>2, SyncerAssumption DEF Ended
<1> QED BY <1>1, <1>2

\* What the manager does keeps the types.
LEMMA ManagerTypeInv ==
  ASSUME TypeInv,
         \/ \E w \in Workers : Serve(w)
         \/ \E a \in Artifacts : ServeLate(a)
         \/ Restart \/ ScanEnds \/ Reconcile \/ OthersNext
  PROVE  TypeInv'
<1> USE SyncerAssumption DEF TypeInv
<1>1. ASSUME NEW w \in Workers, Serve(w)
      PROVE  TypeInv'
  <2>1. work[w].step = "upload" /\ work[w] # Free /\ work[w].item \in Artifacts /\ phase = "transfer"
    BY <1>1 DEF Serve, At, RunInv, Free
  <2>2. packages' \in [Artifacts -> Kinds]
    BY <1>1, <2>1, HandleType DEF Serve, TypeOK
  <2>3. AnswerTo(work[w].item) \in Answers
    BY DEF AnswerTo, Answers
  <2>4. work' = [work EXCEPT ![w] = [item |-> work[w].item, step |-> "answered",
                                     answer |-> AnswerTo(work[w].item)]]
    BY <1>1 DEF Serve, TypeOK
  <2>5. TypeOK'
    BY <1>1, <2>1, <2>2, <2>3, <2>4 DEF Serve, Worker, TypeOK
  <2>6. RunInv'
    BY <1>1, <2>1, <2>4 DEF Serve, Worker, TypeOK, RunInv
  <2> QED BY <2>5, <2>6
<1>2. ASSUME NEW a \in Artifacts, ServeLate(a)
      PROVE  TypeInv'
  BY <1>2, HandleType DEF ServeLate, run, TypeOK, RunInv
<1>3. CASE Restart \/ ScanEnds \/ Reconcile
  BY <1>3 DEF Restart, ScanEnds, Reconcile, run, TypeOK, RunInv
<1>4. ASSUME NEW a \in Artifacts, OthersUpload(a) \/ OthersDelete(a)
      PROVE  TypeInv'
  <2>1. packages' \in [Artifacts -> Kinds]
    <3>1. CASE OthersUpload(a)
      BY <3>1, HandleType DEF OthersUpload, TypeOK
    <3>2. CASE OthersDelete(a)
      BY <3>2 DEF OthersDelete, Deleted, Kinds, Present, TypeOK
    <3> QED BY <1>4, <3>1, <3>2
  <2> QED BY <1>4, <2>1 DEF OthersUpload, OthersDelete, run, TypeOK, RunInv
<1>5. ASSUME NEW keep \in Limits, OthersLimit(keep)
      PROVE  TypeInv'
  BY <1>5, TrimmedType DEF OthersLimit, run, TypeOK, RunInv
<1> QED BY <1>1, <1>2, <1>3, <1>4, <1>5 DEF OthersNext

\* So does what Run does.
LEMMA MainTypeInv ==
  ASSUME TypeInv, Start \/ Cancel \/ MainNext
  PROVE  TypeInv'
<1> USE SyncerAssumption DEF TypeInv
<1>1. CASE Start
  <2>1. NoReport \in [DOMAIN NoReport -> Nat]
    BY DEF NoReport
  <2> QED BY <1>1, <2>1 DEF Start, manager, TypeOK, RunInv
<1>2. CASE Cancel
  BY <1>2 DEF Cancel, manager, TypeOK, RunInv
<1>3. CASE AwaitAnswer \/ AwaitFails
  <2>1. tries' \in [Workers \cup {Main} -> 0 .. Retries - 1]
    BY <1>3, TriesType DEF AwaitAnswer, AwaitFails, TypeOK
  <2> QED BY <1>3, <2>1 DEF AwaitAnswer, AwaitFails, manager, TypeOK, RunInv
<1>4. ASSUME NEW e \in Exts, Discover(e)
      PROVE  TypeInv'
  <2>1. found' \in SUBSET Artifacts /\ report' \in [DOMAIN NoReport -> Nat]
    <3>1. CASE found' = {a \in Published : ExtOf[a] = e} /\ Count("discovered", Cardinality(found'))
      <4>1. found' \in SUBSET Artifacts
        BY <3>1
      <4> QED BY <3>1, <4>1, ArtifactsFinite, CountedIsReport, Counters DEF Count, TypeOK
    <3>2. CASE Count("failed", 1) /\ UNCHANGED found
      BY <3>2, CountedIsReport, Counters DEF Count, TypeOK
    <3> QED BY <1>4, <3>1, <3>2 DEF Discover
  <2> QED BY <1>4, <2>1 DEF Discover, manager, TypeOK, RunInv
<1>5. CASE BreakOff
  BY <1>5, CountedIsReport, Counters DEF BreakOff, Count, manager, TypeOK, RunInv
<1>6. CASE CheckAnswer
  <2>1. report' \in [DOMAIN NoReport -> Nat] /\ queue' \subseteq Artifacts
    <3>1. PICK skip \in SUBSET Artifacts, beyond \in SUBSET Artifacts :
                 Decided(skip, beyond) /\ queue' = found \ (skip \cup beyond)
      <4>1. PICK keep \in {limit, 0} : \E wanted \in Newest({VersionOf[a] : a \in found}, keep) :
              LET skip == {a \in found : packages[a] = "stored"}
                  beyond == {a \in found \ skip : VersionOf[a] \notin wanted}
              IN  Decided(skip, beyond) /\ queue' = found \ (skip \cup beyond)
        BY <1>6 DEF CheckAnswer
      <4> QED BY <4>1 DEF TypeOK
    <3>2. Cardinality(skip) \in Nat /\ Cardinality(beyond) \in Nat
      BY ArtifactsFinite
    <3> QED BY <3>1, <3>2, CountedIsReport, Counters DEF Decided, TypeOK
  <2>2. tries' \in [Workers \cup {Main} -> 0 .. Retries - 1]
    BY <1>6, TriesType DEF CheckAnswer, TypeOK
  <2> QED BY <1>6, <2>1, <2>2 DEF CheckAnswer, manager, TypeOK, RunInv
<1>7. CASE CheckFails
  <2>1. tries' \in [Workers \cup {Main} -> 0 .. Retries - 1]
    BY <1>7, TriesType DEF CheckFails, TypeOK
  <2>2. report' \in [DOMAIN NoReport -> Nat]
    <3>1. Cardinality(found) \in Nat
      BY ArtifactsFinite DEF TypeOK
    <3>2. CASE Count("failed", Cardinality(found))
      BY <3>1, <3>2, CountedIsReport, Counters DEF Count, TypeOK
    <3> QED BY <1>7, <3>2 DEF CheckFails, TypeOK
  <2> QED BY <1>7, <2>1, <2>2 DEF CheckFails, manager, TypeOK, RunInv
<1>8. CASE TransfersDone \/ Conclude
  BY <1>8 DEF TransfersDone, Conclude, manager, TypeOK, RunInv
<1>9. CASE Report
  <2>1. tries' \in [Workers \cup {Main} -> 0 .. Retries - 1]
    BY <1>9, TriesType DEF Report, TypeOK
  <2> QED BY <1>9, <2>1 DEF Report, manager, TypeOK, RunInv
<1> QED BY <1>1, <1>2, <1>3, <1>4, <1>5, <1>6, <1>7, <1>8, <1>9 DEF MainNext

\* And so does what a worker does.
LEMMA WorkerTypeInv ==
  ASSUME TypeInv, NEW w \in Workers, WorkerNext(w)
  PROVE  TypeInv'
<1> USE SyncerAssumption DEF TypeInv
<1> DEFINE Works == [item : Artifacts \cup {None}, step : {"idle", "download", "upload", "answered"},
                     answer : Answers \cup {None}]
<1>1. work \in [Workers -> Works] /\ tries \in [Workers \cup {Main} -> 0 .. Retries - 1]
  BY DEF TypeOK
<1>2. phase = "transfer"
  BY DEF WorkerNext, Take, Download, Unusable, UploadFails, Hear, At, RunInv, Free
<1>3. /\ queue' \subseteq Artifacts
      /\ packages' = packages /\ limit' = limit /\ gate' = gate /\ restarts' = restarts
      /\ disturbed' = disturbed /\ phase' = phase /\ ids' = ids /\ found' = found
      /\ cancelled' = cancelled
  BY DEF WorkerNext, Take, Download, Unusable, UploadFails, Hear, Worker, manager, TypeOK
<1>4. late' \subseteq Artifacts
  <2>1. At(w, "upload") => work[w].item \in Artifacts
    BY DEF At, RunInv, Free
  <2> QED BY <2>1 DEF WorkerNext, Take, Download, Unusable, UploadFails, Hear, manager, TypeOK
<1>5. tries' \in [Workers \cup {Main} -> 0 .. Retries - 1]
  BY <1>1, TriesType DEF WorkerNext, Take, Download, Unusable, UploadFails, Hear
<1>6. report' \in [DOMAIN NoReport -> Nat]
  <2>1. ASSUME NEW counter \in DOMAIN NoReport, Over(w, counter)
        PROVE  report' \in [DOMAIN NoReport -> Nat]
    BY <2>1, CountedIsReport DEF Over, Count, TypeOK
  <2>2. Outcome(work[w].answer) \in DOMAIN NoReport
    BY OutcomeCounts, Counters
  <2> QED BY <2>1, <2>2, Counters
          DEF WorkerNext, Take, Download, Unusable, UploadFails, Hear, TypeOK
<1>7. \E to \in Works : /\ work' = [work EXCEPT ![w] = to]
                        /\ to = Free \/ (to.step # "idle" /\ to.item \in Artifacts)
  <2>1. Free \in Works
    BY DEF Free
  <2>2. CASE Take(w)
    <3>1. PICK a \in queue : work' = [work EXCEPT ![w] = [item |-> a, step |-> "download", answer |-> None]]
      BY <2>2 DEF Take
    <3> DEFINE to == [item |-> a, step |-> "download", answer |-> None]
    <3>2. to \in Works /\ to.step # "idle" /\ to.item \in Artifacts
      BY DEF TypeOK
    <3>3. work' = [work EXCEPT ![w] = to]
      BY <3>1
    <3> HIDE DEF to, Works
    <3> QED BY <3>2, <3>3
  <2>3. CASE Download(w)
    <3> DEFINE to == [work[w] EXCEPT !.step = "upload"]
    <3>1. work' = [work EXCEPT ![w] = to]
      BY <2>3 DEF Download
    <3>2. work[w] \in Works /\ work[w].item \in Artifacts
      BY <1>1, <2>3 DEF Download, At, RunInv, Free
    <3>3. to \in Works /\ to.step # "idle" /\ to.item \in Artifacts
      BY <3>2
    <3> HIDE DEF to, Works
    <3> QED BY <3>1, <3>3
  <2>4. CASE Unusable(w) \/ Hear(w)
    BY <2>1, <2>4 DEF Unusable, Hear, Over
  <2>5. CASE UploadFails(w)
    <3>1. CASE Over(w, "failed")
      BY <2>1, <3>1 DEF Over
    <3>2. CASE work' = [work EXCEPT ![w] = [item |-> work[w].item, step |-> "upload", answer |-> None]]
      <4> DEFINE to == [item |-> work[w].item, step |-> "upload", answer |-> None]
      <4>1. work[w] \in Works /\ work[w].item \in Artifacts
        BY <1>1, <2>5 DEF UploadFails, At, RunInv, Free
      <4>2. to \in Works /\ to.step # "idle" /\ to.item \in Artifacts
        BY <4>1
      <4> HIDE DEF to, Works
      <4> QED BY <3>2, <4>2 DEF to
    <3> QED BY <2>5, <3>1, <3>2 DEF UploadFails
  <2> QED BY <2>2, <2>3, <2>4, <2>5 DEF WorkerNext
<1>8. TypeOK'
  BY <1>1, <1>3, <1>4, <1>5, <1>6, <1>7 DEF TypeOK
<1>9. RunInv'
  BY <1>1, <1>2, <1>3, <1>7 DEF RunInv
<1> QED BY <1>8, <1>9

\* Every step keeps the types.
LEMMA StepTypeInv ==
  ASSUME TypeInv, [Next]_vars
  PROVE  TypeInv'
<1>1. CASE UNCHANGED vars
  BY <1>1 DEF vars, manager, run, TypeInv, TypeOK, RunInv
<1> QED BY <1>1, ManagerTypeInv, MainTypeInv, WorkerTypeInv DEF Next, ManagerNext

\* Every variable keeps its type: in whatever order the run's steps, its workers', the manager's
\* and others' come, no request is tried too often (sync.go:458) and no counter leaves Nat.
THEOREM SyncerTypes == Spec => []TypeOK
<1>1. TypeInv => TypeOK
  BY DEF TypeInv
<1> QED BY <1>1, InitTypeInv, StepTypeInv, PTL DEF Spec

-----------------------------------------------------------------------------
(* Counting.                                                               *)

\* The workers that transfer can be counted.
LEMMA BusyFinite == IsFiniteSet(Busy) /\ Cardinality(Busy) \in Nat
<1>1. Busy \in SUBSET Workers
  BY DEF Busy
<1> QED BY <1>1, SyncerAssumption, FS_Subset, FS_CardinalityType

\* Initially there is nothing to count.
LEMMA InitCountInv == Init => CountInv
<1> SUFFICES ASSUME Init PROVE CountInv
  OBVIOUS
<1>1. queue = {} /\ Busy = {} /\ report = NoReport /\ phase = "await"
  BY DEF Init, Busy
<1> QED BY <1>1, FS_EmptySet DEF CountInv, NoReport

\* What counts nothing and moves no artifact keeps the count.
LEMMA QuietCountInv ==
  ASSUME CountInv, UNCHANGED <<report, queue, found>>, Busy' = Busy,
         phase' = "check" <=> phase = "check"
  PROVE  CountInv'
BY DEF CountInv

\* What counts a failure makes no promise.
LEMMA FailureCountInv ==
  ASSUME TypeOK, NEW n \in Nat \ {0}, Count("failed", n)
  PROVE  CountInv' /\ report'.failed # 0
<1>1. report'.failed = report.failed + n /\ report.failed \in Nat
  BY CountedIsReport, Counters DEF Count, TypeOK
<1> QED BY <1>1 DEF CountInv

\* The manager and others count nothing.
LEMMA ManagerCountInv ==
  ASSUME TypeInv, CountInv,
         \/ \E w \in Workers : Serve(w)
         \/ \E a \in Artifacts : ServeLate(a)
         \/ Restart \/ ScanEnds \/ Reconcile \/ OthersNext
  PROVE  CountInv'
<1>1. ASSUME NEW w \in Workers, Serve(w)
      PROVE  CountInv'
  <2>1. work[w] # Free /\ work'[w] # Free
    BY <1>1 DEF Serve, At, Free, TypeInv, TypeOK
  <2>2. \A x \in Workers \ {w} : work'[x] = work[x]
    BY <1>1 DEF Serve, TypeInv, TypeOK
  <2>3. Busy' = Busy
    BY <2>1, <2>2 DEF Busy
  <2> QED BY <1>1, <2>3, QuietCountInv DEF Serve, Worker
<1>2. CASE UNCHANGED run
  BY <1>2, QuietCountInv DEF run, Busy
<1> QED BY <1>1, <1>2
        DEF ServeLate, Restart, ScanEnds, Reconcile, OthersNext, OthersUpload, OthersDelete, OthersLimit

\* A check counts what it decides, and queues the rest.
LEMMA CheckCountInv ==
  ASSUME TypeInv, CountInv, CheckAnswer
  PROVE  CountInv'
<1>1. PICK keep \in {limit, 0} : \E wanted \in Newest({VersionOf[a] : a \in found}, keep) :
        LET skip == {a \in found : packages[a] = "stored"}
            beyond == {a \in found \ skip : VersionOf[a] \notin wanted}
        IN  Decided(skip, beyond) /\ queue' = found \ (skip \cup beyond)
  BY DEF CheckAnswer
<1>2. PICK skip \in SUBSET found, beyond \in SUBSET found :
        skip \cap beyond = {} /\ Decided(skip, beyond) /\ queue' = found \ (skip \cup beyond)
  BY <1>1
<1>3. found \in SUBSET Artifacts /\ skip \in SUBSET Artifacts /\ beyond \in SUBSET Artifacts
      /\ queue' \in SUBSET Artifacts
  BY <1>2 DEF TypeInv, TypeOK
<1>4. Cardinality(found) = Cardinality(skip) + Cardinality(beyond) + Cardinality(queue')
  <2>1. skip \cap beyond = {} /\ (skip \cup beyond) \cap queue' = {}
        /\ (skip \cup beyond) \cup queue' = found
    BY <1>2
  <2>2. /\ IsFiniteSet(skip) /\ IsFiniteSet(beyond) /\ IsFiniteSet(queue')
        /\ Cardinality(skip) \in Nat /\ Cardinality(beyond) \in Nat /\ Cardinality(queue') \in Nat
    BY <1>3, ArtifactsFinite
  <2>3. IsFiniteSet(skip \cup beyond)
        /\ Cardinality(skip \cup beyond)
             = Cardinality(skip) + Cardinality(beyond) - Cardinality({})
    BY <2>1, <2>2, FS_Union
  <2>4. Cardinality((skip \cup beyond) \cup queue')
          = Cardinality(skip \cup beyond) + Cardinality(queue') - Cardinality({})
    BY <2>1, <2>2, <2>3, FS_Union
  <2>5. Cardinality({}) = 0
    BY FS_EmptySet
  <2>6. Cardinality((skip \cup beyond) \cup queue') = Cardinality(found)
    BY <2>1
  <2> QED BY <2>2, <2>3, <2>4, <2>5, <2>6
<1>5. /\ Cardinality(skip) \in Nat /\ Cardinality(beyond) \in Nat
      /\ Cardinality(found) \in Nat /\ Cardinality(queue') \in Nat
  BY <1>3, ArtifactsFinite
<1>6. /\ report'.skipped = report.skipped + Cardinality(skip)
      /\ report'.beyondLimit = report.beyondLimit + Cardinality(beyond)
      /\ report'.discovered = report.discovered
      /\ report'.stored = report.stored
      /\ report'.failed = report.failed
  <2> DEFINE r == Counted(report, "skipped", Cardinality(skip))
  <2>1. /\ r \in [DOMAIN NoReport -> Nat]
        /\ r.skipped = report.skipped + Cardinality(skip) /\ r.beyondLimit = report.beyondLimit
        /\ r.discovered = report.discovered /\ r.stored = report.stored
        /\ r.failed = report.failed
    <3>1. report \in [DOMAIN NoReport -> Nat] /\ "skipped" \in DOMAIN NoReport
      BY Counters DEF TypeInv, TypeOK
    <3> QED BY <1>5, <3>1, CountedIsReport, ZenonT(60)
  <2>2. report' = Counted(r, "beyondLimit", Cardinality(beyond))
    BY <1>2 DEF Decided
  <2> HIDE DEF r
  <2>3. /\ report'.beyondLimit = r.beyondLimit + Cardinality(beyond)
        /\ report'.skipped = r.skipped /\ report'.discovered = r.discovered
        /\ report'.stored = r.stored /\ report'.failed = r.failed
    BY <2>1, <2>2, <1>5, CountedIsReport, Counters, ZenonT(60)
  <2> QED BY <2>1, <2>3
<1>7. queue = {} /\ Busy = {} /\ Busy' = {} /\ phase = "check" /\ phase' = "transfer"
  BY DEF CheckAnswer, Busy, TypeInv, RunInv
<1>8. report.skipped \in Nat /\ report.beyondLimit \in Nat /\ report.stored \in Nat
  BY Counters DEF TypeInv, TypeOK
<1> QED BY <1>4, <1>5, <1>6, <1>7, <1>8, FS_EmptySet DEF CountInv

\* The rest of a run counts what it discovers and what fails.
LEMMA MainCountInv ==
  ASSUME TypeInv, CountInv, Start \/ Cancel \/ MainNext
  PROVE  CountInv'
<1> USE DEF TypeInv
<1>1. CASE Start
  <2>1. queue' = {} /\ Busy' = {} /\ report' = NoReport /\ phase' = "await"
    BY <1>1 DEF Start, Busy, RunInv
  <2> QED BY <2>1, FS_EmptySet DEF CountInv, NoReport
<1>2. CASE Cancel \/ AwaitAnswer \/ AwaitFails \/ TransfersDone \/ Conclude \/ Report
  <2>1. \/ UNCHANGED <<report, queue, found, work>> /\ phase # "check" /\ phase' # "check"
        \/ UNCHANGED <<report, queue, found, work, phase>>
    BY <1>2 DEF Cancel, AwaitAnswer, AwaitFails, TransfersDone, Conclude, Report
  <2> QED BY <2>1, QuietCountInv DEF Busy
<1>3. ASSUME NEW e \in Exts, Discover(e)
      PROVE  CountInv'
  <2>1. CASE Count("failed", 1)
    BY <2>1, FailureCountInv
  <2>2. CASE found' = {a \in Published : ExtOf[a] = e} /\ phase' = "check"
             /\ Count("discovered", Cardinality(found'))
    <3>1. found' \in SUBSET Artifacts
      BY <2>2, SyncerAssumption
    <3>2. Cardinality(found') \in Nat
      BY <3>1, ArtifactsFinite
    <3>3. /\ report'.discovered = report.discovered + Cardinality(found')
          /\ report'.skipped = report.skipped /\ report'.beyondLimit = report.beyondLimit
          /\ report'.stored = report.stored /\ report'.failed = report.failed
      <4>1. report \in [DOMAIN NoReport -> Nat] /\ "discovered" \in DOMAIN NoReport
        BY Counters DEF TypeOK
      <4>2. PICK n \in Nat : n = Cardinality(found')
        BY <3>2
      <4>3. report' = Counted(report, "discovered", n)
        BY <2>2, <4>2 DEF Count
      <4>4. /\ Counted(report, "discovered", n).discovered = report.discovered + n
            /\ Counted(report, "discovered", n).skipped = report.skipped
            /\ Counted(report, "discovered", n).beyondLimit = report.beyondLimit
            /\ Counted(report, "discovered", n).stored = report.stored
            /\ Counted(report, "discovered", n).failed = report.failed
        BY <4>1, CountedIsReport, ZenonT(60)
      <4> QED BY <4>2, <4>3, <4>4
    <3>4. queue' = {} /\ Busy' = {} /\ queue = {} /\ Busy = {} /\ phase = "list"
      BY <1>3 DEF Discover, Busy, RunInv
    <3>5. report.skipped \in Nat /\ report.beyondLimit \in Nat /\ report.stored \in Nat
      BY Counters DEF TypeOK
    <3> QED BY <2>2, <3>2, <3>3, <3>4, <3>5, Counters, FS_EmptySet DEF CountInv
  <2> QED BY <1>3, <2>1, <2>2 DEF Discover
<1>4. CASE BreakOff
  BY <1>4, FailureCountInv DEF BreakOff
<1>5. CASE CheckAnswer
  BY <1>5, CheckCountInv
<1>6. CASE CheckFails
  <2>1. CASE Count("failed", Cardinality(found))
    <3>1. found # {} /\ found \in SUBSET Artifacts
      BY <1>6 DEF CheckFails, RunInv, TypeOK
    <3>2. Cardinality(found) \in Nat \ {0}
      BY <3>1, ArtifactsFinite, FS_EmptySet
    <3> QED BY <2>1, <3>2, FailureCountInv
  <2>2. CASE UNCHANGED <<phase, report>>
    BY <1>6, <2>2, QuietCountInv DEF CheckFails, Busy
  <2> QED BY <1>6, <2>1, <2>2 DEF CheckFails
<1> QED BY <1>1, <1>2, <1>3, <1>4, <1>5, <1>6 DEF MainNext

\* A worker's artifact comes from the queue and goes to a counter.
LEMMA WorkerCountInv ==
  ASSUME TypeInv, CountInv, NEW w \in Workers, WorkerNext(w)
  PROVE  CountInv'
<1> USE DEF TypeInv
<1>1. report.discovered \in Nat /\ report.stored \in Nat /\ report.skipped \in Nat
      /\ report.beyondLimit \in Nat /\ report.failed \in Nat
  BY Counters DEF TypeOK
<1>2. phase = "transfer" /\ phase' = phase
  BY DEF WorkerNext, Take, Download, Unusable, UploadFails, Hear, Worker, At, RunInv, Free
<1>3. ASSUME NEW counter \in {"stored", "beyondLimit", "failed"}, Over(w, counter), work[w] # Free,
             queue' = queue
      PROVE  CountInv'
  <2>1. Busy' = Busy \ {w} /\ w \in Busy
    BY <1>3 DEF Over, Busy, TypeOK
  <2>2. Cardinality(Busy') = Cardinality(Busy) - 1
    BY <2>1, BusyFinite, FS_RemoveElement
  <2>3. Cardinality(queue) \in Nat
    BY ArtifactsFinite DEF TypeOK
  <2>4. /\ report'.discovered = report.discovered /\ report'.skipped = report.skipped
        /\ report'.stored = IF counter = "stored" THEN report.stored + 1 ELSE report.stored
        /\ report'.beyondLimit = IF counter = "beyondLimit" THEN report.beyondLimit + 1 ELSE report.beyondLimit
        /\ report'.failed = IF counter = "failed" THEN report.failed + 1 ELSE report.failed
    <3>1. report \in [DOMAIN NoReport -> Nat] /\ counter \in DOMAIN NoReport
      BY Counters DEF TypeOK
    <3>2. report' = Counted(report, counter, 1)
      BY <1>3 DEF Over, Count
    <3>3. counter # "discovered" /\ counter # "skipped"
      OBVIOUS
    <3> DEFINE r == Counted(report, counter, 1)
    <3>4. /\ r.discovered = IF counter = "discovered" THEN report.discovered + 1 ELSE report.discovered
          /\ r.stored = IF counter = "stored" THEN report.stored + 1 ELSE report.stored
          /\ r.skipped = IF counter = "skipped" THEN report.skipped + 1 ELSE report.skipped
          /\ r.beyondLimit = IF counter = "beyondLimit" THEN report.beyondLimit + 1 ELSE report.beyondLimit
          /\ r.failed = IF counter = "failed" THEN report.failed + 1 ELSE report.failed
      BY <3>1 DEF Counted, NoReport
    <3>5. report' = r
      BY <3>2
    <3> HIDE DEF r
    <3> QED BY <3>3, <3>4, <3>5
  <2>5. report'.failed = 0 =>
          report.failed = 0
          /\ report'.stored + report'.beyondLimit = report.stored + report.beyondLimit + 1
    BY <1>1, <2>4
  <2>6. report'.stored \in Nat /\ report'.beyondLimit \in Nat
    BY <1>1, <2>4
  <2>7. SUFFICES ASSUME report'.failed = 0
                 PROVE  report'.discovered = report'.stored + report'.skipped + report'.beyondLimit
                                               + Cardinality(queue') + Cardinality(Busy') + 0
    BY <1>2 DEF CountInv
  <2>8. report.discovered = report.stored + report.skipped + report.beyondLimit
                              + Cardinality(queue) + Cardinality(Busy) + 0
    BY <1>2, <2>5, <2>7 DEF CountInv
  <2> QED BY <1>1, <1>3, <2>2, <2>3, <2>4, <2>5, <2>6, <2>7, <2>8, BusyFinite
<1>4. CASE Take(w)
  <2>1. PICK a \in queue : /\ queue' = queue \ {a}
                           /\ work' = [work EXCEPT ![w] = [item |-> a, step |-> "download", answer |-> None]]
    BY <1>4 DEF Take
  <2>2. work[w] = Free
    BY <1>4 DEF Take, At, RunInv
  <2>3. Busy' = Busy \cup {w} /\ w \notin Busy
    BY <2>1, <2>2 DEF Busy, Free, TypeOK
  <2>4. Cardinality(Busy') = Cardinality(Busy) + 1
    BY <2>3, BusyFinite, FS_AddElement
  <2>5. IsFiniteSet(queue) /\ Cardinality(queue) \in Nat
    BY ArtifactsFinite DEF TypeOK
  <2>6. Cardinality(queue') = Cardinality(queue) - 1
    BY <2>1, <2>5, FS_RemoveElement
  <2>7. report' = report
    BY <1>4 DEF Take
  <2> QED BY <1>1, <1>2, <2>4, <2>5, <2>6, <2>7, BusyFinite DEF CountInv
<1>5. CASE Download(w)
  <2>1. Busy' = Busy
    <3>1. work[w] # Free /\ work'[w] # Free
      BY <1>5 DEF Download, At, Free, TypeOK
    <3>2. \A x \in Workers \ {w} : work'[x] = work[x]
      BY <1>5 DEF Download, TypeOK
    <3> QED BY <3>1, <3>2 DEF Busy
  <2> QED BY <1>2, <1>5, <2>1, QuietCountInv DEF Download, Worker
<1>6. CASE Unusable(w)
  BY <1>3, <1>6 DEF Unusable, At, Free
<1>7. CASE UploadFails(w)
  <2>1. CASE Over(w, "failed")
    BY <1>3, <1>7, <2>1 DEF UploadFails, At, Free
  <2>2. CASE work' = [work EXCEPT ![w] = [item |-> work[w].item, step |-> "upload", answer |-> None]]
             /\ UNCHANGED report
    <3>1. Busy' = Busy
      <4>1. work[w] # Free /\ work'[w] # Free
        BY <1>7, <2>2 DEF UploadFails, At, Free, TypeOK
      <4>2. \A x \in Workers \ {w} : work'[x] = work[x]
        BY <2>2 DEF TypeOK
      <4> QED BY <4>1, <4>2 DEF Busy
    <3> QED BY <1>2, <1>7, <2>2, <3>1, QuietCountInv DEF UploadFails, Worker
  <2> QED BY <1>7, <2>1, <2>2 DEF UploadFails
<1>8. CASE Hear(w)
  BY <1>3, <1>8, OutcomeCounts DEF Hear, At, Free
<1> QED BY <1>4, <1>5, <1>6, <1>7, <1>8 DEF WorkerNext

\* Every step keeps the count.
LEMMA StepCountInv ==
  ASSUME TypeInv, CountInv, [Next]_vars
  PROVE  CountInv'
<1>1. CASE UNCHANGED vars
  BY <1>1, QuietCountInv DEF vars, run, Busy
<1> QED BY <1>1, ManagerCountInv, MainCountInv, WorkerCountInv DEF Next, ManagerNext

\* A report that names no failure accounts for everything that was discovered, once: whatever
\* is lost, retried, served late or cancelled, and however the workers interleave (sync.go:287).
THEOREM ReportsAreTotal == Spec => []CompleteIsTotal
<1>1. TypeInv /\ CountInv => CompleteIsTotal
  <2> SUFFICES ASSUME TypeInv, CountInv, Complete
               PROVE  report.discovered = report.stored + report.skipped + report.beyondLimit
    BY DEF CompleteIsTotal
  <2>1. queue = {} /\ Busy = {} /\ phase = "report" /\ report.failed = 0
    BY DEF Complete, Busy, TypeInv, RunInv
  <2>2. report.stored \in Nat /\ report.skipped \in Nat /\ report.beyondLimit \in Nat
    BY Counters DEF TypeInv, TypeOK
  <2> QED BY <2>1, <2>2, FS_EmptySet DEF CountInv
<1> QED BY <1>1, InitTypeInv, StepTypeInv, InitCountInv, StepCountInv, PTL DEF Spec

-----------------------------------------------------------------------------
(* What the limit makes of an upload.                                      *)

\* The versions in the manager are versions.
LEMMA HeldType ==
  ASSUME NEW pkgs, NEW e
  PROVE  Held(pkgs, e) \in SUBSET Versions
BY SyncerAssumption DEF Held

\* A trim leaves the versions that the limit spares.
LEMMA TrimmedHolds ==
  ASSUME NEW pkgs \in [Artifacts -> Kinds], NEW keep, NEW e
  PROVE  Held(Trimmed(pkgs, keep), e) = Spared(Held(pkgs, e), keep)
<1> DEFINE S == Held(pkgs, e)
<1> DEFINE trimmed == Trimmed(pkgs, keep)
<1>1. ASSUME NEW a \in Artifacts, ExtOf[a] = e
      PROVE  trimmed[a] \in Present <=> pkgs[a] \in Present /\ VersionOf[a] \notin Cut(S, keep)
  <2>1. trimmed[a] = IF VersionOf[a] \in Cut(S, keep) THEN Deleted(pkgs[a]) ELSE pkgs[a]
    BY <1>1 DEF Trimmed
  <2>2. Deleted(pkgs[a]) \notin Present
    BY DEF Deleted, Present, Kinds
  <2> QED BY <2>1, <2>2
<1> HIDE DEF trimmed
<1>2. Held(trimmed, e) = S \ Cut(S, keep)
  BY <1>1 DEF Held
<1> QED BY <1>2 DEF Spared, trimmed

\* A version with as many newer ones as the limit keeps has as many when they are trimmed.
LEMMA TrimKeepsNewer ==
  ASSUME NEW S \in SUBSET Versions, NEW keep \in Nat \ {0}, NEW v \in Versions,
         Cardinality(Newer(S, v)) >= keep
  PROVE  Cardinality(Newer(Spared(S, keep), v)) >= keep
<1> USE VersionAssumption
<1> DEFINE K == Spared(S, keep)
<1>1. /\ IsFiniteSet(S) /\ Cardinality(S) \in Nat
      /\ \A x \in Versions : Newer(S, x) \in SUBSET S /\ IsFiniteSet(Newer(S, x))
                             /\ Cardinality(Newer(S, x)) \in Nat
  BY FS_Subset, FS_CardinalityType DEF Newer
<1>2. Cardinality(S) >= keep
  <2>1. Cardinality(Newer(S, v)) <= Cardinality(S)
    BY <1>1, FS_Subset
  <2> QED BY <1>1, <2>1
<1>3. Cardinality(K) = keep
  BY <1>1, <1>2, LimitIsExact
<1>4. ASSUME NEW u \in K
      PROVE  Position[u] > Position[v]
  <2>1. u \in S /\ u \in Versions /\ ~(Cardinality(Newer(S, u)) >= keep)
    BY <1>4 DEF Spared, Cut
  <2>2. SUFFICES ASSUME ~(Position[u] > Position[v])
                 PROVE  FALSE
    OBVIOUS
  <2>3. Newer(S, v) \in SUBSET Newer(S, u)
    <3> SUFFICES ASSUME NEW x \in S, Position[x] > Position[v]
                 PROVE  Position[x] > Position[u]
      BY DEF Newer
    <3>1. Position[x] \in Nat /\ Position[v] \in Nat /\ Position[u] \in Nat
      BY <2>1
    <3> QED BY <2>2, <3>1
  <2>4. Cardinality(Newer(S, v)) <= Cardinality(Newer(S, u))
    BY <1>1, <2>1, <2>3, FS_Subset
  <2> QED BY <1>1, <2>1, <2>4
<1>5. Newer(K, v) = K
  BY <1>4 DEF Newer
<1> QED BY <1>3, <1>5

\* More versions leave a version no fewer newer ones.
LEMMA MoreNewer ==
  ASSUME NEW S \in SUBSET Versions, NEW T \in SUBSET S, NEW v \in Versions, NEW n \in Nat,
         Cardinality(T) >= n, \A w \in T : Position[w] > Position[v]
  PROVE  Cardinality(Newer(S, v)) >= n
<1>1. IsFiniteSet(S) /\ Newer(S, v) \in SUBSET S /\ T \in SUBSET Newer(S, v)
  BY VersionAssumption, FS_Subset DEF Newer
<1>2. IsFiniteSet(Newer(S, v)) /\ IsFiniteSet(T) /\ Cardinality(T) <= Cardinality(Newer(S, v))
  BY <1>1, FS_Subset
<1>3. Cardinality(T) \in Nat /\ Cardinality(Newer(S, v)) \in Nat
  BY <1>2, FS_CardinalityType
<1> QED BY <1>2, <1>3

\* A trim settles an artifact that is there before it, or that has been outnumbered.
LEMMA TrimSettles ==
  ASSUME limit \in Nat, limit' = limit, NEW pkgs \in [Artifacts -> Kinds],
         packages' = Trimmed(pkgs, limit), NEW a \in Artifacts,
         \/ pkgs[a] \in Present
         \/ limit > 0 /\ Cardinality(Newer(Held(pkgs, ExtOf[a]), VersionOf[a])) >= limit
  PROVE  Settled(a)'
<1> DEFINE S == Held(pkgs, ExtOf[a])
<1> DEFINE v == VersionOf[a]
<1>1. S \in SUBSET Versions /\ v \in Versions
  BY HeldType, SyncerAssumption
<1>2. Kept(ExtOf[a])' = Spared(S, limit)
  BY TrimmedHolds DEF Kept
<1>3. CASE limit > 0 /\ Cardinality(Newer(S, v)) >= limit
  <2>1. Cardinality(Newer(Spared(S, limit), v)) >= limit
    BY <1>1, <1>3, TrimKeepsNewer
  <2> QED BY <1>2, <1>3, <2>1 DEF Settled
<1>4. CASE pkgs[a] \in Present /\ v \notin Cut(S, limit)
  <2>1. packages'[a] = pkgs[a]
    BY <1>4 DEF Trimmed
  <2> QED BY <1>4, <2>1 DEF Settled
<1>5. CASE v \in Cut(S, limit)
  BY <1>3, <1>5 DEF Cut
<1> QED BY <1>3, <1>4, <1>5

\* No upload unsettles an artifact: neither in the run nor served late.
LEMMA HandleSettled ==
  ASSUME TypeOK, NEW b \in Artifacts, Handle(b), limit' = limit, NEW a \in Artifacts, Settled(a)
  PROVE  Settled(a)'
<1>1. CASE packages' = packages
  BY <1>1 DEF Settled, Kept
<1>2. CASE packages' = Trimmed([packages EXCEPT ![b] = "stored"], limit)
  <2> DEFINE pkgs == [packages EXCEPT ![b] = "stored"]
  <2> DEFINE S == Held(pkgs, ExtOf[a])
  <2>1. pkgs \in [Artifacts -> Kinds] /\ limit \in Nat
    BY DEF TypeOK, Kinds, Present
  <2>2. \A x \in Artifacts : packages[x] \in Present => pkgs[x] \in Present
    BY DEF TypeOK, Present
  <2>3. CASE packages[a] \in Present
    BY <1>2, <2>1, <2>2, <2>3, TrimSettles
  <2>4. CASE limit > 0 /\ Cardinality(Newer(Kept(ExtOf[a]), VersionOf[a])) >= limit
    <3>1. Kept(ExtOf[a]) \subseteq S /\ S \in SUBSET Versions
      BY <2>2, HeldType DEF Kept, Held
    <3>2. Newer(Kept(ExtOf[a]), VersionOf[a]) \in SUBSET S
          /\ \A w \in Newer(Kept(ExtOf[a]), VersionOf[a]) : Position[w] > Position[VersionOf[a]]
      BY <3>1 DEF Newer
    <3>3. VersionOf[a] \in Versions
      BY SyncerAssumption
    <3>4. Cardinality(Newer(S, VersionOf[a])) >= limit
      BY <2>1, <2>4, <3>1, <3>2, <3>3, MoreNewer
    <3> QED BY <1>2, <2>1, <2>4, <3>4, TrimSettles
  <2> QED BY <2>3, <2>4 DEF Settled
<1> QED BY <1>1, <1>2 DEF Handle

\* An artifact that the manager takes, or refuses for its limit, is settled.
LEMMA AnswerSettles ==
  ASSUME TypeOK, NEW a \in Artifacts, Handle(a), limit' = limit,
         AnswerTo(a) \in {"stored", "retention"}
  PROVE  Settled(a)'
<1> DEFINE S == Kept(ExtOf[a])
<1> DEFINE v == VersionOf[a]
<1>1. S \in SUBSET Versions /\ v \in Versions /\ limit \in Nat
  BY HeldType, SyncerAssumption DEF Kept, TypeOK
<1>2. CASE AnswerTo(a) = "retention"
  <2>1. Outside(S, v, limit) /\ packages' = packages
    BY <1>2 DEF AnswerTo, Handle
  <2> DEFINE T == {w \in S : Rank[w] > Rank[v]}
  <2>2. limit > 0 /\ Cardinality(T) >= limit
    BY <2>1 DEF Outside
  <2>3. T \in SUBSET S /\ \A w \in T : Position[w] > Position[v]
    <3> SUFFICES ASSUME NEW w \in S, Rank[w] > Rank[v]
                 PROVE  Position[w] > Position[v]
      OBVIOUS
    <3>1. w \in Versions /\ Rank[w] \in Nat /\ Rank[v] \in Nat
          /\ Position[w] \in Nat /\ Position[v] \in Nat
      BY <1>1, VersionAssumption
    <3>2. Rank[v] < Rank[w]
      BY <3>1
    <3>3. Position[v] < Position[w]
      BY <1>1, <3>1, <3>2, VersionAssumption
    <3> QED BY <3>1, <3>3
  <2> HIDE DEF T
  <2>4. Cardinality(Newer(S, v)) >= limit
    BY <1>1, <2>2, <2>3, MoreNewer
  <2> QED BY <2>1, <2>2, <2>4 DEF Settled, Kept
<1>3. CASE AnswerTo(a) = "stored" /\ packages[a] = "stored"
  BY <1>3 DEF Handle, Settled, Present
<1>4. CASE AnswerTo(a) = "stored" /\ packages[a] # "stored"
  <2> DEFINE pkgs == [packages EXCEPT ![a] = "stored"]
  <2>1. pkgs \in [Artifacts -> Kinds] /\ pkgs[a] \in Present
    BY DEF TypeOK, Kinds, Present
  <2>2. packages' = Trimmed(pkgs, limit)
    BY <1>4 DEF Handle
  <2> HIDE DEF pkgs
  <2> QED BY <1>1, <2>1, <2>2, TrimSettles
<1> QED BY <1>2, <1>3, <1>4

-----------------------------------------------------------------------------
(* Nothing is lost.                                                        *)

\* Promises are kept while artifacts on their way stay so, or settle.
LEMMA PromisesKept ==
  ASSUME limit' = limit,
         \A b \in Published : Settled(b) => Settled(b)',
         \A b \in Published : Pending(b) => Pending(b)' \/ Settled(b)',
         NEW a \in Published, Pending(a) \/ Settled(a) \/ Outdone(a)
  PROVE  Pending(a)' \/ Settled(a)' \/ Outdone(a)'
<1>1. CASE Outdone(a)
  <2>1. PICK W \in SUBSET Versions :
          /\ Cardinality(W) = limit
          /\ \A v \in W :
               /\ v # VersionOf[a] /\ Rank[v] >= Rank[VersionOf[a]]
               /\ \E b \in Published :
                    ExtOf[b] = ExtOf[a] /\ VersionOf[b] = v /\ (Pending(b) \/ Settled(b))
    BY <1>1 DEF Outdone
  <2>2. \A v \in W :
          \E b \in Published :
            ExtOf[b] = ExtOf[a] /\ VersionOf[b] = v /\ (Pending(b)' \/ Settled(b)')
    BY <2>1
  <2>3. limit' > 0
    BY <1>1 DEF Outdone
  <2> QED BY <2>1, <2>2, <2>3 DEF Outdone
<1> QED BY <1>1

\* Initially everything is still to be discovered.
LEMMA InitNothingLost == Init => NothingLost
BY SyncerAssumption DEF Init, NothingLost, Pending, Free

\* The manager settles what it answers, and unsettles nothing.
LEMMA ManagerNothingLost ==
  ASSUME TypeInv, NothingLost,
         \/ \E w \in Workers : Serve(w)
         \/ \E a \in Artifacts : ServeLate(a)
         \/ Restart \/ ScanEnds \/ Reconcile
  PROVE  NothingLost'
<1> USE SyncerAssumption DEF TypeInv
<1>1. limit' = limit /\ disturbed' = disturbed /\ report' = report /\ phase' = phase
      /\ ids' = ids /\ found' = found /\ queue' = queue
  BY DEF Serve, ServeLate, Restart, ScanEnds, Reconcile, Worker, run
<1>2. \A a \in Artifacts : Settled(a) => Settled(a)'
  <2>1. CASE packages' = packages
    BY <1>1, <2>1 DEF Settled, Kept
  <2>2. ASSUME NEW b \in Artifacts, Handle(b)
        PROVE  \A a \in Artifacts : Settled(a) => Settled(a)'
    BY <1>1, <2>2, HandleSettled
  <2>3. \A w \in Workers : Serve(w) => work[w].item \in Artifacts
    BY DEF Serve, At, RunInv, Free
  <2> QED BY <2>1, <2>2, <2>3 DEF Serve, ServeLate, Restart, ScanEnds, Reconcile
<1>3. \A w \in Workers : /\ work'[w].item = work[w].item
                         /\ work'[w] # work[w] => Serve(w) /\ work'[w].answer = AnswerTo(work[w].item)
  <2>1. CASE work' = work
    BY <2>1
  <2>2. ASSUME NEW w \in Workers, Serve(w)
        PROVE  \A x \in Workers :
                 /\ work'[x].item = work[x].item
                 /\ work'[x] # work[x] => Serve(x) /\ work'[x].answer = AnswerTo(work[x].item)
    <3>1. work' = [work EXCEPT ![w] =
                     [item |-> work[w].item, step |-> "answered", answer |-> AnswerTo(work[w].item)]]
      BY <2>2 DEF Serve
    <3>2. work'[w].item = work[w].item /\ work'[w].answer = AnswerTo(work[w].item)
      BY <3>1 DEF TypeOK
    <3>3. \A x \in Workers \ {w} : work'[x] = work[x]
      BY <3>1 DEF TypeOK
    <3> QED BY <2>2, <3>2, <3>3
  <2> QED BY <2>1, <2>2 DEF ServeLate, Restart, ScanEnds, Reconcile, run
<1>4. \A a \in Published : Pending(a) => Pending(a)'
  BY <1>1, <1>3 DEF Pending
<1>5. ~disturbed' /\ report'.failed = 0 =>
        \A a \in Published : Pending(a)' \/ Settled(a)' \/ Outdone(a)'
  <2> SUFFICES ASSUME ~disturbed', report'.failed = 0, NEW a \in Published
               PROVE  Pending(a)' \/ Settled(a)' \/ Outdone(a)'
    OBVIOUS
  <2>1. Pending(a) \/ Settled(a) \/ Outdone(a)
    BY <1>1 DEF NothingLost
  <2> QED BY <1>1, <1>2, <1>4, <2>1, PromisesKept
<1>6. ASSUME ~disturbed', NEW w \in Workers, NEW a \in Artifacts, a = work'[w].item,
             work'[w].step = "answered", work'[w].answer \in {"stored", "retention"}
      PROVE  Settled(a)'
  <2>1. CASE work'[w] = work[w]
    <3>1. Settled(a)
      BY <1>1, <1>6, <2>1 DEF NothingLost
    <3> QED BY <1>2, <3>1
  <2>2. CASE work'[w] # work[w]
    <3>1. Serve(w) /\ AnswerTo(a) \in {"stored", "retention"} /\ a = work[w].item
      BY <1>3, <1>6, <2>2
    <3>2. Handle(a)
      BY <3>1 DEF Serve
    <3> QED BY <1>1, <3>1, <3>2, AnswerSettles
  <2> QED BY <2>1, <2>2
<1>7. \A w \in Workers : work'[w].step = "answered" => work'[w].item \in Artifacts
  BY ManagerTypeInv DEF RunInv, Free
<1>8. \A w \in Workers :
        ~disturbed' /\ work'[w].step = "answered" /\ work'[w].answer \in {"stored", "retention"} =>
          Settled(work[w].item)'
  BY <1>6, <1>7 DEF Settled
<1> QED BY <1>5, <1>8 DEF NothingLost

\* What others do is not the run's to answer for.
LEMMA OthersNothingLost ==
  ASSUME OthersNext
  PROVE  NothingLost'
<1>1. disturbed'
  BY DEF OthersNext, OthersUpload, OthersDelete, OthersLimit
<1> QED BY <1>1 DEF NothingLost

\* Without a change of the manager or of a transfer, what is settled and what is answered stay.
LEMMA StillSettled ==
  ASSUME NothingLost, UNCHANGED <<packages, limit, disturbed>>
  PROVE  /\ \A a \in Artifacts : Settled(a) => Settled(a)'
         /\ work' = work =>
              (~disturbed' => \A w \in Workers :
                 work'[w].step = "answered" /\ work'[w].answer \in {"stored", "retention"} =>
                   Settled(work[w].item)')
BY DEF NothingLost, Settled, Kept

\* A check skips what is there, queues what the limit keeps, and for the rest there are as many
\* versions that are no older.
LEMMA CheckNothingLost ==
  ASSUME TypeInv, NothingLost, CheckAnswer
  PROVE  NothingLost'
<1> USE SyncerAssumption DEF TypeInv
<1>1. PICK keep \in {limit, 0}, wanted \in SUBSET Versions :
        /\ wanted \in Newest({VersionOf[a] : a \in found}, keep)
        /\ \A a \in found : packages[a] = "stored" \/ VersionOf[a] \notin wanted \/ a \in queue'
  <2>1. PICK keep \in {limit, 0} : \E wanted \in Newest({VersionOf[a] : a \in found}, keep) :
          LET skip == {a \in found : packages[a] = "stored"}
              beyond == {a \in found \ skip : VersionOf[a] \notin wanted}
          IN  Decided(skip, beyond) /\ queue' = found \ (skip \cup beyond)
    BY DEF CheckAnswer
  <2>2. PICK wanted \in Newest({VersionOf[a] : a \in found}, keep) :
          queue' = found \ ({a \in found : packages[a] = "stored"}
                      \cup {a \in found \ {b \in found : packages[b] = "stored"} :
                               VersionOf[a] \notin wanted})
    BY <2>1
  <2>3. wanted \in SUBSET Versions
    BY <2>2 DEF Newest, TypeOK
  <2> QED BY <2>2, <2>3
<1>2. /\ UNCHANGED <<packages, limit, disturbed, ids, work>>
      /\ phase = "check" /\ queue = {}
      /\ report'.failed = 0 => report.failed = 0
  <2>1. UNCHANGED <<packages, limit, disturbed, ids, work>> /\ phase = "check" /\ queue = {}
    BY DEF CheckAnswer, manager, RunInv
  <2>2. PICK m, n : report' = Counted(Counted(report, "skipped", m), "beyondLimit", n)
    BY DEF CheckAnswer, Decided
  <2>3. report'.failed = report.failed
    BY <2>2 DEF Counted, TypeOK, NoReport
  <2> QED BY <2>1, <2>3
<1>3. PICK e \in Exts : found = {a \in Published : ExtOf[a] = e}
  BY <1>2 DEF RunInv
<1>4. ASSUME NEW a \in found, VersionOf[a] \in wanted
      PROVE  Pending(a)' \/ Settled(a)'
  <2>1. CASE packages[a] = "stored"
    BY <1>2, <2>1 DEF Settled, Present
  <2>2. CASE a \in queue'
    BY <2>2 DEF Pending
  <2> QED BY <1>1, <1>4, <2>1, <2>2
<1>5. ASSUME NEW a \in found, VersionOf[a] \notin wanted
      PROVE  Outdone(a)'
  <2> DEFINE vs == {VersionOf[b] : b \in found}
  <2>1. VersionOf[a] \in vs \ wanted
    BY <1>5
  <2>2. keep > 0 /\ Cardinality(wanted) = keep
        /\ \A v \in wanted : v \in vs /\ Rank[v] >= Rank[VersionOf[a]]
    BY <1>1, <2>1 DEF Newest
  <2>3. keep = limit /\ limit' = limit
    BY <1>1, <1>2, <2>2
  <2>4. \A v \in wanted : \E b \in Published :
          ExtOf[b] = ExtOf[a] /\ VersionOf[b] = v /\ (Pending(b)' \/ Settled(b)')
    <3> SUFFICES ASSUME NEW v \in wanted
                 PROVE  \E b \in Published :
                          ExtOf[b] = ExtOf[a] /\ VersionOf[b] = v /\ (Pending(b)' \/ Settled(b)')
      OBVIOUS
    <3>1. PICK b \in found : VersionOf[b] = v
      BY <2>2
    <3>2. Pending(b)' \/ Settled(b)'
      BY <1>4, <3>1
    <3> QED BY <1>3, <3>1, <3>2
  <2>5. \A v \in wanted : v # VersionOf[a]
    BY <1>5
  <2> QED BY <1>1, <2>2, <2>3, <2>4, <2>5 DEF Outdone
<1>6. \A b \in Published : Settled(b) => Settled(b)'
  BY <1>2, StillSettled
<1>7. \A b \in Published \ found : Pending(b) => Pending(b)'
  BY <1>2 DEF Pending
<1>8. ASSUME ~disturbed', report'.failed = 0, NEW a \in Published
      PROVE  Pending(a)' \/ Settled(a)' \/ Outdone(a)'
  <2>1. CASE a \in found
    BY <1>4, <1>5, <2>1
  <2>2. CASE a \notin found /\ ~Outdone(a)
    BY <1>2, <1>6, <1>7, <1>8, <2>2 DEF NothingLost
  <2>3. CASE a \notin found /\ Outdone(a)
    <3>1. PICK W \in SUBSET Versions :
            /\ Cardinality(W) = limit
            /\ \A v \in W :
                 /\ v # VersionOf[a] /\ Rank[v] >= Rank[VersionOf[a]]
                 /\ \E b \in Published :
                      ExtOf[b] = ExtOf[a] /\ VersionOf[b] = v /\ (Pending(b) \/ Settled(b))
      BY <2>3 DEF Outdone
    <3>2. \A b \in Published : ExtOf[b] = ExtOf[a] => b \notin found
      BY <1>3, <2>3
    <3>3. \A v \in W : \E b \in Published :
            ExtOf[b] = ExtOf[a] /\ VersionOf[b] = v /\ (Pending(b)' \/ Settled(b)')
      BY <1>6, <1>7, <3>1, <3>2
    <3>4. limit' = limit /\ limit > 0
      BY <1>2, <2>3 DEF Outdone
    <3> QED BY <3>1, <3>3, <3>4 DEF Outdone
  <2> QED BY <2>1, <2>2, <2>3
<1> QED BY <1>2, <1>8, StillSettled DEF NothingLost

\* The rest of a run passes on what it discovers, or counts a failure.
LEMMA MainNothingLost ==
  ASSUME TypeInv, NothingLost, Start \/ Cancel \/ MainNext
  PROVE  NothingLost'
<1> USE SyncerAssumption DEF TypeInv
<1>1. UNCHANGED <<packages, limit, disturbed, work>>
  BY DEF Start, Cancel, MainNext, AwaitAnswer, AwaitFails, Discover, BreakOff, CheckAnswer,
         CheckFails, TransfersDone, Conclude, Report, manager
<1>2. SUFFICES ASSUME ~disturbed', report'.failed = 0, NEW a \in Published
               PROVE  Pending(a)' \/ Settled(a)' \/ Outdone(a)'
  BY <1>1, StillSettled DEF NothingLost
<1>3. \A b \in Published : Settled(b) => Settled(b)'
  BY <1>1, StillSettled
<1>4. ASSUME report.failed = 0, \A b \in Published : Pending(b) => Pending(b)' \/ Settled(b)'
      PROVE  Pending(a)' \/ Settled(a)' \/ Outdone(a)'
  <2>1. Pending(a) \/ Settled(a) \/ Outdone(a)
    BY <1>1, <1>2, <1>4 DEF NothingLost
  <2> QED BY <1>1, <1>3, <1>4, <2>1, PromisesKept
<1>5. CASE Start
  <2>1. ExtOf[a] \in ids'
    BY <1>5 DEF Start
  <2> QED BY <2>1 DEF Pending
<1>6. CASE UNCHANGED <<report, ids, found, queue>> /\ (phase = "check" => phase' = "check")
  <2>1. \A b \in Published : Pending(b) => Pending(b)'
    BY <1>1, <1>6 DEF Pending
  <2> QED BY <1>2, <1>4, <1>6, <2>1
<1>7. ASSUME NEW e \in Exts, Discover(e)
      PROVE  Pending(a)' \/ Settled(a)' \/ Outdone(a)'
  <2>1. CASE Count("failed", 1)
    BY <1>2, <2>1, FailureCountInv
  <2>2. CASE found' = {b \in Published : ExtOf[b] = e} /\ phase' = "check"
             /\ Count("discovered", Cardinality(found'))
    <3>1. report'.failed = report.failed
      BY <2>2 DEF Count, Counted, TypeOK, NoReport
    <3>2. \A b \in Published : Pending(b) => Pending(b)'
      BY <1>1, <1>7, <2>2 DEF Discover, Pending
    <3> QED BY <1>2, <1>4, <3>1, <3>2
  <2> QED BY <1>7, <2>1, <2>2 DEF Discover
<1>8. CASE BreakOff
  BY <1>2, <1>8, FailureCountInv DEF BreakOff
<1>9. CASE CheckFails
  <2>1. CASE Count("failed", Cardinality(found))
    <3>1. found # {} /\ found \in SUBSET Artifacts
      BY <1>9 DEF CheckFails, RunInv, TypeOK
    <3>2. Cardinality(found) \in Nat \ {0}
      BY <3>1, ArtifactsFinite, FS_EmptySet
    <3> QED BY <1>2, <2>1, <3>2, FailureCountInv
  <2>2. CASE UNCHANGED <<phase, report>>
    BY <1>6, <1>9, <2>2 DEF CheckFails
  <2> QED BY <1>9, <2>1, <2>2 DEF CheckFails
<1>10. CASE CheckAnswer
  BY <1>2, <1>10, CheckNothingLost DEF NothingLost
<1>11. CASE Cancel \/ AwaitAnswer \/ AwaitFails \/ TransfersDone \/ Conclude \/ Report
  BY <1>6, <1>11 DEF Cancel, AwaitAnswer, AwaitFails, TransfersDone, Conclude, Report
<1> QED BY <1>5, <1>7, <1>8, <1>9, <1>10, <1>11 DEF MainNext

\* A worker takes its artifact to an answer, which settles it, or counts a failure.
LEMMA WorkerNothingLost ==
  ASSUME TypeInv, NothingLost, NEW w \in Workers, WorkerNext(w)
  PROVE  NothingLost'
<1> USE SyncerAssumption DEF TypeInv
<1>1. UNCHANGED <<packages, limit, disturbed, phase, ids, found>>
  BY DEF WorkerNext, Take, Download, Unusable, UploadFails, Hear, Worker, manager
<1>2. \A a \in Artifacts : Settled(a) => Settled(a)'
  BY <1>1, StillSettled
<1>3. \A x \in Workers \ {w} : work'[x] = work[x]
  BY DEF WorkerNext, Take, Download, Unusable, UploadFails, Hear, Over, TypeOK
<1>4. work'[w].step # "answered"
  BY DEF WorkerNext, Take, Download, Unusable, UploadFails, Hear, Over, Free, TypeOK
<1>5. ~disturbed' =>
        \A x \in Workers :
          work'[x].step = "answered" /\ work'[x].answer \in {"stored", "retention"} =>
            Settled(work[x].item)'
  <2> SUFFICES ASSUME ~disturbed', NEW x \in Workers, work'[x].step = "answered",
                      work'[x].answer \in {"stored", "retention"}
               PROVE  Settled(work[x].item)'
    OBVIOUS
  <2>1. work'[x] = work[x]
    BY <1>3, <1>4
  <2>2. Settled(work[x].item)
    BY <1>1, <2>1 DEF NothingLost
  <2> QED BY <1>1, <2>1, <2>2 DEF Settled, Kept
<1>6. SUFFICES ASSUME ~disturbed', report'.failed = 0, NEW a \in Published
               PROVE  Pending(a)' \/ Settled(a)' \/ Outdone(a)'
  BY <1>5 DEF NothingLost
<1>7. ASSUME report.failed = 0, \A b \in Published : Pending(b) => Pending(b)' \/ Settled(b)'
      PROVE  Pending(a)' \/ Settled(a)' \/ Outdone(a)'
  <2>1. Pending(a) \/ Settled(a) \/ Outdone(a)
    BY <1>1, <1>6, <1>7 DEF NothingLost
  <2> QED BY <1>1, <1>2, <1>7, <2>1, PromisesKept
<1>8. CASE Over(w, "failed")
  BY <1>6, <1>8, FailureCountInv DEF Over
<1>9. CASE Take(w)
  <2>1. PICK b \in queue : /\ queue' = queue \ {b}
                           /\ work' = [work EXCEPT ![w] = [item |-> b, step |-> "download", answer |-> None]]
    BY <1>9 DEF Take
  <2>2. work[w].item = None /\ work'[w].item = b
    BY <1>9, <2>1 DEF Take, At, RunInv, Free, TypeOK
  <2>3. \A c \in Published : Pending(c) => Pending(c)'
    BY <1>1, <1>3, <2>1, <2>2 DEF Pending
  <2> QED BY <1>6, <1>7, <1>9, <2>3 DEF Take
<1>10. CASE work'[w].item = work[w].item /\ UNCHANGED <<queue, report>>
  <2>1. \A c \in Published : Pending(c) => Pending(c)'
    BY <1>1, <1>3, <1>10 DEF Pending
  <2> QED BY <1>6, <1>7, <1>10, <2>1
<1>11. CASE Download(w)
  BY <1>10, <1>11 DEF Download, TypeOK
<1>12. CASE Unusable(w)
  BY <1>8, <1>12 DEF Unusable
<1>13. CASE UploadFails(w)
  <2>1. CASE work' = [work EXCEPT ![w] = [item |-> work[w].item, step |-> "upload", answer |-> None]]
             /\ UNCHANGED report
    BY <1>10, <1>13, <2>1 DEF UploadFails, TypeOK
  <2> QED BY <1>8, <1>13, <2>1 DEF UploadFails
<1>14. CASE Hear(w) /\ Outcome(work[w].answer) # "failed"
  <2>1. work[w].step = "answered" /\ work[w].answer \in {"stored", "retention"}
    BY <1>14 DEF Hear, At, Outcome
  <2>2. Settled(work[w].item)
    BY <1>1, <1>6, <2>1 DEF NothingLost
  <2>3. report'.failed = report.failed /\ queue' = queue
    BY <1>14, OutcomeCounts DEF Hear, Over, Count, Counted, TypeOK, NoReport
  <2>4. \A c \in Published : Pending(c) => Pending(c)' \/ Settled(c)
    BY <1>1, <1>3, <2>2, <2>3 DEF Pending
  <2> QED BY <1>2, <1>6, <1>7, <2>3, <2>4
<1>15. CASE Hear(w) /\ Outcome(work[w].answer) = "failed"
  BY <1>8, <1>15 DEF Hear
<1> QED BY <1>9, <1>11, <1>12, <1>13, <1>14, <1>15 DEF WorkerNext

\* No step loses anything.
LEMMA StepNothingLost ==
  ASSUME TypeInv, NothingLost, [Next]_vars
  PROVE  NothingLost'
<1>1. CASE UNCHANGED vars
  BY <1>1 DEF vars, manager, run, NothingLost, Pending, Settled, Outdone, Kept
<1> QED BY <1>1, ManagerNothingLost, OthersNothingLost, MainNothingLost, WorkerNothingLost
        DEF Next, ManagerNext

\* Unless somebody else uses the manager, a complete run leaves it with every published package,
\* or with as many versions that are no older as the limit keeps: in whatever order uploads, the
\* trims they cause, retries and late duplicates take effect (sync.go:270, 287, 458), and
\* whichever of the versions that compare equal the two sides take for newer (sync.go:356).
THEOREM CompleteRunsCollect == Spec => []Collected
<1>1. TypeInv /\ NothingLost => Collected
  <2> USE SyncerAssumption DEF TypeInv
  <2> SUFFICES ASSUME TypeInv, NothingLost, Complete, ~disturbed, NEW a \in Published,
                      packages[a] \notin Present
               PROVE  limit > 0 /\ Cardinality(Superior(a)) >= limit
    BY DEF Collected
  <2> DEFINE S == Kept(ExtOf[a])
  <2>1. S \in SUBSET Versions /\ VersionOf[a] \in Versions /\ limit \in Nat
    BY HeldType DEF Kept, TypeOK
  <2>2. IsFiniteSet(Superior(a)) /\ Cardinality(Superior(a)) \in Nat
    <3>1. Superior(a) \in SUBSET Versions
      BY <2>1 DEF Superior
    <3> QED BY <3>1, VersionAssumption, FS_Subset, FS_CardinalityType
  <2>3. ASSUME NEW T \in SUBSET Superior(a), Cardinality(T) >= limit
        PROVE  Cardinality(Superior(a)) >= limit
    <3>1. IsFiniteSet(T) /\ Cardinality(T) <= Cardinality(Superior(a))
      BY <2>2, FS_Subset
    <3>2. Cardinality(T) \in Nat
      BY <3>1, FS_CardinalityType
    <3> QED BY <2>1, <2>2, <2>3, <3>1, <3>2
  <2>4. \A b \in Published : ~Pending(b)
    BY DEF Complete, Pending, RunInv, Free
  <2>5. \A v, u \in Versions : Position[u] > Position[v] => Rank[u] >= Rank[v] /\ u # v
    <3> SUFFICES ASSUME NEW v \in Versions, NEW u \in Versions, Position[u] > Position[v]
                 PROVE  Rank[u] >= Rank[v] /\ u # v
      OBVIOUS
    <3>1. Rank[u] \in Nat /\ Rank[v] \in Nat /\ Position[u] \in Nat /\ Position[v] \in Nat
      BY VersionAssumption
    <3>2. ~(Rank[u] < Rank[v])
      BY <3>1, VersionAssumption
    <3> QED BY <3>1, <3>2
  <2>6. CASE Settled(a)
    <3>1. limit > 0 /\ Cardinality(Newer(S, VersionOf[a])) >= limit
      BY <2>6 DEF Settled
    <3>2. Newer(S, VersionOf[a]) \in SUBSET Superior(a)
      BY <2>1, <2>5 DEF Newer, Superior
    <3> QED BY <2>3, <3>1, <3>2
  <2>7. CASE Outdone(a)
    <3>1. PICK W \in SUBSET Versions :
            /\ Cardinality(W) = limit
            /\ \A v \in W :
                 /\ v # VersionOf[a] /\ Rank[v] >= Rank[VersionOf[a]]
                 /\ \E b \in Published :
                      ExtOf[b] = ExtOf[a] /\ VersionOf[b] = v /\ (Pending(b) \/ Settled(b))
      BY <2>7 DEF Outdone
    <3>2. limit > 0
      BY <2>7 DEF Outdone
    <3>3. CASE W \subseteq S
      <4>1. W \in SUBSET Superior(a)
        BY <3>1, <3>3 DEF Superior
      <4>2. Cardinality(W) >= limit
        BY <2>1, <3>1
      <4> QED BY <2>3, <3>2, <4>1, <4>2
    <3>4. ASSUME NEW v \in W, v \notin S
          PROVE  Cardinality(Superior(a)) >= limit
      <4>1. PICK b \in Published : ExtOf[b] = ExtOf[a] /\ VersionOf[b] = v /\ Settled(b)
        BY <2>4, <3>1
      <4>2. packages[b] \notin Present
        BY <3>4, <4>1 DEF Kept, Held
      <4>3. Cardinality(Newer(S, v)) >= limit
        BY <4>1, <4>2 DEF Settled
      <4>4. Newer(S, v) \in SUBSET Superior(a)
        <5> SUFFICES ASSUME NEW u \in S, Position[u] > Position[v]
                     PROVE  u \in Superior(a)
          BY DEF Newer
        <5>1. u \in Versions /\ v \in Versions /\ Rank[u] >= Rank[v]
          BY <2>1, <2>5
        <5>2. v # VersionOf[a] /\ Rank[v] >= Rank[VersionOf[a]]
          BY <3>1
        <5>3. Rank[u] \in Nat /\ Rank[v] \in Nat /\ Rank[VersionOf[a]] \in Nat
          BY <2>1, <5>1, VersionAssumption
        <5>4. u = VersionOf[a] => Rank[VersionOf[b]] = Rank[VersionOf[a]]
          BY <4>1, <5>1, <5>2, <5>3
        <5>5. u = VersionOf[a] => Tied(a)
          BY <4>1, <5>2, <5>4 DEF Tied
        <5>6. Rank[u] >= Rank[VersionOf[a]]
          BY <5>1, <5>2, <5>3
        <5> QED BY <5>5, <5>6 DEF Superior
      <4> QED BY <2>3, <4>3, <4>4
    <3> QED BY <3>2, <3>3, <3>4
  <2> QED BY <2>4, <2>6, <2>7 DEF NothingLost, Complete
<1> QED BY <1>1, InitTypeInv, StepTypeInv, InitNothingLost, StepNothingLost, PTL DEF Spec
=============================================================================
