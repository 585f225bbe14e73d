-------------------------- MODULE SummariesProofs --------------------------
(***************************************************************************)
(* Proofs about Summaries, for any number of extensions, versions,         *)
(* requests and changes.                                                   *)
(***************************************************************************)
EXTENDS Summaries, VersionLimitProofs

-----------------------------------------------------------------------------
(* The invariant.                                                          *)

\* Before the first summary there are no rows.
FirstInv == ~marked \/ life = "queue" => \A e \in Exts : summaries[e] = NoRow

\* From then on a row is right or marked, also while the manager is stopped.
RightInv ==
  marked /\ life # "queue" => \A e \in Exts \ dirty : summaries[e] = Recount(packages, e)

\* Requests run in a manager that has come up, which has the mark.
LifeInv ==
  /\ life # "up" => \A p \in Procs : pc[p] = "idle"
  /\ life \in {"up", "queue"} => marked

\* A reader remembers what is right now, and once it may read it has seen every row since it asked.
SinceInv ==
  /\ \A r \in Readers : pc[r] # "idle" => \A e \in Exts : Recount(packages, e) \in since[r][e]
  /\ \A r \in Readers : pc[r] = "read" => \A e \in Exts : summaries[e] \in since[r][e]

\* The steps of a library limit that follow its refresh, and those before.
Applying == {"read", "trim", "answer"}
Small(e) == Cardinality(VersionsIn(Live(packages, e))) <= keep

\* While it is applied no extension is over the limit, save those on the page and those past it,
\* whose rows are right because nobody else has changed them since the refresh.
LimitInv ==
  /\ pc[Limiter] # "idle" => publish = Limiter /\ keep > 0
  /\ pc[Limiter] \notin Applying \cup {"idle"} => after = 0
  /\ pc[Limiter] = "idle" => after = 0
  /\ pc[Limiter] = "read" =>
       \A e \in Exts \ Own : Small(e) \/ (e > after /\ e \notin dirty)
  /\ pc[Limiter] = "trim" =>
       \A e \in Exts \ Own : \/ Small(e)
                             \/ e \in page
                             \/ e \notin dirty /\ \A x \in page : x < e
  /\ pc[Limiter] = "answer" => \A e \in Exts \ Own : Small(e)

SummariesInv == TypeOK /\ FirstInv /\ RightInv /\ LifeInv /\ SinceInv /\ LimitInv

-----------------------------------------------------------------------------
(* What a row says.                                                        *)

\* A recount looks at the records of its own extension only.
LEMMA RecountLocal ==
  ASSUME NEW p, NEW q, NEW e, \A k \in Keys : ExtOf[k] = e => p[k] = q[k]
  PROVE  Recount(p, e) = Recount(q, e)
<1>1. RecordsOf(p, e) = RecordsOf(q, e)
  BY DEF RecordsOf
<1>2. \A S : WithStatus(p, e, S) = WithStatus(q, e, S)
  BY DEF RecordsOf, WithStatus
<1>3. Live(p, e) = Live(q, e)
  BY <1>2 DEF Live
<1>4. [s \in Statuses |-> Cardinality(WithStatus(p, e, {s}))]
        = [s \in Statuses |-> Cardinality(WithStatus(q, e, {s}))]
  BY <1>2
<1>5. WithStatus(p, e, {"stored"}) = WithStatus(q, e, {"stored"})
  BY <1>2
<1> QED BY <1>1, <1>3, <1>4, <1>5, Zenon DEF Recount

\* A package's change changes the summary of its extension only.
LEMMA RecountAfter ==
  ASSUME TypeOK, NEW K \in SUBSET Keys,
         \A k \in Keys \ K : packages'[k] = packages[k],
         dirty' = Marked(K)
  PROVE  \A e \in Exts \ dirty' : e \notin dirty /\ Recount(packages, e)' = Recount(packages, e)
<1> SUFFICES ASSUME NEW e \in Exts \ dirty'
             PROVE  e \notin dirty /\ Recount(packages', e) = Recount(packages, e)
  BY DEF Recount, RecordsOf, WithStatus, Live, VersionsIn, NewestOf
<1>1. e \notin dirty /\ \A k \in K : ExtOf[k] # e
  BY DEF Marked
<1>2. \A k \in Keys : ExtOf[k] = e => packages'[k] = packages[k]
  BY <1>1
<1> QED BY <1>1, <1>2, RecountLocal

\* The triggers mark extensions.
LEMMA MarkedExts ==
  ASSUME TypeOK, NEW K \in SUBSET Keys
  PROVE  Marked(K) \subseteq Exts
<1>1. dirty \subseteq Exts
  BY DEF TypeOK
<1>2. \A k \in K : ExtOf[k] \in Exts
  BY SummariesAssumption
<1> QED BY <1>1, <1>2 DEF Marked

\* A recount is a row.
LEMMA RecountIsRow ==
  ASSUME NEW p \in [Keys -> Statuses \cup {None}], NEW e \in Exts
  PROVE  Recount(p, e) \in Rows
BY DEF Rows

\* A commit adds the rows it makes right to what the readers under way remember.
LEMMA NotedRemembers ==
  ASSUME TypeOK, packages' \in [Keys -> Statuses \cup {None}], since' = Noted(packages')
  PROVE  /\ since' \in [Readers -> [Exts -> SUBSET Rows]]
         /\ \A r \in Readers : pc[r] # "idle" =>
              \A e \in Exts : /\ Recount(packages, e)' \in since'[r][e]
                              /\ since[r][e] \subseteq since'[r][e]
<1>1. \A e \in Exts : Recount(packages', e) \in Rows
  BY RecountIsRow
<1>2. \A e \in Exts : Recount(packages, e)' = Recount(packages', e)
  BY DEF Recount, RecordsOf, WithStatus, Live, VersionsIn, NewestOf
<1>3. since \in [Readers -> [Exts -> SUBSET Rows]]
  BY DEF TypeOK
<1>4. ASSUME NEW r \in Readers
      PROVE  [e \in Exts |-> since[r][e] \cup {Recount(packages', e)}] \in [Exts -> SUBSET Rows]
  BY <1>1, <1>3
<1> QED BY <1>2, <1>3, <1>4 DEF Noted

\* A trim deletes packages of its extension.
LEMMA BeyondLocal ==
  ASSUME NEW e
  PROVE  \A k \in Beyond(e) : k \in Keys /\ ExtOf[k] = e
BY DEF Beyond, Live, WithStatus, RecordsOf

\* Extensions have finitely many versions.
LEMMA LiveVersions ==
  ASSUME NEW e
  PROVE  /\ VersionsIn(Live(packages, e)) \in SUBSET Versions
         /\ IsFiniteSet(VersionsIn(Live(packages, e)))
<1>1. VersionsIn(Live(packages, e)) \in SUBSET Versions
  BY SummariesAssumption DEF VersionsIn, Live, WithStatus, RecordsOf
<1> QED BY <1>1, VersionAssumption, FS_Subset

\* With its row unmarked, an extension past the page before exceeds the limit or has a right to
\* be left out.
LEMMA OverIsExact ==
  ASSUME TypeOK, RightInv, LifeInv, pc[Limiter] # "idle",
         NEW e \in Exts \ Own, e \notin dirty, e > after
  PROVE  Small(e) \/ e \in Over
<1>1. life = "up" /\ marked
  BY DEF LifeInv, TypeOK, Procs
<1>2. summaries[e] = Recount(packages, e)
  BY <1>1 DEF RightInv
<1>3. CASE RecordsOf(packages, e) = {}
  <2>1. VersionsIn(Live(packages, e)) = {}
    BY <1>3 DEF Live, WithStatus, VersionsIn
  <2> QED BY <2>1, FS_EmptySet DEF Small, TypeOK
<1>4. CASE RecordsOf(packages, e) # {}
  <2>1. summaries[e].versions = Cardinality(VersionsIn(Live(packages, e)))
    BY <1>2, <1>4 DEF Recount
  <2>2. IsFiniteSet(VersionsIn(Live(packages, e)))
    BY LiveVersions
  <2>3. Cardinality(VersionsIn(Live(packages, e))) \in Nat /\ keep \in Nat
    BY <2>2, FS_CardinalityType DEF TypeOK
  <2> QED BY <2>1, <2>3 DEF Small, Over
<1> QED BY <1>3, <1>4

\* What is past a page comes after all that is on it.
LEMMA PagesAreInOrder ==
  ASSUME NEW e \in Over, NEW x \in Over,
         ~(Cardinality({y \in Over : y < e}) < Batch), Cardinality({y \in Over : y < x}) < Batch
  PROVE  x < e
<1> DEFINE Below(z) == {y \in Over : y < z}
<1>1. e \in Nat /\ x \in Nat /\ Over \subseteq Nat /\ Over \subseteq Exts
  BY SummariesAssumption DEF Over
<1>2. IsFiniteSet(Below(x)) /\ IsFiniteSet(Below(e))
  BY <1>1, SummariesAssumption, FS_Subset
<1>3. SUFFICES ASSUME e <= x
               PROVE  FALSE
  BY <1>1
<1>4. Below(e) \in SUBSET Below(x)
  <2>1. ASSUME NEW y \in Over, y < e
        PROVE  y < x
    <3>1. y \in Nat
      BY <1>1
    <3> QED BY <1>1, <1>3, <2>1, <3>1
  <2> QED BY <2>1
<1>5. Cardinality(Below(e)) <= Cardinality(Below(x))
  BY <1>2, <1>4, FS_Subset
<1>6. Cardinality(Below(e)) \in Nat /\ Cardinality(Below(x)) \in Nat
  BY <1>2, FS_CardinalityType
<1> QED BY <1>5, <1>6, SummariesAssumption

\* A trim leaves its extension within the limit, and the others as they are.
LEMMA TrimShrinks ==
  ASSUME TypeOK, NEW e \in Exts, keep > 0, keep' = keep,
         packages' = [k \in Keys |-> IF k \in Beyond(e) THEN "deleted" ELSE packages[k]]
  PROVE  Small(e)' /\ \A x \in Exts \ {e} : Small(x)' <=> Small(x)
<1> DEFINE vs == VersionsIn(Live(packages, e))
<1>1. vs \in SUBSET Versions
  BY LiveVersions
<1>2. VersionsIn(Live(packages', e)) = Spared(vs, keep)
  BY DEF Spared, Beyond, Live, WithStatus, RecordsOf, VersionsIn, Cut
<1>3. Cardinality(VersionsIn(Live(packages', e))) <= keep
  BY <1>1, <1>2, SparedAtMost DEF TypeOK
<1>4. ASSUME NEW x \in Exts \ {e}
      PROVE  Live(packages', x) = Live(packages, x)
  BY BeyondLocal DEF Live, WithStatus, RecordsOf
<1>5. \A x \in Exts : Small(x)' <=> Cardinality(VersionsIn(Live(packages', x))) <= keep
  BY DEF Small, Live, WithStatus, RecordsOf, VersionsIn
<1> QED BY <1>3, <1>4, <1>5 DEF Small

-----------------------------------------------------------------------------
\* The manager opens its database, and dies.
LEMMA ProcessSteps ==
  ASSUME SummariesInv,
         \/ Open
         \/ QueueAll
         \/ Crash
  PROVE  SummariesInv'
<1> USE SummariesAssumption DEF SummariesInv, Goto
<1>1. ASSUME Open
      PROVE  SummariesInv'
  <2>1. TypeOK'
    BY <1>1 DEF Open, TypeOK, Procs, durable, paging
  <2>2. FirstInv' /\ LifeInv'
    BY <1>1 DEF Open, TypeOK, FirstInv, LifeInv, Procs, durable, paging
  <2>3. RightInv'
    BY <1>1 DEF Open, TypeOK, RightInv, LifeInv, durable, paging
  <2>4. SinceInv'
    BY <1>1 DEF Open, TypeOK, SinceInv, RightInv, LifeInv, Procs, durable, paging
  <2>5. LimitInv'
    BY <1>1 DEF Open, TypeOK, LimitInv, LifeInv, Applying, Small, Procs, durable, paging
  <2> QED BY <2>1, <2>2, <2>3, <2>4, <2>5
<1>2. ASSUME QueueAll
      PROVE  SummariesInv'
  <2>1. TypeOK'
    <3>1. dirty' \subseteq Exts
      BY <1>2, MarkedExts DEF QueueAll
    <3> QED BY <1>2, <3>1 DEF QueueAll, TypeOK, Procs, durable, paging
  <2>2. FirstInv' /\ LifeInv'
    BY <1>2 DEF QueueAll, TypeOK, FirstInv, LifeInv, Procs, durable, paging
  <2>3. RightInv'
    <3> SUFFICES ASSUME NEW e \in Exts \ dirty'
                 PROVE  NoRow = Recount(packages, e)
      BY <1>2 DEF QueueAll, FirstInv, RightInv
    <3>1. RecordsOf(packages, e) = {}
      BY <1>2 DEF QueueAll, Marked, RecordsOf
    <3> QED BY <3>1 DEF Recount
  <2>4. SinceInv'
    BY <1>2 DEF QueueAll, TypeOK, SinceInv, RightInv, LifeInv, Procs, durable, paging
  <2>5. LimitInv'
    BY <1>2 DEF QueueAll, TypeOK, LimitInv, LifeInv, Applying, Small, Procs, durable, paging
  <2> QED BY <2>1, <2>2, <2>3, <2>4, <2>5
<1>3. ASSUME Crash
      PROVE  SummariesInv'
  <2>1. TypeOK'
    BY <1>3 DEF Crash, Die, TypeOK, Procs, durable, paging
  <2>2. FirstInv' /\ LifeInv'
    BY <1>3 DEF Crash, Die, TypeOK, FirstInv, LifeInv, Procs, durable, paging
  <2>3. RightInv'
    BY <1>3 DEF Crash, Die, TypeOK, RightInv, LifeInv, durable, paging
  <2>4. SinceInv'
    BY <1>3 DEF Crash, Die, TypeOK, SinceInv, RightInv, LifeInv, Procs, durable, paging
  <2>5. LimitInv'
    BY <1>3 DEF Crash, Die, TypeOK, LimitInv, LifeInv, Applying, Small, Procs, durable, paging
  <2> QED BY <2>1, <2>2, <2>3, <2>4, <2>5
<1> QED BY <1>1, <1>2, <1>3

-----------------------------------------------------------------------------
\* A refresh, by whichever request runs it.
LEMMA RefreshSteps ==
  ASSUME SummariesInv,
         \/ \E p \in Procs : Check(p)
         \/ \E p \in Procs : LockRefresh(p)
         \/ \E p \in Procs : Select(p)
         \/ \E p \in Procs : Refreshed(p)
         \/ \E p \in Procs : RecountBatch(p)
         \/ \E p \in Procs : RequestFails(p)
  PROVE  SummariesInv'
<1> USE SummariesAssumption DEF SummariesInv, Goto
<1>1. ASSUME NEW p \in Procs, Check(p)
      PROVE  SummariesInv'
  <2>1. TypeOK'
    BY <1>1 DEF Check, TypeOK, Procs, durable, paging
  <2>2. FirstInv' /\ LifeInv'
    BY <1>1 DEF Check, TypeOK, FirstInv, LifeInv, Procs, durable, paging
  <2>3. RightInv'
    BY <1>1 DEF Check, TypeOK, RightInv, LifeInv, durable, paging
  <2>4. SinceInv'
    BY <1>1 DEF Check, TypeOK, SinceInv, RightInv, LifeInv, Procs, durable, paging
  <2>5. LimitInv'
    BY <1>1 DEF Check, TypeOK, LimitInv, LifeInv, Applying, Small, Procs, durable, paging
  <2> QED BY <2>1, <2>2, <2>3, <2>4, <2>5
<1>2. ASSUME NEW p \in Procs, LockRefresh(p)
      PROVE  SummariesInv'
  <2>1. TypeOK'
    BY <1>2 DEF LockRefresh, TypeOK, Procs, durable, paging
  <2>2. FirstInv' /\ LifeInv'
    BY <1>2 DEF LockRefresh, TypeOK, FirstInv, LifeInv, Procs, durable, paging
  <2>3. RightInv'
    BY <1>2 DEF LockRefresh, TypeOK, RightInv, LifeInv, durable, paging
  <2>4. SinceInv'
    BY <1>2 DEF LockRefresh, TypeOK, SinceInv, RightInv, LifeInv, Procs, durable, paging
  <2>5. LimitInv'
    BY <1>2 DEF LockRefresh, TypeOK, LimitInv, LifeInv, Applying, Small, Procs, durable, paging
  <2> QED BY <2>1, <2>2, <2>3, <2>4, <2>5
<1>3. ASSUME NEW p \in Procs, Select(p)
      PROVE  SummariesInv'
  <2>1. TypeOK'
    BY <1>3 DEF Select, TypeOK, Procs, durable, paging
  <2>2. FirstInv' /\ LifeInv'
    BY <1>3 DEF Select, TypeOK, FirstInv, LifeInv, Procs, durable, paging
  <2>3. RightInv'
    BY <1>3 DEF Select, TypeOK, RightInv, LifeInv, durable, paging
  <2>4. SinceInv'
    BY <1>3 DEF Select, TypeOK, SinceInv, RightInv, LifeInv, Procs, durable, paging
  <2>5. LimitInv'
    BY <1>3 DEF Select, TypeOK, LimitInv, LifeInv, Applying, Small, Procs, durable, paging
  <2> QED BY <2>1, <2>2, <2>3, <2>4, <2>5
<1>4. ASSUME NEW p \in Procs, Refreshed(p)
      PROVE  SummariesInv'
  <2>1. TypeOK'
    BY <1>4 DEF Refreshed, TypeOK, Procs, durable, paging
  <2>2. FirstInv' /\ LifeInv'
    BY <1>4 DEF Refreshed, TypeOK, FirstInv, LifeInv, Procs, durable, paging
  <2>3. RightInv'
    BY <1>4 DEF Refreshed, TypeOK, RightInv, LifeInv, durable, paging
  <2>4. SinceInv'
    BY <1>4 DEF Refreshed, TypeOK, SinceInv, RightInv, LifeInv, Procs, durable, paging
  <2>5. LimitInv'
    BY <1>4 DEF Refreshed, TypeOK, LimitInv, LifeInv, Applying, Small, Procs, durable, paging
  <2> QED BY <2>1, <2>2, <2>3, <2>4, <2>5
<1>5. ASSUME NEW p \in Procs, RecountBatch(p)
      PROVE  SummariesInv'
  <2>1. TypeOK'
    BY <1>5 DEF RecountBatch, TypeOK, Procs, durable, paging
  <2>2. FirstInv' /\ LifeInv'
    BY <1>5 DEF RecountBatch, TypeOK, FirstInv, LifeInv, Procs, durable, paging
  <2>3. RightInv'
    BY <1>5 DEF RecountBatch, TypeOK, RightInv, LifeInv, durable, paging
  <2>4. SinceInv'
    BY <1>5 DEF RecountBatch, TypeOK, SinceInv, RightInv, LifeInv, Procs, durable, paging
  <2>5. LimitInv'
    BY <1>5 DEF RecountBatch, TypeOK, LimitInv, LifeInv, Applying, Small, Procs, durable, paging
  <2> QED BY <2>1, <2>2, <2>3, <2>4, <2>5
<1>6. ASSUME NEW p \in Procs, RequestFails(p)
      PROVE  SummariesInv'
  <2>1. TypeOK'
    BY <1>6 DEF RequestFails, TypeOK, Procs, durable, paging
  <2>2. FirstInv' /\ LifeInv'
    BY <1>6 DEF RequestFails, TypeOK, FirstInv, LifeInv, Procs, durable, paging
  <2>3. RightInv'
    BY <1>6 DEF RequestFails, TypeOK, RightInv, LifeInv, durable, paging
  <2>4. SinceInv'
    BY <1>6 DEF RequestFails, TypeOK, SinceInv, RightInv, LifeInv, Procs, durable, paging
  <2>5. LimitInv'
    BY <1>6 DEF RequestFails, TypeOK, LimitInv, LifeInv, Applying, Small, Procs, durable, paging
  <2> QED BY <2>1, <2>2, <2>3, <2>4, <2>5
<1> QED BY <1>1, <1>2, <1>3, <1>4, <1>5, <1>6

-----------------------------------------------------------------------------
\* Readers, the library limit, and the changes of others.
LEMMA RequestSteps ==
  ASSUME SummariesInv,
         \/ \E r \in Readers : Ask(r)
         \/ \E r \in Readers : Read(r)
         \/ Change
         \/ SetLibraryLimit
         \/ SelectPage
         \/ TrimNext
         \/ Answer
  PROVE  SummariesInv'
<1> USE SummariesAssumption DEF SummariesInv, Goto
<1>1. ASSUME NEW r \in Readers, Ask(r)
      PROVE  SummariesInv'
  <2>1. TypeOK'
    <3>1. [e \in Exts |-> {Recount(packages, e)}] \in [Exts -> SUBSET Rows]
      BY RecountIsRow DEF TypeOK
    <3> QED BY <1>1, <3>1 DEF Ask, TypeOK, Procs, durable, paging
  <2>2. FirstInv' /\ LifeInv'
    BY <1>1 DEF Ask, TypeOK, FirstInv, LifeInv, Procs, durable, paging
  <2>3. RightInv'
    BY <1>1 DEF Ask, TypeOK, RightInv, LifeInv, durable, paging
  <2>4. SinceInv'
    BY <1>1 DEF Ask, TypeOK, SinceInv, RightInv, LifeInv, Procs, durable, paging
  <2>5. LimitInv'
    BY <1>1 DEF Ask, TypeOK, LimitInv, LifeInv, Applying, Small, Procs, durable, paging
  <2> QED BY <2>1, <2>2, <2>3, <2>4, <2>5
<1>2. ASSUME NEW r \in Readers, Read(r)
      PROVE  SummariesInv'
  <2>1. TypeOK'
    BY <1>2 DEF Read, TypeOK, Procs, durable, paging
  <2>2. FirstInv' /\ LifeInv'
    BY <1>2 DEF Read, TypeOK, FirstInv, LifeInv, Procs, durable, paging
  <2>3. RightInv'
    BY <1>2 DEF Read, TypeOK, RightInv, LifeInv, durable, paging
  <2>4. SinceInv'
    BY <1>2 DEF Read, TypeOK, SinceInv, RightInv, LifeInv, Procs, durable, paging
  <2>5. LimitInv'
    BY <1>2 DEF Read, TypeOK, LimitInv, LifeInv, Applying, Small, Procs, durable, paging
  <2> QED BY <2>1, <2>2, <2>3, <2>4, <2>5
<1>3. ASSUME Change
      PROVE  SummariesInv'
  <2>1. TypeOK'
    <3>1. packages' \in [Keys -> Statuses \cup {None}] /\ dirty' \subseteq Exts
      BY <1>3, MarkedExts DEF Change, TypeOK
    <3>2. since' \in [Readers -> [Exts -> SUBSET Rows]]
      BY <1>3, <3>1, NotedRemembers DEF Change
    <3>3. changes' \in 0 .. MaxChanges
      BY <1>3 DEF Change, TypeOK
    <3> QED BY <1>3, <3>1, <3>2, <3>3 DEF Change, TypeOK, Procs, durable, paging
  <2>2. FirstInv' /\ LifeInv'
    BY <1>3 DEF Change, TypeOK, FirstInv, LifeInv, Procs, durable, paging
  <2>3. RightInv'
    <3>1. PICK k \in Keys, s \in Written : /\ packages' = [packages EXCEPT ![k] = s]
                                           /\ dirty' = Marked({k})
      BY <1>3 DEF Change
    <3>2. \A e \in Exts \ dirty' : e \notin dirty /\ Recount(packages, e)' = Recount(packages, e)
      BY <3>1, RecountAfter DEF TypeOK
    <3> QED BY <1>3, <3>2 DEF Change, RightInv, durable, paging
  <2>4. SinceInv'
    <3>1. packages' \in [Keys -> Statuses \cup {None}]
      BY <1>3 DEF Change, TypeOK
    <3> QED BY <1>3, <3>1, NotedRemembers DEF Change, SinceInv
  <2>5. LimitInv'
    BY <1>3 DEF Change, TypeOK, LimitInv, LifeInv, Applying, Small, Procs, durable, paging
  <2> QED BY <2>1, <2>2, <2>3, <2>4, <2>5
<1>4. ASSUME SetLibraryLimit
      PROVE  SummariesInv'
  <2>1. TypeOK'
    BY <1>4 DEF SetLibraryLimit, TypeOK, Procs, durable, paging
  <2>2. FirstInv' /\ LifeInv'
    BY <1>4 DEF SetLibraryLimit, TypeOK, FirstInv, LifeInv, Procs, durable, paging
  <2>3. RightInv'
    BY <1>4 DEF SetLibraryLimit, TypeOK, RightInv, LifeInv, durable, paging
  <2>4. SinceInv'
    BY <1>4 DEF SetLibraryLimit, TypeOK, SinceInv, RightInv, LifeInv, Procs, durable, paging
  <2>5. LimitInv'
    BY <1>4 DEF SetLibraryLimit, TypeOK, LimitInv, LifeInv, Applying, Small, Procs, durable, paging
  <2> QED BY <2>1, <2>2, <2>3, <2>4, <2>5
<1>5. ASSUME SelectPage
      PROVE  SummariesInv'
  <2>1. TypeOK'
    BY <1>5 DEF SelectPage, Over, TypeOK, Procs, durable, paging
  <2>2. FirstInv' /\ LifeInv'
    BY <1>5 DEF SelectPage, Over, TypeOK, FirstInv, LifeInv, Procs, durable, paging
  <2>3. RightInv'
    BY <1>5 DEF SelectPage, Over, TypeOK, RightInv, LifeInv, durable, paging
  <2>4. SinceInv'
    BY <1>5 DEF SelectPage, Over, TypeOK, SinceInv, RightInv, LifeInv, Procs, durable, paging
  <2>5. LimitInv'
    <3>1. /\ pc[Limiter] = "read" /\ keep > 0 /\ publish = Limiter
          /\ page' = {e \in Over : Cardinality({x \in Over : x < e}) < Batch}
          /\ pc' = [pc EXCEPT ![Limiter] = IF Over = {} THEN "answer" ELSE "trim"]
          /\ UNCHANGED <<durable, life, batch, refresh, publish, after, changes, since>>
      BY <1>5 DEF SelectPage, LimitInv
    <3>2. ASSUME NEW e \in Exts \ Own
          PROVE  Small(e) \/ (e \in Over /\ e \notin dirty)
      BY <3>1, OverIsExact DEF LimitInv
    <3>3. ASSUME NEW e \in Over, e \notin page', NEW x \in page'
          PROVE  x < e
      BY <3>1, <3>3, PagesAreInOrder
    <3>4. \A e \in Exts : Small(e)' <=> Small(e)
      BY <3>1 DEF Small, durable
    <3>5. pc'[Limiter] = IF Over = {} THEN "answer" ELSE "trim"
      BY <3>1 DEF TypeOK, Procs
    <3> QED BY <3>1, <3>2, <3>3, <3>4, <3>5 DEF LimitInv, Applying, durable
  <2> QED BY <2>1, <2>2, <2>3, <2>4, <2>5
<1>6. ASSUME TrimNext
      PROVE  SummariesInv'
  <2>1. TypeOK'
    <3>1. packages' \in [Keys -> Statuses \cup {None}] /\ dirty' \subseteq Exts
      <4>1. packages' \in [Keys -> Statuses \cup {None}]
        BY <1>6 DEF TrimNext, TypeOK, Statuses
      <4>2. dirty' \subseteq Exts
        <5>1. PICK e \in page : dirty' = Marked(Beyond(e))
          BY <1>6 DEF TrimNext
        <5>2. Beyond(e) \in SUBSET Keys
          BY BeyondLocal
        <5> QED BY <5>1, <5>2, MarkedExts
      <4> QED BY <4>1, <4>2
    <3>2. since' \in [Readers -> [Exts -> SUBSET Rows]]
      BY <1>6, <3>1, NotedRemembers DEF TrimNext
    <3>3. page' \subseteq Exts /\ after' \in Exts \cup {0}
      BY <1>6 DEF TrimNext, TypeOK
    <3>4. pc' \in [Procs -> {"idle", "check", "refresh", "select", "recount", "read", "trim", "answer"}]
      BY <1>6 DEF TrimNext, TypeOK, Procs
    <3> QED BY <1>6, <3>1, <3>2, <3>3, <3>4 DEF TrimNext, TypeOK, Procs
  <2>2. FirstInv' /\ LifeInv'
    BY <1>6 DEF TrimNext, TypeOK, FirstInv, LifeInv, Procs, durable, paging
  <2>3. RightInv'
    <3>1. PICK e \in page :
            /\ packages' = [k \in Keys |-> IF k \in Beyond(e) THEN "deleted" ELSE packages[k]]
            /\ dirty' = Marked(Beyond(e))
      BY <1>6 DEF TrimNext
    <3>2. Beyond(e) \in SUBSET Keys
      BY BeyondLocal
    <3>3. \A x \in Exts \ dirty' : x \notin dirty /\ Recount(packages, x)' = Recount(packages, x)
      BY <3>1, <3>2, RecountAfter
    <3> QED BY <1>6, <3>3 DEF TrimNext, RightInv
  <2>4. SinceInv'
    <3>1. packages' \in [Keys -> Statuses \cup {None}]
      BY <1>6 DEF TrimNext, TypeOK, Statuses
    <3>2. \A r \in Readers : pc'[r] = pc[r]
      BY <1>6 DEF TrimNext, TypeOK, Procs
    <3> QED BY <1>6, <3>1, <3>2, NotedRemembers DEF TrimNext, SinceInv
  <2>5. LimitInv'
    <3>1. PICK e \in page :
            /\ \A x \in page : e <= x
            /\ packages' = [k \in Keys |-> IF k \in Beyond(e) THEN "deleted" ELSE packages[k]]
            /\ dirty' = Marked(Beyond(e))
            /\ page' = page \ {e}
            /\ after' = IF page = {e} THEN e ELSE after
            /\ pc' = [pc EXCEPT ![Limiter] = IF page = {e} THEN "read" ELSE "trim"]
      BY <1>6 DEF TrimNext
    <3>2. pc[Limiter] = "trim" /\ publish' = Limiter /\ keep' = keep /\ keep > 0 /\ page \subseteq Exts
      BY <1>6 DEF TrimNext, LimitInv, TypeOK
    <3>3. Small(e)' /\ \A x \in Exts \ {e} : Small(x)' <=> Small(x)
      BY <3>1, <3>2, TrimShrinks DEF TypeOK
    <3>4. \A x \in Exts \ {e} : x \notin dirty => x \notin dirty'
      BY <3>1, BeyondLocal DEF Marked
    <3>5. pc'[Limiter] = IF page = {e} THEN "read" ELSE "trim"
      BY <3>1 DEF TypeOK, Procs
    <3>6. CASE page = {e}
      BY <3>1, <3>2, <3>3, <3>4, <3>5, <3>6 DEF LimitInv, Applying
    <3>7. CASE page # {e}
      BY <3>1, <3>2, <3>3, <3>4, <3>5, <3>7 DEF LimitInv, Applying
    <3> QED BY <3>6, <3>7
  <2> QED BY <2>1, <2>2, <2>3, <2>4, <2>5
<1>7. ASSUME Answer
      PROVE  SummariesInv'
  <2>1. TypeOK'
    BY <1>7 DEF Answer, TypeOK, Procs, durable, paging
  <2>2. FirstInv' /\ LifeInv'
    BY <1>7 DEF Answer, TypeOK, FirstInv, LifeInv, Procs, durable, paging
  <2>3. RightInv'
    BY <1>7 DEF Answer, TypeOK, RightInv, LifeInv, durable, paging
  <2>4. SinceInv'
    BY <1>7 DEF Answer, TypeOK, SinceInv, RightInv, LifeInv, Procs, durable, paging
  <2>5. LimitInv'
    BY <1>7 DEF Answer, TypeOK, LimitInv, LifeInv, Applying, Small, Procs, durable, paging
  <2> QED BY <2>1, <2>2, <2>3, <2>4, <2>5
<1> QED BY <1>1, <1>2, <1>3, <1>4, <1>5, <1>6, <1>7

-----------------------------------------------------------------------------
(* Theorems.                                                               *)

\* A database with right rows, or with none.
LEMMA InitSummariesInv == Init => SummariesInv
<1> SUFFICES ASSUME Init
             PROVE  SummariesInv
  OBVIOUS
<1> USE SummariesAssumption DEF Init
<1>1. TypeOK
  <2>1. packages \in [Keys -> Statuses \cup {None}]
    OBVIOUS
  <2>2. since \in [Readers -> [Exts -> SUBSET Rows]]
    OBVIOUS
  <2>3. batch \in [Procs -> SUBSET Exts] /\ changes \in 0 .. MaxChanges
    OBVIOUS
  <2> QED BY <2>1, <2>2, <2>3 DEF TypeOK, Procs
<1>2. FirstInv /\ RightInv /\ LifeInv
  BY DEF FirstInv, RightInv, LifeInv
<1>3. SinceInv /\ LimitInv
  BY DEF SinceInv, LimitInv, Procs, Applying
<1> QED BY <1>1, <1>2, <1>3 DEF SummariesInv

\* Every step keeps the invariant, unless it interrupts an upgrade.
LEMMA StepSummariesInv == SummariesInv /\ [Steady]_vars => SummariesInv'
<1> SUFFICES ASSUME SummariesInv, [Steady]_vars
             PROVE  SummariesInv'
  OBVIOUS
<1>1. CASE UNCHANGED vars
  <2>1. TypeOK' /\ FirstInv' /\ RightInv' /\ LifeInv'
    BY <1>1 DEF SummariesInv, TypeOK, FirstInv, RightInv, LifeInv, vars, durable, paging
  <2>2. SinceInv' /\ LimitInv'
    BY <1>1 DEF SummariesInv, SinceInv, LimitInv, Small, vars, durable, paging
  <2> QED BY <2>1, <2>2 DEF SummariesInv
<1>2. CASE Open \/ QueueAll \/ Crash
  BY <1>2, ProcessSteps
<1>3. CASE Change \/ SetLibraryLimit
  BY <1>3, RequestSteps
<1>4. CASE \E r \in Readers : Ask(r)
  BY <1>4, RequestSteps
<1>5. ASSUME NEW p \in Procs, Proceed(p)
      PROVE  SummariesInv'
  BY <1>5, RefreshSteps, RequestSteps DEF Proceed
<1>6. CASE \E p \in Procs : RequestFails(p)
  BY <1>6, RefreshSteps
<1> QED BY <1>1, <1>2, <1>3, <1>4, <1>5, <1>6 DEF Steady

\* It holds throughout.
LEMMA AlwaysSummariesInv == SteadySpec => []SummariesInv
BY InitSummariesInv, StepSummariesInv, PTL DEF SteadySpec

\* Every variable keeps its type.
THEOREM SummariesTypes == SteadySpec => []TypeOK
<1>1. SummariesInv => TypeOK
  BY DEF SummariesInv
<1> QED BY <1>1, AlwaysSummariesInv, PTL

\* Whatever changes between the steps of refreshes and wherever they stop, a row that is not marked
\* is what a recount would give, unless an upgrade is interrupted.
THEOREM RowsAreRight == SteadySpec => []UnmarkedAreRight
<1>1. SummariesInv => UnmarkedAreRight
  BY DEF SummariesInv, RightInv, LifeInv, UnmarkedAreRight
<1> QED BY <1>1, AlwaysSummariesInv, PTL

\* A read shows no row that was not right at some moment since its request.
THEOREM ReadsSeeTheirPast == SteadySpec => ReadsAreRecent
<1>1. SummariesInv /\ [Steady]_vars =>
        [\A r \in Readers : Read(r) => \A e \in Exts : summaries[e] \in since[r][e]]_vars
  BY DEF SummariesInv, SinceInv, Read
<1> QED BY <1>1, AlwaysSummariesInv, PTL DEF SteadySpec, ReadsAreRecent

\* A library limit that is answered holds for every extension that follows it.
THEOREM LimitsAreApplied == SteadySpec => []LimitApplied
<1>1. SummariesInv => LimitApplied
  BY DEF SummariesInv, LimitInv, LimitApplied, Small
<1> QED BY <1>1, AlwaysSummariesInv, PTL
=============================================================================
