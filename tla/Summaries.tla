----------------------------- MODULE Summaries -----------------------------
(***************************************************************************)
(* The summaries of extensions (internal/store/store.go): a row of totals  *)
(* for each, that triggers only mark as stale when a package changes and   *)
(* that requests refresh before they read.  The webpage reads them, and a  *)
(* library limit trusts them to name every extension that it must trim.    *)
(*                                                                         *)
(* One action is one transaction or one statement.  Open is here too, as   *)
(* an upgrade begins with packages and no summaries.                       *)
(***************************************************************************)
EXTENDS VersionLimit

CONSTANTS
  Exts,        \* extension IDs; numbers, in the order of the text
  Keys,        \* package keys
  ExtOf,       \* the extension of a key
  VersionOf,   \* the version of a key
  Written,     \* the statuses that changes give to packages
  Starts,      \* what the packages may be to begin with
  Own,         \* extensions with a limit of their own (table limits)
  Limits,      \* library limits that operators set
  Readers,     \* requests that read totals or a catalog page
  Limiter,     \* the request that sets the library limit
  Batch,       \* rows selected at a time; 1000 in the code
  MaxChanges,  \* bound on changes of packages by others
  None

Statuses == {"stored", "missing", "pending", "conflict", "deleted"}
Procs == Readers \cup {Limiter}

ASSUME SummariesAssumption ==
  /\ Exts \subseteq Nat \ {0} /\ IsFiniteSet(Exts)
  /\ IsFiniteSet(Keys)
  /\ ExtOf \in [Keys -> Exts]
  /\ VersionOf \in [Keys -> Versions]
  /\ Written \subseteq Statuses
  /\ Starts \subseteq [Keys -> Statuses \cup {None}]
  /\ Own \subseteq Exts
  /\ Limits \subseteq Nat
  /\ Limiter \notin Readers
  /\ Batch \in Nat \ {0}
  /\ MaxChanges \in Nat
  /\ None \notin Statuses \cup Procs

VARIABLES
  \* Durable.
  packages,    \* the status of each key's record, None without one
  summaries,   \* each extension's row
  dirty,       \* table summary_dirty
  marked,      \* meta 'summaries': the summaries have been queued for a first time
  keep,        \* meta 'keep': the library's limit
  \* The process.
  life,        \* down, up, or Open between its two statements
  pc,          \* the step of each request
  batch,       \* the extensions that a refresh has selected
  refresh,     \* who holds the mutex refresh
  publish,     \* Limiter holds publishMu
  page,        \* extensions that ExtensionsOver has selected and not yet handed on
  after,       \* the last extension of the page before
  \* Of the model.
  changes,     \* changes so far
  since        \* history: what a recount would have given since a reader asked

durable == <<packages, summaries, dirty, marked, keep>>
paging == <<page, after>>
vars == <<durable, life, pc, batch, refresh, publish, paging, changes, since>>

-----------------------------------------------------------------------------
(* What a row says.                                                        *)

RecordsOf(pkgs, e) == {k \in Keys : ExtOf[k] = e /\ pkgs[k] # None}
WithStatus(pkgs, e, S) == {k \in RecordsOf(pkgs, e) : pkgs[k] \in S}
VersionsIn(ks) == {VersionOf[k] : k \in ks}
Live(pkgs, e) == WithStatus(pkgs, e, Statuses \ {"deleted"})
NewestOf(vs) == CHOOSE v \in vs : \A w \in vs : Rank[w] <= Rank[v]

\* An extension without a row counts nothing, and has no latest version.
NoRow == [latest |-> None, versions |-> 0, storedVersions |-> 0, counts |-> [s \in Statuses |-> 0]]

\* summary.add over an extension's records: the latest version is the newest one that is not
\* deleted, or the newest deleted one if all are.
Recount(pkgs, e) ==
  IF RecordsOf(pkgs, e) = {} THEN NoRow
  ELSE [latest |-> NewestOf(VersionsIn(IF Live(pkgs, e) # {} THEN Live(pkgs, e)
                                       ELSE RecordsOf(pkgs, e))),
        versions |-> Cardinality(VersionsIn(Live(pkgs, e))),
        storedVersions |-> Cardinality(VersionsIn(WithStatus(pkgs, e, {"stored"}))),
        counts |-> [s \in Statuses |-> Cardinality(WithStatus(pkgs, e, {s}))]]

\* The three triggers on packages.
Marked(ks) == dirty \cup {ExtOf[k] : k \in ks}

\* What a commit adds to the history of the readers that are under way.
Noted(pkgs) ==
  [r \in Readers |-> IF pc[r] = "idle" THEN since[r]
                     ELSE [e \in Exts |-> since[r][e] \cup {Recount(pkgs, e)}]]

-----------------------------------------------------------------------------
(* Open.                                                                   *)

\* INSERT OR IGNORE of the mark, committed by itself.
Open ==
  /\ life = "down"
  /\ marked' = TRUE
  /\ life' = IF marked THEN "up" ELSE "queue"
  /\ UNCHANGED <<packages, summaries, dirty, keep, pc, batch, refresh, publish, paging, changes, since>>

\* The second statement: every extension is stale.
QueueAll ==
  /\ life = "queue"
  /\ dirty' = Marked({k \in Keys : packages[k] # None})
  /\ life' = "up"
  /\ UNCHANGED <<packages, summaries, marked, keep, pc, batch, refresh, publish, paging, changes, since>>

\* The process dies, or Open fails and New with it.
Die ==
  /\ life' = "down"
  /\ pc' = [p \in Procs |-> "idle"]
  /\ batch' = [p \in Procs |-> {}]
  /\ refresh' = None
  /\ publish' = None
  /\ page' = {}
  /\ after' = 0
  /\ since' = [r \in Readers |-> [e \in Exts |-> {}]]
  /\ UNCHANGED <<durable, changes>>

Crash == life = "up" /\ Die

\* Between the two statements.
CrashInUpgrade == life = "queue" /\ Die

-----------------------------------------------------------------------------
(* RefreshSummaries, by any of the requests that call it.                  *)

Goto(p, step) == pc' = [pc EXCEPT ![p] = step]

CheckTaken(p) ==   \* mutant: another refresh is taken to be as good
  /\ pc[p] = "check"
  /\ Goto(p, IF dirty = {} \/ refresh # None THEN "read" ELSE "refresh")
  /\ UNCHANGED <<durable, life, batch, refresh, publish, paging, changes, since>>
\* The check that spares most calls the mutex.
Check(p) ==
  /\ pc[p] = "check"
  /\ Goto(p, IF dirty = {} THEN "read" ELSE "refresh")
  /\ UNCHANGED <<durable, life, batch, refresh, publish, paging, changes, since>>

LockRefreshOther(p) ==   \* mutant: it is the wrong mutex
  /\ pc[p] = "refresh"
  /\ publish = None
  /\ publish' = p
  /\ Goto(p, "select")
  /\ UNCHANGED <<durable, life, batch, refresh, paging, changes, since>>
LockRefresh(p) ==
  /\ pc[p] = "refresh"
  /\ refresh = None
  /\ refresh' = p
  /\ Goto(p, "select")
  /\ UNCHANGED <<durable, life, batch, publish, paging, changes, since>>

\* The selection is a statement of its own: packages may change before the recount.
Select(p) ==
  /\ pc[p] = "select"
  /\ dirty # {}
  /\ \E S \in SUBSET dirty :
       /\ Cardinality(S) <= Batch
       /\ S = dirty \/ Cardinality(S) = Batch
       /\ batch' = [batch EXCEPT ![p] = S]
  /\ Goto(p, "recount")
  /\ UNCHANGED <<durable, life, refresh, publish, paging, changes, since>>

Refreshed(p) ==
  /\ pc[p] = "select"
  /\ dirty = {}
  /\ refresh' = None
  /\ Goto(p, "read")
  /\ UNCHANGED <<durable, life, batch, publish, paging, changes, since>>

RecountAll(p) ==   \* mutant: every mark is taken off, those of later changes too
  /\ pc[p] = "recount"
  /\ summaries' = [e \in Exts |-> IF e \in batch[p] THEN Recount(packages, e) ELSE summaries[e]]
  /\ dirty' = {}
  /\ batch' = [batch EXCEPT ![p] = {}]
  /\ Goto(p, "select")
  /\ UNCHANGED <<packages, marked, keep, life, refresh, publish, paging, changes, since>>
RecountForever(p) ==   \* mutant: the marks stay
  /\ pc[p] = "recount"
  /\ summaries' = [e \in Exts |-> IF e \in batch[p] THEN Recount(packages, e) ELSE summaries[e]]
  /\ dirty' = dirty
  /\ batch' = [batch EXCEPT ![p] = {}]
  /\ Goto(p, "select")
  /\ UNCHANGED <<packages, marked, keep, life, refresh, publish, paging, changes, since>>
RecountBatch(p) ==
  /\ pc[p] = "recount"
  /\ summaries' = [e \in Exts |-> IF e \in batch[p] THEN Recount(packages, e) ELSE summaries[e]]
  /\ dirty' = dirty \ batch[p]
  /\ batch' = [batch EXCEPT ![p] = {}]
  /\ Goto(p, "select")
  /\ UNCHANGED <<packages, marked, keep, life, refresh, publish, paging, changes, since>>

\* Any statement fails: 500, and every lock is released.
RequestFails(p) ==
  /\ pc[p] \notin {"idle", "answer"}
  /\ Goto(p, "idle")
  /\ batch' = [batch EXCEPT ![p] = {}]
  /\ refresh' = IF refresh = p THEN None ELSE refresh
  /\ publish' = IF p = Limiter THEN None ELSE publish
  /\ page' = IF p = Limiter THEN {} ELSE page
  /\ after' = IF p = Limiter THEN 0 ELSE after
  /\ since' = [r \in Readers |-> IF r = p THEN [e \in Exts |-> {}] ELSE since[r]]
  /\ UNCHANGED <<durable, life, changes>>

-----------------------------------------------------------------------------
(* Requests.                                                               *)

\* GET /status, a catalog page, or the refresh after the startup scan.
Ask(r) ==
  /\ life = "up"
  /\ pc[r] = "idle"
  /\ since' = [since EXCEPT ![r] = [e \in Exts |-> {Recount(packages, e)}]]
  /\ Goto(r, "check")
  /\ UNCHANGED <<durable, life, batch, refresh, publish, paging, changes>>

\* Totals, or the rows of a catalog page: one statement over all summaries.
Read(r) ==
  /\ pc[r] = "read"
  /\ since' = [since EXCEPT ![r] = [e \in Exts |-> {}]]
  /\ Goto(r, "idle")
  /\ UNCHANGED <<durable, life, batch, refresh, publish, paging, changes>>

\* An upload, a deletion, an extension's limit or a scan writes a package, with publishMu held.
Change ==
  /\ life = "up"
  /\ publish = None
  /\ changes < MaxChanges
  /\ changes' = changes + 1
  /\ \E k \in Keys, s \in Written :
       /\ packages' = [packages EXCEPT ![k] = s]
       /\ dirty' = Marked({k})
  /\ since' = Noted(packages')
  /\ UNCHANGED <<summaries, marked, keep, life, pc, batch, refresh, publish, paging>>

SetLibraryLimitStale ==   \* mutant: stale rows are read as they are
  /\ life = "up"
  /\ pc[Limiter] = "idle"
  /\ \E n \in Limits :
       /\ keep' = n
       /\ publish' = IF n > 0 THEN Limiter ELSE None
       /\ Goto(Limiter, IF n > 0 THEN "read" ELSE "idle")
  /\ UNCHANGED <<packages, summaries, dirty, marked, life, batch, refresh, paging, changes, since>>
\* setLibraryLimit, which holds publishMu to its end.
SetLibraryLimit ==
  /\ life = "up"
  /\ pc[Limiter] = "idle"
  /\ \E n \in Limits :
       /\ keep' = n
       /\ publish' = IF n > 0 THEN Limiter ELSE None
       /\ Goto(Limiter, IF n > 0 THEN "check" ELSE "idle")
  /\ UNCHANGED <<packages, summaries, dirty, marked, life, batch, refresh, paging, changes, since>>

\* The extensions past after that follow the library's limit and exceed it.
Over ==
  {e \in Exts \ Own : e > after /\ summaries[e].versions > keep}

\* ExtensionsOver selects a page, or has seen all of them.
SelectPage ==
  /\ pc[Limiter] = "read"
  /\ page' = {e \in Over : Cardinality({x \in Over : x < e}) < Batch}
  /\ Goto(Limiter, IF Over = {} THEN "answer" ELSE "trim")
  /\ UNCHANGED <<durable, life, batch, refresh, publish, after, changes, since>>

Beyond(e) ==
  {k \in Live(packages, e) : VersionOf[k] \in Cut(VersionsIn(Live(packages, e)), keep)}

\* The packages are read afresh; those beyond the limit are recorded as deleted.
TrimNext ==
  /\ pc[Limiter] = "trim"
  /\ \E e \in page :
         /\ \A x \in page : e <= x
         /\ packages' = [k \in Keys |-> IF k \in Beyond(e) THEN "deleted" ELSE packages[k]]
         /\ dirty' = Marked(Beyond(e))
         /\ page' = page \ {e}
         /\ after' = IF page = {e} THEN e ELSE after
         /\ Goto(Limiter, IF page = {e} THEN "read" ELSE "trim")
  /\ since' = Noted(packages')
  /\ UNCHANGED <<summaries, marked, keep, life, batch, refresh, publish, changes>>

\* 200, and publishMu is free.
Answer ==
  /\ pc[Limiter] = "answer"
  /\ publish' = None
  /\ after' = 0
  /\ Goto(Limiter, "idle")
  /\ UNCHANGED <<durable, life, batch, refresh, page, changes, since>>

-----------------------------------------------------------------------------
\* A database that a manager without summaries has left, or one with them.
Init ==
  /\ packages \in Starts
  /\ marked \in BOOLEAN
  /\ summaries = [e \in Exts |-> IF marked THEN Recount(packages, e) ELSE NoRow]
  /\ dirty = {}
  /\ keep = 0
  /\ life = "down"
  /\ pc = [p \in Procs |-> "idle"]
  /\ batch = [p \in Procs |-> {}]
  /\ refresh = None
  /\ publish = None
  /\ page = {}
  /\ after = 0
  /\ changes = 0
  /\ since = [r \in Readers |-> [e \in Exts |-> {}]]

\* The next step of a request, short of a failure.
Proceed(p) ==
  \/ Check(p) \/ LockRefresh(p) \/ Select(p) \/ Refreshed(p) \/ RecountBatch(p)
  \/ p \in Readers /\ Read(p)
  \/ p = Limiter /\ (SelectPage \/ TrimNext \/ Answer)

Steady ==
  \/ Open \/ QueueAll \/ Crash
  \/ Change \/ SetLibraryLimit
  \/ \E r \in Readers : Ask(r)
  \/ \E p \in Procs : Proceed(p) \/ RequestFails(p)

Next == Steady \/ CrashInUpgrade

\* Requests go on while they can; a mutex is served in order, so that the fairness is strong.
Fairness == \A p \in Procs : SF_vars(Proceed(p))

\* Every interruption, and all but the one of an upgrade.
Spec == Init /\ [][Next]_vars /\ Fairness
SteadySpec == Init /\ [][Steady]_vars /\ Fairness

-----------------------------------------------------------------------------
(* Properties.                                                             *)

Rows == {Recount(pkgs, e) : pkgs \in [Keys -> Statuses \cup {None}], e \in Exts}

TypeOK ==
  /\ packages \in [Keys -> Statuses \cup {None}]
  /\ DOMAIN summaries = Exts
  /\ dirty \subseteq Exts
  /\ marked \in BOOLEAN
  /\ keep \in Nat
  /\ life \in {"down", "queue", "up"}
  /\ pc \in [Procs -> {"idle", "check", "refresh", "select", "recount", "read", "trim", "answer"}]
  /\ batch \in [Procs -> SUBSET Exts]
  /\ refresh \in Procs \cup {None}
  /\ publish \in {Limiter, None}
  /\ page \subseteq Exts
  /\ after \in Exts \cup {0}
  /\ changes \in 0 .. MaxChanges
  /\ since \in [Readers -> [Exts -> SUBSET Rows]]

\* A served row that is not marked stale is what a recount would give, whatever changes between the
\* steps of a refresh and wherever a refresh stops (store.go:83, 561); and an upgrade summarizes
\* every extension once (store.go:73).
UnmarkedAreRight ==
  life = "up" => \A e \in Exts \ dirty : summaries[e] = Recount(packages, e)

\* Every row that a request reads was right at some moment since it asked: the request sees what
\* was stored before it, though another one may be refreshing (store.go:564, 567).
ReadsAreRecent ==
  [][\A r \in Readers : Read(r) => \A e \in Exts : summaries[e] \in since[r][e]]_vars

\* A library limit that is answered with 200 holds for every extension that follows it: stale rows
\* hide none from ExtensionsOver, nor do pages that are selected while rows go stale (store.go:246).
LimitApplied ==
  pc[Limiter] = "answer" =>
    \A e \in Exts \ Own : Cardinality(VersionsIn(Live(packages, e))) <= keep

\* Refreshes end once changes do, whoever waits for the mutex.
RequestsEnd == \A p \in Procs : []<>(pc[p] = "idle")
=============================================================================
