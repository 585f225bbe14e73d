------------------------ MODULE InventoryUploadProofs ------------------------
(***************************************************************************)
(* Proofs of what an upload is answerable for, for every set of packages,  *)
(* names and limits, whatever is done to the directory: only an upload     *)
(* brings a deleted version back, and its receipt names what is stored.    *)
(***************************************************************************)
EXTENDS InventoryProofs

-----------------------------------------------------------------------------
(* Deleted versions.                                                       *)

KeepsDeleted(k) == packages'[k].status = "deleted" \/ job' = "upload"

\* A deleted record stays deleted, unless an upload begins. (The record that an upload goes on to
\* publish is pending by then.)
LEMMA StepDeleted ==
  ASSUME TypeInv, [AnyNext]_vars, NEW k \in Keys, Recorded(k), packages[k].status = "deleted"
  PROVE  KeepsDeleted(k)
<1> USE InventoryAssumption DEF TypeInv, KeepsDeleted
<1>1. ASSUME UNCHANGED packages
      PROVE  KeepsDeleted(k)
  BY <1>1
<1>2. ASSUME NEW targets, NEW by \in Actors, MarkDeleted(targets, by)
      PROVE  KeepsDeleted(k)
  BY <1>2 DEF MarkDeleted, As
<1>3. CASE UploadNext
  <2>1. CASE Publish
    <3>1. KeyOf[cur] # k
      BY <2>1 DEF Publish, UploadInv
    <3>2. packages'[k] = packages[k]
      BY <2>1, <3>1 DEF Publish, PublishRecord, TypeOK
    <3> QED BY <3>2
  <2>2. ASSUME NEW c \in Offered, NEW i \in IdemKeys \cup {None}, Journal(c, i) \/ Duplicate(c, i)
        PROVE  KeepsDeleted(k)
    BY <2>2 DEF Journal, Duplicate, StartUpload
  <2> QED BY <1>1, <1>3, <2>1, <2>2 DEF UploadNext, Link, Flush, Receipt
<1>4. CASE DeleteNext
  BY <1>1, <1>2, <1>4 DEF DeleteNext, DeleteVersions, Unlink, ForgetFiles, Actors
<1>5. CASE LimitNext
  BY <1>1, <1>2, <1>5 DEF LimitNext, SetLibraryLimit, SetExtensionLimit, Trim, Actors
<1>6. ASSUME NEW n \in Names, VerifyRead(n)
      PROVE  KeepsDeleted(k)
  <2> DEFINE sha == ShaOf(disk[n].bytes)
             x == KeyOf[sha]
  <2>1. CASE sha = None
    BY <1>1, <1>6, <2>1 DEF VerifyRead
  <2>2. CASE sha # None
    <3>1. sha \in Contents /\ x \in Keys /\ packages' = Inventoried(x, n, sha)
      BY <1>6, <2>2 DEF VerifyRead, ShaOf
    <3>2. CASE x # k
      BY <3>1, <3>2 DEF Inventoried
    <3>3. CASE x = k
      BY <3>1, <3>3 DEF Inventoried, As, TypeOK
    <3> QED BY <3>2, <3>3
  <2> QED BY <2>1, <2>2
<1>7. ASSUME NEW x \in Keys, SettleLive(x)
      PROVE  KeepsDeleted(k)
  <2>1. x # k
    BY <1>7 DEF SettleLive, Live
  <2> QED BY <1>7, <2>1 DEF SettleLive
<1>8. CASE ScanNext
  BY <1>1, <1>6, <1>7, <1>8
     DEF ScanNext, ScanFull, ScanRoutine, ScanAdopt, StartScan, VerifyUnread, DropVanished,
         SettleDeleted, SettleFails, SettleEnd, durable
<1>9. CASE Finish \/ Fail \/ Crash \/ PowerLoss \/ Restart \/ UNCHANGED vars
  BY <1>1, <1>9 DEF Finish, Fail, Crash, PowerLoss, Restart, vars, durable
<1>10. CASE ManualNext \/ StealthNext \/ FaultNext
  BY <1>1, <1>10
     DEF ManualNext, ManualChange, ManualDelete, StealthNext, StealthEdit, Edit,
         FaultNext, VerifyUnreadable
<1> QED BY <1>3, <1>4, <1>5, <1>8, <1>9, <1>10 DEF AnyNext, Next

\* Whatever is found in the directory, no scan, crash, trim or failed deletion brings a deleted
\* version back: only an upload of its bytes does.
THEOREM DeletedVersionsStay == OpenSpec => DeletedStays
<1>1. TypeInv /\ [AnyNext]_vars =>
        \A k \in Keys : Recorded(k) /\ packages[k].status = "deleted" =>
          packages'[k].status = "deleted" \/ job' = "upload"
  BY StepDeleted DEF KeepsDeleted
<1>2. Next \/ ManualNext \/ StealthNext => AnyNext
  BY DEF AnyNext
<1> QED BY <1>1, <1>2, InitTypeInv, StepTypeInv, PTL DEF OpenSpec, DeletedStays

-----------------------------------------------------------------------------
(* Receipts.                                                               *)

\* An upload's idempotency key is free, or has its receipt already; from Receipt on it has.
ReceiptInv ==
  /\ pc \in {"walk", "settle"} => job \in Scans
  /\ pc \in {"link", "flush", "publish", "receipt"} /\ idem # None => receipts[idem] \in {None, cur}
  /\ pc \in {"trim", "unlink"} /\ job = "upload" /\ idem # None => receipts[idem] = cur

\* Initially there is no upload.
LEMMA InitReceiptInv == Init => ReceiptInv
BY DEF Init, InitOver, ReceiptInv

\* Only the admission of an upload and its Receipt have to do with it.
LEMMA StepReceiptInv ==
  ASSUME TypeInv, ReceiptInv, [AnyNext]_vars
  PROVE  ReceiptInv'
<1> USE InventoryAssumption DEF ReceiptInv
<1>1. CASE UploadNext
  <2>1. ASSUME NEW c \in Offered, NEW i \in IdemKeys \cup {None}, Journal(c, i) \/ Duplicate(c, i)
        PROVE  ReceiptInv'
    BY <2>1 DEF Journal, Duplicate, StartUpload, Admitted
  <2>2. CASE Link \/ Flush \/ Publish
    BY <2>2 DEF Link, Flush, Publish
  <2>3. CASE Receipt
    BY <2>3 DEF Receipt, TypeInv, TypeOK
  <2> QED BY <1>1, <2>1, <2>2, <2>3 DEF UploadNext
<1>2. CASE DeleteNext
  BY <1>2 DEF DeleteNext, DeleteVersions, MarkDeleted, Unlink, ForgetFiles
<1>3. CASE LimitNext
  BY <1>3 DEF LimitNext, SetLibraryLimit, SetExtensionLimit, Trim, MarkDeleted
<1>4. CASE ScanNext
  <2>1. ASSUME NEW mode \in Scans, StartScan(mode)
        PROVE  ReceiptInv'
    BY <2>1 DEF StartScan
  <2>2. CASE ScanFull \/ ScanRoutine \/ ScanAdopt
    BY <2>1, <2>2 DEF ScanFull, ScanRoutine, ScanAdopt, Scans
  <2>3. ASSUME NEW n \in Names, VerifyUnread(n) \/ VerifyRead(n)
        PROVE  ReceiptInv'
    BY <2>3 DEF VerifyUnread, VerifyRead, Listed
  <2>4. CASE DropVanished \/ SettleEnd
    BY <2>4 DEF DropVanished, SettleEnd, durable, Scans
  <2>5. ASSUME NEW k \in Keys, SettleLive(k) \/ SettleDeleted(k)
        PROVE  ReceiptInv'
    BY <2>5 DEF SettleLive, SettleDeleted, SettleStep
  <2>6. CASE SettleFails
    BY <2>6 DEF SettleFails, Abandon, Release
  <2> QED BY <1>4, <2>2, <2>3, <2>4, <2>5, <2>6 DEF ScanNext
<1>5. CASE Finish \/ Fail \/ Crash \/ PowerLoss \/ Restart \/ UNCHANGED vars
  BY <1>5 DEF Finish, Fail, Abandon, Crash, PowerLoss, Release, Restart, vars, durable, volatile
<1>6. CASE ManualNext \/ StealthNext \/ FaultNext
  BY <1>6
     DEF ManualNext, ManualChange, ManualDelete, StealthNext, StealthEdit, Edit, volatile,
         FaultNext, VerifyUnreadable, Listed
<1> QED BY <1>1, <1>2, <1>3, <1>4, <1>5, <1>6 DEF AnyNext, Next

\* A step that writes a receipt is an upload's, of what it has published.
LEMMA StepReceipts ==
  ASSUME TypeInv, ReceiptInv, [AnyNext]_vars, NEW i \in IdemKeys
  PROVE  /\ receipts'[i] # receipts[i] =>
              /\ receipts[i] = None
              /\ packages[KeyOf[receipts'[i]]].status = "stored"
              /\ packages[KeyOf[receipts'[i]]].sha = receipts'[i]
         /\ job = "upload" /\ idem = i /\ Finish => receipts[i] = cur
<1> USE InventoryAssumption DEF TypeInv
<1>1. job = "upload" /\ idem = i /\ Finish => receipts[i] = cur
  BY DEF Finish, ReceiptInv
<1>2. CASE Receipt
  <2>1. packages[KeyOf[cur]].status = "stored" /\ packages[KeyOf[cur]].sha = cur
    BY <1>2 DEF Receipt, UploadInv
  <2>2. receipts'[i] # receipts[i] => receipts[i] = None /\ receipts'[i] = cur
    BY <1>2 DEF Receipt, TypeOK
  <2> QED BY <1>1, <2>1, <2>2
<1>3. CASE UNCHANGED receipts
  BY <1>1, <1>3
<1>4. UploadNext => Receipt \/ UNCHANGED receipts
  BY DEF UploadNext, Journal, Duplicate, Link, Flush, Publish
<1>5. DeleteNext \/ LimitNext => UNCHANGED receipts
  BY DEF DeleteNext, DeleteVersions, Unlink, ForgetFiles, LimitNext, SetLibraryLimit,
         SetExtensionLimit, Trim
<1>6. ScanNext => UNCHANGED receipts
  BY DEF ScanNext, ScanFull, ScanRoutine, ScanAdopt, StartScan, VerifyUnread, VerifyRead, Listed,
         DropVanished, SettleLive, SettleDeleted, SettleFails, SettleStep, SettleEnd, durable
<1>7. Finish \/ Fail \/ Crash \/ PowerLoss \/ Restart \/ UNCHANGED vars => UNCHANGED receipts
  BY DEF Finish, Fail, Crash, PowerLoss, Restart, vars, durable
<1>8. ManualNext \/ StealthNext \/ FaultNext => UNCHANGED receipts
  BY DEF ManualNext, ManualChange, ManualDelete, StealthNext, StealthEdit, Edit,
         FaultNext, VerifyUnreadable, Listed
<1> QED BY <1>2, <1>3, <1>4, <1>5, <1>6, <1>7, <1>8 DEF AnyNext, Next

\* Whatever is done to the directory, the first receipt under an idempotency key stands, it names
\* bytes that were stored when it was written, and an upload that succeeds has one of its own.
THEOREM ReceiptsAreKept == OpenSpec => ReceiptsStand
<1>1. TypeInv /\ ReceiptInv /\ [AnyNext]_vars =>
        \A i \in IdemKeys :
          /\ receipts'[i] # receipts[i] =>
               /\ receipts[i] = None
               /\ packages[KeyOf[receipts'[i]]].status = "stored"
               /\ packages[KeyOf[receipts'[i]]].sha = receipts'[i]
          /\ job = "upload" /\ idem = i /\ Finish => receipts[i] = cur
  BY StepReceipts
<1>2. Next \/ ManualNext \/ StealthNext => AnyNext
  BY DEF AnyNext
<1>3. TypeInv /\ ReceiptInv /\ [AnyNext]_vars => ReceiptInv'
  BY StepReceiptInv
<1> QED BY <1>1, <1>2, <1>3, InitTypeInv, StepTypeInv, InitReceiptInv, PTL
           DEF OpenSpec, ReceiptsStand
=============================================================================
