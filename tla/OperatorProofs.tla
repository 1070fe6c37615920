--------------------------- MODULE OperatorProofs ---------------------------
(***************************************************************************)
(* Theorems about Operator, for any number of Storages and                 *)
(* DatabaseBackups.                                                        *)
(*                                                                         *)
(* A step of one controller is a step of the module its own theorems are   *)
(* about, so the invariants of ResourceProofs and DatabaseBackupProofs are *)
(* taken over as they are, by INSTANCE. What is left is the one thing that *)
(* passes between the two: a storage ID that was once in the cached status *)
(* of the Storage. Such an ID is settled for good: either the record is    *)
(* gone, or the Storage is there and names it. And the ID of a config, of  *)
(* a request on its way and of the worker's own job is one of those,       *)
(* however long ago it was read.                                           *)
(***************************************************************************)
EXTENDS Operator, Sequences, TLAPS

SP == INSTANCE ResourceProofs WITH
    Names <- Storages, Specs <- StorageSpecs, MaxEdits <- MaxStorageEdits,
    Incomplete <- {}, NoRef <- StorageSpecs, OneRef <- {}, Ids <- StorageIds,
    Creds <- {}, OutOfBand <- FALSE,
    api <- sApi, cache <- sCache, pending <- sPending, queue <- sQueue,
    delayed <- sDelayed, edits <- sEdits, pc <- sPc, job <- sJob,
    used <- sUsed, late <- sLate, disturbed <- sDisturbed,
    secret <- sSecret, secretSeen <- sSecretSeen

DP == INSTANCE DatabaseBackupProofs WITH
    Names <- Backups, Specs <- BackupSpecs, MaxEdits <- MaxBackupEdits,
    Incomplete <- {}, Physical <- {}, Checked <- {}, Encrypted <- {},
    Ids <- DatabaseIds, DepIds <- StorageIds \cup {NotifierId},
    Creds <- {Cred}, OutOfBand <- FALSE, deps <- Seen,
    api <- dApi, cache <- dCache, pending <- dPending, queue <- dQueue,
    delayed <- dDelayed, edits <- dEdits, pc <- dPc, job <- dJob,
    used <- dUsed, late <- dLate, disturbed <- dDisturbed, secret <- dSecret

LEMMA SameStorageSteps == S!Next => SP!Next
  BY Zenon
  DEF S!Next, SP!Next, S!vars, SP!vars, S!User, SP!User, S!Manager, SP!Manager,
      S!DeliverSecret, SP!DeliverSecret, S!Start, SP!Start, S!Worker, SP!Worker,
      S!Environment, SP!Environment, S!kubeVars, SP!kubeVars, S!serverVars, SP!serverVars,
      S!secretVars, SP!secretVars, S!CreateObject, SP!CreateObject, S!NoStatus,
      SP!NoStatus, S!EditSpec, SP!EditSpec, S!DeleteObject, SP!DeleteObject, S!SetSecret,
      SP!SetSecret, S!DeliverEvent, SP!DeliverEvent, S!FireTimer, SP!FireTimer, S!Resync,
      SP!Resync, S!ReconcileGone, SP!ReconcileGone, S!ReconcileDeletion,
      SP!ReconcileDeletion, S!ReconcileUnprotected, SP!ReconcileUnprotected,
      S!ReconcileLive, SP!ReconcileLive, S!DeleteRemote, SP!DeleteRemote,
      S!RemoveFinalizer, SP!RemoveFinalizer, S!AddFinalizer, SP!AddFinalizer, S!ReadFirst,
      SP!ReadFirst, S!ReadSecond, SP!ReadSecond, S!SaveCreates, SP!SaveCreates,
      S!SaveReplaces, SP!SaveReplaces, S!SaveRejected, SP!SaveRejected, S!ReportFailed,
      SP!ReportFailed, S!ReportSynced, SP!ReportSynced, S!ServeLate, SP!ServeLate,
      S!RemoveOutOfBand, SP!RemoveOutOfBand, S!CallFails, SP!CallFails, S!KubeWriteFails,
      SP!KubeWriteFails, S!Restart, SP!Restart, S!Store, SP!Store, S!Begin, SP!Begin,
      S!Remove, SP!Remove, S!Goto, SP!Goto, S!Current, SP!Current, S!DropFinalizer,
      SP!DropFinalizer, S!Return, SP!Return, S!ReturnAndRetry, SP!ReturnAndRetry,
      S!StoreFinalizer, SP!StoreFinalizer, S!AfterFirst, SP!AfterFirst, S!FailWith,
      SP!FailWith, S!kubeButDelayed, SP!kubeButDelayed, S!Insert, SP!Insert, S!JobRow,
      SP!JobRow, S!RowOf, SP!RowOf, S!Replace, SP!Replace, S!StoreStatus, SP!StoreStatus,
      S!FailedStatus, SP!FailedStatus, S!SyncedStatus, SP!SyncedStatus, S!Fault, SP!Fault,
      S!NoJob, SP!NoJob, S!Relist, SP!Relist, S!NeverCreated, SP!NeverCreated

LEMMA SameBackupSteps == D!Next => DP!Next
  BY Zenon
  DEF D!Next, DP!Next, D!vars, DP!vars, D!User, DP!User, D!Manager, DP!Manager, D!Start,
      DP!Start, D!SetSecret, DP!SetSecret, D!Dependencies, DP!Dependencies, D!Worker,
      DP!Worker, D!Environment, DP!Environment, D!kubeVars, DP!kubeVars, D!serverVars,
      DP!serverVars, D!inputVars, DP!inputVars, D!CreateObject, DP!CreateObject,
      D!NoStatus, DP!NoStatus, D!EditSpec, DP!EditSpec, D!DeleteObject, DP!DeleteObject,
      D!DeliverEvent, DP!DeliverEvent, D!FireTimer, DP!FireTimer, D!Resync, DP!Resync,
      D!ReconcileGone, DP!ReconcileGone, D!ReconcileDeletion, DP!ReconcileDeletion,
      D!ReconcileUnprotected, DP!ReconcileUnprotected, D!ReconcileLive, DP!ReconcileLive,
      D!Kinds, DP!Kinds, D!DependencySyncs, DP!DependencySyncs, D!DependencyBreaks,
      DP!DependencyBreaks, D!DependencyGone, DP!DependencyGone, D!DeleteRemote,
      DP!DeleteRemote, D!RemoveFinalizer, DP!RemoveFinalizer, D!AddFinalizer,
      DP!AddFinalizer, D!ResolveStorage, DP!ResolveStorage, D!ResolveNotifier,
      DP!ResolveNotifier, D!ReadPassword, DP!ReadPassword, D!ReadSsl, DP!ReadSsl,
      D!CreateDatabase, DP!CreateDatabase, D!UpdateDatabase, DP!UpdateDatabase,
      D!SaveBackupConfig, DP!SaveBackupConfig, D!SaveHealthcheckConfig,
      DP!SaveHealthcheckConfig, D!SaveRejected, DP!SaveRejected, D!Refresh, DP!Refresh,
      D!ReportFailed, DP!ReportFailed, D!ReportSynced, DP!ReportSynced, D!ServeLate,
      DP!ServeLate, D!Healths, DP!Healths, D!Probe, DP!Probe, D!RemoveOutOfBand,
      DP!RemoveOutOfBand, D!CallFails, DP!CallFails, D!KubeWriteFails, DP!KubeWriteFails,
      D!Restart, DP!Restart, D!Store, DP!Store, D!Begin, DP!Begin, D!Remove, DP!Remove,
      D!Goto, DP!Goto, D!Current, DP!Current, D!DropFinalizer, DP!DropFinalizer, D!Return,
      DP!Return, D!ReturnAndRetry, DP!ReturnAndRetry, D!StoreFinalizer, DP!StoreFinalizer,
      D!Usable, DP!Usable, D!Continue, DP!Continue, D!FailWith, DP!FailWith,
      D!kubeButDelayed, DP!kubeButDelayed, D!Insert, DP!Insert, D!JobContent,
      DP!JobContent, D!Push, DP!Push, D!AfterConfig, DP!AfterConfig, D!DatabaseOf,
      DP!DatabaseOf, D!FailureOf, DP!FailureOf, D!Fault, DP!Fault, D!StoreStatus,
      DP!StoreStatus, D!FailedStatus, DP!FailedStatus, D!AfterFailure, DP!AfterFailure,
      D!SyncedStatus, DP!SyncedStatus, D!Apply, DP!Apply, D!Rewrite, DP!Rewrite, D!Parts,
      DP!Parts, D!JobRequest, DP!JobRequest, D!OpOf, DP!OpOf, D!NoJob, DP!NoJob, D!Relist,
      DP!Relist, D!JobConfig, DP!JobConfig, D!NeverCreated, DP!NeverCreated

\* The assumptions of both controllers' modules hold of their instances.
LEMMA StorageAssumptions == SP!KubeAssumption /\ SP!ResourceAssumption
  BY OperatorAssumption

LEMMA BackupAssumptions == DP!KubeAssumption /\ DP!DatabaseBackupAssumption
  BY OperatorAssumption

(***************************************************************************)
(* The initial state.                                                      *)
(***************************************************************************)
\* The objects at rest, what is known of them and what databasus holds.
LEMMA AtRest ==
    ASSUME Init
    PROVE  \E sid \in OneEach(Storages, StorageIds), ss \in [Storages -> StorageSpecs] :
              /\ sApi = [n \in Storages |-> Synced(ss[n], [S!NoStatus EXCEPT !.id = sid[n]])]
              /\ rows = {[id |-> sid[n], owner |-> n, spec |-> ss[n],
                          first |-> NoCred, second |-> NoCred] : n \in Storages}
              /\ sUsed = {sid[n] : n \in Storages}
<1> DEFINE sid == CHOOSE f \in OneEach(Storages, StorageIds) : TRUE
           ss == CHOOSE f \in [Storages -> StorageSpecs] : TRUE
<1>1. sid \in OneEach(Storages, StorageIds)
  BY OperatorAssumption
<1>2. ss \in [Storages -> StorageSpecs]
  <2>1. PICK s : s \in StorageSpecs
    BY OperatorAssumption
  <2>2. [n \in Storages |-> s] \in [Storages -> StorageSpecs]
    BY <2>1
  <2> QED
    BY <2>2
<1>3. /\ sApi = [n \in Storages |-> Synced(ss[n], [S!NoStatus EXCEPT !.id = sid[n]])]
      /\ rows = {[id |-> sid[n], owner |-> n, spec |-> ss[n],
                  first |-> NoCred, second |-> NoCred] : n \in Storages}
      /\ sUsed = {sid[n] : n \in Storages}
  BY DEF Init
<1> HIDE DEF sid, ss
<1> QED
  BY <1>1, <1>2, <1>3

LEMMA SyncedStatus ==
    ASSUME NEW id \in StorageIds, NEW t,
           t = [[S!NoStatus EXCEPT !.id = id] EXCEPT !.reason = "Synced", !.condGen = 1, !.obsGen = 1]
    PROVE  t \in SP!Status /\ t.id = id /\ t.reason = "Synced" /\ t.obsGen = 1
<1>1. S!NoStatus \in SP!Status
  BY DEF S!NoStatus, SP!Status, SP!Reasons
<1>2. ASSUME NEW u \in SP!Status
      PROVE  [u EXCEPT !.id = id] \in SP!Status /\ [u EXCEPT !.id = id].id = id
  BY DEF SP!Status
<1>3. ASSUME NEW u \in SP!Status, NEW v, v = [u EXCEPT !.reason = "Synced", !.condGen = 1, !.obsGen = 1]
      PROVE  v \in SP!Status /\ v.id = u.id /\ v.reason = "Synced" /\ v.obsGen = 1
  BY <1>3 DEF SP!Status, SP!Reasons
<1> DEFINE n == [S!NoStatus EXCEPT !.id = id]
<1>4. n \in SP!Status /\ n.id = id
  BY <1>1, <1>2
<1>5. t = [n EXCEPT !.reason = "Synced", !.condGen = 1, !.obsGen = 1]
  OBVIOUS
<1> HIDE DEF n
<1> QED
  BY <1>3, <1>4, <1>5

LEMMA SyncedObject ==
    ASSUME NEW s \in StorageSpecs, NEW t \in SP!Status
    PROVE  [exists |-> TRUE, rv |-> 3, gen |-> 1, spec |-> s, deleting |-> FALSE,
            finalizer |-> TRUE, status |-> t] \in SP!Object
  BY DEF SP!Object, SP!ObjectsWith

LEMMA SyncedFields ==
    ASSUME NEW s \in StorageSpecs, NEW id \in StorageIds,
           NEW o, o = Synced(s, [S!NoStatus EXCEPT !.id = id])
    PROVE  /\ o \in SP!Object
           /\ o.exists /\ ~o.deleting /\ o.finalizer /\ o.rv = 3 /\ o.gen = 1 /\ o.spec = s
           /\ o.status.id = id /\ o.status.reason = "Synced" /\ o.status.obsGen = 1
<1> DEFINE t == [[S!NoStatus EXCEPT !.id = id] EXCEPT !.reason = "Synced", !.condGen = 1, !.obsGen = 1]
<1>1. t \in SP!Status
  BY SyncedStatus
<1>2. t.id = id /\ t.reason = "Synced" /\ t.obsGen = 1
  BY SyncedStatus
<1>3. o = [exists |-> TRUE, rv |-> 3, gen |-> 1, spec |-> s, deleting |-> FALSE,
           finalizer |-> TRUE, status |-> t]
  BY Zenon DEF Synced
<1> HIDE DEF t
<1>4. o \in SP!Object
  BY <1>1, <1>3, SyncedObject, Zenon
<1>5. /\ o.exists /\ ~o.deleting /\ o.finalizer /\ o.rv = 3 /\ o.gen = 1 /\ o.spec = s
      /\ o.status = t
  BY <1>3
<1> QED
  BY <1>2, <1>4, <1>5

\* A controller at rest knows of every object its present version only.
LEMMA OneCopy ==
    ASSUME Init, NEW n \in Storages
    PROVE  SP!CopiesOf(n) = {sApi[n]} /\ sPending[n] = <<>> /\ 1..Len(sPending[n]) = {}
<1>1. sPending[n] = <<>> /\ sCache = sApi /\ sPc = "idle"
  BY DEF Init
<1>2. 1..Len(<<>>) = {}
  OBVIOUS
<1>3. 1..Len(sPending[n]) = {}
  BY <1>1, <1>2
<1> QED
  BY <1>1, <1>3 DEF SP!CopiesOf

LEMMA InitStorageType == Init => SP!TypeOK
<1> SUFFICES ASSUME Init PROVE SP!TypeOK
  OBVIOUS
<1>1. PICK sid \in OneEach(Storages, StorageIds), ss \in [Storages -> StorageSpecs] :
         /\ sApi = [n \in Storages |-> Synced(ss[n], [S!NoStatus EXCEPT !.id = sid[n]])]
         /\ rows = {[id |-> sid[n], owner |-> n, spec |-> ss[n],
                     first |-> NoCred, second |-> NoCred] : n \in Storages}
         /\ sUsed = {sid[n] : n \in Storages}
  BY AtRest
<1>2. sid \in [Storages -> StorageIds]
  BY DEF OneEach
<1>3. sApi \in [Storages -> SP!Object]
  BY <1>1, <1>2, SyncedFields
<1>4. rows \subseteq SP!Row /\ sUsed \subseteq StorageIds /\ \A r \in rows : r.id \in sUsed
  <2>1. ASSUME NEW n \in Storages
        PROVE  [id |-> sid[n], owner |-> n, spec |-> ss[n],
                first |-> NoCred, second |-> NoCred] \in SP!Row
    BY <1>2 DEF SP!Row
  <2> QED
    BY <1>1, <1>2, <2>1
<1>5. sJob \in SP!Job
  <2>1. S!NoJob = SP!NoJob
    BY DEF S!NoJob, SP!NoJob, S!NeverCreated, SP!NeverCreated, S!NoStatus, SP!NoStatus
  <2> QED
    BY <2>1, StorageAssumptions, SP!InitialValues DEF Init
<1>6. sCache = sApi /\ sPending \in [Storages -> Seq(SP!Object)]
  <2>1. sCache = sApi /\ sPending = [n \in Storages |-> <<>>]
    BY DEF Init
  <2>2. <<>> \in Seq(SP!Object)
    OBVIOUS
  <2> QED
    BY <2>1, <2>2
<1>7. /\ sQueue = {} /\ sDelayed = {} /\ sEdits = 0 /\ sPc = "idle" /\ sLate = {} /\ sDisturbed = {}
      /\ sSecret = [n \in Storages |-> NoCred] /\ sSecretSeen = sSecret /\ faults = 0
  BY DEF Init
<1> QED
  BY <1>3, <1>4, <1>5, <1>6, <1>7 DEF SP!TypeOK, SP!Steps

LEMMA InitStorages == Init => SP!SInv /\ SP!CopiesSettled
<1> SUFFICES ASSUME Init PROVE SP!SInv /\ SP!CopiesSettled
  OBVIOUS
<1>1. PICK sid \in OneEach(Storages, StorageIds), ss \in [Storages -> StorageSpecs] :
         /\ sApi = [n \in Storages |-> Synced(ss[n], [S!NoStatus EXCEPT !.id = sid[n]])]
         /\ rows = {[id |-> sid[n], owner |-> n, spec |-> ss[n],
                     first |-> NoCred, second |-> NoCred] : n \in Storages}
         /\ sUsed = {sid[n] : n \in Storages}
  BY AtRest
<1>2. /\ sid \in [Storages -> StorageIds]
      /\ \A m, n \in Storages : sid[m] = sid[n] => m = n
  BY DEF OneEach
<1>3. ASSUME NEW n \in Storages
      PROVE  /\ sApi[n].exists /\ ~sApi[n].deleting /\ sApi[n].finalizer
             /\ sApi[n].rv = 3 /\ sApi[n].gen = 1 /\ sApi[n].spec = ss[n]
             /\ sApi[n].status.id = sid[n] /\ sApi[n].status.obsGen = 1
  BY <1>1, <1>2, SyncedFields
<1>4. sCache = sApi /\ sPc = "idle" /\ sLate = {} /\ sDisturbed = {}
  BY DEF Init
<1>5. /\ \A r \in rows : \E n \in Storages : r.id = sid[n] /\ r.owner = n
      /\ \A n \in Storages : \E r \in rows : r.id = sid[n] /\ r.owner = n /\ r.spec = ss[n]
  <2> DEFINE row(n) == [id |-> sid[n], owner |-> n, spec |-> ss[n], first |-> NoCred, second |-> NoCred]
  <2>1. \A n \in Storages : row(n).id = sid[n] /\ row(n).owner = n /\ row(n).spec = ss[n]
    OBVIOUS
  <2>2. rows = {row(n) : n \in Storages}
    BY <1>1, Zenon
  <2> HIDE DEF row
  <2> QED
    BY <2>1, <2>2
<1>6. \A n \in Storages : sid[n] \in StorageIds /\ sid[n] \in sUsed /\ sid[n] # NoId
  <2>1. sUsed = {sid[n] : n \in Storages}
    BY <1>1, Zenon
  <2> QED
    BY <1>2, <2>1, OperatorAssumption
<1>7. SP!IInv
  <2>0. \A n \in Storages : sCache[n] = sApi[n] /\ \A i \in 1..Len(sPending[n]) : FALSE
    BY <1>4, OneCopy
  <2>1. SP!Copies /\ SP!Ordered
    <3>1. ASSUME NEW n \in Storages PROVE SP!IsCopy(n, sApi[n])
      <4>1. sApi[n].rv = 3
        BY <1>3
      <4> QED
        BY <4>1 DEF SP!IsCopy
    <3>2. SP!Copies
      BY <2>0, <3>1, Zenon DEF SP!Copies
    <3>3. SP!Ordered
      BY <2>0, Zenon DEF SP!Ordered
    <3> QED
      BY <3>2, <3>3
  <2>2. SP!HeldCopies /\ SP!IdUnderFinalizer
    BY <1>3 DEF SP!HeldCopies, SP!IdUnderFinalizer
  <2>3. SP!IdsKnown
    <3>1. \A n \in Storages : SP!Known(sApi[n])
      BY <1>3, <1>6 DEF SP!Known
    <3> QED
      BY <2>0, <3>1 DEF SP!IdsKnown
  <2>4. SP!RecordedRowRemoved
    BY <1>3 DEF SP!RecordedRowRemoved
  <2> QED
    BY <1>4, <2>1, <2>2, <2>3, <2>4, InitStorageType DEF SP!IInv, SP!ObjectInv, SP!JobOK
<1>8. SP!Unshared
  <2>1. \A n \in Storages, id \in StorageIds : SP!Claims(n, id) => id = sid[n]
    BY <1>3, <1>4, <1>5, OneCopy DEF SP!Claims, SP!Named
  <2> QED
    BY <1>2, <1>6, <2>1 DEF SP!Unshared
<1>9. SP!DoomedDead
  BY <1>3, <1>4, OneCopy DEF SP!DoomedDead, SP!Doomed
<1>10. SP!Fresh /\ SP!PushLive /\ SP!Observed /\ SP!NowSeen /\ SP!Saved
  BY <1>3, <1>4, OneCopy
  DEF SP!Fresh, SP!PushLive, SP!PushSteps, SP!Observed, SP!NowSeen, SP!Saved
<1>11. SP!SyncedRowMatches
  BY <1>3, <1>5 DEF SP!SyncedRowMatches, SP!RowOf
<1>12. SP!CopiesSettled
  BY <1>3, OneCopy DEF SP!CopiesSettled, SP!Settled
<1> QED
  BY <1>7, <1>8, <1>9, <1>10, <1>11, <1>12 DEF SP!SInv

LEMMA BackupStatus ==
    ASSUME NEW id \in DatabaseIds, NEW t,
           t = [[D!NoStatus EXCEPT !.id = id] EXCEPT !.reason = "Synced", !.condGen = 1, !.obsGen = 1]
    PROVE  t \in DP!Status
<1>1. D!NoStatus \in DP!Status
  BY DEF D!NoStatus, DP!Status, DP!Reasons, DP!Healths
<1>2. ASSUME NEW u \in DP!Status
      PROVE  [u EXCEPT !.id = id] \in DP!Status
  BY DEF DP!Status
<1>3. ASSUME NEW u \in DP!Status, NEW v, v = [u EXCEPT !.reason = "Synced", !.condGen = 1, !.obsGen = 1]
      PROVE  v \in DP!Status
  BY <1>3 DEF DP!Status, DP!Reasons
<1> DEFINE n == [D!NoStatus EXCEPT !.id = id]
<1>4. n \in DP!Status
  BY <1>1, <1>2
<1>5. t = [n EXCEPT !.reason = "Synced", !.condGen = 1, !.obsGen = 1]
  OBVIOUS
<1> HIDE DEF n
<1> QED
  BY <1>3, <1>4, <1>5

LEMMA BackupObject ==
    ASSUME NEW s \in BackupSpecs, NEW id \in DatabaseIds
    PROVE  Synced(s, [D!NoStatus EXCEPT !.id = id]) \in DP!Object
<1> DEFINE t == [[D!NoStatus EXCEPT !.id = id] EXCEPT !.reason = "Synced", !.condGen = 1, !.obsGen = 1]
<1>1. t \in DP!Status
  BY BackupStatus
<1>2. Synced(s, [D!NoStatus EXCEPT !.id = id])
         = [exists |-> TRUE, rv |-> 3, gen |-> 1, spec |-> s, deleting |-> FALSE,
            finalizer |-> TRUE, status |-> t]
  BY Zenon DEF Synced
<1> HIDE DEF t
<1>3. [exists |-> TRUE, rv |-> 3, gen |-> 1, spec |-> s, deleting |-> FALSE,
       finalizer |-> TRUE, status |-> t] \in DP!Object
  BY <1>1 DEF DP!Object, DP!ObjectsWith
<1> QED
  BY <1>2, <1>3, Zenon

\* What databasus holds for a DatabaseBackup at rest.
LEMMA DatabaseFields ==
    ASSUME NEW n \in Backups, NEW id \in DatabaseIds,
           NEW c \in DP!Content, NEW g \in DP!Config
    PROVE  LET d == [id |-> id, owner |-> n, content |-> c, config |-> g,
                     check |-> NoSpec, health |-> ""]
           IN  d \in DP!Database /\ d.id = id /\ d.config = g
  BY DEF DP!Database, DP!Healths

LEMMA RowAtRest ==
    ASSUME NEW n \in Backups, NEW s \in BackupSpecs, NEW id \in DatabaseIds,
           NEW storage \in StorageIds, NEW d,
           d = [id |-> id, owner |-> n,
                content |-> [spec |-> s, password |-> Cred, ssl |-> NoCred, notifier |-> NotifierId],
                config |-> [spec |-> s, storage |-> storage],
                check |-> NoSpec, health |-> ""]
    PROVE  d \in DP!Database /\ d.id = id /\ d.config.storage = storage
<1> DEFINE content == [spec |-> s, password |-> Cred, ssl |-> NoCred, notifier |-> NotifierId]
           config == [spec |-> s, storage |-> storage]
<1>1. content \in DP!Content
  BY DEF DP!Content
<1>2. config \in DP!Config /\ config.storage = storage
  BY DEF DP!Config
<1>4. d = [id |-> id, owner |-> n, content |-> content, config |-> config,
           check |-> NoSpec, health |-> ""]
  OBVIOUS
<1> HIDE DEF content, config
<1>5. d \in DP!Database /\ d.id = id /\ d.config = config
  <2>1. LET e == [id |-> id, owner |-> n, content |-> content, config |-> config,
                  check |-> NoSpec, health |-> ""]
        IN  e \in DP!Database /\ e.id = id /\ e.config = config
    BY <1>1, <1>2, DatabaseFields, Zenon
  <2> QED
    BY <1>4, <2>1, Zenon
<1> QED
  BY <1>2, <1>5, Zenon

\* The IDs that are settled for the Storage that DatabaseBackups name.
GoodIds == {id \in sUsed : SP!Settled(Target, id)} \cup {NoId}

\* What the other controller sees has the type it expects.
LEMMA SeenType ==
    ASSUME NEW o \in SP!Object
    PROVE  [k \in {"storage", "notifier"} |->
              IF k = "storage"
              THEN [id |-> IF o.exists THEN o.status.id ELSE NoId, ready |-> o.exists /\ S!Ready(o)]
              ELSE [id |-> NotifierId, ready |-> TRUE]] \in [DP!Kinds -> DP!Dependency]
<1>1. o.exists \in BOOLEAN /\ o.status.id \in StorageIds \cup {NoId}
  BY Zenon DEF SP!Object, SP!ObjectsWith, SP!Status
<1>2. [id |-> IF o.exists THEN o.status.id ELSE NoId, ready |-> o.exists /\ S!Ready(o)]
         \in DP!Dependency
  BY <1>1 DEF DP!Dependency, S!Ready
<1>3. [id |-> NotifierId, ready |-> TRUE] \in DP!Dependency
  BY DEF DP!Dependency
<1> QED
  BY <1>2, <1>3, Zenon DEF DP!Kinds

\* The cached status of that Storage names a settled ID.
LEMMA SeenIsGood ==
    ASSUME SP!SInv, SP!CopiesSettled
    PROVE  Seen \in [DP!Kinds -> DP!Dependency] /\ Seen["storage"].id \in GoodIds
<1>1. Target \in Storages
  BY OperatorAssumption
<1>2. sCache[Target] \in SP!Object
  BY <1>1 DEF SP!SInv, SP!IInv, SP!TypeOK
<1>3. sCache[Target] \in SP!CopiesOf(Target)
  BY DEF SP!CopiesOf
<1>4. sCache[Target].status.id \in sUsed \cup {NoId}
  BY <1>1, <1>3, StorageAssumptions, SP!CopiesKnown DEF SP!SInv
<1>5. SeenStorage.id \in GoodIds
  BY <1>1, <1>3, <1>4 DEF SeenStorage, GoodIds, SP!CopiesSettled
<1>6. Seen \in [DP!Kinds -> DP!Dependency]
  BY <1>2, SeenType, Zenon DEF Seen, SeenStorage
<1> QED
  BY <1>5, <1>6 DEF Seen

LEMMA BackupsAtRest ==
    ASSUME Init
    PROVE  \E did \in [Backups -> DatabaseIds], ds \in [Backups -> BackupSpecs],
              storage \in StorageIds \cap GoodIds :
              /\ dApi = [n \in Backups |-> Synced(ds[n], [D!NoStatus EXCEPT !.id = did[n]])]
              /\ databases = {[id |-> did[n], owner |-> n,
                               content |-> [spec |-> ds[n], password |-> Cred, ssl |-> NoCred,
                                            notifier |-> NotifierId],
                               config |-> [spec |-> ds[n], storage |-> storage],
                               check |-> NoSpec, health |-> ""] : n \in Backups}
              /\ dUsed = {did[n] : n \in Backups}
<1> DEFINE sid == CHOOSE f \in OneEach(Storages, StorageIds) : TRUE
           ss == CHOOSE f \in [Storages -> StorageSpecs] : TRUE
           did == CHOOSE f \in OneEach(Backups, DatabaseIds) : TRUE
           ds == CHOOSE f \in [Backups -> BackupSpecs] : TRUE
<1>1. sid \in [Storages -> StorageIds] /\ did \in [Backups -> DatabaseIds]
  BY OperatorAssumption DEF OneEach
<1>2. ss \in [Storages -> StorageSpecs]
  <2>1. PICK s : s \in StorageSpecs
    BY OperatorAssumption
  <2>2. [n \in Storages |-> s] \in [Storages -> StorageSpecs]
    BY <2>1
  <2> QED
    BY <2>2
<1>3. ds \in [Backups -> BackupSpecs]
  <2>1. PICK s : s \in BackupSpecs
    BY OperatorAssumption
  <2>2. [n \in Backups |-> s] \in [Backups -> BackupSpecs]
    BY <2>1
  <2> QED
    BY <2>2
<1>4. /\ sApi = [n \in Storages |-> Synced(ss[n], [S!NoStatus EXCEPT !.id = sid[n]])]
      /\ sUsed = {sid[n] : n \in Storages}
  BY DEF Init
<1>5. /\ dApi = [n \in Backups |-> Synced(ds[n], [D!NoStatus EXCEPT !.id = did[n]])]
      /\ databases = {[id |-> did[n], owner |-> n,
                       content |-> [spec |-> ds[n], password |-> Cred, ssl |-> NoCred,
                                    notifier |-> NotifierId],
                       config |-> [spec |-> ds[n], storage |-> sid[Target]],
                       check |-> NoSpec, health |-> ""] : n \in Backups}
      /\ dUsed = {did[n] : n \in Backups}
  BY DEF Init
<1> HIDE DEF sid, ss, did, ds
<1>6. sid[Target] \in StorageIds \cap GoodIds
  <2>1. Target \in Storages /\ sid[Target] \in StorageIds /\ ss[Target] \in StorageSpecs
    BY <1>1, <1>2, OperatorAssumption
  <2>2. sApi[Target] = Synced(ss[Target], [S!NoStatus EXCEPT !.id = sid[Target]])
    BY <1>4, <2>1
  <2>3. sApi[Target].exists /\ sApi[Target].status.id = sid[Target]
    BY <2>1, <2>2, SyncedFields
  <2>4. sid[Target] \in sUsed
    BY <1>4, <2>1, Zenon
  <2> QED
    BY <2>1, <2>3, <2>4 DEF GoodIds, SP!Settled
<1> QED
  BY <1>1, <1>3, <1>5, <1>6, Zenon

LEMMA InitBackups == Init => DP!TypeOK /\ DP!StoragesIn(GoodIds)
<1> SUFFICES ASSUME Init PROVE DP!TypeOK /\ DP!StoragesIn(GoodIds)
  OBVIOUS
<1>1. PICK did \in [Backups -> DatabaseIds], ds \in [Backups -> BackupSpecs],
           storage \in StorageIds \cap GoodIds :
         /\ dApi = [n \in Backups |-> Synced(ds[n], [D!NoStatus EXCEPT !.id = did[n]])]
         /\ databases = {[id |-> did[n], owner |-> n,
                          content |-> [spec |-> ds[n], password |-> Cred, ssl |-> NoCred,
                                       notifier |-> NotifierId],
                          config |-> [spec |-> ds[n], storage |-> storage],
                          check |-> NoSpec, health |-> ""] : n \in Backups}
         /\ dUsed = {did[n] : n \in Backups}
  BY BackupsAtRest
<1>2. dApi \in [Backups -> DP!Object]
  BY <1>1, BackupObject
<1>3. \A d \in databases : d \in DP!Database /\ d.id \in dUsed /\ d.config.storage = storage
  <2> DEFINE row(n) == [id |-> did[n], owner |-> n,
                        content |-> [spec |-> ds[n], password |-> Cred, ssl |-> NoCred,
                                     notifier |-> NotifierId],
                        config |-> [spec |-> ds[n], storage |-> storage],
                        check |-> NoSpec, health |-> ""]
  <2>1. \A n \in Backups : did[n] \in DatabaseIds /\ ds[n] \in BackupSpecs /\ did[n] \in dUsed
    <3>1. dUsed = {did[n] : n \in Backups}
      BY <1>1, Zenon
    <3> QED
      BY <3>1
  <2>2. \A n \in Backups :
           row(n) \in DP!Database /\ row(n).id = did[n] /\ row(n).config.storage = storage
    BY <2>1, RowAtRest, ZenonT(60)
  <2>3. databases = {row(n) : n \in Backups}
    BY <1>1, Zenon
  <2> HIDE DEF row
  <2>4. SUFFICES ASSUME NEW d \in databases
                 PROVE  d \in DP!Database /\ d.id \in dUsed /\ d.config.storage = storage
    OBVIOUS
  <2>5. PICK n \in Backups : d = row(n)
    BY <2>3, <2>4, Zenon
  <2> QED
    BY <2>1, <2>2, <2>5, Zenon
<1>4. dUsed \subseteq DatabaseIds
  <2>1. dUsed = {did[n] : n \in Backups}
    BY <1>1, Zenon
  <2> QED
    BY <2>1
<1>5. D!NoJob = DP!NoJob
  BY DEF D!NoJob, DP!NoJob, D!NeverCreated, DP!NeverCreated, D!NoStatus, DP!NoStatus
<1>6. dJob \in DP!Job /\ dJob.storage = NoId
  BY <1>5, BackupAssumptions, DP!InitialValues, DP!StoragesKept DEF Init, DP!NoJob
<1>7. dCache = dApi /\ dPending \in [Backups -> Seq(DP!Object)]
  <2>1. dCache = dApi /\ dPending = [n \in Backups |-> <<>>]
    BY DEF Init
  <2>2. <<>> \in Seq(DP!Object)
    OBVIOUS
  <2> QED
    BY <2>1, <2>2
<1>8. Seen \in [DP!Kinds -> DP!Dependency]
  BY InitStorages, SeenIsGood
<1>9. /\ dQueue = {} /\ dDelayed = Backups /\ dEdits = 0 /\ dPc = "idle" /\ dLate = {}
      /\ dDisturbed = {} /\ dSecret = [n \in Backups |-> Cred] /\ faults = 0
  BY DEF Init
<1>10. DP!TypeOK
  BY <1>2, <1>3, <1>4, <1>6, <1>7, <1>8, <1>9 DEF DP!TypeOK, DP!Steps
<1>11. DP!StoragesIn(GoodIds)
  BY <1>3, <1>6, <1>9 DEF DP!StoragesIn, GoodIds
<1> QED
  BY <1>10, <1>11

(***************************************************************************)
(* The inductive invariant: what is proved of the Storage controller on    *)
(* its own, the types of the other controller, and that every storage ID   *)
(* it read, sent or had stored is settled.                                 *)
(***************************************************************************)
OInv ==
    /\ SP!SInv
    /\ SP!CopiesSettled
    /\ DP!TypeOK
    /\ DP!StoragesIn(GoodIds)

LEMMA InitOperator == Init => OInv
  BY InitStorages, InitBackups DEF OInv

\* An ID that is settled stays so.
LEMMA GoodIdsStay ==
    ASSUME SP!SInv, [SP!Next]_(SP!vars)
    PROVE  GoodIds \subseteq GoodIds'
<1>1. Target \in Storages
  BY OperatorAssumption
<1>2. sUsed \subseteq sUsed'
  BY StorageAssumptions, SP!UsedGrows
<1>3. ASSUME NEW id \in sUsed, SP!Settled(Target, id) PROVE SP!Settled(Target, id)'
  BY <1>1, <1>3, StorageAssumptions, SP!SettledKept
<1> QED
  BY <1>2, <1>3 DEF GoodIds

LEMMA StorageStep ==
    ASSUME OInv, S!Next, UNCHANGED backupVars
    PROVE  OInv'
<1>1. SP!Next
  BY SameStorageSteps
<1>2. SP!SInv' /\ SP!CopiesSettled'
  BY <1>1, StorageAssumptions, SP!NextSync, SP!NextSettles DEF OInv
<1>3. Seen' \in [DP!Kinds -> DP!Dependency]
  <2>1. sCache'[Target] \in SP!Object
    BY <1>2, OperatorAssumption DEF SP!SInv, SP!IInv, SP!TypeOK
  <2> QED
    BY <2>1, SeenType, Zenon DEF Seen, SeenStorage
<1>4. faults' \in Nat
  BY <1>2 DEF SP!SInv, SP!IInv, SP!TypeOK
<1>5. DP!TypeOK'
  BY <1>3, <1>4 DEF OInv, DP!TypeOK, backupVars
<1>6. DP!StoragesIn(GoodIds)'
  <2>1. GoodIds \subseteq GoodIds'
    BY <1>1, GoodIdsStay DEF OInv
  <2> QED
    BY <2>1 DEF OInv, DP!StoragesIn, backupVars
<1> QED
  BY <1>2, <1>5, <1>6 DEF OInv

LEMMA BackupStep ==
    ASSUME OInv, D!Next, UNCHANGED storageVars
    PROVE  OInv'
<1>1. DP!Next
  BY SameBackupSteps
<1>2. DP!TypeOK'
  BY <1>1, BackupAssumptions, DP!NextType DEF OInv
<1>3. SP!SInv' /\ SP!CopiesSettled'
  <2>1. faults' \in Nat
    BY <1>2 DEF DP!TypeOK
  <2>2. UNCHANGED <<SP!kubeVars, sPc, sJob, SP!serverVars, SP!secretVars>>
    BY DEF storageVars, SP!kubeVars, SP!serverVars, SP!secretVars
  <2> QED
    BY <2>1, <2>2, StorageAssumptions, SP!FaultsAside DEF OInv
<1>4. DP!StoragesIn(GoodIds)'
  <2>1. PICK K : K = GoodIds
    OBVIOUS
  <2>2. GoodIds' = K
    BY <2>1 DEF GoodIds, SP!Settled, SP!RowOf, storageVars
  <2>3. DP!StoragesIn(K) /\ NoId \in K /\ Seen["storage"].id \in K
    BY <2>1, SeenIsGood DEF OInv, GoodIds
  <2>4. DP!StoragesIn(K)'
    BY <1>1, <2>3, BackupAssumptions, DP!NextStorages DEF OInv
  <2> QED
    BY <2>2, <2>4 DEF DP!StoragesIn
<1> QED
  BY <1>2, <1>3, <1>4 DEF OInv

\* Both controllers forget what they were doing, and databasus does not.
LEMMA RestartStep ==
    ASSUME OInv, Restart
    PROVE  OInv'
<1>1. SP!Next
  BY SameStorageSteps DEF Restart, S!Next, S!Environment
<1>2. SP!SInv' /\ SP!CopiesSettled'
  BY <1>1, StorageAssumptions, SP!NextSync, SP!NextSettles DEF OInv
<1>3. Seen' \in [DP!Kinds -> DP!Dependency]
  <2>1. sCache'[Target] \in SP!Object
    BY <1>2, OperatorAssumption DEF SP!SInv, SP!IInv, SP!TypeOK
  <2> QED
    BY <2>1, SeenType, Zenon DEF Seen, SeenStorage
<1>4. faults' \in Nat
  BY <1>2 DEF SP!SInv, SP!IInv, SP!TypeOK
<1>5. D!NoJob = DP!NoJob
  BY DEF D!NoJob, DP!NoJob, D!NeverCreated, DP!NeverCreated, D!NoStatus, DP!NoStatus
<1>6. dJob' \in DP!Job /\ dJob'.storage = NoId
  BY <1>5, BackupAssumptions, DP!InitialValues DEF Restart, DP!NoJob
<1>7. DP!TypeOK'
  <2>1. /\ dApi' \in [Backups -> DP!Object] /\ dCache' \in [Backups -> DP!Object]
        /\ dPending' \in [Backups -> Seq(DP!Object)]
        /\ dQueue' \subseteq Backups /\ dDelayed' \subseteq Backups /\ dEdits' \in Nat
    BY DEF OInv, DP!TypeOK, Restart, D!Relist
  <2>2. dPc' = "idle" /\ UNCHANGED <<databases, dUsed, dLate, dDisturbed, dSecret>>
    BY DEF Restart
  <2> QED
    BY <1>3, <1>4, <1>6, <2>1, <2>2 DEF OInv, DP!TypeOK, DP!Steps
<1>8. DP!StoragesIn(GoodIds)'
  <2>1. GoodIds \subseteq GoodIds'
    BY <1>1, GoodIdsStay DEF OInv
  <2>2. NoId \in GoodIds'
    BY DEF GoodIds
  <2> QED
    BY <1>6, <2>1, <2>2 DEF OInv, DP!StoragesIn, Restart
<1> QED
  BY <1>2, <1>7, <1>8 DEF OInv

LEMMA NextOperator == OInv /\ [Next]_vars => OInv'
<1> SUFFICES ASSUME OInv, [Next]_vars PROVE OInv'
  OBVIOUS
<1>1. CASE UNCHANGED vars
  <2>1. SP!SInv' /\ SP!CopiesSettled'
    <3>1. faults' \in Nat
      BY <1>1 DEF vars, OInv, DP!TypeOK
    <3>2. UNCHANGED <<SP!kubeVars, sPc, sJob, SP!serverVars, SP!secretVars>>
      BY <1>1 DEF vars, storageVars, SP!kubeVars, SP!serverVars, SP!secretVars
    <3> QED
      BY <3>1, <3>2, StorageAssumptions, SP!FaultsAside DEF OInv
  <2>2. DP!TypeOK' /\ DP!StoragesIn(GoodIds)'
    BY <1>1 DEF vars, storageVars, backupVars, OInv, DP!TypeOK, DP!StoragesIn, GoodIds,
       SP!Settled, SP!RowOf, Seen, SeenStorage, S!Ready
  <2> QED
    BY <2>1, <2>2 DEF OInv
<1>2. ASSUME NEW n \in Storages, StorageStart(n) \/ StorageManager(n) \/ StorageUser(n)
      PROVE  OInv'
  BY <1>2, StorageStep DEF StorageStart, StorageManager, StorageUser, S!Next
<1>3. ASSUME NEW n \in Backups, BackupStart(n) \/ BackupManager(n) \/ BackupUser(n)
      PROVE  OInv'
  BY <1>3, BackupStep DEF BackupStart, BackupManager, BackupUser, D!Next
<1>4. CASE StorageWorker
  BY <1>4, StorageStep DEF StorageWorker, S!Next
<1>5. CASE StorageTrouble
  BY <1>5, StorageStep DEF StorageTrouble, S!Next, S!Environment
<1>6. CASE BackupWorker
  BY <1>6, BackupStep DEF BackupWorker, D!Next
<1>7. CASE BackupTrouble
  BY <1>7, BackupStep DEF BackupTrouble, D!Next, D!Environment
<1>8. CASE Restart
  BY <1>8, RestartStep
<1> QED
  BY <1>1, <1>2, <1>3, <1>4, <1>5, <1>6, <1>7, <1>8 DEF Next

(***************************************************************************)
(* The theorems.                                                           *)
(***************************************************************************)
\* In every reachable state of the operator a storage ID that the DatabaseBackup
\* controller read, sent or had stored is settled: the record is gone, or the
\* Storage that it names is there and names it.
THEOREM OperatorInvariance == Spec => []OInv
<1>1. Init => OInv
  BY InitOperator
<1>2. OInv /\ [Next]_vars => OInv'
  BY NextOperator
<1> QED
  BY <1>1, <1>2, PTL DEF Spec

\* A backup config that points at a storage that is there points at the one its
\* Storage names, although syncBackupConfig sends an ID that was read from a cached
\* status some calls earlier, or by a Reconcile that was cut off.
THEOREM ConfigsNameTheStorage == Spec => []ConfigNamesStorage
<1>1. OInv => ConfigNamesStorage
  BY DEF OInv, DP!StoragesIn, GoodIds, SP!Settled, SP!RowOf, S!RowOf, ConfigNamesStorage
<1> QED
  BY <1>1, OperatorInvariance, PTL
=============================================================================
