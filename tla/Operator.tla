------------------------------ MODULE Operator ------------------------------
(***************************************************************************)
(* The operator's process: the Storage controller and the DatabaseBackup   *)
(* controller side by side, each with its own cache, queue and worker.     *)
(* They never call each other.  A DatabaseBackup names a Storage, its      *)
(* controller reads that Storage's ID and Ready condition from the cache,  *)
(* and sends the ID to databasus; nothing tells it when they change, and   *)
(* nothing keeps a Storage from being deleted while it is named.           *)
(*                                                                         *)
(* Both controllers are the modules of their own; only the dependency of   *)
(* DatabaseBackupController is given a value here, the cached status of    *)
(* the Storage.  The Notifier is always there (its controller is the same  *)
(* as that of Storage), and the Secrets of DatabaseBackups do not change.  *)
(***************************************************************************)
EXTENDS Naturals

CONSTANTS
    Storages,         \* the Storage objects
    Target,           \* the one that every DatabaseBackup names
    StorageSpecs,     \* their specs; none of them needs a Secret
    StorageIds,       \* IDs databasus can give storages
    MaxStorageEdits,
    Backups,          \* the DatabaseBackup objects
    BackupSpecs,      \* their specs, complete and without a healthcheck section
    NoSpec,
    DatabaseIds,      \* IDs databasus can give databases
    MaxBackupEdits,
    NotifierId,       \* the ID of the Notifier
    NoId,
    Cred,             \* the Secrets' one version
    NoCred,
    MaxFaults         \* bound on restarts, failed calls and failed writes

\* As many IDs as there are objects, an ID each.
OneEach(names, ids) == {f \in [names -> ids] : \A m, n \in names : f[m] = f[n] => m = n}

ASSUME OperatorAssumption ==
    /\ Target \in Storages
    /\ StorageSpecs # {}
    /\ OneEach(Storages, StorageIds) # {}
    /\ MaxStorageEdits \in Nat
    /\ Backups # {}
    /\ BackupSpecs # {}
    /\ OneEach(Backups, DatabaseIds) # {}
    /\ MaxBackupEdits \in Nat
    /\ NoSpec \notin BackupSpecs
    /\ NoId \notin StorageIds \cup DatabaseIds \cup {NotifierId}
    /\ NoCred # Cred
    /\ MaxFaults \in Nat

VARIABLES
    sApi, sCache, sPending, sQueue, sDelayed, sEdits, sPc, sJob,
    rows, sUsed, sLate, sDisturbed, sSecret, sSecretSeen,
    dApi, dCache, dPending, dQueue, dDelayed, dEdits, dPc, dJob,
    databases, dUsed, dLate, dDisturbed, dSecret,
    faults            \* shared: what hits the process or the network

storageVars == <<sApi, sCache, sPending, sQueue, sDelayed, sEdits, sPc, sJob,
                 rows, sUsed, sLate, sDisturbed, sSecret, sSecretSeen>>
backupVars == <<dApi, dCache, dPending, dQueue, dDelayed, dEdits, dPc, dJob,
                databases, dUsed, dLate, dDisturbed, dSecret>>
vars == <<storageVars, backupVars, faults>>

S == INSTANCE ResourceController WITH
    Names <- Storages, Specs <- StorageSpecs, MaxEdits <- MaxStorageEdits,
    Incomplete <- {}, NoRef <- StorageSpecs, OneRef <- {}, Ids <- StorageIds,
    Creds <- {}, OutOfBand <- FALSE,
    api <- sApi, cache <- sCache, pending <- sPending, queue <- sQueue,
    delayed <- sDelayed, edits <- sEdits, pc <- sPc, job <- sJob,
    used <- sUsed, late <- sLate, disturbed <- sDisturbed,
    secret <- sSecret, secretSeen <- sSecretSeen

\* What resolveStorageRef and resolveNotifierRefs find.  That the Storage is
\* being deleted is not looked at.
SeenStorage ==
    LET o == sCache[Target] IN
    [id |-> IF o.exists THEN o.status.id ELSE NoId, ready |-> o.exists /\ S!Ready(o)]

Seen == [k \in {"storage", "notifier"} |->
            IF k = "storage" THEN SeenStorage ELSE [id |-> NotifierId, ready |-> TRUE]]

D == INSTANCE DatabaseBackupController WITH
    Names <- Backups, Specs <- BackupSpecs, MaxEdits <- MaxBackupEdits,
    Incomplete <- {}, Physical <- {}, Checked <- {}, Encrypted <- {},
    Ids <- DatabaseIds, DepIds <- StorageIds \cup {NotifierId},
    Creds <- {Cred}, OutOfBand <- FALSE, deps <- Seen,
    api <- dApi, cache <- dCache, pending <- dPending, queue <- dQueue,
    delayed <- dDelayed, edits <- dEdits, pc <- dPc, job <- dJob,
    used <- dUsed, late <- dLate, disturbed <- dDisturbed, secret <- dSecret

(***************************************************************************)
(* The operator at rest: everything is synced, and each DatabaseBackup     *)
(* waits for its next poll.                                                *)
(***************************************************************************)
\* An object in its third version: created, given its finalizer, reported.
Synced(spec, status) ==
    [exists |-> TRUE, rv |-> 3, gen |-> 1, spec |-> spec, deleting |-> FALSE, finalizer |-> TRUE,
     status |-> [status EXCEPT !.reason = "Synced", !.condGen = 1, !.obsGen = 1]]

Init ==
    LET sid == CHOOSE f \in OneEach(Storages, StorageIds) : TRUE
        did == CHOOSE f \in OneEach(Backups, DatabaseIds) : TRUE
        ss  == CHOOSE f \in [Storages -> StorageSpecs] : TRUE
        ds  == CHOOSE f \in [Backups -> BackupSpecs] : TRUE
    IN
    /\ sApi = [n \in Storages |-> Synced(ss[n], [S!NoStatus EXCEPT !.id = sid[n]])]
    /\ sCache = sApi
    /\ sPending = [n \in Storages |-> <<>>]
    /\ sQueue = {} /\ sDelayed = {} /\ sEdits = 0 /\ sPc = "idle" /\ sJob = S!NoJob
    /\ rows = {[id |-> sid[n], owner |-> n, spec |-> ss[n],
                first |-> NoCred, second |-> NoCred] : n \in Storages}
    /\ sUsed = {sid[n] : n \in Storages}
    /\ sLate = {} /\ sDisturbed = {}
    /\ sSecret = [n \in Storages |-> NoCred]
    /\ sSecretSeen = sSecret
    /\ dApi = [n \in Backups |-> Synced(ds[n], [D!NoStatus EXCEPT !.id = did[n]])]
    /\ dCache = dApi
    /\ dPending = [n \in Backups |-> <<>>]
    /\ dQueue = {} /\ dDelayed = Backups /\ dEdits = 0 /\ dPc = "idle" /\ dJob = D!NoJob
    /\ databases = {[id |-> did[n], owner |-> n,
                     content |-> [spec |-> ds[n], password |-> Cred, ssl |-> NoCred,
                                  notifier |-> NotifierId],
                     config |-> [spec |-> ds[n], storage |-> sid[Target]],
                     check |-> NoSpec, health |-> ""] : n \in Backups}
    /\ dUsed = {did[n] : n \in Backups}
    /\ dLate = {} /\ dDisturbed = {}
    /\ dSecret = [n \in Backups |-> Cred]
    /\ faults = 0

(***************************************************************************)
(* A step of one controller or of its surroundings leaves the other alone. *)
(* The informers' ten-hourly resync is left out: where Secrets do not      *)
(* change, events and the controllers' own timers are enough.              *)
(***************************************************************************)
StorageWorker == UNCHANGED backupVars /\ S!Worker
StorageStart(n) == UNCHANGED backupVars /\ S!Start(n)
StorageManager(n) == UNCHANGED backupVars /\ S!Manager(n) /\ <<sPending, sDelayed>>' # <<sPending, sDelayed>>
StorageUser(n) == UNCHANGED backupVars /\ S!User(n)
StorageTrouble ==
    /\ UNCHANGED backupVars
    /\ (\E q \in sLate : S!ServeLate(q)) \/ S!CallFails \/ S!KubeWriteFails

BackupWorker == UNCHANGED storageVars /\ D!Worker
BackupStart(n) == UNCHANGED storageVars /\ D!Start(n)
BackupManager(n) == UNCHANGED storageVars /\ D!Manager(n) /\ <<dPending, dDelayed>>' # <<dPending, dDelayed>>
BackupUser(n) == UNCHANGED storageVars /\ D!User(n)
BackupTrouble ==
    /\ UNCHANGED storageVars
    /\ (\E q \in dLate : D!ServeLate(q)) \/ D!CallFails \/ D!KubeWriteFails

\* One process: both controllers go down together and list anew.
Restart ==
    /\ S!Restart
    /\ dPc' = "idle"
    /\ dJob' = D!NoJob
    /\ D!Relist
    /\ UNCHANGED <<databases, dUsed, dLate, dDisturbed, dSecret>>

Next ==
    \/ \E n \in Storages : StorageStart(n) \/ StorageManager(n) \/ StorageUser(n)
    \/ \E n \in Backups : BackupStart(n) \/ BackupManager(n) \/ BackupUser(n)
    \/ StorageWorker
    \/ StorageTrouble
    \/ BackupWorker
    \/ BackupTrouble
    \/ Restart

Spec == Init /\ [][Next]_vars

(***************************************************************************)
(* Fairness: each controller has one worker goroutine that runs while its  *)
(* queue is not empty (with one object of each kind that is the order of   *)
(* the queue, too), events are delivered and timers fire.                  *)
(***************************************************************************)
StorageThread == StorageWorker \/ \E n \in Storages : StorageStart(n)
BackupThread == BackupWorker \/ \E n \in Backups : BackupStart(n)

Fairness ==
    /\ WF_<<sPc, sQueue>>(StorageThread)
    /\ WF_<<dPc, dQueue>>(BackupThread)
    /\ \A n \in Storages :
          /\ WF_sPending(StorageManager(n) /\ S!DeliverEvent(n))
          /\ WF_sDelayed(StorageManager(n) /\ S!FireTimer(n))
    /\ \A n \in Backups :
          /\ WF_dPending(BackupManager(n) /\ D!DeliverEvent(n))
          /\ WF_dDelayed(BackupManager(n) /\ D!FireTimer(n))

FairSpec == Spec /\ Fairness

(***************************************************************************)
(* Properties.                                                             *)
(***************************************************************************)
Live(o) == o.exists /\ ~o.deleting

\* A backup config that points at a storage that is there points at the one its
\* Storage names: never at a record left over from a lost save, nor at the record
\* of an earlier Storage of that name, however stale the status it was taken from.
ConfigNamesStorage ==
    \A d \in databases :
       d.config.storage # NoId /\ S!RowOf(d.config.storage) # {}
          => sApi[Target].exists /\ sApi[Target].status.id = d.config.storage

\* Both ends of the chain: once users and faults are quiet, a DatabaseBackup whose
\* Storage is there is Ready, and its backup config points at the record that Storage
\* names now, which exists.  A Storage that was deleted and created again has a new
\* ID, which only a later poll brings to the config.
EventuallyWired ==
    \A n \in Backups :
       <>[](Live(dApi[n]) /\ Live(sApi[Target])
              => \/ S!NoIdLeft(Target) \/ D!NoIdLeft(n)
                 \/ /\ S!Ready(sApi[Target]) /\ S!RowOf(sApi[Target].status.id) # {}
                    /\ D!Ready(dApi[n])
                    /\ \E d \in D!DatabaseOf(dApi[n].status.id) :
                          d.config.storage = sApi[Target].status.id)

\* A DatabaseBackup whose Storage has been deleted, under it, does not go on
\* saying that it is Ready.
LostStorageReported ==
    \A n \in Backups :
       <>[](Live(dApi[n]) /\ ~sApi[Target].exists => ~D!Ready(dApi[n]))

\* Whichever of the two is deleted first, and while whatever is under way for the
\* other, both go away.
BothDeletionsEnd ==
    /\ \A n \in Storages : sApi[n].deleting ~> ~sApi[n].exists
    /\ \A n \in Backups : dApi[n].deleting ~> ~dApi[n].exists
=============================================================================
