--------------------- MODULE DatabaseBackupController ---------------------
(***************************************************************************)
(* The reconcile loop of DatabaseBackupReconciler: it waits for the        *)
(* Storage and the Notifier an object refers to, then pushes three things  *)
(* to databasus one after the other (the database, its backup config, its  *)
(* healthcheck config), reads the health of the database back and reports. *)
(*                                                                         *)
(* As in ResourceController every call is a step.  The Storage and         *)
(* Notifier controllers are seen only through what this loop reads of      *)
(* them: the ID and the Ready condition of the object in the cache.        *)
(*                                                                         *)
(* Abstracted: one notifier reference; the password and the SSL material   *)
(* (one reference for up to three) are two reads of one Secret's version;  *)
(* HealthStatus stands for the three fields the refresh copies (each is    *)
(* overwritten when databasus answers a value and kept when it answers     *)
(* none).                                                                  *)
(***************************************************************************)
EXTENDS KubeObjects

CONSTANTS
    Incomplete,   \* specs that lack the section of their database type
    Physical,     \* specs that ask for backupType WAL_V1
    Checked,      \* specs with a healthcheck section
    Encrypted,    \* specs that refer to SSL material in the Secret
    NoSpec,       \* a config databasus has never been sent
    Ids,          \* database IDs databasus can hand out
    DepIds,       \* IDs of storages and notifiers
    NoId,         \* an empty ID
    Creds,        \* versions of the Secret an object refers to
    NoCred,       \* the Secret, or the key in it, does not exist
    MaxFaults,    \* bound on crashes, failed calls and foreign deletions
    OutOfBand     \* whether databases may be deleted behind the operator's back

ASSUME DatabaseBackupAssumption ==
    /\ Incomplete \subseteq Specs
    /\ Physical \subseteq Specs
    /\ Checked \subseteq Specs
    /\ Encrypted \subseteq Specs
    /\ NoSpec \notin Specs
    /\ NoId \notin Ids \cup DepIds
    /\ NoCred \notin Creds
    /\ MaxFaults \in Nat
    /\ OutOfBand \in BOOLEAN

VARIABLES
    pc,           \* the next call of the worker
    job,          \* its local variables; job.obj is the copy Reconcile edits
    databases,    \* the databases databasus stores, with their configs
    used,         \* every ID databasus ever handed out
    late,         \* requests whose client gave up, still to be served
    disturbed,    \* parts of databases last changed by a late request or a stranger
    deps,         \* the Storage and the Notifier in the cache
    secret,       \* secret[n]: the Secret of n, as the cache has it
    faults        \* how many faults have happened

serverVars == <<databases, used, late, disturbed>>
inputVars == <<deps, secret>>
vars == <<kubeVars, pc, job, serverVars, inputVars, faults>>

(***************************************************************************)
(* Types.                                                                  *)
(***************************************************************************)
Reasons == {"None", "Synced", "DependencyNotReady", "UnsupportedBackupType",
            "SecretResolutionFailed", "APISyncFailed",
            "BackupConfigSyncFailed", "HealthcheckSyncFailed"}

Healths == {"", "AVAILABLE", "UNAVAILABLE"}

Status == [id : Ids \cup {NoId}, reason : Reasons, condGen : Nat, obsGen : Nat,
           health : Healths]

NoStatus ==
    [id |-> NoId, reason |-> "None", condGen |-> 0, obsGen |-> 0, health |-> ""]

Object == ObjectsWith(Status)

Kinds == {"storage", "notifier"}

Dependency == [id : DepIds \cup {NoId}, ready : BOOLEAN]

\* What is sent for a database.
Content == [spec : Specs, password : Creds \cup {NoCred}, ssl : Creds \cup {NoCred},
            notifier : DepIds \cup {NoId}]

Config == [spec : Specs \cup {NoSpec}, storage : DepIds \cup {NoId}]

Database == [id : Ids, owner : Names, content : Content, config : Config,
             check : Specs \cup {NoSpec}, health : Healths]

Parts == {"database", "config", "check"}

Request == [op : Parts \cup {"delete"}, id : Ids \cup {NoId}, owner : Names,
            content : Content, config : Config, check : Specs]

Steps == {"idle", "deleteRemote", "removeFinalizer", "addFinalizer",
          "resolveStorage", "resolveNotifier", "readPassword", "readSsl",
          "saveDatabase", "saveConfig", "saveCheck", "refresh",
          "reportFailed", "reportSynced"}

Job == [key : Names, obj : Object, storage : DepIds \cup {NoId},
        notifier : DepIds \cup {NoId}, password : Creds \cup {NoCred},
        ssl : Creds \cup {NoCred}, reason : Reasons]

NoJob == [key |-> CHOOSE n \in Names : TRUE, obj |-> NeverCreated(NoStatus),
          storage |-> NoId, notifier |-> NoId, password |-> NoCred,
          ssl |-> NoCred, reason |-> "None"]

Ready(o) == o.status.reason = "Synced"

Init ==
    /\ KubeInit(NoStatus)
    /\ pc = "idle"
    /\ job = NoJob
    /\ databases = {}
    /\ used = {}
    /\ late = {}
    /\ disturbed = {}
    /\ deps = [k \in Kinds |-> [id |-> NoId, ready |-> FALSE]]
    /\ secret \in [Names -> Creds]
    /\ faults = 0

Fault == faults < MaxFaults /\ faults' = faults + 1

(***************************************************************************)
(* Users, the other two controllers, and the manager.                      *)
(***************************************************************************)
User(n) ==
    /\ \/ \E s \in Specs : CreateObject(n, s, NoStatus) \/ EditSpec(n, s)
       \/ DeleteObject(n)
    /\ UNCHANGED <<pc, job, serverVars, inputVars, faults>>

\* Nothing watches Secrets.
SetSecret(n, c) ==
    /\ secret[n] # c
    /\ edits < MaxEdits
    /\ edits' = edits + 1
    /\ secret' = [secret EXCEPT ![n] = c]
    /\ UNCHANGED <<api, cache, pending, queue, delayed>>
    /\ UNCHANGED <<pc, job, serverVars, deps, faults>>

\* Nothing watches them for this controller either: a dependency is synced for
\* the first time, fails, recovers with its ID, or is deleted.
DependencySyncs(k, id) ==
    /\ deps[k].id \in {id, NoId}
    /\ ~deps[k].ready
    /\ deps' = [deps EXCEPT ![k] = [id |-> id, ready |-> TRUE]]
    /\ UNCHANGED <<kubeVars, pc, job, serverVars, secret, faults>>

DependencyBreaks(k) ==
    /\ deps[k].ready
    /\ edits < MaxEdits
    /\ edits' = edits + 1
    /\ deps' = [deps EXCEPT ![k].ready = FALSE]
    /\ UNCHANGED <<api, cache, pending, queue, delayed>>
    /\ UNCHANGED <<pc, job, serverVars, secret, faults>>

DependencyGone(k) ==
    /\ deps[k].id # NoId
    /\ edits < MaxEdits
    /\ edits' = edits + 1
    /\ deps' = [deps EXCEPT ![k] = [id |-> NoId, ready |-> FALSE]]
    /\ UNCHANGED <<api, cache, pending, queue, delayed>>
    /\ UNCHANGED <<pc, job, serverVars, secret, faults>>

Manager(n) ==
    /\ DeliverEvent(n) \/ FireTimer(n) \/ Resync(n)
    /\ UNCHANGED <<pc, job, serverVars, inputVars, faults>>

(***************************************************************************)
(* The databasus API.  Deleting a database deletes its configs.            *)
(***************************************************************************)
DatabaseOf(id) == {d \in databases : d.id = id}

Insert(n, content, id) ==
    /\ id \in Ids \ used
    /\ databases' = databases \cup
          {[id |-> id, owner |-> n, content |-> content,
            config |-> [spec |-> NoSpec, storage |-> NoId],
            check |-> NoSpec, health |-> ""]}
    /\ used' = used \cup {id}

Rewrite(d, new) == databases' = (databases \ {d}) \cup {new}

Remove(id) == databases' = databases \ DatabaseOf(id)

\* databasus probes the database, and its health changes.
Probe(d, h) ==
    /\ d \in databases
    /\ h # "" /\ d.health # h
    /\ edits < MaxEdits
    /\ edits' = edits + 1
    /\ Rewrite(d, [d EXCEPT !.health = h])
    /\ UNCHANGED <<api, cache, pending, queue, delayed>>
    /\ UNCHANGED <<pc, job, used, late, disturbed, inputVars, faults>>

\* A request with an ID, applied to a database that exists.
Apply(q) ==
    \E d \in DatabaseOf(q.id) :
       \/ q.op = "database" /\ Rewrite(d, [d EXCEPT !.content = q.content])
       \/ q.op = "config" /\ Rewrite(d, [d EXCEPT !.config = q.config])
       \/ q.op = "check" /\ Rewrite(d, [d EXCEPT !.check = q.check])
       \/ q.op = "delete" /\ Remove(q.id)

\* A request whose client timed out is served after all.
ServeLate(q) ==
    /\ q \in late
    /\ late' = late \ {q}
    /\ \/ /\ q.op = "database" /\ q.id = NoId
          /\ \E id \in Ids : Insert(q.owner, q.content, id)
          /\ UNCHANGED disturbed
       \/ /\ Apply(q)
          /\ disturbed' = IF q.op = "delete" THEN disturbed
                           ELSE disturbed \cup {<<q.id, q.op>>}
          /\ UNCHANGED used
       \/ /\ q.id # NoId /\ DatabaseOf(q.id) = {}
          /\ UNCHANGED <<databases, used, disturbed>>
    /\ UNCHANGED <<kubeVars, pc, job, inputVars, faults>>

\* Somebody deletes a database through the web UI.
RemoveOutOfBand(id) ==
    /\ OutOfBand
    /\ DatabaseOf(id) # {}
    /\ Fault
    /\ Remove(id)
    /\ disturbed' = disturbed \cup ({id} \X Parts)
    /\ UNCHANGED <<kubeVars, pc, job, used, late, inputVars>>

(***************************************************************************)
(* Reconcile: take a key, read the object, decide.                         *)
(***************************************************************************)
Begin(n, step) ==
    /\ pc = "idle"
    /\ n \in queue
    /\ queue' = queue \ {n}
    /\ pc' = step
    /\ job' = IF step = "idle" THEN NoJob
              ELSE [NoJob EXCEPT !.key = n, !.obj = cache[n]]
    /\ UNCHANGED <<api, cache, pending, delayed, edits>>
    /\ UNCHANGED <<serverVars, inputVars, faults>>

ReconcileGone(n) ==
    /\ ~cache[n].exists \/ (cache[n].deleting /\ ~cache[n].finalizer)
    /\ Begin(n, "idle")

ReconcileDeletion(n) ==
    /\ cache[n].exists /\ cache[n].deleting /\ cache[n].finalizer
    /\ \/ cache[n].status.id # NoId /\ Begin(n, "deleteRemote")
       \/ cache[n].status.id = NoId /\ Begin(n, "removeFinalizer")

ReconcileUnprotected(n) ==
    /\ cache[n].exists /\ ~cache[n].deleting /\ ~cache[n].finalizer
    /\ Begin(n, "addFinalizer")

\* Mutant: an object whose generation has been observed is left alone.
ReconcileLiveUnlessObserved(n) ==
    /\ cache[n].exists /\ ~cache[n].deleting /\ cache[n].finalizer
    /\ IF Ready(cache[n]) /\ cache[n].status.obsGen = cache[n].gen
       THEN Begin(n, "idle")
       ELSE Begin(n, "resolveStorage")

ReconcileLive(n) ==
    /\ cache[n].exists /\ ~cache[n].deleting /\ cache[n].finalizer
    /\ Begin(n, "resolveStorage")

Start(n) ==
    \/ ReconcileGone(n)
    \/ ReconcileDeletion(n)
    \/ ReconcileUnprotected(n)
    \/ ReconcileLive(n)

(***************************************************************************)
(* How a Reconcile call goes on and ends.                                  *)
(***************************************************************************)
kubeButDelayed == <<api, cache, pending, queue, edits>>

Goto(step, j) == pc' = step /\ job' = j

Continue(step, j) == Goto(step, j) /\ UNCHANGED delayed

Return == Continue("idle", NoJob)

\* Result{RequeueAfter: d} and a returned error both bring the key back.
ReturnAndRetry == Goto("idle", NoJob) /\ delayed' = delayed \cup {job.key}

FailWith(reason) == Continue("reportFailed", [job EXCEPT !.reason = reason])

(***************************************************************************)
(* Deletion, and the finalizer.                                            *)
(***************************************************************************)
\* Mutant: the error of DeleteDatabase is logged, and the finalizer removed.
DeleteRemoteUnchecked ==
    /\ pc = "deleteRemote"
    /\ Remove(job.obj.status.id) \/ UNCHANGED databases
    /\ Goto("removeFinalizer", job)
    /\ UNCHANGED <<kubeVars, used, late, disturbed, inputVars, faults>>

\* Mutant: "not found" is an error like any other.
DeleteRemoteStrict ==
    /\ pc = "deleteRemote"
    /\ Remove(job.obj.status.id)
    /\ IF DatabaseOf(job.obj.status.id) # {}
       THEN Continue("removeFinalizer", job)
       ELSE ReturnAndRetry
    /\ UNCHANGED <<kubeButDelayed, used, late, disturbed, inputVars, faults>>

DeleteRemote ==
    /\ pc = "deleteRemote"
    /\ Remove(job.obj.status.id)
    /\ Goto("removeFinalizer", job)
    /\ UNCHANGED <<kubeVars, used, late, disturbed, inputVars, faults>>

RemoveFinalizer ==
    /\ pc = "removeFinalizer"
    /\ \/ /\ Current(job.key, job.obj)
          /\ DropFinalizer(job.key)
          /\ Return
       \/ /\ ~Current(job.key, job.obj)
          /\ ReturnAndRetry
          /\ UNCHANGED <<api, pending>>
    /\ UNCHANGED <<cache, queue, edits, serverVars, inputVars, faults>>

AddFinalizer ==
    /\ pc = "addFinalizer"
    /\ \/ /\ Current(job.key, job.obj)
          /\ StoreFinalizer(job.key)
          /\ Return
       \/ /\ ~Current(job.key, job.obj)
          /\ ReturnAndRetry
          /\ UNCHANGED <<api, pending>>
    /\ UNCHANGED <<cache, queue, edits, serverVars, inputVars, faults>>

(***************************************************************************)
(* Dependencies: an ID and a Ready condition.                              *)
(***************************************************************************)
Usable(k) == deps[k].id # NoId /\ deps[k].ready

ResolveStorage ==
    /\ pc = "resolveStorage"
    /\ \/ /\ Usable("storage")
          /\ Continue("resolveNotifier", [job EXCEPT !.storage = deps["storage"].id])
       \/ /\ ~Usable("storage")
          /\ FailWith("DependencyNotReady")
    /\ UNCHANGED <<kubeButDelayed, serverVars, inputVars, faults>>

\* Mutant: a physical backup type is refused for new databases only.
ResolveNotifierOfNew ==
    /\ pc = "resolveNotifier"
    /\ LET refused == job.obj.spec \in Physical /\ job.obj.status.id = NoId
       IN  \/ /\ Usable("notifier") /\ ~refused
              /\ Continue("readPassword", [job EXCEPT !.notifier = deps["notifier"].id])
           \/ /\ Usable("notifier") /\ refused
              /\ FailWith("UnsupportedBackupType")
           \/ /\ ~Usable("notifier")
              /\ FailWith("DependencyNotReady")
    /\ UNCHANGED <<kubeButDelayed, serverVars, inputVars, faults>>

\* Mutant: a physical backup type is skipped without a condition.
ResolveNotifierSilent ==
    /\ pc = "resolveNotifier"
    /\ \/ /\ Usable("notifier") /\ job.obj.spec \notin Physical
          /\ Continue("readPassword", [job EXCEPT !.notifier = deps["notifier"].id])
       \/ /\ Usable("notifier") /\ job.obj.spec \in Physical
          /\ Return
       \/ /\ ~Usable("notifier")
          /\ FailWith("DependencyNotReady")
    /\ UNCHANGED <<kubeButDelayed, serverVars, inputVars, faults>>

\* The backup type is looked at once the dependencies are there.
ResolveNotifier ==
    /\ pc = "resolveNotifier"
    /\ \/ /\ Usable("notifier") /\ job.obj.spec \notin Physical
          /\ Continue("readPassword", [job EXCEPT !.notifier = deps["notifier"].id])
       \/ /\ Usable("notifier") /\ job.obj.spec \in Physical
          /\ FailWith("UnsupportedBackupType")
       \/ /\ ~Usable("notifier")
          /\ FailWith("DependencyNotReady")
    /\ UNCHANGED <<kubeButDelayed, serverVars, inputVars, faults>>

(***************************************************************************)
(* The Secrets.                                                            *)
(***************************************************************************)
ReadPassword ==
    /\ pc = "readPassword"
    /\ LET c == secret[job.key]
       IN  \/ /\ job.obj.spec \notin Incomplete /\ c # NoCred
              /\ Continue("readSsl", [job EXCEPT !.password = c])
           \/ /\ job.obj.spec \in Incomplete \/ c = NoCred
              /\ FailWith("SecretResolutionFailed")
    /\ UNCHANGED <<kubeButDelayed, serverVars, inputVars, faults>>

ReadSsl ==
    /\ pc = "readSsl"
    /\ LET c == secret[job.key]
       IN  \/ /\ job.obj.spec \notin Encrypted
              /\ Continue("saveDatabase", job)
           \/ /\ job.obj.spec \in Encrypted /\ c # NoCred
              /\ Continue("saveDatabase", [job EXCEPT !.ssl = c])
           \/ /\ job.obj.spec \in Encrypted /\ c = NoCred
              /\ FailWith("SecretResolutionFailed")
    /\ UNCHANGED <<kubeButDelayed, serverVars, inputVars, faults>>

(***************************************************************************)
(* The three requests.                                                     *)
(***************************************************************************)
JobContent == [spec |-> job.obj.spec, password |-> job.password,
               ssl |-> job.ssl, notifier |-> job.notifier]

JobConfig == [spec |-> job.obj.spec, storage |-> job.storage]

JobRequest(op) ==
    [op |-> op, id |-> job.obj.status.id, owner |-> job.key,
     content |-> JobContent, config |-> JobConfig, check |-> job.obj.spec]

Push(op) ==
    /\ Apply(JobRequest(op))
    /\ disturbed' = disturbed \ {<<job.obj.status.id, op>>}

\* Mutant: a database is created whether the status names one or not.
CreateDatabaseAlways ==
    /\ pc = "saveDatabase"
    /\ \E id \in Ids :
          /\ Insert(job.key, JobContent, id)
          /\ Goto("saveConfig", [job EXCEPT !.obj.status.id = id])
    /\ UNCHANGED <<kubeVars, late, disturbed, inputVars, faults>>

\* Mutant: the ID is left to the status update of the end.
CreateDatabaseUnrecorded ==
    /\ pc = "saveDatabase"
    /\ job.obj.status.id = NoId
    /\ \E id \in Ids : Insert(job.key, JobContent, id)
    /\ Goto("saveConfig", job)
    /\ UNCHANGED <<kubeVars, late, disturbed, inputVars, faults>>

\* Mutant: the status gets the ID of the storage, the other ID at hand.
CreateDatabaseMisnamed ==
    /\ pc = "saveDatabase"
    /\ job.obj.status.id = NoId
    /\ \E id \in Ids : Insert(job.key, JobContent, id)
    /\ Goto("saveConfig", [job EXCEPT !.obj.status.id = job.storage])
    /\ UNCHANGED <<kubeVars, late, disturbed, inputVars, faults>>

\* CreateDatabase; the ID goes into the copy of the status at once.
CreateDatabase ==
    /\ pc = "saveDatabase"
    /\ job.obj.status.id = NoId
    /\ \E id \in Ids :
          /\ Insert(job.key, JobContent, id)
          /\ Goto("saveConfig", [job EXCEPT !.obj.status.id = id])
    /\ UNCHANGED <<kubeVars, late, disturbed, inputVars, faults>>

UpdateDatabase ==
    /\ pc = "saveDatabase"
    /\ Push("database")
    /\ Goto("saveConfig", job)
    /\ UNCHANGED <<kubeVars, used, late, inputVars, faults>>

AfterConfig == IF job.obj.spec \in Checked THEN "saveCheck" ELSE "refresh"

SaveBackupConfig ==
    /\ pc = "saveConfig"
    /\ Push("config")
    /\ Goto(AfterConfig, job)
    /\ UNCHANGED <<kubeVars, used, late, inputVars, faults>>

SaveHealthcheckConfig ==
    /\ pc = "saveCheck"
    /\ Push("check")
    /\ Goto("refresh", job)
    /\ UNCHANGED <<kubeVars, used, late, inputVars, faults>>

FailureOf(step) ==
    CASE step = "saveDatabase" -> "APISyncFailed"
      [] step = "saveConfig"   -> "BackupConfigSyncFailed"
      [] step = "saveCheck"    -> "HealthcheckSyncFailed"

\* The database is gone, or the supply of IDs (a bound of the model) is.
SaveRejected ==
    /\ pc \in {"saveDatabase", "saveConfig", "saveCheck"}
    /\ \/ job.obj.status.id # NoId /\ DatabaseOf(job.obj.status.id) = {}
       \/ job.obj.status.id = NoId /\ used = Ids
    /\ FailWith(FailureOf(pc))
    /\ UNCHANGED <<kubeButDelayed, serverVars, inputVars, faults>>

OpOf(step) ==
    CASE step = "saveDatabase" -> "database"
      [] step = "saveConfig"   -> "config"
      [] step = "saveCheck"    -> "check"
      [] step = "deleteRemote" -> "delete"

\* Mutant: a failed healthcheck config does not end the pass.
CallFailsSoftly ==
    /\ pc \in {"deleteRemote", "saveDatabase", "saveConfig", "saveCheck"}
    /\ Fault
    /\ UNCHANGED late \/ late' = late \cup {JobRequest(OpOf(pc))}
    /\ \/ pc = "deleteRemote" /\ ReturnAndRetry
       \/ pc = "saveCheck" /\ Continue("refresh", job)
       \/ pc \in {"saveDatabase", "saveConfig"} /\ FailWith(FailureOf(pc))
    /\ UNCHANGED <<kubeButDelayed, databases, used, disturbed, inputVars>>

\* A call that fails: refused without effect, or given up on after the
\* client's timeout while databasus may still serve it.
CallFails ==
    /\ pc \in {"deleteRemote", "saveDatabase", "saveConfig", "saveCheck"}
    /\ Fault
    /\ UNCHANGED late \/ late' = late \cup {JobRequest(OpOf(pc))}
    /\ \/ pc = "deleteRemote" /\ ReturnAndRetry
       \/ pc # "deleteRemote" /\ FailWith(FailureOf(pc))
    /\ UNCHANGED <<kubeButDelayed, databases, used, disturbed, inputVars>>

(***************************************************************************)
(* Reading the health back: an error or an absent database changes nothing.*)
(***************************************************************************)
Refresh ==
    /\ pc = "refresh"
    /\ \/ \E d \in DatabaseOf(job.obj.status.id) :
             /\ d.health # ""
             /\ Goto("reportSynced", [job EXCEPT !.obj.status.health = d.health])
             /\ UNCHANGED faults
       \/ /\ \A d \in DatabaseOf(job.obj.status.id) : d.health = ""
          /\ Goto("reportSynced", job)
          /\ UNCHANGED faults
       \/ Fault /\ Goto("reportSynced", job)
    /\ UNCHANGED <<kubeVars, serverVars, inputVars>>

(***************************************************************************)
(* Status updates.  The one of a failed call ignores its own error, and an *)
(* unsupported backup type is not retried.                                 *)
(***************************************************************************)
FailedStatus ==
    [job.obj.status EXCEPT !.reason = job.reason, !.condGen = job.obj.gen]

SyncedStatus ==
    [job.obj.status EXCEPT !.reason = "Synced", !.condGen = job.obj.gen,
                           !.obsGen = job.obj.gen]

\* Mutant: a failure is reported and not retried.
AfterFailureOnce == Return

AfterFailure ==
    \/ job.reason = "UnsupportedBackupType" /\ Return
    \/ job.reason # "UnsupportedBackupType" /\ ReturnAndRetry

ReportFailed ==
    /\ pc = "reportFailed"
    /\ \/ /\ Current(job.key, job.obj)
          /\ StoreStatus(job.key, FailedStatus)
       \/ /\ ~Current(job.key, job.obj)
          /\ UNCHANGED <<api, pending>>
    /\ AfterFailure
    /\ UNCHANGED <<cache, queue, edits, serverVars, inputVars, faults>>

\* Mutant: a synced object is not polled.
ReportSyncedOnce ==
    /\ pc = "reportSynced"
    /\ \/ /\ Current(job.key, job.obj)
          /\ StoreStatus(job.key, SyncedStatus)
          /\ Return
       \/ /\ ~Current(job.key, job.obj)
          /\ UNCHANGED <<api, pending>>
          /\ ReturnAndRetry
    /\ UNCHANGED <<cache, queue, edits, serverVars, inputVars, faults>>

\* Success comes back after statusPollInterval, a conflict after a backoff.
ReportSynced ==
    /\ pc = "reportSynced"
    /\ \/ /\ Current(job.key, job.obj)
          /\ StoreStatus(job.key, SyncedStatus)
       \/ /\ ~Current(job.key, job.obj)
          /\ UNCHANGED <<api, pending>>
    /\ ReturnAndRetry
    /\ UNCHANGED <<cache, queue, edits, serverVars, inputVars, faults>>

\* A write to the Kubernetes API fails for a reason other than a conflict.
KubeWriteFails ==
    /\ \/ pc \in {"addFinalizer", "removeFinalizer", "reportSynced"} /\ ReturnAndRetry
       \/ pc = "reportFailed" /\ AfterFailure
    /\ Fault
    /\ UNCHANGED <<kubeButDelayed, serverVars, inputVars>>

(***************************************************************************)
(* The process dies and a new one starts from a fresh list.                *)
(***************************************************************************)
Restart ==
    /\ Fault
    /\ Goto("idle", NoJob)
    /\ Relist
    /\ UNCHANGED <<serverVars, inputVars>>

(***************************************************************************)
(* The specification.                                                      *)
(***************************************************************************)
Worker ==
    \/ DeleteRemote
    \/ RemoveFinalizer
    \/ AddFinalizer
    \/ ResolveStorage
    \/ ResolveNotifier
    \/ ReadPassword
    \/ ReadSsl
    \/ CreateDatabase
    \/ UpdateDatabase
    \/ SaveBackupConfig
    \/ SaveHealthcheckConfig
    \/ SaveRejected
    \/ Refresh
    \/ ReportFailed
    \/ ReportSynced

Dependencies ==
    \E k \in Kinds :
       \/ \E id \in DepIds : DependencySyncs(k, id)
       \/ DependencyBreaks(k)
       \/ DependencyGone(k)

Environment ==
    \/ \E q \in late : ServeLate(q)
    \/ \E d \in databases, h \in Healths : Probe(d, h)
    \/ \E id \in Ids : RemoveOutOfBand(id)
    \/ CallFails
    \/ KubeWriteFails
    \/ Restart

Next ==
    \/ \E n \in Names :
          \/ User(n) \/ Manager(n) \/ Start(n)
          \/ \E c \in Creds \cup {NoCred} : SetSecret(n, c)
    \/ Dependencies
    \/ Worker
    \/ Environment

Spec == Init /\ [][Next]_vars

(***************************************************************************)
(* Fairness of the runtime.  The informer's resync (every ten hours) is    *)
(* not assumed: the loop's own timers are enough for what is claimed here. *)
(***************************************************************************)
Fairness ==
    /\ WF_vars(Worker)
    /\ \A n \in Names :
          /\ SF_vars(Start(n))
          /\ WF_vars(Manager(n) /\ DeliverEvent(n))
          /\ WF_vars(Manager(n) /\ FireTimer(n))

FairSpec == Spec /\ Fairness

(***************************************************************************)
(* Properties.                                                             *)
(***************************************************************************)
\* Every variable has its type; databasus stores databases it gave an ID to.
TypeOK ==
    /\ api \in [Names -> Object]
    /\ cache \in [Names -> Object]
    /\ pending \in [Names -> Seq(Object)]
    /\ queue \subseteq Names
    /\ delayed \subseteq Names
    /\ edits \in Nat
    /\ pc \in Steps
    /\ job \in Job
    /\ databases \subseteq Database
    /\ \A d \in databases : d.id \in used
    /\ used \subseteq Ids
    /\ late \subseteq Request
    /\ disturbed \subseteq Ids \X Parts
    /\ deps \in [Kinds -> Dependency]
    /\ secret \in [Names -> Creds \cup {NoCred}]
    /\ faults \in Nat

\* An object that is gone has left no database under the ID its status named.
RecordedDatabaseRemoved ==
    \A n \in Names :
       ~api[n].exists /\ api[n].status.id # NoId => DatabaseOf(api[n].status.id) = {}

\* Ready=True for the current generation means that all three requests of one
\* pass have arrived: the database, its backup config and, when the spec has
\* the section, its healthcheck config are those of the spec, however often the
\* pass was cut short in between.  Excepted is what a late request or a
\* stranger changed afterwards.
SyncedPipeline ==
    \A n \in Names :
       LET o == api[n]
           intact(part) == <<o.status.id, part>> \notin disturbed
       IN o.exists /\ Ready(o) /\ o.status.obsGen = o.gen =>
             \/ ~intact("database") /\ DatabaseOf(o.status.id) = {}
             \/ \E d \in DatabaseOf(o.status.id) :
                   /\ intact("database") => d.content.spec = o.spec
                   /\ intact("config") => d.config.spec = o.spec
                   /\ intact("check") /\ o.spec \in Checked => d.check = o.spec

\* A failure between the first and the last request does not lose the database:
\* a status that reports one of the later requests also names the ID.
PartialFailureKeepsId ==
    \A n \in Names :
       api[n].status.reason \in {"BackupConfigSyncFailed", "HealthcheckSyncFailed"}
          => api[n].status.id \in used

\* README.md: "backupType: WAL_V1 is rejected".  No database or backup config in
\* databasus was ever written for such a spec, by whatever sequence of edits.
PhysicalNeverPushed ==
    \A d \in databases : {d.content.spec, d.config.spec, d.check} \cap Physical = {}

\* The ID an object has recorded is never replaced or lost while it exists,
\* although the loop edits its copy of the status half-way.
IdStable ==
    [][\A n \in Names :
          api[n].exists /\ api'[n].exists /\ api[n].status.id # NoId
             => api'[n].status.id = api[n].status.id]_vars

\* A deleted object goes away in the end: it stays marked until it does.
DeletionCompletes ==
    \A n \in Names : []<>~(api[n].exists /\ api[n].deleting)

\* What the loop is for.
Converged(n) ==
    LET o == api[n] IN
    /\ Ready(o)
    /\ o.status.obsGen = o.gen
    /\ \E d \in DatabaseOf(o.status.id) :
          /\ d.content = [spec |-> o.spec, password |-> secret[n],
                          ssl |-> IF o.spec \in Encrypted THEN secret[n] ELSE NoCred,
                          notifier |-> deps["notifier"].id]
          /\ d.config = [spec |-> o.spec, storage |-> deps["storage"].id]
          /\ o.spec \in Checked => d.check = o.spec
          /\ d.health \in {"", o.status.health}

\* A live object whose dependencies are there.
Unblocked(n) ==
    /\ api[n].exists /\ ~api[n].deleting
    /\ \A k \in Kinds : Usable(k)

Syncable(n) ==
    /\ Unblocked(n)
    /\ api[n].spec \notin Incomplete \cup Physical
    /\ secret[n] # NoCred

\* The model has run out of IDs before this object recorded one.
NoIdLeft(n) == api[n].status.id = NoId /\ used = Ids

\* The database an object names is gone for good: it is updated, refused and
\* retried, never created again, but the object does not say that it is Ready.
MissingReported(n) ==
    /\ api[n].status.id # NoId
    /\ DatabaseOf(api[n].status.id) = {}
    /\ ~Ready(api[n])

\* Once users, dependencies and faults are quiet, a complete object is Ready,
\* databasus holds its spec, its present Secret and the present IDs of its
\* dependencies, and its status shows the health databasus last saw: nothing
\* but the loop's own timers notices a change of the last three.  An object whose
\* database a stranger has deleted ends up not Ready, instead.
EventuallyConverged ==
    \A n \in Names :
       <>[](Syncable(n) => Converged(n) \/ MissingReported(n) \/ NoIdLeft(n))

\* An object whose Storage or Notifier is broken or gone for good stops saying
\* that it is Ready, although nothing tells this loop about it.  Excepted is a
\* physical backup type after a fault: the refusal is not retried, so where its only
\* status write fails the Ready of before the edit stays, with no timer left.
BlockedReported ==
    \A n \in Names :
       <>[](api[n].exists /\ ~api[n].deleting /\ ~Unblocked(n)
               => \/ ~Ready(api[n])
                  \/ api[n].spec \in Physical /\ faults > 0)

\* A physical backup type ends in the condition that says so, once the
\* dependencies are there (unless the one write that reports it failed).
PhysicalReported ==
    \A n \in Names :
       <>[](Unblocked(n) /\ api[n].spec \in Physical
               => api[n].status.reason = "UnsupportedBackupType" \/ faults > 0)

(***************************************************************************)
(* The abstract specification this loop implements.                        *)
(***************************************************************************)
Phase(o) == IF ~o.exists THEN "absent" ELSE IF o.deleting THEN "deleting" ELSE "live"

Promise == INSTANCE RecordSync WITH
    phase <- [n \in Names |-> Phase(api[n])],
    known <- [n \in Names |-> IF api[n].exists THEN api[n].status.id ELSE NoId],
    records <- {[id |-> r.id, owner |-> r.owner] : r \in databases},
    issued <- used

\* Every step is one of RecordSync or changes nothing of it: an object only comes
\* to name a record of its own, keeps it until it is being deleted, and goes away
\* after it.  That no other record is deleted is part of it where OutOfBand is FALSE;
\* with strangers about, RecordSync allows any record to go.
Implements == Promise!Spec

(***************************************************************************)
(* What README.md says of the program, and the code does not do.           *)
(***************************************************************************)
\* "syncs their state to a running databasus instance": a Ready object whose
\* spec has no healthcheck section has no healthcheck config left in databasus.
HealthcheckSynced ==
    \A n \in Names :
       LET o == api[n] IN
       o.exists /\ Ready(o) /\ o.status.obsGen = o.gen /\ o.spec \notin Checked
          => \A d \in DatabaseOf(o.status.id) : d.check = NoSpec
=============================================================================
