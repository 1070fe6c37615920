------------------------ MODULE ResourceController ------------------------
(***************************************************************************)
(* The reconcile loop that StorageReconciler and NotifierReconciler share  *)
(* line for line (they differ in the sections of their types): one worker  *)
(* takes a key from the work queue, reads the object from the cache and    *)
(* drives one record of the databasus API towards it.                      *)
(*                                                                         *)
(* Every call the loop makes that another process can get in between of is *)
(* a step of its own: the two Secret reads, the HTTP call, each write to   *)
(* the Kubernetes API.  "pc" is the call the worker makes next and "job"   *)
(* holds the local variables of the Reconcile call in progress.            *)
(*                                                                         *)
(* Abstracted: a spec is a member of Specs, of which the section of the    *)
(* type and the number of Secret references matter (two stand for more);   *)
(* an object's references name keys of one Secret, which is one version    *)
(* number or missing; a condition is its reason and observedGeneration     *)
(* (Ready is True exactly when the reason is "Synced"); messages and       *)
(* transition times are left out.                                          *)
(***************************************************************************)
EXTENDS KubeObjects

CONSTANTS
    Incomplete,   \* specs that name a type but lack its section
    NoRef,        \* specs that refer to no key of a Secret
    OneRef,       \* specs that refer to one key; the others refer to two
    Ids,          \* record IDs databasus can hand out
    NoId,         \* the empty status.id
    Creds,        \* versions of the Secret an object refers to
    NoCred,       \* the Secret, or the key in it, does not exist
    MaxFaults,    \* bound on crashes, failed calls and foreign deletions
    OutOfBand     \* whether records may be deleted behind the operator's back

ASSUME ResourceAssumption ==
    /\ Incomplete \subseteq Specs
    /\ NoRef \subseteq Specs
    /\ OneRef \subseteq Specs \ NoRef
    /\ NoId \notin Ids
    /\ NoCred \notin Creds
    /\ MaxFaults \in Nat
    /\ OutOfBand \in BOOLEAN

VARIABLES
    pc,           \* the next call of the worker
    job,          \* its local variables
    rows,         \* the records databasus stores
    used,         \* every ID databasus ever handed out
    late,         \* requests whose client gave up, still to be served
    disturbed,    \* records last changed by a late request or by a stranger
    secret,       \* secret[n]: the Secret of n in the API server
    secretSeen,   \* secretSeen[n]: the Secret of n in the cache
    faults        \* how many faults have happened

serverVars == <<rows, used, late, disturbed>>
secretVars == <<secret, secretSeen>>
vars == <<kubeVars, pc, job, serverVars, secretVars, faults>>

(***************************************************************************)
(* Types.                                                                  *)
(***************************************************************************)
Reasons == {"None", "Synced", "SecretResolutionFailed", "APISyncFailed"}

Status == [id : Ids \cup {NoId}, reason : Reasons, condGen : Nat, obsGen : Nat]

NoStatus == [id |-> NoId, reason |-> "None", condGen |-> 0, obsGen |-> 0]

Object == ObjectsWith(Status)

Row == [id : Ids \cup {NoId}, owner : Names, spec : Specs,
        first : Creds \cup {NoCred}, second : Creds \cup {NoCred}]

Request == [op : {"save", "delete"}, row : Row]

Steps == {"idle", "deleteRemote", "removeFinalizer", "addFinalizer",
          "readFirst", "readSecond", "save", "reportFailed", "reportSynced"}

Job == [key : Names, obj : Object, first : Creds \cup {NoCred},
        second : Creds \cup {NoCred}, id : Ids \cup {NoId}, reason : Reasons]

NoJob == [key |-> CHOOSE n \in Names : TRUE, obj |-> NeverCreated(NoStatus),
          first |-> NoCred, second |-> NoCred, id |-> NoId, reason |-> "None"]

Ready(o) == o.status.reason = "Synced"

Init ==
    /\ KubeInit(NoStatus)
    /\ pc = "idle"
    /\ job = NoJob
    /\ rows = {}
    /\ used = {}
    /\ late = {}
    /\ disturbed = {}
    /\ secret \in [Names -> Creds \cup {NoCred}]
    /\ secretSeen = secret
    /\ faults = 0

Fault == faults < MaxFaults /\ faults' = faults + 1

(***************************************************************************)
(* Users.  Nothing watches Secrets: a change only reaches the cache.       *)
(***************************************************************************)
SetSecret(n, c) ==
    /\ secret[n] # c
    /\ edits < MaxEdits
    /\ edits' = edits + 1
    /\ secret' = [secret EXCEPT ![n] = c]
    /\ UNCHANGED <<api, cache, pending, queue, delayed>>
    /\ UNCHANGED <<pc, job, serverVars, secretSeen, faults>>

DeliverSecret(n) ==
    /\ secretSeen[n] # secret[n]
    /\ secretSeen' = [secretSeen EXCEPT ![n] = secret[n]]
    /\ UNCHANGED <<kubeVars, pc, job, serverVars, secret, faults>>

User(n) ==
    \/ /\ \/ \E s \in Specs : CreateObject(n, s, NoStatus) \/ EditSpec(n, s)
          \/ DeleteObject(n)
       /\ UNCHANGED <<pc, job, serverVars, secretVars, faults>>
    \/ \E c \in Creds \cup {NoCred} : SetSecret(n, c)

Manager(n) ==
    /\ DeliverEvent(n) \/ FireTimer(n) \/ Resync(n)
    /\ UNCHANGED <<pc, job, serverVars, secretVars, faults>>

(***************************************************************************)
(* The databasus API.  A saved record without an ID gets a fresh one; a    *)
(* save that names a missing record is answered "record not found".        *)
(***************************************************************************)
RowOf(id) == {r \in rows : r.id = id}

Insert(r, id) ==
    /\ id \in Ids \ used
    /\ rows' = rows \cup {[r EXCEPT !.id = id]}
    /\ used' = used \cup {id}

Replace(r) == rows' = (rows \ RowOf(r.id)) \cup {r}

Remove(id) == rows' = rows \ RowOf(id)

\* A request whose client timed out is served after all.
ServeLate(q) ==
    /\ q \in late
    /\ late' = late \ {q}
    /\ \/ /\ q.op = "save" /\ q.row.id = NoId
          /\ \E id \in Ids : Insert(q.row, id)
          /\ UNCHANGED disturbed
       \/ /\ q.op = "save" /\ RowOf(q.row.id) # {}
          /\ Replace(q.row)
          /\ disturbed' = disturbed \cup {q.row.id}
          /\ UNCHANGED used
       \/ /\ q.op = "save" /\ q.row.id # NoId /\ RowOf(q.row.id) = {}
          /\ UNCHANGED <<rows, used, disturbed>>
       \/ /\ q.op = "delete"
          /\ Remove(q.row.id)
          /\ UNCHANGED <<used, disturbed>>
    /\ UNCHANGED <<kubeVars, pc, job, secretVars, faults>>

\* Somebody deletes a record through the web UI.
RemoveOutOfBand(id) ==
    /\ OutOfBand
    /\ RowOf(id) # {}
    /\ Fault
    /\ Remove(id)
    /\ disturbed' = disturbed \cup {id}
    /\ UNCHANGED <<kubeVars, pc, job, used, late, secretVars>>

(***************************************************************************)
(* Reconcile: take a key, read the object, decide.                         *)
(***************************************************************************)
Begin(n, step) ==
    /\ pc = "idle"
    /\ n \in queue
    /\ queue' = queue \ {n}
    /\ pc' = step
    /\ job' = IF step = "idle" THEN NoJob
              ELSE [NoJob EXCEPT !.key = n, !.obj = cache[n]]
    /\ UNCHANGED <<api, cache, pending, delayed, edits>>
    /\ UNCHANGED <<serverVars, secretVars, faults>>

\* Not found, or being deleted without our finalizer: nothing to do.
ReconcileGone(n) ==
    /\ ~cache[n].exists \/ (cache[n].deleting /\ ~cache[n].finalizer)
    /\ Begin(n, "idle")

\* Mutant: the deletion timestamp is not looked at.
ReconcileDeletionOfLive(n) ==
    /\ cache[n].exists /\ cache[n].finalizer
    /\ \/ cache[n].status.id # NoId /\ Begin(n, "deleteRemote")
       \/ cache[n].status.id = NoId /\ Begin(n, "removeFinalizer")

\* Only a record the status names is deleted.
ReconcileDeletion(n) ==
    /\ cache[n].exists /\ cache[n].deleting /\ cache[n].finalizer
    /\ \/ cache[n].status.id # NoId /\ Begin(n, "deleteRemote")
       \/ cache[n].status.id = NoId /\ Begin(n, "removeFinalizer")

ReconcileUnprotected(n) ==
    /\ cache[n].exists /\ ~cache[n].deleting /\ ~cache[n].finalizer
    /\ Begin(n, "addFinalizer")

\* Mutant: the record is saved whether the finalizer is there or not.
ReconcileLiveUnprotected(n) ==
    /\ cache[n].exists /\ ~cache[n].deleting
    /\ Begin(n, "readFirst")

\* Mutant: an object whose generation has been observed is left alone.
ReconcileLiveUnlessObserved(n) ==
    /\ cache[n].exists /\ ~cache[n].deleting /\ cache[n].finalizer
    /\ IF Ready(cache[n]) /\ cache[n].status.obsGen = cache[n].gen
       THEN Begin(n, "idle")
       ELSE Begin(n, "readFirst")

ReconcileLive(n) ==
    /\ cache[n].exists /\ ~cache[n].deleting /\ cache[n].finalizer
    /\ Begin(n, "readFirst")

Start(n) ==
    \/ ReconcileGone(n)
    \/ ReconcileDeletion(n)
    \/ ReconcileUnprotected(n)
    \/ ReconcileLive(n)

(***************************************************************************)
(* How a Reconcile call goes on and ends.                                  *)
(***************************************************************************)
Goto(step, j) == pc' = step /\ job' = j

Return == Goto("idle", NoJob) /\ UNCHANGED delayed

\* Result{RequeueAfter: d} and a returned error both bring the key back.
ReturnAndRetry == Goto("idle", NoJob) /\ delayed' = delayed \cup {job.key}

FailWith(reason) ==
    /\ Goto("reportFailed", [job EXCEPT !.reason = reason])
    /\ UNCHANGED delayed

kubeButDelayed == <<api, cache, pending, queue, edits>>

(***************************************************************************)
(* Deletion.                                                               *)
(***************************************************************************)
\* Mutant: the error of DeleteStorage is logged, and the finalizer removed.
DeleteRemoteUnchecked ==
    /\ pc = "deleteRemote"
    /\ Remove(job.obj.status.id) \/ UNCHANGED rows
    /\ Goto("removeFinalizer", job)
    /\ UNCHANGED <<kubeVars, used, late, disturbed, secretVars, faults>>

\* Mutant: "not found" is an error like any other.
DeleteRemoteStrict ==
    /\ pc = "deleteRemote"
    /\ Remove(job.obj.status.id)
    /\ IF RowOf(job.obj.status.id) # {}
       THEN Goto("removeFinalizer", job) /\ UNCHANGED delayed
       ELSE ReturnAndRetry
    /\ UNCHANGED <<kubeButDelayed, used, late, disturbed, secretVars, faults>>

\* 200, 204 and "not found" are all success.
DeleteRemote ==
    /\ pc = "deleteRemote"
    /\ Remove(job.obj.status.id)
    /\ Goto("removeFinalizer", job)
    /\ UNCHANGED <<kubeVars, used, late, disturbed, secretVars, faults>>

RemoveFinalizer ==
    /\ pc = "removeFinalizer"
    /\ \/ /\ Current(job.key, job.obj)
          /\ DropFinalizer(job.key)
          /\ Return
       \/ /\ ~Current(job.key, job.obj)
          /\ ReturnAndRetry
          /\ UNCHANGED <<api, pending>>
    /\ UNCHANGED <<cache, queue, edits, serverVars, secretVars, faults>>

AddFinalizer ==
    /\ pc = "addFinalizer"
    /\ \/ /\ Current(job.key, job.obj)
          /\ StoreFinalizer(job.key)
          /\ Return
       \/ /\ ~Current(job.key, job.obj)
          /\ ReturnAndRetry
          /\ UNCHANGED <<api, pending>>
    /\ UNCHANGED <<cache, queue, edits, serverVars, secretVars, faults>>

(***************************************************************************)
(* buildStorageRequest, buildNotifierRequest: the section of the type must *)
(* be there, then its Secret references are resolved one r.Get at a time.  *)
(***************************************************************************)
AfterFirst == IF job.obj.spec \in OneRef THEN "save" ELSE "readSecond"

ReadFirst ==
    /\ pc = "readFirst"
    /\ LET c == secretSeen[job.key]
       IN  \/ /\ job.obj.spec \in NoRef \ Incomplete
              /\ Goto("save", job)
              /\ UNCHANGED delayed
           \/ /\ job.obj.spec \notin NoRef \cup Incomplete /\ c # NoCred
              /\ Goto(AfterFirst, [job EXCEPT !.first = c])
              /\ UNCHANGED delayed
           \/ /\ job.obj.spec \in Incomplete \/ (job.obj.spec \notin NoRef /\ c = NoCred)
              /\ FailWith("SecretResolutionFailed")
    /\ UNCHANGED <<kubeButDelayed, serverVars, secretVars, faults>>

ReadSecond ==
    /\ pc = "readSecond"
    /\ LET c == secretSeen[job.key]
       IN  \/ /\ c # NoCred
              /\ Goto("save", [job EXCEPT !.second = c])
              /\ UNCHANGED delayed
           \/ /\ c = NoCred
              /\ FailWith("SecretResolutionFailed")
    /\ UNCHANGED <<kubeButDelayed, serverVars, secretVars, faults>>

(***************************************************************************)
(* SaveStorage, with the ID the status names.                              *)
(***************************************************************************)
\* Mutant: the line that sets the ID of the request is missing.
JobRowUnnamed == [id |-> NoId, owner |-> job.key, spec |-> job.obj.spec,
                  first |-> job.first, second |-> job.second]

JobRow == [id |-> job.obj.status.id, owner |-> job.key, spec |-> job.obj.spec,
           first |-> job.first, second |-> job.second]

\* Mutant: the request does not carry the ID of the status.
SaveCreatesAlways ==
    /\ pc = "save"
    /\ \E id \in Ids :
          /\ Insert(JobRow, id)
          /\ Goto("reportSynced", [job EXCEPT !.id = id])
    /\ UNCHANGED <<kubeVars, late, disturbed, secretVars, faults>>

SaveCreates ==
    /\ pc = "save"
    /\ job.obj.status.id = NoId
    /\ \E id \in Ids :
          /\ Insert(JobRow, id)
          /\ Goto("reportSynced", [job EXCEPT !.id = id])
    /\ UNCHANGED <<kubeVars, late, disturbed, secretVars, faults>>

SaveReplaces ==
    /\ pc = "save"
    /\ job.obj.status.id # NoId
    /\ RowOf(job.obj.status.id) # {}
    /\ Replace(JobRow)
    /\ disturbed' = disturbed \ {job.obj.status.id}
    /\ Goto("reportSynced", [job EXCEPT !.id = job.obj.status.id])
    /\ UNCHANGED <<kubeVars, used, late, secretVars, faults>>

\* The record is gone, or the supply of IDs (a bound of the model) is.
SaveRejected ==
    /\ pc = "save"
    /\ \/ job.obj.status.id # NoId /\ RowOf(job.obj.status.id) = {}
       \/ job.obj.status.id = NoId /\ used = Ids
    /\ FailWith("APISyncFailed")
    /\ UNCHANGED <<kubeButDelayed, serverVars, secretVars, faults>>

(***************************************************************************)
(* An HTTP call that fails: refused without effect, or given up on after   *)
(* the client's timeout while databasus may still serve it.                *)
(***************************************************************************)
\* Mutant: after a failed save the loop goes on to report success.
CallFailsUnnoticed ==
    /\ pc \in {"deleteRemote", "save"}
    /\ Fault
    /\ \/ pc = "save"
          /\ Goto("reportSynced", [job EXCEPT !.id = job.obj.status.id])
          /\ UNCHANGED delayed
       \/ pc = "deleteRemote" /\ ReturnAndRetry
    /\ UNCHANGED <<kubeButDelayed, rows, used, late, disturbed, secretVars>>

CallFails ==
    /\ pc \in {"deleteRemote", "save"}
    /\ Fault
    /\ \/ UNCHANGED late
       \/ late' = late \cup
             {[op |-> IF pc = "save" THEN "save" ELSE "delete", row |-> JobRow]}
    /\ \/ pc = "save" /\ FailWith("APISyncFailed")
       \/ pc = "deleteRemote" /\ ReturnAndRetry
    /\ UNCHANGED <<kubeButDelayed, rows, used, disturbed, secretVars>>

(***************************************************************************)
(* Status updates.  The one of a failed call ignores its own error.        *)
(***************************************************************************)
FailedStatus ==
    [job.obj.status EXCEPT !.reason = job.reason, !.condGen = job.obj.gen]

\* Mutant: observedGeneration is the version instead of the generation.
SyncedStatusByVersion ==
    [id |-> job.id, reason |-> "Synced",
     condGen |-> job.obj.gen, obsGen |-> job.obj.rv]

SyncedStatus ==
    [id |-> job.id, reason |-> "Synced",
     condGen |-> job.obj.gen, obsGen |-> job.obj.gen]

ReportFailed ==
    /\ pc = "reportFailed"
    /\ \/ /\ Current(job.key, job.obj)
          /\ StoreStatus(job.key, FailedStatus)
       \/ /\ ~Current(job.key, job.obj)
          /\ UNCHANGED <<api, pending>>
    /\ ReturnAndRetry
    /\ UNCHANGED <<cache, queue, edits, serverVars, secretVars, faults>>

ReportSynced ==
    /\ pc = "reportSynced"
    /\ \/ /\ Current(job.key, job.obj)
          /\ StoreStatus(job.key, SyncedStatus)
          /\ Return
       \/ /\ ~Current(job.key, job.obj)
          /\ ReturnAndRetry
          /\ UNCHANGED <<api, pending>>
    /\ UNCHANGED <<cache, queue, edits, serverVars, secretVars, faults>>

\* A write to the Kubernetes API fails for a reason other than a conflict.
KubeWriteFails ==
    /\ pc \in {"addFinalizer", "removeFinalizer", "reportFailed", "reportSynced"}
    /\ Fault
    /\ ReturnAndRetry
    /\ UNCHANGED <<kubeButDelayed, serverVars, secretVars>>

(***************************************************************************)
(* The process dies and a new one starts from a fresh list.                *)
(***************************************************************************)
Restart ==
    /\ Fault
    /\ Goto("idle", NoJob)
    /\ Relist
    /\ secretSeen' = secret
    /\ UNCHANGED <<serverVars, secret>>

(***************************************************************************)
(* The specification.                                                      *)
(***************************************************************************)
Worker ==
    \/ DeleteRemote
    \/ RemoveFinalizer
    \/ AddFinalizer
    \/ ReadFirst
    \/ ReadSecond
    \/ SaveCreates
    \/ SaveReplaces
    \/ SaveRejected
    \/ ReportFailed
    \/ ReportSynced

Environment ==
    \/ \E q \in late : ServeLate(q)
    \/ \E id \in Ids : RemoveOutOfBand(id)
    \/ CallFails
    \/ KubeWriteFails
    \/ Restart

Next ==
    \/ \E n \in Names : User(n) \/ Manager(n) \/ DeliverSecret(n) \/ Start(n)
    \/ Worker
    \/ Environment

Spec == Init /\ [][Next]_vars

(***************************************************************************)
(* Fairness of the runtime: the worker goroutine runs, the queue is first  *)
(* in first out, informers deliver, timers fire, the informer resyncs.     *)
(* Faults and users are not fair.                                          *)
(***************************************************************************)
Fairness ==
    /\ WF_vars(Worker)
    /\ \A n \in Names :
          /\ SF_vars(Start(n))
          /\ WF_vars(DeliverSecret(n))
          /\ WF_vars(Manager(n) /\ DeliverEvent(n))
          /\ WF_vars(Manager(n) /\ FireTimer(n))
          /\ WF_vars(Manager(n) /\ Resync(n))

FairSpec == Spec /\ Fairness

(***************************************************************************)
(* Properties.                                                             *)
(***************************************************************************)
\* Every variable has its type: the watch events of an object are objects,
\* the worker's locals are a Job, databasus stores rows it gave an ID to.
TypeOK ==
    /\ api \in [Names -> Object]
    /\ cache \in [Names -> Object]
    /\ pending \in [Names -> Seq(Object)]
    /\ queue \subseteq Names
    /\ delayed \subseteq Names
    /\ edits \in Nat
    /\ pc \in Steps
    /\ job \in Job
    /\ rows \subseteq Row
    /\ \A r \in rows : r.id \in used
    /\ used \subseteq Ids
    /\ late \subseteq Request
    /\ disturbed \subseteq Ids
    /\ secret \in [Names -> Creds \cup {NoCred}]
    /\ secretSeen \in [Names -> Creds \cup {NoCred}]
    /\ faults \in Nat

\* The finalizer does its work: an object that is gone has left no record
\* under the ID its status named, whatever failed, arrived late or restarted
\* between the DELETE call and the removal of the finalizer.
RecordedRowRemoved ==
    \A n \in Names :
       ~api[n].exists /\ api[n].status.id # NoId => RowOf(api[n].status.id) = {}

\* The worker only creates or writes a record for an object whose finalizer the API
\* server holds at that very moment, although it decided on a cached copy: this is
\* what the early return after AddFinalizer is for.  (A save whose client timed out
\* may still be served when the finalizer is gone; what that leaves is
\* CleanupBeforeRemoval's subject.)
PushUnderFinalizer ==
    pc \in {"readFirst", "readSecond", "save", "reportFailed", "reportSynced"}
       => api[job.key].exists /\ api[job.key].finalizer

\* Ready=True for the current generation is the truth about databasus: the
\* record has the object's spec, unless a late request or a stranger changed it.
SyncedRowMatches ==
    \A n \in Names :
       LET o == api[n] IN
       o.exists /\ Ready(o) /\ o.status.obsGen = o.gen /\ o.status.id \notin disturbed
          => \E r \in RowOf(o.status.id) : r.spec = o.spec

\* The operator does not feed itself: every write of its own is an event that
\* reconciles the object again, and still the versions of an object are bounded
\* by what users did and what failed, however often it is reconciled.
WritesBounded == \A n \in Names : api[n].rv <= 3 * edits + 2 * faults

\* The ID an object has recorded is never replaced or lost while it exists: a
\* Reconcile that worked from an older copy cannot overwrite it.
IdStable ==
    [][\A n \in Names :
          api[n].exists /\ api'[n].exists /\ api[n].status.id # NoId
             => api'[n].status.id = api[n].status.id]_vars

\* What a stranger's delete looks like: no step of the worker, no late request.
ByStranger(id) == OutOfBand /\ id \in disturbed' /\ UNCHANGED <<pc, late>>

\* The operator never deletes the record of an object nobody asked to delete,
\* however stale its cache is, also not a record a late save has changed.
LiveRowNeverDeleted ==
    [][\A n \in Names, r \in rows :
          api[n].exists /\ ~api[n].deleting /\ api[n].status.id = r.id
             => ByStranger(r.id) \/ \E q \in rows' : q.id = r.id]_vars

\* A deleted object goes away in the end, also when its record has been deleted
\* behind the operator's back ("not found" counts as success).
DeletionCompletes ==
    \A n \in Names : api[n].deleting ~> ~api[n].exists

\* What the loop is for.
Converged(n) ==
    LET o == api[n] IN
    /\ Ready(o)
    /\ o.status.obsGen = o.gen
    /\ \E r \in RowOf(o.status.id) :
          /\ r.spec = o.spec
          /\ r.first = IF o.spec \in NoRef THEN NoCred ELSE secret[n]
          /\ r.second = IF o.spec \in NoRef \cup OneRef THEN NoCred ELSE secret[n]

Syncable(n) ==
    /\ api[n].exists /\ ~api[n].deleting
    /\ api[n].spec \notin Incomplete
    /\ secret[n] # NoCred \/ api[n].spec \in NoRef

\* The model has run out of IDs before this object recorded one.
NoIdLeft(n) == api[n].status.id = NoId /\ used = Ids

\* The record an object names is gone for good: it is saved, refused and retried,
\* never created again, but the object does not say that it is Ready.
MissingReported(n) ==
    /\ api[n].status.id # NoId
    /\ RowOf(api[n].status.id) = {}
    /\ ~Ready(api[n])

\* Once users and faults stop, a complete object is Ready and its record holds
\* its spec and both keys of its present Secret: conflicts, refused calls, late
\* requests, rotated Secrets and restarts are all recovered from.  An object whose
\* record a stranger has deleted ends up not Ready, instead.
EventuallyConverged ==
    \A n \in Names :
       <>[](Syncable(n) => Converged(n) \/ MissingReported(n) \/ NoIdLeft(n))

(***************************************************************************)
(* The abstract specification this loop implements.                        *)
(***************************************************************************)
Phase(o) == IF ~o.exists THEN "absent" ELSE IF o.deleting THEN "deleting" ELSE "live"

Promise == INSTANCE RecordSync WITH
    phase <- [n \in Names |-> Phase(api[n])],
    known <- [n \in Names |-> IF api[n].exists THEN api[n].status.id ELSE NoId],
    records <- {[id |-> r.id, owner |-> r.owner] : r \in rows},
    issued <- used

\* Every step is one of RecordSync or changes nothing of it: an object only comes
\* to name a record of its own, keeps it until it is being deleted, and goes away
\* after it.  That no other record is deleted is part of it where OutOfBand is FALSE;
\* with strangers about, RecordSync allows any record to go.
Implements == Promise!Spec

(***************************************************************************)
(* What README.md says of the program, and the code does not do.           *)
(***************************************************************************)
\* "On delete, a finalizer ensures cleanup via the API before the Kubernetes
\* resource is removed."
CleanupBeforeRemoval ==
    \A n \in Names : ~api[n].exists => {r \in rows : r.owner = n} = {}

\* "On create/update, the operator calls the databasus API to upsert
\* resources": one record per object.
OneRowPerObject ==
    \A r1, r2 \in rows : r1.owner = r2.owner => r1 = r2
=============================================================================
