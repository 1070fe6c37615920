# Verification of databasus-operator

TLA+ models of the operator, TLC runs that check them on small instances, and
TLAPS proofs. The reference is the source: `internal/controller`,
`internal/client`, `api/v1alpha1` and `cmd/main.go` of this repository.
`PROJECT.json` lists components, runs, mutants, the map from definitions to
source lines, findings, hazards and theorems.

    tlc -workers 2 -config ResourceSafety.cfg MCResourceController.tla
    tlapm ResourceProofs.tla

## The system

The operator is a Go process, of which a Deployment may run several. Three
controllers, each with one work queue and one worker goroutine (controller-runtime's
default), drive records in a databasus server through its REST API so that they
follow custom resources.

| Part | State it keeps | Operations | Interacts with |
|---|---|---|---|
| Storage controller (`storage_controller.go`) | `status.id`, `observedGeneration`, `Ready` of a Storage; its finalizer | `Reconcile`: add finalizer, read Secrets, save, delete, report | API server, cache, Secrets, databasus |
| Notifier controller (`notifier_controller.go`) | the same, of a Notifier | the same loop, other sections | the same |
| DatabaseBackup controller (`databasebackup_controller.go`) | `databaseId`, `healthStatus`, `observedGeneration`, `Ready` | `Reconcile`: finalizer, dependencies, WAL_V1, Secrets, create/update, backup config, healthcheck config, refresh, report, poll | the same, and the status of Storages and Notifiers in the cache |
| Request builders (`buildStorageRequest`, `buildNotifierRequest`, `buildDatabaseRequest` and what they call) | none | choose the section of the type, resolve its Secret references, fill the request | Secrets |
| API client (`internal/client`) | token and workspace ID, fixed at start | 14 methods that turn a reply into a value, nil or an error; `SignIn`, `ResolveWorkspace`, `HealthCheck` | databasus |
| Start-up (`cmd/main.go`) | the leader's lease | read credentials, sign in, resolve the workspace, health check, start the manager, lead | API server, databasus, the other replicas |
| CRD types (`api/v1alpha1`) | declarations | none | API server validates |
| Kubernetes (not in the repository) | objects, caches, queues, timers, leases | optimistic writes, watch events, requeues, resync, restarts | all controllers |
| databasus (not in the repository) | storages, notifiers, databases and their configs | save, create, update, delete, get | the client |

A controller never talks to another one: DatabaseBackup sees a Storage only as
the ID and the Ready condition in its cached status.

What is hard here:

- a pass reads a cached copy at its start and makes up to seven calls with it;
  users, other writes, restarts and other replicas come in between;
- the ID of a record is known to nobody until a status update after the call
  that created the record;
- the HTTP client gives up after 30 seconds, the server need not; the sign-in has
  no timeout of its own at all;
- a status update of a failed call ignores its own error;
- nothing watches Secrets or dependencies: only timers and the informer's resync
  bring their changes in;
- records can be deleted in databasus behind the operator's back;
- a spec may hold the sections of several types, and lack that of its own.

What makes each part correct:

- *Storage, Notifier*: no record is written without a finalizer; a recorded ID is
  kept while the object lives and its record is gone when the object is; Ready
  means the record has the spec; every change arrives in the end; a deletion ends.
- *DatabaseBackup*: the same over three requests; a failure half-way keeps the
  ID; a physical backup type is never pushed; a broken dependency ends Ready.
- *Both together*: a backup config never points at a record its Storage does not
  name, and points at the present one in the end.
- *Request builders*: a request carries values that its Secrets held; a pass fails
  for a reason in its own object.
- *API client*: success is never claimed for what did not happen; a repeated
  delete succeeds in the end.
- *Start-up*: no controller runs before its workspace is known, and in no other
  one; in the end one replica leads and an old leader has given way; whatever
  happens to a start is followed by another.

## Modules

| Module | Models |
|---|---|
| `KubeObjects` | The Kubernetes side of one controller (external): objects with versions, one watch event per write, the cache that applies them in order, conflicts, finalizers and deletion marks, the deduplicating queue, timers, resync, relist. |
| `RecordSync` | The abstract promise of a controller: an object, the ID it names, the record under that ID. |
| `ResourceController` | The Storage and the Notifier loop, which are the same code up to the sections of their types. Implements `RecordSync`. |
| `DatabaseBackupController` | The DatabaseBackup loop with the server's databases and the two dependencies. Implements `RecordSync`. |
| `Operator` | One process: `ResourceController` and `DatabaseBackupController` side by side, the second one's dependency being the cached status of the first one's object. |
| `Replicas` | Two processes without leader election: two instances of `ResourceController` on one API server and one databasus. Implements `RecordSync`. |
| `Startup` | From container start to leadership, for several replicas. |
| `Requests` | The builders, for every type: sections, references one read at a time, what is sent. |
| `ApiClient` | What every client method makes of every reply, with one caller that repeats one method. |
| `PeerProofs` | Lemmas about a step of one process of `ResourceController` beside another one. |
| `ResourceProofs`, `DatabaseBackupProofs`, `OperatorProofs`, `ReplicasProofs`, `StartupProofs`, `RequestsProofs`, `ApiClientProofs` | Theorems about those modules. |
| `MC...` | Model values for TLC. |

`ResourceController` and `DatabaseBackupController` extend `KubeObjects`.
`Operator` and `Replicas` are made of `INSTANCE`s: they add no behaviour of their
own to a controller, only who shares what with whom.

### How the controllers' modules follow the code

`pc` is the next call the worker makes, `job` the locals of the `Reconcile` call
in progress; `job.obj` is the copy that `r.Get` filled and the loop edits.
`Begin` is the dequeue with `r.Get` from the cache and every decision before the
next call. Each of these is then an action: the DELETE call, each `r.Update`, each
read of a Secret or a dependency, each HTTP request, each `r.Status().Update`.
Code between two calls is local, so it belongs to the action of the call before it.

| Code | Action |
|---|---|
| `r.Get` says not found; deleted and without finalizer | `ReconcileGone` |
| deletion branch | `ReconcileDeletion`, `DeleteRemote`, `RemoveFinalizer` |
| finalizer branch with its early return | `ReconcileUnprotected`, `AddFinalizer` |
| `buildStorageRequest`, `buildNotifierRequest` | `ReadFirst`, `ReadSecond` (in detail: `Requests`) |
| `SaveStorage`, `SaveNotifier` | `SaveCreates`, `SaveReplaces`, `SaveRejected`, `CallFails` |
| the error paths with their ignored status update | `ReportFailed` |
| the last status update | `ReportSynced` |
| `resolveStorageRef`, `resolveNotifierRefs`, WAL_V1 | `ResolveStorage`, `ResolveNotifier` |
| `resolveDatabasePassword`, `resolvePostgresSsl` | `ReadPassword`, `ReadSsl` |
| create or update; backup config; healthcheck config | `CreateDatabase`, `UpdateDatabase`; `SaveBackupConfig`; `SaveHealthcheckConfig` |
| `GetDatabase` and the three status fields | `Refresh` |

`RequeueAfter` and a returned error both put the key in `delayed`; durations are
left out, so a timer may fire at any time. A failed status update in an error
path is followed by the requeue all the same, as in the code.

A call has three ends: done, refused (`CallFails` without effect), or given up on
while the server still has the request (`late`), which `ServeLate` serves at any
later moment or never. A call that took effect and whose reply was lost is a
given-up call that is served at once.

### How the other modules follow the code

| Code | Definition |
|---|---|
| `main`: the uncached read of the credentials Secret | `Startup!ReadSecret` |
| `SignIn` (auth.go) | `Startup!SignIn` |
| `ResolveWorkspace` (auth.go), skipped when the Secret has an ID | `Startup!ResolveWorkspace`, `Matches` |
| `HealthCheck` (client.go), then `mgr.Start` | `Startup!HealthCheck`, `Acquire` |
| `os.Exit(1)` on every error; the 30 s context of the start | `Startup!Exit`, `RefuseCall`; `LoseCall`, `Deadline` |
| a leader that cannot renew its lease; `mgr.Start` returning an error | `Startup!LoseLease`; `StopLeading` |
| death; the lease of a dead or silent leader | `Startup!Kill`; `ExpireLease` |
| the switches on the type and their nil checks | `Requests!Check`, `References`, `Incomplete`, `Refused` |
| `resolveSecretRef`, `getSecretValue`, the header loop of `buildNotifierRequest` | `Requests!ReadReference`, `SkipReference` |
| `buildDatabaseRequest`, the request structs | `Requests!Build`, `Request`, `Panics` |
| a method's status codes and error texts | `ApiClient!Write`, `Read`, `Erase`, `isNotFound` |
| `resolveStorageRef` reading a cached Storage | `Operator!SeenStorage` |

### Abstractions

- In the controllers' modules a spec is a model value; what matters of it are the
  sets it belongs to: `Incomplete` (the section of its type is missing), `NoRef`
  and `OneRef` (how many Secret keys it names; the others stand for two),
  `Physical`, `Checked` (has a healthcheck), `Encrypted` (has SSL references).
  `Requests` has the types and sections themselves instead, for one pass.
- In the controllers' modules the Secrets of an object are one version number, or
  missing; in `Requests` every reference has a key of its own, which changes
  independently of the others.
- A Ready condition is its reason and its `observedGeneration`; it is True exactly
  when the reason is `Synced`. Messages and times are left out.
- One notifier reference stands for the list; each is resolved in the same way. An
  object without notifiers, which the CRD allows, skips that step and is left out.
- `healthStatus` stands for the three fields the refresh copies.
- A read from a synced cache fails only with "not found".
- The reply to a save or an update names the record it was about.
- In `Startup` email and password are one value, of which databasus accepts one at
  a time; a Secret that is missing looks like one without a password.
- In `Startup` the lease is what leader election needs of it: whom it names, that
  renewals may fail, that it is free some time after the last one. There are no
  clocks, so the leader that could not renew may run on beside its successor for any
  time: nothing in databasus or in the API server fences it off. What the two may do
  to each other is `Replicas`' subject.

### What is assumed of databasus

The server is not in the repository. From `docs/ROADMAP.md` and the contract tests:
a save without an ID creates a record with a new ID, never used before; a save,
update or config request that names a missing record is answered "record not
found"; a delete of a missing record likewise; deleting a database deletes its
configs. A 200 or 404 is taken to come from databasus, not from something in
between. Users do not remove the operator's finalizer by hand.

### The promise

`RecordSync` is what is left of a controller when queues, caches, versions,
Secrets and retries are taken away: an object is absent, live or being deleted and
names an ID or none; a record appears (`Appear`), a live object comes to name one
of its own (`Record`), an object being deleted loses the record it names (`Erase`)
and then goes away (`Finish`). Two actions name where record and ID come apart:
`Appear` gives a record that nobody names yet, and `Vanish` lets an object that
names none go away; between them lie the orphans and duplicates of the violation
runs. `Implements` of `ResourceController`, `DatabaseBackupController` and
`Replicas` states that every step is one of these or changes nothing of them,
under the mapping `Promise`: the phase and ID of the API server's object, the IDs
and owners of the stored records. Where `OutOfBand` is `TRUE`, strangers delete
records through the web UI, and `RecordSync` then lets any record go (`Lose`): in
those runs `Implements` does not say that the operator deletes only what it should.
`Replicas`, where `OutOfBand` is `FALSE`, says so, and so do `LiveRowNeverDeleted`
and the theorems, which hold for either value.

## Runs

| Run | Shows | Bounds |
|---|---|---|
| `ResourceSafety` | `TypeOK`, `RecordedRowRemoved`, `PushUnderFinalizer`, `SyncedRowMatches`, `WritesBounded`, `IdStable`, `LiveRowNeverDeleted`, `Implements` | 1 object, a spec with two Secret keys and one with none, 3 edits, 2 faults, foreign deletions |
| `ResourceConvergence` | `EventuallyConverged`, `DeletionCompletes` | 3 specs, one incomplete, 2 Secret versions, 2 edits, 1 fault, foreign deletions |
| `ResourceOrphan` | violates `CleanupBeforeRemoval` | no fault needed |
| `ResourceDuplicate` | violates `OneRowPerObject` | no fault needed |
| `DatabaseSafety` | `TypeOK`, `RecordedDatabaseRemoved`, `SyncedPipeline`, `PartialFailureKeepsId`, `PhysicalNeverPushed`, `IdStable`, `Implements` | 4 kinds of spec, 2 edits, 1 fault, foreign deletions |
| `DatabaseRecovery` | `EventuallyConverged`, `DeletionCompletes`, `BlockedReported`, `PhysicalReported` | a full spec and a physical one; nothing created or a synced object, 2 edits from there, 1 fault, foreign deletions |
| `DatabaseHealthcheck` | violates `HealthcheckSynced` | no fault needed |
| `Operator` | `ConfigNamesStorage`, `EventuallyWired`, `LostStorageReported`, `BothDeletionsEnd` | a synced Storage and DatabaseBackup of one spec each, 2 and 1 edits, 1 fault |
| `Replicas` | `Implements`, `RecordedRowRemoved` | 1 object, 2 processes, 2 edits, 1 fault |
| `Startup` | `TypeOK`, `WorkspaceAsNamed`, `OneLeaderInTheEnd`, `EventuallyActive` | 2 replicas, every Secret over 2 passwords, 2 workspaces and 2 names, 5 lists, one of them with a name twice, 1 edit, 2 faults |
| `Requests` | `TypeOK`, `SentWasHeld`, `FailureHasCause`, `NeverPanics` | all 18 types with every pair of sections and every set of optional references, 2 values per key, 2 changes of Secrets |
| `ApiClient` | `TypeOK`, `ResultIsTruth`, `DeleteEnds` | every method and reply, 3 faults |

Bounds. `MaxEdits` counts what users do: creating, editing, deleting an object,
changing a Secret, a change of a dependency or of the probed health. Three edits
allow create, edit, delete, and create, delete, create again: every way in which
one pass can overlap with what the next one is for. `DatabaseRecovery` starts with
nothing created, or with a synced object whose poll is due (`RecoverySpec`), a state
that a creation leads to: two edits from there are an edit and a dependency that
breaks, or any other two things that can meet in one pass. `Operator` starts with both
objects synced, which saves the edits that create them: its two edits of the
Storage are a deletion and a new creation. With one spec each nothing is edited in
place there; that the present spec arrives is `ResourceConvergence`'s and
`DatabaseRecovery`'s question. `MaxFaults` counts failed calls and
writes, restarts and foreign deletions. `Ids` is a supply: with none left a save
is refused, which the liveness properties except (`NoIdLeft`); two or three are
enough for a duplicate to appear. Within these bounds everything else is
unbounded: reconciles, resyncs, timers and versions follow from them.
`CHECK_DEADLOCK FALSE` because a bounded behaviour ends: no object left, no edit
and no fault allowed, or, in `Requests` and `ApiClient`, the pass or call is over.
What two objects of one kind could do to each other is not a run but a theorem:
`LiveRowsAreKept`, `ResourceImplementsSync` and those of `ReplicasProofs` hold for
any set of names.

### What the violations show

- `ResourceOrphan`, against README.md:34 ("On delete, a finalizer ensures cleanup
  via the API before the Kubernetes resource is removed"). Create an object; while
  its first save is under way, delete it. The status update conflicts, the next
  pass sees a deleted object without an ID, removes the finalizer and makes no
  DELETE call. What does hold is `RecordedRowRemoved`: a record whose ID made it
  into the status is always removed.
- `ResourceDuplicate`, against README.md:34 ("upsert resources"). Edit the object
  while its first save is under way: the ID is dropped with the conflicting status
  update, and the next pass creates a second record.
- `DatabaseHealthcheck`, against README.md:28 and 32 ("syncs their state"). Removing
  the healthcheck section only stops the operator from sending it.

### Other things the models say about the code

- A record that is missing in databasus is saved, refused and retried for ever;
  nothing creates it again. What is checked is that the object does not go on
  saying that it is Ready (`MissingReported` in both `EventuallyConverged`).
- README.md:152 calls eight storage types supported. `buildStorageRequest` has a case
  for S3 and SFTP only: of an object of the other six it sends the name and the type,
  but neither the settings of its section nor anything from its Secrets (`Unread`,
  `Request`), and reports it as Ready if databasus takes that. It is a disagreement
  of one switch with a table in which no order of steps matters, so no run is spent
  on it.
- `WAL_V1` is looked up in the postgresql section whatever the type is: a database
  of another type with a left-over postgresql section is refused (`Refused`).
- With two processes `RecordSync` still holds, since it rests on the version check
  alone (`ReplicasImplementSync`). `PushUnderFinalizer` does not: one process may
  save for an object whose finalizer the other has just removed. Nor does
  `SyncedRowMatches`: it may save an older spec over the one the other has just
  reported as Ready, until its own status update is refused and it starts over.
  Leader election is therefore needed for both, and is off by default in the flag
  (`main.go:120`), on in the chart.
- The refusal of `WAL_V1` is written once: its error is ignored and nothing is
  requeued (databasebackup_controller.go:105-107). Where an edit to `WAL_V1` is
  reconciled together with the poll and that write fails, the Ready of before the
  edit stays, with the old generation, and so it does when the Storage breaks
  later. `PhysicalReported` and `BlockedReported` except that case; `SyncedPipeline`
  holds in it, since the condition does not claim the new generation.
- `resolveStorageRef` does not look at a Storage's deletion mark, so a config may
  be saved for a storage whose DELETE is under way; polling puts it right.
- Without a workspace ID in the Secret every start looks the list up anew, by name or
  by position. If databasus lists other workspaces then, a restart or a failover moves
  the operator, with the IDs it has recorded, to another workspace. `WorkspaceAsNamed`
  says which one a start takes; nothing ties it to the one before.

### Fairness

The worker goroutine runs (`WF` of `Worker`); the queue is first in first out and
no controller has more than one worker, so a queued key is taken although the
worker alternates between keys (`SF` of `Start(n)`); informers deliver events,
timers fire (`WF`). Users, faults, late requests and foreign deletions are not
fair. `ResourceController` also assumes the informer's periodic resync (ten hours
by default): a synced Storage is not requeued and nothing watches Secrets, so
without it a rotated key would never arrive. `DatabaseBackupController` does not
assume it: its own poll is enough, except after `WAL_V1`, where only an edit can
help and an edit is an event. `Operator` leaves the resync out altogether and has
one fair thread per controller; with one object of each kind that is the queue's
order. `Startup`: the kubelet restarts a container, a process runs, a context's
deadline passes, a lease that nobody renews expires, a standby tries for it, a
leader whose lease is gone notices (the renewal loop of leader election runs).
`ApiClient`: the caller repeats a delete until it succeeds, and a call ends.

## Proofs

All theorems hold for every value of the constants that satisfies the named
assumptions (`KubeAssumption`, `ResourceAssumption`, `DatabaseBackupAssumption`,
`OperatorAssumption`, `ReplicasAssumption`, `StartupAssumption`,
`RequestsAssumption`, `ApiClientAssumption`), hence for any number of objects, specs, IDs, processes, edits and
faults. They say little more of the constants than that the bounds are numbers and the
sentinels differ from the values they stand beside; `OperatorAssumption` also asks
for an ID for each object, since `Operator` starts with all of them synced. TLC
checked each inductive invariant on the run's instance before it was proved.

| Module | Theorem | Property of a run |
|---|---|---|
| `ResourceProofs` | `TypeCorrect` | `TypeOK` |
| | `Invariance`: `IInv` is inductive | |
| | `RecordedRowsAreRemoved` | `RecordedRowRemoved` |
| | `PushesAreProtected` | `PushUnderFinalizer` |
| | `RecordedIdsAreStable` | `IdStable` |
| | `SyncInvariance`: `SInv` is inductive | |
| | `ReadyIsTrue` | `SyncedRowMatches` |
| | `LiveRowsAreKept` | `LiveRowNeverDeleted` |
| | `ResourceImplementsSync` | `Implements` |
| | `WritesAreBounded` | `WritesBounded` |
| `DatabaseBackupProofs` | `DatabaseTypeCorrect` | `TypeOK` |
| | `PhysicalIsNeverPushed` | `PhysicalNeverPushed` |
| | `PartialFailuresKeepIds` | `PartialFailureKeepsId` |
| | `DatabaseSafetyInvariant`: `IInv` is inductive | |
| | `RecordedDatabasesAreRemoved` | `RecordedDatabaseRemoved` |
| | `RecordedIdsAreStable` | `IdStable` |
| | `DatabaseSyncInvariant`: `SInv` is inductive | |
| | `ReadyMeansSynced` | `SyncedPipeline` |
| | `DatabaseImplementsSync` | `Implements` |
| `OperatorProofs` | `OperatorInvariance`: `OInv` is inductive | |
| | `ConfigsNameTheStorage` | `ConfigNamesStorage` |
| `ReplicasProofs` | `ReplicasInvariance`: `Inv` is inductive | |
| | `ReplicasRemoveRows` | `RecordedRowRemoved` |
| | `ReplicasImplementSync` | `Implements` |
| | `ReplicasKeepIds`, `ReplicasKeepRows` | of `ResourceSafety`, here for two processes |
| `StartupProofs` | `Invariance`, `StartupTypeCorrect`, `WorkspacesAreNamed` | `TypeOK`, `WorkspaceAsNamed` |
| `RequestsProofs` | `Invariance`, `RequestsTypeCorrect`, `BuildersNeverPanic`, `SentValuesWereHeld`, `FailuresHaveCauses` | `TypeOK`, `NeverPanics`, `SentWasHeld`, `FailureHasCause` |
| `ApiClientProofs` | `ClientTypeCorrect`, `ResultsAreTrue` | `TypeOK`, `ResultIsTruth` |

**Versions** (`IInv` of `ResourceProofs`). `RecordedRowRemoved` is not inductive:
that nothing is stored under the ID of an object that goes away depends on what the
worker's copy says about the present object. `IInv` adds the argument about
versions. Every copy anybody holds (the cache, an undelivered event, the worker's
`job.obj`) is a past version of the object, and one with the present version *is*
the present object (`IsCopy`); a write is accepted only from such a copy, which is
why the version check makes decisions on stale copies harmless. Events are ordered
after the cache (`Ordered`), so the worker's copy is never newer than it. Once
anybody knows a version with the finalizer of an object that is not being deleted,
the finalizer stays until the worker itself takes it away (`HeldCopies`), which
carries `PushUnderFinalizer` through a whole pass. `IdUnderFinalizer` says that a
recorded ID is always under the finalizer, so an object with an ID can only go
through `DropFinalizer`, and `JobOK` says that its record is gone at that step. A
removed record cannot come back: `Insert` takes only unused IDs (`IdsKnown` says
that recorded ones are used) and `Replace` needs the row.

**Claims** (`SInv`). That no live object loses its record, and that Ready is true,
need more: that nobody else's pass or late request has that ID. `SInv` adds to
`IInv` that an ID belongs to one object, whoever names it: a copy, the worker that
was just given it, a record's owner, a late request (`Claims`, `Unshared`). A record
that may still be deleted, because a version of its object that is being deleted is
known or a late DELETE names it (`Doomed`), is of no live object, and while it is
there the object that names it is being deleted (`DoomedDead`): the DELETE call of
a pass, however stale, hits only such records. An ID that was just handed out is in
nobody's copy (`Fresh`), so recording it cannot revive a doomed one. For Ready:
once the present generation is reported, every copy anybody holds has the present
spec (`NowSeen`), so a later pass from any of them writes the same spec; and what
is about to be reported is in the record (`Saved`). Every step is then shown to
move one object (`Moved`, eight ways) or to leave the objects alone and do one of
six things to databasus (`Served`), and each conjunct is shown of both.

**Refinement.** With `SInv` each of these ways is an action of `RecordSync` or a
stutter. The two steps that need it are the status update that first records an
ID (`Fresh` and `Unshared` give the guards of `Record`) and a DELETE (`DoomedDead`
gives the object for `Erase`).

**Payments** (`WInv`). `WritesBounded` bounds an object's versions by the edits and
faults so far, although the loop writes the status on every failing pass and every
one of its writes wakes it again. What stops it is that a write that changes
nothing brings no version. `WInv` gives each object an account: an edit pays three
versions, a fault two, and the versions so far (`rv`) together with the writes
still due never exceed what was paid. `Due` is the length of the path from what
the status says now to what this pass will report (`Outcome`), and from there to
what a pass that began now would report (`Expected`): two at most, because the next
pass, reading the same, reports the same. A pass on a stale copy owes nothing, since
its write will be refused. `SecretDue` is a Secret that came or went and that the
cache does not show yet.

**Three requests** (`DatabaseBackupProofs`). `PhysicalInv` adds that every step
after the check holds a spec that passed it and that so does every request still on
its way: one refused by a timeout may be served after the spec was edited.
`PartialInv` adds that the worker's own copy names an ID that was handed out from
the first answer to the report of a later failure, which writes that copy, ID
included. `IInv` and `SInv` repeat the two arguments above with two differences. A
pass refreshes its own copy with the ID it was given, so from the first request on
the worker's copy is no version of the object: `JobOK` says which of its fields are
still those of one, and what it may name. And Ready speaks of three requests, sent
one after the other while users edit and late requests of earlier passes arrive:
`Sent` lists what a pass has sent at each `pc`, `SentHolds` says that all of it is
in databasus while the object the pass read is the present one, `NowHolds` that it
stays there once the object says Ready. The proof looks at a step in two stages: each action is put
into one of the cases of `Moves`, and each conjunct is shown once, from the cases.

**Both controllers together** (`OInv`). Every step of `Operator` is a step of one of
its controllers, so their invariants carry over by `INSTANCE`; a shared restart
takes both at once. What is new is the ID that passes between them. It is read from
a cached status, sent some calls later, and may be served later still, when the
Storage may be deleted or created anew under another ID. `Settled` says of an ID
that was once in any copy of a Storage that its record is gone or that a Storage is
there and names it; no step unsettles one, since a recorded ID is kept and a Storage
only goes away after its record. `StoragesIn` says that every storage ID in a
config, in a late request or in the worker's locals is such an ID.

**Two processes** (`Inv` of `ReplicasProofs`). With a second process `IInv` and
`SInv` fail: `HeldCopies`, since the other may take away the finalizer that a push
relies on, and `NowSeen` and `Saved`, since a save of the other from an older copy
may overwrite what has been, or is about to be, reported.
What a step needs of all that is little: that the worker's copy is a past version of
the object, that its locals are honest about it, and that the record it has deleted
is gone (`Basis` in `ResourceProofs`). From `Basis` every step is still one of
`Moved` or `Served`, and the lemmas about these are proved once, with no more
hypotheses than they use. `PeerProofs` adds the peer: four variables for what the
other process knows (`otherCopies`) and what it has done at databasus and not told
the API server (`otherSaved`, `otherFresh`, `otherGone`). They do not move in a step
of this process, but that the peer hears of the version stored (`Apart`). `Joint`
states claims, doom, freshness and removal of what both know together; `PeerStep`
shows that a step preserves it, `PeerImplements` that the step is one of
`RecordSync`. `ReplicasProofs` instantiates this twice, each process being the
other's peer. `SameJoint`, that `Joint` says the same from either side, is what
closes the circle: it is proved of A's steps as A sees it and of B's as B does.

**Start-up.** While a process looks for its workspace, `shown` has the list databasus
has now (`Good`), so the list it takes is one it was shown; after that neither its
copy of the Secret nor its workspace changes, and the place of the entry in that list
is what `WorkspaceAsNamed` asks for.

**Requests and client.** What a pass has resolved so far was held by its key at
some moment of the pass; the checks before the first read leave no way to
`buildDatabaseRequest` without the section. A reply decodes to what databasus did,
or, for a delete, to what an earlier lost attempt did.

Only model-checked:

- all liveness, since fairness and `ENABLED` are outside the prover's reach:
  `EventuallyConverged`, `DeletionCompletes`, `BlockedReported`, `PhysicalReported`,
  `EventuallyWired`, `LostStorageReported`, `BothDeletionsEnd`, `OneLeaderInTheEnd`,
  `EventuallyActive`, `DeleteEnds`;
- the three runs that find a violation.

## Not modelled

- The token's lifetime: it is fetched once and never refreshed. Nothing in the
  code handles an expired one; a refused call is a fault of the controllers' modules.
- An explicit `workspaceId` is taken unverified by the code; what databasus answers
  for a foreign one is not in the repository.
- The clearing of `LastBackupErrorMessage`, the CRD's enum for `healthStatus`, and
  200 replies that do not come from databasus, for the same reason.
- Fields that are copied as they are, messages of conditions, logging, metrics, TLS
  and webhook options, flags, RBAC, charts and manifests: no state and no decision.
- `zz_generated.deepcopy.go`: generated. Copies are values in TLA+.

## What could follow

Every safety property that a passing run checks is a theorem. What the models lack
so far is two processes of the DatabaseBackup loop: `Replicas` is about Storages and
Notifiers. `DatabaseBackupProofs` would have to be taken apart as `ResourceProofs`
was, into what a step needs and what one worker guarantees, before a peer could be
set beside it.
