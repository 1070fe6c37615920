--------------------------- MODULE ResourceProofs ---------------------------
(***************************************************************************)
(* Theorems about ResourceController, for any number of objects, specs,    *)
(* IDs and Secret versions and any bound on edits and faults, in five      *)
(* parts.                                                                  *)
(*                                                                         *)
(* (1) Type correctness, with the lemmas about the types. (2) The          *)
(* inductive invariant by which the finalizer, the version check and the   *)
(* recorded ID together keep an object and its record in step. (3) An      *)
(* object and its record belong together, whatever the copies of the       *)
(* object and the late requests say: an ID belongs to one object, a record *)
(* that may still be deleted is of no live object. Hence Ready is the      *)
(* truth about the record, and the record of a live object is never        *)
(* deleted. (4) Every step is one of RecordSync or changes nothing of it.  *)
(* (5) Every version the loop stores is paid for, by a user or by a fault. *)
(***************************************************************************)
EXTENDS ResourceController, TLAPS

(***************************************************************************)
(* Type correctness.  TypeOK falls into four parts, one for each group of  *)
(* variables.                                                              *)
(***************************************************************************)
KubeTypeOK ==
    /\ api \in [Names -> Object]
    /\ cache \in [Names -> Object]
    /\ pending \in [Names -> Seq(Object)]
    /\ queue \subseteq Names
    /\ delayed \subseteq Names
    /\ edits \in Nat

LocalTypeOK == pc \in Steps /\ job \in Job

ServerTypeOK ==
    /\ rows \subseteq Row
    /\ \A r \in rows : r.id \in used
    /\ used \subseteq Ids
    /\ late \subseteq Request
    /\ disturbed \subseteq Ids

RestTypeOK ==
    /\ secret \in [Names -> Creds \cup {NoCred}]
    /\ secretSeen \in [Names -> Creds \cup {NoCred}]
    /\ faults \in Nat

LEMMA TypeParts ==
    TypeOK <=> KubeTypeOK /\ LocalTypeOK /\ ServerTypeOK /\ RestTypeOK
  BY DEF TypeOK, KubeTypeOK, LocalTypeOK, ServerTypeOK, RestTypeOK

\* The values the program starts from.
LEMMA InitialValues ==
    /\ NoStatus \in Status
    /\ NeverCreated(NoStatus) \in Object
    /\ NoJob \in Job
<1>1. NoStatus \in Status
  BY DEF NoStatus, Status, Reasons
<1>2. (CHOOSE s \in Specs : TRUE) \in Specs
  BY KubeAssumption
<1>3. NeverCreated(NoStatus) \in Object
  BY <1>1, <1>2 DEF NeverCreated, Object, ObjectsWith
<1>4. (CHOOSE n \in Names : TRUE) \in Names
  BY KubeAssumption
<1>5. NoJob \in Job
  BY <1>3, <1>4 DEF NoJob, Job, Reasons
<1> QED
  BY <1>1, <1>3, <1>5

\* A write keeps the types of the objects and of their events.
LEMMA StoreType ==
    ASSUME KubeTypeOK, NEW n \in Names, NEW o \in Object, Store(n, o)
    PROVE  api' \in [Names -> Object] /\ pending' \in [Names -> Seq(Object)]
<1> DEFINE stored == [o EXCEPT !.rv = api[n].rv + 1]
<1>0. api[n].rv + 1 \in Nat
  BY DEF KubeTypeOK, Object, ObjectsWith
<1>1. stored \in Object
  BY <1>0, Zenon DEF Object, ObjectsWith
<1>2. Append(pending[n], stored) \in Seq(Object)
  BY <1>1 DEF KubeTypeOK
<1> QED
  BY <1>1, <1>2 DEF KubeTypeOK, Store

\* What the reconciler and the users write are objects.
LEMMA ObjectUpdates ==
    ASSUME NEW o \in Object
    PROVE  /\ [o EXCEPT !.finalizer = TRUE] \in Object
           /\ [o EXCEPT !.finalizer = FALSE, !.exists = FALSE] \in Object
           /\ [o EXCEPT !.exists = FALSE] \in Object
           /\ [o EXCEPT !.deleting = TRUE, !.gen = @ + 1] \in Object
           /\ \A s \in Specs : [o EXCEPT !.spec = s, !.gen = @ + 1] \in Object
           /\ \A t \in Status : [o EXCEPT !.status = t] \in Object
<1>1. o.gen + 1 \in Nat
  BY DEF Object, ObjectsWith
<1>2. [o EXCEPT !.finalizer = TRUE] \in Object
  BY Zenon DEF Object, ObjectsWith
<1>3. [o EXCEPT !.finalizer = FALSE, !.exists = FALSE] \in Object
  BY Zenon DEF Object, ObjectsWith
<1>4. [o EXCEPT !.exists = FALSE] \in Object
  BY Zenon DEF Object, ObjectsWith
<1>5. [o EXCEPT !.deleting = TRUE, !.gen = o.gen + 1] \in Object
  BY <1>1, Zenon DEF Object, ObjectsWith
<1>6. \A s \in Specs : [o EXCEPT !.spec = s, !.gen = o.gen + 1] \in Object
  BY <1>1, Zenon DEF Object, ObjectsWith
<1>7. \A t \in Status : [o EXCEPT !.status = t] \in Object
  BY Zenon DEF Object, ObjectsWith
<1> QED
  BY <1>2, <1>3, <1>4, <1>5, <1>6, <1>7

LEMMA UserType ==
    ASSUME TypeOK, NEW n \in Names, User(n)
    PROVE  TypeOK'
<1>0. KubeTypeOK /\ LocalTypeOK /\ ServerTypeOK /\ RestTypeOK
  BY TypeParts
<1>1. CASE \E c \in Creds \cup {NoCred} : SetSecret(n, c)
  <2>1. KubeTypeOK'
    BY <1>0, <1>1, KubeAssumption DEF SetSecret, KubeTypeOK
  <2>2. LocalTypeOK' /\ ServerTypeOK' /\ RestTypeOK'
    BY <1>0, <1>1 DEF SetSecret, LocalTypeOK, ServerTypeOK, RestTypeOK, serverVars
  <2> QED
    BY <2>1, <2>2, TypeParts DEF TypeOK, KubeTypeOK, LocalTypeOK, ServerTypeOK, RestTypeOK
<1>2. CASE /\ \/ \E s \in Specs : CreateObject(n, s, NoStatus) \/ EditSpec(n, s)
              \/ DeleteObject(n)
           /\ UNCHANGED <<pc, job, serverVars, secretVars, faults>>
  <2>0. api[n] \in Object
    BY <1>0 DEF KubeTypeOK
  <2>1. KubeTypeOK'
    <3>1. ASSUME NEW s \in Specs, CreateObject(n, s, NoStatus) PROVE KubeTypeOK'
      <4> DEFINE o == [exists |-> TRUE, rv |-> 0, gen |-> 1, spec |-> s, deleting |-> FALSE,
                       finalizer |-> FALSE, status |-> NoStatus]
      <4>1. o \in Object
        BY InitialValues DEF Object, ObjectsWith
      <4>2. Store(n, o)
        BY <3>1 DEF CreateObject
      <4>3. api' \in [Names -> Object] /\ pending' \in [Names -> Seq(Object)]
        <5> HIDE DEF o
        <5> QED
          BY <1>0, <4>1, <4>2, StoreType
      <4> QED
        BY <1>0, <3>1, <4>3 DEF CreateObject, KubeTypeOK
    <3>2. ASSUME NEW s \in Specs, EditSpec(n, s) PROVE KubeTypeOK'
      <4> DEFINE o == [api[n] EXCEPT !.spec = s, !.gen = @ + 1]
      <4>1. o \in Object
        BY <2>0, ObjectUpdates
      <4>2. Store(n, o)
        BY <3>2 DEF EditSpec
      <4>3. api' \in [Names -> Object] /\ pending' \in [Names -> Seq(Object)]
        <5> HIDE DEF o
        <5> QED
          BY <1>0, <4>1, <4>2, StoreType
      <4> QED
        BY <1>0, <3>2, <4>3 DEF EditSpec, KubeTypeOK
    <3>3. ASSUME DeleteObject(n) PROVE KubeTypeOK'
      <4>1. PICK o \in {[api[n] EXCEPT !.deleting = TRUE, !.gen = @ + 1],
                        [api[n] EXCEPT !.exists = FALSE]} : Store(n, o)
        BY <3>3 DEF DeleteObject
      <4>2. o \in Object
        BY <2>0, <4>1, ObjectUpdates
      <4>3. api' \in [Names -> Object] /\ pending' \in [Names -> Seq(Object)]
        BY <1>0, <4>1, <4>2, StoreType
      <4> QED
        BY <1>0, <3>3, <4>3 DEF DeleteObject, KubeTypeOK
    <3> QED
      BY <1>2, <3>1, <3>2, <3>3
  <2>2. LocalTypeOK' /\ ServerTypeOK' /\ RestTypeOK'
    BY <1>0, <1>2 DEF LocalTypeOK, ServerTypeOK, RestTypeOK, serverVars, secretVars
  <2> QED
    BY <2>1, <2>2 DEF TypeOK, KubeTypeOK, LocalTypeOK, ServerTypeOK, RestTypeOK
<1> QED
  BY <1>1, <1>2 DEF User

LEMMA ManagerType ==
    ASSUME TypeOK, NEW n \in Names, Manager(n) \/ DeliverSecret(n)
    PROVE  TypeOK'
<1>0. KubeTypeOK /\ LocalTypeOK /\ ServerTypeOK /\ RestTypeOK
  BY TypeParts
<1>1. CASE DeliverSecret(n)
  BY <1>0, <1>1 DEF DeliverSecret, kubeVars, serverVars, TypeOK,
     KubeTypeOK, LocalTypeOK, ServerTypeOK, RestTypeOK
<1>2. CASE Manager(n)
  <2>1. KubeTypeOK'
    <3>1. CASE DeliverEvent(n)
      <4>1. Head(pending[n]) \in Object /\ Tail(pending[n]) \in Seq(Object)
        BY <1>0, <3>1 DEF DeliverEvent, KubeTypeOK
      <4> QED
        BY <1>0, <3>1, <4>1 DEF DeliverEvent, KubeTypeOK
    <3>2. CASE FireTimer(n)
      BY <1>0, <3>2 DEF FireTimer, KubeTypeOK
    <3>3. CASE Resync(n)
      BY <1>0, <3>3 DEF Resync, KubeTypeOK
    <3> QED
      BY <1>2, <3>1, <3>2, <3>3 DEF Manager
  <2>2. LocalTypeOK' /\ ServerTypeOK' /\ RestTypeOK'
    BY <1>0, <1>2 DEF Manager, LocalTypeOK, ServerTypeOK, RestTypeOK, serverVars, secretVars
  <2> QED
    BY <2>1, <2>2 DEF TypeOK, KubeTypeOK, LocalTypeOK, ServerTypeOK, RestTypeOK
<1> QED
  BY <1>1, <1>2

\* Starting a Reconcile call, whatever it decides.
LEMMA BeginType ==
    ASSUME TypeOK, NEW n \in Names, NEW step \in Steps, Begin(n, step)
    PROVE  TypeOK'
<1>0. KubeTypeOK /\ LocalTypeOK /\ ServerTypeOK /\ RestTypeOK
  BY TypeParts
<1>1. cache[n] \in Object
  BY <1>0 DEF KubeTypeOK
<1>2. [NoJob EXCEPT !.key = n, !.obj = cache[n]] \in Job
  BY <1>1, InitialValues, Zenon DEF Job
<1>3. LocalTypeOK'
  BY <1>2, InitialValues DEF Begin, LocalTypeOK
<1>4. KubeTypeOK' /\ ServerTypeOK' /\ RestTypeOK'
  BY <1>0 DEF Begin, KubeTypeOK, ServerTypeOK, RestTypeOK, serverVars, secretVars
<1> QED
  BY <1>3, <1>4 DEF TypeOK, KubeTypeOK, LocalTypeOK, ServerTypeOK, RestTypeOK

\* Every decision is one Begin.
LEMMA StartBegins ==
    ASSUME NEW n \in Names, Start(n)
    PROVE  \E step \in Steps : Begin(n, step)
<1> USE DEF Steps
<1>1. CASE ReconcileGone(n)
  BY <1>1 DEF ReconcileGone
<1>2. CASE ReconcileDeletion(n)
  BY <1>2 DEF ReconcileDeletion
<1>3. CASE ReconcileUnprotected(n)
  BY <1>3 DEF ReconcileUnprotected
<1>4. CASE ReconcileLive(n)
  BY <1>4 DEF ReconcileLive
<1> QED
  BY <1>1, <1>2, <1>3, <1>4 DEF Start

\* What the worker's next locals may be.
LEMMA JobUpdates ==
    ASSUME LocalTypeOK
    PROVE  /\ \A c \in Creds : [job EXCEPT !.first = c] \in Job
           /\ \A c \in Creds : [job EXCEPT !.second = c] \in Job
           /\ \A id \in Ids \cup {NoId} : [job EXCEPT !.id = id] \in Job
           /\ \A r \in Reasons : [job EXCEPT !.reason = r] \in Job
<1>0. job \in Job
  BY DEF LocalTypeOK
<1>1. \A c \in Creds : [job EXCEPT !.first = c] \in Job
  BY <1>0, Zenon DEF Job
<1>2. \A c \in Creds : [job EXCEPT !.second = c] \in Job
  BY <1>0, Zenon DEF Job
<1>3. \A id \in Ids \cup {NoId} : [job EXCEPT !.id = id] \in Job
  BY <1>0, Zenon DEF Job
<1>4. \A r \in Reasons : [job EXCEPT !.reason = r] \in Job
  BY <1>0, Zenon DEF Job
<1> QED
  BY <1>1, <1>2, <1>3, <1>4

LEMMA JobTypes ==
    ASSUME LocalTypeOK
    PROVE  /\ job.key \in Names
           /\ job.obj \in Object
           /\ job.obj.status \in Status
           /\ job.obj.status.id \in Ids \cup {NoId}
           /\ job.obj.rv \in Nat
           /\ job.obj.gen \in Nat
           /\ JobRow \in Row
<1>1. job \in Job
  BY DEF LocalTypeOK
<1>2. job.key \in Names /\ job.obj \in Object
  BY <1>1 DEF Job
<1>3. /\ job.obj.status \in Status /\ job.obj.rv \in Nat
      /\ job.obj.gen \in Nat /\ job.obj.spec \in Specs
  BY <1>2 DEF Object, ObjectsWith
<1>4. job.obj.status.id \in Ids \cup {NoId}
  BY <1>3 DEF Status
<1>5. JobRow \in Row
  BY <1>1, <1>2, <1>3, <1>4 DEF JobRow, Row, Job
<1> QED
  BY <1>2, <1>3, <1>4, <1>5

\* What the API of databasus does keeps its records typed and named.
RowsOK == rows \subseteq Row /\ used \subseteq Ids /\ \A r \in rows : r.id \in used

LEMMA InsertType ==
    ASSUME RowsOK, NEW r \in Row, NEW id \in Ids, Insert(r, id)
    PROVE  RowsOK'
<1>1. [r EXCEPT !.id = id] \in Row /\ [r EXCEPT !.id = id].id = id
  BY Zenon DEF Row
<1> QED
  BY <1>1 DEF Insert, RowsOK

LEMMA ReplaceType ==
    ASSUME RowsOK, NEW r \in Row, Replace(r), RowOf(r.id) # {}, used' = used
    PROVE  RowsOK'
  BY DEF Replace, RowOf, RowsOK

LEMMA RemoveType ==
    ASSUME RowsOK, NEW id, Remove(id), used' = used
    PROVE  RowsOK'
  BY DEF Remove, RowOf, RowsOK

LEMMA ServeLateType ==
    ASSUME TypeOK, NEW q \in late, ServeLate(q)
    PROVE  TypeOK'
<1>0. KubeTypeOK /\ LocalTypeOK /\ ServerTypeOK /\ RestTypeOK
  BY TypeParts
<1>1. q.row \in Row
  BY <1>0 DEF ServerTypeOK, Request
<1>2. RowsOK
  BY <1>0 DEF ServerTypeOK, RowsOK
<1>3. RowsOK' /\ disturbed' \subseteq Ids
  <2>1. ASSUME NEW id \in Ids, Insert(q.row, id), UNCHANGED disturbed
        PROVE  RowsOK' /\ disturbed' \subseteq Ids
    BY <1>0, <1>1, <1>2, <2>1, InsertType DEF ServerTypeOK
  <2>2. CASE /\ RowOf(q.row.id) # {}
             /\ Replace(q.row)
             /\ disturbed' = disturbed \cup {q.row.id}
             /\ UNCHANGED used
    <3>1. q.row.id \in Ids
      BY <1>2, <2>2 DEF RowOf, RowsOK
    <3> QED
      BY <1>0, <1>1, <1>2, <2>2, <3>1, ReplaceType DEF ServerTypeOK
  <2>3. CASE UNCHANGED <<rows, used, disturbed>>
    BY <1>0, <1>2, <2>3 DEF ServerTypeOK, RowsOK
  <2>4. CASE Remove(q.row.id) /\ UNCHANGED <<used, disturbed>>
    <3>1. RowsOK'
      BY <1>2, <2>4, RemoveType
    <3> QED
      BY <1>0, <2>4, <3>1 DEF ServerTypeOK
  <2> QED
    BY <2>1, <2>2, <2>3, <2>4 DEF ServeLate
<1>4. late' \subseteq Request
  BY <1>0 DEF ServeLate, ServerTypeOK
<1>5. KubeTypeOK' /\ LocalTypeOK' /\ RestTypeOK'
  BY <1>0 DEF ServeLate, kubeVars, secretVars, KubeTypeOK, LocalTypeOK, RestTypeOK
<1> QED
  BY <1>3, <1>4, <1>5
  DEF RowsOK, TypeOK, KubeTypeOK, LocalTypeOK, ServerTypeOK, RestTypeOK

LEMMA RemoveOutOfBandType ==
    ASSUME TypeOK, NEW id \in Ids, RemoveOutOfBand(id)
    PROVE  TypeOK'
<1>0. KubeTypeOK /\ LocalTypeOK /\ ServerTypeOK /\ RestTypeOK
  BY TypeParts
<1>1. RowsOK
  BY <1>0 DEF ServerTypeOK, RowsOK
<1>2. RowsOK'
  BY <1>1, RemoveType DEF RemoveOutOfBand
<1>3. KubeTypeOK' /\ LocalTypeOK' /\ RestTypeOK'
  BY <1>0, ResourceAssumption
  DEF RemoveOutOfBand, Fault, kubeVars, secretVars, KubeTypeOK, LocalTypeOK, RestTypeOK
<1>4. late' \subseteq Request /\ disturbed' \subseteq Ids
  BY <1>0 DEF RemoveOutOfBand, ServerTypeOK
<1> QED
  BY <1>2, <1>3, <1>4
  DEF RowsOK, TypeOK, KubeTypeOK, LocalTypeOK, ServerTypeOK, RestTypeOK

\* The steps of the worker that do not write to the Kubernetes API.
LEMMA ReadType ==
    ASSUME TypeOK, ReadFirst \/ ReadSecond \/ SaveRejected
    PROVE  TypeOK'
<1>0. KubeTypeOK /\ LocalTypeOK /\ ServerTypeOK /\ RestTypeOK
  BY TypeParts
<1>1. job.key \in Names
  BY <1>0, JobTypes
<1>2. secretSeen[job.key] \in Creds \cup {NoCred}
  BY <1>0, <1>1 DEF RestTypeOK
<1>3. LocalTypeOK'
  <2>1. ASSUME NEW r \in Reasons, FailWith(r) PROVE LocalTypeOK'
    BY <1>0, <2>1, JobUpdates DEF FailWith, Goto, LocalTypeOK, Steps
  <2>2. CASE ReadFirst
    BY <1>0, <1>2, <2>1, <2>2, JobUpdates
    DEF ReadFirst, AfterFirst, Goto, LocalTypeOK, Steps, Reasons
  <2>3. CASE ReadSecond
    BY <1>0, <1>2, <2>1, <2>3, JobUpdates DEF ReadSecond, Goto, LocalTypeOK, Steps, Reasons
  <2>4. CASE SaveRejected
    BY <2>1, <2>4 DEF SaveRejected, Reasons
  <2> QED
    BY <2>2, <2>3, <2>4
<1>4. UNCHANGED <<kubeVars, serverVars, secretVars, faults>>
  BY DEF ReadFirst, ReadSecond, SaveRejected, FailWith, kubeButDelayed, kubeVars
<1>5. KubeTypeOK' /\ ServerTypeOK' /\ RestTypeOK'
  BY <1>0, <1>4
  DEF kubeVars, serverVars, secretVars, KubeTypeOK, ServerTypeOK, RestTypeOK
<1> QED
  BY <1>3, <1>5 DEF TypeOK, KubeTypeOK, LocalTypeOK, ServerTypeOK, RestTypeOK

LEMMA CallType ==
    ASSUME TypeOK, DeleteRemote \/ SaveCreates \/ SaveReplaces
    PROVE  TypeOK'
<1>0. KubeTypeOK /\ LocalTypeOK /\ ServerTypeOK /\ RestTypeOK
  BY TypeParts
<1>1. RowsOK
  BY <1>0 DEF ServerTypeOK, RowsOK
<1>2. JobRow \in Row /\ JobRow.id = job.obj.status.id /\ job.obj.status.id \in Ids \cup {NoId}
  BY <1>0, JobTypes DEF JobRow
<1>3. RowsOK' /\ LocalTypeOK'
  <2>1. CASE DeleteRemote
    BY <1>0, <1>1, <2>1, RemoveType DEF DeleteRemote, Goto, LocalTypeOK, Steps
  <2>2. CASE SaveCreates
    <3>1. PICK id \in Ids : /\ Insert(JobRow, id)
                            /\ Goto("reportSynced", [job EXCEPT !.id = id])
      BY <2>2 DEF SaveCreates
    <3>2. RowsOK'
      BY <1>1, <1>2, <3>1, InsertType
    <3> QED
      BY <1>0, <3>1, <3>2, JobUpdates DEF Goto, LocalTypeOK, Steps
  <2>3. CASE SaveReplaces
    <3>1. RowsOK'
      BY <1>1, <1>2, <2>3, ReplaceType DEF SaveReplaces
    <3> QED
      BY <1>0, <1>2, <2>3, <3>1, JobUpdates DEF SaveReplaces, Goto, LocalTypeOK, Steps
  <2> QED
    BY <2>1, <2>2, <2>3
<1>4. KubeTypeOK' /\ RestTypeOK' /\ late' \subseteq Request /\ disturbed' \subseteq Ids
  BY <1>0 DEF DeleteRemote, SaveCreates, SaveReplaces, kubeVars, secretVars,
     KubeTypeOK, ServerTypeOK, RestTypeOK
<1> QED
  BY <1>3, <1>4
  DEF RowsOK, TypeOK, KubeTypeOK, LocalTypeOK, ServerTypeOK, RestTypeOK

LEMMA CallFailsType ==
    ASSUME TypeOK, CallFails
    PROVE  TypeOK'
<1>0. KubeTypeOK /\ LocalTypeOK /\ ServerTypeOK /\ RestTypeOK
  BY TypeParts
<1>1. job.key \in Names /\ JobRow \in Row
  BY <1>0, JobTypes
<1>2. [op |-> IF pc = "save" THEN "save" ELSE "delete", row |-> JobRow] \in Request
  BY <1>1 DEF Request
<1>3. late' \subseteq Request
  BY <1>0, <1>2 DEF CallFails, ServerTypeOK
<1>4. LocalTypeOK' /\ KubeTypeOK'
  BY <1>0, <1>1, InitialValues, JobUpdates
  DEF CallFails, FailWith, ReturnAndRetry, Goto, kubeButDelayed, LocalTypeOK, KubeTypeOK,
      Steps, Reasons
<1>5. RestTypeOK'
  BY <1>0, ResourceAssumption DEF CallFails, Fault, secretVars, RestTypeOK
<1> QED
  BY <1>0, <1>3, <1>4, <1>5
  DEF CallFails, TypeOK, KubeTypeOK, LocalTypeOK, ServerTypeOK, RestTypeOK

\* What the worker may write to the Kubernetes API.
LEMMA StatusTypes ==
    ASSUME LocalTypeOK
    PROVE  FailedStatus \in Status /\ SyncedStatus \in Status
<1>1. /\ job.obj.status \in Status /\ job.obj.gen \in Nat
      /\ job.id \in Ids \cup {NoId} /\ job.reason \in Reasons
  BY JobTypes DEF LocalTypeOK, Job
<1>2. FailedStatus \in Status
  BY <1>1, Zenon DEF FailedStatus, Status
<1>3. SyncedStatus \in Status
  BY <1>1 DEF SyncedStatus, Status, Reasons
<1> QED
  BY <1>2, <1>3

LEMMA WriteType ==
    ASSUME TypeOK, RemoveFinalizer \/ AddFinalizer \/ ReportFailed \/ ReportSynced
    PROVE  TypeOK'
<1>0. KubeTypeOK /\ LocalTypeOK /\ ServerTypeOK /\ RestTypeOK
  BY TypeParts
<1>1. job.key \in Names
  BY <1>0, JobTypes
<1>2. api[job.key] \in Object
  BY <1>0, <1>1 DEF KubeTypeOK
<1>3. api' \in [Names -> Object] /\ pending' \in [Names -> Seq(Object)]
  <2>1. CASE UNCHANGED <<api, pending>>
    BY <1>0, <2>1 DEF KubeTypeOK
  <2>2. ASSUME NEW o \in Object, Store(job.key, o)
        PROVE  api' \in [Names -> Object] /\ pending' \in [Names -> Seq(Object)]
    BY <1>0, <1>1, <2>2, StoreType
  <2>3. CASE StoreFinalizer(job.key)
    BY <1>2, <2>2, <2>3, ObjectUpdates DEF StoreFinalizer
  <2>4. CASE DropFinalizer(job.key)
    BY <1>2, <2>2, <2>4, ObjectUpdates DEF DropFinalizer
  <2>5. ASSUME NEW t \in Status, StoreStatus(job.key, t)
        PROVE  api' \in [Names -> Object] /\ pending' \in [Names -> Seq(Object)]
    BY <1>2, <2>1, <2>2, <2>5, ObjectUpdates DEF StoreStatus
  <2> QED
    BY <1>0, <2>1, <2>3, <2>4, <2>5, StatusTypes
    DEF RemoveFinalizer, AddFinalizer, ReportFailed, ReportSynced
<1>4. pc' = "idle" /\ job' = NoJob /\ delayed' \subseteq Names
  BY <1>0, <1>1 DEF RemoveFinalizer, AddFinalizer, ReportFailed, ReportSynced,
     Return, ReturnAndRetry, Goto, KubeTypeOK
<1>5. UNCHANGED <<cache, queue, edits, serverVars, secretVars, faults>>
  BY DEF RemoveFinalizer, AddFinalizer, ReportFailed, ReportSynced
<1>6. KubeTypeOK'
  BY <1>0, <1>3, <1>4, <1>5 DEF KubeTypeOK
<1>7. LocalTypeOK'
  BY <1>4, InitialValues DEF LocalTypeOK, Steps
<1>8. ServerTypeOK' /\ RestTypeOK'
  BY <1>0, <1>5 DEF ServerTypeOK, RestTypeOK, serverVars, secretVars
<1> QED
  BY <1>6, <1>7, <1>8 DEF TypeOK, KubeTypeOK, LocalTypeOK, ServerTypeOK, RestTypeOK

LEMMA FaultType ==
    ASSUME TypeOK, KubeWriteFails \/ Restart
    PROVE  TypeOK'
<1>0. KubeTypeOK /\ LocalTypeOK /\ ServerTypeOK /\ RestTypeOK
  BY TypeParts
<1>1. job.key \in Names
  BY <1>0, JobTypes
<1>2. KubeTypeOK'
  <2>1. CASE KubeWriteFails
    BY <1>0, <1>1, <2>1 DEF KubeWriteFails, ReturnAndRetry, kubeButDelayed, KubeTypeOK
  <2>2. CASE Restart
    <3>1. pending' \in [Names -> Seq(Object)]
      BY <2>2 DEF Restart, Relist
    <3> QED
      BY <1>0, <2>2, <3>1 DEF Restart, Relist, KubeTypeOK
  <2> QED
    BY <2>1, <2>2
<1>3. LocalTypeOK'
  BY InitialValues DEF KubeWriteFails, Restart, ReturnAndRetry, Goto, LocalTypeOK, Steps
<1>4. ServerTypeOK' /\ RestTypeOK'
  BY <1>0, ResourceAssumption
  DEF KubeWriteFails, Restart, Fault, serverVars, secretVars, ServerTypeOK, RestTypeOK
<1> QED
  BY <1>2, <1>3, <1>4 DEF TypeOK, KubeTypeOK, LocalTypeOK, ServerTypeOK, RestTypeOK

LEMMA InitType == Init => TypeOK
<1> SUFFICES ASSUME Init PROVE TypeOK
  OBVIOUS
<1>1. KubeTypeOK
  BY InitialValues DEF Init, KubeInit, KubeTypeOK
<1>2. LocalTypeOK /\ ServerTypeOK /\ RestTypeOK
  BY InitialValues DEF Init, LocalTypeOK, ServerTypeOK, RestTypeOK, Steps
<1> QED
  BY <1>1, <1>2 DEF TypeOK, KubeTypeOK, LocalTypeOK, ServerTypeOK, RestTypeOK

LEMMA NextType == TypeOK /\ [Next]_vars => TypeOK'
<1> SUFFICES ASSUME TypeOK, [Next]_vars PROVE TypeOK'
  OBVIOUS
<1>1. CASE UNCHANGED vars
  BY <1>1 DEF vars, kubeVars, serverVars, secretVars, TypeOK
<1>2. ASSUME NEW n \in Names, User(n) \/ Manager(n) \/ DeliverSecret(n) \/ Start(n)
      PROVE  TypeOK'
  <2>1. CASE User(n)
    BY <2>1, UserType
  <2>2. CASE Manager(n) \/ DeliverSecret(n)
    BY <2>2, ManagerType
  <2>3. CASE Start(n)
    BY <2>3, StartBegins, BeginType
  <2> QED
    BY <1>2, <2>1, <2>2, <2>3
<1>3. CASE Worker
  BY <1>3, ReadType, CallType, WriteType DEF Worker
<1>4. CASE Environment
  BY <1>4, ServeLateType, RemoveOutOfBandType, CallFailsType, FaultType DEF Environment
<1> QED
  BY <1>1, <1>2, <1>3, <1>4 DEF Next

\* Type correctness of the reconcile loop: the worker's locals, the objects, the
\* events and the stored records are what they are taken for, whatever fails.
THEOREM TypeCorrect == Spec => []TypeOK
<1>1. Init => TypeOK
  BY InitType
<1>2. TypeOK /\ [Next]_vars => TypeOK'
  BY NextType
<1> QED
  BY <1>1, <1>2, PTL DEF Spec

-----------------------------------------------------------------------------
(***************************************************************************)
(* The inductive invariant.                                                *)
(***************************************************************************)
\* What is known of n is one of its past versions, and the present version is
\* known only as what it is.
IsCopy(n, o) ==
    /\ o.rv <= api[n].rv
    /\ o.rv = api[n].rv => o = api[n]

Copies ==
    \A n \in Names :
       /\ IsCopy(n, cache[n])
       /\ \A i \in 1..Len(pending[n]) : IsCopy(n, pending[n][i])

\* Events come in the order of their versions, all newer than the cache.
Ordered ==
    \A n \in Names :
       /\ \A i \in 1..Len(pending[n]) : cache[n].rv < pending[n][i].rv
       /\ \A i, j \in 1..Len(pending[n]) : i < j => pending[n][i].rv < pending[n][j].rv

\* A version with the finalizer of an object nobody has asked to delete.
Held(o) == o.exists /\ o.finalizer /\ ~o.deleting

\* Once such a version is known, the finalizer is there until the worker itself
\* takes it away, and then nobody knows such a version any more.
HeldCopies ==
    \A n \in Names :
       \/ api[n].exists /\ api[n].finalizer
       \/ ~Held(cache[n]) /\ \A i \in 1..Len(pending[n]) : ~Held(pending[n][i])

\* Every ID that any version records was handed out.
Known(o) == o.status.id \in used \cup {NoId}

IdsKnown ==
    \A n \in Names :
       /\ Known(api[n])
       /\ Known(cache[n])
       /\ \A i \in 1..Len(pending[n]) : Known(pending[n][i])

IdUnderFinalizer ==
    \A n \in Names : api[n].exists /\ api[n].status.id # NoId => api[n].finalizer

DeleteSteps == {"deleteRemote", "removeFinalizer"}

PushSteps == {"readFirst", "readSecond", "save", "reportFailed", "reportSynced"}

\* What the worker's locals say at each of its steps.
JobOK ==
    pc # "idle" =>
       /\ IsCopy(job.key, job.obj)
       /\ job.obj.rv <= cache[job.key].rv
       /\ job.obj.exists
       /\ Known(job.obj)
       /\ job.id \in used \cup {NoId}
       /\ pc \in DeleteSteps => job.obj.deleting
       /\ pc \in PushSteps => api[job.key].exists /\ api[job.key].finalizer
       /\ pc = "reportSynced" => job.id = job.obj.status.id \/ job.obj.status.id = NoId
       /\ pc = "removeFinalizer" => RowOf(job.obj.status.id) = {}

ObjectInv ==
    /\ Copies
    /\ Ordered
    /\ HeldCopies
    /\ IdsKnown
    /\ IdUnderFinalizer
    /\ RecordedRowRemoved

IInv ==
    /\ TypeOK
    /\ ObjectInv
    /\ JobOK

(***************************************************************************)
(* What a write to the Kubernetes API does to the versions that are known. *)
(***************************************************************************)
LEMMA StoreEffect ==
    ASSUME KubeTypeOK, NEW n \in Names, NEW o \in Object, Store(n, o)
    PROVE  /\ api'[n].rv = api[n].rv + 1
           /\ api'[n].exists = o.exists
           /\ api'[n].finalizer = o.finalizer
           /\ api'[n].deleting = o.deleting
           /\ api'[n].status = o.status
           /\ Len(pending'[n]) = Len(pending[n]) + 1
           /\ \A i \in 1..Len(pending[n]) : pending'[n][i] = pending[n][i]
           /\ pending'[n][Len(pending[n]) + 1] = api'[n]
           /\ \A m \in Names \ {n} : api'[m] = api[m] /\ pending'[m] = pending[m]
<1> DEFINE stored == [o EXCEPT !.rv = api[n].rv + 1]
<1>1. api'[n] = stored /\ pending'[n] = Append(pending[n], stored)
  BY DEF Store, KubeTypeOK
<1>2. /\ stored.rv = api[n].rv + 1
      /\ stored.exists = o.exists
      /\ stored.finalizer = o.finalizer
      /\ stored.deleting = o.deleting
      /\ stored.status = o.status
  BY DEF Object, ObjectsWith
<1>3. \A m \in Names \ {n} : api'[m] = api[m] /\ pending'[m] = pending[m]
  BY DEF Store, KubeTypeOK
<1>4. pending[n] \in Seq(Object)
  BY DEF KubeTypeOK
<1> HIDE DEF stored
<1>5. /\ Len(pending'[n]) = Len(pending[n]) + 1
      /\ \A i \in 1..Len(pending[n]) : pending'[n][i] = pending[n][i]
      /\ pending'[n][Len(pending[n]) + 1] = stored
  BY <1>1, <1>4
<1> QED
  BY <1>1, <1>2, <1>3, <1>5

\* Versions are natural numbers.
LEMMA VersionTypes ==
    ASSUME KubeTypeOK, NEW n \in Names
    PROVE  /\ api[n].rv \in Nat
           /\ cache[n].rv \in Nat
           /\ Len(pending[n]) \in Nat
           /\ \A i \in 1..Len(pending[n]) : pending[n][i] \in Object /\ pending[n][i].rv \in Nat
<1>1. api[n] \in Object /\ cache[n] \in Object /\ pending[n] \in Seq(Object)
  BY DEF KubeTypeOK
<1>2. \A i \in 1..Len(pending[n]) : pending[n][i] \in Object
  BY <1>1
<1>3. \A o \in Object : o.rv \in Nat
  BY DEF Object, ObjectsWith
<1> QED
  BY <1>1, <1>2, <1>3

LEMMA StoreCopies ==
    ASSUME KubeTypeOK, Copies, Ordered,
           NEW n \in Names, NEW o \in Object, Store(n, o), cache' = cache
    PROVE  Copies' /\ Ordered'
<1>1. \A m \in Names : /\ api[m].rv \in Nat /\ cache[m].rv \in Nat
                       /\ Len(pending[m]) \in Nat
                       /\ \A i \in 1..Len(pending[m]) : pending[m][i].rv \in Nat
  BY VersionTypes
<1>2. Copies'
  <2> SUFFICES ASSUME NEW m \in Names
               PROVE  /\ IsCopy(m, cache[m])'
                      /\ \A i \in 1..Len(pending'[m]) : IsCopy(m, pending[m][i])'
    BY DEF Copies
  <2>1. CASE m # n
    BY <2>1, StoreEffect DEF Copies, IsCopy
  <2>2. CASE m = n
    <3>1. IsCopy(n, cache[n])'
      BY <1>1, StoreEffect DEF Copies, IsCopy
    <3>2. ASSUME NEW i \in 1..Len(pending'[n]) PROVE IsCopy(n, pending[n][i])'
      <4>1. CASE i \in 1..Len(pending[n])
        <5>1. pending'[n][i] = pending[n][i] /\ api'[n].rv = api[n].rv + 1
          BY <4>1, StoreEffect
        <5>2. pending[n][i].rv <= api[n].rv
          BY <4>1 DEF Copies, IsCopy
        <5>3. pending'[n][i].rv < api'[n].rv
          BY <1>1, <4>1, <5>1, <5>2
        <5> QED
          BY <1>1, <4>1, <5>1, <5>3 DEF IsCopy
      <4>2. CASE i = Len(pending[n]) + 1
        BY <1>1, <4>2, StoreEffect DEF IsCopy
      <4> QED
        BY <1>1, <3>2, <4>1, <4>2, StoreEffect
    <3> QED
      BY <2>2, <3>1, <3>2
  <2> QED
    BY <2>1, <2>2
<1>3. Ordered'
  <2> SUFFICES ASSUME NEW m \in Names
               PROVE  /\ \A i \in 1..Len(pending'[m]) : cache[m].rv < pending'[m][i].rv
                      /\ \A i, j \in 1..Len(pending'[m]) :
                            i < j => pending'[m][i].rv < pending'[m][j].rv
    BY DEF Ordered
  <2>1. CASE m # n
    BY <2>1, StoreEffect DEF Ordered
  <2>2. CASE m = n
    <3>1. \A i \in 1..Len(pending[n]) : pending[n][i].rv <= api[n].rv
      BY DEF Copies, IsCopy
    <3>2. cache[n].rv <= api[n].rv
      BY DEF Copies, IsCopy
    <3>3. /\ Len(pending'[n]) = Len(pending[n]) + 1
          /\ \A i \in 1..Len(pending[n]) : pending'[n][i] = pending[n][i]
          /\ pending'[n][Len(pending[n]) + 1].rv = api[n].rv + 1
      BY StoreEffect
    <3>4. ASSUME NEW i \in 1..Len(pending'[n]) PROVE cache[n].rv < pending'[n][i].rv
      <4>1. CASE i \in 1..Len(pending[n])
        BY <3>3, <4>1 DEF Ordered
      <4>2. CASE i = Len(pending[n]) + 1
        BY <1>1, <3>2, <3>3, <4>2
      <4> QED
        BY <1>1, <3>3, <4>1, <4>2
    <3>5. ASSUME NEW i \in 1..Len(pending'[n]), NEW j \in 1..Len(pending'[n]), i < j
          PROVE  pending'[n][i].rv < pending'[n][j].rv
      <4>0. i \in 1..Len(pending[n])
        BY <1>1, <3>3, <3>5
      <4>1. CASE j \in 1..Len(pending[n])
        BY <3>3, <3>5, <4>0, <4>1 DEF Ordered
      <4>2. CASE j = Len(pending[n]) + 1
        <5>1. pending[n][i].rv <= api[n].rv /\ pending'[n][i] = pending[n][i]
          BY <3>1, <3>3, <4>0
        <5>2. pending[n][i].rv \in Nat /\ api[n].rv \in Nat
          BY <1>1, <4>0
        <5> QED
          BY <3>3, <4>2, <5>1, <5>2
      <4> QED
        BY <1>1, <3>3, <4>1, <4>2
    <3> QED
      BY <2>2, <3>4, <3>5
  <2> QED
    BY <2>1, <2>2
<1> QED
  BY <1>2, <1>3

LEMMA StoreHeld ==
    ASSUME KubeTypeOK, HeldCopies,
           NEW n \in Names, NEW o \in Object, Store(n, o), cache' = cache,
           \/ o.exists /\ o.finalizer
           \/ /\ ~Held(o)
              /\ ~Held(cache[n])
              /\ \A i \in 1..Len(pending[n]) : ~Held(pending[n][i])
    PROVE  HeldCopies'
<1> SUFFICES ASSUME NEW m \in Names
             PROVE  \/ api'[m].exists /\ api'[m].finalizer
                    \/ /\ ~Held(cache[m])
                       /\ \A i \in 1..Len(pending'[m]) : ~Held(pending'[m][i])
  BY DEF HeldCopies
<1>1. CASE m # n
  BY <1>1, StoreEffect DEF HeldCopies
<1>2. CASE m = n
  <2>1. CASE o.exists /\ o.finalizer
    BY <1>2, <2>1, StoreEffect
  <2>2. CASE /\ ~Held(o)
             /\ ~Held(cache[n])
             /\ \A i \in 1..Len(pending[n]) : ~Held(pending[n][i])
    <3>1. ~Held(api'[n])
      BY <2>2, StoreEffect DEF Held
    <3>2. ASSUME NEW i \in 1..Len(pending'[n]) PROVE ~Held(pending'[n][i])
      <4>1. i \in 1..Len(pending[n]) \/ i = Len(pending[n]) + 1
        BY StoreEffect, VersionTypes
      <4> QED
        BY <2>2, <3>1, <4>1, StoreEffect
    <3> QED
      BY <1>2, <2>2, <3>2
  <2> QED
    BY <2>1, <2>2
<1> QED
  BY <1>1, <1>2

LEMMA StoreKnown ==
    ASSUME KubeTypeOK, IdsKnown, used' = used,
           NEW n \in Names, NEW o \in Object, Store(n, o), cache' = cache, Known(o)
    PROVE  IdsKnown'
<1> SUFFICES ASSUME NEW m \in Names
             PROVE  /\ Known(api'[m])
                    /\ Known(cache[m])
                    /\ \A i \in 1..Len(pending'[m]) : Known(pending'[m][i])
  BY DEF IdsKnown, Known
<1>1. CASE m # n
  BY <1>1, StoreEffect DEF IdsKnown
<1>2. CASE m = n
  <2>1. Known(api'[n])
    BY StoreEffect DEF Known
  <2>2. ASSUME NEW i \in 1..Len(pending'[n]) PROVE Known(pending'[n][i])
    <3>1. i \in 1..Len(pending[n]) \/ i = Len(pending[n]) + 1
      BY StoreEffect, VersionTypes
    <3> QED
      BY <2>1, <3>1, StoreEffect DEF IdsKnown
  <2> QED
    BY <1>2, <2>1, <2>2 DEF IdsKnown
<1> QED
  BY <1>1, <1>2

\* A write keeps the invariant of the objects if what is written may take the
\* place of the present version.
LEMMA StoreInv ==
    ASSUME KubeTypeOK, ObjectInv, NEW n \in Names, NEW o \in Object, Store(n, o),
           UNCHANGED <<cache, rows, used>>,
           Known(o),
           \/ o.exists /\ o.finalizer
           \/ ~Held(o) /\ ~Held(cache[n]) /\ \A i \in 1..Len(pending[n]) : ~Held(pending[n][i]),
           o.exists /\ o.status.id # NoId => o.finalizer,
           ~o.exists /\ o.status.id # NoId => RowOf(o.status.id) = {}
    PROVE  ObjectInv'
<1>1. Copies' /\ Ordered'
  BY StoreCopies DEF ObjectInv
<1>2. HeldCopies'
  BY StoreHeld DEF ObjectInv
<1>3. IdsKnown'
  BY StoreKnown DEF ObjectInv
<1>4. IdUnderFinalizer'
  <2> SUFFICES ASSUME NEW m \in Names
               PROVE  api'[m].exists /\ api'[m].status.id # NoId => api'[m].finalizer
    BY DEF IdUnderFinalizer
  <2> QED
    BY StoreEffect DEF IdUnderFinalizer, ObjectInv
<1>5. RecordedRowRemoved'
  <2> SUFFICES ASSUME NEW m \in Names
               PROVE  ~api'[m].exists /\ api'[m].status.id # NoId
                        => {r \in rows : r.id = api'[m].status.id} = {}
    BY DEF RecordedRowRemoved, RowOf
  <2> QED
    BY StoreEffect DEF RecordedRowRemoved, RowOf, ObjectInv
<1> QED
  BY <1>1, <1>2, <1>3, <1>4, <1>5 DEF ObjectInv

\* A user's write leaves the worker's locals true as long as it does not take
\* the finalizer from under a push.
LEMMA StoreJob ==
    ASSUME KubeTypeOK, LocalTypeOK, JobOK, NEW n \in Names, NEW o \in Object, Store(n, o),
           UNCHANGED <<cache, rows, used, pc, job>>,
           n = job.key /\ pc \in PushSteps => o.exists /\ o.finalizer
    PROVE  JobOK'
<1> SUFFICES ASSUME pc # "idle" PROVE JobOK'
  BY DEF JobOK
<1>1. job.key \in Names /\ job.obj.rv \in Nat
  BY JobTypes
<1>2. IsCopy(job.key, job.obj)'
  <2>1. CASE job.key # n
    BY <1>1, <2>1, StoreEffect DEF JobOK, IsCopy
  <2>2. CASE job.key = n
    <3>1. job.obj.rv <= api[n].rv /\ api[n].rv \in Nat /\ api'[n].rv = api[n].rv + 1
      BY <2>2, StoreEffect, VersionTypes DEF JobOK, IsCopy
    <3> QED
      BY <1>1, <2>2, <3>1 DEF IsCopy
  <2> QED
    BY <2>1, <2>2
<1>3. pc \in PushSteps => api'[job.key].exists /\ api'[job.key].finalizer
  BY <1>1, StoreEffect DEF JobOK
<1> QED
  BY <1>2, <1>3 DEF JobOK, Known, RowOf

LEMMA UserInv ==
    ASSUME IInv, NEW n \in Names, User(n)
    PROVE  ObjectInv' /\ JobOK'
<1>0. KubeTypeOK /\ LocalTypeOK /\ ObjectInv /\ JobOK
  BY TypeParts DEF IInv
<1>1. CASE \E c \in Creds \cup {NoCred} : SetSecret(n, c)
  <2>1. UNCHANGED <<api, cache, pending, rows, used, pc, job>>
    BY <1>1 DEF SetSecret, serverVars
  <2> QED
    BY <1>0, <2>1 DEF ObjectInv, Copies, Ordered, HeldCopies, IdsKnown, IdUnderFinalizer,
       RecordedRowRemoved, JobOK, IsCopy, Known, RowOf
<1>2. CASE /\ \/ \E s \in Specs : CreateObject(n, s, NoStatus) \/ EditSpec(n, s)
              \/ DeleteObject(n)
           /\ UNCHANGED <<pc, job, serverVars, secretVars, faults>>
  <2>1. UNCHANGED <<cache, rows, used, pc, job>>
    BY <1>2 DEF CreateObject, EditSpec, DeleteObject, serverVars
  <2>2. api[n] \in Object
    BY <1>0 DEF KubeTypeOK
  <2>3. n = job.key /\ pc \in PushSteps => api[n].exists /\ api[n].finalizer
    BY <1>0 DEF JobOK, PushSteps
  <2>4. ASSUME NEW o \in Object, Store(n, o), o.status = api[n].status,
               o.exists => api[n].exists, o.finalizer = api[n].finalizer,
               api[n].exists, api[n].finalizer => o.exists
        PROVE  ObjectInv' /\ JobOK'
    <3>1. Known(o)
      BY <1>0, <2>4 DEF ObjectInv, IdsKnown, Known
    <3>2. \/ o.exists /\ o.finalizer
          \/ ~Held(o) /\ ~Held(cache[n]) /\ \A i \in 1..Len(pending[n]) : ~Held(pending[n][i])
      BY <1>0, <2>4 DEF ObjectInv, HeldCopies, Held
    <3>3. api[n].status.id # NoId => api[n].finalizer
      BY <1>0, <2>4 DEF ObjectInv, IdUnderFinalizer
    <3> QED
      BY <1>0, <2>1, <2>3, <2>4, <3>1, <3>2, <3>3, StoreInv, StoreJob
  <2>5. ASSUME NEW s \in Specs, CreateObject(n, s, NoStatus) PROVE ObjectInv' /\ JobOK'
    <3> DEFINE o == [exists |-> TRUE, rv |-> 0, gen |-> 1, spec |-> s, deleting |-> FALSE,
                     finalizer |-> FALSE, status |-> NoStatus]
    <3>1. o \in Object /\ o.exists /\ ~o.finalizer /\ o.status.id = NoId
      BY InitialValues DEF Object, ObjectsWith, NoStatus
    <3>2. Store(n, o) /\ ~api[n].exists
      BY <2>5 DEF CreateObject
    <3> HIDE DEF o
    <3>3. ~Held(o) /\ ~Held(cache[n]) /\ \A i \in 1..Len(pending[n]) : ~Held(pending[n][i])
      BY <1>0, <3>1, <3>2 DEF ObjectInv, HeldCopies, Held
    <3>4. Known(o)
      BY <3>1 DEF Known
    <3> QED
      BY <1>0, <2>1, <2>3, <3>1, <3>2, <3>3, <3>4, StoreInv, StoreJob
  <2>6. ASSUME NEW s \in Specs, EditSpec(n, s) PROVE ObjectInv' /\ JobOK'
    <3> DEFINE o == [api[n] EXCEPT !.spec = s, !.gen = @ + 1]
    <3>1. o \in Object
      BY <2>2, ObjectUpdates
    <3>2. /\ o.exists = api[n].exists /\ o.finalizer = api[n].finalizer
          /\ o.status = api[n].status
      BY <2>2 DEF Object, ObjectsWith
    <3>3. Store(n, o) /\ api[n].exists
      BY <2>6 DEF EditSpec
    <3> HIDE DEF o
    <3> QED
      BY <2>4, <3>1, <3>2, <3>3
  <2>7. CASE DeleteObject(n)
    <3>1. CASE api[n].finalizer
      <4> DEFINE o == [api[n] EXCEPT !.deleting = TRUE, !.gen = @ + 1]
      <4>1. o \in Object
        BY <2>2, ObjectUpdates
      <4>2. /\ o.exists = api[n].exists /\ o.finalizer = api[n].finalizer
            /\ o.status = api[n].status
        BY <2>2 DEF Object, ObjectsWith
      <4>3. Store(n, o) /\ api[n].exists
        BY <2>7, <3>1 DEF DeleteObject
      <4> HIDE DEF o
      <4> QED
        BY <2>4, <4>1, <4>2, <4>3
    <3>2. CASE ~api[n].finalizer
      <4> DEFINE o == [api[n] EXCEPT !.exists = FALSE]
      <4>1. o \in Object
        BY <2>2, ObjectUpdates
      <4>2. /\ ~o.exists /\ o.finalizer = api[n].finalizer
            /\ o.status = api[n].status
        BY <2>2 DEF Object, ObjectsWith
      <4>3. Store(n, o) /\ api[n].exists
        BY <2>7, <3>2 DEF DeleteObject
      <4> HIDE DEF o
      <4> QED
        BY <2>4, <3>2, <4>1, <4>2, <4>3
    <3> QED
      BY <3>1, <3>2
  <2> QED
    BY <1>2, <2>5, <2>6, <2>7
<1> QED
  BY <1>1, <1>2 DEF User

(***************************************************************************)
(* Watch events, timers and the list after a restart.                      *)
(***************************************************************************)
LEMMA TailElements ==
    ASSUME NEW S, NEW s \in Seq(S), s # <<>>
    PROVE  /\ Len(s) \in Nat \ {0}
           /\ Head(s) = s[1]
           /\ Len(Tail(s)) = Len(s) - 1
           /\ \A i \in 1..Len(Tail(s)) : Tail(s)[i] = s[i + 1]
  OBVIOUS

LEMMA DeliverInv ==
    ASSUME IInv, NEW n \in Names, DeliverEvent(n),
           UNCHANGED <<pc, job, rows, used>>
    PROVE  ObjectInv' /\ JobOK'
<1>0. KubeTypeOK /\ LocalTypeOK /\ ObjectInv /\ JobOK
  BY TypeParts DEF IInv
<1>1. /\ api' = api
      /\ cache'[n] = pending[n][1]
      /\ Len(pending'[n]) = Len(pending[n]) - 1
      /\ Len(pending[n]) \in Nat \ {0}
      /\ \A i \in 1..Len(pending'[n]) : pending'[n][i] = pending[n][i + 1]
      /\ \A m \in Names \ {n} : cache'[m] = cache[m] /\ pending'[m] = pending[m]
  <2>1. pending[n] \in Seq(Object) /\ pending[n] # <<>>
    BY <1>0 DEF KubeTypeOK, DeliverEvent
  <2>2. cache'[n] = Head(pending[n]) /\ pending'[n] = Tail(pending[n])
    BY <1>0 DEF KubeTypeOK, DeliverEvent
  <2>3. \A m \in Names \ {n} : cache'[m] = cache[m] /\ pending'[m] = pending[m]
    BY <1>0 DEF KubeTypeOK, DeliverEvent
  <2>4. api' = api
    BY DEF DeliverEvent
  <2> QED
    BY <2>1, <2>2, <2>3, <2>4, TailElements
<1>2. \A i \in 1..Len(pending'[n]) : i + 1 \in 1..Len(pending[n])
  BY <1>1
<1>3. 1 \in 1..Len(pending[n])
  BY <1>1
<1>4. Copies'
  <2> SUFFICES ASSUME NEW m \in Names
               PROVE  /\ IsCopy(m, cache'[m])
                      /\ \A i \in 1..Len(pending'[m]) : IsCopy(m, pending'[m][i])
    BY <1>1 DEF Copies, IsCopy
  <2>1. CASE m # n
    BY <1>0, <1>1, <2>1 DEF ObjectInv, Copies
  <2>2. CASE m = n
    BY <1>0, <1>1, <1>2, <1>3, <2>2 DEF ObjectInv, Copies
  <2> QED
    BY <2>1, <2>2
<1>5. Ordered'
  <2> SUFFICES ASSUME NEW m \in Names
               PROVE  /\ \A i \in 1..Len(pending'[m]) : cache'[m].rv < pending'[m][i].rv
                      /\ \A i, j \in 1..Len(pending'[m]) :
                            i < j => pending'[m][i].rv < pending'[m][j].rv
    BY DEF Ordered
  <2>1. CASE m # n
    BY <1>0, <1>1, <2>1 DEF ObjectInv, Ordered
  <2>2. ASSUME NEW i \in 1..Len(pending'[n]) PROVE cache'[n].rv < pending'[n][i].rv
    <3>1. cache'[n] = pending[n][1] /\ pending'[n][i] = pending[n][i + 1]
      BY <1>1
    <3>2. i + 1 \in 1..Len(pending[n]) /\ 1 < i + 1
      BY <1>2
    <3> QED
      BY <1>0, <1>3, <3>1, <3>2 DEF ObjectInv, Ordered
  <2>3. ASSUME NEW i \in 1..Len(pending'[n]), NEW j \in 1..Len(pending'[n]), i < j
        PROVE  pending'[n][i].rv < pending'[n][j].rv
    <3>1. pending'[n][i] = pending[n][i + 1] /\ pending'[n][j] = pending[n][j + 1]
      BY <1>1
    <3>2. i + 1 \in 1..Len(pending[n]) /\ j + 1 \in 1..Len(pending[n]) /\ i + 1 < j + 1
      BY <1>2, <2>3
    <3> QED
      BY <1>0, <3>1, <3>2 DEF ObjectInv, Ordered
  <2> QED
    BY <2>1, <2>2, <2>3
<1>6. HeldCopies'
  <2> SUFFICES ASSUME NEW m \in Names
               PROVE  \/ api[m].exists /\ api[m].finalizer
                      \/ /\ ~Held(cache'[m])
                         /\ \A i \in 1..Len(pending'[m]) : ~Held(pending'[m][i])
    BY <1>1 DEF HeldCopies
  <2>1. CASE m # n
    BY <1>0, <1>1, <2>1 DEF ObjectInv, HeldCopies
  <2>2. CASE m = n
    BY <1>0, <1>1, <1>2, <1>3, <2>2 DEF ObjectInv, HeldCopies
  <2> QED
    BY <2>1, <2>2
<1>7. IdsKnown'
  <2> SUFFICES ASSUME NEW m \in Names
               PROVE  /\ Known(api[m])
                      /\ Known(cache'[m])
                      /\ \A i \in 1..Len(pending'[m]) : Known(pending'[m][i])
    BY <1>1 DEF IdsKnown, Known
  <2>1. CASE m # n
    BY <1>0, <1>1, <2>1 DEF ObjectInv, IdsKnown
  <2>2. CASE m = n
    BY <1>0, <1>1, <1>2, <1>3, <2>2 DEF ObjectInv, IdsKnown
  <2> QED
    BY <2>1, <2>2
<1>8. IdUnderFinalizer' /\ RecordedRowRemoved'
  BY <1>0, <1>1 DEF ObjectInv, IdUnderFinalizer, RecordedRowRemoved, RowOf
<1>9. JobOK'
  <2> SUFFICES ASSUME pc # "idle" PROVE JobOK'
    BY DEF JobOK
  <2>1. job.key \in Names /\ job.obj.rv \in Nat
    BY <1>0, JobTypes
  <2>2. job.obj.rv <= cache'[job.key].rv
    <3>1. CASE job.key # n
      BY <1>0, <1>1, <2>1, <3>1 DEF JobOK
    <3>2. CASE job.key = n
      <4>1. job.obj.rv <= cache[n].rv /\ cache[n].rv < pending[n][1].rv
        BY <1>0, <1>3, <3>2 DEF JobOK, ObjectInv, Ordered
      <4>2. cache[n].rv \in Nat /\ pending[n][1].rv \in Nat
        BY <1>0, <1>3, VersionTypes
      <4> QED
        BY <1>1, <2>1, <3>2, <4>1, <4>2
    <3> QED
      BY <3>1, <3>2
  <2> QED
    BY <1>0, <1>1, <2>2 DEF JobOK, IsCopy, Known, RowOf
<1> QED
  BY <1>4, <1>5, <1>6, <1>7, <1>8, <1>9 DEF ObjectInv

LEMMA ManagerInv ==
    ASSUME IInv, NEW n \in Names, Manager(n) \/ DeliverSecret(n)
    PROVE  ObjectInv' /\ JobOK'
<1>1. CASE DeliverEvent(n) /\ Manager(n)
  BY <1>1, DeliverInv DEF Manager, serverVars
<1>2. CASE \/ (FireTimer(n) \/ Resync(n)) /\ Manager(n)
           \/ DeliverSecret(n)
  <2>1. UNCHANGED <<api, cache, pending, rows, used, pc, job>>
    BY <1>2 DEF FireTimer, Resync, Manager, DeliverSecret, kubeVars, serverVars
  <2> QED
    BY <2>1 DEF IInv, ObjectInv, Copies, Ordered, HeldCopies, IdsKnown, IdUnderFinalizer,
       RecordedRowRemoved, JobOK, IsCopy, Known, RowOf
<1> QED
  BY <1>1, <1>2 DEF Manager

LEMMA RestartInv ==
    ASSUME IInv, Restart
    PROVE  ObjectInv' /\ JobOK'
<1>0. KubeTypeOK /\ ObjectInv
  BY TypeParts DEF IInv
<1>1. /\ api' = api /\ cache' = api /\ UNCHANGED <<rows, used>> /\ pc' = "idle"
      /\ \A n \in Names : pending'[n] = <<>>
  BY DEF Restart, Relist, Goto, serverVars
<1>2. \A n \in Names : 1..Len(pending'[n]) = {}
  BY <1>1
<1>3. \A n \in Names : api[n].rv \in Nat
  BY <1>0, VersionTypes
<1>4. Copies' /\ Ordered'
  BY <1>1, <1>2, <1>3 DEF Copies, Ordered, IsCopy
<1>5. HeldCopies'
  BY <1>1, <1>2 DEF HeldCopies, Held
<1>6. IdsKnown' /\ IdUnderFinalizer' /\ RecordedRowRemoved' /\ JobOK'
  BY <1>0, <1>1, <1>2
  DEF ObjectInv, IdsKnown, Known, IdUnderFinalizer, RecordedRowRemoved, RowOf, JobOK
<1> QED
  BY <1>4, <1>5, <1>6 DEF ObjectInv

(***************************************************************************)
(* Steps that leave the objects and their events alone.                    *)
(***************************************************************************)
\* IDs are only ever added to the ones handed out, and a record that is not
\* there comes back under no ID that was.
RowsMove ==
    /\ used \subseteq used'
    /\ \A id \in used \cup {NoId} : RowOf(id) = {} => {r \in rows' : r.id = id} = {}

LEMMA RowsMoveInv ==
    ASSUME ObjectInv, UNCHANGED <<api, cache, pending>>, RowsMove
    PROVE  ObjectInv'
<1>1. Copies' /\ Ordered' /\ HeldCopies' /\ IdUnderFinalizer'
  BY DEF ObjectInv, Copies, Ordered, HeldCopies, IdUnderFinalizer, IsCopy
<1>2. IdsKnown'
  BY DEF ObjectInv, IdsKnown, Known, RowsMove
<1>3. RecordedRowRemoved'
  BY DEF ObjectInv, IdsKnown, Known, RowsMove, RecordedRowRemoved, RowOf
<1> QED
  BY <1>1, <1>2, <1>3 DEF ObjectInv

LEMMA InsertMoves ==
    ASSUME NEW r \in Row, NEW id \in Ids, Insert(r, id)
    PROVE  RowsMove
<1>1. id \notin used /\ id # NoId
  BY ResourceAssumption DEF Insert
<1>2. [r EXCEPT !.id = id].id = id
  BY Zenon DEF Row
<1> QED
  BY <1>1, <1>2 DEF Insert, RowsMove, RowOf

LEMMA ReplaceMoves ==
    ASSUME NEW r, Replace(r), RowOf(r.id) # {}, used' = used
    PROVE  RowsMove
  BY DEF Replace, RowsMove, RowOf

LEMMA RemoveMoves ==
    ASSUME NEW id, Remove(id), used' = used
    PROVE  RowsMove
  BY DEF Remove, RowsMove, RowOf

\* The worker's locals survive what databasus does on its own.
LEMMA RowsMoveJob ==
    ASSUME JobOK, UNCHANGED <<api, cache, pc, job>>, RowsMove
    PROVE  JobOK'
  BY DEF JobOK, IsCopy, Known, RowOf, RowsMove

(***************************************************************************)
(* The worker takes a key.                                                 *)
(***************************************************************************)
LEMMA BeginFields ==
    ASSUME KubeTypeOK, NEW n \in Names, NEW step \in Steps \ {"idle"}, Begin(n, step)
    PROVE  /\ pc' = step
           /\ job'.key = n
           /\ job'.obj = cache[n]
           /\ job'.id = NoId
           /\ UNCHANGED <<api, cache, pending, rows, used>>
<1>1. cache[n] \in Object
  BY DEF KubeTypeOK
<1>2. NoJob \in Job /\ NoJob.id = NoId
  BY InitialValues DEF NoJob
<1>3. job' = [NoJob EXCEPT !.key = n, !.obj = cache[n]] /\ pc' = step
  BY DEF Begin
<1>4. UNCHANGED <<api, cache, pending, rows, used>>
  BY DEF Begin, serverVars
<1> QED
  BY <1>1, <1>2, <1>3, <1>4 DEF Job

\* No record is stored without an ID.
LEMMA NoRowUnnamed ==
    ASSUME ServerTypeOK
    PROVE  RowOf(NoId) = {}
  BY ResourceAssumption DEF ServerTypeOK, RowOf

LEMMA StartInv ==
    ASSUME IInv, NEW n \in Names, Start(n)
    PROVE  ObjectInv' /\ JobOK'
<1>0. KubeTypeOK /\ ServerTypeOK /\ ObjectInv
  BY TypeParts DEF IInv
<1>1. UNCHANGED <<api, cache, pending, rows, used>>
  BY StartBegins DEF Begin, serverVars
<1>2. ObjectInv'
  BY <1>0, <1>1, RowsMoveInv DEF RowsMove, RowOf
<1> SUFFICES JobOK'
  BY <1>2
<1>3. ASSUME NEW step \in Steps \ {"idle"}, Begin(n, step), cache[n].exists,
             step \in DeleteSteps => cache[n].deleting,
             step \in PushSteps => Held(cache[n]),
             step # "reportSynced",
             step = "removeFinalizer" => cache[n].status.id = NoId
      PROVE  JobOK'
  <2>1. /\ pc' = step /\ job'.key = n /\ job'.obj = cache[n] /\ job'.id = NoId
    BY <1>0, <1>3, BeginFields
  <2>2. IsCopy(n, cache[n]) /\ Known(cache[n]) /\ cache[n].rv <= cache[n].rv
    BY <1>0, VersionTypes DEF ObjectInv, Copies, IdsKnown
  <2>3. step \in PushSteps => api[n].exists /\ api[n].finalizer
    BY <1>0, <1>3 DEF ObjectInv, HeldCopies
  <2>4. step = "removeFinalizer" => RowOf(cache[n].status.id) = {}
    BY <1>0, <1>3, NoRowUnnamed
  <2> QED
    BY <1>1, <1>3, <2>1, <2>2, <2>3, <2>4 DEF JobOK, IsCopy, Known, RowOf
<1>4. CASE ReconcileGone(n)
  BY <1>4 DEF ReconcileGone, Begin, JobOK
<1>5. CASE ReconcileDeletion(n)
  <2>1. CASE cache[n].status.id # NoId /\ Begin(n, "deleteRemote")
    BY <1>3, <1>5, <2>1 DEF ReconcileDeletion, DeleteSteps, PushSteps, Steps
  <2>2. CASE cache[n].status.id = NoId /\ Begin(n, "removeFinalizer")
    BY <1>3, <1>5, <2>2 DEF ReconcileDeletion, DeleteSteps, PushSteps, Steps
  <2> QED
    BY <1>5, <2>1, <2>2 DEF ReconcileDeletion
<1>6. CASE ReconcileUnprotected(n)
  BY <1>3, <1>6 DEF ReconcileUnprotected, DeleteSteps, PushSteps, Steps
<1>7. CASE ReconcileLive(n)
  BY <1>3, <1>7 DEF ReconcileLive, DeleteSteps, PushSteps, Steps, Held
<1> QED
  BY <1>4, <1>5, <1>6, <1>7 DEF Start

(***************************************************************************)
(* databasus on its own: late requests and out-of-band deletions.          *)
(***************************************************************************)
LEMMA ServerInv ==
    ASSUME IInv, \/ \E q \in late : ServeLate(q)
                 \/ \E id \in Ids : RemoveOutOfBand(id)
    PROVE  ObjectInv' /\ JobOK'
<1>0. ServerTypeOK /\ ObjectInv /\ JobOK
  BY TypeParts DEF IInv
<1>1. UNCHANGED <<api, cache, pending, pc, job>>
  BY DEF ServeLate, RemoveOutOfBand, kubeVars
<1>2. ASSUME NEW q \in late, ServeLate(q) PROVE RowsMove
  <2>1. q.row \in Row
    BY <1>0 DEF ServerTypeOK, Request
  <2>2. CASE \E id \in Ids : Insert(q.row, id)
    BY <2>1, <2>2, InsertMoves
  <2>3. CASE RowOf(q.row.id) # {} /\ Replace(q.row) /\ UNCHANGED used
    BY <2>3, ReplaceMoves
  <2>4. CASE UNCHANGED <<rows, used>>
    BY <2>4 DEF RowsMove, RowOf
  <2>5. CASE Remove(q.row.id) /\ UNCHANGED used
    BY <2>5, RemoveMoves
  <2> QED
    BY <1>2, <2>2, <2>3, <2>4, <2>5 DEF ServeLate
<1>3. ASSUME NEW id \in Ids, RemoveOutOfBand(id) PROVE RowsMove
  BY <1>3, RemoveMoves DEF RemoveOutOfBand
<1> QED
  BY <1>0, <1>1, <1>2, <1>3, RowsMoveInv, RowsMoveJob

(***************************************************************************)
(* The worker's reads and HTTP calls.                                      *)
(***************************************************************************)
\* A push goes on: the object it works for stays the same.
LEMMA PushGoesOn ==
    ASSUME JobOK, UNCHANGED <<api, cache>>, RowsMove,
           pc \in PushSteps, NEW step \in PushSteps, NEW j, Goto(step, j),
           j.key = job.key, j.obj = job.obj, j.id \in used' \cup {NoId},
           step = "reportSynced" => j.id = job.obj.status.id \/ job.obj.status.id = NoId
    PROVE  JobOK'
<1>1. pc # "idle" /\ step \notin DeleteSteps
  BY DEF PushSteps, DeleteSteps
<1>2. pc' = step /\ job'.key = job.key /\ job'.obj = job.obj /\ job'.id = j.id
  BY DEF Goto
<1>3. /\ IsCopy(job.key, job.obj) /\ job.obj.rv <= cache[job.key].rv /\ job.obj.exists
      /\ Known(job.obj) /\ api[job.key].exists /\ api[job.key].finalizer
  BY <1>1 DEF JobOK
<1>4. Known(job.obj)'
  BY <1>2, <1>3 DEF Known, RowsMove
<1> QED
  BY <1>1, <1>2, <1>3, <1>4 DEF JobOK, IsCopy, Known, DeleteSteps

\* What the updates of the worker's locals leave alone.
LEMMA JobKeeps ==
    ASSUME LocalTypeOK
    PROVE  /\ \A c : LET j == [job EXCEPT !.first = c]
                     IN  j.key = job.key /\ j.obj = job.obj /\ j.id = job.id
           /\ \A c : LET j == [job EXCEPT !.second = c]
                     IN  j.key = job.key /\ j.obj = job.obj /\ j.id = job.id
           /\ \A r : LET j == [job EXCEPT !.reason = r]
                     IN  j.key = job.key /\ j.obj = job.obj /\ j.id = job.id
           /\ \A i : LET j == [job EXCEPT !.id = i]
                     IN  j.key = job.key /\ j.obj = job.obj /\ j.id = i
  BY DEF LocalTypeOK, Job

LEMMA ReadInv ==
    ASSUME IInv, ReadFirst \/ ReadSecond \/ SaveRejected
    PROVE  ObjectInv' /\ JobOK'
<1>0. LocalTypeOK /\ ObjectInv /\ JobOK
  BY TypeParts DEF IInv
<1>1. UNCHANGED <<api, cache, pending, rows, used>> /\ pc \in PushSteps
  BY DEF ReadFirst, ReadSecond, SaveRejected, kubeButDelayed, serverVars, PushSteps
<1>2. RowsMove
  BY <1>1 DEF RowsMove, RowOf
<1>3. /\ pc' \in PushSteps \ {"reportSynced"}
      /\ job'.key = job.key /\ job'.obj = job.obj /\ job'.id = job.id
  <2>1. CASE \E r \in Reasons : FailWith(r)
    BY <1>0, <2>1, JobKeeps DEF FailWith, Goto, PushSteps
  <2>2. CASE \E c : Goto(AfterFirst, [job EXCEPT !.first = c])
    BY <1>0, <2>2, JobKeeps DEF Goto, PushSteps, AfterFirst
  <2>3. CASE \E c : Goto("save", [job EXCEPT !.second = c])
    BY <1>0, <2>3, JobKeeps DEF Goto, PushSteps
  <2>4. CASE Goto("save", job)
    BY <2>4 DEF Goto, PushSteps
  <2> QED
    BY <2>1, <2>2, <2>3, <2>4 DEF ReadFirst, ReadSecond, SaveRejected, Reasons
<1>4. job.id \in used' \cup {NoId}
  BY <1>0, <1>1 DEF JobOK, PushSteps
<1>5. Goto(pc', job')
  BY DEF Goto
<1>6. JobOK'
  BY <1>0, <1>1, <1>2, <1>3, <1>4, <1>5, PushGoesOn
<1> QED
  BY <1>0, <1>1, <1>2, <1>6, RowsMoveInv

LEMMA SaveInv ==
    ASSUME IInv, SaveCreates \/ SaveReplaces
    PROVE  ObjectInv' /\ JobOK'
<1>0. LocalTypeOK /\ ServerTypeOK /\ ObjectInv /\ JobOK
  BY TypeParts DEF IInv
<1>1. UNCHANGED <<api, cache, pending>> /\ pc \in PushSteps /\ pc # "idle"
  BY DEF SaveCreates, SaveReplaces, kubeVars, PushSteps
<1>2. JobRow \in Row /\ JobRow.id = job.obj.status.id
  BY <1>0, JobTypes DEF JobRow
<1>3. CASE SaveCreates
  <2>1. PICK id \in Ids : /\ Insert(JobRow, id)
                          /\ Goto("reportSynced", [job EXCEPT !.id = id])
    BY <1>3 DEF SaveCreates
  <2>2. RowsMove /\ id \in used'
    BY <1>2, <2>1, InsertMoves DEF Insert
  <2> DEFINE j == [job EXCEPT !.id = id]
  <2>3. j.key = job.key /\ j.obj = job.obj /\ j.id = id
    BY <1>0, JobKeeps
  <2>4. Goto("reportSynced", j)
    BY <2>1
  <2> HIDE DEF j
  <2>5. job.obj.status.id = NoId
    BY <1>3 DEF SaveCreates
  <2>6. JobOK'
    BY <1>0, <1>1, <2>2, <2>3, <2>4, <2>5, PushGoesOn DEF PushSteps
  <2> QED
    BY <1>0, <1>1, <2>2, <2>6, RowsMoveInv
<1>4. CASE SaveReplaces
  <2>1. RowsMove
    BY <1>2, <1>4, ReplaceMoves DEF SaveReplaces
  <2> DEFINE j == [job EXCEPT !.id = job.obj.status.id]
  <2>2. j.key = job.key /\ j.obj = job.obj /\ j.id = job.obj.status.id
    BY <1>0, JobKeeps
  <2>3. Goto("reportSynced", j)
    BY <1>4 DEF SaveReplaces
  <2>4. j.id \in used' \cup {NoId}
    BY <1>0, <1>1, <2>1, <2>2 DEF JobOK, Known, RowsMove
  <2> HIDE DEF j
  <2>5. JobOK'
    BY <1>0, <1>1, <2>1, <2>2, <2>3, <2>4, PushGoesOn DEF PushSteps
  <2> QED
    BY <1>0, <1>1, <2>1, <2>5, RowsMoveInv
<1> QED
  BY <1>3, <1>4

LEMMA DeleteRemoteInv ==
    ASSUME IInv, DeleteRemote
    PROVE  ObjectInv' /\ JobOK'
<1>0. LocalTypeOK /\ ObjectInv /\ JobOK
  BY TypeParts DEF IInv
<1>1. /\ UNCHANGED <<api, cache, pending, used>>
      /\ pc = "deleteRemote" /\ pc' = "removeFinalizer" /\ job' = job
  BY DEF DeleteRemote, kubeVars, Goto
<1>2. RowsMove
  BY <1>1, RemoveMoves DEF DeleteRemote
<1>3. RowOf(job.obj.status.id)' = {}
  BY <1>1 DEF DeleteRemote, Remove, RowOf
<1>4. JobOK'
  BY <1>0, <1>1, <1>3 DEF JobOK, IsCopy, Known, DeleteSteps, PushSteps
<1> QED
  BY <1>0, <1>1, <1>2, <1>4, RowsMoveInv

LEMMA CallFailsInv ==
    ASSUME IInv, CallFails
    PROVE  ObjectInv' /\ JobOK'
<1>0. LocalTypeOK /\ ObjectInv /\ JobOK
  BY TypeParts DEF IInv
<1>1. UNCHANGED <<api, cache, pending, rows, used>>
  BY DEF CallFails, kubeButDelayed
<1>2. RowsMove
  BY <1>1 DEF RowsMove, RowOf
<1>3. CASE pc = "save" /\ FailWith("APISyncFailed")
  <2> DEFINE j == [job EXCEPT !.reason = "APISyncFailed"]
  <2>1. j.key = job.key /\ j.obj = job.obj /\ j.id = job.id
    BY <1>0, JobKeeps
  <2>2. Goto("reportFailed", j)
    BY <1>3 DEF FailWith
  <2> HIDE DEF j
  <2>3. job.id \in used' \cup {NoId}
    BY <1>0, <1>1, <1>3 DEF JobOK
  <2> QED
    BY <1>0, <1>1, <1>2, <1>3, <2>1, <2>2, <2>3, PushGoesOn, RowsMoveInv DEF PushSteps
<1>4. CASE ReturnAndRetry
  BY <1>0, <1>1, <1>2, <1>4, RowsMoveInv DEF ReturnAndRetry, Goto, JobOK
<1> QED
  BY <1>3, <1>4 DEF CallFails

(***************************************************************************)
(* The worker's writes to the Kubernetes API.  All of them end the call.   *)
(***************************************************************************)
\* An accepted write was computed from the present version, which the cache
\* shows: there are no events left to deliver.
LEMMA CurrentIsKnown ==
    ASSUME IInv, pc # "idle", Current(job.key, job.obj)
    PROVE  /\ job.key \in Names
           /\ job.obj = api[job.key]
           /\ cache[job.key] = api[job.key]
           /\ 1..Len(pending[job.key]) = {}
<1>0. KubeTypeOK /\ LocalTypeOK /\ ObjectInv /\ JobOK
  BY TypeParts DEF IInv
<1> DEFINE n == job.key
<1>1. n \in Names
  BY <1>0, JobTypes
<1>2. job.obj = api[n]
  BY <1>0 DEF JobOK, IsCopy, Current
<1> HIDE DEF n
<1>3. /\ cache[n].rv <= api[n].rv
      /\ cache[n].rv = api[n].rv => cache[n] = api[n]
      /\ \A i \in 1..Len(pending[n]) : pending[n][i].rv <= api[n].rv
      /\ \A i \in 1..Len(pending[n]) : cache[n].rv < pending[n][i].rv
  BY <1>0, <1>1 DEF ObjectInv, Copies, Ordered, IsCopy
<1>4. api[n].rv <= cache[n].rv
  BY <1>0, <1>2 DEF JobOK, n
<1>5. /\ api[n].rv \in Nat /\ cache[n].rv \in Nat
      /\ \A i \in 1..Len(pending[n]) : pending[n][i].rv \in Nat
  BY <1>0, <1>1, VersionTypes
<1>6. cache[n].rv = api[n].rv
  BY <1>3, <1>4, <1>5
<1>7. ASSUME NEW i \in 1..Len(pending[n]) PROVE FALSE
  BY <1>3, <1>5, <1>6
<1> QED
  BY <1>1, <1>2, <1>3, <1>6, <1>7 DEF n

LEMMA RemoveFinalizerInv ==
    ASSUME IInv, RemoveFinalizer
    PROVE  ObjectInv' /\ JobOK'
<1>0. KubeTypeOK /\ LocalTypeOK /\ ObjectInv /\ JobOK
  BY TypeParts DEF IInv
<1>1. UNCHANGED <<cache, rows, used>> /\ pc = "removeFinalizer" /\ pc' = "idle"
  BY DEF RemoveFinalizer, serverVars, Return, ReturnAndRetry, Goto
<1>2. JobOK'
  BY <1>1 DEF JobOK
<1>3. CASE Current(job.key, job.obj) /\ DropFinalizer(job.key)
  <2> DEFINE n == job.key
             o == [api[n] EXCEPT !.finalizer = FALSE, !.exists = FALSE]
  <2>1. /\ n \in Names /\ job.obj = api[n] /\ cache[n] = api[n]
        /\ 1..Len(pending[n]) = {}
    BY <1>1, <1>3, CurrentIsKnown
  <2>2. api[n] \in Object
    BY <1>0, <2>1 DEF KubeTypeOK
  <2>3. o \in Object
    BY <2>2, ObjectUpdates
  <2>4. ~o.exists /\ ~o.finalizer /\ o.status = api[n].status
    BY <2>2 DEF Object, ObjectsWith
  <2>5. Store(n, o)
    BY <1>3 DEF DropFinalizer
  <2>6. api[n].deleting /\ Known(api[n]) /\ RowOf(api[n].status.id) = {}
    BY <1>0, <1>1, <2>1 DEF JobOK, DeleteSteps
  <2> HIDE DEF n, o
  <2>7. ~Held(o) /\ ~Held(cache[n]) /\ \A i \in 1..Len(pending[n]) : ~Held(pending[n][i])
    BY <2>1, <2>4, <2>6 DEF Held
  <2>8. Known(o)
    BY <2>4, <2>6 DEF Known
  <2>9. ObjectInv'
    BY <1>0, <1>1, <2>1, <2>3, <2>4, <2>5, <2>6, <2>7, <2>8, StoreInv
  <2> QED
    BY <1>2, <2>9
<1>4. CASE UNCHANGED <<api, pending>>
  BY <1>0, <1>1, <1>2, <1>4, RowsMoveInv DEF RowsMove, RowOf
<1> QED
  BY <1>3, <1>4 DEF RemoveFinalizer

LEMMA AddFinalizerInv ==
    ASSUME IInv, AddFinalizer
    PROVE  ObjectInv' /\ JobOK'
<1>0. KubeTypeOK /\ LocalTypeOK /\ ObjectInv /\ JobOK
  BY TypeParts DEF IInv
<1>1. UNCHANGED <<cache, rows, used>> /\ pc = "addFinalizer" /\ pc' = "idle"
  BY DEF AddFinalizer, serverVars, Return, ReturnAndRetry, Goto
<1>2. JobOK'
  BY <1>1 DEF JobOK
<1>3. CASE Current(job.key, job.obj) /\ StoreFinalizer(job.key)
  <2> DEFINE n == job.key
             o == [api[n] EXCEPT !.finalizer = TRUE]
  <2>1. n \in Names /\ api[n] \in Object /\ api[n].exists
    BY <1>0, <1>3, JobTypes DEF KubeTypeOK, Current
  <2>2. o \in Object
    BY <2>1, ObjectUpdates
  <2>3. o.exists /\ o.finalizer /\ o.status = api[n].status
    BY <2>1 DEF Object, ObjectsWith
  <2>4. Store(n, o)
    BY <1>3 DEF StoreFinalizer
  <2> HIDE DEF n, o
  <2>5. Known(o)
    BY <1>0, <2>1, <2>3 DEF ObjectInv, IdsKnown, Known
  <2>6. ObjectInv'
    BY <1>0, <1>1, <2>1, <2>2, <2>3, <2>4, <2>5, StoreInv
  <2> QED
    BY <1>2, <2>6
<1>4. CASE UNCHANGED <<api, pending>>
  BY <1>0, <1>1, <1>2, <1>4, RowsMoveInv DEF RowsMove, RowOf
<1> QED
  BY <1>3, <1>4 DEF AddFinalizer

LEMMA ReportInv ==
    ASSUME IInv, ReportFailed \/ ReportSynced
    PROVE  ObjectInv' /\ JobOK'
<1>0. KubeTypeOK /\ LocalTypeOK /\ ObjectInv /\ JobOK
  BY TypeParts DEF IInv
<1>1. /\ UNCHANGED <<cache, rows, used>>
      /\ pc \in PushSteps /\ pc # "idle" /\ pc' = "idle"
  BY DEF ReportFailed, ReportSynced, serverVars, Return, ReturnAndRetry, Goto, PushSteps
<1>2. JobOK'
  BY <1>1 DEF JobOK
<1>3. ASSUME NEW status \in Status, StoreStatus(job.key, status),
             status.id \in used \cup {NoId}
      PROVE  ObjectInv'
  <2> DEFINE n == job.key
             o == [api[n] EXCEPT !.status = status]
  <2>1. n \in Names /\ api[n] \in Object /\ api[n].exists /\ api[n].finalizer
    BY <1>0, <1>1, JobTypes DEF KubeTypeOK, JobOK
  <2>2. o \in Object
    BY <2>1, Zenon DEF Object, ObjectsWith
  <2>3. o.exists /\ o.finalizer /\ o.status = status
    BY <2>1 DEF Object, ObjectsWith
  <2>4. CASE Store(n, o)
    <3> HIDE DEF n, o
    <3>1. Known(o)
      BY <1>3, <2>3 DEF Known
    <3> QED
      BY <1>0, <1>1, <2>1, <2>2, <2>3, <2>4, <3>1, StoreInv
  <2>5. CASE UNCHANGED <<api, pending>>
    BY <1>0, <1>1, <2>5, RowsMoveInv DEF RowsMove, RowOf
  <2> QED
    BY <1>3, <2>4, <2>5 DEF StoreStatus
<1>4. CASE ReportFailed /\ StoreStatus(job.key, FailedStatus)
  <2>1. FailedStatus.id = job.obj.status.id
    BY <1>0, JobTypes DEF FailedStatus, Status
  <2>2. FailedStatus.id \in used \cup {NoId}
    BY <1>0, <1>1, <2>1 DEF JobOK, Known
  <2> QED
    BY <1>0, <1>2, <1>3, <1>4, <2>2, StatusTypes
<1>5. CASE ReportSynced /\ StoreStatus(job.key, SyncedStatus)
  <2>1. SyncedStatus.id \in used \cup {NoId}
    BY <1>0, <1>1 DEF JobOK, SyncedStatus
  <2> QED
    BY <1>0, <1>2, <1>3, <1>5, <2>1, StatusTypes
<1>6. CASE UNCHANGED <<api, pending>>
  BY <1>0, <1>1, <1>2, <1>6, RowsMoveInv DEF RowsMove, RowOf
<1> QED
  BY <1>4, <1>5, <1>6 DEF ReportFailed, ReportSynced

LEMMA KubeWriteFailsInv ==
    ASSUME IInv, KubeWriteFails
    PROVE  ObjectInv' /\ JobOK'
<1>1. UNCHANGED <<api, cache, pending, rows, used>> /\ pc' = "idle"
  BY DEF KubeWriteFails, kubeButDelayed, serverVars, ReturnAndRetry, Goto
<1>2. RowsMove
  BY <1>1 DEF RowsMove, RowOf
<1> QED
  BY <1>1, <1>2, RowsMoveInv DEF IInv, JobOK

(***************************************************************************)
(* The invariant.                                                          *)
(***************************************************************************)
LEMMA InitInv == Init => IInv
<1> SUFFICES ASSUME Init PROVE IInv
  OBVIOUS
<1>1. TypeOK
  BY InitType
<1>2. cache = api /\ pc = "idle" /\ rows = {} /\ used = {}
  BY DEF Init, KubeInit
<1>3. \A n \in Names : ~api[n].exists /\ api[n].status.id = NoId /\ api[n].rv = 0
  <2>1. api = [n \in Names |-> NeverCreated(NoStatus)]
    BY DEF Init, KubeInit
  <2>2. LET o == NeverCreated(NoStatus)
        IN  ~o.exists /\ o.status.id = NoId /\ o.rv = 0
    BY DEF NeverCreated, NoStatus
  <2> QED
    BY <2>1, <2>2
<1>4. \A n \in Names : 1..Len(pending[n]) = {}
  <2>1. pending = [n \in Names |-> <<>>]
    BY DEF Init, KubeInit
  <2>2. \A n \in Names : pending[n] = <<>>
    BY <2>1, Zenon
  <2>3. 1..Len(<<>>) = {}
    OBVIOUS
  <2> QED
    BY <2>2, <2>3, Zenon
<1>5. Copies /\ Ordered /\ HeldCopies
  BY <1>2, <1>3, <1>4 DEF Copies, Ordered, HeldCopies, IsCopy, Held
<1>6. IdsKnown /\ IdUnderFinalizer /\ RecordedRowRemoved
  BY <1>2, <1>3, <1>4 DEF IdsKnown, Known, IdUnderFinalizer, RecordedRowRemoved
<1>7. JobOK
  BY <1>2 DEF JobOK
<1> QED
  BY <1>1, <1>5, <1>6, <1>7 DEF IInv, ObjectInv

LEMMA NextInv == IInv /\ [Next]_vars => IInv'
<1> SUFFICES ASSUME IInv, [Next]_vars PROVE IInv'
  OBVIOUS
<1>1. TypeOK'
  BY NextType DEF IInv
<1> SUFFICES ObjectInv' /\ JobOK'
  BY <1>1 DEF IInv
<1>2. CASE UNCHANGED vars
  <2>1. UNCHANGED <<api, cache, pending, rows, used, pc, job>>
    BY <1>2 DEF vars, kubeVars, serverVars
  <2>2. RowsMove
    BY <2>1 DEF RowsMove, RowOf
  <2> QED
    BY <2>1, <2>2, RowsMoveInv, RowsMoveJob DEF IInv
<1>3. ASSUME NEW n \in Names, User(n) \/ Manager(n) \/ DeliverSecret(n) \/ Start(n)
      PROVE  ObjectInv' /\ JobOK'
  BY <1>3, UserInv, ManagerInv, StartInv
<1>4. CASE Worker
  BY <1>4, DeleteRemoteInv, RemoveFinalizerInv, AddFinalizerInv, ReadInv, SaveInv, ReportInv
  DEF Worker
<1>5. CASE Environment
  BY <1>5, ServerInv, CallFailsInv, KubeWriteFailsInv, RestartInv DEF Environment
<1> QED
  BY <1>2, <1>3, <1>4, <1>5 DEF Next

\* In every reachable state the versions of an object that anybody knows, the
\* worker's locals and the stored records fit together as IInv says.
THEOREM Invariance == Spec => []IInv
<1>1. Init => IInv
  BY InitInv
<1>2. IInv /\ [Next]_vars => IInv'
  BY NextInv
<1> QED
  BY <1>1, <1>2, PTL DEF Spec

\* An object that is gone has left no record under the ID its status named,
\* for any number of objects, faults, late requests and restarts.
THEOREM RecordedRowsAreRemoved == Spec => []RecordedRowRemoved
<1>1. IInv => RecordedRowRemoved
  BY DEF IInv, ObjectInv
<1> QED
  BY <1>1, Invariance, PTL

\* A record is only created or written while the API server holds the
\* finalizer of its object.
THEOREM PushesAreProtected == Spec => []PushUnderFinalizer
<1>1. IInv => PushUnderFinalizer
  BY DEF IInv, JobOK, PushUnderFinalizer, PushSteps
<1> QED
  BY <1>1, Invariance, PTL

(***************************************************************************)
(* The recorded ID.                                                        *)
(***************************************************************************)
\* The ID in the status of an object that stays is kept by every step.
IdKept ==
    \A n \in Names :
       api[n].exists /\ api'[n].exists /\ api[n].status.id # NoId
          => api'[n].status.id = api[n].status.id

LEMMA StoreKeepsId ==
    ASSUME KubeTypeOK, NEW n \in Names, NEW o \in Object, Store(n, o),
           api[n].exists /\ o.exists /\ api[n].status.id # NoId
              => o.status.id = api[n].status.id
    PROVE  IdKept
<1>1. ASSUME NEW m \in Names, api[m].exists, api'[m].exists, api[m].status.id # NoId
      PROVE  api'[m].status.id = api[m].status.id
  <2>1. CASE m = n
    BY <1>1, <2>1, StoreEffect
  <2>2. CASE m # n
    BY <2>2, StoreEffect
  <2> QED
    BY <2>1, <2>2
<1> QED
  BY <1>1 DEF IdKept

LEMMA UserKeepsId ==
    ASSUME TypeOK, NEW n \in Names, User(n)
    PROVE  IdKept
<1>0. KubeTypeOK
  BY TypeParts
<1>1. api[n] \in Object
  BY <1>0 DEF KubeTypeOK
<1>2. CASE \E c \in Creds \cup {NoCred} : SetSecret(n, c)
  BY <1>2 DEF SetSecret, IdKept
<1>3. ASSUME NEW s \in Specs, CreateObject(n, s, NoStatus) PROVE IdKept
  <2> DEFINE o == [exists |-> TRUE, rv |-> 0, gen |-> 1, spec |-> s, deleting |-> FALSE,
                   finalizer |-> FALSE, status |-> NoStatus]
  <2>1. o \in Object
    BY InitialValues DEF Object, ObjectsWith
  <2>2. Store(n, o) /\ ~api[n].exists
    BY <1>3 DEF CreateObject
  <2> HIDE DEF o
  <2> QED
    BY <1>0, <2>1, <2>2, StoreKeepsId
<1>4. ASSUME NEW o \in Object, Store(n, o), o.status = api[n].status PROVE IdKept
  BY <1>0, <1>4, StoreKeepsId
<1>5. ASSUME NEW s \in Specs, EditSpec(n, s) PROVE IdKept
  <2> DEFINE o == [api[n] EXCEPT !.spec = s, !.gen = @ + 1]
  <2>1. o \in Object
    BY <1>1, ObjectUpdates
  <2>2. o.status = api[n].status
    BY <1>1 DEF Object, ObjectsWith
  <2>3. Store(n, o)
    BY <1>5 DEF EditSpec
  <2> HIDE DEF o
  <2> QED
    BY <1>4, <2>1, <2>2, <2>3
<1>6. CASE DeleteObject(n)
  <2> DEFINE marked == [api[n] EXCEPT !.deleting = TRUE, !.gen = @ + 1]
             gone   == [api[n] EXCEPT !.exists = FALSE]
  <2>1. marked \in Object /\ gone \in Object
    BY <1>1, ObjectUpdates
  <2>2. marked.status = api[n].status /\ gone.status = api[n].status
    BY <1>1 DEF Object, ObjectsWith
  <2>3. Store(n, marked) \/ Store(n, gone)
    BY <1>6 DEF DeleteObject
  <2> HIDE DEF marked, gone
  <2> QED
    BY <1>4, <2>1, <2>2, <2>3
<1> QED
  BY <1>2, <1>3, <1>5, <1>6 DEF User

LEMMA WriteKeepsId ==
    ASSUME IInv, RemoveFinalizer \/ AddFinalizer \/ ReportFailed \/ ReportSynced
    PROVE  IdKept
<1>0. KubeTypeOK /\ LocalTypeOK /\ JobOK /\ pc # "idle"
  BY TypeParts DEF IInv, RemoveFinalizer, AddFinalizer, ReportFailed, ReportSynced
<1> DEFINE n == job.key
<1>1. n \in Names /\ api[n] \in Object
  BY <1>0, JobTypes DEF KubeTypeOK
<1>2. CASE UNCHANGED <<api, pending>>
  BY <1>2 DEF IdKept
<1>3. ASSUME NEW o \in Object, Store(n, o), o.status = api[n].status PROVE IdKept
  BY <1>0, <1>1, <1>3, StoreKeepsId
<1>4. CASE DropFinalizer(n) \/ StoreFinalizer(n)
  <2> DEFINE dropped == [api[n] EXCEPT !.finalizer = FALSE, !.exists = FALSE]
             added   == [api[n] EXCEPT !.finalizer = TRUE]
  <2>1. dropped \in Object /\ added \in Object
    BY <1>1, ObjectUpdates
  <2>2. dropped.status = api[n].status /\ added.status = api[n].status
    BY <1>1 DEF Object, ObjectsWith
  <2>3. Store(n, dropped) \/ Store(n, added)
    BY <1>4 DEF DropFinalizer, StoreFinalizer
  <2> HIDE DEF dropped, added
  <2> QED
    BY <1>3, <2>1, <2>2, <2>3
<1>5. ASSUME NEW status \in Status, Store(n, [api[n] EXCEPT !.status = status]),
             api[n].status.id # NoId => status.id = api[n].status.id
      PROVE  IdKept
  <2> DEFINE o == [api[n] EXCEPT !.status = status]
  <2>1. o \in Object
    BY <1>1, Zenon DEF Object, ObjectsWith
  <2>2. o.status = status
    BY <1>1 DEF Object, ObjectsWith
  <2> HIDE DEF o
  <2> QED
    BY <1>0, <1>1, <1>5, <2>1, <2>2, StoreKeepsId DEF o
<1>6. CASE ReportFailed /\ Current(n, job.obj) /\ StoreStatus(n, FailedStatus)
  <2>1. FailedStatus.id = job.obj.status.id
    BY <1>0, JobTypes DEF FailedStatus, Status
  <2>2. job.obj = api[n]
    BY <1>0, <1>6, CurrentIsKnown
  <2>3. FailedStatus \in Status
    BY <1>0, StatusTypes
  <2> QED
    BY <1>2, <1>5, <1>6, <2>1, <2>2, <2>3 DEF StoreStatus
<1>7. CASE ReportSynced /\ Current(n, job.obj) /\ StoreStatus(n, SyncedStatus)
  <2>1. SyncedStatus.id = job.id
    BY DEF SyncedStatus
  <2>2. job.obj = api[n]
    BY <1>0, <1>7, CurrentIsKnown
  <2>3. job.id = job.obj.status.id \/ job.obj.status.id = NoId
    BY <1>0, <1>7 DEF JobOK, ReportSynced
  <2>4. SyncedStatus \in Status
    BY <1>0, StatusTypes
  <2> QED
    BY <1>2, <1>5, <1>7, <2>1, <2>2, <2>3, <2>4 DEF StoreStatus
<1> QED
  BY <1>2, <1>4, <1>6, <1>7 DEF RemoveFinalizer, AddFinalizer, ReportFailed, ReportSynced

LEMMA NextKeepsId == IInv /\ [Next]_vars => IdKept
<1> SUFFICES ASSUME IInv, [Next]_vars PROVE IdKept
  OBVIOUS
<1>1. CASE api' = api
  BY <1>1 DEF IdKept
<1>2. ASSUME NEW n \in Names, User(n) \/ Manager(n) \/ DeliverSecret(n) \/ Start(n)
      PROVE  IdKept
  <2>1. CASE User(n)
    BY <2>1, UserKeepsId DEF IInv
  <2>2. CASE Manager(n) \/ DeliverSecret(n)
    BY <1>1, <2>2 DEF Manager, DeliverEvent, FireTimer, Resync, DeliverSecret, kubeVars
  <2>3. CASE Start(n)
    BY <1>1, <2>3, StartBegins DEF Begin
  <2> QED
    BY <1>2, <2>1, <2>2, <2>3
<1>3. CASE Worker
  <2>1. CASE RemoveFinalizer \/ AddFinalizer \/ ReportFailed \/ ReportSynced
    BY <2>1, WriteKeepsId
  <2>2. CASE ReadFirst \/ ReadSecond \/ SaveRejected
    BY <1>1, <2>2 DEF ReadFirst, ReadSecond, SaveRejected, kubeButDelayed
  <2>3. CASE DeleteRemote \/ SaveCreates \/ SaveReplaces
    BY <1>1, <2>3 DEF DeleteRemote, SaveCreates, SaveReplaces, kubeVars
  <2> QED
    BY <1>3, <2>1, <2>2, <2>3 DEF Worker
<1>4. CASE Environment
  <2>1. api' = api
    BY <1>4 DEF Environment, ServeLate, RemoveOutOfBand, CallFails, KubeWriteFails, Restart,
       Relist, kubeVars, kubeButDelayed
  <2> QED
    BY <1>1, <2>1
<1>5. CASE UNCHANGED vars
  BY <1>1, <1>5 DEF vars, kubeVars
<1> QED
  BY <1>2, <1>3, <1>4, <1>5 DEF Next

\* No Reconcile call, from however old a copy it works, replaces or blanks the
\* ID an object has recorded: the resourceVersion it carries stops it.
THEOREM RecordedIdsAreStable == Spec => IdStable
<1>1. IInv /\ [Next]_vars => IdKept
  BY NextKeepsId
<1>2. Spec => [][IdKept]_vars
  BY <1>1, Invariance, PTL DEF Spec
<1> QED
  BY <1>2 DEF IdStable, IdKept

-----------------------------------------------------------------------------
(***************************************************************************)
(* The versions of n that anybody knows, and who lays claim to an ID.      *)
(***************************************************************************)
CopiesOf(n) ==
    {api[n], cache[n]}
      \cup {pending[n][i] : i \in 1..Len(pending[n])}
      \cup {o \in {job.obj} : pc # "idle" /\ job.key = n}

Named(n, id) == \E o \in CopiesOf(n) : o.status.id = id

Claims(n, id) ==
    \/ Named(n, id)
    \/ pc = "reportSynced" /\ job.key = n /\ job.id = id
    \/ \E r \in rows : r.id = id /\ r.owner = n
    \/ \E q \in late : q.row.id = id /\ q.row.owner = n

\* An ID belongs to one object.
Unshared ==
    /\ \A id \in Ids, n \in Names : Claims(n, id) => id \in used
    /\ \A id \in Ids, m, n \in Names : Claims(m, id) /\ Claims(n, id) => m = n

Live(o) == o.exists /\ ~o.deleting

\* Somebody may still delete the record: a version of its object that is being
\* deleted is known, or a late request does it.
Doomed(id) ==
    \/ \E n \in Names : \E o \in CopiesOf(n) : o.deleting /\ o.status.id = id
    \/ \E q \in late : q.op = "delete" /\ q.row.id = id

\* No live object names such a record, and as long as it is there the object that
\* does name it is, too.
Dead(id) ==
    /\ \A n \in Names : Live(api[n]) => api[n].status.id # id
    /\ RowOf(id) # {} =>
          \E n \in Names : api[n].exists /\ api[n].deleting /\ api[n].status.id = id

DoomedDead == \A id \in Ids : Doomed(id) => Dead(id)

\* The ID of a record that was just created is in nobody's copy.
Fresh ==
    pc = "reportSynced" /\ job.obj.status.id = NoId =>
       /\ \A n \in Names : job.id \in Ids => ~Named(n, job.id)
       /\ \A q \in late : job.id \in Ids => q.row.id # job.id

\* What the worker pushes, or found, is of an object nobody asked to delete.
PushLive ==
    /\ pc \in PushSteps => ~job.obj.deleting
    /\ pc = "reportFailed" => job.reason # "Synced"

Observed ==
    \A n \in Names : api[n].exists =>
       /\ api[n].status.obsGen <= api[n].gen
       /\ api[n].deleting => api[n].status.obsGen # api[n].gen

\* Ready, for the present generation.
Now(o) == o.exists /\ Ready(o) /\ o.status.obsGen = o.gen

\* Then the worker has seen the present spec, and nobody knows another one.
NowSeen ==
    \A n \in Names : Now(api[n]) => \A o \in CopiesOf(n) : o.spec = api[n].spec

\* What is about to be reported is true.
Saved ==
    pc = "reportSynced" /\ job.obj = api[job.key] /\ job.id \notin disturbed =>
       \E r \in RowOf(job.id) : r.spec = job.obj.spec

\* What a step relies on to make one of the moves below.  Less than the invariant:
\* a second process leaves it true, too.
Basis ==
    /\ TypeOK
    /\ IdUnderFinalizer
    /\ PushLive
    /\ pc # "idle" => IsCopy(job.key, job.obj)
    /\ pc \in DeleteSteps => job.obj.deleting
    /\ pc = "reportSynced" => job.id = job.obj.status.id \/ job.obj.status.id = NoId
    /\ pc = "removeFinalizer" => RowOf(job.obj.status.id) = {}

SInv ==
    /\ IInv
    /\ Unshared
    /\ DoomedDead
    /\ Fresh
    /\ PushLive
    /\ Observed
    /\ NowSeen
    /\ Saved
    /\ SyncedRowMatches

LEMMA InvBasis ==
    ASSUME IInv, PushLive
    PROVE  Basis
  BY DEF IInv, ObjectInv, JobOK, DeleteSteps, Basis

(***************************************************************************)
(* What a step does to the worker's locals.                                *)
(***************************************************************************)
SameJob == job'.key = job.key /\ job'.obj = job.obj

\* A pass begins with the cached copy.
JobBegins ==
    /\ pc' \in {"deleteRemote", "removeFinalizer", "addFinalizer", "readFirst"}
    /\ job'.key \in Names
    /\ job'.obj = cache[job'.key]
    /\ pc' = "readFirst" => ~job'.obj.deleting /\ job'.obj.finalizer
    /\ pc' \in DeleteSteps => job'.obj.deleting
    /\ pc' = "removeFinalizer" => job'.obj.status.id = NoId

JobGoesOn ==
    /\ pc # "idle" /\ SameJob
    /\ pc' # "reportSynced"
    /\ pc' \in PushSteps => pc \in PushSteps
    /\ pc' \in DeleteSteps => pc \in DeleteSteps
    /\ pc' = "removeFinalizer" => Remove(job.obj.status.id)
    /\ pc' = "reportFailed" => job'.reason # "Synced"

\* The call that saves has returned the ID of the record.
JobSaved == pc = "save" /\ pc' = "reportSynced" /\ SameJob

JobMoves ==
    \/ pc' = "idle"
    \/ UNCHANGED <<pc, job>>
    \/ JobBegins
    \/ JobGoesOn
    \/ JobSaved

LEMMA StartJob ==
    ASSUME KubeTypeOK, NEW n \in Names, Start(n)
    PROVE  pc' = "idle" \/ JobBegins
<1>1. ASSUME NEW step \in {"deleteRemote", "removeFinalizer", "addFinalizer"}, Begin(n, step),
             step \in DeleteSteps => cache[n].deleting,
             step = "removeFinalizer" => cache[n].status.id = NoId
      PROVE  JobBegins
  <2>1. pc' = step /\ job'.key = n /\ job'.obj = cache[n]
    BY <1>1, BeginFields DEF Steps
  <2> QED
    BY <1>1, <2>1 DEF JobBegins
<1>2. CASE ReconcileLive(n)
  <2>1. pc' = "readFirst" /\ job'.key = n /\ job'.obj = cache[n]
    BY <1>2, BeginFields DEF Steps, ReconcileLive
  <2> QED
    BY <1>2, <2>1 DEF JobBegins, ReconcileLive, DeleteSteps
<1>3. CASE ReconcileGone(n)
  BY <1>3 DEF ReconcileGone, Begin
<1>4. CASE ReconcileDeletion(n)
  BY <1>1, <1>4 DEF ReconcileDeletion
<1>5. CASE ReconcileUnprotected(n)
  BY <1>1, <1>5 DEF ReconcileUnprotected, DeleteSteps
<1> QED
  BY <1>2, <1>3, <1>4, <1>5 DEF Start

LEMMA FailedReasons ==
    ASSUME LocalTypeOK, NEW r \in {"SecretResolutionFailed", "APISyncFailed"}, FailWith(r)
    PROVE  SameJob /\ pc' = "reportFailed" /\ job'.reason # "Synced"
<1>1. [job EXCEPT !.reason = r].reason = r
  BY DEF LocalTypeOK, Job
<1> QED
  BY <1>1, JobKeeps DEF FailWith, Goto, SameJob

LEMMA WorkerJob ==
    ASSUME TypeOK, Worker
    PROVE  pc # "idle" /\ (pc' = "idle" \/ JobGoesOn \/ JobSaved)
<1>0. LocalTypeOK
  BY TypeParts
<1>1. CASE DeleteRemote
  BY <1>1 DEF DeleteRemote, Goto, JobGoesOn, SameJob, PushSteps, DeleteSteps
<1>2. CASE RemoveFinalizer \/ AddFinalizer \/ ReportFailed \/ ReportSynced
  BY <1>2 DEF RemoveFinalizer, AddFinalizer, ReportFailed, ReportSynced, Return,
     ReturnAndRetry, Goto
<1>3. CASE ReadFirst \/ ReadSecond \/ SaveRejected
  <2>1. pc \in PushSteps
    BY <1>3 DEF ReadFirst, ReadSecond, SaveRejected, PushSteps
  <2>2. CASE \E r \in {"SecretResolutionFailed", "APISyncFailed"} : FailWith(r)
    BY <1>0, <2>1, <2>2, FailedReasons DEF JobGoesOn, PushSteps, DeleteSteps
  <2>3. CASE \E c : Goto(AfterFirst, [job EXCEPT !.first = c])
    BY <1>0, <2>1, <2>3, JobKeeps DEF Goto, JobGoesOn, SameJob, PushSteps, DeleteSteps,
       AfterFirst
  <2>4. CASE \E c : Goto("save", [job EXCEPT !.second = c])
    BY <1>0, <2>1, <2>4, JobKeeps DEF Goto, JobGoesOn, SameJob, PushSteps, DeleteSteps
  <2>5. CASE Goto("save", job)
    BY <2>1, <2>5 DEF Goto, JobGoesOn, SameJob, PushSteps, DeleteSteps
  <2> QED
    BY <1>3, <2>1, <2>2, <2>3, <2>4, <2>5 DEF ReadFirst, ReadSecond, SaveRejected, PushSteps
<1>4. CASE SaveCreates \/ SaveReplaces
  <2>1. PICK id : Goto("reportSynced", [job EXCEPT !.id = id])
    BY <1>4 DEF SaveCreates, SaveReplaces
  <2> QED
    BY <1>0, <1>4, <2>1, JobKeeps DEF SaveCreates, SaveReplaces, Goto, JobSaved, SameJob
<1> QED
  BY <1>1, <1>2, <1>3, <1>4 DEF Worker

LEMMA NextJob ==
    ASSUME TypeOK, [Next]_vars
    PROVE  JobMoves
<1>0. KubeTypeOK /\ LocalTypeOK
  BY TypeParts
<1>1. ASSUME NEW n \in Names, User(n) \/ Manager(n) \/ DeliverSecret(n)
      PROVE  UNCHANGED <<pc, job>>
  BY <1>1 DEF User, SetSecret, Manager, DeliverSecret
<1>2. ASSUME NEW n \in Names, Start(n) PROVE JobMoves
  BY <1>0, <1>2, StartJob DEF JobMoves
<1>3. CASE Worker
  BY <1>3, WorkerJob DEF JobMoves
<1>4. CASE CallFails
  <2>1. CASE pc = "save" /\ FailWith("APISyncFailed")
    BY <1>0, <2>1, FailedReasons DEF JobMoves, JobGoesOn, PushSteps, DeleteSteps
  <2>2. CASE ReturnAndRetry
    BY <2>2 DEF ReturnAndRetry, Goto, JobMoves
  <2> QED
    BY <1>4, <2>1, <2>2 DEF CallFails
<1>5. CASE KubeWriteFails \/ Restart
  BY <1>5 DEF KubeWriteFails, Restart, ReturnAndRetry, Goto, JobMoves
<1>6. CASE \/ \E q \in late : ServeLate(q)
           \/ \E id \in Ids : RemoveOutOfBand(id)
           \/ UNCHANGED vars
  BY <1>6 DEF ServeLate, RemoveOutOfBand, vars, JobMoves
<1> QED
  BY <1>1, <1>2, <1>3, <1>4, <1>5, <1>6 DEF Next, Environment, JobMoves

(***************************************************************************)
(* What a step does to the versions that are known: none becomes known but *)
(* the present one.                                                        *)
(***************************************************************************)
LEMMA InCopies ==
    ASSUME NEW n, NEW o
    PROVE  o \in CopiesOf(n) <=>
              \/ o = api[n]
              \/ o = cache[n]
              \/ \E i \in 1..Len(pending[n]) : o = pending[n][i]
              \/ pc # "idle" /\ job.key = n /\ o = job.obj
  BY DEF CopiesOf

\* No version becomes known from the worker.
LEMMA JobCopies ==
    ASSUME JobMoves, pc' # "idle"
    PROVE  \/ pc # "idle" /\ job'.key = job.key /\ job'.obj = job.obj
           \/ job'.obj = cache[job'.key]
  BY DEF JobMoves, JobBegins, JobGoesOn, JobSaved, SameJob

CopiesGrow ==
    \A n \in Names : \A o \in CopiesOf(n)' : o \in CopiesOf(n) \/ o = api'[n]

LEMMA SameEvents ==
    ASSUME UNCHANGED <<cache, pending>>, JobMoves
    PROVE  CopiesGrow
<1> SUFFICES ASSUME NEW n \in Names, NEW o \in CopiesOf(n)'
             PROVE  o \in CopiesOf(n) \/ o = api'[n]
  BY DEF CopiesGrow
<1>1. \/ o = api'[n]
      \/ o = cache'[n]
      \/ \E i \in 1..Len(pending'[n]) : o = pending'[n][i]
      \/ pc' # "idle" /\ job'.key = n /\ o = job'.obj
  BY DEF CopiesOf
<1>2. CASE pc' # "idle" /\ job'.key = n /\ o = job'.obj
  BY <1>2, JobCopies, InCopies
<1> QED
  BY <1>1, <1>2, InCopies

LEMMA StoreEvents ==
    ASSUME KubeTypeOK, JobMoves, NEW n \in Names, NEW ob \in Object, Store(n, ob),
           cache' = cache
    PROVE  CopiesGrow
<1> SUFFICES ASSUME NEW m \in Names, NEW o \in CopiesOf(m)'
             PROVE  o \in CopiesOf(m) \/ o = api'[m]
  BY DEF CopiesGrow
<1>1. \/ o = api'[m]
      \/ o = cache'[m]
      \/ \E i \in 1..Len(pending'[m]) : o = pending'[m][i]
      \/ pc' # "idle" /\ job'.key = m /\ o = job'.obj
  BY DEF CopiesOf
<1>2. CASE pc' # "idle" /\ job'.key = m /\ o = job'.obj
  BY <1>2, JobCopies, InCopies
<1>3. ASSUME NEW i \in 1..Len(pending'[m]), o = pending'[m][i]
      PROVE  o \in CopiesOf(m) \/ o = api'[m]
  <2>1. CASE m # n
    BY <1>3, <2>1, StoreEffect, InCopies
  <2>2. CASE m = n
    <3>1. Len(pending[n]) \in Nat /\ Len(pending'[n]) = Len(pending[n]) + 1
      BY StoreEffect, VersionTypes
    <3>2. i \in 1..Len(pending[n]) \/ i = Len(pending[n]) + 1
      BY <2>2, <3>1
    <3> QED
      BY <1>3, <2>2, <3>2, StoreEffect, InCopies
  <2> QED
    BY <2>1, <2>2
<1> QED
  BY <1>1, <1>2, <1>3, InCopies

LEMMA DeliverEvents ==
    ASSUME KubeTypeOK, NEW n \in Names, DeliverEvent(n), UNCHANGED <<pc, job>>
    PROVE  CopiesGrow
<1> SUFFICES ASSUME NEW m \in Names, NEW o \in CopiesOf(m)'
             PROVE  o \in CopiesOf(m)
  BY DEF CopiesGrow
<1>1. \/ o = api[m]
      \/ o = cache'[m]
      \/ \E i \in 1..Len(pending'[m]) : o = pending'[m][i]
      \/ pc # "idle" /\ job.key = m /\ o = job.obj
  BY DEF CopiesOf, DeliverEvent
<1>2. CASE m # n
  <2>1. cache'[m] = cache[m] /\ pending'[m] = pending[m]
    BY <1>2 DEF DeliverEvent, KubeTypeOK
  <2> QED
    BY <1>1, <2>1, InCopies
<1>3. CASE m = n
  <2>1. pending[n] \in Seq(Object) /\ pending[n] # <<>>
    BY DEF KubeTypeOK, DeliverEvent
  <2>2. cache'[n] = Head(pending[n]) /\ pending'[n] = Tail(pending[n])
    BY DEF KubeTypeOK, DeliverEvent
  <2>3. /\ cache'[n] = pending[n][1]
        /\ 1 \in 1..Len(pending[n])
        /\ \A i \in 1..Len(pending'[n]) :
              i + 1 \in 1..Len(pending[n]) /\ pending'[n][i] = pending[n][i + 1]
    BY <2>1, <2>2, TailElements
  <2> QED
    BY <1>1, <1>3, <2>3, InCopies
<1> QED
  BY <1>2, <1>3

\* The API server moves on by storing one object, or not at all.
LEMMA UserStores ==
    ASSUME KubeTypeOK, NEW n \in Names, User(n)
    PROVE  /\ cache' = cache
           /\ \/ UNCHANGED <<api, pending>>
              \/ \E o \in Object : Store(n, o)
<1>1. api[n] \in Object
  BY DEF KubeTypeOK
<1>2. ASSUME NEW s \in Specs, CreateObject(n, s, NoStatus)
      PROVE  \E o \in Object : Store(n, o)
  <2> DEFINE o == [exists |-> TRUE, rv |-> 0, gen |-> 1, spec |-> s, deleting |-> FALSE,
                   finalizer |-> FALSE, status |-> NoStatus]
  <2>1. o \in Object
    BY InitialValues DEF Object, ObjectsWith
  <2>2. Store(n, o)
    BY <1>2 DEF CreateObject
  <2> QED
    BY <2>1, <2>2
<1>3. ASSUME NEW s \in Specs, EditSpec(n, s)
      PROVE  \E o \in Object : Store(n, o)
  BY <1>1, <1>3, ObjectUpdates DEF EditSpec
<1>4. CASE DeleteObject(n)
  BY <1>1, <1>4, ObjectUpdates DEF DeleteObject
<1>5. cache' = cache
  BY DEF User, SetSecret, CreateObject, EditSpec, DeleteObject
<1> QED
  BY <1>2, <1>3, <1>4, <1>5 DEF User, SetSecret

LEMMA WriteStores ==
    ASSUME TypeOK, RemoveFinalizer \/ AddFinalizer \/ ReportFailed \/ ReportSynced
    PROVE  /\ cache' = cache /\ job.key \in Names
           /\ \/ UNCHANGED <<api, pending>>
              \/ \E o \in Object : Store(job.key, o)
<1>0. KubeTypeOK /\ LocalTypeOK
  BY TypeParts
<1>1. job.key \in Names /\ api[job.key] \in Object
  BY <1>0, JobTypes DEF KubeTypeOK
<1>2. FailedStatus \in Status /\ SyncedStatus \in Status
  BY <1>0, StatusTypes
<1> QED
  BY <1>1, <1>2, ObjectUpdates
  DEF RemoveFinalizer, AddFinalizer, ReportFailed, ReportSynced, DropFinalizer,
      StoreFinalizer, StoreStatus

LEMMA NextCopies ==
    ASSUME TypeOK, [Next]_vars
    PROVE  CopiesGrow
<1>0. KubeTypeOK /\ JobMoves
  BY TypeParts, NextJob
<1>1. CASE UNCHANGED <<cache, pending>>
  BY <1>0, <1>1, SameEvents
<1>2. ASSUME NEW n \in Names, User(n) PROVE CopiesGrow
  BY <1>0, <1>1, <1>2, UserStores, StoreEvents
<1>3. ASSUME NEW n \in Names, Manager(n) PROVE CopiesGrow
  <2>1. CASE DeliverEvent(n)
    BY <1>0, <1>3, <2>1, DeliverEvents DEF Manager
  <2>2. CASE FireTimer(n) \/ Resync(n)
    BY <1>1, <2>2 DEF FireTimer, Resync
  <2> QED
    BY <1>3, <2>1, <2>2 DEF Manager
<1>4. ASSUME NEW n \in Names, DeliverSecret(n) \/ Start(n) PROVE CopiesGrow
  BY <1>1, <1>4, StartBegins DEF DeliverSecret, Begin, kubeVars
<1>5. CASE RemoveFinalizer \/ AddFinalizer \/ ReportFailed \/ ReportSynced
  BY <1>0, <1>1, <1>5, WriteStores, StoreEvents
<1>6. CASE \/ DeleteRemote \/ ReadFirst \/ ReadSecond
           \/ SaveCreates \/ SaveReplaces \/ SaveRejected
  BY <1>1, <1>6 DEF DeleteRemote, ReadFirst, ReadSecond, SaveCreates, SaveReplaces,
     SaveRejected, kubeVars, kubeButDelayed
<1>7. CASE Restart
  <2>1. /\ api' = api /\ cache' = api /\ pc' = "idle"
        /\ \A n \in Names : pending'[n] = <<>>
    BY <1>7 DEF Restart, Relist, Goto
  <2> QED
    BY <2>1 DEF CopiesGrow, CopiesOf
<1>8. CASE \/ \E q \in late : ServeLate(q)
           \/ \E id \in Ids : RemoveOutOfBand(id)
           \/ CallFails \/ KubeWriteFails \/ UNCHANGED vars
  BY <1>1, <1>8 DEF ServeLate, RemoveOutOfBand, CallFails, KubeWriteFails, kubeVars,
     kubeButDelayed, vars
<1> QED
  BY <1>2, <1>3, <1>4, <1>5, <1>6, <1>7, <1>8 DEF Next, Worker, Environment

(***************************************************************************)
(* What a step does to the objects.                                        *)
(***************************************************************************)
Created(n) ==
    /\ ~api[n].exists
    /\ Live(api'[n]) /\ api'[n].status = NoStatus

Edited(n) ==
    /\ api[n].exists /\ api'[n].exists
    /\ api'[n].deleting = api[n].deleting /\ api'[n].finalizer = api[n].finalizer
    /\ api'[n].gen = api[n].gen + 1
    /\ api'[n].status = api[n].status

Marked(n) ==
    /\ Live(api[n])
    /\ api'[n].exists /\ api'[n].deleting /\ api'[n].finalizer = api[n].finalizer
    /\ api'[n].gen = api[n].gen + 1
    /\ api'[n].status = api[n].status

Vanished(n) ==
    /\ Live(api[n]) /\ api[n].status.id = NoId
    /\ ~api'[n].exists /\ ~api'[n].deleting
    /\ api'[n].status = api[n].status

Finished(n) ==
    /\ api[n].exists /\ api[n].deleting /\ RowOf(api[n].status.id) = {}
    /\ ~api'[n].exists
    /\ api'[n].status = api[n].status

SameSpec(n) ==
    /\ api[n].exists /\ api'[n].exists
    /\ api'[n].deleting = api[n].deleting
    /\ api[n].finalizer => api'[n].finalizer
    /\ api'[n].spec = api[n].spec
    /\ api'[n].gen = api[n].gen

Guarded(n) ==
    /\ SameSpec(n)
    /\ api'[n].status = api[n].status

FailureNoted(n) ==
    /\ SameSpec(n)
    /\ api'[n].status.id = api[n].status.id
    /\ api'[n].status.obsGen = api[n].status.obsGen
    /\ api'[n].status.reason # "Synced"

SuccessNoted(n) ==
    /\ SameSpec(n) /\ Live(api[n])
    /\ pc = "reportSynced" /\ pc' = "idle"
    /\ job.key = n /\ job.obj = api[n]
    /\ job.id = api[n].status.id \/ api[n].status.id = NoId
    /\ api'[n].status.id = job.id
    /\ api'[n].status.obsGen = api[n].gen
    /\ api'[n].status.condGen = api[n].gen

\* One object moves on, by a write of a user or of the worker.
Moved(n) ==
    /\ UNCHANGED serverVars
    /\ \A m \in Names \ {n} : api'[m] = api[m]
    /\ api'[n].rv = api[n].rv + 1
    /\ pc' = "idle" \/ UNCHANGED <<pc, job>>
    /\ \/ Created(n) \/ Edited(n) \/ Marked(n) \/ Vanished(n) \/ Finished(n)
       \/ Guarded(n) \/ FailureNoted(n) \/ SuccessNoted(n)

\* StoreEffect, for the fields it leaves out.
LEMMA StoreFields ==
    ASSUME KubeTypeOK, NEW n \in Names, NEW o \in Object, Store(n, o)
    PROVE  api'[n].gen = o.gen /\ api'[n].spec = o.spec
<1>1. api'[n] = [o EXCEPT !.rv = api[n].rv + 1]
  BY DEF Store, KubeTypeOK
<1> QED
  BY <1>1 DEF Object, ObjectsWith

LEMMA UserMoves ==
    ASSUME Basis, NEW n \in Names, User(n)
    PROVE  api' = api \/ Moved(n)
<1>0. KubeTypeOK /\ IdUnderFinalizer /\ api[n] \in Object
  BY TypeParts DEF Basis, KubeTypeOK
<1>1. CASE \E c \in Creds \cup {NoCred} : SetSecret(n, c)
  BY <1>1 DEF SetSecret
<1> SUFFICES ASSUME UNCHANGED <<pc, job, serverVars, secretVars, faults>>,
                    \/ \E s \in Specs : CreateObject(n, s, NoStatus) \/ EditSpec(n, s)
                    \/ DeleteObject(n)
             PROVE  Moved(n)
  BY <1>1 DEF User
<1>2. ASSUME NEW o \in Object, Store(n, o)
      PROVE  /\ \A m \in Names \ {n} : api'[m] = api[m]
             /\ api'[n].rv = api[n].rv + 1
             /\ api'[n].exists = o.exists /\ api'[n].deleting = o.deleting
             /\ api'[n].status = o.status /\ api'[n].gen = o.gen
             /\ api'[n].finalizer = o.finalizer
  BY <1>0, <1>2, StoreEffect, StoreFields
<1>3. ASSUME NEW s \in Specs, CreateObject(n, s, NoStatus) PROVE Moved(n)
  <2> DEFINE o == [exists |-> TRUE, rv |-> 0, gen |-> 1, spec |-> s, deleting |-> FALSE,
                   finalizer |-> FALSE, status |-> NoStatus]
  <2>1. o \in Object /\ o.exists /\ ~o.deleting /\ o.status = NoStatus
    BY InitialValues DEF Object, ObjectsWith
  <2>2. Store(n, o) /\ ~api[n].exists
    BY <1>3 DEF CreateObject
  <2> HIDE DEF o
  <2> QED
    BY <1>2, <2>1, <2>2 DEF Moved, Created, Live
<1>4. ASSUME NEW s \in Specs, EditSpec(n, s) PROVE Moved(n)
  <2> DEFINE o == [api[n] EXCEPT !.spec = s, !.gen = @ + 1]
  <2>1. o \in Object
    BY <1>0, ObjectUpdates
  <2>2. /\ o.exists = api[n].exists /\ o.deleting = api[n].deleting
        /\ o.status = api[n].status /\ o.gen = api[n].gen + 1
        /\ o.finalizer = api[n].finalizer
    BY <1>0 DEF Object, ObjectsWith
  <2>3. Store(n, o) /\ api[n].exists
    BY <1>4 DEF EditSpec
  <2> HIDE DEF o
  <2> QED
    BY <1>2, <2>1, <2>2, <2>3 DEF Moved, Edited
<1>5. CASE DeleteObject(n) /\ api[n].finalizer
  <2> DEFINE o == [api[n] EXCEPT !.deleting = TRUE, !.gen = @ + 1]
  <2>1. o \in Object
    BY <1>0, ObjectUpdates
  <2>2. /\ o.exists = api[n].exists /\ o.deleting
        /\ o.status = api[n].status /\ o.gen = api[n].gen + 1
        /\ o.finalizer = api[n].finalizer
    BY <1>0 DEF Object, ObjectsWith
  <2>3. Store(n, o) /\ Live(api[n])
    BY <1>5 DEF DeleteObject, Live
  <2> HIDE DEF o
  <2> QED
    BY <1>2, <2>1, <2>2, <2>3 DEF Moved, Marked, Live
<1>6. CASE DeleteObject(n) /\ ~api[n].finalizer
  <2> DEFINE o == [api[n] EXCEPT !.exists = FALSE]
  <2>1. o \in Object
    BY <1>0, ObjectUpdates
  <2>2. ~o.exists /\ o.deleting = api[n].deleting /\ o.status = api[n].status
    BY <1>0 DEF Object, ObjectsWith
  <2>3. Store(n, o) /\ Live(api[n])
    BY <1>6 DEF DeleteObject, Live
  <2>4. api[n].status.id = NoId
    BY <1>0, <1>6, <2>3 DEF IdUnderFinalizer, Live
  <2> HIDE DEF o
  <2> QED
    BY <1>2, <2>1, <2>2, <2>3, <2>4 DEF Moved, Vanished, Live
<1> QED
  BY <1>3, <1>4, <1>5, <1>6

LEMMA WriteMoves ==
    ASSUME Basis, RemoveFinalizer \/ AddFinalizer \/ ReportFailed \/ ReportSynced
    PROVE  api' = api \/ \E n \in Names : Moved(n)
<1> DEFINE n == job.key
<1>0. KubeTypeOK /\ LocalTypeOK
  BY TypeParts DEF Basis
<1>1. /\ pc # "idle" /\ pc' = "idle" /\ UNCHANGED serverVars
      /\ n \in Names /\ api[n] \in Object
  BY <1>0, JobTypes DEF RemoveFinalizer, AddFinalizer, ReportFailed, ReportSynced, Return,
     ReturnAndRetry, Goto, KubeTypeOK
<1> SUFFICES ASSUME Current(n, job.obj), api' # api
             PROVE  Moved(n)
  BY <1>1 DEF RemoveFinalizer, AddFinalizer, ReportFailed, ReportSynced
<1>2. job.obj = api[n] /\ api[n].exists
  BY <1>1 DEF Basis, IsCopy, Current
<1>3. ASSUME NEW o \in Object, Store(n, o)
      PROVE  /\ \A m \in Names \ {n} : api'[m] = api[m]
             /\ api'[n].rv = api[n].rv + 1
             /\ api'[n].exists = o.exists /\ api'[n].deleting = o.deleting
             /\ api'[n].status = o.status /\ api'[n].gen = o.gen /\ api'[n].spec = o.spec
             /\ api'[n].finalizer = o.finalizer
  BY <1>0, <1>1, <1>3, StoreEffect, StoreFields
<1>4. CASE RemoveFinalizer
  <2> DEFINE o == [api[n] EXCEPT !.finalizer = FALSE, !.exists = FALSE]
  <2>1. o \in Object
    BY <1>1, ObjectUpdates
  <2>2. ~o.exists /\ o.status = api[n].status
    BY <1>1 DEF Object, ObjectsWith
  <2>3. Store(n, o)
    BY <1>4 DEF RemoveFinalizer, DropFinalizer
  <2>4. api[n].deleting /\ RowOf(api[n].status.id) = {}
    BY <1>2, <1>4 DEF RemoveFinalizer, Basis, DeleteSteps
  <2> HIDE DEF o
  <2>5. Finished(n)
    BY <1>2, <1>3, <2>1, <2>2, <2>3, <2>4 DEF Finished
  <2> QED
    BY <1>1, <1>3, <2>1, <2>3, <2>5 DEF Moved
<1>5. CASE AddFinalizer
  <2> DEFINE o == [api[n] EXCEPT !.finalizer = TRUE]
  <2>1. o \in Object
    BY <1>1, ObjectUpdates
  <2>2. /\ o.exists = api[n].exists /\ o.deleting = api[n].deleting
        /\ o.spec = api[n].spec /\ o.gen = api[n].gen /\ o.status = api[n].status
        /\ o.finalizer
    BY <1>1 DEF Object, ObjectsWith
  <2>3. Store(n, o)
    BY <1>5 DEF AddFinalizer, StoreFinalizer
  <2> HIDE DEF o
  <2>4. Guarded(n)
    BY <1>2, <1>3, <2>1, <2>2, <2>3 DEF Guarded, SameSpec
  <2> QED
    BY <1>1, <1>3, <2>1, <2>3, <2>4 DEF Moved
<1>6. ASSUME NEW status \in Status, StoreStatus(n, status)
      PROVE  /\ \A m \in Names \ {n} : api'[m] = api[m]
             /\ api'[n].rv = api[n].rv + 1
             /\ SameSpec(n) /\ api'[n].status = status
  <2> DEFINE o == [api[n] EXCEPT !.status = status]
  <2>1. o \in Object
    BY <1>1, <1>6, ObjectUpdates
  <2>2. /\ o.exists = api[n].exists /\ o.deleting = api[n].deleting
        /\ o.spec = api[n].spec /\ o.gen = api[n].gen /\ o.status = status
        /\ o.finalizer = api[n].finalizer
    BY <1>1 DEF Object, ObjectsWith
  <2>3. Store(n, o)
    BY <1>6 DEF StoreStatus
  <2> HIDE DEF o
  <2> QED
    BY <1>2, <1>3, <2>1, <2>2, <2>3 DEF SameSpec
<1>7. CASE ReportFailed
  <2>1. /\ FailedStatus \in Status
        /\ FailedStatus.id = job.obj.status.id /\ FailedStatus.obsGen = job.obj.status.obsGen
        /\ FailedStatus.reason = job.reason
    BY <1>0, StatusTypes, JobTypes DEF FailedStatus, Status
  <2>2. job.reason # "Synced" /\ StoreStatus(n, FailedStatus)
    BY <1>7 DEF ReportFailed, Basis, PushLive
  <2>3. FailureNoted(n)
    BY <1>2, <1>6, <2>1, <2>2 DEF FailureNoted
  <2> QED
    BY <1>1, <1>6, <2>1, <2>2, <2>3 DEF Moved
<1>8. CASE ReportSynced
  <2>1. /\ SyncedStatus \in Status
        /\ SyncedStatus.id = job.id /\ SyncedStatus.obsGen = job.obj.gen
        /\ SyncedStatus.condGen = job.obj.gen
    BY <1>0, StatusTypes DEF SyncedStatus
  <2>2. /\ StoreStatus(n, SyncedStatus) /\ pc = "reportSynced"
        /\ job.id = api[n].status.id \/ api[n].status.id = NoId
        /\ Live(api[n])
    BY <1>2, <1>8 DEF ReportSynced, Basis, PushLive, PushSteps, Live
  <2>3. SuccessNoted(n)
    BY <1>1, <1>2, <1>6, <2>1, <2>2 DEF SuccessNoted
  <2> QED
    BY <1>1, <1>6, <2>1, <2>2, <2>3 DEF Moved
<1> QED
  BY <1>4, <1>5, <1>7, <1>8

(***************************************************************************)
(* What a step that leaves the objects alone does to databasus.            *)
(***************************************************************************)
\* A request given up on is one of the worker's.
LateGrows ==
    \A q \in late' :
       \/ q \in late
       \/ pc # "idle" /\ q.row = JobRow /\ (q.op = "delete" => job.obj.deleting)

QuietJob == pc' # "reportSynced" \/ UNCHANGED <<pc, job>>

Kept == UNCHANGED <<rows, used, disturbed>> /\ QuietJob

Inserted(r) ==
    /\ r \in Row /\ r.id \in Ids \ used
    /\ rows' = rows \cup {r}
    /\ used' = used \cup {r.id}
    /\ disturbed' = disturbed
    /\ \/ UNCHANGED <<pc, job>>
       \/ /\ JobSaved /\ job.obj.status.id = NoId
          /\ job'.id = r.id /\ r.owner = job.key /\ r.spec = job.obj.spec

\* By a late request, and by the worker.
Overwritten(q) ==
    /\ q \in late /\ RowOf(q.row.id) # {}
    /\ Replace(q.row)
    /\ used' = used /\ disturbed' = disturbed \cup {q.row.id}
    /\ UNCHANGED <<pc, job>>

Rewritten ==
    /\ JobSaved /\ RowOf(job.obj.status.id) # {}
    /\ Replace(JobRow)
    /\ used' = used /\ disturbed' = disturbed \ {job.obj.status.id}
    /\ job'.id = job.obj.status.id /\ job.obj.status.id # NoId

Removed(id) ==
    /\ Doomed(id)
    /\ Remove(id)
    /\ UNCHANGED <<used, disturbed>>
    /\ QuietJob

Lost(id) ==
    /\ OutOfBand
    /\ Remove(id)
    /\ used' = used /\ disturbed' = disturbed \cup {id}
    /\ UNCHANGED <<pc, job, late>>

Served ==
    /\ api' = api
    /\ LateGrows
    /\ \/ Kept
       \/ \E r \in Row : Inserted(r)
       \/ \E q \in late : Overwritten(q)
       \/ Rewritten
       \/ \E id \in Ids \cup {NoId} : Removed(id)
       \/ \E id \in Ids : Lost(id)

\* The row that is inserted.
LEMMA InsertedRow ==
    ASSUME NEW r \in Row, NEW id \in Ids
    PROVE  LET x == [r EXCEPT !.id = id]
           IN  x \in Row /\ x.id = id /\ x.owner = r.owner /\ x.spec = r.spec
  BY DEF Row

LEMMA LateTypes ==
    ASSUME TypeOK, NEW q \in late
    PROVE  q.row \in Row /\ q.row.id \in Ids \cup {NoId} /\ q.row.owner \in Names
  BY DEF TypeOK, Request, Row

LEMMA JobRowTypes ==
    ASSUME TypeOK
    PROVE  /\ job.key \in Names /\ JobRow \in Row
           /\ JobRow.id = job.obj.status.id /\ JobRow.owner = job.key
           /\ JobRow.spec = job.obj.spec
           /\ job.obj.status.id \in Ids \cup {NoId}
<1>1. LocalTypeOK
  BY TypeParts
<1>2. /\ job.key \in Names /\ job.obj \in Object
      /\ job.first \in Creds \cup {NoCred} /\ job.second \in Creds \cup {NoCred}
  BY <1>1 DEF LocalTypeOK, Job
<1>3. job.obj.spec \in Specs /\ job.obj.status.id \in Ids \cup {NoId}
  BY <1>2 DEF Object, ObjectsWith, Status
<1> QED
  BY <1>2, <1>3 DEF JobRow, Row

LEMMA LateServes ==
    ASSUME TypeOK, NEW q \in late, ServeLate(q)
    PROVE  Served
<1>1. /\ api' = api /\ UNCHANGED <<pc, job>> /\ late' \subseteq late
      /\ q.row \in Row /\ q.row.id \in Ids \cup {NoId}
  BY LateTypes DEF ServeLate, kubeVars
<1>2. LateGrows
  BY <1>1 DEF LateGrows
<1>3. ASSUME NEW id \in Ids, Insert(q.row, id), disturbed' = disturbed
      PROVE  \E r \in Row : Inserted(r)
  BY <1>1, <1>3, InsertedRow DEF Insert, Inserted
<1>4. CASE Replace(q.row) /\ RowOf(q.row.id) # {} /\ disturbed' = disturbed \cup {q.row.id}
           /\ used' = used
  BY <1>1, <1>2, <1>4 DEF Overwritten, Served
<1>5. CASE q.op = "delete" /\ Remove(q.row.id) /\ UNCHANGED <<used, disturbed>>
  BY <1>1, <1>2, <1>5 DEF Removed, Doomed, Served, QuietJob
<1>6. CASE UNCHANGED <<rows, used, disturbed>>
  BY <1>1, <1>2, <1>6 DEF Kept, Served, QuietJob
<1> QED
  BY <1>1, <1>2, <1>3, <1>4, <1>5, <1>6 DEF ServeLate, Served

LEMMA WorkerServes ==
    ASSUME Basis, DeleteRemote \/ SaveCreates \/ SaveReplaces
    PROVE  Served
<1>0. /\ TypeOK /\ LocalTypeOK
      /\ api' = api /\ late' = late /\ LateGrows
  BY TypeParts DEF Basis, DeleteRemote, SaveCreates, SaveReplaces, kubeVars, LateGrows
<1>1. CASE DeleteRemote
  <2>1. Doomed(job.obj.status.id)
    BY <1>0, <1>1, JobRowTypes, InCopies DEF DeleteRemote, Doomed, Basis, DeleteSteps
  <2>2. Removed(job.obj.status.id)
    BY <1>1, <2>1 DEF DeleteRemote, Removed, Goto, QuietJob
  <2> QED
    BY <1>0, <2>2, JobRowTypes DEF Served
<1>2. ASSUME NEW id \in Ids \cup {NoId}, Goto("reportSynced", [job EXCEPT !.id = id]), pc = "save"
      PROVE  JobSaved /\ job'.id = id
  <2>1. [job EXCEPT !.id = id].id = id
    BY <1>0 DEF LocalTypeOK, Job
  <2> QED
    BY <1>0, <1>2, <2>1, JobKeeps DEF Goto, JobSaved, SameJob
<1>3. CASE SaveCreates
  <2>1. PICK id \in Ids : Insert(JobRow, id) /\ Goto("reportSynced", [job EXCEPT !.id = id])
    BY <1>3 DEF SaveCreates
  <2>2. Inserted([JobRow EXCEPT !.id = id])
    BY <1>0, <1>2, <1>3, <2>1, InsertedRow, JobRowTypes DEF Insert, Inserted, SaveCreates
  <2> QED
    BY <1>0, <2>1, <2>2, InsertedRow, JobRowTypes DEF Served
<1>4. CASE SaveReplaces
  BY <1>0, <1>2, <1>4, JobRowTypes DEF SaveReplaces, Rewritten, Served
<1> QED
  BY <1>1, <1>3, <1>4

LEMMA CallServes ==
    ASSUME Basis, CallFails
    PROVE  Served
<1>1. /\ api' = api /\ UNCHANGED <<rows, used, disturbed>> /\ pc' # "reportSynced"
  BY DEF CallFails, kubeButDelayed, FailWith, ReturnAndRetry, Goto
<1>2. LateGrows
  <2>1. pc # "idle" /\ (pc # "save" => job.obj.deleting)
    BY DEF CallFails, Basis, DeleteSteps
  <2> QED
    BY <2>1 DEF CallFails, LateGrows
<1> QED
  BY <1>1, <1>2 DEF Served, Kept, QuietJob

\* Every step moves one object, or leaves the objects alone.
LEMMA NextServes ==
    ASSUME Basis, [Next]_vars
    PROVE  Served \/ \E n \in Names : Moved(n)
<1>1. ASSUME api' = api, UNCHANGED serverVars, QuietJob
      PROVE  Served
  BY <1>1 DEF Served, Kept, LateGrows, serverVars
<1>2. ASSUME NEW n \in Names, User(n) PROVE Served \/ Moved(n)
  <2>1. UNCHANGED serverVars /\ QuietJob
    BY <1>2 DEF User, SetSecret, QuietJob
  <2> QED
    BY <1>1, <1>2, <2>1, UserMoves
<1>3. ASSUME NEW n \in Names, Manager(n) \/ DeliverSecret(n) PROVE Served
  BY <1>1, <1>3 DEF Manager, DeliverEvent, FireTimer, Resync, DeliverSecret, kubeVars, QuietJob
<1>4. ASSUME NEW n \in Names, Start(n) PROVE Served
  <2>1. pc' # "reportSynced"
    BY <1>4, StartJob, TypeParts DEF Basis, JobBegins
  <2>2. UNCHANGED serverVars /\ api' = api
    BY <1>4, StartBegins DEF Begin
  <2> QED
    BY <1>1, <2>1, <2>2 DEF QuietJob
<1>5. CASE RemoveFinalizer \/ AddFinalizer \/ ReportFailed \/ ReportSynced
  <2>1. UNCHANGED serverVars /\ pc' = "idle"
    BY <1>5 DEF RemoveFinalizer, AddFinalizer, ReportFailed, ReportSynced, Return,
       ReturnAndRetry, Goto
  <2> QED
    BY <1>1, <1>5, <2>1, WriteMoves DEF QuietJob
<1>6. CASE ReadFirst \/ ReadSecond \/ SaveRejected
  <2>1. UNCHANGED serverVars /\ api' = api /\ pc' # "reportSynced"
    BY <1>6 DEF ReadFirst, ReadSecond, SaveRejected, kubeButDelayed, Goto, FailWith, AfterFirst
  <2> QED
    BY <1>1, <2>1 DEF QuietJob
<1>7. CASE DeleteRemote \/ SaveCreates \/ SaveReplaces
  BY <1>7, WorkerServes
<1>8. CASE \E q \in late : ServeLate(q)
  BY <1>8, LateServes DEF Basis
<1>9. ASSUME NEW id \in Ids, RemoveOutOfBand(id) PROVE Served
  BY <1>9 DEF RemoveOutOfBand, Served, Lost, LateGrows, kubeVars
<1>10. CASE CallFails
  BY <1>10, CallServes
<1>11. CASE KubeWriteFails \/ Restart
  <2>1. UNCHANGED serverVars /\ api' = api /\ pc' = "idle"
    BY <1>11 DEF KubeWriteFails, Restart, Relist, ReturnAndRetry, Goto, kubeButDelayed
  <2> QED
    BY <1>1, <2>1 DEF QuietJob
<1>12. CASE UNCHANGED vars
  BY <1>1, <1>12 DEF vars, kubeVars, QuietJob
<1> QED
  BY <1>2, <1>3, <1>4, <1>5, <1>6, <1>7, <1>8, <1>9, <1>10, <1>11, <1>12
  DEF Next, Worker, Environment

(***************************************************************************)
(* The claims to an ID.                                                    *)
(***************************************************************************)
\* What is known of an object after a step that leaves the objects alone was
\* known before it.
LEMMA ServedCopies ==
    ASSUME CopiesGrow, api' = api, NEW n \in Names, NEW o \in CopiesOf(n)'
    PROVE  o \in CopiesOf(n)
  BY InCopies DEF CopiesGrow

\* A record has an ID that was handed out.
LEMMA RowIds ==
    ASSUME TypeOK, NEW id, RowOf(id) # {}
    PROVE  id \in used /\ id \in Ids
  BY DEF TypeOK, RowOf

\* A record that is gone stays away: nothing is stored under an ID a second time.
LEMMA RowStaysAway ==
    ASSUME TypeOK, Served, NEW id \in used, RowOf(id) = {}
    PROVE  RowOf(id)' = {}
<1>1. ASSUME NEW r \in Row, Inserted(r) PROVE RowOf(id)' = {}
  BY <1>1 DEF Inserted, RowOf
<1>2. ASSUME NEW r, RowOf(r.id) # {}, Replace(r) PROVE RowOf(id)' = {}
  BY <1>2 DEF Replace, RowOf
<1>3. CASE Rewritten
  BY <1>2, <1>3, JobRowTypes DEF Rewritten
<1>4. CASE \E q \in late : Overwritten(q)
  BY <1>2, <1>4 DEF Overwritten
<1>5. CASE rows' \subseteq rows
  BY <1>5 DEF RowOf
<1> QED
  BY <1>1, <1>3, <1>4, <1>5 DEF Served, Kept, Removed, Lost, Remove

LEMMA JobClaims ==
    ASSUME pc # "idle"
    PROVE  job.obj \in CopiesOf(job.key) /\ Claims(job.key, job.obj.status.id)
  BY InCopies DEF Claims, Named

LEMMA LateClaims ==
    ASSUME TypeOK, LateGrows, NEW q \in late'
    PROVE  Claims(q.row.owner, q.row.id)
<1>1. CASE q \in late
  BY <1>1 DEF Claims
<1>2. CASE pc # "idle" /\ q.row = JobRow
  BY <1>2, JobClaims, JobRowTypes
<1> QED
  BY <1>1, <1>2 DEF LateGrows

ClaimsKept == used' = used /\ \A n \in Names, id \in Ids : Claims(n, id)' => Claims(n, id)

ClaimAdded(m, fresh) ==
    /\ fresh \in Ids \ used
    /\ used' = used \cup {fresh}
    /\ \A n \in Names, id \in Ids :
          Claims(n, id)' => Claims(n, id) \/ (n = m /\ id = fresh)

LEMMA ServedClaims ==
    ASSUME TypeOK, CopiesGrow, Served
    PROVE  ClaimsKept \/ \E m \in Names, fresh \in Ids : ClaimAdded(m, fresh)
<1>1. /\ api' = api /\ LateGrows
      /\ \A n \in Names : \A o \in CopiesOf(n)' : o \in CopiesOf(n)
  BY ServedCopies DEF Served
\* Who names an ID, and whose record or late request carries it.
<1>2. ASSUME NEW n \in Names, NEW id \in Ids, Claims(n, id)'
      PROVE  \/ Claims(n, id)
             \/ pc' = "reportSynced" /\ job'.key = n /\ job'.id = id
             \/ \E r \in rows' : r.id = id /\ r.owner = n
  <2>1. CASE Named(n, id)'
    BY <1>1, <2>1 DEF Named, Claims
  <2>2. ASSUME NEW q \in late', q.row.id = id, q.row.owner = n
        PROVE  Claims(n, id)
    BY <1>1, <2>2, LateClaims
  <2> QED
    BY <1>2, <2>1, <2>2 DEF Claims
<1>3. ASSUME QuietJob, used' = used, rows' \subseteq rows PROVE ClaimsKept
  BY <1>2, <1>3 DEF QuietJob, Claims, ClaimsKept
<1>4. ASSUME NEW r \in Row, Inserted(r) PROVE ClaimAdded(r.owner, r.id) /\ r.owner \in Names
  <2>1. r.owner \in Names
    BY DEF Row
  <2> QED
    BY <1>2, <1>4, <2>1 DEF Inserted, ClaimAdded, Claims, JobSaved, SameJob
<1>5. ASSUME NEW q \in late, Overwritten(q) PROVE ClaimsKept
  BY <1>2, <1>5 DEF Overwritten, Replace, ClaimsKept, Claims
<1>6. CASE Rewritten
  <2>1. Claims(job.key, job.obj.status.id)
    BY <1>6, JobClaims DEF Rewritten, JobSaved
  <2> QED
    BY <1>2, <1>6, <2>1, JobRowTypes
    DEF Rewritten, Replace, ClaimsKept, Claims, JobSaved, SameJob
<1>7. ASSUME NEW id \in Ids \cup {NoId}, Removed(id) PROVE ClaimsKept
  BY <1>3, <1>7 DEF Removed, Remove
<1>8. ASSUME NEW id \in Ids, Lost(id) PROVE ClaimsKept
  BY <1>3, <1>8 DEF Lost, Remove, QuietJob
<1>9. CASE Kept
  BY <1>3, <1>9 DEF Kept
<1> QED
  BY <1>4, <1>5, <1>6, <1>7, <1>8, <1>9 DEF Served, Inserted

\* The identity of an object changes when its success is noted, or when it is
\* created again.
LEMMA MovedId ==
    ASSUME NEW n \in Names, Moved(n)
    PROVE  \/ api'[n].status.id = api[n].status.id
           \/ api'[n].status.id = NoId
           \/ SuccessNoted(n) /\ api'[n].status.id = job.id
  BY DEF Moved, Created, Edited, Marked, Vanished, Finished, Guarded, FailureNoted,
     SuccessNoted, NoStatus

LEMMA MovedClaims ==
    ASSUME CopiesGrow, NEW m \in Names, Moved(m)
    PROVE  ClaimsKept
<1> SUFFICES ASSUME NEW n \in Names, NEW id \in Ids, Claims(n, id)'
             PROVE  Claims(n, id)
  BY DEF ClaimsKept, Moved, serverVars
<1>1. CASE Named(n, id)'
  <2>1. PICK o \in CopiesOf(n)' : o.status.id = id
    BY <1>1 DEF Named
  <2>2. CASE o \in CopiesOf(n)
    BY <2>1, <2>2 DEF Named, Claims
  <2>3. CASE o = api'[n] /\ n # m
    BY <2>1, <2>3, InCopies DEF Moved, Named, Claims
  <2>4. CASE o = api'[n] /\ n = m
    <3>1. CASE api'[n].status.id = api[n].status.id
      BY <2>1, <2>4, <3>1, InCopies DEF Named, Claims
    <3>2. CASE api'[n].status.id = NoId
      BY <2>1, <2>4, <3>2, ResourceAssumption
    <3>3. CASE SuccessNoted(n) /\ api'[n].status.id = job.id
      BY <2>1, <2>4, <3>3 DEF SuccessNoted, Claims
    <3> QED
      BY <2>4, <3>1, <3>2, <3>3, MovedId
  <2> QED
    BY <2>1, <2>2, <2>3, <2>4 DEF CopiesGrow
<1>2. CASE ~Named(n, id)'
  BY <1>2 DEF Claims, Moved, serverVars
<1> QED
  BY <1>1, <1>2

LEMMA UnsharedStep ==
    ASSUME Unshared, ClaimsKept \/ \E m \in Names, fresh \in Ids : ClaimAdded(m, fresh)
    PROVE  Unshared'
<1>1. CASE ClaimsKept
  BY <1>1 DEF Unshared, ClaimsKept
<1>2. ASSUME NEW m \in Names, NEW fresh \in Ids, ClaimAdded(m, fresh) PROVE Unshared'
  BY <1>2 DEF Unshared, ClaimAdded
<1> QED
  BY <1>1, <1>2

(***************************************************************************)
(* The records that may still be deleted.                                  *)
(***************************************************************************)
LEMMA DoomedClaims ==
    ASSUME TypeOK, NEW id \in Ids, Doomed(id)
    PROVE  \E n \in Names : Claims(n, id)
<1>1. ASSUME NEW q \in late, q.row.id = id PROVE \E n \in Names : Claims(n, id)
  BY <1>1, LateTypes DEF Claims
<1> QED
  BY <1>1 DEF Doomed, Claims, Named

LEMMA ServedDoomed ==
    ASSUME TypeOK, CopiesGrow, api' = api, LateGrows, NEW id \in Ids, Doomed(id)'
    PROVE  Doomed(id)
<1>1. ASSUME NEW n \in Names, NEW o \in CopiesOf(n)', o.deleting, o.status.id = id
      PROVE  Doomed(id)
  BY <1>1, ServedCopies DEF Doomed
<1>2. ASSUME NEW q \in late', q.op = "delete", q.row.id = id
      PROVE  Doomed(id)
  BY <1>2, JobClaims, JobRowTypes DEF LateGrows, Doomed
<1> QED
  BY <1>1, <1>2 DEF Doomed

LEMMA MovedDoomed ==
    ASSUME CopiesGrow, NEW m \in Names, Moved(m), NEW id \in Ids, Doomed(id)'
    PROVE  Doomed(id) \/ (Marked(m) /\ api[m].status.id = id)
<1>1. ASSUME NEW n \in Names, NEW o \in CopiesOf(n)', o.deleting, o.status.id = id
      PROVE  Doomed(id) \/ (Marked(m) /\ api[m].status.id = id)
  <2>1. CASE o \in CopiesOf(n)
    BY <1>1, <2>1 DEF Doomed
  <2>2. CASE o = api'[n] /\ n # m
    BY <1>1, <2>2, InCopies DEF Moved, Doomed
  <2>3. CASE o = api'[m] /\ n = m
    <3>1. CASE Created(m) \/ Vanished(m) \/ SuccessNoted(m)
      BY <1>1, <2>3, <3>1 DEF Created, Vanished, SuccessNoted, SameSpec, Live
    <3>2. CASE Marked(m)
      BY <1>1, <2>3, <3>2 DEF Marked
    <3>3. CASE Edited(m) \/ Finished(m) \/ Guarded(m) \/ FailureNoted(m)
      <4>1. api[m].deleting /\ api[m].status.id = id
        BY <1>1, <2>3, <3>3 DEF Edited, Finished, Guarded, FailureNoted, SameSpec
      <4> QED
        BY <4>1, InCopies DEF Doomed
    <3> QED
      BY <3>1, <3>2, <3>3 DEF Moved
  <2> QED
    BY <1>1, <2>1, <2>2, <2>3 DEF CopiesGrow
<1>2. late' = late
  BY DEF Moved, serverVars
<1> QED
  BY <1>1, <1>2 DEF Doomed

\* Once no live object names a record, none comes to name it.
LEMMA ServedDead ==
    ASSUME TypeOK, Served, NEW id \in used, Dead(id)
    PROVE  Dead(id)'
<1>1. RowOf(id)' # {} => RowOf(id) # {}
  BY RowStaysAway
<1>2. api' = api
  BY DEF Served
<1> QED
  BY <1>1, <1>2 DEF Dead

LEMMA MovedDead ==
    ASSUME NEW m \in Names, Moved(m), NEW id \in Ids, Dead(id),
           SuccessNoted(m) /\ api[m].status.id = NoId => job.id # id
    PROVE  Dead(id)'
<1>1. RowOf(id)' = RowOf(id) /\ \A n \in Names \ {m} : api'[n] = api[n]
  BY DEF RowOf, Moved, serverVars
<1>2. /\ \A n \in Names : Live(api[n]) => api[n].status.id # id
      /\ RowOf(id) # {} =>
            \E n \in Names : api[n].exists /\ api[n].deleting /\ api[n].status.id = id
  BY DEF Dead
<1>3. Live(api'[m]) => api'[m].status.id # id
  <2>1. CASE SuccessNoted(m)
    BY <1>2, <2>1 DEF SuccessNoted
  <2>2. CASE Created(m) \/ Vanished(m) \/ Finished(m) \/ Marked(m)
    BY <2>2, ResourceAssumption DEF Created, Vanished, Finished, Marked, Live, NoStatus
  <2>3. CASE Edited(m) \/ Guarded(m) \/ FailureNoted(m)
    BY <1>2, <2>3 DEF Edited, Guarded, FailureNoted, SameSpec, Live
  <2> QED
    BY <2>1, <2>2, <2>3 DEF Moved
<1>4. ASSUME RowOf(id) # {}, api[m].exists, api[m].deleting, api[m].status.id = id
      PROVE  api'[m].exists /\ api'[m].deleting /\ api'[m].status.id = id
  BY <1>4 DEF Moved, Created, Edited, Marked, Vanished, Finished, Guarded, FailureNoted,
     SuccessNoted, SameSpec, Live
<1> QED
  BY <1>1, <1>2, <1>3, <1>4 DEF Dead

\* The record of an object that is marked now has no other object.
LEMMA MarkedDead ==
    ASSUME NEW m \in Names, Moved(m), Marked(m), NEW id, api[m].status.id = id,
           \A n \in Names : api[n].status.id = id => n = m
    PROVE  Dead(id)'
<1>1. \A n \in Names \ {m} : api'[n] = api[n]
  BY DEF Moved
<1> QED
  BY <1>1 DEF Dead, Marked, Live

LEMMA ServedDoomedDead ==
    ASSUME TypeOK, Unshared, DoomedDead, CopiesGrow, Served
    PROVE  DoomedDead'
<1> SUFFICES ASSUME NEW id \in Ids, Doomed(id)'
             PROVE  Dead(id)'
  BY DEF DoomedDead
<1>1. Doomed(id)
  BY ServedDoomed DEF Served
<1>2. id \in used
  BY <1>1, DoomedClaims DEF Unshared
<1> QED
  BY <1>1, <1>2, ServedDead DEF DoomedDead

LEMMA MovedDoomedDead ==
    ASSUME Unshared, DoomedDead, Fresh, CopiesGrow, NEW m \in Names, Moved(m)
    PROVE  DoomedDead'
<1> SUFFICES ASSUME NEW id \in Ids, Doomed(id)'
             PROVE  Dead(id)'
  BY DEF DoomedDead
<1>1. CASE Marked(m) /\ api[m].status.id = id
  <2>1. \A n \in Names : api[n].status.id = id => n = m
    BY <1>1, InCopies DEF Unshared, Claims, Named
  <2> QED
    BY <1>1, <2>1, MarkedDead
<1>2. CASE Doomed(id)
  <2>1. SuccessNoted(m) /\ api[m].status.id = NoId => job.id # id
    BY <1>2 DEF Doomed, Fresh, Named, SuccessNoted
  <2> QED
    BY <1>2, <2>1, MovedDead DEF DoomedDead
<1> QED
  BY <1>1, <1>2, MovedDoomed

(***************************************************************************)
(* The ID that was just handed out.                                        *)
(***************************************************************************)
LEMMA ServedFresh ==
    ASSUME TypeOK, Unshared, Fresh, CopiesGrow, JobMoves, Served
    PROVE  Fresh'
<1> SUFFICES ASSUME pc' = "reportSynced", job'.obj.status.id = NoId,
                    NEW id \in Ids, id = job'.id
             PROVE  /\ \A n \in Names : ~Named(n, id)'
                    /\ \A q \in late' : q.row.id # id
  BY DEF Fresh
<1>1. \A n \in Names : Named(n, id)' => Named(n, id)
  BY ServedCopies DEF Served, Named
<1>2. CASE UNCHANGED <<pc, job>>
  <2>1. \A q \in late' : q.row.id = id => q \in late
    BY <1>2, JobRowTypes, ResourceAssumption DEF Served, LateGrows
  <2> QED
    BY <1>1, <1>2, <2>1 DEF Fresh
<1>3. ASSUME NEW r \in Row, Inserted(r), JobSaved, r.id = id
      PROVE  /\ \A n \in Names : ~Named(n, id)
             /\ \A q \in late' : q.row.id # id
  <2>1. \A n \in Names : ~Claims(n, r.id)
    BY <1>3 DEF Inserted, Unshared
  <2>2. ASSUME NEW q \in late', q.row.id = r.id PROVE FALSE
    <3>1. q.row.owner \in Names
      BY LateTypes, JobRowTypes DEF Served, LateGrows
    <3> QED
      BY <2>1, <2>2, <3>1, LateClaims DEF Served
  <2> QED
    BY <1>3, <2>1, <2>2 DEF Claims
<1>4. CASE Rewritten
  BY <1>4 DEF Rewritten, JobSaved, SameJob
<1> QED
  BY <1>1, <1>2, <1>3, <1>4
  DEF Served, Kept, QuietJob, Inserted, Overwritten, Removed, Lost

LEMMA MovedFresh ==
    ASSUME Fresh, CopiesGrow, NEW m \in Names, Moved(m)
    PROVE  Fresh'
<1> SUFFICES ASSUME pc' = "reportSynced", job'.obj.status.id = NoId,
                    NEW id \in Ids, id = job'.id
             PROVE  /\ \A n \in Names : ~Named(n, id)'
                    /\ \A q \in late' : q.row.id # id
  BY DEF Fresh
<1>1. UNCHANGED <<pc, job>> /\ late' = late /\ ~SuccessNoted(m)
  BY DEF Moved, serverVars, SuccessNoted
<1>2. ASSUME NEW n \in Names, NEW o \in CopiesOf(n)', o.status.id = id PROVE FALSE
  <2>1. \A k \in Names : \A c \in CopiesOf(k) : c.status.id # id
    BY <1>1 DEF Fresh, Named
  <2>2. api'[n].status.id # id
    BY <1>1, <2>1, InCopies, MovedId, ResourceAssumption DEF Moved
  <2> QED
    BY <1>2, <2>1, <2>2 DEF CopiesGrow
<1> QED
  BY <1>1, <1>2 DEF Fresh, Named

LEMMA NextPushLive ==
    ASSUME PushLive, JobMoves
    PROVE  PushLive'
  BY DEF PushLive, JobMoves, JobBegins, JobGoesOn, JobSaved, SameJob, PushSteps

(***************************************************************************)
(* What Ready says.                                                        *)
(***************************************************************************)
LEMMA GenTypes ==
    ASSUME TypeOK, NEW n \in Names
    PROVE  api[n].gen \in Nat /\ api[n].status.obsGen \in Nat /\ api[n].rv \in Nat
  BY DEF TypeOK, Object, ObjectsWith, Status

LEMMA MovedObserved ==
    ASSUME TypeOK, TypeOK', Observed, NEW m \in Names, Moved(m)
    PROVE  Observed'
<1> SUFFICES ASSUME NEW n \in Names, api'[n].exists
             PROVE  /\ api'[n].status.obsGen <= api'[n].gen
                    /\ api'[n].deleting => api'[n].status.obsGen # api'[n].gen
  BY DEF Observed
<1>1. CASE n # m
  BY <1>1 DEF Moved, Observed
<1>2. CASE n = m
  <2>1. api'[n].gen \in Nat
    BY DEF TypeOK, Object, ObjectsWith
  <2>2. CASE Created(n)
    BY <2>1, <2>2 DEF Created, Live, NoStatus
  <2>3. CASE Edited(n) \/ Marked(n)
    <3>1. /\ api'[n].gen = api[n].gen + 1 /\ api'[n].status = api[n].status
          /\ api[n].exists
      BY <2>3 DEF Edited, Marked, Live
    <3>2. api[n].status.obsGen <= api[n].gen
      BY <3>1 DEF Observed
    <3> QED
      BY <3>1, <3>2, GenTypes
  <2>4. CASE Guarded(n) \/ FailureNoted(n)
    BY <2>4 DEF Guarded, FailureNoted, SameSpec, Observed
  <2>5. CASE SuccessNoted(n)
    BY <2>1, <2>5 DEF SuccessNoted, SameSpec, Live
  <2> QED
    BY <1>2, <2>2, <2>3, <2>4, <2>5 DEF Moved, Vanished, Finished
<1> QED
  BY <1>1, <1>2

\* An object that moved is Ready for its present generation if the guard was
\* added to one that was, or if its success was noted.
LEMMA MovedNow ==
    ASSUME TypeOK, Observed, NEW n \in Names, Moved(n), Now(api'[n])
    PROVE  (Guarded(n) /\ Now(api[n])) \/ SuccessNoted(n)
<1>1. ~Created(n) /\ ~FailureNoted(n) /\ ~Vanished(n) /\ ~Finished(n)
  BY DEF Created, FailureNoted, Vanished, Finished, Now, Ready, NoStatus
<1>2. ~Edited(n) /\ ~Marked(n)
  <2> SUFFICES ASSUME Edited(n) \/ Marked(n) PROVE FALSE
    OBVIOUS
  <2>1. api'[n].gen = api[n].gen + 1 /\ api'[n].status = api[n].status /\ api[n].exists
    BY DEF Edited, Marked, Live
  <2>2. api[n].status.obsGen <= api[n].gen /\ api[n].status.obsGen = api[n].gen + 1
    BY <2>1 DEF Observed, Now
  <2> QED
    BY <2>2, GenTypes
<1>3. Guarded(n) => Now(api[n])
  BY DEF Guarded, SameSpec, Now, Ready
<1> QED
  BY <1>1, <1>2, <1>3 DEF Moved

LEMMA MovedNowSeen ==
    ASSUME IInv, Observed, NowSeen, CopiesGrow, NEW m \in Names, Moved(m)
    PROVE  NowSeen'
<1> SUFFICES ASSUME NEW n \in Names, Now(api'[n]), NEW o \in CopiesOf(n)', o # api'[n]
             PROVE  o.spec = api'[n].spec
  BY DEF NowSeen
<1>1. o \in CopiesOf(n)
  BY DEF CopiesGrow
<1>2. CASE n # m
  BY <1>1, <1>2 DEF Moved, NowSeen
<1>3. CASE n = m /\ Guarded(n) /\ Now(api[n])
  BY <1>1, <1>3 DEF NowSeen, Guarded, SameSpec
<1>4. CASE n = m /\ SuccessNoted(n)
  <2>1. Current(job.key, job.obj)
    BY <1>4 DEF SuccessNoted, SameSpec, Current
  <2>2. o = api[n]
    BY <1>1, <1>4, <2>1, CurrentIsKnown, InCopies DEF SuccessNoted
  <2> QED
    BY <1>4, <2>2 DEF SuccessNoted, SameSpec
<1> QED
  BY <1>2, <1>3, <1>4, MovedNow DEF IInv

LEMMA ServedNowSeen ==
    ASSUME NowSeen, CopiesGrow, Served
    PROVE  NowSeen'
  BY ServedCopies DEF NowSeen, Served

\* A record that is there, of a live object, is not one to delete.
LEMMA LiveSpared ==
    ASSUME Unshared, DoomedDead,
           NEW n \in Names, Live(api[n]), NEW id \in Ids, Claims(n, id), RowOf(id) # {}
    PROVE  ~Doomed(id)
<1> SUFFICES ASSUME Doomed(id) PROVE FALSE
  OBVIOUS
<1>1. PICK m \in Names : api[m].exists /\ api[m].deleting /\ api[m].status.id = id
  BY DEF DoomedDead, Dead
<1>2. m = n
  BY <1>1, InCopies DEF Unshared, Claims, Named
<1> QED
  BY <1>1, <1>2 DEF Live

\* The record of a live object, or one of an ID nobody else claims, stays unless a
\* stranger or a late request has a hand in it.
LEMMA ServedRow ==
    ASSUME Unshared, DoomedDead, Served, ~Rewritten,
           NEW n \in Names, Live(api[n]), NEW id \in Ids, Claims(n, id), id \notin disturbed',
           NEW r \in RowOf(id)
    PROVE  r \in RowOf(id)' /\ id \notin disturbed
<1>1. r \in rows /\ r.id = id
  BY DEF RowOf
<1>2. ~Doomed(id)
  BY LiveSpared
<1>3. ASSUME NEW q \in late, Overwritten(q) PROVE r \in rows' /\ id \notin disturbed
  BY <1>1, <1>3 DEF Overwritten, Replace, RowOf
<1>4. ASSUME NEW x, Removed(x) PROVE r \in rows' /\ id \notin disturbed
  BY <1>1, <1>2, <1>4 DEF Removed, Remove, RowOf
<1>5. ASSUME NEW x, Lost(x) PROVE r \in rows' /\ id \notin disturbed
  BY <1>1, <1>5 DEF Lost, Remove, RowOf
<1>6. CASE Kept \/ \E x \in Row : Inserted(x)
  BY <1>1, <1>6 DEF Kept, Inserted, RowOf
<1> QED
  BY <1>1, <1>3, <1>4, <1>5, <1>6 DEF Served, RowOf

\* Whatever has been said of the record, only a stranger takes it away.
LEMMA ServedStays ==
    ASSUME Unshared, DoomedDead, Served, ~Rewritten,
           NEW n \in Names, Live(api[n]), NEW id \in Ids, Claims(n, id),
           NEW r \in RowOf(id)
    PROVE  ByStranger(id) \/ RowOf(id)' # {}
<1>1. r \in rows /\ r.id = id
  BY DEF RowOf
<1>2. ~Doomed(id)
  BY LiveSpared
<1>3. ASSUME NEW q \in late, Overwritten(q) PROVE RowOf(id)' # {}
  BY <1>1, <1>3 DEF Overwritten, Replace, RowOf
<1>4. ASSUME NEW x, Removed(x) PROVE RowOf(id)' # {}
  BY <1>1, <1>2, <1>4 DEF Removed, Remove, RowOf
<1>5. ASSUME NEW x, Lost(x) PROVE ByStranger(id) \/ RowOf(id)' # {}
  BY <1>1, <1>5 DEF Lost, Remove, RowOf, ByStranger
<1>6. CASE Kept \/ \E x \in Row : Inserted(x)
  BY <1>1, <1>6 DEF Kept, Inserted, RowOf
<1> QED
  BY <1>3, <1>4, <1>5, <1>6 DEF Served

\* The row the worker has written.
LEMMA RewrittenRow ==
    ASSUME IInv, Rewritten, NEW id
    PROVE  IF id = job.obj.status.id
           THEN id \in Ids /\ \E r \in RowOf(id)' : r.spec = job.obj.spec
           ELSE RowOf(id) \subseteq RowOf(id)' /\ (id \in disturbed => id \in disturbed')
<1>1. rows' = (rows \ RowOf(JobRow.id)) \cup {JobRow}
  BY DEF Rewritten, Replace
<1> QED
  BY <1>1, JobRowTypes DEF IInv, Rewritten, RowOf

LEMMA ServedSaved ==
    ASSUME IInv, Unshared, DoomedDead, PushLive, Saved, Served
    PROVE  Saved'
<1> SUFFICES ASSUME pc' = "reportSynced", job'.obj = api[job'.key],
                    NEW id, id = job'.id, id \notin disturbed'
             PROVE  \E r \in RowOf(id)' : r.spec = job'.obj.spec
  BY DEF Saved, Served, RowOf
<1>1. CASE UNCHANGED <<pc, job>> /\ ~Rewritten
  <2>1. job.obj.exists /\ ~job.obj.deleting /\ job.key \in Names /\ Claims(job.key, id)
    BY <1>1, JobRowTypes DEF IInv, JobOK, PushLive, PushSteps, Claims
  <2>2. id \notin disturbed
    BY <1>1 DEF Served, Kept, Inserted, Overwritten, Removed, Lost
  <2>3. PICK r \in RowOf(id) : r.spec = job.obj.spec
    BY <1>1, <2>2 DEF Saved
  <2>4. id \in Ids
    BY <2>3, RowIds DEF IInv
  <2>5. Live(api[job.key])
    BY <1>1, <2>1 DEF Live
  <2> QED
    BY <1>1, <2>1, <2>3, <2>4, <2>5, ServedRow
<1>2. ASSUME NEW r \in Row, Inserted(r), JobSaved
      PROVE  r.spec = job'.obj.spec /\ r \in RowOf(id)'
  BY <1>2 DEF Inserted, JobSaved, SameJob, RowOf
<1>3. CASE Rewritten
  <2>1. id = job.obj.status.id /\ job'.obj = job.obj
    BY <1>3 DEF Rewritten, JobSaved, SameJob
  <2> QED
    BY <1>3, <2>1, RewrittenRow
<1> QED
  BY <1>1, <1>2, <1>3 DEF Served, Kept, QuietJob, Inserted, Overwritten, Removed, Lost

LEMMA MovedSaved ==
    ASSUME IInv, Saved, NEW m \in Names, Moved(m)
    PROVE  Saved'
<1> SUFFICES ASSUME pc' = "reportSynced", job'.obj = api'[job'.key], job'.id \notin disturbed'
             PROVE  \E r \in RowOf(job'.id) : r.spec = job'.obj.spec
  BY DEF Saved, Moved, serverVars, RowOf
<1>1. UNCHANGED <<pc, job>> /\ disturbed' = disturbed
  BY DEF Moved, serverVars
<1>2. job.key # m
  <2> SUFFICES ASSUME job.key = m PROVE FALSE
    OBVIOUS
  <2>1. job.obj.rv = api[m].rv + 1 /\ job.obj.rv <= api[m].rv
    BY <1>1 DEF Moved, IInv, JobOK, IsCopy
  <2> QED
    BY <2>1, GenTypes DEF IInv
<1>3. job.obj = api[job.key]
  BY <1>1, <1>2, JobRowTypes DEF IInv, Moved
<1> QED
  BY <1>1, <1>3 DEF Saved

LEMMA ServedMatches ==
    ASSUME IInv, Unshared, DoomedDead, Observed, NowSeen, SyncedRowMatches, Served
    PROVE  SyncedRowMatches'
<1> SUFFICES ASSUME NEW n \in Names, Now(api[n]), NEW id, id = api[n].status.id,
                    id \notin disturbed'
             PROVE  \E r \in RowOf(id)' : r.spec = api[n].spec
  BY DEF SyncedRowMatches, Served, Now, Ready, RowOf
<1>1. Live(api[n]) /\ Claims(n, id)
  BY InCopies DEF Observed, Now, Live, Claims, Named
<1>2. CASE Rewritten /\ id = job.obj.status.id
  <2>1. pc # "idle" /\ id \in Ids
    BY <1>2, RewrittenRow DEF Rewritten, JobSaved
  <2>2. job.key = n
    BY <1>1, <1>2, <2>1, JobClaims, JobRowTypes DEF IInv, Unshared
  <2>3. job.obj.spec = api[n].spec
    BY <2>1, <2>2, JobClaims DEF NowSeen
  <2> QED
    BY <1>2, <2>3, RewrittenRow
<1>3. ASSUME id \notin disturbed
      PROVE  id \in Ids /\ \E r \in RowOf(id) : r.spec = api[n].spec
  <2>1. PICK r \in RowOf(id) : r.spec = api[n].spec
    BY <1>3 DEF SyncedRowMatches, Now, Ready
  <2> QED
    BY <2>1, RowIds DEF IInv
<1>4. CASE Rewritten /\ id # job.obj.status.id
  BY <1>3, <1>4, RewrittenRow
<1>5. CASE ~Rewritten
  <2>1. id \notin disturbed
    BY <1>5 DEF Served, Kept, Inserted, Overwritten, Removed, Lost
  <2> QED
    BY <1>1, <1>3, <1>5, <2>1, ServedRow
<1> QED
  BY <1>2, <1>4, <1>5

LEMMA MovedMatches ==
    ASSUME TypeOK, Observed, Saved, SyncedRowMatches, NEW m \in Names, Moved(m)
    PROVE  SyncedRowMatches'
<1> SUFFICES ASSUME NEW n \in Names, Now(api'[n]), api'[n].status.id \notin disturbed
             PROVE  \E r \in RowOf(api'[n].status.id) : r.spec = api'[n].spec
  BY DEF SyncedRowMatches, Moved, serverVars, Now, Ready, RowOf
<1>1. CASE n # m
  BY <1>1 DEF Moved, SyncedRowMatches, Now, Ready
<1>2. CASE n = m /\ Guarded(n) /\ Now(api[n])
  BY <1>2 DEF Guarded, SameSpec, SyncedRowMatches, Now, Ready
<1>3. CASE n = m /\ SuccessNoted(n)
  BY <1>3 DEF SuccessNoted, SameSpec, Saved
<1> QED
  BY <1>1, <1>2, <1>3, MovedNow

(***************************************************************************)
(* The invariant.                                                          *)
(***************************************************************************)
LEMMA InitSync == Init => SInv
<1> SUFFICES ASSUME Init PROVE SInv
  OBVIOUS
<1>1. IInv
  BY InitInv
<1>2. /\ cache = api /\ pc = "idle" /\ rows = {} /\ late = {}
      /\ \A n \in Names : pending[n] = <<>>
  BY DEF Init, KubeInit
<1>3. \A n \in Names : ~api[n].exists /\ ~api[n].deleting /\ api[n].status = NoStatus
  BY DEF Init, KubeInit, NeverCreated
<1>4. \A n \in Names : \A o \in CopiesOf(n) : o = api[n]
  BY <1>2 DEF CopiesOf
<1>5. \A n \in Names, id \in Ids : ~Claims(n, id)
  BY <1>2, <1>3, <1>4, ResourceAssumption DEF Claims, Named, NoStatus
<1>6. \A id \in Ids : ~Doomed(id)
  BY <1>2, <1>3, <1>4 DEF Doomed
<1> QED
  BY <1>1, <1>2, <1>3, <1>5, <1>6
  DEF SInv, Unshared, DoomedDead, Fresh, PushLive, Observed, NowSeen, Saved,
      SyncedRowMatches, Now, PushSteps

LEMMA NextSync == SInv /\ [Next]_vars => SInv'
<1> SUFFICES ASSUME SInv, [Next]_vars PROVE SInv'
  OBVIOUS
<1>1. IInv' /\ TypeOK /\ TypeOK'
  BY NextInv DEF SInv, IInv
<1>2. CopiesGrow /\ JobMoves /\ PushLive'
  BY NextCopies, NextJob, NextPushLive DEF SInv, IInv
<1>3. CASE Served
  <2>1. Unshared' /\ DoomedDead' /\ Fresh'
    BY <1>2, <1>3, ServedClaims, UnsharedStep, ServedDoomedDead, ServedFresh DEF SInv, IInv
  <2>2. Observed' /\ NowSeen' /\ Saved' /\ SyncedRowMatches'
    <3>1. Observed'
      BY <1>3 DEF SInv, Observed, Served
    <3> QED
      BY <1>2, <1>3, <3>1, ServedNowSeen, ServedSaved, ServedMatches DEF SInv
  <2> QED
    BY <1>1, <1>2, <2>1, <2>2 DEF SInv
<1>4. ASSUME NEW m \in Names, Moved(m) PROVE SInv'
  <2>1. Unshared' /\ DoomedDead' /\ Fresh'
    BY <1>2, <1>4, MovedClaims, UnsharedStep, MovedDoomedDead, MovedFresh DEF SInv
  <2>2. Observed' /\ NowSeen' /\ Saved' /\ SyncedRowMatches'
    BY <1>1, <1>2, <1>4, MovedObserved, MovedNowSeen, MovedSaved, MovedMatches DEF SInv
  <2> QED
    BY <1>1, <1>2, <2>1, <2>2 DEF SInv
<1> QED
  BY <1>3, <1>4, InvBasis, NextServes DEF SInv

\* In every reachable state an ID belongs to one object, a record that may still be
\* deleted is of no live object, and Ready is true: what SInv adds to IInv.
THEOREM SyncInvariance == Spec => []SInv
<1>1. Init => SInv
  BY InitSync
<1>2. SInv /\ [Next]_vars => SInv'
  BY NextSync
<1> QED
  BY <1>1, <1>2, PTL DEF Spec

\* Ready=True for the current generation is the truth about the record, for any
\* number of objects, edits, faults and late requests, unless a late request or a
\* stranger changed that record.
THEOREM ReadyIsTrue == Spec => []SyncedRowMatches
<1>1. SInv => SyncedRowMatches
  BY DEF SInv
<1> QED
  BY <1>1, SyncInvariance, PTL

(***************************************************************************)
(* The records of live objects.                                            *)
(***************************************************************************)
RowsKept ==
    \A n \in Names, r \in rows :
       api[n].exists /\ ~api[n].deleting /\ api[n].status.id = r.id
          => ByStranger(r.id) \/ \E q \in rows' : q.id = r.id

LEMMA NextKeepsRows == SInv /\ [Next]_vars => RowsKept
<1> SUFFICES ASSUME SInv, [Next]_vars, NEW n \in Names, NEW r \in rows,
                    api[n].exists, ~api[n].deleting, api[n].status.id = r.id
             PROVE  ByStranger(r.id) \/ \E q \in rows' : q.id = r.id
  BY DEF RowsKept
<1>1. r.id \in Ids /\ r \in RowOf(r.id) /\ Live(api[n]) /\ Claims(n, r.id)
  BY InCopies DEF SInv, IInv, TypeOK, RowOf, Live, Claims, Named
<1>2. CASE Rewritten
  <2>1. RowOf(r.id)' # {}
    BY <1>1, <1>2, RewrittenRow DEF SInv
  <2> QED
    BY <2>1 DEF RowOf
<1>3. CASE Served /\ ~Rewritten
  BY <1>1, <1>3, ServedStays DEF SInv, RowOf
<1>4. CASE \E m \in Names : Moved(m)
  BY <1>4 DEF Moved, serverVars
<1> QED
  BY <1>2, <1>3, <1>4, InvBasis, NextServes DEF SInv

\* The operator never deletes the record of an object nobody asked to delete, from
\* however old a copy it works and however late a request is served: where strangers
\* do not, nobody does.
THEOREM LiveRowsAreKept == Spec => LiveRowNeverDeleted
<1>1. SInv /\ [Next]_vars => RowsKept
  BY NextKeepsRows
<1>2. Spec => [][RowsKept]_vars
  BY <1>1, SyncInvariance, PTL DEF Spec
<1> QED
  BY <1>2 DEF LiveRowNeverDeleted, RowsKept

(***************************************************************************)
(* What an ID says once it is known: the record under it is gone, or its   *)
(* object is there and names it.  Whoever reads an ID from any copy of n,  *)
(* and keeps it for however long, may rely on that.                        *)
(***************************************************************************)
Settled(n, id) == RowOf(id) = {} \/ (api[n].exists /\ api[n].status.id = id)

CopiesSettled ==
    \A n \in Names : \A o \in CopiesOf(n) : o.status.id # NoId => Settled(n, o.status.id)

LEMMA SettledKept ==
    ASSUME SInv, [Next]_vars, NEW n \in Names, NEW id \in used, Settled(n, id)
    PROVE  Settled(n, id)'
<1>1. CASE Served
  BY <1>1, RowStaysAway DEF SInv, IInv, Settled, Served
<1>2. ASSUME NEW m \in Names, Moved(m) PROVE Settled(n, id)'
  <2>1. rows' = rows
    BY <1>2 DEF Moved, serverVars
  <2>2. CASE RowOf(id) = {}
    BY <2>1, <2>2 DEF Settled, RowOf
  <2>3. CASE api[n].exists /\ api[n].status.id = id
    <3>1. id # NoId
      BY ResourceAssumption DEF SInv, IInv, TypeOK
    <3>2. CASE api'[n].exists
      BY <2>3, <3>1, <3>2, NextKeepsId DEF Settled, IdKept, SInv
    <3>3. CASE ~api'[n].exists
      <4>1. api'[n].status.id = id
        BY <1>2, <2>3, <3>1, <3>3 DEF Moved, Created, Edited, Marked, Vanished, Finished,
           Guarded, FailureNoted, SuccessNoted, SameSpec, Live
      <4>2. IInv'
        BY NextInv DEF SInv
      <4> QED
        BY <3>1, <3>3, <4>1, <4>2 DEF IInv, ObjectInv, RecordedRowRemoved, Settled
    <3> QED
      BY <3>2, <3>3
  <2> QED
    BY <2>2, <2>3 DEF Settled
<1> QED
  BY <1>1, <1>2, InvBasis, NextServes DEF SInv

LEMMA CopiesKnown ==
    ASSUME IInv, NEW n \in Names, NEW o \in CopiesOf(n)
    PROVE  o.status.id \in used \cup {NoId}
  BY InCopies DEF IInv, ObjectInv, IdsKnown, JobOK, Known

LEMMA NextSettles == SInv /\ CopiesSettled /\ [Next]_vars => CopiesSettled'
<1> SUFFICES ASSUME SInv, CopiesSettled, [Next]_vars,
                    NEW n \in Names, NEW o \in CopiesOf(n)', o.status.id # NoId
             PROVE  Settled(n, o.status.id)'
  BY DEF CopiesSettled
<1>1. CASE o \in CopiesOf(n)
  <2>1. o.status.id \in used
    BY <1>1, CopiesKnown DEF SInv
  <2> QED
    BY <1>1, <2>1, SettledKept DEF CopiesSettled
<1>2. CASE o = api'[n]
  <2>1. IInv'
    BY NextInv DEF SInv
  <2> QED
    BY <1>2, <2>1 DEF IInv, ObjectInv, RecordedRowRemoved, Settled
<1> QED
  BY <1>1, <1>2, NextCopies DEF CopiesGrow, SInv, IInv

\* An ID that was handed out stays so.
LEMMA UsedGrows == SInv /\ [Next]_vars => used \subseteq used'
<1>1. ASSUME NEW m \in Names, Moved(m) PROVE used' = used
  BY <1>1 DEF Moved, serverVars
<1>2. CASE Served
  BY <1>2 DEF Served, Kept, Inserted, Overwritten, Rewritten, Removed, Lost
<1> QED
  BY <1>1, <1>2, InvBasis, NextServes DEF SInv

\* The count of faults is of no matter to the invariants.
LEMMA FaultsAside ==
    ASSUME SInv, CopiesSettled, UNCHANGED <<kubeVars, pc, job, serverVars, secretVars>>,
           faults' \in Nat
    PROVE  SInv' /\ CopiesSettled'
<1>1. TypeOK'
  BY DEF SInv, IInv, TypeOK, kubeVars, serverVars, secretVars
<1>2. /\ UNCHANGED <<api, cache, pending, pc, job, rows, used, late, disturbed>>
      /\ \A id : RowOf(id)' = RowOf(id)
      /\ \A n : CopiesOf(n)' = CopiesOf(n)
  BY DEF kubeVars, serverVars, RowOf, CopiesOf
<1>3. IInv'
  <2>1. ObjectInv'
    <3>1. RecordedRowRemoved'
      BY <1>2 DEF SInv, IInv, ObjectInv, RecordedRowRemoved
    <3> QED
      BY <1>2, <3>1 DEF SInv, IInv, ObjectInv, Copies, Ordered, HeldCopies, IdsKnown, Known,
         IdUnderFinalizer, IsCopy, Held
  <2>3. JobOK'
    BY <1>2 DEF SInv, IInv, JobOK, IsCopy, Known, Held
  <2> QED
    BY <1>1, <2>1, <2>3 DEF IInv
<1>4. Unshared' /\ DoomedDead' /\ Fresh' /\ PushLive'
  BY <1>2 DEF SInv, Unshared, Claims, Named, DoomedDead, Dead, Doomed, Live, Fresh, PushLive
<1>5. Observed' /\ NowSeen' /\ Saved' /\ SyncedRowMatches'
  BY <1>2 DEF SInv, Observed, NowSeen, Now, Saved, SyncedRowMatches
<1>6. CopiesSettled'
  BY <1>2 DEF CopiesSettled, Settled
<1> QED
  BY <1>3, <1>4, <1>5, <1>6 DEF SInv

-----------------------------------------------------------------------------
(***************************************************************************)
(* What RecordSync sees of a state.                                        *)
(***************************************************************************)
KnownId(o) == IF o.exists THEN o.status.id ELSE NoId

PhaseNow == [n \in Names |-> Phase(api[n])]

KnownNow == [n \in Names |-> KnownId(api[n])]

RecordOf(r) == [id |-> r.id, owner |-> r.owner]

RecordsNow == {RecordOf(r) : r \in rows}

Unseen == UNCHANGED <<PhaseNow, KnownNow, RecordsNow, used>>

LEMMA UnseenStutters ==
    ASSUME Unseen
    PROVE  UNCHANGED Promise!vars
  BY Zenon DEF Unseen, PhaseNow, KnownNow, KnownId, RecordsNow, RecordOf, Promise!vars

LEMMA MovedSeen ==
    ASSUME NEW m \in Names, \A n \in Names \ {m} : api'[n] = api[n], UNCHANGED serverVars
    PROVE  /\ PhaseNow' = [PhaseNow EXCEPT ![m] = Phase(api'[m])]
           /\ KnownNow' = [KnownNow EXCEPT ![m] = KnownId(api'[m])]
           /\ RecordsNow' = RecordsNow /\ used' = used
<1>1. RecordsNow' = RecordsNow /\ used' = used
  BY DEF RecordsNow, serverVars
<1>2. PhaseNow' = [PhaseNow EXCEPT ![m] = Phase(api'[m])]
  BY DEF PhaseNow, Phase
<1>3. KnownNow' = [KnownNow EXCEPT ![m] = KnownId(api'[m])]
  BY DEF KnownNow
<1> QED
  BY <1>1, <1>2, <1>3

\* The records of an ID.
LEMMA RecordsOf ==
    ASSUME NEW id
    PROVE  /\ {x \in RecordsNow : x.id = id} = {RecordOf(r) : r \in RowOf(id)}
           /\ RowOf(id) = {} => {x \in RecordsNow : x.id = id} = {}
  BY DEF RecordsNow, RecordOf, RowOf

LEMMA RemovedRecords ==
    ASSUME NEW id, Remove(id)
    PROVE  RecordsNow' = RecordsNow \ {x \in RecordsNow : x.id = id}
  BY DEF RecordsNow, RecordOf, RowOf, Remove

\* A record that is written again is of the same object.
LEMMA ReplacedRecords ==
    ASSUME NEW r, RowOf(r.id) # {}, \A x \in RowOf(r.id) : x.owner = r.owner, Replace(r)
    PROVE  RecordsNow' = RecordsNow
<1>1. \A x \in RowOf(r.id) : RecordOf(x) = RecordOf(r)
  BY DEF RecordOf, RowOf
<1> QED
  BY <1>1 DEF RecordsNow, Replace, RowOf

(***************************************************************************)
(* The actions of RecordSync, of what it sees.                             *)
(***************************************************************************)
LEMMA PromiseActions ==
    ASSUME NEW n \in Names
    PROVE  /\ PhaseNow[n] = "absent" /\ PhaseNow' = [PhaseNow EXCEPT ![n] = "live"]
                /\ UNCHANGED <<KnownNow, RecordsNow, used>>
              => Promise!Create(n)
           /\ PhaseNow[n] = "live" /\ PhaseNow' = [PhaseNow EXCEPT ![n] = "deleting"]
                /\ UNCHANGED <<KnownNow, RecordsNow, used>>
              => Promise!Mark(n)
           /\ PhaseNow[n] = "live" /\ KnownNow[n] = NoId
                /\ PhaseNow' = [PhaseNow EXCEPT ![n] = "absent"]
                /\ UNCHANGED <<KnownNow, RecordsNow, used>>
              => Promise!Vanish(n)
           /\ PhaseNow[n] = "deleting"
                /\ {x \in RecordsNow : x.id = KnownNow[n]} = {}
                /\ PhaseNow' = [PhaseNow EXCEPT ![n] = "absent"]
                /\ KnownNow' = [KnownNow EXCEPT ![n] = NoId]
                /\ UNCHANGED <<RecordsNow, used>>
              => Promise!Finish(n)
           /\ PhaseNow[n] = "deleting"
                /\ RecordsNow' = RecordsNow \ {x \in RecordsNow : x.id = KnownNow[n]}
                /\ UNCHANGED <<PhaseNow, KnownNow, used>>
              => Promise!Erase(n)
  BY Zenon DEF PhaseNow, KnownNow, KnownId, RecordsNow, RecordOf,
     Promise!Create, Promise!Mark, Promise!Vanish, Promise!Finish, Promise!Erase, Promise!Of

LEMMA PromiseAppears ==
    ASSUME NEW n \in Names, NEW id \in Ids, id \notin used,
           RecordsNow' = RecordsNow \cup {[id |-> id, owner |-> n]},
           used' = used \cup {id},
           UNCHANGED <<PhaseNow, KnownNow>>
    PROVE  Promise!Appear(n, id)
<1>1. id \in Ids \ used
  OBVIOUS
<1> QED
  BY <1>1, Zenon DEF PhaseNow, KnownNow, KnownId, RecordsNow, RecordOf, Promise!Appear

LEMMA PromiseRecords ==
    ASSUME NEW n \in Names, NEW id \in Ids, id \in used,
           PhaseNow[n] = "live", KnownNow[n] = NoId,
           \A m \in Names : KnownNow[m] # id,
           \A x \in {y \in RecordsNow : y.id = id} : x.owner = n,
           KnownNow' = [KnownNow EXCEPT ![n] = id],
           UNCHANGED <<PhaseNow, RecordsNow, used>>
    PROVE  Promise!Record(n, id)
  BY Zenon DEF PhaseNow, KnownNow, KnownId, RecordsNow, RecordOf, Promise!Record, Promise!Of

LEMMA PromiseLoses ==
    ASSUME NEW id \in Ids, OutOfBand,
           RecordsNow' = RecordsNow \ {x \in RecordsNow : x.id = id},
           UNCHANGED <<PhaseNow, KnownNow, used>>
    PROVE  Promise!Lose(id)
  BY Zenon DEF PhaseNow, KnownNow, KnownId, RecordsNow, RecordOf, Promise!Lose, Promise!Of

(***************************************************************************)
(* The steps.                                                              *)
(***************************************************************************)
LEMMA SeenTypes ==
    ASSUME NEW n \in Names
    PROVE  /\ PhaseNow[n] = Phase(api[n])
           /\ KnownNow[n] = KnownId(api[n])
           /\ [PhaseNow EXCEPT ![n] = PhaseNow[n]] = PhaseNow
           /\ [KnownNow EXCEPT ![n] = KnownNow[n]] = KnownNow
  BY DEF PhaseNow, KnownNow

LEMMA MovedImplements ==
    ASSUME TypeOK, Unshared, Fresh, NEW m \in Names, Moved(m)
    PROVE  Promise!Next \/ Unseen
<1>1. /\ PhaseNow' = [PhaseNow EXCEPT ![m] = Phase(api'[m])]
      /\ KnownNow' = [KnownNow EXCEPT ![m] = KnownId(api'[m])]
      /\ RecordsNow' = RecordsNow /\ used' = used
      /\ PhaseNow[m] = Phase(api[m]) /\ KnownNow[m] = KnownId(api[m])
      /\ [PhaseNow EXCEPT ![m] = PhaseNow[m]] = PhaseNow
      /\ [KnownNow EXCEPT ![m] = KnownNow[m]] = KnownNow
  BY MovedSeen, SeenTypes DEF Moved
<1>2. CASE Phase(api'[m]) = Phase(api[m]) /\ KnownId(api'[m]) = KnownId(api[m])
  BY <1>1, <1>2 DEF Unseen
<1>3. CASE Created(m)
  <2>1. /\ Phase(api[m]) = "absent" /\ Phase(api'[m]) = "live"
        /\ KnownId(api'[m]) = KnownId(api[m])
    BY <1>3 DEF Created, Live, Phase, KnownId, NoStatus
  <2>2. Promise!Create(m)
    BY <1>1, <2>1, PromiseActions
  <2> QED
    BY <2>2 DEF Promise!Next
<1>4. CASE Marked(m)
  <2>1. /\ Phase(api[m]) = "live" /\ Phase(api'[m]) = "deleting"
        /\ KnownId(api'[m]) = KnownId(api[m])
    BY <1>4 DEF Marked, Live, Phase, KnownId
  <2>2. Promise!Mark(m)
    BY <1>1, <2>1, PromiseActions
  <2> QED
    BY <2>2 DEF Promise!Next
<1>5. CASE Vanished(m)
  <2>1. /\ Phase(api[m]) = "live" /\ Phase(api'[m]) = "absent"
        /\ KnownId(api[m]) = NoId /\ KnownId(api'[m]) = KnownId(api[m])
    BY <1>5 DEF Vanished, Live, Phase, KnownId
  <2>2. Promise!Vanish(m)
    BY <1>1, <2>1, PromiseActions
  <2> QED
    BY <2>2 DEF Promise!Next
<1>6. CASE Finished(m)
  <2>1. /\ Phase(api[m]) = "deleting" /\ Phase(api'[m]) = "absent"
        /\ KnownId(api'[m]) = NoId
        /\ {x \in RecordsNow : x.id = KnownId(api[m])} = {}
    BY <1>6, RecordsOf DEF Finished, Phase, KnownId
  <2>2. Promise!Finish(m)
    BY <1>1, <2>1, PromiseActions
  <2> QED
    BY <2>2 DEF Promise!Next
<1>7. CASE Edited(m) \/ Guarded(m) \/ FailureNoted(m)
  BY <1>2, <1>7 DEF Edited, Guarded, FailureNoted, SameSpec, Phase, KnownId
<1>8. CASE SuccessNoted(m)
  <2>1. /\ Phase(api[m]) = "live" /\ Phase(api'[m]) = "live"
        /\ KnownId(api[m]) = api[m].status.id /\ KnownId(api'[m]) = job.id
    BY <1>8 DEF SuccessNoted, SameSpec, Live, Phase, KnownId
  <2>2. CASE job.id = api[m].status.id
    BY <1>2, <2>1, <2>2
  <2>3. CASE job.id # api[m].status.id
    <3>1. api[m].status.id = NoId /\ job.obj.status.id = NoId /\ pc = "reportSynced"
      BY <1>8, <2>3 DEF SuccessNoted
    <3>2. job.id \in Ids /\ job.id \in used
      <4>1. job.id \in Ids
        BY <2>3, <3>1 DEF TypeOK, Job
      <4>2. Claims(m, job.id)
        BY <1>8 DEF SuccessNoted, Claims
      <4> QED
        BY <4>1, <4>2 DEF Unshared
    <3>3. \A n \in Names : KnownNow[n] # job.id
      <4> SUFFICES ASSUME NEW n \in Names PROVE KnownId(api[n]) # job.id
        BY SeenTypes
      <4>1. api[n].status.id # job.id
        BY <3>1, <3>2, InCopies DEF Fresh, Named
      <4> QED
        BY <3>2, <4>1, ResourceAssumption DEF KnownId
    <3>4. \A r \in RowOf(job.id) : r.owner = m
      <4> SUFFICES ASSUME NEW r \in RowOf(job.id) PROVE r.owner = m
        OBVIOUS
      <4>1. r.owner \in Names /\ Claims(r.owner, job.id)
        BY DEF TypeOK, Row, RowOf, Claims
      <4>2. Claims(m, job.id)
        BY <1>8 DEF SuccessNoted, Claims
      <4> QED
        BY <3>2, <4>1, <4>2 DEF Unshared
    <3>5. \A x \in {y \in RecordsNow : y.id = job.id} : x.owner = m
      BY <3>4, RecordsOf DEF RecordOf
    <3>6. PhaseNow' = PhaseNow
      BY <1>1, <2>1
    <3>7. PICK id \in Ids : id = job.id
      BY <3>2
    <3>8. Promise!Record(m, id)
      BY <1>1, <2>1, <3>1, <3>2, <3>3, <3>5, <3>6, <3>7, PromiseRecords, ZenonT(60)
    <3> QED
      BY <3>8 DEF Promise!Next
  <2> QED
    BY <2>2, <2>3
<1> QED
  BY <1>3, <1>4, <1>5, <1>6, <1>7, <1>8 DEF Moved

LEMMA ServedImplements ==
    ASSUME TypeOK, Unshared, DoomedDead, Served
    PROVE  Promise!Next \/ Unseen
<1>1. PhaseNow' = PhaseNow /\ KnownNow' = KnownNow
  BY DEF Served, PhaseNow, KnownNow
<1>2. ASSUME NEW r \in Row, Inserted(r) PROVE Promise!Next
  <2>1. /\ RecordsNow' = RecordsNow \cup {[id |-> r.id, owner |-> r.owner]}
        /\ r.id \in Ids /\ r.id \notin used /\ used' = used \cup {r.id}
        /\ r.owner \in Names
    BY <1>2 DEF Inserted, RecordsNow, RecordOf, Row
  <2>2. Promise!Appear(r.owner, r.id)
    BY <1>1, <2>1, PromiseAppears
  <2> QED
    BY <2>1, <2>2 DEF Promise!Next
<1>3. ASSUME NEW r \in Row, Replace(r), RowOf(r.id) # {}, Claims(r.owner, r.id), used' = used
      PROVE  Unseen
  <2>1. r.id \in Ids /\ r.owner \in Names
    BY <1>3, RowIds DEF Row
  <2>2. \A x \in RowOf(r.id) : x.owner \in Names /\ Claims(x.owner, r.id)
    BY DEF TypeOK, Row, RowOf, Claims
  <2>3. \A x \in RowOf(r.id) : x.owner = r.owner
    BY <1>3, <2>1, <2>2 DEF Unshared
  <2> QED
    BY <1>1, <1>3, <2>3, ReplacedRecords DEF Unseen
<1>4. ASSUME NEW q \in late, Overwritten(q) PROVE Unseen
  BY <1>3, <1>4, LateTypes DEF Overwritten, Claims
<1>5. CASE Rewritten
  BY <1>3, <1>5, JobRowTypes, JobClaims DEF Rewritten, JobSaved
<1>6. ASSUME NEW id \in Ids \cup {NoId}, Removed(id) PROVE Promise!Next \/ Unseen
  <2>1. RecordsNow' = RecordsNow \ {x \in RecordsNow : x.id = id} /\ used' = used
    BY <1>6, RemovedRecords DEF Removed
  <2>2. CASE RowOf(id) = {}
    BY <1>1, <2>1, <2>2, RecordsOf DEF Unseen
  <2>3. CASE RowOf(id) # {}
    <3>1. PICK n \in Names : api[n].exists /\ api[n].deleting /\ api[n].status.id = id
      BY <1>6, <2>3, RowIds DEF Removed, DoomedDead, Dead
    <3>2. PhaseNow[n] = "deleting" /\ KnownNow[n] = id
      BY <3>1, SeenTypes DEF Phase, KnownId
    <3>3. Promise!Erase(n)
      BY <1>1, <2>1, <3>2, PromiseActions
    <3> QED
      BY <3>3 DEF Promise!Next
  <2> QED
    BY <2>2, <2>3
<1>7. ASSUME NEW id \in Ids, Lost(id) PROVE Promise!Next
  <2>1. /\ RecordsNow' = RecordsNow \ {x \in RecordsNow : x.id = id} /\ used' = used
        /\ OutOfBand
    BY <1>7, RemovedRecords DEF Lost
  <2>2. Promise!Lose(id)
    BY <1>1, <2>1, PromiseLoses
  <2> QED
    BY <2>2 DEF Promise!Next
<1>8. CASE Kept
  BY <1>1, <1>8 DEF Kept, Unseen, RecordsNow
<1> QED
  BY <1>2, <1>4, <1>5, <1>6, <1>7, <1>8 DEF Served

LEMMA InitImplements == Init => Promise!Init
<1> SUFFICES ASSUME Init PROVE Promise!Init
  OBVIOUS
<1>1. \A n \in Names : ~api[n].exists
  BY DEF Init, KubeInit, NeverCreated
<1>2. rows = {} /\ used = {}
  BY DEF Init
<1>3. /\ [n \in Names |-> Phase(api[n])] = [n \in Names |-> "absent"]
      /\ [n \in Names |-> IF api[n].exists THEN api[n].status.id ELSE NoId]
            = [n \in Names |-> NoId]
  BY <1>1 DEF Phase
<1>4. {[id |-> r.id, owner |-> r.owner] : r \in rows} = {}
  BY <1>2
<1> QED
  BY <1>2, <1>3, <1>4, Zenon DEF Promise!Init

LEMMA NextImplements == SInv /\ [Next]_vars => [Promise!Next]_Promise!vars
<1> SUFFICES ASSUME SInv, [Next]_vars PROVE Promise!Next \/ Unseen
  BY UnseenStutters
<1> QED
  BY InvBasis, NextServes, ServedImplements, MovedImplements DEF SInv, IInv

\* The reconcile loop implements RecordSync, for any number of objects, edits and
\* faults: an object only comes to name a record of its own, keeps it until it is
\* being deleted, and is gone only after it; only such a record is deleted.
THEOREM ResourceImplementsSync == Spec => Implements
<1>1. Init => Promise!Init
  BY InitImplements
<1>2. SInv /\ [Next]_vars => [Promise!Next]_Promise!vars
  BY NextImplements
<1> QED
  BY <1>1, <1>2, SyncInvariance, PTL DEF Spec, Implements, Promise!Spec

-----------------------------------------------------------------------------
(***************************************************************************)
(* The loop does not feed itself.  Every version of an object is paid for: *)
(* an edit brings three, a fault two, and what the loop still has to write *)
(* for an object, Due, is part of what has been paid and not yet spent.    *)
(***************************************************************************)
\* The reads of a pass that began now would fail.
Unresolved(n) ==
    \/ api[n].spec \in Incomplete
    \/ api[n].spec \notin NoRef /\ secretSeen[n] = NoCred

\* What a save under this ID would be answered.
Savable(id) == IF id = NoId THEN used # Ids ELSE RowOf(id) # {}

SaveResult(id) == IF Savable(id) THEN "Synced" ELSE "APISyncFailed"

\* The worker is at work on the present version of n.
At(n) == pc # "idle" /\ job.key = n /\ job.obj.rv = api[n].rv

\* The ID of n after this pass, and what the pass after it would report.
IdAhead(n) == IF At(n) /\ pc = "reportSynced" THEN job.id ELSE api[n].status.id

Expected(n) ==
    IF Unresolved(n) THEN "SecretResolutionFailed" ELSE SaveResult(IdAhead(n))

\* What this pass will report.
Outcome(n) ==
    IF At(n) /\ pc = "save" THEN SaveResult(job.obj.status.id)
    ELSE IF At(n) /\ pc = "reportFailed" THEN job.reason
    ELSE IF At(n) /\ pc = "reportSynced" THEN "Synced"
    ELSE Expected(n)

Says(n, reason) == api[n].status.reason = reason /\ api[n].status.condGen = api[n].gen

\* The writes from the present report to the outcome, and from there to what is
\* expected.
Path(n, outcome, expected) ==
    (IF Says(n, outcome) THEN 0 ELSE 1) + (IF outcome = expected THEN 0 ELSE 1)

Due(n) ==
    IF ~api[n].exists THEN 0
    ELSE IF api[n].deleting THEN 1
    ELSE IF ~api[n].finalizer THEN 2
    ELSE Path(n, Outcome(n), Expected(n))

\* A Secret that came or went, and the cache does not know it yet.
SecretDue(n) == IF (secret[n] = NoCred) = (secretSeen[n] = NoCred) THEN 0 ELSE 1

Spent(n) == api[n].rv + Due(n) + SecretDue(n)

\* Ready names the record, and speaks of the generation it was observed for.
ReadyNamed ==
    \A n \in Names : Ready(api[n]) =>
       api[n].status.id # NoId /\ api[n].status.obsGen = api[n].status.condGen

JobSays ==
    /\ pc = "addFinalizer" => ~job.obj.finalizer /\ ~job.obj.deleting
    /\ pc = "readSecond" => job.obj.spec \notin NoRef \cup Incomplete
    /\ pc = "reportSynced" => job.id # NoId

WInv ==
    /\ SInv
    /\ ReadyNamed
    /\ JobSays
    /\ \A n \in Names : Spent(n) <= 3 * edits + 2 * faults

(***************************************************************************)
(* How a step pays.                                                        *)
(***************************************************************************)
Free == UNCHANGED <<edits, faults>> /\ \A n \in Names : Spent(n)' <= Spent(n)

PaidByEdit ==
    edits' = edits + 1 /\ faults' = faults /\ \A n \in Names : Spent(n)' <= Spent(n) + 3

PaidByFault ==
    faults' = faults + 1 /\ edits' = edits /\ \A n \in Names : Spent(n)' <= Spent(n) + 2

LEMMA DueBounds ==
    ASSUME NEW n \in Names
    PROVE  Due(n) \in 0..2 /\ SecretDue(n) \in 0..1
  BY DEF Due, Path, SecretDue

LEMMA SpentTypes ==
    ASSUME KubeTypeOK, NEW n \in Names
    PROVE  api[n].rv \in Nat /\ Spent(n) \in Nat
  BY VersionTypes, DueBounds DEF Spent

LEMMA Payments ==
    ASSUME WInv, TypeOK', Free \/ PaidByEdit \/ PaidByFault
    PROVE  \A n \in Names : Spent(n)' <= 3 * edits' + 2 * faults'
<1> TAKE n \in Names
<1>1. edits \in Nat /\ faults \in Nat
  BY DEF WInv, SInv, IInv, TypeOK
<1>2. Spent(n) \in Nat /\ Spent(n)' \in Nat
  <2>1. KubeTypeOK /\ KubeTypeOK'
    BY TypeParts DEF WInv, SInv, IInv, KubeTypeOK, TypeOK
  <2>2. Due(n)' \in 0..2 /\ SecretDue(n)' \in 0..1
    BY DEF Due, Path, SecretDue
  <2>3. api'[n].rv \in Nat
    BY <2>1 DEF KubeTypeOK, Object, ObjectsWith
  <2> QED
    BY <2>1, <2>2, <2>3, SpentTypes DEF Spent
<1>3. Spent(n) <= 3 * edits + 2 * faults
  BY DEF WInv
<1> QED
  BY <1>1, <1>2, <1>3 DEF Free, PaidByEdit, PaidByFault

\* An edit may add a version and ask for two more writes, or it changes a Secret.
LEMMA EditPays ==
    ASSUME WInv, NEW m \in Names, User(m)
    PROVE  PaidByEdit
<1>0. IInv /\ KubeTypeOK
  BY TypeParts DEF WInv, SInv, IInv
<1>1. edits' = edits + 1 /\ faults' = faults /\ secretSeen' = secretSeen
  BY DEF User, SetSecret, CreateObject, EditSpec, DeleteObject, secretVars
<1> SUFFICES ASSUME NEW n \in Names PROVE Spent(n)' <= Spent(n) + 3
  BY <1>1 DEF PaidByEdit
<1>2. /\ api[n].rv \in Nat /\ Due(n) \in 0..2 /\ SecretDue(n) \in 0..1
      /\ Due(n)' \in 0..2 /\ SecretDue(n)' \in 0..1
  BY <1>0, VersionTypes DEF Due, Path, SecretDue
<1>3. CASE \E c \in Creds \cup {NoCred} : SetSecret(m, c)
  BY <1>2, <1>3 DEF SetSecret, Spent
<1>4. CASE UNCHANGED secretVars
  <2>1. api'[n].rv = api[n].rv \/ api'[n].rv = api[n].rv + 1
    BY <1>0, InvBasis, UserMoves DEF Moved, WInv, SInv
  <2>2. SecretDue(n)' = SecretDue(n)
    BY <1>4 DEF SecretDue, secretVars
  <2> QED
    BY <1>2, <2>1, <2>2 DEF Spent
<1> QED
  BY <1>3, <1>4 DEF User

\* A fault adds no version, and asks for two writes at most.
LEMMA FaultPays ==
    ASSUME WInv, CallFails \/ KubeWriteFails \/ Restart \/ \E id \in Ids : RemoveOutOfBand(id)
    PROVE  PaidByFault
<1>0. KubeTypeOK
  BY TypeParts DEF WInv, SInv, IInv
<1>1. faults' = faults + 1 /\ edits' = edits /\ api' = api /\ secret' = secret
  BY DEF CallFails, KubeWriteFails, Restart, RemoveOutOfBand, Fault, Relist, kubeVars,
     kubeButDelayed, secretVars
<1>2. secretSeen' \in {secret, secretSeen}
  BY DEF CallFails, KubeWriteFails, Restart, RemoveOutOfBand, secretVars
<1> SUFFICES ASSUME NEW n \in Names PROVE Spent(n)' <= Spent(n) + 2
  BY <1>1 DEF PaidByFault
<1>3. /\ api[n].rv \in Nat /\ Due(n) \in 0..2 /\ SecretDue(n) \in 0..1
      /\ Due(n)' \in 0..2
  BY <1>0, VersionTypes DEF Due, Path, SecretDue
<1>4. SecretDue(n)' <= SecretDue(n)
  BY <1>1, <1>2 DEF SecretDue
<1>5. SecretDue(n)' \in 0..1
  BY DEF SecretDue
<1> QED
  BY <1>1, <1>3, <1>4, <1>5 DEF Spent

(***************************************************************************)
(* What costs nothing.                                                     *)
(***************************************************************************)
\* What n says, its pass and what it may expect stay as they are.
LEMMA SameDue ==
    ASSUME NEW n \in Names, api'[n] = api[n],
           Outcome(n)' = Outcome(n), Expected(n)' = Expected(n)
    PROVE  Due(n)' = Due(n)
  BY DEF Due, Path, Says

\* Once the pass on n is over, or has nothing to say yet.
LEMMA NoPass ==
    ASSUME NEW n \in Names,
           ~At(n) \/ pc \notin {"save", "reportFailed", "reportSynced"}
    PROVE  Outcome(n) = Expected(n) /\ IdAhead(n) = api[n].status.id
  BY DEF Outcome, IdAhead

LEMMA EndOfPass ==
    ASSUME NEW n \in Names, api'[n] = api[n], UNCHANGED <<rows, used, secretSeen>>,
           ~At(n) \/ pc \notin {"save", "reportFailed", "reportSynced"} \/ ~api[n].exists,
           ~At(n)' \/ pc' \notin {"save", "reportFailed", "reportSynced"}
    PROVE  Due(n)' = Due(n)
<1>1. CASE ~api[n].exists
  BY <1>1 DEF Due
<1>2. CASE api[n].exists
  <2>1. Outcome(n) = Expected(n) /\ IdAhead(n) = api[n].status.id
    BY <1>2, NoPass
  <2>2. Outcome(n)' = Expected(n)' /\ IdAhead(n)' = api[n].status.id
    BY DEF Outcome, IdAhead
  <2>3. Expected(n)' = Expected(n)
    BY <2>1, <2>2 DEF Expected, Unresolved, SaveResult, Savable, RowOf
  <2> QED
    BY <2>1, <2>2, <2>3, SameDue
<1> QED
  BY <1>1, <1>2

LEMMA Untouched ==
    ASSUME UNCHANGED <<api, pc, job, rows, used, secret, secretSeen>>, NEW n \in Names
    PROVE  Spent(n)' = Spent(n)
<1>1. Due(n)' = Due(n)
  BY DEF Due, Path, Says, Outcome, Expected, IdAhead, At, Unresolved, SaveResult, Savable, RowOf
<1> QED
  BY <1>1 DEF Spent, SecretDue

\* The worker's copy, when it is at work on the present version.
LEMMA AtPresent ==
    ASSUME IInv, NEW n \in Names, At(n)
    PROVE  job.obj = api[n]
  BY DEF IInv, JobOK, IsCopy, At

\* Records come and go under IDs that nobody asks for; at most the supply of IDs
\* runs out, and then n expects a refusal where it expected to be synced.
LEMMA ServedDue ==
    ASSUME WInv, NEW n \in Names, api'[n] = api[n], secretSeen' = secretSeen,
           used \subseteq used', used' \subseteq Ids,
           NEW id, id = IdAhead(n), IdAhead(n)' = id,
           id # NoId => (RowOf(id)' = {} <=> RowOf(id) = {}),
           UNCHANGED <<pc, job>> \/ (~At(n) /\ ~At(n)')
    PROVE  Due(n)' <= Due(n)
<1> DEFINE f == "SecretResolutionFailed"
           a == "APISyncFailed"
<1>1. Unresolved(n)' <=> Unresolved(n)
  BY DEF Unresolved
<1>2. \A r : Says(n, r)' <=> Says(n, r)
  BY DEF Says
<1>3. At(n)' <=> At(n)
  BY DEF At
<1>4. /\ Expected(n) = IF Unresolved(n) THEN f ELSE SaveResult(id)
      /\ Expected(n)' = IF Unresolved(n) THEN f ELSE SaveResult(id)'
  BY <1>1 DEF Expected
<1>5. ASSUME At(n), pc = "save"
      PROVE  /\ Outcome(n) = SaveResult(id) /\ Outcome(n)' = SaveResult(id)'
  <2>1. job.obj.status.id = id /\ UNCHANGED <<pc, job>>
    BY <1>5, AtPresent DEF WInv, SInv, IdAhead
  <2> QED
    BY <1>3, <1>5, <2>1 DEF Outcome
<1>6. CASE SaveResult(id)' = SaveResult(id)
  <2>1. Expected(n)' = Expected(n)
    BY <1>4, <1>6
  <2>2. Outcome(n)' = Outcome(n)
    BY <1>3, <1>5, <1>6, <2>1 DEF Outcome
  <2> QED
    BY <2>1, <2>2, SameDue, DueBounds
<1>7. CASE SaveResult(id)' # SaveResult(id)
  <2>1. id = NoId /\ SaveResult(id) = "Synced" /\ SaveResult(id)' = a
    <3>1. Savable(id)' # Savable(id)
      BY <1>7 DEF SaveResult
    <3>2. id = NoId
      BY <3>1 DEF Savable
    <3>3. used # Ids /\ ~(used' # Ids)
      <4>1. used \subseteq Ids
        BY DEF WInv, SInv, IInv, TypeOK
      <4> QED
        BY <3>1, <3>2, <4>1 DEF Savable
    <3> QED
      BY <3>2, <3>3 DEF SaveResult, Savable
  <2>2. ~(At(n) /\ pc = "reportSynced") /\ api[n].status.id = NoId
    BY <2>1 DEF IdAhead, WInv, JobSays
  <2>3. ~Says(n, "Synced")
    BY <2>2 DEF WInv, ReadyNamed, Says, Ready
  <2>4. CASE At(n) /\ pc = "reportFailed"
    <3>1. Outcome(n) = job.reason /\ Outcome(n)' = job.reason /\ job.reason # "Synced"
      BY <1>3, <2>4 DEF Outcome, WInv, SInv, PushLive
    <3> QED
      BY <1>2, <1>4, <2>1, <3>1 DEF Due, Path
  <2>5. CASE At(n) /\ pc = "save"
    <3>1. Outcome(n) = "Synced" /\ Outcome(n)' = a
      BY <1>5, <2>1, <2>5
    <3> QED
      BY <1>2, <1>4, <2>1, <2>3, <3>1 DEF Due, Path
  <2>6. CASE ~At(n) \/ pc \notin {"save", "reportFailed"}
    <3>1. Outcome(n) = Expected(n) /\ Outcome(n)' = Expected(n)'
      BY <1>3, <2>2, <2>6 DEF Outcome
    <3>2. CASE Unresolved(n)
      <4>1. Outcome(n) = f /\ Outcome(n)' = f /\ Expected(n) = f /\ Expected(n)' = f
        BY <1>4, <3>1, <3>2
      <4> QED
        BY <1>2, <4>1 DEF Due, Path
    <3>3. CASE ~Unresolved(n)
      <4>1. /\ Outcome(n) = "Synced" /\ Expected(n) = "Synced"
            /\ Outcome(n)' = a /\ Expected(n)' = a
        BY <1>4, <2>1, <3>1, <3>3
      <4> QED
        BY <1>2, <2>3, <4>1 DEF Due, Path
    <3> QED
      BY <3>2, <3>3
  <2> QED
    BY <2>4, <2>5, <2>6
<1> QED
  BY <1>6, <1>7

\* What a request does to the records of an ID that was handed out.
LEMMA RowsSteady ==
    ASSUME TypeOK, NEW id \in used,
           \/ \E r \in Row, x \in Ids : Insert(r, x)
           \/ \E r \in Row : RowOf(r.id) # {} /\ Replace(r)
           \/ \E x \in Ids \cup {NoId} : x # id /\ Remove(x)
           \/ rows' = rows
    PROVE  RowOf(id)' = {} <=> RowOf(id) = {}
<1>1. ASSUME NEW r \in Row, NEW x \in Ids, Insert(r, x)
      PROVE  RowOf(id)' = RowOf(id)
  <2>1. [r EXCEPT !.id = x].id # id
    BY <1>1, InsertedRow DEF Insert
  <2> QED
    BY <1>1, <2>1 DEF Insert, RowOf
<1>2. ASSUME NEW r \in Row, RowOf(r.id) # {}, Replace(r)
      PROVE  RowOf(id)' = {} <=> RowOf(id) = {}
  <2>1. CASE r.id = id
    BY <1>2, <2>1 DEF Replace, RowOf
  <2>2. CASE r.id # id
    BY <1>2, <2>2 DEF Replace, RowOf
  <2> QED
    BY <2>1, <2>2
<1>3. ASSUME NEW x \in Ids \cup {NoId}, x # id, Remove(x)
      PROVE  RowOf(id)' = RowOf(id)
  BY <1>3 DEF Remove, RowOf
<1> QED
  BY <1>1, <1>2, <1>3 DEF RowOf

\* An object that is gone, or being deleted, expects nothing of databasus.
LEMMA NotLiveDue ==
    ASSUME NEW n \in Names, api'[n] = api[n], ~Live(api[n])
    PROVE  Due(n)' = Due(n)
  BY DEF Due, Live

\* The ID a live object has, or is about to have, is of a record nobody is going to
\* delete.
LEMMA AheadIsSafe ==
    ASSUME WInv, NEW n \in Names, Live(api[n]), NEW id, id = IdAhead(n), id # NoId
    PROVE  /\ id \in used
           /\ \A q \in late : q.op = "delete" => q.row.id # id
           /\ pc = "deleteRemote" => job.obj.status.id # id
<1>0. IInv /\ TypeOK /\ JobOK /\ ObjectInv /\ DoomedDead /\ Fresh /\ job.key \in Names
  BY TypeParts, JobTypes DEF WInv, SInv, IInv
<1>1. CASE At(n) /\ pc = "reportSynced"
  <2>1. job.obj = api[n] /\ id = job.id /\ id \in used
    BY <1>0, <1>1, AtPresent DEF IdAhead, JobOK
  <2>2. id \in Ids
    BY <1>0, <2>1 DEF TypeOK
  <2>3. job.id = job.obj.status.id \/ job.obj.status.id = NoId
    BY <1>0, <1>1 DEF JobOK
  <2>4. CASE job.obj.status.id = NoId
    BY <1>0, <1>1, <2>1, <2>2, <2>4 DEF Fresh
  <2>5. CASE job.id = job.obj.status.id
    <3>1. ~Doomed(id)
      BY <1>0, <2>1, <2>2, <2>5 DEF DoomedDead, Dead
    <3> QED
      BY <1>1, <2>1, <3>1 DEF Doomed
  <2> QED
    BY <2>3, <2>4, <2>5
<1>2. CASE ~(At(n) /\ pc = "reportSynced")
  <2>1. id = api[n].status.id /\ id \in used
    BY <1>0, <1>2 DEF IdAhead, ObjectInv, IdsKnown, Known
  <2>2. ~Doomed(id)
    BY <1>0, <2>1 DEF DoomedDead, Dead, TypeOK
  <2>3. ASSUME pc = "deleteRemote", job.obj.status.id = id PROVE FALSE
    <3>1. job.obj.deleting /\ job.obj \in CopiesOf(job.key)
      BY <1>0, <2>3, InCopies DEF JobOK, DeleteSteps
    <3> QED
      BY <1>0, <2>2, <2>3, <3>1 DEF Doomed
  <2> QED
    BY <2>1, <2>2, <2>3 DEF Doomed
<1> QED
  BY <1>1, <1>2

LEMMA FreeStep ==
    ASSUME IInv, UNCHANGED <<api, secret, secretSeen, edits, faults>>,
           \A n \in Names : Due(n)' <= Due(n)
    PROVE  Free
<1>1. KubeTypeOK
  BY TypeParts DEF IInv
<1>2. \A n \in Names : api[n].rv \in Nat /\ Due(n) \in 0..2 /\ SecretDue(n) \in 0..1
  BY <1>1, VersionTypes, DueBounds
<1>3. \A n \in Names : Due(n)' \in 0..2 /\ SecretDue(n)' = SecretDue(n)
  BY DEF Due, Path, SecretDue
<1> QED
  BY <1>2, <1>3 DEF Free, Spent

LEMMA ServeLateFree ==
    ASSUME WInv, NEW q \in late, ServeLate(q)
    PROVE  Free
<1>0. TypeOK /\ q.row \in Row /\ q.row.id \in Ids \cup {NoId}
  BY LateTypes DEF WInv, SInv, IInv
<1>1. UNCHANGED <<api, pc, job, secret, secretSeen, edits, faults>>
  BY DEF ServeLate, kubeVars, secretVars
<1>2. used \subseteq used' /\ used' \subseteq Ids
  BY <1>0 DEF ServeLate, Insert, TypeOK
<1> SUFFICES ASSUME NEW n \in Names PROVE Due(n)' <= Due(n)
  BY <1>1, FreeStep DEF WInv, SInv
<1>3. CASE ~Live(api[n])
  BY <1>1, <1>3, NotLiveDue, DueBounds
<1>4. CASE Live(api[n])
  <2>1. PICK id : id = IdAhead(n)
    OBVIOUS
  <2>2. IdAhead(n)' = id
    BY <1>1, <2>1 DEF IdAhead, At
  <2>3. ASSUME id # NoId PROVE RowOf(id)' = {} <=> RowOf(id) = {}
    <3>1. id \in used /\ (q.op = "delete" => q.row.id # id)
      BY <1>4, <2>1, <2>3, AheadIsSafe
    <3>2. \/ \E r \in Row, x \in Ids : Insert(r, x)
          \/ \E r \in Row : RowOf(r.id) # {} /\ Replace(r)
          \/ \E x \in Ids \cup {NoId} : x # id /\ Remove(x)
          \/ rows' = rows
      BY <1>0, <3>1 DEF ServeLate
    <3> QED
      BY <1>0, <3>1, <3>2, RowsSteady
  <2> QED
    BY <1>1, <1>2, <2>1, <2>2, <2>3, ServedDue
<1> QED
  BY <1>3, <1>4

LEMMA ManagerFree ==
    ASSUME WInv, NEW m \in Names, Manager(m)
    PROVE  Free
<1>1. UNCHANGED <<api, pc, job, rows, used, secret, secretSeen, edits, faults>>
  BY DEF Manager, DeliverEvent, FireTimer, Resync, serverVars, secretVars
<1>2. \A n \in Names : Spent(n) \in Nat
  BY SpentTypes, TypeParts DEF WInv, SInv, IInv
<1> QED
  BY <1>1, <1>2, Untouched DEF Free

\* The write that a changed Secret may cost has been paid for by the edit.
LEMMA DeliverSecretFree ==
    ASSUME WInv, NEW m \in Names, DeliverSecret(m)
    PROVE  Free
<1>0. KubeTypeOK /\ RestTypeOK
  BY TypeParts DEF WInv, SInv, IInv
<1>1. /\ UNCHANGED <<api, pc, job, rows, used, secret, edits, faults>>
      /\ secretSeen' = [secretSeen EXCEPT ![m] = secret[m]]
  BY DEF DeliverSecret, kubeVars, serverVars
<1> SUFFICES ASSUME NEW n \in Names PROVE Spent(n)' <= Spent(n)
  BY <1>1 DEF Free
<1>2. /\ api[n].rv \in Nat /\ Due(n) \in 0..2 /\ SecretDue(n) \in 0..1
      /\ Due(n)' \in 0..2
  BY <1>0, VersionTypes DEF Due, Path, SecretDue
<1>3. CASE (secretSeen'[n] = NoCred) = (secretSeen[n] = NoCred)
  <2>1. Unresolved(n)' <=> Unresolved(n)
    BY <1>1, <1>3 DEF Unresolved
  <2>2. Expected(n)' = Expected(n)
    BY <1>1, <2>1 DEF Expected, IdAhead, At, SaveResult, Savable, RowOf
  <2>3. Outcome(n)' = Outcome(n)
    BY <1>1, <2>2 DEF Outcome, At, SaveResult, Savable, RowOf
  <2>4. Due(n)' = Due(n)
    BY <1>1, <2>2, <2>3, SameDue
  <2>5. SecretDue(n)' = SecretDue(n)
    BY <1>1, <1>3 DEF SecretDue
  <2> QED
    BY <1>1, <1>2, <2>4, <2>5 DEF Spent
<1>4. CASE (secretSeen'[n] = NoCred) # (secretSeen[n] = NoCred)
  <2>1. n = m /\ secretSeen'[n] = secret[n]
    BY <1>0, <1>1, <1>4 DEF RestTypeOK
  <2>2. SecretDue(n) = 1 /\ SecretDue(n)' = 0
    BY <1>1, <1>4, <2>1 DEF SecretDue
  <2>3. Due(n)' <= Due(n) + 1
    <3>1. \A r : Says(n, r)' <=> Says(n, r)
      BY <1>1 DEF Says
    <3>2. CASE At(n) /\ pc \in {"save", "reportFailed", "reportSynced"}
      <4>1. PICK o : o = Outcome(n) /\ o = Outcome(n)'
        BY <1>1, <3>2 DEF Outcome, At, SaveResult, Savable, RowOf
      <4> QED
        BY <1>1, <3>1, <4>1 DEF Due, Path
    <3>3. CASE ~(At(n) /\ pc \in {"save", "reportFailed", "reportSynced"})
      <4>1. Outcome(n) = Expected(n) /\ Outcome(n)' = Expected(n)'
        BY <1>1, <3>3 DEF Outcome, At
      <4> QED
        BY <1>1, <4>1 DEF Due, Path
    <3> QED
      BY <3>2, <3>3
  <2> QED
    BY <1>1, <1>2, <2>2, <2>3 DEF Spent
<1> QED
  BY <1>3, <1>4

LEMMA StartFree ==
    ASSUME WInv, NEW m \in Names, Start(m)
    PROVE  Free
<1>1. /\ UNCHANGED <<api, rows, used, secret, secretSeen, edits, faults>>
      /\ pc = "idle" /\ pc' \notin {"save", "reportFailed", "reportSynced"}
  <2>1. PICK step \in {"idle", "deleteRemote", "removeFinalizer", "addFinalizer", "readFirst"} :
           Begin(m, step)
    BY DEF Start, ReconcileGone, ReconcileDeletion, ReconcileUnprotected, ReconcileLive
  <2> QED
    BY <2>1 DEF Begin, serverVars, secretVars
<1>2. \A n \in Names : Due(n)' = Due(n) /\ Due(n) \in 0..2
  BY <1>1, EndOfPass, DueBounds
<1> QED
  BY <1>1, <1>2, FreeStep DEF WInv, SInv

(***************************************************************************)
(* The worker's own steps.                                                 *)
(***************************************************************************)
\* The pass on n goes on, and what it will report is what it would have reported.
LEMMA PassGoesOn ==
    ASSUME NEW n \in Names, UNCHANGED <<api, rows, used, secretSeen>>, SameJob,
           pc' # "reportSynced", pc # "reportSynced", pc # "idle",
           NEW o, At(n) => Outcome(n) = o /\ Outcome(n)' = o
    PROVE  Due(n)' = Due(n)
<1>1. At(n)' => At(n)
  BY DEF At, SameJob
<1>2. CASE At(n)
  <2>1. Expected(n)' = Expected(n)
    BY DEF Expected, IdAhead, Unresolved, SaveResult, Savable, RowOf
  <2> QED
    BY <1>2, <2>1, SameDue
<1>3. CASE ~At(n)
  BY <1>1, <1>3, EndOfPass
<1> QED
  BY <1>2, <1>3

LEMMA ReadFree ==
    ASSUME WInv, ReadFirst \/ ReadSecond \/ SaveRejected
    PROVE  Free
<1>0. IInv /\ LocalTypeOK
  BY TypeParts DEF WInv, SInv, IInv
<1>1. /\ UNCHANGED <<api, rows, used, secret, secretSeen, edits, faults>>
      /\ pc \in {"readFirst", "readSecond", "save"}
  BY DEF ReadFirst, ReadSecond, SaveRejected, kubeButDelayed, serverVars, secretVars
<1> DEFINE Stuck == \/ job.obj.spec \in Incomplete
                    \/ job.obj.spec \notin NoRef /\ secretSeen[job.key] = NoCred
           GoesOn == SameJob /\ pc' \in {"readSecond", "save"}
<1>a. ASSUME NEW c, Goto("save", job) \/ Goto(AfterFirst, [job EXCEPT !.first = c])
                   \/ Goto("save", [job EXCEPT !.second = c])
      PROVE  GoesOn
  <2>1. AfterFirst \in {"readSecond", "save"}
    BY DEF AfterFirst
  <2>2. CASE Goto("save", job)
    BY <2>2 DEF Goto, SameJob
  <2>3. CASE Goto(AfterFirst, [job EXCEPT !.first = c])
    BY <1>0, <2>1, <2>3, JobKeeps DEF Goto, SameJob
  <2>4. CASE Goto("save", [job EXCEPT !.second = c])
    BY <1>0, <2>4, JobKeeps DEF Goto, SameJob
  <2> QED
    BY <1>a, <2>2, <2>3, <2>4
<1>b. ASSUME NEW r, FailWith(r)
      PROVE  SameJob /\ pc' = "reportFailed"
  BY <1>0, <1>b, JobKeeps DEF FailWith, Goto, SameJob
<1>c. ASSUME ReadFirst
      PROVE  \/ Stuck /\ FailWith("SecretResolutionFailed")
             \/ ~Stuck /\ GoesOn
  <2> HIDE DEF GoesOn
  <2> QED
    BY <1>a, <1>c DEF ReadFirst
<1>d. ASSUME ReadSecond
      PROVE  \/ Stuck /\ FailWith("SecretResolutionFailed")
             \/ ~Stuck /\ GoesOn
  <2> HIDE DEF GoesOn
  <2>1. job.obj.spec \notin NoRef \cup Incomplete
    BY <1>d DEF ReadSecond, WInv, JobSays
  <2> QED
    BY <1>a, <1>d, <2>1 DEF ReadSecond
<1>2. SameJob /\ pc' \in {"readSecond", "save", "reportFailed"}
  BY <1>b, <1>c, <1>d DEF SaveRejected
<1> SUFFICES ASSUME NEW n \in Names PROVE Due(n)' = Due(n)
  BY <1>0, <1>1, FreeStep, DueBounds
<1>3. ASSUME At(n)
      PROVE  /\ job.obj = api[n] /\ At(n)'
             /\ IdAhead(n) = job.obj.status.id
             /\ Expected(n)' = Expected(n)
  <2>1. job.obj = api[n] /\ At(n)'
    BY <1>0, <1>1, <1>2, <1>3, AtPresent DEF At, SameJob
  <2>2. Expected(n)' = Expected(n)
    BY <1>1, <1>2 DEF Expected, IdAhead, Unresolved, SaveResult, Savable, RowOf
  <2> QED
    BY <1>1, <2>1, <2>2 DEF IdAhead
<1>4. \A reason \in Reasons : [job EXCEPT !.reason = reason].reason = reason
  BY <1>0 DEF LocalTypeOK, Job
<1>5. ASSUME NEW reason \in Reasons, FailWith(reason)
      PROVE  pc' = "reportFailed" /\ job'.reason = reason
  BY <1>4, <1>5 DEF FailWith, Goto
<1>6. ASSUME At(n), pc' = "save" PROVE Outcome(n)' = SaveResult(job.obj.status.id)
  BY <1>1, <1>2, <1>3, <1>6 DEF Outcome, SameJob, SaveResult, Savable, RowOf
<1>7. ASSUME At(n), pc' = "reportFailed" PROVE Outcome(n)' = job'.reason
  BY <1>3, <1>7 DEF Outcome
<1>8. CASE SaveRejected
  <2>1. pc' = "reportFailed" /\ job'.reason = "APISyncFailed"
    BY <1>5, <1>8 DEF SaveRejected, Reasons
  <2>2. SaveResult(job.obj.status.id) = "APISyncFailed"
    BY <1>8 DEF SaveRejected, SaveResult, Savable
  <2>3. At(n) => Outcome(n) = "APISyncFailed" /\ Outcome(n)' = "APISyncFailed"
    BY <1>7, <1>8, <2>1, <2>2 DEF Outcome, SaveRejected
  <2> QED
    BY <1>1, <1>2, <2>3, PassGoesOn
<1>9. CASE ReadFirst \/ ReadSecond
  <2>1. At(n) => Outcome(n) = Expected(n)
    BY <1>9 DEF Outcome, ReadFirst, ReadSecond
  <2>2. CASE Stuck /\ FailWith("SecretResolutionFailed")
    <3>1. ASSUME At(n) PROVE Unresolved(n)
      BY <1>3, <2>2, <3>1 DEF Unresolved, At
    <3>2. At(n) => Outcome(n)' = Expected(n)
      BY <1>5, <1>7, <2>2, <3>1 DEF Expected, Reasons
    <3> QED
      BY <1>1, <1>2, <2>1, <3>2, PassGoesOn
  <2>3. CASE ~Stuck /\ GoesOn
    <3>1. At(n) => ~Unresolved(n)
      BY <1>3, <2>3 DEF Unresolved, At
    <3>2. CASE pc' = "save"
      <4>1. At(n) => Outcome(n)' = Expected(n)
        BY <1>3, <1>6, <3>1, <3>2 DEF Expected
      <4> QED
        BY <1>1, <1>2, <2>1, <4>1, PassGoesOn
    <3>3. CASE pc' = "readSecond"
      <4>1. At(n) => Outcome(n)' = Expected(n)
        BY <1>3, <3>3 DEF Outcome
      <4> QED
        BY <1>1, <1>2, <2>1, <4>1, PassGoesOn
    <3> QED
      BY <2>3, <3>2, <3>3
  <2> QED
    BY <1>9, <1>c, <1>d, <2>2, <2>3
<1> QED
  BY <1>8, <1>9

LEMMA CallFree ==
    ASSUME WInv, DeleteRemote \/ SaveCreates \/ SaveReplaces
    PROVE  Free
<1>0. IInv /\ TypeOK /\ LocalTypeOK /\ JobOK /\ JobRow \in Row
      /\ job.obj.status.id \in Ids \cup {NoId}
  BY TypeParts, JobTypes DEF WInv, SInv, IInv
<1>1. UNCHANGED <<api, secret, secretSeen, edits, faults>> /\ pc \in {"deleteRemote", "save"}
  BY DEF DeleteRemote, SaveCreates, SaveReplaces, kubeVars, secretVars
<1>2. SameJob /\ pc' \in {"removeFinalizer", "reportSynced"}
  <2>1. CASE DeleteRemote
    BY <2>1 DEF DeleteRemote, Goto, SameJob
  <2>2. CASE SaveCreates \/ SaveReplaces
    <3>1. pc' = "reportSynced" /\ \E i : job' = [job EXCEPT !.id = i]
      BY <2>2 DEF SaveCreates, SaveReplaces, Goto
    <3>2. PICK i : job' = [job EXCEPT !.id = i]
      BY <3>1
    <3>3. job'.key = job.key /\ job'.obj = job.obj
      BY <1>0, <3>2, JobKeeps, Zenon
    <3> QED
      BY <3>1, <3>3 DEF SameJob
  <2> QED
    BY <2>1, <2>2
<1>3. used \subseteq used' /\ used' \subseteq Ids
  BY <1>0 DEF DeleteRemote, SaveCreates, SaveReplaces, Insert, TypeOK
<1> SUFFICES ASSUME NEW n \in Names PROVE Due(n)' <= Due(n)
  BY <1>0, <1>1, FreeStep
<1>4. CASE ~Live(api[n])
  BY <1>1, <1>4, NotLiveDue, DueBounds
<1>5. ASSUME Live(api[n]), NEW id, id = IdAhead(n), id # NoId
      PROVE  RowOf(id)' = {} <=> RowOf(id) = {}
  <2>1. id \in used /\ (pc = "deleteRemote" => job.obj.status.id # id)
    BY <1>5, AheadIsSafe
  <2>2. \/ \E r \in Row, x \in Ids : Insert(r, x)
        \/ \E r \in Row : RowOf(r.id) # {} /\ Replace(r)
        \/ \E x \in Ids \cup {NoId} : x # id /\ Remove(x)
    <3>1. JobRow.id = job.obj.status.id
      BY <1>0, JobRowTypes
    <3> QED
      BY <1>0, <2>1, <3>1 DEF DeleteRemote, SaveCreates, SaveReplaces
  <2> QED
    BY <1>0, <2>1, <2>2, RowsSteady
<1>6. CASE Live(api[n]) /\ ~At(n)
  <2>1. ~At(n)'
    BY <1>1, <1>2, <1>6 DEF At, SameJob
  <2>2. PICK id : id = IdAhead(n)
    OBVIOUS
  <2>3. IdAhead(n)' = id
    BY <1>1, <1>6, <2>1, <2>2 DEF IdAhead
  <2> QED
    BY <1>1, <1>3, <1>5, <1>6, <2>1, <2>2, <2>3, ServedDue
<1>7. CASE Live(api[n]) /\ At(n)
  <2>1. job.obj = api[n] /\ At(n)' /\ IdAhead(n) = api[n].status.id
    BY <1>0, <1>1, <1>2, <1>7, AtPresent DEF At, SameJob, IdAhead
  <2>2. pc = "save" /\ pc' = "reportSynced"
    BY <1>0, <1>7, <2>1 DEF DeleteRemote, SaveCreates, SaveReplaces, JobOK, DeleteSteps, Live, Goto
  <2>3. SaveResult(job.obj.status.id) = "Synced"
    <3>1. CASE SaveCreates
      BY <3>1 DEF SaveCreates, SaveResult, Savable, Insert
    <3>2. CASE SaveReplaces
      BY <3>2 DEF SaveReplaces, SaveResult, Savable
    <3> QED
      BY <2>2, <3>1, <3>2 DEF DeleteRemote
  <2>4. IdAhead(n)' = job'.id /\ job'.id # NoId /\ RowOf(job.id)' # {}
    <3>1. \A id : [job EXCEPT !.id = id].id = id
      BY <1>0, JobKeeps
    <3>2. IdAhead(n)' = job'.id
      BY <2>1, <2>2 DEF IdAhead
    <3>3. CASE SaveCreates
      <4>1. PICK id \in Ids : Insert(JobRow, id) /\ job' = [job EXCEPT !.id = id]
        BY <3>3 DEF SaveCreates, Goto
      <4>2. [JobRow EXCEPT !.id = id] \in rows' /\ [JobRow EXCEPT !.id = id].id = id
        BY <1>0, <4>1, InsertedRow DEF Insert
      <4> QED
        BY <3>1, <3>2, <4>1, <4>2, ResourceAssumption DEF RowOf
    <3>4. CASE SaveReplaces
      <4>1. job'.id = job.obj.status.id /\ JobRow.id = job.obj.status.id /\ JobRow \in rows'
        BY <1>0, <3>1, <3>4, JobRowTypes DEF SaveReplaces, Goto, Replace
      <4> QED
        BY <3>2, <3>4, <4>1 DEF SaveReplaces, RowOf
    <3> QED
      BY <2>2, <3>3, <3>4 DEF DeleteRemote
  <2>5. Expected(n)' = Expected(n)
    <3>1. SaveResult(IdAhead(n))' = "Synced"
      BY <2>4 DEF SaveResult, Savable, RowOf
    <3>2. Unresolved(n)' <=> Unresolved(n)
      BY <1>1 DEF Unresolved
    <3> QED
      BY <2>1, <2>3, <3>1, <3>2 DEF Expected
  <2>6. Outcome(n) = "Synced" /\ Outcome(n)' = "Synced"
    BY <1>7, <2>1, <2>2, <2>3 DEF Outcome
  <2>7. Due(n)' = Due(n)
    BY <1>1, <2>5, <2>6, SameDue
  <2> QED
    BY <2>7, DueBounds
<1> QED
  BY <1>4, <1>6, <1>7

\* A write of the worker is one that was due.
LEMMA WriteFree ==
    ASSUME WInv, RemoveFinalizer \/ AddFinalizer \/ ReportFailed \/ ReportSynced
    PROVE  Free
<1> DEFINE m == job.key
<1>0. /\ IInv /\ KubeTypeOK /\ LocalTypeOK /\ JobOK /\ m \in Names
      /\ FailedStatus \in Status /\ SyncedStatus \in Status
  BY TypeParts, JobTypes, StatusTypes DEF WInv, SInv, IInv
<1>1. /\ UNCHANGED <<rows, used, secret, secretSeen, edits, faults>>
      /\ pc # "idle" /\ pc' = "idle"
  BY DEF RemoveFinalizer, AddFinalizer, ReportFailed, ReportSynced, serverVars, secretVars,
     Return, ReturnAndRetry, Goto
<1> SUFFICES ASSUME NEW n \in Names PROVE Spent(n)' <= Spent(n)
  BY <1>1 DEF Free
<1>2. /\ api[n].rv \in Nat /\ Due(n) \in 0..2 /\ SecretDue(n) \in 0..1
      /\ SecretDue(n)' = SecretDue(n) /\ api[n] \in Object
  BY <1>0, <1>1, VersionTypes, DueBounds DEF SecretDue, KubeTypeOK
<1>3. CASE n # m \/ ~Current(m, job.obj)
  <2>1. api'[n] = api[n]
    <3>1. CASE n # m
      BY <1>0, <3>1, WriteStores, StoreEffect DEF IInv
    <3>2. CASE ~Current(m, job.obj)
      BY <3>2 DEF RemoveFinalizer, AddFinalizer, ReportFailed, ReportSynced
    <3> QED
      BY <1>3, <3>1, <3>2
  <2>2. ~At(n) \/ ~api[n].exists
    BY <1>3 DEF At, Current
  <2>3. Due(n)' = Due(n)
    BY <1>1, <2>1, <2>2, EndOfPass
  <2> QED
    BY <1>2, <2>1, <2>3 DEF Spent
<1>4. CASE n = m /\ Current(m, job.obj)
  <2>1. job.obj = api[n] /\ api[n].exists /\ At(n)
    BY <1>0, <1>1, <1>4, CurrentIsKnown DEF Current, At
  <2>2. Outcome(n)' = Expected(n)' /\ IdAhead(n)' = api'[n].status.id
    BY <1>1 DEF Outcome, IdAhead, At
  <2>3. ASSUME NEW o \in Object, Store(n, o)
        PROVE  /\ api'[n].rv = api[n].rv + 1
               /\ api'[n].exists = o.exists /\ api'[n].deleting = o.deleting
               /\ api'[n].finalizer = o.finalizer
               /\ api'[n].status = o.status /\ api'[n].gen = o.gen /\ api'[n].spec = o.spec
    BY <1>0, <2>3, StoreEffect, StoreFields
  <2>4. CASE RemoveFinalizer
    <3> DEFINE o == [api[n] EXCEPT !.finalizer = FALSE, !.exists = FALSE]
    <3>1. o \in Object /\ ~o.exists /\ Store(n, o)
      <4>1. DropFinalizer(n)
        BY <1>2, <1>4, <2>4 DEF RemoveFinalizer
      <4>2. o \in Object
        BY <1>2, ObjectUpdates
      <4>3. ~o.exists
        BY <1>2 DEF Object, ObjectsWith
      <4> QED
        BY <4>1, <4>2, <4>3 DEF DropFinalizer
    <3>2. Due(n) = 1
      BY <1>0, <2>1, <2>4 DEF RemoveFinalizer, JobOK, DeleteSteps, Due
    <3> HIDE DEF o
    <3>3. api'[n].rv = api[n].rv + 1 /\ Due(n)' = 0
      BY <2>3, <3>1 DEF Due
    <3> QED
      BY <1>2, <3>2, <3>3 DEF Spent
  <2>5. CASE AddFinalizer
    <3> DEFINE o == [api[n] EXCEPT !.finalizer = TRUE]
    <3>1. /\ o \in Object /\ o.exists /\ ~o.deleting /\ o.finalizer /\ Store(n, o)
          /\ ~api[n].deleting /\ ~api[n].finalizer
      BY <1>2, <1>4, <2>1, <2>5, ObjectUpdates
      DEF AddFinalizer, StoreFinalizer, Object, ObjectsWith, WInv, JobSays
    <3>2. Due(n) = 2
      BY <2>1, <3>1 DEF Due
    <3> HIDE DEF o
    <3>3. api'[n].rv = api[n].rv + 1 /\ Due(n)' \in 0..1
      BY <2>2, <2>3, <3>1 DEF Due, Path
    <3> QED
      BY <1>2, <3>2, <3>3 DEF Spent
  <2>6. ASSUME pc \in {"reportFailed", "reportSynced"},
               NEW status \in Status, StoreStatus(n, status),
               status.reason = Outcome(n), status.condGen = api[n].gen,
               status.id = IdAhead(n),
               Says(n, Outcome(n)) => status = api[n].status
        PROVE  Spent(n)' <= Spent(n)
    <3>1. Live(api[n]) /\ api[n].finalizer
      BY <1>0, <2>1, <2>6, <1>4 DEF WInv, SInv, PushLive, PushSteps, JobOK, Live
    <3>2. Due(n) = Path(n, Outcome(n), Expected(n))
      BY <3>1 DEF Due, Live
    <3> DEFINE o == [api[n] EXCEPT !.status = status]
    <3>3. /\ o \in Object /\ o.status = status /\ o.exists = api[n].exists
          /\ o.deleting = api[n].deleting /\ o.finalizer = api[n].finalizer
          /\ o.gen = api[n].gen /\ o.spec = api[n].spec
      BY <1>2, ObjectUpdates DEF Object, ObjectsWith
    <3> HIDE DEF o
    <3>4. /\ api'[n].status = status /\ Live(api'[n]) /\ api'[n].finalizer
          /\ api'[n].gen = api[n].gen /\ api'[n].spec = api[n].spec
          /\ \/ api'[n].rv = api[n].rv + 1 /\ ~Says(n, Outcome(n))
             \/ api'[n].rv = api[n].rv
      <4>1. CASE Store(n, o) /\ api[n].status # status
        BY <2>3, <2>6, <3>1, <3>3, <4>1 DEF Live
      <4>2. CASE api[n].status = status /\ api' = api
        BY <3>1, <4>2
      <4> QED
        BY <2>6, <4>1, <4>2 DEF StoreStatus, o
    <3>5. Expected(n)' = Expected(n)
      BY <1>1, <2>2, <2>6, <3>4 DEF Expected, Unresolved, SaveResult, Savable, RowOf
    <3>6. Due(n)' = IF Outcome(n) = Expected(n) THEN 0 ELSE 1
      <4>1. PICK e : e = Expected(n)
        OBVIOUS
      <4>2. Due(n)' = IF Says(n, e)' THEN 0 ELSE 1
        BY <2>2, <3>4, <3>5, <4>1 DEF Due, Path, Says, Live
      <4>3. Says(n, e)' <=> e = Outcome(n)
        BY <2>6, <3>4 DEF Says
      <4> QED
        BY <4>1, <4>2, <4>3
    <3> QED
      BY <1>2, <3>2, <3>4, <3>6 DEF Spent, Path
  <2>7. CASE ReportFailed
    <3>1. FailedStatus = [api[n].status EXCEPT !.reason = job.reason, !.condGen = api[n].gen]
      BY <2>1 DEF FailedStatus
    <3>2. Outcome(n) = job.reason /\ IdAhead(n) = api[n].status.id
      BY <2>1, <2>7 DEF Outcome, IdAhead, ReportFailed
    <3>3. api[n].status \in Status
      BY <1>2 DEF Object, ObjectsWith
    <3>4. /\ FailedStatus.reason = job.reason /\ FailedStatus.condGen = api[n].gen
          /\ FailedStatus.id = api[n].status.id
      BY <3>1, <3>3 DEF Status
    <3>5. Says(n, job.reason) => FailedStatus = api[n].status
      BY <3>1, <3>3 DEF Says, Status
    <3>6. StoreStatus(n, FailedStatus) /\ pc = "reportFailed"
      BY <1>4, <2>7 DEF ReportFailed
    <3> QED
      BY <1>0, <2>6, <3>2, <3>4, <3>5, <3>6
  <2>8. CASE ReportSynced
    <3>1. pc = "reportSynced" /\ StoreStatus(n, SyncedStatus)
      BY <1>4, <2>8 DEF ReportSynced
    <3>2. Outcome(n) = "Synced" /\ IdAhead(n) = job.id
      BY <2>1, <3>1 DEF Outcome, IdAhead
    <3>3. SyncedStatus = [id |-> job.id, reason |-> "Synced",
                          condGen |-> api[n].gen, obsGen |-> api[n].gen]
      BY <2>1 DEF SyncedStatus
    <3>4. ASSUME Says(n, "Synced") PROVE SyncedStatus = api[n].status
      <4>1. /\ api[n].status.id # NoId /\ api[n].status.obsGen = api[n].status.condGen
            /\ api[n].status.reason = "Synced" /\ api[n].status.condGen = api[n].gen
        BY <3>4 DEF Says, WInv, ReadyNamed, Ready
      <4>2. job.id = api[n].status.id
        BY <1>0, <2>1, <3>1, <4>1 DEF JobOK
      <4>3. api[n].status \in Status
        BY <1>2 DEF Object, ObjectsWith
      <4> QED
        BY <3>3, <4>1, <4>2, <4>3 DEF Status
    <3> QED
      BY <1>0, <2>6, <3>1, <3>2, <3>3, <3>4
  <2> QED
    BY <2>4, <2>5, <2>7, <2>8
<1> QED
  BY <1>3, <1>4

(***************************************************************************)
(* The invariant is inductive.                                             *)
(***************************************************************************)
LEMMA NextReadyNamed ==
    ASSUME SInv, ReadyNamed, JobSays, [Next]_vars
    PROVE  ReadyNamed'
<1>1. CASE Served
  BY <1>1 DEF Served, ReadyNamed, Ready
<1>2. ASSUME NEW m \in Names, Moved(m) PROVE ReadyNamed'
  <2>1. \A n \in Names \ {m} : api'[n] = api[n]
    BY <1>2 DEF Moved
  <2>2. CASE api'[m].status = api[m].status
    BY <2>1, <2>2 DEF ReadyNamed, Ready
  <2>3. CASE Created(m) \/ FailureNoted(m)
    <3>1. api'[m].status.reason # "Synced"
      BY <2>3 DEF Created, NoStatus, FailureNoted
    <3> QED
      BY <2>1, <3>1 DEF ReadyNamed, Ready
  <2>4. CASE SuccessNoted(m)
    <3>1. /\ api'[m].status.id # NoId
          /\ api'[m].status.obsGen = api'[m].status.condGen
      BY <2>4 DEF SuccessNoted, JobSays
    <3> QED
      BY <2>1, <3>1 DEF ReadyNamed, Ready
  <2> QED
    BY <1>2, <2>2, <2>3, <2>4 DEF Moved, Edited, Marked, Vanished, Finished, Guarded
<1> QED
  BY <1>1, <1>2, InvBasis, NextServes DEF SInv

LEMMA NextJobSays ==
    ASSUME SInv, JobSays, [Next]_vars
    PROVE  JobSays'
<1>0. KubeTypeOK /\ LocalTypeOK
  BY TypeParts DEF SInv, IInv
<1>1. ASSUME pc' \notin {"addFinalizer", "readSecond", "reportSynced"} PROVE JobSays'
  BY <1>1 DEF JobSays
<1>2. ASSUME UNCHANGED <<pc, job>> PROVE JobSays'
  BY <1>2 DEF JobSays
<1>3. ASSUME NEW n \in Names, User(n) \/ Manager(n) \/ DeliverSecret(n) PROVE JobSays'
  BY <1>2, <1>3 DEF User, SetSecret, Manager, DeliverSecret
<1>4. ASSUME NEW n \in Names, Start(n) PROVE JobSays'
  <2>1. CASE ReconcileUnprotected(n)
    <3>1. pc' = "addFinalizer" /\ job'.obj = cache[n]
      BY <1>0, <2>1, BeginFields DEF ReconcileUnprotected, Steps
    <3> QED
      BY <2>1, <3>1 DEF ReconcileUnprotected, JobSays
  <2>2. CASE ReconcileGone(n) \/ ReconcileDeletion(n) \/ ReconcileLive(n)
    BY <1>1, <2>2 DEF ReconcileGone, ReconcileDeletion, ReconcileLive, Begin
  <2> QED
    BY <1>4, <2>1, <2>2 DEF Start
<1>5. CASE ReadFirst
  <2>1. CASE pc' = "readSecond"
    <3>1. job.obj.spec \notin NoRef \cup Incomplete /\ \E c : Goto(AfterFirst, [job EXCEPT !.first = c])
      BY <1>5, <2>1 DEF ReadFirst, Goto, FailWith
    <3>2. job'.obj = job.obj
      BY <1>0, <3>1, JobKeeps DEF Goto
    <3> QED
      BY <2>1, <3>1, <3>2 DEF JobSays
  <2>2. CASE pc' # "readSecond"
    BY <1>1, <1>5, <2>2 DEF ReadFirst, Goto, FailWith, AfterFirst
  <2> QED
    BY <2>1, <2>2
<1>6. CASE SaveCreates \/ SaveReplaces
  <2>1. PICK id : id # NoId /\ Goto("reportSynced", [job EXCEPT !.id = id])
    BY <1>6, ResourceAssumption DEF SaveCreates, SaveReplaces
  <2>2. pc' = "reportSynced" /\ job'.id # NoId
    BY <1>0, <2>1, JobKeeps DEF Goto
  <2> QED
    BY <2>2 DEF JobSays
<1>7. CASE \/ DeleteRemote \/ RemoveFinalizer \/ AddFinalizer \/ ReadSecond \/ SaveRejected
           \/ ReportFailed \/ ReportSynced \/ CallFails \/ KubeWriteFails \/ Restart
  BY <1>1, <1>7 DEF DeleteRemote, RemoveFinalizer, AddFinalizer, ReadSecond, SaveRejected,
     ReportFailed, ReportSynced, CallFails, KubeWriteFails, Restart, Return, ReturnAndRetry,
     FailWith, Goto
<1>8. CASE (\E q \in late : ServeLate(q)) \/ (\E id \in Ids : RemoveOutOfBand(id))
  BY <1>2, <1>8 DEF ServeLate, RemoveOutOfBand
<1>9. CASE UNCHANGED vars
  BY <1>2, <1>9 DEF vars
<1> QED
  BY <1>3, <1>4, <1>5, <1>6, <1>7, <1>8, <1>9 DEF Next, Worker, Environment

LEMMA NextPays ==
    ASSUME WInv, [Next]_vars
    PROVE  Free \/ PaidByEdit \/ PaidByFault
<1>1. CASE UNCHANGED vars
  <2>1. \A n \in Names : Spent(n) \in Nat
    BY SpentTypes, TypeParts DEF WInv, SInv, IInv
  <2> QED
    BY <1>1, <2>1, Untouched DEF vars, kubeVars, serverVars, secretVars, Free
<1> QED
  BY <1>1, EditPays, FaultPays, ServeLateFree, ManagerFree, DeliverSecretFree, StartFree,
     ReadFree, CallFree, WriteFree DEF Next, Worker, Environment

\* However often an object is reconciled, and its own writes reconcile it again, its
\* versions are bounded by what users did and what failed.
THEOREM WritesAreBounded == Spec => []WritesBounded
<1>1. Init => WInv
  <2> SUFFICES ASSUME Init PROVE WInv
    OBVIOUS
  <2>1. SInv
    BY InitSync
  <2>2. /\ pc = "idle" /\ edits = 0 /\ faults = 0 /\ secretSeen = secret
        /\ \A n \in Names : ~api[n].exists /\ api[n].rv = 0 /\ api[n].status.reason = "None"
    BY DEF Init, KubeInit, NeverCreated, NoStatus
  <2>3. \A n \in Names : Spent(n) = 0
    <3>1. \A n \in Names : Due(n) = 0
      BY <2>2 DEF Due
    <3>2. \A n \in Names : SecretDue(n) = 0
      BY <2>2 DEF SecretDue
    <3> SUFFICES ASSUME NEW n \in Names PROVE Spent(n) = 0
      OBVIOUS
    <3>3. api[n].rv = 0 /\ Due(n) = 0 /\ SecretDue(n) = 0
      BY <2>2, <3>1, <3>2
    <3> QED
      BY <3>3 DEF Spent
  <2> QED
    BY <2>1, <2>2, <2>3 DEF WInv, ReadyNamed, Ready, JobSays
<1>2. WInv /\ [Next]_vars => WInv'
  <2> SUFFICES ASSUME WInv, [Next]_vars PROVE WInv'
    OBVIOUS
  <2>1. SInv' /\ TypeOK'
    BY NextSync DEF WInv, SInv, IInv
  <2>2. \A n \in Names : Spent(n)' <= 3 * edits' + 2 * faults'
    BY <2>1, NextPays, Payments
  <2> QED
    BY <2>1, <2>2, NextReadyNamed, NextJobSays DEF WInv
<1>3. WInv => WritesBounded
  <2> SUFFICES ASSUME WInv, NEW n \in Names PROVE api[n].rv <= 3 * edits + 2 * faults
    BY DEF WritesBounded
  <2>1. api[n].rv \in Nat /\ edits \in Nat /\ faults \in Nat
    BY VersionTypes, TypeParts DEF WInv, SInv, IInv, TypeOK
  <2>2. Due(n) \in 0..2 /\ SecretDue(n) \in 0..1 /\ Spent(n) <= 3 * edits + 2 * faults
    BY DueBounds DEF WInv
  <2> QED
    BY <2>1, <2>2 DEF Spent
<1> QED
  BY <1>1, <1>2, <1>3, PTL DEF Spec
=============================================================================
