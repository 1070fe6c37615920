--------------------------- MODULE ReplicasProofs ---------------------------
(***************************************************************************)
(* Theorems about Replicas, for any objects, IDs, users and faults: two    *)
(* processes keep RecordSync's promise, and no record is left of an object *)
(* that is gone under the ID its status named.                             *)
(*                                                                         *)
(* Each process is an instance of PeerProofs in which the other process is *)
(* the peer.  A step of one preserves its own side of the invariant, and   *)
(* Joint, which says the same from both sides, carries it over to the      *)
(* other.                                                                  *)
(***************************************************************************)
EXTENDS Replicas, TLAPS

\* The versions of the objects that a process knows.
CopiesIn(cache, pending, pc, job) ==
    [n \in Names |-> {cache[n]} \cup {pending[n][i] : i \in 1..Len(pending[n])}
                        \cup {o \in {job.obj} : pc # "idle" /\ job.key = n}]

\* What it has done at databasus and not yet told the API server.
SavedBy(pc, job) == {p \in {<<job.key, job.id>>} : pc = "reportSynced"}

FreshBy(pc, job) ==
    {id \in Ids : pc = "reportSynced" /\ job.obj.status.id = NoId /\ job.id = id}

GoneBy(pc, job) == {id \in Ids : pc = "removeFinalizer" /\ job.obj.status.id = id}

PA == INSTANCE PeerProofs WITH
    cache <- cacheA, pending <- pendingA, queue <- queueA, delayed <- delayedA,
    pc <- pcA, job <- jobA, secretSeen <- secretSeenA,
    otherCopies <- CopiesIn(cacheB, pendingB, pcB, jobB),
    otherSaved <- SavedBy(pcB, jobB),
    otherFresh <- FreshBy(pcB, jobB), otherGone <- GoneBy(pcB, jobB)

PB == INSTANCE PeerProofs WITH
    cache <- cacheB, pending <- pendingB, queue <- queueB, delayed <- delayedB,
    pc <- pcB, job <- jobB, secretSeen <- secretSeenB,
    otherCopies <- CopiesIn(cacheA, pendingA, pcA, jobA),
    otherSaved <- SavedBy(pcA, jobA),
    otherFresh <- FreshBy(pcA, jobA), otherGone <- GoneBy(pcA, jobA)

(***************************************************************************)
(* The modules' definitions are the same in PeerProofs' instances.         *)
(***************************************************************************)
LEMMA SameStepsA == A!Next => [PA!Next]_(PA!vars)
  BY Zenon
  DEF A!Next, PA!Next, A!User, PA!User, A!Manager, PA!Manager, A!DeliverSecret,
      PA!DeliverSecret, A!Start, PA!Start, A!Worker, PA!Worker, A!Environment,
      PA!Environment, A!CreateObject, PA!CreateObject, A!NoStatus, PA!NoStatus,
      A!EditSpec, PA!EditSpec, A!DeleteObject, PA!DeleteObject, A!serverVars,
      PA!serverVars, A!secretVars, PA!secretVars, A!SetSecret, PA!SetSecret,
      A!DeliverEvent, PA!DeliverEvent, A!FireTimer, PA!FireTimer, A!Resync, PA!Resync,
      A!kubeVars, PA!kubeVars, A!ReconcileGone, PA!ReconcileGone, A!ReconcileDeletion,
      PA!ReconcileDeletion, A!ReconcileUnprotected, PA!ReconcileUnprotected,
      A!ReconcileLive, PA!ReconcileLive, A!DeleteRemote, PA!DeleteRemote,
      A!RemoveFinalizer, PA!RemoveFinalizer, A!AddFinalizer, PA!AddFinalizer, A!ReadFirst,
      PA!ReadFirst, A!ReadSecond, PA!ReadSecond, A!SaveCreates, PA!SaveCreates,
      A!SaveReplaces, PA!SaveReplaces, A!SaveRejected, PA!SaveRejected, A!ReportFailed,
      PA!ReportFailed, A!ReportSynced, PA!ReportSynced, A!ServeLate, PA!ServeLate,
      A!RemoveOutOfBand, PA!RemoveOutOfBand, A!CallFails, PA!CallFails, A!KubeWriteFails,
      PA!KubeWriteFails, A!Restart, PA!Restart, A!Store, PA!Store, A!Begin, PA!Begin,
      A!Remove, PA!Remove, A!Goto, PA!Goto, A!Current, PA!Current, A!DropFinalizer,
      PA!DropFinalizer, A!Return, PA!Return, A!ReturnAndRetry, PA!ReturnAndRetry,
      A!StoreFinalizer, PA!StoreFinalizer, A!AfterFirst, PA!AfterFirst, A!FailWith,
      PA!FailWith, A!kubeButDelayed, PA!kubeButDelayed, A!Insert, PA!Insert, A!JobRow,
      PA!JobRow, A!RowOf, PA!RowOf, A!Replace, PA!Replace, A!StoreStatus, PA!StoreStatus,
      A!FailedStatus, PA!FailedStatus, A!SyncedStatus, PA!SyncedStatus, A!Fault, PA!Fault,
      A!NoJob, PA!NoJob, A!Relist, PA!Relist, A!NeverCreated, PA!NeverCreated

LEMMA SameStepsB == B!Next => [PB!Next]_(PB!vars)
  BY Zenon
  DEF B!Next, PB!Next, B!User, PB!User, B!Manager, PB!Manager, B!DeliverSecret,
      PB!DeliverSecret, B!Start, PB!Start, B!Worker, PB!Worker, B!Environment,
      PB!Environment, B!CreateObject, PB!CreateObject, B!NoStatus, PB!NoStatus,
      B!EditSpec, PB!EditSpec, B!DeleteObject, PB!DeleteObject, B!serverVars,
      PB!serverVars, B!secretVars, PB!secretVars, B!SetSecret, PB!SetSecret,
      B!DeliverEvent, PB!DeliverEvent, B!FireTimer, PB!FireTimer, B!Resync, PB!Resync,
      B!kubeVars, PB!kubeVars, B!ReconcileGone, PB!ReconcileGone, B!ReconcileDeletion,
      PB!ReconcileDeletion, B!ReconcileUnprotected, PB!ReconcileUnprotected,
      B!ReconcileLive, PB!ReconcileLive, B!DeleteRemote, PB!DeleteRemote,
      B!RemoveFinalizer, PB!RemoveFinalizer, B!AddFinalizer, PB!AddFinalizer, B!ReadFirst,
      PB!ReadFirst, B!ReadSecond, PB!ReadSecond, B!SaveCreates, PB!SaveCreates,
      B!SaveReplaces, PB!SaveReplaces, B!SaveRejected, PB!SaveRejected, B!ReportFailed,
      PB!ReportFailed, B!ReportSynced, PB!ReportSynced, B!ServeLate, PB!ServeLate,
      B!RemoveOutOfBand, PB!RemoveOutOfBand, B!CallFails, PB!CallFails, B!KubeWriteFails,
      PB!KubeWriteFails, B!Restart, PB!Restart, B!Store, PB!Store, B!Begin, PB!Begin,
      B!Remove, PB!Remove, B!Goto, PB!Goto, B!Current, PB!Current, B!DropFinalizer,
      PB!DropFinalizer, B!Return, PB!Return, B!ReturnAndRetry, PB!ReturnAndRetry,
      B!StoreFinalizer, PB!StoreFinalizer, B!AfterFirst, PB!AfterFirst, B!FailWith,
      PB!FailWith, B!kubeButDelayed, PB!kubeButDelayed, B!Insert, PB!Insert, B!JobRow,
      PB!JobRow, B!RowOf, PB!RowOf, B!Replace, PB!Replace, B!StoreStatus, PB!StoreStatus,
      B!FailedStatus, PB!FailedStatus, B!SyncedStatus, PB!SyncedStatus, B!Fault, PB!Fault,
      B!NoJob, PB!NoJob, B!Relist, PB!Relist, B!NeverCreated, PB!NeverCreated

LEMMA SameInitA == A!Init => PA!Init
  BY Zenon
  DEF A!Init, PA!Init, A!KubeInit, PA!KubeInit, A!NoStatus, PA!NoStatus, A!NoJob,
      PA!NoJob, A!NeverCreated, PA!NeverCreated

LEMMA SameInitB == B!Init => PB!Init
  BY Zenon
  DEF B!Init, PB!Init, B!KubeInit, PB!KubeInit, B!NoStatus, PB!NoStatus, B!NoJob,
      PB!NoJob, B!NeverCreated, PB!NeverCreated

LEMMA SamePromiseA ==
    [PA!Promise!Next]_(PA!Promise!vars) => [A!Promise!Next]_(A!Promise!vars)
  BY Zenon
  DEF A!Promise!Next, PA!Promise!Next, A!Promise!vars, PA!Promise!vars, A!Promise!Create,
      PA!Promise!Create, A!Promise!Mark, PA!Promise!Mark, A!Promise!Vanish,
      PA!Promise!Vanish, A!Promise!Erase, PA!Promise!Erase, A!Promise!Finish,
      PA!Promise!Finish, A!Promise!Appear, PA!Promise!Appear, A!Promise!Record,
      PA!Promise!Record, A!Promise!Lose, PA!Promise!Lose, A!Promise!Of, PA!Promise!Of,
      A!Phase, PA!Phase

LEMMA SamePromiseB ==
    [PB!Promise!Next]_(PB!Promise!vars) => [A!Promise!Next]_(A!Promise!vars)
  BY Zenon
  DEF A!Promise!Next, PB!Promise!Next, A!Promise!vars, PB!Promise!vars, A!Promise!Create,
      PB!Promise!Create, A!Promise!Mark, PB!Promise!Mark, A!Promise!Vanish,
      PB!Promise!Vanish, A!Promise!Erase, PB!Promise!Erase, A!Promise!Finish,
      PB!Promise!Finish, A!Promise!Appear, PB!Promise!Appear, A!Promise!Record,
      PB!Promise!Record, A!Promise!Lose, PB!Promise!Lose, A!Promise!Of, PB!Promise!Of,
      A!Phase, PB!Phase

LEMMA Assumptions ==
    /\ PA!KubeAssumption /\ PA!ResourceAssumption
    /\ PB!KubeAssumption /\ PB!ResourceAssumption
  BY ReplicasAssumption

LEMMA PromiseStarts == A!Init => A!Promise!Init
<1>1. A!Init => PA!Promise!Init
  BY SameInitA, Assumptions, PA!InitImplements
<1>2. PA!Promise!Init => A!Promise!Init
  BY Zenon DEF PA!Promise!Init, A!Promise!Init, PA!Phase, A!Phase
<1> QED
  BY <1>1, <1>2

(***************************************************************************)
(* Joint is the same from both sides.                                      *)
(***************************************************************************)
LEMMA SameCopies ==
    ASSUME NEW n \in Names
    PROVE  PA!AllCopies(n) = PB!AllCopies(n)
<1>1. PA!CopiesOf(n) = {api[n]} \cup CopiesIn(cacheA, pendingA, pcA, jobA)[n]
  BY DEF PA!CopiesOf, CopiesIn
<1>2. PB!CopiesOf(n) = {api[n]} \cup CopiesIn(cacheB, pendingB, pcB, jobB)[n]
  BY DEF PB!CopiesOf, CopiesIn
<1> QED
  BY <1>1, <1>2 DEF PA!AllCopies, PB!AllCopies

LEMMA SameNames ==
    ASSUME NEW n \in Names, NEW id
    PROVE  PA!AllNamed(n, id) <=> PB!AllNamed(n, id)
  BY SameCopies DEF PA!AllNamed, PB!AllNamed

LEMMA SameSaved ==
    ASSUME NEW n, NEW id
    PROVE  /\ PA!OwnSaved(n, id) <=> <<n, id>> \in SavedBy(pcA, jobA)
           /\ PB!OwnSaved(n, id) <=> <<n, id>> \in SavedBy(pcB, jobB)
  BY DEF PA!OwnSaved, PB!OwnSaved, SavedBy

LEMMA SameFresh ==
    ASSUME NEW id \in Ids
    PROVE  /\ PA!OwnFresh(id) <=> id \in FreshBy(pcA, jobA)
           /\ PB!OwnFresh(id) <=> id \in FreshBy(pcB, jobB)
  BY DEF PA!OwnFresh, PB!OwnFresh, FreshBy

LEMMA SameGone ==
    ASSUME NEW id \in Ids
    PROVE  /\ PA!OwnGone(id) <=> id \in GoneBy(pcA, jobA)
           /\ PB!OwnGone(id) <=> id \in GoneBy(pcB, jobB)
  BY DEF PA!OwnGone, PB!OwnGone, GoneBy

LEMMA SameClaims ==
    ASSUME NEW n \in Names, NEW id \in Ids
    PROVE  PA!AllClaims(n, id) <=> PB!AllClaims(n, id)
<1>1. \A o \in PA!CopiesOf(n) : o \in PA!AllCopies(n)
  BY DEF PA!AllCopies
<1>2. \A o \in PB!CopiesOf(n) : o \in PB!AllCopies(n)
  BY DEF PB!AllCopies
<1>3. PA!Named(n, id) => PA!AllNamed(n, id)
  BY <1>1 DEF PA!Named, PA!AllNamed
<1>4. PB!Named(n, id) => PB!AllNamed(n, id)
  BY <1>2 DEF PB!Named, PB!AllNamed
<1>5. /\ PA!OwnSaved(n, id) <=> <<n, id>> \in SavedBy(pcA, jobA)
      /\ PB!OwnSaved(n, id) <=> <<n, id>> \in SavedBy(pcB, jobB)
      /\ PA!AllNamed(n, id) <=> PB!AllNamed(n, id)
  BY SameSaved, SameNames
<1> QED
  BY <1>3, <1>4, <1>5
  DEF PA!AllClaims, PA!Claims, PA!OwnSaved, PB!AllClaims, PB!Claims, PB!OwnSaved

LEMMA SameDoomed ==
    ASSUME NEW id
    PROVE  PA!AllDoomed(id) <=> PB!AllDoomed(id)
<1>1. \A n \in Names : \A o \in PA!CopiesOf(n) : o \in PA!AllCopies(n)
  BY DEF PA!AllCopies
<1>2. \A n \in Names : \A o \in PB!CopiesOf(n) : o \in PB!AllCopies(n)
  BY DEF PB!AllCopies
<1> QED
  BY <1>1, <1>2, SameCopies DEF PA!AllDoomed, PA!Doomed, PB!AllDoomed, PB!Doomed

LEMMA SameObjects == PA!Object = PB!Object
  BY DEF PA!Object, PB!Object, PA!ObjectsWith, PB!ObjectsWith, PA!Status, PB!Status,
     PA!Reasons, PB!Reasons

LEMMA SameJoint == PA!Joint <=> PB!Joint
<1>1. PA!AllCopied <=> PB!AllCopied
  BY SameCopies, SameObjects DEF PA!AllCopied, PB!AllCopied, PA!IsCopy, PB!IsCopy
<1>2. PA!IdUnderFinalizer <=> PB!IdUnderFinalizer
  BY DEF PA!IdUnderFinalizer, PB!IdUnderFinalizer
<1>3. PA!RecordedRowRemoved <=> PB!RecordedRowRemoved
  BY DEF PA!RecordedRowRemoved, PB!RecordedRowRemoved, PA!RowOf, PB!RowOf
<1>4. PA!AllUnshared <=> PB!AllUnshared
  BY SameClaims DEF PA!AllUnshared, PB!AllUnshared
<1>5. PA!AllDead <=> PB!AllDead
  <2>1. \A id \in Ids : PA!Dead(id) <=> PB!Dead(id)
    BY DEF PA!Dead, PB!Dead, PA!Live, PB!Live, PA!RowOf, PB!RowOf
  <2> QED
    BY <2>1, SameDoomed DEF PA!AllDead, PB!AllDead
<1>6. PA!AllFresh <=> PB!AllFresh
  BY SameSaved, SameFresh, SameNames DEF PA!AllFresh, PB!AllFresh
<1>7. PA!AllGone <=> PB!AllGone
  BY SameGone DEF PA!AllGone, PB!AllGone, PA!RowOf, PB!RowOf
<1> QED
  BY <1>1, <1>2, <1>3, <1>4, <1>5, <1>6, <1>7 DEF PA!Joint, PB!Joint

LEMMA SameJointNext == PA!Joint' <=> PB!Joint'
  BY SameJoint, PTL

(***************************************************************************)
(* A step of one process: the other stands still and watches.              *)
(***************************************************************************)
\* The inductive invariant: that of PeerProofs from the one side, and what the
\* process on the other side says of itself.
Inv == PA!PInv /\ PB!TypeOK /\ PB!JobHonest

LEMMA BothSides == Inv => PA!PInv /\ PB!PInv
  BY SameJoint DEF Inv, PA!PInv, PB!PInv

LEMMA InvFromB == PB!PInv /\ PA!TypeOK /\ PA!JobHonest => Inv
  BY SameJoint DEF Inv, PA!PInv, PB!PInv

LEMMA InvFromBNext == PB!PInv' /\ PA!TypeOK' /\ PA!JobHonest' => Inv'
  BY InvFromB, PTL

LEMMA NextSides == Next => (A!Next /\ OtherThanA) \/ (B!Next /\ OtherThanB)
  BY Zenon
  DEF Next, StartA, StartB, WorkA, WorkB, ManageA, ManageB, TroubleA, TroubleB, World,
      A!Next, A!Environment, B!Next, B!Environment

LEMMA SameRows == PA!Row = PB!Row /\ PA!Request = PB!Request
<1>1. PA!Row = PB!Row
  BY DEF PA!Row, PB!Row
<1> QED
  BY <1>1 DEF PA!Request, PB!Request

LEMMA Appended ==
    ASSUME NEW S, NEW s \in Seq(S), NEW e \in S, NEW i \in 1..Len(Append(s, e))
    PROVE  Append(s, e)[i] = e \/ \E j \in 1..Len(s) : Append(s, e)[i] = s[j]
<1>1. i \in Nat /\ i >= 1 /\ i <= Len(s) + 1 /\ Len(s) \in Nat
  OBVIOUS
<1> QED
  BY <1>1

\* What the watch tells the process that stands still.
LEMMA Watches ==
    ASSUME NEW Obj, NEW pending \in [Names -> Seq(Obj)], api' \in [Names -> Obj]
    PROVE  /\ Watched(pending) \in [Names -> Seq(Obj)]
           /\ \A n \in Names : \A i \in 1..Len(Watched(pending)[n]) :
                 \/ Watched(pending)[n][i] = api'[n]
                 \/ \E j \in 1..Len(pending[n]) : Watched(pending)[n][i] = pending[n][j]
<1>1. ASSUME NEW n \in Names
      PROVE  /\ Watched(pending)[n] \in Seq(Obj)
             /\ \A i \in 1..Len(Watched(pending)[n]) :
                 \/ Watched(pending)[n][i] = api'[n]
                 \/ \E j \in 1..Len(pending[n]) : Watched(pending)[n][i] = pending[n][j]
  <2>1. pending[n] \in Seq(Obj) /\ api'[n] \in Obj
    OBVIOUS
  <2>2. CASE api'[n] = api[n]
    <3>1. Watched(pending)[n] = pending[n]
      BY <2>2 DEF Watched
    <3> QED
      BY <2>1, <3>1
  <2>3. CASE api'[n] # api[n]
    <3>1. Watched(pending)[n] = Append(pending[n], api'[n])
      BY <2>3 DEF Watched
    <3> QED
      BY <2>1, <3>1, Appended
  <2> QED
    BY <2>2, <2>3
<1> QED
  BY <1>1 DEF Watched

LEMMA ApartFromA ==
    ASSUME PB!TypeOK, PA!TypeOK', OtherThanA
    PROVE  PA!Apart /\ PB!TypeOK' /\ (PB!JobHonest => PB!JobHonest')
<1>1. /\ pendingB \in [Names -> Seq(PB!Object)] /\ api' \in [Names -> PB!Object]
      /\ PA!KubeTypeOK' /\ PA!ServerTypeOK' /\ PA!RestTypeOK'
  <2>1. (PA!KubeTypeOK /\ PA!ServerTypeOK /\ PA!RestTypeOK)'
    BY DEF PA!TypeOK, PA!KubeTypeOK, PA!ServerTypeOK, PA!RestTypeOK
  <2> QED
    BY <2>1, SameObjects DEF PB!TypeOK, PA!KubeTypeOK
<1>2. /\ pendingB' = Watched(pendingB)
      /\ UNCHANGED <<cacheB, queueB, delayedB, pcB, jobB, secretSeenB>>
  BY DEF OtherThanA, ownB
<1>3. PA!Apart
  <2> SUFFICES ASSUME NEW n \in Names, NEW o \in CopiesIn(cacheB, pendingB, pcB, jobB)'[n]
               PROVE  o \in CopiesIn(cacheB, pendingB, pcB, jobB)[n] \/ o = api'[n]
    BY <1>2 DEF PA!Apart, SavedBy, FreshBy, GoneBy
  <2>1. ASSUME NEW i \in 1..Len(pendingB'[n]), o = pendingB'[n][i]
        PROVE  o = api'[n] \/ \E j \in 1..Len(pendingB[n]) : o = pendingB[n][j]
    BY <1>1, <1>2, <2>1, Watches
  <2> QED
    BY <1>2, <2>1 DEF CopiesIn
<1>4. PB!TypeOK'
  <2>1. pendingB' \in [Names -> Seq(PB!Object)]
    BY <1>1, <1>2, Watches
  <2>2. /\ cacheB' \in [Names -> PB!Object] /\ queueB' \subseteq Names
        /\ delayedB' \subseteq Names /\ pcB' \in PB!Steps /\ jobB' \in PB!Job
        /\ secretSeenB' \in [Names -> Creds \cup {NoCred}]
    BY <1>2 DEF PB!TypeOK
  <2>3. /\ rows' \subseteq PB!Row /\ (\A r \in rows' : r.id \in used')
        /\ used' \subseteq Ids /\ late' \subseteq PB!Request /\ disturbed' \subseteq Ids
    BY <1>1, SameRows DEF PA!ServerTypeOK
  <2>4. edits' \in Nat /\ secret' \in [Names -> Creds \cup {NoCred}] /\ faults' \in Nat
    BY <1>1 DEF PA!KubeTypeOK, PA!RestTypeOK
  <2> QED
    BY <1>1, <2>1, <2>2, <2>3, <2>4 DEF PB!TypeOK
<1>5. PB!JobHonest => PB!JobHonest'
  BY <1>2 DEF PB!JobHonest, PB!PushLive, PB!PushSteps, PB!DeleteSteps
<1> QED
  BY <1>3, <1>4, <1>5

LEMMA ApartFromB ==
    ASSUME PA!TypeOK, PB!TypeOK', OtherThanB
    PROVE  PB!Apart /\ PA!TypeOK' /\ (PA!JobHonest => PA!JobHonest')
<1>1. /\ pendingA \in [Names -> Seq(PA!Object)] /\ api' \in [Names -> PA!Object]
      /\ PB!KubeTypeOK' /\ PB!ServerTypeOK' /\ PB!RestTypeOK'
  <2>1. (PB!KubeTypeOK /\ PB!ServerTypeOK /\ PB!RestTypeOK)'
    BY DEF PB!TypeOK, PB!KubeTypeOK, PB!ServerTypeOK, PB!RestTypeOK
  <2> QED
    BY <2>1, SameObjects DEF PA!TypeOK, PB!KubeTypeOK
<1>2. /\ pendingA' = Watched(pendingA)
      /\ UNCHANGED <<cacheA, queueA, delayedA, pcA, jobA, secretSeenA>>
  BY DEF OtherThanB, ownA
<1>3. PB!Apart
  <2> SUFFICES ASSUME NEW n \in Names, NEW o \in CopiesIn(cacheA, pendingA, pcA, jobA)'[n]
               PROVE  o \in CopiesIn(cacheA, pendingA, pcA, jobA)[n] \/ o = api'[n]
    BY <1>2 DEF PB!Apart, SavedBy, FreshBy, GoneBy
  <2>1. ASSUME NEW i \in 1..Len(pendingA'[n]), o = pendingA'[n][i]
        PROVE  o = api'[n] \/ \E j \in 1..Len(pendingA[n]) : o = pendingA[n][j]
    BY <1>1, <1>2, <2>1, Watches
  <2> QED
    BY <1>2, <2>1 DEF CopiesIn
<1>4. PA!TypeOK'
  <2>1. pendingA' \in [Names -> Seq(PA!Object)]
    BY <1>1, <1>2, Watches
  <2>2. /\ cacheA' \in [Names -> PA!Object] /\ queueA' \subseteq Names
        /\ delayedA' \subseteq Names /\ pcA' \in PA!Steps /\ jobA' \in PA!Job
        /\ secretSeenA' \in [Names -> Creds \cup {NoCred}]
    BY <1>2 DEF PA!TypeOK
  <2>3. /\ rows' \subseteq PA!Row /\ (\A r \in rows' : r.id \in used')
        /\ used' \subseteq Ids /\ late' \subseteq PA!Request /\ disturbed' \subseteq Ids
    BY <1>1, SameRows DEF PB!ServerTypeOK
  <2>4. edits' \in Nat /\ secret' \in [Names -> Creds \cup {NoCred}] /\ faults' \in Nat
    BY <1>1 DEF PB!KubeTypeOK, PB!RestTypeOK
  <2> QED
    BY <1>1, <2>1, <2>2, <2>3, <2>4 DEF PA!TypeOK
<1>5. PA!JobHonest => PA!JobHonest'
  BY <1>2 DEF PA!JobHonest, PA!PushLive, PA!PushSteps, PA!DeleteSteps
<1> QED
  BY <1>3, <1>4, <1>5

\* A recorded ID is kept, and the record of a live object, by both alike.
Keeps == PA!IdKept /\ PA!RowsKept

(***************************************************************************)
(* The invariant is inductive.                                             *)
(***************************************************************************)
LEMMA InitInv == Init => Inv
<1> SUFFICES ASSUME Init PROVE Inv
  OBVIOUS
<1>1. PA!Init /\ PB!Init
  BY SameInitA, SameInitB DEF Init
<1>2. cacheB = api /\ pcB = "idle" /\ \A n \in Names : pendingB[n] = <<>>
  BY <1>1 DEF PB!Init, PB!KubeInit
<1>3. cacheA = api /\ pcA = "idle" /\ \A n \in Names : pendingA[n] = <<>>
  BY <1>1 DEF PA!Init, PA!KubeInit
<1>4. PA!PInv
  <2>1. ASSUME NEW n \in Names
        PROVE  CopiesIn(cacheB, pendingB, pcB, jobB)[n] \subseteq {api[n]}
    <3>1. \A i \in 1..Len(pendingB[n]) : FALSE
      BY <1>2
    <3> QED
      BY <1>2, <3>1 DEF CopiesIn
  <2>2. /\ SavedBy(pcB, jobB) = {} /\ FreshBy(pcB, jobB) = {} /\ GoneBy(pcB, jobB) = {}
    BY <1>2 DEF SavedBy, FreshBy, GoneBy
  <2> QED
    BY <1>1, <2>1, <2>2, Assumptions, PA!PeerInit
<1>5. PB!PInv
  <2>1. ASSUME NEW n \in Names
        PROVE  CopiesIn(cacheA, pendingA, pcA, jobA)[n] \subseteq {api[n]}
    <3>1. \A i \in 1..Len(pendingA[n]) : FALSE
      BY <1>3
    <3> QED
      BY <1>3, <3>1 DEF CopiesIn
  <2>2. /\ SavedBy(pcA, jobA) = {} /\ FreshBy(pcA, jobA) = {} /\ GoneBy(pcA, jobA) = {}
    BY <1>3 DEF SavedBy, FreshBy, GoneBy
  <2> QED
    BY <1>1, <2>1, <2>2, Assumptions, PB!PeerInit
<1> QED
  BY <1>4, <1>5 DEF Inv, PB!PInv

LEMMA StepOfA ==
    ASSUME Inv, [PA!Next]_(PA!vars), OtherThanA
    PROVE  Inv' /\ Keeps /\ [A!Promise!Next]_(A!Promise!vars)
<1>1. PA!PInv /\ PA!TypeOK /\ PB!TypeOK /\ PB!JobHonest
  BY DEF Inv, PA!PInv
<1>2. PA!TypeOK'
  BY <1>1, Assumptions, PA!NextType
<1>3. PA!Apart /\ PB!TypeOK' /\ PB!JobHonest'
  BY <1>1, <1>2, ApartFromA
<1>4. PA!PInv'
  BY <1>1, <1>3, Assumptions, PA!PeerStep
<1>5. [A!Promise!Next]_(A!Promise!vars)
  BY <1>1, Assumptions, PA!PeerImplements, SamePromiseA
<1>6. Keeps
  BY <1>1, Assumptions, PA!PeerKeepsIds, PA!PeerKeepsRows DEF Keeps
<1> QED
  BY <1>3, <1>4, <1>5, <1>6 DEF Inv

LEMMA StepOfB ==
    ASSUME Inv, [PB!Next]_(PB!vars), OtherThanB
    PROVE  Inv' /\ Keeps /\ [A!Promise!Next]_(A!Promise!vars)
<1>1. PB!PInv /\ PB!TypeOK /\ PA!TypeOK /\ PA!JobHonest
  BY BothSides DEF PA!PInv, PB!PInv
<1>2. PB!TypeOK'
  BY <1>1, Assumptions, PB!NextType
<1>3. PB!Apart /\ PA!TypeOK' /\ PA!JobHonest'
  BY <1>1, <1>2, ApartFromB
<1>4. PB!PInv'
  BY <1>1, <1>3, Assumptions, PB!PeerStep
<1>5. [A!Promise!Next]_(A!Promise!vars)
  BY <1>1, Assumptions, PB!PeerImplements, SamePromiseB
<1>6. Keeps
  <2>1. PB!IdKept /\ PB!RowsKept
    BY <1>1, Assumptions, PB!PeerKeepsIds, PB!PeerKeepsRows
  <2> QED
    BY <2>1 DEF Keeps, PA!IdKept, PA!RowsKept, PB!IdKept, PB!RowsKept, PA!ByStranger,
       PB!ByStranger, OtherThanB, ownA
<1> QED
  BY <1>3, <1>4, <1>5, <1>6, InvFromBNext

LEMMA NextInv ==
    ASSUME Inv, [Next]_vars
    PROVE  Inv' /\ Keeps /\ [A!Promise!Next]_(A!Promise!vars)
<1>1. CASE A!Next /\ OtherThanA
  BY <1>1, SameStepsA, StepOfA
<1>2. CASE B!Next /\ OtherThanB
  BY <1>2, SameStepsB, StepOfB
<1>3. CASE UNCHANGED vars
  <2>1. UNCHANGED PA!vars
    BY <1>3 DEF vars, ownA, PA!vars, PA!kubeVars, PA!serverVars, PA!secretVars
  <2>2. OtherThanA
    <3>1. /\ api' = api /\ pendingB' = pendingB
          /\ UNCHANGED <<cacheB, queueB, delayedB, pcB, jobB, secretSeenB>>
      BY <1>3 DEF vars, ownB
    <3>2. pendingB \in [Names -> Seq(PB!Object)]
      BY DEF Inv, PB!TypeOK
    <3>3. Watched(pendingB) = pendingB
      BY <3>1, <3>2 DEF Watched
    <3> QED
      BY <3>1, <3>3 DEF OtherThanA, ownB
  <2> QED
    BY <2>1, <2>2, StepOfA
<1> QED
  BY <1>1, <1>2, <1>3, NextSides

\* However the steps of two processes follow one another, each keeps its types and
\* the sense of its locals, and the two keep what Joint says of what both know.
THEOREM ReplicasInvariance == Spec => []Inv
<1>1. Init => Inv
  BY InitInv
<1>2. Inv /\ [Next]_vars => Inv'
  BY NextInv
<1> QED
  BY <1>1, <1>2, PTL DEF Spec

\* The object's record is gone when the object is, whichever process removed the
\* finalizer and whatever the other one was about to save.
THEOREM ReplicasRemoveRows == Spec => []RecordedRowRemoved
<1>1. Inv => RecordedRowRemoved
  BY DEF Inv, PA!PInv, PA!Joint, PA!RecordedRowRemoved, PA!RowOf,
     RecordedRowRemoved, A!RecordedRowRemoved, A!RowOf
<1> QED
  BY <1>1, ReplicasInvariance, PTL

\* Two processes keep the promise that one keeps: no lock, no election and no word
\* from one to the other is needed for it but the version check of the API server.
THEOREM ReplicasImplementSync == Spec => Implements
<1>1. Init => A!Promise!Init
  BY PromiseStarts DEF Init
<1>2. Inv /\ [Next]_vars => [A!Promise!Next]_(A!Promise!vars)
  BY NextInv
<1> QED
  BY <1>1, <1>2, ReplicasInvariance, PTL
  DEF Spec, Implements, A!Implements, A!Promise!Spec

\* Neither process loses or replaces the ID an object has recorded, however many
\* status updates the two have under way.
THEOREM ReplicasKeepIds == Spec => A!IdStable
<1>1. Inv /\ [Next]_vars => PA!IdKept
  BY NextInv DEF Keeps
<1>2. Spec => [][PA!IdKept]_(A!vars)
  BY <1>1, ReplicasInvariance, PTL DEF Spec
<1> QED
  BY <1>2 DEF A!IdStable, PA!IdKept

\* Neither process deletes the record of an object nobody asked to delete, also not
\* one that the other process has saved or recorded meanwhile.
THEOREM ReplicasKeepRows == Spec => A!LiveRowNeverDeleted
<1>1. Inv /\ [Next]_vars => PA!RowsKept
  BY NextInv DEF Keeps
<1>2. Spec => [][PA!RowsKept]_(A!vars)
  BY <1>1, ReplicasInvariance, PTL DEF Spec
<1> QED
  BY <1>2 DEF A!LiveRowNeverDeleted, PA!RowsKept, A!ByStranger, PA!ByStranger
=============================================================================
