------------------------------ MODULE Replicas ------------------------------
(***************************************************************************)
(* Two processes of the operator at work on the same objects: main.go only *)
(* elects a leader when it is started with --leader-elect (which the chart *)
(* sets and the flag's default does not), and replicaCount is a value of   *)
(* the chart.  The processes share the API server and databasus; each has  *)
(* a cache, a queue and a worker of its own.  Both are instances of        *)
(* ResourceController; what one stores reaches the other as a watch event. *)
(***************************************************************************)
EXTENDS Naturals, Sequences

CONSTANTS Names, Specs, MaxEdits, Incomplete, NoRef, OneRef, Ids, NoId, Creds,
          NoCred, MaxFaults, OutOfBand

\* What both instances of ResourceController assume.
ASSUME ReplicasAssumption ==
    /\ Names # {}
    /\ Specs # {}
    /\ MaxEdits \in Nat
    /\ Incomplete \subseteq Specs
    /\ NoRef \subseteq Specs
    /\ OneRef \subseteq Specs \ NoRef
    /\ NoId \notin Ids
    /\ NoCred \notin Creds
    /\ MaxFaults \in Nat
    /\ OutOfBand \in BOOLEAN

VARIABLES
    api, edits, rows, used, late, disturbed, secret, faults,
    cacheA, pendingA, queueA, delayedA, pcA, jobA, secretSeenA,
    cacheB, pendingB, queueB, delayedB, pcB, jobB, secretSeenB

ownA == <<cacheA, queueA, delayedA, pcA, jobA, secretSeenA>>
ownB == <<cacheB, queueB, delayedB, pcB, jobB, secretSeenB>>
vars == <<api, edits, rows, used, late, disturbed, secret, faults,
          ownA, pendingA, ownB, pendingB>>

A == INSTANCE ResourceController WITH
    cache <- cacheA, pending <- pendingA, queue <- queueA, delayed <- delayedA,
    pc <- pcA, job <- jobA, secretSeen <- secretSeenA

B == INSTANCE ResourceController WITH
    cache <- cacheB, pending <- pendingB, queue <- queueB, delayed <- delayedB,
    pc <- pcB, job <- jobB, secretSeen <- secretSeenB

Init == A!Init /\ B!Init

\* Both processes watch: what is stored in this step reaches the other one, too.
Watched(pending) ==
    [n \in Names |-> IF api'[n] = api[n] THEN pending[n]
                                         ELSE Append(pending[n], api'[n])]

OtherThanA == pendingB' = Watched(pendingB) /\ UNCHANGED ownB
OtherThanB == pendingA' = Watched(pendingA) /\ UNCHANGED ownA

StartA(n) == A!Start(n) /\ OtherThanA
StartB(n) == B!Start(n) /\ OtherThanB
WorkA == A!Worker /\ OtherThanA
WorkB == B!Worker /\ OtherThanB
ManageA(n) == (A!Manager(n) \/ A!DeliverSecret(n)) /\ OtherThanA
ManageB(n) == (B!Manager(n) \/ B!DeliverSecret(n)) /\ OtherThanB

TroubleA == (A!CallFails \/ A!KubeWriteFails \/ A!Restart) /\ OtherThanA
TroubleB == (B!CallFails \/ B!KubeWriteFails \/ B!Restart) /\ OtherThanB

\* Users and databasus are nobody's: A stands for both processes as an observer.
World ==
    /\ \/ \E n \in Names : A!User(n)
       \/ \E q \in late : A!ServeLate(q)
       \/ \E id \in Ids : A!RemoveOutOfBand(id)
    /\ OtherThanA

Next ==
    \/ \E n \in Names : StartA(n) \/ StartB(n) \/ ManageA(n) \/ ManageB(n)
    \/ WorkA
    \/ WorkB
    \/ TroubleA
    \/ TroubleB
    \/ World

Spec == Init /\ [][Next]_vars

(***************************************************************************)
(* Properties.                                                             *)
(***************************************************************************)
\* The promise of RecordSync is kept by two processes as it is by one: the version
\* check of the API server alone carries it.  (What two processes do not keep is
\* PushUnderFinalizer and SyncedRowMatches of ResourceController: a second process
\* may save for an object whose finalizer the first has just removed, or save an
\* older spec over the one the first has reported.)
Implements == A!Implements

\* The finalizer's work is not undone by the other process: nothing it saves from
\* an older copy brings the record back after the object is gone.
RecordedRowRemoved == A!RecordedRowRemoved
=============================================================================
