------------------------ MODULE DatabaseBackupProofs ------------------------
(***************************************************************************)
(* Theorems about DatabaseBackupController, for any number of objects,     *)
(* specs, IDs and Secret versions and any bound on edits and faults, in    *)
(* three parts.                                                            *)
(*                                                                         *)
(* (1) Type correctness and two properties of the chain of three requests. *)
(* (2) The invariant by which the finalizer, the version check and the     *)
(* recorded ID keep an object and its database in step. This part looks at *)
(* a step in two stages: first every action is put into one of the cases   *)
(* of Moves, which say what becomes of the object, of the worker's copy of *)
(* it and of the databases; then each part of the invariant is shown once, *)
(* from these cases.                                                       *)
(*                                                                         *)
(* (3) A Ready object stands for all the requests of one pass, and every   *)
(* step is one of RecordSync. The argument: an ID belongs to one object,   *)
(* once an object that is being deleted carries an ID no live object does, *)
(* and what a pass has sent under its ID stays in databasus while the      *)
(* object it read is the present one.                                      *)
(***************************************************************************)
EXTENDS DatabaseBackupController, TLAPS

(***************************************************************************)
(* The lemmas about KubeObjects: which versions of an object are known     *)
(* outside the API server, how a write, a watch event and a new list       *)
(* change them, and why a write that carries the present version was       *)
(* computed by somebody who knows everything about the object.  Statuses   *)
(* is what the .status of the kind may hold.                               *)
(***************************************************************************)

KubeTyped(Statuses) ==
    /\ api \in [Names -> ObjectsWith(Statuses)]
    /\ cache \in [Names -> ObjectsWith(Statuses)]
    /\ pending \in [Names -> Seq(ObjectsWith(Statuses))]
    /\ queue \subseteq Names
    /\ delayed \subseteq Names
    /\ edits \in Nat

(***************************************************************************)
(* The versions of n that the API server, the cache and the watch know.    *)
(***************************************************************************)
VersionsOf(n) == {api[n], cache[n]} \cup {pending[n][i] : i \in 1..Len(pending[n])}

\* What is known of n is one of its past versions, and the present version is
\* known only as what it is.
IsCopy(n, o) ==
    /\ o.rv <= api[n].rv
    /\ o.rv = api[n].rv => o = api[n]

Copies == \A n \in Names : \A o \in VersionsOf(n) : IsCopy(n, o)

\* Events come in the order of their versions, all newer than the cache.
Ordered ==
    \A n \in Names :
       /\ \A i \in 1..Len(pending[n]) : cache[n].rv < pending[n][i].rv
       /\ \A i, j \in 1..Len(pending[n]) : i < j => pending[n][i].rv < pending[n][j].rv

KubeInv == Copies /\ Ordered

\* No version becomes known but the present one, the API server moves an object on
\* by one version or leaves it, and the cache never goes back.
KubeMoves ==
    /\ \A n \in Names : \A o \in VersionsOf(n)' : o \in VersionsOf(n) \/ o = api'[n]
    /\ \A n \in Names : api'[n] = api[n] \/ api'[n].rv = api[n].rv + 1
    /\ \A n \in Names : cache[n].rv <= cache'[n].rv

LEMMA InVersions ==
    ASSUME NEW n, NEW o
    PROVE  o \in VersionsOf(n) <=>
              \/ o = api[n]
              \/ o = cache[n]
              \/ \E i \in 1..Len(pending[n]) : o = pending[n][i]
  BY DEF VersionsOf

\* Versions are objects, and their numbers are natural.
LEMMA VersionTypes ==
    ASSUME NEW Statuses, KubeTyped(Statuses), NEW n \in Names
    PROVE  /\ Len(pending[n]) \in Nat
           /\ \A o \in VersionsOf(n) : o \in ObjectsWith(Statuses) /\ o.rv \in Nat
           /\ api[n] \in ObjectsWith(Statuses) /\ api[n].rv \in Nat
           /\ cache[n] \in ObjectsWith(Statuses) /\ cache[n].rv \in Nat
           /\ \A i \in 1..Len(pending[n]) :
                 pending[n][i] \in ObjectsWith(Statuses) /\ pending[n][i].rv \in Nat
<1>1. /\ api[n] \in ObjectsWith(Statuses) /\ cache[n] \in ObjectsWith(Statuses)
      /\ pending[n] \in Seq(ObjectsWith(Statuses))
  BY DEF KubeTyped
<1>2. \A i \in 1..Len(pending[n]) : pending[n][i] \in ObjectsWith(Statuses)
  BY <1>1
<1>3. \A o \in ObjectsWith(Statuses) : o.rv \in Nat
  BY DEF ObjectsWith
<1>4. Len(pending[n]) \in Nat
  BY <1>1
<1> QED
  BY <1>1, <1>2, <1>3, <1>4, InVersions

(***************************************************************************)
(* A write.                                                                *)
(***************************************************************************)
\* It stores what is written as the next version of one object, and appends its event.
LEMMA StoreEffect ==
    ASSUME NEW Statuses, KubeTyped(Statuses),
           NEW n \in Names, NEW o \in ObjectsWith(Statuses), Store(n, o)
    PROVE  /\ api'[n].rv = api[n].rv + 1
           /\ api'[n].exists = o.exists /\ api'[n].deleting = o.deleting
           /\ api'[n].finalizer = o.finalizer /\ api'[n].status = o.status
           /\ api'[n].gen = o.gen /\ api'[n].spec = o.spec
           /\ \A m \in Names \ {n} : api'[m] = api[m] /\ pending'[m] = pending[m]
           /\ pending'[n] = Append(pending[n], api'[n])
<1> DEFINE stored == [o EXCEPT !.rv = api[n].rv + 1]
<1>1. api'[n] = stored /\ pending'[n] = Append(pending[n], stored)
  BY DEF Store, KubeTyped
<1>2. /\ stored.rv = api[n].rv + 1
      /\ stored.exists = o.exists /\ stored.deleting = o.deleting
      /\ stored.finalizer = o.finalizer /\ stored.status = o.status
      /\ stored.gen = o.gen /\ stored.spec = o.spec
  BY DEF ObjectsWith
<1>3. \A m \in Names \ {n} : api'[m] = api[m] /\ pending'[m] = pending[m]
  BY DEF Store, KubeTyped
<1> HIDE DEF stored
<1> QED
  BY <1>1, <1>2, <1>3

\* The types of what a write stores.
LEMMA StoreTyped ==
    ASSUME NEW Statuses, KubeTyped(Statuses),
           NEW n \in Names, NEW o \in ObjectsWith(Statuses), Store(n, o)
    PROVE  /\ api' \in [Names -> ObjectsWith(Statuses)]
           /\ pending' \in [Names -> Seq(ObjectsWith(Statuses))]
<1> DEFINE stored == [o EXCEPT !.rv = api[n].rv + 1]
<1>0. api[n].rv + 1 \in Nat
  BY VersionTypes
<1>1. stored \in ObjectsWith(Statuses)
  BY <1>0, Zenon DEF ObjectsWith
<1>2. Append(pending[n], stored) \in Seq(ObjectsWith(Statuses))
  BY <1>1 DEF KubeTyped
<1> QED
  BY <1>1, <1>2 DEF KubeTyped, Store

LEMMA AppendElements ==
    ASSUME NEW S, NEW s \in Seq(S), NEW e \in S
    PROVE  /\ Len(Append(s, e)) = Len(s) + 1
           /\ \A i \in 1..Len(s) : Append(s, e)[i] = s[i]
           /\ Append(s, e)[Len(s) + 1] = e
           /\ \A i \in 1..Len(Append(s, e)) : i \in 1..Len(s) \/ i = Len(s) + 1
  OBVIOUS

\* How the events of the object grow.
LEMMA StoreEvents ==
    ASSUME NEW Statuses, KubeTyped(Statuses),
           NEW n \in Names, NEW o \in ObjectsWith(Statuses), Store(n, o)
    PROVE  /\ Len(pending[n]) \in Nat
           /\ Len(pending'[n]) = Len(pending[n]) + 1
           /\ \A i \in 1..Len(pending[n]) : pending'[n][i] = pending[n][i]
           /\ pending'[n][Len(pending[n]) + 1] = api'[n]
           /\ \A i \in 1..Len(pending'[n]) : i \in 1..Len(pending[n]) \/ i = Len(pending[n]) + 1
<1>1. pending'[n] = Append(pending[n], api'[n])
  BY StoreEffect
<1>2. pending[n] \in Seq(ObjectsWith(Statuses))
  BY DEF KubeTyped
<1>3. api'[n] \in ObjectsWith(Statuses)
  BY StoreTyped
<1> QED
  BY <1>1, <1>2, <1>3, AppendElements, VersionTypes

LEMMA StoreMoves ==
    ASSUME NEW Statuses, KubeTyped(Statuses),
           NEW n \in Names, NEW o \in ObjectsWith(Statuses), Store(n, o), cache' = cache
    PROVE  KubeMoves
<1>1. ASSUME NEW m \in Names, NEW v \in VersionsOf(m)'
      PROVE  v \in VersionsOf(m) \/ v = api'[m]
  <2>1. \/ v = api'[m]
        \/ v = cache[m]
        \/ \E i \in 1..Len(pending'[m]) : v = pending'[m][i]
    BY <1>1 DEF VersionsOf
  <2>2. CASE m # n
    BY <2>1, <2>2, StoreEffect, InVersions
  <2>3. CASE m = n
    BY <2>1, <2>3, StoreEvents, InVersions
  <2> QED
    BY <2>2, <2>3
<1>2. \A m \in Names : api'[m] = api[m] \/ api'[m].rv = api[m].rv + 1
  BY StoreEffect
<1>3. \A m \in Names : cache[m].rv <= cache'[m].rv
  BY VersionTypes
<1> QED
  BY <1>1, <1>2, <1>3 DEF KubeMoves

LEMMA StoreOrdered ==
    ASSUME NEW Statuses, KubeTyped(Statuses), KubeInv,
           NEW n \in Names, NEW o \in ObjectsWith(Statuses), Store(n, o), cache' = cache
    PROVE  Ordered'
<1> SUFFICES ASSUME NEW m \in Names
             PROVE  /\ \A i \in 1..Len(pending'[m]) : cache[m].rv < pending'[m][i].rv
                    /\ \A i, j \in 1..Len(pending'[m]) :
                          i < j => pending'[m][i].rv < pending'[m][j].rv
  BY DEF Ordered
<1>1. CASE m # n
  BY <1>1, StoreEffect DEF KubeInv, Ordered
<1>2. CASE m = n
  <2>0. /\ api[n].rv \in Nat /\ cache[n].rv \in Nat /\ Len(pending[n]) \in Nat
        /\ \A i \in 1..Len(pending[n]) : pending[n][i].rv \in Nat
    BY VersionTypes
  <2>1. /\ cache[n].rv <= api[n].rv
        /\ \A i \in 1..Len(pending[n]) : pending[n][i].rv <= api[n].rv
    BY InVersions DEF KubeInv, Copies, IsCopy
  <2>2. pending'[n][Len(pending[n]) + 1].rv = api[n].rv + 1
    BY StoreEffect, StoreEvents
  <2>3. ASSUME NEW i \in 1..Len(pending'[n]) PROVE cache[n].rv < pending'[n][i].rv
    <3>1. CASE i \in 1..Len(pending[n])
      BY <3>1, StoreEvents DEF KubeInv, Ordered
    <3>2. CASE i = Len(pending[n]) + 1
      BY <2>0, <2>1, <2>2, <3>2
    <3> QED
      BY <3>1, <3>2, StoreEvents
  <2>4. ASSUME NEW i \in 1..Len(pending'[n]), NEW j \in 1..Len(pending'[n]), i < j
        PROVE  pending'[n][i].rv < pending'[n][j].rv
    <3>1. i \in 1..Len(pending[n])
      BY <2>0, <2>4, StoreEvents
    <3>2. CASE j \in 1..Len(pending[n])
      BY <2>4, <3>1, <3>2, StoreEvents DEF KubeInv, Ordered
    <3>3. CASE j = Len(pending[n]) + 1
      <4>1. pending'[n][i] = pending[n][i] /\ pending[n][i].rv <= api[n].rv
        BY <2>1, <3>1, StoreEvents
      <4>2. pending[n][i].rv \in Nat
        BY <2>0, <3>1
      <4> QED
        BY <2>0, <2>2, <3>3, <4>1, <4>2
    <3> QED
      BY <3>2, <3>3, StoreEvents
  <2> QED
    BY <1>2, <2>3, <2>4
<1> QED
  BY <1>1, <1>2

(***************************************************************************)
(* A watch event, and the list of a new manager.                           *)
(***************************************************************************)
LEMMA TailElements ==
    ASSUME NEW S, NEW s \in Seq(S), s # <<>>
    PROVE  /\ Len(s) \in Nat \ {0}
           /\ Head(s) = s[1]
           /\ Len(Tail(s)) = Len(s) - 1
           /\ \A i \in 1..Len(Tail(s)) : Tail(s)[i] = s[i + 1]
  OBVIOUS

LEMMA DeliverEffect ==
    ASSUME NEW Statuses, KubeTyped(Statuses), NEW n \in Names, DeliverEvent(n)
    PROVE  /\ api' = api
           /\ 1 \in 1..Len(pending[n])
           /\ cache'[n] = pending[n][1]
           /\ \A i \in 1..Len(pending'[n]) :
                 i \in Nat /\ i + 1 \in 1..Len(pending[n]) /\ pending'[n][i] = pending[n][i + 1]
           /\ \A m \in Names \ {n} : cache'[m] = cache[m] /\ pending'[m] = pending[m]
<1>1. pending[n] \in Seq(ObjectsWith(Statuses)) /\ pending[n] # <<>>
  BY DEF KubeTyped, DeliverEvent
<1>2. cache'[n] = Head(pending[n]) /\ pending'[n] = Tail(pending[n])
  BY DEF KubeTyped, DeliverEvent
<1>3. \A m \in Names \ {n} : cache'[m] = cache[m] /\ pending'[m] = pending[m]
  BY DEF KubeTyped, DeliverEvent
<1>4. api' = api
  BY DEF DeliverEvent
<1> QED
  BY <1>1, <1>2, <1>3, <1>4, TailElements

LEMMA DeliverMoves ==
    ASSUME NEW Statuses, KubeTyped(Statuses), KubeInv, NEW n \in Names, DeliverEvent(n)
    PROVE  KubeMoves /\ Ordered'
<1>1. ASSUME NEW m \in Names, NEW v \in VersionsOf(m)'
      PROVE  v \in VersionsOf(m) \/ v = api'[m]
  <2>1. \/ v = api'[m]
        \/ v = cache'[m]
        \/ \E i \in 1..Len(pending'[m]) : v = pending'[m][i]
    BY <1>1 DEF VersionsOf
  <2>2. CASE m # n
    BY <2>1, <2>2, DeliverEffect, InVersions
  <2>3. CASE m = n
    BY <2>1, <2>3, DeliverEffect, InVersions
  <2> QED
    BY <2>2, <2>3
<1>2. ASSUME NEW m \in Names
      PROVE  cache[m].rv <= cache'[m].rv
  <2>1. CASE m # n
    BY <2>1, DeliverEffect, VersionTypes
  <2>2. CASE m = n
    <3>1. cache[n].rv < pending[n][1].rv /\ cache'[n] = pending[n][1]
      BY DeliverEffect DEF KubeInv, Ordered
    <3>2. cache[n].rv \in Nat /\ pending[n][1].rv \in Nat
      BY DeliverEffect, VersionTypes
    <3> QED
      BY <2>2, <3>1, <3>2
  <2> QED
    BY <2>1, <2>2
<1>3. Ordered'
  <2> SUFFICES ASSUME NEW m \in Names
               PROVE  /\ \A i \in 1..Len(pending'[m]) : cache'[m].rv < pending'[m][i].rv
                      /\ \A i, j \in 1..Len(pending'[m]) :
                            i < j => pending'[m][i].rv < pending'[m][j].rv
    BY DEF Ordered
  <2>1. CASE m # n
    BY <2>1, DeliverEffect DEF KubeInv, Ordered
  <2>2. ASSUME NEW i \in 1..Len(pending'[n]) PROVE cache'[n].rv < pending'[n][i].rv
    <3>1. i + 1 \in 1..Len(pending[n]) /\ 1 \in 1..Len(pending[n]) /\ 1 < i + 1
      BY DeliverEffect
    <3> QED
      BY <3>1, DeliverEffect DEF KubeInv, Ordered
  <2>3. ASSUME NEW i \in 1..Len(pending'[n]), NEW j \in 1..Len(pending'[n]), i < j
        PROVE  pending'[n][i].rv < pending'[n][j].rv
    <3>1. i + 1 \in 1..Len(pending[n]) /\ j + 1 \in 1..Len(pending[n]) /\ i + 1 < j + 1
      BY <2>3, DeliverEffect
    <3> QED
      BY <3>1, DeliverEffect DEF KubeInv, Ordered
  <2> QED
    BY <2>1, <2>2, <2>3
<1> QED
  BY <1>1, <1>2, <1>3, DeliverEffect DEF KubeMoves

LEMMA RelistMoves ==
    ASSUME NEW Statuses, KubeTyped(Statuses), KubeInv, Relist
    PROVE  KubeMoves /\ Ordered'
<1>1. api' = api /\ cache' = api /\ \A n \in Names : pending'[n] = <<>>
  BY DEF Relist
<1>2. \A n \in Names : 1..Len(pending'[n]) = {}
  BY <1>1
<1>3. \A n \in Names : \A o \in VersionsOf(n)' : o = api'[n]
  BY <1>1, <1>2 DEF VersionsOf
<1>4. \A n \in Names : cache[n].rv <= api[n].rv
  BY InVersions DEF KubeInv, Copies, IsCopy
<1>5. Ordered'
  BY <1>2 DEF Ordered
<1> QED
  BY <1>1, <1>3, <1>4, <1>5 DEF KubeMoves

LEMMA QuietMoves ==
    ASSUME NEW Statuses, KubeTyped(Statuses), KubeInv, UNCHANGED <<api, cache, pending>>
    PROVE  KubeMoves /\ Ordered'
<1>1. \A n \in Names : VersionsOf(n)' = VersionsOf(n)
  BY DEF VersionsOf
<1>2. \A n \in Names : cache[n].rv <= cache[n].rv
  BY VersionTypes
<1>3. KubeMoves
  BY <1>1, <1>2 DEF KubeMoves
<1>4. Ordered'
  BY DEF KubeInv, Ordered
<1> QED
  BY <1>3, <1>4

(***************************************************************************)
(* What the lemmas above come to.                                          *)
(***************************************************************************)
\* A copy stays one: of the present version, or of a past one from now on.
LEMMA CopyKept ==
    ASSUME NEW n, api[n].rv \in Nat, NEW o, o.rv \in Nat, IsCopy(n, o),
           api'[n] = api[n] \/ api'[n].rv = api[n].rv + 1
    PROVE  IsCopy(n, o)'
  BY DEF IsCopy

LEMMA MovesKeepCopies ==
    ASSUME NEW Statuses, KubeTyped(Statuses), KubeTyped(Statuses)', KubeInv, KubeMoves, Ordered'
    PROVE  KubeInv'
<1> SUFFICES ASSUME NEW n \in Names, NEW o \in VersionsOf(n)'
             PROVE  IsCopy(n, o)'
  BY DEF KubeInv, Copies
<1>1. api[n].rv \in Nat /\ api'[n].rv \in Nat
  BY DEF KubeTyped, ObjectsWith
<1>2. CASE o = api'[n]
  BY <1>1, <1>2 DEF IsCopy
<1>3. CASE o \in VersionsOf(n)
  <2>1. o.rv \in Nat /\ IsCopy(n, o)
    BY <1>3, VersionTypes DEF KubeInv, Copies
  <2> QED
    BY <1>1, <2>1, CopyKept DEF KubeMoves
<1> QED
  BY <1>2, <1>3 DEF KubeMoves

\* Once the cache shows the present version, no other one is known.
LEMMA CaughtUp ==
    ASSUME NEW Statuses, KubeTyped(Statuses), KubeInv, NEW n \in Names,
           api[n].rv <= cache[n].rv
    PROVE  \A o \in VersionsOf(n) : o = api[n]
<1>1. /\ cache[n].rv <= api[n].rv
      /\ cache[n].rv = api[n].rv => cache[n] = api[n]
      /\ \A i \in 1..Len(pending[n]) : pending[n][i].rv <= api[n].rv
      /\ \A i \in 1..Len(pending[n]) : cache[n].rv < pending[n][i].rv
  BY InVersions DEF KubeInv, Copies, Ordered, IsCopy
<1>2. /\ api[n].rv \in Nat /\ cache[n].rv \in Nat
      /\ \A i \in 1..Len(pending[n]) : pending[n][i].rv \in Nat
  BY VersionTypes
<1>3. cache[n] = api[n]
  BY <1>1, <1>2
<1>4. ASSUME NEW i \in 1..Len(pending[n]) PROVE FALSE
  BY <1>1, <1>2, <1>3
<1> QED
  BY <1>3, <1>4, InVersions

(***************************************************************************)
(* Type correctness.  TypeOK falls into four parts, one for each group of  *)
(* variables.                                                              *)
(***************************************************************************)
KubeTypeOK ==
    /\ api \in [Names -> Object]
    /\ cache \in [Names -> Object]
    /\ pending \in [Names -> Seq(Object)]
    /\ queue \subseteq Names
    /\ delayed \subseteq Names
    /\ edits \in Nat

LocalTypeOK == pc \in Steps /\ job \in Job

StoreTypeOK ==
    /\ databases \subseteq Database
    /\ \A d \in databases : d.id \in used
    /\ used \subseteq Ids

ServerTypeOK ==
    /\ StoreTypeOK
    /\ late \subseteq Request
    /\ disturbed \subseteq Ids \X Parts

RestTypeOK ==
    /\ deps \in [Kinds -> Dependency]
    /\ secret \in [Names -> Creds \cup {NoCred}]
    /\ faults \in Nat

LEMMA TypeParts ==
    TypeOK <=> KubeTypeOK /\ LocalTypeOK /\ ServerTypeOK /\ RestTypeOK
  BY DEF TypeOK, KubeTypeOK, LocalTypeOK, StoreTypeOK, ServerTypeOK, RestTypeOK

LEMMA TypePartsNext ==
    ASSUME KubeTypeOK', LocalTypeOK', ServerTypeOK', RestTypeOK'
    PROVE  TypeOK'
  BY DEF TypeOK, KubeTypeOK, LocalTypeOK, StoreTypeOK, ServerTypeOK, RestTypeOK

\* What is left alone keeps its type.
LEMMA KubeKept ==
    ASSUME KubeTypeOK, UNCHANGED kubeVars PROVE KubeTypeOK'
  BY DEF KubeTypeOK, kubeVars

LEMMA LocalKept ==
    ASSUME LocalTypeOK, UNCHANGED <<pc, job>> PROVE LocalTypeOK'
  BY DEF LocalTypeOK

LEMMA ServerKept ==
    ASSUME ServerTypeOK, UNCHANGED serverVars PROVE ServerTypeOK'
  BY DEF ServerTypeOK, StoreTypeOK, serverVars

LEMMA RestKept ==
    ASSUME RestTypeOK, UNCHANGED inputVars, UNCHANGED faults \/ Fault PROVE RestTypeOK'
  BY DatabaseBackupAssumption DEF RestTypeOK, inputVars, Fault

\* The values the program starts from.
LEMMA InitialValues ==
    /\ NoStatus \in Status
    /\ NeverCreated(NoStatus) \in Object
    /\ NoJob \in Job
<1>1. NoStatus \in Status
  BY DEF NoStatus, Status, Reasons, Healths
<1>2. (CHOOSE s \in Specs : TRUE) \in Specs
  BY KubeAssumption
<1>3. NeverCreated(NoStatus) \in Object
  BY <1>1, <1>2 DEF NeverCreated, Object, ObjectsWith
<1>4. (CHOOSE n \in Names : TRUE) \in Names
  BY KubeAssumption
<1>5. NoJob \in Job
  BY <1>3, <1>4 DEF NoJob, Job, Reasons
<1> QED
  BY <1>1, <1>3, <1>5

(***************************************************************************)
(* Objects and their watch events.                                         *)
(***************************************************************************)
\* A write keeps the types of the objects and of their events.
LEMMA StoreType ==
    ASSUME KubeTypeOK, NEW n \in Names, NEW o \in Object, Store(n, o)
    PROVE  api' \in [Names -> Object] /\ pending' \in [Names -> Seq(Object)]
<1> DEFINE stored == [o EXCEPT !.rv = api[n].rv + 1]
<1>0. api[n].rv + 1 \in Nat
  BY DEF KubeTypeOK, Object, ObjectsWith
<1>1. stored \in Object
  BY <1>0, Zenon DEF Object, ObjectsWith
<1>2. Append(pending[n], stored) \in Seq(Object)
  BY <1>1 DEF KubeTypeOK
<1> QED
  BY <1>1, <1>2 DEF KubeTypeOK, Store

\* What the reconciler and the users write are objects.
LEMMA ObjectUpdates ==
    ASSUME NEW o \in Object
    PROVE  /\ [o EXCEPT !.finalizer = TRUE] \in Object
           /\ [o EXCEPT !.finalizer = FALSE, !.exists = FALSE] \in Object
           /\ [o EXCEPT !.exists = FALSE] \in Object
           /\ [o EXCEPT !.deleting = TRUE, !.gen = @ + 1] \in Object
           /\ \A s \in Specs : [o EXCEPT !.spec = s, !.gen = @ + 1] \in Object
           /\ \A t \in Status : [o EXCEPT !.status = t] \in Object
<1>1. o.gen + 1 \in Nat
  BY DEF Object, ObjectsWith
<1>2. [o EXCEPT !.finalizer = TRUE] \in Object
  BY Zenon DEF Object, ObjectsWith
<1>3. [o EXCEPT !.finalizer = FALSE, !.exists = FALSE] \in Object
  BY Zenon DEF Object, ObjectsWith
<1>4. [o EXCEPT !.exists = FALSE] \in Object
  BY Zenon DEF Object, ObjectsWith
<1>5. [o EXCEPT !.deleting = TRUE, !.gen = o.gen + 1] \in Object
  BY <1>1, Zenon DEF Object, ObjectsWith
<1>6. \A s \in Specs : [o EXCEPT !.spec = s, !.gen = o.gen + 1] \in Object
  BY <1>1, Zenon DEF Object, ObjectsWith
<1>7. \A t \in Status : [o EXCEPT !.status = t] \in Object
  BY Zenon DEF Object, ObjectsWith
<1> QED
  BY <1>2, <1>3, <1>4, <1>5, <1>6, <1>7

\* A user's write stores an object: a new one, an edit or a deletion mark.
LEMMA UserStores ==
    ASSUME KubeTypeOK, NEW n \in Names, User(n)
    PROVE  \E o \in Object :
              /\ Store(n, o)
              /\ o.status \in {NoStatus, api[n].status}
<1>0. api[n] \in Object
  BY DEF KubeTypeOK
<1>1. ASSUME NEW s \in Specs, CreateObject(n, s, NoStatus)
      PROVE  \E o \in Object : Store(n, o) /\ o.status = NoStatus
  <2> DEFINE o == [exists |-> TRUE, rv |-> 0, gen |-> 1, spec |-> s, deleting |-> FALSE,
                   finalizer |-> FALSE, status |-> NoStatus]
  <2>1. o \in Object /\ o.status = NoStatus
    BY InitialValues DEF Object, ObjectsWith
  <2>2. Store(n, o)
    BY <1>1 DEF CreateObject
  <2> QED
    BY <2>1, <2>2
<1>2. ASSUME NEW s \in Specs, EditSpec(n, s)
      PROVE  \E o \in Object : Store(n, o) /\ o.status = api[n].status
  <2> DEFINE o == [api[n] EXCEPT !.spec = s, !.gen = @ + 1]
  <2>1. o \in Object
    BY <1>0, ObjectUpdates
  <2>2. o.status = api[n].status
    BY <1>0 DEF Object, ObjectsWith
  <2>3. Store(n, o)
    BY <1>2 DEF EditSpec
  <2> QED
    BY <2>1, <2>2, <2>3
<1>3. ASSUME DeleteObject(n)
      PROVE  \E o \in Object : Store(n, o) /\ o.status = api[n].status
  <2>1. PICK o \in {[api[n] EXCEPT !.deleting = TRUE, !.gen = @ + 1],
                    [api[n] EXCEPT !.exists = FALSE]} : Store(n, o)
    BY <1>3 DEF DeleteObject
  <2>2. o \in Object
    BY <1>0, <2>1, ObjectUpdates
  <2>3. o.status = api[n].status
    BY <1>0, <2>1 DEF Object, ObjectsWith
  <2> QED
    BY <2>1, <2>2, <2>3
<1> QED
  BY <1>1, <1>2, <1>3 DEF User

LEMMA UserType ==
    ASSUME TypeOK, NEW n \in Names, User(n)
    PROVE  TypeOK'
<1>0. KubeTypeOK /\ LocalTypeOK /\ ServerTypeOK /\ RestTypeOK
  BY TypeParts
<1>1. api' \in [Names -> Object] /\ pending' \in [Names -> Seq(Object)]
  BY <1>0, UserStores, StoreType
<1>2. UNCHANGED <<cache, queue, delayed>> /\ edits' = edits + 1
  BY DEF User, CreateObject, EditSpec, DeleteObject
<1>3. KubeTypeOK'
  BY <1>0, <1>1, <1>2 DEF KubeTypeOK
<1>4. UNCHANGED <<pc, job, serverVars, inputVars, faults>>
  BY DEF User
<1> QED
  BY <1>0, <1>3, <1>4, LocalKept, ServerKept, RestKept, TypePartsNext

LEMMA ManagerType ==
    ASSUME TypeOK, NEW n \in Names, Manager(n)
    PROVE  TypeOK'
<1>0. KubeTypeOK /\ LocalTypeOK /\ ServerTypeOK /\ RestTypeOK
  BY TypeParts
<1>1. KubeTypeOK'
  <2>1. CASE DeliverEvent(n)
    <3>1. Head(pending[n]) \in Object /\ Tail(pending[n]) \in Seq(Object)
      BY <1>0, <2>1 DEF DeliverEvent, KubeTypeOK
    <3> QED
      BY <1>0, <2>1, <3>1 DEF DeliverEvent, KubeTypeOK
  <2>2. CASE FireTimer(n)
    BY <1>0, <2>2 DEF FireTimer, KubeTypeOK
  <2>3. CASE Resync(n)
    BY <1>0, <2>3 DEF Resync, KubeTypeOK
  <2> QED
    BY <2>1, <2>2, <2>3 DEF Manager
<1>2. UNCHANGED <<pc, job, serverVars, inputVars, faults>>
  BY DEF Manager
<1> QED
  BY <1>0, <1>1, <1>2, LocalKept, ServerKept, RestKept, TypePartsNext

\* The Secrets, the Storage and the Notifier as this loop sees them.
LEMMA InputType ==
    ASSUME TypeOK,
           \/ \E n \in Names, c \in Creds \cup {NoCred} : SetSecret(n, c)
           \/ Dependencies
    PROVE  TypeOK'
<1>0. KubeTypeOK /\ LocalTypeOK /\ ServerTypeOK /\ RestTypeOK
  BY TypeParts
<1>1. ASSUME NEW n \in Names, NEW c \in Creds \cup {NoCred}, SetSecret(n, c)
      PROVE  TypeOK'
  <2>1. KubeTypeOK'
    BY <1>0, <1>1 DEF SetSecret, KubeTypeOK
  <2>2. RestTypeOK'
    BY <1>0, <1>1 DEF SetSecret, RestTypeOK
  <2>3. UNCHANGED <<pc, job, serverVars>>
    BY <1>1 DEF SetSecret
  <2> QED
    BY <1>0, <2>1, <2>2, <2>3, LocalKept, ServerKept, TypePartsNext
<1>2. ASSUME NEW k \in Kinds, NEW d \in Dependency, deps' = [deps EXCEPT ![k] = d],
             UNCHANGED <<secret, faults>>
      PROVE  RestTypeOK'
  BY <1>0, <1>2 DEF RestTypeOK
<1>3. ASSUME NEW k \in Kinds, NEW id \in DepIds, DependencySyncs(k, id)
      PROVE  TypeOK'
  <2>1. [id |-> id, ready |-> TRUE] \in Dependency
    BY DEF Dependency
  <2>2. RestTypeOK'
    BY <1>2, <1>3, <2>1 DEF DependencySyncs
  <2> QED
    BY <1>0, <1>3, <2>2, KubeKept, LocalKept, ServerKept, TypePartsNext DEF DependencySyncs
<1>4. ASSUME NEW k \in Kinds, DependencyBreaks(k) \/ DependencyGone(k)
      PROVE  TypeOK'
  <2>1. [id |-> NoId, ready |-> FALSE] \in Dependency
    BY DEF Dependency
  <2>2. deps[k] \in Dependency
    BY <1>0 DEF RestTypeOK
  <2>3. [deps[k] EXCEPT !.ready = FALSE] \in Dependency
    BY <2>2, Zenon DEF Dependency
  <2>4. deps' \in [Kinds -> Dependency]
    BY <1>0, <1>4, <2>1, <2>3 DEF DependencyBreaks, DependencyGone, RestTypeOK
  <2>5. RestTypeOK'
    BY <1>0, <1>4, <2>4 DEF DependencyBreaks, DependencyGone, RestTypeOK
  <2>6. KubeTypeOK'
    BY <1>0, <1>4 DEF DependencyBreaks, DependencyGone, KubeTypeOK
  <2>7. UNCHANGED <<pc, job, serverVars>>
    BY <1>4 DEF DependencyBreaks, DependencyGone
  <2> QED
    BY <1>0, <2>5, <2>6, <2>7, LocalKept, ServerKept, TypePartsNext
<1> QED
  BY <1>1, <1>3, <1>4 DEF Dependencies

(***************************************************************************)
(* The worker's locals.                                                    *)
(***************************************************************************)
\* Starting a Reconcile call, whatever it decides.
LEMMA BeginType ==
    ASSUME TypeOK, NEW n \in Names, NEW step \in Steps, Begin(n, step)
    PROVE  TypeOK'
<1>0. KubeTypeOK /\ LocalTypeOK /\ ServerTypeOK /\ RestTypeOK
  BY TypeParts
<1>1. cache[n] \in Object
  BY <1>0 DEF KubeTypeOK
<1>2. [NoJob EXCEPT !.key = n, !.obj = cache[n]] \in Job
  BY <1>1, InitialValues, Zenon DEF Job
<1>3. LocalTypeOK'
  BY <1>2, InitialValues DEF Begin, LocalTypeOK
<1>4. KubeTypeOK'
  BY <1>0 DEF Begin, KubeTypeOK
<1>5. UNCHANGED <<serverVars, inputVars, faults>>
  BY DEF Begin
<1> QED
  BY <1>0, <1>3, <1>4, <1>5, ServerKept, RestKept, TypePartsNext

\* Every decision is one Begin, and no pass begins in the middle of the chain.
Entries == {"idle", "deleteRemote", "removeFinalizer", "addFinalizer", "resolveStorage"}

LEMMA StartBegins ==
    ASSUME NEW n \in Names, Start(n)
    PROVE  \E step \in Entries : Begin(n, step)
<1> USE DEF Entries
<1>1. CASE ReconcileGone(n)
  BY <1>1 DEF ReconcileGone
<1>2. CASE ReconcileDeletion(n)
  BY <1>2 DEF ReconcileDeletion
<1>3. CASE ReconcileUnprotected(n)
  BY <1>3 DEF ReconcileUnprotected
<1>4. CASE ReconcileLive(n)
  BY <1>4 DEF ReconcileLive
<1> QED
  BY <1>1, <1>2, <1>3, <1>4 DEF Start

LEMMA JobTypes ==
    ASSUME LocalTypeOK
    PROVE  /\ job \in Job
           /\ job.key \in Names
           /\ job.obj \in Object
           /\ job.obj.spec \in Specs
           /\ job.obj.status \in Status
           /\ job.obj.status.id \in Ids \cup {NoId}
           /\ job.obj.gen \in Nat
           /\ job.reason \in Reasons
           /\ JobContent \in Content
           /\ JobConfig \in Config
<1>1. job \in Job
  BY DEF LocalTypeOK
<1>2. job.key \in Names /\ job.obj \in Object /\ job.reason \in Reasons
  BY <1>1 DEF Job
<1>3. /\ job.obj.status \in Status
      /\ job.obj.gen \in Nat /\ job.obj.spec \in Specs
  BY <1>2 DEF Object, ObjectsWith
<1>4. job.obj.status.id \in Ids \cup {NoId}
  BY <1>3 DEF Status
<1>5. JobContent \in Content
  BY <1>1, <1>3 DEF JobContent, Content, Job
<1>6. JobConfig \in Config
  BY <1>1, <1>3 DEF JobConfig, Config, Job
<1> QED
  BY <1>1, <1>2, <1>3, <1>4, <1>5, <1>6

\* What the worker's next locals may be.
LEMMA JobUpdates ==
    ASSUME LocalTypeOK
    PROVE  /\ \A id \in DepIds \cup {NoId} : [job EXCEPT !.storage = id] \in Job
           /\ \A id \in DepIds \cup {NoId} : [job EXCEPT !.notifier = id] \in Job
           /\ \A c \in Creds \cup {NoCred} : [job EXCEPT !.password = c] \in Job
           /\ \A c \in Creds \cup {NoCred} : [job EXCEPT !.ssl = c] \in Job
           /\ \A r \in Reasons : [job EXCEPT !.reason = r] \in Job
<1>0. job \in Job
  BY DEF LocalTypeOK
<1>1. \A id \in DepIds \cup {NoId} : [job EXCEPT !.storage = id] \in Job
  BY <1>0, Zenon DEF Job
<1>2. \A id \in DepIds \cup {NoId} : [job EXCEPT !.notifier = id] \in Job
  BY <1>0, Zenon DEF Job
<1>3. \A c \in Creds \cup {NoCred} : [job EXCEPT !.password = c] \in Job
  BY <1>0, Zenon DEF Job
<1>4. \A c \in Creds \cup {NoCred} : [job EXCEPT !.ssl = c] \in Job
  BY <1>0, Zenon DEF Job
<1>5. \A r \in Reasons : [job EXCEPT !.reason = r] \in Job
  BY <1>0, Zenon DEF Job
<1> QED
  BY <1>1, <1>2, <1>3, <1>4, <1>5

\* The two fields of its copy of the status the worker sets on the way.
LEMMA JobStatusUpdates ==
    ASSUME LocalTypeOK
    PROVE  /\ \A id \in Ids : /\ [job EXCEPT !.obj.status.id = id] \in Job
                              /\ [job EXCEPT !.obj.status.id = id].obj.status.id = id
                              /\ [job EXCEPT !.obj.status.id = id].obj.spec = job.obj.spec
           /\ \A h \in Healths : /\ [job EXCEPT !.obj.status.health = h] \in Job
                                 /\ [job EXCEPT !.obj.status.health = h].obj.spec = job.obj.spec
<1>0. job \in Job /\ job.obj \in Object /\ job.obj.status \in Status
  BY JobTypes
<1>1. ASSUME NEW t \in Status
      PROVE  /\ [job EXCEPT !.obj = [job.obj EXCEPT !.status = t]] \in Job
             /\ [job EXCEPT !.obj = [job.obj EXCEPT !.status = t]].obj.status = t
             /\ [job EXCEPT !.obj = [job.obj EXCEPT !.status = t]].obj.spec = job.obj.spec
  <2>1. [job.obj EXCEPT !.status = t] \in Object
    BY <1>0, ObjectUpdates
  <2>2. /\ [job.obj EXCEPT !.status = t].status = t
        /\ [job.obj EXCEPT !.status = t].spec = job.obj.spec
    BY <1>0 DEF Object, ObjectsWith
  <2> DEFINE o == [job.obj EXCEPT !.status = t]
  <2>3. [job EXCEPT !.obj = o] \in Job /\ [job EXCEPT !.obj = o].obj = o
    <3> HIDE DEF o
    <3> QED
      BY <1>0, <2>1, Zenon DEF Job, o
  <2> QED
    BY <2>2, <2>3
<1>2. ASSUME NEW id \in Ids
      PROVE  /\ [job.obj.status EXCEPT !.id = id] \in Status
             /\ [job.obj.status EXCEPT !.id = id].id = id
  BY <1>0 DEF Status
<1>3. ASSUME NEW h \in Healths
      PROVE  [job.obj.status EXCEPT !.health = h] \in Status
  BY <1>0 DEF Status
<1>4. \A id \in Ids : [job EXCEPT !.obj.status.id = id]
                         = [job EXCEPT !.obj = [job.obj EXCEPT !.status = [job.obj.status EXCEPT !.id = id]]]
  OBVIOUS
<1>5. \A h \in Healths : [job EXCEPT !.obj.status.health = h]
                         = [job EXCEPT !.obj = [job.obj EXCEPT !.status = [job.obj.status EXCEPT !.health = h]]]
  OBVIOUS
<1> QED
  BY <1>1, <1>2, <1>3, <1>4, <1>5

LEMMA RequestType ==
    ASSUME LocalTypeOK, NEW op \in Parts \cup {"delete"}
    PROVE  JobRequest(op) \in Request
  BY JobTypes DEF JobRequest, Request

(***************************************************************************)
(* The API of databasus.                                                   *)
(***************************************************************************)
LEMMA InsertType ==
    ASSUME StoreTypeOK, NEW n \in Names, NEW c \in Content, NEW id \in Ids, Insert(n, c, id)
    PROVE  StoreTypeOK'
<1> DEFINE new == [id |-> id, owner |-> n, content |-> c,
                   config |-> [spec |-> NoSpec, storage |-> NoId],
                   check |-> NoSpec, health |-> ""]
<1>1. [spec |-> NoSpec, storage |-> NoId] \in Config
  BY DEF Config
<1>2. new \in Database
  BY <1>1 DEF Database, Healths
<1>3. new.id = id
  OBVIOUS
<1>4. databases' = databases \cup {new} /\ used' = used \cup {id}
  BY DEF Insert
<1> HIDE DEF new
<1> QED
  BY <1>2, <1>3, <1>4 DEF StoreTypeOK

LEMMA RewriteType ==
    ASSUME StoreTypeOK, NEW d \in databases, NEW new \in Database, new.id = d.id,
           Rewrite(d, new), used' = used
    PROVE  StoreTypeOK'
  BY DEF Rewrite, StoreTypeOK

LEMMA RemoveType ==
    ASSUME StoreTypeOK, NEW id, Remove(id), used' = used
    PROVE  StoreTypeOK'
  BY DEF Remove, DatabaseOf, StoreTypeOK

\* The three ways a database is rewritten.
LEMMA DatabaseUpdates ==
    ASSUME NEW d \in Database
    PROVE  /\ \A c \in Content : [d EXCEPT !.content = c] \in Database
           /\ \A c \in Config : [d EXCEPT !.config = c] \in Database
           /\ \A s \in Specs : [d EXCEPT !.check = s] \in Database
           /\ \A h \in Healths : [d EXCEPT !.health = h] \in Database
  BY Zenon DEF Database

LEMMA ApplyType ==
    ASSUME StoreTypeOK, NEW q \in Request, Apply(q), used' = used
    PROVE  StoreTypeOK'
<1>1. PICK d \in DatabaseOf(q.id) :
         \/ q.op = "database" /\ Rewrite(d, [d EXCEPT !.content = q.content])
         \/ q.op = "config" /\ Rewrite(d, [d EXCEPT !.config = q.config])
         \/ q.op = "check" /\ Rewrite(d, [d EXCEPT !.check = q.check])
         \/ q.op = "delete" /\ Remove(q.id)
  BY DEF Apply
<1>2. d \in databases /\ d \in Database
  BY <1>1 DEF DatabaseOf, StoreTypeOK
<1>3. q.content \in Content /\ q.config \in Config /\ q.check \in Specs
  BY DEF Request
<1>4. /\ [d EXCEPT !.content = q.content] \in Database
      /\ [d EXCEPT !.config = q.config] \in Database
      /\ [d EXCEPT !.check = q.check] \in Database
  BY <1>2, <1>3, DatabaseUpdates
<1>5. /\ [d EXCEPT !.content = q.content].id = d.id
      /\ [d EXCEPT !.config = q.config].id = d.id
      /\ [d EXCEPT !.check = q.check].id = d.id
  BY <1>2 DEF Database
<1> QED
  BY <1>1, <1>2, <1>4, <1>5, RewriteType, RemoveType

LEMMA ApplyNames ==
    ASSUME StoreTypeOK, NEW q, Apply(q)
    PROVE  q.id \in used /\ q.id \in Ids
  BY DEF Apply, DatabaseOf, StoreTypeOK

LEMMA ProbeType ==
    ASSUME TypeOK, NEW d \in databases, NEW h \in Healths, Probe(d, h)
    PROVE  TypeOK'
<1>0. KubeTypeOK /\ LocalTypeOK /\ ServerTypeOK /\ RestTypeOK
  BY TypeParts
<1>1. d \in Database /\ StoreTypeOK
  BY <1>0 DEF ServerTypeOK, StoreTypeOK
<1>2. [d EXCEPT !.health = h] \in Database
  BY <1>1, DatabaseUpdates
<1>3. [d EXCEPT !.health = h].id = d.id
  BY <1>1 DEF Database
<1>4. StoreTypeOK'
  BY <1>1, <1>2, <1>3, RewriteType DEF Probe
<1>5. ServerTypeOK'
  BY <1>0, <1>4 DEF Probe, ServerTypeOK
<1>6. UNCHANGED <<api, cache, pending, queue, delayed>> /\ edits' = edits + 1
  BY Zenon DEF Probe
<1>7. KubeTypeOK'
  BY <1>0, <1>6 DEF KubeTypeOK
<1>8. UNCHANGED <<pc, job, inputVars, faults>>
  BY DEF Probe
<1> QED
  BY <1>0, <1>5, <1>7, <1>8, LocalKept, RestKept, TypePartsNext

LEMMA ServeLateType ==
    ASSUME TypeOK, NEW q \in late, ServeLate(q)
    PROVE  TypeOK'
<1>0. KubeTypeOK /\ LocalTypeOK /\ ServerTypeOK /\ RestTypeOK
  BY TypeParts
<1>1. q \in Request /\ q.content \in Content /\ q.owner \in Names /\ StoreTypeOK
  BY <1>0 DEF ServerTypeOK, Request
<1>2. StoreTypeOK' /\ disturbed' \subseteq Ids \X Parts
  <2>1. ASSUME NEW id \in Ids, Insert(q.owner, q.content, id), UNCHANGED disturbed
        PROVE  StoreTypeOK' /\ disturbed' \subseteq Ids \X Parts
    BY <1>0, <1>1, <2>1, InsertType DEF ServerTypeOK
  <2>2. CASE /\ Apply(q)
             /\ disturbed' = IF q.op = "delete" THEN disturbed
                              ELSE disturbed \cup {<<q.id, q.op>>}
             /\ UNCHANGED used
    <3>1. StoreTypeOK' /\ q.id \in Ids
      BY <1>1, <2>2, ApplyType, ApplyNames
    <3>2. q.op \in Parts \cup {"delete"}
      BY <1>1 DEF Request
    <3>3. disturbed \subseteq Ids \X Parts
      BY <1>0 DEF ServerTypeOK
    <3> QED
      BY <2>2, <3>1, <3>2, <3>3
  <2>3. CASE UNCHANGED <<databases, used, disturbed>>
    BY <1>0, <1>1, <2>3 DEF ServerTypeOK, StoreTypeOK
  <2> QED
    BY <2>1, <2>2, <2>3 DEF ServeLate
<1>3. late' \subseteq Request
  BY <1>0 DEF ServeLate, ServerTypeOK
<1>4. ServerTypeOK'
  BY <1>2, <1>3 DEF ServerTypeOK
<1>5. UNCHANGED <<kubeVars, pc, job, inputVars, faults>>
  BY DEF ServeLate
<1> QED
  BY <1>0, <1>4, <1>5, KubeKept, LocalKept, RestKept, TypePartsNext

LEMMA RemoveOutOfBandType ==
    ASSUME TypeOK, NEW id \in Ids, RemoveOutOfBand(id)
    PROVE  TypeOK'
<1>0. KubeTypeOK /\ LocalTypeOK /\ ServerTypeOK /\ RestTypeOK
  BY TypeParts
<1>1. StoreTypeOK'
  BY <1>0, RemoveType DEF RemoveOutOfBand, ServerTypeOK
<1>2. ServerTypeOK'
  BY <1>0, <1>1 DEF RemoveOutOfBand, ServerTypeOK
<1>3. Fault /\ UNCHANGED <<kubeVars, pc, job, inputVars>>
  BY DEF RemoveOutOfBand
<1> QED
  BY <1>0, <1>2, <1>3, KubeKept, LocalKept, RestKept, TypePartsNext

(***************************************************************************)
(* The steps of a pass.                                                    *)
(***************************************************************************)
LEMMA FailWithType ==
    ASSUME LocalTypeOK, NEW r \in Reasons, FailWith(r)
    PROVE  LocalTypeOK' /\ UNCHANGED delayed
  BY JobUpdates DEF FailWith, Continue, Goto, LocalTypeOK, Steps

\* The steps that read the cache.
Resolve == ResolveStorage \/ ResolveNotifier \/ ReadPassword \/ ReadSsl

LEMMA ResolveType ==
    ASSUME TypeOK, Resolve \/ SaveRejected
    PROVE  TypeOK'
<1>0. KubeTypeOK /\ LocalTypeOK /\ ServerTypeOK /\ RestTypeOK
  BY TypeParts
<1>1. secret[job.key] \in Creds \cup {NoCred}
  BY <1>0, JobTypes DEF RestTypeOK
<1>2. deps["storage"].id \in DepIds \cup {NoId} /\ deps["notifier"].id \in DepIds \cup {NoId}
  BY <1>0 DEF RestTypeOK, Kinds, Dependency
<1>3. LocalTypeOK' /\ UNCHANGED delayed
  <2>1. ASSUME NEW r \in Reasons, FailWith(r) PROVE LocalTypeOK' /\ UNCHANGED delayed
    BY <1>0, <2>1, FailWithType
  <2>2. ASSUME NEW step \in Steps, NEW j \in Job, Continue(step, j)
        PROVE  LocalTypeOK' /\ UNCHANGED delayed
    BY <2>2 DEF Continue, Goto, LocalTypeOK
  <2>3. CASE ResolveStorage
    BY <1>0, <1>2, <2>1, <2>2, <2>3, JobUpdates DEF ResolveStorage, Steps, Reasons
  <2>4. CASE ResolveNotifier
    BY <1>0, <1>2, <2>1, <2>2, <2>4, JobUpdates DEF ResolveNotifier, Steps, Reasons
  <2>5. CASE ReadPassword
    BY <1>0, <1>1, <2>1, <2>2, <2>5, JobUpdates DEF ReadPassword, Steps, Reasons
  <2>6. CASE ReadSsl
    BY <1>0, <1>1, <2>1, <2>2, <2>6, JobTypes, JobUpdates DEF ReadSsl, Steps, Reasons
  <2>7. CASE SaveRejected
    BY <2>1, <2>7 DEF SaveRejected, FailureOf, Reasons
  <2> QED
    BY <2>3, <2>4, <2>5, <2>6, <2>7 DEF Resolve
<1>4. UNCHANGED <<kubeButDelayed, serverVars, inputVars, faults>>
  BY DEF Resolve, ResolveStorage, ResolveNotifier, ReadPassword, ReadSsl, SaveRejected
<1>5. UNCHANGED kubeVars
  BY <1>3, <1>4 DEF kubeButDelayed, kubeVars
<1> QED
  BY <1>0, <1>3, <1>4, <1>5, KubeKept, ServerKept, RestKept, TypePartsNext

\* The requests.
LEMMA CallType ==
    ASSUME TypeOK,
           \/ DeleteRemote \/ CreateDatabase \/ UpdateDatabase
           \/ SaveBackupConfig \/ SaveHealthcheckConfig
    PROVE  TypeOK'
<1>0. KubeTypeOK /\ LocalTypeOK /\ ServerTypeOK /\ RestTypeOK
  BY TypeParts
<1>1. StoreTypeOK /\ job \in Job
  BY <1>0, JobTypes DEF ServerTypeOK
<1>2. ASSUME NEW op \in Parts, Push(op), used' = used
      PROVE  StoreTypeOK' /\ disturbed' \subseteq Ids \X Parts
  BY <1>0, <1>1, <1>2, RequestType, ApplyType DEF Push, ServerTypeOK
<1>3. StoreTypeOK' /\ disturbed' \subseteq Ids \X Parts /\ LocalTypeOK'
  <2>1. CASE DeleteRemote
    BY <1>0, <1>1, <2>1, RemoveType DEF DeleteRemote, Goto, LocalTypeOK, Steps, ServerTypeOK
  <2>2. CASE CreateDatabase
    <3>1. PICK id \in Ids : /\ Insert(job.key, JobContent, id)
                            /\ Goto("saveConfig", [job EXCEPT !.obj.status.id = id])
      BY <2>2 DEF CreateDatabase
    <3>2. StoreTypeOK'
      BY <1>0, <1>1, <3>1, InsertType, JobTypes
    <3>3. LocalTypeOK'
      BY <1>0, <3>1, JobStatusUpdates DEF Goto, LocalTypeOK, Steps
    <3> QED
      BY <1>0, <2>2, <3>2, <3>3 DEF CreateDatabase, ServerTypeOK
  <2>3. CASE UpdateDatabase
    BY <1>1, <1>2, <2>3 DEF UpdateDatabase, Parts, Goto, LocalTypeOK, Steps
  <2>4. CASE SaveBackupConfig
    BY <1>1, <1>2, <2>4 DEF SaveBackupConfig, AfterConfig, Parts, Goto, LocalTypeOK, Steps
  <2>5. CASE SaveHealthcheckConfig
    BY <1>1, <1>2, <2>5 DEF SaveHealthcheckConfig, Parts, Goto, LocalTypeOK, Steps
  <2> QED
    BY <2>1, <2>2, <2>3, <2>4, <2>5
<1>4. UNCHANGED <<kubeVars, late, inputVars, faults>>
  BY DEF DeleteRemote, CreateDatabase, UpdateDatabase, SaveBackupConfig, SaveHealthcheckConfig
<1>5. ServerTypeOK'
  BY <1>0, <1>3, <1>4 DEF ServerTypeOK
<1> QED
  BY <1>0, <1>3, <1>4, <1>5, KubeKept, RestKept, TypePartsNext

LEMMA CallFailsType ==
    ASSUME TypeOK, CallFails
    PROVE  TypeOK'
<1>0. KubeTypeOK /\ LocalTypeOK /\ ServerTypeOK /\ RestTypeOK
  BY TypeParts
<1>1. OpOf(pc) \in Parts \cup {"delete"}
  BY DEF CallFails, OpOf, Parts
<1>2. late' \subseteq Request
  BY <1>0, <1>1, RequestType DEF CallFails, ServerTypeOK
<1>3. LocalTypeOK' /\ KubeTypeOK'
  <2>1. CASE pc = "deleteRemote" /\ ReturnAndRetry
    BY <1>0, <2>1, InitialValues, JobTypes
    DEF CallFails, ReturnAndRetry, Goto, kubeButDelayed, LocalTypeOK, KubeTypeOK, Steps
  <2>2. CASE pc # "deleteRemote" /\ FailWith(FailureOf(pc))
    <3>1. FailureOf(pc) \in Reasons
      BY <2>2 DEF CallFails, FailureOf, Reasons
    <3>2. LocalTypeOK' /\ UNCHANGED delayed
      BY <1>0, <2>2, <3>1, FailWithType
    <3> QED
      BY <1>0, <3>2, KubeKept DEF CallFails, kubeButDelayed, kubeVars
  <2> QED
    BY <2>1, <2>2 DEF CallFails
<1>4. ServerTypeOK'
  BY <1>0, <1>2 DEF CallFails, ServerTypeOK, StoreTypeOK
<1>5. RestTypeOK'
  BY <1>0, RestKept DEF CallFails
<1> QED
  BY <1>3, <1>4, <1>5, TypePartsNext

LEMMA RefreshType ==
    ASSUME TypeOK, Refresh
    PROVE  TypeOK'
<1>0. KubeTypeOK /\ LocalTypeOK /\ ServerTypeOK /\ RestTypeOK
  BY TypeParts
<1>1. LocalTypeOK'
  <2>1. CASE Goto("reportSynced", job)
    BY <1>0, <2>1 DEF Goto, LocalTypeOK, Steps
  <2>2. ASSUME NEW d \in DatabaseOf(job.obj.status.id),
               Goto("reportSynced", [job EXCEPT !.obj.status.health = d.health])
        PROVE  LocalTypeOK'
    <3>1. d.health \in Healths
      BY <1>0 DEF DatabaseOf, ServerTypeOK, StoreTypeOK, Database
    <3> QED
      BY <1>0, <2>2, <3>1, JobStatusUpdates DEF Goto, LocalTypeOK, Steps
  <2> QED
    BY <2>1, <2>2 DEF Refresh
<1>2. UNCHANGED <<kubeVars, serverVars, inputVars>> /\ (UNCHANGED faults \/ Fault)
  BY DEF Refresh
<1> QED
  BY <1>0, <1>1, <1>2, KubeKept, ServerKept, RestKept, TypePartsNext

\* What the worker may write to the Kubernetes API.
LEMMA StatusTypes ==
    ASSUME LocalTypeOK
    PROVE  /\ FailedStatus \in Status /\ SyncedStatus \in Status
           /\ FailedStatus.id = job.obj.status.id /\ FailedStatus.reason = job.reason
           /\ SyncedStatus.reason = "Synced"
<1>1. job.obj.status \in Status /\ job.obj.gen \in Nat /\ job.reason \in Reasons
  BY JobTypes
<1>2. FailedStatus \in Status
  BY <1>1, Zenon DEF FailedStatus, Status
<1>3. SyncedStatus \in Status
  BY <1>1 DEF SyncedStatus, Status, Reasons
<1> QED
  BY <1>1, <1>2, <1>3 DEF FailedStatus, SyncedStatus, Status

Writing == RemoveFinalizer \/ AddFinalizer \/ ReportFailed \/ ReportSynced

\* Each of its writes stores an object with the status it had or one of these two.
LEMMA WritingStores ==
    ASSUME TypeOK, Writing
    PROVE  \/ UNCHANGED <<api, pending>>
           \/ \E o \in Object :
                 /\ Store(job.key, o)
                 /\ \/ o.status = api[job.key].status
                    \/ o.status = SyncedStatus
                    \/ o.status = FailedStatus /\ pc = "reportFailed"
<1>0. KubeTypeOK /\ LocalTypeOK
  BY TypeParts
<1>1. api[job.key] \in Object
  BY <1>0, JobTypes DEF KubeTypeOK
<1>2. \A t \in Status : [api[job.key] EXCEPT !.status = t].status = t
  BY <1>1 DEF Object, ObjectsWith
<1>3. CASE RemoveFinalizer
  <2>1. [api[job.key] EXCEPT !.finalizer = FALSE, !.exists = FALSE].status = api[job.key].status
    BY <1>1 DEF Object, ObjectsWith
  <2> QED
    BY <1>1, <1>3, <2>1, ObjectUpdates DEF RemoveFinalizer, DropFinalizer
<1>4. CASE AddFinalizer
  <2>1. [api[job.key] EXCEPT !.finalizer = TRUE].status = api[job.key].status
    BY <1>1 DEF Object, ObjectsWith
  <2> QED
    BY <1>1, <1>4, <2>1, ObjectUpdates DEF AddFinalizer, StoreFinalizer
<1>5. CASE ReportFailed
  <2>1. [api[job.key] EXCEPT !.status = FailedStatus].status = FailedStatus
    BY <1>0, <1>2, StatusTypes
  <2>2. [api[job.key] EXCEPT !.status = FailedStatus] \in Object
    BY <1>0, <1>1, StatusTypes, ObjectUpdates
  <2> QED
    BY <1>5, <2>1, <2>2 DEF ReportFailed, StoreStatus
<1>6. CASE ReportSynced
  <2>1. [api[job.key] EXCEPT !.status = SyncedStatus].status = SyncedStatus
    BY <1>0, <1>2, StatusTypes
  <2>2. [api[job.key] EXCEPT !.status = SyncedStatus] \in Object
    BY <1>0, <1>1, StatusTypes, ObjectUpdates
  <2> QED
    BY <1>6, <2>1, <2>2 DEF ReportSynced, StoreStatus
<1> QED
  BY <1>3, <1>4, <1>5, <1>6 DEF Writing

LEMMA WritingReturns ==
    ASSUME Writing
    PROVE  /\ pc' = "idle" /\ job' = NoJob
           /\ delayed' \in {delayed, delayed \cup {job.key}}
           /\ UNCHANGED <<cache, queue, edits, serverVars, inputVars, faults>>
  BY DEF Writing, RemoveFinalizer, AddFinalizer, ReportFailed, ReportSynced, AfterFailure,
     Return, Continue, ReturnAndRetry, Goto

LEMMA WritingType ==
    ASSUME TypeOK, Writing
    PROVE  TypeOK'
<1>0. KubeTypeOK /\ LocalTypeOK /\ ServerTypeOK /\ RestTypeOK
  BY TypeParts
<1>1. api' \in [Names -> Object] /\ pending' \in [Names -> Seq(Object)]
  BY <1>0, WritingStores, StoreType, JobTypes DEF KubeTypeOK
<1>2. KubeTypeOK'
  BY <1>0, <1>1, WritingReturns, JobTypes DEF KubeTypeOK
<1>3. LocalTypeOK'
  BY WritingReturns, InitialValues DEF LocalTypeOK, Steps
<1> QED
  BY <1>0, <1>2, <1>3, WritingReturns, ServerKept, RestKept, TypePartsNext

LEMMA FaultType ==
    ASSUME TypeOK, KubeWriteFails \/ Restart
    PROVE  TypeOK'
<1>0. KubeTypeOK /\ LocalTypeOK /\ ServerTypeOK /\ RestTypeOK
  BY TypeParts
<1>1. KubeTypeOK'
  <2>1. CASE KubeWriteFails
    <3>1. delayed' \in {delayed, delayed \cup {job.key}}
      BY <2>1 DEF KubeWriteFails, AfterFailure, Return, Continue, ReturnAndRetry, Goto
    <3> QED
      BY <1>0, <2>1, <3>1, JobTypes DEF KubeWriteFails, kubeButDelayed, KubeTypeOK
  <2>2. CASE Restart
    <3>1. pending' \in [Names -> Seq(Object)]
      BY <2>2 DEF Restart, Relist
    <3> QED
      BY <1>0, <2>2, <3>1 DEF Restart, Relist, KubeTypeOK
  <2> QED
    BY <2>1, <2>2
<1>2. LocalTypeOK'
  BY InitialValues DEF KubeWriteFails, Restart, AfterFailure, Return, Continue,
     ReturnAndRetry, Goto, LocalTypeOK, Steps
<1>3. UNCHANGED <<serverVars, inputVars>> /\ Fault
  BY DEF KubeWriteFails, Restart
<1> QED
  BY <1>0, <1>1, <1>2, <1>3, ServerKept, RestKept, TypePartsNext

LEMMA InitType == Init => TypeOK
<1> SUFFICES ASSUME Init PROVE TypeOK
  OBVIOUS
<1>1. KubeTypeOK
  BY InitialValues DEF Init, KubeInit, KubeTypeOK
<1>2. LocalTypeOK /\ ServerTypeOK
  BY InitialValues DEF Init, LocalTypeOK, ServerTypeOK, StoreTypeOK, Steps
<1>3. RestTypeOK
  BY DEF Init, RestTypeOK, Dependency
<1> QED
  BY <1>1, <1>2, <1>3, TypeParts

LEMMA NextType == TypeOK /\ [Next]_vars => TypeOK'
<1> SUFFICES ASSUME TypeOK, [Next]_vars PROVE TypeOK'
  OBVIOUS
<1>1. CASE UNCHANGED vars
  BY <1>1 DEF vars, kubeVars, serverVars, inputVars, TypeOK
<1>2. ASSUME NEW n \in Names, User(n) \/ Manager(n) \/ Start(n)
      PROVE  TypeOK'
  <2>1. CASE User(n)
    BY <2>1, UserType
  <2>2. CASE Manager(n)
    BY <2>2, ManagerType
  <2>3. CASE Start(n)
    BY <2>3, StartBegins, BeginType DEF Entries, Steps
  <2> QED
    BY <1>2, <2>1, <2>2, <2>3
<1>3. CASE Worker
  BY <1>3, ResolveType, CallType, RefreshType, WritingType DEF Worker, Resolve, Writing
<1>4. CASE Environment
  BY <1>4, ServeLateType, ProbeType, RemoveOutOfBandType, CallFailsType, FaultType
  DEF Environment
<1> QED
  BY <1>1, <1>2, <1>3, <1>4, InputType DEF Next

\* Every variable of the loop has its type, and databasus holds only databases it
\* gave an ID to, whatever fails and however late it serves a request.
THEOREM DatabaseTypeCorrect == Spec => []TypeOK
<1>1. Init => TypeOK
  BY InitType
<1>2. TypeOK /\ [Next]_vars => TypeOK'
  BY NextType
<1> QED
  BY <1>1, <1>2, PTL DEF Spec

(***************************************************************************)
(* Physical backup types.  The check stands before the Secrets are read,   *)
(* and three requests, each of which may be served long after its client   *)
(* gave up, depend on it.                                                  *)
(***************************************************************************)
Pushing == {"readPassword", "readSsl", "saveDatabase", "saveConfig", "saveCheck"}

Logical(c) == c \notin Physical

LogicalSpecs(d) == Logical(d.content.spec) /\ Logical(d.config.spec) /\ Logical(d.check)

DatabasesLogical == \A d \in databases : LogicalSpecs(d)

PhysicalInv ==
    /\ DatabasesLogical
    /\ pc \in Pushing => Logical(job.obj.spec)
    /\ \A q \in late : q.op # "delete" => LogicalSpecs(q)

LEMMA JobRequestLogical ==
    ASSUME NEW op, Logical(job.obj.spec)
    PROVE  LogicalSpecs(JobRequest(op))
  BY DEF LogicalSpecs, JobRequest, JobContent, JobConfig

\* What is applied to a database with logical specs leaves it so.
LEMMA ApplyLogical ==
    ASSUME StoreTypeOK, PhysicalInv, NEW q, Apply(q),
           q.op # "delete" => LogicalSpecs(q)
    PROVE  DatabasesLogical'
<1>1. CASE Remove(q.id)
  BY <1>1 DEF Remove, PhysicalInv, DatabasesLogical
<1>2. ASSUME NEW d \in DatabaseOf(q.id), q.op # "delete",
             \/ Rewrite(d, [d EXCEPT !.content = q.content])
             \/ Rewrite(d, [d EXCEPT !.config = q.config])
             \/ Rewrite(d, [d EXCEPT !.check = q.check])
      PROVE  DatabasesLogical'
  <2>1. d \in databases /\ d \in Database
    BY DEF DatabaseOf, StoreTypeOK
  <2>2. LogicalSpecs(d)
    BY <2>1 DEF PhysicalInv, DatabasesLogical
  <2>3. PICK new \in {[d EXCEPT !.content = q.content], [d EXCEPT !.config = q.config],
                      [d EXCEPT !.check = q.check]} : Rewrite(d, new)
    BY <1>2
  <2>4. LogicalSpecs(new)
    BY <1>2, <2>1, <2>2 DEF LogicalSpecs, Database
  <2> QED
    BY <2>3, <2>4 DEF Rewrite, PhysicalInv, DatabasesLogical
<1> QED
  BY <1>1, <1>2 DEF Apply

LEMMA InsertLogical ==
    ASSUME PhysicalInv, NEW n, NEW c, NEW id, Insert(n, c, id), Logical(c.spec)
    PROVE  DatabasesLogical'
<1> DEFINE new == [id |-> id, owner |-> n, content |-> c,
                   config |-> [spec |-> NoSpec, storage |-> NoId],
                   check |-> NoSpec, health |-> ""]
<1>1. Logical(NoSpec)
  BY DatabaseBackupAssumption DEF Logical
<1>2. LogicalSpecs(new)
  BY <1>1 DEF LogicalSpecs
<1>3. databases' = databases \cup {new}
  BY DEF Insert
<1> HIDE DEF new
<1> QED
  BY <1>2, <1>3 DEF PhysicalInv, DatabasesLogical

\* Most steps touch neither databasus nor a request, and leave the chain or never
\* were in it.
LEMMA PhysicalKept ==
    ASSUME PhysicalInv, UNCHANGED <<databases, late>>,
           \/ pc' \notin Pushing
           \/ pc \in Pushing /\ job'.obj.spec = job.obj.spec
           \/ UNCHANGED <<pc, job>>
    PROVE  PhysicalInv'
  BY DEF PhysicalInv, DatabasesLogical

LEMMA NextPhysical == TypeOK /\ PhysicalInv /\ [Next]_vars => PhysicalInv'
<1> SUFFICES ASSUME TypeOK, PhysicalInv, [Next]_vars PROVE PhysicalInv'
  OBVIOUS
<1>0. KubeTypeOK /\ LocalTypeOK /\ ServerTypeOK /\ RestTypeOK /\ StoreTypeOK
  BY TypeParts DEF ServerTypeOK
<1>1. CASE UNCHANGED vars
  BY <1>1, PhysicalKept DEF vars, serverVars
<1>2. ASSUME NEW n \in Names, User(n) \/ Manager(n) PROVE PhysicalInv'
  BY <1>2, PhysicalKept DEF User, Manager, serverVars
<1>3. ASSUME NEW n \in Names, Start(n) PROVE PhysicalInv'
  <2>1. PICK step \in Entries : Begin(n, step)
    BY <1>3, StartBegins
  <2> QED
    BY <2>1, PhysicalKept DEF Begin, Entries, Pushing, serverVars
<1>4. ASSUME NEW n \in Names, NEW c \in Creds \cup {NoCred}, SetSecret(n, c)
      PROVE  PhysicalInv'
  BY <1>4, PhysicalKept DEF SetSecret, serverVars
<1>5. CASE Dependencies
  BY <1>5, PhysicalKept
  DEF Dependencies, DependencySyncs, DependencyBreaks, DependencyGone, serverVars
<1>6. CASE Worker
  <2>0. job \in Job
    BY <1>0, JobTypes
  <2>1. CASE Resolve \/ SaveRejected
    <3>1. UNCHANGED <<databases, late>>
      BY <2>1 DEF Resolve, ResolveStorage, ResolveNotifier, ReadPassword, ReadSsl,
         SaveRejected, serverVars
    <3>2. CASE pc' \notin Pushing
      BY <3>1, <3>2, PhysicalKept
    <3>3. CASE ResolveNotifier /\ job.obj.spec \notin Physical /\ job'.obj.spec = job.obj.spec
      BY <3>1, <3>3 DEF PhysicalInv, DatabasesLogical, Logical
    <3>4. CASE pc \in Pushing /\ job'.obj.spec = job.obj.spec
      BY <3>1, <3>4, PhysicalKept
    <3>5. \/ pc' \notin Pushing
          \/ ResolveNotifier /\ job.obj.spec \notin Physical /\ job'.obj.spec = job.obj.spec
          \/ pc \in Pushing /\ job'.obj.spec = job.obj.spec
      <4>1. CASE ResolveStorage
        BY <4>1 DEF ResolveStorage, Continue, Goto, FailWith, Pushing
      <4>2. CASE ResolveNotifier
        BY <2>0, <4>2 DEF ResolveNotifier, Continue, Goto, FailWith, Pushing, Job
      <4>3. CASE ReadPassword
        BY <2>0, <4>3 DEF ReadPassword, Continue, Goto, FailWith, Pushing, Job
      <4>4. CASE ReadSsl
        BY <2>0, <4>4 DEF ReadSsl, Continue, Goto, FailWith, Pushing, Job
      <4>5. CASE SaveRejected
        BY <4>5 DEF SaveRejected, Continue, Goto, FailWith, Pushing
      <4> QED
        BY <2>1, <4>1, <4>2, <4>3, <4>4, <4>5 DEF Resolve
    <3> QED
      BY <3>2, <3>3, <3>4, <3>5
  <2>2. CASE DeleteRemote
    BY <2>2 DEF DeleteRemote, Remove, Goto, Pushing, PhysicalInv, DatabasesLogical
  <2>3. CASE CreateDatabase
    <3>1. PICK id \in Ids : /\ Insert(job.key, JobContent, id)
                            /\ Goto("saveConfig", [job EXCEPT !.obj.status.id = id])
      BY <2>3 DEF CreateDatabase
    <3>2. Logical(job.obj.spec) /\ JobContent.spec = job.obj.spec
      BY <2>3 DEF CreateDatabase, PhysicalInv, Pushing, JobContent
    <3>3. DatabasesLogical'
      BY <3>1, <3>2, InsertLogical
    <3>4. job'.obj.spec = job.obj.spec
      BY <1>0, <3>1, JobStatusUpdates DEF Goto
    <3> QED
      BY <2>3, <3>2, <3>3, <3>4 DEF CreateDatabase, PhysicalInv
  <2>4. CASE UpdateDatabase \/ SaveBackupConfig \/ SaveHealthcheckConfig
    <3>1. pc \in Pushing /\ job' = job /\ late' = late
      BY <2>4 DEF UpdateDatabase, SaveBackupConfig, SaveHealthcheckConfig, Goto, Pushing
    <3>2. Logical(job.obj.spec)
      BY <3>1 DEF PhysicalInv
    <3>3. PICK op \in Parts : Push(op)
      BY <2>4 DEF UpdateDatabase, SaveBackupConfig, SaveHealthcheckConfig, Parts
    <3>4. DatabasesLogical'
      BY <1>0, <3>2, <3>3, JobRequestLogical, ApplyLogical DEF Push
    <3> QED
      BY <3>1, <3>2, <3>4 DEF PhysicalInv
  <2>5. CASE Refresh
    BY <2>5, PhysicalKept DEF Refresh, Goto, Pushing, serverVars
  <2>6. CASE Writing
    BY <2>6, WritingReturns, PhysicalKept DEF Pushing, serverVars
  <2> QED
    BY <1>6, <2>1, <2>2, <2>3, <2>4, <2>5, <2>6 DEF Worker, Resolve, Writing
<1>7. CASE Environment
  <2>1. ASSUME NEW q \in late, ServeLate(q) PROVE PhysicalInv'
    <3>0. /\ late' \subseteq late /\ UNCHANGED <<pc, job>>
          /\ q.op # "delete" => LogicalSpecs(q)
      BY <2>1 DEF ServeLate, PhysicalInv
    <3>1. DatabasesLogical'
      <4>1. ASSUME NEW id \in Ids, Insert(q.owner, q.content, id), q.op = "database"
            PROVE  DatabasesLogical'
        BY <3>0, <4>1, InsertLogical DEF LogicalSpecs
      <4>2. CASE Apply(q)
        BY <1>0, <3>0, <4>2, ApplyLogical
      <4>3. CASE UNCHANGED databases
        BY <4>3 DEF PhysicalInv, DatabasesLogical
      <4> QED
        BY <2>1, <4>1, <4>2, <4>3 DEF ServeLate
    <3> QED
      BY <3>0, <3>1 DEF PhysicalInv
  <2>2. ASSUME NEW d \in databases, NEW h \in Healths, Probe(d, h) PROVE PhysicalInv'
    <3>1. databases' = (databases \ {d}) \cup {[d EXCEPT !.health = h]}
      BY <2>2 DEF Probe, Rewrite
    <3>2. d \in Database
      BY <1>0 DEF StoreTypeOK
    <3>3. LogicalSpecs([d EXCEPT !.health = h])
      BY <3>2 DEF LogicalSpecs, Database, PhysicalInv, DatabasesLogical
    <3> QED
      BY <2>2, <3>1, <3>3 DEF Probe, PhysicalInv, DatabasesLogical
  <2>3. ASSUME NEW id \in Ids, RemoveOutOfBand(id) PROVE PhysicalInv'
    BY <2>3 DEF RemoveOutOfBand, Remove, PhysicalInv, DatabasesLogical
  <2>4. CASE CallFails
    <3>1. UNCHANGED databases /\ pc' \notin Pushing
      BY <2>4 DEF CallFails, ReturnAndRetry, FailWith, Continue, Goto, Pushing
    <3>2. ASSUME OpOf(pc) # "delete" PROVE Logical(job.obj.spec)
      BY <2>4, <3>2 DEF CallFails, OpOf, PhysicalInv, Pushing
    <3>3. JobRequest(OpOf(pc)).op = OpOf(pc)
      BY DEF JobRequest
    <3>4. \A q \in late' : q.op # "delete" => LogicalSpecs(q)
      BY <2>4, <3>2, <3>3, JobRequestLogical DEF CallFails, PhysicalInv
    <3> QED
      BY <3>1, <3>4 DEF PhysicalInv, DatabasesLogical
  <2>5. CASE KubeWriteFails \/ Restart
    BY <2>5, PhysicalKept DEF KubeWriteFails, Restart, AfterFailure, Return, Continue,
       ReturnAndRetry, Goto, Pushing, serverVars
  <2> QED
    BY <1>7, <2>1, <2>2, <2>3, <2>4, <2>5 DEF Environment
<1> QED
  BY <1>1, <1>2, <1>3, <1>4, <1>5, <1>6, <1>7 DEF Next

\* README.md: "backupType: WAL_V1 is rejected".  Whatever users edit in between and
\* however late a request is served, databasus never gets such a spec.
THEOREM PhysicalIsNeverPushed == Spec => []PhysicalNeverPushed
<1>1. Init => TypeOK /\ PhysicalInv
  BY InitType DEF Init, PhysicalInv, DatabasesLogical, Pushing
<1>2. TypeOK /\ PhysicalInv /\ [Next]_vars => (TypeOK /\ PhysicalInv)'
  BY NextType, NextPhysical
<1>3. PhysicalInv => PhysicalNeverPushed
  BY DEF PhysicalInv, DatabasesLogical, PhysicalNeverPushed, LogicalSpecs, Logical
<1> QED
  BY <1>1, <1>2, <1>3, PTL DEF Spec

(***************************************************************************)
(* A failure after the first request.  The ID of a new database is in the  *)
(* worker's copy of the status from the moment databasus answered it until *)
(* the copy is written, by the report of a failure as well.                *)
(***************************************************************************)
Partial == {"BackupConfigSyncFailed", "HealthcheckSyncFailed"}

PartialInv ==
    /\ PartialFailureKeepsId
    /\ pc \in {"saveConfig", "saveCheck"} => job.obj.status.id \in used
    /\ pc = "reportFailed" /\ job.reason \in Partial => job.obj.status.id \in used

\* A write that keeps the status, or reports what is not such a failure or names
\* an ID that was handed out, keeps the property.
LEMMA StoreNames ==
    ASSUME KubeTypeOK, PartialFailureKeepsId, NEW n \in Names, NEW o \in Object, Store(n, o),
           \/ o.status = api[n].status
           \/ o.status.reason \notin Partial
           \/ o.status.id \in used,
           used \subseteq used'
    PROVE  PartialFailureKeepsId'
<1> SUFFICES ASSUME NEW m \in Names, api'[m].status.reason \in Partial
             PROVE  api'[m].status.id \in used'
  BY DEF PartialFailureKeepsId, Partial
<1> DEFINE stored == [o EXCEPT !.rv = api[n].rv + 1]
<1>1. stored.status = o.status
  BY DEF Object, ObjectsWith
<1>2. api' = [api EXCEPT ![n] = stored]
  BY DEF Store
<1>3. CASE m = n
  <2>1. api'[m].status = o.status
    BY <1>1, <1>2, <1>3 DEF KubeTypeOK
  <2> QED
    BY <2>1 DEF PartialFailureKeepsId, Partial
<1>4. CASE m # n
  <2>1. api'[m] = api[m]
    BY <1>2, <1>4 DEF KubeTypeOK
  <2> QED
    BY <2>1 DEF PartialFailureKeepsId, Partial
<1> QED
  BY <1>3, <1>4

\* The steps that leave the Kubernetes API alone, and with it the two fields of
\* the worker, or put it at another step of the pass.
LEMMA PartialKept ==
    ASSUME PartialInv, UNCHANGED api, used \subseteq used',
           \/ UNCHANGED <<pc, job>>
           \/ pc' \notin {"saveConfig", "saveCheck", "reportFailed"}
           \/ pc' \in {"saveConfig", "saveCheck"} /\ job'.obj.status.id \in used'
           \/ pc' = "reportFailed" /\ job'.reason \notin Partial
           \/ pc' = "reportFailed" /\ job'.obj.status.id \in used'
    PROVE  PartialInv'
<1>1. PartialFailureKeepsId'
  BY DEF PartialInv, PartialFailureKeepsId
<1> QED
  BY <1>1 DEF PartialInv

LEMMA FailWithJob ==
    ASSUME LocalTypeOK, NEW r \in Reasons, FailWith(r)
    PROVE  pc' = "reportFailed" /\ job'.reason = r /\ job'.obj = job.obj
  BY JobTypes DEF FailWith, Continue, Goto, Job

LEMMA NextPartial == TypeOK /\ PartialInv /\ [Next]_vars => PartialInv'
<1> SUFFICES ASSUME TypeOK, PartialInv, [Next]_vars PROVE PartialInv'
  OBVIOUS
<1>0. KubeTypeOK /\ LocalTypeOK /\ ServerTypeOK /\ RestTypeOK /\ StoreTypeOK
  BY TypeParts DEF ServerTypeOK
<1>1. CASE UNCHANGED vars
  BY <1>1, PartialKept DEF vars, kubeVars, serverVars
<1>2. ASSUME NEW n \in Names, User(n) PROVE PartialInv'
  <2>1. PICK o \in Object : Store(n, o) /\ o.status \in {NoStatus, api[n].status}
    BY <1>0, <1>2, UserStores
  <2>2. NoStatus.reason \notin Partial
    BY DEF NoStatus, Partial
  <2>3. UNCHANGED <<pc, job, used>>
    BY <1>2 DEF User, serverVars
  <2>4. PartialFailureKeepsId'
    BY <1>0, <2>1, <2>2, <2>3, StoreNames DEF PartialInv
  <2> QED
    BY <2>3, <2>4 DEF PartialInv
<1>3. ASSUME NEW n \in Names, Manager(n) PROVE PartialInv'
  BY <1>3, PartialKept DEF Manager, DeliverEvent, FireTimer, Resync, serverVars
<1>4. ASSUME NEW n \in Names, Start(n) PROVE PartialInv'
  <2>1. PICK step \in Entries : Begin(n, step)
    BY <1>4, StartBegins
  <2> QED
    BY <2>1, PartialKept DEF Begin, Entries, serverVars
<1>5. ASSUME NEW n \in Names, NEW c \in Creds \cup {NoCred}, SetSecret(n, c)
      PROVE  PartialInv'
  BY <1>5, PartialKept DEF SetSecret, serverVars
<1>6. CASE Dependencies
  BY <1>6, PartialKept
  DEF Dependencies, DependencySyncs, DependencyBreaks, DependencyGone, kubeVars, serverVars
<1>7. CASE Worker
  <2>1. ASSUME NEW r \in Reasons \ Partial, FailWith(r), UNCHANGED <<kubeButDelayed, serverVars>>
        PROVE  PartialInv'
    BY <1>0, <2>1, FailWithJob, PartialKept DEF kubeButDelayed, serverVars
  <2>2. ASSUME NEW step \in Pushing \cup {"resolveNotifier"}, step \notin {"saveConfig", "saveCheck"},
               NEW j, Continue(step, j), UNCHANGED <<kubeButDelayed, serverVars>>
        PROVE  PartialInv'
    BY <2>2, PartialKept DEF Continue, Goto, Pushing, kubeButDelayed, serverVars
  <2>3. CASE ResolveStorage
    BY <2>1, <2>2, <2>3 DEF ResolveStorage, Reasons, Partial
  <2>4. CASE ResolveNotifier
    BY <2>1, <2>2, <2>4 DEF ResolveNotifier, Pushing, Reasons, Partial
  <2>5. CASE ReadPassword
    BY <2>1, <2>2, <2>5 DEF ReadPassword, Pushing, Reasons, Partial
  <2>6. CASE ReadSsl
    BY <2>1, <2>2, <2>6 DEF ReadSsl, Pushing, Reasons, Partial
  <2>7. CASE SaveRejected
    <3>1. FailureOf(pc) \in Reasons /\ (pc = "saveDatabase" => FailureOf(pc) \notin Partial)
      BY <2>7 DEF SaveRejected, FailureOf, Reasons, Partial
    <3>2. pc' = "reportFailed" /\ job'.reason = FailureOf(pc) /\ job'.obj = job.obj
      BY <1>0, <2>7, <3>1, FailWithJob DEF SaveRejected
    <3>3. pc # "saveDatabase" => job.obj.status.id \in used
      BY <2>7 DEF SaveRejected, PartialInv
    <3> QED
      BY <2>7, <3>1, <3>2, <3>3, PartialKept DEF SaveRejected, kubeButDelayed, serverVars
  <2>8. CASE DeleteRemote
    BY <2>8, PartialKept DEF DeleteRemote, Goto, kubeVars
  <2>9. CASE CreateDatabase
    <3>1. PICK id \in Ids : /\ Insert(job.key, JobContent, id)
                            /\ Goto("saveConfig", [job EXCEPT !.obj.status.id = id])
      BY <2>9 DEF CreateDatabase
    <3>2. job'.obj.status.id = id /\ pc' = "saveConfig"
      BY <1>0, <3>1, JobStatusUpdates DEF Goto
    <3>3. id \in used' /\ used \subseteq used'
      BY <3>1 DEF Insert
    <3> QED
      BY <2>9, <3>2, <3>3, PartialKept DEF CreateDatabase, kubeVars
  <2>10. CASE UpdateDatabase \/ SaveBackupConfig \/ SaveHealthcheckConfig
    <3>1. PICK op \in Parts : Push(op)
      BY <2>10 DEF UpdateDatabase, SaveBackupConfig, SaveHealthcheckConfig, Parts
    <3>2. job.obj.status.id \in used
      BY <1>0, <3>1, ApplyNames DEF Push, JobRequest
    <3>3. /\ pc' \in {"saveConfig", "saveCheck", "refresh"}
          /\ job' = job /\ used' = used /\ UNCHANGED kubeVars
      BY <2>10 DEF UpdateDatabase, SaveBackupConfig, SaveHealthcheckConfig, AfterConfig, Goto
    <3> QED
      BY <3>2, <3>3, PartialKept DEF kubeVars
  <2>11. CASE Refresh
    BY <2>11, PartialKept DEF Refresh, Goto, kubeVars, serverVars
  <2>12. CASE Writing
    <3>1. pc' = "idle" /\ used' = used
      BY <2>12, WritingReturns DEF serverVars
    <3>2. CASE UNCHANGED <<api, pending>>
      BY <3>1, <3>2, PartialKept
    <3>3. ASSUME NEW o \in Object, Store(job.key, o),
                 \/ o.status = api[job.key].status
                 \/ o.status = SyncedStatus
                 \/ o.status = FailedStatus /\ pc = "reportFailed"
          PROVE  PartialInv'
      <4>1. SyncedStatus.reason \notin Partial
        BY <1>0, StatusTypes DEF Partial
      <4>2. pc = "reportFailed" => FailedStatus.reason \notin Partial \/ FailedStatus.id \in used
        BY <1>0, StatusTypes DEF PartialInv
      <4>3. PartialFailureKeepsId'
        BY <1>0, <3>1, <3>3, <4>1, <4>2, JobTypes, StoreNames DEF PartialInv
      <4> QED
        BY <3>1, <4>3 DEF PartialInv
    <3> QED
      BY <2>12, <3>2, <3>3, WritingStores
  <2> QED
    BY <1>7, <2>3, <2>4, <2>5, <2>6, <2>7, <2>8, <2>9, <2>10, <2>11, <2>12
    DEF Worker, Writing
<1>8. CASE Environment
  <2>1. ASSUME NEW q \in late, ServeLate(q) PROVE PartialInv'
    BY <2>1, PartialKept DEF ServeLate, Insert, kubeVars
  <2>2. ASSUME NEW d \in databases, NEW h \in Healths, Probe(d, h) PROVE PartialInv'
    BY <2>2, PartialKept DEF Probe
  <2>3. ASSUME NEW id \in Ids, RemoveOutOfBand(id) PROVE PartialInv'
    BY <2>3, PartialKept DEF RemoveOutOfBand, kubeVars
  <2>4. CASE CallFails
    <3>1. UNCHANGED <<api, used>>
      BY <2>4 DEF CallFails, kubeButDelayed
    <3>2. CASE pc = "deleteRemote" /\ ReturnAndRetry
      BY <3>1, <3>2, PartialKept DEF ReturnAndRetry, Goto
    <3>3. CASE pc # "deleteRemote" /\ FailWith(FailureOf(pc))
      <4>1. FailureOf(pc) \in Reasons /\ (pc = "saveDatabase" => FailureOf(pc) \notin Partial)
        BY <2>4, <3>3 DEF CallFails, FailureOf, Reasons, Partial
      <4>2. pc' = "reportFailed" /\ job'.reason = FailureOf(pc) /\ job'.obj = job.obj
        BY <1>0, <3>3, <4>1, FailWithJob
      <4>3. pc # "saveDatabase" => job.obj.status.id \in used
        BY <2>4, <3>3 DEF CallFails, PartialInv
      <4> QED
        BY <3>1, <4>1, <4>2, <4>3, PartialKept
    <3> QED
      BY <2>4, <3>2, <3>3 DEF CallFails
  <2>5. CASE KubeWriteFails \/ Restart
    BY <2>5, PartialKept DEF KubeWriteFails, Restart, Relist, AfterFailure, Return, Continue,
       ReturnAndRetry, Goto, kubeButDelayed, serverVars
  <2> QED
    BY <1>8, <2>1, <2>2, <2>3, <2>4, <2>5 DEF Environment
<1> QED
  BY <1>1, <1>2, <1>3, <1>4, <1>5, <1>6, <1>7, <1>8 DEF Next

\* The database of an interrupted pass is not lost: whatever fails after it was
\* created, a status that reports one of the later requests also names its ID.
THEOREM PartialFailuresKeepIds == Spec => []PartialFailureKeepsId
<1>1. Init => TypeOK /\ PartialInv
  <2> SUFFICES ASSUME Init PROVE TypeOK /\ PartialInv
    OBVIOUS
  <2>1. \A n \in Names : api[n].status.reason = "None"
    BY DEF Init, KubeInit, NeverCreated, NoStatus
  <2> QED
    BY <2>1, InitType DEF Init, PartialInv, PartialFailureKeepsId
<1>2. TypeOK /\ PartialInv /\ [Next]_vars => (TypeOK /\ PartialInv)'
  BY NextType, NextPartial
<1>3. PartialInv => PartialFailureKeepsId
  BY DEF PartialInv
<1> QED
  BY <1>1, <1>2, <1>3, PTL DEF Spec

(***************************************************************************)
(* Where the storage of a backup config comes from: every ID that a pass,  *)
(* a request on its way or a stored config holds was read from the         *)
(* dependency at some time.  (Operator's proofs need no more of this       *)
(* controller.)                                                            *)
(***************************************************************************)
StoragesIn(K) ==
    /\ job.storage \in K
    /\ \A q \in late : q.config.storage \in K
    /\ \A d \in databases : d.config.storage \in K

LEMMA StoragesKept ==
    ASSUME NEW K, StoragesIn(K), UNCHANGED <<databases, late>>, job'.storage \in K
    PROVE  StoragesIn(K)'
  BY DEF StoragesIn

\* Only resolveStorageRef changes the storage of a pass.
LEMMA StorageUpdates ==
    ASSUME LocalTypeOK
    PROVE  /\ NoJob.storage = NoId
           /\ \A id : [job EXCEPT !.storage = id].storage = id
           /\ \A id : [job EXCEPT !.notifier = id].storage = job.storage
           /\ \A c : [job EXCEPT !.password = c].storage = job.storage
           /\ \A c : [job EXCEPT !.ssl = c].storage = job.storage
           /\ \A r : [job EXCEPT !.reason = r].storage = job.storage
           /\ \A id : [job EXCEPT !.obj.status.id = id].storage = job.storage
           /\ \A h : [job EXCEPT !.obj.status.health = h].storage = job.storage
<1>1. job \in Job
  BY JobTypes
<1>2. NoJob.storage = NoId
  BY DEF NoJob
<1> QED
  BY <1>1, <1>2, Zenon DEF Job

LEMMA ApplyStorages ==
    ASSUME StoreTypeOK, NEW K, StoragesIn(K), NEW q, q.config.storage \in K, Apply(q)
    PROVE  \A d \in databases' : d.config.storage \in K
<1>1. CASE Remove(q.id)
  BY <1>1 DEF Remove, StoragesIn
<1>2. ASSUME NEW d \in DatabaseOf(q.id), NEW new, Rewrite(d, new), new.config.storage \in K
      PROVE  \A e \in databases' : e.config.storage \in K
  BY <1>2 DEF Rewrite, StoragesIn
<1>3. ASSUME NEW d \in DatabaseOf(q.id)
      PROVE  /\ [d EXCEPT !.content = q.content].config.storage \in K
             /\ [d EXCEPT !.config = q.config].config.storage \in K
             /\ [d EXCEPT !.check = q.check].config.storage \in K
  <2>1. d \in Database /\ d.config.storage \in K
    BY DEF DatabaseOf, StoreTypeOK, StoragesIn
  <2> QED
    BY <2>1 DEF Database
<1> QED
  BY <1>1, <1>2, <1>3, Zenon DEF Apply

LEMMA InsertStorages ==
    ASSUME NEW K, StoragesIn(K), NoId \in K, NEW n, NEW c, NEW id, Insert(n, c, id)
    PROVE  \A d \in databases' : d.config.storage \in K
<1> DEFINE new == [id |-> id, owner |-> n, content |-> c,
                   config |-> [spec |-> NoSpec, storage |-> NoId],
                   check |-> NoSpec, health |-> ""]
<1>1. new.config.storage = NoId /\ databases' = databases \cup {new}
  BY DEF Insert
<1> HIDE DEF new
<1> QED
  BY <1>1 DEF StoragesIn

LEMMA WorkerStorages ==
    ASSUME TypeOK, NEW K, StoragesIn(K), NoId \in K, deps["storage"].id \in K, Worker
    PROVE  StoragesIn(K)'
<1>0. LocalTypeOK /\ StoreTypeOK
  BY TypeParts DEF ServerTypeOK
<1>1. CASE Resolve \/ SaveRejected \/ Refresh \/ Writing
  <2>1. UNCHANGED <<databases, late>>
    BY <1>1, WritingReturns DEF Resolve, ResolveStorage, ResolveNotifier, ReadPassword, ReadSsl,
       SaveRejected, Refresh, serverVars
  <2>2. job'.storage \in {job.storage, NoId, deps["storage"].id}
    <3>1. \/ job' = job \/ job' = NoJob
          \/ job' = [job EXCEPT !.storage = deps["storage"].id]
          \/ \E id : job' = [job EXCEPT !.notifier = id]
          \/ \E c : job' = [job EXCEPT !.password = c]
          \/ \E c : job' = [job EXCEPT !.ssl = c]
          \/ \E r : job' = [job EXCEPT !.reason = r]
          \/ \E h : job' = [job EXCEPT !.obj.status.health = h]
      BY <1>1, WritingReturns DEF Resolve, ResolveStorage, ResolveNotifier, ReadPassword,
         ReadSsl, SaveRejected, Refresh, Continue, Goto, FailWith
    <3>2. CASE job' = job \/ job' = NoJob
      BY <1>0, <3>2, StorageUpdates
    <3>3. CASE job' = [job EXCEPT !.storage = deps["storage"].id]
      BY <1>0, <3>3, StorageUpdates, Zenon
    <3>4. ASSUME NEW x, \/ job' = [job EXCEPT !.notifier = x]
                       \/ job' = [job EXCEPT !.password = x]
                       \/ job' = [job EXCEPT !.ssl = x]
                       \/ job' = [job EXCEPT !.reason = x]
                       \/ job' = [job EXCEPT !.obj.status.health = x]
          PROVE  job'.storage = job.storage
      <4>1. /\ [job EXCEPT !.notifier = x].storage = job.storage
            /\ [job EXCEPT !.password = x].storage = job.storage
            /\ [job EXCEPT !.ssl = x].storage = job.storage
            /\ [job EXCEPT !.reason = x].storage = job.storage
        BY <1>0, StorageUpdates, Zenon
      <4>2. [job EXCEPT !.obj.status.health = x].storage = job.storage
        BY <1>0, StorageUpdates, Zenon
      <4> QED
        BY <3>4, <4>1, <4>2, Zenon
    <3> QED
      BY <3>1, <3>2, <3>3, <3>4, Zenon
  <2> QED
    BY <2>1, <2>2, StoragesKept DEF StoragesIn
<1>2. CASE DeleteRemote
  BY <1>2 DEF DeleteRemote, Remove, Goto, StoragesIn
<1>3. CASE CreateDatabase
  <2>1. PICK id \in Ids : /\ Insert(job.key, JobContent, id)
                          /\ job' = [job EXCEPT !.obj.status.id = id]
    BY <1>3 DEF CreateDatabase, Goto
  <2> QED
    BY <1>0, <1>3, <2>1, InsertStorages, StorageUpdates DEF CreateDatabase, StoragesIn
<1>4. CASE UpdateDatabase \/ SaveBackupConfig \/ SaveHealthcheckConfig
  <2>1. /\ \E op \in Parts : Apply(JobRequest(op))
        /\ job' = job /\ late' = late
    BY <1>4 DEF UpdateDatabase, SaveBackupConfig, SaveHealthcheckConfig, Push, Goto, Parts
  <2>2. \A op : JobRequest(op).config.storage = job.storage
    BY DEF JobRequest, JobConfig
  <2> QED
    BY <1>0, <2>1, <2>2, ApplyStorages DEF StoragesIn
<1> QED
  BY <1>1, <1>2, <1>3, <1>4 DEF Worker, Resolve, Writing

LEMMA EnvironmentStorages ==
    ASSUME TypeOK, NEW K, StoragesIn(K), NoId \in K, Environment
    PROVE  StoragesIn(K)'
<1>0. LocalTypeOK /\ StoreTypeOK
  BY TypeParts DEF ServerTypeOK
<1>1. ASSUME NEW q \in late, ServeLate(q) PROVE StoragesIn(K)'
  <2>1. \A d \in databases' : d.config.storage \in K
    BY <1>0, <1>1, InsertStorages, ApplyStorages DEF ServeLate, StoragesIn
  <2> QED
    BY <1>1, <2>1 DEF ServeLate, StoragesIn
<1>2. ASSUME NEW d \in databases, NEW h \in Healths, Probe(d, h) PROVE StoragesIn(K)'
  <2>1. [d EXCEPT !.health = h].config.storage \in K
    BY <1>0 DEF StoreTypeOK, Database, StoragesIn
  <2> QED
    BY <1>2, <2>1 DEF Probe, Rewrite, StoragesIn
<1>3. ASSUME NEW id \in Ids, RemoveOutOfBand(id) PROVE StoragesIn(K)'
  BY <1>3 DEF RemoveOutOfBand, Remove, StoragesIn
<1>4. CASE CallFails
  <2>1. databases' = databases /\ job'.storage \in K
    BY <1>0, <1>4, StorageUpdates
    DEF CallFails, ReturnAndRetry, FailWith, Continue, Goto, StoragesIn
  <2>2. \A q \in late' : q.config.storage \in K
    <3>1. \A op : JobRequest(op).config.storage = job.storage
      BY DEF JobRequest, JobConfig
    <3> QED
      BY <1>4, <3>1 DEF CallFails, StoragesIn
  <2> QED
    BY <2>1, <2>2 DEF StoragesIn
<1>5. CASE KubeWriteFails \/ Restart
  BY <1>0, <1>5, StoragesKept, StorageUpdates DEF KubeWriteFails, Restart, AfterFailure, Return,
     Continue, ReturnAndRetry, Goto, serverVars
<1> QED
  BY <1>1, <1>2, <1>3, <1>4, <1>5 DEF Environment

LEMMA NextStorages ==
    ASSUME TypeOK, NEW K, StoragesIn(K), NoId \in K, deps["storage"].id \in K, [Next]_vars
    PROVE  StoragesIn(K)'
<1>0. LocalTypeOK
  BY TypeParts
<1>1. CASE UNCHANGED vars \/ Dependencies
  BY <1>1, StoragesKept DEF vars, serverVars, Dependencies, DependencySyncs, DependencyBreaks,
     DependencyGone, StoragesIn
<1>2. ASSUME NEW n \in Names, User(n) \/ Manager(n) PROVE StoragesIn(K)'
  BY <1>2, StoragesKept DEF User, Manager, serverVars, StoragesIn
<1>3. ASSUME NEW n \in Names, Start(n) PROVE StoragesIn(K)'
  <2>1. PICK step \in Entries : Begin(n, step)
    BY <1>3, StartBegins
  <2>2. NoJob.storage = NoId /\ [NoJob EXCEPT !.key = n, !.obj = cache[n]].storage = NoId
    BY DEF NoJob
  <2>3. job'.storage = NoId
    BY <2>1, <2>2 DEF Begin
  <2> QED
    BY <2>1, <2>3, StoragesKept DEF Begin, serverVars
<1>4. ASSUME NEW n \in Names, NEW c \in Creds \cup {NoCred}, SetSecret(n, c)
      PROVE  StoragesIn(K)'
  BY <1>4, StoragesKept DEF SetSecret, serverVars, StoragesIn
<1> QED
  BY <1>1, <1>2, <1>3, <1>4, WorkerStorages, EnvironmentStorages DEF Next

-----------------------------------------------------------------------------
USE DEF Object

LEMMA KubeTypes ==
    ASSUME KubeTypeOK
    PROVE  KubeTyped(Status)
  BY DEF KubeTypeOK, KubeTyped

(***************************************************************************)
(* What a step does to an object.                                          *)
(***************************************************************************)
Created(n) ==
    /\ ~api[n].exists
    /\ api'[n].exists /\ ~api'[n].deleting /\ ~api'[n].finalizer
    /\ api'[n].gen = 1 /\ api'[n].status = NoStatus

Edited(n) ==
    /\ api[n].exists
    /\ api'[n].exists
    /\ api'[n].deleting = api[n].deleting /\ api'[n].finalizer = api[n].finalizer
    /\ api'[n].gen = api[n].gen + 1 /\ api'[n].status = api[n].status

Marked(n) ==
    /\ api[n].exists /\ ~api[n].deleting /\ api[n].finalizer
    /\ api'[n].exists /\ api'[n].deleting /\ api'[n].finalizer
    /\ api'[n].gen = api[n].gen + 1 /\ api'[n].status = api[n].status

Vanished(n) ==
    /\ api[n].exists /\ ~api[n].deleting /\ ~api[n].finalizer
    /\ ~api'[n].exists /\ ~api'[n].deleting /\ ~api'[n].finalizer
    /\ api'[n].status = api[n].status

\* What users do.
UserMoved(n) ==
    /\ Created(n) \/ Edited(n) \/ Marked(n) \/ Vanished(n)
    /\ UNCHANGED <<pc, job, serverVars>>

Released(n) ==
    /\ pc = "removeFinalizer"
    /\ ~api'[n].exists /\ ~api'[n].finalizer
    /\ api'[n].deleting = api[n].deleting /\ api'[n].status = api[n].status

SameSpec(n) ==
    /\ api'[n].exists = api[n].exists /\ api'[n].deleting = api[n].deleting
    /\ api'[n].spec = api[n].spec /\ api'[n].gen = api[n].gen

Guarded(n) ==
    /\ pc = "addFinalizer"
    /\ SameSpec(n)
    /\ api'[n].finalizer /\ api'[n].status = api[n].status

Reported(n) ==
    /\ SameSpec(n)
    /\ api'[n].finalizer = api[n].finalizer
    /\ api'[n].status.id = job.obj.status.id
    /\ \/ /\ pc = "reportFailed"
          /\ api'[n].status.reason = job.reason
          /\ api'[n].status.obsGen = job.obj.status.obsGen
       \/ /\ pc = "reportSynced"
          /\ api'[n].status.reason = "Synced"
          /\ api'[n].status.obsGen = job.obj.gen

\* What the worker writes, from a copy with the present version.
Written(n) ==
    /\ n = job.key /\ Current(n, job.obj)
    /\ Released(n) \/ Guarded(n) \/ Reported(n)
    /\ pc' = "idle"
    /\ UNCHANGED serverVars

ObjectMoves ==
    \E n \in Names :
       /\ UserMoved(n) \/ Written(n)
       /\ \A m \in Names \ {n} : api'[m] = api[m]

(***************************************************************************)
(* What a step of the worker does.                                         *)
(***************************************************************************)
\* A version with the finalizer of an object nobody has asked to delete.
Held(o) == o.exists /\ o.finalizer /\ ~o.deleting

DeleteSteps == {"deleteRemote", "removeFinalizer"}

\* The steps of a pass before the database has an ID, and after it.
Early == {"resolveStorage", "resolveNotifier", "readPassword", "readSsl", "saveDatabase"}

Saved == {"saveConfig", "saveCheck", "refresh", "reportSynced"}

Named == Saved \cup {"reportFailed"}

PushSteps == Early \cup Named

Quiet == UNCHANGED <<pc, job, serverVars>>

Returned ==
    /\ pc' = "idle"
    /\ UNCHANGED <<databases, used, disturbed>>
    /\ \/ UNCHANGED late
       \/ pc = "deleteRemote" /\ late' = late \cup {JobRequest("delete")}

Began ==
    /\ pc = "idle" /\ pc' \in Entries
    /\ job'.key \in Names /\ job'.obj = cache[job'.key] /\ job'.obj.exists
    /\ pc' \in DeleteSteps => job'.obj.deleting
    /\ pc' = "removeFinalizer" => job'.obj.status.id = NoId
    /\ pc' = "resolveStorage" => Held(job'.obj)
    /\ UNCHANGED serverVars

Deleted ==
    /\ pc = "deleteRemote" /\ pc' = "removeFinalizer" /\ job' = job
    /\ Remove(job.obj.status.id)
    /\ UNCHANGED <<used, late, disturbed>>

Resolved ==
    /\ pc \in Early /\ pc' \in Early
    /\ job'.key = job.key /\ job'.obj = job.obj
    /\ UNCHANGED serverVars

Failed ==
    /\ pc \in PushSteps /\ pc' = "reportFailed"
    /\ job'.key = job.key /\ job'.obj = job.obj
    /\ job'.reason # "Synced"
    /\ UNCHANGED <<databases, used, disturbed>>
    /\ \/ UNCHANGED late
       \/ \E op \in Parts : late' = late \cup {JobRequest(op)}

\* The fields of the worker's copy that are not the loop's to change on the way.
SameCopy ==
    /\ job'.key = job.key
    /\ job'.obj.exists = job.obj.exists /\ job'.obj.rv = job.obj.rv
    /\ job'.obj.gen = job.obj.gen /\ job'.obj.spec = job.obj.spec
    /\ job'.obj.deleting = job.obj.deleting /\ job'.obj.finalizer = job.obj.finalizer
    /\ job'.obj.status.obsGen = job.obj.status.obsGen

Inserted ==
    /\ pc = "saveDatabase" /\ pc' = "saveConfig"
    /\ job.obj.status.id = NoId
    /\ SameCopy
    /\ \E id \in Ids : Insert(job.key, JobContent, id) /\ job'.obj.status.id = id
    /\ UNCHANGED <<late, disturbed>>

Pushed ==
    /\ \/ pc = "saveDatabase" /\ pc' = "saveConfig" /\ Push("database")
       \/ pc = "saveConfig" /\ pc' = AfterConfig /\ Push("config")
       \/ pc = "saveCheck" /\ pc' = "refresh" /\ Push("check")
    /\ job' = job
    /\ UNCHANGED <<used, late>>

Refreshed ==
    /\ pc = "refresh" /\ pc' = "reportSynced"
    /\ SameCopy
    /\ job'.obj.status.id = job.obj.status.id
    /\ UNCHANGED serverVars

WorkerMoves ==
    /\ api' = api
    /\ \/ Quiet \/ Returned \/ Began \/ Deleted \/ Resolved
       \/ Failed \/ Inserted \/ Pushed \/ Refreshed

(***************************************************************************)
(* What databasus does on its own.                                         *)
(***************************************************************************)
Served(q) ==
    /\ late' = late \ {q}
    /\ \/ \E id \in Ids : Insert(q.owner, q.content, id) /\ UNCHANGED disturbed
       \/ /\ q.op \in Parts
          /\ Apply(q)
          /\ disturbed' = disturbed \cup {<<q.id, q.op>>}
          /\ UNCHANGED used
       \/ q.op = "delete" /\ Remove(q.id) /\ UNCHANGED <<used, disturbed>>
       \/ UNCHANGED <<databases, used, disturbed>>

Lost(id) ==
    /\ OutOfBand
    /\ Remove(id)
    /\ disturbed' = disturbed \cup ({id} \X Parts)
    /\ UNCHANGED <<used, late>>

Probed(d, h) ==
    /\ Rewrite(d, [d EXCEPT !.health = h])
    /\ UNCHANGED <<used, late, disturbed>>

ServerMoves ==
    /\ UNCHANGED <<api, pc, job>>
    /\ \/ \E q \in late : Served(q)
       \/ \E id \in Ids : Lost(id)
       \/ \E d \in databases, h \in Healths : Probed(d, h)

Moves == KubeMoves /\ Ordered' /\ (ObjectMoves \/ WorkerMoves \/ ServerMoves)

(***************************************************************************)
(* Every action is one of these cases.                                     *)
(***************************************************************************)
LEMMA Stored ==
    ASSUME TypeOK, KubeInv, NEW n \in Names, NEW o \in Object, Store(n, o), cache' = cache
    PROVE  /\ KubeMoves /\ Ordered'
           /\ api'[n].exists = o.exists /\ api'[n].deleting = o.deleting
           /\ api'[n].finalizer = o.finalizer /\ api'[n].status = o.status
           /\ api'[n].gen = o.gen /\ api'[n].spec = o.spec
           /\ \A m \in Names \ {n} : api'[m] = api[m]
<1>1. KubeTyped(Status)
  BY TypeParts, KubeTypes
<1> QED
  BY <1>1, StoreMoves, StoreOrdered, StoreEffect

\* The objects' side of a step that leaves it alone.
LEMMA KubeQuiet ==
    ASSUME TypeOK, KubeInv, UNCHANGED <<api, cache, pending>>
    PROVE  KubeMoves /\ Ordered'
  BY TypeParts, KubeTypes, QuietMoves

LEMMA UserMoves ==
    ASSUME TypeOK, KubeInv, NEW n \in Names, User(n)
    PROVE  Moves
<1>0. api[n] \in Object
  BY DEF TypeOK
<1>1. UNCHANGED <<pc, job, serverVars>> /\ cache' = cache
  BY DEF User, CreateObject, EditSpec, DeleteObject
<1>2. ASSUME NEW s \in Specs, CreateObject(n, s, NoStatus) PROVE Moves
  <2> DEFINE o == [exists |-> TRUE, rv |-> 0, gen |-> 1, spec |-> s, deleting |-> FALSE,
                   finalizer |-> FALSE, status |-> NoStatus]
  <2>1. o \in Object
    BY InitialValues DEF ObjectsWith
  <2>2. /\ o.exists /\ ~o.deleting /\ ~o.finalizer /\ o.gen = 1 /\ o.status = NoStatus
        /\ Store(n, o) /\ ~api[n].exists
    BY <1>2 DEF CreateObject
  <2> HIDE DEF o
  <2>3. Created(n) /\ KubeMoves /\ Ordered' /\ \A m \in Names \ {n} : api'[m] = api[m]
    BY <1>1, <2>1, <2>2, Stored DEF Created
  <2> QED
    BY <1>1, <2>3 DEF Moves, ObjectMoves, UserMoved
<1>3. ASSUME NEW s \in Specs, EditSpec(n, s) PROVE Moves
  <2> DEFINE o == [api[n] EXCEPT !.spec = s, !.gen = @ + 1]
  <2>1. o \in Object
    BY <1>0, ObjectUpdates
  <2>2. /\ o.exists = api[n].exists /\ o.deleting = api[n].deleting
        /\ o.finalizer = api[n].finalizer /\ o.gen = api[n].gen + 1
        /\ o.status = api[n].status
    BY <1>0 DEF ObjectsWith
  <2>3. Store(n, o) /\ api[n].exists
    BY <1>3 DEF EditSpec
  <2> HIDE DEF o
  <2>4. Edited(n) /\ KubeMoves /\ Ordered' /\ \A m \in Names \ {n} : api'[m] = api[m]
    BY <1>1, <2>1, <2>2, <2>3, Stored DEF Edited
  <2> QED
    BY <1>1, <2>4 DEF Moves, ObjectMoves, UserMoved
<1>4. CASE DeleteObject(n) /\ api[n].finalizer
  <2> DEFINE o == [api[n] EXCEPT !.deleting = TRUE, !.gen = @ + 1]
  <2>1. o \in Object
    BY <1>0, ObjectUpdates
  <2>2. /\ o.exists = api[n].exists /\ o.deleting
        /\ o.finalizer = api[n].finalizer /\ o.gen = api[n].gen + 1
        /\ o.status = api[n].status
    BY <1>0 DEF ObjectsWith
  <2>3. Store(n, o) /\ api[n].exists /\ ~api[n].deleting
    BY <1>4 DEF DeleteObject
  <2> HIDE DEF o
  <2>4. Marked(n) /\ KubeMoves /\ Ordered' /\ \A m \in Names \ {n} : api'[m] = api[m]
    BY <1>1, <1>4, <2>1, <2>2, <2>3, Stored DEF Marked
  <2> QED
    BY <1>1, <2>4 DEF Moves, ObjectMoves, UserMoved
<1>5. CASE DeleteObject(n) /\ ~api[n].finalizer
  <2> DEFINE o == [api[n] EXCEPT !.exists = FALSE]
  <2>1. o \in Object
    BY <1>0, ObjectUpdates
  <2>2. /\ ~o.exists /\ o.deleting = api[n].deleting
        /\ o.finalizer = api[n].finalizer /\ o.status = api[n].status
    BY <1>0 DEF ObjectsWith
  <2>3. Store(n, o) /\ api[n].exists /\ ~api[n].deleting
    BY <1>5 DEF DeleteObject
  <2> HIDE DEF o
  <2>4. Vanished(n) /\ KubeMoves /\ Ordered' /\ \A m \in Names \ {n} : api'[m] = api[m]
    BY <1>1, <1>5, <2>1, <2>2, <2>3, Stored DEF Vanished
  <2> QED
    BY <1>1, <2>4 DEF Moves, ObjectMoves, UserMoved
<1> QED
  BY <1>2, <1>3, <1>4, <1>5 DEF User

\* Steps that change no object, no database and none of the worker's variables.
LEMMA QuietSteps ==
    ASSUME TypeOK, KubeInv,
           \/ UNCHANGED vars
           \/ \E n \in Names : Manager(n)
           \/ \E n \in Names, c \in Creds \cup {NoCred} : SetSecret(n, c)
           \/ Dependencies
    PROVE  Moves
<1>1. CASE /\ UNCHANGED <<api, cache, pending>>
           /\ UNCHANGED <<pc, job, serverVars>>
  BY <1>1, KubeQuiet DEF Moves, WorkerMoves, Quiet
<1>2. CASE UNCHANGED vars
  BY <1>1, <1>2 DEF vars, kubeVars
<1>3. CASE \E n \in Names, c \in Creds \cup {NoCred} : SetSecret(n, c)
  BY <1>1, <1>3 DEF SetSecret
<1>4. CASE Dependencies
  BY <1>1, <1>4
  DEF Dependencies, DependencySyncs, DependencyBreaks, DependencyGone, kubeVars
<1>5. ASSUME NEW n \in Names, Manager(n) PROVE Moves
  <2>1. UNCHANGED <<api, pc, job, serverVars>>
    BY <1>5 DEF Manager, DeliverEvent, FireTimer, Resync
  <2>2. CASE DeliverEvent(n)
    <3>1. KubeMoves /\ Ordered'
      BY <2>2, TypeParts, KubeTypes, DeliverMoves
    <3> QED
      BY <2>1, <3>1 DEF Moves, WorkerMoves, Quiet
  <2>3. CASE FireTimer(n) \/ Resync(n)
    BY <1>1, <2>1, <2>3 DEF FireTimer, Resync
  <2> QED
    BY <1>5, <2>2, <2>3 DEF Manager
<1> QED
  BY <1>2, <1>3, <1>4, <1>5

LEMMA StartMoves ==
    ASSUME TypeOK, KubeInv, NEW n \in Names, Start(n)
    PROVE  Moves
<1>1. ASSUME NEW step \in Entries, Begin(n, step), step = "idle" PROVE Moves
  <2>1. KubeMoves /\ Ordered'
    BY <1>1, KubeQuiet DEF Begin
  <2> QED
    BY <1>1, <2>1 DEF Begin, Moves, WorkerMoves, Returned, serverVars
<1>2. ASSUME NEW step \in Entries \ {"idle"}, Begin(n, step), cache[n].exists,
             step \in DeleteSteps => cache[n].deleting,
             step = "removeFinalizer" => cache[n].status.id = NoId,
             step = "resolveStorage" => Held(cache[n])
      PROVE  Moves
  <2>1. pc = "idle" /\ pc' = step /\ UNCHANGED <<api, cache, pending, serverVars>>
    BY <1>2 DEF Begin
  <2>2. job' = [NoJob EXCEPT !.key = n, !.obj = cache[n]]
    BY <1>2 DEF Begin
  <2>3. job'.key = n /\ job'.obj = cache[n]
    BY <2>2, InitialValues DEF Job
  <2>4. KubeMoves /\ Ordered'
    BY <2>1, KubeQuiet
  <2>5. Began
    BY <1>2, <2>1, <2>3 DEF Began
  <2> QED
    BY <2>1, <2>4, <2>5 DEF Moves, WorkerMoves
<1>3. CASE ReconcileGone(n)
  BY <1>1, <1>3 DEF ReconcileGone, Entries
<1>4. CASE ReconcileDeletion(n)
  <2>1. CASE cache[n].status.id # NoId /\ Begin(n, "deleteRemote")
    BY <1>2, <1>4, <2>1 DEF ReconcileDeletion, DeleteSteps, Entries
  <2>2. CASE cache[n].status.id = NoId /\ Begin(n, "removeFinalizer")
    BY <1>2, <1>4, <2>2 DEF ReconcileDeletion, DeleteSteps, Entries
  <2> QED
    BY <1>4, <2>1, <2>2 DEF ReconcileDeletion
<1>5. CASE ReconcileUnprotected(n)
  BY <1>2, <1>5 DEF ReconcileUnprotected, DeleteSteps, Entries
<1>6. CASE ReconcileLive(n)
  BY <1>2, <1>6 DEF ReconcileLive, DeleteSteps, Entries, Held
<1> QED
  BY <1>3, <1>4, <1>5, <1>6 DEF Start
(***************************************************************************)
(* The actions of a pass.                                                  *)
(***************************************************************************)
LEMMA ResolveMoves ==
    ASSUME TypeOK, KubeInv, Resolve \/ SaveRejected
    PROVE  Moves
<1>0. LocalTypeOK /\ job \in Job
  BY TypeParts, JobTypes
<1>1. UNCHANGED <<api, cache, pending, serverVars>>
  BY DEF Resolve, ResolveStorage, ResolveNotifier, ReadPassword, ReadSsl, SaveRejected,
     kubeButDelayed
<1>2. KubeMoves /\ Ordered'
  BY <1>1, KubeQuiet
<1>3. ASSUME NEW r \in Reasons, r # "Synced", FailWith(r), pc \in PushSteps
      PROVE  Failed
  <2>1. job'.key = job.key
    BY <1>0, <1>3 DEF FailWith, Continue, Goto, Job
  <2> QED
    BY <1>0, <1>1, <1>3, <2>1, FailWithJob DEF Failed, serverVars
<1>4. ASSUME NEW step \in Early, NEW j, Continue(step, j), j.key = job.key, j.obj = job.obj,
             pc \in Early
      PROVE  Resolved
  BY <1>1, <1>4 DEF Continue, Goto, Resolved
<1>5. /\ \A x : /\ [job EXCEPT !.storage = x].key = job.key
                /\ [job EXCEPT !.storage = x].obj = job.obj
      /\ \A x : /\ [job EXCEPT !.notifier = x].key = job.key
                /\ [job EXCEPT !.notifier = x].obj = job.obj
      /\ \A x : /\ [job EXCEPT !.password = x].key = job.key
                /\ [job EXCEPT !.password = x].obj = job.obj
      /\ \A x : /\ [job EXCEPT !.ssl = x].key = job.key
                /\ [job EXCEPT !.ssl = x].obj = job.obj
  BY <1>0 DEF Job
<1>6. Failed \/ Resolved
  <2>1. CASE ResolveStorage
    BY <1>3, <1>4, <1>5, <2>1 DEF ResolveStorage, Early, PushSteps, Reasons
  <2>2. CASE ResolveNotifier
    BY <1>3, <1>4, <1>5, <2>2 DEF ResolveNotifier, Early, PushSteps, Reasons
  <2>3. CASE ReadPassword
    BY <1>3, <1>4, <1>5, <2>3 DEF ReadPassword, Early, PushSteps, Reasons
  <2>4. CASE ReadSsl
    BY <1>3, <1>4, <1>5, <2>4 DEF ReadSsl, Early, PushSteps, Reasons
  <2>5. CASE SaveRejected
    <3>1. FailureOf(pc) \in Reasons /\ FailureOf(pc) # "Synced" /\ pc \in PushSteps
      BY <2>5 DEF SaveRejected, FailureOf, Reasons, PushSteps, Early, Named, Saved
    <3> QED
      BY <1>3, <2>5, <3>1 DEF SaveRejected
  <2> QED
    BY <2>1, <2>2, <2>3, <2>4, <2>5 DEF Resolve
<1> QED
  BY <1>1, <1>2, <1>6 DEF Moves, WorkerMoves

\* What the two updates of the copy of the status leave alone.
LEMMA CopyUpdates ==
    ASSUME LocalTypeOK
    PROVE  /\ \A id \in Ids : LET j == [job EXCEPT !.obj.status.id = id] IN
                 /\ j.key = job.key /\ j.obj.status.id = id
                 /\ j.obj.exists = job.obj.exists /\ j.obj.rv = job.obj.rv
                 /\ j.obj.gen = job.obj.gen /\ j.obj.spec = job.obj.spec
                 /\ j.obj.deleting = job.obj.deleting
                 /\ j.obj.finalizer = job.obj.finalizer
                 /\ j.obj.status.obsGen = job.obj.status.obsGen
           /\ \A h \in Healths : LET j == [job EXCEPT !.obj.status.health = h] IN
                 /\ j.key = job.key /\ j.obj.status.id = job.obj.status.id
                 /\ j.obj.exists = job.obj.exists /\ j.obj.rv = job.obj.rv
                 /\ j.obj.gen = job.obj.gen /\ j.obj.spec = job.obj.spec
                 /\ j.obj.deleting = job.obj.deleting
                 /\ j.obj.finalizer = job.obj.finalizer
                 /\ j.obj.status.obsGen = job.obj.status.obsGen
<1>1. job \in Job /\ job.obj \in Object /\ job.obj.status \in Status
  BY JobTypes
<1> QED
  BY <1>1 DEF Job, ObjectsWith, Status

LEMMA CallMoves ==
    ASSUME TypeOK, KubeInv,
           \/ DeleteRemote \/ CreateDatabase \/ UpdateDatabase
           \/ SaveBackupConfig \/ SaveHealthcheckConfig \/ Refresh
    PROVE  Moves
<1>0. LocalTypeOK
  BY TypeParts
<1>1. UNCHANGED <<api, cache, pending>>
  BY DEF DeleteRemote, CreateDatabase, UpdateDatabase, SaveBackupConfig,
     SaveHealthcheckConfig, Refresh, kubeVars
<1>2. KubeMoves /\ Ordered'
  BY <1>1, KubeQuiet
<1>3. CASE DeleteRemote
  <2>1. Deleted
    BY <1>3 DEF DeleteRemote, Deleted, Goto
  <2> QED
    BY <1>1, <1>2, <2>1 DEF Moves, WorkerMoves
<1>4. CASE CreateDatabase
  <2>1. PICK id \in Ids : /\ Insert(job.key, JobContent, id)
                          /\ Goto("saveConfig", [job EXCEPT !.obj.status.id = id])
    BY <1>4 DEF CreateDatabase
  <2>2. SameCopy /\ job'.obj.status.id = id /\ pc' = "saveConfig"
    BY <1>0, <2>1, CopyUpdates DEF Goto, SameCopy
  <2>3. pc = "saveDatabase" /\ job.obj.status.id = NoId /\ UNCHANGED <<late, disturbed>>
    BY <1>4 DEF CreateDatabase
  <2>4. Inserted
    BY <2>1, <2>2, <2>3 DEF Inserted
  <2> QED
    BY <1>1, <1>2, <2>4 DEF Moves, WorkerMoves
<1>5. CASE UpdateDatabase \/ SaveBackupConfig \/ SaveHealthcheckConfig
  <2>1. Pushed
    BY <1>5 DEF UpdateDatabase, SaveBackupConfig, SaveHealthcheckConfig, Pushed, Goto
  <2> QED
    BY <1>1, <1>2, <2>1 DEF Moves, WorkerMoves
<1>6. CASE Refresh
  <2>1. pc = "refresh" /\ pc' = "reportSynced" /\ UNCHANGED serverVars
    BY <1>6 DEF Refresh, Goto
  <2>2. Goto("reportSynced", job) => Refreshed
    BY <2>1 DEF Goto, Refreshed, SameCopy
  <2>3. ASSUME NEW d \in DatabaseOf(job.obj.status.id),
               Goto("reportSynced", [job EXCEPT !.obj.status.health = d.health])
        PROVE  Refreshed
    <3>1. d.health \in Healths
      BY TypeParts DEF DatabaseOf, ServerTypeOK, StoreTypeOK, Database
    <3> QED
      BY <1>0, <2>1, <2>3, <3>1, CopyUpdates DEF Goto, Refreshed, SameCopy
  <2>4. Refreshed
    BY <1>6, <2>2, <2>3 DEF Refresh
  <2> QED
    BY <1>1, <1>2, <2>4 DEF Moves, WorkerMoves
<1> QED
  BY <1>3, <1>4, <1>5, <1>6

\* A call that fails, a refused write and a restart: nothing but late grows.
LEMMA FaultMoves ==
    ASSUME TypeOK, KubeInv, CallFails \/ KubeWriteFails \/ Restart
    PROVE  Moves
<1>0. LocalTypeOK /\ job \in Job
  BY TypeParts, JobTypes
<1>1. CASE CallFails
  <2>1. UNCHANGED <<api, cache, pending>> /\ UNCHANGED <<databases, used, disturbed>>
    BY <1>1 DEF CallFails, kubeButDelayed
  <2>2. KubeMoves /\ Ordered'
    BY <2>1, KubeQuiet
  <2>3. CASE pc = "deleteRemote" /\ ReturnAndRetry
    <3>1. Returned
      BY <1>1, <2>1, <2>3 DEF CallFails, ReturnAndRetry, Goto, Returned, OpOf
    <3> QED
      BY <2>1, <2>2, <3>1 DEF Moves, WorkerMoves
  <2>4. CASE pc # "deleteRemote" /\ FailWith(FailureOf(pc))
    <3>1. /\ FailureOf(pc) \in Reasons /\ FailureOf(pc) # "Synced" /\ pc \in PushSteps
          /\ OpOf(pc) \in Parts
      BY <1>1, <2>4 DEF CallFails, FailureOf, Reasons, PushSteps, Early, Named, Saved, OpOf, Parts
    <3>2. job'.key = job.key
      BY <1>0, <2>4 DEF FailWith, Continue, Goto, Job
    <3>3. pc' = "reportFailed" /\ job'.reason = FailureOf(pc) /\ job'.obj = job.obj
      BY <1>0, <2>4, <3>1, FailWithJob
    <3>4. UNCHANGED late \/ late' = late \cup {JobRequest(OpOf(pc))}
      BY <1>1 DEF CallFails
    <3>5. Failed
      BY <2>1, <3>1, <3>2, <3>3, <3>4 DEF Failed
    <3> QED
      BY <2>1, <2>2, <3>5 DEF Moves, WorkerMoves
  <2> QED
    BY <1>1, <2>3, <2>4 DEF CallFails
<1>2. CASE KubeWriteFails
  <2>1. UNCHANGED <<api, cache, pending, serverVars>> /\ pc' = "idle"
    BY <1>2 DEF KubeWriteFails, kubeButDelayed, AfterFailure, Return, Continue,
       ReturnAndRetry, Goto
  <2>2. KubeMoves /\ Ordered'
    BY <2>1, KubeQuiet
  <2> QED
    BY <2>1, <2>2 DEF Moves, WorkerMoves, Returned, serverVars
<1>3. CASE Restart
  <2>1. UNCHANGED <<api, serverVars>> /\ pc' = "idle"
    BY <1>3 DEF Restart, Relist, Goto
  <2>2. KubeMoves /\ Ordered'
    BY <1>3, TypeParts, KubeTypes, RelistMoves DEF Restart
  <2> QED
    BY <2>1, <2>2 DEF Moves, WorkerMoves, Returned, serverVars
<1> QED
  BY <1>1, <1>2, <1>3

LEMMA WritingMoves ==
    ASSUME TypeOK, KubeInv, Writing
    PROVE  Moves
<1>0. LocalTypeOK /\ job.key \in Names /\ api[job.key] \in Object
  BY TypeParts, JobTypes DEF KubeTypeOK
<1>1. pc' = "idle" /\ UNCHANGED <<cache, serverVars>>
  BY WritingReturns
<1>2. CASE UNCHANGED <<api, pending>>
  <2>1. KubeMoves /\ Ordered'
    BY <1>1, <1>2, KubeQuiet
  <2> QED
    BY <1>1, <1>2, <2>1 DEF Moves, WorkerMoves, Returned, serverVars
<1> DEFINE n == job.key
<1>3. ASSUME NEW o \in Object, Store(n, o), Current(n, job.obj),
             Released(n) \/ Guarded(n) \/ Reported(n)
      PROVE  Moves
  <2>1. KubeMoves /\ Ordered' /\ \A m \in Names \ {n} : api'[m] = api[m]
    BY <1>0, <1>1, <1>3, Stored
  <2> QED
    BY <1>0, <1>1, <1>3, <2>1 DEF Moves, ObjectMoves, Written
<1>4. CASE RemoveFinalizer /\ Current(n, job.obj) /\ DropFinalizer(n)
  <2> DEFINE o == [api[n] EXCEPT !.finalizer = FALSE, !.exists = FALSE]
  <2>1. o \in Object
    BY <1>0, ObjectUpdates
  <2>2. ~o.exists /\ ~o.finalizer /\ o.deleting = api[n].deleting /\ o.status = api[n].status
    BY <1>0 DEF ObjectsWith
  <2>3. Store(n, o) /\ pc = "removeFinalizer"
    BY <1>4 DEF DropFinalizer, RemoveFinalizer
  <2> HIDE DEF o
  <2>4. Released(n)
    BY <1>0, <1>1, <1>4, <2>1, <2>2, <2>3, Stored DEF Released
  <2> QED
    BY <1>3, <1>4, <2>1, <2>3, <2>4
<1>5. CASE AddFinalizer /\ Current(n, job.obj) /\ StoreFinalizer(n)
  <2> DEFINE o == [api[n] EXCEPT !.finalizer = TRUE]
  <2>1. o \in Object
    BY <1>0, ObjectUpdates
  <2>2. /\ o.exists = api[n].exists /\ o.deleting = api[n].deleting /\ o.finalizer
        /\ o.spec = api[n].spec /\ o.gen = api[n].gen /\ o.status = api[n].status
    BY <1>0 DEF ObjectsWith
  <2>3. Store(n, o) /\ pc = "addFinalizer"
    BY <1>5 DEF StoreFinalizer, AddFinalizer
  <2> HIDE DEF o
  <2>4. Guarded(n)
    BY <1>0, <1>1, <1>5, <2>1, <2>2, <2>3, Stored DEF Guarded, SameSpec
  <2> QED
    BY <1>3, <1>5, <2>1, <2>3, <2>4
<1>6. ASSUME NEW t \in Status, Current(n, job.obj), Store(n, [api[n] EXCEPT !.status = t]),
             t.id = job.obj.status.id,
             \/ /\ pc = "reportFailed"
                /\ t.reason = job.reason /\ t.obsGen = job.obj.status.obsGen
             \/ /\ pc = "reportSynced"
                /\ t.reason = "Synced" /\ t.obsGen = job.obj.gen
      PROVE  Moves
  <2> DEFINE o == [api[n] EXCEPT !.status = t]
  <2>1. o \in Object
    BY <1>0, ObjectUpdates
  <2>2. /\ o.exists = api[n].exists /\ o.deleting = api[n].deleting
        /\ o.finalizer = api[n].finalizer
        /\ o.spec = api[n].spec /\ o.gen = api[n].gen /\ o.status = t
    BY <1>0 DEF ObjectsWith
  <2>3. Store(n, o)
    BY <1>6
  <2> HIDE DEF o
  <2>4. Reported(n)
    BY <1>0, <1>1, <1>6, <2>1, <2>2, <2>3, Stored DEF Reported, SameSpec
  <2> QED
    BY <1>3, <1>6, <2>1, <2>3, <2>4
<1>7. /\ FailedStatus \in Status /\ FailedStatus.id = job.obj.status.id
      /\ FailedStatus.reason = job.reason
      /\ FailedStatus.obsGen = job.obj.status.obsGen
      /\ SyncedStatus \in Status /\ SyncedStatus.id = job.obj.status.id
      /\ SyncedStatus.reason = "Synced" /\ SyncedStatus.obsGen = job.obj.gen
  BY <1>0, StatusTypes, JobTypes DEF FailedStatus, SyncedStatus, Status
<1>8. CASE ReportFailed /\ Current(n, job.obj) /\ StoreStatus(n, FailedStatus)
  BY <1>2, <1>6, <1>7, <1>8 DEF ReportFailed, StoreStatus
<1>9. CASE ReportSynced /\ Current(n, job.obj) /\ StoreStatus(n, SyncedStatus)
  BY <1>2, <1>6, <1>7, <1>9 DEF ReportSynced, StoreStatus
<1> QED
  BY <1>2, <1>4, <1>5, <1>8, <1>9
  DEF Writing, RemoveFinalizer, AddFinalizer, ReportFailed, ReportSynced

LEMMA ServerSteps ==
    ASSUME TypeOK, KubeInv,
           \/ \E q \in late : ServeLate(q)
           \/ \E d \in databases, h \in Healths : Probe(d, h)
           \/ \E id \in Ids : RemoveOutOfBand(id)
    PROVE  Moves
<1>1. UNCHANGED <<api, cache, pending, pc, job>>
  BY DEF ServeLate, Probe, RemoveOutOfBand, kubeVars
<1>2. KubeMoves /\ Ordered'
  BY <1>1, KubeQuiet
<1>3. ASSUME NEW q \in late, ServeLate(q) PROVE Served(q)
  <2>1. q.op \in Parts \cup {"delete"}
    BY TypeParts DEF ServerTypeOK, Request
  <2>2. CASE /\ Apply(q)
             /\ disturbed' = IF q.op = "delete" THEN disturbed
                              ELSE disturbed \cup {<<q.id, q.op>>}
             /\ UNCHANGED used
    <3>1. CASE q.op = "delete"
      BY <1>3, <2>2, <3>1 DEF Served, ServeLate, Apply
    <3>2. CASE q.op # "delete"
      BY <1>3, <2>1, <2>2, <3>2 DEF Served, ServeLate
    <3> QED
      BY <3>1, <3>2
  <2> QED
    BY <1>3, <2>2 DEF Served, ServeLate
<1>4. ASSUME NEW d \in databases, NEW h \in Healths, Probe(d, h) PROVE Probed(d, h)
  BY <1>4 DEF Probe, Probed
<1>5. ASSUME NEW id \in Ids, RemoveOutOfBand(id) PROVE Lost(id)
  BY <1>5 DEF RemoveOutOfBand, Lost
<1> QED
  BY <1>1, <1>2, <1>3, <1>4, <1>5 DEF Moves, ServerMoves

LEMMA NextMoves ==
    ASSUME TypeOK, KubeInv, [Next]_vars
    PROVE  Moves
<1>1. CASE Worker
  BY <1>1, ResolveMoves, CallMoves, WritingMoves DEF Worker, Resolve, Writing
<1>2. CASE Environment
  BY <1>2, ServerSteps, FaultMoves DEF Environment
<1> QED
  BY <1>1, <1>2, UserMoves, QuietSteps, StartMoves DEF Next

(***************************************************************************)
(* The inductive invariant.                                                *)
(***************************************************************************)
\* Once a version under the finalizer is known, the finalizer is there until the
\* worker itself takes it away, and then nobody knows such a version any more.
HeldVersions ==
    \A n \in Names :
       \/ api[n].exists /\ api[n].finalizer
       \/ \A o \in VersionsOf(n) : ~Held(o)

\* Every ID that any version records was handed out.
Known(o) == o.status.id \in used \cup {NoId}

IdsKnown == \A n \in Names : \A o \in VersionsOf(n) : Known(o)

IdUnderFinalizer ==
    \A n \in Names : api[n].exists /\ api[n].status.id # NoId => api[n].finalizer

\* The worker's copy carries the present version.
Present == job.obj.rv = api[job.key].rv

\* It then says what the present version says, but for an ID on its way there.
Answered ==
    /\ job.obj.exists = api[job.key].exists
    /\ job.obj.deleting = api[job.key].deleting
    /\ job.obj.finalizer = api[job.key].finalizer
    /\ job.obj.spec = api[job.key].spec /\ job.obj.gen = api[job.key].gen
    /\ job.obj.status.obsGen = api[job.key].status.obsGen
    /\ \/ job.obj.status.id = api[job.key].status.id
       \/ api[job.key].status.id = NoId /\ pc \in Named

\* What the worker's locals say at each of its steps.
JobOK ==
    pc # "idle" =>
       /\ job.obj.rv <= api[job.key].rv
       /\ Present => Answered
       /\ job.obj.rv <= cache[job.key].rv
       /\ job.obj.exists
       /\ Known(job.obj)
       /\ pc \in DeleteSteps => job.obj.deleting
       /\ pc \in PushSteps => api[job.key].exists /\ api[job.key].finalizer
       /\ pc = "removeFinalizer" => DatabaseOf(job.obj.status.id) = {}

IInv ==
    /\ TypeOK
    /\ KubeInv
    /\ HeldVersions
    /\ IdsKnown
    /\ IdUnderFinalizer
    /\ RecordedDatabaseRemoved
    /\ JobOK

(***************************************************************************)
(* What a step does to the databases.                                      *)
(***************************************************************************)
\* The spec a part of a database was sent with, or a request sends for it.
PartSpec(d, p) ==
    CASE p = "database" -> d.content.spec
      [] p = "config"   -> d.config.spec
      [] p = "check"    -> d.check

LEMMA InsertEffect ==
    ASSUME StoreTypeOK, NEW n \in Names, NEW c \in Content, NEW id \in Ids, Insert(n, c, id)
    PROVE  /\ id \notin used /\ used' = used \cup {id}
           /\ \E new \in Database :
                 /\ new.id = id /\ new.owner = n /\ PartSpec(new, "database") = c.spec
                 /\ databases' = databases \cup {new}
<1> DEFINE new == [id |-> id, owner |-> n, content |-> c,
                   config |-> [spec |-> NoSpec, storage |-> NoId],
                   check |-> NoSpec, health |-> ""]
<1>1. [spec |-> NoSpec, storage |-> NoId] \in Config
  BY DEF Config
<1>2. new \in Database
  BY <1>1 DEF Database, Healths
<1>3. new.id = id /\ new.owner = n /\ PartSpec(new, "database") = c.spec
  BY DEF PartSpec
<1>4. id \notin used /\ databases' = databases \cup {new} /\ used' = used \cup {id}
  BY DEF Insert
<1> HIDE DEF new
<1> QED
  BY <1>2, <1>3, <1>4

\* A request for a part changes that part of one database, and nothing else of it.
LEMMA ApplyEffect ==
    ASSUME StoreTypeOK, NEW q \in Request, Apply(q), q.op \in Parts
    PROVE  \E d \in DatabaseOf(q.id), new \in Database :
              /\ Rewrite(d, new)
              /\ new.id = q.id /\ new.owner = d.owner
              /\ PartSpec(new, q.op) = PartSpec(q, q.op)
              /\ \A p \in Parts \ {q.op} : PartSpec(new, p) = PartSpec(d, p)
<1>1. PICK d \in DatabaseOf(q.id) :
         \/ q.op = "database" /\ Rewrite(d, [d EXCEPT !.content = q.content])
         \/ q.op = "config" /\ Rewrite(d, [d EXCEPT !.config = q.config])
         \/ q.op = "check" /\ Rewrite(d, [d EXCEPT !.check = q.check])
         \/ q.op = "delete" /\ Remove(q.id)
  BY DEF Apply
<1>2. d \in Database /\ d.id = q.id
  BY <1>1 DEF DatabaseOf, StoreTypeOK
<1>3. q.content \in Content /\ q.config \in Config /\ q.check \in Specs
  BY DEF Request
<1>4. CASE q.op = "database"
  <2> DEFINE new == [d EXCEPT !.content = q.content]
  <2>1. new \in Database /\ Rewrite(d, new)
    BY <1>1, <1>2, <1>3, <1>4, DatabaseUpdates
  <2>2. /\ new.id = q.id /\ new.owner = d.owner /\ new.content = q.content
        /\ new.config = d.config /\ new.check = d.check
    BY <1>2 DEF Database
  <2> HIDE DEF new
  <2> QED
    BY <1>4, <2>1, <2>2 DEF PartSpec, Parts
<1>5. CASE q.op = "config"
  <2> DEFINE new == [d EXCEPT !.config = q.config]
  <2>1. new \in Database /\ Rewrite(d, new)
    BY <1>1, <1>2, <1>3, <1>5, DatabaseUpdates
  <2>2. /\ new.id = q.id /\ new.owner = d.owner /\ new.config = q.config
        /\ new.content = d.content /\ new.check = d.check
    BY <1>2 DEF Database
  <2> HIDE DEF new
  <2> QED
    BY <1>5, <2>1, <2>2 DEF PartSpec, Parts
<1>6. CASE q.op = "check"
  <2> DEFINE new == [d EXCEPT !.check = q.check]
  <2>1. new \in Database /\ Rewrite(d, new)
    BY <1>1, <1>2, <1>3, <1>6, DatabaseUpdates
  <2>2. /\ new.id = q.id /\ new.owner = d.owner /\ new.check = q.check
        /\ new.content = d.content /\ new.config = d.config
    BY <1>2 DEF Database
  <2> HIDE DEF new
  <2> QED
    BY <1>6, <2>1, <2>2 DEF PartSpec, Parts
<1> QED
  BY <1>4, <1>5, <1>6 DEF Parts

LEMMA ProbedEffect ==
    ASSUME StoreTypeOK, NEW d \in databases, NEW h \in Healths, Probed(d, h)
    PROVE  \E new \in Database :
              /\ Rewrite(d, new)
              /\ new.id = d.id /\ new.owner = d.owner
              /\ \A p \in Parts : PartSpec(new, p) = PartSpec(d, p)
<1> DEFINE new == [d EXCEPT !.health = h]
<1>1. d \in Database
  BY DEF StoreTypeOK
<1>2. new \in Database /\ Rewrite(d, new)
  BY <1>1, DatabaseUpdates DEF Probed
<1>3. /\ new.id = d.id /\ new.owner = d.owner /\ new.content = d.content
      /\ new.config = d.config /\ new.check = d.check
  BY <1>1 DEF Database
<1> HIDE DEF new
<1> QED
  BY <1>2, <1>3 DEF PartSpec, Parts

\* The worker's requests.
LEMMA PushedEffect ==
    ASSUME TypeOK, Pushed
    PROVE  \E op \in Parts, d \in DatabaseOf(job.obj.status.id), new \in Database :
              /\ Rewrite(d, new)
              /\ new.id = job.obj.status.id /\ new.owner = d.owner
              /\ PartSpec(new, op) = job.obj.spec
              /\ \A p \in Parts \ {op} : PartSpec(new, p) = PartSpec(d, p)
              /\ disturbed' = disturbed \ {<<job.obj.status.id, op>>}
              /\ pc \in {"saveDatabase", "saveConfig", "saveCheck"} /\ op = OpOf(pc)
<1>0. LocalTypeOK /\ StoreTypeOK
  BY TypeParts DEF ServerTypeOK
<1>1. PICK op \in Parts : /\ Push(op)
                          /\ pc \in {"saveDatabase", "saveConfig", "saveCheck"} /\ op = OpOf(pc)
  BY DEF Pushed, Parts, OpOf
<1>2. JobRequest(op) \in Request
  BY <1>0, RequestType
<1>3. /\ JobRequest(op).op = op /\ JobRequest(op).id = job.obj.status.id
      /\ PartSpec(JobRequest(op), op) = job.obj.spec
  BY DEF JobRequest, PartSpec, JobContent, JobConfig, Parts
<1>4. Apply(JobRequest(op)) /\ disturbed' = disturbed \ {<<job.obj.status.id, op>>}
  BY <1>1 DEF Push
<1> QED
  BY <1>0, <1>1, <1>2, <1>3, <1>4, ApplyEffect

\* Who deletes a database: the worker, a late request of its, or a stranger.
Removes(id) ==
    /\ Remove(id)
    /\ \/ pc = "deleteRemote" /\ id = job.obj.status.id
       \/ \E q \in late : q.op = "delete" /\ q.id = id
       \/ OutOfBand /\ id \in Ids

\* The four things that become of the databases.
DataMoves ==
    \/ UNCHANGED <<databases, used>>
    \/ \E n \in Names, c \in Content, id \in Ids : Insert(n, c, id)
    \/ /\ used' = used
       /\ \E d \in databases, new \in Database :
             Rewrite(d, new) /\ new.id = d.id /\ new.owner = d.owner
    \/ used' = used /\ \E id : Removes(id)

LEMMA RequestFields ==
    ASSUME TypeOK, NEW q \in late
    PROVE  /\ q \in Request /\ q.owner \in Names /\ q.content \in Content
           /\ q.id \in Ids \cup {NoId} /\ q.op \in Parts \cup {"delete"}
  BY DEF TypeOK, Request

LEMMA MovesData ==
    ASSUME TypeOK, Moves
    PROVE  DataMoves
<1>0. LocalTypeOK /\ StoreTypeOK
  BY TypeParts DEF ServerTypeOK
<1>1. CASE UNCHANGED <<databases, used>>
  BY <1>1 DEF DataMoves
<1>2. CASE ObjectMoves
  BY <1>1, <1>2 DEF ObjectMoves, UserMoved, Written, serverVars
<1>3. CASE WorkerMoves
  <2>1. CASE Quiet \/ Returned \/ Began \/ Resolved \/ Failed \/ Refreshed
    BY <1>1, <2>1 DEF Quiet, Returned, Began, Resolved, Failed, Refreshed, serverVars
  <2>2. CASE Deleted
    BY <2>2 DEF Deleted, DataMoves, Removes
  <2>3. CASE Inserted
    BY <1>0, <2>3, JobTypes DEF Inserted, DataMoves
  <2>4. CASE Pushed
    <3>1. PICK d \in DatabaseOf(job.obj.status.id), new \in Database :
                  /\ Rewrite(d, new)
                  /\ new.id = job.obj.status.id /\ new.owner = d.owner
      BY <2>4, PushedEffect
    <3>2. d \in databases /\ new.id = d.id /\ used' = used
      BY <2>4, <3>1 DEF DatabaseOf, Pushed
    <3> QED
      BY <3>1, <3>2 DEF DataMoves
  <2> QED
    BY <1>3, <2>1, <2>2, <2>3, <2>4 DEF WorkerMoves
<1>4. CASE ServerMoves
  <2>1. ASSUME NEW q \in late, Served(q) PROVE DataMoves
    <3>1. CASE \E id \in Ids : Insert(q.owner, q.content, id)
      BY <3>1, RequestFields DEF DataMoves
    <3>2. CASE q.op \in Parts /\ Apply(q) /\ UNCHANGED used
      <4>1. PICK d \in DatabaseOf(q.id), new \in Database :
                    Rewrite(d, new) /\ new.id = q.id /\ new.owner = d.owner
        BY <1>0, <3>2, RequestFields, ApplyEffect
      <4>2. d \in databases /\ new.id = d.id
        BY <4>1 DEF DatabaseOf
      <4> QED
        BY <3>2, <4>1, <4>2 DEF DataMoves
    <3>3. CASE q.op = "delete" /\ Remove(q.id) /\ UNCHANGED used
      BY <3>3 DEF DataMoves, Removes
    <3> QED
      BY <1>1, <2>1, <3>1, <3>2, <3>3 DEF Served
  <2>2. ASSUME NEW id \in Ids, Lost(id) PROVE DataMoves
    BY <2>2 DEF Lost, DataMoves, Removes
  <2>3. ASSUME NEW d \in databases, NEW h \in Healths, Probed(d, h) PROVE DataMoves
    BY <1>0, <2>3, ProbedEffect DEF Probed, DataMoves
  <2> QED
    BY <1>4, <2>1, <2>2, <2>3 DEF ServerMoves
<1> QED
  BY <1>2, <1>3, <1>4 DEF Moves

\* IDs are only ever added to the ones handed out, and a database that is not
\* there comes back under no ID that was.
DatabasesMove ==
    /\ used \subseteq used'
    /\ \A id \in used \cup {NoId} : DatabaseOf(id) = {} => DatabaseOf(id)' = {}

LEMMA MovesDatabases ==
    ASSUME TypeOK, Moves
    PROVE  DatabasesMove
<1>0. StoreTypeOK /\ DataMoves
  BY TypeParts, MovesData DEF ServerTypeOK
<1>1. CASE UNCHANGED <<databases, used>>
  BY <1>1 DEF DatabasesMove, DatabaseOf
<1>2. ASSUME NEW n \in Names, NEW c \in Content, NEW id \in Ids, Insert(n, c, id)
      PROVE  DatabasesMove
  <2>1. PICK new \in Database : new.id = id /\ databases' = databases \cup {new}
    BY <1>0, <1>2, InsertEffect
  <2>2. id \notin used \cup {NoId} /\ used' = used \cup {id}
    BY <1>0, <1>2, InsertEffect, DatabaseBackupAssumption
  <2> QED
    BY <2>1, <2>2 DEF DatabasesMove, DatabaseOf
<1>3. ASSUME NEW d \in databases, NEW new, Rewrite(d, new), new.id = d.id, used' = used
      PROVE  DatabasesMove
  BY <1>3 DEF DatabasesMove, DatabaseOf, Rewrite
<1>4. ASSUME NEW id, Remove(id), used' = used
      PROVE  DatabasesMove
  BY <1>4 DEF DatabasesMove, DatabaseOf, Remove
<1> QED
  BY <1>0, <1>1, <1>2, <1>3, <1>4 DEF DataMoves, Removes

(***************************************************************************)
(* Each part of the invariant, from the cases of Moves.                    *)
(***************************************************************************)
LEMMA InvTypes ==
    ASSUME IInv
    PROVE  /\ KubeTypeOK /\ LocalTypeOK /\ StoreTypeOK
           /\ KubeTyped(Status)
           /\ job.key \in Names /\ job.obj \in Object /\ job.obj.rv \in Nat
           /\ \A n \in Names : api[n] \in VersionsOf(n) /\ cache[n] \in VersionsOf(n)
           /\ \A n \in Names : api[n].rv \in Nat /\ cache[n].rv \in Nat
           /\ \A n \in Names : api[n].gen \in Nat /\ api[n].status.obsGen \in Nat
<1>1. KubeTypeOK /\ LocalTypeOK /\ StoreTypeOK /\ KubeTyped(Status)
  BY TypeParts, KubeTypes DEF IInv, ServerTypeOK
<1>2. job.key \in Names /\ job.obj \in Object
  BY <1>1, JobTypes
<1>3. job.obj.rv \in Nat
  BY <1>2 DEF ObjectsWith
<1>4. \A n \in Names : api[n].rv \in Nat /\ cache[n].rv \in Nat
  BY <1>1, VersionTypes
<1>5. \A n \in Names : api[n].gen \in Nat /\ api[n].status.obsGen \in Nat
  BY <1>1 DEF KubeTypeOK, ObjectsWith, Status
<1> QED
  BY <1>1, <1>2, <1>3, <1>4, <1>5 DEF VersionsOf

\* An accepted write was computed from the present version, which the cache shows:
\* no other version is known any more.
LEMMA CurrentIsKnown ==
    ASSUME IInv, pc # "idle", Current(job.key, job.obj)
    PROVE  /\ api[job.key].exists
           /\ Answered
           /\ \A o \in VersionsOf(job.key) : o = api[job.key]
<1>1. job.obj.rv = api[job.key].rv /\ api[job.key].exists
  BY DEF Current
<1>2. Answered /\ job.obj.rv <= cache[job.key].rv
  BY <1>1 DEF IInv, JobOK, Present
<1>3. job.key \in Names /\ KubeTyped(Status)
  BY InvTypes
<1> QED
  BY <1>1, <1>2, <1>3, CaughtUp DEF IInv

\* The object n in a step: left alone, moved by a user or written by the worker.
LEMMA ObjectCases ==
    ASSUME Moves, NEW n \in Names
    PROVE  api'[n] = api[n] \/ UserMoved(n) \/ Written(n)
  BY DEF Moves, ObjectMoves, WorkerMoves, ServerMoves

LEMMA WrittenFacts ==
    ASSUME IInv, NEW n \in Names, Written(n)
    PROVE  /\ n = job.key /\ pc # "idle" /\ api[n].exists
           /\ Answered
           /\ \A o \in VersionsOf(n) : o = api[n]
           /\ Known(job.obj)
           /\ Released(n) => api[n].deleting /\ DatabaseOf(api[n].status.id) = {}
           /\ Reported(n) => api[n].finalizer
<1>1. n = job.key /\ pc # "idle" /\ Current(job.key, job.obj)
  BY DEF Written, Released, Guarded, Reported
<1>2. api[n].exists /\ Answered /\ \A o \in VersionsOf(n) : o = api[n]
  BY <1>1, CurrentIsKnown
<1>3. Known(job.obj)
  BY <1>1 DEF IInv, JobOK
<1>4. ASSUME Released(n) PROVE api[n].deleting /\ DatabaseOf(api[n].status.id) = {}
  <2>1. pc = "removeFinalizer" /\ pc \in DeleteSteps /\ pc \notin Named
    BY <1>4 DEF Released, DeleteSteps, Named, Saved
  <2>2. job.obj.deleting /\ DatabaseOf(job.obj.status.id) = {}
    BY <2>1 DEF IInv, JobOK
  <2> QED
    BY <1>1, <1>2, <2>1, <2>2 DEF Answered
<1>5. ASSUME Reported(n) PROVE api[n].finalizer
  <2>1. pc \in PushSteps
    BY <1>5 DEF Reported, PushSteps, Named, Saved
  <2> QED
    BY <1>1, <2>1 DEF IInv, JobOK
<1> QED
  BY <1>1, <1>2, <1>3, <1>4, <1>5

\* A new object has no ID, and users change no status.
LEMMA UserKeepsId ==
    ASSUME NEW n \in Names, UserMoved(n)
    PROVE  \/ ~api[n].exists /\ api'[n].status.id = NoId
           \/ api[n].exists /\ api'[n].status.id = api[n].status.id
<1>1. NoStatus.id = NoId
  BY DEF NoStatus
<1> QED
  BY <1>1 DEF UserMoved, Created, Edited, Marked, Vanished

LEMMA NextHeld == IInv /\ Moves => HeldVersions'
<1> SUFFICES ASSUME IInv, Moves, NEW n \in Names
             PROVE  \/ api'[n].exists /\ api'[n].finalizer
                    \/ \A o \in VersionsOf(n)' : ~Held(o)
  BY DEF HeldVersions
<1>1. \A o \in VersionsOf(n)' : o \in VersionsOf(n) \/ o = api'[n]
  BY DEF Moves, KubeMoves
<1>2. \/ api[n].exists /\ api[n].finalizer
      \/ \A o \in VersionsOf(n) : ~Held(o)
  BY DEF IInv, HeldVersions
<1>3. CASE api'[n] = api[n]
  BY <1>1, <1>2, <1>3, InvTypes
<1>4. CASE UserMoved(n)
  BY <1>1, <1>2, <1>4 DEF UserMoved, Created, Edited, Marked, Vanished, Held
<1>5. CASE Written(n)
  BY <1>1, <1>5, WrittenFacts DEF Written, Released, Guarded, Reported, SameSpec, Held
<1> QED
  BY <1>3, <1>4, <1>5, ObjectCases

LEMMA NextKnown == IInv /\ Moves => IdsKnown'
<1> SUFFICES ASSUME IInv, Moves, NEW n \in Names, NEW o \in VersionsOf(n)'
             PROVE  o.status.id \in used' \cup {NoId}
  BY DEF IdsKnown, Known
<1>1. used \subseteq used'
  BY MovesDatabases DEF IInv, DatabasesMove
<1>2. \A v \in VersionsOf(n) : v.status.id \in used \cup {NoId}
  BY DEF IInv, IdsKnown, Known
<1>3. api[n] \in VersionsOf(n)
  BY InvTypes
<1>4. CASE o \in VersionsOf(n)
  BY <1>1, <1>2, <1>4
<1>5. CASE o = api'[n] /\ UserMoved(n)
  BY <1>1, <1>2, <1>3, <1>5, UserKeepsId
<1>6. CASE o = api'[n] /\ Written(n)
  BY <1>1, <1>2, <1>3, <1>6, WrittenFacts DEF Written, Released, Guarded, Reported, Known
<1> QED
  BY <1>3, <1>4, <1>5, <1>6, ObjectCases DEF Moves, KubeMoves

LEMMA NextUnder == IInv /\ Moves => IdUnderFinalizer'
<1> SUFFICES ASSUME IInv, Moves, NEW n \in Names
             PROVE  api'[n].exists /\ api'[n].status.id # NoId => api'[n].finalizer
  BY DEF IdUnderFinalizer
<1>1. api[n].exists /\ api[n].status.id # NoId => api[n].finalizer
  BY DEF IInv, IdUnderFinalizer
<1>2. CASE UserMoved(n)
  BY <1>1, <1>2, UserKeepsId DEF UserMoved, Created, Edited, Marked, Vanished
<1>3. CASE Written(n)
  BY <1>1, <1>3, WrittenFacts DEF Written, Released, Guarded, Reported, SameSpec
<1> QED
  BY <1>1, <1>2, <1>3, ObjectCases

LEMMA NextRemoved == IInv /\ Moves => RecordedDatabaseRemoved'
<1> SUFFICES ASSUME IInv, Moves, NEW n \in Names, ~api'[n].exists, api'[n].status.id # NoId
             PROVE  DatabaseOf(api[n].status.id)' = {}
  BY DEF RecordedDatabaseRemoved
<1>1. DatabasesMove
  BY MovesDatabases DEF IInv
<1>2. api[n].status.id \in used \cup {NoId}
  BY InvTypes DEF IInv, IdsKnown, Known
<1>3. ~api[n].exists /\ api[n].status.id # NoId => DatabaseOf(api[n].status.id) = {}
  BY DEF IInv, RecordedDatabaseRemoved
<1>4. api[n].exists /\ api[n].status.id # NoId => api[n].finalizer
  BY DEF IInv, IdUnderFinalizer
<1>5. CASE api'[n] = api[n]
  BY <1>1, <1>2, <1>3, <1>5 DEF DatabasesMove, DatabaseOf
<1>6. CASE UserMoved(n)
  BY <1>4, <1>6 DEF UserMoved, Created, Edited, Marked, Vanished
<1>7. CASE Written(n)
  <2>1. Released(n)
    BY <1>7, WrittenFacts DEF Written, Guarded, Reported, SameSpec
  <2>2. api'[n].status.id = api[n].status.id /\ DatabaseOf(api[n].status.id) = {}
    BY <1>7, <2>1, WrittenFacts DEF Released
  <2> QED
    BY <1>1, <1>2, <2>2 DEF DatabasesMove, DatabaseOf
<1> QED
  BY <1>5, <1>6, <1>7, ObjectCases

\* The worker's copy while the worker waits: the object may move on under it, but
\* then its version is past, and the finalizer stays on.
LEMMA JobStays ==
    ASSUME IInv, TypeOK', Moves, UNCHANGED <<pc, job>>,
           \A n \in Names : api'[n] = api[n] \/ UserMoved(n)
    PROVE  JobOK'
<1> SUFFICES ASSUME pc # "idle"
             PROVE  JobOK'
  BY DEF JobOK
<1> DEFINE k == job.key
<1>0. k \in Names /\ job.obj.rv \in Nat /\ api[k].rv \in Nat /\ cache[k].rv \in Nat
  BY InvTypes
<1>1. /\ job.obj.rv <= api[k].rv
      /\ Present => Answered
      /\ job.obj.rv <= cache[k].rv
      /\ job.obj.exists
      /\ Known(job.obj)
      /\ pc \in DeleteSteps => job.obj.deleting
      /\ pc \in PushSteps => api[k].exists /\ api[k].finalizer
      /\ pc = "removeFinalizer" => DatabaseOf(job.obj.status.id) = {}
  BY DEF IInv, JobOK
<1>2. /\ api'[k] = api[k] \/ api'[k].rv = api[k].rv + 1
      /\ cache'[k].rv \in Nat /\ cache[k].rv <= cache'[k].rv
  <2>1. cache'[k].rv \in Nat
    BY <1>0 DEF TypeOK, ObjectsWith
  <2> QED
    BY <1>0, <2>1 DEF Moves, KubeMoves
<1>3. DatabasesMove
  BY MovesDatabases DEF IInv
<1>4. job.obj.rv <= api'[k].rv
  BY <1>0, <1>1, <1>2
<1>5. Present' => Answered'
  <2>1. CASE api'[k] = api[k]
    BY <1>1, <2>1 DEF Present, Answered
  <2>2. CASE api'[k].rv = api[k].rv + 1
    BY <1>0, <1>1, <2>2 DEF Present
  <2> QED
    BY <1>2, <2>1, <2>2
<1>6. job.obj.rv <= cache'[k].rv
  BY <1>0, <1>1, <1>2
<1>7. pc \in PushSteps => api'[k].exists /\ api'[k].finalizer
  BY <1>0, <1>1 DEF UserMoved, Created, Edited, Marked, Vanished
<1>8. Known(job.obj)'
  BY <1>1, <1>3 DEF Known, DatabasesMove
<1>9. pc = "removeFinalizer" => DatabaseOf(job.obj.status.id)' = {}
  BY <1>1, <1>3 DEF Known, DatabasesMove, DatabaseOf
<1> QED
  BY <1>1, <1>4, <1>5, <1>6, <1>7, <1>8, <1>9 DEF JobOK

\* The copy of a pass that goes on: it may only have got its ID.
LEMMA CopyStays ==
    ASSUME IInv, TypeOK', Moves, api' = api, pc # "idle", SameCopy,
           pc' \in DeleteSteps => pc \in DeleteSteps,
           pc' \in PushSteps => pc \in PushSteps,
           \/ job'.obj.status.id = job.obj.status.id /\ (pc \in Named => pc' \in Named)
           \/ job.obj.status.id = NoId /\ pc \notin Named /\ pc' \in Named,
           job'.obj.status.id \in used' \cup {NoId},
           pc' = "removeFinalizer" => DatabaseOf(job.obj.status.id)' = {}
    PROVE  JobOK'
<1> DEFINE k == job.key
<1>0. k \in Names /\ job.obj.rv \in Nat /\ api[k].rv \in Nat /\ cache[k].rv \in Nat
  BY InvTypes
<1>1. /\ job.obj.rv <= api[k].rv
      /\ Present => Answered
      /\ job.obj.rv <= cache[k].rv
      /\ job.obj.exists
      /\ pc \in DeleteSteps => job.obj.deleting
      /\ pc \in PushSteps => api[k].exists /\ api[k].finalizer
  BY DEF IInv, JobOK
<1>2. cache'[k].rv \in Nat /\ cache[k].rv <= cache'[k].rv
  BY <1>0 DEF Moves, KubeMoves, TypeOK, ObjectsWith
<1>3. job'.key = k /\ job'.obj.rv = job.obj.rv /\ job'.obj.exists
  BY <1>1 DEF SameCopy
<1>4. job'.obj.rv <= api'[k].rv /\ job'.obj.rv <= cache'[k].rv
  BY <1>0, <1>1, <1>2, <1>3
<1>5. Present' => Answered'
  BY <1>1, <1>3 DEF Present, Answered, SameCopy
<1>6. pc' \in DeleteSteps => job'.obj.deleting
  BY <1>1 DEF SameCopy
<1>7. pc' \in PushSteps => api'[k].exists /\ api'[k].finalizer
  BY <1>1
<1>8. Known(job.obj)'
  BY DEF Known
<1>9. pc' = "removeFinalizer" => DatabaseOf(job.obj.status.id)' = {}
  OBVIOUS
<1> QED
  BY <1>3, <1>4, <1>5, <1>6, <1>7, <1>8, <1>9 DEF JobOK

\* The copy a pass starts with.
LEMMA JobBegins ==
    ASSUME IInv, TypeOK', Moves, api' = api, Began
    PROVE  JobOK'
<1> DEFINE k == job'.key
<1>0. k \in Names /\ job'.obj = cache[k] /\ cache[k].exists /\ pc' \in Entries
      /\ UNCHANGED serverVars
  BY DEF Began
<1>1. cache[k] \in VersionsOf(k) /\ api[k].rv \in Nat /\ cache[k].rv \in Nat /\ StoreTypeOK
  BY <1>0, InvTypes
<1>2. IsCopy(k, cache[k]) /\ Known(cache[k])
  BY <1>0, <1>1 DEF IInv, KubeInv, Copies, IdsKnown
<1>3. cache[k].rv <= cache'[k].rv
  BY <1>0 DEF Moves, KubeMoves
<1>4. job'.obj.rv <= api'[k].rv /\ job'.obj.rv <= cache'[k].rv
  BY <1>0, <1>2, <1>3 DEF IsCopy
<1>5. Present' => Answered'
  BY <1>0, <1>2 DEF Present, Answered, IsCopy
<1>6. Known(job.obj)'
  BY <1>0, <1>2 DEF Known, serverVars
<1>7. pc' \in DeleteSteps => job'.obj.deleting
  BY DEF Began
<1>8. pc' \in PushSteps => api'[k].exists /\ api'[k].finalizer
  <2>1. ASSUME pc' \in PushSteps PROVE Held(cache[k])
    <3>1. pc' = "resolveStorage"
      BY <1>0, <2>1 DEF Entries, PushSteps, Early, Named, Saved
    <3> QED
      BY <1>0, <3>1 DEF Began
  <2> QED
    BY <1>0, <1>1, <2>1 DEF IInv, HeldVersions
<1>9. pc' = "removeFinalizer" => DatabaseOf(job.obj.status.id)' = {}
  <2>1. \A d \in databases' : d.id # NoId
    BY <1>0, <1>1, DatabaseBackupAssumption DEF StoreTypeOK, serverVars
  <2>2. pc' = "removeFinalizer" => job'.obj.status.id = NoId
    BY DEF Began
  <2> QED
    BY <2>1, <2>2 DEF DatabaseOf
<1> QED
  BY <1>0, <1>4, <1>5, <1>6, <1>7, <1>8, <1>9 DEF JobOK

LEMMA NextJob ==
    ASSUME IInv, TypeOK', Moves
    PROVE  JobOK'
<1>0. Known(job.obj) \/ pc = "idle"
  BY DEF IInv, JobOK
<1>1. LocalTypeOK /\ job \in Job
  BY InvTypes, JobTypes
<1>2. used \subseteq used'
  BY MovesDatabases DEF IInv, DatabasesMove
<1>3. CASE pc' = "idle"
  BY <1>3 DEF JobOK
<1>4. CASE ObjectMoves
  BY <1>3, <1>4, JobStays DEF ObjectMoves, UserMoved, Written
<1>5. CASE ServerMoves
  BY <1>5, JobStays DEF ServerMoves
<1>6. CASE WorkerMoves
  <2>0. api' = api
    BY <1>6 DEF WorkerMoves
  <2>1. CASE Quiet
    BY <2>0, <2>1, JobStays DEF Quiet
  <2>2. CASE Returned
    BY <1>3, <2>2 DEF Returned
  <2>3. CASE Began
    BY <2>0, <2>3, JobBegins
  <2>4. ASSUME pc # "idle", job'.key = job.key, job'.obj = job.obj,
               pc' \in DeleteSteps => pc \in DeleteSteps,
               pc' \in PushSteps => pc \in PushSteps,
               pc \in Named => pc' \in Named,
               pc' = "removeFinalizer" => DatabaseOf(job.obj.status.id)' = {}
        PROVE  JobOK'
    <3>1. SameCopy /\ job'.obj.status.id = job.obj.status.id
      BY <2>4 DEF SameCopy
    <3>2. job'.obj.status.id \in used' \cup {NoId}
      BY <1>0, <1>2, <2>4 DEF Known
    <3> QED
      BY <2>0, <2>4, <3>1, <3>2, CopyStays
  <2>5. CASE Deleted
    <3>1. DatabaseOf(job.obj.status.id)' = {}
      BY <2>5 DEF Deleted, DatabaseOf, Remove
    <3> QED
      BY <2>4, <2>5, <3>1 DEF Deleted, DeleteSteps, PushSteps, Early, Named, Saved
  <2>6. CASE Resolved
    BY <2>4, <2>6 DEF Resolved, DeleteSteps, PushSteps, Early, Named, Saved
  <2>7. CASE Failed
    BY <2>4, <2>7 DEF Failed, DeleteSteps, PushSteps, Early, Named, Saved
  <2>8. CASE Pushed
    BY <2>4, <2>8 DEF Pushed, AfterConfig, DeleteSteps, PushSteps, Early, Named, Saved
  <2>9. CASE Inserted
    <3>1. PICK id \in Ids : Insert(job.key, JobContent, id) /\ job'.obj.status.id = id
      BY <2>9 DEF Inserted
    <3>2. job'.obj.status.id \in used'
      BY <3>1 DEF Insert
    <3>3. SameCopy /\ job.obj.status.id = NoId /\ pc = "saveDatabase" /\ pc' = "saveConfig"
      BY <2>9 DEF Inserted
    <3> QED
      BY <2>0, <3>2, <3>3, CopyStays DEF DeleteSteps, PushSteps, Early, Named, Saved
  <2>10. CASE Refreshed
    <3>1. /\ SameCopy /\ job'.obj.status.id = job.obj.status.id
          /\ pc = "refresh" /\ pc' = "reportSynced"
      BY <2>10 DEF Refreshed
    <3>2. job'.obj.status.id \in used' \cup {NoId}
      BY <1>0, <1>2, <3>1 DEF Known
    <3> QED
      BY <2>0, <3>1, <3>2, CopyStays DEF DeleteSteps, PushSteps, Early, Named, Saved
  <2> QED
    BY <1>6, <2>1, <2>2, <2>3, <2>5, <2>6, <2>7, <2>8, <2>9, <2>10 DEF WorkerMoves
<1> QED
  BY <1>4, <1>5, <1>6 DEF Moves

LEMMA InitInv == Init => IInv
<1> SUFFICES ASSUME Init PROVE IInv
  OBVIOUS
<1>1. TypeOK
  BY InitType
<1>2. /\ api = [n \in Names |-> NeverCreated(NoStatus)] /\ cache = api
      /\ pending = [n \in Names |-> <<>>] /\ pc = "idle"
  BY DEF Init, KubeInit
<1>3. \A n \in Names : 1..Len(pending[n]) = {}
  <2>1. \A n \in Names : pending[n] = <<>>
    BY <1>2
  <2>2. 1..Len(<<>>) = {}
    OBVIOUS
  <2> QED
    BY <2>1, <2>2, Zenon
<1>4. \A n \in Names : \A o \in VersionsOf(n) : o = NeverCreated(NoStatus) /\ o = api[n]
  BY <1>2, <1>3 DEF VersionsOf
<1>5. /\ ~NeverCreated(NoStatus).exists
      /\ NeverCreated(NoStatus).status.id = NoId
      /\ NeverCreated(NoStatus).rv = 0
  BY DEF NeverCreated, NoStatus
<1>6. KubeInv
  BY <1>2, <1>3, <1>4, <1>5 DEF KubeInv, Copies, IsCopy, Ordered
<1>7. HeldVersions /\ IdsKnown /\ IdUnderFinalizer
  BY <1>2, <1>4, <1>5 DEF HeldVersions, Held, IdsKnown, Known, IdUnderFinalizer
<1>8. RecordedDatabaseRemoved /\ JobOK
  BY <1>2, <1>5 DEF RecordedDatabaseRemoved, JobOK
<1> QED
  BY <1>1, <1>6, <1>7, <1>8 DEF IInv

LEMMA NextInv == IInv /\ [Next]_vars => IInv'
<1> SUFFICES ASSUME IInv, [Next]_vars PROVE IInv'
  OBVIOUS
<1>1. TypeOK /\ KubeInv
  BY DEF IInv
<1>2. TypeOK' /\ Moves
  BY <1>1, NextType, NextMoves
<1>3. KubeTyped(Status) /\ KubeTyped(Status)'
  BY <1>1, <1>2 DEF TypeOK, KubeTyped
<1>4. KubeInv'
  BY <1>1, <1>2, <1>3, MovesKeepCopies DEF Moves
<1> QED
  BY <1>2, <1>4, NextHeld, NextKnown, NextUnder, NextRemoved, NextJob DEF IInv

THEOREM DatabaseSafetyInvariant == Spec => []IInv
  BY InitInv, NextInv, PTL DEF Spec

\* An object that is gone has left no database under the ID its status named
\* (reconcileDelete runs before the finalizer goes).
THEOREM RecordedDatabasesAreRemoved == Spec => []RecordedDatabaseRemoved
<1>1. IInv => RecordedDatabaseRemoved
  BY DEF IInv
<1> QED
  BY <1>1, DatabaseSafetyInvariant, PTL

\* No step replaces or loses an ID that an object has recorded, as long as it exists.
LEMMA NextKeepsIds ==
    ASSUME IInv, Moves, NEW n \in Names,
           api[n].exists, api'[n].exists, api[n].status.id # NoId
    PROVE  api'[n].status.id = api[n].status.id
<1>1. CASE UserMoved(n)
  BY <1>1, UserKeepsId
<1>2. CASE Written(n)
  BY <1>2, WrittenFacts DEF Written, Released, Guarded, Reported, Answered
<1> QED
  BY <1>1, <1>2, ObjectCases

THEOREM RecordedIdsAreStable == Spec => IdStable
<1>1. IInv /\ [Next]_vars =>
         [\A n \in Names :
             api[n].exists /\ api'[n].exists /\ api[n].status.id # NoId
                => api'[n].status.id = api[n].status.id]_vars
  BY NextMoves, NextKeepsIds DEF IInv
<1> QED
  BY <1>1, DatabaseSafetyInvariant, PTL DEF Spec, IdStable

-----------------------------------------------------------------------------
(***************************************************************************)
(* The strengthened invariant.                                             *)
(***************************************************************************)
\* Somebody knows the ID as the one of n's database.
Claims(n, id) ==
    \/ \E o \in VersionsOf(n) : o.status.id = id
    \/ pc # "idle" /\ job.key = n /\ job.obj.status.id = id
    \/ \E d \in databases : d.id = id /\ d.owner = n
    \/ \E q \in late : q.id = id /\ q.owner = n

Unshared ==
    /\ \A id \in Ids, n \in Names : Claims(n, id) => id \in used
    /\ \A id \in Ids, m, n \in Names : Claims(m, id) /\ Claims(n, id) => m = n

OnePerId == \A d, e \in databases : d.id = e.id => d = e

Live(o) == o.exists /\ ~o.deleting

\* Somebody means to delete, or has deleted, the database of this ID.
Doomed(id) ==
    \/ \E n \in Names : \E o \in VersionsOf(n) : o.deleting /\ o.status.id = id
    \/ pc # "idle" /\ job.obj.deleting /\ job.obj.status.id = id
    \/ \E q \in late : q.op = "delete" /\ q.id = id

DoomedDead ==
    \A id \in Ids : Doomed(id) =>
       /\ \A n \in Names : Live(api[n]) => api[n].status.id # id
       /\ DatabaseOf(id) # {} =>
             \E n \in Names : api[n].exists /\ api[n].deleting /\ api[n].status.id = id

\* The ID of the worker's copy is new, and the present object has yet to get it.
Unwritten ==
    /\ pc # "idle" /\ Present
    /\ job.obj.status.id # api[job.key].status.id

Fresh ==
    Unwritten =>
       /\ \A n \in Names : \A o \in VersionsOf(n) : o.status.id # job.obj.status.id
       /\ \A q \in late : q.op = "delete" => q.id # job.obj.status.id

PushLive ==
    /\ pc \in PushSteps => ~job.obj.deleting
    /\ pc = "reportFailed" => job.reason # "Synced"

Observed ==
    \A n \in Names : api[n].exists =>
       /\ api[n].status.obsGen <= api[n].gen
       /\ api[n].deleting => api[n].status.obsGen # api[n].gen

\* Ready for the present generation.
Now(o) == o.exists /\ Ready(o) /\ o.status.obsGen = o.gen

NowSeen ==
    \A n \in Names : Now(api[n]) =>
       /\ \A o \in VersionsOf(n) : o.spec = api[n].spec
       /\ pc # "idle" /\ job.key = n => job.obj.spec = api[n].spec

\* These parts of the database id are those of spec, but for what a late request or
\* a stranger has changed.
Holds(id, spec, parts) ==
    /\ "database" \in parts => DatabaseOf(id) # {} \/ <<id, "database">> \in disturbed
    /\ \A d \in DatabaseOf(id), p \in parts :
          <<id, p>> \notin disturbed => PartSpec(d, p) = spec

Wanted(spec) == {"database", "config"} \cup (IF spec \in Checked THEN {"check"} ELSE {})

\* What this pass has sent so far.
Sent ==
    CASE pc = "saveConfig" -> {"database"}
      [] pc = "saveCheck" -> {"database", "config"}
      [] pc \in {"refresh", "reportSynced"} -> Wanted(job.obj.spec)
      [] OTHER -> {}

SentHolds ==
    pc # "idle" /\ Present => Holds(job.obj.status.id, job.obj.spec, Sent)

NowHolds ==
    \A n \in Names :
       Now(api[n]) => Holds(api[n].status.id, api[n].spec, Wanted(api[n].spec))

SInv ==
    /\ IInv
    /\ Unshared
    /\ OnePerId
    /\ DoomedDead
    /\ Fresh
    /\ PushLive
    /\ Observed
    /\ NowSeen
    /\ SentHolds
    /\ NowHolds

(***************************************************************************)
(* How a step moves the worker's copy and the late requests.               *)
(***************************************************************************)
\* The copy is as it was, and an object that moved was moved by a user.
Stays ==
    /\ UNCHANGED <<pc, job>>
    /\ \A n \in Names : api'[n] = api[n] \/ UserMoved(n)
    /\ late' \subseteq late

\* The pass goes on with the same ID.
Passes ==
    /\ api' = api
    /\ pc # "idle"
    /\ SameCopy /\ job'.obj.status.id = job.obj.status.id
    /\ pc' \in PushSteps => pc \in PushSteps
    /\ pc' = "reportFailed" => job'.reason # "Synced"
    /\ \A q \in late' : q \in late \/ \E op \in Parts : q = JobRequest(op)

Begins == api' = api /\ Began

Gets == api' = api /\ Inserted

LEMMA JobCases ==
    ASSUME Moves, pc' # "idle"
    PROVE  Stays \/ Passes \/ Begins \/ Gets
<1>1. CASE ObjectMoves
  BY <1>1 DEF ObjectMoves, UserMoved, Written, Stays, serverVars
<1>2. CASE ServerMoves
  BY <1>2 DEF ServerMoves, Served, Lost, Probed, Stays
<1>3. CASE WorkerMoves
  <2>0. api' = api
    BY <1>3 DEF WorkerMoves
  <2>1. CASE Quiet
    BY <2>0, <2>1 DEF Quiet, Stays, serverVars
  <2>2. CASE Returned
    BY <2>2 DEF Returned
  <2>3. CASE Began
    BY <2>0, <2>3 DEF Begins
  <2>4. CASE Inserted
    BY <2>0, <2>4 DEF Gets
  <2>5. CASE Deleted
    BY <2>0, <2>5 DEF Deleted, Passes, SameCopy, PushSteps, Early, Named, Saved
  <2>6. CASE Resolved
    BY <2>0, <2>6 DEF Resolved, Passes, SameCopy, PushSteps, Early, Named, Saved, serverVars
  <2>7. CASE Failed
    BY <2>0, <2>7 DEF Failed, Passes, SameCopy, PushSteps, Early, Named, Saved
  <2>8. CASE Pushed
    BY <2>0, <2>8
    DEF Pushed, AfterConfig, Passes, SameCopy, PushSteps, Early, Named, Saved
  <2>9. CASE Refreshed
    BY <2>0, <2>9 DEF Refreshed, Passes, SameCopy, PushSteps, Early, Named, Saved, serverVars
  <2> QED
    BY <1>3, <2>1, <2>2, <2>3, <2>4, <2>5, <2>6, <2>7, <2>8, <2>9 DEF WorkerMoves
<1> QED
  BY <1>1, <1>2, <1>3 DEF Moves

\* A late request is one of the worker's.
LEMMA LateCases ==
    ASSUME Moves, NEW q \in late'
    PROVE  \/ q \in late
           \/ pc # "idle" /\ \E op \in Parts : q = JobRequest(op)
           \/ pc = "deleteRemote" /\ q = JobRequest("delete")
<1>1. CASE ObjectMoves
  BY <1>1 DEF ObjectMoves, UserMoved, Written, serverVars
<1>2. CASE ServerMoves
  BY <1>2 DEF ServerMoves, Served, Lost, Probed
<1>3. CASE WorkerMoves
  BY <1>3
  DEF WorkerMoves, Quiet, Returned, Began, Deleted, Resolved, Failed, Inserted, Pushed,
      Refreshed, serverVars, PushSteps, Early, Named, Saved
<1> QED
  BY <1>1, <1>2, <1>3 DEF Moves

\* Where a database comes from: it was there under its ID, or is created.
LEMMA DatabaseOrigins ==
    ASSUME StoreTypeOK, DataMoves, NEW d \in databases'
    PROVE  \/ \E e \in databases : e.id = d.id /\ e.owner = d.owner
           \/ \E c \in Content : d.owner \in Names /\ d.id \in Ids /\ Insert(d.owner, c, d.id)
<1>1. ASSUME NEW n \in Names, NEW c \in Content, NEW id \in Ids, Insert(n, c, id)
      PROVE  \/ d \in databases
             \/ n = d.owner /\ id = d.id
  BY <1>1, InsertEffect
<1>2. CASE \E n \in Names, c \in Content, id \in Ids : Insert(n, c, id)
  BY <1>1, <1>2
<1>3. CASE \E e \in databases, new \in Database :
              Rewrite(e, new) /\ new.id = e.id /\ new.owner = e.owner
  BY <1>3 DEF Rewrite
<1>4. CASE \E id : Remove(id)
  BY <1>4 DEF Remove
<1> QED
  BY <1>2, <1>3, <1>4 DEF DataMoves, Removes

LEMMA InsertOwner ==
    ASSUME StoreTypeOK, NEW m \in Names, NEW n \in Names, NEW id \in Ids,
           NEW b \in Content, NEW c \in Content, Insert(m, b, id), Insert(n, c, id)
    PROVE  m = n
<1>1. PICK x \in Database : x.id = id /\ x.owner = m /\ databases' = databases \cup {x}
  BY InsertEffect
<1>2. PICK y \in Database : y.id = id /\ y.owner = n /\ databases' = databases \cup {y}
  BY InsertEffect
<1>3. id \notin used /\ \A d \in databases : d.id \in used
  BY DEF Insert, StoreTypeOK
<1> QED
  BY <1>1, <1>2, <1>3

(***************************************************************************)
(* An ID belongs to one object.                                            *)
(***************************************************************************)
\* A claim was there before, or comes with the database.
LEMMA ClaimsMove ==
    ASSUME SInv, Moves, NEW n \in Names, NEW id \in Ids, Claims(n, id)'
    PROVE  Claims(n, id) \/ \E c \in Content : Insert(n, c, id)
<1>0. StoreTypeOK /\ LocalTypeOK /\ IInv /\ TypeOK
  BY InvTypes DEF SInv, IInv
<1>1. ASSUME NEW o \in VersionsOf(n)', o.status.id = id PROVE Claims(n, id)
  <2>1. o \in VersionsOf(n) \/ o = api'[n]
    BY DEF Moves, KubeMoves
  <2>2. CASE o \in VersionsOf(n)
    BY <1>1, <2>2 DEF Claims
  <2>3. api[n] \in VersionsOf(n)
    BY <1>0, InvTypes
  <2>4. CASE o = api'[n] /\ UserMoved(n)
    BY <1>1, <2>3, <2>4, UserKeepsId, DatabaseBackupAssumption DEF Claims
  <2>5. CASE o = api'[n] /\ Written(n)
    <3>1. n = job.key /\ pc # "idle"
      BY <1>0, <2>5, WrittenFacts
    <3>2. api'[n].status.id \in {api[n].status.id, job.obj.status.id}
      BY <2>5 DEF Written, Released, Guarded, Reported
    <3> QED
      BY <1>1, <2>3, <2>5, <3>1, <3>2 DEF Claims
  <2> QED
    BY <2>1, <2>2, <2>3, <2>4, <2>5, ObjectCases
<1>2. CASE pc' # "idle" /\ job'.key = n /\ job'.obj.status.id = id
  <2>1. CASE Stays \/ Passes
    BY <1>2, <2>1 DEF Stays, Passes, SameCopy, Claims
  <2>2. CASE Begins
    <3>1. job'.obj \in VersionsOf(n)
      BY <1>0, <1>2, <2>2, InvTypes DEF Begins, Began
    <3> QED
      BY <1>2, <3>1 DEF Claims
  <2>3. CASE Gets
    <3>1. job.key = n /\ Insert(n, JobContent, id)
      BY <1>2, <2>3 DEF Gets, Inserted, SameCopy
    <3> QED
      BY <1>0, <3>1, JobTypes
  <2> QED
    BY <1>2, <2>1, <2>2, <2>3, JobCases
<1>3. ASSUME NEW d \in databases', d.id = id, d.owner = n
      PROVE  Claims(n, id) \/ \E c \in Content : Insert(n, c, id)
  BY <1>0, <1>3, MovesData, DatabaseOrigins DEF Claims
<1>4. ASSUME NEW q \in late', q.id = id, q.owner = n PROVE Claims(n, id)
  <2>1. CASE q \in late
    BY <1>4, <2>1 DEF Claims
  <2>2. ASSUME NEW op, pc # "idle", q = JobRequest(op) PROVE Claims(n, id)
    BY <1>4, <2>2 DEF Claims, JobRequest
  <2> QED
    BY <2>1, <2>2, LateCases
<1> QED
  BY <1>1, <1>2, <1>3, <1>4 DEF Claims

LEMMA NextUnshared == SInv /\ Moves => Unshared'
<1> SUFFICES ASSUME SInv, Moves PROVE Unshared'
  OBVIOUS
<1>0. StoreTypeOK /\ used \subseteq used' /\ Unshared
  BY InvTypes, MovesDatabases DEF SInv, IInv, DatabasesMove
<1>1. ASSUME NEW id \in Ids, NEW n \in Names, Claims(n, id)' PROVE id \in used'
  <2>1. Claims(n, id) \/ \E c \in Content : Insert(n, c, id)
    BY <1>1, ClaimsMove
  <2>2. \A c \in Content : Insert(n, c, id) => id \in used'
    BY DEF Insert
  <2> QED
    BY <1>0, <2>1, <2>2 DEF Unshared
<1>2. ASSUME NEW id \in Ids, NEW m \in Names, NEW n \in Names, Claims(m, id)', Claims(n, id)'
      PROVE  m = n
  <2>1. CASE Claims(m, id) /\ Claims(n, id)
    BY <1>0, <2>1 DEF Unshared
  <2>2. CASE id \notin used
    <3>1. /\ \E b \in Content : Insert(m, b, id)
          /\ \E c \in Content : Insert(n, c, id)
      BY <1>0, <1>2, <2>2, ClaimsMove DEF Unshared
    <3> QED
      BY <1>0, <3>1, InsertOwner
  <2> QED
    BY <1>2, <2>1, <2>2, ClaimsMove DEF Insert
<1> QED
  BY <1>1, <1>2 DEF Unshared

LEMMA NextOnePerId == SInv /\ Moves => OnePerId'
<1> SUFFICES ASSUME SInv, Moves PROVE OnePerId'
  OBVIOUS
<1>0. StoreTypeOK /\ DataMoves /\ OnePerId
  BY InvTypes, MovesData DEF SInv, IInv
<1>1. ASSUME NEW n \in Names, NEW c \in Content, NEW id \in Ids, Insert(n, c, id)
      PROVE  OnePerId'
  <2>1. PICK new \in Database : new.id = id /\ databases' = databases \cup {new}
    BY <1>0, <1>1, InsertEffect
  <2>2. \A d \in databases : d.id # new.id
    BY <1>0, <1>1, <2>1 DEF Insert, StoreTypeOK
  <2> QED
    BY <1>0, <2>1, <2>2 DEF OnePerId
<1>2. ASSUME NEW d \in databases, NEW new, Rewrite(d, new), new.id = d.id
      PROVE  OnePerId'
  BY <1>0, <1>2 DEF OnePerId, Rewrite
<1>3. ASSUME NEW id, Remove(id) PROVE OnePerId'
  BY <1>0, <1>3 DEF OnePerId, Remove
<1>4. CASE databases' = databases
  BY <1>0, <1>4 DEF OnePerId
<1> QED
  BY <1>0, <1>1, <1>2, <1>3, <1>4 DEF DataMoves, Removes

(***************************************************************************)
(* An ID on its way out.                                                   *)
(***************************************************************************)
\* What the worker knows when a report of it is accepted.
LEMMA ReportFacts ==
    ASSUME SInv, NEW n \in Names, Written(n), Reported(n)
    PROVE  /\ pc \in PushSteps /\ pc \in Named
           /\ ~job.obj.deleting /\ ~api[n].deleting
           /\ api[n].exists /\ n = job.key /\ Present
           /\ job.obj.gen = api[n].gen /\ job.obj.spec = api[n].spec
           /\ job.obj.status.obsGen = api[n].status.obsGen
<1>1. pc \in PushSteps /\ pc \in Named /\ pc # "idle"
  BY DEF Reported, PushSteps, Named, Saved
<1>2. n = job.key /\ api[n].exists /\ Answered
  BY WrittenFacts DEF SInv
<1>3. ~job.obj.deleting
  BY <1>1 DEF SInv, PushLive
<1>4. Present
  BY DEF Written, Current, Present
<1> QED
  BY <1>1, <1>2, <1>3, <1>4 DEF Answered

LEMMA DoomedIsClaimed ==
    ASSUME SInv, NEW id \in Ids, Doomed(id)
    PROVE  id \in used
<1>0. TypeOK /\ job.key \in Names
  BY InvTypes DEF SInv, IInv
<1>1. \E n \in Names : Claims(n, id)
  BY <1>0, RequestFields DEF Doomed, Claims
<1> QED
  BY <1>1 DEF SInv, Unshared

\* An ID becomes doomed when a user deletes the object that records it.
LEMMA DoomedMoves ==
    ASSUME SInv, Moves, NEW id \in Ids, Doomed(id)'
    PROVE  Doomed(id) \/ \E n \in Names : UserMoved(n) /\ Marked(n) /\ api[n].status.id = id
<1> SUFFICES ASSUME ~(\E n \in Names : UserMoved(n) /\ Marked(n) /\ api[n].status.id = id)
             PROVE  Doomed(id)
  OBVIOUS
<1>0. IInv /\ LocalTypeOK
  BY InvTypes DEF SInv
<1>1. ASSUME NEW n \in Names, NEW o \in VersionsOf(n)', o.deleting, o.status.id = id
      PROVE  Doomed(id)
  <2>1. o \in VersionsOf(n) \/ o = api'[n]
    BY DEF Moves, KubeMoves
  <2>2. CASE o \in VersionsOf(n)
    BY <1>1, <2>2 DEF Doomed
  <2>3. api[n] \in VersionsOf(n)
    BY <1>0, InvTypes
  <2>4. CASE o = api'[n] /\ UserMoved(n)
    BY <1>1, <2>3, <2>4 DEF UserMoved, Created, Edited, Marked, Vanished, Doomed
  <2>5. CASE o = api'[n] /\ Written(n) /\ (Released(n) \/ Guarded(n))
    BY <1>1, <2>3, <2>5 DEF Released, Guarded, SameSpec, Doomed
  <2>6. CASE o = api'[n] /\ Written(n) /\ Reported(n)
    BY <1>1, <2>6, ReportFacts DEF Reported, SameSpec
  <2> QED
    BY <2>1, <2>2, <2>3, <2>4, <2>5, <2>6, ObjectCases DEF Written
<1>2. CASE pc' # "idle" /\ job'.obj.deleting /\ job'.obj.status.id = id
  <2>1. CASE Stays \/ Passes
    BY <1>2, <2>1 DEF Stays, Passes, SameCopy, Doomed
  <2>2. CASE Begins
    <3>1. job'.key \in Names /\ job'.obj \in VersionsOf(job'.key)
      BY <1>0, <1>2, <2>2, InvTypes DEF Begins, Began
    <3> QED
      BY <1>2, <3>1 DEF Doomed
  <2>3. CASE Gets
    BY <1>2, <2>3 DEF Gets, Inserted, SameCopy, SInv, PushLive, PushSteps, Early
  <2> QED
    BY <1>2, <2>1, <2>2, <2>3, JobCases
<1>3. ASSUME NEW q \in late', q.op = "delete", q.id = id PROVE Doomed(id)
  <2>1. CASE q \in late
    BY <1>3, <2>1 DEF Doomed
  <2>2. CASE pc = "deleteRemote" /\ q = JobRequest("delete")
    <3>1. job.obj.deleting
      BY <1>0, <2>2 DEF IInv, JobOK, DeleteSteps
    <3> QED
      BY <1>3, <2>2, <3>1 DEF Doomed, JobRequest
  <2>3. ASSUME NEW op \in Parts, q = JobRequest(op) PROVE FALSE
    BY <1>3, <2>3 DEF JobRequest, Parts
  <2> QED
    BY <2>1, <2>2, <2>3, LateCases
<1> QED
  BY <1>1, <1>2, <1>3 DEF Doomed

\* No live object has an ID that was doomed before the step.
LEMMA DoomedStaysDead ==
    ASSUME SInv, Moves, NEW id \in Ids, Doomed(id), NEW n \in Names, Live(api'[n])
    PROVE  api'[n].status.id # id
<1> SUFFICES ASSUME api'[n].status.id = id PROVE FALSE
  OBVIOUS
<1>0. Live(api[n]) => api[n].status.id # id
  BY DEF SInv, DoomedDead
<1>1. CASE api'[n] = api[n]
  BY <1>0, <1>1
<1>2. CASE UserMoved(n)
  <2>1. NoStatus.id # id
    BY DatabaseBackupAssumption DEF NoStatus
  <2> QED
    BY <1>0, <1>2, <2>1 DEF UserMoved, Created, Edited, Marked, Vanished, Live
<1>3. CASE Written(n) /\ (Released(n) \/ Guarded(n))
  BY <1>0, <1>3 DEF Released, Guarded, SameSpec, Live
<1>4. CASE Written(n) /\ Reported(n)
  <2>1. /\ Live(api[n]) /\ ~job.obj.deleting /\ Present /\ n = job.key
        /\ job.obj.status.id = id /\ pc # "idle"
    BY <1>4, ReportFacts DEF Live, Reported
  <2>2. Unwritten
    BY <1>0, <2>1 DEF Unwritten
  <2>3. ~Doomed(id)
    BY <2>1, <2>2 DEF SInv, Fresh, Doomed
  <2> QED
    BY <2>3
<1> QED
  BY <1>1, <1>2, <1>3, <1>4, ObjectCases DEF Written

\* While its database is there, so is the object that is being deleted.
LEMMA DoomedStaysHeld ==
    ASSUME SInv, Moves, NEW n \in Names, NEW id \in Ids,
           api[n].exists, api[n].deleting, api[n].status.id = id,
           DatabaseOf(id) # {}
    PROVE  api'[n].exists /\ api'[n].deleting /\ api'[n].status.id = id
<1>1. CASE api'[n] = api[n]
  BY <1>1
<1>2. CASE UserMoved(n)
  BY <1>2 DEF UserMoved, Created, Edited, Marked, Vanished
<1>3. CASE Written(n) /\ Released(n)
  BY <1>3, WrittenFacts DEF SInv
<1>4. CASE Written(n) /\ Guarded(n)
  BY <1>4 DEF Guarded, SameSpec
<1>5. CASE Written(n) /\ Reported(n)
  BY <1>5, ReportFacts
<1> QED
  BY <1>1, <1>2, <1>3, <1>4, <1>5, ObjectCases DEF Written

LEMMA NextDoomed == SInv /\ Moves => DoomedDead'
<1> SUFFICES ASSUME SInv, Moves, NEW id \in Ids, Doomed(id)'
             PROVE  /\ \A n \in Names : Live(api'[n]) => api'[n].status.id # id
                    /\ DatabaseOf(id)' # {} =>
                          \E n \in Names :
                             api'[n].exists /\ api'[n].deleting /\ api'[n].status.id = id
  BY DEF DoomedDead, Live
<1>1. CASE Doomed(id)
  <2>1. \A n \in Names : Live(api'[n]) => api'[n].status.id # id
    BY <1>1, DoomedStaysDead
  <2>2. ASSUME DatabaseOf(id)' # {}
        PROVE  \E n \in Names : api'[n].exists /\ api'[n].deleting /\ api'[n].status.id = id
    <3>1. DatabaseOf(id) # {}
      BY <1>1, <2>2, DoomedIsClaimed, MovesDatabases DEF SInv, IInv, DatabasesMove
    <3>2. PICK n \in Names : api[n].exists /\ api[n].deleting /\ api[n].status.id = id
      BY <1>1, <3>1 DEF SInv, DoomedDead
    <3> QED
      BY <3>1, <3>2, DoomedStaysHeld
  <2> QED
    BY <2>1, <2>2
<1>2. ASSUME NEW m \in Names, UserMoved(m), Marked(m), api[m].status.id = id
      PROVE  /\ \A n \in Names : Live(api'[n]) => api'[n].status.id # id
             /\ api'[m].exists /\ api'[m].deleting /\ api'[m].status.id = id
  <2>1. api'[m].exists /\ api'[m].deleting /\ api'[m].status.id = id
    BY <1>2 DEF Marked
  <2>2. ASSUME NEW n \in Names, Live(api'[n]), api'[n].status.id = id PROVE FALSE
    <3>1. n # m
      BY <2>1, <2>2 DEF Live
    <3>2. api'[n] = api[n]
      BY <1>2, <3>1 DEF Marked, Moves, ObjectMoves, WorkerMoves, ServerMoves
    <3>3. Claims(n, id) /\ Claims(m, id)
      BY <1>2, <2>2, <3>2, InvTypes DEF Claims, SInv
    <3> QED
      BY <3>1, <3>3 DEF SInv, Unshared
  <2> QED
    BY <2>1, <2>2
<1> QED
  BY <1>1, <1>2, DoomedMoves

(***************************************************************************)
(* The worker's copy, and what a Ready object is known to say.             *)
(***************************************************************************)
\* A copy of the present version was one before the step, unless the pass begins.
LEMMA PresentBefore ==
    ASSUME SInv, Moves, pc' # "idle", Present', Stays \/ Passes \/ Gets
    PROVE  /\ pc # "idle" /\ Present /\ job'.key = job.key /\ job.key \in Names
           /\ api'[job.key] = api[job.key]
<1>0. job.key \in Names /\ job.obj.rv \in Nat /\ api[job.key].rv \in Nat
  BY InvTypes DEF SInv
<1>1. CASE Stays
  <2>1. job.obj.rv <= api[job.key].rv
    BY <1>1 DEF Stays, SInv, IInv, JobOK
  <2>2. api'[job.key].rv = job.obj.rv
    BY <1>1 DEF Stays, Present
  <2>3. api'[job.key] = api[job.key]
    BY <1>0, <2>1, <2>2 DEF Moves, KubeMoves
  <2> QED
    BY <1>0, <1>1, <2>2, <2>3 DEF Stays, Present
<1>2. CASE Passes \/ Gets
  BY <1>0, <1>2 DEF Passes, Gets, Inserted, SameCopy, Present
<1> QED
  BY <1>1, <1>2

LEMMA NextFresh == SInv /\ Moves => Fresh'
<1> SUFFICES ASSUME SInv, Moves, Unwritten' PROVE Fresh'
  BY DEF Fresh
<1>0. IInv /\ TypeOK /\ LocalTypeOK
  BY InvTypes DEF SInv, IInv
<1>1. pc' # "idle" /\ Present' /\ job'.obj.status.id # api'[job'.key].status.id
  BY DEF Unwritten
<1>2. CASE Begins
  <2>1. job'.obj \in VersionsOf(job'.key) /\ job'.key \in Names
    BY <1>0, <1>2, InvTypes DEF Begins, Began
  <2>2. job'.obj = api[job'.key]
    BY <1>0, <1>1, <1>2, <2>1 DEF Begins, Present, IInv, KubeInv, Copies, IsCopy
  <2> QED
    BY <1>1, <1>2, <2>2 DEF Begins
<1>3. CASE Stays \/ Passes
  <2>1. /\ pc # "idle" /\ Present /\ job'.key = job.key /\ job.key \in Names
        /\ api'[job.key] = api[job.key]
    BY <1>1, <1>3, PresentBefore
  <2>2. job'.obj.status.id = job.obj.status.id
    BY <1>3 DEF Stays, Passes
  <2>3. Unwritten
    BY <1>1, <2>1, <2>2 DEF Unwritten
  <2>4. Answered
    BY <1>0, <2>1 DEF IInv, JobOK
  <2>5. job.obj.status.id # NoId
    BY <1>1, <2>1, <2>2, <2>4 DEF Answered
  <2>6. ASSUME NEW n \in Names, NEW o \in VersionsOf(n)'
        PROVE  o.status.id # job.obj.status.id
    <3>1. CASE o \in VersionsOf(n)
      BY <2>3, <3>1 DEF SInv, Fresh
    <3>2. CASE o = api'[n]
      <4>1. api[n].status.id # job.obj.status.id
        BY <1>0, <2>3, InvTypes DEF SInv, Fresh
      <4> QED
        BY <1>3, <2>5, <3>2, <4>1, UserKeepsId DEF Stays, Passes
    <3> QED
      BY <3>1, <3>2 DEF Moves, KubeMoves
  <2>7. ASSUME NEW q \in late', q.op = "delete" PROVE q.id # job.obj.status.id
    <3>1. q \in late
      BY <1>3, <2>7 DEF Stays, Passes, JobRequest, Parts
    <3> QED
      BY <2>3, <2>7, <3>1 DEF SInv, Fresh
  <2> QED
    BY <2>2, <2>6, <2>7 DEF Fresh
<1>4. CASE Gets
  <2>1. PICK id \in Ids : Insert(job.key, JobContent, id) /\ job'.obj.status.id = id
    BY <1>4 DEF Gets, Inserted
  <2>2. id \notin used \cup {NoId} /\ late' = late /\ api' = api
    BY <1>4, <2>1, DatabaseBackupAssumption DEF Insert, Gets, Inserted
  <2>3. \A n \in Names : \A o \in VersionsOf(n)' : o \in VersionsOf(n)
    BY <1>0, <2>2, InvTypes DEF Moves, KubeMoves
  <2>4. \A n \in Names : \A o \in VersionsOf(n)' : o.status.id # id
    BY <1>0, <2>2, <2>3 DEF IInv, IdsKnown, Known
  <2>5. ASSUME NEW q \in late PROVE q.id # id
    <3>1. q.owner \in Names /\ Claims(q.owner, q.id)
      BY <1>0, RequestFields DEF Claims
    <3> QED
      BY <2>2, <3>1 DEF SInv, Unshared
  <2> QED
    BY <2>1, <2>2, <2>4, <2>5 DEF Fresh
<1> QED
  BY <1>1, <1>2, <1>3, <1>4, JobCases

LEMMA NextPushLive == SInv /\ Moves => PushLive'
<1> SUFFICES ASSUME SInv, Moves, pc' # "idle" PROVE PushLive'
  BY DEF PushLive, PushSteps, Early, Named, Saved
<1>1. PushLive
  BY DEF SInv
<1>2. CASE Stays
  BY <1>1, <1>2 DEF Stays, PushLive
<1>3. CASE Passes
  BY <1>1, <1>3 DEF Passes, SameCopy, PushLive
<1>4. CASE Begins
  BY <1>4 DEF Begins, Began, Entries, Held, PushLive, PushSteps, Early, Named, Saved
<1>5. CASE Gets
  BY <1>1, <1>5 DEF Gets, Inserted, SameCopy, PushLive, PushSteps, Early
<1> QED
  BY <1>2, <1>3, <1>4, <1>5, JobCases

LEMMA NextObserved == SInv /\ Moves => Observed'
<1> SUFFICES ASSUME SInv, Moves, NEW n \in Names, api'[n].exists
             PROVE  /\ api'[n].status.obsGen <= api'[n].gen
                    /\ api'[n].deleting => api'[n].status.obsGen # api'[n].gen
  BY DEF Observed
<1>0. api[n].gen \in Nat /\ api[n].status.obsGen \in Nat
  BY InvTypes DEF SInv
<1>1. api[n].exists =>
         /\ api[n].status.obsGen <= api[n].gen
         /\ api[n].deleting => api[n].status.obsGen # api[n].gen
  BY DEF SInv, Observed
<1>2. CASE UserMoved(n)
  <2>1. NoStatus.obsGen = 0
    BY DEF NoStatus
  <2> QED
    BY <1>0, <1>1, <1>2, <2>1 DEF UserMoved, Created, Edited, Marked, Vanished
<1>3. CASE Written(n) /\ (Released(n) \/ Guarded(n))
  BY <1>1, <1>3 DEF Released, Guarded, SameSpec
<1>4. CASE Written(n) /\ Reported(n)
  <2>1. /\ ~api[n].deleting /\ api[n].exists /\ job.obj.gen = api[n].gen
        /\ job.obj.status.obsGen = api[n].status.obsGen
    BY <1>4, ReportFacts
  <2> QED
    BY <1>0, <1>1, <1>4, <2>1 DEF Reported, SameSpec
<1> QED
  BY <1>1, <1>2, <1>3, <1>4, ObjectCases DEF Written

\* An object that a user moves is not Ready for its generation.
LEMMA UserUnreadies ==
    ASSUME SInv, NEW n \in Names, UserMoved(n)
    PROVE  ~Now(api'[n])
<1>0. api[n].gen \in Nat /\ api[n].status.obsGen \in Nat
  BY InvTypes DEF SInv
<1>1. api[n].exists => api[n].status.obsGen <= api[n].gen
  BY DEF SInv, Observed
<1>2. NoStatus.obsGen = 0
  BY DEF NoStatus
<1> QED
  BY <1>0, <1>1, <1>2 DEF UserMoved, Created, Edited, Marked, Vanished, Now

LEMMA NextNowSeen == SInv /\ Moves => NowSeen'
<1> SUFFICES ASSUME SInv, Moves, NEW n \in Names, Now(api'[n])
             PROVE  /\ \A o \in VersionsOf(n)' : o.spec = api'[n].spec
                    /\ pc' # "idle" /\ job'.key = n => job'.obj.spec = api'[n].spec
  BY DEF NowSeen, Now, Ready
<1>0. IInv /\ \A o \in VersionsOf(n)' : o \in VersionsOf(n) \/ o = api'[n]
  BY DEF Moves, KubeMoves, SInv
<1>1. CASE api'[n] = api[n]
  <2>1. /\ \A o \in VersionsOf(n) : o.spec = api[n].spec
        /\ pc # "idle" /\ job.key = n => job.obj.spec = api[n].spec
    BY <1>1 DEF SInv, NowSeen
  <2>2. ASSUME pc' # "idle", job'.key = n PROVE job'.obj.spec = api[n].spec
    <3>1. CASE Stays \/ Passes \/ Gets
      BY <2>1, <2>2, <3>1 DEF Stays, Passes, Gets, Inserted, SameCopy
    <3>2. CASE Begins
      BY <1>0, <2>1, <2>2, <3>2, InvTypes DEF Begins, Began
    <3> QED
      BY <2>2, <3>1, <3>2, JobCases
  <2> QED
    BY <1>0, <1>1, <2>1, <2>2
<1>2. CASE Written(n)
  <2>1. \A o \in VersionsOf(n) : o = api[n]
    BY <1>0, <1>2, WrittenFacts
  <2>2. api'[n].spec = api[n].spec /\ pc' = "idle"
    BY <1>2 DEF Written, Released, Guarded, Reported, SameSpec, Now
  <2> QED
    BY <1>0, <2>1, <2>2
<1> QED
  BY <1>1, <1>2, ObjectCases, UserUnreadies

(***************************************************************************)
(* What databasus holds, it keeps.                                         *)
(***************************************************************************)
LEMMA HoldsFewer ==
    ASSUME NEW id, NEW spec, NEW P, NEW R, R \subseteq P, Holds(id, spec, P)
    PROVE  Holds(id, spec, R)
  BY DEF Holds

LEMMA HoldsNothing ==
    ASSUME NEW id, NEW spec
    PROVE  Holds(id, spec, {})
  BY DEF Holds

\* Whoever has a database there, or had one a stranger deleted, has an ID.
LEMMA HoldsNamed ==
    ASSUME TypeOK, NEW id, NEW spec, NEW P, "database" \in P, Holds(id, spec, P)
    PROVE  id \in Ids
  BY DEF TypeOK, Holds, DatabaseOf

LEMMA HoldsSame ==
    ASSUME NEW id, NEW spec, NEW P \in SUBSET Parts, Holds(id, spec, P),
           DatabaseOf(id)' = DatabaseOf(id),
           \A p \in Parts : <<id, p>> \in disturbed' <=> <<id, p>> \in disturbed
    PROVE  Holds(id, spec, P)'
  BY DEF Holds, Parts

\* A database is rewritten: each part is left as it was, or set to spec, or the
\* rewriting disturbs it.
LEMMA HoldsRewritten ==
    ASSUME OnePerId, NEW d \in databases, NEW new, Rewrite(d, new), new.id = d.id,
           NEW spec, NEW P,
           \A p \in P : <<d.id, p>> \notin disturbed' =>
              \/ PartSpec(new, p) = spec
              \/ PartSpec(new, p) = PartSpec(d, p) /\ PartSpec(d, p) = spec
    PROVE  Holds(d.id, spec, P)'
<1>1. DatabaseOf(d.id)' = {new}
  BY DEF DatabaseOf, Rewrite, OnePerId
<1> QED
  BY <1>1 DEF Holds

LEMMA OthersSame ==
    ASSUME NEW d \in databases, NEW new, Rewrite(d, new), new.id = d.id, NEW id, id # d.id
    PROVE  DatabaseOf(id)' = DatabaseOf(id)
  BY DEF DatabaseOf, Rewrite

LEMMA RemoveOthersSame ==
    ASSUME NEW other, Remove(other), NEW id, id # other
    PROVE  DatabaseOf(id)' = DatabaseOf(id)
  BY DEF DatabaseOf, Remove

LEMMA InsertSame ==
    ASSUME StoreTypeOK, NEW n \in Names, NEW c \in Content, NEW new \in Ids, Insert(n, c, new),
           NEW id \in used
    PROVE  DatabaseOf(id)' = DatabaseOf(id)
<1>1. PICK d \in Database : d.id = new /\ databases' = databases \cup {d}
  BY InsertEffect
<1>2. new # id
  BY DEF Insert
<1> QED
  BY <1>1, <1>2 DEF DatabaseOf

\* The worker's request for a part of a database.
LEMMA HoldsPushed ==
    ASSUME SInv, Pushed, NEW id, NEW spec, NEW op, NEW P \in SUBSET Parts,
           id = job.obj.status.id, spec = job.obj.spec, op = OpOf(pc), Holds(id, spec, P)
    PROVE  Holds(id, spec, P \cup {op})'
<1>1. PICK d \in DatabaseOf(id), new \in Database :
              /\ Rewrite(d, new)
              /\ new.id = id /\ new.owner = d.owner
              /\ PartSpec(new, op) = spec
              /\ \A p \in Parts \ {op} : PartSpec(new, p) = PartSpec(d, p)
              /\ disturbed' = disturbed \ {<<id, op>>}
  BY PushedEffect DEF SInv, IInv
<1>2. d \in databases /\ d.id = id /\ new.id = d.id
  BY <1>1 DEF DatabaseOf
<1>3. ASSUME NEW p \in P \cup {op}, <<d.id, p>> \notin disturbed'
      PROVE  \/ PartSpec(new, p) = spec
             \/ PartSpec(new, p) = PartSpec(d, p) /\ PartSpec(d, p) = spec
  <2>1. CASE p = op
    BY <1>1, <2>1
  <2>2. CASE p # op
    <3>1. <<id, p>> \notin disturbed /\ p \in P
      BY <1>1, <1>2, <1>3, <2>2
    <3>2. PartSpec(d, p) = spec /\ PartSpec(new, p) = PartSpec(d, p)
      BY <1>1, <2>2, <3>1 DEF Holds
    <3> QED
      BY <3>2
  <2> QED
    BY <2>1, <2>2
<1>4. Holds(d.id, spec, P \cup {op})'
  <2>1. DatabaseOf(d.id)' = {new}
    BY <1>1, <1>2 DEF DatabaseOf, Rewrite, SInv, OnePerId
  <2> QED
    BY <1>3, <2>1 DEF Holds
<1> QED
  BY <1>1, <1>2, <1>4 DEF Holds

\* The requests databasus serves late, and what happens behind the operator's back.
LEMMA HoldsServed ==
    ASSUME SInv, ServerMoves, NEW id \in used, NEW spec, NEW P \in SUBSET Parts,
           Holds(id, spec, P),
           \A q \in late : q.op = "delete" => q.id # id
    PROVE  Holds(id, spec, P)'
<1>0. TypeOK /\ StoreTypeOK /\ OnePerId
  BY TypeParts DEF SInv, IInv, ServerTypeOK
<1>1. ASSUME NEW q \in late, Served(q) PROVE Holds(id, spec, P)'
  <2>1. ASSUME NEW new \in Ids, Insert(q.owner, q.content, new), UNCHANGED disturbed
        PROVE  Holds(id, spec, P)'
    <3>1. DatabaseOf(id)' = DatabaseOf(id)
      BY <1>0, <2>1, RequestFields, InsertSame
    <3> QED
      BY <2>1, <3>1, HoldsSame
  <2>2. CASE /\ q.op \in Parts /\ Apply(q)
             /\ disturbed' = disturbed \cup {<<q.id, q.op>>}
    <3>1. PICK d \in DatabaseOf(q.id), new \in Database :
                  /\ Rewrite(d, new)
                  /\ new.id = q.id /\ new.owner = d.owner
                  /\ PartSpec(new, q.op) = PartSpec(q, q.op)
                  /\ \A p \in Parts \ {q.op} : PartSpec(new, p) = PartSpec(d, p)
      BY <1>0, <2>2, RequestFields, ApplyEffect
    <3>2. d \in databases /\ d.id = q.id /\ new.id = d.id
      BY <3>1 DEF DatabaseOf
    <3>3. CASE q.id # id
      <4>1. DatabaseOf(id)' = DatabaseOf(id)
        BY <3>1, <3>2, <3>3, OthersSame
      <4>2. \A p \in Parts : <<id, p>> \in disturbed' <=> <<id, p>> \in disturbed
        BY <2>2, <3>3
      <4> QED
        BY <4>1, <4>2, HoldsSame
    <3>4. CASE q.id = id
      <4>1. ASSUME NEW p \in P, <<id, p>> \notin disturbed'
            PROVE  PartSpec(new, p) = PartSpec(d, p) /\ PartSpec(d, p) = spec
        <5>1. p # q.op /\ <<id, p>> \notin disturbed
          BY <2>2, <3>4, <4>1
        <5> QED
          BY <3>1, <3>4, <5>1 DEF Holds
      <4>2. Holds(d.id, spec, P)'
        BY <1>0, <3>1, <3>2, <3>4, <4>1, HoldsRewritten
      <4> QED
        BY <3>2, <3>4, <4>2
    <3> QED
      BY <3>3, <3>4
  <2>3. CASE q.op = "delete" /\ Remove(q.id) /\ UNCHANGED disturbed
    <3>1. DatabaseOf(id)' = DatabaseOf(id)
      BY <2>3, RemoveOthersSame
    <3> QED
      BY <2>3, <3>1, HoldsSame
  <2>4. CASE UNCHANGED <<databases, disturbed>>
    <3>1. DatabaseOf(id)' = DatabaseOf(id)
      BY <2>4 DEF DatabaseOf
    <3> QED
      BY <2>4, <3>1, HoldsSame
  <2> QED
    BY <1>1, <2>1, <2>2, <2>3, <2>4 DEF Served
<1>2. ASSUME NEW lost \in Ids, Lost(lost) PROVE Holds(id, spec, P)'
  <2>1. CASE lost # id
    <3>1. DatabaseOf(id)' = DatabaseOf(id)
      BY <1>2, <2>1, RemoveOthersSame DEF Lost
    <3>2. \A p \in Parts : <<id, p>> \in disturbed' <=> <<id, p>> \in disturbed
      BY <1>2, <2>1 DEF Lost
    <3> QED
      BY <3>1, <3>2, HoldsSame
  <2>2. CASE lost = id
    BY <1>2, <2>2 DEF Lost, Remove, DatabaseOf, Holds, Parts
  <2> QED
    BY <2>1, <2>2
<1>3. ASSUME NEW d \in databases, NEW h \in Healths, Probed(d, h) PROVE Holds(id, spec, P)'
  <2>1. PICK new \in Database :
                /\ Rewrite(d, new)
                /\ new.id = d.id
                /\ \A p \in Parts : PartSpec(new, p) = PartSpec(d, p)
    BY <1>0, <1>3, ProbedEffect
  <2>2. disturbed' = disturbed
    BY <1>3 DEF Probed
  <2>3. CASE d.id # id
    <3>1. DatabaseOf(id)' = DatabaseOf(id)
      BY <2>1, <2>3, OthersSame
    <3> QED
      BY <2>2, <3>1, HoldsSame
  <2>4. CASE d.id = id
    <3>1. \A p \in P : <<id, p>> \notin disturbed' =>
             PartSpec(new, p) = PartSpec(d, p) /\ PartSpec(d, p) = spec
      BY <2>1, <2>2, <2>4 DEF Holds, DatabaseOf
    <3>2. Holds(d.id, spec, P)'
      BY <1>0, <2>1, <2>4, <3>1, HoldsRewritten
    <3> QED
      BY <2>4, <3>2
  <2> QED
    BY <2>3, <2>4
<1> QED
  BY <1>1, <1>2, <1>3 DEF ServerMoves

\* What is held under an ID stays, as long as nobody means to delete its database
\* and the worker sends nothing else under it.
LEMMA HoldsKept ==
    ASSUME SInv, Moves, NEW id \in used, NEW spec, NEW P \in SUBSET Parts,
           Holds(id, spec, P),
           \A q \in late : q.op = "delete" => q.id # id,
           Deleted => job.obj.status.id # id,
           Pushed /\ job.obj.status.id = id => job.obj.spec = spec
    PROVE  Holds(id, spec, P)'
<1>0. TypeOK /\ StoreTypeOK /\ LocalTypeOK /\ job.key \in Names
  BY TypeParts, InvTypes DEF SInv, IInv, ServerTypeOK
<1>1. CASE UNCHANGED <<databases, disturbed>>
  <2>1. DatabaseOf(id)' = DatabaseOf(id)
    BY <1>1 DEF DatabaseOf
  <2> QED
    BY <1>1, <2>1, HoldsSame
<1>2. CASE ObjectMoves
  BY <1>1, <1>2 DEF ObjectMoves, UserMoved, Written, serverVars
<1>3. CASE ServerMoves
  BY <1>3, HoldsServed
<1>4. CASE WorkerMoves
  <2>1. CASE Quiet \/ Returned \/ Began \/ Resolved \/ Failed \/ Refreshed
    BY <1>1, <2>1 DEF Quiet, Returned, Began, Resolved, Failed, Refreshed, serverVars
  <2>2. CASE Deleted
    <3>1. DatabaseOf(id)' = DatabaseOf(id) /\ disturbed' = disturbed
      BY <2>2, RemoveOthersSame DEF Deleted
    <3> QED
      BY <3>1, HoldsSame
  <2>3. CASE Inserted
    <3>1. PICK new \in Ids : Insert(job.key, JobContent, new)
      BY <2>3 DEF Inserted
    <3>2. DatabaseOf(id)' = DatabaseOf(id) /\ disturbed' = disturbed
      BY <1>0, <2>3, <3>1, JobTypes, InsertSame DEF Inserted
    <3> QED
      BY <3>2, HoldsSame
  <2>4. CASE Pushed /\ job.obj.status.id = id
    <3>1. PICK op : op = OpOf(pc)
      OBVIOUS
    <3>2. Holds(id, spec, P \cup {op})'
      BY <2>4, <3>1, HoldsPushed
    <3> QED
      BY <3>2 DEF Holds
  <2>5. CASE Pushed /\ job.obj.status.id # id
    <3>1. PICK op \in Parts, d \in DatabaseOf(job.obj.status.id), new \in Database :
                  /\ Rewrite(d, new)
                  /\ new.id = job.obj.status.id
                  /\ disturbed' = disturbed \ {<<job.obj.status.id, op>>}
      BY <1>0, <2>5, PushedEffect
    <3>2. d \in databases /\ new.id = d.id /\ d.id # id
      BY <2>5, <3>1 DEF DatabaseOf
    <3>3. DatabaseOf(id)' = DatabaseOf(id)
      BY <3>1, <3>2, OthersSame
    <3>4. \A p \in Parts : <<id, p>> \in disturbed' <=> <<id, p>> \in disturbed
      BY <2>5, <3>1
    <3> QED
      BY <3>3, <3>4, HoldsSame
  <2> QED
    BY <1>4, <2>1, <2>2, <2>3, <2>4, <2>5 DEF WorkerMoves
<1> QED
  BY <1>2, <1>3, <1>4 DEF Moves

(***************************************************************************)
(* What a pass has sent is there, and what a Ready object says.            *)
(***************************************************************************)
LEMMA SentParts ==
    /\ Sent \in SUBSET Parts
    /\ "database" \in Sent \/ Sent = {}
    /\ pc \notin Saved => Sent = {}
    /\ \A spec : Wanted(spec) \in SUBSET Parts /\ "database" \in Wanted(spec)
  BY DEF Sent, Wanted, Parts, Saved

\* Nobody means to delete the database of a pass that can still report it.
LEMMA SentNotDoomed ==
    ASSUME SInv, pc \in PushSteps, Present, job.obj.status.id \in Ids
    PROVE  \A q \in late : q.op = "delete" => q.id # job.obj.status.id
<1>0. pc # "idle" /\ job.key \in Names
  BY InvTypes DEF SInv, PushSteps, Early, Named, Saved
<1>1. CASE Unwritten
  BY <1>1 DEF SInv, Fresh
<1>2. CASE job.obj.status.id = api[job.key].status.id
  <2>1. Answered /\ job.obj.exists /\ ~job.obj.deleting
    BY <1>0 DEF SInv, IInv, JobOK, PushLive
  <2>2. Live(api[job.key])
    BY <2>1 DEF Answered, Live
  <2>3. ~Doomed(job.obj.status.id)
    BY <1>0, <1>2, <2>2 DEF SInv, DoomedDead
  <2> QED
    BY <2>3 DEF Doomed
<1> QED
  BY <1>0, <1>1, <1>2 DEF Unwritten

LEMMA SentKept ==
    ASSUME SInv, Moves, Stays, pc # "idle", Present,
           NEW id, NEW spec, NEW P,
           id = job.obj.status.id, spec = job.obj.spec, P = Sent
    PROVE  Holds(id, spec, P)'
<1>0. TypeOK /\ Holds(id, spec, P)
  BY DEF SInv, IInv, SentHolds
<1>1. CASE P = {}
  BY <1>1 DEF Holds
<1>2. CASE P # {}
  <2>1. pc \in Saved /\ pc \in PushSteps /\ P \in SUBSET Parts /\ "database" \in P
    BY <1>2, SentParts DEF PushSteps, Named
  <2>2. id \in Ids
    BY <1>0, <2>1, HoldsNamed
  <2>3. id \in used
    BY <2>2, DatabaseBackupAssumption DEF SInv, IInv, JobOK, Known
  <2>4. \A q \in late : q.op = "delete" => q.id # id
    BY <2>1, <2>2, SentNotDoomed
  <2>5. ~Deleted /\ ~Pushed
    BY DEF Stays, Deleted, Pushed, AfterConfig
  <2> QED
    BY <1>0, <2>1, <2>3, <2>4, <2>5, HoldsKept
<1> QED
  BY <1>1, <1>2

\* The step of a pass that has its ID.
LEMMA SentGrows ==
    ASSUME SInv, WorkerMoves, Passes, Present,
           NEW id, NEW spec,
           id = job.obj.status.id, spec = job.obj.spec, job'.obj.spec = spec
    PROVE  \A P : P = Sent' => Holds(id, spec, P)'
<1> SUFFICES ASSUME NEW P, P = Sent' PROVE Holds(id, spec, P)'
  OBVIOUS
<1>0. Holds(id, spec, Sent) /\ Sent \in SUBSET Parts
  BY SentParts DEF Passes, SInv, SentHolds
<1>1. CASE pc' \notin Saved
  <2>1. P = {}
    BY <1>1 DEF Sent, Saved
  <2> QED
    BY <2>1 DEF Holds
<1>2. CASE Pushed
  <2>1. PICK op : op = OpOf(pc)
    OBVIOUS
  <2>2. PICK R : R = Sent
    OBVIOUS
  <2>3. Holds(id, spec, R \cup {op})'
    BY <1>0, <1>2, <2>1, <2>2, HoldsPushed
  <2>4. P \subseteq R \cup {op}
    <3>1. CASE pc = "saveDatabase" /\ pc' = "saveConfig"
      BY <2>1, <3>1 DEF Sent, OpOf
    <3>2. CASE pc = "saveConfig" /\ pc' = AfterConfig
      BY <2>1, <2>2, <3>2 DEF Sent, OpOf, AfterConfig, Wanted
    <3>3. CASE pc = "saveCheck" /\ pc' = "refresh"
      BY <2>1, <2>2, <3>3 DEF Sent, OpOf, Wanted
    <3> QED
      BY <1>2, <3>1, <3>2, <3>3 DEF Pushed
  <2> QED
    BY <2>3, <2>4 DEF Holds
<1>3. CASE Refreshed
  <2>1. P = Sent
    BY <1>3 DEF Refreshed, SameCopy, Sent
  <2>2. DatabaseOf(id)' = DatabaseOf(id) /\ disturbed' = disturbed
    BY <1>3 DEF Refreshed, serverVars, DatabaseOf
  <2> QED
    BY <1>0, <2>1, <2>2 DEF Holds
<1>4. CASE Quiet
  <2>1. P = Sent
    BY <1>4 DEF Quiet, Sent
  <2>2. DatabaseOf(id)' = DatabaseOf(id) /\ disturbed' = disturbed
    BY <1>4 DEF Quiet, serverVars, DatabaseOf
  <2> QED
    BY <1>0, <2>1, <2>2 DEF Holds
<1>5. CASE Inserted
  BY <1>5, DatabaseBackupAssumption DEF Inserted, Passes, Insert
<1> QED
  BY <1>1, <1>2, <1>3, <1>4, <1>5
  DEF WorkerMoves, Returned, Began, Entries, Deleted, Resolved, Failed, Early, Saved

LEMMA SentBegins ==
    ASSUME SInv, Inserted
    PROVE  Holds(job.obj.status.id, job.obj.spec, Sent)'
<1>0. StoreTypeOK /\ LocalTypeOK
  BY InvTypes DEF SInv
<1>1. PICK id \in Ids : Insert(job.key, JobContent, id) /\ job'.obj.status.id = id
  BY DEF Inserted
<1>2. PICK new \in Database :
              /\ new.id = id /\ PartSpec(new, "database") = job.obj.spec
              /\ databases' = databases \cup {new}
  <2>1. JobContent.spec = job.obj.spec
    BY DEF JobContent
  <2> QED
    BY <1>0, <1>1, <2>1, JobTypes, InsertEffect
<1>3. \A d \in databases : d.id # id
  BY <1>0, <1>1 DEF Insert, StoreTypeOK
<1>4. DatabaseOf(id)' = {new}
  BY <1>2, <1>3 DEF DatabaseOf
<1>5. Sent' = {"database"} /\ job'.obj.spec = job.obj.spec
  BY DEF Inserted, Sent, SameCopy
<1>6. DatabaseOf(job.obj.status.id)' = {new}
  BY <1>1, <1>4 DEF DatabaseOf
<1> QED
  BY <1>2, <1>5, <1>6 DEF Holds

LEMMA NextSentHolds == SInv /\ Moves => SentHolds'
<1> SUFFICES ASSUME SInv, Moves, pc' # "idle", Present'
             PROVE  Holds(job.obj.status.id, job.obj.spec, Sent)'
  BY DEF SentHolds
<1>1. CASE Stays
  <2>1. PICK id, spec, P : id = job.obj.status.id /\ spec = job.obj.spec /\ P = Sent
    OBVIOUS
  <2>2. Holds(id, spec, P)'
    BY <1>1, <2>1, PresentBefore, SentKept
  <2>3. job'.obj.status.id = id /\ job'.obj.spec = spec /\ Sent' = P
    BY <1>1, <2>1 DEF Stays, Sent
  <2> QED
    BY <2>2, <2>3 DEF Holds
<1>2. CASE Passes
  <2>1. PICK id, spec, P : id = job.obj.status.id /\ spec = job.obj.spec /\ P = Sent'
    OBVIOUS
  <2>2. job'.obj.status.id = id /\ job'.obj.spec = spec
    BY <1>2, <2>1 DEF Passes, SameCopy
  <2>3. Present
    BY <1>2, PresentBefore
  <2>4. CASE WorkerMoves
    <3>1. Holds(id, spec, P)'
      BY <1>2, <2>1, <2>2, <2>3, <2>4, SentGrows
    <3> QED
      BY <2>1, <2>2, <3>1 DEF Holds
  <2>5. CASE ~WorkerMoves
    BY <1>1, <2>5 DEF Moves, ObjectMoves, UserMoved, Written, ServerMoves, Served, Lost,
       Probed, Stays, serverVars
  <2> QED
    BY <2>4, <2>5
<1>3. CASE Begins
  <2>1. Sent' = {}
    BY <1>3 DEF Begins, Began, Entries, Sent
  <2> QED
    BY <2>1 DEF Holds
<1>4. CASE Gets
  BY <1>4, SentBegins DEF Gets
<1> QED
  BY <1>1, <1>2, <1>3, <1>4, JobCases

\* A Ready object that the step leaves alone keeps what it stands for.
LEMMA NowKept ==
    ASSUME SInv, Moves, NEW n \in Names, Now(api[n]),
           NEW id, NEW spec, id = api[n].status.id, spec = api[n].spec
    PROVE  Holds(id, spec, Wanted(spec))'
<1> DEFINE P == Wanted(spec)
<1>0. TypeOK /\ Holds(id, spec, P) /\ P \in SUBSET Parts /\ "database" \in P
  BY SentParts DEF SInv, IInv, NowHolds
<1> HIDE DEF P
<1>1. api[n] \in VersionsOf(n)
  BY InvTypes DEF SInv
<1>2. id \in Ids
  BY <1>0, HoldsNamed
<1>3. id \in used
  BY <1>1, <1>2, DatabaseBackupAssumption DEF SInv, IInv, IdsKnown, Known
<1>4. ~Doomed(id)
  <2>1. Live(api[n])
    BY DEF SInv, Observed, Now, Live
  <2> QED
    BY <1>2, <2>1 DEF SInv, DoomedDead
<1>5. Deleted => job.obj.status.id # id
  <2>1. ASSUME Deleted PROVE pc # "idle" /\ job.obj.deleting
    BY <2>1 DEF Deleted, SInv, IInv, JobOK, DeleteSteps
  <2> QED
    BY <1>4, <2>1 DEF Doomed
<1>6. ASSUME Pushed, job.obj.status.id = id PROVE job.obj.spec = spec
  <2>1. pc # "idle" /\ job.key \in Names
    BY <1>6, InvTypes DEF Pushed, SInv
  <2>2. Claims(job.key, id) /\ Claims(n, id)
    BY <1>1, <1>6, <2>1 DEF Claims
  <2>3. job.key = n
    BY <1>2, <2>1, <2>2 DEF SInv, Unshared
  <2> QED
    BY <2>1, <2>3 DEF SInv, NowSeen
<1>7. \A q \in late : q.op = "delete" => q.id # id
  BY <1>4 DEF Doomed
<1>8. Holds(id, spec, P)'
  BY <1>0, <1>3, <1>5, <1>6, <1>7, HoldsKept
<1> QED
  BY <1>8 DEF P

LEMMA NowMoves ==
    ASSUME SInv, Moves, NEW n \in Names, Now(api'[n]),
           NEW id, NEW spec, id = api'[n].status.id, spec = api'[n].spec
    PROVE  Holds(id, spec, Wanted(spec))'
<1>1. CASE api'[n] = api[n]
  BY <1>1, NowKept
<1>2. CASE Written(n)
  <2>0. Now(api'[n]) /\ UNCHANGED <<databases, disturbed>> /\ n = job.key
    BY <1>2 DEF Written, serverVars
  <2>1. CASE Guarded(n)
    <3>1. Now(api[n]) /\ id = api[n].status.id /\ spec = api[n].spec
      BY <2>0, <2>1 DEF Guarded, SameSpec, Now, Ready
    <3> QED
      BY <3>1, NowKept
  <2>2. CASE Reported(n)
    <3>1. pc = "reportSynced"
      BY <2>0, <2>2 DEF Reported, Now, Ready, SInv, PushLive
    <3>2. Present /\ job.obj.spec = api[n].spec
      BY <1>2, <2>2, ReportFacts
    <3>3. id = job.obj.status.id /\ spec = job.obj.spec
      BY <2>2, <3>2 DEF Reported, SameSpec
    <3>4. Sent = Wanted(spec)
      BY <3>1, <3>3 DEF Sent
    <3>5. Holds(id, spec, Wanted(spec))
      BY <3>1, <3>2, <3>3, <3>4 DEF SInv, SentHolds
    <3> QED
      BY <2>0, <3>5 DEF Holds, DatabaseOf, Wanted
  <2>3. CASE Released(n)
    BY <2>0, <2>3 DEF Released, Now
  <2> QED
    BY <1>2, <2>1, <2>2, <2>3 DEF Written
<1> QED
  BY <1>1, <1>2, ObjectCases, UserUnreadies

LEMMA NextNowHolds == SInv /\ Moves => NowHolds'
<1> SUFFICES ASSUME SInv, Moves, NEW n \in Names, Now(api'[n])
             PROVE  Holds(api[n].status.id, api[n].spec, Wanted(api[n].spec))'
  BY DEF NowHolds, Now, Ready
<1>1. PICK id, spec : id = api'[n].status.id /\ spec = api'[n].spec
  OBVIOUS
<1>2. Holds(id, spec, Wanted(spec))'
  BY <1>1, NowMoves
<1> QED
  BY <1>1, <1>2 DEF Holds, Wanted

LEMMA InitSync == Init => SInv
<1> SUFFICES ASSUME Init PROVE SInv
  OBVIOUS
<1>1. IInv
  BY InitInv
<1>2. /\ api = [n \in Names |-> NeverCreated(NoStatus)] /\ cache = api
      /\ pending = [n \in Names |-> <<>>] /\ pc = "idle"
      /\ databases = {} /\ late = {}
  BY DEF Init, KubeInit
<1>3. \A n \in Names : 1..Len(pending[n]) = {}
  <2>1. \A n \in Names : pending[n] = <<>>
    BY <1>2
  <2>2. 1..Len(<<>>) = {}
    OBVIOUS
  <2> QED
    BY <2>1, <2>2, Zenon
<1>4. \A n \in Names : \A o \in VersionsOf(n) : o = NeverCreated(NoStatus)
  BY <1>2, <1>3 DEF VersionsOf
<1>5. /\ ~NeverCreated(NoStatus).exists /\ ~NeverCreated(NoStatus).deleting
      /\ NeverCreated(NoStatus).status.id = NoId
  BY DEF NeverCreated, NoStatus
<1>6. \A id \in Ids : id # NoId
  BY DatabaseBackupAssumption
<1>7. \A n \in Names : ~api[n].exists
  BY <1>2, <1>5
<1>8. \A n \in Names, id \in Ids : ~Claims(n, id)
  BY <1>2, <1>4, <1>5, <1>6 DEF Claims
<1>9. \A id \in Ids : ~Doomed(id)
  BY <1>2, <1>4, <1>5 DEF Doomed
<1> QED
  BY <1>1, <1>2, <1>7, <1>8, <1>9
  DEF SInv, Unshared, OnePerId, DoomedDead, Fresh, Unwritten, PushLive, PushSteps, Early,
      Named, Saved, Observed, NowSeen, Now, SentHolds, NowHolds

LEMMA NextSync == SInv /\ [Next]_vars => SInv'
<1> SUFFICES ASSUME SInv, [Next]_vars PROVE SInv'
  OBVIOUS
<1>1. IInv' /\ Moves
  BY NextInv, NextMoves DEF SInv, IInv
<1> QED
  BY <1>1, NextUnshared, NextOnePerId, NextDoomed, NextFresh, NextPushLive, NextObserved,
     NextNowSeen, NextSentHolds, NextNowHolds
  DEF SInv

THEOREM DatabaseSyncInvariant == Spec => []SInv
  BY InitSync, NextSync, PTL DEF Spec

LEMMA HoldsWholePipeline == SInv => SyncedPipeline
<1> SUFFICES ASSUME SInv, NEW n \in Names, Now(api[n])
             PROVE  \/ /\ <<api[n].status.id, "database">> \in disturbed
                       /\ DatabaseOf(api[n].status.id) = {}
                    \/ \E d \in DatabaseOf(api[n].status.id) :
                          /\ <<api[n].status.id, "database">> \notin disturbed
                                => d.content.spec = api[n].spec
                          /\ <<api[n].status.id, "config">> \notin disturbed
                                => d.config.spec = api[n].spec
                          /\ (<<api[n].status.id, "check">> \notin disturbed
                                 /\ api[n].spec \in Checked)
                                => d.check = api[n].spec
  BY DEF SyncedPipeline, Now
<1>1. Holds(api[n].status.id, api[n].spec, Wanted(api[n].spec))
  BY DEF SInv, NowHolds
<1>2. CASE DatabaseOf(api[n].status.id) = {}
  BY <1>1, <1>2 DEF Holds, Wanted
<1>3. CASE DatabaseOf(api[n].status.id) # {}
  <2>1. PICK d \in DatabaseOf(api[n].status.id) : TRUE
    BY <1>3
  <2>2. \A p \in Wanted(api[n].spec) :
           <<api[n].status.id, p>> \notin disturbed => PartSpec(d, p) = api[n].spec
    BY <1>1 DEF Holds
  <2>3. /\ PartSpec(d, "database") = d.content.spec /\ PartSpec(d, "config") = d.config.spec
        /\ PartSpec(d, "check") = d.check
    BY DEF PartSpec
  <2>4. /\ "database" \in Wanted(api[n].spec) /\ "config" \in Wanted(api[n].spec)
        /\ api[n].spec \in Checked => "check" \in Wanted(api[n].spec)
    BY DEF Wanted
  <2>5. /\ <<api[n].status.id, "database">> \notin disturbed => d.content.spec = api[n].spec
        /\ <<api[n].status.id, "config">> \notin disturbed => d.config.spec = api[n].spec
        /\ (<<api[n].status.id, "check">> \notin disturbed /\ api[n].spec \in Checked)
              => d.check = api[n].spec
    BY <2>2, <2>3, <2>4
  <2> QED
    BY <2>1, <2>5
<1> QED
  BY <1>2, <1>3

\* Ready for the present generation means that the database, its backup config and
\* its healthcheck config are those of the spec (Reconcile's three Sync calls).
THEOREM ReadyMeansSynced == Spec => []SyncedPipeline
  BY HoldsWholePipeline, DatabaseSyncInvariant, PTL

(***************************************************************************)
(* What RecordSync sees of a state.                                        *)
(***************************************************************************)
KnownId(o) == IF o.exists THEN o.status.id ELSE NoId

PhaseNow == [n \in Names |-> Phase(api[n])]

KnownNow == [n \in Names |-> KnownId(api[n])]

RecordOf(d) == [id |-> d.id, owner |-> d.owner]

RecordsNow == {RecordOf(d) : d \in databases}

Unseen == UNCHANGED <<PhaseNow, KnownNow, RecordsNow, used>>

LEMMA UnseenStutters ==
    ASSUME Unseen
    PROVE  UNCHANGED Promise!vars
  BY Zenon DEF Unseen, PhaseNow, KnownNow, KnownId, RecordsNow, RecordOf, Promise!vars

LEMMA MovedSeen ==
    ASSUME NEW m \in Names, \A n \in Names \ {m} : api'[n] = api[n], UNCHANGED serverVars
    PROVE  /\ PhaseNow' = [PhaseNow EXCEPT ![m] = Phase(api'[m])]
           /\ KnownNow' = [KnownNow EXCEPT ![m] = KnownId(api'[m])]
           /\ RecordsNow' = RecordsNow /\ used' = used
           /\ PhaseNow[m] = Phase(api[m]) /\ KnownNow[m] = KnownId(api[m])
           /\ [PhaseNow EXCEPT ![m] = PhaseNow[m]] = PhaseNow
           /\ [KnownNow EXCEPT ![m] = KnownNow[m]] = KnownNow
<1>1. RecordsNow' = RecordsNow /\ used' = used
  BY DEF RecordsNow, serverVars
<1>2. PhaseNow' = [PhaseNow EXCEPT ![m] = Phase(api'[m])]
  BY DEF PhaseNow, Phase
<1>3. KnownNow' = [KnownNow EXCEPT ![m] = KnownId(api'[m])]
  BY DEF KnownNow
<1>4. /\ PhaseNow[m] = Phase(api[m]) /\ KnownNow[m] = KnownId(api[m])
      /\ [PhaseNow EXCEPT ![m] = PhaseNow[m]] = PhaseNow
      /\ [KnownNow EXCEPT ![m] = KnownNow[m]] = KnownNow
  BY DEF PhaseNow, KnownNow
<1> QED
  BY <1>1, <1>2, <1>3, <1>4

\* The records of an ID.
LEMMA RecordsOf ==
    ASSUME NEW id
    PROVE  /\ {x \in RecordsNow : x.id = id} = {RecordOf(d) : d \in DatabaseOf(id)}
           /\ DatabaseOf(id) = {} => {x \in RecordsNow : x.id = id} = {}
  BY DEF RecordsNow, RecordOf, DatabaseOf

LEMMA RemovedRecords ==
    ASSUME NEW id, Remove(id)
    PROVE  RecordsNow' = RecordsNow \ {x \in RecordsNow : x.id = id}
  BY DEF RecordsNow, RecordOf, DatabaseOf, Remove

\* A database that is written again keeps its record.
LEMMA RewrittenRecords ==
    ASSUME NEW d \in databases, NEW new, Rewrite(d, new), new.id = d.id, new.owner = d.owner
    PROVE  RecordsNow' = RecordsNow
<1>1. RecordOf(new) = RecordOf(d)
  BY DEF RecordOf
<1> QED
  BY <1>1 DEF RecordsNow, Rewrite

(***************************************************************************)
(* The actions of RecordSync, of what it sees.                             *)
(***************************************************************************)
LEMMA PromiseActions ==
    ASSUME NEW n \in Names
    PROVE  /\ PhaseNow[n] = "absent" /\ PhaseNow' = [PhaseNow EXCEPT ![n] = "live"]
                /\ UNCHANGED <<KnownNow, RecordsNow, used>>
              => Promise!Create(n)
           /\ PhaseNow[n] = "live" /\ PhaseNow' = [PhaseNow EXCEPT ![n] = "deleting"]
                /\ UNCHANGED <<KnownNow, RecordsNow, used>>
              => Promise!Mark(n)
           /\ PhaseNow[n] = "live" /\ KnownNow[n] = NoId
                /\ PhaseNow' = [PhaseNow EXCEPT ![n] = "absent"]
                /\ UNCHANGED <<KnownNow, RecordsNow, used>>
              => Promise!Vanish(n)
           /\ PhaseNow[n] = "deleting"
                /\ {x \in RecordsNow : x.id = KnownNow[n]} = {}
                /\ PhaseNow' = [PhaseNow EXCEPT ![n] = "absent"]
                /\ KnownNow' = [KnownNow EXCEPT ![n] = NoId]
                /\ UNCHANGED <<RecordsNow, used>>
              => Promise!Finish(n)
           /\ PhaseNow[n] = "deleting"
                /\ RecordsNow' = RecordsNow \ {x \in RecordsNow : x.id = KnownNow[n]}
                /\ UNCHANGED <<PhaseNow, KnownNow, used>>
              => Promise!Erase(n)
  BY Zenon DEF PhaseNow, KnownNow, KnownId, RecordsNow, RecordOf,
     Promise!Create, Promise!Mark, Promise!Vanish, Promise!Finish, Promise!Erase, Promise!Of

LEMMA PromiseAppears ==
    ASSUME NEW n \in Names, NEW id \in Ids, id \notin used,
           RecordsNow' = RecordsNow \cup {[id |-> id, owner |-> n]},
           used' = used \cup {id},
           UNCHANGED <<PhaseNow, KnownNow>>
    PROVE  Promise!Appear(n, id)
<1>1. id \in Ids \ used
  OBVIOUS
<1> QED
  BY <1>1, Zenon DEF PhaseNow, KnownNow, KnownId, RecordsNow, RecordOf, Promise!Appear

LEMMA PromiseRecords ==
    ASSUME NEW n \in Names, NEW id \in Ids, id \in used,
           PhaseNow[n] = "live", KnownNow[n] = NoId,
           \A m \in Names : KnownNow[m] # id,
           \A x \in {y \in RecordsNow : y.id = id} : x.owner = n,
           KnownNow' = [KnownNow EXCEPT ![n] = id],
           UNCHANGED <<PhaseNow, RecordsNow, used>>
    PROVE  Promise!Record(n, id)
  BY Zenon DEF PhaseNow, KnownNow, KnownId, RecordsNow, RecordOf, Promise!Record, Promise!Of

LEMMA PromiseLoses ==
    ASSUME NEW id \in Ids, OutOfBand,
           RecordsNow' = RecordsNow \ {x \in RecordsNow : x.id = id},
           UNCHANGED <<PhaseNow, KnownNow, used>>
    PROVE  Promise!Lose(id)
  BY Zenon DEF PhaseNow, KnownNow, KnownId, RecordsNow, RecordOf, Promise!Lose, Promise!Of

(***************************************************************************)
(* Every step is one of RecordSync.                                        *)
(***************************************************************************)
\* A report that names a new ID records it.
LEMMA ReportRecords ==
    ASSUME SInv, NEW m \in Names, Written(m), Reported(m),
           job.obj.status.id # api[m].status.id,
           UNCHANGED <<PhaseNow, RecordsNow, used>>,
           KnownNow' = [KnownNow EXCEPT ![m] = job.obj.status.id]
    PROVE  \E id \in Ids : Promise!Record(m, id)
<1>0. IInv /\ StoreTypeOK
  BY InvTypes DEF SInv
<1>1. /\ api[m].exists /\ ~api[m].deleting /\ m = job.key /\ Present /\ pc # "idle"
      /\ Answered
  BY ReportFacts, WrittenFacts DEF SInv
<1>2. Unwritten /\ api[m].status.id = NoId
  BY <1>1 DEF Unwritten, Answered
<1>3. job.obj.status.id \in Ids /\ job.obj.status.id \in used
  BY <1>0, <1>1, <1>2 DEF IInv, JobOK, Known, StoreTypeOK
<1>4. PICK id \in Ids : id = job.obj.status.id
  BY <1>3
<1>5. ASSUME NEW n \in Names PROVE KnownNow[n] # id
  <2>1. api[n].status.id # id
    BY <1>0, <1>2, <1>4, InvTypes DEF SInv, Fresh
  <2> QED
    BY <2>1, DatabaseBackupAssumption DEF KnownNow, KnownId
<1>6. ASSUME NEW d \in DatabaseOf(id) PROVE d.owner = m
  <2>1. d.owner \in Names /\ Claims(d.owner, id)
    BY <1>0 DEF StoreTypeOK, Database, DatabaseOf, Claims
  <2>2. Claims(m, id)
    BY <1>1, <1>4 DEF Claims
  <2> QED
    BY <2>1, <2>2 DEF SInv, Unshared
<1>7. \A x \in {y \in RecordsNow : y.id = id} : x.owner = m
  BY <1>6, RecordsOf DEF RecordOf
<1>8. PhaseNow[m] = "live" /\ KnownNow[m] = NoId
  BY <1>1, <1>2 DEF PhaseNow, KnownNow, Phase, KnownId
<1>9. Promise!Record(m, id)
  BY <1>3, <1>4, <1>5, <1>7, <1>8, PromiseRecords
<1> QED
  BY <1>9

LEMMA ObjectsImplement ==
    ASSUME SInv, NEW m \in Names, UserMoved(m) \/ Written(m),
           \A n \in Names \ {m} : api'[n] = api[n]
    PROVE  Promise!Next \/ Unseen
<1>0. UNCHANGED serverVars
  BY DEF UserMoved, Written
<1>1. /\ PhaseNow' = [PhaseNow EXCEPT ![m] = Phase(api'[m])]
      /\ KnownNow' = [KnownNow EXCEPT ![m] = KnownId(api'[m])]
      /\ RecordsNow' = RecordsNow /\ used' = used
      /\ PhaseNow[m] = Phase(api[m]) /\ KnownNow[m] = KnownId(api[m])
      /\ [PhaseNow EXCEPT ![m] = PhaseNow[m]] = PhaseNow
      /\ [KnownNow EXCEPT ![m] = KnownNow[m]] = KnownNow
  BY <1>0, MovedSeen
<1>2. CASE Phase(api'[m]) = Phase(api[m]) /\ KnownId(api'[m]) = KnownId(api[m])
  BY <1>1, <1>2 DEF Unseen
<1>3. CASE Created(m)
  <2>1. /\ Phase(api[m]) = "absent" /\ Phase(api'[m]) = "live"
        /\ KnownId(api'[m]) = KnownId(api[m])
    <3>1. NoStatus.id = NoId
      BY DEF NoStatus
    <3> QED
      BY <1>3, <3>1 DEF Created, Phase, KnownId
  <2>2. Promise!Create(m)
    BY <1>1, <2>1, PromiseActions
  <2> QED
    BY <2>2 DEF Promise!Next
<1>4. CASE Marked(m)
  <2>1. /\ Phase(api[m]) = "live" /\ Phase(api'[m]) = "deleting"
        /\ KnownId(api'[m]) = KnownId(api[m])
    BY <1>4 DEF Marked, Phase, KnownId
  <2>2. Promise!Mark(m)
    BY <1>1, <2>1, PromiseActions
  <2> QED
    BY <2>2 DEF Promise!Next
<1>5. CASE Vanished(m)
  <2>0. api[m].status.id = NoId
    BY <1>5 DEF Vanished, SInv, IInv, IdUnderFinalizer
  <2>1. /\ Phase(api[m]) = "live" /\ Phase(api'[m]) = "absent"
        /\ KnownId(api[m]) = NoId /\ KnownId(api'[m]) = KnownId(api[m])
    BY <1>5, <2>0 DEF Vanished, Phase, KnownId
  <2>2. Promise!Vanish(m)
    BY <1>1, <2>1, PromiseActions
  <2> QED
    BY <2>2 DEF Promise!Next
<1>6. CASE Written(m) /\ Released(m)
  <2>0. api[m].exists /\ api[m].deleting /\ DatabaseOf(api[m].status.id) = {}
    BY <1>6, WrittenFacts DEF SInv
  <2>1. /\ Phase(api[m]) = "deleting" /\ Phase(api'[m]) = "absent"
        /\ KnownId(api'[m]) = NoId
        /\ {x \in RecordsNow : x.id = KnownId(api[m])} = {}
    BY <1>6, <2>0, RecordsOf DEF Released, Phase, KnownId
  <2>2. Promise!Finish(m)
    BY <1>1, <2>1, PromiseActions
  <2> QED
    BY <2>2 DEF Promise!Next
<1>7. CASE Edited(m) \/ (Written(m) /\ Guarded(m))
  BY <1>2, <1>7 DEF Edited, Guarded, SameSpec, Phase, KnownId
<1>8. CASE Written(m) /\ Reported(m)
  <2>1. api[m].exists /\ ~api[m].deleting
    BY <1>8, ReportFacts
  <2>2. /\ Phase(api'[m]) = Phase(api[m])
        /\ KnownId(api[m]) = api[m].status.id /\ KnownId(api'[m]) = job.obj.status.id
    BY <1>8, <2>1 DEF Reported, SameSpec, Phase, KnownId
  <2>3. CASE job.obj.status.id = api[m].status.id
    BY <1>2, <2>2, <2>3
  <2>4. CASE job.obj.status.id # api[m].status.id
    <3>1. PICK id \in Ids : Promise!Record(m, id)
      BY <1>1, <1>8, <2>2, <2>4, ReportRecords
    <3> QED
      BY <3>1 DEF Promise!Next
  <2> QED
    BY <2>3, <2>4
<1> QED
  BY <1>3, <1>4, <1>5, <1>6, <1>7, <1>8 DEF UserMoved, Written

LEMMA DataImplements ==
    ASSUME SInv, DataMoves, api' = api
    PROVE  Promise!Next \/ Unseen
<1>0. IInv /\ StoreTypeOK
  BY InvTypes DEF SInv
<1>1. PhaseNow' = PhaseNow /\ KnownNow' = KnownNow
  BY DEF PhaseNow, KnownNow
<1>2. ASSUME NEW n \in Names, NEW c \in Content, NEW id \in Ids, Insert(n, c, id)
      PROVE  Promise!Next
  <2>1. PICK new \in Database : /\ new.id = id /\ new.owner = n
                                /\ databases' = databases \cup {new}
    BY <1>0, <1>2, InsertEffect
  <2>2. RecordsNow' = RecordsNow \cup {[id |-> id, owner |-> n]}
    BY <2>1 DEF RecordsNow, RecordOf
  <2>3. id \notin used /\ used' = used \cup {id}
    BY <1>2 DEF Insert
  <2>4. Promise!Appear(n, id)
    BY <1>1, <2>2, <2>3, PromiseAppears
  <2> QED
    BY <2>4 DEF Promise!Next
<1>3. ASSUME NEW d \in databases, NEW new \in Database, Rewrite(d, new), new.id = d.id,
             new.owner = d.owner, used' = used
      PROVE  Unseen
  BY <1>1, <1>3, RewrittenRecords DEF Unseen
<1>4. ASSUME NEW id, Removes(id), used' = used PROVE Promise!Next \/ Unseen
  <2>1. RecordsNow' = RecordsNow \ {x \in RecordsNow : x.id = id}
    BY <1>4, RemovedRecords DEF Removes
  <2>2. CASE DatabaseOf(id) = {}
    BY <1>1, <1>4, <2>1, <2>2, RecordsOf DEF Unseen
  <2>3. CASE OutOfBand /\ id \in Ids
    <3>1. Promise!Lose(id)
      BY <1>1, <1>4, <2>1, <2>3, PromiseLoses
    <3> QED
      BY <2>3, <3>1 DEF Promise!Next
  <2>4. CASE Doomed(id) /\ DatabaseOf(id) # {}
    <3>1. id \in Ids
      BY <1>0, <2>4 DEF DatabaseOf, StoreTypeOK
    <3>2. PICK n \in Names : api[n].exists /\ api[n].deleting /\ api[n].status.id = id
      BY <2>4, <3>1 DEF SInv, DoomedDead
    <3>3. PhaseNow[n] = "deleting" /\ KnownNow[n] = id
      BY <3>2 DEF PhaseNow, KnownNow, Phase, KnownId
    <3>4. Promise!Erase(n)
      BY <1>1, <1>4, <2>1, <3>3, PromiseActions
    <3> QED
      BY <3>4 DEF Promise!Next
  <2>5. pc = "deleteRemote" => job.obj.deleting
    BY <1>0 DEF IInv, JobOK, DeleteSteps
  <2> QED
    BY <1>4, <2>2, <2>3, <2>4, <2>5 DEF Removes, Doomed
<1>5. CASE UNCHANGED <<databases, used>>
  BY <1>1, <1>5 DEF Unseen, RecordsNow
<1> QED
  BY <1>2, <1>3, <1>4, <1>5 DEF DataMoves

LEMMA InitImplements == Init => Promise!Init
<1> SUFFICES ASSUME Init PROVE Promise!Init
  OBVIOUS
<1>1. \A n \in Names : ~api[n].exists
  BY DEF Init, KubeInit, NeverCreated
<1>2. databases = {} /\ used = {}
  BY DEF Init
<1>3. /\ [n \in Names |-> Phase(api[n])] = [n \in Names |-> "absent"]
      /\ [n \in Names |-> IF api[n].exists THEN api[n].status.id ELSE NoId]
            = [n \in Names |-> NoId]
  BY <1>1 DEF Phase
<1>4. {[id |-> r.id, owner |-> r.owner] : r \in databases} = {}
  BY <1>2
<1> QED
  BY <1>2, <1>3, <1>4, Zenon DEF Promise!Init

LEMMA NextImplements == SInv /\ [Next]_vars => [Promise!Next]_Promise!vars
<1> SUFFICES ASSUME SInv, [Next]_vars PROVE Promise!Next \/ Unseen
  BY UnseenStutters
<1>1. Moves /\ DataMoves
  BY NextMoves, MovesData DEF SInv, IInv
<1>2. CASE ObjectMoves
  BY <1>2, ObjectsImplement DEF ObjectMoves
<1>3. CASE api' = api
  BY <1>1, <1>3, DataImplements
<1> QED
  BY <1>1, <1>2, <1>3 DEF Moves, WorkerMoves, ServerMoves

\* The loop implements RecordSync, for any number of objects, edits and faults: a
\* database is created under an ID no object has, recorded by its own object, kept
\* until that is being deleted, and deleted before it is gone.
THEOREM DatabaseImplementsSync == Spec => Implements
<1>1. Init => Promise!Init
  BY InitImplements
<1>2. SInv /\ [Next]_vars => [Promise!Next]_Promise!vars
  BY NextImplements
<1> QED
  BY <1>1, <1>2, DatabaseSyncInvariant, PTL DEF Spec, Implements, Promise!Spec
=============================================================================
