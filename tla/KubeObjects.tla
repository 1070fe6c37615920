---------------------------- MODULE KubeObjects ----------------------------
(***************************************************************************)
(* The Kubernetes side of one controller: the objects of one kind in the   *)
(* API server, the informer cache the manager's client reads them from,    *)
(* and the work queue that feeds the reconciler.  None of this code is in  *)
(* the repository; it is modelled from how the reconcilers use it          *)
(* (r.Get, r.Update, r.Status().Update, ctrl.Result, For(...)).            *)
(*                                                                         *)
(*   - every write gives the object the next resourceVersion and sends one *)
(*     watch event; the cache applies the events of an object in order;    *)
(*   - r.Update and r.Status().Update carry the resourceVersion that was   *)
(*     read: they fail with a conflict when the object has moved on;       *)
(*   - For(&Kind{}) has no predicate, so every event, those of the         *)
(*     controller's own writes included, puts the object's key in the      *)
(*     queue.  The queue holds a key at most once.                         *)
(***************************************************************************)
EXTENDS Naturals, Sequences

CONSTANTS
    Names,      \* the keys (namespace/name) of the objects of this kind
    Specs,      \* what .spec may say, up to what the properties tell apart
    MaxEdits    \* bound on what users do in a behaviour

ASSUME KubeAssumption ==
    /\ Names # {}
    /\ Specs # {}
    /\ MaxEdits \in Nat

VARIABLES
    api,        \* api[n]: the object n as the API server stores it
    cache,      \* cache[n]: the object n as the manager's cache shows it
    pending,    \* pending[n]: watch events of n the cache has not applied yet
    queue,      \* keys in the work queue
    delayed,    \* keys that come back by a RequeueAfter timer or an error backoff
    edits       \* how many things users have done

kubeVars == <<api, cache, pending, queue, delayed, edits>>

(***************************************************************************)
(* An object.  A deleted object leaves a tombstone (exists = FALSE) that   *)
(* keeps its last state, as the DELETED watch event does; a later object   *)
(* of that name continues its resourceVersions.                            *)
(***************************************************************************)
ObjectsWith(Statuses) ==
    [exists : BOOLEAN, rv : Nat, gen : Nat, spec : Specs,
     deleting : BOOLEAN, finalizer : BOOLEAN, status : Statuses]

NeverCreated(noStatus) ==
    [exists |-> FALSE, rv |-> 0, gen |-> 0, spec |-> CHOOSE s \in Specs : TRUE,
     deleting |-> FALSE, finalizer |-> FALSE, status |-> noStatus]

KubeInit(noStatus) ==
    /\ api = [n \in Names |-> NeverCreated(noStatus)]
    /\ cache = api
    /\ pending = [n \in Names |-> <<>>]
    /\ queue = {}
    /\ delayed = {}
    /\ edits = 0

\* The API server stores o as the next version of n and emits its watch event.
Store(n, o) ==
    LET stored == [o EXCEPT !.rv = api[n].rv + 1]
    IN  /\ api' = [api EXCEPT ![n] = stored]
        /\ pending' = [pending EXCEPT ![n] = Append(@, stored)]

\* A write that carries the version of o is accepted.
Current(n, o) == api[n].exists /\ api[n].rv = o.rv

(***************************************************************************)
(* Users.                                                                  *)
(***************************************************************************)
CreateObject(n, s, noStatus) ==
    /\ ~api[n].exists
    /\ edits < MaxEdits
    /\ edits' = edits + 1
    /\ Store(n, [exists |-> TRUE, rv |-> 0, gen |-> 1, spec |-> s,
                 deleting |-> FALSE, finalizer |-> FALSE, status |-> noStatus])
    /\ UNCHANGED <<cache, queue, delayed>>

EditSpec(n, s) ==
    /\ api[n].exists
    /\ api[n].spec # s
    /\ edits < MaxEdits
    /\ edits' = edits + 1
    /\ Store(n, [api[n] EXCEPT !.spec = s, !.gen = @ + 1])
    /\ UNCHANGED <<cache, queue, delayed>>

\* kubectl delete: an object with a finalizer is only marked.
DeleteObject(n) ==
    /\ api[n].exists
    /\ ~api[n].deleting
    /\ edits < MaxEdits
    /\ edits' = edits + 1
    /\ \/ /\ api[n].finalizer
          /\ Store(n, [api[n] EXCEPT !.deleting = TRUE, !.gen = @ + 1])
       \/ /\ ~api[n].finalizer
          /\ Store(n, [api[n] EXCEPT !.exists = FALSE])
    /\ UNCHANGED <<cache, queue, delayed>>

(***************************************************************************)
(* What a reconciler's writes do when they are accepted.                   *)
(***************************************************************************)
StoreFinalizer(n) == Store(n, [api[n] EXCEPT !.finalizer = TRUE])

\* An object being deleted goes away with its last finalizer.
DropFinalizer(n) ==
    Store(n, [api[n] EXCEPT !.finalizer = FALSE, !.exists = FALSE])

\* A status write that changes nothing stores no version and emits no event.
StoreStatus(n, status) ==
    \/ /\ api[n].status # status
       /\ Store(n, [api[n] EXCEPT !.status = status])
    \/ /\ api[n].status = status
       /\ UNCHANGED <<api, pending>>

(***************************************************************************)
(* The manager: watch events, timers, the informer's periodic resync and   *)
(* the list a new manager starts from.                                     *)
(***************************************************************************)
DeliverEvent(n) ==
    /\ pending[n] # <<>>
    /\ cache' = [cache EXCEPT ![n] = Head(pending[n])]
    /\ pending' = [pending EXCEPT ![n] = Tail(@)]
    /\ queue' = queue \cup {n}
    /\ UNCHANGED <<api, delayed, edits>>

FireTimer(n) ==
    /\ n \in delayed
    /\ delayed' = delayed \ {n}
    /\ queue' = queue \cup {n}
    /\ UNCHANGED <<api, cache, pending, edits>>

Resync(n) ==
    /\ cache[n].exists
    /\ n \notin queue
    /\ queue' = queue \cup {n}
    /\ UNCHANGED <<api, cache, pending, delayed, edits>>

Relist ==
    /\ cache' = api
    /\ pending' = [n \in Names |-> <<>>]
    /\ queue' = {n \in Names : api[n].exists}
    /\ delayed' = {}
    /\ UNCHANGED <<api, edits>>
=============================================================================
