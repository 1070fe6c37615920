----------------------------- MODULE RecordSync -----------------------------
(***************************************************************************)
(* What a controller promises about a custom resource and the record it    *)
(* keeps for it in databasus, without queues, caches, versions, Secrets or *)
(* retries.  ResourceController and DatabaseBackupController implement it  *)
(* (their Implements), and so do two processes at once (Replicas).         *)
(*                                                                         *)
(* A record and the ID that names it come apart in two places, and the     *)
(* promise says where: a record appears before any object names it         *)
(* (Appear), and the object may be gone, or name another one, by then; and *)
(* a stranger may take a named record away (Lose).                         *)
(***************************************************************************)
EXTENDS Naturals

CONSTANTS
    Names,      \* the objects
    Ids,        \* the IDs databasus can hand out
    NoId,       \* no ID
    OutOfBand   \* whether strangers delete records

VARIABLES
    phase,      \* phase[n]: "absent", "live" or "deleting"
    known,      \* known[n]: the ID the object n names
    records,    \* the records in databasus, an ID and an owner each
    issued      \* the IDs databasus has handed out

vars == <<phase, known, records, issued>>

Init ==
    /\ phase = [n \in Names |-> "absent"]
    /\ known = [n \in Names |-> NoId]
    /\ records = {}
    /\ issued = {}

Of(id) == {r \in records : r.id = id}

Create(n) ==
    /\ phase[n] = "absent"
    /\ phase' = [phase EXCEPT ![n] = "live"]
    /\ UNCHANGED <<known, records, issued>>

\* An object the controller has a finalizer on is only marked.
Mark(n) ==
    /\ phase[n] = "live"
    /\ phase' = [phase EXCEPT ![n] = "deleting"]
    /\ UNCHANGED <<known, records, issued>>

\* Only an object that names no record goes away unseen.
Vanish(n) ==
    /\ phase[n] = "live" /\ known[n] = NoId
    /\ phase' = [phase EXCEPT ![n] = "absent"]
    /\ UNCHANGED <<known, records, issued>>

Appear(n, id) ==
    /\ id \in Ids \ issued
    /\ records' = records \cup {[id |-> id, owner |-> n]}
    /\ issued' = issued \cup {id}
    /\ UNCHANGED <<phase, known>>

\* A live object that names no record comes to name one of its own.
Record(n, id) ==
    /\ phase[n] = "live" /\ known[n] = NoId
    /\ id \in issued
    /\ \A m \in Names : known[m] # id
    /\ \A r \in Of(id) : r.owner = n
    /\ known' = [known EXCEPT ![n] = id]
    /\ UNCHANGED <<phase, records, issued>>

\* The controller deletes only the record that an object being deleted names.
Erase(n) ==
    /\ phase[n] = "deleting"
    /\ records' = records \ Of(known[n])
    /\ UNCHANGED <<phase, known, issued>>

Lose(id) ==
    /\ OutOfBand
    /\ records' = records \ Of(id)
    /\ UNCHANGED <<phase, known, issued>>

\* An object being deleted goes away when the record it names has.
Finish(n) ==
    /\ phase[n] = "deleting" /\ Of(known[n]) = {}
    /\ phase' = [phase EXCEPT ![n] = "absent"]
    /\ known' = [known EXCEPT ![n] = NoId]
    /\ UNCHANGED <<records, issued>>

Next ==
    \/ \E n \in Names :
          \/ Create(n) \/ Mark(n) \/ Vanish(n) \/ Erase(n) \/ Finish(n)
          \/ \E id \in Ids : Appear(n, id) \/ Record(n, id)
    \/ \E id \in Ids : Lose(id)

Spec == Init /\ [][Next]_vars
=============================================================================
