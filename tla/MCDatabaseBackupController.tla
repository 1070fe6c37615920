-------------------- MODULE MCDatabaseBackupController --------------------
(***************************************************************************)
(* DatabaseBackupController for TLC: model values come from the .cfg files.*)
(*                                                                         *)
(* Recovery after an edit is about objects that have been created and      *)
(* synced before.  RecoverySpec starts there as well, so that every edit   *)
(* the bound allows is left for what comes after.                          *)
(***************************************************************************)
EXTENDS DatabaseBackupController

CONSTANTS n1, plain, checked, broken, wal, c1, c2, id1, id2, id3, dep1, dep2

\* A quiet system in which every object is o, and what it refers to is there.
Quiet(o, timers, rows) ==
    /\ api = [n \in Names |-> o]
    /\ cache = api
    /\ pending = [n \in Names |-> <<>>]
    /\ queue = {}
    /\ delayed = timers
    /\ edits = 0
    /\ pc = "idle"
    /\ job = NoJob
    /\ databases = rows
    /\ used = {d.id : d \in databases}
    /\ late = {}
    /\ disturbed = {}
    /\ deps = [k \in Kinds |-> [id |-> dep1, ready |-> TRUE]]
    /\ secret = [n \in Names |-> c1]
    /\ faults = 0

NotCreated == Quiet(NeverCreated(NoStatus), {}, {})

\* After create, finalizer and the two status updates of a pass: the database has
\* its config and its check, and the next poll is due.
SyncedObject ==
    Quiet([exists |-> TRUE, rv |-> 3, gen |-> 1, spec |-> checked, deleting |-> FALSE,
           finalizer |-> TRUE,
           status |-> [id |-> id1, reason |-> "Synced", condGen |-> 1, obsGen |-> 1,
                       health |-> ""]],
          Names,
          {[id |-> id1, owner |-> n1,
            content |-> [spec |-> checked, password |-> c1, ssl |-> c1, notifier |-> dep1],
            config |-> [spec |-> checked, storage |-> dep1],
            check |-> checked, health |-> ""]})

RecoverySpec == (NotCreated \/ SyncedObject) /\ [][Next]_vars /\ Fairness
=============================================================================
