----------------------------- MODULE ApiClient -----------------------------
(***************************************************************************)
(* The HTTP client of the operator: how each method turns the status and   *)
(* the body of a reply into a result.  One caller repeats one call until   *)
(* it succeeds, as a reconcile loop does, against a server that holds at   *)
(* most one record and a network that may lose the request or the reply.   *)
(*                                                                         *)
(* The controllers' modules treat a call as one step with three ends (done,*)
(* refused, given up); what is checked here is that the client's decisions *)
(* support that view.                                                      *)
(*                                                                         *)
(* Abstracted: a body is the class the code tells apart; a record is the   *)
(* content last written to it.                                             *)
(***************************************************************************)
EXTENDS Naturals

CONSTANTS
    Contents,    \* what a caller may write
    Absent,      \* no record
    MaxFaults    \* bound on faults of the network and refusals of the server

ASSUME ApiClientAssumption == Absent \notin Contents /\ MaxFaults \in Nat

VARIABLES
    method,      \* the method the caller repeats
    content,     \* what it writes
    record,      \* the server's record
    phase,       \* where the call is
    reply,       \* the reply on its way back
    result,      \* what the method returned last
    faults

vars == <<method, content, record, phase, reply, result, faults>>

(***************************************************************************)
(* Replies and results.                                                    *)
(***************************************************************************)
Statuses == {200, 201, 204, 400, 401, 404, 500, 502}

\* A JSON record, an error whose text says "record not found", any other JSON
\* error, no body, or something that is not JSON.
Bodies == {"record", "notFound", "error", "none", "html"}

NoReply == [status |-> 0, body |-> "none"]

Reply == [status : Statuses, body : Bodies] \cup {NoReply}

\* What a method returns: a value, nil without an error, or an error.
Results == {"none", "value", "nil", "requestError", "apiError", "decodeError"}

Succeeded(res) == res \in {"value", "nil"}

(***************************************************************************)
(* do: an error of the transport or of reading the body has no status.     *)
(***************************************************************************)
Failed(r) == r = NoReply

\* Mutant: only the status is looked at.
isNotFoundByStatus(r) == r.status = 404

\* Mutant: every 400 counts.
isNotFoundByClass(r) == r.status \in {400, 404}

isNotFound(r) ==
    \/ r.status = 404
    \/ r.status = 400 /\ r.body = "notFound"

\* Unmarshal into a record: an error body decodes too, to a record without ID.
Decode(r) == IF r.body \in {"none", "html"} THEN "decodeError" ELSE "value"

\* A method that writes: every status but the accepted ones is an error.
Write(accepted, r) ==
    IF Failed(r) THEN "requestError"
    ELSE IF r.status \notin accepted THEN "apiError"
    ELSE Decode(r)

\* A method that reads: absence is nil without an error.
Read(r) ==
    IF Failed(r) THEN "requestError"
    ELSE IF isNotFound(r) THEN "nil"
    ELSE IF r.status # 200 THEN "apiError"
    ELSE Decode(r)

\* A method that deletes: absence is success.
Erase(r) ==
    IF Failed(r) THEN "requestError"
    ELSE IF r.status \notin {200, 204} /\ ~isNotFound(r) THEN "apiError"
    ELSE "nil"

SaveStorage(r)           == Write({200}, r)
GetStorage(r)            == Read(r)
DeleteStorage(r)         == Erase(r)
SaveNotifier(r)          == Write({200}, r)
GetNotifier(r)           == Read(r)
DeleteNotifier(r)        == Erase(r)
CreateDatabase(r)        == Write({200, 201}, r)
UpdateDatabase(r)        == Write({200}, r)
GetDatabase(r)           == Read(r)
DeleteDatabase(r)        == Erase(r)
SaveBackupConfig(r)      == Write({200}, r)
GetBackupConfig(r)       == Read(r)
SaveHealthcheckConfig(r) == Write({200}, r)
GetHealthcheckConfig(r)  == Read(r)

Call(m, r) ==
    CASE m = "SaveStorage"           -> SaveStorage(r)
      [] m = "GetStorage"            -> GetStorage(r)
      [] m = "DeleteStorage"         -> DeleteStorage(r)
      [] m = "SaveNotifier"          -> SaveNotifier(r)
      [] m = "GetNotifier"           -> GetNotifier(r)
      [] m = "DeleteNotifier"        -> DeleteNotifier(r)
      [] m = "CreateDatabase"        -> CreateDatabase(r)
      [] m = "UpdateDatabase"        -> UpdateDatabase(r)
      [] m = "GetDatabase"           -> GetDatabase(r)
      [] m = "DeleteDatabase"        -> DeleteDatabase(r)
      [] m = "SaveBackupConfig"      -> SaveBackupConfig(r)
      [] m = "GetBackupConfig"       -> GetBackupConfig(r)
      [] m = "SaveHealthcheckConfig" -> SaveHealthcheckConfig(r)
      [] m = "GetHealthcheckConfig"  -> GetHealthcheckConfig(r)

Reads == {"GetStorage", "GetNotifier", "GetDatabase", "GetBackupConfig",
          "GetHealthcheckConfig"}

Deletes == {"DeleteStorage", "DeleteNotifier", "DeleteDatabase"}

Writes == {"SaveStorage", "SaveNotifier", "CreateDatabase", "UpdateDatabase",
           "SaveBackupConfig", "SaveHealthcheckConfig"}

Methods == Reads \cup Deletes \cup Writes

(***************************************************************************)
(* The server.  What it answers for an absent record is what the contract  *)
(* tests found; CreateDatabase alone makes a new record here (SaveStorage  *)
(* and SaveNotifier without an ID do the same).                            *)
(***************************************************************************)
Init ==
    /\ method \in Methods
    /\ content \in Contents
    /\ record \in Contents \cup {Absent}
    /\ phase = "idle"
    /\ reply = NoReply
    /\ result = "none"
    /\ faults = 0

Answer(status, body) == reply' = [status |-> status, body |-> body]

Creating == method \in {"CreateDatabase", "SaveStorage", "SaveNotifier"}

ServeWrite ==
    /\ method \in Writes
    /\ \/ /\ Creating \/ record # Absent
          /\ record' = content
          /\ Answer(200, "record") \/ (method = "CreateDatabase" /\ Answer(201, "record"))
       \/ /\ record = Absent
          /\ UNCHANGED record
          /\ Answer(400, "notFound")

ServeRead ==
    /\ method \in Reads
    /\ UNCHANGED record
    /\ \/ record # Absent /\ Answer(200, "record")
       \/ record = Absent /\ (Answer(400, "notFound") \/ Answer(404, "error"))

ServeDelete ==
    /\ method \in Deletes
    /\ record' = Absent
    /\ \/ record # Absent /\ (Answer(200, "record") \/ Answer(204, "none"))
       \/ record = Absent /\ (Answer(400, "notFound") \/ Answer(404, "error"))

\* An invalid request, an expired token, an internal error.
Refuse ==
    /\ UNCHANGED record
    /\ \E s \in {400, 401, 500} : Answer(s, "error")

Serve ==
    /\ phase = "sent"
    /\ phase' = "answered"
    /\ \/ /\ ServeWrite \/ ServeRead \/ ServeDelete
          /\ UNCHANGED faults
       \/ /\ faults < MaxFaults
          /\ faults' = faults + 1
          /\ Refuse
    /\ UNCHANGED <<method, content, result>>

(***************************************************************************)
(* The network loses the request or the reply, or a gateway answers for a  *)
(* server it cannot reach.  (That a 200 or a 404 comes from databasus and  *)
(* from nobody else is assumed: a delete looks no further than those.)     *)
(***************************************************************************)
\* Mutant: the error of do is dropped, and a reply without status is kept.
LoseSilently ==
    /\ phase \in {"sent", "answered"}
    /\ faults < MaxFaults
    /\ faults' = faults + 1
    /\ phase' = "answered"
    /\ Answer(0, "html")
    /\ UNCHANGED <<method, content, record, result>>

Lose ==
    /\ phase \in {"sent", "answered"}
    /\ faults < MaxFaults
    /\ faults' = faults + 1
    /\ phase' = "answered"
    /\ reply' = NoReply \/ Answer(502, "html")
    /\ UNCHANGED <<method, content, record, result>>

(***************************************************************************)
(* The caller.                                                             *)
(***************************************************************************)
Send ==
    /\ phase = "idle"
    /\ ~Succeeded(result)
    /\ phase' = "sent"
    /\ UNCHANGED <<method, content, record, reply, result, faults>>

Decide ==
    /\ phase = "answered"
    /\ phase' = "idle"
    /\ result' = Call(method, reply)
    /\ reply' = NoReply
    /\ UNCHANGED <<method, content, record, faults>>

Next == Send \/ Serve \/ Lose \/ Decide

Spec == Init /\ [][Next]_vars

FairSpec == Spec /\ WF_vars(Send) /\ WF_vars(Serve) /\ WF_vars(Decide)

(***************************************************************************)
(* Properties.                                                             *)
(***************************************************************************)
\* Every variable has its type.
TypeOK ==
    /\ method \in Methods
    /\ content \in Contents
    /\ record \in Contents \cup {Absent}
    /\ phase \in {"idle", "sent", "answered"}
    /\ reply \in Reply
    /\ result \in Results
    /\ faults \in Nat

\* Success is never claimed for what did not happen.
ResultIsTruth ==
    /\ method \in Writes /\ result = "value" => record = content
    /\ method \in Deletes /\ result = "nil" => record = Absent
    /\ method \in Reads /\ result = "nil" => record = Absent
    /\ method \in Reads /\ result = "value" => record # Absent

\* docs/ROADMAP.md: "the Delete methods treat not-found as success so finalizers
\* cannot wedge": a delete that is repeated ends, also when an earlier attempt
\* took effect and only its reply was lost.
DeleteEnds == method \in Deletes => <>Succeeded(result)
=============================================================================
