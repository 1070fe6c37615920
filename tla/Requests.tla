------------------------------ MODULE Requests ------------------------------
(***************************************************************************)
(* How a reconcile pass makes the request it sends from the spec of an     *)
(* object: buildStorageRequest, buildNotifierRequest and, for a database,  *)
(* resolveDatabasePassword, resolvePostgresSsl and buildDatabaseRequest.   *)
(* Every reference is a read of its own, in the order of the code, while   *)
(* users change the Secrets.  The controllers' modules take one spec for   *)
(* all types and one Secret for all references; what that hides is here.   *)
(*                                                                         *)
(* A spec names a type and may hold the sections of several: the CRDs do   *)
(* not tie the two together, and an edit of the type leaves the section of *)
(* the old one behind.                                                     *)
(*                                                                         *)
(* Abstracted: a section is the type it belongs to and its references; the *)
(* fields that are copied as they are, are left out.  Every reference      *)
(* names a key of its own, whose Secret is missing or not with the key.  A *)
(* webhook has two headers.                                                *)
(***************************************************************************)
EXTENDS Naturals, Sequences

CONSTANTS
    Values,     \* what a key of a Secret may hold
    Missing,    \* the key, or its Secret, does not exist
    Literal,    \* the value a webhook header without a reference has in the spec
    Nothing,    \* a field that is not sent
    MaxEdits    \* bound on changes of Secrets

ASSUME RequestsAssumption ==
    /\ Missing \notin Values \cup {Literal, Nothing}
    /\ MaxEdits \in Nat

VARIABLES
    object,     \* the copy of the object the pass works from
    secret,     \* secret[f]: what the key that field f refers to holds
    held,       \* held[f]: everything it has held since the pass began
    step,       \* where the pass is, or how it has ended
    next,       \* the reference it reads next
    values,     \* values[f]: what has been resolved for field f
    request,    \* what is sent
    edits

vars == <<object, secret, held, step, next, values, request, edits>>

(***************************************************************************)
(* Types, and what their sections refer to, in the order it is read.       *)
(***************************************************************************)
StorageTypes ==
    {"LOCAL", "S3", "GOOGLE_DRIVE", "NAS", "AZURE_BLOB", "FTP", "SFTP", "RCLONE"}

NotifierTypes == {"EMAIL", "TELEGRAM", "WEBHOOK", "SLACK", "DISCORD", "TEAMS"}

DatabaseTypes == {"POSTGRES", "MYSQL", "MARIADB", "MONGODB"}

Types == StorageTypes \cup NotifierTypes \cup DatabaseTypes

\* Types whose section no builder reads: buildStorageRequest has no case for them, and
\* sends their type with a name and no settings (README.md:152 lists them as supported).
Unread == {"LOCAL", "GOOGLE_DRIVE", "NAS", "AZURE_BLOB", "FTP", "RCLONE"}

Built == Types \ Unread

Required(f) == [field |-> f, required |-> TRUE]
Optional(f) == [field |-> f, required |-> FALSE]

References(t) ==
    CASE t = "S3"       -> <<Required("accessKey"), Required("secretKey")>>
      [] t = "SFTP"     -> <<Optional("password"), Optional("privateKey")>>
      [] t = "EMAIL"    -> <<Optional("smtpPassword")>>
      [] t = "WEBHOOK"  -> <<Optional("header1"), Optional("header2")>>
      [] t \in {"TELEGRAM", "SLACK"} -> <<Required("botToken")>>
      [] t \in {"DISCORD", "TEAMS"}  -> <<Required("webhookURL")>>
      [] t = "POSTGRES" -> <<Required("password"), Optional("sslClientCert"),
                             Optional("sslClientKey"), Optional("sslRootCert")>>
      [] t \in DatabaseTypes \ {"POSTGRES"} -> <<Required("password")>>
      [] t \in Unread -> <<>>

Fields(t) == {References(t)[i].field : i \in DOMAIN References(t)}

OptionalFields(t) ==
    {References(t)[i].field : i \in {j \in DOMAIN References(t) : ~References(t)[j].required}}

\* refs: the optional references of the type's section that are there;
\* physical: the postgresql section says WAL_V1.
Objects ==
    UNION {[type : {t}, sections : SUBSET {t, u}, refs : SUBSET OptionalFields(t),
            physical : BOOLEAN] : t \in Types, u \in Types}

Valid(o) ==
    /\ \E kind \in {StorageTypes, NotifierTypes, DatabaseTypes} :
          o.type \in kind /\ o.sections \subseteq kind
    /\ o.physical => "POSTGRES" \in o.sections

Init ==
    /\ object \in {o \in Objects : Valid(o)}
    /\ secret \in [Fields(object.type) -> Values \cup {Missing}]
    /\ held = [f \in Fields(object.type) |-> {secret[f]}]
    /\ step = "check"
    /\ next = 1
    /\ values = [f \in Fields(object.type) |-> Nothing]
    /\ request = Nothing
    /\ edits = 0

(***************************************************************************)
(* Users change Secrets.                                                   *)
(***************************************************************************)
ChangeSecret(f) ==
    /\ edits < MaxEdits
    /\ edits' = edits + 1
    /\ secret' \in {[secret EXCEPT ![f] = v] : v \in Values \cup {Missing}}
    /\ held' = [held EXCEPT ![f] = @ \cup {secret'[f]}]
    /\ UNCHANGED <<object, step, next, values, request>>

(***************************************************************************)
(* What is looked at before any reference is read: the backup type (in the *)
(* postgresql section, whatever the type), then the section of the type.   *)
(***************************************************************************)
Refused == object.type \in DatabaseTypes /\ object.physical

\* Mutant: the section of a database is not checked before it is used.
IncompleteUnlessDatabase ==
    object.type \in Built \ DatabaseTypes /\ object.type \notin object.sections

Incomplete == object.type \in Built /\ object.type \notin object.sections

Check ==
    /\ step = "check"
    /\ \/ Refused /\ step' = "refused"
       \/ ~Refused /\ Incomplete /\ step' = "failed"
       \/ ~Refused /\ ~Incomplete /\ step' = "read"
    /\ UNCHANGED <<object, secret, held, next, values, request, edits>>

(***************************************************************************)
(* resolveSecretRef and getSecretValue, one reference after the other.     *)
(***************************************************************************)
Reference == References(object.type)[next]

Reading == step = "read" /\ next <= Len(References(object.type))

\* Is the reference in the object?
Refers(r) == r.required \/ r.field \in object.refs

Resolved(v) ==
    /\ next' = next + 1
    /\ values' = [values EXCEPT ![Reference.field] = v]
    /\ UNCHANGED step

\* Mutant: a missing key reads as the zero value of the map, and is sent.
ReadReferenceUnchecked ==
    /\ Reading /\ Refers(Reference)
    /\ Resolved(secret[Reference.field])
    /\ UNCHANGED <<object, secret, held, request, edits>>

ReadReference ==
    /\ Reading /\ Refers(Reference)
    /\ \/ /\ secret[Reference.field] # Missing
          /\ Resolved(secret[Reference.field])
       \/ /\ secret[Reference.field] = Missing
          /\ step' = "failed"
          /\ UNCHANGED <<next, values>>
    /\ UNCHANGED <<object, secret, held, request, edits>>

\* A header has a value instead; the other fields are not sent.
WithoutReference == IF object.type = "WEBHOOK" THEN Literal ELSE Nothing

\* Mutant: an optional reference that is not there is read all the same.
SkipReferenceNever ==
    /\ Reading /\ ~Refers(Reference)
    /\ \/ /\ secret[Reference.field] # Missing
          /\ Resolved(secret[Reference.field])
       \/ /\ secret[Reference.field] = Missing
          /\ step' = "failed"
          /\ UNCHANGED <<next, values>>
    /\ UNCHANGED <<object, secret, held, request, edits>>

SkipReference ==
    /\ Reading /\ ~Refers(Reference)
    /\ Resolved(WithoutReference)
    /\ UNCHANGED <<object, secret, held, request, edits>>

(***************************************************************************)
(* The request.  buildDatabaseRequest uses the section of the type without *)
(* a look: without one the process would panic.                            *)
(***************************************************************************)
TypeSent(t) == IF t = "POSTGRES" THEN "POSTGRES_LOGICAL" ELSE t

Panics == object.type \in DatabaseTypes \ object.sections

Request ==
    [type |-> TypeSent(object.type), sections |-> {object.type} \cap Built,
     values |-> values]

Build ==
    /\ step = "read" /\ ~Reading
    /\ IF Panics THEN step' = "panic" /\ UNCHANGED request
                 ELSE step' = "sent" /\ request' = Request
    /\ UNCHANGED <<object, secret, held, next, values, edits>>

Next ==
    \/ \E f \in Fields(object.type) : ChangeSecret(f)
    \/ Check
    \/ ReadReference
    \/ SkipReference
    \/ Build

Spec == Init /\ [][Next]_vars

(***************************************************************************)
(* Properties.                                                             *)
(***************************************************************************)
TypeOK ==
    /\ object \in Objects
    /\ secret \in [Fields(object.type) -> Values \cup {Missing}]
    /\ held \in [Fields(object.type) -> SUBSET (Values \cup {Missing})]
    /\ step \in {"check", "read", "refused", "failed", "panic", "sent"}
    /\ next \in 1..5
    /\ values \in [Fields(object.type) -> Values \cup {Literal, Nothing}]
    /\ request = Nothing \/ request.values = values
    /\ edits \in 0..MaxEdits

\* Every value that is sent is one its key held while the request was made, never
\* the empty string of a key that was not there; and nothing is read that the
\* object does not refer to.
SentWasHeld ==
    step = "sent" =>
       \A i \in DOMAIN References(object.type) :
          LET r == References(object.type)[i] IN
          IF Refers(r) THEN request.values[r.field] \in held[r.field] \ {Missing}
                       ELSE request.values[r.field] = WithoutReference

\* A pass fails only for a reason of its own type: a section that is missing, or a
\* key the object refers to that was missing at some moment of the pass.  A stale
\* section, or the missing key of a reference it does not have, is no obstacle.
FailureHasCause ==
    step = "failed" =>
       \/ object.type \notin object.sections
       \/ \E f \in Fields(object.type) :
             /\ Missing \in held[f]
             /\ f \in OptionalFields(object.type) => f \in object.refs

\* buildDatabaseRequest is safe: resolveDatabasePassword, two calls before, has
\* refused every database without the section of its type.
NeverPanics == step # "panic"
=============================================================================
