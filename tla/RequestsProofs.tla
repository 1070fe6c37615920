--------------------------- MODULE RequestsProofs ---------------------------
(***************************************************************************)
(* The request that leaves a pass, for any values of Secrets and any       *)
(* number of changes to them while the pass reads.                         *)
(***************************************************************************)
EXTENDS Requests, TLAPS

(***************************************************************************)
(* The references of a type.                                               *)
(***************************************************************************)
LEMMA KnownType ==
    ASSUME NEW o \in Objects
    PROVE  o.type \in Types
<1> DEFINE With(t, u) == [type : {t}, sections : SUBSET {t, u},
                          refs : SUBSET OptionalFields(t), physical : BOOLEAN]
<1>1. \A t, u \in Types : \A p \in With(t, u) : p.type = t
  OBVIOUS
<1>2. Objects = UNION {With(t, u) : t \in Types, u \in Types}
  BY DEF Objects
<1> HIDE DEF With
<1>3. PICK t \in Types, u \in Types : o \in With(t, u)
  BY <1>2
<1> QED
  BY <1>1, <1>3

\* What the section of each type refers to.
LEMMA ReferencesByType ==
    /\ References("S3") = <<Required("accessKey"), Required("secretKey")>>
    /\ References("SFTP") = <<Optional("password"), Optional("privateKey")>>
    /\ References("EMAIL") = <<Optional("smtpPassword")>>
    /\ References("WEBHOOK") = <<Optional("header1"), Optional("header2")>>
    /\ References("TELEGRAM") = <<Required("botToken")>>
    /\ References("SLACK") = <<Required("botToken")>>
    /\ References("DISCORD") = <<Required("webhookURL")>>
    /\ References("TEAMS") = <<Required("webhookURL")>>
    /\ References("POSTGRES") = <<Required("password"), Optional("sslClientCert"),
              Optional("sslClientKey"), Optional("sslRootCert")>>
    /\ References("MYSQL") = <<Required("password")>>
    /\ References("MARIADB") = <<Required("password")>>
    /\ References("MONGODB") = <<Required("password")>>
    /\ References("LOCAL") = <<>>
    /\ References("GOOGLE_DRIVE") = <<>>
    /\ References("NAS") = <<>>
    /\ References("AZURE_BLOB") = <<>>
    /\ References("FTP") = <<>>
    /\ References("RCLONE") = <<>>
<1>1. References("S3") = <<Required("accessKey"), Required("secretKey")>>
  BY Zenon DEF References, Unread, DatabaseTypes, Required, Optional
<1>2. References("SFTP") = <<Optional("password"), Optional("privateKey")>>
  BY Zenon DEF References, Unread, DatabaseTypes, Required, Optional
<1>3. References("EMAIL") = <<Optional("smtpPassword")>>
  BY Zenon DEF References, Unread, DatabaseTypes, Required, Optional
<1>4. References("WEBHOOK") = <<Optional("header1"), Optional("header2")>>
  BY Zenon DEF References, Unread, DatabaseTypes, Required, Optional
<1>5. /\ References("TELEGRAM") = <<Required("botToken")>>
      /\ References("SLACK") = <<Required("botToken")>>
  BY Zenon DEF References, Unread, DatabaseTypes, Required, Optional
<1>6. /\ References("DISCORD") = <<Required("webhookURL")>>
      /\ References("TEAMS") = <<Required("webhookURL")>>
  BY Zenon DEF References, Unread, DatabaseTypes, Required, Optional
<1>7. References("POSTGRES") = <<Required("password"), Optional("sslClientCert"),
              Optional("sslClientKey"), Optional("sslRootCert")>>
  BY Zenon DEF References, Unread, DatabaseTypes, Required, Optional
<1>8. /\ References("MYSQL") = <<Required("password")>>
      /\ References("MARIADB") = <<Required("password")>>
      /\ References("MONGODB") = <<Required("password")>>
  BY Zenon DEF References, Unread, DatabaseTypes, Required, Optional
<1>9. /\ References("LOCAL") = <<>>
      /\ References("GOOGLE_DRIVE") = <<>>
      /\ References("NAS") = <<>>
      /\ References("AZURE_BLOB") = <<>>
      /\ References("FTP") = <<>>
      /\ References("RCLONE") = <<>>
  BY Zenon DEF References, Unread, DatabaseTypes, Required, Optional
<1> QED
  BY <1>1, <1>2, <1>3, <1>4, <1>5, <1>6, <1>7, <1>8, <1>9

\* No two references of a type are for the same field.
Distinct(s) ==
    /\ Len(s) \in Nat
    /\ DOMAIN s = 1..Len(s)
    /\ \A i, j \in 1..Len(s) : s[i].field = s[j].field => i = j
    /\ \A i \in 1..Len(s) : s[i].required \in BOOLEAN

LEMMA DistinctTuples ==
    /\ Distinct(<<>>)
    /\ \A a : a.required \in BOOLEAN => Distinct(<<a>>)
    /\ \A a, b : /\ a.required \in BOOLEAN /\ b.required \in BOOLEAN
                /\ a.field # b.field
                => Distinct(<<a, b>>)
    /\ \A a, b, c, d :
          /\ a.required \in BOOLEAN /\ b.required \in BOOLEAN
          /\ c.required \in BOOLEAN /\ d.required \in BOOLEAN
          /\ a.field # b.field /\ a.field # c.field /\ a.field # d.field
          /\ b.field # c.field /\ b.field # d.field /\ c.field # d.field
          => Distinct(<<a, b, c, d>>)
<1>1. Distinct(<<>>)
  BY DEF Distinct
<1>2. ASSUME NEW a, a.required \in BOOLEAN PROVE Distinct(<<a>>)
  BY <1>2 DEF Distinct
<1>3. ASSUME NEW a, NEW b, a.required \in BOOLEAN, b.required \in BOOLEAN, a.field # b.field
      PROVE  Distinct(<<a, b>>)
  BY <1>3 DEF Distinct
<1>4. ASSUME NEW a, NEW b, NEW c, NEW d,
             a.required \in BOOLEAN, b.required \in BOOLEAN,
             c.required \in BOOLEAN, d.required \in BOOLEAN,
             a.field # b.field, a.field # c.field, a.field # d.field,
             b.field # c.field, b.field # d.field, c.field # d.field
      PROVE  Distinct(<<a, b, c, d>>)
  BY <1>4 DEF Distinct
<1> QED
  BY <1>1, <1>2, <1>3, <1>4

LEMMA ReferencesDistinct ==
    ASSUME NEW t \in Types
    PROVE  Distinct(References(t))
<1>1. \A f : /\ Required(f).field = f /\ Required(f).required \in BOOLEAN
            /\ Optional(f).field = f /\ Optional(f).required \in BOOLEAN
  BY DEF Required, Optional
<1>2. \A f : Distinct(<<Required(f)>>) /\ Distinct(<<Optional(f)>>)
  BY <1>1, DistinctTuples
<1>3. /\ Distinct(<<Required("accessKey"), Required("secretKey")>>)
      /\ Distinct(<<Optional("password"), Optional("privateKey")>>)
      /\ Distinct(<<Optional("header1"), Optional("header2")>>)
  BY <1>1, DistinctTuples
<1>4. Distinct(<<Required("password"), Optional("sslClientCert"),
                 Optional("sslClientKey"), Optional("sslRootCert")>>)
  BY <1>1, DistinctTuples
<1> QED
  BY <1>2, <1>3, <1>4, ReferencesByType, DistinctTuples
  DEF Types, StorageTypes, NotifierTypes, DatabaseTypes

LEMMA ReferencesShort ==
    ASSUME NEW t \in Types
    PROVE  Len(References(t)) \in 0..4
<1> DEFINE Short(s) == Len(s) \in 0..4
<1>1. Short(<<>>)
  OBVIOUS
<1>2. ASSUME NEW a PROVE Short(<<a>>)
  OBVIOUS
<1>3. ASSUME NEW a, NEW b PROVE Short(<<a, b>>)
  OBVIOUS
<1>4. ASSUME NEW a, NEW b, NEW c, NEW d PROVE Short(<<a, b, c, d>>)
  OBVIOUS
<1> HIDE DEF Short
<1>5. Short(References(t))
  BY <1>1, <1>2, <1>3, <1>4, ReferencesByType
  DEF Types, StorageTypes, NotifierTypes, DatabaseTypes
<1> QED
  BY <1>5 DEF Short

(***************************************************************************)
(* The inductive invariant: what has been resolved so far is what was held *)
(* at some moment of the pass, and the pass has got past its checks.       *)
(***************************************************************************)
refs == References(object.type)

HeldOK ==
    /\ secret \in [Fields(object.type) -> Values \cup {Missing}]
    /\ held \in [Fields(object.type) -> SUBSET (Values \cup {Missing})]
    /\ \A f \in Fields(object.type) : secret[f] \in held[f]

ResolvedOK ==
    \A i \in DOMAIN refs :
       i < next =>
          IF Refers(refs[i]) THEN values[refs[i].field] \in held[refs[i].field] \ {Missing}
                             ELSE values[refs[i].field] = WithoutReference

CheckedOK ==
    step \in {"read", "sent", "panic"} => ~Incomplete

IInv ==
    /\ object \in Objects
    /\ HeldOK
    /\ step \in {"check", "read", "refused", "failed", "panic", "sent"}
    /\ next \in 1..Len(refs) + 1
    /\ values \in [Fields(object.type) -> Values \cup {Literal, Nothing}]
    /\ step = "sent" => request = Request
    /\ step # "sent" => request = Nothing
    /\ edits \in 0..MaxEdits
    /\ ResolvedOK
    /\ CheckedOK
    /\ step = "sent" => next = Len(refs) + 1
    /\ FailureHasCause
    /\ NeverPanics

LEMMA InitInv == Init => IInv
<1> SUFFICES ASSUME Init PROVE IInv
  OBVIOUS
<1>1. object \in Objects
  BY DEF Init
<1>2. Len(refs) \in Nat /\ DOMAIN refs = 1..Len(refs)
  BY <1>1, KnownType, ReferencesDistinct DEF refs, Distinct
<1>3. HeldOK
  BY DEF Init, HeldOK
<1>4. ResolvedOK /\ CheckedOK /\ FailureHasCause /\ NeverPanics
  BY <1>2 DEF Init, ResolvedOK, CheckedOK, FailureHasCause, NeverPanics
<1> QED
  BY <1>1, <1>2, <1>3, <1>4, RequestsAssumption DEF Init, IInv

LEMMA ChangeInv ==
    ASSUME IInv, NEW f \in Fields(object.type), ChangeSecret(f)
    PROVE  IInv'
<1>1. UNCHANGED <<object, step, next, values, request>>
  BY DEF ChangeSecret
<1>2. HeldOK' /\ \A g \in Fields(object.type) : held[g] \subseteq held'[g]
  BY DEF ChangeSecret, IInv, HeldOK
<1>3. ResolvedOK'
  BY <1>1, <1>2 DEF IInv, ResolvedOK, refs, Refers, WithoutReference, Fields
<1>4. FailureHasCause'
  BY <1>1, <1>2 DEF IInv, FailureHasCause
<1>5. edits' \in 0..MaxEdits
  BY RequestsAssumption DEF ChangeSecret, IInv
<1> QED
  BY <1>1, <1>2, <1>3, <1>4, <1>5
  DEF IInv, CheckedOK, Incomplete, Request, NeverPanics, refs

LEMMA CheckInv == IInv /\ Check => IInv'
<1> SUFFICES ASSUME IInv, Check PROVE IInv'
  OBVIOUS
<1>1. UNCHANGED <<object, secret, held, next, values, request, edits>>
  BY DEF Check
<1>2. step = "check" /\ step' \in {"read", "refused", "failed"}
  BY DEF Check
<1>3. step' = "read" => ~Incomplete
  BY DEF Check
<1>4. step' = "failed" => object.type \notin object.sections
  BY DEF Check, Incomplete
<1>5. FailureHasCause' /\ CheckedOK' /\ NeverPanics'
  BY <1>1, <1>2, <1>3, <1>4 DEF FailureHasCause, CheckedOK, Incomplete, NeverPanics
<1>6. HeldOK' /\ ResolvedOK'
  BY <1>1 DEF IInv, HeldOK, ResolvedOK, refs, Refers, WithoutReference
<1> QED
  BY <1>1, <1>2, <1>5, <1>6 DEF IInv, refs

\* One reference is resolved; what was resolved before is left alone.
LEMMA ResolvedInv ==
    ASSUME IInv, Reading, NEW v \in Values \cup {Literal, Nothing}, Resolved(v),
           IF Refers(Reference) THEN v \in held[Reference.field] \ {Missing}
                                ELSE v = WithoutReference,
           UNCHANGED <<object, secret, held, request, edits>>
    PROVE  IInv'
<1> DEFINE f == Reference.field
<1>0. object.type \in Types
  BY KnownType DEF IInv
<1>1. /\ Len(refs) \in Nat /\ DOMAIN refs = 1..Len(refs)
      /\ \A i, j \in DOMAIN refs : refs[i].field = refs[j].field => i = j
  BY <1>0, ReferencesDistinct DEF refs, Distinct
<1>2. next \in DOMAIN refs /\ Reference = refs[next] /\ f \in Fields(object.type)
  BY <1>1 DEF IInv, Reading, Reference, refs, Fields
<1>3. /\ next' = next + 1 /\ step' = step /\ step = "read"
      /\ values' = [values EXCEPT ![f] = v]
  BY DEF Resolved, Reading
<1>4. values' \in [Fields(object.type) -> Values \cup {Literal, Nothing}]
  BY <1>3 DEF IInv
<1>5. ResolvedOK'
  <2> SUFFICES ASSUME NEW i \in DOMAIN refs, i < next + 1
               PROVE  IF Refers(refs[i]) THEN values'[refs[i].field] \in held[refs[i].field] \ {Missing}
                                         ELSE values'[refs[i].field] = WithoutReference
    BY <1>3 DEF ResolvedOK, refs, Refers, WithoutReference
  <2>0. refs[i].field \in Fields(object.type)
    BY DEF refs, Fields
  <2>1. CASE i = next
    BY <1>2, <1>3, <2>0, <2>1 DEF IInv
  <2>2. CASE i # next
    <3>1. i < next /\ values'[refs[i].field] = values[refs[i].field]
      BY <1>1, <1>2, <1>3, <2>0, <2>2 DEF IInv
    <3> QED
      BY <3>1 DEF IInv, ResolvedOK
  <2> QED
    BY <2>1, <2>2
<1>6. next' \in 1..Len(refs) + 1
  BY <1>1, <1>2, <1>3
<1>7. HeldOK' /\ CheckedOK' /\ FailureHasCause' /\ NeverPanics'
  BY <1>3 DEF IInv, HeldOK, CheckedOK, Incomplete, FailureHasCause, NeverPanics
<1> QED
  BY <1>3, <1>4, <1>5, <1>6, <1>7 DEF IInv, refs

LEMMA ReadInv == IInv /\ ReadReference => IInv'
<1> SUFFICES ASSUME IInv, ReadReference PROVE IInv'
  OBVIOUS
<1>0. object.type \in Types
  BY KnownType DEF IInv
<1>1. /\ Len(refs) \in Nat /\ DOMAIN refs = 1..Len(refs)
      /\ \A i, j \in DOMAIN refs : refs[i].field = refs[j].field => i = j
  BY <1>0, ReferencesDistinct DEF refs, Distinct
<1>2. /\ next \in DOMAIN refs /\ Reference = refs[next]
      /\ Reference.field \in Fields(object.type)
      /\ Reading /\ Refers(Reference)
  BY <1>1 DEF ReadReference, IInv, Reading, Reference, refs, Fields
<1>3. secret[Reference.field] \in held[Reference.field]
  BY <1>2 DEF IInv, HeldOK
<1>4. CASE secret[Reference.field] # Missing
  <2>1. secret[Reference.field] \in Values
    BY <1>2, <1>4 DEF IInv, HeldOK
  <2> QED
    BY <1>2, <1>3, <1>4, <2>1, ResolvedInv DEF ReadReference
<1>5. CASE secret[Reference.field] = Missing
  <2>1. UNCHANGED <<object, secret, held, next, values, request, edits>> /\ step' = "failed"
    BY <1>5 DEF ReadReference
  <2>2. Reference.field \in OptionalFields(object.type) => Reference.field \in object.refs
    BY <1>1, <1>2 DEF OptionalFields, Refers, refs
  <2>3. FailureHasCause'
    BY <1>2, <1>3, <1>5, <2>1, <2>2 DEF FailureHasCause
  <2>4. HeldOK' /\ ResolvedOK' /\ CheckedOK' /\ NeverPanics'
    BY <2>1 DEF IInv, HeldOK, ResolvedOK, CheckedOK, NeverPanics, refs, Refers, WithoutReference
  <2> QED
    BY <1>2, <2>1, <2>3, <2>4 DEF IInv, Reading, refs
<1> QED
  BY <1>4, <1>5

LEMMA SkipInv == IInv /\ SkipReference => IInv'
  BY ResolvedInv DEF SkipReference, WithoutReference

LEMMA BuildInv == IInv /\ Build => IInv'
<1> SUFFICES ASSUME IInv, Build PROVE IInv'
  OBVIOUS
<1>1. UNCHANGED <<object, secret, held, next, values, edits>> /\ step = "read"
  BY DEF Build
<1>2. ~Panics
  BY <1>1 DEF IInv, CheckedOK, Incomplete, Panics, Built, Unread, Types, DatabaseTypes
<1>3. step' = "sent" /\ request' = Request
  BY <1>2 DEF Build
<1>4. Len(refs) \in Nat
  BY KnownType, ReferencesDistinct DEF IInv, refs, Distinct
<1>5. next = Len(refs) + 1
  BY <1>1, <1>4 DEF Build, Reading, IInv, refs
<1>6. /\ HeldOK' /\ ResolvedOK' /\ CheckedOK' /\ FailureHasCause' /\ NeverPanics'
      /\ Request' = Request
  BY <1>1, <1>3 DEF IInv, HeldOK, ResolvedOK, CheckedOK, Incomplete, FailureHasCause,
     NeverPanics, Request, refs, Refers, WithoutReference
<1> QED
  BY <1>1, <1>3, <1>5, <1>6 DEF IInv, refs

\* In every reachable state the pass has what it has resolved from moments of its
\* own.
THEOREM Invariance == Spec => []IInv
<1>1. IInv /\ [Next]_vars => IInv'
  <2> SUFFICES ASSUME IInv, [Next]_vars PROVE IInv'
    OBVIOUS
  <2>1. CASE UNCHANGED vars
    BY <2>1 DEF vars, IInv, HeldOK, ResolvedOK, CheckedOK, Incomplete, FailureHasCause,
       NeverPanics, Request, refs, Refers, WithoutReference
  <2> QED
    BY <2>1, ChangeInv, CheckInv, ReadInv, SkipInv, BuildInv DEF Next
<1> QED
  BY <1>1, InitInv, PTL DEF Spec

\* buildDatabaseRequest never meets a database without the section of its type.
THEOREM BuildersNeverPanic == Spec => []NeverPanics
<1>1. IInv => NeverPanics
  BY DEF IInv
<1> QED
  BY <1>1, Invariance, PTL

\* What is sent was in the Secrets while the request was made, however they were
\* changed between two reads, and never the empty value of a missing key.
THEOREM SentValuesWereHeld == Spec => []SentWasHeld
<1>1. IInv => SentWasHeld
  <2> SUFFICES ASSUME IInv, step = "sent", NEW i \in DOMAIN refs
               PROVE  IF Refers(refs[i])
                      THEN request.values[refs[i].field] \in held[refs[i].field] \ {Missing}
                      ELSE request.values[refs[i].field] = WithoutReference
    BY DEF SentWasHeld, refs
  <2>1. request.values = values
    BY DEF IInv, Request
  <2>2. i < next
    BY KnownType, ReferencesDistinct DEF IInv, refs, Distinct
  <2> QED
    BY <2>1, <2>2 DEF IInv, ResolvedOK
<1> QED
  BY <1>1, Invariance, PTL

\* A pass that fails has a reason in its own spec.
THEOREM FailuresHaveCauses == Spec => []FailureHasCause
<1>1. IInv => FailureHasCause
  BY DEF IInv
<1> QED
  BY <1>1, Invariance, PTL

\* Type correctness: a pass reads at most four references, holds nothing but values
\* of Secrets, literals and empty fields, and sends what it holds.
THEOREM RequestsTypeCorrect == Spec => []TypeOK
<1>1. IInv => TypeOK
  <2> SUFFICES ASSUME IInv PROVE TypeOK
    OBVIOUS
  <2>1. Len(refs) \in 0..4
    <3>1. object.type \in Types
      BY KnownType DEF IInv
    <3> QED
      BY <3>1, ReferencesShort DEF refs
  <2>2. next \in 1..5
    <3>1. next \in 1..Len(refs) + 1
      BY DEF IInv
    <3>2. \A k : k \in 0..4 => 1..k + 1 \subseteq 1..5
      OBVIOUS
    <3> QED
      BY <2>1, <3>1, <3>2, Zenon
  <2>3. request = Nothing \/ request.values = values
    BY DEF IInv, Request
  <2> QED
    BY <2>2, <2>3 DEF IInv, HeldOK, TypeOK
<1> QED
  BY <1>1, Invariance, PTL
=============================================================================
