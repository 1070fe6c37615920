--------------------------- MODULE ApiClientProofs ---------------------------
(***************************************************************************)
(* What ApiClient reports is the truth, for any contents and any number of *)
(* lost requests, lost replies and refusals.                               *)
(***************************************************************************)
EXTENDS ApiClient, TLAPS

(***************************************************************************)
(* Type correctness.                                                       *)
(***************************************************************************)
LEMMA ReplyTypes ==
    ASSUME NEW s \in Statuses, NEW b \in Bodies, Answer(s, b)
    PROVE  reply' \in Reply
  BY DEF Answer, Reply

LEMMA ServeTypes ==
    ASSUME TypeOK, Serve
    PROVE  reply' \in Reply /\ record' \in Contents \cup {Absent} /\ faults' \in Nat
<1>1. \/ \E s \in Statuses, b \in Bodies : Answer(s, b)
  BY DEF Serve, ServeWrite, ServeRead, ServeDelete, Refuse, Statuses, Bodies
<1>2. record' \in Contents \cup {Absent}
  BY DEF Serve, ServeWrite, ServeRead, ServeDelete, Refuse, TypeOK
<1>3. faults' \in Nat
  BY DEF Serve, TypeOK
<1> QED
  BY <1>1, <1>2, <1>3, ReplyTypes

\* Every method returns one of the results.
LEMMA ResultTypes ==
    ASSUME NEW m \in Methods, NEW r \in Reply
    PROVE  Call(m, r) \in Results
<1>1. Read(r) \in Results /\ Erase(r) \in Results
  BY DEF Read, Erase, Decode, Results
<1>2. \A accepted : Write(accepted, r) \in Results
  BY DEF Write, Decode, Results
<1> QED
  BY <1>1, <1>2 DEF Call, Methods, Reads, Deletes, Writes,
     SaveStorage, GetStorage, DeleteStorage, SaveNotifier, GetNotifier, DeleteNotifier,
     CreateDatabase, UpdateDatabase, GetDatabase, DeleteDatabase, SaveBackupConfig,
     GetBackupConfig, SaveHealthcheckConfig, GetHealthcheckConfig

LEMMA InitTypes == Init => TypeOK
  BY ApiClientAssumption DEF Init, TypeOK, Reply, Results

LEMMA NextTypes == TypeOK /\ [Next]_vars => TypeOK'
<1> SUFFICES ASSUME TypeOK, [Next]_vars PROVE TypeOK'
  OBVIOUS
<1>1. CASE Send
  BY <1>1 DEF Send, TypeOK
<1>2. CASE Serve
  BY <1>2, ServeTypes DEF Serve, TypeOK
<1>3. CASE Lose
  <2>1. reply' \in Reply
    BY <1>3, ReplyTypes DEF Lose, Reply, Statuses, Bodies
  <2> QED
    BY <1>3, <2>1 DEF Lose, TypeOK
<1>4. CASE Decide
  BY <1>4, ResultTypes DEF Decide, TypeOK, Reply
<1>5. CASE UNCHANGED vars
  BY <1>5 DEF vars, TypeOK
<1> QED
  BY <1>1, <1>2, <1>3, <1>4, <1>5 DEF Next

(***************************************************************************)
(* The argument: a reply on its way says the truth as long as nobody sends *)
(* another request, and nobody does after a success.                       *)
(***************************************************************************)
ReplyIsTruth ==
    phase = "answered" =>
       /\ method \in Writes /\ reply.status \in {200, 201} => record = content
       /\ method \in Deletes \cup Reads /\ isNotFound(reply) => record = Absent
       /\ method \in Deletes /\ reply.status \in {200, 204} => record = Absent
       /\ method \in Reads /\ reply.status = 200 => record # Absent

NothingAfterSuccess == Succeeded(result) => phase = "idle"

IInv ==
    /\ TypeOK
    /\ ReplyIsTruth
    /\ NothingAfterSuccess
    /\ ResultIsTruth

\* A success that is reported is one the reply stands for.
LEMMA SuccessComesFromReply ==
    ASSUME NEW m \in Methods, NEW r
    PROVE  /\ m \in Writes => Call(m, r) # "nil"
           /\ m \in Writes /\ Call(m, r) = "value" => r.status \in {200, 201}
           /\ m \in Deletes /\ Call(m, r) = "nil" => r.status \in {200, 204} \/ isNotFound(r)
           /\ m \in Reads /\ Call(m, r) = "nil" => isNotFound(r)
           /\ m \in Reads /\ Call(m, r) = "value" => r.status = 200
<1>1. \A accepted : /\ Write(accepted, r) # "nil"
                    /\ Write(accepted, r) = "value" => r.status \in accepted
  BY DEF Write, Decode
<1>2. Erase(r) = "nil" => r.status \in {200, 204} \/ isNotFound(r)
  BY DEF Erase
<1>3. /\ Read(r) = "nil" => isNotFound(r)
      /\ Read(r) = "value" => r.status = 200
  BY DEF Read, Decode
<1>4. m \in Writes => \/ Call(m, r) = Write({200}, r)
                      \/ Call(m, r) = Write({200, 201}, r)
  <2>1. CASE m = "SaveStorage"
    BY <2>1 DEF Call, SaveStorage
  <2>2. CASE m = "SaveNotifier"
    BY <2>2 DEF Call, SaveNotifier
  <2>3. CASE m = "CreateDatabase"
    BY <2>3 DEF Call, CreateDatabase
  <2>4. CASE m = "UpdateDatabase"
    BY <2>4 DEF Call, UpdateDatabase
  <2>5. CASE m = "SaveBackupConfig"
    BY <2>5 DEF Call, SaveBackupConfig
  <2>6. CASE m = "SaveHealthcheckConfig"
    BY <2>6 DEF Call, SaveHealthcheckConfig
  <2> QED
    BY <2>1, <2>2, <2>3, <2>4, <2>5, <2>6 DEF Writes
<1>5. m \in Deletes => Call(m, r) = Erase(r)
  BY DEF Call, Deletes, DeleteStorage, DeleteNotifier, DeleteDatabase
<1>6. m \in Reads => Call(m, r) = Read(r)
  BY DEF Call, Reads, GetStorage, GetNotifier, GetDatabase, GetBackupConfig,
     GetHealthcheckConfig
<1> QED
  BY <1>1, <1>2, <1>3, <1>4, <1>5, <1>6

LEMMA Kinds ==
    /\ Writes \cap Deletes = {} /\ Writes \cap Reads = {} /\ Deletes \cap Reads = {}
    /\ Methods = Reads \cup Deletes \cup Writes
  BY DEF Writes, Deletes, Reads, Methods

LEMMA ServeTells ==
    ASSUME IInv, Serve
    PROVE  ReplyIsTruth' /\ ResultIsTruth'
<1>1. ~Succeeded(result) /\ result' = result /\ method' = method /\ content' = content
  BY DEF Serve, IInv, NothingAfterSuccess
<1>2. ResultIsTruth'
  BY <1>1 DEF ResultIsTruth, Succeeded
<1>3. CASE Refuse
  BY <1>2, <1>3 DEF Refuse, Answer, ReplyIsTruth, isNotFound
<1>4. CASE ServeWrite
  BY <1>1, <1>2, <1>4, Kinds DEF ServeWrite, Answer, ReplyIsTruth
<1>5. CASE ServeRead
  BY <1>1, <1>2, <1>5, Kinds DEF ServeRead, Answer, ReplyIsTruth, isNotFound
<1>6. CASE ServeDelete
  BY <1>1, <1>2, <1>6, Kinds DEF ServeDelete, Answer, ReplyIsTruth, isNotFound
<1> QED
  BY <1>2, <1>3, <1>4, <1>5, <1>6 DEF Serve

LEMMA NextInv == IInv /\ [Next]_vars => IInv'
<1> SUFFICES ASSUME IInv, [Next]_vars PROVE IInv'
  OBVIOUS
<1>1. TypeOK'
  BY NextTypes DEF IInv
<1>2. CASE Send
  BY <1>1, <1>2
  DEF Send, IInv, ReplyIsTruth, NothingAfterSuccess, ResultIsTruth
<1>3. CASE Serve
  BY <1>1, <1>3, ServeTells DEF Serve, IInv, NothingAfterSuccess
<1>4. CASE Lose
  <2>1. ReplyIsTruth'
    BY <1>4 DEF Lose, Answer, NoReply, ReplyIsTruth, isNotFound
  <2> QED
    BY <1>1, <1>4, <2>1 DEF Lose, IInv, NothingAfterSuccess, ResultIsTruth
<1>5. CASE Decide
  <2>1. ReplyIsTruth' /\ NothingAfterSuccess'
    BY <1>5 DEF Decide, ReplyIsTruth, NothingAfterSuccess
  <2>2. ResultIsTruth'
    BY <1>5, Kinds, SuccessComesFromReply
    DEF Decide, IInv, TypeOK, ReplyIsTruth, ResultIsTruth
  <2> QED
    BY <1>1, <2>1, <2>2 DEF IInv
<1>6. CASE UNCHANGED vars
  BY <1>1, <1>6
  DEF vars, IInv, ReplyIsTruth, NothingAfterSuccess, ResultIsTruth, isNotFound
<1> QED
  BY <1>2, <1>3, <1>4, <1>5, <1>6 DEF Next

\* Every reply, whatever was lost or refused before it, decodes to a result of its
\* method.
THEOREM ClientTypeCorrect == Spec => []TypeOK
<1>1. Init => TypeOK
  BY InitTypes
<1>2. TypeOK /\ [Next]_vars => TypeOK'
  BY NextTypes
<1> QED
  BY <1>1, <1>2, PTL DEF Spec

\* No method ever claims a success that did not happen: a saved record has the
\* content, a deleted one is gone, a read one was there.
THEOREM ResultsAreTrue == Spec => []ResultIsTruth
<1>1. Init => IInv
  BY InitTypes DEF Init, IInv, ReplyIsTruth, NothingAfterSuccess, ResultIsTruth, Succeeded
<1>2. IInv /\ [Next]_vars => IInv'
  BY NextInv
<1>3. IInv => ResultIsTruth
  BY DEF IInv
<1> QED
  BY <1>1, <1>2, <1>3, PTL DEF Spec
=============================================================================
