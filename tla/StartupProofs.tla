---------------------------- MODULE StartupProofs ----------------------------
(***************************************************************************)
(* Safety of the start-up, for any number of replicas, edits of Secret,    *)
(* password and workspaces, and faults.                                    *)
(***************************************************************************)
EXTENDS Startup, TLAPS

(***************************************************************************)
(* The workspace.                                                          *)
(***************************************************************************)
Resolved == {"healthCheck"} \cup Running

AsNamed(p) ==
    \/ creds[p].id # Unset /\ workspace[p] = creds[p].id
    \/ creds[p].id = Unset /\ \E l \in shown[p] : FirstIn(l, creds[p].name, workspace[p])

Good(p) ==
    /\ phase[p] \in Resolved => AsNamed(p)
    /\ phase[p] = "resolve" => creds[p].id = Unset
    /\ phase[p] \in Looking => list \in shown[p]

IInv ==
    /\ TypeOK
    /\ \A p \in Processes : Good(p)

(***************************************************************************)
(* Type correctness.                                                       *)
(***************************************************************************)
LEMMA Elements ==
    ASSUME NEW S, NEW s \in Seq(S)
    PROVE  \A i \in DOMAIN s : s[i] \in S
  OBVIOUS

LEMMA ListTypes ==
    ASSUME NEW l \in Lists
    PROVE  \A i \in DOMAIN l : /\ i \in Nat /\ 1..i \subseteq DOMAIN l
                                /\ l[i].id \in Workspaces
<1>1. l \in Seq([id : Workspaces, name : WorkspaceNames])
  BY StartupAssumption
<1>2. DOMAIN l = 1..Len(l) /\ Len(l) \in Nat
  BY <1>1
<1>3. \A i \in DOMAIN l : l[i] \in [id : Workspaces, name : WorkspaceNames]
  BY <1>1, Elements
<1>4. \A i \in DOMAIN l : i \in Nat /\ 1..i \subseteq DOMAIN l
  BY <1>2
<1> QED
  BY <1>3, <1>4

LEMMA CredTypes ==
    ASSUME TypeOK, NEW p \in Processes
    PROVE  /\ creds[p] \in Secret
           /\ creds[p].id \in Workspaces \cup {Unset}
           /\ Missing \in Secret
  BY DEF TypeOK, Secret, Missing

LEMMA InitTypes == Init => TypeOK
<1> SUFFICES ASSUME Init PROVE TypeOK
  OBVIOUS
<1>1. Missing \in Secret
  BY DEF Missing, Secret
<1>2. list \in Lists /\ shown \in [Processes -> SUBSET Lists]
  BY DEF Init
<1> QED
  BY <1>1, <1>2 DEF Init, TypeOK, Calls, Running

LEMMA ExitTypes ==
    ASSUME TypeOK, NEW p \in Processes, Exit(p), UNCHANGED <<worldVars, edits>>, faults' \in Nat
    PROVE  TypeOK'
<1>1. Missing \in Secret
  BY CredTypes
<1>2. /\ phase' \in [Processes -> {"down"} \cup Calls \cup Running]
      /\ creds' \in [Processes -> Secret]
      /\ workspace' \in [Processes -> Workspaces \cup {Unset}]
  BY <1>1 DEF Exit, TypeOK
<1>3. /\ lost' \subseteq Processes /\ lease' \in Processes \cup {Nobody, Unrenewed}
      /\ shown' \in [Processes -> SUBSET Lists]
  BY DEF Exit, TypeOK
<1> QED
  BY <1>2, <1>3 DEF TypeOK, worldVars

LEMMA NextTypes == TypeOK /\ [Next]_vars => TypeOK'
<1> SUFFICES ASSUME TypeOK, [Next]_vars PROVE TypeOK'
  OBVIOUS
<1>0. edits + 1 \in Nat /\ faults + 1 \in Nat
  BY DEF TypeOK
<1>1. CASE EditSecret \/ ChangePassword
  BY <1>0, <1>1 DEF EditSecret, ChangePassword, Edit, TypeOK, processVars
<1>2. CASE ChangeWorkspaces
  <2>1. list' \in Lists /\ shown' \in [Processes -> SUBSET Lists]
    BY <1>2 DEF ChangeWorkspaces, TypeOK
  <2> QED
    BY <1>0, <1>2, <2>1 DEF ChangeWorkspaces, Edit, TypeOK, processVars
<1>3. CASE ExpireLease
  BY <1>3 DEF ExpireLease, TypeOK, processVars, worldVars
<1>4. ASSUME NEW p \in Processes, Launch(p) \/ HealthCheck(p) \/ Acquire(p) \/ LoseCall(p)
      PROVE  TypeOK'
  <2>1. phase' \in [Processes -> {"down"} \cup Calls \cup Running]
    BY <1>4 DEF Launch, HealthCheck, Acquire, LoseCall, Proceed, TypeOK, Calls, Running
  <2>2. shown' \in [Processes -> SUBSET Lists]
    BY <1>4 DEF Launch, HealthCheck, Acquire, LoseCall, Proceed, TypeOK, worldVars
  <2> QED
    BY <1>0, <1>4, <2>1, <2>2
    DEF Launch, HealthCheck, Acquire, LoseCall, Fault, Proceed, TypeOK, worldVars
<1>5. ASSUME NEW p \in Processes, Exit(p), UNCHANGED <<worldVars, edits>>,
             faults' \in {faults, faults + 1}
      PROVE  TypeOK'
  BY <1>0, <1>5, ExitTypes DEF TypeOK
<1>6. ASSUME NEW p \in Processes, NEW step \in Calls, Proceed(p, step),
             creds' \in [Processes -> Secret],
             workspace' \in [Processes -> Workspaces \cup {Unset}],
             UNCHANGED <<worldVars, edits, faults>>
      PROVE  TypeOK'
  BY <1>6 DEF Proceed, TypeOK, worldVars
<1>7. ASSUME NEW p \in Processes, ReadSecret(p) PROVE TypeOK'
  <2>1. CASE secret.password # NoPassword
    <3>1. creds' \in [Processes -> Secret] /\ "signIn" \in Calls
      BY <1>7, <2>1 DEF ReadSecret, TypeOK, Calls
    <3> QED
      BY <1>6, <1>7, <2>1, <3>1 DEF ReadSecret, TypeOK
  <2> QED
    BY <1>5, <1>7, <2>1 DEF ReadSecret
<1>8. ASSUME NEW p \in Processes, SignIn(p) PROVE TypeOK'
  <2>1. CASE creds[p].password = password
    <3>1. workspace' \in [Processes -> Workspaces \cup {Unset}]
      BY <1>8, <2>1, CredTypes DEF SignIn, TypeOK
    <3>2. \E step \in Calls : Proceed(p, step)
      BY <1>8, <2>1 DEF SignIn, Calls
    <3> QED
      BY <1>6, <1>8, <2>1, <3>1, <3>2 DEF SignIn, TypeOK
  <2> QED
    BY <1>5, <1>8, <2>1 DEF SignIn
<1>9. ASSUME NEW p \in Processes, ResolveWorkspace(p) PROVE TypeOK'
  <2>1. CASE Matches(creds[p].name) # {} /\ ~Exit(p)
    <3>1. PICK i \in Matches(creds[p].name) :
             /\ workspace' = [workspace EXCEPT ![p] = list[i].id]
             /\ Proceed(p, "healthCheck")
             /\ UNCHANGED creds
      BY <1>9, <2>1 DEF ResolveWorkspace
    <3>2. list[i].id \in Workspaces
      BY ListTypes DEF Matches, TypeOK
    <3>3. workspace' \in [Processes -> Workspaces \cup {Unset}]
      BY <3>1, <3>2 DEF TypeOK
    <3> QED
      BY <1>6, <1>9, <3>1, <3>3 DEF ResolveWorkspace, TypeOK, Calls
  <2> QED
    BY <1>5, <1>9, <2>1 DEF ResolveWorkspace
<1>10. ASSUME NEW p \in Processes, RefuseCall(p) \/ StopLeading(p) \/ Kill(p) \/ Deadline(p)
       PROVE  TypeOK'
  BY <1>5, <1>10 DEF RefuseCall, StopLeading, Kill, Deadline, Fault
<1>11. ASSUME NEW p \in Processes, LoseLease(p) PROVE TypeOK'
  BY <1>0, <1>11 DEF LoseLease, Fault, TypeOK, processVars, worldVars
<1>12. CASE UNCHANGED vars
  BY <1>12 DEF vars, processVars, worldVars, TypeOK
<1> QED
  BY <1>1, <1>2, <1>3, <1>4, <1>7, <1>8, <1>9, <1>10, <1>11, <1>12 DEF Next, StartStep

(***************************************************************************)
(* One process.  Whatever the world does meanwhile, what a process has     *)
(* found out does not change, and the lists it was shown only grow.        *)
(***************************************************************************)
LEMMA Kept ==
    ASSUME NEW p \in Processes, Good(p),
           creds'[p] = creds[p], workspace'[p] = workspace[p],
           shown[p] \subseteq shown'[p],
           phase'[p] \in Resolved => phase[p] \in Resolved,
           phase'[p] = "resolve" => phase[p] = "resolve",
           phase'[p] \in Looking => phase[p] \in Looking /\ (list' = list \/ list' \in shown'[p])
    PROVE  Good(p)'
<1>1. AsNamed(p) => AsNamed(p)'
  BY DEF AsNamed, FirstIn
<1> QED
  BY <1>1 DEF Good, Resolved, Looking

\* The list of the moment of the look-up is one of those shown.
LEMMA Found ==
    ASSUME TypeOK, NEW p \in Processes, ResolveWorkspace(p), ~Exit(p), Good(p)
    PROVE  Good(p)'
<1>1. PICK i \in Matches(creds[p].name) :
         /\ \A j \in Matches(creds[p].name) : i <= j
         /\ workspace' = [workspace EXCEPT ![p] = list[i].id]
         /\ Proceed(p, "healthCheck")
         /\ UNCHANGED creds
  BY DEF ResolveWorkspace
<1>2. /\ creds[p].id = Unset
      /\ list \in shown[p]
      /\ workspace'[p] = list[i].id
      /\ UNCHANGED <<list, shown>>
  BY <1>1 DEF ResolveWorkspace, Good, Looking, Proceed, TypeOK, worldVars
<1>3. FirstIn(list, creds[p].name, list[i].id)
  <2>1. /\ list \in Lists /\ i \in DOMAIN list
        /\ IF creds[p].name = Unset THEN i = 1 ELSE list[i].name = creds[p].name
    BY DEF Matches, TypeOK
  <2>2. i \in Nat /\ 1..i \subseteq DOMAIN list
    BY <2>1, ListTypes
  <2>3. ASSUME NEW j \in 1..(i - 1), creds[p].name # Unset
        PROVE  list[j].name # creds[p].name
    <3>1. j \in DOMAIN list /\ ~(i <= j)
      BY <2>2
    <3> QED
      BY <1>1, <2>3, <3>1 DEF Matches
  <2> QED
    BY <2>1, <2>3 DEF FirstIn
<1>4. AsNamed(p)'
  BY <1>1, <1>2, <1>3 DEF AsNamed, FirstIn
<1>5. phase'[p] = "healthCheck"
  BY <1>1 DEF Proceed, TypeOK
<1> QED
  BY <1>4, <1>5 DEF Good, Looking

LEMMA ProcessGood ==
    ASSUME TypeOK, NEW p \in Processes, Good(p), [Next]_vars
    PROVE  Good(p)'
<1>1. CASE UNCHANGED <<phase, creds, workspace, list, shown>>
  BY <1>1, Kept
<1>2. CASE ChangeWorkspaces
  <2>1. /\ shown[p] \subseteq shown'[p]
        /\ phase[p] \in Looking => list' \in shown'[p]
    BY <1>2 DEF ChangeWorkspaces, TypeOK
  <2> QED
    BY <1>2, <2>1, Kept DEF ChangeWorkspaces, processVars
<1>3. ASSUME NEW q \in Processes, Exit(q), UNCHANGED list PROVE Good(p)'
  <2>1. CASE q = p
    BY <1>3, <2>1 DEF Exit, Good, Resolved, Running, Looking, TypeOK
  <2>2. CASE q # p
    BY <1>3, <2>2, Kept DEF Exit, TypeOK
  <2> QED
    BY <2>1, <2>2
<1>4. ASSUME NEW q \in Processes,
             Launch(q) \/ ReadSecret(q) \/ SignIn(q) \/ ResolveWorkspace(q) \/ HealthCheck(q)
               \/ Acquire(q),
             q # p
      PROVE  Good(p)'
  <2>1. /\ phase'[p] = phase[p] /\ creds'[p] = creds[p] /\ workspace'[p] = workspace[p]
        /\ shown'[p] = shown[p] /\ list' = list
    BY <1>4 DEF Launch, ReadSecret, SignIn, ResolveWorkspace, HealthCheck, Acquire,
       Proceed, Exit, TypeOK, worldVars
  <2> QED
    BY <2>1, Kept
<1>5. CASE Launch(p)
  <2>1. phase'[p] = "readSecret" /\ list' \in shown'[p]
    BY <1>5 DEF Launch, TypeOK, worldVars
  <2> QED
    BY <2>1 DEF Good, Resolved, Running
<1>6. CASE ReadSecret(p) /\ ~Exit(p)
  <2>1. phase'[p] = "signIn" /\ list' \in shown'[p]
    BY <1>6 DEF ReadSecret, Proceed, Good, Looking, TypeOK, worldVars
  <2> QED
    BY <2>1 DEF Good, Resolved, Running
<1>7. CASE SignIn(p) /\ ~Exit(p)
  <2>1. /\ creds' = creds /\ workspace'[p] = creds[p].id /\ list' \in shown'[p]
        /\ phase'[p] = IF creds[p].id = Unset THEN "resolve" ELSE "healthCheck"
    BY <1>7 DEF SignIn, Proceed, Good, Looking, TypeOK, worldVars
  <2> QED
    BY <2>1 DEF Good, Resolved, Running, AsNamed
<1>8. CASE ResolveWorkspace(p) /\ ~Exit(p)
  BY <1>8, Found
<1>9. CASE HealthCheck(p) \/ Acquire(p)
  <2>1. /\ creds' = creds /\ workspace' = workspace /\ shown' = shown
        /\ phase[p] \in Resolved /\ phase'[p] \in Running
    BY <1>9 DEF HealthCheck, Acquire, Proceed, TypeOK, Resolved, Running
  <2> QED
    BY <2>1, Kept DEF Running, Looking
<1>10. CASE \E q \in Processes : RefuseCall(q) \/ StopLeading(q) \/ Kill(q) \/ Deadline(q)
  BY <1>3, <1>10 DEF RefuseCall, StopLeading, Kill, Deadline, worldVars
<1>11. CASE \/ EditSecret \/ ChangePassword \/ ExpireLease
            \/ \E q \in Processes : LoseCall(q) \/ LoseLease(q)
            \/ UNCHANGED vars
  BY <1>1, <1>11 DEF EditSecret, ChangePassword, ExpireLease, LoseCall, LoseLease,
     vars, processVars, worldVars
<1>12. ASSUME NEW q \in Processes, StartStep(q), Exit(q) PROVE UNCHANGED list
  BY <1>12 DEF StartStep, ReadSecret, SignIn, ResolveWorkspace, HealthCheck, worldVars
<1> QED
  BY <1>2, <1>3, <1>4, <1>5, <1>6, <1>7, <1>8, <1>9, <1>10, <1>11, <1>12 DEF Next, StartStep

(***************************************************************************)
(* Theorems.                                                               *)
(***************************************************************************)
LEMMA InitInv == Init => IInv
<1> SUFFICES ASSUME Init PROVE IInv
  OBVIOUS
<1>1. \A p \in Processes : phase[p] = "down"
  BY DEF Init
<1> QED
  BY <1>1, InitTypes DEF IInv, Good, Resolved, Running, Looking

LEMMA NextInv == IInv /\ [Next]_vars => IInv'
  BY NextTypes, ProcessGood DEF IInv

\* In every reachable state a process that runs has the workspace its start found, and
\* one that is still looking has been shown the list databasus has.
THEOREM Invariance == Spec => []IInv
  BY InitInv, NextInv, PTL DEF Spec

\* Every variable of the start-up has its type.
THEOREM StartupTypeCorrect == Spec => []TypeOK
<1>1. IInv => TypeOK
  BY DEF IInv
<1> QED
  BY <1>1, Invariance, PTL

\* No controller runs but in the workspace that the Secret of its process's start
\* names: by ID, or as the first of its name, or the first of all, in a list that
\* databasus had during that start.
THEOREM WorkspacesAreNamed == Spec => []WorkspaceAsNamed
<1>1. IInv => WorkspaceAsNamed
  BY DEF IInv, Good, AsNamed, WorkspaceAsNamed, Resolved
<1> QED
  BY <1>1, Invariance, PTL
=============================================================================
