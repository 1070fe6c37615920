------------------------------ MODULE Startup ------------------------------
(***************************************************************************)
(* From the start of the container to running controllers: main reads the  *)
(* credentials Secret, signs in to databasus, resolves the workspace,      *)
(* checks the connection, and starts the manager, which waits for the      *)
(* leader's lease.  Whatever fails ends the process, and the kubelet       *)
(* starts another one.  The token and the workspace are those of the       *)
(* start; nothing refreshes them.                                          *)
(*                                                                         *)
(* Abstracted: email and password are one password (a user has one that is *)
(* valid at a time); a workspace list is one of Lists; flags, environment, *)
(* webhook and metrics options only set values that do not change.  All    *)
(* calls of a start share one context of 30 seconds: a call that is never  *)
(* answered ends with it.  Of the lease, which controller-runtime manages, *)
(* only the order of events is here and no clock: a leader that has lost   *)
(* it may run on beside the next one until it notices.                     *)
(***************************************************************************)
EXTENDS Naturals, FiniteSets, Sequences

CONSTANTS
    Processes,     \* the replicas of the Deployment
    Passwords,     \* versions of the user's password
    NoPassword,    \* the key is not in the Secret
    Workspaces,    \* workspace IDs
    WorkspaceNames,
    Unset,         \* no workspaceId or workspaceName in the Secret
    Lists,         \* what databasus may list: sequences of [id, name]
    LeaderElect,   \* --leader-elect
    MaxEdits,      \* bound on what users change
    MaxFaults      \* bound on refused and lost calls, deaths and lost leases

Nobody == "nobody"
Unrenewed == "unrenewed"   \* a lease that nobody renews, and that has not expired

ASSUME StartupAssumption ==
    /\ {Nobody, Unrenewed} \cap Processes = {}
    /\ NoPassword \notin Passwords
    /\ Unset \notin Workspaces \cup WorkspaceNames
    /\ \A l \in Lists : l \in Seq([id : Workspaces, name : WorkspaceNames])
    /\ LeaderElect \in BOOLEAN
    /\ MaxEdits \in Nat /\ MaxFaults \in Nat

VARIABLES
    phase,      \* phase[p]: where the process is
    creds,      \* creds[p]: the Secret as this start read it
    workspace,  \* workspace[p]: the workspace its client works in
    lost,       \* processes whose call in progress will never be answered
    lease,      \* the process the lease names, if any
    secret,     \* the credentials Secret
    password,   \* the password databasus accepts
    list,       \* the workspaces databasus lists
    shown,      \* shown[p]: the lists it had from the launch of p until p took one
    edits, faults

processVars == <<phase, creds, workspace, lost>>
worldVars == <<secret, password, list>>
vars == <<processVars, lease, worldVars, shown, edits, faults>>

(***************************************************************************)
(* Types.                                                                  *)
(***************************************************************************)
Secret == [password : Passwords \cup {NoPassword},
           id : Workspaces \cup {Unset}, name : WorkspaceNames \cup {Unset}]

Missing == [password |-> NoPassword, id |-> Unset, name |-> Unset]

Calls == {"readSecret", "signIn", "resolve", "healthCheck"}

\* The workspace is still to be found.
Looking == {"readSecret", "signIn", "resolve"}

Running == {"standby", "active"}

Init ==
    /\ phase = [p \in Processes |-> "down"]
    /\ creds = [p \in Processes |-> Missing]
    /\ workspace = [p \in Processes |-> Unset]
    /\ lost = {}
    /\ lease = Nobody
    /\ secret \in Secret
    /\ password \in Passwords
    /\ list \in Lists
    /\ shown = [p \in Processes |-> {}]
    /\ edits = 0
    /\ faults = 0

Fault == faults < MaxFaults /\ faults' = faults + 1

(***************************************************************************)
(* Users and administrators.                                               *)
(***************************************************************************)
Edit == edits < MaxEdits /\ edits' = edits + 1

EditSecret ==
    /\ Edit
    /\ secret' \in Secret \ {secret}
    /\ UNCHANGED <<processVars, lease, password, list, shown, faults>>

ChangePassword ==
    /\ Edit
    /\ password' \in Passwords \ {password}
    /\ UNCHANGED <<processVars, lease, secret, list, shown, faults>>

ChangeWorkspaces ==
    /\ Edit
    /\ list' \in Lists \ {list}
    /\ shown' = [p \in Processes |-> IF phase[p] \in Looking THEN shown[p] \cup {list'}
                                                          ELSE shown[p]]
    /\ UNCHANGED <<processVars, lease, secret, password, faults>>

(***************************************************************************)
(* A start.  os.Exit ends it; the lease of a leader stays until it expires.*)
(***************************************************************************)
Launch(p) ==
    /\ phase[p] = "down"
    /\ phase' = [phase EXCEPT ![p] = "readSecret"]
    /\ shown' = [shown EXCEPT ![p] = {list}]
    /\ UNCHANGED <<creds, workspace, lost, lease, worldVars, edits, faults>>

Exit(p) ==
    /\ phase' = [phase EXCEPT ![p] = "down"]
    /\ creds' = [creds EXCEPT ![p] = Missing]
    /\ workspace' = [workspace EXCEPT ![p] = Unset]
    /\ lost' = lost \ {p}
    /\ shown' = [shown EXCEPT ![p] = {}]
    /\ lease' = IF lease = p THEN Unrenewed ELSE lease

Proceed(p, step) ==
    /\ phase' = [phase EXCEPT ![p] = step]
    /\ UNCHANGED <<lost, lease, shown>>

\* A Secret that is missing looks like one without a password.
ReadSecret(p) ==
    /\ phase[p] = "readSecret" /\ p \notin lost
    /\ \/ /\ secret.password # NoPassword
          /\ creds' = [creds EXCEPT ![p] = secret]
          /\ Proceed(p, "signIn")
          /\ UNCHANGED workspace
       \/ secret.password = NoPassword /\ Exit(p)
    /\ UNCHANGED <<worldVars, edits, faults>>

SignIn(p) ==
    /\ phase[p] = "signIn" /\ p \notin lost
    /\ \/ /\ creds[p].password = password
          /\ Proceed(p, IF creds[p].id = Unset THEN "resolve" ELSE "healthCheck")
          /\ workspace' = [workspace EXCEPT ![p] = creds[p].id]
          /\ UNCHANGED creds
       \/ creds[p].password # password /\ Exit(p)
    /\ UNCHANGED <<worldVars, edits, faults>>

\* The entries that fit the name; without a name, the first one.
Matches(name) ==
    {i \in DOMAIN list : IF name = Unset THEN i = 1 ELSE list[i].name = name}

\* Mutant: the answer is the name instead of the ID.
ResolveWorkspaceName(p) ==
    /\ phase[p] = "resolve" /\ p \notin lost
    /\ \E i \in Matches(creds[p].name) :
          /\ workspace' = [workspace EXCEPT ![p] = list[i].name]
          /\ Proceed(p, "healthCheck")
          /\ UNCHANGED creds
    /\ UNCHANGED <<worldVars, edits, faults>>

\* Mutant: the loop goes on after a match, and the last one is taken.
ResolveWorkspaceLast(p) ==
    /\ phase[p] = "resolve" /\ p \notin lost
    /\ \/ \E i \in Matches(creds[p].name) :
             /\ \A j \in Matches(creds[p].name) : i >= j
             /\ workspace' = [workspace EXCEPT ![p] = list[i].id]
             /\ Proceed(p, "healthCheck")
             /\ UNCHANGED creds
       \/ Matches(creds[p].name) = {} /\ Exit(p)
    /\ UNCHANGED <<worldVars, edits, faults>>

ResolveWorkspace(p) ==
    /\ phase[p] = "resolve" /\ p \notin lost
    /\ \/ \E i \in Matches(creds[p].name) :
             /\ \A j \in Matches(creds[p].name) : i <= j
             /\ workspace' = [workspace EXCEPT ![p] = list[i].id]
             /\ Proceed(p, "healthCheck")
             /\ UNCHANGED creds
       \/ Matches(creds[p].name) = {} /\ Exit(p)
    /\ UNCHANGED <<worldVars, edits, faults>>

\* Mutant: the flag does not reach the manager's options.
HealthCheckUnelected(p) ==
    /\ phase[p] = "healthCheck" /\ p \notin lost
    /\ Proceed(p, "active")
    /\ UNCHANGED <<creds, workspace, worldVars, edits, faults>>

\* The last call; then the three controllers are set up and the manager started.
HealthCheck(p) ==
    /\ phase[p] = "healthCheck" /\ p \notin lost
    /\ Proceed(p, IF LeaderElect THEN "standby" ELSE "active")
    /\ UNCHANGED <<creds, workspace, worldVars, edits, faults>>

StartStep(p) == ReadSecret(p) \/ SignIn(p) \/ ResolveWorkspace(p) \/ HealthCheck(p)

(***************************************************************************)
(* Calls that fail: refused, or never answered until the context ends.     *)
(***************************************************************************)
RefuseCall(p) ==
    /\ phase[p] \in Calls /\ p \notin lost
    /\ Fault
    /\ Exit(p)
    /\ UNCHANGED <<worldVars, edits>>

LoseCall(p) ==
    /\ phase[p] \in Calls /\ p \notin lost
    /\ Fault
    /\ lost' = lost \cup {p}
    /\ UNCHANGED <<phase, creds, workspace, lease, shown, worldVars, edits>>

\* Mutant: SignIn, whose http.DefaultClient has no timeout, gets no context.
DeadlineOfClient(p) ==
    /\ p \in lost /\ phase[p] # "signIn"
    /\ Exit(p)
    /\ UNCHANGED <<worldVars, edits, faults>>

Deadline(p) ==
    /\ p \in lost
    /\ Exit(p)
    /\ UNCHANGED <<worldVars, edits, faults>>

(***************************************************************************)
(* The manager.                                                            *)
(***************************************************************************)
Acquire(p) ==
    /\ phase[p] = "standby"
    /\ lease = Nobody
    /\ lease' = p
    /\ phase' = [phase EXCEPT ![p] = "active"]
    /\ UNCHANGED <<creds, workspace, lost, shown, worldVars, edits, faults>>

\* After the lease's duration; the last holder need not have noticed.
ExpireLease ==
    /\ lease = Unrenewed
    /\ lease' = Nobody
    /\ UNCHANGED <<processVars, shown, worldVars, edits, faults>>

\* The leader's renewals fail.  It goes on until it notices.
LoseLease(p) ==
    /\ lease = p
    /\ Fault
    /\ lease' = Unrenewed
    /\ UNCHANGED <<processVars, shown, worldVars, edits>>

\* It gives up renewing: mgr.Start returns an error, main exits.
StopLeading(p) ==
    /\ LeaderElect
    /\ phase[p] = "active" /\ lease # p
    /\ Exit(p)
    /\ UNCHANGED <<worldVars, edits, faults>>

\* The node fails, the pod is evicted, SIGTERM.
Kill(p) ==
    /\ phase[p] # "down"
    /\ Fault
    /\ Exit(p)
    /\ UNCHANGED <<worldVars, edits>>

Next ==
    \/ EditSecret \/ ChangePassword \/ ChangeWorkspaces
    \/ ExpireLease
    \/ \E p \in Processes :
          \/ Launch(p) \/ StartStep(p) \/ Acquire(p) \/ StopLeading(p) \/ Deadline(p)
          \/ RefuseCall(p) \/ LoseCall(p) \/ LoseLease(p) \/ Kill(p)

Spec == Init /\ [][Next]_vars

(***************************************************************************)
(* Fairness: the kubelet restarts containers, a process runs, deadlines    *)
(* pass, leases expire, standbys try for them and leaders renew them.      *)
(***************************************************************************)
Fairness ==
    /\ WF_vars(ExpireLease)
    /\ \A p \in Processes :
          /\ WF_vars(Launch(p))
          /\ WF_vars(StartStep(p))
          /\ WF_vars(Deadline(p))
          /\ WF_vars(Acquire(p))
          /\ WF_vars(StopLeading(p))

FairSpec == Spec /\ Fairness

(***************************************************************************)
(* Properties.                                                             *)
(***************************************************************************)
TypeOK ==
    /\ phase \in [Processes -> {"down"} \cup Calls \cup Running]
    /\ creds \in [Processes -> Secret]
    /\ workspace \in [Processes -> Workspaces \cup {Unset}]
    /\ lost \subseteq Processes
    /\ lease \in Processes \cup {Nobody, Unrenewed}
    /\ secret \in Secret
    /\ password \in Passwords
    /\ list \in Lists
    /\ shown \in [Processes -> SUBSET Lists]
    /\ edits \in Nat /\ faults \in Nat

\* The chart's README: "Manager replicas (only one leads)".  An old leader may work
\* beside the new one for a while, but once no more leases are lost at most one process
\* has its controllers running.  (Replicas is about two that do.)
OneLeaderInTheEnd ==
    <>[](LeaderElect => Cardinality({p \in Processes : phase[p] = "active"}) <= 1)

\* Does l name the workspace w as the first of that name, or as its first of all?
FirstIn(l, name, w) ==
    \E i \in DOMAIN l :
       /\ l[i].id = w
       /\ IF name = Unset THEN i = 1
          ELSE l[i].name = name /\ \A j \in 1..(i - 1) : l[j].name # name

\* README.md: "workspaceId ... takes precedence over workspaceName".  No controller
\* runs before its process knows its workspace.  It is the one the Secret of its start
\* names by ID; or else the first one of the Secret's name, or the first of all if it
\* has none, in a list databasus had between the launch and the look-up.  It stays so
\* however Secret and list change later.
WorkspaceAsNamed ==
    \A p \in Processes : phase[p] \in Running =>
       \/ creds[p].id # Unset /\ workspace[p] = creds[p].id
       \/ creds[p].id = Unset /\ \E l \in shown[p] : FirstIn(l, creds[p].name, workspace[p])

\* The Secret and databasus are such that a start succeeds.
InOrder ==
    /\ secret.password = password
    /\ secret.id # Unset \/ Matches(secret.name) # {}

\* Once Secret and databasus are in order, every replica comes up and one leads:
\* no start hangs, and no death, refused or unanswered call, edited Secret or lease
\* of a dead leader is the end.
EventuallyActive ==
    <>[](InOrder => /\ \A p \in Processes : phase[p] \in Running
                    /\ \E p \in Processes : phase[p] = "active")
=============================================================================
