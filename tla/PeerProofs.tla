------------------------------ MODULE PeerProofs ------------------------------
(***************************************************************************)
(* A step of one process of ResourceController while another process works *)
(* on the same objects and the same records.  The other process is what it *)
(* may still do: the versions of objects it knows, and what the call it is *)
(* in has done at databasus and not yet told the API server.  None of that *)
(* changes in a step of this process, but that the other one hears of the  *)
(* version this one has stored.                                            *)
(*                                                                         *)
(* Much of the invariant of ResourceProofs fails with two processes: one   *)
(* may push for an object whose finalizer the other has removed, or save   *)
(* an older spec over what the other has reported.  What remains is that an*)
(* ID has one object, that a doomed record has no live object, and that    *)
(* what is gone stays away, now of everything that either process knows.   *)
(* Joint says so, and says the same of both processes: ReplicasProofs      *)
(* takes it from one side and from the other.                              *)
(***************************************************************************)
EXTENDS ResourceProofs

VARIABLES
    otherCopies,  \* otherCopies[n]: the versions of n the other process knows
    otherSaved,   \* <<n, id>>: it has saved a record for n and is to report its ID
    otherFresh,   \* the ID it is to report, if databasus has just handed it out
    otherGone     \* the ID whose record it has deleted, before the finalizer is

\* The other process stands still and watches.
Apart ==
    /\ \A n \in Names : \A o \in otherCopies'[n] : o \in otherCopies[n] \/ o = api'[n]
    /\ UNCHANGED <<otherSaved, otherFresh, otherGone>>

\* What this process has done, of the same kind.
OwnSaved(n, id) == pc = "reportSynced" /\ job.key = n /\ job.id = id

OwnFresh(id) == pc = "reportSynced" /\ job.obj.status.id = NoId /\ job.id = id

OwnGone(id) == pc = "removeFinalizer" /\ job.obj.status.id = id

(***************************************************************************)
(* The invariant.                                                          *)
(***************************************************************************)
AllCopies(n) == CopiesOf(n) \cup otherCopies[n]

AllNamed(n, id) == \E o \in AllCopies(n) : o.status.id = id

AllClaims(n, id) == Claims(n, id) \/ AllNamed(n, id) \/ <<n, id>> \in otherSaved

AllDoomed(id) ==
    \/ Doomed(id)
    \/ \E n \in Names : \E o \in AllCopies(n) : o.deleting /\ o.status.id = id

AllCopied == \A n \in Names : \A o \in AllCopies(n) : o \in Object /\ IsCopy(n, o)

AllUnshared ==
    /\ \A id \in Ids, n \in Names : AllClaims(n, id) => id \in used
    /\ \A id \in Ids, m, n \in Names : AllClaims(m, id) /\ AllClaims(n, id) => m = n

AllDead == \A id \in Ids : AllDoomed(id) => Dead(id)

\* An ID that was just handed out is in nobody's copy, in no late request, and the
\* other process is not to report it.
AllFresh ==
    \A id \in Ids : OwnFresh(id) \/ id \in otherFresh =>
       /\ id \in used
       /\ \A n \in Names : ~AllNamed(n, id)
       /\ \A q \in late : q.row.id # id
       /\ \A n \in Names : OwnFresh(id) => <<n, id>> \notin otherSaved
       /\ \A n \in Names : id \in otherFresh => ~OwnSaved(n, id)

AllGone ==
    \A id \in Ids : OwnGone(id) \/ id \in otherGone => id \in used /\ RowOf(id) = {}

Joint ==
    /\ AllCopied
    /\ IdUnderFinalizer
    /\ RecordedRowRemoved
    /\ AllUnshared
    /\ AllDead
    /\ AllFresh
    /\ AllGone

\* What the worker's locals say of themselves.
JobHonest ==
    /\ PushLive
    /\ pc \in PushSteps => job.obj.finalizer
    /\ pc \in DeleteSteps => job.obj.deleting
    /\ pc = "reportSynced" => job.id = job.obj.status.id \/ job.obj.status.id = NoId

PInv == TypeOK /\ JobHonest /\ Joint

(***************************************************************************)
(* What a step relies on holds next to another process, too.               *)
(***************************************************************************)
LEMMA JointBasis ==
    ASSUME PInv
    PROVE  Basis
<1>1. TypeOK /\ IdUnderFinalizer /\ JobHonest /\ ServerTypeOK /\ LocalTypeOK
  BY TypeParts DEF PInv, Joint
<1>2. ASSUME pc # "idle" PROVE IsCopy(job.key, job.obj)
  <2>1. job.key \in Names /\ job.obj \in CopiesOf(job.key)
    BY <1>1, <1>2, JobClaims, JobTypes
  <2> QED
    BY <2>1 DEF PInv, Joint, AllCopied, AllCopies
<1>3. ASSUME pc = "removeFinalizer" PROVE RowOf(job.obj.status.id) = {}
  <2>1. job.obj.status.id \in Ids \cup {NoId}
    BY <1>1, JobRowTypes
  <2>2. CASE job.obj.status.id = NoId
    BY <1>1, <2>2, NoRowUnnamed
  <2>3. CASE job.obj.status.id \in Ids
    BY <1>3, <2>3 DEF PInv, Joint, AllGone, OwnGone
  <2> QED
    BY <2>1, <2>2, <2>3
<1> QED
  BY <1>1, <1>2, <1>3 DEF JobHonest, Basis

LEMMA JointOwn ==
    ASSUME Joint
    PROVE  Unshared /\ DoomedDead
<1>1. \A n \in Names, id \in Ids : Claims(n, id) => AllClaims(n, id)
  BY DEF AllClaims
<1>2. \A id \in Ids : Doomed(id) => AllDoomed(id)
  BY DEF AllDoomed
<1> QED
  BY <1>1, <1>2 DEF Joint, AllUnshared, Unshared, AllDead, DoomedDead

LEMMA JointFresh ==
    ASSUME Joint
    PROVE  Fresh
  BY DEF Joint, AllFresh, OwnFresh, AllNamed, AllCopies, Named, Fresh

(***************************************************************************)
(* What a step adds to what both processes know.                           *)
(***************************************************************************)
LEMMA AllGrow ==
    ASSUME CopiesGrow, Apart, NEW n \in Names, NEW o \in AllCopies(n)'
    PROVE  o \in AllCopies(n) \/ o = api'[n]
  BY DEF AllCopies, CopiesGrow, Apart

LEMMA AllStay ==
    ASSUME CopiesGrow, Apart, api' = api, NEW n \in Names, NEW o \in AllCopies(n)'
    PROVE  o \in AllCopies(n)
  BY AllGrow, InCopies DEF AllCopies

LEMMA NewCopy ==
    ASSUME NEW n
    PROVE  api'[n] \in CopiesOf(n)'
  BY DEF CopiesOf

LEMMA AllNamedStep ==
    ASSUME CopiesGrow, Apart, NEW n \in Names, NEW id, AllNamed(n, id)'
    PROVE  AllNamed(n, id) \/ Named(n, id)'
<1>1. PICK o \in AllCopies(n)' : o.status.id = id
  BY DEF AllNamed
<1> QED
  BY <1>1, AllGrow, NewCopy DEF AllNamed, Named

LEMMA AllClaimsStep ==
    ASSUME CopiesGrow, Apart, NEW n \in Names, NEW id, AllClaims(n, id)'
    PROVE  AllClaims(n, id) \/ Claims(n, id)'
<1>1. AllNamed(n, id)' => AllNamed(n, id) \/ Named(n, id)'
  BY AllNamedStep
<1> QED
  BY <1>1 DEF AllClaims, Claims, Apart

LEMMA AllDoomedStep ==
    ASSUME CopiesGrow, Apart, NEW id, AllDoomed(id)'
    PROVE  AllDoomed(id) \/ Doomed(id)'
<1>1. ASSUME NEW n \in Names, NEW o \in AllCopies(n)', o.deleting, o.status.id = id
      PROVE  AllDoomed(id) \/ Doomed(id)'
  <2>1. CASE o \in AllCopies(n)
    BY <1>1, <2>1 DEF AllDoomed
  <2>2. CASE o = api'[n]
    BY <1>1, <2>2, NewCopy DEF Doomed
  <2> QED
    BY <1>1, <2>1, <2>2, AllGrow
<1> QED
  BY <1>1 DEF AllDoomed

\* A doomed record has been claimed.
LEMMA AllDoomedClaims ==
    ASSUME TypeOK, NEW id \in Ids, AllDoomed(id)
    PROVE  \E n \in Names : AllClaims(n, id)
<1>1. CASE Doomed(id)
  BY <1>1, DoomedClaims DEF AllClaims
<1>2. ASSUME NEW n \in Names, NEW o \in AllCopies(n), o.status.id = id
      PROVE  AllClaims(n, id)
  BY <1>2 DEF AllClaims, AllNamed
<1> QED
  BY <1>1, <1>2 DEF AllDoomed

\* Objects and the worker claim the IDs they name.
LEMMA PresentClaims ==
    ASSUME NEW n \in Names
    PROVE  AllClaims(n, api[n].status.id) /\ AllNamed(n, api[n].status.id)
<1>1. api[n] \in AllCopies(n)
  BY InCopies DEF AllCopies
<1> QED
  BY <1>1 DEF AllClaims, AllNamed

LEMMA WorkerClaims ==
    ASSUME pc # "idle"
    PROVE  AllClaims(job.key, job.obj.status.id) /\ AllNamed(job.key, job.obj.status.id)
<1>1. job.obj \in AllCopies(job.key)
  BY JobClaims DEF AllCopies
<1> QED
  BY <1>1 DEF AllClaims, AllNamed

(***************************************************************************)
(* One part of Joint after the other.                                      *)
(***************************************************************************)
LEMMA ClaimsStep ==
    ASSUME AllUnshared, CopiesGrow, Apart,
           ClaimsKept \/ \E m \in Names, fresh \in Ids : ClaimAdded(m, fresh)
    PROVE  AllUnshared'
<1>1. \A n \in Names, id \in Ids : AllClaims(n, id)' => AllClaims(n, id) \/ Claims(n, id)'
  BY AllClaimsStep
<1>2. \A n \in Names, id \in Ids : Claims(n, id) => AllClaims(n, id)
  BY DEF AllClaims
<1>3. CASE ClaimsKept
  BY <1>1, <1>2, <1>3 DEF AllUnshared, ClaimsKept
<1>4. ASSUME NEW m \in Names, NEW fresh \in Ids, ClaimAdded(m, fresh) PROVE AllUnshared'
  <2>1. \A n \in Names, id \in Ids :
           AllClaims(n, id)' => AllClaims(n, id) \/ (n = m /\ id = fresh)
    BY <1>1, <1>2, <1>4 DEF ClaimAdded
  <2>2. fresh \notin used /\ used' = used \cup {fresh}
    BY <1>4 DEF ClaimAdded
  <2> QED
    BY <2>1, <2>2 DEF AllUnshared
<1> QED
  BY <1>3, <1>4

LEMMA ServedAllDead ==
    ASSUME TypeOK, AllUnshared, AllDead, CopiesGrow, Apart, Served
    PROVE  AllDead'
<1> SUFFICES ASSUME NEW id \in Ids, AllDoomed(id)' PROVE Dead(id)'
  BY DEF AllDead
<1>1. AllDoomed(id)
  <2>1. AllDoomed(id) \/ Doomed(id)'
    BY AllDoomedStep
  <2>2. Doomed(id)' => Doomed(id)
    BY ServedDoomed DEF Served
  <2> QED
    BY <2>1, <2>2 DEF AllDoomed
<1>2. id \in used
  BY <1>1, AllDoomedClaims DEF AllUnshared
<1> QED
  BY <1>1, <1>2, ServedDead DEF AllDead

LEMMA MovedAllDead ==
    ASSUME AllUnshared, AllDead, AllFresh, CopiesGrow, Apart, NEW m \in Names, Moved(m)
    PROVE  AllDead'
<1> SUFFICES ASSUME NEW id \in Ids, AllDoomed(id)' PROVE Dead(id)'
  BY DEF AllDead
<1>1. AllDoomed(id) \/ (Marked(m) /\ api[m].status.id = id)
  <2>1. AllDoomed(id) \/ Doomed(id)'
    BY AllDoomedStep
  <2>2. Doomed(id)' => Doomed(id) \/ (Marked(m) /\ api[m].status.id = id)
    BY MovedDoomed
  <2> QED
    BY <2>1, <2>2 DEF AllDoomed
<1>2. CASE Marked(m) /\ api[m].status.id = id
  <2>1. \A n \in Names : api[n].status.id = id => n = m
    BY <1>2, PresentClaims DEF AllUnshared
  <2> QED
    BY <1>2, <2>1, MarkedDead
<1>3. CASE AllDoomed(id)
  <2>1. ~OwnFresh(id)
    <3> SUFFICES ASSUME OwnFresh(id) PROVE FALSE
      OBVIOUS
    <3>1. (\A n \in Names : ~AllNamed(n, id)) /\ \A q \in late : q.row.id # id
      BY DEF AllFresh
    <3>2. \A n \in Names : \A o \in CopiesOf(n) : o \in AllCopies(n)
      BY DEF AllCopies
    <3> QED
      BY <1>3, <3>1, <3>2 DEF AllDoomed, Doomed, AllNamed
  <2>2. SuccessNoted(m) /\ api[m].status.id = NoId => job.id # id
    BY <2>1 DEF OwnFresh, SuccessNoted
  <2>3. Dead(id)
    BY <1>3 DEF AllDead
  <2> QED
    BY <2>2, <2>3, MovedDead
<1> QED
  BY <1>1, <1>2, <1>3

LEMMA UsedStays ==
    ASSUME Served
    PROVE  used \subseteq used'
  BY DEF Served, Kept, Inserted, Overwritten, Rewritten, Removed, Lost

\* A late request names an ID that somebody else names, too, or it was late before.
LEMMA LateNamed ==
    ASSUME TypeOK, LateGrows, NEW q \in late'
    PROVE  q \in late \/ \E n \in Names : AllNamed(n, q.row.id)
<1>1. CASE pc # "idle" /\ q.row = JobRow
  BY <1>1, WorkerClaims, JobRowTypes
<1> QED
  BY <1>1 DEF LateGrows

\* An ID nobody has a copy of stays so, but by way of the worker's report.
LEMMA UnnamedStays ==
    ASSUME CopiesGrow, Apart, NEW n \in Names, NEW id, ~AllNamed(n, id),
           api'[n].status.id # id
    PROVE  ~AllNamed(n, id)'
  BY AllGrow DEF AllNamed

LEMMA ServedAllFresh ==
    ASSUME TypeOK, AllUnshared, AllFresh, CopiesGrow, Apart, JobMoves, Served
    PROVE  AllFresh'
<1> SUFFICES ASSUME NEW id \in Ids, OwnFresh(id)' \/ id \in otherFresh'
             PROVE  /\ id \in used'
                    /\ \A n \in Names : ~AllNamed(n, id)'
                    /\ \A q \in late' : q.row.id # id
                    /\ \A n \in Names : OwnFresh(id)' => <<n, id>> \notin otherSaved'
                    /\ \A n \in Names : id \in otherFresh' => ~OwnSaved(n, id)'
  BY DEF AllFresh
<1>1. /\ api' = api /\ LateGrows /\ used \subseteq used'
      /\ otherFresh' = otherFresh /\ otherSaved' = otherSaved
  BY UsedStays DEF Served, Apart
<1>2. ASSUME \A n \in Names : ~AllNamed(n, id), \A q \in late : q.row.id # id
      PROVE  (\A n \in Names : ~AllNamed(n, id)') /\ \A q \in late' : q.row.id # id
  <2>1. \A n \in Names : ~AllNamed(n, id)'
    BY <1>1, <1>2, UnnamedStays, PresentClaims
  <2> QED
    BY <1>1, <1>2, <2>1, LateNamed
\* What the worker comes to report: the ID of the row it has inserted, or one it knew.
<1>3. \/ UNCHANGED <<pc, job>>
      \/ pc' # "reportSynced"
      \/ \E r \in Row : Inserted(r) /\ JobSaved /\ job'.id = r.id
      \/ Rewritten
  BY DEF Served, Kept, QuietJob, Inserted, Overwritten, Removed, Lost
<1>4. CASE id \in otherFresh
  <2>1. /\ id \in used
        /\ \A n \in Names : ~AllNamed(n, id) /\ ~OwnSaved(n, id)
        /\ \A q \in late : q.row.id # id
    BY <1>4 DEF AllFresh
  <2>2. ASSUME pc' = "reportSynced", job'.id = id PROVE FALSE
    <3>1. CASE UNCHANGED <<pc, job>>
      BY <2>1, <2>2, <3>1, JobRowTypes DEF OwnSaved
    <3>2. ASSUME NEW r \in Row, Inserted(r), job'.id = r.id PROVE FALSE
      BY <2>1, <2>2, <3>2 DEF Inserted
    <3>3. CASE Rewritten
      <4>1. AllNamed(job.key, id)
        BY <2>2, <3>3, WorkerClaims DEF Rewritten, JobSaved
      <4> QED
        BY <2>1, <4>1, JobRowTypes
    <3> QED
      BY <1>3, <2>2, <3>1, <3>2, <3>3
  <2>3. ~OwnFresh(id)' /\ \A n \in Names : ~OwnSaved(n, id)'
    BY <2>2 DEF OwnFresh, OwnSaved
  <2> QED
    BY <1>1, <1>2, <2>1, <2>3
<1>5. CASE OwnFresh(id)' /\ id \notin otherFresh
  <2>1. CASE UNCHANGED <<pc, job>>
    <3>1. OwnFresh(id)
      BY <1>5, <2>1 DEF OwnFresh
    <3>2. /\ id \in used
          /\ \A n \in Names : ~AllNamed(n, id) /\ <<n, id>> \notin otherSaved
          /\ \A q \in late : q.row.id # id
      BY <3>1 DEF AllFresh
    <3> QED
      BY <1>1, <1>2, <1>5, <3>2
  <2>2. ASSUME NEW r \in Row, Inserted(r), job'.id = r.id
        PROVE  /\ id \in used'
               /\ \A n \in Names : ~AllNamed(n, id) /\ <<n, id>> \notin otherSaved
               /\ \A q \in late : q.row.id # id
    <3>1. r.id = id /\ id \notin used /\ id \in used'
      BY <1>5, <2>2 DEF OwnFresh, Inserted
    <3>2. \A n \in Names : ~AllClaims(n, id)
      BY <3>1 DEF AllUnshared
    <3>3. ASSUME NEW q \in late, q.row.id = id PROVE FALSE
      BY <3>2, <3>3, LateTypes DEF AllClaims, Claims
    <3> QED
      BY <3>1, <3>2, <3>3 DEF AllClaims
  <2>3. CASE Rewritten
    BY <1>5, <2>3 DEF OwnFresh, Rewritten, JobSaved, SameJob
  <2> QED
    BY <1>1, <1>2, <1>3, <1>5, <2>1, <2>2, <2>3 DEF OwnFresh
<1> QED
  BY <1>1, <1>4, <1>5

LEMMA MovedAllFresh ==
    ASSUME TypeOK, AllFresh, CopiesGrow, Apart, NEW m \in Names, Moved(m)
    PROVE  AllFresh'
<1> SUFFICES ASSUME NEW id \in Ids, OwnFresh(id)' \/ id \in otherFresh'
             PROVE  /\ id \in used'
                    /\ \A n \in Names : ~AllNamed(n, id)'
                    /\ \A q \in late' : q.row.id # id
                    /\ \A n \in Names : OwnFresh(id)' => <<n, id>> \notin otherSaved'
                    /\ \A n \in Names : id \in otherFresh' => ~OwnSaved(n, id)'
  BY DEF AllFresh
<1>1. /\ pc' = "idle" \/ UNCHANGED <<pc, job>>
      /\ used' = used /\ late' = late
      /\ otherFresh' = otherFresh /\ otherSaved' = otherSaved
      /\ \A n \in Names \ {m} : api'[n] = api[n]
  BY DEF Moved, serverVars, Apart
<1>2. OwnFresh(id)' => OwnFresh(id) /\ UNCHANGED <<pc, job>>
  BY <1>1 DEF OwnFresh
<1>3. \A n \in Names : OwnSaved(n, id)' => OwnSaved(n, id)
  BY <1>1 DEF OwnSaved
<1>4. /\ id \in used
      /\ \A n \in Names : ~AllNamed(n, id)
      /\ \A q \in late : q.row.id # id
      /\ \A n \in Names : OwnFresh(id) => <<n, id>> \notin otherSaved
      /\ \A n \in Names : id \in otherFresh => ~OwnSaved(n, id)
  BY <1>1, <1>2 DEF AllFresh
\* What is reported in this step is another ID.
<1>5. ~(SuccessNoted(m) /\ job.id = id)
  <2> SUFFICES ASSUME SuccessNoted(m), job.id = id PROVE FALSE
    OBVIOUS
  <2>1. OwnSaved(m, id) /\ pc = "reportSynced" /\ pc' = "idle"
    BY DEF SuccessNoted, OwnSaved
  <2>2. ~OwnFresh(id)'
    BY <1>2, <2>1
  <2> QED
    BY <1>1, <1>4, <2>1, <2>2
<1>6. \A n \in Names : api[n].status.id # id
  BY <1>4, PresentClaims
<1>7. ASSUME NEW n \in Names PROVE api'[n].status.id # id
  <2>1. CASE n # m
    BY <1>1, <1>6, <2>1
  <2>2. CASE n = m
    BY <1>5, <1>6, <2>2, MovedId, ResourceAssumption
  <2> QED
    BY <2>1, <2>2
<1>8. \A n \in Names : ~AllNamed(n, id)'
  BY <1>4, <1>7, UnnamedStays
<1> QED
  BY <1>1, <1>2, <1>3, <1>4, <1>8

\* A record that either process has deleted is not stored again.
LEMMA ServedAllGone ==
    ASSUME TypeOK, AllUnshared, AllGone, Apart, JobMoves, Served
    PROVE  AllGone'
<1> SUFFICES ASSUME NEW id \in Ids, OwnGone(id)' \/ id \in otherGone'
             PROVE  id \in used' /\ RowOf(id)' = {}
  BY DEF AllGone
<1>1. CASE OwnGone(id) \/ id \in otherGone
  <2>1. id \in used /\ RowOf(id) = {}
    BY <1>1 DEF AllGone
  <2> QED
    BY <2>1, UsedStays, RowStaysAway
<1>2. CASE JobGoesOn /\ OwnGone(id)'
  <2>1. Remove(id) /\ AllClaims(job.key, id) /\ job.key \in Names
    BY <1>2, WorkerClaims, JobRowTypes DEF JobGoesOn, SameJob, OwnGone
  <2>2. id \in used
    BY <2>1 DEF AllUnshared
  <2>3. RowOf(id)' = {}
    BY <2>1 DEF Remove, RowOf
  <2> QED
    BY <2>2, <2>3, UsedStays
<1>3. OwnGone(id)' /\ ~OwnGone(id) => JobGoesOn
  BY ResourceAssumption DEF OwnGone, JobMoves, JobBegins, JobSaved
<1> QED
  BY <1>1, <1>2, <1>3 DEF Apart

LEMMA MovedAllGone ==
    ASSUME AllGone, Apart, NEW m \in Names, Moved(m)
    PROVE  AllGone'
<1>1. /\ used' = used /\ \A id : RowOf(id)' = RowOf(id)
      /\ otherGone' = otherGone
  BY DEF Moved, serverVars, RowOf, Apart
<1>2. \A id \in Ids : OwnGone(id)' => OwnGone(id)
  BY DEF Moved, OwnGone
<1> QED
  BY <1>1, <1>2 DEF AllGone

\* Versions only grow.
LEMMA CopiedStep ==
    ASSUME TypeOK, TypeOK', AllCopied, CopiesGrow, Apart,
           Served \/ \E m \in Names : Moved(m)
    PROVE  AllCopied'
<1> SUFFICES ASSUME NEW n \in Names, NEW o \in AllCopies(n)'
             PROVE  /\ o \in Object /\ o.rv <= api'[n].rv
                    /\ o.rv = api'[n].rv => o = api'[n]
  BY DEF AllCopied, IsCopy
<1>1. api[n].rv \in Nat /\ api'[n] \in Object /\ api'[n].rv \in Nat
  BY GenTypes DEF TypeOK, Object, ObjectsWith
<1>2. CASE o = api'[n]
  BY <1>1, <1>2
<1>3. CASE o \in AllCopies(n)
  <2>1. o \in Object /\ o.rv \in Nat /\ o.rv <= api[n].rv /\ (o.rv = api[n].rv => o = api[n])
    BY <1>3 DEF AllCopied, IsCopy, Object, ObjectsWith
  <2>2. api'[n] = api[n] \/ api'[n].rv = api[n].rv + 1
    BY DEF Served, Moved
  <2> QED
    BY <1>1, <2>1, <2>2
<1> QED
  BY <1>2, <1>3, AllGrow

LEMMA MovedUnder ==
    ASSUME IdUnderFinalizer, JobHonest, NEW m \in Names, Moved(m)
    PROVE  IdUnderFinalizer'
<1> SUFFICES ASSUME NEW n \in Names, api'[n].exists, api'[n].status.id # NoId
             PROVE  api'[n].finalizer
  BY DEF IdUnderFinalizer
<1>1. CASE n # m
  BY <1>1 DEF Moved, IdUnderFinalizer
<1>2. CASE n = m
  <2>1. CASE Created(n) \/ Vanished(n) \/ Finished(n)
    BY <2>1 DEF Created, Vanished, Finished, NoStatus
  <2>2. CASE Edited(n) \/ Marked(n) \/ Guarded(n) \/ FailureNoted(n)
    BY <2>2 DEF Edited, Marked, Guarded, FailureNoted, SameSpec, Live, IdUnderFinalizer
  <2>3. CASE SuccessNoted(n)
    BY <2>3 DEF SuccessNoted, SameSpec, JobHonest, PushSteps
  <2> QED
    BY <1>2, <2>1, <2>2, <2>3 DEF Moved
<1> QED
  BY <1>1, <1>2

LEMMA ServedRemoved ==
    ASSUME TypeOK, RecordedRowRemoved, AllUnshared, Served
    PROVE  RecordedRowRemoved'
<1> SUFFICES ASSUME NEW n \in Names, ~api'[n].exists, api'[n].status.id # NoId
             PROVE  {r \in rows' : r.id = api'[n].status.id} = {}
  BY DEF RecordedRowRemoved, RowOf
<1>1. api'[n] = api[n]
  BY DEF Served
<1>2. PICK id \in Ids : id = api[n].status.id
  BY <1>1 DEF TypeOK, Object, ObjectsWith, Status
<1>3. id \in used
  BY <1>2, PresentClaims DEF AllUnshared
<1>4. RowOf(id) = {}
  BY <1>1, <1>2 DEF RecordedRowRemoved
<1>5. RowOf(id)' = {}
  BY <1>3, <1>4, RowStaysAway
<1> QED
  BY <1>1, <1>2, <1>5 DEF RowOf

LEMMA MovedRemoved ==
    ASSUME RecordedRowRemoved, NEW m \in Names, Moved(m)
    PROVE  RecordedRowRemoved'
<1> SUFFICES ASSUME NEW n \in Names, ~api'[n].exists, api'[n].status.id # NoId
             PROVE  {r \in rows' : r.id = api'[n].status.id} = {}
  BY DEF RecordedRowRemoved, RowOf
<1>1. rows' = rows
  BY DEF Moved, serverVars
<1>2. RowOf(api'[n].status.id) = {}
  <2>1. CASE n # m
    BY <2>1 DEF Moved, RecordedRowRemoved
  <2>2. CASE n = m
    <3>1. CASE Vanished(n) \/ Finished(n)
      BY <3>1 DEF Vanished, Finished
    <3>2. CASE \/ Created(n) \/ Edited(n) \/ Marked(n) \/ Guarded(n) \/ FailureNoted(n)
               \/ SuccessNoted(n)
      BY <3>2 DEF Created, Edited, Marked, Guarded, FailureNoted, SuccessNoted, SameSpec, Live
    <3> QED
      BY <2>2, <3>1, <3>2 DEF Moved
  <2> QED
    BY <2>1, <2>2
<1> QED
  BY <1>1, <1>2 DEF RowOf

LEMMA HonestStep ==
    ASSUME JobHonest, JobMoves, Served \/ \E m \in Names : Moved(m)
    PROVE  JobHonest'
<1>1. PushLive'
  BY NextPushLive DEF JobHonest
<1>2. pc' \in PushSteps => job'.obj.finalizer
  BY DEF JobHonest, JobMoves, JobBegins, JobGoesOn, JobSaved, SameJob, PushSteps
<1>3. pc' \in DeleteSteps => job'.obj.deleting
  BY DEF JobHonest, JobMoves, JobBegins, JobGoesOn, JobSaved, SameJob, DeleteSteps
<1>4. pc' = "reportSynced" => job'.id = job'.obj.status.id \/ job'.obj.status.id = NoId
  <2>1. \/ UNCHANGED <<pc, job>>
        \/ pc' # "reportSynced"
        \/ SameJob /\ (job.obj.status.id = NoId \/ job'.id = job.obj.status.id)
    BY DEF Served, Kept, QuietJob, Inserted, Overwritten, Rewritten, Removed, Lost, Moved,
       JobSaved
  <2> QED
    BY <2>1 DEF JobHonest, SameJob
<1> QED
  BY <1>1, <1>2, <1>3, <1>4 DEF JobHonest

(***************************************************************************)
(* The invariant is inductive, and the steps are RecordSync's.             *)
(***************************************************************************)
LEMMA PeerInit ==
    ASSUME Init, \A n \in Names : otherCopies[n] \subseteq {api[n]},
           otherSaved = {}, otherFresh = {}, otherGone = {}
    PROVE  PInv
<1>1. SInv /\ TypeOK /\ pc = "idle" /\ cache = api /\ rows = {} /\ late = {}
  BY InitSync DEF SInv, IInv, Init, KubeInit
<1>2. \A n \in Names : pending[n] = <<>> /\ api[n].status = NoStatus /\ ~api[n].deleting
  BY DEF Init, KubeInit, NeverCreated
<1>3. \A n \in Names : \A o \in AllCopies(n) : o = api[n]
  BY <1>1, <1>2 DEF AllCopies, CopiesOf
<1>4. JobHonest
  BY <1>1 DEF JobHonest, SInv, PushSteps, DeleteSteps
<1>5. AllCopied
  BY <1>1, <1>3 DEF AllCopied, IsCopy, TypeOK, Object, ObjectsWith
<1>6. \A n \in Names, id \in Ids : ~AllNamed(n, id)
  BY <1>2, <1>3, ResourceAssumption DEF AllNamed, NoStatus
<1>7. \A n \in Names, id \in Ids : ~AllClaims(n, id)
  <2>1. \A n \in Names, id \in Ids : ~Named(n, id)
    BY <1>6 DEF AllNamed, AllCopies, Named
  <2> QED
    BY <1>1, <1>6, <2>1 DEF AllClaims, Claims
<1>8. \A id \in Ids : ~AllDoomed(id)
  BY <1>1, <1>2, <1>3 DEF AllDoomed, Doomed, AllCopies
<1>9. AllUnshared /\ AllDead /\ AllFresh /\ AllGone
  BY <1>1, <1>7, <1>8 DEF AllUnshared, AllDead, AllFresh, OwnFresh, AllGone, OwnGone
<1>10. IdUnderFinalizer /\ RecordedRowRemoved
  BY <1>1 DEF SInv, IInv, ObjectInv
<1> QED
  BY <1>1, <1>4, <1>5, <1>9, <1>10 DEF PInv, Joint

LEMMA PeerStep ==
    ASSUME PInv, [Next]_vars, Apart
    PROVE  PInv'
<1>1. TypeOK /\ TypeOK' /\ JobHonest /\ CopiesGrow /\ JobMoves
  BY NextType, NextCopies, NextJob DEF PInv
<1>2. Served \/ \E m \in Names : Moved(m)
  BY JointBasis, NextServes
<1>3. AllCopied' /\ JobHonest'
  BY <1>1, <1>2, CopiedStep, HonestStep DEF PInv, Joint
<1>4. CASE Served
  <2>1. IdUnderFinalizer'
    BY <1>4 DEF Served, PInv, Joint, IdUnderFinalizer
  <2>2. RecordedRowRemoved'
    BY <1>1, <1>4, ServedRemoved DEF PInv, Joint
  <2>3. AllUnshared'
    BY <1>1, <1>4, ServedClaims, ClaimsStep DEF PInv, Joint
  <2>4. AllDead' /\ AllFresh' /\ AllGone'
    BY <1>1, <1>4, ServedAllDead, ServedAllFresh, ServedAllGone DEF PInv, Joint
  <2> QED
    BY <1>1, <1>3, <2>1, <2>2, <2>3, <2>4 DEF PInv, Joint
<1>5. ASSUME NEW m \in Names, Moved(m) PROVE PInv'
  <2>1. IdUnderFinalizer' /\ RecordedRowRemoved'
    BY <1>1, <1>5, MovedUnder, MovedRemoved DEF PInv, Joint
  <2>2. AllUnshared'
    BY <1>1, <1>5, MovedClaims, ClaimsStep DEF PInv, Joint
  <2>3. AllDead' /\ AllFresh' /\ AllGone'
    BY <1>1, <1>5, MovedAllDead, MovedAllFresh, MovedAllGone DEF PInv, Joint
  <2> QED
    BY <1>1, <1>3, <2>1, <2>2, <2>3 DEF PInv, Joint
<1> QED
  BY <1>2, <1>4, <1>5

LEMMA PeerImplements ==
    ASSUME PInv, [Next]_vars
    PROVE  [Promise!Next]_Promise!vars
<1>1. TypeOK /\ Unshared /\ DoomedDead /\ Fresh
  BY JointOwn, JointFresh DEF PInv
<1>2. Served \/ \E m \in Names : Moved(m)
  BY JointBasis, NextServes
<1> SUFFICES Promise!Next \/ Unseen
  BY UnseenStutters
<1> QED
  BY <1>1, <1>2, ServedImplements, MovedImplements

(***************************************************************************)
(* What no step of either process does.                                    *)
(***************************************************************************)
LEMMA PeerKeepsRows ==
    ASSUME PInv, [Next]_vars
    PROVE  RowsKept
<1> SUFFICES ASSUME NEW n \in Names, NEW r \in rows,
                    api[n].exists, ~api[n].deleting, api[n].status.id = r.id
             PROVE  ByStranger(r.id) \/ \E q \in rows' : q.id = r.id
  BY DEF RowsKept
<1>1. /\ TypeOK /\ Unshared /\ DoomedDead
      /\ Served \/ \E m \in Names : Moved(m)
  BY JointOwn, JointBasis, NextServes DEF PInv
<1>2. r.id \in Ids /\ r \in RowOf(r.id) /\ Live(api[n]) /\ Claims(n, r.id)
  BY <1>1, InCopies DEF TypeOK, RowOf, Live, Claims, Named
<1>3. CASE Rewritten
  <2>1. rows' = (rows \ RowOf(JobRow.id)) \cup {JobRow}
    BY <1>3 DEF Rewritten, Replace
  <2> QED
    BY <2>1 DEF RowOf
<1>4. CASE Served /\ ~Rewritten
  BY <1>1, <1>2, <1>4, ServedStays DEF RowOf
<1>5. CASE \E m \in Names : Moved(m)
  BY <1>5 DEF Moved, serverVars
<1> QED
  BY <1>1, <1>3, <1>4, <1>5

LEMMA PeerKeepsIds ==
    ASSUME PInv, [Next]_vars
    PROVE  IdKept
<1> SUFFICES ASSUME NEW n \in Names, api[n].exists, api'[n].exists, api[n].status.id # NoId
             PROVE  api'[n].status.id = api[n].status.id
  BY DEF IdKept
<1>1. CASE Served
  BY <1>1 DEF Served
<1>2. ASSUME NEW m \in Names, Moved(m) PROVE api'[n].status.id = api[n].status.id
  <2>1. CASE n # m
    BY <1>2, <2>1 DEF Moved
  <2>2. CASE n = m
    <3>1. ~Created(n) /\ ~Vanished(n) /\ ~Finished(n)
      BY DEF Created, Vanished, Finished
    <3>2. CASE Edited(n) \/ Marked(n) \/ Guarded(n) \/ FailureNoted(n)
      BY <3>2 DEF Edited, Marked, Guarded, FailureNoted
    <3>3. CASE SuccessNoted(n)
      BY <3>3 DEF SuccessNoted
    <3> QED
      BY <1>2, <2>2, <3>1, <3>2, <3>3 DEF Moved
  <2> QED
    BY <2>1, <2>2
<1> QED
  BY <1>1, <1>2, JointBasis, NextServes
===============================================================================
