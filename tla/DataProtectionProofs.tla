------------------------ MODULE DataProtectionProofs ------------------------
(***************************************************************************)
(* Proofs about the resources that save data and bring it back.            *)
(***************************************************************************)
EXTENDS OpenSearchRestore, Sequences, TLAPS

-----------------------------------------------------------------------------
(***************************************************************************)
(* OpenSearchRestore: types.                                               *)
(***************************************************************************)
Statuses ==
  [phase : Phases, started : BOOLEAN, indices : SUBSET RestoreIndices,
   shards : {"nil", "zero", "some"}]

\* Every lost record is the work of a fault.
TypeInv == TypeOK /\ rLost <= rFaults

\* No other phase is the empty one.
LEMMA NoPhaseIsNone ==
  NoPhase \notin {"Validating", "InProgress", "Completed", "Failed"}
  BY Zenon DEF NoPhase

\* Changing the phase of a status gives a status with that phase, and so do
\* the marks of the request.
LEMMA ChangedStatus ==
  ASSUME NEW s \in Statuses
  PROVE  /\ \A p \in Phases : /\ [s EXCEPT !.phase = p] \in Statuses
                              /\ [s EXCEPT !.phase = p].phase = p
         /\ [s EXCEPT !.phase = "InProgress", !.started = TRUE] \in Statuses
         /\ [s EXCEPT !.phase = "InProgress", !.started = TRUE].phase = "InProgress"
         /\ [s EXCEPT !.indices = RestoreIndices, !.shards = "some"] \in Statuses
         /\ [s EXCEPT !.shards = "zero"] \in Statuses
  BY Zenon DEF Statuses, Phases

\* So is the empty status.
LEMMA EmptyStatus == NoStatus \in Statuses
<1>1. {} \in SUBSET RestoreIndices  OBVIOUS
<1> QED  BY <1>1 DEF NoStatus, Statuses, Phases

\* What a status write does, whether it succeeds, is refused or fails.
LEMMA WriteOutcome ==
  ASSUME RestoreConstants, TypeInv, NEW s \in Statuses, updateStatus(s)
  PROVE  /\ stored' \in Statuses /\ before' \in Statuses
         /\ rFaults' \in 0..RestoreFaults /\ rLost' \in Nat /\ rLost' <= rFaults'
         /\ \/ ~stale /\ stored' = s /\ before' = stored /\ rLost' = rLost
            \/ stale /\ stored' = stored /\ before' = before /\ rLost' = rLost
            \/ stored' = stored /\ before' = before /\ rLost' = rLost + 1
<1>1. /\ stored \in Statuses /\ before \in Statuses
      /\ rFaults \in 0..RestoreFaults /\ rLost \in Nat /\ rLost <= rFaults
  BY DEF TypeInv, TypeOK, Statuses, RestoreConstants
<1> QED  BY <1>1 DEF updateStatus, Fault, May, RestoreConstants

\* Every step keeps the types.
LEMMA TypeInductive ==
  ASSUME RestoreConstants, TypeInv, [Next]_rVars
  PROVE  TypeInv'
<1> DEFINE Counted == /\ rFaults' \in 0..RestoreFaults /\ rLost' \in Nat
                      /\ rLost' <= rFaults'
           Written == {stored', before', copy'} \subseteq Statuses
           Rest == /\ rEnv' = rEnv
                   /\ snapshot' \in {"absent", "IN_PROGRESS", "SUCCESS", "PARTIAL",
                                     "FAILED"}
                   /\ repository' = repository /\ performed' \in Nat
                   /\ recovery' \in [RestoreIndices -> {"absent", "RUNNING", "DONE"}]
           Pass == /\ stale' \in BOOLEAN /\ rQueued' \in BOOLEAN
                   /\ rpc' \in {"idle", "announce", "validate", "start", "call",
                                "monitor", "fail"}
<1>0. /\ stored \in Statuses /\ before \in Statuses /\ copy \in Statuses
      /\ rFaults \in 0..RestoreFaults /\ rLost \in Nat /\ rLost <= rFaults
      /\ NoStatus \in Statuses /\ RestoreFaults \in Nat
  BY EmptyStatus DEF TypeInv, TypeOK, Statuses, RestoreConstants
<1>t. ASSUME Counted, Written, Rest, Pass PROVE TypeInv'
  <2>1. rLost' \in 0..(2 * RestoreFaults)
    BY <1>0, <1>t
  <2>2. rEnv \in SUBSET RestoreFaultKinds /\ repository \in BOOLEAN
    BY DEF TypeInv, TypeOK
  <2>3. {stored', before', copy'} \subseteq
          [phase : Phases, started : BOOLEAN, indices : SUBSET RestoreIndices,
           shards : {"nil", "zero", "some"}]
    BY <1>t DEF Statuses
  <2> HIDE DEF Written, RestoreFaultKinds, Phases
  <2> QED  BY <1>t, <2>1, <2>2, <2>3 DEF TypeInv, TypeOK
<1>r. osVars' = osVars /\ rEnv' = rEnv => Rest
  BY DEF osVars, TypeInv, TypeOK
<1>p. UNCHANGED <<stale, rQueued>>
        /\ rpc' \in {"idle", "announce", "validate", "start", "call", "monitor", "fail"}
        => Pass
  BY DEF TypeInv, TypeOK
<1>1. CASE Reconcile
  <2>1. ASSUME NEW s \in Statuses, Begin(s)
        PROVE  /\ copy' \in Statuses /\ rQueued' \in BOOLEAN
               /\ rpc' \in {"idle", "announce", "start", "monitor"}
    <3>1. rQueued' \in BOOLEAN
      <4>1. (s.phase \notin Terminal) \in BOOLEAN  OBVIOUS
      <4> QED  BY <2>1, <4>1, Zenon DEF Begin
    <3>2. rpc' \in {"idle", "announce", "start", "monitor"}
      BY <2>1 DEF Begin, Statuses, Phases
    <3>3. copy' = s
      BY <2>1, Zenon DEF Begin
    <3> QED  BY <2>1, <3>1, <3>2, <3>3
  <2>2. Counted
    <3>1. \/ UNCHANGED <<rFaults, rLost>>
          \/ /\ rFaults < RestoreFaults /\ rFaults' = rFaults + 1
             /\ rLost' = rLost \/ rLost' = rLost + 1
      BY <1>1, Zenon DEF Reconcile, Fault, May
    <3> QED  BY <1>0, <3>1
  <2>3. /\ copy' \in Statuses /\ rQueued' \in BOOLEAN
        /\ rpc' \in {"idle", "announce", "start", "monitor"}
    <3>1. CASE Begin(stored) \/ Begin(before)  BY <1>0, <2>1, <3>1
    <3>2. CASE UNCHANGED <<copy, rpc, rQueued>>
      BY <1>0, <1>1, <3>2 DEF Reconcile, TypeInv, TypeOK
    <3> QED  BY <1>1, <3>1, <3>2, Zenon DEF Reconcile
  <2>4. stale' \in BOOLEAN
    BY <1>1, Zenon DEF Reconcile, TypeInv, TypeOK
  <2>5. Written
    BY <1>0, <1>1, <2>3 DEF Reconcile
  <2> QED  BY <1>1, <1>r, <1>t, <2>2, <2>3, <2>4, <2>5 DEF Reconcile
<1>2. CASE AnnounceValidation
  <2>1. [copy EXCEPT !.phase = "Validating"] \in Statuses
    BY <1>0, ChangedStatus, Zenon DEF Phases
  <2> QED
    BY <1>2, <1>r, <1>t, <1>p, <2>1, WriteOutcome DEF AnnounceValidation, WriteAndGoOn
<1>3. CASE Validate
  <2>1. Counted
    BY <1>0, <1>3 DEF Validate, Fault, May
  <2> QED  BY <1>0, <1>3, <1>r, <1>t, <1>p, <2>1 DEF Validate
<1>4. CASE Fail
  <2>1. [copy EXCEPT !.phase = "Failed"] \in Statuses
    BY <1>0, ChangedStatus, Zenon DEF Phases
  <2> QED  BY <1>0, <1>4, <1>r, <1>t, <1>p, <2>1, WriteOutcome DEF Fail, Return
<1>5. CASE RecordStart
  <2>1. [copy EXCEPT !.phase = "InProgress", !.started = TRUE] \in Statuses
    BY <1>0, ChangedStatus, Zenon
  <2> QED  BY <1>5, <1>r, <1>t, <1>p, <2>1, WriteOutcome DEF RecordStart, WriteAndGoOn
<1>6. CASE RestoreSnapshot
  <2>1. Counted
    BY <1>0, <1>6 DEF RestoreSnapshot, Fault, May
  <2>2. Written
    <3>1. copy' \in Statuses
      BY <1>0, <1>6, ChangedStatus, Zenon DEF RestoreSnapshot
    <3> QED  BY <1>0, <1>6, <3>1 DEF RestoreSnapshot
  <2>3. Starts /\ rEnv' = rEnv => Rest
    BY DEF Starts, TypeInv, TypeOK
  <2>4. Rest
    BY <1>6, <1>r, <2>3 DEF RestoreSnapshot
  <2> QED  BY <1>6, <1>t, <1>p, <2>1, <2>2, <2>4 DEF RestoreSnapshot
<1>7. CASE monitorRestoreProgress
  <2>1. ASSUME NEW s \in Statuses, Return(s) PROVE Counted /\ Written /\ rpc' = "idle"
    BY <1>0, <2>1, WriteOutcome DEF Return
  <2>2. Counted /\ Written /\ rpc' = "idle"
    <3>1. /\ [copy EXCEPT !.phase = "Completed"] \in Statuses
          /\ [copy EXCEPT !.phase = "InProgress"] \in Statuses
      BY <1>0, ChangedStatus, Zenon DEF Phases
    <3>2. CASE Fault("read") /\ ReturnUnsaved
      BY <1>0, <3>2 DEF Fault, May, ReturnUnsaved
    <3> QED  BY <1>7, <2>1, <3>1, <3>2 DEF monitorRestoreProgress
  <2> QED  BY <1>7, <1>r, <1>t, <1>p, <2>2 DEF monitorRestoreProgress
<1>8. CASE (\E i \in RestoreIndices : Recover(i)) \/ EndSnapshot
  <2>1. Rest
    BY <1>8 DEF Recover, EndSnapshot, TypeInv, TypeOK
  <2> QED  BY <1>0, <1>8, <1>t, <1>p, <2>1 DEF Recover, EndSnapshot, TypeInv, TypeOK
<1>9. CASE Crash \/ Edit
  <2>1. Counted
    BY <1>0, <1>9 DEF Crash, Edit, Fault, May
  <2>2. Written /\ Pass
    BY <1>0, <1>9, Zenon DEF Crash, Edit, TypeInv, TypeOK
  <2> QED  BY <1>9, <1>r, <1>t, <2>1, <2>2 DEF Crash, Edit
<1>10. CASE UNCHANGED rVars
  BY <1>10 DEF rVars, osVars, TypeInv, TypeOK
<1> QED
  BY <1>1, <1>2, <1>3, <1>4, <1>5, <1>6, <1>7, <1>8, <1>9, <1>10 DEF Next, Operator

\* The types hold throughout.
LEMMA TypeInvariant == ASSUME RestoreConstants PROVE Spec => []TypeInv
<1>1. Init => TypeInv
  <2> SUFFICES ASSUME Init PROVE TypeInv  OBVIOUS
  <2>1. recovery \in [RestoreIndices -> {"absent", "RUNNING", "DONE"}]
    BY DEF Init
  <2>2. {stored, before, copy} \subseteq
          [phase : Phases, started : BOOLEAN, indices : SUBSET RestoreIndices,
           shards : {"nil", "zero", "some"}]
    BY EmptyStatus DEF Init, Statuses
  <2>3. /\ rFaults \in 0..RestoreFaults /\ rLost \in 0..(2 * RestoreFaults)
        /\ rLost <= rFaults /\ performed \in Nat /\ rEnv \in SUBSET RestoreFaultKinds
    BY DEF Init, RestoreConstants
  <2> QED  BY <2>1, <2>2, <2>3, Zenon DEF Init, TypeInv, TypeOK
<1>2. TypeInv /\ [Next]_rVars => TypeInv'
  BY TypeInductive
<1> QED  BY <1>1, <1>2, PTL DEF Spec

\* A restore's reconciler keeps its status, its copies and the counts of what
\* went wrong in their ranges.
THEOREM RestoreTypeCorrect == ASSUME RestoreConstants PROVE Spec => []TypeOK
  BY TypeInvariant, PTL DEF TypeInv

-----------------------------------------------------------------------------
(***************************************************************************)
(* OpenSearchRestore implements OneShot.  What has to be shown is that the *)
(* requests that were made, and the one a pass is about to make, are       *)
(* covered by the lost records and the one request that is due.            *)
(***************************************************************************)
Asked(phase) == phase \in {NoPhase, "Validating"}

\* The pass is going to ask OpenSearch for the restore.
OnTheWay == rpc \in {"announce", "validate", "start", "call"}

\* A pass that read the stored object finds what it stored: the phase is not
\* terminal, and up to the record of the request it is an early one.
PassIsCurrent ==
  ~stale =>
    /\ rpc # "idle" => stored.phase \notin Terminal
    /\ rpc \in {"announce", "validate", "start"} => Asked(stored.phase)

\* While the object asks for the restore, each request made so far is excused
\* by a lost record, and so is the one a pass makes whose record is not there.
\* A recorded request is the one that is due.  A pass that read a terminal
\* object's predecessor has lost its record, too.
RequestsCovered ==
  /\ performed <= rLost + 1
  /\ Asked(stored.phase) => performed <= rLost
  /\ stored.phase \in Terminal /\ Asked(before.phase) => performed <= rLost
  /\ OnTheWay /\ stored.phase = "InProgress" => performed <= rLost
  /\ OnTheWay /\ stale /\ stored.phase # "InProgress" => performed < rLost
  /\ rpc = "call" /\ Asked(stored.phase) => performed < rLost

OnceInv == PassIsCurrent /\ RequestsCovered

\* What a step may do to what the invariant speaks of, told apart by what it
\* does: it writes, loses a record, makes the request, or begins a pass.
LEMMA OnceWritten ==
  ASSUME RestoreConstants, TypeInv, OnceInv, rpc # "idle",
         NEW s \in Statuses, updateStatus(s), UNCHANGED <<stale, performed>>,
         \/ rpc' = "idle" /\ ~Asked(s.phase)
         \/ rpc = "announce" /\ rpc' = "validate" /\ s.phase = "Validating"
         \/ rpc = "start" /\ rpc' = "call" /\ s.phase = "InProgress"
  PROVE  OnceInv'
<1>0. /\ rLost \in Nat /\ performed \in Nat /\ stored.phase \in Phases
      /\ before.phase \in Phases /\ stale \in BOOLEAN /\ s.phase \in Phases
  BY DEF TypeInv, TypeOK, Statuses, RestoreConstants
<1>1. \/ ~stale /\ stored' = s /\ before' = stored /\ rLost' = rLost
      \/ stale /\ stored' = stored /\ before' = before /\ rLost' = rLost
      \/ stored' = stored /\ before' = before /\ rLost' = rLost + 1
  BY WriteOutcome
<1> USE NoPhaseIsNone DEF OnceInv, PassIsCurrent, RequestsCovered, Asked, OnTheWay
<1>2. CASE ~stale /\ stored' = s /\ before' = stored /\ rLost' = rLost
  <2>1. stored.phase \in {NoPhase, "Validating", "InProgress"}
    BY <1>0, <1>2 DEF Phases, Terminal
  <2> HIDE DEF Phases, Terminal
  <2>2. CASE rpc' = "idle" /\ ~Asked(s.phase)  BY <1>0, <1>2, <2>1, <2>2
  <2>3. CASE rpc = "announce" /\ rpc' = "validate" /\ s.phase = "Validating"
    BY <1>0, <1>2, <2>1, <2>3 DEF Terminal
  <2>4. CASE rpc = "start" /\ rpc' = "call" /\ s.phase = "InProgress"
    BY <1>0, <1>2, <2>1, <2>4 DEF Terminal
  <2> QED  BY <2>2, <2>3, <2>4
<1>3. CASE stale /\ stored' = stored /\ before' = before /\ rLost' = rLost
  BY <1>0, <1>3 DEF Phases, Terminal
<1>4. CASE stored' = stored /\ before' = before /\ rLost' = rLost + 1
  BY <1>0, <1>4 DEF Phases, Terminal
<1> QED  BY <1>1, <1>2, <1>3, <1>4

\* Every step keeps the requests covered.
LEMMA OnceInductive ==
  ASSUME RestoreConstants, TypeInv, OnceInv, [Next]_rVars
  PROVE  OnceInv'
<1> USE DEF osVars
<1> DEFINE Untouched == UNCHANGED <<stored, before, rLost, performed, stale>>
<1>0. /\ rLost \in Nat /\ performed \in Nat /\ stored.phase \in Phases
      /\ before.phase \in Phases /\ stale \in BOOLEAN
      /\ stored \in Statuses /\ before \in Statuses /\ copy \in Statuses
  BY DEF TypeInv, TypeOK, Statuses, RestoreConstants
<1>u. ASSUME Untouched, rpc' = rpc \/ rpc' \in {"idle"} \/ (rpc # "idle" /\ rpc' \in {"monitor", "fail"})
             \/ (rpc = "validate" /\ rpc' = "start")
      PROVE  OnceInv'
  BY <1>0, <1>u DEF OnceInv, PassIsCurrent, RequestsCovered, Asked, OnTheWay
<1>1. CASE Reconcile
  <2>1. ASSUME NEW s \in Statuses, Begin(s)
        PROVE  /\ s.phase \in Terminal => rpc' = "idle"
               /\ rpc' \in {"announce", "start"} => Asked(s.phase)
               /\ rpc' \in {"idle", "announce", "start", "monitor"}
    BY <2>1, NoPhaseIsNone DEF Begin, Statuses, Phases, Terminal, Asked
  <2>2. CASE Begin(stored) /\ stale' = FALSE /\ UNCHANGED <<rFaults, rLost>>
    <3>1. UNCHANGED <<stored, before, rLost, performed>> /\ stale' = FALSE
      BY <1>1, <2>2 DEF Reconcile
    <3> QED
      BY <1>0, <2>1, <2>2, <3>1
      DEF OnceInv, PassIsCurrent, RequestsCovered, OnTheWay, Asked, Terminal
  <2>3. CASE Begin(before) /\ stale' = TRUE /\ rLost' = rLost + 1
    <3>1. UNCHANGED <<stored, before, performed>>
      BY <1>1 DEF Reconcile
    <3> QED
      BY <1>0, <2>1, <2>3, <3>1
      DEF OnceInv, PassIsCurrent, RequestsCovered, OnTheWay, Asked, Terminal, Phases
  <2>4. CASE UNCHANGED <<rLost, copy, stale, rpc, rQueued>>
    BY <1>1, <1>u, <2>4 DEF Reconcile
  <2> QED  BY <1>1, <2>2, <2>3, <2>4, Zenon DEF Reconcile
<1>2. CASE AnnounceValidation
  BY <1>0, <1>2, ChangedStatus, OnceWritten, Zenon
  DEF AnnounceValidation, WriteAndGoOn, Phases
<1>3. CASE Validate  BY <1>3, <1>u DEF Validate
<1>4. CASE Fail
  <2>1. /\ [copy EXCEPT !.phase = "Failed"] \in Statuses
        /\ ~Asked([copy EXCEPT !.phase = "Failed"].phase)
    BY <1>0, ChangedStatus, NoPhaseIsNone, Zenon DEF Phases, Asked
  <2> QED  BY <1>4, <2>1, OnceWritten, Zenon DEF Fail, Return
<1>5. CASE RecordStart
  BY <1>0, <1>5, ChangedStatus, OnceWritten, Zenon DEF RecordStart, WriteAndGoOn
<1>6. CASE RestoreSnapshot
  <2>1. /\ UNCHANGED <<stored, before, rLost, stale>> /\ rpc = "call"
        /\ rpc' \in {"monitor", "fail"}
        /\ performed' = performed \/ performed' = performed + 1
    BY <1>6 DEF RestoreSnapshot, Starts
  <2> QED
    BY <1>0, <2>1
    DEF OnceInv, PassIsCurrent, RequestsCovered, OnTheWay, Asked, Terminal, Phases
<1>7. CASE monitorRestoreProgress
  <2>1. /\ [copy EXCEPT !.phase = "Completed"] \in Statuses
        /\ [copy EXCEPT !.phase = "InProgress"] \in Statuses
        /\ ~Asked([copy EXCEPT !.phase = "Completed"].phase)
        /\ ~Asked([copy EXCEPT !.phase = "InProgress"].phase)
    BY <1>0, ChangedStatus, NoPhaseIsNone, Zenon DEF Phases, Asked
  <2>2. ASSUME NEW s \in Statuses, Return(s), ~Asked(s.phase) PROVE OnceInv'
    BY <1>7, <2>2, OnceWritten DEF monitorRestoreProgress, Return
  <2>3. CASE ReturnUnsaved
    BY <1>7, <1>u, <2>3 DEF monitorRestoreProgress, ReturnUnsaved
  <2> QED  BY <1>7, <2>1, <2>2, <2>3, Zenon DEF monitorRestoreProgress
<1>8. CASE (\E i \in RestoreIndices : Recover(i)) \/ EndSnapshot \/ Crash
  BY <1>8, <1>u DEF Recover, EndSnapshot, Crash
<1>9. CASE Edit
  BY <1>0, <1>9
  DEF Edit, OnceInv, PassIsCurrent, RequestsCovered, OnTheWay, Asked, Terminal, Phases
<1>10. CASE UNCHANGED rVars  BY <1>10, <1>u DEF rVars
<1> QED
  BY <1>1, <1>2, <1>3, <1>4, <1>5, <1>6, <1>7, <1>8, <1>9, <1>10 DEF Next, Operator

\* The requests are covered throughout.
LEMMA OnceInvariant == ASSUME RestoreConstants PROVE Spec => [](TypeInv /\ OnceInv)
<1>1. Init => OnceInv
  BY DEF Init, OnceInv, PassIsCurrent, RequestsCovered, Asked, OnTheWay, NoStatus,
         Terminal
<1>2. TypeInv /\ OnceInv /\ [Next]_rVars => OnceInv'
  BY OnceInductive
<1> QED  BY <1>1, <1>2, TypeInvariant, PTL DEF Spec

\* The stage that a phase stands for.
LEMMA Stages ==
  \A phase \in Phases :
    /\ Asked(phase) => StageOf(phase) = "asked"
    /\ phase = "InProgress" => StageOf(phase) = "working"
    /\ phase \in Terminal => StageOf(phase) = "ended"
    /\ Asked(phase) \/ phase = "InProgress" \/ phase \in Terminal
  BY NoPhaseIsNone DEF Phases, Asked, Terminal, StageOf

\* Every step of the reconciler and of its surroundings is a step of OneShot,
\* or leaves the stage, the requests and the lost records alone.
LEMMA StepRefines ==
  ASSUME RestoreConstants, TypeInv, OnceInv, [Next]_rVars
  PROVE  [Promise!Next]_(Promise!vars)
<1> USE DEF osVars
<1>0. /\ rLost \in Nat /\ performed \in Nat /\ stored.phase \in Phases
      /\ stale \in BOOLEAN
      /\ stored \in Statuses /\ before \in Statuses /\ copy \in Statuses
  BY DEF TypeInv, TypeOK, Statuses, RestoreConstants
<1>u. ASSUME UNCHANGED <<stored, performed, rLost>> PROVE UNCHANGED Promise!vars
  BY <1>u DEF Promise!vars
<1>l. ASSUME UNCHANGED <<stored, performed>>, rLost' = rLost + 1 PROVE Promise!Lose
  BY <1>l DEF Promise!Lose
<1>w. ASSUME NEW s \in Statuses, updateStatus(s), performed' = performed, rpc # "idle",
             \/ rpc = "announce" /\ s.phase = "Validating"
             \/ s.phase \in {"InProgress", "Completed", "Failed"}
      PROVE  [Promise!Next]_(Promise!vars)
  <2>1. CASE ~stale /\ stored' = s /\ before' = stored /\ rLost' = rLost
    <3>0. s.phase \in Phases
      BY DEF Statuses
    <3>1. stored.phase \notin Terminal /\ (rpc = "announce" => Asked(stored.phase))
      BY <1>w, <2>1 DEF OnceInv, PassIsCurrent
    <3>2. StageOf(stored.phase) \in {"asked", "working"}
      BY <1>0, <3>1, Stages
    <3>3. CASE s.phase \in {"Completed", "Failed"}
      <4>1. StageOf(s.phase) = "ended"
        BY <3>0, <3>3, Stages DEF Terminal
      <4> QED
        BY <1>w, <2>1, <3>2, <4>1 DEF Promise!Next, Promise!End
    <3>4. CASE s.phase = "InProgress"
      <4>1. StageOf(s.phase) = "working"
        BY <3>0, <3>4, Stages
      <4> QED
        BY <1>w, <2>1, <3>2, <4>1 DEF Promise!Next, Promise!Record, Promise!vars
    <3>5. CASE rpc = "announce" /\ s.phase = "Validating"
      <4>1. StageOf(s.phase) = "asked" /\ StageOf(stored.phase) = "asked"
        BY <1>0, <3>0, <3>1, <3>5, Stages DEF Asked
      <4> QED  BY <1>w, <2>1, <4>1 DEF Promise!vars
    <3> QED  BY <1>w, <3>3, <3>4, <3>5
  <2>2. CASE stored' = stored /\ rLost' = rLost  BY <1>u, <1>w, <2>2
  <2>3. CASE stored' = stored /\ rLost' = rLost + 1
    BY <1>l, <1>w, <2>3 DEF Promise!Next
  <2> QED  BY <1>w, <2>1, <2>2, <2>3, WriteOutcome
<1>1. CASE Reconcile
  BY <1>1, <1>u, <1>l, Zenon DEF Reconcile, Promise!Next
<1>2. CASE AnnounceValidation
  BY <1>0, <1>2, <1>w, ChangedStatus, Zenon DEF AnnounceValidation, WriteAndGoOn, Phases
<1>3. CASE Validate  BY <1>3, <1>u DEF Validate
<1>4. CASE Fail
  BY <1>0, <1>4, <1>w, ChangedStatus, Zenon DEF Fail, Return, Phases
<1>5. CASE RecordStart
  BY <1>0, <1>5, <1>w, ChangedStatus, Zenon DEF RecordStart, WriteAndGoOn
<1>6. CASE RestoreSnapshot
  <2>1. CASE performed' = performed
    BY <1>6, <1>u, <2>1 DEF RestoreSnapshot
  <2>2. CASE performed' = performed + 1
    <3>1. rpc = "call" /\ UNCHANGED <<stored, rLost>>
      BY <1>6 DEF RestoreSnapshot
    <3>2. CASE stored.phase \in Terminal
      <4>1. performed < rLost
        BY <3>1, <3>2 DEF OnceInv, PassIsCurrent, RequestsCovered, OnTheWay, Terminal
      <4> QED
        BY <1>0, <2>2, <3>1, <3>2, <4>1, Stages DEF Promise!Next, Promise!Perform
    <3>3. CASE stored.phase \notin Terminal
      <4>1. performed < rLost + 1
        BY <1>0, <3>1, <3>3, Stages DEF OnceInv, RequestsCovered, OnTheWay
      <4>2. StageOf(stored.phase) # "ended"
        BY <1>0, <3>3, Stages
      <4> QED
        BY <2>2, <3>1, <4>1, <4>2 DEF Promise!Next, Promise!Perform
    <3> QED  BY <3>2, <3>3
  <2> QED  BY <1>6, <2>1, <2>2 DEF RestoreSnapshot, Starts
<1>7. CASE monitorRestoreProgress
  <2>1. \A p \in {"InProgress", "Completed"} :
          /\ [copy EXCEPT !.phase = p] \in Statuses
          /\ [copy EXCEPT !.phase = p].phase = p
    <3>1. {"InProgress", "Completed"} \subseteq Phases
      BY DEF Phases
    <3> QED  BY <1>0, <3>1, ChangedStatus, Zenon
  <2>2. ASSUME NEW p \in {"InProgress", "Completed"}, Return([copy EXCEPT !.phase = p])
        PROVE  [Promise!Next]_(Promise!vars)
    <3>1. /\ [copy EXCEPT !.phase = p] \in Statuses
          /\ [copy EXCEPT !.phase = p].phase \in {"InProgress", "Completed", "Failed"}
      BY <2>1
    <3>2. /\ updateStatus([copy EXCEPT !.phase = p]) /\ performed' = performed
          /\ rpc # "idle"
      BY <1>7, <2>2 DEF monitorRestoreProgress, Return
    <3> QED  BY <1>w, <3>1, <3>2, Zenon
  <2>3. CASE ReturnUnsaved
    BY <1>7, <1>u, <2>3 DEF monitorRestoreProgress, ReturnUnsaved
  <2> QED  BY <1>7, <2>2, <2>3 DEF monitorRestoreProgress
<1>8. CASE (\E i \in RestoreIndices : Recover(i)) \/ EndSnapshot \/ Crash
  BY <1>8, <1>u DEF Recover, EndSnapshot, Crash
<1>9. CASE Edit  BY <1>9, <1>l DEF Edit, Promise!Next
<1>10. CASE UNCHANGED rVars  BY <1>10, <1>u DEF rVars
<1> QED
  BY <1>1, <1>2, <1>3, <1>4, <1>5, <1>6, <1>7, <1>8, <1>9, <1>10 DEF Next, Operator

\* The OpenSearchRestore implements OneShot: OpenSearch is asked for a restore
\* once, and again only for a record that could not be written or was
\* overtaken; once Completed or Failed is stored nothing is restored and the
\* phase stays, whatever fails and wherever the operator restarts.
THEOREM RestoreImplementsOneShot == ASSUME RestoreConstants PROVE Spec => RestoresOnce
<1>1. Init => Promise!Init
  <2> SUFFICES ASSUME Init PROVE Promise!Init  OBVIOUS
  <2>1. stored.phase = NoPhase /\ performed = 0 /\ rLost = 0
    BY DEF Init, NoStatus
  <2>2. StageOf(stored.phase) = "asked"
    BY <2>1, Stages DEF Phases, Asked
  <2> QED  BY <2>1, <2>2 DEF Promise!Init
<1>2. TypeInv /\ OnceInv /\ [Next]_rVars => [Promise!Next]_(Promise!vars)
  BY StepRefines
<1> QED  BY <1>1, <1>2, OnceInvariant, PTL DEF Spec, RestoresOnce, Promise!Spec

-----------------------------------------------------------------------------
(***************************************************************************)
(* OpenSearchRestore: what Failed means.                                   *)
(***************************************************************************)
FailureInv ==
  "call" \notin rEnv /\ (rpc = "fail" \/ stored.phase = "Failed")
    => performed <= rLost

\* A pass that has still to ask has room to.
LEMMA RoomToAsk ==
  ASSUME RestoreConstants, TypeInv, OnceInv, OnTheWay
  PROVE  /\ performed <= rLost
         /\ stored.phase = "Failed" => performed < rLost
<1>0. /\ rLost \in Nat /\ performed \in Nat /\ stored.phase \in Phases
  BY DEF TypeInv, TypeOK, RestoreConstants
<1>1. stored.phase = "Failed" => stale
  BY DEF OnceInv, PassIsCurrent, OnTheWay, Terminal
<1>2. stale /\ stored.phase # "InProgress" => performed < rLost
  BY DEF OnceInv, RequestsCovered
<1>3. ~stale /\ stored.phase # "InProgress" => performed <= rLost
  BY <1>0, Stages DEF OnceInv, PassIsCurrent, RequestsCovered, OnTheWay
<1>4. stored.phase = "InProgress" => performed <= rLost
  BY DEF OnceInv, RequestsCovered
<1> QED  BY <1>0, <1>1, <1>2, <1>3, <1>4

\* Every step keeps a failure without requests that are not accounted for.
LEMMA FailureInductive ==
  ASSUME RestoreConstants, TypeInv, OnceInv, FailureInv, [Next]_rVars
  PROVE  FailureInv'
<1> USE DEF osVars
<1>0. /\ rLost \in Nat /\ performed \in Nat
      /\ stored \in Statuses /\ before \in Statuses /\ copy \in Statuses
  BY DEF TypeInv, TypeOK, Statuses, RestoreConstants
<1>w. ASSUME NEW s \in Statuses, updateStatus(s), UNCHANGED <<performed, rEnv>>,
             rpc' # "fail", s.phase # "Failed" \/ rpc = "fail"
      PROVE  FailureInv'
  <2>1. \/ stored' = s /\ rLost' = rLost
        \/ stored' = stored /\ (rLost' = rLost \/ rLost' = rLost + 1)
    BY <1>w, WriteOutcome
  <2> QED  BY <1>0, <1>w, <2>1 DEF FailureInv
<1>u. ASSUME UNCHANGED <<rEnv, performed, stored>>, rpc' # "fail" \/ rpc' = rpc,
             rLost' = rLost \/ rLost' = rLost + 1
      PROVE  FailureInv'
  BY <1>0, <1>u DEF FailureInv
<1>1. CASE Reconcile
  <2>1. rpc' # "fail"
    <3>1. ASSUME NEW s \in Statuses, Begin(s) PROVE rpc' # "fail"
      BY <3>1 DEF Begin, Statuses, Phases
    <3> QED  BY <1>0, <1>1, <3>1, Zenon DEF Reconcile
  <2> QED  BY <1>1, <1>u, <2>1, Zenon DEF Reconcile
<1>2. CASE AnnounceValidation
  <2>1. /\ [copy EXCEPT !.phase = "Validating"] \in Statuses
        /\ [copy EXCEPT !.phase = "Validating"].phase # "Failed"
    BY <1>0, ChangedStatus, Zenon DEF Phases
  <2> QED  BY <1>2, <1>w, <2>1, Zenon DEF AnnounceValidation, WriteAndGoOn
<1>3. CASE Validate
  <2>1. performed <= rLost
    BY <1>3, RoomToAsk DEF Validate, OnTheWay
  <2> QED  BY <1>3, <2>1 DEF Validate, FailureInv
<1>4. CASE Fail
  <2>1. [copy EXCEPT !.phase = "Failed"] \in Statuses
    BY <1>0, ChangedStatus, Zenon DEF Phases
  <2> QED  BY <1>4, <1>w, <2>1 DEF Fail, Return
<1>5. CASE RecordStart
  <2>1. /\ [copy EXCEPT !.phase = "InProgress", !.started = TRUE] \in Statuses
        /\ [copy EXCEPT !.phase = "InProgress", !.started = TRUE].phase # "Failed"
    BY <1>0, ChangedStatus, Zenon
  <2> QED  BY <1>5, <1>w, <2>1, Zenon DEF RecordStart, WriteAndGoOn
<1>6. CASE RestoreSnapshot
  <2>1. performed <= rLost /\ (stored.phase = "Failed" => performed < rLost)
    BY <1>6, RoomToAsk DEF RestoreSnapshot, OnTheWay
  <2>2. /\ UNCHANGED <<rEnv, stored, rLost>>
        /\ performed' = performed \/ performed' = performed + 1
        /\ rpc' = "fail" /\ "call" \notin rEnv => performed' = performed
    BY <1>6 DEF RestoreSnapshot, Starts, Fault, May
  <2> QED  BY <1>0, <2>1, <2>2 DEF FailureInv
<1>7. CASE monitorRestoreProgress
  <2>1. \A p \in {"InProgress", "Completed"} :
          /\ [copy EXCEPT !.phase = p] \in Statuses
          /\ [copy EXCEPT !.phase = p].phase # "Failed"
    <3>1. {"InProgress", "Completed"} \subseteq Phases
      BY DEF Phases
    <3> QED  BY <1>0, <3>1, ChangedStatus, Zenon
  <2>2. ASSUME NEW p \in {"InProgress", "Completed"}, Return([copy EXCEPT !.phase = p])
        PROVE  FailureInv'
    BY <1>7, <1>w, <2>1, <2>2, Zenon DEF monitorRestoreProgress, Return
  <2>3. CASE ReturnUnsaved
    BY <1>7, <1>u, <2>3 DEF monitorRestoreProgress, ReturnUnsaved
  <2> QED  BY <1>7, <2>2, <2>3 DEF monitorRestoreProgress
<1>8. CASE (\E i \in RestoreIndices : Recover(i)) \/ EndSnapshot \/ Crash \/ Edit
  BY <1>8, <1>u DEF Recover, EndSnapshot, Crash, Edit
<1>9. CASE UNCHANGED rVars  BY <1>9, <1>u DEF rVars
<1> QED
  BY <1>1, <1>2, <1>3, <1>4, <1>5, <1>6, <1>7, <1>8, <1>9 DEF Next, Operator

\* A restore is reported as Failed although OpenSearch carried it out only if
\* the request itself failed or a record of it was lost.
THEOREM FailedIsNotRestored == ASSUME RestoreConstants PROVE Spec => []FailureIsFinal
<1>1. Init => FailureInv
  BY DEF Init, FailureInv
<1>2. TypeInv /\ OnceInv /\ FailureInv /\ [Next]_rVars => FailureInv'
  BY FailureInductive
<1>3. FailureInv => FailureIsFinal
  BY DEF FailureInv, FailureIsFinal
<1> QED  BY <1>1, <1>2, <1>3, OnceInvariant, PTL DEF Spec

-----------------------------------------------------------------------------
(***************************************************************************)
(* SnapshotRepository.                                                     *)
(***************************************************************************)
CONSTANTS RepoEdits, RepoFaults, RepoEnvironments, None

VARIABLES pEnv, pFaults, options, asked, life, view, registered, report, ppc, pQueued

Repo == INSTANCE SnapshotRepository

ReadyIsRegistered == Repo!ReadyIsRegistered
GoneIsUnregistered == Repo!GoneIsUnregistered

RepoReports ==
  [phase : {Repo!NoPhase, "Creating", "Verifying", "Ready", "Failed"},
   verified : BOOLEAN, observed : 0..(RepoEdits + 1)]

\* A repository that is gone is in the hands of no pass, and OpenSearch has no
\* part of it if it could be told.
GoneInv ==
  life = "gone" =>
    /\ ppc = "idle"
    /\ pEnv \cap {"delete", "client"} = {} => registered = None

\* Generations only grow: what OpenSearch has is no newer than what the pass
\* has read, and that is no newer than the resource.  From the request on,
\* OpenSearch has what the pass has read.
GenerationsGrow ==
  /\ view.spec <= asked.spec
  /\ registered # None =>
       /\ registered.spec <= asked.spec
       /\ ppc # "idle" => registered.spec <= view.spec
  /\ ppc \in {"check", "verify", "ready"} => registered = view

RegisteredInv == Repo!TypeOK /\ GoneInv /\ GenerationsGrow /\ ReadyIsRegistered

\* The empty phase is none of the others.
LEMMA RepoNoPhase == Repo!NoPhase # "Ready"
  BY Zenon DEF Repo!NoPhase

\* Every step of the repository's reconciler and of its user keeps the types.
LEMMA RepoTypeInductive ==
  ASSUME Repo!RepoConstants, Repo!TypeOK, [Repo!Next]_(Repo!pVars)
  PROVE  Repo!TypeOK'
<1> DEFINE Reported == report' \in RepoReports
           Counted == pFaults' \in 0..RepoFaults
           Rest == /\ pEnv' = pEnv /\ options' = options
                   /\ asked' \in Repo!Versions /\ view' \in Repo!Versions
                   /\ registered' \in Repo!Versions \cup {None}
                   /\ life' \in {"live", "deleting", "gone"}
           Pass == /\ ppc' \in {"idle", "get", "build", "create", "put", "check",
                                "verify", "fail", "ready"}
                   /\ pQueued' \in BOOLEAN
<1> USE DEF Repo!world
<1>0. /\ pFaults \in 0..RepoFaults /\ RepoFaults \in Nat /\ RepoEdits \in Nat
      /\ report \in RepoReports /\ asked \in Repo!Versions /\ view \in Repo!Versions
      /\ registered \in Repo!Versions \cup {None} /\ pQueued \in BOOLEAN
      /\ life \in {"live", "deleting", "gone"}
      /\ ppc \in {"idle", "get", "build", "create", "put", "check", "verify",
                  "fail", "ready"}
  BY DEF Repo!TypeOK, Repo!RepoConstants, RepoReports
<1>q. Reported /\ Counted /\ Rest /\ Pass => Repo!TypeOK'
  BY DEF Repo!TypeOK, RepoReports
<1>c. ASSUME NEW k, Repo!Fault(k) PROVE Counted
  BY <1>0, <1>c DEF Repo!Fault
<1>u. UNCHANGED pFaults => Counted
  BY <1>0
<1>w. ASSUME NEW ph \in {"Creating", "Verifying", "Failed"}
      PROVE  [report EXCEPT !.phase = ph, !.verified = FALSE] \in RepoReports
  BY <1>0, Zenon DEF RepoReports
<1>s. ASSUME NEW ph \in {"Creating", "Verifying"}, Repo!updateStatus(ph)
      PROVE  Reported /\ Counted /\ pQueued' \in BOOLEAN
  BY <1>0, <1>s, <1>c, <1>u, <1>w, Zenon DEF Repo!updateStatus, Repo!Write
<1>1. CASE Repo!Reconcile
  BY <1>0, <1>1, <1>c, <1>u, <1>q, Zenon DEF Repo!Reconcile
<1>2. CASE Repo!GetRepository
  BY <1>0, <1>2, <1>c, <1>u, <1>q DEF Repo!GetRepository
<1>3. CASE Repo!buildRepositorySettings
  <2>1. view' \in Repo!Versions
    BY <1>0, <1>3 DEF Repo!buildRepositorySettings, Repo!Versions
  <2>2. ppc' \in {"fail", "create", "put"}
    BY <1>3 DEF Repo!buildRepositorySettings
  <2> QED  BY <1>0, <1>3, <1>u, <1>q, <2>1, <2>2 DEF Repo!buildRepositorySettings
<1>4. CASE Repo!AnnounceCreation
  BY <1>0, <1>4, <1>s, <1>q DEF Repo!AnnounceCreation, Repo!Announce
<1>5. CASE Repo!PutRepository
  BY <1>0, <1>5, <1>c, <1>u, <1>q DEF Repo!PutRepository
<1>6. CASE Repo!AnnounceVerification
  BY <1>0, <1>6, <1>s, <1>q DEF Repo!AnnounceVerification, Repo!Announce
<1>7. CASE Repo!VerifyRepository
  BY <1>0, <1>7, <1>c, <1>u, <1>q DEF Repo!VerifyRepository
<1>8. CASE Repo!Fail
  BY <1>0, <1>8, <1>c, <1>u, <1>q, <1>w DEF Repo!Fail
<1>9. CASE Repo!Ready
  <2>1. [phase |-> "Ready", verified |-> options.verify, observed |-> view.spec]
          \in RepoReports
    <3>1. options.verify \in BOOLEAN /\ view.spec \in 0..(RepoEdits + 1)
      BY <1>0 DEF Repo!TypeOK, Repo!Versions
    <3> QED  BY <3>1 DEF RepoReports
  <2> QED  BY <1>0, <1>9, <1>c, <1>u, <1>q, <2>1, Zenon DEF Repo!Ready, Repo!Write
<1>10. CASE Repo!handleDeletion
  BY <1>0, <1>10, <1>c, <1>u, <1>q, Zenon DEF Repo!handleDeletion
<1>11. CASE Repo!EditSpec \/ Repo!findRepositoriesForSecret
  <2>1. asked' \in Repo!Versions
    BY <1>0, <1>11 DEF Repo!EditSpec, Repo!findRepositoriesForSecret, Repo!Versions
  <2> QED  BY <1>0, <1>11, <1>u, <1>q, <2>1, Zenon DEF Repo!EditSpec, Repo!findRepositoriesForSecret
<1>12. CASE Repo!Delete \/ Repo!Crash
  BY <1>0, <1>12, <1>c, <1>u, <1>q, Zenon DEF Repo!Delete, Repo!Crash
<1>13. CASE UNCHANGED Repo!pVars
  BY <1>0, <1>13, <1>u, <1>q DEF Repo!pVars
<1> QED
  BY <1>1, <1>2, <1>3, <1>4, <1>5, <1>6, <1>7, <1>8, <1>9, <1>10, <1>11, <1>12, <1>13
  DEF Repo!Next, Repo!Operator

\* Every step keeps the order of the generations and what Ready says.
LEMMA RegisteredInductive ==
  ASSUME Repo!RepoConstants, RegisteredInv, [Repo!Next]_(Repo!pVars)
  PROVE  RegisteredInv'
<1> USE DEF Repo!world
<1>t. Repo!TypeOK'
  BY RepoTypeInductive DEF RegisteredInv
<1>0. /\ report \in RepoReports /\ asked \in Repo!Versions /\ view \in Repo!Versions
      /\ registered \in Repo!Versions \cup {None} /\ None \notin Repo!Versions
      /\ options.verify \in BOOLEAN
  BY DEF RegisteredInv, Repo!TypeOK, Repo!RepoConstants, RepoReports
<1>v. \A v \in Repo!Versions : v.spec \in Nat /\ v # None
  BY <1>0 DEF Repo!Versions
<1>i. GoneInv /\ GenerationsGrow /\ ReadyIsRegistered
  BY DEF RegisteredInv
<1>q. GoneInv' /\ GenerationsGrow' /\ ReadyIsRegistered' => RegisteredInv'
  BY <1>t DEF RegisteredInv
<1>g. ASSUME ppc # "idle" PROVE life # "gone"
  BY <1>i, <1>g DEF GoneInv
\* Steps of a pass that leave OpenSearch and the resource alone and do not
\* report Ready.
<1>p. ASSUME UNCHANGED <<pEnv, options, asked, life, view, registered>>,
             ppc # "idle" \/ ppc' = "idle",
             ppc' \in {"check", "verify", "ready"} => ppc \in {"check", "verify", "ready"},
             report' = report \/ report'.phase # "Ready"
      PROVE  RegisteredInv'
  <2>1. GoneInv'
    BY <1>i, <1>g, <1>p DEF GoneInv
  <2>2. GenerationsGrow'
    BY <1>i, <1>p DEF GenerationsGrow
  <2>3. ReadyIsRegistered'
    BY <1>i, <1>p DEF ReadyIsRegistered, Repo!ReadyIsRegistered
  <2> QED  BY <1>q, <2>1, <2>2, <2>3
<1>s. ASSUME NEW ph \in {"Creating", "Verifying"}, Repo!updateStatus(ph)
      PROVE  report' = report \/ report'.phase # "Ready"
  BY <1>0, <1>s, Zenon DEF Repo!updateStatus, Repo!Write, RepoReports
<1>1. CASE Repo!Reconcile
  <2>1. GoneInv'
    BY <1>1, <1>i DEF Repo!Reconcile, GoneInv
  <2>2. GenerationsGrow'
    <3>1. UNCHANGED <<asked, registered>> /\ asked.spec <= asked.spec
      BY <1>1, <1>0, <1>v DEF Repo!Reconcile
    <3>2. \/ view' = view /\ ppc' = "idle"
          \/ view' = asked /\ ppc' = "get"
      BY <1>1, Zenon DEF Repo!Reconcile
    <3> QED  BY <1>i, <3>1, <3>2 DEF GenerationsGrow
  <2>3. ReadyIsRegistered'
    BY <1>1, <1>i DEF Repo!Reconcile, ReadyIsRegistered, Repo!ReadyIsRegistered
  <2> QED  BY <1>q, <2>1, <2>2, <2>3
<1>2. CASE Repo!GetRepository
  BY <1>2, <1>p DEF Repo!GetRepository
<1>3. CASE Repo!buildRepositorySettings
  <2>1. view'.spec = view.spec
    BY <1>0, <1>3 DEF Repo!buildRepositorySettings, Repo!Versions
  <2>2. ppc' \in {"fail", "create", "put"}
    BY <1>3 DEF Repo!buildRepositorySettings
  <2>3. GoneInv'
    BY <1>3, <1>g DEF Repo!buildRepositorySettings, GoneInv
  <2>4. GenerationsGrow'
    BY <1>3, <1>i, <2>1, <2>2 DEF Repo!buildRepositorySettings, GenerationsGrow
  <2>5. ReadyIsRegistered'
    BY <1>3, <1>i DEF Repo!buildRepositorySettings, ReadyIsRegistered, Repo!ReadyIsRegistered
  <2> QED  BY <1>q, <2>3, <2>4, <2>5
<1>4. CASE Repo!AnnounceCreation
  BY <1>4, <1>p, <1>s DEF Repo!AnnounceCreation, Repo!Announce
<1>5. CASE Repo!PutRepository
  <2>1. registered' \in {registered, view} /\ UNCHANGED <<view, asked, life, report, options>>
    BY <1>5 DEF Repo!PutRepository
  <2>2. GoneInv'
    BY <1>5, <1>g DEF Repo!PutRepository, GoneInv
  <2>3. GenerationsGrow'
    BY <1>5, <1>i, <1>0, <1>v DEF Repo!PutRepository, GenerationsGrow
  <2>4. registered # None => registered.spec <= view.spec
    BY <1>5, <1>i DEF Repo!PutRepository, GenerationsGrow
  <2>5. report.observed \in Nat
    BY <1>0 DEF RepoReports
  <2>6. ReadyIsRegistered'
    BY <1>i, <1>0, <1>v, <2>1, <2>4, <2>5 DEF ReadyIsRegistered, Repo!ReadyIsRegistered
  <2> QED  BY <1>q, <2>2, <2>3, <2>6
<1>6. CASE Repo!AnnounceVerification
  BY <1>6, <1>p, <1>s DEF Repo!AnnounceVerification, Repo!Announce
<1>7. CASE Repo!VerifyRepository
  BY <1>7, <1>p DEF Repo!VerifyRepository
<1>8. CASE Repo!Fail
  <2>1. report' = report \/ report'.phase # "Ready"
    BY <1>0, <1>8, Zenon DEF Repo!Fail, RepoReports
  <2> QED  BY <1>8, <1>p, <2>1 DEF Repo!Fail
<1>9. CASE Repo!Ready
  <2>1. GoneInv'
    BY <1>9, <1>g DEF Repo!Ready, GoneInv
  <2>2. GenerationsGrow'
    BY <1>9, <1>i DEF Repo!Ready, GenerationsGrow
  <2>3. registered = view
    BY <1>9, <1>i DEF Repo!Ready, GenerationsGrow
  <2>4. ReadyIsRegistered'
    <3>1. CASE UNCHANGED report
      BY <1>9, <1>i, <3>1 DEF Repo!Ready, ReadyIsRegistered, Repo!ReadyIsRegistered
    <3>2. CASE report' = [phase |-> "Ready", verified |-> options.verify,
                          observed |-> view.spec]
      BY <1>9, <1>0, <1>v, <2>3, <3>2
      DEF Repo!Ready, ReadyIsRegistered, Repo!ReadyIsRegistered
    <3> QED  BY <1>9, <3>1, <3>2 DEF Repo!Ready, Repo!Write
  <2> QED  BY <1>q, <2>1, <2>2, <2>4
<1>10. CASE Repo!handleDeletion
  <2>1. GoneInv'
    BY <1>10, <1>i DEF Repo!handleDeletion, GoneInv, Repo!Fault
  <2>2. GenerationsGrow'
    BY <1>10, <1>i DEF Repo!handleDeletion, GenerationsGrow
  <2>3. ReadyIsRegistered'
    BY <1>10 DEF Repo!handleDeletion, ReadyIsRegistered, Repo!ReadyIsRegistered
  <2> QED  BY <1>q, <2>1, <2>2, <2>3
<1>11. CASE Repo!EditSpec \/ Repo!findRepositoriesForSecret
  <2>1. asked'.spec \in {asked.spec, asked.spec + 1}
    BY <1>0, <1>11 DEF Repo!EditSpec, Repo!findRepositoriesForSecret, Repo!Versions
  <2>2. UNCHANGED <<pEnv, options, life, view, registered, report, ppc>> /\ life # "gone"
    BY <1>11 DEF Repo!EditSpec, Repo!findRepositoriesForSecret
  <2>3. GoneInv'
    BY <2>2 DEF GoneInv
  <2>4. GenerationsGrow'
    BY <1>i, <1>0, <1>v, <2>1, <2>2 DEF GenerationsGrow
  <2>5. ReadyIsRegistered'
    BY <1>i, <2>2 DEF ReadyIsRegistered, Repo!ReadyIsRegistered
  <2> QED  BY <1>q, <2>3, <2>4, <2>5
<1>12. CASE Repo!Delete
  <2>1. GoneInv'
    BY <1>12 DEF Repo!Delete, GoneInv
  <2>2. GenerationsGrow'
    BY <1>12, <1>i DEF Repo!Delete, GenerationsGrow
  <2>3. ReadyIsRegistered'
    BY <1>12, <1>i DEF Repo!Delete, ReadyIsRegistered, Repo!ReadyIsRegistered
  <2> QED  BY <1>q, <2>1, <2>2, <2>3
<1>13. CASE Repo!Crash
  BY <1>13, <1>p DEF Repo!Crash
<1>14. CASE UNCHANGED Repo!pVars
  <2>1. UNCHANGED <<pEnv, options, asked, life, view, registered, report, ppc>>
    BY <1>14 DEF Repo!pVars
  <2>2. GoneInv'
    BY <1>i, <2>1 DEF GoneInv
  <2>3. GenerationsGrow'
    BY <1>i, <2>1 DEF GenerationsGrow
  <2>4. ReadyIsRegistered'
    BY <1>i, <2>1 DEF ReadyIsRegistered, Repo!ReadyIsRegistered
  <2> QED  BY <1>q, <2>2, <2>3, <2>4
<1> QED
  BY <1>1, <1>2, <1>3, <1>4, <1>5, <1>6, <1>7, <1>8, <1>9, <1>10, <1>11, <1>12,
     <1>13, <1>14 DEF Repo!Next, Repo!Operator

\* The first state has the invariant.
LEMMA RegisteredInitially ==
  ASSUME Repo!RepoConstants, Repo!Init
  PROVE  RegisteredInv
<1>1. asked \in Repo!Versions /\ view = asked /\ registered = None /\ life = "live"
  <2>1. asked \in [spec : {1}, secret : {0, 1}] /\ RepoEdits \in Nat
    BY DEF Repo!Init, Repo!RepoConstants
  <2>2. [spec : {1}, secret : {0, 1}] \subseteq Repo!Versions
    BY <2>1 DEF Repo!Versions
  <2> QED  BY <2>1, <2>2 DEF Repo!Init
<1>2. report \in RepoReports /\ report.phase # "Ready"
  BY RepoNoPhase DEF Repo!Init, RepoReports, Repo!RepoConstants
<1>3. Repo!TypeOK
  BY <1>1, <1>2 DEF Repo!Init, Repo!TypeOK, RepoReports, Repo!RepoConstants
<1>4. GenerationsGrow
  BY <1>1 DEF GenerationsGrow, Repo!Init, Repo!Versions
<1>5. GoneInv /\ ReadyIsRegistered
  BY <1>1, <1>2 DEF GoneInv, ReadyIsRegistered, Repo!ReadyIsRegistered
<1> QED  BY <1>3, <1>4, <1>5 DEF RegisteredInv

\* The invariant holds in every state.
LEMMA RegisteredInvariant ==
  ASSUME Repo!RepoConstants PROVE Repo!Spec => []RegisteredInv
<1>1. Repo!Init => RegisteredInv  BY RegisteredInitially
<1>2. RegisteredInv /\ [Repo!Next]_(Repo!pVars) => RegisteredInv'
  BY RegisteredInductive
<1> QED  BY <1>1, <1>2, PTL DEF Repo!Spec

\* A Ready OpenSearchSnapshotRepository speaks for the generation it observed,
\* whatever fails or restarts between PutRepository and the status write.
THEOREM ReadyRepositoryIsRegistered ==
  ASSUME Repo!RepoConstants PROVE Repo!Spec => []ReadyIsRegistered
<1>1. RegisteredInv => ReadyIsRegistered  BY DEF RegisteredInv
<1> QED  BY <1>1, RegisteredInvariant, PTL

\* handleDeletion leaves nothing behind unless its one attempt failed.
THEOREM DeletedRepositoryIsGone ==
  ASSUME Repo!RepoConstants PROVE Repo!Spec => []GoneIsUnregistered
<1>1. RegisteredInv => GoneIsUnregistered
  BY DEF RegisteredInv, GoneInv, GoneIsUnregistered, Repo!GoneIsUnregistered
<1> QED  BY <1>1, RegisteredInvariant, PTL

-----------------------------------------------------------------------------
(***************************************************************************)
(* ManualSnapshot: types.                                                  *)
(***************************************************************************)
CONSTANTS SnapshotNames, SnapshotFaults, SnapshotEnvironments

VARIABLES sEnv, sFaults, excused, repo, taken, attempts, sStored, sBefore, sCopy,
          sStale, spc, sQueued, issued

Snapshot == INSTANCE ManualSnapshot

OneSnapshot == Snapshot!OneSnapshot
PhaseIsTrue == Snapshot!PhaseIsTrue

SnapshotStatuses == [phase : Snapshot!Phases, name : 0..SnapshotNames]

\* The types but for the bound on the attempts, which takes OneSnapshot; every
\* excuse is the work of a fault, and a pass past the look has a name.
SnapshotTypes ==
  /\ sEnv \in SUBSET Snapshot!SnapshotFaultKinds /\ repo \in BOOLEAN
  /\ sFaults \in 0..SnapshotFaults /\ excused \in Nat /\ excused <= sFaults
  /\ taken \in [Snapshot!Names -> Snapshot!States \cup {"absent"}]
  /\ attempts \in Nat
  /\ sStored \in SnapshotStatuses /\ sBefore \in SnapshotStatuses
  /\ sCopy \in SnapshotStatuses
  /\ sStale \in BOOLEAN /\ sQueued \in BOOLEAN /\ issued \in 0..SnapshotNames
  /\ spc \in {"idle", "check", "look", "record", "create", "poll", "fail"}
  /\ spc \in {"record", "create", "poll"} => sCopy.name \in Snapshot!Names

\* A status with another phase is a status, and so is one with a name.
LEMMA ChangedSnapshotStatus ==
  ASSUME NEW s \in SnapshotStatuses
  PROVE  /\ \A p \in Snapshot!Phases :
              /\ [s EXCEPT !.phase = p] \in SnapshotStatuses
              /\ [s EXCEPT !.phase = p].phase = p
              /\ [s EXCEPT !.phase = p].name = s.name
         /\ \A n \in 0..SnapshotNames :
              /\ [s EXCEPT !.name = n] \in SnapshotStatuses
              /\ [s EXCEPT !.name = n].name = n
  BY DEF SnapshotStatuses

\* The phases a state of a snapshot turns into.
LEMMA PhaseOfState ==
  ASSUME NEW st \in Snapshot!States
  PROVE  /\ Snapshot!PhaseOf(st) \in Snapshot!Phases
         /\ Snapshot!PhaseOf(st) \in {"Completed", "Partial"} => st \in {"SUCCESS", "PARTIAL"}
  BY DEF Snapshot!PhaseOf, Snapshot!States, Snapshot!Phases

\* What a status write does, whether it succeeds, is refused or fails.
LEMMA SnapshotWrite ==
  ASSUME Snapshot!SnapshotConstants, SnapshotTypes, NEW s \in SnapshotStatuses,
         NEW changes \in BOOLEAN, Snapshot!updateStatus(s, changes)
  PROVE  /\ sStored' \in SnapshotStatuses /\ sBefore' \in SnapshotStatuses
         /\ sFaults' \in 0..SnapshotFaults /\ excused' \in Nat /\ excused' <= sFaults'
         /\ sQueued' \in BOOLEAN
         /\ \/ ~sStale /\ sStored' = s /\ excused' = excused
            \/ sStale /\ sStored' = sStored /\ excused' = excused
            \/ sStored' = sStored /\ excused' = excused + 1
<1>1. /\ sStored \in SnapshotStatuses /\ sBefore \in SnapshotStatuses
      /\ sFaults \in 0..SnapshotFaults /\ excused \in Nat /\ excused <= sFaults
      /\ sQueued \in BOOLEAN /\ SnapshotFaults \in Nat
  BY DEF SnapshotTypes, Snapshot!SnapshotConstants
<1>2. (changes \/ s # sStored \/ s.phase = "InProgress" \/ sQueued) \in BOOLEAN
  OBVIOUS
<1>3. sQueued' \in BOOLEAN
  BY <1>2, Zenon DEF Snapshot!updateStatus
<1> QED  BY <1>1, <1>3 DEF Snapshot!updateStatus, Snapshot!Fault

\* Every step keeps the types.
LEMMA SnapshotTypesInductive ==
  ASSUME Snapshot!SnapshotConstants, SnapshotTypes, [Snapshot!Next]_(Snapshot!sVars)
  PROVE  SnapshotTypes'
<1> DEFINE Counted == /\ sFaults' \in 0..SnapshotFaults /\ excused' \in Nat
                      /\ excused' <= sFaults'
           Written == /\ sStored' \in SnapshotStatuses /\ sBefore' \in SnapshotStatuses
                      /\ sCopy' \in SnapshotStatuses
           Rest == /\ sEnv' = sEnv /\ repo' = repo /\ attempts' \in Nat
                   /\ taken' \in [Snapshot!Names -> Snapshot!States \cup {"absent"}]
                   /\ issued' \in 0..SnapshotNames
           Pass == /\ sStale' \in BOOLEAN /\ sQueued' \in BOOLEAN
                   /\ spc' \in {"idle", "check", "look", "record", "create", "poll",
                                "fail"}
                   /\ spc' \in {"record", "create", "poll"}
                        => sCopy'.name \in Snapshot!Names
<1> USE DEF Snapshot!searchVars
<1>0. SnapshotTypes /\ {SnapshotNames, SnapshotFaults} \subseteq Nat
  BY DEF Snapshot!SnapshotConstants
<1>q. Counted /\ Written /\ Rest /\ Pass => SnapshotTypes'
  BY <1>0 DEF SnapshotTypes
<1>c. ASSUME NEW k, Snapshot!Fault(k), excused' = excused \/ excused' = excused + 1
      PROVE  Counted
  BY <1>0, <1>c DEF Snapshot!Fault, SnapshotTypes
<1>u. UNCHANGED <<sFaults, excused>> => Counted
  BY <1>0 DEF SnapshotTypes
<1>n. Snapshot!NoStatus \in SnapshotStatuses
  BY <1>0 DEF Snapshot!NoStatus, SnapshotStatuses, Snapshot!Phases
<1>o. UNCHANGED <<sEnv, Snapshot!searchVars, issued>> => Rest
  BY <1>0 DEF SnapshotTypes
<1>r. ASSUME NEW s \in SnapshotStatuses, NEW b \in BOOLEAN, Snapshot!Return(s, b),
             UNCHANGED <<sEnv, Snapshot!searchVars, sStale, issued>>
      PROVE  SnapshotTypes'
  <2>1. Snapshot!updateStatus(s, b) /\ sCopy' = Snapshot!NoStatus /\ spc' = "idle"
    BY <1>r DEF Snapshot!Return
  <2>2. Counted /\ Written /\ sQueued' \in BOOLEAN
    BY <1>0, <1>n, <2>1, SnapshotWrite
  <2>3. Pass
    BY <1>0, <1>r, <2>1, <2>2 DEF SnapshotTypes
  <2> QED  BY <1>r, <1>o, <1>q, <2>2, <2>3
<1>1. CASE Snapshot!Reconcile
  <2>1. Counted
    BY <1>1, <1>c, <1>u DEF Snapshot!Reconcile
  <2>2. Written /\ Pass
    BY <1>0, <1>1, Zenon DEF Snapshot!Reconcile, SnapshotTypes
  <2> QED  BY <1>1, <1>o, <1>q, <2>1, <2>2 DEF Snapshot!Reconcile
<1>2. CASE Snapshot!GetRepository
  <2>1. Counted
    BY <1>2, <1>c, <1>u DEF Snapshot!GetRepository
  <2>2. Written /\ Pass
    BY <1>0, <1>2 DEF Snapshot!GetRepository, SnapshotTypes
  <2> QED  BY <1>2, <1>o, <1>q, <2>1, <2>2 DEF Snapshot!GetRepository
<1>3. CASE Snapshot!GetSnapshot
  <2> DEFINE name == IF sCopy.name = 0 THEN issued + 1 ELSE sCopy.name
  <2>1. name \in Snapshot!Names /\ sCopy' = [sCopy EXCEPT !.name = name]
    BY <1>3 DEF Snapshot!GetSnapshot
  <2>2. name \in 0..SnapshotNames /\ Snapshot!Names \subseteq 0..SnapshotNames
    BY <1>0, <2>1 DEF Snapshot!Names
  <2>3. sCopy' \in SnapshotStatuses /\ sCopy'.name = name
    BY <1>0, <2>1, <2>2, ChangedSnapshotStatus DEF SnapshotTypes
  <2>4. Counted
    BY <1>3, <1>c, <1>u DEF Snapshot!GetSnapshot
  <2>5. issued' \in 0..SnapshotNames
    BY <1>0, <1>3, <2>2 DEF Snapshot!GetSnapshot, SnapshotTypes
  <2>6. Rest
    BY <1>0, <1>3, <2>5 DEF Snapshot!GetSnapshot, SnapshotTypes
  <2>7. Written
    BY <1>0, <1>3, <2>3 DEF Snapshot!GetSnapshot, SnapshotTypes
  <2>8. spc' \in {"record", "poll", "fail"} /\ UNCHANGED <<sStale, sQueued>>
    BY <1>3 DEF Snapshot!GetSnapshot
  <2>9. Pass
    BY <1>0, <2>1, <2>3, <2>8 DEF SnapshotTypes
  <2> QED  BY <1>q, <2>4, <2>6, <2>7, <2>9
<1>4. CASE Snapshot!RecordName
  <2> DEFINE s == [sCopy EXCEPT !.phase = "InProgress"]
  <2>1. s \in SnapshotStatuses /\ s.name = sCopy.name
    BY <1>0, ChangedSnapshotStatus, Zenon DEF SnapshotTypes, Snapshot!Phases
  <2>2. Snapshot!updateStatus(s, FALSE) /\ sCopy' = s
    BY <1>4, Zenon DEF Snapshot!RecordName
  <2> HIDE DEF s
  <2>3. Counted /\ Written /\ sQueued' \in BOOLEAN
    BY <1>0, <2>1, <2>2, SnapshotWrite, Zenon
  <2>4. Pass
    BY <1>0, <1>4, <2>1, <2>2, <2>3 DEF Snapshot!RecordName, SnapshotTypes
  <2> QED  BY <1>4, <1>o, <1>q, <2>3, <2>4 DEF Snapshot!RecordName
<1>5. CASE Snapshot!CreateSnapshot
  <2>1. Counted
    BY <1>5, <1>c, <1>u DEF Snapshot!CreateSnapshot
  <2>2. taken' \in [Snapshot!Names -> Snapshot!States \cup {"absent"}]
    BY <1>0, <1>5 DEF Snapshot!CreateSnapshot, SnapshotTypes, Snapshot!States
  <2>3. Rest
    BY <1>0, <1>5, <2>2 DEF Snapshot!CreateSnapshot, SnapshotTypes
  <2>4. Written /\ Pass
    BY <1>0, <1>5 DEF Snapshot!CreateSnapshot, SnapshotTypes
  <2> QED  BY <1>q, <2>1, <2>3, <2>4
<1>6. CASE Snapshot!updateSnapshotStatus
  <2>1. CASE /\ taken[sCopy.name] # "absent"
             /\ LET phase == Snapshot!PhaseOf(taken[sCopy.name])
                IN  Snapshot!Return([sCopy EXCEPT !.phase = phase], phase # "InProgress")
    <3>1. taken[sCopy.name] \in Snapshot!States
      BY <1>0, <1>6, <2>1 DEF Snapshot!updateSnapshotStatus, SnapshotTypes
    <3>2. [sCopy EXCEPT !.phase = Snapshot!PhaseOf(taken[sCopy.name])] \in SnapshotStatuses
      BY <1>0, <3>1, PhaseOfState, ChangedSnapshotStatus DEF SnapshotTypes
    <3>3. (Snapshot!PhaseOf(taken[sCopy.name]) # "InProgress") \in BOOLEAN
      OBVIOUS
    <3> QED  BY <1>6, <1>r, <2>1, <3>2, <3>3, Zenon DEF Snapshot!updateSnapshotStatus
  <2>2. CASE spc' = "fail" /\ UNCHANGED <<sStored, sBefore, sCopy, sQueued, excused>>
             /\ (UNCHANGED sFaults \/ Snapshot!Fault("read"))
    <3>1. Counted
      BY <1>c, <1>u, <2>2
    <3>2. Written /\ Pass
      BY <1>0, <1>6, <2>2 DEF Snapshot!updateSnapshotStatus, SnapshotTypes
    <3> QED  BY <1>6, <1>o, <1>q, <3>1, <3>2 DEF Snapshot!updateSnapshotStatus
  <2> QED  BY <1>6, <2>1, <2>2 DEF Snapshot!updateSnapshotStatus
<1>7. CASE Snapshot!Fail
  <2>1. [sCopy EXCEPT !.phase = "Failed"] \in SnapshotStatuses
    BY <1>0, ChangedSnapshotStatus, Zenon DEF SnapshotTypes, Snapshot!Phases
  <2> QED  BY <1>7, <1>r, <2>1, Zenon DEF Snapshot!Fail
<1>8. CASE \E n \in Snapshot!Names : Snapshot!EndSnapshot(n) \/ Snapshot!Prune(n)
  <2>1. Counted
    BY <1>8, <1>c, <1>u DEF Snapshot!EndSnapshot, Snapshot!Prune
  <2>2. taken' \in [Snapshot!Names -> Snapshot!States \cup {"absent"}]
    BY <1>0, <1>8 DEF Snapshot!EndSnapshot, Snapshot!Prune, SnapshotTypes
  <2>3. Rest
    BY <1>0, <1>8, <2>2 DEF Snapshot!EndSnapshot, Snapshot!Prune, SnapshotTypes
  <2>4. Written /\ Pass
    BY <1>0, <1>8 DEF Snapshot!EndSnapshot, Snapshot!Prune, SnapshotTypes
  <2> QED  BY <1>q, <2>1, <2>3, <2>4
<1>9. CASE Snapshot!Crash \/ Snapshot!Edit
  <2>1. Counted
    BY <1>9, <1>c DEF Snapshot!Crash, Snapshot!Edit
  <2>2. Written /\ Pass
    BY <1>0, <1>9, <1>n, Zenon DEF Snapshot!Crash, Snapshot!Edit, SnapshotTypes
  <2> QED  BY <1>9, <1>o, <1>q, <2>1, <2>2 DEF Snapshot!Crash, Snapshot!Edit
<1>10. CASE UNCHANGED Snapshot!sVars
  <2>1. Written /\ Pass
    BY <1>0, <1>10 DEF Snapshot!sVars, SnapshotTypes
  <2> QED  BY <1>10, <1>o, <1>q, <1>u, <2>1 DEF Snapshot!sVars
<1> QED
  BY <1>1, <1>2, <1>3, <1>4, <1>5, <1>6, <1>7, <1>8, <1>9, <1>10
  DEF Snapshot!Next, Snapshot!Operator, Snapshot!Ends

-----------------------------------------------------------------------------
(***************************************************************************)
(* ManualSnapshot: one snapshot per resource.  The last attempt beyond the *)
(* excused ones is the snapshot the status names, so the next pass that    *)
(* reads the status finds it; a pass that did not read it, or did not get  *)
(* to write the name, has an excuse for another attempt.                   *)
(***************************************************************************)
Secured == sStored.name # 0 /\ taken[sStored.name] # "absent"

\* No room for another attempt, unless the status lacks a snapshot.
AttemptsCovered == attempts <= excused \/ (attempts = excused + 1 /\ Secured)

\* A pass that may still ask, on an object that has changed since its read.
StaleHasRoom ==
  sStale /\ spc \in {"check", "look", "record", "create"} =>
    attempts < excused \/ (attempts = excused /\ Secured)

\* The same on the object as it is: up to the look the pass has its status, and
\* the name it looks for becomes the name in the status.
FreshHasRoom ==
  ~sStale =>
    /\ spc \in {"check", "look"} => sCopy = sStored
    /\ spc = "record" => attempts <= excused
    /\ spc = "create" =>
         attempts < excused \/ (attempts = excused /\ sStored.name = sCopy.name)
    /\ spc \in {"poll", "fail"} => attempts <= excused \/ sCopy.name = sStored.name

AttemptInv == AttemptsCovered /\ StaleHasRoom /\ FreshHasRoom

\* Every step keeps the account of the attempts.
LEMMA AttemptsInductive ==
  ASSUME Snapshot!SnapshotConstants, SnapshotTypes, SnapshotTypes', AttemptInv,
         [Snapshot!Next]_(Snapshot!sVars)
  PROVE  AttemptInv'
<1> USE DEF Snapshot!searchVars
<1>0. SnapshotTypes /\ {SnapshotNames, SnapshotFaults} \subseteq Nat
  BY DEF Snapshot!SnapshotConstants
<1>n. /\ attempts \in Nat /\ excused \in Nat
      /\ excused' \in Nat /\ attempts' \in Nat
      /\ sStored \in SnapshotStatuses /\ sCopy \in SnapshotStatuses
      /\ sStale \in BOOLEAN /\ sStale' \in BOOLEAN
  BY DEF SnapshotTypes
<1>i. AttemptsCovered /\ StaleHasRoom /\ FreshHasRoom
  BY DEF AttemptInv
<1>q. AttemptsCovered' /\ StaleHasRoom' /\ FreshHasRoom' => AttemptInv'
  BY DEF AttemptInv
\* Another excuse leaves room for one more attempt.
<1>e. ASSUME UNCHANGED attempts, excused' = excused + 1 PROVE AttemptsCovered'
  <2>1. attempts <= excused + 1
    BY <1>i, <1>n DEF AttemptsCovered
  <2> QED  BY <1>e, <2>1 DEF AttemptsCovered
<1>k. ASSUME UNCHANGED <<attempts, excused, taken, sStored>> PROVE AttemptsCovered'
  BY <1>i, <1>k DEF AttemptsCovered, Secured
\* The end of a pass writes the name it has, if anything.
<1>r. ASSUME NEW s \in SnapshotStatuses, s.name = sCopy.name, NEW b \in BOOLEAN,
             Snapshot!Return(s, b), spc \in {"poll", "fail"},
             UNCHANGED <<sEnv, Snapshot!searchVars, sStale, issued>>
      PROVE  AttemptInv'
  <2>1. \/ ~sStale /\ sStored' = s /\ excused' = excused
        \/ sStale /\ sStored' = sStored /\ excused' = excused
        \/ sStored' = sStored /\ excused' = excused + 1
    BY <1>0, <1>r, SnapshotWrite DEF Snapshot!Return
  <2>2. spc' = "idle"
    BY <1>r DEF Snapshot!Return
  <2>3. AttemptsCovered'
    <3>1. CASE ~sStale /\ sStored' = s /\ excused' = excused
      <4>1. attempts <= excused \/ s.name = sStored.name
        BY <1>i, <1>r, <3>1 DEF FreshHasRoom
      <4> QED  BY <1>i, <1>r, <3>1, <4>1 DEF AttemptsCovered, Secured
    <3>2. CASE sStored' = sStored /\ (excused' = excused \/ excused' = excused + 1)
      BY <1>r, <1>e, <1>k, <3>2
    <3> QED  BY <2>1, <3>1, <3>2
  <2>4. StaleHasRoom' /\ FreshHasRoom'
    BY <2>2 DEF StaleHasRoom, FreshHasRoom
  <2> QED  BY <1>q, <2>3, <2>4
<1>1. CASE Snapshot!Reconcile
  <2>1. /\ UNCHANGED <<taken, attempts, sStored>> /\ spc' = "check"
        /\ \/ sCopy' = sStored /\ sStale' = FALSE /\ excused' = excused
           \/ sStale' = TRUE /\ excused' = excused + 1
    BY <1>1 DEF Snapshot!Reconcile
  <2>2. AttemptsCovered'
    BY <1>e, <1>k, <2>1
  <2>3. StaleHasRoom'
    BY <1>i, <1>n, <2>1 DEF AttemptsCovered, StaleHasRoom, Secured
  <2>4. FreshHasRoom'
    BY <2>1 DEF FreshHasRoom
  <2> QED  BY <1>q, <2>2, <2>3, <2>4
<1>2. CASE Snapshot!GetRepository
  <2>1. /\ UNCHANGED <<taken, attempts, excused, sStored, sCopy, sStale>>
        /\ spc = "check" /\ spc' \in {"look", "fail"}
    BY <1>2 DEF Snapshot!GetRepository
  <2>2. AttemptsCovered'
    BY <1>i, <2>1 DEF AttemptsCovered, Secured
  <2>3. StaleHasRoom'
    BY <1>i, <2>1 DEF StaleHasRoom, Secured
  <2>4. FreshHasRoom'
    BY <1>i, <2>1 DEF FreshHasRoom
  <2> QED  BY <1>q, <2>2, <2>3, <2>4
<1>3. CASE Snapshot!GetSnapshot
  <2> DEFINE name == IF sCopy.name = 0 THEN issued + 1 ELSE sCopy.name
  <2>1. /\ UNCHANGED <<taken, attempts, excused, sStored, sStale>>
        /\ spc = "look" /\ spc' \in {"record", "poll", "fail"}
        /\ spc' = "record" => taken[name] = "absent"
        /\ sCopy' = [sCopy EXCEPT !.name = name] /\ name \in Snapshot!Names
    BY <1>3 DEF Snapshot!GetSnapshot
  <2>2. sCopy'.name = name
    BY <1>n, <2>1 DEF SnapshotStatuses
  <2>3. ~sStale => sStored.name \in {0, name}
    BY <1>i, <2>1 DEF FreshHasRoom
  <2>4. ~sStale /\ sStored.name = 0 => attempts <= excused
    BY <1>i DEF AttemptsCovered, Secured
  <2>5. ~sStale /\ spc' = "record" => attempts <= excused
    BY <1>i, <2>1, <2>3 DEF AttemptsCovered, Secured
  <2> HIDE DEF name
  <2>6. AttemptsCovered'
    BY <1>i, <2>1 DEF AttemptsCovered, Secured
  <2>7. StaleHasRoom'
    BY <1>i, <2>1 DEF StaleHasRoom, Secured
  <2>8. FreshHasRoom'
    BY <2>1, <2>2, <2>3, <2>4, <2>5 DEF FreshHasRoom
  <2> QED  BY <1>q, <2>6, <2>7, <2>8
<1>4. CASE Snapshot!RecordName
  <2> DEFINE s == [sCopy EXCEPT !.phase = "InProgress"]
  <2>1. s \in SnapshotStatuses /\ s.name = sCopy.name
    BY <1>n, ChangedSnapshotStatus, Zenon DEF Snapshot!Phases
  <2>2. /\ Snapshot!updateStatus(s, FALSE) /\ sCopy' = s
        /\ spc = "record" /\ spc' = "create" /\ UNCHANGED <<taken, attempts, sStale>>
    BY <1>4, Zenon DEF Snapshot!RecordName
  <2> HIDE DEF s
  <2>3. \/ ~sStale /\ sStored' = s /\ excused' = excused
        \/ sStale /\ sStored' = sStored /\ excused' = excused
        \/ sStored' = sStored /\ excused' = excused + 1
    BY <1>0, <2>1, <2>2, SnapshotWrite, Zenon
  <2>4. attempts <= excused
    BY <1>i, <1>n, <2>2 DEF StaleHasRoom, FreshHasRoom
  <2>5. AttemptsCovered'
    <3>1. CASE excused' = excused
      BY <2>2, <2>4, <3>1 DEF AttemptsCovered
    <3> QED  BY <1>e, <2>2, <2>3, <3>1
  <2>6. StaleHasRoom'
    <3>1. CASE sStale
      BY <1>i, <1>n, <2>2, <2>3, <2>4, <3>1 DEF StaleHasRoom, Secured
    <3>2. CASE ~sStale
      BY <2>2, <3>2 DEF StaleHasRoom
    <3> QED  BY <3>1, <3>2
  <2>7. FreshHasRoom'
    BY <1>n, <2>1, <2>2, <2>3, <2>4 DEF FreshHasRoom
  <2> QED  BY <1>q, <2>5, <2>6, <2>7
<1>5. CASE Snapshot!CreateSnapshot
  <2>1. /\ UNCHANGED <<excused, sStored, sCopy, sStale>>
        /\ spc = "create" /\ spc' \in {"poll", "fail"}
        /\ \/ /\ taken' = [taken EXCEPT ![sCopy.name] = "IN_PROGRESS"]
              /\ attempts' = attempts + 1
           \/ UNCHANGED <<taken, attempts>>
    BY <1>5 DEF Snapshot!CreateSnapshot
  <2>2. /\ sCopy.name \in Snapshot!Names /\ sCopy.name # 0
        /\ taken \in [Snapshot!Names -> Snapshot!States \cup {"absent"}]
    BY <1>0, <2>1 DEF SnapshotTypes, Snapshot!Names
  <2>3. sStored.name \in 0..SnapshotNames
    BY <1>n DEF SnapshotStatuses
  <2>4. Secured => Secured'
    BY <1>0, <2>1, <2>2, <2>3 DEF Secured, Snapshot!Names
  <2>5. \/ attempts < excused
        \/ attempts = excused /\ Secured
        \/ attempts = excused /\ ~sStale /\ sStored.name = sCopy.name
    BY <1>i, <1>n, <2>1 DEF StaleHasRoom, FreshHasRoom
  <2>6. attempts' = attempts + 1 /\ sStored.name = sCopy.name /\ taken' # taken => Secured'
    BY <2>1, <2>2 DEF Secured
  <2>7. \/ attempts' = attempts
        \/ /\ attempts' = attempts + 1
           /\ attempts < excused \/ (attempts = excused /\ Secured')
    <3>1. CASE UNCHANGED attempts  BY <3>1
    <3>2. CASE /\ taken' = [taken EXCEPT ![sCopy.name] = "IN_PROGRESS"]
               /\ attempts' = attempts + 1
      <4>1. sStored.name = sCopy.name => Secured'
        BY <2>1, <2>2, <3>2 DEF Secured
      <4> QED  BY <2>4, <2>5, <3>2, <4>1
    <3> QED  BY <2>1, <3>1, <3>2
  <2>8. AttemptsCovered'
    BY <1>i, <1>n, <2>1, <2>4, <2>7 DEF AttemptsCovered
  <2>9. StaleHasRoom' /\ FreshHasRoom'
    BY <1>i, <1>n, <2>1, <2>5 DEF StaleHasRoom, FreshHasRoom
  <2> QED  BY <1>q, <2>8, <2>9
<1>6. CASE Snapshot!updateSnapshotStatus
  <2>1. CASE /\ taken[sCopy.name] # "absent"
             /\ LET phase == Snapshot!PhaseOf(taken[sCopy.name])
                IN  Snapshot!Return([sCopy EXCEPT !.phase = phase], phase # "InProgress")
    <3>1. taken[sCopy.name] \in Snapshot!States
      BY <1>0, <1>6, <2>1 DEF Snapshot!updateSnapshotStatus, SnapshotTypes
    <3>2. /\ [sCopy EXCEPT !.phase = Snapshot!PhaseOf(taken[sCopy.name])] \in SnapshotStatuses
          /\ [sCopy EXCEPT !.phase = Snapshot!PhaseOf(taken[sCopy.name])].name = sCopy.name
      BY <1>n, <3>1, PhaseOfState, ChangedSnapshotStatus
    <3>3. (Snapshot!PhaseOf(taken[sCopy.name]) # "InProgress") \in BOOLEAN
      OBVIOUS
    <3> QED  BY <1>6, <1>r, <2>1, <3>2, <3>3, Zenon DEF Snapshot!updateSnapshotStatus
  <2>2. CASE spc' = "fail" /\ UNCHANGED <<sStored, sCopy, excused>>
    <3>1. spc = "poll" /\ UNCHANGED <<taken, attempts, sStale>>
      BY <1>6 DEF Snapshot!updateSnapshotStatus
    <3>2. AttemptsCovered'
      BY <1>i, <2>2, <3>1 DEF AttemptsCovered, Secured
    <3>3. StaleHasRoom' /\ FreshHasRoom'
      BY <1>i, <2>2, <3>1 DEF StaleHasRoom, FreshHasRoom
    <3> QED  BY <1>q, <3>2, <3>3
  <2> QED  BY <1>6, <2>1, <2>2 DEF Snapshot!updateSnapshotStatus
<1>7. CASE Snapshot!Fail
  <2>1. /\ [sCopy EXCEPT !.phase = "Failed"] \in SnapshotStatuses
        /\ [sCopy EXCEPT !.phase = "Failed"].name = sCopy.name
    BY <1>n, ChangedSnapshotStatus, Zenon DEF Snapshot!Phases
  <2> QED  BY <1>7, <1>r, <2>1, Zenon DEF Snapshot!Fail
<1>8. CASE \E n \in Snapshot!Names : Snapshot!EndSnapshot(n)
  <2>1. PICK n \in Snapshot!Names : Snapshot!EndSnapshot(n)
    BY <1>8
  <2>2. UNCHANGED <<excused, attempts, sStored, sCopy, sStale, spc>>
    BY <2>1 DEF Snapshot!EndSnapshot
  <2>3. Secured => Secured'
    <3>1. PICK st \in Snapshot!States \ {"IN_PROGRESS"} : taken' = [taken EXCEPT ![n] = st]
      BY <2>1, Zenon DEF Snapshot!EndSnapshot
    <3>2. st # "absent" /\ taken \in [Snapshot!Names -> Snapshot!States \cup {"absent"}]
      BY <1>0 DEF Snapshot!States, SnapshotTypes
    <3>3. sStored.name \in 0..SnapshotNames
      BY <1>n DEF SnapshotStatuses
    <3> QED  BY <1>0, <2>2, <3>1, <3>2, <3>3 DEF Secured, Snapshot!Names
  <2>4. AttemptsCovered' /\ StaleHasRoom' /\ FreshHasRoom'
    BY <1>i, <2>2, <2>3 DEF AttemptsCovered, StaleHasRoom, FreshHasRoom
  <2> QED  BY <1>q, <2>4
<1>9. CASE \E n \in Snapshot!Names : Snapshot!Prune(n)
  <2>1. /\ UNCHANGED <<attempts, sStored, sCopy, sStale, spc>>
        /\ excused' = excused + 1
    BY <1>9 DEF Snapshot!Prune
  <2>2. AttemptsCovered'
    BY <1>i, <1>n, <2>1 DEF AttemptsCovered
  <2>3. StaleHasRoom'
    BY <1>i, <1>n, <2>1 DEF StaleHasRoom
  <2>4. FreshHasRoom'
    BY <1>i, <1>n, <2>1 DEF FreshHasRoom
  <2> QED  BY <1>q, <2>2, <2>3, <2>4
<1>10. CASE Snapshot!Crash
  <2>1. UNCHANGED <<taken, attempts, excused, sStored>> /\ spc' = "idle"
    BY <1>10 DEF Snapshot!Crash
  <2> QED  BY <1>i, <1>q, <2>1 DEF AttemptsCovered, Secured, StaleHasRoom, FreshHasRoom
<1>11. CASE Snapshot!Edit
  <2>1. /\ UNCHANGED <<taken, attempts, sStored, sCopy, spc>>
        /\ sStale' = TRUE /\ excused' = excused + 1
    BY <1>11 DEF Snapshot!Edit
  <2>2. AttemptsCovered' /\ StaleHasRoom'
    BY <1>i, <1>n, <2>1 DEF AttemptsCovered, StaleHasRoom, Secured
  <2>3. FreshHasRoom'
    BY <2>1 DEF FreshHasRoom
  <2> QED  BY <1>q, <2>2, <2>3
<1>12. CASE UNCHANGED Snapshot!sVars
  <2>1. UNCHANGED <<taken, attempts, excused, sStored, sCopy, sStale, spc>>
    BY <1>12 DEF Snapshot!sVars
  <2> QED  BY <1>i, <1>q, <2>1 DEF AttemptsCovered, Secured, StaleHasRoom, FreshHasRoom
<1> QED
  BY <1>1, <1>2, <1>3, <1>4, <1>5, <1>6, <1>7, <1>8, <1>9, <1>10, <1>11, <1>12
  DEF Snapshot!Next, Snapshot!Operator, Snapshot!Ends

\* The first state has the types and the account.
LEMMA SnapshotInitially ==
  ASSUME Snapshot!SnapshotConstants, Snapshot!Init
  PROVE  SnapshotTypes /\ AttemptInv
<1>1. Snapshot!NoStatus \in SnapshotStatuses
  BY DEF Snapshot!NoStatus, SnapshotStatuses, Snapshot!Phases, Snapshot!SnapshotConstants
<1>2. [n \in Snapshot!Names |-> "absent"]
        \in [Snapshot!Names -> Snapshot!States \cup {"absent"}]
  OBVIOUS
<1>3. SnapshotTypes
  <2>1. /\ sEnv \in SUBSET Snapshot!SnapshotFaultKinds /\ repo \in BOOLEAN
        /\ sFaults \in 0..SnapshotFaults /\ excused \in Nat /\ excused <= sFaults
        /\ attempts \in Nat /\ issued \in 0..SnapshotNames
    BY DEF Snapshot!Init, Snapshot!SnapshotConstants
  <2>2. /\ sStored \in SnapshotStatuses /\ sBefore \in SnapshotStatuses
        /\ sCopy \in SnapshotStatuses
        /\ taken \in [Snapshot!Names -> Snapshot!States \cup {"absent"}]
    BY <1>1, <1>2 DEF Snapshot!Init
  <2> QED  BY <2>1, <2>2, Zenon DEF Snapshot!Init, SnapshotTypes
<1>4. AttemptInv
  BY DEF Snapshot!Init, AttemptInv, AttemptsCovered, StaleHasRoom, FreshHasRoom
<1> QED  BY <1>3, <1>4

\* Types and account hold in every state.
LEMMA AttemptsInvariant ==
  ASSUME Snapshot!SnapshotConstants
  PROVE  Snapshot!Spec => [](SnapshotTypes /\ AttemptInv)
<1>1. Snapshot!Init => SnapshotTypes /\ AttemptInv  BY SnapshotInitially
<1>2. SnapshotTypes /\ AttemptInv /\ [Snapshot!Next]_(Snapshot!sVars)
        => (SnapshotTypes /\ AttemptInv)'
  BY SnapshotTypesInductive, AttemptsInductive
<1> QED  BY <1>1, <1>2, PTL DEF Snapshot!Spec

\* An OpenSearchSnapshot takes one snapshot, but for one more per status write
\* that was refused or overtaken and per snapshot that was deleted, wherever
\* the operator restarts between RecordName and CreateSnapshot.
THEOREM SnapshotIsTakenOnce ==
  ASSUME Snapshot!SnapshotConstants PROVE Snapshot!Spec => []OneSnapshot
<1>1. SnapshotTypes /\ AttemptInv => OneSnapshot
  <2> SUFFICES ASSUME SnapshotTypes, AttemptInv PROVE OneSnapshot
    OBVIOUS
  <2>1. attempts \in Nat /\ excused \in Nat
    BY DEF SnapshotTypes
  <2> QED  BY <2>1 DEF AttemptInv, AttemptsCovered, OneSnapshot, Snapshot!OneSnapshot
<1> QED  BY <1>1, AttemptsInvariant, PTL

\* The attempts are bounded because the excuses are.
THEOREM SnapshotTypeCorrect ==
  ASSUME Snapshot!SnapshotConstants PROVE Snapshot!Spec => []Snapshot!TypeOK
<1>1. SnapshotTypes /\ AttemptInv => Snapshot!TypeOK
  <2> SUFFICES ASSUME SnapshotTypes, AttemptInv PROVE Snapshot!TypeOK
    OBVIOUS
  <2>1. /\ attempts \in Nat /\ excused \in 0..SnapshotFaults
        /\ attempts <= excused + 1 /\ SnapshotFaults \in Nat
    BY DEF SnapshotTypes, AttemptInv, AttemptsCovered, Snapshot!SnapshotConstants
  <2>2. attempts \in 0..(SnapshotFaults + 1)
    BY <2>1
  <2> QED  BY <2>1, <2>2 DEF SnapshotTypes, SnapshotStatuses, Snapshot!TypeOK
<1> QED  BY <1>1, AttemptsInvariant, PTL

-----------------------------------------------------------------------------
(***************************************************************************)
(* ManualSnapshot: what Completed and Partial mean.                        *)
(***************************************************************************)

\* A pass asks for a snapshot only under a name that has none, so it never
\* replaces the one a status speaks of.
PhaseInv ==
  "prune" \notin sEnv =>
    /\ PhaseIsTrue
    /\ spc \in {"record", "create"} => taken[sCopy.name] = "absent"

\* Every step keeps what the status says.
LEMMA PhaseInductive ==
  ASSUME Snapshot!SnapshotConstants, SnapshotTypes, SnapshotTypes', PhaseInv,
         "prune" \notin sEnv, [Snapshot!Next]_(Snapshot!sVars)
  PROVE  PhaseInv'
<1> USE DEF Snapshot!searchVars
<1>n. /\ sStored \in SnapshotStatuses /\ sCopy \in SnapshotStatuses
      /\ taken \in [Snapshot!Names -> Snapshot!States \cup {"absent"}]
      /\ 0 \notin Snapshot!Names
      /\ sStored.name \in Snapshot!Names \cup {0}
  <2>1. /\ sStored \in SnapshotStatuses /\ sCopy \in SnapshotStatuses
        /\ taken \in [Snapshot!Names -> Snapshot!States \cup {"absent"}]
    BY DEF SnapshotTypes
  <2>2. sStored.name \in 0..SnapshotNames /\ SnapshotNames \in Nat
    BY <2>1 DEF SnapshotStatuses, Snapshot!SnapshotConstants
  <2> QED  BY <2>1, <2>2 DEF Snapshot!Names
<1>i. /\ sStored.phase \in {"Completed", "Partial"} =>
           /\ sStored.name # 0 /\ taken[sStored.name] # "absent"
           /\ Snapshot!PhaseOf(taken[sStored.name]) = sStored.phase
      /\ spc \in {"record", "create"} => taken[sCopy.name] = "absent"
  BY DEF PhaseInv, PhaseIsTrue, Snapshot!PhaseIsTrue
<1>q. ASSUME /\ sStored'.phase \in {"Completed", "Partial"} =>
                  /\ sStored'.name # 0 /\ taken'[sStored'.name] # "absent"
                  /\ Snapshot!PhaseOf(taken'[sStored'.name]) = sStored'.phase
             /\ spc' \in {"record", "create"} => taken'[sCopy'.name] = "absent"
      PROVE  PhaseInv'
  BY <1>q, Zenon DEF PhaseInv, PhaseIsTrue, Snapshot!PhaseIsTrue, Snapshot!PhaseOf
<1>u. ASSUME UNCHANGED <<taken, sStored>>,
             spc' \notin {"record", "create"} \/ UNCHANGED <<spc, sCopy>>
      PROVE  PhaseInv'
  BY <1>i, <1>q, <1>u
\* A write of a phase that is not an end, or of the end there was.
<1>w. ASSUME NEW s \in SnapshotStatuses, NEW b \in BOOLEAN,
             Snapshot!updateStatus(s, b), UNCHANGED taken,
             s.phase \in {"Completed", "Partial"} =>
               /\ s.name # 0 /\ taken[s.name] # "absent"
               /\ Snapshot!PhaseOf(taken[s.name]) = s.phase,
             spc' \in {"record", "create"} => taken[sCopy'.name] = "absent"
      PROVE  PhaseInv'
  <2>1. sStored' = s \/ sStored' = sStored
    BY <1>w, SnapshotWrite
  <2> QED  BY <1>i, <1>q, <1>w, <2>1
<1>1. CASE Snapshot!Reconcile
  BY <1>1, <1>u DEF Snapshot!Reconcile
<1>2. CASE Snapshot!GetRepository
  BY <1>2, <1>u DEF Snapshot!GetRepository
<1>3. CASE Snapshot!GetSnapshot
  <2> DEFINE name == IF sCopy.name = 0 THEN issued + 1 ELSE sCopy.name
  <2>1. /\ UNCHANGED <<taken, sStored>> /\ spc' # "create"
        /\ spc' = "record" => taken[name] = "absent"
        /\ sCopy' = [sCopy EXCEPT !.name = name]
    BY <1>3 DEF Snapshot!GetSnapshot
  <2>2. sCopy'.name = name
    BY <1>n, <2>1 DEF SnapshotStatuses
  <2> HIDE DEF name
  <2> QED  BY <1>i, <1>q, <2>1, <2>2
<1>4. CASE Snapshot!RecordName
  <2> DEFINE s == [sCopy EXCEPT !.phase = "InProgress"]
  <2>1. /\ s \in SnapshotStatuses /\ s.name = sCopy.name
        /\ s.phase \notin {"Completed", "Partial"}
    BY <1>n, ChangedSnapshotStatus, Zenon DEF Snapshot!Phases
  <2>2. /\ Snapshot!updateStatus(s, FALSE) /\ sCopy' = s
        /\ spc = "record" /\ UNCHANGED taken
    BY <1>4, Zenon DEF Snapshot!RecordName
  <2> HIDE DEF s
  <2> QED  BY <1>i, <1>w, <2>1, <2>2, Zenon
<1>5. CASE Snapshot!CreateSnapshot
  <2>1. /\ UNCHANGED sStored /\ spc = "create" /\ spc' \in {"poll", "fail"}
        /\ \/ taken' = [taken EXCEPT ![sCopy.name] = "IN_PROGRESS"]
           \/ UNCHANGED taken
    BY <1>5 DEF Snapshot!CreateSnapshot
  <2>2. sStored.phase \in {"Completed", "Partial"} => taken'[sStored.name] = taken[sStored.name]
    BY <1>i, <1>n, <2>1
  <2> QED  BY <1>i, <1>q, <2>1, <2>2
<1>6. CASE Snapshot!updateSnapshotStatus
  <2>1. CASE /\ taken[sCopy.name] # "absent"
             /\ LET phase == Snapshot!PhaseOf(taken[sCopy.name])
                IN  Snapshot!Return([sCopy EXCEPT !.phase = phase], phase # "InProgress")
    <3> DEFINE phase == Snapshot!PhaseOf(taken[sCopy.name])
               s == [sCopy EXCEPT !.phase = phase]
    <3>1. sCopy.name \in Snapshot!Names /\ taken[sCopy.name] \in Snapshot!States
      BY <1>6, <1>n, <2>1 DEF Snapshot!updateSnapshotStatus, SnapshotTypes
    <3>2. s \in SnapshotStatuses /\ s.name = sCopy.name /\ s.phase = phase
      BY <1>n, <3>1, PhaseOfState, ChangedSnapshotStatus
    <3>3. (phase # "InProgress") \in BOOLEAN
      OBVIOUS
    <3>4. Snapshot!updateStatus(s, phase # "InProgress") /\ spc' = "idle"
      BY <2>1 DEF Snapshot!Return
    <3>5. UNCHANGED taken
      BY <1>6 DEF Snapshot!updateSnapshotStatus
    <3>6. s.name # 0 /\ taken[s.name] # "absent" /\ Snapshot!PhaseOf(taken[s.name]) = s.phase
      BY <1>n, <2>1, <3>1, <3>2
    <3> HIDE DEF s, phase
    <3> QED  BY <1>w, <3>2, <3>3, <3>4, <3>5, <3>6, Zenon
  <2>2. CASE spc' = "fail" /\ UNCHANGED <<sStored, sCopy, excused>>
    BY <1>6, <1>u, <2>2 DEF Snapshot!updateSnapshotStatus
  <2> QED  BY <1>6, <2>1, <2>2 DEF Snapshot!updateSnapshotStatus
<1>7. CASE Snapshot!Fail
  <2>1. /\ [sCopy EXCEPT !.phase = "Failed"] \in SnapshotStatuses
        /\ [sCopy EXCEPT !.phase = "Failed"].phase \notin {"Completed", "Partial"}
    BY <1>n, ChangedSnapshotStatus, Zenon DEF Snapshot!Phases
  <2> QED  BY <1>7, <1>w, <2>1, Zenon DEF Snapshot!Fail, Snapshot!Return
<1>8. CASE \E n \in Snapshot!Names : Snapshot!EndSnapshot(n)
  <2>1. PICK n \in Snapshot!Names : Snapshot!EndSnapshot(n)
    BY <1>8
  <2>2. /\ UNCHANGED <<sStored, sCopy, spc>> /\ taken[n] = "IN_PROGRESS"
        /\ \E st \in Snapshot!States \ {"IN_PROGRESS"} : taken' = [taken EXCEPT ![n] = st]
    BY <2>1, Zenon DEF Snapshot!EndSnapshot
  <2>3. sStored.phase \in {"Completed", "Partial"} => sStored.name # n
    BY <1>i, <2>2 DEF Snapshot!PhaseOf
  <2>4. sStored.phase \in {"Completed", "Partial"} => taken'[sStored.name] = taken[sStored.name]
    BY <1>i, <1>n, <2>2, <2>3
  <2>5. spc \in {"record", "create"} => taken'[sCopy.name] = "absent"
    <3>1. spc \in {"record", "create"} => sCopy.name \in Snapshot!Names /\ sCopy.name # n
      BY <1>i, <2>2 DEF SnapshotTypes
    <3> QED  BY <1>i, <1>n, <2>2, <3>1
  <2> QED  BY <1>i, <1>q, <2>2, <2>4, <2>5
<1>9. CASE \E n \in Snapshot!Names : Snapshot!Prune(n)
  BY <1>9 DEF Snapshot!Prune, Snapshot!Fault
<1>10. CASE Snapshot!Crash \/ Snapshot!Edit
  BY <1>10, <1>u DEF Snapshot!Crash, Snapshot!Edit
<1>11. CASE UNCHANGED Snapshot!sVars
  BY <1>11, <1>u DEF Snapshot!sVars
<1> QED
  BY <1>1, <1>2, <1>3, <1>4, <1>5, <1>6, <1>7, <1>8, <1>9, <1>10, <1>11
  DEF Snapshot!Next, Snapshot!Operator, Snapshot!Ends

\* Completed and Partial are what became of the snapshot the status names: no
\* retry, overtaken write or restart lets the status of an OpenSearchSnapshot
\* speak of one that is missing, runs or failed.
THEOREM SnapshotPhaseIsTrue ==
  ASSUME Snapshot!SnapshotConstants PROVE Snapshot!Spec => []PhaseIsTrue
<1>1. Snapshot!Init => PhaseInv
  <2>1. Snapshot!NoPhase \notin {"Completed", "Partial"}
    BY Zenon DEF Snapshot!NoPhase
  <2> QED  BY <2>1 DEF Snapshot!Init, Snapshot!NoStatus, PhaseInv, PhaseIsTrue, Snapshot!PhaseIsTrue
<1>2. [Snapshot!Next]_(Snapshot!sVars) => sEnv' = sEnv
  BY Zenon DEF Snapshot!Next, Snapshot!Operator, Snapshot!Ends, Snapshot!Reconcile,
     Snapshot!GetRepository, Snapshot!GetSnapshot, Snapshot!RecordName,
     Snapshot!CreateSnapshot, Snapshot!updateSnapshotStatus, Snapshot!Fail,
     Snapshot!EndSnapshot, Snapshot!Prune, Snapshot!Crash, Snapshot!Edit, Snapshot!sVars
<1>3. SnapshotTypes /\ SnapshotTypes' /\ PhaseInv /\ [Snapshot!Next]_(Snapshot!sVars)
        => PhaseInv'
  <2>1. CASE "prune" \in sEnv
    BY <1>2, <2>1 DEF PhaseInv
  <2> QED  BY <2>1, PhaseInductive
<1>4. PhaseInv => PhaseIsTrue
  BY DEF PhaseInv, PhaseIsTrue, Snapshot!PhaseIsTrue
<1> QED  BY <1>1, <1>3, <1>4, AttemptsInvariant, PTL DEF Snapshot!Spec

-----------------------------------------------------------------------------
(***************************************************************************)
(* RestoreJob: the script.                                                 *)
(***************************************************************************)
CONSTANTS JobFaults, JobEnvironments

VARIABLES jEnv, jFaults, source, jField, opts, exists, jLife, phase, job, honoured,
          up, data, saved, skipped, jView, jpc

Jobs == INSTANCE RestoreJob

SavedBeforeOverwritten == Jobs!SavedBeforeOverwritten
CompletedIsTrue == Jobs!CompletedIsTrue
CompletedIsFinal == Jobs!CompletedIsFinal

script == Jobs!buildRestoreScript

\* A kind of storage is not the empty string.
LEMMA StorageHasType ==
  ASSUME source \in Jobs!Storages PROVE Jobs!getStorageType(source) # Jobs!NoStorage
  BY Zenon DEF Jobs!getStorageType, Jobs!NoStorage, Jobs!Storages

\* The lines of buildRestoreScript for an archive in a storage: the old data is
\* saved before anything is unpacked, and the manager is started last.
LEMMA ScriptLines ==
  ASSUME source \in Jobs!Storages
  PROVE  /\ Len(script) \in 4..7
         /\ \A i \in 1..Len(script) : script[i] \in Jobs!Lines \ {"config"}
         /\ \E i \in 1..Len(script) : script[i] = "extract"
         /\ "start" \in opts => script[Len(script)] = "start"
         /\ "save" \in opts =>
              \A i \in 1..Len(script) : script[i] = "extract" =>
                \E j \in 1..(i - 1) : script[j] = "save"
<1> USE StorageHasType DEF script, Jobs!buildRestoreScript
<1>1. Len(script) \in 4..7  OBVIOUS
<1>2. ASSUME NEW i \in 1..Len(script) PROVE script[i] \in Jobs!Lines \ {"config"}
  <2>1. script[i] \in {"find", "download", "stop", "save", "copy", "extract", "start"}
    BY <1>2
  <2> HIDE DEF script
  <2> QED  BY <2>1 DEF Jobs!Lines
<1>3. \E i \in 1..Len(script) : script[i] = "extract"  OBVIOUS
<1>4. "start" \in opts => script[Len(script)] = "start"  OBVIOUS
<1>5. ASSUME "save" \in opts, NEW i \in 1..Len(script), script[i] = "extract"
      PROVE  \E j \in 1..(i - 1) : script[j] = "save"
  <2>1. CASE "stop" \in opts
    <3>1. script[4] = "save"  BY <1>5, <2>1
    <3>2. \A j \in 1..4 : script[j] # "extract"  BY <1>5, <2>1
    <3> HIDE DEF script
    <3>3. 4 \in 1..(i - 1)  BY <1>1, <1>5, <3>2
    <3> QED  BY <3>1, <3>3
  <2>2. CASE "stop" \notin opts
    <3>1. script[3] = "save"  BY <1>5, <2>2
    <3>2. \A j \in 1..3 : script[j] # "extract"  BY <1>5, <2>2
    <3> HIDE DEF script
    <3>3. 3 \in 1..(i - 1)  BY <1>1, <1>5, <3>2
    <3> QED  BY <3>1, <3>3
  <2> QED  BY <2>1, <2>2
<1> QED  BY <1>1, <1>2, <1>3, <1>4, <1>5, Zenon

\* Without a storage the script is one line that ends it with an error.
LEMMA ScriptWithoutStorage ==
  ASSUME source \notin Jobs!Storages PROVE Len(script) = 1 /\ script[1] = "config"
  BY DEF script, Jobs!buildRestoreScript, Jobs!getStorageType

\* BuildRestoreJob looks at every field of the spec but the gaps.
LEMMA JobCarriesTheSpec ==
  ASSUME source \in Jobs!Storages
  PROVE  Jobs!WazuhRestoreSpec(source) \subseteq Jobs!BuildRestoreJob(source) \cup Jobs!RestoreGaps
<1>1. Jobs!RestoreSource(source) \subseteq
        Jobs!restoreRcloneConfig(source) \cup Jobs!buildSourceRemotePath(source)
        \cup Jobs!restoreEnvVars(source) \cup Jobs!restoreVolumes(source)
  BY DEF Jobs!Storages, Jobs!RestoreSource, Jobs!restoreRcloneConfig,
     Jobs!buildSourceRemotePath, Jobs!restoreEnvVars, Jobs!restoreVolumes
<1> QED
  BY <1>1 DEF Jobs!WazuhRestoreSpec, Jobs!BuildRestoreJob, Jobs!RestoreGaps,
     Jobs!BackupImage, Jobs!buildRestorePaths, Jobs!restoreOptions, Jobs!restoreImage,
     Jobs!restoreRBAC

-----------------------------------------------------------------------------
(***************************************************************************)
(* RestoreJob: types.                                                      *)
(***************************************************************************)
JobRecords ==
  [state : {"running", "succeeded", "failed"}, failed : 0..(Jobs!BackoffLimit + 1),
   line : 1..7]

\* A running Job is at a line of its script and may fail once more.
JobTypes ==
  /\ Jobs!TypeOK
  /\ Jobs!Running => job.line \in 1..Len(script) /\ job.failed <= Jobs!BackoffLimit

\* The script is written once and for all.
LEMMA ScriptIsFixed ==
  ASSUME UNCHANGED <<source, opts>> PROVE script' = script
  BY DEF script, Jobs!buildRestoreScript, Jobs!getStorageType

\* It has a first line, and no more than seven.
LEMMA ScriptLength == Len(script) \in 1..7
<1>1. CASE source \in Jobs!Storages  BY <1>1, ScriptLines
<1>2. CASE source \notin Jobs!Storages  BY <1>2, ScriptWithoutStorage
<1> QED  BY <1>1, <1>2

\* What a line of the script, or the end of the pod, makes of the Job: the pod
\* fails, or the script goes on to the next line or to its end.
LEMMA ScriptOutcome ==
  ASSUME JobTypes, Jobs!Running, Jobs!PodFails \/ Jobs!Advance
  PROVE  /\ job' \in JobRecords
         /\ job'.state = "running" =>
              job'.line \in 1..Len(script) /\ job'.failed <= Jobs!BackoffLimit
         /\ \/ Jobs!PodFails /\ job'.line = 1 /\ job'.state # "succeeded"
            \/ /\ job.line = Len(script) /\ job'.state = "succeeded"
            \/ /\ job.line # Len(script) /\ job'.state = "running"
               /\ job'.line = job.line + 1
<1>1. /\ job \in JobRecords /\ job.state = "running"
      /\ job.line \in 1..Len(script) /\ job.failed <= 1 /\ Jobs!BackoffLimit = 1
  BY DEF JobTypes, Jobs!TypeOK, JobRecords, Jobs!Running, Jobs!BackoffLimit
<1>2. Len(script) \in 1..7  BY ScriptLength
<1>3. CASE Jobs!PodFails
  BY <1>1, <1>2, <1>3 DEF Jobs!PodFails, JobRecords
<1>4. CASE Jobs!Advance
  <2>1. Jobs!buildRestoreScript = script
    BY DEF script
  <2>2. CASE job.line = Len(script)
    <3>1. job' = [job EXCEPT !.state = "succeeded"]
      BY <1>4, <2>1, <2>2 DEF Jobs!Advance
    <3> QED  BY <1>1, <2>2, <3>1 DEF JobRecords
  <2>3. CASE job.line # Len(script)
    <3>1. job' = [job EXCEPT !.line = @ + 1]
      BY <1>4, <2>1, <2>3 DEF Jobs!Advance
    <3>2. job.line \in 1..6 /\ job.line < Len(script)
      <4>1. ASSUME NEW n \in 1..7, NEW l \in 1..n, l # n PROVE l \in 1..6 /\ l < n
        BY <4>1
      <4> QED  BY <1>1, <1>2, <2>3, <4>1, Zenon
    <3>3. /\ job'.state = "running" /\ job'.line = job.line + 1
          /\ job'.failed = job.failed /\ job' \in JobRecords
      BY <1>1, <3>1, <3>2 DEF JobRecords
    <3>4. job.line + 1 \in 1..Len(script)
      BY <1>2, <3>2
    <3> QED  BY <1>1, <2>3, <3>3, <3>4
  <2> QED  BY <2>2, <2>3
<1> QED  BY <1>3, <1>4

\* A step of the script, or of a pod that is killed, changes the data only as
\* the line says.
LEMMA ScriptChanges ==
  ASSUME JobTypes, Jobs!RunScript \/ Jobs!Evict
  PROVE  /\ Jobs!Running /\ (Jobs!PodFails \/ Jobs!Advance)
         /\ UNCHANGED <<Jobs!jWorld, jLife, phase, honoured, jView, jpc>>
         /\ \/ Jobs!PodFails /\ UNCHANGED Jobs!manager
            \/ Jobs!Succeeds
            \/ /\ Jobs!Advance /\ Jobs!Line \in {"stop", "save", "extract", "start"}
               /\ skipped' = skipped \cup {Jobs!Line} /\ UNCHANGED <<up, saved>>
               /\ data' = IF Jobs!Line = "extract" THEN "partial" ELSE data
  BY Zenon DEF Jobs!RunScript, Jobs!Evict, Jobs!Succeeds, Jobs!PodFails

\* Every step keeps the types.
LEMMA JobTypesInductive ==
  ASSUME Jobs!JobConstants, JobTypes, [Jobs!Next]_(Jobs!jVars)
  PROVE  JobTypes'
<1> DEFINE World == UNCHANGED Jobs!jWorld /\ jFaults' \in 0..JobFaults
           Phases4 == {Jobs!NoPhase, "Restoring"} \cup Jobs!Terminal
           Pass == /\ jLife' \in {"live", "deleting", "gone"}
                   /\ phase' \in Phases4 /\ jView' \in Phases4
                   /\ jpc' \in {"idle", "rbac", "job", "status"}
                   /\ honoured' \in BOOLEAN
           Manager == /\ up' \in BOOLEAN /\ saved' \in BOOLEAN
                      /\ data' \in {"old", "partial", "new"} /\ skipped' \subseteq Jobs!Lines
           Ran == /\ job' \in JobRecords \cup {None}
                  /\ job' # None /\ job'.state = "running" =>
                       job'.line \in 1..Len(script) /\ job'.failed <= Jobs!BackoffLimit
<1> USE DEF Jobs!jWorld
<1>0. /\ Jobs!TypeOK /\ JobFaults \in Nat
      /\ Jobs!Running => job.line \in 1..Len(script) /\ job.failed <= Jobs!BackoffLimit
  BY DEF JobTypes, Jobs!JobConstants
<1>q. World /\ Pass /\ Manager /\ Ran => JobTypes'
  <2>1. World => script' = script
    BY ScriptIsFixed, SMTT(20)
  <2>2. World /\ Pass /\ Manager /\ Ran => Jobs!TypeOK'
    BY <1>0 DEF Jobs!TypeOK, JobRecords
  <2>3. Ran /\ script' = script =>
          (Jobs!Running => job.line \in 1..Len(script) /\ job.failed <= Jobs!BackoffLimit)'
    BY DEF Jobs!Running, Jobs!BackoffLimit
  <2> QED  BY <2>1, <2>2, <2>3 DEF JobTypes
<1>f. ASSUME NEW k, Jobs!Fault(k) PROVE jFaults' \in 0..JobFaults
  BY <1>0, <1>f DEF Jobs!Fault, Jobs!TypeOK
<1>u. UNCHANGED jFaults => jFaults' \in 0..JobFaults
  BY <1>0 DEF Jobs!TypeOK
<1>m. UNCHANGED Jobs!manager => Manager
  BY <1>0 DEF Jobs!TypeOK, Jobs!manager
<1>j. UNCHANGED job => Ran
  BY <1>0 DEF Jobs!TypeOK, Jobs!Running, JobRecords
<1>v. /\ phase \in Phases4 /\ jView \in Phases4 /\ jLife \in {"live", "deleting", "gone"}
      /\ jpc \in {"idle", "rbac", "job", "status"} /\ honoured \in BOOLEAN
      /\ {"Failed", "Restoring", "Completed"} \subseteq Phases4
  BY <1>0 DEF Jobs!TypeOK, Jobs!Terminal
<1> HIDE DEF Phases4
<1>1. CASE Jobs!Reconcile
  <2>1. World
    BY <1>1, <1>f, <1>u DEF Jobs!Reconcile
  <2>2. Pass
    BY <1>1, <1>v DEF Jobs!Reconcile
  <2> QED  BY <1>1, <1>q, <1>m, <1>j, <2>1, <2>2 DEF Jobs!Reconcile
<1>2. CASE Jobs!reconcileRBAC
  <2>1. World
    BY <1>2, <1>f, <1>u DEF Jobs!reconcileRBAC
  <2>2. Pass
    BY <1>2, <1>v DEF Jobs!reconcileRBAC
  <2> QED  BY <1>2, <1>q, <1>m, <1>j, <2>1, <2>2 DEF Jobs!reconcileRBAC
<1>3. CASE Jobs!reconcileJob
  <2>1. World
    BY <1>3, <1>f, <1>u DEF Jobs!reconcileJob
  <2>2. honoured' \in BOOLEAN
    <3>1. (source \in Jobs!Storages /\ jField \in Jobs!BuildRestoreJob(source)) \in BOOLEAN
      OBVIOUS
    <3>2. UNCHANGED honoured \/ honoured' =
            (source \in Jobs!Storages /\ jField \in Jobs!BuildRestoreJob(source))
      BY <1>3 DEF Jobs!reconcileJob
    <3> QED  BY <1>v, <3>1, <3>2, Zenon
  <2>3. Pass
    BY <1>3, <1>v, <2>2 DEF Jobs!reconcileJob
  <2>4. Ran
    <3>1. CASE UNCHANGED job  BY <1>j, <3>1
    <3>2. CASE job' = [state |-> "running", failed |-> 0, line |-> 1]
      BY <3>2, ScriptLength DEF JobRecords, Jobs!BackoffLimit
    <3> QED  BY <1>3, <3>1, <3>2 DEF Jobs!reconcileJob
  <2> QED  BY <1>3, <1>q, <1>m, <2>1, <2>3, <2>4 DEF Jobs!reconcileJob
<1>4. CASE Jobs!updateStatus
  <2>1. World
    BY <1>4, <1>f, <1>u DEF Jobs!updateStatus
  <2>2. Pass
    BY <1>4, <1>v DEF Jobs!updateStatus
  <2> QED  BY <1>4, <1>q, <1>m, <1>j, <2>1, <2>2 DEF Jobs!updateStatus
<1>5. CASE Jobs!handleDeletion \/ Jobs!Expire
  <2>1. World
    BY <1>5, <1>f, <1>u DEF Jobs!handleDeletion, Jobs!Expire
  <2>2. Pass /\ Ran
    BY <1>5, <1>v, SMTT(20) DEF Jobs!handleDeletion, Jobs!Expire
  <2> QED  BY <1>5, <1>q, <1>m, <2>1, <2>2 DEF Jobs!handleDeletion, Jobs!Expire
<1>6. CASE Jobs!Crash \/ Jobs!Delete
  <2>1. World
    BY <1>6, <1>f DEF Jobs!Crash, Jobs!Delete
  <2>2. Pass
    BY <1>6, <1>v DEF Jobs!Crash, Jobs!Delete
  <2> QED  BY <1>6, <1>q, <1>m, <1>j, <2>1, <2>2 DEF Jobs!Crash, Jobs!Delete
<1>7. CASE Jobs!RunScript \/ Jobs!Evict
  <2>1. World
    BY <1>7, <1>f, <1>u, Zenon DEF Jobs!RunScript, Jobs!Evict, Jobs!Succeeds
  <2>2. Pass
    BY <1>7, <1>v, ScriptChanges
  <2>3. Ran
    BY <1>7, ScriptChanges, ScriptOutcome
  <2>4. Manager
    <3>1. CASE UNCHANGED Jobs!manager  BY <1>m, <3>1
    <3>2. CASE Jobs!Succeeds
      <4>1. /\ (CASE Jobs!Line = "stop" -> FALSE [] Jobs!Line = "start" -> TRUE
                  [] OTHER -> up) \in BOOLEAN
            /\ (saved \/ (Jobs!Line = "save" /\ data = "old")) \in BOOLEAN
        BY <1>0, Zenon DEF Jobs!TypeOK
      <4> QED  BY <1>0, <3>2, <4>1, Zenon DEF Jobs!Succeeds, Jobs!TypeOK
    <3>3. CASE /\ Jobs!Line \in {"stop", "save", "extract", "start"}
               /\ skipped' = skipped \cup {Jobs!Line} /\ UNCHANGED <<up, saved>>
               /\ data' = IF Jobs!Line = "extract" THEN "partial" ELSE data
      BY <1>0, <3>3 DEF Jobs!TypeOK, Jobs!Lines
    <3> QED  BY <1>7, <3>1, <3>2, <3>3, ScriptChanges
  <2> QED  BY <1>q, <2>1, <2>2, <2>3, <2>4
<1>8. CASE UNCHANGED Jobs!jVars
  <2>1. World /\ Pass
    BY <1>8, <1>u, <1>v DEF Jobs!jVars
  <2> QED  BY <1>8, <1>q, <1>m, <1>j, <2>1 DEF Jobs!jVars
<1> QED
  BY <1>1, <1>2, <1>3, <1>4, <1>5, <1>6, <1>7, <1>8 DEF Jobs!Next, Jobs!Operator

-----------------------------------------------------------------------------
(***************************************************************************)
(* RestoreJob: what has happened at a line of the script and at its end.   *)
(***************************************************************************)
WasSaved == saved \/ "save" \in skipped
WasUnpacked == data = "new" \/ "extract" \in skipped
WasStarted == "start" \in opts => up \/ "start" \in skipped
WasBuilt == honoured = (source \in Jobs!Storages /\ jField \in Jobs!BuildRestoreJob(source))

\* The running pod has this line of its script behind it.
Past(line) ==
  Jobs!Running /\ \E i \in 1..(job.line - 1) : script[i] = line

\* The Job succeeded, or the pass saw that it did, or the status says so.
Finished ==
  \/ job # None /\ job.state = "succeeded"
  \/ jpc = "status" /\ jView = "Completed"
  \/ phase = "Completed"

JobInv ==
  /\ data # "old" /\ "save" \in opts => WasSaved
  /\ Past("save") => WasSaved
  /\ Past("extract") => WasUnpacked
  /\ Finished => /\ source \in Jobs!Storages /\ WasUnpacked /\ WasStarted
                 /\ ~Jobs!Running
  /\ job # None \/ Finished => WasBuilt
  /\ phase \in Jobs!Terminal => jpc = "idle"

\* One line of the script keeps the account of what has happened.
LEMMA LineInductive ==
  ASSUME Jobs!JobConstants, JobTypes, JobTypes', JobInv, Jobs!RunScript \/ Jobs!Evict
  PROVE  JobInv'
<1> USE DEF Jobs!jWorld
<1>1. /\ Jobs!Running /\ (Jobs!PodFails \/ Jobs!Advance)
      /\ UNCHANGED <<source, jField, opts, phase, honoured, jView, jpc>>
  BY ScriptChanges
<1>2. script' = script
  BY <1>1, ScriptIsFixed
<1>3. /\ job \in JobRecords /\ job.line \in 1..Len(script) /\ job # None
      /\ Len(script) \in 1..7 /\ Jobs!Line = script[job.line]
  BY <1>1, ScriptLength
  DEF JobTypes, Jobs!TypeOK, JobRecords, Jobs!Running, Jobs!Line, script
<1>4. ~Finished
  BY <1>1 DEF JobInv
<1>5. WasBuilt'
  BY <1>1, <1>3 DEF JobInv, WasBuilt
<1>6. (phase \in Jobs!Terminal => jpc = "idle")'
  BY <1>1 DEF JobInv, Jobs!Terminal
<1>7. Finished' => job'.state = "succeeded"
  BY <1>1, <1>4 DEF Finished
<1>8. CASE Jobs!PodFails /\ UNCHANGED Jobs!manager
  <2>1. job'.line = 1 /\ job'.state # "succeeded"
    BY <1>1, <1>8 DEF Jobs!PodFails
  <2>2. ~Past("save")' /\ ~Past("extract")'
    BY <2>1 DEF Past
  <2>3. ~Finished'
    BY <1>7, <2>1
  <2>4. (data # "old" /\ "save" \in opts => WasSaved)'
    BY <1>1, <1>8 DEF JobInv, WasSaved, Jobs!manager
  <2> QED  BY <1>5, <1>6, <2>2, <2>3, <2>4, SMTT(20) DEF JobInv
<1>9. CASE Jobs!Advance /\ Jobs!Line # "config"
           /\ \/ Jobs!Succeeds
              \/ /\ skipped' = skipped \cup {Jobs!Line} /\ UNCHANGED <<up, saved>>
                 /\ data' = IF Jobs!Line = "extract" THEN "partial" ELSE data
  <2>1. source \in Jobs!Storages
    BY <1>3, <1>9, ScriptWithoutStorage
  <2>2. skipped \subseteq skipped' /\ (saved => saved')
    <3>1. saved => saved'
      BY <1>9, Zenon DEF Jobs!Succeeds
    <3> QED  BY <1>9, <3>1, Zenon DEF Jobs!Succeeds
  <2>3. WasSaved => WasSaved'
    BY <2>2 DEF WasSaved
  <2>4. WasUnpacked => WasUnpacked'
    BY <1>9, Zenon DEF WasUnpacked, Jobs!Succeeds
  <2>5. script[job.line] = "extract" => WasUnpacked'
    BY <1>3, <1>9 DEF WasUnpacked, Jobs!Succeeds
  <2>6. script[job.line] = "start" => WasStarted'
    BY <1>3, <1>9, Zenon DEF WasStarted, Jobs!Succeeds
  <2>7. script[job.line] = "save" /\ "save" \in opts => WasSaved'
    <3>1. CASE data = "old"
      BY <1>3, <1>9, <3>1, Zenon DEF WasSaved, Jobs!Succeeds
    <3>2. CASE data # "old"
      BY <2>3, <3>2 DEF JobInv
    <3> QED  BY <3>1, <3>2
  <2>8. \A i \in 1..job.line : script[i] = "save" => "save" \in opts
    <3>1. ASSUME "save" \notin opts, NEW i \in 1..Len(script) PROVE script[i] # "save"
      BY <2>1, <3>1, StorageHasType DEF script, Jobs!buildRestoreScript
    <3> QED  BY <1>3, <3>1
  <2>9. (\E i \in 1..job.line : script[i] = "save") => WasSaved'
    BY <1>1, <1>3, <2>3, <2>7, <2>8 DEF JobInv, Past
  <2>10. (\E i \in 1..job.line : script[i] = "extract") => WasUnpacked'
    BY <1>1, <1>3, <2>4, <2>5 DEF JobInv, Past
  <2>11. Jobs!Running' => job'.line = job.line + 1
    <3>1. \/ job' = [job EXCEPT !.state = "succeeded"]
          \/ job' = [job EXCEPT !.line = @ + 1]
      BY <1>9 DEF Jobs!Advance
    <3> QED  BY <1>3, <3>1 DEF Jobs!Running, JobRecords
  <2>12. (Past("save") => WasSaved)' /\ (Past("extract") => WasUnpacked)'
    BY <1>2, <1>3, <2>9, <2>10, <2>11, SMTT(20) DEF Past
  <2>13. (data # "old" /\ "save" \in opts => WasSaved)'
    <3>1. CASE script[job.line] = "extract" /\ "save" \in opts
      <4>1. \E i \in 1..(job.line - 1) : script[i] = "save"
        BY <1>3, <2>1, <3>1, ScriptLines
      <4> QED  BY <1>3, <2>9, <4>1
    <3>2. CASE script[job.line] # "extract"
      <4>1. UNCHANGED data
        BY <1>3, <1>9, <3>2, Zenon DEF Jobs!Succeeds
      <4> QED  BY <1>1, <2>3, <4>1 DEF JobInv
    <3> QED  BY <1>1, <3>1, <3>2
  <2>14. Finished' => job.line = Len(script) /\ ~Jobs!Running'
    BY <1>1, <1>7, ScriptOutcome DEF Jobs!Running
  <2>15. Finished' => WasUnpacked'
    BY <1>3, <2>1, <2>10, <2>14, ScriptLines
  <2>16. Finished' => WasStarted'
    BY <1>1, <2>1, <2>6, <2>14, ScriptLines DEF WasStarted
  <2> QED  BY <1>1, <1>5, <1>6, <2>1, <2>12, <2>13, <2>14, <2>15, <2>16 DEF JobInv
<1> QED  BY <1>8, <1>9, ScriptChanges, Zenon DEF Jobs!Succeeds

\* Every step keeps it.
LEMMA JobInductive ==
  ASSUME Jobs!JobConstants, JobTypes, JobTypes', JobInv, [Jobs!Next]_(Jobs!jVars)
  PROVE  JobInv'
<1> USE DEF Jobs!jWorld, Jobs!manager
\* Steps that leave the manager alone and make no Job run.
<1>u. ASSUME UNCHANGED <<Jobs!jWorld, Jobs!manager, honoured>>,
             job' = job \/ job' = None, Finished' => Finished,
             (phase \in Jobs!Terminal => jpc = "idle")'
      PROVE  JobInv'
  <2>1. script' = script
    BY <1>u, ScriptIsFixed
  <2>2. \A l : Past(l)' => Past(l)
    BY <1>u, <2>1 DEF Past, Jobs!Running
  <2>3. Jobs!Running' => Jobs!Running
    BY <1>u DEF Jobs!Running
  <2>4. /\ WasSaved' = WasSaved /\ WasUnpacked' = WasUnpacked
        /\ WasStarted' = WasStarted /\ WasBuilt' = WasBuilt
    BY <1>u DEF WasSaved, WasUnpacked, WasStarted, WasBuilt, Jobs!BuildRestoreJob,
       Jobs!restoreRcloneConfig, Jobs!buildSourceRemotePath, Jobs!restoreEnvVars,
       Jobs!restoreVolumes
  <2> QED  BY <1>u, <2>2, <2>3, <2>4 DEF JobInv
<1>1. CASE Jobs!Reconcile
  <2>1. Finished' => Finished
    BY <1>1 DEF Jobs!Reconcile, Finished
  <2>2. phase' \notin Jobs!Terminal
    BY <1>1 DEF Jobs!Reconcile
  <2> QED  BY <1>1, <1>u, <2>1, <2>2 DEF Jobs!Reconcile
<1>2. CASE Jobs!reconcileRBAC
  <2>1. Finished' => Finished
    BY <1>2 DEF Jobs!reconcileRBAC, Finished
  <2>2. phase' \notin Jobs!Terminal
    BY <1>2 DEF Jobs!reconcileRBAC, JobInv
  <2> QED  BY <1>2, <1>u, <2>1, <2>2 DEF Jobs!reconcileRBAC
<1>3. CASE Jobs!reconcileJob
  <2>1. phase' \notin Jobs!Terminal
    BY <1>3 DEF Jobs!reconcileJob, JobInv
  <2>2. CASE UNCHANGED <<job, honoured>>
    <3>1. Finished' => Finished
      BY <1>3, <2>1, <2>2, SMTT(20) DEF Jobs!reconcileJob, Finished, Jobs!Terminal
    <3> QED  BY <1>3, <1>u, <2>1, <2>2, <3>1 DEF Jobs!reconcileJob
  <2>3. CASE /\ job' = [state |-> "running", failed |-> 0, line |-> 1]
             /\ honoured' = (source \in Jobs!Storages /\ jField \in Jobs!BuildRestoreJob(source))
             /\ jView' = "Restoring"
    <3>1. UNCHANGED <<Jobs!jWorld, Jobs!manager>>
      BY <1>3 DEF Jobs!reconcileJob
    <3>2. ~Finished'
      BY <2>1, <2>3, SMTT(20) DEF Finished, Jobs!Terminal
    <3>3. ~Past("save")' /\ ~Past("extract")'
      BY <2>3 DEF Past
    <3>4. WasBuilt'
      BY <2>3, <3>1 DEF WasBuilt, Jobs!BuildRestoreJob,
         Jobs!restoreRcloneConfig, Jobs!buildSourceRemotePath, Jobs!restoreEnvVars,
         Jobs!restoreVolumes
    <3>5. (data # "old" /\ "save" \in opts => WasSaved)'
      BY <3>1 DEF JobInv, WasSaved
    <3> QED  BY <2>1, <3>2, <3>3, <3>4, <3>5 DEF JobInv
  <2> QED  BY <1>3, <2>2, <2>3 DEF Jobs!reconcileJob
<1>4. CASE Jobs!updateStatus
  <2>1. Finished' => Finished
    BY <1>4, SMTT(20) DEF Jobs!updateStatus, Finished
  <2> QED  BY <1>4, <1>u, <2>1 DEF Jobs!updateStatus
<1>5. CASE Jobs!handleDeletion \/ Jobs!Expire
  <2>1. Finished' => Finished
    BY <1>5 DEF Jobs!handleDeletion, Jobs!Expire, Finished
  <2>2. (phase \in Jobs!Terminal => jpc = "idle")'
    BY <1>5 DEF Jobs!handleDeletion, Jobs!Expire, JobInv, Jobs!Terminal
  <2> QED  BY <1>5, <1>u, <2>1, <2>2, SMTT(20) DEF Jobs!handleDeletion, Jobs!Expire
<1>6. CASE Jobs!Crash \/ Jobs!Delete
  <2>1. Finished' => Finished
    BY <1>6, SMTT(20) DEF Jobs!Crash, Jobs!Delete, Finished
  <2>2. (phase \in Jobs!Terminal => jpc = "idle")'
    BY <1>6 DEF Jobs!Crash, Jobs!Delete, JobInv, Jobs!Terminal
  <2> QED  BY <1>6, <1>u, <2>1, <2>2, SMTT(20) DEF Jobs!Crash, Jobs!Delete
<1>7. CASE Jobs!RunScript \/ Jobs!Evict
  BY <1>7, LineInductive, SMTT(20)
<1>8. CASE UNCHANGED Jobs!jVars
  <2>1. Finished' => Finished
    BY <1>8 DEF Jobs!jVars, Finished
  <2>2. (phase \in Jobs!Terminal => jpc = "idle")'
    BY <1>8 DEF Jobs!jVars, JobInv, Jobs!Terminal
  <2> QED  BY <1>8, <1>u, <2>1, <2>2, SMTT(20) DEF Jobs!jVars
<1> QED
  BY <1>1, <1>2, <1>3, <1>4, <1>5, <1>6, <1>7, <1>8, SMTT(20) DEF Jobs!Next, Jobs!Operator

\* The first state has the types and the account.
LEMMA JobInitially ==
  ASSUME Jobs!JobConstants, Jobs!Init
  PROVE  JobTypes /\ JobInv
<1>1. /\ job = None /\ phase = Jobs!NoPhase /\ jView = Jobs!NoPhase /\ data = "old"
      /\ jpc = "idle" /\ opts \in SUBSET {"save", "stop", "start"}
      /\ jEnv \in SUBSET Jobs!JobFaultKinds /\ jFaults \in 0..JobFaults
  BY DEF Jobs!Init, Jobs!JobConstants
<1>2. opts \in SUBSET Jobs!Lines
  BY <1>1 DEF Jobs!Lines
<1>3. Jobs!TypeOK
  BY <1>1, <1>2, Zenon DEF Jobs!Init, Jobs!TypeOK
<1>4. Jobs!NoPhase \notin Jobs!Terminal
  BY Zenon DEF Jobs!NoPhase, Jobs!Terminal
<1>5. ~Jobs!Running /\ ~Finished
  BY <1>1, <1>4 DEF Jobs!Running, Finished, Jobs!Terminal
<1> QED  BY <1>1, <1>3, <1>4, <1>5 DEF JobTypes, JobInv, Past

\* Types and account hold in every state.
LEMMA JobInvariant ==
  ASSUME Jobs!JobConstants PROVE Jobs!Spec => [](JobTypes /\ JobInv)
<1>1. Jobs!Init => JobTypes /\ JobInv  BY JobInitially
<1>2. JobTypes /\ JobInv /\ [Jobs!Next]_(Jobs!jVars) => (JobTypes /\ JobInv)'
  BY JobTypesInductive, JobInductive
<1> QED  BY <1>1, <1>2, PTL DEF Jobs!Spec

\* A restore Job unpacks nothing over data that was to be saved and is not,
\* whatever pods are killed and Jobs run again (buildRestoreScript).
THEOREM OldDataIsSaved ==
  ASSUME Jobs!JobConstants PROVE Jobs!Spec => []SavedBeforeOverwritten
<1>1. JobInv => SavedBeforeOverwritten
  BY DEF JobInv, WasSaved, SavedBeforeOverwritten, Jobs!SavedBeforeOverwritten
<1> QED  BY <1>1, JobInvariant, PTL

\* A WazuhRestore that is Completed has its data, its manager runs if that was
\* asked for, and its Job was built from the whole spec.
THEOREM CompletedRestoreIsTrue ==
  ASSUME Jobs!JobConstants PROVE Jobs!Spec => []CompletedIsTrue
<1>1. JobTypes /\ JobInv => CompletedIsTrue
  <2> SUFFICES ASSUME JobTypes, JobInv, phase = "Completed" PROVE CompletedIsTrue
    BY DEF CompletedIsTrue, Jobs!CompletedIsTrue
  <2>1. source \in Jobs!Storages /\ WasUnpacked /\ WasStarted /\ WasBuilt
    BY DEF JobInv, Finished
  <2>2. jField \in Jobs!BuildRestoreJob(source) \cup Jobs!RestoreGaps
    BY <2>1, JobCarriesTheSpec DEF JobTypes, Jobs!TypeOK
  <2> QED
    BY <2>1, <2>2, Zenon
    DEF WasUnpacked, WasStarted, WasBuilt, CompletedIsTrue, Jobs!CompletedIsTrue
<1> QED  BY <1>1, JobInvariant, PTL

\* A WazuhRestore that is Completed changes nothing any more, although its Job
\* expires and the resource is reconciled again.
THEOREM CompletedRestoreIsFinal ==
  ASSUME Jobs!JobConstants PROVE Jobs!Spec => CompletedIsFinal
<1>1. JobTypes /\ JobInv /\ [Jobs!Next]_(Jobs!jVars) =>
        [phase = "Completed" => UNCHANGED <<phase, data, up>>]_(Jobs!jVars)
  <2> SUFFICES ASSUME JobTypes, JobInv, [Jobs!Next]_(Jobs!jVars), phase = "Completed"
               PROVE  UNCHANGED <<phase, data, up>>
    OBVIOUS
  <2>1. jpc = "idle" /\ ~Jobs!Running /\ phase \in Jobs!Terminal
    BY DEF JobInv, Finished, Jobs!Terminal
  <2> QED
    BY <2>1
    DEF Jobs!Next, Jobs!Operator, Jobs!Reconcile, Jobs!reconcileRBAC, Jobs!reconcileJob,
        Jobs!updateStatus, Jobs!handleDeletion, Jobs!Crash, Jobs!RunScript, Jobs!Evict,
        Jobs!Expire, Jobs!Delete, Jobs!jVars, Jobs!manager
<1> QED  BY <1>1, JobInvariant, PTL DEF Jobs!Spec, CompletedIsFinal, Jobs!CompletedIsFinal

=============================================================================
