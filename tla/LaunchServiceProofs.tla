------------------------- MODULE LaunchServiceProofs ------------------------
(***************************************************************************)
(* Theorems about LaunchService for every number of callers, operations    *)
(* and workflow results.                                                   *)
(***************************************************************************)
EXTENDS LaunchService, FiniteSetTheorems, TLAPS

(* The steps of Next, one by one, for the proofs by cases below.           *)
OperationStep(i) ==
    Run(i) \/ WorkReturn(i) \/ WorkExit(i) \/ Deadline(i)

(* The four kinds of processes do not overlap.                             *)
LEMMA Kinds ==
    /\ \A s \in Starters : s \in Proc /\ s \notin Ops /\ s \notin Cancellers /\ s # Main
    /\ \A c \in Cancellers : c \in Proc /\ c \notin Ops /\ c \notin Starters /\ c # Main
    /\ \A i \in Ops : i \in Proc /\ i \notin Starters /\ i \notin Cancellers /\ i # Main
                   /\ i \in Nat
    /\ Main \in Proc /\ Main \notin Starters /\ Main \notin Cancellers
    /\ Main \notin Ops
    /\ Nobody \notin Proc
BY ProcessesAreDistinct, BoundsAssumption DEF Proc, Ops

-----------------------------------------------------------------------------
(***************************************************************************)
(* Type correctness.                                                       *)
(***************************************************************************)

(* Every registry method keeps the record well formed.                     *)
LEMMA RegistryTypes ==
    ASSUME RegistryTypeOK
    PROVE  /\ RegistryStart => RegistryTypeOK' /\ current' \in Snapshots
           /\ \A i \in Ops, s \in States :
                  RegistryTransition(i, s) => RegistryTypeOK' /\ current' \in Snapshots
           /\ \A i \in Ops, c \in ErrorCodes : \A s :
                  RegistryFinish(i, s, c) => RegistryTypeOK' /\ current' \in Snapshots
           /\ \A i \in Nat :
                  RegistryCancel(i) => RegistryTypeOK' /\ current' \in Snapshots
<1> USE DEF RegistryTypeOK, Snapshots, SnapshotOf, States, ActiveStates,
            TerminalStates, ErrorCodes
<1>1. RegistryStart => RegistryTypeOK' /\ current' \in Snapshots
  BY DEF RegistryStart
<1>2. ASSUME NEW i \in Ops, NEW s \in States, RegistryTransition(i, s)
      PROVE  RegistryTypeOK' /\ current' \in Snapshots
  BY <1>2, BoundsAssumption DEF RegistryTransition, NoSnapshot, Ops, CanTransition
<1>3. ASSUME NEW i \in Ops, NEW c \in ErrorCodes, NEW s,
             RegistryFinish(i, s, c)
      PROVE  RegistryTypeOK' /\ current' \in Snapshots
  <2>1. Resolution(s, c).state \in States /\ Resolution(s, c).code \in ErrorCodes
    BY <1>3 DEF RegistryFinish, CanFinish, CanTransition, Resolution
  <2>2. QED
    BY <1>3, <2>1, BoundsAssumption DEF RegistryFinish, Ops
<1>4. ASSUME NEW i \in Nat, RegistryCancel(i)
      PROVE  RegistryTypeOK' /\ current' \in Snapshots
  BY <1>4 DEF RegistryCancel, CanCancel, NoSnapshot
<1>5. QED
  BY <1>1, <1>2, <1>3, <1>4

(* A workflow answer becomes a terminal state with an error code.          *)
LEMMA AnswerTypes ==
    ASSUME NEW answer \in WorkflowResultType
    PROVE  TerminalState(answer) \in States /\ TerminalCode(answer) \in ErrorCodes
BY DEF WorkflowResultType, Outcomes, TerminalState, TerminalCode, States,
       TerminalStates, ErrorCodes

LEMMA TypeInit == Init => TypeOK
<1> SUFFICES ASSUME Init PROVE TypeOK
  OBVIOUS
<1>1. RegistryTypeOK
  BY DEF Init, RegistryTypeOK, NewRegistry
<1>2. /\ pc \in [Proc -> PCs]
      /\ snap \in [Proc -> Snapshots \cup {NoSnapshot}]
      /\ ctx \in [Ops -> {"none", "live", "canceled", "deadline"}]
      /\ work \in [Ops -> {"none", "running", "answered", "done"}]
      /\ result \in [Ops -> SUBSET WorkflowResultType]
  BY DEF Init, PCs
<1>3. /\ parentDone \in BOOLEAN
      /\ shuttingDown \in BOOLEAN
      /\ drained \in BOOLEAN
  BY Zenon DEF Init
<1>4. /\ wg \in Int
      /\ lifecycleMu \in Proc \cup {Nobody}
      /\ notifyMu \in Proc \cup {Nobody}
      /\ lastEvent \in Snapshots \cup {NoSnapshot}
  BY DEF Init
<1>5. QED
  BY <1>1, <1>2, <1>3, <1>4 DEF TypeOK

LEMMA TypeNotify ==
    ASSUME TypeOK, NEW p \in Proc, Notify(p) PROVE TypeOK'
<1> USE DEF TypeOK, registryVars, RegistryTypeOK, Goto, PCs
<1>1. AfterNotify(p) \in PCs
  BY DEF AfterNotify
<1>2. CASE NotifyCurrent(p)  BY <1>2 DEF NotifyCurrent
<1>3. CASE NotifyStale(p)    BY <1>1, <1>3 DEF NotifyStale, LeaveNotify, Forget
<1>4. CASE Emit(p)           BY <1>1, <1>4 DEF Emit, LeaveNotify, Forget
<1>5. CASE ReleaseContext(p) BY <1>5 DEF ReleaseContext, CancelContext
<1>6. QED
  BY <1>2, <1>3, <1>4, <1>5 DEF Notify

LEMMA TypeStart ==
    ASSUME TypeOK, NEW s \in Starters, Start(s) PROVE TypeOK'
<1> USE DEF TypeOK, registryVars, Goto, PCs, Proc
<1>1. CASE StartLock(s)
  BY <1>1 DEF StartLock, RegistryTypeOK
<1>2. CASE StartRegistered(s)
  <2>1. RegistryTypeOK' /\ current' \in Snapshots
    BY <1>2, RegistryTypes DEF StartRegistered
  <2>2. QED
    BY <1>2, <2>1 DEF StartRegistered
<1>3. CASE StartRefused(s)
  BY <1>3 DEF StartRefused, RegistryTypeOK
<1>4. CASE StartRun(s)
  BY <1>4 DEF StartRun, Forget, RegistryTypeOK
<1>5. QED
  BY <1>1, <1>2, <1>3, <1>4 DEF Start

LEMMA TypeCancelAccepted ==
    ASSUME TypeOK, NEW p \in Proc, NEW from, NEW id \in Nat,
           CancelAccepted(p, from, id)
    PROVE  TypeOK'
<1>1. RegistryTypeOK' /\ current' \in Snapshots
  BY RegistryTypes DEF CancelAccepted, TypeOK
<1>2. QED
  BY <1>1 DEF CancelAccepted, TypeOK, Goto, PCs

LEMMA TypeRun ==
    ASSUME TypeOK, NEW i \in Ops, Run(i) PROVE TypeOK'
<1> USE DEF TypeOK, registryVars, Goto, PCs, Proc
<1>1. CASE RunTransition(i)
  <2>1. RegistryTypeOK' /\ current' \in Snapshots
    BY <1>1, RegistryTypes DEF RunTransition, States, ActiveStates
  <2>2. QED
    BY <1>1, <2>1 DEF RunTransition
<1>2. CASE RunAbandon(i)
  <2>1. SnapshotOf(i, "cancelled", "none") \in Snapshots
    BY BoundsAssumption
    DEF Snapshots, SnapshotOf, States, TerminalStates, ErrorCodes, Ops
  <2>2. QED
    BY <1>2, <2>1 DEF RunAbandon, RegistryTypeOK
<1>3. CASE RunSpawnWorkflow(i)
  BY <1>3 DEF RunSpawnWorkflow, RegistryTypeOK
<1>4. CASE RunSelectResult(i)
  <2>1. PICK answer \in result[i] :
            snap' = [snap EXCEPT ![i] =
                SnapshotOf(i, TerminalState(answer), TerminalCode(answer))]
    BY <1>4 DEF RunSelectResult
  <2>2. SnapshotOf(i, TerminalState(answer), TerminalCode(answer)) \in Snapshots
    BY AnswerTypes, BoundsAssumption DEF Snapshots, SnapshotOf, Ops
  <2>3. QED
    BY <1>4, <2>1, <2>2 DEF RunSelectResult, RegistryTypeOK
<1>5. CASE RunSelectContext(i)
  <2>1. SnapshotOf(i, ContextTerminalState(ctx[i]), "none") \in Snapshots
    BY BoundsAssumption
    DEF Snapshots, SnapshotOf, States, TerminalStates, ErrorCodes, Ops,
        ContextTerminalState
  <2>2. QED
    BY <1>5, <2>1 DEF RunSelectContext, RegistryTypeOK
<1>6. CASE RunFinish(i)
  <2>1. snap[i].code \in ErrorCodes
    BY DEF Snapshots, NoSnapshot, ErrorCodes
  <2>2. RegistryTypeOK' /\ current' \in Snapshots
    BY <1>6, <2>1, RegistryTypes DEF RunFinish
  <2>3. QED
    BY <1>6, <2>2 DEF RunFinish
<1>7. CASE RunFinishRefused(i)
  BY <1>7 DEF RunFinishRefused, RegistryTypeOK
<1>8. CASE RunReturn(i)
  BY <1>8 DEF RunReturn, CancelContext, Forget, RegistryTypeOK
<1>9. QED
  BY <1>1, <1>2, <1>3, <1>4, <1>5, <1>6, <1>7, <1>8 DEF Run

LEMMA TypeWorkflowAndContext ==
    ASSUME TypeOK, NEW i \in Ops, WorkReturn(i) \/ WorkExit(i) \/ Deadline(i)
    PROVE  TypeOK'
<1> USE DEF TypeOK, registryVars, goroutines, RegistryTypeOK
<1>1. CASE WorkReturn(i)
  <2>1. PICK answer \in WorkflowResults \cup {PanicResult} : WorkAnswer(i, answer)
    BY <1>1 DEF WorkReturn
  <2>2. answer \in WorkflowResultType
    BY BoundsAssumption
    DEF PanicResult, WorkflowResultType, Outcomes, ErrorCodes
  <2>3. QED
    BY <2>1, <2>2 DEF WorkAnswer
<1>2. CASE WorkExit(i)  BY <1>2 DEF WorkExit
<1>3. CASE Deadline(i)  BY <1>3 DEF Deadline
<1>4. QED
  BY <1>1, <1>2, <1>3

LEMMA TypeParentCancel == TypeOK /\ ParentCancel => TypeOK'
<1> SUFFICES ASSUME TypeOK, ParentCancel PROVE TypeOK'
  OBVIOUS
<1>1. /\ parentDone' \in BOOLEAN
      /\ ctx' \in [Ops -> {"none", "live", "canceled", "deadline"}]
  BY DEF ParentCancel, TypeOK
<1>2. QED
  BY <1>1 DEF ParentCancel, TypeOK, registryVars, goroutines, RegistryTypeOK

LEMMA TypeShutdown ==
    ASSUME TypeOK, Shutdown PROVE TypeOK'
<1> USE DEF TypeOK, registryVars, goroutines, Goto, PCs, Proc
<1>1. CASE ShutdownLock     BY <1>1 DEF ShutdownLock, RegistryTypeOK
<1>2. CASE ShutdownCurrent  BY <1>2 DEF ShutdownCurrent, RegistryTypeOK
<1>3. CASE ShutdownCancel
  <2>1. snap[Main].id \in Nat
    BY DEF Snapshots, NoSnapshot
  <2>2. QED
    BY <1>3, <2>1, TypeCancelAccepted DEF ShutdownCancel
<1>4. CASE ShutdownCancelRefused
  BY <1>4 DEF ShutdownCancelRefused, RegistryTypeOK
<1>5. CASE ShutdownUnlock   BY <1>5 DEF ShutdownUnlock, Forget, RegistryTypeOK
<1>6. CASE Drain            BY <1>6 DEF Drain, RegistryTypeOK
<1>7. CASE ShutdownReturn   BY <1>7 DEF ShutdownReturn, RegistryTypeOK
<1>8. CASE ShutdownExpire   BY <1>8 DEF ShutdownExpire, RegistryTypeOK
<1>9. QED
  BY <1>1, <1>2, <1>3, <1>4, <1>5, <1>6, <1>7, <1>8 DEF Shutdown

LEMMA TypeStutter == TypeOK /\ UNCHANGED vars => TypeOK'
BY DEF TypeOK, vars, RegistryTypeOK

LEMMA TypeStep == TypeOK /\ [Next]_vars => TypeOK'
<1> SUFFICES ASSUME TypeOK, [Next]_vars PROVE TypeOK'
  OBVIOUS
<1>1. ASSUME NEW p \in Proc, Notify(p) PROVE TypeOK'
  BY <1>1, TypeNotify
<1>2. ASSUME NEW s \in Starters, Start(s) PROVE TypeOK'
  BY <1>2, TypeStart
<1>3. ASSUME NEW c \in Cancellers, Cancel(c) PROVE TypeOK'
  BY <1>3, TypeCancelAccepted, BoundsAssumption DEF Cancel, Proc, Ops
<1>4. ASSUME NEW i \in Ops, OperationStep(i) PROVE TypeOK'
  BY <1>4, TypeRun, TypeWorkflowAndContext DEF OperationStep
<1>5. CASE ParentCancel  BY <1>5, TypeParentCancel
<1>6. CASE Shutdown      BY <1>6, TypeShutdown
<1>7. CASE Rest          BY <1>7, TypeStutter DEF Rest
<1>8. CASE UNCHANGED vars  BY <1>8, TypeStutter
<1>9. QED
  BY <1>1, <1>2, <1>3, <1>4, <1>5, <1>6, <1>7, <1>8 DEF Next, ServiceNext, OperationStep

(***************************************************************************)
(* Every state of the service is well typed.                               *)
(***************************************************************************)
THEOREM TypeCorrect == Spec => []TypeOK
<1>1. Init => TypeOK
  BY TypeInit
<1>2. TypeOK /\ [Next]_vars => TypeOK'
  BY TypeStep
<1>3. QED
  BY <1>1, <1>2, PTL DEF Spec

-----------------------------------------------------------------------------
(***************************************************************************)
(* The events tell one story.                                              *)
(***************************************************************************)
AnySnapshot == Snapshots \cup {NoSnapshot}

LEMMA FollowsIsStrict ==
    ASSUME NEW s \in AnySnapshot PROVE ~EventLog!Follows(s, s)
<1>1. s.id \in Nat
  BY DEF AnySnapshot, Snapshots, NoSnapshot
<1>2. EventLog!LevelOf(s.state) \in Nat
  BY DEF EventLog!LevelOf
<1>3. QED
  BY <1>1, <1>2 DEF EventLog!Follows

(* What is no later than t is behind everything that follows t.            *)
LEMMA FollowsIsTransitive ==
    ASSUME NEW s \in AnySnapshot, NEW t \in AnySnapshot, NEW u \in AnySnapshot,
           NoLaterThan(s, t), EventLog!Follows(t, u)
    PROVE  EventLog!Follows(s, u)
<1>1. CASE s = t
  BY <1>1
<1>2. CASE EventLog!Follows(s, t)
  <2>1. s.id \in Nat /\ t.id \in Nat /\ u.id \in Nat
    BY DEF AnySnapshot, Snapshots, NoSnapshot
  <2>2. CASE t.id > s.id \/ u.id > t.id
    BY <1>2, <2>1, <2>2 DEF EventLog!Follows
  <2>3. CASE s.id = t.id /\ t.id = u.id
    <3>1. /\ EventLog!LevelOf(s.state) \in 0..4
          /\ EventLog!LevelOf(t.state) \in 0..4
          /\ EventLog!LevelOf(u.state) \in 0..4
      BY DEF EventLog!LevelOf
    <3>2. /\ EventLog!LevelOf(t.state) > EventLog!LevelOf(s.state)
          /\ EventLog!LevelOf(u.state) > EventLog!LevelOf(t.state)
          /\ s.state = "cancelling" => t.state = "cancelled"
      BY <1>2, <2>1, <2>3 DEF EventLog!Follows
    <3>3. s.state # "cancelling"
      BY <3>1, <3>2 DEF EventLog!LevelOf, EventLog!IsTerminal, EventLog!TerminalStates
    <3>4. QED
      BY <2>1, <2>3, <3>1, <3>2, <3>3 DEF EventLog!Follows
  <2>4. QED
    BY <1>2, <2>1, <2>2, <2>3 DEF EventLog!Follows
<1>3. QED
  BY <1>1, <1>2 DEF NoLaterThan

(* Every registry write moves the record forward.                          *)
LEMMA RegistryAdvances ==
    ASSUME TypeOK, current.id = sequence
    PROVE  /\ RegistryStart =>
                  EventLog!Follows(current, current') /\ current'.id = sequence'
           /\ \A i \in Ops : RegistryTransition(i, "running") =>
                  EventLog!Follows(current, current') /\ current'.id = sequence'
           /\ \A i \in Nat : RegistryCancel(i) =>
                  EventLog!Follows(current, current') /\ current'.id = sequence'
           /\ \A i \in Ops : \A s, c : RegistryFinish(i, s, c) =>
                  EventLog!Follows(current, current') /\ current'.id = sequence'
<1> USE DEF EventLog!Follows, EventLog!LevelOf, EventLog!IsTerminal,
            EventLog!TerminalStates
<1>0. current.id \in Nat /\ sequence \in Nat
  BY DEF TypeOK, RegistryTypeOK, Snapshots, NoSnapshot
<1>1. RegistryStart => EventLog!Follows(current, current') /\ current'.id = sequence'
  BY <1>0 DEF RegistryStart, SnapshotOf
<1>2. ASSUME NEW i \in Ops, RegistryTransition(i, "running")
      PROVE  EventLog!Follows(current, current') /\ current'.id = sequence'
  <2>1. current.state = "starting"
    BY <1>2 DEF RegistryTransition, CanTransition
  <2>2. current \in Snapshots
    BY <2>1 DEF TypeOK, RegistryTypeOK, NoSnapshot
  <2>3. current'.id = current.id /\ current'.state = "running"
    BY <1>2, <2>2 DEF RegistryTransition, Snapshots
  <2>4. EventLog!Follows(current, current')
    BY <1>0, <2>1, <2>3
  <2>5. QED
    BY <1>2, <2>3, <2>4 DEF RegistryTransition
<1>3. ASSUME NEW i \in Nat, RegistryCancel(i)
      PROVE  EventLog!Follows(current, current') /\ current'.id = sequence'
  <2>1. current.state \in {"starting", "running"}
    BY <1>3 DEF RegistryCancel, CanCancel
  <2>2. current \in Snapshots
    BY <2>1 DEF TypeOK, RegistryTypeOK, NoSnapshot
  <2>3. current'.id = current.id /\ current'.state = "cancelling"
    BY <1>3, <2>2 DEF RegistryCancel, Snapshots
  <2>4. QED
    BY <1>0, <1>3, <2>1, <2>3 DEF RegistryCancel
<1>4. ASSUME NEW i \in Ops, NEW s, NEW c, RegistryFinish(i, s, c)
      PROVE  EventLog!Follows(current, current') /\ current'.id = sequence'
  <2>1. current.id = i /\ current'.id = i
    BY <1>4 DEF RegistryFinish, CanFinish, SnapshotOf
  <2>2. CanTransition(current.state, current'.state)
    BY <1>4 DEF RegistryFinish, CanFinish, SnapshotOf
  <2>3. QED
    BY <1>0, <1>4, <2>1, <2>2 DEF RegistryFinish, CanTransition
<1>5. QED
  BY <1>1, <1>2, <1>3, <1>4

(* A step that writes the registry and leaves the new snapshot with one    *)
(* process on its way to notify keeps the pending events in order.         *)
LEMMA OrderAfterWrite ==
    ASSUME TypeOK, TypeOK', PendingEventsAreOrdered, NEW p \in Proc,
           EventLog!Follows(current, current'), current' \in Snapshots,
           current'.id = sequence',
           snap' = [snap EXCEPT ![p] = current'],
           pc' = [pc EXCEPT ![p] = "notify"] \/ pc' = [pc EXCEPT ![p] = "release"],
           UNCHANGED <<notifyMu, lastEvent>>
    PROVE  PendingEventsAreOrdered'
<1> USE DEF TypeOK, RegistryTypeOK, AnySnapshot
<1>1. \A q \in Notifying' \ {p} : q \in Notifying /\ snap'[q] = snap[q]
  BY DEF Notifying
<1>2. snap'[p] = current' /\ p \in Notifying'
  BY DEF Notifying
<1>3. NoLaterThan(lastEvent', current') /\ lastEvent' # current'
  BY FollowsIsStrict, FollowsIsTransitive
  DEF PendingEventsAreOrdered, NoLaterThan
<1>4. ASSUME NEW q \in Notifying' \ {p}
      PROVE  /\ snap'[q] \in Snapshots
             /\ NoLaterThan(snap'[q], current')
             /\ snap'[q] # lastEvent'
             /\ snap'[q] # snap'[p]
  <2>1. snap[q] \in Snapshots /\ NoLaterThan(snap[q], current) /\ snap[q] # lastEvent
    BY <1>1 DEF PendingEventsAreOrdered
  <2>2. EventLog!Follows(snap[q], current')
    BY <2>1, FollowsIsTransitive
  <2>3. snap[q] # current'
    BY <2>1, <2>2, FollowsIsStrict
  <2>4. QED
    BY <1>1, <1>2, <2>1, <2>2, <2>3 DEF NoLaterThan
<1>5. \A q \in Notifying' : /\ snap'[q] \in Snapshots
                            /\ NoLaterThan(snap'[q], current')
                            /\ snap'[q] # lastEvent'
  BY <1>2, <1>3, <1>4 DEF NoLaterThan
<1>6. \A q, r \in Notifying' : snap'[q] = snap'[r] => q = r
  BY <1>1, <1>2, <1>4 DEF PendingEventsAreOrdered
<1>7. \A q \in Proc : pc'[q] = "emit" => /\ notifyMu' = q
                                         /\ EventLog!Follows(lastEvent', snap'[q])
  BY DEF PendingEventsAreOrdered
<1>8. QED
  BY <1>3, <1>5, <1>6, <1>7 DEF PendingEventsAreOrdered, NoLaterThan

(* A step that leaves the registry and the event log alone and sends       *)
(* nobody new to notify keeps them in order too.                           *)
LEMMA OrderIsKept ==
    ASSUME PendingEventsAreOrdered,
           UNCHANGED <<sequence, current, notifyMu, lastEvent>>,
           \A q \in Notifying' : q \in Notifying /\ snap'[q] = snap[q],
           \A q \in Proc : pc'[q] = "emit" => pc[q] = "emit"
    PROVE  PendingEventsAreOrdered'
<1>1. \A q \in Proc : pc'[q] = "emit" => q \in Notifying'
  BY DEF Notifying
<1>2. QED
  BY <1>1 DEF PendingEventsAreOrdered, NoLaterThan

LEMMA OrderInit == Init => PendingEventsAreOrdered
BY DEF Init, NewRegistry, PendingEventsAreOrdered, Notifying, NoLaterThan,
       NoSnapshot

LEMMA OrderNotify ==
    ASSUME TypeOK, PendingEventsAreOrdered, NEW p \in Proc, Notify(p)
    PROVE  PendingEventsAreOrdered'
<1> USE DEF Goto, registryVars
<1>1. AfterNotify(p) \notin {"release", "notify", "emit"}
  BY DEF AfterNotify
<1>2. CASE NotifyCurrent(p)
  <2>1. p \in Notifying
    BY <1>2 DEF NotifyCurrent, Notifying
  <2>2. EventLog!Follows(lastEvent, snap[p])
    BY <1>2, <2>1 DEF NotifyCurrent, PendingEventsAreOrdered, NoLaterThan
  <2>3. \A q \in Proc : pc'[q] = "emit" => q = p \/ pc[q] = "emit"
    BY <1>2 DEF NotifyCurrent, TypeOK
  <2>4. \A q \in Proc : pc[q] = "emit" => q = p
    BY <1>2, ProcessesAreDistinct DEF NotifyCurrent, PendingEventsAreOrdered
  <2>5. Notifying' = Notifying
    BY <1>2 DEF NotifyCurrent, Notifying, TypeOK
  <2>6. QED
    BY <1>2, <2>2, <2>3, <2>4, <2>5
    DEF NotifyCurrent, PendingEventsAreOrdered, NoLaterThan
<1>3. CASE NotifyStale(p)
  BY <1>1, <1>3, OrderIsKept
  DEF NotifyStale, LeaveNotify, Forget, Notifying, TypeOK
<1>4. CASE Emit(p)
  <2>1. p \in Notifying /\ notifyMu = p
    BY <1>4 DEF Emit, Notifying, PendingEventsAreOrdered
  <2>2. \A q \in Notifying' : q \in Notifying /\ q # p /\ snap'[q] = snap[q]
    BY <1>1, <1>4 DEF Emit, LeaveNotify, Forget, Notifying, TypeOK
  <2>3. \A q \in Proc : pc'[q] # "emit"
    BY <1>1, <1>4, <2>1 DEF Emit, PendingEventsAreOrdered, TypeOK
  <2>4. lastEvent' = snap[p] /\ NoLaterThan(snap[p], current)
    BY <1>4, <2>1 DEF Emit, PendingEventsAreOrdered
  <2>5. UNCHANGED <<sequence, current>>
    BY <1>4 DEF Emit
  <2>6. QED
    BY <2>1, <2>2, <2>3, <2>4, <2>5 DEF PendingEventsAreOrdered, NoLaterThan
<1>5. CASE ReleaseContext(p)
  BY <1>5, OrderIsKept DEF ReleaseContext, Notifying, TypeOK
<1>6. QED
  BY <1>2, <1>3, <1>4, <1>5 DEF Notify

LEMMA OrderStart ==
    ASSUME TypeOK, TypeOK', PendingEventsAreOrdered, NEW s \in Starters, Start(s)
    PROVE  PendingEventsAreOrdered'
<1> USE DEF Goto, registryVars
<1>1. CASE StartLock(s)
  BY <1>1, OrderIsKept DEF StartLock, Notifying, TypeOK
<1>2. CASE StartRegistered(s)
  BY <1>2, OrderAfterWrite, RegistryTypes, RegistryAdvances
  DEF StartRegistered, PendingEventsAreOrdered, TypeOK, Proc
<1>3. CASE StartRefused(s)
  BY <1>3, OrderIsKept DEF StartRefused, Notifying, TypeOK
<1>4. CASE StartRun(s)
  BY <1>4, OrderIsKept DEF StartRun, Forget, Notifying, TypeOK
<1>5. QED
  BY <1>1, <1>2, <1>3, <1>4 DEF Start

LEMMA OrderCancelAccepted ==
    ASSUME TypeOK, TypeOK', PendingEventsAreOrdered, NEW p \in Proc, NEW from,
           NEW id \in Nat, CancelAccepted(p, from, id)
    PROVE  PendingEventsAreOrdered'
BY OrderAfterWrite, RegistryTypes, RegistryAdvances
DEF CancelAccepted, PendingEventsAreOrdered, TypeOK, Goto

LEMMA OrderRun ==
    ASSUME TypeOK, TypeOK', PendingEventsAreOrdered, NEW i \in Ops, Run(i)
    PROVE  PendingEventsAreOrdered'
<1> USE DEF Goto, registryVars
<1>1. i \in Proc
  BY DEF Proc
<1>2. CASE RunTransition(i)
  BY <1>1, <1>2, OrderAfterWrite, RegistryTypes, RegistryAdvances
  DEF RunTransition, PendingEventsAreOrdered, TypeOK, States, ActiveStates
<1>3. CASE RunFinish(i)
  <2>1. snap[i].code \in ErrorCodes
    BY <1>1 DEF TypeOK, Snapshots, NoSnapshot, ErrorCodes
  <2>2. QED
    BY <1>1, <1>3, <2>1, OrderAfterWrite, RegistryTypes, RegistryAdvances
    DEF RunFinish, PendingEventsAreOrdered, TypeOK
<1>4. CASE RunAbandon(i)
  BY <1>4, OrderIsKept DEF RunAbandon, Notifying, TypeOK
<1>5. CASE RunSpawnWorkflow(i)
  BY <1>5, OrderIsKept DEF RunSpawnWorkflow, Notifying, TypeOK
<1>6. CASE RunSelectResult(i)
  BY <1>6, OrderIsKept DEF RunSelectResult, Notifying, TypeOK
<1>7. CASE RunSelectContext(i)
  BY <1>7, OrderIsKept DEF RunSelectContext, Notifying, TypeOK
<1>8. CASE RunFinishRefused(i)
  BY <1>8, OrderIsKept DEF RunFinishRefused, Notifying, TypeOK
<1>9. CASE RunReturn(i)
  BY <1>9, OrderIsKept DEF RunReturn, Forget, Notifying, TypeOK
<1>10. QED
  BY <1>2, <1>3, <1>4, <1>5, <1>6, <1>7, <1>8, <1>9 DEF Run

LEMMA OrderShutdown ==
    ASSUME TypeOK, TypeOK', PendingEventsAreOrdered, Shutdown
    PROVE  PendingEventsAreOrdered'
<1> USE DEF Goto, registryVars, goroutines
<1>1. CASE ShutdownLock
  BY <1>1, OrderIsKept DEF ShutdownLock, Notifying, TypeOK
<1>2. CASE ShutdownCurrent
  BY <1>2, OrderIsKept DEF ShutdownCurrent, Notifying, TypeOK
<1>3. CASE ShutdownCancel
  <2>1. snap[Main].id \in Nat /\ Main \in Proc
    BY DEF TypeOK, Snapshots, NoSnapshot, Proc
  <2>2. QED
    BY <1>3, <2>1, OrderCancelAccepted DEF ShutdownCancel
<1>4. CASE ShutdownCancelRefused
  BY <1>4, OrderIsKept DEF ShutdownCancelRefused, Notifying, TypeOK
<1>5. CASE ShutdownUnlock
  BY <1>5, OrderIsKept DEF ShutdownUnlock, Forget, Notifying, TypeOK
<1>6. CASE Drain
  BY <1>6, OrderIsKept DEF Drain, Notifying, TypeOK
<1>7. CASE ShutdownReturn
  BY <1>7, OrderIsKept DEF ShutdownReturn, Notifying, TypeOK
<1>8. CASE ShutdownExpire
  BY <1>8, OrderIsKept DEF ShutdownExpire, Notifying, TypeOK
<1>9. QED
  BY <1>1, <1>2, <1>3, <1>4, <1>5, <1>6, <1>7, <1>8 DEF Shutdown

LEMMA OrderStep ==
    ASSUME TypeOK, TypeOK', PendingEventsAreOrdered, [Next]_vars
    PROVE  PendingEventsAreOrdered'
<1> USE DEF registryVars, goroutines
<1>1. ASSUME NEW p \in Proc, Notify(p) PROVE PendingEventsAreOrdered'
  BY <1>1, OrderNotify
<1>2. ASSUME NEW s \in Starters, Start(s) PROVE PendingEventsAreOrdered'
  BY <1>2, OrderStart
<1>3. ASSUME NEW c \in Cancellers, Cancel(c) PROVE PendingEventsAreOrdered'
  BY <1>3, OrderCancelAccepted, BoundsAssumption DEF Cancel, Proc, Ops
<1>4. ASSUME NEW i \in Ops, OperationStep(i) PROVE PendingEventsAreOrdered'
  <2>1. CASE Run(i)  BY <2>1, OrderRun
  <2>2. CASE WorkReturn(i) \/ WorkExit(i) \/ Deadline(i)
    BY <2>2, OrderIsKept DEF WorkReturn, WorkAnswer, WorkExit, Deadline, Notifying
  <2>3. QED
    BY <1>4, <2>1, <2>2 DEF OperationStep
<1>5. CASE ParentCancel
  BY <1>5, OrderIsKept DEF ParentCancel, Notifying
<1>6. CASE Shutdown  BY <1>6, OrderShutdown
<1>7. CASE Rest \/ UNCHANGED vars
  BY <1>7, OrderIsKept DEF Rest, vars, Notifying
<1>8. QED
  BY <1>1, <1>2, <1>3, <1>4, <1>5, <1>6, <1>7 DEF Next, ServiceNext, OperationStep

(***************************************************************************)
(* Pending and delivered events stay in order (service.go:203-214).        *)
(***************************************************************************)
THEOREM PendingEventsOrdered == Spec => []PendingEventsAreOrdered
<1>1. Init => PendingEventsAreOrdered
  BY OrderInit
<1>2. TypeOK /\ TypeOK' /\ PendingEventsAreOrdered /\ [Next]_vars
      => PendingEventsAreOrdered'
  BY OrderStep
<1>3. QED
  BY <1>1, <1>2, TypeCorrect, PTL DEF Spec

(* Only Emit delivers an event, and it delivers what comes next.           *)
LEMMA DeliveryStep ==
    ASSUME TypeOK, PendingEventsAreOrdered, [Next]_vars
    PROVE  [EventLog!Next]_lastEvent
<1> USE DEF registryVars, goroutines
<1>1. ASSUME NEW p \in Proc, Emit(p) PROVE EventLog!Next
  <2>1. lastEvent' = snap[p] /\ p \in Notifying /\ pc[p] = "emit"
    BY <1>1 DEF Emit, Goto, Notifying
  <2>2. snap[p] \in Snapshots /\ EventLog!Follows(lastEvent, snap[p])
    BY <2>1 DEF PendingEventsAreOrdered
  <2>3. EventLog!Snapshots = Snapshots
    BY DEF EventLog!Snapshots, Snapshots, EventLog!States, States,
           EventLog!ActiveStates, ActiveStates, EventLog!TerminalStates,
           TerminalStates, EventLog!ErrorCodes, ErrorCodes
  <2>4. QED
    BY <2>1, <2>2, <2>3 DEF EventLog!Next
<1>2. ASSUME NEW p \in Proc, Notify(p), ~Emit(p) PROVE UNCHANGED lastEvent
  BY <1>2 DEF Notify, NotifyCurrent, NotifyStale, ReleaseContext
<1>3. ASSUME NEW s \in Starters, Start(s) PROVE UNCHANGED lastEvent
  BY <1>3 DEF Start, StartLock, StartRegistered, StartRefused, StartRun
<1>4. ASSUME NEW c \in Cancellers, Cancel(c) PROVE UNCHANGED lastEvent
  BY <1>4 DEF Cancel, CancelAccepted
<1>5. ASSUME NEW i \in Ops, OperationStep(i) PROVE UNCHANGED lastEvent
  BY <1>5 DEF OperationStep, Run, RunTransition, RunAbandon, RunSpawnWorkflow,
     RunSelectResult, RunSelectContext, RunFinish, RunFinishRefused, RunReturn,
     WorkReturn, WorkAnswer, WorkExit, Deadline
<1>6. CASE ParentCancel  BY <1>6 DEF ParentCancel
<1>7. CASE Shutdown
  BY <1>7 DEF Shutdown, ShutdownLock, ShutdownCurrent, ShutdownCancel,
     CancelAccepted, ShutdownCancelRefused, ShutdownUnlock, Drain,
     ShutdownReturn, ShutdownExpire
<1>8. CASE Rest \/ UNCHANGED vars  BY <1>8 DEF Rest, vars
<1>9. QED
  BY <1>1, <1>2, <1>3, <1>4, <1>5, <1>6, <1>7, <1>8 DEF Next, ServiceNext, OperationStep

(***************************************************************************)
(* The service implements LaunchEvents: however Start, Cancel, Shutdown,   *)
(* the run goroutines and their timers interleave, the listener never sees *)
(* a state it has already passed (service.go:203-214).                     *)
(***************************************************************************)
THEOREM ServiceTellsOneStory == Spec => EventsTellOneStory
<1>1. Init => EventLog!Init
  BY DEF Init, EventLog!Init, EventLog!NoSnapshot, NoSnapshot
<1>2. TypeOK /\ PendingEventsAreOrdered /\ [Next]_vars => [EventLog!Next]_lastEvent
  BY DeliveryStep
<1>3. QED
  BY <1>1, <1>2, TypeCorrect, PendingEventsOrdered, PTL
  DEF Spec, EventsTellOneStory, EventLog!Spec

-----------------------------------------------------------------------------
(***************************************************************************)
(* An accepted cancellation wins: from "cancelling" the registry can only  *)
(* move to "cancelled" without an error code, whatever the run goroutine   *)
(* asks for, and no other operation takes its place first                  *)
(* (registry.go:83-117).                                                   *)
(***************************************************************************)
LEMMA CancellationStep ==
    ASSUME [Next]_vars, current.state = "cancelling"
    PROVE  current' \in {current, SnapshotOf(current.id, "cancelled", "none")}
<1> USE DEF registryVars
<1>1. ASSUME NEW p \in Proc, Notify(p) PROVE current' = current
  BY <1>1 DEF Notify, NotifyCurrent, NotifyStale, Emit, ReleaseContext
<1>2. ASSUME NEW s \in Starters, Start(s) PROVE current' = current
  <2>1. ~StartRegistered(s)
    BY DEF StartRegistered, RegistryStart, InProgress, ActiveStates
  <2>2. QED
    BY <1>2, <2>1 DEF Start, StartLock, StartRefused, StartRun
<1>3. ASSUME NEW p, NEW from, NEW id, CancelAccepted(p, from, id) PROVE FALSE
  BY <1>3 DEF CancelAccepted, RegistryCancel, CanCancel
<1>4. ASSUME NEW i \in Ops, Run(i)
      PROVE  current' \in {current, SnapshotOf(current.id, "cancelled", "none")}
  <2>1. ~RunTransition(i)
    BY DEF RunTransition, RegistryTransition, CanTransition
  <2>2. CASE RunFinish(i)
    BY <2>2 DEF RunFinish, RegistryFinish, CanFinish, Resolution
  <2>3. QED
    BY <1>4, <2>1, <2>2 DEF Run, RunAbandon, RunSpawnWorkflow, RunSelectResult,
       RunSelectContext, RunFinishRefused, RunReturn
<1>5. ASSUME NEW i \in Ops, WorkReturn(i) \/ WorkExit(i) \/ Deadline(i)
      PROVE  current' = current
  BY <1>5 DEF WorkReturn, WorkAnswer, WorkExit, Deadline
<1>6. CASE ParentCancel  BY <1>6 DEF ParentCancel
<1>7. CASE Shutdown
  BY <1>3, <1>7 DEF Shutdown, ShutdownLock, ShutdownCurrent, ShutdownCancel,
     ShutdownCancelRefused, ShutdownUnlock, Drain, ShutdownReturn, ShutdownExpire
<1>8. CASE Rest \/ UNCHANGED vars  BY <1>8 DEF Rest, vars
<1>9. QED
  BY <1>1, <1>2, <1>3, <1>4, <1>5, <1>6, <1>7, <1>8 DEF Next, ServiceNext, Cancel

(***************************************************************************)
(* The registry keeps its promise about cancellation (registry.go:81-82).  *)
(***************************************************************************)
THEOREM CancellationBinding == Spec => CancellationIsBinding
<1>1. [Next]_vars => [current.state = "cancelling" =>
          current' \in {current, SnapshotOf(current.id, "cancelled", "none")}]_vars
  BY CancellationStep
<1>2. QED
  BY <1>1, PTL DEF Spec, CancellationIsBinding

-----------------------------------------------------------------------------
(***************************************************************************)
(* The lifecycle mutex.                                                    *)
(***************************************************************************)
MainLocks == {"current", "cancel", "release", "notify", "emit", "unlock"}

LEMMA LockInit == Init => LifecycleIsExclusive
BY Kinds, BoundsAssumption DEF Init, NewRegistry, LifecycleIsExclusive

(* A step that leaves the mutex, the counter and the flag alone and lets   *)
(* nobody into a critical section keeps it exclusive.                      *)
LEMMA LockIsKept ==
    ASSUME LifecycleIsExclusive,
           UNCHANGED <<lifecycleMu, shuttingDown, sequence>>,
           \A s \in Starters : pc'[s] = "register" => pc[s] = "register",
           pc'[Main] \in MainLocks => pc[Main] \in MainLocks
    PROVE  LifecycleIsExclusive'
BY DEF LifecycleIsExclusive, MainLocks

LEMMA LockStep ==
    ASSUME TypeOK, LifecycleIsExclusive, [Next]_vars
    PROVE  LifecycleIsExclusive'
<1> USE Kinds DEF registryVars, Goto, TypeOK
<1>1. ASSUME NEW p \in Proc, Notify(p) PROVE LifecycleIsExclusive'
  <2>1. AfterNotify(p) # "register"
    BY DEF AfterNotify
  <2>2. CASE NotifyCurrent(p)
    BY <2>2, LockIsKept DEF NotifyCurrent, MainLocks
  <2>3. CASE NotifyStale(p)
    BY <2>1, <2>3, LockIsKept DEF NotifyStale, MainLocks
  <2>4. CASE Emit(p)
    BY <2>1, <2>4, LockIsKept DEF Emit, MainLocks
  <2>5. CASE ReleaseContext(p)
    BY <2>5, LockIsKept DEF ReleaseContext, MainLocks
  <2>6. QED
    BY <1>1, <2>2, <2>3, <2>4, <2>5 DEF Notify
<1>2. ASSUME NEW s \in Starters, Start(s) PROVE LifecycleIsExclusive'
  <2>0. sequence \in Nat /\ MaxOps \in Nat
    BY BoundsAssumption DEF RegistryTypeOK
  <2>1. CASE StartLock(s)
    BY <2>1 DEF StartLock, LifecycleIsExclusive, RegistryTypeOK
  <2>2. CASE StartRegistered(s)
    BY <2>0, <2>2 DEF StartRegistered, RegistryStart, LifecycleIsExclusive
  <2>3. CASE StartRefused(s)
    BY <2>3 DEF StartRefused, LifecycleIsExclusive
  <2>4. CASE StartRun(s)
    <3>1. pc' = [pc EXCEPT ![s] = "idle", ![snap[s].id] = "transition"]
      BY <2>4 DEF StartRun
    <3>2. /\ \A t \in Starters : pc'[t] = "register" => pc[t] = "register"
          /\ pc'[Main] \in MainLocks => pc[Main] \in MainLocks
      BY <3>1 DEF MainLocks
    <3>3. QED
      BY <2>4, <3>2, LockIsKept DEF StartRun
  <2>5. QED
    BY <1>2, <2>1, <2>2, <2>3, <2>4 DEF Start
<1>3. ASSUME NEW c \in Cancellers, Cancel(c) PROVE LifecycleIsExclusive'
  BY <1>3, LockIsKept DEF Cancel, CancelAccepted, RegistryCancel, MainLocks
<1>4. ASSUME NEW i \in Ops, Run(i) PROVE LifecycleIsExclusive'
  <2>1. /\ UNCHANGED <<lifecycleMu, shuttingDown, sequence>>
        /\ \E to \in PCs : pc' = [pc EXCEPT ![i] = to]
    BY <1>4 DEF Run, RunTransition, RunAbandon, RunSpawnWorkflow, RunSelectResult,
       RunSelectContext, RunFinish, RunFinishRefused, RunReturn,
       RegistryTransition, RegistryFinish, PCs
  <2>2. QED
    BY <2>1, LockIsKept DEF MainLocks
<1>5. ASSUME NEW i \in Ops, WorkReturn(i) \/ WorkExit(i) \/ Deadline(i)
      PROVE  LifecycleIsExclusive'
  BY <1>5, LockIsKept
  DEF WorkReturn, WorkAnswer, WorkExit, Deadline, goroutines, MainLocks
<1>6. CASE ParentCancel
  BY <1>6, LockIsKept DEF ParentCancel, goroutines, MainLocks
<1>7. CASE Shutdown
  <2>1. CASE ShutdownLock
    BY <2>1 DEF ShutdownLock, LifecycleIsExclusive
  <2>2. CASE ShutdownCurrent
    BY <2>2, LockIsKept DEF ShutdownCurrent, MainLocks
  <2>3. CASE ShutdownCancel
    BY <2>3, LockIsKept DEF ShutdownCancel, CancelAccepted, RegistryCancel, MainLocks
  <2>4. CASE ShutdownCancelRefused
    BY <2>4, LockIsKept DEF ShutdownCancelRefused, MainLocks
  <2>5. CASE ShutdownUnlock
    BY <2>5 DEF ShutdownUnlock, LifecycleIsExclusive
  <2>6. CASE Drain \/ ShutdownReturn \/ ShutdownExpire
    BY <2>6, LockIsKept DEF Drain, ShutdownReturn, ShutdownExpire, goroutines, MainLocks
  <2>7. QED
    BY <1>7, <2>1, <2>2, <2>3, <2>4, <2>5, <2>6 DEF Shutdown
<1>8. CASE Rest \/ UNCHANGED vars
  BY <1>8, LockIsKept DEF Rest, vars, MainLocks
<1>9. QED
  BY <1>1, <1>2, <1>3, <1>4, <1>5, <1>6, <1>7, <1>8 DEF Next, ServiceNext

(***************************************************************************)
(* Start and Shutdown exclude one another inside lifecycle.mu.             *)
(***************************************************************************)
THEOREM LifecycleExclusive == Spec => []LifecycleIsExclusive
<1>1. Init => LifecycleIsExclusive
  BY LockInit
<1>2. TypeOK /\ LifecycleIsExclusive /\ [Next]_vars => LifecycleIsExclusive'
  BY LockStep
<1>3. QED
  BY <1>1, <1>2, TypeCorrect, PTL DEF Spec

-----------------------------------------------------------------------------
(***************************************************************************)
(* Handing over: a registered operation is with the Start call that        *)
(* registered it until that call starts its run goroutine, and its         *)
(* workflow goroutine is started once at most (service.go:65-86,151-182).  *)
(***************************************************************************)
OperationsAreHandedOver ==
    /\ \A s \in Starters : pc[s] \in {"idle", "register", "notify", "emit", "spawn"}
    /\ \A s \in Starters : Publishes(s) => /\ snap[s].id \in Ops
                                          /\ snap[s].id <= sequence
                                          /\ pc[snap[s].id] = "idle"
    /\ \A s, t \in Starters :
           Publishes(s) /\ Publishes(t) /\ snap[s].id = snap[t].id => s = t
    /\ \A i \in Ops : pc[i] = "idle" =>
           i > sequence \/ \E s \in Starters : Publishes(s) /\ snap[s].id = i
    /\ \A i \in Ops : i > sequence => pc[i] = "idle"

(* The workflow of operation i has not been started.                       *)
Unstarted(i) ==
    \/ pc[i] \in {"idle", "transition", "spawn"}
    \/ pc[i] \in {"notify", "emit"} /\ snap[i].state = "running"

WorkflowsStartOnce ==
    \A i \in Ops : /\ Unstarted(i) => work[i] = "none"
                   /\ pc[i] = "finish" => IsTerminal(snap[i].state)
                   /\ pc[i] = "release" => snap[i].state # "running"

HandoverInvariant == OperationsAreHandedOver /\ WorkflowsStartOnce

LEMMA HandoverInit == Init => HandoverInvariant
<1> SUFFICES ASSUME Init PROVE HandoverInvariant
  OBVIOUS
<1>1. /\ \A p \in Proc : pc[p] = "idle"
      /\ \A i \in Ops : work[i] = "none" /\ i > sequence
  BY BoundsAssumption DEF Init, NewRegistry, Ops
<1>2. QED
  BY <1>1, Kinds
  DEF HandoverInvariant, OperationsAreHandedOver, WorkflowsStartOnce, Publishes

(* Callers of Cancel and Shutdown have no part in it.                      *)
LEMMA HandoverIsKept ==
    ASSUME HandoverInvariant, UNCHANGED <<sequence, work>>,
           \A p \in Starters \cup Ops : pc'[p] = pc[p] /\ snap'[p] = snap[p]
    PROVE  HandoverInvariant'
BY DEF HandoverInvariant, OperationsAreHandedOver, WorkflowsStartOnce, Publishes,
       Unstarted

(* A run goroutine that has been started does not return to "idle".        *)
LEMMA HandoverRunStep ==
    ASSUME HandoverInvariant, NEW i \in Ops, pc[i] # "idle", pc'[i] # "idle",
           UNCHANGED sequence,
           \A p \in (Starters \cup Ops) \ {i} : pc'[p] = pc[p] /\ snap'[p] = snap[p],
           \A j \in Ops \ {i} : work'[j] = work[j],
           Unstarted(i)' => work'[i] = "none",
           pc'[i] = "finish" => IsTerminal(snap'[i].state),
           pc'[i] = "release" => snap'[i].state # "running"
    PROVE  HandoverInvariant'
<1> USE Kinds DEF HandoverInvariant
<1>1. \A s \in Starters : /\ pc'[s] = pc[s] /\ snap'[s] = snap[s]
                          /\ Publishes(s)' <=> Publishes(s)
                          /\ Publishes(s) => snap[s].id # i
  BY DEF Publishes, OperationsAreHandedOver
<1>2. OperationsAreHandedOver'
  BY <1>1 DEF OperationsAreHandedOver
<1>3. WorkflowsStartOnce'
  BY DEF WorkflowsStartOnce, Unstarted
<1>4. QED
  BY <1>2, <1>3

(* A Start call that is announcing goes on announcing the same operation.  *)
LEMMA HandoverStartStep ==
    ASSUME HandoverInvariant, NEW s \in Starters,
           UNCHANGED <<sequence, work, snap>>,
           \A p \in (Starters \cup Ops) \ {s} : pc'[p] = pc[p],
           pc'[s] \in {"idle", "register", "notify", "emit", "spawn"},
           Publishes(s)' <=> Publishes(s)
    PROVE  HandoverInvariant'
<1> USE Kinds DEF HandoverInvariant
<1>1. \A t \in Starters : Publishes(t)' <=> Publishes(t)
  BY DEF Publishes
<1>2. \A i \in Ops : pc'[i] = pc[i]
  OBVIOUS
<1>3. OperationsAreHandedOver'
  BY <1>1, <1>2 DEF OperationsAreHandedOver
<1>4. WorkflowsStartOnce'
  BY <1>2 DEF WorkflowsStartOnce, Unstarted
<1>5. QED
  BY <1>3, <1>4

LEMMA HandoverNotify ==
    ASSUME TypeOK, HandoverInvariant, NEW p \in Proc, Notify(p)
    PROVE  HandoverInvariant'
<1> USE Kinds DEF registryVars, Goto
<1>1. UNCHANGED <<sequence, work>>
  BY DEF Notify, NotifyCurrent, NotifyStale, Emit, ReleaseContext
<1>2. \A q \in Proc \ {p} : pc'[q] = pc[q] /\ snap'[q] = snap[q]
  BY DEF Notify, NotifyCurrent, NotifyStale, Emit, ReleaseContext, LeaveNotify,
     Forget, TypeOK
<1>3. p \notin Cancellers => UNCHANGED snap
  BY DEF Notify, NotifyCurrent, NotifyStale, Emit, ReleaseContext, LeaveNotify
<1>4. \/ pc[p] = "release" /\ pc'[p] = "notify"
      \/ pc[p] = "notify" /\ pc'[p] = "emit"
      \/ pc[p] \in {"notify", "emit"} /\ pc'[p] = AfterNotify(p)
  BY DEF Notify, NotifyCurrent, NotifyStale, Emit, ReleaseContext, TypeOK
<1>5. CASE p \in Starters
  <2>1. AfterNotify(p) = "spawn"
    BY <1>5 DEF AfterNotify
  <2>2. pc[p] # "release"
    BY <1>5 DEF HandoverInvariant, OperationsAreHandedOver
  <2>3. Publishes(p) /\ Publishes(p)' /\ pc'[p] \in {"notify", "emit", "spawn"}
    BY <1>4, <2>1, <2>2 DEF Publishes
  <2>4. QED
    BY <1>1, <1>2, <1>3, <1>5, <2>3, HandoverStartStep
<1>6. CASE p \in Ops
  <2>1. AfterNotify(p) = IF snap[p].state = "running" THEN "spawn" ELSE "return"
    BY <1>6 DEF AfterNotify
  <2>2. snap'[p] = snap[p] /\ work'[p] = work[p]
    BY <1>1, <1>3, <1>6
  <2>3. pc[p] # "idle" /\ pc'[p] \in {"notify", "emit", "spawn", "return"}
    BY <1>4, <2>1
  <2>4. Unstarted(p)' => Unstarted(p)
    BY <1>4, <1>6, <2>1, <2>2 DEF Unstarted, HandoverInvariant, WorkflowsStartOnce
  <2>5. Unstarted(p)' => work'[p] = "none"
    BY <1>6, <2>2, <2>4 DEF HandoverInvariant, WorkflowsStartOnce
  <2>6. QED
    BY <1>1, <1>2, <1>6, <2>3, <2>5, HandoverRunStep
<1>7. CASE p \notin Starters \cup Ops
  BY <1>1, <1>2, <1>7, HandoverIsKept
<1>8. QED
  BY <1>5, <1>6, <1>7

LEMMA HandoverStart ==
    ASSUME TypeOK, LifecycleIsExclusive, HandoverInvariant,
           NEW s \in Starters, Start(s)
    PROVE  HandoverInvariant'
<1> USE Kinds DEF registryVars, Goto
<1>1. CASE StartLock(s) \/ StartRefused(s)
  <2>1. /\ UNCHANGED <<sequence, work, snap>>
        /\ \E to \in {"idle", "register"} : pc' = [pc EXCEPT ![s] = to]
        /\ pc[s] \in {"idle", "register"}
    BY <1>1 DEF StartLock, StartRefused
  <2>2. ~Publishes(s) /\ ~Publishes(s)' /\ pc'[s] \in {"idle", "register"}
    BY <2>1 DEF Publishes, TypeOK
  <2>3. \A p \in (Starters \cup Ops) \ {s} : pc'[p] = pc[p]
    BY <2>1 DEF TypeOK
  <2>4. QED
    BY <2>1, <2>2, <2>3, HandoverStartStep
<1>2. CASE StartRegistered(s)
  <2> DEFINE new == sequence + 1
  <2>1. /\ sequence' = new /\ snap' = [snap EXCEPT ![s] = current']
        /\ current'.id = new /\ UNCHANGED work
        /\ pc' = [pc EXCEPT ![s] = "notify"] /\ pc[s] = "register"
    BY <1>2 DEF StartRegistered, RegistryStart, SnapshotOf
  <2>2. sequence \in Nat /\ new \in Ops /\ new > sequence
    BY <1>2, BoundsAssumption
    DEF StartRegistered, LifecycleIsExclusive, Ops, TypeOK, RegistryTypeOK
  <2>3. /\ \A t \in Starters \ {s} : /\ Publishes(t)' <=> Publishes(t)
                                     /\ snap'[t] = snap[t] /\ pc'[t] = pc[t]
        /\ \A i \in Ops : pc'[i] = pc[i] /\ snap'[i] = snap[i]
        /\ Publishes(s)' /\ snap'[s].id = new /\ pc'[s] = "notify"
        /\ pc[new] = "idle"
    BY <2>1, <2>2
    DEF Publishes, TypeOK, HandoverInvariant, OperationsAreHandedOver
  <2>4. \A t \in Starters \ {s} : Publishes(t) => snap[t].id # new
    BY <2>2 DEF HandoverInvariant, OperationsAreHandedOver
  <2>5. \A i \in Ops : (i > new <=> i > sequence /\ i # new) /\ (i <= sequence => i <= new)
    BY <2>2 DEF Ops
  <2>6. \A i \in Ops : pc'[i] = "idle" =>
            i > new \/ \E t \in Starters : Publishes(t)' /\ snap'[t].id = i
    <3>1. ASSUME NEW i \in Ops, pc'[i] = "idle", ~(i > new), i # new
          PROVE  \E t \in Starters : Publishes(t)' /\ snap'[t].id = i
      <4>1. PICK t \in Starters : Publishes(t) /\ snap[t].id = i
        BY <2>3, <2>5, <3>1 DEF HandoverInvariant, OperationsAreHandedOver
      <4>2. t # s
        BY <2>1, <4>1 DEF Publishes
      <4>3. QED
        BY <2>3, <4>1, <4>2
    <3>2. QED
      BY <2>3, <3>1
  <2>7. OperationsAreHandedOver'
    BY <2>1, <2>2, <2>3, <2>4, <2>5, <2>6
    DEF HandoverInvariant, OperationsAreHandedOver
  <2>8. WorkflowsStartOnce'
    BY <2>1, <2>3 DEF HandoverInvariant, WorkflowsStartOnce, Unstarted
  <2>9. QED
    BY <2>7, <2>8 DEF HandoverInvariant
<1>3. CASE StartRun(s)
  <2> DEFINE new == snap[s].id
  <2>1. /\ pc[s] = "spawn" /\ UNCHANGED <<sequence, work>>
        /\ pc' = [pc EXCEPT ![s] = "idle", ![new] = "transition"]
        /\ snap' = [snap EXCEPT ![s] = NoSnapshot]
    BY <1>3 DEF StartRun, Forget
  <2>2. Publishes(s) /\ new \in Ops /\ new <= sequence /\ pc[new] = "idle"
    BY <2>1 DEF Publishes, HandoverInvariant, OperationsAreHandedOver
  <2>3. /\ \A t \in Starters \ {s} : /\ Publishes(t)' <=> Publishes(t)
                                     /\ snap'[t] = snap[t] /\ pc'[t] = pc[t]
                                     /\ Publishes(t) => snap[t].id # new
        /\ \A i \in Ops \ {new} : pc'[i] = pc[i] /\ snap'[i] = snap[i]
        /\ ~Publishes(s)' /\ pc'[s] = "idle" /\ pc'[new] = "transition"
    BY <2>1, <2>2 DEF Publishes, TypeOK, HandoverInvariant, OperationsAreHandedOver
  <2>4. ~(new > sequence)
    BY <2>2 DEF Ops, TypeOK, RegistryTypeOK
  <2>5. OperationsAreHandedOver'
    <3>1. ASSUME NEW i \in Ops, pc'[i] = "idle", ~(i > sequence)
          PROVE  \E t \in Starters : Publishes(t)' /\ snap'[t].id = i
      <4>1. i # new /\ pc[i] = "idle"
        BY <2>3, <3>1
      <4>2. PICK t \in Starters : Publishes(t) /\ snap[t].id = i
        BY <3>1, <4>1 DEF HandoverInvariant, OperationsAreHandedOver
      <4>3. QED
        BY <2>3, <4>1, <4>2
    <3>2. \A i \in Ops : i > sequence => pc'[i] = "idle"
      BY <2>3, <2>4 DEF HandoverInvariant, OperationsAreHandedOver
    <3>3. \A t \in Starters : Publishes(t)' =>
              /\ t # s /\ snap'[t] = snap[t] /\ Publishes(t)
              /\ snap'[t].id \in Ops /\ snap'[t].id <= sequence
              /\ pc'[snap'[t].id] = "idle"
      BY <2>3 DEF HandoverInvariant, OperationsAreHandedOver
    <3>4. \A t \in Starters :
              pc'[t] \in {"idle", "register", "notify", "emit", "spawn"}
      BY <2>3 DEF HandoverInvariant, OperationsAreHandedOver
    <3>5. \A t, u \in Starters : Publishes(t)' /\ Publishes(u)'
              /\ snap'[t].id = snap'[u].id => t = u
      BY <3>3 DEF HandoverInvariant, OperationsAreHandedOver
    <3>6. \A i \in Ops : pc'[i] = "idle" =>
              i > sequence \/ \E t \in Starters : Publishes(t)' /\ snap'[t].id = i
      BY <3>1
    <3>7. sequence' = sequence
      BY <2>1
    <3>8. QED
      BY <3>2, <3>3, <3>4, <3>5, <3>6, <3>7, Zenon DEF OperationsAreHandedOver
  <2>6. WorkflowsStartOnce'
    BY <2>1, <2>2, <2>3 DEF HandoverInvariant, WorkflowsStartOnce, Unstarted
  <2>7. QED
    BY <2>5, <2>6 DEF HandoverInvariant
<1>4. QED
  BY <1>1, <1>2, <1>3 DEF Start

LEMMA HandoverRun ==
    ASSUME TypeOK, HandoverInvariant, NEW i \in Ops, Run(i)
    PROVE  HandoverInvariant'
<1> USE Kinds DEF Goto, registryVars
<1>1. \A p \in Proc \ {i} : pc'[p] = pc[p] /\ snap'[p] = snap[p]
  BY DEF Run, RunTransition, RunAbandon, RunSpawnWorkflow, RunSelectResult,
     RunSelectContext, RunFinish, RunFinishRefused, RunReturn, Forget, TypeOK
<1>2. UNCHANGED sequence /\ \A j \in Ops \ {i} : work'[j] = work[j]
  BY DEF Run, RunTransition, RunAbandon, RunSpawnWorkflow, RunSelectResult,
     RunSelectContext, RunFinish, RunFinishRefused, RunReturn,
     RegistryTransition, RegistryFinish, TypeOK
<1>3. pc[i] # "idle" /\ pc'[i] # "idle"
  BY DEF Run, RunTransition, RunAbandon, RunSpawnWorkflow, RunSelectResult,
     RunSelectContext, RunFinish, RunFinishRefused, RunReturn, TypeOK
<1>4. Unstarted(i)' => work'[i] = "none"
  <2>1. CASE RunTransition(i)
    BY <2>1 DEF RunTransition, Unstarted, HandoverInvariant, WorkflowsStartOnce, TypeOK
  <2>2. ASSUME ~RunTransition(i) PROVE ~Unstarted(i)'
    BY <2>2 DEF Run, RunAbandon, RunSpawnWorkflow, RunSelectResult,
       RunSelectContext, RunFinish, RunFinishRefused, RunReturn, Unstarted, TypeOK
  <2>3. QED
    BY <2>1, <2>2
<1>5. pc'[i] = "finish" => IsTerminal(snap'[i].state)
  <2>1. \A answer \in result[i] : IsTerminal(TerminalState(answer))
    BY DEF TypeOK, WorkflowResultType, Outcomes, TerminalState, IsTerminal,
       TerminalStates
  <2>2. CASE RunAbandon(i)
    BY <2>2 DEF RunAbandon, SnapshotOf, IsTerminal, TerminalStates, TypeOK
  <2>3. CASE RunSelectResult(i)
    BY <2>1, <2>3 DEF RunSelectResult, SnapshotOf, TypeOK
  <2>4. CASE RunSelectContext(i)
    BY <2>4 DEF RunSelectContext, SnapshotOf, ContextTerminalState, IsTerminal,
       TerminalStates, TypeOK
  <2>5. QED
    BY <2>2, <2>3, <2>4 DEF Run, RunTransition, RunSpawnWorkflow, RunFinish,
       RunFinishRefused, RunReturn, TypeOK
<1>6. pc'[i] = "release" => snap'[i].state # "running"
  <2>1. CASE RunFinish(i)
    <3>1. IsTerminal(snap[i].state)
      BY <2>1 DEF RunFinish, HandoverInvariant, WorkflowsStartOnce
    <3>2. current'.state # "running"
      BY <2>1, <3>1 DEF RunFinish, RegistryFinish, SnapshotOf, Resolution,
         IsTerminal, TerminalStates
    <3>3. QED
      BY <2>1, <3>2 DEF RunFinish, TypeOK
  <2>2. QED
    BY <2>1 DEF Run, RunTransition, RunAbandon, RunSpawnWorkflow, RunSelectResult,
       RunSelectContext, RunFinishRefused, RunReturn, TypeOK
<1>7. QED
  BY <1>1, <1>2, <1>3, <1>4, <1>5, <1>6, HandoverRunStep

LEMMA HandoverStep ==
    ASSUME TypeOK, LifecycleIsExclusive, HandoverInvariant, [Next]_vars
    PROVE  HandoverInvariant'
<1> USE Kinds DEF registryVars, goroutines, Goto, TypeOK
<1>1. ASSUME NEW p \in Proc, Notify(p) PROVE HandoverInvariant'
  BY <1>1, HandoverNotify
<1>2. ASSUME NEW s \in Starters, Start(s) PROVE HandoverInvariant'
  BY <1>2, HandoverStart
<1>3. ASSUME NEW c \in Cancellers, Cancel(c) PROVE HandoverInvariant'
  BY <1>3, HandoverIsKept DEF Cancel, CancelAccepted, RegistryCancel
<1>4. ASSUME NEW i \in Ops, OperationStep(i) PROVE HandoverInvariant'
  <2>1. CASE Run(i)  BY <2>1, HandoverRun
  <2>2. CASE WorkReturn(i) \/ WorkExit(i)
    <3>1. /\ UNCHANGED <<pc, snap, sequence>> /\ work[i] # "none"
          /\ \A j \in Ops \ {i} : work'[j] = work[j]
      BY <2>2 DEF WorkReturn, WorkAnswer, WorkExit
    <3>2. ~Unstarted(i) /\ pc[i] # "idle"
      BY <3>1 DEF HandoverInvariant, WorkflowsStartOnce, Unstarted
    <3>3. QED
      BY <3>1, <3>2, HandoverRunStep
      DEF Unstarted, HandoverInvariant, WorkflowsStartOnce
  <2>3. CASE Deadline(i)  BY <2>3, HandoverIsKept DEF Deadline
  <2>4. QED
    BY <1>4, <2>1, <2>2, <2>3 DEF OperationStep
<1>5. CASE ParentCancel  BY <1>5, HandoverIsKept DEF ParentCancel
<1>6. CASE Shutdown
  BY <1>6, HandoverIsKept DEF Shutdown, ShutdownLock, ShutdownCurrent,
     ShutdownCancel, CancelAccepted, RegistryCancel, ShutdownCancelRefused,
     ShutdownUnlock, Drain, ShutdownReturn, ShutdownExpire, Forget
<1>7. CASE Rest \/ UNCHANGED vars  BY <1>7, HandoverIsKept DEF Rest, vars
<1>8. QED
  BY <1>1, <1>2, <1>3, <1>4, <1>5, <1>6, <1>7 DEF Next, ServiceNext, OperationStep

(***************************************************************************)
(* No registered operation is dropped or started twice on its way from     *)
(* Start to its run goroutine and its workflow (service.go:65-86,151-182). *)
(***************************************************************************)
THEOREM OperationsHandedOver == Spec => []HandoverInvariant
<1>1. Init => HandoverInvariant
  BY HandoverInit
<1>2. TypeOK /\ LifecycleIsExclusive /\ HandoverInvariant /\ [Next]_vars
      => HandoverInvariant'
  BY HandoverStep
<1>3. QED
  BY <1>1, <1>2, TypeCorrect, LifecycleExclusive, PTL DEF Spec

-----------------------------------------------------------------------------
(***************************************************************************)
(* What the WaitGroup counts: the Start calls that have not handed their   *)
(* operation over, the run goroutines that have not returned, and the      *)
(* workflow goroutines (service.go:71,80-86,152-154,170-182).              *)
(***************************************************************************)
CountedCalls == {s \in Starters : pc[s] \in {"register", "notify", "emit", "spawn"}}
CountedRuns  == {i \in Ops : pc[i] \notin {"idle", "done"}}
CountedWork  == {i \in Ops : work[i] \in {"running", "answered"}}

WaitGroupCounts ==
    /\ IsFiniteSet(CountedCalls) /\ IsFiniteSet(CountedRuns) /\ IsFiniteSet(CountedWork)
    /\ wg = Cardinality(CountedCalls) + Cardinality(CountedRuns)
                                      + Cardinality(CountedWork)

LEMMA CountIsNatural ==
    ASSUME WaitGroupCounts
    PROVE  /\ wg \in Nat
           /\ wg = 0 => CountedCalls = {} /\ CountedRuns = {} /\ CountedWork = {}
BY FS_CardinalityType, FS_EmptySet DEF WaitGroupCounts

LEMMA CountInit == Init => WaitGroupCounts
<1> SUFFICES ASSUME Init PROVE WaitGroupCounts
  OBVIOUS
<1>1. CountedCalls = {} /\ CountedRuns = {} /\ CountedWork = {} /\ wg = 0
  BY Kinds DEF Init, CountedCalls, CountedRuns, CountedWork
<1>2. QED
  BY <1>1, FS_EmptySet DEF WaitGroupCounts

LEMMA CountIsKept ==
    ASSUME WaitGroupCounts,
           UNCHANGED <<wg, CountedCalls, CountedRuns, CountedWork>>
    PROVE  WaitGroupCounts'
BY DEF WaitGroupCounts

(* Add(1) for somebody new, Done for somebody counted.                     *)
LEMMA CountGrows ==
    ASSUME WaitGroupCounts, wg' = wg + 1, NEW x,
           \/ /\ x \notin CountedCalls /\ CountedCalls' = CountedCalls \cup {x}
              /\ UNCHANGED <<CountedRuns, CountedWork>>
           \/ /\ x \notin CountedWork /\ CountedWork' = CountedWork \cup {x}
              /\ UNCHANGED <<CountedCalls, CountedRuns>>
    PROVE  WaitGroupCounts'
<1>1. /\ Cardinality(CountedCalls) \in Nat
      /\ Cardinality(CountedRuns) \in Nat
      /\ Cardinality(CountedWork) \in Nat
  BY FS_CardinalityType DEF WaitGroupCounts
<1>2. CASE x \notin CountedCalls /\ CountedCalls' = CountedCalls \cup {x}
           /\ UNCHANGED <<CountedRuns, CountedWork>>
  <2>1. IsFiniteSet(CountedCalls') /\ Cardinality(CountedCalls') = Cardinality(CountedCalls) + 1
    BY <1>2, FS_AddElement DEF WaitGroupCounts
  <2>2. QED
    BY <1>1, <1>2, <2>1 DEF WaitGroupCounts
<1>3. CASE x \notin CountedWork /\ CountedWork' = CountedWork \cup {x}
           /\ UNCHANGED <<CountedCalls, CountedRuns>>
  <2>1. IsFiniteSet(CountedWork') /\ Cardinality(CountedWork') = Cardinality(CountedWork) + 1
    BY <1>3, FS_AddElement DEF WaitGroupCounts
  <2>2. QED
    BY <1>1, <1>3, <2>1 DEF WaitGroupCounts
<1>4. QED
  BY <1>2, <1>3

LEMMA CountShrinks ==
    ASSUME WaitGroupCounts, wg' = wg - 1, NEW x,
           \/ /\ x \in CountedCalls /\ CountedCalls' = CountedCalls \ {x}
              /\ UNCHANGED <<CountedRuns, CountedWork>>
           \/ /\ x \in CountedRuns /\ CountedRuns' = CountedRuns \ {x}
              /\ UNCHANGED <<CountedCalls, CountedWork>>
           \/ /\ x \in CountedWork /\ CountedWork' = CountedWork \ {x}
              /\ UNCHANGED <<CountedCalls, CountedRuns>>
    PROVE  WaitGroupCounts'
<1>1. /\ Cardinality(CountedCalls) \in Nat
      /\ Cardinality(CountedRuns) \in Nat
      /\ Cardinality(CountedWork) \in Nat
  BY FS_CardinalityType DEF WaitGroupCounts
<1>2. CASE x \in CountedCalls /\ CountedCalls' = CountedCalls \ {x}
           /\ UNCHANGED <<CountedRuns, CountedWork>>
  <2>1. IsFiniteSet(CountedCalls') /\ Cardinality(CountedCalls') = Cardinality(CountedCalls) - 1
    BY <1>2, FS_RemoveElement DEF WaitGroupCounts
  <2>2. QED
    BY <1>1, <1>2, <2>1 DEF WaitGroupCounts
<1>3. CASE x \in CountedRuns /\ CountedRuns' = CountedRuns \ {x}
           /\ UNCHANGED <<CountedCalls, CountedWork>>
  <2>1. IsFiniteSet(CountedRuns') /\ Cardinality(CountedRuns') = Cardinality(CountedRuns) - 1
    BY <1>3, FS_RemoveElement DEF WaitGroupCounts
  <2>2. QED
    BY <1>1, <1>3, <2>1 DEF WaitGroupCounts
<1>4. CASE x \in CountedWork /\ CountedWork' = CountedWork \ {x}
           /\ UNCHANGED <<CountedCalls, CountedRuns>>
  <2>1. IsFiniteSet(CountedWork') /\ Cardinality(CountedWork') = Cardinality(CountedWork) - 1
    BY <1>4, FS_RemoveElement DEF WaitGroupCounts
  <2>2. QED
    BY <1>1, <1>4, <2>1 DEF WaitGroupCounts
<1>5. QED
  BY <1>2, <1>3, <1>4

(* StartRun: the count passes from the call to the run goroutine.          *)
LEMMA CountMoves ==
    ASSUME WaitGroupCounts, UNCHANGED <<wg, CountedWork>>, NEW x, NEW y,
           x \in CountedCalls, CountedCalls' = CountedCalls \ {x},
           y \notin CountedRuns, CountedRuns' = CountedRuns \cup {y}
    PROVE  WaitGroupCounts'
<1>1. /\ Cardinality(CountedCalls) \in Nat
      /\ Cardinality(CountedRuns) \in Nat
      /\ Cardinality(CountedWork) \in Nat
  BY FS_CardinalityType DEF WaitGroupCounts
<1>2. IsFiniteSet(CountedCalls') /\ Cardinality(CountedCalls') = Cardinality(CountedCalls) - 1
  BY FS_RemoveElement DEF WaitGroupCounts
<1>3. IsFiniteSet(CountedRuns') /\ Cardinality(CountedRuns') = Cardinality(CountedRuns) + 1
  BY FS_AddElement DEF WaitGroupCounts
<1>4. QED
  BY <1>1, <1>2, <1>3 DEF WaitGroupCounts

LEMMA CountNotify ==
    ASSUME TypeOK, HandoverInvariant, NEW p \in Proc, Notify(p)
    PROVE  UNCHANGED <<wg, CountedCalls, CountedRuns, CountedWork>>
<1> USE Kinds DEF registryVars, Goto
<1>1. UNCHANGED <<wg, work>>
  BY DEF Notify, NotifyCurrent, NotifyStale, Emit, ReleaseContext
<1>2. \A q \in Proc \ {p} : pc'[q] = pc[q]
  BY DEF Notify, NotifyCurrent, NotifyStale, Emit, ReleaseContext, TypeOK
<1>3. /\ pc[p] \in {"release", "notify", "emit"}
      /\ pc'[p] \in {"notify", "emit"} \/ pc'[p] = AfterNotify(p)
  BY DEF Notify, NotifyCurrent, NotifyStale, Emit, ReleaseContext, TypeOK
<1>4. p \in Starters => pc[p] # "release" /\ AfterNotify(p) = "spawn"
  BY DEF AfterNotify, HandoverInvariant, OperationsAreHandedOver
<1>5. p \in Ops => AfterNotify(p) \in {"spawn", "return"}
  BY DEF AfterNotify
<1>6. CountedCalls' = CountedCalls
  BY <1>2, <1>3, <1>4 DEF CountedCalls
<1>7. CountedRuns' = CountedRuns
  BY <1>2, <1>3, <1>5 DEF CountedRuns
<1>8. QED
  BY <1>1, <1>6, <1>7 DEF CountedWork

LEMMA CountStart ==
    ASSUME TypeOK, HandoverInvariant, WaitGroupCounts, NEW s \in Starters, Start(s)
    PROVE  WaitGroupCounts'
<1> USE Kinds DEF registryVars, Goto
<1>1. CASE StartLock(s)
  <2>1. /\ wg' = wg + 1 /\ UNCHANGED work
        /\ pc[s] = "idle" /\ pc' = [pc EXCEPT ![s] = "register"]
    BY <1>1 DEF StartLock
  <2>2. s \notin CountedCalls /\ CountedCalls' = CountedCalls \cup {s}
    BY <2>1 DEF CountedCalls, TypeOK
  <2>3. UNCHANGED <<CountedRuns, CountedWork>>
    BY <2>1 DEF CountedRuns, CountedWork, TypeOK
  <2>4. QED
    BY <2>1, <2>2, <2>3, CountGrows
<1>2. CASE StartRegistered(s)
  <2>1. /\ UNCHANGED <<wg, work>>
        /\ pc[s] = "register" /\ pc' = [pc EXCEPT ![s] = "notify"]
    BY <1>2 DEF StartRegistered
  <2>2. UNCHANGED <<CountedCalls, CountedRuns, CountedWork>>
    BY <2>1 DEF CountedCalls, CountedRuns, CountedWork, TypeOK
  <2>3. QED
    BY <2>1, <2>2, CountIsKept
<1>3. CASE StartRefused(s)
  <2>1. /\ wg' = wg - 1 /\ UNCHANGED work
        /\ pc[s] = "register" /\ pc' = [pc EXCEPT ![s] = "idle"]
    BY <1>3 DEF StartRefused
  <2>2. s \in CountedCalls /\ CountedCalls' = CountedCalls \ {s}
    BY <2>1 DEF CountedCalls, TypeOK
  <2>3. UNCHANGED <<CountedRuns, CountedWork>>
    BY <2>1 DEF CountedRuns, CountedWork, TypeOK
  <2>4. QED
    BY <2>1, <2>2, <2>3, CountShrinks
<1>4. CASE StartRun(s)
  <2> DEFINE new == snap[s].id
  <2>1. /\ UNCHANGED <<wg, work>> /\ pc[s] = "spawn"
        /\ pc' = [pc EXCEPT ![s] = "idle", ![new] = "transition"]
    BY <1>4 DEF StartRun
  <2>2. new \in Ops /\ pc[new] = "idle"
    BY <2>1 DEF HandoverInvariant, OperationsAreHandedOver, Publishes
  <2>3. s \in CountedCalls /\ CountedCalls' = CountedCalls \ {s}
    BY <2>1, <2>2 DEF CountedCalls, TypeOK
  <2>4. new \notin CountedRuns /\ CountedRuns' = CountedRuns \cup {new}
    BY <2>1, <2>2 DEF CountedRuns, TypeOK
  <2>5. UNCHANGED CountedWork
    BY <2>1 DEF CountedWork
  <2>6. QED
    BY <2>1, <2>3, <2>4, <2>5, CountMoves
<1>5. QED
  BY <1>1, <1>2, <1>3, <1>4 DEF Start

(* The steps of a call of Cancel or Shutdown, and of contexts, move no     *)
(* goroutine that is counted.                                              *)
LEMMA CountUntouched ==
    ASSUME UNCHANGED <<wg, work>>, \A p \in Starters \cup Ops : pc'[p] = pc[p]
    PROVE  UNCHANGED <<wg, CountedCalls, CountedRuns, CountedWork>>
BY DEF CountedCalls, CountedRuns, CountedWork

LEMMA CountRun ==
    ASSUME TypeOK, HandoverInvariant, WaitGroupCounts, NEW i \in Ops, Run(i)
    PROVE  WaitGroupCounts'
<1> USE Kinds DEF Goto, registryVars
<1>1. \A p \in Proc \ {i} : pc'[p] = pc[p]
  BY DEF Run, RunTransition, RunAbandon, RunSpawnWorkflow, RunSelectResult,
     RunSelectContext, RunFinish, RunFinishRefused, RunReturn, TypeOK
<1>2. UNCHANGED CountedCalls /\ i \in CountedRuns
  BY <1>1 DEF CountedCalls, CountedRuns, Run, RunTransition, RunAbandon,
     RunSpawnWorkflow, RunSelectResult, RunSelectContext, RunFinish,
     RunFinishRefused, RunReturn, TypeOK
<1>3. CASE RunSpawnWorkflow(i)
  <2>1. /\ wg' = wg + 1 /\ work' = [work EXCEPT ![i] = "running"]
        /\ pc[i] = "spawn" /\ pc'[i] = "select"
    BY <1>3 DEF RunSpawnWorkflow, TypeOK
  <2>2. work[i] = "none"
    BY <2>1 DEF HandoverInvariant, WorkflowsStartOnce, Unstarted
  <2>3. i \notin CountedWork /\ CountedWork' = CountedWork \cup {i}
    BY <2>1, <2>2 DEF CountedWork, TypeOK
  <2>4. UNCHANGED CountedRuns
    BY <1>1, <2>1 DEF CountedRuns
  <2>5. QED
    BY <1>2, <2>1, <2>3, <2>4, CountGrows
<1>4. CASE RunReturn(i)
  <2>1. wg' = wg - 1 /\ UNCHANGED work /\ pc'[i] = "done"
    BY <1>4 DEF RunReturn, TypeOK
  <2>2. CountedRuns' = CountedRuns \ {i} /\ UNCHANGED CountedWork
    BY <1>1, <2>1 DEF CountedRuns, CountedWork
  <2>3. QED
    BY <1>2, <2>1, <2>2, CountShrinks
<1>5. ASSUME ~RunSpawnWorkflow(i), ~RunReturn(i)
      PROVE  WaitGroupCounts'
  <2>1. UNCHANGED <<wg, work>> /\ pc'[i] \notin {"idle", "done"}
    BY <1>5 DEF Run, RunTransition, RunAbandon, RunSelectResult,
       RunSelectContext, RunFinish, RunFinishRefused, TypeOK
  <2>2. UNCHANGED <<CountedRuns, CountedWork>>
    BY <1>1, <1>2, <2>1 DEF CountedRuns, CountedWork
  <2>3. QED
    BY <1>2, <2>1, <2>2, CountIsKept
<1>6. QED
  BY <1>3, <1>4, <1>5

LEMMA CountStep ==
    ASSUME TypeOK, HandoverInvariant, WaitGroupCounts, [Next]_vars
    PROVE  WaitGroupCounts'
<1> USE Kinds DEF registryVars, goroutines, Goto, TypeOK
<1>1. ASSUME NEW p \in Proc, Notify(p) PROVE WaitGroupCounts'
  BY <1>1, CountNotify, CountIsKept
<1>2. ASSUME NEW s \in Starters, Start(s) PROVE WaitGroupCounts'
  BY <1>2, CountStart
<1>3. ASSUME NEW c \in Cancellers, Cancel(c) PROVE WaitGroupCounts'
  BY <1>3, CountUntouched, CountIsKept DEF Cancel, CancelAccepted
<1>4. ASSUME NEW i \in Ops, OperationStep(i) PROVE WaitGroupCounts'
  <2>1. CASE Run(i)  BY <2>1, CountRun
  <2>2. CASE WorkReturn(i)
    BY <2>2, CountIsKept
    DEF WorkReturn, WorkAnswer, CountedCalls, CountedRuns, CountedWork
  <2>3. CASE WorkExit(i)
    <3>1. wg' = wg - 1 /\ i \in CountedWork /\ CountedWork' = CountedWork \ {i}
      BY <2>3 DEF WorkExit, CountedWork
    <3>2. UNCHANGED <<CountedCalls, CountedRuns>>
      BY <2>3 DEF WorkExit, CountedCalls, CountedRuns
    <3>3. QED
      BY <3>1, <3>2, CountShrinks
  <2>4. CASE Deadline(i)  BY <2>4, CountUntouched, CountIsKept DEF Deadline
  <2>5. QED
    BY <1>4, <2>1, <2>2, <2>3, <2>4 DEF OperationStep
<1>5. CASE ParentCancel  BY <1>5, CountUntouched, CountIsKept DEF ParentCancel
<1>6. CASE Shutdown
  BY <1>6, CountUntouched, CountIsKept DEF Shutdown, ShutdownLock, ShutdownCurrent,
     ShutdownCancel, CancelAccepted, ShutdownCancelRefused, ShutdownUnlock, Drain,
     ShutdownReturn, ShutdownExpire
<1>7. CASE Rest \/ UNCHANGED vars
  BY <1>7, CountUntouched, CountIsKept DEF Rest, vars
<1>8. QED
  BY <1>1, <1>2, <1>3, <1>4, <1>5, <1>6, <1>7 DEF Next, ServiceNext, OperationStep

(***************************************************************************)
(* The WaitGroup counts exactly the goroutines under way                   *)
(* (service.go:71,80-86,152-154,170-182).                                  *)
(***************************************************************************)
THEOREM WaitGroupIsExact == Spec => []WaitGroupCounts
<1>1. Init => WaitGroupCounts
  BY CountInit
<1>2. TypeOK /\ HandoverInvariant /\ WaitGroupCounts /\ [Next]_vars => WaitGroupCounts'
  BY CountStep
<1>3. QED
  BY <1>1, <1>2, TypeCorrect, OperationsHandedOver, PTL DEF Spec

(* Only a Start call before the shutdown and a run goroutine add to it.    *)
LEMMA WhoAdds ==
    ASSUME TypeOK, [Next]_vars
    PROVE  \/ wg' = wg \/ wg' = wg - 1
           \/ ~shuttingDown
           \/ CountedRuns # {}
<1> USE Kinds DEF registryVars, goroutines, Goto
<1>1. ASSUME NEW p \in Proc, Notify(p) PROVE wg' = wg
  BY <1>1 DEF Notify, NotifyCurrent, NotifyStale, Emit, ReleaseContext
<1>2. ASSUME NEW s \in Starters, Start(s)
      PROVE  wg' = wg \/ wg' = wg - 1 \/ ~shuttingDown
  BY <1>2 DEF Start, StartLock, StartRegistered, StartRefused, StartRun
<1>3. ASSUME NEW i \in Ops, OperationStep(i)
      PROVE  wg' = wg \/ wg' = wg - 1 \/ CountedRuns # {}
  <2>1. CASE RunSpawnWorkflow(i)
    BY <2>1 DEF RunSpawnWorkflow, CountedRuns
  <2>2. QED
    BY <1>3, <2>1 DEF OperationStep, Run, RunTransition, RunAbandon,
       RunSelectResult, RunSelectContext, RunFinish, RunFinishRefused, RunReturn,
       WorkReturn, WorkAnswer, WorkExit, Deadline
<1>4. ASSUME NEW c \in Cancellers, Cancel(c) PROVE wg' = wg
  BY <1>4 DEF Cancel, CancelAccepted
<1>5. CASE ParentCancel  BY <1>5 DEF ParentCancel
<1>6. CASE Shutdown
  BY <1>6 DEF Shutdown, ShutdownLock, ShutdownCurrent, ShutdownCancel,
     CancelAccepted, ShutdownCancelRefused, ShutdownUnlock, Drain,
     ShutdownReturn, ShutdownExpire
<1>7. CASE Rest \/ UNCHANGED vars  BY <1>7 DEF Rest, vars
<1>8. QED
  BY <1>1, <1>2, <1>3, <1>4, <1>5, <1>6, <1>7 DEF Next, ServiceNext, OperationStep

LEMMA RevivalStep ==
    ASSUME TypeOK, WaitGroupCounts, WaitGroupCounts', [Next]_vars
    PROVE  wg' >= 0 /\ (shuttingDown /\ wg = 0 => wg' = 0)
<1>1. wg' \in Nat
  BY FS_CardinalityType DEF WaitGroupCounts
<1>2. wg \in Nat /\ (wg = 0 => CountedRuns = {})
  BY CountIsNatural
<1>3. QED
  BY <1>1, <1>2, WhoAdds

(***************************************************************************)
(* The WaitGroup is used as sync.WaitGroup demands: its counter does not   *)
(* go negative, and while Shutdown waits nothing takes it from zero        *)
(* (service.go:71,124-149,170).                                            *)
(***************************************************************************)
THEOREM WaitGroupNotRevived == Spec => WaitGroupIsNotRevived
<1>1. TypeOK /\ WaitGroupCounts /\ WaitGroupCounts' /\ [Next]_vars
      => [wg' >= 0 /\ (shuttingDown /\ wg = 0 => wg' = 0)]_vars
  BY RevivalStep
<1>2. QED
  BY <1>1, TypeCorrect, WaitGroupIsExact, PTL DEF Spec, WaitGroupIsNotRevived

-----------------------------------------------------------------------------
(***************************************************************************)
(* Shutdown: it returns nil only once the counter has been zero, and then  *)
(* nothing that is counted is left or comes back (service.go:134-149).     *)
(***************************************************************************)
ShutdownWaits ==
    /\ pc[Main] \in {"wait", "done", "expired"} => shuttingDown
    /\ drained => shuttingDown /\ wg = 0
    /\ pc[Main] = "done" => drained

LEMMA ShutdownStep ==
    ASSUME TypeOK, LifecycleIsExclusive, WaitGroupCounts, WaitGroupCounts',
           ShutdownWaits, [Next]_vars
    PROVE  ShutdownWaits'
<1> USE Kinds DEF registryVars, goroutines, Goto, TypeOK
<1>1. shuttingDown /\ wg = 0 => wg' = 0
  BY RevivalStep
<1>2. ASSUME UNCHANGED <<shuttingDown, drained>>,
             pc'[Main] \in {"wait", "done", "expired"} => pc'[Main] = pc[Main]
      PROVE  ShutdownWaits'
  BY <1>1, <1>2 DEF ShutdownWaits
<1>3. ASSUME NEW p \in Proc, Notify(p) PROVE ShutdownWaits'
  <2>1. AfterNotify(p) \notin {"wait", "done", "expired"}
    BY DEF AfterNotify
  <2>2. QED
    BY <1>2, <1>3, <2>1 DEF Notify, NotifyCurrent, NotifyStale, Emit, ReleaseContext
<1>4. ASSUME NEW s \in Starters, Start(s) PROVE ShutdownWaits'
  BY <1>2, <1>4 DEF Start, StartLock, StartRegistered, StartRefused, StartRun
<1>5. ASSUME NEW i \in Ops, OperationStep(i) PROVE ShutdownWaits'
  BY <1>2, <1>5 DEF OperationStep, Run, RunTransition, RunAbandon, RunSpawnWorkflow,
     RunSelectResult, RunSelectContext, RunFinish, RunFinishRefused, RunReturn,
     WorkReturn, WorkAnswer, WorkExit, Deadline
<1>6. ASSUME NEW c \in Cancellers, Cancel(c) PROVE ShutdownWaits'
  BY <1>2, <1>6 DEF Cancel, CancelAccepted
<1>7. CASE ParentCancel  BY <1>2, <1>7 DEF ParentCancel
<1>8. CASE Shutdown
  <2>1. CASE ShutdownLock
    BY <1>1, <2>1 DEF ShutdownLock, ShutdownWaits
  <2>2. CASE ShutdownUnlock
    BY <2>2 DEF ShutdownUnlock, ShutdownWaits, LifecycleIsExclusive
  <2>3. CASE Drain
    BY <2>3 DEF Drain, ShutdownWaits
  <2>4. CASE ShutdownReturn \/ ShutdownExpire
    BY <2>4 DEF ShutdownReturn, ShutdownExpire, ShutdownWaits
  <2>5. CASE ShutdownCurrent \/ ShutdownCancel \/ ShutdownCancelRefused
    BY <1>2, <2>5
    DEF ShutdownCurrent, ShutdownCancel, CancelAccepted, ShutdownCancelRefused
  <2>6. QED
    BY <1>8, <2>1, <2>2, <2>3, <2>4, <2>5 DEF Shutdown
<1>9. CASE Rest \/ UNCHANGED vars  BY <1>2, <1>9 DEF Rest, vars
<1>10. QED
  BY <1>3, <1>4, <1>5, <1>6, <1>7, <1>8, <1>9 DEF Next, ServiceNext, OperationStep

LEMMA ShutdownWaitsForAll == Spec => []ShutdownWaits
<1>1. Init => ShutdownWaits
  BY Kinds DEF Init, ShutdownWaits
<1>2. TypeOK /\ LifecycleIsExclusive /\ WaitGroupCounts /\ WaitGroupCounts'
      /\ ShutdownWaits /\ [Next]_vars => ShutdownWaits'
  BY ShutdownStep
<1>3. QED
  BY <1>1, <1>2, TypeCorrect, LifecycleExclusive, WaitGroupIsExact, PTL DEF Spec

(* Nobody who is counted is under way once Shutdown has returned nil.      *)
LEMMA NothingIsCounted ==
    ASSUME TypeOK, HandoverInvariant, WaitGroupCounts, ShutdownWaits, pc[Main] = "done"
    PROVE  /\ \A s \in Starters : pc[s] = "idle"
           /\ \A i \in Ops : pc[i] \in {"idle", "done"} /\ work[i] \in {"none", "done"}
           /\ \A i \in Ops : i <= sequence => pc[i] = "done"
<1>1. CountedCalls = {} /\ CountedRuns = {} /\ CountedWork = {}
  BY CountIsNatural DEF ShutdownWaits
<1>2. \A s \in Starters : pc[s] = "idle"
  BY <1>1 DEF CountedCalls, HandoverInvariant, OperationsAreHandedOver
<1>3. \A i \in Ops : pc[i] \in {"idle", "done"} /\ work[i] \in {"none", "done"}
  BY <1>1 DEF CountedRuns, CountedWork, TypeOK
<1>4. ASSUME NEW i \in Ops, i <= sequence PROVE pc[i] = "done"
  <2>1. ~(i > sequence)
    BY <1>4 DEF Ops, TypeOK, RegistryTypeOK
  <2>2. \A s \in Starters : ~Publishes(s)
    BY <1>2 DEF Publishes
  <2>3. QED
    BY <1>3, <2>1, <2>2 DEF HandoverInvariant, OperationsAreHandedOver
<1>5. QED
  BY <1>2, <1>3, <1>4
=============================================================================
