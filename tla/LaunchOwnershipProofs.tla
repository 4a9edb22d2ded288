------------------------ MODULE LaunchOwnershipProofs -----------------------
(***************************************************************************)
(* Who works on an operation, why it ends, and what it leaves behind:      *)
(* theorems about LaunchService that follow every operation from the Start *)
(* call to the last of its goroutines, for any number of callers,          *)
(* operations and workflow results.                                        *)
(***************************************************************************)
EXTENDS LaunchServiceProofs

(***************************************************************************)
(* Every operation in progress is owned.                                   *)
(***************************************************************************)
LEMMA OwnershipInit == Init => OwnershipInvariant
BY Kinds DEF Init, NewRegistry, OwnershipInvariant, OperationIsOwned, InProgress,
   NoSnapshot, ActiveStates, RunnersFollowTheRegistry, EndedContextsAreExplained,
   OwnedByRunner, Resolved, Publishes

(* An operation in progress is one of the modelled operations.             *)
LEMMA CurrentIsAnOperation ==
    ASSUME TypeOK, LifecycleIsExclusive, PendingEventsAreOrdered, InProgress
    PROVE  current.id \in Ops /\ current.id \in Nat
<1>1. current \in Snapshots
  BY DEF TypeOK, RegistryTypeOK, InProgress, ActiveStates, NoSnapshot
<1>2. current.id \in Nat \ {0} /\ current.id <= MaxOps
  BY <1>1 DEF Snapshots, LifecycleIsExclusive, PendingEventsAreOrdered
<1>3. QED
  BY <1>2, BoundsAssumption DEF Ops

(* The parts of the invariant only look at the registry, the contexts, the *)
(* answers, and where starters and run goroutines are.                     *)
LEMMA OwnershipIsKept ==
    ASSUME TypeOK, LifecycleIsExclusive, PendingEventsAreOrdered,
           OwnershipInvariant,
           UNCHANGED <<sequence, current, ctx, work, result, parentDone>>,
           \A p \in Starters \cup Ops : pc'[p] = pc[p] /\ snap'[p] = snap[p],
           \A p \in Proc : pc'[p] = "release" =>
               snap'[p].state = "cancelling" \/ IsTerminal(snap'[p].state)
    PROVE  OwnershipInvariant'
<1> USE Kinds
<1>1. OperationIsOwned'
  BY CurrentIsAnOperation
  DEF OwnershipInvariant, OperationIsOwned, InProgress, OwnedByRunner,
      OwnedByStarter
<1>2. RunnersFollowTheRegistry'
  BY DEF OwnershipInvariant, RunnersFollowTheRegistry, InProgress, OwnedByRunner,
         Resolved
<1>3. EndedContextsAreExplained'
  BY DEF OwnershipInvariant, EndedContextsAreExplained
<1>4. \A s \in Starters : Publishes(s)' =>
          /\ current'.id = snap'[s].id
          /\ current'.state \in {"starting", "cancelling"}
          /\ pc'[current'.id] = "idle"
  BY CurrentIsAnOperation
  DEF OwnershipInvariant, Publishes, InProgress, ActiveStates
<1>5. QED
  BY <1>1, <1>2, <1>3, <1>4 DEF OwnershipInvariant, Publishes

(* Start: the new operation is owned by the call that registered it, and   *)
(* then by the run goroutine that call starts.                             *)
LEMMA OwnershipStart ==
    ASSUME TypeOK, LifecycleIsExclusive, PendingEventsAreOrdered,
           OwnershipInvariant, NEW s \in Starters, Start(s)
    PROVE  OwnershipInvariant'
<1> USE Kinds DEF registryVars, Goto
<1>1. CASE StartLock(s)
  <2>1. pc'= [pc EXCEPT ![s] = "register"] /\ UNCHANGED snap
    BY <1>1 DEF StartLock
  <2> QED
    BY <1>1, <2>1, CurrentIsAnOperation
    DEF StartLock, TypeOK, OwnershipInvariant, OperationIsOwned, InProgress,
        OwnedByRunner, OwnedByStarter, RunnersFollowTheRegistry, Resolved,
        EndedContextsAreExplained, Publishes, ActiveStates
<1>2. CASE StartRefused(s)
  BY <1>2, CurrentIsAnOperation
  DEF StartRefused, TypeOK, OwnershipInvariant, OperationIsOwned, InProgress,
      OwnedByRunner, OwnedByStarter, RunnersFollowTheRegistry, Resolved,
      EndedContextsAreExplained, Publishes, ActiveStates
<1>3. CASE StartRegistered(s)
  <2>0. /\ sequence \in Nat /\ current.id = sequence /\ sequence < MaxOps
        /\ ~InProgress /\ ~parentDone
    BY <1>3 DEF StartRegistered, RegistryStart, LifecycleIsExclusive,
       PendingEventsAreOrdered, OwnershipInvariant, TypeOK, RegistryTypeOK
  <2> DEFINE new == sequence + 1
  <2>1. new \in Ops /\ new > sequence
    BY <2>0, BoundsAssumption DEF Ops
  <2>2. /\ sequence' = new
        /\ current' = SnapshotOf(new, "starting", "none")
        /\ pc' = [pc EXCEPT ![s] = "notify"]
        /\ snap' = [snap EXCEPT ![s] = current']
        /\ ctx' = [ctx EXCEPT ![new] = "live"]
        /\ UNCHANGED <<work, result, parentDone>>
    BY <1>3, <2>0 DEF StartRegistered, RegistryStart
  <2>3. current'.id = new /\ current'.state = "starting"
    BY <2>2 DEF SnapshotOf
  <2>4. /\ \A i \in Ops : pc'[i] = pc[i] /\ snap'[i] = snap[i]
        /\ \A i \in Ops : i # new => ctx'[i] = ctx[i]
        /\ pc[new] = "idle" /\ ctx'[new] = "live" /\ result[new] = {}
    BY <2>1, <2>2 DEF OwnershipInvariant, RunnersFollowTheRegistry, TypeOK
  <2>5. \A i \in Ops : ~OwnedByRunner(i)
    BY <2>0 DEF OwnershipInvariant, RunnersFollowTheRegistry
  <2>6. \A t \in Starters : ~Publishes(t)
    BY <2>0 DEF OwnershipInvariant, InProgress, ActiveStates
  <2>7. OperationIsOwned'
    BY <2>2, <2>3 DEF OperationIsOwned, OwnedByStarter, TypeOK
  <2>8. RunnersFollowTheRegistry'
    <3>1. ASSUME NEW i \in Ops PROVE ~OwnedByRunner(i)'
      BY <2>4, <2>5 DEF OwnedByRunner
    <3>2. ASSUME NEW i \in Ops, i > new
          PROVE  pc'[i] = "idle" /\ ctx'[i] = "none" /\ work'[i] = "none" /\ result'[i] = {}
      <4>1. i > sequence /\ i # new
        BY <2>0, <3>2
      <4>2. QED
        BY <2>2, <2>4, <4>1 DEF OwnershipInvariant, RunnersFollowTheRegistry
    <3>3. ASSUME NEW i \in Ops, Resolved(i)' PROVE current'.id # i
      BY <2>3, <2>4, <3>3 DEF Resolved
    <3>4. QED
      BY <2>2, <3>1, <3>2, <3>3 DEF RunnersFollowTheRegistry, OwnedByRunner
  <2>9. EndedContextsAreExplained'
    BY <2>2, <2>3, <2>4 DEF OwnershipInvariant, EndedContextsAreExplained
  <2>10. \A t \in Starters : Publishes(t)' => t = s
    BY <2>2, <2>6 DEF Publishes, TypeOK
  <2>11. snap'[s] = current' /\ pc'[current'.id] = "idle"
    BY <2>1, <2>2, <2>3, <2>4 DEF TypeOK
  <2>12. \A p \in Proc : pc'[p] = "release" =>
             snap'[p].state = "cancelling" \/ IsTerminal(snap'[p].state)
    BY <2>2 DEF TypeOK, OwnershipInvariant
  <2>13. QED
    BY <2>0, <2>2, <2>3, <2>7, <2>8, <2>9, <2>10, <2>11, <2>12
    DEF OwnershipInvariant
<1>4. CASE StartRun(s)
  <2>1. Publishes(s)
    BY <1>4 DEF StartRun, Publishes
  <2>2. /\ current.id = snap[s].id
        /\ current.state \in {"starting", "cancelling"}
        /\ pc[current.id] = "idle"
        /\ \A t \in Starters : Publishes(t) => t = s
    BY <2>1 DEF OwnershipInvariant
  <2>3. InProgress /\ current.id \in Ops
    BY <2>2, CurrentIsAnOperation DEF InProgress, ActiveStates
  <2>4. /\ pc'[s] = "idle" /\ pc'[current.id] = "transition"
        /\ \A p \in Proc : p # s /\ p # current.id => pc'[p] = pc[p]
        /\ \A p \in Proc : p # s => snap'[p] = snap[p]
        /\ UNCHANGED <<sequence, current, ctx, work, result, parentDone>>
    BY <1>4, <2>2, <2>3 DEF StartRun, Forget, TypeOK
  <2>5. OperationIsOwned'
    BY <2>4 DEF OperationIsOwned, OwnedByRunner
  <2>6. current.id <= sequence /\ sequence \in Nat
    BY DEF PendingEventsAreOrdered, TypeOK, RegistryTypeOK
  <2>7. RunnersFollowTheRegistry'
    <3>1. ASSUME NEW i \in Ops, i # current.id
          PROVE  pc'[i] = pc[i] /\ snap'[i] = snap[i]
      BY <2>4, <3>1
    <3>2. ~(current.id > sequence)
      BY <2>3, <2>6
    <3>3. QED
      BY <2>2, <2>3, <2>4, <3>1, <3>2
      DEF OwnershipInvariant, RunnersFollowTheRegistry, OwnedByRunner, Resolved,
          InProgress
  <2>8. EndedContextsAreExplained'
    BY <2>4 DEF OwnershipInvariant, EndedContextsAreExplained
  <2>9. \A t \in Starters : ~Publishes(t)'
    BY <2>2, <2>3, <2>4 DEF Publishes
  <2>10. \A p \in Proc : pc'[p] = "release" =>
             snap'[p].state = "cancelling" \/ IsTerminal(snap'[p].state)
    BY <2>4 DEF OwnershipInvariant
  <2>11. QED
    BY <2>4, <2>5, <2>7, <2>8, <2>9, <2>10 DEF OwnershipInvariant
<1>5. QED
  BY <1>1, <1>2, <1>3, <1>4 DEF Start

(* Cancel moves the operation to "cancelling" and disturbs no owner.       *)
LEMMA OwnershipCancel ==
    ASSUME TypeOK, LifecycleIsExclusive, PendingEventsAreOrdered,
           OwnershipInvariant, NEW p \in Cancellers \cup {Main}, NEW from,
           NEW id \in Nat, CancelAccepted(p, from, id)
    PROVE  OwnershipInvariant'
<1> USE Kinds DEF Goto
<1>1. /\ current.state \in {"starting", "running"} /\ current \in Snapshots
      /\ InProgress /\ current.id \in Ops
  BY CurrentIsAnOperation
  DEF CancelAccepted, RegistryCancel, CanCancel, InProgress, ActiveStates,
      TypeOK, RegistryTypeOK, NoSnapshot
<1>2. /\ current'.id = current.id /\ current'.state = "cancelling"
      /\ UNCHANGED <<sequence, ctx, work, result, parentDone>>
  BY <1>1 DEF CancelAccepted, RegistryCancel, Snapshots
<1>3. /\ pc' = [pc EXCEPT ![p] = "release"]
      /\ snap' = [snap EXCEPT ![p] = current']
  BY DEF CancelAccepted
<1>4. \A q \in Starters \cup Ops : pc'[q] = pc[q] /\ snap'[q] = snap[q]
  BY <1>3 DEF TypeOK
<1>5. OperationIsOwned'
  BY <1>1, <1>2, <1>4
  DEF OwnershipInvariant, OperationIsOwned, OwnedByStarter, OwnedByRunner
<1>6. RunnersFollowTheRegistry'
  BY <1>1, <1>2, <1>4
  DEF OwnershipInvariant, RunnersFollowTheRegistry, OwnedByRunner, Resolved,
      InProgress, ActiveStates
<1>7. EndedContextsAreExplained'
  BY <1>2 DEF OwnershipInvariant, EndedContextsAreExplained
<1>8. \A q \in Proc : pc'[q] = "release" =>
          snap'[q].state = "cancelling" \/ IsTerminal(snap'[q].state)
  BY <1>2, <1>3 DEF OwnershipInvariant, TypeOK
<1>9. QED
  BY <1>1, <1>2, <1>4, <1>5, <1>6, <1>7, <1>8 DEF OwnershipInvariant, Publishes

(* A process that releases a context works for an operation that is        *)
(* cancelling or has ended.                                                *)
LEMMA ReleasedOperation ==
    ASSUME TypeOK, PendingEventsAreOrdered, OwnershipInvariant,
           NEW p \in Proc, pc[p] = "release", snap[p].id = current.id
    PROVE  current.state \notin {"starting", "running"}
<1>1. NoLaterThan(snap[p], current)
  BY DEF PendingEventsAreOrdered, Notifying
<1>2. snap[p].state = "cancelling" \/ IsTerminal(snap[p].state)
  BY DEF OwnershipInvariant
<1>3. current.id \in Nat
  BY DEF TypeOK, RegistryTypeOK, Snapshots, NoSnapshot
<1>4. CASE snap[p] = current
  BY <1>2, <1>4 DEF IsTerminal, TerminalStates
<1>5. CASE EventLog!Follows(snap[p], current)
  BY <1>2, <1>3, <1>5
  DEF EventLog!Follows, EventLog!LevelOf, IsTerminal, TerminalStates,
      EventLog!IsTerminal, EventLog!TerminalStates
<1>6. QED
  BY <1>1, <1>4, <1>5 DEF NoLaterThan

(* notify takes a starter to its spawn, a run goroutine to its spawn or    *)
(* its return, and changes neither the registry nor the owner.             *)
LEMMA OwnershipNotify ==
    ASSUME TypeOK, LifecycleIsExclusive, PendingEventsAreOrdered,
           OwnershipInvariant, NEW p \in Proc, Notify(p)
    PROVE  OwnershipInvariant'
<1> USE Kinds DEF Goto, registryVars
<1>1. CASE NotifyCurrent(p) \/ NotifyStale(p) \/ Emit(p)
  <2>1. /\ pc[p] \in {"notify", "emit"}
        /\ pc' = [pc EXCEPT ![p] = "emit"] \/ pc' = [pc EXCEPT ![p] = AfterNotify(p)]
        /\ UNCHANGED <<sequence, current, ctx, work, result, parentDone>>
        /\ \A q \in Starters \cup Ops : snap'[q] = snap[q]
    BY <1>1 DEF NotifyCurrent, NotifyStale, Emit, LeaveNotify, Forget, TypeOK
  <2>2. \A q \in Proc \ {p} : pc'[q] = pc[q]
    BY <2>1 DEF TypeOK
  <2>3. CASE p \in Starters
    <3>1. pc'[p] \in {"emit", "spawn"} /\ \A i \in Ops : pc'[i] = pc[i]
      BY <2>1, <2>2, <2>3 DEF AfterNotify, TypeOK
    <3>2. OperationIsOwned'
      BY <2>1, <2>2, <2>3, <3>1, CurrentIsAnOperation
      DEF OwnershipInvariant, OperationIsOwned, OwnedByStarter, OwnedByRunner,
          InProgress
    <3>3. RunnersFollowTheRegistry'
      BY <2>1, <3>1
      DEF OwnershipInvariant, RunnersFollowTheRegistry, OwnedByRunner, Resolved,
          InProgress
    <3>4. EndedContextsAreExplained'
      BY <2>1 DEF OwnershipInvariant, EndedContextsAreExplained
    <3>5. \A s \in Starters : Publishes(s)' => Publishes(s)
      BY <2>1, <2>2, <2>3 DEF Publishes
    <3>6. \A s \in Starters : Publishes(s)' =>
              /\ current'.id = snap'[s].id
              /\ current'.state \in {"starting", "cancelling"}
              /\ pc'[current'.id] = "idle"
      BY <2>1, <3>1, <3>5, CurrentIsAnOperation
      DEF OwnershipInvariant, InProgress, ActiveStates
    <3>7. \A q \in Proc : pc'[q] = "release" => q # p /\ pc[q] = "release"
      BY <2>2, <3>1
    <3>8. \A q \in Proc : pc'[q] = "release" => snap'[q] = snap[q]
      BY <1>1, <2>3, <3>7
      DEF NotifyCurrent, NotifyStale, Emit, LeaveNotify, Forget, TypeOK
    <3>9. QED
      BY <2>1, <3>2, <3>3, <3>4, <3>5, <3>6, <3>7, <3>8 DEF OwnershipInvariant
  <2>4. CASE p \in Ops
    <3>1. /\ snap[p].state = "running" => pc'[p] \in {"emit", "spawn"}
          /\ snap[p].state # "running" => pc'[p] \in {"emit", "return"}
      BY <2>1, <2>4 DEF AfterNotify, TypeOK
    <3>2. /\ OwnedByRunner(p)' <=> OwnedByRunner(p)
          /\ Resolved(p)' <=> Resolved(p)
          /\ pc[p] # "idle" /\ pc'[p] # "idle"
          /\ pc'[p] \notin {"transition", "finish", "release"}
          /\ pc[p] \notin {"transition", "finish", "release"}
      BY <2>1, <2>4, <3>1 DEF OwnedByRunner, Resolved
    <3>3. \A i \in Ops : i # p => pc'[i] = pc[i]
      BY <2>2
    <3>4. OperationIsOwned'
      BY <2>1, <2>2, <2>4, <3>2, <3>3, CurrentIsAnOperation
      DEF OwnershipInvariant, OperationIsOwned, OwnedByStarter, OwnedByRunner,
          InProgress
    <3>5. RunnersFollowTheRegistry'
      BY <2>1, <2>4, <3>2, <3>3
      DEF OwnershipInvariant, RunnersFollowTheRegistry, OwnedByRunner, Resolved,
          InProgress
    <3>6. EndedContextsAreExplained'
      BY <2>1 DEF OwnershipInvariant, EndedContextsAreExplained
    <3>7. \A s \in Starters : Publishes(s)' <=> Publishes(s)
      BY <2>2, <2>4 DEF Publishes
    <3>8. \A s \in Starters : Publishes(s)' =>
              /\ current'.id = snap'[s].id
              /\ current'.state \in {"starting", "cancelling"}
              /\ pc'[current'.id] = "idle"
      BY <2>1, <3>2, <3>3, <3>7, CurrentIsAnOperation
      DEF OwnershipInvariant, InProgress, ActiveStates
    <3>9. \A q \in Proc : pc'[q] = "release" => pc[q] = "release" /\ snap'[q] = snap[q]
      BY <1>1, <2>2, <2>4, <3>2
      DEF NotifyCurrent, NotifyStale, Emit, LeaveNotify, Forget
    <3>10. QED
      BY <2>1, <3>4, <3>5, <3>6, <3>7, <3>8, <3>9 DEF OwnershipInvariant
  <2>5. CASE p \in Cancellers \cup {Main}
    <3>1. pc'[p] # "release"
      BY <2>1, <2>5 DEF AfterNotify, TypeOK
    <3>2. \A q \in Proc : pc'[q] = "release" => q # p /\ pc[q] = "release"
      BY <2>2, <3>1
    <3>3. \A q \in Proc : pc'[q] = "release" => snap'[q] = snap[q]
      BY <1>1, <3>2
      DEF NotifyCurrent, NotifyStale, Emit, LeaveNotify, Forget, TypeOK
    <3>4. QED
      BY <2>1, <2>2, <2>5, <3>2, <3>3, OwnershipIsKept DEF OwnershipInvariant
  <2>6. QED
    BY <2>3, <2>4, <2>5 DEF Proc
<1>2. CASE ReleaseContext(p)
  <2>1. /\ pc[p] = "release" /\ pc' = [pc EXCEPT ![p] = "notify"]
        /\ UNCHANGED <<sequence, current, snap, work, result, parentDone>>
    BY <1>2 DEF ReleaseContext
  <2>2. \A i \in Ops : ctx'[i] = ctx[i] \/ (ctx'[i] = "canceled" /\ i = snap[p].id
                                             /\ ctx[i] = "live")
    BY <1>2 DEF ReleaseContext, CancelContext, TypeOK
  <2>3. EndedContextsAreExplained'
    BY <2>1, <2>2, ReleasedOperation
    DEF OwnershipInvariant, EndedContextsAreExplained
  <2>4. p \in Ops => snap[p].state # "running"
    BY <2>1 DEF OwnershipInvariant, IsTerminal, TerminalStates
  <2>5. ~Publishes(p)
    BY <2>1 DEF Publishes
  <2>6. /\ \A q \in Proc \ {p} : pc'[q] = pc[q]
        /\ pc'[p] = "notify"
    BY <2>1 DEF TypeOK
  <2>7. p \notin Starters
    BY <2>1 DEF OwnershipInvariant
  <2>8. OperationIsOwned'
    BY <2>1, <2>6, <2>7, CurrentIsAnOperation
    DEF OwnershipInvariant, OperationIsOwned, OwnedByStarter, OwnedByRunner,
        InProgress
  <2>9. RunnersFollowTheRegistry'
    BY <2>1, <2>2, <2>4, <2>6
    DEF OwnershipInvariant, RunnersFollowTheRegistry, OwnedByRunner, Resolved,
        InProgress
  <2>10. \A s \in Starters : Publishes(s)' =>
             /\ current'.id = snap'[s].id
             /\ current'.state \in {"starting", "cancelling"}
             /\ pc'[current'.id] = "idle"
    BY <2>1, <2>6, <2>7, CurrentIsAnOperation
    DEF OwnershipInvariant, Publishes, InProgress, ActiveStates
  <2>11. QED
    BY <2>1, <2>3, <2>6, <2>7, <2>8, <2>9, <2>10 DEF OwnershipInvariant, Publishes
<1>3. QED
  BY <1>1, <1>2 DEF Notify

(* Only pc[i], snap[i] and the answer of i change in a step of run         *)
(* goroutine i that leaves the registry and the contexts alone.            *)
LEMMA OwnershipRunStep ==
    ASSUME TypeOK, LifecycleIsExclusive, PendingEventsAreOrdered,
           OwnershipInvariant, NEW i \in Ops,
           UNCHANGED <<sequence, current, ctx, parentDone>>,
           \A p \in Proc \ {i} : pc'[p] = pc[p] /\ snap'[p] = snap[p],
           \A j \in Ops \ {i} : work'[j] = work[j] /\ result'[j] = result[j],
           result'[i] \subseteq result[i],
           OwnedByRunner(i), OwnedByRunner(i)',
           pc[i] = "transition" \/ pc'[i] # "transition",
           pc'[i] # "release",
           pc[i] # "transition" \/ current.state = "cancelling",
           pc'[i] = "finish" =>
               /\ IsTerminal(snap'[i].state)
               /\ snap'[i].state = "cancelled" => current.state = "cancelling"
    PROVE  OwnershipInvariant'
<1> USE Kinds
<1>1. /\ InProgress /\ current.id = i
      /\ current.state # "starting"
  BY DEF OwnershipInvariant, RunnersFollowTheRegistry
<1>2. pc[i] # "idle" /\ pc'[i] # "idle" /\ ~Resolved(i)'
  BY DEF OwnedByRunner, Resolved
<1>3. OperationIsOwned'
  BY <1>1 DEF OperationIsOwned
<1>4. ~(i > sequence)
  BY <1>2 DEF OwnershipInvariant, RunnersFollowTheRegistry
<1>5. RunnersFollowTheRegistry'
  <2>1. ASSUME NEW j \in Ops \ {i}
        PROVE  /\ pc'[j] = pc[j] /\ snap'[j] = snap[j]
               /\ work'[j] = work[j] /\ result'[j] = result[j]
               /\ OwnedByRunner(j)' <=> OwnedByRunner(j)
               /\ Resolved(j)' <=> Resolved(j)
    BY DEF OwnedByRunner, Resolved
  <2>2. pc'[i] = "transition" => current.state # "running"
    BY DEF OwnershipInvariant, RunnersFollowTheRegistry
  <2>3. QED
    BY <1>1, <1>2, <1>4, <2>1, <2>2
    DEF OwnershipInvariant, RunnersFollowTheRegistry, InProgress
<1>6. EndedContextsAreExplained'
  BY DEF OwnershipInvariant, EndedContextsAreExplained
<1>7. \A s \in Starters : ~Publishes(s)
  BY <1>1, <1>2 DEF OwnershipInvariant
<1>8. \A s \in Starters : ~Publishes(s)'
  BY <1>7 DEF Publishes
<1>9. QED
  BY <1>3, <1>5, <1>6, <1>8 DEF OwnershipInvariant

LEMMA OwnershipRun ==
    ASSUME TypeOK, LifecycleIsExclusive, PendingEventsAreOrdered,
           OwnershipInvariant, NEW i \in Ops, Run(i)
    PROVE  OwnershipInvariant'
<1> USE Kinds DEF Goto, registryVars
<1>1. \A p \in Proc \ {i} : pc'[p] = pc[p] /\ snap'[p] = snap[p]
  BY DEF Run, RunTransition, RunAbandon, RunSpawnWorkflow, RunSelectResult,
     RunSelectContext, RunFinish, RunFinishRefused, RunReturn, Forget, TypeOK
<1>2. CASE RunTransition(i)
  <2>1. /\ current.state = "starting" /\ current.id = i /\ InProgress
        /\ current \in Snapshots
    BY <1>2 DEF RunTransition, RegistryTransition, CanTransition, InProgress,
       ActiveStates, TypeOK, RegistryTypeOK, NoSnapshot
  <2>2. /\ current'.id = i /\ current'.state = "running"
        /\ pc'[i] = "notify" /\ snap'[i] = current' /\ pc[i] = "transition"
        /\ UNCHANGED <<sequence, ctx, work, result, parentDone>>
    BY <1>2, <2>1 DEF RunTransition, RegistryTransition, Snapshots, TypeOK
  <2>3. OwnedByRunner(i) /\ OwnedByRunner(i)' /\ ~Resolved(i)'
    BY <2>2 DEF OwnedByRunner, Resolved
  <2>4. OperationIsOwned'
    BY <2>2, <2>3 DEF OperationIsOwned
  <2>5. RunnersFollowTheRegistry'
    <3>1. ASSUME NEW j \in Ops \ {i}
          PROVE  /\ pc'[j] = pc[j] /\ snap'[j] = snap[j]
                 /\ ~OwnedByRunner(j) /\ ~OwnedByRunner(j)'
      BY <1>1, <2>1 DEF OwnershipInvariant, RunnersFollowTheRegistry, OwnedByRunner
    <3>2. \A j \in Ops \ {i} : pc'[j] \notin {"transition", "finish"}
      BY <3>1 DEF OwnedByRunner
    <3>3. ~(i > sequence)
      BY <2>2 DEF OwnershipInvariant, RunnersFollowTheRegistry
    <3>4. QED
      BY <2>2, <2>3, <3>1, <3>2, <3>3
      DEF OwnershipInvariant, RunnersFollowTheRegistry, InProgress, ActiveStates
  <2>6. ctx[i] # "canceled"
    BY <2>1 DEF OwnershipInvariant, EndedContextsAreExplained
  <2>7. EndedContextsAreExplained'
    BY <2>2, <2>6 DEF OwnershipInvariant, EndedContextsAreExplained
  <2>8. \A s \in Starters : ~Publishes(s)
    BY <2>1, <2>2 DEF OwnershipInvariant
  <2>9. \A s \in Starters : ~Publishes(s)' /\ pc'[s] # "release"
    BY <1>1, <2>8 DEF Publishes, OwnershipInvariant
  <2>10. QED
    BY <1>1, <2>2, <2>4, <2>5, <2>7, <2>9 DEF OwnershipInvariant
<1>3. CASE RunAbandon(i)
  <2>1. /\ pc[i] = "transition" /\ pc'[i] = "finish" /\ snap'[i].state = "cancelled"
        /\ UNCHANGED <<sequence, current, ctx, work, result, parentDone>>
    BY <1>3 DEF RunAbandon, TypeOK, SnapshotOf
  <2>2. OwnedByRunner(i) /\ OwnedByRunner(i)'
    BY <2>1 DEF OwnedByRunner
  <2>3. current.state = "cancelling"
    BY <1>3, <2>1, <2>2
    DEF RunAbandon, CanTransition, OwnershipInvariant, RunnersFollowTheRegistry,
        InProgress, ActiveStates
  <2>4. QED
    BY <1>1, <2>1, <2>2, <2>3, OwnershipRunStep DEF IsTerminal, TerminalStates
<1>4. CASE RunSpawnWorkflow(i)
  <2>1. /\ pc[i] = "spawn" /\ pc'[i] = "select"
        /\ UNCHANGED <<sequence, current, ctx, result, parentDone>>
        /\ \A j \in Ops \ {i} : work'[j] = work[j]
    BY <1>4 DEF RunSpawnWorkflow, TypeOK
  <2>2. QED
    BY <1>1, <2>1, OwnershipRunStep DEF OwnedByRunner
<1>5. CASE RunSelectResult(i)
  <2>1. /\ pc[i] = "select" /\ pc'[i] = "finish"
        /\ UNCHANGED <<sequence, current, ctx, work, parentDone>>
        /\ \A j \in Ops \ {i} : result'[j] = result[j]
        /\ result'[i] = {}
    BY <1>5 DEF RunSelectResult, TypeOK
  <2>2. OwnedByRunner(i) /\ OwnedByRunner(i)'
    BY <2>1 DEF OwnedByRunner
  <2>3. PICK answer \in result[i] :
            snap'[i] = SnapshotOf(i, TerminalState(answer), TerminalCode(answer))
    BY <1>5 DEF RunSelectResult, TypeOK
  <2>4. answer \in WorkflowResultType
    BY DEF TypeOK
  <2>5. /\ IsTerminal(snap'[i].state)
        /\ snap'[i].state = "cancelled" => answer.outcome = "cancelled"
    BY <2>3, <2>4 DEF SnapshotOf, TerminalState, IsTerminal, TerminalStates,
       WorkflowResultType, Outcomes
  <2>6. answer.outcome = "cancelled" => current.state = "cancelling"
    BY <2>2 DEF OwnershipInvariant, EndedContextsAreExplained,
       RunnersFollowTheRegistry, InProgress, ActiveStates
  <2>7. QED
    BY <1>1, <2>1, <2>2, <2>5, <2>6, OwnershipRunStep
<1>6. CASE RunSelectContext(i)
  <2>1. /\ pc[i] = "select" /\ pc'[i] = "finish"
        /\ snap'[i].state = ContextTerminalState(ctx[i])
        /\ ctx[i] \in {"canceled", "deadline"}
        /\ UNCHANGED <<sequence, current, ctx, work, result, parentDone>>
    BY <1>6 DEF RunSelectContext, TypeOK, SnapshotOf
  <2>2. OwnedByRunner(i) /\ OwnedByRunner(i)'
    BY <2>1 DEF OwnedByRunner
  <2>3. /\ IsTerminal(snap'[i].state)
        /\ snap'[i].state = "cancelled" => current.state = "cancelling"
    BY <2>1, <2>2
    DEF OwnershipInvariant, EndedContextsAreExplained, RunnersFollowTheRegistry,
        ContextTerminalState, IsTerminal, TerminalStates, InProgress, ActiveStates
  <2>4. QED
    BY <1>1, <2>1, <2>2, <2>3, OwnershipRunStep
<1>7. CASE RunFinish(i)
  <2>1. OwnedByRunner(i) /\ pc[i] = "finish" /\ pc'[i] = "release"
    BY <1>7 DEF RunFinish, OwnedByRunner, TypeOK
  <2>2. InProgress /\ current.id = i
    BY <2>1 DEF OwnershipInvariant, RunnersFollowTheRegistry
  <2>3. /\ current'.id = i /\ IsTerminal(current'.state) /\ snap'[i] = current'
        /\ UNCHANGED <<sequence, ctx, work, result, parentDone>>
    <3>1. CanTransition(current.state, current'.state) /\ current'.id = i
      BY <1>7 DEF RunFinish, RegistryFinish, CanFinish, SnapshotOf
    <3>2. IsTerminal(Resolution(snap[i].state, snap[i].code).state)
      BY <2>1 DEF Resolution, OwnershipInvariant, RunnersFollowTheRegistry,
         IsTerminal, TerminalStates
    <3>3. QED
      BY <1>7, <3>1, <3>2 DEF RunFinish, RegistryFinish, SnapshotOf, TypeOK
  <2>4. current'.state \notin ActiveStates
    BY <2>3 DEF IsTerminal, TerminalStates, ActiveStates
  <2>5. \A j \in Ops \ {i} : ~OwnedByRunner(j)
    BY <2>2 DEF OwnershipInvariant, RunnersFollowTheRegistry
  <2>6. \A s \in Starters : ~Publishes(s)
    BY <2>1, <2>2 DEF OwnershipInvariant
  <2>7. RunnersFollowTheRegistry'
    <3>1. ASSUME NEW j \in Ops PROVE ~OwnedByRunner(j)'
      BY <1>1, <2>1, <2>5 DEF OwnedByRunner
    <3>2. \A j \in Ops : pc'[j] \notin {"transition", "finish"}
      BY <3>1 DEF OwnedByRunner
    <3>3. ~(i > sequence)
      BY <2>1 DEF OwnershipInvariant, RunnersFollowTheRegistry
    <3>4. QED
      BY <1>1, <2>3, <2>4, <3>1, <3>2, <3>3
      DEF OwnershipInvariant, RunnersFollowTheRegistry, InProgress
  <2>8. EndedContextsAreExplained'
    BY <2>3, <2>4 DEF OwnershipInvariant, EndedContextsAreExplained, ActiveStates
  <2>9. \A s \in Starters : ~Publishes(s)' /\ pc'[s] # "release"
    BY <1>1, <2>6 DEF Publishes, OwnershipInvariant
  <2>10. QED
    BY <1>1, <2>3, <2>4, <2>7, <2>8, <2>9
    DEF OwnershipInvariant, OperationIsOwned, InProgress
<1>8. CASE RunFinishRefused(i)
  <2>1. OwnedByRunner(i) /\ pc[i] = "finish"
    BY <1>8 DEF RunFinishRefused, OwnedByRunner
  <2>2. /\ current.id = i /\ current.state \in {"running", "cancelling"}
        /\ IsTerminal(snap[i].state)
        /\ snap[i].state = "cancelled" => current.state = "cancelling"
    BY <2>1 DEF OwnershipInvariant, RunnersFollowTheRegistry, InProgress, ActiveStates
  <2>3. CanFinish(i, snap[i].state, snap[i].code)
    BY <2>2 DEF CanFinish, Resolution, CanTransition, IsTerminal, TerminalStates
  <2>4. QED
    BY <1>8, <2>3 DEF RunFinishRefused
<1>9. CASE RunReturn(i)
  <2>1. /\ pc[i] = "return" /\ pc'[i] = "done"
        /\ UNCHANGED <<sequence, current, work, parentDone>>
        /\ result'[i] = {}
    BY <1>9 DEF RunReturn, TypeOK
  <2>2. /\ \A j \in Ops \ {i} : ctx'[j] = ctx[j] /\ result'[j] = result[j]
        /\ Resolved(i) /\ Resolved(i)' /\ ~OwnedByRunner(i) /\ ~OwnedByRunner(i)'
    BY <1>9, <2>1 DEF RunReturn, CancelContext, Resolved, OwnedByRunner, TypeOK
  <2>3. ~(current.id = i /\ InProgress) /\ ~(i > sequence)
    BY <2>1, <2>2 DEF OwnershipInvariant, RunnersFollowTheRegistry
  <2>4. \A j \in Ops \ {i} : /\ OwnedByRunner(j)' <=> OwnedByRunner(j)
                             /\ Resolved(j)' <=> Resolved(j)
    BY <1>1 DEF OwnedByRunner, Resolved
  <2>5. OperationIsOwned'
    BY <1>1, <2>1, <2>2, <2>3, <2>4, CurrentIsAnOperation
    DEF OwnershipInvariant, OperationIsOwned, OwnedByStarter, InProgress
  <2>6. RunnersFollowTheRegistry'
    BY <1>1, <2>1, <2>2, <2>3, <2>4
    DEF OwnershipInvariant, RunnersFollowTheRegistry, InProgress
  <2>7. EndedContextsAreExplained'
    BY <2>1, <2>2, <2>3
    DEF OwnershipInvariant, EndedContextsAreExplained, InProgress, ActiveStates
  <2>8. \A s \in Starters : Publishes(s)' <=> Publishes(s)
    BY <1>1 DEF Publishes
  <2>9. \A s \in Starters : Publishes(s)' => pc'[current'.id] = "idle"
    BY <1>1, <2>1, <2>8, CurrentIsAnOperation
    DEF OwnershipInvariant, InProgress, ActiveStates
  <2>10. QED
    BY <1>1, <2>1, <2>5, <2>6, <2>7, <2>8, <2>9 DEF OwnershipInvariant
<1>10. QED
  BY <1>2, <1>3, <1>4, <1>5, <1>6, <1>7, <1>8, <1>9 DEF Run

(* The workflow goroutine and the deadline: a context that is cancelled    *)
(* stays cancelled, a "cancelled" answer is given only of such a context.  *)
LEMMA OwnershipWorkflowAndDeadline ==
    ASSUME TypeOK, LifecycleIsExclusive, PendingEventsAreOrdered,
           OwnershipInvariant, NEW i \in Ops,
           WorkReturn(i) \/ WorkExit(i) \/ Deadline(i)
    PROVE  OwnershipInvariant'
<1> USE Kinds DEF registryVars, goroutines
<1>1. UNCHANGED <<sequence, current, pc, snap, parentDone>>
  BY DEF WorkReturn, WorkAnswer, WorkExit, Deadline
<1>2. /\ \A j \in Ops : ctx'[j] = ctx[j] \/ (ctx[j] = "live" /\ ctx'[j] = "deadline")
      /\ \A j \in Ops : result'[j] \subseteq result[j]
             \/ (work[j] = "running" /\ \A a \in result'[j] :
                     a.outcome = "cancelled" => ctx'[j] = "canceled")
  BY DEF WorkReturn, WorkAnswer, MayAnswer, AgreesWithContext, WorkExit, Deadline, TypeOK
<1>3. \A j \in Ops : j > sequence =>
          ctx'[j] = "none" /\ work'[j] = "none" /\ result'[j] = {}
  <2>1. ASSUME NEW j \in Ops, j > sequence
        PROVE  work[j] = "none" /\ ctx[j] = "none" /\ result[j] = {}
    BY <2>1 DEF OwnershipInvariant, RunnersFollowTheRegistry
  <2>2. \A j \in Ops : work[j] = "none" => work'[j] = "none"
    BY DEF WorkReturn, WorkAnswer, WorkExit, Deadline, TypeOK
  <2>3. QED
    BY <1>2, <2>1, <2>2
<1>4. OperationIsOwned'
  BY <1>1 DEF OwnershipInvariant, OperationIsOwned, InProgress, OwnedByStarter,
     OwnedByRunner
<1>5. RunnersFollowTheRegistry'
  BY <1>1, <1>3 DEF OwnershipInvariant, RunnersFollowTheRegistry, InProgress,
     OwnedByRunner, Resolved
<1>6. EndedContextsAreExplained'
  BY <1>1, <1>2 DEF OwnershipInvariant, EndedContextsAreExplained
<1>7. QED
  BY <1>1, <1>4, <1>5, <1>6 DEF OwnershipInvariant, Publishes

LEMMA OwnershipShutdown ==
    ASSUME TypeOK, LifecycleIsExclusive, PendingEventsAreOrdered,
           OwnershipInvariant, Shutdown
    PROVE  OwnershipInvariant'
<1> USE Kinds DEF registryVars, goroutines, Goto
<1>1. CASE ShutdownCancel
  <2>1. snap[Main].id \in Nat
    BY DEF TypeOK, Snapshots, NoSnapshot
  <2>2. QED
    BY <1>1, <2>1, OwnershipCancel DEF ShutdownCancel
<1>2. ASSUME ~ShutdownCancel
      PROVE  /\ UNCHANGED <<sequence, current, ctx, work, result, parentDone>>
             /\ \A p \in Starters \cup Ops : pc'[p] = pc[p] /\ snap'[p] = snap[p]
             /\ \A p \in Proc : pc'[p] = "release" =>
                    pc[p] = "release" /\ snap'[p] = snap[p]
  BY <1>2 DEF Shutdown, ShutdownLock, ShutdownCurrent, ShutdownCancelRefused,
     ShutdownUnlock, Drain, ShutdownReturn, ShutdownExpire, Forget, TypeOK
<1>3. QED
  BY <1>1, <1>2, OwnershipIsKept DEF OwnershipInvariant

LEMMA OwnershipStep ==
    ASSUME TypeOK, LifecycleIsExclusive,
           PendingEventsAreOrdered, OwnershipInvariant, [ServiceNext]_vars
    PROVE  OwnershipInvariant'
<1> USE Kinds
<1>1. ASSUME NEW p \in Proc, Notify(p) PROVE OwnershipInvariant'
  BY <1>1, OwnershipNotify
<1>2. ASSUME NEW s \in Starters, Start(s) PROVE OwnershipInvariant'
  BY <1>2, OwnershipStart
<1>3. ASSUME NEW c \in Cancellers, Cancel(c) PROVE OwnershipInvariant'
  BY <1>3, OwnershipCancel DEF Cancel
<1>4. ASSUME NEW i \in Ops, OperationStep(i) PROVE OwnershipInvariant'
  BY <1>4, OwnershipRun, OwnershipWorkflowAndDeadline DEF OperationStep
<1>5. CASE Shutdown
  BY <1>5, OwnershipShutdown
<1>6. CASE Rest \/ UNCHANGED vars
  BY <1>6, OwnershipIsKept DEF Rest, vars, OwnershipInvariant
<1>7. QED
  BY <1>1, <1>2, <1>3, <1>4, <1>5, <1>6 DEF ServiceNext, OperationStep

(* Once the parent of the contexts has ended, it has ended for good.       *)
LEMMA ParentStaysDone ==
    ASSUME parentDone, [Next]_vars
    PROVE  parentDone'
<1>1. ASSUME NEW p \in Proc, Notify(p) PROVE parentDone'
  BY <1>1 DEF Notify, NotifyCurrent, NotifyStale, Emit, ReleaseContext
<1>2. ASSUME NEW s \in Starters, Start(s) PROVE parentDone'
  BY <1>2 DEF Start, StartLock, StartRegistered, StartRefused, StartRun
<1>3. ASSUME NEW i \in Ops, OperationStep(i) PROVE parentDone'
  BY <1>3 DEF OperationStep, Run, RunTransition, RunAbandon, RunSpawnWorkflow,
     RunSelectResult, RunSelectContext, RunFinish, RunFinishRefused, RunReturn,
     WorkReturn, WorkAnswer, WorkExit, Deadline
<1>4. CASE Shutdown
  BY <1>4 DEF Shutdown, ShutdownLock, ShutdownCurrent, ShutdownCancel,
     CancelAccepted, ShutdownCancelRefused, ShutdownUnlock, Drain,
     ShutdownReturn, ShutdownExpire
<1>5. ASSUME NEW c \in Cancellers, Cancel(c) PROVE parentDone'
  BY <1>5 DEF Cancel, CancelAccepted
<1>6. QED
  BY <1>1, <1>2, <1>3, <1>4, <1>5
  DEF Next, ServiceNext, OperationStep, ParentCancel, Rest, vars

(***************************************************************************)
(* Until the parent of its context ends, every operation in progress has a *)
(* goroutine on its way to finish it (service.go:72-85,151-201).           *)
(***************************************************************************)
THEOREM OperationOwned == Spec => []OperationIsOwned
<1> DEFINE OwnedWhileItMatters == parentDone \/ OwnershipInvariant
<1>1. Init => OwnedWhileItMatters
  BY OwnershipInit
<1>2. TypeOK /\ LifecycleIsExclusive /\ PendingEventsAreOrdered
      /\ OwnedWhileItMatters /\ [Next]_vars => OwnedWhileItMatters'
  <2> SUFFICES ASSUME TypeOK, LifecycleIsExclusive, PendingEventsAreOrdered,
                      OwnedWhileItMatters, [Next]_vars
               PROVE  OwnedWhileItMatters'
    OBVIOUS
  <2>1. CASE parentDone
    BY <2>1, ParentStaysDone
  <2>2. CASE ParentCancel
    BY <2>2 DEF ParentCancel
  <2>3. CASE OwnershipInvariant /\ [ServiceNext]_vars
    BY <2>3, OwnershipStep
  <2>4. QED
    BY <2>1, <2>2, <2>3 DEF Next
<1>3. OwnedWhileItMatters => OperationIsOwned
  BY DEF OwnershipInvariant, OperationIsOwned
<1>4. QED
  BY <1>1, <1>2, <1>3, TypeCorrect, LifecycleExclusive, PendingEventsOrdered,
     PTL DEF Spec

-----------------------------------------------------------------------------
(***************************************************************************)
(* Why an operation ended, and that what it leaves running has been told:  *)
(* under the product's context, which nothing cancels (ProductSpec).       *)
(***************************************************************************)

(* What the run goroutine is about to ask for follows from the answer or   *)
(* from the end of the context.                                            *)
RequestsAreExplained ==
    \A i \in Ops :
        /\ Unstarted(i) => work[i] = "none"
        /\ result[i] # {} => work[i] \in {"answered", "done"}
        /\ \A answer \in result[i] : answer.outcome = "timed_out" => ctx[i] = "deadline"
        /\ pc[i] = "finish" =>
               /\ work[i] = "running" => ctx[i] # "live"
               /\ snap[i].state = "timed_out" => ctx[i] = "deadline"
               /\ snap[i].state \in {"completed", "failed"} =>
                      work[i] \in {"answered", "done"}
               /\ snap[i].code # "none" <=> snap[i].state = "failed"

ResolutionInvariant ==
    /\ RequestsAreExplained
    /\ LeftoverWorkflowIsSignalled
    /\ TerminalStateIsExplained

LEMMA RecordedIsAnOperation ==
    ASSUME TypeOK, LifecycleIsExclusive, PendingEventsAreOrdered,
           current # NoSnapshot
    PROVE  current.id \in Ops
<1>1. current \in Snapshots
  BY DEF TypeOK, RegistryTypeOK
<1>2. current.id \in Nat \ {0} /\ current.id <= MaxOps
  BY <1>1 DEF Snapshots, LifecycleIsExclusive, PendingEventsAreOrdered
<1>3. QED
  BY <1>2, BoundsAssumption DEF Ops

(* Contexts end once, workflows answer once and truthfully; as long as no  *)
(* run goroutine comes to its request, nothing has to be explained anew.   *)
LEMMA ResolutionIsKept ==
    ASSUME TypeOK, LifecycleIsExclusive, PendingEventsAreOrdered,
           ResolutionInvariant,
           \/ current' = current
           \/ /\ InProgress /\ InProgress'
              /\ current'.id = current.id /\ current'.code = current.code,
           \A i \in Ops : \/ ctx'[i] = ctx[i]
                          \/ ctx[i] = "live" /\ ctx'[i] # "live",
           \A i \in Ops : \/ work'[i] = work[i]
                          \/ work[i] \in {"running", "answered"}
                             /\ work'[i] \in {"answered", "done"},
           \A i \in Ops : \/ result'[i] \subseteq result[i]
                          \/ /\ work'[i] = "answered"
                             /\ \A answer \in result'[i] :
                                    answer.outcome = "timed_out" => ctx'[i] = "deadline",
           \A i \in Ops : \/ pc'[i] = pc[i] /\ snap'[i] = snap[i]
                          \/ (Unstarted(i)' => Unstarted(i)) /\ pc'[i] # "finish"
    PROVE  ResolutionInvariant'
<1>1. RequestsAreExplained'
  BY DEF ResolutionInvariant, RequestsAreExplained, Unstarted
<1>2. LeftoverWorkflowIsSignalled'
  BY DEF ResolutionInvariant, LeftoverWorkflowIsSignalled, InProgress
<1>3. TerminalStateIsExplained'
  <2>1. CASE current' = current /\ current # NoSnapshot
    BY <2>1, RecordedIsAnOperation
    DEF ResolutionInvariant, TerminalStateIsExplained
  <2>2. CASE current' = current /\ current = NoSnapshot
    BY <2>2 DEF TerminalStateIsExplained, NoSnapshot
  <2>3. CASE InProgress /\ InProgress' /\ current'.code = current.code
    BY <2>3
    DEF ResolutionInvariant, TerminalStateIsExplained, InProgress, ActiveStates
  <2>4. QED
    BY <2>1, <2>2, <2>3
<1>4. QED
  BY <1>1, <1>2, <1>3 DEF ResolutionInvariant

LEMMA ResolutionInit == Init => ResolutionInvariant
BY Kinds DEF Init, NewRegistry, NoSnapshot, ResolutionInvariant,
   RequestsAreExplained, Unstarted, LeftoverWorkflowIsSignalled,
   TerminalStateIsExplained

LEMMA ResolutionNotify ==
    ASSUME TypeOK, LifecycleIsExclusive, PendingEventsAreOrdered,
           OwnershipInvariant, ResolutionInvariant, NEW p \in Proc, Notify(p)
    PROVE  ResolutionInvariant'
<1> USE Kinds DEF registryVars, Goto
<1>1. UNCHANGED <<current, work, result>>
  BY DEF Notify, NotifyCurrent, NotifyStale, Emit, ReleaseContext
<1>2. \A i \in Ops : ctx'[i] = ctx[i] \/ (ctx[i] = "live" /\ ctx'[i] # "live")
  BY DEF Notify, NotifyCurrent, NotifyStale, Emit, ReleaseContext, CancelContext, TypeOK
<1>3. \A i \in Ops : \/ pc'[i] = pc[i] /\ snap'[i] = snap[i]
                     \/ (Unstarted(i)' => Unstarted(i)) /\ pc'[i] # "finish"
  <2> SUFFICES ASSUME NEW i \in Ops
               PROVE  \/ pc'[i] = pc[i] /\ snap'[i] = snap[i]
                      \/ (Unstarted(i)' => Unstarted(i)) /\ pc'[i] # "finish"
    OBVIOUS
  <2>1. snap'[i] = snap[i]
    BY DEF Notify, NotifyCurrent, NotifyStale, Emit, ReleaseContext, LeaveNotify,
       Forget, TypeOK
  <2>2. CASE p # i
    BY <2>1, <2>2 DEF Notify, NotifyCurrent, NotifyStale, Emit, ReleaseContext, TypeOK
  <2>3. CASE p = i /\ ReleaseContext(p)
    BY <2>1, <2>3
    DEF ReleaseContext, OwnershipInvariant, Unstarted, IsTerminal, TerminalStates, TypeOK
  <2>4. CASE p = i /\ ~ReleaseContext(p)
    <3>1. pc[i] \in {"notify", "emit"}
      BY <2>4 DEF Notify, NotifyCurrent, NotifyStale, Emit
    <3>2. AfterNotify(i) = IF snap[i].state = "running" THEN "spawn" ELSE "return"
      BY DEF AfterNotify
    <3>3. pc'[i] \in {"emit", AfterNotify(i)}
      BY <2>4 DEF Notify, NotifyCurrent, NotifyStale, Emit, TypeOK
    <3>4. QED
      BY <2>1, <3>1, <3>2, <3>3 DEF Unstarted
  <2>5. QED
    BY <2>2, <2>3, <2>4
<1>4. QED
  BY <1>1, <1>2, <1>3, ResolutionIsKept

LEMMA ResolutionStart ==
    ASSUME TypeOK, LifecycleIsExclusive, PendingEventsAreOrdered,
           OwnershipInvariant, ResolutionInvariant, NEW s \in Starters, Start(s)
    PROVE  ResolutionInvariant'
<1> USE Kinds DEF registryVars, Goto
<1>1. CASE StartLock(s) \/ StartRefused(s)
  <2>1. /\ UNCHANGED <<current, ctx, work, result, snap>>
        /\ \A i \in Ops : pc'[i] = pc[i]
    BY <1>1 DEF StartLock, StartRefused, TypeOK
  <2>2. QED
    BY <2>1, ResolutionIsKept
<1>2. CASE StartRun(s)
  <2>1. /\ Publishes(s)
        /\ pc' = [pc EXCEPT ![s] = "idle", ![snap[s].id] = "transition"]
        /\ snap' = [snap EXCEPT ![s] = NoSnapshot]
        /\ UNCHANGED <<current, ctx, work, result>>
    BY <1>2 DEF StartRun, Publishes, Forget
  <2>2. pc[snap[s].id] = "idle"
    BY <2>1 DEF OwnershipInvariant
  <2>3. \A i \in Ops : \/ pc'[i] = pc[i] /\ snap'[i] = snap[i]
                       \/ Unstarted(i) /\ pc'[i] # "finish"
    BY <2>1, <2>2 DEF Unstarted, TypeOK
  <2>4. QED
    BY <2>1, <2>3, ResolutionIsKept
<1>3. CASE StartRegistered(s)
  <2> DEFINE new == sequence + 1
  <2>1. /\ ~InProgress /\ sequence \in Nat /\ current.id = sequence
        /\ current' = SnapshotOf(new, "starting", "none")
        /\ ctx' = [ctx EXCEPT ![new] = IF parentDone THEN "canceled" ELSE "live"]
        /\ \A i \in Ops : pc'[i] = pc[i] /\ snap'[i] = snap[i]
        /\ UNCHANGED <<work, result>>
    BY <1>3 DEF StartRegistered, RegistryStart, PendingEventsAreOrdered, TypeOK,
       RegistryTypeOK
  <2>2. \A i \in Ops : i # new => ctx'[i] = ctx[i]
    BY <2>1 DEF TypeOK
  <2>3. new \in Ops => /\ pc[new] = "idle" /\ work[new] = "none" /\ result[new] = {}
    BY <2>1 DEF OwnershipInvariant, RunnersFollowTheRegistry
  <2>4. RequestsAreExplained'
    BY <2>1, <2>2, <2>3 DEF ResolutionInvariant, RequestsAreExplained, Unstarted
  <2>5. LeftoverWorkflowIsSignalled'
    BY <2>1, <2>2, <2>3 DEF ResolutionInvariant, LeftoverWorkflowIsSignalled
  <2>6. TerminalStateIsExplained'
    BY <2>1 DEF TerminalStateIsExplained, SnapshotOf
  <2>7. QED
    BY <2>4, <2>5, <2>6 DEF ResolutionInvariant
<1>4. QED
  BY <1>1, <1>2, <1>3 DEF Start

LEMMA ResolutionCancel ==
    ASSUME TypeOK, LifecycleIsExclusive, PendingEventsAreOrdered,
           ResolutionInvariant, NEW p \in Cancellers \cup {Main},
           NEW from, NEW id, CancelAccepted(p, from, id)
    PROVE  ResolutionInvariant'
<1> USE Kinds DEF registryVars, Goto
<1>1. /\ InProgress /\ current \in Snapshots
      /\ current' = [current EXCEPT !.state = "cancelling"]
      /\ UNCHANGED <<ctx, work, result>>
      /\ \A i \in Ops : pc'[i] = pc[i] /\ snap'[i] = snap[i]
  BY DEF CancelAccepted, RegistryCancel, CanCancel, InProgress, ActiveStates,
     TypeOK, RegistryTypeOK, NoSnapshot
<1>2. InProgress' /\ current'.id = current.id /\ current'.code = current.code
  BY <1>1 DEF Snapshots, InProgress, ActiveStates
<1>3. QED
  BY <1>1, <1>2, ResolutionIsKept

LEMMA ResolutionRun ==
    ASSUME TypeOK, LifecycleIsExclusive, PendingEventsAreOrdered,
           OwnershipInvariant, ResolutionInvariant, NEW i \in Ops, Run(i)
    PROVE  ResolutionInvariant'
<1> USE Kinds DEF Goto, registryVars
<1>1. \A j \in Ops \ {i} : pc'[j] = pc[j] /\ snap'[j] = snap[j]
  BY DEF Run, RunTransition, RunAbandon, RunSpawnWorkflow, RunSelectResult,
     RunSelectContext, RunFinish, RunFinishRefused, RunReturn, Forget, TypeOK
<1>2. CASE RunTransition(i)
  <2>1. /\ InProgress /\ current \in Snapshots /\ pc[i] = "transition"
        /\ pc'[i] = "notify" /\ UNCHANGED <<ctx, work, result>>
        /\ current' = [current EXCEPT !.state = "running"]
    BY <1>2 DEF RunTransition, RegistryTransition, CanTransition, InProgress,
       ActiveStates, TypeOK, RegistryTypeOK, NoSnapshot
  <2>2. InProgress' /\ current'.id = current.id /\ current'.code = current.code
    BY <2>1 DEF Snapshots, InProgress, ActiveStates
  <2>3. QED
    BY <1>1, <2>1, <2>2, ResolutionIsKept DEF Unstarted
<1>3. CASE RunAbandon(i) \/ RunSelectResult(i) \/ RunSelectContext(i)
  <2>1. /\ UNCHANGED <<current, ctx, work>>
        /\ \A j \in Ops : result'[j] \subseteq result[j]
        /\ pc'[i] = "finish"
    BY <1>3 DEF RunAbandon, RunSelectResult, RunSelectContext, TypeOK
  <2>2. /\ work[i] = "running" => ctx[i] # "live"
        /\ snap'[i].state = "timed_out" => ctx[i] = "deadline"
        /\ snap'[i].state \in {"completed", "failed"} => work[i] \in {"answered", "done"}
        /\ snap'[i].code # "none" <=> snap'[i].state = "failed"
    <3>1. CASE RunAbandon(i)
      BY <3>1 DEF RunAbandon, SnapshotOf, TypeOK, ResolutionInvariant,
         RequestsAreExplained, Unstarted
    <3>2. CASE RunSelectResult(i)
      <4>1. PICK answer \in result[i] :
                snap' = [snap EXCEPT ![i] =
                    SnapshotOf(i, TerminalState(answer), TerminalCode(answer))]
        BY <3>2 DEF RunSelectResult
      <4>2. /\ snap'[i].state = TerminalState(answer)
            /\ snap'[i].code = TerminalCode(answer)
        BY <4>1 DEF SnapshotOf, TypeOK
      <4>3. /\ work[i] \in {"answered", "done"}
            /\ answer.outcome = "timed_out" => ctx[i] = "deadline"
        BY <4>1 DEF ResolutionInvariant, RequestsAreExplained
      <4>4. QED
        BY <4>2, <4>3 DEF TerminalState, TerminalCode
    <3>3. CASE RunSelectContext(i)
      BY <3>3 DEF RunSelectContext, SnapshotOf, ContextTerminalState, TypeOK
    <3>4. QED
      BY <1>3, <3>1, <3>2, <3>3
  <2>3. RequestsAreExplained'
    BY <1>1, <2>1, <2>2 DEF ResolutionInvariant, RequestsAreExplained, Unstarted
  <2>4. LeftoverWorkflowIsSignalled' /\ TerminalStateIsExplained'
    BY <2>1 DEF ResolutionInvariant, LeftoverWorkflowIsSignalled, InProgress,
       TerminalStateIsExplained
  <2>5. QED
    BY <2>3, <2>4 DEF ResolutionInvariant
<1>4. CASE RunSpawnWorkflow(i)
  <2>1. /\ pc[i] = "spawn" /\ pc'[i] = "select"
        /\ work' = [work EXCEPT ![i] = "running"]
        /\ UNCHANGED <<current, ctx, result, snap>>
    BY <1>4 DEF RunSpawnWorkflow, TypeOK
  <2>2. current.id = i /\ InProgress /\ result[i] = {}
    BY <2>1 DEF OwnershipInvariant, RunnersFollowTheRegistry, OwnedByRunner,
       ResolutionInvariant, RequestsAreExplained, Unstarted
  <2>3. work'[i] = "running" /\ \A j \in Ops \ {i} : work'[j] = work[j]
    BY <2>1 DEF TypeOK
  <2>4. RequestsAreExplained'
    BY <1>1, <2>1, <2>2, <2>3
    DEF ResolutionInvariant, RequestsAreExplained, Unstarted
  <2>5. LeftoverWorkflowIsSignalled'
    BY <2>1, <2>2, <2>3
    DEF ResolutionInvariant, LeftoverWorkflowIsSignalled, InProgress
  <2>6. TerminalStateIsExplained'
    BY <2>1, <2>2
    DEF ResolutionInvariant, TerminalStateIsExplained, InProgress, ActiveStates
  <2>7. QED
    BY <2>4, <2>5, <2>6 DEF ResolutionInvariant
<1>5. CASE RunFinish(i)
  <2>1. /\ pc[i] = "finish" /\ pc'[i] = "release" /\ current.id = i
        /\ current' = SnapshotOf(i, Resolution(snap[i].state, snap[i].code).state,
                                    Resolution(snap[i].state, snap[i].code).code)
        /\ UNCHANGED <<ctx, work, result>>
    BY <1>5 DEF RunFinish, RegistryFinish, CanFinish, TypeOK
  <2>2. RequestsAreExplained'
    BY <1>1, <2>1 DEF ResolutionInvariant, RequestsAreExplained, Unstarted
  <2>3. LeftoverWorkflowIsSignalled'
    BY <2>1 DEF ResolutionInvariant, LeftoverWorkflowIsSignalled,
       RequestsAreExplained
  <2>4. TerminalStateIsExplained'
    BY <2>1 DEF ResolutionInvariant, RequestsAreExplained,
       TerminalStateIsExplained, Resolution, SnapshotOf
  <2>5. QED
    BY <2>2, <2>3, <2>4 DEF ResolutionInvariant
<1>6. CASE RunFinishRefused(i) \/ RunReturn(i)
  <2>1. /\ UNCHANGED <<current, work>> /\ pc'[i] \in {"return", "done"}
        /\ \A j \in Ops : result'[j] \subseteq result[j]
        /\ \A j \in Ops : ctx'[j] = ctx[j] \/ (ctx[j] = "live" /\ ctx'[j] # "live")
    BY <1>6 DEF RunFinishRefused, RunReturn, CancelContext, TypeOK
  <2>2. QED
    BY <1>1, <2>1, ResolutionIsKept DEF Unstarted
<1>7. QED
  BY <1>2, <1>3, <1>4, <1>5, <1>6 DEF Run

LEMMA ResolutionWorkflowAndDeadline ==
    ASSUME TypeOK, LifecycleIsExclusive, PendingEventsAreOrdered,
           ResolutionInvariant, NEW i \in Ops,
           WorkReturn(i) \/ WorkExit(i) \/ Deadline(i)
    PROVE  ResolutionInvariant'
<1>1. UNCHANGED <<current, pc, snap>>
  BY DEF WorkReturn, WorkAnswer, WorkExit, Deadline, registryVars, goroutines
<1>2. \A j \in Ops : ctx'[j] = ctx[j] \/ (ctx[j] = "live" /\ ctx'[j] # "live")
  BY DEF WorkReturn, WorkAnswer, WorkExit, Deadline, TypeOK
<1>3. \A j \in Ops : \/ work'[j] = work[j]
                     \/ work[j] \in {"running", "answered"}
                        /\ work'[j] \in {"answered", "done"}
  BY DEF WorkReturn, WorkAnswer, WorkExit, Deadline, TypeOK, goroutines
<1>4. \A j \in Ops : \/ result'[j] \subseteq result[j]
                     \/ /\ work'[j] = "answered"
                        /\ \A answer \in result'[j] :
                               answer.outcome = "timed_out" => ctx'[j] = "deadline"
  BY DEF WorkReturn, WorkAnswer, MayAnswer, AgreesWithContext, WorkExit, Deadline,
     TypeOK, goroutines
<1>5. QED
  BY <1>1, <1>2, <1>3, <1>4, ResolutionIsKept

LEMMA ResolutionStep ==
    ASSUME TypeOK, LifecycleIsExclusive, PendingEventsAreOrdered,
           OwnershipInvariant, ResolutionInvariant, [ServiceNext]_vars
    PROVE  ResolutionInvariant'
<1> USE Kinds
<1>1. ASSUME NEW p \in Proc, Notify(p) PROVE ResolutionInvariant'
  BY <1>1, ResolutionNotify
<1>2. ASSUME NEW s \in Starters, Start(s) PROVE ResolutionInvariant'
  BY <1>2, ResolutionStart
<1>3. ASSUME NEW c \in Cancellers, Cancel(c) PROVE ResolutionInvariant'
  BY <1>3, ResolutionCancel DEF Cancel
<1>4. ASSUME NEW i \in Ops, OperationStep(i) PROVE ResolutionInvariant'
  BY <1>4, ResolutionRun, ResolutionWorkflowAndDeadline DEF OperationStep
<1>5. CASE ShutdownCancel
  BY <1>5, ResolutionCancel DEF ShutdownCancel
<1>6. CASE (Shutdown /\ ~ShutdownCancel) \/ Rest \/ UNCHANGED vars
  <2>1. /\ UNCHANGED <<current, ctx, work, result>>
        /\ \A j \in Ops : pc'[j] = pc[j] /\ snap'[j] = snap[j]
    BY <1>6 DEF Shutdown, ShutdownLock, ShutdownCurrent, ShutdownCancelRefused,
       ShutdownUnlock, Drain, ShutdownReturn, ShutdownExpire, Goto, Forget,
       registryVars, goroutines, Rest, vars, TypeOK
  <2>2. QED
    BY <2>1, ResolutionIsKept
<1>7. QED
  BY <1>1, <1>2, <1>3, <1>4, <1>5, <1>6 DEF ServiceNext, OperationStep

LEMMA ResolutionIsInvariant == ProductSpec => []ResolutionInvariant
<1>1. Init => OwnershipInvariant /\ ResolutionInvariant
  BY OwnershipInit, ResolutionInit
<1>2. TypeOK /\ LifecycleIsExclusive /\ PendingEventsAreOrdered
      /\ OwnershipInvariant /\ ResolutionInvariant /\ [ServiceNext]_vars
      => OwnershipInvariant' /\ ResolutionInvariant'
  BY OwnershipStep, ResolutionStep
<1>3. [ServiceNext]_vars => [Next]_vars
  BY DEF Next
<1>4. ProductSpec => Spec
  BY <1>3, PTL DEF ProductSpec, Spec
<1>5. QED
  BY <1>1, <1>2, <1>4, TypeCorrect, LifecycleExclusive, PendingEventsOrdered,
     PTL DEF ProductSpec

(***************************************************************************)
(* A workflow that works on behind the end of its operation does so under  *)
(* a context that has ended (service.go:184-200, registry.go:115).         *)
(***************************************************************************)
THEOREM LeftoversAreSignalled == ProductSpec => []LeftoverWorkflowIsSignalled
<1>1. ResolutionInvariant => LeftoverWorkflowIsSignalled
  BY DEF ResolutionInvariant
<1>2. QED
  BY <1>1, ResolutionIsInvariant, PTL

(***************************************************************************)
(* The terminal state tells truly why the operation ended, and an error    *)
(* code comes exactly with a failure (service.go:184-200,216-233).         *)
(***************************************************************************)
THEOREM TerminalStatesAreTrue == ProductSpec => []TerminalStateIsExplained
<1>1. ResolutionInvariant => TerminalStateIsExplained
  BY DEF ResolutionInvariant
<1>2. QED
  BY <1>1, ResolutionIsInvariant, PTL

-----------------------------------------------------------------------------
(***************************************************************************)
(* What is left when Shutdown has returned nil.                            *)
(***************************************************************************)
LEMMA NothingIsLeft ==
    ASSUME TypeOK, LifecycleIsExclusive, PendingEventsAreOrdered, OperationIsOwned,
           HandoverInvariant, WaitGroupCounts, ShutdownWaits
    PROVE  ShutdownLeavesNothingBehind
<1> SUFFICES ASSUME pc[Main] = "done" PROVE ShutdownLeavesNothingBehind
  BY DEF ShutdownLeavesNothingBehind
<1>1. /\ \A s \in Starters : pc[s] = "idle"
      /\ \A i \in Ops : pc[i] \in {"idle", "done"} /\ work[i] \in {"none", "done"}
  BY NothingIsCounted
<1>2. ASSUME InProgress, ~parentDone PROVE FALSE
  <2>1. current.id \in Ops
    BY <1>2, CurrentIsAnOperation
  <2>2. ~OwnedByStarter(current.id)
    BY <1>1 DEF OwnedByStarter
  <2>3. ~OwnedByRunner(current.id)
    BY <1>1, <2>1 DEF OwnedByRunner
  <2>4. QED
    BY <1>2, <2>2, <2>3 DEF OperationIsOwned
<1>3. QED
  BY <1>1, <1>2, Zenon DEF ShutdownLeavesNothingBehind

(***************************************************************************)
(* A nil from Shutdown means that the service is empty: no call of Start,  *)
(* no run and no workflow goroutine is left, and the operation has ended   *)
(* (service.go:134-149).                                                   *)
(***************************************************************************)
THEOREM NothingLeftBehind == Spec => []ShutdownLeavesNothingBehind
<1>1. TypeOK /\ LifecycleIsExclusive /\ PendingEventsAreOrdered /\ OperationIsOwned
      /\ HandoverInvariant /\ WaitGroupCounts /\ ShutdownWaits
      => ShutdownLeavesNothingBehind
  BY NothingIsLeft
<1>2. QED
  BY <1>1, TypeCorrect, LifecycleExclusive, PendingEventsOrdered, OperationOwned,
     OperationsHandedOver, WaitGroupIsExact, ShutdownWaitsForAll, PTL

-----------------------------------------------------------------------------
(***************************************************************************)
(* Calls of Cancel are not counted in the WaitGroup.  What keeps them      *)
(* silent after the shutdown is notifyMu: while one delivers "cancelling", *)
(* the run goroutine of that operation cannot get through its own notify,  *)
(* so it has not returned and Shutdown still waits for it.                 *)
(***************************************************************************)
CancelPrecedesReturn ==
    \A c \in Cancellers :
        /\ pc[c] \in {"release", "notify", "emit"} => snap[c].state = "cancelling"
        /\ pc[c] = "emit" => pc[snap[c].id] \notin {"return", "done"}

LEMMA CancellerAnnouncesAnOperation ==
    ASSUME TypeOK, LifecycleIsExclusive, PendingEventsAreOrdered,
           NEW p \in Proc, p \in Notifying
    PROVE  snap[p].id \in Ops /\ snap[p].id <= sequence
<1>1. snap[p] \in Snapshots /\ NoLaterThan(snap[p], current)
  BY DEF PendingEventsAreOrdered
<1>2. snap[p].id \in Nat \ {0} /\ snap[p].id <= current.id
  BY <1>1 DEF Snapshots, NoSnapshot, NoLaterThan, EventLog!Follows, TypeOK,
     RegistryTypeOK
<1>3. current.id = sequence /\ sequence \in Nat /\ sequence <= MaxOps
  BY DEF PendingEventsAreOrdered, LifecycleIsExclusive, TypeOK, RegistryTypeOK
<1>4. QED
  BY <1>2, <1>3, BoundsAssumption DEF Ops

(* Steps that leave the cancelling calls alone, and let no run goroutine   *)
(* enter "return" or "done" that was not there.                            *)
LEMMA CancelStaysFirst ==
    ASSUME TypeOK, LifecycleIsExclusive, PendingEventsAreOrdered,
           CancelPrecedesReturn,
           \A c \in Cancellers : pc'[c] = pc[c] /\ snap'[c] = snap[c],
           \A i \in Ops : pc'[i] \in {"return", "done"} => pc[i] \in {"return", "done"}
    PROVE  CancelPrecedesReturn'
<1>1. \A c \in Cancellers : pc[c] = "emit" => snap[c].id \in Ops
  BY Kinds, CancellerAnnouncesAnOperation DEF Notifying
<1>2. QED
  BY <1>1 DEF CancelPrecedesReturn

LEMMA CancelFirstNotify ==
    ASSUME TypeOK, LifecycleIsExclusive, PendingEventsAreOrdered,
           OwnershipInvariant, CancelPrecedesReturn, NEW p \in Proc, Notify(p)
    PROVE  CancelPrecedesReturn'
<1> USE Kinds DEF registryVars, Goto
<1>1. \A q \in Proc \ {p} : pc'[q] = pc[q] /\ snap'[q] = snap[q]
  BY DEF Notify, NotifyCurrent, NotifyStale, Emit, ReleaseContext, LeaveNotify,
     Forget, TypeOK
<1>2. \A c \in Cancellers : pc[c] = "emit" => snap[c].id \in Ops
  BY CancellerAnnouncesAnOperation DEF Notifying
<1>3. CASE p \in Cancellers
  <2>1. \A c \in Cancellers \ {p} :
            /\ pc'[c] \in {"release", "notify", "emit"} => snap'[c].state = "cancelling"
            /\ pc'[c] = "emit" => pc'[snap'[c].id] \notin {"return", "done"}
    BY <1>1, <1>2, <1>3 DEF CancelPrecedesReturn
  <2>2. CASE NotifyCurrent(p)
    <3>1. /\ pc[p] = "notify" /\ pc'[p] = "emit" /\ snap'[p] = snap[p]
          /\ snap[p] = current
      BY <2>2 DEF NotifyCurrent, TypeOK
    <3>2. current.state = "cancelling" /\ InProgress
      BY <1>3, <3>1 DEF CancelPrecedesReturn, InProgress, ActiveStates
    <3>3. current.id \in Ops
      BY <3>2, CurrentIsAnOperation
    <3>4. pc[current.id] \notin {"return", "done"}
      BY <3>2, <3>3 DEF OwnershipInvariant, RunnersFollowTheRegistry, Resolved
    <3>5. pc'[snap'[p].id] \notin {"return", "done"}
      BY <1>1, <1>3, <3>1, <3>3, <3>4
    <3>6. QED
      BY <2>1, <3>1, <3>2, <3>5 DEF CancelPrecedesReturn
  <2>3. CASE NotifyStale(p) \/ Emit(p)
    <3>1. pc'[p] = "idle"
      BY <1>3, <2>3 DEF NotifyStale, Emit, AfterNotify, TypeOK
    <3>2. QED
      BY <2>1, <3>1 DEF CancelPrecedesReturn
  <2>4. CASE ReleaseContext(p)
    <3>1. pc[p] = "release" /\ pc'[p] = "notify" /\ snap'[p] = snap[p]
      BY <2>4 DEF ReleaseContext, TypeOK
    <3>2. QED
      BY <1>3, <2>1, <3>1 DEF CancelPrecedesReturn
  <2>5. QED
    BY <2>2, <2>3, <2>4 DEF Notify
<1>4. CASE p \in Ops /\ (NotifyStale(p) \/ Emit(p))
  <2>1. notifyMu \in {Nobody, p}
    BY <1>4 DEF NotifyStale, Emit, PendingEventsAreOrdered
  <2>2. \A c \in Cancellers : pc[c] # "emit"
    BY <1>4, <2>1 DEF PendingEventsAreOrdered
  <2>3. QED
    BY <1>1, <1>4, <2>2 DEF CancelPrecedesReturn
<1>5. CASE p \notin Cancellers /\ ~(p \in Ops /\ (NotifyStale(p) \/ Emit(p)))
  <2>1. p \in Ops => pc'[p] \in {"notify", "emit"}
    BY <1>5 DEF Notify, NotifyCurrent, ReleaseContext, TypeOK
  <2>2. QED
    BY <1>1, <1>5, <2>1, CancelStaysFirst
<1>6. QED
  BY <1>3, <1>4, <1>5

LEMMA CancelFirstAccepted ==
    ASSUME TypeOK, LifecycleIsExclusive, PendingEventsAreOrdered,
           CancelPrecedesReturn, NEW c \in Cancellers, Cancel(c)
    PROVE  CancelPrecedesReturn'
<1> USE Kinds DEF Goto
<1>1. PICK id \in Ops : CancelAccepted(c, "idle", id)
  BY DEF Cancel
<1>2. /\ pc'[c] = "release" /\ snap'[c] = current'
      /\ \A q \in Proc \ {c} : pc'[q] = pc[q] /\ snap'[q] = snap[q]
  BY <1>1 DEF CancelAccepted, TypeOK
<1>3. current'.state = "cancelling"
  <2>1. current \in Snapshots
    BY <1>1 DEF CancelAccepted, RegistryCancel, CanCancel, TypeOK, RegistryTypeOK,
       NoSnapshot
  <2>2. QED
    BY <1>1, <2>1 DEF CancelAccepted, RegistryCancel, Snapshots
<1>4. \A d \in Cancellers : pc[d] = "emit" => snap[d].id \in Ops
  BY CancellerAnnouncesAnOperation DEF Notifying
<1>5. QED
  BY <1>2, <1>3, <1>4 DEF CancelPrecedesReturn

LEMMA CancelFirstStep ==
    ASSUME TypeOK, LifecycleIsExclusive, PendingEventsAreOrdered, HandoverInvariant,
           OwnershipInvariant, CancelPrecedesReturn, [ServiceNext]_vars
    PROVE  CancelPrecedesReturn'
<1> USE Kinds DEF registryVars, goroutines, Goto, TypeOK
<1>1. ASSUME NEW p \in Proc, Notify(p) PROVE CancelPrecedesReturn'
  BY <1>1, CancelFirstNotify
<1>2. ASSUME NEW s \in Starters, Start(s) PROVE CancelPrecedesReturn'
  <2>1. CASE StartRun(s)
    <3>1. /\ pc' = [pc EXCEPT ![s] = "idle", ![snap[s].id] = "transition"]
          /\ snap' = [snap EXCEPT ![s] = NoSnapshot]
          /\ snap[s].id \in Ops
      BY <2>1 DEF StartRun, Forget, HandoverInvariant, OperationsAreHandedOver,
         Publishes
    <3>2. \A c \in Cancellers : pc'[c] = pc[c] /\ snap'[c] = snap[c]
      BY <3>1
    <3>3. \A i \in Ops : pc'[i] \in {"return", "done"} => pc[i] \in {"return", "done"}
      BY <3>1
    <3>4. QED
      BY <3>2, <3>3, CancelStaysFirst
  <2>2. CASE StartLock(s) \/ StartRegistered(s) \/ StartRefused(s)
    BY <2>2, CancelStaysFirst DEF StartLock, StartRegistered, StartRefused
  <2>3. QED
    BY <1>2, <2>1, <2>2 DEF Start
<1>3. ASSUME NEW c \in Cancellers, Cancel(c) PROVE CancelPrecedesReturn'
  BY <1>3, CancelFirstAccepted
<1>4. ASSUME NEW i \in Ops, OperationStep(i) PROVE CancelPrecedesReturn'
  <2>1. CASE RunFinishRefused(i)
    <3>1. /\ current.id = i /\ current.state \in {"running", "cancelling"}
          /\ IsTerminal(snap[i].state)
          /\ snap[i].state = "cancelled" => current.state = "cancelling"
      BY <2>1 DEF RunFinishRefused, OwnedByRunner, OwnershipInvariant,
         RunnersFollowTheRegistry, InProgress, ActiveStates
    <3>2. CanFinish(i, snap[i].state, snap[i].code)
      BY <3>1 DEF CanFinish, Resolution, CanTransition, IsTerminal, TerminalStates
    <3>3. QED
      BY <2>1, <3>2 DEF RunFinishRefused
  <2>2. CASE Run(i) /\ ~RunFinishRefused(i)
    <3>1. \A q \in Proc \ {i} : pc'[q] = pc[q] /\ snap'[q] = snap[q]
      BY <2>2 DEF Run, RunTransition, RunAbandon, RunSpawnWorkflow, RunSelectResult,
         RunSelectContext, RunFinish, RunReturn, Forget
    <3>2. pc'[i] \in {"return", "done"} => pc[i] \in {"return", "done"}
      BY <2>2 DEF Run, RunTransition, RunAbandon, RunSpawnWorkflow, RunSelectResult,
         RunSelectContext, RunFinish, RunReturn
    <3>3. QED
      BY <3>1, <3>2, CancelStaysFirst
  <2>3. CASE WorkReturn(i) \/ WorkExit(i) \/ Deadline(i)
    BY <2>3, CancelStaysFirst DEF WorkReturn, WorkAnswer, WorkExit, Deadline
  <2>4. QED
    BY <1>4, <2>1, <2>2, <2>3 DEF OperationStep
<1>5. CASE Shutdown
  BY <1>5, CancelStaysFirst DEF Shutdown, ShutdownLock, ShutdownCurrent,
     ShutdownCancel, CancelAccepted, ShutdownCancelRefused,
     ShutdownUnlock, Drain, ShutdownReturn, ShutdownExpire, Forget
<1>6. CASE Rest \/ UNCHANGED vars  BY <1>6, CancelStaysFirst DEF Rest, vars
<1>7. QED
  BY <1>1, <1>2, <1>3, <1>4, <1>5, <1>6 DEF ServiceNext, OperationStep

(* Until the parent of the contexts ends.                                  *)
LEMMA CancelPrecedesReturnForAll ==
    Spec => [](parentDone \/ (OwnershipInvariant /\ CancelPrecedesReturn))
<1> DEFINE Inv == parentDone \/ (OwnershipInvariant /\ CancelPrecedesReturn)
<1>1. Init => Inv
  BY OwnershipInit, Kinds DEF Init, CancelPrecedesReturn
<1>2. TypeOK /\ LifecycleIsExclusive /\ PendingEventsAreOrdered /\ HandoverInvariant
      /\ Inv /\ [Next]_vars => Inv'
  <2> SUFFICES ASSUME TypeOK, LifecycleIsExclusive, PendingEventsAreOrdered,
                      HandoverInvariant, Inv, [Next]_vars
               PROVE  Inv'
    OBVIOUS
  <2>1. CASE parentDone
    BY <2>1, ParentStaysDone
  <2>2. CASE ParentCancel
    BY <2>2 DEF ParentCancel
  <2>3. CASE OwnershipInvariant /\ CancelPrecedesReturn /\ [ServiceNext]_vars
    BY <2>3, OwnershipStep, CancelFirstStep
  <2>4. QED
    BY <2>1, <2>2, <2>3 DEF Next
<1>3. QED
  BY <1>1, <1>2, TypeCorrect, LifecycleExclusive, PendingEventsOrdered,
     OperationsHandedOver, PTL DEF Spec

LEMMA QuietStep ==
    ASSUME TypeOK, LifecycleIsExclusive, PendingEventsAreOrdered, HandoverInvariant,
           WaitGroupCounts, ShutdownWaits, OwnershipInvariant, CancelPrecedesReturn,
           pc[Main] = "done", [Next]_vars
    PROVE  UNCHANGED lastEvent
<1> USE Kinds DEF registryVars, goroutines
<1>1. ASSUME NEW p \in Proc, Emit(p) PROVE FALSE
  <2>1. pc[p] = "emit" /\ p \in Notifying
    BY <1>1 DEF Emit, Goto, Notifying
  <2>2. p \in Cancellers
    BY <2>1, NothingIsCounted DEF Proc
  <2>3. snap[p].id \in Ops /\ snap[p].id <= sequence
    BY <2>1, CancellerAnnouncesAnOperation
  <2>4. pc[snap[p].id] = "done"
    BY <2>3, NothingIsCounted
  <2>5. QED
    BY <2>1, <2>2, <2>4 DEF CancelPrecedesReturn
<1>2. ASSUME NEW p \in Proc, Notify(p), ~Emit(p) PROVE UNCHANGED lastEvent
  BY <1>2 DEF Notify, NotifyCurrent, NotifyStale, ReleaseContext
<1>3. ASSUME NEW s \in Starters, Start(s) PROVE UNCHANGED lastEvent
  BY <1>3 DEF Start, StartLock, StartRegistered, StartRefused, StartRun
<1>4. ASSUME NEW c \in Cancellers, Cancel(c) PROVE UNCHANGED lastEvent
  BY <1>4 DEF Cancel, CancelAccepted
<1>5. ASSUME NEW i \in Ops, OperationStep(i) PROVE UNCHANGED lastEvent
  BY <1>5 DEF OperationStep, Run, RunTransition, RunAbandon, RunSpawnWorkflow,
     RunSelectResult, RunSelectContext, RunFinish, RunFinishRefused, RunReturn,
     WorkReturn, WorkAnswer, WorkExit, Deadline
<1>6. CASE ParentCancel  BY <1>6 DEF ParentCancel
<1>7. CASE Shutdown
  BY <1>7 DEF Shutdown, ShutdownLock, ShutdownCurrent, ShutdownCancel,
     CancelAccepted, ShutdownCancelRefused, ShutdownUnlock, Drain,
     ShutdownReturn, ShutdownExpire
<1>8. CASE Rest \/ UNCHANGED vars  BY <1>8 DEF Rest, vars
<1>9. QED
  BY <1>1, <1>2, <1>3, <1>4, <1>5, <1>6, <1>7, <1>8 DEF Next, ServiceNext, OperationStep

(***************************************************************************)
(* Once Shutdown has returned nil the listener hears nothing more, also of *)
(* the calls of Cancel that nobody waits for (service.go:89-98,134-149,    *)
(* 203-214).                                                               *)
(***************************************************************************)
THEOREM SilenceAfterShutdown == Spec => NoEventAfterShutdown
<1>1. TypeOK /\ LifecycleIsExclusive /\ PendingEventsAreOrdered /\ HandoverInvariant
      /\ WaitGroupCounts /\ ShutdownWaits
      /\ (parentDone \/ (OwnershipInvariant /\ CancelPrecedesReturn)) /\ [Next]_vars
      => [pc[Main] = "done" /\ ~parentDone => UNCHANGED lastEvent]_vars
  BY QuietStep
<1>2. QED
  BY <1>1, TypeCorrect, LifecycleExclusive, PendingEventsOrdered, OperationsHandedOver,
     WaitGroupIsExact, ShutdownWaitsForAll, CancelPrecedesReturnForAll, PTL
  DEF Spec, NoEventAfterShutdown
=============================================================================
