--------------------------- MODULE LaunchService ----------------------------
(***************************************************************************)
(* The chromelaunchoperation Service at the granularity of its goroutines. *)
(*                                                                         *)
(* Processes.  Starters and Cancellers are the Wails calls of Start and    *)
(* Cancel, Main is the OnShutdown call of Shutdown, and an operation       *)
(* number i stands for the run goroutine of that operation.  The workflow  *)
(* goroutine of operation i is work[i].                                    *)
(*                                                                         *)
(* A step ends where the code releases a mutex, blocks, or hands over to   *)
(* another goroutine.  Calls that are refused (Start while an operation is *)
(* in progress or after shutdown began, Cancel of an unknown or finished   *)
(* operation) return an error and change nothing; where they change        *)
(* nothing even in between, they have no action.                           *)
(***************************************************************************)
EXTENDS Registry, FiniteSets

CONSTANTS
    Starters, Cancellers, Main,  \* the calling goroutines
    Nobody,                      \* the holder of a free mutex
    MaxOps,                      \* bound on the operations ever started
    WorkflowResults              \* what Workflow.Run may return

Ops == 1 .. MaxOps
Proc == Starters \cup Cancellers \cup {Main} \cup Ops

ASSUME BoundsAssumption ==
    /\ MaxOps \in Nat
    /\ WorkflowResults \subseteq WorkflowResultType

ASSUME ProcessesAreDistinct ==
    /\ Starters \cap Cancellers = {}
    /\ Main \notin Starters \cup Cancellers
    /\ (Starters \cup Cancellers \cup {Main}) \cap Nat = {}
    /\ Nobody \notin Proc

VARIABLES
    pc,            \* where each process is
    snap,          \* the snapshot each process is working on
    ctx,           \* ctx.Err() of each operation's context: "none" before Start
    parentDone,    \* has the parent of all contexts been cancelled?
    work,          \* the workflow goroutine of each operation
    result,        \* the one-slot channel a workflow answers on: {} or {answer}
    lifecycleMu,   \* holder of lifecycle.mu
    shuttingDown,
    wg,            \* counter of lifecycle.wg
    drained,       \* wait's done channel has been closed
    notifyMu,      \* holder of notifyMu
    lastEvent      \* the last snapshot handed to the notifier

goroutines == <<pc, snap, work, result>>
vars == <<sequence, current, pc, snap, ctx, parentDone, work, result,
          lifecycleMu, shuttingDown, wg, drained, notifyMu, lastEvent>>

PCs == {"idle", "register", "transition", "cancel", "current", "finish",
        "release", "notify", "emit", "spawn", "select", "return", "unlock",
        "wait", "done", "expired"}

TypeOK ==
    /\ RegistryTypeOK
    /\ pc \in [Proc -> PCs]
    /\ snap \in [Proc -> Snapshots \cup {NoSnapshot}]
    /\ ctx \in [Ops -> {"none", "live", "canceled", "deadline"}]
    /\ parentDone \in BOOLEAN
    /\ work \in [Ops -> {"none", "running", "answered", "done"}]
    /\ result \in [Ops -> SUBSET WorkflowResultType]
    /\ lifecycleMu \in Proc \cup {Nobody}
    /\ shuttingDown \in BOOLEAN
    /\ wg \in Int
    /\ drained \in BOOLEAN
    /\ notifyMu \in Proc \cup {Nobody}
    /\ lastEvent \in Snapshots \cup {NoSnapshot}

Init ==
    /\ NewRegistry
    /\ pc = [p \in Proc |-> "idle"]
    /\ snap = [p \in Proc |-> NoSnapshot]
    /\ ctx = [i \in Ops |-> "none"]
    /\ parentDone = FALSE
    /\ work = [i \in Ops |-> "none"]
    /\ result = [i \in Ops |-> {}]
    /\ lifecycleMu = Nobody
    /\ shuttingDown = FALSE
    /\ wg = 0
    /\ drained = FALSE
    /\ notifyMu = Nobody
    /\ lastEvent = NoSnapshot

Goto(p, from, to) ==
    /\ pc[p] = from
    /\ pc' = [pc EXCEPT ![p] = to]

(* cancel() of an operation's context: only the first cause sticks.        *)
CancelContext(id) ==
    ctx' = [ctx EXCEPT ![id] = IF @ = "live" THEN "canceled" ELSE @]

-----------------------------------------------------------------------------
(***************************************************************************)
(* notify: the lock, the comparison with the registry, and the delivery.   *)
(* Taking the lock and reading the registry is one step: taking it later   *)
(* makes no difference to anybody.  The registry may change between the    *)
(* comparison and the delivery, which is a step of its own.                *)
(***************************************************************************)
AfterNotify(p) ==
    CASE p \in Starters   -> "spawn"
      [] p \in Cancellers -> "idle"
      [] p = Main         -> "unlock"
      [] OTHER            -> IF snap[p].state = "running" THEN "spawn"
                                                          ELSE "return"

(* A goroutine that returns drops its snapshot.                            *)
Forget(p) == snap' = [snap EXCEPT ![p] = NoSnapshot]

LeaveNotify(p) == IF p \in Cancellers THEN Forget(p) ELSE UNCHANGED snap

(* Mutant: deliver without comparing with the registry.                    *)
NotifyUnchecked(p) ==
    /\ Goto(p, "notify", "emit")
    /\ notifyMu = Nobody
    /\ notifyMu' = p
    /\ UNCHANGED <<registryVars, snap, ctx, parentDone, work, result,
                   lifecycleMu, shuttingDown, wg, drained, lastEvent>>

NotifyCurrent(p) ==
    /\ Goto(p, "notify", "emit")
    /\ notifyMu = Nobody
    /\ current = snap[p]
    /\ notifyMu' = p
    /\ UNCHANGED <<registryVars, snap, ctx, parentDone, work, result,
                   lifecycleMu, shuttingDown, wg, drained, lastEvent>>

NotifyStale(p) ==
    /\ Goto(p, "notify", AfterNotify(p))
    /\ notifyMu = Nobody
    /\ current # snap[p]
    /\ LeaveNotify(p)
    /\ UNCHANGED <<registryVars, ctx, parentDone, work, result,
                   lifecycleMu, shuttingDown, wg, drained, notifyMu, lastEvent>>

Emit(p) ==
    /\ Goto(p, "emit", AfterNotify(p))
    /\ lastEvent' = snap[p]
    /\ notifyMu' = Nobody
    /\ LeaveNotify(p)
    /\ UNCHANGED <<registryVars, ctx, parentDone, work, result,
                   lifecycleMu, shuttingDown, wg, drained>>

(***************************************************************************)
(* Registry.Finish and Registry.Cancel cancel the operation's context      *)
(* after they unlock the registry; the notification comes after that.      *)
(***************************************************************************)
ReleaseContext(p) ==
    /\ Goto(p, "release", "notify")
    /\ CancelContext(snap[p].id)
    /\ UNCHANGED <<registryVars, snap, parentDone, work, result, lifecycleMu,
                   shuttingDown, wg, drained, notifyMu, lastEvent>>

-----------------------------------------------------------------------------
(***************************************************************************)
(* Start: count the operation in while holding lifecycle.mu, register it,  *)
(* announce it, and only then start its run goroutine.                     *)
(***************************************************************************)
(* Mutant: Start does not look at shuttingDown.                            *)
StartLockDuringShutdown(s) ==
    /\ sequence < MaxOps
    /\ Goto(s, "idle", "register")
    /\ lifecycleMu = Nobody
    /\ lifecycleMu' = s
    /\ wg' = wg + 1
    /\ UNCHANGED <<registryVars, snap, ctx, parentDone, work, result,
                   shuttingDown, drained, notifyMu, lastEvent>>

StartLock(s) ==
    /\ sequence < MaxOps
    /\ Goto(s, "idle", "register")
    /\ lifecycleMu = Nobody
    /\ ~shuttingDown
    /\ lifecycleMu' = s
    /\ wg' = wg + 1
    /\ UNCHANGED <<registryVars, snap, ctx, parentDone, work, result,
                   shuttingDown, drained, notifyMu, lastEvent>>

StartRegistered(s) ==
    /\ Goto(s, "register", "notify")
    /\ RegistryStart
    /\ snap' = [snap EXCEPT ![s] = current']
    /\ ctx' = [ctx EXCEPT ![sequence'] =
                   IF parentDone THEN "canceled" ELSE "live"]
    /\ lifecycleMu' = Nobody
    /\ UNCHANGED <<parentDone, work, result, shuttingDown, wg, drained,
                   notifyMu, lastEvent>>

StartRefused(s) ==
    /\ Goto(s, "register", "idle")
    /\ InProgress
    /\ wg' = wg - 1
    /\ lifecycleMu' = Nobody
    /\ UNCHANGED <<registryVars, snap, ctx, parentDone, work, result,
                   shuttingDown, drained, notifyMu, lastEvent>>

StartRun(s) ==
    /\ pc[s] = "spawn"
    /\ pc' = [pc EXCEPT ![s] = "idle", ![snap[s].id] = "transition"]
    /\ Forget(s)
    /\ UNCHANGED <<registryVars, ctx, parentDone, work, result,
                   lifecycleMu, shuttingDown, wg, drained, notifyMu, lastEvent>>

(***************************************************************************)
(* Cancel: accepted for the current operation until it is cancelling or    *)
(* finished.                                                               *)
(***************************************************************************)
CancelAccepted(p, from, id) ==
    /\ Goto(p, from, "release")
    /\ RegistryCancel(id)
    /\ snap' = [snap EXCEPT ![p] = current']
    /\ UNCHANGED <<ctx, parentDone, work, result, lifecycleMu, shuttingDown,
                   wg, drained, notifyMu, lastEvent>>

Cancel(c) == \E id \in Ops : CancelAccepted(c, "idle", id)

-----------------------------------------------------------------------------
(***************************************************************************)
(* run: the goroutine of operation i.                                      *)
(***************************************************************************)
RunTransition(i) ==
    /\ Goto(i, "transition", "notify")
    /\ RegistryTransition(i, "running")
    /\ snap' = [snap EXCEPT ![i] = current']
    /\ UNCHANGED <<ctx, parentDone, work, result, lifecycleMu, shuttingDown,
                   wg, drained, notifyMu, lastEvent>>

(* Mutant: run just returns when it finds the operation cancelling.        *)
RunAbandonUnresolved(i) ==
    /\ Goto(i, "transition", "return")
    /\ ~(current.id = i /\ CanTransition(current.state, "running"))
    /\ UNCHANGED <<registryVars, snap, ctx, parentDone, work, result,
                   lifecycleMu, shuttingDown, wg, drained, notifyMu, lastEvent>>

RunAbandon(i) ==
    /\ Goto(i, "transition", "finish")
    /\ ~(current.id = i /\ CanTransition(current.state, "running"))
    /\ snap' = [snap EXCEPT ![i] = SnapshotOf(i, "cancelled", "none")]
    /\ UNCHANGED <<registryVars, ctx, parentDone, work, result, lifecycleMu,
                   shuttingDown, wg, drained, notifyMu, lastEvent>>

(* Mutant: the workflow goroutine is not added to the WaitGroup.           *)
RunSpawnUncounted(i) ==
    /\ Goto(i, "spawn", "select")
    /\ work' = [work EXCEPT ![i] = "running"]
    /\ UNCHANGED <<registryVars, snap, ctx, parentDone, result, lifecycleMu,
                   shuttingDown, wg, drained, notifyMu, lastEvent>>

RunSpawnWorkflow(i) ==
    /\ Goto(i, "spawn", "select")
    /\ work' = [work EXCEPT ![i] = "running"]
    /\ wg' = wg + 1
    /\ UNCHANGED <<registryVars, snap, ctx, parentDone, result, lifecycleMu,
                   shuttingDown, drained, notifyMu, lastEvent>>

(* select: either case may be taken while both are ready.                  *)
RunSelectResult(i) ==
    /\ Goto(i, "select", "finish")
    /\ \E answer \in result[i] :
           snap' = [snap EXCEPT ![i] =
                SnapshotOf(i, TerminalState(answer), TerminalCode(answer))]
    /\ result' = [result EXCEPT ![i] = {}]
    /\ UNCHANGED <<registryVars, ctx, parentDone, work, lifecycleMu,
                   shuttingDown, wg, drained, notifyMu, lastEvent>>

(* Mutant: only a cancellation, not the deadline, ends the select.         *)
RunSelectCancelOnly(i) ==
    /\ Goto(i, "select", "finish")
    /\ ctx[i] = "canceled"
    /\ snap' = [snap EXCEPT ![i] = SnapshotOf(i, "cancelled", "none")]
    /\ UNCHANGED <<registryVars, ctx, parentDone, work, result, lifecycleMu,
                   shuttingDown, wg, drained, notifyMu, lastEvent>>

RunSelectContext(i) ==
    /\ Goto(i, "select", "finish")
    /\ ctx[i] \in {"canceled", "deadline"}
    /\ snap' = [snap EXCEPT ![i] =
            SnapshotOf(i, ContextTerminalState(ctx[i]), "none")]
    /\ UNCHANGED <<registryVars, ctx, parentDone, work, result, lifecycleMu,
                   shuttingDown, wg, drained, notifyMu, lastEvent>>

(* Mutant: the terminal state is not announced.                            *)
RunFinishSilently(i) ==
    /\ Goto(i, "finish", "return")
    /\ RegistryFinish(i, snap[i].state, snap[i].code)
    /\ UNCHANGED <<snap, ctx, parentDone, work, result, lifecycleMu,
                   shuttingDown, wg, drained, notifyMu, lastEvent>>

RunFinish(i) ==
    /\ Goto(i, "finish", "release")
    /\ RegistryFinish(i, snap[i].state, snap[i].code)
    /\ snap' = [snap EXCEPT ![i] = current']
    /\ UNCHANGED <<ctx, parentDone, work, result, lifecycleMu, shuttingDown,
                   wg, drained, notifyMu, lastEvent>>

RunFinishRefused(i) ==
    /\ Goto(i, "finish", "return")
    /\ ~CanFinish(i, snap[i].state, snap[i].code)
    /\ UNCHANGED <<registryVars, snap, ctx, parentDone, work, result,
                   lifecycleMu, shuttingDown, wg, drained, notifyMu, lastEvent>>

(* The two deferred calls: stopTimeout, then wg.Done.  Nobody reads the    *)
(* answer channel after that.                                              *)
RunReturn(i) ==
    /\ Goto(i, "return", "done")
    /\ CancelContext(i)
    /\ wg' = wg - 1
    /\ Forget(i)
    /\ result' = [result EXCEPT ![i] = {}]
    /\ UNCHANGED <<registryVars, parentDone, work, lifecycleMu,
                   shuttingDown, drained, notifyMu, lastEvent>>

-----------------------------------------------------------------------------
(***************************************************************************)
(* The workflow goroutine: it answers at a moment of its own choosing      *)
(* (Workflow.Run, or the recovered panic), then counts itself out.  What   *)
(* it may answer is the WorkflowContract that LaunchWorkflow implements.   *)
(***************************************************************************)
PanicResult == [outcome |-> "failed", code |-> "unexpected_failure"]

MayAnswer(i, answer) == AgreesWithContext(answer, ctx[i])

WorkAnswer(i, answer) ==
    /\ work[i] = "running"
    /\ work' = [work EXCEPT ![i] = "answered"]
    /\ result' = [result EXCEPT ![i] = IF pc[i] = "done" THEN {} ELSE {answer}]
    /\ UNCHANGED <<registryVars, pc, snap, ctx, parentDone, lifecycleMu,
                   shuttingDown, wg, drained, notifyMu, lastEvent>>

WorkReturn(i) ==
    \E answer \in WorkflowResults \cup {PanicResult} :
        MayAnswer(i, answer) /\ WorkAnswer(i, answer)

(* Mutant: the workflow goroutine does not count itself out.               *)
WorkExitUncounted(i) ==
    /\ work[i] = "answered"
    /\ work' = [work EXCEPT ![i] = "done"]
    /\ UNCHANGED <<registryVars, pc, snap, ctx, parentDone, result, wg,
                   lifecycleMu, shuttingDown, drained, notifyMu, lastEvent>>

WorkExit(i) ==
    /\ work[i] = "answered"
    /\ work' = [work EXCEPT ![i] = "done"]
    /\ wg' = wg - 1
    /\ UNCHANGED <<registryVars, pc, snap, ctx, parentDone, result,
                   lifecycleMu, shuttingDown, drained, notifyMu, lastEvent>>

-----------------------------------------------------------------------------
(***************************************************************************)
(* Contexts end by themselves at the operation's deadline, or with their   *)
(* parent: the context of the Wails runtime, which nothing in the          *)
(* application cancels.                                                    *)
(***************************************************************************)
Deadline(i) ==
    /\ ctx[i] = "live"
    /\ ctx' = [ctx EXCEPT ![i] = "deadline"]
    /\ UNCHANGED <<registryVars, goroutines, parentDone, lifecycleMu,
                   shuttingDown, wg, drained, notifyMu, lastEvent>>

ParentCancel ==
    /\ ~parentDone
    /\ parentDone' = TRUE
    /\ ctx' = [i \in Ops |-> IF ctx[i] = "live" THEN "canceled" ELSE ctx[i]]
    /\ UNCHANGED <<registryVars, goroutines, lifecycleMu, shuttingDown, wg,
                   drained, notifyMu, lastEvent>>

-----------------------------------------------------------------------------
(***************************************************************************)
(* Shutdown: refuse further starts, cancel the current operation while     *)
(* still holding lifecycle.mu, then wait for the goroutines or give up     *)
(* when the shutdown context ends.                                         *)
(***************************************************************************)
ShutdownLock ==
    /\ Goto(Main, "idle", "current")
    /\ lifecycleMu = Nobody
    /\ lifecycleMu' = Main
    /\ shuttingDown' = TRUE
    /\ UNCHANGED <<registryVars, snap, ctx, parentDone, work, result, wg,
                   drained, notifyMu, lastEvent>>

ShutdownCurrent ==
    /\ Goto(Main, "current", IF current = NoSnapshot THEN "unlock" ELSE "cancel")
    /\ snap' = [snap EXCEPT ![Main] = current]
    /\ UNCHANGED <<registryVars, ctx, parentDone, work, result, lifecycleMu,
                   shuttingDown, wg, drained, notifyMu, lastEvent>>

ShutdownCancel == CancelAccepted(Main, "cancel", snap[Main].id)

ShutdownCancelRefused ==
    /\ Goto(Main, "cancel", "unlock")
    /\ ~CanCancel(snap[Main].id)
    /\ UNCHANGED <<registryVars, snap, ctx, parentDone, work, result,
                   lifecycleMu, shuttingDown, wg, drained, notifyMu, lastEvent>>

ShutdownUnlock ==
    /\ Goto(Main, "unlock", "wait")
    /\ lifecycleMu' = Nobody
    /\ Forget(Main)
    /\ UNCHANGED <<registryVars, ctx, parentDone, work, result,
                   shuttingDown, wg, drained, notifyMu, lastEvent>>

(* The goroutine of wait: wg.Wait returns, the done channel is closed.     *)
Drain ==
    /\ pc[Main] = "wait"
    /\ ~drained
    /\ wg = 0
    /\ drained' = TRUE
    /\ UNCHANGED <<registryVars, goroutines, ctx, parentDone, lifecycleMu,
                   shuttingDown, wg, notifyMu, lastEvent>>

ShutdownReturn ==
    /\ Goto(Main, "wait", "done")
    /\ drained
    /\ UNCHANGED <<registryVars, snap, ctx, parentDone, work, result,
                   lifecycleMu, shuttingDown, wg, drained, notifyMu, lastEvent>>

(* Mutant: wait ignores the shutdown context.                              *)
ShutdownExpireIgnored == FALSE

ShutdownExpire ==
    /\ Goto(Main, "wait", "expired")
    /\ UNCHANGED <<registryVars, snap, ctx, parentDone, work, result,
                   lifecycleMu, shuttingDown, wg, drained, notifyMu, lastEvent>>

-----------------------------------------------------------------------------
Notify(p) == NotifyCurrent(p) \/ NotifyStale(p) \/ Emit(p) \/ ReleaseContext(p)

Start(s) == StartLock(s) \/ StartRegistered(s) \/ StartRefused(s) \/ StartRun(s)

Run(i) ==
    \/ RunTransition(i) \/ RunAbandon(i) \/ RunSpawnWorkflow(i)
    \/ RunSelectResult(i) \/ RunSelectContext(i)
    \/ RunFinish(i) \/ RunFinishRefused(i) \/ RunReturn(i)

Shutdown ==
    \/ ShutdownLock \/ ShutdownCurrent \/ ShutdownCancel
    \/ ShutdownCancelRefused \/ ShutdownUnlock
    \/ Drain \/ ShutdownReturn \/ ShutdownExpire

(* The service at rest: nothing left to do within the bound.               *)
AtRest ==
    /\ \A p \in Proc : pc[p] \in {"idle", "done", "expired"}
    /\ \A i \in Ops : work[i] \in {"none", "done"}
    /\ lifecycleMu = Nobody /\ notifyMu = Nobody

Rest == AtRest /\ UNCHANGED vars

ServiceNext ==
    \/ \E p \in Proc : Notify(p)
    \/ \E s \in Starters : Start(s)
    \/ \E c \in Cancellers : Cancel(c)
    \/ \E i \in Ops : Run(i) \/ WorkReturn(i) \/ WorkExit(i) \/ Deadline(i)
    \/ Shutdown
    \/ Rest

(* Next: with any caller's context.  ServiceNext: with that of the product,*)
(* whose Wails context nothing cancels.                                    *)
Next == ServiceNext \/ ParentCancel

Spec == Init /\ [][Next]_vars

ProductSpec == Init /\ [][ServiceNext]_vars
-----------------------------------------------------------------------------
(***************************************************************************)
(* Fairness.  Every goroutine that is not blocked keeps running, and Go's  *)
(* timers fire.  Nothing is assumed of the callers (nobody has to Start,   *)
(* Cancel or shut down), or of the workflow: it need not react to its      *)
(* context, nor ever return.                                               *)
(***************************************************************************)
Fairness ==
    /\ \A p \in Proc : WF_vars(Notify(p))
    /\ \A s \in Starters : WF_vars(StartRegistered(s) \/ StartRefused(s) \/ StartRun(s))
    /\ \A i \in Ops : WF_vars(Run(i)) /\ WF_vars(WorkExit(i)) /\ WF_vars(Deadline(i))
    /\ WF_vars(Shutdown /\ pc[Main] # "idle")

FairSpec == Spec /\ Fairness

-----------------------------------------------------------------------------
(* The processes about to hand their snapshot to notify.                   *)
Notifying == {p \in Proc : pc[p] \in {"release", "notify", "emit"}}

(***************************************************************************)
(* Somebody is on the way to finish the current operation: its Start call  *)
(* has still to start the run goroutine, or that goroutine has not yet     *)
(* resolved it (service.go:72-85,151-201).  An operation nobody owns would *)
(* stay in progress for ever and block every later Start.  That is what    *)
(* becomes of one whose parent context ends: run then asks for a           *)
(* transition that the registry refuses (service.go:189-196).              *)
(***************************************************************************)
OwnedByStarter(id) ==
    \E s \in Starters : /\ snap[s].id = id
                        /\ pc[s] \in {"notify", "emit", "spawn"}

OwnedByRunner(id) ==
    \/ pc[id] \in {"transition", "spawn", "select", "finish"}
    \/ pc[id] \in {"notify", "emit"} /\ snap[id].state = "running"

OperationIsOwned ==
    InProgress /\ ~parentDone =>
        OwnedByStarter(current.id) \/ OwnedByRunner(current.id)

(***************************************************************************)
(* lifecycle.mu is held by the one call that is inside Start's or          *)
(* Shutdown's critical section, Shutdown's spanning its whole Cancel and   *)
(* notify; a Start inside it has room for one more operation               *)
(* (service.go:65-79,142-147).                                             *)
(***************************************************************************)
LifecycleIsExclusive ==
    /\ \A s \in Starters : pc[s] = "register" => /\ lifecycleMu = s
                                                /\ sequence < MaxOps
                                                /\ ~shuttingDown
    /\ pc[Main] \in {"current", "cancel", "release", "notify", "emit", "unlock"} =>
           lifecycleMu = Main /\ shuttingDown
    /\ sequence <= MaxOps

(***************************************************************************)
(* Why an operation in progress is owned when no parent context ends: its  *)
(* owner is the only goroutine working on it, an ended context other than  *)
(* by deadline means an accepted cancellation, and so the terminal state   *)
(* its run goroutine asks for is always one that Finish grants.            *)
(***************************************************************************)
Resolved(i) ==
    \/ pc[i] \in {"release", "return", "done"}
    \/ pc[i] \in {"notify", "emit"} /\ snap[i].state # "running"

Publishes(s) == pc[s] \in {"notify", "emit", "spawn"}

RunnersFollowTheRegistry ==
    \A i \in Ops :
        /\ i > sequence => /\ pc[i] = "idle" /\ ctx[i] = "none"
                           /\ work[i] = "none" /\ result[i] = {}
        /\ OwnedByRunner(i) => current.id = i /\ InProgress
        /\ pc[i] = "transition" => current.state # "running"
        /\ OwnedByRunner(i) /\ pc[i] # "transition" => current.state # "starting"
        /\ pc[i] = "finish" =>
               /\ IsTerminal(snap[i].state)
               /\ snap[i].state = "cancelled" => current.state = "cancelling"
        /\ Resolved(i) => ~(current.id = i /\ InProgress)

EndedContextsAreExplained ==
    \A i \in Ops :
        /\ ctx[i] = "canceled" /\ current.id = i =>
               current.state \notin {"starting", "running"}
        /\ \A answer \in result[i] :
               answer.outcome = "cancelled" => ctx[i] = "canceled"

OwnershipInvariant ==
    /\ OperationIsOwned
    /\ ~parentDone
    /\ RunnersFollowTheRegistry
    /\ EndedContextsAreExplained
    /\ \A s \in Starters : Publishes(s) =>
           /\ current.id = snap[s].id
           /\ current.state \in {"starting", "cancelling"}
           /\ pc[current.id] = "idle"
    /\ \A s, t \in Starters : Publishes(s) /\ Publishes(t) => s = t
    /\ \A s \in Starters : pc[s] # "release"
    /\ \A p \in Proc : pc[p] = "release" =>
           snap[p].state = "cancelling" \/ IsTerminal(snap[p].state)

(***************************************************************************)
(* A workflow that outlived its operation, because the operation timed out *)
(* or was cancelled while the workflow was busy, works under a context     *)
(* that has already ended, also after the next operation has started       *)
(* (service.go:184-200, registry.go:115): its next check makes it stop.    *)
(***************************************************************************)
LeftoverWorkflowIsSignalled ==
    \A i \in Ops :
        work[i] = "running" /\ ~(current.id = i /\ InProgress) => ctx[i] # "live"

(***************************************************************************)
(* The terminal state tells why the operation ended: timed_out only after  *)
(* its deadline, completed and failed only as its workflow answered, and   *)
(* an error code exactly on failure (service.go:184-200,216-233).  An      *)
(* answer is gone from the channel once received, so the run goroutine's   *)
(* choice is judged by what the context still says.                        *)
(***************************************************************************)
TerminalStateIsExplained ==
    /\ current.state = "timed_out" => ctx[current.id] = "deadline"
    /\ current.state \in {"completed", "failed"} =>
           work[current.id] \in {"answered", "done"}
    /\ current.code # "none" <=> current.state = "failed"

(***************************************************************************)
(* When Shutdown returns nil, no run or workflow goroutine is left, the    *)
(* operation has ended, unless its parent context ended it unseen by the   *)
(* registry, and no Start call is under way (service.go:134-149).          *)
(***************************************************************************)
ShutdownLeavesNothingBehind ==
    pc[Main] = "done" =>
        /\ InProgress => parentDone
        /\ \A i \in Ops : pc[i] \in {"idle", "done"} /\ work[i] \in {"none", "done"}
        /\ \A s \in Starters : pc[s] = "idle"

(***************************************************************************)
(* No event reaches the listener once Shutdown has returned nil, although  *)
(* Cancel calls that are not counted in the WaitGroup may still be inside  *)
(* notify (service.go:89-98,203-214).  Only an operation that its parent   *)
(* context left in progress can still be cancelled then.                   *)
(***************************************************************************)
NoEventAfterShutdown ==
    [][pc[Main] = "done" /\ ~parentDone => UNCHANGED lastEvent]_vars

(***************************************************************************)
(* The WaitGroup is never revived: once Shutdown waits on it, its counter  *)
(* does not leave zero again, which is what sync.WaitGroup demands of Add  *)
(* concurrent with Wait (service.go:71,170); and it never goes negative,   *)
(* which would panic.                                                      *)
(***************************************************************************)
WaitGroupIsNotRevived ==
    [][wg' >= 0 /\ (shuttingDown /\ wg = 0 => wg' = 0)]_vars

(***************************************************************************)
(* An accepted cancellation wins over every other end, and the operation   *)
(* is not replaced before it has ended (registry.go:81-82).                *)
(***************************************************************************)
CancellationIsBinding ==
    [][current.state = "cancelling" =>
           current' \in {current, SnapshotOf(current.id, "cancelled", "none")}]_vars

(***************************************************************************)
(* The listener's view: the events of this service are a LaunchEvents      *)
(* story (service.go:203-214).                                             *)
(***************************************************************************)
EventLog == INSTANCE LaunchEvents WITH last <- lastEvent

EventsTellOneStory == EventLog!Spec

(***************************************************************************)
(* Why it holds.  Every registry write makes one new snapshot and one      *)
(* goroutine that will announce it; nothing pending or announced is ahead  *)
(* of the registry, nothing announced is still pending, and whoever has    *)
(* compared its snapshot with the registry keeps notifyMu until it has     *)
(* delivered it.                                                           *)
(***************************************************************************)
NoLaterThan(s, t) == s = t \/ EventLog!Follows(s, t)

PendingEventsAreOrdered ==
    /\ current.id = sequence
    /\ NoLaterThan(lastEvent, current)
    /\ \A p \in Notifying :
           /\ snap[p] \in Snapshots
           /\ NoLaterThan(snap[p], current)
           /\ snap[p] # lastEvent
    /\ \A p, q \in Notifying : snap[p] = snap[q] => p = q
    /\ \A p \in Proc : pc[p] = "emit" => /\ notifyMu = p
                                       /\ EventLog!Follows(lastEvent, snap[p])

(***************************************************************************)
(* Every operation ends, by its deadline at the latest and whatever its    *)
(* workflow does, so that the next Start can be accepted (service.go:12,   *)
(* 184-200); unless the parent of its context ends first.                  *)
(***************************************************************************)
EveryOperationEnds ==
    \A i \in Ops : (current.id = i /\ InProgress)
                      ~> (~(current.id = i /\ InProgress) \/ parentDone)

(***************************************************************************)
(* The listener learns how an operation ended, unless a newer operation    *)
(* has taken its place first (service.go:210-213).                         *)
(***************************************************************************)
EndIsAnnounced ==
    \A i \in Ops :
        (current.id = i /\ ~InProgress) ~> (lastEvent = current \/ current.id > i)

(***************************************************************************)
(* Shutdown comes back, by its own context at the latest                   *)
(* (service.go:126-149).                                                   *)
(***************************************************************************)
ShutdownEnds == shuttingDown ~> pc[Main] \in {"done", "expired"}

(***************************************************************************)
(* Behind it the service drains: soon nothing but workflows that do not    *)
(* react to the end of their context are left to wait for                  *)
(* (service.go:71-86,170-200).                                             *)
(***************************************************************************)
Leftovers == {i \in Ops : work[i] = "running"}

ShutdownDrains ==
    shuttingDown ~> /\ InProgress => parentDone
                    /\ wg = Cardinality(Leftovers)
                    /\ \A i \in Leftovers : ctx[i] # "live"
=============================================================================
