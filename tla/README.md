# Formal model of browser-launcher

browser-launcher is a Wails desktop application: the user enters the bounds a
Chrome window should have, the application starts Chrome, waits for the window
that Chrome finally keeps, and moves it there. One launch is an *operation*
that may be cancelled, times out after 60 seconds, and reports its progress to
the frontend as events.

This directory holds TLA+ modules that model that program from its source, the
TLC configurations that check them on small instances, and TLAPS proofs of the
properties that matter most. Line numbers below refer to `src/`; paths are
relative to `src/internal/` unless they start with another directory.
`PROJECT.json` lists the source lines of every definition.

## 1. The system

| component | source | state | operations |
|---|---|---|---|
| operation registry | `application/chromelaunchoperation/{model,registry}.go` | the latest operation's snapshot and cancel function, the ID counter; one mutex | Start, Transition, Finish, Cancel, Current, Get |
| launch service | `application/chromelaunchoperation/service.go` | `lifecycle` (mutex, `shuttingDown`, WaitGroup), `notifyMu`, one context and two goroutines per operation | Start, Cancel, Current, Get, Shutdown, run, notify |
| launch workflow | `application/chromelaunchoperation/workflow.go` | local to one call of Run: the tracking session it must close | Run: prepare, detect, begin tracking, launch, track, place |
| tracking session | `application/chromewindowtracking/` | `used`, `closeOnce`, `closeErr`; the candidate tracker: baseline, first-seen numbers, current candidates, flags | Begin, Wait, Close, observe, timeoutResult |
| observation | `infrastructure/chromewindowtracking/{observer,snapshot}.go` | the hook, a ticker, `closeOnce` | Start, Next, Close |
| change hook | `infrastructure/chromewindowtracking/hook_windows.go` | a thread with a Windows message loop, a one-slot notification, a one-slot failure and a one-slot result channel; for all hooks, the map from handles to hooks | start, run, loop, dispatch, Close |
| window enumeration | `infrastructure/chromewindowtracking/snapshot_windows.go` | none | enumerate Chrome's top-level windows |
| placement service | `application/chromewindowplacement/` | none | Place: validate, resolve the final bounds, map the provider's result |
| placement provider | `infrastructure/chromewindowplacement/` | local to one call: actual bounds, whether the window was changed | Place: move, wait for stability, correct, verify |
| launch conditions | `application/launchcondition/`, `domain/launchcondition/` | none | Validate, Prepare, ResolvePhysicalBounds |
| Chrome detection and start | `application/chromelaunch/`, `infrastructure/chromedetection/`, `infrastructure/chromelaunch/` | none | Detect, LaunchDetected |
| work areas | `infrastructure/display/` | none | enumerate monitors |
| Wails controllers | `adapter/wails/` | the Wails runtime context | StartLaunch, CancelLaunch, GetLaunchState, GetCurrentLaunchState, Notify |
| application | `main.go` | none | start, OnShutdown with five seconds |
| frontend | `frontend/src/App.tsx` | the state on the screen, the count of events, whether a start or a cancellation is awaited | submit, cancel, listen, fetch the current state |
| application information, spikes, scripts | `application/appinfo/`, `scripts/spike/` | – | not part of the product's behaviour |

How they interact. The frontend calls the controllers, and Wails runs each call
on a goroutine of its own. `StartLaunch` calls `Service.Start`, which registers
the operation, announces `starting` and starts the *run goroutine*. That one
moves the operation to `running`, announces it, starts the *workflow goroutine*
and waits for its answer or for the end of the operation's context (cancelled,
or 60 seconds over), asks the registry to finish the operation and announces
the end. `CancelLaunch` marks the operation `cancelling` in the registry, which
then cancels the context. The workflow looks at the context between its stages;
in the tracking stage it waits in the session's loop, where a Windows hook and
a ticker make it take snapshots of Chrome's windows. On exit, `OnShutdown`
refuses further operations, cancels the current one and waits for the WaitGroup
or five seconds.

What is hard about it:

- *Interleavings*: Start, Cancel, Shutdown, the run and the workflow goroutine
  meet in the registry, in two mutexes, in a WaitGroup and in a context. The
  registry is unlocked between recording a state and announcing it.
- *Races of ends*: an answer, a cancellation and a deadline can be under way
  together, and each must lead to one terminal state that is true.
- *Goroutines that stay*: a workflow that does not react to its context
  outlives its operation, and runs on beside the next one.
- *Unreliable observation*: window events are coalesced and may be missing;
  windows come, go and come back between two snapshots.
- *Snapshots that take time*: windows are listed first and then looked at one
  by one, and open and close meanwhile.
- *Threads that are given back*: a hook's thread returns to Go with its message
  queue, and with whatever was posted there too late.
- *A page that is told twice*: the state of an operation reaches the page as
  answers and as events, in any order, and the page may be mounted again.
- *Release on every path*: a session owns a thread and a ticker, and every
  early return has to release them.
- *Stale knowledge*: time passes between the choice of a window and its move,
  and between the last check of its identity and the move; and a context may end
  right after it was looked at.

What makes each component correct:

- registry and service: one operation at a time; somebody always owns it and
  ends it; an accepted cancellation wins; the listener is told one forward-only
  story; Shutdown comes back, and a clean one leaves nothing behind;
- workflow: what is still called after the context has ended is at most the one
  call that was being decided, and Wait after the start of Chrome, and moves
  nothing; the observation is closed on every way out, and if its hook may be
  left the answer says that something failed; an answer names a failure exactly
  when there is one and tells the truth about the context;
- session: a window is chosen only when it has replaced another new one, never
  from a snapshot that the end of the context overtook, and never one that was
  there all along; polling makes up for lost events;
- hook: Close comes back; one without an error leaves nothing behind; a hook
  that listens is heard, and stops by itself only for a reason that is known;
- frontend: nothing newer is overwritten by something older, and in the end
  the page shows what the registry holds;
- placement: a window that has come by the handle of the chosen one is moved at
  most once, and never as part of a success; the window is resized only once it
  has settled on the target monitor; a success is measured, a partial change is
  reported, and at most one measurement or move follows the end of the context;
- conditions: what is accepted is converted exactly and lies inside its work
  area, what is refused does not, whatever overflows on the way; the blamed
  field is to blame.

## 2. The modules

| module | models | state ↔ code |
|---|---|---|
| `OperationModel` | `model.go`, the result types of `workflow.go` | `CanTransition` is `canTransition`; `TerminalState`, `TerminalCode` are `terminalSnapshot`; `ContextTerminalState` is the choice of `run` for an ended context |
| `Registry` | `registry.go` | `sequence` is `r.sequence`, `current` is `r.current.snapshot`. One method is one step, because it is one critical section of `r.mu`; the cancel function it calls after unlocking is a step of its own in `LaunchService` |
| `LaunchService` | `service.go`, with the controllers' calls and `OnShutdown` as its environment | `pc[p]` and `snap[p]` are the program counter and the local snapshot of a goroutine; `ctx[i]` is `ctx.Err()` of operation *i*; `work[i]` its workflow goroutine; `result[i]` the one-slot result channel; `lifecycleMu`, `shuttingDown`, `wg` are `lifecycle`; `notifyMu` the notification mutex; `lastEvent` what the notifier was last given; `drained` is wait's `done` channel |
| `LaunchEvents` | abstract: what a listener may rely on | `last`, the latest event |
| `CandidateTracker` | `candidateTracker` in `chromewindowtracking/service.go` | one variable per field, sets of windows for its maps; a window stands for its key (handle, process ID, process start time) |
| `WindowTracking` | `Session`, `Observation`, `Provider.snapshot`, and the hook as they see it | `session` is where the goroutine is; `unseen` the handles `snapshot` has still to look at, `event` the event it is making or Next has returned; `used`, `closed`, `closeErr` the fields of `Session`; `notified`, `hookFailed` the hook's channels; `live` Chrome's visible windows; `tracked` the Result; `observation` also says whether its Close may have left the hook installed (`"left"`). Auxiliary: `stayed`, the windows that have been there all along, and `late` of an event, that a window of its snapshot was looked at after the end of the context |
| `ChangeHook` | `hook_windows.go`: any number of hooks, their owners and goroutines | `caller[h]` and `run[h]` are the places of a hook's owner and goroutine; `threadID`, `notified`, `failure`, `result`, `done`, `closeErr` the fields of `windowsChangeHook`; `entry` is the map `winEventHooks`; `queues`, `quits`, `installed` what Windows keeps; `quitFor` (auxiliary) for which hook a WM_QUIT had been posted |
| `LaunchUI` | the launch part of `App.tsx`, the controller's calls and events, over `Registry` | `screen`, `version`, `accepting`, `cancelling` are the refs and states of the page, `mount` which page it is; `sent`, `served` the calls under way in the application, `wire` the queue of scripts to the page; `telling`, `emitting` the announcements of `notify`; `fromEvent` (the screen shows an event) and `orphans` (answers of StartLaunch still on their way to a page that is gone) are auxiliary |
| `LaunchWorkflow` | `Workflow.Run` over an instance of `WindowTracking`, and the moves of `Provider.Place` | `stage` is where Run is, inside Place (`Placing`) the stage of its result, with the place between the last check and Move apart (`moving`, `resizing`); `answer` its WorkflowResult; `launched`, `moved` its effects, `Stranger` being any other window that has come by the handle; `late` (auxiliary) counts the calls of other services begun after the context had ended |
| `WorkflowContract` | abstract: what the service relies on from Run | `ctx`, `answer` |
| `WindowPlacement` | `Service.Place` and `Provider.Place` | `pc` and `result.stage` together are the place in the code (each stage asks, identifies and acts in the same way); `result` is `placement.Result`; `settled`, `previous`, `stable`, `taken` the locals of the stability wait; `window`, `alive`, `ended` the world; `samples`, `attempts`, `late`, `strays` history for the properties |
| `LaunchConditions` | `application/launchcondition`, `domain/launchcondition` | one call of Prepare: `input`, `workArea`, `outcome`. `Scale`, `Add`, `InvalidBounds`, `End` compute in Go's wrapping integers; `Nearest` and the `Exact...` operators are the reference, in unlimited ones |
| `TrackerHistory` | `CandidateTracker` fed with every sequence of snapshots | `history` is what it has been fed; `FirstTime`, `GoneBy`, `ReplacementIn` compute from the whole history what the fields keep incrementally |
| `MCLaunchService`, `MCWindowPlacement`, `MCLaunchConditions` | instances for TLC | |
| `MCFunctions` | the instances of `LaunchConditions` and `TrackerHistory` side by side | while one of the two takes steps the other has not begun |
| `LaunchServiceProofs`, `LaunchOwnershipProofs`, `LaunchUIProofs`, `TrackingProofs`, `LaunchWorkflowProofs`, `ChangeHookProofs`, `WindowPlacementProofs`, `LaunchConditionsProofs` | theorems and proofs | |

A step ends where the code releases a mutex, blocks, looks at a context, calls
the operating system or lets another goroutine run: the context may end between a look at
it (`Look`, `Proceed`, `Confirm`) and the step that follows, and a window may go
between the check of its identity and its move. In `notify`, taking `notifyMu` and comparing with the
registry are one step, the delivery another: the registry may move on in
between, as in the code. Calls that are refused and change nothing (Start during an
operation is refused only after it has been counted in, so it *is* modelled)
have no action.

Composition: `LaunchService` and `LaunchUI` extend `Registry`; `WindowTracking`
extends `CandidateTracker`; `LaunchWorkflow` instantiates `WindowTracking`. The
service does not contain the workflow's stages: it lets a workflow answer
whatever `AgreesWithContext` permits at whatever time, or never. That this
over-approximates the real workflow is `KeepsTheContract`, a refinement
`LaunchWorkflow` ⇒ `WorkflowContract`, checked by TLC; its safety part is proved
(`ContractIsKept`). In the same way
`EventsTellOneStory` is the refinement `LaunchService` ⇒ `LaunchEvents`,
checked and proved. `LaunchWorkflow` sees a placement as two moves, each after
the checks of the identity and the context and before a wait that checks them
again; `WindowPlacement` looks inside, with the samples of the waits, the window's
rectangle and DPI, what a failure reports, and the final bounds as a constant function of the measured monitor and DPI, whose
arithmetic is the subject of `LaunchConditions`. `WindowTracking` sees a hook as
notifications that come or do not and as a failure; `ChangeHook` looks inside.
`LaunchUI` has the operations of `LaunchService` without their workflows: a run
goroutine goes from state to state, each goroutine announces in the order that
`notify` imposes, and `EventsAreNotTakenBack` uses `LaunchEvents!Follows`.

Abstractions. Error codes are members of a small set; messages and layout are
left out. In `WindowPlacement` a rectangle is a model value and a *setting*
stands for a monitor with its areas and DPI; one measurement is one step,
although it is made of four Win32 calls. In `LaunchConditions` a field holds
nothing, something malformed (which includes numbers that no int holds), or a
number; both axes are treated alike, as in the code. Preparing, detecting, launching and placing are
calls that return or fail; a failed start may have started the process all the
same (`start_windows.go` can fail after the process exists). In a
snapshot, `Inspect` and `Revalidate` of a window are one look: the answer counts
that was given last, and a window that is gone or hidden by then is skipped.
Hiding a window raises no event, and events are coalesced, hence
`DispatchWinEvent` is not tied to `WindowsChange`. In `ChangeHook` a window event
that waits in a queue is the same as a later one, and a thread keeps its queue
for ever. In `LaunchUI` no message is lost: Wails runs the scripts it sends to
the page in order; calls overtake one another. A page that is mounted again
drops the answers to the old one (`active`, or a component that is gone).

## 3. The runs

| run | instance | what it shows |
|---|---|---|
| `service` | 1 Start caller, 1 Cancel caller, 2 operations, workflows that complete, cancel, time out or panic, `ProductSpec` | the invariants of ownership, terminal states, event order and shutdown |
| `service_live` | 1 Start caller, 2 operations, workflows that cancel, panic or never answer, a parent context that may end, `FairSpec` | every operation ends and its end is announced; Shutdown returns and the service drains |
| `functions` | ints of 2002 values, 9 contents for each of 4 fields, 7 work areas; 3 windows, 5 snapshots | conversion, containment and blame agree with exact arithmetic; the incremental bookkeeping of the tracker agrees with the whole history |
| `rounding` | as the fields and work areas above | **violated**, see section 5 |
| `tracking` | 3 windows, 2 snapshots after the baseline, `FairSpec` | soundness of the choice though snapshots take their time and the context ends between any two steps, release, polling |
| `tracking_loss` | 2 windows, 3 snapshots | **violated**, see section 5 |
| `workflow` | 2 windows, 3 snapshots, `FairSpec` | the workflow's obligations and its contract |
| `unique` | 3 windows, 3 snapshots | **violated**, see section 5 |
| `hook` | 2 hooks, 2 threads, 2 handles, `FairSpec` | a clean Close leaves nothing, early ends are explained, events find their hook, Close returns |
| `ui` | 2 operations, 2 mounts, 2 messages under way when a button is pressed | the page ends up with the state of the registry, and never goes back behind an event |
| `ui_sync` | the same | **violated**, see section 5 |
| `placement` | 2 rectangles, 3 settings, 3 equal samples out of 5, `FairSpec` | what a success and a failure of a placement mean; it stops before its next measurement or move, and ends |

Bounds. `MaxOps` (2): what one operation can leave to the next (a workflow that
outlives it, an event still to be delivered, a late Cancel with the old ID)
needs two, and the theorems hold for every value. Symmetry is not used.
`MaxSnapshots` (2 to 5) and two or three windows: a replacement takes two
snapshots, a return three, two replacements with a return five; in `tracking`
the third window is the one that has been there all along, and the two
snapshots are the one that sees the first window and the one that sees its
replacement. In `functions`, which has the full bookkeeping, every history of
three windows in five snapshots is covered. `MCFunctions` switches
deadlock checking off because the history is bounded (`MaxHistory`) and one call of
Prepare returns once, `MCWindowPlacement` and `MCLaunchConditions` because one
call returns once, `ChangeHook` because each hook
is started and closed once, `LaunchUI` because its user may be done; everywhere
else it is on. `service` has the product's context, which nothing cancels
(`ProductSpec`): with its cancellation the instance is twice as large, and
`service_live` has it. Two hooks, threads and handles are what it takes for one hook to
inherit the thread or the number of another, and `ChangeHookProofs` has any
number of them. In `ui`, `MaxPending` (2) bounds what is under way when the user
presses a button, not what the application does meanwhile; two operations and
two mounts are what it takes for an answer or an event to concern another
operation or an earlier page. It takes a third operation for two lost answers
to meet; the theorems of `LaunchUIProofs`, which hold for any bounds, cover it. The end of an operation is `completed`,
or `cancelled` after a cancellation: the page treats all ends alike.
`RequiredSamples` is the code's 3; `MaxSamples` is 60 there and 5 here, enough for
a window that changes after two equal samples and then settles, and for one
that never does. One of the three settings lies elsewhere and one has no valid
final bounds. `MaxInt` (1000) is as small as lets a few values overflow at each
of the four stages and a few not; the work areas lie beside a taskbar, at
negative origins, at the end of the integers, and one is empty. Both theorems
hold for every `MaxInt` of at least 96.

Fairness. `LaunchService!FairSpec`: weak fairness of each goroutine's own steps
(the Go scheduler runs every runnable goroutine; a goroutine waiting for a
mutex gets it eventually, Go's mutexes being starvation-free), of `Deadline`
(the timer of `context.WithTimeout` fires) and of a Shutdown that has begun
(its context has a deadline in `main.go`). Nothing is assumed of the callers,
or of the workflow, which may never answer. The context given to Start may be
cancelled by its owner, and the properties say what that excepts.
`WindowTracking!FairSpec`: the session's goroutine runs and its ticker ticks.
Nothing is assumed of the hook, of Chrome or of the context.
`ChangeHook!FairSpec`: the goroutines of the hooks run, a Close that has begun
goes on, and a message loop comes to a WM_QUIT that has been posted to it;
nothing makes an owner start or close a hook, no window event need come, and
the calls of Windows may fail.
`LaunchWorkflow!FairSpec`: the goroutine runs and the calls it makes return (the
stability waits of Place have a time limit of their own).
`WindowPlacement!FairSpec`: the goroutine of Place runs, the system calls it
makes return and its timer fires; nothing is assumed of the window or the context.
`PollingFindsTheReplacement` starts where one more snapshot is within the bound
`MaxSnapshots`, and that one has to choose the window or fail, unless the context
ends or the windows change again.

Mutants. Most modules hold, beside an action, a variant of it marked "Mutant":
the same code with a plausible slip. Substituted for the original, each makes
TLC find the property it is listed with in `PROJECT.json` violated.

## 4. The proofs

All theorems are about the specifications as they are checked, for every value
of the constants. Assumptions: the callers, operations and "nobody" are
distinct (`ProcessesAreDistinct`), `WorkflowResults` are workflow results
(`BoundsAssumption`), `MaxSnapshots` and the bounds of `LaunchUI` are natural
numbers (`UIAssumption`), another window is none of the tracked ones
(`StrangerAssumption`), `None` is no hook, thread or handle
(`NoneAssumption`), "no bounds" is no rectangle (`PlacementAssumption`), and
what is said of `LaunchConditions` below.

- `LaunchServiceProofs`. `TypeCorrect`. `LifecycleExclusive`: `lifecycle.mu` does
  protect its critical sections. `PendingEventsOrdered`: the strengthening of
  the event story is inductive: each registry write creates one new snapshot
  and one goroutine that holds it, so no two goroutines hold the same one, none
  is ahead of the registry, and none still to be delivered has been delivered.
  `ServiceTellsOneStory`: hence every step of the service is a step or a
  stutter of `LaunchEvents`. `CancellationBinding`: from the type invariant and
  the transition table. `OperationsHandedOver`: the workflow and the run
  goroutine of an operation start once, after the Start call that registered it
  has taken its share of the WaitGroup. `WaitGroupIsExact`: the WaitGroup's
  counter is the number of Start calls, run goroutines and workflow goroutines
  that owe it a Done (`WaitGroupCounts`), each Add and Done changing one of
  three sets by one member. `WaitGroupNotRevived` follows: who adds while
  Shutdown may already be waiting is counted itself (`WhoAdds`), so the
  counter does not rise from zero again.
- `LaunchOwnershipProofs`. `OperationOwned`: the inductive invariant is
  `OwnershipInvariant`, until the parent of the contexts ends. It is needed
  because an operation is handed from goroutine to goroutine (Start call, run
  goroutine), and because what run asks for must be granted: a context that
  ended other than by deadline must mean an accepted cancellation. For
  `ProductSpec`, where nobody cancels the context given to Start,
  `RequestsAreExplained` adds that what the run goroutine is about to ask for
  follows from the workflow's answer or the end of the context, both of which
  happen once; `LeftoversAreSignalled` and `TerminalStatesAreTrue` follow.
  With the exact count of the WaitGroup, ownership also yields
  `NothingLeftBehind` (once Shutdown has seen the WaitGroup at zero nobody is
  left, so the registry is idle), and, as a cancellation Shutdown has asked for
  is in effect before Shutdown returns, `SilenceAfterShutdown`.
- `TrackingProofs`. The inductive invariant `TrackingInvariant` joins the
  tracker's bookkeeping (`TrackerInvariant`), what each place in the session implies,
  and that results are earned. `ChoiceSound`, `ResultTruthful`,
  `ObservationReleased` and `NoLateLookDecides` follow; for the last one the invariant
says that a snapshot can only hold a late look if the context has ended, so that the
look at the context which follows Next turns it away. That the maximum of a set of
  first-seen numbers exists is carried as a conjunct (`MaximaExist`), as the
  induction theorem for finite sets is out of the prover's reach.
  `OldWindowsAreSafe` needs an invariant of its own, `OldWindowsAreKnown`: a
  window that has been there all along is either in the baseline already or
  still to be looked at by the snapshot that becomes it, so it is never new.
  `TrackerRemembersAll`: at every step of `TrackerHistory` the fields are the
  functions of the whole history that the reference operators define. Its
  invariant, `HistoryInvariant`, has the order of the first-seen numbers equal to
  that of the first times, and the flags equal to a quantification over all
  earlier snapshots.
- `LaunchWorkflowProofs` lifts those results to the workflow. Every step of the
  workflow is a step of its session or leaves the session alone (`SameStep`), so
  the session's invariant holds inside the workflow (`SessionInvariant`).
  `RunInvariant` adds what the stages imply: which session belongs to which
  stage (`StageMatchesSession`), that a call begun after the end of the context
  is followed by a look at the context, but for Wait after the start of Chrome
  (`LateCallIsTheLast`), which settles at its own first look (`SettledAtOnce`); that windows
  move only while placing, and that a stray move stands before the next check of
  the identity, which it cannot pass as a handle does not come back
  (`OnlyPlacingMoves`); and that a hook which may be left makes the answer a
  failure (`LossOfHookIsTold`). `WorkflowTypes`, `LateCallsAreHarmless`,
  `ObservationIsReleased`, `StrayMovesAreFoundOut` follow, and `ContractIsKept`: the
  workflow answers once and as the safety part of `WorkflowContract` allows, which
  is what `LaunchService` relies on.
- `ChangeHookProofs`, for any number of hooks, threads and handles. The inductive
  invariant `HookInvariant` matches the places of owner and goroutine
  (`PlacesMatch`), says what a closed `done` and a result mean (`DoneIsTrue`),
  that installed hooks have handles of their own (`HandlesDiffer`) and an entry
  in the map from the first moment they wait for events (`EntriesAreLive`), that
  two loops never share a thread (`ThreadsDiffer`), and where a WM_QUIT and an
  early end come from (`QuitsArePosted`, `EndsAreExplained`). Theorems:
  `TypeCorrect`, `NothingIsLeft`, `SilenceIsExplained`, `EventsFindTheirHook`.
- `WindowPlacementProofs`, for every number of samples, set of rectangles and of
  settings. `StepCases` sorts the steps into six kinds; the invariant `Inv` says
  which steps a stage has and how often Move has been called in it
  (`PhaseInv`), what the result says of the window (`ReportInv`), that the
  count of equal samples is that of the latest ones (`SamplesInv`), what the
  request follows from (`RequestInv`), whose samples they are (`OwnInv`), and
  that a late or stray measurement or move stands before the next check
  (`LateInv`). `PlacementStopsPromptly` is about Measure and Move: entering the
  DPI-aware context, the checks of the identity and TargetMonitor
  (`placement.go:51-70`) go ahead in an ended context, and so does the first
  measurement, which counts as the one late call.
- `LaunchConditionsProofs`, for every width of int and every set of inputs and
  work areas, assuming `ScreensAreSmall`: a work area does not reach so far from
  its monitor's origin that the scaling of a coordinate inside it could
  overflow (Windows coordinates have 32 bits, an int of the supported builds
  64). The guarded product does not wrap (`GuardedScaleIsExact`), what the
  guard refuses is larger than any screen (`RefusedScaleIsHuge`), and each
  stage of `ResolvePhysicalBounds` blames only what is outside.
- `LaunchUIProofs`, for any number of operations, mounts and messages under way.
  `TypeCorrect`; `EventsArriveInOrder`: what waits in the queue and what is
  being announced is in the order of `LaunchEvents`, and later than what an
  event has shown; `LateAnswersTakeNothingBack`: an answer asked for before an
  event has a version that the event has outdated. `QuietPageIsCurrent` says the
  most: when nothing is under way, the page shows what the registry holds, unless
  no page took the answer to the start of the latest operation while it showed an
  older one. It is a chain of invariants, each resting on the one
  before: the versions, counters and orders above (`Basics`); a page has one
  call of each kind under way (`OneCallEach`); no message knows more than the
  registry (`Knowledge`); every state of the registry is announced or about to
  be (`Announcements`); every start is answered, or its loss recorded
  (`StartsAreTold`); so the page follows the latest operation unless its start
  has been lost (`Attached`), and it shows the last event it was sent of the
  operation it follows (`HeardIsShown`). Together they are `Synchronised`.

Model-checked only: `EveryOperationEnds`, `EndIsAnnounced`, `ShutdownEnds`,
`ShutdownDrains`, `WaitEnds`, `PollingFindsTheReplacement`, `CloseReturns`,
`PlaceEnds` and the liveness part of `KeepsTheContract`. They rest on fairness,
which is out of the prover's reach. Every safety property that a passing run
checks is stated by a theorem.

## 5. Where code and documents disagree

- **A page that is mounted again may miss a whole operation** (run `ui_sync`).
  It asks for the current state once (`App.tsx:93-103`). If `StartLaunch` is under
  way then, the answer may be the operation before; the answer of `StartLaunch`
  goes to the page that is no longer there; and from then on the events of the
  new operation are ignored, as the page shows another one and does not
  wait for one to begin (`App.tsx:85-88`). Without a second mount the same comes
  of a late event of an older operation between the refresh that follows
  `already_finished` and the answer to Start. ADR 0003 (line 102) promises
  synchronisation with the registry after a mount.
- **The loss of all candidates is reported as a plain timeout** (run
  `tracking_loss`). `Session.wait` looks at the context first
  (`chromewindowtracking/service.go:66-68`), and the product's observation
  reports `timed_out` only of that same context, so `timeoutResult` is never
  reached. ADR 0002 (line 75) has it as done that a cancellation and an
  unexpected loss of the candidate can be told apart as results of the product,
  and rests it (lines 85-86) on the tracking result and error code of a loss:
  `TestSessionWaitClassifiesTerminalEvents` gets `candidate_lost` from an
  observation of its own, which returns `timed_out` of a live context, and
  `TestWorkflowClassifiesTrackingOutcomes` hands it to the workflow. The product
  never reports it; a cancellation is still told apart from a timeout.
- **Uniqueness is not confirmed before a move** (run `unique`). ADR 0001 (line
  114) wants uniqueness and identity confirmed before each operation; the
  provider confirms identity (`placement.go:79, 118`).
- **Fractions of a pixel are rounded to the nearest** (run `rounding`).
  ADR 0004 (line 76) has them rounded away from zero, at every conversion. The
  code adds one half (`launchcondition/service.go:241`), and a test expects that
  one logical pixel at 120 DPI "rounds down" to one (`service_test.go:228`), where
  the ADR would have two. `PreparedExactlyWhenItFits` follows the code and the test.

Not disagreements that the product can run into, but worth knowing:

- If the owner of the context given to Start cancels it, the operation stays
  running: `run` asks for running → cancelled (`service.go:192`), which
  `canTransition` has not (`model.go:55-56`). Nothing in the repository cancels
  the Wails context; the theorems and runs that assume so use `ProductSpec`, and
  the others make the exception by name (`parentDone`).
- When `PostThreadMessage` fails, Close returns the error at once, and the hook
  stays installed on its thread (`hook_windows.go:79-83`); ADR 0002 (line 52) has
  it uninstalled on every path. What holds is that nobody takes it for released:
  Wait and Run then fail (`WaitReleasesObservation`, `RunReleasesObservation`,
  where the observation is `"left"`), and a Close without an error has left
  nothing (`CleanCloseLeavesNothing`).
- Close may post WM_QUIT to a thread whose loop has just ended by itself. Go
  reuses the thread with its message queue, and the message may stop a later
  hook at once, silently: GetMessage returns 0, which is no failure, and the
  session goes on by polling. `EarlyEndIsExplained` counts it among the
  reasons of an early end; ADR 0002 (line 62) does not want silent polling.
- Between `UnhookWinEvent` and the deletion from `winEventHooks` Windows may hand
  the handle to another hook, whose entry the deletion then takes away
  (`hook_windows.go:114, 124-125`); `ListenersAreFound` names this exception.
- The answers of calls do not count in `eventVersionRef`, so what an answer has
  shown may be taken back by an older event or answer; only events are protected.
  The scripts that carry events are not lost in the model; if one were, the page
  would wait for the next event or mount.
- Each snapshot calls `syscall.NewCallback` (`snapshot_windows.go:23`). The
  runtime's table of callbacks is fixed and entries are never released, so the
  number of snapshots in the life of the process is bounded.
- After the second move the DPI and the work area may change without being
  noticed, as only the rectangle is compared with the request
  (`chromewindowplacement/service.go:78`). `PartiallyChanged` is set before the
  first move and so also true when that call itself fails. The last sample
  before a success is the only one after which nobody looks at the identity.
- `replacementObserved` stays set, so after {A} → {B, C} → {A} the returned A is
  chosen; windows opened by the user between baseline and choice are candidates
  like any other.

## 6. Not modelled, and the plan

What is left, in this order:

1. `WindowPlacement` inside `LaunchWorkflow`, in place of its short placing
   stages, and `LaunchConditions` for `FinalBounds`.
2. `ChromeDetection`: the order of registry views and installation paths.
3. Lost events in `LaunchUI`, and a page that retries.

Not planned: the system calls behind windows, monitors and paths (straight
sequences without state; `WindowTracking` has when a window is listed and when
it is looked at), the controllers' translation of error codes into messages,
`GetLaunchState` (the page does not call it), rendering, application
information, spikes and scripts.
