------------------------------ MODULE LaunchUI ------------------------------
(***************************************************************************)
(* The frontend (App.tsx) and what it exchanges with the application: its  *)
(* calls StartLaunch, CancelLaunch and GetCurrentLaunchState, their        *)
(* answers, and the events launcher:state-changed.                         *)
(*                                                                         *)
(* Wails hands every call to a goroutine of its own, so calls overtake one *)
(* another and the events; what goes back to the page, answers and events  *)
(* alike, is one queue of scripts that the page runs in order.  The page   *)
(* may be mounted again: then the answers to the old one are lost on it.   *)
(*                                                                         *)
(* Behind the calls is the registry with the announcements of              *)
(* LaunchService: a snapshot is compared with the registry and then        *)
(* emitted, one at a time, and dropped when it is no longer current.       *)
(***************************************************************************)
EXTENDS Registry, Sequences, FiniteSets

CONSTANTS
    MaxOps,     \* bound on the operations
    MaxMounts,  \* bound on the mounts of the page
    MaxPending, \* bound on what is under way when the user presses a button
    Ends        \* how an operation that is not cancelled ends

ASSUME UIAssumption ==
    /\ MaxOps \in Nat /\ MaxMounts \in Nat \ {0} /\ MaxPending \in Nat
    /\ Ends \subseteq {"completed", "timed_out", "failed"}

VARIABLES
    telling,     \* snapshots whose goroutines are in notify, before the lock
    emitting,    \* {} or {the snapshot found current under notifyMu}
    sent,        \* calls the application has not looked at
    served,      \* calls it has decided, with their answers
    wire,        \* answers and events on their way to the page
    mount,       \* which mount of the page this is
    screen,      \* launchStateRef and launchState, NoSnapshot for null
    version,     \* eventVersionRef
    accepting,   \* acceptingNewOperationRef, and isStarting
    cancelling,  \* isCancelling
    fromEvent,   \* auxiliary: what the page shows was brought by an event
    orphans      \* auxiliary: the operations whose Start answer nobody took

backendVars == <<registryVars, telling, emitting>>
pageVars == <<mount, screen, version, accepting, cancelling, fromEvent>>
vars == <<backendVars, sent, served, wire, pageVars, orphans>>

Calls == [kind : {"fetch", "start", "cancel", "refresh", "none"},
          mount : 0 .. MaxMounts, version : Nat, id : Nat]
Statuses == {"event", "found", "absent", "started", "refused", "accepted",
             "already_cancelling", "already_finished", "not_found"}
Answers == [call : Calls, status : Statuses, snapshot : Snapshots \cup {NoSnapshot}]

Call(kind, id) == [kind |-> kind, mount |-> mount, version |-> version, id |-> id]
AnswerTo(call, status, snapshot) ==
    [call |-> call, status |-> status, snapshot |-> snapshot]

(* An event is an answer to nobody's call.                                 *)
NoCall == [kind |-> "none", mount |-> 0, version |-> 0, id |-> 0]
Event(snapshot) == AnswerTo(NoCall, "event", snapshot)

TypeOK ==
    /\ RegistryTypeOK
    /\ telling \subseteq Snapshots /\ emitting \subseteq Snapshots
    /\ sent \subseteq Calls /\ served \subseteq Answers
    /\ wire \in Seq(Answers)
    /\ mount \in 1 .. MaxMounts
    /\ screen \in Snapshots \cup {NoSnapshot}
    /\ version \in Nat
    /\ accepting \in BOOLEAN /\ cancelling \in BOOLEAN
    /\ fromEvent \in BOOLEAN
    /\ orphans \subseteq Nat

(* The page registers its listener and asks for the current operation.     *)
FirstCall(m) == [kind |-> "fetch", mount |-> m, version |-> 0, id |-> 0]

Init ==
    /\ NewRegistry
    /\ telling = {} /\ emitting = {}
    /\ sent = {FirstCall(1)} /\ served = {} /\ wire = <<>>
    /\ mount = 1 /\ screen = NoSnapshot /\ version = 0
    /\ accepting = FALSE /\ cancelling = FALSE
    /\ fromEvent = FALSE /\ orphans = {}

-----------------------------------------------------------------------------
(***************************************************************************)
(* The operation itself: its run goroutine starts once Start has announced *)
(* "starting", and goes on once it has announced "running".                *)
(***************************************************************************)
Announced(id, states) ==
    \A s \in telling \cup emitting : s.id = id => s.state \notin states

RunTransition ==
    /\ current.state = "starting"
    /\ Announced(current.id, {"starting"})
    /\ RegistryTransition(current.id, "running")
    /\ telling' = telling \cup {current'}
    /\ UNCHANGED <<emitting, sent, served, wire, pageVars, orphans>>

RunFinish ==
    /\ current.state \in {"running", "cancelling"}
    /\ Announced(current.id, {"starting", "running"})
    /\ \E end \in Ends :
           RegistryFinish(current.id, end,
                          IF end = "failed" THEN "unexpected_failure" ELSE "none")
    /\ telling' = telling \cup {current'}
    /\ UNCHANGED <<emitting, sent, served, wire, pageVars, orphans>>

NotifyCurrent ==
    /\ emitting = {}
    /\ current \in telling
    /\ telling' = telling \ {current}
    /\ emitting' = {current}
    /\ UNCHANGED <<registryVars, sent, served, wire, pageVars, orphans>>

NotifyStale ==
    /\ emitting = {}
    /\ \E s \in telling \ {current} : telling' = telling \ {s}
    /\ UNCHANGED <<registryVars, emitting, sent, served, wire, pageVars, orphans>>

Emit ==
    /\ \E s \in emitting : wire' = Append(wire, Event(s))
    /\ emitting' = {}
    /\ UNCHANGED <<registryVars, telling, sent, served, pageVars, orphans>>

-----------------------------------------------------------------------------
(***************************************************************************)
(* The calls, decided by the registry, and answered once the goroutine has *)
(* announced what it changed.                                              *)
(***************************************************************************)
Serve(call, status, snapshot) ==
    /\ call \in sent
    /\ sent' = sent \ {call}
    /\ served' = served \cup {AnswerTo(call, status, snapshot)}
    /\ UNCHANGED <<emitting, wire, pageVars, orphans>>

GetCurrentLaunchState(call) ==
    /\ call.kind \in {"fetch", "refresh"}
    /\ Serve(call, IF current = NoSnapshot THEN "absent" ELSE "found", current)
    /\ UNCHANGED <<registryVars, telling>>

StartLaunch(call) ==
    /\ call.kind = "start"
    /\ sequence < MaxOps
    /\ RegistryStart
    /\ telling' = telling \cup {current'}
    /\ Serve(call, "started", current')

(* The input is not valid, or there is an operation already.               *)
StartRefused(call) ==
    /\ call.kind = "start"
    /\ Serve(call, "refused", NoSnapshot)
    /\ UNCHANGED <<registryVars, telling>>

CancelLaunch(call) ==
    /\ call.kind = "cancel"
    /\ RegistryCancel(call.id)
    /\ telling' = telling \cup {current'}
    /\ Serve(call, "accepted", current')

CancelRefused(call) ==
    /\ call.kind = "cancel"
    /\ ~CanCancel(call.id)
    /\ IF current.id # call.id THEN Serve(call, "not_found", NoSnapshot)
       ELSE Serve(call, IF IsTerminal(current.state) THEN "already_finished"
                                                    ELSE "already_cancelling", current)
    /\ UNCHANGED <<registryVars, telling>>

Answer ==
    /\ \E a \in served :
           /\ a.status \in {"started", "accepted"} =>
                  a.snapshot \notin telling \cup emitting
           /\ served' = served \ {a}
           /\ wire' = Append(wire, a)
    /\ UNCHANGED <<backendVars, sent, pageVars, orphans>>

-----------------------------------------------------------------------------
(***************************************************************************)
(* The user: a button that is disabled cannot be pressed.                  *)
(***************************************************************************)
Pending == Cardinality(sent) + Cardinality(served) + Len(wire)

OperationActive == screen.state \in ActiveStates

Submit ==
    /\ Pending < MaxPending
    /\ ~accepting /\ ~OperationActive
    /\ accepting' = TRUE
    /\ sent' = sent \cup {Call("start", 0)}
    /\ UNCHANGED <<backendVars, served, wire, mount, screen, version, cancelling,
                   fromEvent, orphans>>

Cancel ==
    /\ Pending < MaxPending
    /\ OperationActive /\ ~cancelling /\ screen.state # "cancelling"
    /\ cancelling' = TRUE
    /\ sent' = sent \cup {Call("cancel", screen.id)}
    /\ UNCHANGED <<backendVars, served, wire, mount, screen, version, accepting,
                   fromEvent, orphans>>

Remount ==
    /\ mount < MaxMounts
    /\ mount' = mount + 1
    /\ screen' = NoSnapshot /\ version' = 0
    /\ accepting' = FALSE /\ cancelling' = FALSE
    /\ fromEvent' = FALSE
    /\ sent' = sent \cup {FirstCall(mount + 1)}
    /\ UNCHANGED <<backendVars, served, wire, orphans>>

-----------------------------------------------------------------------------
(***************************************************************************)
(* What the page does with the next message.                               *)
(***************************************************************************)
Receive(a) ==
    /\ wire' = Tail(wire)
    /\ UNCHANGED <<backendVars, served, mount>>

(* Mutant: a page that is starting an operation waits for its answer.      *)
ConcernsShown(event) ==
    screen = NoSnapshot \/ screen.id = event.snapshot.id

Concerns(event) ==
    screen = NoSnapshot \/ screen.id = event.snapshot.id \/ accepting

ReceiveEvent(a) ==
    /\ Receive(a)
    /\ a.status = "event"
    /\ IF Concerns(a)
       THEN screen' = a.snapshot /\ version' = version + 1 /\ fromEvent' = TRUE
       ELSE UNCHANGED <<screen, version, fromEvent>>
    /\ UNCHANGED <<sent, accepting, cancelling, orphans>>

(* An answer to a page that is gone.                                       *)
ReceiveForOld(a) ==
    /\ Receive(a)
    /\ a.status # "event"
    /\ a.call.mount # mount
    /\ orphans' = IF a.status = "started" THEN orphans \cup {a.snapshot.id} ELSE orphans
    /\ UNCHANGED <<sent, screen, version, accepting, cancelling, fromEvent>>

(* Mutant: a late answer is as good as any.                                *)
FreshAlways(a) == a.snapshot # NoSnapshot

Fresh(a) == a.snapshot # NoSnapshot /\ version = a.call.version

Show(a, wanted) ==
    /\ screen' = IF wanted THEN a.snapshot ELSE screen
    /\ fromEvent' = (fromEvent /\ ~wanted)

ReceiveAnswer(a, kind) ==
    /\ Receive(a)
    /\ a.status # "event"
    /\ a.call.mount = mount /\ a.call.kind = kind
    /\ kind # "start" => UNCHANGED orphans
    /\ UNCHANGED version

ReceiveState(a) ==
    /\ ReceiveAnswer(a, "fetch")
    /\ Show(a, Fresh(a))
    /\ UNCHANGED <<sent, accepting, cancelling>>

ReceiveStart(a) ==
    /\ ReceiveAnswer(a, "start")
    /\ Show(a, Fresh(a))
    /\ accepting' = FALSE
    /\ orphans' = orphans \cup {id \in {a.snapshot.id} : id > screen'.id}
    /\ UNCHANGED <<sent, cancelling>>

ReceiveCancel(a) ==
    /\ ReceiveAnswer(a, "cancel")
    /\ Show(a, Fresh(a))
    /\ IF a.status = "already_finished"
       THEN sent' = sent \cup {Call("refresh", screen'.id)} /\ UNCHANGED cancelling
       ELSE cancelling' = FALSE /\ UNCHANGED sent
    /\ UNCHANGED accepting

ReceiveRefresh(a) ==
    /\ ReceiveAnswer(a, "refresh")
    /\ Show(a, Fresh(a) /\ screen.id = a.call.id)
    /\ cancelling' = FALSE
    /\ UNCHANGED <<sent, accepting>>

-----------------------------------------------------------------------------
Backend ==
    \/ RunTransition \/ RunFinish \/ NotifyCurrent \/ NotifyStale \/ Emit
    \/ \E call \in sent :
           \/ GetCurrentLaunchState(call) \/ StartLaunch(call) \/ StartRefused(call)
           \/ CancelLaunch(call) \/ CancelRefused(call)
    \/ Answer

Page ==
    /\ wire # <<>>
    /\ \E a \in {Head(wire)} :
           \/ ReceiveEvent(a) \/ ReceiveForOld(a) \/ ReceiveState(a)
           \/ ReceiveStart(a) \/ ReceiveCancel(a) \/ ReceiveRefresh(a)

User == Submit \/ Cancel \/ Remount

Next == Backend \/ Page \/ User

Spec == Init /\ [][Next]_vars

-----------------------------------------------------------------------------
Story == INSTANCE LaunchEvents WITH last <- screen

(***************************************************************************)
(* What an event has brought is only ever followed by something newer:     *)
(* "React keeps the latest event and does not overwrite a newer state with *)
(* the late answer of a method" (App.tsx:82-103,123-148,162-180).  What an *)
(* answer has brought may be taken back by an event or an answer that it   *)
(* has overtaken: only events count for eventVersionRef.                   *)
(***************************************************************************)
EventsAreNotTakenBack ==
    [][mount' = mount /\ screen' # screen /\ fromEvent =>
           Story!Follows(screen, screen')]_vars

(***************************************************************************)
(* When nothing is under way any more, the page shows the latest state of  *)
(* the latest operation, whichever way it came (App.tsx:81-103,117-186).   *)
(* The exception is an operation whose Start answer no page took while it  *)
(* showed an older one: its page was mounted again, or an event of the     *)
(* older one came in between; the events of the new one are then taken for *)
(* those of an operation that is not the page's.                           *)
(***************************************************************************)
Quiet == sent = {} /\ served = {} /\ wire = <<>> /\ telling = {} /\ emitting = {}

QuietScreenIsCurrent ==
    Quiet /\ current.id \notin orphans => screen = current

(***************************************************************************)
(* "When React could not receive events or has been mounted again, it      *)
(* calls the method that gets the state and synchronises with the latest   *)
(* state of the OperationRegistry"                                         *)
(* (docs/adr/0003-use-wails-v2-for-desktop-foundation.md).                 *)
(***************************************************************************)
PageIsSynchronised == Quiet => screen = current
=============================================================================
