--------------------------- MODULE LaunchUIProofs ---------------------------
(***************************************************************************)
(* Theorems about LaunchUI for any number of operations, mounts of the     *)
(* page and calls under way.                                               *)
(***************************************************************************)
EXTENDS LaunchUI, SequenceTheorems, TLAPS

AnySnapshot == Snapshots \cup {NoSnapshot}

NoLaterThan(s, t) == s = t \/ Story!Follows(s, t)

-----------------------------------------------------------------------------
(***************************************************************************)
(* The order of snapshots, and what the registry does to it.               *)
(***************************************************************************)
LEMMA SnapshotIds ==
    ASSUME NEW s \in AnySnapshot
    PROVE  s.id \in Nat /\ Story!LevelOf(s.state) \in 0 .. 4
BY DEF AnySnapshot, Snapshots, NoSnapshot, Story!LevelOf

LEMMA FollowsIsStrict ==
    ASSUME NEW s \in AnySnapshot PROVE ~Story!Follows(s, s)
BY SnapshotIds DEF Story!Follows

LEMMA FollowsIsTransitive ==
    ASSUME NEW s \in AnySnapshot, NEW t \in AnySnapshot, NEW u \in AnySnapshot,
           NoLaterThan(s, t), Story!Follows(t, u)
    PROVE  Story!Follows(s, u)
<1>1. CASE s = t
  BY <1>1
<1>2. CASE Story!Follows(s, t)
  <2>1. s.id \in Nat /\ t.id \in Nat /\ u.id \in Nat
    BY SnapshotIds
  <2>2. CASE t.id > s.id \/ u.id > t.id
    BY <1>2, <2>1, <2>2 DEF Story!Follows
  <2>3. CASE s.id = t.id /\ t.id = u.id
    <3>1. /\ Story!LevelOf(s.state) \in 0..4
          /\ Story!LevelOf(t.state) \in 0..4
          /\ Story!LevelOf(u.state) \in 0..4
      BY SnapshotIds
    <3>2. /\ Story!LevelOf(t.state) > Story!LevelOf(s.state)
          /\ Story!LevelOf(u.state) > Story!LevelOf(t.state)
          /\ s.state = "cancelling" => t.state = "cancelled"
      BY <1>2, <2>1, <2>3 DEF Story!Follows
    <3>3. s.state # "cancelling"
      BY <3>1, <3>2 DEF Story!LevelOf, Story!IsTerminal, Story!TerminalStates
    <3>4. QED
      BY <2>1, <2>3, <3>1, <3>2, <3>3 DEF Story!Follows
  <2>4. QED
    BY <1>2, <2>1, <2>2, <2>3 DEF Story!Follows
<1>3. QED
  BY <1>1, <1>2 DEF NoLaterThan

(* A registry write: a new snapshot, of the latest operation.              *)
Advances ==
    /\ sequence' \in Nat
    /\ current' \in Snapshots
    /\ current'.id = sequence'
    /\ Story!Follows(current, current')

LEMMA RegistryAdvances ==
    ASSUME TypeOK, current.id = sequence
    PROVE  /\ RegistryStart => Advances
           /\ RegistryTransition(current.id, "running") => Advances
           /\ \A id : RegistryCancel(id) => Advances
           /\ \A end \in Ends, code \in ErrorCodes :
                  RegistryFinish(current.id, end, code) => Advances
<1> USE DEF Story!Follows, Story!LevelOf, Story!IsTerminal, Story!TerminalStates,
            Advances
<1>0. current.id \in Nat /\ sequence \in Nat /\ current \in AnySnapshot
  BY SnapshotIds DEF TypeOK, RegistryTypeOK, AnySnapshot
<1>1. RegistryStart => Advances
  BY <1>0 DEF RegistryStart, SnapshotOf, Snapshots, States, ActiveStates, ErrorCodes
<1>2. ASSUME RegistryTransition(current.id, "running") PROVE Advances
  <2>1. current.state = "starting"
    BY <1>2 DEF RegistryTransition, CanTransition
  <2>2. current \in Snapshots
    BY <1>0, <2>1 DEF AnySnapshot, NoSnapshot
  <2>3. current' \in Snapshots /\ current'.id = current.id /\ current'.state = "running"
    BY <1>2, <2>2 DEF RegistryTransition, Snapshots, States, ActiveStates
  <2>4. sequence' = sequence
    BY <1>2 DEF RegistryTransition
  <2>5. Story!Follows(current, current')
    BY <1>0, <2>1, <2>3
  <2>6. QED
    BY <1>0, <2>3, <2>4, <2>5
<1>3. ASSUME NEW id, RegistryCancel(id) PROVE Advances
  <2>1. current.state \in {"starting", "running"} /\ sequence' = sequence
    BY <1>3 DEF RegistryCancel, CanCancel
  <2>2. current \in Snapshots
    BY <1>0, <2>1 DEF AnySnapshot, NoSnapshot
  <2>3. current' \in Snapshots /\ current'.id = current.id /\ current'.state = "cancelling"
    BY <1>3, <2>2 DEF RegistryCancel, Snapshots, States, ActiveStates
  <2>4. Story!Follows(current, current')
    BY <1>0, <2>1, <2>3
  <2>5. QED
    BY <1>0, <2>1, <2>3, <2>4
<1>4. ASSUME NEW end \in Ends, NEW code \in ErrorCodes,
             RegistryFinish(current.id, end, code)
      PROVE  Advances
  <2>1. /\ CanTransition(current.state, current'.state)
        /\ current' = SnapshotOf(current.id, current'.state, current'.code)
        /\ sequence' = sequence
    BY <1>4 DEF RegistryFinish, CanFinish, SnapshotOf
  <2>2. current'.code \in ErrorCodes
    BY <1>4 DEF RegistryFinish, Resolution, SnapshotOf, ErrorCodes
  <2>3. current \in Snapshots
    BY <1>0, <2>1 DEF AnySnapshot, NoSnapshot, CanTransition
  <2>4. current' \in Snapshots
    BY <2>1, <2>2, <2>3
    DEF Snapshots, SnapshotOf, CanTransition, States, ActiveStates, TerminalStates
  <2>5. current'.id = current.id
    BY <2>1 DEF SnapshotOf
  <2>6. Story!Follows(current, current')
    BY <1>0, <2>1, <2>5 DEF CanTransition
  <2>7. QED
    BY <1>0, <2>1, <2>4, <2>5, <2>6
<1>5. QED
  BY <1>1, <1>2, <1>3, <1>4

-----------------------------------------------------------------------------
(***************************************************************************)
(* Type correctness.                                                       *)
(***************************************************************************)
RunStep == RunTransition \/ RunFinish

NotifyStep == NotifyCurrent \/ NotifyStale \/ Emit

CallStep(call) ==
    \/ GetCurrentLaunchState(call) \/ StartLaunch(call) \/ StartRefused(call)
    \/ CancelLaunch(call) \/ CancelRefused(call)

PageStep(a) ==
    \/ ReceiveEvent(a) \/ ReceiveForOld(a) \/ ReceiveState(a)
    \/ ReceiveStart(a) \/ ReceiveCancel(a) \/ ReceiveRefresh(a)

(* The counter and the record always belong together.                      *)
CounterAgrees == current.id = sequence

LEMMA WrittenWhole ==
    ASSUME TypeOK, CounterAgrees, Advances
    PROVE  RegistryTypeOK' /\ CounterAgrees' /\ current' \in Snapshots
BY DEF TypeOK, RegistryTypeOK, CounterAgrees, Advances

(* What an operation, a call of Start or of Cancel writes.                 *)
LEMMA BackendWrites ==
    ASSUME TypeOK, CounterAgrees
    PROVE  /\ RunStep => Advances
           /\ \A call : StartLaunch(call) \/ CancelLaunch(call) => Advances
<1>1. CASE RunTransition
  BY <1>1, RegistryAdvances DEF RunTransition, CounterAgrees
<1>2. CASE RunFinish
  BY <1>2, RegistryAdvances DEF RunFinish, CounterAgrees, ErrorCodes
<1>3. \A call : StartLaunch(call) \/ CancelLaunch(call) => Advances
  BY RegistryAdvances DEF StartLaunch, CancelLaunch, CounterAgrees
<1>4. QED
  BY <1>1, <1>2, <1>3 DEF RunStep

LEMMA TypeInit == Init => TypeOK /\ CounterAgrees
<1> SUFFICES ASSUME Init PROVE TypeOK /\ CounterAgrees
  OBVIOUS
<1>1. RegistryTypeOK /\ CounterAgrees
  BY DEF Init, NewRegistry, RegistryTypeOK, CounterAgrees, NoSnapshot
<1>2. sent \subseteq Calls /\ mount \in 1 .. MaxMounts /\ version \in Nat
  BY UIAssumption DEF Init, FirstCall, Calls
<1>3. /\ telling \subseteq Snapshots /\ emitting \subseteq Snapshots
      /\ served \subseteq Answers
      /\ screen \in Snapshots \cup {NoSnapshot} /\ orphans \subseteq Nat
  BY DEF Init
<1>4. wire \in Seq(Answers)
  BY EmptySeq DEF Init
<1>5. accepting \in BOOLEAN /\ cancelling \in BOOLEAN /\ fromEvent \in BOOLEAN
  BY Zenon DEF Init
<1>6. QED
  BY <1>1, <1>2, <1>3, <1>4, <1>5 DEF TypeOK

LEMMA TypeRun == TypeOK /\ CounterAgrees /\ RunStep => TypeOK' /\ CounterAgrees'
<1> SUFFICES ASSUME TypeOK, CounterAgrees, RunStep PROVE TypeOK' /\ CounterAgrees'
  OBVIOUS
<1>1. RegistryTypeOK' /\ CounterAgrees' /\ current' \in Snapshots
  BY BackendWrites, WrittenWhole
<1>2. /\ telling' = telling \cup {current'}
      /\ UNCHANGED <<emitting, sent, served, wire, mount, screen, version,
                     accepting, cancelling, fromEvent, orphans>>
  BY DEF RunStep, RunTransition, RunFinish, pageVars
<1>3. QED
  BY <1>1, <1>2 DEF TypeOK

LEMMA TypeNotify == TypeOK /\ CounterAgrees /\ NotifyStep => TypeOK' /\ CounterAgrees'
<1> SUFFICES ASSUME TypeOK, CounterAgrees, NotifyStep PROVE TypeOK' /\ CounterAgrees'
  OBVIOUS
<1>1. /\ UNCHANGED <<sequence, current, sent, served, mount, screen, version,
                     accepting, cancelling, fromEvent, orphans>>
      /\ telling' \subseteq Snapshots /\ emitting' \subseteq Snapshots
  BY DEF NotifyStep, NotifyCurrent, NotifyStale, Emit, TypeOK, registryVars, pageVars
<1>2. wire' \in Seq(Answers)
  <2>1. CASE Emit
    <3>1. PICK s \in emitting : wire' = Append(wire, Event(s))
      BY <2>1 DEF Emit
    <3>2. Event(s) \in Answers
      <4>1. NoCall \in Calls
        BY UIAssumption DEF NoCall, Calls
      <4>2. QED
        BY <4>1 DEF TypeOK, Event, AnswerTo, Answers, Statuses
    <3>3. QED
      BY <3>1, <3>2, AppendProperties DEF TypeOK
  <2>2. CASE NotifyCurrent \/ NotifyStale
    BY <2>2 DEF NotifyCurrent, NotifyStale, TypeOK
  <2>3. QED
    BY <2>1, <2>2 DEF NotifyStep
<1>3. QED
  BY <1>1, <1>2 DEF TypeOK, RegistryTypeOK, CounterAgrees

LEMMA TypeCall ==
    ASSUME TypeOK, CounterAgrees, NEW call \in sent, CallStep(call)
    PROVE  TypeOK' /\ CounterAgrees'
<1>1. RegistryTypeOK' /\ CounterAgrees' /\ telling' \subseteq Snapshots
      /\ current' \in Snapshots \cup {NoSnapshot}
  <2>1. CASE StartLaunch(call) \/ CancelLaunch(call)
    <3>1. RegistryTypeOK' /\ CounterAgrees' /\ current' \in Snapshots
      BY <2>1, BackendWrites, WrittenWhole
    <3>2. QED
      BY <2>1, <3>1 DEF StartLaunch, CancelLaunch, TypeOK
  <2>2. CASE GetCurrentLaunchState(call) \/ StartRefused(call) \/ CancelRefused(call)
    BY <2>2 DEF GetCurrentLaunchState, StartRefused, CancelRefused, TypeOK,
       RegistryTypeOK, CounterAgrees, registryVars
  <2>3. QED
    BY <2>1, <2>2 DEF CallStep
<1>2. PICK status \in Statuses, s \in Snapshots \cup {NoSnapshot} :
          Serve(call, status, s)
  <2>1. current \in Snapshots \cup {NoSnapshot}
    BY DEF TypeOK, RegistryTypeOK
  <2>2. QED
    BY <1>1, <2>1 DEF CallStep, GetCurrentLaunchState, StartLaunch, StartRefused,
       CancelLaunch, CancelRefused, Statuses
<1>3. AnswerTo(call, status, s) \in Answers
  BY DEF AnswerTo, Answers, TypeOK
<1>4. /\ sent' \subseteq Calls /\ served' \subseteq Answers
      /\ UNCHANGED <<emitting, wire, mount, screen, version, accepting, cancelling,
                     fromEvent, orphans>>
  BY <1>2, <1>3 DEF Serve, TypeOK, pageVars
<1>5. QED
  BY <1>1, <1>4 DEF TypeOK

LEMMA TypeAnswer == TypeOK /\ CounterAgrees /\ Answer => TypeOK' /\ CounterAgrees'
<1> SUFFICES ASSUME TypeOK, CounterAgrees, Answer PROVE TypeOK' /\ CounterAgrees'
  OBVIOUS
<1>1. PICK a \in served : served' = served \ {a} /\ wire' = Append(wire, a)
  BY DEF Answer
<1>2. wire' \in Seq(Answers) /\ served' \subseteq Answers
  BY <1>1, AppendProperties DEF TypeOK
<1>3. UNCHANGED <<sequence, current, telling, emitting, sent, mount, screen, version,
                  accepting, cancelling, fromEvent, orphans>>
  BY DEF Answer, backendVars, registryVars, pageVars
<1>4. QED
  BY <1>2, <1>3 DEF TypeOK, RegistryTypeOK, CounterAgrees

LEMMA TypeUser == TypeOK /\ CounterAgrees /\ User => TypeOK' /\ CounterAgrees'
<1> SUFFICES ASSUME TypeOK, CounterAgrees, User PROVE TypeOK' /\ CounterAgrees'
  OBVIOUS
<1>1. /\ UNCHANGED <<sequence, current, telling, emitting, served, wire, orphans>>
      /\ screen' \in Snapshots \cup {NoSnapshot} /\ version' \in Nat
  BY DEF User, Submit, Cancel, Remount, TypeOK, backendVars, registryVars
<1>2. accepting' \in BOOLEAN /\ cancelling' \in BOOLEAN /\ fromEvent' \in BOOLEAN
  BY Zenon DEF User, Submit, Cancel, Remount, TypeOK
<1>3. mount' \in 1 .. MaxMounts
  BY UIAssumption DEF User, Submit, Cancel, Remount, TypeOK
<1>4. sent' \subseteq Calls
  <2>1. /\ screen.id \in Nat
        /\ version \in Nat /\ mount \in 0 .. MaxMounts
    BY UIAssumption, SnapshotIds DEF TypeOK, AnySnapshot
  <2>2. CASE Submit  BY <2>1, <2>2 DEF Submit, Call, Calls, TypeOK
  <2>3. CASE Cancel  BY <2>1, <2>3 DEF Cancel, Call, Calls, TypeOK
  <2>4. CASE Remount
    BY <1>3, <2>4, UIAssumption DEF Remount, FirstCall, Calls, TypeOK
  <2>5. QED
    BY <2>2, <2>3, <2>4 DEF User
<1>5. QED
  BY <1>1, <1>2, <1>3, <1>4 DEF TypeOK, RegistryTypeOK, CounterAgrees

LEMMA TypePage ==
    ASSUME TypeOK, CounterAgrees, wire # <<>>, NEW a, a = Head(wire), PageStep(a)
    PROVE  TypeOK' /\ CounterAgrees'
<1>1. a \in Answers /\ wire' \in Seq(Answers)
  BY HeadTailProperties
  DEF TypeOK, PageStep, ReceiveEvent, ReceiveForOld, ReceiveState, ReceiveStart,
      ReceiveCancel, ReceiveRefresh, ReceiveAnswer, Receive
<1>2. a.snapshot \in Snapshots \cup {NoSnapshot} /\ a.snapshot.id \in Nat
  BY <1>1, SnapshotIds DEF Answers, AnySnapshot
<1>3. UNCHANGED <<sequence, current, telling, emitting, served, mount>>
  BY DEF PageStep, ReceiveEvent, ReceiveForOld, ReceiveState, ReceiveStart,
     ReceiveCancel, ReceiveRefresh, ReceiveAnswer, Receive, backendVars, registryVars
<1>4. screen' \in Snapshots \cup {NoSnapshot} /\ screen'.id \in Nat
  <2>1. screen' = screen \/ screen' = a.snapshot
    BY DEF PageStep, ReceiveEvent, ReceiveForOld, ReceiveState, ReceiveStart,
       ReceiveCancel, ReceiveRefresh, Show
  <2>2. QED
    BY <1>2, <2>1, SnapshotIds DEF TypeOK, AnySnapshot
<1>5. version' \in Nat
  BY DEF PageStep, ReceiveEvent, ReceiveForOld, ReceiveState, ReceiveStart,
     ReceiveCancel, ReceiveRefresh, ReceiveAnswer, TypeOK
<1>6. accepting' \in BOOLEAN /\ cancelling' \in BOOLEAN
  BY DEF PageStep, ReceiveEvent, ReceiveForOld, ReceiveState, ReceiveStart,
     ReceiveCancel, ReceiveRefresh, TypeOK
<1>7. fromEvent' \in BOOLEAN
  BY Zenon DEF PageStep, ReceiveEvent, ReceiveForOld, ReceiveState, ReceiveStart,
     ReceiveCancel, ReceiveRefresh, Show, TypeOK
<1>8. orphans' \subseteq Nat
  BY <1>2 DEF PageStep, ReceiveEvent, ReceiveForOld, ReceiveState, ReceiveStart,
     ReceiveCancel, ReceiveRefresh, ReceiveAnswer, TypeOK
<1>9. sent' \subseteq Calls
  <2>1. Call("refresh", screen'.id) \in Calls
    BY <1>4, UIAssumption DEF Call, Calls, TypeOK
  <2>2. QED
    BY <2>1 DEF PageStep, ReceiveEvent, ReceiveForOld, ReceiveState, ReceiveStart,
       ReceiveCancel, ReceiveRefresh, TypeOK
<1>10. QED
  BY <1>1, <1>3, <1>4, <1>5, <1>6, <1>7, <1>8, <1>9
  DEF TypeOK, RegistryTypeOK, CounterAgrees

LEMMA StepCases ==
    ASSUME [Next]_vars
    PROVE  \/ RunStep \/ NotifyStep \/ (\E call \in sent : CallStep(call)) \/ Answer
           \/ (wire # <<>> /\ PageStep(Head(wire))) \/ User \/ UNCHANGED vars
BY DEF Next, Backend, Page, RunStep, NotifyStep, CallStep, PageStep

LEMMA TypeStep ==
    TypeOK /\ CounterAgrees /\ [Next]_vars => TypeOK' /\ CounterAgrees'
<1> SUFFICES ASSUME TypeOK, CounterAgrees, [Next]_vars
             PROVE  TypeOK' /\ CounterAgrees'
  OBVIOUS
<1>1. CASE UNCHANGED vars
  BY <1>1 DEF vars, backendVars, registryVars, pageVars, TypeOK, RegistryTypeOK,
     CounterAgrees
<1>2. QED
  BY <1>1, StepCases, TypeRun, TypeNotify, TypeCall, TypeAnswer, TypePage, TypeUser

LEMMA TypesAndCounter == Spec => [](TypeOK /\ CounterAgrees)
<1>1. Init => TypeOK /\ CounterAgrees
  BY TypeInit
<1>2. TypeOK /\ CounterAgrees /\ [Next]_vars => TypeOK' /\ CounterAgrees'
  BY TypeStep
<1>3. QED
  BY <1>1, <1>2, PTL DEF Spec

(***************************************************************************)
(* Every state of the page and of what it exchanges is well typed.         *)
(***************************************************************************)
THEOREM TypeCorrect == Spec => []TypeOK
BY TypesAndCounter, PTL

-----------------------------------------------------------------------------
(***************************************************************************)
(* The events on their way.  They lie in the queue of the page in the      *)
(* order of the story, nothing under way is ahead of the registry, and     *)
(* what an event has brought to the page is behind all that still come     *)
(* (service.go:203-214, App.tsx:79-91).                                    *)
(***************************************************************************)
Places == 1 .. Len(wire)

EventAt(k) == wire[k].status = "event"

EventsAreOrdered ==
    /\ \A s \in telling \cup emitting : NoLaterThan(s, current)
    /\ \A s \in emitting : s \notin telling
    /\ \A k \in Places : EventAt(k) =>
           /\ wire[k].snapshot \in Snapshots
           /\ wire[k].snapshot \notin telling
           /\ NoLaterThan(wire[k].snapshot, current)
           /\ \A s \in emitting : Story!Follows(wire[k].snapshot, s)
           /\ \A l \in Places : k < l /\ EventAt(l) =>
                  Story!Follows(wire[k].snapshot, wire[l].snapshot)
    /\ \A a \in served : a.status # "event"

ShownEventIsBehind ==
    fromEvent =>
        /\ screen \in Snapshots
        /\ screen \notin telling
        /\ NoLaterThan(screen, current)
        /\ \A s \in emitting : Story!Follows(screen, s)
        /\ \A k \in Places : EventAt(k) => Story!Follows(screen, wire[k].snapshot)

EventOrder == EventsAreOrdered /\ ShownEventIsBehind

LEMMA OrderInit == Init => EventOrder
BY DEF Init, EventOrder, EventsAreOrdered, ShownEventIsBehind, Places

(* A registry write tells of a snapshot that is ahead of all others.       *)
LEMMA OrderWrite ==
    ASSUME TypeOK, EventOrder, Advances, telling' = telling \cup {current'},
           UNCHANGED <<emitting, wire, screen, fromEvent>>,
           \A a \in served' : a.status # "event"
    PROVE  EventOrder'
<1>1. current \in AnySnapshot /\ current' \in AnySnapshot
  BY DEF TypeOK, RegistryTypeOK, AnySnapshot, Advances
<1>2. ASSUME NEW s \in Snapshots, NoLaterThan(s, current)
      PROVE  Story!Follows(s, current') /\ s # current'
  BY <1>1, <1>2, FollowsIsStrict, FollowsIsTransitive DEF Advances, AnySnapshot
<1>3. \A s \in telling \cup emitting : s \in Snapshots /\ NoLaterThan(s, current)
  BY DEF TypeOK, EventOrder, EventsAreOrdered
<1>4. EventsAreOrdered'
  BY <1>2, <1>3 DEF EventOrder, EventsAreOrdered, NoLaterThan, Places, EventAt
<1>5. ShownEventIsBehind'
  BY <1>2 DEF EventOrder, ShownEventIsBehind, NoLaterThan, Places, EventAt
<1>6. QED
  BY <1>4, <1>5 DEF EventOrder

(* Steps that add no event and show no event.                              *)
LEMMA OrderIsKept ==
    ASSUME EventOrder, UNCHANGED <<current, emitting, wire>>, telling' \subseteq telling,
           fromEvent' => fromEvent /\ screen' = screen,
           \A a \in served' : a.status # "event"
    PROVE  EventOrder'
BY DEF EventOrder, EventsAreOrdered, ShownEventIsBehind, NoLaterThan, Places, EventAt

LEMMA OrderNotify == TypeOK /\ EventOrder /\ NotifyStep => EventOrder'
<1> SUFFICES ASSUME TypeOK, EventOrder, NotifyStep PROVE EventOrder'
  OBVIOUS
<1> USE DEF registryVars, pageVars
<1>1. CASE NotifyStale
  BY <1>1, OrderIsKept DEF NotifyStale, EventOrder, EventsAreOrdered
<1>2. CASE NotifyCurrent
  <2>1. /\ current \in telling /\ telling' = telling \ {current}
        /\ emitting' = {current}
        /\ UNCHANGED <<current, wire, screen, fromEvent, served>>
    BY <1>2 DEF NotifyCurrent
  <2>2. \A k \in Places : EventAt(k) => Story!Follows(wire[k].snapshot, current)
    BY <2>1 DEF EventOrder, EventsAreOrdered, NoLaterThan
  <2>3. EventsAreOrdered'
    BY <2>1, <2>2 DEF EventOrder, EventsAreOrdered, NoLaterThan, Places, EventAt
  <2>4. ShownEventIsBehind'
    BY <2>1 DEF EventOrder, ShownEventIsBehind, NoLaterThan, Places, EventAt
  <2>5. QED
    BY <2>3, <2>4 DEF EventOrder
<1>3. CASE Emit
  <2>1. PICK s \in emitting : wire' = Append(wire, Event(s))
    BY <1>3 DEF Emit
  <2>2. emitting' = {} /\ UNCHANGED <<current, telling, screen, fromEvent, served>>
    BY <1>3 DEF Emit
  <2>3. Event(s).status = "event" /\ Event(s).snapshot = s /\ s \in Snapshots
    BY DEF Event, AnswerTo, TypeOK
  <2>4. /\ Len(wire) \in Nat /\ Len(wire') = Len(wire) + 1
        /\ \A k \in Places : wire'[k] = wire[k]
        /\ wire'[Len(wire) + 1] = Event(s)
    BY <2>1 DEF TypeOK, Places
  <2>5. \A k \in Places' : \/ k \in Places /\ wire'[k] = wire[k]
                           \/ k = Len(wire) + 1 /\ wire'[k] = Event(s)
    BY <2>4 DEF Places
  <2>6. \A k, l \in Places' : k < l => k \in Places
    BY <2>4 DEF Places
  <2>7. s \notin telling /\ NoLaterThan(s, current)
    BY DEF EventOrder, EventsAreOrdered
  <2>8. ASSUME NEW k \in Places', EventAt(k)'
        PROVE  /\ wire'[k].snapshot \in Snapshots
               /\ wire'[k].snapshot \notin telling
               /\ NoLaterThan(wire'[k].snapshot, current)
    BY <2>3, <2>5, <2>7, <2>8 DEF EventOrder, EventsAreOrdered, EventAt
  <2>9. ASSUME NEW k \in Places', NEW l \in Places', EventAt(k)', EventAt(l)', k < l
        PROVE  Story!Follows(wire'[k].snapshot, wire'[l].snapshot)
    <3>1. k \in Places /\ wire'[k] = wire[k] /\ EventAt(k)
      BY <2>4, <2>6, <2>9 DEF EventAt
    <3>2. QED
      BY <2>3, <2>5, <2>9, <3>1 DEF EventOrder, EventsAreOrdered, EventAt
  <2>10. EventsAreOrdered'
    BY <2>2, <2>8, <2>9 DEF EventOrder, EventsAreOrdered, NoLaterThan
  <2>11. ShownEventIsBehind'
    BY <2>2, <2>3, <2>5
    DEF EventOrder, ShownEventIsBehind, NoLaterThan, EventAt
  <2>12. QED
    BY <2>10, <2>11 DEF EventOrder
<1>4. QED
  BY <1>1, <1>2, <1>3 DEF NotifyStep

LEMMA OrderCall ==
    ASSUME TypeOK, CounterAgrees, EventOrder, NEW call \in sent, CallStep(call)
    PROVE  EventOrder'
<1> USE DEF pageVars
<1>1. \A a \in served' : a.status # "event"
  BY DEF CallStep, GetCurrentLaunchState, StartLaunch, StartRefused, CancelLaunch,
     CancelRefused, Serve, AnswerTo, EventOrder, EventsAreOrdered
<1>2. CASE StartLaunch(call) \/ CancelLaunch(call)
  BY <1>1, <1>2, BackendWrites, OrderWrite DEF StartLaunch, CancelLaunch, Serve
<1>3. CASE GetCurrentLaunchState(call) \/ StartRefused(call) \/ CancelRefused(call)
  BY <1>1, <1>3, OrderIsKept
  DEF GetCurrentLaunchState, StartRefused, CancelRefused, Serve, registryVars
<1>4. QED
  BY <1>2, <1>3 DEF CallStep

LEMMA OrderAnswer == TypeOK /\ EventOrder /\ Answer => EventOrder'
<1> SUFFICES ASSUME TypeOK, EventOrder, Answer PROVE EventOrder'
  OBVIOUS
<1>1. PICK a \in served : served' = served \ {a} /\ wire' = Append(wire, a)
  BY DEF Answer
<1>2. UNCHANGED <<current, telling, emitting, screen, fromEvent>>
  BY DEF Answer, backendVars, registryVars, pageVars
<1>3. a.status # "event"
  BY DEF EventOrder, EventsAreOrdered
<1>4. /\ Len(wire) \in Nat /\ Len(wire') = Len(wire) + 1
      /\ \A k \in Places : wire'[k] = wire[k]
      /\ wire'[Len(wire) + 1] = a
  BY <1>1 DEF TypeOK, Places
<1>5. \A k \in Places' : EventAt(k)' => k \in Places /\ wire'[k] = wire[k] /\ EventAt(k)
  BY <1>3, <1>4 DEF Places, EventAt
<1>6. EventsAreOrdered'
  BY <1>1, <1>2, <1>5 DEF EventOrder, EventsAreOrdered, NoLaterThan
<1>7. ShownEventIsBehind'
  BY <1>2, <1>5 DEF EventOrder, ShownEventIsBehind, NoLaterThan
<1>8. QED
  BY <1>6, <1>7 DEF EventOrder

LEMMA OrderUser == TypeOK /\ EventOrder /\ User => EventOrder'
<1> SUFFICES ASSUME TypeOK, EventOrder, User PROVE EventOrder'
  OBVIOUS
<1>1. UNCHANGED <<current, telling, emitting, wire, served>>
  BY DEF User, Submit, Cancel, Remount, backendVars, registryVars
<1>2. fromEvent' => fromEvent /\ screen' = screen
  BY DEF User, Submit, Cancel, Remount
<1>3. QED
  BY <1>1, <1>2, OrderIsKept DEF EventOrder, EventsAreOrdered

(* The page takes the next message.                                        *)
LEMMA NextMessage ==
    ASSUME TypeOK, wire # <<>>, wire' = Tail(wire)
    PROVE  /\ 1 \in Places /\ Head(wire) = wire[1]
           /\ \A k \in Places' : k + 1 \in Places /\ 1 < k + 1 /\ wire'[k] = wire[k + 1]
<1>1. wire \in Seq(Answers)
  BY DEF TypeOK
<1>2. Len(wire) \in Nat /\ Len(wire) > 0 /\ Len(wire') = Len(wire) - 1
  BY <1>1, HeadTailProperties, LenProperties, EmptySeq
<1>3. QED
  BY <1>1, <1>2, HeadTailProperties DEF Places

(* What an event has brought stays until another message replaces it.      *)
LEMMA WhatAMessageShows ==
    ASSUME NEW a, PageStep(a)
    PROVE  \/ fromEvent' => fromEvent /\ screen' = screen /\ version' = version
           \/ a.status = "event" /\ screen' = a.snapshot /\ version' = version + 1
<1>1. \A w \in BOOLEAN : Show(a, w) => (fromEvent' => fromEvent /\ screen' = screen)
  BY DEF Show
<1>2. Fresh(a) \in BOOLEAN /\ (Fresh(a) /\ screen.id = a.call.id) \in BOOLEAN
  BY DEF Fresh
<1>3. CASE ReceiveEvent(a) \/ ReceiveForOld(a)
  BY <1>3 DEF ReceiveEvent, ReceiveForOld
<1>4. CASE ReceiveState(a) \/ ReceiveStart(a) \/ ReceiveCancel(a) \/ ReceiveRefresh(a)
  BY <1>1, <1>2, <1>4
  DEF ReceiveState, ReceiveStart, ReceiveCancel, ReceiveRefresh, ReceiveAnswer
<1>5. QED
  BY <1>3, <1>4 DEF PageStep

LEMMA OrderPage ==
    ASSUME TypeOK, EventOrder, wire # <<>>, PageStep(Head(wire))
    PROVE  EventOrder'
<1> DEFINE a == Head(wire)
<1>1. /\ wire' = Tail(wire)
      /\ UNCHANGED <<current, telling, emitting, served>>
  BY DEF PageStep, ReceiveEvent, ReceiveForOld, ReceiveState, ReceiveStart,
     ReceiveCancel, ReceiveRefresh, ReceiveAnswer, Receive, backendVars, registryVars
<1>2. /\ 1 \in Places /\ a = wire[1]
      /\ \A k \in Places' : k + 1 \in Places /\ 1 < k + 1 /\ wire'[k] = wire[k + 1]
  BY <1>1, NextMessage
<1>3. \A k, l \in Places' : k < l => k + 1 < l + 1
  BY DEF Places
<1>4. EventsAreOrdered'
  <2>1. \A s : NoLaterThan(s, current)' <=> NoLaterThan(s, current)
    BY <1>1 DEF NoLaterThan
  <2>2. \A k \in Places' : EventAt(k)' <=> EventAt(k + 1)
    BY <1>2 DEF EventAt
  <2>3. ASSUME NEW k \in Places', EventAt(k)'
        PROVE  /\ wire'[k].snapshot \in Snapshots
               /\ wire'[k].snapshot \notin telling
               /\ NoLaterThan(wire'[k].snapshot, current)
               /\ \A s \in emitting : Story!Follows(wire'[k].snapshot, s)
    BY <1>2, <2>2, <2>3 DEF EventOrder, EventsAreOrdered
  <2>4. ASSUME NEW k \in Places', NEW l \in Places', EventAt(k)', EventAt(l)', k < l
        PROVE  Story!Follows(wire'[k].snapshot, wire'[l].snapshot)
    <3>1. k + 1 \in Places /\ l + 1 \in Places /\ k + 1 < l + 1
      BY <1>2, <1>3, <2>4
    <3>2. EventAt(k + 1) /\ EventAt(l + 1)
      BY <2>2, <2>4
    <3>3. Story!Follows(wire[k + 1].snapshot, wire[l + 1].snapshot)
      BY <3>1, <3>2 DEF EventOrder, EventsAreOrdered
    <3>4. QED
      BY <1>2, <3>3
  <2>5. QED
    BY <1>1, <2>1, <2>3, <2>4 DEF EventOrder, EventsAreOrdered
<1>5. ASSUME fromEvent' => fromEvent /\ screen' = screen PROVE ShownEventIsBehind'
  BY <1>1, <1>2, <1>5 DEF EventOrder, ShownEventIsBehind, NoLaterThan, EventAt
<1>6. ASSUME a.status = "event", screen' = a.snapshot PROVE ShownEventIsBehind'
  BY <1>1, <1>2, <1>6 DEF EventOrder, EventsAreOrdered, ShownEventIsBehind, NoLaterThan,
     EventAt
<1>7. QED
  BY <1>4, <1>5, <1>6, WhatAMessageShows DEF EventOrder

LEMMA OrderStep ==
    TypeOK /\ CounterAgrees /\ EventOrder /\ [Next]_vars => EventOrder'
<1> SUFFICES ASSUME TypeOK, CounterAgrees, EventOrder, [Next]_vars PROVE EventOrder'
  OBVIOUS
<1>1. CASE UNCHANGED vars
  BY <1>1, OrderIsKept DEF vars, backendVars, registryVars, pageVars, EventOrder,
     EventsAreOrdered
<1>2. CASE RunStep
  <2>1. /\ telling' = telling \cup {current'}
        /\ UNCHANGED <<emitting, wire, screen, fromEvent, served>>
    BY <1>2 DEF RunStep, RunTransition, RunFinish, pageVars
  <2>2. QED
    BY <1>2, <2>1, BackendWrites, OrderWrite DEF EventOrder, EventsAreOrdered
<1>3. QED
  BY <1>1, <1>2, StepCases, OrderNotify, OrderCall, OrderAnswer, OrderPage, OrderUser

(***************************************************************************)
(* Events reach the page in the order of the story, whichever goroutines   *)
(* brought them, and the page is behind every one that still comes: an     *)
(* event that the page takes never takes back another.                     *)
(***************************************************************************)
THEOREM EventsArriveInOrder == Spec => []EventOrder
<1>1. Init => EventOrder
  BY OrderInit
<1>2. TypeOK /\ CounterAgrees /\ EventOrder /\ [Next]_vars => EventOrder'
  BY OrderStep
<1>3. QED
  BY <1>1, <1>2, TypesAndCounter, PTL DEF Spec

-----------------------------------------------------------------------------
(***************************************************************************)
(* The answers.  eventVersionRef is what tells an answer that an event has *)
(* overtaken: no call under way can have seen a later version than that of *)
(* its page, and the answer to one that saw the latest was given after the *)
(* event on the screen had been (App.tsx:82-103,123-148,162-180).          *)
(***************************************************************************)
InFlight == served \cup {wire[k] : k \in Places}

CallsUnderWay == sent \cup {a.call : a \in InFlight}

CallsAreOfThePast ==
    \A c \in CallsUnderWay :
        c.mount <= mount /\ (c.mount = mount => c.version <= version)

FreshAnswersKeepUp ==
    fromEvent =>
        \A a \in InFlight :
            a.status # "event" /\ a.call.mount = mount /\ Fresh(a) =>
                NoLaterThan(screen, a.snapshot)

AnswerOrder == CallsAreOfThePast /\ FreshAnswersKeepUp

LEMMA AnswerOrderInit == Init => AnswerOrder
BY DEF Init, AnswerOrder, CallsAreOfThePast, FreshAnswersKeepUp, CallsUnderWay, InFlight,
   Places, FirstCall

(* Messages are only added at the end of the queue.                        *)
LEMMA Appended ==
    ASSUME TypeOK, NEW m, wire' = Append(wire, m)
    PROVE  {wire'[k] : k \in Places'} = {wire[k] : k \in Places} \cup {m}
<1>1. /\ Len(wire) \in Nat /\ Len(wire') = Len(wire) + 1
      /\ \A k \in Places : wire'[k] = wire[k]
      /\ wire'[Len(wire) + 1] = m
  BY DEF TypeOK, Places
<1>2. \A k : k \in Places' <=> k \in Places \/ k = Len(wire) + 1
  BY <1>1 DEF Places
<1>3. QED
  BY <1>1, <1>2

LEMMA AnswersTaken ==
    ASSUME TypeOK, wire # <<>>, wire' = Tail(wire), served' = served
    PROVE  InFlight' \subseteq InFlight /\ Head(wire) \in InFlight
<1>1. /\ 1 \in Places /\ Head(wire) = wire[1]
      /\ \A k \in Places' : k + 1 \in Places /\ wire'[k] = wire[k + 1]
  BY NextMessage
<1>2. {wire'[k] : k \in Places'} \subseteq {wire[k] : k \in Places}
  BY <1>1
<1>3. QED
  BY <1>1, <1>2 DEF InFlight

LEMMA CallsAreTyped == TypeOK => CallsUnderWay \subseteq Calls
<1> SUFFICES ASSUME TypeOK PROVE CallsUnderWay \subseteq Calls
  OBVIOUS
<1>1. \A k \in Places : wire[k] \in Answers
  BY ElementOfSeq DEF TypeOK, Places
<1>2. QED
  BY <1>1 DEF CallsUnderWay, InFlight, TypeOK, Answers

(* Steps of the application: the page does not move.                       *)
LEMMA AnswerOrderBehind ==
    ASSUME AnswerOrder, UNCHANGED <<mount, version, screen, fromEvent>>,
           sent' \subseteq sent,
           \A a \in InFlight' : \/ a \in InFlight
                                \/ a.status = "event" /\ a.call = NoCall
                                \/ /\ a.call \in sent
                                   /\ fromEvent => a.snapshot = NoSnapshot \/
                                                   NoLaterThan(screen, a.snapshot),
           mount \in 1 .. MaxMounts
    PROVE  AnswerOrder'
<1>1. CallsAreOfThePast'
  <2>1. NoCall.mount = 0
    BY DEF NoCall
  <2>2. \A a \in InFlight' : a.call \in CallsUnderWay \/ a.call.mount = 0
    BY <2>1 DEF CallsUnderWay
  <2>3. \A c \in CallsUnderWay' : c \in CallsUnderWay \/ c.mount = 0
    BY <2>2 DEF CallsUnderWay
  <2>4. QED
    BY <2>3, UIAssumption DEF AnswerOrder, CallsAreOfThePast
<1>2. FreshAnswersKeepUp'
  BY DEF AnswerOrder, FreshAnswersKeepUp, Fresh, NoLaterThan
<1>3. QED
  BY <1>1, <1>2 DEF AnswerOrder

LEMMA AnswerOrderNotify ==
    TypeOK /\ AnswerOrder /\ NotifyStep => AnswerOrder'
<1> SUFFICES ASSUME TypeOK, AnswerOrder, NotifyStep PROVE AnswerOrder'
  OBVIOUS
<1>1. UNCHANGED <<mount, version, screen, fromEvent, sent, served>>
  BY DEF NotifyStep, NotifyCurrent, NotifyStale, Emit, pageVars
<1>2. \A a \in InFlight' : a \in InFlight \/ (a.status = "event" /\ a.call = NoCall)
  <2>1. CASE Emit
    <3>1. PICK s : wire' = Append(wire, Event(s))
      BY <2>1 DEF Emit
    <3>2. Event(s).status = "event" /\ Event(s).call = NoCall
      BY DEF Event, AnswerTo
    <3>3. {wire'[k] : k \in Places'} = {wire[k] : k \in Places} \cup {Event(s)}
      BY <3>1, Appended
    <3>4. QED
      BY <1>1, <3>2, <3>3 DEF InFlight
  <2>2. CASE wire' = wire
    BY <1>1, <2>2 DEF InFlight, Places
  <2>3. QED
    BY <2>1, <2>2 DEF NotifyStep, NotifyCurrent, NotifyStale
<1>3. QED
  BY <1>1, <1>2, AnswerOrderBehind DEF TypeOK

LEMMA AnswerOrderCall ==
    ASSUME TypeOK, CounterAgrees, EventOrder, AnswerOrder,
           NEW call \in sent, CallStep(call)
    PROVE  AnswerOrder'
<1>1. PICK status, s : (s = current' \/ s = NoSnapshot) /\ Serve(call, status, s)
  <2>1. CASE StartLaunch(call)  BY <2>1 DEF StartLaunch
  <2>2. CASE CancelLaunch(call)  BY <2>2 DEF CancelLaunch
  <2>3. CASE StartRefused(call)  BY <2>3 DEF StartRefused
  <2>4. CASE GetCurrentLaunchState(call)
    BY <2>4 DEF GetCurrentLaunchState, registryVars
  <2>5. CASE CancelRefused(call)
    BY <2>5 DEF CancelRefused, registryVars
  <2>6. QED
    BY <2>1, <2>2, <2>3, <2>4, <2>5 DEF CallStep
<1>2. /\ sent' \subseteq sent /\ UNCHANGED <<wire, mount, version, screen, fromEvent>>
      /\ served' = served \cup {AnswerTo(call, status, s)}
  BY <1>1 DEF Serve, pageVars
<1>3. fromEvent => NoLaterThan(screen, current')
  BY <1>2, OrderCall DEF EventOrder, ShownEventIsBehind, NoLaterThan
<1>4. \A a \in InFlight' : a \in InFlight \/ a = AnswerTo(call, status, s)
  BY <1>2 DEF InFlight, Places
<1>5. /\ AnswerTo(call, status, s).call = call
      /\ AnswerTo(call, status, s).snapshot = s
  BY DEF AnswerTo
<1>6. QED
  BY <1>1, <1>2, <1>3, <1>4, <1>5, AnswerOrderBehind DEF TypeOK

LEMMA AnswerOrderAnswer == TypeOK /\ AnswerOrder /\ Answer => AnswerOrder'
<1> SUFFICES ASSUME TypeOK, AnswerOrder, Answer PROVE AnswerOrder'
  OBVIOUS
<1>1. PICK a \in served : served' = served \ {a} /\ wire' = Append(wire, a)
  BY DEF Answer
<1>2. {wire'[k] : k \in Places'} = {wire[k] : k \in Places} \cup {a}
  BY <1>1, Appended
<1>3. InFlight' \subseteq InFlight
  BY <1>1, <1>2 DEF InFlight
<1>4. UNCHANGED <<mount, version, screen, fromEvent, sent>>
  BY DEF Answer, pageVars
<1>5. QED
  BY <1>3, <1>4, AnswerOrderBehind DEF TypeOK

LEMMA AnswerOrderUser == TypeOK /\ AnswerOrder /\ User => AnswerOrder'
<1> SUFFICES ASSUME TypeOK, AnswerOrder, User PROVE AnswerOrder'
  OBVIOUS
<1>1. InFlight' = InFlight
  BY DEF User, Submit, Cancel, Remount, InFlight, Places
<1>2. CASE Submit \/ Cancel
  <2>1. UNCHANGED <<mount, version, screen, fromEvent>>
    BY <1>2 DEF Submit, Cancel
  <2>2. \A c \in sent' : c \in sent \/ (c.mount = mount /\ c.version = version)
    BY <1>2 DEF Submit, Cancel, Call
  <2>3. mount \in Int /\ version \in Nat
    BY DEF TypeOK
  <2>4. CallsAreOfThePast'
    BY <1>1, <2>1, <2>2, <2>3 DEF AnswerOrder, CallsAreOfThePast, CallsUnderWay
  <2>5. FreshAnswersKeepUp'
    BY <1>1, <2>1 DEF AnswerOrder, FreshAnswersKeepUp, Fresh, NoLaterThan
  <2>6. QED
    BY <2>4, <2>5 DEF AnswerOrder
<1>3. CASE Remount
  <2>1. mount' = mount + 1 /\ version' = 0 /\ fromEvent' = FALSE /\ mount \in Int
    BY <1>3 DEF Remount, TypeOK
  <2>2. \A c \in sent' : c \in sent \/ (c.mount = mount + 1 /\ c.version = 0)
    BY <1>3 DEF Remount, FirstCall
  <2>3. \A c \in CallsUnderWay : c \in Calls
    BY CallsAreTyped
  <2>4. \A c \in CallsUnderWay : c.mount \in Int /\ c.mount <= mount
    BY <2>3 DEF Calls, AnswerOrder, CallsAreOfThePast
  <2>5. \A c \in CallsUnderWay' : c \in CallsUnderWay \/ (c.mount = mount + 1 /\ c.version = 0)
    BY <1>1, <2>2 DEF CallsUnderWay
  <2>6. CallsAreOfThePast'
    BY <2>1, <2>4, <2>5 DEF CallsAreOfThePast
  <2>7. QED
    BY <2>1, <2>6 DEF AnswerOrder, FreshAnswersKeepUp
<1>4. QED
  BY <1>2, <1>3 DEF User

LEMMA AnswerOrderPage ==
    ASSUME TypeOK, AnswerOrder, wire # <<>>, PageStep(Head(wire))
    PROVE  AnswerOrder'
<1> DEFINE a == Head(wire)
<1>1. wire' = Tail(wire) /\ UNCHANGED <<served, mount>>
  BY DEF PageStep, ReceiveEvent, ReceiveForOld, ReceiveState, ReceiveStart,
     ReceiveCancel, ReceiveRefresh, ReceiveAnswer, Receive
<1>2. InFlight' \subseteq InFlight
  BY <1>1, AnswersTaken
<1>3. mount \in Int /\ version \in Nat
  BY DEF TypeOK
<1>4. version' \in {version, version + 1}
  BY DEF PageStep, ReceiveEvent, ReceiveForOld, ReceiveState, ReceiveStart,
     ReceiveCancel, ReceiveRefresh, ReceiveAnswer
<1>5. \A c \in sent' : c \in sent \/ (c.mount = mount /\ c.version = version)
  BY DEF PageStep, ReceiveEvent, ReceiveForOld, ReceiveState, ReceiveStart,
     ReceiveCancel, ReceiveRefresh, Call
<1>6. \A c \in CallsUnderWay' : c \in CallsUnderWay \/ (c.mount = mount /\ c.version = version)
  BY <1>2, <1>5 DEF CallsUnderWay
<1>7. \A c \in CallsUnderWay : c \in Calls
  BY CallsAreTyped
<1>8. CallsAreOfThePast'
  <2>1. \A c \in CallsUnderWay : c.version \in Nat
    BY <1>7 DEF Calls
  <2>2. QED
    BY <1>1, <1>3, <1>4, <1>6, <2>1 DEF AnswerOrder, CallsAreOfThePast
<1>9. FreshAnswersKeepUp'
  <2>1. CASE version' = version + 1
    <3>1. \A b \in InFlight' : b.call \in CallsUnderWay /\ b.call \in Calls
      BY <1>2, <1>7 DEF CallsUnderWay
    <3>2. \A b \in InFlight' : b.call.mount = mount' => version' # b.call.version
      <4>1. \A b \in InFlight' : b.call.version \in Nat
        BY <3>1 DEF Calls
      <4>2. QED
        BY <1>1, <1>3, <2>1, <3>1, <4>1 DEF AnswerOrder, CallsAreOfThePast
    <3>3. QED
      BY <3>2 DEF FreshAnswersKeepUp, Fresh
  <2>2. CASE version' = version
    <3>1. fromEvent' => fromEvent /\ screen' = screen
      BY <1>3, <2>2, WhatAMessageShows
    <3>2. QED
      BY <1>1, <1>2, <2>2, <3>1
      DEF AnswerOrder, FreshAnswersKeepUp, Fresh, NoLaterThan
  <2>3. QED
    BY <1>4, <2>1, <2>2
<1>10. QED
  BY <1>8, <1>9 DEF AnswerOrder

LEMMA AnswerOrderStep ==
    TypeOK /\ CounterAgrees /\ EventOrder /\ AnswerOrder /\ [Next]_vars => AnswerOrder'
<1> SUFFICES ASSUME TypeOK, CounterAgrees, EventOrder, AnswerOrder, [Next]_vars
             PROVE  AnswerOrder'
  OBVIOUS
<1>1. CASE UNCHANGED vars
  BY <1>1, AnswerOrderBehind DEF vars, pageVars, InFlight, Places, TypeOK
<1>2. CASE RunStep
  <2>1. UNCHANGED <<mount, version, screen, fromEvent, sent, served, wire>>
    BY <1>2 DEF RunStep, RunTransition, RunFinish, pageVars
  <2>2. QED
    BY <2>1, AnswerOrderBehind DEF InFlight, Places, TypeOK
<1>3. QED
  BY <1>1, <1>2, StepCases, AnswerOrderNotify, AnswerOrderCall, AnswerOrderAnswer,
     AnswerOrderPage, AnswerOrderUser

(* A step that replaces what an event has brought shows something newer.   *)
TakesNothingBack ==
    mount' = mount /\ screen' # screen /\ fromEvent => Story!Follows(screen, screen')

LEMMA PageTakesNothingBack ==
    ASSUME TypeOK, EventOrder, AnswerOrder, wire # <<>>, PageStep(Head(wire))
    PROVE  TakesNothingBack
<1> SUFFICES ASSUME screen' # screen, fromEvent PROVE Story!Follows(screen, screen')
  BY DEF TakesNothingBack
<1> DEFINE a == Head(wire)
<1>1. wire' = Tail(wire) /\ served' = served
  BY DEF PageStep, ReceiveEvent, ReceiveForOld, ReceiveState, ReceiveStart,
     ReceiveCancel, ReceiveRefresh, ReceiveAnswer, Receive
<1>2. a \in InFlight /\ 1 \in Places /\ a = wire[1]
  BY <1>1, AnswersTaken, NextMessage
<1>3. CASE ReceiveEvent(a) \/ ReceiveForOld(a)
  <2>1. a.status = "event" /\ screen' = a.snapshot
    BY <1>3 DEF ReceiveEvent, ReceiveForOld
  <2>2. QED
    BY <1>2, <2>1 DEF EventOrder, ShownEventIsBehind, EventAt
<1>4. CASE ReceiveState(a) \/ ReceiveStart(a) \/ ReceiveCancel(a) \/ ReceiveRefresh(a)
  <2>1. /\ a.status # "event" /\ a.call.mount = mount
        /\ Fresh(a) /\ screen' = a.snapshot
    BY <1>4 DEF ReceiveState, ReceiveStart, ReceiveCancel, ReceiveRefresh, ReceiveAnswer,
       Show
  <2>2. NoLaterThan(screen, a.snapshot)
    BY <1>2, <2>1 DEF AnswerOrder, FreshAnswersKeepUp
  <2>3. QED
    BY <2>1, <2>2 DEF NoLaterThan
<1>5. QED
  BY <1>3, <1>4 DEF PageStep

LEMMA OnlyThePageShows ==
    ASSUME RunStep \/ NotifyStep \/ (\E call \in sent : CallStep(call)) \/ Answer \/ User
           \/ UNCHANGED vars
    PROVE  screen' = screen \/ mount' = mount + 1
<1> USE DEF pageVars
<1>1. CASE RunStep  BY <1>1 DEF RunStep, RunTransition, RunFinish
<1>2. CASE NotifyStep  BY <1>2 DEF NotifyStep, NotifyCurrent, NotifyStale, Emit
<1>3. CASE \E call \in sent : CallStep(call)
  BY <1>3 DEF CallStep, GetCurrentLaunchState, StartLaunch, StartRefused, CancelLaunch,
     CancelRefused, Serve
<1>4. CASE Answer  BY <1>4 DEF Answer
<1>5. CASE User  BY <1>5 DEF User, Submit, Cancel, Remount
<1>6. CASE UNCHANGED vars  BY <1>6 DEF vars
<1>7. QED
  BY <1>1, <1>2, <1>3, <1>4, <1>5, <1>6

(***************************************************************************)
(* What an event has brought to the page is only ever followed by          *)
(* something newer, however late and in whichever order the answers to     *)
(* StartLaunch, CancelLaunch and GetCurrentLaunchState arrive              *)
(* (App.tsx:82-103,123-148,162-180).                                       *)
(***************************************************************************)
THEOREM LateAnswersTakeNothingBack == Spec => EventsAreNotTakenBack
<1>1. Init => AnswerOrder
  BY AnswerOrderInit
<1>2. TypeOK /\ CounterAgrees /\ EventOrder /\ AnswerOrder /\ [Next]_vars => AnswerOrder'
  BY AnswerOrderStep
<1>3. TypeOK /\ EventOrder /\ AnswerOrder /\ [Next]_vars => [TakesNothingBack]_vars
  <2>1. TypeOK => mount # mount + 1
    BY DEF TypeOK
  <2>2. QED
    BY <2>1, StepCases, OnlyThePageShows, PageTakesNothingBack DEF TakesNothingBack
<1>4. EventsAreNotTakenBack <=> [][TakesNothingBack]_vars
  BY DEF EventsAreNotTakenBack, TakesNothingBack
<1>5. QED
  BY <1>1, <1>2, <1>3, <1>4, TypesAndCounter, EventsArriveInOrder, PTL DEF Spec

-----------------------------------------------------------------------------
(***************************************************************************)
(* Towards QuietScreenIsCurrent.  First, the calls: the page has at most   *)
(* one Start under way, for which it sets acceptingNewOperationRef, at     *)
(* most one Cancel or the refresh that follows it, for which it sets       *)
(* isCancelling, and the fetch of its mount (App.tsx:86,117-186).          *)
(***************************************************************************)
Basics == TypeOK /\ CounterAgrees /\ EventOrder /\ AnswerOrder

LEMMA BasicsHold == Spec => []Basics
<1>1. Init => AnswerOrder
  BY AnswerOrderInit
<1>2. TypeOK /\ CounterAgrees /\ EventOrder /\ AnswerOrder /\ [Next]_vars => AnswerOrder'
  BY AnswerOrderStep
<1>3. QED
  BY <1>1, <1>2, TypesAndCounter, EventsArriveInOrder, PTL DEF Spec, Basics

Fetching == {"fetch"}
Starting == {"start"}
Cancelling == {"cancel", "refresh"}

Mine(c, lane) == c.mount = mount /\ c.kind \in lane

AtMostOne(lane) ==
    /\ \A c, d \in sent : Mine(c, lane) /\ Mine(d, lane) => c = d
    /\ \A a, b \in served : Mine(a.call, lane) /\ Mine(b.call, lane) => a = b
    /\ \A k, l \in Places : Mine(wire[k].call, lane) /\ Mine(wire[l].call, lane) => k = l
    /\ \A c \in sent, a \in served : ~(Mine(c, lane) /\ Mine(a.call, lane))
    /\ \A c \in sent, k \in Places : ~(Mine(c, lane) /\ Mine(wire[k].call, lane))
    /\ \A a \in served, k \in Places : ~(Mine(a.call, lane) /\ Mine(wire[k].call, lane))

None(lane) ==
    /\ \A c \in sent : ~Mine(c, lane)
    /\ \A a \in served : ~Mine(a.call, lane)
    /\ \A k \in Places : ~Mine(wire[k].call, lane)

OneCallEach ==
    /\ AtMostOne(Fetching) /\ AtMostOne(Starting) /\ AtMostOne(Cancelling)
    /\ ~accepting => None(Starting)
    /\ ~cancelling => None(Cancelling)
    /\ screen = NoSnapshot => None(Cancelling)

LEMMA LaneKept ==
    ASSUME NEW lane, UNCHANGED <<sent, served, wire, mount>>
    PROVE  (AtMostOne(lane) => AtMostOne(lane)') /\ (None(lane) => None(lane)')
BY DEF AtMostOne, None, Mine, Places

LEMMA LaneEvent ==
    ASSUME TypeOK, NEW lane, NEW s, wire' = Append(wire, Event(s)),
           UNCHANGED <<sent, served, mount>>
    PROVE  (AtMostOne(lane) => AtMostOne(lane)') /\ (None(lane) => None(lane)')
<1>1. /\ Len(wire) \in Nat /\ Len(wire') = Len(wire) + 1
      /\ \A k \in Places : wire'[k] = wire[k]
      /\ wire'[Len(wire) + 1] = Event(s)
  BY DEF TypeOK, Places
<1>2. Event(s).call.mount = 0 /\ mount # 0
  BY DEF Event, AnswerTo, NoCall, TypeOK
<1>3. ASSUME NEW k \in Places', Mine(wire[k].call, lane)'
      PROVE  k \in Places /\ Mine(wire[k].call, lane)
  BY <1>1, <1>2, <1>3 DEF Places, Mine
<1>4. /\ \A c \in sent' : c \in sent /\ (Mine(c, lane)' => Mine(c, lane))
      /\ \A a \in served' : a \in served /\ (Mine(a.call, lane)' => Mine(a.call, lane))
  BY DEF Mine
<1>5. QED
  BY <1>3, <1>4 DEF AtMostOne, None

LEMMA LaneServe ==
    ASSUME NEW lane, NEW call, NEW status, NEW s, Serve(call, status, s)
    PROVE  (AtMostOne(lane) => AtMostOne(lane)') /\ (None(lane) => None(lane)')
<1>1. /\ call \in sent /\ sent' = sent \ {call}
      /\ served' = served \cup {AnswerTo(call, status, s)}
      /\ UNCHANGED <<wire, mount>>
  BY DEF Serve, pageVars
<1>2. AnswerTo(call, status, s).call = call
  BY DEF AnswerTo
<1>3. QED
  BY <1>1, <1>2 DEF AtMostOne, None, Mine, Places

LEMMA LaneAnswer ==
    ASSUME TypeOK, NEW lane, NEW a \in served, served' = served \ {a},
           wire' = Append(wire, a), UNCHANGED <<sent, mount>>
    PROVE  (AtMostOne(lane) => AtMostOne(lane)') /\ (None(lane) => None(lane)')
<1>1. /\ Len(wire) \in Nat /\ Len(wire') = Len(wire) + 1
      /\ \A k \in Places : wire'[k] = wire[k]
      /\ wire'[Len(wire) + 1] = a
  BY DEF TypeOK, Places
<1>2. \A k \in Places' : \/ k \in Places /\ wire'[k] = wire[k]
                         \/ k = Len(wire) + 1 /\ wire'[k] = a
  BY <1>1 DEF Places
<1>3. ASSUME NEW k \in Places', Mine(wire[k].call, lane)'
      PROVE  \/ k \in Places /\ Mine(wire[k].call, lane)
             \/ k = Len(wire) + 1 /\ Mine(a.call, lane)
  BY <1>2, <1>3 DEF Mine
<1>4. /\ \A c \in sent' : c \in sent /\ (Mine(c, lane)' => Mine(c, lane))
      /\ \A b \in served' : /\ b \in served /\ b # a
                            /\ Mine(b.call, lane)' => Mine(b.call, lane)
  BY DEF Mine
<1>5. QED
  BY <1>3, <1>4 DEF AtMostOne, None

(* The page takes a message, and may make a call when it was of the lane.  *)
LEMMA LaneTaken ==
    ASSUME TypeOK, NEW lane, wire # <<>>, wire' = Tail(wire), UNCHANGED <<served, mount>>,
           NEW new, sent' = sent \cup new,
           \A c \in new : Mine(c, lane) => Mine(Head(wire).call, lane) /\ new = {c}
    PROVE  /\ AtMostOne(lane) => AtMostOne(lane)'
           /\ None(lane) => None(lane)'
           /\ AtMostOne(lane) /\ Mine(Head(wire).call, lane) /\ new = {} => None(lane)'
<1>1. /\ 1 \in Places /\ Head(wire) = wire[1]
      /\ \A k \in Places' : k + 1 \in Places /\ 1 < k + 1 /\ wire'[k] = wire[k + 1]
  BY NextMessage
<1>2. \A k, l \in Places' : k + 1 = l + 1 => k = l
  BY DEF Places
<1>3. \A k \in Places' : k + 1 # 1
  BY <1>1
<1>4. None(lane) => None(lane)'
  BY <1>1 DEF None, Mine
<1>5. ASSUME AtMostOne(lane), Mine(Head(wire).call, lane)
      PROVE  /\ \A c \in sent : ~Mine(c, lane)
             /\ \A a \in served : ~Mine(a.call, lane)
             /\ \A k \in Places' : ~Mine(wire'[k].call, lane)
  BY <1>1, <1>3, <1>5 DEF AtMostOne
<1>6. ASSUME AtMostOne(lane), Mine(Head(wire).call, lane) PROVE AtMostOne(lane)'
  <2>1. \A c \in sent' : ~Mine(c, lane)' \/ new = {c}
    BY <1>5, <1>6 DEF Mine
  <2>2. \A a \in served' : ~Mine(a.call, lane)'
    BY <1>5, <1>6 DEF Mine
  <2>3. \A k \in Places' : ~Mine(wire[k].call, lane)'
    BY <1>5, <1>6 DEF Mine
  <2>4. \A c, d \in sent' : Mine(c, lane)' /\ Mine(d, lane)' => c = d
    BY <2>1
  <2>5. QED
    BY <2>2, <2>3, <2>4, Zenon DEF AtMostOne
<1>7. ASSUME AtMostOne(lane), ~Mine(Head(wire).call, lane) PROVE AtMostOne(lane)'
  <2>1. \A c \in new : ~Mine(c, lane)
    BY <1>7
  <2>2. /\ \A c \in sent' : Mine(c, lane)' => c \in sent /\ Mine(c, lane)
        /\ \A a \in served' : a \in served /\ (Mine(a.call, lane)' => Mine(a.call, lane))
    BY <2>1 DEF Mine
  <2>3. \A k \in Places' : Mine(wire[k].call, lane)' =>
            k + 1 \in Places /\ Mine(wire[k + 1].call, lane)
    BY <1>1 DEF Mine
  <2>4. QED
    BY <1>2, <1>7, <2>2, <2>3 DEF AtMostOne
<1>8. ASSUME AtMostOne(lane), Mine(Head(wire).call, lane), new = {} PROVE None(lane)'
  BY <1>5, <1>8 DEF None, Mine
<1>9. QED
  BY <1>4, <1>6, <1>7, <1>8

LEMMA LaneEmptied ==
    ASSUME TypeOK, NEW lane, wire # <<>>, wire' = Tail(wire),
           UNCHANGED <<sent, served, mount>>
    PROVE  /\ AtMostOne(lane) => AtMostOne(lane)'
           /\ None(lane) => None(lane)'
           /\ AtMostOne(lane) /\ Mine(Head(wire).call, lane) => None(lane)'
<1>1. ASSUME NEW new, new = {}
      PROVE  /\ AtMostOne(lane) => AtMostOne(lane)'
             /\ None(lane) => None(lane)'
             /\ AtMostOne(lane) /\ Mine(Head(wire).call, lane) /\ new = {} => None(lane)'
  <2>1. sent' = sent \cup new
    BY <1>1
  <2>2. \A c \in new : Mine(c, lane) => Mine(Head(wire).call, lane) /\ new = {c}
    BY <1>1
  <2>3. UNCHANGED <<served, mount>>
    OBVIOUS
  <2>4. QED
    BY <2>1, <2>2, <2>3, LaneTaken
<1>2. QED
  BY <1>1

LEMMA LaneAdded ==
    ASSUME NEW lane, NEW c, sent' = sent \cup {c}, UNCHANGED <<served, wire, mount>>,
           Mine(c, lane) => None(lane)
    PROVE  /\ AtMostOne(lane) => AtMostOne(lane)'
           /\ None(lane) /\ ~Mine(c, lane) => None(lane)'
BY DEF AtMostOne, None, Mine, Places

LEMMA OneCallInit == Init => OneCallEach
BY DEF Init, OneCallEach, AtMostOne, None, Mine, Places, FirstCall, Fetching, Starting,
   Cancelling

(* The application brings calls and answers on their way, and adds none.   *)
BackendStep ==
    \/ RunStep \/ NotifyStep \/ (\E call \in sent : CallStep(call)) \/ Answer
    \/ UNCHANGED vars

LEMMA BackendKeepsLanes ==
    ASSUME TypeOK, BackendStep, NEW lane
    PROVE  (AtMostOne(lane) => AtMostOne(lane)') /\ (None(lane) => None(lane)')
<1>1. CASE UNCHANGED <<sent, served, wire, mount>>
  BY <1>1, LaneKept
<1>2. CASE Emit
  <2>1. (\E s : wire' = Append(wire, Event(s))) /\ UNCHANGED <<sent, served, mount>>
    BY <1>2 DEF Emit, pageVars
  <2>2. QED
    BY <2>1, LaneEvent
<1>3. CASE \E call \in sent : CallStep(call)
  <2>1. \E call, status, s : Serve(call, status, s)
    BY <1>3 DEF CallStep, GetCurrentLaunchState, StartLaunch, StartRefused,
       CancelLaunch, CancelRefused
  <2>2. QED
    BY <2>1, LaneServe
<1>4. CASE Answer
  <2>1. /\ \E a \in served : served' = served \ {a} /\ wire' = Append(wire, a)
        /\ UNCHANGED <<sent, mount>>
    BY <1>4 DEF Answer, pageVars
  <2>2. QED
    BY <2>1, LaneAnswer
<1>5. RunStep \/ NotifyCurrent \/ NotifyStale \/ UNCHANGED vars =>
          UNCHANGED <<sent, served, wire, mount>>
  BY DEF RunStep, RunTransition, RunFinish, NotifyCurrent, NotifyStale, vars, pageVars
<1>6. QED
  BY <1>1, <1>2, <1>3, <1>4, <1>5 DEF NotifyStep, BackendStep

LEMMA BackendKeepsPage ==
    BackendStep => UNCHANGED <<mount, screen, version, accepting, cancelling, fromEvent, orphans>>
BY DEF BackendStep, RunStep, RunTransition, RunFinish, NotifyStep, NotifyCurrent,
   NotifyStale, Emit, CallStep, GetCurrentLaunchState, StartLaunch, StartRefused,
   CancelLaunch, CancelRefused, Serve, Answer, vars, pageVars

LEMMA OneCallBackend == TypeOK /\ OneCallEach /\ BackendStep => OneCallEach'
BY BackendKeepsLanes, BackendKeepsPage DEF OneCallEach

LEMMA OneCallUser == Basics /\ OneCallEach /\ User => OneCallEach'
<1> SUFFICES ASSUME Basics, OneCallEach, User PROVE OneCallEach'
  OBVIOUS
<1> USE DEF Fetching, Starting, Cancelling
<1>1. CASE Submit
  <2>1. /\ sent' = sent \cup {Call("start", 0)} /\ UNCHANGED <<served, wire, mount>>
        /\ ~accepting /\ accepting' = TRUE /\ UNCHANGED <<cancelling, screen>>
    BY <1>1 DEF Submit
  <2>2. Call("start", 0).kind = "start"
    BY DEF Call
  <2>3. AtMostOne(Fetching)' /\ AtMostOne(Starting)' /\ AtMostOne(Cancelling)'
    BY <2>1, <2>2, LaneAdded DEF OneCallEach, Mine
  <2>4. None(Cancelling) => None(Cancelling)'
    BY <2>1, <2>2, LaneAdded DEF Mine
  <2>5. QED
    BY <2>1, <2>3, <2>4 DEF OneCallEach
<1>2. CASE Cancel
  <2>1. /\ sent' = sent \cup {Call("cancel", screen.id)} /\ UNCHANGED <<served, wire, mount>>
        /\ ~cancelling /\ cancelling' = TRUE /\ UNCHANGED <<accepting, screen>>
        /\ screen.state \in ActiveStates
    BY <1>2 DEF Cancel, OperationActive
  <2>2. Call("cancel", screen.id).kind = "cancel"
    BY DEF Call
  <2>3. AtMostOne(Fetching)' /\ AtMostOne(Starting)' /\ AtMostOne(Cancelling)'
    BY <2>1, <2>2, LaneAdded DEF OneCallEach, Mine
  <2>4. None(Starting) => None(Starting)'
    BY <2>1, <2>2, LaneAdded DEF Mine
  <2>5. screen # NoSnapshot
    BY <2>1 DEF NoSnapshot, ActiveStates
  <2>6. QED
    BY <2>1, <2>3, <2>4, <2>5 DEF OneCallEach
<1>3. CASE Remount
  <2>1. /\ sent' = sent \cup {FirstCall(mount + 1)} /\ mount' = mount + 1
        /\ UNCHANGED <<served, wire>>
    BY <1>3 DEF Remount
  <2>2. mount \in Int
    BY DEF Basics, TypeOK
  <2>3. \A c \in CallsUnderWay : c \in Calls /\ c.mount <= mount
    BY CallsAreTyped DEF Basics, AnswerOrder, CallsAreOfThePast
  <2>4. \A c \in CallsUnderWay : c.mount # mount + 1
    BY <2>2, <2>3 DEF Calls
  <2>5. /\ \A c \in sent : c \in CallsUnderWay
        /\ \A a \in served : a.call \in CallsUnderWay
        /\ \A k \in Places : wire[k].call \in CallsUnderWay
    BY DEF CallsUnderWay, InFlight
  <2>6. FirstCall(mount + 1).kind = "fetch"
    BY DEF FirstCall
  <2>7. /\ \A c \in sent' : c.mount = mount' => c = FirstCall(mount + 1)
        /\ \A a \in served' : a.call.mount # mount'
        /\ \A k \in Places' : wire'[k].call.mount # mount'
    BY <2>1, <2>4, <2>5 DEF Places
  <2>8. AtMostOne(Fetching)' /\ AtMostOne(Starting)' /\ AtMostOne(Cancelling)'
    BY <2>7 DEF AtMostOne, Mine
  <2>9. None(Starting)' /\ None(Cancelling)'
    BY <2>6, <2>7 DEF None, Mine
  <2>10. QED
    BY <2>8, <2>9 DEF OneCallEach
<1>4. QED
  BY <1>1, <1>2, <1>3 DEF User

(* What a page shows is never nothing again.                               *)
LEMMA ShowsSomething ==
    ASSUME Basics, wire # <<>>, PageStep(Head(wire))
    PROVE  screen' = NoSnapshot => screen = NoSnapshot
<1> DEFINE a == Head(wire)
<1>1. CASE ReceiveEvent(a)
  <2>1. wire' = Tail(wire) /\ a.status = "event"
    BY <1>1 DEF ReceiveEvent, Receive
  <2>2. 1 \in Places /\ a = wire[1]
    BY <2>1, NextMessage DEF Basics
  <2>3. a.snapshot \in Snapshots
    BY <2>1, <2>2 DEF Basics, EventOrder, EventsAreOrdered, EventAt
  <2>4. a.snapshot # NoSnapshot
    BY <2>3 DEF Snapshots, NoSnapshot
  <2>5. QED
    BY <1>1, <2>4 DEF ReceiveEvent
<1>2. CASE ReceiveForOld(a)
  BY <1>2 DEF ReceiveForOld
<1>3. CASE ReceiveState(a) \/ ReceiveStart(a) \/ ReceiveCancel(a) \/ ReceiveRefresh(a)
  BY <1>3 DEF ReceiveState, ReceiveStart, ReceiveCancel, ReceiveRefresh, Show, Fresh
<1>4. QED
  BY <1>1, <1>2, <1>3 DEF PageStep

LEMMA OneCallPage ==
    ASSUME Basics, OneCallEach, wire # <<>>, PageStep(Head(wire))
    PROVE  OneCallEach'
<1> DEFINE a == Head(wire)
<1> USE DEF Fetching, Starting, Cancelling
<1>1. TypeOK /\ wire' = Tail(wire) /\ UNCHANGED <<served, mount>>
  BY DEF Basics, PageStep, ReceiveEvent, ReceiveForOld, ReceiveState, ReceiveStart,
     ReceiveCancel, ReceiveRefresh, ReceiveAnswer, Receive
<1>2. screen' = NoSnapshot => screen = NoSnapshot
  BY ShowsSomething
<1>3. 1 \in Places /\ a = wire[1]
  BY <1>1, NextMessage
<1>4. CASE sent' = sent
  <2>1. \A lane : /\ AtMostOne(lane) => AtMostOne(lane)'
                  /\ None(lane) => None(lane)'
                  /\ AtMostOne(lane) /\ Mine(a.call, lane) => None(lane)'
    BY <1>1, <1>4, LaneEmptied
  <2>2. ~accepting' => ~accepting \/ Mine(a.call, Starting)
    BY DEF PageStep, ReceiveEvent, ReceiveForOld, ReceiveState, ReceiveStart,
       ReceiveCancel, ReceiveRefresh, ReceiveAnswer, Mine
  <2>3. ~cancelling' => ~cancelling \/ Mine(a.call, Cancelling)
    BY DEF PageStep, ReceiveEvent, ReceiveForOld, ReceiveState, ReceiveStart,
       ReceiveCancel, ReceiveRefresh, ReceiveAnswer, Mine
  <2>4. QED
    BY <1>2, <2>1, <2>2, <2>3 DEF OneCallEach
<1>5. CASE sent' # sent
  <2>1. /\ sent' = sent \cup {Call("refresh", screen'.id)}
        /\ UNCHANGED <<cancelling, accepting>> /\ Mine(a.call, Cancelling)
    BY <1>5 DEF PageStep, ReceiveEvent, ReceiveForOld, ReceiveState, ReceiveStart,
       ReceiveCancel, ReceiveRefresh, ReceiveAnswer, Mine
  <2>2. Call("refresh", screen'.id).kind = "refresh"
    BY DEF Call
  <2>3. \A lane \in {Fetching, Starting, Cancelling} :
            /\ AtMostOne(lane) => AtMostOne(lane)'
            /\ None(lane) => None(lane)'
    <3> SUFFICES ASSUME NEW lane \in {Fetching, Starting, Cancelling}
                 PROVE  /\ AtMostOne(lane) => AtMostOne(lane)'
                        /\ None(lane) => None(lane)'
      OBVIOUS
    <3> DEFINE new == {Call("refresh", screen'.id)}
    <3>1. Mine(Call("refresh", screen'.id), lane) => Mine(a.call, lane)
      BY <2>1, <2>2 DEF Mine
    <3>2. /\ sent' = sent \cup new
          /\ \A c \in new : Mine(c, lane) => Mine(a.call, lane) /\ new = {c}
      BY <2>1, <3>1
    <3> HIDE DEF new
    <3>3. QED
      BY <1>1, <3>2, LaneTaken
  <2>4. ~None(Cancelling)
    BY <1>3, <2>1 DEF None
  <2>5. QED
    BY <1>2, <2>1, <2>3, <2>4 DEF OneCallEach
<1>6. QED
  BY <1>4, <1>5

LEMMA OneCallStep == Basics /\ OneCallEach /\ [Next]_vars => OneCallEach'
<1> SUFFICES ASSUME Basics, OneCallEach, [Next]_vars PROVE OneCallEach'
  OBVIOUS
<1>1. TypeOK
  BY DEF Basics
<1>2. QED
  BY <1>1, StepCases, OneCallBackend, OneCallUser, OneCallPage DEF BackendStep

-----------------------------------------------------------------------------
(***************************************************************************)
(* What the page and its calls know: no operation that has not begun, and  *)
(* an operation whose Start answer is still to come only from a call that  *)
(* was made after the call to Start it.                                    *)
(***************************************************************************)
WellAnswered(a) ==
    /\ a.status = "event" => a.call = NoCall
    /\ a.status = "started" => a.call.kind = "start" /\ a.snapshot.state = "starting"
    /\ a.call.kind = "start" => a.status = "started" \/ a.snapshot = NoSnapshot
    /\ a.call.kind = "cancel" => a.snapshot = NoSnapshot \/ a.snapshot.id = a.call.id

WellCalled(c) ==
    /\ c.kind = "fetch" => c.version = 0
    /\ c.kind = "none" => c.mount = 0

CalledSince(c, d) ==
    d.mount < c.mount \/ (d.mount = c.mount /\ d.version <= c.version)

Knowledge ==
    /\ screen.id <= sequence
    /\ \A a \in InFlight : a.snapshot.id <= sequence /\ WellAnswered(a)
    /\ \A c \in CallsUnderWay : c.id <= sequence /\ WellCalled(c)
    /\ \A c \in sent, a \in InFlight :
           c.kind = "cancel" /\ a.status = "started" /\ a.snapshot.id = c.id =>
               CalledSince(c, a.call)

LEMMA AnswersAreTyped == TypeOK => InFlight \subseteq Answers
<1> SUFFICES ASSUME TypeOK PROVE InFlight \subseteq Answers
  OBVIOUS
<1>1. \A k \in Places : wire[k] \in Answers
  BY ElementOfSeq DEF TypeOK, Places
<1>2. QED
  BY <1>1 DEF InFlight, TypeOK

LEMMA AnswerIds == TypeOK => \A a \in InFlight : a.snapshot.id \in Nat
BY AnswersAreTyped, SnapshotIds DEF Answers, AnySnapshot

LEMMA KnowledgeInit == Init => Knowledge
BY DEF Init, NewRegistry, Knowledge, WellCalled, InFlight, CallsUnderWay, Places, NoSnapshot,
   FirstCall

LEMMA KnowledgeBackend ==
    ASSUME TypeOK, Knowledge, sequence' \in Nat, sequence <= sequence', screen' = screen,
           sent' \subseteq sent,
           \A a \in InFlight' :
               \/ a \in InFlight
               \/ /\ a.snapshot.id <= sequence' /\ WellAnswered(a)
                  /\ a.call \in sent \/ a.call = NoCall
                  /\ a.status = "started" => sequence < a.snapshot.id
    PROVE  Knowledge'
<1>1. /\ sequence \in Nat /\ screen.id \in Nat
      /\ \A a \in InFlight : a.snapshot.id \in Nat
      /\ \A c \in CallsUnderWay : c.id \in Nat
  BY SnapshotIds, AnswerIds, CallsAreTyped DEF TypeOK, RegistryTypeOK, AnySnapshot, Calls
<1>2. screen'.id <= sequence'
  BY <1>1 DEF Knowledge
<1>3. \A a \in InFlight' : a.snapshot.id <= sequence' /\ WellAnswered(a)'
  BY <1>1 DEF Knowledge, WellAnswered
<1>4. \A c \in CallsUnderWay' : c \in CallsUnderWay \/ c = NoCall
  BY DEF CallsUnderWay
<1>5. \A c \in CallsUnderWay' : c.id <= sequence' /\ WellCalled(c)
  BY <1>1, <1>4 DEF Knowledge, NoCall, WellCalled
<1>6. ASSUME NEW c \in sent', NEW a \in InFlight',
             c.kind = "cancel", a.status = "started", a.snapshot.id = c.id
      PROVE  CalledSince(c, a.call)
  <2>1. c \in CallsUnderWay /\ c.id <= sequence
    BY DEF Knowledge, CallsUnderWay
  <2>2. a \in InFlight
    BY <1>1, <1>6, <2>1
  <2>3. QED
    BY <1>6, <2>2 DEF Knowledge
<1>7. QED
  BY <1>2, <1>3, <1>5, <1>6 DEF Knowledge, CalledSince, WellCalled

(* What each step of the application adds to the answers.                  *)
LEMMA RunAddsNothing ==
    RunStep => UNCHANGED <<sent, served, wire, emitting, pageVars, orphans>> /\ InFlight' = InFlight
BY DEF RunStep, RunTransition, RunFinish, InFlight, Places

LEMMA NotifyAddsEvents ==
    ASSUME TypeOK, NotifyStep
    PROVE  /\ UNCHANGED <<registryVars, sent, served, pageVars, orphans>>
           /\ \A a \in InFlight' : a \in InFlight \/ \E s \in emitting : a = Event(s)
           /\ InFlight \subseteq InFlight'
<1>1. UNCHANGED <<registryVars, sent, served, pageVars, orphans>>
  BY DEF NotifyStep, NotifyCurrent, NotifyStale, Emit
<1>2. CASE NotifyCurrent \/ NotifyStale
  BY <1>2 DEF NotifyCurrent, NotifyStale, InFlight, Places
<1>3. CASE Emit
  <2>1. PICK s \in emitting : wire' = Append(wire, Event(s))
    BY <1>3 DEF Emit
  <2>2. {wire'[k] : k \in Places'} = {wire[k] : k \in Places} \cup {Event(s)}
    BY <2>1, Appended
  <2>3. QED
    BY <1>1, <2>2 DEF InFlight
<1>4. QED
  BY <1>1, <1>2, <1>3 DEF NotifyStep

LEMMA CallAddsItsAnswer ==
    ASSUME TypeOK, CounterAgrees, NEW call \in sent, CallStep(call)
    PROVE  \E a \in Answers :
               /\ a.call = call /\ WellAnswered(a) /\ a.status # "event"
               /\ sent' = sent \ {call} /\ served' = served \cup {a}
               /\ InFlight' = InFlight \cup {a}
               /\ \/ StartLaunch(call) /\ a.status = "started" /\ a.snapshot = current'
                     /\ sequence' = sequence + 1 /\ current'.state = "starting"
                  \/ CancelLaunch(call) /\ a.status # "started" /\ a.snapshot = current'
                     /\ sequence' = sequence
                  \/ UNCHANGED <<registryVars, telling>> /\ a.status # "started"
                     /\ a.snapshot \in {current, NoSnapshot}
                     /\ (call.kind = "fetch" => a.snapshot = current)
               /\ UNCHANGED <<emitting, wire, pageVars, orphans>>
<1> SUFFICES \E status, s :
          LET a == AnswerTo(call, status, s)
          IN  /\ Serve(call, status, s) /\ a \in Answers /\ WellAnswered(a)
              /\ a.status # "event"
              /\ \/ StartLaunch(call) /\ a.status = "started" /\ a.snapshot = current'
                    /\ sequence' = sequence + 1 /\ current'.state = "starting"
                 \/ CancelLaunch(call) /\ a.status # "started" /\ a.snapshot = current'
                    /\ sequence' = sequence
                 \/ UNCHANGED <<registryVars, telling>> /\ a.status # "started"
                    /\ a.snapshot \in {current, NoSnapshot}
                    /\ (call.kind = "fetch" => a.snapshot = current)
  BY DEF Serve, InFlight, Places, AnswerTo
<1> USE DEF WellAnswered
<1>1. call \in Calls /\ current \in AnySnapshot
  BY DEF TypeOK, RegistryTypeOK, AnySnapshot
<1>2. \A status \in Statuses : \A s \in AnySnapshot :
          LET a == AnswerTo(call, status, s)
          IN  a \in Answers /\ a.call = call /\ a.status = status /\ a.snapshot = s
  BY <1>1 DEF AnswerTo, Answers, AnySnapshot
<1>3. NoSnapshot \in AnySnapshot
  BY DEF AnySnapshot
<1>4. CASE StartLaunch(call)
  <2>1. Serve(call, "started", current') /\ call.kind = "start"
    BY <1>4 DEF StartLaunch
  <2>2. current' \in AnySnapshot
    BY <1>4, BackendWrites DEF Advances, AnySnapshot
  <2>3. sequence' = sequence + 1 /\ current'.state = "starting"
    BY <1>4 DEF StartLaunch, RegistryStart, SnapshotOf
  <2>4. QED
    BY <1>2, <1>4, <2>1, <2>2, <2>3 DEF Statuses
<1>5. CASE CancelLaunch(call)
  <2>1. Serve(call, "accepted", current') /\ call.kind = "cancel" /\ sequence' = sequence
    BY <1>5 DEF CancelLaunch, RegistryCancel
  <2>2. current' \in AnySnapshot
    BY <1>5, BackendWrites DEF Advances, AnySnapshot
  <2>3. current'.id = call.id
    BY <1>5 DEF CancelLaunch, RegistryCancel, CanCancel, RegistryTypeOK, TypeOK,
       Snapshots, NoSnapshot
  <2>4. QED
    BY <1>2, <1>5, <2>1, <2>2, <2>3 DEF Statuses
<1>6. CASE StartRefused(call)
  BY <1>2, <1>3, <1>6 DEF StartRefused, Statuses
<1>7. CASE GetCurrentLaunchState(call)
  BY <1>1, <1>2, <1>7 DEF GetCurrentLaunchState, Statuses
<1>8. CASE CancelRefused(call)
  BY <1>1, <1>2, <1>3, <1>8 DEF CancelRefused, Statuses
<1>9. QED
  BY <1>4, <1>5, <1>6, <1>7, <1>8 DEF CallStep

LEMMA AnswerAddsNothing ==
    ASSUME TypeOK, Answer
    PROVE  UNCHANGED <<backendVars, sent, pageVars, orphans>> /\ InFlight' = InFlight
<1>1. UNCHANGED <<backendVars, sent, pageVars, orphans>>
  BY DEF Answer
<1>2. PICK a \in served : served' = served \ {a} /\ wire' = Append(wire, a)
  BY DEF Answer
<1>3. {wire'[k] : k \in Places'} = {wire[k] : k \in Places} \cup {a}
  BY <1>2, Appended
<1>4. QED
  BY <1>1, <1>2, <1>3 DEF InFlight

LEMMA KnowledgeStep == Basics /\ Knowledge /\ [Next]_vars => Knowledge'
<1> SUFFICES ASSUME Basics, Knowledge, [Next]_vars PROVE Knowledge'
  OBVIOUS
<1>0. TypeOK /\ CounterAgrees /\ TypeOK' /\ CounterAgrees' /\ sequence \in Nat /\ sequence' \in Nat
  BY TypeStep DEF Basics, TypeOK, RegistryTypeOK
<1>1. CASE UNCHANGED vars
  BY <1>0, <1>1, KnowledgeBackend
  DEF vars, backendVars, registryVars, pageVars, InFlight, Places
<1>2. CASE RunStep
  <2>1. sequence' = sequence
    BY <1>2 DEF RunStep, RunTransition, RunFinish, RegistryTransition, RegistryFinish
  <2>2. QED
    BY <1>0, <1>2, <2>1, RunAddsNothing, KnowledgeBackend DEF pageVars
<1>3. CASE NotifyStep
  <2>1. \A s \in emitting : s.id <= sequence
    <3>1. \A s \in emitting : s \in AnySnapshot /\ NoLaterThan(s, current)
      BY <1>0 DEF Basics, EventOrder, EventsAreOrdered, TypeOK, AnySnapshot
    <3>2. \A s \in AnySnapshot : NoLaterThan(s, current) => s.id <= current.id
      BY <1>0, SnapshotIds
      DEF NoLaterThan, Story!Follows, TypeOK, RegistryTypeOK, AnySnapshot
    <3>3. QED
      BY <1>0, <3>1, <3>2 DEF CounterAgrees
  <2>2. \A s : /\ WellAnswered(Event(s)) /\ Event(s).call = NoCall
               /\ Event(s).snapshot = s /\ Event(s).status = "event"
    BY DEF WellAnswered, Event, AnswerTo, NoCall
  <2>3. QED
    BY <1>0, <1>3, <2>1, <2>2, NotifyAddsEvents, KnowledgeBackend DEF pageVars, registryVars
<1>4. CASE \E call \in sent : CallStep(call)
  <2>1. PICK call \in sent : CallStep(call)
    BY <1>4
  <2>2. current.id = sequence /\ current'.id = sequence' /\ NoSnapshot.id = 0
    BY <1>0 DEF CounterAgrees, NoSnapshot
  <2>3. QED
    BY <1>0, <2>1, <2>2, CallAddsItsAnswer, KnowledgeBackend DEF pageVars, registryVars
<1>5. CASE Answer
  BY <1>0, <1>5, AnswerAddsNothing, KnowledgeBackend DEF pageVars, backendVars, registryVars
<1>6. CASE User
  <2>1. sequence' = sequence /\ InFlight' = InFlight /\ screen' \in {screen, NoSnapshot}
    BY <1>6 DEF User, Submit, Cancel, Remount, backendVars, registryVars, InFlight, Places
  <2>2. screen'.id <= sequence'
    BY <1>0, <2>1 DEF Knowledge, NoSnapshot
  <2>3. \A c \in sent' :
            \/ c \in sent
            \/ c.id = 0 /\ c.kind # "cancel" /\ WellCalled(c)
            \/ c.id = screen.id /\ c.kind = "cancel" /\ c.mount = mount /\ c.version = version
    BY <1>6 DEF User, Submit, Cancel, Remount, Call, FirstCall, WellCalled
  <2>4. \A c \in CallsUnderWay' : c.id <= sequence /\ WellCalled(c)
    BY <1>0, <2>1, <2>3 DEF Knowledge, CallsUnderWay, WellCalled
  <2>5. \A a \in InFlight :
            a.call.mount <= mount /\ (a.call.mount = mount => a.call.version <= version)
    BY DEF Basics, AnswerOrder, CallsAreOfThePast, CallsUnderWay
  <2>6. \A a \in InFlight : a.call.mount \in Int
    BY <1>0, AnswersAreTyped DEF Answers, Calls
  <2>7. mount \in Int
    BY <1>0 DEF TypeOK
  <2>8. \A c \in sent', a \in InFlight :
            c.kind = "cancel" /\ a.status = "started" /\ a.snapshot.id = c.id =>
                CalledSince(c, a.call)
    BY <2>3, <2>5, <2>6, <2>7 DEF Knowledge, CalledSince
  <2>9. QED
    BY <2>1, <2>2, <2>4, <2>8 DEF Knowledge, WellAnswered, WellCalled, CalledSince
<1>7. CASE wire # <<>> /\ PageStep(Head(wire))
  <2> DEFINE a == Head(wire)
  <2>1. /\ wire' = Tail(wire) /\ UNCHANGED <<served, sequence>>
        /\ screen' = screen \/ screen' = a.snapshot
        /\ sent' = sent \/ sent' = sent \cup {Call("refresh", screen'.id)}
    BY <1>7 DEF PageStep, ReceiveEvent, ReceiveForOld, ReceiveState, ReceiveStart,
       ReceiveCancel, ReceiveRefresh, ReceiveAnswer, Receive, Show, backendVars,
       registryVars
  <2>2. InFlight' \subseteq InFlight /\ a \in InFlight
    BY <1>0, <1>7, <2>1, AnswersTaken
  <2>3. screen'.id <= sequence
    BY <2>1, <2>2 DEF Knowledge
  <2>4. \A c \in sent' : c \in sent \/ (c.id = screen'.id /\ c.kind = "refresh")
    BY <2>1 DEF Call
  <2>5. \A c \in CallsUnderWay' : c.id <= sequence /\ WellCalled(c)
    BY <2>2, <2>3, <2>4 DEF Knowledge, CallsUnderWay, WellCalled
  <2>6. \A c \in sent', b \in InFlight' :
            c.kind = "cancel" /\ b.status = "started" /\ b.snapshot.id = c.id =>
                CalledSince(c, b.call)
    BY <2>2, <2>4 DEF Knowledge
  <2>7. QED
    BY <2>1, <2>2, <2>3, <2>5, <2>6 DEF Knowledge, WellAnswered, WellCalled, CalledSince
<1>8. QED
  BY <1>1, <1>2, <1>3, <1>4, <1>5, <1>6, <1>7, StepCases

-----------------------------------------------------------------------------
(***************************************************************************)
(* What has been told before an answer.  An answer waits for the           *)
(* announcement of what its call has changed, so behind the answer of the  *)
(* latest Start only events of its operation come; and once the event of   *)
(* the latest state has been taken no other is on its way                  *)
(* (service.go:61-119,203-214).                                            *)
(***************************************************************************)
EmitsOne == \A s, t \in emitting : s = t

StartedLatest(a) == a.status = "started" /\ a.snapshot.id = current.id

BehindTheStart ==
    /\ \A a \in served : StartedLatest(a) =>
           \/ a.snapshot \in telling \cup emitting
           \/ \A e \in emitting : e.id = current.id
    /\ \A l \in Places : StartedLatest(wire[l]) =>
           /\ \A e \in emitting : e.id = current.id
           /\ \A q \in Places : l < q /\ EventAt(q) => wire[q].snapshot.id = current.id

Heard ==
    /\ current # NoSnapshot
    /\ current \notin telling \cup emitting
    /\ \A k \in Places : EventAt(k) => wire[k].snapshot # current

NothingAfterTheLatest == Heard => emitting = {} /\ \A k \in Places : ~EventAt(k)

Announcements == EmitsOne /\ BehindTheStart /\ NothingAfterTheLatest

LEMMA AppendedAt ==
    ASSUME TypeOK, NEW m, wire' = Append(wire, m)
    PROVE  /\ Len(wire) + 1 \notin Places /\ wire'[Len(wire) + 1] = m
           /\ Len(wire) + 1 \in Places'
           /\ \A k \in Places : k \in Places' /\ k < Len(wire) + 1 /\ wire'[k] = wire[k]
           /\ \A k \in Places' : k \in Places \/ k = Len(wire) + 1
           /\ \A k \in Places' : ~(Len(wire) + 1 < k)
<1>1. /\ Len(wire) \in Nat /\ Len(wire') = Len(wire) + 1
      /\ \A k \in Places : wire'[k] = wire[k]
      /\ wire'[Len(wire) + 1] = m
  BY DEF TypeOK, Places
<1>2. QED
  BY <1>1 DEF Places

LEMMA AnnouncementsInit == Init => Announcements
BY DEF Init, Announcements, EmitsOne, BehindTheStart, NothingAfterTheLatest, Places

(* Steps that leave what is emitted and the queue alone.                   *)
LEMMA AnnouncementsKept ==
    ASSUME Announcements, UNCHANGED <<emitting, wire>>, current'.id = current.id,
           telling \subseteq telling', current' = current \/ current' \in telling',
           \A a \in served' : a \in served \/ a.status # "started"
    PROVE  Announcements'
<1>1. EmitsOne'
  BY DEF Announcements, EmitsOne
<1>2. BehindTheStart'
  BY DEF Announcements, BehindTheStart, StartedLatest, Places, EventAt
<1>3. NothingAfterTheLatest'
  BY DEF Announcements, NothingAfterTheLatest, Heard, Places, EventAt
<1>4. QED
  BY <1>1, <1>2, <1>3 DEF Announcements

LEMMA AnnouncementsNotify == Basics /\ Announcements /\ NotifyStep => Announcements'
<1> SUFFICES ASSUME Basics, Announcements, NotifyStep PROVE Announcements'
  OBVIOUS
<1>0. TypeOK
  BY DEF Basics
<1>1. CASE NotifyCurrent
  <2>1. /\ emitting = {} /\ emitting' = {current} /\ UNCHANGED <<current, wire, served>>
    BY <1>1 DEF NotifyCurrent, registryVars
  <2>2. QED
    BY <2>1 DEF Announcements, EmitsOne, BehindTheStart, NothingAfterTheLatest, Heard,
       StartedLatest, Places, EventAt
<1>2. CASE NotifyStale
  <2>1. /\ emitting = {} /\ \E s \in telling \ {current} : telling' = telling \ {s}
        /\ UNCHANGED <<current, wire, served, emitting>>
    BY <1>2 DEF NotifyStale, registryVars
  <2>2. Heard' => Heard
    BY <2>1 DEF Heard, Places, EventAt
  <2>3. QED
    BY <2>1, <2>2 DEF Announcements, EmitsOne, BehindTheStart, NothingAfterTheLatest,
       StartedLatest, Places, EventAt
<1>3. CASE Emit
  <2>1. PICK s \in emitting : wire' = Append(wire, Event(s))
    BY <1>3 DEF Emit
  <2>2. emitting' = {} /\ UNCHANGED <<current, telling, served>>
    BY <1>3 DEF Emit, registryVars
  <2>3. Event(s).status = "event" /\ Event(s).snapshot = s
    BY DEF Event, AnswerTo
  <2>4. /\ Len(wire) + 1 \notin Places /\ wire'[Len(wire) + 1] = Event(s)
        /\ Len(wire) + 1 \in Places'
        /\ \A k \in Places : k \in Places' /\ k < Len(wire) + 1 /\ wire'[k] = wire[k]
        /\ \A k \in Places' : k \in Places \/ k = Len(wire) + 1
    BY <1>0, <2>1, AppendedAt
  <2>5. BehindTheStart'
    BY <2>2, <2>3, <2>4 DEF Announcements, BehindTheStart, StartedLatest, EventAt
  <2>6. ~Heard'
    <3>1. CASE s = current
      BY <2>2, <2>3, <2>4, <3>1 DEF Heard, EventAt
    <3>2. CASE s # current
      <4>1. current \notin emitting /\ emitting # {}
        BY <3>2 DEF Announcements, EmitsOne
      <4>2. ~Heard
        BY <4>1 DEF Announcements, NothingAfterTheLatest
      <4>3. QED
        BY <2>2, <2>4, <4>1, <4>2 DEF Heard, EventAt
    <3>3. QED
      BY <3>1, <3>2
  <2>7. QED
    BY <2>2, <2>5, <2>6 DEF Announcements, EmitsOne, NothingAfterTheLatest
<1>4. QED
  BY <1>1, <1>2, <1>3 DEF NotifyStep

LEMMA AnnouncementsCall ==
    ASSUME Basics, Knowledge, Announcements, NEW call \in sent, CallStep(call)
    PROVE  Announcements'
<1>0. TypeOK /\ CounterAgrees /\ TypeOK' /\ CounterAgrees'
  BY TypeStep DEF Basics, Next, Backend, CallStep
<1>1. PICK a : /\ served' = served \cup {a} /\ UNCHANGED <<emitting, wire>>
               /\ \/ StartLaunch(call) /\ a.status = "started" /\ a.snapshot = current'
                     /\ sequence' = sequence + 1
                  \/ CancelLaunch(call) /\ a.status # "started" /\ sequence' = sequence
                  \/ UNCHANGED <<registryVars, telling>> /\ a.status # "started"
  BY <1>0, CallAddsItsAnswer
<1>2. CASE CancelLaunch(call) /\ a.status # "started" /\ sequence' = sequence
  <2>1. telling' = telling \cup {current'}
    BY <1>2 DEF CancelLaunch
  <2>2. QED
    BY <1>0, <1>1, <1>2, <2>1, AnnouncementsKept DEF CounterAgrees
<1>3. CASE UNCHANGED <<registryVars, telling>> /\ a.status # "started"
  BY <1>1, <1>3, AnnouncementsKept DEF registryVars
<1>4. CASE StartLaunch(call) /\ a.snapshot = current' /\ sequence' = sequence + 1
  <2>1. telling' = telling \cup {current'}
    BY <1>4 DEF StartLaunch
  <2>2. \A b \in InFlight : b.snapshot.id \in Nat /\ b.snapshot.id <= sequence
    BY <1>0, AnswerIds DEF Knowledge
  <2>3. sequence \in Nat /\ current'.id = sequence + 1
    BY <1>0, <1>4 DEF TypeOK, RegistryTypeOK, CounterAgrees
  <2>4. \A b \in InFlight : b.snapshot.id # current'.id
    BY <2>2, <2>3
  <2>5. (\A b \in served : ~StartedLatest(b)') /\ (\A l \in Places : ~StartedLatest(wire[l])')
    BY <1>1, <2>4 DEF StartedLatest, InFlight
  <2>6. BehindTheStart'
    BY <1>1, <1>4, <2>1, <2>5 DEF BehindTheStart, Places
  <2>7. ~Heard'
    BY <2>1 DEF Heard
  <2>8. QED
    BY <1>1, <2>6, <2>7 DEF Announcements, EmitsOne, NothingAfterTheLatest
<1>5. QED
  BY <1>1, <1>2, <1>3, <1>4

LEMMA AnnouncementsAnswer == Basics /\ Announcements /\ Answer => Announcements'
<1> SUFFICES ASSUME Basics, Announcements, Answer PROVE Announcements'
  OBVIOUS
<1>0. TypeOK /\ UNCHANGED <<current, telling, emitting>>
  BY DEF Basics, Answer, backendVars, registryVars
<1>1. PICK a \in served :
          /\ a.status \in {"started", "accepted"} => a.snapshot \notin telling \cup emitting
          /\ served' = served \ {a} /\ wire' = Append(wire, a)
  BY DEF Answer
<1>2. a.status # "event"
  BY DEF Basics, EventOrder, EventsAreOrdered
<1>3. /\ Len(wire) + 1 \notin Places /\ wire'[Len(wire) + 1] = a
      /\ \A k \in Places : k \in Places' /\ k < Len(wire) + 1 /\ wire'[k] = wire[k]
      /\ \A k \in Places' : k \in Places \/ k = Len(wire) + 1
      /\ \A k \in Places' : ~(Len(wire) + 1 < k)
  BY <1>0, <1>1, AppendedAt
<1>4. /\ \A k \in Places : EventAt(k)' <=> EventAt(k)
      /\ \A k \in Places' : EventAt(k)' => k \in Places /\ wire'[k] = wire[k]
  BY <1>2, <1>3 DEF EventAt
<1>5. BehindTheStart'
  BY <1>0, <1>1, <1>3, <1>4 DEF Announcements, BehindTheStart, StartedLatest
<1>6. NothingAfterTheLatest'
  BY <1>0, <1>3, <1>4 DEF Announcements, NothingAfterTheLatest, Heard
<1>7. QED
  BY <1>0, <1>5, <1>6 DEF Announcements, EmitsOne

(* The places of the queue move up when the page takes a message.          *)
LEMMA TakenAt ==
    ASSUME TypeOK, wire # <<>>, wire' = Tail(wire)
    PROVE  /\ 1 \in Places
           /\ \A k \in Places' : k + 1 \in Places /\ 1 < k + 1 /\ wire'[k] = wire[k + 1]
           /\ \A k, l \in Places' : k < l => k + 1 < l + 1
           /\ \A k, l \in Places' : k + 1 < l + 1 => k < l
           /\ \A k \in Places : k = 1 \/ \E l \in Places' : k = l + 1
<1>1. wire \in Seq(Answers) /\ Len(wire) \in Nat /\ Len(wire') = Len(wire) - 1
  BY HeadTailProperties, LenProperties DEF TypeOK
<1>2. \A k \in Places : k = 1 \/ (k - 1 \in Places' /\ k = (k - 1) + 1)
  BY <1>1 DEF Places
<1>3. \A k, l \in Places' : (k < l => k + 1 < l + 1) /\ (k + 1 < l + 1 => k < l)
  BY DEF Places
<1>4. QED
  BY <1>2, <1>3, NextMessage

LEMMA AnnouncementsPage ==
    ASSUME Basics, Announcements, wire # <<>>, PageStep(Head(wire))
    PROVE  Announcements'
<1>1. TypeOK /\ wire' = Tail(wire) /\ UNCHANGED <<current, telling, emitting, served>>
  BY DEF Basics, PageStep, ReceiveEvent, ReceiveForOld, ReceiveState, ReceiveStart,
     ReceiveCancel, ReceiveRefresh, ReceiveAnswer, Receive, backendVars, registryVars
<1>2. /\ 1 \in Places
      /\ \A k \in Places' : k + 1 \in Places /\ 1 < k + 1 /\ wire'[k] = wire[k + 1]
      /\ \A k, l \in Places' : k < l => k + 1 < l + 1
      /\ \A k, l \in Places' : k + 1 < l + 1 => k < l
      /\ \A k \in Places : k = 1 \/ \E l \in Places' : k = l + 1
  BY <1>1, TakenAt
<1>3. BehindTheStart'
  <2>1. \A a : StartedLatest(a)' <=> StartedLatest(a)
    BY <1>1 DEF StartedLatest
  <2>2. ASSUME NEW l \in Places', StartedLatest(wire[l])'
        PROVE  /\ \A e \in emitting' : e.id = current'.id
               /\ \A q \in Places' : l < q /\ EventAt(q)' => wire'[q].snapshot.id = current'.id
    <3>1. l + 1 \in Places /\ StartedLatest(wire[l + 1])
      BY <1>1, <1>2, <2>2 DEF StartedLatest
    <3>2. \A e \in emitting : e.id = current.id
      BY <3>1 DEF Announcements, BehindTheStart
    <3>3. \A q \in Places : l + 1 < q /\ EventAt(q) => wire[q].snapshot.id = current.id
      BY <3>1 DEF Announcements, BehindTheStart
    <3>4. \A q \in Places' : l < q => l + 1 < q + 1 /\ q + 1 \in Places /\ wire'[q] = wire[q + 1]
      BY <1>2
    <3>5. QED
      BY <1>1, <3>2, <3>3, <3>4 DEF EventAt
  <2>3. QED
    BY <1>1, <2>1, <2>2 DEF Announcements, BehindTheStart
<1>4. ASSUME Heard' PROVE emitting' = {} /\ \A k \in Places' : ~EventAt(k)'
  <2>1. CASE Heard
    BY <1>1, <1>2, <2>1 DEF Announcements, NothingAfterTheLatest, EventAt
  <2>2. CASE ~Heard
    <3>0. \A l \in Places' : EventAt(l + 1) => wire[l + 1].snapshot # current
      BY <1>1, <1>2, <1>4 DEF Heard, EventAt
    <3>1. EventAt(1) /\ wire[1].snapshot = current
      BY <1>1, <1>2, <1>4, <2>2, <3>0 DEF Heard
    <3>2. current \in AnySnapshot
      BY <1>1 DEF TypeOK, RegistryTypeOK, AnySnapshot
    <3>3. \A s \in Snapshots : ~(Story!Follows(current, s) /\ NoLaterThan(s, current))
      <4> SUFFICES ASSUME NEW s \in Snapshots, Story!Follows(current, s),
                          NoLaterThan(s, current)
                   PROVE  FALSE
        OBVIOUS
      <4>1. Story!Follows(s, s)
        <5>1. CASE s = current
          BY <5>1
        <5>2. CASE Story!Follows(s, current)
          BY <3>2, <5>2, FollowsIsTransitive DEF NoLaterThan, AnySnapshot
        <5>3. QED
          BY <5>1, <5>2 DEF NoLaterThan
      <4>2. QED
        BY <4>1, FollowsIsStrict DEF AnySnapshot
    <3>4. \A s \in emitting : s \in Snapshots /\ Story!Follows(current, s) /\ NoLaterThan(s, current)
      BY <1>1, <1>2, <3>1 DEF Basics, EventOrder, EventsAreOrdered, TypeOK
    <3>5. \A k \in Places : 1 < k /\ EventAt(k) =>
              /\ wire[k].snapshot \in Snapshots
              /\ Story!Follows(current, wire[k].snapshot)
              /\ NoLaterThan(wire[k].snapshot, current)
      BY <1>2, <3>1 DEF Basics, EventOrder, EventsAreOrdered
    <3>6. emitting = {}
      BY <3>3, <3>4
    <3>7. \A k \in Places' : ~EventAt(k + 1)
      BY <1>2, <3>3, <3>5
    <3>8. QED
      BY <1>1, <1>2, <3>6, <3>7 DEF EventAt
  <2>3. QED
    BY <2>1, <2>2
<1>5. QED
  BY <1>1, <1>3, <1>4 DEF Announcements, EmitsOne, NothingAfterTheLatest

LEMMA AnnouncementsStep ==
    Basics /\ Knowledge /\ Announcements /\ [Next]_vars => Announcements'
<1> SUFFICES ASSUME Basics, Knowledge, Announcements, [Next]_vars PROVE Announcements'
  OBVIOUS
<1>1. CASE User \/ UNCHANGED vars
  <2>1. UNCHANGED <<current, telling, emitting, wire, served>>
    BY <1>1 DEF User, Submit, Cancel, Remount, vars, backendVars, registryVars
  <2>2. QED
    BY <2>1, AnnouncementsKept
<1>2. CASE RunStep
  <2>1. /\ UNCHANGED <<emitting, wire, served, sequence>>
        /\ telling' = telling \cup {current'}
    BY <1>2 DEF RunStep, RunTransition, RunFinish, RegistryTransition, RegistryFinish
  <2>2. CounterAgrees /\ CounterAgrees'
    BY TypeStep DEF Basics
  <2>3. current'.id = current.id
    BY <2>1, <2>2 DEF CounterAgrees
  <2>4. QED
    BY <2>1, <2>3, AnnouncementsKept
<1>3. QED
  BY <1>1, <1>2, StepCases, AnnouncementsNotify, AnnouncementsCall, AnnouncementsAnswer,
     AnnouncementsPage

-----------------------------------------------------------------------------
(***************************************************************************)
(* The answer to a Start is preceded by the event of the operation it      *)
(* began, unless a page that knew the operation already has cancelled it.  *)
(* So a Start that the page still waits for is silent, with nothing told   *)
(* before its answer, only when the page shows something, and the fetch of *)
(* a mount is overtaken as soon as anything is shown                       *)
(* (service.go:61-119, App.tsx:79-91,117-148).                             *)
(***************************************************************************)
Awaited(a) == a.status = "started" /\ a.call.mount = mount /\ Fresh(a)

ToBeTold(s) ==
    \/ s = current /\ s \in telling
    \/ s \in emitting
    \/ \E k \in Places : EventAt(k) /\ wire[k].snapshot = s

ToldBefore(l) ==
    \E k \in Places : k < l /\ EventAt(k) /\ wire[k].snapshot = wire[l].snapshot

SilentServed == {a \in served : Awaited(a) /\ ~ToBeTold(a.snapshot)}
SilentPlaces == {l \in Places : Awaited(wire[l]) /\ ~ToldBefore(l)}
SilentStarts == SilentServed \cup {wire[l] : l \in SilentPlaces}

StartsAreTold ==
    /\ SilentStarts # {} => screen # NoSnapshot
    /\ version = 0 /\ screen # NoSnapshot => None(Fetching)

LEMMA StartsAreToldInit == Init => StartsAreTold
BY DEF Init, StartsAreTold, SilentStarts, SilentServed, SilentPlaces, Places

LEMMA SilentKept ==
    ASSUME UNCHANGED <<wire, mount, version>>,
           \A a \in served' : a.status = "started" =>
               \/ a \in served /\ (ToBeTold(a.snapshot) => ToBeTold(a.snapshot)')
               \/ ToBeTold(a.snapshot)'
    PROVE  SilentStarts' \subseteq SilentStarts
<1>1. \A a : Awaited(a)' <=> Awaited(a)
  BY DEF Awaited, Fresh
<1>2. SilentServed' \subseteq SilentServed
  BY <1>1 DEF SilentServed, Awaited
<1>3. \A l \in Places' : l \in Places /\ (ToldBefore(l)' <=> ToldBefore(l))
  BY DEF ToldBefore, Places, EventAt
<1>4. \A l \in Places' : wire'[l] = wire[l] /\ (Awaited(wire[l])' <=> Awaited(wire[l]))
  BY DEF Awaited, Fresh
<1>5. SilentPlaces' \subseteq SilentPlaces
  BY <1>3, <1>4 DEF SilentPlaces
<1>6. QED
  BY <1>2, <1>5 DEF SilentStarts

LEMMA StartedIsStarting ==
    ASSUME Knowledge, NEW a \in InFlight, a.status = "started"
    PROVE  a.snapshot.state = "starting"
BY DEF Knowledge, WellAnswered

LEMMA SilentRun == Knowledge /\ RunStep => SilentStarts' \subseteq SilentStarts
<1> SUFFICES ASSUME Knowledge, RunStep PROVE SilentStarts' \subseteq SilentStarts
  OBVIOUS
<1>1. UNCHANGED <<served, wire, emitting, mount, version>>
  BY RunAddsNothing DEF pageVars
<1>2. \A a \in served : a.status = "started" => a.snapshot.state = "starting"
  BY StartedIsStarting DEF InFlight
<1>3. ASSUME NEW s, s.state = "starting", ToBeTold(s) PROVE ToBeTold(s)'
  <2>1. ~(s = current /\ s \in telling)
    BY <1>3 DEF RunStep, RunTransition, RunFinish, Announced
  <2>2. QED
    BY <1>1, <1>3, <2>1 DEF ToBeTold, Places, EventAt
<1>4. QED
  BY <1>1, <1>2, <1>3, SilentKept

LEMMA SilentNotify ==
    Basics /\ Announcements /\ NotifyStep => SilentStarts' \subseteq SilentStarts
<1> SUFFICES ASSUME Basics, Announcements, NotifyStep
             PROVE  SilentStarts' \subseteq SilentStarts
  OBVIOUS
<1>0. TypeOK
  BY DEF Basics
<1>1. CASE NotifyCurrent
  <2>1. /\ UNCHANGED <<current, served, wire, mount, version>>
        /\ emitting = {} /\ emitting' = {current}
    BY <1>1 DEF NotifyCurrent, registryVars, pageVars
  <2>2. \A s : ToBeTold(s) => ToBeTold(s)'
    BY <2>1 DEF ToBeTold, Places, EventAt
  <2>3. QED
    BY <2>1, <2>2, SilentKept
<1>2. CASE NotifyStale
  <2>1. /\ UNCHANGED <<current, served, wire, mount, version, emitting>>
        /\ \E s \in telling \ {current} : telling' = telling \ {s}
    BY <1>2 DEF NotifyStale, registryVars, pageVars
  <2>2. \A s : ToBeTold(s) => ToBeTold(s)'
    BY <2>1 DEF ToBeTold, Places, EventAt
  <2>3. QED
    BY <2>1, <2>2, SilentKept
<1>3. CASE Emit
  <2>1. PICK s \in emitting : wire' = Append(wire, Event(s))
    BY <1>3 DEF Emit
  <2>2. UNCHANGED <<current, telling, served, mount, version>>
    BY <1>3 DEF Emit, registryVars, pageVars
  <2>3. Event(s).status = "event" /\ Event(s).snapshot = s
    BY DEF Event, AnswerTo
  <2>4. /\ Len(wire) + 1 \notin Places /\ wire'[Len(wire) + 1] = Event(s)
        /\ Len(wire) + 1 \in Places'
        /\ \A k \in Places : k \in Places' /\ k < Len(wire) + 1 /\ wire'[k] = wire[k]
        /\ \A k \in Places' : k \in Places \/ k = Len(wire) + 1
    BY <1>0, <2>1, AppendedAt
  <2>5. \A t \in emitting : t = s
    BY DEF Announcements, EmitsOne
  <2>6. \A t : ToBeTold(t) => ToBeTold(t)'
    BY <2>2, <2>3, <2>4, <2>5 DEF ToBeTold, EventAt
  <2>7. \A a : Awaited(a)' <=> Awaited(a)
    BY <2>2 DEF Awaited, Fresh
  <2>8. SilentServed' \subseteq SilentServed
    BY <2>2, <2>6, <2>7 DEF SilentServed
  <2>9. \A l \in Places : ToldBefore(l) => ToldBefore(l)'
    BY <2>4 DEF ToldBefore, EventAt
  <2>10. ASSUME NEW l \in SilentPlaces' PROVE l \in SilentPlaces /\ wire'[l] = wire[l]
    <3>1. l \in Places' /\ wire'[l].status = "started" /\ Awaited(wire[l])' /\ ~ToldBefore(l)'
      BY DEF SilentPlaces, Awaited
    <3>2. l \in Places /\ wire'[l] = wire[l]
      BY <2>3, <2>4, <3>1
    <3>3. Awaited(wire[l])
      BY <2>2, <3>1, <3>2 DEF Awaited, Fresh
    <3>4. QED
      BY <2>9, <3>1, <3>2, <3>3 DEF SilentPlaces
  <2>11. QED
    BY <2>8, <2>10 DEF SilentStarts
<1>4. QED
  BY <1>1, <1>2, <1>3 DEF NotifyStep

(* Only a cancellation can keep the beginning of an operation quiet.       *)
LEMMA SilentCall ==
    ASSUME TypeOK, CounterAgrees, Knowledge, NEW call \in sent, CallStep(call)
    PROVE  \/ SilentStarts' \subseteq SilentStarts
           \/ /\ CancelLaunch(call)
              /\ \A a \in SilentStarts' : a \in SilentStarts \/
                     (a \in served /\ a.status = "started" /\ a.snapshot = current)
<1>1. PICK a :
          /\ served' = served \cup {a} /\ UNCHANGED <<emitting, wire, mount, version>>
          /\ \/ StartLaunch(call) /\ a.status = "started" /\ a.snapshot = current'
             \/ CancelLaunch(call) /\ a.status # "started"
             \/ UNCHANGED <<registryVars, telling>> /\ a.status # "started"
  BY CallAddsItsAnswer DEF pageVars
<1>2. CASE StartLaunch(call) /\ a.snapshot = current'
  <2>1. telling' = telling \cup {current'} /\ current.state \notin ActiveStates
    BY <1>2 DEF StartLaunch, RegistryStart, InProgress
  <2>2. ToBeTold(a.snapshot)'
    BY <1>2, <2>1 DEF ToBeTold
  <2>3. \A b \in served : b.status = "started" => b.snapshot # current
    BY <2>1, StartedIsStarting DEF InFlight, ActiveStates
  <2>4. \A b \in served : b.status = "started" /\ ToBeTold(b.snapshot) => ToBeTold(b.snapshot)'
    BY <1>1, <2>3 DEF ToBeTold, Places, EventAt
  <2>5. QED
    BY <1>1, <2>2, <2>4, SilentKept
<1>3. CASE CancelLaunch(call) /\ a.status # "started"
  <2>1. \A b \in served : b.snapshot # current /\ ToBeTold(b.snapshot) => ToBeTold(b.snapshot)'
    BY <1>1 DEF ToBeTold, Places, EventAt
  <2>2. \A b : Awaited(b)' <=> Awaited(b)
    BY <1>1 DEF Awaited, Fresh
  <2>3. \A b \in SilentServed' : b \in SilentServed \/
            (b \in served /\ b.status = "started" /\ b.snapshot = current)
    BY <1>1, <1>3, <2>1, <2>2 DEF SilentServed, Awaited
  <2>4. \A l \in Places' : l \in Places /\ (ToldBefore(l)' <=> ToldBefore(l))
    BY <1>1 DEF ToldBefore, Places, EventAt
  <2>5. \A l \in Places' : wire'[l] = wire[l] /\ (Awaited(wire[l])' <=> Awaited(wire[l]))
    BY <1>1 DEF Awaited, Fresh
  <2>6. SilentPlaces' \subseteq SilentPlaces
    BY <2>4, <2>5 DEF SilentPlaces
  <2>7. {wire'[l] : l \in SilentPlaces'} \subseteq {wire[l] : l \in SilentPlaces}
    BY <1>1, <2>6
  <2>8. QED
    BY <1>3, <2>3, <2>7 DEF SilentStarts
<1>4. CASE UNCHANGED <<registryVars, telling>> /\ a.status # "started"
  <2>1. \A s : ToBeTold(s) => ToBeTold(s)'
    BY <1>1, <1>4 DEF ToBeTold, Places, EventAt, registryVars
  <2>2. QED
    BY <1>1, <1>4, <2>1, SilentKept
<1>5. QED
  BY <1>1, <1>2, <1>3, <1>4

LEMMA SilentAnswer ==
    Basics /\ Answer => SilentStarts' \subseteq SilentStarts
<1> SUFFICES ASSUME Basics, Answer PROVE SilentStarts' \subseteq SilentStarts
  OBVIOUS
<1>0. TypeOK /\ UNCHANGED <<current, telling, emitting, mount, version>>
  BY DEF Basics, Answer, backendVars, registryVars, pageVars
<1>1. PICK a \in served :
          /\ a.status \in {"started", "accepted"} => a.snapshot \notin telling \cup emitting
          /\ served' = served \ {a} /\ wire' = Append(wire, a)
  BY DEF Answer
<1>2. a.status # "event"
  BY DEF Basics, EventOrder, EventsAreOrdered
<1>3. /\ Len(wire) + 1 \notin Places /\ wire'[Len(wire) + 1] = a
      /\ Len(wire) + 1 \in Places'
      /\ \A k \in Places : k \in Places' /\ k < Len(wire) + 1 /\ wire'[k] = wire[k]
      /\ \A k \in Places' : k \in Places \/ k = Len(wire) + 1
  BY <1>0, <1>1, AppendedAt
<1>4. \A b : (Awaited(b)' <=> Awaited(b)) /\ (ToBeTold(b.snapshot) => ToBeTold(b.snapshot)')
  BY <1>0, <1>3 DEF Awaited, Fresh, ToBeTold, EventAt
<1>5. SilentServed' \subseteq SilentServed
  BY <1>1, <1>4 DEF SilentServed
<1>6. ASSUME NEW l \in SilentPlaces' PROVE wire'[l] \in SilentStarts
  <2>1. l \in Places' /\ Awaited(wire[l])' /\ ~ToldBefore(l)'
    BY <1>6 DEF SilentPlaces
  <2>2. CASE l \in Places
    <3>1. wire'[l] = wire[l] /\ Awaited(wire[l])
      BY <1>0, <1>3, <2>1, <2>2 DEF Awaited, Fresh
    <3>2. ~ToldBefore(l)
      BY <1>3, <2>1, <2>2, <3>1 DEF ToldBefore, EventAt
    <3>3. QED
      BY <2>2, <3>1, <3>2 DEF SilentStarts, SilentPlaces
  <2>3. CASE l = Len(wire) + 1
    <3>1. wire'[l] = a /\ a.status = "started" /\ Awaited(a)
      BY <1>0, <1>3, <2>1, <2>3 DEF Awaited, Fresh
    <3>2. ~ToBeTold(a.snapshot)
      <4>1. a.snapshot \notin telling \cup emitting
        BY <1>1, <3>1
      <4>2. \A k \in Places : EventAt(k) => wire[k].snapshot # a.snapshot
        BY <1>3, <2>1, <2>3, <3>1 DEF ToldBefore, EventAt
      <4>3. QED
        BY <4>1, <4>2 DEF ToBeTold
    <3>3. QED
      BY <3>1, <3>2 DEF SilentStarts, SilentServed
  <2>4. QED
    BY <1>3, <2>1, <2>2, <2>3
<1>7. QED
  BY <1>5, <1>6 DEF SilentStarts

(* An awaited Start is one that the page knows it has made.                *)
LEMMA AwaitedIsMine ==
    ASSUME Knowledge, OneCallEach, NEW a \in InFlight, a.status = "started",
           a.call.mount = mount
    PROVE  accepting /\ Mine(a.call, Starting)
<1>1. Mine(a.call, Starting)
  BY DEF Knowledge, WellAnswered, Mine, Starting
<1>2. ~None(Starting)
  BY <1>1 DEF InFlight, None
<1>3. accepting
  BY <1>2 DEF OneCallEach
<1>4. QED
  BY <1>1, <1>3

LEMMA SilentPage ==
    ASSUME Basics, Knowledge, OneCallEach, wire # <<>>, PageStep(Head(wire))
    PROVE  /\ SilentStarts' \subseteq SilentStarts
           /\ version' # version => SilentStarts' = {}
<1> DEFINE m == Head(wire)
<1>1. TypeOK /\ wire' = Tail(wire)
      /\ UNCHANGED <<current, telling, emitting, served, mount>>
  BY DEF Basics, PageStep, ReceiveEvent, ReceiveForOld, ReceiveState, ReceiveStart,
     ReceiveCancel, ReceiveRefresh, ReceiveAnswer, Receive, backendVars, registryVars
<1>2. /\ 1 \in Places /\ m = wire[1]
      /\ \A k \in Places' : k + 1 \in Places /\ 1 < k + 1 /\ wire'[k] = wire[k + 1]
      /\ \A k, l \in Places' : k + 1 < l + 1 => k < l
      /\ \A k \in Places : k = 1 \/ \E l \in Places' : k = l + 1
  BY <1>1, TakenAt, NextMessage
<1>3. InFlight' \subseteq InFlight
  BY <1>1, AnswersTaken
<1>4. version' \in {version, version + 1} /\ version \in Nat
  BY DEF Basics, TypeOK, PageStep, ReceiveEvent, ReceiveForOld, ReceiveState, ReceiveStart,
     ReceiveCancel, ReceiveRefresh, ReceiveAnswer
<1>5. SilentStarts' \subseteq InFlight'
  BY DEF SilentStarts, SilentServed, SilentPlaces, InFlight
<1>6. \A a \in InFlight : a.call.version \in Nat
                          /\ (a.call.mount = mount => a.call.version <= version)
  BY <1>1, AnswersAreTyped
  DEF Basics, AnswerOrder, CallsAreOfThePast, CallsUnderWay, Answers, Calls
<1>7. CASE version' = version + 1
  <2>1. \A a \in InFlight' : ~Awaited(a)'
    BY <1>1, <1>3, <1>4, <1>6, <1>7 DEF Awaited, Fresh
  <2>2. SilentStarts' = {}
    BY <1>5, <2>1 DEF SilentStarts, SilentServed, SilentPlaces
  <2>3. QED
    BY <2>2
<1>8. CASE version' = version
  <2>1. \A a : Awaited(a)' <=> Awaited(a)
    BY <1>1, <1>8 DEF Awaited, Fresh
  <2>2. ASSUME NEW a \in InFlight, Awaited(a) PROVE m.status # "event"
    <3>1. accepting
      BY <2>2, AwaitedIsMine DEF Awaited
    <3>2. ~ReceiveEvent(m)
      <4>1. Concerns(m)
        BY <3>1, Zenon DEF Concerns
      <4>2. ReceiveEvent(m) => version' = version + 1
        BY <4>1, Zenon DEF ReceiveEvent
      <4>3. QED
        BY <1>4, <1>8, <4>2
    <3>3. QED
      BY <3>2 DEF PageStep, ReceiveForOld, ReceiveState, ReceiveStart, ReceiveCancel,
         ReceiveRefresh, ReceiveAnswer
  <2>3. ASSUME NEW s, ToBeTold(s), m.status # "event" PROVE ToBeTold(s)'
    <3>1. CASE s \in emitting \/ (s = current /\ s \in telling)
      BY <1>1, <3>1 DEF ToBeTold
    <3>2. CASE \E k \in Places : EventAt(k) /\ wire[k].snapshot = s
      <4>1. PICK k \in Places : wire[k].status = "event" /\ wire[k].snapshot = s
        BY <3>2 DEF EventAt
      <4>2. PICK l \in Places' : k = l + 1
        BY <1>2, <2>3, <4>1
      <4>3. wire'[l] = wire[k]
        BY <1>2, <4>2
      <4>4. QED
        BY <4>1, <4>3 DEF ToBeTold, EventAt
    <3>3. \/ s \in emitting \/ (s = current /\ s \in telling)
          \/ \E k \in Places : EventAt(k) /\ wire[k].snapshot = s
      BY <2>3, Zenon DEF ToBeTold
    <3>4. QED
      BY <3>1, <3>2, <3>3, Zenon
  <2>4. SilentServed' \subseteq SilentServed
    BY <1>1, <2>1, <2>2, <2>3 DEF SilentServed, InFlight
  <2>5. ASSUME NEW l \in SilentPlaces' PROVE wire'[l] \in SilentStarts
    <3>1. l \in Places' /\ Awaited(wire[l])' /\ ~ToldBefore(l)'
      BY <2>5 DEF SilentPlaces
    <3>2. l + 1 \in Places /\ wire'[l] = wire[l + 1] /\ Awaited(wire[l + 1])
      BY <1>1, <1>2, <1>8, <3>1 DEF Awaited, Fresh
    <3>3. m.status # "event"
      BY <2>2, <3>2 DEF InFlight
    <3>4. ASSUME ToldBefore(l + 1) PROVE FALSE
      <4>1. PICK k \in Places : /\ k < l + 1 /\ EventAt(k)
                                /\ wire[k].snapshot = wire[l + 1].snapshot
        BY <3>4 DEF ToldBefore
      <4>2. PICK j \in Places' : k = j + 1
        BY <1>2, <3>3, <4>1 DEF EventAt
      <4>3. j < l /\ wire'[j] = wire[k] /\ wire'[l] = wire[l + 1]
        BY <1>2, <3>1, <4>1, <4>2
      <4>4. QED
        BY <3>1, <4>1, <4>3 DEF ToldBefore, EventAt
    <3>5. QED
      BY <3>2, <3>4 DEF SilentStarts, SilentPlaces
  <2>6. QED
    BY <1>8, <2>4, <2>5 DEF SilentStarts
<1>9. QED
  BY <1>4, <1>7, <1>8

(* A cancellation of an operation whose Start the page still waits for     *)
(* comes from the same page, after the event that the Start has seen last. *)
LEMMA WhoCancels ==
    ASSUME Basics, Knowledge, NEW call \in sent, call.kind = "cancel",
           NEW a \in InFlight, a.status = "started", a.snapshot.id = call.id,
           a.call.mount = mount
    PROVE  /\ Mine(call, Cancelling)
           /\ a.call.version <= call.version /\ call.version <= version
<1>1. CalledSince(call, a.call)
  BY DEF Knowledge
<1>2. call.mount <= mount /\ (call.mount = mount => call.version <= version)
  BY DEF Basics, AnswerOrder, CallsAreOfThePast, CallsUnderWay
<1>3. call.mount \in Int /\ mount \in Int
  BY DEF Basics, TypeOK, Calls
<1>4. call.mount = mount
  BY <1>1, <1>2, <1>3 DEF CalledSince
<1>5. a.call.version <= call.version
  BY <1>1, <1>3, <1>4 DEF CalledSince
<1>6. QED
  BY <1>2, <1>4, <1>5 DEF Mine, Cancelling

LEMMA SilentAreAwaited ==
    \A a \in SilentStarts : a \in InFlight /\ Awaited(a)
BY DEF SilentStarts, SilentServed, SilentPlaces, InFlight

LEMMA StartsAreToldBackend ==
    ASSUME Basics, Knowledge, OneCallEach, Announcements, StartsAreTold, BackendStep
    PROVE  StartsAreTold'
<1>0. TypeOK /\ CounterAgrees
  BY DEF Basics
<1>1. UNCHANGED <<mount, screen, version>>
  BY BackendKeepsPage
<1>2. None(Fetching) => None(Fetching)'
  BY <1>0, BackendKeepsLanes
<1>3. SilentStarts' # {} => screen # NoSnapshot
  <2>1. CASE RunStep \/ NotifyStep \/ Answer
    BY <2>1, SilentRun, SilentNotify, SilentAnswer DEF StartsAreTold
  <2>2. CASE UNCHANGED vars
    <3>1. SilentStarts' = SilentStarts
      BY <2>2 DEF vars, backendVars, registryVars, pageVars, SilentStarts, SilentServed,
         SilentPlaces, Places, Awaited, Fresh, ToBeTold, ToldBefore, EventAt
    <3>2. QED
      BY <3>1 DEF StartsAreTold
  <2>3. CASE \E call \in sent : CallStep(call)
    <3>1. PICK call \in sent : CallStep(call)
      BY <2>3
    <3>2. CASE SilentStarts' \subseteq SilentStarts
      BY <3>2 DEF StartsAreTold
    <3>3. ASSUME CancelLaunch(call), NEW a \in SilentStarts', a \in served,
                 a.status = "started", a.snapshot = current
          PROVE  screen # NoSnapshot
      <4>1. a.call.mount = mount
        BY <1>1, <3>3 DEF SilentStarts, SilentServed, SilentPlaces, Awaited
      <4>2. call.kind = "cancel" /\ call.id = current.id
        BY <3>3 DEF CancelLaunch, RegistryCancel, CanCancel
      <4>3. Mine(call, Cancelling)
        BY <3>3, <4>1, <4>2, WhoCancels DEF InFlight
      <4>4. QED
        BY <4>3 DEF OneCallEach, None
    <3>4. QED
      BY <1>0, <3>1, <3>2, <3>3, SilentCall DEF StartsAreTold
  <2>4. QED
    BY <2>1, <2>2, <2>3 DEF BackendStep
<1>4. QED
  BY <1>1, <1>2, <1>3 DEF StartsAreTold

LEMMA StartsAreToldUser ==
    Basics /\ Knowledge /\ OneCallEach /\ StartsAreTold /\ User => StartsAreTold'
<1> SUFFICES ASSUME Basics, Knowledge, OneCallEach, StartsAreTold, User
             PROVE  StartsAreTold'
  OBVIOUS
<1>1. CASE Submit \/ Cancel
  <2>0. \A id : Call("start", id).kind = "start" /\ Call("cancel", id).kind = "cancel"
    BY DEF Call
  <2>1. /\ UNCHANGED <<mount, screen, version, served, wire, current, telling, emitting>>
        /\ \E c : sent' = sent \cup {c} /\ c.kind # "fetch"
    BY <1>1, <2>0 DEF Submit, Cancel, backendVars, registryVars
  <2>2. SilentStarts' = SilentStarts
    BY <2>1 DEF SilentStarts, SilentServed, SilentPlaces, Places, Awaited, Fresh, ToBeTold,
       ToldBefore, EventAt
  <2>3. None(Fetching) => None(Fetching)'
    BY <2>1, LaneAdded DEF Mine, Fetching
  <2>4. QED
    BY <2>1, <2>2, <2>3 DEF StartsAreTold
<1>2. CASE Remount
  <2>1. screen' = NoSnapshot /\ mount' = mount + 1 /\ InFlight' = InFlight
    BY <1>2 DEF Remount, InFlight, Places
  <2>2. \A a \in InFlight : a.call.mount # mount + 1
    <3>1. \A a \in InFlight : a.call.mount \in Int /\ a.call.mount <= mount
      BY AnswersAreTyped
      DEF Basics, AnswerOrder, CallsAreOfThePast, CallsUnderWay, Answers, Calls
    <3>2. mount \in Int
      BY DEF Basics, TypeOK
    <3>3. QED
      BY <3>1, <3>2
  <2>3. SilentStarts' = {}
    BY <2>1, <2>2 DEF SilentStarts, SilentServed, SilentPlaces, InFlight, Awaited
  <2>4. QED
    BY <2>1, <2>3 DEF StartsAreTold
<1>3. QED
  BY <1>1, <1>2 DEF User

(* A page that shows nothing takes an answer.                              *)
LEMMA FirstShown ==
    ASSUME Basics, Knowledge, OneCallEach, StartsAreTold,
           wire # <<>>, PageStep(Head(wire)), screen = NoSnapshot,
           screen' # NoSnapshot, version' = version
    PROVE  ReceiveState(Head(wire)) /\ None(Fetching)'
<1> DEFINE m == Head(wire)
<1>1. TypeOK /\ wire' = Tail(wire) /\ UNCHANGED <<served, mount>>
  BY DEF Basics, PageStep, ReceiveEvent, ReceiveForOld, ReceiveState, ReceiveStart,
     ReceiveCancel, ReceiveRefresh, ReceiveAnswer, Receive
<1>2. 1 \in Places /\ m = wire[1] /\ m \in InFlight
  BY <1>1, NextMessage, AnswersTaken
<1>3. ~ReceiveForOld(m)
  BY DEF ReceiveForOld
<1>4. ~ReceiveEvent(m)
  <2>1. version # version + 1
    BY <1>1 DEF TypeOK
  <2>2. QED
    BY <2>1 DEF ReceiveEvent
<1>5. ~ReceiveStart(m)
  <2> SUFFICES ASSUME ReceiveStart(m) PROVE FALSE
    OBVIOUS
  <2>1. m.call.kind = "start" /\ m.call.mount = mount /\ Fresh(m)
    BY DEF ReceiveStart, ReceiveAnswer, Show
  <2>2. m.status = "started"
    BY <1>2, <2>1 DEF Knowledge, WellAnswered, Fresh
  <2>3. ~ToldBefore(1)
    BY DEF ToldBefore, Places
  <2>4. m \in SilentStarts
    BY <1>2, <2>1, <2>2, <2>3 DEF SilentStarts, SilentPlaces, Awaited
  <2>5. QED
    BY <2>4 DEF StartsAreTold
<1>6. ~ReceiveCancel(m) /\ ~ReceiveRefresh(m)
  BY <1>2 DEF ReceiveCancel, ReceiveRefresh, ReceiveAnswer, OneCallEach, None, Mine,
     Cancelling
<1>7. ReceiveState(m)
  BY <1>3, <1>4, <1>5, <1>6 DEF PageStep
<1>8. Mine(m.call, Fetching) /\ sent' = sent \cup {}
  BY <1>7 DEF ReceiveState, ReceiveAnswer, Mine, Fetching
<1>9. QED
  BY <1>1, <1>7, <1>8, LaneTaken DEF OneCallEach

LEMMA StartsAreToldPage ==
    ASSUME Basics, Knowledge, OneCallEach, StartsAreTold,
           wire # <<>>, PageStep(Head(wire))
    PROVE  StartsAreTold'
<1> DEFINE m == Head(wire)
<1>1. SilentStarts' # {} => screen' # NoSnapshot
  BY SilentPage, ShowsSomething DEF StartsAreTold
<1>2. ASSUME version' = 0, screen' # NoSnapshot PROVE None(Fetching)'
  <2>1. version' = version
    BY <1>2 DEF Basics, TypeOK, PageStep, ReceiveEvent, ReceiveForOld, ReceiveState,
       ReceiveStart, ReceiveCancel, ReceiveRefresh, ReceiveAnswer
  <2>2. CASE screen = NoSnapshot
    BY <1>2, <2>1, <2>2, FirstShown
  <2>3. CASE screen # NoSnapshot
    <3>1. None(Fetching)
      BY <1>2, <2>1, <2>3 DEF StartsAreTold
    <3>2. TypeOK /\ wire' = Tail(wire) /\ UNCHANGED <<served, mount>>
      BY DEF Basics, PageStep, ReceiveEvent, ReceiveForOld, ReceiveState, ReceiveStart,
         ReceiveCancel, ReceiveRefresh, ReceiveAnswer, Receive
    <3>3. PICK new : sent' = sent \cup new /\ \A c \in new : c.kind # "fetch"
      <4>1. CASE sent' = sent
        <5>1. sent' = sent \cup {}
          BY <4>1
        <5>2. QED
          BY <5>1
      <4>2. CASE sent' = sent \cup {Call("refresh", screen'.id)}
        <5> DEFINE added == {Call("refresh", screen'.id)}
        <5>1. \A c \in added : c.kind # "fetch"
          BY DEF Call
        <5>2. sent' = sent \cup added
          BY <4>2
        <5> HIDE DEF added
        <5>3. QED
          BY <5>1, <5>2
      <4>3. QED
        BY <4>1, <4>2 DEF PageStep, ReceiveEvent, ReceiveForOld, ReceiveState,
           ReceiveStart, ReceiveCancel, ReceiveRefresh
    <3>4. QED
      BY <3>1, <3>2, <3>3, LaneTaken DEF Mine, Fetching
  <2>4. QED
    BY <2>2, <2>3
<1>3. QED
  BY <1>1, <1>2 DEF StartsAreTold

LEMMA StartsAreToldStep ==
    /\ Basics /\ Knowledge /\ OneCallEach /\ Announcements
    /\ StartsAreTold /\ [Next]_vars
    => StartsAreTold'
BY StepCases, StartsAreToldBackend, StartsAreToldUser, StartsAreToldPage DEF BackendStep

-----------------------------------------------------------------------------
(***************************************************************************)
(* The page and the latest operation.  Unless the answer to its Start is   *)
(* lost on the page, the page waits for that answer or shows nothing or    *)
(* the operation; and once it shows the operation, or waits no more, no    *)
(* event and no fresh answer of an older one is on its way                 *)
(* (App.tsx:79-103,117-186).                                               *)
(***************************************************************************)
StartIsLost ==
    \/ current.id \in orphans
    \/ \E a \in InFlight : StartedLatest(a) /\ a.call.mount # mount

StartIsAwaited == \E a \in InFlight : StartedLatest(a) /\ a.call.mount = mount

OnlyLatestAwaited ==
    \A a \in InFlight : a.status = "started" /\ a.call.mount = mount => StartedLatest(a)

SilentIsShown == SilentStarts # {} => screen.id = current.id

CancelledIsShown ==
    \A c \in CallsUnderWay :
        /\ c.kind = "cancel" /\ c.id = current.id
        /\ c.mount = mount /\ c.version = version
        => screen.id = current.id

FreshAreLatest ==
    ~StartIsAwaited \/ screen.id = current.id =>
        \A a \in InFlight : a.call.mount = mount /\ Fresh(a) => a.snapshot.id = current.id

ScreenIsLatest == StartIsAwaited \/ screen = NoSnapshot \/ screen.id = current.id

EventsAreLatest ==
    ~StartIsAwaited =>
        /\ \A s \in emitting : s.id = current.id
        /\ \A a \in InFlight : a.status = "event" => a.snapshot.id = current.id

FollowsLatest ==
    /\ OnlyLatestAwaited /\ SilentIsShown /\ CancelledIsShown
    /\ FreshAreLatest /\ ScreenIsLatest /\ EventsAreLatest

Attached == current # NoSnapshot /\ ~StartIsLost => FollowsLatest

Premises ==
    /\ Basics /\ Basics' /\ Knowledge /\ Knowledge' /\ OneCallEach /\ Announcements
    /\ StartsAreTold

LEMMA AttachedInit == Init => Attached
BY DEF Init, NewRegistry, Attached

LEMMA NoSnapshotIsZero == \A s \in AnySnapshot : s = NoSnapshot <=> s.id = 0
BY DEF AnySnapshot, Snapshots, NoSnapshot

(* Steps of the application that begin no operation.                       *)
LEMMA AttachedKept ==
    ASSUME Premises, Attached, current'.id = current.id,
           UNCHANGED <<mount, screen, version, orphans>>, sent' \subseteq sent,
           InFlight \subseteq InFlight',
           \A a \in InFlight' : a \in InFlight \/
               /\ a.status # "started"
               /\ a.call \in sent \/ a.call = NoCall
               /\ a.call.mount = mount /\ Fresh(a) => a.snapshot.id = current.id
               /\ a.status = "event" => a.snapshot \in emitting,
           \A s \in emitting' : s \in emitting \/ s.id = current.id,
           SilentStarts' # {} /\ FollowsLatest =>
               SilentStarts # {} \/ screen.id = current.id
    PROVE  Attached'
<1> SUFFICES ASSUME current' # NoSnapshot, ~StartIsLost' PROVE FollowsLatest'
  BY DEF Attached
<1>1. current # NoSnapshot
  <2>1. current \in AnySnapshot /\ current' \in AnySnapshot
    BY DEF Premises, Basics, TypeOK, RegistryTypeOK, AnySnapshot
  <2>2. QED
    BY <2>1, NoSnapshotIsZero
<1>2. \A a : (StartedLatest(a)' <=> StartedLatest(a)) /\ (Fresh(a)' <=> Fresh(a))
  BY DEF StartedLatest, Fresh
<1>3. \A a \in InFlight' : a.status = "started" => a \in InFlight
  OBVIOUS
<1>4. (StartIsLost' <=> StartIsLost) /\ (StartIsAwaited' <=> StartIsAwaited)
  BY <1>2, <1>3 DEF StartIsLost, StartIsAwaited, StartedLatest
<1>5. FollowsLatest
  BY <1>1, <1>4 DEF Attached
<1>6. OnlyLatestAwaited' /\ SilentIsShown' /\ ScreenIsLatest'
  BY <1>2, <1>3, <1>4, <1>5
  DEF FollowsLatest, OnlyLatestAwaited, SilentIsShown, ScreenIsLatest
<1>7. CancelledIsShown'
  <2>1. \A c \in CallsUnderWay' : c \in CallsUnderWay \/ c = NoCall
    BY DEF CallsUnderWay
  <2>2. NoCall.kind # "cancel"
    BY DEF NoCall
  <2>3. QED
    BY <1>5, <2>1, <2>2 DEF FollowsLatest, CancelledIsShown
<1>8. FreshAreLatest'
  BY <1>2, <1>4, <1>5 DEF FollowsLatest, FreshAreLatest
<1>9. EventsAreLatest'
  BY <1>4, <1>5 DEF FollowsLatest, EventsAreLatest
<1>10. QED
  BY <1>6, <1>7, <1>8, <1>9 DEF FollowsLatest

(* A new operation: the page that asked for it waits for the answer.       *)
LEMMA AttachedStart ==
    ASSUME Premises, Attached, NEW call \in sent, CallStep(call), StartLaunch(call)
    PROVE  Attached'
<1> SUFFICES ASSUME ~StartIsLost' PROVE FollowsLatest'
  BY DEF Attached
<1>0. TypeOK /\ CounterAgrees /\ CounterAgrees' /\ sequence \in Nat
  BY DEF Premises, Basics, TypeOK, RegistryTypeOK
<1>1. PICK a :
          /\ a.call = call /\ a.status = "started" /\ a.snapshot = current'
          /\ sequence' = sequence + 1
          /\ InFlight' = InFlight \cup {a} /\ sent' \subseteq sent
          /\ UNCHANGED <<mount, screen, version, emitting, wire>>
  <2>1. call.kind = "start" /\ sequence' = sequence + 1
    BY DEF StartLaunch, RegistryStart
  <2>2. ~CancelLaunch(call) /\ sequence' # sequence
    BY <1>0, <2>1 DEF CancelLaunch
  <2>3. QED
    BY <1>0, <2>1, <2>2, CallAddsItsAnswer DEF pageVars, registryVars
<1>2. current'.id = sequence + 1
  BY <1>0, <1>1 DEF CounterAgrees
<1>3. StartedLatest(a)' /\ a \in InFlight'
  BY <1>1 DEF StartedLatest
<1>4. a.call.mount = mount /\ StartIsAwaited'
  BY <1>1, <1>3 DEF StartIsLost, StartIsAwaited
<1>5. Mine(call, Starting)
  BY <1>1, <1>4 DEF StartLaunch, Mine, Starting
<1>6. \A b \in InFlight : ~(b.status = "started" /\ b.call.mount = mount)
  <2> SUFFICES ASSUME NEW b \in InFlight, b.status = "started", b.call.mount = mount
               PROVE  FALSE
    OBVIOUS
  <2>1. Mine(b.call, Starting)
    BY AwaitedIsMine DEF Premises
  <2>2. QED
    BY <1>5, <2>1 DEF Premises, OneCallEach, AtMostOne, InFlight
<1>7. OnlyLatestAwaited'
  BY <1>1, <1>3, <1>6 DEF OnlyLatestAwaited
<1>8. SilentIsShown'
  <2>1. SilentStarts' \subseteq SilentStarts
    BY <1>0, SilentCall DEF Premises, StartLaunch, CancelLaunch
  <2>2. SilentStarts = {}
    BY <1>6, SilentAreAwaited DEF Awaited
  <2>3. QED
    BY <2>1, <2>2 DEF SilentIsShown
<1>9. CancelledIsShown'
  <2>1. \A c \in CallsUnderWay' : c \in CallsUnderWay
    BY <1>1 DEF CallsUnderWay
  <2>2. \A c \in CallsUnderWay' : c.id \in Nat /\ c.id <= sequence
    BY <1>0, <2>1, CallsAreTyped DEF Calls, Premises, Knowledge
  <2>3. QED
    BY <1>0, <1>2, <2>2 DEF CancelledIsShown
<1>10. FreshAreLatest'
  <2>1. screen.id <= sequence /\ screen.id \in Nat
    BY <1>0, SnapshotIds DEF Premises, Knowledge, TypeOK, AnySnapshot
  <2>2. screen'.id # current'.id
    BY <1>0, <1>1, <1>2, <2>1
  <2>3. QED
    BY <1>4, <2>2 DEF FreshAreLatest
<1>11. ScreenIsLatest' /\ EventsAreLatest'
  BY <1>4 DEF ScreenIsLatest, EventsAreLatest
<1>12. QED
  BY <1>7, <1>8, <1>9, <1>10, <1>11 DEF FollowsLatest

LEMMA AttachedBackend ==
    ASSUME Premises, Attached, BackendStep PROVE Attached'
<1>0. TypeOK /\ CounterAgrees /\ CounterAgrees' /\ Knowledge /\ Announcements
  BY DEF Premises, Basics
<1>1. UNCHANGED <<mount, screen, version, orphans>>
  BY BackendKeepsPage
<1>2. CASE RunStep
  <2>1. sequence' = sequence
    BY <1>2 DEF RunStep, RunTransition, RunFinish, RegistryTransition, RegistryFinish
  <2>2. current'.id = current.id
    BY <1>0, <2>1 DEF CounterAgrees
  <2>3. SilentStarts' # {} => SilentStarts # {}
    BY <1>0, <1>2, SilentRun
  <2>4. QED
    BY <1>1, <1>2, <2>2, <2>3, RunAddsNothing, AttachedKept
<1>3. CASE NotifyStep
  <2>1. \A s : /\ Event(s).status = "event" /\ Event(s).snapshot = s
               /\ Event(s).call = NoCall /\ NoCall.mount = 0
    BY DEF Event, AnswerTo, NoCall
  <2>2. mount # 0
    BY <1>0 DEF TypeOK
  <2>3. \A s \in emitting' : s \in emitting \/ s = current
    BY <1>3 DEF NotifyStep, NotifyCurrent, NotifyStale, Emit
  <2>4. SilentStarts' # {} => SilentStarts # {}
    BY <1>0, <1>3, SilentNotify DEF Premises
  <2>5. current' = current
    BY <1>0, <1>3, NotifyAddsEvents DEF registryVars
  <2>6. QED
    BY <1>0, <1>1, <1>3, <2>1, <2>2, <2>3, <2>4, <2>5, NotifyAddsEvents, AttachedKept
<1>4. CASE Answer
  <2>1. SilentStarts' # {} => SilentStarts # {}
    BY <1>4, SilentAnswer DEF Premises
  <2>2. QED
    BY <1>0, <1>1, <1>4, <2>1, AnswerAddsNothing, AttachedKept
    DEF backendVars, registryVars
<1>5. CASE UNCHANGED vars
  <2>1. SilentStarts' = SilentStarts /\ InFlight' = InFlight
    BY <1>5 DEF vars, backendVars, registryVars, pageVars, SilentStarts, SilentServed,
       SilentPlaces, Places, Awaited, Fresh, ToBeTold, ToldBefore, EventAt, InFlight
  <2>2. UNCHANGED <<current, sent, emitting>>
    BY <1>5 DEF vars, backendVars, registryVars
  <2>3. QED
    BY <1>1, <2>1, <2>2, AttachedKept
<1>6. CASE \E call \in sent : CallStep(call)
  <2>1. PICK call \in sent : CallStep(call)
    BY <1>6
  <2>2. CASE StartLaunch(call)
    BY <2>1, <2>2, AttachedStart
  <2>3. CASE ~StartLaunch(call)
    <3>1. PICK a :
              /\ a.call = call /\ a.status \notin {"started", "event"}
              /\ a.snapshot \in {current', NoSnapshot}
              /\ sequence' = sequence
              /\ InFlight' = InFlight \cup {a} /\ sent' \subseteq sent /\ emitting' = emitting
      <4>1. PICK a \in Answers :
                /\ a.call = call /\ a.status # "event"
                /\ sent' = sent \ {call} /\ InFlight' = InFlight \cup {a}
                /\ \/ CancelLaunch(call) /\ a.status # "started" /\ a.snapshot = current'
                      /\ sequence' = sequence
                   \/ UNCHANGED <<registryVars, telling>> /\ a.status # "started"
                      /\ a.snapshot \in {current, NoSnapshot}
                /\ UNCHANGED emitting
        BY <1>0, <2>1, <2>3, CallAddsItsAnswer
      <4>2. a.snapshot \in {current', NoSnapshot} /\ sequence' = sequence
        BY <4>1 DEF registryVars
      <4>3. QED
        BY <4>1, <4>2
    <3>2. current'.id = current.id
      BY <1>0, <3>1 DEF CounterAgrees
    <3>3. Fresh(a) => a.snapshot.id = current.id
      BY <3>1, <3>2 DEF Fresh
    <3>4. ASSUME SilentStarts' # {}, FollowsLatest
          PROVE  SilentStarts # {} \/ screen.id = current.id
      <4>1. CASE SilentStarts' \subseteq SilentStarts
        BY <3>4, <4>1
      <4>2. ASSUME CancelLaunch(call), NEW b \in SilentStarts', b \in served,
                   b.status = "started", b.snapshot = current
            PROVE  screen.id = current.id
        <5>1. b.call.mount = mount /\ version = b.call.version
          BY <1>1, <4>2 DEF SilentStarts, SilentServed, SilentPlaces, Awaited, Fresh
        <5>2. call.kind = "cancel" /\ call.id = current.id
          BY <4>2 DEF CancelLaunch, RegistryCancel, CanCancel
        <5>3. /\ call.mount = mount
              /\ b.call.version <= call.version /\ call.version <= version
          BY <4>2, <5>1, <5>2, WhoCancels DEF InFlight, Mine, Premises
        <5>4. call.version = version
          BY <1>0, <5>1, <5>3 DEF TypeOK, Calls
        <5>5. QED
          BY <3>4, <5>2, <5>3, <5>4 DEF FollowsLatest, CancelledIsShown, CallsUnderWay
      <4>3. QED
        BY <1>0, <2>1, <3>4, <4>1, <4>2, SilentCall
    <3>5. QED
      BY <1>1, <3>1, <3>2, <3>3, <3>4, AttachedKept
  <2>4. QED
    BY <2>2, <2>3
<1>7. QED
  BY <1>2, <1>3, <1>4, <1>5, <1>6 DEF BackendStep

LEMMA AttachedUser == Premises /\ Attached /\ User => Attached'
<1> SUFFICES ASSUME Premises, Attached, User, current' # NoSnapshot, ~StartIsLost'
             PROVE  FollowsLatest'
  BY DEF Attached
<1>0. TypeOK /\ mount \in Int
  BY DEF Premises, Basics, TypeOK
<1>1. /\ UNCHANGED <<current, telling, emitting, served, wire, orphans>>
      /\ InFlight' = InFlight
  BY DEF User, Submit, Cancel, Remount, backendVars, registryVars, InFlight, Places
<1>2. \A a : StartedLatest(a)' <=> StartedLatest(a)
  BY <1>1 DEF StartedLatest
<1>3. CASE Submit \/ Cancel
  <2>1. UNCHANGED <<mount, screen, version>>
    BY <1>3 DEF Submit, Cancel
  <2>2. \A a : Fresh(a)' <=> Fresh(a)
    BY <2>1 DEF Fresh
  <2>3. (StartIsLost' <=> StartIsLost) /\ (StartIsAwaited' <=> StartIsAwaited)
    BY <1>1, <1>2, <2>1 DEF StartIsLost, StartIsAwaited
  <2>4. FollowsLatest
    BY <1>1, <2>3 DEF Attached
  <2>5. SilentStarts' = SilentStarts
    BY <1>1, <2>1 DEF SilentStarts, SilentServed, SilentPlaces, Places, Awaited, Fresh,
       ToBeTold, ToldBefore, EventAt
  <2>6. CancelledIsShown'
    <3>1. \A c \in sent' : c \in sent \/ c.kind # "cancel" \/ c.id = screen.id
      BY <1>3 DEF Submit, Cancel, Call
    <3>2. \A c \in CallsUnderWay' :
              c \in CallsUnderWay \/ c.kind # "cancel" \/ c.id = screen.id
      BY <1>1, <3>1 DEF CallsUnderWay
    <3>3. QED
      BY <1>1, <2>1, <2>4, <3>2 DEF FollowsLatest, CancelledIsShown
  <2>7. OnlyLatestAwaited' /\ SilentIsShown' /\ ScreenIsLatest'
    BY <1>1, <1>2, <2>1, <2>3, <2>4, <2>5
    DEF FollowsLatest, OnlyLatestAwaited, SilentIsShown, ScreenIsLatest
  <2>8. FreshAreLatest' /\ EventsAreLatest'
    BY <1>1, <2>1, <2>2, <2>3, <2>4 DEF FollowsLatest, FreshAreLatest, EventsAreLatest
  <2>9. QED
    BY <2>6, <2>7, <2>8 DEF FollowsLatest
<1>4. CASE Remount
  <2>1. screen' = NoSnapshot /\ mount' = mount + 1 /\ sent' = sent \cup {FirstCall(mount + 1)}
    BY <1>4 DEF Remount
  <2>2. \A c \in CallsUnderWay : c.mount # mount + 1
    <3>1. \A c \in CallsUnderWay : c.mount \in Int /\ c.mount <= mount
      BY <1>0, CallsAreTyped DEF Premises, Basics, AnswerOrder, CallsAreOfThePast, Calls
    <3>2. QED
      BY <1>0, <3>1
  <2>3. \A a \in InFlight : a.call.mount # mount'
    BY <2>1, <2>2 DEF CallsUnderWay
  <2>4. \A a \in InFlight : ~StartedLatest(a)
    BY <1>1, <1>2, <2>3 DEF StartIsLost
  <2>5. ~StartIsLost /\ ~StartIsAwaited
    BY <1>1, <2>4 DEF StartIsLost, StartIsAwaited
  <2>6. FollowsLatest
    BY <1>1, <2>5 DEF Attached
  <2>7. SilentStarts' = {}
    BY <1>1, <2>3 DEF SilentStarts, SilentServed, SilentPlaces, InFlight, Awaited
  <2>8. CancelledIsShown'
    <3>1. FirstCall(mount + 1).kind # "cancel"
      BY DEF FirstCall
    <3>2. \A c \in CallsUnderWay' : c.mount = mount' => c.kind # "cancel"
      BY <1>1, <2>1, <2>2, <3>1 DEF CallsUnderWay
    <3>3. QED
      BY <3>2 DEF CancelledIsShown
  <2>9. OnlyLatestAwaited' /\ FreshAreLatest'
    BY <1>1, <2>3 DEF OnlyLatestAwaited, FreshAreLatest
  <2>10. SilentIsShown' /\ ScreenIsLatest'
    BY <2>1, <2>7 DEF SilentIsShown, ScreenIsLatest
  <2>11. EventsAreLatest'
    BY <1>1, <2>5, <2>6 DEF FollowsLatest, EventsAreLatest
  <2>12. QED
    BY <2>8, <2>9, <2>10, <2>11 DEF FollowsLatest
<1>5. QED
  BY <1>3, <1>4 DEF User

(* What the page leaves of the answers when it takes a message.            *)
LEMMA AnswersLeft ==
    ASSUME TypeOK, wire # <<>>, wire' = Tail(wire), served' = served
    PROVE  /\ InFlight' \subseteq InFlight
           /\ \A a \in InFlight : a \in InFlight' \/ a = Head(wire)
<1>1. /\ Head(wire) = wire[1]
      /\ \A k \in Places' : wire'[k] = wire[k + 1]
      /\ \A k \in Places : k = 1 \/ \E l \in Places' : k = l + 1
  BY TakenAt, NextMessage
<1>2. \A k \in Places : wire[k] = Head(wire) \/ \E l \in Places' : wire'[l] = wire[k]
  BY <1>1
<1>3. QED
  BY <1>2, AnswersTaken DEF InFlight

(* A page step leaves the latest operation where it is, and what a page    *)
(* does not take is lost.                                                  *)
LEMMA PageFacts ==
    ASSUME Premises, wire # <<>>, PageStep(Head(wire))
    PROVE  /\ TypeOK /\ wire' = Tail(wire)
           /\ UNCHANGED <<sequence, current, telling, emitting, served, mount>>
           /\ InFlight' \subseteq InFlight /\ Head(wire) \in InFlight
           /\ \A a \in InFlight : a \in InFlight' \/ a = Head(wire)
           /\ 1 \in Places /\ Head(wire) = wire[1]
           /\ version' \in {version, version + 1} /\ version \in Nat
           /\ \A a : StartedLatest(a)' <=> StartedLatest(a)
           /\ \A a \in InFlight' : a.call.mount = mount /\ Fresh(a)' => version' = version /\ Fresh(a)
           /\ \A c \in sent' : c \in sent \/ c.kind = "refresh"
<1>1. /\ TypeOK /\ wire' = Tail(wire)
      /\ UNCHANGED <<sequence, current, telling, emitting, served, mount>>
  BY DEF Premises, Basics, PageStep, ReceiveEvent, ReceiveForOld, ReceiveState,
     ReceiveStart, ReceiveCancel, ReceiveRefresh, ReceiveAnswer, Receive, backendVars,
     registryVars
<1>2. /\ InFlight' \subseteq InFlight /\ Head(wire) \in InFlight
      /\ \A a \in InFlight : a \in InFlight' \/ a = Head(wire)
      /\ 1 \in Places /\ Head(wire) = wire[1]
  BY <1>1, AnswersLeft, AnswersTaken, NextMessage
<1>3. version' \in {version, version + 1} /\ version \in Nat
  BY <1>1 DEF TypeOK, PageStep, ReceiveEvent, ReceiveForOld, ReceiveState, ReceiveStart,
     ReceiveCancel, ReceiveRefresh, ReceiveAnswer
<1>4. \A a \in InFlight : a.call.version \in Nat
                          /\ (a.call.mount = mount => a.call.version <= version)
  BY <1>1, AnswersAreTyped
  DEF Premises, Basics, AnswerOrder, CallsAreOfThePast, CallsUnderWay, Answers, Calls
<1>5. \A a \in InFlight' : a.call.mount = mount /\ Fresh(a)' => version' = version /\ Fresh(a)
  BY <1>2, <1>3, <1>4 DEF Fresh
<1>6. \A c \in sent' : c \in sent \/ c.kind = "refresh"
  BY DEF PageStep, ReceiveEvent, ReceiveForOld, ReceiveState, ReceiveStart,
     ReceiveCancel, ReceiveRefresh, Call
<1>7. \A a : StartedLatest(a)' <=> StartedLatest(a)
  BY <1>1 DEF StartedLatest
<1>8. QED
  BY <1>1, <1>2, <1>3, <1>5, <1>6, <1>7

LEMMA LossesAreKept ==
    ASSUME Premises, wire # <<>>, PageStep(Head(wire)), StartIsLost
    PROVE  StartIsLost'
<1> DEFINE m == Head(wire)
<1>1. orphans \subseteq orphans'
  BY DEF PageStep, ReceiveEvent, ReceiveForOld, ReceiveState, ReceiveStart,
     ReceiveCancel, ReceiveRefresh, ReceiveAnswer
<1>2. CASE current.id \in orphans
  BY <1>1, <1>2, PageFacts DEF StartIsLost
<1>3. ASSUME NEW a \in InFlight, StartedLatest(a), a.call.mount # mount
      PROVE  StartIsLost'
  <2>1. CASE a \in InFlight'
    BY <1>3, <2>1, PageFacts DEF StartIsLost
  <2>2. CASE a = m
    <3>1. ReceiveForOld(m)
      BY <1>3, <2>2 DEF StartedLatest, PageStep, ReceiveEvent, ReceiveState, ReceiveStart,
         ReceiveCancel, ReceiveRefresh, ReceiveAnswer
    <3>2. current.id \in orphans'
      BY <1>3, <2>2, <3>1 DEF StartedLatest, ReceiveForOld
    <3>3. QED
      BY <3>2, PageFacts DEF StartIsLost
  <2>3. QED
    BY <1>3, <2>1, <2>2, PageFacts
<1>4. QED
  BY <1>2, <1>3 DEF StartIsLost

(* The ways in which a message changes what is shown.                      *)
LEMMA WaysToShow ==
    ASSUME Premises, wire # <<>>, PageStep(Head(wire))
    PROVE  \/ screen' = screen /\ version' = version
           \/ /\ ReceiveEvent(Head(wire)) /\ Concerns(Head(wire))
              /\ Head(wire).status = "event"
              /\ screen' = Head(wire).snapshot /\ version' = version + 1
           \/ /\ Head(wire).status # "event" /\ Head(wire).call.mount = mount
              /\ Fresh(Head(wire)) /\ screen' = Head(wire).snapshot /\ version' = version
              /\ \/ ReceiveState(Head(wire)) \/ ReceiveStart(Head(wire))
                 \/ ReceiveCancel(Head(wire))
                 \/ ReceiveRefresh(Head(wire)) /\ screen.id = Head(wire).call.id
<1> DEFINE m == Head(wire)
<1>1. CASE ReceiveEvent(m)
  BY <1>1 DEF ReceiveEvent
<1>2. CASE ReceiveForOld(m)
  BY <1>2 DEF ReceiveForOld
<1>3. CASE ReceiveState(m) \/ ReceiveStart(m) \/ ReceiveCancel(m)
  BY <1>3 DEF ReceiveState, ReceiveStart, ReceiveCancel, ReceiveAnswer, Show
<1>4. CASE ReceiveRefresh(m)
  BY <1>4 DEF ReceiveRefresh, ReceiveAnswer, Show
<1>5. QED
  BY <1>1, <1>2, <1>3, <1>4 DEF PageStep

(* A page that shows the latest operation goes on doing so.                *)
LEMMA LatestStays ==
    ASSUME Premises, FollowsLatest, wire # <<>>, PageStep(Head(wire)),
           version' = version, screen.id = current.id
    PROVE  screen'.id = current.id
<1>1. version' # version + 1 /\ Head(wire) \in InFlight
  BY PageFacts
<1>2. QED
  BY <1>1, WaysToShow DEF FollowsLatest, FreshAreLatest

(* The page that takes the answer to the latest Start shows the operation. *)
LEMMA StartIsShown ==
    ASSUME Premises, wire # <<>>, PageStep(Head(wire)),
           ~StartIsLost', StartIsAwaited, ~StartIsAwaited'
    PROVE  screen'.id = current.id
<1> DEFINE m == Head(wire)
<1>1. StartedLatest(m) /\ m.call.mount = mount
  BY PageFacts DEF StartIsAwaited
<1>2. m.call.kind = "start" /\ m.status = "started"
  BY <1>1, PageFacts DEF StartedLatest, Premises, Knowledge, WellAnswered
<1>3. ReceiveStart(m)
  BY <1>1, <1>2 DEF PageStep, ReceiveEvent, ReceiveForOld, ReceiveState, ReceiveCancel,
     ReceiveRefresh, ReceiveAnswer
<1>4. current.id > screen'.id => current.id \in orphans'
  BY <1>1, <1>3 DEF ReceiveStart, StartedLatest
<1>5. current.id \notin orphans'
  BY PageFacts DEF StartIsLost
<1>6. screen'.id <= sequence' /\ current'.id = sequence' /\ current' = current
  BY PageFacts DEF Premises, Knowledge, Basics, CounterAgrees
<1>7. screen'.id \in Nat /\ current.id \in Nat
  <2>1. screen' \in AnySnapshot /\ current \in AnySnapshot
    BY DEF Premises, Basics, TypeOK, RegistryTypeOK, AnySnapshot
  <2>2. QED
    BY <2>1, SnapshotIds
<1>8. QED
  BY <1>4, <1>5, <1>6, <1>7

(* When the answer of the latest operation is the first thing shown of it, *)
(* no fresh answer of an older one is left.                                *)
LEMMA FreshBehindTheFirst ==
    ASSUME Premises, FollowsLatest, wire # <<>>, PageStep(Head(wire)),
           screen.id # current.id, screen'.id = current.id, version' = version,
           NEW a \in InFlight', a.call.mount = mount, Fresh(a)
    PROVE  a.snapshot.id = current.id
<1> DEFINE m == Head(wire)
<1>0. /\ TypeOK /\ wire' = Tail(wire) /\ served' = served /\ mount' = mount
      /\ m \in InFlight /\ a \in InFlight /\ 1 \in Places /\ m = wire[1]
      /\ version # version + 1
  BY PageFacts
<1>1. /\ m.call.mount = mount /\ Fresh(m) /\ screen' = m.snapshot
      /\ \/ ReceiveState(m) \/ ReceiveStart(m) \/ ReceiveCancel(m)
         \/ ReceiveRefresh(m) /\ screen.id = m.call.id
  BY <1>0, WaysToShow
<1>2. WellAnswered(a) /\ WellAnswered(m) /\ WellCalled(a.call) /\ WellCalled(m.call)
  BY <1>0 DEF Premises, Knowledge, CallsUnderWay
<1>3. a.call.kind \in {"fetch", "start", "cancel", "refresh", "none"}
  BY <1>0, AnswersAreTyped DEF Answers, Calls
<1>4. \A lane : None(lane) => ~Mine(a.call, lane)
  BY <1>0 DEF None, InFlight
<1>5. \A lane : None(lane)' => ~Mine(a.call, lane)
  BY <1>0 DEF None, InFlight, Mine
<1>6. a.call.kind # "none"
  BY <1>0, <1>2 DEF WellCalled, TypeOK
<1>7. CASE a.call.kind = "start"
  <2>1. a.status = "started"
    BY <1>2, <1>7 DEF WellAnswered, Fresh
  <2>2. QED
    BY <1>0, <2>1 DEF FollowsLatest, OnlyLatestAwaited, StartedLatest
<1>8. ~ReceiveStart(m)
  <2> SUFFICES ASSUME ReceiveStart(m) PROVE FALSE
    OBVIOUS
  <2>1. m.status = "started"
    BY <1>1, <1>2 DEF ReceiveStart, ReceiveAnswer, WellAnswered, Fresh
  <2>2. ~ToldBefore(1)
    BY DEF ToldBefore, Places
  <2>3. m \in SilentStarts
    BY <1>0, <1>1, <2>1, <2>2 DEF SilentStarts, SilentPlaces, Awaited
  <2>4. QED
    BY <2>3 DEF FollowsLatest, SilentIsShown
<1>9. ~ReceiveCancel(m)
  <2> SUFFICES ASSUME ReceiveCancel(m) PROVE FALSE
    OBVIOUS
  <2>1. m.call.kind = "cancel"
    BY DEF ReceiveCancel, ReceiveAnswer
  <2>2. m.call.id = current.id
    BY <1>1, <1>2, <2>1 DEF WellAnswered, Fresh
  <2>3. QED
    BY <1>0, <1>1, <2>1, <2>2 DEF FollowsLatest, CancelledIsShown, CallsUnderWay, Fresh
<1>10. ~Mine(a.call, Fetching) /\ ~Mine(a.call, Cancelling)
  <2>1. CASE ReceiveState(m)
    <3>1. Mine(m.call, Fetching) /\ sent' = sent
      BY <2>1 DEF ReceiveState, ReceiveAnswer, Mine, Fetching
    <3>2. None(Fetching)'
      <4>1. AtMostOne(Fetching)
        BY DEF Premises, OneCallEach
      <4>2. QED
        BY <1>0, <3>1, <4>1, LaneEmptied
    <3>3. version = 0
      BY <1>1, <1>2, <3>1 DEF WellCalled, Mine, Fetching, Fresh
    <3>4. ~None(Fetching)
      BY <1>0, <3>1 DEF None
    <3>5. screen = NoSnapshot
      BY <3>3, <3>4 DEF Premises, StartsAreTold
    <3>6. None(Cancelling)
      BY <3>5 DEF Premises, OneCallEach
    <3>7. QED
      BY <1>4, <1>5, <3>2, <3>6
  <2>2. CASE ReceiveRefresh(m)
    <3>1. Mine(m.call, Cancelling) /\ sent' = sent
      BY <2>2 DEF ReceiveRefresh, ReceiveAnswer, Mine, Cancelling
    <3>2. None(Cancelling)'
      <4>1. AtMostOne(Cancelling)
        BY DEF Premises, OneCallEach
      <4>2. QED
        BY <1>0, <3>1, <4>1, LaneEmptied
    <3>3. ~None(Cancelling)
      BY <1>0, <3>1 DEF None
    <3>4. screen # NoSnapshot
      BY <3>3 DEF Premises, OneCallEach
    <3>5. Mine(a.call, Fetching) => version = 0
      BY <1>2 DEF WellCalled, Mine, Fetching, Fresh
    <3>6. ~Mine(a.call, Fetching)
      BY <1>4, <3>4, <3>5 DEF Premises, StartsAreTold
    <3>7. QED
      BY <1>5, <3>2, <3>6
  <2>3. QED
    BY <1>1, <1>8, <1>9, <2>1, <2>2
<1>11. a.call.kind \in {"start", "none"}
  BY <1>3, <1>10 DEF Mine, Fetching, Cancelling
<1>12. QED
  BY <1>6, <1>7, <1>11

(* What an event behind the latest Start is about.                         *)
LEMMA EventsBehindTheStart ==
    ASSUME Premises, wire # <<>>, PageStep(Head(wire)), StartedLatest(Head(wire))
    PROVE  /\ \A s \in emitting' : s.id = current.id
           /\ \A a \in InFlight' : a.status = "event" => a.snapshot.id = current.id
<1> DEFINE m == Head(wire)
<1>1. /\ TypeOK /\ wire' = Tail(wire) /\ UNCHANGED <<emitting, served>>
      /\ 1 \in Places /\ m = wire[1]
  BY PageFacts
<1>2. \A k \in Places' : k + 1 \in Places /\ 1 < k + 1 /\ wire'[k] = wire[k + 1]
  BY <1>1, TakenAt
<1>3. /\ \A s \in emitting : s.id = current.id
      /\ \A q \in Places : 1 < q /\ EventAt(q) => wire[q].snapshot.id = current.id
  BY <1>1 DEF Premises, Announcements, BehindTheStart
<1>4. \A a \in served : a.status # "event"
  BY DEF Premises, Basics, EventOrder, EventsAreOrdered
<1>5. \A k \in Places' : wire'[k].status = "event" => wire'[k].snapshot.id = current.id
  BY <1>2, <1>3 DEF EventAt
<1>6. QED
  BY <1>1, <1>3, <1>4, <1>5 DEF InFlight

LEMMA AttachedPage ==
    ASSUME Premises, Attached, wire # <<>>, PageStep(Head(wire))
    PROVE  Attached'
<1> DEFINE m == Head(wire)
<1> SUFFICES ASSUME current' # NoSnapshot, ~StartIsLost' PROVE FollowsLatest'
  BY DEF Attached
<1>1. FollowsLatest
  BY LossesAreKept, PageFacts DEF Attached
<1>2. /\ TypeOK /\ current' = current /\ mount' = mount /\ emitting' = emitting
      /\ InFlight' \subseteq InFlight /\ m \in InFlight
      /\ \A a \in InFlight : a \in InFlight' \/ a = m
      /\ version' \in {version, version + 1} /\ version \in Nat
      /\ \A a : StartedLatest(a)' <=> StartedLatest(a)
      /\ \A a \in InFlight' :
             a.call.mount = mount /\ Fresh(a)' => version' = version /\ Fresh(a)
      /\ \A c \in sent' : c \in sent \/ c.kind = "refresh"
  BY PageFacts
<1>3. version' = version /\ screen.id = current.id => screen'.id = current.id
  BY <1>1, LatestStays
<1>4. StartIsAwaited /\ ~StartIsAwaited' => screen'.id = current.id /\ StartedLatest(m)
  BY <1>2, StartIsShown DEF StartIsAwaited
<1>5. StartIsAwaited' => StartIsAwaited
  BY <1>2 DEF StartIsAwaited
<1>6. OnlyLatestAwaited'
  BY <1>1, <1>2 DEF FollowsLatest, OnlyLatestAwaited
<1>7. SilentIsShown'
  <2>1. SilentStarts' \subseteq SilentStarts /\ (version' # version => SilentStarts' = {})
    BY SilentPage DEF Premises
  <2>2. QED
    BY <1>1, <1>2, <1>3, <2>1 DEF FollowsLatest, SilentIsShown
<1>8. CancelledIsShown'
  <2>1. \A c \in CallsUnderWay' : c \in CallsUnderWay \/ c.kind = "refresh"
    BY <1>2 DEF CallsUnderWay
  <2>2. \A c \in CallsUnderWay :
            c.version \in Nat /\ (c.mount = mount => c.version <= version)
    BY <1>2, CallsAreTyped DEF Premises, Basics, AnswerOrder, CallsAreOfThePast, Calls
  <2>3. \A c \in CallsUnderWay : c.mount = mount /\ c.version = version' => version' = version
    BY <1>2, <2>2
  <2>4. QED
    BY <1>1, <1>2, <1>3, <2>1, <2>3 DEF FollowsLatest, CancelledIsShown
<1>9. FreshAreLatest'
  <2> SUFFICES ASSUME ~StartIsAwaited' \/ screen'.id = current.id,
                      NEW a \in InFlight', a.call.mount = mount, Fresh(a)'
               PROVE  a.snapshot.id = current.id
    BY <1>2 DEF FreshAreLatest
  <2>1. a \in InFlight /\ version' = version /\ Fresh(a)
    BY <1>2
  <2>2. CASE ~StartIsAwaited \/ screen.id = current.id
    BY <1>1, <2>1, <2>2 DEF FollowsLatest, FreshAreLatest
  <2>3. CASE StartIsAwaited /\ screen.id # current.id
    <3>1. screen'.id = current.id
      BY <1>4, <2>3
    <3>2. QED
      BY <1>1, <2>1, <2>3, <3>1, FreshBehindTheFirst
  <2>4. QED
    BY <2>2, <2>3
<1>10. ScreenIsLatest'
  <2> SUFFICES ASSUME ~StartIsAwaited', screen' # NoSnapshot PROVE screen'.id = current.id
    BY <1>2 DEF ScreenIsLatest
  <2>1. CASE StartIsAwaited
    BY <1>4, <2>1
  <2>2. CASE ~StartIsAwaited
    <3>1. screen = NoSnapshot \/ screen.id = current.id
      BY <1>1, <2>2 DEF FollowsLatest, ScreenIsLatest
    <3>2. m.status = "event" => m.snapshot.id = current.id
      BY <1>1, <1>2, <2>2 DEF FollowsLatest, EventsAreLatest
    <3>3. m.call.mount = mount /\ Fresh(m) => m.snapshot.id = current.id
      BY <1>1, <1>2, <2>2 DEF FollowsLatest, FreshAreLatest
    <3>4. QED
      BY <3>1, <3>2, <3>3, WaysToShow
  <2>3. QED
    BY <2>1, <2>2
<1>11. EventsAreLatest'
  <2>1. CASE StartIsAwaited /\ ~StartIsAwaited'
    BY <1>2, <1>4, <2>1, EventsBehindTheStart DEF EventsAreLatest
  <2>2. CASE ~StartIsAwaited
    BY <1>1, <1>2, <2>2 DEF FollowsLatest, EventsAreLatest
  <2>3. QED
    BY <2>1, <2>2 DEF EventsAreLatest
<1>12. QED
  BY <1>6, <1>7, <1>8, <1>9, <1>10, <1>11 DEF FollowsLatest

LEMMA AttachedStep == Premises /\ Attached /\ [Next]_vars => Attached'
BY StepCases, AttachedBackend, AttachedUser, AttachedPage DEF BackendStep

-----------------------------------------------------------------------------
(***************************************************************************)
(* Once the page has been handed the event of the latest state, it shows   *)
(* that state, or shows nothing and still has the fetch of its mount to    *)
(* bring it; and no fresh answer would take it back (App.tsx:79-103).      *)
(***************************************************************************)
FreshAreCurrent ==
    \A a \in InFlight : a.call.mount = mount /\ Fresh(a) => a.snapshot = current

ShownOrFetched ==
    \/ screen = current
    \/ /\ screen = NoSnapshot /\ version = 0
       /\ \/ FirstCall(mount) \in sent
          \/ \E a \in InFlight : a.call = FirstCall(mount) /\ a.snapshot = current

HeardIsShown == Heard /\ ~StartIsLost => FreshAreCurrent /\ ShownOrFetched

LEMMA HeardInit == Init => HeardIsShown
BY DEF Init, NewRegistry, HeardIsShown, Heard

(* Steps that leave the page and the latest state alone.                   *)
LEMMA HeardKept ==
    ASSUME HeardIsShown, Heard' => Heard, current' = current,
           UNCHANGED <<mount, screen, version, orphans>>,
           InFlight \subseteq InFlight',
           \A a \in InFlight' : a \in InFlight \/ (Fresh(a) => a.snapshot = current),
           FirstCall(mount) \in sent =>
               \/ FirstCall(mount) \in sent'
               \/ \E a \in InFlight' : a.call = FirstCall(mount) /\ a.snapshot = current
    PROVE  HeardIsShown'
<1> SUFFICES ASSUME Heard', ~StartIsLost' PROVE FreshAreCurrent' /\ ShownOrFetched'
  BY DEF HeardIsShown
<1>1. StartIsLost => StartIsLost'
  BY DEF StartIsLost, StartedLatest
<1>2. FreshAreCurrent /\ ShownOrFetched
  BY <1>1 DEF HeardIsShown
<1>3. FreshAreCurrent'
  BY <1>2 DEF FreshAreCurrent, Fresh
<1>4. FirstCall(mount)' = FirstCall(mount)
  BY DEF FirstCall
<1>5. ShownOrFetched'
  BY <1>2, <1>4 DEF ShownOrFetched
<1>6. QED
  BY <1>3, <1>5

LEMMA HeardBackend ==
    ASSUME Premises, Announcements', HeardIsShown, BackendStep PROVE HeardIsShown'
<1>0. TypeOK /\ CounterAgrees
  BY DEF Premises, Basics
<1>1. UNCHANGED <<mount, screen, version, orphans>>
  BY BackendKeepsPage
<1>2. CASE RunStep
  BY <1>2 DEF RunStep, RunTransition, RunFinish, HeardIsShown, Heard
<1>3. CASE NotifyCurrent
  BY <1>3 DEF NotifyCurrent, registryVars, HeardIsShown, Heard
<1>4. CASE NotifyStale
  <2>1. /\ UNCHANGED <<current, emitting, wire, served, sent>>
        /\ \E s \in telling \ {current} : telling' = telling \ {s}
    BY <1>4 DEF NotifyStale, registryVars
  <2>2. (Heard' => Heard) /\ InFlight' = InFlight
    BY <2>1 DEF Heard, Places, EventAt, InFlight
  <2>3. QED
    BY <1>1, <2>1, <2>2, HeardKept
<1>5. CASE Emit
  <2>1. PICK s \in emitting : wire' = Append(wire, Event(s))
    BY <1>5 DEF Emit
  <2>2. PICK k \in Places' : wire'[k] = Event(s)
    BY <1>0, <2>1, AppendedAt
  <2>3. EventAt(k)'
    BY <2>2 DEF EventAt, Event, AnswerTo
  <2>4. ~Heard'
    BY <2>2, <2>3 DEF Announcements, NothingAfterTheLatest
  <2>5. QED
    BY <2>4 DEF HeardIsShown
<1>6. CASE Answer
  <2>1. UNCHANGED <<current, telling, emitting, sent>> /\ InFlight' = InFlight
    BY <1>0, <1>6, AnswerAddsNothing DEF backendVars, registryVars
  <2>2. PICK a \in served : wire' = Append(wire, a)
    BY <1>6 DEF Answer
  <2>3. \A k \in Places : k \in Places' /\ wire'[k] = wire[k]
    BY <1>0, <2>2, AppendedAt
  <2>4. Heard' => Heard
    BY <2>1, <2>3 DEF Heard, EventAt
  <2>5. QED
    BY <1>1, <2>1, <2>4, HeardKept
<1>7. CASE UNCHANGED vars
  <2>1. UNCHANGED <<current, telling, emitting, sent, served, wire>>
    BY <1>7 DEF vars, backendVars, registryVars
  <2>2. (Heard' => Heard) /\ InFlight' = InFlight
    BY <2>1 DEF Heard, Places, EventAt, InFlight
  <2>3. QED
    BY <1>1, <2>1, <2>2, HeardKept
<1>8. ASSUME NEW call \in sent, CallStep(call) PROVE HeardIsShown'
  <2>1. PICK a \in Answers :
            /\ a.call = call /\ sent' = sent \ {call} /\ InFlight' = InFlight \cup {a}
            /\ \/ StartLaunch(call) \/ CancelLaunch(call)
               \/ UNCHANGED <<registryVars, telling>>
                  /\ a.snapshot \in {current, NoSnapshot}
                  /\ (call.kind = "fetch" => a.snapshot = current)
            /\ UNCHANGED <<emitting, wire>>
    BY <1>0, <1>8, CallAddsItsAnswer
  <2>2. CASE StartLaunch(call) \/ CancelLaunch(call)
    BY <2>2 DEF StartLaunch, CancelLaunch, HeardIsShown, Heard
  <2>3. CASE /\ UNCHANGED <<registryVars, telling>>
             /\ a.snapshot \in {current, NoSnapshot}
             /\ (call.kind = "fetch" => a.snapshot = current)
    <3>1. current' = current /\ (Heard' => Heard)
      BY <2>1, <2>3 DEF registryVars, Heard, Places, EventAt
    <3>2. FirstCall(mount).kind = "fetch"
      BY DEF FirstCall
    <3>3. FirstCall(mount) \in sent =>
              FirstCall(mount) \in sent' \/ (a.call = FirstCall(mount) /\ a.snapshot = current)
      BY <2>1, <2>3, <3>2
    <3>4. Fresh(a) => a.snapshot = current
      BY <2>3 DEF Fresh
    <3>5. QED
      BY <1>1, <2>1, <3>1, <3>3, <3>4, HeardKept
  <2>4. QED
    BY <2>1, <2>2, <2>3
<1>9. QED
  BY <1>2, <1>3, <1>4, <1>5, <1>6, <1>7, <1>8 DEF BackendStep, NotifyStep

LEMMA HeardUser == Premises /\ HeardIsShown /\ User => HeardIsShown'
<1> SUFFICES ASSUME Premises, HeardIsShown, User PROVE HeardIsShown'
  OBVIOUS
<1>1. UNCHANGED <<current, telling, emitting, served, wire, orphans>> /\ InFlight' = InFlight
  BY DEF User, Submit, Cancel, Remount, backendVars, registryVars, InFlight, Places
<1>2. Heard' => Heard
  BY <1>1 DEF Heard, Places, EventAt
<1>3. CASE Submit \/ Cancel
  <2>1. UNCHANGED <<mount, screen, version>> /\ sent \subseteq sent'
    BY <1>3 DEF Submit, Cancel
  <2>2. QED
    BY <1>1, <1>2, <2>1, HeardKept
<1>4. CASE Remount
  <2>1. /\ screen' = NoSnapshot /\ version' = 0 /\ mount' = mount + 1
        /\ FirstCall(mount + 1) \in sent'
    BY <1>4 DEF Remount
  <2>2. FirstCall(mount)' = FirstCall(mount + 1)
    BY <2>1 DEF FirstCall
  <2>3. ShownOrFetched'
    BY <2>1, <2>2 DEF ShownOrFetched
  <2>4. \A a \in InFlight : a.call.mount # mount + 1
    <3>1. \A a \in InFlight : a.call.mount \in Int /\ a.call.mount <= mount
      BY CallsAreTyped DEF Premises, Basics, AnswerOrder, CallsAreOfThePast, CallsUnderWay,
         Calls
    <3>2. mount \in Int
      BY DEF Premises, Basics, TypeOK
    <3>3. QED
      BY <3>1, <3>2
  <2>5. FreshAreCurrent'
    BY <1>1, <2>1, <2>4 DEF FreshAreCurrent
  <2>6. QED
    BY <2>3, <2>5 DEF HeardIsShown
<1>5. QED
  BY <1>3, <1>4 DEF User

LEMMA HeardPage ==
    ASSUME Premises, Attached, HeardIsShown, wire # <<>>, PageStep(Head(wire))
    PROVE  HeardIsShown'
<1> DEFINE m == Head(wire)
<1> SUFFICES ASSUME Heard', ~StartIsLost' PROVE FreshAreCurrent' /\ ShownOrFetched'
  BY DEF HeardIsShown
<1>1. /\ TypeOK /\ wire' = Tail(wire)
      /\ UNCHANGED <<current, telling, emitting, mount>>
      /\ m \in InFlight
      /\ \A a \in InFlight : a \in InFlight' \/ a = m
      /\ 1 \in Places /\ m = wire[1]
      /\ version # version + 1
      /\ \A a \in InFlight' :
             a.call.mount = mount /\ Fresh(a)' => version' = version /\ Fresh(a)
      /\ InFlight' \subseteq InFlight
  BY PageFacts
<1>2. ~StartIsLost /\ current # NoSnapshot
  BY <1>1, LossesAreKept DEF Heard
<1>3. CASE Heard
  <2>1. FreshAreCurrent /\ ShownOrFetched
    BY <1>2, <1>3 DEF HeardIsShown
  <2>2. m.status # "event"
    BY <1>1, <1>3 DEF Premises, Announcements, NothingAfterTheLatest, EventAt
  <2>3. version' = version /\ (screen' = screen \/ screen' = current)
    BY <1>1, <2>1, <2>2, WaysToShow DEF FreshAreCurrent
  <2>4. FreshAreCurrent'
    BY <1>1, <2>1 DEF FreshAreCurrent
  <2>5. sent \subseteq sent'
    BY DEF PageStep, ReceiveEvent, ReceiveForOld, ReceiveState, ReceiveStart,
       ReceiveCancel, ReceiveRefresh
  <2>6. ASSUME version = 0, m.call = FirstCall(mount), m.snapshot = current
        PROVE  screen' = current
    <3>1. m.call.kind = "fetch" /\ m.call.mount = mount /\ m.call.version = 0
      BY <2>6 DEF FirstCall
    <3>2. ReceiveState(m)
      BY <2>2, <3>1 DEF PageStep, ReceiveEvent, ReceiveForOld, ReceiveStart,
         ReceiveCancel, ReceiveRefresh, ReceiveAnswer
    <3>3. Fresh(m)
      BY <1>2, <2>6, <3>1 DEF Fresh
    <3>4. QED
      BY <2>6, <3>2, <3>3 DEF ReceiveState, Show
  <2>7. FirstCall(mount)' = FirstCall(mount)
    BY <1>1 DEF FirstCall
  <2>8. ShownOrFetched'
    BY <1>1, <2>1, <2>3, <2>5, <2>6, <2>7 DEF ShownOrFetched
  <2>9. QED
    BY <2>4, <2>8
<1>4. CASE ~Heard
  <2>1. m.status = "event" /\ m.snapshot = current
    <3>1. \A k \in Places : k = 1 \/ \E l \in Places' : k = l + 1
      BY <1>1, TakenAt
    <3>2. \A l \in Places' : wire'[l] = wire[l + 1]
      BY <1>1, TakenAt
    <3>3. \A l \in Places' : EventAt(l + 1) => wire[l + 1].snapshot # current
      BY <1>1, <3>2 DEF Heard, EventAt
    <3>4. EventAt(1) /\ wire[1].snapshot = current
      BY <1>1, <1>4, <3>1, <3>3 DEF Heard
    <3>5. QED
      BY <1>1, <3>4 DEF EventAt
  <2>2. FollowsLatest
    BY <1>2 DEF Attached
  <2>3. Concerns(m)
    <3>1. CASE StartIsAwaited
      <4>1. accepting
        BY <3>1, AwaitedIsMine DEF Premises, StartIsAwaited, StartedLatest
      <4>2. QED
        BY <4>1, Zenon DEF Concerns
    <3>2. CASE ~StartIsAwaited
      BY <2>1, <2>2, <3>2 DEF FollowsLatest, ScreenIsLatest, Concerns
    <3>3. QED
      BY <3>1, <3>2
  <2>4. ReceiveEvent(m)
    BY <2>1 DEF PageStep, ReceiveForOld, ReceiveState, ReceiveStart, ReceiveCancel,
       ReceiveRefresh, ReceiveAnswer
  <2>5. screen' = current /\ version' = version + 1
    BY <2>1, <2>3, <2>4, Zenon DEF ReceiveEvent
  <2>6. FreshAreCurrent'
    BY <1>1, <2>5 DEF FreshAreCurrent
  <2>7. ShownOrFetched'
    BY <1>1, <2>5 DEF ShownOrFetched
  <2>8. QED
    BY <2>6, <2>7
<1>5. QED
  BY <1>3, <1>4

LEMMA HeardStep ==
    Premises /\ Announcements' /\ Attached /\ HeardIsShown /\ [Next]_vars => HeardIsShown'
BY StepCases, HeardBackend, HeardUser, HeardPage DEF BackendStep

-----------------------------------------------------------------------------
(***************************************************************************)
(* All that keeps the page and the registry together while calls, answers  *)
(* and events overtake one another: each part rests on the ones before it. *)
(***************************************************************************)
Synchronised ==
    /\ OneCallEach /\ Knowledge /\ Announcements /\ StartsAreTold
    /\ Attached /\ HeardIsShown

LEMMA SynchronisedStep ==
    Basics /\ Basics' /\ Synchronised /\ [Next]_vars => Synchronised'
<1> SUFFICES ASSUME Basics, Basics', Synchronised, [Next]_vars PROVE Synchronised'
  OBVIOUS
<1>1. OneCallEach' /\ Knowledge' /\ Announcements' /\ StartsAreTold'
  BY OneCallStep, KnowledgeStep, AnnouncementsStep, StartsAreToldStep DEF Synchronised
<1>2. Premises
  BY <1>1 DEF Premises, Synchronised
<1>3. Attached' /\ HeardIsShown'
  BY <1>1, <1>2, AttachedStep, HeardStep DEF Synchronised
<1>4. QED
  BY <1>1, <1>3 DEF Synchronised

LEMMA QuietIsCurrent == Basics /\ Synchronised => QuietScreenIsCurrent
<1> SUFFICES ASSUME Basics, Synchronised, Quiet, current.id \notin orphans
             PROVE  screen = current
  BY DEF QuietScreenIsCurrent
<1>1. Places = {} /\ InFlight = {} /\ sent = {}
  BY DEF Quiet, Places, InFlight
<1>2. CASE current # NoSnapshot
  <2>1. Heard
    BY <1>1, <1>2 DEF Quiet, Heard
  <2>2. ~StartIsLost
    BY <1>1 DEF StartIsLost
  <2>3. QED
    BY <1>1, <2>1, <2>2 DEF Synchronised, HeardIsShown, ShownOrFetched
<1>3. CASE current = NoSnapshot
  <2>1. screen \in AnySnapshot /\ screen.id <= current.id
    BY DEF Basics, TypeOK, CounterAgrees, Synchronised, Knowledge, AnySnapshot
  <2>2. current.id = 0 /\ screen.id \in Nat
    BY <1>3, <2>1, SnapshotIds DEF NoSnapshot
  <2>3. screen.id = 0
    BY <2>1, <2>2
  <2>4. QED
    BY <1>3, <2>1, <2>3, NoSnapshotIsZero
<1>4. QED
  BY <1>2, <1>3

(***************************************************************************)
(* When nothing is under way any more, the page shows the latest state of  *)
(* the latest operation, whatever calls, answers and events have overtaken *)
(* one another and however often the page was mounted again, unless no     *)
(* page took the answer to the operation's Start while it showed an older  *)
(* one (App.tsx:79-103,117-186).                                           *)
(***************************************************************************)
THEOREM QuietPageIsCurrent == Spec => []QuietScreenIsCurrent
<1>1. Init => Synchronised
  BY OneCallInit, KnowledgeInit, AnnouncementsInit, StartsAreToldInit, AttachedInit,
     HeardInit DEF Synchronised
<1>2. Basics /\ Basics' /\ Synchronised /\ [Next]_vars => Synchronised'
  BY SynchronisedStep
<1>3. Basics /\ Synchronised => QuietScreenIsCurrent
  BY QuietIsCurrent
<1>4. QED
  BY <1>1, <1>2, <1>3, BasicsHold, PTL DEF Spec
=============================================================================
