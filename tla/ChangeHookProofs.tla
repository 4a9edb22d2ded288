-------------------------- MODULE ChangeHookProofs --------------------------
(***************************************************************************)
(* Theorems about ChangeHook for any number of hooks, threads and handles. *)
(***************************************************************************)
EXTENDS ChangeHook, TLAPS

Opened(h) == caller[h] \in {"open", "posting", "waiting", "collect", "closed"}
Posted(h) == caller[h] \in {"waiting", "collect", "closed"}

BeforeReady == {"go", "locked", "queued", "refusing", "storing", "telling"}
AfterLoop == {"unhook", "delete", "close", "unlock", "ended"}

(* Where the owner is and where the goroutine is.                          *)
PlacesMatch ==
    \A h \in Hooks :
        /\ caller[h] = "idle" <=> run[h] = "none"
        /\ caller[h] = "starting" <=> run[h] \in BeforeReady
        /\ caller[h] = "refused" => run[h] \in {"close", "unlock", "ended"}
        /\ Opened(h) => run[h] \in {"loop"} \cup AfterLoop

(* What done and the result say of the goroutine and of Windows.           *)
DoneIsTrue ==
    \A h \in Hooks :
        /\ done[h] <=> run[h] \in {"unlock", "ended"}
        /\ caller[h] = "collect" => done[h]
        /\ result[h] # "empty" => run[h] \in {"close", "unlock", "ended"}
        /\ result[h] = "ok" => h \notin installed
        /\ caller[h] = "closed" /\ ~closeErr[h] => done[h] /\ h \notin installed

(* An installed hook has a handle of its own.                              *)
HandlesDiffer ==
    /\ \A h \in Hooks :
           /\ run[h] \in {"storing", "telling", "loop", "unhook"} => h \in installed
           /\ run[h] \in {"storing", "telling", "loop", "unhook", "delete"} =>
                  handle[h] \in Handles
           /\ h \in installed =>
                  /\ handle[h] \in Handles
                  /\ run[h] \notin {"none", "go", "locked", "queued", "refusing"}
    /\ \A g, h \in installed : handle[g] = handle[h] => g = h

(* The map finds a hook under its handle, and only while it is in use.     *)
EntriesAreLive ==
    \A k \in Handles : \A h \in entry[k] :
        /\ handle[h] = k
        /\ run[h] \in {"telling", "loop", "unhook", "delete"}
        /\ entry[k] = {h}

(* A goroutine that holds a thread holds it alone.                         *)
ThreadsDiffer ==
    /\ \A h \in Holders : threadID[h] \in Threads
    /\ \A g, h \in Holders : threadID[g] = threadID[h] => g = h

(* Each WM_QUIT was posted once, to the thread of its hook, and is read    *)
(* once.                                                                   *)
QuitsArePosted ==
    /\ \A t \in Threads, g \in Hooks :
           <<t, g>> \in quits => threadID[g] = t /\ Posted(g)
    /\ \A h \in Hooks : quitFor[h] # None =>
           /\ quitFor[h] \in Hooks
           /\ threadID[quitFor[h]] = threadID[h]
           /\ Posted(quitFor[h])
           /\ run[h] \in AfterLoop
           /\ \A t \in Threads : <<t, quitFor[h]>> \notin quits

(* Why a loop has ended.                                                   *)
EndsAreExplained ==
    /\ \A h \in Hooks : Opened(h) /\ run[h] # "loop" =>
           failure[h] # "none" \/ quitFor[h] # None
    /\ \A h \in Hooks : quitFor[h] \notin {h, None} =>
           \E g \in Hooks : failure[g] # "none"

HookInvariant ==
    /\ TypeOK
    /\ PlacesMatch
    /\ DoneIsTrue
    /\ HandlesDiffer
    /\ EntriesAreLive
    /\ ThreadsDiffer
    /\ QuitsArePosted
    /\ EndsAreExplained
    /\ ListenersAreFound

LEMMA TypePart ==
    ASSUME HookInvariant, NEW h \in Hooks, Owner(h) \/ Goroutine(h)
    PROVE  TypeOK'
<1> USE DEF HookInvariant, TypeOK, CallerPlaces, RunPlaces, HoldingPlaces, locals,
        channels, shared, CallerGoes, Goes, Owner, Goroutine, Start,
        TakeNotification, TakeFailure, Close, PostQuit, PostFails, WaitForDone,
        Collect, LockOSThread, PeekMessage, SetWinEventHook, SetWinEventHookFails,
        StoreEntry, Ready, Dispatch, ReadQuit, GetMessageFails, UnhookWinEvent,
        SendResult, CloseDone, UnlockOSThread
<1>1. caller' \in [Hooks -> CallerPlaces]
  OBVIOUS
<1>2. run' \in [Hooks -> RunPlaces]
  OBVIOUS
<1>3. threadID' \in [Hooks -> Threads \cup {None}]
  OBVIOUS
<1>4. handle' \in [Hooks -> Handles \cup {None}]
  OBVIOUS
<1>5. notified' \in [Hooks -> BOOLEAN]
  OBVIOUS
<1>6. failure' \in [Hooks -> {"none", "pending", "taken"}]
  OBVIOUS
<1>7. result' \in [Hooks -> {"empty", "ok", "error"}]
  OBVIOUS
<1>8. done' \in [Hooks -> BOOLEAN]
  OBVIOUS
<1>9. closeErr' \in [Hooks -> BOOLEAN]
  OBVIOUS
<1>10. entry' \in [Handles -> SUBSET Hooks]
  OBVIOUS
<1>11. queues' \subseteq Threads
  BY DEF ThreadsDiffer, Holders
<1>12. quits' \subseteq Threads \X Hooks
  <2>1. quits' \subseteq quits \/ PostQuit(h)
    OBVIOUS
  <2>2. ASSUME PostQuit(h)
        PROVE  /\ threadID[h] \in Threads
               /\ quits' = quits \cup {<<threadID[h], h>>}
    BY <2>2
  <2>3. quits \subseteq Threads \X Hooks
    OBVIOUS
  <2>4. QED
    BY ONLY <2>1, <2>2, <2>3, h \in Hooks
<1>13. installed' \subseteq Hooks
  OBVIOUS
<1>14. quitFor' \in [Hooks -> Hooks \cup {None}]
  OBVIOUS
<1>15. QED
  BY <1>1, <1>2, <1>3, <1>4, <1>5, <1>6, <1>7, <1>8, <1>9, <1>10, <1>11, <1>12, <1>13, <1>14

LEMMA PlacesPart ==
    ASSUME HookInvariant, NEW h \in Hooks, Owner(h) \/ Goroutine(h)
    PROVE  PlacesMatch'
<1> USE NoneAssumption DEF HookInvariant, TypeOK, PlacesMatch, Opened, BeforeReady, AfterLoop,
        locals, channels, shared, CallerGoes, Goes
<1>1. CASE Start(h) \/ Close(h) \/ PostQuit(h) \/ PostFails(h)
  BY <1>1 DEF Start, Close, PostQuit, PostFails
<1>2. CASE TakeNotification(h) \/ TakeFailure(h) \/ WaitForDone(h) \/ Collect(h)
  BY <1>2 DEF TakeNotification, TakeFailure, WaitForDone, Collect
<1>3. CASE LockOSThread(h) \/ PeekMessage(h) \/ SetWinEventHook(h) \/ SetWinEventHookFails(h)
  BY <1>3 DEF LockOSThread, PeekMessage, SetWinEventHook, SetWinEventHookFails
<1>4. CASE StoreEntry(h) \/ Ready(h) \/ Dispatch(h)
  BY <1>4 DEF StoreEntry, Ready, Dispatch
<1>5. CASE ReadQuit(h) \/ GetMessageFails(h)
  BY <1>5 DEF ReadQuit, GetMessageFails
<1>6. CASE UnhookWinEvent(h) \/ SendResult(h) \/ CloseDone(h) \/ UnlockOSThread(h)
  BY <1>6 DEF UnhookWinEvent, SendResult, CloseDone, UnlockOSThread
<1>7. QED
  BY <1>1, <1>2, <1>3, <1>4, <1>5, <1>6 DEF Owner, Goroutine

LEMMA DonePart ==
    ASSUME HookInvariant, NEW h \in Hooks, Owner(h) \/ Goroutine(h)
    PROVE  DoneIsTrue'
<1> USE NoneAssumption DEF HookInvariant, TypeOK, DoneIsTrue, PlacesMatch, Opened,
        locals, channels, shared, CallerGoes, Goes
<1>1. CASE Start(h) \/ Close(h) \/ PostQuit(h) \/ PostFails(h)
  <2>1. CASE Start(h)
    BY <2>1 DEF Start
  <2>2. CASE Close(h)
    BY <2>2 DEF Close
  <2>3. CASE PostQuit(h)
    BY <2>3 DEF PostQuit
  <2>4. CASE PostFails(h)
    BY <2>4 DEF PostFails
  <2>5. QED
    BY <1>1, <2>1, <2>2, <2>3, <2>4
<1>2. CASE TakeNotification(h) \/ TakeFailure(h) \/ WaitForDone(h) \/ Collect(h)
  BY <1>2 DEF TakeNotification, TakeFailure, WaitForDone, Collect
<1>3. CASE LockOSThread(h) \/ PeekMessage(h) \/ SetWinEventHook(h) \/ SetWinEventHookFails(h)
  BY <1>3 DEF LockOSThread, PeekMessage, SetWinEventHook, SetWinEventHookFails
<1>4. CASE StoreEntry(h) \/ Ready(h) \/ Dispatch(h)
  BY <1>4 DEF StoreEntry, Ready, Dispatch
<1>5. CASE ReadQuit(h) \/ GetMessageFails(h)
  BY <1>5 DEF ReadQuit, GetMessageFails
<1>6. CASE UnhookWinEvent(h) \/ SendResult(h) \/ CloseDone(h) \/ UnlockOSThread(h)
  BY <1>6 DEF UnhookWinEvent, SendResult, CloseDone, UnlockOSThread
<1>7. QED
  BY <1>1, <1>2, <1>3, <1>4, <1>5, <1>6 DEF Owner, Goroutine

LEMMA HandlesPart ==
    ASSUME HookInvariant, NEW h \in Hooks, Owner(h) \/ Goroutine(h)
    PROVE  HandlesDiffer'
<1> USE NoneAssumption DEF HookInvariant, TypeOK, HandlesDiffer,
        locals, channels, shared, CallerGoes, Goes
<1>1. CASE Start(h) \/ Close(h) \/ PostQuit(h) \/ PostFails(h)
  BY <1>1 DEF Start, Close, PostQuit, PostFails, PlacesMatch
<1>2. CASE TakeNotification(h) \/ TakeFailure(h) \/ WaitForDone(h) \/ Collect(h)
  BY <1>2 DEF TakeNotification, TakeFailure, WaitForDone, Collect
<1>3. CASE LockOSThread(h) \/ PeekMessage(h) \/ SetWinEventHook(h) \/ SetWinEventHookFails(h)
  BY <1>3 DEF LockOSThread, PeekMessage, SetWinEventHook, SetWinEventHookFails
<1>4. CASE StoreEntry(h) \/ Ready(h) \/ Dispatch(h)
  BY <1>4 DEF StoreEntry, Ready, Dispatch
<1>5. CASE ReadQuit(h) \/ GetMessageFails(h)
  BY <1>5 DEF ReadQuit, GetMessageFails
<1>6. CASE UnhookWinEvent(h) \/ SendResult(h) \/ CloseDone(h) \/ UnlockOSThread(h)
  BY <1>6 DEF UnhookWinEvent, SendResult, CloseDone, UnlockOSThread
<1>7. QED
  BY <1>1, <1>2, <1>3, <1>4, <1>5, <1>6 DEF Owner, Goroutine

LEMMA EntriesPart ==
    ASSUME HookInvariant, NEW h \in Hooks, Owner(h) \/ Goroutine(h)
    PROVE  EntriesAreLive'
<1> USE NoneAssumption DEF HookInvariant, TypeOK, EntriesAreLive, HandlesDiffer,
        locals, channels, shared, CallerGoes, Goes
<1>1. CASE Start(h) \/ Close(h) \/ PostQuit(h) \/ PostFails(h)
  BY <1>1 DEF Start, Close, PostQuit, PostFails, PlacesMatch
<1>2. CASE TakeNotification(h) \/ TakeFailure(h) \/ WaitForDone(h) \/ Collect(h)
  BY <1>2 DEF TakeNotification, TakeFailure, WaitForDone, Collect
<1>3. CASE LockOSThread(h) \/ PeekMessage(h) \/ SetWinEventHook(h) \/ SetWinEventHookFails(h)
  BY <1>3 DEF LockOSThread, PeekMessage, SetWinEventHook, SetWinEventHookFails
<1>4. CASE StoreEntry(h) \/ Ready(h) \/ Dispatch(h)
  BY <1>4 DEF StoreEntry, Ready, Dispatch
<1>5. CASE ReadQuit(h) \/ GetMessageFails(h)
  BY <1>5 DEF ReadQuit, GetMessageFails
<1>6. CASE UnhookWinEvent(h) \/ SendResult(h) \/ CloseDone(h) \/ UnlockOSThread(h)
  <2>1. CASE UnhookWinEvent(h)
    BY <2>1 DEF UnhookWinEvent
  <2>2. CASE SendResult(h)
    BY <2>2 DEF SendResult
  <2>3. CASE CloseDone(h)
    BY <2>3 DEF CloseDone
  <2>4. CASE UnlockOSThread(h)
    BY <2>4 DEF UnlockOSThread
  <2>5. QED
    BY <1>6, <2>1, <2>2, <2>3, <2>4
<1>7. QED
  BY <1>1, <1>2, <1>3, <1>4, <1>5, <1>6 DEF Owner, Goroutine

LEMMA ThreadsPart ==
    ASSUME HookInvariant, NEW h \in Hooks, Owner(h) \/ Goroutine(h)
    PROVE  ThreadsDiffer'
<1> USE NoneAssumption DEF HookInvariant, TypeOK, ThreadsDiffer, Holders, HoldingPlaces,
        locals, channels, shared, CallerGoes, Goes
<1>1. CASE Start(h) \/ Close(h) \/ PostQuit(h) \/ PostFails(h)
  BY <1>1 DEF Start, Close, PostQuit, PostFails
<1>2. CASE TakeNotification(h) \/ TakeFailure(h) \/ WaitForDone(h) \/ Collect(h)
  BY <1>2 DEF TakeNotification, TakeFailure, WaitForDone, Collect
<1>3. CASE LockOSThread(h) \/ PeekMessage(h) \/ SetWinEventHook(h) \/ SetWinEventHookFails(h)
  BY <1>3 DEF LockOSThread, PeekMessage, SetWinEventHook, SetWinEventHookFails
<1>4. CASE StoreEntry(h) \/ Ready(h) \/ Dispatch(h)
  BY <1>4 DEF StoreEntry, Ready, Dispatch
<1>5. CASE ReadQuit(h) \/ GetMessageFails(h)
  BY <1>5 DEF ReadQuit, GetMessageFails
<1>6. CASE UnhookWinEvent(h) \/ SendResult(h) \/ CloseDone(h) \/ UnlockOSThread(h)
  BY <1>6 DEF UnhookWinEvent, SendResult, CloseDone, UnlockOSThread
<1>7. QED
  BY <1>1, <1>2, <1>3, <1>4, <1>5, <1>6 DEF Owner, Goroutine

LEMMA QuitsPart ==
    ASSUME HookInvariant, NEW h \in Hooks, Owner(h) \/ Goroutine(h)
    PROVE  QuitsArePosted'
<1> USE NoneAssumption DEF HookInvariant, TypeOK, QuitsArePosted, PlacesMatch, Posted, Opened, BeforeReady, AfterLoop,
        locals, channels, shared, CallerGoes, Goes
<1>1. CASE Start(h) \/ Close(h) \/ PostQuit(h) \/ PostFails(h)
  <2>1. CASE Start(h)
    BY <2>1 DEF Start
  <2>2. CASE Close(h)
    BY <2>2 DEF Close
  <2>3. CASE PostQuit(h)
    BY <2>3 DEF PostQuit
  <2>4. CASE PostFails(h)
    BY <2>4 DEF PostFails
  <2>5. QED
    BY <1>1, <2>1, <2>2, <2>3, <2>4
<1>2. CASE TakeNotification(h) \/ TakeFailure(h) \/ WaitForDone(h) \/ Collect(h)
  BY <1>2 DEF TakeNotification, TakeFailure, WaitForDone, Collect
<1>3. CASE LockOSThread(h) \/ PeekMessage(h) \/ SetWinEventHook(h) \/ SetWinEventHookFails(h)
  BY <1>3 DEF LockOSThread, PeekMessage, SetWinEventHook, SetWinEventHookFails
<1>4. CASE StoreEntry(h) \/ Ready(h) \/ Dispatch(h)
  BY <1>4 DEF StoreEntry, Ready, Dispatch
<1>5. CASE ReadQuit(h) \/ GetMessageFails(h)
  <2>1. CASE ReadQuit(h)
    BY <2>1 DEF ReadQuit
  <2>2. CASE GetMessageFails(h)
    BY <2>2 DEF GetMessageFails
  <2>3. QED
    BY <1>5, <2>1, <2>2
<1>6. CASE UnhookWinEvent(h) \/ SendResult(h) \/ CloseDone(h) \/ UnlockOSThread(h)
  BY <1>6 DEF UnhookWinEvent, SendResult, CloseDone, UnlockOSThread
<1>7. QED
  BY <1>1, <1>2, <1>3, <1>4, <1>5, <1>6 DEF Owner, Goroutine

LEMMA ListenersPart ==
    ASSUME HookInvariant, NEW h \in Hooks, Owner(h) \/ Goroutine(h)
    PROVE  ListenersAreFound'
<1> USE NoneAssumption DEF HookInvariant, TypeOK, ListenersAreFound, HandlesDiffer,
        locals, channels, shared, CallerGoes, Goes
<1>1. CASE Start(h) \/ Close(h) \/ PostQuit(h) \/ PostFails(h)
  BY <1>1 DEF Start, Close, PostQuit, PostFails, PlacesMatch
<1>2. CASE TakeNotification(h) \/ TakeFailure(h) \/ WaitForDone(h) \/ Collect(h)
  BY <1>2 DEF TakeNotification, TakeFailure, WaitForDone, Collect
<1>3. CASE LockOSThread(h) \/ PeekMessage(h) \/ SetWinEventHook(h) \/ SetWinEventHookFails(h)
  BY <1>3 DEF LockOSThread, PeekMessage, SetWinEventHook, SetWinEventHookFails
<1>4. CASE StoreEntry(h) \/ Ready(h) \/ Dispatch(h)
  BY <1>4 DEF StoreEntry, Ready, Dispatch
<1>5. CASE ReadQuit(h) \/ GetMessageFails(h)
  BY <1>5 DEF ReadQuit, GetMessageFails
<1>6. CASE UnhookWinEvent(h) \/ SendResult(h) \/ CloseDone(h) \/ UnlockOSThread(h)
  BY <1>6 DEF UnhookWinEvent, SendResult, CloseDone, UnlockOSThread
<1>7. QED
  BY <1>1, <1>2, <1>3, <1>4, <1>5, <1>6 DEF Owner, Goroutine

(***************************************************************************)
(* A loop that reads the WM_QUIT of another hook has its thread after it:  *)
(* that hook's goroutine ended without reading it, and so for another      *)
(* reason.                                                                 *)
(***************************************************************************)
LEMMA StrayQuitIsExplained ==
    ASSUME HookInvariant, NEW h \in Hooks, NEW g \in Hooks,
           run[h] = "loop", <<threadID[h], g>> \in quits, g # h
    PROVE  \E x \in Hooks : failure[x] # "none"
<1> USE DEF HookInvariant
<1>1. threadID[g] = threadID[h] /\ Posted(g)
  BY DEF QuitsArePosted, ThreadsDiffer, Holders, HoldingPlaces
<1>2. run[g] = "ended"
  <2>1. h \in Holders
    BY DEF Holders, HoldingPlaces
  <2>2. g \notin Holders
    BY <1>1, <2>1 DEF ThreadsDiffer
  <2>3. run[g] \in {"loop"} \cup AfterLoop
    BY <1>1 DEF PlacesMatch, Posted, Opened
  <2>4. QED
    BY <2>2, <2>3 DEF Holders, HoldingPlaces, AfterLoop
<1>3. failure[g] # "none" \/ quitFor[g] # None
  BY <1>1, <1>2 DEF EndsAreExplained, Posted, Opened
<1>4. quitFor[g] # g
  BY NoneAssumption DEF QuitsArePosted, ThreadsDiffer, Holders, HoldingPlaces
<1>5. QED
  BY <1>3, <1>4 DEF EndsAreExplained

LEMMA EndsPart ==
    ASSUME HookInvariant, NEW h \in Hooks, Owner(h) \/ Goroutine(h)
    PROVE  EndsAreExplained'
<1> USE NoneAssumption DEF HookInvariant, TypeOK, EndsAreExplained, PlacesMatch,
        Opened, BeforeReady, AfterLoop, locals, channels, shared, CallerGoes, Goes
<1>1. CASE Start(h) \/ Close(h) \/ PostQuit(h) \/ PostFails(h)
  BY <1>1 DEF Start, Close, PostQuit, PostFails
<1>2. CASE TakeNotification(h) \/ TakeFailure(h) \/ WaitForDone(h) \/ Collect(h)
  BY <1>2 DEF TakeNotification, TakeFailure, WaitForDone, Collect
<1>3. CASE LockOSThread(h) \/ PeekMessage(h) \/ SetWinEventHook(h) \/ SetWinEventHookFails(h)
  BY <1>3 DEF LockOSThread, PeekMessage, SetWinEventHook, SetWinEventHookFails
<1>4. CASE StoreEntry(h) \/ Ready(h) \/ Dispatch(h)
  BY <1>4 DEF StoreEntry, Ready, Dispatch
<1>5. CASE GetMessageFails(h)
  BY <1>5 DEF GetMessageFails
<1>6. CASE UnhookWinEvent(h) \/ SendResult(h) \/ CloseDone(h) \/ UnlockOSThread(h)
  BY <1>6 DEF UnhookWinEvent, SendResult, CloseDone, UnlockOSThread
<1>7. CASE ReadQuit(h)
  <2>1. PICK g \in Hooks : /\ <<threadID[h], g>> \in quits
                          /\ quitFor' = [quitFor EXCEPT ![h] = g]
    BY <1>7 DEF ReadQuit
  <2>2. failure' = failure /\ run[h] = "loop"
    BY <1>7 DEF ReadQuit
  <2>3. ASSUME g # h PROVE \E x \in Hooks : failure[x] # "none"
    BY <2>1, <2>2, <2>3, StrayQuitIsExplained
  <2>4. QED
    BY <1>7, <2>1, <2>2, <2>3 DEF ReadQuit
<1>8. QED
  BY <1>1, <1>2, <1>3, <1>4, <1>5, <1>6, <1>7 DEF Owner, Goroutine

-----------------------------------------------------------------------------
LEMMA InvariantInit == Init => HookInvariant
BY NoneAssumption
   DEF Init, HookInvariant, TypeOK, PlacesMatch, DoneIsTrue, HandlesDiffer,
       EntriesAreLive, ThreadsDiffer, QuitsArePosted, EndsAreExplained,
       ListenersAreFound, Opened, Posted, BeforeReady, AfterLoop, Holders,
       CallerPlaces, RunPlaces, HoldingPlaces

LEMMA InvariantStep == HookInvariant /\ [Next]_hookVars => HookInvariant'
<1> SUFFICES ASSUME HookInvariant, [Next]_hookVars
             PROVE  HookInvariant'
  OBVIOUS
<1>1. ASSUME NEW h \in Hooks, Owner(h) \/ Goroutine(h)
      PROVE  HookInvariant'
  BY <1>1, TypePart, PlacesPart, DonePart, HandlesPart, EntriesPart, ThreadsPart,
     QuitsPart, ListenersPart, EndsPart DEF HookInvariant
<1>2. CASE UNCHANGED hookVars
  BY <1>2 DEF hookVars, locals, channels, shared, HookInvariant, TypeOK,
     PlacesMatch, DoneIsTrue, HandlesDiffer, EntriesAreLive, ThreadsDiffer,
     QuitsArePosted, EndsAreExplained, ListenersAreFound, Opened, Posted, Holders
<1>3. QED
  BY <1>1, <1>2 DEF Next

LEMMA HookIsInvariant == Spec => []HookInvariant
BY InvariantInit, InvariantStep, PTL DEF Spec

(* The variables stay within their types.                                  *)
THEOREM TypeCorrect == Spec => []TypeOK
<1>1. HookInvariant => TypeOK
  BY DEF HookInvariant
<1>2. QED
  BY <1>1, HookIsInvariant, PTL

(***************************************************************************)
(* However many hooks there are, a Close without an error has left none of *)
(* its own behind, neither in Windows nor in the map nor on a thread       *)
(* (hook_windows.go:76-90,117-126).                                        *)
(***************************************************************************)
THEOREM NothingIsLeft == Spec => []CleanCloseLeavesNothing
<1>1. HookInvariant => CleanCloseLeavesNothing
  BY DEF HookInvariant, CleanCloseLeavesNothing, DoneIsTrue, EntriesAreLive
<1>2. QED
  BY <1>1, HookIsInvariant, PTL

(***************************************************************************)
(* A hook does not fall silent for nothing: some loop has failed, its own  *)
(* or that of a hook which had the thread before (hook_windows.go:78-81,   *)
(* 117-123,131-137).                                                       *)
(***************************************************************************)
THEOREM SilenceIsExplained == Spec => []EarlyEndIsExplained
<1>1. HookInvariant => EarlyEndIsExplained
  <2> SUFFICES ASSUME HookInvariant, NEW h \in Hooks, caller[h] = "open",
                      run[h] # "loop", failure[h] = "none"
               PROVE  /\ quitFor[h] \notin {h, None}
                      /\ threadID[quitFor[h]] = threadID[h]
                      /\ \E g \in Hooks \ {h} : failure[g] # "none"
    BY DEF EarlyEndIsExplained
  <2>1. quitFor[h] # None
    BY DEF HookInvariant, EndsAreExplained, Opened
  <2>2. quitFor[h] # h /\ threadID[quitFor[h]] = threadID[h]
    BY <2>1 DEF HookInvariant, QuitsArePosted, Posted
  <2>3. QED
    BY <2>1, <2>2 DEF HookInvariant, EndsAreExplained
<1>2. QED
  BY <1>1, HookIsInvariant, PTL

(***************************************************************************)
(* The callback of a window event finds the hook it is for, or nothing if  *)
(* a predecessor of the same number has taken the entry away, but never    *)
(* another hook (hook_windows.go:114,124-125,160-174).                     *)
(***************************************************************************)
THEOREM EventsFindTheirHook == Spec => []ListenersAreFound
<1>1. HookInvariant => ListenersAreFound
  BY DEF HookInvariant
<1>2. QED
  BY <1>1, HookIsInvariant, PTL
=============================================================================
