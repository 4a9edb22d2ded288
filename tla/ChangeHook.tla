----------------------------- MODULE ChangeHook -----------------------------
(***************************************************************************)
(* The WinEvent hooks of hook_windows.go: each is a goroutine locked to a  *)
(* thread with a message loop, and a caller that starts and closes it.     *)
(* There may be several, because a workflow that outlives its operation    *)
(* closes its hook while the next operation starts another.                *)
(*                                                                         *)
(* What they share outlives each of them: the threads, which go back to Go *)
(* with their message queues; the numbers Windows gives to hooks; and the  *)
(* map winEventHooks from those numbers to hooks.                          *)
(***************************************************************************)
EXTENDS Integers

CONSTANTS
    Hooks,    \* the hooks ever started
    Threads,  \* the threads Go runs goroutines on
    Handles,  \* the numbers Windows gives to installed hooks
    None      \* no hook, no thread, no handle

ASSUME NoneAssumption == None \notin Hooks \cup Threads \cup Handles

VARIABLES
    caller,     \* where the goroutine that owns the hook is
    run,        \* where the hook's own goroutine is
    threadID,   \* h.threadID
    handle,     \* hookHandle
    notified,   \* h.notifications is full
    failure,    \* loopErr: "none", "pending" in h.failures, or "taken" from it
    result,     \* h.result: "empty", "ok" or "error"
    done,       \* h.done is closed
    closeErr,   \* h.closeErr # nil
    entry,      \* winEventHooks: {} or {hook} for each handle
    queues,     \* the threads that have a message queue
    quits,      \* the WM_QUIT messages in them: <<thread, hook posted for>>
    installed,  \* the hooks Windows has installed
    quitFor     \* auxiliary: for which hook the WM_QUIT read was posted

locals   == <<threadID, handle, closeErr, quitFor>>
channels == <<notified, failure, result, done>>
shared   == <<entry, queues, quits, installed>>
hookVars == <<caller, run, locals, channels, shared>>

CallerPlaces == {"idle", "starting", "refused", "open", "posting", "waiting",
                 "collect", "closed"}
HoldingPlaces == {"locked", "queued", "refusing", "storing", "telling", "loop",
                  "unhook", "delete", "close", "unlock"}
RunPlaces == {"none", "go", "ended"} \cup HoldingPlaces

TypeOK ==
    /\ caller \in [Hooks -> CallerPlaces]
    /\ run \in [Hooks -> RunPlaces]
    /\ threadID \in [Hooks -> Threads \cup {None}]
    /\ handle \in [Hooks -> Handles \cup {None}]
    /\ notified \in [Hooks -> BOOLEAN]
    /\ failure \in [Hooks -> {"none", "pending", "taken"}]
    /\ result \in [Hooks -> {"empty", "ok", "error"}]
    /\ done \in [Hooks -> BOOLEAN]
    /\ closeErr \in [Hooks -> BOOLEAN]
    /\ entry \in [Handles -> SUBSET Hooks]
    /\ queues \subseteq Threads
    /\ quits \subseteq Threads \X Hooks
    /\ installed \subseteq Hooks
    /\ quitFor \in [Hooks -> Hooks \cup {None}]

Init ==
    /\ caller = [h \in Hooks |-> "idle"]
    /\ run = [h \in Hooks |-> "none"]
    /\ threadID = [h \in Hooks |-> None]
    /\ handle = [h \in Hooks |-> None]
    /\ notified = [h \in Hooks |-> FALSE]
    /\ failure = [h \in Hooks |-> "none"]
    /\ result = [h \in Hooks |-> "empty"]
    /\ done = [h \in Hooks |-> FALSE]
    /\ closeErr = [h \in Hooks |-> FALSE]
    /\ entry = [k \in Handles |-> {}]
    /\ queues = {} /\ quits = {} /\ installed = {}
    /\ quitFor = [h \in Hooks |-> None]

-----------------------------------------------------------------------------
(***************************************************************************)
(* The owner: startChangeHook, the selects of Observation.Next, Close.     *)
(***************************************************************************)
CallerGoes(h, from, to) ==
    /\ caller[h] = from
    /\ caller' = [caller EXCEPT ![h] = to]

Start(h) ==
    /\ CallerGoes(h, "idle", "starting")
    /\ run' = [run EXCEPT ![h] = "go"]
    /\ UNCHANGED <<locals, channels, shared>>

TakeNotification(h) ==
    /\ caller[h] = "open"
    /\ notified[h]
    /\ notified' = [notified EXCEPT ![h] = FALSE]
    /\ UNCHANGED <<caller, run, locals, failure, result, done, shared>>

TakeFailure(h) ==
    /\ caller[h] = "open"
    /\ failure[h] = "pending"
    /\ failure' = [failure EXCEPT ![h] = "taken"]
    /\ UNCHANGED <<caller, run, locals, notified, result, done, shared>>

(***************************************************************************)
(* Close looks whether the goroutine has ended, and posts if it has not:   *)
(* it may end in between.  The post itself may fail.                       *)
(***************************************************************************)
Close(h) ==
    /\ CallerGoes(h, "open", IF done[h] THEN "collect" ELSE "posting")
    /\ UNCHANGED <<run, locals, channels, shared>>

PostQuit(h) ==
    /\ CallerGoes(h, "posting", "waiting")
    /\ threadID[h] \in queues
    /\ quits' = quits \cup {<<threadID[h], h>>}
    /\ UNCHANGED <<run, locals, channels, entry, queues, installed>>

PostFails(h) ==
    /\ CallerGoes(h, "posting", "closed")
    /\ closeErr' = [closeErr EXCEPT ![h] = TRUE]
    /\ UNCHANGED <<run, threadID, handle, quitFor, channels, shared>>

WaitForDone(h) ==
    /\ CallerGoes(h, "waiting", "collect")
    /\ done[h]
    /\ UNCHANGED <<run, locals, channels, shared>>

Collect(h) ==
    /\ CallerGoes(h, "collect", "closed")
    /\ result[h] # "empty"
    /\ closeErr' = [closeErr EXCEPT ![h] = @ \/ result[h] = "error"]
    /\ result' = [result EXCEPT ![h] = "empty"]
    /\ UNCHANGED <<run, threadID, handle, quitFor, notified, failure, done, shared>>

-----------------------------------------------------------------------------
(***************************************************************************)
(* The hook's goroutine: a thread, a message queue, the hook itself, its   *)
(* entry in the map, and only then word to the caller.                     *)
(***************************************************************************)
Goes(h, from, to) ==
    /\ run[h] = from
    /\ run' = [run EXCEPT ![h] = to]

Holders == {h \in Hooks : run[h] \in HoldingPlaces}

(* Mutant: the thread is locked, but its ID is not kept.                   *)
LockOSThreadUnnamed(h) ==
    /\ Goes(h, "go", "locked")
    /\ UNCHANGED <<caller, locals, channels, shared>>

LockOSThread(h) ==
    /\ Goes(h, "go", "locked")
    /\ \E t \in Threads \ {threadID[g] : g \in Holders} :
           threadID' = [threadID EXCEPT ![h] = t]
    /\ UNCHANGED <<caller, handle, closeErr, quitFor, channels, shared>>

PeekMessage(h) ==
    /\ Goes(h, "locked", "queued")
    /\ queues' = queues \cup {threadID[h]}
    /\ UNCHANGED <<caller, locals, channels, entry, quits, installed>>

SetWinEventHook(h) ==
    /\ Goes(h, "queued", "storing")
    /\ \E k \in Handles \ {handle[g] : g \in installed} :
           handle' = [handle EXCEPT ![h] = k]
    /\ installed' = installed \cup {h}
    /\ UNCHANGED <<caller, threadID, closeErr, quitFor, channels, entry, queues, quits>>

SetWinEventHookFails(h) ==
    /\ Goes(h, "queued", "refusing")
    /\ UNCHANGED <<caller, locals, channels, shared>>

(* Mutant: the entry is only added to a map that has none yet.             *)
LoadOrStoreEntry(h) ==
    /\ Goes(h, "storing", "telling")
    /\ entry' = [entry EXCEPT ![handle[h]] = IF @ = {} THEN {h} ELSE @]
    /\ UNCHANGED <<caller, locals, channels, queues, quits, installed>>

StoreEntry(h) ==
    /\ Goes(h, "storing", "telling")
    /\ entry' = [entry EXCEPT ![handle[h]] = {h}]
    /\ UNCHANGED <<caller, locals, channels, queues, quits, installed>>

Ready(h) ==
    /\ \/ Goes(h, "telling", "loop") /\ CallerGoes(h, "starting", "open")
       \/ Goes(h, "refusing", "close") /\ CallerGoes(h, "starting", "refused")
    /\ UNCHANGED <<locals, channels, shared>>

-----------------------------------------------------------------------------
(***************************************************************************)
(* GetMessage: a window event is dispatched, WM_QUIT is read, or it fails. *)
(* Events come to the thread that installed the hook; one that comes while *)
(* no loop runs there waits, and is the same as a later one.               *)
(***************************************************************************)
Dispatch(h) ==
    /\ run[h] = "loop"
    /\ \E g \in installed :
           /\ threadID[g] = threadID[h]
           /\ notified' = [x \in Hooks |-> notified[x] \/ x \in entry[handle[g]]]
    /\ UNCHANGED <<caller, run, locals, failure, result, done, shared>>

ReadQuit(h) ==
    /\ Goes(h, "loop", "unhook")
    /\ \E g \in Hooks :
           /\ <<threadID[h], g>> \in quits
           /\ quits' = quits \ {<<threadID[h], g>>}
           /\ quitFor' = [quitFor EXCEPT ![h] = g]
    /\ UNCHANGED <<caller, threadID, handle, closeErr, channels, entry, queues,
                   installed>>

(* Mutant: a failure of GetMessage is taken for WM_QUIT.                   *)
GetMessageFailsSilently(h) ==
    /\ Goes(h, "loop", "unhook")
    /\ UNCHANGED <<caller, locals, channels, shared>>

GetMessageFails(h) ==
    /\ Goes(h, "loop", "unhook")
    /\ failure' = [failure EXCEPT ![h] = "pending"]
    /\ UNCHANGED <<caller, locals, notified, result, done, shared>>

-----------------------------------------------------------------------------
(***************************************************************************)
(* The way out: uninstall the hook, forget it, leave the result, tell that *)
(* all is done, give the thread back.                                      *)
(***************************************************************************)
UnhookWinEvent(h) ==
    /\ Goes(h, "unhook", "delete")
    /\ installed' \in {installed \ {h}, installed}
    /\ UNCHANGED <<caller, locals, channels, entry, queues, quits>>

(* Mutant: the result tells of the loop only.                              *)
SendLoopResult(h) ==
    /\ Goes(h, "delete", "close")
    /\ entry' = [entry EXCEPT ![handle[h]] = {}]
    /\ result' = [result EXCEPT ![h] = IF failure[h] # "none" THEN "error" ELSE "ok"]
    /\ UNCHANGED <<caller, locals, notified, failure, done, queues, quits, installed>>

SendResult(h) ==
    /\ Goes(h, "delete", "close")
    /\ entry' = [entry EXCEPT ![handle[h]] = {}]
    /\ result' = [result EXCEPT ![h] =
                      IF failure[h] # "none" \/ h \in installed THEN "error" ELSE "ok"]
    /\ UNCHANGED <<caller, locals, notified, failure, done, queues, quits, installed>>

(* Mutant: done is left open after a failure.                              *)
CloseDoneIfClean(h) ==
    /\ Goes(h, "close", "unlock")
    /\ done' = [done EXCEPT ![h] = failure[h] = "none"]
    /\ UNCHANGED <<caller, locals, notified, failure, result, shared>>

CloseDone(h) ==
    /\ Goes(h, "close", "unlock")
    /\ done' = [done EXCEPT ![h] = TRUE]
    /\ UNCHANGED <<caller, locals, notified, failure, result, shared>>

UnlockOSThread(h) ==
    /\ Goes(h, "unlock", "ended")
    /\ UNCHANGED <<caller, locals, channels, shared>>

-----------------------------------------------------------------------------
Owner(h) ==
    \/ Start(h) \/ TakeNotification(h) \/ TakeFailure(h)
    \/ Close(h) \/ PostQuit(h) \/ PostFails(h) \/ WaitForDone(h) \/ Collect(h)

Goroutine(h) ==
    \/ LockOSThread(h) \/ PeekMessage(h)
    \/ SetWinEventHook(h) \/ SetWinEventHookFails(h) \/ StoreEntry(h) \/ Ready(h)
    \/ Dispatch(h) \/ ReadQuit(h) \/ GetMessageFails(h)
    \/ UnhookWinEvent(h) \/ SendResult(h) \/ CloseDone(h) \/ UnlockOSThread(h)

Next == \E h \in Hooks : Owner(h) \/ Goroutine(h)

Spec == Init /\ [][Next]_hookVars

(***************************************************************************)
(* The goroutines run.  Nothing makes an owner start or close a hook, but  *)
(* a Close that has begun goes on, and a message loop comes to the WM_QUIT *)
(* that has been posted to it, whatever other messages there are.          *)
(***************************************************************************)
FairSpec ==
    /\ Spec
    /\ \A h \in Hooks :
           /\ WF_hookVars(PostQuit(h) \/ PostFails(h))
           /\ WF_hookVars(WaitForDone(h) \/ Collect(h))
           /\ WF_hookVars(ReadQuit(h))
           /\ WF_hookVars(run[h] # "loop" /\ Goroutine(h))

-----------------------------------------------------------------------------
(***************************************************************************)
(* A Close that returns no error has left nothing behind: Windows has      *)
(* uninstalled the hook, nobody finds it in the map any more, and its      *)
(* goroutine is only about to give its thread back (hook_windows.go:76-90, *)
(* 117-126).                                                               *)
(***************************************************************************)
CleanCloseLeavesNothing ==
    \A h \in Hooks : caller[h] = "closed" /\ ~closeErr[h] =>
        /\ h \notin installed
        /\ \A k \in Handles : h \notin entry[k]
        /\ run[h] \in {"unlock", "ended"}

(***************************************************************************)
(* A hook that has stopped listening before its owner closed it has        *)
(* reported a failure, or has read a WM_QUIT meant for a hook that had its *)
(* thread before: one that was posted although the loop of that hook had   *)
(* already ended, and so some loop has failed (hook_windows.go:78-81,117-  *)
(* 123,131-137).                                                           *)
(***************************************************************************)
EarlyEndIsExplained ==
    \A h \in Hooks :
        caller[h] = "open" /\ run[h] # "loop" =>
            \/ failure[h] # "none"
            \/ /\ quitFor[h] \notin {h, None}
               /\ threadID[quitFor[h]] = threadID[h]
               /\ \E g \in Hooks \ {h} : failure[g] # "none"

(***************************************************************************)
(* The events of a listening hook find it in the map and never another     *)
(* one.  They may find nothing only if Windows has given it the number of  *)
(* a hook that was just being closed, which then removed the entry of its  *)
(* successor (hook_windows.go:114,124-125).                                *)
(***************************************************************************)
ListenersAreFound ==
    \A h \in Hooks : run[h] \in {"telling", "loop"} =>
        \/ entry[handle[h]] = {h}
        \/ /\ entry[handle[h]] = {}
           /\ \E g \in Hooks \ {h} :
                  handle[g] = handle[h] /\ run[g] \in {"close", "unlock", "ended"}

(***************************************************************************)
(* Close returns: the thread it posts to has a message queue, and whatever *)
(* ends the loop, the goroutine comes to close done with its result sent   *)
(* (hook_windows.go:76-99,117-126).                                        *)
(***************************************************************************)
CloseReturns ==
    \A h \in Hooks :
        caller[h] \in {"posting", "waiting", "collect"} ~> caller[h] = "closed"
=============================================================================
