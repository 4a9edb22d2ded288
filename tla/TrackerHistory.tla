-------------------------- MODULE TrackerHistory ---------------------------
(***************************************************************************)
(* The tracker fed with every sequence of snapshots, compared with what    *)
(* the whole history says.                                                 *)
(***************************************************************************)
EXTENDS CandidateTracker, Sequences

CONSTANT MaxHistory    \* bound on the length of the history

VARIABLE history       \* the new windows of every snapshot observed

historyVars == <<trackerVars, history>>

HistoryInit ==
    /\ baseline \in SUBSET Windows
    /\ firstSeen = [w \in {} |-> 0]
    /\ candidates = {}
    /\ generation = 0
    /\ lastDisappeared = 0
    /\ replaced = FALSE
    /\ concurrent = FALSE
    /\ history = <<>>

HistoryNext ==
    /\ Len(history) < MaxHistory
    /\ \E snapshot \in SUBSET Windows :
           /\ Observe(snapshot)
           /\ history' = Append(history, snapshot \ baseline)

HistorySpec == HistoryInit /\ [][HistoryNext]_historyVars

-----------------------------------------------------------------------------
Times == 1 .. Len(history)
SeenAt(w) == {t \in Times : w \in history[t]}
FirstTime(w) == CHOOSE t \in SeenAt(w) : \A u \in SeenAt(w) : t <= u
Ever == {w \in Windows : SeenAt(w) # {}}

(* The windows that some snapshot up to time t no longer showed.           *)
GoneBy(t) == {w \in Ever : \E u \in 2 .. t : w \in history[u - 1] \ history[u]}

(* Some snapshot showed a window younger than everything gone by then.     *)
ReplacementIn ==
    \E t \in Times : \E w \in history[t] :
        GoneBy(t) # {} /\ \A v \in GoneBy(t) : FirstTime(v) < FirstTime(w)

(***************************************************************************)
(* The incremental bookkeeping of observe (service.go:133-174) answers the *)
(* same as the history of all snapshots: a choice is made exactly when the *)
(* last snapshot has one new window and some snapshot showed a window      *)
(* younger than every one gone by then; a timeout is explained by what was *)
(* ever seen and what is left.                                             *)
(***************************************************************************)
TrackerAgreesWithHistory ==
    LET left == IF history = <<>> THEN {} ELSE history[Len(history)]
        crowded == \E t \in Times : Cardinality(history[t]) > 1
    IN  /\ \A w \in Windows : IsChoice(w) <=> left = {w} /\ ReplacementIn
        /\ TimeoutOutcome = IF left = {} /\ Ever # {} THEN "candidate_lost"
                            ELSE IF crowded THEN "ambiguous" ELSE "timed_out"
=============================================================================
