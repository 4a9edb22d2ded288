------------------------------ MODULE Registry ------------------------------
(***************************************************************************)
(* The Registry: the latest operation and the counter its ID comes from.   *)
(* Each method changes the record inside one critical section of r.mu, so  *)
(* each is one step here; the context it cancels after unlocking is a      *)
(* separate step of the caller (LaunchService).  The guards below are the  *)
(* methods' error returns: a refused call changes nothing.                 *)
(***************************************************************************)
EXTENDS OperationModel

VARIABLES
    sequence,  \* r.sequence
    current    \* r.current.snapshot, NoSnapshot while r.current is nil

registryVars == <<sequence, current>>

RegistryTypeOK ==
    /\ sequence \in Nat
    /\ current \in Snapshots \cup {NoSnapshot}

NewRegistry ==
    /\ sequence = 0
    /\ current = NoSnapshot

InProgress == current.state \in ActiveStates

(* Mutant: the ID is taken before the counter is advanced.                 *)
RegistryStartBeforeIncrement ==
    /\ ~InProgress
    /\ sequence' = sequence + 1
    /\ current' = SnapshotOf(sequence, "starting", "none")

RegistryStart ==
    /\ ~InProgress
    /\ sequence' = sequence + 1
    /\ current' = SnapshotOf(sequence + 1, "starting", "none")

RegistryTransition(id, next) ==
    /\ current.id = id
    /\ CanTransition(current.state, next)
    /\ current' = [current EXCEPT !.state = next]
    /\ UNCHANGED sequence

(***************************************************************************)
(* Finish replaces whatever it was asked for by "cancelled" once a         *)
(* cancellation has been accepted.                                         *)
(***************************************************************************)
(* Mutant: the error code of the beaten result is kept.                    *)
ResolutionKeepingCode(terminal, code) ==
    IF current.state = "cancelling"
    THEN [state |-> "cancelled", code |-> code]
    ELSE [state |-> terminal, code |-> code]

Resolution(terminal, code) ==
    IF current.state = "cancelling"
    THEN [state |-> "cancelled", code |-> "none"]
    ELSE [state |-> terminal, code |-> code]

CanFinish(id, terminal, code) ==
    /\ current.id = id
    /\ CanTransition(current.state, Resolution(terminal, code).state)

(* Mutant: the requested state is stored although cancellation won.        *)
RegistryFinishAsAsked(id, terminal, code) ==
    /\ CanFinish(id, terminal, code)
    /\ current' = SnapshotOf(id, terminal, code)
    /\ UNCHANGED sequence

RegistryFinish(id, terminal, code) ==
    /\ CanFinish(id, terminal, code)
    /\ current' = SnapshotOf(id, Resolution(terminal, code).state,
                                 Resolution(terminal, code).code)
    /\ UNCHANGED sequence

CanCancel(id) ==
    /\ current.id = id
    /\ current.state \in {"starting", "running"}

(* Mutant: the operation is declared cancelled at once.                    *)
RegistryCancelAtOnce(id) ==
    /\ CanCancel(id)
    /\ current' = [current EXCEPT !.state = "cancelled"]
    /\ UNCHANGED sequence

RegistryCancel(id) ==
    /\ CanCancel(id)
    /\ current' = [current EXCEPT !.state = "cancelling"]
    /\ UNCHANGED sequence
=============================================================================
