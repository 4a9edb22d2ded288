-------------------------- MODULE WorkflowContract --------------------------
(***************************************************************************)
(* What the launch service relies on from Workflow.Run: one answer, which  *)
(* names a failure exactly when there is one and speaks the truth about    *)
(* the context; and an answer soon after the context has ended.            *)
(***************************************************************************)
EXTENDS OperationModel

VARIABLES
    ctx,    \* ctx.Err() of the operation's context
    answer  \* {} or {the WorkflowResult}

contractVars == <<ctx, answer>>

Promised(result, err) ==
    /\ result.code # "none" <=> result.outcome \in {"failed", "invalid"}
    /\ AgreesWithContext(result, err)

Init == ctx = "live" /\ answer = {}

ContextEnds ==
    /\ ctx = "live"
    /\ ctx' \in {"canceled", "deadline"}
    /\ UNCHANGED answer

Answer ==
    /\ answer = {}
    /\ \E result \in WorkflowResultType :
           Promised(result, ctx) /\ answer' = {result}
    /\ UNCHANGED ctx

Spec == Init /\ [][ContextEnds \/ Answer]_contractVars
             /\ WF_contractVars(ctx # "live" /\ Answer)
=============================================================================
