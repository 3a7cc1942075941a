------------------------------ MODULE ToolRuntime ------------------------------
(***************************************************************************)
(* The tool runtime on top of the ERP's actions (ErpActions): a tool is     *)
(* requested once per idempotency key, denied, run at once, or run after a  *)
(* human has approved it, and its result goes back to the stage of the      *)
(* business AI that proposed it.                                            *)
(*                                                                          *)
(* A handler runs one request of the API, statement by statement; what it   *)
(* read stays in its memory while other handlers go on, and it may be lost  *)
(* after any statement.  Tools of the ERP and of the ontology run an action *)
(* under a key made of the execution; the others take effect whenever their *)
(* adapter runs.                                                            *)
(*                                                                          *)
(* Not modelled: the governance rules behind a decision and the authority   *)
(* of a reviewer (both are inputs), interface files, tracing, and how the   *)
(* business AI arrives at a proposal.                                       *)
(***************************************************************************)
EXTENDS ErpActions

CONSTANTS
    Requests,    \* tool requests: a tool and an idempotency key
    Proposals,   \* the requests that a stage of the business AI proposes
    LedgerTools, \* the requests of tools that run an action of the ERP
    ApiKeys,     \* idempotency keys of direct calls
    ToolData,    \* the parameters with which tools call actions
    MaxCalls     \* bound: requests of the API

ASSUME ToolAssumption ==
    /\ Proposals \subseteq Requests /\ LedgerTools \subseteq Requests
    /\ Keys = Requests \cup ApiKeys /\ Requests \cap ApiKeys = {}
    /\ ToolData \in Parameters
    /\ MaxCalls \in Nat

VARIABLES
    execution, \* the tool_executions row of each request
    approval,  \* its approval; by: a human has approved it, late: it has expired
    proposal,  \* the proposal's state in the business AI; linked: it knows the execution
    handler,   \* requests of the API under way
    ran,       \* how often the adapter of a tool outside the ERP took effect
    calls      \* requests of the API so far

toolVars == <<actionVars, execution, approval, proposal, handler, ran, calls>>

Terminal == {"completed", "failed", "denied", "rejected"}

ExecutionStatuses == Terminal \cup {"none", "running", "approval_required", "approved"}

Idle == [at |-> "idle", x |-> "none", flow |-> "none", seen |-> "none", pending |-> FALSE,
         late |-> FALSE]

ToolTypeOK ==
    /\ ActionsTypeOK
    /\ execution \in [Requests -> [status : ExecutionStatuses, retry : BOOLEAN,
                                   policy : {"none", "deny", "approve", "auto"}]]
    /\ approval \in [Requests -> [status : {"none", "pending", "approved", "rejected", "expired"},
                                  by : BOOLEAN, late : BOOLEAN]]
    /\ proposal \in [Proposals -> [linked : BOOLEAN,
                                   status : Terminal \cup {"not_submitted", "submitting",
                                                           "approval_required"}]]
    /\ \A h \in Callers : handler[h] = Idle \/
          handler[h] \in [at : {"begin", "insert", "dispatch", "adapter", "notify", "reviewing",
                                "reread", "return", "error"},
                          x : Requests, flow : {"tool", "proposal", "approve", "expire", "reject"},
                          seen : ExecutionStatuses, pending : BOOLEAN, late : BOOLEAN]
    /\ ran \in [Requests -> 0..MaxCalls] /\ calls \in 0..MaxCalls
    \* Who waits for a reviewer has been told so: no approval without its execution.
    /\ \A x \in Requests : approval[x].status # "none" => execution[x].policy = "approve"

ToolInit ==
    /\ ActionsInit
    /\ execution = [x \in Requests |-> [status |-> "none", retry |-> FALSE, policy |-> "none"]]
    /\ approval = [x \in Requests |-> [status |-> "none", by |-> FALSE, late |-> FALSE]]
    /\ proposal = [x \in Proposals |-> [linked |-> FALSE, status |-> "not_submitted"]]
    /\ handler = [h \in Callers |-> Idle]
    /\ ran = [x \in Requests |-> 0]
    /\ calls = 0

\* A handler takes a request of the API.
Take(h) ==
    /\ handler[h].at = "idle" /\ call[h].at = "idle"
    /\ calls < MaxCalls
    /\ calls' = calls + 1

Go(h, at) == handler' = [handler EXCEPT ![h].at = at]

Done(h) == handler' = [handler EXCEPT ![h] = Idle]

------------------------------------------------------------------------------
(* Requesting a tool *)

ExecuteTool(h, x) ==
    /\ Take(h) /\ x \notin Proposals
    /\ handler' = [handler EXCEPT ![h] = [Idle EXCEPT !.at = "insert", !.x = x, !.flow = "tool"]]
    /\ UNCHANGED <<actionVars, execution, approval, proposal, ran>>

\* A proposal that has its execution is only shown.
SubmitProposal(h, x) ==
    /\ Take(h) /\ ~proposal[x].linked
    /\ handler' = [handler EXCEPT ![h] =
                      [Idle EXCEPT !.at = "begin", !.x = x, !.flow = "proposal"]]
    /\ UNCHANGED <<actionVars, execution, approval, proposal, ran>>

\* One submission at a time; the others are told of a conflict.
BeginProposalSubmission(h) ==
    LET x == handler[h].x IN
    /\ handler[h].at = "begin"
    /\ IF proposal[x].status \in {"not_submitted", "failed"}
       THEN proposal' = [proposal EXCEPT ![x].status = "submitting"] /\ Go(h, "insert")
       ELSE Done(h) /\ UNCHANGED proposal
    /\ UNCHANGED <<actionVars, execution, approval, ran, calls>>

\* Proposals and the tools of the ERP always need an approval, unless they are denied.
Policies(x) ==
    {"deny", "approve"} \cup (IF x \in Proposals \cup LedgerTools THEN {} ELSE {"auto"})

StatusOf(policy) ==
    CASE policy = "deny" -> "denied" [] policy = "approve" -> "approval_required"
      [] policy = "auto" -> "running"

\* Mutant: an execution that exists is dispatched again.
CreateOrRunAgain(h) ==
    LET x == handler[h].x IN
    /\ handler[h].at = "insert"
    /\ IF execution[x].status = "none"
       THEN \E policy \in Policies(x), retry \in BOOLEAN :
               /\ execution' = [execution EXCEPT ![x] =
                                   [status |-> StatusOf(policy), retry |-> retry,
                                    policy |-> policy]]
               /\ Go(h, "dispatch")
       ELSE Go(h, "adapter") /\ UNCHANGED execution
    /\ UNCHANGED <<actionVars, approval, proposal, ran, calls>>

\* The first request makes the row; a later one is answered with the row as it is.
CreateExecution(h) ==
    LET x == handler[h].x IN
    /\ handler[h].at = "insert"
    /\ IF execution[x].status = "none"
       THEN \E policy \in Policies(x), retry \in BOOLEAN :
               /\ execution' = [execution EXCEPT ![x] =
                                   [status |-> StatusOf(policy), retry |-> retry,
                                    policy |-> policy]]
               /\ Go(h, "dispatch")
       ELSE /\ handler' = [handler EXCEPT ![h].at = "return", ![h].seen = execution[x].status]
            /\ UNCHANGED execution
    /\ UNCHANGED <<actionVars, approval, proposal, ran, calls>>

\* Mutant: an approval is asked for whatever was decided.
DispatchToReview(h) ==
    LET x == handler[h].x IN
    /\ handler[h].at = "dispatch"
    /\ approval' = [approval EXCEPT ![x].status = "pending"]
    /\ handler' = [handler EXCEPT ![h].at = "return", ![h].seen = execution[x].status]
    /\ UNCHANGED <<actionVars, execution, proposal, ran, calls>>

\* Whoever made the row denies it, asks for an approval (which may fail), or runs it.
Dispatch(h) ==
    LET x == handler[h].x IN
    /\ handler[h].at = "dispatch"
    /\ \/ /\ execution[x].policy = "deny"
          /\ execution' = [execution EXCEPT ![x].status = "denied"]
          /\ handler' = [handler EXCEPT ![h].at = "notify", ![h].seen = "denied"]
          /\ UNCHANGED approval
       \/ /\ execution[x].policy = "approve"
          /\ \/ /\ approval' = [approval EXCEPT ![x].status = "pending"]
                /\ handler' = [handler EXCEPT ![h].at = "return", ![h].seen = "approval_required"]
             \/ Go(h, "error") /\ UNCHANGED approval
          /\ UNCHANGED execution
       \/ /\ execution[x].policy = "auto"
          /\ Go(h, "adapter")
          /\ UNCHANGED <<execution, approval>>
    /\ UNCHANGED <<actionVars, proposal, ran, calls>>

proposalStatus(status) ==
    CASE status \in {"approval_required", "approved", "running"} -> "approval_required"
      [] status \in Terminal -> status
      [] OTHER -> "submitting"

\* The business AI links the execution, with the status it was answered with.
LinkProposalExecution(h) ==
    LET x == handler[h].x IN
    /\ handler[h].at = "return"
    /\ proposal' = IF handler[h].flow = "proposal"
                   THEN [proposal EXCEPT ![x] = [linked |-> TRUE,
                                                 status |-> proposalStatus(handler[h].seen)]]
                   ELSE proposal
    /\ Done(h)
    /\ UNCHANGED <<actionVars, execution, approval, ran, calls>>

FailProposalSubmission(h) ==
    /\ handler[h].at = "error"
    /\ proposal' = IF handler[h].flow = "proposal"
                   THEN [proposal EXCEPT ![handler[h].x].status = "failed"] ELSE proposal
    /\ Done(h)
    /\ UNCHANGED <<actionVars, execution, approval, ran, calls>>

------------------------------------------------------------------------------
(* Review *)

\* Approval and execution are read: a pending approval, or one given before.
Review(h, x, flow) ==
    /\ Take(h) /\ approval[x].status \in {"pending", "approved"}
    /\ handler' = [handler EXCEPT ![h] =
                      [at |-> "reviewing", x |-> x, flow |-> flow, seen |-> execution[x].status,
                       pending |-> approval[x].status = "pending", late |-> approval[x].late]]
    /\ UNCHANGED <<actionVars, execution, approval, proposal, ran>>

\* One transaction sets both rows, whatever they have become since they were read.
UpdateApproval(h, status, executionStatus) ==
    LET x == handler[h].x IN
    /\ approval' = [approval EXCEPT ![x].status = status, ![x].by = @ \/ status = "approved"]
    /\ execution' = [execution EXCEPT ![x].status = executionStatus]

\* An execution that is over is only shown; any other one is run.
ApprovedOutput(h, seen) == IF seen \in Terminal THEN Done(h) ELSE Go(h, "adapter")

\* The time is looked at once, after the rows were read and before they are written.
Approve(h) ==
    /\ handler[h].at = "reviewing" /\ handler[h].flow = "approve"
    /\ \/ /\ ~handler[h].pending
          /\ ApprovedOutput(h, handler[h].seen)
          /\ UNCHANGED <<execution, approval>>
       \/ /\ handler[h].pending /\ approval[handler[h].x].late
          /\ UpdateApproval(h, "expired", "failed")
          /\ handler' = [handler EXCEPT ![h].at = "reread", ![h].flow = "expire"]
       \/ /\ handler[h].pending /\ ~handler[h].late
          /\ UpdateApproval(h, "approved", "approved")
          /\ Go(h, "reread")
    /\ UNCHANGED <<actionVars, proposal, ran, calls>>

Reject(h) ==
    /\ handler[h].at = "reviewing" /\ handler[h].flow = "reject"
    /\ UpdateApproval(h, "rejected", "rejected")
    /\ Go(h, "reread")
    /\ UNCHANGED <<actionVars, proposal, ran, calls>>

RereadExecution(h) ==
    LET status == execution[handler[h].x].status IN
    /\ handler[h].at = "reread"
    /\ IF handler[h].flow = "approve"
       THEN ApprovedOutput(h, status)
       ELSE handler' = [handler EXCEPT ![h].at = "notify", ![h].seen = status]
    /\ UNCHANGED <<actionVars, execution, approval, proposal, ran, calls>>

\* Twenty-four hours have passed.
ApprovalLapses(x) ==
    /\ approval[x].status # "none" /\ ~approval[x].late
    /\ approval' = [approval EXCEPT ![x].late = TRUE]
    /\ UNCHANGED <<actionVars, execution, proposal, handler, ran, calls>>

------------------------------------------------------------------------------
(* Running the adapter *)

\* The adapter calls the ERP under the key of the execution.
RunLedgerAdapter(h) ==
    LET x == handler[h].x IN
    /\ handler[h].at = "adapter" /\ x \in LedgerTools
    /\ CallAction(h, x, ToolData, execution[x].retry)
    /\ UNCHANGED <<audit, effects, told, execution, approval, proposal, handler, ran, calls>>

\* CompleteExecution writes over whatever status the row has, or fails.
Complete(h, ok) ==
    LET status == IF ok THEN "completed" ELSE "failed" IN
    \/ /\ execution' = [execution EXCEPT ![handler[h].x].status = status]
       /\ handler' = [handler EXCEPT ![h].at = "notify", ![h].seen = status]
    \/ Go(h, "error") /\ UNCHANGED execution

\* The ERP has answered.
CompleteLedgerAdapter(h) ==
    /\ handler[h].at = "adapter" /\ call[h].at = "answered"
    /\ Complete(h, call[h].ok)
    /\ call' = [call EXCEPT ![h] = NoCall]
    /\ UNCHANGED <<audit, effects, told, approval, proposal, ran, calls>>

\* Any other adapter takes effect or fails, or fails after it took effect.
RunOtherAdapter(h) ==
    LET x == handler[h].x IN
    /\ handler[h].at = "adapter" /\ x \notin LedgerTools
    /\ \/ /\ ran' = [ran EXCEPT ![x] = @ + 1]
          /\ \E ok \in BOOLEAN : Complete(h, ok)
       \/ Complete(h, FALSE) /\ UNCHANGED ran
    /\ UNCHANGED <<actionVars, approval, proposal, calls>>

\* The business AI is told; it knows only executions it has linked.
ToolExecutionUpdated(h) ==
    LET x == handler[h].x IN
    /\ handler[h].at = "notify"
    /\ \/ /\ proposal' = IF x \in Proposals /\ proposal[x].linked
                         THEN [proposal EXCEPT ![x].status = proposalStatus(handler[h].seen)]
                         ELSE proposal
          /\ IF handler[h].flow = "proposal" THEN Go(h, "return") ELSE Done(h)
       \/ Go(h, "error") /\ UNCHANGED proposal
    /\ UNCHANGED <<actionVars, execution, approval, ran, calls>>

\* The server dies, or the client is gone.
HandlerLost(h) ==
    /\ handler[h].at # "idle"
    /\ Done(h)
    /\ call' = [call EXCEPT ![h] = NoCall]
    /\ UNCHANGED <<audit, effects, told, execution, approval, proposal, ran, calls>>

ToolStep(h) ==
    \/ \E x \in Requests : \/ ExecuteTool(h, x)
                           \/ \E flow \in {"approve", "reject"} : Review(h, x, flow)
    \/ \E x \in Proposals : SubmitProposal(h, x)
    \/ BeginProposalSubmission(h) \/ CreateExecution(h) \/ Dispatch(h)
    \/ LinkProposalExecution(h) \/ FailProposalSubmission(h)
    \/ Approve(h) \/ Reject(h) \/ RereadExecution(h)
    \/ RunLedgerAdapter(h) \/ CompleteLedgerAdapter(h) \/ RunOtherAdapter(h)
    \/ ToolExecutionUpdated(h) \/ HandlerLost(h)

\* A direct call of the ERP.
DirectCall(h) ==
    /\ Take(h)
    /\ \E k \in ApiKeys, data \in Parameters, retry \in BOOLEAN : CallAction(h, k, data, retry)
    /\ UNCHANGED <<audit, effects, told, execution, approval, proposal, handler, ran>>

\* The transactions of a call, made by an adapter or directly, and its answer.
ActionStep(h) ==
    /\ \/ ActionTransaction(h)
       \/ RecordFailure(h)
       \/ handler[h].at = "idle" /\ (TakeAnswer(h) \/ CallLost(h))
    /\ UNCHANGED <<execution, approval, proposal, handler, ran, calls>>

ToolNext ==
    \/ \E h \in Callers : ToolStep(h) \/ DirectCall(h) \/ ActionStep(h)
    \/ \E x \in Requests : ApprovalLapses(x)

ToolSpec == ToolInit /\ [][ToolNext]_toolVars

------------------------------------------------------------------------------
Happened(x) == effects[<<x, ToolData>>] > 0 \/ ran[x] > 0

\* "Submission always forces approval": a tool under approval takes effect only after
\* a human approved it in time, and a denied one never, whatever is requested again,
\* expires, or is approved and rejected at once.
EffectWasApproved ==
    \A x \in Requests : Happened(x) =>
        \/ execution[x].policy = "auto"
        \/ execution[x].policy = "approve" /\ approval[x].by

\* Nobody is told of a success that did not happen: not the caller of the API about
\* the parameters it sent, not the execution, not the proposal of the business AI.
SuccessIsTrue ==
    /\ \A kd \in told : effects[kd] > 0
    /\ \A x \in Requests : execution[x].status = "completed" => Happened(x)
    /\ \A x \in Proposals : proposal[x].status = "completed" => Happened(x)
==============================================================================
