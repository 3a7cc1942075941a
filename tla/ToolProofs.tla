------------------------------ MODULE ToolProofs ------------------------------
(***************************************************************************)
(* Proofs about ErpActions and ToolRuntime, for any number of handlers,     *)
(* requests, proposals, keys and parameters.                                *)
(*                                                                          *)
(* What makes the properties inductive is what a handler remembers: why it  *)
(* may run the adapter, whose call to the ERP it waits for, and what it is  *)
(* about to tell.  All of that stays true because an execution never loses  *)
(* its policy, a request its approval, and nothing that happened is undone. *)
(*                                                                          *)
(* That a request runs its adapter no more often than it came in is a       *)
(* count: the runs so far and the handlers that may still run one.          *)
(***************************************************************************)
EXTENDS ToolRuntime, FiniteSetTheorems, TLAPS

AuditRows == [status : {"none", "failed", "completed"}, data : Parameters \cup {"none"}]
CallRows == [at : {"idle", "called", "failing", "answered"}, key : Keys \cup {"none"},
             data : Parameters \cup {"none"}, retry : BOOLEAN, ok : BOOLEAN]
ExecutionRows == [status : ExecutionStatuses, retry : BOOLEAN,
                  policy : {"none", "deny", "approve", "auto"}]
ApprovalRows == [status : {"none", "pending", "approved", "rejected", "expired"},
                 by : BOOLEAN, late : BOOLEAN]
ProposalRows == [linked : BOOLEAN,
                 status : Terminal \cup {"not_submitted", "submitting", "approval_required"}]
HandlerRows == [at : {"idle", "begin", "insert", "dispatch", "adapter", "notify", "reviewing",
                      "reread", "return", "error"},
                x : Requests \cup {"none"},
                flow : {"none", "tool", "proposal", "approve", "expire", "reject"},
                seen : ExecutionStatuses, pending : BOOLEAN, late : BOOLEAN]

ActionTypes ==
    /\ audit \in [Keys -> AuditRows]
    /\ effects \in [Keys \X Parameters -> Nat]
    /\ call \in [Callers -> CallRows]
    /\ \A c \in Callers : call[c].at # "idle" => call[c].key \in Keys /\ call[c].data \in Parameters

HandlersTyped ==
    /\ handler \in [Callers -> HandlerRows]
    /\ \A h \in Callers : handler[h].at # "idle" => handler[h].x \in Requests

ToolTypes ==
    /\ ActionTypes
    /\ execution \in [Requests -> ExecutionRows]
    /\ approval \in [Requests -> ApprovalRows]
    /\ proposal \in [Proposals -> ProposalRows]
    /\ HandlersTyped
    /\ ran \in [Requests -> Nat]

------------------------------------------------------------------------------
(* Types of the ERP's actions *)

LEMMA AnswerTypes ==
    ASSUME ActionTypes, NEW c \in Callers, call[c].at # "idle", NEW ok \in BOOLEAN
    PROVE  LET good(new) == /\ new \in [Callers -> CallRows]
                            /\ \A d \in Callers : new[d].at # "idle" =>
                                  new[d].key \in Keys /\ new[d].data \in Parameters
           IN  good(Answered(c, ok)) /\ good(Failing(c))
<1>1. call[c] \in CallRows
  BY DEF ActionTypes
<1>2. Answered(c, ok) \in [Callers -> CallRows] /\ Failing(c) \in [Callers -> CallRows]
  BY <1>1 DEF Answered, Failing, ActionTypes, CallRows
<1>3. ASSUME NEW d \in Callers
      PROVE  /\ /\ Answered(c, ok)[d].key = call[d].key
                /\ Answered(c, ok)[d].data = call[d].data
                /\ Answered(c, ok)[d].at # "idle" => call[d].at # "idle"
             /\ /\ Failing(c)[d].key = call[d].key
                /\ Failing(c)[d].data = call[d].data
                /\ Failing(c)[d].at # "idle" => call[d].at # "idle"
  <2>1. call[d] \in CallRows
    BY DEF ActionTypes
  <2>2. CASE c = d
    BY <2>1, <2>2 DEF Answered, Failing, ActionTypes, CallRows
  <2>3. CASE c # d
    BY <2>1, <2>3 DEF Answered, Failing, ActionTypes, CallRows
  <2>4. QED
    BY <2>2, <2>3
<1>4. QED
  BY <1>2, <1>3 DEF ActionTypes

LEMMA ForgottenCall ==
    ASSUME ActionTypes, NEW c \in Callers, call' = [call EXCEPT ![c] = NoCall]
    PROVE  /\ call' \in [Callers -> CallRows]
           /\ \A d \in Callers : call'[d].at # "idle" =>
                 call'[d].key \in Keys /\ call'[d].data \in Parameters
           /\ \A d \in Callers : call'[d].at # "idle" => call'[d] = call[d]
<1>1. NoCall \in CallRows /\ NoCall.at = "idle"
  BY DEF NoCall, CallRows
<1>2. QED
  BY <1>1 DEF ActionTypes

LEMMA NewCall ==
    ASSUME ActionTypes, NEW c \in Callers, NEW k \in Keys, NEW data \in Parameters,
           NEW retry \in BOOLEAN, CallAction(c, k, data, retry)
    PROVE  /\ call' \in [Callers -> CallRows]
           /\ \A d \in Callers : call'[d].at # "idle" =>
                 call'[d].key \in Keys /\ call'[d].data \in Parameters
<1> DEFINE new == [at |-> "called", key |-> k, data |-> data, retry |-> retry, ok |-> FALSE]
<1>1. new \in CallRows /\ new.key = k /\ new.data = data
  BY DEF CallRows
<1>2. call' = [call EXCEPT ![c] = new]
  BY DEF CallAction
<1> HIDE DEF new
<1>3. QED
  BY <1>1, <1>2 DEF ActionTypes

\* What one transaction of a call does.
LEMMA TransactionCases ==
    ASSUME NEW c \in Callers, ActionTransaction(c)
    PROVE  /\ call[c].at = "called"
           /\ UNCHANGED told
           /\ \/ /\ audit[call[c].key].status # "completed"
                 /\ audit' = [audit EXCEPT ![call[c].key] = [status |-> "completed",
                                                             data |-> call[c].data]]
                 /\ effects' = [effects EXCEPT ![<<call[c].key, call[c].data>>] = @ + 1]
                 /\ call' \in {Answered(c, TRUE), Failing(c)}
              \/ /\ UNCHANGED <<audit, effects>>
                 /\ \/ call' \in {Answered(c, FALSE), Failing(c)}
                    \/ /\ audit[call[c].key].status = "completed"
                       /\ audit[call[c].key].data = call[c].data
                       /\ call' = Answered(c, TRUE)
<1>1. call[c].at = "called" /\ UNCHANGED told /\ runAction(c)
  BY DEF ActionTransaction
<1>2. CASE audit[call[c].key].status = "completed"
  <2>1. UNCHANGED <<audit, effects>>
        /\ call' = Answered(c, audit[call[c].key].data = call[c].data)
    BY <1>1, <1>2 DEF runAction
  <2>2. CASE audit[call[c].key].data = call[c].data
    <3>1. (audit[call[c].key].data = call[c].data) = TRUE
      BY <2>2
    <3>2. QED
      BY <1>1, <1>2, <2>1, <2>2, <3>1
  <2>3. CASE audit[call[c].key].data # call[c].data
    <3>1. (audit[call[c].key].data = call[c].data) = FALSE
      BY <2>3
    <3>2. QED
      BY <1>1, <2>1, <3>1
  <2>4. QED
    BY <2>2, <2>3
<1>3. CASE audit[call[c].key].status = "failed" /\ ~call[c].retry
  BY <1>1, <1>3 DEF runAction
<1>4. CASE /\ audit[call[c].key].status # "completed"
           /\ ~(audit[call[c].key].status = "failed" /\ ~call[c].retry)
  <2>1. Effect(c)
    BY <1>1, <1>4 DEF runAction
  <2>2. QED
    BY <1>1, <1>4, <2>1 DEF Effect
<1>5. QED
  BY <1>2, <1>3, <1>4

\* One more effect of one key with one data, and nothing else.
LEMMA EffectCounted ==
    ASSUME effects \in [Keys \X Parameters -> Nat], NEW k \in Keys, NEW data \in Parameters,
           effects' = [effects EXCEPT ![<<k, data>>] = @ + 1]
    PROVE  /\ effects' \in [Keys \X Parameters -> Nat]
           /\ effects'[<<k, data>>] = effects[<<k, data>>] + 1
           /\ \A l \in Keys, e \in Parameters :
                 l # k \/ e # data => effects'[<<l, e>>] = effects[<<l, e>>]
<1> DEFINE kd == <<k, data>>
<1>1. kd \in Keys \X Parameters
  OBVIOUS
<1>2. \A l \in Keys, e \in Parameters : /\ <<l, e>> \in Keys \X Parameters
                                        /\ l # k \/ e # data => <<l, e>> # kd
  OBVIOUS
<1>3. effects' = [effects EXCEPT ![kd] = @ + 1]
  OBVIOUS
<1>4. effects'[kd] = effects[kd] + 1
  <2> HIDE DEF kd
  <2> QED BY <1>1, <1>3
<1>5. effects' \in [Keys \X Parameters -> Nat]
  <2>1. effects[kd] + 1 \in Nat
    <3> HIDE DEF kd
    <3> QED BY <1>1
  <2> HIDE DEF kd
  <2> QED BY <1>1, <1>3, <2>1
<1>6. \A le \in Keys \X Parameters : le # kd => effects'[le] = effects[le]
  <2> HIDE DEF kd
  <2> QED BY <1>1, <1>3
<1>7. QED
  BY <1>2, <1>4, <1>5, <1>6

LEMMA TransactionTypes ==
    ASSUME ActionTypes, NEW c \in Callers, ActionTransaction(c)
    PROVE  ActionTypes'
<1>1. /\ call[c].at = "called" /\ call[c].key \in Keys /\ call[c].data \in Parameters
  BY TransactionCases DEF ActionTypes
<1>2. audit' \in [Keys -> AuditRows]
  <2>1. [status |-> "completed", data |-> call[c].data] \in AuditRows
    BY <1>1 DEF AuditRows
  <2>2. QED
    BY <2>1, TransactionCases DEF ActionTypes
<1>3. effects' \in [Keys \X Parameters -> Nat]
  BY <1>1, TransactionCases, EffectCounted DEF ActionTypes
<1>4. \E ok \in BOOLEAN : call' \in {Answered(c, ok), Failing(c)}
  BY TransactionCases
<1>5. QED
  BY <1>1, <1>2, <1>3, <1>4, AnswerTypes DEF ActionTypes

LEMMA RecordTypes ==
    ASSUME ActionTypes, NEW c \in Callers, RecordFailure(c)
    PROVE  ActionTypes'
<1>1. call[c].at = "failing" /\ call' = Answered(c, FALSE) /\ UNCHANGED effects
  BY DEF RecordFailure
<1>2. audit' \in [Keys -> AuditRows]
  <2>1. [status |-> "failed", data |-> "none"] \in AuditRows
    BY DEF AuditRows
  <2>2. QED
    BY <2>1 DEF RecordFailure, ActionTypes
<1>3. QED
  BY <1>1, <1>2, AnswerTypes DEF ActionTypes

------------------------------------------------------------------------------
(* Types of the tool runtime *)

Steps == {"begin", "insert", "dispatch", "adapter", "notify", "reviewing", "reread", "return",
          "error"}

LEMMA StatusFacts ==
    /\ Terminal \subseteq ExecutionStatuses
    /\ {"none", "running", "approval_required", "approved", "completed", "failed", "denied",
        "rejected"} \subseteq ExecutionStatuses
BY DEF ExecutionStatuses, Terminal

LEMMA IdleTyped == Idle \in HandlerRows
BY StatusFacts DEF Idle, HandlerRows

LEMMA GoTyped ==
    ASSUME HandlersTyped, NEW h \in Callers, NEW at \in Steps, handler[h].at # "idle", Go(h, at)
    PROVE  /\ HandlersTyped'
           /\ handler'[h] = [handler[h] EXCEPT !.at = at]
           /\ handler'[h].at = at /\ handler'[h].x = handler[h].x
           /\ \A g \in Callers : g # h => handler'[g] = handler[g]
<1>1. handler[h] \in HandlerRows
  BY DEF HandlersTyped
<1>2. [handler[h] EXCEPT !.at = at] \in HandlerRows
  BY <1>1 DEF HandlerRows, Steps
<1>3. [handler[h] EXCEPT !.at = at].x = handler[h].x /\ [handler[h] EXCEPT !.at = at].at = at
  BY <1>1 DEF HandlerRows
<1>4. handler' = [handler EXCEPT ![h] = [handler[h] EXCEPT !.at = at]]
  BY DEF Go
<1>5. QED
  BY <1>2, <1>3, <1>4 DEF HandlersTyped

LEMMA SeenTyped ==
    ASSUME HandlersTyped, NEW h \in Callers, NEW at \in Steps, handler[h].at # "idle",
           NEW seen \in ExecutionStatuses,
           handler' = [handler EXCEPT ![h].at = at, ![h].seen = seen]
    PROVE  /\ HandlersTyped'
           /\ handler'[h] = [handler[h] EXCEPT !.at = at, !.seen = seen]
           /\ handler'[h].at = at /\ handler'[h].x = handler[h].x /\ handler'[h].seen = seen
           /\ \A g \in Callers : g # h => handler'[g] = handler[g]
<1>1. handler[h] \in HandlerRows
  BY DEF HandlersTyped
<1>2. [handler[h] EXCEPT !.at = at, !.seen = seen] \in HandlerRows
  BY <1>1 DEF HandlerRows, Steps
<1>3. LET new == [handler[h] EXCEPT !.at = at, !.seen = seen] IN
      new.x = handler[h].x /\ new.at = at /\ new.seen = seen
  BY <1>1 DEF HandlerRows
<1>4. handler' = [handler EXCEPT ![h] = [handler[h] EXCEPT !.at = at, !.seen = seen]]
  BY DEF HandlersTyped
<1>5. QED
  BY <1>2, <1>3, <1>4 DEF HandlersTyped

LEMMA DoneTyped ==
    ASSUME HandlersTyped, NEW h \in Callers, Done(h)
    PROVE  /\ HandlersTyped'
           /\ handler'[h] = Idle
           /\ \A g \in Callers : g # h => handler'[g] = handler[g]
BY IdleTyped DEF Done, HandlersTyped, Idle

LEMMA TakenTyped ==
    ASSUME HandlersTyped, NEW h \in Callers, NEW row \in HandlerRows, row.x \in Requests,
           handler' = [handler EXCEPT ![h] = row]
    PROVE  /\ HandlersTyped'
           /\ handler'[h] = row
           /\ \A g \in Callers : g # h => handler'[g] = handler[g]
BY DEF HandlersTyped

LEMMA ActionsUntouched == ASSUME ActionTypes, UNCHANGED actionVars PROVE ActionTypes'
BY DEF ActionTypes, actionVars

LEMMA HandlersUntouched == ASSUME HandlersTyped, UNCHANGED handler PROVE HandlersTyped'
BY DEF HandlersTyped

LEMMA ToolInitTypes == ToolInit => ToolTypes
<1> SUFFICES ASSUME ToolInit PROVE ToolTypes
  OBVIOUS
<1>1. NoCall \in CallRows /\ NoCall.at = "idle" /\ Idle.at = "idle"
  BY DEF NoCall, CallRows, Idle
<1>2. ActionTypes
  <2>1. [status |-> "none", data |-> "none"] \in AuditRows
    BY DEF AuditRows
  <2>2. QED
    BY <1>1, <2>1 DEF ToolInit, ActionsInit, ActionTypes
<1>3. execution \in [Requests -> ExecutionRows]
  BY StatusFacts DEF ToolInit, ExecutionRows
<1>4. approval \in [Requests -> ApprovalRows]
  BY DEF ToolInit, ApprovalRows
<1>5. proposal \in [Proposals -> ProposalRows]
  BY DEF ToolInit, ProposalRows
<1>6. HandlersTyped
  BY <1>1, IdleTyped DEF ToolInit, HandlersTyped
<1>7. QED
  BY <1>2, <1>3, <1>4, <1>5, <1>6 DEF ToolInit, ToolTypes

\* The three ways a request of the API begins.
LEMMA BeginTypes ==
    ASSUME ToolTypes, NEW h \in Callers, NEW x \in Requests,
           \/ ExecuteTool(h, x)
           \/ x \in Proposals /\ SubmitProposal(h, x)
           \/ Review(h, x, "approve") \/ Review(h, x, "reject")
    PROVE  /\ ToolTypes'
           /\ handler[h].at = "idle" /\ call[h].at = "idle"
           /\ UNCHANGED <<actionVars, execution, approval, proposal, ran>>
           /\ handler'[h].x = x
           /\ \/ handler'[h].at \in {"insert", "begin"}
              \/ /\ handler'[h].at = "reviewing" /\ approval[x].status \in {"pending", "approved"}
                 /\ ~handler'[h].pending => approval[x].status = "approved"
           /\ \A g \in Callers : g # h => handler'[g] = handler[g]
<1>1. /\ handler[h].at = "idle" /\ call[h].at = "idle"
      /\ UNCHANGED <<actionVars, execution, approval, proposal, ran>>
  BY DEF ExecuteTool, SubmitProposal, Review, Take
<1>2. PICK row :
        /\ handler' = [handler EXCEPT ![h] = row]
        /\ row \in HandlerRows /\ row.x = x
        /\ \/ row.at \in {"insert", "begin"}
           \/ /\ row.at = "reviewing" /\ approval[x].status \in {"pending", "approved"}
              /\ ~row.pending => approval[x].status = "approved"
  <2>1. CASE ExecuteTool(h, x)
    <3> DEFINE row == [Idle EXCEPT !.at = "insert", !.x = x, !.flow = "tool"]
    <3>1. row \in HandlerRows /\ row.x = x /\ row.at = "insert"
      BY IdleTyped DEF HandlerRows, Idle
    <3>2. handler' = [handler EXCEPT ![h] = row]
      BY <2>1 DEF ExecuteTool
    <3> HIDE DEF row
    <3>3. QED
      BY <3>1, <3>2
  <2>2. CASE SubmitProposal(h, x)
    <3> DEFINE row == [Idle EXCEPT !.at = "begin", !.x = x, !.flow = "proposal"]
    <3>1. row \in HandlerRows /\ row.x = x /\ row.at = "begin"
      BY IdleTyped DEF HandlerRows, Idle
    <3>2. handler' = [handler EXCEPT ![h] = row]
      BY <2>2 DEF SubmitProposal
    <3> HIDE DEF row
    <3>3. QED
      BY <3>1, <3>2
  <2>3. ASSUME NEW flow \in {"approve", "reject"}, Review(h, x, flow)
        PROVE  \E row : /\ handler' = [handler EXCEPT ![h] = row]
                        /\ row \in HandlerRows /\ row.x = x
                        /\ row.at = "reviewing" /\ approval[x].status \in {"pending", "approved"}
                        /\ ~row.pending => approval[x].status = "approved"
    <3> DEFINE row == [at |-> "reviewing", x |-> x, flow |-> flow, seen |-> execution[x].status,
                       pending |-> approval[x].status = "pending", late |-> approval[x].late]
    <3>1. execution[x].status \in ExecutionStatuses /\ approval[x].late \in BOOLEAN
      BY DEF ToolTypes, ExecutionRows, ApprovalRows
    <3>2. (approval[x].status = "pending") \in BOOLEAN
      OBVIOUS
    <3>3. row \in HandlerRows /\ row.x = x /\ row.at = "reviewing"
      BY <3>1, <3>2 DEF HandlerRows
    <3>4. row.pending = (approval[x].status = "pending")
      OBVIOUS
    <3>5. handler' = [handler EXCEPT ![h] = row] /\ approval[x].status \in {"pending", "approved"}
      BY <2>3 DEF Review
    <3> HIDE DEF row
    <3>6. QED
      BY <3>3, <3>4, <3>5
  <2>4. QED
    BY <2>1, <2>2, <2>3
<1>3. HandlersTyped
  BY DEF ToolTypes
<1>4. /\ HandlersTyped' /\ handler'[h] = row
      /\ \A g \in Callers : g # h => handler'[g] = handler[g]
  BY <1>2, <1>3, TakenTyped
<1>5. ToolTypes'
  BY <1>1, <1>4, ActionsUntouched DEF ToolTypes
<1>6. QED
  BY <1>1, <1>2, <1>4, <1>5

LEMMA PolicyStatus ==
    ASSUME NEW policy \in {"deny", "approve", "auto"}
    PROVE  StatusOf(policy) \in ExecutionStatuses \ {"none", "completed"}
BY DEF StatusOf, ExecutionStatuses, Terminal

LEMMA ProposalStatusType ==
    ASSUME NEW status \in ExecutionStatuses
    PROVE  /\ proposalStatus(status) \in Terminal \cup {"submitting", "approval_required"}
           /\ proposalStatus(status) = "completed" <=> status = "completed"
BY DEF proposalStatus, ExecutionStatuses, Terminal

\* Requesting a tool, up to the answer: where the handler is afterwards, and why.
LEMMA RequestTypes ==
    ASSUME ToolTypes, NEW h \in Callers,
           BeginProposalSubmission(h) \/ CreateExecution(h) \/ Dispatch(h)
    PROVE  /\ ToolTypes'
           /\ handler[h].at \in {"begin", "insert", "dispatch"}
           /\ UNCHANGED <<actionVars, ran>>
           /\ \A g \in Callers : g # h => handler'[g] = handler[g]
<1>1. HandlersTyped /\ handler[h] \in HandlerRows
  BY DEF ToolTypes, HandlersTyped
<1>2. handler[h].at \in {"begin", "insert", "dispatch"} /\ UNCHANGED <<actionVars, ran>>
  BY DEF BeginProposalSubmission, CreateExecution, Dispatch
<1>3. handler[h].x \in Requests
  BY <1>1, <1>2 DEF HandlersTyped
<1>4. ActionTypes' /\ ran' \in [Requests -> Nat]
  BY <1>2, ActionsUntouched DEF ToolTypes
<1>5. CASE BeginProposalSubmission(h)
  <2>1. proposal' \in [Proposals -> ProposalRows]
    BY <1>5 DEF BeginProposalSubmission, ToolTypes, ProposalRows
  <2>2. Go(h, "insert") \/ Done(h)
    BY <1>5 DEF BeginProposalSubmission
  <2>3. HandlersTyped' /\ \A g \in Callers : g # h => handler'[g] = handler[g]
    BY <1>1, <1>2, <2>2, GoTyped, DoneTyped DEF Steps
  <2>4. UNCHANGED <<execution, approval>>
    BY <1>5 DEF BeginProposalSubmission
  <2>5. QED
    BY <1>2, <1>4, <2>1, <2>3, <2>4 DEF ToolTypes
<1>6. CASE CreateExecution(h)
  <2>1. UNCHANGED <<approval, proposal>>
    BY <1>6 DEF CreateExecution
  <2>2. CASE execution[handler[h].x].status = "none"
    <3>1. PICK policy \in Policies(handler[h].x), retry \in BOOLEAN :
            /\ execution' = [execution EXCEPT ![handler[h].x] =
                                [status |-> StatusOf(policy), retry |-> retry, policy |-> policy]]
            /\ Go(h, "dispatch")
      BY <1>6, <2>2 DEF CreateExecution
    <3>2. policy \in {"deny", "approve", "auto"}
      BY DEF Policies
    <3>3. [status |-> StatusOf(policy), retry |-> retry, policy |-> policy] \in ExecutionRows
      BY <3>2, PolicyStatus DEF ExecutionRows
    <3>4. execution' \in [Requests -> ExecutionRows]
      BY <3>1, <3>3 DEF ToolTypes
    <3>5. HandlersTyped' /\ \A g \in Callers : g # h => handler'[g] = handler[g]
      BY <1>1, <1>2, <3>1, GoTyped DEF Steps
    <3>6. QED
      BY <1>2, <1>4, <2>1, <3>4, <3>5 DEF ToolTypes
  <2>3. CASE execution[handler[h].x].status # "none"
    <3>1. /\ handler' = [handler EXCEPT ![h].at = "return",
                                        ![h].seen = execution[handler[h].x].status]
          /\ UNCHANGED execution
      BY <1>6, <2>3 DEF CreateExecution
    <3>2. execution[handler[h].x].status \in ExecutionStatuses
      BY <1>3 DEF ToolTypes, ExecutionRows
    <3>3. HandlersTyped' /\ \A g \in Callers : g # h => handler'[g] = handler[g]
      BY <1>1, <1>2, <3>1, <3>2, SeenTyped DEF Steps
    <3>4. QED
      BY <1>2, <1>4, <2>1, <3>1, <3>3 DEF ToolTypes
  <2>4. QED
    BY <2>2, <2>3
<1>7. CASE Dispatch(h)
  <2>1. execution' \in [Requests -> ExecutionRows]
    <3>1. [execution[handler[h].x] EXCEPT !.status = "denied"] \in ExecutionRows
      BY <1>3, StatusFacts DEF ToolTypes, ExecutionRows
    <3>2. QED
      BY <1>7, <3>1 DEF Dispatch, ToolTypes
  <2>2. approval' \in [Requests -> ApprovalRows]
    <3>1. [approval[handler[h].x] EXCEPT !.status = "pending"] \in ApprovalRows
      BY <1>3 DEF ToolTypes, ApprovalRows
    <3>2. QED
      BY <1>7, <3>1 DEF Dispatch, ToolTypes
  <2>3. \/ handler' = [handler EXCEPT ![h].at = "notify", ![h].seen = "denied"]
        \/ handler' = [handler EXCEPT ![h].at = "return", ![h].seen = "approval_required"]
        \/ Go(h, "error") \/ Go(h, "adapter")
    BY <1>7 DEF Dispatch
  <2>4. HandlersTyped' /\ \A g \in Callers : g # h => handler'[g] = handler[g]
    <3>1. /\ handler[h].at # "idle"
          /\ "notify" \in Steps /\ "return" \in Steps /\ "error" \in Steps /\ "adapter" \in Steps
          /\ "denied" \in ExecutionStatuses /\ "approval_required" \in ExecutionStatuses
      BY <1>2, StatusFacts DEF Steps
    <3>2. CASE handler' = [handler EXCEPT ![h].at = "notify", ![h].seen = "denied"]
      BY <1>1, <3>1, <3>2, SeenTyped
    <3>3. CASE handler' = [handler EXCEPT ![h].at = "return", ![h].seen = "approval_required"]
      BY <1>1, <3>1, <3>3, SeenTyped
    <3>4. CASE Go(h, "error") \/ Go(h, "adapter")
      BY <1>1, <3>1, <3>4, GoTyped
    <3>5. QED
      BY <2>3, <3>2, <3>3, <3>4
  <2>5. UNCHANGED proposal
    BY <1>7 DEF Dispatch
  <2>6. QED
    BY <1>2, <1>4, <2>1, <2>2, <2>4, <2>5 DEF ToolTypes
<1>8. QED
  BY <1>5, <1>6, <1>7

\* Telling the business AI, and losing a handler.
LEMMA TellingTypes ==
    ASSUME ToolTypes, NEW h \in Callers,
           LinkProposalExecution(h) \/ FailProposalSubmission(h) \/ ToolExecutionUpdated(h)
    PROVE  /\ ToolTypes'
           /\ handler[h].at \in {"return", "error", "notify"}
           /\ UNCHANGED <<actionVars, execution, approval, ran>>
           /\ handler'[h] = Idle \/ \E at \in {"return", "error"} :
                 handler'[h] = [handler[h] EXCEPT !.at = at]
           /\ \A g \in Callers : g # h => handler'[g] = handler[g]
<1>1. HandlersTyped /\ handler[h] \in HandlerRows
  BY DEF ToolTypes, HandlersTyped
<1>2. /\ handler[h].at \in {"return", "error", "notify"}
      /\ UNCHANGED <<actionVars, execution, approval, ran>>
  BY DEF LinkProposalExecution, FailProposalSubmission, ToolExecutionUpdated
<1>3. handler[h].x \in Requests /\ handler[h].seen \in ExecutionStatuses
  BY <1>1, <1>2 DEF HandlersTyped, HandlerRows
<1>4. proposalStatus(handler[h].seen) \in Terminal \cup {"submitting", "approval_required"}
  BY <1>3, ProposalStatusType
<1>5. proposal' \in [Proposals -> ProposalRows]
  <2>1. CASE LinkProposalExecution(h)
    <3>1. [linked |-> TRUE, status |-> proposalStatus(handler[h].seen)] \in ProposalRows
      BY <1>4 DEF ProposalRows
    <3>2. QED
      BY <2>1, <3>1 DEF LinkProposalExecution, ToolTypes
  <2>2. CASE FailProposalSubmission(h) \/ ToolExecutionUpdated(h)
    BY <1>4, <2>2 DEF FailProposalSubmission, ToolExecutionUpdated, ToolTypes, ProposalRows,
                      Terminal
  <2>3. QED
    BY <2>1, <2>2
<1>6. Done(h) \/ Go(h, "return") \/ Go(h, "error")
  BY DEF LinkProposalExecution, FailProposalSubmission, ToolExecutionUpdated
<1>7. /\ HandlersTyped'
      /\ handler'[h] = Idle \/ \E at \in {"return", "error"} :
            handler'[h] = [handler[h] EXCEPT !.at = at]
      /\ \A g \in Callers : g # h => handler'[g] = handler[g]
  <2>1. handler[h].at # "idle" /\ {"return", "error"} \subseteq Steps
    BY <1>2 DEF Steps
  <2>2. CASE Done(h)
    BY <1>1, <2>2, DoneTyped
  <2>3. CASE Go(h, "return")
    BY <1>1, <2>1, <2>3, GoTyped
  <2>4. CASE Go(h, "error")
    BY <1>1, <2>1, <2>4, GoTyped
  <2>5. QED
    BY <1>6, <2>2, <2>3, <2>4
<1>8. QED
  BY <1>2, <1>5, <1>7, ActionsUntouched DEF ToolTypes

\* A decision sets approval and execution together.
LEMMA DecisionTypes ==
    ASSUME ToolTypes, NEW h \in Callers, handler[h].x \in Requests,
           NEW status \in {"approved", "rejected", "expired"},
           NEW executionStatus \in {"approved", "rejected", "failed"},
           UpdateApproval(h, status, executionStatus)
    PROVE  /\ approval' \in [Requests -> ApprovalRows]
           /\ execution' \in [Requests -> ExecutionRows]
<1>1. approval[handler[h].x] \in ApprovalRows /\ execution[handler[h].x] \in ExecutionRows
  BY DEF ToolTypes
<1>2. (approval[handler[h].x].by \/ status = "approved") \in BOOLEAN
  OBVIOUS
<1>3. [approval[handler[h].x] EXCEPT !.status = status,
                                     !.by = approval[handler[h].x].by \/ status = "approved"]
         \in ApprovalRows
  BY <1>1, <1>2 DEF ApprovalRows
<1>4. [execution[handler[h].x] EXCEPT !.status = executionStatus] \in ExecutionRows
  BY <1>1, StatusFacts DEF ExecutionRows
<1>5. approval' \in [Requests -> ApprovalRows]
  <2>1. approval' = [approval EXCEPT ![handler[h].x] =
                        [approval[handler[h].x] EXCEPT !.status = status,
                            !.by = approval[handler[h].x].by \/ status = "approved"]]
    BY DEF UpdateApproval, ToolTypes
  <2>2. QED
    BY <1>3, <2>1 DEF ToolTypes
<1>6. execution' \in [Requests -> ExecutionRows]
  BY <1>4 DEF UpdateApproval, ToolTypes
<1>7. QED
  BY <1>5, <1>6

\* Where a reviewer's handler goes, and why it may.
LEMMA ReviewTypes ==
    ASSUME ToolTypes, NEW h \in Callers, Approve(h) \/ Reject(h) \/ RereadExecution(h)
    PROVE  /\ ToolTypes'
           /\ handler[h].at \in {"reviewing", "reread"}
           /\ UNCHANGED <<actionVars, proposal, ran>>
           /\ \A g \in Callers : g # h => handler'[g] = handler[g]
           /\ \/ /\ UNCHANGED <<execution, approval>>
                 /\ \/ handler'[h].at = "idle"
                    \/ /\ handler'[h].at = "adapter" /\ handler'[h].x = handler[h].x
                       /\ \/ handler[h].at = "reviewing" /\ ~handler[h].pending
                          \/ handler[h].at = "reread" /\ handler[h].flow = "approve"
                    \/ /\ handler'[h].at = "notify" /\ handler'[h].x = handler[h].x
                       /\ handler'[h].seen = execution[handler[h].x].status
              \/ /\ handler[h].at = "reviewing"
                 /\ handler'[h].at = "reread" /\ handler'[h].x = handler[h].x
                 /\ \E status \in {"approved", "rejected", "expired"},
                       executionStatus \in {"approved", "rejected", "failed"} :
                    /\ UpdateApproval(h, status, executionStatus)
                    /\ handler'[h].flow = "approve" => status = "approved"
<1>1. HandlersTyped /\ handler[h] \in HandlerRows
  BY DEF ToolTypes, HandlersTyped
<1>2. /\ handler[h].at \in {"reviewing", "reread"}
      /\ UNCHANGED <<actionVars, proposal, ran>>
  BY DEF Approve, Reject, RereadExecution
<1>3. handler[h].x \in Requests
  BY <1>1, <1>2 DEF HandlersTyped
<1>4. ActionTypes' /\ ran' \in [Requests -> Nat] /\ proposal' \in [Proposals -> ProposalRows]
  BY <1>2, ActionsUntouched DEF ToolTypes
<1>5. ASSUME UNCHANGED <<execution, approval>>, NEW seen, ApprovedOutput(h, seen),
             \/ handler[h].at = "reviewing" /\ ~handler[h].pending
             \/ handler[h].at = "reread" /\ handler[h].flow = "approve"
      PROVE  /\ ToolTypes'
             /\ \A g \in Callers : g # h => handler'[g] = handler[g]
             /\ \/ handler'[h].at = "idle"
                \/ handler'[h].at = "adapter" /\ handler'[h].x = handler[h].x
  <2>1. CASE Done(h)
    <3>1. /\ HandlersTyped' /\ handler'[h].at = "idle"
          /\ \A g \in Callers : g # h => handler'[g] = handler[g]
      BY <1>1, <2>1, DoneTyped DEF Idle
    <3>2. QED
      BY <1>4, <1>5, <3>1 DEF ToolTypes
  <2>2. CASE Go(h, "adapter")
    <3>1. /\ HandlersTyped' /\ handler'[h] = [handler[h] EXCEPT !.at = "adapter"]
          /\ \A g \in Callers : g # h => handler'[g] = handler[g]
      BY <1>1, <1>2, <2>2, GoTyped DEF Steps
    <3>2. handler'[h].at = "adapter" /\ handler'[h].x = handler[h].x
      BY <1>1, <3>1 DEF HandlerRows
    <3>3. QED
      BY <1>4, <1>5, <3>1, <3>2 DEF ToolTypes
  <2>3. QED
    BY <1>5, <2>1, <2>2 DEF ApprovedOutput
<1>6. ASSUME handler[h].at = "reviewing",
             NEW status \in {"approved", "rejected", "expired"},
             NEW executionStatus \in {"approved", "rejected", "failed"},
             UpdateApproval(h, status, executionStatus),
             NEW flow \in {"approve", "expire", "reject"},
             handler'[h] = [handler[h] EXCEPT !.at = "reread", !.flow = flow],
             flow = "approve" => status = "approved",
             HandlersTyped', \A g \in Callers : g # h => handler'[g] = handler[g]
      PROVE  /\ ToolTypes'
             /\ handler'[h].at = "reread" /\ handler'[h].x = handler[h].x
             /\ handler'[h].flow = "approve" => status = "approved"
  <2>1. /\ handler'[h].at = "reread" /\ handler'[h].x = handler[h].x
        /\ handler'[h].flow = flow
    BY <1>1, <1>6 DEF HandlerRows
  <2>2. QED
    BY <1>3, <1>4, <1>6, <2>1, DecisionTypes DEF ToolTypes
<1>7. ASSUME NEW flow \in {"approve", "expire", "reject"}, handler[h].at = "reviewing",
             handler' = [handler EXCEPT ![h].at = "reread", ![h].flow = flow]
      PROVE  /\ HandlersTyped' /\ \A g \in Callers : g # h => handler'[g] = handler[g]
             /\ handler'[h] = [handler[h] EXCEPT !.at = "reread", !.flow = flow]
  <2>1. [handler[h] EXCEPT !.at = "reread", !.flow = flow] \in HandlerRows
    BY <1>1 DEF HandlerRows
  <2>2. [handler[h] EXCEPT !.at = "reread", !.flow = flow].x = handler[h].x
    BY <1>1 DEF HandlerRows
  <2>3. handler' = [handler EXCEPT ![h] = [handler[h] EXCEPT !.at = "reread", !.flow = flow]]
    BY <1>7 DEF ToolTypes, HandlersTyped
  <2>4. QED
    BY <1>1, <1>3, <2>1, <2>2, <2>3, TakenTyped
<1>8. ASSUME handler[h].at = "reviewing", Go(h, "reread"),
             handler[h].flow \in {"approve", "expire", "reject"}
      PROVE  handler' = [handler EXCEPT ![h].at = "reread", ![h].flow = handler[h].flow]
  <2>1. [handler[h] EXCEPT !.at = "reread"] = [handler[h] EXCEPT !.at = "reread",
                                                                 !.flow = handler[h].flow]
    BY <1>1 DEF HandlerRows
  <2>2. QED
    BY <1>8, <2>1 DEF Go, ToolTypes, HandlersTyped
<1>9. CASE Approve(h)
  <2>1. handler[h].at = "reviewing" /\ handler[h].flow = "approve"
    BY <1>9 DEF Approve
  <2>2. CASE /\ ~handler[h].pending
             /\ ApprovedOutput(h, handler[h].seen)
             /\ UNCHANGED <<execution, approval>>
    BY <1>2, <1>5, <2>1, <2>2
  <2>3. CASE /\ UpdateApproval(h, "expired", "failed")
             /\ handler' = [handler EXCEPT ![h].at = "reread", ![h].flow = "expire"]
    <3>1. /\ HandlersTyped' /\ \A g \in Callers : g # h => handler'[g] = handler[g]
          /\ handler'[h] = [handler[h] EXCEPT !.at = "reread", !.flow = "expire"]
      BY <1>7, <2>1, <2>3
    <3>2. QED
      BY <1>2, <1>6, <2>1, <2>3, <3>1
  <2>4. CASE UpdateApproval(h, "approved", "approved") /\ Go(h, "reread")
    <3>1. /\ HandlersTyped' /\ \A g \in Callers : g # h => handler'[g] = handler[g]
          /\ handler'[h] = [handler[h] EXCEPT !.at = "reread", !.flow = "approve"]
      BY <1>7, <1>8, <2>1, <2>4
    <3>2. QED
      BY <1>2, <1>6, <2>1, <2>4, <3>1
  <2>5. QED
    BY <1>9, <2>2, <2>3, <2>4 DEF Approve
<1>10. CASE Reject(h)
  <2>1. /\ handler[h].at = "reviewing" /\ handler[h].flow = "reject"
        /\ UpdateApproval(h, "rejected", "rejected") /\ Go(h, "reread")
    BY <1>10 DEF Reject
  <2>2. /\ HandlersTyped' /\ \A g \in Callers : g # h => handler'[g] = handler[g]
        /\ handler'[h] = [handler[h] EXCEPT !.at = "reread", !.flow = "reject"]
    BY <1>7, <1>8, <2>1
  <2>3. QED
    BY <1>2, <1>6, <2>1, <2>2
<1>11. CASE RereadExecution(h)
  <2>1. handler[h].at = "reread" /\ UNCHANGED <<execution, approval>>
    BY <1>11 DEF RereadExecution
  <2>2. CASE handler[h].flow = "approve"
    <3>1. ApprovedOutput(h, execution[handler[h].x].status)
      BY <1>11, <2>2 DEF RereadExecution
    <3>2. QED
      BY <1>2, <1>5, <2>1, <2>2, <3>1
  <2>3. CASE handler[h].flow # "approve"
    <3>1. handler' = [handler EXCEPT ![h].at = "notify",
                                     ![h].seen = execution[handler[h].x].status]
      BY <1>11, <2>3 DEF RereadExecution
    <3>2. execution[handler[h].x].status \in ExecutionStatuses
      BY <1>3 DEF ToolTypes, ExecutionRows
    <3>3. /\ HandlersTyped'
          /\ handler'[h] = [handler[h] EXCEPT !.at = "notify",
                                              !.seen = execution[handler[h].x].status]
          /\ \A g \in Callers : g # h => handler'[g] = handler[g]
      BY <1>1, <2>1, <3>1, <3>2, SeenTyped DEF Steps
    <3>4. /\ handler'[h].at = "notify" /\ handler'[h].x = handler[h].x
          /\ handler'[h].seen = execution[handler[h].x].status
      BY <1>1, <3>3 DEF HandlerRows
    <3>5. QED
      BY <1>2, <1>4, <2>1, <3>3, <3>4 DEF ToolTypes
  <2>4. QED
    BY <2>2, <2>3
<1>12. QED
  BY <1>9, <1>10, <1>11

\* The execution is completed, or the completion fails.
LEMMA CompletionTypes ==
    ASSUME ToolTypes, NEW h \in Callers, handler[h].at = "adapter", NEW ok \in BOOLEAN,
           Complete(h, ok)
    PROVE  /\ execution' \in [Requests -> ExecutionRows]
           /\ HandlersTyped'
           /\ handler'[h].x = handler[h].x
           /\ \A g \in Callers : g # h => handler'[g] = handler[g]
           /\ \/ handler'[h].at = "error" /\ UNCHANGED execution
              \/ \E status \in {"completed", "failed"} :
                    /\ execution' = [execution EXCEPT ![handler[h].x].status = status]
                    /\ handler'[h].at = "notify" /\ handler'[h].seen = status
                    /\ status = "completed" => ok
<1>1. HandlersTyped /\ handler[h] \in HandlerRows /\ handler[h].x \in Requests
  BY DEF ToolTypes, HandlersTyped
<1>2. CASE Go(h, "error") /\ UNCHANGED execution
  <2>1. /\ HandlersTyped' /\ handler'[h] = [handler[h] EXCEPT !.at = "error"]
        /\ \A g \in Callers : g # h => handler'[g] = handler[g]
    BY <1>1, <1>2, GoTyped DEF Steps
  <2>2. handler'[h].at = "error" /\ handler'[h].x = handler[h].x
    BY <1>1, <2>1 DEF HandlerRows
  <2>3. QED
    BY <1>2, <2>1, <2>2 DEF ToolTypes
<1>3. ASSUME NEW status \in {"completed", "failed"},
             execution' = [execution EXCEPT ![handler[h].x].status = status],
             handler' = [handler EXCEPT ![h].at = "notify", ![h].seen = status]
      PROVE  /\ execution' \in [Requests -> ExecutionRows]
             /\ HandlersTyped'
             /\ handler'[h].x = handler[h].x
             /\ \A g \in Callers : g # h => handler'[g] = handler[g]
             /\ handler'[h].at = "notify" /\ handler'[h].seen = status
  <2>1. status \in ExecutionStatuses
    BY StatusFacts
  <2>2. [execution[handler[h].x] EXCEPT !.status = status] \in ExecutionRows
    BY <1>1, <2>1 DEF ToolTypes, ExecutionRows
  <2>3. execution' \in [Requests -> ExecutionRows]
    BY <1>3, <2>2 DEF ToolTypes
  <2>4. /\ HandlersTyped' /\ handler'[h] = [handler[h] EXCEPT !.at = "notify", !.seen = status]
        /\ \A g \in Callers : g # h => handler'[g] = handler[g]
    BY <1>1, <1>3, <2>1, SeenTyped DEF Steps
  <2>5. /\ handler'[h].x = handler[h].x /\ handler'[h].at = "notify"
        /\ handler'[h].seen = status
    BY <1>1, <2>4 DEF HandlerRows
  <2>6. QED
    BY <2>3, <2>4, <2>5
<1>4. CASE ok
  BY <1>2, <1>3, <1>4 DEF Complete
<1>5. CASE ~ok
  BY <1>2, <1>3, <1>5 DEF Complete
<1>6. QED
  BY <1>4, <1>5

LEMMA AdapterTypes ==
    ASSUME ToolTypes, NEW h \in Callers,
           RunLedgerAdapter(h) \/ CompleteLedgerAdapter(h) \/ RunOtherAdapter(h)
    PROVE  ToolTypes'
<1>1. /\ HandlersTyped /\ ActionTypes /\ handler[h].at = "adapter"
      /\ handler[h].x \in Requests /\ UNCHANGED <<approval, proposal>>
  BY DEF ToolTypes, HandlersTyped, RunLedgerAdapter, CompleteLedgerAdapter, RunOtherAdapter
<1>2. CASE RunLedgerAdapter(h)
  <2>1. handler[h].x \in Keys /\ ToolData \in Parameters /\ execution[handler[h].x].retry \in BOOLEAN
    BY <1>1, ToolAssumption DEF ToolTypes, ExecutionRows
  <2>2. ActionTypes'
    BY <1>1, <1>2, <2>1, NewCall DEF RunLedgerAdapter, ActionTypes
  <2>3. QED
    BY <1>1, <1>2, <2>2, HandlersUntouched DEF RunLedgerAdapter, ToolTypes
<1>3. CASE CompleteLedgerAdapter(h)
  <2>1. call[h].ok \in BOOLEAN
    BY <1>1 DEF ActionTypes, CallRows
  <2>2. HandlersTyped' /\ execution' \in [Requests -> ExecutionRows]
    BY <1>1, <1>3, <2>1, CompletionTypes DEF CompleteLedgerAdapter
  <2>3. ActionTypes'
    BY <1>1, <1>3, ForgottenCall DEF CompleteLedgerAdapter, ActionTypes
  <2>4. QED
    BY <1>1, <1>3, <2>2, <2>3 DEF CompleteLedgerAdapter, ToolTypes
<1>4. CASE RunOtherAdapter(h)
  <2>1. HandlersTyped' /\ execution' \in [Requests -> ExecutionRows]
    <3>1. \E ok \in BOOLEAN : Complete(h, ok)
      BY <1>4 DEF RunOtherAdapter
    <3>2. QED
      BY <1>1, <3>1, CompletionTypes
  <2>2. ran' \in [Requests -> Nat]
    <3>1. ran' = ran \/ ran' = [ran EXCEPT ![handler[h].x] = @ + 1]
      BY <1>4 DEF RunOtherAdapter
    <3>2. QED
      BY <1>1, <3>1 DEF ToolTypes
  <2>3. ActionTypes'
    BY <1>1, <1>4, ActionsUntouched DEF RunOtherAdapter
  <2>4. QED
    BY <1>1, <2>1, <2>2, <2>3 DEF ToolTypes
<1>5. QED
  BY <1>2, <1>3, <1>4

LEMMA HandlerLostTypes ==
    ASSUME ToolTypes, NEW h \in Callers, HandlerLost(h)
    PROVE  ToolTypes'
<1>1. HandlersTyped' /\ ActionTypes'
  BY DoneTyped, ForgottenCall DEF HandlerLost, ToolTypes, ActionTypes
<1>2. QED
  BY <1>1 DEF HandlerLost, ToolTypes

\* What a direct call, or one transaction of a call, does to the tool runtime: nothing.
LEMMA ActionStepTypes ==
    ASSUME ToolTypes, NEW h \in Callers, DirectCall(h) \/ ActionStep(h)
    PROVE  ToolTypes' /\ UNCHANGED <<execution, approval, proposal, handler, ran>>
<1>1. UNCHANGED <<execution, approval, proposal, handler, ran>>
  BY DEF DirectCall, ActionStep
<1>2. ActionTypes'
  <2>1. CASE DirectCall(h)
    <3>1. PICK k \in ApiKeys, data \in Parameters, retry \in BOOLEAN :
            CallAction(h, k, data, retry)
      BY <2>1 DEF DirectCall
    <3>2. k \in Keys
      BY ToolAssumption
    <3>3. QED
      BY <2>1, <3>1, <3>2, NewCall DEF DirectCall, ToolTypes, ActionTypes
  <2>2. CASE ActionTransaction(h) \/ RecordFailure(h)
    BY <2>2, TransactionTypes, RecordTypes DEF ToolTypes
  <2>3. CASE TakeAnswer(h) \/ CallLost(h)
    BY <2>3, ForgottenCall DEF TakeAnswer, CallLost, ToolTypes, ActionTypes
  <2>4. QED
    BY <2>1, <2>2, <2>3 DEF ActionStep
<1>3. QED
  BY <1>1, <1>2, HandlersUntouched DEF ToolTypes

LEMMA ToolTypesStep == ToolTypes /\ [ToolNext]_toolVars => ToolTypes'
<1> SUFFICES ASSUME ToolTypes, [ToolNext]_toolVars PROVE ToolTypes'
  OBVIOUS
<1>1. ASSUME NEW x \in Requests, ApprovalLapses(x) PROVE ToolTypes'
  <2>1. approval' \in [Requests -> ApprovalRows]
    BY <1>1 DEF ApprovalLapses, ToolTypes, ApprovalRows
  <2>2. QED
    BY <1>1, <2>1, ActionsUntouched, HandlersUntouched DEF ApprovalLapses, ToolTypes
<1>2. CASE UNCHANGED toolVars
  BY <1>2, ActionsUntouched, HandlersUntouched DEF toolVars, ToolTypes
<1>3. ASSUME NEW h \in Callers, ToolStep(h) PROVE ToolTypes'
  <2>1. Proposals \subseteq Requests
    BY ToolAssumption
  <2>2. QED
    BY <1>3, <2>1, BeginTypes, RequestTypes, TellingTypes, ReviewTypes, AdapterTypes,
       HandlerLostTypes DEF ToolStep
<1>4. QED
  BY <1>1, <1>2, <1>3, ActionStepTypes DEF ToolNext

LEMMA ToolTypesCorrect == ToolSpec => []ToolTypes
BY ToolInitTypes, ToolTypesStep, PTL DEF ToolSpec

------------------------------------------------------------------------------
(* The audit says what took effect *)

LEMMA AuditKeepsTelling ==
    ASSUME ActionTypes, AuditTellsEffects, NEW c \in Callers,
           ActionTransaction(c) \/ RecordFailure(c)
    PROVE  AuditTellsEffects'
<1>1. CASE UNCHANGED <<audit, effects>>
  BY <1>1 DEF AuditTellsEffects
<1>2. CASE /\ ActionTransaction(c)
           /\ audit[call[c].key].status # "completed"
           /\ audit' = [audit EXCEPT ![call[c].key] = [status |-> "completed",
                                                       data |-> call[c].data]]
           /\ effects' = [effects EXCEPT ![<<call[c].key, call[c].data>>] = @ + 1]
  <2>1. call[c].key \in Keys /\ call[c].data \in Parameters
    BY <1>2, TransactionCases DEF ActionTypes
  <2>2. \A e \in Parameters : effects[<<call[c].key, e>>] = 0
    BY <1>2, <2>1 DEF AuditTellsEffects
  <2>3. /\ effects'[<<call[c].key, call[c].data>>] = effects[<<call[c].key, call[c].data>>] + 1
        /\ \A l \in Keys, e \in Parameters :
              l # call[c].key \/ e # call[c].data => effects'[<<l, e>>] = effects[<<l, e>>]
    BY <1>2, <2>1, EffectCounted DEF ActionTypes
  <2>4. /\ audit'[call[c].key].status = "completed" /\ audit'[call[c].key].data = call[c].data
        /\ \A l \in Keys : l # call[c].key => audit'[l] = audit[l]
    BY <1>2, <2>1 DEF ActionTypes
  <2>5. ASSUME NEW l \in Keys, NEW e \in Parameters
        PROVE  effects'[<<l, e>>] =
                  IF audit'[l].status = "completed" /\ audit'[l].data = e THEN 1 ELSE 0
    <3>1. CASE l # call[c].key
      BY <2>3, <2>4, <3>1 DEF AuditTellsEffects
    <3>2. CASE l = call[c].key /\ e # call[c].data
      <4>1. effects'[<<l, e>>] = 0
        BY <2>2, <2>3, <3>2
      <4>2. QED
        BY <2>4, <3>2, <4>1
    <3>3. CASE l = call[c].key /\ e = call[c].data
      <4>1. effects'[<<l, e>>] = 0 + 1
        BY <2>1, <2>2, <2>3, <3>3
      <4>2. QED
        BY <2>4, <3>3, <4>1
    <3>4. QED
      BY <3>1, <3>2, <3>3
  <2>6. QED
    BY <2>5 DEF AuditTellsEffects
<1>3. CASE RecordFailure(c) /\ ~UNCHANGED <<audit, effects>>
  <2>1. /\ audit[call[c].key].status # "completed"
        /\ audit' = [audit EXCEPT ![call[c].key] = [status |-> "failed", data |-> "none"]]
        /\ UNCHANGED effects /\ call[c].at = "failing"
    BY <1>3 DEF RecordFailure
  <2>2. call[c].key \in Keys
    BY <2>1 DEF ActionTypes
  <2>3. \A l \in Keys : \/ audit'[l] = audit[l]
                        \/ audit[l].status # "completed" /\ audit'[l].status # "completed"
    BY <2>1, <2>2 DEF ActionTypes
  <2>4. QED
    BY <2>1, <2>3 DEF AuditTellsEffects
<1>4. QED
  BY <1>1, <1>2, <1>3, TransactionCases

\* Every other step leaves audit and effects alone.
LEMMA OnlyTransactionsAudit ==
    ASSUME ToolTypes, [ToolNext]_toolVars
    PROVE  \/ UNCHANGED <<audit, effects>>
           \/ \E c \in Callers : ActionTransaction(c) \/ RecordFailure(c)
<1>1. CASE UNCHANGED toolVars
  BY <1>1 DEF toolVars, actionVars
<1>2. ASSUME NEW x \in Requests, ApprovalLapses(x) PROVE UNCHANGED <<audit, effects>>
  BY <1>2 DEF ApprovalLapses, actionVars
<1>3. ASSUME NEW h \in Callers, DirectCall(h) PROVE UNCHANGED <<audit, effects>>
  BY <1>3 DEF DirectCall
<1>4. ASSUME NEW h \in Callers, ActionStep(h)
      PROVE  \/ UNCHANGED <<audit, effects>>
             \/ \E c \in Callers : ActionTransaction(c) \/ RecordFailure(c)
  BY <1>4 DEF ActionStep, TakeAnswer, CallLost
<1>5. ASSUME NEW h \in Callers, ToolStep(h) PROVE UNCHANGED <<audit, effects>>
  <2>1. CASE \/ BeginProposalSubmission(h) \/ CreateExecution(h) \/ Dispatch(h)
             \/ LinkProposalExecution(h) \/ FailProposalSubmission(h)
             \/ Approve(h) \/ Reject(h) \/ RereadExecution(h) \/ ToolExecutionUpdated(h)
    BY <2>1, RequestTypes, TellingTypes, ReviewTypes DEF actionVars
  <2>2. CASE RunLedgerAdapter(h) \/ CompleteLedgerAdapter(h) \/ RunOtherAdapter(h) \/ HandlerLost(h)
    BY <2>2 DEF RunLedgerAdapter, CompleteLedgerAdapter, RunOtherAdapter, HandlerLost, actionVars
  <2>3. CASE \/ \E x \in Requests : \/ ExecuteTool(h, x)
                                    \/ \E flow \in {"approve", "reject"} : Review(h, x, flow)
             \/ \E x \in Proposals : SubmitProposal(h, x)
    BY <2>3 DEF ExecuteTool, Review, SubmitProposal, actionVars
  <2>4. QED
    BY <1>5, <2>1, <2>2, <2>3 DEF ToolStep
<1>6. QED
  BY <1>1, <1>2, <1>3, <1>4, <1>5 DEF ToolNext

\* State and audit commit together: however many callers share a key, retry it, or
\* lose an answer, the audit is right about whether and how often the action was done.
THEOREM AuditIsTrue == ToolSpec => []AuditTellsEffects
<1>1. ToolInit => AuditTellsEffects
  BY DEF ToolInit, ActionsInit, AuditTellsEffects
<1>2. ToolTypes /\ AuditTellsEffects /\ [ToolNext]_toolVars => AuditTellsEffects'
  <2> SUFFICES ASSUME ToolTypes, AuditTellsEffects, [ToolNext]_toolVars
               PROVE  AuditTellsEffects'
    OBVIOUS
  <2>1. CASE UNCHANGED <<audit, effects>>
    BY <2>1 DEF AuditTellsEffects
  <2>2. CASE \E c \in Callers : ActionTransaction(c) \/ RecordFailure(c)
    BY <2>2, AuditKeepsTelling DEF ToolTypes
  <2>3. QED
    BY <2>1, <2>2, OnlyTransactionsAudit
<1>3. QED
  BY <1>1, <1>2, ToolTypesCorrect, PTL DEF ToolSpec

------------------------------------------------------------------------------
(* Approval and truth *)

\* The tool of a request may take effect.
Allowed(x) == \/ execution[x].policy = "auto"
              \/ execution[x].policy = "approve" /\ approval[x].by

RequestOK(x) ==
    /\ execution[x].status = "none" <=> execution[x].policy = "none"
    /\ approval[x].status # "none" => execution[x].policy = "approve"
    /\ approval[x].status = "approved" => approval[x].by
    /\ Happened(x) => Allowed(x)
    /\ execution[x].status = "completed" => Happened(x)
    /\ x \in Proposals /\ proposal[x].status = "completed" => Happened(x)

\* What a handler is about to do is allowed, and what it is about to tell is true.
HandlerOK(h) ==
    LET x == handler[h].x IN
    /\ handler[h].at \in {"reviewing", "reread"} => execution[x].policy = "approve"
    /\ handler[h].at = "reviewing" /\ ~handler[h].pending => approval[x].by
    /\ handler[h].at = "reread" /\ handler[h].flow = "approve" => approval[x].by
    /\ handler[h].at = "adapter" => Allowed(x)
    /\ handler[h].at \in {"notify", "return"} /\ handler[h].seen = "completed" => Happened(x)

\* A call of the ERP is an adapter's own or has a key of no request; what it answers
\* is true.
CallOK(c) ==
    call[c].at # "idle" =>
        /\ \/ handler[c].at = "idle" /\ call[c].key \in ApiKeys
           \/ /\ handler[c].at = "adapter" /\ handler[c].x \in LedgerTools
              /\ call[c].key = handler[c].x /\ call[c].data = ToolData
        /\ call[c].at = "answered" /\ call[c].ok => effects[<<call[c].key, call[c].data>>] > 0

ToldOK == told \subseteq Keys \X Parameters /\ \A kd \in told : effects[kd] > 0

ToolInv ==
    /\ ToolTypes
    /\ AuditTellsEffects
    /\ \A x \in Requests : RequestOK(x)
    /\ \A h \in Callers : HandlerOK(h) /\ CallOK(h)
    /\ ToldOK

\* Nothing that a handler relies on is taken back.
Grows ==
    /\ \A x \in Requests : execution[x].policy # "none" => execution'[x].policy = execution[x].policy
    /\ \A x \in Requests : approval[x].by => approval'[x].by
    /\ \A kd \in Keys \X Parameters : effects[kd] > 0 => effects'[kd] > 0
    /\ \A x \in Requests : ran[x] > 0 => ran'[x] > 0

LEMMA GrowsKeeps ==
    ASSUME Grows, NEW x \in Requests
    PROVE  /\ Allowed(x) => Allowed(x)'
           /\ Happened(x) => Happened(x)'
           /\ execution[x].policy = "approve" => execution'[x].policy = "approve"
           /\ approval[x].by => approval'[x].by
<1>1. <<x, ToolData>> \in Keys \X Parameters
  BY ToolAssumption
<1>2. QED
  BY <1>1 DEF Grows, Allowed, Happened

LEMMA HandlerKept ==
    ASSUME ToolTypes, Grows, NEW h \in Callers, HandlerOK(h),
           handler'[h] = handler[h] \/ handler'[h].at = "idle"
    PROVE  HandlerOK(h)'
<1>1. CASE handler'[h].at = "idle"
  BY <1>1 DEF HandlerOK
<1>2. CASE handler[h].at = "idle" /\ handler'[h] = handler[h]
  BY <1>2 DEF HandlerOK
<1>3. CASE handler[h].at # "idle" /\ handler'[h] = handler[h]
  <2>1. PICK x \in Requests : x = handler[h].x
    BY <1>3 DEF ToolTypes, HandlersTyped
  <2>2. /\ Allowed(x) => Allowed(x)'
        /\ Happened(x) => Happened(x)'
        /\ execution[x].policy = "approve" => execution'[x].policy = "approve"
        /\ approval[x].by => approval'[x].by
    BY GrowsKeeps
  <2>3. /\ Allowed(handler[h].x) => Allowed(handler[h].x)'
        /\ Happened(handler[h].x) => Happened(handler[h].x)'
    BY <1>3, <2>1, <2>2 DEF Allowed, Happened
  <2>4. /\ execution[handler[h].x].policy = "approve" => execution'[handler'[h].x].policy = "approve"
        /\ approval[handler[h].x].by => approval'[handler'[h].x].by
    BY <1>3, <2>1, <2>2
  <2>5. QED
    BY <1>3, <2>3, <2>4 DEF HandlerOK
<1>4. QED
  BY <1>1, <1>2, <1>3

LEMMA CallKept ==
    ASSUME ToolTypes, Grows, NEW c \in Callers, CallOK(c),
           \/ call'[c].at = "idle"
           \/ call'[c] = call[c] /\ handler'[c] = handler[c]
    PROVE  CallOK(c)'
<1>1. CASE call'[c].at = "idle"
  BY <1>1 DEF CallOK
<1>2. CASE call'[c] = call[c] /\ handler'[c] = handler[c] /\ call[c].at # "idle"
  <2>1. <<call[c].key, call[c].data>> \in Keys \X Parameters
    BY <1>2 DEF ToolTypes, ActionTypes
  <2>2. effects[<<call[c].key, call[c].data>>] > 0 => effects'[<<call[c].key, call[c].data>>] > 0
    BY <2>1 DEF Grows
  <2>3. QED
    BY <1>2, <2>2 DEF CallOK
<1>3. QED
  BY <1>1, <1>2 DEF CallOK

\* A handler that is busy elsewhere has no call of the ERP.
LEMMA BusyHasNoCall ==
    ASSUME NEW c \in Callers, CallOK(c), handler[c].at \notin {"idle", "adapter"}
    PROVE  call[c].at = "idle"
BY DEF CallOK

LEMMA ToldKept ==
    ASSUME Grows, ToldOK, UNCHANGED told
    PROVE  ToldOK'
BY DEF Grows, ToldOK

LEMMA CallsUntouched ==
    ASSUME ToolInv, Grows, NEW h \in Callers, handler[h].at \notin {"idle", "adapter"},
           UNCHANGED call, \A g \in Callers : g # h => handler'[g] = handler[g]
    PROVE  \A c \in Callers : CallOK(c)'
<1>1. ASSUME NEW c \in Callers PROVE CallOK(c)'
  <2>1. CASE c = h
    BY <2>1, BusyHasNoCall, CallKept DEF ToolInv
  <2>2. CASE c # h
    BY <2>2, CallKept DEF ToolInv
  <2>3. QED
    BY <2>1, <2>2
<1>2. QED
  BY <1>1

\* What is left to show of a step that changes one handler.
GoodStep ==
    /\ Grows
    /\ \A x \in Requests : RequestOK(x)'
    /\ \A h \in Callers : HandlerOK(h)' /\ CallOK(h)'
    /\ ToldOK'

\* Handlers that did not move need no further thought.
LEMMA OneHandler ==
    ASSUME ToolInv, Grows, NEW h \in Callers, HandlerOK(h)',
           \A g \in Callers : g # h => handler'[g] = handler[g]
    PROVE  \A g \in Callers : HandlerOK(g)'
BY HandlerKept DEF ToolInv

\* Nothing changed of what requests are judged by.
LEMMA RequestsUntouched ==
    ASSUME ToolInv, UNCHANGED <<actionVars, execution, approval, ran>>
    PROVE  /\ Grows /\ ToldOK'
           /\ \A x \in Requests :
                 /\ Allowed(x) <=> Allowed(x)'
                 /\ Happened(x) <=> Happened(x)'
                 /\ (x \in Proposals => proposal'[x].status = proposal[x].status \/ Happened(x)
                                        \/ proposal'[x].status # "completed") => RequestOK(x)'
<1>1. Grows
  BY DEF Grows, actionVars
<1>2. ToldOK'
  BY <1>1, ToldKept DEF ToolInv, actionVars
<1>3. ASSUME NEW x \in Requests
      PROVE  /\ Allowed(x) <=> Allowed(x)'
             /\ Happened(x) <=> Happened(x)'
  BY DEF Allowed, Happened, actionVars
<1>4. ASSUME NEW x \in Requests,
             x \in Proposals => proposal'[x].status = proposal[x].status \/ Happened(x)
                                \/ proposal'[x].status # "completed"
      PROVE  RequestOK(x)'
  <2>1. RequestOK(x)
    BY DEF ToolInv
  <2>2. UNCHANGED <<execution, approval>>
    OBVIOUS
  <2>3. QED
    BY <1>3, <1>4, <2>1, <2>2 DEF RequestOK
<1>5. QED
  BY <1>1, <1>2, <1>3, <1>4

LEMMA BeginGood ==
    ASSUME ToolInv, NEW h \in Callers, NEW x \in Requests,
           \/ ExecuteTool(h, x)
           \/ x \in Proposals /\ SubmitProposal(h, x)
           \/ Review(h, x, "approve") \/ Review(h, x, "reject")
    PROVE  GoodStep
<1>1. ToolTypes /\ RequestOK(x)
  BY DEF ToolInv
<1>2. /\ handler[h].at = "idle" /\ call[h].at = "idle"
      /\ UNCHANGED <<actionVars, execution, approval, proposal, ran>>
      /\ handler'[h].x = x
      /\ \/ handler'[h].at \in {"insert", "begin"}
         \/ /\ handler'[h].at = "reviewing" /\ approval[x].status \in {"pending", "approved"}
            /\ ~handler'[h].pending => approval[x].status = "approved"
      /\ \A g \in Callers : g # h => handler'[g] = handler[g]
  BY <1>1, BeginTypes
<1>3. Grows /\ ToldOK' /\ \A y \in Requests : RequestOK(y)'
  BY <1>2, RequestsUntouched
<1>4. HandlerOK(h)'
  BY <1>1, <1>2 DEF HandlerOK, RequestOK
<1>5. \A g \in Callers : HandlerOK(g)'
  BY <1>2, <1>3, <1>4, OneHandler
<1>6. \A c \in Callers : CallOK(c)'
  <2>1. UNCHANGED call
    BY <1>2 DEF actionVars
  <2>2. QED
    BY <1>1, <1>2, <1>3, <2>1, CallKept DEF ToolInv
<1>7. QED
  BY <1>3, <1>5, <1>6 DEF GoodStep

LEMMA TellingGood ==
    ASSUME ToolInv, NEW h \in Callers,
           LinkProposalExecution(h) \/ FailProposalSubmission(h) \/ ToolExecutionUpdated(h)
    PROVE  GoodStep
<1>1. ToolTypes /\ HandlerOK(h)
  BY DEF ToolInv
<1>2. /\ handler[h].at \in {"return", "error", "notify"}
      /\ UNCHANGED <<actionVars, execution, approval, ran>>
      /\ handler'[h] = Idle \/ \E at \in {"return", "error"} :
            handler'[h] = [handler[h] EXCEPT !.at = at]
      /\ \A g \in Callers : g # h => handler'[g] = handler[g]
  BY <1>1, TellingTypes
<1>3. /\ handler[h] \in HandlerRows /\ handler[h].x \in Requests
      /\ handler[h].seen \in ExecutionStatuses
  BY <1>1, <1>2 DEF ToolTypes, HandlersTyped, HandlerRows
<1>4. ASSUME NEW x \in Proposals
      PROVE  \/ proposal'[x].status = proposal[x].status
             \/ Happened(x)
             \/ proposal'[x].status # "completed"
  <2>1. CASE x # handler[h].x \/ proposal' = proposal
    BY <1>1, <2>1 DEF LinkProposalExecution, FailProposalSubmission, ToolExecutionUpdated, ToolTypes
  <2>2. CASE x = handler[h].x /\ FailProposalSubmission(h)
    BY <1>1, <2>2 DEF FailProposalSubmission, ToolTypes, ProposalRows
  <2>3. CASE /\ x = handler[h].x /\ proposal' # proposal
             /\ LinkProposalExecution(h) \/ ToolExecutionUpdated(h)
    <3>1. proposal'[x].status = proposalStatus(handler[h].seen)
      BY <1>1, <2>3 DEF LinkProposalExecution, ToolExecutionUpdated, ToolTypes, ProposalRows
    <3>2. handler[h].at \in {"return", "notify"}
      BY <2>3 DEF LinkProposalExecution, ToolExecutionUpdated
    <3>3. handler[h].seen = "completed" => Happened(x)
      BY <1>1, <2>3, <3>2 DEF HandlerOK
    <3>4. QED
      BY <1>3, <3>1, <3>3, ProposalStatusType
  <2>4. QED
    BY <2>1, <2>2, <2>3
<1>5. Grows /\ ToldOK' /\ \A y \in Requests : RequestOK(y)'
  BY <1>2, <1>4, RequestsUntouched
<1>6. HandlerOK(h)'
  <2>1. CASE handler'[h] = Idle
    BY <2>1 DEF HandlerOK, Idle
  <2>2. CASE handler'[h] = [handler[h] EXCEPT !.at = "error"]
    <3>1. handler'[h].at = "error"
      BY <1>3, <2>2 DEF HandlerRows
    <3>2. QED
      BY <3>1 DEF HandlerOK
  <2>3. CASE handler'[h] = [handler[h] EXCEPT !.at = "return"] /\ handler[h].at = "notify"
    <3>1. /\ handler'[h].at = "return" /\ handler'[h].x = handler[h].x
          /\ handler'[h].seen = handler[h].seen
      BY <1>3, <2>3 DEF HandlerRows
    <3>2. Happened(handler[h].x) <=> Happened(handler[h].x)'
      BY <1>2, <3>1 DEF Happened, actionVars
    <3>3. QED
      BY <1>1, <2>3, <3>1, <3>2 DEF HandlerOK
  <2>4. CASE handler'[h] = [handler[h] EXCEPT !.at = "return"] /\ handler[h].at # "notify"
    <3>1. Done(h)
      BY <1>2, <2>4 DEF LinkProposalExecution, FailProposalSubmission, ToolExecutionUpdated
    <3>2. handler'[h] = Idle
      BY <1>1, <3>1, DoneTyped DEF ToolTypes
    <3>3. QED
      BY <2>1, <3>2
  <2>5. QED
    BY <1>2, <2>1, <2>2, <2>3, <2>4
<1>7. \A g \in Callers : HandlerOK(g)'
  BY <1>2, <1>5, <1>6, OneHandler
<1>8. \A c \in Callers : CallOK(c)'
  BY <1>2, <1>5, CallsUntouched DEF actionVars
<1>9. QED
  BY <1>5, <1>7, <1>8 DEF GoodStep

\* A step of one handler on one request: the other requests and handlers need no
\* further thought.
LEMMA OneRequest ==
    ASSUME ToolInv, NEW h \in Callers, NEW x \in Requests, UNCHANGED <<effects, told>>,
           execution[x].policy # "none" => execution'[x].policy = execution[x].policy,
           approval[x].by => approval'[x].by,
           ran[x] > 0 => ran'[x] > 0,
           RequestOK(x)', HandlerOK(h)',
           \A y \in Requests : y # x => /\ execution'[y] = execution[y]
                                        /\ approval'[y] = approval[y]
                                        /\ ran'[y] = ran[y],
           \A y \in Proposals : y # x => proposal'[y] = proposal[y],
           \A g \in Callers : g # h => handler'[g] = handler[g] /\ call'[g] = call[g],
           call'[h].at = "idle"
    PROVE  GoodStep
<1>1. Grows
  BY DEF Grows
<1>2. ToldOK'
  BY <1>1, ToldKept DEF ToolInv
<1>3. ASSUME NEW y \in Requests, y # x PROVE RequestOK(y)'
  <2>1. /\ execution'[y] = execution[y] /\ approval'[y] = approval[y] /\ ran'[y] = ran[y]
        /\ y \in Proposals => proposal'[y] = proposal[y]
        /\ RequestOK(y)
    BY <1>3 DEF ToolInv
  <2>2. Happened(y) <=> Happened(y)'
    BY <2>1 DEF Happened
  <2>3. Allowed(y) <=> Allowed(y)'
    BY <2>1 DEF Allowed
  <2>4. QED
    BY <2>1, <2>2, <2>3 DEF RequestOK
<1>4. \A g \in Callers : HandlerOK(g)'
  BY <1>1, OneHandler
<1>5. \A c \in Callers : CallOK(c)'
  <2>1. ASSUME NEW c \in Callers, c # h PROVE CallOK(c)'
    BY <1>1, <2>1, CallKept DEF ToolInv
  <2>2. CallOK(h)'
    BY DEF CallOK
  <2>3. QED
    BY <2>1, <2>2
<1>6. QED
  BY <1>1, <1>2, <1>3, <1>4, <1>5 DEF GoodStep

LEMMA RequestGood ==
    ASSUME ToolInv, NEW h \in Callers,
           BeginProposalSubmission(h) \/ CreateExecution(h) \/ Dispatch(h)
    PROVE  GoodStep
<1>1. /\ ToolTypes /\ HandlersTyped /\ handler[h] \in HandlerRows
      /\ \A x \in Requests : RequestOK(x)
  BY DEF ToolInv, ToolTypes, HandlersTyped
<1>2. /\ handler[h].at \in {"begin", "insert", "dispatch"}
      /\ UNCHANGED <<actionVars, ran>>
      /\ \A g \in Callers : g # h => handler'[g] = handler[g]
  BY <1>1, RequestTypes
<1>3. PICK x \in Requests : x = handler[h].x
  BY <1>1, <1>2 DEF HandlersTyped
<1>4. UNCHANGED <<effects, told, ran, call>>
  BY <1>2 DEF actionVars
<1>5. /\ handler[h].at # "idle"
       /\ "insert" \in Steps /\ "dispatch" \in Steps /\ "adapter" \in Steps
       /\ "error" \in Steps
  BY <1>2 DEF Steps
<1>6. SUFFICES /\ execution[x].policy # "none" => execution'[x].policy = execution[x].policy
               /\ approval[x].by => approval'[x].by
               /\ RequestOK(x)' /\ HandlerOK(h)'
               /\ \A y \in Requests : y # x => /\ execution'[y] = execution[y]
                                               /\ approval'[y] = approval[y]
               /\ \A y \in Proposals : y # x => proposal'[y] = proposal[y]
  <2>1. CallOK(h)
    BY DEF ToolInv
  <2>2. call'[h].at = "idle" /\ \A g \in Callers : call'[g] = call[g]
    BY <1>2, <1>4, <2>1, BusyHasNoCall
  <2>3. QED
    BY <1>2, <1>4, <1>6, <2>2, OneRequest
<1>7. Happened(x) <=> Happened(x)'
  BY <1>4 DEF Happened
<1>8. CASE BeginProposalSubmission(h)
  <2>1. UNCHANGED <<execution, approval>> /\ (Go(h, "insert") \/ Done(h))
        /\ (proposal' = proposal \/ proposal' = [proposal EXCEPT ![x].status = "submitting"])
    BY <1>3, <1>8 DEF BeginProposalSubmission
  <2>2. \/ handler'[h] = [handler[h] EXCEPT !.at = "insert"]
        \/ handler'[h] = Idle
    BY <1>1, <1>5, <2>1, GoTyped, DoneTyped
  <2>3. handler'[h].at \in {"insert", "idle"}
    BY <1>1, <2>2 DEF HandlerRows, Idle
  <2>4. HandlerOK(h)'
    BY <2>3 DEF HandlerOK
  <2>5. RequestOK(x)'
    <3>1. x \in Proposals /\ proposal'[x].status = "completed" => proposal[x].status = "completed"
      BY <1>1, <2>1 DEF ToolTypes, ProposalRows
    <3>2. Allowed(x) <=> Allowed(x)'
      BY <2>1 DEF Allowed
    <3>3. RequestOK(x)
      BY <1>1
    <3>4. QED
      BY <1>7, <2>1, <3>1, <3>2, <3>3 DEF RequestOK
  <2>6. \A y \in Proposals : y # x => proposal'[y] = proposal[y]
    BY <1>1, <2>1 DEF ToolTypes
  <2>7. QED
    BY <2>1, <2>4, <2>5, <2>6
<1>9. CASE CreateExecution(h)
  <2>1. UNCHANGED <<approval, proposal>> /\ RequestOK(x)
    BY <1>1, <1>9 DEF CreateExecution
  <2>2. CASE execution[x].status = "none"
    <3>1. PICK policy \in Policies(x), retry \in BOOLEAN :
            /\ execution' = [execution EXCEPT ![x] =
                                [status |-> StatusOf(policy), retry |-> retry, policy |-> policy]]
            /\ Go(h, "dispatch")
      BY <1>3, <1>9, <2>2 DEF CreateExecution
    <3>2. policy \in {"deny", "approve", "auto"}
      BY DEF Policies
    <3>3. StatusOf(policy) \notin {"none", "completed"}
      BY <3>2, PolicyStatus
    <3>4. execution'[x] = [status |-> StatusOf(policy), retry |-> retry, policy |-> policy]
      BY <1>1, <3>1 DEF ToolTypes
    <3>5. execution[x].policy = "none" /\ ~Allowed(x)
      BY <2>1, <2>2 DEF RequestOK, Allowed
    <3>6. RequestOK(x)'
      BY <1>7, <2>1, <2>2, <3>2, <3>3, <3>4, <3>5 DEF RequestOK
    <3>7. handler'[h].at = "dispatch"
      BY <1>1, <1>5, <3>1, GoTyped
    <3>8. HandlerOK(h)'
      BY <3>7 DEF HandlerOK
    <3>9. \A y \in Requests : y # x => execution'[y] = execution[y]
      BY <1>1, <3>1 DEF ToolTypes
    <3>10. QED
      BY <2>1, <3>5, <3>6, <3>8, <3>9
  <2>3. CASE execution[x].status # "none"
    <3>1. handler' = [handler EXCEPT ![h].at = "return", ![h].seen = execution[x].status]
          /\ UNCHANGED execution
      BY <1>3, <1>9, <2>3 DEF CreateExecution
    <3>2. execution[x].status \in ExecutionStatuses
      BY <1>1 DEF ToolTypes, ExecutionRows
    <3>4. /\ handler'[h].at = "return" /\ handler'[h].x = x
          /\ handler'[h].seen = execution[x].status
      BY <1>1, <1>3, <3>1 DEF HandlersTyped, HandlerRows
    <3>5. handler'[h].seen = "completed" => Happened(handler[h].x)'
      BY <1>3, <1>7, <2>1, <3>4 DEF RequestOK, Happened
    <3>6. HandlerOK(h)'
      BY <3>4, <3>5 DEF HandlerOK
    <3>7. Allowed(x) <=> Allowed(x)'
      BY <2>1, <3>1 DEF Allowed
    <3>8. RequestOK(x)'
      BY <1>7, <2>1, <3>1, <3>7 DEF RequestOK
    <3>9. QED
      BY <2>1, <3>1, <3>6, <3>8
  <2>4. QED
    BY <2>2, <2>3
<1>10. CASE Dispatch(h)
  <2>1. UNCHANGED proposal /\ RequestOK(x)
    BY <1>1, <1>10 DEF Dispatch
  <2>2. CASE /\ execution[x].policy = "deny"
             /\ execution' = [execution EXCEPT ![x].status = "denied"]
             /\ handler' = [handler EXCEPT ![h].at = "notify", ![h].seen = "denied"]
             /\ UNCHANGED approval
    <3>2. handler'[h].at = "notify" /\ handler'[h].seen = "denied"
      BY <1>1, <2>2 DEF HandlersTyped, HandlerRows
    <3>3. HandlerOK(h)'
      BY <3>2 DEF HandlerOK
    <3>4. /\ execution'[x].status = "denied" /\ execution'[x].policy = execution[x].policy
          /\ \A y \in Requests : y # x => execution'[y] = execution[y]
      BY <1>1, <2>2 DEF ToolTypes, ExecutionRows
    <3>5. Allowed(x) <=> Allowed(x)'
      BY <2>2, <3>4 DEF Allowed
    <3>6. RequestOK(x)'
      BY <1>7, <2>1, <2>2, <3>4, <3>5 DEF RequestOK
    <3>7. QED
      BY <2>1, <2>2, <3>3, <3>4, <3>6
  <2>3. CASE /\ execution[x].policy = "approve"
             /\ approval' = [approval EXCEPT ![x].status = "pending"]
             /\ handler' = [handler EXCEPT ![h].at = "return", ![h].seen = "approval_required"]
             /\ UNCHANGED execution
    <3>2. handler'[h].at = "return" /\ handler'[h].seen = "approval_required"
      BY <1>1, <2>3 DEF HandlersTyped, HandlerRows
    <3>3. HandlerOK(h)'
      BY <3>2 DEF HandlerOK
    <3>4. /\ approval'[x].status = "pending" /\ approval'[x].by = approval[x].by
          /\ \A y \in Requests : y # x => approval'[y] = approval[y]
      BY <1>1, <2>3 DEF ToolTypes, ApprovalRows
    <3>5. Allowed(x) <=> Allowed(x)'
      BY <2>3, <3>4 DEF Allowed
    <3>6. RequestOK(x)'
      BY <1>7, <2>1, <2>3, <3>4, <3>5 DEF RequestOK
    <3>7. QED
      BY <2>1, <2>3, <3>3, <3>4, <3>6
  <2>4. CASE /\ UNCHANGED <<execution, approval>>
             /\ \/ Go(h, "error")
                \/ Go(h, "adapter") /\ execution[x].policy = "auto"
    <3>1. Allowed(x) <=> Allowed(x)'
      BY <2>4 DEF Allowed
    <3>2. RequestOK(x)'
      BY <1>7, <2>1, <2>4, <3>1 DEF RequestOK
    <3>3. CASE Go(h, "error")
      <4>1. handler'[h].at = "error"
        BY <1>1, <1>5, <3>3, GoTyped
      <4>2. HandlerOK(h)'
        BY <4>1 DEF HandlerOK
      <4>3. QED
        BY <2>1, <2>4, <3>2, <4>2
    <3>4. CASE Go(h, "adapter") /\ execution[x].policy = "auto"
      <4>1. handler'[h].at = "adapter" /\ handler'[h].x = x
        BY <1>1, <1>3, <1>5, <3>4, GoTyped
      <4>2. HandlerOK(h)'
        BY <2>4, <3>4, <4>1 DEF HandlerOK, Allowed
      <4>3. QED
        BY <2>1, <2>4, <3>2, <4>2
    <3>5. QED
      BY <2>4, <3>3, <3>4
  <2>5. QED
    BY <1>3, <1>10, <2>2, <2>3, <2>4 DEF Dispatch
<1>11. QED
  BY <1>8, <1>9, <1>10

LEMMA ReviewGood ==
    ASSUME ToolInv, NEW h \in Callers, Approve(h) \/ Reject(h) \/ RereadExecution(h)
    PROVE  GoodStep
<1>1. /\ ToolTypes /\ HandlersTyped /\ handler[h] \in HandlerRows /\ HandlerOK(h)
      /\ \A x \in Requests : RequestOK(x)
  BY DEF ToolInv, ToolTypes, HandlersTyped
<1>2. /\ handler[h].at \in {"reviewing", "reread"}
      /\ UNCHANGED <<actionVars, proposal, ran>>
      /\ \A g \in Callers : g # h => handler'[g] = handler[g]
  BY <1>1, ReviewTypes
<1>3. PICK x \in Requests : x = handler[h].x
  BY <1>1, <1>2 DEF HandlersTyped
<1>4. UNCHANGED <<effects, told, ran, call>> /\ RequestOK(x)
  BY <1>1, <1>2 DEF actionVars
<1>5. Happened(x) <=> Happened(x)'
  BY <1>4 DEF Happened
<1>6. call'[h].at = "idle"
  BY <1>2, <1>4, BusyHasNoCall DEF ToolInv
<1>7. execution[x].policy = "approve"
  BY <1>1, <1>2, <1>3 DEF HandlerOK
<1>8. CASE /\ UNCHANGED <<execution, approval>>
           /\ \/ handler'[h].at = "idle"
              \/ /\ handler'[h].at = "adapter" /\ handler'[h].x = handler[h].x
                 /\ \/ handler[h].at = "reviewing" /\ ~handler[h].pending
                    \/ handler[h].at = "reread" /\ handler[h].flow = "approve"
              \/ /\ handler'[h].at = "notify" /\ handler'[h].x = handler[h].x
                 /\ handler'[h].seen = execution[handler[h].x].status
  <2>1. Allowed(x) <=> Allowed(x)'
    BY <1>8 DEF Allowed
  <2>2. RequestOK(x)'
    BY <1>2, <1>4, <1>5, <1>8, <2>1 DEF RequestOK
  <2>3. CASE handler'[h].at = "idle"
    <3>1. HandlerOK(h)'
      BY <2>3 DEF HandlerOK
    <3>2. QED
      BY <1>2, <1>4, <1>6, <1>8, <2>2, <3>1, OneRequest
  <2>4. CASE /\ handler'[h].at = "adapter" /\ handler'[h].x = handler[h].x
             /\ \/ handler[h].at = "reviewing" /\ ~handler[h].pending
                \/ handler[h].at = "reread" /\ handler[h].flow = "approve"
    <3>1. approval[x].by
      BY <1>1, <1>3, <2>4 DEF HandlerOK
    <3>2. execution'[x].policy = "approve" /\ approval'[x].by
      BY <1>7, <1>8, <3>1
    <3>3. HandlerOK(h)'
      BY <1>3, <2>4, <3>2 DEF HandlerOK, Allowed
    <3>4. QED
      BY <1>2, <1>4, <1>6, <1>8, <2>2, <3>3, OneRequest
  <2>5. CASE /\ handler'[h].at = "notify" /\ handler'[h].x = handler[h].x
             /\ handler'[h].seen = execution[handler[h].x].status
    <3>1. handler'[h].seen = "completed" => Happened(handler[h].x)'
      BY <1>3, <1>4, <1>5, <2>5 DEF RequestOK, Happened
    <3>2. HandlerOK(h)'
      BY <2>5, <3>1 DEF HandlerOK
    <3>3. QED
      BY <1>2, <1>4, <1>6, <1>8, <2>2, <3>2, OneRequest
  <2>6. QED
    BY <1>8, <2>3, <2>4, <2>5
<1>9. ASSUME handler'[h].at = "reread", handler'[h].x = handler[h].x,
             NEW status \in {"approved", "rejected", "expired"},
             NEW executionStatus \in {"approved", "rejected", "failed"},
             UpdateApproval(h, status, executionStatus),
             handler'[h].flow = "approve" => status = "approved"
      PROVE  GoodStep
  <2>1. /\ execution'[x].status = executionStatus /\ execution'[x].policy = execution[x].policy
        /\ \A y \in Requests : y # x => execution'[y] = execution[y]
    BY <1>1, <1>3, <1>9 DEF UpdateApproval, ToolTypes, ExecutionRows
  <2>2. /\ approval'[x].status = status
        /\ approval'[x].by = (approval[x].by \/ status = "approved")
        /\ \A y \in Requests : y # x => approval'[y] = approval[y]
    BY <1>1, <1>3, <1>9 DEF UpdateApproval, ToolTypes, ApprovalRows
  <2>3. (approval[x].by => approval'[x].by) /\ (status = "approved" => approval'[x].by)
    BY <2>2
  <2>4. Allowed(x) => Allowed(x)'
    BY <2>1, <2>3 DEF Allowed
  <2>5. RequestOK(x)'
    BY <1>2, <1>4, <1>5, <1>7, <1>9, <2>1, <2>2, <2>3, <2>4 DEF RequestOK
  <2>6. HandlerOK(h)'
    BY <1>3, <1>7, <1>9, <2>1, <2>3 DEF HandlerOK
  <2>7. QED
    BY <1>2, <1>4, <1>6, <2>1, <2>2, <2>3, <2>5, <2>6, OneRequest
<1>10. QED
  BY <1>1, <1>8, <1>9, ReviewTypes

\* A step of the ERP's actions: the tool runtime's own state stands still.
LEMMA ActionsMove ==
    ASSUME ToolInv, UNCHANGED <<execution, approval, proposal, handler, ran>>,
           \A kd \in Keys \X Parameters : effects[kd] > 0 => effects'[kd] > 0,
           \A x \in Requests : effects'[<<x, ToolData>>] > 0 =>
              effects[<<x, ToolData>>] > 0 \/ Allowed(x),
           ToldOK', \A c \in Callers : CallOK(c)'
    PROVE  GoodStep
<1>1. Grows
  BY DEF Grows
<1>2. ASSUME NEW x \in Requests PROVE RequestOK(x)'
  <2>1. RequestOK(x)
    BY DEF ToolInv
  <2>2. Allowed(x) <=> Allowed(x)'
    BY DEF Allowed
  <2>3. Happened(x) => Happened(x)'
    BY <1>1, GrowsKeeps
  <2>4. Happened(x)' => Allowed(x)
    BY <2>1 DEF Happened, RequestOK
  <2>5. QED
    BY <2>1, <2>2, <2>3, <2>4 DEF RequestOK
<1>3. \A h \in Callers : HandlerOK(h)'
  BY <1>1, HandlerKept DEF ToolInv
<1>4. QED
  BY <1>1, <1>2, <1>3 DEF GoodStep

LEMMA AnswerFields ==
    ASSUME ActionTypes, NEW c \in Callers, NEW ok \in BOOLEAN
    PROVE  /\ Answered(c, ok)[c].at = "answered" /\ Answered(c, ok)[c].ok = ok
           /\ Answered(c, ok)[c].key = call[c].key /\ Answered(c, ok)[c].data = call[c].data
           /\ Failing(c)[c].at = "failing"
           /\ Failing(c)[c].key = call[c].key /\ Failing(c)[c].data = call[c].data
           /\ \A d \in Callers : d # c => /\ Answered(c, ok)[d] = call[d]
                                          /\ Failing(c)[d] = call[d]
<1>1. call[c] \in CallRows
  BY DEF ActionTypes
<1>2. QED
  BY <1>1 DEF Answered, Failing, ActionTypes, CallRows

\* A call keeps its key and parameters until it is answered.
LEMMA CallAnswered ==
    ASSUME ToolInv, NEW c \in Callers, call[c].at # "idle", UNCHANGED handler,
           \A kd \in Keys \X Parameters : effects[kd] > 0 => effects'[kd] > 0,
           NEW ok \in BOOLEAN, call' \in {Answered(c, ok), Failing(c)},
           call' = Answered(c, ok) /\ ok => effects'[<<call[c].key, call[c].data>>] > 0,
           UNCHANGED <<execution, approval, ran>>
    PROVE  \A d \in Callers : CallOK(d)'
<1>1. Grows
  BY DEF Grows
<1>2. /\ call'[c].key = call[c].key /\ call'[c].data = call[c].data
      /\ call'[c].at = "answered" /\ call'[c].ok => effects'[<<call[c].key, call[c].data>>] > 0
      /\ \A d \in Callers : d # c => call'[d] = call[d]
  <2>1. ActionTypes
    BY DEF ToolInv, ToolTypes
  <2>2. CASE call' = Answered(c, ok)
    BY <2>1, <2>2, AnswerFields
  <2>3. CASE call' = Failing(c)
    <3>1. call'[c].at = "failing"
      BY <2>1, <2>3, AnswerFields
    <3>2. QED
      BY <2>1, <2>3, <3>1, AnswerFields
  <2>4. QED
    BY <2>2, <2>3
<1>3. CallOK(c)'
  <2>1. CallOK(c)
    BY DEF ToolInv
  <2>2. QED
    BY <1>2, <2>1 DEF CallOK
<1>4. ASSUME NEW d \in Callers, d # c PROVE CallOK(d)'
  BY <1>1, <1>2, <1>4, CallKept DEF ToolInv
<1>5. QED
  BY <1>3, <1>4

LEMMA ActionsGood ==
    ASSUME ToolInv, NEW c \in Callers, ActionTransaction(c) \/ RecordFailure(c),
           UNCHANGED <<execution, approval, proposal, handler, ran>>
    PROVE  GoodStep
<1>1. /\ ToolTypes /\ ActionTypes /\ AuditTellsEffects /\ CallOK(c) /\ HandlerOK(c)
      /\ effects \in [Keys \X Parameters -> Nat]
  BY DEF ToolInv, ToolTypes, ActionTypes
<1>2. call[c].at \in {"called", "failing"} /\ UNCHANGED told
  BY TransactionCases DEF RecordFailure
<1>3. call[c].key \in Keys /\ call[c].data \in Parameters
  BY <1>1, <1>2 DEF ActionTypes
<1>4. ASSUME UNCHANGED effects, NEW ok \in BOOLEAN, call' \in {Answered(c, ok), Failing(c)},
             call' = Answered(c, ok) /\ ok => effects[<<call[c].key, call[c].data>>] > 0
      PROVE  GoodStep
  <2>1. \A d \in Callers : CallOK(d)'
    BY <1>2, <1>4, CallAnswered
  <2>2. ToldOK'
    BY <1>2, <1>4 DEF ToolInv, ToldOK
  <2>3. QED
    BY <1>4, <2>1, <2>2, ActionsMove
<1>5. CASE RecordFailure(c)
  BY <1>4, <1>5 DEF RecordFailure
<1>6. CASE /\ ActionTransaction(c)
           /\ effects' = [effects EXCEPT ![<<call[c].key, call[c].data>>] = @ + 1]
           /\ call' \in {Answered(c, TRUE), Failing(c)}
  <2>1. /\ effects'[<<call[c].key, call[c].data>>] = effects[<<call[c].key, call[c].data>>] + 1
        /\ \A l \in Keys, e \in Parameters :
              l # call[c].key \/ e # call[c].data => effects'[<<l, e>>] = effects[<<l, e>>]
    BY <1>1, <1>3, <1>6, EffectCounted
  <2>2. effects[<<call[c].key, call[c].data>>] \in Nat
    BY <1>1, <1>3
  <2>3. effects'[<<call[c].key, call[c].data>>] > 0
    BY <2>1, <2>2
  <2>4. ASSUME NEW l \in Keys, NEW e \in Parameters
        PROVE  effects[<<l, e>>] > 0 => effects'[<<l, e>>] > 0
    <3>1. CASE l # call[c].key \/ e # call[c].data
      BY <2>1, <3>1
    <3>2. CASE l = call[c].key /\ e = call[c].data
      BY <2>3, <3>2
    <3>3. QED
      BY <3>1, <3>2
  <2>5. \A kd \in Keys \X Parameters : effects[kd] > 0 => effects'[kd] > 0
    BY <2>4
  <2>6. ASSUME NEW x \in Requests, effects'[<<x, ToolData>>] > 0
        PROVE  effects[<<x, ToolData>>] > 0 \/ Allowed(x)
    <3>1. x \in Keys /\ ToolData \in Parameters /\ x \notin ApiKeys
      BY ToolAssumption
    <3>2. CASE x # call[c].key
      BY <2>1, <2>6, <3>1, <3>2
    <3>3. CASE x = call[c].key
      <4>1. handler[c].at = "adapter" /\ handler[c].x = x
        BY <1>1, <1>2, <3>1, <3>3 DEF CallOK
      <4>2. QED
        BY <1>1, <4>1 DEF HandlerOK, Allowed
    <3>4. QED
      BY <3>2, <3>3
  <2>7. \A d \in Callers : CallOK(d)'
    BY <1>2, <1>6, <2>3, <2>5, CallAnswered
  <2>8. ToldOK'
    BY <1>2, <2>5 DEF ToolInv, ToldOK
  <2>9. QED
    BY <2>5, <2>6, <2>7, <2>8, ActionsMove
<1>7. CASE /\ ActionTransaction(c)
           /\ UNCHANGED <<audit, effects>>
           /\ call' \in {Answered(c, FALSE), Failing(c)}
  BY <1>4, <1>7
<1>8. CASE /\ ActionTransaction(c)
           /\ UNCHANGED <<audit, effects>>
           /\ audit[call[c].key].status = "completed"
           /\ audit[call[c].key].data = call[c].data
           /\ call' = Answered(c, TRUE)
  <2>1. effects[<<call[c].key, call[c].data>>] = 1
    BY <1>1, <1>3, <1>8 DEF AuditTellsEffects
  <2>2. effects[<<call[c].key, call[c].data>>] > 0
    BY <2>1
  <2>3. QED
    BY <1>4, <1>8, <2>2
<1>9. QED
  BY <1>5, <1>6, <1>7, <1>8, TransactionCases

\* Calls that begin and end.
LEMMA CallsGood ==
    ASSUME ToolInv, NEW c \in Callers,
           \/ DirectCall(c) \/ RunLedgerAdapter(c)
           \/ /\ handler[c].at = "idle" /\ (TakeAnswer(c) \/ CallLost(c))
              /\ UNCHANGED <<execution, approval, proposal, handler, ran>>
    PROVE  GoodStep
<1>1. /\ ToolTypes /\ CallOK(c) /\ call \in [Callers -> CallRows]
      /\ UNCHANGED <<effects, execution, approval, proposal, handler, ran>>
  BY DEF ToolInv, ToolTypes, ActionTypes, DirectCall, RunLedgerAdapter, TakeAnswer, CallLost
<1>2. Grows
  BY <1>1 DEF Grows
<1>3. ToldOK'
  <2>1. ToldOK
    BY DEF ToolInv
  <2>2. CASE UNCHANGED told
    BY <1>1, <2>1, <2>2 DEF ToldOK
  <2>3. CASE /\ call[c].at = "answered" /\ call[c].ok
             /\ told' = told \cup {<<call[c].key, call[c].data>>}
    <3>1. /\ <<call[c].key, call[c].data>> \in Keys \X Parameters
          /\ effects[<<call[c].key, call[c].data>>] > 0
      BY <1>1, <2>3 DEF CallOK, ToolTypes, ActionTypes
    <3>2. QED
      BY <1>1, <2>1, <2>3, <3>1 DEF ToldOK
  <2>4. QED
    BY <2>2, <2>3 DEF DirectCall, RunLedgerAdapter, TakeAnswer, CallLost
<1>4. CallOK(c)' /\ \A d \in Callers : d # c => call'[d] = call[d]
  <2>1. CASE call' = [call EXCEPT ![c] = NoCall]
    <3>1. call'[c].at = "idle"
      BY <1>1, <2>1 DEF NoCall
    <3>2. QED
      BY <1>1, <2>1, <3>1 DEF CallOK
  <2>2. ASSUME NEW k, NEW data, NEW retry, CallAction(c, k, data, retry),
               \/ handler[c].at = "idle" /\ k \in ApiKeys
               \/ /\ handler[c].at = "adapter" /\ handler[c].x \in LedgerTools
                  /\ k = handler[c].x /\ data = ToolData
        PROVE  CallOK(c)' /\ \A d \in Callers : d # c => call'[d] = call[d]
    <3> DEFINE new == [at |-> "called", key |-> k, data |-> data, retry |-> retry, ok |-> FALSE]
    <3>1. new.at = "called" /\ new.key = k /\ new.data = data
      OBVIOUS
    <3>2. call' = [call EXCEPT ![c] = new]
      BY <2>2 DEF CallAction
    <3> HIDE DEF new
    <3>3. call'[c] = new /\ \A d \in Callers : d # c => call'[d] = call[d]
      BY <1>1, <3>2
    <3>4. QED
      BY <1>1, <2>2, <3>1, <3>3 DEF CallOK
  <2>3. CASE DirectCall(c)
    BY <2>2, <2>3 DEF DirectCall, Take
  <2>4. CASE RunLedgerAdapter(c)
    BY <2>2, <2>4 DEF RunLedgerAdapter
  <2>5. QED
    BY <2>1, <2>3, <2>4 DEF TakeAnswer, CallLost
<1>5. \A d \in Callers : CallOK(d)'
  BY <1>1, <1>2, <1>4, CallKept DEF ToolInv
<1>6. QED
  BY <1>1, <1>3, <1>5, ActionsMove

\* The adapter's execution is completed; what is told of it is what the ERP answered.
LEMMA AdapterGood ==
    ASSUME ToolInv, NEW h \in Callers, CompleteLedgerAdapter(h) \/ RunOtherAdapter(h)
    PROVE  GoodStep
<1>1. /\ ToolTypes /\ HandlerOK(h) /\ CallOK(h) /\ handler[h].at = "adapter"
      /\ call \in [Callers -> CallRows]
      /\ UNCHANGED <<effects, told, approval, proposal>>
  BY DEF ToolInv, ToolTypes, ActionTypes, CompleteLedgerAdapter, RunOtherAdapter, actionVars
<1>2. PICK x \in Requests : x = handler[h].x
  BY <1>1 DEF ToolTypes, HandlersTyped
<1>3. RequestOK(x) /\ Allowed(x)
  BY <1>1, <1>2 DEF ToolInv, HandlerOK, Allowed
<1>4. PICK ok \in BOOLEAN : /\ Complete(h, ok)
                            /\ ok => Happened(x)'
                            /\ ran' = ran \/ ran' = [ran EXCEPT ![x] = @ + 1]
                            /\ call'[h].at = "idle"
                            /\ \A g \in Callers : g # h => call'[g] = call[g]
  <2>1. CASE CompleteLedgerAdapter(h)
    <3>1. call[h].ok \in BOOLEAN
      BY <1>1 DEF CallRows
    <3>2. call'[h].at = "idle" /\ \A g \in Callers : g # h => call'[g] = call[g]
      BY <1>1, <2>1 DEF CompleteLedgerAdapter, NoCall
    <3>3. call[h].ok => effects[<<x, ToolData>>] > 0
      BY <1>1, <1>2, <2>1 DEF CompleteLedgerAdapter, CallOK
    <3>4. QED
      BY <1>1, <2>1, <3>1, <3>2, <3>3 DEF CompleteLedgerAdapter, Happened
  <2>2. CASE RunOtherAdapter(h)
    <3>1. UNCHANGED call /\ call[h].at = "idle"
      BY <1>1, <2>2 DEF RunOtherAdapter, actionVars, CallOK
    <3>2. CASE ran' = [ran EXCEPT ![x] = @ + 1] /\ \E ok \in BOOLEAN : Complete(h, ok)
      <4>1. ran'[x] = ran[x] + 1 /\ ran[x] \in Nat
        BY <1>1, <3>2 DEF ToolTypes
      <4>2. Happened(x)'
        BY <4>1 DEF Happened
      <4>3. QED
        BY <3>1, <3>2, <4>2
    <3>3. CASE Complete(h, FALSE) /\ UNCHANGED ran
      BY <3>1, <3>3
    <3>4. QED
      BY <1>2, <2>2, <3>2, <3>3 DEF RunOtherAdapter
  <2>3. QED
    BY <2>1, <2>2
<1>5. /\ handler'[h].x = handler[h].x
      /\ \A g \in Callers : g # h => handler'[g] = handler[g]
      /\ \/ handler'[h].at = "error" /\ UNCHANGED execution
         \/ \E status \in {"completed", "failed"} :
               /\ execution' = [execution EXCEPT ![handler[h].x].status = status]
               /\ handler'[h].at = "notify" /\ handler'[h].seen = status
               /\ status = "completed" => ok
  BY <1>1, <1>4, CompletionTypes
<1>6. /\ ran[x] > 0 => ran'[x] > 0
      /\ Happened(x) => Happened(x)'
      /\ \A y \in Requests : y # x => ran'[y] = ran[y]
  BY <1>1, <1>4 DEF ToolTypes, Happened
<1>7. execution[x].policy # "none" /\ execution[x].status # "none"
  BY <1>3 DEF RequestOK, Allowed
<1>8. CASE handler'[h].at = "error" /\ UNCHANGED execution
  <2>1. RequestOK(x)' /\ HandlerOK(h)'
    BY <1>1, <1>3, <1>6, <1>8 DEF RequestOK, Allowed, HandlerOK
  <2>2. QED
    BY <1>1, <1>4, <1>5, <1>6, <1>8, <2>1, OneRequest
<1>9. ASSUME NEW status \in {"completed", "failed"},
             execution' = [execution EXCEPT ![x].status = status],
             handler'[h].at = "notify", handler'[h].seen = status,
             status = "completed" => ok
      PROVE  GoodStep
  <2>1. /\ execution'[x].status = status /\ execution'[x].policy = execution[x].policy
        /\ \A y \in Requests : y # x => execution'[y] = execution[y]
    BY <1>1, <1>9 DEF ToolTypes, ExecutionRows
  <2>2. Allowed(x)'
    BY <1>1, <1>3, <2>1 DEF Allowed
  <2>3. RequestOK(x)'
    BY <1>1, <1>3, <1>4, <1>6, <1>7, <1>9, <2>1, <2>2 DEF RequestOK
  <2>4. handler'[h].x = x /\ (handler'[h].seen = "completed" => Happened(x)')
    BY <1>2, <1>4, <1>5, <1>9
  <2>5. HandlerOK(h)'
    BY <1>9, <2>4 DEF HandlerOK, Happened
  <2>6. QED
    BY <1>1, <1>4, <1>5, <1>6, <2>1, <2>3, <2>5, OneRequest
<1>10. QED
  BY <1>2, <1>5, <1>8, <1>9

LEMMA LostGood ==
    ASSUME ToolInv, NEW h \in Callers, HandlerLost(h)
    PROVE  GoodStep
<1>1. /\ ToolTypes /\ HandlersTyped /\ call \in [Callers -> CallRows] /\ Done(h)
      /\ call' = [call EXCEPT ![h] = NoCall] /\ handler[h].at # "idle"
      /\ UNCHANGED <<effects, told, execution, approval, proposal, ran>>
  BY DEF ToolInv, ToolTypes, ActionTypes, HandlerLost
<1>2. PICK x \in Requests : x = handler[h].x
  BY <1>1 DEF HandlersTyped
<1>3. /\ call'[h].at = "idle" /\ \A g \in Callers : g # h => call'[g] = call[g]
      /\ handler'[h].at = "idle" /\ \A g \in Callers : g # h => handler'[g] = handler[g]
  BY <1>1, DoneTyped DEF NoCall, Idle
<1>4. RequestOK(x)' /\ HandlerOK(h)'
  <2>1. RequestOK(x)
    BY DEF ToolInv
  <2>2. QED
    BY <1>1, <1>3, <2>1 DEF RequestOK, HandlerOK, Happened, Allowed
<1>5. QED
  BY <1>1, <1>3, <1>4, OneRequest

LEMMA LapseGood ==
    ASSUME ToolInv, NEW x \in Requests, ApprovalLapses(x)
    PROVE  GoodStep
<1>1. /\ ToolTypes /\ UNCHANGED <<effects, told, call, execution, proposal, handler, ran>>
      /\ approval' = [approval EXCEPT ![x].late = TRUE]
  BY DEF ToolInv, ApprovalLapses, actionVars
<1>2. ASSUME NEW y \in Requests
      PROVE  approval'[y].status = approval[y].status /\ approval'[y].by = approval[y].by
  BY <1>1 DEF ToolTypes, ApprovalRows
<1>3. Grows
  BY <1>1, <1>2 DEF Grows
<1>4. ASSUME NEW y \in Requests PROVE RequestOK(y)'
  <2>1. RequestOK(y)
    BY DEF ToolInv
  <2>2. QED
    BY <1>1, <1>2, <2>1 DEF RequestOK, Happened, Allowed
<1>5. \A h \in Callers : HandlerOK(h)' /\ CallOK(h)'
  BY <1>1, <1>3, HandlerKept, CallKept DEF ToolInv
<1>6. ToldOK'
  BY <1>1 DEF ToolInv, ToldOK
<1>7. QED
  BY <1>3, <1>4, <1>5, <1>6 DEF GoodStep

LEMMA ToolInvInit == ToolInit => ToolInv
<1> SUFFICES ASSUME ToolInit PROVE ToolInv
  OBVIOUS
<1>1. ToolTypes
  BY ToolInitTypes
<1>2. AuditTellsEffects
  BY DEF ToolInit, ActionsInit, AuditTellsEffects
<1>3. ASSUME NEW x \in Requests PROVE RequestOK(x)
  <2>1. <<x, ToolData>> \in Keys \X Parameters
    BY ToolAssumption
  <2>2. effects[<<x, ToolData>>] = 0 /\ ran[x] = 0
    BY <2>1 DEF ToolInit, ActionsInit
  <2>3. QED
    BY <2>2 DEF ToolInit, RequestOK, Happened
<1>4. ASSUME NEW h \in Callers PROVE HandlerOK(h) /\ CallOK(h)
  BY DEF ToolInit, ActionsInit, HandlerOK, CallOK, Idle, NoCall
<1>5. ToldOK
  BY DEF ToolInit, ActionsInit, ToldOK
<1>6. QED
  BY <1>1, <1>2, <1>3, <1>4, <1>5 DEF ToolInv

LEMMA ToolInvStep == ToolInv /\ AuditTellsEffects' /\ [ToolNext]_toolVars => ToolInv'
<1> SUFFICES ASSUME ToolInv, AuditTellsEffects', [ToolNext]_toolVars PROVE ToolInv'
  OBVIOUS
<1>1. CASE UNCHANGED toolVars
  BY <1>1 DEF toolVars, actionVars, ToolInv, ToolTypes, ActionTypes, HandlersTyped, RequestOK,
              HandlerOK, CallOK, ToldOK, Happened, Allowed
<1>2. ASSUME NEW h \in Callers, ToolStep(h) PROVE GoodStep
  <2>1. Proposals \subseteq Requests
    BY ToolAssumption
  <2>2. QED
    BY <1>2, <2>1, BeginGood, RequestGood, TellingGood, ReviewGood, CallsGood, AdapterGood,
       LostGood DEF ToolStep
<1>3. ASSUME NEW h \in Callers, DirectCall(h) \/ ActionStep(h) PROVE GoodStep
  BY <1>3, CallsGood, ActionsGood DEF ActionStep
<1>4. ASSUME NEW x \in Requests, ApprovalLapses(x) PROVE GoodStep
  BY <1>4, LapseGood
<1>5. CASE GoodStep
  <2>1. ToolTypes'
    BY ToolTypesStep DEF ToolInv
  <2>2. QED
    BY <1>5, <2>1 DEF GoodStep, ToolInv
<1>6. QED
  BY <1>1, <1>2, <1>3, <1>4, <1>5 DEF ToolNext

LEMMA ToolInvHolds == ToolSpec => []ToolInv
BY ToolInvInit, ToolInvStep, AuditIsTrue, PTL DEF ToolSpec

\* A tool under approval takes effect only after a human approved it in time, and a
\* denied one never, whatever is requested again, retried or decided twice.
THEOREM EffectsWereApproved == ToolSpec => []EffectWasApproved
<1>1. ToolInv => EffectWasApproved
  BY DEF ToolInv, RequestOK, Allowed, EffectWasApproved
<1>2. QED
  BY <1>1, ToolInvHolds, PTL

\* No caller, execution or proposal is told of a success that did not happen.
THEOREM SuccessIsReal == ToolSpec => []SuccessIsTrue
<1>1. ToolInv => SuccessIsTrue
  <2> SUFFICES ASSUME ToolInv PROVE SuccessIsTrue
    OBVIOUS
  <2>1. Proposals \subseteq Requests
    BY ToolAssumption
  <2>2. QED
    BY <2>1 DEF ToolInv, RequestOK, ToldOK, SuccessIsTrue
<1>2. QED
  BY <1>1, ToolInvHolds, PTL

------------------------------------------------------------------------------
(* Types and counts *)

BusyCalls == [at : {"called", "failing", "answered"}, key : Keys, data : Parameters,
              retry : BOOLEAN, ok : BOOLEAN]

BusyHandlers == [at : Steps, x : Requests,
                 flow : {"tool", "proposal", "approve", "expire", "reject"},
                 seen : ExecutionStatuses, pending : BOOLEAN, late : BOOLEAN]

\* Where a handler may still run the adapter.
MayRun == {"begin", "insert", "dispatch", "adapter", "reviewing", "reread"}

Running(x) == {h \in Callers : handler[h].x = x /\ handler[h].at \in MayRun}

ActionShapes ==
    /\ \A c \in Callers : call[c] = NoCall \/ call[c] \in BusyCalls
    /\ \A k \in Keys : audit[k].status = "completed" => audit[k].data \in Parameters

HandlerShapes == \A h \in Callers : handler[h] = Idle \/ handler[h] \in BusyHandlers

\* Each request of the API runs the adapter once at most: those that did and those that
\* still may are no more than the requests so far.
Counted ==
    /\ calls \in 0..MaxCalls
    /\ \A x \in Requests : /\ IsFiniteSet(Running(x))
                           /\ ran[x] + Cardinality(Running(x)) <= calls

ToolShapes == ActionShapes /\ HandlerShapes /\ Counted

LEMMA ShapesInit == ToolInit => ToolShapes
<1>. SUFFICES ASSUME ToolInit PROVE ToolShapes
  OBVIOUS
<1>1. ActionShapes /\ HandlerShapes
  BY DEF ToolInit, ActionsInit, ActionShapes, HandlerShapes
<1>2. ASSUME NEW x \in Requests
      PROVE  IsFiniteSet(Running(x)) /\ ran[x] + Cardinality(Running(x)) <= calls
  <2>1. Running(x) = {}
    BY DEF ToolInit, Idle, Running, MayRun
  <2>2. ran[x] = 0 /\ calls = 0 /\ Cardinality({}) = 0 /\ IsFiniteSet({})
    BY FS_EmptySet DEF ToolInit
  <2>3. IsFiniteSet(Running(x)) /\ Cardinality(Running(x)) = 0
    BY <2>1, <2>2, Zenon
  <2>4. QED
    BY <2>2, <2>3
<1>3. calls \in 0..MaxCalls
  BY ToolAssumption DEF ToolInit
<1>4. QED
  BY <1>1, <1>2, <1>3 DEF ToolShapes, Counted

\* The calls of the ERP keep their shape, and rows that say "completed" have parameters.
LEMMA CallMoves ==
    ASSUME ActionTypes, ActionShapes, NEW c \in Callers,
           \/ ActionTransaction(c) \/ RecordFailure(c) \/ TakeAnswer(c) \/ CallLost(c)
           \/ call' = [call EXCEPT ![c] = NoCall] /\ UNCHANGED audit
    PROVE  ActionShapes'
<1>1. CASE call' = [call EXCEPT ![c] = NoCall] /\ UNCHANGED audit
  BY <1>1 DEF ActionTypes, ActionShapes
<1>2. CASE ActionTransaction(c) \/ RecordFailure(c)
  <2>1. call[c].at \in {"called", "failing"} /\ \E ok \in BOOLEAN : call' \in {Answered(c, ok), Failing(c)}
    BY <1>2, TransactionCases DEF RecordFailure
  <2>2. PICK row \in BusyCalls : row = call[c]
    BY <2>1 DEF ActionShapes, NoCall
  <2>3. PICK ok \in BOOLEAN : call' \in {Answered(c, ok), Failing(c)}
    BY <2>1
  <2>4. /\ [row EXCEPT !.at = "answered", !.ok = ok] \in BusyCalls
        /\ [row EXCEPT !.at = "failing"] \in BusyCalls
    BY DEF BusyCalls
  <2>5. call' \in {[call EXCEPT ![c] = [row EXCEPT !.at = "answered", !.ok = ok]],
                   [call EXCEPT ![c] = [row EXCEPT !.at = "failing"]]}
    BY <2>2, <2>3 DEF Answered, Failing, ActionTypes
  <2>6. PICK next \in BusyCalls : call' = [call EXCEPT ![c] = next]
    BY <2>4, <2>5
  <2>7. \A d \in Callers : call'[d] = NoCall \/ call'[d] \in BusyCalls
    BY <2>6 DEF ActionTypes, ActionShapes
  <2>8. call[c].key \in Keys /\ call[c].data \in Parameters
    BY <2>1 DEF ActionTypes
  <2>9. \A k \in Keys : audit'[k].status = "completed" => audit'[k].data \in Parameters
    <3>1. CASE UNCHANGED audit
      BY <3>1 DEF ActionShapes
    <3>2. CASE audit' = [audit EXCEPT ![call[c].key] = [status |-> "completed", data |-> call[c].data]]
      BY <2>8, <3>2 DEF ActionTypes, ActionShapes
    <3>3. CASE audit' = [audit EXCEPT ![call[c].key] = [status |-> "failed", data |-> "none"]]
      BY <2>8, <3>3 DEF ActionTypes, ActionShapes
    <3>4. QED
      BY <1>2, <3>1, <3>2, <3>3, TransactionCases DEF RecordFailure
  <2>10. QED
    BY <2>7, <2>9 DEF ActionShapes
<1>3. CASE TakeAnswer(c) \/ CallLost(c)
  <2>1. call' = [call EXCEPT ![c] = NoCall] /\ UNCHANGED audit
    BY <1>3 DEF TakeAnswer, CallLost
  <2>2. QED
    BY <1>1, <2>1
<1>4. QED
  BY <1>1, <1>2, <1>3

LEMMA CallBegins ==
    ASSUME ActionTypes, ActionShapes, NEW c \in Callers, NEW k \in Keys, NEW data \in Parameters,
           NEW retry \in BOOLEAN, CallAction(c, k, data, retry), UNCHANGED audit
    PROVE  ActionShapes'
<1>1. PICK new : new = [at |-> "called", key |-> k, data |-> data, retry |-> retry, ok |-> FALSE]
  OBVIOUS
<1>2. new \in BusyCalls
  BY <1>1 DEF BusyCalls
<1>3. call' = [call EXCEPT ![c] = new]
  BY <1>1, Zenon DEF CallAction
<1>4. QED
  BY <1>2, <1>3 DEF ActionTypes, ActionShapes

\* A handler that goes on does so for its request, and never back to where it may run the
\* adapter; or it is done.
Moves(h) ==
    /\ handler[h] \in BusyHandlers
    /\ \E row \in BusyHandlers \cup {Idle} :
          /\ handler' = [handler EXCEPT ![h] = row]
          /\ row # Idle => row.x = handler[h].x
          /\ row.at \in MayRun => handler[h].at \in MayRun

LEMMA DoneMoves ==
    ASSUME NEW h, handler[h] \in BusyHandlers, Done(h)
    PROVE  Moves(h)
<1>1. Idle.at \notin MayRun
  BY DEF Idle, MayRun
<1>2. QED
  BY <1>1 DEF Moves, Done

LEMMA GoMoves ==
    ASSUME HandlersTyped, NEW h \in Callers, handler[h] \in BusyHandlers, NEW at \in Steps,
           at \in MayRun => handler[h].at \in MayRun, Go(h, at)
    PROVE  Moves(h)
<1>1. PICK row : row = [handler[h] EXCEPT !.at = at]
  OBVIOUS
<1>2. row \in BusyHandlers /\ row.x = handler[h].x /\ row.at = at
  BY <1>1 DEF BusyHandlers
<1>3. handler' = [handler EXCEPT ![h] = row]
  BY <1>1 DEF Go
<1>4. QED
  BY <1>2, <1>3 DEF Moves

LEMMA SeenMoves ==
    ASSUME HandlersTyped, NEW h \in Callers, handler[h] \in BusyHandlers, NEW at \in Steps,
           at \in MayRun => handler[h].at \in MayRun, NEW seen \in ExecutionStatuses,
           handler' = [handler EXCEPT ![h].at = at, ![h].seen = seen]
    PROVE  Moves(h)
<1>1. PICK row : row = [handler[h] EXCEPT !.at = at, !.seen = seen]
  OBVIOUS
<1>2. row \in BusyHandlers /\ row.x = handler[h].x /\ row.at = at
  BY <1>1 DEF BusyHandlers
<1>3. handler' = [handler EXCEPT ![h] = row]
  BY <1>1 DEF HandlersTyped
<1>4. QED
  BY <1>2, <1>3 DEF Moves

\* Every step of a request under way, and what it does to the counters.
LEMMA HandlerMoves ==
    ASSUME ToolTypes, HandlerShapes, NEW h \in Callers,
           \/ BeginProposalSubmission(h) \/ CreateExecution(h) \/ Dispatch(h)
           \/ LinkProposalExecution(h) \/ FailProposalSubmission(h)
           \/ Approve(h) \/ Reject(h) \/ RereadExecution(h)
           \/ CompleteLedgerAdapter(h) \/ ToolExecutionUpdated(h) \/ HandlerLost(h)
    PROVE  Moves(h) /\ UNCHANGED <<ran, calls>>
<1>1. HandlersTyped /\ handler[h].at # "idle" /\ UNCHANGED <<ran, calls>>
  BY DEF ToolTypes, BeginProposalSubmission, CreateExecution, Dispatch, LinkProposalExecution,
         FailProposalSubmission, Approve, Reject, RereadExecution, CompleteLedgerAdapter,
         ToolExecutionUpdated, HandlerLost
<1>2. handler[h] \in BusyHandlers /\ handler[h].x \in Requests
  BY <1>1 DEF HandlerShapes, HandlersTyped, Idle
<1>3. execution[handler[h].x].status \in ExecutionStatuses
  BY <1>2 DEF ToolTypes, ExecutionRows
<1>4. CASE BeginProposalSubmission(h)
  <2>1. handler[h].at = "begin" /\ (Go(h, "insert") \/ Done(h))
    BY <1>4 DEF BeginProposalSubmission
  <2>2. QED
    BY <1>1, <1>2, <2>1, GoMoves, DoneMoves DEF Steps, MayRun
<1>5. CASE CreateExecution(h)
  <2>1. /\ handler[h].at = "insert"
        /\ \/ Go(h, "dispatch")
           \/ handler' = [handler EXCEPT ![h].at = "return",
                                         ![h].seen = execution[handler[h].x].status]
    BY <1>5, Zenon DEF CreateExecution
  <2>2. QED
    BY <1>1, <1>2, <1>3, <2>1, GoMoves, SeenMoves DEF Steps, MayRun
<1>6. CASE Dispatch(h)
  <2>1. /\ handler[h].at = "dispatch"
        /\ \/ handler' = [handler EXCEPT ![h].at = "notify", ![h].seen = "denied"]
           \/ handler' = [handler EXCEPT ![h].at = "return", ![h].seen = "approval_required"]
           \/ Go(h, "error") \/ Go(h, "adapter")
    BY <1>6, Zenon DEF Dispatch
  <2>2. "denied" \in ExecutionStatuses /\ "approval_required" \in ExecutionStatuses
    BY StatusFacts
  <2>3. QED
    BY <1>1, <1>2, <2>1, <2>2, GoMoves, SeenMoves DEF Steps, MayRun
<1>7. CASE LinkProposalExecution(h) \/ FailProposalSubmission(h) \/ HandlerLost(h)
  BY <1>2, <1>7, DoneMoves DEF LinkProposalExecution, FailProposalSubmission, HandlerLost
<1>8. CASE Approve(h)
  <2>1. handler[h].at = "reviewing"
    BY <1>8 DEF Approve
  <2>2. CASE Done(h) \/ Go(h, "adapter") \/ Go(h, "reread")
    BY <1>1, <1>2, <2>1, <2>2, GoMoves, DoneMoves DEF Steps, MayRun
  <2>3. CASE handler' = [handler EXCEPT ![h].at = "reread", ![h].flow = "expire"]
    <3>1. PICK row : row = [handler[h] EXCEPT !.at = "reread", !.flow = "expire"]
      OBVIOUS
    <3>2. row \in BusyHandlers /\ row.x = handler[h].x
      BY <1>2, <3>1 DEF BusyHandlers, Steps
    <3>3. handler' = [handler EXCEPT ![h] = row]
      BY <1>1, <2>3, <3>1 DEF HandlersTyped
    <3>4. handler[h].at \in MayRun
      BY <2>1 DEF MayRun
    <3>5. QED
      BY <1>1, <1>2, <3>2, <3>3, <3>4 DEF Moves
  <2>4. QED
    BY <1>8, <2>2, <2>3, Zenon DEF Approve, ApprovedOutput
<1>9. CASE Reject(h)
  BY <1>1, <1>2, <1>9, GoMoves DEF Reject, Steps, MayRun
<1>10. CASE RereadExecution(h)
  <2>1. /\ handler[h].at = "reread"
        /\ \/ Done(h) \/ Go(h, "adapter")
           \/ handler' = [handler EXCEPT ![h].at = "notify",
                                         ![h].seen = execution[handler[h].x].status]
    BY <1>10, Zenon DEF RereadExecution, ApprovedOutput
  <2>2. QED
    BY <1>1, <1>2, <1>3, <2>1, GoMoves, DoneMoves, SeenMoves DEF Steps, MayRun
<1>11. CASE CompleteLedgerAdapter(h)
  <2>1. \/ Go(h, "error")
        \/ \E seen \in {"completed", "failed"} :
              handler' = [handler EXCEPT ![h].at = "notify", ![h].seen = seen]
    BY <1>11 DEF CompleteLedgerAdapter, Complete
  <2>2. {"completed", "failed"} \subseteq ExecutionStatuses
    BY StatusFacts
  <2>3. QED
    BY <1>1, <1>2, <2>1, <2>2, GoMoves, SeenMoves DEF Steps, MayRun
<1>12. CASE ToolExecutionUpdated(h)
  <2>1. Go(h, "return") \/ Done(h) \/ Go(h, "error")
    BY <1>12, Zenon DEF ToolExecutionUpdated
  <2>2. QED
    BY <1>1, <1>2, <2>1, GoMoves, DoneMoves DEF Steps, MayRun
<1>13. QED
  BY <1>1, <1>4, <1>5, <1>6, <1>7, <1>8, <1>9, <1>10, <1>11, <1>12

\* An adapter that takes effect, or fails, is the last thing a handler runs.
LEMMA OtherAdapterMoves ==
    ASSUME ToolTypes, HandlerShapes, NEW h \in Callers, RunOtherAdapter(h)
    PROVE  /\ Moves(h) /\ UNCHANGED calls
           /\ handler[h].at = "adapter" /\ handler'[h].at \notin MayRun
           /\ handler[h].x \in Requests
           /\ \/ UNCHANGED ran
              \/ ran' = [ran EXCEPT ![handler[h].x] = @ + 1]
<1>1. /\ HandlersTyped /\ handler[h].at = "adapter" /\ UNCHANGED calls
      /\ UNCHANGED ran \/ ran' = [ran EXCEPT ![handler[h].x] = @ + 1]
      /\ \E ok \in BOOLEAN : Complete(h, ok)
  BY Zenon DEF ToolTypes, RunOtherAdapter
<1>2. handler[h] \in BusyHandlers /\ handler[h].x \in Requests
  BY <1>1 DEF HandlerShapes, HandlersTyped, Idle
<1>3. \/ Go(h, "error")
      \/ \E seen \in {"completed", "failed"} :
            handler' = [handler EXCEPT ![h].at = "notify", ![h].seen = seen]
  BY <1>1 DEF Complete
<1>4. {"completed", "failed"} \subseteq ExecutionStatuses
  BY StatusFacts
<1>5. Moves(h)
  BY <1>1, <1>2, <1>3, <1>4, GoMoves, SeenMoves DEF Steps, MayRun
<1>6. handler'[h].at \in {"error", "notify"}
  BY <1>1, <1>2, <1>3, <1>4, GoTyped, SeenTyped DEF Steps
<1>7. QED
  BY <1>1, <1>2, <1>5, <1>6 DEF MayRun

LEMMA MovesCount ==
    ASSUME ToolTypes, HandlerShapes, Counted, NEW h \in Callers, Moves(h), UNCHANGED <<ran, calls>>
    PROVE  HandlerShapes' /\ Counted'
<1>1. PICK row \in BusyHandlers \cup {Idle} :
         /\ handler' = [handler EXCEPT ![h] = row]
         /\ row # Idle => row.x = handler[h].x
         /\ row.at \in MayRun => handler[h].at \in MayRun
  BY DEF Moves
<1>2. handler'[h] = row /\ \A g \in Callers : g # h => handler'[g] = handler[g]
  BY <1>1 DEF ToolTypes, HandlersTyped
<1>3. HandlerShapes'
  BY <1>2 DEF HandlerShapes
<1>4. ASSUME NEW x \in Requests
      PROVE  IsFiniteSet(Running(x)') /\ ran'[x] + Cardinality(Running(x)') <= calls'
  <2>1. Running(x)' \subseteq Running(x)
    BY <1>1, <1>2 DEF Running, MayRun, Idle
  <2>2. IsFiniteSet(Running(x)) /\ ran[x] + Cardinality(Running(x)) <= calls
    BY DEF Counted
  <2>3. /\ IsFiniteSet(Running(x)') /\ Cardinality(Running(x)') <= Cardinality(Running(x))
        /\ Cardinality(Running(x)) \in Nat /\ Cardinality(Running(x)') \in Nat
    BY <2>1, <2>2, FS_Subset, FS_CardinalityType
  <2>4. ran[x] \in Nat /\ calls \in Nat
    BY ToolAssumption DEF ToolTypes, Counted
  <2>5. QED
    BY <2>2, <2>3, <2>4
<1>5. QED
  BY <1>3, <1>4 DEF Counted

LEMMA RunsCount ==
    ASSUME ToolTypes, HandlerShapes, Counted, NEW h \in Callers, RunOtherAdapter(h)
    PROVE  HandlerShapes' /\ Counted'
<1>1. /\ Moves(h) /\ UNCHANGED calls
      /\ handler[h].at = "adapter" /\ handler'[h].at \notin MayRun /\ handler[h].x \in Requests
  BY OtherAdapterMoves
<1>2. CASE UNCHANGED ran
  BY <1>1, <1>2, MovesCount
<1>3. CASE ran' = [ran EXCEPT ![handler[h].x] = @ + 1]
  <2>1. PICK row \in BusyHandlers \cup {Idle} : handler' = [handler EXCEPT ![h] = row]
    BY <1>1 DEF Moves
  <2>2. handler'[h] = row /\ \A g \in Callers : g # h => handler'[g] = handler[g]
    BY <2>1 DEF ToolTypes, HandlersTyped
  <2>3. HandlerShapes'
    BY <2>2 DEF HandlerShapes
  <2>4. ASSUME NEW x \in Requests
        PROVE  IsFiniteSet(Running(x)') /\ ran'[x] + Cardinality(Running(x)') <= calls'
    <3>1. Running(x)' = Running(x) \ {h}
      BY <1>1, <2>2 DEF Running
    <3>2. IsFiniteSet(Running(x)) /\ ran[x] + Cardinality(Running(x)) <= calls
      BY DEF Counted
    <3>3. /\ ran[x] \in Nat /\ calls \in Nat /\ Cardinality(Running(x)) \in Nat
      BY <3>2, ToolAssumption, FS_CardinalityType DEF ToolTypes, Counted
    <3>4. /\ IsFiniteSet(Running(x) \ {h})
          /\ Cardinality(Running(x) \ {h})
                = IF h \in Running(x) THEN Cardinality(Running(x)) - 1 ELSE Cardinality(Running(x))
      BY <3>2, FS_RemoveElement
    <3>5. /\ IsFiniteSet(Running(x)')
          /\ Cardinality(Running(x)')
                = IF h \in Running(x) THEN Cardinality(Running(x)) - 1 ELSE Cardinality(Running(x))
      BY <3>1, <3>4, Zenon
    <3>6. CASE x = handler[h].x
      <4>1. h \in Running(x) /\ ran'[x] = ran[x] + 1
        BY <1>1, <1>3, <3>6 DEF Running, MayRun, ToolTypes
      <4>2. QED
        BY <1>1, <3>2, <3>3, <3>5, <4>1
    <3>7. CASE x # handler[h].x
      <4>1. h \notin Running(x) /\ ran'[x] = ran[x]
        BY <1>1, <1>3, <3>7 DEF Running, ToolTypes
      <4>2. QED
        BY <1>1, <3>2, <3>3, <3>5, <4>1
    <3>8. QED
      BY <3>6, <3>7
  <2>5. QED
    BY <1>1, <2>3, <2>4 DEF Counted
<1>4. QED
  BY <1>2, <1>3, OtherAdapterMoves

\* A request that comes in is one more that may run its adapter.
LEMMA TakesCount ==
    ASSUME ToolTypes, HandlerShapes, Counted, NEW h \in Callers, Take(h), UNCHANGED ran,
           \/ UNCHANGED handler
           \/ \E row \in BusyHandlers : handler' = [handler EXCEPT ![h] = row]
    PROVE  HandlerShapes' /\ Counted'
<1>1. /\ calls \in Nat /\ MaxCalls \in Nat /\ calls' = calls + 1 /\ calls' \in 0..MaxCalls
  BY ToolAssumption DEF Take, Counted
<1>2. PICK row \in BusyHandlers \cup {Idle} :
         handler'[h] = row /\ \A g \in Callers : g # h => handler'[g] = handler[g]
  BY DEF ToolTypes, HandlersTyped, HandlerShapes
<1>3. HandlerShapes'
  BY <1>2 DEF HandlerShapes
<1>4. ASSUME NEW x \in Requests
      PROVE  IsFiniteSet(Running(x)') /\ ran'[x] + Cardinality(Running(x)') <= calls'
  <2>1. Running(x)' \subseteq Running(x) \cup {h}
    BY <1>2 DEF Running
  <2>2. IsFiniteSet(Running(x)) /\ ran[x] + Cardinality(Running(x)) <= calls
    BY DEF Counted
  <2>3. ran[x] \in Nat /\ Cardinality(Running(x)) \in Nat
    BY <2>2, FS_CardinalityType DEF ToolTypes
  <2>4. /\ IsFiniteSet(Running(x) \cup {h})
        /\ Cardinality(Running(x) \cup {h})
              = IF h \in Running(x) THEN Cardinality(Running(x)) ELSE Cardinality(Running(x)) + 1
    BY <2>2, FS_AddElement
  <2>5. /\ Cardinality(Running(x) \cup {h}) \in Nat
        /\ Cardinality(Running(x) \cup {h}) <= Cardinality(Running(x)) + 1
    BY <2>3, <2>4
  <2>6. /\ IsFiniteSet(Running(x)') /\ Cardinality(Running(x)') \in Nat
        /\ Cardinality(Running(x)') <= Cardinality(Running(x) \cup {h})
    BY <2>1, <2>4, FS_Subset, FS_CardinalityType
  <2>7. QED
    BY <1>1, <2>2, <2>3, <2>5, <2>6
<1>5. QED
  BY <1>1, <1>3, <1>4 DEF Counted

LEMMA ShapesStep == ToolTypes /\ ToolShapes /\ [ToolNext]_toolVars => ToolShapes'
<1>. SUFFICES ASSUME ToolTypes, ToolShapes, [ToolNext]_toolVars PROVE ToolShapes'
  OBVIOUS
<1>1. ActionTypes /\ ActionShapes /\ HandlerShapes /\ Counted
  BY DEF ToolTypes, ToolShapes
<1>2. ASSUME UNCHANGED <<call, audit>> PROVE ActionShapes'
  BY <1>1, <1>2 DEF ActionShapes
<1>3. ASSUME UNCHANGED <<handler, ran, calls>> PROVE HandlerShapes' /\ Counted'
  BY <1>1, <1>3 DEF HandlerShapes, Counted, Running
<1>4. ASSUME NEW h \in Callers, NEW x \in Requests,
             \/ ExecuteTool(h, x)
             \/ x \in Proposals /\ SubmitProposal(h, x)
             \/ \E flow \in {"approve", "reject"} : Review(h, x, flow)
      PROVE  ToolShapes'
  <2>1. Take(h) /\ UNCHANGED <<call, audit, ran>>
    BY <1>4 DEF ExecuteTool, SubmitProposal, Review, actionVars
  <2>2. PICK row \in BusyHandlers : handler' = [handler EXCEPT ![h] = row]
    <3>1. ExecutionStatuses = ExecutionStatuses /\ "none" \in ExecutionStatuses
      BY StatusFacts
    <3>2. CASE ExecuteTool(h, x)
      <4>1. PICK row : row = [Idle EXCEPT !.at = "insert", !.x = x, !.flow = "tool"]
        OBVIOUS
      <4>2. row \in BusyHandlers
        BY <3>1, <4>1 DEF Idle, BusyHandlers, Steps
      <4>3. handler' = [handler EXCEPT ![h] = row]
        BY <3>2, <4>1, Zenon DEF ExecuteTool
      <4>4. QED
        BY <4>2, <4>3
    <3>3. CASE SubmitProposal(h, x)
      <4>1. PICK row : row = [Idle EXCEPT !.at = "begin", !.x = x, !.flow = "proposal"]
        OBVIOUS
      <4>2. row \in BusyHandlers
        BY <3>1, <4>1 DEF Idle, BusyHandlers, Steps
      <4>3. handler' = [handler EXCEPT ![h] = row]
        BY <3>3, <4>1, Zenon DEF SubmitProposal
      <4>4. QED
        BY <4>2, <4>3
    <3>4. CASE \E flow \in {"approve", "reject"} : Review(h, x, flow)
      <4>1. PICK flow \in {"approve", "reject"} : Review(h, x, flow)
        BY <3>4
      <4>2. execution[x].status \in ExecutionStatuses /\ approval[x].late \in BOOLEAN
        BY DEF ToolTypes, ExecutionRows, ApprovalRows
      <4>3. PICK pending \in BOOLEAN : pending = (approval[x].status = "pending")
        OBVIOUS
      <4>4. PICK row : row = [at |-> "reviewing", x |-> x, flow |-> flow,
                              seen |-> execution[x].status, pending |-> pending,
                              late |-> approval[x].late]
        OBVIOUS
      <4>5. row \in BusyHandlers
        BY <4>2, <4>4 DEF BusyHandlers, Steps
      <4>6. handler' = [handler EXCEPT ![h] = row]
        BY <4>1, <4>3, <4>4, Zenon DEF Review
      <4>7. QED
        BY <4>5, <4>6
    <3>5. QED
      BY <1>4, <3>2, <3>3, <3>4
  <2>3. QED
    BY <1>1, <1>2, <2>1, <2>2, TakesCount DEF ToolShapes
<1>5. ASSUME NEW h \in Callers,
             \/ BeginProposalSubmission(h) \/ CreateExecution(h) \/ Dispatch(h)
             \/ LinkProposalExecution(h) \/ FailProposalSubmission(h)
             \/ Approve(h) \/ Reject(h) \/ RereadExecution(h)
             \/ CompleteLedgerAdapter(h) \/ ToolExecutionUpdated(h) \/ HandlerLost(h)
      PROVE  ToolShapes'
  <2>1. HandlerShapes' /\ Counted'
    BY <1>1, <1>5, HandlerMoves, MovesCount, Zenon
  <2>2. UNCHANGED audit /\ (UNCHANGED call \/ call' = [call EXCEPT ![h] = NoCall])
    BY <1>5, Zenon DEF BeginProposalSubmission, CreateExecution, Dispatch, LinkProposalExecution,
       FailProposalSubmission, Approve, Reject, RereadExecution, CompleteLedgerAdapter,
       ToolExecutionUpdated, HandlerLost, actionVars
  <2>3. ActionShapes'
    BY <1>1, <1>2, <2>2, CallMoves
  <2>4. QED
    BY <2>1, <2>3 DEF ToolShapes
<1>6. ASSUME NEW h \in Callers, RunOtherAdapter(h) PROVE ToolShapes'
  <2>1. UNCHANGED <<call, audit>>
    BY <1>6, Zenon DEF RunOtherAdapter, actionVars
  <2>2. QED
    BY <1>1, <1>2, <1>6, <2>1, RunsCount DEF ToolShapes
<1>7. ASSUME NEW h \in Callers, RunLedgerAdapter(h) PROVE ToolShapes'
  <2>1. /\ handler[h].at = "adapter" /\ UNCHANGED <<audit, handler, ran, calls>>
        /\ CallAction(h, handler[h].x, ToolData, execution[handler[h].x].retry)
    BY <1>7 DEF RunLedgerAdapter
  <2>2. handler[h].x \in Requests
    BY <2>1 DEF ToolTypes, HandlersTyped
  <2>3. /\ handler[h].x \in Keys /\ ToolData \in Parameters
        /\ execution[handler[h].x].retry \in BOOLEAN
    BY <2>2, ToolAssumption DEF ToolTypes, ExecutionRows
  <2>4. ActionShapes'
    BY <1>1, <2>1, <2>3, CallBegins
  <2>5. QED
    BY <1>3, <2>1, <2>4 DEF ToolShapes
<1>8. ASSUME NEW h \in Callers, DirectCall(h) PROVE ToolShapes'
  <2>1. PICK k \in ApiKeys, data \in Parameters, retry \in BOOLEAN : CallAction(h, k, data, retry)
    BY <1>8 DEF DirectCall
  <2>2. Take(h) /\ UNCHANGED <<audit, handler, ran>> /\ k \in Keys
    BY <1>8, ToolAssumption DEF DirectCall
  <2>3. ActionShapes'
    BY <1>1, <2>1, <2>2, CallBegins
  <2>4. QED
    BY <1>1, <2>2, <2>3, TakesCount DEF ToolShapes
<1>9. ASSUME NEW h \in Callers, ActionStep(h) PROVE ToolShapes'
  BY <1>1, <1>3, <1>9, CallMoves DEF ActionStep, ToolShapes
<1>10. ASSUME UNCHANGED <<call, audit, handler, ran, calls>> PROVE ToolShapes'
  BY <1>2, <1>3, <1>10 DEF ToolShapes
<1>11. ASSUME NEW x \in Requests, ApprovalLapses(x) PROVE ToolShapes'
  BY <1>10, <1>11 DEF ApprovalLapses, actionVars
<1>12. ASSUME NEW h \in Callers, ToolStep(h) PROVE ToolShapes'
  <2>1. Proposals \subseteq Requests
    BY ToolAssumption
  <2>2. QED
    BY <1>4, <1>5, <1>6, <1>7, <1>12, <2>1, Zenon DEF ToolStep
<1>13. CASE UNCHANGED toolVars
  BY <1>10, <1>13 DEF toolVars, actionVars
<1>14. QED
  BY <1>8, <1>9, <1>11, <1>12, <1>13, Zenon DEF ToolNext

\* Every row has its type, whoever waits for a reviewer has an execution under approval, and
\* the adapter of a request runs no more often than requests came in: a handler that gets to
\* it (ExecuteTool, Approve) has used up its own request, and none runs it twice.
THEOREM ToolTypesHold == ToolSpec => []ToolTypeOK
<1>1. ToolInit => ToolShapes
  BY ShapesInit
<1>2. ToolTypes /\ ToolShapes /\ [ToolNext]_toolVars => ToolShapes'
  BY ShapesStep
<1>3. ToolInv /\ ToolShapes => ToolTypeOK
  <2>. SUFFICES ASSUME ToolInv, ToolShapes PROVE ToolTypeOK
    OBVIOUS
  <2>1. ToolTypes /\ ToldOK /\ ActionShapes /\ HandlerShapes /\ Counted
    BY DEF ToolInv, ToolShapes
  <2>2. ActionsTypeOK
    BY <2>1 DEF ActionsTypeOK, ToolTypes, ActionTypes, AuditRows, ActionShapes, BusyCalls, ToldOK
  <2>3. \A x \in Requests : approval[x].status # "none" => execution[x].policy = "approve"
    BY DEF ToolInv, RequestOK
  <2>4. ASSUME NEW x \in Requests PROVE ran[x] \in 0..MaxCalls
    <3>1. /\ IsFiniteSet(Running(x)) /\ ran[x] + Cardinality(Running(x)) <= calls
          /\ calls \in 0..MaxCalls
      BY <2>1 DEF Counted
    <3>2. Cardinality(Running(x)) \in Nat /\ ran[x] \in Nat /\ MaxCalls \in Nat
      BY <2>1, <3>1, FS_CardinalityType, ToolAssumption DEF ToolTypes
    <3>3. QED
      BY <3>1, <3>2
  <2>5. ran \in [Requests -> 0..MaxCalls] /\ calls \in 0..MaxCalls
    BY <2>1, <2>4 DEF ToolTypes, Counted
  <2>6. QED
    BY <2>1, <2>2, <2>3, <2>5, Zenon DEF ToolTypeOK, ToolTypes, ExecutionRows, ApprovalRows,
       ProposalRows, HandlerShapes, BusyHandlers, Steps
<1>4. QED
  BY <1>1, <1>2, <1>3, ToolInvHolds, ToolTypesCorrect, PTL DEF ToolSpec
===============================================================================
