------------------------------ MODULE ErpActions ------------------------------
(***************************************************************************)
(* Running a business action of the ERP once per idempotency key.           *)
(*                                                                          *)
(* A call is one transaction with the action's effect and its row in the    *)
(* audit (both or neither), under the tenant's ledger lock; when it fails   *)
(* otherwise than by a conflict, a second transaction records the failure.  *)
(* Between the two, and after a commit whose answer is lost, other calls    *)
(* with the same key may run.  A call may end at any point with its server. *)
(*                                                                          *)
(* The parameters of a call are compared by their hash, taken as the        *)
(* parameters themselves.  Not modelled: what the actions do (ErpLedger),   *)
(* who may run them, and the diagnostic in the row.                         *)
(***************************************************************************)
EXTENDS Integers

CONSTANTS
    Keys,        \* idempotency keys
    Parameters,  \* the parameters of calls
    Callers      \* concurrent calls of RunAction

VARIABLES
    audit,    \* the row of each key in the table of action executions (MAEX)
    effects,  \* how often each key's action took effect, with which parameters
    call,     \* the calls under way
    told      \* history: keys and parameters a caller was told had succeeded

actionVars == <<audit, effects, call, told>>

NoCall == [at |-> "idle", key |-> "none", data |-> "none", retry |-> FALSE, ok |-> FALSE]

ActionsTypeOK ==
    /\ \A k \in Keys : audit[k].status \in {"none", "failed"} \/
                       (audit[k].status = "completed" /\ audit[k].data \in Parameters)
    /\ effects \in [Keys \X Parameters -> Nat]
    /\ \A c \in Callers :
          call[c] = NoCall \/ call[c] \in [at : {"called", "failing", "answered"}, key : Keys,
                                           data : Parameters, retry : BOOLEAN, ok : BOOLEAN]
    /\ told \subseteq Keys \X Parameters

ActionsInit ==
    /\ audit = [k \in Keys |-> [status |-> "none", data |-> "none"]]
    /\ effects = [kd \in Keys \X Parameters |-> 0]
    /\ call = [c \in Callers |-> NoCall]
    /\ told = {}

CallAction(c, k, data, retry) ==
    /\ call[c].at = "idle"
    /\ call' = [call EXCEPT ![c] = [at |-> "called", key |-> k, data |-> data,
                                    retry |-> retry, ok |-> FALSE]]

Answered(c, ok) == [call EXCEPT ![c].at = "answered", ![c].ok = ok]

Failing(c) == [call EXCEPT ![c].at = "failing"]

\* The action takes effect and its row says so; or all of it is rolled back; or it is
\* committed and the answer of the commit is lost.
Effect(c) ==
    LET k == call[c].key
        data == call[c].data
    IN  \/ /\ audit' = [audit EXCEPT ![k] = [status |-> "completed", data |-> data]]
           /\ effects' = [effects EXCEPT ![<<k, data>>] = @ + 1]
           /\ call' \in {Answered(c, TRUE), Failing(c)}
        \/ /\ call' \in {Answered(c, FALSE), Failing(c)}
           /\ UNCHANGED <<audit, effects>>

\* Mutant: a completed key answers every call, whatever its parameters.
ReplayAnything(c) ==
    LET row == audit[call[c].key] IN
    CASE row.status = "completed" -> call' = Answered(c, TRUE) /\ UNCHANGED <<audit, effects>>
      [] row.status = "failed" /\ ~call[c].retry ->
            call' = Failing(c) /\ UNCHANGED <<audit, effects>>
      [] OTHER -> Effect(c)

\* A completed key is answered from its row if the parameters are the same, a failed
\* one runs again only on demand.
runAction(c) ==
    LET row == audit[call[c].key] IN
    CASE row.status = "completed" ->
            /\ call' = Answered(c, row.data = call[c].data)
            /\ UNCHANGED <<audit, effects>>
      [] row.status = "failed" /\ ~call[c].retry ->
            call' = Failing(c) /\ UNCHANGED <<audit, effects>>
      [] OTHER -> Effect(c)

ActionTransaction(c) ==
    /\ call[c].at = "called"
    /\ runAction(c)
    /\ UNCHANGED told

\* Mutant: the failure is recorded without a look at what is there.
RecordFailureBlindly(c) ==
    /\ call[c].at = "failing"
    /\ call' = Answered(c, FALSE)
    /\ \/ audit' = [audit EXCEPT ![call[c].key] = [status |-> "failed", data |-> "none"]]
       \/ UNCHANGED audit
    /\ UNCHANGED <<effects, told>>

\* The failure is recorded, unless the key was completed meanwhile (a retry, or the
\* call itself) or the database fails again.
RecordFailure(c) ==
    /\ call[c].at = "failing"
    /\ call' = Answered(c, FALSE)
    /\ \/ /\ audit[call[c].key].status # "completed"
          /\ audit' = [audit EXCEPT ![call[c].key] = [status |-> "failed", data |-> "none"]]
       \/ UNCHANGED audit
    /\ UNCHANGED <<effects, told>>

\* The caller of the API gets its answer.
TakeAnswer(c) ==
    /\ call[c].at = "answered"
    /\ call' = [call EXCEPT ![c] = NoCall]
    /\ told' = IF call[c].ok THEN told \cup {<<call[c].key, call[c].data>>} ELSE told
    /\ UNCHANGED <<audit, effects>>

\* The server dies, or the client is gone.
CallLost(c) ==
    /\ call[c].at # "idle"
    /\ call' = [call EXCEPT ![c] = NoCall]
    /\ UNCHANGED <<audit, effects, told>>

------------------------------------------------------------------------------
\* "State and successful audit commit together": the audit row of a key says exactly
\* whether its action took effect, and it took effect once, however often it was
\* called, by how many at once, retried, and with whatever commits unanswered.
AuditTellsEffects ==
    \A k \in Keys, data \in Parameters :
        effects[<<k, data>>] = IF audit[k].status = "completed" /\ audit[k].data = data THEN 1 ELSE 0
==============================================================================
