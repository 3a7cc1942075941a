----------------------------- MODULE CostExports -----------------------------
(***************************************************************************)
(* The cost ledger of a tenant and its export to an accounting system.      *)
(*                                                                          *)
(* Costs come into the ledger from AI calls (domain/aigateway), from the    *)
(* costs of projects (domain/project) and from imported expenses            *)
(* (domain/finance); people correct and void them (domain/costing).  An     *)
(* export batch takes ledger rows in one transaction that locks them and    *)
(* skips rows locked by another; what comes after it, posting the AI costs  *)
(* to their projects, sending the batch, hearing from the accounting        *)
(* system, is a statement at a time, by requests that may stop, fail or be  *)
(* repeated at any point.                                                   *)
(*                                                                          *)
(* The cost of an AI call in a project enters the ledger a second time,     *)
(* when it is posted to the project: a later batch exports it again.        *)
(*                                                                          *)
(* Ledger and lines keep eight decimals, the cost entries of projects two:  *)
(* an entry is rounded, and what is rounded to nothing gets no ledger row.  *)
(*                                                                          *)
(* A batch stands under its idempotency key, which is unique.  Which rows   *)
(* belong to a batch by date, currency and organization is any choice.      *)
(* Left out: the total of a batch, which is the sum of the lines it is      *)
(* written with, the status of a single line, currencies, payables, costs   *)
(* that people post without a source, changes of a row's source, and        *)
(* amounts that are not positive, which are not posted to projects.         *)
(***************************************************************************)
EXTENDS Integers

CONSTANTS
    Usages,        \* AI calls with recorded usage
    ProjectUsages, \* those made for a project
    Records,       \* expenses, as the accounting system numbers them
    Keys,          \* idempotency keys of export batches
    Requests,      \* requests served at a time
    Nil,           \* no batch, no usage, no entry
    Cent,          \* a cent in units of the ledger
    UsageCosts, EntryCosts, ExpenseCosts, \* bounds: amounts given for the three
    Reposted,      \* bound: rows that people post again
    MaxEntries,    \* bound: cost entries of projects
    MaxImports     \* bound: expenses imported

Entries == 1..MaxEntries
Imports == 1..MaxImports
Amounts == UsageCosts \cup EntryCosts \cup ExpenseCosts
Positive == Nat \ {0}

ASSUME CostAssumption ==
    /\ ProjectUsages \subseteq Usages
    /\ Nil \notin Usages \cup Entries \cup Records \cup Keys
    /\ Cent \in Positive /\ Amounts \subseteq Positive
    /\ MaxEntries \in Nat /\ MaxImports \in Nat

VARIABLES
    ledger,   \* cost_ledger_entries: status, amount, and the batch it was exported in
    exported, \* finance_export_lines
    batch,    \* finance_export_batches
    cost,     \* project_cost_entries: the AI usage it stands for, and cents
    posted,   \* ai_usage_ledger: the project cost entry of the usage
    record,   \* finance_import_records: what was imported
    request   \* what every request is about to do, and what it remembers

exportVars == <<exported, batch, cost, posted, record, request>>
costVars == <<ledger, exported, batch, cost, posted, record, request>>

OfUsage(u) == <<"ai_invocation", u>>
OfEntry(e) == <<"project_cost_entry", e>>
OfImport(i) == <<"finance_import", i>>

\* A ledger row is told by its source, which is unique.
Rows == {OfUsage(u) : u \in Usages} \cup {OfEntry(e) : e \in Entries}
            \cup {OfImport(i) : i \in Imports}

\* Amounts that a post or a correction of a row may give it.
Corrections(r) ==
    CASE r[1] = "ai_invocation" -> UsageCosts
      [] r[1] = "project_cost_entry" -> EntryCosts
      [] r[1] = "finance_import" -> ExpenseCosts

\* 'void' stands for every status other than 'posted': none of them is exported.
Given == {"posted", "void"}

NoRow == [status |-> "none", amount |-> 0, key |-> Nil]
NoCost == [made |-> FALSE, usage |-> Nil, amount |-> 0]
NoBatch == [status |-> "none", submitted |-> FALSE]
Idle == [at |-> "idle", key |-> Nil, rows |-> {}, todo |-> {}, of |-> Nil, entry |-> Nil]

\* 'sent' stands for exporting, exported, acknowledged and posted, which the code
\* treats alike.
BatchStates == {"none", "draft", "ready", "sent", "reconciled", "failed"}
Answers == {"sent", "reconciled", "failed"}
Steps == {"idle", "claimed", "posting", "insert", "record", "line", "usage",
          "import", "checked", "waiting"}

LedgerRows == [status : Given \cup {"none"}, amount : Nat, key : Keys \cup {Nil}]
ExportLines == [key : Keys, row : Rows, amount : Positive, entry : Entries \cup {Nil}]
CostRows == [made : BOOLEAN, usage : Usages \cup {Nil}, amount : Nat]
RequestRows == [at : Steps, key : Keys \cup {Nil}, rows : SUBSET Rows, todo : SUBSET Usages,
                of : Usages \cup Records \cup {Nil}, entry : Entries \cup {Nil}]

CostTypeOK ==
    /\ ledger \in [Rows -> LedgerRows]
    /\ exported \subseteq ExportLines
    /\ batch \in [Keys -> [status : BatchStates, submitted : BOOLEAN]]
    /\ cost \in [Entries -> CostRows]
    /\ posted \in [Usages -> Entries \cup {Nil}]
    /\ record \in [Imports -> Records \cup {Nil}]
    /\ request \in [Requests -> RequestRows]

CostInit ==
    /\ ledger = [r \in Rows |-> NoRow]
    /\ exported = {}
    /\ batch = [k \in Keys |-> NoBatch]
    /\ cost = [e \in Entries |-> NoCost]
    /\ posted = [u \in Usages |-> Nil]
    /\ record = [i \in Imports |-> Nil]
    /\ request = [q \in Requests |-> Idle]

Go(q, next) == request' = [request EXCEPT ![q] = next]
At(q, step) == request[q].at = step
Move(q, step) == Go(q, [request[q] EXCEPT !.at = step])

-------------------------------------------------------------------------------
(* The cost ledger (domain/costing). *)

\* Mutant: the rows are selected without FOR UPDATE.
NoLock(r) == FALSE

\* A row in the claim of an open transaction: other statements on it wait.
Locked(r) == \E q \in Requests : At(q, "claimed") /\ r \in request[q].rows

Put(r, status, amount) == [ledger EXCEPT ![r].status = status, ![r].amount = amount]

\* CreateLedgerEntry: a cost whose source has a row overwrites it, exported or not.
CreateLedgerEntry(r, status, amount) ==
    /\ ~Locked(r)
    /\ ledger' = Put(r, status, amount)

\* The gateway records the cost of a call that ended.
recordCostLedger(u, amount) ==
    /\ ledger[OfUsage(u)].status = "none"
    /\ CreateLedgerEntry(OfUsage(u), "posted", amount)
    /\ UNCHANGED exportVars

\* People post a cost again, giving its source, which imported expenses have not.
PostAgain(r, status, amount) ==
    /\ ledger[r].status # "none"
    /\ r \in Reposted /\ r[1] # "finance_import"
    /\ CreateLedgerEntry(r, status, amount)
    /\ UNCHANGED exportVars

Correctable(r) == ledger[r].status # "none" /\ ledger[r].key = Nil /\ ~Locked(r)

UpdateLedgerEntry(r, status, amount) ==
    /\ Correctable(r)
    /\ ledger' = Put(r, status, amount)
    /\ UNCHANGED exportVars

VoidLedgerEntry(r) ==
    /\ Correctable(r)
    /\ ledger' = [ledger EXCEPT ![r].status = "void"]
    /\ UNCHANGED exportVars

-------------------------------------------------------------------------------
(* Export batches (domain/finance). *)

Exportable(r) == ledger[r].status = "posted" /\ ledger[r].key = Nil /\ ~Locked(r)

\* The usages of a batch's lines that have a project and no cost entry yet.
Unposted(lines) ==
    {u \in ProjectUsages : \E l \in lines : l.row = OfUsage(u) /\ l.entry = Nil}

\* The transaction of CreateExportBatch has inserted its batch, for which
\* another with that key waits, and holds the rows it selected.
ClaimRows(q, k, rows) ==
    /\ At(q, "idle")
    /\ batch[k].status = "none"
    /\ \A p \in Requests : ~(At(p, "claimed") /\ request[p].key = k)
    /\ rows \subseteq {r \in Rows : Exportable(r)}
    /\ Go(q, [Idle EXCEPT !.at = "claimed", !.key = k, !.rows = rows])
    /\ UNCHANGED <<ledger, exported, batch, cost, posted, record>>

LineFor(k, r) ==
    [key |-> k, row |-> r, amount |-> ledger[r].amount,
     entry |-> IF r[1] = "project_cost_entry" THEN r[2] ELSE Nil]

\* A request goes on to post the usages todo of a batch.
ToPost(k, todo) == [Idle EXCEPT !.at = "posting", !.key = k, !.todo = todo]

\* The transaction commits; the request goes on to post to projects.  No row
\* is on two lines: there is a unique index.
CommitBatch(q) ==
    LET k == request[q].key
        rows == request[q].rows
        lines == {LineFor(k, r) : r \in rows}
    IN  /\ At(q, "claimed")
        /\ \A l \in exported : l.row \notin rows
        /\ exported' = exported \cup lines
        /\ ledger' = [r \in Rows |-> IF r \in rows THEN [ledger[r] EXCEPT !.key = k] ELSE ledger[r]]
        /\ batch' = [batch EXCEPT ![k] =
               [status |-> IF rows = {} THEN "draft" ELSE "ready", submitted |-> FALSE]]
        /\ Go(q, ToPost(k, Unposted(lines)))
        /\ UNCHANGED <<cost, posted, record>>

\* A second request with the key of a batch gets that batch, and posts what
\* the first has not posted.
FindBatch(q, k) ==
    /\ At(q, "idle")
    /\ batch[k].status # "none"
    /\ Go(q, ToPost(k, Unposted({l \in exported : l.key = k})))
    /\ UNCHANGED <<ledger, exported, batch, cost, posted, record>>

-------------------------------------------------------------------------------
(* Posting AI costs to projects: postProjectCosts, statement by statement.    *)

\* The database rounds to cents, halves upwards.
Cents(amount) == (2 * amount + Cent) \div (2 * Cent)

NewCost(usage, amount) == [made |-> TRUE, usage |-> usage, amount |-> Cents(amount)]

\* Entries are numbered as they are made.
FreeEntry(e) == \A f \in Entries : f < e <=> cost[f].made

CostOf(u) == {e \in Entries : cost[e].usage = u}

\* CreateCostEntryFromAIUsage looks for the entry of the usage.
GetCostEntryBySource(q, u) ==
    /\ At(q, "posting")
    /\ u \in request[q].todo
    /\ \/ \E e \in CostOf(u) :
              Go(q, [request[q] EXCEPT !.at = "line", !.of = u, !.entry = e])
       \/ /\ CostOf(u) = {}
          /\ Go(q, [request[q] EXCEPT !.at = "insert", !.of = u])
    /\ UNCHANGED <<ledger, exported, batch, cost, posted, record>>

\* Mutant: the unique index is missing and the entry is inserted again.
InsertAlways(q, e) ==
    /\ At(q, "insert")
    /\ FreeEntry(e)
    /\ \E l \in exported :
           /\ l.key = request[q].key /\ l.row = OfUsage(request[q].of)
           /\ cost' = [cost EXCEPT ![e] = NewCost(request[q].of, l.amount)]
    /\ Go(q, [request[q] EXCEPT !.at = "record", !.entry = e])
    /\ UNCHANGED <<ledger, exported, batch, posted, record>>

\* It inserts one, or gets the one that another request has inserted meanwhile.
InsertCostEntry(q, e) ==
    /\ At(q, "insert")
    /\ \/ /\ CostOf(request[q].of) = {}
          /\ FreeEntry(e)
          /\ \E l \in exported :
                 /\ l.key = request[q].key /\ l.row = OfUsage(request[q].of)
                 /\ cost' = [cost EXCEPT ![e] = NewCost(request[q].of, l.amount)]
          /\ Go(q, [request[q] EXCEPT !.at = "record", !.entry = e])
       \/ /\ e \in CostOf(request[q].of)
          /\ Go(q, [request[q] EXCEPT !.at = "line", !.entry = e])
          /\ UNCHANGED cost
    /\ UNCHANGED <<ledger, exported, batch, posted, record>>

\* People enter the cost of a project.
CreateCostEntry(q, e, amount) ==
    /\ At(q, "idle")
    /\ FreeEntry(e)
    /\ cost' = [cost EXCEPT ![e] = NewCost(Nil, amount)]
    /\ Go(q, [Idle EXCEPT !.at = "record", !.entry = e])
    /\ UNCHANGED <<ledger, exported, batch, posted, record>>

\* recordCostEntry puts the new entry into the ledger unless it is of nothing, or fails
\* to, which is ignored.
recordCostEntry(q) ==
    LET e == request[q].entry IN
    /\ At(q, "record")
    /\ \/ /\ cost[e].amount # 0
          /\ CreateLedgerEntry(OfEntry(e), "posted", Cent * cost[e].amount)
       \/ UNCHANGED ledger
    /\ IF request[q].key = Nil THEN Go(q, Idle) ELSE Move(q, "line")
    /\ UNCHANGED <<exported, batch, cost, posted, record>>

\* LinkProjectCostEntry, its first statement: the line knows the entry.
LinkLine(q) ==
    /\ At(q, "line")
    /\ exported' = {IF l.key = request[q].key /\ l.row = OfUsage(request[q].of)
                    THEN [l EXCEPT !.entry = request[q].entry] ELSE l : l \in exported}
    /\ Move(q, "usage")
    /\ UNCHANGED <<ledger, batch, cost, posted, record>>

\* And its last: the usage knows the entry.
LinkUsage(q) ==
    /\ At(q, "usage")
    /\ posted' = [posted EXCEPT ![request[q].of] = request[q].entry]
    /\ Go(q, ToPost(request[q].key, request[q].todo \ {request[q].of}))
    /\ UNCHANGED <<ledger, exported, batch, cost, record>>

Posting(q) == request[q].at \in {"posting", "insert", "line", "usage"}

\* An error while posting, such as a project the person may not post to, fails
\* the batch, whatever has become of it.
FailPosting(q) ==
    /\ Posting(q)
    /\ request[q].todo # {}
    /\ batch' = [batch EXCEPT ![request[q].key].status = "failed"]
    /\ Go(q, Idle)
    /\ UNCHANGED <<ledger, exported, cost, posted, record>>

FinishPosting(q) ==
    /\ At(q, "posting")
    /\ request[q].todo = {}
    /\ Go(q, Idle)
    /\ UNCHANGED <<ledger, exported, batch, cost, posted, record>>

-------------------------------------------------------------------------------
(* Sending a batch, and hearing of it. *)

HasLines(k) == \E l \in exported : l.key = k

\* SubmitExportBatch reads the batch,
CheckBatch(q, k) ==
    /\ At(q, "idle")
    /\ batch[k].status \notin {"none", "reconciled"}
    /\ HasLines(k)
    /\ Go(q, [Idle EXCEPT !.at = "checked", !.key = k])
    /\ UNCHANGED <<ledger, exported, batch, cost, posted, record>>

\* marks it, and sends it;
SendBatch(q) ==
    /\ At(q, "checked")
    /\ batch' = [batch EXCEPT ![request[q].key].status = "sent",
                              ![request[q].key].submitted = TRUE]
    /\ Move(q, "waiting")
    /\ UNCHANGED <<ledger, exported, cost, posted, record>>

\* the answer, or its absence, becomes the status even when a webhook was faster.
AnswerBatch(q, answer) ==
    /\ At(q, "waiting")
    /\ batch' = [batch EXCEPT ![request[q].key].status = answer]
    /\ Go(q, Idle)
    /\ UNCHANGED <<ledger, exported, cost, posted, record>>

\* The accounting system tells of a batch that it knows.
ReceiveWebhook(k, status) ==
    /\ batch[k].submitted
    /\ batch' = [batch EXCEPT ![k].status = status]
    /\ UNCHANGED <<ledger, exported, cost, posted, record, request>>

-------------------------------------------------------------------------------
(* Imported expenses. *)

Imported(x) == \E i \in Imports : record[i] = x

findImportRecord(q, x) ==
    /\ At(q, "idle")
    /\ ~Imported(x)
    /\ Go(q, [Idle EXCEPT !.at = "import", !.of = x])
    /\ UNCHANGED <<ledger, exported, batch, cost, posted, record>>

\* One transaction: the ledger row and the record, unless a unique index tells
\* that the expense has been imported since.
CreateImportedExpense(q, i, amount) ==
    /\ At(q, "import")
    /\ Go(q, Idle)
    /\ \/ /\ ~Imported(request[q].of)
          /\ \A j \in Imports : j < i <=> record[j] # Nil
          /\ record' = [record EXCEPT ![i] = request[q].of]
          /\ ledger' = Put(OfImport(i), "posted", amount)
       \/ Imported(request[q].of) /\ UNCHANGED <<record, ledger>>
    /\ UNCHANGED <<exported, batch, cost, posted>>

\* The process or the client dies: an open transaction is rolled back.
Stop(q) ==
    /\ ~At(q, "idle")
    /\ Go(q, Idle)
    /\ UNCHANGED <<ledger, exported, batch, cost, posted, record>>

-------------------------------------------------------------------------------
CostNext ==
    \/ \E u \in Usages, amount \in UsageCosts : recordCostLedger(u, amount)
    \/ \E r \in Rows :
          \/ \E status \in Given, amount \in Corrections(r) :
                 PostAgain(r, status, amount) \/ UpdateLedgerEntry(r, status, amount)
          \/ VoidLedgerEntry(r)
    \/ \E q \in Requests :
          \/ \E k \in Keys : FindBatch(q, k) \/ CheckBatch(q, k)
          \/ \E k \in Keys, rows \in SUBSET {r \in Rows : Exportable(r)} : ClaimRows(q, k, rows)
          \/ \E u \in Usages : GetCostEntryBySource(q, u)
          \/ \E e \in Entries : InsertCostEntry(q, e)
          \/ \E e \in Entries, amount \in EntryCosts : CreateCostEntry(q, e, amount)
          \/ \E i \in Imports, amount \in ExpenseCosts : CreateImportedExpense(q, i, amount)
          \/ \E x \in Records : findImportRecord(q, x)
          \/ \E answer \in Answers : AnswerBatch(q, answer)
          \/ CommitBatch(q) \/ recordCostEntry(q) \/ LinkLine(q) \/ LinkUsage(q)
          \/ FailPosting(q) \/ FinishPosting(q) \/ SendBatch(q) \/ Stop(q)
    \/ \E k \in Keys, status \in Answers : ReceiveWebhook(k, status)

CostSpec == CostInit /\ [][CostNext]_costVars

-------------------------------------------------------------------------------
\* A row is on one line, of the batch it names.
RowsKnowTheirLines ==
    /\ \A l, m \in exported : l.row = m.row => l = m
    /\ \A l \in exported : ledger[l.row].key = l.key
    /\ \A r \in Rows : ledger[r].key # Nil => \E l \in exported : l.row = r

\* What an open transaction has selected is still what it selected, and its own.
ClaimsStand ==
    \A q \in Requests : At(q, "claimed") =>
        /\ \A r \in request[q].rows : ledger[r].status = "posted" /\ ledger[r].key = Nil
        /\ \A p \in Requests \ {q} : At(p, "claimed") =>
              request[p].rows \cap request[q].rows = {} /\ request[p].key # request[q].key

\* A batch with lines is not left a draft, and only such a batch is sent.
BatchesHaveLines ==
    \A k \in Keys :
        /\ HasLines(k) => batch[k].status \notin {"none", "draft"}
        /\ batch[k].submitted => HasLines(k)
        /\ batch[k].status \in {"sent", "reconciled"} => batch[k].submitted

\* However requests that create batches overlap, with different keys or the same
\* one, stop half way and are repeated, while people correct and void costs and the
\* accounting system answers late: a cost is exported once, the row and the line know
\* each other, no cost that was voided or taken meanwhile gets on a line, and what is
\* sent has lines.
ExportsAreExact == RowsKnowTheirLines /\ ClaimsStand /\ BatchesHaveLines

\* An entry differs from the amount of a line by half a cent at most.
IsRounded(cents, amount) ==
    /\ 2 * amount - Cent <= 2 * Cent * cents
    /\ 2 * Cent * cents <= 2 * amount + Cent

\* A usage has one cost entry, of the amount exported but for the rounding to cents,
\* and the line and the usage that are linked are linked to that one, though the
\* posting of a batch may be done by two requests at a time or again after a crash; an
\* expense that is sent twice, or by two requests at a time, is imported once.
NothingIsPostedTwice ==
    /\ \A e, f \in Entries : cost[e].usage = cost[f].usage /\ cost[e].usage # Nil => e = f
    /\ \A i, j \in Imports : record[i] = record[j] /\ record[i] # Nil => i = j
    /\ \A u \in Usages, l \in exported :
          l.row = OfUsage(u) /\ l.entry # Nil =>
              cost[l.entry].usage = u /\ IsRounded(cost[l.entry].amount, l.amount)
    /\ \A u \in Usages : posted[u] # Nil =>
          \E l \in exported : l.row = OfUsage(u) /\ l.entry = posted[u]
==============================================================================
