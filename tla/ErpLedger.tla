------------------------------ MODULE ErpLedger ------------------------------
(***************************************************************************)
(* The business documents of the ERP and the books they post to: purchase   *)
(* and sales orders, the receipts and deliveries that fulfil them, stock at *)
(* weighted average cost, invoices, payments and their allocations.         *)
(*                                                                          *)
(* Every write is a transaction under one tenant-wide advisory lock, so it  *)
(* is one action; a request that is refused rolls back and has no action.   *)
(* Purchase and sale run the same code over different tables: a document    *)
(* key belongs to one side.  Amounts count the ledger's last decimal.       *)
(*                                                                          *)
(* A document has one line.  An amount a person types in (a payment, an     *)
(* invoice without lines) is the total of some line.  Not modelled:         *)
(* currencies, the activity of master data, hand-made journals, incomplete  *)
(* drafts (every action refuses them), the size limit on numbers, and the   *)
(* keys of generated movements and journals, taken as free.                 *)
(***************************************************************************)
EXTENDS Integers, FiniteSets, Functions

CONSTANTS
    Orders, Fulfillments, Invoices, Payments, StockPapers, \* keys of documents
    Purchases,     \* the documents of the purchase side; the others sell
    InvoiceOf,     \* the key under which posting a fulfillment drafts its invoice
    Items,         \* an item in a warehouse
    Lines,         \* lines people may type in: item, qty, price, rate (per cent)
    Partners,      \* suppliers and customers
    None,          \* no partner, no document
    MaxDrafts      \* bound: documents typed in or edited by hand

Papers == Orders \cup Fulfillments \cup Invoices \cup Payments \cup StockPapers

ASSUME ErpAssumption ==
    /\ Purchases \subseteq Papers
    /\ InvoiceOf \in [Fulfillments -> Invoices]
    /\ \A f, g \in Fulfillments : InvoiceOf[f] = InvoiceOf[g] => f = g
    /\ \A f \in Fulfillments : f \in Purchases <=> InvoiceOf[f] \in Purchases
    /\ Lines \subseteq [item : Items, qty : Nat \ {0}, price : Nat, rate : 0..100]
    /\ None \notin Partners \cup Papers /\ None \notin Lines
    \* Every kind of document is a table of its own.
    /\ Orders \cap (Fulfillments \cup Invoices \cup Payments \cup StockPapers) = {}
    /\ Fulfillments \cap (Invoices \cup Payments \cup StockPapers) = {}
    /\ Invoices \cap (Payments \cup StockPapers) = {} /\ Payments \cap StockPapers = {}
    /\ IsFiniteSet(Papers) /\ IsFiniteSet(Items)
    /\ MaxDrafts \in Nat

VARIABLES
    paper,   \* the documents: header, line and links
    alloc,   \* the allocation lines of each payment, summed per invoice
    stock,   \* quantity on hand and value of each item
    books,   \* debits less credits of each account, over the generated journals
    drafts   \* documents typed in or edited so far

erpVars == <<paper, alloc, stock, books, drafts>>

Accounts == {"cash", "receivable", "inventory", "accrued", "payable", "input tax",
             "output tax", "revenue", "cost of sales", "expense", "adjustment"}

States == {"none", "open", "prepared", "approved", "posted", "closed"}

Blank == [state |-> "none", partner |-> None, line |-> None, base |-> None, link |-> None,
          settled |-> 0]

------------------------------------------------------------------------------
(* Amounts *)

\* Quotient of naturals, rounded half up.
RoundDiv(a, b) == (2 * a + b) \div (2 * b)

Net(line) == line.qty * line.price

Tax(line) == RoundDiv(Net(line) * line.rate, 100)

Total(line) == Net(line) + Tax(line)

NoEntry == [a \in Accounts |-> 0]

Entry(debit, credit, amount) == [NoEntry EXCEPT ![debit] = amount, ![credit] = -amount]

\* A journal has to balance; an amount of zero makes no journal.
postJournal(entry) ==
    /\ SumFunction(entry) = 0
    /\ books' = [a \in Accounts |-> books[a] + entry[a]]

\* Mutant: stock leaves at the stored average price instead of its share of the value.
IssueAtAverage(cell, qty) == qty * RoundDiv(cell.value, cell.onHand)

\* What leaves the stock costs its share of the value, and the last of it all of the value.
IssueAmount(cell, qty) ==
    CASE qty = cell.onHand -> cell.value
      [] cell.onHand = 0   -> 0
      [] OTHER             -> RoundDiv(cell.value * qty, cell.onHand)

\* The stock after a line came in at its price.
Received(line) ==
    [stock EXCEPT ![line.item] = [onHand |-> @.onHand + line.qty, value |-> @.value + Net(line)]]

\* The stock after a line went out at the average cost.
Issued(line) ==
    [stock EXCEPT ![line.item] = [onHand |-> @.onHand - line.qty,
                                  value |-> @.value - IssueAmount(@, line.qty)]]

\* Mutant: more may leave the stock than there is.
InventoryOversold(line, in, counter) ==
    LET cell == stock[line.item] IN
    IF in
    THEN /\ stock' = Received(line)
         /\ postJournal(Entry("inventory", counter, Net(line)))
    ELSE /\ stock' = Issued(line)
         /\ postJournal(Entry(counter, "inventory", IssueAmount(cell, line.qty)))

\* One movement of stock against a counter account.
adjustValuedInventory(line, in, counter) ==
    LET cell == stock[line.item] IN
    IF in
    THEN /\ stock' = Received(line)
         /\ postJournal(Entry("inventory", counter, Net(line)))
    ELSE /\ cell.onHand >= line.qty
         /\ IssueAmount(cell, line.qty) <= cell.value
         /\ stock' = Issued(line)
         /\ postJournal(Entry(counter, "inventory", IssueAmount(cell, line.qty)))

------------------------------------------------------------------------------
ErpTypeOK ==
    /\ paper \in [Papers -> [state : States, partner : Partners \cup {None},
                             line : Lines \cup {None},
                             base : Orders \cup Fulfillments \cup {None},
                             link : Fulfillments \cup Invoices \cup {None}, settled : Nat]]
    /\ alloc \in [Payments \X Invoices -> Nat]
    /\ stock \in [Items -> [onHand : Nat, value : Nat]]
    /\ books \in [Accounts -> Int]
    /\ drafts \in 0..MaxDrafts
    /\ \A p \in Papers : paper[p].state = "none" <=> paper[p].line = None

ErpInit ==
    /\ paper = [p \in Papers |-> Blank]
    /\ alloc = [pi \in Payments \X Invoices |-> 0]
    /\ stock = [i \in Items |-> [onHand |-> 0, value |-> 0]]
    /\ books = NoEntry
    /\ drafts = 0

------------------------------------------------------------------------------
(* Records typed in, edited and deleted *)

\* Mutant: a payment may be edited after part of it was allocated.
EditableWhenAllocated(p) == paper[p].state \in {"open", "prepared"} /\ paper[p].base = None

\* Approved, posted, closed, generated and allocated documents are immutable.
ensureEditable(p) ==
    /\ paper[p].state \in {"open", "prepared"}
    /\ paper[p].base = None
    /\ p \in Payments => paper[p].settled = 0

\* Payments may leave the partner open; stock papers have none.
PartnersOf(p) ==
    CASE p \in StockPapers -> {None}
      [] p \in Payments    -> Partners \cup {None}
      [] OTHER             -> Partners

\* A draft is created, or edited: the edit of a submitted purchase order may also
\* reset its status, a sales order stays confirmed.
EnterDraft(p, partner, line) ==
    /\ drafts < MaxDrafts
    /\ drafts' = drafts + 1
    /\ \/ /\ paper[p].state = "none"
          /\ paper' = [paper EXCEPT ![p] = [Blank EXCEPT !.state = "open", !.partner = partner,
                                                         !.line = line]]
       \/ /\ ensureEditable(p)
          /\ \E s \in {paper[p].state} \cup (IF p \in Purchases THEN {"open"} ELSE {}) :
                paper' = [paper EXCEPT ![p].state = s, ![p].partner = partner, ![p].line = line]
    /\ UNCHANGED <<alloc, stock, books>>

DeleteDraft(p) ==
    /\ ensureEditable(p)
    /\ paper' = [paper EXCEPT ![p] = Blank]
    /\ UNCHANGED <<alloc, stock, books, drafts>>

------------------------------------------------------------------------------
(* Orders and their fulfillment *)

\* Submit a purchase order, confirm a sales order.
prepareOrder(o) ==
    /\ ensureEditable(o)
    /\ paper' = [paper EXCEPT ![o].state = "prepared"]
    /\ UNCHANGED <<alloc, stock, books, drafts>>

approveOrder(o) ==
    /\ paper[o].state = "prepared"
    /\ paper' = [paper EXCEPT ![o].state = "approved"]
    /\ UNCHANGED <<alloc, stock, books, drafts>>

\* Mutant: an order is converted again while its first fulfillment is open.
ConvertAgain(o, f) ==
    /\ paper[o].state = "approved"
    /\ paper[f].state = "none" /\ (f \in Purchases <=> o \in Purchases)
    /\ paper' = [paper EXCEPT ![f] = [paper[o] EXCEPT !.state = "open", !.base = o],
                              ![o].link = f]
    /\ UNCHANGED <<alloc, stock, books, drafts>>

\* The whole order becomes one fulfillment, under a key the caller may choose; an
\* order that has one only shows it.
convertOrderToFulfillment(o, f) ==
    /\ paper[o].state = "approved" /\ paper[o].link = None
    /\ paper[f].state = "none" /\ (f \in Purchases <=> o \in Purchases)
    /\ paper' = [paper EXCEPT ![f] = [paper[o] EXCEPT !.state = "open", !.base = o],
                              ![o].link = f]
    /\ UNCHANGED <<alloc, stock, books, drafts>>

approveFulfillment(f) ==
    /\ paper[f].state = "open"
    /\ paper' = [paper EXCEPT ![f].state = "approved"]
    /\ UNCHANGED <<alloc, stock, books, drafts>>

\* The order, if there is one, is approved and open, and is fulfilled by this document.
validateFulfillmentSource(f) ==
    LET o == paper[f].base IN
    o # None => /\ paper[o].state = "approved"
                /\ paper[o].partner = paper[f].partner
                /\ paper[o].link \in {None, f}
                /\ paper[o].line = paper[f].line

\* Stock moves, the invoice is drafted, and fulfillment and order are done.
postStockFulfillment(f) ==
    LET o == paper[f].base
        posted == [paper EXCEPT ![f].state = "posted", ![f].link = InvoiceOf[f],
                                ![InvoiceOf[f]] = [paper[f] EXCEPT !.state = "open",
                                                                   !.base = f]]
    IN  /\ paper[f].state = "approved"
        /\ paper[InvoiceOf[f]].state = "none"
        /\ validateFulfillmentSource(f)
        /\ adjustValuedInventory(paper[f].line, f \in Purchases,
                                 IF f \in Purchases THEN "accrued" ELSE "cost of sales")
        /\ paper' = IF o = None THEN posted ELSE [posted EXCEPT ![o].state = "closed"]
        /\ UNCHANGED <<alloc, drafts>>

\* A goods issue or receipt typed in by hand.
postStandaloneInventory(s) ==
    /\ paper[s].state = "open"
    /\ adjustValuedInventory(paper[s].line, s \in Purchases, "adjustment")
    /\ paper' = [paper EXCEPT ![s].state = "posted"]
    /\ UNCHANGED <<alloc, drafts>>

------------------------------------------------------------------------------
(* Invoices and payments *)

\* Mutant: a purchase invoice is booked as an expense although its goods were accrued.
InvoiceAsExpense(i) ==
    LET line == paper[i].line IN
    IF i \in Purchases
    THEN [NoEntry EXCEPT !["payable"] = -Total(line), !["expense"] = Net(line),
                         !["input tax"] = Tax(line)]
    ELSE [NoEntry EXCEPT !["receivable"] = Total(line), !["revenue"] = -Net(line),
                         !["output tax"] = -Tax(line)]

\* An invoice for received goods clears what the receipt accrued.
InvoiceEntry(i) ==
    LET line == paper[i].line IN
    IF i \in Purchases
    THEN [NoEntry EXCEPT !["payable"] = -Total(line), !["input tax"] = Tax(line),
             ![IF paper[i].base = None THEN "expense" ELSE "accrued"] = Net(line)]
    ELSE [NoEntry EXCEPT !["receivable"] = Total(line), !["revenue"] = -Net(line),
                         !["output tax"] = -Tax(line)]

postFinancialInvoice(i) ==
    LET f == paper[i].base IN
    /\ paper[i].state = "open"
    /\ Total(paper[i].line) > 0
    /\ f # None => /\ paper[f].state = "posted" /\ paper[f].link = i
                   /\ paper[f].partner = paper[i].partner
                   /\ Total(paper[f].line) = Total(paper[i].line)
    /\ postJournal(InvoiceEntry(i))
    /\ paper' = [paper EXCEPT ![i].state = "posted"]
    /\ UNCHANGED <<alloc, stock, drafts>>

Open(p) == Total(paper[p].line) - paper[p].settled

\* Part of a payment settles part of a posted invoice; from then on the payment is
\* that partner's.
allocatePayment(p, i, amount) ==
    /\ paper[p].state = "open" /\ paper[i].state = "posted"
    /\ p \in Purchases <=> i \in Purchases
    /\ paper[p].partner \in {None, paper[i].partner}
    /\ amount <= Open(p) /\ amount <= Open(i)
    /\ alloc' = [alloc EXCEPT ![<<p, i>>] = @ + amount]
    /\ paper' = [paper EXCEPT ![i].settled = @ + amount,
                              ![p].settled = @ + amount, ![p].partner = paper[i].partner]
    /\ postJournal(IF p \in Purchases THEN Entry("payable", "cash", amount)
                                      ELSE Entry("cash", "receivable", amount))
    /\ UNCHANGED <<stock, drafts>>

ErpNext ==
    \/ \E p \in Papers : \/ \E partner \in PartnersOf(p), line \in Lines :
                               EnterDraft(p, partner, line)
                         \/ DeleteDraft(p)
    \/ \E o \in Orders : \/ prepareOrder(o)
                         \/ approveOrder(o)
                         \/ \E f \in Fulfillments : convertOrderToFulfillment(o, f)
    \/ \E f \in Fulfillments : approveFulfillment(f) \/ postStockFulfillment(f)
    \/ \E s \in StockPapers : postStandaloneInventory(s)
    \/ \E i \in Invoices : postFinancialInvoice(i)
    \/ \E p \in Payments, i \in Invoices :
          \E amount \in 1..(IF paper[i].state = "posted" THEN Open(i) ELSE 0) :
             allocatePayment(p, i, amount)

ErpSpec == ErpInit /\ [][ErpNext]_erpVars

------------------------------------------------------------------------------
Posted(set) == {p \in set : paper[p].state = "posted"}

OpenSum(set) == SumFunction([p \in Posted(set) |-> Open(p)])

SettledSum(set) == SumFunction([p \in set |-> paper[p].settled])

\* The received goods that no posted invoice has cleared yet.
Unbilled == {f \in Posted(Fulfillments \cap Purchases) : paper[InvoiceOf[f]].state # "posted"}

AllocationsAddUp ==
    /\ \A p \in Payments : paper[p].settled = SumFunction([i \in Invoices |-> alloc[<<p, i>>]])
    /\ \A i \in Invoices : paper[i].settled = SumFunction([p \in Payments |-> alloc[<<p, i>>]])
    /\ \A p \in Payments \cup Invoices : paper[p].state # "none" => Open(p) >= 0
    /\ \A p \in Payments, i \in Invoices : alloc[<<p, i>>] > 0 =>
          /\ paper[i].state = "posted"
          /\ \A j \in Invoices : alloc[<<p, j>>] > 0 => paper[i].partner = paper[j].partner

\* The books say what the documents say: the inventory account is worth the stock,
\* receivables and payables are the posted invoices less what was paid on them, and
\* what is accrued is what was received and not invoiced yet, through every order of
\* posting, allocation and rounding.  And "record each allocation exactly once": the lines
\* of a payment add up to what it says it allocated and those on an invoice to what was
\* paid on it, neither exceeds its total, and a payment settles invoices of one partner.
BooksMatchSubledgers ==
    /\ AllocationsAddUp
    /\ books["inventory"] = SumFunction([i \in Items |-> stock[i].value])
    /\ books["receivable"] = OpenSum(Invoices \ Purchases)
    /\ books["payable"] = -OpenSum(Invoices \cap Purchases)
    /\ books["accrued"] = -SumFunction([f \in Unbilled |-> Net(paper[f].line)])
    /\ books["cash"] = SettledSum(Payments \ Purchases) - SettledSum(Payments \cap Purchases)

Movements == Fulfillments \cup StockPapers

\* The quantity of an item on posted papers.
Moved(set, i) ==
    SumFunction([p \in {q \in Posted(set) : paper[q].line.item = i} |-> paper[p].line.qty])

\* "Maintain valuation": stock on hand is what came in less what went out, never
\* below zero, and when nothing is left nothing is left of its value, whatever was
\* lost or gained by rounding on the way.
StockIsValued ==
    \A i \in Items :
        /\ stock[i].onHand = Moved(Movements \cap Purchases, i) - Moved(Movements \ Purchases, i)
        /\ stock[i].onHand >= 0 /\ stock[i].value >= 0
        /\ stock[i].onHand = 0 => stock[i].value = 0

\* An order is fulfilled once and completely: it has at most one fulfillment and
\* links to it, the two agree on partner and line, and the order is closed exactly
\* when that fulfillment is posted.
OrderFulfilledOnce ==
    \A o \in Orders :
        LET mine == {f \in Fulfillments : paper[f].base = o} IN
        /\ mine = {paper[o].link} \ {None}
        /\ \A f \in mine : paper[f].line = paper[o].line /\ paper[f].partner = paper[o].partner
        /\ paper[o].state = "closed" <=> Posted(mine) # {}

Binding(p) == paper[p].state \in {"approved", "posted", "closed"} \/ paper[p].settled > 0

\* Approved, posted, or settled documents are immutable: no edit, deletion or later
\* action takes a document others rely on back, or changes its line, source or (for a
\* payment, once it is known) its partner.
BindingIsImmutable ==
    [][\A p \in Papers : Binding(p) =>
          /\ Binding(p)'
          /\ paper'[p].line = paper[p].line /\ paper'[p].base = paper[p].base
          /\ paper'[p].partner = paper[p].partner
          /\ paper[p].state \in {"posted", "closed"} => paper'[p].state = paper[p].state
          /\ paper'[p].settled >= paper[p].settled]_erpVars
==============================================================================
