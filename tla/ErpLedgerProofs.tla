---------------------------- MODULE ErpLedgerProofs ----------------------------
(***************************************************************************)
(* Proofs about ErpLedger: for any documents, partners, lines and items,    *)
(* an order is fulfilled once, a binding document stays what it is, the     *)
(* accounts equal what the documents say and the stock what was moved.      *)
(*                                                                          *)
(* The invariant has a part for every document (in which states it can be,  *)
(* when something was settled on it, when its partner is known) and a part  *)
(* for every order and fulfillment that says what their two links, in       *)
(* opposite directions, have to do with each other.                         *)
(*                                                                          *)
(* LedgerInv adds what accounts and stock are sums of.  A step changes one  *)
(* term of such a sum, or none, which is all that is used of sums; the      *)
(* section on sums derives it from their definition as a fold.              *)
(***************************************************************************)
EXTENDS ErpLedger, FiniteSetTheorems, WellFoundedInduction, TLAPS

PaperRows == [state : States, partner : Partners \cup {None}, line : Lines \cup {None},
              base : Orders \cup Fulfillments \cup {None},
              link : Fulfillments \cup Invoices \cup {None}, settled : Nat]

PaperOK(p) ==
    /\ paper[p].state = "none" => paper[p] = Blank
    /\ paper[p].line = None => paper[p].state = "none"
    /\ p \in Orders =>
          /\ paper[p].base = None /\ paper[p].link \in Fulfillments \cup {None}
          /\ paper[p].state \in {"none", "open", "prepared", "approved", "closed"}
          /\ paper[p].state = "closed" => paper[p].link # None
          /\ paper[p].link # None => paper[p].state \in {"approved", "closed"}
    /\ p \in Fulfillments =>
          /\ paper[p].base \in Orders \cup {None}
          /\ paper[p].state \in {"none", "open", "approved", "posted"}
    /\ p \notin Payments /\ paper[p].settled > 0 => paper[p].state = "posted" /\ p \in Invoices
    /\ p \in Payments /\ paper[p].settled > 0 => paper[p].partner # None
    /\ p \in Orders \cup Fulfillments \cup Invoices /\ paper[p].state # "none" =>
          paper[p].partner # None

\* Order and fulfillment know each other, agree, and are done together.
PairOK(o, f) ==
    /\ paper[f].base = o <=> paper[o].link = f
    /\ paper[f].base = o =>
          /\ paper[f].state # "none"
          /\ paper[f].line = paper[o].line /\ paper[f].partner = paper[o].partner
          /\ paper[o].state = "closed" <=> paper[f].state = "posted"

ErpInv ==
    /\ paper \in [Papers -> PaperRows]
    /\ \A p \in Papers : PaperOK(p)
    /\ \A o \in Orders, f \in Fulfillments : PairOK(o, f)

\* What BindingIsImmutable asks of one document.
Kept(p) ==
    Binding(p) =>
       /\ Binding(p)'
       /\ paper'[p].line = paper[p].line /\ paper'[p].base = paper[p].base
       /\ paper'[p].partner = paper[p].partner
       /\ paper[p].state \in {"posted", "closed"} => paper'[p].state = paper[p].state
       /\ paper'[p].settled >= paper[p].settled

GoodStep == ErpInv' /\ \A p \in Papers : Kept(p)

LEMMA Kinds ==
    /\ Orders \subseteq Papers /\ Fulfillments \subseteq Papers /\ Invoices \subseteq Papers
    /\ Payments \subseteq Papers /\ StockPapers \subseteq Papers
    /\ \A o \in Orders : o \notin Fulfillments /\ o \notin Invoices /\ o \notin Payments
                         /\ o \notin StockPapers
    /\ \A f \in Fulfillments : f \notin Invoices /\ f \notin Payments /\ f \notin StockPapers
    /\ \A i \in Invoices : i \notin Payments /\ i \notin StockPapers
    /\ \A p \in Payments : p \notin StockPapers
    /\ None \notin Papers /\ None \notin Partners /\ None \notin Lines
BY ErpAssumption DEF Papers

LEMMA BlankRow == /\ Blank \in PaperRows
                  /\ Blank.state = "none" /\ Blank.partner = None /\ Blank.line = None
                  /\ Blank.base = None /\ Blank.link = None /\ Blank.settled = 0
BY DEF Blank, PaperRows, States

\* A document that did not change is what it was.
LEMMA PaperStays ==
    ASSUME NEW p \in Papers, PaperOK(p), paper'[p] = paper[p]
    PROVE  PaperOK(p)' /\ (paper[p].settled \in Nat => Kept(p))
BY DEF PaperOK, Kept, Binding

LEMMA PairStays ==
    ASSUME NEW o \in Orders, NEW f \in Fulfillments, PairOK(o, f),
           paper'[o] = paper[o], paper'[f] = paper[f]
    PROVE  PairOK(o, f)'
BY DEF PairOK

LEMMA Settled == ASSUME ErpInv, NEW p \in Papers PROVE paper[p].settled \in Nat
BY DEF ErpInv, PaperRows

\* A step on one document that leaves its place between order and fulfillment.
LEMMA OnePaper ==
    ASSUME ErpInv, NEW p \in Papers, NEW row \in PaperRows,
           paper' = [paper EXCEPT ![p] = row],
           PaperOK(p)', Kept(p),
           p \in Orders => row.link = paper[p].link,
           p \in Fulfillments => row.base = paper[p].base,
           \/ p \in Orders /\ row.link = None
           \/ p \in Fulfillments /\ row.base = None
           \/ p \notin Orders \cup Fulfillments
           \/ /\ row.line = paper[p].line /\ row.partner = paper[p].partner
              /\ row.state # "none"
              /\ row.state \in {"posted", "closed"} <=> paper[p].state \in {"posted", "closed"}
    PROVE  GoodStep
<1>1. /\ paper' \in [Papers -> PaperRows] /\ paper'[p] = row
      /\ \A q \in Papers : q # p => paper'[q] = paper[q]
  BY DEF ErpInv
<1>2. ASSUME NEW q \in Papers PROVE PaperOK(q)' /\ Kept(q)
  BY <1>1, PaperStays, Settled DEF ErpInv
<1>3. ASSUME NEW o \in Orders, NEW f \in Fulfillments PROVE PairOK(o, f)'
  <2>1. PairOK(o, f) /\ o \in Papers /\ f \in Papers /\ o # f
    BY Kinds DEF ErpInv
  <2>2. CASE p # o /\ p # f
    BY <1>1, <2>1, <2>2, PairStays
  <2>3. CASE p = o
    <3>1. paper'[o] = row /\ paper'[f] = paper[f] /\ row.link = paper[o].link
      BY <1>1, <2>1, <2>3
    <3>2. row.state # "posted" /\ paper[o].state # "posted"
      BY <1>2, <2>1, <2>3, <3>1 DEF ErpInv, PaperOK
    <3>3. None \notin Fulfillments /\ o \notin Fulfillments
      BY Kinds
    <3>4. QED
      BY <2>1, <2>3, <3>1, <3>2, <3>3 DEF PairOK
  <2>4. CASE p = f
    <3>1. paper'[f] = row /\ paper'[o] = paper[o] /\ row.base = paper[f].base
      BY <1>1, <2>1, <2>4
    <3>2. row.state # "closed" /\ paper[f].state # "closed"
      BY <1>2, <2>1, <2>4, <3>1 DEF ErpInv, PaperOK
    <3>3. o # None /\ f \notin Orders
      BY Kinds
    <3>4. QED
      BY <2>1, <2>4, <3>1, <3>2, <3>3 DEF PairOK
  <2>5. QED
    BY <2>2, <2>3, <2>4
<1>4. QED
  BY <1>1, <1>2, <1>3 DEF GoodStep, ErpInv

\* Only the state changes, on the way to being binding.
LEMMA StateStep ==
    ASSUME ErpInv, NEW p \in Papers, NEW s \in States,
           paper' = [paper EXCEPT ![p].state = s],
           paper[p].state \in {"open", "prepared"}, s # "none", s # "closed",
           p \in Orders => s \in {"open", "prepared", "approved"},
           p \in Fulfillments => s \in {"open", "approved"},
           p \in Payments => s = paper[p].state
    PROVE  GoodStep
<1> DEFINE row == [paper[p] EXCEPT !.state = s]
<1>1. paper[p] \in PaperRows /\ PaperOK(p)
  BY DEF ErpInv
<1>2. /\ row \in PaperRows /\ row.state = s
      /\ row.line = paper[p].line /\ row.partner = paper[p].partner /\ row.base = paper[p].base
      /\ row.link = paper[p].link /\ row.settled = paper[p].settled
  BY <1>1 DEF PaperRows
<1>3. paper' = [paper EXCEPT ![p] = row]
  OBVIOUS
<1> HIDE DEF row
<1>4. paper'[p] = row
  BY <1>3 DEF ErpInv
<1>5. PaperOK(p)'
  BY <1>1, <1>2, <1>4, Kinds DEF PaperOK
<1>6. Kept(p)
  <2>1. paper[p].settled \in Nat
    BY Settled
  <2>2. QED
    BY <1>1, <1>2, <1>4, <2>1 DEF Kept, Binding
<1>7. p \in Orders => s # "posted"
  OBVIOUS
<1>8. s \in {"posted", "closed"} => p \notin Orders \cup Fulfillments
  BY Kinds
<1>9. QED
  BY <1>1, <1>2, <1>3, <1>5, <1>6, <1>7, <1>8, OnePaper

LEMMA EditableIsNotBinding ==
    ASSUME ErpInv, NEW p \in Papers, ensureEditable(p)
    PROVE  /\ ~Binding(p) /\ paper[p].base = None
           /\ p \in Orders => paper[p].link = None
           /\ p \in Fulfillments => paper[p].state = "open"
           /\ paper[p].settled = 0
<1>1. PaperOK(p) /\ paper[p].settled \in Nat
  BY Settled DEF ErpInv
<1>2. paper[p].state \in {"open", "prepared"} /\ paper[p].base = None
  BY DEF ensureEditable
<1>3. paper[p].settled = 0
  BY <1>1, <1>2 DEF ensureEditable, PaperOK
<1>4. QED
  BY <1>1, <1>2, <1>3 DEF PaperOK, Binding

LEMMA DraftGood ==
    ASSUME ErpInv, NEW p \in Papers, NEW partner \in PartnersOf(p), NEW line \in Lines,
           EnterDraft(p, partner, line)
    PROVE  GoodStep
<1>1. paper[p] \in PaperRows /\ PaperOK(p)
  BY DEF ErpInv
<1>2. /\ partner \in Partners \cup {None} /\ line \in Lines \cup {None} /\ line # None
      /\ p \in Orders \cup Fulfillments \cup Invoices => partner # None
  BY Kinds DEF PartnersOf
<1>3. ASSUME NEW row \in PaperRows, paper' = [paper EXCEPT ![p] = row],
             row.state # "none", row.line # None, row.base = None, row.settled = 0,
             row.partner = partner, ~Binding(p),
             p \in Orders => /\ row.link = None /\ paper[p].link = None
                             /\ row.state \in {"open", "prepared"},
             p \in Fulfillments => row.state = "open" /\ paper[p].base = None
      PROVE  GoodStep
  <2>1. paper'[p] = row
    BY <1>3 DEF ErpInv
  <2>2. PaperOK(p)'
    BY <1>2, <1>3, <2>1 DEF PaperOK
  <2>3. Kept(p)
    BY <1>3 DEF Kept
  <2>4. QED
    BY <1>3, <2>2, <2>3, OnePaper
<1>4. CASE /\ paper[p].state = "none"
           /\ paper' = [paper EXCEPT ![p] = [Blank EXCEPT !.state = "open", !.partner = partner,
                                                          !.line = line]]
  <2> DEFINE row == [Blank EXCEPT !.state = "open", !.partner = partner, !.line = line]
  <2>1. /\ row \in PaperRows /\ row.state = "open" /\ row.line = line /\ row.partner = partner
        /\ row.base = None /\ row.link = None /\ row.settled = 0
    BY <1>2 DEF PaperRows, Blank, States
  <2>2. paper' = [paper EXCEPT ![p] = row]
    BY <1>4
  <2> HIDE DEF row
  <2>3. paper[p].base = None /\ paper[p].link = None /\ ~Binding(p)
    BY <1>1, <1>4, BlankRow DEF PaperOK, Binding
  <2>4. QED
    BY <1>2, <1>3, <2>1, <2>2, <2>3
<1>5. CASE /\ ensureEditable(p)
           /\ \E s \in {paper[p].state} \cup (IF p \in Purchases THEN {"open"} ELSE {}) :
                 paper' = [paper EXCEPT ![p].state = s, ![p].partner = partner, ![p].line = line]
  <2>1. PICK s \in {paper[p].state, "open"} :
           paper' = [paper EXCEPT ![p].state = s, ![p].partner = partner, ![p].line = line]
    BY <1>5
  <2>2. s \in {"open", "prepared"} /\ s \in States
    BY <1>5 DEF ensureEditable, States
  <2> DEFINE row == [paper[p] EXCEPT !.state = s, !.partner = partner, !.line = line]
  <2>3. /\ row \in PaperRows /\ row.state = s /\ row.line = line /\ row.partner = partner
        /\ row.base = paper[p].base /\ row.link = paper[p].link
        /\ row.settled = paper[p].settled
    BY <1>1, <1>2, <2>2 DEF PaperRows
  <2>4. paper' = [paper EXCEPT ![p] = row]
    BY <2>1 DEF ErpInv
  <2> HIDE DEF row
  <2>5. /\ ~Binding(p) /\ paper[p].base = None /\ paper[p].settled = 0
        /\ p \in Orders => paper[p].link = None
        /\ p \in Fulfillments => paper[p].state = "open"
    BY <1>5, EditableIsNotBinding
  <2>6. p \in Fulfillments => s = "open"
    BY <2>1, <2>5
  <2>7. QED
    BY <1>2, <1>3, <2>2, <2>3, <2>4, <2>5, <2>6
<1>6. QED
  BY <1>4, <1>5, Zenon DEF EnterDraft

LEMMA DeleteGood ==
    ASSUME ErpInv, NEW p \in Papers, DeleteDraft(p)
    PROVE  GoodStep
<1>1. paper' = [paper EXCEPT ![p] = Blank] /\ ensureEditable(p)
  BY DEF DeleteDraft
<1>2. paper'[p] = Blank
  BY <1>1 DEF ErpInv
<1>3. PaperOK(p)' /\ Kept(p)
  BY <1>1, <1>2, BlankRow, EditableIsNotBinding DEF PaperOK, Kept
<1>4. QED
  BY <1>1, <1>3, BlankRow, EditableIsNotBinding, OnePaper

\* An approved order gets the fulfillment that has none.
LEMMA ConvertGood ==
    ASSUME ErpInv, NEW o \in Orders, NEW f \in Fulfillments, convertOrderToFulfillment(o, f)
    PROVE  GoodStep
<1> DEFINE new == [paper[o] EXCEPT !.state = "open", !.base = o]
           old == [paper[o] EXCEPT !.link = f]
<1>1. /\ o \in Papers /\ f \in Papers /\ o # f /\ o # None /\ f # None
      /\ PaperOK(o) /\ PaperOK(f)
      /\ paper[o] \in PaperRows
  BY Kinds DEF ErpInv
<1>2. paper[o].state = "approved" /\ paper[o].link = None /\ paper[f].state = "none"
  BY DEF convertOrderToFulfillment
<1>3. /\ new \in PaperRows /\ new.state = "open" /\ new.base = o /\ new.line = paper[o].line
      /\ new.partner = paper[o].partner /\ new.settled = paper[o].settled
      /\ old \in PaperRows /\ old.link = f /\ old.base = paper[o].base
      /\ old.state = paper[o].state /\ old.line = paper[o].line
      /\ old.partner = paper[o].partner /\ old.settled = paper[o].settled
  BY <1>1 DEF PaperRows, States
<1>4. /\ paper' \in [Papers -> PaperRows] /\ paper'[f] = new /\ paper'[o] = old
      /\ \A q \in Papers : q # o /\ q # f => paper'[q] = paper[q]
  <2>1. paper' = [paper EXCEPT ![f] = new, ![o].link = f]
    BY DEF convertOrderToFulfillment
  <2> HIDE DEF new
  <2>2. paper' = [paper EXCEPT ![f] = new, ![o] = old]
    BY <1>1, <2>1 DEF ErpInv
  <2> HIDE DEF old
  <2>3. QED
    BY <1>1, <1>3, <2>2 DEF ErpInv
<1> HIDE DEF new, old
<1>5. PaperOK(o)' /\ PaperOK(f)'
  BY <1>1, <1>2, <1>3, <1>4, Kinds DEF PaperOK
<1>6. Kept(o) /\ Kept(f)
  <2>1. paper[o].settled \in Nat /\ ~Binding(f)
    BY <1>1, <1>2, Settled, BlankRow DEF PaperOK, Binding
  <2>2. QED
    BY <1>1, <1>2, <1>3, <1>4, <2>1 DEF Kept, Binding
<1>7. \A q \in Papers : PaperOK(q)' /\ Kept(q)
  <2>1. ASSUME NEW q \in Papers, q # o, q # f PROVE PaperOK(q)' /\ Kept(q)
    BY <1>4, <2>1, PaperStays, Settled DEF ErpInv
  <2>2. QED
    BY <1>5, <1>6, <2>1
<1>8. ASSUME NEW p \in Orders, NEW g \in Fulfillments PROVE PairOK(p, g)'
  <2>1. /\ PairOK(p, g) /\ PairOK(o, g) /\ PairOK(p, f)
        /\ p \in Papers /\ g \in Papers /\ p # f /\ g # o /\ g # None
    BY Kinds DEF ErpInv
  <2>2. CASE p # o /\ g # f
    BY <1>4, <2>1, <2>2, PairStays
  <2>3. CASE p = o /\ g = f
    BY <1>2, <1>3, <1>4, <2>3 DEF PairOK
  <2>4. CASE p = o /\ g # f
    <3>1. paper[g].base # o
      BY <1>2, <2>1 DEF PairOK
    <3>2. paper'[g] = paper[g] /\ paper'[o].link # g
      BY <1>3, <1>4, <2>1, <2>4
    <3>3. QED
      BY <2>4, <3>1, <3>2 DEF PairOK
  <2>5. CASE p # o /\ g = f
    <3>1. paper[f].base # p
      BY <1>2, <2>1 DEF PairOK
    <3>2. paper'[p] = paper[p] /\ paper'[f].base # p
      BY <1>3, <1>4, <2>1, <2>5
    <3>3. QED
      BY <2>1, <2>5, <3>1, <3>2 DEF PairOK
  <2>6. QED
    BY <2>2, <2>3, <2>4, <2>5
<1>9. QED
  BY <1>4, <1>7, <1>8 DEF GoodStep, ErpInv

\* The fulfillment and its invoice after it was posted; of the others only its order
\* has changed.
FulfillmentPosts(f, i) ==
    /\ paper[f].state = "approved" /\ paper'[f].state = "posted"
    /\ paper'[f].line = paper[f].line /\ paper'[f].link = i
    /\ paper'[f].settled = paper[f].settled
    /\ paper[i].state = "none" /\ paper'[i].state = "open"
    /\ paper'[i].line = paper[f].line /\ paper'[i].base = f
    /\ paper'[i].settled = paper[f].settled
    /\ \A q \in Papers : q # f /\ q # i /\ q \notin Orders => paper'[q] = paper[q]

\* The fulfillment is posted, drafts its invoice and closes its order.
LEMMA FulfillmentGood ==
    ASSUME ErpInv, NEW f \in Fulfillments, postStockFulfillment(f)
    PROVE  GoodStep /\ FulfillmentPosts(f, InvoiceOf[f])
<1>0. PICK o, i : o = paper[f].base /\ i = InvoiceOf[f]
  OBVIOUS
<1> DEFINE done == [paper[f] EXCEPT !.state = "posted", !.link = i]
           draft == [paper[f] EXCEPT !.state = "open", !.base = f]
           closed == [paper[o] EXCEPT !.state = "closed"]
           posted == [paper EXCEPT ![f].state = "posted", ![f].link = i, ![i] = draft]
<1>1. /\ f \in Papers /\ i \in Invoices /\ i \in Papers /\ f # i /\ f # None
      /\ PaperOK(f) /\ PaperOK(i) /\ paper[f] \in PaperRows
  BY <1>0, Kinds, ErpAssumption DEF ErpInv
<1>2. /\ paper[f].state = "approved" /\ paper[i].state = "none"
      /\ validateFulfillmentSource(f)
      /\ paper' = IF o = None THEN posted ELSE [posted EXCEPT ![o].state = "closed"]
  <2>1. /\ paper[f].state = "approved" /\ paper[InvoiceOf[f]].state = "none"
        /\ validateFulfillmentSource(f)
    BY Zenon DEF postStockFulfillment
  <2>2. ASSUME NEW p, NEW j, p = paper[f].base, j = InvoiceOf[f]
        PROVE  LET new == [paper EXCEPT ![f].state = "posted", ![f].link = j,
                              ![j] = [paper[f] EXCEPT !.state = "open", !.base = f]]
               IN  paper' = IF p = None THEN new ELSE [new EXCEPT ![p].state = "closed"]
    <3>1. LET new == [paper EXCEPT ![f].state = "posted", ![f].link = InvoiceOf[f],
                         ![InvoiceOf[f]] = [paper[f] EXCEPT !.state = "open", !.base = f]]
          IN  paper' = IF paper[f].base = None
                       THEN new ELSE [new EXCEPT ![paper[f].base].state = "closed"]
      BY Zenon DEF postStockFulfillment
    <3>2. QED
      BY <2>2, <3>1
  <2>3. QED
    BY <1>0, <2>1, <2>2
<1>3. /\ o \in Orders \cup {None}
      /\ o \in Orders => /\ o \in Papers /\ o # f /\ o # i /\ o # None
                         /\ PairOK(o, f) /\ PaperOK(o) /\ paper[o] \in PaperRows
                         /\ paper[o].state = "approved"
  <2>1. o \in Orders \cup {None}
    BY <1>0, <1>1 DEF PaperOK
  <2>2. ASSUME o \in Orders PROVE paper[o].state = "approved" /\ o # None
    BY <1>0, <1>2, <2>2, Kinds DEF validateFulfillmentSource
  <2>3. QED
    BY <1>1, <2>1, <2>2, Kinds DEF ErpInv
<1>4. /\ done \in PaperRows /\ done.state = "posted" /\ done.base = paper[f].base
      /\ done.line = paper[f].line /\ done.partner = paper[f].partner
      /\ done.settled = paper[f].settled /\ done.link = i
      /\ draft \in PaperRows /\ draft.state = "open" /\ draft.line = paper[f].line
      /\ draft.base = f
      /\ draft.partner = paper[f].partner /\ draft.settled = paper[f].settled
  BY <1>1 DEF PaperRows, States
<1>5. o \in Orders =>
      /\ closed \in PaperRows /\ closed.state = "closed" /\ closed.link = paper[o].link
      /\ closed.base = paper[o].base /\ closed.line = paper[o].line
      /\ closed.partner = paper[o].partner /\ closed.settled = paper[o].settled
  BY <1>3 DEF PaperRows, States
<1>6. posted = [paper EXCEPT ![f] = done, ![i] = draft]
  BY <1>1 DEF ErpInv
<1>7. o \in Orders => [posted EXCEPT ![o].state = "closed"]
                         = [paper EXCEPT ![f] = done, ![i] = draft, ![o] = closed]
  <2> HIDE DEF done, draft, posted
  <2>1. QED
    BY <1>1, <1>3, <1>6 DEF ErpInv
<1> HIDE DEF posted, done, draft, closed
<1>8. /\ paper' \in [Papers -> PaperRows] /\ paper'[f] = done /\ paper'[i] = draft
      /\ o \in Orders => paper'[o] = closed
      /\ \A q \in Papers : q # f /\ q # i /\ q # o => paper'[q] = paper[q]
  <2>1. CASE o = None
    BY <1>1, <1>2, <1>4, <1>6, <2>1, Kinds DEF ErpInv
  <2>2. CASE o \in Orders
    <3>1. paper' = [paper EXCEPT ![f] = done, ![i] = draft, ![o] = closed]
      BY <1>2, <1>3, <1>7, <2>2
    <3>2. QED
      BY <1>1, <1>3, <1>4, <1>5, <2>2, <3>1 DEF ErpInv
  <2>3. QED
    BY <1>3, <2>1, <2>2
<1>9. PaperOK(f)' /\ PaperOK(i)' /\ (o \in Orders => PaperOK(o)')
  <2>1. PaperOK(f)'
    BY <1>1, <1>2, <1>4, <1>8, Kinds DEF PaperOK
  <2>2. PaperOK(i)'
    <3>1. /\ paper'[i].state = "open" /\ paper'[i].line = paper[f].line
          /\ paper'[i].partner = paper[f].partner /\ paper'[i].settled = paper[f].settled
      BY <1>4, <1>8
    <3>2. /\ paper[f].line # None /\ paper[f].partner # None /\ ~(paper[f].settled > 0)
          /\ i \notin Orders /\ i \notin Fulfillments /\ i \notin Payments
      BY <1>1, <1>2, Kinds DEF PaperOK
    <3>3. QED
      BY <3>1, <3>2 DEF PaperOK
  <2>3. ASSUME o \in Orders PROVE PaperOK(o)'
    <3>1. paper[o].link = f
      BY <1>0, <1>3, <2>3 DEF PairOK
    <3>2. QED
      BY <1>1, <1>3, <1>5, <1>8, <2>3, <3>1, Kinds DEF PaperOK
  <2>4. QED
    BY <2>1, <2>2, <2>3
<1>10. Kept(f) /\ Kept(i) /\ (o \in Orders => Kept(o))
  <2>1. paper[f].settled \in Nat /\ (o \in Orders => paper[o].settled \in Nat)
    BY <1>1, <1>3, Settled
  <2>2. Kept(f)
    <3>1. /\ paper'[f].state = "posted" /\ paper'[f].line = paper[f].line
          /\ paper'[f].base = paper[f].base /\ paper'[f].partner = paper[f].partner
          /\ paper'[f].settled = paper[f].settled
      BY <1>4, <1>8
    <3>2. QED
      BY <1>2, <2>1, <3>1 DEF Kept, Binding
  <2>3. Kept(i)
    BY <1>1, <1>2, BlankRow DEF PaperOK, Kept, Binding
  <2>4. ASSUME o \in Orders PROVE Kept(o)
    <3>1. QED
      BY <1>3, <1>5, <1>8, <2>1, <2>4 DEF Kept, Binding
  <2>5. QED
    BY <2>2, <2>3, <2>4
<1>11. \A q \in Papers : PaperOK(q)' /\ Kept(q)
  <2>1. ASSUME NEW q \in Papers, q # f, q # i, q # o PROVE PaperOK(q)' /\ Kept(q)
    BY <1>8, <2>1, PaperStays, Settled DEF ErpInv
  <2>2. o \in Papers => o \in Orders
    BY <1>3, Kinds
  <2>3. QED
    BY <1>9, <1>10, <2>1, <2>2
<1>12. ASSUME NEW p \in Orders, NEW g \in Fulfillments PROVE PairOK(p, g)'
  <2>1. /\ PairOK(p, g) /\ p \in Papers /\ g \in Papers /\ p # f /\ p # i /\ g # i /\ g # o
        /\ g # None
    BY <1>1, <1>3, Kinds DEF ErpInv
  <2>2. CASE g # f /\ p # o
    BY <1>8, <2>1, <2>2, PairStays
  <2>3. CASE g = f /\ p = o
    BY <1>0, <1>3, <1>4, <1>5, <1>8, <2>3 DEF PairOK
  <2>4. CASE g = f /\ p # o
    <3>1. paper'[p] = paper[p] /\ paper'[f].base # p /\ paper[f].base # p
      BY <1>0, <1>4, <1>8, <2>1, <2>4
    <3>2. QED
      BY <2>1, <2>4, <3>1 DEF PairOK
  <2>5. CASE g # f /\ p = o
    <3>1. paper[o].link = f
      BY <1>0, <1>3, <2>5 DEF PairOK
    <3>2. paper'[g] = paper[g] /\ paper[g].base # p /\ paper'[p].link # g
      BY <1>5, <1>8, <2>1, <2>5, <3>1 DEF PairOK
    <3>3. QED
      BY <3>2 DEF PairOK
  <2>6. QED
    BY <2>2, <2>3, <2>4, <2>5
<1>13. FulfillmentPosts(f, i)
  <2>1. \A q \in Papers : q \notin Orders => q # o
    BY <1>3, Kinds
  <2>2. QED
    BY <1>2, <1>4, <1>8, <2>1 DEF FulfillmentPosts
<1>14. QED
  BY <1>0, <1>8, <1>11, <1>12, <1>13 DEF GoodStep, ErpInv

\* An allocation touches a payment and an invoice only.
LEMMA AllocationGood ==
    ASSUME ErpInv, NEW p \in Payments, NEW i \in Invoices,
           NEW amount \in Nat, amount > 0, allocatePayment(p, i, amount)
    PROVE  GoodStep
<1> DEFINE paid == [paper[i] EXCEPT !.settled = @ + amount]
           used == [paper[p] EXCEPT !.settled = @ + amount, !.partner = paper[i].partner]
<1>1. /\ p \in Papers /\ i \in Papers /\ p # i /\ PaperOK(p) /\ PaperOK(i)
      /\ paper[p] \in PaperRows /\ paper[i] \in PaperRows
      /\ p \notin Orders \cup Fulfillments /\ i \notin Orders \cup Fulfillments
  BY Kinds DEF ErpInv
<1>2. /\ paper[p].state = "open" /\ paper[i].state = "posted"
      /\ paper[p].partner \in {None, paper[i].partner}
  BY DEF allocatePayment
<1>3. /\ paid \in PaperRows /\ paid.settled = paper[i].settled + amount
      /\ paid.state = paper[i].state /\ paid.line = paper[i].line /\ paid.base = paper[i].base
      /\ paid.partner = paper[i].partner
      /\ used \in PaperRows /\ used.settled = paper[p].settled + amount
      /\ used.state = paper[p].state /\ used.line = paper[p].line /\ used.base = paper[p].base
      /\ used.partner = paper[i].partner
  <2>1. /\ paper[i].settled + amount \in Nat /\ paper[p].settled + amount \in Nat
        /\ paper[i].partner \in Partners \cup {None}
    BY <1>1 DEF PaperRows
  <2>2. paid = [paper[i] EXCEPT !.settled = paper[i].settled + amount]
    OBVIOUS
  <2>3. used = [paper[p] EXCEPT !.settled = paper[p].settled + amount,
                                !.partner = paper[i].partner]
    BY <1>1 DEF PaperRows
  <2> HIDE DEF paid, used
  <2>4. QED
    BY <1>1, <2>1, <2>2, <2>3 DEF PaperRows
<1>4. paper' = [paper EXCEPT ![i] = paid, ![p] = used]
  BY <1>1 DEF allocatePayment, ErpInv
<1> HIDE DEF paid, used
<1>5. /\ paper' \in [Papers -> PaperRows] /\ paper'[p] = used /\ paper'[i] = paid
      /\ \A q \in Papers : q # p /\ q # i => paper'[q] = paper[q]
  BY <1>1, <1>3, <1>4 DEF ErpInv
<1>6. paper[i].partner # None
  BY <1>1, <1>2 DEF PaperOK
<1>7. paper[p].settled \in Nat /\ paper[i].settled \in Nat
  BY <1>1, Settled
<1>8. PaperOK(p)' /\ PaperOK(i)'
  BY <1>1, <1>2, <1>3, <1>5, <1>6, <1>7, Kinds DEF PaperOK
<1>9. Kept(p)
  <2>1. paper[p].settled > 0 => paper[p].partner = paper[i].partner
    BY <1>1, <1>2 DEF PaperOK
  <2>2. QED
    BY <1>2, <1>3, <1>5, <1>7, <2>1 DEF Kept, Binding
<1>10. Kept(i)
  BY <1>2, <1>3, <1>5, <1>7 DEF Kept, Binding
<1>11. ASSUME NEW q \in Papers PROVE PaperOK(q)' /\ Kept(q)
  <2>1. CASE q # p /\ q # i
    BY <1>5, <2>1, PaperStays, Settled DEF ErpInv
  <2>2. QED
    BY <1>8, <1>9, <1>10, <2>1
<1>12. ASSUME NEW o \in Orders, NEW f \in Fulfillments PROVE PairOK(o, f)'
  BY <1>1, <1>5, PairStays, Kinds DEF ErpInv
<1>13. QED
  BY <1>5, <1>11, <1>12 DEF GoodStep, ErpInv

LEMMA ErpStepGood == ErpInv /\ [ErpNext]_erpVars => GoodStep
<1> SUFFICES ASSUME ErpInv, [ErpNext]_erpVars PROVE GoodStep
  OBVIOUS
<1>1. CASE UNCHANGED paper
  <2>1. ASSUME NEW p \in Papers PROVE PaperOK(p)' /\ Kept(p)
    BY <1>1, PaperStays, Settled DEF ErpInv
  <2>2. ASSUME NEW o \in Orders, NEW f \in Fulfillments PROVE PairOK(o, f)'
    BY <1>1, PairStays DEF ErpInv
  <2>3. QED
    BY <1>1, <2>1, <2>2 DEF GoodStep, ErpInv
<1>2. ASSUME NEW p \in Papers,
             \/ \E partner \in PartnersOf(p), line \in Lines : EnterDraft(p, partner, line)
             \/ DeleteDraft(p)
      PROVE  GoodStep
  BY <1>2, DraftGood, DeleteGood
<1>3. ASSUME NEW o \in Orders,
             \/ prepareOrder(o) \/ approveOrder(o)
             \/ \E f \in Fulfillments : convertOrderToFulfillment(o, f)
      PROVE  GoodStep
  <2>1. /\ o \in Papers /\ o \notin Fulfillments /\ o \notin Payments
        /\ {"prepared", "approved"} \subseteq States
    BY Kinds DEF States
  <2>2. CASE prepareOrder(o)
    BY <2>1, <2>2, StateStep DEF prepareOrder, ensureEditable
  <2>3. CASE approveOrder(o)
    BY <2>1, <2>3, StateStep DEF approveOrder
  <2>4. QED
    BY <1>3, <2>2, <2>3, ConvertGood
<1>4. ASSUME NEW f \in Fulfillments, approveFulfillment(f) \/ postStockFulfillment(f)
      PROVE  GoodStep
  <2>1. f \in Papers /\ f \notin Orders /\ f \notin Payments /\ "approved" \in States
    BY Kinds DEF States
  <2>2. CASE approveFulfillment(f)
    BY <2>1, <2>2, StateStep DEF approveFulfillment
  <2>3. QED
    BY <1>4, <2>2, FulfillmentGood
<1>5. ASSUME NEW s \in StockPapers, postStandaloneInventory(s) PROVE GoodStep
  <2>1. /\ s \in Papers /\ s \notin Orders /\ s \notin Fulfillments /\ s \notin Payments
        /\ "posted" \in States
    BY Kinds DEF States
  <2>2. QED
    BY <1>5, <2>1, StateStep DEF postStandaloneInventory
<1>6. ASSUME NEW i \in Invoices, postFinancialInvoice(i) PROVE GoodStep
  <2>1. /\ i \in Papers /\ i \notin Orders /\ i \notin Fulfillments /\ i \notin Payments
        /\ "posted" \in States
    BY Kinds DEF States
  <2>2. paper[i].state = "open" /\ paper' = [paper EXCEPT ![i].state = "posted"]
    BY <1>6, Zenon DEF postFinancialInvoice
  <2>3. QED
    BY <2>1, <2>2, StateStep
<1>7. ASSUME NEW p \in Payments, NEW i \in Invoices,
             NEW amount \in 1..(IF paper[i].state = "posted" THEN Open(i) ELSE 0),
             allocatePayment(p, i, amount)
      PROVE  GoodStep
  <2>1. amount \in Nat /\ amount > 0
    OBVIOUS
  <2>2. QED
    BY <1>7, <2>1, AllocationGood
<1>8. CASE ErpNext
  BY <1>2, <1>3, <1>4, <1>5, <1>6, <1>7, <1>8 DEF ErpNext
<1>9. QED
  BY <1>1, <1>8 DEF erpVars

LEMMA ErpInvInit == ErpInit => ErpInv
<1> SUFFICES ASSUME ErpInit PROVE ErpInv
  OBVIOUS
<1>1. paper = [p \in Papers |-> Blank]
  BY DEF ErpInit
<1>2. \A p \in Papers : PaperOK(p)
  BY <1>1, BlankRow DEF PaperOK
<1>3. ASSUME NEW o \in Orders, NEW f \in Fulfillments PROVE PairOK(o, f)
  BY <1>1, BlankRow, Kinds DEF PairOK
<1>4. QED
  BY <1>1, <1>2, <1>3, BlankRow DEF ErpInv

LEMMA ErpInvHolds == ErpSpec => []ErpInv
<1>1. ErpInv /\ [ErpNext]_erpVars => ErpInv'
  BY ErpStepGood DEF GoodStep
<1>2. QED
  BY <1>1, ErpInvInit, PTL DEF ErpSpec

\* Whatever is converted again, typed in under a known key, deleted, or posted in
\* between: an order has one fulfillment, which agrees with it, and both are done at
\* once.
THEOREM OrderIsFulfilledOnce == ErpSpec => []OrderFulfilledOnce
<1>1. ErpInv => OrderFulfilledOnce
  <2> SUFFICES ASSUME ErpInv, NEW o \in Orders
               PROVE  LET mine == {f \in Fulfillments : paper[f].base = o} IN
                      /\ mine = {paper[o].link} \ {None}
                      /\ \A f \in mine : /\ paper[f].line = paper[o].line
                                         /\ paper[f].partner = paper[o].partner
                      /\ paper[o].state = "closed" <=> Posted(mine) # {}
    BY DEF OrderFulfilledOnce
  <2> DEFINE mine == {f \in Fulfillments : paper[f].base = o}
  <2>1. PaperOK(o) /\ None \notin Fulfillments
    BY Kinds DEF ErpInv
  <2>2. \A f \in Fulfillments : PairOK(o, f)
    BY DEF ErpInv
  <2>3. mine = {paper[o].link} \ {None}
    BY <2>1, <2>2 DEF PaperOK, PairOK
  <2>4. \A f \in mine : /\ paper[f].line = paper[o].line
                        /\ paper[f].partner = paper[o].partner
                        /\ paper[o].state = "closed" <=> paper[f].state = "posted"
    BY <2>2 DEF PairOK
  <2>5. paper[o].state = "closed" <=> Posted(mine) # {}
    <3>1. Posted(mine) # {} <=> \E f \in mine : paper[f].state = "posted"
      BY DEF Posted
    <3>2. paper[o].state = "closed" => \E f \in mine : TRUE
      BY <2>1, <2>3 DEF PaperOK
    <3>3. QED
      BY <2>4, <3>1, <3>2
  <2>6. QED
    BY <2>3, <2>4, <2>5
<1>2. QED
  BY <1>1, ErpInvHolds, PTL

\* No action takes back a document that is approved, posted, closed or settled, or
\* changes what others rely on in it.
THEOREM BindingStays == ErpSpec => BindingIsImmutable
<1>1. ErpInv /\ [ErpNext]_erpVars =>
         [\A p \in Papers : Binding(p) =>
             /\ Binding(p)'
             /\ paper'[p].line = paper[p].line /\ paper'[p].base = paper[p].base
             /\ paper'[p].partner = paper[p].partner
             /\ paper[p].state \in {"posted", "closed"} => paper'[p].state = paper[p].state
             /\ paper'[p].settled >= paper[p].settled]_erpVars
  BY ErpStepGood DEF GoodStep, Kept
<1>2. QED
  BY <1>1, ErpInvHolds, PTL DEF ErpSpec, BindingIsImmutable

------------------------------------------------------------------------------
(* Types *)

LEMMA LineTypes ==
    ASSUME NEW line \in Lines
    PROVE  /\ line.item \in Items /\ line.qty \in Nat /\ line.price \in Nat
           /\ line.rate \in Nat
           /\ Net(line) \in Nat
           /\ Tax(line) \in Int
           /\ Total(line) \in Int
<1>1. /\ line.item \in Items /\ line.qty \in Nat /\ line.price \in Nat
      /\ line.rate \in Nat
  BY ErpAssumption
<1>2. Net(line) \in Nat
  BY <1>1 DEF Net
<1>3. Tax(line) \in Int
  <2>1. Net(line) * line.rate \in Int
    BY <1>1, <1>2
  <2>2. (2 * (Net(line) * line.rate) + 100) \div (2 * 100) \in Int
    BY <2>1
  <2>3. QED
    BY <2>2 DEF Tax, RoundDiv
<1>4. QED
  BY <1>1, <1>2, <1>3 DEF Total

LEMMA IssueTypes ==
    ASSUME NEW cell \in [onHand : Nat, value : Nat], NEW qty \in Nat
    PROVE  IssueAmount(cell, qty) \in Int
<1>1. CASE qty = cell.onHand
  BY <1>1 DEF IssueAmount
<1>2. CASE qty # cell.onHand /\ cell.onHand = 0
  BY <1>2 DEF IssueAmount
<1>3. CASE qty # cell.onHand /\ cell.onHand # 0
  <2>1. PICK a \in Int, b \in Nat : a = cell.value * qty /\ b = cell.onHand /\ b > 0
    BY <1>3
  <2>2. (2 * a + b) \div (2 * b) \in Int
    BY <2>1
  <2>3. IssueAmount(cell, qty) = (2 * a + b) \div (2 * b)
    BY <1>3, <2>1 DEF IssueAmount, RoundDiv
  <2>4. QED
    BY <2>2, <2>3
<1>4. QED
  BY <1>1, <1>2, <1>3

LEMMA PutTypes ==
    ASSUME NEW entry \in [Accounts -> Int], NEW a, NEW amount \in Int
    PROVE  [entry EXCEPT ![a] = amount] \in [Accounts -> Int]
OBVIOUS

LEMMA EntryTypes ==
    ASSUME NEW debit, NEW credit, NEW amount \in Int
    PROVE  Entry(debit, credit, amount) \in [Accounts -> Int]
<1>1. NoEntry \in [Accounts -> Int] /\ -amount \in Int
  BY DEF NoEntry
<1>2. [NoEntry EXCEPT ![debit] = amount] \in [Accounts -> Int]
  BY <1>1, PutTypes
<1>3. [[NoEntry EXCEPT ![debit] = amount] EXCEPT ![credit] = -amount] \in [Accounts -> Int]
  BY <1>1, <1>2, PutTypes
<1>4. QED
  BY <1>3, Zenon DEF Entry

LEMMA PostTypes ==
    ASSUME books \in [Accounts -> Int], NEW entry \in [Accounts -> Int], postJournal(entry)
    PROVE  books' \in [Accounts -> Int]
<1>1. books' = [a \in Accounts |-> books[a] + entry[a]]
  BY DEF postJournal
<1>2. QED
  BY <1>1

LEMMA StockTypes ==
    ASSUME stock \in [Items -> [onHand : Nat, value : Nat]], books \in [Accounts -> Int],
           NEW line \in Lines, NEW in \in BOOLEAN, NEW counter, adjustValuedInventory(line, in, counter)
    PROVE  stock' \in [Items -> [onHand : Nat, value : Nat]] /\ books' \in [Accounts -> Int]
<1> DEFINE cell == stock[line.item]
<1>1. /\ line.item \in Items /\ line.qty \in Nat /\ Net(line) \in Nat
      /\ cell \in [onHand : Nat, value : Nat]
      /\ IssueAmount(cell, line.qty) \in Int
  BY LineTypes, IssueTypes
<1>2. CASE in
  <2>1. stock' = Received(line) /\ postJournal(Entry("inventory", counter, Net(line)))
    BY <1>2, Zenon DEF adjustValuedInventory
  <2>2. books' \in [Accounts -> Int]
    BY <1>1, <2>1, EntryTypes, PostTypes
  <2>3. [onHand |-> cell.onHand + line.qty, value |-> cell.value + Net(line)]
           \in [onHand : Nat, value : Nat]
    BY <1>1
  <2>4. stock' = [stock EXCEPT ![line.item] = [onHand |-> cell.onHand + line.qty,
                                               value |-> cell.value + Net(line)]]
    BY <2>1 DEF Received
  <2>5. QED
    BY <1>1, <2>2, <2>3, <2>4
<1>3. CASE ~in
  <2>1. /\ cell.onHand >= line.qty /\ IssueAmount(cell, line.qty) <= cell.value
        /\ stock' = Issued(line)
        /\ postJournal(Entry(counter, "inventory", IssueAmount(cell, line.qty)))
    BY <1>3, Zenon DEF adjustValuedInventory
  <2>2. books' \in [Accounts -> Int]
    BY <1>1, <2>1, EntryTypes, PostTypes
  <2>3. [onHand |-> cell.onHand - line.qty, value |-> cell.value - IssueAmount(cell, line.qty)]
           \in [onHand : Nat, value : Nat]
    BY <1>1, <2>1
  <2>4. stock' = [stock EXCEPT ![line.item] =
                     [onHand |-> cell.onHand - line.qty,
                      value |-> cell.value - IssueAmount(cell, line.qty)]]
    BY <2>1 DEF Issued
  <2> HIDE DEF cell
  <2>5. QED
    BY <1>1, <2>2, <2>3, <2>4
<1>4. QED
  BY <1>2, <1>3

LEMMA InvoiceTypes ==
    ASSUME NEW i \in Papers, paper[i].line \in Lines
    PROVE  InvoiceEntry(i) \in [Accounts -> Int]
<1> DEFINE line == paper[i].line
           cost == IF paper[i].base = None THEN "expense" ELSE "accrued"
<1>1. /\ NoEntry \in [Accounts -> Int]
      /\ Net(line) \in Int /\ Tax(line) \in Int /\ Total(line) \in Int
  BY LineTypes DEF NoEntry
<1>2. -Net(line) \in Int /\ -Tax(line) \in Int /\ -Total(line) \in Int
  BY <1>1
<1>3. CASE i \in Purchases
  <2>1. InvoiceEntry(i) = [[[NoEntry EXCEPT !["payable"] = -Total(line)]
                               EXCEPT !["input tax"] = Tax(line)] EXCEPT ![cost] = Net(line)]
    BY <1>3, Zenon DEF InvoiceEntry
  <2>2. [NoEntry EXCEPT !["payable"] = -Total(line)] \in [Accounts -> Int]
    BY <1>1, <1>2, PutTypes
  <2>3. [[NoEntry EXCEPT !["payable"] = -Total(line)] EXCEPT !["input tax"] = Tax(line)]
           \in [Accounts -> Int]
    BY <1>1, <2>2, PutTypes, Zenon
  <2>4. QED
    BY <1>1, <2>1, <2>3, PutTypes, Zenon
<1>4. CASE i \notin Purchases
  <2>1. InvoiceEntry(i) = [[[NoEntry EXCEPT !["receivable"] = Total(line)]
                               EXCEPT !["revenue"] = -Net(line)]
                                  EXCEPT !["output tax"] = -Tax(line)]
    BY <1>4, Zenon DEF InvoiceEntry
  <2>2. [NoEntry EXCEPT !["receivable"] = Total(line)] \in [Accounts -> Int]
    BY <1>1, PutTypes
  <2>3. [[NoEntry EXCEPT !["receivable"] = Total(line)] EXCEPT !["revenue"] = -Net(line)]
           \in [Accounts -> Int]
    BY <1>2, <2>2, PutTypes, Zenon
  <2>4. QED
    BY <1>2, <2>1, <2>3, PutTypes, Zenon
<1>5. QED
  BY <1>3, <1>4

Books ==
    /\ alloc \in [Payments \X Invoices -> Nat]
    /\ stock \in [Items -> [onHand : Nat, value : Nat]]
    /\ books \in [Accounts -> Int]
    /\ drafts \in 0..MaxDrafts

LEMMA BooksStep == ErpInv /\ Books /\ [ErpNext]_erpVars => Books'
<1> SUFFICES ASSUME ErpInv, Books, [ErpNext]_erpVars PROVE Books'
  OBVIOUS
<1>1. CASE UNCHANGED <<alloc, stock, books, drafts>>
  BY <1>1 DEF Books
<1>2. ASSUME NEW p \in Papers, NEW partner \in PartnersOf(p), NEW line \in Lines,
             EnterDraft(p, partner, line)
      PROVE  Books'
  <2>1. drafts < MaxDrafts /\ drafts' = drafts + 1 /\ UNCHANGED <<alloc, stock, books>>
    BY <1>2, Zenon DEF EnterDraft
  <2>2. QED
    BY <2>1, ErpAssumption DEF Books
<1>3. ASSUME NEW p \in Papers, paper[p].state # "none" PROVE paper[p].line \in Lines
  <2>1. PaperOK(p) /\ paper[p] \in PaperRows
    BY DEF ErpInv
  <2>2. QED
    BY <1>3, <2>1 DEF PaperOK, PaperRows
<1>4. ASSUME NEW f \in Fulfillments, postStockFulfillment(f) PROVE Books'
  <2>1. paper[f].state = "approved" /\ UNCHANGED <<alloc, drafts>>
    BY <1>4, Zenon DEF postStockFulfillment
  <2>2. PICK counter : adjustValuedInventory(paper[f].line, f \in Purchases, counter)
    BY <1>4, Zenon DEF postStockFulfillment
  <2>3. PICK in \in BOOLEAN : adjustValuedInventory(paper[f].line, in, counter)
    <3>1. (f \in Purchases) \in BOOLEAN
      OBVIOUS
    <3>2. QED
      BY <2>2, <3>1, Zenon
  <2>4. paper[f].line \in Lines
    BY <1>3, <2>1, Kinds
  <2>5. stock' \in [Items -> [onHand : Nat, value : Nat]] /\ books' \in [Accounts -> Int]
    BY <2>3, <2>4, StockTypes DEF Books
  <2>6. QED
    BY <2>1, <2>5 DEF Books
<1>5. ASSUME NEW s \in StockPapers, postStandaloneInventory(s) PROVE Books'
  <2>1. paper[s].state = "open" /\ UNCHANGED <<alloc, drafts>>
    BY <1>5, Zenon DEF postStandaloneInventory
  <2>2. PICK in \in BOOLEAN : adjustValuedInventory(paper[s].line, in, "adjustment")
    <3>1. (s \in Purchases) \in BOOLEAN
      OBVIOUS
    <3>2. adjustValuedInventory(paper[s].line, s \in Purchases, "adjustment")
      BY <1>5, Zenon DEF postStandaloneInventory
    <3>3. QED
      BY <3>1, <3>2, Zenon
  <2>3. paper[s].line \in Lines
    BY <1>3, <2>1, Kinds
  <2>4. stock' \in [Items -> [onHand : Nat, value : Nat]] /\ books' \in [Accounts -> Int]
    BY <2>2, <2>3, StockTypes DEF Books
  <2>5. QED
    BY <2>1, <2>4 DEF Books
<1>6. ASSUME NEW i \in Invoices, postFinancialInvoice(i) PROVE Books'
  <2>1. /\ paper[i].state = "open" /\ UNCHANGED <<alloc, stock, drafts>>
        /\ postJournal(InvoiceEntry(i))
    BY <1>6, Zenon DEF postFinancialInvoice
  <2>2. i \in Papers /\ paper[i].line \in Lines
    BY <1>3, <2>1, Kinds
  <2>3. books' \in [Accounts -> Int]
    BY <2>1, <2>2, InvoiceTypes, PostTypes DEF Books
  <2>4. QED
    BY <2>1, <2>3 DEF Books
<1>7. ASSUME NEW p \in Payments, NEW i \in Invoices,
             NEW amount \in 1..(IF paper[i].state = "posted" THEN Open(i) ELSE 0),
             allocatePayment(p, i, amount)
      PROVE  Books'
  <2>1. amount \in Nat /\ amount \in Int
    OBVIOUS
  <2>2. alloc' = [alloc EXCEPT ![<<p, i>>] = @ + amount] /\ UNCHANGED <<stock, drafts>>
    BY <1>7, Zenon DEF allocatePayment
  <2>3. postJournal(Entry("payable", "cash", amount))
        \/ postJournal(Entry("cash", "receivable", amount))
    BY <1>7, Zenon DEF allocatePayment
  <2>4. books' \in [Accounts -> Int]
    BY <2>1, <2>3, EntryTypes, PostTypes DEF Books
  <2>5. alloc' \in [Payments \X Invoices -> Nat]
    <3>1. PICK pi \in Payments \X Invoices : pi = <<p, i>>
      OBVIOUS
    <3>2. alloc' = [alloc EXCEPT ![pi] = alloc[pi] + amount]
      BY <2>2, <3>1
    <3>3. QED
      BY <2>1, <3>1, <3>2 DEF Books
  <2>6. QED
    BY <2>2, <2>4, <2>5 DEF Books
<1>8. ASSUME NEW o \in Orders,
             \/ prepareOrder(o) \/ approveOrder(o)
             \/ \E f \in Fulfillments : convertOrderToFulfillment(o, f)
      PROVE  UNCHANGED <<alloc, stock, books, drafts>>
  BY <1>8 DEF prepareOrder, approveOrder, convertOrderToFulfillment
<1>9. /\ \A p \in Papers : DeleteDraft(p) => UNCHANGED <<alloc, stock, books, drafts>>
      /\ \A f \in Fulfillments : approveFulfillment(f) => UNCHANGED <<alloc, stock, books, drafts>>
      /\ UNCHANGED erpVars => UNCHANGED <<alloc, stock, books, drafts>>
  BY DEF DeleteDraft, approveFulfillment, erpVars
<1>10. QED
  BY <1>1, <1>2, <1>4, <1>5, <1>6, <1>7, <1>8, <1>9 DEF ErpNext

\* Every document has a known state and, once it is typed in, a line; stock and its
\* value are never negative, whatever was received and issued in whatever order.
THEOREM ErpTypeCorrect == ErpSpec => []ErpTypeOK
<1>1. ErpInit => Books
  <2>1. NoEntry \in [Accounts -> Int] /\ 0 \in 0..MaxDrafts
    BY ErpAssumption DEF NoEntry
  <2>2. QED
    BY <2>1 DEF ErpInit, Books
<1>2. ErpInv /\ Books => ErpTypeOK
  <2>1. ErpInv => \A p \in Papers : paper[p].state = "none" <=> paper[p].line = None
    BY BlankRow DEF ErpInv, PaperOK
  <2>2. QED
    BY <2>1 DEF ErpInv, PaperRows, Books, ErpTypeOK
<1>3. QED
  BY <1>1, <1>2, BooksStep, ErpInvHolds, PTL DEF ErpSpec

------------------------------------------------------------------------------
(* Sums.  The library defines them by a fold over a chosen element; this is the part *)
(* of their theory the books need: nothing but one term of a sum moves in a step.     *)

Pick(s) == CHOOSE x \in s : TRUE

\* The function that SumFunctionOnSet folds with.
Partial(g, f, S) ==
    g = [s \in SUBSET S |-> IF s = {} THEN 0 ELSE f[Pick(s)] + g[s \ {Pick(s)}]]

PartialSum(f, S) == CHOOSE g : Partial(g, f, S)

LEMMA SumIsPartial ==
    ASSUME NEW f, NEW S
    PROVE  SumFunctionOnSet(f, S) = PartialSum(f, S)[S]
BY Zenon DEF SumFunctionOnSet, FoldFunctionOnSet, MapThenFoldSet, PartialSum, Partial, Pick

LEMMA PickIsElement ==
    ASSUME NEW s, s # {}
    PROVE  Pick(s) \in s
BY DEF Pick

Smallest(T, B) == T \in B /\ \A U \in B : U \subseteq T => U = T

\* Among subsets of a finite set there is one that contains no other.
LEMMA SmallestSubset ==
    ASSUME NEW S, IsFiniteSet(S), NEW B, B \subseteq SUBSET S, B # {}
    PROVE  \E T : Smallest(T, B)
<1>1. IsWellFoundedOn(StrictSubsetOrdering(S), SUBSET S)
  BY FS_StrictSubsetOrderingWellFounded, FS_FiniteSubsetsOfFinite
<1>2. PICK T \in B : \A U \in B : ~(<<U, T>> \in StrictSubsetOrdering(S))
  BY <1>1, WFMin
<1>3. ASSUME NEW U \in B, U \subseteq T PROVE U = T
  <2>1. ~(<<U, T>> \in StrictSubsetOrdering(S))
    BY <1>2
  <2>2. U \in SUBSET S /\ T \in SUBSET S
    OBVIOUS
  <2>3. QED
    BY <1>3, <2>1, <2>2 DEF StrictSubsetOrdering
<1>4. QED
  BY <1>3 DEF Smallest

LEMMA PartialIsUnique ==
    ASSUME NEW S, IsFiniteSet(S), NEW f, NEW g, NEW h, Partial(g, f, S), Partial(h, f, S)
    PROVE  g = h
<1> DEFINE B == {s \in SUBSET S : g[s] # h[s]}
<1>1. \A s \in SUBSET S : /\ g[s] = IF s = {} THEN 0 ELSE f[Pick(s)] + g[s \ {Pick(s)}]
                          /\ h[s] = IF s = {} THEN 0 ELSE f[Pick(s)] + h[s \ {Pick(s)}]
  BY DEF Partial
<1>2. B = {}
  <2>1. ASSUME B # {} PROVE FALSE
    <3>0. PICK T : Smallest(T, B)
      <4>1. B \subseteq SUBSET S
        OBVIOUS
      <4> HIDE DEF B
      <4>2. QED
        BY <2>1, <4>1, SmallestSubset
    <3>1. T \in B /\ \A U \in B : U \subseteq T => U = T
      BY <3>0 DEF Smallest
    <3>2. T # {}
      BY <1>1, <3>1
    <3>3. Pick(T) \in T
      BY <3>2, PickIsElement
    <3>4. T \ {Pick(T)} \notin B /\ T \ {Pick(T)} \in SUBSET S
      BY <3>1, <3>3
    <3>5. g[T \ {Pick(T)}] = h[T \ {Pick(T)}]
      BY <3>4
    <3>6. QED
      BY <1>1, <3>1, <3>2, <3>5
  <2>2. QED
    BY <2>1
<1>3. g = [s \in SUBSET S |-> g[s]] /\ h = [s \in SUBSET S |-> h[s]]
  BY DEF Partial
<1>4. QED
  BY <1>2, <1>3

LEMMA PartialOfSubset ==
    ASSUME NEW S, NEW f, NEW g, Partial(g, f, S), NEW T \in SUBSET S
    PROVE  Partial([s \in SUBSET T |-> g[s]], f, T)
<1>1. \A s \in SUBSET S : g[s] = IF s = {} THEN 0 ELSE f[Pick(s)] + g[s \ {Pick(s)}]
  BY DEF Partial
<1> DEFINE h == [s \in SUBSET T |-> g[s]]
           k == [s \in SUBSET T |-> IF s = {} THEN 0 ELSE f[Pick(s)] + h[s \ {Pick(s)}]]
<1>2. ASSUME NEW s \in SUBSET T PROVE h[s] = k[s]
  <2>1. s \ {Pick(s)} \in SUBSET T /\ s \in SUBSET S
    OBVIOUS
  <2>2. h[s] = g[s] /\ h[s \ {Pick(s)}] = g[s \ {Pick(s)}]
    BY <2>1
  <2>3. g[s] = IF s = {} THEN 0 ELSE f[Pick(s)] + g[s \ {Pick(s)}]
    BY <1>1, <2>1
  <2> HIDE DEF h
  <2>4. QED
    BY <2>2, <2>3
<1>3. h = k
  BY <1>2
<1>4. QED
  BY <1>3 DEF Partial

LEMMA PartialExists ==
    ASSUME NEW S, IsFiniteSet(S), NEW f
    PROVE  Partial(PartialSum(f, S), f, S)
<1> DEFINE OK(T) == \E g : Partial(g, f, T)
           B == {T \in SUBSET S : ~OK(T)}
           Sum(T) == PartialSum(f, T)[T]
<1>1. \A T : OK(T) => Partial(PartialSum(f, T), f, T)
  BY Zenon DEF PartialSum
<1>2. ASSUME NEW T \in SUBSET S, OK(T), NEW U \in SUBSET T
      PROVE  /\ OK(U)
             /\ PartialSum(f, U) = [s \in SUBSET U |-> PartialSum(f, T)[s]]
  <2>1. Partial(PartialSum(f, T), f, T)
    BY <1>1, <1>2
  <2> DEFINE h == [s \in SUBSET U |-> PartialSum(f, T)[s]]
  <2>2. Partial(h, f, U)
    BY <2>1, PartialOfSubset
  <2> HIDE DEF h
  <2>3. OK(U)
    BY <2>2
  <2>4. Partial(PartialSum(f, U), f, U)
    BY <1>1, <2>3
  <2>5. IsFiniteSet(U)
    BY FS_Subset
  <2>6. PartialSum(f, U) = h
    BY <2>2, <2>4, <2>5, PartialIsUnique
  <2>7. QED
    BY <2>3, <2>6 DEF h
<1>3. ASSUME NEW T \in SUBSET S, OK(T), T # {}
      PROVE  Sum(T) = f[Pick(T)] + Sum(T \ {Pick(T)})
  <2> DEFINE g == PartialSum(f, T)
             U == T \ {Pick(T)}
  <2>1. Partial(g, f, T)
    BY <1>1, <1>3
  <2>2. g[T] = f[Pick(T)] + g[U]
    <3> HIDE DEF g
    <3>1. g = [s \in SUBSET T |-> IF s = {} THEN 0 ELSE f[Pick(s)] + g[s \ {Pick(s)}]]
      BY <2>1 DEF Partial
    <3>2. QED
      BY <1>3, <3>1
  <2>3. PartialSum(f, U)[U] = g[U]
    <3>1. PartialSum(f, U) = [s \in SUBSET U |-> g[s]]
      BY <1>2, <1>3
    <3> HIDE DEF g, U
    <3>2. QED
      BY <3>1
  <2>4. QED
    BY <2>2, <2>3
<1>4. ASSUME NEW T \in SUBSET S, \A U \in SUBSET T : U # T => OK(U)
      PROVE  OK(T)
  <2> DEFINE part(s) == IF s = {} THEN 0 ELSE f[Pick(s)] + Sum(s \ {Pick(s)})
             g == [s \in SUBSET T |-> part(s)]
             h == [s \in SUBSET T |-> IF s = {} THEN 0 ELSE f[Pick(s)] + g[s \ {Pick(s)}]]
  <2>0. Sum({}) = 0
    <3>1. Partial([s \in SUBSET {} |-> 0], f, {})
      BY DEF Partial
    <3>2. Partial(PartialSum(f, {}), f, {})
      BY <1>1, <3>1
    <3>3. QED
      BY <3>2 DEF Partial
  <2>1. ASSUME NEW s \in SUBSET T, s # {} PROVE g[s \ {Pick(s)}] = Sum(s \ {Pick(s)})
    <3> DEFINE r == s \ {Pick(s)}
    <3>1. Pick(s) \in s
      BY <2>1, PickIsElement
    <3>2. r \in SUBSET T /\ r # T /\ r \in SUBSET S
      BY <3>1
    <3>3. OK(r)
      BY <1>4, <3>2
    <3>4. r # {} => Sum(r) = f[Pick(r)] + Sum(r \ {Pick(r)})
      BY <1>3, <3>2, <3>3
    <3>5. g[r] = part(r)
      BY <3>2
    <3> HIDE DEF r, g, Sum
    <3>6. Sum(r) = part(r)
      BY <2>0, <3>4
    <3>7. QED
      BY <3>5, <3>6 DEF r
  <2>2. \A s \in SUBSET T : g[s] = h[s]
    <3>1. ASSUME NEW s \in SUBSET T PROVE part(s) = h[s]
      <4> HIDE DEF g, Sum
      <4>1. QED
        BY <2>1
    <3>2. QED
      BY <3>1
  <2>3. g = h
    <3> HIDE DEF part
    <3>1. g = [s \in SUBSET T |-> g[s]]
      OBVIOUS
    <3>2. h = [s \in SUBSET T |-> h[s]]
      <4> HIDE DEF g
      <4>1. QED
        OBVIOUS
    <3> HIDE DEF g, h
    <3>3. QED
      BY <2>2, <3>1, <3>2
  <2> HIDE DEF g, part, Sum
  <2>4. Partial(g, f, T)
    BY <2>3 DEF Partial
  <2>5. QED
    BY <2>4
<1>5. B = {}
  <2>1. ASSUME B # {} PROVE FALSE
    <3> HIDE DEF OK
    <3>0. PICK T : Smallest(T, B)
      <4>1. B \subseteq SUBSET S
        OBVIOUS
      <4> HIDE DEF B
      <4>2. QED
        BY <2>1, <4>1, SmallestSubset
    <3>1. T \in B /\ \A U \in B : U \subseteq T => U = T
      BY <3>0 DEF Smallest
    <3>2. \A U \in SUBSET T : U # T => OK(U)
      BY <3>1
    <3>3. QED
      BY <1>4, <3>1, <3>2
  <2>2. QED
    BY <2>1
<1> HIDE DEF OK
<1>6. OK(S)
  BY <1>5
<1>7. QED
  BY <1>1, <1>6

\* What is summed first.
LEMMA SumOfPick ==
    ASSUME NEW S, IsFiniteSet(S), NEW f
    PROVE  /\ SumFunctionOnSet(f, {}) = 0
           /\ S # {} => SumFunctionOnSet(f, S) = f[Pick(S)] + SumFunctionOnSet(f, S \ {Pick(S)})
<1> DEFINE g == PartialSum(f, S)
           U == S \ {Pick(S)}
<1>1. Partial(g, f, S)
  BY PartialExists
<1>2. SumFunctionOnSet(f, {}) = 0
  <2>1. Partial(PartialSum(f, {}), f, {})
    BY FS_EmptySet, PartialExists
  <2>2. PartialSum(f, {})[{}] = 0
    BY <2>1 DEF Partial
  <2>3. QED
    BY <2>2, SumIsPartial
<1>3. ASSUME S # {} PROVE SumFunctionOnSet(f, S) = f[Pick(S)] + SumFunctionOnSet(f, U)
  <2>1. U \in SUBSET S /\ IsFiniteSet(U)
    BY FS_Subset
  <2> DEFINE h == [s \in SUBSET U |-> g[s]]
  <2>2. Partial(h, f, U)
    <3> HIDE DEF g, U
    <3>1. QED
      BY <1>1, <2>1, PartialOfSubset
  <2>3. Partial(PartialSum(f, U), f, U)
    BY <2>1, PartialExists
  <2> HIDE DEF h
  <2>4. PartialSum(f, U) = h
    BY <2>1, <2>2, <2>3, PartialIsUnique
  <2>5. PartialSum(f, U)[U] = g[U]
    BY <2>4 DEF h
  <2>6. g[S] = f[Pick(S)] + g[U]
    <3> HIDE DEF g
    <3>1. g = [s \in SUBSET S |-> IF s = {} THEN 0 ELSE f[Pick(s)] + g[s \ {Pick(s)}]]
      BY <1>1 DEF Partial
    <3>2. QED
      BY <1>3, <3>1
  <2>7. SumFunctionOnSet(f, S) = g[S] /\ SumFunctionOnSet(f, U) = PartialSum(f, U)[U]
    BY SumIsPartial
  <2>8. QED
    BY <2>5, <2>6, <2>7
<1>4. QED
  BY <1>2, <1>3

LEMMA SumIsInt ==
    ASSUME NEW S, IsFiniteSet(S), NEW f, \A x \in S : f[x] \in Int
    PROVE  SumFunctionOnSet(f, S) \in Int
<1> DEFINE Sum(T) == SumFunctionOnSet(f, T)
           B == {T \in SUBSET S : Sum(T) \notin Int}
<1>1. \A T \in SUBSET S : /\ IsFiniteSet(T)
                          /\ T # {} => Sum(T) = f[Pick(T)] + Sum(T \ {Pick(T)})
  BY FS_Subset, SumOfPick
<1>2. Sum({}) = 0
  BY SumOfPick
<1> HIDE DEF Sum
<1>3. ASSUME B # {} PROVE FALSE
  <2>0. PICK T : Smallest(T, B)
    <3>1. B \subseteq SUBSET S
      OBVIOUS
    <3> HIDE DEF B
    <3>2. QED
      BY <1>3, <3>1, SmallestSubset
  <2>1. T \in B /\ \A U \in B : U \subseteq T => U = T
    BY <2>0 DEF Smallest
  <2>2. T \in SUBSET S /\ Sum(T) \notin Int
    BY <2>1
  <2>3. T # {} /\ Pick(T) \in T
    BY <1>2, <2>2, PickIsElement
  <2>4. Sum(T \ {Pick(T)}) \in Int
    BY <2>1, <2>3
  <2>5. Sum(T) = f[Pick(T)] + Sum(T \ {Pick(T)}) /\ f[Pick(T)] \in Int
    BY <1>1, <2>2, <2>3
  <2>6. QED
    BY <2>2, <2>4, <2>5
<1>4. Sum(S) \in Int
  BY <1>3
<1>5. QED
  BY <1>4 DEF Sum

\* The order of summation does not matter: any element may come first.
LEMMA SumOfElement ==
    ASSUME NEW S, IsFiniteSet(S), NEW f, \A x \in S : f[x] \in Int, NEW e \in S
    PROVE  SumFunctionOnSet(f, S) = f[e] + SumFunctionOnSet(f, S \ {e})
<1> DEFINE Sum(T) == SumFunctionOnSet(f, T)
           B == {T \in SUBSET S : \E x \in T : Sum(T) # f[x] + Sum(T \ {x})}
<1>1. \A T \in SUBSET S : IsFiniteSet(T) /\ Sum(T) \in Int
  BY FS_Subset, SumIsInt
<1>2. \A T \in SUBSET S : T # {} => Sum(T) = f[Pick(T)] + Sum(T \ {Pick(T)})
  BY <1>1, SumOfPick
<1> HIDE DEF Sum
<1>3. ASSUME B # {} PROVE FALSE
  <2>0. PICK T : Smallest(T, B)
    <3>1. B \subseteq SUBSET S
      OBVIOUS
    <3> HIDE DEF B
    <3>2. QED
      BY <1>3, <3>1, SmallestSubset
  <2>1. T \in B /\ \A U \in B : U \subseteq T => U = T
    BY <2>0 DEF Smallest
  <2>2. T \in SUBSET S /\ \E x \in T : Sum(T) # f[x] + Sum(T \ {x})
    BY <2>1
  <2>3. \A U \in SUBSET S : (U \subseteq T /\ U # T) => \A y \in U : Sum(U) = f[y] + Sum(U \ {y})
    BY <2>1
  <2> HIDE DEF B
  <2>4. PICK x \in T : Sum(T) # f[x] + Sum(T \ {x})
    BY <2>2
  <2>5. PICK p : p = Pick(T)
    OBVIOUS
  <2>6. p \in T /\ Sum(T) = f[p] + Sum(T \ {p})
    BY <1>2, <2>2, <2>4, <2>5, PickIsElement
  <2>7. p # x
    BY <2>4, <2>6
  <2>8. /\ Sum(T \ {p}) = f[x] + Sum((T \ {p}) \ {x})
        /\ Sum(T \ {x}) = f[p] + Sum((T \ {x}) \ {p})
    BY <2>2, <2>3, <2>4, <2>6, <2>7
  <2>9. (T \ {p}) \ {x} = (T \ {x}) \ {p}
    OBVIOUS
  <2>10. f[x] \in Int /\ f[p] \in Int /\ Sum((T \ {p}) \ {x}) \in Int
    <3>1. (T \ {p}) \ {x} \in SUBSET S
      BY <2>2
    <3>2. QED
      BY <1>1, <2>2, <2>4, <2>6, <3>1
  <2>11. PICK r \in Int : r = Sum((T \ {p}) \ {x})
    BY <2>10
  <2>12. Sum(T) = f[p] + (f[x] + r) /\ Sum(T \ {x}) = f[p] + r
    BY <2>6, <2>8, <2>9, <2>11, Zenon
  <2>13. QED
    BY <2>4, <2>10, <2>12
<1>4. Sum(S) = f[e] + Sum(S \ {e})
  BY <1>3
<1>5. QED
  BY <1>4 DEF Sum

LEMMA SameSum ==
    ASSUME NEW S, IsFiniteSet(S), NEW f, NEW g, \A x \in S : f[x] = g[x]
    PROVE  SumFunctionOnSet(f, S) = SumFunctionOnSet(g, S)
<1> DEFINE B == {T \in SUBSET S : SumFunctionOnSet(f, T) # SumFunctionOnSet(g, T)}
<1>1. ASSUME B # {} PROVE FALSE
  <2>0. PICK T : Smallest(T, B)
    <3>1. B \subseteq SUBSET S
      OBVIOUS
    <3> HIDE DEF B
    <3>2. QED
      BY <1>1, <3>1, SmallestSubset
  <2>1. T \in B /\ \A U \in B : U \subseteq T => U = T
    BY <2>0 DEF Smallest
  <2>2. IsFiniteSet(T)
    BY <2>1, FS_Subset
  <2>3. T # {}
    BY <2>1, <2>2, SumOfPick
  <2>4. Pick(T) \in T
    BY <2>3, PickIsElement
  <2>5. T \ {Pick(T)} \in SUBSET S /\ T \ {Pick(T)} \notin B
    BY <2>1, <2>4
  <2>6. /\ SumFunctionOnSet(f, T) = f[Pick(T)] + SumFunctionOnSet(f, T \ {Pick(T)})
        /\ SumFunctionOnSet(g, T) = g[Pick(T)] + SumFunctionOnSet(g, T \ {Pick(T)})
    BY <2>2, <2>3, SumOfPick
  <2>7. QED
    BY <2>1, <2>4, <2>5, <2>6
<1>2. QED
  BY <1>1

\* A sum over other elements, or of other values, that differs in one element only.
LEMMA SumMoves ==
    ASSUME NEW f, NEW g, IsFiniteSet(DOMAIN f), NEW e,
           (DOMAIN f) \ {e} = (DOMAIN g) \ {e},
           \A x \in DOMAIN f : f[x] \in Int, \A x \in DOMAIN g : g[x] \in Int,
           \A x \in (DOMAIN f) \ {e} : f[x] = g[x]
    PROVE  /\ SumFunction(f) \in Int
           /\ SumFunction(g) = SumFunction(f) - (IF e \in DOMAIN f THEN f[e] ELSE 0)
                                              + (IF e \in DOMAIN g THEN g[e] ELSE 0)
<1> DEFINE R == (DOMAIN f) \ {e}
<1>1. IsFiniteSet(R) /\ IsFiniteSet(DOMAIN g)
  <2>1. IsFiniteSet(R) /\ IsFiniteSet(R \cup {e})
    BY FS_Subset, FS_AddElement
  <2>2. DOMAIN g \in SUBSET (R \cup {e})
    OBVIOUS
  <2>3. QED
    BY <2>1, <2>2, FS_Subset
<1>2. SumFunctionOnSet(f, R) = SumFunctionOnSet(g, R)
  BY <1>1, SameSum
<1>3. SumFunctionOnSet(f, R) \in Int
  BY <1>1, SumIsInt
<1>4. /\ SumFunction(f) = (IF e \in DOMAIN f THEN f[e] ELSE 0) + SumFunctionOnSet(f, R)
      /\ SumFunction(f) \in Int
  <2>1. CASE e \in DOMAIN f
    BY <1>3, <2>1, SumOfElement DEF SumFunction
  <2>2. CASE e \notin DOMAIN f
    <3>1. R = DOMAIN f
      BY <2>2
    <3> HIDE DEF R
    <3>2. QED
      BY <1>3, <2>2, <3>1 DEF SumFunction
  <2>3. QED
    BY <2>1, <2>2
<1>5. SumFunction(g) = (IF e \in DOMAIN g THEN g[e] ELSE 0) + SumFunctionOnSet(g, R)
  <2>1. CASE e \in DOMAIN g
    <3>1. (DOMAIN g) \ {e} = R
      OBVIOUS
    <3>2. QED
      BY <1>1, <2>1, <3>1, SumOfElement DEF SumFunction
  <2>2. CASE e \notin DOMAIN g
    <3>1. R = DOMAIN g
      BY <2>2
    <3>2. SumFunctionOnSet(g, R) \in Int
      BY <1>2, <1>3
    <3> HIDE DEF R
    <3>3. QED
      BY <2>2, <3>1, <3>2 DEF SumFunction
  <2>3. QED
    BY <2>1, <2>2
<1> HIDE DEF R
<1>6. (IF e \in DOMAIN f THEN f[e] ELSE 0) \in Int /\ (IF e \in DOMAIN g THEN g[e] ELSE 0) \in Int
  OBVIOUS
<1>7. QED
  BY <1>2, <1>3, <1>4, <1>5, <1>6

LEMMA SumOfZeros ==
    ASSUME NEW f, IsFiniteSet(DOMAIN f), \A x \in DOMAIN f : f[x] = 0
    PROVE  SumFunction(f) = 0
<1> DEFINE B == {T \in SUBSET (DOMAIN f) : SumFunctionOnSet(f, T) # 0}
<1>1. ASSUME B # {} PROVE FALSE
  <2>0. PICK T : Smallest(T, B)
    <3>1. B \subseteq SUBSET (DOMAIN f)
      OBVIOUS
    <3> HIDE DEF B
    <3>2. QED
      BY <1>1, <3>1, SmallestSubset
  <2>1. T \in B /\ \A U \in B : U \subseteq T => U = T
    BY <2>0 DEF Smallest
  <2>2. IsFiniteSet(T)
    BY <2>1, FS_Subset
  <2>3. T # {}
    BY <2>1, <2>2, SumOfPick
  <2>4. Pick(T) \in T
    BY <2>3, PickIsElement
  <2>5. T \ {Pick(T)} \in SUBSET (DOMAIN f) /\ T \ {Pick(T)} \notin B
    BY <2>1, <2>4
  <2>6. SumFunctionOnSet(f, T) = f[Pick(T)] + SumFunctionOnSet(f, T \ {Pick(T)})
    BY <2>2, <2>3, SumOfPick
  <2>7. QED
    BY <2>1, <2>4, <2>5, <2>6
<1>2. SumFunctionOnSet(f, DOMAIN f) = 0
  BY <1>1
<1>3. QED
  BY <1>2 DEF SumFunction

------------------------------------------------------------------------------
(***************************************************************************)
(* The books and the documents.  Every sum of BooksMatchSubledgers and      *)
(* StockIsValued is over the rows of documents, so a step is told by the    *)
(* few rows that it changes in a way that a sum can see.                    *)
(***************************************************************************)
\* An allocation is part of what both sides say is settled.
AllocOK(p, i) ==
    LET a == alloc[<<p, i>>] IN
    /\ a <= paper[p].settled /\ a <= paper[i].settled
    /\ a > 0 => paper[i].state = "posted" /\ paper[p].partner = paper[i].partner

\* A posted fulfillment has an invoice of its own, for the same line.
BillOK(f) ==
    paper[f].state = "posted" =>
        LET i == InvoiceOf[f] IN
        /\ paper[f].link = i
        /\ paper[i].base = f /\ paper[i].line = paper[f].line
        /\ paper[i].state \in {"open", "posted"}

SourceOK(i) ==
    LET f == paper[i].base IN
    f # None => f \in Fulfillments /\ paper[f].state = "posted" /\ InvoiceOf[f] = i

LinksOK ==
    /\ \A p \in Payments, i \in Invoices : AllocOK(p, i)
    /\ \A f \in Fulfillments : BillOK(f)
    /\ \A i \in Invoices : SourceOK(i)

SettledOK ==
    /\ \A p \in Payments : paper[p].settled = SumFunction([i \in Invoices |-> alloc[<<p, i>>]])
    /\ \A i \in Invoices : paper[i].settled = SumFunction([p \in Payments |-> alloc[<<p, i>>]])

OpenOK == \A p \in Payments \cup Invoices : paper[p].state # "none" => Open(p) >= 0

InventoryOK == books["inventory"] = SumFunction([i \in Items |-> stock[i].value])

AccruedOK == books["accrued"] = -SumFunction([f \in Unbilled |-> Net(paper[f].line)])

OpenBalancesOK ==
    /\ books["receivable"] = OpenSum(Invoices \ Purchases)
    /\ books["payable"] = -OpenSum(Invoices \cap Purchases)

CashOK ==
    books["cash"] = SettledSum(Payments \ Purchases) - SettledSum(Payments \cap Purchases)

QuantityOK ==
    \A i \in Items :
        stock[i].onHand = Moved(Movements \cap Purchases, i) - Moved(Movements \ Purchases, i)

WorthOK == \A i \in Items : stock[i].onHand = 0 => stock[i].value = 0

LedgerInv ==
    /\ ErpInv /\ Books
    /\ LinksOK /\ SettledOK /\ OpenOK
    /\ InventoryOK /\ AccruedOK /\ OpenBalancesOK /\ CashOK
    /\ QuantityOK /\ WorthOK

------------------------------------------------------------------------------
(* What a sum can see of a document *)

\* The sums see a document the way they saw it before.
Aside(q) ==
    /\ paper'[q].state = "posted" <=> paper[q].state = "posted"
    /\ paper[q].state = "posted" => paper'[q].line = paper[q].line
    /\ paper'[q].settled = paper[q].settled

LEMMA RowTypes ==
    ASSUME ErpInv, NEW q \in Papers
    PROVE  /\ PaperOK(q) /\ paper[q] \in PaperRows /\ paper[q].settled \in Nat
           /\ paper[q].state # "none" =>
                 /\ paper[q].line \in Lines
                 /\ Net(paper[q].line) \in Nat /\ Total(paper[q].line) \in Int
                 /\ Open(q) \in Int
<1>1. PaperOK(q) /\ paper[q] \in PaperRows /\ paper[q].settled \in Nat
  BY Settled DEF ErpInv
<1>2. paper[q].state # "none" => paper[q].line \in Lines
  BY <1>1 DEF PaperOK, PaperRows
<1>3. QED
  BY <1>1, <1>2, LineTypes DEF Open

LEMMA TotalIsNat ==
    ASSUME NEW line \in Lines
    PROVE  Net(line) \in Nat /\ Tax(line) \in Nat /\ Total(line) \in Nat
<1>1. Net(line) \in Nat /\ line.rate \in Nat
  BY LineTypes
<1>2. Net(line) * line.rate \in Nat
  BY <1>1
<1>3. PICK a \in Nat : a = Net(line) * line.rate
  BY <1>2
<1>4. (2 * a + 100) \div (2 * 100) \in Nat
  OBVIOUS
<1>5. Tax(line) \in Nat
  BY <1>3, <1>4 DEF Tax, RoundDiv
<1>6. QED
  BY <1>1, <1>5 DEF Total

LEMMA PostedIsFinite ==
    ASSUME NEW S \in SUBSET Papers
    PROVE  IsFiniteSet(S) /\ IsFiniteSet(Posted(S)) /\ Posted(S) \subseteq S
<1>1. IsFiniteSet(S)
  BY ErpAssumption, FS_Subset
<1>2. Posted(S) \in SUBSET S
  BY DEF Posted
<1>3. QED
  BY <1>1, <1>2, FS_Subset

LEMMA SameSums ==
    ASSUME NEW S \in SUBSET Papers, \A q \in S : Aside(q)
    PROVE  /\ Posted(S)' = Posted(S)
           /\ OpenSum(S)' = OpenSum(S)
           /\ SettledSum(S)' = SettledSum(S)
           /\ \A i : Moved(S, i)' = Moved(S, i)
<1>1. Posted(S)' = Posted(S)
  BY DEF Posted, Aside
<1>2. \A q \in Posted(S) : paper'[q].line = paper[q].line /\ paper'[q].settled = paper[q].settled
  BY DEF Posted, Aside
<1>3. OpenSum(S)' = OpenSum(S)
  <2>1. \A q \in Posted(S) : Open(q)' = Open(q)
    BY <1>2 DEF Open
  <2>2. [q \in Posted(S) |-> Open(q)]' = [q \in Posted(S) |-> Open(q)]
    BY <1>1, <2>1
  <2>3. QED
    BY <2>2 DEF OpenSum
<1>4. SettledSum(S)' = SettledSum(S)
  <2>1. [q \in S |-> paper'[q].settled] = [q \in S |-> paper[q].settled]
    BY DEF Aside
  <2>2. QED
    BY <2>1 DEF SettledSum
<1>5. ASSUME NEW i PROVE Moved(S, i)' = Moved(S, i)
  <2> DEFINE T == {q \in Posted(S) : paper[q].line.item = i}
  <2>1. {q \in Posted(S)' : paper'[q].line.item = i} = T
    BY <1>1, <1>2
  <2>2. [q \in T |-> paper'[q].line.qty] = [q \in T |-> paper[q].line.qty]
    BY <1>2
  <2>3. QED
    BY <2>1, <2>2 DEF Moved
<1>6. QED
  BY <1>1, <1>3, <1>4, <1>5

LEMMA SameUnbilled ==
    ASSUME \A q \in Fulfillments \cup Invoices : Aside(q)
    PROVE  /\ Unbilled' = Unbilled
           /\ SumFunction([f \in Unbilled |-> Net(paper[f].line)])'
                 = SumFunction([f \in Unbilled |-> Net(paper[f].line)])
<1>1. Posted(Fulfillments \cap Purchases)' = Posted(Fulfillments \cap Purchases)
  BY DEF Posted, Aside
<1>2. \A f \in Fulfillments : InvoiceOf[f] \in Invoices
  BY ErpAssumption
<1>3. \A f \in Posted(Fulfillments \cap Purchases) :
         /\ paper'[InvoiceOf[f]].state = "posted" <=> paper[InvoiceOf[f]].state = "posted"
         /\ paper'[f].line = paper[f].line
  BY <1>2 DEF Posted, Aside
<1>4. Unbilled' = Unbilled
  BY <1>1, <1>3 DEF Unbilled
<1>5. [f \in Unbilled |-> Net(paper'[f].line)] = [f \in Unbilled |-> Net(paper[f].line)]
  BY <1>3 DEF Unbilled
<1>6. QED
  BY <1>4, <1>5 DEF Net

------------------------------------------------------------------------------
(* How one document moves a sum *)

OpenPart(S, e) == IF e \in Posted(S) THEN Open(e) ELSE 0

SettledPart(S, e) == IF e \in S THEN paper[e].settled ELSE 0

MovedPart(S, i, e) == IF e \in Posted(S) /\ paper[e].line.item = i THEN paper[e].line.qty ELSE 0

LEMMA OpenSumMoves ==
    ASSUME ErpInv, ErpInv', NEW S \in SUBSET Papers, NEW e, \A q \in S \ {e} : Aside(q)
    PROVE  /\ OpenSum(S) \in Int
           /\ OpenSum(S)' = OpenSum(S) - OpenPart(S, e) + OpenPart(S, e)'
<1>1. PICK f, g : /\ f = [p \in Posted(S) |-> Open(p)]
                  /\ g = [p \in Posted(S)' |-> Open(p)']
  OBVIOUS
<1>2. /\ DOMAIN f = Posted(S) /\ DOMAIN g = Posted(S)'
      /\ \A q \in Posted(S) : f[q] = Open(q)
      /\ \A q \in Posted(S)' : g[q] = Open(q)'
  BY <1>1
<1>3. IsFiniteSet(Posted(S)) /\ Posted(S) \subseteq S /\ Posted(S)' \subseteq S
  BY PostedIsFinite DEF Posted
<1>4. \A q \in Posted(S) : Open(q) \in Int
  BY <1>3, RowTypes DEF Posted
<1>5. \A q \in Posted(S)' : Open(q)' \in Int
  <2>1. ASSUME NEW q \in Posted(S)' PROVE Open(q)' \in Int
    <3>1. q \in Papers /\ paper'[q].state # "none"
      BY <2>1 DEF Posted
    <3>2. paper'[q] \in PaperRows /\ PaperOK(q)'
      BY <3>1 DEF ErpInv
    <3>3. paper'[q].line \in Lines /\ paper'[q].settled \in Nat
      BY <3>1, <3>2 DEF PaperOK, PaperRows
    <3>4. Total(paper'[q].line) \in Nat
      BY <3>3, TotalIsNat
    <3>5. QED
      BY <3>3, <3>4 DEF Open, Total, Net, Tax
  <2>2. QED
    BY <2>1
<1>6. Posted(S) \ {e} = Posted(S)' \ {e}
  BY DEF Posted, Aside
<1>7. \A q \in Posted(S) \ {e} : Open(q)' = Open(q)
  <2>1. \A q \in Posted(S) \ {e} : /\ paper'[q].line = paper[q].line
                                   /\ paper'[q].settled = paper[q].settled
    BY DEF Posted, Aside
  <2>2. QED
    BY <2>1 DEF Open, Total, Net, Tax
<1>8. \A q \in (DOMAIN f) \ {e} : f[q] = g[q]
  BY <1>2, <1>6, <1>7
<1>9. /\ SumFunction(f) \in Int
      /\ SumFunction(g) = SumFunction(f) - (IF e \in DOMAIN f THEN f[e] ELSE 0)
                                         + (IF e \in DOMAIN g THEN g[e] ELSE 0)
  <2>1. /\ IsFiniteSet(DOMAIN f) /\ (DOMAIN f) \ {e} = (DOMAIN g) \ {e}
        /\ \A x \in DOMAIN f : f[x] \in Int
        /\ \A x \in DOMAIN g : g[x] \in Int
    BY <1>2, <1>3, <1>4, <1>5, <1>6
  <2>2. QED
    BY <1>8, <2>1, SumMoves, Zenon
<1>10. OpenSum(S) = SumFunction(f) /\ OpenSum(S)' = SumFunction(g)
  BY <1>1 DEF OpenSum
<1>11. /\ OpenPart(S, e) = IF e \in DOMAIN f THEN f[e] ELSE 0
       /\ OpenPart(S, e)' = IF e \in DOMAIN g THEN g[e] ELSE 0
  BY <1>2 DEF OpenPart
<1>12. QED
  BY <1>9, <1>10, <1>11

LEMMA SettledSumMoves ==
    ASSUME ErpInv, ErpInv', NEW S \in SUBSET Papers, NEW e, \A q \in S \ {e} : Aside(q)
    PROVE  /\ SettledSum(S) \in Int
           /\ SettledSum(S)' = SettledSum(S) - SettledPart(S, e) + SettledPart(S, e)'
<1>1. PICK f, g : f = [p \in S |-> paper[p].settled] /\ g = [p \in S |-> paper'[p].settled]
  OBVIOUS
<1>2. /\ DOMAIN f = S /\ DOMAIN g = S
      /\ \A q \in S : f[q] = paper[q].settled /\ g[q] = paper'[q].settled
  BY <1>1
<1>3. \A q \in S : paper[q].settled \in Nat /\ paper'[q].settled \in Nat
  BY DEF ErpInv, PaperRows
<1>4. \A q \in S \ {e} : f[q] = g[q]
  BY <1>2 DEF Aside
<1>5. /\ SumFunction(f) \in Int
      /\ SumFunction(g) = SumFunction(f) - (IF e \in DOMAIN f THEN f[e] ELSE 0)
                                         + (IF e \in DOMAIN g THEN g[e] ELSE 0)
  <2>1. /\ IsFiniteSet(DOMAIN f) /\ (DOMAIN f) \ {e} = (DOMAIN g) \ {e}
        /\ \A x \in DOMAIN f : f[x] \in Int
        /\ \A x \in DOMAIN g : g[x] \in Int
        /\ \A x \in (DOMAIN f) \ {e} : f[x] = g[x]
    <3>1. IsFiniteSet(S)
      BY PostedIsFinite
    <3>2. (\A x \in S : f[x] \in Int) /\ (\A x \in S : g[x] \in Int)
      BY <1>2, <1>3
    <3>3. QED
      BY <1>2, <1>4, <3>1, <3>2, Zenon
  <2>2. QED
    BY <2>1, SumMoves, Zenon
<1>6. SettledSum(S) = SumFunction(f) /\ SettledSum(S)' = SumFunction(g)
  BY <1>1 DEF SettledSum
<1>7. /\ SettledPart(S, e) = IF e \in DOMAIN f THEN f[e] ELSE 0
      /\ SettledPart(S, e)' = IF e \in DOMAIN g THEN g[e] ELSE 0
  BY <1>2 DEF SettledPart
<1>8. QED
  BY <1>5, <1>6, <1>7

LEMMA MovedMoves ==
    ASSUME ErpInv, ErpInv', NEW S \in SUBSET Papers, NEW e, NEW i, \A q \in S \ {e} : Aside(q)
    PROVE  /\ Moved(S, i) \in Int
           /\ Moved(S, i)' = Moved(S, i) - MovedPart(S, i, e) + MovedPart(S, i, e)'
<1> DEFINE D == {q \in Posted(S) : paper[q].line.item = i}
           E == {q \in Posted(S)' : paper'[q].line.item = i}
<1>1. PICK f, g : f = [p \in D |-> paper[p].line.qty] /\ g = [p \in E |-> paper'[p].line.qty]
  OBVIOUS
<1>2. /\ DOMAIN f = D /\ DOMAIN g = E
      /\ \A q \in D : f[q] = paper[q].line.qty
      /\ \A q \in E : g[q] = paper'[q].line.qty
  BY <1>1
<1>3. IsFiniteSet(D)
  <2>1. IsFiniteSet(Posted(S)) /\ D \subseteq Posted(S)
    BY PostedIsFinite
  <2>2. QED
    BY <2>1, FS_Subset
<1>4. \A q \in D : q \in Papers /\ paper[q].line \in Lines
  BY RowTypes DEF Posted
<1>5. \A q \in E : q \in Papers /\ paper'[q].line \in Lines
  <2>1. \A q \in E : q \in Papers /\ paper'[q].state = "posted"
    BY DEF Posted
  <2>2. \A q \in E : paper'[q] \in PaperRows /\ PaperOK(q)'
    BY <2>1 DEF ErpInv
  <2>3. QED
    BY <2>1, <2>2 DEF PaperOK, PaperRows
<1>6. D \ {e} = E \ {e}
  BY DEF Posted, Aside
<1>7. \A q \in D \ {e} : paper'[q].line = paper[q].line
  BY DEF Posted, Aside
<1>8. /\ SumFunction(f) \in Int
      /\ SumFunction(g) = SumFunction(f) - (IF e \in DOMAIN f THEN f[e] ELSE 0)
                                         + (IF e \in DOMAIN g THEN g[e] ELSE 0)
  <2> HIDE DEF D, E
  <2>1. /\ IsFiniteSet(DOMAIN f) /\ (DOMAIN f) \ {e} = (DOMAIN g) \ {e}
    BY <1>2, <1>3, <1>6
  <2>2. /\ \A x \in DOMAIN f : f[x] \in Int
        /\ \A x \in DOMAIN g : g[x] \in Int
    BY <1>2, <1>4, <1>5, LineTypes
  <2>3. \A x \in (DOMAIN f) \ {e} : f[x] = g[x]
    BY <1>2, <1>6, <1>7
  <2>4. QED
    BY <2>1, <2>2, <2>3, SumMoves, Zenon
<1>9. Moved(S, i) = SumFunction(f) /\ Moved(S, i)' = SumFunction(g)
  BY <1>1 DEF Moved
<1>10. /\ MovedPart(S, i, e) = IF e \in DOMAIN f THEN f[e] ELSE 0
       /\ MovedPart(S, i, e)' = IF e \in DOMAIN g THEN g[e] ELSE 0
  BY <1>2 DEF MovedPart
<1>11. QED
  BY <1>8, <1>9, <1>10

UnbilledPart(e) == IF e \in Unbilled THEN Net(paper[e].line) ELSE 0

LEMMA UnbilledMoves ==
    ASSUME ErpInv, ErpInv', NEW e, Unbilled \ {e} = Unbilled' \ {e},
           \A f \in Unbilled \ {e} : paper'[f].line = paper[f].line
    PROVE  /\ SumFunction([f \in Unbilled |-> Net(paper[f].line)]) \in Int
           /\ SumFunction([f \in Unbilled |-> Net(paper[f].line)])'
                 = SumFunction([f \in Unbilled |-> Net(paper[f].line)])
                   - UnbilledPart(e) + UnbilledPart(e)'
<1>1. PICK f, g : /\ f = [p \in Unbilled |-> Net(paper[p].line)]
                  /\ g = [p \in Unbilled' |-> Net(paper'[p].line)]
  OBVIOUS
<1>2. /\ DOMAIN f = Unbilled /\ DOMAIN g = Unbilled'
      /\ \A q \in Unbilled : f[q] = Net(paper[q].line)
      /\ \A q \in Unbilled' : g[q] = Net(paper'[q].line)
  BY <1>1
<1>3. IsFiniteSet(Unbilled)
  <2>1. (Fulfillments \cap Purchases) \in SUBSET Papers
    BY Kinds
  <2>2. IsFiniteSet(Posted(Fulfillments \cap Purchases))
    BY <2>1, PostedIsFinite
  <2>3. Unbilled \subseteq Posted(Fulfillments \cap Purchases)
    BY DEF Unbilled
  <2>4. QED
    BY <2>2, <2>3, FS_Subset
<1>4. \A q \in Unbilled : paper[q].line \in Lines
  <2>1. \A q \in Unbilled : q \in Papers /\ paper[q].state = "posted"
    BY Kinds DEF Unbilled, Posted
  <2>2. QED
    BY <2>1, RowTypes
<1>5. \A q \in Unbilled' : paper'[q].line \in Lines
  <2>1. \A q \in Unbilled' : q \in Papers /\ paper'[q].state = "posted"
    BY Kinds DEF Unbilled, Posted
  <2>2. \A q \in Unbilled' : paper'[q] \in PaperRows /\ PaperOK(q)'
    BY <2>1 DEF ErpInv
  <2>3. QED
    BY <2>1, <2>2 DEF PaperOK, PaperRows
<1>6. /\ SumFunction(f) \in Int
      /\ SumFunction(g) = SumFunction(f) - (IF e \in DOMAIN f THEN f[e] ELSE 0)
                                         + (IF e \in DOMAIN g THEN g[e] ELSE 0)
  <2>1. IsFiniteSet(DOMAIN f) /\ (DOMAIN f) \ {e} = (DOMAIN g) \ {e}
    BY <1>2, <1>3
  <2>2. /\ \A x \in DOMAIN f : f[x] \in Int
        /\ \A x \in DOMAIN g : g[x] \in Int
    BY <1>2, <1>4, <1>5, LineTypes
  <2>3. \A x \in (DOMAIN f) \ {e} : f[x] = g[x]
    BY <1>2
  <2>4. QED
    BY <2>1, <2>2, <2>3, SumMoves, Zenon
<1>7. [p \in Unbilled |-> Net(paper[p].line)]' = g
  BY <1>1 DEF Net
<1>8. /\ UnbilledPart(e) = IF e \in DOMAIN f THEN f[e] ELSE 0
      /\ UnbilledPart(e)' = IF e \in DOMAIN g THEN g[e] ELSE 0
  BY <1>2 DEF UnbilledPart, Net
<1>9. QED
  BY <1>1, <1>6, <1>7, <1>8

------------------------------------------------------------------------------
(* What a journal does to the accounts *)

LEMMA EntryValues ==
    ASSUME NEW debit \in Accounts, NEW credit \in Accounts, debit # credit, NEW amount \in Int
    PROVE  /\ Entry(debit, credit, amount)[debit] = amount
           /\ Entry(debit, credit, amount)[credit] = -amount
           /\ \A a \in Accounts : a # debit /\ a # credit => Entry(debit, credit, amount)[a] = 0
BY DEF Entry, NoEntry

LEMMA BooksMove ==
    ASSUME NEW entry, postJournal(entry), NEW a \in Accounts
    PROVE  books'[a] = books[a] + entry[a]
BY DEF postJournal

LEMMA BooksMoveBy ==
    ASSUME books \in [Accounts -> Int], NEW debit \in Accounts, NEW credit \in Accounts,
           debit # credit, NEW amount \in Int, postJournal(Entry(debit, credit, amount))
    PROVE  /\ books'[debit] = books[debit] + amount
           /\ books'[credit] = books[credit] - amount
           /\ \A a \in Accounts : a # debit /\ a # credit => books'[a] = books[a]
<1>1. PICK entry : entry = Entry(debit, credit, amount)
  OBVIOUS
<1>2. /\ entry[debit] = amount /\ entry[credit] = -amount
      /\ \A a \in Accounts : a # debit /\ a # credit => entry[a] = 0
  BY <1>1, EntryValues
<1>3. \A a \in Accounts : books'[a] = books[a] + entry[a]
  BY <1>1, BooksMove
<1>4. QED
  BY <1>2, <1>3

\* The inventory account is worth the stock, and when the last of an item leaves, all
\* of its value leaves with it.
LEMMA StockMoves ==
    ASSUME Books, Books', InventoryOK, WorthOK, NEW line \in Lines, NEW in \in BOOLEAN,
           NEW counter \in Accounts, counter # "inventory", adjustValuedInventory(line, in, counter)
    PROVE  /\ InventoryOK' /\ WorthOK'
           /\ stock'[line.item].onHand
                 = stock[line.item].onHand + (IF in THEN line.qty ELSE -line.qty)
           /\ \A i \in Items : i # line.item => stock'[i] = stock[i]
           /\ \A a \in Accounts : a # "inventory" /\ a # counter => books'[a] = books[a]
           /\ in => books'[counter] = books[counter] - Net(line)
<1>1. PICK e \in Items : e = line.item
  BY LineTypes
<1>2. PICK cell \in [onHand : Nat, value : Nat] : cell = stock[e]
  BY <1>1 DEF Books
<1>3. PICK qty \in Nat, net \in Nat, issue \in Int :
         qty = line.qty /\ net = Net(line) /\ issue = IssueAmount(cell, line.qty) /\ qty > 0
  <2>1. line.qty \in Nat /\ line.qty > 0
    BY ErpAssumption
  <2>2. QED
    BY <2>1, LineTypes, IssueTypes
<1>4. PICK amount \in Int, row \in [onHand : Int, value : Int] :
         /\ stock' = [stock EXCEPT ![e] = row]
         /\ row.value = cell.value + amount
         /\ row.onHand = cell.onHand + (IF in THEN qty ELSE -qty)
         /\ row.onHand = 0 => row.value = 0
         /\ books'["inventory"] = books["inventory"] + amount
         /\ books'[counter] = books[counter] - amount
         /\ \A a \in Accounts : a # "inventory" /\ a # counter => books'[a] = books[a]
         /\ in => amount = net
  <2>1. books \in [Accounts -> Int] /\ "inventory" \in Accounts
    BY DEF Books, Accounts
  <2>2. CASE in
    <3>1. stock' = Received(line) /\ postJournal(Entry("inventory", counter, net))
      BY <1>3, <2>2, Zenon DEF adjustValuedInventory
    <3>2. /\ books'["inventory"] = books["inventory"] + net
          /\ books'[counter] = books[counter] - net
          /\ \A a \in Accounts : a # "inventory" /\ a # counter => books'[a] = books[a]
      BY <2>1, <3>1, BooksMoveBy
    <3>3. PICK row \in [onHand : Int, value : Int] :
            row = [onHand |-> cell.onHand + qty, value |-> cell.value + net]
      <4>1. cell.onHand + qty \in Int /\ cell.value + net \in Int
        OBVIOUS
      <4>2. [onHand |-> cell.onHand + qty, value |-> cell.value + net] \in [onHand : Int, value : Int]
        BY <4>1, Zenon
      <4>3. QED
        BY <4>2, Zenon
    <3>4. stock' = [stock EXCEPT ![e] = row]
      BY <1>1, <1>2, <1>3, <3>1, <3>3 DEF Received
    <3>5. row.value = cell.value + net /\ row.onHand = cell.onHand + qty /\ row.onHand # 0
      BY <1>3, <3>3
    <3>6. /\ net \in Int /\ row.value = cell.value + net /\ (row.onHand = 0 => row.value = 0)
          /\ row.onHand = cell.onHand + (IF in THEN qty ELSE -qty)
      BY <2>2, <3>5
    <3>7. QED
      BY <3>2, <3>4, <3>6, Zenon
  <2>3. CASE ~in
    <3>1. /\ stock' = Issued(line) /\ postJournal(Entry(counter, "inventory", issue))
          /\ stock[line.item].onHand >= line.qty
      BY <1>1, <1>2, <1>3, <2>3, Zenon DEF adjustValuedInventory
    <3>2. /\ books'[counter] = books[counter] + issue
          /\ books'["inventory"] = books["inventory"] - issue
          /\ \A a \in Accounts : a # "inventory" /\ a # counter => books'[a] = books[a]
      BY <2>1, <3>1, BooksMoveBy
    <3>3. PICK row \in [onHand : Int, value : Int] :
            row = [onHand |-> cell.onHand - qty, value |-> cell.value - issue]
      <4>1. cell.onHand - qty \in Int /\ cell.value - issue \in Int
        OBVIOUS
      <4>2. [onHand |-> cell.onHand - qty, value |-> cell.value - issue] \in [onHand : Int, value : Int]
        BY <4>1, Zenon
      <4>3. QED
        BY <4>2, Zenon
    <3>4. stock' = [stock EXCEPT ![e] = row]
      BY <1>1, <1>2, <1>3, <3>1, <3>3 DEF Issued
    <3>5. row.value = cell.value - issue /\ row.onHand = cell.onHand - qty
      BY <3>3
    <3>6. row.onHand = 0 => row.value = 0
      <4>1. ASSUME row.onHand = 0 PROVE row.value = 0
        <5>1. line.qty = cell.onHand
          BY <1>3, <3>5, <4>1
        <5>2. issue = cell.value
          BY <1>3, <5>1 DEF IssueAmount
        <5>3. QED
          BY <3>5, <5>2
      <4>2. QED
        BY <4>1
    <3>7. -issue \in Int
      OBVIOUS
    <3>8. books["inventory"] \in Int /\ books[counter] \in Int
      BY <2>1
    <3>9. /\ row.value = cell.value + (-issue)
          /\ books'["inventory"] = books["inventory"] + (-issue)
          /\ books'[counter] = books[counter] - (-issue)
      BY <3>2, <3>5, <3>8
    <3>10. row.onHand = cell.onHand + (-qty)
      BY <3>5
    <3>11. QED
      BY <2>3, <3>2, <3>4, <3>6, <3>7, <3>9, <3>10
  <2>4. QED
    BY <2>2, <2>3
<1>5. /\ stock'[e] = row /\ \A i \in Items : i # e => stock'[i] = stock[i]
      /\ stock \in [Items -> [onHand : Nat, value : Nat]]
      /\ stock' \in [Items -> [onHand : Nat, value : Nat]]
  BY <1>4 DEF Books
<1>6. InventoryOK'
  <2>1. PICK f, g : /\ f = [i \in Items |-> stock[i].value]
                    /\ g = [i \in Items |-> stock'[i].value]
    OBVIOUS
  <2>2. /\ DOMAIN f = Items /\ DOMAIN g = Items
        /\ \A i \in Items : f[i] = stock[i].value /\ g[i] = stock'[i].value
    BY <2>1
  <2>3. /\ IsFiniteSet(DOMAIN f) /\ (DOMAIN f) \ {e} = (DOMAIN g) \ {e}
        /\ (\A x \in DOMAIN f : f[x] \in Int) /\ \A x \in DOMAIN g : g[x] \in Int
        /\ \A x \in (DOMAIN f) \ {e} : f[x] = g[x]
    <3>1. \A x \in Items : stock[x].value \in Int /\ stock'[x].value \in Int
      BY <1>5
    <3>2. QED
      BY <1>5, <2>2, <3>1, ErpAssumption
  <2>4. /\ SumFunction(f) \in Int
        /\ SumFunction(g) = SumFunction(f) - (IF e \in DOMAIN f THEN f[e] ELSE 0)
                                           + (IF e \in DOMAIN g THEN g[e] ELSE 0)
    BY <2>3, SumMoves, Zenon
  <2>5. SumFunction(g) = SumFunction(f) - cell.value + (cell.value + amount)
    BY <1>2, <1>4, <1>5, <2>2, <2>4
  <2>6. books["inventory"] = SumFunction(f)
    BY <2>1 DEF InventoryOK
  <2>7. books'["inventory"] = SumFunction(g)
    BY <1>4, <2>4, <2>5, <2>6
  <2>8. QED
    BY <2>1, <2>7 DEF InventoryOK
<1>7. WorthOK'
  BY <1>4, <1>5 DEF WorthOK
<1>8. QED
  BY <1>1, <1>2, <1>3, <1>4, <1>5, <1>6, <1>7

------------------------------------------------------------------------------
(* The steps no sum can see *)

PlainRow(q) ==
    \/ paper'[q] = paper[q]
    \/ /\ paper[q].state # "posted" /\ paper'[q].state # "posted"
       /\ paper[q].settled = 0 /\ paper'[q].settled = 0
       /\ q \in Invoices => paper[q].base = None /\ paper'[q].base = None

PlainStep == (\A q \in Papers : PlainRow(q)) /\ UNCHANGED <<alloc, stock, books>>

LEMMA PlainAside == ASSUME NEW q, PlainRow(q) PROVE Aside(q)
BY DEF PlainRow, Aside

LEMMA PlainKeepsLinks ==
    ASSUME LedgerInv, \A q \in Papers : PlainRow(q), UNCHANGED alloc
    PROVE  LinksOK'
<1>1. ASSUME NEW p \in Payments, NEW i \in Invoices PROVE AllocOK(p, i)'
  <2>1. AllocOK(p, i) /\ alloc[<<p, i>>] \in Nat
    BY DEF LedgerInv, LinksOK, Books
  <2>2. PlainRow(p) /\ PlainRow(i) /\ alloc' = alloc
    BY Kinds
  <2>3. PICK a \in Nat : a = alloc[<<p, i>>] /\ a = alloc'[<<p, i>>]
    BY <2>1, <2>2
  <2>4. CASE paper'[p] = paper[p] /\ paper'[i] = paper[i]
    BY <2>1, <2>2, <2>4 DEF AllocOK
  <2>5. CASE ~(paper'[p] = paper[p] /\ paper'[i] = paper[i])
    <3>1. a = 0
      BY <2>1, <2>2, <2>3, <2>5 DEF PlainRow, AllocOK
    <3>2. paper'[p].settled = paper[p].settled /\ paper'[i].settled = paper[i].settled
      BY <2>2 DEF PlainRow
    <3>3. QED
      BY <2>1, <2>3, <3>1, <3>2 DEF AllocOK
  <2>6. QED
    BY <2>4, <2>5
<1>2. ASSUME NEW f \in Fulfillments PROVE BillOK(f)'
  <2>1. BillOK(f) /\ InvoiceOf[f] \in Invoices /\ InvoiceOf[f] \in Papers /\ f # None
    BY Kinds, ErpAssumption DEF LedgerInv, LinksOK
  <2>2. PlainRow(f) /\ PlainRow(InvoiceOf[f])
    BY <2>1, Kinds
  <2>3. ASSUME paper'[f].state = "posted"
        PROVE  paper'[f] = paper[f] /\ paper'[InvoiceOf[f]] = paper[InvoiceOf[f]]
    <3>1. paper'[f] = paper[f]
      BY <2>2, <2>3 DEF PlainRow
    <3>2. paper[InvoiceOf[f]].base = f
      BY <2>1, <2>3, <3>1 DEF BillOK
    <3>3. QED
      BY <2>1, <2>2, <3>1, <3>2 DEF PlainRow
  <2>4. QED
    BY <2>1, <2>3 DEF BillOK
<1>3. ASSUME NEW i \in Invoices PROVE SourceOK(i)'
  <2>1. SourceOK(i) /\ PlainRow(i)
    BY Kinds DEF LedgerInv, LinksOK
  <2>2. ASSUME paper'[i].base # None PROVE paper'[i] = paper[i]
    BY <2>1, <2>2 DEF PlainRow
  <2>3. ASSUME paper'[i].base # None
        PROVE  /\ paper'[i] = paper[i] /\ paper[i].base \in Fulfillments
               /\ paper[paper[i].base].state = "posted"
               /\ paper'[paper[i].base] = paper[paper[i].base]
    <3>1. paper'[i] = paper[i] /\ paper[i].base # None
      BY <2>2, <2>3
    <3>2. paper[i].base \in Fulfillments /\ paper[paper[i].base].state = "posted"
      BY <2>1, <3>1 DEF SourceOK
    <3>3. PlainRow(paper[i].base)
      BY <3>2, Kinds
    <3>4. QED
      BY <3>1, <3>2, <3>3 DEF PlainRow
  <2>4. QED
    BY <2>1, <2>3 DEF SourceOK
<1>4. QED
  BY <1>1, <1>2, <1>3 DEF LinksOK

LEMMA PlainKeepsSums ==
    ASSUME LedgerInv, PlainStep
    PROVE  /\ SettledOK' /\ InventoryOK' /\ AccruedOK' /\ OpenBalancesOK' /\ CashOK'
           /\ QuantityOK' /\ WorthOK'
<1>1. /\ \A q \in Papers : Aside(q)
      /\ alloc' = alloc /\ stock' = stock /\ books' = books
  BY PlainAside DEF PlainStep
<1>2. \A S \in SUBSET Papers :
         /\ OpenSum(S)' = OpenSum(S) /\ SettledSum(S)' = SettledSum(S)
         /\ \A i : Moved(S, i)' = Moved(S, i)
  <2>1. ASSUME NEW S \in SUBSET Papers
        PROVE  /\ OpenSum(S)' = OpenSum(S) /\ SettledSum(S)' = SettledSum(S)
               /\ \A i : Moved(S, i)' = Moved(S, i)
    BY <1>1, SameSums
  <2>2. QED
    BY <2>1
<1>3. /\ Invoices \ Purchases \in SUBSET Papers /\ Invoices \cap Purchases \in SUBSET Papers
      /\ Payments \ Purchases \in SUBSET Papers /\ Payments \cap Purchases \in SUBSET Papers
      /\ Movements \cap Purchases \in SUBSET Papers /\ Movements \ Purchases \in SUBSET Papers
  BY Kinds DEF Movements
<1>4. SettledOK'
  <2>1. \A p \in Payments \cup Invoices : paper'[p].settled = paper[p].settled
    BY <1>1, Kinds DEF Aside
  <2>2. QED
    BY <1>1, <2>1 DEF LedgerInv, SettledOK
<1>5. InventoryOK' /\ WorthOK'
  BY <1>1 DEF LedgerInv, InventoryOK, WorthOK
<1>6. AccruedOK'
  <2>1. \A q \in Fulfillments \cup Invoices : Aside(q)
    BY <1>1, Kinds
  <2>2. QED
    BY <1>1, <2>1, SameUnbilled DEF LedgerInv, AccruedOK
<1>7. OpenBalancesOK'
  BY <1>1, <1>2, <1>3 DEF LedgerInv, OpenBalancesOK
<1>8. CashOK'
  BY <1>1, <1>2, <1>3 DEF LedgerInv, CashOK
<1>9. QuantityOK'
  BY <1>1, <1>2, <1>3 DEF LedgerInv, QuantityOK
<1>10. QED
  BY <1>4, <1>5, <1>6, <1>7, <1>8, <1>9

\* A document nothing was settled on may have any line.
LEMMA OpenStays ==
    ASSUME ErpInv, ErpInv', NEW q \in Papers,
           paper[q].state # "none" => Open(q) >= 0,
           paper'[q] = paper[q] \/ paper'[q].settled = 0
    PROVE  (paper[q].state # "none" => Open(q) >= 0)'
<1>1. CASE paper'[q] = paper[q]
  BY <1>1 DEF Open, Total, Net, Tax
<1>2. ASSUME paper'[q].settled = 0, paper'[q].state # "none" PROVE Open(q)' >= 0
  <2>1. paper'[q] \in PaperRows /\ PaperOK(q)'
    BY DEF ErpInv
  <2>2. paper'[q].line \in Lines
    BY <1>2, <2>1 DEF PaperOK, PaperRows
  <2>3. PICK t \in Nat : t = Total(paper'[q].line)
    BY <2>2, TotalIsNat
  <2>4. Open(q)' = t - 0
    BY <1>2, <2>3 DEF Open, Total, Net, Tax
  <2>5. QED
    BY <2>3, <2>4
<1>3. QED
  BY <1>1, <1>2

LEMMA PlainKeeps ==
    ASSUME LedgerInv, ErpInv', Books', PlainStep
    PROVE  LedgerInv'
<1>1. LinksOK'
  BY PlainKeepsLinks DEF PlainStep
<1>2. OpenOK'
  <2>1. ASSUME NEW q \in Payments \cup Invoices PROVE (paper[q].state # "none" => Open(q) >= 0)'
    <3>1. q \in Papers /\ (paper[q].state # "none" => Open(q) >= 0)
      BY Kinds DEF LedgerInv, OpenOK
    <3>2. paper'[q] = paper[q] \/ paper'[q].settled = 0
      BY <3>1 DEF PlainStep, PlainRow
    <3>3. ErpInv
      BY DEF LedgerInv
    <3>4. QED
      BY <3>1, <3>2, <3>3, OpenStays
  <2>2. QED
    BY <2>1 DEF OpenOK
<1>3. QED
  BY <1>1, <1>2, PlainKeepsSums DEF LedgerInv

\* Drafts and orders are typed in, approved and converted without the books.
LEMMA PlainDraft ==
    ASSUME ErpInv, NEW p \in Papers, NEW partner \in PartnersOf(p), NEW line \in Lines,
           EnterDraft(p, partner, line)
    PROVE  PlainStep
<1>1. PaperOK(p) /\ paper \in [Papers -> PaperRows] /\ paper[p] \in PaperRows
  BY DEF ErpInv
<1>2. UNCHANGED <<alloc, stock, books>>
  BY Zenon DEF EnterDraft
<1>3. CASE /\ paper[p].state = "none"
           /\ paper' = [paper EXCEPT ![p] = [Blank EXCEPT !.state = "open", !.partner = partner,
                                                          !.line = line]]
  <2>1. PICK row : row = [Blank EXCEPT !.state = "open", !.partner = partner, !.line = line]
    OBVIOUS
  <2>2. row.state = "open" /\ row.base = None /\ row.settled = 0
    BY <2>1 DEF Blank
  <2>3. paper' = [paper EXCEPT ![p] = row]
    BY <1>3, <2>1
  <2>4. paper'[p] = row /\ \A q \in Papers : q # p => paper'[q] = paper[q]
    BY <1>1, <2>3
  <2>5. paper[p].base = None /\ paper[p].settled = 0
    BY <1>1, <1>3, BlankRow DEF PaperOK
  <2>6. QED
    BY <1>2, <1>3, <2>2, <2>4, <2>5 DEF PlainStep, PlainRow
<1>4. CASE /\ ensureEditable(p)
           /\ \E s \in {paper[p].state} \cup (IF p \in Purchases THEN {"open"} ELSE {}) :
                 paper' = [paper EXCEPT ![p].state = s, ![p].partner = partner, ![p].line = line]
  <2>1. PICK s \in {paper[p].state, "open"} :
           paper' = [paper EXCEPT ![p].state = s, ![p].partner = partner, ![p].line = line]
    BY <1>4
  <2>2. PICK row : row = [paper[p] EXCEPT !.state = s, !.partner = partner, !.line = line]
    OBVIOUS
  <2>3. row.state = s /\ row.base = paper[p].base /\ row.settled = paper[p].settled
    BY <1>1, <2>2 DEF PaperRows
  <2>4. paper' = [paper EXCEPT ![p] = row]
    BY <1>1, <2>1, <2>2
  <2>5. paper'[p] = row /\ \A q \in Papers : q # p => paper'[q] = paper[q]
    BY <1>1, <2>4
  <2>6. paper[p].base = None /\ paper[p].settled = 0
    BY <1>4, EditableIsNotBinding
  <2>7. paper[p].state \in {"open", "prepared"}
    BY <1>4 DEF ensureEditable
  <2>8. s # "posted" /\ paper[p].state # "posted"
    BY <2>1, <2>7
  <2>9. QED
    BY <1>2, <2>3, <2>5, <2>6, <2>8 DEF PlainStep, PlainRow
<1>5. QED
  BY <1>3, <1>4, Zenon DEF EnterDraft

LEMMA PlainDelete ==
    ASSUME ErpInv, NEW p \in Papers, DeleteDraft(p)
    PROVE  PlainStep
<1>1. /\ paper' = [paper EXCEPT ![p] = Blank] /\ ensureEditable(p)
      /\ UNCHANGED <<alloc, stock, books>>
  BY DEF DeleteDraft
<1>2. paper'[p] = Blank /\ \A q \in Papers : q # p => paper'[q] = paper[q]
  BY <1>1 DEF ErpInv
<1>3. paper[p].base = None /\ paper[p].settled = 0 /\ paper[p].state # "posted"
  BY <1>1, EditableIsNotBinding DEF ensureEditable
<1>4. QED
  BY <1>1, <1>2, <1>3, BlankRow DEF PlainStep, PlainRow

\* Only the state changes, of a document that is neither invoice nor payment.
LEMMA PlainState ==
    ASSUME ErpInv, NEW p \in Orders \cup Fulfillments, NEW s, s # "posted",
           paper[p].state # "posted", paper' = [paper EXCEPT ![p].state = s],
           UNCHANGED <<alloc, stock, books>>
    PROVE  PlainStep
<1>1. p \in Papers /\ p \notin Invoices /\ p \notin Payments /\ PaperOK(p)
      /\ paper[p] \in PaperRows /\ paper[p].settled \in Nat
  BY Kinds, Settled DEF ErpInv
<1>2. paper[p].settled = 0
  BY <1>1 DEF PaperOK
<1>3. /\ paper'[p].state = s /\ paper'[p].settled = paper[p].settled
      /\ \A q \in Papers : q # p => paper'[q] = paper[q]
  BY <1>1 DEF ErpInv, PaperRows
<1>4. QED
  BY <1>1, <1>2, <1>3 DEF PlainStep, PlainRow

LEMMA PlainConvert ==
    ASSUME ErpInv, NEW o \in Orders, NEW f \in Fulfillments, convertOrderToFulfillment(o, f)
    PROVE  PlainStep
<1>1. /\ o \in Papers /\ f \in Papers /\ o # f /\ PaperOK(o) /\ PaperOK(f)
      /\ o \notin Invoices /\ f \notin Invoices /\ o \notin Payments /\ f \notin Payments
      /\ paper[o] \in PaperRows /\ paper[o].settled \in Nat
      /\ paper \in [Papers -> PaperRows]
  BY Kinds, Settled DEF ErpInv
<1>2. /\ paper[o].state = "approved" /\ paper[f].state = "none"
      /\ UNCHANGED <<alloc, stock, books>>
  BY DEF convertOrderToFulfillment
<1>3. paper[o].settled = 0 /\ paper[f].settled = 0
  BY <1>1, <1>2, BlankRow DEF PaperOK
<1>4. PICK new : new = [paper[o] EXCEPT !.state = "open", !.base = o]
  OBVIOUS
<1>5. new.state = "open" /\ new.settled = paper[o].settled
  BY <1>1, <1>4 DEF PaperRows
<1>6. paper' = [paper EXCEPT ![f] = new, ![o].link = f]
  BY <1>4 DEF convertOrderToFulfillment
<1>7. /\ paper'[f] = new
      /\ paper'[o].state = paper[o].state /\ paper'[o].settled = paper[o].settled
      /\ \A q \in Papers : q # o /\ q # f => paper'[q] = paper[q]
  BY <1>1, <1>6 DEF PaperRows
<1>8. PlainRow(o) /\ PlainRow(f)
  BY <1>1, <1>2, <1>3, <1>5, <1>7 DEF PlainRow
<1>9. QED
  BY <1>2, <1>7, <1>8 DEF PlainStep, PlainRow

------------------------------------------------------------------------------
(* Goods are posted *)

\* What comes in or goes out is on the paper that is posted with it.
LEMMA QuantityMoves ==
    ASSUME ErpInv, ErpInv', Books, Books', QuantityOK, NEW e \in Movements, NEW line \in Lines,
           paper[e].state # "posted", paper'[e].state = "posted", paper'[e].line = line,
           \A q \in Movements \ {e} : Aside(q),
           stock'[line.item].onHand
              = stock[line.item].onHand + (IF e \in Purchases THEN line.qty ELSE -line.qty),
           \A i \in Items : i # line.item => stock'[i] = stock[i]
    PROVE  QuantityOK'
<1>1. PICK ins, outs : ins = Movements \cap Purchases /\ outs = Movements \ Purchases
  OBVIOUS
<1>2. ins \in SUBSET Papers /\ outs \in SUBSET Papers /\ e \in Papers
      /\ ins \subseteq Movements /\ outs \subseteq Movements
  BY <1>1, Kinds DEF Movements
<1>3. /\ e \in ins <=> e \in Purchases
      /\ e \in outs <=> e \notin Purchases
  BY <1>1
<1>4. line.qty \in Nat /\ line.item \in Items
  BY LineTypes
<1>5. ASSUME NEW i \in Items
      PROVE  stock'[i].onHand = Moved(ins, i)' - Moved(outs, i)'
  <2>1. /\ Moved(ins, i) \in Int
        /\ Moved(ins, i)' = Moved(ins, i) - MovedPart(ins, i, e) + MovedPart(ins, i, e)'
    BY <1>2, MovedMoves
  <2>2. /\ Moved(outs, i) \in Int
        /\ Moved(outs, i)' = Moved(outs, i) - MovedPart(outs, i, e) + MovedPart(outs, i, e)'
    BY <1>2, MovedMoves
  <2>3. MovedPart(ins, i, e) = 0 /\ MovedPart(outs, i, e) = 0
    BY DEF MovedPart, Posted
  <2>4. /\ MovedPart(ins, i, e)' = IF e \in Purchases /\ i = line.item THEN line.qty ELSE 0
        /\ MovedPart(outs, i, e)' = IF e \notin Purchases /\ i = line.item THEN line.qty ELSE 0
    BY <1>3 DEF MovedPart, Posted
  <2>5. PICK x \in Int, y \in Int : x = Moved(ins, i) /\ y = Moved(outs, i)
    BY <2>1, <2>2
  <2>6. stock[i].onHand = x - y
    BY <1>1, <2>5 DEF QuantityOK
  <2>7. stock'[i].onHand
           = x - y + (IF i = line.item THEN (IF e \in Purchases THEN line.qty ELSE -line.qty)
                                       ELSE 0)
    BY <1>4, <2>5, <2>6
  <2>8. /\ Moved(ins, i)' = x - 0 + (IF e \in Purchases /\ i = line.item THEN line.qty ELSE 0)
        /\ Moved(outs, i)' = y - 0 + (IF e \notin Purchases /\ i = line.item THEN line.qty ELSE 0)
    BY <2>1, <2>2, <2>3, <2>4, <2>5
  <2>9. QED
    BY <1>4, <2>5, <2>7, <2>8
<1>6. QED
  BY <1>1, <1>5 DEF QuantityOK, Movements

\* No sum over invoices or payments sees the step.
LEMMA MoneyStays ==
    ASSUME SettledOK, OpenBalancesOK, CashOK, \A q \in Payments \cup Invoices : Aside(q),
           UNCHANGED alloc, \A a \in {"receivable", "payable", "cash"} : books'[a] = books[a]
    PROVE  SettledOK' /\ OpenBalancesOK' /\ CashOK'
<1>1. /\ Invoices \ Purchases \in SUBSET Papers /\ Invoices \cap Purchases \in SUBSET Papers
      /\ Payments \ Purchases \in SUBSET Papers /\ Payments \cap Purchases \in SUBSET Papers
  BY Kinds
<1>2. /\ OpenSum(Invoices \ Purchases)' = OpenSum(Invoices \ Purchases)
      /\ OpenSum(Invoices \cap Purchases)' = OpenSum(Invoices \cap Purchases)
      /\ SettledSum(Payments \ Purchases)' = SettledSum(Payments \ Purchases)
      /\ SettledSum(Payments \cap Purchases)' = SettledSum(Payments \cap Purchases)
  <2>1. OpenSum(Invoices \ Purchases)' = OpenSum(Invoices \ Purchases)
    BY <1>1, SameSums
  <2>2. OpenSum(Invoices \cap Purchases)' = OpenSum(Invoices \cap Purchases)
    BY <1>1, SameSums
  <2>3. SettledSum(Payments \ Purchases)' = SettledSum(Payments \ Purchases)
    BY <1>1, SameSums
  <2>4. SettledSum(Payments \cap Purchases)' = SettledSum(Payments \cap Purchases)
    BY <1>1, SameSums
  <2>5. QED
    BY <2>1, <2>2, <2>3, <2>4
<1>3. SettledOK'
  <2>1. \A p \in Payments \cup Invoices : paper'[p].settled = paper[p].settled
    BY DEF Aside
  <2>2. QED
    BY <2>1 DEF SettledOK
<1>4. OpenBalancesOK'
  BY <1>2 DEF OpenBalancesOK
<1>5. CashOK'
  BY <1>2 DEF CashOK
<1>6. QED
  BY <1>3, <1>4, <1>5

LEMMA FulfillmentLinks ==
    ASSUME LedgerInv, ErpInv', NEW f \in Fulfillments, FulfillmentPosts(f, InvoiceOf[f]),
           UNCHANGED alloc
    PROVE  LinksOK' /\ OpenOK' /\ \A q \in Papers \ {f} : Aside(q)
<1>1. PICK i \in Invoices : i = InvoiceOf[f]
  BY ErpAssumption
<1>2. /\ paper[f].state = "approved" /\ paper'[f].state = "posted"
      /\ paper'[f].line = paper[f].line /\ paper'[f].link = i
      /\ paper'[f].settled = paper[f].settled
      /\ paper[i].state = "none" /\ paper'[i].state = "open"
      /\ paper'[i].line = paper[f].line /\ paper'[i].base = f
      /\ paper'[i].settled = paper[f].settled
      /\ \A q \in Papers : q # f /\ q # i /\ q \notin Orders => paper'[q] = paper[q]
  BY <1>1 DEF FulfillmentPosts
<1>3. ErpInv /\ f \in Papers /\ i \in Papers /\ f \notin Payments /\ f # None
      /\ PaperOK(f) /\ PaperOK(i) /\ paper[f].settled \in Nat
  BY Kinds, Settled DEF LedgerInv, ErpInv
<1>4. paper[f].settled = 0 /\ paper[i].settled = 0
  BY <1>2, <1>3, BlankRow DEF PaperOK
<1>5. ASSUME NEW q \in Papers \ {f} PROVE Aside(q)
  <2>1. CASE q = i
    BY <1>2, <1>4, <2>1 DEF Aside
  <2>2. CASE q \in Orders
    <3>1. PaperOK(q) /\ PaperOK(q)' /\ paper[q].settled \in Nat /\ paper'[q].settled \in Nat
          /\ q \notin Payments
      BY <1>3, <2>2, Kinds DEF ErpInv, PaperRows
    <3>2. paper[q].state # "posted" /\ paper'[q].state # "posted"
      BY <2>2, <3>1 DEF PaperOK
    <3>3. paper[q].settled = 0 /\ paper'[q].settled = 0
      BY <3>1, <3>2 DEF PaperOK
    <3>4. QED
      BY <3>2, <3>3 DEF Aside
  <2>3. CASE q # i /\ q \notin Orders
    BY <1>2, <2>3 DEF Aside
  <2>4. QED
    BY <2>1, <2>2, <2>3
<1>6. ASSUME NEW p \in Payments, NEW j \in Invoices PROVE AllocOK(p, j)'
  <2>1. AllocOK(p, j) /\ alloc[<<p, j>>] \in Nat /\ alloc' = alloc
    BY DEF LedgerInv, LinksOK, Books
  <2>2. paper'[p] = paper[p]
    BY <1>1, <1>2, Kinds
  <2>3. CASE j = i
    <3>1. alloc[<<p, j>>] = 0
      BY <1>4, <2>1, <2>3 DEF AllocOK
    <3>2. QED
      BY <1>2, <1>4, <2>1, <2>2, <2>3, <3>1 DEF AllocOK
  <2>4. CASE j # i
    <3>1. paper'[j] = paper[j]
      BY <1>2, <2>4, Kinds
    <3>2. QED
      BY <2>1, <2>2, <3>1 DEF AllocOK
  <2>5. QED
    BY <2>3, <2>4
<1>7. ASSUME NEW g \in Fulfillments PROVE BillOK(g)'
  <2>1. CASE g = f
    BY <1>1, <1>2, <2>1 DEF BillOK
  <2>2. CASE g # f
    <3>1. InvoiceOf[g] \in Invoices /\ InvoiceOf[g] # i /\ BillOK(g)
      BY <1>1, <2>2, ErpAssumption DEF LedgerInv, LinksOK
    <3>2. paper'[g] = paper[g] /\ paper'[InvoiceOf[g]] = paper[InvoiceOf[g]]
      BY <1>1, <1>2, <2>2, <3>1, Kinds
    <3>3. QED
      BY <3>1, <3>2 DEF BillOK
  <2>3. QED
    BY <2>1, <2>2
<1>8. ASSUME NEW j \in Invoices PROVE SourceOK(j)'
  <2>1. CASE j = i
    BY <1>1, <1>2, <2>1 DEF SourceOK
  <2>2. CASE j # i
    <3>1. paper'[j] = paper[j] /\ SourceOK(j)
      BY <1>2, <2>2, Kinds DEF LedgerInv, LinksOK
    <3>2. ASSUME paper[j].base # None PROVE paper'[paper[j].base] = paper[paper[j].base]
      <4>1. PICK g \in Fulfillments : g = paper[j].base /\ paper[g].state = "posted"
        BY <3>1, <3>2 DEF SourceOK
      <4>2. g # f /\ g # i /\ g \in Papers /\ g \notin Orders
        BY <1>2, <4>1, Kinds
      <4>3. QED
        BY <1>2, <4>1, <4>2
    <3>3. QED
      BY <3>1, <3>2 DEF SourceOK
  <2>3. QED
    BY <2>1, <2>2
<1>9. OpenOK'
  <2>1. ASSUME NEW q \in Payments \cup Invoices PROVE (paper[q].state # "none" => Open(q) >= 0)'
    <3>1. q \in Papers /\ (paper[q].state # "none" => Open(q) >= 0)
      BY Kinds DEF LedgerInv, OpenOK
    <3>2. paper'[q] = paper[q] \/ paper'[q].settled = 0
      BY <1>2, <1>4, <3>1, Kinds
    <3>3. QED
      BY <1>3, <3>1, <3>2, OpenStays
  <2>2. QED
    BY <2>1 DEF OpenOK
<1>10. QED
  BY <1>5, <1>6, <1>7, <1>8, <1>9 DEF LinksOK

\* Goods received are accrued until their invoice is posted.
LEMMA FulfillmentAccrues ==
    ASSUME LedgerInv, ErpInv', Books', NEW f \in Fulfillments, FulfillmentPosts(f, InvoiceOf[f]),
           \A q \in Papers \ {f} : Aside(q),
           f \in Purchases => books'["accrued"] = books["accrued"] - Net(paper[f].line),
           f \notin Purchases => books'["accrued"] = books["accrued"]
    PROVE  AccruedOK'
<1>1. /\ paper[f].state = "approved" /\ paper'[f].state = "posted"
      /\ paper'[f].line = paper[f].line /\ paper'[InvoiceOf[f]].state = "open"
  BY DEF FulfillmentPosts
<1>2. /\ ErpInv /\ f \in Papers
      /\ \A g \in Fulfillments : InvoiceOf[g] \in Papers \ {f}
  BY Kinds, ErpAssumption DEF LedgerInv
<1>3. \A g \in Fulfillments \ {f} :
         /\ paper'[g].state = "posted" <=> paper[g].state = "posted"
         /\ paper[g].state = "posted" => paper'[g].line = paper[g].line
         /\ paper'[InvoiceOf[g]].state = "posted" <=> paper[InvoiceOf[g]].state = "posted"
  BY <1>2, Kinds DEF Aside
<1>4. Unbilled \ {f} = Unbilled' \ {f}
  BY <1>3 DEF Unbilled, Posted
<1>5. \A g \in Unbilled \ {f} : paper'[g].line = paper[g].line
  BY <1>3 DEF Unbilled, Posted
<1>6. f \notin Unbilled /\ (f \in Unbilled' <=> f \in Purchases)
  BY <1>1 DEF Unbilled, Posted
<1>7. PICK before \in Int : before = SumFunction([g \in Unbilled |-> Net(paper[g].line)])
  BY <1>2, <1>4, <1>5, UnbilledMoves
<1>8. PICK after : after = SumFunction([g \in Unbilled |-> Net(paper[g].line)])'
  OBVIOUS
<1>9. after = before - UnbilledPart(f) + UnbilledPart(f)'
  BY <1>2, <1>4, <1>5, <1>7, <1>8, UnbilledMoves
<1>10. UnbilledPart(f) = 0 /\ UnbilledPart(f)' = IF f \in Purchases THEN Net(paper[f].line) ELSE 0
  BY <1>1, <1>6 DEF UnbilledPart, Net
<1>11. Net(paper[f].line) \in Nat
  BY <1>1, <1>2, RowTypes
<1>12. books["accrued"] = -before
  BY <1>7 DEF LedgerInv, AccruedOK
<1>13. books'["accrued"] = -after
  BY <1>7, <1>9, <1>10, <1>11, <1>12
<1>14. QED
  BY <1>8, <1>13 DEF AccruedOK

LEMMA FulfillmentKeeps ==
    ASSUME LedgerInv, ErpInv', Books', NEW f \in Fulfillments, postStockFulfillment(f)
    PROVE  LedgerInv'
<1>1. ErpInv /\ Books /\ f \in Papers /\ f \in Movements
  BY Kinds DEF LedgerInv, Movements
<1>2. FulfillmentPosts(f, InvoiceOf[f])
  BY <1>1, FulfillmentGood
<1>3. PICK line \in Lines : line = paper[f].line
  BY <1>1, <1>2, RowTypes DEF FulfillmentPosts
<1>4. PICK counter \in Accounts :
         /\ counter = IF f \in Purchases THEN "accrued" ELSE "cost of sales"
         /\ adjustValuedInventory(line, f \in Purchases, counter)
         /\ UNCHANGED <<alloc, drafts>>
  <2>1. /\ adjustValuedInventory(paper[f].line, f \in Purchases,
                                 IF f \in Purchases THEN "accrued" ELSE "cost of sales")
        /\ UNCHANGED <<alloc, drafts>>
    BY Zenon DEF postStockFulfillment
  <2>2. (IF f \in Purchases THEN "accrued" ELSE "cost of sales") \in Accounts
    BY DEF Accounts
  <2>3. QED
    BY <1>3, <2>1, <2>2
<1>5. PICK in \in BOOLEAN : (in <=> f \in Purchases) /\ adjustValuedInventory(line, in, counter)
  <2>1. (f \in Purchases) \in BOOLEAN
    OBVIOUS
  <2>2. QED
    BY <1>4, <2>1, Zenon
<1>6. /\ InventoryOK' /\ WorthOK'
      /\ stock'[line.item].onHand = stock[line.item].onHand + (IF in THEN line.qty ELSE -line.qty)
      /\ \A i \in Items : i # line.item => stock'[i] = stock[i]
      /\ \A a \in Accounts : a # "inventory" /\ a # counter => books'[a] = books[a]
      /\ in => books'[counter] = books[counter] - Net(line)
  <2>1. counter # "inventory" /\ InventoryOK /\ WorthOK
    BY <1>4 DEF LedgerInv
  <2>2. QED
    BY <1>1, <1>5, <2>1, StockMoves
<1>7. LinksOK' /\ OpenOK' /\ \A q \in Papers \ {f} : Aside(q)
  BY <1>2, <1>4, FulfillmentLinks
<1>8. /\ \A a \in {"receivable", "payable", "cash"} : books'[a] = books[a]
      /\ f \in Purchases => books'["accrued"] = books["accrued"] - Net(paper[f].line)
      /\ f \notin Purchases => books'["accrued"] = books["accrued"]
  BY <1>3, <1>4, <1>5, <1>6 DEF Accounts
<1>9. AccruedOK'
  BY <1>2, <1>7, <1>8, FulfillmentAccrues
<1>10. SettledOK' /\ OpenBalancesOK' /\ CashOK'
  <2>1. \A q \in Payments \cup Invoices : Aside(q)
    BY <1>7, Kinds
  <2>2. SettledOK /\ OpenBalancesOK /\ CashOK
    BY DEF LedgerInv
  <2>3. QED
    BY <1>4, <1>8, <2>1, <2>2, MoneyStays
<1>11. QuantityOK'
  <2>1. \A q \in Movements \ {f} : Aside(q)
    BY <1>7, Kinds DEF Movements
  <2>2. /\ paper[f].state # "posted" /\ paper'[f].state = "posted" /\ paper'[f].line = line
        /\ QuantityOK
    BY <1>2, <1>3 DEF FulfillmentPosts, LedgerInv
  <2>3. stock'[line.item].onHand
           = stock[line.item].onHand + (IF f \in Purchases THEN line.qty ELSE -line.qty)
    BY <1>5, <1>6
  <2>4. QED
    BY <1>1, <1>6, <2>1, <2>2, <2>3, QuantityMoves
<1>12. QED
  BY <1>6, <1>7, <1>9, <1>10, <1>11 DEF LedgerInv

LEMMA StandaloneKeeps ==
    ASSUME LedgerInv, ErpInv', Books', NEW s \in StockPapers, postStandaloneInventory(s)
    PROVE  LedgerInv'
<1>1. /\ ErpInv /\ Books /\ s \in Papers /\ s \in Movements /\ s \notin Payments
      /\ s \notin Invoices /\ s \notin Fulfillments /\ paper[s] \in PaperRows
      /\ paper \in [Papers -> PaperRows]
  BY Kinds DEF LedgerInv, Movements, ErpInv
<1>2. /\ paper[s].state = "open" /\ paper' = [paper EXCEPT ![s].state = "posted"]
      /\ adjustValuedInventory(paper[s].line, s \in Purchases, "adjustment")
      /\ UNCHANGED <<alloc, drafts>>
  BY Zenon DEF postStandaloneInventory
<1>3. /\ paper'[s].state = "posted" /\ paper'[s].line = paper[s].line
      /\ paper'[s].settled = paper[s].settled
      /\ \A q \in Papers : q # s => paper'[q] = paper[q]
  BY <1>1, <1>2 DEF PaperRows
<1>4. PICK line \in Lines : line = paper[s].line
  BY <1>1, <1>2, RowTypes
<1>5. PICK in \in BOOLEAN :
         (in <=> s \in Purchases) /\ adjustValuedInventory(line, in, "adjustment")
  <2>1. (s \in Purchases) \in BOOLEAN
    OBVIOUS
  <2>2. QED
    BY <1>2, <1>4, <2>1, Zenon
<1>6. /\ InventoryOK' /\ WorthOK'
      /\ stock'[line.item].onHand = stock[line.item].onHand + (IF in THEN line.qty ELSE -line.qty)
      /\ \A i \in Items : i # line.item => stock'[i] = stock[i]
      /\ \A a \in Accounts : a # "inventory" /\ a # "adjustment" => books'[a] = books[a]
  <2>1. "adjustment" \in Accounts /\ InventoryOK /\ WorthOK
    BY DEF LedgerInv, Accounts
  <2>2. QED
    BY <1>1, <1>5, <2>1, StockMoves
<1>7. \A a \in {"receivable", "payable", "cash", "accrued"} : books'[a] = books[a]
  BY <1>6 DEF Accounts
<1>8. \A q \in Papers \ {s} : Aside(q) /\ PlainRow(q)
  BY <1>3 DEF Aside, PlainRow
<1>9. \A q \in Payments \cup Invoices \cup Fulfillments : q \in Papers \ {s} /\ paper'[q] = paper[q]
  BY <1>1, <1>3, Kinds
<1>10. LinksOK'
  <2>1. ASSUME NEW p \in Payments, NEW i \in Invoices PROVE AllocOK(p, i)'
    BY <1>2, <1>9 DEF AllocOK, LedgerInv, LinksOK
  <2>2. ASSUME NEW f \in Fulfillments PROVE BillOK(f)'
    BY <1>9, ErpAssumption DEF BillOK, LedgerInv, LinksOK
  <2>3. ASSUME NEW i \in Invoices PROVE SourceOK(i)'
    BY <1>9 DEF SourceOK, LedgerInv, LinksOK
  <2>4. QED
    BY <2>1, <2>2, <2>3 DEF LinksOK
<1>11. OpenOK'
  BY <1>9 DEF LedgerInv, OpenOK, Open, Total, Net, Tax
<1>12. SettledOK' /\ OpenBalancesOK' /\ CashOK'
  <2>1. SettledOK /\ OpenBalancesOK /\ CashOK
    BY DEF LedgerInv
  <2>2. QED
    BY <1>2, <1>7, <1>8, <1>9, <2>1, MoneyStays
<1>13. AccruedOK'
  BY <1>7, <1>8, <1>9, SameUnbilled DEF LedgerInv, AccruedOK
<1>14. QuantityOK'
  <2>1. \A q \in Movements \ {s} : Aside(q)
    BY <1>8, Kinds DEF Movements
  <2>2. paper[s].state # "posted" /\ paper'[s].state = "posted" /\ paper'[s].line = line
    BY <1>2, <1>3, <1>4
  <2>3. stock'[line.item].onHand
           = stock[line.item].onHand + (IF s \in Purchases THEN line.qty ELSE -line.qty)
    BY <1>5, <1>6
  <2>4. QuantityOK
    BY DEF LedgerInv
  <2>5. QED
    BY <1>1, <1>6, <2>1, <2>2, <2>3, <2>4, QuantityMoves
<1>15. QED
  BY <1>6, <1>10, <1>11, <1>12, <1>13, <1>14 DEF LedgerInv

------------------------------------------------------------------------------
(* Invoices and payments *)

LEMMA InvoiceEntryValues ==
    ASSUME NEW i \in Papers, paper[i].line \in Lines, NEW line, line = paper[i].line
    PROVE  /\ InvoiceEntry(i)["inventory"] = 0 /\ InvoiceEntry(i)["cash"] = 0
           /\ InvoiceEntry(i)["payable"] = IF i \in Purchases THEN -Total(line) ELSE 0
           /\ InvoiceEntry(i)["receivable"] = IF i \in Purchases THEN 0 ELSE Total(line)
           /\ InvoiceEntry(i)["accrued"]
                 = IF i \in Purchases /\ paper[i].base # None THEN Net(line) ELSE 0
<1>1. PICK total, net, tax : total = Total(line) /\ net = Net(line) /\ tax = Tax(line)
  OBVIOUS
<1>2. CASE i \in Purchases /\ paper[i].base = None
  <2>1. InvoiceEntry(i) = [NoEntry EXCEPT !["payable"] = -total, !["input tax"] = tax,
                                          !["expense"] = net]
    BY <1>1, <1>2 DEF InvoiceEntry
  <2>2. QED
    BY <1>1, <1>2, <2>1 DEF NoEntry, Accounts
<1>3. CASE i \in Purchases /\ paper[i].base # None
  <2>1. InvoiceEntry(i) = [NoEntry EXCEPT !["payable"] = -total, !["input tax"] = tax,
                                          !["accrued"] = net]
    BY <1>1, <1>3 DEF InvoiceEntry
  <2>2. QED
    BY <1>1, <1>3, <2>1 DEF NoEntry, Accounts
<1>4. CASE i \notin Purchases
  <2>1. InvoiceEntry(i) = [NoEntry EXCEPT !["receivable"] = total, !["revenue"] = -net,
                                          !["output tax"] = -tax]
    BY <1>1, <1>4 DEF InvoiceEntry
  <2>2. QED
    BY <1>1, <1>4, <2>1 DEF NoEntry, Accounts
<1>5. QED
  BY <1>2, <1>3, <1>4

\* The rows after an invoice was posted.
InvoicePosts(i) ==
    /\ paper[i].state = "open" /\ paper'[i].state = "posted"
    /\ paper'[i].line = paper[i].line /\ paper'[i].base = paper[i].base
    /\ paper[i].settled = 0 /\ paper'[i].settled = 0
    /\ paper'[i].partner = paper[i].partner
    /\ \A q \in Papers \ {i} : paper'[q] = paper[q]
    /\ UNCHANGED <<alloc, stock>>

LEMMA InvoiceRows ==
    ASSUME ErpInv, NEW i \in Invoices, postFinancialInvoice(i)
    PROVE  InvoicePosts(i)
<1>1. /\ i \in Papers /\ i \notin Payments /\ PaperOK(i) /\ paper[i] \in PaperRows
      /\ paper[i].settled \in Nat /\ paper \in [Papers -> PaperRows]
  BY Kinds, Settled DEF ErpInv
<1>2. /\ paper[i].state = "open" /\ paper' = [paper EXCEPT ![i].state = "posted"]
      /\ UNCHANGED <<alloc, stock>>
  BY Zenon DEF postFinancialInvoice
<1>3. paper[i].settled = 0
  BY <1>1, <1>2 DEF PaperOK
<1>4. /\ paper'[i].state = "posted" /\ paper'[i].line = paper[i].line
      /\ paper'[i].base = paper[i].base /\ paper'[i].settled = paper[i].settled
      /\ paper'[i].partner = paper[i].partner
      /\ \A q \in Papers \ {i} : paper'[q] = paper[q]
  BY <1>1, <1>2 DEF PaperRows
<1>5. QED
  BY <1>2, <1>3, <1>4 DEF InvoicePosts

LEMMA InvoiceLinks ==
    ASSUME LedgerInv, ErpInv', NEW i \in Invoices, InvoicePosts(i)
    PROVE  LinksOK' /\ OpenOK'
<1>1. ErpInv /\ i \in Papers /\ i # None
  BY Kinds DEF LedgerInv
<1>2. ASSUME NEW p \in Payments, NEW j \in Invoices PROVE AllocOK(p, j)'
  <2>1. AllocOK(p, j) /\ alloc[<<p, j>>] \in Nat /\ alloc' = alloc
    BY DEF LedgerInv, LinksOK, Books, InvoicePosts
  <2>2. paper'[p] = paper[p] /\ (j # i => paper'[j] = paper[j])
    BY Kinds DEF InvoicePosts
  <2>3. CASE j = i
    BY <2>1, <2>2, <2>3 DEF AllocOK, InvoicePosts
  <2>4. CASE j # i
    BY <2>1, <2>2, <2>4 DEF AllocOK
  <2>5. QED
    BY <2>3, <2>4
<1>3. ASSUME NEW g \in Fulfillments PROVE BillOK(g)'
  <2>1. BillOK(g) /\ InvoiceOf[g] \in Papers /\ paper'[g] = paper[g]
    BY Kinds, ErpAssumption DEF LedgerInv, LinksOK, InvoicePosts
  <2>2. CASE InvoiceOf[g] = i
    BY <2>1, <2>2 DEF BillOK, InvoicePosts
  <2>3. CASE InvoiceOf[g] # i
    BY <2>1, <2>3 DEF BillOK, InvoicePosts
  <2>4. QED
    BY <2>2, <2>3
<1>4. ASSUME NEW j \in Invoices PROVE SourceOK(j)'
  <2>1. SourceOK(j) /\ j \in Papers /\ paper'[j].base = paper[j].base
    BY Kinds DEF LedgerInv, LinksOK, InvoicePosts
  <2>2. \A g \in Fulfillments : paper'[g] = paper[g]
    BY Kinds DEF InvoicePosts
  <2>3. QED
    BY <2>1, <2>2 DEF SourceOK
<1>5. ASSUME NEW q \in Payments \cup Invoices PROVE (paper[q].state # "none" => Open(q) >= 0)'
  <2>1. q \in Papers /\ (paper[q].state # "none" => Open(q) >= 0)
    BY Kinds DEF LedgerInv, OpenOK
  <2>2. paper'[q] = paper[q] \/ paper'[q].settled = 0
    BY <2>1 DEF InvoicePosts
  <2>3. QED
    BY <1>1, <2>1, <2>2, OpenStays
<1>6. QED
  BY <1>2, <1>3, <1>4, <1>5 DEF LinksOK, OpenOK

\* The invoice for received goods takes back what their receipt accrued.
LEMMA InvoiceClears ==
    ASSUME LedgerInv, ErpInv', Books', NEW i \in Invoices, InvoicePosts(i),
           books'["accrued"] = books["accrued"]
              + (IF i \in Purchases /\ paper[i].base # None THEN Net(paper[i].line) ELSE 0)
    PROVE  AccruedOK'
<1>1. /\ ErpInv /\ i \in Papers /\ None \notin Fulfillments
      /\ \A g \in Fulfillments : /\ paper'[g] = paper[g] /\ InvoiceOf[g] \in Papers /\ BillOK(g)
                                 /\ g \in Purchases <=> InvoiceOf[g] \in Purchases
  BY Kinds, ErpAssumption DEF LedgerInv, LinksOK, InvoicePosts
<1>2. PICK e : e = paper[i].base
  OBVIOUS
<1>3. SourceOK(i) /\ paper[i].state = "open" /\ paper'[i].state = "posted"
      /\ \A q \in Papers \ {i} : paper'[q] = paper[q]
  BY DEF LedgerInv, LinksOK, InvoicePosts
<1>4. \A g \in Fulfillments : paper[g].state = "posted" /\ InvoiceOf[g] = i => g = e
  BY <1>1, <1>2 DEF BillOK
<1>5. \A g \in Fulfillments \ {e} :
         g \in Unbilled <=> g \in Unbilled'
  <2>1. ASSUME NEW g \in Fulfillments \ {e} PROVE g \in Unbilled <=> g \in Unbilled'
    <3>1. CASE InvoiceOf[g] = i
      <4>1. paper[g].state # "posted" /\ paper'[g].state # "posted"
        BY <1>1, <1>4, <3>1
      <4>2. QED
        BY <4>1 DEF Unbilled, Posted
    <3>2. CASE InvoiceOf[g] # i
      <4>1. paper'[g] = paper[g] /\ paper'[InvoiceOf[g]] = paper[InvoiceOf[g]]
        BY <1>1, <1>3, <3>2
      <4>2. QED
        BY <4>1 DEF Unbilled, Posted
    <3>3. QED
      BY <3>1, <3>2
  <2>2. QED
    BY <2>1
<1>6. Unbilled \subseteq Fulfillments /\ Unbilled' \subseteq Fulfillments
  BY DEF Unbilled, Posted
<1>7. Unbilled \ {e} = Unbilled' \ {e}
  BY <1>5, <1>6
<1>8. \A g \in Unbilled \ {e} : paper'[g].line = paper[g].line
  BY <1>1, <1>6
<1>9. e \notin Unbilled'
  BY <1>1, <1>2, <1>3, <1>6 DEF SourceOK, Unbilled
<1>10. e \in Unbilled <=> i \in Purchases /\ paper[i].base # None
  <2>1. ASSUME i \in Purchases, paper[i].base # None PROVE e \in Unbilled
    BY <1>1, <1>2, <1>3, <2>1 DEF SourceOK, Unbilled, Posted
  <2>2. ASSUME e \in Unbilled PROVE i \in Purchases /\ paper[i].base # None
    <3>1. e \in Fulfillments /\ e \in Purchases
      BY <2>2 DEF Unbilled, Posted
    <3>2. e # None
      BY <1>1, <3>1
    <3>3. InvoiceOf[e] = i
      BY <1>2, <1>3, <3>2 DEF SourceOK
    <3>4. QED
      BY <1>1, <1>2, <3>1, <3>2, <3>3
  <2>3. QED
    BY <2>1, <2>2
<1>11. e \in Unbilled => paper[e].line = paper[i].line
  <2>1. ASSUME e \in Unbilled PROVE paper[e].line = paper[i].line
    <3>1. e \in Fulfillments /\ paper[e].state = "posted"
      BY <2>1 DEF Unbilled, Posted
    <3>2. InvoiceOf[e] = i
      BY <1>1, <1>2, <1>3, <3>1 DEF SourceOK
    <3>3. QED
      BY <1>1, <3>1, <3>2 DEF BillOK
  <2>2. QED
    BY <2>1
<1>12. PICK before \in Int : before = SumFunction([g \in Unbilled |-> Net(paper[g].line)])
  BY <1>1, <1>7, <1>8, UnbilledMoves
<1>13. PICK after : after = SumFunction([g \in Unbilled |-> Net(paper[g].line)])'
  OBVIOUS
<1>14. after = before - UnbilledPart(e) + UnbilledPart(e)'
  BY <1>1, <1>7, <1>8, <1>12, <1>13, UnbilledMoves
<1>15. PICK gone \in Nat :
          gone = IF i \in Purchases /\ paper[i].base # None THEN Net(paper[i].line) ELSE 0
  <2>1. Net(paper[i].line) \in Nat
    BY <1>1, <1>3, RowTypes
  <2>2. QED
    BY <2>1
<1>16. UnbilledPart(e) = gone /\ UnbilledPart(e)' = 0
  BY <1>9, <1>10, <1>11, <1>15 DEF UnbilledPart
<1>17. books["accrued"] = -before
  BY <1>12 DEF LedgerInv, AccruedOK
<1>18. books'["accrued"] = books["accrued"] + gone
  BY <1>15
<1>19. books'["accrued"] = -after
  BY <1>12, <1>14, <1>15, <1>16, <1>17, <1>18
<1>20. QED
  BY <1>13, <1>19 DEF AccruedOK

LEMMA InvoiceKeeps ==
    ASSUME LedgerInv, ErpInv', Books', NEW i \in Invoices, postFinancialInvoice(i)
    PROVE  LedgerInv'
<1>1. ErpInv /\ Books /\ i \in Papers
  BY Kinds DEF LedgerInv
<1>2. InvoicePosts(i)
  BY <1>1, InvoiceRows
<1>3. PICK line \in Lines : line = paper[i].line
  BY <1>1, <1>2, RowTypes DEF InvoicePosts
<1>4. PICK total \in Nat : total = Total(line)
  BY TotalIsNat
<1>5. postJournal(InvoiceEntry(i))
  BY Zenon DEF postFinancialInvoice
<1>6. /\ books'["inventory"] = books["inventory"] /\ books'["cash"] = books["cash"]
      /\ books'["payable"] = books["payable"] + (IF i \in Purchases THEN -total ELSE 0)
      /\ books'["receivable"] = books["receivable"] + (IF i \in Purchases THEN 0 ELSE total)
      /\ books'["accrued"] = books["accrued"]
            + (IF i \in Purchases /\ paper[i].base # None THEN Net(line) ELSE 0)
  <2>1. PICK entry : entry = InvoiceEntry(i)
    OBVIOUS
  <2>2. /\ entry["inventory"] = 0 /\ entry["cash"] = 0
        /\ entry["payable"] = IF i \in Purchases THEN -total ELSE 0
        /\ entry["receivable"] = IF i \in Purchases THEN 0 ELSE total
        /\ entry["accrued"] = IF i \in Purchases /\ paper[i].base # None THEN Net(line) ELSE 0
    BY <1>1, <1>3, <1>4, <2>1, InvoiceEntryValues
  <2>3. \A a \in {"inventory", "cash", "payable", "receivable", "accrued"} :
           books'[a] = books[a] + entry[a] /\ books[a] \in Int
    BY <1>1, <1>5, <2>1, BooksMove DEF Accounts, Books
  <2>4. QED
    BY <2>2, <2>3
<1>7. LinksOK' /\ OpenOK'
  BY <1>2, InvoiceLinks
<1>8. AccruedOK'
  BY <1>2, <1>3, <1>6, InvoiceClears
<1>9. /\ \A q \in Papers \ {i} : Aside(q)
      /\ paper'[i].settled = paper[i].settled
      /\ stock' = stock /\ alloc' = alloc
  BY <1>2 DEF InvoicePosts, Aside
<1>10. InventoryOK' /\ WorthOK'
  BY <1>6, <1>9 DEF LedgerInv, InventoryOK, WorthOK
<1>11. SettledOK'
  <2>1. \A q \in Papers : paper'[q].settled = paper[q].settled
    BY <1>9 DEF Aside
  <2>2. QED
    BY <1>9, <2>1, Kinds DEF LedgerInv, SettledOK
<1>12. CashOK'
  <2>1. /\ Payments \ Purchases \in SUBSET Papers /\ Payments \cap Purchases \in SUBSET Papers
        /\ i \notin Payments
    BY Kinds
  <2>2. SettledSum(Payments \ Purchases)' = SettledSum(Payments \ Purchases)
    BY <1>9, <2>1, SameSums
  <2>3. SettledSum(Payments \cap Purchases)' = SettledSum(Payments \cap Purchases)
    BY <1>9, <2>1, SameSums
  <2>4. QED
    BY <1>6, <2>2, <2>3 DEF LedgerInv, CashOK
<1>13. QuantityOK'
  <2>1. /\ Movements \cap Purchases \in SUBSET Papers /\ Movements \ Purchases \in SUBSET Papers
        /\ i \notin Movements
    BY Kinds DEF Movements
  <2>2. \A e : Moved(Movements \cap Purchases, e)' = Moved(Movements \cap Purchases, e)
    BY <1>9, <2>1, SameSums
  <2>3. \A e : Moved(Movements \ Purchases, e)' = Moved(Movements \ Purchases, e)
    BY <1>9, <2>1, SameSums
  <2>4. QED
    BY <1>9, <2>2, <2>3 DEF LedgerInv, QuantityOK
<1>14. OpenBalancesOK'
  <2>1. ASSUME NEW S \in SUBSET Papers
        PROVE  OpenSum(S) \in Int /\ OpenSum(S)' = OpenSum(S) + (IF i \in S THEN total ELSE 0)
    <3>1. /\ OpenSum(S) \in Int
          /\ OpenSum(S)' = OpenSum(S) - OpenPart(S, i) + OpenPart(S, i)'
      BY <1>1, <1>9, OpenSumMoves
    <3>2. OpenPart(S, i) = 0
      BY <1>2 DEF InvoicePosts, OpenPart, Posted
    <3>3. i \in S => Open(i)' = total - 0
      BY <1>2, <1>3, <1>4 DEF InvoicePosts, Open, Total, Net, Tax
    <3>4. OpenPart(S, i)' = IF i \in S THEN total ELSE 0
      BY <1>2, <3>3 DEF InvoicePosts, OpenPart, Posted
    <3>5. QED
      BY <3>1, <3>2, <3>4
  <2>2. /\ OpenSum(Invoices \ Purchases) \in Int
        /\ OpenSum(Invoices \ Purchases)'
              = OpenSum(Invoices \ Purchases) + (IF i \in Purchases THEN 0 ELSE total)
    <3>1. Invoices \ Purchases \in SUBSET Papers
      BY Kinds
    <3>2. QED
      BY <2>1, <3>1
  <2>3. /\ OpenSum(Invoices \cap Purchases) \in Int
        /\ OpenSum(Invoices \cap Purchases)'
              = OpenSum(Invoices \cap Purchases) + (IF i \in Purchases THEN total ELSE 0)
    <3>1. Invoices \cap Purchases \in SUBSET Papers
      BY Kinds
    <3>2. QED
      BY <2>1, <3>1
  <2>4. PICK x \in Int, y \in Int : /\ x = OpenSum(Invoices \ Purchases)
                                    /\ y = OpenSum(Invoices \cap Purchases)
    BY <2>2, <2>3
  <2>5. books["receivable"] = x /\ books["payable"] = -y
    BY <2>4 DEF LedgerInv, OpenBalancesOK
  <2>6. /\ books'["receivable"] = OpenSum(Invoices \ Purchases)'
        /\ books'["payable"] = -OpenSum(Invoices \cap Purchases)'
    BY <1>6, <2>2, <2>3, <2>4, <2>5
  <2>7. QED
    BY <2>6 DEF OpenBalancesOK
<1>15. QED
  BY <1>7, <1>8, <1>10, <1>11, <1>12, <1>13, <1>14 DEF LedgerInv

\* The rows after part of a payment was allocated.
AllocationRecords(p, i, amount) ==
    /\ paper[p].state = "open" /\ paper'[p].state = "open"
    /\ paper[i].state = "posted" /\ paper'[i].state = "posted"
    /\ paper[p].partner \in {None, paper[i].partner}
    /\ paper'[p].partner = paper[i].partner /\ paper'[i].partner = paper[i].partner
    /\ paper'[p].settled = paper[p].settled + amount
    /\ paper'[i].settled = paper[i].settled + amount
    /\ paper'[p].line = paper[p].line /\ paper'[i].line = paper[i].line
    /\ paper'[i].base = paper[i].base
    /\ \A q \in Papers \ {p, i} : paper'[q] = paper[q]
    /\ amount <= Open(p) /\ amount <= Open(i)
    /\ alloc'[<<p, i>>] = alloc[<<p, i>>] + amount
    /\ \A qj \in Payments \X Invoices : qj # <<p, i>> => alloc'[qj] = alloc[qj]
    /\ UNCHANGED stock

LEMMA AllocationRows ==
    ASSUME ErpInv, Books, NEW p \in Payments, NEW i \in Invoices, NEW amount \in Nat,
           allocatePayment(p, i, amount)
    PROVE  AllocationRecords(p, i, amount)
<1>1. /\ p \in Papers /\ i \in Papers /\ p # i
      /\ paper[p] \in PaperRows /\ paper[i] \in PaperRows /\ paper \in [Papers -> PaperRows]
      /\ paper[p].settled \in Nat /\ paper[i].settled \in Nat
  BY Kinds, Settled DEF ErpInv
<1>2. /\ paper[p].state = "open" /\ paper[i].state = "posted"
      /\ paper[p].partner \in {None, paper[i].partner}
      /\ amount <= Open(p) /\ amount <= Open(i)
      /\ alloc' = [alloc EXCEPT ![<<p, i>>] = @ + amount]
      /\ paper' = [paper EXCEPT ![i].settled = @ + amount,
                                ![p].settled = @ + amount, ![p].partner = paper[i].partner]
      /\ UNCHANGED stock
  BY Zenon DEF allocatePayment
<1>3. PICK paid : paid = [paper[i] EXCEPT !.settled = paper[i].settled + amount]
  OBVIOUS
<1>4. PICK used : used = [paper[p] EXCEPT !.settled = paper[p].settled + amount,
                                          !.partner = paper[i].partner]
  OBVIOUS
<1>5. /\ paid.settled = paper[i].settled + amount /\ paid.state = paper[i].state
      /\ paid.line = paper[i].line /\ paid.base = paper[i].base
      /\ paid.partner = paper[i].partner
      /\ used.settled = paper[p].settled + amount /\ used.state = paper[p].state
      /\ used.line = paper[p].line /\ used.partner = paper[i].partner
  BY <1>1, <1>3, <1>4 DEF PaperRows
<1>6. paper' = [paper EXCEPT ![i] = paid, ![p] = used]
  BY <1>1, <1>2, <1>3, <1>4 DEF PaperRows
<1>7. /\ paper'[p] = used /\ paper'[i] = paid
      /\ \A q \in Papers \ {p, i} : paper'[q] = paper[q]
  BY <1>1, <1>6
<1>8. /\ alloc'[<<p, i>>] = alloc[<<p, i>>] + amount
      /\ \A qj \in Payments \X Invoices : qj # <<p, i>> => alloc'[qj] = alloc[qj]
  <2>1. PICK pi \in Payments \X Invoices : pi = <<p, i>>
    OBVIOUS
  <2>2. alloc' = [alloc EXCEPT ![pi] = alloc[pi] + amount]
    BY <1>2, <2>1
  <2>3. /\ alloc'[pi] = alloc[pi] + amount
        /\ \A qj \in Payments \X Invoices : qj # pi => alloc'[qj] = alloc[qj]
    BY <2>2 DEF Books
  <2>4. QED
    BY <2>1, <2>3
<1>9. QED
  BY <1>2, <1>5, <1>7, <1>8 DEF AllocationRecords

LEMMA AllocationLinks ==
    ASSUME LedgerInv, ErpInv', Books', NEW p \in Payments, NEW i \in Invoices,
           NEW amount \in Nat, AllocationRecords(p, i, amount)
    PROVE  LinksOK'
<1>1. /\ ErpInv /\ Books /\ p \in Papers /\ i \in Papers /\ p # i /\ p \notin Fulfillments
      /\ i \notin Fulfillments /\ PaperOK(p)
      /\ paper[p].settled \in Nat /\ paper[i].settled \in Nat
  BY Kinds, Settled DEF LedgerInv, ErpInv
<1>2. ASSUME NEW q \in Payments, NEW j \in Invoices PROVE AllocOK(q, j)'
  <2>1. /\ AllocOK(q, j) /\ q \in Papers /\ j \in Papers /\ q # i /\ j # p
        /\ <<q, j>> \in Payments \X Invoices
        /\ paper[q].settled \in Nat /\ paper[j].settled \in Nat
    BY <1>1, Kinds, Settled DEF LedgerInv, LinksOK
  <2>2. PICK a \in Nat, b \in Nat : a = alloc[<<q, j>>] /\ b = alloc'[<<q, j>>]
    BY <2>1 DEF Books, LedgerInv
  <2>3. /\ a <= paper[q].settled /\ a <= paper[j].settled
        /\ a > 0 => paper[j].state = "posted" /\ paper[q].partner = paper[j].partner
    BY <2>1, <2>2 DEF AllocOK
  <2>4. /\ b = IF q = p /\ j = i THEN a + amount ELSE a
    <3>1. CASE q = p /\ j = i
      BY <2>2, <3>1 DEF AllocationRecords
    <3>2. CASE ~(q = p /\ j = i)
      <4>1. <<q, j>> # <<p, i>>
        BY <3>2
      <4>2. QED
        BY <2>1, <2>2, <3>2, <4>1 DEF AllocationRecords
    <3>3. QED
      BY <3>1, <3>2
  <2>5. /\ paper'[q].settled = IF q = p THEN paper[q].settled + amount ELSE paper[q].settled
        /\ paper'[j].settled = IF j = i THEN paper[j].settled + amount ELSE paper[j].settled
    BY <2>1 DEF AllocationRecords
  <2>6. b <= paper'[q].settled /\ b <= paper'[j].settled
    BY <2>1, <2>3, <2>4, <2>5
  <2>7. ASSUME b > 0 PROVE paper'[j].state = "posted" /\ paper'[q].partner = paper'[j].partner
    <3>1. paper'[j].state = paper[j].state /\ paper'[j].partner = paper[j].partner
      BY <2>1 DEF AllocationRecords
    <3>2. CASE q = p /\ j = i
      BY <3>1, <3>2 DEF AllocationRecords
    <3>3. CASE q = p /\ j # i
      <4>1. a > 0
        BY <2>4, <2>7, <3>3
      <4>2. paper[p].settled > 0 /\ paper[j].state = "posted" /\ paper[p].partner = paper[j].partner
        BY <2>3, <3>3, <4>1, <1>1
      <4>3. paper[p].partner # None
        BY <1>1, <4>2 DEF PaperOK
      <4>4. paper[p].partner = paper[i].partner /\ paper'[p].partner = paper[i].partner
        BY <4>3 DEF AllocationRecords
      <4>5. QED
        BY <3>1, <3>3, <4>2, <4>4
    <3>4. CASE q # p
      <4>1. a > 0 /\ paper'[q] = paper[q]
        BY <2>1, <2>4, <2>7, <3>4 DEF AllocationRecords
      <4>2. QED
        BY <2>3, <3>1, <4>1
    <3>5. QED
      BY <3>2, <3>3, <3>4
  <2>8. QED
    BY <2>2, <2>6, <2>7 DEF AllocOK
<1>3. \A q \in Fulfillments : paper'[q] = paper[q]
  BY <1>1, Kinds DEF AllocationRecords
<1>4. \A j \in Invoices : /\ paper'[j].state = paper[j].state /\ paper'[j].line = paper[j].line
                          /\ paper'[j].base = paper[j].base
  BY Kinds DEF AllocationRecords
<1>5. ASSUME NEW g \in Fulfillments PROVE BillOK(g)'
  <2>1. BillOK(g) /\ InvoiceOf[g] \in Invoices
    BY ErpAssumption DEF LedgerInv, LinksOK
  <2>2. QED
    BY <1>3, <1>4, <2>1 DEF BillOK
<1>6. ASSUME NEW j \in Invoices PROVE SourceOK(j)'
  <2>1. SourceOK(j)
    BY DEF LedgerInv, LinksOK
  <2>2. QED
    BY <1>3, <1>4, <2>1 DEF SourceOK
<1>7. QED
  BY <1>2, <1>5, <1>6 DEF LinksOK

\* The lines of the payment and those on the invoice grow by the same amount.
LEMMA AllocationSettles ==
    ASSUME LedgerInv, ErpInv', Books', NEW p \in Payments, NEW i \in Invoices,
           NEW amount \in Nat, AllocationRecords(p, i, amount)
    PROVE  SettledOK'
<1>1. /\ IsFiniteSet(Payments) /\ IsFiniteSet(Invoices)
      /\ alloc \in [Payments \X Invoices -> Nat] /\ alloc' \in [Payments \X Invoices -> Nat]
      /\ p # i /\ p \notin Invoices /\ i \notin Payments
  BY Kinds, PostedIsFinite DEF LedgerInv, Books
<1>2. \A q \in Payments, j \in Invoices :
         /\ alloc[<<q, j>>] \in Int /\ alloc'[<<q, j>>] \in Int
         /\ (q # p \/ j # i) => alloc'[<<q, j>>] = alloc[<<q, j>>]
  <2>1. ASSUME NEW q \in Payments, NEW j \in Invoices
        PROVE  /\ alloc[<<q, j>>] \in Int /\ alloc'[<<q, j>>] \in Int
               /\ (q # p \/ j # i) => alloc'[<<q, j>>] = alloc[<<q, j>>]
    <3>1. <<q, j>> \in Payments \X Invoices
      OBVIOUS
    <3>2. alloc[<<q, j>>] \in Int /\ alloc'[<<q, j>>] \in Int
      BY <1>1, <3>1
    <3>3. ASSUME q # p \/ j # i PROVE alloc'[<<q, j>>] = alloc[<<q, j>>]
      <4>1. <<q, j>> # <<p, i>>
        BY <3>3
      <4>2. QED
        BY <3>1, <4>1 DEF AllocationRecords
    <3>4. QED
      BY <3>2, <3>3
  <2>2. QED
    BY <2>1
<1>3. ASSUME NEW q \in Payments
      PROVE  paper'[q].settled = SumFunction([j \in Invoices |-> alloc'[<<q, j>>]])
  <2>1. PICK f, g : f = [j \in Invoices |-> alloc[<<q, j>>]] /\ g = [j \in Invoices |-> alloc'[<<q, j>>]]
    OBVIOUS
  <2>2. /\ DOMAIN f = Invoices /\ DOMAIN g = Invoices
        /\ \A j \in Invoices : f[j] = alloc[<<q, j>>] /\ g[j] = alloc'[<<q, j>>]
    BY <2>1
  <2>3. paper[q].settled = SumFunction(f)
    BY <2>1 DEF LedgerInv, SettledOK
  <2>4. /\ SumFunction(f) \in Int
        /\ SumFunction(g) = SumFunction(f) - (IF i \in DOMAIN f THEN f[i] ELSE 0)
                                           + (IF i \in DOMAIN g THEN g[i] ELSE 0)
    <3>1. /\ IsFiniteSet(DOMAIN f) /\ (DOMAIN f) \ {i} = (DOMAIN g) \ {i}
          /\ (\A x \in DOMAIN f : f[x] \in Int) /\ (\A x \in DOMAIN g : g[x] \in Int)
          /\ \A x \in (DOMAIN f) \ {i} : f[x] = g[x]
      BY <1>1, <1>2, <2>2
    <3>2. QED
      BY <3>1, SumMoves, Zenon
  <2>5. PICK a \in Int, b \in Int : a = alloc[<<q, i>>] /\ b = alloc'[<<q, i>>]
    BY <1>2
  <2>6. SumFunction(g) = SumFunction(f) - a + b
    BY <2>2, <2>4, <2>5
  <2>7. CASE q = p
    <3>1. b = a + amount /\ paper'[q].settled = paper[q].settled + amount
      BY <2>5, <2>7 DEF AllocationRecords
    <3>2. QED
      BY <2>1, <2>3, <2>4, <2>5, <2>6, <3>1
  <2>8. CASE q # p
    <3>1. b = a /\ paper'[q] = paper[q]
      BY <1>1, <1>2, <2>5, <2>8, Kinds DEF AllocationRecords
    <3>2. QED
      BY <2>1, <2>3, <2>4, <2>5, <2>6, <3>1
  <2>9. QED
    BY <2>7, <2>8
<1>4. ASSUME NEW j \in Invoices
      PROVE  paper'[j].settled = SumFunction([q \in Payments |-> alloc'[<<q, j>>]])
  <2>1. PICK f, g : f = [q \in Payments |-> alloc[<<q, j>>]] /\ g = [q \in Payments |-> alloc'[<<q, j>>]]
    OBVIOUS
  <2>2. /\ DOMAIN f = Payments /\ DOMAIN g = Payments
        /\ \A q \in Payments : f[q] = alloc[<<q, j>>] /\ g[q] = alloc'[<<q, j>>]
    BY <2>1
  <2>3. paper[j].settled = SumFunction(f)
    BY <2>1 DEF LedgerInv, SettledOK
  <2>4. /\ SumFunction(f) \in Int
        /\ SumFunction(g) = SumFunction(f) - (IF p \in DOMAIN f THEN f[p] ELSE 0)
                                           + (IF p \in DOMAIN g THEN g[p] ELSE 0)
    <3>1. /\ IsFiniteSet(DOMAIN f) /\ (DOMAIN f) \ {p} = (DOMAIN g) \ {p}
          /\ (\A x \in DOMAIN f : f[x] \in Int) /\ (\A x \in DOMAIN g : g[x] \in Int)
          /\ \A x \in (DOMAIN f) \ {p} : f[x] = g[x]
      BY <1>1, <1>2, <2>2
    <3>2. QED
      BY <3>1, SumMoves, Zenon
  <2>5. PICK a \in Int, b \in Int : a = alloc[<<p, j>>] /\ b = alloc'[<<p, j>>]
    BY <1>2
  <2>6. SumFunction(g) = SumFunction(f) - a + b
    BY <2>2, <2>4, <2>5
  <2>7. CASE j = i
    <3>1. b = a + amount /\ paper'[j].settled = paper[j].settled + amount
      BY <2>5, <2>7 DEF AllocationRecords
    <3>2. QED
      BY <2>1, <2>3, <2>4, <2>5, <2>6, <3>1
  <2>8. CASE j # i
    <3>1. b = a /\ paper'[j] = paper[j]
      BY <1>1, <1>2, <2>5, <2>8, Kinds DEF AllocationRecords
    <3>2. QED
      BY <2>1, <2>3, <2>4, <2>5, <2>6, <3>1
  <2>9. QED
    BY <2>7, <2>8
<1>5. QED
  BY <1>3, <1>4 DEF SettledOK

LEMMA AllocationKeeps ==
    ASSUME LedgerInv, ErpInv', Books', NEW p \in Payments, NEW i \in Invoices,
           NEW amount \in Nat, allocatePayment(p, i, amount)
    PROVE  LedgerInv'
<1>1. /\ ErpInv /\ Books /\ p \in Papers /\ i \in Papers /\ p # i
      /\ p \notin Invoices /\ i \notin Payments
      /\ paper[p].settled \in Nat /\ paper[i].settled \in Nat
  BY Kinds, Settled DEF LedgerInv
<1>2. AllocationRecords(p, i, amount)
  BY <1>1, AllocationRows
<1>3. LinksOK' /\ SettledOK'
  BY <1>2, AllocationLinks, AllocationSettles
<1>4. /\ \A q \in Papers \ {p, i} : Aside(q)
      /\ stock' = stock
  BY <1>2 DEF AllocationRecords, Aside
<1>5. /\ Open(p) \in Int /\ Open(p)' = Open(p) - amount
      /\ Open(i) \in Int /\ Open(i)' = Open(i) - amount
  <2>1. ASSUME NEW q \in {p, i} PROVE Open(q) \in Int /\ Open(q)' = Open(q) - amount
    <3>1. /\ q \in Papers /\ paper[q].state # "none"
          /\ paper'[q].line = paper[q].line /\ paper'[q].settled = paper[q].settled + amount
      BY <1>1, <1>2 DEF AllocationRecords
    <3>2. Total(paper[q].line) \in Int /\ Open(q) \in Int /\ paper[q].settled \in Nat
      BY <1>1, <3>1, RowTypes
    <3>3. PICK t \in Int, s \in Nat : t = Total(paper[q].line) /\ s = paper[q].settled
      BY <3>2
    <3>4. Open(q) = t - s /\ Open(q)' = t - (s + amount)
      BY <3>1, <3>3 DEF Open, Total, Net, Tax
    <3>5. QED
      BY <3>3, <3>4
  <2>2. QED
    BY <2>1
<1>6. OpenOK'
  <2>1. ASSUME NEW q \in Payments \cup Invoices PROVE (paper[q].state # "none" => Open(q) >= 0)'
    <3>1. CASE q \in {p, i}
      BY <1>2, <1>5, <3>1 DEF AllocationRecords
    <3>2. CASE q \notin {p, i}
      <4>1. q \in Papers /\ paper'[q] = paper[q] /\ (paper[q].state # "none" => Open(q) >= 0)
        BY <1>2, <3>2, Kinds DEF AllocationRecords, LedgerInv, OpenOK
      <4>2. QED
        BY <1>1, <4>1, OpenStays
    <3>3. QED
      BY <3>1, <3>2
  <2>2. QED
    BY <2>1 DEF OpenOK
<1>7. /\ books \in [Accounts -> Int] /\ (p \in Purchases <=> i \in Purchases)
      /\ books'["inventory"] = books["inventory"] /\ books'["accrued"] = books["accrued"]
      /\ books'["payable"] = books["payable"] + (IF p \in Purchases THEN amount ELSE 0)
      /\ books'["receivable"] = books["receivable"] - (IF p \in Purchases THEN 0 ELSE amount)
      /\ books'["cash"] = books["cash"] + (IF p \in Purchases THEN -amount ELSE amount)
  <2>1. /\ p \in Purchases <=> i \in Purchases
        /\ postJournal(IF p \in Purchases THEN Entry("payable", "cash", amount)
                                          ELSE Entry("cash", "receivable", amount))
    BY Zenon DEF allocatePayment
  <2>2. /\ books \in [Accounts -> Int] /\ amount \in Int
        /\ "cash" \in Accounts /\ "receivable" \in Accounts /\ "payable" \in Accounts
        /\ "inventory" \in Accounts /\ "accrued" \in Accounts
    <3>1. books \in [Accounts -> Int]
      BY <1>1 DEF Books
    <3>2. /\ "cash" \in Accounts /\ "receivable" \in Accounts /\ "payable" \in Accounts
          /\ "inventory" \in Accounts /\ "accrued" \in Accounts
      BY DEF Accounts
    <3>3. QED
      BY <3>1, <3>2
  <2>3. CASE p \in Purchases
    <3>1. /\ books'["payable"] = books["payable"] + amount
          /\ books'["cash"] = books["cash"] - amount
          /\ \A a \in Accounts : a # "payable" /\ a # "cash" => books'[a] = books[a]
      BY <2>1, <2>2, <2>3, BooksMoveBy
    <3>2. QED
      BY <2>1, <2>2, <2>3, <3>1
  <2>4. CASE p \notin Purchases
    <3>1. /\ books'["cash"] = books["cash"] + amount
          /\ books'["receivable"] = books["receivable"] - amount
          /\ \A a \in Accounts : a # "cash" /\ a # "receivable" => books'[a] = books[a]
      BY <2>1, <2>2, <2>4, BooksMoveBy
    <3>2. QED
      BY <2>1, <2>2, <2>4, <3>1
  <2>5. QED
    BY <2>3, <2>4
<1>8. InventoryOK' /\ WorthOK'
  BY <1>4, <1>7 DEF LedgerInv, InventoryOK, WorthOK
<1>9. AccruedOK'
  <2>1. \A g \in Fulfillments : paper'[g] = paper[g] /\ InvoiceOf[g] \in Invoices
    BY <1>2, Kinds, ErpAssumption DEF AllocationRecords
  <2>2. \A j \in Invoices : paper'[j].state = paper[j].state
    BY <1>2, Kinds DEF AllocationRecords
  <2>3. Unbilled' = Unbilled /\ Unbilled \subseteq Fulfillments
    BY <2>1, <2>2 DEF Unbilled, Posted
  <2>4. [g \in Unbilled |-> Net(paper[g].line)]' = [g \in Unbilled |-> Net(paper[g].line)]
    BY <2>1, <2>3 DEF Net
  <2>5. QED
    BY <1>7, <2>4 DEF LedgerInv, AccruedOK
<1>10. QuantityOK'
  <2>1. /\ Movements \cap Purchases \in SUBSET Papers /\ Movements \ Purchases \in SUBSET Papers
        /\ p \notin Movements /\ i \notin Movements
    BY Kinds DEF Movements
  <2>2. \A e : Moved(Movements \cap Purchases, e)' = Moved(Movements \cap Purchases, e)
    BY <1>4, <2>1, SameSums
  <2>3. \A e : Moved(Movements \ Purchases, e)' = Moved(Movements \ Purchases, e)
    BY <1>4, <2>1, SameSums
  <2>4. QED
    BY <1>4, <2>2, <2>3 DEF LedgerInv, QuantityOK
<1>11. OpenBalancesOK'
  <2>1. ASSUME NEW S \in SUBSET Papers, S \subseteq Invoices
        PROVE  OpenSum(S) \in Int /\ OpenSum(S)' = OpenSum(S) - (IF i \in S THEN amount ELSE 0)
    <3>1. \A q \in S \ {i} : Aside(q)
      BY <1>1, <1>4, <2>1
    <3>2. /\ OpenSum(S) \in Int
          /\ OpenSum(S)' = OpenSum(S) - OpenPart(S, i) + OpenPart(S, i)'
      BY <1>1, <3>1, OpenSumMoves
    <3>3. /\ OpenPart(S, i) = IF i \in S THEN Open(i) ELSE 0
          /\ OpenPart(S, i)' = IF i \in S THEN Open(i) - amount ELSE 0
      BY <1>2, <1>5 DEF AllocationRecords, OpenPart, Posted
    <3>4. QED
      BY <1>5, <3>2, <3>3
  <2>2. /\ OpenSum(Invoices \ Purchases) \in Int
        /\ OpenSum(Invoices \ Purchases)'
              = OpenSum(Invoices \ Purchases) - (IF p \in Purchases THEN 0 ELSE amount)
    <3>1. Invoices \ Purchases \in SUBSET Papers /\ Invoices \ Purchases \subseteq Invoices
      BY Kinds
    <3>2. QED
      BY <1>7, <2>1, <3>1
  <2>3. /\ OpenSum(Invoices \cap Purchases) \in Int
        /\ OpenSum(Invoices \cap Purchases)'
              = OpenSum(Invoices \cap Purchases) - (IF p \in Purchases THEN amount ELSE 0)
    <3>1. Invoices \cap Purchases \in SUBSET Papers /\ Invoices \cap Purchases \subseteq Invoices
      BY Kinds
    <3>2. QED
      BY <1>7, <2>1, <3>1
  <2>4. PICK x \in Int, y \in Int : /\ x = OpenSum(Invoices \ Purchases)
                                    /\ y = OpenSum(Invoices \cap Purchases)
    BY <2>2, <2>3
  <2>5. books["receivable"] = x /\ books["payable"] = -y
    BY <2>4 DEF LedgerInv, OpenBalancesOK
  <2>6. /\ books'["receivable"] = OpenSum(Invoices \ Purchases)'
        /\ books'["payable"] = -OpenSum(Invoices \cap Purchases)'
    BY <1>7, <2>2, <2>3, <2>4, <2>5
  <2>7. QED
    BY <2>6 DEF OpenBalancesOK
<1>12. CashOK'
  <2>1. ASSUME NEW S \in SUBSET Papers, S \subseteq Payments
        PROVE  SettledSum(S) \in Int /\ SettledSum(S)' = SettledSum(S) + (IF p \in S THEN amount ELSE 0)
    <3>1. \A q \in S \ {p} : Aside(q)
      BY <1>1, <1>4, <2>1
    <3>2. /\ SettledSum(S) \in Int
          /\ SettledSum(S)' = SettledSum(S) - SettledPart(S, p) + SettledPart(S, p)'
      BY <1>1, <3>1, SettledSumMoves
    <3>3. /\ SettledPart(S, p) = IF p \in S THEN paper[p].settled ELSE 0
          /\ SettledPart(S, p)' = IF p \in S THEN paper[p].settled + amount ELSE 0
      BY <1>2 DEF AllocationRecords, SettledPart
    <3>4. QED
      BY <1>1, <3>2, <3>3
  <2>2. /\ SettledSum(Payments \ Purchases) \in Int
        /\ SettledSum(Payments \ Purchases)'
              = SettledSum(Payments \ Purchases) + (IF p \in Purchases THEN 0 ELSE amount)
    <3>1. Payments \ Purchases \in SUBSET Papers /\ Payments \ Purchases \subseteq Payments
      BY Kinds
    <3>2. QED
      BY <2>1, <3>1
  <2>3. /\ SettledSum(Payments \cap Purchases) \in Int
        /\ SettledSum(Payments \cap Purchases)'
              = SettledSum(Payments \cap Purchases) + (IF p \in Purchases THEN amount ELSE 0)
    <3>1. Payments \cap Purchases \in SUBSET Papers /\ Payments \cap Purchases \subseteq Payments
      BY Kinds
    <3>2. QED
      BY <2>1, <3>1
  <2>4. PICK x \in Int, y \in Int : /\ x = SettledSum(Payments \ Purchases)
                                    /\ y = SettledSum(Payments \cap Purchases)
    BY <2>2, <2>3
  <2>5. books["cash"] = x - y
    BY <2>4 DEF LedgerInv, CashOK
  <2>6. books'["cash"] = SettledSum(Payments \ Purchases)' - SettledSum(Payments \cap Purchases)'
    BY <1>7, <2>2, <2>3, <2>4, <2>5
  <2>7. QED
    BY <2>6 DEF CashOK
<1>13. QED
  BY <1>3, <1>6, <1>8, <1>9, <1>10, <1>11, <1>12 DEF LedgerInv

LEMMA LedgerStep == LedgerInv /\ [ErpNext]_erpVars => LedgerInv'
<1> SUFFICES ASSUME LedgerInv, [ErpNext]_erpVars PROVE LedgerInv'
  OBVIOUS
<1>1. ErpInv /\ Books
  BY DEF LedgerInv
<1>2. ErpInv' /\ Books'
  BY <1>1, ErpStepGood, BooksStep DEF GoodStep
<1>3. PlainStep => LedgerInv'
  BY <1>2, PlainKeeps
<1>4. CASE UNCHANGED erpVars
  BY <1>3, <1>4 DEF erpVars, PlainStep, PlainRow
<1>5. ASSUME NEW p \in Papers,
             \/ \E partner \in PartnersOf(p), line \in Lines : EnterDraft(p, partner, line)
             \/ DeleteDraft(p)
      PROVE  LedgerInv'
  BY <1>1, <1>3, <1>5, PlainDraft, PlainDelete
<1>6. ASSUME NEW o \in Orders,
             \/ prepareOrder(o) \/ approveOrder(o)
             \/ \E f \in Fulfillments : convertOrderToFulfillment(o, f)
      PROVE  LedgerInv'
  <2>1. CASE prepareOrder(o)
    BY <1>1, <1>3, <2>1, PlainState DEF prepareOrder, ensureEditable
  <2>2. CASE approveOrder(o)
    BY <1>1, <1>3, <2>2, PlainState DEF approveOrder
  <2>3. QED
    BY <1>1, <1>3, <1>6, <2>1, <2>2, PlainConvert
<1>7. ASSUME NEW f \in Fulfillments, approveFulfillment(f) \/ postStockFulfillment(f)
      PROVE  LedgerInv'
  <2>1. CASE approveFulfillment(f)
    BY <1>1, <1>3, <2>1, PlainState DEF approveFulfillment
  <2>2. QED
    BY <1>2, <1>7, <2>1, FulfillmentKeeps
<1>8. ASSUME NEW s \in StockPapers, postStandaloneInventory(s) PROVE LedgerInv'
  BY <1>2, <1>8, StandaloneKeeps
<1>9. ASSUME NEW i \in Invoices, postFinancialInvoice(i) PROVE LedgerInv'
  BY <1>2, <1>9, InvoiceKeeps
<1>10. ASSUME NEW p \in Payments, NEW i \in Invoices,
              NEW amount \in 1..(IF paper[i].state = "posted" THEN Open(i) ELSE 0),
              allocatePayment(p, i, amount)
       PROVE  LedgerInv'
  <2>1. amount \in Nat
    OBVIOUS
  <2>2. QED
    BY <1>2, <1>10, <2>1, AllocationKeeps
<1>11. CASE ErpNext
  BY <1>5, <1>6, <1>7, <1>8, <1>9, <1>10, <1>11 DEF ErpNext
<1>12. QED
  BY <1>4, <1>11

LEMMA LedgerInit == ErpInit => LedgerInv
<1> SUFFICES ASSUME ErpInit PROVE LedgerInv
  OBVIOUS
<1>1. /\ paper = [p \in Papers |-> Blank] /\ alloc = [pi \in Payments \X Invoices |-> 0]
      /\ stock = [i \in Items |-> [onHand |-> 0, value |-> 0]] /\ books = NoEntry
      /\ drafts = 0
  BY DEF ErpInit
<1>2. ErpInv
  BY ErpInvInit
<1>3. Books
  <2>1. NoEntry \in [Accounts -> Int] /\ 0 \in 0..MaxDrafts
    BY ErpAssumption DEF NoEntry
  <2>2. QED
    BY <1>1, <2>1 DEF Books
<1>4. /\ \A q \in Papers : /\ paper[q] = Blank /\ paper[q].state = "none"
                           /\ paper[q].base = None /\ paper[q].settled = 0
      /\ \A p \in Payments, i \in Invoices : alloc[<<p, i>>] = 0
      /\ \A i \in Items : stock[i].onHand = 0 /\ stock[i].value = 0
      /\ \A a \in Accounts : books[a] = 0
  <2>1. \A q \in Papers : paper[q] = Blank
    BY <1>1
  <2>2. ASSUME NEW p \in Payments, NEW i \in Invoices PROVE alloc[<<p, i>>] = 0
    <3>1. <<p, i>> \in Payments \X Invoices
      OBVIOUS
    <3>2. QED
      BY <1>1, <3>1
  <2>3. QED
    BY <1>1, <2>1, <2>2, BlankRow DEF NoEntry
<1>5. \A S \in SUBSET Papers : Posted(S) = {} /\ IsFiniteSet(S)
  BY <1>4, PostedIsFinite DEF Posted
<1>6. IsFiniteSet({}) /\ IsFiniteSet(Items)
  BY FS_EmptySet, ErpAssumption
<1>7. ASSUME NEW S \in SUBSET Papers
      PROVE  OpenSum(S) = 0 /\ SettledSum(S) = 0 /\ \A i : Moved(S, i) = 0
  <2>1. OpenSum(S) = 0
    <3>1. PICK f : f = [p \in Posted(S) |-> Open(p)]
      OBVIOUS
    <3>2. IsFiniteSet(DOMAIN f) /\ \A x \in DOMAIN f : f[x] = 0
      BY <1>5, <1>6, <3>1
    <3>3. QED
      BY <3>1, <3>2, SumOfZeros DEF OpenSum
  <2>2. SettledSum(S) = 0
    <3>1. PICK f : f = [p \in S |-> paper[p].settled]
      OBVIOUS
    <3>2. IsFiniteSet(DOMAIN f) /\ \A x \in DOMAIN f : f[x] = 0
      BY <1>4, <1>5, <3>1
    <3>3. QED
      BY <3>1, <3>2, SumOfZeros DEF SettledSum
  <2>3. ASSUME NEW i PROVE Moved(S, i) = 0
    <3>1. PICK f : f = [p \in {q \in Posted(S) : paper[q].line.item = i} |-> paper[p].line.qty]
      OBVIOUS
    <3>2. DOMAIN f = {}
      BY <1>5, <3>1
    <3>3. IsFiniteSet(DOMAIN f) /\ \A x \in DOMAIN f : f[x] = 0
      BY <1>6, <3>2
    <3>4. QED
      BY <3>1, <3>3, SumOfZeros DEF Moved
  <2>4. QED
    BY <2>1, <2>2, <2>3
<1>8. /\ Invoices \ Purchases \in SUBSET Papers /\ Invoices \cap Purchases \in SUBSET Papers
      /\ Payments \ Purchases \in SUBSET Papers /\ Payments \cap Purchases \in SUBSET Papers
      /\ Movements \cap Purchases \in SUBSET Papers /\ Movements \ Purchases \in SUBSET Papers
      /\ Fulfillments \cap Purchases \in SUBSET Papers
      /\ Payments \in SUBSET Papers /\ Invoices \in SUBSET Papers
  BY Kinds DEF Movements
<1>9. LinksOK
  <2>1. ASSUME NEW p \in Payments, NEW i \in Invoices PROVE AllocOK(p, i)
    BY <1>4, Kinds DEF AllocOK
  <2>2. ASSUME NEW f \in Fulfillments PROVE BillOK(f)
    BY <1>4, Kinds DEF BillOK
  <2>3. ASSUME NEW i \in Invoices PROVE SourceOK(i)
    BY <1>4, Kinds DEF SourceOK
  <2>4. QED
    BY <2>1, <2>2, <2>3 DEF LinksOK
<1>10. SettledOK
  <2>1. ASSUME NEW p \in Payments PROVE SumFunction([i \in Invoices |-> alloc[<<p, i>>]]) = 0
    <3>1. PICK f : f = [i \in Invoices |-> alloc[<<p, i>>]]
      OBVIOUS
    <3>2. IsFiniteSet(DOMAIN f) /\ \A x \in DOMAIN f : f[x] = 0
      BY <1>4, <1>5, <1>8, <3>1
    <3>3. QED
      BY <3>1, <3>2, SumOfZeros
  <2>2. ASSUME NEW i \in Invoices PROVE SumFunction([p \in Payments |-> alloc[<<p, i>>]]) = 0
    <3>1. PICK f : f = [p \in Payments |-> alloc[<<p, i>>]]
      OBVIOUS
    <3>2. IsFiniteSet(DOMAIN f) /\ \A x \in DOMAIN f : f[x] = 0
      BY <1>4, <1>5, <1>8, <3>1
    <3>3. QED
      BY <3>1, <3>2, SumOfZeros
  <2>3. QED
    BY <1>4, <2>1, <2>2, Kinds DEF SettledOK
<1>11. OpenOK
  BY <1>4, Kinds DEF OpenOK
<1>12. {"inventory", "accrued", "receivable", "payable", "cash"} \subseteq Accounts
  BY DEF Accounts
<1>13. InventoryOK
  <2>1. PICK f : f = [i \in Items |-> stock[i].value]
    OBVIOUS
  <2>2. IsFiniteSet(DOMAIN f) /\ \A x \in DOMAIN f : f[x] = 0
    BY <1>4, <1>6, <2>1
  <2>3. SumFunction(f) = 0
    BY <2>2, SumOfZeros
  <2>4. QED
    BY <1>4, <1>12, <2>1, <2>3 DEF InventoryOK
<1>14. AccruedOK
  <2>1. PICK f : f = [g \in Unbilled |-> Net(paper[g].line)]
    OBVIOUS
  <2>2. DOMAIN f = {}
    BY <1>5, <1>8, <2>1 DEF Unbilled
  <2>3. IsFiniteSet(DOMAIN f) /\ \A x \in DOMAIN f : f[x] = 0
    BY <1>6, <2>2
  <2>4. SumFunction(f) = 0
    BY <2>3, SumOfZeros
  <2>5. SumFunction([g \in Unbilled |-> Net(paper[g].line)]) = 0 /\ books["accrued"] = 0
    BY <1>4, <1>12, <2>1, <2>4
  <2>6. PICK x \in Int : x = SumFunction([g \in Unbilled |-> Net(paper[g].line)])
    BY <2>5
  <2>7. -x = 0 - x
    OBVIOUS
  <2>8. 0 - x = books["accrued"]
    BY <2>5, <2>6
  <2>9. books["accrued"] = -SumFunction([g \in Unbilled |-> Net(paper[g].line)])
    BY <2>6, <2>7, <2>8, Zenon
  <2>10. QED
    BY <2>9 DEF AccruedOK
<1>15. OpenBalancesOK /\ CashOK
  BY <1>4, <1>7, <1>8, <1>12 DEF OpenBalancesOK, CashOK
<1>16. QuantityOK /\ WorthOK
  BY <1>4, <1>7, <1>8 DEF QuantityOK, WorthOK
<1>17. QED
  BY <1>2, <1>3, <1>9, <1>10, <1>11, <1>13, <1>14, <1>15, <1>16 DEF LedgerInv

LEMMA LedgerInvHolds == ErpSpec => []LedgerInv
BY LedgerInit, LedgerStep, PTL DEF ErpSpec

\* Whatever is posted, invoiced, allocated and rounded in whatever order, the inventory,
\* receivable, payable, accrual and cash accounts equal what the stock, the invoices, the
\* receipts and the payments say, and every allocation is recorded once on both sides.
THEOREM BooksMatch == ErpSpec => []BooksMatchSubledgers
<1>1. LedgerInv => BooksMatchSubledgers
  <2> SUFFICES ASSUME LedgerInv PROVE BooksMatchSubledgers
    OBVIOUS
  <2>1. ASSUME NEW p \in Payments, NEW i \in Invoices, alloc[<<p, i>>] > 0
        PROVE  /\ paper[i].state = "posted"
               /\ \A j \in Invoices : alloc[<<p, j>>] > 0 => paper[i].partner = paper[j].partner
    BY <2>1 DEF LedgerInv, LinksOK, AllocOK
  <2>2. AllocationsAddUp
    BY <2>1 DEF AllocationsAddUp, LedgerInv, SettledOK, OpenOK
  <2>3. QED
    BY <2>2 DEF BooksMatchSubledgers, LedgerInv, InventoryOK, OpenBalancesOK, AccruedOK, CashOK
<1>2. QED
  BY <1>1, LedgerInvHolds, PTL

\* What is on hand of an item is what its posted papers brought in less what they took
\* out, it is never oversold, and no value stays behind when the last of it has left.
THEOREM StockValued == ErpSpec => []StockIsValued
<1>1. LedgerInv => StockIsValued
  <2> SUFFICES ASSUME LedgerInv, NEW i \in Items
               PROVE  /\ stock[i].onHand = Moved(Movements \cap Purchases, i)
                                              - Moved(Movements \ Purchases, i)
                      /\ stock[i].onHand >= 0 /\ stock[i].value >= 0
                      /\ stock[i].onHand = 0 => stock[i].value = 0
    BY DEF StockIsValued
  <2>1. stock[i].onHand \in Nat /\ stock[i].value \in Nat
    BY DEF LedgerInv, Books
  <2>2. QED
    BY <2>1 DEF LedgerInv, QuantityOK, WorthOK
<1>2. QED
  BY <1>1, LedgerInvHolds, PTL
===============================================================================
