\* Nothing is left to do when every draft was used and settled.
SPECIFICATION ErpSpec
CONSTANTS
    Orders <- MCOrders
    Fulfillments <- MCFulfillments
    Invoices <- MCInvoices
    Payments <- MCPayments
    StockPapers <- MCStockPapers
    Purchases <- MCPurchases
    InvoiceOf <- MCInvoiceOf
    Items = {"item"}
    Lines <- MCLines
    Partners = {p1, p2}
    None = None
    MaxDrafts = 3
SYMMETRY Symmetry
CHECK_DEADLOCK FALSE
INVARIANT ErpTypeOK
INVARIANT BooksMatchSubledgers
INVARIANT StockIsValued
INVARIANT OrderFulfilledOnce
PROPERTY BindingIsImmutable
