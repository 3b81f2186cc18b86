\* No request, crash or failed call gets in the way.
SPECIFICATION InvoiceFairSpec
CONSTANTS
    Invoice = {i1}
    Hook = {h1}
    Job = {j1}
    InvoiceFaults = 0
    NoInvoice = noInvoice
PROPERTIES
    PaidInvoiceServed
CHECK_DEADLOCK FALSE
