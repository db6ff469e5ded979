SPECIFICATION Spec
CONSTANTS
  goods = goods
  Variants = {goods}
  Tracked = {goods}
  Keys = {k1, k2}
  Registers = {r1}
  Customers = {}
  CreditLimit <- MCCreditLimit
  SaleCarts <- MCSaleCarts
  Methods = {"CASH"}
  Payments <- MCPayments
  SaleBaskets <- MCBaskets
  Suppliers = {s1}
  References = {f1}
  BillCarts <- MCBillCarts
  BillBaskets <- MCBaskets
  Allotments = {1}
  Amounts = {1}
  MaxRoundOff = 1
  MaxBills = 1
  Quantities = {1}
  None = None
SYMMETRY Symmetric
INVARIANT StockMatchesDocuments
PROPERTY ImplementsLedger
CHECK_DEADLOCK FALSE
