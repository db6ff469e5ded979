SPECIFICATION Spec
CONSTANTS
  goods = goods
  service = service
  Variants = {goods, service}
  Tracked <- MCTracked
  Suppliers = {s1, s2}
  References = {f1, f2}
  Keys = {k1, k2}
  Carts <- MCCarts
  Baskets <- MCBaskets
  Allotments = {1, 2}
  Amounts = {2}
  MaxRoundOff = 1
  MaxBills = 2
  None = None
SYMMETRY Symmetric
INVARIANTS TypeOK PayableReconciles CreditIsOverpayment ProjectionsReconcile
  FullReturnSettles AppliedOnce
PROPERTY ImplementsLedger
CHECK_DEADLOCK FALSE
