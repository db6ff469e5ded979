SPECIFICATION Spec
CONSTANTS
  goods = goods
  service = service
  alice = alice
  Variants = {goods, service}
  Tracked <- MCTracked
  Registers = {r1, r2}
  Keys = {k1, k2}
  Customers = {alice}
  CreditLimit <- MCCreditLimit
  Carts <- MCCarts
  Methods = {"CASH", "UPI"}
  Payments <- MCPayments
  Baskets <- MCBaskets
  Opening <- MCOpening
  MaxRoundOff = 1
  None = None
SYMMETRY Symmetric
INVARIANTS TypeOK InvoiceReconciles ReceivableIsOutstanding CreditLimitKept
  DrawerReconciles ReturnedWithinSold FullReturnSettles KeysAppliedOnce
PROPERTY ImplementsLedger
CHECK_DEADLOCK FALSE
