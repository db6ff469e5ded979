SPECIFICATION Spec
CONSTANTS
  goods = goods
  service = service
  alice = alice
  Variants = {goods, service}
  Tracked <- MCTracked
  Registers = {r1}
  Keys = {k1, k2, k3}
  Customers = {alice}
  CreditLimit <- MCCreditLimit
  Carts <- PortionCarts
  Methods = {"CASH", "UPI"}
  Payments <- PortionPayments
  Baskets <- MCBaskets
  Opening <- PortionOpening
  MaxRoundOff = 1
  None = None
SYMMETRY SymmetricKeys
INVARIANTS InvoiceReconciles FullReturnSettles
CHECK_DEADLOCK FALSE
