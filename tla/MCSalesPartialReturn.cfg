SPECIFICATION Spec
CONSTANTS
  goods = goods
  service = service
  alice = alice
  Variants = {goods, service}
  Tracked <- MCTracked
  Registers = {r1}
  Keys = {k1, k2}
  Customers = {alice}
  CreditLimit <- MCCreditLimit
  Carts <- UnevenCarts
  Methods = {"CASH", "UPI"}
  Payments <- PortionPayments
  Baskets <- MCBaskets
  Opening <- MCOpening
  MaxRoundOff = 1
  None = None
INVARIANT PartialReturnAccepted
CHECK_DEADLOCK FALSE
