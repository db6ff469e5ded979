SPECIFICATION Spec
CONSTANTS
  Items = {tea}
  Shelf <- TwoEach
  Methods = {cash, upi}
  WebPos = WebPos
  OtherPos = OtherPos
  MaxKeys = 3
  MaxSent = 3
  MaxDocs = 3
  None = None
SYMMETRY Symmetric
INVARIANTS TypeOK OneEffectPerIntent ReceiptIsTrue KeyNamesCart
CHECK_DEADLOCK FALSE
