SPECIFICATION GSpec
CONSTANTS
    NoValue = NoValue  NoPolicy = NoPolicy  Unusable = Unusable
    Wildcard = Wildcard  Currency = Currency  Amount = Amount  Merchant = Merchant  Jurisdiction = Jurisdiction
    pay = pay  read = read  usd = usd  eur = eur  shop = shop  other = other
    word = word  body = body  to = to  home = home  abroad = abroad
    off = off  delete = delete  list = list  both = both  object = object
    Operand <- MCOperand
    Segment <- MCSegment
    Mandate <- MCMandate
    Action <- MCAction
    Request <- MCRequest
    Money <- MCMoney
    Leaves <- MCLeaves
    MaxDelegationDepth = 3
    NumberField <- MCNumberField
    PlainField <- MCPlainField
    ElementsOf <- MCElementsOf
    Malformed = object
    SupervisedAmountCap = 2
    Bundle <- MCBundle
    Regulated <- MCRegulated
    SignedRequest <- MCSignedRequest
    Claim <- MCClaim
    Service <- MCService
INVARIANTS
    DelegatedGrantsNoMore
    DelegatedArgumentsFit
    ScrutinyNeverFalls
    NoCurrencyNeverHelps
    OnlyIfEveryLayerPermits
    SidesAgree
    RiskIsNotTalkedDown
    DelegatedAllowsNoMore
PROPERTIES
    TighteningNeverLoosens
CHECK_DEADLOCK FALSE
