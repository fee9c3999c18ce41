\* Telecom: every composed task, and one or two calls more in tasks of one or two
\* issues.  Four tool calls of the bank, three of the shop and of the airline.
CONSTANTS
  PlayedDomains = {"telecom", "banking_knowledge", "retail", "airline"}
  Copies = {"live", "replay", "gold"}
  Managers = {"service", "mobile", "mms"}
  MaxIssues = 9
  MaxTrouble = 3
  Amounts = {15}
  CardFees = {0, 60}
  MaxBankCalls = 4
  Orders = {o1, o2}
  Price <- MCPrice
  Unavailable = {"v3"}
  GiftBalance = 25
  MaxShopCalls = 3
  Fares <- MCFares
  Seats = 3
  Party = 2
  GiftCard = 250
  CertificateAmount = 100
  MaxListed = 2
  MaxAirCalls = 3
SPECIFICATION Spec
INVARIANTS
  FixedByItsFixes
  ReplayFaithful
  AwaitingIsRequested
  TargetReachedByUser
  CardsAccountedFor
  ShopBooksBalance
  AirlineBooksBalance
PROPERTIES
  ClosedForGood
CHECK_DEADLOCK FALSE
