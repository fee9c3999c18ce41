\* Telecom alone, single issues: a reference trajectory and its own target.
CONSTANTS
  PlayedDomains = {"telecom"}
  Copies = {"live", "replay", "gold"}
  Managers = {"service", "mobile", "mms"}
  MaxIssues = 1
  MaxTrouble = 0
  Amounts = {15}
  CardFees = {0, 60}
  MaxBankCalls = 4
  Orders = {o1, o2}
  Price <- MCPrice
  Unavailable = {"v3"}
  GiftBalance = 25
  MaxShopCalls = 3
  Fares <- MCFares
  Seats = 3
  Party = 2
  GiftCard = 250
  CertificateAmount = 100
  MaxListed = 2
  MaxAirCalls = 3
SPECIFICATION Spec
INVARIANTS
  ReferenceReachesTarget
CHECK_DEADLOCK FALSE
