\* A credit card replaced before its limit is raised.
CONSTANTS
  Amounts = {15}
  CardFees = {0}
  MaxBankCalls = 2
SPECIFICATION BankingSpec
PROPERTIES
  NoRaiseWhileReplaced
CHECK_DEADLOCK FALSE
