------------------------------- MODULE Banking -------------------------------
(***************************************************************************)
(* The banking domain (src/tau2/domains/banking_knowledge/tools.py): one   *)
(* customer's bank accounts, the debit cards of the checking account and a *)
(* credit card account, changed by the agent's and the user's tools in any *)
(* order.  Every tool answers with text; a tool whose checks fail changes  *)
(* nothing here, so the actions are the calls that pass.                   *)
(*                                                                         *)
(* Discoverable tools have been unlocked or given before they are called,  *)
(* which only enables them; requests name the customer's own accounts.     *)
(* Ids are hashes of what a record is about, the day included, and the day *)
(* never changes: a record is named by what it is about.                   *)
(***************************************************************************)
EXTENDS Integers, FiniteSets

CONSTANTS
  Amounts,       \* dollars that a transfer, a payment or a credit is about
  CardFees,      \* total fees of an ordered debit card
  MaxBankCalls   \* bound: tool calls of a conversation

ASSUME BankingAssumption ==
  Amounts \subseteq Nat \ {0} /\ CardFees \subseteq Nat /\ MaxBankCalls \in Nat

VARIABLES
  accounts,      \* the bank accounts
  cards,         \* the debit cards of the checking account
  debitOrders,   \* delivery options of the debit card orders: all PENDING
  posted,        \* ids in the bank's transaction history of the checking account
  credit,        \* the credit card account
  disputed,      \* a dispute of one of its transactions is SUBMITTED
  replacements,  \* statuses of the orders that replace the credit card
  requests,      \* status of the limit increase request, per increase
  unfrozen,      \* a debit card has been unfrozen
  bankCalls      \* tool calls made

bankingVars == <<accounts, cards, debitOrders, posted, credit, disputed, replacements,
                 requests, unfrozen, bankCalls>>

Types == {"checking", "savings", "business_checking"}
AccountIds == {"chk", "other"} \union Types
CardIds == <<"old", "reissued", "ordered">>   \* in the order of the table

NoCard == [status |-> "none", reason |-> "none", closure |-> "none"]
Card(status, reason) == [status |-> status, reason |-> reason, closure |-> "none"]
ActiveCards == {c \in DOMAIN cards : cards[c].status = "ACTIVE"}

\* Days since an account was opened.  The checking account is inside the window
\* of the early closure fee and holds that fee, or is old and holds more.
EarlyWindow == 30
EarlyFee == 15

BankingInit ==
  /\ \E opened \in {<<10, 15>>, <<400, 60>>} :
       accounts = [a \in AccountIds |->
         CASE a = "chk" -> [class |-> "checking", type |-> "none", status |-> "OPEN",
                            holdings |-> opened[2], dollar |-> FALSE, days |-> opened[1]]
           [] a = "other" -> [class |-> "saving", type |-> "none", status |-> "OPEN",
                              holdings |-> 0, dollar |-> FALSE, days |-> 400]
           [] OTHER -> [class |-> "none", type |-> a, status |-> "none",
                        holdings |-> 0, dollar |-> FALSE, days |-> 0]]
  /\ \E old \in {NoCard, Card("ACTIVE", "new_account")},
        reissued \in {NoCard, Card("PENDING", "expired"), Card("PENDING", "stolen")} :
       cards = [c \in {"old", "reissued", "ordered"} |->
                 CASE c = "old" -> old [] c = "reissued" -> reissued [] OTHER -> NoCard]
  /\ debitOrders = {} /\ posted = {}
  /\ credit = [status |-> "ACTIVE", debt |-> 15, limit |-> 1]
  /\ disputed = FALSE
  /\ replacements \in {{}, {"PENDING"}}
  /\ requests = [i \in -1..1 |-> "none"]
  /\ unfrozen = FALSE /\ bankCalls = 0
-----------------------------------------------------------------------------
(* Bank accounts.                                                          *)

\* account_type, or class if the account has no account_type.
TypeOf(a) == IF accounts[a].type = "none" THEN accounts[a].class ELSE accounts[a].type
Usable(a) == accounts[a].status = "OPEN"
Listed == {a \in AccountIds : accounts[a].status # "none"}

\* business_savings is left out: it needs a business account of 30 days.
Eligible(t) ==
  CASE t = "checking" -> TRUE
    [] t = "savings" ->
         \E a \in Listed : TypeOf(a) = "checking" /\ Usable(a) /\ accounts[a].days >= 14
    [] t = "business_checking" ->
         /\ \A a \in Listed : accounts[a].status # "CLOSED"
         /\ \E a \in Listed : TypeOf(a) = "checking" /\ Usable(a)

\* The new account has an account_class, not the class the other tools look
\* at: to them it is no checking account.
OpenBankAccount(t) ==
  /\ accounts[t].status = "none" /\ Eligible(t)
  /\ accounts' = [accounts EXCEPT ![t].status = "OPEN"]
  /\ UNCHANGED <<cards, debitOrders, posted, credit, disputed, replacements, requests, unfrozen>>

\* The balance must be what the early closure fee takes.  The fee is not taken,
\* and the cards of the account stay as they are.
CloseBankAccount(a, waived) ==
  LET early == ~waived /\ accounts[a].class = "checking" /\ accounts[a].days < EarlyWindow
  IN /\ Usable(a)
     /\ accounts[a].holdings = IF early THEN EarlyFee ELSE 0
     /\ accounts' = [accounts EXCEPT ![a].status = "CLOSED"]
     /\ UNCHANGED <<cards, debitOrders, posted, credit, disputed, replacements, requests, unfrozen>>

TransferFunds(a, b, m) ==
  /\ a # b /\ Usable(a) /\ Usable(b)
  /\ accounts[a].holdings >= m
  /\ accounts' = [accounts EXCEPT ![a].holdings = @ - m, ![a].dollar = TRUE,
                                  ![b].holdings = @ + m, ![b].dollar = TRUE]
  /\ UNCHANGED <<cards, debitOrders, posted, credit, disputed, replacements, requests, unfrozen>>

\* A second credit of the same type and amount overwrites the record of the first.
ApplyCheckingCredit(a, m, type) ==
  /\ accounts[a].class = "checking" /\ Usable(a)
  /\ accounts' = [accounts EXCEPT ![a].holdings = @ + m, ![a].dollar = TRUE]
  /\ posted' = posted \union {<<type, m>>}
  /\ UNCHANGED <<cards, debitOrders, credit, disputed, replacements, requests, unfrozen>>

ApplySavingsCredit(a, m) ==
  /\ accounts[a].class \in {"saving", "savings"} /\ Usable(a)
  /\ accounts' = [accounts EXCEPT ![a].holdings = @ + m, ![a].dollar = FALSE]
  /\ UNCHANGED <<cards, debitOrders, posted, credit, disputed, replacements, requests, unfrozen>>

\* Mutant: money arrives on an account whatever its status.
DepositToAny(a, m) ==
  /\ a \in Listed
  /\ accounts' = [accounts EXCEPT ![a].holdings = @ + m, ![a].dollar = TRUE]
  /\ UNCHANGED <<cards, debitOrders, posted, credit, disputed, replacements, requests, unfrozen>>

DepositCheck(a, m) ==
  /\ Usable(a)
  /\ accounts' = [accounts EXCEPT ![a].holdings = @ + m, ![a].dollar = TRUE]
  /\ UNCHANGED <<cards, debitOrders, posted, credit, disputed, replacements, requests, unfrozen>>
-----------------------------------------------------------------------------
(* Debit cards.                                                            *)

\* The reason of a new card: that of the first closed card, if it is about
\* loss or fraud.
IssueReason ==
  LET closed == {i \in 1..3 : cards[CardIds[i]].status = "CLOSED"}
      first == cards[CardIds[CHOOSE i \in closed : \A j \in closed : i <= j]].closure
  IN IF closed = {}
     THEN IF \E c \in DOMAIN cards : cards[c] # NoCard THEN "first_card" ELSE "new_account"
     ELSE CASE first \in {"lost", "stolen"} -> first
            [] first = "fraud_suspected" -> "fraud"
            [] OTHER -> "first_card"

\* A balance written with a dollar sign is no number here and counts as 0.
OrderBalance == IF accounts["chk"].dollar THEN 0 ELSE accounts["chk"].holdings

Order(delivery, fee) ==
  /\ debitOrders' = debitOrders \union {delivery}
  /\ accounts' = [accounts EXCEPT !["chk"].holdings = @ - fee]
  /\ posted' = IF fee > 0 THEN posted \union {<<"debit_card_fee", delivery>>} ELSE posted
  /\ cards' = IF cards["ordered"] = NoCard
              THEN [cards EXCEPT !["ordered"] = Card("PENDING", IssueReason)] ELSE cards
  /\ UNCHANGED <<credit, disputed, replacements, requests, unfrozen>>

\* Mutant: the pending order is not looked for.
OrderDebitCardAgain(delivery, fee) ==
  /\ Usable("chk") /\ OrderBalance >= 25
  /\ ActiveCards = {}
  /\ fee <= OrderBalance
  /\ delivery \notin debitOrders
  /\ Order(delivery, fee)

\* No tool changes the status of an order: it stays PENDING.
OrderDebitCard(delivery, fee) ==
  /\ Usable("chk") /\ OrderBalance >= 25
  /\ debitOrders = {}
  /\ ActiveCards = {}
  /\ fee <= OrderBalance
  /\ Order(delivery, fee)

\* Mutant: the cards in use stay in use.
ActivateOnly(c, reasons, others) ==
  /\ cards[c].status = "PENDING" /\ cards[c].reason \in reasons /\ Usable("chk")
  /\ cards' = [cards EXCEPT ![c].status = "ACTIVE"]
  /\ UNCHANGED <<accounts, debitOrders, posted, credit, disputed, replacements, requests, unfrozen>>

\* The activation tool for the card's reason; other active cards of the account
\* are put out of use.
Activate(c, reasons, others) ==
  /\ cards[c].status = "PENDING" /\ cards[c].reason \in reasons /\ Usable("chk")
  /\ cards' = [d \in DOMAIN cards |->
                 IF d = c THEN [cards[d] EXCEPT !.status = "ACTIVE"]
                 ELSE IF cards[d].status = "ACTIVE" THEN [cards[d] EXCEPT !.status = others]
                 ELSE cards[d]]
  /\ UNCHANGED <<accounts, debitOrders, posted, credit, disputed, replacements, requests, unfrozen>>

ActivateNewCard(c) == Activate(c, {"new_account", "first_card"}, "DEACTIVATED")
ActivateReplacementCard(c) == Activate(c, {"lost", "stolen", "fraud"}, "DEACTIVATED")
ActivateReissuedCard(c) == Activate(c, {"expired", "damaged", "upgrade", "bank_reissue"}, "GRACE_PERIOD")

CloseDebitCard(c, reason) ==
  /\ cards[c].status \in {"ACTIVE", "PENDING"}
  /\ cards' = [cards EXCEPT ![c].status = "CLOSED", ![c].closure = reason]
  /\ UNCHANGED <<accounts, debitOrders, posted, credit, disputed, replacements, requests, unfrozen>>

FreezeDebitCard(c) ==
  /\ cards[c].status = "ACTIVE"
  /\ cards' = [cards EXCEPT ![c].status = "FROZEN"]
  /\ UNCHANGED <<accounts, debitOrders, posted, credit, disputed, replacements, requests, unfrozen>>

\* The other cards of the account are not looked at.
UnfreezeDebitCard(c) ==
  /\ cards[c].status = "FROZEN" /\ Usable("chk")
  /\ cards' = [cards EXCEPT ![c].status = "ACTIVE"]
  /\ unfrozen' = TRUE
  /\ UNCHANGED <<accounts, debitOrders, posted, credit, disputed, replacements, requests>>
-----------------------------------------------------------------------------
(* The credit card account.                                                *)

\* The status of the checking account is not looked at.
PayCreditCard(m) ==
  /\ m <= accounts["chk"].holdings /\ m <= credit.debt
  /\ accounts' = [accounts EXCEPT !["chk"].holdings = @ - m, !["chk"].dollar = FALSE]
  /\ credit' = [credit EXCEPT !.debt = @ - m]
  /\ UNCHANGED <<cards, debitOrders, posted, disputed, replacements, requests, unfrozen>>

FileDispute ==
  /\ ~disputed /\ disputed' = TRUE
  /\ UNCHANGED <<accounts, cards, debitOrders, posted, credit, replacements, requests, unfrozen>>

\* An order's id holds its reason; orders of one reason are enough here.
OrderReplacementCard ==
  /\ "ORDERED" \notin replacements
  /\ replacements' = replacements \union {"ORDERED"}
  /\ credit' = [credit EXCEPT !.status = "CLOSED"]
  /\ UNCHANGED <<accounts, cards, debitOrders, posted, disputed, requests, unfrozen>>

CloseCreditCardAccount ==
  /\ credit' = [credit EXCEPT !.status = "CLOSED"]
  /\ UNCHANGED <<accounts, cards, debitOrders, posted, disputed, replacements, requests, unfrozen>>

\* add_to_db: a record that is there is not replaced.
Recorded(increase, status) ==
  IF requests[increase] = "none" THEN [requests EXCEPT ![increase] = status] ELSE requests

SubmitLimitIncrease(increase) ==
  /\ increase > 0 /\ requests[increase] = "none"
  /\ requests' = Recorded(increase, "PENDING")
  /\ UNCHANGED <<accounts, cards, debitOrders, posted, credit, disputed, replacements, unfrozen>>

\* Orders are looked up by statuses that OrderReplacementCard does not write,
\* the account by a field that no account has: a CLOSED one passes.
ApproveLimitIncrease(limit) ==
  /\ ~disputed /\ replacements \cap {"PENDING", "PROCESSING", "SHIPPED"} = {}
  /\ credit' = [credit EXCEPT !.limit = limit]
  /\ requests' = Recorded(limit - credit.limit, "APPROVED")
  /\ UNCHANGED <<accounts, cards, debitOrders, posted, disputed, replacements, unfrozen>>

\* A denial is recorded as one of an increase of 0.
DenyLimitIncrease ==
  /\ requests' = Recorded(0, "DENIED")
  /\ UNCHANGED <<accounts, cards, debitOrders, posted, credit, disputed, replacements, unfrozen>>
-----------------------------------------------------------------------------
BankingStep ==
  \/ \E t \in Types : OpenBankAccount(t)
  \/ \E a \in AccountIds, waived \in BOOLEAN : CloseBankAccount(a, waived)
  \/ \E a, b \in AccountIds, m \in Amounts : TransferFunds(a, b, m)
  \/ \E a \in AccountIds, m \in Amounts : ApplyCheckingCredit(a, m, "fee_refund")
  \/ \E a \in AccountIds, m \in Amounts : ApplySavingsCredit(a, m)
  \/ \E a \in AccountIds, m \in Amounts : DepositCheck(a, m)
  \/ \E delivery \in {"STANDARD", "RUSH"}, fee \in CardFees : OrderDebitCard(delivery, fee)
  \/ \E c \in DOMAIN cards : ActivateNewCard(c)
  \/ \E c \in DOMAIN cards : ActivateReplacementCard(c)
  \/ \E c \in DOMAIN cards : ActivateReissuedCard(c)
  \/ \E c \in DOMAIN cards, reason \in {"fraud_suspected", "damaged"} : CloseDebitCard(c, reason)
  \/ \E c \in DOMAIN cards : FreezeDebitCard(c)
  \/ \E c \in DOMAIN cards : UnfreezeDebitCard(c)
  \/ \E m \in Amounts : PayCreditCard(m)
  \/ FileDispute
  \/ OrderReplacementCard
  \/ CloseCreditCardAccount
  \/ \E increase \in -1..1 : SubmitLimitIncrease(increase)
  \/ \E limit \in 1..2 : ApproveLimitIncrease(limit)
  \/ DenyLimitIncrease

BankingNext == bankCalls < MaxBankCalls /\ bankCalls' = bankCalls + 1 /\ BankingStep

BankingSpec == BankingInit /\ [][BankingNext]_bankingVars
-----------------------------------------------------------------------------
(* Properties.                                                             *)

\* The checking account has at most one card in use, whatever is ordered,
\* closed and activated: only by unfreezing an earlier one can it have two.
OneActiveUnlessUnfrozen == unfrozen \/ Cardinality(ActiveCards) <= 1

\* A checking account is sent one card, however many are asked for and whatever
\* becomes of it, and charged for that one only.
OrderedOnce ==
  /\ Cardinality(debitOrders) <= 1
  /\ (debitOrders = {}) = (cards["ordered"] = NoCard)
  /\ {t \in posted : t[1] = "debit_card_fee"} \subseteq {<<"debit_card_fee", d>> : d \in debitOrders}

\* Cards, their orders and their fees agree.
CardsAccountedFor == OneActiveUnlessUnfrozen /\ OrderedOnce

\* Whatever tool brings the money: nothing arrives on a closed account, and a
\* closed account or a card put out of use stays so.  Money may leave a closed
\* account: paying a credit card does not look at the status of the account.
ClosedForGood ==
  [][/\ \A a \in AccountIds : accounts[a].status = "CLOSED" =>
          accounts'[a].status = "CLOSED" /\ accounts'[a].holdings <= accounts[a].holdings
     /\ \A c \in DOMAIN cards : cards[c].status \in {"CLOSED", "DEACTIVATED", "GRACE_PERIOD"} =>
          cards'[c] = cards[c]
    ]_bankingVars

\* tools.py: an increase is approved with no pending replacement cards only.
NoRaiseWhileReplaced == [][credit'.limit > credit.limit => replacements = {}]_bankingVars
=============================================================================
