---------------------------- MODULE DomainsProofs ----------------------------
(***************************************************************************)
(* Proofs about the domains' databases: whatever calls agent and user      *)
(* make, and for any number of them.                                       *)
(***************************************************************************)
EXTENDS Domains, SequenceLemmas, FiniteSetTheorems

(* Banking. *)

CardNames == {"old", "reissued", "ordered"}
CardStatuses == {"none", "PENDING", "ACTIVE", "FROZEN", "CLOSED", "DEACTIVATED", "GRACE_PERIOD"}
Reasons == {"none", "new_account", "first_card", "lost", "stolen", "fraud", "expired"}
Closures == {"none", "fraud_suspected", "damaged"}
CardRecords == [status : CardStatuses, reason : Reasons, closure : Closures]
AccountRecords == [class : {"none", "checking", "saving"}, type : Types \cup {"none"},
                   status : {"none", "OPEN", "CLOSED"}, holdings : Int, dollar : BOOLEAN, days : Int]

BankingTypes ==
  /\ accounts \in [AccountIds -> AccountRecords]
  /\ cards \in [CardNames -> CardRecords]
  /\ debitOrders \subseteq {"STANDARD", "RUSH"}
  /\ unfrozen \in BOOLEAN

\* The cards in use, one by one, rather than how many there are.
OneInUse ==
  ~unfrozen => \A c, d \in CardNames : cards[c].status = "ACTIVE" /\ cards[d].status = "ACTIVE" => c = d

\* The order, its card and its fee.
OneOrder ==
  /\ \A d, e \in debitOrders : d = e
  /\ debitOrders = {} <=> cards["ordered"] = NoCard
  /\ \A t \in posted : t[1] = "debit_card_fee" => t[2] \in debitOrders /\ t = <<"debit_card_fee", t[2]>>

BankingInv == BankingTypes /\ OneInUse /\ OneOrder
-----------------------------------------------------------------------------
LEMMA CardReason == ASSUME BankingTypes PROVE IssueReason \in Reasons
<1> DEFINE closed == {i \in 1..3 : cards[CardIds[i]].status = "CLOSED"}
           first == CHOOSE i \in closed : \A j \in closed : i <= j
           closure == cards[CardIds[first]].closure
<1>1. IssueReason = IF closed = {}
                    THEN IF \E c \in DOMAIN cards : cards[c] # NoCard THEN "first_card" ELSE "new_account"
                    ELSE CASE closure \in {"lost", "stolen"} -> closure
                           [] closure = "fraud_suspected" -> "fraud"
                           [] OTHER -> "first_card"
  BY Zenon DEF IssueReason
<1>2. closed \subseteq {1, 2, 3}
  OBVIOUS
<1>3. CASE closed # {}
  <2>1. \E i \in closed : \A j \in closed : i <= j
    <3> HIDE DEF closed
    <3>1. CASE 1 \in closed
      BY <1>2, <3>1
    <3>2. CASE 1 \notin closed /\ 2 \in closed
      BY <1>2, <3>2
    <3>3. CASE closed = {3}
      BY <3>3
    <3>4. 1 \in closed \/ (1 \notin closed /\ 2 \in closed) \/ closed = {3}
      BY <1>2, <1>3
    <3> QED
      BY <3>1, <3>2, <3>3, <3>4
  <2> HIDE DEF closed
  <2>2. first \in closed
    BY <2>1
  <2>3. first \in {1, 2, 3}
    BY <1>2, <2>2
  <2> HIDE DEF first
  <2>4. CardIds[first] \in CardNames
    BY <2>3 DEF CardIds, CardNames
  <2>5. closure \in Closures
    BY <2>4 DEF BankingTypes, CardRecords
  <2> HIDE DEF closure
  <2> QED
    BY <1>1, <1>3, <2>5 DEF Closures, Reasons
<1> HIDE DEF closed, closure, first
<1>4. CASE closed = {}
  BY <1>1, <1>4 DEF Reasons
<1> QED
  BY <1>3, <1>4

LEMMA BankingStart == BankingInit => BankingInv
<1> SUFFICES ASSUME BankingInit PROVE BankingInv
  OBVIOUS
<1>1. accounts \in [AccountIds -> AccountRecords]
  <2>1. PICK opened \in {<<10, 15>>, <<400, 60>>} :
          accounts = [a \in AccountIds |->
            CASE a = "chk" -> [class |-> "checking", type |-> "none", status |-> "OPEN",
                               holdings |-> opened[2], dollar |-> FALSE, days |-> opened[1]]
              [] a = "other" -> [class |-> "saving", type |-> "none", status |-> "OPEN",
                                 holdings |-> 0, dollar |-> FALSE, days |-> 400]
              [] OTHER -> [class |-> "none", type |-> a, status |-> "none",
                           holdings |-> 0, dollar |-> FALSE, days |-> 0]]
    BY DEF BankingInit
  <2>2. opened[1] \in Int /\ opened[2] \in Int
    OBVIOUS
  <2>3. ASSUME NEW a \in AccountIds PROVE accounts[a] \in AccountRecords
    <3>1. a # "chk" /\ a # "other" => a \in Types
      BY DEF AccountIds
    <3>2. CASE a = "chk"
      BY <2>1, <2>2, <3>2 DEF AccountRecords
    <3>3. CASE a = "other"
      BY <2>1, <3>3 DEF AccountRecords
    <3>4. CASE a # "chk" /\ a # "other"
      BY <2>1, <3>1, <3>4 DEF AccountRecords
    <3> QED
      BY <3>2, <3>3, <3>4
  <2> QED
    BY <2>1, <2>3
<1>2. cards \in [CardNames -> CardRecords] /\ cards["ordered"] = NoCard
      /\ cards["reissued"].status # "ACTIVE"
  <2>1. PICK old \in {NoCard, Card("ACTIVE", "new_account")},
             reissued \in {NoCard, Card("PENDING", "expired"), Card("PENDING", "stolen")} :
          cards = [c \in CardNames |->
                    CASE c = "old" -> old [] c = "reissued" -> reissued [] OTHER -> NoCard]
    BY DEF BankingInit, CardNames
  <2>2. NoCard \in CardRecords /\ old \in CardRecords /\ reissued \in CardRecords
        /\ reissued.status # "ACTIVE"
    BY DEF CardRecords, CardStatuses, Reasons, Closures, NoCard, Card
  <2>3. \A c \in CardNames : cards[c] \in {old, reissued, NoCard}
    BY <2>1
  <2>4. cards \in [CardNames -> CardRecords]
    BY <2>1, <2>2
  <2>5. cards["ordered"] = NoCard /\ cards["reissued"] = reissued
    BY <2>1 DEF CardNames
  <2> QED
    BY <2>2, <2>4, <2>5
<1>3. OneInUse
  BY <1>2 DEF OneInUse, CardNames, NoCard
<1>4. OneOrder /\ BankingTypes
  BY <1>1, <1>2 DEF OneOrder, BankingTypes, BankingInit
<1> QED
  BY <1>3, <1>4 DEF BankingInv

\* What touches neither cards nor orders.
LEMMA AccountsOnly ==
  ASSUME BankingInv, accounts' \in [AccountIds -> AccountRecords],
         UNCHANGED <<cards, debitOrders, unfrozen>>,
         posted' = posted \/ \E m : posted' = posted \cup {<<"fee_refund", m>>}
  PROVE  BankingInv'
<1>1. BankingTypes' /\ OneInUse'
  BY DEF BankingInv, BankingTypes, OneInUse
<1>2. \A t \in posted' : t \in posted \/ t[1] = "fee_refund"
  OBVIOUS
<1>3. OneOrder'
  BY <1>2 DEF BankingInv, OneOrder
<1> QED
  BY <1>1, <1>3 DEF BankingInv

\* What changes the status of a card there is.
LEMMA CardsOnly ==
  ASSUME BankingInv, cards' \in [CardNames -> CardRecords], OneInUse',
         unfrozen' \in BOOLEAN, UNCHANGED <<accounts, debitOrders, posted>>,
         cards'["ordered"] = NoCard <=> cards["ordered"] = NoCard
  PROVE  BankingInv'
  BY DEF BankingInv, BankingTypes, OneOrder

LEMMA CardActivated ==
  ASSUME BankingInv, NEW c \in CardNames, NEW reasons, NEW others \in {"DEACTIVATED", "GRACE_PERIOD"},
         Activate(c, reasons, others)
  PROVE  BankingInv'
<1>1. cards \in [CardNames -> CardRecords] /\ DOMAIN cards = CardNames
  BY DEF BankingInv, BankingTypes
<1>2. cards' = [d \in CardNames |->
                  IF d = c THEN [cards[d] EXCEPT !.status = "ACTIVE"]
                  ELSE IF cards[d].status = "ACTIVE" THEN [cards[d] EXCEPT !.status = others]
                  ELSE cards[d]]
      /\ cards[c].status = "PENDING"
      /\ UNCHANGED <<accounts, debitOrders, posted, unfrozen>>
  BY <1>1 DEF Activate
<1>3. \A d \in CardNames : cards[d] \in CardRecords
  BY <1>1
<1>4. ASSUME NEW d \in CardNames, NEW s \in CardStatuses
      PROVE  [cards[d] EXCEPT !.status = s] \in CardRecords /\ [cards[d] EXCEPT !.status = s].status = s
  BY <1>3 DEF CardRecords
<1>5. "ACTIVE" \in CardStatuses /\ others \in CardStatuses /\ others # "ACTIVE"
  BY DEF CardStatuses
<1>6. cards' \in [CardNames -> CardRecords]
  BY <1>2, <1>3, <1>4, <1>5
<1>7. \A d \in CardNames : d # c => cards'[d].status # "ACTIVE"
  BY <1>2, <1>4, <1>5
<1>8. OneInUse'
  BY <1>7 DEF OneInUse
<1>9. cards'["ordered"] = NoCard <=> cards["ordered"] = NoCard
  <2>1. "ordered" \in CardNames
    BY DEF CardNames
  <2>2. \A s : cards'["ordered"] = [cards["ordered"] EXCEPT !.status = s] => cards'["ordered"].status = s
    BY <1>3, <2>1 DEF CardRecords
  <2>3. NoCard.status = "none"
    BY DEF NoCard
  <2> QED
    BY <1>2, <1>5, <2>1, <2>2, <2>3
<1> QED
  BY <1>2, <1>6, <1>8, <1>9, CardsOnly DEF BankingInv, BankingTypes

\* Closing, freezing and unfreezing one card.
LEMMA CardSet ==
  ASSUME BankingInv, NEW c \in CardNames, NEW s \in CardStatuses \ {"none"}, NEW closure \in Closures,
         cards[c].status # "none",
         cards' = [cards EXCEPT ![c] = [@ EXCEPT !.status = s, !.closure = closure]],
         UNCHANGED <<accounts, debitOrders, posted>>, unfrozen' \in BOOLEAN,
         unfrozen => unfrozen', s = "ACTIVE" => unfrozen'
  PROVE  BankingInv'
<1>1. cards \in [CardNames -> CardRecords] /\ \A d \in CardNames : cards[d] \in CardRecords
  BY DEF BankingInv, BankingTypes
<1>2. [cards[c] EXCEPT !.status = s, !.closure = closure] \in CardRecords
      /\ [cards[c] EXCEPT !.status = s, !.closure = closure].status = s
  BY <1>1 DEF CardRecords
<1>3. /\ cards' \in [CardNames -> CardRecords] /\ cards'[c].status = s
      /\ \A d \in CardNames : d # c => cards'[d] = cards[d]
  BY <1>1, <1>2
<1>4. OneInUse'
  BY <1>3 DEF BankingInv, OneInUse
<1>5. cards'["ordered"] = NoCard <=> cards["ordered"] = NoCard
  <2>1. "ordered" \in CardNames /\ NoCard.status = "none"
    BY DEF CardNames, NoCard
  <2> QED
    BY <1>3, <2>1
<1> QED
  BY <1>3, <1>4, <1>5, CardsOnly

LEMMA CardOrdered ==
  ASSUME BankingInv, NEW delivery \in {"STANDARD", "RUSH"}, NEW fee \in CardFees,
         OrderDebitCard(delivery, fee)
  PROVE  BankingInv'
<1>1. debitOrders = {} /\ Order(delivery, fee)
  BY DEF OrderDebitCard
<1>2. cards["ordered"] = NoCard
  BY <1>1 DEF BankingInv, OneOrder
<1>3. /\ debitOrders' = {delivery}
      /\ accounts' = [accounts EXCEPT !["chk"].holdings = @ - fee]
      /\ posted' = (IF fee > 0 THEN posted \cup {<<"debit_card_fee", delivery>>} ELSE posted)
      /\ cards' = [cards EXCEPT !["ordered"] = Card("PENDING", IssueReason)]
      /\ unfrozen' = unfrozen
  BY <1>1, <1>2 DEF Order
<1>4. Card("PENDING", IssueReason) \in CardRecords /\ Card("PENDING", IssueReason).status = "PENDING"
  <2>1. IssueReason \in Reasons
    BY CardReason DEF BankingInv
  <2> DEFINE why == IssueReason
  <2> HIDE DEF why
  <2>2. Card("PENDING", why) \in CardRecords /\ Card("PENDING", why).status = "PENDING"
    BY <2>1 DEF Card, CardRecords, CardStatuses, Closures, why
  <2> QED
    BY <2>2 DEF why
<1>5. "ordered" \in CardNames /\ cards \in [CardNames -> CardRecords]
  BY DEF CardNames, BankingInv, BankingTypes
<1>6. /\ cards' \in [CardNames -> CardRecords] /\ cards'["ordered"].status = "PENDING"
      /\ \A c \in CardNames : c # "ordered" => cards'[c] = cards[c]
  BY <1>3, <1>4, <1>5
<1>7. OneInUse'
  BY <1>3, <1>6 DEF BankingInv, OneInUse
<1>8. cards'["ordered"] # NoCard
  BY <1>6 DEF NoCard
<1>9. \A t \in posted' : t[1] = "debit_card_fee" => t[2] \in debitOrders' /\ t = <<"debit_card_fee", t[2]>>
  BY <1>1, <1>3 DEF BankingInv, OneOrder
<1>10. OneOrder'
  BY <1>3, <1>8, <1>9 DEF OneOrder
<1>11. accounts' \in [AccountIds -> AccountRecords]
  <2>1. accounts \in [AccountIds -> AccountRecords] /\ "chk" \in AccountIds /\ fee \in Int
    BY BankingAssumption DEF BankingInv, BankingTypes, AccountIds
  <2>2. accounts["chk"].holdings - fee \in Int /\ accounts["chk"] \in AccountRecords
    BY <2>1 DEF AccountRecords
  <2> QED
    BY <1>3, <2>1, <2>2 DEF AccountRecords
<1> QED
  BY <1>3, <1>6, <1>7, <1>10, <1>11 DEF BankingInv, BankingTypes

\* An account after a call.
LEMMA AccountSet ==
  ASSUME NEW r \in AccountRecords
  PROVE  /\ r.holdings \in Int /\ r.status \in {"none", "OPEN", "CLOSED"}
         /\ \A status \in {"none", "OPEN", "CLOSED"} :
              /\ [r EXCEPT !.status = status] \in AccountRecords
              /\ [r EXCEPT !.status = status].status = status
         /\ \A h \in Int, b \in BOOLEAN :
              /\ [r EXCEPT !.holdings = h, !.dollar = b] \in AccountRecords
              /\ [r EXCEPT !.holdings = h, !.dollar = b].status = r.status
              /\ [r EXCEPT !.holdings = h, !.dollar = b].holdings = h
  BY DEF AccountRecords

\* Every call but those on cards changes one or two accounts: it opens or closes
\* an account that is not closed, or moves money between such accounts, or sets
\* what an account holds, of a closed one to no more than it does.
StatusSet(a) ==
  /\ accounts[a].status # "CLOSED"
  /\ \E status \in {"OPEN", "CLOSED"} : accounts' = [accounts EXCEPT ![a].status = status]
HoldingsSet(a) ==
  \E h \in Int, b \in BOOLEAN :
    /\ accounts[a].status # "CLOSED" \/ h <= accounts[a].holdings
    /\ accounts' = [accounts EXCEPT ![a].holdings = h, ![a].dollar = b]
Moved(a, c) ==
  /\ a # c /\ accounts[a].status # "CLOSED" /\ accounts[c].status # "CLOSED"
  /\ \E h, k \in Int : accounts' = [accounts EXCEPT ![a].holdings = h, ![a].dollar = TRUE,
                                                    ![c].holdings = k, ![c].dollar = TRUE]
AccountChange ==
  \/ \E a \in AccountIds : StatusSet(a) \/ HoldingsSet(a)
  \/ \E a, c \in AccountIds : Moved(a, c)

ClosedAccountsStay ==
  \A a \in AccountIds : accounts[a].status = "CLOSED" =>
    accounts'[a].status = "CLOSED" /\ accounts'[a].holdings <= accounts[a].holdings

LEMMA AccountsKept ==
  ASSUME BankingTypes, AccountChange
  PROVE  accounts' \in [AccountIds -> AccountRecords] /\ ClosedAccountsStay
<1>1. accounts \in [AccountIds -> AccountRecords]
  BY DEF BankingTypes
<1>2. \A a \in AccountIds : accounts[a] \in AccountRecords
  BY <1>1
<1>3. \A a \in AccountIds : accounts[a].holdings \in Int
  BY <1>2, AccountSet
<1>4. ASSUME NEW a \in AccountIds, NEW r \in AccountRecords, accounts' = [accounts EXCEPT ![a] = r],
             accounts[a].status = "CLOSED" => r.status = "CLOSED" /\ r.holdings <= accounts[a].holdings
      PROVE  accounts' \in [AccountIds -> AccountRecords] /\ ClosedAccountsStay
  <2>1. accounts' \in [AccountIds -> AccountRecords]
    BY <1>1, <1>4
  <2>2. accounts'[a] = r /\ \A c \in AccountIds : c # a => accounts'[c] = accounts[c]
    BY <1>1, <1>4
  <2>3. \A c \in AccountIds : accounts[c].holdings <= accounts[c].holdings
    BY <1>3
  <2> QED
    BY <1>4, <2>1, <2>2, <2>3 DEF ClosedAccountsStay
<1>5. ASSUME NEW a \in AccountIds, NEW status \in {"OPEN", "CLOSED"}, accounts[a].status # "CLOSED",
             accounts' = [accounts EXCEPT ![a].status = status]
      PROVE  accounts' \in [AccountIds -> AccountRecords] /\ ClosedAccountsStay
  <2> DEFINE r == [accounts[a] EXCEPT !.status = status]
  <2>1. r \in AccountRecords
    BY <1>2, AccountSet
  <2>2. accounts' = [accounts EXCEPT ![a] = r]
    BY <1>5
  <2> HIDE DEF r
  <2> QED
    BY <1>4, <1>5, <2>1, <2>2
<1>6. ASSUME NEW a \in AccountIds, NEW h \in Int, NEW b \in BOOLEAN,
             accounts[a].status # "CLOSED" \/ h <= accounts[a].holdings,
             accounts' = [accounts EXCEPT ![a].holdings = h, ![a].dollar = b]
      PROVE  accounts' \in [AccountIds -> AccountRecords] /\ ClosedAccountsStay
  <2> DEFINE r == [accounts[a] EXCEPT !.holdings = h, !.dollar = b]
  <2>1. r \in AccountRecords /\ r.status = accounts[a].status /\ r.holdings = h
    <3>1. accounts[a] \in AccountRecords
      BY <1>2
    <3> QED
      BY <3>1 DEF AccountRecords
  <2>2. accounts' = [accounts EXCEPT ![a] = r]
    BY <1>1, <1>6
  <2> HIDE DEF r
  <2> QED
    BY <1>4, <1>6, <2>1, <2>2
<1>7. ASSUME NEW a \in AccountIds, NEW c \in AccountIds, NEW h \in Int, NEW k \in Int, a # c,
             accounts[a].status # "CLOSED", accounts[c].status # "CLOSED",
             accounts' = [accounts EXCEPT ![a].holdings = h, ![a].dollar = TRUE,
                                          ![c].holdings = k, ![c].dollar = TRUE]
      PROVE  accounts' \in [AccountIds -> AccountRecords] /\ ClosedAccountsStay
  <2> DEFINE r == [accounts[a] EXCEPT !.holdings = h, !.dollar = TRUE]
             s == [accounts[c] EXCEPT !.holdings = k, !.dollar = TRUE]
  <2>1. r \in AccountRecords /\ s \in AccountRecords
    <3>1. accounts[a] \in AccountRecords /\ accounts[c] \in AccountRecords
      BY <1>2
    <3> QED
      BY <3>1 DEF AccountRecords
  <2>2. accounts' = [accounts EXCEPT ![a] = r, ![c] = s]
    BY <1>1, <1>7
  <2> HIDE DEF r, s
  <2>3. accounts' \in [AccountIds -> AccountRecords]
    BY <1>1, <2>1, <2>2
  <2>4. \A d \in AccountIds : d # a /\ d # c => accounts'[d] = accounts[d]
    BY <1>1, <2>2
  <2>5. \A d \in AccountIds : accounts[d].holdings <= accounts[d].holdings
    BY <1>3
  <2> QED
    BY <1>7, <2>3, <2>4, <2>5 DEF ClosedAccountsStay
<1>8. \A a \in AccountIds : StatusSet(a) \/ HoldingsSet(a) =>
        accounts' \in [AccountIds -> AccountRecords] /\ ClosedAccountsStay
  BY <1>5, <1>6 DEF StatusSet, HoldingsSet
<1>9. ASSUME NEW a \in AccountIds, NEW c \in AccountIds, Moved(a, c)
      PROVE  accounts' \in [AccountIds -> AccountRecords] /\ ClosedAccountsStay
  <2>1. PICK h \in Int, k \in Int :
          accounts' = [accounts EXCEPT ![a].holdings = h, ![a].dollar = TRUE,
                                       ![c].holdings = k, ![c].dollar = TRUE]
    BY <1>9 DEF Moved
  <2>2. a # c /\ accounts[a].status # "CLOSED" /\ accounts[c].status # "CLOSED"
    BY <1>9 DEF Moved
  <2> QED
    BY <1>7, <2>1, <2>2
<1> QED
  BY <1>8, <1>9 DEF AccountChange

\* The calls on accounts.
AccountCall ==
  \/ \E t \in Types : OpenBankAccount(t)
  \/ \E a \in AccountIds, waived \in BOOLEAN : CloseBankAccount(a, waived)
  \/ \E a, b \in AccountIds, m \in Amounts : TransferFunds(a, b, m)
  \/ \E a \in AccountIds, m \in Amounts : ApplyCheckingCredit(a, m, "fee_refund")
  \/ \E a \in AccountIds, m \in Amounts : ApplySavingsCredit(a, m)
  \/ \E a \in AccountIds, m \in Amounts : DepositCheck(a, m)
  \/ \E m \in Amounts : PayCreditCard(m)

LEMMA AccountCalls ==
  ASSUME BankingInv, AccountCall
  PROVE  /\ AccountChange /\ UNCHANGED <<cards, debitOrders, unfrozen>>
         /\ posted' = posted \/ \E m : posted' = posted \cup {<<"fee_refund", m>>}
<1>1. \A a \in AccountIds : accounts[a].holdings \in Int
  <2>1. \A a \in AccountIds : accounts[a] \in AccountRecords
    BY DEF BankingInv, BankingTypes
  <2> QED
    BY <2>1, AccountSet
<1>2. \A m \in Amounts : m \in Int /\ m >= 0
  BY BankingAssumption
<1>3. CASE \E t \in Types : OpenBankAccount(t)
  <2>1. PICK t \in Types : OpenBankAccount(t)
    BY <1>3
  <2>2. t \in AccountIds
    BY DEF AccountIds
  <2> QED
    BY <2>1, <2>2 DEF OpenBankAccount, AccountChange, StatusSet
<1>4. CASE \E a \in AccountIds, waived \in BOOLEAN : CloseBankAccount(a, waived)
  BY <1>4 DEF CloseBankAccount, Usable, AccountChange, StatusSet
<1>5. CASE \E a, b \in AccountIds, m \in Amounts : TransferFunds(a, b, m)
  <2>1. PICK a \in AccountIds, b \in AccountIds, m \in Amounts : TransferFunds(a, b, m)
    BY <1>5
  <2>2. accounts[a].holdings - m \in Int /\ accounts[b].holdings + m \in Int
    BY <1>1, <1>2
  <2>3. /\ a # b /\ accounts[a].status # "CLOSED" /\ accounts[b].status # "CLOSED"
        /\ UNCHANGED <<cards, debitOrders, posted, unfrozen>>
    BY <2>1 DEF TransferFunds, Usable
  <2>4. \E h, k \in Int : accounts' = [accounts EXCEPT ![a].holdings = h, ![a].dollar = TRUE,
                                                        ![b].holdings = k, ![b].dollar = TRUE]
    <3>1. accounts' = [accounts EXCEPT ![a].holdings = @ - m, ![a].dollar = TRUE,
                                       ![b].holdings = @ + m, ![b].dollar = TRUE]
      BY <2>1 DEF TransferFunds
    <3>2. accounts \in [AccountIds -> AccountRecords]
      BY DEF BankingInv, BankingTypes
    <3>3. accounts' = [accounts EXCEPT ![a].holdings = accounts[a].holdings - m, ![a].dollar = TRUE,
                                       ![b].holdings = accounts[b].holdings + m, ![b].dollar = TRUE]
      BY <2>3, <3>1, <3>2
    <3> QED
      BY <2>2, <3>3
  <2> QED
    BY <2>3, <2>4 DEF AccountChange, Moved
<1>6. ASSUME NEW a \in AccountIds, NEW m \in Amounts, NEW b \in BOOLEAN, Usable(a),
             accounts' = [accounts EXCEPT ![a].holdings = @ + m, ![a].dollar = b]
      PROVE  AccountChange
  <2>1. accounts[a].holdings + m \in Int
    BY <1>1, <1>2
  <2>2. accounts' = [accounts EXCEPT ![a].holdings = accounts[a].holdings + m, ![a].dollar = b]
    BY <1>6
  <2> QED
    BY <1>6, <2>1, <2>2 DEF Usable, AccountChange, HoldingsSet
<1>7. CASE \E a \in AccountIds, m \in Amounts : ApplyCheckingCredit(a, m, "fee_refund")
  BY <1>6, <1>7 DEF ApplyCheckingCredit
<1>8. CASE \E a \in AccountIds, m \in Amounts : ApplySavingsCredit(a, m)
  BY <1>6, <1>8 DEF ApplySavingsCredit
<1>9. CASE \E a \in AccountIds, m \in Amounts : DepositCheck(a, m)
  BY <1>6, <1>9 DEF DepositCheck
<1>10. CASE \E m \in Amounts : PayCreditCard(m)
  <2>1. PICK m \in Amounts : PayCreditCard(m)
    BY <1>10
  <2>2. "chk" \in AccountIds
    BY DEF AccountIds
  <2>3. accounts["chk"].holdings - m \in Int /\ accounts["chk"].holdings - m <= accounts["chk"].holdings
    BY <1>1, <1>2, <2>2
  <2>4. /\ accounts' = [accounts EXCEPT !["chk"].holdings = accounts["chk"].holdings - m, !["chk"].dollar = FALSE]
        /\ UNCHANGED <<cards, debitOrders, posted, unfrozen>>
    BY <2>1 DEF PayCreditCard
  <2> QED
    BY <2>2, <2>3, <2>4 DEF AccountChange, HoldingsSet
<1> QED
  BY <1>3, <1>4, <1>5, <1>7, <1>8, <1>9, <1>10 DEF AccountCall

\* The calls that touch neither accounts nor debit cards.
ElsewhereCall ==
  \/ FileDispute \/ OrderReplacementCard \/ CloseCreditCardAccount
  \/ \E increase \in -1..1 : SubmitLimitIncrease(increase)
  \/ \E limit \in 1..2 : ApproveLimitIncrease(limit)
  \/ DenyLimitIncrease

LEMMA Elsewhere ==
  ASSUME ElsewhereCall
  PROVE  UNCHANGED <<accounts, cards, debitOrders, posted, unfrozen>>
  BY DEF ElsewhereCall, FileDispute, OrderReplacementCard, CloseCreditCardAccount, SubmitLimitIncrease,
         ApproveLimitIncrease, DenyLimitIncrease

\* The calls on cards there are.
CardCall(c) ==
  \/ ActivateNewCard(c) \/ ActivateReplacementCard(c) \/ ActivateReissuedCard(c)
  \/ \E reason \in {"fraud_suspected", "damaged"} : CloseDebitCard(c, reason)
  \/ FreezeDebitCard(c) \/ UnfreezeDebitCard(c)

LEMMA CardCalls ==
  ASSUME BankingInv, NEW c \in CardNames, CardCall(c)
  PROVE  BankingInv'
<1>1. CASE ActivateNewCard(c)
  BY <1>1, CardActivated DEF ActivateNewCard
<1>2. CASE ActivateReplacementCard(c)
  BY <1>2, CardActivated DEF ActivateReplacementCard
<1>3. CASE ActivateReissuedCard(c)
  BY <1>3, CardActivated DEF ActivateReissuedCard
<1>4. cards[c] \in CardRecords /\ cards[c].closure \in Closures /\ unfrozen \in BOOLEAN
  BY DEF BankingInv, BankingTypes, CardRecords
<1>5. \A s : [cards[c] EXCEPT !.status = s] = [cards[c] EXCEPT !.status = s, !.closure = cards[c].closure]
  BY <1>4 DEF CardRecords
<1>6. ASSUME NEW reason \in {"fraud_suspected", "damaged"}, CloseDebitCard(c, reason)
      PROVE  BankingInv'
  <2>1. /\ cards[c].status # "none" /\ reason \in Closures /\ "CLOSED" \in CardStatuses \ {"none"}
        /\ cards' = [cards EXCEPT ![c] = [@ EXCEPT !.status = "CLOSED", !.closure = reason]]
        /\ UNCHANGED <<accounts, debitOrders, posted, unfrozen>>
    BY <1>6 DEF CloseDebitCard, Closures, CardStatuses, BankingInv, BankingTypes
  <2> QED
    BY <1>4, <2>1, CardSet
<1>7. CASE FreezeDebitCard(c)
  <2>1. /\ cards[c].status # "none" /\ "FROZEN" \in CardStatuses \ {"none"}
        /\ cards' = [cards EXCEPT ![c] = [@ EXCEPT !.status = "FROZEN", !.closure = cards[c].closure]]
        /\ UNCHANGED <<accounts, debitOrders, posted, unfrozen>>
    BY <1>5, <1>7 DEF FreezeDebitCard, CardStatuses
  <2> QED
    BY <1>4, <2>1, CardSet
<1>8. CASE UnfreezeDebitCard(c)
  <2>1. /\ cards[c].status # "none" /\ "ACTIVE" \in CardStatuses \ {"none"}
        /\ cards' = [cards EXCEPT ![c] = [@ EXCEPT !.status = "ACTIVE", !.closure = cards[c].closure]]
        /\ unfrozen' = TRUE /\ UNCHANGED <<accounts, debitOrders, posted>>
    BY <1>5, <1>8 DEF UnfreezeDebitCard, CardStatuses
  <2> QED
    BY <1>4, <2>1, CardSet
<1> QED
  BY <1>1, <1>2, <1>3, <1>6, <1>7, <1>8 DEF CardCall

LEMMA AtMostOne ==
  ASSUME NEW S, \A x, y \in S : x = y
  PROVE  Cardinality(S) <= 1
<1>1. CASE S = {}
  BY <1>1, FS_EmptySet
<1>2. CASE S # {}
  <2>1. PICK x : x \in S
    BY <1>2
  <2>2. S = {x}
    BY <2>1
  <2>3. Cardinality({x}) = 1
    BY FS_Singleton
  <2> QED
    BY <2>2, <2>3
<1> QED
  BY <1>1, <1>2

LEMMA BankingCalls ==
  ASSUME BankingTypes, BankingStep
  PROVE  \/ AccountCall \/ ElsewhereCall
         \/ \E delivery \in {"STANDARD", "RUSH"}, fee \in CardFees : OrderDebitCard(delivery, fee)
         \/ \E c \in CardNames : CardCall(c)
<1>1. DOMAIN cards = CardNames
  BY DEF BankingTypes
<1> QED
  BY <1>1 DEF BankingStep, AccountCall, ElsewhereCall, CardCall

LEMMA BankingKept == BankingInv /\ [BankingNext]_bankingVars => BankingInv'
<1>1. BankingInv /\ BankingStep => BankingInv'
  <2> SUFFICES ASSUME BankingInv, BankingStep PROVE BankingInv'
    OBVIOUS
  <2>1. CASE AccountCall
    BY <2>1, AccountCalls, AccountsKept, AccountsOnly DEF BankingInv
  <2>2. CASE ElsewhereCall
    BY <2>2, Elsewhere, AccountsOnly DEF BankingInv, BankingTypes
  <2>3. CASE \E delivery \in {"STANDARD", "RUSH"}, fee \in CardFees : OrderDebitCard(delivery, fee)
    BY <2>3, CardOrdered
  <2>4. CASE \E c \in CardNames : CardCall(c)
    BY <2>4, CardCalls
  <2> QED
    BY <2>1, <2>2, <2>3, <2>4, BankingCalls DEF BankingInv
<1>2. BankingInv /\ UNCHANGED bankingVars => BankingInv'
  BY AccountsOnly DEF bankingVars, BankingInv, BankingTypes
<1> QED
  BY <1>1, <1>2 DEF BankingNext

LEMMA BankingCorrect == Spec => []BankingInv
<1>1. Init => BankingInv
  BY BankingStart DEF Init
<1>2. [Next]_domainsVars => [BankingNext]_bankingVars
  BY DEF Next, domainsVars, TelecomStep, BankingPlayed, RetailPlayed, AirlinePlayed
<1> QED
  BY <1>1, <1>2, BankingKept, PTL DEF Spec

\* CardsAccountedFor, of Banking: after any calls the checking account has at
\* most one card in use, unless one was unfrozen, and at most one was ordered for
\* it and charged.
THEOREM Cards == Spec => []CardsAccountedFor
<1>1. BankingInv => OneActiveUnlessUnfrozen
  <2> SUFFICES ASSUME BankingInv, ~unfrozen PROVE Cardinality(ActiveCards) <= 1
    BY DEF OneActiveUnlessUnfrozen
  <2>1. \A c, d \in ActiveCards : c = d
    BY DEF BankingInv, BankingTypes, OneInUse, ActiveCards
  <2> QED
    BY <2>1, AtMostOne
<1>2. BankingInv => OrderedOnce
  <2> SUFFICES ASSUME BankingInv PROVE OrderedOnce
    OBVIOUS
  <2>1. Cardinality(debitOrders) <= 1
    BY AtMostOne DEF BankingInv, OneOrder
  <2> QED
    BY <2>1 DEF BankingInv, OneOrder, OrderedOnce
<1> QED
  BY <1>1, <1>2, BankingCorrect, PTL DEF CardsAccountedFor

\* ClosedForGood, of Banking: no call brings money to a closed account, and no
\* call opens it or brings a card that was put out of use back into use.
THEOREM Closed == Spec => ClosedForGood
<1> DEFINE SpentCardsStay ==
      \A c \in DOMAIN cards : cards[c].status \in {"CLOSED", "DEACTIVATED", "GRACE_PERIOD"} =>
        cards'[c] = cards[c]
    AllStay ==
      /\ \A a \in AccountIds : accounts[a].status = "CLOSED" =>
           accounts'[a].status = "CLOSED" /\ accounts'[a].holdings <= accounts[a].holdings
      /\ \A c \in DOMAIN cards : cards[c].status \in {"CLOSED", "DEACTIVATED", "GRACE_PERIOD"} =>
           cards'[c] = cards[c]
<1>1. BankingInv /\ BankingStep => ClosedAccountsStay /\ SpentCardsStay
  <2> SUFFICES ASSUME BankingInv, BankingStep PROVE ClosedAccountsStay /\ SpentCardsStay
    OBVIOUS
  <2>1. DOMAIN cards = CardNames /\ cards \in [CardNames -> CardRecords]
    BY DEF BankingInv, BankingTypes
  <2>2. accounts' = accounts => ClosedAccountsStay
    <3>1. \A a \in AccountIds : accounts[a].holdings <= accounts[a].holdings
      <4>1. \A a \in AccountIds : accounts[a].holdings \in Int
        BY AccountSet DEF BankingInv, BankingTypes
      <4> QED
        BY <4>1
    <3> QED
      BY <3>1 DEF ClosedAccountsStay
  <2>3. CASE AccountCall
    BY <2>3, AccountCalls, AccountsKept DEF BankingInv
  <2>4. CASE ElsewhereCall
    BY <2>2, <2>4, Elsewhere
  <2>5. CASE \E delivery \in {"STANDARD", "RUSH"}, fee \in CardFees : OrderDebitCard(delivery, fee)
    <3>1. PICK delivery \in {"STANDARD", "RUSH"}, fee \in CardFees : OrderDebitCard(delivery, fee)
      BY <2>5
    <3>2. /\ accounts["chk"].status = "OPEN" /\ accounts' = [accounts EXCEPT !["chk"].holdings = @ - fee]
          /\ \E r : cards' = [cards EXCEPT !["ordered"] = r]
          /\ cards["ordered"] = NoCard
      BY <3>1 DEF OrderDebitCard, Order, Usable, BankingInv, OneOrder
    <3>3. SpentCardsStay
      BY <2>1, <3>2 DEF NoCard
    <3>4. ClosedAccountsStay
      <4>1. \A a \in AccountIds : accounts[a].status = "CLOSED" => accounts'[a] = accounts[a]
        BY <3>2 DEF BankingInv, BankingTypes
      <4>2. \A a \in AccountIds : accounts[a].holdings \in Int
        BY AccountSet DEF BankingInv, BankingTypes
      <4>3. \A a \in AccountIds : accounts[a].holdings <= accounts[a].holdings
        BY <4>2
      <4> QED
        BY <4>1, <4>3 DEF ClosedAccountsStay
    <3> QED
      BY <3>3, <3>4
  <2>6. CASE \E c \in CardNames : CardCall(c)
    <3>1. PICK c \in CardNames : CardCall(c)
      BY <2>6
    <3>2. accounts' = accounts
      BY <3>1 DEF CardCall, Activate, ActivateNewCard, ActivateReplacementCard, ActivateReissuedCard,
                  CloseDebitCard, FreezeDebitCard, UnfreezeDebitCard
    <3>3. ASSUME NEW reasons, NEW others, Activate(c, reasons, others) PROVE SpentCardsStay
      BY <2>1, <3>3 DEF Activate
    <3>4. ASSUME NEW d \in CardNames, cards[d].status \in {"CLOSED", "DEACTIVATED", "GRACE_PERIOD"},
                 \/ \E reason \in {"fraud_suspected", "damaged"} : CloseDebitCard(c, reason)
                 \/ FreezeDebitCard(c) \/ UnfreezeDebitCard(c)
          PROVE  cards'[d] = cards[d]
      <4>1. d # c
        BY <3>4 DEF CloseDebitCard, FreezeDebitCard, UnfreezeDebitCard
      <4> QED
        BY <2>1, <3>4, <4>1 DEF CloseDebitCard, FreezeDebitCard, UnfreezeDebitCard
    <3> QED
      BY <2>1, <2>2, <3>1, <3>2, <3>3, <3>4 DEF CardCall, ActivateNewCard, ActivateReplacementCard, ActivateReissuedCard
  <2> QED
    BY <2>3, <2>4, <2>5, <2>6, BankingCalls DEF BankingInv
<1>2. BankingInv /\ [BankingNext]_bankingVars => [AllStay]_bankingVars
  BY <1>1 DEF BankingNext, ClosedAccountsStay
<1>3. [Next]_domainsVars => [BankingNext]_bankingVars
  BY DEF Next, domainsVars, TelecomStep, BankingPlayed, RetailPlayed, AirlinePlayed
<1> QED
  BY <1>2, <1>3, BankingCorrect, PTL DEF Spec, ClosedForGood
-----------------------------------------------------------------------------
(* Sums of money.                                                          *)

\* The sums of the first n amounts, for each n.
SumsOf(f, amounts) ==
  /\ f \in [0..Len(amounts) -> Int] /\ f[0] = 0
  /\ \A n \in 1..Len(amounts) : f[n] = f[n - 1] + amounts[n]

LEMMA SumsAgree ==
  ASSUME NEW amounts \in Seq(Int), NEW f, NEW g, SumsOf(f, amounts),
         \A n \in 0..Len(amounts) : g[n] = IF n = 0 THEN 0 ELSE g[n - 1] + amounts[n]
  PROVE  f[Len(amounts)] = g[Len(amounts)]
<1> DEFINE S == {n \in Nat : n <= Len(amounts) => f[n] = g[n]}
<1>1. Len(amounts) \in Nat
  BY LenProperties
<1>2. 0 \in S
  <2>1. 0 \in 0..Len(amounts)
    BY <1>1
  <2> QED
    BY <2>1 DEF SumsOf
<1>3. ASSUME NEW n \in Nat, n \in S PROVE n + 1 \in S
  <2>1. SUFFICES ASSUME n + 1 <= Len(amounts) PROVE f[n + 1] = g[n + 1]
    OBVIOUS
  <2>2. n + 1 \in 1..Len(amounts) /\ n + 1 \in 0..Len(amounts) /\ n + 1 # 0 /\ n + 1 - 1 = n
    BY <1>1, <2>1
  <2>3. f[n + 1] = f[n] + amounts[n + 1]
    BY <2>2 DEF SumsOf
  <2>4. g[n + 1] = g[n] + amounts[n + 1]
    BY <2>2
  <2>5. f[n] = g[n]
    BY <1>1, <1>3, <2>1
  <2> QED
    BY <2>3, <2>4, <2>5
<1>4. \A n \in Nat : n \in S
  <2> HIDE DEF S
  <2> QED
    BY <1>2, <1>3, SetInduction
<1> QED
  BY <1>1, <1>4

\* There are such sums, and Total is the last.
LEMMA TotalIs ==
  ASSUME NEW amounts \in Seq(Int)
  PROVE  /\ \E f : SumsOf(f, amounts)
         /\ \A f : SumsOf(f, amounts) => Total(amounts) = f[Len(amounts)]
         /\ Total(amounts) \in Int
<1> DEFINE Rule(f) == [n \in 0..Len(amounts) |-> IF n = 0 THEN 0 ELSE f[n - 1] + amounts[n]]
           upTo == CHOOSE f : f = Rule(f)
           add == [x \in (Nat \ {0}) \X Int |->
                     IF x[1] \in 1..Len(amounts) THEN x[2] + amounts[x[1]] ELSE x[2]]
<1>1. Len(amounts) \in Nat /\ \A n \in 1..Len(amounts) : amounts[n] \in Int
  BY LenProperties, ElementOfSeq
<1>2. \A n \in 1..Len(amounts), k \in Int : add[<<n, k>>] = k + amounts[n]
  BY <1>1
<1>3. PICK f : Steps(f, Int, 0, add, Len(amounts))
  <2>1. add \in [(Nat \ {0}) \X Int -> Int]
    <3>1. ASSUME NEW x \in (Nat \ {0}) \X Int
          PROVE  (IF x[1] \in 1..Len(amounts) THEN x[2] + amounts[x[1]] ELSE x[2]) \in Int
      <4>1. x[2] \in Int
        OBVIOUS
      <4> QED
        BY <1>1, <4>1
    <3> QED
      BY <3>1
  <2> HIDE DEF add
  <2>2. \A n \in Nat : \E f : Steps(f, Int, 0, add, n)
    <3>1. 0 \in Int
      OBVIOUS
    <3> QED
      BY <2>1, <3>1, StepsExist
  <2> QED
    BY <1>1, <2>2
<1>4. SumsOf(f, amounts)
  <2>1. /\ f \in [0..Len(amounts) -> Int] /\ f[0] = 0
        /\ \A n \in 1..Len(amounts) : f[n] = add[<<n, f[n - 1]>>]
    BY <1>3 DEF Steps
  <2>2. ASSUME NEW n \in 1..Len(amounts) PROVE f[n] = f[n - 1] + amounts[n]
    <3>1. n - 1 \in 0..Len(amounts)
      BY <1>1
    <3>2. f[n - 1] \in Int
      BY <2>1, <3>1
    <3> HIDE DEF add
    <3> QED
      BY <1>2, <2>1, <3>2
  <2> QED
    BY <2>1, <2>2 DEF SumsOf
<1>5. f = Rule(f)
  <2>1. \A n \in 0..Len(amounts) : f[n] = IF n = 0 THEN 0 ELSE f[n - 1] + amounts[n]
    BY <1>1, <1>4 DEF SumsOf
  <2>2. f = [n \in 0..Len(amounts) |-> f[n]]
    BY <1>4 DEF SumsOf
  <2> QED
    BY <2>1, <2>2
<1>6. upTo = Rule(upTo)
  <2>1. \E g : g = Rule(g)
    BY <1>5
  <2> QED
    BY <2>1
<1>7. \A n \in 0..Len(amounts) : upTo[n] = IF n = 0 THEN 0 ELSE upTo[n - 1] + amounts[n]
  <2> HIDE DEF upTo
  <2> QED
    BY <1>6
<1>8. Total(amounts) = upTo[Len(amounts)]
  BY DEF Total
<1> HIDE DEF upTo
<1>9. ASSUME NEW g, SumsOf(g, amounts) PROVE Total(amounts) = g[Len(amounts)]
  BY <1>7, <1>8, <1>9, SumsAgree
<1>10. f[Len(amounts)] \in Int
  BY <1>1, <1>4 DEF SumsOf
<1> QED
  BY <1>4, <1>9, <1>10

\* One amount more.
LEMMA TotalAppend ==
  ASSUME NEW s \in Seq(Int), NEW t \in Seq(Int), NEW k \in Int, Len(t) = Len(s) + 1,
         t[Len(t)] = k, \A n \in 1..Len(s) : t[n] = s[n]
  PROVE  Total(t) = Total(s) + k
<1>1. Len(s) \in Nat /\ Len(t) \in Nat
  BY LenProperties
<1>2. PICK f : SumsOf(f, t)
  BY TotalIs
<1>3. f[Len(t)] = f[Len(s)] + k
  <2>1. Len(t) \in 1..Len(t) /\ Len(t) - 1 = Len(s)
    BY <1>1
  <2>2. f[Len(t)] = f[Len(t) - 1] + t[Len(t)]
    BY <1>2, <2>1 DEF SumsOf
  <2> QED
    BY <2>1, <2>2
<1> DEFINE g == [n \in 0..Len(s) |-> f[n]]
<1>4. SumsOf(g, s)
  <2>1. g \in [0..Len(s) -> Int] /\ g[0] = 0
    BY <1>1, <1>2 DEF SumsOf
  <2>2. ASSUME NEW n \in 1..Len(s) PROVE g[n] = g[n - 1] + s[n]
    <3>1. n \in 0..Len(s) /\ n - 1 \in 0..Len(s) /\ n \in 1..Len(t)
      BY <1>1
    <3> QED
      BY <1>2, <3>1 DEF SumsOf
  <2> QED
    BY <2>1, <2>2 DEF SumsOf
<1>5. Total(s) = g[Len(s)] /\ Total(t) = f[Len(t)]
  BY <1>2, <1>4, TotalIs
<1>6. g[Len(s)] = f[Len(s)]
  BY <1>1
<1> QED
  BY <1>3, <1>5, <1>6

LEMMA TotalNone ==
  ASSUME NEW s \in Seq(Int), Len(s) = 0
  PROVE  Total(s) = 0
<1>1. PICK f : SumsOf(f, s)
  BY TotalIs
<1> QED
  BY <1>1, TotalIs DEF SumsOf

LEMMA TotalOne ==
  ASSUME NEW s \in Seq(Int), Len(s) = 1
  PROVE  Total(s) = s[1]
<1>1. PICK f : SumsOf(f, s)
  BY TotalIs
<1>2. s[1] \in Int
  BY ElementOfSeq
<1>3. f[1] = f[0] + s[1] /\ f[0] = 0
  BY <1>1 DEF SumsOf
<1>4. Total(s) = f[1]
  BY <1>1, TotalIs
<1> QED
  BY <1>2, <1>3, <1>4

LEMMA TotalTwo ==
  ASSUME NEW s \in Seq(Int), Len(s) = 2
  PROVE  Total(s) = s[1] + s[2]
<1>1. PICK f : SumsOf(f, s)
  BY TotalIs
<1>2. s[1] \in Int /\ s[2] \in Int
  BY ElementOfSeq
<1>3. f[2] = f[1] + s[2] /\ f[1] = f[0] + s[1] /\ f[0] = 0
  BY <1>1 DEF SumsOf
<1>4. Total(s) = f[2]
  BY <1>1, TotalIs
<1> QED
  BY <1>2, <1>3, <1>4

\* The amounts of two lists, one after the other.
Joined(u, s, t) ==
  /\ Len(u) = Len(s) + Len(t)
  /\ \A n \in 1..Len(s) : u[n] = s[n]
  /\ \A n \in 1..Len(t) : u[Len(s) + n] = t[n]

LEMMA TotalConcat ==
  ASSUME NEW s \in Seq(Int), NEW t \in Seq(Int), NEW u \in Seq(Int), Joined(u, s, t)
  PROVE  Total(u) = Total(s) + Total(t)
<1>1. Len(s) \in Nat /\ Len(t) \in Nat /\ Len(u) = Len(s) + Len(t)
  BY LenProperties DEF Joined
<1>2. PICK f : SumsOf(f, s)
  BY TotalIs
<1>3. PICK g : SumsOf(g, t)
  BY TotalIs
<1>4. /\ \A n \in 0..Len(s) : f[n] \in Int
      /\ \A n \in 0..Len(t) : g[n] \in Int
      /\ f[0] = 0 /\ g[0] = 0
  BY <1>2, <1>3 DEF SumsOf
<1>5. /\ \A n \in 1..Len(s) : f[n] = f[n - 1] + s[n]
      /\ \A n \in 1..Len(t) : g[n] = g[n - 1] + t[n]
  BY <1>2, <1>3 DEF SumsOf
<1> DEFINE h == [n \in 0..Len(u) |-> IF n <= Len(s) THEN f[n] ELSE f[Len(s)] + g[n - Len(s)]]
<1>6. \A n \in 0..Len(u) : /\ n <= Len(s) => h[n] = f[n]
                           /\ n >= Len(s) => h[n] = f[Len(s)] + g[n - Len(s)]
  <2> SUFFICES ASSUME NEW n \in 0..Len(u) PROVE /\ n <= Len(s) => h[n] = f[n]
                                                /\ n >= Len(s) => h[n] = f[Len(s)] + g[n - Len(s)]
    OBVIOUS
  <2>1. CASE n <= Len(s) /\ n # Len(s)
    BY <1>1, <2>1
  <2>2. CASE n = Len(s)
    <3>1. n - Len(s) = 0 /\ f[Len(s)] \in Int
      BY <1>1, <1>4, <2>2
    <3> QED
      BY <1>1, <1>4, <2>2, <3>1
  <2>3. CASE ~(n <= Len(s))
    BY <1>1, <2>3
  <2> QED
    BY <1>1, <2>1, <2>2, <2>3
<1>7. h \in [0..Len(u) -> Int]
  <2>1. ASSUME NEW n \in 0..Len(u)
        PROVE  (IF n <= Len(s) THEN f[n] ELSE f[Len(s)] + g[n - Len(s)]) \in Int
    <3>1. CASE n <= Len(s)
      BY <1>1, <1>4, <3>1
    <3>2. CASE ~(n <= Len(s))
      <4>1. n - Len(s) \in 0..Len(t) /\ Len(s) \in 0..Len(s)
        BY <1>1, <3>2
      <4>2. f[Len(s)] \in Int /\ g[n - Len(s)] \in Int
        BY <1>4, <4>1
      <4>3. f[Len(s)] + g[n - Len(s)] \in Int
        BY <4>2
      <4> QED
        BY <3>2, <4>3
    <3> QED
      BY <3>1, <3>2
  <2> QED
    BY <2>1
<1> HIDE DEF h
<1>8. h[0] = 0
  BY <1>1, <1>4, <1>6
<1>9. ASSUME NEW n \in 1..Len(u) PROVE h[n] = h[n - 1] + u[n]
  <2>1. n \in 0..Len(u) /\ n - 1 \in 0..Len(u)
    BY <1>1
  <2>2. CASE n <= Len(s)
    <3>1. n \in 1..Len(s) /\ n - 1 <= Len(s)
      BY <1>1, <2>2
    <3> QED
      BY <1>5, <1>6, <2>1, <2>2, <3>1 DEF Joined
  <2>3. CASE ~(n <= Len(s))
    <3>1. PICK m \in 1..Len(t) : n = Len(s) + m
      <4>1. n - Len(s) \in 1..Len(t) /\ n = Len(s) + (n - Len(s))
        BY <1>1, <2>3
      <4> QED
        BY <4>1
    <3>2. /\ n >= Len(s) /\ n - 1 >= Len(s) /\ n - Len(s) = m /\ n - 1 - Len(s) = m - 1
          /\ m - 1 \in 0..Len(t) /\ Len(s) \in 0..Len(s)
      <4>1. m \in Nat /\ m >= 1 /\ m <= Len(t) /\ Len(s) \in Nat /\ Len(t) \in Nat
        BY <1>1, <3>1
      <4>2. n >= Len(s) /\ n - 1 >= Len(s) /\ n - Len(s) = m /\ n - 1 - Len(s) = m - 1
        BY <3>1, <4>1
      <4>3. m - 1 \in 0..Len(t) /\ Len(s) \in 0..Len(s)
        BY <4>1
      <4> QED
        BY <4>2, <4>3
    <3>3. h[n] = f[Len(s)] + g[m] /\ h[n - 1] = f[Len(s)] + g[m - 1]
      BY <1>6, <2>1, <3>2
    <3>4. u[n] = t[m] /\ g[m] = g[m - 1] + t[m]
      BY <1>5, <3>1 DEF Joined
    <3>5. f[Len(s)] \in Int /\ g[m - 1] \in Int /\ t[m] \in Int
      BY <1>4, <3>2, ElementOfSeq
    <3> QED
      BY <3>3, <3>4, <3>5
  <2> QED
    BY <2>2, <2>3
<1>10. Total(u) = h[Len(u)] /\ Total(s) = f[Len(s)] /\ Total(t) = g[Len(t)]
  <2>1. SumsOf(h, u)
    BY <1>7, <1>8, <1>9 DEF SumsOf
  <2> QED
    BY <1>2, <1>3, <2>1, TotalIs
<1>11. h[Len(u)] = f[Len(s)] + g[Len(t)]
  <2>1. Len(u) \in 0..Len(u) /\ Len(u) >= Len(s) /\ Len(u) - Len(s) = Len(t)
    BY <1>1
  <2> QED
    BY <1>6, <2>1
<1> QED
  BY <1>10, <1>11

\* One amount changed.
LEMMA TotalChanged ==
  ASSUME NEW s \in Seq(Int), NEW t \in Seq(Int), Len(t) = Len(s), NEW k \in 1..Len(s), NEW d \in Int,
         t[k] = s[k] + d, \A n \in 1..Len(s) : n # k => t[n] = s[n]
  PROVE  Total(t) = Total(s) + d
<1>1. Len(s) \in Nat /\ \A n \in 1..Len(s) : s[n] \in Int
  BY LenProperties, ElementOfSeq
<1>2. PICK f : SumsOf(f, s)
  BY TotalIs
<1>3. /\ \A n \in 0..Len(s) : f[n] \in Int
      /\ \A n \in 1..Len(s) : f[n] = f[n - 1] + s[n]
      /\ f[0] = 0
  BY <1>2 DEF SumsOf
<1> DEFINE g == [n \in 0..Len(t) |-> IF n < k THEN f[n] ELSE f[n] + d]
<1>4. g \in [0..Len(t) -> Int] /\ g[0] = 0
  <2>1. g[0] = 0
    <3>1. 0 \in 0..Len(t) /\ 0 < k
      BY <1>1
    <3> QED
      BY <1>3, <3>1
  <2>2. ASSUME NEW n \in 0..Len(t) PROVE (IF n < k THEN f[n] ELSE f[n] + d) \in Int
    <3>1. f[n] \in Int
      BY <1>3
    <3> QED
      BY <3>1
  <2>3. g \in [0..Len(t) -> Int]
    BY <2>2
  <2> QED
    BY <2>1, <2>3
<1>5. ASSUME NEW n \in 1..Len(t) PROVE g[n] = g[n - 1] + t[n]
  <2>1. n \in 0..Len(t) /\ n - 1 \in 0..Len(t)
    BY <1>1
  <2>2. f[n] = f[n - 1] + s[n] /\ f[n - 1] \in Int /\ s[n] \in Int
    BY <1>1, <1>3, <2>1
  <2>3. CASE n < k
    BY <2>1, <2>2, <2>3
  <2>4. CASE n = k
    <3>1. n - 1 < k /\ ~(n < k) /\ k \in Int
      BY <2>4
    <3>2. g[n] = f[n] + d /\ g[n - 1] = f[n - 1]
      BY <2>1, <3>1
    <3>3. t[n] = s[n] + d
      BY <2>4
    <3> HIDE DEF g
    <3> QED
      BY <2>2, <3>2, <3>3
  <2>5. CASE n > k
    <3>1. n # k /\ n - 1 >= k /\ k \in Int
      BY <2>5
    <3>2. g[n] = f[n] + d /\ g[n - 1] = f[n - 1] + d /\ t[n] = s[n]
      BY <2>1, <2>5, <3>1
    <3> HIDE DEF g
    <3> QED
      BY <2>2, <3>2
  <2> QED
    BY <1>1, <2>3, <2>4, <2>5
<1>6. SumsOf(g, t)
  BY <1>4, <1>5 DEF SumsOf
<1>7. Total(t) = g[Len(t)] /\ Total(s) = f[Len(s)]
  BY <1>2, <1>6, TotalIs
<1>8. g[Len(t)] = f[Len(s)] + d
  BY <1>1
<1> QED
  BY <1>7, <1>8

\* The same amounts taken instead of given.
LEMMA TotalNegated ==
  ASSUME NEW s \in Seq(Int), NEW t \in Seq(Int), Len(t) = Len(s), \A n \in 1..Len(s) : t[n] = -s[n]
  PROVE  Total(t) = -Total(s)
<1>1. Len(s) \in Nat /\ \A n \in 1..Len(s) : s[n] \in Int
  BY LenProperties, ElementOfSeq
<1>2. PICK f : SumsOf(f, s)
  BY TotalIs
<1>3. /\ \A n \in 0..Len(s) : f[n] \in Int
      /\ \A n \in 1..Len(s) : f[n] = f[n - 1] + s[n]
      /\ f[0] = 0
  BY <1>2 DEF SumsOf
<1> DEFINE g == [n \in 0..Len(t) |-> -f[n]]
<1>4. g \in [0..Len(t) -> Int] /\ g[0] = 0
  BY <1>1, <1>3
<1>5. ASSUME NEW n \in 1..Len(t) PROVE g[n] = g[n - 1] + t[n]
  <2>1. n \in 0..Len(t) /\ n - 1 \in 0..Len(t)
    BY <1>1
  <2>2. f[n] = f[n - 1] + s[n] /\ f[n - 1] \in Int /\ s[n] \in Int
    BY <1>1, <1>3, <2>1
  <2>3. g[n] = -f[n] /\ g[n - 1] = -f[n - 1] /\ t[n] = -s[n]
    BY <2>1
  <2> HIDE DEF g
  <2> QED
    BY <2>2, <2>3
<1>6. SumsOf(g, t)
  BY <1>4, <1>5 DEF SumsOf
<1>7. Total(t) = g[Len(t)] /\ Total(s) = f[Len(s)]
  BY <1>2, <1>6, TotalIs
<1> QED
  BY <1>1, <1>7

\* No amount below 0.
LEMMA TotalNatural ==
  ASSUME NEW s \in Seq(Nat)
  PROVE  s \in Seq(Int) /\ Total(s) \in Nat
<1>1. Len(s) \in Nat /\ \A n \in 1..Len(s) : s[n] \in Nat
  BY LenProperties, ElementOfSeq
<1>2. s \in Seq(Int)
  <2>1. s \in [1..Len(s) -> Int]
    <3>1. s \in [1..Len(s) -> Nat]
      BY LenProperties
    <3> QED
      BY <3>1
  <2> QED
    BY <1>1, <2>1, FunctionIsSeq
<1>3. PICK f : SumsOf(f, s)
  BY <1>2, TotalIs
<1>4. f[0] = 0 /\ \A n \in 1..Len(s) : f[n] = f[n - 1] + s[n]
  BY <1>3 DEF SumsOf
<1> DEFINE S == {n \in Nat : n <= Len(s) => f[n] \in Nat}
<1>5. 0 \in S
  BY <1>4
<1>6. ASSUME NEW n \in Nat, n \in S PROVE n + 1 \in S
  <2>1. SUFFICES ASSUME n + 1 <= Len(s) PROVE f[n + 1] \in Nat
    OBVIOUS
  <2>2. n + 1 \in 1..Len(s) /\ n + 1 - 1 = n /\ f[n] \in Nat
    BY <1>1, <1>6, <2>1
  <2>3. f[n + 1] = f[n] + s[n + 1] /\ s[n + 1] \in Nat
    BY <1>1, <1>4, <2>2
  <2> QED
    BY <2>2, <2>3
<1>7. \A n \in Nat : n \in S
  <2> HIDE DEF S
  <2> QED
    BY <1>5, <1>6, SetInduction
<1>8. f[Len(s)] \in Nat
  BY <1>1, <1>7
<1> QED
  BY <1>2, <1>3, <1>8, TotalIs

LEMMA TotalZeros ==
  ASSUME NEW s \in Seq(Int), \A n \in 1..Len(s) : s[n] = 0
  PROVE  Total(s) = 0
<1> DEFINE f == [n \in 0..Len(s) |-> 0]
<1>1. Len(s) \in Nat
  BY LenProperties
<1>2. SumsOf(f, s)
  BY <1>1 DEF SumsOf
<1> QED
  BY <1>1, <1>2, TotalIs
-----------------------------------------------------------------------------
(* Airline.                                                                *)

PaymentMethods == {"credit_card", "gift_card"} \cup AllCertificates
PaymentRecords == [method : PaymentMethods, amount : Int]
Legs == [flight : Flights, price : Int]
ReservationRecords ==
  [cabin : Cabins, flights : Seq(Legs), insured : BOOLEAN, nonfree : Int,
   history : Seq(PaymentRecords), cancelled : BOOLEAN, givenUp : Int]

AirlineTypes ==
  /\ seats \in [Flights -> [Cabins -> Int]]
  /\ reservations \in Seq(ReservationRecords)
  /\ giftCard \in Int /\ namedTwice \in BOOLEAN
  /\ certificates \subseteq AllCertificates

PaidWith(m, history) == \E j \in 1..Len(history) : history[j].method = m
HasUsed(m) == \E i \in 1..Len(reservations) : PaidWith(m, reservations[i].history)
AmountOf(history) == Total([i \in DOMAIN history |-> history[i].amount])
PaidFor(r) == \/ r.cancelled
              \/ AmountOf(r.history) = Cost(r.flights, r.insured, r.nonfree) + 50 * r.givenUp

\* The user's certificate is there or a reservation was paid with it, not both.
OneOrTheOther == "certificate_own" \in certificates <=> ~HasUsed("certificate_own")

AirlineInv ==
  /\ AirlineTypes
  /\ \A f \in Flights \ listedTwice, c \in Cabins : seats[f][c] >= 0
  /\ \A i \in 1..Len(reservations) : PaidFor(reservations[i])
  /\ namedTwice \/ (giftCard >= 0 /\ OneOrTheOther)

LEMMA CertificateNames ==
  /\ ToSet(CertificateIds) = {"certificate_3221322", "certificate_3221323", "certificate_3221324"}
  /\ "certificate_own" \in AllCertificates /\ "certificate_own" \notin ToSet(CertificateIds)
  /\ "credit_card" \notin AllCertificates /\ "gift_card" \notin AllCertificates
  /\ \A i \in 1..3 : CertificateIds[i] \in AllCertificates
<1>1. DOMAIN CertificateIds = 1..3
  BY DEF CertificateIds
<1>2. ToSet(CertificateIds) = {CertificateIds[1], CertificateIds[2], CertificateIds[3]}
  BY <1>1 DEF ToSet
<1>3. ToSet(CertificateIds) = {"certificate_3221322", "certificate_3221323", "certificate_3221324"}
  BY <1>2 DEF CertificateIds
<1>4. \A i \in 1..3 : CertificateIds[i] \in ToSet(CertificateIds)
  BY <1>1 DEF ToSet
<1> QED
  BY <1>3, <1>4 DEF AllCertificates

LEMMA AmountsTyped ==
  ASSUME NEW h \in Seq(PaymentRecords)
  PROVE  /\ [i \in DOMAIN h |-> h[i].amount] \in Seq(Int) /\ Len([i \in DOMAIN h |-> h[i].amount]) = Len(h)
         /\ AmountOf(h) \in Int /\ Len(h) \in Nat /\ DOMAIN h = 1..Len(h)
         /\ \A i \in 1..Len(h) : h[i] \in PaymentRecords /\ h[i].amount \in Int
<1>1. Len(h) \in Nat /\ DOMAIN h = 1..Len(h) /\ \A i \in 1..Len(h) : h[i] \in PaymentRecords
  BY LenProperties, ElementOfSeq
<1>2. \A i \in 1..Len(h) : h[i].amount \in Int
  BY <1>1 DEF PaymentRecords
<1>3. [i \in DOMAIN h |-> h[i].amount] \in [1..Len(h) -> Int]
  BY <1>1, <1>2
<1>4. [i \in DOMAIN h |-> h[i].amount] \in Seq(Int) /\ Len([i \in DOMAIN h |-> h[i].amount]) = Len(h)
  BY <1>1, <1>3, FunctionIsSeq
<1>5. AmountOf(h) \in Int
  BY <1>4, TotalIs DEF AmountOf
<1> QED
  BY <1>1, <1>2, <1>4, <1>5

LEMMA FaresTyped ==
  ASSUME NEW flights \in Seq(Legs)
  PROVE  FaresOf(flights) \in Int
<1>1. Len(flights) \in Nat /\ DOMAIN flights = 1..Len(flights) /\ \A i \in 1..Len(flights) : flights[i] \in Legs
  BY LenProperties, ElementOfSeq
<1>2. \A i \in 1..Len(flights) : flights[i].price \in Int
  BY <1>1 DEF Legs
<1>3. [i \in DOMAIN flights |-> flights[i].price] \in [1..Len(flights) -> Int]
  BY <1>1, <1>2
<1>4. [i \in DOMAIN flights |-> flights[i].price] \in Seq(Int)
  BY <1>1, <1>3, FunctionIsSeq
<1> QED
  BY <1>4, TotalIs DEF FaresOf

LEMMA CostTyped ==
  ASSUME NEW flights \in Seq(Legs), NEW insured \in BOOLEAN, NEW nonfree \in Int
  PROVE  /\ FaresOf(flights) * Party \in Int /\ Party \in Nat
         /\ Cost(flights, insured, nonfree) \in Int
         /\ \A m \in Int : Cost(flights, insured, m) = Cost(flights, insured, nonfree) + 50 * (m - nonfree)
<1>1. FaresOf(flights) \in Int /\ Party \in Nat
  BY FaresTyped, AirlineAssumption
<1> DEFINE fares == FaresOf(flights) * Party
           insurance == IF insured THEN 30 * Party ELSE 0
<1>2. fares \in Int /\ insurance \in Int
  BY <1>1
<1>3. \A m : Cost(flights, insured, m) = fares + insurance + 50 * m
  BY DEF Cost
<1> HIDE DEF fares, insurance
<1> QED
  BY <1>1, <1>2, <1>3 DEF fares

LEMMA ListsTyped ==
  ASSUME NEW list \in Lists
  PROVE  list \in Seq(Flights)
<1>1. PICK n \in 1..MaxListed : list \in [1..n -> Flights]
  BY DEF Lists
<1>2. n \in Nat
  BY AirlineAssumption
<1> QED
  BY <1>1, <1>2, FunctionIsSeq

\* How often a flight is named: never, or there is a place where it is.
LEMMA EntriesCounted ==
  ASSUME NEW list \in Seq(Flights), NEW f
  PROVE  /\ Entries(list, f) \in Nat
         /\ Entries(list, f) # 0 => \E i \in DOMAIN list : list[i] = f
<1> DEFINE places == {i \in DOMAIN list : list[i] = f}
<1>1. Len(list) \in Nat /\ DOMAIN list = 1..Len(list)
  BY LenProperties
<1>2. IsFiniteSet(1..Len(list))
  BY <1>1, FS_Interval
<1>3. IsFiniteSet(places)
  BY <1>1, <1>2, FS_Subset
<1>4. Cardinality(places) \in Nat /\ (places = {} => Cardinality(places) = 0)
  BY <1>3, FS_CardinalityType, FS_EmptySet
<1> QED
  BY <1>4 DEF Entries

LEMMA JourneyTyped ==
  ASSUME NEW list \in Seq(Flights), NEW cabin \in Cabins
  PROVE  Journey(list, cabin) \in Seq(Legs)
<1>1. Len(list) \in Nat /\ DOMAIN list = 1..Len(list) /\ \A i \in 1..Len(list) : list[i] \in Flights
  BY LenProperties, ElementOfSeq
<1>2. ASSUME NEW i \in 1..Len(list)
      PROVE  [flight |-> list[i], price |-> Fares[list[i]][cabin]] \in Legs
  <2>1. Fares[list[i]] \in [Cabins -> Nat]
    BY <1>1, AirlineAssumption
  <2>2. Fares[list[i]][cabin] \in Int
    BY <2>1
  <2> QED
    BY <1>1, <2>2 DEF Legs
<1>3. Journey(list, cabin) \in [1..Len(list) -> Legs]
  BY <1>1, <1>2 DEF Journey
<1> QED
  BY <1>1, <1>3, FunctionIsSeq

LEMMA PaymentsTyped ==
  ASSUME NEW total \in Int, NEW payments \in Payments(total)
  PROVE  /\ payments \in Seq(PaymentRecords) /\ Len(payments) \in {1, 2}
<1>1. CertificateAmount \in Int /\ PayMethods \subseteq PaymentMethods
  BY AirlineAssumption, CertificateNames DEF PayMethods, PaymentMethods
<1>2. CASE \E m \in PayMethods : payments = <<[method |-> m, amount |-> total]>>
  <2>1. PICK r \in PaymentRecords : payments = <<r>>
    BY <1>1, <1>2 DEF PaymentRecords
  <2> QED
    BY <2>1
<1>3. CASE \E m, n \in PayMethods :
             payments = <<[method |-> m, amount |-> CertificateAmount],
                          [method |-> n, amount |-> total - CertificateAmount]>>
  <2>1. PICK r \in PaymentRecords, q \in PaymentRecords : payments = <<r, q>>
    BY <1>1, <1>3 DEF PaymentRecords
  <2> QED
    BY <2>1
<1> QED
  BY <1>2, <1>3 DEF Payments

LEMMA AirlineStart == AirlineInit => AirlineInv
<1> SUFFICES ASSUME AirlineInit PROVE AirlineInv
  OBVIOUS
<1>1. Seats \in Nat /\ GiftCard \in Nat
  BY AirlineAssumption
<1>2. seats \in [Flights -> [Cabins -> Int]] /\ \A f \in Flights, c \in Cabins : seats[f][c] >= 0
  BY <1>1 DEF AirlineInit
<1>3. reservations \in Seq(ReservationRecords) /\ Len(reservations) = 0
  BY EmptySeq DEF AirlineInit
<1>4. AirlineTypes
  <2>1. certificates \subseteq AllCertificates
    BY CertificateNames DEF AirlineInit
  <2>2. giftCard = GiftCard /\ GiftCard \in Int
    BY <1>1 DEF AirlineInit
  <2>3. namedTwice \in BOOLEAN
    BY Zenon DEF AirlineInit
  <2> QED
    BY <1>2, <1>3, <2>1, <2>2, <2>3 DEF AirlineTypes
<1>5. ~HasUsed("certificate_own") /\ \A i \in 1..Len(reservations) : PaidFor(reservations[i])
  BY <1>3 DEF HasUsed
<1> QED
  BY <1>1, <1>2, <1>4, <1>5 DEF AirlineInit, AirlineInv, OneOrTheOther

\* A reservation changed: paid for as before, and by the same certificates.
LEMMA ReservationSet ==
  ASSUME AirlineInv, NEW r \in 1..Len(reservations), NEW n \in ReservationRecords,
         reservations' = [reservations EXCEPT ![r] = n],
         PaidFor(n),
         PaidWith("certificate_own", n.history) <=> PaidWith("certificate_own", reservations[r].history),
         UNCHANGED <<seats, certificates, namedTwice, listedTwice>>,
         giftCard' \in Int, giftCard >= 0 => giftCard' >= 0
  PROVE  AirlineInv'
<1>1. reservations \in Seq(ReservationRecords) /\ Len(reservations) \in Nat
  BY LenProperties DEF AirlineInv, AirlineTypes
<1>2. /\ reservations' \in Seq(ReservationRecords) /\ Len(reservations') = Len(reservations)
      /\ reservations'[r] = n /\ \A i \in 1..Len(reservations) : i # r => reservations'[i] = reservations[i]
  BY <1>1, ExceptSeq
<1>3. AirlineTypes'
  BY <1>2 DEF AirlineInv, AirlineTypes
<1>4. HasUsed("certificate_own")' <=> HasUsed("certificate_own")
  <2>1. \A i \in 1..Len(reservations) : PaidWith("certificate_own", reservations'[i].history)
                                        <=> PaidWith("certificate_own", reservations[i].history)
    BY <1>2
  <2> QED
    BY <1>2, <2>1 DEF HasUsed
<1>5. \A i \in 1..Len(reservations') : PaidFor(reservations'[i])
  BY <1>2 DEF AirlineInv
<1> QED
  BY <1>3, <1>4, <1>5 DEF AirlineInv, OneOrTheOther, PaidFor

LEMMA ReservationAt ==
  ASSUME AirlineInv, NEW r \in DOMAIN reservations
  PROVE  /\ r \in 1..Len(reservations) /\ reservations[r] \in ReservationRecords /\ PaidFor(reservations[r])
         /\ reservations[r].flights \in Seq(Legs) /\ reservations[r].insured \in BOOLEAN
         /\ reservations[r].nonfree \in Int /\ reservations[r].history \in Seq(PaymentRecords)
         /\ reservations[r].givenUp \in Int /\ reservations[r].cancelled \in BOOLEAN
<1>1. reservations \in Seq(ReservationRecords) /\ r \in 1..Len(reservations)
  BY LenProperties DEF AirlineInv, AirlineTypes
<1>2. reservations[r] \in ReservationRecords
  BY <1>1, ElementOfSeq
<1> QED
  BY <1>1, <1>2 DEF AirlineInv, ReservationRecords

\* A payment entered, unless it is of nothing.
LEMMA PaymentEntered ==
  ASSUME NEW h \in Seq(PaymentRecords), NEW method \in {"credit_card", "gift_card"}, NEW price \in Int
  PROVE  /\ HistoryAfter(h, method, price) \in Seq(PaymentRecords)
         /\ AmountOf(HistoryAfter(h, method, price)) = AmountOf(h) + price
         /\ PaidWith("certificate_own", HistoryAfter(h, method, price)) <=> PaidWith("certificate_own", h)
<1>1. CASE price = 0
  <2>1. HistoryAfter(h, method, price) = h
    BY <1>1 DEF HistoryAfter
  <2>2. AmountOf(h) \in Int
    BY AmountsTyped
  <2> QED
    BY <1>1, <2>1, <2>2
<1>2. CASE price # 0
  <2> DEFINE e == [method |-> method, amount |-> price]
             after == Append(h, e)
  <2>1. e \in PaymentRecords /\ e.amount = price /\ e.method # "certificate_own"
    BY DEF PaymentRecords, PaymentMethods
  <2>2. HistoryAfter(h, method, price) = after
    BY <1>2 DEF HistoryAfter
  <2> HIDE DEF e
  <2>3. /\ after \in Seq(PaymentRecords) /\ Len(after) = Len(h) + 1
        /\ after[Len(h) + 1] = e /\ \A i \in 1..Len(h) : after[i] = h[i]
    BY <2>1, AppendProperties
  <2> HIDE DEF after
  <2> DEFINE s == [i \in DOMAIN h |-> h[i].amount]
             t == [i \in DOMAIN after |-> after[i].amount]
  <2>4. s \in Seq(Int) /\ t \in Seq(Int) /\ Len(s) = Len(h) /\ Len(t) = Len(h) + 1 /\ Len(h) \in Nat
        /\ DOMAIN h = 1..Len(h) /\ DOMAIN after = 1..(Len(h) + 1)
    BY <2>3, AmountsTyped
  <2>5. \A n \in 1..Len(h) : t[n] = s[n]
    BY <2>3, <2>4
  <2>6. t[Len(h) + 1] = price
    BY <2>1, <2>3, <2>4
  <2> HIDE DEF s, t
  <2>7. Total(t) = Total(s) + price
    BY <2>4, <2>5, <2>6, TotalAppend
  <2>8. AmountOf(after) = AmountOf(h) + price
    BY <2>7 DEF AmountOf, s, t
  <2>9. PaidWith("certificate_own", after) <=> PaidWith("certificate_own", h)
    <3>1. \A j \in 1..Len(after) : j \in 1..Len(h) \/ j = Len(h) + 1
      BY <2>3, <2>4
    <3>2. \A j \in 1..Len(h) : j \in 1..Len(after)
      BY <2>3, <2>4
    <3> QED
      BY <2>1, <2>3, <3>1, <3>2 DEF PaidWith
  <2> QED
    BY <2>2, <2>3, <2>8, <2>9
<1> QED
  BY <1>1, <1>2

LEMMA GiftCardKept ==
  ASSUME NEW price \in Int, NEW method, giftCard \in Int, PaysForUpdate(method, price)
  PROVE  GiftCardAfter(method, price) \in Int /\ (giftCard >= 0 => GiftCardAfter(method, price) >= 0)
<1>1. CASE method = "gift_card"
  <2>1. GiftCardAfter(method, price) = giftCard - price /\ giftCard >= price
    BY <1>1 DEF GiftCardAfter, PaysForUpdate
  <2> QED
    BY <2>1
<1>2. CASE method # "gift_card"
  BY <1>2 DEF GiftCardAfter
<1> QED
  BY <1>1, <1>2

LEMMA Cancels ==
  ASSUME AirlineInv, NEW r \in DOMAIN reservations, CancelReservation(r)
  PROVE  AirlineInv'
<1> DEFINE q == reservations[r]
           reversed == Reversed(q.history)
           after == q.history \o reversed
           n == [q EXCEPT !.history = after, !.cancelled = TRUE]
<1>1. q \in ReservationRecords /\ q.history \in Seq(PaymentRecords) /\ r \in 1..Len(reservations)
  BY ReservationAt
<1>2. Len(q.history) \in Nat /\ DOMAIN q.history = 1..Len(q.history)
      /\ \A i \in 1..Len(q.history) : q.history[i] \in PaymentRecords
  BY <1>1, AmountsTyped
<1>3. ASSUME NEW e \in PaymentRecords
      PROVE  [e EXCEPT !.amount = -@] \in PaymentRecords /\ [e EXCEPT !.amount = -@].method = e.method
  BY DEF PaymentRecords
<1>4. reversed \in [1..Len(q.history) -> PaymentRecords]
      /\ \A i \in 1..Len(q.history) : reversed[i].method = q.history[i].method
  <2> HIDE DEF q
  <2>1. reversed = [i \in 1..Len(q.history) |-> [q.history[i] EXCEPT !.amount = -@]]
    BY <1>2 DEF Reversed
  <2> HIDE DEF reversed
  <2> QED
    BY <1>2, <1>3, <2>1
<1>5. reversed \in Seq(PaymentRecords) /\ Len(reversed) = Len(q.history)
  BY <1>2, <1>4, FunctionIsSeq
<1>6. /\ after \in Seq(PaymentRecords) /\ Len(after) = Len(q.history) + Len(q.history)
      /\ \A i \in 1..(Len(q.history) + Len(q.history)) :
           after[i] = IF i <= Len(q.history) THEN q.history[i] ELSE reversed[i - Len(q.history)]
  <2> DEFINE h == q.history
  <2>1. h \in Seq(PaymentRecords) /\ reversed \in Seq(PaymentRecords) /\ Len(reversed) = Len(h)
    BY <1>1, <1>5
  <2> HIDE DEF reversed, h
  <2>2. /\ h \o reversed \in Seq(PaymentRecords) /\ Len(h \o reversed) = Len(h) + Len(reversed)
        /\ \A i \in 1..(Len(h) + Len(reversed)) :
             (h \o reversed)[i] = IF i <= Len(h) THEN h[i] ELSE reversed[i - Len(h)]
    BY <2>1, ConcatProperties
  <2>3. after = h \o reversed
    BY DEF h
  <2> HIDE DEF after
  <2>4. /\ after \in Seq(PaymentRecords) /\ Len(after) = Len(h) + Len(h)
        /\ \A i \in 1..(Len(h) + Len(h)) : after[i] = IF i <= Len(h) THEN h[i] ELSE reversed[i - Len(h)]
    BY <2>1, <2>2, <2>3
  <2> QED
    BY <2>4 DEF h
<1>7. PaidWith("certificate_own", after) <=> PaidWith("certificate_own", q.history)
  <2> HIDE DEF reversed, q, after
  <2>1. ASSUME NEW i \in 1..Len(after), after[i].method = "certificate_own"
        PROVE  \E j \in 1..Len(q.history) : q.history[j].method = "certificate_own"
    <3>1. CASE i <= Len(q.history)
      <4>1. i \in 1..Len(q.history) /\ after[i] = q.history[i]
        BY <1>2, <1>6, <3>1
      <4> QED
        BY <2>1, <4>1
    <3>2. CASE ~(i <= Len(q.history))
      <4>1. i - Len(q.history) \in 1..Len(q.history) /\ after[i] = reversed[i - Len(q.history)]
        BY <1>2, <1>6, <3>2
      <4> QED
        BY <1>4, <2>1, <4>1
    <3> QED
      BY <3>1, <3>2
  <2>2. ASSUME NEW j \in 1..Len(q.history) PROVE j \in 1..Len(after) /\ after[j] = q.history[j]
    BY <1>2, <1>6
  <2> QED
    BY <2>1, <2>2 DEF PaidWith
<1>8. n \in ReservationRecords /\ n.cancelled /\ n.history = after
  <2> HIDE DEF reversed, q, after
  <2> QED
    BY <1>1, <1>6 DEF ReservationRecords
<1>9. reservations' = [reservations EXCEPT ![r] = n]
  <2>1. reservations' = [reservations EXCEPT ![r].history = q.history \o reversed, ![r].cancelled = TRUE]
    BY DEF CancelReservation
  <2> HIDE DEF reversed
  <2> QED
    BY <2>1
<1>10. UNCHANGED <<seats, certificates, namedTwice, listedTwice, giftCard>>
  BY DEF CancelReservation
<1> HIDE DEF n
<1>11. PaidFor(n)
  BY <1>8 DEF PaidFor
<1> HIDE DEF reversed, after
<1>12. giftCard' \in Int /\ (giftCard >= 0 => giftCard' >= 0)
  BY <1>10 DEF AirlineInv, AirlineTypes
<1>13. PaidWith("certificate_own", n.history) <=> PaidWith("certificate_own", reservations[r].history)
  BY <1>7, <1>8 DEF q
<1> HIDE DEF q
<1> QED
  BY <1>1, <1>8, <1>9, <1>10, <1>11, <1>12, <1>13, ReservationSet

LEMMA BagsChange ==
  ASSUME AirlineInv, NEW r \in DOMAIN reservations, NEW nonfree \in 0..1,
         NEW method \in {"credit_card", "gift_card"}, UpdateReservationBaggages(r, nonfree, method)
  PROVE  AirlineInv'
<1> DEFINE q == reservations[r]
           more == nonfree - q.nonfree
           price == IF more > 0 THEN 50 * more ELSE 0
           after == HistoryAfter(q.history, method, price)
           up == q.givenUp + (IF more < 0 THEN -more ELSE 0)
           n == [q EXCEPT !.history = after, !.nonfree = nonfree, !.givenUp = up]
<1>1. /\ q \in ReservationRecords /\ r \in 1..Len(reservations) /\ PaidFor(q)
      /\ q.flights \in Seq(Legs) /\ q.insured \in BOOLEAN /\ q.nonfree \in Int
      /\ q.history \in Seq(PaymentRecords) /\ q.givenUp \in Int /\ q.cancelled \in BOOLEAN
  BY ReservationAt
<1>2. more \in Int /\ price \in Int /\ up \in Int
  BY <1>1
<1>3. PaysForUpdate(method, price) /\ giftCard' = GiftCardAfter(method, price)
      /\ reservations' = [reservations EXCEPT ![r] = n]
      /\ UNCHANGED <<seats, certificates, namedTwice, listedTwice>>
  BY DEF UpdateReservationBaggages
<1>4. giftCard' \in Int /\ (giftCard >= 0 => giftCard' >= 0)
  BY <1>2, <1>3, GiftCardKept DEF AirlineInv, AirlineTypes
<1>5. /\ after \in Seq(PaymentRecords) /\ AmountOf(after) = AmountOf(q.history) + price
      /\ PaidWith("certificate_own", after) <=> PaidWith("certificate_own", q.history)
  <2> HIDE DEF price, q
  <2> QED
    BY <1>1, <1>2, PaymentEntered
<1>6. /\ n \in ReservationRecords /\ n.history = after /\ n.nonfree = nonfree /\ n.givenUp = up
      /\ n.flights = q.flights /\ n.insured = q.insured /\ n.cancelled = q.cancelled
  <2>1. nonfree \in Int
    OBVIOUS
  <2> HIDE DEF after, up, q
  <2> QED
    BY <1>1, <1>2, <1>5, <2>1 DEF ReservationRecords
<1>7. PaidFor(n)
  <2>1. Cost(q.flights, q.insured, nonfree) = Cost(q.flights, q.insured, q.nonfree) + 50 * more
        /\ Cost(q.flights, q.insured, q.nonfree) \in Int
    <3> HIDE DEF q
    <3>1. nonfree \in Int
      OBVIOUS
    <3>2. /\ Cost(q.flights, q.insured, q.nonfree) \in Int
          /\ \A m \in Int : Cost(q.flights, q.insured, m)
                            = Cost(q.flights, q.insured, q.nonfree) + 50 * (m - q.nonfree)
      <4> DEFINE fs == q.flights
                 ins == q.insured
                 k == q.nonfree
      <4>1. fs \in Seq(Legs) /\ ins \in BOOLEAN /\ k \in Int
        BY <1>1
      <4> HIDE DEF fs, ins, k
      <4>2. Cost(fs, ins, k) \in Int /\ \A m \in Int : Cost(fs, ins, m) = Cost(fs, ins, k) + 50 * (m - k)
        <5>1. Cost(fs, ins, k) \in Int
          BY <4>1, CostTyped
        <5>2. \A m \in Int : Cost(fs, ins, m) = Cost(fs, ins, k) + 50 * (m - k)
          BY <4>1, CostTyped
        <5> QED
          BY <5>1, <5>2
      <4> QED
        BY <4>2 DEF fs, ins, k
    <3> QED
      BY <3>1, <3>2
  <2> DEFINE cost == Cost(q.flights, q.insured, q.nonfree)
  <2>2. CASE q.cancelled
    BY <1>6, <2>2 DEF PaidFor
  <2>3. CASE ~q.cancelled
    <3>1. AmountOf(q.history) = cost + 50 * q.givenUp
      BY <1>1, <2>3 DEF PaidFor
    <3>2. cost \in Int /\ more \in Int /\ q.givenUp \in Int
      BY <1>1, <1>2, <2>1
    <3> HIDE DEF cost, more
    <3>3. cost + 50 * q.givenUp + price = cost + 50 * more + 50 * up
      BY <3>2
    <3>4. AmountOf(n.history) = Cost(n.flights, n.insured, n.nonfree) + 50 * n.givenUp
      <4> HIDE DEF n, after, price, up
      <4> QED
        BY <1>5, <1>6, <2>1, <3>1, <3>3 DEF cost
    <3> QED
      BY <3>4 DEF PaidFor
  <2> QED
    BY <1>1, <2>2, <2>3
<1>8. PaidWith("certificate_own", n.history) <=> PaidWith("certificate_own", reservations[r].history)
  <2> HIDE DEF n, after
  <2> QED
    BY <1>5, <1>6 DEF q
<1> HIDE DEF n, q, after, price, up, more
<1> QED
  BY <1>1, <1>3, <1>4, <1>6, <1>7, <1>8, ReservationSet

LEMMA FlightsChange ==
  ASSUME AirlineInv, NEW r \in DOMAIN reservations, NEW cabin \in Cabins, NEW list \in Lists,
         NEW method \in {"credit_card", "gift_card"}, UpdateReservationFlights(r, cabin, list, method)
  PROVE  AirlineInv'
<1> DEFINE q == reservations[r]
           flights == Journey(list, cabin)
           price == (FaresOf(flights) - FaresOf(q.flights)) * Party
           after == HistoryAfter(q.history, method, price)
           n == [q EXCEPT !.history = after, !.flights = flights, !.cabin = cabin]
<1>1. /\ q \in ReservationRecords /\ r \in 1..Len(reservations) /\ PaidFor(q)
      /\ q.flights \in Seq(Legs) /\ q.insured \in BOOLEAN /\ q.nonfree \in Int
      /\ q.history \in Seq(PaymentRecords) /\ q.givenUp \in Int /\ q.cancelled \in BOOLEAN
  BY ReservationAt
<1>2. flights \in Seq(Legs)
  BY ListsTyped, JourneyTyped
<1>3. FaresOf(flights) \in Int /\ FaresOf(q.flights) \in Int /\ Party \in Int /\ price \in Int
      /\ price = FaresOf(flights) * Party - FaresOf(q.flights) * Party
  <2> DEFINE a == FaresOf(flights)
             b == FaresOf(q.flights)
  <2>1. a \in Int /\ b \in Int /\ Party \in Int
    BY <1>1, <1>2, FaresTyped, AirlineAssumption
  <2> HIDE DEF a, b
  <2>2. (a - b) * Party \in Int /\ (a - b) * Party = a * Party - b * Party
    BY <2>1
  <2> QED
    BY <2>1, <2>2 DEF a, b
<1>4. PaysForUpdate(method, price) /\ giftCard' = GiftCardAfter(method, price)
      /\ reservations' = [reservations EXCEPT ![r] = n]
      /\ UNCHANGED <<seats, certificates, namedTwice, listedTwice>>
  BY DEF UpdateReservationFlights
<1>5. giftCard' \in Int /\ (giftCard >= 0 => giftCard' >= 0)
  <2> HIDE DEF price
  <2> QED
    BY <1>3, <1>4, GiftCardKept DEF AirlineInv, AirlineTypes
<1>6. /\ after \in Seq(PaymentRecords) /\ AmountOf(after) = AmountOf(q.history) + price
      /\ PaidWith("certificate_own", after) <=> PaidWith("certificate_own", q.history)
  <2> HIDE DEF price, q, flights
  <2>1. price \in Int /\ q.history \in Seq(PaymentRecords)
    BY <1>1, <1>3
  <2> QED
    BY <2>1, PaymentEntered
<1>7. /\ n \in ReservationRecords /\ n.history = after /\ n.nonfree = q.nonfree /\ n.givenUp = q.givenUp
      /\ n.flights = flights /\ n.insured = q.insured /\ n.cancelled = q.cancelled
  <2> HIDE DEF after, flights, q
  <2> QED
    BY <1>1, <1>2, <1>6 DEF ReservationRecords
<1>8. PaidFor(n)
  <2>1. CASE q.cancelled
    <3> HIDE DEF n
    <3> QED
      BY <1>7, <2>1 DEF PaidFor
  <2>2. CASE ~q.cancelled
    <3> DEFINE old == FaresOf(q.flights) * Party
               new == FaresOf(flights) * Party
               insurance == IF q.insured THEN 30 * Party ELSE 0
    <3>1. AmountOf(q.history) = Cost(q.flights, q.insured, q.nonfree) + 50 * q.givenUp
      BY <1>1, <2>2 DEF PaidFor
    <3>2. /\ Cost(q.flights, q.insured, q.nonfree) = old + insurance + 50 * q.nonfree
          /\ Cost(flights, q.insured, q.nonfree) = new + insurance + 50 * q.nonfree
      BY DEF Cost
    <3>3. old \in Int /\ new \in Int /\ insurance \in Int /\ price = new - old
      <4>1. old \in Int /\ new \in Int /\ Party \in Nat
        BY <1>1, <1>2, CostTyped
      <4>2. insurance \in Int
        BY <4>1
      <4>3. price = new - old
        BY <1>3
      <4> QED
        BY <4>1, <4>2, <4>3
    <3> HIDE DEF old, new, insurance, price, q, n, after, flights
    <3>4. AmountOf(after) = Cost(flights, q.insured, q.nonfree) + 50 * q.givenUp
      <4> DEFINE bags == 50 * q.nonfree
                 refused == 50 * q.givenUp
      <4>1. bags \in Int /\ refused \in Int
        BY <1>1
      <4>2. /\ AmountOf(q.history) = Cost(q.flights, q.insured, q.nonfree) + refused
            /\ Cost(q.flights, q.insured, q.nonfree) = old + insurance + bags
            /\ Cost(flights, q.insured, q.nonfree) = new + insurance + bags
        BY <3>1, <3>2
      <4> HIDE DEF bags, refused
      <4>3. AmountOf(after) = Cost(flights, q.insured, q.nonfree) + refused
        BY <1>6, <3>3, <4>1, <4>2
      <4> QED
        BY <4>3 DEF refused
    <3> QED
      BY <1>7, <3>4 DEF PaidFor
  <2> QED
    BY <1>1, <2>1, <2>2
<1>9. PaidWith("certificate_own", n.history) <=> PaidWith("certificate_own", reservations[r].history)
  <2> HIDE DEF n, after
  <2> QED
    BY <1>6, <1>7 DEF q
<1> HIDE DEF n, q, after, price, flights
<1> QED
  BY <1>1, <1>4, <1>5, <1>7, <1>8, <1>9, ReservationSet

\* Seats are taken only where there are enough of them, for one entry of a list.
LEMMA SeatsTaken ==
  ASSUME AirlineInv, NEW list \in Seq(Flights), NEW cabin \in Cabins,
         \A i \in DOMAIN list : seats[list[i]][cabin] >= Party,
         seats' = SeatsAfter(list, cabin), listedTwice' = ListedAfter(list)
  PROVE  /\ seats' \in [Flights -> [Cabins -> Int]]
         /\ \A f \in Flights \ listedTwice', c \in Cabins : seats'[f][c] >= 0
<1>1. Party \in Nat /\ seats \in [Flights -> [Cabins -> Int]]
      /\ (\A f \in Flights, c \in Cabins : seats[f][c] \in Int)
      /\ \A f \in Flights \ listedTwice, c \in Cabins : seats[f][c] >= 0
  BY AirlineAssumption DEF AirlineInv, AirlineTypes
<1>2. ASSUME NEW f \in Flights
      PROVE  /\ seats'[f] \in [Cabins -> Int]
             /\ f \notin listedTwice' => \A c \in Cabins : seats'[f][c] >= 0
  <2> DEFINE n == Entries(list, f)
             left == seats[f][cabin] - Party * n
  <2>1. n \in Nat /\ (n # 0 => seats[f][cabin] >= Party)
    BY EntriesCounted
  <2>2. f \notin listedTwice' => f \notin listedTwice /\ ~(n > 1)
    BY DEF ListedAfter
  <2>3. seats'[f] = [seats[f] EXCEPT ![cabin] = left]
    BY DEF SeatsAfter
  <2> HIDE DEF n
  <2>4. left \in Int
    BY <1>1, <2>1
  <2>5. f \notin listedTwice' => left >= 0
    <3>1. SUFFICES ASSUME f \notin listedTwice' PROVE left >= 0
      OBVIOUS
    <3>2. seats[f][cabin] \in Int /\ seats[f][cabin] >= 0
      BY <1>1, <2>2, <3>1
    <3>3. n = 0 \/ n = 1
      BY <2>1, <2>2, <3>1
    <3>4. CASE n = 0
      BY <1>1, <3>2, <3>4
    <3>5. CASE n = 1
      BY <1>1, <2>1, <3>2, <3>5
    <3> QED
      BY <3>3, <3>4, <3>5
  <2> HIDE DEF left
  <2>6. seats'[f] \in [Cabins -> Int]
        /\ \A c \in Cabins : seats'[f][c] = IF c = cabin THEN left ELSE seats[f][c]
    BY <1>1, <2>3, <2>4
  <2> QED
    BY <1>1, <2>2, <2>5, <2>6
<1>3. seats' \in [Flights -> [Cabins -> Int]]
  <2>1. DOMAIN seats' = Flights /\ seats' = [f \in Flights |-> seats'[f]]
    BY DEF SeatsAfter
  <2> QED
    BY <1>2, <2>1
<1> QED
  BY <1>2, <1>3

\* Methods that hold what they are to pay, each named once, hold it together.
LEMMA TakenCovered ==
  ASSUME NEW payments \in Seq(PaymentRecords), Len(payments) \in {1, 2}, giftCard \in Int
  PROVE  /\ Taken(payments, "gift_card") \in Int
         /\ giftCard >= 0 /\ ~Twice(payments) /\ (\A i \in DOMAIN payments : Holds(payments[i]))
              => giftCard - Taken(payments, "gift_card") >= 0
<1> DEFINE taken == [i \in DOMAIN payments |-> IF payments[i].method = "gift_card" THEN payments[i].amount ELSE 0]
<1>1. DOMAIN payments = 1..Len(payments) /\ \A i \in 1..Len(payments) : payments[i].amount \in Int
  BY AmountsTyped
<1>2. taken \in [1..Len(payments) -> Int]
  BY <1>1
<1>3. taken \in Seq(Int) /\ Len(taken) = Len(payments)
  BY <1>2, FunctionIsSeq
<1>4. Taken(payments, "gift_card") = Total(taken)
  BY DEF Taken
<1>5. \A i \in 1..Len(payments) :
        /\ taken[i] \in Int
        /\ payments[i].method # "gift_card" => taken[i] = 0
        /\ payments[i].method = "gift_card" => taken[i] = payments[i].amount
  BY <1>1
<1>6. \A i \in 1..Len(payments) : giftCard >= 0 /\ Holds(payments[i]) => giftCard >= taken[i]
  <2> SUFFICES ASSUME NEW i \in 1..Len(payments), giftCard >= 0, Holds(payments[i]) PROVE giftCard >= taken[i]
    OBVIOUS
  <2>1. CASE payments[i].method = "gift_card"
    <3>1. giftCard >= payments[i].amount
      BY <2>1 DEF Holds
    <3> QED
      BY <1>5, <2>1, <3>1
  <2>2. CASE payments[i].method # "gift_card"
    BY <1>5, <2>2
  <2> QED
    BY <2>1, <2>2
<1> HIDE DEF taken
<1>7. Total(taken) \in Int
  BY <1>3, TotalIs
<1>8. ASSUME giftCard >= 0, ~Twice(payments), \A i \in DOMAIN payments : Holds(payments[i])
      PROVE  giftCard >= Total(taken)
  <2>1. CASE Len(payments) = 1
    <3>1. 1 \in 1..Len(payments) /\ Total(taken) = taken[1]
      BY <1>3, <2>1, TotalOne
    <3> QED
      BY <1>1, <1>6, <1>8, <3>1
  <2>2. CASE Len(payments) = 2
    <3>1. 1 \in 1..Len(payments) /\ 2 \in 1..Len(payments) /\ Total(taken) = taken[1] + taken[2]
      BY <1>3, <2>2, TotalTwo
    <3>2. payments[1].method # payments[2].method
      BY <1>1, <1>8, <3>1 DEF Twice
    <3>3. taken[1] = 0 \/ taken[2] = 0
      BY <1>5, <3>1, <3>2
    <3>4. giftCard >= taken[1] /\ giftCard >= taken[2] /\ taken[1] \in Int /\ taken[2] \in Int
      BY <1>1, <1>5, <1>6, <1>8, <3>1
    <3> QED
      BY <3>1, <3>3, <3>4
  <2> QED
    BY <2>1, <2>2
<1> QED
  BY <1>4, <1>7, <1>8

\* A reservation made is paid for, and its certificates are gone.
LEMMA Books ==
  ASSUME AirlineInv, NEW list \in Lists, NEW cabin \in Cabins, NEW insured \in BOOLEAN, NEW nonfree \in 0..1,
         NEW payments \in Payments(Cost(Journey(list, cabin), insured, nonfree)),
         BookReservation(list, cabin, insured, nonfree, payments)
  PROVE  AirlineInv'
<1> DEFINE flights == Journey(list, cabin)
           cost == Cost(flights, insured, nonfree)
           n == [cabin |-> cabin, flights |-> flights, insured |-> insured, nonfree |-> nonfree,
                 history |-> payments, cancelled |-> FALSE, givenUp |-> 0]
           own == "certificate_own"
<1>1. list \in Seq(Flights) /\ flights \in Seq(Legs) /\ nonfree \in Int
  BY ListsTyped, JourneyTyped
<1>2. cost \in Int
  <2> HIDE DEF flights
  <2> QED
    BY <1>1, CostTyped
<1>3. payments \in Seq(PaymentRecords) /\ Len(payments) \in {1, 2} /\ DOMAIN payments = 1..Len(payments)
  <2> HIDE DEF cost
  <2>1. payments \in Payments(cost)
    BY DEF cost
  <2> QED
    BY <1>2, <2>1, PaymentsTyped, AmountsTyped
<1>4. /\ \A i \in DOMAIN list : seats[list[i]][cabin] >= Party
      /\ \A i \in DOMAIN payments : Holds(payments[i])
      /\ AmountOf(payments) = cost
  BY DEF BookReservation, Payable, AmountOf
<1>5. /\ giftCard' = giftCard - Taken(payments, "gift_card")
      /\ certificates' = certificates \ {payments[i].method : i \in DOMAIN payments}
      /\ reservations' = Append(reservations, n)
      /\ namedTwice' = (namedTwice \/ Twice(payments))
      /\ seats' = SeatsAfter(list, cabin) /\ listedTwice' = ListedAfter(list)
  BY DEF BookReservation
<1>6. reservations \in Seq(ReservationRecords) /\ Len(reservations) \in Nat /\ giftCard \in Int
      /\ namedTwice \in BOOLEAN /\ certificates \subseteq AllCertificates
  BY LenProperties DEF AirlineInv, AirlineTypes
<1>7. n \in ReservationRecords /\ n.history = payments
  <2> HIDE DEF flights
  <2> QED
    BY <1>1, <1>3 DEF ReservationRecords
<1>8. PaidFor(n)
  <2>1. n.history = payments /\ n.flights = flights /\ n.insured = insured /\ n.nonfree = nonfree /\ n.givenUp = 0
    OBVIOUS
  <2>2. AmountOf(payments) = cost + 50 * 0
    <3> HIDE DEF cost
    <3> QED
      BY <1>2, <1>4
  <2> HIDE DEF n
  <2> QED
    BY <2>1, <2>2 DEF PaidFor
<1>9. /\ reservations' \in Seq(ReservationRecords) /\ Len(reservations') = Len(reservations) + 1
      /\ reservations'[Len(reservations) + 1] = n
      /\ \A i \in 1..Len(reservations) : reservations'[i] = reservations[i]
  <2> HIDE DEF n
  <2> QED
    BY <1>5, <1>6, <1>7, AppendProperties
<1>10. \A i \in 1..Len(reservations') : i \in 1..Len(reservations) \/ i = Len(reservations) + 1
  BY <1>6, <1>9
<1>11. /\ seats' \in [Flights -> [Cabins -> Int]]
       /\ \A f \in Flights \ listedTwice', c \in Cabins : seats'[f][c] >= 0
  BY <1>1, <1>4, <1>5, SeatsTaken
<1>12. giftCard' \in Int /\ (giftCard >= 0 /\ ~Twice(payments) => giftCard' >= 0)
  <2>1. \A i \in DOMAIN payments : Holds(payments[i])
    BY <1>4
  <2>2. /\ Taken(payments, "gift_card") \in Int
        /\ giftCard >= 0 /\ ~Twice(payments) => giftCard - Taken(payments, "gift_card") >= 0
    BY <1>3, <1>6, <2>1, TakenCovered
  <2> QED
    BY <1>5, <1>6, <2>2
<1>13. AirlineTypes'
  <2>1. namedTwice' \in BOOLEAN
    BY <1>5, <1>6
  <2> QED
    BY <1>5, <1>6, <1>9, <1>11, <1>12, <2>1 DEF AirlineTypes
<1> HIDE DEF n
<1>14. \A i \in 1..Len(reservations') : PaidFor(reservations'[i])
  BY <1>8, <1>9, <1>10 DEF AirlineInv
<1>15. HasUsed(own)' <=> HasUsed(own) \/ PaidWith(own, payments)
  <2>1. \A i \in 1..Len(reservations) : i \in 1..Len(reservations')
    BY <1>6, <1>9
  <2>2. Len(reservations) + 1 \in 1..Len(reservations')
    BY <1>6, <1>9
  <2> QED
    BY <1>7, <1>9, <1>10, <2>1, <2>2 DEF HasUsed
<1>16. own \in certificates' <=> own \in certificates /\ ~PaidWith(own, payments)
  BY <1>3, <1>5 DEF PaidWith
<1>17. OneOrTheOther => OneOrTheOther'
  BY <1>15, <1>16 DEF OneOrTheOther
<1>18. namedTwice' \/ (giftCard' >= 0 /\ OneOrTheOther')
  <2>1. CASE namedTwice \/ Twice(payments)
    BY <1>5, <2>1
  <2>2. CASE ~namedTwice /\ ~Twice(payments)
    BY <1>12, <1>17, <2>2 DEF AirlineInv
  <2> QED
    BY <2>1, <2>2
<1> QED
  BY <1>11, <1>13, <1>14, <1>18 DEF AirlineInv, PaidFor

\* A call that leaves the reservations alone and takes or gives a certificate.
LEMMA CertificatesChange ==
  ASSUME AirlineInv, UNCHANGED <<seats, reservations, giftCard, listedTwice>>,
         certificates' \subseteq AllCertificates,
         \/ namedTwice' = TRUE
         \/ /\ namedTwice' = namedTwice
            /\ "certificate_own" \in certificates' <=> "certificate_own" \in certificates
  PROVE  AirlineInv'
<1>1. AirlineTypes'
  BY DEF AirlineInv, AirlineTypes
<1>2. HasUsed("certificate_own")' <=> HasUsed("certificate_own")
  BY DEF HasUsed
<1>3. \A i \in 1..Len(reservations) : PaidFor(reservations[i])'
  BY DEF AirlineInv
<1> QED
  BY <1>1, <1>2, <1>3 DEF AirlineInv, OneOrTheOther

LEMMA AirlineKept == AirlineInv /\ [AirlineNext]_airlineVars => AirlineInv'
<1>1. ASSUME AirlineInv, AirlineStep PROVE AirlineInv'
  <2>1. CASE \E list \in Lists, cabin \in Cabins, insured \in BOOLEAN, nonfree \in 0..1 :
               /\ insured <=> nonfree = 1
               /\ \E payments \in Payments(Cost(Journey(list, cabin), insured, nonfree)) :
                    \/ BookReservation(list, cabin, insured, nonfree, payments)
                    \/ BookReservationRaises(list, cabin, insured, nonfree, payments)
    <3>1. PICK list \in Lists, cabin \in Cabins, insured \in BOOLEAN, nonfree \in 0..1 :
            \E payments \in Payments(Cost(Journey(list, cabin), insured, nonfree)) :
              \/ BookReservation(list, cabin, insured, nonfree, payments)
              \/ BookReservationRaises(list, cabin, insured, nonfree, payments)
      BY <2>1
    <3>2. PICK payments \in Payments(Cost(Journey(list, cabin), insured, nonfree)) :
              \/ BookReservation(list, cabin, insured, nonfree, payments)
              \/ BookReservationRaises(list, cabin, insured, nonfree, payments)
      BY <3>1
    <3>3. CASE BookReservation(list, cabin, insured, nonfree, payments)
      BY <1>1, <3>3, Books
    <3>4. CASE BookReservationRaises(list, cabin, insured, nonfree, payments)
      <4>1. /\ UNCHANGED <<seats, reservations, giftCard, listedTwice>> /\ namedTwice' = TRUE
            /\ certificates' \subseteq certificates
        BY <3>4 DEF BookReservationRaises
      <4>2. certificates \subseteq AllCertificates
        BY <1>1 DEF AirlineInv, AirlineTypes
      <4> QED
        BY <1>1, <4>1, <4>2, CertificatesChange
    <3> QED
      BY <3>2, <3>3, <3>4
  <2>2. CASE \E r \in DOMAIN reservations : CancelReservation(r)
    BY <1>1, <2>2, Cancels
  <2>3. CASE \E r \in DOMAIN reservations, nonfree \in 0..1, method \in {"credit_card", "gift_card"} :
               UpdateReservationBaggages(r, nonfree, method)
    BY <1>1, <2>3, BagsChange
  <2>4. CASE \E r \in DOMAIN reservations, cabin \in Cabins, list \in Lists, method \in {"credit_card", "gift_card"} :
               UpdateReservationFlights(r, cabin, list, method)
    BY <1>1, <2>4, FlightsChange
  <2>5. CASE SendCertificate
    <3>1. PICK i \in 1..3 : certificates' = certificates \cup {CertificateIds[i]}
      BY <2>5 DEF SendCertificate
    <3>2. UNCHANGED <<seats, reservations, giftCard, namedTwice, listedTwice>>
      BY <2>5 DEF SendCertificate
    <3>3. CertificateIds[i] \in AllCertificates /\ CertificateIds[i] # "certificate_own"
      BY CertificateNames DEF CertificateIds
    <3>4. certificates' \subseteq AllCertificates
      BY <1>1, <3>1, <3>3 DEF AirlineInv, AirlineTypes
    <3>5. "certificate_own" \in certificates' <=> "certificate_own" \in certificates
      BY <3>1, <3>3
    <3> QED
      BY <1>1, <3>2, <3>4, <3>5, CertificatesChange
  <2> QED
    BY <1>1, <2>1, <2>2, <2>3, <2>4, <2>5 DEF AirlineStep
<1>2. AirlineInv /\ UNCHANGED airlineVars => AirlineInv'
  <2> SUFFICES ASSUME AirlineInv, UNCHANGED airlineVars PROVE AirlineInv'
    OBVIOUS
  <2>1. UNCHANGED <<seats, reservations, giftCard, certificates, namedTwice, listedTwice>>
    BY DEF airlineVars
  <2>2. certificates \subseteq AllCertificates
    BY DEF AirlineInv, AirlineTypes
  <2> QED
    BY <2>1, <2>2, CertificatesChange
<1> QED
  BY <1>1, <1>2 DEF AirlineNext

LEMMA AirlineCorrect == Spec => []AirlineInv
<1>1. Init => AirlineInv
  BY AirlineStart DEF Init
<1>2. [Next]_domainsVars => [AirlineNext]_airlineVars
  BY DEF Next, domainsVars, TelecomStep, BankingPlayed, RetailPlayed, AirlinePlayed
<1> QED
  BY <1>1, <1>2, AirlineKept, PTL DEF Spec

\* AirlineBooksBalance, of Airline: what every reservation's history comes to is
\* its cost, after any bookings, changes and cancellations; no flight is booked
\* beyond its seats but one that a booking listed twice, and unless a booking
\* named a method twice the gift card is not overdrawn and the user's
\* certificate is either there or used.
THEOREM AirlineBooks == Spec => []AirlineBooksBalance
<1>1. AirlineInv => PaidAsBooked
  <2> SUFFICES ASSUME AirlineInv PROVE PaidAsBooked
    OBVIOUS
  <2>1. \A i \in DOMAIN reservations : PaidFor(reservations[i])
    BY ReservationAt
  <2> QED
    BY <2>1 DEF PaidAsBooked, PaidFor, AmountOf, Paid
<1>2. AirlineInv => PaymentsCovered
  <2> SUFFICES ASSUME AirlineInv PROVE PaymentsCovered
    OBVIOUS
  <2>1. DOMAIN reservations = 1..Len(reservations) /\ certificates \subseteq AllCertificates
    BY LenProperties DEF AirlineInv, AirlineTypes
  <2>2. \A i \in DOMAIN reservations : DOMAIN reservations[i].history = 1..Len(reservations[i].history)
    BY ReservationAt, AmountsTyped
  <2>3. "certificate_own" \in UsedCertificates <=> HasUsed("certificate_own")
    <3> DEFINE methods(i) == {reservations[i].history[j].method : j \in DOMAIN reservations[i].history}
    <3>1. UsedCertificates = (UNION {methods(i) : i \in DOMAIN reservations}) \cap AllCertificates
      BY DEF UsedCertificates
    <3>2. \A i \in DOMAIN reservations : "certificate_own" \in methods(i)
                                         <=> PaidWith("certificate_own", reservations[i].history)
      BY <2>2 DEF PaidWith
    <3> HIDE DEF methods
    <3> QED
      <4>1. "certificate_own" \in AllCertificates
        BY CertificateNames
      <4>2. "certificate_own" \in UsedCertificates
              <=> \E i \in DOMAIN reservations : "certificate_own" \in methods(i)
        <5> DEFINE all == UNION {methods(i) : i \in DOMAIN reservations}
        <5>1. "certificate_own" \in all <=> \E i \in DOMAIN reservations : "certificate_own" \in methods(i)
          BY Zenon
        <5>2. UsedCertificates = all \cap AllCertificates
          BY <3>1
        <5> HIDE DEF all
        <5>3. "certificate_own" \in UsedCertificates <=> "certificate_own" \in all
          BY <4>1, <5>2
        <5> QED
          BY <5>1, <5>3
      <4>3. HasUsed("certificate_own")
              <=> \E i \in DOMAIN reservations : PaidWith("certificate_own", reservations[i].history)
        BY <2>1 DEF HasUsed
      <4> QED
        BY <3>2, <4>2, <4>3
  <2>4. \A m \in AllCertificates : m = "certificate_own" \/ m \in ToSet(CertificateIds)
    BY DEF AllCertificates
  <2>5. OneOrTheOther => /\ "certificate_own" \in certificates \cup UsedCertificates
                         /\ certificates \cap UsedCertificates \subseteq ToSet(CertificateIds)
    BY <2>1, <2>3, <2>4 DEF OneOrTheOther
  <2> QED
    BY <2>5 DEF AirlineInv, PaymentsCovered
<1> QED
  BY <1>1, <1>2, AirlineCorrect, PTL DEF AirlineBooksBalance
-----------------------------------------------------------------------------
(* Retail.                                                                 *)

Statuses == {"pending", "pending_modified", "delivered", "cancelled",
             "exchange_requested", "return_requested"}
ItemRecords == [variant : Variants, price : Nat]
EntryRecords == [type : {"payment", "refund"}, amount : Nat, method : Methods]
OrderRecords ==
  [status : Statuses, items : Seq(ItemRecords), difference : Int, history : Seq(EntryRecords)]

\* One order: two items, paid by one payment until that is changed; what it says
\* was paid is what PaidAsItCosts asks of it.
OrderSound(o, q, changed, multiple) ==
  /\ Len(q.items) = 2 /\ Len(q.history) # 0
  /\ q.status = "pending" /\ o \notin changed => Len(q.history) = 1 /\ q.history[1].type = "payment"
  /\ q.status \in {"pending", "pending_modified"} /\ o \notin multiple =>
       Net(q.history, Methods) = ItemsPrice(q.items)
  /\ q.status = "cancelled" /\ o \notin changed => Net(q.history, Methods) = 0

\* What the orders say the gift card paid, each since its first payment.
TailNet(q) == Net(Tail(q.history), {"gift_card"})
GiftSpent == Total([i \in DOMAIN SetToSeq(Orders) |-> TailNet(order[SetToSeq(Orders)[i]])])

RetailInv ==
  /\ order \in [Orders -> OrderRecords]
  /\ \A o \in Orders : OrderSound(o, order[o], repaid, several)
  /\ gift \in Int /\ gift >= 0
  /\ gift = GiftBalance - GiftSpent

\* What a history comes to.
LEMMA NetTyped ==
  ASSUME NEW h \in Seq(EntryRecords), NEW ms
  PROVE  /\ [i \in DOMAIN h |-> Taking(h[i], ms)] \in Seq(Int)
         /\ Len([i \in DOMAIN h |-> Taking(h[i], ms)]) = Len(h)
         /\ Net(h, ms) \in Int /\ Len(h) \in Nat /\ DOMAIN h = 1..Len(h)
         /\ \A i \in 1..Len(h) : h[i] \in EntryRecords /\ Taking(h[i], ms) \in Int
<1>1. Len(h) \in Nat /\ DOMAIN h = 1..Len(h) /\ \A i \in 1..Len(h) : h[i] \in EntryRecords
  BY LenProperties, ElementOfSeq
<1>2. \A e \in EntryRecords : Taking(e, ms) \in Int
  <2> SUFFICES ASSUME NEW e \in EntryRecords PROVE Taking(e, ms) \in Int
    OBVIOUS
  <2>1. e.amount \in Nat
    BY DEF EntryRecords
  <2>2. e.amount \in Int /\ -e.amount \in Int
    BY <2>1
  <2> QED
    BY <2>2 DEF Taking
<1>3. [i \in DOMAIN h |-> Taking(h[i], ms)] \in [1..Len(h) -> Int]
  BY <1>1, <1>2
<1>4. /\ [i \in DOMAIN h |-> Taking(h[i], ms)] \in Seq(Int)
      /\ Len([i \in DOMAIN h |-> Taking(h[i], ms)]) = Len(h)
  BY <1>1, <1>3, FunctionIsSeq
<1>5. Net(h, ms) \in Int
  BY <1>4, TotalIs DEF Net
<1> QED
  BY <1>1, <1>2, <1>4, <1>5

LEMMA NetConcat ==
  ASSUME NEW h \in Seq(EntryRecords), NEW t \in Seq(EntryRecords), NEW ms
  PROVE  h \o t \in Seq(EntryRecords) /\ Net(h \o t, ms) = Net(h, ms) + Net(t, ms)
<1> DEFINE u == h \o t
           a == [i \in DOMAIN h |-> Taking(h[i], ms)]
           b == [i \in DOMAIN t |-> Taking(t[i], ms)]
           c == [i \in DOMAIN u |-> Taking(u[i], ms)]
<1>1. /\ u \in Seq(EntryRecords) /\ Len(u) = Len(h) + Len(t)
      /\ \A i \in 1..(Len(h) + Len(t)) : u[i] = IF i <= Len(h) THEN h[i] ELSE t[i - Len(h)]
  BY ConcatProperties
<1> HIDE DEF u
<1>2. /\ a \in Seq(Int) /\ b \in Seq(Int) /\ c \in Seq(Int)
      /\ Len(a) = Len(h) /\ Len(b) = Len(t) /\ Len(c) = Len(u)
      /\ Len(h) \in Nat /\ Len(t) \in Nat
      /\ DOMAIN h = 1..Len(h) /\ DOMAIN t = 1..Len(t) /\ DOMAIN u = 1..Len(u)
  BY <1>1, NetTyped
<1>3. \A n \in 1..Len(h) : c[n] = a[n]
  <2> SUFFICES ASSUME NEW n \in 1..Len(h) PROVE c[n] = a[n]
    OBVIOUS
  <2>1. n \in 1..Len(u) /\ u[n] = h[n]
    BY <1>1, <1>2
  <2> QED
    BY <1>2, <2>1
<1>4. \A n \in 1..Len(t) : c[Len(h) + n] = b[n]
  <2> SUFFICES ASSUME NEW n \in 1..Len(t) PROVE c[Len(h) + n] = b[n]
    OBVIOUS
  <2>1. Len(h) + n \in 1..Len(u) /\ u[Len(h) + n] = t[n]
    BY <1>1, <1>2
  <2> QED
    BY <1>2, <2>1
<1> HIDE DEF a, b, c
<1>5. Total(c) = Total(a) + Total(b)
  <2>1. Joined(c, a, b)
    BY <1>1, <1>2, <1>3, <1>4 DEF Joined
  <2> QED
    BY <1>2, <2>1, TotalConcat
<1>6. Net(h, ms) = Total(a) /\ Net(t, ms) = Total(b) /\ Net(u, ms) = Total(c)
  BY DEF Net, a, b, c
<1> QED
  BY <1>1, <1>5, <1>6 DEF u

LEMMA TailOfConcat ==
  ASSUME NEW S, NEW h \in Seq(S), NEW t \in Seq(S), Len(h) # 0
  PROVE  Tail(h) \in Seq(S) /\ Tail(h \o t) = Tail(h) \o t
<1>1. h # <<>> /\ Len(h) \in Nat /\ Len(t) \in Nat
  BY EmptySeq, LenProperties
<1>2. /\ Tail(h) \in Seq(S) /\ Len(Tail(h)) = Len(h) - 1
      /\ \A i \in 1..Len(Tail(h)) : Tail(h)[i] = h[i + 1]
  BY <1>1, HeadTailProperties
<1> DEFINE u == h \o t
           v == Tail(h) \o t
<1>3. /\ u \in Seq(S) /\ Len(u) = Len(h) + Len(t)
      /\ \A i \in 1..(Len(h) + Len(t)) : u[i] = IF i <= Len(h) THEN h[i] ELSE t[i - Len(h)]
  BY ConcatProperties
<1> DEFINE r == Tail(h)
<1>4. /\ v \in Seq(S) /\ Len(v) = Len(r) + Len(t)
      /\ \A i \in 1..(Len(r) + Len(t)) : v[i] = IF i <= Len(r) THEN r[i] ELSE t[i - Len(r)]
  <2>1. r \in Seq(S)
    BY <1>2
  <2> HIDE DEF r
  <2>2. /\ r \o t \in Seq(S) /\ Len(r \o t) = Len(r) + Len(t)
        /\ \A i \in 1..(Len(r) + Len(t)) : (r \o t)[i] = IF i <= Len(r) THEN r[i] ELSE t[i - Len(r)]
    BY <2>1, ConcatProperties
  <2> QED
    BY <2>2 DEF r
<1> HIDE DEF u, v, r
<1>5. r \in Seq(S) /\ Len(r) = Len(h) - 1 /\ \A i \in 1..Len(r) : r[i] = h[i + 1]
  BY <1>2 DEF r
<1>6. u # <<>>
  BY <1>1, <1>3, EmptySeq
<1>7. /\ Tail(u) \in Seq(S) /\ Len(Tail(u)) = Len(u) - 1
      /\ \A i \in 1..Len(Tail(u)) : Tail(u)[i] = u[i + 1]
  BY <1>3, <1>6, HeadTailProperties
<1>8. Len(Tail(u)) = Len(v)
  BY <1>1, <1>3, <1>4, <1>5, <1>7
<1>9. ASSUME NEW i \in 1..Len(v) PROVE Tail(u)[i] = v[i]
  <2>1. i + 1 \in 1..(Len(h) + Len(t)) /\ i \in 1..(Len(r) + Len(t)) /\ i \in 1..Len(Tail(u))
    BY <1>1, <1>3, <1>4, <1>5, <1>8
  <2>2. Tail(u)[i] = u[i + 1]
    BY <1>7, <2>1
  <2>3. CASE i <= Len(r)
    <3>1. i \in 1..Len(r) /\ i + 1 <= Len(h)
      BY <1>1, <1>5, <2>1, <2>3
    <3> QED
      BY <1>3, <1>4, <1>5, <2>1, <2>2, <2>3, <3>1
  <2>4. CASE ~(i <= Len(r))
    <3>1. ~(i + 1 <= Len(h)) /\ i + 1 - Len(h) = i - Len(r)
      BY <1>1, <1>5, <2>1, <2>4
    <3> QED
      <4>1. u[i + 1] = t[i + 1 - Len(h)]
        BY <1>3, <2>1, <3>1
      <4>2. v[i] = t[i - Len(r)]
        BY <1>4, <2>1, <2>4
      <4> QED
        BY <2>2, <3>1, <4>1, <4>2
  <2> QED
    BY <2>3, <2>4
<1>10. Tail(u) = v
  <2>1. Tail(u) = [i \in 1..Len(Tail(u)) |-> Tail(u)[i]] /\ v = [i \in 1..Len(v) |-> v[i]]
    BY <1>4, <1>7, LenProperties
  <2> QED
    BY <1>8, <1>9, <2>1
<1> QED
  BY <1>2, <1>10 DEF u, v, r

\* Entries added to a history.
LEMMA EntriesAdded ==
  ASSUME NEW h \in Seq(EntryRecords), Len(h) # 0, NEW t \in Seq(EntryRecords)
  PROVE  /\ h \o t \in Seq(EntryRecords) /\ Len(h \o t) # 0
         /\ Net(h \o t, Methods) = Net(h, Methods) + Net(t, Methods)
         /\ Net(Tail(h \o t), {"gift_card"}) = Net(Tail(h), {"gift_card"}) + Net(t, {"gift_card"})
<1>1. h \o t \in Seq(EntryRecords) /\ Net(h \o t, Methods) = Net(h, Methods) + Net(t, Methods)
  BY NetConcat
<1>2. Len(h \o t) # 0
  BY ConcatProperties, LenProperties
<1>3. Tail(h) \in Seq(EntryRecords) /\ Tail(h \o t) = Tail(h) \o t
  BY TailOfConcat
<1> DEFINE rest == Tail(h)
<1> HIDE DEF rest
<1>4. Net(rest \o t, {"gift_card"}) = Net(rest, {"gift_card"}) + Net(t, {"gift_card"})
  BY <1>3, NetConcat DEF rest
<1> QED
  BY <1>1, <1>2, <1>3, <1>4 DEF rest

LEMMA NetOne ==
  ASSUME NEW e \in EntryRecords, NEW ms
  PROVE  <<e>> \in Seq(EntryRecords) /\ Net(<<e>>, ms) = Taking(e, ms)
<1> DEFINE h == <<e>>
           a == [i \in DOMAIN h |-> Taking(h[i], ms)]
<1>1. h \in Seq(EntryRecords) /\ Len(h) = 1 /\ h[1] = e
  OBVIOUS
<1> HIDE DEF h
<1>2. a \in Seq(Int) /\ Len(a) = 1 /\ DOMAIN h = 1..1
  BY <1>1, NetTyped
<1>3. a[1] = Taking(e, ms)
  BY <1>1, <1>2
<1>4. Net(h, ms) = Total(a)
  BY DEF Net
<1> HIDE DEF a
<1> QED
  BY <1>1, <1>2, <1>3, <1>4, TotalOne DEF h

\* SetToSeq(Orders) lists every order once.
LEMMA OrdersListed ==
  /\ Cardinality(Orders) \in Nat
  /\ SetToSeq(Orders) \in [1..Cardinality(Orders) -> Orders]
  /\ \A i, j \in 1..Cardinality(Orders) : SetToSeq(Orders)[i] = SetToSeq(Orders)[j] => i = j
  /\ \A o \in Orders : \E i \in 1..Cardinality(Orders) : SetToSeq(Orders)[i] = o
<1> DEFINE n == Cardinality(Orders)
           os == SetToSeq(Orders)
<1>1. IsFiniteSet(Orders)
  BY RetailAssumption
<1>2. n \in Nat /\ ExistsBijection(1..n, Orders)
  BY <1>1, FS_CardinalityType
<1>3. \E f \in [1..n -> Orders] : IsInjective(f)
  BY <1>2 DEF ExistsBijection, Bijection, Injection, IsInjective
<1>4. os \in [1..n -> Orders] /\ IsInjective(os)
  BY <1>3 DEF SetToSeq
<1> HIDE DEF os
<1>5. os \in Injection(1..n, Orders)
  BY <1>4 DEF Injection, IsInjective
<1>6. Cardinality(1..n) = n
  <2>1. 1 \in Int /\ n \in Int
    BY <1>2
  <2>2. Cardinality(1..n) = IF 1 > n THEN 0 ELSE n - 1 + 1
    BY <2>1, FS_Interval
  <2> QED
    BY <1>2, <2>2
<1>7. os \in Surjection(1..n, Orders)
  BY <1>1, <1>5, <1>6, FS_Injection
<1>8. \A i, j \in 1..n : os[i] = os[j] => i = j
  BY <1>4 DEF IsInjective
<1>9. \A o \in Orders : \E i \in 1..n : os[i] = o
  BY <1>7 DEF Surjection
<1> QED
  BY <1>2, <1>4, <1>8, <1>9 DEF os

\* One order says that the gift card paid d more: so they do together.
LEMMA GiftSpentChanges ==
  ASSUME order \in [Orders -> OrderRecords], NEW o \in Orders, NEW q \in OrderRecords,
         order' = [order EXCEPT ![o] = q], NEW d \in Int,
         \A p \in Orders : TailNet(order[p]) \in Int, TailNet(q) = TailNet(order[o]) + d
  PROVE  GiftSpent' = GiftSpent + d /\ GiftSpent \in Int
<1> DEFINE n == Cardinality(Orders)
           os == SetToSeq(Orders)
           s == [i \in DOMAIN os |-> TailNet(order[os[i]])]
           t == [i \in DOMAIN os |-> TailNet(order'[os[i]])]
<1>1. /\ n \in Nat /\ os \in [1..n -> Orders]
      /\ \A i, j \in 1..n : os[i] = os[j] => i = j
      /\ \E i \in 1..n : os[i] = o
  BY OrdersListed
<1> HIDE DEF n, os
<1>2. PICK k \in 1..n : os[k] = o
  BY <1>1
<1>3. TailNet(order'[o]) = TailNet(order[o]) + d /\ \A p \in Orders : p # o => order'[p] = order[p]
  OBVIOUS
<1>4. \A p \in Orders : TailNet(order'[p]) \in Int
  <2>1. TailNet(order[o]) + d \in Int
    OBVIOUS
  <2> QED
    BY <1>3, <2>1
<1>5. s \in [1..n -> Int] /\ t \in [1..n -> Int]
  BY <1>1, <1>4
<1>6. t[k] = s[k] + d
  BY <1>1, <1>2, <1>3
<1>7. \A i \in 1..n : i # k => t[i] = s[i]
  BY <1>1, <1>2, <1>3
<1>8. GiftSpent = Total(s) /\ GiftSpent' = Total(t)
  BY DEF GiftSpent, TailNet, os
<1> HIDE DEF s, t
<1>9. s \in Seq(Int) /\ t \in Seq(Int) /\ Len(s) = n /\ Len(t) = n
  BY <1>1, <1>5, FunctionIsSeq
<1>10. Total(t) = Total(s) + d
  <2>1. /\ k \in 1..Len(s) /\ Len(t) = Len(s)
        /\ t[k] = s[k] + d /\ \A i \in 1..Len(s) : i # k => t[i] = s[i]
    BY <1>2, <1>6, <1>7, <1>9
  <2> QED
    BY <1>9, <2>1, TotalChanged
<1>11. Total(s) \in Int
  BY <1>9, TotalIs
<1> QED
  BY <1>8, <1>10, <1>11

LEMMA OrderAt ==
  ASSUME order \in [Orders -> OrderRecords], \A o \in Orders : OrderSound(o, order[o], repaid, several),
         NEW o \in Orders
  PROVE  /\ order[o] \in OrderRecords /\ order[o].status \in Statuses
         /\ order[o].items \in Seq(ItemRecords) /\ Len(order[o].items) = 2
         /\ order[o].history \in Seq(EntryRecords) /\ Len(order[o].history) # 0
         /\ TailNet(order[o]) \in Int /\ Net(order[o].history, Methods) \in Int
<1> DEFINE q == order[o]
           h == q.history
<1>1. q \in OrderRecords /\ OrderSound(o, q, repaid, several)
  OBVIOUS
<1> HIDE DEF q
<1>2. q.status \in Statuses /\ q.items \in Seq(ItemRecords) /\ h \in Seq(EntryRecords)
  BY <1>1 DEF OrderRecords
<1>3. Len(q.items) = 2 /\ Len(h) # 0
  BY <1>1 DEF OrderSound
<1> HIDE DEF h
<1>4. Tail(h) \in Seq(EntryRecords)
  BY <1>2, <1>3, HeadTailProperties, EmptySeq
<1> DEFINE rest == Tail(h)
<1> HIDE DEF rest
<1>5. Net(rest, {"gift_card"}) \in Int /\ Net(h, Methods) \in Int
  BY <1>2, <1>4, NetTyped DEF rest
<1>6. TailNet(q) \in Int
  BY <1>5 DEF TailNet, rest, h
<1> QED
  BY <1>1, <1>2, <1>3, <1>5, <1>6 DEF q, h

\* A call changes one order, by which the gift card pays d more.
LEMMA OrderChanges ==
  ASSUME RetailInv, NEW o \in Orders, NEW q \in OrderRecords, order' = [order EXCEPT ![o] = q],
         repaid' \in {repaid, repaid \cup {o}}, several' \in {several, several \cup {o}},
         OrderSound(o, q, repaid', several'),
         NEW d \in Int, TailNet(q) = TailNet(order[o]) + d,
         gift' = gift - d, gift >= d
  PROVE  RetailInv'
<1>1. order' \in [Orders -> OrderRecords]
  BY DEF RetailInv
<1>2. ASSUME NEW p \in Orders PROVE OrderSound(p, order'[p], repaid', several')
  <2>1. CASE p = o
    <3>1. order'[p] = q
      BY <2>1 DEF RetailInv
    <3> QED
      BY <2>1, <3>1
  <2>2. CASE p # o
    <3>1. order'[p] = order[p] /\ (p \in repaid' <=> p \in repaid) /\ (p \in several' <=> p \in several)
      BY <2>2 DEF RetailInv
    <3>2. OrderSound(p, order[p], repaid, several)
      BY DEF RetailInv
    <3> QED
      BY <3>1, <3>2 DEF OrderSound
  <2> QED
    BY <2>1, <2>2
<1>3. \A p \in Orders : TailNet(order[p]) \in Int
  BY OrderAt DEF RetailInv
<1>4. GiftSpent' = GiftSpent + d /\ GiftSpent \in Int
  BY <1>3, GiftSpentChanges DEF RetailInv
<1>5. gift \in Int /\ gift = GiftBalance - GiftSpent /\ GiftBalance \in Nat
  BY RetailAssumption DEF RetailInv
<1>6. gift' \in Int /\ gift' >= 0 /\ gift' = GiftBalance - GiftSpent'
  BY <1>4, <1>5
<1> QED
  BY <1>1, <1>2, <1>6 DEF RetailInv, OrderSound

LEMMA PriceTyped ==
  ASSUME NEW items \in Seq(ItemRecords), Len(items) = 2
  PROVE  /\ items[1].price \in Nat /\ items[2].price \in Nat
         /\ ItemsPrice(items) = items[1].price + items[2].price
         /\ DOMAIN items = 1..2 /\ \A i \in 1..2 : items[i] \in ItemRecords /\ items[i].price \in Nat
<1> DEFINE prices == [i \in DOMAIN items |-> items[i].price]
<1>1. DOMAIN items = 1..2 /\ items[1] \in ItemRecords /\ items[2] \in ItemRecords
  BY LenProperties, ElementOfSeq
<1>2. items[1].price \in Nat /\ items[2].price \in Nat
  BY <1>1 DEF ItemRecords
<1>3. \A i \in 1..2 : items[i] \in ItemRecords /\ items[i].price \in Nat
  BY <1>1, <1>2
<1>4. prices \in [1..2 -> Int] /\ prices[1] = items[1].price /\ prices[2] = items[2].price
  BY <1>1, <1>3
<1>5. ItemsPrice(items) = Total(prices)
  BY DEF ItemsPrice
<1> HIDE DEF prices
<1>6. prices \in Seq(Int) /\ Len(prices) = 2
  BY <1>4, FunctionIsSeq
<1>7. Total(prices) = prices[1] + prices[2]
  BY <1>6, TotalTwo
<1> QED
  BY <1>1, <1>2, <1>3, <1>4, <1>5, <1>7

LEMMA RetailStart == RetailInit => RetailInv
<1> SUFFICES ASSUME RetailInit PROVE RetailInv
  OBVIOUS
<1>1. PICK items \in [Orders -> (Variants \ Unavailable) \X (Variants \ Unavailable)],
           method \in [Orders -> Methods], status \in [Orders -> {"pending", "delivered"}] :
        order = [o \in Orders |->
          PaidOrder(<<Item(items[o][1]), Item(items[o][2])>>, method[o], status[o])]
  BY DEF RetailInit
<1>2. repaid = {} /\ several = {} /\ gift = GiftBalance /\ GiftBalance \in Nat
  BY RetailAssumption DEF RetailInit
<1>3. ASSUME NEW o \in Orders
      PROVE  /\ order[o] \in OrderRecords /\ OrderSound(o, order[o], {}, {}) /\ TailNet(order[o]) = 0
  <2> DEFINE a == Item(items[o][1])
             b == Item(items[o][2])
             bought == <<a, b>>
             e == Entry("payment", ItemsPrice(bought), method[o])
             q == [status |-> status[o], items |-> bought, difference |-> 0, history |-> <<e>>]
  <2>1. order[o] = q
    BY <1>1 DEF PaidOrder
  <2>2. a \in ItemRecords /\ b \in ItemRecords
    <3>1. PICK v \in Variants, w \in Variants : items[o] = <<v, w>>
      BY <1>1
    <3>2. Price[v] \in Nat /\ Price[w] \in Nat
      BY RetailAssumption DEF Variants
    <3> QED
      BY <3>1, <3>2 DEF Item, ItemRecords
  <2> HIDE DEF a, b
  <2>3. bought \in Seq(ItemRecords) /\ Len(bought) = 2
    BY <2>2
  <2> HIDE DEF bought
  <2>4. ItemsPrice(bought) \in Nat
    BY <2>3, PriceTyped
  <2>5. e \in EntryRecords /\ e.type = "payment" /\ e.method \in Methods /\ e.amount = ItemsPrice(bought)
    BY <1>1, <2>4 DEF Entry, EntryRecords
  <2> HIDE DEF e
  <2>6. /\ <<e>> \in Seq(EntryRecords) /\ Len(<<e>>) = 1 /\ <<e>>[1] = e
        /\ Net(<<e>>, Methods) = ItemsPrice(bought)
    BY <2>5, NetOne DEF Taking
  <2>7. Net(Tail(<<e>>), {"gift_card"}) = 0
    <3> DEFINE none == <<e>>
               rest == Tail(none)
               z == [i \in DOMAIN rest |-> Taking(rest[i], {"gift_card"})]
    <3>1. none \in Seq(EntryRecords) /\ none # <<>> /\ Len(none) = 1
      BY <2>6
    <3> HIDE DEF none
    <3>2. rest \in Seq(EntryRecords) /\ Len(rest) = 0
      BY <3>1, HeadTailProperties
    <3> HIDE DEF rest
    <3>3. z \in Seq(Int) /\ Len(z) = 0 /\ Net(rest, {"gift_card"}) = Total(z)
      BY <3>2, NetTyped DEF Net
    <3> HIDE DEF z
    <3>4. Net(rest, {"gift_card"}) = 0
      <4>1. Total(z) = 0
        BY <3>3, TotalNone
      <4> QED
        BY <3>3, <4>1
    <3> QED
      BY <3>4 DEF rest, none
  <2> DEFINE h == <<e>>
  <2>8. /\ q.status = status[o] /\ q.items = bought /\ q.history = h /\ status[o] \in {"pending", "delivered"}
    BY <1>1
  <2>9. h \in Seq(EntryRecords) /\ Len(h) = 1 /\ h[1].type = "payment" /\ Net(h, Methods) = ItemsPrice(bought)
    BY <2>5, <2>6
  <2>10. TailNet(q) = 0
    BY <2>7 DEF TailNet
  <2> HIDE DEF h
  <2>11. q \in OrderRecords
    <3>1. q = [status |-> status[o], items |-> bought, difference |-> 0, history |-> h]
      BY DEF h
    <3> QED
      <4> DEFINE st == status[o]
      <4>1. st \in Statuses
        BY <2>8 DEF Statuses
      <4> HIDE DEF st
      <4>2. [status |-> st, items |-> bought, difference |-> 0, history |-> h] \in OrderRecords
        BY <2>3, <2>9, <4>1 DEF OrderRecords
      <4> QED
        BY <3>1, <4>2 DEF st
  <2> HIDE DEF q
  <2>12. OrderSound(o, q, {}, {})
    BY <2>3, <2>8, <2>9 DEF OrderSound
  <2> QED
    BY <2>1, <2>10, <2>11, <2>12
<1>4. order \in [Orders -> OrderRecords]
  <2>1. order = [o \in Orders |-> order[o]]
    BY <1>1
  <2> QED
    BY <1>3, <2>1
<1>5. GiftSpent = 0
  <2> DEFINE n == Cardinality(Orders)
             os == SetToSeq(Orders)
             s == [i \in DOMAIN os |-> TailNet(order[os[i]])]
  <2>1. n \in Nat /\ os \in [1..n -> Orders]
    BY OrdersListed
  <2>2. GiftSpent = Total(s)
    BY DEF GiftSpent
  <2> HIDE DEF n, os
  <2>3. s \in [1..n -> Int] /\ \A i \in 1..n : s[i] = 0
    BY <1>3, <2>1
  <2> HIDE DEF s
  <2>4. s \in Seq(Int) /\ Len(s) = n
    BY <2>1, <2>3, FunctionIsSeq
  <2> QED
    BY <2>2, <2>3, <2>4, TotalZeros
<1> QED
  <2>1. \A o \in Orders : OrderSound(o, order[o], repaid, several)
    BY <1>2, <1>3
  <2>2. gift \in Int /\ gift >= 0 /\ gift = GiftBalance - GiftSpent
    BY <1>2, <1>5
  <2> QED
    BY <1>4, <2>1, <2>2 DEF RetailInv

\* What is refunded when an order is cancelled.
LEMMA RefundsNet ==
  ASSUME NEW h \in Seq(EntryRecords), NEW refunds, refunds = [i \in DOMAIN h |-> [h[i] EXCEPT !.type = "refund"]]
  PROVE  /\ refunds \in Seq(EntryRecords)
         /\ Total([i \in DOMAIN h |-> IF h[i].method = "gift_card" THEN h[i].amount ELSE 0]) \in Nat
         /\ Net(refunds, {"gift_card"})
              = -Total([i \in DOMAIN h |-> IF h[i].method = "gift_card" THEN h[i].amount ELSE 0])
         /\ Len(h) = 1 /\ h[1].type = "payment" => Net(h, Methods) + Net(refunds, Methods) = 0
<1> DEFINE G == {"gift_card"}
           given == [i \in DOMAIN h |-> IF h[i].method = "gift_card" THEN h[i].amount ELSE 0]
           taken == [i \in DOMAIN refunds |-> Taking(refunds[i], G)]
<1>1. /\ Len(h) \in Nat /\ DOMAIN h = 1..Len(h)
      /\ \A i \in 1..Len(h) : h[i] \in EntryRecords /\ h[i].amount \in Nat /\ h[i].method \in Methods
  <2>1. Len(h) \in Nat /\ DOMAIN h = 1..Len(h) /\ \A i \in 1..Len(h) : h[i] \in EntryRecords
    BY NetTyped
  <2> QED
    BY <2>1 DEF EntryRecords
<1>2. ASSUME NEW e \in EntryRecords
      PROVE  /\ [e EXCEPT !.type = "refund"] \in EntryRecords
             /\ [e EXCEPT !.type = "refund"].type = "refund"
             /\ [e EXCEPT !.type = "refund"].amount = e.amount
             /\ [e EXCEPT !.type = "refund"].method = e.method
  BY DEF EntryRecords
<1>3. /\ refunds \in [1..Len(h) -> EntryRecords]
      /\ \A i \in 1..Len(h) : refunds[i].type = "refund" /\ refunds[i].amount = h[i].amount
                              /\ refunds[i].method = h[i].method
  BY <1>1, <1>2
<1>4. refunds \in Seq(EntryRecords) /\ Len(refunds) = Len(h) /\ DOMAIN refunds = 1..Len(h)
  BY <1>1, <1>3, FunctionIsSeq
<1>5. given \in [1..Len(h) -> Nat]
  BY <1>1
<1>6. given \in Seq(Nat) /\ Len(given) = Len(h)
  BY <1>1, <1>5, FunctionIsSeq
<1>7. taken \in Seq(Int) /\ Len(taken) = Len(h)
  BY <1>4, NetTyped
<1>8. \A i \in 1..Len(given) : taken[i] = -given[i]
  <2> SUFFICES ASSUME NEW i \in 1..Len(h) PROVE taken[i] = -given[i]
    BY <1>6
  <2>1. h[i].amount \in Nat /\ taken[i] = Taking(refunds[i], G)
    BY <1>1, <1>4
  <2>2. CASE h[i].method = "gift_card"
    <3>1. Taking(refunds[i], G) = -h[i].amount
      BY <1>3, <2>2 DEF Taking
    <3>2. given[i] = h[i].amount
      BY <1>1, <2>2
    <3> QED
      BY <2>1, <3>1, <3>2
  <2>3. CASE h[i].method # "gift_card"
    <3>1. Taking(refunds[i], G) = 0
      BY <1>3, <2>3 DEF Taking
    <3>2. given[i] = 0
      BY <1>1, <2>3
    <3> QED
      BY <2>1, <3>1, <3>2
  <2> QED
    BY <2>2, <2>3
<1>9. Net(refunds, G) = Total(taken)
  BY DEF Net
<1> HIDE DEF taken, given
<1>10. given \in Seq(Int) /\ Total(given) \in Nat
  BY <1>6, TotalNatural
<1>11. Total(taken) = -Total(given)
  BY <1>6, <1>7, <1>8, <1>10, TotalNegated
<1>12. ASSUME Len(h) = 1, h[1].type = "payment" PROVE Net(h, Methods) + Net(refunds, Methods) = 0
  <2> DEFINE a == [i \in DOMAIN h |-> Taking(h[i], Methods)]
             b == [i \in DOMAIN refunds |-> Taking(refunds[i], Methods)]
  <2>1. a \in Seq(Int) /\ Len(a) = 1 /\ b \in Seq(Int) /\ Len(b) = 1
    BY <1>4, <1>12, NetTyped
  <2>2. a[1] = h[1].amount /\ b[1] = -h[1].amount
    <3>1. 1 \in 1..Len(h)
      BY <1>12
    <3>2. Taking(h[1], Methods) = h[1].amount /\ Taking(refunds[1], Methods) = -h[1].amount
      BY <1>1, <1>3, <1>12, <3>1 DEF Taking
    <3> QED
      BY <1>1, <1>4, <3>1, <3>2
  <2>3. Net(h, Methods) = Total(a) /\ Net(refunds, Methods) = Total(b)
    BY DEF Net
  <2> HIDE DEF a, b
  <2>4. Total(a) = a[1] /\ Total(b) = b[1]
    BY <2>1, TotalOne
  <2>5. h[1].amount \in Nat
    BY <1>1, <1>12
  <2> QED
    BY <2>2, <2>3, <2>4, <2>5
<1> QED
  BY <1>4, <1>9, <1>10, <1>11, <1>12 DEF given

LEMMA Cancelling ==
  ASSUME RetailInv, NEW o \in Orders, CancelPendingOrder(o)
  PROVE  RetailInv'
<1> DEFINE q == order[o]
           h == q.history
           refunds == [i \in DOMAIN h |-> [h[i] EXCEPT !.type = "refund"]]
           back == Total([i \in DOMAIN h |-> IF h[i].method = "gift_card" THEN h[i].amount ELSE 0])
           after == h \o refunds
           n == [q EXCEPT !.status = "cancelled", !.history = after]
<1>1. q.status = "pending" /\ gift' = gift + back /\ repaid' = repaid /\ several' = several
  BY DEF CancelPendingOrder
<1>2. order' = [order EXCEPT ![o] = n]
  BY DEF CancelPendingOrder
<1>3. /\ q \in OrderRecords /\ OrderSound(o, q, repaid, several) /\ TailNet(q) \in Int
      /\ q.items \in Seq(ItemRecords) /\ Len(q.items) = 2 /\ h \in Seq(EntryRecords) /\ Len(h) # 0
  BY OrderAt DEF RetailInv
<1> HIDE DEF q
<1>4. TailNet(q) = Net(Tail(h), {"gift_card"})
  BY DEF TailNet
<1>5. n.status = "cancelled" /\ n.history = after /\ n.items = q.items
  <2> HIDE DEF after
  <2> QED
    BY <1>3 DEF OrderRecords
<1>6. OrderSound(o, q, repaid, several) => (o \notin repaid => Len(h) = 1 /\ h[1].type = "payment")
  BY <1>1 DEF OrderSound
<1> HIDE DEF h
<1>7. /\ refunds \in Seq(EntryRecords) /\ back \in Nat /\ Net(refunds, {"gift_card"}) = -back
      /\ o \notin repaid => Net(h, Methods) + Net(refunds, Methods) = 0
  BY <1>3, <1>6, RefundsNet
<1> HIDE DEF refunds, back
<1>8. /\ after \in Seq(EntryRecords) /\ Len(after) # 0
      /\ Net(after, Methods) = Net(h, Methods) + Net(refunds, Methods)
      /\ Net(Tail(after), {"gift_card"}) = Net(Tail(h), {"gift_card"}) + Net(refunds, {"gift_card"})
  BY <1>3, <1>7, EntriesAdded
<1> HIDE DEF after
<1>9. n \in OrderRecords
  BY <1>3, <1>8 DEF OrderRecords, Statuses
<1> HIDE DEF n
<1>10. OrderSound(o, n, repaid, several)
  BY <1>3, <1>5, <1>7, <1>8 DEF OrderSound
<1>11. TailNet(n) = TailNet(q) + -back
  BY <1>4, <1>5, <1>7, <1>8 DEF TailNet
<1>12. -back \in Int /\ gift' = gift - (-back) /\ gift >= -back
  <2>1. gift \in Int /\ gift >= 0
    BY DEF RetailInv
  <2> QED
    BY <1>1, <1>7, <2>1
<1> QED
  BY <1>1, <1>2, <1>9, <1>10, <1>11, <1>12, OrderChanges DEF q

\* An order of which neither items nor payments change.
LEMMA StatusChanges ==
  ASSUME RetailInv, NEW o \in Orders, NEW n \in OrderRecords, order' = [order EXCEPT ![o] = n],
         n.status \in {"exchange_requested", "return_requested"},
         n.items = order[o].items, n.history = order[o].history,
         UNCHANGED <<gift, repaid, several>>
  PROVE  RetailInv'
<1> DEFINE q == order[o]
<1>1. /\ q \in OrderRecords /\ TailNet(q) \in Int /\ Len(q.items) = 2 /\ Len(q.history) # 0
  BY OrderAt DEF RetailInv
<1>2. n.items = q.items /\ n.history = q.history
  OBVIOUS
<1> HIDE DEF q
<1>3. OrderSound(o, n, repaid', several')
  BY <1>1, <1>2 DEF OrderSound
<1> PICK d \in Int : d = 0
  OBVIOUS
<1>4. TailNet(n) = TailNet(q) + d
  <2>1. TailNet(n) = TailNet(q)
    BY <1>2 DEF TailNet
  <2> QED
    BY <1>1, <2>1
<1>5. gift' = gift - d /\ gift >= d
  <2>1. gift' = gift /\ gift \in Int /\ gift >= 0
    BY DEF RetailInv
  <2> QED
    BY <2>1
<1>6. repaid' \in {repaid, repaid \cup {o}} /\ several' \in {several, several \cup {o}}
  OBVIOUS
<1> QED
  BY <1>3, <1>4, <1>5, <1>6, OrderChanges DEF q

LEMMA FirstIs ==
  ASSUME NEW items \in Seq(ItemRecords), Len(items) = 2, NEW v, \E i \in 1..2 : items[i].variant = v
  PROVE  FirstOf(items, v) \in 1..2
<1>1. DOMAIN items = 1..2
  BY LenProperties
<1>2. \E i \in DOMAIN items : items[i].variant = v /\ \A j \in 1..(i - 1) : items[j].variant # v
  <2>1. CASE items[1].variant = v
    <3>1. 1 \in DOMAIN items /\ \A j \in 1..(1 - 1) : items[j].variant # v
      BY <1>1
    <3> QED
      BY <2>1, <3>1
  <2>2. CASE items[1].variant # v
    <3>1. 2 \in DOMAIN items /\ items[2].variant = v
      BY <1>1, <2>2
    <3>2. \A j \in 1..(2 - 1) : items[j].variant # v
      BY <2>2
    <3> QED
      BY <3>1, <3>2
  <2> QED
    BY <2>1, <2>2
<1> QED
  BY <1>1, <1>2 DEF FirstOf

\* What an exchange names is there.
LEMMA NamedItems ==
  ASSUME RetailInv, NEW o \in Orders, NEW p \in Exchanges(o)
  PROVE  /\ Len(p) \in {1, 2} /\ DOMAIN p = 1..Len(p)
         /\ \A i \in 1..Len(p) : p[i][2] \in Variants /\ Price[p[i][2]] \in Nat
                                 /\ FirstOf(order[o].items, p[i][1]) \in 1..2
<1> DEFINE items == order[o].items
<1>1. items \in Seq(ItemRecords) /\ Len(items) = 2
  BY OrderAt DEF RetailInv
<1> HIDE DEF items
<1>2. PICK n \in 1..2 : p \in [1..n -> Variants \X (Variants \ Unavailable)]
  BY DEF Exchanges
<1>3. Len(p) = n /\ DOMAIN p = 1..n
  BY <1>2, FunctionIsSeq
<1>4. \A i \in DOMAIN p : Cardinality({k \in DOMAIN items : items[k].variant = p[i][1]})
                            >= Cardinality({j \in DOMAIN p : p[j][1] = p[i][1]})
  BY DEF Exchanges, items
<1>5. ASSUME NEW i \in 1..Len(p)
      PROVE  p[i][2] \in Variants /\ Price[p[i][2]] \in Nat /\ FirstOf(items, p[i][1]) \in 1..2
  <2>1. p[i] \in Variants \X (Variants \ Unavailable)
    BY <1>2, <1>3
  <2>2. p[i][2] \in Variants /\ Price[p[i][2]] \in Nat
    BY <2>1, RetailAssumption DEF Variants
  <2> DEFINE here == {k \in DOMAIN items : items[k].variant = p[i][1]}
             named == {j \in DOMAIN p : p[j][1] = p[i][1]}
  <2>3. Cardinality(here) >= Cardinality(named)
    BY <1>3, <1>4
  <2>4. i \in named /\ named \in SUBSET (1..n)
    BY <1>3
  <2>5. here # {} => \E k \in 1..2 : items[k].variant = p[i][1]
    BY <1>1, LenProperties
  <2> HIDE DEF here, named
  <2>6. IsFiniteSet(named) /\ Cardinality(named) \in Nat /\ Cardinality(named) # 0
    <3>1. IsFiniteSet(1..n)
      BY FS_Interval
    <3>2. IsFiniteSet(named)
      BY <2>4, <3>1, FS_Subset
    <3> QED
      BY <2>4, <3>2, FS_CardinalityType, FS_EmptySet
  <2>7. here # {}
    <3>1. ASSUME here = {} PROVE FALSE
      <4>1. Cardinality(here) = 0
        BY <3>1, FS_EmptySet
      <4> QED
        BY <2>3, <2>6, <4>1
    <3> QED
      BY <3>1
  <2>8. FirstOf(items, p[i][1]) \in 1..2
    BY <1>1, <2>5, <2>7, FirstIs
  <2> QED
    BY <2>2, <2>8
<1>6. Len(p) \in {1, 2}
  BY <1>3
<1> QED
  BY <1>3, <1>5, <1>6 DEF items

LEMMA DifferenceTyped ==
  ASSUME RetailInv, NEW o \in Orders, NEW p \in Exchanges(o)
  PROVE  /\ Difference(o, p) \in Int
         /\ Len(p) = 1 => Difference(o, p)
              = Price[p[1][2]] - order[o].items[FirstOf(order[o].items, p[1][1])].price
<1> DEFINE items == order[o].items
           d == [i \in DOMAIN p |-> Price[p[i][2]] - items[FirstOf(items, p[i][1])].price]
<1>1. items \in Seq(ItemRecords) /\ Len(items) = 2
  BY OrderAt DEF RetailInv
<1>2. /\ Len(p) \in {1, 2} /\ DOMAIN p = 1..Len(p)
      /\ \A i \in 1..Len(p) : Price[p[i][2]] \in Nat /\ FirstOf(items, p[i][1]) \in 1..2
  BY NamedItems
<1>3. Difference(o, p) = Total(d)
  BY DEF Difference
<1> HIDE DEF items
<1>4. \A i \in 1..2 : items[i].price \in Nat
  BY <1>1, PriceTyped
<1>5. \A i \in 1..Len(p) : Price[p[i][2]] - items[FirstOf(items, p[i][1])].price \in Int
  BY <1>2, <1>4
<1>6. d \in [1..Len(p) -> Int]
  BY <1>2, <1>5
<1>7. d \in Seq(Int) /\ Len(d) = Len(p)
  BY <1>2, <1>6, FunctionIsSeq
<1>8. Len(p) = 1 => d[1] = Price[p[1][2]] - items[FirstOf(items, p[1][1])].price
  BY <1>2
<1> HIDE DEF d
<1>9. Total(d) \in Int /\ (Len(p) = 1 => Total(d) = d[1])
  BY <1>7, TotalIs, TotalOne
<1> QED
  BY <1>3, <1>8, <1>9 DEF items

\* The items replaced, one by one.
LEMMA ModifiedIs ==
  ASSUME NEW items \in Seq(ItemRecords), Len(items) = 2, NEW p, Len(p) \in {1, 2},
         \A i \in 1..Len(p) : p[i][2] \in Variants /\ Price[p[i][2]] \in Nat
  PROVE  /\ Modified(items, p) \in Seq(ItemRecords) /\ Len(Modified(items, p)) = 2
         /\ Len(p) = 1 => Modified(items, p)
              = [items EXCEPT ![FirstOf(items, p[1][1])] = [variant |-> p[1][2], price |-> Price[p[1][2]]]]
<1> DEFINE price == Price[p[Len(p)][2]]
           new(i) == [variant |-> p[i][2], price |-> price]
           one == [items EXCEPT ![FirstOf(items, p[1][1])] = new(1)]
           two == [one EXCEPT ![FirstOf(one, p[2][1])] = new(2)]
           Rule(f) == [n \in 0..Len(p) |->
                         IF n = 0 THEN items ELSE [f[n - 1] EXCEPT ![FirstOf(f[n - 1], p[n][1])] = new(n)]]
           upTo == CHOOSE f : f = Rule(f)
           g == [n \in 0..Len(p) |-> IF n = 0 THEN items ELSE IF n = 1 THEN one ELSE two]
<1>1. Modified(items, p) = upTo[Len(p)]
  BY DEF Modified, Replaced, Last
<1>2. \A i \in 1..Len(p) : new(i) \in ItemRecords
  <2>1. price \in Nat
    OBVIOUS
  <2> HIDE DEF price
  <2> QED
    BY <2>1 DEF ItemRecords
<1>3. one \in Seq(ItemRecords) /\ Len(one) = 2
  <2>1. new(1) \in ItemRecords
    BY <1>2
  <2> HIDE DEF new
  <2>2. items \in [1..2 -> ItemRecords]
    BY LenProperties
  <2>3. one \in [1..2 -> ItemRecords]
    BY <2>1, <2>2
  <2> HIDE DEF one
  <2> QED
    BY <2>3, FunctionIsSeq
<1> HIDE DEF new, one
<1>4. Len(p) = 2 => two \in Seq(ItemRecords) /\ Len(two) = 2
  <2> SUFFICES ASSUME Len(p) = 2 PROVE two \in Seq(ItemRecords) /\ Len(two) = 2
    OBVIOUS
  <2>1. new(2) \in ItemRecords
    BY <1>2
  <2>2. one \in [1..2 -> ItemRecords]
    BY <1>3, LenProperties
  <2>3. two \in [1..2 -> ItemRecords]
    BY <2>1, <2>2
  <2> HIDE DEF two
  <2> QED
    BY <2>3, FunctionIsSeq
<1>5. g = Rule(g)
  <2>1. one = [items EXCEPT ![FirstOf(items, p[1][1])] = new(1)]
    BY DEF one
  <2>2. two = [one EXCEPT ![FirstOf(one, p[2][1])] = new(2)]
    OBVIOUS
  <2> HIDE DEF two
  <2>3. ASSUME NEW n \in 0..Len(p)
        PROVE  g[n] = IF n = 0 THEN items ELSE [g[n - 1] EXCEPT ![FirstOf(g[n - 1], p[n][1])] = new(n)]
    <3>1. CASE n = 0
      BY <3>1
    <3>2. CASE n = 1
      <4>1. n - 1 = 0 /\ n - 1 \in 0..Len(p)
        BY <3>2
      <4>2. g[n - 1] = items /\ g[n] = one
        BY <3>2, <4>1
      <4> HIDE DEF g
      <4> QED
        BY <2>1, <3>2, <4>2
    <3>3. CASE n = 2
      <4>1. n - 1 = 1 /\ n - 1 \in 0..Len(p)
        BY <3>3
      <4>2. g[n - 1] = one /\ g[n] = two
        BY <3>3, <4>1
      <4> HIDE DEF g
      <4> QED
        BY <2>2, <3>3, <4>2
    <3> QED
      BY <3>1, <3>2, <3>3
  <2>4. g = [n \in 0..Len(p) |-> g[n]]
    OBVIOUS
  <2> HIDE DEF g
  <2> QED
    BY <2>3, <2>4
<1>6. upTo = Rule(upTo)
  <2>1. \E f : f = Rule(f)
    BY <1>5
  <2> HIDE DEF g
  <2> QED
    BY <2>1
<1>7. \A n \in 0..Len(p) :
        upTo[n] = IF n = 0 THEN items ELSE [upTo[n - 1] EXCEPT ![FirstOf(upTo[n - 1], p[n][1])] = new(n)]
  <2> HIDE DEF upTo
  <2> QED
    BY <1>6
<1> HIDE DEF upTo, g, Rule, price
<1>8. upTo[0] = items
  <2>1. 0 \in 0..Len(p)
    OBVIOUS
  <2> QED
    BY <1>7, <2>1
<1>9. upTo[1] = one
  <2>1. ASSUME NEW n \in 0..Len(p), n = 1
        PROVE  upTo[n] = [upTo[0] EXCEPT ![FirstOf(upTo[0], p[1][1])] = new(1)]
    <3>1. n # 0 /\ n - 1 = 0
      BY <2>1
    <3>2. upTo[n] = [upTo[n - 1] EXCEPT ![FirstOf(upTo[n - 1], p[n][1])] = new(n)]
      BY <1>7, <3>1
    <3> QED
      BY <2>1, <3>1, <3>2
  <2>2. upTo[1] = [upTo[0] EXCEPT ![FirstOf(upTo[0], p[1][1])] = new(1)]
    <3>1. 1 \in 0..Len(p)
      <4>1. \A k : k \in {1, 2} => 1 \in 0..k
        OBVIOUS
      <4> QED
        BY <4>1
    <3> QED
      BY <2>1, <3>1
  <2> QED
    BY <1>8, <2>2 DEF one
<1>10. Len(p) = 2 => upTo[2] = two
  <2> SUFFICES ASSUME Len(p) = 2 PROVE upTo[2] = two
    OBVIOUS
  <2>1. 2 \in 0..Len(p) /\ 2 - 1 = 1
    OBVIOUS
  <2>2. upTo[2] = [upTo[1] EXCEPT ![FirstOf(upTo[1], p[2][1])] = new(2)]
    BY <1>7, <2>1
  <2> QED
    BY <1>9, <2>2
<1>11. Len(p) = 1 => Modified(items, p)
              = [items EXCEPT ![FirstOf(items, p[1][1])] = [variant |-> p[1][2], price |-> Price[p[1][2]]]]
  <2> SUFFICES ASSUME Len(p) = 1
               PROVE  Modified(items, p)
                        = [items EXCEPT ![FirstOf(items, p[1][1])] = [variant |-> p[1][2], price |-> Price[p[1][2]]]]
    OBVIOUS
  <2>1. Modified(items, p) = one
    BY <1>1, <1>9
  <2>2. new(1) = [variant |-> p[1][2], price |-> Price[p[1][2]]]
    BY DEF new, price
  <2> HIDE DEF two
  <2> QED
    BY <2>1, <2>2 DEF one
<1> HIDE DEF two
<1> QED
  BY <1>1, <1>3, <1>4, <1>9, <1>10, <1>11

\* One item replaced: the items cost that much more.
LEMMA OneModified ==
  ASSUME NEW items \in Seq(ItemRecords), Len(items) = 2, NEW k \in 1..2, NEW v \in Variants, Price[v] \in Nat
  PROVE  ItemsPrice([items EXCEPT ![k] = [variant |-> v, price |-> Price[v]]])
           = ItemsPrice(items) + (Price[v] - items[k].price)
<1> DEFINE new == [variant |-> v, price |-> Price[v]]
           after == [items EXCEPT ![k] = new]
<1>1. new \in ItemRecords /\ new.price = Price[v]
  BY DEF ItemRecords
<1> HIDE DEF new
<1>2. items \in [1..2 -> ItemRecords]
  BY LenProperties
<1>3. after \in [1..2 -> ItemRecords] /\ after[k] = new /\ \A i \in 1..2 : i # k => after[i] = items[i]
  BY <1>1, <1>2
<1> HIDE DEF after
<1>4. after \in Seq(ItemRecords) /\ Len(after) = 2
  BY <1>3, FunctionIsSeq
<1>5. /\ items[1].price \in Nat /\ items[2].price \in Nat
      /\ ItemsPrice(items) = items[1].price + items[2].price
      /\ ItemsPrice(after) = after[1].price + after[2].price
  BY <1>4, PriceTyped
<1>6. CASE k = 1
  <2>1. after[1].price = Price[v] /\ after[2].price = items[2].price
    BY <1>1, <1>3, <1>6
  <2> QED
    BY <1>5, <1>6, <2>1 DEF after, new
<1>7. CASE k = 2
  <2>1. after[2].price = Price[v] /\ after[1].price = items[1].price
    BY <1>1, <1>3, <1>7
  <2> QED
    BY <1>5, <1>7, <2>1 DEF after, new
<1> QED
  BY <1>6, <1>7

LEMMA Modifying ==
  ASSUME RetailInv, NEW o \in Orders, NEW p \in Exchanges(o), NEW method \in Methods,
         ModifyPendingOrderItems(o, p, method)
  PROVE  RetailInv'
<1> DEFINE q == order[o]
           h == q.history
           items == Modified(q.items, p)
           diff == Difference(o, p)
           e == IF diff > 0 THEN Entry("payment", diff, method) ELSE Entry("refund", -diff, method)
           after == h \o <<e>>
           d == IF method = "gift_card" THEN diff ELSE 0
           n == [q EXCEPT !.status = "pending_modified", !.items = items, !.history = after]
<1>1. /\ q.status = "pending" /\ Covered(method, diff) /\ gift' = Charge(method, diff)
      /\ several' = (IF Len(p) > 1 THEN several \cup {o} ELSE several) /\ repaid' = repaid
  BY DEF ModifyPendingOrderItems
<1>2. order' = [order EXCEPT ![o] = [q EXCEPT !.status = "pending_modified", !.items = items,
                                              !.history = Append(h, e)]]
  BY DEF ModifyPendingOrderItems
<1>3. /\ q \in OrderRecords /\ OrderSound(o, q, repaid, several) /\ TailNet(q) \in Int
      /\ q.items \in Seq(ItemRecords) /\ Len(q.items) = 2 /\ h \in Seq(EntryRecords) /\ Len(h) # 0
      /\ Net(h, Methods) \in Int
  BY OrderAt DEF RetailInv
<1>4. /\ Len(p) \in {1, 2}
      /\ \A i \in 1..Len(p) : p[i][2] \in Variants /\ Price[p[i][2]] \in Nat
                              /\ FirstOf(q.items, p[i][1]) \in 1..2
  BY NamedItems
<1>5. diff \in Int /\ (Len(p) = 1 => diff = Price[p[1][2]] - q.items[FirstOf(q.items, p[1][1])].price)
  BY DifferenceTyped
<1> HIDE DEF q, diff
<1>6. TailNet(q) = Net(Tail(h), {"gift_card"})
  BY DEF TailNet
<1>7. e \in EntryRecords /\ Taking(e, Methods) = diff /\ Taking(e, {"gift_card"}) = d
  <2>1. CASE diff > 0
    <3>1. diff \in Nat /\ e = Entry("payment", diff, method)
      BY <1>5, <2>1
    <3> QED
      BY <3>1 DEF Entry, EntryRecords, Taking
  <2>2. CASE ~(diff > 0)
    <3>1. -diff \in Nat /\ e = Entry("refund", -diff, method) /\ -(-diff) = diff
      BY <1>5, <2>2
    <3> QED
      BY <3>1 DEF Entry, EntryRecords, Taking
  <2> QED
    BY <2>1, <2>2
<1> HIDE DEF e, h
<1>8. /\ <<e>> \in Seq(EntryRecords) /\ Net(<<e>>, Methods) = diff /\ Net(<<e>>, {"gift_card"}) = d
      /\ Append(h, e) = after
  BY <1>3, <1>7, NetOne, AppendIsConcat
<1> DEFINE added == <<e>>
<1>9. /\ after \in Seq(EntryRecords) /\ Len(after) # 0
      /\ Net(after, Methods) = Net(h, Methods) + diff
      /\ Net(Tail(after), {"gift_card"}) = Net(Tail(h), {"gift_card"}) + d
  <2>1. after = h \o added /\ added \in Seq(EntryRecords)
        /\ Net(added, Methods) = diff /\ Net(added, {"gift_card"}) = d
    BY <1>8
  <2> HIDE DEF added, after
  <2> QED
    BY <1>3, <2>1, EntriesAdded
<1>10. order' = [order EXCEPT ![o] = n]
  BY <1>2, <1>8
<1> HIDE DEF after, added
<1>11. /\ items \in Seq(ItemRecords) /\ Len(items) = 2
       /\ Len(p) = 1 => ItemsPrice(items) = ItemsPrice(q.items) + diff
  <2> DEFINE old == q.items
             k == FirstOf(old, p[1][1])
  <2>1. old \in Seq(ItemRecords) /\ Len(old) = 2
    BY <1>3
  <2>2. items = Modified(old, p)
    OBVIOUS
  <2> HIDE DEF old
  <2>3. /\ Modified(old, p) \in Seq(ItemRecords) /\ Len(Modified(old, p)) = 2
        /\ Len(p) = 1 => Modified(old, p) = [old EXCEPT ![k] = [variant |-> p[1][2], price |-> Price[p[1][2]]]]
    BY <1>4, <2>1, ModifiedIs
  <2>4. ASSUME Len(p) = 1 PROVE ItemsPrice(Modified(old, p)) = ItemsPrice(old) + diff
    <3>1. k \in 1..2 /\ p[1][2] \in Variants /\ Price[p[1][2]] \in Nat
          /\ diff = Price[p[1][2]] - old[k].price
      BY <1>4, <1>5, <2>4 DEF old
    <3> HIDE DEF k
    <3> DEFINE v == p[1][2]
    <3>2. Modified(old, p) = [old EXCEPT ![k] = [variant |-> v, price |-> Price[v]]]
      BY <2>3, <2>4
    <3> HIDE DEF v
    <3>3. ItemsPrice([old EXCEPT ![k] = [variant |-> v, price |-> Price[v]]])
            = ItemsPrice(old) + (Price[v] - old[k].price)
      BY <2>1, <3>1, OneModified DEF v
    <3> QED
      BY <3>1, <3>2, <3>3 DEF v
  <2> QED
    BY <2>2, <2>3, <2>4 DEF old
<1> HIDE DEF items
<1>12. /\ n \in OrderRecords /\ n.status = "pending_modified" /\ n.items = items /\ n.history = after
  BY <1>3, <1>9, <1>11 DEF OrderRecords, Statuses
<1> HIDE DEF n
<1>13. OrderSound(o, n, repaid', several')
  <2>1. ASSUME o \notin several' PROVE Net(after, Methods) = ItemsPrice(items)
    <3>1. Len(p) = 1 /\ o \notin several
      BY <1>1, <1>4, <2>1
    <3>2. Net(h, Methods) = ItemsPrice(q.items)
      BY <1>1, <1>3, <3>1 DEF OrderSound, h
    <3> QED
      BY <1>9, <1>11, <3>1, <3>2
  <2> QED
    BY <1>9, <1>11, <1>12, <2>1 DEF OrderSound
<1>14. TailNet(n) = TailNet(q) + d
  BY <1>6, <1>9, <1>12 DEF TailNet
<1>15. d \in Int /\ gift' = gift - d /\ gift >= d
  <2>1. gift \in Int /\ gift >= 0
    BY DEF RetailInv
  <2>2. CASE method = "gift_card"
    BY <1>1, <1>5, <2>1, <2>2 DEF Covered, Charge
  <2>3. CASE method # "gift_card"
    BY <1>1, <2>1, <2>3 DEF Charge
  <2> QED
    BY <2>2, <2>3
<1>16. repaid' \in {repaid, repaid \cup {o}} /\ several' \in {several, several \cup {o}}
  BY <1>1
<1> HIDE DEF d
<1>17. n \in OrderRecords
  BY <1>12
<1> QED
  BY <1>10, <1>13, <1>14, <1>15, <1>16, <1>17, OrderChanges DEF q

LEMMA TwoEntries ==
  ASSUME NEW e \in EntryRecords, NEW f \in EntryRecords
  PROVE  <<e, f>> = <<e>> \o <<f>>
<1> DEFINE one == <<e>>
<1>1. one \in Seq(EntryRecords) /\ Len(one) = 1 /\ one[1] = e
  OBVIOUS
<1>2. <<e, f>> = Append(one, f)
  OBVIOUS
<1> HIDE DEF one
<1>3. Append(one, f) = one \o <<f>>
  BY <1>1, AppendIsConcat
<1> QED
  BY <1>2, <1>3 DEF one

\* The payment made by another method: nothing more is paid.
LEMMA Repaying ==
  ASSUME RetailInv, NEW o \in Orders, NEW method \in Methods, ModifyPendingOrderPayment(o, method)
  PROVE  RetailInv'
<1> DEFINE q == order[o]
           h == q.history
           paid == h[1]
           e == Entry("payment", paid.amount, method)
           f == Entry("refund", paid.amount, paid.method)
           one == <<e>>
           two == <<f>>
           added == <<e, f>>
           after == h \o added
           d == Taking(e, {"gift_card"}) + Taking(f, {"gift_card"})
           n == [q EXCEPT !.history = after]
<1>1. /\ q.status \in {"pending", "pending_modified"} /\ paid.method # method /\ Covered(method, paid.amount)
      /\ gift' = (IF paid.method = "gift_card" THEN gift + paid.amount ELSE Charge(method, paid.amount))
      /\ repaid' = repaid \cup {o} /\ several' = several
  BY DEF ModifyPendingOrderPayment
<1>2. order' = [order EXCEPT ![o] = n]
  BY DEF ModifyPendingOrderPayment
<1>3. /\ q \in OrderRecords /\ OrderSound(o, q, repaid, several) /\ TailNet(q) \in Int
      /\ q.items \in Seq(ItemRecords) /\ Len(q.items) = 2 /\ h \in Seq(EntryRecords) /\ Len(h) # 0
      /\ Net(h, Methods) \in Int
  BY OrderAt DEF RetailInv
<1>4. paid \in EntryRecords
  <2> HIDE DEF h
  <2>1. 1 \in 1..Len(h)
    BY <1>3, LenProperties
  <2> QED
    BY <1>3, <2>1, ElementOfSeq
<1> HIDE DEF q
<1>5. TailNet(q) = Net(Tail(h), {"gift_card"})
  BY DEF TailNet
<1>6. Net(h, Methods) = Net(q.history, Methods)
  BY DEF h
<1> HIDE DEF paid, h
<1>7. paid.amount \in Nat /\ paid.method \in Methods
  BY <1>4 DEF EntryRecords
<1>8. /\ e \in EntryRecords /\ f \in EntryRecords
      /\ Taking(e, Methods) = paid.amount /\ Taking(f, Methods) = -paid.amount
      /\ Taking(e, {"gift_card"}) = IF method = "gift_card" THEN paid.amount ELSE 0
      /\ Taking(f, {"gift_card"}) = IF paid.method = "gift_card" THEN -paid.amount ELSE 0
  BY <1>7 DEF Entry, EntryRecords, Taking
<1>9. d \in Int /\ gift' = gift - d /\ gift >= d
  <2>1. gift \in Int /\ gift >= 0
    BY DEF RetailInv
  <2>2. CASE paid.method = "gift_card"
    <3>1. method # "gift_card"
      BY <1>1, <2>2
    <3>2. d = 0 + -paid.amount
      BY <1>8, <2>2, <3>1
    <3> HIDE DEF d
    <3>3. gift' = gift + paid.amount
      BY <1>1, <2>2
    <3> QED
      BY <1>7, <2>1, <3>2, <3>3
  <2>3. CASE paid.method # "gift_card"
    <3>1. method = "gift_card" /\ paid.amount \in Int
      BY <1>1, <1>7, <2>3 DEF Methods
    <3>2. d = paid.amount
      BY <1>8, <2>3, <3>1
    <3> HIDE DEF d
    <3>3. gift' = gift - paid.amount /\ gift >= paid.amount
      BY <1>1, <2>3, <3>1 DEF Charge, Covered
    <3> QED
      BY <2>1, <3>1, <3>2, <3>3
  <2> QED
    BY <2>2, <2>3
<1>10. /\ Taking(e, Methods) + Taking(f, Methods) = 0
       /\ Taking(e, {"gift_card"}) + Taking(f, {"gift_card"}) = d
  BY <1>7, <1>8
<1> HIDE DEF e, f, d
<1>11. /\ added \in Seq(EntryRecords)
       /\ Net(added, Methods) = 0 /\ Net(added, {"gift_card"}) = d
  <2>1. added = one \o two
    BY <1>8, TwoEntries
  <2>2. /\ one \in Seq(EntryRecords) /\ two \in Seq(EntryRecords)
        /\ \A ms : Net(one, ms) = Taking(e, ms) /\ Net(two, ms) = Taking(f, ms)
    BY <1>8, NetOne
  <2> HIDE DEF one, two, added
  <2>3. /\ one \o two \in Seq(EntryRecords)
        /\ Net(one \o two, Methods) = Net(one, Methods) + Net(two, Methods)
        /\ Net(one \o two, {"gift_card"}) = Net(one, {"gift_card"}) + Net(two, {"gift_card"})
    BY <2>2, NetConcat
  <2> QED
    BY <1>10, <2>1, <2>2, <2>3
<1> HIDE DEF added
<1>12. /\ after \in Seq(EntryRecords) /\ Len(after) # 0
       /\ Net(after, Methods) = Net(h, Methods)
       /\ Net(Tail(after), {"gift_card"}) = Net(Tail(h), {"gift_card"}) + d
  <2>1. /\ after \in Seq(EntryRecords) /\ Len(after) # 0
        /\ Net(after, Methods) = Net(h, Methods) + Net(added, Methods)
        /\ Net(Tail(after), {"gift_card"}) = Net(Tail(h), {"gift_card"}) + Net(added, {"gift_card"})
    BY <1>3, <1>11, EntriesAdded
  <2> HIDE DEF after
  <2> QED
    BY <1>3, <1>11, <2>1
<1> HIDE DEF after
<1>13. /\ n \in OrderRecords /\ n.status = q.status /\ n.items = q.items /\ n.history = after
  BY <1>3, <1>12 DEF OrderRecords
<1> HIDE DEF n
<1>14. OrderSound(o, n, repaid', several')
  <2>1. o \notin several => Net(q.history, Methods) = ItemsPrice(q.items)
    BY <1>1, <1>3 DEF OrderSound
  <2> QED
    BY <1>1, <1>3, <1>6, <1>12, <1>13, <2>1 DEF OrderSound
<1>15. TailNet(n) = TailNet(q) + d
  BY <1>5, <1>12, <1>13 DEF TailNet
<1>16. repaid' \in {repaid, repaid \cup {o}} /\ several' \in {several, several \cup {o}} /\ n \in OrderRecords
  BY <1>1, <1>13
<1> QED
  BY <1>2, <1>9, <1>14, <1>15, <1>16, OrderChanges DEF q

LEMMA RetailKept == RetailInv /\ [RetailNext]_retailVars => RetailInv'
<1>1. ASSUME RetailInv, RetailStep PROVE RetailInv'
  <2>1. CASE \E o \in Orders : CancelPendingOrder(o)
    BY <1>1, <2>1, Cancelling
  <2>2. CASE \E o \in Orders, m \in Methods : \E p \in Exchanges(o) : ExchangeDeliveredOrderItems(o, p, m)
    <3>1. PICK o \in Orders, m \in Methods : \E p \in Exchanges(o) : ExchangeDeliveredOrderItems(o, p, m)
      BY <2>2
    <3>2. PICK p \in Exchanges(o) : ExchangeDeliveredOrderItems(o, p, m)
      BY <3>1
    <3> DEFINE q == order[o]
               diff == Difference(o, p)
               n == [q EXCEPT !.status = "exchange_requested", !.difference = diff]
    <3>3. UNCHANGED <<gift, repaid, several>> /\ order' = [order EXCEPT ![o] = n]
      BY <3>2 DEF ExchangeDeliveredOrderItems
    <3>4. q \in OrderRecords /\ diff \in Int
      BY <1>1, OrderAt, DifferenceTyped DEF RetailInv
    <3>5. n \in OrderRecords /\ n.status = "exchange_requested" /\ n.items = q.items /\ n.history = q.history
      <4> HIDE DEF q, diff
      <4> QED
        BY <3>4 DEF OrderRecords, Statuses
    <3> HIDE DEF n
    <3> QED
      BY <1>1, <3>3, <3>5, StatusChanges
  <2>3. CASE \E o \in Orders, m \in Methods : ReturnDeliveredOrderItems(o, m)
    <3>1. PICK o \in Orders, m \in Methods : ReturnDeliveredOrderItems(o, m)
      BY <2>3
    <3> DEFINE q == order[o]
               n == [q EXCEPT !.status = "return_requested"]
    <3>2. UNCHANGED <<gift, repaid, several>> /\ order' = [order EXCEPT ![o] = n]
      BY <3>1 DEF ReturnDeliveredOrderItems
    <3>3. q \in OrderRecords
      BY <1>1, OrderAt DEF RetailInv
    <3>4. n \in OrderRecords /\ n.status = "return_requested" /\ n.items = q.items /\ n.history = q.history
      <4> HIDE DEF q
      <4> QED
        BY <3>3 DEF OrderRecords, Statuses
    <3> HIDE DEF n
    <3> QED
      BY <1>1, <3>2, <3>4, StatusChanges
  <2>4. CASE \E o \in Orders, m \in Methods : \E p \in Exchanges(o) : ModifyPendingOrderItems(o, p, m)
    BY <1>1, <2>4, Modifying
  <2>5. CASE \E o \in Orders, m \in Methods : ModifyPendingOrderPayment(o, m)
    BY <1>1, <2>5, Repaying
  <2> QED
    BY <1>1, <2>1, <2>2, <2>3, <2>4, <2>5 DEF RetailStep
<1>2. RetailInv /\ UNCHANGED retailVars => RetailInv'
  <2> SUFFICES ASSUME RetailInv, UNCHANGED retailVars PROVE RetailInv'
    OBVIOUS
  <2>1. UNCHANGED <<order, gift, repaid, several>>
    BY DEF retailVars
  <2>2. GiftSpent' = GiftSpent
    BY <2>1 DEF GiftSpent, TailNet
  <2> QED
    BY <2>1, <2>2 DEF RetailInv, OrderSound
<1> QED
  BY <1>1, <1>2 DEF RetailNext

LEMMA RetailCorrect == Spec => []RetailInv
<1>1. Init => RetailInv
  BY RetailStart DEF Init
<1>2. [Next]_domainsVars => [RetailNext]_retailVars
  BY DEF Next, domainsVars, TelecomStep, BankingPlayed, RetailPlayed, AirlinePlayed
<1> QED
  BY <1>1, <1>2, RetailKept, PTL DEF Spec

\* ShopBooksBalance, of Retail: an order still to be sent is paid for as its items
\* cost and a cancelled one not at all, with the two exceptions that the property
\* names, and the gift card holds what the histories of all orders leave of it.
THEOREM ShopBooks == Spec => []ShopBooksBalance
<1>1. RetailInv => PaidAsItCosts
  <2> SUFFICES ASSUME RetailInv, NEW o \in Orders
               PROVE  /\ o \in Pending \ several => NetPaid(o) = ItemsPrice(order[o].items)
                      /\ order[o].status = "cancelled" /\ o \notin repaid => NetPaid(o) = 0
    BY DEF PaidAsItCosts
  <2>1. OrderSound(o, order[o], repaid, several)
    BY DEF RetailInv
  <2> QED
    BY <2>1 DEF OrderSound, Pending, NetPaid
<1>2. RetailInv => GiftCardMatchesHistory
  <2> SUFFICES ASSUME RetailInv PROVE GiftCardMatchesHistory
    OBVIOUS
  <2>1. GiftSpent = Total([i \in DOMAIN SetToSeq(Orders)
                             |-> Net(Tail(order[SetToSeq(Orders)[i]].history), {"gift_card"})])
    BY DEF GiftSpent, TailNet
  <2> QED
    BY <2>1 DEF RetailInv, GiftCardMatchesHistory
<1> QED
  BY <1>1, <1>2, RetailCorrect, PTL DEF ShopBooksBalance
=============================================================================
