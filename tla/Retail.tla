-------------------------------- MODULE Retail --------------------------------
(***************************************************************************)
(* The retail domain (src/tau2/domains/retail/tools.py): the orders of one *)
(* user, who pays them by credit card or by one gift card, changed by the  *)
(* agent's tools.  A tool whose checks fail raises and changes nothing, so *)
(* the actions are the calls that pass.  Addresses, which no other tool    *)
(* looks at, are left out.                                                 *)
(***************************************************************************)
EXTENDS Integers, SequencesExt, Money

CONSTANTS
  Orders,        \* the user's orders
  Price,         \* price of each variant of the one product that they are of
  Unavailable,   \* variants that are out of stock
  GiftBalance,   \* what the gift card holds at first
  MaxShopCalls   \* bound: tool calls of a conversation

ASSUME RetailAssumption ==
  /\ IsFiniteSet(Orders)
  /\ Unavailable \subseteq DOMAIN Price /\ \A v \in DOMAIN Price : Price[v] \in Nat
  /\ GiftBalance \in Nat /\ MaxShopCalls \in Nat

VARIABLES
  order,         \* the orders
  gift,          \* balance of the gift card
  repaid,        \* orders whose payment was changed
  several,       \* orders of which several items were modified
  shopCalls      \* tool calls made

retailVars == <<order, gift, repaid, several, shopCalls>>

Methods == {"credit_card", "gift_card"}
Variants == DOMAIN Price
Item(v) == [variant |-> v, price |-> Price[v]]
Entry(type, amount, method) == [type |-> type, amount |-> amount, method |-> method]

ItemsPrice(items) == Total([i \in DOMAIN items |-> items[i].price])

\* What an entry of a payment history takes from the methods in ms, and what a
\* history does.
Taking(e, ms) == IF e.method \notin ms THEN 0 ELSE IF e.type = "payment" THEN e.amount ELSE -e.amount
Net(history, ms) == Total([i \in DOMAIN history |-> Taking(history[i], ms)])

\* An order has been paid in full, by one payment.
PaidOrder(bought, method, status) ==
  [status |-> status, items |-> bought, difference |-> 0,
   history |-> <<Entry("payment", ItemsPrice(bought), method)>>]
RetailInit ==
  /\ \E items \in [Orders -> (Variants \ Unavailable) \X (Variants \ Unavailable)],
        method \in [Orders -> Methods], status \in [Orders -> {"pending", "delivered"}] :
       order = [o \in Orders |->
         PaidOrder(<<Item(items[o][1]), Item(items[o][2])>>, method[o], status[o])]
  /\ gift = GiftBalance
  /\ repaid = {} /\ several = {} /\ shopCalls = 0
-----------------------------------------------------------------------------
\* Exchanges of items for variants, as pairs <<item, new item>>: each item as
\* often as the order holds it, each new one in stock.
Exchanges(o) ==
  {p \in UNION {[1..n -> Variants \X (Variants \ Unavailable)] : n \in 1..2} :
     /\ \A i \in DOMAIN p :
          Cardinality({k \in DOMAIN order[o].items : order[o].items[k].variant = p[i][1]})
            >= Cardinality({j \in DOMAIN p : p[j][1] = p[i][1]})}

FirstOf(items, v) == CHOOSE i \in DOMAIN items :
  items[i].variant = v /\ \A j \in 1..(i - 1) : items[j].variant # v

Difference(o, p) ==
  Total([i \in DOMAIN p |-> Price[p[i][2]] - order[o].items[FirstOf(order[o].items, p[i][1])].price])

Covered(method, amount) == method = "gift_card" => gift >= amount
Charge(method, amount) == IF method = "gift_card" THEN gift - amount ELSE gift

\* Every payment so far is refunded, the refunds among them too.
CancelPendingOrder(o) ==
  LET h == order[o].history
      refunds == [i \in DOMAIN h |-> [h[i] EXCEPT !.type = "refund"]]
  IN /\ order[o].status = "pending"
     /\ order' = [order EXCEPT ![o].status = "cancelled", ![o].history = h \o refunds]
     /\ gift' = gift + Total([i \in DOMAIN h |-> IF h[i].method = "gift_card" THEN h[i].amount ELSE 0])
     /\ UNCHANGED <<repaid, several>>

\* The difference is settled later: it is recorded, and the gift card has to
\* cover it now.
ExchangeDeliveredOrderItems(o, p, method) ==
  /\ order[o].status = "delivered"
  /\ Covered(method, Difference(o, p))
  /\ order' = [order EXCEPT ![o].status = "exchange_requested", ![o].difference = Difference(o, p)]
  /\ UNCHANGED <<gift, repaid, several>>

ReturnDeliveredOrderItems(o, method) ==
  /\ order[o].status = "delivered"
  /\ method = "gift_card" \/ method = order[o].history[1].method
  /\ order' = [order EXCEPT ![o].status = "return_requested"]
  /\ UNCHANGED <<gift, repaid, several>>

\* The items with those that p names replaced one by one, by what New makes of
\* the old item and the new variant.
Replaced(items, p, New(_, _)) ==
  LET upTo[n \in 0..Len(p)] ==
        IF n = 0 THEN items
        ELSE [upTo[n - 1] EXCEPT ![FirstOf(upTo[n - 1], p[n][1])] = New(@, p[n][2])]
  IN  upTo[Len(p)]

\* Mutant: the price of an item stays what it was.
ModifiedAtOldPrice(items, p) == Replaced(items, p, LAMBDA item, v : [item EXCEPT !.variant = v])

\* Each item named gets its new id, in the order of the names, and all of them
\* the price of the last variant looked up.
Modified(items, p) ==
  Replaced(items, p, LAMBDA item, v : [variant |-> v, price |-> Price[Last(p)[2]]])

ModifyPendingOrderItems(o, p, method) ==
  LET diff == Difference(o, p) IN
  /\ order[o].status = "pending"
  /\ \A i \in DOMAIN p : p[i][1] # p[i][2]
  /\ Covered(method, diff)
  /\ order' = [order EXCEPT
       ![o].status = "pending_modified",
       ![o].items = Modified(@, p),
       ![o].history = Append(@, IF diff > 0 THEN Entry("payment", diff, method)
                                            ELSE Entry("refund", -diff, method))]
  /\ gift' = Charge(method, diff)
  /\ several' = IF Len(p) > 1 THEN several \union {o} ELSE several
  /\ UNCHANGED repaid

\* Mutant: what the earlier gift card paid is not given back.
ModifyPaymentKeepingOld(o, method) ==
  LET paid == order[o].history[1] IN
  /\ order[o].status \in {"pending", "pending_modified"}
  /\ Len(order[o].history) = 1 /\ paid.type = "payment" /\ paid.method # method
  /\ Covered(method, paid.amount)
  /\ order' = [order EXCEPT ![o].history = @ \o <<Entry("payment", paid.amount, method),
                                                   Entry("refund", paid.amount, paid.method)>>]
  /\ gift' = Charge(method, paid.amount)
  /\ repaid' = repaid \union {o}
  /\ UNCHANGED several

ModifyPendingOrderPayment(o, method) ==
  LET paid == order[o].history[1] IN
  /\ order[o].status \in {"pending", "pending_modified"}
  /\ Len(order[o].history) = 1 /\ paid.type = "payment" /\ paid.method # method
  /\ Covered(method, paid.amount)
  /\ order' = [order EXCEPT ![o].history = @ \o <<Entry("payment", paid.amount, method),
                                                   Entry("refund", paid.amount, paid.method)>>]
  /\ gift' = IF paid.method = "gift_card" THEN gift + paid.amount ELSE Charge(method, paid.amount)
  /\ repaid' = repaid \union {o}
  /\ UNCHANGED several

RetailStep ==
  \/ \E o \in Orders : CancelPendingOrder(o)
  \/ \E o \in Orders, m \in Methods : \E p \in Exchanges(o) : ExchangeDeliveredOrderItems(o, p, m)
  \/ \E o \in Orders, m \in Methods : ReturnDeliveredOrderItems(o, m)
  \/ \E o \in Orders, m \in Methods : \E p \in Exchanges(o) : ModifyPendingOrderItems(o, p, m)
  \/ \E o \in Orders, m \in Methods : ModifyPendingOrderPayment(o, m)

RetailNext == shopCalls < MaxShopCalls /\ shopCalls' = shopCalls + 1 /\ RetailStep

RetailSpec == RetailInit /\ [][RetailNext]_retailVars
-----------------------------------------------------------------------------
(* Properties.                                                             *)

Pending == {o \in Orders : order[o].status \in {"pending", "pending_modified"}}
NetPaid(o) == Net(order[o].history, Methods)

\* An order that is still to be sent has been paid for as its items cost, and a
\* cancelled one not at all, after any change of items and payment; but several
\* items modified at once all get the price of the last one, and where a changed
\* payment is cancelled its old method is refunded twice.
PaidAsItCosts ==
  \A o \in Orders :
    /\ o \in Pending \ several => NetPaid(o) = ItemsPrice(order[o].items)
    /\ order[o].status = "cancelled" /\ o \notin repaid => NetPaid(o) = 0

\* One gift card serves several orders: it holds what it held, less what the
\* payment histories of all of them say it paid since, and never less than 0.
GiftCardMatchesHistory ==
  LET os == SetToSeq(Orders) IN
  /\ gift >= 0
  /\ gift = GiftBalance - Total([i \in DOMAIN os |-> Net(Tail(order[os[i]].history), {"gift_card"})])

\* The shop's books: every order's and the gift card's.
ShopBooksBalance == PaidAsItCosts /\ GiftCardMatchesHistory
=============================================================================
