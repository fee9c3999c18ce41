------------------------------- MODULE Airline -------------------------------
(***************************************************************************)
(* The airline domain (src/tau2/domains/airline/tools.py): the flights'    *)
(* seats, one user's reservations, gift card and certificates, changed by  *)
(* the agent's tools.  A tool whose checks fail raises; only               *)
(* book_reservation can raise after it has changed something.  Every       *)
(* reservation is for the same number of passengers; a flight is one on a  *)
(* date; who the passengers are, and airports, are left out.               *)
(***************************************************************************)
EXTENDS Integers, SequencesExt, Money

CONSTANTS
  Fares,         \* price of a seat, per flight and cabin
  Seats,         \* seats of a flight in each cabin at first
  Party,         \* passengers of a reservation
  GiftCard,      \* what the user's gift card holds at first
  CertificateAmount,  \* what each certificate is worth
  MaxListed,     \* bound: flights a call lists
  MaxAirCalls    \* bound: tool calls of a conversation

Flights == DOMAIN Fares
Cabins == {"economy", "business"}

ASSUME AirlineAssumption ==
  /\ IsFiniteSet(Flights) /\ \A f \in Flights : Fares[f] \in [Cabins -> Nat]
  /\ Seats \in Nat /\ Party \in Nat \ {0} /\ GiftCard \in Nat
  /\ CertificateAmount \in Nat \ {0} /\ {MaxListed, MaxAirCalls} \subseteq Nat

VARIABLES
  seats,         \* seats available, per flight and cabin
  reservations,  \* the reservations made, in the order of their ids
  giftCard,      \* balance of the gift card
  certificates,  \* ids of the user's certificates
  namedTwice,    \* history: a booking was to be paid by one method twice
  listedTwice,   \* history: flights listed more than once in a booking made
  airCalls       \* tool calls made

airlineVars ==
  <<seats, reservations, giftCard, certificates, namedTwice, listedTwice, airCalls>>

\* The ids a new certificate can get, and how many reservations can be made.
CertificateIds == <<"certificate_3221322", "certificate_3221323", "certificate_3221324">>
AllCertificates == {"certificate_own"} \union ToSet(CertificateIds)
MaxReservations == 3

AirlineInit ==
  /\ seats = [f \in Flights |-> [c \in Cabins |-> Seats]]
  /\ reservations = <<>>
  /\ giftCard = GiftCard
  /\ certificates = {"certificate_own"}
  /\ namedTwice = FALSE /\ listedTwice = {} /\ airCalls = 0

FaresOf(flights) == Total([i \in DOMAIN flights |-> flights[i].price])
Paid(r) == Total([i \in DOMAIN r.history |-> r.history[i].amount])

\* What a reservation costs: fares, 30 dollars a head for insurance, 50 dollars
\* for each bag that is not free.
Cost(flights, insured, nonfree) ==
  FaresOf(flights) * Party + (IF insured THEN 30 * Party ELSE 0) + 50 * nonfree

Journey(list, cabin) == [i \in DOMAIN list |-> [flight |-> list[i], price |-> Fares[list[i]][cabin]]]
-----------------------------------------------------------------------------
\* A payment method at hand that holds the amount.
Holds(payment) ==
  CASE payment.method = "credit_card" -> TRUE
    [] payment.method = "gift_card" -> giftCard >= payment.amount
    [] OTHER -> payment.method \in certificates /\ CertificateAmount >= payment.amount

Taken(payments, method) ==
  Total([i \in DOMAIN payments |-> IF payments[i].method = method THEN payments[i].amount ELSE 0])

Twice(payments) == \E i, j \in DOMAIN payments : i < j /\ payments[i].method = payments[j].method

\* How often a list of flights names one.
Entries(list, f) == Cardinality({i \in DOMAIN list : list[i] = f})

\* Flights and payments are looked at one by one, before any seat or amount is
\* taken.
Payable(list, cabin, insured, nonfree, payments) ==
  /\ Len(reservations) < MaxReservations
  /\ \A i \in DOMAIN list : seats[list[i]][cabin] >= Party
  /\ \A i \in DOMAIN payments : Holds(payments[i])
  /\ Total([i \in DOMAIN payments |-> payments[i].amount])
       = Cost(Journey(list, cabin), insured, nonfree)

\* Every entry takes its seats.
SeatsAfter(list, cabin) ==
  [f \in Flights |-> [seats[f] EXCEPT ![cabin] = @ - Party * Entries(list, f)]]
ListedAfter(list) == listedTwice \union {f \in Flights : Entries(list, f) > 1}

\* Mutant: a certificate is taken for what it is to pay, not as a whole.
BookKeepingCertificate(list, cabin, insured, nonfree, payments) ==
  /\ Payable(list, cabin, insured, nonfree, payments)
  /\ giftCard' = giftCard - Taken(payments, "gift_card")
  /\ seats' = SeatsAfter(list, cabin) /\ listedTwice' = ListedAfter(list)
  /\ reservations' = Append(reservations,
       [cabin |-> cabin, flights |-> Journey(list, cabin), insured |-> insured, nonfree |-> nonfree,
        history |-> payments, cancelled |-> FALSE, givenUp |-> 0])
  /\ UNCHANGED <<namedTwice, certificates>>

\* A certificate is used up, whatever it is to pay.
BookReservation(list, cabin, insured, nonfree, payments) ==
  /\ Payable(list, cabin, insured, nonfree, payments)
  /\ \A m \in AllCertificates : Cardinality({i \in DOMAIN payments : payments[i].method = m}) <= 1
  /\ giftCard' = giftCard - Taken(payments, "gift_card")
  /\ certificates' = certificates \ {payments[i].method : i \in DOMAIN payments}
  /\ seats' = SeatsAfter(list, cabin) /\ listedTwice' = ListedAfter(list)
  /\ reservations' = Append(reservations,
       [cabin |-> cabin, flights |-> Journey(list, cabin), insured |-> insured, nonfree |-> nonfree,
        history |-> payments, cancelled |-> FALSE, givenUp |-> 0])
  /\ namedTwice' = (namedTwice \/ Twice(payments))

\* A certificate named twice is gone when it is looked up again: the tool raises
\* after the certificate was taken, and makes no reservation.
BookReservationRaises(list, cabin, insured, nonfree, payments) ==
  /\ Payable(list, cabin, insured, nonfree, payments)
  /\ \E m \in AllCertificates :
       /\ Len(payments) = 2 /\ \A i \in 1..2 : payments[i].method = m
       /\ certificates' = certificates \ {m}
  /\ namedTwice' = TRUE
  /\ UNCHANGED <<seats, reservations, giftCard, listedTwice>>

\* Every entry so far is reversed, those of an earlier cancellation too.  Seats
\* are not released, the gift card is not refunded.
Reversed(history) == [i \in DOMAIN history |-> [history[i] EXCEPT !.amount = -@]]
CancelReservation(r) ==
  /\ reservations' = [reservations EXCEPT ![r].history = @ \o Reversed(@), ![r].cancelled = TRUE]
  /\ UNCHANGED <<seats, giftCard, certificates, namedTwice, listedTwice>>

\* _payment_for_update: certificates are refused, a negative price is a refund.
PaysForUpdate(method, price) == method = "gift_card" => giftCard >= price
GiftCardAfter(method, price) == IF method = "gift_card" THEN giftCard - price ELSE giftCard
HistoryAfter(history, method, price) ==
  IF price = 0 THEN history ELSE Append(history, [method |-> method, amount |-> price])

\* Mutant: bags given up are refunded.
UpdateBaggagesBothWays(r, nonfree, method) ==
  LET price == 50 * (nonfree - reservations[r].nonfree) IN
  /\ PaysForUpdate(method, price)
  /\ giftCard' = GiftCardAfter(method, price)
  /\ reservations' = [reservations EXCEPT
       ![r].history = HistoryAfter(@, method, price), ![r].nonfree = nonfree,
       ![r].givenUp = @ + (IF price < 0 THEN reservations[r].nonfree - nonfree ELSE 0)]
  /\ UNCHANGED <<seats, certificates, namedTwice, listedTwice>>

\* Bags given up are not refunded, and paid again when they are taken again.
UpdateReservationBaggages(r, nonfree, method) ==
  LET more == nonfree - reservations[r].nonfree
      price == IF more > 0 THEN 50 * more ELSE 0
  IN /\ PaysForUpdate(method, price)
     /\ giftCard' = GiftCardAfter(method, price)
     /\ reservations' = [reservations EXCEPT
          ![r].history = HistoryAfter(@, method, price), ![r].nonfree = nonfree,
          ![r].givenUp = @ + (IF more < 0 THEN -more ELSE 0)]
     /\ UNCHANGED <<seats, certificates, namedTwice, listedTwice>>

\* A flight kept in the same cabin keeps its price and needs no seats.
Kept(r, flight, cabin) ==
  /\ cabin = reservations[r].cabin
  /\ \E i \in DOMAIN reservations[r].flights : reservations[r].flights[i].flight = flight

\* Seats are not taken on the new flights, nor given back on the old ones.
UpdateReservationFlights(r, cabin, list, method) ==
  LET old == reservations[r].flights
      price == (FaresOf(Journey(list, cabin)) - FaresOf(old)) * Party
  IN /\ \A i \in DOMAIN list : Kept(r, list[i], cabin) \/ seats[list[i]][cabin] >= Party
     /\ PaysForUpdate(method, price)
     /\ giftCard' = GiftCardAfter(method, price)
     /\ reservations' = [reservations EXCEPT
          ![r].history = HistoryAfter(@, method, price),
          ![r].flights = Journey(list, cabin), ![r].cabin = cabin]
     /\ UNCHANGED <<seats, certificates, namedTwice, listedTwice>>

SendCertificate ==
  /\ \E i \in 1..3 : /\ \A j \in 1..(i - 1) : CertificateIds[j] \in certificates
                     /\ CertificateIds[i] \notin certificates
                     /\ certificates' = certificates \union {CertificateIds[i]}
  /\ UNCHANGED <<seats, reservations, giftCard, namedTwice, listedTwice>>
-----------------------------------------------------------------------------
\* Inputs: any list of flights, which may name one twice, with insurance and a
\* bag that is not free or neither, paid by one method or by two, the first for
\* as much as a certificate is worth.
Lists == UNION {[1..n -> Flights] : n \in 1..MaxListed}
PayMethods == {"credit_card", "gift_card", "certificate_own", CertificateIds[1]}
Payments(total) ==
  {<<[method |-> m, amount |-> total]>> : m \in PayMethods}
  \union (IF total <= CertificateAmount THEN {}
          ELSE {<<[method |-> m, amount |-> CertificateAmount],
                  [method |-> n, amount |-> total - CertificateAmount]>> :
                m \in PayMethods \ {"credit_card"}, n \in PayMethods})

AirlineStep ==
  \/ \E list \in Lists, cabin \in Cabins, insured \in BOOLEAN, nonfree \in 0..1 :
       /\ insured <=> nonfree = 1
       /\ \E payments \in Payments(Cost(Journey(list, cabin), insured, nonfree)) :
            \/ BookReservation(list, cabin, insured, nonfree, payments)
            \/ BookReservationRaises(list, cabin, insured, nonfree, payments)
  \/ \E r \in DOMAIN reservations : CancelReservation(r)
  \/ \E r \in DOMAIN reservations, nonfree \in 0..1, method \in {"credit_card", "gift_card"} :
       UpdateReservationBaggages(r, nonfree, method)
  \/ \E r \in DOMAIN reservations, cabin \in Cabins, list \in Lists, method \in {"credit_card", "gift_card"} :
       UpdateReservationFlights(r, cabin, list, method)
  \/ SendCertificate

AirlineNext == airCalls < MaxAirCalls /\ airCalls' = airCalls + 1 /\ AirlineStep

AirlineSpec == AirlineInit /\ [][AirlineNext]_airlineVars
-----------------------------------------------------------------------------
(* Properties.                                                             *)

\* A reservation that is not cancelled has been paid for as its flights, cabin,
\* insurance and bags cost, after any updates by whatever methods, and 50
\* dollars more for each bag that was given up.
PaidAsBooked ==
  \A i \in DOMAIN reservations :
    LET r == reservations[i] IN
    r.cancelled \/ Paid(r) = Cost(r.flights, r.insured, r.nonfree) + 50 * r.givenUp

\* Bookings never take more seats than there are; bookings and updates never take
\* more than the gift card holds, and the user's certificate is gone exactly when
\* a reservation was paid with it.  Exempt is what the tool checks one by one and
\* takes together: the seats of a flight that a booking lists twice fall below
\* zero if there are enough for one entry only, and a booking that names one
\* method twice can break the latter two.
UsedCertificates ==
  (UNION {{reservations[i].history[j].method : j \in DOMAIN reservations[i].history} : i \in DOMAIN reservations})
    \cap AllCertificates
PaymentsCovered ==
  /\ \A f \in Flights \ listedTwice, c \in Cabins : seats[f][c] >= 0
  /\ namedTwice \/ /\ giftCard >= 0
                   /\ "certificate_own" \in certificates \union UsedCertificates
                   /\ certificates \cap UsedCertificates \subseteq ToSet(CertificateIds)

\* The airline's books: the reservations' and what they are paid from.
AirlineBooksBalance == PaidAsBooked /\ PaymentsCovered
=============================================================================
