------------------------------- MODULE Market --------------------------------
(***************************************************************************)
(* The market between the two liquid assets: limit orders, how a new order *)
(* is matched with the book, and cancelling (limit_order_* evaluators,     *)
(* apply_order(), match(), fill_order() and cancel_order()).  Module       *)
(* Ledger adds everything else that moves these assets.                    *)
(*                                                                         *)
(* An operation that fails an assertion changes nothing, so it has no      *)
(* action: the assertions are guards.  The interest that modify_balance()  *)
(* adds to dollars is left out: the witnesses' median interest rate is     *)
(* zero here.  Amounts are far from 64 bits.                               *)
(***************************************************************************)
EXTENDS Accounts, Sequences, FiniteSets, SequencesExt

CONSTANTS
  OrderTerms,    \* the orders that are placed, records with the fields
                 \*   owner, id     the key of a limit order
                 \*   sells, for    amount_to_sell: the asset and how much
                 \*   base, quote   the price: quote of the other asset for
                 \*                 base of the sold one
                 \*   expire        expiration
                 \*   kill          fill_or_kill
  MaxOrderLife   \* ZATTERA_MAX_LIMIT_ORDER_EXPIRATION

Other(s) == IF s = "liquid" THEN "dollar" ELSE "liquid"

(* What an amount of the sold asset is worth at the price of an order, and *)
(* what an amount of the other asset is worth: operator *(asset, price),   *)
(* which rounds down.                                                      *)
Worth(t, n) == (n * t.quote) \div t.base

(* Mutant: rounds up. *)
CostRoundedUp(t, n) == (n * t.base + t.quote - 1) \div t.quote

Cost(t, n) == (n * t.base) \div t.quote

(* The validate() functions of the two operations that place an order. *)
ASSUME MarketAssumption ==
  /\ \A t \in OrderTerms :
       /\ t.owner \in Account /\ t.sells \in Asset
       /\ t.for \in Nat \ {0} /\ t.base \in Nat \ {0} /\ t.quote \in Nat \ {0}
       /\ t.expire \in Nat /\ t.kill \in BOOLEAN
       /\ Worth(t, t.for) > 0
  /\ MaxOrderLife \in Nat

VARIABLES
  book,   \* the limit orders, a sequence in the order of their ids
  closed  \* history variable: the orders that the last operation filled

MarketTypeOK ==
  /\ balance \in [Account -> [Asset -> Nat]]
  /\ \A i \in DOMAIN book : book[i].terms \in OrderTerms

Same(o, p) == o.terms.owner = p.terms.owner /\ o.terms.id = p.terms.id

(* An order stands if it still has something to sell, and not so little    *)
(* that it would be given away at the order's own price.                   *)
Stands(o) == o.rest > 0 /\ Worth(o.terms, o.rest) > 0

(* fill_order(): the seller receives, and what it paid is gone from the    *)
(* order.                                                                  *)
Fill(o, pays, receives) ==
  [o EXCEPT !.rest = @ - pays, !.paid = @ + pays, !.got = @ + receives]

(* Mutant: what is too little to be sold is lost. *)
SettleDrops(b, o, receives) ==
  Credit(b, o.terms.owner, Other(o.terms.sells), receives)

(* The balances after fill_order(), which cancels what is too little to be *)
(* sold.                                                                   *)
Settle(b, o, receives) ==
  LET c == Credit(b, o.terms.owner, Other(o.terms.sells), receives)
  IN  IF Stands(o) THEN c ELSE Credit(c, o.terms.owner, o.terms.sells, o.rest)

(* match(): a new order trades with an order of the book at the price of   *)
(* the latter.  m.new is the new order, m.book what is left of the book.   *)
Match(m, old) ==
  LET all      == m.new.rest <= Worth(old.terms, old.rest)
      receives == IF all THEN Cost(old.terms, m.new.rest) ELSE old.rest
      pays     == IF all THEN m.new.rest ELSE Worth(old.terms, old.rest)
      n        == Fill(m.new, pays, receives)
      o        == Fill(old, receives, pays)
  IN  [new     |-> n,
       book    |-> IF Stands(o)
                   THEN [i \in DOMAIN m.book |->
                           IF Same(m.book[i], o) THEN o ELSE m.book[i]]
                   ELSE SelectSeq(m.book, LAMBDA p : ~Same(p, o)),
       balance |-> Settle(Settle(m.balance, n, receives), o, pays),
       closed  |-> m.closed \cup {p \in {n, o} : ~Stands(p)}]

(* The price of o is at least as good for a buyer as that of p. *)
AtLeast(o, p) == o.terms.base * p.terms.quote >= p.terms.base * o.terms.quote

(* The orders of the book that an order can trade with: they sell what it  *)
(* buys at its price or at a better one.                                   *)
Crosses(o, p) ==
  /\ o.terms.sells # p.terms.sells
  /\ o.terms.base * p.terms.base >= o.terms.quote * p.terms.quote

(* apply_order(): the new order, which is in the book already, trades with *)
(* the matching orders, the best price first and then the oldest, until it *)
(* is filled.                                                              *)
ApplyOrder(o) ==
  LET before(i, j) == \/ ~AtLeast(book[j], book[i])
                      \/ AtLeast(book[i], book[j]) /\ i < j
      queue == SetToSortSeq({i \in DOMAIN book : Crosses(o, book[i])}, before)
      end   == FoldLeft(LAMBDA m, i : IF Stands(m.new) THEN Match(m, book[i]) ELSE m,
                        [new |-> o, book |-> book, closed |-> {},
                         balance |-> Credit(balance, o.terms.owner, o.terms.sells, -o.rest)],
                        queue)
  IN  IF Stands(end.new) THEN [end EXCEPT !.book = Append(@, end.new)] ELSE end

(* The limit_order_create evaluators. *)
CreateOrder(t) ==
  /\ now < t.expire /\ t.expire <= now + MaxOrderLife
  /\ balance[t.owner][t.sells] >= t.for
  /\ \E o \in {[terms |-> t, rest |-> t.for, paid |-> 0, got |-> 0]} :
       /\ \A i \in DOMAIN book : ~Same(book[i], o)
       /\ \E end \in {ApplyOrder(o)} :
            /\ t.kill => ~Stands(end.new)
            /\ balance' = end.balance
            /\ book' = end.book
            /\ closed' = end.closed

(* Credits the seller of every order of the sequence with what is left of  *)
(* it: cancel_order().                                                     *)
Refund(b, orders) ==
  FoldLeft(LAMBDA c, o : Credit(c, o.terms.owner, o.terms.sells, o.rest), b, orders)

(* The limit_order_cancel evaluator. *)
CancelOrder(i) ==
  /\ balance' = Refund(balance, <<book[i]>>)
  /\ book' = RemoveAt(book, i)
  /\ closed' = {}

(* clear_expired_orders(), when the time is t. *)
Expired(t) == SelectSeq(book, LAMBDA o : o.terms.expire < t)
Unexpired(t) == SelectSeq(book, LAMBDA o : o.terms.expire >= t)

------------------------------------------------------------------------------

(* Every order in the book can still be sold for something, and no two     *)
(* orders are left standing that could trade with each other: apply_order()*)
(* stops only when the new order is gone or nothing matches it, whatever   *)
(* rounding left of the orders it went through.                            *)
BookUncrossed ==
  \A i, j \in DOMAIN book :
    LET o == book[i].terms
        p == book[j].terms
    IN  /\ book[i].rest * o.quote >= o.base
        /\ o.sells # p.sells => o.base * p.base < o.quote * p.quote

(* No seller is paid less than the price of the order: until it is filled  *)
(* what it got is worth what it paid, over all the partial fills, and when *)
(* it is filled only one rounding is lost and never everything.            *)
FairDeals ==
  /\ \A i \in DOMAIN book :
       book[i].got * book[i].terms.base >= book[i].paid * book[i].terms.quote
  /\ \A o \in closed : o.got > 0 /\ o.got >= Worth(o.terms, o.paid)

(* Matching is complete and gives nobody less than the price asked,        *)
(* through all partial fills and their rounding (apply_order, match,       *)
(* fill_order).                                                            *)
MarketFair ==
  /\ BookUncrossed
  /\ FairDeals
==============================================================================
