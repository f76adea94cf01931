---------------------------- MODULE OrderBuilders ----------------------------
(***************************************************************************)
(* builders.py: orders and groups from the arguments a strategy has.  The  *)
(* arguments that all legs share are a record `terms`; trade actions,      *)
(* symbols and routes are left out (see OrderTerms for what an order is).  *)
(***************************************************************************)
EXTENDS Sequences, Naturals

Built(terms, type, limit, stop, estimate) ==
  [account |-> terms.account, class |-> terms.class, type |-> type,
   hours |-> terms.hours, quantity |-> terms.quantity,
   limit |-> limit, stop |-> stop, estimate |-> estimate]

limit_order(terms, limit) == Built(terms, "LIMIT", limit, 0, 0)
market_order(terms, estimate) == Built(terms, "MARKET", 0, 0, estimate)
stop_market_order(terms, stop) == Built(terms, "STOP_MARKET", 0, stop, 0)
stop_limit_order(terms, stop, limit) == Built(terms, "STOP_LIMIT", limit, stop, 0)

Group(kind, orders) == [kind |-> kind, members |-> Len(orders), legs |-> orders]

one_cancels_all(orders) == Group("OCO", orders)

oco_exit_group(terms, target, stop) ==
  Group("OCO", <<limit_order(terms, target), stop_market_order(terms, stop)>>)

\* The entry and the exits may differ in their durations.
bracket_order_group(terms, exit_hours, entry, target, stop) ==
  LET exit == [terms EXCEPT !.hours = exit_hours]
  IN Group("BRK", <<limit_order(terms, entry), limit_order(exit, target),
                    stop_market_order(exit, stop)>>)
=============================================================================
