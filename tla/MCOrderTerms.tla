---------------------------- MODULE MCOrderTerms ----------------------------
(* Orders of every type with and without the prices that matter, orders a    *)
(* configuration may forbid, alone, as children and as members of a group.  *)
EXTENDS OrderTerms, OrderBuilders

CONSTANTS a1, a2

Terms(quantity) == [account |-> a1, class |-> "EQUITY", hours |-> "regular", quantity |-> quantity]

Plain == limit_order(Terms(1), 1)

\* With and without an estimate, with one that is lower than the limit, with a
\* missing price, a missing quantity, and a stop-market order that has a limit.
Priced ==
  {[limit_order(Terms(2), p) EXCEPT !.estimate = e] : p \in 0..2, e \in 0..1}
    \cup {[stop_market_order(Terms(2), 2) EXCEPT !.limit = l] : l \in 0..1}
    \cup {stop_limit_order(Terms(2), 1, l) : l \in 0..2}
    \cup {market_order(Terms(q), e) : q \in {0, 2}, e \in 0..1}

Restricted ==
  {[Plain EXCEPT !.account = a2], [Plain EXCEPT !.hours = "extended"]}
    \cup {[Plain EXCEPT !.class = class] : class \in Classes}

Single(o) == Group("order", <<o>>)
Family(o, child) == [kind |-> "order", members |-> 1, legs |-> <<o, child>>]

MCSubmissions ==
  {Single(o) : o \in Priced \cup Restricted}
    \cup {Family(Plain, o) : o \in Restricted \cup {limit_order(Terms(2), 2)}}
    \cup {one_cancels_all(<<Plain, [Plain EXCEPT !.account = a]>>) : a \in {a1, a2}}
    \cup {oco_exit_group(Terms(1), 1, 2)}
    \cup {Group(kind, <<Plain, Plain>>) : kind \in {"NORMAL", "BRK"}}
    \cup {bracket_order_group(Terms(q), h, 1, 1, 2) : q \in 1..2, h \in {"regular", "extended"}}

Change(quantity, limit, stop, market) ==
  [quantity |-> quantity, limit |-> limit, stop |-> stop, market |-> market]

MCChanges ==
  {Change(2, l, 0, FALSE) : l \in 0..2} \cup {Change(2, 0, 1, FALSE),
     Change(0, 2, 0, FALSE), Change(0, 0, 0, FALSE), Change(0, 0, 0, TRUE)}

MCOrderChanges == {[limit_order(Terms(2), 2) EXCEPT !.estimate = 1], market_order(Terms(1), 2)}

Strict == [accounts |-> {a1}, max |-> 2, market |-> FALSE, options |-> FALSE,
           futures |-> FALSE, extended |-> FALSE, trade |-> TRUE, read |-> TRUE,
           supports |-> {"order", "replace"} \cup Groups]
MCConfigs ==
  {Strict, [Strict EXCEPT !.market = TRUE, !.accounts = {a1, a2}],
   [Strict EXCEPT !.trade = FALSE], [Strict EXCEPT !.read = FALSE],
   [Strict EXCEPT !.extended = TRUE, !.supports = {"order", "NORMAL", "BRK"}],
   [Strict EXCEPT !.options = TRUE, !.futures = TRUE, !.supports = {"order", "OCO"}]}
=============================================================================
