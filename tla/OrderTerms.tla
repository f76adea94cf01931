----------------------------- MODULE OrderTerms -----------------------------
(***************************************************************************)
(* What an order may ask for: the checks of validation.py, config.py and   *)
(* the request models in models.py, which place_order, place_order_group   *)
(* and replace_order (client.py) make before they write, and the orders    *)
(* that are live at the broker as a result of such calls.  A call makes    *)
(* its checks, waits (a replacement and a cancellation for the preflight,  *)
(* each for its reply), and is then applied at the broker or not; orders   *)
(* fill, and the kill-switch file comes and goes, in between.              *)
(*                                                                         *)
(* A price that is not given is 0; given prices are positive.  An order    *)
(* with OSO children is a submission whose first leg is the order and      *)
(* whose other legs are its descendants.                                   *)
(***************************************************************************)
EXTENDS Naturals, Sequences

CONSTANTS Callers,     \* tasks that call the client
          Ids,         \* order IDs at the broker; a free one is used again
          Configs,     \* the configurations of the client that are looked at
          Submissions, \* what callers try to place
          Changes,     \* OrderReplaceRequests they try
          OrderChanges, \* OrderRequests they pass as a replacement
          NoOrder, NoCall,
          Nameless,    \* the IDs the broker may list without an account
          NoAccount

Types == {"MARKET", "LIMIT", "STOP_MARKET", "STOP_LIMIT"}
Classes == {"EQUITY", "OPTION", "FUTURE", "UNKNOWN"}
Groups == {"NORMAL", "OCO", "BRK"}

\* `hours` tells the durations for extended hours from the others.
IsOrder(o) ==
  /\ DOMAIN o = {"account", "class", "type", "hours", "quantity", "limit", "stop",
                 "estimate"}
  /\ o.class \in Classes /\ o.type \in Types /\ o.hours \in {"regular", "extended"}
  /\ o.quantity \in Nat /\ o.limit \in Nat /\ o.stop \in Nat /\ o.estimate \in Nat
IsChange(r) ==
  /\ DOMAIN r = {"quantity", "limit", "stop", "market"}
  /\ r.quantity \in Nat /\ r.limit \in Nat /\ r.stop \in Nat /\ r.market \in BOOLEAN

\* TradeStationConfig, with the capabilities of the client; `trade` and `read` say
\* that requested_scopes include Trade and ReadAccount.
IsConfig(c) ==
  /\ c.max \in Nat /\ NoAccount \notin c.accounts
  /\ \A flag \in {c.market, c.options, c.futures, c.extended, c.trade, c.read} : flag \in BOOLEAN
  /\ c.market \/ c.options \/ c.futures => c.trade

ASSUME ConfigsAssumption == \A c \in Configs : IsConfig(c)
ASSUME OrdersAssumption ==
  /\ \A s \in Submissions : /\ s.kind \in {"order"} \cup Groups
                            /\ s.legs \in Seq({s.legs[i] : i \in DOMAIN s.legs})
                            /\ s.members \in 1..Len(s.legs)
                            /\ \A i \in DOMAIN s.legs : IsOrder(s.legs[i])
  /\ \A o \in OrderChanges : IsOrder(o)
  /\ \A r \in Changes : IsChange(r)

VARIABLES config,
          kill,  \* the kill-switch file exists
          live,  \* the orders at the broker
          calls  \* the call of each caller after its checks

vars == <<config, kill, live, calls>>

-----------------------------------------------------------------------------
(* The request models. *)

\* Mutant: a quantity of zero is let through.
ValidPrices(o) ==
  /\ o.type \in {"LIMIT", "STOP_LIMIT"} => o.limit > 0
  /\ o.type \in {"STOP_MARKET", "STOP_LIMIT"} => o.stop > 0
\* OrderRequest: quantities are positive, and each type has its prices.
ValidOrder(o) ==
  /\ o.quantity > 0
  /\ o.type \in {"LIMIT", "STOP_LIMIT"} => o.limit > 0
  /\ o.type \in {"STOP_MARKET", "STOP_LIMIT"} => o.stop > 0

\* GroupOrderRequest: as many members as its type needs, of one account.
ValidGroup(s) ==
  /\ s.members >= (CASE s.kind = "NORMAL" -> 1 [] s.kind = "OCO" -> 2 [] s.kind = "BRK" -> 3)
  /\ \A i, j \in 1..s.members : s.legs[i].account = s.legs[j].account

ValidSubmission(s) ==
  /\ \A i \in DOMAIN s.legs : ValidOrder(s.legs[i])
  /\ s.kind \in Groups => ValidGroup(s)

\* _coerce_replace_request: the account, the class, the duration, the estimate
\* and every type but MARKET are dropped.
Coerced(o) == [quantity |-> o.quantity, limit |-> o.limit, stop |-> o.stop,
               market |-> o.type = "MARKET"]

-----------------------------------------------------------------------------
(* The risk checks. *)
\* `x or y` of two optional numbers
Given(x, y) == IF x > 0 THEN x ELSE y

\* Mutant: the stop price comes before the limit price.
StopPriceFirst(o) == Given(o.estimate, Given(o.stop, o.limit))
\* _estimated_notional looks at the first price that is given.
NotionalPrice(o) == Given(o.estimate, Given(o.limit, o.stop))

\* _validate_single_order_for_config, without the allowlist and kill switch.
PermittedOrder(o) ==
  /\ o.class # "UNKNOWN"
  /\ o.type = "MARKET" => config.market /\ o.estimate > 0
  /\ o.class = "OPTION" => config.options
  /\ o.class = "FUTURE" => config.futures
  /\ o.hours = "extended" => config.extended
  /\ o.quantity * NotionalPrice(o) <= config.max

\* assert_can_submit_orders
MaySubmit(account) == account \in config.accounts /\ ~kill

\* Mutant: an order's children, and a group's later members, are not looked at.
PermittedFirstLeg(s) == MaySubmit(s.legs[1].account) /\ PermittedOrder(s.legs[1])
\* validate_order_for_config with all descendants; validate_group_for_config
PermittedSubmission(s) ==
  \A i \in DOMAIN s.legs : MaySubmit(s.legs[i].account) /\ PermittedOrder(s.legs[i])

\* _estimated_replace_notional
ChangePrice(r) == Given(r.limit, r.stop)

\* validate_replace_for_config; without a quantity or price there is no notional.
PermittedChange(r) ==
  /\ r.market => config.market
  /\ r.quantity * ChangePrice(r) <= config.max

-----------------------------------------------------------------------------
(* What the broker makes of it. *)

\* The price at which an order of its type can fill.
FillPrice(o) ==
  CASE o.type = "MARKET" -> o.estimate
    [] o.type = "STOP_MARKET" -> o.stop
    [] o.type \in {"LIMIT", "STOP_LIMIT"} -> o.limit

\* No price that goes before it in the check is below the price of the fill.
NoLowerPrice(o) == \A p \in {o.estimate, o.limit} \ {0} : p >= FillPrice(o)

\* The order with its terms; `checked` says that its notional was checked with
\* a price at least as high as the one it can fill at.
Accepted(o) == [terms |-> o, checked |-> NoLowerPrice(o)]

NewTerms(o, r) ==
  [o EXCEPT !.quantity = Given(r.quantity, @),
            !.limit = Given(r.limit, @),
            !.stop = Given(r.stop, @),
            !.type = IF r.market THEN "MARKET" ELSE @]

\* A replacement's notional is checked if it gives a quantity and the price; one
\* that changes neither a quantity, a price nor the type leaves it as it was.
Replaced(order, r) ==
  LET new == NewTerms(order.terms, r)
  IN [terms |-> new,
      checked |-> IF new = order.terms
                  THEN order.checked
                  ELSE ~r.market /\ r.quantity > 0 /\ ChangePrice(r) >= FillPrice(new)]

-----------------------------------------------------------------------------
Init ==
  /\ config \in Configs
  /\ kill \in BOOLEAN
  /\ live = [i \in Ids |-> NoOrder]
  /\ calls = [c \in Callers |-> NoCall]

Calls(c, call) == calls' = [calls EXCEPT ![c] = call] /\ UNCHANGED <<config, kill, live>>
Returns(c) == calls' = [calls EXCEPT ![c] = NoCall] /\ UNCHANGED <<config, kill>>

\* place_order, place_order_group; a call that is refused changes nothing.
Place(c) ==
  /\ calls[c] = NoCall /\ config.trade
  /\ \E s \in Submissions :
       /\ ValidSubmission(s)
       /\ s.kind \in config.supports /\ (s.kind \in Groups => "NORMAL" \in config.supports)
       /\ PermittedSubmission(s)
       /\ Calls(c, [op |-> "place", legs |-> s.legs])

\* The replacements callers may ask for.
Requests == Changes \cup {Coerced(o) : o \in {x \in OrderChanges : ValidOrder(x)}}

\* replace_order and cancel_order read the order first, for which they need
\* ReadAccount beside Trade.
MayLookUp == config.trade /\ config.read

\* Mutant: a replacement is let through like a cancellation.
ReplaceDespiteKill(c) ==
  /\ calls[c] = NoCall /\ MayLookUp /\ "replace" \in config.supports
  /\ \E i \in Ids, account \in config.accounts, r \in Requests :
       Calls(c, [op |-> "find", id |-> i, account |-> account, change |-> r])
\* replace_order up to its preflight
Replace(c) ==
  /\ calls[c] = NoCall /\ MayLookUp /\ "replace" \in config.supports
  /\ \E i \in Ids, account \in {a \in config.accounts : MaySubmit(a)}, r \in Requests :
       Calls(c, [op |-> "find", id |-> i, account |-> account, change |-> r])

\* cancel_order up to its preflight, the kill switch notwithstanding
Cancel(c) ==
  /\ calls[c] = NoCall /\ MayLookUp
  /\ \E i \in Ids, account \in config.accounts :
       Calls(c, [op |-> "check", id |-> i, account |-> account])

\* The account a row of an order may name: its own or, of some orders, none.  An
\* order that has ended may be listed too, whosever it was.
RowAccounts(i) == (IF i \in Nameless THEN {NoAccount} ELSE {}) \cup
                  (IF live[i] = NoOrder THEN config.accounts ELSE {live[i].terms.account})
\* _assert_order_belongs_to_account
Belongs(call) == \E account \in RowAccounts(call.id) : account \in {call.account, NoAccount}

\* The preflight accepts a row: the replacement is validated and sent, or raises.
\* Mutant: the replacement is not validated.
FoundUnchecked(c) ==
  /\ calls[c] # NoCall /\ calls[c].op = "find"
  /\ LET call == calls[c]
     IN /\ Belongs(call)
        /\ Calls(c, [op |-> "replace", id |-> call.id, change |-> call.change])
Found(c) ==
  /\ calls[c] # NoCall /\ calls[c].op = "find"
  /\ LET call == calls[c]
     IN /\ Belongs(call) /\ PermittedChange(call.change)
        /\ Calls(c, [op |-> "replace", id |-> call.id, change |-> call.change])

\* It accepts a row: the cancellation is sent.
Checked(c) ==
  /\ calls[c] # NoCall /\ calls[c].op = "check"
  /\ Belongs(calls[c])
  /\ Calls(c, [op |-> "cancel", id |-> calls[c].id])

-----------------------------------------------------------------------------
\* An ID no order has and no call refers to.
Free(i) == live[i] = NoOrder /\ \A c \in Callers : calls[c] = NoCall \/ calls[c].op = "place"
                                                    \/ calls[c].id # i

\* The write of a call reaches the broker and is applied.  Some legs may fill
\* at once, each of the others gets an ID.
PlaceApplied(c) ==
  /\ calls[c] # NoCall /\ calls[c].op = "place"
  /\ LET legs == calls[c].legs
     IN \E open \in SUBSET DOMAIN legs : \E id \in [open -> {i \in Ids : Free(i)}] :
          /\ \A k, l \in open : id[k] = id[l] => k = l
          /\ live' = [i \in Ids |-> IF \E k \in open : id[k] = i
                                    THEN Accepted(legs[CHOOSE k \in open : id[k] = i])
                                    ELSE live[i]]
  /\ Returns(c)

ReplaceApplied(c) ==
  /\ calls[c] # NoCall /\ calls[c].op = "replace"
  /\ LET i == calls[c].id
     IN /\ live[i] # NoOrder
        /\ live' = [live EXCEPT ![i] = Replaced(@, calls[c].change)]
  /\ Returns(c)

CancelApplied(c) ==
  /\ calls[c] # NoCall /\ calls[c].op = "cancel"
  /\ live' = [live EXCEPT ![calls[c].id] = NoOrder]
  /\ Returns(c)

\* The preflight fails or lists no such row, a replacement is not permitted, or
\* the write is refused or lost.
NotApplied(c) ==
  /\ calls[c] # NoCall
  /\ Returns(c) /\ UNCHANGED live

\* An order fills or expires.
Fill(i) ==
  /\ live[i] # NoOrder
  /\ live' = [live EXCEPT ![i] = NoOrder]
  /\ UNCHANGED <<config, kill, calls>>

SwitchKill ==
  /\ kill' = ~kill
  /\ UNCHANGED <<config, live, calls>>

Answer(c) == Found(c) \/ Checked(c) \/ PlaceApplied(c) \/ ReplaceApplied(c) \/ CancelApplied(c) \/ NotApplied(c)

Next ==
  \/ \E c \in Callers : Place(c) \/ Replace(c) \/ Cancel(c) \/ Answer(c)
  \/ \E i \in Ids : Fill(i)
  \/ SwitchKill

\* Every request is answered or given up (HTTPRequest.timeout_seconds).
Spec == Init /\ [][Next]_vars /\ \A c \in Callers : WF_vars(Answer(c))

-----------------------------------------------------------------------------
IsCall(call) ==
  \/ /\ call.op = "place" /\ call.legs \in {s.legs : s \in Submissions}
     /\ \A k \in DOMAIN call.legs : call.legs[k].quantity > 0
  \/ /\ call.op \in {"find", "replace"} /\ call.id \in Ids /\ IsChange(call.change)
  \/ /\ call.op \in {"check", "cancel"} /\ call.id \in Ids

TypeOK ==
  /\ config \in Configs
  /\ kill \in BOOLEAN
  /\ \A i \in Ids : live[i] # NoOrder =>
       /\ IsOrder(live[i].terms) /\ live[i].terms.quantity > 0
       /\ live[i].checked \in BOOLEAN
  /\ \A c \in Callers : calls[c] # NoCall => IsCall(calls[c])

Live == {i \in Ids : live[i] # NoOrder}

\* Whatever is placed, as a child or a member of a group, and whatever it is
\* replaced with, by an OrderRequest too: an order at the broker is one that the
\* configuration permits ("enforced before writes", README.md).
LivePermitted ==
  \A i \in Live : LET o == live[i].terms IN
    /\ config.trade /\ o.account \in config.accounts /\ o.class # "UNKNOWN"
    /\ o.type = "MARKET" => config.market
    /\ o.class = "OPTION" => config.options
    /\ o.class = "FUTURE" => config.futures
    /\ o.hours = "extended" => config.extended

\* The notional of an order stays within max_order_notional through every
\* sequence of replacements, as long as each request that changes it carries a
\* quantity and a price no better than the one the order can fill at.
NotionalBounded ==
  \A i \in Live : live[i].checked =>
    live[i].terms.quantity * FillPrice(live[i].terms) <= config.max

\* A kill switch that stays on stops everything but cancellations, once the
\* calls that were under way have ended.
KillSwitchStops ==
  []<>~kill \/ <>[][\A i \in Ids : live'[i] \in {live[i], NoOrder}]_live
=============================================================================
