-------------------------- MODULE OrderTermsProofs --------------------------
(* Theorems about OrderTerms, for every set of callers, of configurations,  *)
(* of submissions and of replacements.                                       *)
EXTENDS OrderTerms, OrderBuilders, TLAPS

\* What place_order and place_order_group have checked of an order.
PermittedTerms(o) == o.account \in config.accounts /\ ValidOrder(o) /\ PermittedOrder(o)

\* What a call that is under way has checked: it stays true while the call waits.
CallsPermitted ==
  \A c \in Callers : calls[c] # NoCall =>
    /\ calls[c].op = "place" =>
         config.trade /\ \A k \in DOMAIN calls[c].legs : PermittedTerms(calls[c].legs[k])
    /\ calls[c].op = "replace" => PermittedChange(calls[c].change)

\* LivePermitted, with what each order and each pending call takes from its own
\* check.
Inv ==
  /\ TypeOK
  /\ DOMAIN live = Ids /\ DOMAIN calls = Callers
  /\ CallsPermitted
  /\ LivePermitted
  /\ NotionalBounded

(* A lower price has a lower notional. *)
LEMMA Monotone ==
  ASSUME NEW q \in Nat, NEW p \in Nat, NEW e \in Nat, NEW max \in Nat, q * p <= max, e <= p
  PROVE  q * e <= max
<1>1. q * e <= q * p
  BY SMT
<1>2. q * e \in Nat /\ q * p \in Nat
  BY SMT
<1>3. QED
  BY <1>1, <1>2, SMT

LEMMA ConfigFacts ==
  ASSUME TypeOK
  PROVE  /\ config.max \in Nat
         /\ config.market \/ config.options \/ config.futures => config.trade
BY ConfigsAssumption DEF TypeOK, IsConfig

(* The price the check looks at is no better than the fill's, if none that    *)
(* goes before it is.                                                         *)
LEMMA AcceptedIsBounded ==
  ASSUME TypeOK, NEW o, IsOrder(o), PermittedTerms(o), NoLowerPrice(o)
  PROVE  o.quantity * FillPrice(o) <= config.max
<1> DEFINE max == config.max
           price == NotionalPrice(o)
           fill == FillPrice(o)
<1>1. max \in Nat
  BY ConfigFacts
<1>2. /\ o.quantity \in Nat /\ o.limit \in Nat /\ o.stop \in Nat /\ o.estimate \in Nat
      /\ o.type \in Types
  BY DEF IsOrder
<1>3. price \in Nat /\ fill \in Nat
  BY <1>2 DEF NotionalPrice, Given, FillPrice, Types
<1>4. fill <= price
  <2>1. \A p \in {o.estimate, o.limit} : p > 0 => p >= fill
    BY <1>2 DEF NoLowerPrice
  <2>2. o.type = "MARKET" => o.estimate > 0
    BY DEF PermittedTerms, PermittedOrder
  <2>3. o.type \in {"LIMIT", "STOP_LIMIT"} => o.limit > 0
    BY DEF PermittedTerms, ValidOrder
  <2>4. o.estimate = 0 /\ o.limit = 0 => fill = o.stop
    BY <1>2, <2>2, <2>3 DEF FillPrice, Types
  <2>5. QED
    BY <1>2, <1>3, <2>1, <2>4 DEF NotionalPrice, Given
<1>5. o.quantity * price <= max
  BY DEF PermittedTerms, PermittedOrder
<1> HIDE DEF max, price, fill
<1>6. o.quantity * fill <= max
  BY <1>1, <1>2, <1>3, <1>4, <1>5, Monotone
<1>7. QED
  BY <1>6 DEF max, fill

(* An order that is accepted is as its check wants it. *)
LEMMA AcceptedFacts ==
  ASSUME TypeOK, NEW o, IsOrder(o), PermittedTerms(o)
  PROVE  /\ IsOrder(Accepted(o).terms) /\ Accepted(o).terms.quantity > 0
         /\ Accepted(o).checked \in BOOLEAN
         /\ Accepted(o).checked =>
              Accepted(o).terms.quantity * FillPrice(Accepted(o).terms) <= config.max
<1>1. Accepted(o).terms = o /\ Accepted(o).checked = NoLowerPrice(o)
  BY DEF Accepted
<1>2. NoLowerPrice(o) \in BOOLEAN
  BY Zenon DEF NoLowerPrice
<1>3. o.quantity > 0
  BY DEF PermittedTerms, ValidOrder
<1>4. QED
  BY <1>1, <1>2, <1>3, AcceptedIsBounded

(* Replacing keeps an order's account, class and duration, and its type unless *)
(* the replacement is one to a market order.                                   *)
LEMMA NewTermsFacts ==
  ASSUME NEW o, IsOrder(o), o.quantity > 0, NEW r, IsChange(r)
  PROVE  LET new == NewTerms(o, r)
         IN /\ IsOrder(new) /\ new.quantity > 0
            /\ new.account = o.account /\ new.class = o.class /\ new.hours = o.hours
            /\ new.type = IF r.market THEN "MARKET" ELSE o.type
            /\ r.quantity > 0 => new.quantity = r.quantity
<1> DEFINE new == NewTerms(o, r)
<1>1. /\ DOMAIN new = DOMAIN o
      /\ new.account = o.account /\ new.class = o.class /\ new.hours = o.hours
      /\ new.estimate = o.estimate
      /\ new.quantity = Given(r.quantity, o.quantity)
      /\ new.limit = Given(r.limit, o.limit)
      /\ new.stop = Given(r.stop, o.stop)
      /\ new.type = IF r.market THEN "MARKET" ELSE o.type
  BY DEF NewTerms, IsOrder
<1> HIDE DEF new
<1>2. QED
  BY <1>1 DEF new, IsOrder, IsChange, Given, Types

(* A replacement that is permitted leaves the notional within the limit. *)
LEMMA ReplacedFacts ==
  ASSUME TypeOK, NEW order, IsOrder(order.terms), order.terms.quantity > 0,
         order.checked \in BOOLEAN,
         order.checked => order.terms.quantity * FillPrice(order.terms) <= config.max,
         NEW r, IsChange(r), PermittedChange(r)
  PROVE  LET new == Replaced(order, r)
         IN /\ new.terms = NewTerms(order.terms, r)
            /\ new.checked \in BOOLEAN
            /\ new.checked => new.terms.quantity * FillPrice(new.terms) <= config.max
<1> DEFINE terms == NewTerms(order.terms, r)
           new == Replaced(order, r)
           fill == FillPrice(terms)
           price == ChangePrice(r)
           max == config.max
<1>1. /\ new.terms = terms
      /\ new.checked = IF terms = order.terms THEN order.checked
                       ELSE ~r.market /\ r.quantity > 0 /\ price >= fill
  BY DEF Replaced
<1>2. new.checked \in BOOLEAN
  BY <1>1
<1>3. IsOrder(terms) /\ (r.quantity > 0 => terms.quantity = r.quantity)
  BY NewTermsFacts
<1>4. max \in Nat
  BY ConfigFacts
<1>5. r.quantity \in Nat /\ price \in Nat
  BY DEF IsChange, ChangePrice, Given
<1>6. fill \in Nat
  BY <1>3 DEF IsOrder, FillPrice, Types
<1>7. r.quantity * price <= max
  BY DEF PermittedChange
<1>8. ASSUME new.checked PROVE new.terms.quantity * FillPrice(new.terms) <= config.max
  <2>1. CASE terms = order.terms
    BY <1>1, <1>8, <2>1
  <2>2. CASE terms # order.terms
    <3> HIDE DEF new, terms, fill, price, max
    <3>1. r.quantity > 0 /\ fill <= price
      BY <1>1, <1>5, <1>6, <1>8, <2>2
    <3>2. r.quantity * fill <= max
      BY <3>1, <1>4, <1>5, <1>6, <1>7, Monotone
    <3>3. QED
      BY <3>1, <3>2, <1>1, <1>3 DEF fill, max
  <2>3. QED
    BY <2>1, <2>2
<1>9. QED
  BY <1>1, <1>2, <1>8

-----------------------------------------------------------------------------
\* What Inv says of one order and of one call.
OrderFine(i) == live[i] # NoOrder =>
  /\ IsOrder(live[i].terms) /\ live[i].terms.quantity > 0 /\ live[i].checked \in BOOLEAN
  /\ config.trade /\ live[i].terms.account \in config.accounts
  /\ live[i].terms.class # "UNKNOWN"
  /\ live[i].terms.type = "MARKET" => config.market
  /\ live[i].terms.class = "OPTION" => config.options
  /\ live[i].terms.class = "FUTURE" => config.futures
  /\ live[i].terms.hours = "extended" => config.extended
  /\ live[i].checked => live[i].terms.quantity * FillPrice(live[i].terms) <= config.max

CallFine(c) == calls[c] # NoCall =>
  /\ IsCall(calls[c])
  /\ calls[c].op = "place" =>
       config.trade /\ \A k \in DOMAIN calls[c].legs : PermittedTerms(calls[c].legs[k])
  /\ calls[c].op = "replace" => PermittedChange(calls[c].change)

Parts ==
  /\ config \in Configs /\ kill \in BOOLEAN
  /\ DOMAIN live = Ids /\ DOMAIN calls = Callers
  /\ \A i \in Ids : OrderFine(i)
  /\ \A c \in Callers : CallFine(c)

LEMMA InvByParts == Inv <=> Parts
BY DEF Parts, Inv, TypeOK, CallsPermitted, LivePermitted, NotionalBounded, Live, OrderFine, CallFine

(* A step that leaves the configuration alone, changes the orders to fine ones *)
(* and the calls to fine ones keeps the invariant.                             *)
LEMMA InvKept ==
  ASSUME Inv, UNCHANGED config, kill' \in BOOLEAN,
         DOMAIN live' = Ids, DOMAIN calls' = Callers,
         \A i \in Ids : live'[i] # live[i] => OrderFine(i)',
         \A c \in Callers : calls'[c] # calls[c] => CallFine(c)'
  PROVE  Inv'
<1>0. Parts
  BY InvByParts
<1>1. \A i \in Ids : live'[i] = live[i] => OrderFine(i)'
  BY <1>0 DEF Parts, OrderFine
<1>2. \A c \in Callers : calls'[c] = calls[c] => CallFine(c)'
  BY <1>0 DEF Parts, CallFine, IsCall, PermittedTerms, PermittedOrder, PermittedChange
<1>3. config' \in Configs
  BY <1>0 DEF Parts
<1>4. (\A i \in Ids : OrderFine(i)') /\ (\A c \in Callers : CallFine(c)')
  BY <1>1, <1>2
<1>5. Parts'
  BY <1>3, <1>4 DEF Parts
<1>6. QED
  BY <1>5, InvByParts, PTL

(* A leg of a submission that has passed its checks becomes a fine order. *)
LEMMA LegFine ==
  ASSUME Inv, NEW c \in Callers, calls[c] # NoCall, calls[c].op = "place",
         NEW k \in DOMAIN calls[c].legs, NEW i \in Ids,
         UNCHANGED config, live'[i] = Accepted(calls[c].legs[k])
  PROVE  OrderFine(i)'
<1> DEFINE o == calls[c].legs[k]
           new == Accepted(o)
<1>1. IsOrder(o)
  BY OrdersAssumption DEF Inv, TypeOK, IsCall
<1>2. config.trade /\ PermittedTerms(o)
  BY DEF Inv, CallsPermitted
<1>3. new.terms = o
  BY DEF Accepted
<1>4. /\ IsOrder(new.terms) /\ new.terms.quantity > 0 /\ new.checked \in BOOLEAN
      /\ new.checked => new.terms.quantity * FillPrice(new.terms) <= config.max
  BY <1>1, <1>2, AcceptedFacts DEF Inv
<1>5. /\ o.account \in config.accounts /\ o.class # "UNKNOWN"
      /\ o.type = "MARKET" => config.market
      /\ o.class = "OPTION" => config.options
      /\ o.class = "FUTURE" => config.futures
      /\ o.hours = "extended" => config.extended
  BY <1>2 DEF PermittedTerms, PermittedOrder
<1> HIDE DEF new
<1>6. QED
  BY <1>2, <1>3, <1>4, <1>5 DEF OrderFine, new, IsOrder, FillPrice

(* So does an order that is replaced. *)
LEMMA ReplacementFine ==
  ASSUME Inv, NEW i \in Ids, live[i] # NoOrder, NEW r, IsChange(r), PermittedChange(r),
         UNCHANGED config, live'[i] = Replaced(live[i], r)
  PROVE  OrderFine(i)'
<1> DEFINE old == live[i]
           new == Replaced(old, r)
<1>1. OrderFine(i)
  BY InvByParts DEF Parts
<1>2. /\ IsOrder(old.terms) /\ old.terms.quantity > 0 /\ old.checked \in BOOLEAN
      /\ old.checked => old.terms.quantity * FillPrice(old.terms) <= config.max
  BY <1>1 DEF OrderFine
<1>3. /\ new.terms = NewTerms(old.terms, r)
      /\ new.checked \in BOOLEAN
      /\ new.checked => new.terms.quantity * FillPrice(new.terms) <= config.max
  BY <1>2, ReplacedFacts DEF Inv
<1> HIDE DEF new
<1>4. /\ IsOrder(new.terms) /\ new.terms.quantity > 0
      /\ new.terms.account = old.terms.account /\ new.terms.class = old.terms.class
      /\ new.terms.hours = old.terms.hours
      /\ new.terms.type = IF r.market THEN "MARKET" ELSE old.terms.type
  BY <1>2, <1>3, NewTermsFacts
<1>5. r.market => config.market
  BY DEF PermittedChange
<1>6. live'[i] = new
  BY DEF new
<1>7. QED
  BY <1>1, <1>3, <1>4, <1>5, <1>6 DEF OrderFine, FillPrice

LEMMA InvInit == Init => Inv
BY ConfigsAssumption
   DEF Init, Inv, TypeOK, CallsPermitted, LivePermitted, NotionalBounded, Live

LEMMA InvStep == Inv /\ [Next]_vars => Inv'
<1> SUFFICES ASSUME Inv, [Next]_vars PROVE Inv'
  OBVIOUS
<1>0. /\ kill \in BOOLEAN /\ DOMAIN live = Ids /\ DOMAIN calls = Callers
  BY InvByParts DEF Parts
<1> DEFINE Kept == UNCHANGED <<config, kill, live>>
<1>1. ASSUME NEW c \in Callers, Place(c) PROVE Inv'
  <2>1. PICK s \in Submissions :
          /\ ValidSubmission(s) /\ PermittedSubmission(s) /\ config.trade
          /\ Calls(c, [op |-> "place", legs |-> s.legs])
    BY <1>1 DEF Place
  <2>2. \A k \in DOMAIN s.legs : PermittedTerms(s.legs[k]) /\ s.legs[k].quantity > 0
    BY <2>1 DEF PermittedTerms, ValidSubmission, PermittedSubmission, MaySubmit, ValidOrder
  <2>3. /\ Kept /\ DOMAIN calls' = Callers
        /\ calls'[c] = [op |-> "place", legs |-> s.legs]
        /\ \A d \in Callers \ {c} : calls'[d] = calls[d]
    BY <1>0, <2>1 DEF Calls
  <2>4. CallFine(c)'
    BY <2>1, <2>2, <2>3 DEF CallFine, IsCall, PermittedTerms, PermittedOrder
  <2>5. QED
    BY <1>0, <2>3, <2>4, InvKept
<1>2. ASSUME NEW c \in Callers, Replace(c) PROVE Inv'
  <2>1. PICK i \in Ids, account \in config.accounts, r \in Requests :
          Calls(c, [op |-> "find", id |-> i, account |-> account, change |-> r])
    BY <1>2 DEF Replace
  <2>2. IsChange(r)
    <3>1. CASE r \in Changes
      BY <3>1, OrdersAssumption
    <3>2. ASSUME NEW o \in OrderChanges, r = Coerced(o) PROVE IsChange(r)
      <4>1. IsOrder(o)
        BY OrdersAssumption
      <4>2. (o.type = "MARKET") \in BOOLEAN
        BY Zenon
      <4>3. QED
        BY <3>2, <4>1, <4>2 DEF Coerced, IsChange, IsOrder
    <3>3. QED
      BY <3>1, <3>2 DEF Requests
  <2>3. /\ Kept /\ DOMAIN calls' = Callers
        /\ calls'[c] = [op |-> "find", id |-> i, account |-> account, change |-> r]
        /\ \A d \in Callers \ {c} : calls'[d] = calls[d]
    BY <1>0, <2>1 DEF Calls
  <2>4. CallFine(c)'
    BY <2>2, <2>3 DEF CallFine, IsCall
  <2>5. QED
    BY <1>0, <2>3, <2>4, InvKept
<1>3. ASSUME NEW c \in Callers, Cancel(c) PROVE Inv'
  <2>1. PICK i \in Ids, account \in config.accounts :
          Calls(c, [op |-> "check", id |-> i, account |-> account])
    BY <1>3 DEF Cancel
  <2>2. /\ Kept /\ DOMAIN calls' = Callers
        /\ calls'[c] = [op |-> "check", id |-> i, account |-> account]
        /\ \A d \in Callers \ {c} : calls'[d] = calls[d]
    BY <1>0, <2>1 DEF Calls
  <2>3. CallFine(c)'
    BY <2>2 DEF CallFine, IsCall
  <2>4. QED
    BY <1>0, <2>2, <2>3, InvKept
<1>4. ASSUME NEW c \in Callers, Found(c) PROVE Inv'
  <2> DEFINE call == calls[c]
             new == [op |-> "replace", id |-> call.id, change |-> call.change]
  <2>1. /\ Kept /\ DOMAIN calls' = Callers
        /\ calls'[c] = new /\ PermittedChange(call.change)
        /\ \A d \in Callers \ {c} : calls'[d] = calls[d]
    BY <1>0, <1>4 DEF Found, Calls
  <2>2. call.id \in Ids /\ IsChange(call.change)
    BY <1>4 DEF Found, Inv, TypeOK, IsCall
  <2>3. CallFine(c)'
    BY <2>1, <2>2 DEF CallFine, IsCall, PermittedChange
  <2>4. QED
    BY <1>0, <2>1, <2>3, InvKept
<1>4a. ASSUME NEW c \in Callers, Checked(c) PROVE Inv'
  <2> DEFINE new == [op |-> "cancel", id |-> calls[c].id]
  <2>1. /\ Kept /\ DOMAIN calls' = Callers /\ calls'[c] = new
        /\ \A d \in Callers \ {c} : calls'[d] = calls[d]
    BY <1>0, <1>4a DEF Checked, Calls
  <2>2. calls[c].id \in Ids
    BY <1>4a DEF Checked, Inv, TypeOK, IsCall
  <2>3. CallFine(c)'
    BY <2>1, <2>2 DEF CallFine, IsCall
  <2>4. QED
    BY <1>0, <2>1, <2>3, InvKept
<1>5. ASSUME NEW c \in Callers, UNCHANGED <<config, kill>>, DOMAIN live' = Ids,
             calls' = [calls EXCEPT ![c] = NoCall],
             \A i \in Ids : live'[i] # live[i] => OrderFine(i)'
      PROVE  Inv'
  <2>1. /\ DOMAIN calls' = Callers /\ calls'[c] = NoCall
        /\ \A d \in Callers \ {c} : calls'[d] = calls[d]
    BY <1>0, <1>5
  <2>2. CallFine(c)'
    BY <2>1 DEF CallFine
  <2>3. QED
    BY <1>0, <1>5, <2>1, <2>2, InvKept
<1>6. ASSUME NEW c \in Callers, PlaceApplied(c) PROVE Inv'
  <2> DEFINE legs == calls[c].legs
  <2>1. PICK open \in SUBSET DOMAIN legs : \E id \in [open -> {i \in Ids : Free(i)}] :
          live' = [i \in Ids |-> IF \E k \in open : id[k] = i
                                 THEN Accepted(legs[CHOOSE k \in open : id[k] = i])
                                 ELSE live[i]]
    BY <1>6 DEF PlaceApplied
  <2>2. UNCHANGED config /\ calls[c] # NoCall /\ calls[c].op = "place"
    BY <1>6 DEF PlaceApplied, Returns
  <2>3. ASSUME NEW i \in Ids, live'[i] # live[i] PROVE OrderFine(i)'
    <3>1. PICK k \in DOMAIN legs : live'[i] = Accepted(legs[k])
      BY <2>1, <2>3
    <3>2. QED
      BY <2>2, <3>1, LegFine
  <2>4. DOMAIN live' = Ids
    BY <2>1
  <2>5. UNCHANGED <<config, kill>> /\ calls' = [calls EXCEPT ![c] = NoCall]
    BY <1>6 DEF PlaceApplied, Returns
  <2>6. QED
    BY <1>5, <2>3, <2>4, <2>5
<1>7. ASSUME NEW c \in Callers, ReplaceApplied(c) PROVE Inv'
  <2> DEFINE r == calls[c].change
  <2>1. PICK i \in Ids : /\ live[i] # NoOrder /\ UNCHANGED <<config, kill>>
                         /\ live' = [live EXCEPT ![i] = Replaced(live[i], r)]
                         /\ calls' = [calls EXCEPT ![c] = NoCall]
                         /\ IsChange(r) /\ PermittedChange(r)
    BY <1>7 DEF ReplaceApplied, Returns, Inv, TypeOK, IsCall, CallsPermitted
  <2>2. DOMAIN live' = Ids /\ live'[i] = Replaced(live[i], r)
    BY <1>0, <2>1
  <2>3. OrderFine(i)'
    BY <2>1, <2>2, ReplacementFine
  <2>4. \A j \in Ids : live'[j] # live[j] => j = i
    BY <1>0, <2>1
  <2>5. QED
    BY <1>5, <2>1, <2>2, <2>3, <2>4
<1>8. ASSUME NEW c \in Callers, CancelApplied(c) PROVE Inv'
  <2>1. \A i \in Ids : live'[i] # live[i] => OrderFine(i)'
    BY <1>0, <1>8 DEF CancelApplied, OrderFine
  <2>2. QED
    BY <1>0, <1>5, <1>8, <2>1 DEF CancelApplied, Returns
<1>9. ASSUME NEW c \in Callers, NotApplied(c) PROVE Inv'
  BY <1>0, <1>5, <1>9 DEF NotApplied, Returns
<1>10. ASSUME NEW i \in Ids, Fill(i) PROVE Inv'
  <2>1. \A j \in Ids : live'[j] # live[j] => OrderFine(j)'
    BY <1>0, <1>10 DEF Fill, OrderFine
  <2>2. QED
    BY <1>0, <1>10, <2>1, InvKept DEF Fill
<1>11. CASE SwitchKill
  BY <1>0, <1>11, InvKept DEF SwitchKill
<1>12. CASE UNCHANGED vars
  BY <1>0, <1>12, InvKept DEF vars
<1>13. QED
  BY <1>1, <1>2, <1>3, <1>4, <1>4a, <1>6, <1>7, <1>8, <1>9, <1>10, <1>11, <1>12
     DEF Next, Answer

LEMMA InvAlways == Spec => []Inv
BY InvInit, InvStep, PTL DEF Spec

(* The variables stay within their types: no live order has a quantity of 0. *)
THEOREM OrderTypeCorrect == Spec => []TypeOK
BY InvAlways, PTL DEF Inv

(* Every order at the broker is one the configuration permits, whatever the  *)
(* families, groups and replacements that callers try.                       *)
THEOREM OnlyPermittedOrders == Spec => []LivePermitted
BY InvAlways, PTL DEF Inv

(* No sequence of replacements takes the notional of an order past the limit, *)
(* if each of them is one that the check can judge.                           *)
THEOREM NotionalStaysBounded == Spec => []NotionalBounded
BY InvAlways, PTL DEF Inv
-----------------------------------------------------------------------------
(* The kill switch.  A call that may yet add or change an order has at most   *)
(* two steps to go: its preflight and its write.                             *)
WritesLeft(c) == IF calls[c] = NoCall THEN 0
                 ELSE IF calls[c].op = "find" THEN 2
                 ELSE IF calls[c].op \in {"place", "replace"} THEN 1 ELSE 0

\* While the switch is on every answer takes from what is left of such a call,
\* no call gets more, and without such a call orders only go.
Drains ==
  /\ kill => \A c \in Callers : /\ WritesLeft(c)' # WritesLeft(c) => WritesLeft(c)' < WritesLeft(c)
                                /\ Answer(c) /\ WritesLeft(c) > 0 => WritesLeft(c)' < WritesLeft(c)
  /\ (\A c \in Callers : WritesLeft(c) = 0) => \A i \in Ids : live'[i] \in {live[i], NoOrder}

\* What a switched-on client may still begin.
LEMMA NothingStarts ==
  ASSUME Inv, kill, NEW c \in Callers, Place(c) \/ Replace(c) \/ Cancel(c)
  PROVE  WritesLeft(c)' = 0 /\ WritesLeft(c) = 0
<1>1. CASE Place(c)
  <2>1. PICK s \in Submissions : PermittedSubmission(s)
    BY <1>1 DEF Place
  <2>2. s.legs \in Seq({s.legs[i] : i \in DOMAIN s.legs}) /\ s.members \in 1..Len(s.legs)
    BY OrdersAssumption
  <2>3. 1 \in DOMAIN s.legs
    BY <2>2
  <2>4. QED
    BY <2>1, <2>3 DEF PermittedSubmission, MaySubmit
<1>2. CASE Replace(c)
  BY <1>2 DEF Replace, MaySubmit
<1>3. CASE Cancel(c)
  BY <1>3 DEF Cancel, Calls, WritesLeft, Inv
<1>4. QED
  BY <1>1, <1>2, <1>3

\* A call that is answered has less to do.
LEMMA AnswerDrains ==
  ASSUME Inv, NEW c \in Callers, Answer(c)
  PROVE  /\ WritesLeft(c) > 0 => WritesLeft(c)' < WritesLeft(c)
         /\ WritesLeft(c) = 0 => /\ WritesLeft(c)' = 0
                                 /\ \A i \in Ids : live'[i] \in {live[i], NoOrder}
<1>0. calls[c] # NoCall /\ IsCall(calls[c]) /\ DOMAIN live = Ids /\ DOMAIN calls = Callers
  BY DEF Inv, TypeOK, Answer, Found, Checked, PlaceApplied, ReplaceApplied, CancelApplied, NotApplied
<1>1. CASE Found(c) \/ Checked(c)
  BY <1>0, <1>1 DEF Found, Checked, Calls, WritesLeft
<1>2. CASE PlaceApplied(c) \/ ReplaceApplied(c) \/ CancelApplied(c) \/ NotApplied(c)
  <2>1. calls' = [calls EXCEPT ![c] = NoCall]
    BY <1>2 DEF PlaceApplied, ReplaceApplied, CancelApplied, NotApplied, Returns
  <2>2. WritesLeft(c)' = 0
    BY <1>0, <2>1 DEF WritesLeft
  <2>3. CancelApplied(c) \/ NotApplied(c) => \A i \in Ids : live'[i] \in {live[i], NoOrder}
    BY <1>0 DEF CancelApplied, NotApplied
  <2>4. PlaceApplied(c) \/ ReplaceApplied(c) => WritesLeft(c) = 1
    BY <1>0 DEF WritesLeft, PlaceApplied, ReplaceApplied
  <2>5. QED
    BY <1>2, <2>2, <2>3, <2>4
<1>3. QED
  BY <1>1, <1>2 DEF Answer

(* A kill switch that is on stops everything but cancellations: calls that    *)
(* were under way have two answers to go at most, none is added to them, and  *)
(* after the last one orders only leave the broker's book.  What is left to   *)
(* fairness in KillSwitchStops is that those answers come.                   *)
THEOREM KillSwitchDrains == Spec => [][Drains]_vars
<1>1. Inv /\ [Next]_vars => [Drains]_vars
  <2> SUFFICES ASSUME Inv, Next
               PROVE  Drains
    OBVIOUS
  <2>1. DOMAIN calls = Callers /\ DOMAIN live = Ids
    BY DEF Inv
  <2> DEFINE Fewer(c) == WritesLeft(c)' # WritesLeft(c) => WritesLeft(c)' < WritesLeft(c)
             Lost == \A i \in Ids : live'[i] \in {live[i], NoOrder}
  <2>2. ASSUME NEW d \in Callers, calls'[d] = calls[d]
        PROVE  Fewer(d)
    BY <2>2 DEF WritesLeft
  <2>3. ASSUME NEW c \in Callers, Place(c) \/ Replace(c) \/ Cancel(c)
        PROVE  (kill => \A d \in Callers : Fewer(d)) /\ Lost
    <3>1. UNCHANGED live /\ \A d \in Callers \ {c} : calls'[d] = calls[d]
      BY <2>1, <2>3 DEF Place, Replace, Cancel, Calls
    <3>2. kill => Fewer(c)
      BY <2>3, NothingStarts
    <3>3. QED
      BY <2>2, <3>1, <3>2
  <2>4. ASSUME NEW c \in Callers, Answer(c)
        PROVE  (\A d \in Callers : Fewer(d)) /\ (WritesLeft(c) = 0 => Lost)
    <3>1. \A d \in Callers \ {c} : calls'[d] = calls[d]
      BY <2>1, <2>4 DEF Answer, Found, Checked, PlaceApplied, ReplaceApplied, CancelApplied, NotApplied, Calls, Returns
    <3>2. WritesLeft(c) = 0 \/ WritesLeft(c) > 0
      BY DEF WritesLeft
    <3>3. Fewer(c) /\ (WritesLeft(c) = 0 => Lost)
      BY <2>4, <3>2, AnswerDrains
    <3>4. QED
      BY <2>2, <3>1, <3>3
  <2>5. ASSUME (\E i \in Ids : Fill(i)) \/ SwitchKill
        PROVE  (\A d \in Callers : Fewer(d)) /\ Lost
    <3>1. calls' = calls /\ Lost
      BY <2>1, <2>5 DEF Fill, SwitchKill
    <3>2. QED
      BY <2>2, <3>1
  <2>6. \A c \in Callers : Answer(c) /\ WritesLeft(c) > 0 => WritesLeft(c)' < WritesLeft(c)
    BY AnswerDrains
  <2>7. (kill => \A c \in Callers : Fewer(c)) /\ ((\A c \in Callers : WritesLeft(c) = 0) => Lost)
    BY <2>3, <2>4, <2>5 DEF Next
  <2>8. QED
    BY <2>6, <2>7 DEF Drains
<1>2. QED
  BY <1>1, InvAlways, PTL DEF Spec
-----------------------------------------------------------------------------
(* The builders.                                                             *)

\* What the legs of an order share, with a positive quantity.
AreTerms(terms) ==
  /\ DOMAIN terms = {"account", "class", "hours", "quantity"}
  /\ terms.class \in Classes /\ terms.hours \in {"regular", "extended"}
  /\ terms.quantity \in Nat \ {0}

\* An order whose notional is checked with the very price it can fill at.
CheckedAsFilled(o) == /\ IsOrder(o) /\ ValidOrder(o)
                      /\ NotionalPrice(o) = FillPrice(o) /\ NoLowerPrice(o)

LEMMA BuiltIsOrder ==
  ASSUME NEW terms, AreTerms(terms), NEW type \in Types, NEW l \in Nat, NEW s \in Nat, NEW e \in Nat
  PROVE  LET o == Built(terms, type, l, s, e)
         IN /\ IsOrder(o) /\ o.account = terms.account /\ o.quantity > 0
            /\ o.type = type /\ o.limit = l /\ o.stop = s /\ o.estimate = e
BY DEF Built, AreTerms, IsOrder

(* Of every order builders.py makes of positive prices, the risk check looks  *)
(* at the price the order can fill at: what the check lets through is within  *)
(* max_order_notional.                                                       *)
THEOREM BuiltAreChecked ==
  ASSUME NEW terms, AreTerms(terms), NEW p \in Nat \ {0}, NEW q \in Nat \ {0}
  PROVE  /\ CheckedAsFilled(limit_order(terms, p))
         /\ CheckedAsFilled(market_order(terms, p))
         /\ CheckedAsFilled(stop_market_order(terms, p))
         /\ CheckedAsFilled(stop_limit_order(terms, p, q))
<1> DEFINE Fine(o) == NotionalPrice(o) = FillPrice(o) /\ NoLowerPrice(o) /\ ValidOrder(o)
<1>1. ASSUME NEW o, IsOrder(o), o.quantity > 0, o.type = "LIMIT", o.limit = p, o.estimate = 0
      PROVE  Fine(o)
  BY <1>1 DEF NotionalPrice, Given, FillPrice, NoLowerPrice, ValidOrder
<1>2. ASSUME NEW o, IsOrder(o), o.quantity > 0, o.type = "MARKET", o.limit = 0, o.estimate = p
      PROVE  Fine(o)
  BY <1>2 DEF NotionalPrice, Given, FillPrice, NoLowerPrice, ValidOrder
<1>3. ASSUME NEW o, IsOrder(o), o.quantity > 0, o.type = "STOP_MARKET", o.limit = 0, o.stop = p, o.estimate = 0
      PROVE  Fine(o)
  BY <1>3 DEF NotionalPrice, Given, FillPrice, NoLowerPrice, ValidOrder
<1>4. ASSUME NEW o, IsOrder(o), o.quantity > 0, o.type = "STOP_LIMIT", o.limit = q, o.stop = p, o.estimate = 0
      PROVE  Fine(o)
  BY <1>4 DEF NotionalPrice, Given, FillPrice, NoLowerPrice, ValidOrder
<1> HIDE DEF Fine
<1>5. \A type \in Types, l, s, e \in Nat :
         LET o == Built(terms, type, l, s, e)
         IN /\ IsOrder(o) /\ o.quantity > 0 /\ o.type = type
            /\ o.limit = l /\ o.stop = s /\ o.estimate = e
  BY BuiltIsOrder
<1>6. /\ IsOrder(limit_order(terms, p)) /\ Fine(limit_order(terms, p))
      /\ IsOrder(market_order(terms, p)) /\ Fine(market_order(terms, p))
      /\ IsOrder(stop_market_order(terms, p)) /\ Fine(stop_market_order(terms, p))
      /\ IsOrder(stop_limit_order(terms, p, q)) /\ Fine(stop_limit_order(terms, p, q))
  BY <1>1, <1>2, <1>3, <1>4, <1>5
     DEF limit_order, market_order, stop_market_order, stop_limit_order, Types
<1>7. QED
  BY <1>6 DEF Fine, CheckedAsFilled

(* The groups builders.py makes are accepted by GroupOrderRequest, and so is  *)
(* one_cancels_all of two or more valid orders of one account.               *)
THEOREM BuiltGroupsAreValid ==
  ASSUME NEW terms, AreTerms(terms), NEW hours \in {"regular", "extended"},
         NEW entry \in Nat \ {0}, NEW target \in Nat \ {0}, NEW stop \in Nat \ {0},
         NEW S, NEW orders \in Seq(S), Len(orders) >= 2,
         \A i \in DOMAIN orders : ValidOrder(orders[i]) /\ orders[i].account = terms.account
  PROVE  /\ ValidSubmission(oco_exit_group(terms, target, stop))
         /\ ValidSubmission(bracket_order_group(terms, hours, entry, target, stop))
         /\ ValidSubmission(one_cancels_all(orders))
<1> DEFINE exit == [terms EXCEPT !.hours = hours]
           OfAccount(o) == ValidOrder(o) /\ o.account = terms.account
<1>1. AreTerms(exit) /\ exit.account = terms.account
  BY DEF AreTerms
<1>2. /\ OfAccount(limit_order(terms, entry)) /\ OfAccount(limit_order(terms, target))
      /\ OfAccount(stop_market_order(terms, stop))
      /\ OfAccount(limit_order(exit, target)) /\ OfAccount(stop_market_order(exit, stop))
  <2>1. ASSUME NEW t, AreTerms(t), t.account = terms.account, NEW p \in Nat \ {0}
        PROVE  OfAccount(limit_order(t, p)) /\ OfAccount(stop_market_order(t, p))
    <3>1. ValidOrder(limit_order(t, p)) /\ ValidOrder(stop_market_order(t, p))
      BY <2>1, BuiltAreChecked DEF CheckedAsFilled
    <3>2. limit_order(t, p).account = t.account /\ stop_market_order(t, p).account = t.account
      BY DEF limit_order, stop_market_order, Built
    <3>3. QED
      BY <2>1, <3>1, <3>2
  <2> HIDE DEF exit, OfAccount
  <2>2. QED
    BY <1>1, <2>1
<1>3. ASSUME NEW kind, NEW T, NEW legs \in Seq(T),
             (kind = "OCO" /\ Len(legs) >= 2) \/ (kind = "BRK" /\ Len(legs) >= 3),
             \A i \in DOMAIN legs : OfAccount(legs[i])
      PROVE  ValidSubmission(Group(kind, legs))
  <2>1. /\ Group(kind, legs).kind = kind /\ Group(kind, legs).legs = legs
        /\ Group(kind, legs).members = Len(legs)
    BY DEF Group
  <2>2. DOMAIN legs = 1..Len(legs)
    BY <1>3
  <2>3. QED
    BY <1>3, <2>1, <2>2 DEF ValidSubmission, ValidGroup, Groups
<1> HIDE DEF exit
<1>4. ValidSubmission(Group("OCO", orders))
  BY <1>3
<1>5. ASSUME NEW o, NEW u, OfAccount(o), OfAccount(u)
      PROVE  ValidSubmission(Group("OCO", <<o, u>>))
  <2> DEFINE legs == <<o, u>>
             T == {o, u}
  <2>1. legs \in Seq(T) /\ Len(legs) >= 2 /\ \A i \in DOMAIN legs : OfAccount(legs[i])
    BY <1>5
  <2> HIDE DEF legs, T, OfAccount
  <2>2. ValidSubmission(Group("OCO", legs))
    BY <1>3, <2>1
  <2>3. QED
    BY <2>2 DEF legs
<1>6. ASSUME NEW o, NEW u, NEW w, OfAccount(o), OfAccount(u), OfAccount(w)
      PROVE  ValidSubmission(Group("BRK", <<o, u, w>>))
  <2> DEFINE legs == <<o, u, w>>
             T == {o, u, w}
  <2>1. legs \in Seq(T) /\ Len(legs) >= 3 /\ \A i \in DOMAIN legs : OfAccount(legs[i])
    BY <1>6
  <2> HIDE DEF legs, T, OfAccount
  <2>2. ValidSubmission(Group("BRK", legs))
    BY <1>3, <2>1
  <2>3. QED
    BY <2>2 DEF legs
<1> HIDE DEF OfAccount
<1>7. QED
  BY <1>2, <1>4, <1>5, <1>6 DEF oco_exit_group, bracket_order_group, one_cancels_all, exit
-----------------------------------------------------------------------------
(* When the notional of every order is bounded, not only of the checked ones. *)

LimitTypes == {"LIMIT", "STOP_LIMIT"}

\* No lower estimate or limit price hides the price at which an order can fill,
\* and an order that is replaced is a limit order that is given both a quantity
\* and a limit price.  (Orders of builders.py satisfy the first.)
CarefulOrder(o) == NoLowerPrice(o) /\ (o.type \in LimitTypes \/ Requests = {})
CarefulChange(r) == ~r.market /\ r.quantity > 0 /\ r.limit > 0
Careful == /\ \A s \in Submissions : \A i \in DOMAIN s.legs : CarefulOrder(s.legs[i])
           /\ \A r \in Requests : CarefulChange(r)

AllWithinLimit == \A i \in Live : live[i].terms.quantity * FillPrice(live[i].terms) <= config.max

AllChecked ==
  /\ \A i \in Live : live[i].checked = TRUE /\ (live[i].terms.type \in LimitTypes \/ Requests = {})
  /\ \A c \in Callers : calls[c] # NoCall /\ calls[c].op \in {"find", "replace"} =>
       calls[c].change \in Requests

(* A careful replacement of a limit order is one the check can judge.        *)
LEMMA CarefulIsChecked ==
  ASSUME NEW order, IsOrder(order.terms), order.terms.quantity > 0, order.checked = TRUE,
         order.terms.type \in LimitTypes, NEW r, IsChange(r), CarefulChange(r)
  PROVE  Replaced(order, r).checked = TRUE /\ Replaced(order, r).terms.type \in LimitTypes
<1> DEFINE new == NewTerms(order.terms, r)
<1>1. IsOrder(new) /\ new.type = order.terms.type
  BY NewTermsFacts DEF CarefulChange
<1>2. new.limit = r.limit
  BY DEF NewTerms, IsOrder, CarefulChange, Given
<1>3. r.limit \in Nat /\ ChangePrice(r) = r.limit
  BY DEF IsChange, CarefulChange, ChangePrice, Given
<1> HIDE DEF new
<1>4. FillPrice(new) = r.limit
  BY <1>1, <1>2 DEF FillPrice, LimitTypes
<1>5. /\ Replaced(order, r).terms = new
      /\ Replaced(order, r).checked = IF new = order.terms THEN order.checked
                                      ELSE ~r.market /\ r.quantity > 0 /\ ChangePrice(r) >= FillPrice(new)
  BY DEF Replaced, new
<1>6. ~r.market /\ r.quantity > 0 /\ ChangePrice(r) >= FillPrice(new)
  BY <1>3, <1>4 DEF CarefulChange
<1>7. (~r.market /\ r.quantity > 0 /\ ChangePrice(r) >= FillPrice(new)) = TRUE
  BY <1>6, Zenon
<1>8. QED
  BY <1>1, <1>5, <1>7, Zenon

LEMMA AllCheckedStep ==
  ASSUME Careful, Inv, AllChecked, [Next]_vars
  PROVE  AllChecked'
<1> DEFINE Fine(i) == live[i] # NoOrder =>
             live[i].checked = TRUE /\ (live[i].terms.type \in LimitTypes \/ Requests = {})
           Asks(c) == calls[c] # NoCall /\ calls[c].op \in {"find", "replace"} =>
             calls[c].change \in Requests
<1>0. DOMAIN live = Ids /\ DOMAIN calls = Callers /\ (\A i \in Ids : Fine(i)) /\ (\A c \in Callers : Asks(c))
  BY DEF Inv, AllChecked, Live
<1>1. ASSUME \A i \in Ids : live'[i] \in {live[i], NoOrder} \/ Fine(i)',
             \A c \in Callers : calls'[c] \in {calls[c], NoCall} \/ Asks(c)'
      PROVE  AllChecked'
  <2>1. \A i \in Ids : Fine(i)'
    BY <1>0, <1>1
  <2>2. \A c \in Callers : Asks(c)'
    BY <1>0, <1>1
  <2>3. QED
    BY <2>1, <2>2 DEF AllChecked, Live
<1>2. ASSUME NEW c \in Callers, NEW call, Calls(c, call),
             call.op \in {"find", "replace"} => call.change \in Requests
      PROVE  AllChecked'
  <2>1. calls'[c] = call /\ UNCHANGED live /\ \A d \in Callers \ {c} : calls'[d] = calls[d]
    BY <1>0, <1>2 DEF Calls
  <2>2. \A d \in Callers : calls'[d] \in {calls[d], NoCall} \/ Asks(d)'
    BY <1>2, <2>1
  <2>3. QED
    BY <1>1, <2>1, <2>2
<1>3. ASSUME NEW c \in Callers, Place(c) PROVE AllChecked'
  <2>1. PICK legs : Calls(c, [op |-> "place", legs |-> legs])
    BY <1>3 DEF Place
  <2>2. QED
    BY <1>2, <2>1
<1>4. ASSUME NEW c \in Callers, Replace(c) PROVE AllChecked'
  <2>1. PICK i \in Ids, account \in config.accounts, r \in Requests :
          Calls(c, [op |-> "find", id |-> i, account |-> account, change |-> r])
    BY <1>4 DEF Replace
  <2>2. QED
    BY <1>2, <2>1
<1>5. ASSUME NEW c \in Callers, Cancel(c) PROVE AllChecked'
  <2>1. PICK i \in Ids, account \in config.accounts :
          Calls(c, [op |-> "check", id |-> i, account |-> account])
    BY <1>5 DEF Cancel
  <2>2. QED
    BY <1>2, <2>1
<1>6. ASSUME NEW c \in Callers, Found(c) PROVE AllChecked'
  <2>1. calls[c].change \in Requests
    BY <1>0, <1>6 DEF Found
  <2>2. Calls(c, [op |-> "replace", id |-> calls[c].id, change |-> calls[c].change])
    BY <1>6 DEF Found
  <2>3. QED
    BY <1>2, <2>1, <2>2
<1>6a. ASSUME NEW c \in Callers, Checked(c) PROVE AllChecked'
  <2>1. Calls(c, [op |-> "cancel", id |-> calls[c].id])
    BY <1>6a DEF Checked
  <2>2. QED
    BY <1>2, <2>1
<1>7. ASSUME NEW c \in Callers, calls' = [calls EXCEPT ![c] = NoCall],
             \A i \in Ids : live'[i] \in {live[i], NoOrder} \/ Fine(i)'
      PROVE  AllChecked'
  <2>1. \A d \in Callers : calls'[d] \in {calls[d], NoCall}
    BY <1>0, <1>7
  <2>2. QED
    BY <1>1, <1>7, <2>1
<1>8. ASSUME NEW c \in Callers, PlaceApplied(c) PROVE AllChecked'
  <2> DEFINE legs == calls[c].legs
  <2>1. \A i \in Ids : live'[i] = live[i] \/ \E k \in DOMAIN legs : live'[i] = Accepted(legs[k])
    BY <1>8 DEF PlaceApplied
  <2>2. \A k \in DOMAIN legs : CarefulOrder(legs[k])
    BY <1>8 DEF PlaceApplied, Inv, TypeOK, IsCall, Careful
  <2>3. ASSUME NEW o, CarefulOrder(o)
        PROVE  Accepted(o).checked = TRUE /\ (Accepted(o).terms.type \in LimitTypes \/ Requests = {})
    <3>1. NoLowerPrice(o) = TRUE
      BY <2>3, Zenon DEF CarefulOrder, NoLowerPrice
    <3>2. QED
      BY <2>3, <3>1 DEF CarefulOrder, Accepted
  <2>4. \A i \in Ids : live'[i] \in {live[i], NoOrder} \/ Fine(i)'
    BY <2>1, <2>2, <2>3
  <2>5. QED
    BY <1>7, <1>8, <2>4 DEF PlaceApplied, Returns
<1>9. ASSUME NEW c \in Callers, ReplaceApplied(c) PROVE AllChecked'
  <2> DEFINE r == calls[c].change
  <2>1. PICK i \in Ids : /\ live[i] # NoOrder /\ live' = [live EXCEPT ![i] = Replaced(live[i], r)]
                         /\ calls' = [calls EXCEPT ![c] = NoCall]
                         /\ IsChange(r) /\ r \in Requests
    BY <1>0, <1>9 DEF ReplaceApplied, Returns, Inv, TypeOK, IsCall
  <2>2. /\ IsOrder(live[i].terms) /\ live[i].terms.quantity > 0
        /\ live[i].checked = TRUE /\ live[i].terms.type \in LimitTypes
    BY <1>0, <2>1 DEF Inv, TypeOK
  <2>3. live'[i] = Replaced(live[i], r) /\ \A j \in Ids \ {i} : live'[j] = live[j]
    BY <1>0, <2>1
  <2>4. CarefulChange(r)
    BY <2>1 DEF Careful
  <2>5. Replaced(live[i], r).checked = TRUE /\ Replaced(live[i], r).terms.type \in LimitTypes
    BY <2>1, <2>2, <2>4, CarefulIsChecked
  <2>6. Fine(i)'
    BY <2>3, <2>5
  <2>7. QED
    BY <1>7, <2>1, <2>3, <2>6
<1>10. ASSUME NEW c \in Callers, CancelApplied(c) \/ NotApplied(c) PROVE AllChecked'
  BY <1>0, <1>7, <1>10 DEF CancelApplied, NotApplied, Returns
<1>11. CASE (\E i \in Ids : Fill(i)) \/ SwitchKill \/ UNCHANGED vars
  BY <1>0, <1>1, <1>11 DEF Fill, SwitchKill, vars
<1>12. QED
  BY <1>3, <1>4, <1>5, <1>6, <1>6a, <1>8, <1>9, <1>10, <1>11 DEF Next, Answer

(* If callers place orders whose estimates and limit prices are no lower than *)
(* the price of the fill, and replace only limit orders, with a quantity and a *)
(* limit price, no order at the broker is ever past max_order_notional.       *)
THEOREM CarefulStaysWithinLimit ==
  ASSUME Careful
  PROVE  Spec => []AllWithinLimit
<1>1. Init => AllChecked
  BY DEF Init, AllChecked, Live
<1>2. Inv /\ AllChecked /\ [Next]_vars => AllChecked'
  BY AllCheckedStep
<1>3. Inv /\ AllChecked => AllWithinLimit
  BY DEF Inv, NotionalBounded, AllChecked, AllWithinLimit
<1>4. QED
  BY <1>1, <1>2, <1>3, InvAlways, PTL DEF Spec
=============================================================================
