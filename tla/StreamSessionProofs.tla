-------------------------- MODULE StreamSessionProofs --------------------------
(* Theorems about StreamSession, for every policy and every kind of messages. *)
EXTENDS StreamSession, TLAPS

(* The code's counter of reconnects runs one ahead of the reconnects tried    *)
(* while it sleeps before the next one; the two agree everywhere else.       *)
BudgetInv ==
  /\ pc = "sleep" => reconnects = retries + 1
  /\ pc \in {"connect", "read", "handle"} => reconnects = retries
  /\ ending \in {"exhausted", "goaway"} => retries = MaxReconnects
  /\ ending # "none" <=> pc = "ended"
  /\ retries <= MaxReconnects

(* Between two chunks the consumer has all that was parsed, and what the      *)
(* parser holds back begins with a malformed message.                        *)
DeliveryInv ==
  /\ pc = "connect" => sent = <<>>
  /\ pc \in {"connect", "read"} => yielded = parsed
  /\ parsed < fed => sent[parsed + 1] \in Malformed
  /\ ending = "end" => yielded = parsed /\ fed = Len(sent)

Inv == TypeOK /\ BudgetInv /\ DeliveryInv

LEMMA InitInv == Init => Inv
<1> SUFFICES ASSUME Init PROVE Inv
  OBVIOUS
<1>1. /\ reconnects = 0 /\ retries = 0 /\ sent = <<>> /\ fed = 0 /\ parsed = 0 /\ yielded = 0
      /\ pc = "connect" /\ ending = "none" /\ wire = "closed"
      /\ raiseOnError \in BOOLEAN /\ refreshed \in BOOLEAN
  BY DEF Init
<1>2. Len(sent) = 0 /\ sent \in Seq(Kinds)
  BY <1>1
<1>3. reconnects \in 0..MaxReconnects /\ retries \in 0..(MaxReconnects + 1)
  BY <1>1, PolicyAssumption
<1>4. fed \in 0..Len(sent) /\ parsed \in 0..fed /\ yielded \in 0..parsed
  BY <1>1, <1>2
<1>5. TypeOK
  BY <1>1, <1>2, <1>3, <1>4 DEF TypeOK, Endings
<1>6. BudgetInv /\ DeliveryInv
  BY <1>1, <1>3, PolicyAssumption DEF BudgetInv, DeliveryInv
<1>7. QED
  BY <1>5, <1>6 DEF Inv

(* An ending that concludes nothing about the budget or the messages. *)
LEMMA EndKeepsInv ==
  ASSUME Inv, NEW how \in Endings \ {"none"}, End(how), UNCHANGED raiseOnError,
         how \in {"exhausted", "goaway"} => retries = MaxReconnects,
         how = "end" => yielded = parsed /\ fed = Len(sent)
  PROVE  Inv'
BY DEF Inv, TypeOK, BudgetInv, DeliveryInv, End, connection

(* GoAway and failures share one budget. *)
LEMMA ReconnectKeepsInv ==
  ASSUME Inv, pc \in {"connect", "read", "handle"}, UNCHANGED raiseOnError,
         NEW how \in {"exhausted", "goaway"}, Reconnect(how)
  PROVE  Inv'
<1>1. reconnects \in 0..MaxReconnects /\ retries \in Nat /\ reconnects = retries
  BY PolicyAssumption DEF Inv, TypeOK, BudgetInv
<1>2. CASE reconnects >= MaxReconnects /\ End(how)
  <2>1. retries = MaxReconnects
    BY <1>1, <1>2, PolicyAssumption
  <2>2. QED
    BY <1>2, <2>1, EndKeepsInv DEF Endings
<1>3. CASE reconnects < MaxReconnects /\ ~End(how)
  <2>1. /\ pc' = "sleep" /\ reconnects' = reconnects + 1
        /\ UNCHANGED <<refreshed, connection, ending, retries>>
    BY <1>3 DEF Reconnect
  <2>2. reconnects' \in 0..MaxReconnects
    BY <1>1, <1>3, <2>1, PolicyAssumption
  <2>3. TypeOK'
    BY <2>1, <2>2 DEF Inv, TypeOK, connection
  <2>4. BudgetInv'
    BY <1>1, <2>1 DEF Inv, BudgetInv
  <2>5. DeliveryInv'
    BY <2>1 DEF Inv, BudgetInv, DeliveryInv, connection
  <2>6. QED
    BY <2>3, <2>4, <2>5 DEF Inv
<1>4. QED
  BY <1>2, <1>3 DEF Reconnect, End

(* What opens a connection. *)
LEMMA OpeningKeepsInv ==
  ASSUME Inv, UNCHANGED raiseOnError,
         Open \/ OpenUnauthorized \/ TokenFails \/ OpenRefused \/ OpenFails
  PROVE  Inv'
<1>1. CASE Open
  BY <1>1 DEF Open, Inv, TypeOK, BudgetInv, DeliveryInv
<1>2. CASE OpenUnauthorized
  <2>1. CASE End("auth")
    BY <2>1, EndKeepsInv DEF Endings
  <2>2. CASE refreshed' = TRUE /\ UNCHANGED <<pc, reconnects, connection, ending, retries>>
    BY <2>2 DEF Inv, TypeOK, BudgetInv, DeliveryInv, connection
  <2>3. QED
    BY <1>2, <2>1, <2>2 DEF OpenUnauthorized
<1>3. CASE TokenFails \/ OpenRefused
  BY <1>3, EndKeepsInv DEF TokenFails, OpenRefused, Endings
<1>4. CASE OpenFails
  BY <1>4, ReconnectKeepsInv DEF OpenFails
<1>5. QED
  BY <1>1, <1>2, <1>3, <1>4

(* What reads one. *)
LEMMA ReadingKeepsInv ==
  ASSUME Inv, UNCHANGED raiseOnError,
         Feed \/ HandleNext \/ ReadOn \/ EndOfStream \/ ReadFails
  PROVE  Inv'
<1>1. /\ Len(sent) \in Nat /\ fed \in 0..Len(sent) /\ parsed \in 0..fed /\ yielded \in 0..parsed
      /\ reconnects \in 0..MaxReconnects /\ retries \in 0..(MaxReconnects + 1)
  BY DEF Inv, TypeOK
<1>2. CASE Feed
  <2>1. CASE End("parse")
    BY <2>1, EndKeepsInv DEF Endings
  <2>2. CASE ~End("parse")
    <3>1. pc = "read"
      BY <1>2 DEF Feed
    <3>2. PICK n \in (fed + 1)..Len(sent), upto \in Nat :
            /\ upto \in parsed..n /\ Parse(n, upto)
            /\ upto < n => sent[upto + 1] \in Malformed
      <4>1. PICK n \in (fed + 1)..Len(sent) :
              LET bad == {i \in (parsed + 1)..n : sent[i] \in Malformed}
              IN Parse(n, n) \/ \E first \in bad : Parse(n, first - 1)
        BY <1>2, <2>2 DEF Feed
      <4>2. n \in parsed..n
        BY <1>1
      <4>3. ASSUME NEW first \in (parsed + 1)..n
            PROVE  first - 1 \in parsed..n /\ (first - 1) + 1 = first
        BY <1>1
      <4>4. QED
        BY <1>1, <4>1, <4>2, <4>3
    <3>3. /\ pc' = "handle" /\ fed' = n /\ parsed' = upto
          /\ UNCHANGED <<reconnects, refreshed, wire, sent, yielded, ending, retries>>
      BY <3>2 DEF Parse
    <3>4. fed' \in 0..Len(sent) /\ parsed' \in 0..fed' /\ yielded \in 0..parsed'
      BY <1>1, <3>2, <3>3
    <3>5. TypeOK'
      BY <3>3, <3>4 DEF Inv, TypeOK
    <3>6. BudgetInv'
      BY <3>1, <3>3 DEF Inv, BudgetInv
    <3>7. ending' # "end"
      BY <3>1, <3>3 DEF Inv, BudgetInv
    <3>8. parsed' < fed' => sent'[parsed' + 1] \in Malformed
      BY <3>2, <3>3
    <3>9. DeliveryInv'
      BY <3>3, <3>7, <3>8 DEF DeliveryInv
    <3>10. QED
      BY <3>5, <3>6, <3>9 DEF Inv
  <2>3. QED
    BY <2>1, <2>2
<1>3. CASE HandleNext
  <2>1. CASE End("error")
    BY <2>1, EndKeepsInv DEF Endings
  <2>2. CASE Reconnect("goaway")
    BY <1>3, <2>2, ReconnectKeepsInv DEF HandleNext
  <2>3. CASE /\ yielded' = yielded + 1 /\ reconnects' = 0 /\ retries' = 0
             /\ UNCHANGED <<pc, refreshed, wire, sent, fed, parsed, ending>>
    <3>1. pc = "handle" /\ yielded < parsed
      BY <1>3 DEF HandleNext
    <3>2. /\ yielded' \in 0..parsed' /\ reconnects' \in 0..MaxReconnects
          /\ retries' \in 0..(MaxReconnects + 1) /\ retries' <= MaxReconnects
      BY <1>1, <2>3, <3>1, PolicyAssumption
    <3>3. QED
      BY <2>3, <3>1, <3>2 DEF Inv, TypeOK, BudgetInv, DeliveryInv
  <2>4. QED
    BY <1>3, <2>1, <2>2, <2>3 DEF HandleNext
<1>4. CASE ReadOn
  BY <1>4 DEF ReadOn, Inv, TypeOK, BudgetInv, DeliveryInv, connection
<1>5. CASE EndOfStream
  <2>1. yielded = parsed /\ fed = Len(sent)
    BY <1>5 DEF EndOfStream, Inv, DeliveryInv
  <2>2. QED
    BY <1>5, <2>1, EndKeepsInv DEF EndOfStream, Endings
<1>6. CASE ReadFails
  BY <1>6, ReconnectKeepsInv DEF ReadFails
<1>7. QED
  BY <1>2, <1>3, <1>4, <1>5, <1>6

LEMMA WakeKeepsInv == ASSUME Inv, UNCHANGED raiseOnError, Wake PROVE Inv'
<1>1. /\ pc = "sleep" /\ pc' = "connect" /\ refreshed' = FALSE /\ wire' = "closed"
      /\ sent' = <<>> /\ fed' = 0 /\ parsed' = 0 /\ yielded' = 0
      /\ retries' = (IF retries > MaxReconnects THEN retries ELSE retries + 1)
      /\ UNCHANGED <<ending, reconnects>>
  BY DEF Wake, TryAgain
<1>2. reconnects \in 0..MaxReconnects /\ reconnects = retries + 1 /\ retries \in Nat
  BY <1>1, PolicyAssumption DEF Inv, TypeOK, BudgetInv
<1>3. retries' = reconnects'
  BY <1>1, <1>2, PolicyAssumption
<1>4. sent' \in Seq(Kinds) /\ fed' \in 0..Len(sent') /\ parsed' \in 0..fed' /\ yielded' \in 0..parsed'
  BY <1>1
<1>5. retries' \in 0..(MaxReconnects + 1) /\ retries' <= MaxReconnects
  BY <1>1, <1>2, <1>3, PolicyAssumption
<1>6. TypeOK'
  BY <1>1, <1>4, <1>5 DEF Inv, TypeOK
<1>7. BudgetInv' /\ DeliveryInv'
  BY <1>1, <1>3, <1>5 DEF Inv, BudgetInv, DeliveryInv
<1>8. QED
  BY <1>6, <1>7 DEF Inv

(* The consumer leaves, the server sends or leaves. *)
LEMMA EnvironmentKeepsInv ==
  ASSUME Inv, UNCHANGED raiseOnError, Close \/ Leave \/ \E kind \in Messages : Send(kind)
  PROVE  Inv'
<1>1. CASE Close
  BY <1>1, EndKeepsInv DEF Close, Endings
<1>2. CASE Leave
  BY <1>2 DEF Leave, Inv, TypeOK, BudgetInv, DeliveryInv
<1>3. ASSUME NEW kind \in Messages, Send(kind) PROVE Inv'
  <2>1. /\ pc \in {"read", "handle"} /\ sent' = Append(sent, kind) /\ kind \in Kinds
        /\ UNCHANGED <<pc, reconnects, refreshed, wire, fed, parsed, yielded, ending, retries>>
    BY <1>3, MessagesAssumption DEF Send
  <2>2. sent' \in Seq(Kinds) /\ Len(sent') = Len(sent) + 1
    BY <2>1 DEF Inv, TypeOK
  <2>3. fed' \in 0..Len(sent')
    BY <2>1, <2>2 DEF Inv, TypeOK
  <2>4. parsed < fed => sent'[parsed + 1] = sent[parsed + 1]
    BY <2>1 DEF Inv, TypeOK
  <2>5. QED
    BY <2>1, <2>2, <2>3, <2>4 DEF Inv, TypeOK, BudgetInv, DeliveryInv
<1>4. QED
  BY <1>1, <1>2, <1>3

THEOREM InvHolds == Spec => []Inv
<1>1. Inv /\ [Next]_vars => Inv'
  <2>1. ASSUME Inv, UNCHANGED vars PROVE Inv'
    BY <2>1 DEF vars, Inv, TypeOK, BudgetInv, DeliveryInv
  <2>2. QED
    BY <2>1, OpeningKeepsInv, ReadingKeepsInv, WakeKeepsInv, EnvironmentKeepsInv
       DEF Next, Step
<1>2. QED
  BY InitInv, <1>1, PTL DEF Spec
-----------------------------------------------------------------------------
(* Every variable of a stream session stays within its type. *)
THEOREM SessionTypeCorrect == Spec => []TypeOK
<1>1. Inv => TypeOK
  BY DEF Inv
<1>2. QED
  BY InvHolds, <1>1, PTL

(* However connections fail, events() tries no more reconnects than the       *)
(* policy allows before the next event.                                      *)
THEOREM BudgetKept == Spec => []ReconnectBudget
<1>1. Inv => ReconnectBudget
  BY DEF Inv, BudgetInv, ReconnectBudget
<1>2. QED
  BY InvHolds, <1>1, PTL

(* events() gives up only when the whole budget went without an event. *)
THEOREM BudgetNotCut == Spec => []WholeBudgetPerOutage
<1>1. Inv => WholeBudgetPerOutage
  BY DEF Inv, BudgetInv, WholeBudgetPerOutage
<1>2. QED
  BY InvHolds, <1>1, PTL

(* events() that ends with the connection has yielded all of its messages    *)
(* before the first malformed one.                                           *)
THEOREM EndIsComplete == Spec => []EndDeliversAll
<1>1. Inv => EndDeliversAll
  <2> SUFFICES ASSUME Inv, ending = "end", NEW n \in 1..Len(sent),
                      \A i \in 1..n : sent[i] \notin Malformed
               PROVE  n <= yielded
    BY DEF EndDeliversAll
  <2>1. /\ yielded = parsed /\ fed = Len(sent) /\ parsed \in 0..fed /\ fed \in Nat
        /\ parsed < fed => sent[parsed + 1] \in Malformed
    BY DEF Inv, TypeOK, DeliveryInv
  <2>2. CASE parsed < n
    <3>1. parsed + 1 \in 1..n
      BY <2>1, <2>2
    <3>2. QED
      BY <2>1, <2>2, <3>1
  <2>3. QED
    BY <2>1, <2>2
<1>2. QED
  BY InvHolds, <1>1, PTL
-----------------------------------------------------------------------------
(* How long events() can go on without an event.  What is left of an outage   *)
(* is its reconnects and the steps of this connection: the 401 that may come  *)
(* first, and two steps for each message.                                    *)
ConnectionLeft ==
  CASE pc = "sleep" -> 2 * MaxSent + 4
    [] pc = "connect" -> 2 * MaxSent + (IF refreshed = TRUE THEN 2 ELSE 3)
    [] pc = "handle" -> 2 * (MaxSent - fed) + 2
    [] pc = "read" -> 2 * (MaxSent - fed) + 1
    [] pc = "ended" -> 0
PerConnection == 2 * MaxSent + 5
OutageLeft == (MaxReconnects - reconnects) * PerConnection + ConnectionLeft
MostOutage == (MaxReconnects + 1) * PerConnection

WithinCap == Len(sent) <= MaxSent

\* Without an event every step takes from what is left of the outage, and the
\* server gives it nothing.
Wanes == /\ Step => yielded' > yielded \/ OutageLeft' < OutageLeft
         /\ OutageLeft' # OutageLeft => Step \/ Close

(* A connection more leaves less of the outage, however long it may be.      *)
LEMMA OneConnectionLess ==
  ASSUME NEW a \in Nat, NEW b \in Nat, NEW w \in Nat, NEW i \in Nat, NEW j \in Nat,
         \/ a = b /\ i < j
         \/ a + 1 <= b /\ i < w
  PROVE  a * w + i < b * w + j
<1>1. CASE a = b /\ i < j
  BY <1>1
<1>2. CASE a + 1 <= b /\ i < w
  <2>1. (a + 1) * w <= b * w
    BY <1>2, SMT
  <2>2. (a + 1) * w = a * w + w
    BY SMT
  <2>3. a * w \in Nat /\ b * w \in Nat
    BY SMT
  <2>4. QED
    BY <1>2, <2>1, <2>2, <2>3
<1>3. QED
  BY <1>1, <1>2

LEMMA OutageFacts ==
  ASSUME Inv, WithinCap
  PROVE  /\ ConnectionLeft \in Nat /\ ConnectionLeft < PerConnection
         /\ fed \in 0..MaxSent /\ MaxSent \in Nat /\ MaxReconnects \in Nat
         /\ reconnects \in 0..MaxReconnects
         /\ pc # "ended" => ConnectionLeft > 0
<1>1. /\ fed \in 0..MaxSent /\ MaxSent \in Nat /\ MaxReconnects \in Nat
      /\ reconnects \in 0..MaxReconnects
      /\ pc \in {"connect", "read", "handle", "sleep", "ended"}
  BY PolicyAssumption DEF Inv, TypeOK, WithinCap
<1>2. QED
  BY <1>1 DEF ConnectionLeft, PerConnection

LEMMA OutageBounded ==
  ASSUME Inv, WithinCap PROVE OutageLeft \in Nat /\ OutageLeft < MostOutage
<1> DEFINE a == MaxReconnects - reconnects
           b == MaxReconnects + 1
           w == PerConnection
           i == ConnectionLeft
<1>1. /\ a \in Nat /\ b \in Nat /\ w \in Nat /\ i \in Nat /\ a + 1 <= b /\ i < w
  BY OutageFacts DEF PerConnection
<1>2. OutageLeft = a * w + i /\ MostOutage = b * w
  BY DEF OutageLeft, MostOutage
<1> HIDE DEF a, b, w, i
<1>3. a * w + i < b * w
  <2>1. (a + 1) * w <= b * w
    BY <1>1, SMT
  <2>2. (a + 1) * w = a * w + w
    BY <1>1, SMT
  <2>3. a * w \in Nat /\ b * w \in Nat
    BY <1>1, SMT
  <2>4. QED
    BY <1>1, <2>1, <2>2, <2>3
<1>4. QED
  BY <1>1, <1>2, <1>3

\* What a step that gives the consumer nothing does to the two parts.
Advances == /\ ConnectionLeft' \in Nat /\ ConnectionLeft' < PerConnection
            /\ reconnects' \in 0..MaxReconnects
            /\ \/ reconnects' = reconnects /\ ConnectionLeft' < ConnectionLeft
               \/ reconnects + 1 <= reconnects'

LEMMA EndAdvances ==
  ASSUME Inv, WithinCap, pc # "ended", NEW how, End(how)
  PROVE  Advances
<1>1. ConnectionLeft' = 0 /\ reconnects' = reconnects
  BY DEF End, ConnectionLeft
<1>2. ConnectionLeft > 0
  BY OutageFacts
<1>3. QED
  BY <1>1, <1>2, OutageFacts DEF Advances, PerConnection

LEMMA ReconnectAdvances ==
  ASSUME Inv, WithinCap, pc # "ended", NEW how, Reconnect(how)
  PROVE  Advances
<1>1. CASE End(how)
  BY <1>1, EndAdvances
<1>2. CASE reconnects < MaxReconnects /\ pc' = "sleep" /\ reconnects' = reconnects + 1
  <2>1. ConnectionLeft' = 2 * MaxSent + 4
    BY <1>2 DEF ConnectionLeft
  <2>2. QED
    BY <1>2, <2>1, OutageFacts DEF Advances, PerConnection
<1>3. QED
  BY <1>1, <1>2 DEF Reconnect

LEMMA StepAdvances ==
  ASSUME Inv, WithinCap, Step
  PROVE  yielded' > yielded \/ Advances
<1>0. /\ fed \in 0..MaxSent /\ MaxSent \in Nat /\ MaxReconnects \in Nat
      /\ reconnects \in 0..MaxReconnects /\ Len(sent) \in Nat /\ Len(sent) <= MaxSent
      /\ fed \in Nat /\ parsed \in 0..fed /\ yielded \in 0..parsed
  BY OutageFacts DEF Inv, TypeOK, WithinCap
<1> USE DEF Advances, PerConnection, ConnectionLeft
<1>1. CASE Open
  BY <1>0, <1>1, Inv DEF Open, Inv, DeliveryInv, TypeOK
<1>2. CASE OpenUnauthorized
  <2>1. CASE End("auth")
    BY <1>2, <2>1, EndAdvances DEF OpenUnauthorized
  <2>2. CASE refreshed # TRUE /\ refreshed' = TRUE /\ UNCHANGED <<pc, reconnects>>
    <3>1. pc = "connect"
      BY <1>2 DEF OpenUnauthorized
    <3>2. ConnectionLeft = 2 * MaxSent + 3 /\ ConnectionLeft' = 2 * MaxSent + 2
      BY <2>2, <3>1
    <3> HIDE DEF ConnectionLeft
    <3>3. QED
      BY <1>0, <2>2, <3>2
  <2>3. QED
    BY <1>2, <2>1, <2>2 DEF OpenUnauthorized, Inv, TypeOK
<1>3. CASE TokenFails \/ OpenRefused \/ EndOfStream
  BY <1>3, EndAdvances DEF TokenFails, OpenRefused, EndOfStream
<1>4. CASE OpenFails \/ ReadFails
  BY <1>4, ReconnectAdvances DEF OpenFails, ReadFails
<1>5. CASE Feed
  <2>1. CASE End("parse")
    BY <1>5, <2>1, EndAdvances DEF Feed
  <2>2. CASE \E n \in (fed + 1)..Len(sent) : pc' = "handle" /\ fed' = n /\ UNCHANGED reconnects
    <3>1. PICK n \in (fed + 1)..Len(sent) : pc' = "handle" /\ fed' = n /\ reconnects' = reconnects
      BY <2>2
    <3>2. /\ ConnectionLeft = 2 * (MaxSent - fed) + 1
          /\ ConnectionLeft' = 2 * (MaxSent - n) + 2
      BY <1>5, <3>1 DEF Feed
    <3>3. n \in Nat /\ fed + 1 <= n /\ n <= MaxSent
      BY <1>0
    <3> HIDE DEF ConnectionLeft
    <3>4. QED
      BY <1>0, <3>1, <3>2, <3>3
  <2>3. QED
    BY <1>5, <2>1, <2>2 DEF Feed, Parse
<1>6. CASE HandleNext
  <2>1. CASE End("error") \/ Reconnect("goaway")
    BY <1>6, <2>1, EndAdvances, ReconnectAdvances DEF HandleNext
  <2>2. CASE yielded' = yielded + 1
    BY <1>0, <2>2
  <2>3. QED
    BY <1>6, <2>1, <2>2 DEF HandleNext
<1>7. CASE ReadOn
  BY <1>0, <1>7 DEF ReadOn, connection
<1>8. CASE Wake
  BY <1>0, <1>8 DEF Wake, TryAgain
<1>9. QED
  BY <1>1, <1>2, <1>3, <1>4, <1>5, <1>6, <1>7, <1>8 DEF Step

LEMMA WanesStep ==
  ASSUME Inv, WithinCap, Next
  PROVE  Wanes
<1>1. ASSUME Advances PROVE OutageLeft' < OutageLeft
  <2> DEFINE a == MaxReconnects - reconnects'
             b == MaxReconnects - reconnects
             w == PerConnection
             i == ConnectionLeft'
             j == ConnectionLeft
  <2>1. /\ a \in Nat /\ b \in Nat /\ w \in Nat /\ i \in Nat /\ j \in Nat
        /\ (a = b /\ i < j) \/ (a + 1 <= b /\ i < w)
    BY <1>1, OutageFacts DEF Advances, PerConnection
  <2>2. OutageLeft' = a * w + i /\ OutageLeft = b * w + j
    BY DEF OutageLeft, PerConnection
  <2> HIDE DEF a, b, w, i, j
  <2>3. QED
    BY <2>1, <2>2, OneConnectionLess
<1>2. Leave \/ (\E kind \in Messages : Send(kind)) => OutageLeft' = OutageLeft
  BY DEF Leave, Send, OutageLeft, ConnectionLeft, PerConnection
<1>3. QED
  BY <1>1, <1>2, StepAdvances DEF Wanes, Next

LEMMA CapStep == Inv /\ WithinCap /\ [Next]_vars => WithinCap'
<1> SUFFICES ASSUME Inv, WithinCap, [Next]_vars
             PROVE  WithinCap'
  OBVIOUS
<1>1. ASSUME NEW kind \in Messages, Send(kind) PROVE WithinCap'
  <2>1. Len(sent') = Len(sent) + 1 /\ Len(sent) < MaxSent /\ Len(sent) \in Nat
    BY <1>1 DEF Send, Inv, TypeOK
  <2>2. QED
    BY <2>1, PolicyAssumption DEF WithinCap
<1>2. CASE Wake
  BY <1>2, PolicyAssumption DEF Wake, TryAgain, WithinCap
<1>3. CASE UNCHANGED sent
  BY <1>3 DEF WithinCap
<1>4. Step \/ Close \/ Leave => Wake \/ UNCHANGED sent
  BY DEF Step, Open, OpenUnauthorized, TokenFails, OpenRefused, OpenFails, Feed, Parse, HandleNext, ReadOn,
         EndOfStream, ReadFails, Close, Leave, End, Reconnect, connection
<1>5. QED
  BY <1>1, <1>2, <1>3, <1>4 DEF Next, vars

(* Between two events events() takes fewer than (MaxReconnects + 1) *         *)
(* (2 * MaxSent + 5) steps of its own, through 401s, broken connections,      *)
(* GoAways and reconnects: each takes from a number that the server cannot    *)
(* raise.  What is left to fairness in OutageEnds is that they are taken.     *)
THEOREM OutagesRunOut ==
  Spec => [](OutageLeft \in Nat /\ OutageLeft < MostOutage) /\ [][Wanes]_vars
<1>1. Init => WithinCap
  BY PolicyAssumption DEF Init, WithinCap
<1>2. Inv /\ WithinCap => OutageLeft \in Nat /\ OutageLeft < MostOutage
  BY OutageBounded
<1>3. Inv /\ WithinCap /\ [Next]_vars => [Wanes]_vars
  BY WanesStep
<1>4. QED
  BY <1>1, <1>2, <1>3, CapStep, InvHolds, PTL DEF Spec
=============================================================================
