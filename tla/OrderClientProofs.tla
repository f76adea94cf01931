-------------------------- MODULE OrderClientProofs --------------------------
(* Theorems about OrderClient, for every set of calls and every attempt limit. *)
EXTENDS OrderClient, TLAPS

(* A task that sleeps has an attempt left: what keeps Wake within the limit.  *)
Typed == /\ TypeOK
         /\ \A c \in Calls : pc[c] = "sleep" => attempt[c] < MaxAttempts

(* The three ways a task moves on keep every variable within its type.       *)
LEMMA FinishKeepsTypes ==
  ASSUME Typed, NEW c \in Calls, NEW result \in Outcomes, Finish(c, result),
         UNCHANGED <<inflight, executed, kill>>
  PROVE  Typed'
BY DEF Typed, TypeOK, Finish

LEMMA GotoKeepsTypes ==
  ASSUME Typed, NEW c \in Calls, NEW label \in Running, Goto(c, label),
         UNCHANGED <<inflight, executed, kill>>, refreshed' \in [Calls -> BOOLEAN],
         label = "sleep" => attempt[c] < MaxAttempts
  PROVE  Typed'
BY DEF Typed, TypeOK, Goto

LEMMA EnterWriteKeepsTypes ==
  ASSUME Typed, NEW c \in Calls, EnterWrite(c),
         UNCHANGED <<inflight, executed, kill>>
  PROVE  Typed'
BY AttemptsAssumption DEF Typed, TypeOK, EnterWrite, Running, SendCap

LEMMA AnswerKeepsTypes ==
  ASSUME Typed, NEW c \in Calls, NEW r \in Replies, Answer(c, r)
  PROVE  reply' \in [Calls -> Replies \cup {NoReply}]
BY DEF Typed, TypeOK, Answer

(* The variables stay within their types. *)
THEOREM TypeCorrect == Spec => []TypeOK
<1>1. Init => Typed
  BY AttemptsAssumption DEF Init, Typed, TypeOK, Running, Outcomes, SendCap
<1>2. Typed /\ [Next]_vars => Typed'
  <2> SUFFICES ASSUME Typed, [Next]_vars PROVE Typed'
    OBVIOUS
  <2> USE DEF Running
  <2>1. ASSUME NEW c \in Calls, RefuseLocally(c) PROVE Typed'
    BY <2>1, FinishKeepsTypes DEF RefuseLocally, Outcomes
  <2>2. ASSUME NEW c \in Calls, Start(c) PROVE Typed'
    <3>1. CASE Kind[c] = "place"
      BY <2>2, <3>1, EnterWriteKeepsTypes DEF Start
    <3>2. CASE Kind[c] # "place"
      BY <2>2, <3>2, GotoKeepsTypes DEF Start, Typed, TypeOK
    <3>3. QED
      BY <3>1, <3>2
  <2>3. ASSUME NEW c \in Calls, Send(c) PROVE Typed'
    BY <2>3, AttemptsAssumption DEF Typed, TypeOK, Send, SendCap
  <2>4. ASSUME NEW c \in Calls, TokenFails(c) PROVE Typed'
    BY <2>4, FinishKeepsTypes DEF TokenFails, Outcomes
  <2>5. ASSUME NEW c \in Calls, RefreshToken(c) PROVE Typed'
    BY <2>5, GotoKeepsTypes DEF RefreshToken, Typed, TypeOK
  <2>6. ASSUME NEW c \in Calls, SendFails(c) PROVE Typed'
    BY <2>6, FinishKeepsTypes, GotoKeepsTypes DEF SendFails, Outcomes, Typed, TypeOK
  <2>7. ASSUME NEW c \in Calls, Wake(c) PROVE Typed'
    BY <2>7, AttemptsAssumption DEF Wake, Typed, TypeOK
  <2>8. ASSUME NEW c \in Calls, Deliver(c) PROVE Typed'
    <3>1. CASE ReadBroken(c)
      BY <3>1, FinishKeepsTypes DEF ReadBroken, Outcomes
    <3>2. CASE ReadUnauthorized(c)
      BY <3>2, GotoKeepsTypes DEF ReadUnauthorized, Typed, TypeOK
    <3>3. CASE ReadNotObject(c)
      BY <3>3, FinishKeepsTypes DEF ReadNotObject, Outcomes
    <3>4. CASE ReadError(c)
      BY <3>4, FinishKeepsTypes, GotoKeepsTypes DEF ReadError, Outcomes, Typed, TypeOK
    <3>5. CASE ReadObject(c)
      BY <3>5, FinishKeepsTypes, EnterWriteKeepsTypes DEF ReadObject, Outcomes
    <3>6. CASE ReadAck(c)
      BY <3>6, FinishKeepsTypes DEF ReadAck, Outcomes
    <3>7. QED
      BY <2>8, <3>1, <3>2, <3>3, <3>4, <3>5, <3>6 DEF Deliver
  <2>9. ASSUME NEW c \in Calls, CancelTask(c) PROVE Typed'
    BY <2>9, FinishKeepsTypes DEF CancelTask, Outcomes
  <2>10. ASSUME NEW c \in Calls, BrokerAnswersRead(c) PROVE Typed'
    BY <2>10, AnswerKeepsTypes DEF BrokerAnswersRead, Typed, TypeOK, client
  <2>11. ASSUME NEW c \in Calls, BrokerExecutes(c) PROVE Typed'
    BY <2>11, AnswerKeepsTypes DEF BrokerExecutes, Typed, TypeOK, client
  <2>12. ASSUME NEW c \in Calls, BrokerRefuses(c) PROVE Typed'
    BY <2>12, AnswerKeepsTypes DEF BrokerRefuses, Typed, TypeOK, client
  <2>13. CASE ToggleKillSwitch
    BY <2>13 DEF ToggleKillSwitch, Typed, TypeOK, client
  <2>14. CASE UNCHANGED vars
    BY <2>14 DEF Typed, TypeOK, vars
  <2>15. QED
    BY <2>1, <2>2, <2>3, <2>4, <2>5, <2>6, <2>7, <2>8, <2>9, <2>10, <2>11,
       <2>12, <2>13, <2>14 DEF Next, CallStep
<1>3. Typed => TypeOK
  BY DEF Typed
<1>4. QED
  BY <1>1, <1>2, <1>3, PTL DEF Spec
-----------------------------------------------------------------------------
(* The inductive invariant.  A write is on its way, or applied, at most once  *)
(* because a task leaves "sent" for another send only when nothing of it is   *)
(* left anywhere: from the read stage, or on a 401, which the broker sends    *)
(* only for a write it has not applied.                                      *)
Unsent(c) == inflight[c] = 0 /\ executed[c] = 0

Quiet(c) == pc[c] \notin {"sent", "done"} \/ stage[c] = "read" => Unsent(c)

\* What a reply to a write says of the write.
ReplyTells(c) ==
  stage[c] = "write" /\ reply[c] # NoReply =>
    /\ inflight[c] = 0
    /\ Definite(reply[c]) => executed[c] = 0
    /\ reply[c].body = "good" => executed[c] = 1

Settled(c) ==
  /\ outcome[c] # "pending" <=> pc[c] = "done"
  /\ reply[c] # NoReply => pc[c] = "sent"
  /\ outcome[c] = "acked" => executed[c] = 1 /\ inflight[c] = 0

\* What the preflight finds out about the order that is asked for.
MayWrite(c) == Owner[Target[c]] = Account[c] \/ Target[c] \in Nameless

Owned(c) == stage[c] = "write" /\ Kind[c] \in {"replace", "cancel"}
              => MayWrite(c)

WriteInv == \A c \in Calls : /\ inflight[c] + executed[c] <= 1
                             /\ Quiet(c) /\ ReplyTells(c) /\ Settled(c) /\ Owned(c)

(* NoReply is none of the replies a broker can send. *)
LEMMA NoReplyIsNone == NoReply \notin Replies
BY RepliesAssumption DEF NoReply, PossibleReplies, Statuses, Bodies

(* A call that ends without confirming keeps the invariant. *)
LEMMA FinishKeepsInv ==
  ASSUME TypeOK, WriteInv, NEW c \in Calls, NEW result \in Outcomes \ {"pending"},
         Finish(c, result), UNCHANGED <<inflight, executed, kill>>,
         result = "acked" => executed[c] = 1 /\ inflight[c] = 0
  PROVE  WriteInv'
BY DEF TypeOK, WriteInv, Finish, Quiet, ReplyTells, Settled, Owned, Unsent,
       Outcomes

(* A call that goes on to another attempt does so with nothing sent. *)
LEMMA GotoKeepsInv ==
  ASSUME TypeOK, WriteInv, NEW c \in Calls, NEW label \in Running \ {"sent"},
         Goto(c, label), UNCHANGED <<inflight, executed, kill>>,
         Unsent(c), pc[c] # "done"
  PROVE  WriteInv'
BY DEF TypeOK, WriteInv, Goto, Quiet, ReplyTells, Settled, Owned, Unsent,
       Running

(* A write is entered with nothing sent, for an order of the account. *)
LEMMA EnterWriteKeepsInv ==
  ASSUME TypeOK, WriteInv, NEW c \in Calls, EnterWrite(c),
         UNCHANGED <<inflight, executed, kill>>, Unsent(c), pc[c] # "done",
         Kind[c] \in {"replace", "cancel"} => MayWrite(c)
  PROVE  WriteInv'
BY DEF TypeOK, WriteInv, EnterWrite, Quiet, ReplyTells, Settled, Owned, Unsent

(* The preflight accepts only rows of an order that belongs to the account,   *)
(* or rows that name none.                                                   *)
LEMMA BelongsMeansOwned ==
  ASSUME NEW c \in Calls, NEW rows \in SUBSET ListedRows, Belongs(c, rows)
  PROVE  MayWrite(c)
BY AccountAssumption DEF ListedRows, Belongs, MayWrite

LEMMA DeliverKeepsInv ==
  ASSUME TypeOK, WriteInv, NEW c \in Calls, Deliver(c) PROVE WriteInv'
<1> USE DEF Outcomes
<1>1. CASE ReadBroken(c)
  BY <1>1, FinishKeepsInv DEF ReadBroken
<1>2. CASE ReadUnauthorized(c)
  <2>1. Unsent(c) /\ pc[c] # "done"
    BY <1>2 DEF ReadUnauthorized, Answered, WriteInv, ReplyTells, Quiet, Unsent,
                Definite, TypeOK
  <2>2. QED
    BY <1>2, <2>1, GotoKeepsInv DEF ReadUnauthorized, Running
<1>3. CASE ReadNotObject(c)
  BY <1>3, FinishKeepsInv DEF ReadNotObject
<1>4. CASE ReadError(c)
  <2>1. CASE Finish(c, "reconcile") \/ Finish(c, "failed")
    BY <1>4, <2>1, FinishKeepsInv DEF ReadError
  <2>2. CASE RetrySafe(c) /\ Goto(c, "sleep")
    BY <1>4, <2>2, GotoKeepsInv
       DEF ReadError, Answered, RetrySafe, WriteInv, Quiet, Running
  <2>3. QED
    BY <1>4, <2>1, <2>2 DEF ReadError
<1>5. CASE ReadObject(c)
  <2>1. CASE Finish(c, "failed") \/ Finish(c, "returned")
    BY <1>5, <2>1, FinishKeepsInv DEF ReadObject
  <2>2. CASE \E rows \in SUBSET ListedRows : Belongs(c, rows) /\ EnterWrite(c)
    BY <1>5, <2>2, BelongsMeansOwned, EnterWriteKeepsInv
       DEF ReadObject, Answered, RetrySafe, WriteInv, Quiet
  <2>3. QED
    BY <1>5, <2>1, <2>2 DEF ReadObject
<1>6. CASE ReadAck(c)
  <2>1. reply[c].body = "good" => executed[c] = 1 /\ inflight[c] = 0
    BY <1>6 DEF ReadAck, Answered, RetrySafe, WriteInv, ReplyTells, TypeOK
  <2>2. QED
    BY <1>6, <2>1, FinishKeepsInv DEF ReadAck
<1>7. QED
  BY <1>1, <1>2, <1>3, <1>4, <1>5, <1>6 DEF Deliver

LEMMA BrokerKeepsInv ==
  ASSUME TypeOK, TypeOK', WriteInv, NEW c \in Calls,
         BrokerAnswersRead(c) \/ BrokerExecutes(c) \/ BrokerRefuses(c)
  PROVE  WriteInv'
<1> USE NoReplyIsNone DEF TypeOK, WriteInv, Quiet, ReplyTells, Settled, Owned,
                          Unsent, client, Answer
<1>1. CASE BrokerAnswersRead(c)
  BY <1>1 DEF BrokerAnswersRead, RetrySafe
<1>2. CASE BrokerExecutes(c)
  <2>1. /\ inflight[c] = 1 /\ executed[c] = 0 /\ reply[c] = NoReply
        /\ stage[c] = "write" /\ outcome[c] # "acked"
        /\ pc[c] \in {"sent", "done"}
    <3>1. inflight[c] > 0 /\ inflight[c] \in Nat /\ executed[c] \in Nat
      BY <1>2 DEF BrokerExecutes
    <3>2. /\ inflight[c] + executed[c] <= 1
          /\ Quiet(c) /\ ReplyTells(c) /\ Settled(c)
      OBVIOUS
    <3>3. inflight[c] = 1 /\ executed[c] = 0
      BY <3>1, <3>2
    <3>4. stage[c] = "write" /\ pc[c] \in {"sent", "done"}
      BY <3>2, <3>3
    <3>5. QED
      BY <3>2, <3>3, <3>4
  <2>2. /\ inflight'[c] = 0 /\ executed'[c] = 1
        /\ \A d \in Calls \ {c} : /\ inflight'[d] = inflight[d]
                                 /\ executed'[d] = executed[d]
                                 /\ reply'[d] = reply[d]
    BY <1>2, <2>1 DEF BrokerExecutes
  <2>3. reply'[c] # NoReply => ~Definite(reply'[c]) /\ pc[c] = "sent"
    BY <1>2, <2>1 DEF BrokerExecutes
  <2>4. UNCHANGED client
    BY <1>2 DEF BrokerExecutes
  <2>5. \A d \in Calls : Owned(d)'
    BY <2>4 DEF MayWrite
  <2>6. ASSUME NEW d \in Calls
        PROVE  inflight'[d] + executed'[d] <= 1 /\ Quiet(d)' /\ ReplyTells(d)' /\ Settled(d)'
    <3>1. CASE d = c
      BY <2>1, <2>2, <2>3, <2>4, <3>1
    <3>2. CASE d # c
      BY <2>2, <2>4, <3>2
    <3>3. QED
      BY <3>1, <3>2
  <2>7. QED
    BY <2>5, <2>6
<1>3. CASE BrokerRefuses(c)
  <2>1. /\ inflight[c] = 1 /\ executed[c] = 0 /\ reply[c] = NoReply
        /\ stage[c] = "write" /\ pc[c] \in {"sent", "done"}
    <3>1. inflight[c] > 0 /\ inflight[c] \in Nat /\ executed[c] \in Nat
      BY <1>3 DEF BrokerRefuses
    <3>2. /\ inflight[c] + executed[c] <= 1
          /\ Quiet(c) /\ ReplyTells(c) /\ Settled(c)
      OBVIOUS
    <3>3. inflight[c] = 1 /\ executed[c] = 0
      BY <3>1, <3>2
    <3>4. stage[c] = "write" /\ pc[c] \in {"sent", "done"}
      BY <3>2, <3>3
    <3>5. QED
      BY <3>2, <3>3, <3>4
  <2>2. /\ inflight'[c] = 0 /\ executed'[c] = 0
        /\ \A d \in Calls \ {c} : /\ inflight'[d] = inflight[d]
                                 /\ executed'[d] = executed[d]
                                 /\ reply'[d] = reply[d]
    BY <1>3, <2>1 DEF BrokerRefuses
  <2>3. reply'[c] # NoReply => reply'[c].body # "good" /\ pc[c] = "sent"
    BY <1>3, <2>1 DEF BrokerRefuses
  <2>4. UNCHANGED client
    BY <1>3 DEF BrokerRefuses
  <2>5. \A d \in Calls : Owned(d)'
    BY <2>4 DEF MayWrite
  <2>6. ASSUME NEW d \in Calls
        PROVE  inflight'[d] + executed'[d] <= 1 /\ Quiet(d)' /\ ReplyTells(d)' /\ Settled(d)'
    <3>1. CASE d = c
      BY <2>1, <2>2, <2>3, <2>4, <3>1
    <3>2. CASE d # c
      BY <2>2, <2>4, <3>2
    <3>3. QED
      BY <3>1, <3>2
  <2>7. QED
    BY <2>5, <2>6
<1>4. QED
  BY <1>1, <1>2, <1>3

LEMMA InvInductive == TypeOK /\ TypeOK' /\ WriteInv /\ [Next]_vars => WriteInv'
<1> SUFFICES ASSUME TypeOK, TypeOK', WriteInv, [Next]_vars PROVE WriteInv'
  OBVIOUS
<1>1. ASSUME NEW c \in Calls, RefuseLocally(c) PROVE WriteInv'
  BY <1>1, FinishKeepsInv DEF RefuseLocally, Outcomes
<1>2. ASSUME NEW c \in Calls, Start(c) PROVE WriteInv'
  <2>1. Unsent(c) /\ pc[c] # "done"
    BY <1>2 DEF Start, WriteInv, Quiet
  <2>2. QED
    BY <1>2, <2>1, EnterWriteKeepsInv, GotoKeepsInv DEF Start, Running
<1>3. ASSUME NEW c \in Calls, Send(c) PROVE WriteInv'
  BY <1>3 DEF Send, RetrySafe, TypeOK, WriteInv, Quiet, ReplyTells, Settled,
              Owned, Unsent
<1>4. ASSUME NEW c \in Calls, TokenFails(c) PROVE WriteInv'
  BY <1>4, FinishKeepsInv DEF TokenFails, Outcomes
<1>5. ASSUME NEW c \in Calls, RefreshToken(c) PROVE WriteInv'
  BY <1>5, GotoKeepsInv DEF RefreshToken, WriteInv, Quiet, Running
<1>6. ASSUME NEW c \in Calls, SendFails(c) PROVE WriteInv'
  <2>1. CASE Finish(c, "reconcile") \/ Finish(c, "failed")
    BY <1>6, <2>1, FinishKeepsInv DEF SendFails, Outcomes
  <2>2. CASE RetrySafe(c) /\ Goto(c, "sleep")
    BY <1>6, <2>2, GotoKeepsInv DEF SendFails, RetrySafe, WriteInv, Quiet, Running
  <2>3. QED
    BY <1>6, <2>1, <2>2 DEF SendFails
<1>7. ASSUME NEW c \in Calls, Wake(c) PROVE WriteInv'
  BY <1>7 DEF Wake, TypeOK, WriteInv, Quiet, ReplyTells, Settled, Owned, Unsent
<1>8. ASSUME NEW c \in Calls, Deliver(c) PROVE WriteInv'
  BY <1>8, DeliverKeepsInv
<1>9. ASSUME NEW c \in Calls, CancelTask(c) PROVE WriteInv'
  BY <1>9, FinishKeepsInv DEF CancelTask, Outcomes
<1>10. ASSUME NEW c \in Calls,
              BrokerAnswersRead(c) \/ BrokerExecutes(c) \/ BrokerRefuses(c)
       PROVE  WriteInv'
  BY <1>10, BrokerKeepsInv
<1>11. CASE ToggleKillSwitch
  BY <1>11 DEF ToggleKillSwitch, client, WriteInv, Quiet, ReplyTells, Settled,
               Owned, Unsent
<1>12. CASE UNCHANGED vars
  BY <1>12 DEF vars, WriteInv, Quiet, ReplyTells, Settled, Owned, Unsent
<1>13. QED
  BY <1>1, <1>2, <1>3, <1>4, <1>5, <1>6, <1>7, <1>8, <1>9, <1>10, <1>11, <1>12
     DEF Next, CallStep

LEMMA Invariance == Spec => []WriteInv
<1>1. Init => WriteInv
  <2> SUFFICES ASSUME Init, NEW c \in Calls
               PROVE  /\ inflight[c] + executed[c] <= 1
                      /\ Quiet(c) /\ ReplyTells(c) /\ Settled(c) /\ Owned(c)
    BY DEF WriteInv
  <2>1. /\ pc[c] = "idle" /\ stage[c] = "read" /\ outcome[c] = "pending"
        /\ inflight[c] = 0 /\ executed[c] = 0 /\ reply[c] = NoReply
    BY DEF Init
  <2>2. QED
    BY <2>1 DEF Quiet, ReplyTells, Settled, Owned, Unsent
<1>2. QED
  BY <1>1, InvInductive, TypeCorrect, PTL DEF Spec

(* An order write is applied at most once (post_, put_, delete_order_write). *)
THEOREM AtMostOnce == Spec => []WriteAtMostOnce
<1>1. TypeOK /\ WriteInv => WriteAtMostOnce
  <2> SUFFICES ASSUME TypeOK, WriteInv, NEW c \in Calls PROVE executed[c] <= 1
    BY DEF WriteAtMostOnce
  <2>1. inflight[c] \in Nat /\ executed[c] \in Nat
    BY DEF TypeOK
  <2>2. inflight[c] + executed[c] <= 1
    BY DEF WriteInv
  <2>3. QED
    BY <2>1, <2>2
<1>2. QED
  BY <1>1, TypeCorrect, Invariance, PTL

(* A trade that needs no reconciliation stands for an applied order. *)
THEOREM ConfirmedMeansApplied == Spec => []NoFalseConfirmation
<1>1. WriteInv => NoFalseConfirmation
  BY DEF WriteInv, Settled, NoFalseConfirmation
<1>2. QED
  BY <1>1, Invariance, PTL

(* replace_order and cancel_order write only to orders of their account, and  *)
(* to those the broker lists without one.                                    *)
THEOREM WritesStayInAccount == Spec => []AccountScopedWrites
<1>1. TypeOK /\ WriteInv => AccountScopedWrites
  <2> SUFFICES ASSUME TypeOK, WriteInv, NEW c \in Calls,
                      Kind[c] \in {"replace", "cancel"},
                      inflight[c] + executed[c] > 0
               PROVE  MayWrite(c)
    BY DEF AccountScopedWrites, MayWrite
  <2>1. stage[c] = "write"
    BY DEF TypeOK, WriteInv, Quiet, Unsent
  <2>2. QED
    BY <2>1 DEF WriteInv, Owned
<1>2. QED
  BY <1>1, TypeCorrect, Invariance, PTL
-----------------------------------------------------------------------------
(* With the replies the client anticipates, every branch that reports a       *)
(* failure is one in which the broker has not applied the write.             *)
FinishesHonestly(c) ==
  pc[c] # "done" /\ \E result \in Outcomes \ {"pending"} :
    /\ Finish(c, result)
    /\ result = "failed" => Unsent(c)
    /\ result = "acked" => executed[c] = 1

\* The moves of a task that neither end it nor touch the order.
MovesOn(c) == UNCHANGED outcome /\ UNCHANGED <<inflight, executed>>

(* An answer a task reads either ends it honestly or moves it on. *)
LEMMA DeliverIsHonest ==
  ASSUME Replies \subseteq AnticipatedReplies,
         TypeOK, WriteInv, NEW c \in Calls, Deliver(c)
  PROVE  MovesOn(c) \/ (FinishesHonestly(c) /\ UNCHANGED <<inflight, executed>>)
<1> USE DEF Outcomes
<1>1. Answered(c) /\ pc[c] # "done" /\ reply[c] \in AnticipatedReplies
  BY DEF Deliver, ReadBroken, ReadUnauthorized, ReadNotObject, ReadError,
         ReadObject, ReadAck, Answered, TypeOK
<1>2. RetrySafe(c) => Unsent(c)
  BY DEF RetrySafe, WriteInv, Quiet
<1>3. ASSUME ~RetrySafe(c), Definite(reply[c]) PROVE Unsent(c)
  BY <1>1, <1>3 DEF RetrySafe, WriteInv, ReplyTells, Unsent, TypeOK, Answered
<1>4. CASE ReadBroken(c)
  BY <1>1, <1>4 DEF ReadBroken, AnticipatedReplies
<1>5. CASE ReadUnauthorized(c)
  BY <1>5 DEF ReadUnauthorized, Goto, MovesOn
<1>6. CASE ReadNotObject(c)
  BY <1>1, <1>2, <1>6 DEF ReadNotObject, FinishesHonestly
<1>7. CASE ReadError(c)
  <2>1. reply[c].status \notin AmbiguousWriteStatuses => Definite(reply[c])
    BY <1>1, <1>7 DEF ReadError, IsSuccess, AmbiguousWriteStatuses, Definite,
                      AnticipatedReplies, PossibleReplies, Statuses
  <2>2. CASE Finish(c, "failed")
    BY <1>1, <1>2, <1>3, <1>7, <2>1, <2>2 DEF ReadError, FinishesHonestly
  <2>3. CASE Finish(c, "reconcile") \/ Goto(c, "sleep")
    BY <1>1, <1>7, <2>3 DEF ReadError, FinishesHonestly, Goto, MovesOn
  <2>4. QED
    BY <1>7, <2>2, <2>3 DEF ReadError
<1>8. CASE ReadObject(c)
  <2>1. CASE Finish(c, "failed") \/ Finish(c, "returned")
    BY <1>1, <1>2, <1>8, <2>1 DEF ReadObject, FinishesHonestly
  <2>2. CASE EnterWrite(c)
    BY <1>8, <2>2 DEF ReadObject, EnterWrite, MovesOn
  <2>3. QED
    BY <1>8, <2>1, <2>2 DEF ReadObject
<1>9. CASE ReadAck(c)
  <2>1. reply[c].body = "good" => executed[c] = 1
    BY <1>1, <1>9 DEF ReadAck, Answered, RetrySafe, WriteInv, ReplyTells, TypeOK
  <2>2. reply[c].body # "invalid"
    BY <1>1 DEF AnticipatedReplies
  <2>3. QED
    BY <1>1, <1>9, <2>1, <2>2 DEF ReadAck, FinishesHonestly
<1>10. QED
  BY <1>4, <1>5, <1>6, <1>7, <1>8, <1>9 DEF Deliver

(* The three kinds of step there are: a task moves on, a call ends honestly,  *)
(* or the broker takes a write off the wire, applied or not.                  *)
LEMMA StepsAreHonest ==
  ASSUME Replies \subseteq AnticipatedReplies, TypeOK, WriteInv, [Next]_vars
  PROVE  \/ UNCHANGED <<outcome, executed, inflight>>
         \/ \E c \in Calls :
              \/ FinishesHonestly(c) /\ UNCHANGED <<inflight, executed>>
              \/ Send(c)
              \/ BrokerExecutes(c)
              \/ BrokerRefuses(c)
<1> USE DEF Outcomes
<1>1. ASSUME NEW c \in Calls, RefuseLocally(c)
      PROVE  FinishesHonestly(c) /\ UNCHANGED <<inflight, executed>>
  BY <1>1 DEF RefuseLocally, FinishesHonestly, WriteInv, Quiet
<1>2. ASSUME NEW c \in Calls, Start(c) PROVE MovesOn(c)
  BY <1>2 DEF Start, EnterWrite, Goto, MovesOn
<1>3. ASSUME NEW c \in Calls, TokenFails(c)
      PROVE  FinishesHonestly(c) /\ UNCHANGED <<inflight, executed>>
  BY <1>3 DEF TokenFails, FinishesHonestly, WriteInv, Quiet
<1>4. ASSUME NEW c \in Calls, RefreshToken(c) \/ Wake(c) PROVE MovesOn(c)
  BY <1>4 DEF RefreshToken, Wake, Goto, MovesOn
<1>5. ASSUME NEW c \in Calls, SendFails(c)
      PROVE  MovesOn(c) \/ (FinishesHonestly(c) /\ UNCHANGED <<inflight, executed>>)
  <2>1. CASE Goto(c, "sleep")
    BY <1>5, <2>1 DEF SendFails, Goto, MovesOn
  <2>2. CASE ~RetrySafe(c) /\ Finish(c, "reconcile")
    BY <1>5, <2>2 DEF SendFails, FinishesHonestly
  <2>3. CASE RetrySafe(c) /\ Finish(c, "failed")
    BY <1>5, <2>3 DEF SendFails, FinishesHonestly, RetrySafe, WriteInv, Quiet
  <2>4. QED
    BY <1>5, <2>1, <2>2, <2>3 DEF SendFails
<1>6. ASSUME NEW c \in Calls, CancelTask(c)
      PROVE  FinishesHonestly(c) /\ UNCHANGED <<inflight, executed>>
  BY <1>6 DEF CancelTask, Running, FinishesHonestly
<1>7. ASSUME NEW c \in Calls, BrokerAnswersRead(c)
      PROVE  UNCHANGED <<outcome, executed, inflight>>
  BY <1>7 DEF BrokerAnswersRead, client
<1>8. ToggleKillSwitch \/ UNCHANGED vars => UNCHANGED <<outcome, executed, inflight>>
  BY DEF ToggleKillSwitch, vars, client
<1>9. QED
  BY <1>1, <1>2, <1>3, <1>4, <1>5, <1>6, <1>7, <1>8, DeliverIsHonest
     DEF Next, CallStep, MovesOn

(* With anticipated replies an error that is not AmbiguousOrderState means    *)
(* that the order is not applied and will not be.                            *)
THEOREM FailedMeansNotApplied ==
  ASSUME Replies \subseteq AnticipatedReplies
  PROVE  Spec => []NoFalseFailure
<1>1. Init => NoFalseFailure
  BY DEF Init, NoFalseFailure
<1>2. TypeOK /\ WriteInv /\ NoFalseFailure /\ [Next]_vars => NoFalseFailure'
  <2> SUFFICES ASSUME TypeOK, WriteInv, NoFalseFailure, [Next]_vars
               PROVE  NoFalseFailure'
    OBVIOUS
  <2>1. CASE UNCHANGED <<outcome, executed, inflight>>
    BY <2>1 DEF NoFalseFailure
  <2>2. ASSUME NEW c \in Calls,
               FinishesHonestly(c) /\ UNCHANGED <<inflight, executed>>
        PROVE  NoFalseFailure'
    BY <2>2 DEF FinishesHonestly, Finish, Unsent, NoFalseFailure, TypeOK
  <2>3. ASSUME NEW c \in Calls, Send(c) PROVE NoFalseFailure'
    BY <2>3 DEF Send, NoFalseFailure, WriteInv, Settled, TypeOK
  <2>4. ASSUME NEW c \in Calls, BrokerExecutes(c) \/ BrokerRefuses(c)
        PROVE  NoFalseFailure'
    <3>1. outcome[c] # "failed"
      BY <2>4 DEF BrokerExecutes, BrokerRefuses, NoFalseFailure, TypeOK
    <3>2. QED
      BY <2>4, <3>1 DEF BrokerExecutes, BrokerRefuses, NoFalseFailure, TypeOK,
                        client
  <2>5. QED
    BY <2>1, <2>2, <2>3, <2>4, StepsAreHonest
<1>3. QED
  BY <1>1, <1>2, TypeCorrect, Invariance, PTL DEF Spec

(* The client implements OrderSubmission: each step is one of its actions on  *)
(* the order writes, or none.                                                *)
THEOREM ImplementsSubmission ==
  ASSUME Replies \subseteq AnticipatedReplies
  PROVE  Spec => KeepsPromise
<1> USE DEF WriteCalls, Promise
<1>1. Init => Submission!Init
  BY DEF Init, Submission!Init
<1>2. TypeOK /\ WriteInv /\ NoFalseFailure /\ [Next]_vars
        => [Submission!Next]_(Submission!vars)
  <2> SUFFICES ASSUME TypeOK, WriteInv, NoFalseFailure, [Next]_vars
               PROVE  Submission!Next \/ UNCHANGED Submission!vars
    OBVIOUS
  <2>1. CASE UNCHANGED <<outcome, executed>>
    BY <2>1 DEF Submission!vars
  <2>2. ASSUME NEW c \in Calls,
               FinishesHonestly(c) /\ UNCHANGED <<inflight, executed>>
        PROVE  Submission!Next \/ UNCHANGED Submission!vars
    <3>1. PICK result \in Outcomes \ {"pending"} :
            /\ Finish(c, result)
            /\ result = "failed" => Unsent(c)
            /\ result = "acked" => executed[c] = 1
      BY <2>2 DEF FinishesHonestly
    <3>2. outcome[c] = "pending"
      BY <2>2 DEF FinishesHonestly, WriteInv, Settled
    <3>3. outcome' = [outcome EXCEPT ![c] = result]
      BY <3>1 DEF Finish
    <3>4. CASE c \notin WriteCalls
      BY <2>2, <3>3, <3>4 DEF Submission!vars, TypeOK
    <3>5. CASE c \in WriteCalls
      <4>1. UNCHANGED executed
        BY <2>2
      <4>2. CASE result = "acked"
        <5>1. Submission!Confirm(c)
          BY <3>1, <3>2, <3>3, <3>5, <4>1, <4>2
             DEF Submission!Confirm, Submission!Resolve, TypeOK
        <5>2. QED
          BY <3>5, <5>1 DEF Submission!Next
      <4>3. CASE result = "failed"
        <5>1. Submission!Fail(c)
          BY <3>1, <3>2, <3>3, <3>5, <4>1, <4>3
             DEF Submission!Fail, Submission!Resolve, Unsent, TypeOK
        <5>2. QED
          BY <3>5, <5>1 DEF Submission!Next
      <4>4. CASE result \in {"reconcile", "returned", "cancelled"}
        <5>1. Submission!Doubt(c)
          BY <3>1, <3>2, <3>3, <3>5, <4>1, <4>4
             DEF Submission!Doubt, Submission!Resolve, TypeOK
        <5>2. QED
          BY <3>5, <5>1 DEF Submission!Next
      <4>5. QED
        BY <3>1, <4>2, <4>3, <4>4 DEF Outcomes
    <3>6. QED
      BY <3>4, <3>5
  <2>3. ASSUME NEW c \in Calls, Send(c) \/ BrokerRefuses(c)
        PROVE  UNCHANGED <<outcome, executed>>
    BY <2>3 DEF Send, BrokerRefuses, client
  <2>4. ASSUME NEW c \in Calls, BrokerExecutes(c)
        PROVE  Submission!Next \/ UNCHANGED Submission!vars
    <3>1. /\ executed[c] = 0 /\ inflight[c] > 0
          /\ outcome[c] \notin {"acked", "failed"}
      BY <2>4 DEF BrokerExecutes, TypeOK, WriteInv, Settled, NoFalseFailure
    <3>2. UNCHANGED outcome /\ executed' = [executed EXCEPT ![c] = 1]
      BY <2>4, <3>1 DEF BrokerExecutes, client, TypeOK
    <3>3. CASE c \in WriteCalls
      BY <3>1, <3>2, <3>3 DEF Submission!Next, Submission!Execute, TypeOK, Outcomes
    <3>4. CASE c \notin WriteCalls
      BY <3>2, <3>4 DEF Submission!vars, TypeOK
    <3>5. QED
      BY <3>3, <3>4
  <2>5. QED
    BY <2>1, <2>2, <2>3, <2>4, StepsAreHonest
<1>3. QED
  BY <1>1, <1>2, TypeCorrect, Invariance, FailedMeansNotApplied, PTL
     DEF Spec, KeepsPromise, Submission!Spec
-----------------------------------------------------------------------------
(* How often a request is sent.                                              *)

\* What has been sent, with what is about to be, is paid by the attempts and
\* the one refresh; a write has one attempt.
Budget(c) ==
  /\ sends[c] + (IF pc[c] \in {"token", "refresh"} THEN 1 ELSE 0)
       <= attempt[c] + (IF refreshed[c] = TRUE THEN 1 ELSE 0)
  /\ pc[c] = "idle" => sends[c] = 0
  /\ stage[c] = "write" => attempt[c] = 1 /\ pc[c] # "sleep"

LEMMA FinishKeepsBudget ==
  ASSUME TypeOK, NEW c \in Calls, NEW result, Finish(c, result), Budget(c)
  PROVE  Budget(c)'
BY DEF TypeOK, Finish, Budget

LEMMA EnterWriteHasBudget ==
  ASSUME TypeOK, NEW c \in Calls, EnterWrite(c)
  PROVE  Budget(c)'
BY DEF TypeOK, EnterWrite, Budget

\* Every action leaves each call within its budget.
LEMMA BudgetStep ==
  ASSUME TypeOK, NEW c \in Calls, Budget(c),
         \/ RefuseLocally(c) \/ Start(c) \/ CallStep(c) \/ CancelTask(c)
         \/ BrokerAnswersRead(c) \/ BrokerExecutes(c) \/ BrokerRefuses(c)
  PROVE  Budget(c)'
<1>1. ASSUME NEW result, Finish(c, result)
      PROVE  Budget(c)'
  BY <1>1, FinishKeepsBudget
<1>2. CASE Start(c)
  <2>1. CASE Kind[c] = "place"
    BY <1>2, <2>1, EnterWriteHasBudget DEF Start
  <2>2. CASE Kind[c] # "place"
    BY <1>2, <2>2 DEF Start, Goto, TypeOK, Budget
  <2>3. QED
    BY <2>1, <2>2
<1>3. CASE Send(c) \/ RefreshToken(c) \/ Wake(c)
  BY <1>3 DEF Send, RefreshToken, Wake, Goto, TypeOK, Budget
<1>4. CASE SendFails(c) \/ ReadError(c)
  <2>1. CASE RetrySafe(c) /\ pc[c] = "sent" /\ Goto(c, "sleep") /\ UNCHANGED refreshed
    BY <2>1 DEF RetrySafe, Goto, TypeOK, Budget
  <2>2. QED
    BY <1>1, <1>4, <2>1 DEF SendFails, ReadError, Answered
<1>5. CASE ReadUnauthorized(c)
  BY <1>5 DEF ReadUnauthorized, Answered, Goto, TypeOK, Budget
<1>6. CASE ReadObject(c)
  BY <1>1, <1>6, EnterWriteHasBudget DEF ReadObject
<1>7. CASE RefuseLocally(c) \/ TokenFails(c) \/ ReadBroken(c) \/ ReadNotObject(c) \/ ReadAck(c) \/ CancelTask(c)
  BY <1>1, <1>7 DEF RefuseLocally, TokenFails, ReadBroken, ReadNotObject, ReadAck, CancelTask
<1>8. CASE BrokerAnswersRead(c) \/ BrokerExecutes(c) \/ BrokerRefuses(c)
  BY <1>8 DEF BrokerAnswersRead, BrokerExecutes, BrokerRefuses, client, Budget
<1>9. QED
  BY <1>2, <1>3, <1>4, <1>5, <1>6, <1>7, <1>8 DEF CallStep, Deliver

\* What an action of one call leaves of another.
LEMMA OthersBudget ==
  ASSUME TypeOK, NEW c \in Calls, NEW d \in Calls \ {c}, Budget(d),
         \/ RefuseLocally(c) \/ Start(c) \/ CallStep(c) \/ CancelTask(c)
         \/ BrokerAnswersRead(c) \/ BrokerExecutes(c) \/ BrokerRefuses(c)
  PROVE  Budget(d)'
<1>1. /\ pc'[d] = pc[d] /\ stage'[d] = stage[d] /\ attempt'[d] = attempt[d]
      /\ refreshed'[d] = refreshed[d] /\ sends'[d] = sends[d]
  BY DEF RefuseLocally, Start, CallStep, CancelTask, BrokerAnswersRead, BrokerExecutes, BrokerRefuses,
         Send, TokenFails, RefreshToken, SendFails, Wake, Deliver, ReadBroken, ReadUnauthorized,
         ReadNotObject, ReadError, ReadObject, ReadAck, Finish, Goto, EnterWrite, client, TypeOK
<1>2. QED
  BY <1>1 DEF Budget

(* A request_json call sends a read at most max_attempts times and a write   *)
(* once, and one time more after its first 401, for any number of attempts.  *)
THEOREM SendsAreBounded == Spec => []RetryBudget
<1>1. Init => \A c \in Calls : Budget(c)
  <2> SUFFICES ASSUME Init, NEW c \in Calls
               PROVE  Budget(c)
    OBVIOUS
  <2>1. /\ pc[c] = "idle" /\ stage[c] = "read" /\ attempt[c] = 1
        /\ refreshed[c] = FALSE /\ sends[c] = 0
    BY DEF Init
  <2>2. QED
    BY <2>1 DEF Budget
<1>2. TypeOK /\ (\A c \in Calls : Budget(c)) /\ [Next]_vars => (\A c \in Calls : Budget(c))'
  <2> SUFFICES ASSUME TypeOK, \A c \in Calls : Budget(c), [Next]_vars, NEW d \in Calls
               PROVE  Budget(d)'
    OBVIOUS
  <2>1. ASSUME NEW c \in Calls,
               \/ RefuseLocally(c) \/ Start(c) \/ CallStep(c) \/ CancelTask(c)
               \/ BrokerAnswersRead(c) \/ BrokerExecutes(c) \/ BrokerRefuses(c)
        PROVE  Budget(d)'
    BY <2>1, BudgetStep, OthersBudget
  <2>2. CASE ToggleKillSwitch \/ UNCHANGED vars
    BY <2>2 DEF ToggleKillSwitch, vars, client, Budget
  <2>3. QED
    BY <2>1, <2>2 DEF Next
<1>3. TypeOK /\ (\A c \in Calls : Budget(c)) => RetryBudget
  <2> SUFFICES ASSUME TypeOK, NEW c \in Calls, Budget(c)
               PROVE  sends[c] <= (IF RetrySafe(c) THEN MaxAttempts ELSE 1) + 1
    BY DEF RetryBudget
  <2>1. /\ sends[c] \in Nat /\ attempt[c] \in 1..MaxAttempts /\ MaxAttempts \in Nat
        /\ stage[c] \in {"read", "write"}
    BY AttemptsAssumption DEF TypeOK, SendCap
  <2>2. sends[c] <= attempt[c] + 1
    BY <2>1 DEF Budget
  <2>3. QED
    BY <2>1, <2>2 DEF Budget, RetrySafe
<1>4. QED
  BY <1>1, <1>2, <1>3, TypeCorrect, PTL DEF Spec
-----------------------------------------------------------------------------
(* How long a call can last.  What is left of it is the write it may still    *)
(* have to make, the attempts and the refresh of this request_json call, and  *)
(* where the attempt stands.                                                 *)
StageLeft(c) == IF stage[c] = "read" THEN 5 * MaxAttempts ELSE 0
PlaceLeft(c) == CASE pc[c] = "refresh" -> 4
                  [] pc[c] = "token" -> 3
                  [] pc[c] = "sent" -> 2
                  [] pc[c] = "sleep" -> 1
MostSteps == 10 * MaxAttempts + 3
Left(c) ==
  CASE pc[c] = "idle" -> MostSteps
    [] pc[c] = "done" -> 0
    [] OTHER -> StageLeft(c) + 5 * (MaxAttempts - attempt[c])
                  + (IF refreshed[c] = TRUE THEN 0 ELSE 3) + PlaceLeft(c)

LEMMA LeftIsBounded ==
  ASSUME TypeOK, NEW c \in Calls
  PROVE  /\ Left(c) \in 0..MostSteps
         /\ pc[c] # "done" => Left(c) > 0
         /\ pc[c] \in Running => Left(c) < MostSteps
<1>1. /\ attempt[c] \in 1..MaxAttempts /\ MaxAttempts \in Nat \ {0}
      /\ pc[c] \in {"idle", "done"} \cup Running
  BY AttemptsAssumption DEF TypeOK
<1>2. StageLeft(c) \in 0..5 * MaxAttempts
  BY <1>1 DEF StageLeft
<1>3. pc[c] \in Running => PlaceLeft(c) \in 1..4
  BY <1>1 DEF PlaceLeft, Running
<1>4. CASE pc[c] \in Running
  <2>1. Left(c) = StageLeft(c) + 5 * (MaxAttempts - attempt[c])
                    + (IF refreshed[c] = TRUE THEN 0 ELSE 3) + PlaceLeft(c)
    BY <1>4 DEF Left, Running
  <2>2. QED
    BY <1>1, <1>2, <1>3, <1>4, <2>1 DEF MostSteps
<1>5. CASE pc[c] \in {"idle", "done"}
  BY <1>1, <1>5 DEF Left, MostSteps, Running
<1>6. QED
  BY <1>1, <1>4, <1>5

\* The three ways on leave less to do: the call is over, the attempt goes on to
\* a place with less left, or the read stage is over.
LEMMA FinishLeavesNothing ==
  ASSUME TypeOK, NEW c \in Calls, NEW result, Finish(c, result), pc[c] # "done"
  PROVE  Left(c)' < Left(c)
<1>1. Left(c)' = 0
  BY DEF Left, Finish, TypeOK
<1>2. QED
  BY <1>1, LeftIsBounded DEF MostSteps

LEMMA EnterWriteLeavesLess ==
  ASSUME TypeOK, NEW c \in Calls, EnterWrite(c),
         pc[c] = "idle" \/ (pc[c] = "sent" /\ stage[c] = "read")
  PROVE  Left(c)' < Left(c)
<1>1. attempt[c] \in 1..MaxAttempts /\ MaxAttempts \in Nat \ {0}
  BY AttemptsAssumption DEF TypeOK
<1>2. Left(c)' = 0 + 5 * (MaxAttempts - 1) + 3 + 3
  <2>1. /\ pc'[c] = "token" /\ stage'[c] = "write" /\ attempt'[c] = 1 /\ refreshed'[c] = FALSE
    BY DEF TypeOK, EnterWrite
  <2>2. StageLeft(c)' = 0 /\ PlaceLeft(c)' = 3
    BY <2>1 DEF StageLeft, PlaceLeft
  <2>3. QED
    BY <2>1, <2>2 DEF Left
<1>3. CASE pc[c] = "idle"
  BY <1>1, <1>2, <1>3 DEF Left, MostSteps
<1>4. CASE pc[c] = "sent" /\ stage[c] = "read"
  <2>1. StageLeft(c) = 5 * MaxAttempts /\ PlaceLeft(c) = 2
    BY <1>4 DEF StageLeft, PlaceLeft
  <2>2. Left(c) = StageLeft(c) + 5 * (MaxAttempts - attempt[c])
                    + (IF refreshed[c] = TRUE THEN 0 ELSE 3) + PlaceLeft(c)
    BY <1>4 DEF Left
  <2>3. QED
    BY <1>1, <1>2, <2>1, <2>2
<1>5. QED
  BY <1>3, <1>4

\* Every step of a call takes something away.
LEMMA StepLeavesLess ==
  ASSUME TypeOK, NEW c \in Calls, CallStep(c) \/ Start(c) \/ RefuseLocally(c) \/ CancelTask(c)
  PROVE  Left(c)' < Left(c)
<1>0. /\ attempt[c] \in 1..MaxAttempts /\ MaxAttempts \in Nat
      /\ stage[c] \in {"read", "write"} /\ refreshed[c] \in BOOLEAN
  BY AttemptsAssumption DEF TypeOK
<1>1. ASSUME NEW result, Finish(c, result), pc[c] # "done"
      PROVE  Left(c)' < Left(c)
  BY <1>1, FinishLeavesNothing
<1>2. CASE RefuseLocally(c) \/ TokenFails(c) \/ ReadBroken(c) \/ ReadNotObject(c) \/ ReadAck(c)
           \/ CancelTask(c)
  BY <1>1, <1>2
     DEF RefuseLocally, TokenFails, ReadBroken, ReadNotObject, ReadAck, CancelTask, Answered, Running
<1>3. CASE Start(c) /\ Kind[c] # "place"
  <2>1. /\ pc[c] = "idle" /\ pc'[c] = "token"
        /\ UNCHANGED <<stage, attempt, refreshed>>
    BY <1>3 DEF Start, Goto, TypeOK
  <2>2. /\ StageLeft(c)' \in 0..5 * MaxAttempts /\ PlaceLeft(c)' = 3
        /\ Left(c)' = StageLeft(c)' + 5 * (MaxAttempts - attempt[c])
                        + (IF refreshed[c] = TRUE THEN 0 ELSE 3) + PlaceLeft(c)'
    BY <1>0, <2>1 DEF Left, StageLeft, PlaceLeft
  <2>3. Left(c) = MostSteps
    BY <2>1 DEF Left
  <2>4. QED
    BY <1>0, <2>2, <2>3 DEF MostSteps
<1>4. CASE Start(c) /\ Kind[c] = "place"
  BY <1>4, EnterWriteLeavesLess DEF Start
<1>5. CASE Send(c) \/ RefreshToken(c)
  BY <1>0, <1>5 DEF Send, RefreshToken, Goto, Left, StageLeft, PlaceLeft, TypeOK
<1>6. CASE Wake(c)
  BY <1>0, <1>6 DEF Wake, Left, StageLeft, PlaceLeft, TypeOK
<1>7. CASE SendFails(c) \/ ReadError(c)
  <2>1. CASE pc[c] = "sent" /\ Goto(c, "sleep") /\ UNCHANGED refreshed
    BY <1>0, <2>1 DEF Goto, Left, StageLeft, PlaceLeft, TypeOK
  <2>2. QED
    BY <1>1, <1>7, <2>1 DEF SendFails, ReadError, Answered
<1>8. CASE ReadUnauthorized(c)
  BY <1>0, <1>8 DEF ReadUnauthorized, Answered, Goto, Left, StageLeft, PlaceLeft, TypeOK
<1>9. CASE ReadObject(c)
  BY <1>1, <1>9, EnterWriteLeavesLess DEF ReadObject, Answered, RetrySafe, Running
<1>10. QED
  BY <1>2, <1>3, <1>4, <1>5, <1>6, <1>7, <1>8, <1>9 DEF CallStep, Deliver

\* What the step of one call, or of the broker for it, leaves of another.
LEMMA OthersStand ==
  ASSUME TypeOK, NEW c \in Calls, NEW d \in Calls \ {c},
         \/ RefuseLocally(c) \/ Start(c) \/ CallStep(c) \/ CancelTask(c)
         \/ BrokerAnswersRead(c) \/ BrokerExecutes(c) \/ BrokerRefuses(c)
  PROVE  /\ pc'[d] = pc[d] /\ stage'[d] = stage[d] /\ attempt'[d] = attempt[d]
         /\ refreshed'[d] = refreshed[d] /\ outcome'[d] = outcome[d]
BY DEF RefuseLocally, Start, CallStep, CancelTask, BrokerAnswersRead, BrokerExecutes, BrokerRefuses,
       Send, TokenFails, RefreshToken, SendFails, Wake, Deliver, ReadBroken, ReadUnauthorized,
       ReadNotObject, ReadError, ReadObject, ReadAck, Finish, Goto, EnterWrite, client, TypeOK

\* Every step of a call takes from what is left of it, and nothing that another
\* call, the broker, the network or the operator does gives it more to do.
WearsOut(c) == /\ CallStep(c) \/ CancelTask(c) => Left(c)' < Left(c)
               /\ Left(c)' # Left(c) => Left(c)' < Left(c)

AllWearOut == \A c \in Calls : WearsOut(c)

\* A call that is not over has a step left, and no more than MostSteps.
HasStepsLeft == \A c \in Calls : /\ Left(c) \in 0..MostSteps
                                 /\ pc[c] # "done" => Left(c) > 0

LEMMA WearsOutStep ==
  ASSUME TypeOK, [Next]_vars, NEW d \in Calls
  PROVE  WearsOut(d)
<1>1. CASE CallStep(d) \/ Start(d) \/ RefuseLocally(d) \/ CancelTask(d)
  BY <1>1, StepLeavesLess DEF WearsOut
<1>2. CASE /\ ~(CallStep(d) \/ CancelTask(d))
           /\ pc'[d] = pc[d] /\ stage'[d] = stage[d] /\ attempt'[d] = attempt[d]
           /\ refreshed'[d] = refreshed[d]
  <2>1. Left(d)' = Left(d)
    BY <1>2 DEF Left, StageLeft, PlaceLeft
  <2>2. QED
    BY <1>2, <2>1 DEF WearsOut
<1>3. CASE BrokerAnswersRead(d) \/ BrokerExecutes(d) \/ BrokerRefuses(d) \/ ToggleKillSwitch \/ UNCHANGED vars
  BY <1>1, <1>2, <1>3 DEF BrokerAnswersRead, BrokerExecutes, BrokerRefuses, ToggleKillSwitch, client, vars
<1>4. ASSUME NEW c \in Calls \ {d},
             \/ RefuseLocally(c) \/ Start(c) \/ CallStep(c) \/ CancelTask(c)
             \/ BrokerAnswersRead(c) \/ BrokerExecutes(c) \/ BrokerRefuses(c)
      PROVE  WearsOut(d)
  BY <1>1, <1>2, <1>4, OthersStand
<1>5. QED
  BY <1>1, <1>3, <1>4 DEF Next

(* A call that has begun returns or raises after at most 10 * MaxAttempts + 3 *)
(* of its own steps, whatever the broker answers and however the others       *)
(* interleave: every step takes from a number that nothing raises.  What is   *)
(* left to fairness in EveryCallReturns is that the steps are taken.         *)
THEOREM CallsWearOut ==
  Spec => []HasStepsLeft /\ [][AllWearOut]_vars
<1>1. TypeOK => HasStepsLeft
  BY LeftIsBounded DEF HasStepsLeft
<1>2. TypeOK /\ [Next]_vars => [AllWearOut]_vars
  BY WearsOutStep DEF AllWearOut
<1>3. QED
  BY <1>1, <1>2, TypeCorrect, PTL DEF Spec
-----------------------------------------------------------------------------
(* What is said once.                                                        *)

\* The call is over and its order write is neither applied nor on its way.
Gone(c) == pc[c] = "done" /\ Unsent(c)

LEMMA GoneStaysGone ==
  ASSUME TypeOK, NEW d \in Calls, Gone(d), [Next]_vars
  PROVE  Gone(d)'
<1> USE DEF Gone, Unsent
<1>1. ASSUME NEW c \in Calls, BrokerExecutes(c) \/ BrokerRefuses(c)
      PROVE  Gone(d)'
  BY <1>1 DEF BrokerExecutes, BrokerRefuses, client, TypeOK
<1>2. ASSUME NEW c \in Calls, Send(c)
      PROVE  Gone(d)'
  BY <1>2 DEF Send, TypeOK
<1>3. ASSUME NEW c \in Calls,
             \/ RefuseLocally(c) \/ Start(c) \/ TokenFails(c) \/ RefreshToken(c) \/ SendFails(c)
             \/ Wake(c) \/ Deliver(c) \/ CancelTask(c) \/ BrokerAnswersRead(c)
      PROVE  Gone(d)'
  <2>1. UNCHANGED <<inflight, executed>>
    BY <1>3
       DEF RefuseLocally, Start, TokenFails, RefreshToken, SendFails, Wake, Deliver, ReadBroken,
           ReadUnauthorized, ReadNotObject, ReadError, ReadObject, ReadAck, CancelTask, BrokerAnswersRead
  <2>2. CASE c = d
    BY <1>3, <2>1, <2>2
       DEF RefuseLocally, Start, TokenFails, RefreshToken, SendFails, Wake, Deliver, ReadBroken,
           ReadUnauthorized, ReadNotObject, ReadError, ReadObject, ReadAck, Answered, CancelTask,
           BrokerAnswersRead, Running
  <2>3. CASE c # d
    BY <1>3, <2>1, <2>3, OthersStand DEF CallStep
  <2>4. QED
    BY <2>2, <2>3
<1>4. CASE ToggleKillSwitch \/ UNCHANGED vars
  BY <1>4 DEF ToggleKillSwitch, client, vars
<1>5. QED
  BY <1>1, <1>2, <1>3, <1>4 DEF Next, CallStep

(* An order write that is neither applied nor on its way once its call is     *)
(* over never comes to be applied.  With anticipated replies every error      *)
(* other than AmbiguousOrderState leaves the write so, for good.             *)
THEOREM FailedForGood ==
  ASSUME NEW c \in Calls
  PROVE  /\ Spec => [](Gone(c) => []Gone(c))
         /\ Replies \subseteq AnticipatedReplies =>
              (Spec => [](outcome[c] = "failed" => []Gone(c)))
<1>1. TypeOK /\ Gone(c) /\ [Next]_vars => Gone(c)'
  BY GoneStaysGone
<1>2. Spec => [](Gone(c) => []Gone(c))
  BY <1>1, TypeCorrect, PTL DEF Spec
<1>3. ASSUME Replies \subseteq AnticipatedReplies
      PROVE  Spec => [](outcome[c] = "failed" => []Gone(c))
  <2>1. WriteInv /\ NoFalseFailure => (outcome[c] = "failed" => Gone(c))
    BY DEF WriteInv, Settled, NoFalseFailure, Gone, Unsent
  <2>2. Spec => []NoFalseFailure
    BY <1>3, FailedMeansNotApplied
  <2>3. QED
    BY <1>2, <2>1, <2>2, Invariance, PTL
<1>4. QED
  BY <1>2, <1>3
=============================================================================
