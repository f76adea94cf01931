----------------------------- MODULE OrderClient -----------------------------
(***************************************************************************)
(* The life of one API call in client.py and rest.py: the local checks, the *)
(* account-scoped preflight of replace_order and cancel_order, the retry    *)
(* loop of TradeStationRestClient.request_json, and what the caller is told *)
(* about an order write.  Calls are asyncio tasks that run concurrently;    *)
(* the broker sees their requests late, or never, and its replies may get   *)
(* lost.                                                                    *)
(*                                                                         *)
(* A reply is a status with what the client can make of the body:          *)
(*   good        a JSON object the response model accepts; for a write, one *)
(*               that names the order and lists no errors                   *)
(*   incomplete  an acknowledgement without an order ID, or with Errors     *)
(*   invalid     a JSON object the response model refuses                   *)
(*   notObject   not JSON, or not an object                                 *)
(*   error       whatever comes with a status that is not 2xx               *)
(*   broken      the body cannot be read to its end and the transport raises*)
(*               something it maps to no error of its own                   *)
(***************************************************************************)
EXTENDS Integers

CONSTANTS Calls, Orders, Accounts,
          NoAccount,      \* a row of the broker that names no account
          Kind,           \* [Calls -> Kinds]: the method called
          Account,        \* [Calls -> Accounts]: its account_id argument
          Target,         \* [Calls -> Orders]: its order_id argument
          Owner,          \* [Orders -> Accounts]: the broker's records
          Nameless,       \* orders the broker may list without their account
          Replies,        \* what the broker and the network answer
          MaxAttempts     \* RetryPolicy.max_attempts

\* A "read" is any GET, and confirm_order, whose POST is retried like one.
Kinds == {"read", "place", "replace", "cancel"}
Bodies == {"good", "incomplete", "invalid", "notObject", "error", "broken"}
Statuses == 200..599

PossibleReplies ==
  {r \in [status : Statuses, body : Bodies] :
     r.status \in 200..299 <=> r.body \notin {"error", "broken"}}
  \cup [status : 200..299, body : {"broken"}]

\* The replies whose outcome request_json and the models decide on purpose.
AnticipatedReplies ==
  {r \in PossibleReplies :
     /\ r.body \notin {"invalid", "broken"}
     /\ r.status < 500 \/ r.status \in {500, 502, 503, 504}}

NoReply == [status |-> 0, body |-> "none"]

ASSUME KindAssumption == Kind \in [Calls -> Kinds]
ASSUME AccountAssumption == /\ Account \in [Calls -> Accounts]
                            /\ Target \in [Calls -> Orders]
                            /\ Owner \in [Orders -> Accounts]
                            /\ NoAccount \notin Accounts
                            /\ Nameless \subseteq Orders
ASSUME RepliesAssumption == Replies \subseteq PossibleReplies
\* The delay before the 1026th attempt is past the range of a float, and raises.
ASSUME AttemptsAssumption == MaxAttempts \in Nat \ {0} /\ MaxAttempts <= 1025

VARIABLES pc,        \* where the task of the call stands
          stage,     \* request_json for a "read" or for the order "write"
          attempt,   \* request_json's attempt
          refreshed, \* request_json's refreshed_after_401
          reply,     \* the answer that has reached the client, or NoReply
          outcome,   \* what the caller has been told
          sends,     \* requests sent in this stage, saturating at SendCap
          inflight,  \* order writes on their way to the broker
          executed,  \* times the broker has applied the call's order write
          kill       \* the kill switch file exists

client == <<pc, stage, attempt, refreshed, outcome, sends>>
vars == <<pc, stage, attempt, refreshed, reply, outcome, sends, inflight,
          executed, kill>>

SendCap == MaxAttempts + 2

Running == {"token", "sent", "refresh", "sleep"}
Outcomes == {"pending", "acked", "reconcile", "returned", "failed", "cancelled"}

TypeOK ==
  /\ pc \in [Calls -> {"idle", "done"} \cup Running]
  /\ stage \in [Calls -> {"read", "write"}]
  /\ attempt \in [Calls -> 1..MaxAttempts]
  /\ refreshed \in [Calls -> BOOLEAN]
  /\ reply \in [Calls -> Replies \cup {NoReply}]
  /\ outcome \in [Calls -> Outcomes]
  /\ sends \in [Calls -> 0..SendCap]
  /\ inflight \in [Calls -> Nat]
  /\ executed \in [Calls -> Nat]
  /\ kill \in BOOLEAN

Init ==
  /\ pc = [c \in Calls |-> "idle"]
  /\ stage = [c \in Calls |-> "read"]
  /\ attempt = [c \in Calls |-> 1]
  /\ refreshed = [c \in Calls |-> FALSE]
  /\ reply = [c \in Calls |-> NoReply]
  /\ outcome = [c \in Calls |-> "pending"]
  /\ sends = [c \in Calls |-> 0]
  /\ inflight = [c \in Calls |-> 0]
  /\ executed = [c \in Calls |-> 0]
  /\ kill \in BOOLEAN

-----------------------------------------------------------------------------
\* The three classes of status request_json tells apart.
IsSuccess(r) == r.status \in 200..299
\* Mutant: 408 is taken for a refusal.
AmbiguousWithout408 == {500, 502, 503, 504}
AmbiguousWriteStatuses == {408, 500, 502, 503, 504}
IsRetryable(r) == r.status \in {408, 429, 500, 502, 503, 504}

\* A status by which the broker says that it did not apply the order.
Definite(r) == r.status \in 300..499 \ {408}

RetrySafe(c) == stage[c] = "read"

\* The call returns or raises.
Finish(c, result) ==
  /\ pc' = [pc EXCEPT ![c] = "done"]
  /\ outcome' = [outcome EXCEPT ![c] = result]
  /\ reply' = [reply EXCEPT ![c] = NoReply]
  /\ UNCHANGED <<stage, attempt, refreshed, sends>>

Goto(c, label) ==
  /\ pc' = [pc EXCEPT ![c] = label]
  /\ reply' = [reply EXCEPT ![c] = NoReply]
  /\ UNCHANGED <<stage, attempt, outcome, sends>>

\* request_json is entered for the order write itself.
EnterWrite(c) ==
  /\ pc' = [pc EXCEPT ![c] = "token"]
  /\ stage' = [stage EXCEPT ![c] = "write"]
  /\ attempt' = [attempt EXCEPT ![c] = 1]
  /\ refreshed' = [refreshed EXCEPT ![c] = FALSE]
  /\ sends' = [sends EXCEPT ![c] = 0]
  /\ reply' = [reply EXCEPT ![c] = NoReply]
  /\ UNCHANGED outcome

-----------------------------------------------------------------------------
\* Scope, capability, allowlist and order checks that need no network.
\* replace_order and place_order also look for the kill switch file.
KillSwitchRefuses(c) == Kind[c] \in {"place", "replace"} /\ kill

RefuseLocally(c) ==
  /\ pc[c] = "idle"
  /\ Finish(c, "failed")
  /\ UNCHANGED <<inflight, executed, kill>>

Start(c) ==
  /\ pc[c] = "idle"
  /\ ~KillSwitchRefuses(c)
  /\ IF Kind[c] = "place" THEN EnterWrite(c)
     ELSE Goto(c, "token") /\ UNCHANGED refreshed
  /\ UNCHANGED <<inflight, executed, kill>>

\* get_access_token answers, and the request goes out with the token.
Send(c) ==
  /\ pc[c] = "token"
  /\ pc' = [pc EXCEPT ![c] = "sent"]
  /\ sends' = [sends EXCEPT ![c] = IF @ < SendCap THEN @ + 1 ELSE @]
  /\ inflight' = [inflight EXCEPT ![c] = IF RetrySafe(c) THEN @ ELSE @ + 1]
  /\ UNCHANGED <<stage, attempt, refreshed, reply, outcome, executed, kill>>

\* The token provider raises: no token, or the refresh was refused.
TokenFails(c) ==
  /\ pc[c] \in {"token", "refresh"}
  /\ Finish(c, "failed")
  /\ UNCHANGED <<inflight, executed, kill>>

RefreshToken(c) ==
  /\ pc[c] = "refresh"
  /\ Goto(c, "token")
  /\ UNCHANGED <<refreshed, inflight, executed, kill>>

\* Mutant: an order write is retried like a read.
SendFailsRetriesWrites(c) ==
  /\ pc[c] = "sent" /\ reply[c] = NoReply
  /\ \/ attempt[c] >= MaxAttempts /\ Finish(c, IF RetrySafe(c) THEN "failed" ELSE "reconcile")
     \/ attempt[c] < MaxAttempts /\ Goto(c, "sleep") /\ UNCHANGED refreshed
  /\ UNCHANGED <<inflight, executed, kill>>

\* Mutant: a timeout is reported as a failure.
SendFailsForGood(c) ==
  /\ pc[c] = "sent" /\ reply[c] = NoReply
  /\ \/ ~(RetrySafe(c) /\ attempt[c] < MaxAttempts) /\ Finish(c, "failed")
     \/ /\ RetrySafe(c) /\ attempt[c] < MaxAttempts
        /\ Goto(c, "sleep") /\ UNCHANGED refreshed
  /\ UNCHANGED <<inflight, executed, kill>>

\* Mutant: one attempt too many.
SendFailsOffByOne(c) ==
  /\ pc[c] = "sent" /\ reply[c] = NoReply
  /\ \/ ~RetrySafe(c) /\ Finish(c, "reconcile")
     \/ RetrySafe(c) /\ attempt[c] > MaxAttempts /\ Finish(c, "failed")
     \/ /\ RetrySafe(c) /\ attempt[c] <= MaxAttempts
        /\ Goto(c, "sleep") /\ UNCHANGED refreshed
  /\ UNCHANGED <<inflight, executed, kill>>

\* NetworkTimeout or TransportError: the client stops waiting, whatever has
\* become of the request.
SendFails(c) ==
  /\ pc[c] = "sent" /\ reply[c] = NoReply
  /\ \/ ~RetrySafe(c) /\ Finish(c, "reconcile")
     \/ RetrySafe(c) /\ attempt[c] >= MaxAttempts /\ Finish(c, "failed")
     \/ /\ RetrySafe(c) /\ attempt[c] < MaxAttempts
        /\ Goto(c, "sleep") /\ UNCHANGED refreshed
  /\ UNCHANGED <<inflight, executed, kill>>

\* The backoff or Retry-After sleep ends; Retry-After is capped.
Wake(c) ==
  /\ pc[c] = "sleep"
  /\ pc' = [pc EXCEPT ![c] = "token"]
  /\ attempt' = [attempt EXCEPT ![c] = @ + 1]
  /\ UNCHANGED <<stage, refreshed, reply, outcome, sends, inflight, executed,
                 kill>>
-----------------------------------------------------------------------------
Answered(c) == pc[c] = "sent" /\ reply[c] # NoReply

\* The transport raises an exception of the HTTP library, which request_json
\* does not catch.
ReadBroken(c) ==
  /\ Answered(c) /\ reply[c].body = "broken"
  /\ Finish(c, "failed")
  /\ UNCHANGED <<inflight, executed, kill>>

\* Mutant: every 401 refreshes.
ReadUnauthorizedEachTime(c) ==
  /\ Answered(c) /\ reply[c].body # "broken" /\ reply[c].status = 401
  /\ Goto(c, "refresh")
  /\ UNCHANGED <<refreshed, inflight, executed, kill>>

\* The first 401 of a request_json call refreshes the token and sends again.
ReadUnauthorized(c) ==
  /\ Answered(c) /\ reply[c].body # "broken"
  /\ reply[c].status = 401 /\ ~refreshed[c]
  /\ Goto(c, "refresh")
  /\ refreshed' = [refreshed EXCEPT ![c] = TRUE]
  /\ UNCHANGED <<inflight, executed, kill>>

\* 2xx with a body that is not a JSON object.
ReadNotObject(c) ==
  /\ Answered(c) /\ IsSuccess(reply[c]) /\ reply[c].body = "notObject"
  /\ Finish(c, IF RetrySafe(c) THEN "failed" ELSE "reconcile")
  /\ UNCHANGED <<inflight, executed, kill>>

\* A status that is neither 2xx nor the first 401.
ReadError(c) ==
  /\ Answered(c) /\ reply[c].body # "broken" /\ ~IsSuccess(reply[c])
  /\ reply[c].status = 401 => refreshed[c]
  /\ \/ /\ ~RetrySafe(c) /\ reply[c].status \in AmbiguousWriteStatuses
        /\ Finish(c, "reconcile")
     \/ /\ ~RetrySafe(c) /\ reply[c].status \notin AmbiguousWriteStatuses
        /\ Finish(c, "failed")
     \/ /\ RetrySafe(c) /\ IsRetryable(reply[c]) /\ attempt[c] < MaxAttempts
        /\ Goto(c, "sleep") /\ UNCHANGED refreshed
     \/ /\ RetrySafe(c) /\ ~(IsRetryable(reply[c]) /\ attempt[c] < MaxAttempts)
        /\ Finish(c, "failed")
  /\ UNCHANGED <<inflight, executed, kill>>

\* The rows an order lookup may return, of whatever account: rows that name
\* the account of their order, and rows that name none.
ListedRows ==
  {row \in [order : Orders, account : Accounts \cup {NoAccount}] :
     \/ row.account = Owner[row.order]
     \/ row.account = NoAccount /\ row.order \in Nameless}

\* Mutant: the account of the row is not looked at.
BelongsByOrderOnly(c, rows) == \E row \in rows : row.order = Target[c]

\* _assert_order_belongs_to_account
Belongs(c, rows) ==
  \E row \in rows : /\ row.order = Target[c]
                    /\ row.account \in {NoAccount, Account[c]}

\* A 2xx object answers a read: the call returns it, or the preflight is
\* decided and the write begins.  A replacement is validated only now.
ReadObject(c) ==
  /\ Answered(c) /\ RetrySafe(c) /\ IsSuccess(reply[c])
  /\ reply[c].body \notin {"notObject", "broken"}
  /\ \/ reply[c].body = "invalid" /\ Finish(c, "failed")
     \/ Kind[c] = "read" /\ reply[c].body # "invalid" /\ Finish(c, "returned")
     \/ /\ Kind[c] # "read" /\ reply[c].body # "invalid"
        /\ \E rows \in SUBSET ListedRows :
             \/ Belongs(c, rows) /\ EnterWrite(c)
             \/ ~Belongs(c, rows) /\ Finish(c, "failed")
     \/ Kind[c] = "replace" /\ reply[c].body # "invalid" /\ Finish(c, "failed")
  /\ UNCHANGED <<inflight, executed, kill>>

\* Mutant: any acknowledgement is a confirmation.
ReadAckBlindly(c) ==
  /\ Answered(c) /\ ~RetrySafe(c) /\ IsSuccess(reply[c])
  /\ reply[c].body \notin {"notObject", "broken"}
  /\ \/ Kind[c] = "cancel" /\ Finish(c, "returned")
     \/ Kind[c] # "cancel" /\ Finish(c, "acked")
  /\ UNCHANGED <<inflight, executed, kill>>

\* A 2xx object answers the write.  cancel_order returns it as it is; the
\* others read it as an OrderAck, and TradeStationTrade.reconcile_required
\* tells an incomplete one from a confirmation.
ReadAck(c) ==
  /\ Answered(c) /\ ~RetrySafe(c) /\ IsSuccess(reply[c])
  /\ reply[c].body \notin {"notObject", "broken"}
  /\ \/ Kind[c] = "cancel" /\ Finish(c, "returned")
     \/ /\ Kind[c] # "cancel"
        /\ \/ reply[c].body = "good" /\ Finish(c, "acked")
           \/ reply[c].body = "invalid" /\ Finish(c, "failed")
           \/ reply[c].body = "incomplete" /\ Finish(c, "reconcile")
  /\ UNCHANGED <<inflight, executed, kill>>

Deliver(c) == \/ ReadBroken(c) \/ ReadUnauthorized(c) \/ ReadNotObject(c)
              \/ ReadError(c) \/ ReadObject(c) \/ ReadAck(c)

\* The caller cancels the task at one of its awaits.
CancelTask(c) ==
  /\ pc[c] \in Running
  /\ Finish(c, "cancelled")
  /\ UNCHANGED <<inflight, executed, kill>>

-----------------------------------------------------------------------------
\* The broker and the network.
Answer(c, r) ==
  reply' = IF pc[c] = "sent" THEN [reply EXCEPT ![c] = r] ELSE reply

BrokerAnswersRead(c) ==
  /\ pc[c] = "sent" /\ RetrySafe(c) /\ reply[c] = NoReply
  /\ \E r \in Replies : Answer(c, r)
  /\ UNCHANGED <<client, inflight, executed, kill>>

BrokerExecutes(c) ==
  /\ inflight[c] > 0
  /\ inflight' = [inflight EXCEPT ![c] = @ - 1]
  /\ executed' = [executed EXCEPT ![c] = @ + 1]
  /\ \/ UNCHANGED reply                            \* the reply is lost
     \/ \E r \in Replies : ~Definite(r) /\ Answer(c, r)
  /\ UNCHANGED <<client, kill>>

BrokerRefuses(c) ==
  /\ inflight[c] > 0
  /\ inflight' = [inflight EXCEPT ![c] = @ - 1]
  /\ \/ UNCHANGED reply                            \* a request or reply lost
     \/ \E r \in Replies : r.body # "good" /\ Answer(c, r)
  /\ UNCHANGED <<client, executed, kill>>

\* Someone creates or removes the kill switch file.
ToggleKillSwitch == /\ kill' = ~kill
                    /\ UNCHANGED <<client, reply, inflight, executed>>

CallStep(c) == \/ Send(c) \/ TokenFails(c) \/ RefreshToken(c) \/ SendFails(c)
               \/ Wake(c) \/ Deliver(c)

Next == \/ \E c \in Calls : \/ RefuseLocally(c) \/ Start(c) \/ CallStep(c)
                            \/ CancelTask(c) \/ BrokerAnswersRead(c)
                            \/ BrokerExecutes(c) \/ BrokerRefuses(c)
        \/ ToggleKillSwitch

Spec == Init /\ [][Next]_vars

\* The event loop runs every ready task, the transport's timeout ends every
\* wait for a reply, and every sleep is capped.
FairSpec == Spec /\ \A c \in Calls : WF_vars(CallStep(c))
-----------------------------------------------------------------------------
WriteCalls == {c \in Calls : Kind[c] # "read"}

\* No order write reaches the broker's books twice, whatever was retried,
\* refreshed or timed out (post_, put_ and delete_order_write).
WriteAtMostOnce == \A c \in Calls : executed[c] <= 1

\* An order write that raised an error other than AmbiguousOrderState has not
\* been applied and is not still on its way.
NoFalseFailure ==
  \A c \in Calls : outcome[c] = "failed" => executed[c] = 0 /\ inflight[c] = 0

\* A trade that needs no reconciliation stands for an order that was applied.
NoFalseConfirmation == \A c \in Calls : outcome[c] = "acked" => executed[c] = 1

\* replace_order and cancel_order only ever write to an order of the account
\* the caller named, or to one that the broker lists without its account.
AccountScopedWrites ==
  \A c \in Calls : Kind[c] \in {"replace", "cancel"} /\ inflight[c] + executed[c] > 0
                     => Owner[Target[c]] = Account[c] \/ Target[c] \in Nameless

\* A request_json call sends a read at most max_attempts times and a write
\* once, and one time more after its first 401.
RetryBudget ==
  \A c \in Calls : sends[c] <= (IF RetrySafe(c) THEN MaxAttempts ELSE 1) + 1

\* Every call that starts returns or raises.
EveryCallReturns == \A c \in Calls : (pc[c] # "idle") ~> (pc[c] = "done")

\* What the caller of an order write may conclude from its outcome.
Promise(c) ==
  CASE outcome[c] = "pending" -> "pending"
    [] outcome[c] = "acked" -> "confirmed"
    [] outcome[c] = "failed" -> "failed"
    [] OTHER -> "unknown"

\* The client implements the abstract promise of OrderSubmission.
Submission == INSTANCE OrderSubmission
                WITH Calls <- WriteCalls,
                     outcome <- [c \in WriteCalls |-> Promise(c)],
                     executed <- [c \in WriteCalls |-> executed[c]]
KeepsPromise == Submission!Spec
=============================================================================
