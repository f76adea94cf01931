---------------------------- MODULE StreamSession ----------------------------
(***************************************************************************)
(* TradeStationStream.events in stream.py over _stream_chunks in rest.py:  *)
(* opening a connection (with one token refresh on 401), cutting its       *)
(* chunks into messages, yielding them, and the policy that reconnects     *)
(* after GoAway and after errors.                                          *)
(*                                                                         *)
(* A message is its kind.  "data" stands for every event that is neither   *)
(* an error nor GoAway; "malformed" for what is not a JSON object, and     *)
(* "unclosed" for such a text that opens a brace, a bracket or a string    *)
(* and does not close it, a message cut short among them.  A chunk         *)
(* completes some messages and may begin the next one, which waits in the  *)
(* parser's buffer until a later chunk completes it; so does an unclosed   *)
(* text, and whatever comes after it.  That two malformed texts may make    *)
(* one object together is left out.                                        *)
(***************************************************************************)
EXTENDS Integers, Sequences

CONSTANTS Messages,      \* kinds of messages the server sends
          MaxReconnects, \* StreamReconnectPolicy.max_reconnects
          MaxSent        \* bound: messages of one connection

Malformed == {"malformed", "unclosed"}
Kinds == {"data", "error", "goaway"} \cup Malformed

ASSUME MessagesAssumption == Messages \subseteq Kinds
\* delay_for_reconnect multiplies a float with 2 ** (n - 1), which overflows at
\* the 1025th reconnect of an outage; what happens then is not modelled.
ASSUME PolicyAssumption == /\ MaxReconnects \in Nat /\ MaxReconnects <= 1024
                           /\ MaxSent \in Nat

VARIABLES raiseOnError,
          pc,         \* where events() stands
          reconnects,
          refreshed,  \* _stream_chunks' refreshed_after_401
          wire,       \* "open", or how the server left: "closed", "broken"
          sent,       \* messages of this connection
          fed,        \* how many of them have gone into the parser
          parsed,     \* how many of them the parser has returned
          yielded,    \* how many of them the consumer was given
          ending,     \* how events() ended
          retries     \* reconnects tried since the last event but GoAway, saturating

vars == <<raiseOnError, pc, reconnects, refreshed, wire, sent, fed, parsed, yielded, ending, retries>>
connection == <<wire, sent, fed, parsed, yielded>>

Endings == {"none", "end", "goaway", "error", "parse", "auth", "client",
            "exhausted", "closed"}

TypeOK ==
  /\ raiseOnError \in BOOLEAN
  /\ pc \in {"connect", "read", "handle", "sleep", "ended"}
  /\ reconnects \in 0..MaxReconnects
  /\ refreshed \in BOOLEAN
  /\ wire \in {"open", "closed", "broken"}
  /\ sent \in Seq(Kinds)
  /\ fed \in 0..Len(sent)
  /\ parsed \in 0..fed
  /\ yielded \in 0..parsed
  /\ ending \in Endings
  /\ retries \in 0..(MaxReconnects + 1)

\* A stream_* method of the client has returned the iterator, which has not
\* been asked for its first event.
Init ==
  /\ raiseOnError \in BOOLEAN
  /\ pc = "connect" /\ reconnects = 0 /\ refreshed = FALSE
  /\ wire = "closed" /\ sent = <<>> /\ fed = 0 /\ parsed = 0 /\ yielded = 0
  /\ ending = "none" /\ retries = 0

-----------------------------------------------------------------------------
\* events() returns, or raises.
End(how) ==
  /\ pc' = "ended" /\ ending' = how
  /\ UNCHANGED <<reconnects, refreshed, connection, retries>>

\* Mutant: one reconnect more than the policy allows.
ReconnectOffByOne(how) ==
  \/ reconnects > MaxReconnects /\ End(how)
  \/ /\ reconnects <= MaxReconnects
     /\ pc' = "sleep" /\ reconnects' = reconnects + 1
     /\ UNCHANGED <<refreshed, connection, ending, retries>>
\* The policy that serves GoAway, RateLimitError, server and network errors.
Reconnect(how) ==
  \/ reconnects >= MaxReconnects /\ End(how)
  \/ /\ reconnects < MaxReconnects
     /\ pc' = "sleep" /\ reconnects' = reconnects + 1
     /\ UNCHANGED <<refreshed, connection, ending, retries>>

-----------------------------------------------------------------------------
Open ==
  /\ pc = "connect"
  /\ pc' = "read"
  /\ wire' = "open"
  /\ UNCHANGED <<reconnects, refreshed, sent, fed, parsed, yielded, ending, retries>>

\* HTTP 401: the token is refreshed once per connection.
OpenUnauthorized ==
  /\ pc = "connect"
  /\ IF refreshed
     THEN End("auth")
     ELSE /\ refreshed' = TRUE
          /\ UNCHANGED <<pc, reconnects, connection, ending, retries>>

\* get_access_token or force_refresh_access_token raises.
TokenFails == pc = "connect" /\ End("auth")

\* HTTP 4xx other than 401 and 429.
OpenRefused == pc = "connect" /\ End("client")

\* HTTP 429, 5xx, or no connection.
OpenFails == pc = "connect" /\ Reconnect("exhausted")

\* feed() returns the messages up to upto of the n the parser has got by now.
Parse(n, upto) ==
  /\ pc' = "handle" /\ fed' = n /\ parsed' = upto
  /\ UNCHANGED <<reconnects, refreshed, wire, sent, yielded, ending, retries>>

\* parser.feed(chunk): all messages of the chunk are parsed before the first is
\* handed on.  At the first malformed one feed() raises, unless what it has from
\* there on looks like the beginning of a message: an unclosed text does, and so
\* does a chunk that ends inside the next message.  Then the messages before it
\* are returned and the rest stays in the buffer.  The text after an unclosed
\* one may close it in the wrong order, and feed() raises after all.
Feed ==
  /\ pc = "read"
  /\ \E n \in (fed + 1)..Len(sent) :
       LET bad == {i \in (parsed + 1)..n : sent[i] \in Malformed}
       IN \/ bad = {} /\ Parse(n, n)
          \/ \E first \in bad :
               /\ \A i \in bad : first <= i
               /\ \/ /\ sent[first] = "malformed" \/ first < n
                     /\ End("parse")
                  \/ /\ n < Len(sent) \/ \E i \in bad : sent[i] = "unclosed"
                     /\ Parse(n, first - 1)

\* Mutant: the consumer's events do not renew the budget.
HandleNextOnLifetimeBudget ==
  LET kind == sent[yielded + 1]
  IN /\ pc = "handle" /\ yielded < parsed
     /\ \/ kind = "error" /\ raiseOnError /\ End("error")
        \/ /\ kind = "goaway"
           /\ Reconnect("goaway")
        \/ /\ kind = "data" \/ (kind = "error" /\ ~raiseOnError)
           /\ yielded' = yielded + 1 /\ retries' = 0
           /\ UNCHANGED <<pc, reconnects, refreshed, wire, sent, fed, parsed, ending>>
\* The next message is classified and yielded.  GoAway leaves the rest of the
\* connection unread.
HandleNext ==
  LET kind == sent[yielded + 1]
  IN /\ pc = "handle" /\ yielded < parsed
     /\ \/ kind = "error" /\ raiseOnError /\ End("error")
        \/ /\ kind = "goaway"
           /\ Reconnect("goaway")
        \/ /\ kind = "data" \/ (kind = "error" /\ ~raiseOnError)
           /\ yielded' = yielded + 1 /\ reconnects' = 0 /\ retries' = 0
           /\ UNCHANGED <<pc, refreshed, wire, sent, fed, parsed, ending>>

\* Mutant: only the first message of a chunk is handed on.
ReadOnAfterFirst ==
  /\ pc = "handle"
  /\ pc' = "read"
  /\ UNCHANGED <<reconnects, refreshed, connection, ending, retries>>
ReadOn ==
  /\ pc = "handle" /\ yielded = parsed
  /\ pc' = "read"
  /\ UNCHANGED <<reconnects, refreshed, connection, ending, retries>>

\* The server has closed the connection and all it sent has gone into the
\* parser.  What the parser still has in its buffer is not looked at.
EndOfStream ==
  /\ pc = "read" /\ wire = "closed" /\ fed = Len(sent)
  /\ End("end")

\* NetworkTimeout or TransportError; what was not read is lost.
ReadFails ==
  /\ pc = "read" /\ wire # "closed"
  /\ Reconnect("exhausted")

TryAgain ==
  /\ pc = "sleep"
  /\ pc' = "connect" /\ refreshed' = FALSE
  /\ wire' = "closed" /\ sent' = <<>> /\ fed' = 0 /\ parsed' = 0 /\ yielded' = 0
  /\ retries' = IF retries > MaxReconnects THEN retries ELSE retries + 1
  /\ UNCHANGED ending
\* Mutant: the count of reconnects starts again with each connection.
WakeAfresh == TryAgain /\ reconnects' = 0
\* _sleep_for_reconnect is over, and a new connection is tried.
Wake == TryAgain /\ UNCHANGED reconnects

\* The consumer closes the generator, or its task is cancelled.
Close == pc # "ended" /\ End("closed")

-----------------------------------------------------------------------------
(* The server of the connection.                                           *)
Send(kind) ==
  /\ pc \in {"read", "handle"} /\ wire = "open" /\ Len(sent) < MaxSent
  /\ sent' = Append(sent, kind)
  /\ UNCHANGED <<pc, reconnects, refreshed, wire, fed, parsed, yielded, ending, retries>>

Leave ==
  /\ pc \in {"read", "handle"} /\ wire = "open"
  /\ wire' \in {"closed", "broken"}
  /\ UNCHANGED <<pc, reconnects, refreshed, sent, fed, parsed, yielded, ending, retries>>

-----------------------------------------------------------------------------
Step ==
  \/ Open \/ OpenUnauthorized \/ TokenFails \/ OpenRefused \/ OpenFails
  \/ Feed \/ HandleNext \/ ReadOn \/ EndOfStream \/ ReadFails \/ Wake

Next == /\ Step \/ Close \/ Leave \/ \E kind \in Messages : Send(kind)
        /\ UNCHANGED raiseOnError

Spec == Init /\ [][Next]_vars

\* The event loop runs, and a silent connection times out (HTTPRequest
\* .timeout_seconds).
FairSpec == Spec /\ WF_vars(Step /\ UNCHANGED raiseOnError)

-----------------------------------------------------------------------------
\* However connections fail, no more than MaxReconnects are tried before the
\* next event: GoAway and 401 do not renew the budget.
ReconnectBudget == retries <= MaxReconnects

\* The stream gives up only when the whole budget went without an event: an
\* earlier outage that was survived takes nothing from it.
WholeBudgetPerOutage ==
  ending \in {"exhausted", "goaway"} => retries = MaxReconnects

\* A stream that ends because the server closed it gave its consumer every
\* message the server sent before the first malformed one, also those that
\* were in one chunk with the beginning of a malformed one.
EndDeliversAll ==
  ending = "end" =>
    \A n \in 1..Len(sent) : (\A i \in 1..n : sent[i] \notin Malformed) => n <= yielded

\* A stream that opens a connection ends, or gets an event from it or from
\* one of those after it, or its parser sits on messages that it will not
\* return, behind a text that looks like the beginning of a message.
OutageEnds == pc = "connect" ~> (yielded > 0 \/ pc = "ended" \/ parsed < fed)

\* Malformed JSON raises: a stream that ends without an exception has given
\* its consumer every good message of the connection.
MalformedJsonRaises ==
  ending = "end" =>
    \A n \in 1..Len(sent) : sent[n] \notin Malformed => n <= yielded

=============================================================================
