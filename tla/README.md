# Verification of tradestation_api_wrapper

TLA+ models of the parts of the TradeStation API wrapper that have control worth
checking, TLC runs that check them on small instances, and TLAPS proofs of the
most important results for every instance. Paths below are relative to
`src/tradestation_api_wrapper/` unless they start with `docs/`, `tests/` or `GptPro/`.

    tlc -config MCOrderClient.cfg MCOrderClient.tla     # one run; PROJECT.json lists all
    tlapm OrderClientProofs.tla                         # one module of proofs

## 1. Inventory of the system

The wrapper is an asyncio library. One `TradeStationClient` per configuration sends
REST requests and opens HTTP streams; a store holds the OAuth token, possibly shared with other
processes through a file; blocking work (urllib, files, the lock file) runs in threads.

| Component | State it keeps | Operations | Talks to |
|---|---|---|---|
| Order writes and REST retries (`client.py`, `rest.py`, `trade.py`) | per call: attempt, `refreshed_after_401` | `place_order`, `place_order_group`, `replace_order`, `cancel_order`, `confirm_order`, the reads | token provider, transport, broker, kill switch file |
| OAuth manager (`auth.py`) | `_refresh_lock`; the token is in the store | `get_access_token`, `force_refresh_access_token`, `refresh_access_token`, `exchange_authorization_code` | token endpoint (transport), token store |
| Token stores (`auth.py`) | token file, lock file; or a variable | `load`, `save`, `compare_and_swap_refresh_token` | file system, other processes |
| Stream session (`stream.py`, `rest.py`) | `reconnects`, parser buffer, `refreshed_after_401` | `events`, `JsonStreamParser.feed`, `_stream_chunks` | transport's stream, token provider, consumer |
| urllib transport (`transport.py`) | per stream: a thread, a bounded queue, `stop_requested`, the response | `send`, `stream` | sockets, the event loop |
| httpx transport (`transport.py`) | none | `send`, `stream` | the httpx library |
| Loopback login (`auth.py`) | one local HTTP server, what its handler has left, a deadline | `authorize_with_loopback` | browser, OAuth manager |
| Order pagination (`client.py`) | `seen_tokens` | `_get_order_pages` | REST client |
| Reconciliation (`reconciliation.py`) | none | `match_unknown_order` | its caller, after an ambiguous outcome, with the orders it has listed |
| Risk checks (`validation.py`, `config.py`) | kill switch file | `validate_order_for_config`, `validate_replace_for_config` | order calls |
| Delays (`rate_limit.py`, `stream.py`) | none | backoff, Retry-After, reconnect delay | REST client, stream |
| Models, builders, capabilities, redaction | none | construction and validation | everything |

How they interact: an order call makes its local checks, sends the account
preflight (replace, cancel) and then the write through `request_json`; every attempt
asks the OAuth manager for a token, which may refresh it under an asyncio lock and
swap it into the store under the lock file; the transport's thread answers. A stream
does the same when it opens a connection, and then reads chunks which the reader
thread puts into a queue.

What is hard in it, and the properties that decide whether each part is right:

* **Order writes.** A timeout does not say whether the order was applied; it may be
  applied later. The loop that retries reads serves writes as well, and a 401 sends even a
  write again. Right means: never applied twice; an error that is not
  `AmbiguousOrderState` means not applied; a confirmation means applied; a replace or cancel
  stays in its account; retries are bounded; calls return.
* **Recovery of an unknown order.** The caller lists the account's orders, page by page, while its own may still be applied and others come in,
  and looks for one that looks like it. Right means: a listing ends and is never cut short silently; "no match" means not applied
  when the listing began; a unique match of an order applied before it is that order.
* **Lock file.** Contenders, a crash between any two file-system calls, stale locks judged
  from an earlier look. Right means: one holder, an atomic compare-and-swap, no endless wait.
* **Token refresh and login.** Two tasks, another process, a login and a 401 race for one token and
  for a refresh token that works once; threads outlive cancelled tasks; a code from the browser meets the deadline. Right means: a refresh
  token is presented once, no rotated token is lost, a login is not undone, a
  rejected token is not used again, the lock is always released, a user told that the login is complete is logged in.
* **Risk checks.** A check is made on a request, the limit holds for an order: children, group members, partial replacements and
  the switch from one type to another come in between, and a kill switch that appears while a call waits. Right means: what is live at the broker is what the
  configuration permits, and a kill switch that stays on stops everything but cancellations.
* **Stream session.** A reconnect budget that events renew and other things must not;
  a chunk that holds several messages; GoAway; the end of the body. Right means: budget kept, and
  given in full to each outage; what came before the end, or before the first malformed message, is not lost silently.
* **urllib stream.** A thread, a bounded queue and a consumer that is slow or gone. Right means: the
  body in order without gaps, an end that is the end, errors after the data before them, no thread or
  connection left behind.

PROJECT.json lists the hazards at their lines.

## 2. Modules

| Module | Models | Checked by | Proved in |
|---|---|---|---|
| `OrderSubmission` | abstract: what the caller of an order write may conclude | | |
| `OrderClient` | `request_json` and the order calls; implements `OrderSubmission` | `MCOrderClient` | `OrderClientProofs` |
| `OrderPages` | `_get_order_pages` over a growing book of orders | through `OrderRecovery` | `OrderRecoveryProofs` |
| `OrderRecovery` | `OrderClient` composed with `OrderPages` and `match_unknown_order` | `MCOrderRecovery` | `OrderRecoveryProofs` |
| `OrderTerms` | the checks of `validation.py`, `config.py` and the request models, and the orders live as a result | `MCOrderTerms` | `OrderTermsProofs` |
| `OrderBuilders` | `builders.py`, as operators | through `MCOrderTerms` | `OrderTermsProofs` |
| `TokenStore` | abstract: a store whose calls take effect at one instant or not at all | | |
| `TokenFileLock` | `FileTokenStore` and `_TokenFileLock`, one action per file-system call; implements `TokenStore` | `MCTokenFileLock` | `TokenFileLockProofs` |
| `TokenRefresh` | `OAuthManager` over a file or a memory store and a token endpoint | through `BrowserLogin` | `TokenRefreshProofs`, `TokenProgressProofs` |
| `BrowserLogin` | `authorize_with_loopback`; EXTENDS `TokenRefresh` | `MCTokenRefresh` | `TokenRefreshProofs`, `TokenProgressProofs` |
| `StreamSession` | `TradeStationStream.events`, `_stream_chunks`, `JsonStreamParser` | `MCStreamSession` | `StreamSessionProofs` |
| `UrllibStream` | `UrllibAsyncTransport.stream`: thread, queue, generator | `MCUrllibStream` | `UrllibStreamProofs` |

An MC module EXTENDS the model and names its instances; each `.cfg` gives the constants.
Operators whose comment begins with "Mutant" are plausible bugs, used only to see that
each property can fail; no model uses them.

### OrderClient

`Calls` are asyncio tasks. `pc` is the await at which a call stands; an action is the code
between two awaits. `stage` tells whether `request_json` serves a read (the preflight or a
read call) or the write, i.e. its `retry_safe` argument. `attempt`, `refreshed` are its
locals. The preflight is answered with any set of `ListedRows`, rows of any account; orders in `Nameless` may be listed without one.
`inflight` and `executed` are the broker's side: a write sent is executed, refused
or lost at any later time, also after the client stopped waiting, and the reply may get lost.
A reply is a status and what the client can make of the body. `BrokerExecutes`
never answers with a status in 300..499 other than 408: a broker that applies an order does
not call it refused. A write that was not applied may be answered with anything but a good acknowledgement.
`ReadError` has the four ways out of the status checks of rest.py:199-241 in their
order; `SendFails` the two handlers of rest.py:170-193. `kill` is the kill switch file, which `Start` looks at once.
The group call is a place call with other payloads, `confirm_order` a read.

### OrderPages and OrderRecovery

OrderPages has one action per GET. A page token is new, repeated, or none (also blank or not a string, as client.py:615 has it).
`Answers` is what is assumed of the broker: a page lists orders of the book, perhaps again, and when it says that no page follows, every order that was in the book
when the listing began has been listed. Nothing is assumed of its tokens. `rows` counts the rows of each order up to two, since an order listed twice is matched twice.

OrderRecovery EXTENDS OrderClient and instantiates OrderPages with a book that contains the order of the call `Lost` once it has been executed, and rivals that arrive at any time.
`List` may begin when the fate of `Lost` is unknown (`AmbiguousOrderState`, an incomplete acknowledgement, a cancelled task), and again later; the write may
be applied at any point of it. `MatchesFingerprint` keeps three attributes of a row apart: its account, whose absence counts as a match; symbol, action, type, quantity and prices taken together; and the time
of opening, whose absence counts as no match.

### OrderTerms and OrderBuilders

OrderClient asks how often a write is applied, OrderTerms what it may say. An action is a call up to its next await, with every check it makes before: a replacement waits as
`find` and a cancellation as `check` for the row of its order (`RowAccounts`: with the order's account, or without for IDs in `Nameless`; `Belongs` decides), then each pending
call (`calls`) is applied or not. `MayLookUp` is the scopes of both, Trade and ReadAccount. `live` holds the orders at the broker with their terms; a call refers to one by its ID. A price that is not given is 0.
`NotionalPrice`, `ChangePrice` and `Coerced` are `_estimated_notional`, `_estimated_replace_notional` and `_coerce_replace_request`; `FillPrice` is the price
at which an order of its type fills, which the code never computes. `checked` marks an order whose last change carried a
quantity and a price no better than that one. OSO children are further legs of a submission. OrderBuilders makes the submissions from `builders.py`.

### TokenFileLock

`lock` is the file at the lock path with the pid written in it, whether its creator still has it open,
and whether it is older than `TOKEN_LOCK_STALE_SECONDS`. `pc` walks through
`O_CREAT|O_EXCL`, the pid write, load, save, close and unlink; a contender walks through reading the pid, stat, the probe of the process,
the rename (`Steal`) and the look at the deadline. `PidFails` leaves the lock file behind with its descriptor open, as a failing `os.write` does.
`OpenFilesPinned` says whether the system refuses to
rename a file another process has open (Windows) or not (POSIX). A process that crashed stays down; one that replaces it is another of `Procs`, with a pid of its own.
`MaxWaits` bounds the sleeps before the deadline.

`outcome` is what a call has come to before it returns, so that TokenStore can be implemented: `CallState` maps a call to `asked` until the compare fails or the file is replaced,
and to its outcome from then on; both are known at the instant the abstract call takes effect.

### TokenRefresh

Token n is the n-th the endpoint issued. A task stands at an await (`pc`); its request
(`flight`) and its store job (`job`) run in threads that go on when the task is
cancelled, with the token they work with (`current`, `fresh`). `Grant` spends the refresh token when the endpoint rotates. `setting`, chosen at the start, says
which tasks take part, which process each runs in, whether the store is a file or memory, whether the endpoint rotates, whether a login goes through a browser, and which faults occur
(cancellation, timeouts, refusals by the endpoint whatever it was sent, an authorization code too, store errors, crashes).
"Undisturbed" below means: without any of them. A compare-and-swap in the file store is one step,
which is what `ImplementsStore` of TokenFileLock justifies where open files are pinned; in the memory store it is two (`matched` is between them).
`Expire` moves every token issued so far into the refresh margin; it waits while a token
is between endpoint and reader, since a token lives for twenty minutes and a reply and a write take seconds.

### BrowserLogin

The task of a login waits in its loop while the thread of `handle_request` waits for a connection, or reads from one (`server_thread`). `Handle` is `do_GET`:
it leaves a code, an error or nothing (`callback`), and tells the browser (`told`). `Leave` is the end of the loop; the code it found is exchanged by TokenRefresh's
login. `Open` may fail, as the binding of the port and the browser may. A cancelled task closes the socket and leaves the thread behind.

### StreamSession

A message is its kind. `sent` is what the server sent on this connection, `fed` how much of it has gone into the parser, `parsed` how much
`feed` has returned, `yielded` how much the consumer has. `Feed` takes any number
of complete messages at once, as chunks do, perhaps with the beginning of the next. At a malformed text it raises, unless the buffer from there on looks like the
beginning of a message (`_looks_incomplete`): a text of kind `unclosed` does, so does a `malformed` one before an unclosed one, and then everything behind it stays in the buffer (`parsed < fed`) until the stream
ends or a later text closes it in the wrong order. `Reconnect` is the one policy that GoAway,
429, 5xx and network errors share; `retries` counts reconnects since the last event, independently of the code's counter.
`raiseOnError` is chosen at the start.

### UrllibStream

Bytes are counted in units, a chunk is an interval of the body. `Read` returns `ReadSize` units, or what
is left at the end of the body, as `HTTPResponse.read(n)` does. `GivesUp` is the timeout of `future.result` with `stop_requested` set. `CloseByConsumer` waits while
the thread is in `read`, since the buffered reader's lock is held.

## 3. Runs

| Run | Instance | What it shows |
|---|---|---|
| `order_replace` | replace of an order of the account, which may be listed without it, cancel of one of another account; rows of both accounts; every documented reply and a refusal that breaks off; 2 attempts | all safety properties, `KeepsPromise` (refinement of OrderSubmission), `EveryCallReturns` |
| `order_recovery` | place beside a read, unforeseen and broken replies too, 2 attempts; listings of at most 2 pages; a rival that looks like the order and names no account | no reply makes a write applied twice or confirmed wrongly; what `NO_MATCH` and `EXACT_MATCH` mean; listings end |
| `order_terms` | one caller, two order IDs, one of which may be listed without its account, six configurations; orders of every type with and without their prices, families, groups, partial replacements, `OrderRequest`s as replacements | what is live is permitted, its notional bounded as far as the requests allow the code to judge it, and the kill switch stops everything but cancellations |
| `token_lock` | 2 processes, errors and crashes, pinned files | mutual exclusion, an atomic store (`ImplementsStore`), acquisition ends unless others enter over and over |
| `token_refresh` | 2 calls and a login in six settings: one process or two; file or memory; rotating or not; with a code or a browser; undisturbed or with faults, refusals among them | no refresh refused and no token lost while undisturbed; always: login kept in the file, the rejected or stale token not sent, told means logged in, every task ends |
| `stream_session` | 2 reconnects, 4 messages per connection, five kinds | the budget is kept and given in full; an end delivers all that came before the first malformed message; outages end, or the parser sits on messages |
| `urllib_stream` | queue of 2, reads of 2, 5 units | order, honest end, errors last, nothing left behind |

Violations, each a sentence of the repository that the code does not keep (PROJECT.json `findings`):

| Run | Property | In short |
|---|---|---|
| `other_server_error` | `NoFalseFailure` | 501, 505, 520, ... to an order write end in a definite error |
| `token_lock_posix` | `OnlyStaleLocksStolen` | two live processes, no crash, no old lock: one finds the lock file gone when it looks (which counts as stale), the other creates it anew, and the rename takes the fresh one away |
| `token_cancelled` | `RotatedTokenStored` | a cancelled refresh leaves the store with a spent refresh token |
| `stream_malformed` | `MalformedJsonRaises` | malformed text that opens a brace, a bracket or a string swallows the good messages behind it, and the stream ends without an exception |
| `urllib_timeout` | `TimeoutLosesNothing` | a unit that arrived before the read failed, and did not fill the read, is lost |

**Bounds.** Two calls, since calls share nothing but the kill switch and the properties are per call; the second is there for
interleavings. Two attempts reach a first and a last one (the proofs have any number); two pages reach one that is followed, a repeated token and the limit; `SendCap` lies above every legal count. Two processes
make one owner and one contender, and a contender after a crash. In OrderTerms, one caller suffices for what a request may do to an order, since a fill or
the kill switch may come at any time and the proofs have any number; two IDs hold the two legs of a family or group that stay open; quantities and prices up to 2 against a limit of 2 have products below, at
and above it, and every order of the two prices that matters. In TokenRefresh, `MaxExpired = 1`
lets the first token expire while a refresh of it, a forced refresh and a login race;
`expired` cannot move after token 1 was replaced. Two reconnects separate first, last and too many; four messages hold data, GoAway, an error and a malformed or unclosed text
in every order. A connection could send for ever behind an unclosed text; `OutageEnds` has `parsed < fed` for it, since `MaxSent` would hide it.
The account-less order of `order_replace` is the account's own; `WritesStayInAccount` has any. With one login the "earlier login" of `LoginKept` is the initial grant, and with `MaxExpired = 1` the token a call takes
after a lost race is never stale: `LoginNotUndone` and `FreshWhenAsked` have any number of logins and expiries. Two queue places and five units fill the queue with a chunk waiting and a partial chunk left.

**Fairness.** Weak fairness of the client's own steps: the event loop runs every ready task, threads are scheduled, every wait on the network
ends by `timeout_seconds`, every sleep is finite (Retry-After is capped by `retry_after_ceiling_seconds`).
Nothing is assumed of callers (entering, cancelling), of the broker (in OrderClient the client's timeout ends a wait; in TokenRefresh the endpoint's answer stands for it), of the kill switch, of fills, or of crashes.
For a login (`FairLoginSpec`) the clock reaches the deadline, and a browser that has connected is assumed to send its request or to close: `handle_request` reads without a timeout.
In OrderTerms a call that waits is answered or given up. No process is assumed to come back from a crash. Deadlock checking is off where the system ends:
all calls returned, all processes dead, stream over.

## 4. Proofs

**OrderClientProofs**, for any sets of calls, orders and accounts, any kinds, any replies and any number of attempts:
`TypeCorrect`, `AtMostOnce`, `ConfirmedMeansApplied`, `WritesStayInAccount`; and for anticipated replies (every 5xx among those rest.py:34 lists; no
body that breaks or that the models refuse) `FailedMeansNotApplied` and
`ImplementsSubmission` (every step maps to a step or stutter of OrderSubmission). The invariants are not inductive alone:
"executed at most once" needs that a write in flight and a write executed never add up to two, which needs that the client sends
again only after a 401, that a 401 means the one in flight is gone, and that the
client is at `token` for a write only when nothing is in flight. The inductive invariant ties `inflight + executed` to `pc`, `stage` and the reply for each call.
`WritesStayInAccount` needs that a call at its write has passed the preflight (`MayWrite`), and says of orders outside `Nameless` that they are the account's.
`SendsAreBounded` rests on `Budget`: what has been sent, with what is about to be, is paid by the attempts and the one refresh.
`FailedForGood`: `FailedMeansNotApplied` speaks of one state; that an order which is neither executed nor on its way when its call ends stays so (`Gone`) makes it a statement about the future.
`CallsWearOut`: see "Termination" below.

**OrderRecoveryProofs**, for any calls, any other orders and any page limit: `RecoveryTypeCorrect`, `NoMatchIsNotYet`, `ExactMatchIsItsOwn`. The verdict is reached
long after the listing began, so the invariant carries what the last page completed (`Complete`) and what the verdict was reached on (`Judged`).
`RecoveryIsClient` shows that a recovery is a behaviour of OrderClient, so each theorem above holds of it (`RecoveryKeepsClient`), and with `Gone` an order that failed for good is in no later
page (`GoneIsNeverListed`). `ListingsRunOut` counts pages.

**TokenFileLockProofs**, for any set of processes with pinned files: `LockTypeCorrect`, `LockExcludes`,
`LockFileIsAtomicStore`. The inductive invariant `LockInv` says that a process between creation and close owns the file at the lock path,
that such a file can therefore be neither renamed nor removed, and that what a swap compared is still what is stored. The refinement adds `CallInv`: an outcome
is there only once the critical section is over, and only a swap loads. With these, the failed compare and the replacement of the file are the abstract `Take`, an error is `Raise`,
return, crash and the abandoned wait are `Over` and `Die`, and everything else stutters.
`SwapsLoseNothing`, from the same invariant: a swap replaces the token it was told to replace, and nothing that came in between. `ContendersRunOut` needs no pinned files.
Assumption: `OpenFilesPinned`; `token_lock_posix` shows it is needed.

**TokenRefreshProofs**, for any tasks, processes and settings: `LoginTypeCorrect`, `FreshWhenAsked`, `RejectedNotUsedAgain`, `LoginNotUndone`, `NoRotatedTokenLost`,
`NoRefreshIsRefused`, `ToldIsLoggedIn`. None is inductive, and each needs to know where tokens can be:

* `Shapes`: where a task's request, thread, lock and locals can be, given where the task stands; a thread or a request may outlive its task.
* `Timing`: what a refresh has read is still stored, or what is stored is newer than the moment the call asked. A refresh that lost the race takes the stored token unchecked, so this is what makes it fresh.
* `Issued`, `Unseens`, `Drops`: a token on its way is nowhere else, so the one that ends a forced refresh is not the one that was rejected.
* `OneLogin`, `Heirs`, `LoginStored`, with `Rotated`: tokens with one refresh token are of one login. The compare-and-swap compares refresh tokens only; it keeps logins because of this.
* `NoneLost`: a spent refresh token is in the store only while the call that spent it is about to replace it. `NoneSpent`: under the lock nobody else of the process is such a call, so what is read may be presented.
* `Codes`: a thread of the server is at work only while there is neither a code nor an error.

Most of these, and `RefreshStoresYounger` below, follow from the lemma `Flow` (from which place an action may take each token), not from the actions one by one.

**TokenProgressProofs**, for the same: `LockIsGivenBack` and `WaitersAreServed`, from `Fits` (a lock is held only by a call of its process that is in a refresh, and a refresh is forced only with
a rejected token at hand); `TasksRunOut`; and `RefreshStoresYounger`: comparing refresh tokens is enough to keep the younger token, for with `Rotated` a refresh token tells the age, and a token on its way is
younger than the one it was asked with (`Younger`). With an endpoint that does not rotate it is not: two processes may store their tokens in the opposite order.

**OrderTermsProofs**, for any callers, IDs, configurations, submissions and replacements: `OrderTypeCorrect`, `OnlyPermittedOrders`, `NotionalStaysBounded`.
What is live follows from what was checked when a call began, so the inductive invariant carries each check with the pending call (`CallsPermitted`); the configuration does not change, so it
stays true while the call waits. The notional needs that the price of the check is at least the one of the fill (`AcceptedIsBounded`, `ReplacedFacts`) and that products are monotone.
`CarefulStaysWithinLimit` drops `checked` for callers who avoid the steps section 5 lists: under `Careful` no live order is ever past the limit. `BuiltAreChecked` and
`BuiltGroupsAreValid` say, for every price, that the orders and groups of `builders.py` are such orders and pass the checks of a group. `KillSwitchDrains`: see "Termination".

**StreamSessionProofs**, for any policy and any kinds of messages: `SessionTypeCorrect`, `BudgetKept`, `BudgetNotCut`, `EndIsComplete`.
`retries` counts independently of the code's `reconnects`; the inductive invariant says how far the two may be apart (by one, while the
session sleeps), and that between two chunks the consumer has everything that was parsed,
which is everything fed before the first malformed message.

**UrllibStreamProofs**, for any queue bound and read size: `StreamTypeCorrect`, `EndIsHonest`, `ErrorOvertakesNothing`, `BodyHasNoGap`.
None of them is inductive: the consumer's next chunk fits only because everything between it and the thread does. While the consumer listens,
the inductive invariant `Inv` says that the chunks of the queue, then the item being put, continue the body from where the consumer stands to
what the thread has read (`QueueInv`, `ReaderInv`), that an error or an end lies behind the last chunk, and that an end without an error before it means a body read to its end.
After the consumer has left, only what it concluded is kept (`ConsumerInv`); a put may then be given up.
`LeavingRunsOut` adds that a thread past its finally clause has closed the response (`ClosedBehind`).

**Termination.** Liveness itself is out of the prover's reach, but what makes it true is not. For each temporal property a theorem gives a natural number that is bounded by the constants, that every
step of the process in question takes from, and that nobody else raises; what stays with TLC is that an unfinished process has an enabled step and that fairness takes it.

| Property | Theorem | Number | At most |
|---|---|---|---|
| `EveryCallReturns` | `CallsWearOut` | steps of a call: attempts left, the refresh left, where it stands | 10 * MaxAttempts + 3 |
| `ListingEnds` | `ListingsRunOut` | pages left | MaxOrderPages |
| `KillSwitchStops` | `KillSwitchDrains` | answers a pending call still waits for, while the switch is on | 2 |
| `AcquisitionEndsOrOthersChurn` | `ContendersRunOut` | looks at the lock file; a theft starts the count anew, as the code skips the deadline then | 5 * MaxWaits + 5 |
| `EveryTaskEnds` | `TasksRunOut` | steps of a task, its threads and its requests: the rounds a 401 may add, then where it stands | 44 |
| `OutageEnds` | `OutagesRunOut` | steps between two events: reconnects left, then what is left of the connection | (MaxReconnects + 1) * (2 * MaxSent + 5) |
| `NothingLeaks` | `LeavingRunsOut` | steps of the thread and of the generator after `stop_requested` | 9 and 2 |

`EveryTaskEnds` also needs that no task waits for something that never comes: `LockIsGivenBack` and `WaitersAreServed` say so of locks, threads and requests. The polling of the loopback
server (`Listen`, `NoConnection`) is bounded by the deadline only and takes from no number.

**Assumptions on the constants** are named in the models. `AttemptsAssumption` and `PolicyAssumption` keep the budgets below 1025 and 1024: beyond, the delay's power of two does
not fit a float and the code raises `OverflowError`.

**Only model-checked:** the temporal properties of the table above, as far as they rest on fairness and ENABLED, which the prover cannot do. All other properties of the passing runs, refinements included,
are proved.

## 5. Observations without a run

These follow from the code as modelled; each is listed as a hazard.

* A connection that breaks inside the reply to an order write raises an exception of `http.client` that `_send_sync` does not map
  (transport.py:86), and a 2xx object that `OrderAck` refuses raises `ValidationError` (client.py:268): in both cases the order may be
  applied and the error is not `AmbiguousOrderState`. `AnticipatedReplies` excludes them from `FailedMeansNotApplied`.
* The kill switch is looked at before preflight, retries and token; it may appear before the write is sent. `KillSwitchStops` says what is left: nothing but cancellations once those calls have ended.
* `NotionalBounded` needs `checked`. A replacement that gives only a quantity, or only a price, has no notional and passes; steps of that kind take an order past the limit. A stop-market order's
  limit price, and an estimate below the limit price, go before the price of the fill. A replacement to MARKET needs no estimate, though an order does (validation.py:118).
* An `OrderRequest` passed as a replacement loses its account, class, duration, estimate and every type but MARKET on the way (`_coerce_replace_request`), without an error.
* The capability flag for OSO children, `supports_oso_children`, is never looked at.
* After a successful theft of a stale lock `__enter__` skips the look at the deadline (auth.py:199), hence
  "unless others enter over and over" in `AcquisitionEndsOrOthersChurn`.
* `MemoryTokenStore`'s compare-and-swap is a load and a save without a lock, in a thread: a login between them is overwritten, hence "file" in `LoginKept`.
* An `os.write` that fails after the lock file was created leaves it behind with its descriptor open; on Windows nobody can move it while the process lives.
* A login whose user was told "Authorization complete" may still fail if the task is then cancelled or the exchange times out, hence "undisturbed" in `ToldMeansLoggedIn`.
* A browser that connects and keeps silent holds the login past `timeout_seconds`.
* `NO_MATCH` never proves that an order was not applied: it may be applied after the listing began, its row may lack a time of opening, or one with a time zone.
  `NoMatchMeansNotYet` says what is left. A resubmission on `NO_MATCH` alone can double an order.
* A `NextToken` that is not a string ends a listing like the lack of one (client.py:615).
* A trade that became ambiguous keeps `reconcile_required` after `with_order_snapshot` (trade.py:49): the flag says how the call ended, not what is known since.
* Good messages that stand before a malformed one in the same chunk are lost by the raise at stream.py:62, since `feed` returns its list only at the end; the stream ends with that error, so nothing is lost silently.
* A connection that keeps sending behind an unclosed text yields nothing, does not time out and does not reconnect, and the parser scans a growing buffer with each chunk.
* The preflight of replace and cancel accepts a row that names no account (client.py:638). For such an order it says nothing, and the write goes to it whosever it is: hence `Nameless` in `AccountScopedWrites`.
* The lock of a live, fast process can be stolen under ordinary contention (`token_lock_posix`); on Windows the open file prevents it.
* An order that was not applied is reported as `EXACT_MATCH` if a look-alike is the only one listed; `ExactMatchIsOurs` speaks of orders applied before the listing began.
* A GoAway on every connection ends the stream without an exception once the budget is spent (`ending = "goaway"`).

## 6. Not modelled

* **httpx transport**: one awaited call of an optional library per operation, without a state of its own. What it raises is among what OrderClient has as `SendFails` and `ReadBroken`.
* **Retry and reconnect delays**: floats with random jitter and HTTP dates, on which no state depends; OrderClient and StreamSession have the sleeps without their length.
* **State snapshot** (client.py:213): gathers four reads of the kind OrderClient has; nothing in the code relates the four results, so there is no promise to check.
* **Order status sets**: constant sets and a normalisation that no operation depends on.
* **Response models, environment, URLs, secrets, redaction, JSON**: functions of data without state. Of the request models, OrderTerms has the validators.
* **Repository tools**: maintenance scripts outside the wrapper.

## 7. State of the plan

Done, in the order of importance: OrderSubmission, OrderClient, TokenFileLock, TokenRefresh, StreamSession, UrllibStream, OrderPages, OrderRecovery, TokenStore and the refinement of TokenFileLock to it,
BrowserLogin, OrderTerms with OrderBuilders; the theorems that state every invariant, action property and refinement of the runs; and, for each temporal property, the theorem that bounds the work it is about.

Left: liveness under fairness, which stays with TLC.
