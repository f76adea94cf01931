---------------------------- MODULE TokenRefresh ----------------------------
(***************************************************************************)
(* OAuthManager in auth.py: the access token of every request, the refresh *)
(* of a token that expires soon or was answered with 401, and the token of *)
(* a login.  A call is an asyncio task; the tasks of one manager (one      *)
(* process) share an asyncio lock, and all managers share a token store    *)
(* and the token endpoint.  Blocking work runs in threads (asyncio         *)
(* .to_thread) that a cancelled task leaves behind: the request to the     *)
(* token endpoint and the job that writes the store go on without it.      *)
(*                                                                         *)
(* A setting says which tasks take part, in which process each runs, which *)
(* token store they share, what kind the endpoint is and what goes wrong.  *)
(*                                                                         *)
(* Token n is the n-th the endpoint issued.  Its access token is n and its *)
(* refresh token `refresh`: n itself from an endpoint that rotates refresh *)
(* tokens, else the one of the login it descends from.                     *)
(***************************************************************************)
EXTENDS Integers

CONSTANTS Calls,     \* tasks that make an API request
          Logins,    \* tasks in exchange_authorization_code
          Managers,
          Settings,  \* the deployments looked at
          MaxExpired, \* bound: later tokens do not expire
          Nobody

Tasks == Calls \cup Logins
FaultKinds == {"cancel", "timeout", "refusal", "store", "crash"}

SettingType == [tasks    : SUBSET Tasks,
                manager  : [Tasks -> Managers],
                store    : {"file", "memory"},   \* FileTokenStore, MemoryTokenStore
                endpoint : {"rotating", "fixed"}, \* rotates refresh tokens or not
                browser  : BOOLEAN,              \* logins go through a browser
                faults   : SUBSET FaultKinds]

ASSUME TasksAssumption == Calls \cap Logins = {} /\ Nobody \notin Tasks
ASSUME BoundAssumption == MaxExpired \in Nat
\* A memory store is not shared between processes, and dies with its own.
ASSUME SettingsAssumption ==
  /\ Settings \subseteq SettingType
  /\ \A s \in Settings : s.store = "memory" =>
       /\ s.faults \cap {"store", "crash"} = {}
       /\ \A t, u \in s.tasks : s.manager[t] = s.manager[u]

VARIABLES setting,  \* one of Settings
          pc,       \* where the task stands
          force,    \* refresh_access_token was called with force=True
          rejected, \* the access token answered with 401, or 0
          access,   \* the access token the call uses, or 0
          since,    \* `expired` when the access token was asked for
          current,  \* the token read under the refresh lock
          flight,   \* the task's request to the token endpoint
          fresh,    \* the token its reply carries
          job,      \* the thread that writes the token store for the task
          lock,     \* holder of the manager's _refresh_lock
          store,    \* the token in the token store
          issued,   \* tokens issued so far
          valid,    \* refresh tokens the endpoint accepts
          expired   \* access tokens up to this one expire soon

vars == <<setting, pc, force, rejected, access, since, current, flight, fresh, job,
          lock, store, issued, valid, expired>>
task == <<force, rejected, access, since, current>>
server == <<setting, issued, valid>>

Tokens == [access : Nat, refresh : Nat, login : Logins \cup {Nobody}]
NoToken == [access |-> 0, refresh |-> 0, login |-> Nobody]
FirstToken == [access |-> 1, refresh |-> 1, login |-> Nobody]

InRefresh == {"locked", "checking", "posting", "swapping", "reloading"}
Ended == {"done", "failed"}
PCs == {"idle", "browser", "get", "waiting", "using", "saving"} \cup InRefresh \cup Ended
Working == {"swap", "matched", "write"}
JobStates == {"none", "written", "beaten", "failed"} \cup Working

TypeOK ==
  /\ setting \in Settings
  /\ pc \in [Tasks -> PCs]
  /\ force \in [Tasks -> BOOLEAN]
  /\ rejected \in [Tasks -> Nat]
  /\ access \in [Tasks -> Nat]
  /\ since \in [Tasks -> Nat]
  /\ current \in [Tasks -> Tokens]
  /\ flight \in [Tasks -> {"none", "sent", "granted", "refused"}]
  /\ fresh \in [Tasks -> Tokens]
  /\ job \in [Tasks -> JobStates]
  /\ lock \in [Managers -> Tasks \cup {Nobody}]
  /\ store \in Tokens
  /\ issued \in Nat
  /\ valid \subseteq 1..issued
  /\ expired \in 0..issued

Init ==
  /\ setting \in Settings
  /\ pc = [t \in Tasks |-> "idle"]
  /\ force = [t \in Tasks |-> FALSE]
  /\ rejected = [t \in Tasks |-> 0]
  /\ access = [t \in Tasks |-> 0]
  /\ since = [t \in Tasks |-> 0]
  /\ current = [t \in Tasks |-> NoToken]
  /\ flight = [t \in Tasks |-> "none"]
  /\ fresh = [t \in Tasks |-> NoToken]
  /\ job = [t \in Tasks |-> "none"]
  /\ lock = [m \in Managers |-> Nobody]
  /\ store \in {NoToken, FirstToken}
  /\ issued = 1
  /\ valid = {1}
  /\ expired \in 0..1

-----------------------------------------------------------------------------
\* Mutant: a token that expires soon is used once more.
ExpiresSoonLate(token) == token.access < expired
ExpiresSoon(token) == token.access <= expired
Goto(t, label) == pc' = [pc EXCEPT ![t] = label]

\* OAuthToken.from_token_response: a reply without a refresh token (0) keeps
\* the one that was sent.
\* Mutant: the refresh token that was sent is kept in any case.
RefreshTokenKept(replied, sent) == IF sent # 0 THEN sent ELSE replied
RefreshTokenFrom(replied, sent) == IF replied # 0 THEN replied ELSE sent

\* Mutant: the lock is not released.
NoUnlock(t) == UNCHANGED lock
\* The task leaves `async with self._refresh_lock`.
Unlock(t) == lock' = [lock EXCEPT ![setting.manager[t]] = IF @ = t THEN Nobody ELSE @]

\* refresh_access_token returns: force_refresh_access_token drops the token
\* and request_json asks for one again, get_access_token returns it.
RefreshReturns(t, token) ==
  /\ IF force[t]
     THEN Goto(t, "get") /\ since' = [since EXCEPT ![t] = expired]
                         /\ UNCHANGED access
     ELSE Goto(t, "using") /\ access' = [access EXCEPT ![t] = token.access]
                           /\ UNCHANGED since
  /\ force' = [force EXCEPT ![t] = FALSE]
  /\ current' = [current EXCEPT ![t] = NoToken]
  /\ fresh' = [fresh EXCEPT ![t] = NoToken]
  /\ job' = [job EXCEPT ![t] = "none"]
  /\ Unlock(t)
  /\ UNCHANGED <<rejected, flight, store, server, expired>>

\* What a thread or the endpoint has for a task that may have ended.
Outcome(t, result) == IF pc[t] \in Ended THEN "none" ELSE result
ForTask(t, token) == IF pc[t] \in Ended THEN NoToken ELSE token

\* A thread or a request that goes on without the task, with its tokens.
LeftBehind(t) == flight[t] = "sent" \/ job[t] \in Working

\* The task ends, and leaves a thread at work with what it works with.
Ends(t, how) ==
  LET Kept(token) == IF LeftBehind(t) THEN token ELSE NoToken
  IN
  /\ Goto(t, how)
  /\ current' = [current EXCEPT ![t] = Kept(@)]
  /\ fresh' = [fresh EXCEPT ![t] = Kept(@)]
  /\ flight' = [flight EXCEPT ![t] = IF @ = "sent" THEN @ ELSE "none"]
  /\ job' = [job EXCEPT ![t] = IF @ \in Working THEN @ ELSE "none"]
  /\ force' = [force EXCEPT ![t] = FALSE]
  /\ rejected' = [rejected EXCEPT ![t] = 0]
  /\ access' = [access EXCEPT ![t] = 0]
  /\ since' = [since EXCEPT ![t] = 0]
  /\ Unlock(t)
  /\ UNCHANGED <<store, server, expired>>

-----------------------------------------------------------------------------
\* A request begins.
EnterCall(t) ==
  /\ pc[t] = "idle" /\ t \in Calls \cap setting.tasks
  /\ Goto(t, "get")
  /\ since' = [since EXCEPT ![t] = expired]
  /\ UNCHANGED <<force, rejected, access, current, flight, fresh, job, lock,
                 store, server, expired>>

\* exchange_authorization_code sends its request.
Exchange(t) ==
  /\ Goto(t, "posting")
  /\ flight' = [flight EXCEPT ![t] = "sent"]
  /\ since' = [since EXCEPT ![t] = expired]
  /\ UNCHANGED <<force, rejected, access, current, fresh, job, lock, store,
                 server, expired>>

\* A caller that has an authorization code exchanges it.
EnterLogin(t) ==
  /\ pc[t] = "idle" /\ t \in Logins \cap setting.tasks /\ ~setting.browser
  /\ Exchange(t)

GetAccessToken(t) ==
  /\ pc[t] = "get"
  /\ \/ store = NoToken /\ Ends(t, "failed")
     \/ /\ store # NoToken
        /\ IF ExpiresSoon(store)
           THEN Goto(t, "waiting") /\ UNCHANGED access
           ELSE Goto(t, "using") /\ access' = [access EXCEPT ![t] = store.access]
        /\ UNCHANGED <<force, rejected, since, current, flight, fresh, job,
                       lock, store, server, expired>>

\* The request is answered: with 401, request_json forces one refresh.
Unauthorized(t) ==
  /\ pc[t] = "using" /\ rejected[t] = 0
  /\ Goto(t, "waiting")
  /\ force' = [force EXCEPT ![t] = TRUE]
  /\ rejected' = [rejected EXCEPT ![t] = access[t]]
  /\ access' = [access EXCEPT ![t] = 0]
  /\ UNCHANGED <<since, current, flight, fresh, job, lock, store, server,
                 expired>>

Answered(t) ==
  /\ pc[t] = "using"
  /\ Ends(t, "done")

\* Mutant: the tasks of a manager do not exclude each other.
AcquireNothing(t) ==
  /\ pc[t] = "waiting"
  /\ Goto(t, "locked")
  /\ UNCHANGED <<task, flight, fresh, job, lock, store, server, expired>>
AcquireLock(t) ==
  /\ pc[t] = "waiting" /\ lock[setting.manager[t]] = Nobody
  /\ Goto(t, "locked")
  /\ lock' = [lock EXCEPT ![setting.manager[t]] = t]
  /\ UNCHANGED <<task, flight, fresh, job, store, server, expired>>

LoadCurrent(t) ==
  /\ pc[t] = "locked"
  /\ Goto(t, "checking")
  /\ current' = [current EXCEPT ![t] = store]
  /\ UNCHANGED <<force, rejected, access, since, flight, fresh, job, lock,
                 store, server, expired>>

\* Mutant: the check under the lock does not look at `force`.
CheckIgnoringForce(t) ==
  /\ pc[t] = "checking"
  /\ \/ /\ current[t] = NoToken
        /\ Ends(t, "failed")
     \/ /\ current[t] # NoToken /\ ~ExpiresSoon(current[t])
        /\ RefreshReturns(t, current[t])
     \/ /\ current[t] # NoToken /\ ExpiresSoon(current[t])
        /\ Goto(t, "posting")
        /\ flight' = [flight EXCEPT ![t] = "sent"]
        /\ UNCHANGED <<task, fresh, job, lock, store, server, expired>>
Check(t) ==
  /\ pc[t] = "checking"
  /\ \/ /\ current[t] = NoToken
        /\ Ends(t, "failed")
     \/ /\ current[t] # NoToken /\ ~force[t] /\ ~ExpiresSoon(current[t])
        /\ RefreshReturns(t, current[t])
     \/ /\ current[t] # NoToken /\ (force[t] \/ ExpiresSoon(current[t]))
        /\ Goto(t, "posting")
        /\ flight' = [flight EXCEPT ![t] = "sent"]
        /\ UNCHANGED <<task, fresh, job, lock, store, server, expired>>

ReadReply(t) ==
  /\ pc[t] = "posting"
  /\ \/ flight[t] = "refused" /\ Ends(t, "failed")
     \/ /\ flight[t] = "granted"
        /\ Goto(t, IF t \in Logins THEN "saving" ELSE "swapping")
        /\ flight' = [flight EXCEPT ![t] = "none"]
        /\ job' = [job EXCEPT ![t] = IF t \in Logins THEN "write" ELSE "swap"]
        /\ UNCHANGED <<task, fresh, lock, store, server, expired>>

ReadSwapped(t) ==
  /\ pc[t] = "swapping"
  /\ \/ job[t] = "written" /\ RefreshReturns(t, fresh[t])
     \/ job[t] = "failed" /\ Ends(t, "failed")
     \/ /\ job[t] = "beaten"
        /\ Goto(t, "reloading")
        /\ UNCHANGED <<task, flight, fresh, job, lock, store, server, expired>>

ReloadLatest(t) ==
  /\ pc[t] = "reloading"
  /\ IF store = NoToken THEN Ends(t, "failed") ELSE RefreshReturns(t, store)

ReadSaved(t) ==
  /\ pc[t] = "saving" /\ job[t] \in {"written", "failed"}
  /\ Ends(t, IF job[t] = "written" THEN "done" ELSE "failed")

-----------------------------------------------------------------------------
(* The threads that write the store.  FileTokenStore's lock makes a swap    *)
(* one step; MemoryTokenStore compares first and writes then.              *)

\* The job is done, and its outcome is there for the task.
JobDone(t, result) ==
  /\ job' = [job EXCEPT ![t] = Outcome(t, result)]
  /\ fresh' = [fresh EXCEPT ![t] = ForTask(t, @)]
  /\ current' = [current EXCEPT ![t] = ForTask(t, @)]
  /\ UNCHANGED <<pc, force, rejected, access, since, flight, lock, server, expired>>

\* Mutant: the token is saved without a comparison.
SwapBlindly(t) ==
  /\ job[t] = "swap"
  /\ store' = fresh[t] /\ JobDone(t, "written")
CompareAndSwap(t) ==
  LET matches == store.refresh = current[t].refresh
  IN /\ job[t] = "swap"
     /\ \/ ~matches /\ JobDone(t, "beaten") /\ UNCHANGED store
        \/ /\ matches /\ setting.store = "file"
           /\ store' = fresh[t] /\ JobDone(t, "written")
        \/ /\ matches /\ setting.store = "memory"
           /\ job' = [job EXCEPT ![t] = "matched"]
           /\ UNCHANGED <<pc, task, flight, fresh, lock, store, server, expired>>

Write(t) ==
  /\ job[t] \in {"matched", "write"}
  /\ store' = fresh[t] /\ JobDone(t, "written")

-----------------------------------------------------------------------------
(* The token endpoint: it spends a refresh token when it rotates them.      *)

Grant(t) ==
  LET new == issued + 1
      old == current[t]
  IN /\ flight[t] = "sent" /\ (t \in Calls => old.refresh \in valid)
     /\ issued' = new
     /\ valid' = CASE t \in Logins -> valid \cup {new}
                   [] t \in Calls /\ setting.endpoint = "rotating" -> (valid \ {old.refresh}) \cup {new}
                   [] t \in Calls /\ setting.endpoint = "fixed" -> valid
     /\ fresh' = [fresh EXCEPT ![t] = ForTask(t,
          [access  |-> new,
           refresh |-> RefreshTokenFrom(IF t \in Logins \/ setting.endpoint = "rotating" THEN new ELSE 0,
                                        old.refresh),
           login   |-> IF t \in Logins THEN t ELSE old.login])]
     /\ flight' = [flight EXCEPT ![t] = Outcome(t, "granted")]
     /\ current' = [current EXCEPT ![t] = ForTask(t, @)]
     /\ UNCHANGED <<pc, force, rejected, access, since, job, lock, store, setting,
                    expired>>

\* An error status, or a body that is no token: the refresh token is spent, or
\* the endpoint refuses whatever it was sent, an authorization code too.
Refuse(t) ==
  /\ flight[t] = "sent"
  /\ \/ t \in Calls /\ current[t].refresh \notin valid
     \/ "refusal" \in setting.faults
  /\ flight' = [flight EXCEPT ![t] = Outcome(t, "refused")]
  /\ current' = [current EXCEPT ![t] = ForTask(t, @)]
  /\ UNCHANGED <<pc, force, rejected, access, since, fresh, job, lock, store,
                 server, expired>>

-----------------------------------------------------------------------------
(* What goes wrong, and time.                                              *)

\* NetworkTimeout or TransportError, whatever has become of the request.
TimeOut(t) ==
  /\ "timeout" \in setting.faults /\ pc[t] = "posting"
  /\ Ends(t, "failed")

CancelTask(t) ==
  /\ "cancel" \in setting.faults /\ pc[t] \notin {"idle"} \cup Ended
  /\ Ends(t, "failed")

\* The store raises: the lock file's timeout, or an error of the disk.
StoreFails(t) ==
  /\ "store" \in setting.faults /\ job[t] \in Working
  /\ JobDone(t, "failed") /\ UNCHANGED store

\* A process dies with its tasks and threads; what it has sent is under way.
Crash(m) ==
  LET Dies(t) == setting.manager[t] = m /\ pc[t] # "idle"
      Cleared(f, none) == [t \in Tasks |-> IF Dies(t) THEN none ELSE f[t]]
      Sent(f, none) == [t \in Tasks |-> IF Dies(t) /\ flight[t] # "sent" THEN none ELSE f[t]]
  IN
  /\ "crash" \in setting.faults
  /\ \E t \in Tasks : Dies(t) /\ pc[t] \notin Ended
  /\ pc' = [t \in Tasks |-> IF Dies(t) /\ pc[t] \notin Ended THEN "failed" ELSE pc[t]]
  /\ force' = Cleared(force, FALSE)
  /\ rejected' = Cleared(rejected, 0)
  /\ access' = Cleared(access, 0)
  /\ since' = Cleared(since, 0)
  /\ job' = Cleared(job, "none")
  /\ fresh' = Cleared(fresh, NoToken)
  /\ flight' = Sent(flight, "none")
  /\ current' = Sent(current, NoToken)
  /\ lock' = [lock EXCEPT ![m] = Nobody]
  /\ UNCHANGED <<store, server, expired>>

\* A granted token is on its way to a task that waits for it.
Unread(t) == flight[t] = "granted" /\ pc[t] = "posting"

\* Every token issued so far enters the refresh margin.  A token lives for
\* twenty minutes, a reply and a write of the store take seconds.
\* Mutant: the margin reaches a token that is not issued yet.
ExpireAhead ==
  /\ expired < issued /\ issued <= MaxExpired
  /\ \A t \in Tasks : ~Unread(t) /\ job[t] \notin Working
  /\ expired' = issued + 1
  /\ UNCHANGED <<pc, task, flight, fresh, job, lock, store, server>>
Expire ==
  /\ expired < issued /\ issued <= MaxExpired
  /\ \A t \in Tasks : ~Unread(t) /\ job[t] \notin Working
  /\ expired' = issued
  /\ UNCHANGED <<pc, task, flight, fresh, job, lock, store, server>>

-----------------------------------------------------------------------------
Step(t) ==
  \/ GetAccessToken(t) \/ Answered(t) \/ AcquireLock(t) \/ LoadCurrent(t)
  \/ Check(t) \/ ReadReply(t) \/ ReadSwapped(t) \/ ReloadLatest(t) \/ ReadSaved(t)
Thread(t) == CompareAndSwap(t) \/ Write(t)
Endpoint(t) == Grant(t) \/ Refuse(t)

\* What happens for a task as long as the event loop and the threads run and
\* the endpoint answers: one of the three at a time.
Advance(t) == Step(t) \/ Thread(t) \/ Endpoint(t)

Next ==
  \/ \E t \in Tasks : \/ EnterCall(t) \/ EnterLogin(t) \/ Advance(t) \/ Unauthorized(t)
                      \/ TimeOut(t) \/ CancelTask(t) \/ StoreFails(t)
  \/ \E m \in Managers : Crash(m)
  \/ Expire

Spec == Init /\ [][Next]_vars

-----------------------------------------------------------------------------
Undisturbed == setting.faults = {}
OneProcess ==
  \A t, u \in setting.tasks \cap Calls : setting.manager[t] = setting.manager[u]

\* Among the calls of one process that nothing disturbs, the endpoint refuses
\* no refresh: the check under the lock keeps two tasks from presenting one
\* refresh token.
NoRefreshRefused ==
  Undisturbed /\ OneProcess => \A t \in Calls : flight[t] # "refused"

Settled == \A t \in Tasks : /\ flight[t] # "sent" /\ ~Unread(t)
                            /\ job[t] \notin Working

\* Whenever no refresh is under way the endpoint accepts the stored refresh
\* token, whatever happened before (newly returned refresh tokens "must be
\* atomically stored").
RotatedTokenStored == Settled /\ store # NoToken => store.refresh \in valid

\* That holds while nothing disturbs the tasks: no rotated token is lost by
\* losing a race, by overwriting another, or in the two steps of the memory
\* store's compare-and-swap.
StoredTokenUsable == Undisturbed => RotatedTokenStored

\* Once a login is done, no refresh that began before it brings back a token
\* of an earlier login: not even one whose task was cancelled, timed out or
\* died (FileTokenStore; MemoryTokenStore promises nothing of the kind).
LoginKept ==
  setting.store = "file" =>
    \A t \in Logins : pc[t] = "done" => store.login \in Logins

\* A request is not sent again with the access token that was answered 401:
\* not after the forced refresh, and not when another task or process won
\* the race to store a new token.
RejectedTokenDropped ==
  \A t \in Calls : pc[t] = "using" /\ rejected[t] # 0 => access[t] # rejected[t]

\* The token a request is sent with was not due for a refresh when it was
\* asked for, also where another process's token is taken unchecked.
TokenFreshWhenAsked == \A t \in Calls : pc[t] = "using" => access[t] > since[t]

\* Every call and every login ends: no task waits for ever for a refresh lock,
\* a thread or a browser, whatever is cancelled, times out, raises or dies.
EveryTaskEnds == []<>(\A t \in Tasks : pc[t] \in {"idle"} \cup Ended)

=============================================================================
