------------------------- MODULE TokenRefreshProofs -------------------------
(* Theorems about TokenRefresh and BrowserLogin, for any tasks, processes    *)
(* and settings.                                                             *)
EXTENDS BrowserLogin, TLAPS

-----------------------------------------------------------------------------
(* The inductive invariants. *)

\* A token on its way to a task or into the store.
Pending(t) == Unread(t) \/ job[t] \in Working

\* Where requests, jobs, locks and locals can be, given where the task stands.
Shape(t) ==
  /\ flight[t] \in {"granted", "refused"} => pc[t] = "posting"
  /\ flight[t] = "sent" => pc[t] \in {"posting"} \cup Ended /\ job[t] = "none"
  /\ job[t] \in {"written", "failed"} => pc[t] \in {"swapping", "saving"}
  /\ job[t] = "beaten" => pc[t] \in {"swapping", "reloading"}
  /\ job[t] \in Working => pc[t] \in {"swapping", "saving"} \cup Ended
  /\ pc[t] = "posting" => flight[t] # "none"
  /\ pc[t] \in {"swapping", "saving"} => job[t] # "none"
  /\ pc[t] \in {"idle"} \cup Ended => force[t] = FALSE /\ rejected[t] = 0
  /\ pc[t] # "idle" => t \in setting.tasks
  /\ job[t] = "matched" => setting.store = "memory"
  /\ job[t] = "failed" => "store" \in setting.faults
  /\ Undisturbed /\ pc[t] \in Ended => flight[t] = "none" /\ job[t] = "none"
  /\ t \in Logins => /\ pc[t] \in {"idle", "browser", "posting", "saving"} \cup Ended
                     /\ job[t] \in {"none", "write", "written", "failed"}
                     /\ flight[t] = "refused" => "refusal" \in setting.faults
                     /\ current[t] = NoToken
                     /\ force[t] = FALSE /\ rejected[t] = 0
  /\ t \in Calls => /\ pc[t] \notin {"browser", "saving"} /\ job[t] # "write"
                    /\ pc[t] \in InRefresh => lock[setting.manager[t]] = t

Shapes == \A t \in Tasks : Shape(t)

\* A token that is on its way is not due, whatever is stored after a refresh has
\* read the store neither.
Timely(t) ==
  /\ since[t] <= expired
  /\ Pending(t) => fresh[t].access > expired
  /\ t \in Calls =>
       /\ pc[t] \in {"checking", "posting", "swapping"} =>
            store = current[t] \/ store.access > since[t]
       /\ job[t] = "beaten" \/ pc[t] = "reloading" => store.access > since[t]
       /\ Unread(t) \/ pc[t] = "swapping" => fresh[t].access > since[t]
       /\ pc[t] = "using" => access[t] > since[t]

Timing == \A t \in Tasks : Timely(t)

\* A token on its way is nowhere else.
Unseen(t) ==
  Pending(t) =>
    /\ fresh[t].access # store.access
    /\ \A u \in Tasks : /\ fresh[t].access \notin {access[u], rejected[u], current[u].access}
                        /\ u # t => fresh[t].access # fresh[u].access

Issued ==
  /\ store.access <= issued /\ store.refresh <= issued
  /\ \A t \in Tasks : /\ access[t] <= issued /\ rejected[t] <= issued
                      /\ current[t].access <= issued /\ fresh[t].access <= issued
                      /\ current[t].refresh <= issued /\ fresh[t].refresh <= issued

Unseens == \A t \in Tasks : Unseen(t)

\* Once the forced refresh is over, the rejected token is in no place the call
\* takes a token from.
Dropped(t) ==
  /\ force[t] = TRUE => access[t] = 0 /\ pc[t] \notin {"get", "using"}
  /\ rejected[t] # 0 =>
       /\ force[t] = FALSE =>
            rejected[t] \notin {store.access, current[t].access, fresh[t].access, access[t]}
       /\ pc[t] \in {"checking", "posting", "swapping"} =>
            store = current[t] \/ store.access # rejected[t]
       /\ job[t] \in {"written", "beaten"} \/ pc[t] = "reloading" => store.access # rejected[t]

Drops == \A t \in Tasks : Dropped(t)

\* Tokens with one refresh token are of one login.
Held == {NoToken, store} \cup {current[t] : t \in Tasks} \cup {fresh[t] : t \in Tasks}
OneLogin == \A x, y \in Held : x.refresh = y.refresh => x.login = y.login
Heirs ==
  \A t \in Tasks : Pending(t) => /\ t \in Calls => fresh[t].login = current[t].login
                                 /\ t \in Logins => fresh[t].login = t
LoginStored ==
  setting.store = "file" =>
    \A l \in Logins : pc[l] = "done" \/ job[l] = "written" => store.login \in Logins

\* An endpoint that rotates refresh tokens issues one with each access token.
Rotated == setting.endpoint = "rotating" => \A x \in Held : x.refresh = x.access

\* A spent refresh token is in the store only while the call that spent it is
\* about to replace it.
NoneLost ==
  Undisturbed =>
    /\ \A t \in Tasks : Pending(t) => fresh[t].refresh \in valid
    /\ store = NoToken \/ store.refresh \in valid
         \/ \E t \in Calls : Pending(t) /\ store.refresh = current[t].refresh

\* A call presents a refresh token the endpoint accepts.
Spendable(c) ==
  /\ flight[c] # "refused"
  /\ pc[c] = "checking" => current[c] = NoToken \/ current[c].refresh \in valid
  /\ flight[c] = "sent" => current[c].refresh \in valid
NoneSpent == Undisturbed /\ OneProcess => \A c \in Calls : Spendable(c)

\* The browser's part of a login.
CodesOf(l) ==
  /\ server_thread[l] # "none" => callback[l] = "none" /\ pc[l] # "idle"
  /\ Undisturbed /\ server_thread[l] # "none" => pc[l] = "browser"
  /\ told[l] => callback[l] = "code" /\ pc[l] # "idle"
  /\ Undisturbed /\ told[l] => pc[l] # "failed"

Codes == \A l \in Logins : CodesOf(l)

-----------------------------------------------------------------------------
(* Facts about settings and the operators actions are made of. *)

LEMMA SettingFacts ==
  ASSUME TypeOK
  PROVE  /\ setting \in SettingType
         /\ \A t \in Tasks : setting.manager[t] \in Managers
         /\ setting.store \in {"file", "memory"} /\ setting.endpoint \in {"rotating", "fixed"}
         /\ setting.faults \subseteq FaultKinds
BY SettingsAssumption DEF TypeOK, SettingType

LEMMA TokenFacts ==
  /\ NoToken \in Tokens /\ FirstToken \in Tokens
  /\ \A token \in Tokens : token.access \in Nat /\ token.refresh \in Nat
                           /\ token.login \in Logins \cup {Nobody}
BY DEF Tokens, NoToken, FirstToken

LEMMA TaskFacts ==
  /\ \A t \in Tasks : (t \in Calls \/ t \in Logins) /\ ~(t \in Calls /\ t \in Logins) /\ t # Nobody
  /\ Calls \subseteq Tasks /\ Logins \subseteq Tasks
BY TasksAssumption DEF Tasks

\* A task's own state is left alone.
Same(u) ==
  /\ pc'[u] = pc[u] /\ force'[u] = force[u] /\ rejected'[u] = rejected[u]
  /\ access'[u] = access[u] /\ since'[u] = since[u] /\ current'[u] = current[u]
  /\ flight'[u] = flight[u] /\ fresh'[u] = fresh[u] /\ job'[u] = job[u]

\* Whoever holds a lock and is not t keeps it.
LocksKept(t) ==
  \A u \in Tasks \ {t} : lock[setting.manager[u]] = u => lock'[setting.manager[u]] = u

LEMMA UnlockFacts ==
  ASSUME TypeOK, NEW t \in Tasks, Unlock(t)
  PROVE  LocksKept(t) /\ lock' \in [Managers -> Tasks \cup {Nobody}]
BY SettingFacts, TaskFacts DEF TypeOK, Unlock, LocksKept

LEMMA EndsFacts ==
  ASSUME TypeOK, NEW t \in Tasks, NEW how \in Ended, Ends(t, how)
  PROVE  /\ TypeOK'
         /\ pc'[t] = how /\ force'[t] = FALSE /\ rejected'[t] = 0 /\ access'[t] = 0 /\ since'[t] = 0
         /\ flight'[t] = IF flight[t] = "sent" THEN "sent" ELSE "none"
         /\ job'[t] = IF job[t] \in Working THEN job[t] ELSE "none"
         /\ current'[t] = IF LeftBehind(t) THEN current[t] ELSE NoToken
         /\ fresh'[t] = IF LeftBehind(t) THEN fresh[t] ELSE NoToken
         /\ \A u \in Tasks \ {t} : Same(u)
         /\ LocksKept(t)
         /\ setting' = setting /\ store' = store /\ issued' = issued /\ valid' = valid /\ expired' = expired
<1>1. LocksKept(t) /\ lock' \in [Managers -> Tasks \cup {Nobody}]
  BY UnlockFacts DEF Ends
<1>2. TypeOK'
  BY <1>1, TokenFacts DEF TypeOK, Ends, Goto, PCs, JobStates, server, Ended
<1>3. QED
  BY <1>1, <1>2 DEF Ends, Goto, TypeOK, Same, server

LEMMA ReturnsFacts ==
  ASSUME TypeOK, NEW t \in Tasks, NEW token \in Tokens, RefreshReturns(t, token)
  PROVE  /\ TypeOK'
         /\ force[t] = TRUE => pc'[t] = "get" /\ access'[t] = access[t] /\ since'[t] = expired
         /\ force[t] = FALSE => pc'[t] = "using" /\ access'[t] = token.access /\ since'[t] = since[t]
         /\ force'[t] = FALSE /\ rejected'[t] = rejected[t] /\ flight'[t] = flight[t]
         /\ current'[t] = NoToken /\ fresh'[t] = NoToken /\ job'[t] = "none"
         /\ \A u \in Tasks \ {t} : Same(u)
         /\ LocksKept(t)
         /\ setting' = setting /\ store' = store /\ issued' = issued /\ valid' = valid /\ expired' = expired
<1>1. LocksKept(t) /\ lock' \in [Managers -> Tasks \cup {Nobody}]
  BY UnlockFacts DEF RefreshReturns
<1>2. force[t] \in BOOLEAN
  BY DEF TypeOK
<1>3. TypeOK'
  BY <1>1, TokenFacts DEF TypeOK, RefreshReturns, Goto, PCs, JobStates, server
<1>4. QED
  BY <1>1, <1>2, <1>3 DEF RefreshReturns, Goto, TypeOK, Same, server

LEMMA JobDoneFacts ==
  ASSUME TypeOK, NEW t \in Tasks, NEW result \in {"written", "beaten", "failed"},
         JobDone(t, result), store' \in Tokens
  PROVE  /\ TypeOK'
         /\ pc[t] \in Ended => job'[t] = "none" /\ fresh'[t] = NoToken /\ current'[t] = NoToken
         /\ pc[t] \notin Ended => job'[t] = result /\ fresh'[t] = fresh[t] /\ current'[t] = current[t]
         /\ pc'[t] = pc[t] /\ force'[t] = force[t] /\ rejected'[t] = rejected[t] /\ access'[t] = access[t]
         /\ since'[t] = since[t] /\ flight'[t] = flight[t]
         /\ \A u \in Tasks \ {t} : Same(u)
         /\ lock' = lock
         /\ setting' = setting /\ issued' = issued /\ valid' = valid /\ expired' = expired
<1>1. TypeOK'
  BY TokenFacts DEF TypeOK, JobDone, Outcome, ForTask, JobStates, server
<1>2. QED
  BY <1>1 DEF JobDone, Outcome, ForTask, TypeOK, Same, server

LEMMA GrantFacts ==
  ASSUME TypeOK, NEW t \in Tasks, Grant(t)
  PROVE  /\ TypeOK'
         /\ flight[t] = "sent" /\ issued' = issued + 1
         /\ pc[t] \in Ended => flight'[t] = "none" /\ fresh'[t] = NoToken /\ current'[t] = NoToken
         /\ pc[t] \notin Ended =>
              /\ flight'[t] = "granted" /\ current'[t] = current[t]
              /\ fresh'[t] \in Tokens /\ fresh'[t].access = issued + 1
              /\ fresh'[t].login = IF t \in Logins THEN t ELSE current[t].login
              /\ fresh'[t].refresh = IF t \in Logins \/ setting.endpoint = "rotating"
                                     THEN issued + 1 ELSE current[t].refresh
         /\ t \in Calls => current[t].refresh \in valid
         /\ t \in Logins => valid' = valid \cup {issued + 1}
         /\ t \in Calls /\ setting.endpoint = "rotating" =>
              valid' = (valid \ {current[t].refresh}) \cup {issued + 1}
         /\ t \in Calls /\ setting.endpoint = "fixed" => valid' = valid
         /\ pc'[t] = pc[t] /\ force'[t] = force[t] /\ rejected'[t] = rejected[t] /\ access'[t] = access[t]
         /\ since'[t] = since[t] /\ job'[t] = job[t]
         /\ \A u \in Tasks \ {t} : Same(u)
         /\ lock' = lock /\ setting' = setting /\ store' = store /\ expired' = expired
<1> DEFINE refresh == RefreshTokenFrom(IF t \in Logins \/ setting.endpoint = "rotating"
                                       THEN issued + 1 ELSE 0, current[t].refresh)
           token == [access |-> issued + 1, refresh |-> refresh,
                     login |-> IF t \in Logins THEN t ELSE current[t].login]
<1>1. issued + 1 \in Nat /\ issued + 1 # 0 /\ current[t] \in Tokens
  BY DEF TypeOK
<1>2. refresh = IF t \in Logins \/ setting.endpoint = "rotating" THEN issued + 1 ELSE current[t].refresh
  BY <1>1 DEF RefreshTokenFrom
<1>3. current[t].refresh \in Nat /\ current[t].login \in Logins \cup {Nobody}
  BY <1>1, TokenFacts
<1>4. token \in Tokens
  BY <1>1, <1>2, <1>3, SettingFacts DEF Tokens
<1>5. fresh' = [fresh EXCEPT ![t] = ForTask(t, token)]
  BY DEF Grant
<1>6. fresh' \in [Tasks -> Tokens]
  BY <1>4, <1>5, TokenFacts DEF TypeOK, ForTask
<1>7. /\ t \in Logins => valid' = valid \cup {issued + 1}
      /\ t \in Calls /\ setting.endpoint = "rotating" =>
           valid' = (valid \ {current[t].refresh}) \cup {issued + 1}
      /\ t \in Calls /\ setting.endpoint = "fixed" => valid' = valid
      /\ issued' = issued + 1
  BY TaskFacts DEF Grant
<1>8. valid' \subseteq 1..issued'
  <2>1. issued \in Nat /\ valid \subseteq 1..issued
    BY DEF TypeOK
  <2>2. valid' \subseteq valid \cup {issued + 1}
    BY <1>7, SettingFacts, TaskFacts
  <2>3. QED
    BY <1>7, <2>1, <2>2
<1>9. TypeOK'
  <2>1. flight' \in [Tasks -> {"none", "sent", "granted", "refused"}]
    BY DEF TypeOK, Grant, Outcome
  <2>2. current' \in [Tasks -> Tokens]
    BY TokenFacts DEF TypeOK, Grant, ForTask
  <2>3. expired' \in 0..issued' /\ issued' \in Nat
    BY <1>7 DEF TypeOK, Grant
  <2>4. UNCHANGED <<setting, pc, force, rejected, access, since, job, lock, store>>
    BY DEF Grant
  <2>5. QED
    BY <1>6, <1>8, <2>1, <2>2, <2>3, <2>4 DEF TypeOK
<1>10. fresh'[t] = IF pc[t] \in Ended THEN NoToken ELSE token
  BY <1>5 DEF ForTask, TypeOK
<1>11. token.access = issued + 1 /\ token.refresh = refresh
       /\ token.login = IF t \in Logins THEN t ELSE current[t].login
  OBVIOUS
<1>12. /\ pc[t] \in Ended => flight'[t] = "none" /\ current'[t] = NoToken
       /\ pc[t] \notin Ended => flight'[t] = "granted" /\ current'[t] = current[t]
       /\ flight[t] = "sent" /\ (t \in Calls => current[t].refresh \in valid)
  BY DEF Grant, Outcome, ForTask, TypeOK
<1> HIDE DEF token, refresh
<1>13. /\ \A u \in Tasks \ {t} : Same(u)
       /\ pc'[t] = pc[t] /\ force'[t] = force[t] /\ rejected'[t] = rejected[t] /\ access'[t] = access[t]
       /\ since'[t] = since[t] /\ job'[t] = job[t]
       /\ lock' = lock /\ setting' = setting /\ store' = store /\ expired' = expired
  BY DEF Grant, TypeOK, Same
<1>14. QED
  BY <1>2, <1>4, <1>7, <1>9, <1>10, <1>11, <1>12, <1>13

\* A crash takes a task with it.
Wiped(u) ==
  /\ pc'[u] \in Ended /\ (pc[u] \in Ended => pc'[u] = pc[u]) /\ (pc[u] \notin Ended => pc'[u] = "failed")
  /\ force'[u] = FALSE /\ rejected'[u] = 0 /\ access'[u] = 0 /\ since'[u] = 0
  /\ flight'[u] = IF flight[u] = "sent" THEN "sent" ELSE "none"
  /\ current'[u] = IF flight[u] = "sent" THEN current[u] ELSE NoToken
  /\ fresh'[u] = NoToken /\ job'[u] = "none" /\ pc[u] # "idle"

LEMMA CrashFacts ==
  ASSUME TypeOK, NEW m \in Managers, Crash(m)
  PROVE  /\ TypeOK'
         /\ \A u \in Tasks : \/ Same(u) /\ (setting.manager[u] # m \/ pc[u] = "idle")
                             \/ Wiped(u) /\ setting.manager[u] = m
         /\ \A n \in Managers \ {m} : lock'[n] = lock[n]
         /\ ~Undisturbed
         /\ setting' = setting /\ store' = store /\ issued' = issued /\ valid' = valid /\ expired' = expired
<1>1. TypeOK'
  <2>1. /\ pc' \in [Tasks -> PCs] /\ force' \in [Tasks -> BOOLEAN]
        /\ rejected' \in [Tasks -> Nat] /\ access' \in [Tasks -> Nat] /\ since' \in [Tasks -> Nat]
    BY DEF TypeOK, Crash, PCs, Ended
  <2>2. current' \in [Tasks -> Tokens] /\ fresh' \in [Tasks -> Tokens]
    BY TokenFacts DEF TypeOK, Crash
  <2>3. job' \in [Tasks -> JobStates] /\ flight' \in [Tasks -> {"none", "sent", "granted", "refused"}]
    BY DEF TypeOK, Crash, JobStates
  <2>4. lock' \in [Managers -> Tasks \cup {Nobody}]
    BY DEF TypeOK, Crash
  <2>5. UNCHANGED <<setting, store, issued, valid, expired>>
    BY DEF Crash, server
  <2>6. QED
    BY <2>1, <2>2, <2>3, <2>4, <2>5 DEF TypeOK
<1>2. ASSUME NEW u \in Tasks
      PROVE  \/ Same(u) /\ (setting.manager[u] # m \/ pc[u] = "idle")
             \/ Wiped(u) /\ setting.manager[u] = m
  <2>1. CASE setting.manager[u] = m /\ pc[u] # "idle"
    BY <2>1 DEF Crash, TypeOK, Wiped, Ended
  <2>2. CASE ~(setting.manager[u] = m /\ pc[u] # "idle")
    <3>1. Same(u)
      BY <2>2 DEF Crash, TypeOK, Same
    <3>2. QED
      BY <2>2, <3>1
  <2>3. QED
    BY <2>1, <2>2
<1>3. \A n \in Managers \ {m} : lock'[n] = lock[n]
  BY DEF Crash, TypeOK
<1>4. ~Undisturbed
  BY DEF Crash, Undisturbed
<1>5. QED
  BY <1>1, <1>2, <1>3, <1>4 DEF Crash, server

LEMMA SwapFacts ==
  ASSUME TypeOK, NEW t \in Tasks, CompareAndSwap(t)
  PROVE  /\ job[t] = "swap"
         /\ \/ /\ store.refresh # current[t].refresh /\ store' = store
               /\ JobDone(t, "beaten")
            \/ /\ store.refresh = current[t].refresh /\ setting.store = "file" /\ store' = fresh[t]
               /\ JobDone(t, "written")
            \/ /\ store.refresh = current[t].refresh /\ setting.store = "memory"
               /\ job' = [job EXCEPT ![t] = "matched"]
               /\ UNCHANGED <<pc, task, flight, fresh, lock, store, server, expired>>
BY DEF CompareAndSwap

-----------------------------------------------------------------------------
(* The actions, one by one. *)

\* What a task, its threads and its request do, and what is done to them.
TaskAction(t) ==
  \/ EnterCall(t) \/ EnterLogin(t) \/ GetAccessToken(t) \/ Answered(t) \/ AcquireLock(t)
  \/ LoadCurrent(t) \/ Check(t) \/ ReadReply(t) \/ ReadSwapped(t) \/ ReloadLatest(t)
  \/ ReadSaved(t) \/ CompareAndSwap(t) \/ Write(t) \/ Grant(t) \/ Refuse(t)
  \/ Unauthorized(t) \/ TimeOut(t) \/ CancelTask(t) \/ StoreFails(t)
BrowserAction(l) ==
  \/ Open(l) \/ Listen(l) \/ NoConnection(l) \/ Connect(l) \/ Handle(l) \/ Deadline(l) \/ Leave(l)

LEMMA Steps ==
  ASSUME [LoginNext]_allVars
  PROVE  \/ \E t \in Tasks : TaskAction(t) /\ UNCHANGED loopback
         \/ \E m \in Managers : Crash(m) /\ UNCHANGED loopback
         \/ Expire /\ UNCHANGED loopback
         \/ \E l \in Logins : BrowserAction(l)
         \/ UNCHANGED allVars
BY DEF LoginNext, Next, Advance, Step, Thread, Endpoint, TaskAction, BrowserAction

\* What the browser's part of a login does to the tasks.
LEMMA BrowserFacts ==
  ASSUME TypeOK, NEW l \in Logins, BrowserAction(l)
  PROVE  \/ (pc[l] = "idle" \/ pc[l] = "browser") /\ Ends(l, "failed")
         \/ /\ pc[l] = "idle" /\ l \in setting.tasks /\ Goto(l, "browser")
            /\ UNCHANGED <<task, flight, fresh, job, lock, store, server, expired>>
         \/ pc[l] = "browser" /\ Exchange(l)
         \/ UNCHANGED vars
BY DEF BrowserAction, Open, Listen, NoConnection, Connect, Handle, Deadline, Leave

LEMMA TypesStep ==
  ASSUME TypeOK, [LoginNext]_allVars
  PROVE  TypeOK'
<1>1. ASSUME NEW t \in Tasks, TaskAction(t)
      PROVE  TypeOK'
  <2>1. CASE EnterCall(t) \/ EnterLogin(t)
    <3>1. CASE EnterCall(t)
      BY <3>1 DEF TypeOK, EnterCall, Goto, PCs, server
    <3>2. CASE EnterLogin(t)
      BY <3>2 DEF TypeOK, EnterLogin, Exchange, Goto, PCs, InRefresh, server
    <3>3. QED
      BY <2>1, <3>1, <3>2
  <2>2. CASE AcquireLock(t) \/ Unauthorized(t)
    <3>1. CASE AcquireLock(t)
      BY <3>1 DEF TypeOK, AcquireLock, Goto, PCs, InRefresh, task, server
    <3>2. CASE Unauthorized(t)
      BY <3>2 DEF TypeOK, Unauthorized, Goto, PCs, server
    <3>3. QED
      BY <2>2, <3>1, <3>2
  <2>3. CASE LoadCurrent(t)
    BY <2>3 DEF TypeOK, LoadCurrent, Goto, PCs, InRefresh, server
  <2>4. CASE Refuse(t)
    BY <2>4, TokenFacts DEF TypeOK, Refuse, Outcome, ForTask, server
  <2>5. CASE GetAccessToken(t)
    <3>1. CASE Ends(t, "failed")
      BY <3>1, EndsFacts DEF Ended
    <3>2. CASE ~Ends(t, "failed")
      BY <2>5, <3>2, TokenFacts DEF TypeOK, GetAccessToken, Goto, PCs, server
    <3>3. QED
      BY <3>1, <3>2
  <2>6. CASE Answered(t) \/ TimeOut(t) \/ CancelTask(t) \/ ReadSaved(t)
    BY <2>6, EndsFacts DEF Answered, TimeOut, CancelTask, ReadSaved, Ended
  <2>7. CASE Check(t)
    <3>1. CASE Ends(t, "failed") \/ RefreshReturns(t, current[t])
      BY <3>1, EndsFacts, ReturnsFacts DEF Ended, TypeOK
    <3>2. CASE ~(Ends(t, "failed") \/ RefreshReturns(t, current[t]))
      BY <2>7, <3>2 DEF TypeOK, Check, Goto, PCs, InRefresh, task, server
    <3>3. QED
      BY <3>1, <3>2
  <2>8. CASE ReadReply(t)
    <3>1. CASE Ends(t, "failed")
      BY <3>1, EndsFacts DEF Ended
    <3>2. CASE ~Ends(t, "failed")
      BY <2>8, <3>2 DEF TypeOK, ReadReply, Goto, PCs, InRefresh, JobStates, Working, task, server
    <3>3. QED
      BY <3>1, <3>2
  <2>9. CASE ReadSwapped(t)
    <3>1. CASE Ends(t, "failed") \/ RefreshReturns(t, fresh[t])
      BY <3>1, EndsFacts, ReturnsFacts DEF Ended, TypeOK
    <3>2. CASE ~(Ends(t, "failed") \/ RefreshReturns(t, fresh[t]))
      BY <2>9, <3>2 DEF TypeOK, ReadSwapped, Goto, PCs, InRefresh, task, server
    <3>3. QED
      BY <3>1, <3>2
  <2>10. CASE ReloadLatest(t)
    BY <2>10, EndsFacts, ReturnsFacts DEF ReloadLatest, Ended, TypeOK
  <2>11. CASE CompareAndSwap(t)
    <3>1. CASE job' = [job EXCEPT ![t] = "matched"]
               /\ UNCHANGED <<pc, task, flight, fresh, lock, store, server, expired>>
      BY <3>1 DEF TypeOK, JobStates, Working, task, server
    <3>2. CASE \E result \in {"written", "beaten"} : JobDone(t, result) /\ store' \in {store, fresh[t]}
      BY <3>2, JobDoneFacts DEF TypeOK
    <3>3. QED
      BY <2>11, <3>1, <3>2, SwapFacts
  <2>12. CASE Write(t) \/ StoreFails(t)
    BY <2>12, JobDoneFacts DEF Write, StoreFails, TypeOK
  <2>13. CASE Grant(t)
    BY <2>13, GrantFacts
  <2>14. QED
    BY <1>1, <2>3, <2>4, <2>1, <2>2, <2>5, <2>6, <2>7, <2>8, <2>9, <2>10, <2>11, <2>12, <2>13 DEF TaskAction
<1>2. ASSUME NEW m \in Managers, Crash(m)
      PROVE  TypeOK'
  BY <1>2, CrashFacts
<1>3. CASE Expire
  BY <1>3 DEF Expire, TypeOK, task, server
<1>4. ASSUME NEW l \in Logins, BrowserAction(l)
      PROVE  TypeOK'
  <2>1. l \in Tasks
    BY TaskFacts
  <2>2. CASE Ends(l, "failed")
    BY <2>1, <2>2, EndsFacts DEF Ended
  <2>3. CASE Exchange(l)
    BY <2>1, <2>3 DEF TypeOK, Exchange, Goto, PCs, InRefresh, server
  <2>4. CASE Goto(l, "browser") /\ UNCHANGED <<task, flight, fresh, job, lock, store, server, expired>>
    BY <2>1, <2>4 DEF TypeOK, Goto, PCs, task, server
  <2>5. CASE UNCHANGED vars
    BY <2>5 DEF TypeOK, vars
  <2>6. QED
    BY <1>4, <2>2, <2>3, <2>4, <2>5, BrowserFacts
<1>5. CASE UNCHANGED allVars
  BY <1>5 DEF TypeOK, allVars, vars
<1>6. QED
  BY <1>1, <1>2, <1>3, <1>4, <1>5, Steps

(* Every variable keeps its type.                                            *)
THEOREM LoginTypeCorrect == LoginSpec => []LoginTypeOK
<1>1. LoginInit => LoginTypeOK
  BY TokenFacts DEF LoginInit, Init, LoginTypeOK, TypeOK, PCs, JobStates, FirstToken
<1>2. LoginTypeOK /\ [LoginNext]_allVars => LoginTypeOK'
  <2> SUFFICES ASSUME LoginTypeOK, [LoginNext]_allVars
               PROVE  LoginTypeOK'
    OBVIOUS
  <2>1. TypeOK'
    BY TypesStep DEF LoginTypeOK
  <2>2. CASE UNCHANGED loopback
    BY <2>1, <2>2 DEF LoginTypeOK, loopback
  <2>3. ASSUME NEW l \in Logins, BrowserAction(l)
        PROVE  LoginTypeOK'
    BY <2>1, <2>3 DEF LoginTypeOK, BrowserAction, Open, Listen, NoConnection, Connect, Handle, Deadline,
                      Leave, loopback
  <2>4. CASE UNCHANGED allVars
    BY <2>1, <2>4 DEF LoginTypeOK, allVars, loopback
  <2>5. QED
    BY <2>2, <2>3, <2>4, Steps
<1>3. QED
  BY <1>1, <1>2, PTL DEF LoginSpec

(* An action of one task leaves what is another's alone.                     *)
LEMMA OneTaskMoves ==
  ASSUME TypeOK, NEW t \in Tasks,
         TaskAction(t) \/ (t \in Logins /\ BrowserAction(t))
  PROVE  /\ \A u \in Tasks \ {t} : Same(u)
         /\ LocksKept(t)
         /\ setting' = setting /\ expired' = expired
<1> DEFINE Goal == /\ \A u \in Tasks \ {t} : Same(u)
                   /\ LocksKept(t)
                   /\ setting' = setting /\ expired' = expired
<1>1. CASE Ends(t, "failed") \/ Ends(t, "done")
  BY <1>1, EndsFacts DEF Ended
<1>2. ASSUME NEW token \in Tokens, RefreshReturns(t, token)
      PROVE  Goal
  BY <1>2, ReturnsFacts
<1>3. ASSUME NEW result \in {"written", "beaten", "failed"}, JobDone(t, result), store' \in Tokens
      PROVE  Goal
  BY <1>3, JobDoneFacts DEF LocksKept
<1>4. CASE UNCHANGED vars
  BY <1>4 DEF vars, task, server, Same, LocksKept
<1>5. CASE EnterCall(t)
  BY <1>5 DEF EnterCall, Goto, TypeOK, server, Same, LocksKept
<1>6. CASE Exchange(t)
  BY <1>6 DEF Exchange, Goto, TypeOK, server, Same, LocksKept
<1>7. CASE GetAccessToken(t)
  BY <1>1, <1>7 DEF GetAccessToken, Goto, TypeOK, server, Same, LocksKept
<1>8. CASE AcquireLock(t)
  BY <1>8, TaskFacts DEF AcquireLock, Goto, TypeOK, task, server, Same, LocksKept
<1>9. CASE LoadCurrent(t)
  BY <1>9 DEF LoadCurrent, Goto, TypeOK, server, Same, LocksKept
<1>10. CASE Check(t)
  <2>1. current[t] \in Tokens
    BY DEF TypeOK
  <2>2. CASE Ends(t, "failed") \/ RefreshReturns(t, current[t])
    BY <1>1, <1>2, <2>1, <2>2
  <2>3. CASE ~(Ends(t, "failed") \/ RefreshReturns(t, current[t]))
    BY <1>10, <2>3 DEF Check, Goto, TypeOK, task, server, Same, LocksKept
  <2>4. QED
    BY <2>2, <2>3
<1>11. CASE ReadReply(t)
  <2>1. CASE Ends(t, "failed")
    BY <1>1, <2>1
  <2>2. CASE ~Ends(t, "failed")
    BY <1>11, <2>2 DEF ReadReply, Goto, TypeOK, task, server, Same, LocksKept
  <2>3. QED
    BY <2>1, <2>2
<1>12. CASE ReadSwapped(t)
  <2>1. fresh[t] \in Tokens
    BY DEF TypeOK
  <2>2. CASE Ends(t, "failed") \/ RefreshReturns(t, fresh[t])
    BY <1>1, <1>2, <2>1, <2>2
  <2>3. CASE ~(Ends(t, "failed") \/ RefreshReturns(t, fresh[t]))
    BY <1>12, <2>3 DEF ReadSwapped, Goto, TypeOK, task, server, Same, LocksKept
  <2>4. QED
    BY <2>2, <2>3
<1>13. CASE ReloadLatest(t)
  BY <1>1, <1>2, <1>13 DEF ReloadLatest, TypeOK
<1>14. CASE CompareAndSwap(t)
  <2>1. CASE job' = [job EXCEPT ![t] = "matched"]
             /\ UNCHANGED <<pc, task, flight, fresh, lock, store, server, expired>>
    BY <2>1 DEF TypeOK, task, server, Same, LocksKept
  <2>2. CASE \E result \in {"written", "beaten"} : JobDone(t, result) /\ store' \in {store, fresh[t]}
    BY <1>3, <2>2 DEF TypeOK
  <2>3. QED
    BY <1>14, <2>1, <2>2, SwapFacts
<1>15. CASE Write(t) \/ StoreFails(t)
  BY <1>3, <1>15 DEF Write, StoreFails, TypeOK
<1>16. CASE Grant(t)
  BY <1>16, GrantFacts DEF LocksKept
<1>17. CASE Refuse(t)
  BY <1>17 DEF Refuse, TypeOK, server, Same, LocksKept
<1>18. CASE Unauthorized(t)
  BY <1>18 DEF Unauthorized, Goto, TypeOK, server, Same, LocksKept
<1>19. CASE EnterLogin(t) \/ Answered(t) \/ ReadSaved(t) \/ TimeOut(t) \/ CancelTask(t)
  BY <1>1, <1>6, <1>19 DEF EnterLogin, Answered, ReadSaved, TimeOut, CancelTask
<1>20. CASE t \in Logins /\ BrowserAction(t)
  <2>1. CASE Goto(t, "browser") /\ UNCHANGED <<task, flight, fresh, job, lock, store, server, expired>>
    BY <2>1 DEF Goto, TypeOK, task, server, Same, LocksKept
  <2>2. QED
    BY <1>1, <1>4, <1>6, <1>20, <2>1, BrowserFacts
<1>21. QED
  BY <1>5, <1>7, <1>8, <1>9, <1>10, <1>11, <1>12, <1>13, <1>14, <1>15, <1>16, <1>17, <1>18, <1>19, <1>20
     DEF TaskAction

-----------------------------------------------------------------------------
(* Where requests, jobs and locks are.                                      *)

LEMMA EndsShape ==
  ASSUME TypeOK, NEW t \in Tasks, NEW how \in Ended, Ends(t, how), Shape(t), t \in setting.tasks,
         Undisturbed => ~LeftBehind(t)
  PROVE  Shape(t)'
BY EndsFacts, TaskFacts DEF Shape, Ended, Working, InRefresh, LeftBehind, Undisturbed

LEMMA ReturnsShape ==
  ASSUME TypeOK, NEW t \in Calls, NEW token \in Tokens, RefreshReturns(t, token), Shape(t),
         pc[t] \in InRefresh \ {"posting"}
  PROVE  Shape(t)'
<1>1. t \in Tasks /\ t \notin Logins /\ force[t] \in BOOLEAN
  BY TaskFacts DEF TypeOK
<1>2. flight[t] = "none" /\ t \in setting.tasks
  BY <1>1 DEF Shape, TypeOK, InRefresh, Ended
<1>3. /\ pc'[t] \in {"get", "using"} /\ flight'[t] = "none" /\ job'[t] = "none" /\ force'[t] = FALSE
      /\ setting' = setting
  BY <1>1, <1>2, ReturnsFacts
<1>4. QED
  BY <1>1, <1>2, <1>3 DEF Shape, Ended, Working, InRefresh, Undisturbed

LEMMA OwnShape ==
  ASSUME TypeOK, NEW t \in Tasks, Shape(t),
         TaskAction(t) \/ (t \in Logins /\ BrowserAction(t))
  PROVE  Shape(t)'
<1> USE TaskFacts
<1>1. ASSUME Ends(t, "failed") \/ Ends(t, "done"), t \in setting.tasks, Undisturbed => ~LeftBehind(t)
      PROVE  Shape(t)'
  BY <1>1, EndsShape DEF Ended
<1>2. CASE EnterCall(t)
  BY <1>2 DEF EnterCall, Goto, TypeOK, server, Shape, Ended, Working, InRefresh, Undisturbed
<1>3. ASSUME Exchange(t), t \in Logins, t \in setting.tasks, pc[t] \in {"idle", "browser"}
      PROVE  Shape(t)'
  BY <1>3 DEF Exchange, Goto, TypeOK, server, Shape, Ended, Working, InRefresh, Undisturbed
<1>4. CASE GetAccessToken(t)
  <2>1. CASE Ends(t, "failed")
    BY <1>1, <1>4, <2>1 DEF GetAccessToken, Shape, LeftBehind, Working, Ended
  <2>2. CASE ~Ends(t, "failed")
    BY <1>4, <2>2 DEF GetAccessToken, Goto, TypeOK, server, Shape, Ended, Working, InRefresh, Undisturbed
  <2>3. QED
    BY <2>1, <2>2
<1>5. CASE AcquireLock(t)
  BY <1>5, SettingFacts DEF AcquireLock, Goto, TypeOK, task, server, Shape, Ended, Working, InRefresh, Undisturbed
<1>6. CASE LoadCurrent(t)
  BY <1>6 DEF LoadCurrent, Goto, TypeOK, server, Shape, Ended, Working, InRefresh, Undisturbed
<1>7. CASE Check(t)
  <2>1. CASE Ends(t, "failed")
    BY <1>1, <1>7, <2>1 DEF Check, Shape, LeftBehind, Working, Ended
  <2>2. CASE RefreshReturns(t, current[t])
    <3>1. t \in Calls /\ current[t] \in Tokens /\ pc[t] \in InRefresh \ {"posting"}
      BY <1>7 DEF Check, Shape, InRefresh, Ended, TypeOK
    <3>2. QED
      BY <2>2, <3>1, ReturnsShape
  <2>3. CASE ~(Ends(t, "failed") \/ RefreshReturns(t, current[t]))
    <3>1. /\ pc'[t] = "posting" /\ flight'[t] = "sent" /\ pc[t] = "checking"
          /\ UNCHANGED <<force, rejected, current, job, lock, setting>>
      BY <1>7, <2>3 DEF Check, Goto, TypeOK, task, server
    <3>2. job[t] = "none" /\ t \in Calls
      BY <3>1 DEF Shape, TypeOK, JobStates, Working, Ended
    <3>3. QED
      BY <3>1, <3>2 DEF Shape, Ended, Working, InRefresh, Undisturbed
  <2>4. QED
    BY <2>1, <2>2, <2>3
<1>8. CASE ReadReply(t)
  <2>1. CASE flight[t] = "refused" /\ Ends(t, "failed")
    BY <1>1, <1>8, <2>1 DEF ReadReply, Shape, LeftBehind, Working, Ended
  <2>2. CASE ~(flight[t] = "refused" /\ Ends(t, "failed"))
    BY <1>8, <2>2 DEF ReadReply, Goto, TypeOK, task, server, Shape, Ended, Working, InRefresh, Undisturbed
  <2>3. QED
    BY <2>1, <2>2
<1>9. CASE ReadSwapped(t)
  <2>1. CASE job[t] = "failed" /\ Ends(t, "failed")
    BY <1>1, <1>9, <2>1 DEF ReadSwapped, Shape, LeftBehind, Working, Ended
  <2>2. CASE RefreshReturns(t, fresh[t])
    <3>1. t \in Calls /\ fresh[t] \in Tokens /\ pc[t] \in InRefresh \ {"posting"}
      BY <1>9 DEF ReadSwapped, Shape, InRefresh, Ended, TypeOK
    <3>2. QED
      BY <2>2, <3>1, ReturnsShape
  <2>3. CASE /\ job[t] = "beaten" /\ Goto(t, "reloading")
             /\ UNCHANGED <<task, flight, fresh, job, lock, store, server, expired>>
    <3>1. /\ pc'[t] = "reloading" /\ pc[t] = "swapping"
          /\ UNCHANGED <<force, rejected, current, job, flight, lock, setting>>
      BY <1>9, <2>3 DEF ReadSwapped, Goto, TypeOK, task, server
    <3>2. QED
      BY <2>3, <3>1 DEF Shape, Ended, Working, InRefresh, Undisturbed
  <2>4. QED
    BY <1>9, <2>1, <2>2, <2>3 DEF ReadSwapped
<1>10. CASE ReloadLatest(t)
  <2>1. CASE Ends(t, "failed")
    BY <1>1, <1>10, <2>1 DEF ReloadLatest, Shape, LeftBehind, Working, Ended
  <2>2. CASE RefreshReturns(t, store)
    BY <1>10, <2>2, ReturnsShape DEF ReloadLatest, Shape, InRefresh, Ended, TypeOK
  <2>3. QED
    BY <1>10, <2>1, <2>2 DEF ReloadLatest
<1>11. CASE ReadSaved(t) \/ Answered(t)
  BY <1>1, <1>11 DEF ReadSaved, Answered, Shape, LeftBehind, Working, Ended
<1>12. CASE TimeOut(t) \/ CancelTask(t)
  BY <1>1, <1>12 DEF TimeOut, CancelTask, Shape, Undisturbed
<1>13. ASSUME NEW result \in {"written", "beaten", "failed"}, JobDone(t, result), store' \in Tokens,
              job[t] \in Working,
              result = "beaten" => job[t] = "swap", result = "failed" => "store" \in setting.faults
       PROVE  Shape(t)'
  BY <1>13, JobDoneFacts DEF Shape, Ended, Working, InRefresh, Undisturbed
<1>14. CASE CompareAndSwap(t)
  <2>1. CASE setting.store = "memory" /\ job' = [job EXCEPT ![t] = "matched"]
             /\ UNCHANGED <<pc, task, flight, fresh, lock, store, server, expired>>
    BY <1>14, <2>1 DEF CompareAndSwap, TypeOK, task, server, Shape, Ended, Working, InRefresh, Undisturbed
  <2>2. CASE \E result \in {"written", "beaten"} : JobDone(t, result) /\ store' \in {store, fresh[t]}
    BY <1>13, <1>14, <2>2 DEF TypeOK, CompareAndSwap, Working
  <2>3. QED
    BY <1>14, <2>1, <2>2, SwapFacts
<1>15. CASE Write(t) \/ StoreFails(t)
  BY <1>13, <1>15 DEF Write, StoreFails, TypeOK, Working
<1>16. CASE Grant(t)
  BY <1>16, GrantFacts DEF Shape, Ended, Working, InRefresh, Undisturbed
<1>17. CASE Refuse(t)
  BY <1>17 DEF Refuse, Outcome, ForTask, TypeOK, server, Shape, Ended, Working, InRefresh, Undisturbed
<1>18. CASE Unauthorized(t)
  BY <1>18 DEF Unauthorized, Goto, TypeOK, server, Shape, Ended, Working, InRefresh, Undisturbed
<1>19. CASE EnterLogin(t)
  BY <1>3, <1>19 DEF EnterLogin
<1>20. CASE t \in Logins /\ BrowserAction(t)
  <2>1. CASE Open(t)
    <3>1. CASE Ends(t, "failed")
      BY <1>1, <2>1, <3>1 DEF Open, Shape, LeftBehind, Working, Ended
    <3>2. CASE ~Ends(t, "failed")
      BY <1>20, <2>1, <3>2 DEF Open, Goto, TypeOK, task, server, Shape, Ended, Working, InRefresh, Undisturbed
    <3>3. QED
      BY <3>1, <3>2
  <2>2. CASE Leave(t)
    <3>1. CASE Ends(t, "failed")
      BY <1>1, <2>2, <3>1 DEF Leave, Shape, LeftBehind, Working, Ended
    <3>2. QED
      BY <1>3, <1>20, <2>2, <3>1 DEF Leave, Shape
  <2>3. CASE UNCHANGED vars
    BY <2>3 DEF vars, Shape, Undisturbed
  <2>4. QED
    BY <1>20, <2>1, <2>2, <2>3 DEF BrowserAction, Listen, NoConnection, Connect, Handle, Deadline
<1>21. QED
  BY <1>2, <1>4, <1>5, <1>6, <1>7, <1>8, <1>9, <1>10, <1>11, <1>12, <1>14, <1>15, <1>16, <1>17, <1>18,
     <1>19, <1>20 DEF TaskAction

LEMMA OthersShape ==
  ASSUME TypeOK, NEW t \in Tasks, NEW u \in Tasks \ {t}, Shape(u), Same(u), LocksKept(t),
         setting' = setting
  PROVE  Shape(u)'
BY DEF Shape, Same, LocksKept, Undisturbed

LEMMA ShapesStep ==
  ASSUME TypeOK, Shapes, [LoginNext]_allVars
  PROVE  Shapes'
<1> USE TaskFacts
<1>1. ASSUME NEW t \in Tasks, TaskAction(t) \/ (t \in Logins /\ BrowserAction(t))
      PROVE  Shapes'
  BY <1>1, OwnShape, OthersShape, OneTaskMoves DEF Shapes
<1>2. ASSUME NEW m \in Managers, Crash(m), NEW u \in Tasks
      PROVE  Shape(u)'
  <2>1. setting' = setting /\ ~Undisturbed
    BY <1>2, CrashFacts
  <2>2. CASE Same(u) /\ (setting.manager[u] # m \/ pc[u] = "idle")
    <3>1. pc[u] \in InRefresh => lock'[setting.manager[u]] = lock[setting.manager[u]]
      BY <1>2, <2>2, CrashFacts, SettingFacts DEF InRefresh
    <3>2. QED
      BY <2>1, <2>2, <3>1 DEF Shapes, Shape, Same, Undisturbed
  <2>3. CASE Wiped(u)
    BY <2>1, <2>3 DEF Shapes, Shape, Wiped, Undisturbed, Ended, Working, InRefresh
  <2>4. QED
    BY <1>2, <2>2, <2>3, CrashFacts
<1>3. CASE Expire \/ UNCHANGED allVars
  BY <1>3 DEF Expire, allVars, vars, task, server, Shapes, Shape, Undisturbed
<1>4. QED
  BY <1>1, <1>2, <1>3, Steps DEF Shapes

LEMMA ShapeInvariant == LoginSpec => []Shapes
<1>1. LoginInit => Shapes
  BY DEF LoginInit, Init, Shapes, Shape, Ended, Working, InRefresh
<1>2. LoginTypeOK /\ Shapes /\ [LoginNext]_allVars => Shapes'
  BY ShapesStep DEF LoginTypeOK
<1>3. QED
  BY <1>1, <1>2, LoginTypeCorrect, PTL DEF LoginSpec

(* The store changes by the thread of a task, which writes its token.       *)
LEMMA StoreMoves ==
  ASSUME TypeOK, NEW t \in Tasks, TaskAction(t) \/ (t \in Logins /\ BrowserAction(t))
  PROVE  store' = store \/ (job[t] \in Working /\ store' = fresh[t])
<1>1. CASE Ends(t, "failed") \/ Ends(t, "done")
  BY <1>1 DEF Ends
<1>2. ASSUME NEW token \in Tokens, RefreshReturns(t, token)
      PROVE  store' = store
  BY <1>2 DEF RefreshReturns
<1>3. CASE EnterCall(t) \/ Exchange(t) \/ GetAccessToken(t) \/ AcquireLock(t) \/ LoadCurrent(t)
           \/ Grant(t) \/ Refuse(t) \/ Unauthorized(t) \/ StoreFails(t)
  BY <1>1, <1>3 DEF EnterCall, Exchange, GetAccessToken, AcquireLock, LoadCurrent, Grant, Refuse, Unauthorized,
                    StoreFails
<1>4. CASE EnterLogin(t) \/ Answered(t) \/ ReadSaved(t) \/ TimeOut(t) \/ CancelTask(t)
  BY <1>1, <1>3, <1>4 DEF EnterLogin, Answered, ReadSaved, TimeOut, CancelTask
<1>5. CASE Check(t) \/ ReadReply(t) \/ ReadSwapped(t) \/ ReloadLatest(t)
  BY <1>1, <1>2, <1>5 DEF Check, ReadReply, ReadSwapped, ReloadLatest, TypeOK
<1>6. CASE CompareAndSwap(t) \/ Write(t)
  BY <1>6 DEF CompareAndSwap, Write, Working
<1>7. CASE t \in Logins /\ BrowserAction(t)
  BY <1>1, <1>3, <1>7, BrowserFacts DEF vars
<1>8. QED
  BY <1>3, <1>4, <1>5, <1>6, <1>7 DEF TaskAction

-----------------------------------------------------------------------------
(* A token that a request is sent with was fresh when it was asked for.     *)

LEMMA OthersTimely ==
  ASSUME TypeOK, Timing, NEW t \in Tasks, NEW u \in Tasks \ {t}, Same(u), expired' = expired,
         store' = store \/ (job[t] \in Working /\ store' = fresh[t])
  PROVE  Timely(u)'
<1>1. since[u] \in Nat /\ expired \in Nat /\ fresh[t].access \in Nat /\ store.access \in Nat
  BY TokenFacts DEF TypeOK
<1>2. since[u] <= expired
  BY DEF Timing, Timely
<1>3. store' = store \/ store'.access > since[u]
  BY <1>1, <1>2 DEF Timing, Timely, Pending
<1>4. QED
  BY <1>3 DEF Timing, Timely, Pending, Unread, Same

LEMMA OwnTimely ==
  ASSUME TypeOK, Shapes, Timing, NEW t \in Tasks,
         TaskAction(t) \/ (t \in Logins /\ BrowserAction(t))
  PROVE  Timely(t)'
<1> USE TaskFacts
<1>1. /\ since[t] \in Nat /\ expired \in Nat /\ issued \in Nat /\ access[t] \in Nat
      /\ expired <= issued
      /\ fresh[t] \in Tokens /\ current[t] \in Tokens /\ store \in Tokens
      /\ fresh[t].access \in Nat /\ current[t].access \in Nat /\ store.access \in Nat
  BY TokenFacts DEF TypeOK
<1>2. Shape(t) /\ Timely(t)
  BY DEF Shapes, Timing
<1>3. CASE Ends(t, "failed") \/ Ends(t, "done")
  <2>1. /\ pc'[t] \in Ended /\ since'[t] = 0 /\ flight'[t] # "granted" /\ expired' = expired
        /\ job'[t] = IF job[t] \in Working THEN job[t] ELSE "none"
        /\ job[t] \in Working => fresh'[t] = fresh[t]
    BY <1>3, EndsFacts DEF Ended, LeftBehind
  <2>2. job[t] \in Working => fresh[t].access > expired
    BY <1>2 DEF Timely, Pending
  <2>3. QED
    BY <1>1, <2>1, <2>2 DEF Timely, Pending, Unread, Ended, Working
<1>4. ASSUME NEW token \in Tokens, RefreshReturns(t, token), flight[t] # "granted",
             force[t] = FALSE => token.access > since[t]
      PROVE  Timely(t)'
  <2>1. /\ force[t] = TRUE => pc'[t] = "get" /\ since'[t] = expired
        /\ force[t] = FALSE => pc'[t] = "using" /\ access'[t] = token.access /\ since'[t] = since[t]
        /\ flight'[t] # "granted" /\ job'[t] = "none" /\ expired' = expired
    BY <1>4, ReturnsFacts
  <2>2. force[t] \in BOOLEAN /\ since[t] <= expired
    BY <1>2 DEF TypeOK, Timely
  <2>3. QED
    BY <1>1, <1>4, <2>1, <2>2 DEF Timely, Pending, Unread, Working
<1>5. CASE EnterCall(t)
  BY <1>1, <1>2, <1>5 DEF EnterCall, Goto, TypeOK, server, Timely, Pending, Unread, Shape, Working
<1>6. CASE t \in Logins /\ Exchange(t)
  BY <1>1, <1>2, <1>6 DEF Exchange, Goto, TypeOK, server, Timely, Pending, Unread, Working
<1>7. CASE GetAccessToken(t)
  BY <1>1, <1>2, <1>3, <1>7 DEF GetAccessToken, ExpiresSoon, Goto, TypeOK, server, Timely, Pending, Unread, Shape,
                                Working, Ended
<1>8. CASE AcquireLock(t)
  BY <1>1, <1>2, <1>8 DEF AcquireLock, Goto, TypeOK, task, server, Timely, Pending, Unread
<1>9. CASE LoadCurrent(t)
  BY <1>1, <1>2, <1>9 DEF LoadCurrent, Goto, TypeOK, server, Timely, Pending, Unread
<1>10. CASE Check(t)
  <2>1. flight[t] # "granted" /\ job[t] = "none"
    BY <1>2, <1>10 DEF Check, Shape, Ended, Working, TypeOK, JobStates
  <2>2. CASE force[t] = FALSE /\ ~ExpiresSoon(current[t]) /\ RefreshReturns(t, current[t])
    <3>1. current[t].access > since[t]
      BY <1>1, <1>2, <2>2 DEF ExpiresSoon, Timely
    <3>2. QED
      BY <1>1, <1>4, <2>1, <2>2, <3>1
  <2>3. CASE Goto(t, "posting") /\ flight' = [flight EXCEPT ![t] = "sent"]
             /\ UNCHANGED <<task, fresh, job, lock, store, server, expired>>
    BY <1>1, <1>2, <1>10, <2>1, <2>3 DEF Check, Goto, TypeOK, task, server, Timely, Pending, Unread, Working
  <2>4. QED
    BY <1>3, <1>10, <2>2, <2>3 DEF Check, TypeOK
<1>11. CASE ReadReply(t)
  <2>1. CASE flight[t] = "granted" /\ pc[t] = "posting" /\ Goto(t, IF t \in Logins THEN "saving" ELSE "swapping")
             /\ flight' = [flight EXCEPT ![t] = "none"]
             /\ job' = [job EXCEPT ![t] = IF t \in Logins THEN "write" ELSE "swap"]
             /\ UNCHANGED <<task, fresh, lock, store, server, expired>>
    BY <1>1, <1>2, <2>1 DEF Goto, TypeOK, task, server, Timely, Pending, Unread, Working
  <2>2. QED
    BY <1>3, <1>11, <2>1 DEF ReadReply
<1>12. CASE ReadSwapped(t)
  <2>1. t \in Calls /\ flight[t] # "granted"
    BY <1>2, <1>12 DEF ReadSwapped, Shape, Ended
  <2>2. CASE RefreshReturns(t, fresh[t])
    BY <1>1, <1>2, <1>4, <1>12, <2>1, <2>2 DEF ReadSwapped, Timely
  <2>3. CASE job[t] = "beaten" /\ Goto(t, "reloading")
             /\ UNCHANGED <<task, flight, fresh, job, lock, store, server, expired>>
    BY <1>1, <1>2, <2>1, <2>3 DEF Goto, TypeOK, task, server, Timely, Pending, Unread, Working
  <2>4. QED
    BY <1>3, <1>12, <2>2, <2>3 DEF ReadSwapped
<1>13. CASE ReloadLatest(t)
  <2>1. t \in Calls /\ flight[t] # "granted" /\ pc[t] = "reloading"
    BY <1>2, <1>13 DEF ReloadLatest, Shape, Ended
  <2>2. CASE RefreshReturns(t, store)
    BY <1>1, <1>2, <1>4, <2>1, <2>2 DEF Timely
  <2>3. QED
    BY <1>3, <1>13, <2>2 DEF ReloadLatest
<1>14. CASE ReadSaved(t) \/ Answered(t) \/ TimeOut(t) \/ CancelTask(t)
  BY <1>3, <1>14 DEF ReadSaved, Answered, TimeOut, CancelTask
<1>15. ASSUME NEW result \in {"written", "failed"}, JobDone(t, result), store' \in {store, fresh[t]},
              job[t] \in Working
       PROVE  Timely(t)'
  <2>1. store' = store \/ store'.access > since[t]
    BY <1>1, <1>2, <1>15 DEF Timely, Pending
  <2>2. flight[t] # "granted" /\ pc[t] \notin {"checking", "posting", "reloading", "using"}
    BY <1>2, <1>15 DEF Shape, Ended, Working
  <2>3. store' \in Tokens
    BY <1>1, <1>15
  <2>4. QED
    BY <1>1, <1>2, <1>15, <2>1, <2>2, <2>3, JobDoneFacts DEF Timely, Pending, Unread, Working, Ended
<1>16. CASE CompareAndSwap(t)
  <2>1. CASE store.refresh # current[t].refresh /\ store' = store /\ JobDone(t, "beaten")
    <3>1. pc[t] \in {"swapping"} \cup Ended /\ flight[t] # "granted"
      BY <1>2, <1>16 DEF CompareAndSwap, Shape, Ended, Working
    <3>2. pc[t] = "swapping" /\ t \in Calls => store.access > since[t]
      BY <1>2, <2>1 DEF Timely
    <3>3. QED
      BY <1>1, <1>2, <2>1, <3>1, <3>2, JobDoneFacts DEF Timely, Pending, Unread, Working, Ended
  <2>2. CASE job' = [job EXCEPT ![t] = "matched"]
             /\ UNCHANGED <<pc, task, flight, fresh, lock, store, server, expired>>
    BY <1>1, <1>2, <1>16, <2>2 DEF CompareAndSwap, TypeOK, task, server, Timely, Pending, Unread, Working
  <2>3. QED
    BY <1>15, <1>16, <2>1, <2>2, SwapFacts DEF Working
<1>17. CASE Write(t) \/ StoreFails(t)
  BY <1>15, <1>17 DEF Write, StoreFails, Working
<1>18. CASE Grant(t)
  <2>1. job[t] = "none" /\ pc[t] \in {"posting"} \cup Ended
    BY <1>2, <1>18 DEF Grant, Shape
  <2>2. QED
    BY <1>1, <1>2, <1>18, <2>1, GrantFacts DEF Timely, Pending, Unread, Working, Ended
<1>19. CASE Refuse(t)
  <2>1. job[t] = "none" /\ pc[t] \in {"posting"} \cup Ended
    BY <1>2, <1>19 DEF Refuse, Shape
  <2>2. QED
    BY <1>1, <1>2, <1>19, <2>1 DEF Refuse, Outcome, ForTask, TypeOK, server, Timely, Pending, Unread, Working, Ended
<1>20. CASE Unauthorized(t)
  BY <1>1, <1>2, <1>20 DEF Unauthorized, Goto, TypeOK, server, Timely, Pending, Unread
<1>21. CASE EnterLogin(t)
  BY <1>6, <1>21 DEF EnterLogin
<1>22. CASE t \in Logins /\ BrowserAction(t)
  <2>1. CASE Goto(t, "browser") /\ UNCHANGED <<task, flight, fresh, job, lock, store, server, expired>>
    BY <1>1, <1>2, <1>22, <2>1 DEF Goto, TypeOK, task, server, Timely, Pending, Unread
  <2>2. CASE UNCHANGED vars
    BY <1>2, <2>2 DEF vars, Timely, Pending, Unread
  <2>3. QED
    BY <1>3, <1>6, <1>22, <2>1, <2>2, BrowserFacts
<1>23. QED
  BY <1>5, <1>7, <1>8, <1>9, <1>10, <1>11, <1>12, <1>13, <1>14, <1>16, <1>17, <1>18, <1>19, <1>20, <1>21,
     <1>22 DEF TaskAction

LEMMA TimingStep ==
  ASSUME TypeOK, Shapes, Timing, [LoginNext]_allVars
  PROVE  Timing'
<1> USE TaskFacts
<1>1. ASSUME NEW t \in Tasks, TaskAction(t) \/ (t \in Logins /\ BrowserAction(t))
      PROVE  Timing'
  BY <1>1, OwnTimely, OthersTimely, OneTaskMoves, StoreMoves DEF Timing
<1>2. ASSUME NEW m \in Managers, Crash(m), NEW u \in Tasks
      PROVE  Timely(u)'
  <2>1. store' = store /\ expired' = expired /\ expired \in Nat
    BY <1>2, CrashFacts DEF TypeOK
  <2>2. CASE Same(u)
    BY <2>1, <2>2 DEF Timing, Timely, Same, Pending, Unread
  <2>3. CASE Wiped(u)
    BY <2>1, <2>3 DEF Timely, Wiped, Pending, Unread, Ended, Working
  <2>4. QED
    BY <1>2, <2>2, <2>3, CrashFacts
<1>3. ASSUME Expire, NEW u \in Tasks
      PROVE  Timely(u)'
  <2>1. /\ expired' = issued /\ expired < issued /\ ~Pending(u) /\ ~Pending(u)'
        /\ since[u] \in Nat /\ issued \in Nat /\ expired \in Nat
    BY <1>3 DEF Expire, Pending, Unread, task, TypeOK
  <2>2. QED
    BY <1>3, <2>1 DEF Expire, task, Timing, Timely, Unread
<1>4. CASE UNCHANGED allVars
  BY <1>4 DEF allVars, vars, Timing, Timely, Pending, Unread
<1>5. QED
  BY <1>1, <1>2, <1>3, <1>4, Steps DEF Timing

LEMMA TimingInvariant == LoginSpec => []Timing
<1>1. LoginInit => Timing
  BY DEF LoginInit, Init, Timing, Timely, Pending, Unread, Working
<1>2. LoginTypeOK /\ Shapes /\ Timing /\ [LoginNext]_allVars => Timing'
  BY TimingStep DEF LoginTypeOK
<1>3. QED
  BY <1>1, <1>2, LoginTypeCorrect, ShapeInvariant, PTL DEF LoginSpec

(* No request is sent with a token that was due when it was asked for: the   *)
(* token of another task or process that get_access_token returns unchecked  *)
(* after losing the race was stored after this call read the store.          *)
THEOREM FreshWhenAsked == LoginSpec => []TokenFreshWhenAsked
<1>1. Timing => TokenFreshWhenAsked
  BY TaskFacts DEF Timing, Timely, TokenFreshWhenAsked
<1>2. QED
  BY <1>1, TimingInvariant, PTL

-----------------------------------------------------------------------------
(* How tokens get from one place to another.                                *)

TokenFlow(t) ==
  /\ current'[t] \in {NoToken, current[t], store}
  /\ rejected'[t] \in {0, rejected[t], access[t]}
  /\ access'[t] \in {0, access[t], store.access, current[t].access}
                       \cup (IF job[t] = "written" THEN {fresh[t].access} ELSE {})
  /\ \/ Grant(t)
     \/ /\ issued' = issued /\ valid' = valid /\ fresh'[t] \in {NoToken, fresh[t]}
        /\ Pending(t)' => Pending(t) /\ fresh'[t] = fresh[t] /\ current'[t] = current[t]
  /\ \/ store' = store
     \/ /\ job[t] \in Working /\ store' = fresh[t] /\ ~Pending(t)'
        /\ t \in Calls /\ setting.store = "file" => store.refresh = current[t].refresh
  /\ Undisturbed /\ Pending(t) =>
       \/ Pending(t)'
       \/ job[t] \in Working /\ store' = fresh[t]
       \/ t \in Calls /\ store' = store /\ store.refresh # current[t].refresh

LEMMA Flow ==
  ASSUME TypeOK, Shapes, NEW t \in Tasks,
         TaskAction(t) \/ (t \in Logins /\ BrowserAction(t))
  PROVE  TokenFlow(t)
<1> USE TaskFacts
<1>1. Shape(t)
  BY DEF Shapes
<1>2. ASSUME Ends(t, "failed") \/ Ends(t, "done"), Undisturbed => ~Pending(t)
      PROVE  TokenFlow(t)
  <2>1. /\ pc'[t] \in Ended /\ rejected'[t] = 0 /\ access'[t] = 0 /\ flight'[t] # "granted"
        /\ job'[t] = IF job[t] \in Working THEN job[t] ELSE "none"
        /\ current'[t] \in {NoToken, current[t]} /\ fresh'[t] \in {NoToken, fresh[t]}
        /\ job[t] \in Working => fresh'[t] = fresh[t] /\ current'[t] = current[t]
        /\ store' = store /\ issued' = issued /\ valid' = valid
    BY <1>2, EndsFacts DEF Ended, LeftBehind
  <2>2. Pending(t)' => job[t] \in Working
    BY <2>1 DEF Pending, Unread, Working
  <2>3. QED
    BY <1>2, <2>1, <2>2 DEF TokenFlow, Pending
<1>3. ASSUME NEW token \in Tokens, RefreshReturns(t, token), pc[t] \in InRefresh \ {"posting"},
             token \in {store, current[t]} \/ (job[t] = "written" /\ token = fresh[t]),
             job[t] \notin Working
      PROVE  TokenFlow(t)
  <2>1. /\ pc'[t] \in {"get", "using"} /\ rejected'[t] = rejected[t]
        /\ access'[t] \in {access[t], token.access}
        /\ current'[t] = NoToken /\ fresh'[t] = NoToken /\ job'[t] = "none"
        /\ store' = store /\ issued' = issued /\ valid' = valid
    BY <1>3, ReturnsFacts DEF TypeOK
  <2>2. ~Pending(t)' /\ ~Pending(t)
    BY <1>3, <2>1 DEF Pending, Unread, Working, InRefresh
  <2>3. access'[t] \in {0, access[t], store.access, current[t].access}
                         \cup (IF job[t] = "written" THEN {fresh[t].access} ELSE {})
    BY <1>3, <2>1
  <2>4. QED
    BY <2>1, <2>2, <2>3 DEF TokenFlow
<1>4. CASE EnterCall(t)
  BY <1>4 DEF EnterCall, Goto, TypeOK, server, TokenFlow, Pending, Unread
<1>5. ASSUME Exchange(t), pc[t] \in {"idle", "browser"}
      PROVE  TokenFlow(t)
  <2>1. ~Pending(t)
    BY <1>1, <1>5 DEF Shape, Pending, Unread, Working, Ended
  <2>2. QED
    BY <1>5, <2>1 DEF Exchange, Goto, TypeOK, server, TokenFlow, Pending, Unread
<1>6. CASE GetAccessToken(t)
  <2>1. CASE Ends(t, "failed")
    BY <1>1, <1>2, <1>6, <2>1 DEF GetAccessToken, Shape, Pending, Unread, Working, Ended
  <2>2. CASE ~Ends(t, "failed")
    BY <1>6, <2>2 DEF GetAccessToken, Goto, TypeOK, server, TokenFlow, Pending, Unread
  <2>3. QED
    BY <2>1, <2>2
<1>7. CASE AcquireLock(t) \/ LoadCurrent(t) \/ Unauthorized(t)
  <2>1. CASE AcquireLock(t)
    BY <2>1 DEF AcquireLock, Goto, TypeOK, task, server, TokenFlow, Pending, Unread
  <2>2. CASE LoadCurrent(t)
    BY <1>1, <2>2 DEF LoadCurrent, Goto, TypeOK, server, TokenFlow, Pending, Unread, Shape, Working, Ended
  <2>3. CASE Unauthorized(t)
    BY <2>3 DEF Unauthorized, Goto, TypeOK, server, TokenFlow, Pending, Unread
  <2>4. QED
    BY <1>7, <2>1, <2>2, <2>3
<1>8. CASE Check(t)
  <2>1. ~Pending(t) /\ job[t] = "none" /\ pc[t] = "checking" /\ current[t] \in Tokens
    BY <1>1, <1>8 DEF Check, Shape, Pending, Unread, Working, Ended, TypeOK, JobStates
  <2>2. CASE RefreshReturns(t, current[t])
    BY <1>3, <2>1, <2>2 DEF InRefresh, Working
  <2>3. CASE Goto(t, "posting") /\ flight' = [flight EXCEPT ![t] = "sent"]
             /\ UNCHANGED <<task, fresh, job, lock, store, server, expired>>
    BY <2>1, <2>3 DEF Goto, TypeOK, task, server, TokenFlow, Pending, Unread, Working
  <2>4. QED
    BY <1>2, <1>8, <2>1, <2>2, <2>3 DEF Check
<1>9. CASE ReadReply(t)
  <2>1. CASE flight[t] = "granted" /\ pc[t] = "posting"
             /\ job' = [job EXCEPT ![t] = IF t \in Logins THEN "write" ELSE "swap"]
             /\ UNCHANGED <<task, fresh, lock, store, server, expired>>
    BY <2>1 DEF TypeOK, task, server, TokenFlow, Pending, Unread, Working
  <2>2. CASE flight[t] = "refused" /\ Ends(t, "failed")
    BY <1>1, <1>2, <1>9, <2>2 DEF ReadReply, Shape, Pending, Unread, Working, Ended
  <2>3. QED
    BY <1>9, <2>1, <2>2 DEF ReadReply
<1>10. CASE ReadSwapped(t)
  <2>1. CASE job[t] = "written" /\ RefreshReturns(t, fresh[t])
    BY <1>3, <1>10, <2>1 DEF ReadSwapped, InRefresh, Working, TypeOK
  <2>2. CASE job[t] = "failed" /\ Ends(t, "failed")
    BY <1>2, <1>10, <2>2 DEF ReadSwapped, Pending, Unread, Working
  <2>3. CASE job[t] = "beaten" /\ Goto(t, "reloading")
             /\ UNCHANGED <<task, flight, fresh, job, lock, store, server, expired>>
    BY <1>10, <2>3 DEF ReadSwapped, Goto, TypeOK, task, server, TokenFlow, Pending, Unread, Working
  <2>4. QED
    BY <1>10, <2>1, <2>2, <2>3 DEF ReadSwapped
<1>11. CASE ReloadLatest(t)
  <2>1. ~Pending(t) /\ pc[t] = "reloading" /\ store \in Tokens /\ job[t] \notin Working
    BY <1>1, <1>11 DEF ReloadLatest, Shape, Pending, Unread, Working, Ended, TypeOK
  <2>2. QED
    BY <1>2, <1>3, <1>11, <2>1 DEF ReloadLatest, InRefresh
<1>12. CASE ReadSaved(t) \/ Answered(t)
  BY <1>1, <1>2, <1>12 DEF ReadSaved, Answered, Shape, Pending, Unread, Working, Ended
<1>13. CASE TimeOut(t) \/ CancelTask(t)
  BY <1>2, <1>13 DEF TimeOut, CancelTask, Undisturbed
<1>14. ASSUME NEW result \in {"written", "beaten", "failed"}, JobDone(t, result), job[t] \in Working,
              \/ store' = store /\ (result = "failed" => ~Undisturbed)
                 /\ (result # "failed" => t \in Calls /\ store.refresh # current[t].refresh)
              \/ store' = fresh[t]
                 /\ (t \in Calls /\ setting.store = "file" => store.refresh = current[t].refresh)
       PROVE  TokenFlow(t)
  <2>1. store' \in Tokens
    BY <1>14 DEF TypeOK
  <2>2. ~Pending(t)' /\ flight[t] # "granted"
    BY <1>1, <1>14, <2>1, JobDoneFacts DEF Shape, Pending, Unread, Working, Ended
  <2>3. QED
    BY <1>14, <2>1, <2>2, JobDoneFacts DEF TokenFlow, Working
<1>15. CASE CompareAndSwap(t)
  <2>1. CASE job' = [job EXCEPT ![t] = "matched"]
             /\ UNCHANGED <<pc, task, flight, fresh, lock, store, server, expired>>
    BY <1>15, <2>1 DEF CompareAndSwap, TypeOK, task, server, TokenFlow, Pending, Unread, Working
  <2>2. t \in Calls /\ job[t] \in Working
    BY <1>1, <1>15 DEF CompareAndSwap, Shape, Working
  <2>3. QED
    BY <1>14, <1>15, <2>1, <2>2, SwapFacts
<1>16. CASE Write(t)
  <2>1. t \in Calls => setting.store = "memory"
    BY <1>1, <1>16 DEF Write, Shape
  <2>2. QED
    BY <1>14, <1>16, <2>1 DEF Write, Working
<1>17. CASE StoreFails(t)
  BY <1>14, <1>17 DEF StoreFails, Undisturbed
<1>18. CASE Grant(t)
  <2>1. ~Pending(t)
    BY <1>1, <1>18 DEF Grant, Shape, Pending, Unread, Working
  <2>2. QED
    BY <1>18, <2>1, GrantFacts DEF TokenFlow
<1>19. CASE Refuse(t)
  <2>1. ~Pending(t)
    BY <1>1, <1>19 DEF Refuse, Shape, Pending, Unread, Working
  <2>2. QED
    BY <1>1, <1>19, <2>1 DEF Refuse, Outcome, ForTask, TypeOK, server, TokenFlow, Pending, Unread
<1>20. CASE t \in Logins /\ BrowserAction(t)
  <2>1. CASE pc[t] \in {"idle", "browser"} /\ Ends(t, "failed")
    BY <1>1, <1>2, <2>1 DEF Shape, Pending, Unread, Working, Ended
  <2>2. CASE Goto(t, "browser") /\ pc[t] = "idle"
             /\ UNCHANGED <<task, flight, fresh, job, lock, store, server, expired>>
    BY <2>2 DEF Goto, TypeOK, task, server, TokenFlow, Pending, Unread
  <2>3. CASE UNCHANGED vars
    BY <2>3 DEF vars, TokenFlow, Pending, Unread
  <2>4. QED
    BY <1>5, <1>20, <2>1, <2>2, <2>3, BrowserFacts
<1>21. QED
  BY <1>4, <1>5, <1>6, <1>7, <1>8, <1>9, <1>10, <1>11, <1>12, <1>13, <1>15, <1>16, <1>17, <1>18, <1>19, <1>20
     DEF TaskAction, EnterLogin

-----------------------------------------------------------------------------
(* A rejected token is not used again.                                       *)

LEMMA IssuedStep ==
  ASSUME TypeOK, Shapes, Issued, [LoginNext]_allVars
  PROVE  Issued'
<1> USE TaskFacts
<1>1. /\ issued \in Nat /\ store \in Tokens /\ store.access <= issued /\ store.refresh <= issued
      /\ NoToken.access = 0 /\ NoToken.refresh = 0
  BY DEF TypeOK, Issued, NoToken
<1> DEFINE Low(u) == /\ access[u] <= issued /\ rejected[u] <= issued
                     /\ current[u].access <= issued /\ fresh[u].access <= issued
                     /\ current[u].refresh <= issued /\ fresh[u].refresh <= issued
<1>2. \A u \in Tasks : /\ access[u] \in Nat /\ rejected[u] \in Nat
                       /\ current[u].access \in Nat /\ fresh[u].access \in Nat
                       /\ current[u].refresh \in Nat /\ fresh[u].refresh \in Nat
  BY TokenFacts DEF TypeOK
<1>3. \A u \in Tasks : Low(u)
  BY DEF Issued
<1>4. ASSUME NEW t \in Tasks, TaskAction(t) \/ (t \in Logins /\ BrowserAction(t))
      PROVE  Issued'
  <2>1. TokenFlow(t) /\ \A u \in Tasks \ {t} : Same(u)
    BY <1>4, Flow, OneTaskMoves
  <2>2. /\ issued' \in {issued, issued + 1}
        /\ fresh'[t].access <= issued' /\ fresh'[t].refresh <= issued'
    <3>1. CASE Grant(t)
      BY <1>1, <1>2, <1>3, <3>1, GrantFacts DEF TypeOK
    <3>2. CASE ~Grant(t)
      BY <1>1, <1>3, <2>1, <3>2 DEF TokenFlow
    <3>3. QED
      BY <3>1, <3>2
  <2>3. /\ access'[t] \in {0, access[t], store.access, current[t].access, fresh[t].access}
        /\ rejected'[t] \in {0, rejected[t], access[t]}
        /\ current'[t] \in {NoToken, current[t], store}
        /\ store' \in {store, fresh[t]}
    BY <2>1 DEF TokenFlow
  <2>4. Low(t) /\ issued <= issued' /\ issued' \in Nat
    BY <1>1, <1>3, <2>2
  <2>5. store'.access <= issued' /\ store'.refresh <= issued'
    <3>1. store'.access <= issued /\ store'.refresh <= issued
      BY <1>1, <2>3, <2>4
    <3>2. store'.access \in Nat /\ store'.refresh \in Nat
      BY <1>1, <1>2, <2>3, TokenFacts
    <3>3. QED
      BY <1>1, <2>4, <3>1, <3>2
  <2>6. Low(t)'
    <3>1. /\ access'[t] <= issued /\ rejected'[t] <= issued
          /\ current'[t].access <= issued /\ current'[t].refresh <= issued
      BY <1>1, <2>3, <2>4
    <3>2. /\ access'[t] \in Nat /\ rejected'[t] \in Nat
          /\ current'[t].access \in Nat /\ current'[t].refresh \in Nat
      BY <1>1, <1>2, <2>3, TokenFacts
    <3>3. QED
      BY <1>1, <2>2, <2>4, <3>1, <3>2
  <2>7. ASSUME NEW u \in Tasks \ {t}
        PROVE  Low(u)'
    BY <1>1, <1>2, <1>3, <2>1, <2>2 DEF Same
  <2>8. QED
    BY <2>5, <2>6, <2>7 DEF Issued
<1>5. ASSUME NEW m \in Managers, Crash(m)
      PROVE  Issued'
  <2>1. ASSUME NEW u \in Tasks
        PROVE  Low(u)'
    <3>1. issued' = issued /\ Low(u)
      BY <1>3, <1>5, CrashFacts
    <3>2. CASE Same(u)
      BY <3>1, <3>2 DEF Same
    <3>3. CASE Wiped(u)
      BY <1>1, <3>1, <3>3 DEF Wiped
    <3>4. QED
      BY <1>5, <3>2, <3>3, CrashFacts
  <2>2. QED
    BY <1>1, <1>5, <2>1, CrashFacts DEF Issued
<1>6. CASE Expire \/ UNCHANGED allVars
  BY <1>6 DEF Expire, allVars, vars, task, server, Issued
<1>7. QED
  BY <1>4, <1>5, <1>6, Steps

LEMMA UnseensStep ==
  ASSUME TypeOK, Shapes, Timing, Issued, Unseens, [LoginNext]_allVars
  PROVE  Unseens'
<1> USE TaskFacts
<1>1. /\ issued \in Nat /\ store.access \in Nat /\ NoToken.access = 0
      /\ \A u \in Tasks : /\ access[u] \in Nat /\ rejected[u] \in Nat
                          /\ current[u].access \in Nat /\ fresh[u].access \in Nat
  BY TokenFacts DEF TypeOK, NoToken
<1>2. /\ store.access <= issued
      /\ \A u \in Tasks : /\ access[u] <= issued /\ rejected[u] <= issued
                          /\ current[u].access <= issued /\ fresh[u].access <= issued
  BY DEF Issued
<1>3. \A v \in Tasks : Pending(v) => fresh[v].access # 0
  BY <1>1 DEF Timing, Timely, TypeOK
<1>4. ASSUME NEW t \in Tasks, TaskAction(t) \/ (t \in Logins /\ BrowserAction(t)), NEW v \in Tasks, Pending(v)'
      PROVE  Unseen(v)'
  <2>1. TokenFlow(t) /\ \A u \in Tasks \ {t} : Same(u)
    BY <1>4, Flow, OneTaskMoves
  <2>2. v # t => Pending(v) /\ fresh'[v] = fresh[v]
    BY <1>4, <2>1 DEF Same, Pending, Unread
  <2>3. CASE Grant(t)
    <3>1. /\ store' = store /\ access'[t] = access[t] /\ rejected'[t] = rejected[t]
          /\ current'[t] \in {NoToken, current[t]}
          /\ fresh'[t].access = issued + 1 \/ (fresh'[t].access = 0 /\ ~Pending(t)')
      BY <1>1, <2>3, GrantFacts DEF Pending, Unread, Working, Shapes, Shape, Grant
    <3>2. CASE v = t
      BY <1>1, <1>2, <1>4, <2>1, <3>1, <3>2 DEF Unseen, Same
    <3>3. CASE v # t
      BY <1>1, <1>2, <1>3, <2>1, <2>2, <3>1, <3>3 DEF Unseens, Unseen, Same
    <3>4. QED
      BY <3>2, <3>3
  <2>4. CASE ~Grant(t)
    <3>1. CASE v = t
      <4>1. /\ Pending(t) /\ fresh'[t] = fresh[t] /\ current'[t] = current[t] /\ store' = store
            /\ job[t] # "written"
        BY <1>4, <2>1, <2>4, <3>1 DEF TokenFlow, Pending, Unread, Working, Shapes, Shape
      <4>2. access'[t] \in {0, access[t], store.access, current[t].access}
        BY <2>1, <4>1 DEF TokenFlow
      <4>3. rejected'[t] \in {0, rejected[t], access[t]}
        BY <2>1 DEF TokenFlow
      <4>4. QED
        BY <1>3, <2>1, <3>1, <4>1, <4>2, <4>3 DEF Unseens, Unseen, Same
    <3>2. CASE v # t
      <4>1. /\ access'[t] \in {0, access[t], store.access, current[t].access, fresh[t].access}
            /\ rejected'[t] \in {0, rejected[t], access[t]}
            /\ current'[t] \in {NoToken, current[t], store}
            /\ fresh'[t] \in {NoToken, fresh[t]}
            /\ store' \in {store, fresh[t]}
        BY <2>1, <2>4 DEF TokenFlow
      <4>2. QED
        BY <1>1, <1>3, <2>1, <2>2, <3>2, <4>1 DEF Unseens, Unseen, Same
    <3>3. QED
      BY <3>1, <3>2
  <2>5. QED
    BY <2>3, <2>4
<1>5. ASSUME NEW m \in Managers, Crash(m), NEW v \in Tasks, Pending(v)'
      PROVE  Unseen(v)'
  <2>1. Same(v)
    BY <1>5, CrashFacts DEF Wiped, Pending, Unread, Working, Ended
  <2>2. Pending(v) /\ fresh'[v] = fresh[v] /\ store' = store
    BY <1>5, <2>1, CrashFacts DEF Same, Pending, Unread
  <2>3. ASSUME NEW u \in Tasks
        PROVE  /\ access'[u] \in {0, access[u]} /\ rejected'[u] \in {0, rejected[u]}
               /\ current'[u] \in {NoToken, current[u]} /\ fresh'[u] \in {NoToken, fresh[u]}
    BY <1>5, CrashFacts DEF Same, Wiped
  <2>4. QED
    BY <1>1, <1>3, <2>2, <2>3 DEF Unseens, Unseen
<1>6. CASE Expire \/ UNCHANGED allVars
  BY <1>6 DEF Expire, allVars, vars, task, server, Unseens, Unseen, Pending, Unread
<1>7. QED
  BY <1>4, <1>5, <1>6, Steps DEF Unseens, Unseen

LEMMA OthersDropped ==
  ASSUME TypeOK, Unseens, Drops, NEW t \in Tasks, NEW u \in Tasks \ {t}, Same(u),
         store' = store \/ (job[t] \in Working /\ store' = fresh[t])
  PROVE  Dropped(u)'
<1>1. Dropped(u)
  BY DEF Drops
<1>2. store' = store \/ store'.access # rejected[u]
  BY DEF Unseens, Unseen, Pending
<1>3. QED
  BY <1>1, <1>2 DEF Dropped, Same

LEMMA OwnDropped ==
  ASSUME TypeOK, Shapes, Issued, Unseens, Drops, NEW t \in Tasks,
         TaskAction(t) \/ (t \in Logins /\ BrowserAction(t))
  PROVE  Dropped(t)'
<1> USE TaskFacts
<1>1. /\ Shape(t) /\ Dropped(t)
      /\ rejected[t] \in Nat /\ access[t] \in Nat /\ force[t] \in BOOLEAN
      /\ issued \in Nat /\ rejected[t] <= issued
      /\ fresh[t] \in Tokens /\ current[t] \in Tokens /\ store \in Tokens
      /\ NoToken.access = 0
  BY DEF TypeOK, Shapes, Drops, Issued, NoToken
<1>2. job[t] \in Working => fresh[t].access # rejected[t]
  BY DEF Unseens, Unseen, Pending
<1>3. CASE Ends(t, "failed") \/ Ends(t, "done")
  BY <1>3, EndsFacts DEF Dropped, Ended
<1>4. ASSUME NEW token \in Tokens, RefreshReturns(t, token), rejected[t] # 0 => token.access # rejected[t],
             rejected[t] # 0 /\ force[t] = TRUE => store.access # rejected[t]
      PROVE  Dropped(t)'
  <2>1. CASE force[t] = TRUE
    BY <1>1, <1>4, <2>1, ReturnsFacts DEF Dropped
  <2>2. CASE force[t] = FALSE
    BY <1>1, <1>4, <2>2, ReturnsFacts DEF Dropped
  <2>3. QED
    BY <1>1, <2>1, <2>2
<1>5. CASE t \in Logins
  <2>1. force[t] = FALSE /\ rejected[t] = 0
    BY <1>1, <1>5 DEF Shape
  <2>2. Shape(t)'
    BY <1>1, OwnShape
  <2>3. QED
    BY <1>5, <2>2 DEF Shape, Dropped
<1>6. CASE EnterCall(t)
  BY <1>1, <1>6 DEF EnterCall, Goto, TypeOK, server, Shape, Dropped
<1>7. CASE GetAccessToken(t)
  BY <1>1, <1>3, <1>7 DEF GetAccessToken, Goto, TypeOK, server, Dropped
<1>8. CASE AcquireLock(t)
  BY <1>1, <1>8 DEF AcquireLock, Goto, TypeOK, task, server, Dropped
<1>9. CASE LoadCurrent(t)
  BY <1>1, <1>9 DEF LoadCurrent, Goto, TypeOK, server, Dropped
<1>10. CASE Check(t)
  <2>1. CASE ~force[t] /\ RefreshReturns(t, current[t])
    <3>1. rejected[t] # 0 => current[t].access # rejected[t]
      BY <1>1, <2>1 DEF Dropped
    <3>2. QED
      BY <1>1, <1>4, <2>1, <3>1
  <2>2. CASE Goto(t, "posting") /\ flight' = [flight EXCEPT ![t] = "sent"]
             /\ UNCHANGED <<task, fresh, job, lock, store, server, expired>>
    BY <1>1, <1>10, <2>2 DEF Check, Goto, TypeOK, task, server, Dropped
  <2>3. QED
    BY <1>3, <1>10, <2>1, <2>2 DEF Check
<1>11. CASE t \in Calls /\ ReadReply(t)
  <2>1. CASE Goto(t, "swapping") /\ job' = [job EXCEPT ![t] = "swap"] /\ pc[t] = "posting"
             /\ UNCHANGED <<task, fresh, lock, store, server, expired>>
    BY <1>1, <2>1 DEF Goto, TypeOK, task, server, Dropped
  <2>2. QED
    BY <1>3, <1>11, <2>1 DEF ReadReply
<1>12. CASE ReadSwapped(t)
  <2>1. CASE job[t] = "written" /\ RefreshReturns(t, fresh[t])
    <3>1. rejected[t] # 0 /\ force[t] = FALSE => fresh[t].access # rejected[t]
      BY <1>1 DEF Dropped
    <3>2. rejected[t] # 0 => store.access # rejected[t]
      BY <1>1, <2>1 DEF Dropped
    <3>3. CASE force[t] = TRUE
      BY <1>1, <2>1, <3>2, <3>3, ReturnsFacts DEF Dropped
    <3>4. CASE force[t] = FALSE
      BY <1>1, <1>4, <2>1, <3>1, <3>4
    <3>5. QED
      BY <1>1, <3>3, <3>4
  <2>2. CASE job[t] = "beaten" /\ Goto(t, "reloading") /\ pc[t] = "swapping"
             /\ UNCHANGED <<task, flight, fresh, job, lock, store, server, expired>>
    BY <1>1, <2>2 DEF Goto, TypeOK, task, server, Dropped
  <2>3. QED
    BY <1>3, <1>12, <2>1, <2>2 DEF ReadSwapped
<1>13. CASE ReloadLatest(t)
  <2>1. rejected[t] # 0 => store.access # rejected[t]
    BY <1>1, <1>13 DEF ReloadLatest, Dropped
  <2>2. QED
    BY <1>1, <1>3, <1>4, <1>13, <2>1 DEF ReloadLatest
<1>14. CASE ReadSaved(t) \/ Answered(t) \/ TimeOut(t) \/ CancelTask(t)
  BY <1>3, <1>14 DEF ReadSaved, Answered, TimeOut, CancelTask
<1>15. ASSUME NEW result \in {"written", "failed"}, JobDone(t, result), job[t] \in Working,
              store' = IF result = "written" THEN fresh[t] ELSE store
       PROVE  Dropped(t)'
  <2>1. store' \in Tokens
    BY <1>1, <1>15
  <2>2. CASE pc[t] \in Ended
    BY <1>1, <1>15, <2>1, <2>2, JobDoneFacts DEF Dropped, Shape, Ended
  <2>3. CASE pc[t] \notin Ended
    BY <1>1, <1>2, <1>15, <2>1, <2>3, JobDoneFacts DEF Dropped, Shape, Ended
  <2>4. QED
    BY <2>2, <2>3
<1>16. CASE CompareAndSwap(t)
  <2>1. CASE store.refresh # current[t].refresh /\ store' = store /\ JobDone(t, "beaten")
    <3>1. pc[t] \in {"swapping"} \cup Ended
      BY <1>1, <1>16 DEF CompareAndSwap, Shape, Working
    <3>2. CASE pc[t] \in Ended
      BY <1>1, <2>1, <3>2, JobDoneFacts DEF Dropped, Shape, Ended
    <3>3. CASE pc[t] = "swapping"
      BY <1>1, <2>1, <3>3, JobDoneFacts DEF Dropped, Ended
    <3>4. QED
      BY <3>1, <3>2, <3>3
  <2>2. CASE job' = [job EXCEPT ![t] = "matched"]
             /\ UNCHANGED <<pc, task, flight, fresh, lock, store, server, expired>>
    BY <1>1, <2>2 DEF TypeOK, task, server, Dropped
  <2>3. QED
    BY <1>15, <1>16, <2>1, <2>2, SwapFacts DEF Working
<1>17. CASE Write(t) \/ StoreFails(t)
  BY <1>15, <1>17 DEF Write, StoreFails, Working
<1>18. CASE Grant(t)
  <2>1. pc[t] \in Ended => rejected[t] = 0 /\ force[t] = FALSE
    BY <1>1 DEF Shape
  <2>2. pc[t] \notin Ended => fresh'[t].access # rejected[t] /\ current'[t] = current[t]
    BY <1>1, <1>18, GrantFacts
  <2>3. /\ rejected'[t] = rejected[t] /\ force'[t] = force[t] /\ access'[t] = access[t] /\ pc'[t] = pc[t]
        /\ job'[t] = job[t] /\ store' = store
    BY <1>18, GrantFacts
  <2>4. QED
    BY <1>1, <2>1, <2>2, <2>3 DEF Dropped, Ended
<1>19. CASE Refuse(t)
  <2>1. pc[t] \in Ended => rejected[t] = 0 /\ force[t] = FALSE
    BY <1>1 DEF Shape
  <2>2. pc[t] \notin Ended => current'[t] = current[t]
    BY <1>19 DEF Refuse, ForTask, TypeOK
  <2>3. UNCHANGED <<pc, force, rejected, access, fresh, job, store>>
    BY <1>19 DEF Refuse
  <2>4. QED
    BY <1>1, <2>1, <2>2, <2>3 DEF Dropped, Ended
<1>20. CASE Unauthorized(t)
  <2>1. job[t] = "none"
    BY <1>1, <1>20 DEF Unauthorized, Shape, TypeOK, JobStates, Working, Ended
  <2>2. QED
    BY <1>1, <1>20, <2>1 DEF Unauthorized, Goto, TypeOK, server, Dropped
<1>21. QED
  BY <1>5, <1>6, <1>7, <1>8, <1>9, <1>10, <1>11, <1>12, <1>13, <1>14, <1>16, <1>17, <1>18, <1>19, <1>20
     DEF TaskAction, EnterLogin

LEMMA DropsStep ==
  ASSUME TypeOK, Shapes, Issued, Unseens, Drops, [LoginNext]_allVars
  PROVE  Drops'
<1> USE TaskFacts
<1>1. ASSUME NEW t \in Tasks, TaskAction(t) \/ (t \in Logins /\ BrowserAction(t))
      PROVE  Drops'
  BY <1>1, OwnDropped, OthersDropped, OneTaskMoves, StoreMoves DEF Drops
<1>2. ASSUME NEW m \in Managers, Crash(m), NEW u \in Tasks
      PROVE  Dropped(u)'
  <2>1. store' = store /\ Dropped(u)
    BY <1>2, CrashFacts DEF Drops
  <2>2. CASE Same(u)
    BY <2>1, <2>2 DEF Dropped, Same
  <2>3. CASE Wiped(u)
    BY <2>3 DEF Dropped, Wiped
  <2>4. QED
    BY <1>2, <2>2, <2>3, CrashFacts
<1>3. CASE Expire \/ UNCHANGED allVars
  BY <1>3 DEF Expire, allVars, vars, task, server, Drops, Dropped
<1>4. QED
  BY <1>1, <1>2, <1>3, Steps DEF Drops

LEMMA PlacesInvariant == LoginSpec => [](Issued /\ Unseens /\ Drops)
<1>1. LoginInit => Issued /\ Unseens /\ Drops
  BY DEF LoginInit, Init, Issued, Unseens, Unseen, Drops, Dropped, Pending, Unread, Working, NoToken, FirstToken
<1>2. LoginTypeOK /\ Shapes /\ Timing /\ (Issued /\ Unseens /\ Drops) /\ [LoginNext]_allVars
        => (Issued /\ Unseens /\ Drops)'
  BY IssuedStep, UnseensStep, DropsStep DEF LoginTypeOK
<1>3. QED
  BY <1>1, <1>2, LoginTypeCorrect, ShapeInvariant, TimingInvariant, PTL DEF LoginSpec

(* After a 401 and the refresh it forces, no request is sent with the token  *)
(* that was refused, whoever has stored what in the meantime.                *)
THEOREM RejectedNotUsedAgain == LoginSpec => []RejectedTokenDropped
<1>1. TypeOK /\ Drops => RejectedTokenDropped
  <2> SUFFICES ASSUME TypeOK, Drops, NEW t \in Calls, pc[t] = "using", rejected[t] # 0
               PROVE  access[t] # rejected[t]
    BY DEF RejectedTokenDropped
  <2>1. Dropped(t) /\ force[t] \in BOOLEAN
    BY TaskFacts DEF Drops, TypeOK
  <2>2. QED
    BY <2>1 DEF Dropped
<1>2. QED
  BY <1>1, PlacesInvariant, LoginTypeCorrect, PTL DEF LoginTypeOK

-----------------------------------------------------------------------------
(* A login is kept.                                                          *)

LEMMA HeldMoves ==
  ASSUME TypeOK, Shapes, NEW t \in Tasks,
         TaskAction(t) \/ (t \in Logins /\ BrowserAction(t)), NEW x \in Held'
  PROVE  x \in Held \/ (Grant(t) /\ pc[t] \notin Ended /\ x = fresh'[t])
<1>1. TokenFlow(t) /\ \A u \in Tasks \ {t} : Same(u)
  BY Flow, OneTaskMoves
<1>2. /\ current'[t] \in {NoToken, current[t], store} /\ store' \in {store, fresh[t]}
      /\ fresh'[t] \in {NoToken, fresh[t]} \/ (Grant(t) /\ pc[t] \notin Ended)
  BY <1>1, GrantFacts DEF TokenFlow
<1>3. \/ x \in {NoToken, store'}
      \/ \E u \in Tasks : x = current'[u]
      \/ \E u \in Tasks : x = fresh'[u]
  BY DEF Held
<1>4. QED
  BY <1>1, <1>2, <1>3 DEF Held, Same

LEMMA HeldFacts ==
  ASSUME TypeOK, Issued, NEW x \in Held
  PROVE  x.refresh \in Nat /\ x.refresh <= issued
BY TokenFacts DEF TypeOK, Issued, Held, NoToken

LEMMA HeldAfterCrash ==
  ASSUME TypeOK, NEW m \in Managers, Crash(m)
  PROVE  Held' \subseteq Held
<1>1. store' = store /\ \A u \in Tasks : /\ current'[u] \in {NoToken, current[u]}
                                         /\ fresh'[u] \in {NoToken, fresh[u]}
  BY CrashFacts DEF Same, Wiped
<1>2. QED
  BY <1>1 DEF Held

LEMMA LineagesStep ==
  ASSUME TypeOK, Shapes, Issued, OneLogin, Rotated, [LoginNext]_allVars
  PROVE  OneLogin' /\ Rotated'
<1> USE TaskFacts
<1>1. ASSUME NEW t \in Tasks, TaskAction(t) \/ (t \in Logins /\ BrowserAction(t))
      PROVE  OneLogin' /\ Rotated'
  <2> DEFINE New(x) == Grant(t) /\ pc[t] \notin Ended /\ x = fresh'[t]
  <2>1. setting' = setting /\ \A x \in Held' : x \in Held \/ New(x)
    BY <1>1, HeldMoves, OneTaskMoves
  <2>2. ASSUME NEW x \in Held', New(x), NEW y \in Held, x.refresh = y.refresh
        PROVE  x.login = y.login
    <3>1. y.refresh # issued + 1
      BY HeldFacts DEF TypeOK
    <3>2. x.refresh = current[t].refresh /\ x.login = current[t].login
      BY <2>2, <3>1, GrantFacts
    <3>3. current[t] \in Held
      BY DEF Held
    <3>4. QED
      BY <2>2, <3>2, <3>3 DEF OneLogin
  <2>3. OneLogin'
    <3> SUFFICES ASSUME NEW x \in Held', NEW y \in Held', x.refresh = y.refresh
                 PROVE  x.login = y.login
      BY DEF OneLogin
    <3>1. CASE x \in Held /\ y \in Held
      BY <3>1 DEF OneLogin
    <3>2. CASE New(x) /\ New(y)
      BY <3>2
    <3>3. CASE New(x) /\ y \in Held
      BY <2>2, <3>3
    <3>4. CASE x \in Held /\ New(y)
      BY <2>2, <3>4
    <3>5. QED
      BY <2>1, <3>1, <3>2, <3>3, <3>4
  <2>4. ASSUME setting.endpoint = "rotating", NEW x \in Held'
        PROVE  x.refresh = x.access
    BY <2>1, <2>4, GrantFacts DEF Rotated
  <2>5. QED
    BY <2>1, <2>3, <2>4 DEF Rotated
<1>2. ASSUME NEW m \in Managers, Crash(m)
      PROVE  OneLogin' /\ Rotated'
  BY <1>2, HeldAfterCrash, CrashFacts DEF OneLogin, Rotated
<1>3. CASE Expire \/ UNCHANGED allVars
  BY <1>3 DEF Expire, allVars, vars, task, server, OneLogin, Rotated, Held
<1>4. QED
  BY <1>1, <1>2, <1>3, Steps

LEMMA HeirsStep ==
  ASSUME TypeOK, Shapes, Heirs, [LoginNext]_allVars
  PROVE  Heirs'
<1> USE TaskFacts
<1> DEFINE Heir(v) == /\ v \in Calls => fresh[v].login = current[v].login
                      /\ v \in Logins => fresh[v].login = v
<1>1. ASSUME NEW t \in Tasks, TaskAction(t) \/ (t \in Logins /\ BrowserAction(t)), NEW v \in Tasks, Pending(v)'
      PROVE  Heir(v)'
  <2>1. TokenFlow(t) /\ \A u \in Tasks \ {t} : Same(u)
    BY <1>1, Flow, OneTaskMoves
  <2>2. CASE v # t
    BY <1>1, <2>1, <2>2 DEF Heirs, Same, Pending, Unread
  <2>3. CASE v = t /\ Grant(t)
    <3>1. job[t] = "none"
      BY <2>3 DEF Grant, Shapes, Shape
    <3>2. pc[t] \notin Ended
      BY <1>1, <2>3, <3>1, GrantFacts DEF Pending, Unread, Working
    <3>3. QED
      BY <2>3, <3>2, GrantFacts
  <2>4. CASE v = t /\ ~Grant(t)
    BY <1>1, <2>1, <2>4 DEF Heirs, TokenFlow
  <2>5. QED
    BY <2>2, <2>3, <2>4
<1>2. ASSUME NEW m \in Managers, Crash(m), NEW v \in Tasks, Pending(v)'
      PROVE  Heir(v)'
  <2>1. Same(v)
    BY <1>2, CrashFacts DEF Wiped, Pending, Unread, Working, Ended
  <2>2. QED
    BY <1>2, <2>1 DEF Heirs, Same, Pending, Unread
<1>3. CASE Expire \/ UNCHANGED allVars
  BY <1>3 DEF Expire, allVars, vars, task, server, Heirs, Pending, Unread
<1>4. QED
  BY <1>1, <1>2, <1>3, Steps DEF Heirs

\* A login reports success only after its token has been stored.
LEMMA LoginsEnd ==
  ASSUME TypeOK, Shapes, NEW l \in Logins, TaskAction(l) \/ BrowserAction(l),
         pc'[l] = "done" \/ job'[l] = "written"
  PROVE  pc[l] = "done" \/ job[l] = "written" \/ (job[l] \in Working /\ store' = fresh[l])
<1>1. l \in Tasks /\ l \notin Calls /\ Shape(l)
  BY TaskFacts DEF Shapes
<1>2. pc[l] \in {"idle", "browser", "posting", "saving", "done", "failed"}
      /\ job[l] \in {"none", "write", "written", "failed"}
  BY <1>1 DEF Shape, Ended
<1>3. ASSUME Ends(l, "failed")
      PROVE  FALSE
  BY <1>1, <1>3, EndsFacts DEF Ended, Working
<1>4. CASE BrowserAction(l)
  BY <1>1, <1>3, <1>4, BrowserFacts DEF Exchange, Goto, TypeOK, vars, task, server
<1>5. CASE EnterLogin(l)
  BY <1>1, <1>5 DEF EnterLogin, Exchange, Goto, TypeOK, server
<1>6. CASE ReadReply(l)
  BY <1>1, <1>3, <1>6 DEF ReadReply, Goto, TypeOK, task, server
<1>7. CASE ReadSaved(l)
  BY <1>3, <1>7 DEF ReadSaved
<1>8. CASE Write(l) \/ StoreFails(l)
  BY <1>1, <1>8, JobDoneFacts DEF Write, StoreFails, TypeOK, Working
<1>9. CASE Grant(l)
  BY <1>1, <1>9, GrantFacts
<1>10. CASE TimeOut(l) \/ CancelTask(l)
  BY <1>3, <1>10 DEF TimeOut, CancelTask
<1>11. QED
  BY <1>1, <1>2, <1>4, <1>5, <1>6, <1>7, <1>8, <1>9, <1>10
     DEF TaskAction, EnterCall, GetAccessToken, Answered, AcquireLock, LoadCurrent, Check, ReadSwapped,
         ReloadLatest, CompareAndSwap, Refuse, Unauthorized

LEMMA LoginStoredStep ==
  ASSUME TypeOK, Shapes, OneLogin, Heirs, LoginStored, [LoginNext]_allVars
  PROVE  LoginStored'
<1> USE TaskFacts
<1>1. ASSUME NEW t \in Tasks, TaskAction(t) \/ (t \in Logins /\ BrowserAction(t)),
             setting.store = "file", NEW l \in Logins, pc'[l] = "done" \/ job'[l] = "written"
      PROVE  store'.login \in Logins
  <2>1. TokenFlow(t) /\ \A u \in Tasks \ {t} : Same(u)
    BY <1>1, Flow, OneTaskMoves
  <2>2. CASE job[t] \in Working /\ store' = fresh[t] /\ t \in Logins
    BY <2>2 DEF Heirs, Pending
  <2>3. \/ pc[l] = "done" \/ job[l] = "written"
        \/ l = t /\ job[t] \in Working /\ store' = fresh[t] /\ t \in Logins
    BY <1>1, <2>1, LoginsEnd DEF Same
  <2>4. CASE job[t] \in Working /\ store' = fresh[t] /\ t \in Calls
    <3>1. store.login \in Logins
      BY <1>1, <2>3, <2>4 DEF LoginStored
    <3>2. store' = store \/ store.refresh = current[t].refresh
      BY <1>1, <2>1, <2>4 DEF TokenFlow
    <3>3. store.refresh = current[t].refresh => store.login = current[t].login
      BY DEF OneLogin, Held
    <3>4. fresh[t].login = current[t].login
      BY <2>4 DEF Heirs, Pending
    <3>5. QED
      BY <2>4, <3>1, <3>2, <3>3, <3>4
  <2>5. CASE store' = store
    BY <1>1, <2>2, <2>3, <2>5 DEF LoginStored
  <2>6. QED
    BY <2>1, <2>2, <2>4, <2>5 DEF TokenFlow
<1>2. ASSUME NEW m \in Managers, Crash(m), setting.store = "file", NEW l \in Logins,
             pc'[l] = "done" \/ job'[l] = "written"
      PROVE  store'.login \in Logins
  <2>1. store' = store /\ (Same(l) \/ Wiped(l))
    BY <1>2, CrashFacts
  <2>2. pc[l] = "done" \/ job[l] = "written"
    BY <1>2, <2>1 DEF Same, Wiped
  <2>3. QED
    BY <1>2, <2>1, <2>2 DEF LoginStored
<1>3. CASE Expire \/ UNCHANGED allVars
  BY <1>3 DEF Expire, allVars, vars, task, server, LoginStored
<1>4. ASSUME NEW t \in Tasks, TaskAction(t) \/ (t \in Logins /\ BrowserAction(t))
      PROVE  setting' = setting
  BY <1>4, OneTaskMoves
<1>5. QED
  BY <1>1, <1>2, <1>3, <1>4, Steps, CrashFacts DEF LoginStored

LEMMA LineageInvariant == LoginSpec => [](OneLogin /\ Rotated /\ Heirs /\ LoginStored)
<1>1. LoginInit => OneLogin /\ Rotated /\ Heirs /\ LoginStored
  BY TaskFacts DEF LoginInit, Init, OneLogin, Rotated, Held, Heirs, LoginStored, Pending, Unread, Working,
                   NoToken, FirstToken
<1>2. LoginTypeOK /\ Shapes /\ Issued /\ (OneLogin /\ Rotated /\ Heirs /\ LoginStored)
        /\ [LoginNext]_allVars => (OneLogin /\ Rotated /\ Heirs /\ LoginStored)'
  BY LineagesStep, HeirsStep, LoginStoredStep DEF LoginTypeOK
<1>3. QED
  BY <1>1, <1>2, LoginTypeCorrect, ShapeInvariant, PlacesInvariant, PTL DEF LoginSpec

(* Where the token is in a file, a login that has been done is not undone:   *)
(* no refresh that began before it stores a token of an earlier login, not   *)
(* even in a thread that its task or its process has left behind.            *)
THEOREM LoginNotUndone == LoginSpec => []LoginKept
<1>1. LoginStored => LoginKept
  BY DEF LoginStored, LoginKept
<1>2. QED
  BY <1>1, LineageInvariant, PTL

-----------------------------------------------------------------------------
(* While nothing disturbs the tasks, no rotated token is lost.               *)

LEMMA NoneLostStep ==
  ASSUME TypeOK, Shapes, Unseens, Rotated, NoneLost, [LoginNext]_allVars
  PROVE  NoneLost'
<1> USE TaskFacts
<1> DEFINE Found == \/ store = NoToken \/ store.refresh \in valid
                    \/ \E c \in Calls : Pending(c) /\ store.refresh = current[c].refresh
<1>1. ASSUME NEW t \in Tasks, TaskAction(t) \/ (t \in Logins /\ BrowserAction(t)), Undisturbed
      PROVE  (\A v \in Tasks : Pending(v)' => fresh'[v].refresh \in valid') /\ Found'
  <2>1. TokenFlow(t) /\ \A u \in Tasks \ {t} : Same(u)
    BY <1>1, Flow, OneTaskMoves
  <2>2. \A u \in Tasks \ {t} : /\ Pending(u)' <=> Pending(u)
                               /\ fresh'[u] = fresh[u] /\ current'[u] = current[u]
    BY <2>1 DEF Same, Pending, Unread
  <2>3. Found /\ \A v \in Tasks : Pending(v) => fresh[v].refresh \in valid
    BY <1>1 DEF NoneLost
  <2>4. CASE Grant(t)
    <3>1. pc[t] = "posting" /\ job[t] = "none" /\ flight[t] = "sent"
      BY <1>1, <2>4 DEF Grant, Shapes, Shape, Ended
    <3>2. Pending(t)' /\ ~Pending(t) /\ current'[t] = current[t] /\ store' = store
      BY <2>4, <3>1, GrantFacts DEF Pending, Unread, Working, Ended
    <3>3. fresh'[t].refresh \in valid'
      BY <2>4, <3>1, GrantFacts, SettingFacts DEF Ended
    <3>4. valid \subseteq valid' \/ (t \in Calls /\ setting.endpoint = "rotating"
                                      /\ valid \ {current[t].refresh} \subseteq valid')
      BY <2>4, GrantFacts, SettingFacts
    <3>5. ASSUME NEW v \in Tasks \ {t}, Pending(v)
          PROVE  fresh[v].refresh \in valid'
      <4>1. fresh[v].refresh \in valid /\ fresh[v].access # current[t].access
        BY <2>3, <3>5 DEF Unseens, Unseen
      <4>2. setting.endpoint = "rotating" =>
              fresh[v].refresh = fresh[v].access /\ current[t].refresh = current[t].access
        BY DEF Rotated, Held
      <4>3. QED
        BY <3>4, <4>1, <4>2
    <3>6. Found'
      <4>1. CASE store = NoToken
        BY <3>2, <4>1
      <4>2. CASE store.refresh \in valid
        <5>1. store.refresh \in valid' \/ (t \in Calls /\ store.refresh = current[t].refresh)
          BY <3>4, <4>2
        <5>2. QED
          BY <3>2, <5>1
      <4>3. CASE \E c \in Calls : Pending(c) /\ store.refresh = current[c].refresh
        <5>1. PICK c \in Calls : Pending(c) /\ store.refresh = current[c].refresh
          BY <4>3
        <5>2. c # t
          BY <3>2, <5>1
        <5>3. QED
          BY <2>2, <3>2, <5>1, <5>2
      <4>4. QED
        BY <2>3, <4>1, <4>2, <4>3
    <3>7. QED
      BY <2>2, <3>3, <3>5, <3>6
  <2>5. CASE ~Grant(t)
    <3>1. valid' = valid /\ (Pending(t)' => Pending(t) /\ fresh'[t] = fresh[t] /\ current'[t] = current[t])
      BY <2>1, <2>5 DEF TokenFlow
    <3>2. \A v \in Tasks : Pending(v)' => fresh'[v].refresh \in valid'
      BY <2>2, <2>3, <3>1
    <3>3. ASSUME job[t] \in Working, store' = fresh[t]
          PROVE  Found'
      <4>1. fresh[t].refresh \in valid
        BY <2>3, <3>3 DEF Pending
      <4>2. QED
        BY <3>1, <3>3, <4>1
    <3>4. ASSUME store' = store, ~(job[t] \in Working /\ store' = fresh[t])
          PROVE  Found'
      <4>1. CASE store = NoToken \/ store.refresh \in valid
        BY <3>1, <3>4, <4>1
      <4>2. CASE \E c \in Calls : Pending(c) /\ store.refresh = current[c].refresh
        <5>1. PICK c \in Calls : Pending(c) /\ store.refresh = current[c].refresh
          BY <4>2
        <5>2. c = t => Pending(t)'
          BY <1>1, <2>1, <3>4, <5>1 DEF TokenFlow
        <5>3. Pending(c)' /\ current'[c] = current[c]
          BY <2>2, <3>1, <5>1, <5>2
        <5>4. QED
          BY <3>4, <5>1, <5>3
      <4>3. QED
        BY <2>3, <4>1, <4>2
    <3>5. Found'
      BY <2>1, <3>3, <3>4 DEF TokenFlow
    <3>6. QED
      BY <3>2, <3>5
  <2>6. QED
    BY <2>4, <2>5
<1>2. ASSUME NEW t \in Tasks, TaskAction(t) \/ (t \in Logins /\ BrowserAction(t))
      PROVE  Undisturbed' <=> Undisturbed
  BY <1>2, OneTaskMoves DEF Undisturbed
<1>3. ASSUME NEW m \in Managers, Crash(m)
      PROVE  ~Undisturbed'
  BY <1>3, CrashFacts DEF Undisturbed
<1>4. CASE Expire \/ UNCHANGED allVars
  BY <1>4 DEF Expire, allVars, vars, task, server, NoneLost, Undisturbed, Pending, Unread
<1>5. QED
  BY <1>1, <1>2, <1>3, <1>4, Steps DEF NoneLost

LEMMA NoneLostInvariant == LoginSpec => []NoneLost
<1>1. LoginInit => NoneLost
  BY DEF LoginInit, Init, NoneLost, Pending, Unread, Working, NoToken, FirstToken
<1>2. LoginTypeOK /\ Shapes /\ (Issued /\ Unseens /\ Drops) /\ (OneLogin /\ Rotated /\ Heirs /\ LoginStored)
        /\ NoneLost /\ [LoginNext]_allVars => NoneLost'
  BY NoneLostStep DEF LoginTypeOK
<1>3. QED
  BY <1>1, <1>2, LoginTypeCorrect, ShapeInvariant, PlacesInvariant, LineageInvariant, PTL DEF LoginSpec

(* While nothing disturbs the tasks and no refresh is under way, the stored  *)
(* refresh token is one the endpoint accepts: in a file or in memory, with   *)
(* one process or several.                                                   *)
THEOREM NoRotatedTokenLost == LoginSpec => []StoredTokenUsable
<1>1. NoneLost => StoredTokenUsable
  BY TaskFacts DEF NoneLost, StoredTokenUsable, RotatedTokenStored, Settled, Pending
<1>2. QED
  BY <1>1, NoneLostInvariant, PTL

-----------------------------------------------------------------------------
(* Nothing refuses a refresh of an undisturbed process.                      *)

\* Two undisturbed calls of one process are not in a refresh at a time.
LEMMA OneAtATime ==
  ASSUME TypeOK, Shapes, OneProcess,
         NEW c \in Calls, NEW d \in Calls, pc[c] \in InRefresh, pc[d] \in InRefresh
  PROVE  c = d
BY TaskFacts DEF Shapes, Shape, OneProcess, InRefresh

LEMMA BusyInRefresh ==
  ASSUME TypeOK, Shapes, Undisturbed, NEW c \in Calls, Pending(c) \/ flight[c] = "sent"
  PROVE  pc[c] \in {"posting", "swapping"}
BY TaskFacts DEF Shapes, Shape, Pending, Unread, Working

LEMMA OwnSpendable ==
  ASSUME TypeOK, Shapes, NoneLost, NEW t \in Calls, TaskAction(t), Undisturbed, OneProcess, Spendable(t)
  PROVE  Spendable(t)'
<1> USE TaskFacts
<1>1. Shape(t) /\ Shape(t)' /\ Undisturbed'
  BY OwnShape, OneTaskMoves DEF Shapes, Undisturbed
<1>2. flight'[t] \in {"sent", "refused"} => pc'[t] = "posting"
  BY <1>1 DEF Shape
<1>3. CASE LoadCurrent(t)
  <2>1. pc[t] = "locked" /\ pc'[t] = "checking" /\ current'[t] = store /\ valid' = valid
    BY <1>3 DEF LoadCurrent, Goto, TypeOK, server
  <2>2. ASSUME NEW c \in Calls, Pending(c)
        PROVE  FALSE
    <3>1. pc[c] \in {"posting", "swapping"}
      BY <2>2, BusyInRefresh
    <3>2. c = t
      BY <2>1, <3>1, OneAtATime DEF InRefresh
    <3>3. QED
      BY <2>1, <3>1, <3>2
  <2>3. store = NoToken \/ store.refresh \in valid
    BY <2>2 DEF NoneLost
  <2>4. QED
    BY <1>2, <2>1, <2>3 DEF Spendable
<1>4. CASE Check(t)
  <2>1. CASE pc'[t] = "posting"
    <3>1. /\ pc[t] = "checking" /\ current[t] # NoToken /\ flight'[t] = "sent"
          /\ current'[t] = current[t] /\ valid' = valid
      <4>1. ~Ends(t, "failed")
        BY <2>1, EndsFacts DEF Ended
      <4>2. ~RefreshReturns(t, current[t])
        BY <2>1, ReturnsFacts DEF TypeOK
      <4>3. QED
        BY <1>4, <4>1, <4>2 DEF Check, Goto, TypeOK, task, server
    <3>2. QED
      BY <2>1, <3>1 DEF Spendable
  <2>2. CASE pc'[t] # "posting"
    <3>1. pc'[t] # "checking"
      <4>1. CASE Ends(t, "failed")
        BY <4>1, EndsFacts DEF Ended
      <4>2. CASE RefreshReturns(t, current[t])
        BY <4>2, ReturnsFacts DEF TypeOK
      <4>3. QED
        BY <1>4, <4>1, <4>2 DEF Check, Goto, TypeOK
    <3>2. QED
      BY <1>2, <2>2, <3>1 DEF Spendable
  <2>3. QED
    BY <2>1, <2>2
<1>5. CASE Grant(t)
  BY <1>1, <1>5, GrantFacts DEF Shape, Spendable, Ended
<1>6. CASE Refuse(t)
  BY <1>6 DEF Refuse, Spendable, Undisturbed
<1>7. CASE ~LoadCurrent(t) /\ ~Check(t) /\ ~Grant(t) /\ ~Refuse(t)
  <2>1. pc'[t] \notin {"checking", "posting"}
    <3>1. CASE Ends(t, "failed") \/ Ends(t, "done")
      BY <3>1, EndsFacts DEF Ended
    <3>2. ASSUME NEW token \in Tokens, RefreshReturns(t, token)
          PROVE  pc'[t] \notin {"checking", "posting"}
      BY <3>2, ReturnsFacts DEF TypeOK
    <3>3. CASE job[t] \in Working /\ pc' = pc
      BY <1>1, <3>3 DEF Shape, Ended
    <3>4. CASE ReadSwapped(t) \/ ReloadLatest(t)
      BY <3>1, <3>2, <3>4 DEF ReadSwapped, ReloadLatest, Goto, TypeOK
    <3>5. CASE ReadReply(t) \/ GetAccessToken(t) \/ ReadSaved(t) \/ Answered(t) \/ TimeOut(t) \/ CancelTask(t)
      BY <3>1, <3>5 DEF ReadReply, GetAccessToken, ReadSaved, Answered, TimeOut, CancelTask, Goto, TypeOK
    <3>6. CASE EnterCall(t) \/ AcquireLock(t) \/ Unauthorized(t)
      BY <3>6 DEF EnterCall, AcquireLock, Unauthorized, Goto, TypeOK
    <3>7. CASE CompareAndSwap(t) \/ Write(t) \/ StoreFails(t)
      BY <3>3, <3>7 DEF CompareAndSwap, Write, StoreFails, JobDone, Working
    <3>8. QED
      BY <1>7, <3>4, <3>5, <3>6, <3>7 DEF TaskAction, EnterLogin
  <2>2. QED
    BY <1>2, <2>1 DEF Spendable
<1>8. QED
  BY <1>3, <1>4, <1>5, <1>6, <1>7

LEMMA OthersSpendable ==
  ASSUME TypeOK, Shapes, NEW t \in Tasks, NEW c \in Calls \ {t}, Undisturbed, OneProcess, Spendable(c),
         TaskAction(t) \/ (t \in Logins /\ BrowserAction(t))
  PROVE  Spendable(c)'
<1> USE TaskFacts
<1>1. TokenFlow(t) /\ Same(c)
  BY Flow, OneTaskMoves
<1>2. CASE Grant(t) /\ t \in Calls
  <2>1. pc[t] \in {"posting", "swapping"}
    BY <1>2, BusyInRefresh DEF Grant
  <2>2. pc[c] # "checking" /\ flight[c] # "sent"
    <3>1. pc[c] \notin InRefresh
      BY <1>2, <2>1, OneAtATime DEF InRefresh
    <3>2. flight[c] = "sent" => pc[c] \in {"posting", "swapping"}
      BY BusyInRefresh
    <3>3. QED
      BY <3>1, <3>2 DEF InRefresh
  <2>3. QED
    BY <1>1, <2>2 DEF Same, Spendable
<1>3. CASE ~(Grant(t) /\ t \in Calls)
  <2>1. valid \subseteq valid'
    BY <1>1, <1>3, GrantFacts DEF TokenFlow
  <2>2. QED
    BY <1>1, <2>1 DEF Same, Spendable
<1>4. QED
  BY <1>2, <1>3

LEMMA NoneSpentStep ==
  ASSUME TypeOK, Shapes, NoneLost, NoneSpent, [LoginNext]_allVars
  PROVE  NoneSpent'
<1> USE TaskFacts
<1>1. ASSUME NEW t \in Tasks, TaskAction(t) \/ (t \in Logins /\ BrowserAction(t))
      PROVE  NoneSpent'
  <2> SUFFICES ASSUME Undisturbed', OneProcess', NEW c \in Calls
               PROVE  Spendable(c)'
    BY DEF NoneSpent
  <2>1. Undisturbed /\ OneProcess
    BY <1>1, OneTaskMoves DEF Undisturbed, OneProcess
  <2>2. Spendable(c)
    BY <2>1 DEF NoneSpent
  <2>3. CASE c = t
    BY <1>1, <2>1, <2>2, <2>3, OwnSpendable
  <2>4. CASE c # t
    BY <1>1, <2>1, <2>2, <2>4, OthersSpendable
  <2>5. QED
    BY <2>3, <2>4
<1>2. ASSUME NEW m \in Managers, Crash(m)
      PROVE  ~Undisturbed'
  BY <1>2, CrashFacts DEF Undisturbed
<1>3. CASE Expire \/ UNCHANGED allVars
  BY <1>3 DEF Expire, allVars, vars, task, server, NoneSpent, Spendable, Undisturbed, OneProcess
<1>4. QED
  BY <1>1, <1>2, <1>3, Steps DEF NoneSpent

(* Among the calls of one process that nothing disturbs, the endpoint        *)
(* refuses no refresh: no two of them present one refresh token, however     *)
(* many ask for a token at once.                                             *)
THEOREM NoRefreshIsRefused == LoginSpec => []NoRefreshRefused
<1>1. LoginInit => NoneSpent
  BY TaskFacts DEF LoginInit, Init, NoneSpent, Spendable
<1>2. LoginTypeOK /\ Shapes /\ NoneLost /\ NoneSpent /\ [LoginNext]_allVars => NoneSpent'
  BY NoneSpentStep DEF LoginTypeOK
<1>3. NoneSpent => NoRefreshRefused
  BY DEF NoneSpent, Spendable, NoRefreshRefused
<1>4. QED
  BY <1>1, <1>2, <1>3, LoginTypeCorrect, ShapeInvariant, NoneLostInvariant, PTL DEF LoginSpec

-----------------------------------------------------------------------------
(* A login that the browser was told of is completed.                        *)

LEMMA LoginMoves ==
  ASSUME TypeOK, NEW l \in Logins, Shape(l), TaskAction(l)
  PROVE  /\ pc'[l] # "idle" \/ pc'[l] = pc[l]
         /\ Undisturbed => pc'[l] = pc[l] \/ (pc[l] # "browser" /\ pc'[l] # "failed")
<1> USE TaskFacts
<1>1. /\ pc[l] \in {"idle", "browser", "posting", "saving"} \cup Ended
      /\ Undisturbed => flight[l] # "refused" /\ job[l] # "failed"
  BY DEF Shape, Undisturbed
<1>2. CASE TimeOut(l) \/ CancelTask(l) \/ StoreFails(l)
  BY <1>2, EndsFacts DEF TimeOut, CancelTask, StoreFails, JobDone, Undisturbed, Ended
<1>3. CASE CompareAndSwap(l) \/ Write(l) \/ Grant(l) \/ Refuse(l)
  BY <1>3 DEF CompareAndSwap, Write, Grant, Refuse, JobDone
<1>4. CASE EnterLogin(l)
  BY <1>4 DEF EnterLogin, Exchange, Goto, TypeOK
<1>5. CASE ReadReply(l)
  <2>1. CASE flight[l] = "refused" /\ Ends(l, "failed")
    BY <1>1, <1>5, <2>1, EndsFacts DEF ReadReply, Ended
  <2>2. CASE Goto(l, "saving")
    BY <1>5, <2>2 DEF ReadReply, Goto, TypeOK
  <2>3. QED
    BY <1>5, <2>1, <2>2 DEF ReadReply
<1>6. CASE ReadSaved(l)
  BY <1>1, <1>6, EndsFacts DEF ReadSaved, Ended
<1>7. QED
  BY <1>1, <1>2, <1>3, <1>4, <1>5, <1>6
     DEF TaskAction, EnterCall, GetAccessToken, Answered, AcquireLock, LoadCurrent, Check, ReadSwapped,
         ReloadLatest, Unauthorized, Ended

LEMMA BrowserMoves ==
  ASSUME LoginTypeOK, NEW l \in Logins, BrowserAction(l), CodesOf(l)
  PROVE  CodesOf(l)'
<1> USE TaskFacts
<1>1. TypeOK /\ l \in Tasks /\ Undisturbed' = Undisturbed
  BY OneTaskMoves DEF LoginTypeOK, Undisturbed
<1>2. CASE Open(l)
  <2>1. pc[l] = "idle" /\ pc'[l] # "idle" /\ UNCHANGED loopback
    BY <1>1, <1>2, EndsFacts DEF Open, Goto, TypeOK, Ended
  <2>2. QED
    BY <2>1 DEF CodesOf, loopback
<1>3. CASE Leave(l)
  <2>1. /\ server_thread[l] = "none" /\ UNCHANGED loopback
        /\ pc'[l] # "idle" /\ (callback[l] = "code" => pc'[l] = "posting")
    BY <1>1, <1>3, EndsFacts DEF Leave, Exchange, Goto, TypeOK, Ended
  <2>2. QED
    BY <2>1 DEF CodesOf, loopback
<1>4. CASE Listen(l) \/ NoConnection(l) \/ Connect(l) \/ Deadline(l)
  BY <1>1, <1>4 DEF Listen, NoConnection, Connect, Deadline, CodesOf, LoginTypeOK, vars
<1>5. CASE Handle(l)
  BY <1>1, <1>5 DEF Handle, CodesOf, LoginTypeOK, vars
<1>6. QED
  BY <1>2, <1>3, <1>4, <1>5 DEF BrowserAction

LEMMA CodesStep ==
  ASSUME LoginTypeOK, Shapes, Codes, [LoginNext]_allVars
  PROVE  Codes'
<1> USE TaskFacts
<1>1. TypeOK
  BY DEF LoginTypeOK
<1>2. ASSUME NEW t \in Tasks, TaskAction(t), UNCHANGED loopback, NEW l \in Logins
      PROVE  CodesOf(l)'
  <2>1. Undisturbed' = Undisturbed
    BY <1>1, <1>2, OneTaskMoves DEF Undisturbed
  <2>2. \/ pc'[l] = pc[l]
        \/ pc'[l] # "idle" /\ (Undisturbed => pc[l] # "browser" /\ pc'[l] # "failed")
    BY <1>1, <1>2, OneTaskMoves, LoginMoves DEF Same, Shapes
  <2>3. QED
    BY <1>2, <2>1, <2>2 DEF Codes, CodesOf, loopback
<1>3. ASSUME NEW m \in Managers, Crash(m), UNCHANGED loopback, NEW l \in Logins
      PROVE  CodesOf(l)'
  <2>1. ~Undisturbed' /\ (pc'[l] = pc[l] \/ pc'[l] # "idle")
    BY <1>1, <1>3, CrashFacts DEF Undisturbed, Same, Wiped, Ended
  <2>2. QED
    BY <1>3, <2>1 DEF Codes, CodesOf, loopback
<1>4. CASE (Expire /\ UNCHANGED loopback) \/ UNCHANGED allVars
  BY <1>4 DEF Expire, allVars, vars, task, server, loopback, Codes, CodesOf, Undisturbed
<1>5. ASSUME NEW l \in Logins, BrowserAction(l), NEW k \in Logins
      PROVE  CodesOf(k)'
  <2>1. CASE k = l
    BY <1>5, <2>1, BrowserMoves DEF Codes
  <2>2. CASE k # l
    <3>1. pc'[k] = pc[k] /\ Undisturbed' = Undisturbed
      BY <1>1, <1>5, <2>2, OneTaskMoves DEF Same, Undisturbed
    <3>2. /\ server_thread'[k] = server_thread[k] /\ callback'[k] = callback[k]
          /\ told'[k] = told[k]
      BY <1>5, <2>2 DEF BrowserAction, Open, Listen, NoConnection, Connect, Handle, Deadline, Leave,
                        LoginTypeOK, loopback
    <3>3. QED
      BY <3>1, <3>2 DEF Codes, CodesOf
  <2>3. QED
    BY <2>1, <2>2
<1>6. QED
  BY <1>1, <1>2, <1>3, <1>4, <1>5, Steps DEF Codes

(* A user who was told "Authorization complete" is logged in, unless         *)
(* something goes wrong afterwards: neither the deadline nor an error that   *)
(* comes later drops the code.                                               *)
THEOREM ToldIsLoggedIn == LoginSpec => []ToldMeansLoggedIn
<1>1. LoginInit => Codes
  BY TaskFacts DEF LoginInit, Init, Codes, CodesOf
<1>2. LoginTypeOK /\ Shapes /\ Codes /\ [LoginNext]_allVars => Codes'
  BY CodesStep
<1>3. Codes => ToldMeansLoggedIn
  BY DEF Codes, CodesOf, ToldMeansLoggedIn
<1>4. QED
  BY <1>1, <1>2, <1>3, LoginTypeCorrect, ShapeInvariant, PTL DEF LoginSpec

=============================================================================
