------------------------- MODULE TokenProgressProofs -------------------------
(* Theorems about how the tasks of TokenRefresh and BrowserLogin come to an  *)
(* end, and about how the token store moves, for any tasks, processes and    *)
(* settings: what EveryTaskEnds rests on besides fairness.                   *)
EXTENDS TokenRefreshProofs

(* How many steps a task has left. *)

\* Until it uses a token.
Rest(t) ==
  CASE pc[t] = "idle"      -> 16
    [] pc[t] = "browser"   -> 15
    [] pc[t] = "get"       -> 13
    [] pc[t] = "waiting"   -> 12
    [] pc[t] = "locked"    -> 11
    [] pc[t] = "checking"  -> 10
    [] pc[t] = "posting"   -> IF flight[t] = "sent" THEN 9 ELSE 8
    [] pc[t] \in {"swapping", "saving"} ->
         IF job[t] \in {"swap", "write"} THEN 7 ELSE IF job[t] = "matched" THEN 6 ELSE 5
    [] pc[t] = "reloading" -> 4
    [] pc[t] = "using"     -> 3

\* What a 401 may add once: the refresh it forces, and one that comes after it.
Ahead(t) ==
  IF rejected[t] = 0 THEN 28
  ELSE IF force[t] = TRUE THEN 14 ELSE 0

\* What the task that has ended has left behind.
Behind(t) ==
  IF flight[t] = "sent" \/ job[t] \in {"swap", "write"} THEN 2
  ELSE IF job[t] = "matched" THEN 1 ELSE 0

Left(t) == IF pc[t] \in Ended THEN Behind(t) ELSE Ahead(t) + Rest(t)

MostSteps == 44

LeftIsBounded == \A t \in Tasks : Left(t) \in 0..MostSteps

\* Whatever a task, its threads or its request do, and whatever is done to them,
\* leaves the task fewer steps; a crash takes from those it hits; no task is
\* given more by another, by the browser or by time.
TasksWearOut ==
  /\ \A t \in Tasks : /\ Left(t)' # Left(t) => Left(t)' < Left(t)
                      /\ TaskAction(t) => Left(t)' < Left(t)
  /\ \A m \in Managers : Crash(m) => \E t \in Tasks : Left(t)' < Left(t)

(* What a task and the locks owe each other.                                 *)

\* The refresh lock of a process is held by a call of the process that is in its
\* refresh, or by nobody.
LockIsInUse ==
  \A m \in Managers : lock[m] # Nobody =>
    /\ lock[m] \in Calls /\ setting.manager[lock[m]] = m
    /\ pc[lock[m]] \in InRefresh

\* What a task waits for is under way or there.
Served(t) ==
  /\ pc[t] = "waiting" => t \in Calls
  /\ pc[t] = "posting" => flight[t] # "none"
  /\ pc[t] \in {"swapping", "saving"} => job[t] # "none"

NoneWaitsInVain ==
  \A t \in Tasks :
    /\ Served(t)
    /\ pc[t] = "waiting" /\ lock[setting.manager[t]] # Nobody =>
         \E u \in Calls \ {t} : /\ u = lock[setting.manager[t]]
                                /\ pc[u] \in InRefresh /\ Served(u)

\* The inductive form, task by task.
Fit(t) ==
  /\ force[t] = TRUE => rejected[t] # 0
  /\ \A m \in Managers : lock[m] = t =>
       t \in Calls /\ setting.manager[t] = m /\ pc[t] \in InRefresh

Fits == \A t \in Tasks : Fit(t)

-----------------------------------------------------------------------------
(* Locks and forced refreshes.                                               *)

\* A task takes a lock for itself or leaves it free, and no lock of another.
LockFlow(t) == \A m \in Managers : lock'[m] \in {lock[m], Nobody, t}

LEMMA EndsFit ==
  ASSUME TypeOK, NEW t \in Tasks, NEW how \in Ended, Ends(t, how), Fit(t)
  PROVE  LockFlow(t) /\ Fit(t)'
<1>1. /\ lock' = [lock EXCEPT ![setting.manager[t]] = IF @ = t THEN Nobody ELSE @]
      /\ force'[t] = FALSE /\ setting' = setting /\ t # Nobody
  BY EndsFacts, TaskFacts DEF Ends, Unlock
<1>2. \A m \in Managers : lock'[m] # t
  BY <1>1, SettingFacts DEF Fit, TypeOK
<1>3. LockFlow(t)
  BY <1>1 DEF LockFlow, TypeOK
<1>4. QED
  BY <1>1, <1>2, <1>3 DEF Fit

LEMMA ReturnsFit ==
  ASSUME TypeOK, NEW t \in Tasks, NEW token \in Tokens, RefreshReturns(t, token), Fit(t)
  PROVE  LockFlow(t) /\ Fit(t)'
<1>1. /\ lock' = [lock EXCEPT ![setting.manager[t]] = IF @ = t THEN Nobody ELSE @]
      /\ force'[t] = FALSE /\ setting' = setting /\ t # Nobody
  BY ReturnsFacts, TaskFacts DEF RefreshReturns, Unlock
<1>2. \A m \in Managers : lock'[m] # t
  BY <1>1, SettingFacts DEF Fit, TypeOK
<1>3. LockFlow(t)
  BY <1>1 DEF LockFlow, TypeOK
<1>4. QED
  BY <1>1, <1>2, <1>3 DEF Fit

\* A step that leaves the locks alone and stays in a refresh.
LEMMA GoesOnFit ==
  ASSUME TypeOK, NEW t \in Tasks, Fit(t), lock' = lock, setting' = setting,
         force'[t] = force[t], rejected'[t] = rejected[t],
         pc[t] \in InRefresh => pc'[t] \in InRefresh
  PROVE  LockFlow(t) /\ Fit(t)'
BY DEF Fit, LockFlow

LEMMA OwnFit ==
  ASSUME TypeOK, Shapes, Timing, NEW t \in Tasks, Fit(t),
         TaskAction(t) \/ (t \in Logins /\ BrowserAction(t))
  PROVE  LockFlow(t) /\ Fit(t)'
<1> USE TaskFacts
<1>1. Shape(t) /\ Timely(t) /\ setting' = setting
  BY OneTaskMoves DEF Shapes, Timing
<1>2. CASE Ends(t, "failed") \/ Ends(t, "done")
  BY <1>2, EndsFit DEF Ended
<1>3. CASE \E token \in Tokens : RefreshReturns(t, token)
  BY <1>3, ReturnsFit
<1>4. CASE EnterCall(t)
  BY <1>1, <1>4, GoesOnFit DEF EnterCall, Goto, TypeOK, server, InRefresh
<1>5. CASE Exchange(t)
  BY <1>1, <1>5, GoesOnFit DEF Exchange, Goto, TypeOK, server, InRefresh
<1>6. CASE GetAccessToken(t)
  BY <1>1, <1>2, <1>6, GoesOnFit DEF GetAccessToken, Goto, TypeOK, server, InRefresh
<1>7. CASE AcquireLock(t)
  <2>1. /\ pc[t] = "waiting" /\ pc'[t] = "locked" /\ t \in Calls
        /\ lock' = [lock EXCEPT ![setting.manager[t]] = t]
        /\ force'[t] = force[t] /\ rejected'[t] = rejected[t]
    BY <1>1, <1>7 DEF AcquireLock, Goto, TypeOK, task, Shape, Ended
  <2>2. \A m \in Managers : lock[m] # t
    BY <2>1 DEF Fit, InRefresh
  <2>3. QED
    BY <1>1, <2>1, <2>2 DEF Fit, LockFlow, InRefresh, TypeOK
<1>8. CASE LoadCurrent(t)
  BY <1>1, <1>8, GoesOnFit DEF LoadCurrent, Goto, TypeOK, server, InRefresh
<1>9. CASE Check(t)
  <2>1. CASE Goto(t, "posting") /\ UNCHANGED <<task, fresh, job, lock, store, server, expired>>
    BY <1>1, <2>1, GoesOnFit DEF Goto, TypeOK, task, InRefresh
  <2>2. QED
    BY <1>2, <1>3, <1>9, <2>1 DEF Check, TypeOK
<1>10. CASE ReadReply(t)
  <2>1. CASE Goto(t, IF t \in Logins THEN "saving" ELSE "swapping")
             /\ UNCHANGED <<task, fresh, lock, store, server, expired>>
    <3>1. /\ pc'[t] = IF t \in Logins THEN "saving" ELSE "swapping"
          /\ lock' = lock /\ force'[t] = force[t] /\ rejected'[t] = rejected[t]
      BY <2>1 DEF Goto, TypeOK, task
    <3>2. CASE t \in Calls
      BY <1>1, <3>1, <3>2, GoesOnFit DEF InRefresh
    <3>3. CASE t \in Logins
      BY <1>1, <3>1, <3>3 DEF Fit, LockFlow
    <3>4. QED
      BY <3>2, <3>3
  <2>2. QED
    BY <1>2, <1>10, <2>1 DEF ReadReply
<1>11. CASE ReadSwapped(t)
  <2>1. CASE Goto(t, "reloading") /\ UNCHANGED <<task, flight, fresh, job, lock, store, server, expired>>
    BY <1>1, <2>1, GoesOnFit DEF Goto, TypeOK, task, InRefresh
  <2>2. QED
    BY <1>2, <1>3, <1>11, <2>1 DEF ReadSwapped, TypeOK
<1>12. CASE ReloadLatest(t)
  BY <1>2, <1>3, <1>12 DEF ReloadLatest, TypeOK
<1>13. CASE ReadSaved(t) \/ Answered(t) \/ TimeOut(t) \/ CancelTask(t)
  BY <1>2, <1>13 DEF ReadSaved, Answered, TimeOut, CancelTask
<1>14. CASE CompareAndSwap(t) \/ Write(t) \/ StoreFails(t)
  <2>1. /\ pc' = pc /\ lock' = lock /\ force' = force /\ rejected' = rejected
    BY <1>14 DEF CompareAndSwap, Write, StoreFails, JobDone, task
  <2>2. QED
    BY <1>1, <2>1, GoesOnFit
<1>15. CASE Grant(t) \/ Refuse(t)
  <2>1. /\ pc' = pc /\ lock' = lock /\ force' = force /\ rejected' = rejected
    BY <1>15 DEF Grant, Refuse
  <2>2. QED
    BY <1>1, <2>1, GoesOnFit
<1>16. CASE Unauthorized(t)
  <2>1. /\ pc[t] = "using" /\ t \in Calls /\ access[t] > since[t] /\ access[t] \in Nat /\ since[t] \in Nat
        /\ lock' = lock /\ rejected'[t] = access[t]
    BY <1>1, <1>16 DEF Unauthorized, Shape, Timely, TypeOK, Ended
  <2>2. \A m \in Managers : lock[m] # t
    BY <2>1 DEF Fit, InRefresh
  <2>3. rejected'[t] # 0
    BY <2>1
  <2>4. QED
    BY <2>1, <2>2, <2>3 DEF Fit, LockFlow
<1>17. CASE EnterLogin(t)
  BY <1>5, <1>17 DEF EnterLogin
<1>18. CASE t \in Logins /\ BrowserAction(t)
  <2>1. CASE pc[t] = "idle" /\ Goto(t, "browser")
             /\ UNCHANGED <<task, flight, fresh, job, lock, store, server, expired>>
    BY <1>1, <2>1, GoesOnFit DEF Goto, TypeOK, task, InRefresh
  <2>2. CASE UNCHANGED vars
    BY <1>1, <2>2, GoesOnFit DEF vars, task, server
  <2>3. QED
    BY <1>2, <1>5, <1>18, <2>1, <2>2, BrowserFacts
<1>19. QED
  BY <1>4, <1>6, <1>7, <1>8, <1>9, <1>10, <1>11, <1>12, <1>13, <1>14, <1>15, <1>16, <1>17, <1>18
     DEF TaskAction

LEMMA FitsStep ==
  ASSUME TypeOK, Shapes, Timing, Fits, [LoginNext]_allVars
  PROVE  Fits'
<1> USE TaskFacts
<1>1. ASSUME NEW t \in Tasks, TaskAction(t) \/ (t \in Logins /\ BrowserAction(t)), NEW u \in Tasks
      PROVE  Fit(u)'
  <2>1. Fit(t)' /\ LockFlow(t) /\ setting' = setting /\ (u # t => Same(u))
    BY <1>1, OwnFit, OneTaskMoves DEF Fits
  <2>2. QED
    BY <2>1 DEF Fits, Fit, LockFlow, Same
<1>2. ASSUME NEW m \in Managers, Crash(m), NEW u \in Tasks
      PROVE  Fit(u)'
  <2>1. /\ setting' = setting /\ (\A n \in Managers \ {m} : lock'[n] = lock[n])
        /\ lock'[m] = Nobody
    <3>1. lock' = [lock EXCEPT ![m] = Nobody] /\ lock \in [Managers -> Tasks \cup {Nobody}]
      BY <1>2 DEF Crash, TypeOK
    <3>2. QED
      BY <1>2, <3>1, CrashFacts
  <2>2. CASE Same(u)
    BY <2>1, <2>2 DEF Fits, Fit, Same
  <2>3. CASE Wiped(u) /\ setting.manager[u] = m
    BY <2>1, <2>3 DEF Fits, Fit, Wiped
  <2>4. QED
    BY <1>2, <2>2, <2>3, CrashFacts
<1>3. CASE Expire \/ UNCHANGED allVars
  BY <1>3 DEF Expire, allVars, vars, task, server, Fits, Fit
<1>4. QED
  BY <1>1, <1>2, <1>3, Steps DEF Fits

LEMMA FitInvariant == LoginSpec => []Fits
<1>1. LoginInit => Fits
  BY TaskFacts DEF LoginInit, Init, Fits, Fit
<1>2. LoginTypeOK /\ Shapes /\ Timing /\ Fits /\ [LoginNext]_allVars => Fits'
  BY FitsStep DEF LoginTypeOK
<1>3. QED
  BY <1>1, <1>2, LoginTypeCorrect, ShapeInvariant, TimingInvariant, PTL DEF LoginSpec

(* The refresh lock of a process is never left locked: not by a task that is *)
(* cancelled, times out or dies in it, nor by a login, which goes without.   *)
THEOREM LockIsGivenBack == LoginSpec => []LockIsInUse
<1>1. TypeOK /\ Fits => LockIsInUse
  BY DEF Fits, Fit, LockIsInUse, TypeOK
<1>2. QED
  BY <1>1, FitInvariant, LoginTypeCorrect, PTL DEF LoginTypeOK

(* A task that waits for its request or its thread has one at work or its    *)
(* result there, and one that waits for the refresh lock waits for another   *)
(* call that is not itself waiting for a lock: no circle, and no lost wakeup *)
(* of a thread.                                                              *)
THEOREM WaitersAreServed == LoginSpec => []NoneWaitsInVain
<1>1. TypeOK /\ Shapes /\ LockIsInUse => NoneWaitsInVain
  <2> SUFFICES ASSUME TypeOK, Shapes, LockIsInUse, NEW t \in Tasks
               PROVE  /\ Served(t)
                      /\ pc[t] = "waiting" /\ lock[setting.manager[t]] # Nobody =>
                           \E u \in Calls \ {t} : /\ u = lock[setting.manager[t]]
                                                  /\ pc[u] \in InRefresh /\ Served(u)
    BY DEF NoneWaitsInVain
  <2>1. \A u \in Tasks : Served(u)
    BY TaskFacts DEF Shapes, Shape, Served, Ended
  <2>2. ASSUME pc[t] = "waiting", lock[setting.manager[t]] # Nobody
        PROVE  \E u \in Calls \ {t} : /\ u = lock[setting.manager[t]]
                                      /\ pc[u] \in InRefresh /\ Served(u)
    <3> DEFINE u == lock[setting.manager[t]]
    <3>1. u \in Calls /\ pc[u] \in InRefresh
      BY <2>2, SettingFacts DEF LockIsInUse
    <3>2. u # t
      BY <2>2, <3>1 DEF InRefresh
    <3>3. Served(u)
      BY <2>1, <3>1, TaskFacts
    <3>4. QED
      BY <3>1, <3>2, <3>3
  <2>3. QED
    BY <2>1, <2>2
<1>2. QED
  BY <1>1, LockIsGivenBack, ShapeInvariant, LoginTypeCorrect, PTL DEF LoginTypeOK
-----------------------------------------------------------------------------
(* Every step leaves fewer.                                                  *)

LEMMA LeftFacts ==
  ASSUME TypeOK, NEW t \in Tasks
  PROVE  /\ Ahead(t) \in {0, 14, 28} /\ Behind(t) \in 0..2 /\ Left(t) \in 0..MostSteps
         /\ pc[t] \notin Ended => Rest(t) \in 3..16
<1>1. pc[t] \in PCs
  BY DEF TypeOK
<1>2. Ahead(t) \in {0, 14, 28} /\ Behind(t) \in 0..2
  BY DEF Ahead, Behind
<1>3. pc[t] \notin Ended => Rest(t) \in 3..16
  BY <1>1 DEF Rest, PCs, InRefresh, Ended
<1>4. QED
  BY <1>2, <1>3 DEF Left, MostSteps

LEMMA EndsLess ==
  ASSUME TypeOK, NEW t \in Tasks, NEW how \in Ended, Ends(t, how), pc[t] \notin Ended
  PROVE  Left(t)' < Left(t)
<1>1. pc'[t] \in Ended
  BY EndsFacts
<1>2. Behind(t)' \in 0..2
  BY DEF Behind
<1>3. Left(t)' = Behind(t)' /\ Left(t) = Ahead(t) + Rest(t)
  BY <1>1 DEF Left
<1>4. QED
  BY <1>2, <1>3, LeftFacts

\* A step of a task from one place to another, in the same round.
LEMMA GoesLess ==
  ASSUME TypeOK, NEW t \in Tasks, pc[t] \notin Ended, pc'[t] \notin Ended,
         force'[t] = force[t], rejected'[t] = rejected[t],
         Rest(t)' < Rest(t), Rest(t)' \in Nat
  PROVE  Left(t)' < Left(t)
<1>1. Ahead(t)' = Ahead(t)
  BY DEF Ahead
<1>2. Left(t)' = Ahead(t)' + Rest(t)' /\ Left(t) = Ahead(t) + Rest(t)
  BY DEF Left
<1>3. QED
  BY <1>1, <1>2, LeftFacts

\* A step of what works for a task that may have ended.
LEMMA WorksLess ==
  ASSUME TypeOK, NEW t \in Tasks, pc'[t] = pc[t], force'[t] = force[t], rejected'[t] = rejected[t],
         pc[t] \in Ended => Behind(t)' < Behind(t),
         pc[t] \notin Ended => Rest(t)' < Rest(t) /\ Rest(t)' \in Nat
  PROVE  Left(t)' < Left(t)
<1>1. CASE pc[t] \in Ended
  BY <1>1 DEF Left
<1>2. CASE pc[t] \notin Ended
  BY <1>2, GoesLess
<1>3. QED
  BY <1>1, <1>2

LEMMA ReturnsLess ==
  ASSUME TypeOK, NEW t \in Tasks, NEW token \in Tokens, RefreshReturns(t, token), Fit(t),
         \/ pc[t] \in {"checking", "reloading"}
         \/ pc[t] = "swapping" /\ job[t] \notin Working
  PROVE  Left(t)' < Left(t)
<1>1. /\ force[t] = TRUE => pc'[t] = "get"
      /\ force[t] = FALSE => pc'[t] = "using"
      /\ force'[t] = FALSE /\ rejected'[t] = rejected[t] /\ force[t] \in BOOLEAN
      /\ force[t] = TRUE => rejected[t] # 0
  BY ReturnsFacts DEF TypeOK, Fit
<1>2. Rest(t) \in {4, 5, 10} /\ Left(t) = Ahead(t) + Rest(t)
  BY DEF Rest, Left, Ended, Working
<1>3. CASE force[t] = TRUE
  <2>1. Ahead(t) \in {14, 28} /\ (rejected[t] # 0 => Ahead(t) = 14)
    BY <1>3 DEF Ahead
  <2>2. Ahead(t)' = 0 /\ Rest(t)' = 13 /\ Left(t)' = Ahead(t)' + Rest(t)'
    BY <1>1, <1>3 DEF Ahead, Rest, Left, Ended
  <2>3. QED
    BY <1>1, <1>2, <1>3, <2>1, <2>2
<1>4. CASE force[t] = FALSE
  <2>1. Ahead(t)' = Ahead(t) /\ Rest(t)' = 3 /\ Left(t)' = Ahead(t)' + Rest(t)'
    BY <1>1, <1>4 DEF Ahead, Rest, Left, Ended
  <2>2. QED
    BY <1>2, <2>1, LeftFacts
<1>5. QED
  BY <1>1, <1>3, <1>4

LEMMA JobDoneLess ==
  ASSUME TypeOK, NEW t \in Tasks, NEW result \in {"written", "beaten", "failed"},
         JobDone(t, result), store' \in Tokens, Shape(t), job[t] \in Working
  PROVE  Left(t)' < Left(t)
<1>1. /\ pc'[t] = pc[t] /\ force'[t] = force[t] /\ rejected'[t] = rejected[t] /\ flight'[t] = flight[t]
      /\ pc[t] \in Ended => job'[t] = "none"
      /\ pc[t] \notin Ended => job'[t] = result /\ pc[t] \in {"swapping", "saving"}
      /\ flight[t] # "sent"
  BY JobDoneFacts DEF Shape, Working, Ended
<1>2. pc[t] \in Ended => Behind(t)' = 0 /\ Behind(t) \in {1, 2}
  BY <1>1 DEF Behind, Working
<1>3. pc[t] \notin Ended => Rest(t)' = 5 /\ Rest(t) \in {6, 7}
  BY <1>1 DEF Rest, Working
<1>4. QED
  BY <1>1, <1>2, <1>3, WorksLess

LEMMA OwnLess ==
  ASSUME TypeOK, Shapes, Timing, Fits, NEW t \in Tasks, TaskAction(t)
  PROVE  Left(t)' < Left(t)
<1> USE TaskFacts
<1>1. Shape(t) /\ Timely(t) /\ Fit(t)
  BY DEF Shapes, Timing, Fits
<1>2. ASSUME Ends(t, "failed") \/ Ends(t, "done"), pc[t] \notin Ended
      PROVE  Left(t)' < Left(t)
  BY <1>2, EndsLess DEF Ended
<1>3. ASSUME NEW token \in Tokens, RefreshReturns(t, token),
             \/ pc[t] \in {"checking", "reloading"}
             \/ pc[t] = "swapping" /\ job[t] \notin Working
      PROVE  Left(t)' < Left(t)
  BY <1>1, <1>3, ReturnsLess
<1>4. CASE EnterCall(t)
  BY <1>4, GoesLess DEF EnterCall, Goto, TypeOK, Rest, Ended
<1>5. CASE EnterLogin(t)
  BY <1>5, GoesLess DEF EnterLogin, Exchange, Goto, TypeOK, Rest, Ended
<1>6. CASE GetAccessToken(t)
  <2>1. CASE Ends(t, "failed")
    BY <1>2, <1>6, <2>1 DEF GetAccessToken, Ended
  <2>2. CASE ~Ends(t, "failed")
    <3>1. /\ pc[t] = "get" /\ pc'[t] \in {"waiting", "using"}
          /\ force'[t] = force[t] /\ rejected'[t] = rejected[t]
      BY <1>6, <2>2 DEF GetAccessToken, Goto, TypeOK
    <3>2. QED
      BY <3>1, GoesLess DEF Rest, Ended
  <2>3. QED
    BY <2>1, <2>2
<1>7. CASE AcquireLock(t)
  BY <1>7, GoesLess DEF AcquireLock, Goto, TypeOK, task, Rest, Ended
<1>8. CASE LoadCurrent(t)
  BY <1>8, GoesLess DEF LoadCurrent, Goto, TypeOK, Rest, Ended
<1>9. CASE Check(t)
  <2>1. pc[t] = "checking" /\ current[t] \in Tokens
    BY <1>9 DEF Check, TypeOK
  <2>2. CASE Ends(t, "failed") \/ RefreshReturns(t, current[t])
    BY <1>2, <1>3, <2>1, <2>2 DEF Ended
  <2>3. CASE ~(Ends(t, "failed") \/ RefreshReturns(t, current[t]))
    <3>1. /\ pc'[t] = "posting" /\ flight'[t] = "sent"
          /\ force'[t] = force[t] /\ rejected'[t] = rejected[t]
      BY <1>9, <2>3 DEF Check, Goto, TypeOK, task
    <3>2. QED
      BY <2>1, <3>1, GoesLess DEF Rest, Ended
  <2>4. QED
    BY <2>2, <2>3
<1>10. CASE ReadReply(t)
  <2>1. CASE Ends(t, "failed")
    BY <1>2, <1>10, <2>1 DEF ReadReply, Ended
  <2>2. CASE ~Ends(t, "failed")
    <3>1. /\ pc[t] = "posting" /\ pc'[t] \in {"saving", "swapping"} /\ flight[t] = "granted"
          /\ job'[t] \in {"write", "swap"}
          /\ force'[t] = force[t] /\ rejected'[t] = rejected[t]
      BY <1>10, <2>2 DEF ReadReply, Goto, TypeOK, task
    <3>2. QED
      BY <3>1, GoesLess DEF Rest, Ended
  <2>3. QED
    BY <2>1, <2>2
<1>11. CASE ReadSwapped(t)
  <2>1. pc[t] = "swapping" /\ fresh[t] \in Tokens
    BY <1>11 DEF ReadSwapped, TypeOK
  <2>2. CASE job[t] = "failed" /\ Ends(t, "failed")
    BY <1>2, <2>1, <2>2 DEF Ended
  <2>3. CASE job[t] = "written" /\ RefreshReturns(t, fresh[t])
    BY <1>3, <2>1, <2>3 DEF Working
  <2>4. CASE job[t] = "beaten" /\ Goto(t, "reloading")
             /\ UNCHANGED <<task, flight, fresh, job, lock, store, server, expired>>
    <3>1. pc'[t] = "reloading" /\ force'[t] = force[t] /\ rejected'[t] = rejected[t]
      BY <2>4 DEF Goto, TypeOK, task
    <3>2. QED
      BY <2>1, <2>4, <3>1, GoesLess DEF Rest, Ended
  <2>5. QED
    BY <1>11, <2>2, <2>3, <2>4 DEF ReadSwapped
<1>12. CASE ReloadLatest(t)
  <2>1. pc[t] = "reloading" /\ store \in Tokens
    BY <1>12 DEF ReloadLatest, TypeOK
  <2>2. QED
    BY <1>2, <1>3, <1>12, <2>1 DEF ReloadLatest, Ended
<1>13. CASE ReadSaved(t) \/ Answered(t) \/ TimeOut(t) \/ CancelTask(t)
  <2>1. pc[t] \notin Ended
    BY <1>13 DEF ReadSaved, Answered, TimeOut, CancelTask, Ended
  <2>2. QED
    BY <1>2, <1>13, <2>1 DEF ReadSaved, Answered, TimeOut, CancelTask
<1>14. ASSUME NEW result \in {"written", "beaten", "failed"}, JobDone(t, result), job[t] \in Working,
              store' \in {store, fresh[t]}
       PROVE  Left(t)' < Left(t)
  <2>1. store' \in Tokens
    BY <1>14 DEF TypeOK
  <2>2. QED
    BY <1>1, <1>14, <2>1, JobDoneLess
<1>15. CASE CompareAndSwap(t)
  <2>1. CASE job' = [job EXCEPT ![t] = "matched"]
             /\ UNCHANGED <<pc, task, flight, fresh, lock, store, server, expired>>
    <3>1. /\ job[t] = "swap" /\ job'[t] = "matched" /\ pc'[t] = pc[t] /\ flight'[t] = flight[t]
          /\ force'[t] = force[t] /\ rejected'[t] = rejected[t]
          /\ pc[t] \in {"swapping", "saving"} \cup Ended /\ flight[t] # "sent"
      BY <1>1, <1>15, <2>1 DEF CompareAndSwap, TypeOK, task, Shape, Working, Ended
    <3>2. Behind(t)' = 1 /\ Behind(t) = 2
      BY <3>1 DEF Behind
    <3>3. pc[t] \notin Ended => Rest(t)' = 6 /\ Rest(t) = 7
      BY <3>1 DEF Rest
    <3>4. QED
      BY <3>1, <3>2, <3>3, WorksLess
  <2>2. QED
    BY <1>14, <1>15, <2>1, SwapFacts DEF Working
<1>16. CASE Write(t) \/ StoreFails(t)
  BY <1>14, <1>16 DEF Write, StoreFails, Working
<1>17. CASE Grant(t) \/ Refuse(t)
  <2>1. /\ flight[t] = "sent" /\ pc[t] \in {"posting"} \cup Ended /\ job[t] = "none"
        /\ pc' = pc /\ force' = force /\ rejected' = rejected /\ job' = job
        /\ flight'[t] \in {"none", "granted", "refused"}
    BY <1>1, <1>17 DEF Grant, Refuse, Outcome, TypeOK, Shape
  <2>2. Behind(t)' = 0 /\ Behind(t) = 2
    BY <2>1 DEF Behind
  <2>3. pc[t] \notin Ended => Rest(t)' = 8 /\ Rest(t) = 9
    BY <2>1 DEF Rest
  <2>4. QED
    BY <2>1, <2>2, <2>3, WorksLess
<1>18. CASE Unauthorized(t)
  <2>1. /\ pc[t] = "using" /\ pc'[t] = "waiting" /\ rejected[t] = 0
        /\ rejected'[t] = access[t] /\ force'[t] = TRUE
        /\ access[t] > since[t] /\ access[t] \in Nat /\ since[t] \in Nat
    BY <1>1, <1>18 DEF Unauthorized, Goto, TypeOK, Timely, Shape, Ended
  <2>2. rejected'[t] # 0
    BY <2>1
  <2>3. Ahead(t) = 28 /\ Rest(t) = 3 /\ Ahead(t)' = 14 /\ Rest(t)' = 12
    BY <2>1, <2>2 DEF Ahead, Rest
  <2>4. Left(t) = 31 /\ Left(t)' = 26
    BY <2>1, <2>3 DEF Left, Ended
  <2>5. QED
    BY <2>4
<1>19. QED
  BY <1>4, <1>5, <1>6, <1>7, <1>8, <1>9, <1>10, <1>11, <1>12, <1>13, <1>15, <1>16, <1>17, <1>18
     DEF TaskAction
LEMMA BrowserLess ==
  ASSUME TypeOK, NEW l \in Logins, BrowserAction(l)
  PROVE  Left(l)' # Left(l) => Left(l)' < Left(l)
<1> USE TaskFacts
<1>1. CASE pc[l] \in {"idle", "browser"} /\ Ends(l, "failed")
  BY <1>1, EndsLess DEF Ended
<1>2. CASE /\ pc[l] = "idle" /\ Goto(l, "browser")
           /\ UNCHANGED <<task, flight, fresh, job, lock, store, server, expired>>
  BY <1>2, GoesLess DEF Goto, TypeOK, task, Rest, Ended
<1>3. CASE pc[l] = "browser" /\ Exchange(l)
  BY <1>3, GoesLess DEF Exchange, Goto, TypeOK, Rest, Ended
<1>4. CASE UNCHANGED vars
  BY <1>4 DEF vars, task, Left, Behind, Ahead, Rest
<1>5. QED
  BY <1>1, <1>2, <1>3, <1>4, BrowserFacts

LEMMA SameLeft ==
  ASSUME NEW u \in Tasks, Same(u)
  PROVE  Left(u)' = Left(u)
BY DEF Same, Left, Behind, Ahead, Rest

LEMMA WipedLeft ==
  ASSUME TypeOK, NEW u \in Tasks, Wiped(u)
  PROVE  /\ Left(u)' # Left(u) => Left(u)' < Left(u)
         /\ pc[u] \notin Ended => Left(u)' < Left(u)
<1>1. Left(u)' = Behind(u)' /\ Behind(u)' = IF flight[u] = "sent" THEN 2 ELSE 0
  BY DEF Wiped, Left, Behind
<1>2. CASE pc[u] \in Ended
  <2>1. Left(u) = Behind(u) /\ Behind(u) \in 0..2 /\ (flight[u] = "sent" => Behind(u) = 2)
    BY <1>2, LeftFacts DEF Left, Behind
  <2>2. QED
    BY <1>1, <1>2, <2>1
<1>3. CASE pc[u] \notin Ended
  <2>1. Left(u) = Ahead(u) + Rest(u)
    BY <1>3 DEF Left
  <2>2. QED
    BY <1>1, <1>3, <2>1, LeftFacts
<1>4. QED
  BY <1>2, <1>3

LEMMA WearStep ==
  ASSUME TypeOK, Shapes, Timing, Fits, LoginNext
  PROVE  TasksWearOut
<1> USE TaskFacts
<1>1. ASSUME NEW t \in Tasks, TaskAction(t)
      PROVE  Left(t)' < Left(t)
  BY <1>1, OwnLess
<1>2. ASSUME NEW m \in Managers, Crash(m)
      PROVE  /\ \A u \in Tasks : Left(u)' # Left(u) => Left(u)' < Left(u)
             /\ \E t \in Tasks : Left(t)' < Left(t)
  <2>1. \A u \in Tasks : Same(u) \/ Wiped(u)
    BY <1>2, CrashFacts
  <2>2. PICK t \in Tasks : setting.manager[t] = m /\ pc[t] # "idle" /\ pc[t] \notin Ended
    BY <1>2 DEF Crash
  <2>3. Wiped(t)
    BY <1>2, <2>2, CrashFacts
  <2>4. ASSUME NEW u \in Tasks
        PROVE  Left(u)' # Left(u) => Left(u)' < Left(u)
    <3>1. CASE Same(u)
      BY <3>1, SameLeft
    <3>2. CASE Wiped(u)
      BY <3>2, WipedLeft
    <3>3. QED
      BY <2>1, <3>1, <3>2
  <2>5. Left(t)' < Left(t)
    BY <2>2, <2>3, WipedLeft
  <2>6. QED
    BY <2>4, <2>5
<1>3. ASSUME NEW u \in Tasks
      PROVE  Left(u)' # Left(u) => Left(u)' < Left(u)
  <2>1. ASSUME NEW t \in Tasks, TaskAction(t) \/ (t \in Logins /\ BrowserAction(t))
        PROVE  Left(u)' # Left(u) => Left(u)' < Left(u)
    <3>1. CASE u = t
      BY <1>1, <2>1, <3>1, BrowserLess
    <3>2. CASE u # t
      BY <2>1, <3>2, OneTaskMoves, SameLeft
    <3>3. QED
      BY <3>1, <3>2
  <2>2. CASE Expire \/ UNCHANGED allVars
    BY <2>2, SameLeft DEF Expire, allVars, vars, task, Same
  <2>3. QED
    BY <1>2, <2>1, <2>2, Steps
<1>4. QED
  BY <1>1, <1>2, <1>3 DEF TasksWearOut

(* A call or a login, with its threads and its requests, takes at most 44     *)
(* steps: a 401 forces one refresh and no second one, whatever the endpoint,   *)
(* the other processes, the clock and the faults do.  A task that works on     *)
(* therefore ends; that it works on is what EveryTaskEnds leaves to fairness.  *)
THEOREM TasksRunOut == LoginSpec => []LeftIsBounded /\ [][TasksWearOut]_allVars
<1>1. TypeOK => LeftIsBounded
  BY LeftFacts DEF LeftIsBounded
<1>2. LoginTypeOK /\ Shapes /\ Timing /\ Fits /\ [LoginNext]_allVars => [TasksWearOut]_allVars
  BY WearStep DEF LoginTypeOK
<1>3. QED
  BY <1>1, <1>2, LoginTypeCorrect, ShapeInvariant, TimingInvariant, FitInvariant, PTL
     DEF LoginSpec, LoginTypeOK

-----------------------------------------------------------------------------
(* How the store moves.                                                      *)

\* A call's new token is younger than the one it replaces.
Younger ==
  \A c \in Calls : Pending(c) => fresh[c].access > current[c].access

\* With rotated refresh tokens a file gets younger, except by a login.
StoreGetsYounger ==
  setting.store = "file" /\ setting.endpoint = "rotating" /\ store' # store =>
    \/ store'.access > store.access
    \/ \E l \in Logins : job[l] = "write" /\ store' = fresh[l]

LEMMA YoungerStep ==
  ASSUME TypeOK, Shapes, Issued, Younger, [LoginNext]_allVars
  PROVE  Younger'
<1> USE TaskFacts
<1>1. ASSUME NEW t \in Tasks, TaskAction(t) \/ (t \in Logins /\ BrowserAction(t)), NEW c \in Calls, Pending(c)'
      PROVE  fresh'[c].access > current'[c].access
  <2>1. TokenFlow(t) /\ \A u \in Tasks \ {t} : Same(u)
    BY <1>1, Flow, OneTaskMoves
  <2>2. CASE c # t
    BY <1>1, <2>1, <2>2 DEF Younger, Same, Pending, Unread
  <2>3. CASE c = t /\ Grant(t)
    <3>1. job[t] = "none"
      BY <2>3 DEF Grant, Shapes, Shape
    <3>2. pc[t] \notin Ended
      BY <1>1, <2>3, <3>1, GrantFacts DEF Pending, Unread, Working
    <3>3. fresh'[t].access = issued + 1 /\ current'[t] = current[t]
      BY <2>3, <3>2, GrantFacts
    <3>4. current[t].access \in Nat /\ current[t].access <= issued /\ issued \in Nat
      BY TokenFacts DEF Issued, TypeOK
    <3>5. QED
      BY <2>3, <3>3, <3>4
  <2>4. CASE c = t /\ ~Grant(t)
    BY <1>1, <2>1, <2>4 DEF Younger, TokenFlow
  <2>5. QED
    BY <2>2, <2>3, <2>4
<1>2. ASSUME NEW m \in Managers, Crash(m), NEW c \in Calls, Pending(c)'
      PROVE  fresh'[c].access > current'[c].access
  <2>1. Same(c)
    BY <1>2, CrashFacts DEF Wiped, Pending, Unread, Working, Ended
  <2>2. QED
    BY <1>2, <2>1 DEF Younger, Same, Pending, Unread
<1>3. CASE Expire \/ UNCHANGED allVars
  BY <1>3 DEF Expire, allVars, vars, task, server, Younger, Pending, Unread
<1>4. QED
  BY <1>1, <1>2, <1>3, Steps DEF Younger

LEMMA StoreStep ==
  ASSUME TypeOK, Shapes, Rotated, Younger, [LoginNext]_allVars
  PROVE  StoreGetsYounger
<1> USE TaskFacts
<1>1. ASSUME NEW t \in Tasks, TaskAction(t) \/ (t \in Logins /\ BrowserAction(t)),
             setting.store = "file", setting.endpoint = "rotating", store' # store
      PROVE  \/ store'.access > store.access
             \/ \E l \in Logins : job[l] = "write" /\ store' = fresh[l]
  <2>1. job[t] \in Working /\ store' = fresh[t]
        /\ (t \in Calls => store.refresh = current[t].refresh)
    BY <1>1, Flow DEF TokenFlow
  <2>2. CASE t \in Logins
    BY <2>1, <2>2 DEF Shapes, Shape, Working
  <2>3. CASE t \in Calls
    <3>1. store.refresh = store.access /\ current[t].refresh = current[t].access
      BY <1>1 DEF Rotated, Held
    <3>2. fresh[t].access > current[t].access
      BY <2>1, <2>3 DEF Younger, Pending
    <3>3. QED
      BY <2>1, <2>3, <3>1, <3>2
  <2>4. QED
    BY <2>2, <2>3
<1>2. ASSUME NEW m \in Managers, Crash(m)
      PROVE  store' = store
  BY <1>2, CrashFacts
<1>3. CASE Expire \/ UNCHANGED allVars
  BY <1>3 DEF Expire, allVars, vars, StoreGetsYounger
<1>4. QED
  BY <1>1, <1>2, <1>3, Steps DEF StoreGetsYounger

(* Among processes that share a token file, with an endpoint that rotates     *)
(* refresh tokens, no refresh puts an older token in the place of a younger   *)
(* one, however late its thread comes to write: comparing the refresh tokens  *)
(* is enough.  A login may, for it writes without a comparison.               *)
THEOREM RefreshStoresYounger == LoginSpec => [][StoreGetsYounger]_allVars
<1>1. LoginInit => Younger
  BY DEF LoginInit, Init, Younger, Pending, Unread, Working, Tasks
<1>2. LoginTypeOK /\ Shapes /\ Issued /\ Younger /\ [LoginNext]_allVars => Younger'
  BY YoungerStep DEF LoginTypeOK
<1>3. LoginTypeOK /\ Shapes /\ Rotated /\ Younger /\ [LoginNext]_allVars => [StoreGetsYounger]_allVars
  BY StoreStep DEF LoginTypeOK
<1>4. QED
  BY <1>1, <1>2, <1>3, LoginTypeCorrect, ShapeInvariant, PlacesInvariant, LineageInvariant, PTL DEF LoginSpec
=============================================================================
