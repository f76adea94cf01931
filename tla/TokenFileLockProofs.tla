------------------------- MODULE TokenFileLockProofs -------------------------
(* Theorems about TokenFileLock, for every set of processes.                 *)
EXTENDS TokenFileLock, TLAPS

(* What a process may leave at the lock path. *)
LEMMA NewLockFacts ==
  ASSUME NEW p \in Procs
  PROVE  /\ NewLock(p) \in Locks
         /\ NewLock(p).creator = p
         /\ NewLock(p).open = TRUE
BY DEF NewLock, Locks

LEMMA ReleasedFacts ==
  ASSUME NEW file \in Locks PROVE Released(file) \in Locks
BY DEF Released, Locks

LEMMA PidFacts ==
  ASSUME NEW file \in Locks, NEW p \in Procs
  PROVE  [file EXCEPT !.pid = p] \in Locks
BY DEF Locks

LEMMA AgedFacts ==
  ASSUME NEW file \in Locks PROVE [file EXCEPT !.aged = TRUE] \in Locks
BY DEF Locks

(* The variables stay within their types. *)
THEOREM LockTypeCorrect == Spec => []TypeOK
<1> USE NamesAssumption, LockAssumption, WaitsAssumption
    DEF TypeOK, Tokens, Acquiring, Holding, Outcomes
<1>1. Init => TypeOK
  BY DEF Init
<1>2. TypeOK /\ [Next]_vars => TypeOK'
  <2> SUFFICES ASSUME TypeOK, [Next]_vars PROVE TypeOK'
    OBVIOUS
  <2> USE DEF Goto, Return, local, Exit
  <2>1. ASSUME NEW p \in Procs, Enter(p) PROVE TypeOK'
    BY <2>1 DEF Enter
  <2>2. ASSUME NEW p \in Procs, Create(p) PROVE TypeOK'
    <3>1. CASE lock = NoFile
      BY <2>2, <3>1, NewLockFacts DEF Create
    <3>2. CASE lock # NoFile
      BY <2>2, <3>2 DEF Create
    <3>3. QED
      BY <3>1, <3>2
  <2>3. ASSUME NEW p \in Procs, WritePid(p) PROVE TypeOK'
    BY <2>3, PidFacts DEF WritePid, Owns
  <2>16. ASSUME NEW p \in Procs, PidFails(p) PROVE TypeOK'
    BY <2>16 DEF PidFails
  <2>4. ASSUME NEW p \in Procs, Load(p) PROVE TypeOK'
    BY <2>4 DEF Load
  <2>5. ASSUME NEW p \in Procs, Save(p) \/ TokenFileFails(p) PROVE TypeOK'
    BY <2>5 DEF Save, TokenFileFails
  <2>6. ASSUME NEW p \in Procs, Close(p) PROVE TypeOK'
    BY <2>6, ReleasedFacts DEF Close, Owns
  <2>7. ASSUME NEW p \in Procs, Unlink(p) PROVE TypeOK'
    BY <2>7 DEF Unlink
  <2>8. ASSUME NEW p \in Procs, ReadPid(p) PROVE TypeOK'
    BY <2>8 DEF ReadPid, Locks
  <2>9. ASSUME NEW p \in Procs, Stat(p) \/ Probe(p) PROVE TypeOK'
    BY <2>9 DEF Stat, Probe
  <2>10. ASSUME NEW p \in Procs, Steal(p) PROVE TypeOK'
    BY <2>10 DEF Steal
  <2>11. ASSUME NEW p \in Procs, Late(p) PROVE TypeOK'
    BY <2>11 DEF Late
  <2>12. ASSUME NEW p \in Procs, Crash(p) PROVE TypeOK'
    BY <2>12, ReleasedFacts DEF Crash, Owns
  <2>13. CASE Age
    BY <2>13, AgedFacts DEF Age
  <2>14. CASE UNCHANGED vars
    BY <2>14 DEF vars
  <2>15. QED
    BY <2>1, <2>2, <2>3, <2>4, <2>5, <2>6, <2>7, <2>8, <2>9, <2>10, <2>11,
       <2>12, <2>13, <2>14, <2>16 DEF Next, Step
<1>3. QED
  BY <1>1, <1>2, PTL DEF Spec

-----------------------------------------------------------------------------
(* Where an open file cannot be moved, the lock file at the path is the one   *)
(* the holder created and keeps open; every contender's rename and every      *)
(* other process's unlink fails on it.                                       *)
HoldersOwnLock == \A p \in Procs : pc[p] \in Holding => Owns(p) /\ lock.open = TRUE

\* A swap that is about to save has seen the token it expects, and no other
\* process can have saved since.
SwapStillMatches ==
  \A p \in Procs : pc[p] = "save" /\ expected[p] # Anything => stored = expected[p]

LockInv == TypeOK /\ HoldersOwnLock /\ SwapStillMatches

LEMMA OneHolder == HoldersOwnLock => MutualExclusion
BY DEF HoldersOwnLock, MutualExclusion, Owns

LEMMA HoldersKeepLock ==
  ASSUME OpenFilesPinned = TRUE, LockInv, [Next]_vars PROVE HoldersOwnLock'
<1> USE LockAssumption DEF LockInv, HoldersOwnLock, Owns, Holding, Goto, Exit, local, TypeOK
<1>1. ASSUME NEW p \in Procs, Enter(p) PROVE HoldersOwnLock'
  BY <1>1 DEF Enter
<1>2. ASSUME NEW p \in Procs, Create(p) PROVE HoldersOwnLock'
  <2>1. CASE lock = NoFile
    <3>1. \A q \in Procs : pc[q] \notin Holding
      BY <2>1
    <3>2. lock'.creator = p /\ lock'.open = TRUE /\ lock' # NoFile
      BY <1>2, <2>1, NewLockFacts DEF Create
    <3>3. pc' = [pc EXCEPT ![p] = "pid"]
      BY <1>2, <2>1 DEF Create
    <3>4. QED
      BY <3>1, <3>2, <3>3
  <2>2. CASE lock # NoFile
    BY <1>2, <2>2 DEF Create
  <2>3. QED
    BY <2>1, <2>2
<1>3. ASSUME NEW p \in Procs, WritePid(p) PROVE HoldersOwnLock'
  BY <1>3 DEF WritePid, Locks
<1>14. ASSUME NEW p \in Procs, PidFails(p) PROVE HoldersOwnLock'
  BY <1>14 DEF PidFails, Return
<1>4. ASSUME NEW p \in Procs, Load(p) \/ Save(p) \/ TokenFileFails(p)
      PROVE  HoldersOwnLock'
  BY <1>4 DEF Load, Save, TokenFileFails
<1>5. ASSUME NEW p \in Procs, Close(p) PROVE HoldersOwnLock'
  BY <1>5 DEF Close, Locks, Released
<1>6. ASSUME NEW p \in Procs, Unlink(p) PROVE HoldersOwnLock'
  BY <1>6 DEF Unlink, HeldOpen, Return
<1>7. ASSUME NEW p \in Procs, ReadPid(p) \/ Stat(p) \/ Probe(p)
      PROVE  HoldersOwnLock'
  BY <1>7 DEF ReadPid, Stat, Probe
<1>8. ASSUME NEW p \in Procs, Steal(p) PROVE HoldersOwnLock'
  BY <1>8 DEF Steal, HeldOpen
<1>9. ASSUME NEW p \in Procs, Late(p) PROVE HoldersOwnLock'
  BY <1>9 DEF Late, Return
<1>10. ASSUME NEW p \in Procs, Crash(p) PROVE HoldersOwnLock'
  BY <1>10 DEF Crash, Locks, Released
<1>11. CASE Age
  BY <1>11 DEF Age, Locks
<1>12. CASE UNCHANGED vars
  BY <1>12 DEF vars
<1>13. QED
  BY <1>1, <1>2, <1>3, <1>4, <1>5, <1>6, <1>7, <1>8, <1>9, <1>10, <1>11, <1>12, <1>14
     DEF Next, Step

LEMMA SwapKeepsMatching ==
  ASSUME LockInv, [Next]_vars PROVE SwapStillMatches'
<1> USE DEF LockInv, SwapStillMatches, Goto, Exit, local, TypeOK
<1>1. ASSUME NEW p \in Procs, Save(p) PROVE SwapStillMatches'
  <2>1. \A q \in Procs : pc[q] = "save" => q = p
    BY <1>1, OneHolder DEF Save, MutualExclusion, Holding
  <2>2. QED
    BY <1>1, <2>1 DEF Save
<1>2. ASSUME NEW p \in Procs, WritePid(p) \/ Load(p) \/ TokenFileFails(p)
      PROVE  SwapStillMatches'
  BY <1>2 DEF WritePid, Load, TokenFileFails
<1>3. ASSUME NEW p \in Procs,
             \/ Enter(p) \/ Create(p) \/ Close(p) \/ Unlink(p) \/ ReadPid(p)
             \/ Stat(p) \/ Probe(p) \/ Steal(p) \/ Late(p) \/ Crash(p) \/ PidFails(p)
      PROVE  SwapStillMatches'
  BY <1>3 DEF PidFails, Enter, Create, Close, Unlink, ReadPid, Stat, Probe, Steal, Late,
              Crash, Return
<1>4. Age \/ UNCHANGED vars => SwapStillMatches'
  BY DEF Age, vars
<1>5. QED
  BY <1>1, <1>2, <1>3, <1>4 DEF Next, Step

LEMMA LockInvariant == ASSUME OpenFilesPinned = TRUE PROVE Spec => []LockInv
<1>1. Init => HoldersOwnLock /\ SwapStillMatches
  BY DEF Init, HoldersOwnLock, SwapStillMatches, Holding
<1>2. TypeOK /\ HoldersOwnLock /\ SwapStillMatches /\ [Next]_vars
        => HoldersOwnLock' /\ SwapStillMatches'
  BY HoldersKeepLock, SwapKeepsMatching DEF LockInv
<1>3. QED
  BY <1>1, <1>2, LockTypeCorrect, PTL DEF Spec, LockInv

(* Where open files are pinned (Windows), the lock file excludes.             *)
THEOREM LockExcludes ==
  ASSUME OpenFilesPinned = TRUE PROVE Spec => []MutualExclusion
<1>1. LockInv => MutualExclusion
  BY OneHolder DEF LockInv
<1>2. QED
  BY <1>1, LockInvariant, PTL

-----------------------------------------------------------------------------
(* The refinement.  A call has no outcome before its critical section is over,*)
(* and only a swap compares.                                                *)
OutcomeComesLast ==
  \A p \in Procs : outcome[p] # "none" => pc[p] \in {"exit", "unlink"}
OnlySwapLoads == \A p \in Procs : pc[p] = "load" => expected[p] # Anything

CallInv == LockInv /\ OutcomeComesLast /\ OnlySwapLoads

LEMMA CallInvariant == ASSUME OpenFilesPinned = TRUE PROVE Spec => []CallInv
<1> DEFINE Calls == OutcomeComesLast /\ OnlySwapLoads
<1> USE DEF OutcomeComesLast, OnlySwapLoads
<1>1. Init => Calls
  BY DEF Init
<1>2. TypeOK /\ Calls /\ [Next]_vars => Calls'
  <2> SUFFICES ASSUME TypeOK, Calls, [Next]_vars PROVE Calls'
    OBVIOUS
  <2> USE DEF TypeOK, Goto, Exit, Return, local
  <2>1. ASSUME NEW p \in Procs,
               \/ Enter(p) \/ Create(p) \/ WritePid(p) \/ Load(p) \/ Save(p)
               \/ TokenFileFails(p) \/ Close(p) \/ Unlink(p) \/ PidFails(p)
        PROVE  Calls'
    BY <2>1 DEF PidFails, Enter, Create, WritePid, Load, Save, TokenFileFails, Close, Unlink
  <2>2. ASSUME NEW p \in Procs,
               ReadPid(p) \/ Stat(p) \/ Probe(p) \/ Steal(p) \/ Late(p) \/ Crash(p)
        PROVE  Calls'
    BY <2>2 DEF ReadPid, Stat, Probe, Steal, Late, Crash
  <2>3. Age \/ UNCHANGED vars => Calls'
    BY DEF Age, vars
  <2>4. QED
    BY <2>1, <2>2, <2>3 DEF Next, Step
<1>3. QED
  BY <1>1, <1>2, LockTypeCorrect, LockInvariant, PTL DEF Spec, CallInv

\* A step that leaves what each process has come to, what it expects and the
\* token file alone is none of the store.
LEMMA CallsUnchanged ==
  ASSUME \A p \in Procs : CallState(p)' = CallState(p), UNCHANGED <<expected, stored>>
  PROVE  UNCHANGED Store!storeVars
BY DEF Store!storeVars

\* A step of one process that takes its call from one state to the next.
LEMMA OneCallMoves ==
  ASSUME NEW p \in Procs, NEW state,
         CallState(p)' = state,
         \A q \in Procs \ {p} : CallState(q)' = CallState(q)
  PROVE  [q \in Procs |-> CallState(q)']
           = [[q \in Procs |-> CallState(q)] EXCEPT ![p] = state]
OBVIOUS

LEMMA OthersStay ==
  ASSUME TypeOK, NEW p \in Procs, NEW label, NEW result,
         pc' = [pc EXCEPT ![p] = label], outcome' = [outcome EXCEPT ![p] = result]
  PROVE  /\ \A q \in Procs \ {p} : CallState(q)' = CallState(q)
         /\ pc'[p] = label /\ outcome'[p] = result
BY DEF TypeOK, CallState

LEMMA OthersStayToo ==
  ASSUME TypeOK, NEW p \in Procs, NEW label,
         pc' = [pc EXCEPT ![p] = label], UNCHANGED outcome
  PROVE  /\ \A q \in Procs \ {p} : CallState(q)' = CallState(q)
         /\ pc'[p] = label /\ outcome'[p] = outcome[p]
BY DEF TypeOK, CallState

LEMMA StoreStep ==
  ASSUME CallInv, [Next]_vars PROVE [Store!StoreNext]_Store!storeVars
<1> USE DEF CallInv, LockInv
<1>1. ASSUME NEW p \in Procs, Enter(p) PROVE Store!Ask(p)
  <2>1. /\ CallState(p) = "none" /\ CallState(p)' = "asked"
        /\ \A q \in Procs \ {p} : CallState(q)' = CallState(q)
    <3>1. pc[p] = "idle" /\ outcome[p] = "none"
      BY <1>1 DEF Enter, OutcomeComesLast, TypeOK, Outcomes
    <3>2. /\ \A q \in Procs \ {p} : CallState(q)' = CallState(q)
          /\ pc'[p] = "try" /\ outcome'[p] = "none"
      BY <1>1, <3>1, OthersStayToo DEF Enter, Goto
    <3>3. QED
      BY <3>1, <3>2 DEF CallState
  <2>2. QED
    BY <1>1, <2>1, OneCallMoves DEF Enter, Store!Ask, Tokens
<1>2. ASSUME NEW p \in Procs, Load(p)
      PROVE  Store!Take(p) \/ UNCHANGED Store!storeVars
  <2>1. CASE stored = expected[p]
    <3>1. \A q \in Procs : CallState(q)' = CallState(q)
      BY <1>2, <2>1, OthersStayToo DEF Load, Goto, CallState, OutcomeComesLast
    <3>2. QED
      BY <1>2, <2>1, <3>1, CallsUnchanged DEF Load, local
  <2>2. CASE stored # expected[p]
    <3>1. /\ CallState(p) = "asked" /\ CallState(p)' = "beaten"
          /\ \A q \in Procs \ {p} : CallState(q)' = CallState(q)
      BY <1>2, <2>2, OthersStay DEF Load, Exit, Goto, CallState, OutcomeComesLast
    <3>2. expected[p] \notin {Anything, stored}
      BY <1>2, <2>2 DEF Load, OnlySwapLoads
    <3>3. QED
      BY <1>2, <2>2, <3>1, <3>2, OneCallMoves DEF Load, local, Store!Take
  <2>3. QED
    BY <2>1, <2>2
<1>3. ASSUME NEW p \in Procs, Save(p) PROVE Store!Take(p)
  <2>1. /\ CallState(p) = "asked" /\ CallState(p)' = "written"
        /\ \A q \in Procs \ {p} : CallState(q)' = CallState(q)
    <3>1. pc[p] = "save" /\ outcome[p] = "none"
      BY <1>3 DEF Save, OutcomeComesLast, TypeOK, Outcomes
    <3>2. /\ \A q \in Procs \ {p} : CallState(q)' = CallState(q)
          /\ pc'[p] = "exit" /\ outcome'[p] = "written"
      BY <1>3, OthersStay DEF Save, Exit, Goto
    <3>3. QED
      BY <3>1, <3>2 DEF CallState
  <2>2. expected[p] \in {Anything, stored}
    BY <1>3 DEF Save, SwapStillMatches
  <2>3. QED
    BY <1>3, <2>1, <2>2, OneCallMoves DEF Save, local, Store!Take
<1>4. ASSUME NEW p \in Procs, TokenFileFails(p) PROVE Store!Raise(p)
  <2>1. /\ CallState(p) = "asked" /\ CallState(p)' = "failed"
        /\ \A q \in Procs \ {p} : CallState(q)' = CallState(q)
    <3>1. pc[p] \in {"load", "save"} /\ outcome[p] = "none"
      BY <1>4 DEF TokenFileFails, OutcomeComesLast, TypeOK, Outcomes
    <3>2. /\ \A q \in Procs \ {p} : CallState(q)' = CallState(q)
          /\ pc'[p] = "exit" /\ outcome'[p] = "failed"
      BY <1>4, OthersStay DEF TokenFileFails, Exit, Goto
    <3>3. QED
      BY <3>1, <3>2 DEF CallState
  <2>2. QED
    BY <1>4, <2>1, OneCallMoves DEF TokenFileFails, local, Store!Raise
<1>5. ASSUME NEW p \in Procs, pc[p] \notin {"idle", "dead"}, Return(p), UNCHANGED stored
      PROVE  Store!Over(p)
  <2>1. /\ CallState(p) \in {"asked", "written", "beaten", "failed"}
        /\ CallState(p)' = "none"
        /\ \A q \in Procs \ {p} : CallState(q)' = CallState(q)
    BY <1>5, OthersStay DEF Return, Goto, CallState, TypeOK, Outcomes
  <2>2. QED
    BY <1>5, <2>1, OneCallMoves DEF Return, Store!Over
<1>6. ASSUME NEW p \in Procs, Crash(p) PROVE Store!Die(p)
  <2>1. /\ CallState(p) # "dead" /\ CallState(p)' = "dead"
        /\ \A q \in Procs \ {p} : CallState(q)' = CallState(q)
    BY <1>6, OthersStay DEF Crash, Goto, CallState, TypeOK, Outcomes
  <2>2. QED
    BY <1>6, <2>1, OneCallMoves DEF Crash, Store!Die
<1>7. ASSUME NEW p \in Procs, NEW label \in Acquiring \cup Holding \cup {"unlink"},
             pc[p] \notin {"idle", "dead"}, Goto(p, label),
             UNCHANGED <<outcome, expected, stored>>
      PROVE  UNCHANGED Store!storeVars
  <2>1. \A q \in Procs : CallState(q)' = CallState(q)
    BY <1>7, OthersStayToo DEF Goto, CallState, Acquiring, Holding
  <2>2. QED
    BY <1>7, <2>1, CallsUnchanged
<1>8. ASSUME NEW p \in Procs,
             \/ Create(p) \/ WritePid(p) \/ Close(p) \/ ReadPid(p) \/ Stat(p)
             \/ Probe(p) \/ Steal(p)
      PROVE  UNCHANGED Store!storeVars
  <2>1. /\ pc[p] \notin {"idle", "dead"} /\ UNCHANGED <<outcome, expected, stored>>
        /\ \E label \in Acquiring \cup Holding \cup {"unlink"} : Goto(p, label)
    BY <1>8 DEF Create, WritePid, Close, ReadPid, Stat, Probe, Steal, Acquiring,
                Holding, local
  <2>2. QED
    BY <1>7, <2>1
<1>9. ASSUME NEW p \in Procs, Late(p)
      PROVE  Store!Over(p) \/ UNCHANGED Store!storeVars
  <2>1. pc[p] \notin {"idle", "dead"} /\ "try" \in Acquiring /\ UNCHANGED stored
    BY <1>9 DEF Late, Acquiring
  <2>2. QED
    BY <1>9, <1>5, <1>7, <2>1 DEF Late
<1>10. ASSUME NEW p \in Procs, Unlink(p) \/ PidFails(p) PROVE Store!Over(p)
  BY <1>10, <1>5 DEF Unlink, PidFails
<1>11. Age \/ UNCHANGED vars => UNCHANGED Store!storeVars
  <2>1. Age \/ UNCHANGED vars => UNCHANGED <<pc, outcome, expected, stored>>
    BY DEF Age, vars, local
  <2>2. UNCHANGED <<pc, outcome>> => \A q \in Procs : CallState(q)' = CallState(q)
    BY DEF CallState
  <2>3. QED
    BY <2>1, <2>2, CallsUnchanged
<1>12. QED
  BY <1>1, <1>2, <1>3, <1>4, <1>6, <1>8, <1>9, <1>10, <1>11
     DEF Next, Step, Store!StoreNext

(* Where open files are pinned, a token file that any number of processes share,*)
(* with its lock file and with crashes between any two calls of the file system,*)
(* is one atomic store: save and compare_and_swap_refresh_token happen at one   *)
(* instant and tell what happened.                                           *)
THEOREM LockFileIsAtomicStore ==
  ASSUME OpenFilesPinned = TRUE PROVE Spec => ImplementsStore
<1>1. Init => Store!StoreInit
  BY DEF Init, Store!StoreInit, CallState
<1>2. QED
  BY <1>1, StoreStep, CallInvariant, PTL DEF Spec, ImplementsStore, Store!StoreSpec
-----------------------------------------------------------------------------
\* A token is stored by its own process, and a swap stores it over the token it
\* compared with: none that came in between is lost.
NoLostUpdate ==
  stored' # stored =>
    \E p \in Procs : pc[p] = "save" /\ stored' = p /\ expected[p] \in {Anything, stored}

(* Where open files are pinned, compare_and_swap_refresh_token overwrites no  *)
(* token but the one it was told to replace, though it reads the file and     *)
(* replaces it in two steps.                                                 *)
THEOREM SwapsLoseNothing ==
  ASSUME OpenFilesPinned = TRUE PROVE Spec => [][NoLostUpdate]_vars
<1>1. LockInv /\ [Next]_vars => [NoLostUpdate]_vars
  <2> SUFFICES ASSUME LockInv, Next, stored' # stored
               PROVE  NoLostUpdate
    BY DEF NoLostUpdate
  <2>1. PICK p \in Procs : Save(p)
    BY DEF Next, Step, Enter, Create, WritePid, PidFails, Load, TokenFileFails, Close, Unlink,
           ReadPid, Stat, Probe, Steal, Late, Crash, Age
  <2>2. pc[p] = "save" /\ stored' = p
    BY <2>1 DEF Save
  <2>3. expected[p] \in {Anything, stored}
    BY <2>2 DEF LockInv, SwapStillMatches
  <2>4. QED
    BY <2>2, <2>3 DEF NoLostUpdate
<1>2. QED
  BY <1>1, LockInvariant, PTL DEF Spec
-----------------------------------------------------------------------------
(* How long a contender can go round.  What is left of it is the sleeps until *)
(* its deadline and the looks at the lock file before the next one.          *)
LooksLeft(p) == CASE pc[p] = "try" -> 5
                  [] pc[p] = "read" -> 4
                  [] pc[p] \in {"stat", "probe"} -> 3
                  [] pc[p] = "steal" -> 2
                  [] pc[p] = "late" -> 1
RoundsLeft(p) == IF pc[p] \in Acquiring THEN 5 * (MaxWaits - waits[p]) + LooksLeft(p) ELSE 0

MostLooks == 5 * MaxWaits + 5

\* A contender that is not done yet has fewer looks left after each step, unless
\* the step leaves no file at the lock path; nothing another process does adds
\* to them.
LooksRunOut ==
  \A p \in Procs : pc[p] \in Acquiring =>
    /\ Step(p) => RoundsLeft(p)' < RoundsLeft(p) \/ (Steal(p) /\ lock' = NoFile)
    /\ RoundsLeft(p)' # RoundsLeft(p) => Step(p) \/ Crash(p)

LEMMA RoundsBounded ==
  ASSUME TypeOK, NEW p \in Procs
  PROVE  /\ RoundsLeft(p) \in 0..MostLooks
         /\ pc[p] \in Acquiring => RoundsLeft(p) > 0
<1>1. waits[p] \in 0..MaxWaits /\ MaxWaits \in Nat
  BY WaitsAssumption DEF TypeOK
<1>2. pc[p] \in Acquiring => LooksLeft(p) \in 1..5
  BY DEF LooksLeft, Acquiring
<1>3. QED
  BY <1>1, <1>2 DEF RoundsLeft, MostLooks

LEMMA OthersLook ==
  ASSUME TypeOK, NEW p \in Procs, NEW q \in Procs \ {p}, Enter(q) \/ Step(q) \/ Crash(q)
  PROVE  RoundsLeft(p)' = RoundsLeft(p)
<1>1. pc'[p] = pc[p] /\ waits'[p] = waits[p]
  BY DEF TypeOK, Enter, Step, Create, WritePid, PidFails, Load, Save, TokenFileFails, Close, Unlink,
         ReadPid, Stat, Probe, Steal, Late, Crash, Goto, Return, Exit, local
<1>2. QED
  BY <1>1 DEF RoundsLeft, LooksLeft

LEMMA StepLooks ==
  ASSUME TypeOK, NEW p \in Procs, pc[p] \in Acquiring, Step(p)
  PROVE  RoundsLeft(p)' < RoundsLeft(p) \/ (Steal(p) /\ lock' = NoFile)
<1>0. waits[p] \in 0..MaxWaits /\ MaxWaits \in Nat /\ RoundsLeft(p) > 0
  BY RoundsBounded, WaitsAssumption DEF TypeOK
<1>1. ASSUME pc'[p] \notin Acquiring PROVE RoundsLeft(p)' < RoundsLeft(p)
  BY <1>0, <1>1 DEF RoundsLeft
<1>2. CASE Create(p) \/ ReadPid(p) \/ Stat(p) \/ Probe(p)
  BY <1>0, <1>1, <1>2
     DEF Create, ReadPid, Stat, Probe, Goto, local, TypeOK, RoundsLeft, LooksLeft, Acquiring
<1>3. CASE Steal(p)
  BY <1>0, <1>3 DEF Steal, Goto, local, TypeOK, RoundsLeft, LooksLeft, Acquiring
<1>4. CASE Late(p)
  BY <1>0, <1>1, <1>4 DEF Late, Goto, Return, TypeOK, RoundsLeft, LooksLeft, Acquiring
<1>5. CASE \/ WritePid(p) \/ PidFails(p) \/ Load(p) \/ Save(p) \/ TokenFileFails(p) \/ Close(p)
           \/ Unlink(p)
  BY <1>5 DEF WritePid, PidFails, Load, Save, TokenFileFails, Close, Unlink, Acquiring
<1>6. QED
  BY <1>2, <1>3, <1>4, <1>5 DEF Step

(* A contender gets the lock or gives up after at most 5 * MaxWaits + 5 of    *)
(* its own steps (the deadline in _TokenFileLock.__enter__), counted anew only *)
(* when it has freed the lock path itself: only new lock files of others can  *)
(* keep it going.                                                            *)
THEOREM ContendersRunOut ==
  Spec => [](\A p \in Procs : RoundsLeft(p) \in 0..MostLooks) /\ [][LooksRunOut]_vars
<1>1. TypeOK => \A p \in Procs : RoundsLeft(p) \in 0..MostLooks
  BY RoundsBounded
<1>2. TypeOK /\ [Next]_vars => [LooksRunOut]_vars
  <2> SUFFICES ASSUME TypeOK, Next, NEW p \in Procs, pc[p] \in Acquiring
               PROVE  /\ Step(p) => RoundsLeft(p)' < RoundsLeft(p) \/ (Steal(p) /\ lock' = NoFile)
                      /\ RoundsLeft(p)' # RoundsLeft(p) => Step(p) \/ Crash(p)
    BY DEF LooksRunOut
  <2>1. ~Enter(p)
    BY DEF Enter, Acquiring
  <2>2. Age => RoundsLeft(p)' = RoundsLeft(p)
    BY DEF Age, local, RoundsLeft, LooksLeft
  <2>3. QED
    BY <2>1, <2>2, StepLooks, OthersLook DEF Next
<1>3. QED
  BY <1>1, <1>2, LockTypeCorrect, PTL DEF Spec
=============================================================================
