---------------------------- MODULE TokenFileLock ----------------------------
(***************************************************************************)
(* FileTokenStore.save and compare_and_swap_refresh_token under             *)
(* _TokenFileLock (auth.py): processes that share one token file create a   *)
(* lock file exclusively, write their pid into it, and remove it when they  *)
(* are done; a contender that judges the lock stale renames it away.  One   *)
(* action per file-system call, a crash between any two of them.            *)
(*                                                                         *)
(* OpenFilesPinned says whether a file some process has open can be renamed *)
(* or removed: TRUE on Windows, where it cannot, FALSE on POSIX systems.    *)
(* A crashed process stays down; one that replaces it has a pid of its own. *)
(***************************************************************************)
EXTENDS Integers, FiniteSets

CONSTANTS Procs, OpenFilesPinned,
          NoPid,         \* a lock file without a readable pid
          NoFile,        \* the lock path does not exist
          Anything,      \* what save expects to replace
          Initial,       \* the refresh token first stored
          MaxWaits       \* sleeps until the deadline: timeout / 0.05 s

ASSUME PinnedAssumption == OpenFilesPinned \in BOOLEAN
ASSUME WaitsAssumption == MaxWaits \in Nat
ASSUME NamesAssumption == /\ NoPid \notin Procs /\ Initial \notin Procs
                          /\ Anything \notin Procs \cup {Initial}

\* A process stores a refresh token of its own.
Tokens == Procs \cup {Initial}

Locks == [creator : Procs, pid : Procs \cup {NoPid}, open : BOOLEAN,
          aged : BOOLEAN]
ASSUME LockAssumption == NoFile \notin Locks

VARIABLES pc,
          outcome,   \* what the call has come to: its result, or an exception
          expected,  \* the refresh token a compare-and-swap is to replace
          seen,      \* the pid a contender has read from the lock file
          waits,     \* how often it has slept
          lock,      \* the file at the lock path
          stored     \* the refresh token in the token file

local == <<expected, waits>>
vars == <<pc, outcome, expected, seen, waits, lock, stored>>

Acquiring == {"try", "read", "stat", "probe", "steal", "late"}
Holding == {"pid", "load", "save", "exit"}
Outcomes == {"none", "written", "beaten", "failed"}

TypeOK ==
  /\ pc \in [Procs -> {"idle", "unlink", "dead"} \cup Acquiring \cup Holding]
  /\ outcome \in [Procs -> Outcomes]
  /\ expected \in [Procs -> Tokens \cup {Anything}]
  /\ seen \in [Procs -> Procs \cup {NoPid}]
  /\ waits \in [Procs -> 0..MaxWaits]
  /\ lock \in Locks \cup {NoFile}
  /\ stored \in Tokens

Init ==
  /\ pc = [p \in Procs |-> "idle"]
  /\ outcome = [p \in Procs |-> "none"]
  /\ expected = [p \in Procs |-> Anything]
  /\ seen = [p \in Procs |-> NoPid]
  /\ waits = [p \in Procs |-> 0]
  /\ lock = NoFile
  /\ stored = Initial

Goto(p, label) == pc' = [pc EXCEPT ![p] = label]

\* The call returns or raises; its locals are gone.
Return(p) ==
  /\ Goto(p, "idle")
  /\ outcome' = [outcome EXCEPT ![p] = "none"]
  /\ expected' = [expected EXCEPT ![p] = Anything]
  /\ waits' = [waits EXCEPT ![p] = 0]

\* A lock file just created.
NewLock(p) == [creator |-> p, pid |-> NoPid, open |-> TRUE, aged |-> FALSE]

\* The creator of the lock file no longer has it open.
Released(file) == [file EXCEPT !.open = FALSE]

\* p created the file at the lock path, and it is still the same file.
Owns(p) == lock # NoFile /\ lock.creator = p

\* Its creator has the lock file open, or a contender may, to read the pid: it
\* cannot be moved, or it may be that it cannot.
HeldOpen == OpenFilesPinned /\ lock # NoFile /\ lock.open
MayBeRead(p) ==
  OpenFilesPinned /\ lock # NoFile /\ \E q \in Procs \ {p} : pc[q] = "read"

-----------------------------------------------------------------------------
\* save(token), or compare_and_swap_refresh_token(token, replacement)
Enter(p) ==
  /\ pc[p] = "idle"
  /\ Goto(p, "try")
  /\ \E token \in Tokens \cup {Anything} :
       expected' = [expected EXCEPT ![p] = token]
  /\ UNCHANGED <<outcome, seen, waits, lock, stored>>

\* os.open(O_CREAT | O_EXCL)
Create(p) ==
  /\ pc[p] = "try"
  /\ IF lock = NoFile
       THEN Goto(p, "pid") /\ lock' = NewLock(p)
       ELSE Goto(p, "read") /\ UNCHANGED lock
  /\ UNCHANGED <<outcome, local, seen, stored>>

WritePid(p) ==
  /\ pc[p] = "pid"
  /\ lock' = IF Owns(p) THEN [lock EXCEPT !.pid = p] ELSE lock
  /\ Goto(p, IF expected[p] = Anything THEN "save" ELSE "load")
  /\ UNCHANGED <<outcome, local, seen, stored>>

\* os.write raises: __exit__ does not run, and the lock file stays behind with
\* its descriptor open.
PidFails(p) ==
  /\ pc[p] = "pid"
  /\ Return(p)
  /\ UNCHANGED <<seen, lock, stored>>

\* The critical section is over, with what the call has come to.
Exit(p, result) == Goto(p, "exit") /\ outcome' = [outcome EXCEPT ![p] = result]

\* Mutant: a swap that is beaten reports success.
LoadAndClaim(p) ==
  /\ pc[p] = "load"
  /\ IF stored = expected[p]
       THEN Goto(p, "save") /\ UNCHANGED outcome
       ELSE Exit(p, "written")
  /\ UNCHANGED <<local, seen, lock, stored>>

\* The compare of compare-and-swap, on the token file as it is now.
Load(p) ==
  /\ pc[p] = "load"
  /\ IF stored = expected[p]
       THEN Goto(p, "save") /\ UNCHANGED outcome
       ELSE Exit(p, "beaten")
  /\ UNCHANGED <<local, seen, lock, stored>>

\* os.replace of the temporary file over the token file
Save(p) ==
  /\ pc[p] = "save"
  /\ stored' = p
  /\ Exit(p, "written")
  /\ UNCHANGED <<local, seen, lock>>

\* Reading or writing the token file raises; __exit__ still runs.
TokenFileFails(p) ==
  /\ pc[p] \in {"load", "save"}
  /\ Exit(p, "failed")
  /\ UNCHANGED <<local, seen, lock, stored>>

Close(p) ==
  /\ pc[p] = "exit"
  /\ lock' = IF Owns(p) THEN Released(lock) ELSE lock
  /\ Goto(p, "unlink")
  /\ UNCHANGED <<outcome, local, seen, stored>>

\* The unlink of __exit__ removes the file at the lock path, whoever created
\* it; where open files are pinned it may raise instead.
Unlink(p) ==
  /\ pc[p] = "unlink"
  /\ \/ ~HeldOpen /\ lock' = NoFile
     \/ (HeldOpen \/ MayBeRead(p)) /\ UNCHANGED lock
  /\ Return(p)
  /\ UNCHANGED <<seen, stored>>

-----------------------------------------------------------------------------
\* _read_lock_pid; a file that is gone reads as one without a pid.
ReadPid(p) ==
  /\ pc[p] = "read"
  /\ seen' = [seen EXCEPT ![p] = IF lock = NoFile THEN NoPid ELSE lock.pid]
  /\ Goto(p, IF seen'[p] = NoPid THEN "stat" ELSE "probe")
  /\ UNCHANGED <<outcome, local, lock, stored>>

\* _lock_file_is_stale
Stat(p) ==
  /\ pc[p] = "stat"
  /\ Goto(p, IF lock = NoFile \/ lock.aged THEN "steal" ELSE "late")
  /\ UNCHANGED <<outcome, local, seen, lock, stored>>

\* _process_is_running
Probe(p) ==
  /\ pc[p] = "probe"
  /\ Goto(p, IF pc[seen[p]] = "dead" THEN "steal" ELSE "late")
  /\ seen' = [seen EXCEPT ![p] = NoPid]
  /\ UNCHANGED <<outcome, local, lock, stored>>

\* Mutant: the rename succeeds on a file another process holds open.
StealOpenFile(p) ==
  /\ pc[p] = "steal"
  /\ Goto(p, "try") /\ lock' = NoFile
  /\ UNCHANGED <<outcome, local, seen, stored>>

\* os.replace moves whatever file is at the lock path now out of the way.
Steal(p) ==
  /\ pc[p] = "steal"
  /\ \/ ~HeldOpen /\ Goto(p, "try") /\ lock' = NoFile
     \/ (HeldOpen \/ MayBeRead(p)) /\ Goto(p, "late") /\ UNCHANGED lock
  /\ UNCHANGED <<outcome, local, seen, stored>>

\* Mutant: one sleep too many.
LateOffByOne(p) ==
  /\ pc[p] = "late"
  /\ \/ Return(p)
     \/ /\ waits[p] <= MaxWaits
        /\ waits' = [waits EXCEPT ![p] = @ + 1]
        /\ Goto(p, "try") /\ UNCHANGED <<outcome, expected>>
  /\ UNCHANGED <<seen, lock, stored>>

\* Mutant: the sleep comes without a look at the deadline.
LateForever(p) ==
  /\ pc[p] = "late"
  /\ Goto(p, "try")
  /\ UNCHANGED <<outcome, local, seen, lock, stored>>

\* Past the deadline ConfigurationError is raised, else the contender sleeps.
Late(p) ==
  /\ pc[p] = "late"
  /\ \/ Return(p)
     \/ /\ waits[p] < MaxWaits
        /\ waits' = [waits EXCEPT ![p] = @ + 1]
        /\ Goto(p, "try") /\ UNCHANGED <<outcome, expected>>
  /\ UNCHANGED <<seen, lock, stored>>

-----------------------------------------------------------------------------
\* TOKEN_LOCK_STALE_SECONDS pass.
Age == /\ lock # NoFile /\ ~lock.aged
       /\ lock' = [lock EXCEPT !.aged = TRUE]
       /\ UNCHANGED <<pc, outcome, local, seen, stored>>

\* The process dies; the system closes its files.
Crash(p) ==
  /\ pc[p] # "dead"
  /\ Goto(p, "dead")
  /\ outcome' = [outcome EXCEPT ![p] = "none"]
  /\ expected' = [expected EXCEPT ![p] = Anything]
  /\ waits' = [waits EXCEPT ![p] = 0]
  /\ seen' = [seen EXCEPT ![p] = NoPid]
  /\ lock' = IF Owns(p) THEN Released(lock) ELSE lock
  /\ UNCHANGED stored

Step(p) == \/ Create(p) \/ WritePid(p) \/ PidFails(p) \/ Load(p) \/ Save(p)
           \/ TokenFileFails(p) \/ Close(p) \/ Unlink(p) \/ ReadPid(p) \/ Stat(p) \/ Probe(p) \/ Steal(p) \/ Late(p)

Next == (\E p \in Procs : Enter(p) \/ Step(p) \/ Crash(p)) \/ Age

Spec == Init /\ [][Next]_vars

\* The scheduler runs every process that is not waiting for a new call, and
\* the clock advances.
FairSpec == Spec /\ \A p \in Procs : WF_vars(Step(p))

-----------------------------------------------------------------------------
\* At most one process is between the creation of its lock file and the end of
\* its critical section (save, compare_and_swap_refresh_token).
MutualExclusion ==
  \A p, q \in Procs : pc[p] \in Holding /\ pc[q] \in Holding => p = q

\* The token file, its lock file and all the calls on them are one atomic
\* store: what a process in its call has come to is what the store has made of
\* its call.
CallState(p) ==
  CASE pc[p] = "dead" -> "dead"
    [] pc[p] = "idle" -> "none"
    [] pc[p] \notin {"dead", "idle"} ->
         IF outcome[p] = "none" THEN "asked" ELSE outcome[p]

Store == INSTANCE TokenStore WITH Writers <- Procs,
                                  call <- [p \in Procs |-> CallState(p)]

\* save and compare_and_swap_refresh_token under the lock file behave as if
\* they happened at one instant, and tell what happened.
ImplementsStore == Store!StoreSpec

\* A contender gets the lock or gives up, unless others take and release the
\* lock over and over (the deadline in _TokenFileLock.__enter__).
AcquisitionEndsOrOthersChurn ==
  \/ \A p \in Procs : (pc[p] \in Acquiring) ~> (pc[p] \notin Acquiring)
  \/ \E p \in Procs : []<><<Enter(p)>>_vars

\* A contender renames away only a lock that is stale when the rename happens,
\* never the one a faster process has just created (_steal_stale_lock).
OnlyStaleLocksStolen ==
  [][\A p \in Procs : Steal(p) /\ lock # NoFile /\ lock' = NoFile =>
       lock.aged \/ pc[lock.creator] = "dead"]_vars
=============================================================================
