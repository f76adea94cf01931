---------------------------- MODULE BrowserLogin ----------------------------
(***************************************************************************)
(* authorize_with_loopback in auth.py: a login that opens a browser, waits *)
(* on a local HTTP server for the redirect that carries the authorization  *)
(* code, and exchanges it (TokenRefresh).  The server answers one          *)
(* connection per handle_request, in a thread; the task looks at what the  *)
(* handler has left, and at the deadline, between two of them.  A          *)
(* cancelled task closes the listening socket and leaves the thread to     *)
(* finish the connection it has.                                           *)
(***************************************************************************)
EXTENDS TokenRefresh

\* The thread of handle_request would die with a crashed process.
ASSUME BrowserAssumption == \A s \in Settings : s.browser => "crash" \notin s.faults

VARIABLES server_thread, \* what the thread of handle_request does
          callback,      \* what the handler has left in _LoopbackCallback
          late,          \* the deadline has passed
          told           \* the browser was told "Authorization complete"

loopback == <<server_thread, callback, late, told>>
allVars == <<vars, loopback>>

LoginTypeOK ==
  /\ TypeOK
  /\ server_thread \in [Logins -> {"none", "waiting", "reading"}]
  /\ callback \in [Logins -> {"none", "code", "error"}]
  /\ late \in [Logins -> BOOLEAN]
  /\ told \in [Logins -> BOOLEAN]

LoginInit ==
  /\ Init
  /\ server_thread = [l \in Logins |-> "none"]
  /\ callback = [l \in Logins |-> "none"]
  /\ late = [l \in Logins |-> FALSE]
  /\ told = [l \in Logins |-> FALSE]

-----------------------------------------------------------------------------
\* The server is bound and the browser opened; either may raise.
Open(l) ==
  /\ pc[l] = "idle" /\ l \in setting.tasks /\ setting.browser
  /\ \/ Ends(l, "failed")
     \/ Goto(l, "browser") /\ UNCHANGED <<task, flight, fresh, job, lock, store, server, expired>>
  /\ UNCHANGED loopback

\* The while loop goes on: handle_request waits for a connection.
Listen(l) ==
  /\ pc[l] = "browser" /\ server_thread[l] = "none"
  /\ callback[l] = "none" /\ ~late[l]
  /\ server_thread' = [server_thread EXCEPT ![l] = "waiting"]
  /\ UNCHANGED <<vars, callback, late, told>>

\* A second passes without a connection, or the socket is closed under it.
NoConnection(l) ==
  /\ server_thread[l] = "waiting"
  /\ server_thread' = [server_thread EXCEPT ![l] = "none"]
  /\ UNCHANGED <<vars, callback, late, told>>

\* A browser connects, while the listening socket is open.
Connect(l) ==
  /\ server_thread[l] = "waiting" /\ pc[l] = "browser"
  /\ server_thread' = [server_thread EXCEPT ![l] = "reading"]
  /\ UNCHANGED <<vars, callback, late, told>>

\* do_GET: a request for another path (or none at all) leaves nothing; one
\* for the callback path leaves an error, unless its state is the expected
\* one, it carries no error and it carries a code.
Handle(l) ==
  /\ server_thread[l] = "reading"
  /\ server_thread' = [server_thread EXCEPT ![l] = "none"]
  /\ \/ UNCHANGED <<callback, told>>
     \/ callback' = [callback EXCEPT ![l] = "error"] /\ UNCHANGED told
     \/ /\ callback' = [callback EXCEPT ![l] = "code"]
        /\ told' = [told EXCEPT ![l] = TRUE]
  /\ UNCHANGED <<vars, late>>

\* timeout_seconds pass.
Deadline(l) ==
  /\ pc[l] = "browser" /\ ~late[l]
  /\ late' = [late EXCEPT ![l] = TRUE]
  /\ UNCHANGED <<vars, server_thread, callback, told>>

\* Mutant: the deadline is looked at before the code.
LeaveOnDeadline(l) ==
  /\ pc[l] = "browser" /\ server_thread[l] = "none"
  /\ \/ (callback[l] = "error" \/ late[l]) /\ Ends(l, "failed")
     \/ callback[l] = "code" /\ ~late[l] /\ Exchange(l)
  /\ UNCHANGED loopback
\* The loop ends, the server is closed: an error is raised, a code exchanged,
\* and without either the login has timed out.
Leave(l) ==
  /\ pc[l] = "browser" /\ server_thread[l] = "none"
  /\ \/ (callback[l] = "error" \/ (callback[l] = "none" /\ late[l])) /\ Ends(l, "failed")
     \/ callback[l] = "code" /\ Exchange(l)
  /\ UNCHANGED loopback

-----------------------------------------------------------------------------
LoginNext ==
  \/ Next /\ UNCHANGED loopback
  \/ \E l \in Logins : \/ Open(l) \/ Listen(l) \/ NoConnection(l) \/ Connect(l)
                       \/ Handle(l) \/ Deadline(l) \/ Leave(l)

LoginSpec == LoginInit /\ [][LoginNext]_allVars

\* The event loop and the threads run, the endpoint answers (a request is given
\* up after HTTPRequest.timeout_seconds) and the clock advances.  A browser that
\* has connected sends its request or closes the connection: handle_request
\* reads without a timeout, and a silent connection would hold the login.
FairLoginSpec ==
  /\ LoginSpec
  /\ \A t \in Tasks : WF_allVars(Advance(t) /\ UNCHANGED loopback)
  /\ \A l \in Logins : /\ WF_allVars(Listen(l)) /\ WF_allVars(NoConnection(l) \/ Handle(l))
                       /\ WF_allVars(Deadline(l)) /\ WF_allVars(Leave(l))

-----------------------------------------------------------------------------
\* A user who was told "Authorization complete" is logged in, unless something
\* goes wrong afterwards: a deadline that passes while the handler writes, or
\* between its answer and the next look at the clock, does not drop the code.
ToldMeansLoggedIn ==
  Undisturbed => \A l \in Logins : told[l] => pc[l] # "failed"

=============================================================================
