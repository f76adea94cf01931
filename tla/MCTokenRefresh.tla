--------------------------- MODULE MCTokenRefresh ---------------------------
(* Two calls and a login in several deployments, one with a browser.       *)
EXTENDS BrowserLogin

CONSTANTS c1, c2, l1, m1, m2

MCCalls == {c1, c2}
MCLogins == {l1}
MCManagers == {m1, m2}
MCTasks == {c1, c2, l1}

\* The calls share a process and its refresh lock, the login runs elsewhere.
Shared ==
  [tasks    |-> MCTasks,
   manager  |-> [t \in MCTasks |-> IF t = l1 THEN m2 ELSE m1],
   store    |-> "file",
   endpoint |-> "rotating",
   browser  |-> FALSE,
   faults   |-> {}]

\* An endpoint that does not rotate refresh tokens.
NotRotating == [Shared EXCEPT !.endpoint = "fixed", !.tasks = MCCalls]

\* Two processes refresh one token, and everything may go wrong.
TwoProcesses ==
  [Shared EXCEPT !.manager = [t \in MCTasks |-> IF t = c2 THEN m2 ELSE m1],
                 !.faults = FaultKinds]

\* A call and a login in one process that keeps its token in memory.
InMemory ==
  [Shared EXCEPT !.tasks = {c1, l1},
                 !.manager = [t \in MCTasks |-> m1],
                 !.store = "memory"]

\* The login goes through the browser.
WithBrowser(faults) == [InMemory EXCEPT !.browser = TRUE, !.faults = faults]

MCSettings == {Shared, NotRotating, TwoProcesses, InMemory,
               WithBrowser({}), WithBrowser({"cancel", "timeout", "refusal"})}

\* A refresh may be cancelled, the login runs elsewhere.
CancelledSettings == {[Shared EXCEPT !.faults = {"cancel"}]}

=============================================================================
