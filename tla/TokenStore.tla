----------------------------- MODULE TokenStore -----------------------------
(***************************************************************************)
(* What a token store promises the processes that share it (TokenStore in  *)
(* auth.py): save and compare_and_swap_refresh_token take effect at one    *)
(* instant between the call and its return, or not at all.  A call that    *)
(* reports that it stored its token did, a swap that reports that it was   *)
(* beaten met another token than the one it expected, and one that raises  *)
(* before it takes effect changes nothing.                                 *)
(***************************************************************************)
CONSTANTS Writers,  \* each stores a token of its own
          Anything, \* what save expects to replace
          Initial   \* the token first stored

VARIABLES call,     \* where the call of a writer stands
          expected, \* the token it is to replace
          stored    \* the token in the store

storeVars == <<call, expected, stored>>

StoreInit ==
  /\ call = [w \in Writers |-> "none"]
  /\ expected = [w \in Writers |-> Anything]
  /\ stored = Initial

Ask(w) ==
  /\ call[w] = "none"
  /\ call' = [call EXCEPT ![w] = "asked"]
  /\ \E token \in Writers \cup {Initial, Anything} :
       expected' = [expected EXCEPT ![w] = token]
  /\ UNCHANGED stored

\* The call takes effect.
Take(w) ==
  /\ call[w] = "asked"
  /\ IF expected[w] \in {Anything, stored}
       THEN stored' = w /\ call' = [call EXCEPT ![w] = "written"]
       ELSE call' = [call EXCEPT ![w] = "beaten"] /\ UNCHANGED stored
  /\ UNCHANGED expected

Raise(w) ==
  /\ call[w] = "asked"
  /\ call' = [call EXCEPT ![w] = "failed"]
  /\ UNCHANGED <<expected, stored>>

\* The call is over; one that is over before it took effect has timed out.
Over(w) ==
  /\ call[w] \in {"asked", "written", "beaten", "failed"}
  /\ call' = [call EXCEPT ![w] = "none"]
  /\ expected' = [expected EXCEPT ![w] = Anything]
  /\ UNCHANGED stored

Die(w) ==
  /\ call[w] # "dead"
  /\ call' = [call EXCEPT ![w] = "dead"]
  /\ expected' = [expected EXCEPT ![w] = Anything]
  /\ UNCHANGED stored

StoreNext == \E w \in Writers : Ask(w) \/ Take(w) \/ Raise(w) \/ Over(w) \/ Die(w)

StoreSpec == StoreInit /\ [][StoreNext]_storeVars
=============================================================================
