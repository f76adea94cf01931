---------------------------- MODULE OrderRecovery ----------------------------
(***************************************************************************)
(* What the caller of an order of unknown fate is meant to do: list the     *)
(* account's orders (OrderPages) and look for the order's fingerprint with  *)
(* match_unknown_order (reconciliation.py).  The order may be applied       *)
(* before, during or after that (OrderClient), and the account has other    *)
(* orders, which may look like it.                                         *)
(***************************************************************************)
EXTENDS OrderClient

CONSTANTS Lost,    \* the place_order call whose order is looked for
          Rivals,  \* other orders the broker may hold
          Ours,    \* the order of Lost
          Row,     \* [Rivals -> Rows]: what the broker shows of them
          MaxOrderPages

\* A row as the fingerprint sees it: its account, whether symbol, action,
\* type, quantity and prices are those of the order, and whether it was opened
\* within the time window or at a time that is missing or without a zone.
Rows == [account : Accounts \cup {NoAccount}, terms : {"same", "other"},
         opened : {"near", "far", "unknown"}]

ASSUME LostAssumption == Lost \in Calls /\ Kind[Lost] = "place"
ASSUME RivalsAssumption == Ours \notin Rivals /\ Row \in [Rivals -> Rows]
ASSUME PagesAssumption == MaxOrderPages \in Nat \ {0}

VARIABLES rivals,  \* those the broker holds
          opened,  \* what the row of Ours says of its opening
          listing, page, rows, begun, \* the listing of OrderPages
          verdict, \* ReconciliationResult.outcome
          matches  \* the orders of ReconciliationResult.matches

pages == <<listing, page, rows, begun>>
result == <<verdict, matches>>
recovery == <<rivals, opened, pages, result>>

Ids == Rivals \cup {Ours}
Book == rivals \cup {o \in {Ours} : executed[Lost] > 0}
Listing == INSTANCE OrderPages WITH book <- Book

RecoveryTypeOK ==
  /\ Listing!TypeOK
  /\ rivals \subseteq Rivals
  /\ opened \in {"near", "unknown"}
  /\ verdict \in {"none", "EXACT_MATCH", "NO_MATCH", "MULTIPLE_MATCHES"}
  /\ matches \subseteq Ids

RecoveryInit ==
  /\ Init /\ Listing!Init
  /\ rivals \in SUBSET Rivals /\ opened \in {"near", "unknown"}
  /\ verdict = "none" /\ matches = {}

-----------------------------------------------------------------------------
RowOf(o) == IF o = Ours
            THEN [account |-> Account[Lost], terms |-> "same", opened |-> opened]
            ELSE Row[o]

\* _matches_fingerprint
MatchesFingerprint(row) ==
  /\ row.account \in {NoAccount, Account[Lost]}
  /\ row.terms = "same"
  /\ row.opened = "near"

\* One row matches: of one order that was listed once.
OneRow(found) == \E o \in found : found = {o} /\ rows[o] = 1

\* Mutant: the first of several matches is taken.
FirstOutcome(found) == IF found = {} THEN "NO_MATCH" ELSE "EXACT_MATCH"
Outcome(found) == CASE OneRow(found) -> "EXACT_MATCH"
                    [] found = {} -> "NO_MATCH"
                    [] OTHER -> "MULTIPLE_MATCHES"

\* match_unknown_order over the orders that were listed.
Match ==
  LET Found == {o \in Listing!Listed : MatchesFingerprint(RowOf(o))}
  IN /\ listing = "returned" /\ verdict = "none"
     /\ matches' = Found
     /\ verdict' = Outcome(Found)
     /\ UNCHANGED <<vars, rivals, opened, pages>>

\* The caller lists the orders once the fate of its own is unknown, and again
\* as often as it likes.
List ==
  /\ outcome[Lost] \in {"reconcile", "cancelled"}
  /\ Listing!Begin
  /\ verdict' = "none" /\ matches' = {}
  /\ UNCHANGED <<vars, rivals, opened>>

ReadPages == Listing!Step /\ UNCHANGED <<vars, rivals, opened, result>>

\* Another order of the account, or of another one listed with it.
RivalArrives ==
  /\ \E o \in Rivals \ rivals : rivals' = rivals \cup {o}
  /\ UNCHANGED <<vars, opened, pages, result>>

RecoveryNext ==
  \/ Next /\ UNCHANGED recovery
  \/ List \/ ReadPages \/ Match \/ RivalArrives

RecoverySpec == RecoveryInit /\ [][RecoveryNext]_<<vars, recovery>>

\* Every GET of a page returns or raises, as every call of OrderClient does.
FairRecoverySpec == RecoverySpec /\ WF_<<vars, recovery>>(ReadPages)

-----------------------------------------------------------------------------
\* NO_MATCH means that the order had not been applied when the listing began.
\* (It may have been since: a resubmission is never safe on this alone.)
NoMatchMeansNotYet ==
  verdict = "NO_MATCH" /\ opened = "near" => Ours \notin begun

\* Of an order applied before the listing began, EXACT_MATCH names no other:
\* one that looks like it makes MULTIPLE_MATCHES.
ExactMatchIsOurs ==
  verdict = "EXACT_MATCH" /\ opened = "near" /\ Ours \in begun => matches = {Ours}

\* Every listing of orders returns or raises.
ListingEnds == Listing!ListingEnds
=============================================================================
