------------------------- MODULE OrderRecoveryProofs -------------------------
(* Theorems about OrderRecovery, for any calls, any other orders of the      *)
(* broker and any number of pages.                                           *)
EXTENDS OrderRecovery, OrderClientProofs

\* The page that ends a listing completes it.
Complete == listing = "returned" => begun \subseteq Listing!Listed

\* The verdict is about all of what was listed.
Judged ==
  verdict # "none" /\ opened = "near" =>
    /\ Ours \in begun => Ours \in matches
    /\ verdict = "NO_MATCH" => matches = {}
    /\ verdict = "EXACT_MATCH" => \E o \in Ids : matches = {o}

LEMMA BookInIds ==
  ASSUME rivals \subseteq Rivals
  PROVE  Book \subseteq Ids /\ Rivals \subseteq Ids /\ Ours \in Ids
BY DEF Book, Ids

\* The order that is looked for matches its own fingerprint.
LEMMA OursMatches ==
  ASSUME opened = "near"
  PROVE  MatchesFingerprint(RowOf(Ours))
BY DEF MatchesFingerprint, RowOf

LEMMA OutcomeFacts ==
  ASSUME NEW found \in SUBSET Ids
  PROVE  /\ Outcome(found) \in {"EXACT_MATCH", "NO_MATCH", "MULTIPLE_MATCHES"}
         /\ Outcome(found) = "NO_MATCH" => found = {}
         /\ Outcome(found) = "EXACT_MATCH" => \E o \in Ids : found = {o}
BY DEF Outcome, OneRow

\* A page adds what it lists, and a listing that is over has listed all.
LEMMA PageFacts ==
  ASSUME RecoveryTypeOK, Complete, Listing!Step
  PROVE  /\ listing = "asking" /\ listing' \in {"asking", "returned", "failed"}
         /\ page' \in 1..MaxOrderPages /\ rows' \in [Ids -> 0..2] /\ begun' = begun
         /\ Complete'
<1>1. CASE Listing!ReadFails
  BY <1>1 DEF Listing!ReadFails, RecoveryTypeOK, Listing!TypeOK, Complete
<1>2. CASE Listing!ReadPage
  <2>1. PICK found \in SUBSET Book, token \in {"none", "repeated", "new"} :
               /\ Listing!Answers(found, token)
               /\ rows' = [o \in Ids |-> IF o \in found /\ rows[o] < 2 THEN rows[o] + 1 ELSE rows[o]]
               /\ Listing!Follow(token)
    BY <1>2 DEF Listing!ReadPage
  <2>2. listing = "asking" /\ begun' = begun
    BY <1>2 DEF Listing!ReadPage
  <2>3. rows \in [Ids -> 0..2] /\ page \in 1..MaxOrderPages /\ begun \subseteq Ids
    BY DEF RecoveryTypeOK, Listing!TypeOK
  <2>4. rows' \in [Ids -> 0..2]
    <3>1. ASSUME NEW o \in Ids
          PROVE  (IF o \in found /\ rows[o] < 2 THEN rows[o] + 1 ELSE rows[o]) \in 0..2
      BY <2>3
    <3>2. QED
      BY <2>1, <3>1
  <2>5. page' \in 1..MaxOrderPages /\ listing' \in {"asking", "returned", "failed"}
    BY <2>1, <2>2, <2>3, PagesAssumption DEF Listing!Follow
  <2>6. Complete'
    <3>1. SUFFICES ASSUME listing' = "returned", NEW o \in begun
                   PROVE  rows'[o] > 0
      BY <2>2, <2>3 DEF Complete, Listing!Listed
    <3>2. o \in Ids /\ (o \in found \/ rows[o] > 0)
      BY <2>1, <2>2, <2>3, <3>1 DEF Listing!Follow, Listing!Answers, Listing!Listed
    <3>3. QED
      BY <2>1, <2>3, <3>2
  <2>7. QED
    BY <2>2, <2>4, <2>5, <2>6
<1>3. QED
  BY <1>1, <1>2 DEF Listing!Step

\* What the caller does, and what is done meanwhile.
LEMMA RecoverySteps ==
  ASSUME RecoveryTypeOK, Complete, Judged, [RecoveryNext]_<<vars, recovery>>
  PROVE  RecoveryTypeOK' /\ Complete' /\ Judged'
<1>1. rivals \subseteq Rivals /\ Book \subseteq Ids /\ Ours \in Ids
  BY BookInIds DEF RecoveryTypeOK
<1>2. rivals' \subseteq Rivals => Book' \subseteq Ids
  BY DEF Book, Ids
<1>3. CASE UNCHANGED recovery
  BY <1>1, <1>2, <1>3
     DEF recovery, pages, result, RecoveryTypeOK, Listing!TypeOK, Listing!Listed, Complete, Judged
<1>4. CASE List
  <2>1. /\ listing' = "asking" /\ page' = 1 /\ rows' = [o \in Ids |-> 0] /\ begun' = Book
        /\ verdict' = "none" /\ matches' = {} /\ rivals' = rivals /\ opened' = opened
    BY <1>4 DEF List, Listing!Begin, Listing!Nothing
  <2>2. RecoveryTypeOK'
    BY <1>1, <1>2, <2>1, PagesAssumption DEF RecoveryTypeOK, Listing!TypeOK
  <2>3. QED
    BY <2>1, <2>2 DEF Complete, Judged
<1>5. CASE ReadPages
  <2>1. /\ page' \in 1..MaxOrderPages /\ rows' \in [Ids -> 0..2] /\ begun' = begun
        /\ listing' \in {"asking", "returned", "failed"} /\ Complete'
        /\ verdict' = verdict /\ matches' = matches /\ rivals' = rivals /\ opened' = opened
    BY <1>5, PageFacts DEF ReadPages, result
  <2>2. RecoveryTypeOK'
    BY <1>1, <1>2, <2>1 DEF RecoveryTypeOK, Listing!TypeOK
  <2>3. QED
    BY <2>1, <2>2 DEF Judged
<1>6. CASE Match
  <2> DEFINE found == {o \in Listing!Listed : MatchesFingerprint(RowOf(o))}
  <2>1. found \in SUBSET Ids
    BY DEF Listing!Listed
  <2>2. /\ listing = "returned" /\ matches' = found /\ verdict' = Outcome(found)
        /\ UNCHANGED <<listing, page, rows, begun, rivals, opened>>
    BY <1>6 DEF Match, pages
  <2>3. opened = "near" /\ Ours \in begun => Ours \in found
    BY <2>2, OursMatches DEF Complete
  <2> HIDE DEF found
  <2>4. RecoveryTypeOK' /\ Complete'
    BY <1>1, <1>2, <2>1, <2>2, OutcomeFacts DEF RecoveryTypeOK, Listing!TypeOK, Listing!Listed, Complete
  <2>5. Judged'
    BY <2>1, <2>2, <2>3, OutcomeFacts DEF Judged
  <2>6. QED
    BY <2>4, <2>5
<1>7. CASE RivalArrives
  <2>1. /\ rivals' \subseteq Rivals
        /\ UNCHANGED <<listing, page, rows, begun, verdict, matches, opened>>
    BY <1>1, <1>7 DEF RivalArrives, pages, result
  <2>2. QED
    BY <1>2, <2>1 DEF RecoveryTypeOK, Listing!TypeOK, Listing!Listed, Complete, Judged
<1>8. QED
  BY <1>3, <1>4, <1>5, <1>6, <1>7 DEF RecoveryNext

LEMMA RecoveryInvariance == RecoverySpec => [](RecoveryTypeOK /\ Complete /\ Judged)
<1>1. RecoveryInit => RecoveryTypeOK /\ Complete /\ Judged
  <2> SUFFICES ASSUME RecoveryInit
               PROVE  RecoveryTypeOK /\ Complete /\ Judged
    OBVIOUS
  <2>1. rivals \subseteq Rivals /\ Book \subseteq Ids
    BY BookInIds DEF RecoveryInit
  <2>2. QED
    BY <2>1, PagesAssumption
       DEF RecoveryInit, Listing!Init, Listing!Nothing, RecoveryTypeOK, Listing!TypeOK, Complete, Judged
<1>2. QED
  BY <1>1, RecoverySteps, PTL DEF RecoverySpec

(* The variables of a recovery stay within their types: a listing never      *)
(* leaves its page limit.                                                    *)
THEOREM RecoveryTypeCorrect == RecoverySpec => []RecoveryTypeOK
BY RecoveryInvariance, PTL

(* match_unknown_order says NO_MATCH of an order only if it had not been     *)
(* applied when the listing began, however many pages the listing has and    *)
(* whatever the broker adds to them.                                         *)
THEOREM NoMatchIsNotYet == RecoverySpec => []NoMatchMeansNotYet
<1>1. Judged => NoMatchMeansNotYet
  BY DEF Judged, NoMatchMeansNotYet
<1>2. QED
  BY <1>1, RecoveryInvariance, PTL

(* Of an order that had been applied when the listing began,                 *)
(* match_unknown_order never takes another one for it.                       *)
THEOREM ExactMatchIsItsOwn == RecoverySpec => []ExactMatchIsOurs
<1>1. Judged => ExactMatchIsOurs
  BY DEF Judged, ExactMatchIsOurs
<1>2. QED
  BY <1>1, RecoveryInvariance, PTL
-----------------------------------------------------------------------------
(* The caller that lists and matches does nothing to its orders: every        *)
(* behaviour of a recovery is one of OrderClient, and what is proved of the   *)
(* client holds throughout.                                                  *)
THEOREM RecoveryIsClient == RecoverySpec => Spec
<1>1. RecoveryInit => Init
  BY DEF RecoveryInit
<1>2. [RecoveryNext]_<<vars, recovery>> => [Next]_vars
  <2>1. List \/ ReadPages \/ Match \/ RivalArrives => UNCHANGED vars
    BY DEF List, ReadPages, Match, RivalArrives
  <2>2. QED
    BY <2>1 DEF RecoveryNext
<1>3. QED
  BY <1>1, <1>2, PTL DEF RecoverySpec, Spec

(* Also in the course of a recovery no order write is applied twice and a     *)
(* confirmed order has been applied.                                         *)
COROLLARY RecoveryKeepsClient ==
  RecoverySpec => [](WriteAtMostOnce /\ NoFalseConfirmation)
BY RecoveryIsClient, AtMostOnce, ConfirmedMeansApplied, PTL

(* NO_MATCH becomes final only once nothing of the order is left on the wire: *)
(* from then on the order is in no listing, and never will be.               *)
THEOREM GoneIsNeverListed ==
  RecoverySpec => [](Gone(Lost) => [](Ours \notin Book))
<1>1. Lost \in Calls
  BY LostAssumption
<1>2. TypeOK /\ Gone(Lost) /\ [Next]_vars => Gone(Lost)'
  BY <1>1, GoneStaysGone
<1>3. RecoveryTypeOK /\ Gone(Lost) => Ours \notin Book
  BY RivalsAssumption DEF RecoveryTypeOK, Gone, Unsent, Book
<1>4. QED
  BY <1>2, <1>3, RecoveryIsClient, RecoveryTypeCorrect, TypeCorrect, PTL DEF Spec
-----------------------------------------------------------------------------
(* How long a listing can last.                                              *)
PagesLeft == IF listing = "asking" THEN MaxOrderPages + 1 - page ELSE 0

\* Every page takes one away, and only a new listing adds to them.
PagesRunOut == /\ PagesLeft \in 0..MaxOrderPages
               /\ listing = "asking" => PagesLeft > 0
FewerPages == /\ ReadPages => PagesLeft' < PagesLeft
              /\ PagesLeft' # PagesLeft => List \/ ReadPages

(* A listing returns or raises after at most MaxOrderPages requests, whatever *)
(* page tokens the broker sends and whatever comes into its book meanwhile.   *)
(* What is left to fairness in ListingEnds is that the requests return.      *)
THEOREM ListingsRunOut ==
  RecoverySpec => []PagesRunOut /\ [][FewerPages]_<<vars, recovery>>
<1>1. RecoveryTypeOK => PagesRunOut
  BY PagesAssumption DEF RecoveryTypeOK, Listing!TypeOK, PagesRunOut, PagesLeft
<1>2. RecoveryTypeOK /\ [RecoveryNext]_<<vars, recovery>> => [FewerPages]_<<vars, recovery>>
  <2> SUFFICES ASSUME RecoveryTypeOK, RecoveryNext
               PROVE  FewerPages
    OBVIOUS
  <2>1. page \in 1..MaxOrderPages /\ MaxOrderPages \in Nat
    BY PagesAssumption DEF RecoveryTypeOK, Listing!TypeOK
  <2>2. CASE UNCHANGED <<listing, page>>
    <3>1. PagesLeft' = PagesLeft
      BY <2>2 DEF PagesLeft
    <3>2. ~Listing!Step
      BY <2>1, <2>2
         DEF Listing!Step, Listing!ReadPage, Listing!ReadFails, Listing!Follow
    <3>3. QED
      BY <3>1, <3>2 DEF FewerPages, ReadPages
  <2>3. CASE ReadPages
    <3>1. PagesLeft' < PagesLeft
      <4>1. /\ listing = "asking"
            /\ \/ listing' \in {"returned", "failed"}
               \/ listing' = "asking" /\ page' = page + 1
        BY <2>3 DEF ReadPages, Listing!Step, Listing!ReadPage, Listing!ReadFails, Listing!Follow
      <4>2. QED
        BY <2>1, <4>1 DEF PagesLeft
    <3>2. QED
      BY <2>3, <3>1 DEF FewerPages
  <2>4. CASE List
    <3>1. ~ReadPages
      BY <2>4 DEF List, Listing!Begin, ReadPages, Listing!Step, Listing!ReadPage, Listing!ReadFails
    <3>2. QED
      BY <2>4, <3>1 DEF FewerPages
  <2>5. QED
    BY <2>2, <2>3, <2>4 DEF RecoveryNext, Match, RivalArrives, recovery, pages
<1>3. QED
  BY <1>1, <1>2, RecoveryTypeCorrect, PTL DEF RecoverySpec
=============================================================================
