----------------------------- MODULE OrderPages -----------------------------
(***************************************************************************)
(* TradeStationClient._get_order_pages in client.py, which get_orders and  *)
(* get_historical_orders share: GET requests that follow the page tokens   *)
(* of the broker, while orders come into its book.                         *)
(*                                                                         *)
(* A page token is "new", "repeated" (one of seen_tokens) or "none", which  *)
(* stands for a missing or blank one as well.                              *)
(***************************************************************************)
EXTENDS Integers

CONSTANTS Ids,           \* orders the broker may have in its book
          MaxOrderPages  \* the page safety limit

VARIABLES listing, \* where _get_order_pages stands
          page,    \* _page_number, from 1
          rows,    \* how many rows of `orders` each order has, 2 for more
          begun,   \* what the book held when the listing began
          book     \* what the broker has, which no step here changes

TypeOK ==
  /\ listing \in {"idle", "asking", "returned", "failed"}
  /\ page \in 1..MaxOrderPages
  /\ rows \in [Ids -> 0..2]
  /\ begun \subseteq Ids /\ book \subseteq Ids

Nothing == [o \in Ids |-> 0]

\* The orders that get_orders or get_historical_orders is going to return.
Listed == {o \in Ids : rows[o] > 0}

Init == listing = "idle" /\ page = 1 /\ rows = Nothing /\ begun = {}

Begin ==
  /\ listing # "asking"
  /\ listing' = "asking" /\ page' = 1 /\ rows' = Nothing /\ begun' = book

\* What the broker answers: some orders of its book, and on the page without a
\* token all those that were in it from the beginning and not on a page yet.
\* It may list an order twice, and its tokens may repeat or never end.
Answers(found, token) ==
  /\ token = "repeated" => page > 1
  /\ token = "none" => begun \subseteq Listed \cup found

\* Mutant: a repeated token is taken for the end.
FollowRepeated(token) ==
  \/ token # "new" /\ listing' = "returned" /\ UNCHANGED page
  \/ token = "new" /\ page >= MaxOrderPages /\ listing' = "failed" /\ UNCHANGED page
  \/ token = "new" /\ page < MaxOrderPages /\ page' = page + 1 /\ UNCHANGED listing
\* Mutant: one page more than the limit.
FollowOffByOne(token) ==
  \/ token = "none" /\ listing' = "returned" /\ UNCHANGED page
  \/ token = "repeated" /\ listing' = "failed" /\ UNCHANGED page
  \/ token = "new" /\ page > MaxOrderPages /\ listing' = "failed" /\ UNCHANGED page
  \/ token = "new" /\ page <= MaxOrderPages /\ page' = page + 1 /\ UNCHANGED listing
\* Mutant: no limit (the count starts again).
FollowForEver(token) ==
  \/ token = "none" /\ listing' = "returned" /\ UNCHANGED page
  \/ token = "repeated" /\ listing' = "failed" /\ UNCHANGED page
  \/ token = "new" /\ page' = (page % MaxOrderPages) + 1 /\ UNCHANGED listing
\* The end of the loop's body, and PaginationError.
Follow(token) ==
  \/ token = "none" /\ listing' = "returned" /\ UNCHANGED page
  \/ token = "repeated" /\ listing' = "failed" /\ UNCHANGED page
  \/ token = "new" /\ page >= MaxOrderPages /\ listing' = "failed" /\ UNCHANGED page
  \/ token = "new" /\ page < MaxOrderPages /\ page' = page + 1 /\ UNCHANGED listing

ReadPage ==
  /\ listing = "asking"
  /\ \E found \in SUBSET book, token \in {"none", "repeated", "new"} :
       /\ Answers(found, token)
       /\ rows' = [o \in Ids |-> IF o \in found /\ rows[o] < 2 THEN rows[o] + 1 ELSE rows[o]]
       /\ Follow(token)
  /\ UNCHANGED begun

\* The GET raises, or OrderSnapshot refuses a row.
ReadFails ==
  /\ listing = "asking"
  /\ listing' = "failed"
  /\ UNCHANGED <<page, rows, begun>>

Step == ReadPage \/ ReadFails
Next == Begin \/ Step

-----------------------------------------------------------------------------
\* get_orders and get_historical_orders return or raise, whatever tokens the
\* broker sends.
ListingEnds == listing = "asking" ~> listing # "asking"
=============================================================================
