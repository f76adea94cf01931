--------------------------- MODULE MCOrderRecovery ---------------------------
(* An order placed beside a read, and a twin of it in the broker's book.*)
EXTENDS OrderRecovery

CONSTANTS c1, c2, o1, o2, a1, a2, ours, twin

R(s, b) == [status |-> s, body |-> b]

\* Replies the client foresees, and some it does not.
HostileReplies == {R(200, "good"), R(200, "incomplete"), R(200, "invalid"),
                   R(200, "broken"), R(401, "error"), R(503, "error")}

MCAccount == [c \in {c1, c2} |-> a1]
MCTarget == [c \in {c1, c2} |-> o1]
MCOwner == [o \in {o1, o2} |-> IF o = o1 THEN a1 ELSE a2]
ReadAndPlace == [c \in {c1, c2} |-> IF c = c1 THEN "read" ELSE "place"]

\* The twin differs from our order only in that its row names no account.
MCRow == [o \in {twin} |-> [account |-> NoAccount, terms |-> "same", opened |-> "near"]]
=============================================================================
