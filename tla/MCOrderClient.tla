---------------------------- MODULE MCOrderClient ----------------------------
(* Instances of OrderClient for TLC. *)
EXTENDS OrderClient, TLC

CONSTANTS c1, c2, o1, o2, a1, a2

R(s, b) == [status |-> s, body |-> b]

\* Every branch of request_json the documents describe, and a refusal whose
\* body breaks off.
MCReplies == {R(200, "good"), R(200, "incomplete"), R(200, "notObject"),
              R(400, "error"), R(401, "error"), R(408, "error"),
              R(429, "error"), R(503, "error"), R(400, "broken")}
MCOtherServerError == {R(200, "good"), R(505, "error")}

\* o1 belongs to a1 and o2 to a2; both calls act for a1.
MCAccount == [c \in {c1, c2} |-> a1]
MCTarget == c1 :> o1 @@ c2 :> o2
MCOwner == o1 :> a1 @@ o2 :> a2

PlaceAndCancel == c1 :> "place" @@ c2 :> "cancel"
ReplaceAndCancel == c1 :> "replace" @@ c2 :> "cancel"
=============================================================================
