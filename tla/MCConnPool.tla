----------------------------- MODULE MCConnPool -----------------------------
(* Two chat listings and a master selection against one transaction.       *)
EXTENDS ConnPool

CONSTANTS h1, h2, h3, h4

MCRoute == [h \in Handlers |-> CASE h = h1 -> "chats"
                                 [] h = h2 -> "chats"
                                 [] h = h3 -> "select"
                                 [] h = h4 -> "topup"]

\* One listing alone, beside one other request.
MCSoloRoute == [h \in Handlers |-> IF h = h1 THEN "chats" ELSE "response"]
=============================================================================
