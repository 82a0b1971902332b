--------------------------- MODULE MCWebSocketHub ---------------------------
(* Instances of WebSocketHub for TLC. *)
EXTENDS WebSocketHub, TLC

CONSTANTS a1, b1, admin, buyer, all

Names == {admin, buyer, all}

\* One tab of the admin and one of the customer.
OneTabEach  == {a1, b1}
OneAdminTab == {a1}
TwoOwners   == (a1 :> admin) @@ (b1 :> buyer)

\* What NotificationsService publishes: order and payment messages to one
\* user, and admin messages to userId "all".
Published == {[user |-> admin, role |-> "USER"], [user |-> buyer, role |-> "USER"],
              [user |-> all, role |-> "ADMIN"]}
=============================================================================
