----------------------- MODULE MCBalanceNotifications -----------------------
(* A small instance of BalanceNotifications for TLC. *)
EXTENDS BalanceNotifications

CONSTANTS shop, stall

\* One seller is also the owner of the project.
Sellers == [c \in Cabinets |-> IF c = stall THEN "owner" ELSE "seller"]
=============================================================================
