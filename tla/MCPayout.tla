------------------------------ MODULE MCPayout ------------------------------
(* Small instances of Payout for TLC. *)
EXTENDS Payout

CONSTANTS a1, a2, b1, ann, bob, r1, r2, tgbot, api, card, phone, phoneAlias

\* ann has two applications, bob one.
MCClientOf == [a \in Applications |-> IF a = b1 THEN bob ELSE ann]
\* A percentage that leaves a fraction of a rouble to round down.
MCPercent == [a \in Applications |-> IF a = a2 THEN 100 ELSE 50]
\* The first request comes from the bot, the others from the mini-app.
MCProcessOf == [r \in Requests |-> IF r = r1 THEN tgbot ELSE api]
\* "+7 (900) ..." and "7900..." are one number to build_order_number.
MCNormal == [q \in Requisites |-> IF q = phoneAlias THEN phone ELSE q]
=============================================================================
