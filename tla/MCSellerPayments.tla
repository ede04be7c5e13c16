--------------------------- MODULE MCSellerPayments --------------------------
(* A small instance of SellerPayments for TLC. *)
EXTENDS SellerPayments

CONSTANTS refill, again, leads, legacy, v1, v2

MCKind == [p \in Payments |-> CASE p \in {refill, again} -> "refill"
                                [] p = leads -> "leads"
                                [] OTHER -> "legacy"]
MCAmount == [p \in Payments |-> IF p = refill THEN 3 ELSE 2]
=============================================================================
