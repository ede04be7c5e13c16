-------------------------- MODULE PaymentLifecycle --------------------------
(***************************************************************************)
(* What a seller's payment promises: the seller claims to have paid, then  *)
(* one administrator's verdict settles the payment for good, and an        *)
(* accepted payment is credited in the same step.  SellerPayments          *)
(* implements this specification.                                          *)
(***************************************************************************)
EXTENDS Integers

CONSTANTS Payments, Refills, Amount

VARIABLES
    verdict,    \* where each payment is
    roubles,    \* credited to the cabinet so far
    leads       \* credited to the cabinet so far

lifecycleVars == <<verdict, roubles, leads>>

LifecycleInit ==
    /\ verdict \in [Payments -> {"unclaimed", "claimed"}]
    /\ roubles = 0
    /\ leads = 0

Claim(p) ==
    /\ verdict[p] = "unclaimed"
    /\ verdict' = [verdict EXCEPT ![p] = "claimed"]
    /\ UNCHANGED <<roubles, leads>>

Accept(p) ==
    /\ verdict[p] = "claimed"
    /\ verdict' = [verdict EXCEPT ![p] = "accepted"]
    /\ IF p \in Refills
         THEN roubles' = roubles + Amount[p] /\ UNCHANGED leads
         ELSE leads' = leads + Amount[p] /\ UNCHANGED roubles

Reject(p) ==
    /\ verdict[p] = "claimed"
    /\ verdict' = [verdict EXCEPT ![p] = "rejected"]
    /\ UNCHANGED <<roubles, leads>>

LifecycleNext == \E p \in Payments : Claim(p) \/ Accept(p) \/ Reject(p)

LifecycleSpec == LifecycleInit /\ [][LifecycleNext]_lifecycleVars
=============================================================================
