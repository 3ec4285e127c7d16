----------------------------- MODULE MCBilling -----------------------------
EXTENDS Billing
Order == <<"ann", "bob">>
=============================================================================
