--------------------------- MODULE MCPaymentPath ----------------------------
(***************************************************************************)
(* Instances of PaymentPath for TLC: one user with one address, and one    *)
(* payment to it.                                                          *)
(***************************************************************************)
EXTENDS PaymentPath, TLC

CONSTANTS d1, a1

OnePool == {a1}
OneOwner == a1 :> 1
OneMachineOf == a1 :> NoMachine

PayUser == [d \in Deposit |-> a1]
Ones == [d \in Deposit |-> 1]

=============================================================================
