----------------------------- MODULE MCDeposits -----------------------------
(***************************************************************************)
(* Instances of Deposits for TLC.                                          *)
(***************************************************************************)
EXTENDS Deposits, TLC

CONSTANTS d1, d2, a1, a2, m1

\* A late payment to a retired address of the newest user, and a larger one to
\* a machine's address.
PayUserAndMachine == (d1 :> a1) @@ (d2 :> a2)
Amounts == (d1 :> 2) @@ (d2 :> 5)
Machines == (a1 :> NoMachine) @@ (a2 :> m1)
Owners == (a1 :> 2) @@ (a2 :> NoUser)

=============================================================================
