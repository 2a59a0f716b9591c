-------------------------- MODULE DepositLifecycle --------------------------
(***************************************************************************)
(* What the deposit pipeline promises about each payment it is told of,    *)
(* with the handlers, the claim, the credit hook and the settings left     *)
(* out.                                                                    *)
(*                                                                         *)
(* A payment output moves none -> seen -> confirmed -> credited, or is     *)
(* orphaned on the way; credited and orphaned are final.  A confirmed      *)
(* deposit is granted (its tokens or game credits are issued) before it is *)
(* marked credited.  Between the two the deposit is owed its mark; losing  *)
(* the mark is an interruption, after which the deposit may be granted     *)
(* again.  So every grant but one is paid for by an interruption, and a    *)
(* deposit that is owed its mark is never orphaned.                        *)
(***************************************************************************)
EXTENDS Naturals

CONSTANT Deposit   \* payment outputs (txid, vout)

VARIABLES
  state,        \* deposits.state, "none" while there is no row
  grants,       \* how many times the deposit's credit was issued
  interrupted   \* how many grants were never followed by their mark

lifecycleVars == <<state, grants, interrupted>>

States == {"none", "seen", "confirmed", "credited", "orphaned"}

\* A grant has been issued and the deposit is not yet marked for it.
Owed(d) == grants[d] > interrupted[d]

Init ==
  /\ state = [d \in Deposit |-> "none"]
  /\ grants = [d \in Deposit |-> 0]
  /\ interrupted = [d \in Deposit |-> 0]

\* The row is inserted, and confirmed at once if the policy allows.
Appear(d) ==
  /\ state[d] = "none"
  /\ \E s \in {"seen", "confirmed"} : state' = [state EXCEPT ![d] = s]
  /\ UNCHANGED <<grants, interrupted>>

Confirm(d) ==
  /\ state[d] = "seen"
  /\ state' = [state EXCEPT ![d] = "confirmed"]
  /\ UNCHANGED <<grants, interrupted>>

Grant(d) ==
  /\ state[d] = "confirmed"
  /\ ~ Owed(d)
  /\ grants' = [grants EXCEPT ![d] = @ + 1]
  /\ UNCHANGED <<state, interrupted>>

\* The mark that should follow a grant is lost.
Interrupt(d) ==
  /\ state[d] = "confirmed"
  /\ Owed(d)
  /\ interrupted' = [interrupted EXCEPT ![d] = @ + 1]
  /\ UNCHANGED <<state, grants>>

\* Marked credited: granted, or too small (or unowned) to be granted at all.
MarkCredited(d) ==
  /\ state[d] = "confirmed"
  /\ state' = [state EXCEPT ![d] = "credited"]
  /\ UNCHANGED <<grants, interrupted>>

Orphan(d) ==
  /\ state[d] \in {"seen", "confirmed"}
  /\ ~ Owed(d)
  /\ state' = [state EXCEPT ![d] = "orphaned"]
  /\ UNCHANGED <<grants, interrupted>>

Next ==
  \E d \in Deposit :
    \/ Appear(d) \/ Confirm(d) \/ Grant(d)
    \/ Interrupt(d) \/ MarkCredited(d) \/ Orphan(d)

Spec == Init /\ [][Next]_lifecycleVars

=============================================================================
