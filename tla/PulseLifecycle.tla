--------------------------- MODULE PulseLifecycle ---------------------------
(***************************************************************************)
(* What redemption and the relay dispatcher promise about each queued game *)
(* credit, with the snapshot, the statements, the retries, the users and   *)
(* the settings left out.                                                  *)
(*                                                                         *)
(* A pulse moves none -> pending -> sent, or pending -> failed; both ends  *)
(* are final.  While it is pending the coin switch may be closed for it,   *)
(* which the dispatcher knows of (the pulse is open: it is to be marked    *)
(* 'sent' next) or not.  It knows of one at a time and closes no other     *)
(* switch meanwhile, and it never gives a pulse up of which it knows that. *)
(* Knowledge that is lost before the mark makes the pulse be played again. *)
(* A token that was paid for a failed pulse comes back at most once, or is *)
(* forgone for good.                                                       *)
(***************************************************************************)
EXTENDS Naturals

CONSTANT Pulse   \* ids of credit_pulses rows

VARIABLES
  state,        \* credit_pulses.state, "none" while there is no row
  paid,         \* pulses a token was paid for
  fired,        \* how many times the coin switch was closed for a pulse
  misreported,  \* how many of those were never recorded
  refunds,      \* how many times the pulse's token was given back
  lost          \* pulses whose refund was given up

pulseVars == <<state, paid, fired, misreported, refunds, lost>>

Init ==
  /\ state = [p \in Pulse |-> "none"]
  /\ paid = {}
  /\ fired = [p \in Pulse |-> 0]
  /\ misreported = [p \in Pulse |-> 0]
  /\ refunds = [p \in Pulse |-> 0]
  /\ lost = {}

Open(p) == state[p] = "pending" /\ fired[p] > misreported[p]
NoneOpen == \A p \in Pulse : ~ Open(p)

\* A redemption, or a payment straight to the machine.
Queue(p) ==
  /\ state[p] = "none"
  /\ state' = [state EXCEPT ![p] = "pending"]
  /\ paid' \in {paid, paid \cup {p}}
  /\ UNCHANGED <<fired, misreported, refunds, lost>>

Play(p) ==
  /\ state[p] = "pending" /\ NoneOpen
  /\ fired' = [fired EXCEPT ![p] = @ + 1]
  /\ misreported' \in {misreported, [misreported EXCEPT ![p] = @ + 1]}
  /\ UNCHANGED <<state, paid, refunds, lost>>

LoseRecord(p) ==
  /\ Open(p)
  /\ misreported' = [misreported EXCEPT ![p] = @ + 1]
  /\ UNCHANGED <<state, paid, fired, refunds, lost>>

MarkSent(p) ==
  /\ Open(p)
  /\ state' = [state EXCEPT ![p] = "sent"]
  /\ UNCHANGED <<paid, fired, misreported, refunds, lost>>

MarkFailed(p) ==
  /\ state[p] = "pending" /\ NoneOpen
  /\ state' = [state EXCEPT ![p] = "failed"]
  /\ UNCHANGED <<paid, fired, misreported, refunds, lost>>

\* The token of a failed pulse is still owed.
Owed(p) == state[p] = "failed" /\ p \in paid /\ refunds[p] = 0 /\ p \notin lost

Refund(p) ==
  /\ Owed(p)
  /\ refunds' = [refunds EXCEPT ![p] = @ + 1]
  /\ UNCHANGED <<state, paid, fired, misreported, lost>>

Forgo(p) ==
  /\ Owed(p)
  /\ lost' = lost \cup {p}
  /\ UNCHANGED <<state, paid, fired, misreported, refunds>>

Next ==
  \E p \in Pulse :
    \/ Queue(p) \/ Play(p) \/ LoseRecord(p) \/ MarkSent(p)
    \/ MarkFailed(p) \/ Refund(p) \/ Forgo(p)

Spec == Init /\ [][Next]_pulseVars

=============================================================================
