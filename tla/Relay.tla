-------------------------------- MODULE Relay --------------------------------
(***************************************************************************)
(* Tokens turned into game credits: redemption (internal/services/         *)
(* redemption.go), the token ledger (ledger.go), and the relay dispatcher  *)
(* (internal/relay/dispatcher.go) that pulses a machine's coin switch over *)
(* HTTP, retries with backoff, and refunds when it gives up.               *)
(*                                                                         *)
(* The dispatcher is one goroutine.  It reads the due pulses in one query  *)
(* and then works through that snapshot; every later statement and HTTP    *)
(* call is one action here, and redemptions, merges and the administrator  *)
(* run between any two of them.  The process may stop at any of them, and  *)
(* any statement may fail, which is logged and ends the work on that pulse.*)
(*                                                                         *)
(* Left out: the texts, and the times other than whether a backoff or the  *)
(* gap between two pulses of a machine has passed.                         *)
(***************************************************************************)
EXTENDS Integers, FiniteSetsExt

CONSTANTS
  Pulse,             \* ids of credit_pulses rows, assigned in increasing order
  Machine,           \* machine ids
  User,              \* ids a row of the users table may have
  InitialUsers,      \* those in use at the start
  NoUser, NoPulse,
  MaxAttempts,       \* values an administrator gives relay_max_attempts
  DefaultMaxAttempts,\* what the dispatcher uses when it cannot read it
  Purchases,         \* token counts a deposit may credit
  Adjustments,       \* deltas an administrator may enter
  MaxEntries,        \* bound: purchases and adjustments in a behaviour
  MaxFaults          \* bound: crashes and failed statements in a behaviour

ASSUME RelayAssumption ==
  /\ Pulse \subseteq Nat /\ Machine \subseteq Nat \ {0} /\ User \subseteq Nat
  /\ IsFiniteSet(Pulse) /\ IsFiniteSet(User)   \* rowids have 64 bits
  /\ InitialUsers \subseteq User
  /\ NoUser \notin User /\ NoPulse \notin Pulse
  /\ MaxAttempts \subseteq Nat \ {0} /\ MaxAttempts # {}
  /\ DefaultMaxAttempts \in Nat \ {0}
  /\ Purchases \subseteq Nat \ {0}
  /\ Adjustments \subseteq Int
  /\ MaxEntries \in Nat /\ MaxFaults \in Nat

VARIABLES
  users,        \* ids in the users table
  balance,      \* SUM(delta) of a user's token_ledger rows
  state,        \* credit_pulses.state, "none" while there is no row
  machine,      \* credit_pulses.machine_id
  owner,        \* credit_pulses.user_id, NoUser (NULL) for source 'direct_pay'
  attempts,     \* credit_pulses.attempts
  due,          \* next_attempt_at is NULL or has passed
  refunds,      \* token_ledger rows of kind 'refund' for the pulse
  active,       \* machines.is_active
  bound,        \* machines with an active relay on an active board
  maxAttempts,  \* the setting relay_max_attempts
  alert,        \* there is an open relay_dispatch_failed alert
  pc,           \* what the dispatcher does next
  batch,        \* pulses of its snapshot it has not come to yet
  snapUser,     \* the user ids in the snapshot
  cur,          \* the pulse it works on
  cooling,      \* machines pulsed less than relay_pulse_gap_ms ago (lastSentAt)
  issued,       \* history: SUM(delta) of purchases and adjustments
  entries,      \* history: how many of them there are
  fired,        \* history: times the coin switch was closed for a pulse
  misreported,  \* history: ... of those, the times it was not recorded as sent
  lost,         \* history: pulses whose refund was given up
  reused,       \* history: pulses whose snapshot held a user id that was reused
  faults        \* crashes and failed statements so far

ledger     == <<balance, refunds, issued, entries>>
pulses     == <<state, machine, owner, attempts, due>>
admin      == <<active, bound, maxAttempts>>
dispatcher == <<pc, batch, snapUser, cur, cooling>>
accounts   == <<users, reused>>
trace      == <<fired, misreported, lost>>
vars == <<accounts, ledger, pulses, admin, alert, dispatcher, trace, faults>>

Steps == {"idle", "next", "pulse", "sent", "error", "retry", "fail", "refund",
          "alert"}

TypeOK ==
  /\ users \subseteq User
  /\ balance \in [User -> Int]
  /\ state \in [Pulse -> {"none", "pending", "sent", "failed"}]
  /\ machine \in [Pulse -> Machine \cup {0}]
  /\ owner \in [Pulse -> User \cup {NoUser}]
  /\ attempts \in [Pulse -> Nat]
  /\ due \in [Pulse -> BOOLEAN]
  /\ refunds \in [Pulse -> Nat]
  /\ active \subseteq Machine /\ bound \subseteq Machine
  /\ maxAttempts \in MaxAttempts
  /\ alert \in BOOLEAN
  /\ pc \in Steps
  /\ batch \subseteq Pulse
  /\ snapUser \in [Pulse -> User \cup {NoUser}]
  /\ cur \in Pulse \cup {NoPulse}
  /\ cooling \subseteq Machine
  /\ issued \in Int /\ entries \in Nat
  /\ fired \in [Pulse -> Nat]
  /\ misreported \in [Pulse -> Nat]
  /\ lost \subseteq Pulse /\ reused \subseteq Pulse
  /\ faults \in Nat

Init ==
  /\ users = InitialUsers
  /\ balance = [u \in User |-> 0]
  /\ state = [p \in Pulse |-> "none"]
  /\ machine = [p \in Pulse |-> 0]
  /\ owner = [p \in Pulse |-> NoUser]
  /\ attempts = [p \in Pulse |-> 0]
  /\ due = [p \in Pulse |-> FALSE]
  /\ refunds = [p \in Pulse |-> 0]
  /\ active = Machine /\ bound = Machine
  /\ maxAttempts \in MaxAttempts
  /\ alert = FALSE
  /\ pc = "idle" /\ batch = {} /\ cur = NoPulse
  /\ snapUser = [p \in Pulse |-> NoUser]
  /\ cooling = {}
  /\ issued = 0 /\ entries = 0
  /\ fired = [p \in Pulse |-> 0]
  /\ misreported = [p \in Pulse |-> 0]
  /\ lost = {} /\ reused = {}
  /\ faults = 0

-----------------------------------------------------------------------------
(* Tokens come and go: deposits, redemptions, the administrator.           *)

\* A deposit credits tokens (the Deposits module), and direct pay queues a
\* pulse of its own, one per credit, that belongs to nobody.
Purchase(u) ==
  /\ u \in users
  /\ entries < MaxEntries /\ entries' = entries + 1
  /\ \E n \in Purchases :
       /\ balance' = [balance EXCEPT ![u] = @ + n]
       /\ issued' = issued + n
  /\ UNCHANGED <<accounts, refunds, pulses, admin, alert, dispatcher, trace,
                 faults>>

NextPulseId(p) ==
  /\ state[p] = "none"
  /\ \A q \in Pulse : q < p => state[q] # "none"

Insert(p, m, u) ==
  /\ NextPulseId(p)
  /\ state' = [state EXCEPT ![p] = "pending"]
  /\ machine' = [machine EXCEPT ![p] = m]
  /\ owner' = [owner EXCEPT ![p] = u]
  /\ due' = [due EXCEPT ![p] = TRUE]
  /\ UNCHANGED attempts

QueueDirectPay(m) ==
  /\ \E p \in Pulse : Insert(p, m, NoUser)
  /\ UNCHANGED <<accounts, ledger, admin, alert, dispatcher, trace, faults>>

\* Faulty: the balance is checked and the pulse queued, but nothing is debited.
RedeemWithoutDebit(u, m) ==
  /\ m \in active
  /\ u \in users
  /\ balance[u] >= 1
  /\ \E p \in Pulse : Insert(p, m, u)
  /\ UNCHANGED <<accounts, ledger, admin, alert, dispatcher, trace, faults>>

\* RedemptionService.Redeem, one transaction: the machine is checked, the
\* pulse inserted, the balance summed and debited.  A session may outlive its
\* user (Merge); the foreign key then rejects the pulse.
Redeem(u, m) ==
  /\ m \in active
  /\ u \in users
  /\ balance[u] >= 1
  /\ \E p \in Pulse : Insert(p, m, u)
  /\ balance' = [balance EXCEPT ![u] = @ - 1]
  /\ UNCHANGED <<accounts, refunds, issued, entries, admin, alert, dispatcher,
                 trace, faults>>

\* Any delta, also one that takes the balance below zero.
AdminAdjust(u) ==
  /\ u \in users
  /\ entries < MaxEntries /\ entries' = entries + 1
  /\ \E n \in Adjustments :
       /\ balance' = [balance EXCEPT ![u] = @ + n]
       /\ issued' = issued + n
  /\ UNCHANGED <<accounts, refunds, pulses, admin, alert, dispatcher, trace,
                 faults>>

\* UsersService.Merge: the ledger rows and the pulses move to the other user
\* and the user is deleted; the dispatcher's snapshot is not told.  (A target
\* that does not exist is rejected as soon as a ledger row moves, and a user
\* without ledger rows has no pulses: see Deposits for such merges.)
Merge(from, to) ==
  /\ from # to
  /\ from \in users /\ to \in users
  /\ balance' = [balance EXCEPT ![to] = @ + balance[from], ![from] = 0]
  /\ owner' = [p \in Pulse |-> IF owner[p] = from THEN to ELSE owner[p]]
  /\ users' = users \ {from}
  /\ UNCHANGED <<reused, refunds, issued, entries, state, machine, attempts,
                 due, admin, alert, dispatcher, trace, faults>>

\* A new user gets the id after the highest in use, which may be one that the
\* dispatcher's snapshot still holds.
NextUserId(u) ==
  /\ u \notin users
  /\ \A v \in users : v < u
  /\ \A v \in User : (\A w \in users : w < v) => u <= v

SignUp(u) ==
  /\ NextUserId(u)
  /\ users' = users \cup {u}
  /\ reused' = reused \cup {p \in Pulse : snapUser[p] = u}
  /\ UNCHANGED <<ledger, pulses, admin, alert, dispatcher, trace, faults>>

\* Machines are enabled and disabled, relays bound and unbound, boards enabled
\* and disabled.
SetActive(m) ==
  /\ active' \in {active \cup {m}, active \ {m}}
  /\ UNCHANGED <<accounts, ledger, pulses, bound, maxAttempts, alert,
                 dispatcher, trace, faults>>

Rebind(m) ==
  /\ bound' \in {bound \cup {m}, bound \ {m}}
  /\ UNCHANGED <<accounts, ledger, pulses, active, maxAttempts, alert,
                 dispatcher, trace, faults>>

SetRelayMaxAttempts ==
  /\ maxAttempts' \in MaxAttempts
  /\ UNCHANGED <<accounts, ledger, pulses, active, bound, alert, dispatcher,
                 trace, faults>>

AckAlert ==
  /\ alert' = FALSE
  /\ UNCHANGED <<accounts, ledger, pulses, admin, dispatcher, trace, faults>>

-----------------------------------------------------------------------------
(* Time.                                                                   *)

BackoffElapses(p) ==
  /\ state[p] = "pending"
  /\ due' = [due EXCEPT ![p] = TRUE]
  /\ UNCHANGED <<accounts, ledger, state, machine, owner, attempts, admin,
                 alert, dispatcher, trace, faults>>

GapElapses(m) ==
  /\ cooling' = cooling \ {m}
  /\ UNCHANGED <<accounts, ledger, pulses, admin, alert, pc, batch, snapUser,
                 cur, trace, faults>>

-----------------------------------------------------------------------------
(* The dispatcher.                                                         *)

Fault == faults < MaxFaults /\ faults' = faults + 1

\* processPulse returns: on to the next pulse of the snapshot.
Finish ==
  /\ pc' = IF batch = {} THEN "idle" ELSE "next"
  /\ snapUser' = [snapUser EXCEPT ![cur] = NoUser]
  /\ cur' = NoPulse
  /\ UNCHANGED <<batch, cooling>>

GoTo(step) == pc' = step /\ UNCHANGED <<batch, snapUser, cur, cooling>>

Due == {p \in Pulse : state[p] = "pending" /\ due[p]}

\* fetchPendingPulses.
FetchPending ==
  /\ pc = "idle"
  /\ Due # {}
  /\ batch' = Due
  /\ snapUser' = [p \in Pulse |-> IF p \in Due THEN owner[p] ELSE NoUser]
  /\ pc' = "next"
  /\ UNCHANGED <<accounts, ledger, pulses, admin, alert, cur, cooling, trace,
                 faults>>

\* ORDER BY machine_id, id.
Before(p, q) ==
  \/ machine[p] < machine[q]
  \/ machine[p] = machine[q] /\ p < q

\* The next pulse waits out the gap of its machine; then its relay is looked
\* up.  Not finding one, or failing to look, counts as a failed attempt.
ResolveBinding(p) ==
  /\ pc = "next"
  /\ p \in batch /\ \A q \in batch \ {p} : Before(p, q)
  /\ machine[p] \notin cooling
  /\ cur' = p
  /\ batch' = batch \ {p}
  /\ \/ /\ machine[p] \in bound
        /\ pc' = "pulse"
        /\ UNCHANGED <<cooling, faults>>
     \/ /\ IF machine[p] \in bound THEN Fault ELSE UNCHANGED faults
        /\ pc' = "error"
        /\ cooling' = cooling \cup {machine[p]}
  /\ UNCHANGED <<accounts, ledger, pulses, admin, alert, snapUser, trace>>

\* Faulty: no answer is taken for success.
FirePulseOptimistic ==
  /\ pc = "pulse"
  /\ \/ fired' = [fired EXCEPT ![cur] = @ + 1]
     \/ fired' = fired
  /\ pc' = "sent"
  /\ cooling' = cooling \cup {machine[cur]}
  /\ UNCHANGED <<accounts, ledger, pulses, admin, alert, batch, snapUser, cur,
                 misreported, lost, faults>>

\* The HTTP call: the relay fires and the board says so; it fires and the
\* answer is lost, late or unreadable; or it does not fire.  No later step
\* can tell the last two apart.
FirePulse ==
  /\ pc = "pulse"
  /\ \/ /\ fired' = [fired EXCEPT ![cur] = @ + 1]
        /\ pc' = "sent"
        /\ UNCHANGED misreported
     \/ /\ fired' = [fired EXCEPT ![cur] = @ + 1]
        /\ misreported' = [misreported EXCEPT ![cur] = @ + 1]
        /\ pc' = "error"
     \/ /\ pc' = "error"
        /\ UNCHANGED <<fired, misreported>>
  /\ cooling' = cooling \cup {machine[cur]}
  /\ UNCHANGED <<accounts, ledger, pulses, admin, alert, batch, snapUser, cur,
                 lost, faults>>

\* Faulty: sent_at is written, the state is not.
MarkSentStillPending ==
  /\ pc = "sent"
  /\ Finish
  /\ UNCHANGED <<accounts, ledger, pulses, admin, alert, trace, faults>>

\* Faulty: a mark that fails counts as a failed attempt.
MarkSentOrError ==
  /\ pc = "sent"
  /\ \/ /\ state' = [state EXCEPT ![cur] = "sent"]
        /\ due' = [due EXCEPT ![cur] = TRUE]
        /\ Finish
        /\ UNCHANGED faults
     \/ Fault /\ GoTo("error") /\ UNCHANGED <<state, due>>
  /\ UNCHANGED <<accounts, ledger, machine, owner, attempts, admin, alert,
                 trace>>

MarkSent ==
  /\ pc = "sent"
  /\ state' = [state EXCEPT ![cur] = "sent"]
  /\ due' = [due EXCEPT ![cur] = TRUE]
  /\ Finish
  /\ UNCHANGED <<accounts, ledger, machine, owner, attempts, admin, alert,
                 trace, faults>>

\* Whether this attempt was the last one.
ReadMaxAttempts ==
  /\ pc = "error"
  /\ \E limit \in {maxAttempts, DefaultMaxAttempts} :
       /\ IF limit = maxAttempts THEN UNCHANGED faults ELSE Fault
       /\ GoTo(IF attempts[cur] + 1 >= limit THEN "fail" ELSE "retry")
  /\ UNCHANGED <<accounts, ledger, pulses, admin, alert, trace>>

\* Faulty: the attempt is not counted.
MarkPendingRetryForever ==
  /\ pc = "retry"
  /\ due' = [due EXCEPT ![cur] = FALSE]
  /\ Finish
  /\ UNCHANGED <<accounts, ledger, state, machine, owner, attempts, admin,
                 alert, trace, faults>>

MarkPendingRetry ==
  /\ pc = "retry"
  /\ attempts' = [attempts EXCEPT ![cur] = @ + 1]
  /\ due' = [due EXCEPT ![cur] = FALSE]
  /\ Finish
  /\ UNCHANGED <<accounts, ledger, state, machine, owner, admin, alert, trace,
                 faults>>

\* markFailedAndRefund: three statements, each on its own.
MarkFailed ==
  /\ pc = "fail"
  /\ state' = [state EXCEPT ![cur] = "failed"]
  /\ attempts' = [attempts EXCEPT ![cur] = @ + 1]
  /\ GoTo(IF snapUser[cur] # NoUser THEN "refund" ELSE "alert")
  /\ UNCHANGED <<accounts, ledger, machine, owner, due, admin, alert, trace,
                 faults>>

\* Faulty: no foreign key checks the user in the snapshot.
RefundUnchecked ==
  /\ pc = "refund"
  /\ balance' = [balance EXCEPT ![snapUser[cur]] = @ + 1]
  /\ refunds' = [refunds EXCEPT ![cur] = @ + 1]
  /\ GoTo("alert")
  /\ UNCHANGED <<accounts, issued, entries, pulses, admin, alert, trace,
                 faults>>

\* The refund goes to the user in the snapshot.  If that user was merged away
\* meanwhile the foreign key rejects it, and the function returns before the
\* alert.
Refund ==
  /\ pc = "refund"
  /\ \/ /\ snapUser[cur] \in users
        /\ balance' = [balance EXCEPT ![snapUser[cur]] = @ + 1]
        /\ refunds' = [refunds EXCEPT ![cur] = @ + 1]
        /\ GoTo("alert")
        /\ UNCHANGED lost
     \/ /\ snapUser[cur] \notin users
        /\ lost' = lost \cup {cur}
        /\ Finish
        /\ UNCHANGED <<balance, refunds>>
  /\ UNCHANGED <<accounts, issued, entries, pulses, admin, alert, fired,
                 misreported, faults>>

\* At most one open alert of this kind: the next failure adds none.
InsertAlert ==
  /\ pc = "alert"
  /\ alert' = TRUE
  /\ Finish
  /\ UNCHANGED <<accounts, ledger, pulses, admin, trace, faults>>

-----------------------------------------------------------------------------
(* Failures.                                                               *)

\* What is left undone for good when the dispatcher stops working on cur here.
Undone ==
  /\ misreported' = IF pc = "sent" THEN [misreported EXCEPT ![cur] = @ + 1]
                                   ELSE misreported
  /\ lost' = IF pc = "refund" THEN lost \cup {cur} ELSE lost
  /\ UNCHANGED fired

\* An UPDATE or INSERT fails; the error is logged.
StatementFails ==
  /\ pc \in {"sent", "retry", "fail", "refund", "alert"}
  /\ Fault
  /\ Undone
  /\ Finish
  /\ UNCHANGED <<accounts, ledger, pulses, admin, alert>>

\* The process stops and is started again: the snapshot and lastSentAt are gone.
Crash ==
  /\ pc # "idle"
  /\ Fault
  /\ Undone
  /\ pc' = "idle" /\ batch' = {} /\ cur' = NoPulse /\ cooling' = {}
  /\ snapUser' = [p \in Pulse |-> NoUser]
  /\ UNCHANGED <<accounts, ledger, pulses, admin, alert>>

-----------------------------------------------------------------------------
Dispatch ==
  \/ FetchPending
  \/ \E p \in Pulse : ResolveBinding(p)
  \/ FirePulse \/ MarkSent \/ ReadMaxAttempts \/ MarkPendingRetry
  \/ MarkFailed \/ Refund \/ InsertAlert

Time ==
  \/ \E p \in Pulse : BackoffElapses(p)
  \/ \E m \in Machine : GapElapses(m)

Customer ==
  \E u \in User : Purchase(u) \/ SignUp(u) \/ \E m \in Machine : Redeem(u, m)

Admin ==
  \/ \E u \in User : AdminAdjust(u)
  \/ \E from, to \in User : Merge(from, to)
  \/ \E m \in Machine : SetActive(m) \/ Rebind(m)
  \/ SetRelayMaxAttempts \/ AckAlert

Next ==
  \/ Dispatch \/ StatementFails \/ Crash
  \/ Customer \/ Admin \/ Time
  \/ \E m \in Machine : QueueDirectPay(m)

Spec == Init /\ [][Next]_vars

\* The dispatcher goroutine is scheduled, and time passes.
Fairness ==
  /\ WF_vars(Dispatch)
  /\ \A p \in Pulse : WF_vars(BackoffElapses(p))
  /\ \A m \in Machine : WF_vars(GapElapses(m))
FairSpec == Spec /\ Fairness

-----------------------------------------------------------------------------
(* Properties.                                                             *)

\* A queued credit is spent once: it closes the coin switch or comes back as
\* a refund, and more often only as often as a pulse was delivered without
\* being recorded (its answer lost, or its mark as 'sent' lost).
NoFreePlay ==
  \A p \in Pulse : fired[p] + refunds[p] <= 1 + misreported[p]

\* The sum of f[x] over S.
Total(f, S) == MapThenSumSet(LAMBDA x : f[x], S)

\* The pulses somebody paid a token for.
Redeemed == {p \in Pulse : state[p] # "none" /\ owner[p] # NoUser}

\* No token appears or vanishes: the balances of all users add up to what was
\* bought and adjusted, less one for every redemption that was not refunded.
\* Redeem, Refund and Merge each move tokens in transactions of their own.
TokensConserved ==
  Total(balance, User) = issued - Cardinality(Redeemed) + Total(refunds, Pulse)

\* A customer whose token is gone got a game or the token back: a pulse marked
\* 'sent' was delivered, and a redemption marked 'failed' is refunded once,
\* except those whose refund was given up after the mark.
TokenSettled ==
  \A p \in Pulse :
    /\ state[p] = "sent" => fired[p] > 0
    /\ refunds[p] > 0 => state[p] = "failed" /\ refunds[p] = 1
    /\ state[p] = "failed" /\ owner[p] # NoUser =>
         \/ refunds[p] = 1
         \/ p \in lost
         \/ pc = "refund" /\ cur = p

\* Redemption and the dispatcher as PulseLifecycle describes them.
Lifecycle == INSTANCE PulseLifecycle WITH paid <- Redeemed
LifecycleSpec == Lifecycle!Spec

\* A refund reaches the account that owns the redemption at that moment, also
\* when accounts were merged after the dispatcher read the pulse.  (The
\* exception is an id that was given to a newcomer meanwhile.)
RefundReachesOwner ==
  [][\A p \in Pulse \ reused :
       refunds'[p] > refunds[p] =>
         /\ owner[p] \in User
         /\ balance'[owner[p]] = balance[owner[p]] + 1]_vars

\* No pulse stays pending for ever: one that is queued is sent or failed in the
\* end, whatever boards, statements and crashes do.
PulsesSettle == \A p \in Pulse : []<>(state[p] # "pending")

=============================================================================
