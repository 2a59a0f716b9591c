----------------------------- MODULE RelayProofs -----------------------------
(***************************************************************************)
(* Proofs about redemption and the relay dispatcher, for any pulses, users,*)
(* machines and settings and any number of crashes and failed statements:  *)
(* type correctness, a credit spent once, tokens settled, and refunds that *)
(* reach the owner of the redemption.                                      *)
(***************************************************************************)
EXTENDS Relay, TLAPS, FiniteSetTheorems

-----------------------------------------------------------------------------
(* The inductive invariant.                                                *)

\* The pulse in hand is not in the rest of the snapshot; both are still
\* pending, since only the dispatcher decides pulses, until this one is marked.
\* Every row names a machine.
DispatcherOK ==
  /\ pc \in {"idle", "next"} => cur = NoPulse
  /\ pc \notin {"idle", "next"} => cur \in Pulse \ batch
  /\ \A p \in batch : state[p] = "pending"
  /\ \A p \in Pulse : state[p] = "none" \/ machine[p] \in Machine
  /\ pc \in {"pulse", "sent", "error", "retry", "fail"} =>
       state[cur] = "pending"
  /\ pc \in {"refund", "alert"} => state[cur] = "failed"
  /\ pc = "refund" => snapUser[cur] # NoUser /\ refunds[cur] = 0

\* The snapshot names a user exactly for the redemptions it holds.
SnapshotOK ==
  \A p \in Pulse :
    IF p \in batch \/ p = cur
    THEN snapUser[p] = NoUser <=> owner[p] = NoUser
    ELSE snapUser[p] = NoUser

\* A pulse that is delivered and not yet marked.
Delivered(p) == pc = "sent" /\ cur = p

\* How often a pulse was delivered and refunded, by its state.
OutcomeOK ==
  \A p \in Pulse :
    /\ Delivered(p) => 0 < fired[p] /\ fired[p] <= 1 + misreported[p]
    /\ state[p] \in {"none", "pending"} => refunds[p] = 0
    /\ state[p] # "sent" /\ ~ Delivered(p) => fired[p] <= misreported[p]
    /\ state[p] = "sent" =>
         0 < fired[p] /\ fired[p] <= 1 + misreported[p] /\ refunds[p] = 0
    /\ state[p] = "failed" =>
         /\ refunds[p] <= 1
         /\ owner[p] # NoUser => \/ refunds[p] = 1
                                 \/ p \in lost
                                 \/ pc = "refund" /\ cur = p

RelayInv == TypeOK /\ DispatcherOK /\ SnapshotOK /\ OutcomeOK

-----------------------------------------------------------------------------
(* Each action preserves the invariant.                                    *)

\* A new row is not in the snapshot, which holds only rows that exist.
LEMMA InsertInv ==
  ASSUME RelayInv, NEW p \in Pulse, NEW m \in Machine,
         NEW u \in User \cup {NoUser},
         Insert(p, m, u), UNCHANGED <<refunds, dispatcher, trace>>
  PROVE  /\ pulses' \in [Pulse -> {"none", "pending", "sent", "failed"}]
                       \X [Pulse -> Machine \cup {0}]
                       \X [Pulse -> User \cup {NoUser}]
                       \X [Pulse -> Nat] \X [Pulse -> BOOLEAN]
         /\ DispatcherOK' /\ SnapshotOK' /\ OutcomeOK'
<1> USE DEF RelayInv
<1>1. p \notin batch /\ p # cur /\ state[p] = "none"
  BY RelayAssumption DEF TypeOK, DispatcherOK, Insert, NextPulseId, Steps
<1>2. /\ state' = [state EXCEPT ![p] = "pending"]
      /\ owner' = [owner EXCEPT ![p] = u]
      /\ machine' = [machine EXCEPT ![p] = m]
  BY DEF Insert
<1>3. pulses' \in [Pulse -> {"none", "pending", "sent", "failed"}]
                  \X [Pulse -> Machine \cup {0}]
                  \X [Pulse -> User \cup {NoUser}]
                  \X [Pulse -> Nat] \X [Pulse -> BOOLEAN]
  BY DEF TypeOK, Insert, pulses
<1>4. DispatcherOK'
  BY <1>1, <1>2 DEF TypeOK, DispatcherOK, dispatcher
<1>5. SnapshotOK'
  BY <1>1, <1>2 DEF TypeOK, SnapshotOK, dispatcher
<1>6. OutcomeOK'
  BY <1>1, <1>2 DEF TypeOK, OutcomeOK, Delivered, dispatcher, trace
<1> QED BY <1>3, <1>4, <1>5, <1>6

\* A purchase touches only the ledger.
LEMMA PurchaseInv ==
  ASSUME RelayInv, NEW u \in User, Purchase(u)
  PROVE  RelayInv'
<1> USE DEF RelayInv
<1>1. TypeOK'
  BY RelayAssumption DEF TypeOK, Purchase, accounts, pulses, admin,
     dispatcher, trace
<1>2. DispatcherOK'
  BY DEF DispatcherOK, Purchase, pulses, dispatcher
<1>3. SnapshotOK'
  BY DEF SnapshotOK, Purchase, pulses, dispatcher
<1>4. OutcomeOK'
  BY DEF OutcomeOK, Delivered, Purchase, pulses, dispatcher, trace
<1> QED BY <1>1, <1>2, <1>3, <1>4

\* A pulse for direct pay is a new row that belongs to nobody.
LEMMA QueueDirectPayInv ==
  ASSUME RelayInv, NEW m \in Machine, QueueDirectPay(m)
  PROVE  RelayInv'
<1>1. PICK p \in Pulse : Insert(p, m, NoUser)
  BY DEF QueueDirectPay
<1>2. UNCHANGED <<refunds, dispatcher, trace>>
  BY DEF QueueDirectPay, ledger
<1>3. TypeOK'
  BY <1>1, <1>2, InsertInv
     DEF RelayInv, TypeOK, QueueDirectPay, accounts, ledger, pulses, admin,
         dispatcher, trace
<1> QED BY <1>1, <1>2, <1>3, InsertInv DEF RelayInv

\* A redemption is a new row of its user.
LEMMA RedeemInv ==
  ASSUME RelayInv, NEW u \in User, NEW m \in Machine, Redeem(u, m)
  PROVE  RelayInv'
<1>1. PICK p \in Pulse : Insert(p, m, u)
  BY DEF Redeem
<1>2. UNCHANGED <<refunds, dispatcher, trace>>
  BY DEF Redeem
<1>3. TypeOK'
  BY <1>1, <1>2, InsertInv
     DEF RelayInv, TypeOK, Redeem, accounts, pulses, admin, dispatcher, trace
<1> QED BY <1>1, <1>2, <1>3, InsertInv DEF RelayInv

\* An adjustment touches only the ledger.
LEMMA AdminAdjustInv ==
  ASSUME RelayInv, NEW u \in User, AdminAdjust(u)
  PROVE  RelayInv'
<1> USE DEF RelayInv
<1>1. TypeOK'
  BY RelayAssumption DEF TypeOK, AdminAdjust, accounts, pulses, admin,
     dispatcher, trace
<1>2. DispatcherOK'
  BY DEF DispatcherOK, AdminAdjust, pulses, dispatcher
<1>3. SnapshotOK'
  BY DEF SnapshotOK, AdminAdjust, pulses, dispatcher
<1>4. OutcomeOK'
  BY DEF OutcomeOK, Delivered, AdminAdjust, pulses, dispatcher, trace
<1> QED BY <1>1, <1>2, <1>3, <1>4

\* A merge changes owners and neither states nor the snapshot, and a pulse has
\* an owner after it exactly if it had one before.
LEMMA MergeInv ==
  ASSUME RelayInv, NEW from \in User, NEW to \in User, Merge(from, to)
  PROVE  RelayInv'
<1> USE DEF RelayInv
<1>1. TypeOK'
  BY DEF TypeOK, Merge, admin, dispatcher, trace
<1>2. DispatcherOK'
  BY DEF DispatcherOK, Merge, dispatcher
<1>3. SnapshotOK'
  BY RelayAssumption DEF SnapshotOK, Merge, dispatcher
<1>4. OutcomeOK'
  BY RelayAssumption DEF OutcomeOK, Delivered, Merge, dispatcher, trace
<1> QED BY <1>1, <1>2, <1>3, <1>4

\* A new user changes no pulse.
LEMMA SignUpInv ==
  ASSUME RelayInv, NEW u \in User, SignUp(u)
  PROVE  RelayInv'
<1> USE DEF RelayInv
<1>1. TypeOK'
  BY DEF TypeOK, SignUp, ledger, pulses, admin, dispatcher, trace
<1>2. DispatcherOK'
  BY DEF DispatcherOK, SignUp, ledger, pulses, dispatcher
<1>3. SnapshotOK'
  BY DEF SnapshotOK, SignUp, pulses, dispatcher
<1>4. OutcomeOK'
  BY DEF OutcomeOK, Delivered, SignUp, ledger, pulses, dispatcher, trace
<1> QED BY <1>1, <1>2, <1>3, <1>4

\* The administrator's other actions change nothing the invariant is about.
LEMMA SetActiveInv ==
  ASSUME RelayInv, NEW m \in Machine, SetActive(m)
  PROVE  RelayInv'
<1> USE DEF RelayInv
<1>1. TypeOK'
  BY DEF TypeOK, SetActive, accounts, ledger, pulses, dispatcher, trace
<1>2. DispatcherOK'
  BY DEF DispatcherOK, SetActive, ledger, pulses, dispatcher
<1>3. SnapshotOK'
  BY DEF SnapshotOK, SetActive, pulses, dispatcher
<1>4. OutcomeOK'
  BY DEF OutcomeOK, Delivered, SetActive, ledger, pulses, dispatcher, trace
<1> QED BY <1>1, <1>2, <1>3, <1>4

\* Binding a machine to a relay decides no pulse.
LEMMA RebindInv ==
  ASSUME RelayInv, NEW m \in Machine, Rebind(m)
  PROVE  RelayInv'
<1> USE DEF RelayInv
<1>1. TypeOK'
  BY DEF TypeOK, Rebind, accounts, ledger, pulses, dispatcher, trace
<1>2. DispatcherOK'
  BY DEF DispatcherOK, Rebind, ledger, pulses, dispatcher
<1>3. SnapshotOK'
  BY DEF SnapshotOK, Rebind, pulses, dispatcher
<1>4. OutcomeOK'
  BY DEF OutcomeOK, Delivered, Rebind, ledger, pulses, dispatcher, trace
<1> QED BY <1>1, <1>2, <1>3, <1>4

\* Nor does the number of attempts.
LEMMA SetRelayMaxAttemptsInv ==
  ASSUME RelayInv, SetRelayMaxAttempts
  PROVE  RelayInv'
<1> USE DEF RelayInv
<1>1. TypeOK'
  BY DEF TypeOK, SetRelayMaxAttempts, accounts, ledger, pulses, dispatcher,
     trace
<1>2. DispatcherOK'
  BY DEF DispatcherOK, SetRelayMaxAttempts, ledger, pulses, dispatcher
<1>3. SnapshotOK'
  BY DEF SnapshotOK, SetRelayMaxAttempts, pulses, dispatcher
<1>4. OutcomeOK'
  BY DEF OutcomeOK, Delivered, SetRelayMaxAttempts, ledger, pulses,
     dispatcher, trace
<1> QED BY <1>1, <1>2, <1>3, <1>4

\* Nor does an acknowledged alert.
LEMMA AckAlertInv ==
  ASSUME RelayInv, AckAlert
  PROVE  RelayInv'
<1> USE DEF RelayInv
<1>1. TypeOK'
  BY DEF TypeOK, AckAlert, accounts, ledger, pulses, admin, dispatcher, trace
<1>2. DispatcherOK'
  BY DEF DispatcherOK, AckAlert, ledger, pulses, dispatcher
<1>3. SnapshotOK'
  BY DEF SnapshotOK, AckAlert, pulses, dispatcher
<1>4. OutcomeOK'
  BY DEF OutcomeOK, Delivered, AckAlert, ledger, pulses, dispatcher, trace
<1> QED BY <1>1, <1>2, <1>3, <1>4

\* Time only makes pulses due and machines ready.
LEMMA BackoffElapsesInv ==
  ASSUME RelayInv, NEW q \in Pulse, BackoffElapses(q)
  PROVE  RelayInv'
<1> USE DEF RelayInv
<1>1. TypeOK'
  BY DEF TypeOK, BackoffElapses, accounts, ledger, admin, dispatcher, trace
<1>2. DispatcherOK'
  BY DEF DispatcherOK, BackoffElapses, ledger, dispatcher
<1>3. SnapshotOK'
  BY DEF SnapshotOK, BackoffElapses, dispatcher
<1>4. OutcomeOK'
  BY DEF OutcomeOK, Delivered, BackoffElapses, ledger, dispatcher, trace
<1> QED BY <1>1, <1>2, <1>3, <1>4

\* Nor does time that passes between two pulses.
LEMMA GapElapsesInv ==
  ASSUME RelayInv, NEW m \in Machine, GapElapses(m)
  PROVE  RelayInv'
<1> USE DEF RelayInv
<1>1. TypeOK'
  BY DEF TypeOK, GapElapses, accounts, ledger, pulses, admin, trace
<1>2. DispatcherOK'
  BY DEF DispatcherOK, GapElapses, ledger, pulses
<1>3. SnapshotOK'
  BY DEF SnapshotOK, GapElapses, pulses
<1>4. OutcomeOK'
  BY DEF OutcomeOK, Delivered, GapElapses, ledger, pulses, trace
<1> QED BY <1>1, <1>2, <1>3, <1>4

\* The snapshot starts with pending pulses and their owners.
LEMMA FetchPendingInv ==
  ASSUME RelayInv, FetchPending
  PROVE  RelayInv'
<1> USE DEF RelayInv
<1>1. TypeOK'
  BY DEF TypeOK, FetchPending, Due, accounts, ledger, pulses, admin, trace,
     Steps
<1>2. DispatcherOK'
  BY DEF DispatcherOK, FetchPending, Due, pulses
<1>3. SnapshotOK'
  BY RelayAssumption DEF DispatcherOK, SnapshotOK, FetchPending, pulses
<1>4. OutcomeOK'
  BY DEF OutcomeOK, Delivered, FetchPending, ledger, pulses, trace
<1> QED BY <1>1, <1>2, <1>3, <1>4

\* The pulse in hand is taken out of the rest of the snapshot.
LEMMA ResolveBindingInv ==
  ASSUME RelayInv, NEW q \in Pulse, ResolveBinding(q)
  PROVE  RelayInv'
<1> USE DEF RelayInv
<1>1. TypeOK'
  <2>1. faults' \in Nat
    BY DEF TypeOK, ResolveBinding, Fault
  <2>2. /\ cur' \in Pulse /\ batch' \subseteq Pulse
        /\ pc' \in Steps /\ cooling' \subseteq Machine
    <3>1. machine[q] \in Machine
      BY DEF DispatcherOK, ResolveBinding
    <3> QED BY <3>1 DEF TypeOK, ResolveBinding, Steps
  <2> QED BY <2>1, <2>2 DEF TypeOK, ResolveBinding, accounts, ledger, pulses,
                            admin, trace
<1>2. DispatcherOK'
  BY DEF DispatcherOK, ResolveBinding, pulses
<1>3. SnapshotOK'
  BY RelayAssumption DEF DispatcherOK, SnapshotOK, ResolveBinding, pulses
<1>4. OutcomeOK'
  BY DEF OutcomeOK, Delivered, ResolveBinding, ledger, pulses, trace
<1> QED BY <1>1, <1>2, <1>3, <1>4

\* A delivery is counted as misreported or leads to the mark as 'sent'.
LEMMA FirePulseInv ==
  ASSUME RelayInv, FirePulse
  PROVE  RelayInv'
<1> USE DEF RelayInv
<1>1. TypeOK'
  <2>1. /\ fired' \in [Pulse -> Nat] /\ misreported' \in [Pulse -> Nat]
        /\ pc' \in Steps
    BY DEF TypeOK, FirePulse, Steps
  <2>2. cur \in Pulse /\ machine[cur] \in Machine
    BY DEF DispatcherOK, FirePulse
  <2>3. cooling' \subseteq Machine
    BY <2>2 DEF TypeOK, FirePulse
  <2> QED BY <2>1, <2>3 DEF TypeOK, FirePulse, accounts, ledger, pulses, admin
<1>2. DispatcherOK'
  BY DEF DispatcherOK, FirePulse, pulses
<1>3. SnapshotOK'
  BY DEF SnapshotOK, FirePulse, pulses
<1>4. OutcomeOK'
  BY DEF TypeOK, DispatcherOK, OutcomeOK, Delivered, FirePulse, ledger, pulses
<1> QED BY <1>1, <1>2, <1>3, <1>4

\* The mark as 'sent' is reached after a delivery only.
LEMMA MarkSentInv ==
  ASSUME RelayInv, MarkSent
  PROVE  RelayInv'
<1> USE DEF RelayInv
<1>1. TypeOK'
  BY DEF TypeOK, MarkSent, Finish, accounts, ledger, admin, trace, Steps
<1>2. DispatcherOK'
  BY DEF DispatcherOK, MarkSent, Finish
<1>3. SnapshotOK'
  BY RelayAssumption DEF TypeOK, DispatcherOK, SnapshotOK, MarkSent, Finish
<1>4. OutcomeOK'
  BY DEF TypeOK, DispatcherOK, OutcomeOK, Delivered, MarkSent, Finish, ledger,
     trace
<1> QED BY <1>1, <1>2, <1>3, <1>4

\* Choosing between a retry and giving up changes no pulse.
LEMMA ReadMaxAttemptsInv ==
  ASSUME RelayInv, ReadMaxAttempts
  PROVE  RelayInv'
<1> USE DEF RelayInv
<1>1. TypeOK'
  BY DEF TypeOK, ReadMaxAttempts, GoTo, Fault, accounts, ledger, pulses,
     admin, trace, Steps
<1>2. DispatcherOK'
  BY DEF DispatcherOK, ReadMaxAttempts, GoTo, pulses
<1>3. SnapshotOK'
  BY DEF SnapshotOK, ReadMaxAttempts, GoTo, pulses
<1>4. OutcomeOK'
  BY DEF OutcomeOK, Delivered, ReadMaxAttempts, GoTo, ledger, pulses, trace
<1> QED BY <1>1, <1>2, <1>3, <1>4

\* A retry leaves the pulse pending.
LEMMA MarkPendingRetryInv ==
  ASSUME RelayInv, MarkPendingRetry
  PROVE  RelayInv'
<1> USE DEF RelayInv
<1>1. TypeOK'
  BY DEF TypeOK, DispatcherOK, MarkPendingRetry, Finish, accounts, ledger,
     admin, trace, Steps
<1>2. DispatcherOK'
  BY DEF DispatcherOK, MarkPendingRetry, Finish
<1>3. SnapshotOK'
  BY RelayAssumption DEF TypeOK, DispatcherOK, SnapshotOK, MarkPendingRetry,
     Finish
<1>4. OutcomeOK'
  BY DEF OutcomeOK, Delivered, MarkPendingRetry, Finish, ledger, trace
<1> QED BY <1>1, <1>2, <1>3, <1>4

\* A failed pulse of a user is refunded next.
LEMMA MarkFailedInv ==
  ASSUME RelayInv, MarkFailed
  PROVE  RelayInv'
<1> USE DEF RelayInv
<1>1. TypeOK'
  BY DEF TypeOK, DispatcherOK, MarkFailed, GoTo, accounts, ledger, admin,
     trace, Steps
<1>2. DispatcherOK'
  BY DEF TypeOK, DispatcherOK, OutcomeOK, MarkFailed, GoTo, ledger
<1>3. SnapshotOK'
  BY DEF SnapshotOK, MarkFailed, GoTo
<1>4. OutcomeOK'
  BY DEF DispatcherOK, SnapshotOK, OutcomeOK, Delivered, MarkFailed, GoTo,
     ledger, trace
<1> QED BY <1>1, <1>2, <1>3, <1>4

\* It is refunded once, or its refund is given up.
LEMMA RefundInv ==
  ASSUME RelayInv, Refund
  PROVE  RelayInv'
<1> USE DEF RelayInv
<1>1. TypeOK'
  <2>1. /\ balance' \in [User -> Int] /\ refunds' \in [Pulse -> Nat]
        /\ lost' \subseteq Pulse
    BY DEF TypeOK, DispatcherOK, Refund
  <2>2. pc' \in Steps /\ cur' \in Pulse \cup {NoPulse}
    BY DEF TypeOK, Refund, Finish, GoTo, Steps
  <2>3. /\ snapUser' \in [Pulse -> User \cup {NoUser}]
        /\ UNCHANGED <<batch, cooling>>
    BY DEF TypeOK, Refund, Finish, GoTo
  <2> QED BY <2>1, <2>2, <2>3 DEF TypeOK, Refund, accounts, pulses, admin
<1>2. DispatcherOK'
  <2>1. pc = "refund" /\ UNCHANGED <<state, machine, batch>>
    BY DEF Refund, Finish, GoTo, pulses
  <2>2. \/ pc' = "alert" /\ cur' = cur
        \/ pc' \in {"idle", "next"} /\ cur' = NoPulse
    BY DEF Refund, Finish, GoTo
  <2>3. /\ cur \in Pulse \ batch /\ state[cur] = "failed"
        /\ \A p \in batch : state[p] = "pending"
        /\ \A p \in Pulse : state[p] = "none" \/ machine[p] \in Machine
    BY <2>1 DEF DispatcherOK
  <2> QED BY <2>1, <2>2, <2>3 DEF DispatcherOK
<1>3. SnapshotOK'
  BY RelayAssumption DEF TypeOK, DispatcherOK, SnapshotOK, Refund, Finish,
     GoTo, pulses
<1>4. OutcomeOK'
  BY DEF TypeOK, DispatcherOK, OutcomeOK, Delivered, Refund, Finish, GoTo,
     pulses
<1> QED BY <1>1, <1>2, <1>3, <1>4

\* The alert changes no pulse.
LEMMA InsertAlertInv ==
  ASSUME RelayInv, InsertAlert
  PROVE  RelayInv'
<1> USE DEF RelayInv
<1>1. TypeOK'
  BY DEF TypeOK, InsertAlert, Finish, accounts, ledger, pulses, admin, trace,
     Steps
<1>2. DispatcherOK'
  BY DEF DispatcherOK, InsertAlert, Finish, pulses
<1>3. SnapshotOK'
  BY RelayAssumption DEF TypeOK, DispatcherOK, SnapshotOK, InsertAlert,
     Finish, pulses
<1>4. OutcomeOK'
  BY DEF OutcomeOK, Delivered, InsertAlert, Finish, ledger, pulses, trace
<1> QED BY <1>1, <1>2, <1>3, <1>4

\* A failed statement leaves a delivery unrecorded or a refund unmade.
LEMMA StatementFailsInv ==
  ASSUME RelayInv, StatementFails
  PROVE  RelayInv'
<1> USE DEF RelayInv
<1>1. TypeOK'
  BY DEF TypeOK, DispatcherOK, StatementFails, Finish, Fault, Undone,
     accounts, ledger, pulses, admin, Steps
<1>2. DispatcherOK'
  BY DEF DispatcherOK, StatementFails, Finish, pulses
<1>3. SnapshotOK'
  BY RelayAssumption DEF TypeOK, DispatcherOK, SnapshotOK, StatementFails,
     Finish, pulses
<1>4. OutcomeOK'
  BY DEF TypeOK, OutcomeOK, Delivered, StatementFails, Finish, Undone, ledger,
     pulses
<1> QED BY <1>1, <1>2, <1>3, <1>4

\* So does a crash, which also forgets the snapshot.
LEMMA CrashInv ==
  ASSUME RelayInv, Crash
  PROVE  RelayInv'
<1> USE DEF RelayInv
<1>1. TypeOK'
  BY DEF TypeOK, DispatcherOK, Crash, Fault, Undone, accounts, ledger, pulses,
     admin, Steps
<1>2. DispatcherOK'
  BY DEF DispatcherOK, Crash, pulses
<1>3. SnapshotOK'
  BY RelayAssumption DEF SnapshotOK, Crash
<1>4. OutcomeOK'
  BY DEF TypeOK, OutcomeOK, Delivered, Crash, Undone, ledger, pulses
<1> QED BY <1>1, <1>2, <1>3, <1>4

-----------------------------------------------------------------------------
(* The invariant holds always.                                             *)

\* It holds at the start,
LEMMA InitInv == Init => RelayInv
<1> SUFFICES ASSUME Init PROVE RelayInv
  OBVIOUS
<1>1. TypeOK
  <2>1. /\ users \subseteq User
        /\ active \subseteq Machine /\ bound \subseteq Machine
    BY RelayAssumption DEF Init
  <2>2. /\ balance \in [User -> Int] /\ issued \in Int /\ entries \in Nat
        /\ attempts \in [Pulse -> Nat] /\ refunds \in [Pulse -> Nat]
        /\ fired \in [Pulse -> Nat] /\ misreported \in [Pulse -> Nat]
        /\ faults \in Nat
    BY DEF Init
  <2>3. /\ state \in [Pulse -> {"none", "pending", "sent", "failed"}]
        /\ machine \in [Pulse -> Machine \cup {0}]
        /\ owner \in [Pulse -> User \cup {NoUser}]
        /\ due \in [Pulse -> BOOLEAN] /\ alert \in BOOLEAN
        /\ snapUser \in [Pulse -> User \cup {NoUser}]
    BY DEF Init
  <2>4. pc \in Steps
    <3>1. pc = "idle"
      BY DEF Init
    <3> QED BY <3>1 DEF Steps
  <2>5. /\ batch \subseteq Pulse
        /\ cur \in Pulse \cup {NoPulse} /\ cooling \subseteq Machine
        /\ lost \subseteq Pulse /\ reused \subseteq Pulse
        /\ maxAttempts \in MaxAttempts
    BY DEF Init
  <2> QED BY <2>1, <2>2, <2>3, <2>4, <2>5 DEF TypeOK
<1>2. DispatcherOK /\ SnapshotOK
  BY DEF Init, DispatcherOK, SnapshotOK
<1>3. OutcomeOK
  <2>1. /\ pc = "idle"
        /\ \A p \in Pulse : state[p] = "none"
        /\ \A p \in Pulse : refunds[p] = 0
        /\ \A p \in Pulse : fired[p] <= misreported[p]
    BY DEF Init
  <2> QED BY <2>1 DEF OutcomeOK, Delivered
<1> QED BY <1>1, <1>2, <1>3 DEF RelayInv

\* and every step keeps it.
LEMMA NextInv == RelayInv /\ [Next]_vars => RelayInv'
<1> SUFFICES ASSUME RelayInv, [Next]_vars PROVE RelayInv'
  OBVIOUS
<1>1. CASE Dispatch
  BY <1>1, FetchPendingInv, ResolveBindingInv, FirePulseInv, MarkSentInv,
     ReadMaxAttemptsInv, MarkPendingRetryInv, MarkFailedInv, RefundInv,
     InsertAlertInv DEF Dispatch
<1>2. CASE StatementFails \/ Crash
  BY <1>2, StatementFailsInv, CrashInv
<1>3. CASE Customer
  BY <1>3, PurchaseInv, SignUpInv, RedeemInv DEF Customer
<1>4. CASE Admin
  BY <1>4, AdminAdjustInv, MergeInv, SetActiveInv, RebindInv,
     SetRelayMaxAttemptsInv, AckAlertInv DEF Admin
<1>5. CASE Time
  BY <1>5, BackoffElapsesInv, GapElapsesInv DEF Time
<1>6. CASE \E m \in Machine : QueueDirectPay(m)
  BY <1>6, QueueDirectPayInv
<1>7. CASE UNCHANGED vars
  <2>1. TypeOK'
    BY <1>7 DEF RelayInv, TypeOK, vars, accounts, ledger, pulses, admin,
                dispatcher, trace
  <2>2. DispatcherOK' /\ SnapshotOK' /\ OutcomeOK'
    BY <1>7 DEF RelayInv, DispatcherOK, SnapshotOK, OutcomeOK, Delivered, vars,
                ledger, pulses, dispatcher, trace
  <2> QED BY <2>1, <2>2 DEF RelayInv
<1> QED BY <1>1, <1>2, <1>3, <1>4, <1>5, <1>6, <1>7 DEF Next

\* Every reachable state satisfies the inductive invariant: the dispatcher's
\* snapshot agrees with the table, and deliveries and refunds with the states.
THEOREM RelayInvariant == Spec => []RelayInv
  BY InitInv, NextInv, PTL DEF Spec

\* The variables keep their types for any pulses, users and settings and any
\* number of failures.
THEOREM TypeCorrectness == Spec => []TypeOK
<1>1. RelayInv => TypeOK
  BY DEF RelayInv
<1> QED BY <1>1, RelayInvariant, PTL

\* A queued credit is delivered or refunded once, and once more at most for
\* every delivery the dispatcher did not get recorded.
THEOREM NoFreePlayHolds == Spec => []NoFreePlay
<1>1. RelayInv => NoFreePlay
  <2> SUFFICES ASSUME RelayInv, NEW p \in Pulse
               PROVE  fired[p] + refunds[p] <= 1 + misreported[p]
    BY DEF NoFreePlay
  <2>1. /\ fired[p] \in Nat /\ refunds[p] \in Nat /\ misreported[p] \in Nat
        /\ state[p] \in {"none", "pending", "sent", "failed"}
    BY DEF RelayInv, TypeOK
  <2>2. Delivered(p) => state[p] = "pending"
    BY DEF RelayInv, DispatcherOK, Delivered
  <2> QED BY <2>1, <2>2 DEF RelayInv, OutcomeOK
<1> QED BY <1>1, RelayInvariant, PTL

\* A pulse marked 'sent' was delivered and a redemption marked 'failed' is
\* refunded once, unless its refund was given up.
THEOREM TokenSettledHolds == Spec => []TokenSettled
<1>1. RelayInv => TokenSettled
  <2> SUFFICES ASSUME RelayInv, NEW p \in Pulse
               PROVE  /\ state[p] = "sent" => fired[p] > 0
                      /\ refunds[p] > 0 => state[p] = "failed" /\ refunds[p] = 1
                      /\ state[p] = "failed" /\ owner[p] # NoUser =>
                           \/ refunds[p] = 1
                           \/ p \in lost
                           \/ pc = "refund" /\ cur = p
    BY DEF TokenSettled
  <2>1. /\ fired[p] \in Nat /\ refunds[p] \in Nat
        /\ state[p] \in {"none", "pending", "sent", "failed"}
    BY DEF RelayInv, TypeOK
  <2> QED BY <2>1 DEF RelayInv, OutcomeOK
<1> QED BY <1>1, RelayInvariant, PTL

-----------------------------------------------------------------------------
(* Refunds reach the owner.                                                *)

\* A user in the snapshot who still exists still owns the pulse: only Merge
\* moves pulses, and it deletes the user they are moved from.
SnapshotOwns ==
  \A p \in Pulse \ reused : snapUser[p] \in users => owner[p] = snapUser[p]

\* Nothing is in the snapshot at the start.
LEMMA InitOwns == Init => SnapshotOwns
  BY RelayAssumption DEF Init, SnapshotOwns

\* A new row is not in the snapshot yet.
LEMMA InsertOwns ==
  ASSUME RelayInv, SnapshotOwns, NEW p \in Pulse, NEW m \in Machine,
         NEW u \in User \cup {NoUser}, Insert(p, m, u),
         UNCHANGED <<accounts, dispatcher>>
  PROVE  SnapshotOwns'
<1>1. p \notin batch /\ p # cur
  BY RelayAssumption
     DEF RelayInv, TypeOK, DispatcherOK, Insert, NextPulseId, Steps
<1>2. snapUser[p] \notin users
  BY <1>1, RelayAssumption DEF RelayInv, TypeOK, SnapshotOK
<1> QED BY <1>2 DEF SnapshotOwns, RelayInv, TypeOK, Insert, accounts, dispatcher

\* Every step keeps it: most leave owners and snapshot alone or take a pulse
\* out of the snapshot; Merge, SignUp and a new row are the ones to look at.
LEMMA NextOwns == RelayInv /\ SnapshotOwns /\ [Next]_vars => SnapshotOwns'
<1> SUFFICES ASSUME RelayInv, SnapshotOwns, [Next]_vars PROVE SnapshotOwns'
  OBVIOUS
<1>1. NoUser \notin users /\ snapUser \in [Pulse -> User \cup {NoUser}]
  BY RelayAssumption DEF RelayInv, TypeOK
<1>2. CASE UNCHANGED <<users, reused, owner>>
           /\ \A p \in Pulse : snapUser'[p] \in {snapUser[p], NoUser}
  BY <1>1, <1>2 DEF SnapshotOwns
<1>3. CASE FetchPending
  BY <1>1, <1>3 DEF FetchPending, SnapshotOwns, accounts, pulses
<1>4. ASSUME NEW from \in User, NEW to \in User, Merge(from, to)
      PROVE  SnapshotOwns'
  BY <1>4 DEF Merge, SnapshotOwns, dispatcher, RelayInv, TypeOK
<1>5. ASSUME NEW u \in User, SignUp(u)
      PROVE  SnapshotOwns'
  BY <1>5 DEF SignUp, SnapshotOwns, pulses, dispatcher
<1>6. ASSUME NEW m \in Machine,
             QueueDirectPay(m) \/ \E u \in User : Redeem(u, m)
      PROVE  SnapshotOwns'
  BY <1>6, InsertOwns DEF QueueDirectPay, Redeem
<1>7. CASE MarkSent \/ MarkPendingRetry \/ InsertAlert \/ StatementFails \/ Crash
  <2>1. UNCHANGED <<users, reused, owner>>
    BY <1>7 DEF MarkSent, MarkPendingRetry, InsertAlert, StatementFails, Crash,
                accounts, pulses
  <2>2. \A p \in Pulse : snapUser'[p] \in {snapUser[p], NoUser}
    BY <1>1, <1>7 DEF MarkSent, MarkPendingRetry, InsertAlert, StatementFails,
                      Crash, Finish
  <2> QED BY <2>1, <2>2, <1>2
<1>8. CASE Refund
  <2>1. UNCHANGED <<users, reused, owner>>
    BY <1>8 DEF Refund, accounts, pulses
  <2>2. \A p \in Pulse : snapUser'[p] \in {snapUser[p], NoUser}
    BY <1>1, <1>8 DEF Refund, Finish, GoTo
  <2> QED BY <2>1, <2>2, <1>2
<1>9. CASE \/ (\E p \in Pulse : ResolveBinding(p) \/ BackoffElapses(p))
           \/ FirePulse \/ ReadMaxAttempts \/ MarkFailed
           \/ (\E u \in User : Purchase(u) \/ AdminAdjust(u))
           \/ (\E m \in Machine : SetActive(m) \/ Rebind(m) \/ GapElapses(m))
           \/ SetRelayMaxAttempts \/ AckAlert \/ UNCHANGED vars
  <2>1. UNCHANGED <<users, reused, owner, snapUser>>
    BY <1>9 DEF ResolveBinding, BackoffElapses, FirePulse, ReadMaxAttempts,
       MarkFailed, Purchase, AdminAdjust, SetActive, Rebind, GapElapses,
       SetRelayMaxAttempts, AckAlert, GoTo, vars, accounts, pulses, dispatcher
  <2> QED BY <2>1, <1>2
<1> QED BY <1>3, <1>4, <1>5, <1>6, <1>7, <1>8, <1>9
        DEF Next, Dispatch, Customer, Admin, Time

\* Refund is the only step that adds refund rows, and it credits the user in
\* the snapshot.
LEMMA NextRefunds ==
  ASSUME RelayInv, SnapshotOwns, [Next]_vars,
         NEW p \in Pulse \ reused, refunds'[p] > refunds[p]
  PROVE  owner[p] \in User /\ balance'[owner[p]] = balance[owner[p]] + 1
<1>1. refunds' # refunds
  BY DEF RelayInv, TypeOK
<1>2. Refund
  BY <1>1 DEF Next, Dispatch, Customer, Admin, Time, FetchPending,
     ResolveBinding, BackoffElapses, FirePulse, MarkSent, ReadMaxAttempts,
     MarkPendingRetry,
     MarkFailed, InsertAlert, StatementFails, Crash, Purchase, SignUp, Redeem,
     QueueDirectPay, AdminAdjust, Merge, SetActive, Rebind, GapElapses,
     SetRelayMaxAttempts, AckAlert, vars, ledger
<1>3. /\ p = cur /\ snapUser[p] \in users
      /\ balance' = [balance EXCEPT ![snapUser[p]] = @ + 1]
  BY <1>1, <1>2 DEF Refund, RelayInv, TypeOK
<1> QED BY <1>3 DEF SnapshotOwns, RelayInv, TypeOK

\* A refund reaches the account that owns the redemption when it is posted,
\* although the dispatcher read the user before its HTTP attempts and accounts
\* may be merged meanwhile.
THEOREM RefundReachesOwnerHolds == Spec => RefundReachesOwner
<1>1. Spec => []SnapshotOwns
  BY InitOwns, NextOwns, RelayInvariant, PTL DEF Spec
<1>2. RelayInv /\ SnapshotOwns /\ [Next]_vars =>
        [\A p \in Pulse \ reused :
           refunds'[p] > refunds[p] =>
             /\ owner[p] \in User
             /\ balance'[owner[p]] = balance[owner[p]] + 1]_vars
  BY NextRefunds
<1> QED BY <1>1, <1>2, RelayInvariant, PTL DEF Spec, RefundReachesOwner

-----------------------------------------------------------------------------
(* Refinement: the relay implements PulseLifecycle.                        *)

\* Every closing of the coin switch is counted as misreported, but for the one
\* that is being marked as 'sent' or has been.
RecordOK ==
  \A p \in Pulse :
    IF Delivered(p) \/ state[p] = "sent" THEN fired[p] = misreported[p] + 1
                                         ELSE fired[p] = misreported[p]

\* A refund that was given up is not made, now or later.
LostOK ==
  \A p \in lost : state[p] = "failed" /\ refunds[p] = 0 /\ ~ (pc = "refund" /\ cur = p)

\* Steps that leave the dispatcher where it is.
LEMMA BesidesKeepsRecord ==
  ASSUME RelayInv, RecordOK, LostOK, UNCHANGED <<pc, cur, refunds, trace>>,
         \A p \in Pulse :
           state'[p] = state[p] \/ (state[p] = "none" /\ state'[p] = "pending")
  PROVE  RecordOK' /\ LostOK'
<1>1. UNCHANGED <<pc, cur, refunds, fired, misreported, lost>>
  BY DEF trace
<1>2. lost \subseteq Pulse
  BY DEF RelayInv, TypeOK
<1> QED BY <1>1, <1>2 DEF RecordOK, LostOK, Delivered

\* Steps of the dispatcher on pulses it has not delivered and does not refund.
LEMMA WorkKeepsRecord ==
  ASSUME RelayInv, RecordOK, LostOK, UNCHANGED <<state, refunds, trace>>,
         pc # "sent", pc' \notin {"sent", "refund"}
  PROVE  RecordOK' /\ LostOK'
<1>1. UNCHANGED <<refunds, fired, misreported, lost>> /\ lost \subseteq Pulse
  BY DEF RelayInv, TypeOK, trace
<1> QED BY <1>1 DEF RecordOK, LostOK, Delivered

\* Every step keeps the record.
LEMMA NextRecords ==
  ASSUME RelayInv, RecordOK, LostOK, [Next]_vars
  PROVE  RecordOK' /\ LostOK'
<1>1. /\ lost \subseteq Pulse /\ cur \in Pulse \cup {NoPulse}
      /\ fired \in [Pulse -> Nat] /\ misreported \in [Pulse -> Nat]
      /\ refunds \in [Pulse -> Nat]
      /\ state \in [Pulse -> {"none", "pending", "sent", "failed"}]
  BY DEF RelayInv, TypeOK
<1>2. pc \notin {"idle", "next"} => cur \in Pulse
  BY DEF RelayInv, DispatcherOK
<1>3. CASE \/ Admin \/ Time \/ UNCHANGED vars
           \/ \E u \in User : Purchase(u) \/ SignUp(u)
  <2>1. UNCHANGED <<state, pc, cur, refunds, trace>>
    BY <1>3 DEF Admin, AdminAdjust, Merge, SetActive, Rebind,
       SetRelayMaxAttempts, AckAlert, Time, BackoffElapses, GapElapses,
       Purchase, SignUp, vars, ledger, pulses, dispatcher
  <2> QED BY <2>1, BesidesKeepsRecord
<1>4. ASSUME NEW m \in Machine, QueueDirectPay(m) \/ \E u \in User : Redeem(u, m)
      PROVE  RecordOK' /\ LostOK'
  <2>1. UNCHANGED <<pc, cur, refunds, trace>>
    BY <1>4 DEF QueueDirectPay, Redeem, ledger, dispatcher
  <2>2. \A p \in Pulse :
          state'[p] = state[p] \/ (state[p] = "none" /\ state'[p] = "pending")
    BY <1>1, <1>4 DEF QueueDirectPay, Redeem, Insert, NextPulseId
  <2> QED BY <2>1, <2>2, BesidesKeepsRecord
<1>5. CASE \/ FetchPending \/ (\E p \in Pulse : ResolveBinding(p))
           \/ ReadMaxAttempts \/ MarkPendingRetry \/ InsertAlert
  <2>1. UNCHANGED <<state, refunds, trace>>
    BY <1>5 DEF FetchPending, ResolveBinding, ReadMaxAttempts, MarkPendingRetry,
       InsertAlert, ledger, pulses
  <2>2. pc # "sent" /\ pc' \notin {"sent", "refund"}
    BY <1>5 DEF FetchPending, ResolveBinding, ReadMaxAttempts, MarkPendingRetry,
       InsertAlert, GoTo, Finish
  <2> QED BY <2>1, <2>2, WorkKeepsRecord
<1>6. CASE FirePulse
  <2>1. /\ pc = "pulse" /\ cur \in Pulse /\ state[cur] = "pending"
        /\ UNCHANGED <<state, cur, refunds, lost>>
        /\ pc' \in {"sent", "error"}
    BY <1>2, <1>6 DEF FirePulse, ledger, pulses, RelayInv, DispatcherOK
  <2>2. LostOK'
    BY <2>1 DEF LostOK
  <2>3. RecordOK'
    BY <1>1, <1>6, <2>1 DEF RecordOK, Delivered, FirePulse
  <2> QED BY <2>2, <2>3
<1>7. CASE MarkSent
  <2>1. /\ pc = "sent" /\ cur \in Pulse /\ state[cur] = "pending"
        /\ state' = [state EXCEPT ![cur] = "sent"]
        /\ UNCHANGED <<fired, misreported, refunds, lost>>
        /\ pc' \in {"idle", "next"}
    BY <1>2, <1>7 DEF MarkSent, Finish, ledger, trace, RelayInv, DispatcherOK
  <2>2. LostOK'
    BY <1>1, <2>1 DEF LostOK
  <2>3. RecordOK'
    BY <1>1, <2>1 DEF RecordOK, Delivered
  <2> QED BY <2>2, <2>3
<1>8. CASE MarkFailed
  <2>1. /\ pc = "fail" /\ cur \in Pulse /\ state[cur] = "pending"
        /\ state' = [state EXCEPT ![cur] = "failed"]
        /\ UNCHANGED <<fired, misreported, refunds, lost, cur>>
        /\ pc' \in {"refund", "alert"}
    BY <1>2, <1>8 DEF MarkFailed, GoTo, ledger, trace, RelayInv, DispatcherOK
  <2>2. LostOK'
    BY <1>1, <2>1 DEF LostOK
  <2>3. RecordOK'
    BY <1>1, <2>1 DEF RecordOK, Delivered
  <2> QED BY <2>2, <2>3
<1>9. CASE Refund
  <2>1. /\ pc = "refund" /\ cur \in Pulse
        /\ state[cur] = "failed" /\ refunds[cur] = 0
        /\ UNCHANGED <<state, fired, misreported>>
        /\ pc' \notin {"sent", "refund"}
    BY <1>2, <1>9 DEF Refund, GoTo, Finish, pulses, RelayInv, DispatcherOK
  <2>2. \/ refunds' = [refunds EXCEPT ![cur] = @ + 1] /\ lost' = lost
        \/ refunds' = refunds /\ lost' = lost \cup {cur}
    BY <1>9 DEF Refund
  <2>3. LostOK'
    BY <1>1, <2>1, <2>2 DEF LostOK
  <2>4. RecordOK'
    BY <1>1, <2>1 DEF RecordOK, Delivered
  <2> QED BY <2>3, <2>4
<1>10. CASE StatementFails \/ Crash
  <2>1. /\ pc # "idle" /\ pc' \in {"idle", "next"}
        /\ UNCHANGED <<state, refunds, fired>>
        /\ misreported' = IF pc = "sent" THEN [misreported EXCEPT ![cur] = @ + 1]
                                         ELSE misreported
        /\ lost' = IF pc = "refund" THEN lost \cup {cur} ELSE lost
    BY <1>10 DEF StatementFails, Crash, Finish, Undone, ledger, pulses
  <2>2. /\ pc = "refund" => state[cur] = "failed" /\ refunds[cur] = 0
        /\ pc = "sent" => state[cur] = "pending"
    BY DEF RelayInv, DispatcherOK
  <2>3. LostOK'
    BY <1>1, <1>2, <2>1, <2>2 DEF LostOK
  <2>4. RecordOK'
    BY <1>1, <1>2, <2>1, <2>2 DEF RecordOK, Delivered
  <2> QED BY <2>3, <2>4
<1> QED BY <1>3, <1>4, <1>5, <1>6, <1>7, <1>8, <1>9, <1>10
        DEF Next, Dispatch, Customer

\* The mapping starts where the lifecycle does.
LEMMA InitRefines == Init => Lifecycle!Init
  BY RelayAssumption DEF Init, Lifecycle!Init, Redeemed

\* Without a delivery to mark, no pulse is open.
LEMMA NothingOpen ==
  ASSUME RelayInv, RecordOK, pc # "sent"
  PROVE  Lifecycle!NoneOpen
<1>1. \A p \in Pulse : state[p] = "pending" => fired[p] = misreported[p]
  BY DEF RecordOK, Delivered
<1>2. misreported \in [Pulse -> Nat]
  BY DEF RelayInv, TypeOK
<1> QED BY <1>1, <1>2 DEF Lifecycle!NoneOpen, Lifecycle!Open

\* A delivery that is to be marked is open.
LEMMA DeliveredIsOpen ==
  ASSUME RelayInv, RecordOK, pc = "sent"
  PROVE  cur \in Pulse /\ Lifecycle!Open(cur)
<1>1. cur \in Pulse /\ state[cur] = "pending"
  BY DEF RelayInv, DispatcherOK
<1>2. fired[cur] = misreported[cur] + 1 /\ misreported[cur] \in Nat
  BY <1>1 DEF RecordOK, Delivered, RelayInv, TypeOK
<1> QED BY <1>1, <1>2 DEF Lifecycle!Open

\* A refund that is to be made is owed.
LEMMA RefundIsOwed ==
  ASSUME RelayInv, LostOK, pc = "refund"
  PROVE  cur \in Pulse /\ Lifecycle!Owed(cur)
<1>1. cur \in Pulse /\ state[cur] = "failed" /\ refunds[cur] = 0 /\ owner[cur] # NoUser
  BY DEF RelayInv, DispatcherOK, SnapshotOK
<1> QED BY <1>1 DEF LostOK, Redeemed, Lifecycle!Owed

\* Which pulses somebody paid for changes with a redemption only; a merge moves
\* them to a user.
LEMMA RedeemedRest ==
  ASSUME UNCHANGED state,
         \A p \in Pulse : owner'[p] = NoUser <=> owner[p] = NoUser
  PROVE  Redeemed' = Redeemed
BY DEF Redeemed

\* A new row is queued, paid for or not.
LEMMA InsertRefines ==
  ASSUME RelayInv, NEW p \in Pulse, NEW m \in Machine,
         NEW u \in User \cup {NoUser}, Insert(p, m, u), UNCHANGED <<refunds, trace>>
  PROVE  Lifecycle!Next
<1>1. /\ state[p] = "none" /\ state' = [state EXCEPT ![p] = "pending"]
      /\ owner' = [owner EXCEPT ![p] = u]
      /\ UNCHANGED <<fired, misreported, refunds, lost>>
  BY DEF Insert, NextPulseId, trace
<1>2. Redeemed' \in {Redeemed, Redeemed \cup {p}}
  BY <1>1 DEF Redeemed, RelayInv, TypeOK
<1>3. Lifecycle!Queue(p)
  BY <1>1, <1>2 DEF Lifecycle!Queue
<1> QED BY <1>3 DEF Lifecycle!Next

\* A closing of the switch, while no other pulse is known to be delivered.
LEMMA FirePulseRefines ==
  ASSUME RelayInv, RecordOK, FirePulse
  PROVE  [Lifecycle!Next]_(Lifecycle!pulseVars)
<1>1. /\ pc = "pulse" /\ cur \in Pulse /\ state[cur] = "pending"
      /\ UNCHANGED <<state, owner, refunds, lost>>
  BY DEF FirePulse, ledger, pulses, RelayInv, DispatcherOK
<1>2. Redeemed' = Redeemed
  BY <1>1, RedeemedRest
<1>3. CASE fired' = fired /\ misreported' = misreported
  BY <1>1, <1>2, <1>3 DEF Lifecycle!pulseVars
<1>4. CASE /\ fired' = [fired EXCEPT ![cur] = @ + 1]
           /\ misreported' \in {misreported, [misreported EXCEPT ![cur] = @ + 1]}
  <2>1. Lifecycle!NoneOpen
    BY <1>1, NothingOpen
  <2>2. Lifecycle!Play(cur)
    BY <1>1, <1>2, <1>4, <2>1 DEF Lifecycle!Play
  <2> QED BY <1>1, <2>2 DEF Lifecycle!Next
<1> QED BY <1>3, <1>4 DEF FirePulse

\* The two marks.
LEMMA MarksRefine ==
  ASSUME RelayInv, RecordOK, MarkSent \/ MarkFailed
  PROVE  Lifecycle!Next
<1>1. UNCHANGED <<owner, fired, misreported, refunds, lost>>
  BY DEF MarkSent, MarkFailed, ledger, trace
<1>2. cur \in Pulse /\ state[cur] = "pending"
  BY DEF MarkSent, MarkFailed, RelayInv, DispatcherOK
<1>3. state' \in {[state EXCEPT ![cur] = "sent"], [state EXCEPT ![cur] = "failed"]}
  BY DEF MarkSent, MarkFailed
<1>4. Redeemed' = Redeemed
  BY <1>1, <1>2, <1>3 DEF Redeemed, RelayInv, TypeOK
<1>5. CASE MarkSent
  <2>1. Lifecycle!Open(cur)
    BY <1>5, DeliveredIsOpen DEF MarkSent
  <2>2. Lifecycle!MarkSent(cur)
    BY <1>1, <1>4, <1>5, <2>1 DEF MarkSent, Lifecycle!MarkSent
  <2> QED BY <1>2, <2>2 DEF Lifecycle!Next
<1>6. CASE MarkFailed
  <2>1. Lifecycle!NoneOpen
    BY <1>6, NothingOpen DEF MarkFailed
  <2>2. Lifecycle!MarkFailed(cur)
    BY <1>1, <1>2, <1>4, <1>6, <2>1 DEF MarkFailed, Lifecycle!MarkFailed
  <2> QED BY <1>2, <2>2 DEF Lifecycle!Next
<1> QED BY <1>5, <1>6

\* The refund is made or forgone.
LEMMA RefundRefines ==
  ASSUME RelayInv, LostOK, Refund
  PROVE  Lifecycle!Next
<1>1. cur \in Pulse /\ Lifecycle!Owed(cur)
  BY RefundIsOwed DEF Refund
<1>2. UNCHANGED <<state, owner, fired, misreported>>
  BY DEF Refund, pulses
<1>3. Redeemed' = Redeemed
  BY <1>2, RedeemedRest
<1>4. \/ refunds' = [refunds EXCEPT ![cur] = @ + 1] /\ lost' = lost
      \/ refunds' = refunds /\ lost' = lost \cup {cur}
  BY DEF Refund
<1>5. Lifecycle!Refund(cur) \/ Lifecycle!Forgo(cur)
  BY <1>1, <1>2, <1>3, <1>4 DEF Lifecycle!Refund, Lifecycle!Forgo
<1> QED BY <1>1, <1>5 DEF Lifecycle!Next

\* What a failed statement or a crash leaves undone: the record of a delivery,
\* a refund, or nothing the lifecycle knows of.
LEMMA FailureRefines ==
  ASSUME RelayInv, RecordOK, LostOK, StatementFails \/ Crash
  PROVE  [Lifecycle!Next]_(Lifecycle!pulseVars)
<1>1. /\ UNCHANGED <<state, owner, refunds, fired>>
      /\ misreported' = IF pc = "sent" THEN [misreported EXCEPT ![cur] = @ + 1]
                                       ELSE misreported
      /\ lost' = IF pc = "refund" THEN lost \cup {cur} ELSE lost
  BY DEF StatementFails, Crash, Undone, ledger, pulses
<1>2. Redeemed' = Redeemed
  BY <1>1, RedeemedRest
<1>3. CASE pc = "sent"
  <2>1. cur \in Pulse /\ Lifecycle!Open(cur)
    BY <1>3, DeliveredIsOpen
  <2>2. Lifecycle!LoseRecord(cur)
    BY <1>1, <1>2, <1>3, <2>1 DEF Lifecycle!LoseRecord
  <2> QED BY <2>1, <2>2 DEF Lifecycle!Next
<1>4. CASE pc = "refund"
  <2>1. cur \in Pulse /\ Lifecycle!Owed(cur)
    BY <1>4, RefundIsOwed
  <2>2. Lifecycle!Forgo(cur)
    BY <1>1, <1>2, <1>4, <2>1 DEF Lifecycle!Forgo
  <2> QED BY <2>1, <2>2 DEF Lifecycle!Next
<1>5. CASE pc \notin {"sent", "refund"}
  BY <1>1, <1>2, <1>5 DEF Lifecycle!pulseVars
<1> QED BY <1>3, <1>4, <1>5

\* Every step of the relay is a step of the lifecycle or a stutter.
LEMMA NextRefines ==
  RelayInv /\ RecordOK /\ LostOK /\ [Next]_vars =>
    [Lifecycle!Next]_(Lifecycle!pulseVars)
<1> SUFFICES ASSUME RelayInv, RecordOK, LostOK, [Next]_vars
             PROVE  [Lifecycle!Next]_(Lifecycle!pulseVars)
  OBVIOUS
<1>1. ASSUME UNCHANGED <<state, refunds, fired, misreported, lost>>,
             \A p \in Pulse : owner'[p] = NoUser <=> owner[p] = NoUser
      PROVE  [Lifecycle!Next]_(Lifecycle!pulseVars)
  BY <1>1, RedeemedRest DEF Lifecycle!pulseVars
<1>2. ASSUME NEW from \in User, NEW to \in User, Merge(from, to)
      PROVE  [Lifecycle!Next]_(Lifecycle!pulseVars)
  <2>1. UNCHANGED <<state, refunds, fired, misreported, lost>>
    BY <1>2 DEF Merge, trace
  <2>2. \A p \in Pulse : owner'[p] = NoUser <=> owner[p] = NoUser
    BY <1>2, RelayAssumption DEF Merge
  <2> QED BY <1>1, <2>1, <2>2
<1>3. ASSUME NEW m \in Machine, QueueDirectPay(m) \/ \E u \in User : Redeem(u, m)
      PROVE  [Lifecycle!Next]_(Lifecycle!pulseVars)
  <2>1. PICK p \in Pulse, u \in User \cup {NoUser} : Insert(p, m, u)
    BY <1>3 DEF QueueDirectPay, Redeem
  <2>2. UNCHANGED <<refunds, trace>>
    BY <1>3 DEF QueueDirectPay, Redeem, ledger
  <2> QED BY <2>1, <2>2, InsertRefines
<1>4. CASE FirePulse
  BY <1>4, FirePulseRefines
<1>5. CASE MarkSent \/ MarkFailed
  BY <1>5, MarksRefine
<1>6. CASE Refund
  BY <1>6, RefundRefines
<1>7. CASE StatementFails \/ Crash
  BY <1>7, FailureRefines
<1>8. CASE \/ FetchPending \/ (\E p \in Pulse : ResolveBinding(p) \/ BackoffElapses(p))
           \/ ReadMaxAttempts \/ MarkPendingRetry \/ InsertAlert
           \/ (\E u \in User : Purchase(u) \/ SignUp(u) \/ AdminAdjust(u))
           \/ (\E m \in Machine : SetActive(m) \/ Rebind(m) \/ GapElapses(m))
           \/ SetRelayMaxAttempts \/ AckAlert \/ UNCHANGED vars
  <2>1. UNCHANGED <<state, owner, refunds, fired, misreported, lost>>
    BY <1>8 DEF FetchPending, ResolveBinding, BackoffElapses, ReadMaxAttempts,
       MarkPendingRetry, InsertAlert, Purchase, SignUp, AdminAdjust, SetActive,
       Rebind, GapElapses, SetRelayMaxAttempts, AckAlert, vars, ledger, pulses,
       trace
  <2> QED BY <1>1, <2>1
<1> QED BY <1>2, <1>3, <1>4, <1>5, <1>6, <1>7, <1>8
        DEF Next, Dispatch, Customer, Admin, Time

\* Redemption and the dispatcher, with its snapshots, retries, lost answers,
\* merges and failures, do nothing the lifecycle does not allow.
THEOREM ImplementsLifecycle == Spec => LifecycleSpec
<1>1. Init => RecordOK /\ LostOK
  BY DEF Init, RecordOK, LostOK, Delivered
<1>2. RelayInv /\ RecordOK /\ LostOK /\ [Next]_vars => RecordOK' /\ LostOK'
  BY NextRecords
<1> QED BY <1>1, <1>2, InitRefines, NextRefines, RelayInvariant, PTL
        DEF Spec, LifecycleSpec, Lifecycle!Spec

-----------------------------------------------------------------------------
(* Retries end: the part of PulsesSettle that needs no fairness.           *)

\* A pending pulse is below the greatest limit M that was ever in force, and one
\* that is to be tried again stays below it.
AttemptsLeft(M) ==
  /\ \A p \in Pulse : attempts[p] <= M
  /\ \A p \in Pulse : state[p] \in {"none", "pending"} => attempts[p] < M
  /\ pc = "retry" => attempts[cur] + 1 < M

\* Only the marks of failed attempts count, and the limit was looked at first.
LEMMA NextCounts ==
  ASSUME RelayInv, [Next]_vars, NEW M \in Nat, AttemptsLeft(M),
         \A limit \in MaxAttempts \cup {DefaultMaxAttempts} : limit <= M
  PROVE  AttemptsLeft(M)'
<1>1. /\ attempts \in [Pulse -> Nat]
      /\ state \in [Pulse -> {"none", "pending", "sent", "failed"}]
      /\ pc \notin {"idle", "next"} => cur \in Pulse
      /\ pc \in {"pulse", "sent", "error", "retry", "fail"} => state[cur] = "pending"
  BY DEF RelayInv, TypeOK, DispatcherOK
<1>2. ASSUME attempts' = attempts, pc' = "retry" => pc = "retry" /\ cur' = cur,
             \A p \in Pulse : state'[p] \in {"none", "pending"} =>
               state[p] \in {"none", "pending"}
      PROVE  AttemptsLeft(M)'
  BY <1>2 DEF AttemptsLeft
<1>3. CASE ReadMaxAttempts
  <2>1. PICK limit \in {maxAttempts, DefaultMaxAttempts} :
          GoTo(IF attempts[cur] + 1 >= limit THEN "fail" ELSE "retry")
    BY <1>3 DEF ReadMaxAttempts
  <2>2. limit \in Nat /\ limit <= M
    BY RelayAssumption DEF RelayInv, TypeOK
  <2>3. UNCHANGED <<attempts, state, cur>> /\ cur \in Pulse
    BY <1>1, <1>3, <2>1 DEF ReadMaxAttempts, pulses, GoTo
  <2>4. pc' = "retry" => attempts[cur] + 1 < M
    <3>1. attempts[cur] \in Nat
      BY <1>1, <2>3
    <3>2. pc' = IF attempts[cur] + 1 >= limit THEN "fail" ELSE "retry"
      BY <2>1 DEF GoTo
    <3> QED BY <2>2, <3>1, <3>2
  <2> QED BY <2>3, <2>4 DEF AttemptsLeft
<1>4. CASE MarkPendingRetry
  <2>1. /\ pc = "retry" /\ pc' # "retry" /\ cur \in Pulse
        /\ attempts' = [attempts EXCEPT ![cur] = @ + 1] /\ state' = state
    BY <1>1, <1>4 DEF MarkPendingRetry, Finish
  <2> QED BY <1>1, <2>1 DEF AttemptsLeft
<1>5. CASE MarkFailed
  <2>1. /\ pc = "fail" /\ pc' # "retry" /\ cur \in Pulse /\ state[cur] = "pending"
        /\ attempts' = [attempts EXCEPT ![cur] = @ + 1]
        /\ state' = [state EXCEPT ![cur] = "failed"]
    BY <1>1, <1>5 DEF MarkFailed, GoTo
  <2> QED BY <1>1, <2>1 DEF AttemptsLeft
<1>6. CASE \/ MarkSent \/ InsertAlert \/ Refund \/ StatementFails \/ Crash
           \/ FetchPending \/ FirePulse \/ \E p \in Pulse : ResolveBinding(p)
  <2>1. attempts' = attempts /\ pc' # "retry"
    BY <1>6 DEF MarkSent, InsertAlert, Refund, StatementFails, Crash, FetchPending,
       FirePulse, ResolveBinding, Finish, GoTo, pulses
  <2>2. \A p \in Pulse : state'[p] \in {state[p], "sent"}
    BY <1>1, <1>6 DEF MarkSent, InsertAlert, Refund, StatementFails, Crash,
       FetchPending, FirePulse, ResolveBinding, pulses
  <2> QED BY <1>2, <2>1, <2>2
<1>7. CASE \/ Customer \/ Admin \/ Time \/ (\E m \in Machine : QueueDirectPay(m))
           \/ UNCHANGED vars
  <2>1. UNCHANGED <<attempts, pc, cur>>
    BY <1>7 DEF Customer, Purchase, SignUp, Redeem, Insert, Admin, AdminAdjust,
       Merge, SetActive, Rebind, SetRelayMaxAttempts, AckAlert, Time,
       BackoffElapses, GapElapses, QueueDirectPay, vars, pulses, dispatcher
  <2>2. \A p \in Pulse : state'[p] = state[p]
                         \/ (state[p] = "none" /\ state'[p] = "pending")
    BY <1>1, <1>7 DEF Customer, Purchase, SignUp, Redeem, Insert, NextPulseId,
       Admin, AdminAdjust, Merge, SetActive, Rebind, SetRelayMaxAttempts,
       AckAlert, Time, BackoffElapses, GapElapses, QueueDirectPay, vars, pulses
  <2> QED BY <1>2, <2>1, <2>2
<1> QED BY <1>3, <1>4, <1>5, <1>6, <1>7 DEF Next, Dispatch

\* No pulse counts more failed attempts than the greatest limit the settings
\* allow, also when an administrator lowers or raises the limit between an
\* attempt and the look at it, and when the setting cannot be read.
THEOREM RetriesEnd ==
  ASSUME NEW M \in Nat,
         \A limit \in MaxAttempts \cup {DefaultMaxAttempts} : limit <= M
  PROVE  Spec => [](\A p \in Pulse : attempts[p] <= M)
<1>1. Init => AttemptsLeft(M)
  BY RelayAssumption DEF Init, AttemptsLeft
<1>2. RelayInv /\ AttemptsLeft(M) /\ [Next]_vars => AttemptsLeft(M)'
  BY NextCounts
<1>3. AttemptsLeft(M) => \A p \in Pulse : attempts[p] <= M
  BY DEF AttemptsLeft
<1> QED BY <1>1, <1>2, <1>3, RelayInvariant, PTL DEF Spec

-----------------------------------------------------------------------------
(* Sums.  Total(f, S) is the library's fold, a recursive function over the *)
(* subsets of S, which takes the elements in an order of its own.          *)

\* The element of s that the sum takes first.
Pick(s) == CHOOSE x \in s : TRUE

\* What the total of s is, if totals is right about smaller sets.
NextTotal(f, totals, s) ==
  IF s = {} THEN 0 ELSE f[Pick(s)] + totals[s \ {Pick(s)}]

\* totals[s] is the total of f over s for every s in D.
AreTotals(f, totals, D) == totals = [s \in D |-> NextTotal(f, totals, s)]

\* The subsets of S with at most n elements.
UpTo(S, n) == {s \in SUBSET S : Cardinality(s) <= n}

\* Taking the element away leaves a smaller set.
LEMMA PickFacts ==
  ASSUME NEW S, IsFiniteSet(S), NEW s \in SUBSET S, s # {}
  PROVE  /\ Pick(s) \in s
         /\ s \ {Pick(s)} \in SUBSET S
         /\ IsFiniteSet(s) /\ IsFiniteSet(s \ {Pick(s)})
         /\ Cardinality(s) \in Nat
         /\ Cardinality(s \ {Pick(s)}) = Cardinality(s) - 1
<1>1. Pick(s) \in s
  BY DEF Pick
<1>2. IsFiniteSet(s)
  BY FS_Subset
<1>3. Cardinality(s) \in Nat
  BY <1>2, FS_CardinalityType
<1>4. IsFiniteSet(s \ {Pick(s)}) /\ Cardinality(s \ {Pick(s)}) = Cardinality(s) - 1
  BY <1>1, <1>2, FS_RemoveElement
<1>5. QED BY <1>1, <1>2, <1>3, <1>4

\* Induction for a set: the order of the naturals is well-founded.
LEMMA InductionOnNat ==
  ASSUME NEW D, 0 \in D, \A n \in Nat : n \in D => n + 1 \in D
  PROVE  Nat \subseteq D
<1> DEFINE Less == OpToRel(<, Nat)
           Bad == Nat \ D
<1> SUFFICES ASSUME Bad # {} PROVE FALSE
  OBVIOUS
<1>1. IsWellFoundedOn(Less, Nat)
  BY NatLessThanWellFounded DEF OpToRel
<1>2. \A n, m \in Nat : m < n => <<m, n>> \in Less
  BY DEF OpToRel
<1> HIDE DEF Less
<1>3. PICK n \in Bad : \A m \in Bad : ~ (<<m, n>> \in Less)
  <2>1. Bad \subseteq Nat
    OBVIOUS
  <2> HIDE DEF Bad
  <2> QED BY <1>1, <2>1, WFMin
<1>4. n # 0 /\ n \in Nat
  OBVIOUS
<1>5. <<n - 1, n>> \in Less /\ n - 1 \in Nat
  BY <1>2, <1>4
<1>6. n - 1 \in D
  BY <1>3, <1>5
<1>7. (n - 1) + 1 \in D
  BY <1>5, <1>6
<1> QED BY <1>4, <1>7

\* There is a function of totals, so that CHOOSE has one to choose: it is built
\* for subsets of growing size.
LEMMA TotalsExist ==
  ASSUME NEW S, IsFiniteSet(S), NEW f
  PROVE  \E g : AreTotals(f, g, SUBSET S)
<1> DEFINE Good(n) == \E g : AreTotals(f, g, UpTo(S, n))
<1>1. Good(0)
  <2> DEFINE g == [s \in UpTo(S, 0) |-> 0]
  <2>1. \A s \in UpTo(S, 0) : s = {}
    <3>1. \A s \in SUBSET S : IsFiniteSet(s) /\ Cardinality(s) \in Nat
      BY FS_Subset, FS_CardinalityType
    <3> QED BY <3>1, FS_EmptySet DEF UpTo
  <2>2. AreTotals(f, g, UpTo(S, 0))
    BY <2>1 DEF AreTotals, NextTotal
  <2> QED BY <2>2
<1>2. ASSUME NEW n \in Nat, Good(n)
      PROVE  Good(n + 1)
  <2>1. PICK g : AreTotals(f, g, UpTo(S, n))
    BY <1>2
  <2> DEFINE h == [s \in UpTo(S, n + 1) |-> NextTotal(f, g, s)]
  <2>2. ASSUME NEW s \in UpTo(S, n)
        PROVE  s \in UpTo(S, n + 1) /\ h[s] = g[s]
    <3>1. Cardinality(s) \in Nat /\ s \in SUBSET S
      BY FS_Subset, FS_CardinalityType DEF UpTo
    <3>2. s \in UpTo(S, n + 1)
      BY <3>1 DEF UpTo
    <3>3. g[s] = NextTotal(f, g, s)
      BY <2>1 DEF AreTotals
    <3> QED BY <3>2, <3>3
  <2>3. ASSUME NEW s \in UpTo(S, n + 1)
        PROVE  NextTotal(f, g, s) = NextTotal(f, h, s)
    <3>1. CASE s = {}
      BY <3>1 DEF NextTotal
    <3>2. CASE s # {}
      <4>1. s \in SUBSET S /\ Cardinality(s) <= n + 1
        BY DEF UpTo
      <4>2. /\ s \ {Pick(s)} \in SUBSET S /\ Cardinality(s) \in Nat
            /\ Cardinality(s \ {Pick(s)}) = Cardinality(s) - 1
        BY <3>2, <4>1, PickFacts
      <4>3. s \ {Pick(s)} \in UpTo(S, n)
        BY <4>1, <4>2 DEF UpTo
      <4>4. h[s \ {Pick(s)}] = g[s \ {Pick(s)}]
        BY <2>2, <4>3
      <4> HIDE DEF h
      <4> QED BY <4>4 DEF NextTotal
    <3> QED BY <3>1, <3>2
  <2>4. h = [s \in UpTo(S, n + 1) |-> NextTotal(f, h, s)]
    <3> DEFINE hh == [s \in UpTo(S, n + 1) |-> NextTotal(f, h, s)]
    <3>1. \A s \in UpTo(S, n + 1) : h[s] = hh[s]
      BY <2>3
    <3> QED BY <3>1
  <2> HIDE DEF h
  <2>5. QED BY <2>4 DEF AreTotals
<1>3. \A n \in Nat : Good(n)
  <2> DEFINE D == {n \in Nat : Good(n)}
  <2> HIDE DEF Good
  <2>1. 0 \in D /\ \A n \in Nat : n \in D => n + 1 \in D
    BY <1>1, <1>2
  <2> HIDE DEF D
  <2>2. Nat \subseteq D
    BY <2>1, InductionOnNat
  <2> QED BY <2>2 DEF D
<1>4. Cardinality(S) \in Nat /\ UpTo(S, Cardinality(S)) = SUBSET S
  BY FS_CardinalityType, FS_Subset DEF UpTo
<1>5. Good(Cardinality(S))
  BY <1>3, <1>4
<1> QED BY <1>4, <1>5

\* Induction for a set of sets: inclusion of finite sets is well-founded.
LEMMA InductionOnSubsets ==
  ASSUME NEW S, IsFiniteSet(S), NEW D,
         \A s \in SUBSET S : (\A y \in s : s \ {y} \in D) => s \in D
  PROVE  SUBSET S \subseteq D
<1> DEFINE Bad == (SUBSET S) \ D
<1> SUFFICES ASSUME Bad # {} PROVE FALSE
  OBVIOUS
<1>1. FiniteSubsetsOf(S) = SUBSET S
  BY FS_FiniteSubsetsOfFinite
<1>2. IsWellFoundedOn(StrictSubsetOrdering(S), SUBSET S)
  <2>1. IsWellFoundedOn(StrictSubsetOrdering(S), FiniteSubsetsOf(S))
    BY FS_StrictSubsetOrderingWellFounded
  <2> QED BY <1>1, <2>1, Zenon
<1>3. PICK s \in Bad : \A t \in Bad : ~ (<<t, s>> \in StrictSubsetOrdering(S))
  <2>1. Bad \subseteq SUBSET S
    OBVIOUS
  <2> HIDE DEF Bad
  <2> QED BY <1>2, <2>1, WFMin
<1>4. ASSUME NEW y \in s PROVE s \ {y} \in D
  <2>1. <<s \ {y}, s>> \in (SUBSET S) \X (SUBSET S)
    OBVIOUS
  <2>2. s \ {y} \subseteq s /\ s \ {y} # s
    OBVIOUS
  <2>3. <<s \ {y}, s>> \in StrictSubsetOrdering(S)
    BY <2>1, <2>2 DEF StrictSubsetOrdering
  <2> QED BY <1>3, <2>3
<1> QED BY <1>4

\* The totals, whichever function they are of.
TotalsOf(f, S) == CHOOSE g : AreTotals(f, g, SUBSET S)

\* The sum is the value of that function.
LEMMA TotalUnfolds ==
  ASSUME NEW S, NEW f
  PROVE  Total(f, S) = TotalsOf(f, S)[S]
BY DEF Total, MapThenSumSet, MapThenFoldSet, TotalsOf, AreTotals, NextTotal, Pick

\* It adds one element after the other.
LEMMA TotalsOfSubsets ==
  ASSUME NEW S, IsFiniteSet(S), NEW f, NEW t \in SUBSET S
  PROVE  TotalsOf(f, S)[t] = NextTotal(f, TotalsOf(f, S), t)
<1>1. AreTotals(f, TotalsOf(f, S), SUBSET S)
  BY TotalsExist DEF TotalsOf
<1> HIDE DEF TotalsOf
<1> DEFINE g == TotalsOf(f, S)
           h == [s \in SUBSET S |-> NextTotal(f, g, s)]
<1>2. g = h
  BY <1>1 DEF AreTotals
<1>3. h[t] = NextTotal(f, g, t)
  OBVIOUS
<1> HIDE DEF g, h
<1>4. g[t] = NextTotal(f, g, t)
  BY <1>2, <1>3
<1> QED BY <1>4 DEF g

\* The totals for S are those for its subsets.
LEMMA TotalOfSubset ==
  ASSUME NEW S, IsFiniteSet(S), NEW f, NEW t \in SUBSET S
  PROVE  Total(f, t) = TotalsOf(f, S)[t]
<1> DEFINE g == TotalsOf(f, S)
           h == TotalsOf(f, t)
           D == {s \in SUBSET t : g[s] = h[s]}
<1>1. IsFiniteSet(t)
  BY FS_Subset
<1>2. \A s \in SUBSET t : g[s] = NextTotal(f, g, s) /\ h[s] = NextTotal(f, h, s)
  BY <1>1, TotalsOfSubsets
<1> HIDE DEF g, h
<1>3. SUBSET t \subseteq D
  <2>1. ASSUME NEW s \in SUBSET t, \A y \in s : s \ {y} \in D
        PROVE  g[s] = h[s]
    <3>1. CASE s = {}
      BY <1>2, <3>1 DEF NextTotal
    <3>2. CASE s # {}
      <4>1. Pick(s) \in s
        BY <3>2 DEF Pick
      <4>2. g[s \ {Pick(s)}] = h[s \ {Pick(s)}]
        BY <2>1, <4>1
      <4> QED BY <1>2, <3>2, <4>2 DEF NextTotal
    <3> QED BY <3>1, <3>2
  <2>2. \A s \in SUBSET t : (\A y \in s : s \ {y} \in D) => s \in D
    BY <2>1
  <2> HIDE DEF D
  <2> QED BY <1>1, <2>2, InductionOnSubsets
<1> QED BY <1>3, TotalUnfolds DEF g, h

\* Integers add up to an integer.
LEMMA TotalType ==
  ASSUME NEW S, IsFiniteSet(S), NEW f, \A x \in S : f[x] \in Int
  PROVE  Total(f, S) \in Int
<1> DEFINE g == TotalsOf(f, S)
           D == {s \in SUBSET S : g[s] \in Int}
<1>1. \A s \in SUBSET S : g[s] = NextTotal(f, g, s)
  BY TotalsOfSubsets
<1> HIDE DEF g
<1>2. SUBSET S \subseteq D
  <2>1. ASSUME NEW s \in SUBSET S, \A y \in s : s \ {y} \in D
        PROVE  g[s] \in Int
    <3>1. CASE s = {}
      <4>1. g[s] = 0
        BY <1>1, <3>1 DEF NextTotal
      <4> QED BY <4>1
    <3>2. CASE s # {}
      <4>1. Pick(s) \in s
        BY <3>2 DEF Pick
      <4>2. g[s \ {Pick(s)}] \in Int /\ f[Pick(s)] \in Int
        BY <2>1, <4>1
      <4> QED BY <1>1, <3>2, <4>2 DEF NextTotal
    <3> QED BY <3>1, <3>2
  <2>2. \A s \in SUBSET S : (\A y \in s : s \ {y} \in D) => s \in D
    BY <2>1
  <2> HIDE DEF D
  <2> QED BY <2>2, InductionOnSubsets
<1> QED BY <1>2, TotalUnfolds DEF g

\* It does not matter which element is taken first.
LEMMA TotalSplits ==
  ASSUME NEW S, IsFiniteSet(S), NEW f, \A x \in S : f[x] \in Int,
         NEW x \in S
  PROVE  Total(f, S) = f[x] + Total(f, S \ {x})
<1> DEFINE g == TotalsOf(f, S)
           D == {s \in SUBSET S : \A y \in s : g[s] = f[y] + g[s \ {y}]}
<1>1. \A s \in SUBSET S : g[s] = NextTotal(f, g, s)
  BY TotalsOfSubsets
<1>2. \A s \in SUBSET S : g[s] \in Int
  <2> TAKE s \in SUBSET S
  <2>1. Total(f, s) \in Int
    BY FS_Subset, TotalType
  <2> QED BY <2>1, TotalOfSubset
<1> HIDE DEF g
<1>3. SUBSET S \subseteq D
  <2>1. ASSUME NEW s \in SUBSET S, \A y \in s : s \ {y} \in D, NEW y \in s
        PROVE  g[s] = f[y] + g[s \ {y}]
    <3> DEFINE p == Pick(s)
    <3>1. p \in s /\ g[s] = f[p] + g[s \ {p}]
      BY <1>1 DEF NextTotal, Pick
    <3> HIDE DEF p
    <3>2. CASE p = y
      BY <3>1, <3>2
    <3>3. CASE p # y
      <4>1. g[s \ {p}] = f[y] + g[(s \ {p}) \ {y}]
        BY <2>1, <3>1, <3>3
      <4>2. g[s \ {y}] = f[p] + g[(s \ {y}) \ {p}]
        BY <2>1, <3>1, <3>3
      <4>3. (s \ {p}) \ {y} = (s \ {y}) \ {p} /\ (s \ {y}) \ {p} \in SUBSET S
        OBVIOUS
      <4>4. f[p] \in Int /\ f[y] \in Int /\ g[(s \ {y}) \ {p}] \in Int
        BY <1>2, <3>1, <4>3
      <4> DEFINE rest == g[(s \ {y}) \ {p}]
      <4>5. g[(s \ {p}) \ {y}] = rest
        BY <4>3
      <4>6. g[s] = f[p] + (f[y] + rest) /\ g[s \ {y}] = f[p] + rest /\ rest \in Int
        BY <3>1, <4>1, <4>2, <4>4, <4>5
      <4> HIDE DEF rest
      <4> QED BY <4>4, <4>6
    <3> QED BY <3>2, <3>3
  <2>2. \A s \in SUBSET S : (\A y \in s : s \ {y} \in D) => s \in D
    BY <2>1
  <2> HIDE DEF D
  <2> QED BY <2>2, InductionOnSubsets
<1>4. g[S] = f[x] + g[S \ {x}]
  BY <1>3
<1> QED BY <1>4, TotalUnfolds, TotalOfSubset DEF g

\* The total depends on the values in S alone.
LEMMA TotalAgrees ==
  ASSUME NEW S, IsFiniteSet(S), NEW f, NEW g, \A x \in S : f[x] = g[x]
  PROVE  Total(f, S) = Total(g, S)
<1> DEFINE ff == TotalsOf(f, S)
           gg == TotalsOf(g, S)
           D == {s \in SUBSET S : ff[s] = gg[s]}
<1>1. \A s \in SUBSET S : ff[s] = NextTotal(f, ff, s) /\ gg[s] = NextTotal(g, gg, s)
  BY TotalsOfSubsets
<1> HIDE DEF ff, gg
<1>2. SUBSET S \subseteq D
  <2>1. ASSUME NEW s \in SUBSET S, \A y \in s : s \ {y} \in D
        PROVE  ff[s] = gg[s]
    <3>1. CASE s = {}
      BY <1>1, <3>1 DEF NextTotal
    <3>2. CASE s # {}
      <4>1. Pick(s) \in s
        BY <3>2 DEF Pick
      <4>2. ff[s \ {Pick(s)}] = gg[s \ {Pick(s)}] /\ f[Pick(s)] = g[Pick(s)]
        BY <2>1, <4>1
      <4> QED BY <1>1, <3>2, <4>2 DEF NextTotal
    <3> QED BY <3>1, <3>2
  <2>2. \A s \in SUBSET S : (\A y \in s : s \ {y} \in D) => s \in D
    BY <2>1
  <2> HIDE DEF D
  <2> QED BY <2>2, InductionOnSubsets
<1> QED BY <1>2, TotalUnfolds DEF ff, gg

\* Changing one value changes the total by the difference.
LEMMA TotalChanges ==
  ASSUME NEW S, IsFiniteSet(S), NEW f, NEW g, NEW x \in S,
         \A y \in S : f[y] \in Int, g[x] \in Int,
         \A y \in S \ {x} : g[y] = f[y]
  PROVE  Total(g, S) = Total(f, S) - f[x] + g[x]
<1>1. IsFiniteSet(S \ {x})
  BY FS_RemoveElement
<1>2. Total(g, S \ {x}) = Total(f, S \ {x})
  BY <1>1, TotalAgrees
<1>3. Total(f, S \ {x}) \in Int
  BY <1>1, TotalType
<1>4. /\ Total(f, S) = f[x] + Total(f, S \ {x})
      /\ Total(g, S) = g[x] + Total(g, S \ {x})
  BY TotalSplits
<1> QED BY <1>2, <1>3, <1>4

\* Zeros add up to zero.
LEMMA TotalOfZeros ==
  ASSUME NEW S, IsFiniteSet(S), NEW f, \A x \in S : f[x] = 0
  PROVE  Total(f, S) = 0
<1> DEFINE g == TotalsOf(f, S)
           D == {s \in SUBSET S : g[s] = 0}
<1>1. \A s \in SUBSET S : g[s] = NextTotal(f, g, s)
  BY TotalsOfSubsets
<1> HIDE DEF g
<1>2. SUBSET S \subseteq D
  <2>1. ASSUME NEW s \in SUBSET S, \A y \in s : s \ {y} \in D
        PROVE  g[s] = 0
    <3>1. CASE s = {}
      BY <1>1, <3>1 DEF NextTotal
    <3>2. CASE s # {}
      <4>1. Pick(s) \in s
        BY <3>2 DEF Pick
      <4>2. g[s \ {Pick(s)}] = 0 /\ f[Pick(s)] = 0
        BY <2>1, <4>1
      <4> QED BY <1>1, <3>2, <4>2 DEF NextTotal
    <3> QED BY <3>1, <3>2
  <2>2. \A s \in SUBSET S : (\A y \in s : s \ {y} \in D) => s \in D
    BY <2>1
  <2> HIDE DEF D
  <2> QED BY <2>2, InductionOnSubsets
<1> QED BY <1>2, TotalUnfolds DEF g

-----------------------------------------------------------------------------
(* Tokens are conserved.                                                   *)

\* The users' balances and the refunds have totals.
LEMMA Countable ==
  ASSUME RelayInv
  PROVE  /\ \A u \in User : balance[u] \in Int
         /\ \A p \in Pulse : refunds[p] \in Int
         /\ Total(balance, User) \in Int /\ Total(refunds, Pulse) \in Int
         /\ IsFiniteSet(Redeemed) /\ Cardinality(Redeemed) \in Nat
         /\ issued \in Int
<1>1. (\A u \in User : balance[u] \in Int) /\ \A p \in Pulse : refunds[p] \in Int
  BY DEF RelayInv, TypeOK
<1>2. Total(balance, User) \in Int /\ Total(refunds, Pulse) \in Int
  BY <1>1, RelayAssumption, TotalType
<1>3. IsFiniteSet(Redeemed)
  BY RelayAssumption, FS_Subset DEF Redeemed
<1>4. Cardinality(Redeemed) \in Nat
  BY <1>3, FS_CardinalityType
<1> QED BY <1>1, <1>2, <1>3, <1>4 DEF RelayInv, TypeOK

\* A credit or a debit of one user changes the total by as much.
LEMMA LedgerEntry ==
  ASSUME RelayInv, NEW u, u \in User, NEW n, n \in Int,
         balance' = [balance EXCEPT ![u] = @ + n]
  PROVE  Total(balance, User)' = Total(balance, User) + n
<1>1. /\ IsFiniteSet(User) /\ u \in User
      /\ \A v \in User : balance[v] \in Int
      /\ balance'[u] \in Int
      /\ \A v \in User \ {u} : balance'[v] = balance[v]
  BY RelayAssumption DEF RelayInv, TypeOK
<1>2. Total(balance', User) = Total(balance, User) - balance[u] + balance'[u]
  BY ONLY <1>1, TotalChanges
<1>3. balance'[u] = balance[u] + n
  BY DEF RelayInv, TypeOK
<1>4. Total(balance, User) \in Int /\ balance[u] \in Int
  BY Countable
<1> QED BY <1>2, <1>3, <1>4

\* A new row is paid for if it has an owner.
LEMMA InsertPays ==
  ASSUME RelayInv, NEW p \in Pulse, NEW m \in Machine,
         NEW u \in User \cup {NoUser}, Insert(p, m, u)
  PROVE  Cardinality(Redeemed)'
           = Cardinality(Redeemed) + IF u = NoUser THEN 0 ELSE 1
<1>1. p \notin Redeemed
  BY DEF Insert, NextPulseId, Redeemed
<1>2. Redeemed' = IF u = NoUser THEN Redeemed ELSE Redeemed \cup {p}
  BY DEF Insert, NextPulseId, Redeemed, RelayInv, TypeOK
<1>3. IsFiniteSet(Redeemed) /\ Cardinality(Redeemed) \in Nat
  BY Countable
<1>4. CASE u = NoUser
  BY <1>2, <1>3, <1>4
<1>5. CASE u # NoUser
  <2>1. Cardinality(Redeemed \cup {p}) = Cardinality(Redeemed) + 1
    BY <1>1, <1>3, FS_AddElement
  <2>2. Redeemed' = Redeemed \cup {p}
    BY <1>2, <1>5
  <2> QED BY <1>5, <2>1, <2>2
<1> QED BY <1>4, <1>5

\* A merge moves a balance.
LEMMA MergeMoves ==
  ASSUME RelayInv, NEW from, from \in User, NEW to, to \in User, Merge(from, to)
  PROVE  Total(balance, User)' = Total(balance, User) /\ Redeemed' = Redeemed
<1> DEFINE half == [balance EXCEPT ![to] = @ + balance[from]]
<1>1. /\ half[to] = balance[to] + balance[from] /\ half[from] = balance[from]
      /\ \A v \in User \ {to} : half[v] = balance[v]
      /\ balance'[from] = 0 /\ \A v \in User \ {from} : balance'[v] = half[v]
  BY DEF Merge, RelayInv, TypeOK
<1> HIDE DEF half
<1>2. /\ IsFiniteSet(User) /\ from \in User /\ to \in User
      /\ \A v \in User : balance[v] \in Int
  BY Countable, RelayAssumption
<1>3. half[to] \in Int /\ \A v \in User \ {to} : half[v] = balance[v]
  BY <1>1, <1>2
<1>4. /\ \A v \in User : half[v] \in Int
      /\ balance'[from] \in Int
      /\ \A v \in User \ {from} : balance'[v] = half[v]
  BY <1>1, <1>2
<1>5. Total(half, User) = Total(balance, User) - balance[to] + half[to]
  BY ONLY <1>2, <1>3, TotalChanges
<1>6. Total(balance', User) = Total(half, User) - half[from] + balance'[from]
  BY ONLY <1>2, <1>4, TotalChanges
<1>7. Total(balance, User) \in Int
  BY Countable
<1>8. Redeemed' = Redeemed
  BY RelayAssumption DEF Merge, Redeemed, RelayInv, TypeOK
<1> QED BY <1>1, <1>2, <1>5, <1>6, <1>7, <1>8

\* What neither the ledger nor the rows that are paid for change keeps it.
LEMMA RestConserves ==
  ASSUME TokensConserved, UNCHANGED <<balance, issued, refunds>>,
         Redeemed' = Redeemed
  PROVE  TokensConserved'
BY DEF TokensConserved

\* A refund is in the owner's balance and in the rows of refunds.
LEMMA RefundConserves ==
  ASSUME RelayInv, TokensConserved, Refund
  PROVE  TokensConserved'
<1>1. Redeemed' = Redeemed /\ UNCHANGED issued
  BY DEF Refund, pulses, Redeemed
<1>2. CASE UNCHANGED <<balance, refunds>>
  BY <1>1, <1>2, RestConserves
<1>3. CASE /\ snapUser[cur] \in users
           /\ balance' = [balance EXCEPT ![snapUser[cur]] = @ + 1]
           /\ refunds' = [refunds EXCEPT ![cur] = @ + 1]
  <2>1. cur \in Pulse /\ snapUser[cur] \in User
    BY <1>3 DEF Refund, RelayInv, TypeOK, DispatcherOK
  <2>2. Total(balance, User)' = Total(balance, User) + 1
    BY 1 \in Int, <1>3, <2>1, LedgerEntry
  <2>3. /\ refunds'[cur] = refunds[cur] + 1 /\ refunds[cur] \in Int
        /\ \A p \in Pulse \ {cur} : refunds'[p] = refunds[p]
    BY <1>3, <2>1 DEF RelayInv, TypeOK
  <2>4. IsFiniteSet(Pulse) /\ \A p \in Pulse : refunds[p] \in Int
    BY Countable, RelayAssumption
  <2>5. refunds'[cur] \in Int
    BY <2>3
  <2>6. Total(refunds', Pulse) = Total(refunds, Pulse) - refunds[cur] + refunds'[cur]
    BY <2>1, <2>3, <2>4, <2>5, TotalChanges
  <2> QED BY <1>1, <2>2, <2>3, <2>6, Countable DEF TokensConserved
<1> QED BY <1>2, <1>3 DEF Refund

\* The dispatcher's other steps decide pulses and charge nobody.
LEMMA OthersConserve ==
  ASSUME RelayInv, TokensConserved,
         \/ \E p \in Pulse : ResolveBinding(p) \/ BackoffElapses(p)
         \/ FetchPending \/ FirePulse \/ MarkSent \/ ReadMaxAttempts
         \/ MarkPendingRetry \/ MarkFailed \/ InsertAlert
         \/ StatementFails \/ Crash
         \/ \E u \in User : SignUp(u)
         \/ \E m \in Machine : SetActive(m) \/ Rebind(m) \/ GapElapses(m)
         \/ SetRelayMaxAttempts \/ AckAlert \/ UNCHANGED vars
  PROVE  TokensConserved'
<1>1. UNCHANGED <<balance, issued, refunds, owner>>
  BY DEF ResolveBinding, BackoffElapses, FetchPending, FirePulse, MarkSent,
     ReadMaxAttempts, MarkPendingRetry, MarkFailed, InsertAlert, StatementFails,
     Crash, SignUp, SetActive, Rebind, GapElapses, SetRelayMaxAttempts,
     AckAlert, vars, ledger, pulses
<1>2. \A p \in Pulse : state'[p] = "none" <=> state[p] = "none"
  <2>1. CASE UNCHANGED state
    BY <2>1
  <2>2. CASE MarkSent \/ MarkFailed
    BY <2>2 DEF MarkSent, MarkFailed, RelayInv, TypeOK, DispatcherOK
  <2> QED
    BY <2>1, <2>2 DEF ResolveBinding, BackoffElapses, FetchPending, FirePulse,
     ReadMaxAttempts, MarkPendingRetry, InsertAlert, StatementFails,
     Crash, SignUp, SetActive, Rebind, GapElapses, SetRelayMaxAttempts,
     AckAlert, vars, pulses
<1>3. Redeemed' = Redeemed
  BY <1>1, <1>2 DEF Redeemed
<1> QED BY <1>1, <1>3, RestConserves

\* Every step keeps it.
LEMMA NextConserves ==
  ASSUME RelayInv, TokensConserved, [Next]_vars
  PROVE  TokensConserved'
<1>1. ASSUME NEW u \in User, Purchase(u) \/ AdminAdjust(u)
      PROVE  TokensConserved'
  <2>1. PICK n \in Int : /\ balance' = [balance EXCEPT ![u] = @ + n]
                         /\ issued' = issued + n
    BY <1>1, RelayAssumption DEF Purchase, AdminAdjust
  <2>2. Total(balance, User)' = Total(balance, User) + n
    BY <2>1, LedgerEntry
  <2>3. Redeemed' = Redeemed /\ UNCHANGED refunds
    BY <1>1 DEF Purchase, AdminAdjust, pulses, Redeemed
  <2> QED BY <2>1, <2>2, <2>3, Countable DEF TokensConserved
<1>2. ASSUME NEW u \in User, NEW m \in Machine, Redeem(u, m)
      PROVE  TokensConserved'
  <2>1. PICK p \in Pulse : Insert(p, m, u)
    BY <1>2 DEF Redeem
  <2>2. Cardinality(Redeemed)' = Cardinality(Redeemed) + 1
    BY <2>1, InsertPays, RelayAssumption
  <2> DEFINE n == 0 - 1
  <2>3. balance[u] - 1 = balance[u] + n /\ n \in Int /\ n = -1
    BY Countable
  <2>4. balance' = [balance EXCEPT ![u] = @ + n]
    BY <1>2, <2>3, Zenon DEF Redeem
  <2> HIDE DEF n
  <2>5. Total(balance, User)' = Total(balance, User) + n /\ UNCHANGED <<issued, refunds>>
    BY <1>2, <2>3, <2>4, LedgerEntry DEF Redeem
  <2> QED BY <2>2, <2>3, <2>5, Countable DEF TokensConserved
<1>3. ASSUME NEW m \in Machine, QueueDirectPay(m)
      PROVE  TokensConserved'
  <2>1. PICK p \in Pulse : Insert(p, m, NoUser)
    BY <1>3 DEF QueueDirectPay
  <2>2. Cardinality(Redeemed)' = Cardinality(Redeemed)
    BY <2>1, InsertPays, Countable
  <2>3. UNCHANGED <<balance, issued, refunds>>
    BY <1>3 DEF QueueDirectPay, ledger
  <2> QED BY <2>2, <2>3 DEF TokensConserved
<1>4. ASSUME NEW from \in User, NEW to \in User, Merge(from, to)
      PROVE  TokensConserved'
  <2>1. UNCHANGED <<issued, refunds>>
    BY <1>4 DEF Merge
  <2> QED BY <1>4, <2>1, MergeMoves DEF TokensConserved
<1>5. CASE Refund
  BY <1>5, RefundConserves
<1> QED
  BY <1>1, <1>2, <1>3, <1>4, <1>5, OthersConserve
     DEF Next, Dispatch, Customer, Admin, Time

\* The users' tokens and the games they paid for add up to what was bought and
\* adjusted, for any number of users, pulses, merges, refunds and crashes.
THEOREM TokensConservedHolds == Spec => []TokensConserved
<1>1. Init => TokensConserved
  <2> SUFFICES ASSUME Init PROVE TokensConserved
    OBVIOUS
  <2>1. Total(balance, User) = 0 /\ Total(refunds, Pulse) = 0
    BY RelayAssumption, TotalOfZeros DEF Init
  <2>2. Redeemed = {}
    BY DEF Init, Redeemed
  <2> QED BY <2>1, <2>2, FS_EmptySet DEF TokensConserved, Init
<1>2. RelayInv /\ TokensConserved /\ [Next]_vars => TokensConserved'
  BY NextConserves
<1> QED BY <1>1, <1>2, RelayInvariant, PTL DEF Spec

=============================================================================
