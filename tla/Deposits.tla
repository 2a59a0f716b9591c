------------------------------ MODULE Deposits ------------------------------
(***************************************************************************)
(* The deposit pipeline (internal/services/deposit_pipeline.go) with the   *)
(* credit hook it runs (direct_pay.go, purchase.go) and the administrator's*)
(* actions that touch the same rows while it runs.                         *)
(*                                                                         *)
(* One goroutine consumes the watcher's events, so at most one handler is  *)
(* in progress.  A handler is a sequence of SQLite statements and          *)
(* transactions; each of them is atomic (the store has one connection) and *)
(* is one action here.  Web handlers run between any two of them.  A       *)
(* handler may stop at any of them: the process is killed, or the          *)
(* statement fails and the handler returns its error, which the caller     *)
(* only logs.                                                              *)
(*                                                                         *)
(* Left out, because nothing reads them back to decide anything: the       *)
(* columns confirmations, block_height, credited_at, remainder_koinu and   *)
(* the text of alerts.                                                     *)
(***************************************************************************)
EXTENDS Integers

CONSTANTS
  Deposit,          \* payment outputs (txid, vout)
  Address,          \* addresses the node watches
  Pool,             \* those that have a row in the addresses table
  Machine,          \* pinball machines
  User,             \* ids a row of the users table may have
  InitialUsers,     \* those in use at the start
  NoDeposit, NoUser, NoMachine,
  AddressOf,        \* the address an output pays
  Amount,           \* its amount_koinu
  MachineOf,        \* machine of a machine_direct address, else NoMachine
  InitialOwner,     \* addresses.user_id at the start, NoUser if NULL
  Retired,          \* addresses already in state 'retired'
  Confirmations,    \* the confirmation counts an event may carry
  MinConfirmations, \* values an administrator gives min_confirmations
  ZeroConfMax,      \* ... zero_conf_max_koinu
  TokenPrices,      \* ... token_price_koinu
  MachinePrices,    \* ... direct_play_price_koinu
  MaxCreditsPerTx,  \* direct_pay_max_credits_per_tx, 0 for no cap
  MaxFaults         \* bound: handlers interrupted or failed in a behaviour

ASSUME PipelineAssumption ==
  /\ Pool \subseteq Address
  /\ NoDeposit \notin Deposit /\ NoUser \notin User /\ NoMachine \notin Machine
  /\ User \subseteq Nat /\ InitialUsers \subseteq User
  /\ AddressOf \in [Deposit -> Address]
  /\ Amount \in [Deposit -> Nat]
  /\ MachineOf \in [Pool -> Machine \cup {NoMachine}]
  /\ InitialOwner \in [Pool -> User \cup {NoUser}]
  \* user_id is only ever set on token_deposit addresses ...
  /\ \A a \in Pool : MachineOf[a] # NoMachine => InitialOwner[a] = NoUser
  \* ... of which each user has at most one in state 'assigned'.
  /\ \A a, b \in Pool \ Retired :
       (InitialOwner[a] = InitialOwner[b] /\ InitialOwner[a] # NoUser) => a = b
  /\ Confirmations \subseteq Int
  /\ MinConfirmations \subseteq Nat /\ MinConfirmations # {}
  /\ ZeroConfMax \subseteq Nat /\ ZeroConfMax # {}
  /\ TokenPrices \subseteq Nat \ {0} /\ TokenPrices # {}
  /\ MachinePrices \subseteq Nat \ {0}
  /\ MaxCreditsPerTx \in Nat
  /\ MaxFaults \in Nat

VARIABLES
  settings,     \* the settings rows the pipeline reads
  price,        \* machines.direct_play_price_koinu, 0 for NULL
  users,        \* ids in the users table
  owner,        \* addresses.user_id
  strayed,      \* history: deposits whose hook held a user id that was reused
  state,        \* deposits.state, "none" while there is no row
  claim,        \* deposits.crediting_claimed_at: NULL, recent, or over 2 minutes old
  alerts,       \* deposits with an open deposit_reorged_after_credit alert
  tokens,       \* purchase rows of token_ledger: SUM(delta) by deposit and user
  pulses,       \* direct_pay credit_pulses queued for a deposit
  pc,           \* the statement the consumer goroutine executes next
  ev,           \* the event being handled and what was read for it
  grants,       \* history: hook transactions that issued something, by deposit
  interrupted,  \* history: those whose mark as 'credited' was lost
  faults        \* handlers interrupted or failed so far

consumer == <<pc, ev>>
config   == <<settings, price>>
accounts == <<users, owner, strayed>>
issued   == <<tokens, pulses, grants>>
vars == <<config, accounts, state, claim, alerts, issued, consumer,
          interrupted, faults>>

States == {"none", "seen", "confirmed", "credited", "orphaned"}
Claims == {"none", "fresh", "stale"}
HookReads == {"user", "tokenPrice", "purchase", "machinePrice", "directPay"}
Steps == {"idle", "zeroConf", "upsert", "claim", "mark", "release",
          "orphan", "alert"} \cup HookReads

\* What one handler knows; the fields it has not read yet are as in NoEvent.
Event == [dep : Deposit \cup {NoDeposit}, conf : Int, minConf : Nat,
          zeroConfMax : Nat, user : User \cup {NoUser}, price : Nat]
NoEvent == [dep |-> NoDeposit, conf |-> 0, minConf |-> 0, zeroConfMax |-> 0,
            user |-> NoUser, price |-> 0]

TypeOK ==
  /\ settings \in [minConf : MinConfirmations, zeroConfMax : ZeroConfMax,
                   tokenPrice : TokenPrices]
  /\ price \in [Machine -> MachinePrices \cup {0}]
  /\ users \subseteq User
  /\ owner \in [Pool -> User \cup {NoUser}]
  /\ strayed \subseteq Deposit
  /\ state \in [Deposit -> States]
  /\ claim \in [Deposit -> Claims]
  /\ alerts \subseteq Deposit
  /\ tokens \in [Deposit -> [User -> Nat]]
  /\ pulses \in [Deposit -> Nat]
  /\ pc \in Steps
  /\ ev \in Event
  /\ grants \in [Deposit -> Nat]
  /\ interrupted \in [Deposit -> Nat]
  /\ faults \in Nat

Init ==
  /\ settings \in [minConf : MinConfirmations, zeroConfMax : ZeroConfMax,
                   tokenPrice : TokenPrices]
  /\ price = [m \in Machine |-> 0]
  /\ users = InitialUsers
  /\ owner = InitialOwner
  /\ strayed = {}
  /\ state = [d \in Deposit |-> "none"]
  /\ claim = [d \in Deposit |-> "none"]
  /\ alerts = {}
  /\ tokens = [d \in Deposit |-> [u \in User |-> 0]]
  /\ pulses = [d \in Deposit |-> 0]
  /\ pc = "idle" /\ ev = NoEvent
  /\ grants = [d \in Deposit |-> 0]
  /\ interrupted = [d \in Deposit |-> 0]
  /\ faults = 0

-----------------------------------------------------------------------------
(* The consumer: HandleEvent and upsertAndAdvance.                         *)

Return == pc' = "idle" /\ ev' = NoEvent
GoTo(step) == pc' = step /\ UNCHANGED ev

\* An event is received.  An address without a row is not ours; otherwise the
\* handler starts by reading min_confirmations.
HandleEvent(d, conf) ==
  /\ pc = "idle"
  /\ AddressOf[d] \in Pool
  /\ pc' = "zeroConf"
  /\ ev' = [NoEvent EXCEPT !.dep = d, !.conf = conf, !.minConf = settings.minConf]
  /\ UNCHANGED <<config, accounts, state, claim, alerts, issued, interrupted, faults>>

ReadZeroConfMax ==
  /\ pc = "zeroConf"
  /\ pc' = "upsert"
  /\ ev' = [ev EXCEPT !.zeroConfMax = settings.zeroConfMax]
  /\ UNCHANGED <<config, accounts, state, claim, alerts, issued, interrupted, faults>>

\* Faulty: the next confirmation is counted already.
ConfirmableOneEarly ==
  \/ ev.conf + 1 >= ev.minConf
  \/ ev.zeroConfMax > 0 /\ Amount[ev.dep] <= ev.zeroConfMax

Confirmable ==
  \/ ev.conf >= ev.minConf
  \/ ev.zeroConfMax > 0 /\ Amount[ev.dep] <= ev.zeroConfMax

\* Faulty: a terminal state is not recognised and the row is advanced again.
AdvancedFromCredited(s) ==
  IF s \in {"none", "seen", "credited"}
  THEN IF Confirmable THEN "confirmed" ELSE "seen"
  ELSE s

\* Faulty: an orphaned deposit is taken for a new one when its payment is seen
\* again.
AdvancedFromOrphaned(s) ==
  LET found == IF s \in {"none", "orphaned"} THEN "seen" ELSE s
  IN  IF found = "seen" /\ Confirmable THEN "confirmed" ELSE found

\* The first transaction: insert the row if there is none, advance it to
\* 'confirmed' if the thresholds read earlier allow; 'credited' and 'orphaned'
\* are left alone.
Advanced(s) ==
  LET found == IF s = "none" THEN "seen" ELSE s
  IN  IF found = "seen" /\ Confirmable THEN "confirmed" ELSE found

Upsert ==
  /\ pc = "upsert"
  /\ state' = [state EXCEPT ![ev.dep] = Advanced(@)]
  /\ IF Advanced(state[ev.dep]) = "confirmed" THEN GoTo("claim") ELSE Return
  /\ UNCHANGED <<config, accounts, claim, alerts, issued, interrupted, faults>>

\* Faulty: a claim is never taken over.
ClaimableOnlyOnce(d) == state[d] = "confirmed" /\ claim[d] = "none"

\* UPDATE ... WHERE state = 'confirmed' AND (claim IS NULL OR claim is stale).
Claimable(d) == state[d] = "confirmed" /\ claim[d] \in {"none", "stale"}

\* With the claim taken the hook starts; it looks up the deposit's address,
\* whose purpose and machine decide how the deposit is credited.
ClaimForCrediting ==
  /\ pc = "claim"
  /\ IF Claimable(ev.dep)
     THEN /\ claim' = [claim EXCEPT ![ev.dep] = "fresh"]
          /\ GoTo(IF MachineOf[AddressOf[ev.dep]] # NoMachine
                  THEN "machinePrice" ELSE "user")
     ELSE Return /\ UNCHANGED claim
  /\ UNCHANGED <<config, accounts, state, alerts, issued, interrupted, faults>>

-----------------------------------------------------------------------------
(* The credit hook: token purchase.                                        *)

ReadUser ==
  /\ pc = "user"
  /\ pc' = "tokenPrice"
  /\ ev' = [ev EXCEPT !.user = owner[AddressOf[ev.dep]]]
  /\ UNCHANGED <<config, accounts, state, claim, alerts, issued, interrupted, faults>>

ReadTokenPrice ==
  /\ pc = "tokenPrice"
  /\ pc' = "purchase"
  /\ ev' = [ev EXCEPT !.price = settings.tokenPrice]
  /\ UNCHANGED <<config, accounts, state, claim, alerts, issued, interrupted, faults>>

Whole(d) == Amount[d] \div ev.price

\* Faulty: the ledger row is inserted without a foreign key on users.
CreditPurchaseUnchecked ==
  /\ pc = "purchase"
  /\ IF ev.user = NoUser \/ Whole(ev.dep) = 0
     THEN UNCHANGED <<tokens, grants>>
     ELSE /\ tokens' = [tokens EXCEPT ![ev.dep][ev.user] = @ + Whole(ev.dep)]
          /\ grants' = [grants EXCEPT ![ev.dep] = @ + 1]
  /\ GoTo("mark")
  /\ UNCHANGED <<config, accounts, state, claim, alerts, pulses, interrupted, faults>>

\* The hook's transaction.  The ledger row goes to the user read earlier; if
\* an administrator has merged that user away meanwhile, the foreign key
\* rejects it and the hook fails.
CreditPurchase ==
  /\ pc = "purchase"
  /\ IF ev.user = NoUser \/ Whole(ev.dep) = 0
     THEN GoTo("mark") /\ UNCHANGED <<tokens, grants>>
     ELSE IF ev.user \notin users
     THEN GoTo("release") /\ UNCHANGED <<tokens, grants>>
     ELSE /\ tokens' = [tokens EXCEPT ![ev.dep][ev.user] = @ + Whole(ev.dep)]
          /\ grants' = [grants EXCEPT ![ev.dep] = @ + 1]
          /\ GoTo("mark")
  /\ UNCHANGED <<config, accounts, state, claim, alerts, pulses, interrupted, faults>>

-----------------------------------------------------------------------------
(* The credit hook: payment straight to a machine.                         *)

\* A machine without a price leaves the deposit without credits, and the hook
\* succeeds.
ReadMachinePrice ==
  /\ pc = "machinePrice"
  /\ LET p == price[MachineOf[AddressOf[ev.dep]]]
     IN  /\ pc' = IF p = 0 THEN "mark" ELSE "directPay"
         /\ ev' = [ev EXCEPT !.price = p]
  /\ UNCHANGED <<config, accounts, state, claim, alerts, issued, interrupted, faults>>

Credits(d) ==
  IF MaxCreditsPerTx > 0 /\ Whole(d) > MaxCreditsPerTx
  THEN MaxCreditsPerTx ELSE Whole(d)

QueueDirectPay ==
  /\ pc = "directPay"
  /\ pulses' = [pulses EXCEPT ![ev.dep] = @ + Credits(ev.dep)]
  /\ grants' = IF Credits(ev.dep) > 0 THEN [grants EXCEPT ![ev.dep] = @ + 1]
                                      ELSE grants
  /\ GoTo("mark")
  /\ UNCHANGED <<config, accounts, state, claim, alerts, tokens, interrupted, faults>>

-----------------------------------------------------------------------------
(* After the hook.                                                         *)

\* The hook succeeded: UPDATE deposits SET state = 'credited', whatever the
\* state is by now.
MarkCredited ==
  /\ pc = "mark"
  /\ state' = [state EXCEPT ![ev.dep] = "credited"]
  /\ Return
  /\ UNCHANGED <<config, accounts, claim, alerts, issued, interrupted, faults>>

\* The hook failed: the claim is given up and the error returned.
ReleaseClaim ==
  /\ pc = "release"
  /\ claim' = [claim EXCEPT ![ev.dep] = "none"]
  /\ Return
  /\ UNCHANGED <<config, accounts, state, alerts, issued, interrupted, faults>>

\* Faulty: old claims are swept away, also those of a hook still running.
ClaimSwept(d) ==
  /\ claim[d] = "fresh"
  /\ claim' = [claim EXCEPT ![d] = "none"]
  /\ UNCHANGED <<config, accounts, state, alerts, issued, consumer, interrupted, faults>>

\* Time passes: crediting_claimed_at becomes more than two minutes old.
ClaimAges(d) ==
  /\ claim[d] = "fresh"
  /\ claim' = [claim EXCEPT ![d] = "stale"]
  /\ UNCHANGED <<config, accounts, state, alerts, issued, consumer, interrupted, faults>>

-----------------------------------------------------------------------------
(* The consumer: HandleReorg.                                              *)

\* Faulty: a credited deposit is orphaned like any other.
HandleReorgOrphansCredited(d) ==
  /\ pc = "idle"
  /\ state[d] \in {"seen", "confirmed", "credited"}
  /\ pc' = "orphan"
  /\ ev' = [NoEvent EXCEPT !.dep = d]
  /\ UNCHANGED <<config, accounts, state, claim, alerts, issued, interrupted, faults>>

\* The lookup; an unknown or an already orphaned deposit needs nothing.
HandleReorg(d) ==
  /\ pc = "idle"
  /\ state[d] \in {"seen", "confirmed", "credited"}
  /\ pc' = IF state[d] = "credited" THEN "alert" ELSE "orphan"
  /\ ev' = [NoEvent EXCEPT !.dep = d]
  /\ UNCHANGED <<config, accounts, state, claim, alerts, issued, interrupted, faults>>

OrphanDeposit ==
  /\ pc = "orphan"
  /\ state' = [state EXCEPT ![ev.dep] = "orphaned"]
  /\ Return
  /\ UNCHANGED <<config, accounts, claim, alerts, issued, interrupted, faults>>

\* Insert the alert unless an open one names this deposit already.
InsertReorgAlert ==
  /\ pc = "alert"
  /\ alerts' = alerts \cup {ev.dep}
  /\ Return
  /\ UNCHANGED <<config, accounts, state, claim, issued, interrupted, faults>>

-----------------------------------------------------------------------------
(* Failures.                                                               *)

\* A statement of the credit hook fails and its transaction is rolled back.
HookFails ==
  /\ pc \in HookReads
  /\ faults < MaxFaults /\ faults' = faults + 1
  /\ GoTo("release")
  /\ UNCHANGED <<config, accounts, state, claim, alerts, issued, interrupted>>

\* The process stops before the next statement, or that statement fails and
\* the handler returns its error.  Nothing is rolled back beyond it.
Abandon ==
  /\ pc # "idle"
  /\ faults < MaxFaults /\ faults' = faults + 1
  /\ interrupted' =
       IF pc = "mark" /\ grants[ev.dep] > interrupted[ev.dep]
       THEN [interrupted EXCEPT ![ev.dep] = @ + 1] ELSE interrupted
  /\ Return
  /\ UNCHANGED <<config, accounts, state, claim, alerts, issued>>

-----------------------------------------------------------------------------
(* The administrator, and new customers.                                   *)

\* The settings form writes one key per statement.
ChangeSettings ==
  /\ \/ \E v \in MinConfirmations : settings' = [settings EXCEPT !.minConf = v]
     \/ \E v \in ZeroConfMax : settings' = [settings EXCEPT !.zeroConfMax = v]
     \/ \E v \in TokenPrices : settings' = [settings EXCEPT !.tokenPrice = v]
  /\ UNCHANGED <<price, accounts, state, claim, alerts, issued, consumer, interrupted, faults>>

\* Enabling direct pay sets the price; disabling it leaves the price alone.
SetDirectPay(m) ==
  /\ \E v \in MachinePrices : price' = [price EXCEPT ![m] = v]
  /\ UNCHANGED <<settings, accounts, state, claim, alerts, issued, consumer, interrupted, faults>>

AckAlert(d) ==
  /\ d \in alerts
  /\ alerts' = alerts \ {d}
  /\ UNCHANGED <<config, accounts, state, claim, issued, consumer, interrupted, faults>>

Assigned(u) == {a \in Pool \ Retired : owner[a] = u}

\* Faulty: the addresses are moved and the ledger rows are not.
MergeForgetsLedger(from, to) ==
  /\ from # to
  /\ Assigned(from) = {} \/ Assigned(to) = {}
  /\ owner' = [a \in Pool |-> IF owner[a] = from THEN to ELSE owner[a]]
  /\ users' = users \ {from}
  /\ UNCHANGED <<config, strayed, state, claim, alerts, issued, consumer,
                 interrupted, faults>>

\* UsersService.Merge, one transaction: move the ledger rows and the addresses,
\* delete the user.  Nothing checks that either id is a user's: only the foreign
\* key of token_ledger rejects a missing target, and only if a row is moved to
\* it (rows of other kinds than 'purchase' are left out, so a few more merges
\* go through here).  Two assigned addresses cannot end up with one user
\* (idx_addresses_one_assigned_per_user).
Merge(from, to) ==
  /\ from # to
  /\ to \in users \/ \A d \in Deposit : tokens[d][from] = 0
  /\ Assigned(from) = {} \/ Assigned(to) = {}
  /\ tokens' = [d \in Deposit |->
                 [tokens[d] EXCEPT ![to] = @ + tokens[d][from], ![from] = 0]]
  /\ owner' = [a \in Pool |-> IF owner[a] = from THEN to ELSE owner[a]]
  /\ users' = users \ {from}
  /\ UNCHANGED <<config, strayed, state, claim, alerts, pulses, grants, consumer,
                 interrupted, faults>>

\* A customer signs in for the first time.  SQLite gives the row the id after
\* the highest in use: merging the newest user away frees its id, and nothing
\* stops a credit hook that still holds that id from crediting the newcomer.
NextUserId(u) ==
  /\ u \notin users
  /\ \A v \in users : v < u
  /\ \A v \in User : (\A w \in users : w < v) => u <= v

SignUp(u) ==
  /\ NextUserId(u)
  /\ users' = users \cup {u}
  /\ strayed' = IF pc \in {"tokenPrice", "purchase"} /\ ev.user = u
                THEN strayed \cup {ev.dep} ELSE strayed
  /\ UNCHANGED <<config, owner, state, claim, alerts, issued, consumer,
                 interrupted, faults>>

-----------------------------------------------------------------------------
\* The statements of the handler in progress, without failures.
Step ==
  \/ ReadZeroConfMax \/ Upsert \/ ClaimForCrediting
  \/ ReadUser \/ ReadTokenPrice \/ CreditPurchase
  \/ ReadMachinePrice \/ QueueDirectPay
  \/ MarkCredited \/ ReleaseClaim
  \/ OrphanDeposit \/ InsertReorgAlert

Receive == \E d \in Deposit :
             (\E c \in Confirmations : HandleEvent(d, c)) \/ HandleReorg(d)

Admin ==
  \/ ChangeSettings
  \/ \E m \in Machine : SetDirectPay(m)
  \/ \E d \in Deposit : AckAlert(d)
  \/ \E from, to \in User : Merge(from, to)
  \/ \E u \in User : SignUp(u)

Next ==
  \/ Receive \/ Step \/ HookFails \/ Abandon \/ Admin
  \/ \E d \in Deposit : ClaimAges(d)

Spec == Init /\ [][Next]_vars

\* The consumer goroutine is scheduled, and two minutes always pass.
Fairness == WF_vars(Step) /\ \A d \in Deposit : WF_vars(ClaimAges(d))
FairSpec == Spec /\ Fairness

-----------------------------------------------------------------------------
(* Properties.                                                             *)

Hook == HookReads \cup {"mark", "release"}

\* Every issue of tokens or credits for a deposit, except one, is explained by
\* an interruption between the hook's commit and the mark as 'credited': the
\* claim and the states let nothing else credit a deposit a second time.
NoDoubleCredit == \A d \in Deposit : grants[d] <= 1 + interrupted[d]

\* A deposit that has been credited is not orphaned by a later reorganisation
\* (it stays 'credited' and an alert is raised) unless the mark was lost.
NoSilentClawback ==
  \A d \in Deposit :
    state[d] = "orphaned" /\ grants[d] > 0 => interrupted[d] > 0

\* The tokens a payment bought belong to whoever owns its address now, and
\* that user exists, even when accounts are merged while the hook is between
\* its read of the address and its insert into the ledger.  The exception is a
\* hook whose user was merged away and whose user id went to a newcomer.
TokensFollowOwner ==
  \A d \in Deposit \ strayed, u \in User :
    tokens[d][u] > 0 => /\ AddressOf[d] \in Pool
                        /\ owner[AddressOf[d]] = u
                        /\ u \in users

\* While the credit hook runs for a deposit nothing else moves the deposit out
\* of 'confirmed' or gives up its claim.
HookHoldsClaim ==
  pc \in Hook => state[ev.dep] = "confirmed" /\ claim[ev.dep] # "none"

\* The pipeline as DepositLifecycle describes it.
Lifecycle == INSTANCE DepositLifecycle
LifecycleSpec == Lifecycle!Spec

\* What a payment bought is never taken back from the owner of its address,
\* neither by a merge nor by crediting or reorganising another time.
TokensNeverTakenBack ==
  [][\A d \in Deposit :
       LET a == AddressOf[d] IN
       a \in Pool /\ owner[a] # NoUser =>
         tokens'[d][owner'[a]] >= tokens[d][owner[a]]]_vars

\* A confirmed deposit does not stay confirmed as long as the watcher keeps
\* reporting it: a failed hook, a crash and a stale claim are all recovered
\* from by a later event.  The exception is an address whose user no longer
\* exists, where the hook fails for ever.
Redelivered(d) == \E c \in Confirmations : HandleEvent(d, c)
Ownerless(d) == AddressOf[d] \in Pool /\ owner[AddressOf[d]] \in User \ users
RedeliveredDepositsSettle ==
  \A d \in Deposit :
    []<><<Redelivered(d)>>_vars =>
      (state[d] = "confirmed" ~>
         state[d] \in {"credited", "orphaned"} \/ Ownerless(d))

\* What migration 0005 says of crediting_claimed_at: a redelivered event
\* cannot trigger crediting twice, also after the process crashed mid-credit.
CreditedOnce == \A d \in Deposit : grants[d] <= 1

=============================================================================
