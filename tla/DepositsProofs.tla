--------------------------- MODULE DepositsProofs ---------------------------
(***************************************************************************)
(* Proofs about the deposit pipeline, for any deposits, addresses, users,  *)
(* settings and any number of faults: type correctness, at most one issue  *)
(* of credit per interruption, no silent clawback, tokens that follow the  *)
(* owner of the address, and refinement of DepositLifecycle.               *)
(***************************************************************************)
EXTENDS Deposits, TLAPS

-----------------------------------------------------------------------------
(* The inductive invariant.                                                *)

\* What a handler in progress knows: its deposit, that the deposit's address
\* is ours, a positive price once one is read, and the state that brought it
\* to its branch.
HandlerOK ==
  /\ pc # "idle" => ev.dep \in Deposit
  /\ pc \in {"zeroConf", "upsert", "claim"} \cup Hook => AddressOf[ev.dep] \in Pool
  /\ pc \in {"purchase", "directPay"} => ev.price > 0
  /\ pc \in {"machinePrice", "directPay"} => MachineOf[AddressOf[ev.dep]] # NoMachine
  /\ pc = "claim" => state[ev.dep] = "confirmed"
  /\ pc = "orphan" => state[ev.dep] \in {"seen", "confirmed"}

\* The consumer has run the hook of d and not yet marked d.
Marking(d) == pc = "mark" /\ ev.dep = d

\* Grants and interruptions agree, except for the one grant of a deposit that
\* is being marked or has been.
GrantBalance ==
  \A d \in Deposit :
    /\ grants[d] = interrupted[d] \/ grants[d] = interrupted[d] + 1
    /\ state[d] # "credited" /\ ~ Marking(d) => grants[d] = interrupted[d]

PipelineInv == TypeOK /\ HandlerOK /\ HookHoldsClaim /\ GrantBalance

-----------------------------------------------------------------------------
(* Facts about data the steps below use.                                   *)

\* What a payment buys at a price is a number of whole units.
LEMMA WholeIsNat ==
  ASSUME NEW a \in Nat, NEW p \in Nat, p > 0
  PROVE  a \div p \in Nat
  BY SMT

\* The handler that has read nothing.
LEMMA NoEventIsEvent == NoEvent \in Event
  BY DEF NoEvent, Event

\* The names of the statements a handler may be at.
LEMMA StatesAndSteps ==
  /\ HookReads \subseteq Steps /\ Hook \subseteq Steps
  /\ {"idle", "zeroConf", "upsert", "claim", "mark", "release",
      "orphan", "alert"} \subseteq Steps
  BY DEF HookReads, Hook, Steps

-----------------------------------------------------------------------------
(* Each action preserves the invariant.                                    *)

\* One lemma per action: the types, what the handler knows, the claim it holds
\* and the balance of grants survive the action.
LEMMA HandleEventInv ==
  ASSUME PipelineInv, NEW d \in Deposit, NEW c \in Confirmations, HandleEvent(d, c)
  PROVE  PipelineInv'
<1> USE DEF PipelineInv
<1>1. TypeOK'
  BY PipelineAssumption DEF TypeOK, HandleEvent, NoEvent, Event, config,
     accounts, issued, Steps
<1>2. HandlerOK'
  BY DEF HandlerOK, HandleEvent
<1>3. HookHoldsClaim'
  BY DEF HookHoldsClaim, HandleEvent, Hook, HookReads
<1>4. GrantBalance'
  BY DEF GrantBalance, Marking, HandleEvent, issued
<1> QED BY <1>1, <1>2, <1>3, <1>4

\* A claim of a handler that is gone may become stale.
LEMMA ClaimAgesInv ==
  ASSUME PipelineInv, NEW d \in Deposit, ClaimAges(d)
  PROVE  PipelineInv'
<1> USE DEF PipelineInv
<1>1. TypeOK'
  BY DEF TypeOK, ClaimAges, config, accounts, issued, consumer, Claims
<1>2. HandlerOK'
  BY DEF HandlerOK, ClaimAges, consumer
<1>3. HookHoldsClaim'
  BY DEF HookHoldsClaim, ClaimAges, consumer
<1>4. GrantBalance'
  BY DEF GrantBalance, Marking, ClaimAges, issued, consumer
<1> QED BY <1>1, <1>2, <1>3, <1>4

\* A removal starts a handler at a granted or an open deposit.
LEMMA HandleReorgInv ==
  ASSUME PipelineInv, NEW d \in Deposit, HandleReorg(d)
  PROVE  PipelineInv'
<1> USE DEF PipelineInv
<1>1. TypeOK'
  <2>1. pc' \in Steps
    BY StatesAndSteps DEF HandleReorg
  <2>2. ev' \in Event
    BY NoEventIsEvent DEF HandleReorg, Event
  <2> QED BY <2>1, <2>2 DEF TypeOK, HandleReorg, config, accounts, issued
<1>2. HandlerOK'
  BY DEF HandlerOK, HandleReorg, Hook, HookReads
<1>3. HookHoldsClaim'
  BY DEF HookHoldsClaim, HandleReorg, Hook, HookReads
<1>4. GrantBalance'
  BY DEF GrantBalance, Marking, HandleReorg, issued
<1> QED BY <1>1, <1>2, <1>3, <1>4

\* The second setting of an event is read.
LEMMA ReadZeroConfMaxInv ==
  ASSUME PipelineInv, ReadZeroConfMax
  PROVE  PipelineInv'
<1> USE DEF PipelineInv
<1>1. TypeOK'
  BY PipelineAssumption DEF TypeOK, ReadZeroConfMax, Event, config, accounts,
     issued, Steps
<1>2. HandlerOK'
  BY DEF HandlerOK, ReadZeroConfMax
<1>3. HookHoldsClaim'
  BY DEF HookHoldsClaim, ReadZeroConfMax, Hook, HookReads
<1>4. GrantBalance'
  BY DEF GrantBalance, Marking, ReadZeroConfMax, issued
<1> QED BY <1>1, <1>2, <1>3, <1>4

\* The first transaction inserts or advances a deposit that is not owed.
LEMMA UpsertInv ==
  ASSUME PipelineInv, Upsert
  PROVE  PipelineInv'
<1> USE DEF PipelineInv
<1>1. TypeOK'
  BY DEF TypeOK, HandlerOK, Upsert, Advanced, Return, GoTo, NoEvent, Event,
     config, accounts, issued, Steps, States
<1>2. HandlerOK'
  BY DEF TypeOK, HandlerOK, Upsert, Return, GoTo, Hook, HookReads
<1>3. HookHoldsClaim'
  BY DEF HookHoldsClaim, Upsert, Return, GoTo, Hook, HookReads
<1>4. GrantBalance'
  BY DEF GrantBalance, Marking, Upsert, Advanced, issued
<1> QED BY <1>1, <1>2, <1>3, <1>4

\* A claim is taken, or taken over from a handler that is gone.
LEMMA ClaimForCreditingInv ==
  ASSUME PipelineInv, ClaimForCrediting
  PROVE  PipelineInv'
<1> USE DEF PipelineInv
<1>1. TypeOK'
  <2>1. claim' \in [Deposit -> Claims] /\ ev' \in Event
    BY NoEventIsEvent DEF TypeOK, ClaimForCrediting, Return, GoTo, Claims
  <2>2. pc' \in Steps
    BY StatesAndSteps DEF ClaimForCrediting, Return, GoTo, HookReads
  <2> QED BY <2>1, <2>2 DEF TypeOK, ClaimForCrediting, config, accounts, issued
<1>2. HandlerOK'
  BY DEF HandlerOK, ClaimForCrediting, Return, GoTo, Hook, HookReads
<1>3. HookHoldsClaim'
  BY DEF TypeOK, HandlerOK, HookHoldsClaim, ClaimForCrediting, Return, GoTo,
     Hook, HookReads
<1>4. GrantBalance'
  BY DEF GrantBalance, Marking, ClaimForCrediting, issued
<1> QED BY <1>1, <1>2, <1>3, <1>4

\* The hook reads the address's owner.
LEMMA ReadUserInv ==
  ASSUME PipelineInv, ReadUser
  PROVE  PipelineInv'
<1> USE DEF PipelineInv
<1>1. TypeOK'
  BY DEF TypeOK, HandlerOK, ReadUser, Event, config, accounts, issued, Hook,
     HookReads, Steps
<1>2. HandlerOK'
  BY DEF HandlerOK, ReadUser, Hook, HookReads
<1>3. HookHoldsClaim'
  BY DEF HookHoldsClaim, ReadUser, Hook, HookReads
<1>4. GrantBalance'
  BY DEF GrantBalance, Marking, ReadUser, issued
<1> QED BY <1>1, <1>2, <1>3, <1>4

\* The hook reads the price.
LEMMA ReadTokenPriceInv ==
  ASSUME PipelineInv, ReadTokenPrice
  PROVE  PipelineInv'
<1> USE DEF PipelineInv
<1>1. TypeOK'
  BY PipelineAssumption DEF TypeOK, ReadTokenPrice, Event, config, accounts,
     issued, HookReads, Steps
<1>2. HandlerOK'
  BY PipelineAssumption DEF TypeOK, HandlerOK, ReadTokenPrice, Hook, Steps
<1>3. HookHoldsClaim'
  BY DEF HookHoldsClaim, ReadTokenPrice, Hook, HookReads
<1>4. GrantBalance'
  BY DEF GrantBalance, Marking, ReadTokenPrice, issued
<1> QED BY <1>1, <1>2, <1>3, <1>4

\* The hook's tokens are granted, and the mark is owed from then on.
LEMMA CreditPurchaseInv ==
  ASSUME PipelineInv, CreditPurchase
  PROVE  PipelineInv'
<1> USE DEF PipelineInv
<1>1. TypeOK'
  <2>1. pc' \in Steps /\ ev' = ev
    BY StatesAndSteps DEF CreditPurchase, GoTo
  <2>2. tokens' \in [Deposit -> [User -> Nat]] /\ grants' \in [Deposit -> Nat]
    <3>1. CASE tokens' = tokens /\ grants' = grants
      BY <3>1 DEF TypeOK
    <3>2. CASE /\ ev.user \in users
               /\ tokens' = [tokens EXCEPT ![ev.dep][ev.user] = @ + Whole(ev.dep)]
               /\ grants' = [grants EXCEPT ![ev.dep] = @ + 1]
      <4>1. ev.dep \in Deposit /\ Whole(ev.dep) \in Nat
        BY WholeIsNat, PipelineAssumption DEF CreditPurchase, TypeOK,
           HandlerOK, Event, Whole
      <4> QED BY <3>2, <4>1 DEF TypeOK
    <3> QED BY <3>1, <3>2 DEF CreditPurchase
  <2> QED BY <2>1, <2>2 DEF TypeOK, CreditPurchase, config, accounts
<1>2. HandlerOK'
  BY DEF HandlerOK, CreditPurchase, GoTo, Hook, HookReads
<1>3. HookHoldsClaim'
  BY DEF HookHoldsClaim, CreditPurchase, GoTo, Hook, HookReads
<1>4. GrantBalance'
  BY DEF TypeOK, HookHoldsClaim, GrantBalance, Marking, CreditPurchase, GoTo,
     Hook, Steps
<1> QED BY <1>1, <1>2, <1>3, <1>4

\* The direct-pay hook reads the machine's price.
LEMMA ReadMachinePriceInv ==
  ASSUME PipelineInv, ReadMachinePrice
  PROVE  PipelineInv'
<1> USE DEF PipelineInv
<1>1. TypeOK'
  <2>1. pc' \in Steps
    BY StatesAndSteps DEF ReadMachinePrice, HookReads
  <2>2. price[MachineOf[AddressOf[ev.dep]]] \in Nat
    BY PipelineAssumption DEF ReadMachinePrice, TypeOK, HandlerOK, Hook,
       HookReads
  <2>3. ev' \in Event
    BY <2>2 DEF TypeOK, ReadMachinePrice, Event
  <2> QED BY <2>1, <2>3 DEF TypeOK, ReadMachinePrice, config, accounts, issued
<1>2. HandlerOK'
  BY PipelineAssumption DEF TypeOK, HandlerOK, ReadMachinePrice, Hook, Steps
<1>3. HookHoldsClaim'
  BY DEF HookHoldsClaim, ReadMachinePrice, Hook, HookReads
<1>4. GrantBalance'
  BY DEF GrantBalance, Marking, ReadMachinePrice, issued
<1> QED BY <1>1, <1>2, <1>3, <1>4

\* The direct-pay hook's credits are granted and the mark is owed.
LEMMA QueueDirectPayInv ==
  ASSUME PipelineInv, QueueDirectPay
  PROVE  PipelineInv'
<1> USE DEF PipelineInv
<1>1. TypeOK'
  <2>1. pc' \in Steps /\ ev' = ev
    BY StatesAndSteps DEF QueueDirectPay, GoTo
  <2>2. ev.dep \in Deposit /\ Whole(ev.dep) \in Nat
    BY WholeIsNat, PipelineAssumption DEF QueueDirectPay, TypeOK, HandlerOK,
       Event, Whole
  <2>3. Credits(ev.dep) \in Nat
    BY <2>2, PipelineAssumption DEF Credits
  <2>4. pulses' \in [Deposit -> Nat] /\ grants' \in [Deposit -> Nat]
    BY <2>2, <2>3 DEF QueueDirectPay, TypeOK
  <2> QED BY <2>1, <2>4 DEF TypeOK, QueueDirectPay, config, accounts
<1>2. HandlerOK'
  BY DEF HandlerOK, QueueDirectPay, GoTo, Hook, HookReads
<1>3. HookHoldsClaim'
  BY DEF HookHoldsClaim, QueueDirectPay, GoTo, Hook, HookReads
<1>4. GrantBalance'
  BY DEF HookHoldsClaim, GrantBalance, Marking, QueueDirectPay, GoTo, Hook,
     HookReads
<1> QED BY <1>1, <1>2, <1>3, <1>4

\* The mark that was owed is made.
LEMMA MarkCreditedInv ==
  ASSUME PipelineInv, MarkCredited
  PROVE  PipelineInv'
<1> USE DEF PipelineInv
<1>1. TypeOK'
  BY DEF TypeOK, HandlerOK, MarkCredited, Return, NoEvent, Event, config,
     accounts, issued, Steps, States
<1>2. HandlerOK'
  BY DEF HandlerOK, MarkCredited, Return, Hook, HookReads
<1>3. HookHoldsClaim'
  BY DEF HookHoldsClaim, MarkCredited, Return, Hook, HookReads
<1>4. GrantBalance'
  BY DEF TypeOK, GrantBalance, Marking, MarkCredited, issued
<1> QED BY <1>1, <1>2, <1>3, <1>4

\* A hook that failed releases its claim.
LEMMA ReleaseClaimInv ==
  ASSUME PipelineInv, ReleaseClaim
  PROVE  PipelineInv'
<1> USE DEF PipelineInv
<1>1. TypeOK'
  BY DEF TypeOK, HandlerOK, ReleaseClaim, Return, NoEvent, Event, config,
     accounts, issued, Steps, Claims
<1>2. HandlerOK'
  BY DEF HandlerOK, ReleaseClaim, Return, Hook, HookReads
<1>3. HookHoldsClaim'
  BY DEF HookHoldsClaim, ReleaseClaim, Return, Hook, HookReads
<1>4. GrantBalance'
  BY DEF GrantBalance, Marking, ReleaseClaim, issued
<1> QED BY <1>1, <1>2, <1>3, <1>4

\* Only a deposit that is not credited is orphaned.
LEMMA OrphanDepositInv ==
  ASSUME PipelineInv, OrphanDeposit
  PROVE  PipelineInv'
<1> USE DEF PipelineInv
<1>1. TypeOK'
  BY DEF TypeOK, HandlerOK, OrphanDeposit, Return, NoEvent, Event, config,
     accounts, issued, Steps, States
<1>2. HandlerOK'
  BY DEF HandlerOK, OrphanDeposit, Return, Hook, HookReads
<1>3. HookHoldsClaim'
  BY DEF HookHoldsClaim, OrphanDeposit, Return, Hook, HookReads
<1>4. GrantBalance'
  BY DEF HandlerOK, GrantBalance, Marking, OrphanDeposit, issued
<1> QED BY <1>1, <1>2, <1>3, <1>4

\* The alert of a credited deposit's removal is inserted.
LEMMA InsertReorgAlertInv ==
  ASSUME PipelineInv, InsertReorgAlert
  PROVE  PipelineInv'
<1> USE DEF PipelineInv
<1>1. TypeOK'
  BY DEF TypeOK, HandlerOK, InsertReorgAlert, Return, NoEvent, Event, config,
     accounts, issued, Steps
<1>2. HandlerOK'
  BY DEF HandlerOK, InsertReorgAlert, Return, Hook, HookReads
<1>3. HookHoldsClaim'
  BY DEF HookHoldsClaim, InsertReorgAlert, Return, Hook, HookReads
<1>4. GrantBalance'
  BY DEF GrantBalance, Marking, InsertReorgAlert, issued
<1> QED BY <1>1, <1>2, <1>3, <1>4

\* A statement of the hook fails before it grants anything.
LEMMA HookFailsInv ==
  ASSUME PipelineInv, HookFails
  PROVE  PipelineInv'
<1> USE DEF PipelineInv
<1>1. TypeOK'
  BY DEF TypeOK, HookFails, GoTo, config, accounts, issued, Steps
<1>2. HandlerOK'
  BY DEF HandlerOK, HookFails, GoTo, Hook, HookReads
<1>3. HookHoldsClaim'
  BY DEF HookHoldsClaim, HookFails, GoTo, Hook
<1>4. GrantBalance'
  BY DEF GrantBalance, Marking, HookFails, issued, HookReads
<1> QED BY <1>1, <1>2, <1>3, <1>4

\* A handler that stops after a grant leaves one interruption to account for.
LEMMA AbandonInv ==
  ASSUME PipelineInv, Abandon
  PROVE  PipelineInv'
<1> USE DEF PipelineInv
<1>1. TypeOK'
  BY DEF TypeOK, HandlerOK, Abandon, Return, NoEvent, Event, config, accounts,
     issued, Steps
<1>2. HandlerOK'
  BY DEF HandlerOK, Abandon, Return, Hook, HookReads
<1>3. HookHoldsClaim'
  BY DEF HookHoldsClaim, Abandon, Return, Hook, HookReads
<1>4. GrantBalance'
  BY DEF TypeOK, GrantBalance, Marking, Abandon, issued
<1> QED BY <1>1, <1>2, <1>3, <1>4

-----------------------------------------------------------------------------
(* The administrator's actions leave the handler and the deposits alone.   *)

\* What an action that leaves the handler's variables alone keeps.
LEMMA Frame ==
  ASSUME PipelineInv, UNCHANGED <<state, claim, grants, interrupted, pc, ev>>
  PROVE  HandlerOK' /\ HookHoldsClaim' /\ GrantBalance'
  BY DEF PipelineInv, HandlerOK, HookHoldsClaim, GrantBalance, Marking

\* Moving one user's rows to another keeps the types.
LEMMA MergeType ==
  ASSUME TypeOK, NEW from \in User, NEW to \in User, Merge(from, to)
  PROVE  TypeOK'
<1>1. \A d \in Deposit : tokens'[d] \in [User -> Nat]
  BY DEF TypeOK, Merge
<1>2. tokens' \in [Deposit -> [User -> Nat]]
  BY <1>1 DEF Merge
<1>3. owner' \in [Pool -> User \cup {NoUser}] /\ users' \subseteq User
  BY DEF TypeOK, Merge
<1> QED BY <1>2, <1>3 DEF TypeOK, Merge, config, consumer

\* Settings, prices, acknowledgements, merges and sign-ups.
LEMMA AdminInv ==
  ASSUME PipelineInv, Admin
  PROVE  PipelineInv'
<1>1. CASE ChangeSettings
  <2>1. TypeOK'
    BY <1>1 DEF PipelineInv, TypeOK, ChangeSettings, accounts, issued, consumer
  <2> QED BY <1>1, <2>1, Frame DEF ChangeSettings, PipelineInv, issued, consumer
<1>2. ASSUME NEW m \in Machine, SetDirectPay(m) PROVE PipelineInv'
  <2>1. TypeOK'
    BY <1>2 DEF PipelineInv, TypeOK, SetDirectPay, accounts, issued, consumer
  <2> QED BY <1>2, <2>1, Frame DEF SetDirectPay, PipelineInv, issued, consumer
<1>3. ASSUME NEW d \in Deposit, AckAlert(d) PROVE PipelineInv'
  <2>1. TypeOK'
    BY <1>3 DEF PipelineInv, TypeOK, AckAlert, config, accounts, issued,
       consumer
  <2> QED BY <1>3, <2>1, Frame DEF AckAlert, PipelineInv, issued, consumer
<1>4. ASSUME NEW from \in User, NEW to \in User, Merge(from, to) PROVE PipelineInv'
  BY <1>4, MergeType, Frame DEF Merge, PipelineInv, consumer
<1>5. ASSUME NEW u \in User, SignUp(u) PROVE PipelineInv'
  <2>1. strayed' \subseteq Deposit /\ users' \subseteq User
    BY <1>5 DEF PipelineInv, TypeOK, HandlerOK, SignUp
  <2>2. TypeOK'
    BY <1>5, <2>1 DEF PipelineInv, TypeOK, SignUp, config, issued, consumer
  <2> QED BY <1>5, <2>2, Frame DEF SignUp, PipelineInv, issued, consumer
<1> QED BY <1>1, <1>2, <1>3, <1>4, <1>5 DEF Admin

-----------------------------------------------------------------------------
(* The invariant holds always.                                             *)

\* It holds at the start,
LEMMA InitInv == Init => PipelineInv
<1> SUFFICES ASSUME Init PROVE PipelineInv
  OBVIOUS
<1>1. TypeOK
  BY PipelineAssumption, NoEventIsEvent, StatesAndSteps DEF Init, TypeOK,
     States, Claims
<1>2. HandlerOK /\ HookHoldsClaim /\ GrantBalance
  BY DEF Init, HandlerOK, HookHoldsClaim, GrantBalance, Marking, Hook, HookReads
<1> QED BY <1>1, <1>2 DEF PipelineInv

\* and every step keeps it.
LEMMA NextInv == PipelineInv /\ [Next]_vars => PipelineInv'
<1> SUFFICES ASSUME PipelineInv, [Next]_vars PROVE PipelineInv'
  OBVIOUS
<1>1. CASE Receive
  BY <1>1, HandleEventInv, HandleReorgInv DEF Receive
<1>2. CASE Step
  BY <1>2, ReadZeroConfMaxInv, UpsertInv, ClaimForCreditingInv, ReadUserInv,
     ReadTokenPriceInv, CreditPurchaseInv, ReadMachinePriceInv,
     QueueDirectPayInv, MarkCreditedInv, ReleaseClaimInv, OrphanDepositInv,
     InsertReorgAlertInv DEF Step
<1>3. CASE HookFails \/ Abandon
  BY <1>3, HookFailsInv, AbandonInv
<1>4. CASE Admin
  BY <1>4, AdminInv
<1>5. CASE \E d \in Deposit : ClaimAges(d)
  BY <1>5, ClaimAgesInv
<1>6. CASE UNCHANGED vars
  <2>1. TypeOK'
    BY <1>6 DEF PipelineInv, TypeOK, vars, config, accounts, issued, consumer
  <2> QED BY <1>6, <2>1, Frame DEF PipelineInv, vars, issued, consumer
<1> QED BY <1>1, <1>2, <1>3, <1>4, <1>5, <1>6 DEF Next

\* Every reachable state satisfies the inductive invariant: the handler only
\* ever holds a deposit on one of our addresses, its hook runs under the claim,
\* and grants and interruptions balance.
THEOREM PipelineInvariant == Spec => []PipelineInv
  BY InitInv, NextInv, PTL DEF Spec

\* The variables keep their types whatever the settings, users and payments
\* are, for any number of interrupted handlers.
THEOREM TypeCorrectness == Spec => []TypeOK
<1>1. PipelineInv => TypeOK
  BY DEF PipelineInv
<1> QED BY <1>1, PipelineInvariant, PTL

\* A payment's tokens or credits are issued at most once more than the handler
\* was interrupted between issuing them and marking the deposit 'credited'.
THEOREM NoDoubleCreditHolds == Spec => []NoDoubleCredit
<1>1. PipelineInv => NoDoubleCredit
  <2> SUFFICES ASSUME PipelineInv, NEW d \in Deposit
               PROVE  grants[d] <= 1 + interrupted[d]
    BY DEF NoDoubleCredit
  <2>1. grants[d] \in Nat /\ interrupted[d] \in Nat
    BY DEF PipelineInv, TypeOK
  <2> QED BY <2>1 DEF PipelineInv, GrantBalance
<1> QED BY <1>1, PipelineInvariant, PTL

\* A deposit whose credit was issued is not orphaned by HandleReorg, unless the
\* handler was interrupted before marking it.
THEOREM NoSilentClawbackHolds == Spec => []NoSilentClawback
<1>1. PipelineInv => NoSilentClawback
  BY DEF PipelineInv, TypeOK, HandlerOK, HookHoldsClaim, GrantBalance, Marking,
         NoSilentClawback, Hook
<1> QED BY <1>1, PipelineInvariant, PTL

\* While the credit hook runs for a deposit it stays 'confirmed' and claimed.
THEOREM HookHoldsClaimAlways == Spec => []HookHoldsClaim
<1>1. PipelineInv => HookHoldsClaim
  BY DEF PipelineInv
<1> QED BY <1>1, PipelineInvariant, PTL

-----------------------------------------------------------------------------
(* Accounts: tokens follow the owner of the address.                       *)

\* A user the hook has read, and whose id is in use, still owns the address,
\* unless the id was given to a newcomer since.
ReadUserOwns ==
  pc \in {"tokenPrice", "purchase"} /\ ev.user \in users /\ ev.dep \notin strayed =>
    owner[AddressOf[ev.dep]] = ev.user

AccountsInv == TokensFollowOwner /\ ReadUserOwns

\* Nothing is owned through a payment yet.
LEMMA InitAccounts == Init => AccountsInv
  BY DEF Init, AccountsInv, TokensFollowOwner, ReadUserOwns

\* The one action that issues tokens.
LEMMA PurchaseAccounts ==
  ASSUME PipelineInv, AccountsInv, CreditPurchase
  PROVE  AccountsInv'
<1>1. ReadUserOwns'
  BY DEF CreditPurchase, ReadUserOwns, GoTo
<1>2. CASE tokens' = tokens
  BY <1>1, <1>2 DEF AccountsInv, TokensFollowOwner, CreditPurchase, accounts
<1>3. CASE /\ ev.user \in users
           /\ tokens' = [tokens EXCEPT ![ev.dep][ev.user] = @ + Whole(ev.dep)]
  <2>1. /\ ev.dep \in Deposit /\ AddressOf[ev.dep] \in Pool
        /\ ev.dep \notin strayed => owner[AddressOf[ev.dep]] = ev.user
    BY <1>3 DEF PipelineInv, HandlerOK, Hook, HookReads, AccountsInv,
                ReadUserOwns, CreditPurchase
  <2>2. ASSUME NEW d \in Deposit, NEW u \in User, <<d, u>> # <<ev.dep, ev.user>>
        PROVE  tokens'[d][u] = tokens[d][u]
    BY <1>3, <2>1, <2>2 DEF PipelineInv, TypeOK
  <2> QED BY <1>1, <1>3, <2>1, <2>2
          DEF AccountsInv, TokensFollowOwner, CreditPurchase, accounts
<1> QED BY <1>2, <1>3 DEF CreditPurchase

\* The one action that changes owners and users.
LEMMA MergeAccounts ==
  ASSUME PipelineInv, AccountsInv,
         NEW from \in User, NEW to \in User, Merge(from, to)
  PROVE  AccountsInv'
<1>1. ReadUserOwns'
  BY DEF PipelineInv, TypeOK, HandlerOK, Hook, HookReads, AccountsInv,
         ReadUserOwns, Merge, consumer
<1>2. TokensFollowOwner'
  <2> SUFFICES ASSUME NEW d \in Deposit, d \notin strayed,
                      NEW u \in User, tokens'[d][u] > 0
               PROVE  /\ AddressOf[d] \in Pool
                      /\ owner'[AddressOf[d]] = u
                      /\ u \in users'
    BY DEF TokensFollowOwner, Merge
  <2>1. tokens[d] \in [User -> Nat] /\ from # to
    BY DEF PipelineInv, TypeOK, Merge
  <2>2. CASE u = to
    <3>1. tokens[d][to] > 0 \/ tokens[d][from] > 0
      BY <2>1, <2>2 DEF Merge
    <3>2. to \in users
      BY <2>1, <3>1 DEF Merge, AccountsInv, TokensFollowOwner
    <3> QED BY <2>1, <2>2, <3>1, <3>2 DEF Merge, AccountsInv, TokensFollowOwner
  <2>3. CASE u = from
    BY <2>1, <2>3 DEF Merge
  <2>4. CASE u # to /\ u # from
    BY <2>1, <2>4 DEF Merge, AccountsInv, TokensFollowOwner
  <2> QED BY <2>2, <2>3, <2>4
<1> QED BY <1>1, <1>2 DEF AccountsInv

\* A sign-up that takes the id the hook holds is recorded as such.
LEMMA SignUpAccounts ==
  ASSUME PipelineInv, AccountsInv, NEW u \in User, SignUp(u)
  PROVE  AccountsInv'
<1>1. TokensFollowOwner'
  BY DEF AccountsInv, TokensFollowOwner, SignUp, issued
<1>2. ReadUserOwns'
  BY DEF AccountsInv, ReadUserOwns, SignUp, consumer
<1> QED BY <1>1, <1>2 DEF AccountsInv

\* Every other action that advances the handler keeps tokens and owners, and
\* hands on the user it has read or reads the owner now.
LEMMA NextAccounts == PipelineInv /\ AccountsInv /\ [Next]_vars => AccountsInv'
<1> SUFFICES ASSUME PipelineInv, AccountsInv, [Next]_vars PROVE AccountsInv'
  OBVIOUS
<1> USE DEF AccountsInv, TokensFollowOwner, ReadUserOwns, accounts, issued, consumer
<1>1. CASE Receive
  <2>1. ASSUME NEW d \in Deposit, NEW c \in Confirmations, HandleEvent(d, c)
        PROVE  AccountsInv'
    BY <2>1 DEF HandleEvent
  <2>2. ASSUME NEW d \in Deposit, HandleReorg(d)
        PROVE  AccountsInv'
    BY <2>2 DEF HandleReorg
  <2> QED BY <1>1, <2>1, <2>2 DEF Receive
<1>2. CASE Step
  <2>1. CASE CreditPurchase
    BY <2>1, PurchaseAccounts
  <2>2. CASE ReadUser
    BY <2>2 DEF ReadUser, PipelineInv, TypeOK, Event
  <2>3. CASE ReadTokenPrice
    BY <2>3 DEF ReadTokenPrice, PipelineInv, TypeOK, Event
  <2>4. CASE \/ ReadZeroConfMax \/ Upsert \/ ClaimForCrediting
             \/ ReadMachinePrice \/ QueueDirectPay \/ MarkCredited
             \/ ReleaseClaim \/ OrphanDeposit \/ InsertReorgAlert
    BY <2>4 DEF ReadZeroConfMax, Upsert, ClaimForCrediting, ReadMachinePrice,
                QueueDirectPay, MarkCredited, ReleaseClaim, OrphanDeposit,
                InsertReorgAlert, Return, GoTo
  <2> QED BY <1>2, <2>1, <2>2, <2>3, <2>4 DEF Step
<1>3. CASE HookFails \/ Abandon
  BY <1>3 DEF HookFails, Abandon, Return, GoTo
<1>4. CASE Admin
  <2>1. ASSUME NEW u \in User, SignUp(u) PROVE AccountsInv'
    BY <2>1, SignUpAccounts
  <2> QED BY <1>4, <2>1, MergeAccounts
          DEF Admin, ChangeSettings, SetDirectPay, AckAlert
<1>5. CASE \E d \in Deposit : ClaimAges(d)
  BY <1>5 DEF ClaimAges
<1>6. CASE UNCHANGED vars
  BY <1>6 DEF vars
<1> QED BY <1>1, <1>2, <1>3, <1>4, <1>5, <1>6 DEF Next

\* Tokens bought by a payment belong to the present owner of its address, who
\* exists, although the credit hook reads the owner in one statement and
\* inserts the ledger row in a later one.
THEOREM TokensFollowOwnerHolds == Spec => []TokensFollowOwner
<1>1. Spec => []AccountsInv
  BY InitAccounts, NextAccounts, PipelineInvariant, PTL DEF Spec
<1>2. AccountsInv => TokensFollowOwner
  BY DEF AccountsInv
<1> QED BY <1>1, <1>2, PTL

-----------------------------------------------------------------------------
(* The pipeline implements DepositLifecycle.                               *)

\* The pipeline starts where the lifecycle starts.
LEMMA InitRefines == Init => Lifecycle!Init
  BY DEF Init, Lifecycle!Init

\* The actions of the handler that change what the lifecycle shows.
LEMMA UpsertRefines ==
  ASSUME PipelineInv, Upsert
  PROVE  [Lifecycle!Next]_(Lifecycle!lifecycleVars)
<1> DEFINE d == ev.dep
<1>1. d \in Deposit /\ state[d] \in States
  BY DEF PipelineInv, HandlerOK, TypeOK, Upsert
<1>2. UNCHANGED <<grants, interrupted>>
  BY DEF Upsert, issued
<1>3. CASE Advanced(state[d]) = state[d]
  BY <1>1, <1>2, <1>3 DEF Upsert, PipelineInv, TypeOK, Lifecycle!lifecycleVars
<1>4. CASE state[d] = "none"
  BY <1>1, <1>2, <1>4 DEF Upsert, Advanced, Lifecycle!Appear, Lifecycle!Next
<1>5. CASE state[d] = "seen" /\ Confirmable
  BY <1>1, <1>2, <1>5 DEF Upsert, Advanced, Lifecycle!Confirm, Lifecycle!Next
<1> QED BY <1>1, <1>3, <1>4, <1>5 DEF Advanced, States

\* Crediting, when something is issued, is the lifecycle's Grant: the deposit
\* is claimed, and owes no mark.
LEMMA GrantRefines ==
  ASSUME PipelineInv, CreditPurchase \/ QueueDirectPay
  PROVE  [Lifecycle!Next]_(Lifecycle!lifecycleVars)
<1> DEFINE d == ev.dep
<1>1. /\ d \in Deposit /\ state[d] = "confirmed"
      /\ grants[d] \in Nat /\ interrupted[d] \in Nat /\ grants[d] = interrupted[d]
  BY DEF PipelineInv, HandlerOK, HookHoldsClaim, GrantBalance, Marking, TypeOK,
         Hook, HookReads, CreditPurchase, QueueDirectPay
<1>2. UNCHANGED <<state, interrupted>>
  BY DEF CreditPurchase, QueueDirectPay
<1>3. CASE grants' = grants
  BY <1>2, <1>3 DEF Lifecycle!lifecycleVars
<1>4. CASE grants' = [grants EXCEPT ![d] = @ + 1]
  <2>1. ~ Lifecycle!Owed(d)
    BY <1>1 DEF Lifecycle!Owed
  <2>2. Lifecycle!Grant(d)
    BY <1>1, <1>2, <1>4, <2>1 DEF Lifecycle!Grant
  <2> QED BY <1>1, <2>2 DEF Lifecycle!Next
<1> QED BY <1>3, <1>4 DEF CreditPurchase, QueueDirectPay

\* Marking happens in 'confirmed' only.
LEMMA MarkRefines ==
  ASSUME PipelineInv, MarkCredited
  PROVE  [Lifecycle!Next]_(Lifecycle!lifecycleVars)
<1>1. ev.dep \in Deposit /\ state[ev.dep] = "confirmed"
  BY DEF PipelineInv, HandlerOK, HookHoldsClaim, Hook, MarkCredited
<1> QED BY <1>1 DEF MarkCredited, issued, Lifecycle!MarkCredited, Lifecycle!Next

\* A deposit that is orphaned owes no mark.
LEMMA OrphanRefines ==
  ASSUME PipelineInv, OrphanDeposit
  PROVE  [Lifecycle!Next]_(Lifecycle!lifecycleVars)
<1>1. /\ ev.dep \in Deposit /\ state[ev.dep] \in {"seen", "confirmed"}
      /\ grants[ev.dep] \in Nat /\ grants[ev.dep] = interrupted[ev.dep]
  BY DEF PipelineInv, HandlerOK, GrantBalance, Marking, TypeOK, OrphanDeposit
<1>2. ~ Lifecycle!Owed(ev.dep)
  BY <1>1 DEF Lifecycle!Owed
<1>3. Lifecycle!Orphan(ev.dep)
  BY <1>1, <1>2 DEF OrphanDeposit, issued, Lifecycle!Orphan
<1> QED BY <1>1, <1>3 DEF Lifecycle!Next

\* Losing the mark is the lifecycle's Interrupt, any other stop a stutter.
LEMMA AbandonRefines ==
  ASSUME PipelineInv, Abandon
  PROVE  [Lifecycle!Next]_(Lifecycle!lifecycleVars)
<1>1. UNCHANGED <<state, grants>>
  BY DEF Abandon, issued
<1>2. CASE interrupted' = interrupted
  BY <1>1, <1>2 DEF Lifecycle!lifecycleVars
<1>3. CASE pc = "mark" /\ grants[ev.dep] > interrupted[ev.dep]
  <2>1. ev.dep \in Deposit /\ state[ev.dep] = "confirmed"
    BY <1>3 DEF PipelineInv, HandlerOK, HookHoldsClaim, Hook
  <2> QED BY <1>1, <1>3, <2>1
          DEF Abandon, Lifecycle!Interrupt, Lifecycle!Owed, Lifecycle!Next
<1> QED BY <1>2, <1>3 DEF Abandon

\* Every step of the pipeline is a step of the lifecycle or a stutter.
LEMMA NextRefines ==
  PipelineInv /\ [Next]_vars => [Lifecycle!Next]_(Lifecycle!lifecycleVars)
<1> SUFFICES ASSUME PipelineInv, [Next]_vars
             PROVE  [Lifecycle!Next]_(Lifecycle!lifecycleVars)
  OBVIOUS
<1>1. CASE UNCHANGED <<state, grants, interrupted>>
  BY <1>1 DEF Lifecycle!lifecycleVars
<1>2. CASE Upsert
  BY <1>2, UpsertRefines
<1>3. CASE CreditPurchase \/ QueueDirectPay
  BY <1>3, GrantRefines
<1>4. CASE MarkCredited
  BY <1>4, MarkRefines
<1>5. CASE OrphanDeposit
  BY <1>5, OrphanRefines
<1>6. CASE Abandon
  BY <1>6, AbandonRefines
<1>7. CASE \/ Receive \/ ReadZeroConfMax \/ ClaimForCrediting \/ ReadUser
           \/ ReadTokenPrice \/ ReadMachinePrice \/ ReleaseClaim
           \/ InsertReorgAlert \/ HookFails \/ Admin
           \/ \E d \in Deposit : ClaimAges(d)
           \/ UNCHANGED vars
  <2>1. UNCHANGED <<state, grants, interrupted>>
    BY <1>7 DEF Receive, HandleEvent, HandleReorg, ReadZeroConfMax,
       ClaimForCrediting, ReadUser, ReadTokenPrice, ReadMachinePrice,
       ReleaseClaim, InsertReorgAlert, HookFails, Admin, ChangeSettings,
       SetDirectPay, AckAlert, Merge, SignUp, ClaimAges, vars, issued
  <2> QED BY <2>1, <1>1
<1> QED BY <1>2, <1>3, <1>4, <1>5, <1>6, <1>7 DEF Next, Step

\* The pipeline, with its claims, hooks, settings, merges and failures, does
\* nothing the lifecycle does not allow.
THEOREM ImplementsLifecycle == Spec => LifecycleSpec
  BY InitRefines, NextRefines, PipelineInvariant, PTL
     DEF Spec, LifecycleSpec, Lifecycle!Spec

-----------------------------------------------------------------------------
(* Merging and crediting never take tokens back.                           *)

\* The tokens a payment bought, counted for the owner of its address, do not
\* shrink in any step: a merge moves both.
LEMMA NextKeepsTokens ==
  ASSUME PipelineInv, [Next]_vars, NEW d \in Deposit,
         AddressOf[d] \in Pool, owner[AddressOf[d]] # NoUser
  PROVE  tokens'[d][owner'[AddressOf[d]]] >= tokens[d][owner[AddressOf[d]]]
<1> DEFINE a == AddressOf[d]
<1>1. owner[a] \in User /\ tokens[d] \in [User -> Nat]
  BY DEF PipelineInv, TypeOK
<1>2. CASE UNCHANGED <<tokens, owner>>
  BY <1>1, <1>2
<1>3. CASE CreditPurchase
  <2>1. ev.dep \in Deposit /\ ev.price \in Nat /\ ev.price > 0
    BY <1>3 DEF PipelineInv, HandlerOK, TypeOK, Event, CreditPurchase
  <2>2. Whole(ev.dep) \in Nat
    BY <2>1, WholeIsNat, PipelineAssumption DEF Whole
  <2>3. owner' = owner
    BY <1>3 DEF CreditPurchase, accounts
  <2>4. tokens'[d][owner[a]] >= tokens[d][owner[a]]
    <3>1. CASE tokens' = tokens
      BY <1>1, <3>1
    <3>2. CASE /\ ev.user \in User
               /\ tokens' = [tokens EXCEPT ![ev.dep][ev.user] = @ + Whole(ev.dep)]
      <4>1. tokens \in [Deposit -> [User -> Nat]]
        BY DEF PipelineInv, TypeOK
      <4> QED BY <1>1, <2>1, <2>2, <3>2, <4>1
    <3> QED BY <1>3, <3>1, <3>2 DEF CreditPurchase, PipelineInv, TypeOK
  <2> QED BY <2>3, <2>4
<1>4. ASSUME NEW from \in User, NEW to \in User, Merge(from, to)
      PROVE  tokens'[d][owner'[a]] >= tokens[d][owner[a]]
  <2>1. from # to /\ owner'[a] = IF owner[a] = from THEN to ELSE owner[a]
    BY <1>4 DEF Merge
  <2>2. tokens'[d] = [tokens[d] EXCEPT ![to] = @ + tokens[d][from], ![from] = 0]
    BY <1>4 DEF Merge
  <2> QED BY <1>1, <2>1, <2>2
<1>5. CASE \/ Receive \/ ReadZeroConfMax \/ Upsert \/ ClaimForCrediting
           \/ ReadUser \/ ReadTokenPrice \/ ReadMachinePrice \/ QueueDirectPay
           \/ MarkCredited \/ ReleaseClaim \/ OrphanDeposit
           \/ InsertReorgAlert \/ HookFails \/ Abandon
           \/ ChangeSettings \/ (\E m \in Machine : SetDirectPay(m))
           \/ (\E e \in Deposit : AckAlert(e) \/ ClaimAges(e))
           \/ (\E u \in User : SignUp(u))
           \/ UNCHANGED vars
  <2>1. UNCHANGED <<tokens, owner>>
    BY <1>5 DEF Receive, HandleEvent, HandleReorg, ReadZeroConfMax, Upsert,
       ClaimForCrediting, ReadUser, ReadTokenPrice, ReadMachinePrice,
       QueueDirectPay, MarkCredited, ReleaseClaim, OrphanDeposit,
       InsertReorgAlert, HookFails, Abandon, ChangeSettings, SetDirectPay,
       AckAlert, SignUp, ClaimAges, vars, issued, accounts
  <2> QED BY <2>1, <1>2
<1> QED BY <1>3, <1>4, <1>5 DEF Next, Step, Admin

\* No step takes tokens away from the owner of the address they were paid to.
THEOREM TokensNeverTakenBackHolds == Spec => TokensNeverTakenBack
<1>1. PipelineInv /\ [Next]_vars =>
        [\A d \in Deposit :
           LET a == AddressOf[d] IN
           a \in Pool /\ owner[a] # NoUser =>
             tokens'[d][owner'[a]] >= tokens[d][owner[a]]]_vars
  BY NextKeepsTokens
<1> QED BY <1>1, PipelineInvariant, PTL DEF Spec, TokensNeverTakenBack

-----------------------------------------------------------------------------
(* What is missing for migration 0005's promise.                           *)

\* Nothing stops between the hook's commit and the mark as 'credited'.
NoMarkLost == [][~ (pc = "mark" /\ Abandon)]_vars

\* A statement that leaves the history of lost marks empty: every other one.
LEMMA OthersLoseNoMark ==
  ASSUME [Next]_vars, ~ (pc = "mark" /\ Abandon)
  PROVE  interrupted' = interrupted
<1>1. CASE Abandon
  BY <1>1 DEF Abandon
<1>2. CASE ~ Abandon
  BY <1>2 DEF Next, Step, Admin, Receive, HandleEvent, HandleReorg,
     ReadZeroConfMax, Upsert, ClaimForCrediting, ReadUser, ReadTokenPrice,
     CreditPurchase, ReadMachinePrice, QueueDirectPay, MarkCredited,
     ReleaseClaim, OrphanDeposit, InsertReorgAlert, HookFails, ChangeSettings,
     SetDirectPay, AckAlert, Merge, SignUp, ClaimAges, vars
<1> QED BY <1>1, <1>2

\* A deposit is credited once, whatever events are redelivered and wherever else
\* handlers stop or fail, stale claims are taken over and hooks run again: the
\* one thing the code cannot survive is a stop between the hook's commit and
\* the mark.  (Without the condition the claim of the migration does not hold.)
THEOREM CreditedOnceUnlessMarkLost == Spec /\ NoMarkLost => []CreditedOnce
<1> DEFINE NoneLost == \A d \in Deposit : interrupted[d] = 0
<1>1. Init => NoneLost
  BY DEF Init
<1>2. NoneLost /\ [Next]_vars /\ [~ (pc = "mark" /\ Abandon)]_vars => NoneLost'
  <2> SUFFICES ASSUME NoneLost, [Next]_vars, [~ (pc = "mark" /\ Abandon)]_vars
               PROVE  NoneLost'
    OBVIOUS
  <2>1. interrupted' = interrupted
    <3>1. CASE UNCHANGED vars
      BY <3>1 DEF vars
    <3>2. CASE ~ UNCHANGED vars
      BY <3>2, OthersLoseNoMark
    <3> QED BY <3>1, <3>2
  <2> QED BY <2>1
<1>3. NoneLost /\ NoDoubleCredit => CreditedOnce
  <2> SUFFICES ASSUME NoneLost, NoDoubleCredit, NEW d \in Deposit
               PROVE  grants[d] <= 1
    BY DEF CreditedOnce
  <2>1. grants[d] <= 1 + interrupted[d] /\ interrupted[d] = 0
    BY DEF NoDoubleCredit
  <2> QED BY <2>1
<1> QED
  <2> HIDE DEF NoneLost
  <2> QED BY <1>1, <1>2, <1>3, NoDoubleCreditHolds, PTL DEF Spec, NoMarkLost

=============================================================================
