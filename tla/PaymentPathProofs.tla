------------------------- MODULE PaymentPathProofs --------------------------
(***************************************************************************)
(* The composition keeps to both of its parts, for any number of payments, *)
(* blocks, faults and outages: towards the node it behaves like ChainWatch,*)
(* towards the store like Deposits.  What was proved of a part holds of the*)
(* whole.                                                                  *)
(***************************************************************************)
EXTENDS PaymentPath, TLAPS

\* The watcher's variables, as one tuple.
LEMMA WatchingUnchanged == UNCHANGED watching => UNCHANGED W!vars
BY DEF watching, W!vars, W!node, W!watcher, W!batch, W!channels, W!taken, W!dropped

\* The pipeline's variables, as one tuple.
LEMMA HandlingUnchanged == UNCHANGED handling => UNCHANGED D!vars
BY DEF handling, D!vars, D!config, D!accounts, D!issued, D!consumer

\* Every step of the composition is one of the watcher's or leaves it alone.
LEMMA WatcherSteps == [Next]_vars => [W!Next]_(W!vars)
<1> SUFFICES ASSUME [Next]_vars PROVE W!Next \/ UNCHANGED W!vars
  OBVIOUS
<1>1. CASE Chain \/ Watch
  BY <1>1 DEF Chain, Watch, W!Next
<1>2. CASE HandleReceipt \/ HandleRemoval
  BY <1>2 DEF HandleReceipt, HandleRemoval, W!Next
<1>3. CASE Failure \/ Restart
  BY <1>3, WatchingUnchanged DEF Failure, Restart, W!Next
<1>4. CASE Pipeline \/ (D!Admin /\ UNCHANGED watching) \/ \E d \in Deposit : ClaimAges(d)
  BY <1>4, WatchingUnchanged DEF Pipeline, ClaimAges
<1>5. CASE UNCHANGED vars
  BY <1>5, WatchingUnchanged DEF vars
<1>6. QED BY <1>1, <1>2, <1>3, <1>4, <1>5 DEF Next

\* The composition behaves like ChainWatch, so the watcher's guarantees hold
\* whatever the pipeline does between two events.
THEOREM ImplementsWatcher == Spec => W!Spec
<1>1. Init => W!Init
  BY DEF Init
<1>2. QED BY <1>1, WatcherSteps, PTL DEF Spec, W!Spec

\* What the watcher proves of its events: they are events, with a number of
\* confirmations the pipeline allows for.
LEMMA Watched == Spec => []W!IInv
<1>1. W!WatchAssumption
  BY PathAssumption DEF PathAssumption
<1>2. W!Spec => []W!IInv
  BY <1>1, W!Invariant
<1>3. QED BY <1>2, ImplementsWatcher, PTL

\* A receipt in the channel is one that Deposits allows for,
LEMMA ReceiptsAllowed ==
  ASSUME W!IInv, notifyCh # << >>
  PROVE  Head(notifyCh).pay \in Deposit /\ Head(notifyCh).conf \in Confirmations
<1>1. notifyCh \in Seq(W!Event)
  BY DEF W!IInv, W!TypeOK
<1>2. Head(notifyCh) \in W!Event /\ Head(notifyCh) \in W!Elements(notifyCh)
  <2>1. Head(notifyCh) = notifyCh[1] /\ 1 \in 1..Len(notifyCh) /\ Head(notifyCh) \in W!Event
    BY <1>1
  <2>2. QED BY <2>1 DEF W!Elements
<1>3. Head(notifyCh).conf \in W!Depths
  BY <1>2 DEF W!IInv, W!DepthsInv, W!Sent
<1>4. W!Depths \subseteq Confirmations
  BY PathAssumption DEF PathAssumption
<1>5. QED BY <1>2, <1>3, <1>4 DEF W!Event

\* ... and so is a removal.
LEMMA RemovalsAllowed ==
  ASSUME W!IInv, removedCh # << >>
  PROVE  Head(removedCh).pay \in Deposit
<1>1. removedCh \in Seq(W!Event)
  BY DEF W!IInv, W!TypeOK
<1>2. Head(removedCh) \in W!Event
  BY <1>1
<1>3. QED BY <1>2 DEF W!Event

\* Every step of the composition is one of the pipeline's or leaves it alone.
LEMMA PipelineSteps == W!IInv /\ [Next]_vars => [D!Next]_(D!vars)
<1> SUFFICES ASSUME W!IInv, [Next]_vars PROVE D!Next \/ UNCHANGED D!vars
  OBVIOUS
<1>1. CASE HandleReceipt
  <2>1. notifyCh # << >>
    BY <1>1 DEF HandleReceipt, W!TakeReceipt
  <2>2. QED BY <1>1, <2>1, ReceiptsAllowed, HandlingUnchanged
            DEF HandleReceipt, D!Next, D!Receive
<1>2. CASE HandleRemoval
  <2>1. removedCh # << >>
    BY <1>2 DEF HandleRemoval, W!TakeRemoval
  <2>2. QED BY <1>2, <2>1, RemovalsAllowed, HandlingUnchanged
            DEF HandleRemoval, D!Next, D!Receive
<1>3. CASE Failure \/ Restart
  BY <1>3, HandlingUnchanged DEF Failure, Restart, D!Next
<1>4. CASE Pipeline \/ (D!Admin /\ UNCHANGED watching) \/ \E d \in Deposit : ClaimAges(d)
  BY <1>4 DEF Pipeline, ClaimAges, D!Next
<1>5. CASE Chain \/ Watch
  BY <1>5, HandlingUnchanged DEF Chain, Watch
<1>6. CASE UNCHANGED vars
  BY <1>6, HandlingUnchanged DEF vars
<1>7. QED BY <1>1, <1>2, <1>3, <1>4, <1>5, <1>6 DEF Next

\* The watcher tells the pipeline nothing but what Deposits allows for: the
\* composition implements Deposits.
THEOREM ImplementsPipeline == Spec => PipelineSpec
<1>1. Init => D!Init
  BY DEF Init
<1>2. QED BY <1>1, PipelineSteps, Watched, PTL DEF Spec, PipelineSpec, D!Spec

\* A deposit is credited once but for interruptions, also when it is the
\* watcher that reports payments, removes them and reports them again.
THEOREM PathCreditsOnce == Spec => []D!NoDoubleCredit
<1>1. D!PipelineAssumption
  BY PathAssumption DEF PathAssumption
<1>2. D!Spec => []D!NoDoubleCredit
  BY <1>1, D!NoDoubleCreditHolds
<1>3. QED BY <1>2, ImplementsPipeline, PTL DEF PipelineSpec

\* Whatever the chain does and however the watcher comes to tell of it, the
\* tokens of a payment stay with the owner of its address, and no deposit that
\* was credited is orphaned unless the mark was lost.
THEOREM PathTokensStay ==
  Spec => /\ []D!TokensFollowOwner
          /\ []D!NoSilentClawback
          /\ D!TokensNeverTakenBack
<1>1. D!PipelineAssumption
  BY PathAssumption DEF PathAssumption
<1>2. D!Spec => []D!TokensFollowOwner
  BY <1>1, D!TokensFollowOwnerHolds
<1>3. D!Spec => []D!NoSilentClawback
  BY <1>1, D!NoSilentClawbackHolds
<1>4. D!Spec => D!TokensNeverTakenBack
  BY <1>1, D!TokensNeverTakenBackHolds
<1>5. QED BY <1>2, <1>3, <1>4, ImplementsPipeline, PTL DEF PipelineSpec

\* Seen from the chain, each payment runs through the lifecycle.
THEOREM PathImplementsLifecycle == Spec => D!LifecycleSpec
<1>1. D!PipelineAssumption
  BY PathAssumption DEF PathAssumption
<1>2. D!Spec => D!LifecycleSpec
  BY <1>1, D!ImplementsLifecycle
<1>3. QED BY <1>2, ImplementsPipeline, PTL DEF PipelineSpec

\* Handlers that take their time, fail or are stopped with the process never
\* make the saved cursor pass a payment or a removal that was not sent, nor a
\* removal be sent of a payment that was not.
THEOREM PathHears ==
  Spec => []W!NothingSkipped /\ []W!ReorgsReported /\ []W!RemovedAfterReceived
<1>1. W!WatchAssumption
  BY PathAssumption DEF PathAssumption
<1>2. W!Spec => []W!NothingSkipped
  BY <1>1, W!NothingSkippedHolds
<1>3. W!Spec => []W!ReorgsReported
  BY <1>1, W!ReorgsReportedHolds
<1>4. W!Spec => []W!RemovedAfterReceived
  BY <1>1, W!RemovedAfterReceivedHolds
<1>5. QED BY <1>2, <1>3, <1>4, ImplementsWatcher, PTL

-----------------------------------------------------------------------------
(* What is credited was confirmed.                                         *)

\* No setting allows to credit a payment without confirmations.
ConfirmedOnly == ZeroConfMax = {0} /\ 0 \notin MinConfirmations

\* The goroutine was told of d with as many confirmations as a threshold asks
\* for.
Reported(d) ==
  \E e \in heard, m \in MinConfirmations : e.pay = d /\ e.conf >= m

\* A handler before its first transaction knows a threshold and the report it
\* was started for.
InHand ==
  /\ pc \in {"zeroConf", "upsert"} =>
       /\ ev.minConf \in MinConfirmations
       /\ \E e \in heard : e.pay = ev.dep /\ e.conf = ev.conf
  /\ pc = "upsert" => ev.zeroConfMax = 0

\* A deposit is confirmed, and then granted, only after such a report.
ReportedFirst ==
  \A d \in Deposit : state[d] = "confirmed" \/ grants[d] > 0 => Reported(d)

\* What is told is not forgotten.
LEMMA HeardGrows == [Next]_vars => heard \subseteq heard'
<1>1. W!Next \/ UNCHANGED W!vars => heard \subseteq heard'
  BY DEF W!Next, W!NodeStep, W!Broadcast, W!Mine, W!WatcherStep, W!Poll, W!SaveCursor,
         W!SaveFails, W!SendReceipt, W!SendRemoval, W!TakeReceipt, W!TakeRemoval,
         W!Restart, W!vars, W!watcher, W!taken
<1>2. QED BY <1>1, WatcherSteps

\* Where the pipeline rests, what is known of it stays true.
LEMMA RestKeeps ==
  ASSUME InHand, ReportedFirst, heard \subseteq heard',
         UNCHANGED <<pc, ev, state, grants>>
  PROVE  InHand' /\ ReportedFirst'
BY DEF InHand, ReportedFirst, Reported

\* A receipt starts a handler that holds it.
LEMMA ReceiptKeeps ==
  ASSUME W!IInv, D!TypeOK, InHand, ReportedFirst, heard \subseteq heard', HandleReceipt
  PROVE  InHand' /\ ReportedFirst'
<1>1. CASE UNCHANGED handling
  BY <1>1, RestKeeps DEF handling
<1>2. CASE D!HandleEvent(Head(notifyCh).pay, Head(notifyCh).conf)
  <2>1. Head(notifyCh) \in heard' /\ notifyCh # << >>
    BY DEF HandleReceipt, W!TakeReceipt
  <2>2. /\ pc' = "zeroConf" /\ UNCHANGED <<state, grants>>
        /\ ev' = [D!NoEvent EXCEPT !.dep = Head(notifyCh).pay,
                     !.conf = Head(notifyCh).conf, !.minConf = settings.minConf]
    BY <1>2 DEF D!HandleEvent, D!issued
  <2>3. /\ ev'.dep = Head(notifyCh).pay /\ ev'.conf = Head(notifyCh).conf
        /\ ev'.minConf = settings.minConf
    BY <2>2 DEF D!NoEvent
  <2>4. settings.minConf \in MinConfirmations
    BY DEF D!TypeOK
  <2>5. QED BY <2>1, <2>2, <2>3, <2>4 DEF InHand, ReportedFirst, Reported
<1>3. QED BY <1>1, <1>2 DEF HandleReceipt

\* The first transaction confirms a deposit only if the report in hand meets
\* the threshold in hand.
LEMMA UpsertKeeps ==
  ASSUME ConfirmedOnly, D!PipelineInv, InHand, ReportedFirst, heard \subseteq heard',
         D!Upsert
  PROVE  InHand' /\ ReportedFirst'
<1>1. /\ pc = "upsert" /\ ev.dep \in Deposit /\ ev.zeroConfMax = 0
      /\ state' = [state EXCEPT ![ev.dep] = D!Advanced(state[ev.dep])]
      /\ pc' \in {"claim", "idle"} /\ UNCHANGED grants
  BY DEF D!Upsert, D!GoTo, D!Return, D!issued, D!PipelineInv, D!HandlerOK, InHand
<1>2. InHand'
  BY <1>1 DEF InHand
<1>3. ASSUME NEW d \in Deposit, state'[d] = "confirmed" \/ grants'[d] > 0
      PROVE  Reported(d)'
  <2>1. CASE state[d] = "confirmed" \/ grants[d] > 0
    BY <2>1 DEF ReportedFirst, Reported
  <2>2. CASE ~ (state[d] = "confirmed" \/ grants[d] > 0)
    <3>1. d = ev.dep /\ D!Confirmable
      BY <1>1, <1>3, <2>2 DEF D!Advanced, D!PipelineInv, D!TypeOK
    <3>2. ev.conf >= ev.minConf
      BY <1>1, <3>1 DEF D!Confirmable
    <3>3. QED BY <1>1, <3>1, <3>2 DEF InHand, Reported
  <2>3. QED BY <2>1, <2>2
<1>4. QED BY <1>2, <1>3 DEF ReportedFirst

\* Only the hook grants, and its deposit is confirmed.
LEMMA GrantKeeps ==
  ASSUME D!PipelineInv, InHand, ReportedFirst, heard \subseteq heard',
         D!CreditPurchase \/ D!QueueDirectPay
  PROVE  InHand' /\ ReportedFirst'
<1>1. /\ ev.dep \in Deposit /\ state[ev.dep] = "confirmed"
      /\ pc' \in {"mark", "release"} /\ UNCHANGED state
  BY DEF D!CreditPurchase, D!QueueDirectPay, D!GoTo, D!PipelineInv, D!HandlerOK,
         D!HookHoldsClaim, D!Hook, D!HookReads
<1>2. grants' \in {grants, [grants EXCEPT ![ev.dep] = @ + 1]}
  BY DEF D!CreditPurchase, D!QueueDirectPay
<1>3. \A d \in Deposit : grants'[d] > 0 => grants[d] > 0 \/ d = ev.dep
  BY <1>2 DEF D!PipelineInv, D!TypeOK
<1>4. QED BY <1>1, <1>3 DEF InHand, ReportedFirst, Reported

\* The other statements and the failures confirm and grant nothing.
LEMMA OtherKeeps ==
  ASSUME ConfirmedOnly, D!PipelineInv, InHand, ReportedFirst, heard \subseteq heard',
         \/ D!ReadZeroConfMax \/ D!ClaimForCrediting \/ D!ReadUser \/ D!ReadTokenPrice
         \/ D!ReadMachinePrice \/ D!MarkCredited \/ D!ReleaseClaim \/ D!OrphanDeposit
         \/ D!InsertReorgAlert \/ D!HookFails \/ D!Abandon
         \/ \E d \in Deposit : D!HandleReorg(d)
  PROVE  InHand' /\ ReportedFirst'
<1> USE DEF D!GoTo, D!Return, D!issued
<1>1. UNCHANGED grants
  BY DEF D!ReadZeroConfMax, D!ClaimForCrediting, D!ReadUser, D!ReadTokenPrice,
         D!ReadMachinePrice, D!MarkCredited, D!ReleaseClaim, D!OrphanDeposit,
         D!InsertReorgAlert, D!HookFails, D!Abandon, D!HandleReorg
<1>2. \A d \in Deposit : state'[d] = "confirmed" => state[d] = "confirmed"
  BY DEF D!ReadZeroConfMax, D!ClaimForCrediting, D!ReadUser, D!ReadTokenPrice,
         D!ReadMachinePrice, D!MarkCredited, D!ReleaseClaim, D!OrphanDeposit,
         D!InsertReorgAlert, D!HookFails, D!Abandon, D!HandleReorg,
         D!PipelineInv, D!TypeOK
<1>3. CASE D!ReadZeroConfMax
  <2>1. /\ pc = "zeroConf" /\ pc' = "upsert"
        /\ ev'.dep = ev.dep /\ ev'.conf = ev.conf /\ ev'.minConf = ev.minConf
        /\ ev'.zeroConfMax = settings.zeroConfMax
    BY <1>3 DEF D!ReadZeroConfMax, D!PipelineInv, D!TypeOK, D!Event
  <2>2. settings.zeroConfMax = 0
    BY DEF D!PipelineInv, D!TypeOK, ConfirmedOnly
  <2>3. InHand'
    BY <2>1, <2>2 DEF InHand
  <2>4. QED BY <1>1, <1>2, <2>3 DEF ReportedFirst, Reported
<1>4. CASE ~ D!ReadZeroConfMax
  <2>1. pc' \notin {"zeroConf", "upsert"}
    BY <1>4 DEF D!ClaimForCrediting, D!ReadUser, D!ReadTokenPrice,
         D!ReadMachinePrice, D!MarkCredited, D!ReleaseClaim, D!OrphanDeposit,
         D!InsertReorgAlert, D!HookFails, D!Abandon, D!HandleReorg
  <2>2. QED BY <1>1, <1>2, <2>1 DEF InHand, ReportedFirst, Reported
<1>5. QED BY <1>3, <1>4

\* What an administrator does moves no deposit.
LEMMA AdminKeeps ==
  ASSUME InHand, ReportedFirst, heard \subseteq heard',
         D!Admin \/ \E d \in Deposit : D!ClaimAges(d)
  PROVE  InHand' /\ ReportedFirst'
<1>1. UNCHANGED <<pc, ev, state, grants>>
  BY DEF D!Admin, D!ChangeSettings, D!SetDirectPay, D!AckAlert, D!Merge, D!SignUp,
         D!ClaimAges, D!issued, D!consumer
<1>2. QED BY <1>1, RestKeeps

\* Every step of the composition keeps it.
LEMMA ReportedStep ==
  ASSUME ConfirmedOnly, W!IInv, D!PipelineInv, InHand, ReportedFirst, [Next]_vars
  PROVE  InHand' /\ ReportedFirst'
<1>0. heard \subseteq heard' /\ D!TypeOK
  BY HeardGrows DEF D!PipelineInv
<1>1. CASE HandleReceipt
  BY <1>0, <1>1, ReceiptKeeps
<1>2. CASE HandleRemoval
  <2>1. CASE UNCHANGED handling
    BY <1>0, <2>1, RestKeeps DEF handling
  <2>2. CASE D!HandleReorg(Head(removedCh).pay)
    <3>1. Head(removedCh).pay \in Deposit
      BY <1>2, RemovalsAllowed DEF HandleRemoval, W!TakeRemoval
    <3>2. QED BY <1>0, <2>2, <3>1, OtherKeeps
  <2>3. QED BY <1>2, <2>1, <2>2 DEF HandleRemoval
<1>3. CASE Pipeline
  BY <1>0, <1>3, UpsertKeeps, GrantKeeps, OtherKeeps DEF Pipeline, D!Step
<1>4. CASE Failure \/ Restart \/ Chain \/ Watch \/ UNCHANGED vars
  <2>1. UNCHANGED handling \/ D!HookFails \/ D!Abandon
    BY <1>4 DEF Failure, Restart, Chain, Watch, vars
  <2>2. UNCHANGED handling => UNCHANGED <<pc, ev, state, grants>>
    BY DEF handling
  <2>3. QED BY <1>0, <2>1, <2>2, RestKeeps, OtherKeeps
<1>5. CASE (D!Admin /\ UNCHANGED watching) \/ \E d \in Deposit : ClaimAges(d)
  BY <1>0, <1>5, AdminKeeps DEF ClaimAges
<1>6. QED BY <1>1, <1>2, <1>3, <1>4, <1>5 DEF Next

\* What was proved of the two parts holds of the whole.
LEMMA PartsHold == Spec => [](W!IInv /\ W!MinedReports /\ D!PipelineInv)
<1>1. W!WatchAssumption /\ D!PipelineAssumption
  BY PathAssumption DEF PathAssumption
<1>2. W!Spec => []W!MinedReports
  BY <1>1, W!MinedReportsHold
<1>3. D!Spec => []D!PipelineInv
  BY <1>1, D!PipelineInvariant
<1>4. QED BY <1>2, <1>3, Watched, ImplementsWatcher, ImplementsPipeline, PTL
          DEF PipelineSpec

\* Where no setting allows to credit an unconfirmed payment, none is credited
\* that the node has not reported from a block with as many confirmations as a
\* threshold asks for: through reorganisations, restarts and settings that
\* change while a handler runs.
THEOREM CreditedWasConfirmedHolds == Spec => []CreditedWasConfirmed
<1> DEFINE Inv == ConfirmedOnly => InHand /\ ReportedFirst
<1>1. Init => Inv
  <2> SUFFICES ASSUME Init PROVE InHand /\ ReportedFirst
    OBVIOUS
  <2>1. pc = "idle" /\ \A d \in Deposit : state[d] = "none" /\ grants[d] = 0
    BY DEF Init, D!Init
  <2>2. QED BY <2>1 DEF InHand, ReportedFirst
<1>2. Inv /\ W!IInv /\ D!PipelineInv /\ [Next]_vars => Inv'
  BY ReportedStep DEF ConfirmedOnly
<1>3. Inv /\ W!IInv /\ W!MinedReports => CreditedWasConfirmed
  <2> SUFFICES ASSUME ConfirmedOnly, ReportedFirst, W!IInv, W!MinedReports,
                      NEW d \in Deposit, grants[d] > 0
               PROVE  \E e \in heard, m \in MinConfirmations :
                        e.pay = d /\ e.conf >= m /\ d \in pays[e.block]
    BY DEF CreditedWasConfirmed, ConfirmedOnly
  <2>1. PICK e \in heard, m \in MinConfirmations : e.pay = d /\ e.conf >= m
    BY DEF ReportedFirst, Reported
  <2>2. m \in Nat \ {0} /\ e.conf \in Int
    BY PathAssumption, <2>1 DEF PathAssumption, D!PipelineAssumption, ConfirmedOnly,
       W!IInv, W!TypeOK, W!Event
  <2>3. e \in W!Sent \cup todo /\ e.conf > 0
    BY <2>1, <2>2 DEF W!Sent
  <2>4. QED BY <2>1, <2>3 DEF W!MinedReports
<1>4. QED
  <2> HIDE DEF Inv
  <2>1. QED BY <1>1, <1>2, <1>3, PartsHold, PTL DEF Spec
=============================================================================
