---------------------------- MODULE PaymentPath -----------------------------
(***************************************************************************)
(* A payment's way from the chain to its credit: the watcher (ChainWatch), *)
(* the pipeline (Deposits) and the goroutine of cmdServe that hands the    *)
(* events of the one to the other (cmd/dogecade/main.go).                  *)
(*                                                                         *)
(* The goroutine waits for either channel of the watcher; when both hold   *)
(* an event select takes one at random.  It takes the next one when the    *)
(* handler has returned.  An error of the handler is only logged.          *)
(*                                                                         *)
(* The parts are taken with what is proved of them, so that both hold of   *)
(* the same W and D (PaymentPathProofs).                                   *)
(***************************************************************************)
EXTENDS Integers, Sequences

CONSTANTS
  \* of ChainWatch, whose payments are the deposits
  Block, Cap, MaxOutages,
  \* of Deposits
  Deposit, Address, Pool, Machine, User, InitialUsers, NoDeposit, NoUser,
  NoMachine, AddressOf, Amount, MachineOf, InitialOwner, Retired,
  Confirmations, MinConfirmations, ZeroConfMax, TokenPrices, MachinePrices,
  MaxCreditsPerTx, MaxFaults

VARIABLES
  \* of ChainWatch
  branch, pays, tip, broadcast, cursor, polling, todo, todoRemoved, last,
  notifyCh, removedCh, passed, heard, retracted, lost, lostRemovals, outages,
  \* of Deposits
  settings, price, users, owner, strayed, state, claim, alerts, tokens, pulses,
  pc, ev, grants, interrupted, faults

W == INSTANCE ChainWatchProofs WITH Payment <- Deposit
D == INSTANCE DepositsProofs

ASSUME PathAssumption ==
  /\ W!WatchAssumption
  /\ D!PipelineAssumption
  /\ W!Depths \subseteq Confirmations

watching == <<branch, pays, tip, broadcast, cursor, polling, todo, todoRemoved,
              last, notifyCh, removedCh, passed, heard, retracted, lost,
              lostRemovals, outages>>
handling == <<settings, price, users, owner, strayed, state, claim, alerts,
              tokens, pulses, pc, ev, grants, interrupted, faults>>
vars == <<watching, handling>>

Init == W!Init /\ D!Init

-----------------------------------------------------------------------------
\* Faulty: the event is handled at once, whatever handler is running.
HandleReceiptAtOnce ==
  /\ W!TakeReceipt
  /\ LET e == Head(notifyCh)
     IN  /\ AddressOf[e.pay] \in Pool
         /\ pc' = "zeroConf"
         /\ ev' = [D!NoEvent EXCEPT !.dep = e.pay, !.conf = e.conf,
                                    !.minConf = settings.minConf]
  /\ UNCHANGED <<settings, price, users, owner, strayed, state, claim, alerts,
                 tokens, pulses, grants, interrupted, faults>>

\* A receipt is handled by HandleEvent, which returns at once for an address
\* that has no row.
HandleReceipt ==
  /\ W!TakeReceipt
  /\ LET e == Head(notifyCh)
     IN  IF AddressOf[e.pay] \in Pool THEN D!HandleEvent(e.pay, e.conf)
         ELSE pc = "idle" /\ UNCHANGED handling

\* A removal is handled by HandleReorg, which returns at once for a deposit
\* that is unknown or already orphaned.
HandleRemoval ==
  /\ W!TakeRemoval
  /\ LET p == Head(removedCh).pay
     IN  IF state[p] \in {"none", "orphaned"} THEN pc = "idle" /\ UNCHANGED handling
         ELSE D!HandleReorg(p)

\* The process stops, with a handler at any of its statements, and starts again.
Restart ==
  /\ W!Restart
  /\ IF pc = "idle" THEN UNCHANGED handling ELSE D!Abandon

Chain == W!NodeStep /\ UNCHANGED handling
Watch == W!WatcherStep /\ UNCHANGED handling
Pipeline == D!Step /\ UNCHANGED watching
ClaimAges(d) == D!ClaimAges(d) /\ UNCHANGED watching

Failure ==
  \/ W!SaveFails /\ UNCHANGED handling
  \/ (D!HookFails \/ D!Abandon) /\ UNCHANGED watching

Next ==
  \/ Chain \/ Watch \/ HandleReceipt \/ HandleRemoval \/ Pipeline
  \/ Failure \/ Restart
  \/ D!Admin /\ UNCHANGED watching
  \/ \E d \in Deposit : ClaimAges(d)

Spec == Init /\ [][Next]_vars

\* As in the two parts: goroutines run, the ticker fires, time passes.  A
\* select that finds both channels ready again and again takes each of them.
Fairness ==
  /\ WF_vars(Watch) /\ WF_vars(Pipeline)
  /\ SF_vars(HandleReceipt) /\ SF_vars(HandleRemoval)
  /\ \A d \in Deposit : WF_vars(ClaimAges(d))
FairSpec == Spec /\ Fairness

-----------------------------------------------------------------------------
(* Properties.                                                             *)

Ours(d) == AddressOf[d] \in Pool
Settled(d) == state[d] \in {"credited", "orphaned"}
OnBestChain(d) == d \in W!MinedOn(tip)
Forgotten(d) == \E e \in lost : e.pay = d

\* Where no setting allows to credit an unconfirmed payment, none is credited
\* that the node has not reported from a block with as many confirmations as
\* the lowest threshold asks for.
CreditedWasConfirmed ==
  ZeroConfMax = {0} /\ 0 \notin MinConfirmations =>
    \A d \in Deposit : grants[d] > 0 =>
      \E e \in heard, m \in MinConfirmations :
        e.pay = d /\ e.conf >= m /\ d \in pays[e.block]

\* With one confirmation asked for, every payment to one of our addresses that
\* stays on the best chain is credited, unless it was reported as removed from
\* an earlier block first, a restart dropped its report, or its handler was
\* interrupted or failed: the watcher reports a mined payment once, and nothing
\* else comes back to it.
MinedIsSettled ==
  \A d \in Deposit : Ours(d) =>
    (<>[]OnBestChain(d) => <>(Settled(d) \/ Forgotten(d) \/ faults > 0))

\* The watcher tells the pipeline nothing but what Deposits allows for, so
\* whatever holds of Deposits by itself holds here.
PipelineSpec == D!Spec

\* What the design says of a threshold: the watcher emits updated events until
\* a deposit crosses it.
ThresholdIsReached ==
  \A d \in Deposit : Ours(d) =>
    (<>[](\E b \in branch[tip] : d \in pays[b] /\ W!Depth(b) >= settings.minConf)
       => <>(Settled(d) \/ Forgotten(d)))

\* What the design says of a reorganisation past the crediting threshold: it
\* raises an alert.
ReorgIsAlerted ==
  \A d \in Deposit :
    <>[](state[d] = "credited" /\ ~OnBestChain(d)) => <>(d \in alerts)

=============================================================================
