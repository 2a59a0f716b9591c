----------------------------- MODULE ChainWatch -----------------------------
(***************************************************************************)
(* The chain watcher (internal/chain/corewatcher.go) and the node it polls.*)
(*                                                                         *)
(* One goroutine polls: it reads the persisted cursor, asks the node what  *)
(* happened since, sends every receipt and then every removal on a buffered*)
(* channel, waiting while the channel is full, and saves the node's last   *)
(* block as the new cursor.  The consumer takes from either channel.       *)
(*                                                                         *)
(* The node is not part of the repository.  It is modelled by what poll    *)
(* relies on: a tree of blocks with a best chain, and listsinceblock, which*)
(* answers with the unconfirmed payments, those mined on the best chain    *)
(* after it left the cursor's branch, those in the blocks it left, and its *)
(* tip.                                                                    *)
(*                                                                         *)
(* The ticker and the nudges of zmqnudge.go only decide when the idle      *)
(* watcher polls, so it may poll at any time.  A failed call to the node or*)
(* a failed read of the cursor changes nothing.                            *)
(***************************************************************************)
EXTENDS Integers, Sequences, FiniteSets

CONSTANTS
  Payment,     \* payments to watched addresses
  Block,       \* ids of blocks, mined in this order; 0 is genesis
  Cap,         \* capacity of each channel, 10 in the code
  MaxOutages   \* bound: restarts and failed saves in a behaviour

ASSUME WatchAssumption ==
  /\ Block \subseteq Nat \ {0} /\ IsFiniteSet(Block)
  /\ Cap \in Nat \ {0}
  /\ MaxOutages \in Nat

VARIABLES
  branch,      \* node: the blocks from genesis to a block, {} while unmined
  pays,        \* node: the payments a block contains
  tip,         \* node: the end of the best chain
  broadcast,   \* node: payments its wallet has seen
  cursor,      \* the setting chain_cursor, 0 for the empty string
  polling,     \* whether a poll is under way
  todo,        \* receipts it still has to send
  todoRemoved, \* removals it still has to send
  last,        \* the last block of the node's answer
  notifyCh, removedCh,   \* the channels
  passed,      \* history: blocks on the branch of some saved cursor
  heard, retracted,      \* history: what the consumer took off the channels
  lost, lostRemovals,    \* history: what a restart left in them
  outages      \* restarts and failed saves so far

node     == <<branch, pays, tip, broadcast>>
batch    == <<polling, todo, todoRemoved, last>>
channels == <<notifyCh, removedCh>>
taken    == <<heard, retracted>>
dropped  == <<lost, lostRemovals>>
watcher  == <<cursor, batch, channels, passed, taken, dropped, outages>>
vars     == <<node, watcher>>

\* A payment reported from a block, or unconfirmed (block 0).
Event == [pay : Payment, block : Block \cup {0}, conf : Int]

TypeOK ==
  /\ branch \in [Block \cup {0} -> SUBSET Block]
  /\ pays \in [Block -> SUBSET Payment]
  /\ tip \in Block \cup {0} /\ cursor \in Block \cup {0} /\ last \in Block \cup {0}
  /\ broadcast \subseteq Payment
  /\ polling \in BOOLEAN
  /\ todo \subseteq Event /\ todoRemoved \subseteq Event
  /\ notifyCh \in Seq(Event) /\ Len(notifyCh) <= Cap
  /\ removedCh \in Seq(Event) /\ Len(removedCh) <= Cap
  /\ passed \subseteq Block
  /\ heard \subseteq Event /\ retracted \subseteq Event
  /\ lost \subseteq Event /\ lostRemovals \subseteq Event
  /\ outages \in Nat

Init ==
  /\ branch = [b \in Block \cup {0} |-> {}]
  /\ pays = [b \in Block |-> {}]
  /\ tip = 0 /\ broadcast = {}
  /\ cursor = 0
  /\ polling = FALSE /\ todo = {} /\ todoRemoved = {} /\ last = 0
  /\ notifyCh = << >> /\ removedCh = << >>
  /\ passed = {}
  /\ heard = {} /\ retracted = {} /\ lost = {} /\ lostRemovals = {}
  /\ outages = 0

-----------------------------------------------------------------------------
(* The node.                                                               *)

Mined == {b \in Block : branch[b] # {}}
MinedOn(c) == UNION {pays[b] : b \in branch[c]}

Broadcast(p) ==
  /\ p \notin broadcast
  /\ broadcast' = broadcast \cup {p}
  /\ UNCHANGED <<branch, pays, tip, watcher>>

\* A block is mined on some earlier block.  The best chain is the longest one;
\* of two equally long ones the node keeps the one it saw first.
Mine(b, onto, ps) ==
  /\ b \notin Mined /\ \A c \in Block : c < b => c \in Mined
  /\ onto \in Mined \cup {0}
  /\ ps \subseteq broadcast \ MinedOn(onto)
  /\ branch' = [branch EXCEPT ![b] = branch[onto] \cup {b}]
  /\ pays' = [pays EXCEPT ![b] = ps]
  /\ tip' = IF Cardinality(branch[onto]) >= Cardinality(branch[tip]) THEN b ELSE tip
  /\ UNCHANGED <<broadcast, watcher>>

\* The confirmations of a payment in block b, 0 off the best chain.
Depth(b) == IF b \in branch[tip]
            THEN Cardinality(branch[tip]) - Cardinality(branch[b]) + 1 ELSE 0

\* ... of which there is at most one for each block.
Depths == 0..Cardinality(Block)

Mempool == {[pay |-> p, block |-> 0, conf |-> 0] : p \in broadcast \ MinedOn(tip)}

\* The payments in a set of blocks.
Report(p, b) == [pay |-> p, block |-> b, conf |-> Depth(b)]
Reports(blocks) == UNION {{Report(p, b) : p \in pays[b]} : b \in blocks}

\* Receipts and removals since a cursor.
Listed(from) == Mempool \cup Reports(branch[tip] \ branch[from])
Removed(from) == Reports(branch[from] \ branch[tip])

-----------------------------------------------------------------------------
(* The watcher: poll.                                                      *)

\* Read the cursor and list what happened since.
Poll ==
  /\ ~polling /\ polling' = TRUE
  /\ todo' = Listed(cursor)
  /\ todoRemoved' = Removed(cursor)
  /\ last' = tip
  /\ UNCHANGED <<node, cursor, channels, passed, taken, dropped, outages>>

\* Faulty: the send has a default case, and a full channel loses the event.
SendReceiptOrDrop(e) ==
  /\ polling /\ e \in todo
  /\ notifyCh' = IF Len(notifyCh) < Cap THEN Append(notifyCh, e) ELSE notifyCh
  /\ todo' = todo \ {e}
  /\ UNCHANGED <<node, cursor, polling, todoRemoved, last, removedCh, passed,
                 taken, dropped, outages>>

SendReceipt(e) ==
  /\ polling /\ e \in todo
  /\ Len(notifyCh) < Cap
  /\ notifyCh' = Append(notifyCh, e)
  /\ todo' = todo \ {e}
  /\ UNCHANGED <<node, cursor, polling, todoRemoved, last, removedCh, passed,
                 taken, dropped, outages>>

\* Faulty: likewise for removals.
SendRemovalOrDrop(e) ==
  /\ polling /\ todo = {} /\ e \in todoRemoved
  /\ removedCh' = IF Len(removedCh) < Cap THEN Append(removedCh, e) ELSE removedCh
  /\ todoRemoved' = todoRemoved \ {e}
  /\ UNCHANGED <<node, cursor, polling, todo, last, notifyCh, passed,
                 taken, dropped, outages>>

SendRemoval(e) ==
  /\ polling /\ todo = {} /\ e \in todoRemoved
  /\ Len(removedCh) < Cap
  /\ removedCh' = Append(removedCh, e)
  /\ todoRemoved' = todoRemoved \ {e}
  /\ UNCHANGED <<node, cursor, polling, todo, last, notifyCh, passed,
                 taken, dropped, outages>>

EndPoll == polling /\ todo = {} /\ todoRemoved = {} /\ polling' = FALSE

\* Faulty: the cursor moves to the node's best block at the time of saving.
SaveCursorAtTip ==
  /\ EndPoll
  /\ cursor' = tip
  /\ passed' = passed \cup branch[tip]
  /\ UNCHANGED <<node, todo, todoRemoved, last, channels, taken, dropped, outages>>

\* The cursor moves to the node's last block, in the answer it gave.
SaveCursor ==
  /\ EndPoll
  /\ cursor' = last
  /\ passed' = passed \cup branch[last]
  /\ UNCHANGED <<node, todo, todoRemoved, last, channels, taken, dropped, outages>>

\* The UPDATE fails; the poll returns its error, which is only logged.
SaveFails ==
  /\ EndPoll
  /\ outages < MaxOutages /\ outages' = outages + 1
  /\ UNCHANGED <<node, cursor, todo, todoRemoved, last, channels, passed,
                 taken, dropped>>

-----------------------------------------------------------------------------
(* The consumer, and the process.                                          *)

TakeReceipt ==
  /\ notifyCh # << >>
  /\ notifyCh' = Tail(notifyCh)
  /\ heard' = heard \cup {Head(notifyCh)}
  /\ UNCHANGED <<node, cursor, batch, removedCh, passed, retracted, dropped, outages>>

TakeRemoval ==
  /\ removedCh # << >>
  /\ removedCh' = Tail(removedCh)
  /\ retracted' = retracted \cup {Head(removedCh)}
  /\ UNCHANGED <<node, cursor, batch, notifyCh, passed, heard, dropped, outages>>

Elements(ch) == {ch[i] : i \in 1..Len(ch)}

\* The process ends and starts again: the settings table survives, the poll
\* under way and the channels do not.
Restart ==
  /\ outages < MaxOutages /\ outages' = outages + 1
  /\ polling' = FALSE /\ todo' = {} /\ todoRemoved' = {} /\ last' = 0
  /\ notifyCh' = << >> /\ removedCh' = << >>
  /\ lost' = lost \cup Elements(notifyCh)
  /\ lostRemovals' = lostRemovals \cup Elements(removedCh)
  /\ UNCHANGED <<node, cursor, passed, taken>>

-----------------------------------------------------------------------------
NodeStep ==
  \/ \E p \in Payment : Broadcast(p)
  \/ \E b \in Block, onto \in Block \cup {0}, ps \in SUBSET Payment : Mine(b, onto, ps)

WatcherStep ==
  \/ Poll \/ SaveCursor
  \/ \E e \in todo : SendReceipt(e)
  \/ \E e \in todoRemoved : SendRemoval(e)

Next == NodeStep \/ WatcherStep \/ TakeReceipt \/ TakeRemoval
        \/ SaveFails \/ Restart

Spec == Init /\ [][Next]_vars

\* The ticker fires again and again, the node answers, the goroutines run, and
\* the consumer returns to its select, which serves both channels in the end.
Fairness == /\ WF_vars(WatcherStep)
            /\ WF_vars(TakeReceipt) /\ WF_vars(TakeRemoval)
FairSpec == Spec /\ Fairness

-----------------------------------------------------------------------------
(* Properties.                                                             *)

\* What was sent on a channel, whether or not it was taken off it.
Sent == heard \cup lost \cup Elements(notifyCh)
SentRemovals == retracted \cup lostRemovals \cup Elements(removedCh)

Told(p, b, events) == \E e \in events : e.pay = p /\ e.block = b
AllTold(blocks, events) == \A b \in blocks : \A p \in pays[b] : Told(p, b, events)

\* Every payment in a block the saved cursor stands on was sent to the
\* consumer from that block: listsinceblock will not report it again.
NothingSkipped == AllTold(branch[cursor], Sent)

\* Every payment in a block that some saved cursor stood on, and that the
\* present one does not, was sent to the consumer as removed, whatever polls
\* failed or were cut off in between.
ReorgsReported == AllTold(passed \ branch[cursor], SentRemovals)

\* A payment is only reported as removed from a block after it was reported
\* from that block.
RemovedAfterReceived == \A e \in SentRemovals : Told(e.pay, e.block, Sent)

\* A payment in a block that stays on the best chain is reported from it,
\* unless a restart drops the report: full channels, failed saves and
\* interrupted polls only delay it.
MinedIsHeard ==
  \A p \in Payment, b \in Block :
    <>[](b \in branch[tip] /\ p \in pays[b]) =>
      <>Told(p, b, heard \cup lost)

=============================================================================
