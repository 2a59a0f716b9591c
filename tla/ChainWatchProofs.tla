-------------------------- MODULE ChainWatchProofs --------------------------
(***************************************************************************)
(* What the watcher guarantees, for any number of payments and blocks, any *)
(* capacity of the channels and any number of restarts and failed saves.   *)
(***************************************************************************)
EXTENDS ChainWatch, FiniteSetTheorems, TLAPS

\* The blocks the watcher refers to are mined, so what is on their branches no
\* longer changes.  A branch ends in its block and holds the branches of all
\* its blocks.
ChainInv ==
  /\ branch[0] = {}
  /\ \A b \in Block \cup {0} : branch[b] \subseteq Mined
  /\ \A b \in Mined : b \in branch[b] /\ \A c \in branch[b] : branch[c] \subseteq branch[b]
  /\ tip \in Mined \cup {0} /\ cursor \in Mined \cup {0} /\ last \in Mined \cup {0}
  /\ passed \subseteq Mined

\* What a poll under way has yet to send is all that is missing for the cursor
\* to move to the last block; and removals are of payments already sent.
BatchInv ==
  polling =>
    /\ AllTold(branch[last], Sent \cup todo)
    /\ AllTold(branch[cursor] \ branch[last], SentRemovals \cup todoRemoved)
    /\ \A e \in todoRemoved : Told(e.pay, e.block, Sent)

\* The confirmations of every report are those a best chain can give.
DepthsInv == \A e \in Sent \cup todo : e.conf \in Depths

IInv == /\ TypeOK /\ ChainInv /\ BatchInv /\ DepthsInv
        /\ NothingSkipped /\ ReorgsReported /\ RemovedAfterReceived

-----------------------------------------------------------------------------
(* The operators the invariant is built from.                              *)

\* Appending to a channel adds one event to it, taking the head removes at
\* most that one.
LEMMA ElementsAppend ==
  ASSUME NEW S, NEW ch \in Seq(S), NEW e \in S
  PROVE  Elements(Append(ch, e)) = Elements(ch) \cup {e}
BY DEF Elements

\* A queue holds its head and what is behind it.
LEMMA ElementsTail ==
  ASSUME NEW S, NEW ch \in Seq(S), ch # << >>
  PROVE  Elements(ch) = Elements(Tail(ch)) \cup {Head(ch)}
<1>1. \A i \in 1..Len(Tail(ch)) : Tail(ch)[i] = ch[i + 1] /\ i + 1 \in 1..Len(ch)
  OBVIOUS
<1>2. Head(ch) = ch[1] /\ 1 \in 1..Len(ch)
  OBVIOUS
<1>3. \A i \in 1..Len(ch) : i = 1 \/ (i - 1 \in 1..Len(Tail(ch)) /\ Tail(ch)[i - 1] = ch[i])
  OBVIOUS
<1>4. QED BY <1>1, <1>2, <1>3 DEF Elements

\* What a queue holds has the type of its elements.
LEMMA ElementsType ==
  ASSUME NEW S, NEW ch \in Seq(S)
  PROVE  Elements(ch) \subseteq S
BY DEF Elements

\* The depth of a block is a number.
LEMMA DepthType ==
  ASSUME TypeOK, NEW b \in Block
  PROVE  Depth(b) \in Int
<1>1. \A c \in Block \cup {0} : branch[c] \subseteq Block
  BY DEF TypeOK
<1>2. \A c \in Block \cup {0} : Cardinality(branch[c]) \in Nat
  BY <1>1, FS_Subset, FS_CardinalityType, WatchAssumption DEF WatchAssumption
<1>3. Cardinality(branch[tip]) \in Nat /\ Cardinality(branch[b]) \in Nat
  BY <1>2 DEF TypeOK
<1>4. QED BY <1>3 DEF Depth

\* A report is made of every payment in the blocks and of no other.
LEMMA ReportsOfBlocks ==
  ASSUME TypeOK, NEW blocks \in SUBSET Block
  PROVE  /\ Reports(blocks) \subseteq Event
         /\ AllTold(blocks, Reports(blocks))
         /\ \A e \in Reports(blocks) : e.block \in blocks /\ e.pay \in pays[e.block]
<1>1. \A b \in blocks : \A p \in pays[b] : Report(p, b) \in Event
  BY DepthType DEF TypeOK, Report, Event
<1>2. \A b \in blocks : \A p \in pays[b] : Report(p, b).pay = p /\ Report(p, b).block = b
  BY DEF Report
<1>3. \A e : e \in Reports(blocks) <=>
                 \E b \in blocks : \E p \in pays[b] : e = Report(p, b)
  BY DEF Reports
<1>4. QED BY <1>1, <1>2, <1>3 DEF AllTold, Told

\* A block of the best chain has at least one confirmation, and not more than
\* the chain is long.
LEMMA DepthBounds ==
  ASSUME TypeOK, ChainInv, NEW b \in Block
  PROVE  Depth(b) \in Depths
<1>1. \A c \in Block \cup {0} : branch[c] \subseteq Block
  BY DEF TypeOK
<1>2. IsFiniteSet(Block)
  BY WatchAssumption DEF WatchAssumption
<1>3. \A c \in Block \cup {0} :
        /\ IsFiniteSet(branch[c]) /\ Cardinality(branch[c]) \in Nat
        /\ Cardinality(branch[c]) <= Cardinality(Block)
  BY <1>1, <1>2, FS_Subset, FS_CardinalityType
<1>4. Cardinality(Block) \in Nat
  BY <1>2, FS_CardinalityType
<1>5. CASE b \notin branch[tip]
  BY <1>4, <1>5 DEF Depth, Depths
<1>6. CASE b \in branch[tip]
  <2>1. tip \in Mined /\ b \in Mined /\ b \in branch[b] /\ branch[b] \subseteq branch[tip]
    BY <1>6 DEF TypeOK, ChainInv
  <2>2. Cardinality(branch[b]) <= Cardinality(branch[tip])
    BY <1>3, <2>1, FS_Subset DEF Mined
  <2>3. Cardinality(branch[b]) # 0
    BY <1>3, <2>1, FS_EmptySet
  <2>4. Cardinality(branch[b]) \in Nat /\ Cardinality(branch[tip]) \in Nat
        /\ Cardinality(branch[tip]) <= Cardinality(Block)
    BY <1>3 DEF TypeOK
  <2>5. Cardinality(branch[tip]) - Cardinality(branch[b]) + 1 \in 0..Cardinality(Block)
    BY <1>4, <2>2, <2>3, <2>4
  <2>6. QED BY <1>6, <2>5 DEF Depth, Depths
<1>7. QED BY <1>5, <1>6

\* The node reports no depth beyond the number of blocks.
LEMMA ListedDepths ==
  ASSUME TypeOK, ChainInv
  PROVE  \A e \in Listed(cursor) : e.conf \in Depths
<1>1. \A e \in Mempool : e.conf \in Depths
  <2>1. Cardinality(Block) \in Nat
    BY FS_CardinalityType, WatchAssumption DEF WatchAssumption
  <2>2. QED BY <2>1 DEF Mempool, Depths
<1>2. \A b \in branch[tip] \ branch[cursor] : \A p \in pays[b] : Report(p, b).conf \in Depths
  BY DepthBounds DEF TypeOK, Report
<1>3. QED BY <1>1, <1>2 DEF Listed, Reports

\* What the node answers is made of events.
LEMMA ListedType ==
  ASSUME TypeOK
  PROVE  Listed(cursor) \subseteq Event /\ Removed(cursor) \subseteq Event
<1>1. branch[tip] \ branch[cursor] \in SUBSET Block /\ branch[cursor] \ branch[tip] \in SUBSET Block
  BY DEF TypeOK
<1>2. Mempool \subseteq Event
  BY DEF TypeOK, Mempool, Event
<1>3. QED BY <1>1, <1>2, ReportsOfBlocks DEF Listed, Removed

-----------------------------------------------------------------------------
(* Type correctness.                                                       *)

\* The types hold when the watcher is first started,
LEMMA InitType == Init => TypeOK
BY WatchAssumption DEF WatchAssumption, Init, TypeOK, Event

\* ... and after every step of the node, the watcher and the consumer.
LEMMA NextType == TypeOK /\ [Next]_vars => TypeOK'
<1> SUFFICES ASSUME TypeOK, [Next]_vars PROVE TypeOK'
  OBVIOUS
<1> USE DEF TypeOK
<1>1. ASSUME NEW p \in Payment, Broadcast(p) PROVE TypeOK'
  BY <1>1 DEF Broadcast, watcher, batch, channels, taken, dropped
<1>2. ASSUME NEW b \in Block, NEW onto \in Block \cup {0}, NEW ps \in SUBSET Payment,
             Mine(b, onto, ps)
      PROVE  TypeOK'
  BY <1>2 DEF Mine, watcher, batch, channels, taken, dropped
<1>3. CASE Poll
  BY <1>3, ListedType DEF Poll, node, channels, taken, dropped
<1>4. ASSUME NEW e \in todo, SendReceipt(e) PROVE TypeOK'
  <2>1. Append(notifyCh, e) \in Seq(Event) /\ Len(Append(notifyCh, e)) = Len(notifyCh) + 1
    OBVIOUS
  <2>2. QED BY <1>4, <2>1, WatchAssumption
            DEF WatchAssumption, SendReceipt, node, taken, dropped
<1>5. ASSUME NEW e \in todoRemoved, SendRemoval(e) PROVE TypeOK'
  <2>1. Append(removedCh, e) \in Seq(Event) /\ Len(Append(removedCh, e)) = Len(removedCh) + 1
    OBVIOUS
  <2>2. QED BY <1>5, <2>1, WatchAssumption
            DEF WatchAssumption, SendRemoval, node, taken, dropped
<1>6. CASE SaveCursor
  BY <1>6 DEF SaveCursor, EndPoll, node, channels, taken, dropped
<1>7. CASE SaveFails
  <2>1. outages' \in Nat
    BY <1>7 DEF SaveFails
  <2>2. QED BY <1>7, <2>1 DEF SaveFails, EndPoll, node, channels, taken, dropped
<1>8. CASE TakeReceipt
  <2>1. /\ Tail(notifyCh) \in Seq(Event) /\ Len(Tail(notifyCh)) = Len(notifyCh) - 1
        /\ Head(notifyCh) \in Event
    BY <1>8 DEF TakeReceipt
  <2>2. QED BY <1>8, <2>1, WatchAssumption
            DEF WatchAssumption, TakeReceipt, node, batch, dropped
<1>9. CASE TakeRemoval
  <2>1. /\ Tail(removedCh) \in Seq(Event) /\ Len(Tail(removedCh)) = Len(removedCh) - 1
        /\ Head(removedCh) \in Event
    BY <1>9 DEF TakeRemoval
  <2>2. QED BY <1>9, <2>1, WatchAssumption
            DEF WatchAssumption, TakeRemoval, node, batch, dropped
<1>10. CASE Restart
  BY <1>10, ElementsType, WatchAssumption DEF WatchAssumption, Restart, node, taken
<1>11. CASE UNCHANGED vars
  BY <1>11 DEF vars, node, watcher, batch, channels, taken, dropped
<1>12. QED
  BY <1>1, <1>2, <1>3, <1>4, <1>5, <1>6, <1>7, <1>8, <1>9, <1>10, <1>11
     DEF Next, NodeStep, WatcherStep

\* The variables of the watcher and the node keep their types; in particular
\* no channel ever holds more than it can.
THEOREM TypeCorrectness == Spec => []TypeOK
BY InitType, NextType, PTL DEF Spec

-----------------------------------------------------------------------------
(* The invariant.                                                          *)

\* Sending a receipt adds it to what was sent, and nothing is ever removed
\* from it: neither by taking it off the channel nor by a restart.
LEMMA SentReceipt ==
  ASSUME TypeOK, NEW e \in todo, SendReceipt(e)
  PROVE  Sent' = Sent \cup {e} /\ SentRemovals' = SentRemovals
<1>1. Elements(notifyCh') = Elements(notifyCh) \cup {e}
  BY ElementsAppend DEF TypeOK, SendReceipt
<1>2. UNCHANGED <<heard, retracted, lost, lostRemovals, removedCh>>
  BY DEF SendReceipt, taken, dropped
<1>3. QED BY <1>1, <1>2 DEF Sent, SentRemovals, Elements

\* A removal that was sent is counted as sent, and no receipt with it.
LEMMA SentRemoval ==
  ASSUME TypeOK, NEW e \in todoRemoved, SendRemoval(e)
  PROVE  Sent' = Sent /\ SentRemovals' = SentRemovals \cup {e}
<1>1. Elements(removedCh') = Elements(removedCh) \cup {e}
  BY ElementsAppend DEF TypeOK, SendRemoval
<1>2. UNCHANGED <<heard, retracted, lost, lostRemovals, notifyCh>>
  BY DEF SendRemoval, taken, dropped
<1>3. QED BY <1>1, <1>2 DEF Sent, SentRemovals, Elements

\* Taking from a channel and a restart leave what was sent as it is.
LEMMA SentKept ==
  ASSUME TypeOK, TakeReceipt \/ TakeRemoval \/ Restart \/ UNCHANGED <<channels, taken, dropped>>
  PROVE  Sent' = Sent /\ SentRemovals' = SentRemovals
<1>1. CASE TakeReceipt
  <2>1. Elements(notifyCh) = Elements(notifyCh') \cup {Head(notifyCh)}
    BY <1>1, ElementsTail DEF TypeOK, TakeReceipt
  <2>2. QED BY <1>1, <2>1 DEF TakeReceipt, dropped, Sent, SentRemovals, Elements
<1>2. CASE TakeRemoval
  <2>1. Elements(removedCh) = Elements(removedCh') \cup {Head(removedCh)}
    BY <1>2, ElementsTail DEF TypeOK, TakeRemoval
  <2>2. QED BY <1>2, <2>1 DEF TakeRemoval, dropped, Sent, SentRemovals, Elements
<1>3. CASE Restart
  <2>1. Elements(notifyCh') = {} /\ Elements(removedCh') = {}
    BY <1>3 DEF Restart, Elements
  <2>2. QED BY <1>3, <2>1 DEF Restart, taken, Sent, SentRemovals
<1>4. CASE UNCHANGED <<channels, taken, dropped>>
  BY <1>4 DEF channels, taken, dropped, Sent, SentRemovals, Elements
<1>5. QED BY <1>1, <1>2, <1>3, <1>4

\* The invariant holds at the first start.
LEMMA InitInv == Init => IInv
<1> SUFFICES ASSUME Init PROVE IInv
  OBVIOUS
<1>0. Elements(notifyCh) = {}
  BY DEF Init, Elements
<1>1. TypeOK
  BY InitType
<1>2. branch = [b \in Block \cup {0} |-> {}] /\ Elements(removedCh) = {}
  BY DEF Init, Elements
<1>3. QED
  BY <1>1, <1>2, <1>0 DEF Init, IInv, ChainInv, BatchInv, DepthsInv, Sent, NothingSkipped, ReorgsReported,
     RemovedAfterReceived, AllTold, SentRemovals, Mined

\* A step of the node: a new block ends a branch of its own.
LEMMA NodeInv == IInv /\ NodeStep => IInv'
<1> SUFFICES ASSUME IInv, NodeStep PROVE IInv'
  OBVIOUS
<1>1. TypeOK'
  BY NextType DEF IInv, Next
<1>2. UNCHANGED watcher
  BY DEF NodeStep, Broadcast, Mine
<1>3. /\ Mined \subseteq Mined'
      /\ \A c \in Mined \cup {0} : branch'[c] = branch[c]
      /\ \A c \in Mined : pays'[c] = pays[c]
      /\ ChainInv'
  <2>1. CASE \E p \in Payment : Broadcast(p)
    BY <2>1, <1>2 DEF IInv, ChainInv, Broadcast, Mined, watcher, batch
  <2>2. ASSUME NEW b \in Block, NEW onto \in Block \cup {0}, NEW ps \in SUBSET Payment,
               Mine(b, onto, ps)
        PROVE  <1>3!1 /\ <1>3!2 /\ <1>3!3 /\ <1>3!4
    <3>1. /\ b # 0 /\ b \notin Mined /\ onto \in Mined \cup {0}
          /\ branch' = [branch EXCEPT ![b] = branch[onto] \cup {b}]
          /\ pays' = [pays EXCEPT ![b] = ps]
          /\ tip' \in {b, tip}
      BY <2>2, WatchAssumption DEF WatchAssumption, Mine
    <3>2. /\ branch \in [Block \cup {0} -> SUBSET Block]
          /\ pays \in [Block -> SUBSET Payment]
      BY DEF IInv, TypeOK
    <3>3. Mined' = Mined \cup {b}
      BY <3>1, <3>2 DEF Mined
    <3>4. \A c \in Block \cup {0} :
            branch'[c] = IF c = b THEN branch[onto] \cup {b} ELSE branch[c]
      BY <3>1, <3>2
    <3>5. ChainInv'
      <4>1. \A c \in Block \cup {0} : branch[c] \subseteq Mined /\ b \notin branch[c]
        BY <3>1 DEF IInv, ChainInv
      <4>2. \A c \in Mined' : c \in branch'[c] /\ \A a \in branch'[c] : branch'[a] \subseteq branch'[c]
        <5>1. \A c \in Mined : c \in branch[c] /\ \A a \in branch[c] : branch[a] \subseteq branch[c]
          BY DEF IInv, ChainInv
        <5>2. ASSUME NEW c \in Mined
              PROVE  c \in branch'[c] /\ \A a \in branch'[c] : branch'[a] \subseteq branch'[c]
          BY <3>1, <3>4, <4>1, <5>1, <5>2 DEF Mined
        <5>3. b \in branch'[b] /\ \A a \in branch'[b] : branch'[a] \subseteq branch'[b]
          <6>1. \A a \in branch[onto] : a \in Mined /\ branch[a] \subseteq branch[onto]
            BY <3>1, <4>1, <5>1 DEF IInv, ChainInv
          <6>2. \A a \in branch[onto] : branch'[a] \subseteq branch'[b]
            BY <3>1, <3>4, <6>1 DEF Mined
          <6>3. QED BY <3>4, <6>2
        <5>4. QED BY <3>3, <5>2, <5>3
      <4>3. \A c \in Block \cup {0} : branch'[c] \subseteq Mined'
        BY <3>1, <3>3, <3>4, <4>1
      <4>4. QED BY <1>2, <3>1, <3>3, <3>4, <4>2, <4>3 DEF IInv, ChainInv, watcher, batch
    <3>6. QED BY <3>1, <3>2, <3>3, <3>4, <3>5 DEF Mined
  <2>3. QED BY <2>1, <2>2 DEF NodeStep
<1>4. Sent' = Sent /\ SentRemovals' = SentRemovals
  BY <1>2, SentKept DEF IInv, watcher
<1>5. branch'[cursor'] = branch[cursor] /\ branch'[last'] = branch[last]
  BY <1>2, <1>3 DEF IInv, ChainInv, watcher, batch
<1>6. /\ branch[cursor] \subseteq Mined /\ branch[last] \subseteq Mined
      /\ passed \subseteq Mined
  BY DEF IInv, ChainInv, TypeOK
<1>7. BatchInv'
  BY <1>2, <1>3, <1>4, <1>5, <1>6 DEF IInv, BatchInv, AllTold, Told, watcher, batch
<1>8. NothingSkipped' /\ ReorgsReported' /\ RemovedAfterReceived'
  BY <1>2, <1>3, <1>4, <1>5, <1>6
     DEF IInv, NothingSkipped, ReorgsReported, RemovedAfterReceived, AllTold, Told, watcher
<1>9. DepthsInv'
  BY <1>2, <1>4 DEF IInv, DepthsInv, watcher, batch
<1>10. QED BY <1>1, <1>3, <1>7, <1>8, <1>9 DEF IInv

\* The batch a poll reads covers what the cursor has still to report.
LEMMA PollInv == IInv /\ Poll => IInv'
<1> SUFFICES ASSUME IInv, Poll PROVE IInv'
  OBVIOUS
<1>1. TypeOK'
  BY NextType DEF IInv, Next, WatcherStep
<1>2. /\ todo' = Listed(cursor) /\ todoRemoved' = Removed(cursor) /\ last' = tip
      /\ UNCHANGED <<node, cursor, channels, passed, taken, dropped>>
  BY DEF Poll
<1>3. Sent' = Sent /\ SentRemovals' = SentRemovals
  BY <1>2, SentKept DEF IInv
<1>4. ChainInv'
  BY <1>2 DEF IInv, ChainInv, Mined, node
<1>5. /\ AllTold(branch[tip] \ branch[cursor], Listed(cursor))
      /\ AllTold(branch[cursor] \ branch[tip], Removed(cursor))
      /\ \A e \in Removed(cursor) : e.block \in branch[cursor] /\ e.pay \in pays[e.block]
  <2>1. /\ branch[tip] \ branch[cursor] \in SUBSET Block
        /\ branch[cursor] \ branch[tip] \in SUBSET Block
    BY DEF IInv, TypeOK
  <2>2. QED BY <2>1, ReportsOfBlocks DEF IInv, Listed, Removed, AllTold, Told
<1>6. AllTold(branch[cursor], Sent)
  BY DEF IInv, NothingSkipped
<1>7. /\ AllTold(branch[tip], Sent \cup Listed(cursor))
      /\ AllTold(branch[cursor] \ branch[tip], SentRemovals \cup Removed(cursor))
      /\ \A e \in Removed(cursor) : Told(e.pay, e.block, Sent)
  BY <1>5, <1>6 DEF AllTold, Told
<1>8. BatchInv'
  BY <1>2, <1>3, <1>7 DEF BatchInv, AllTold, Told, node
<1>9. NothingSkipped' /\ ReorgsReported' /\ RemovedAfterReceived'
  BY <1>2, <1>3 DEF IInv, NothingSkipped, ReorgsReported, RemovedAfterReceived,
     AllTold, Told, node
<1>10. DepthsInv'
  BY <1>2, <1>3, ListedDepths DEF IInv, DepthsInv
<1>11. QED BY <1>1, <1>4, <1>8, <1>9, <1>10 DEF IInv

\* A send moves an event from the batch to the channel.
LEMMA SendInv ==
  ASSUME IInv,
         \/ \E e \in todo : SendReceipt(e)
         \/ \E e \in todoRemoved : SendRemoval(e)
  PROVE  IInv'
<1>1. TypeOK'
  BY NextType DEF IInv, Next, WatcherStep
<1>2. polling /\ UNCHANGED <<node, cursor, last, passed, polling>>
  BY DEF SendReceipt, SendRemoval
<1>3. /\ Sent \subseteq Sent' /\ Sent \cup todo = Sent' \cup todo'
      /\ SentRemovals \subseteq SentRemovals'
      /\ SentRemovals \cup todoRemoved = SentRemovals' \cup todoRemoved'
  <2>1. ASSUME NEW e \in todo, SendReceipt(e) PROVE <1>3
    BY <2>1, SentReceipt DEF IInv, SendReceipt
  <2>2. ASSUME NEW e \in todoRemoved, SendRemoval(e) PROVE <1>3
    BY <2>2, SentRemoval DEF IInv, SendRemoval
  <2>3. QED BY <2>1, <2>2
<1>4. ChainInv'
  BY <1>2 DEF IInv, ChainInv, Mined, node
<1>5. BatchInv'
  <2>1. /\ UNCHANGED <<branch, pays, cursor, last>>
        /\ todoRemoved' \subseteq todoRemoved
    BY <1>2 DEF node, SendReceipt, SendRemoval
  <2>2. AllTold(branch[last], Sent \cup todo)'
    BY <1>2, <1>3, <2>1 DEF IInv, BatchInv, AllTold, Told
  <2>3. AllTold(branch[cursor] \ branch[last], SentRemovals \cup todoRemoved)'
    BY <1>2, <1>3, <2>1 DEF IInv, BatchInv, AllTold, Told
  <2>4. \A e \in todoRemoved' : Told(e.pay, e.block, Sent')
    BY <1>2, <1>3, <2>1 DEF IInv, BatchInv, Told
  <2>5. QED BY <2>2, <2>3, <2>4 DEF BatchInv, Told
<1>6. NothingSkipped' /\ ReorgsReported'
  BY <1>2, <1>3 DEF IInv, NothingSkipped, ReorgsReported, AllTold, Told, node
<1>7. RemovedAfterReceived'
  <2>1. \A e \in SentRemovals \cup todoRemoved : Told(e.pay, e.block, Sent)
    BY <1>2 DEF IInv, BatchInv, RemovedAfterReceived
  <2>2. QED BY <1>3, <2>1 DEF RemovedAfterReceived, Told
<1>8. DepthsInv'
  BY <1>3 DEF IInv, DepthsInv
<1>9. QED BY <1>1, <1>4, <1>5, <1>6, <1>7, <1>8 DEF IInv

\* The cursor moves when nothing of the batch is missing any more.
LEMMA SaveInv == IInv /\ (SaveCursor \/ SaveFails) => IInv'
<1> SUFFICES ASSUME IInv, SaveCursor \/ SaveFails PROVE IInv'
  OBVIOUS
<1>1. TypeOK'
  BY NextType DEF IInv, Next, WatcherStep
<1>2. /\ polling /\ ~polling' /\ todo = {} /\ todoRemoved = {}
      /\ UNCHANGED <<node, last, channels, taken, dropped>>
      /\ \/ cursor' = last /\ passed' = passed \cup branch[last]
         \/ UNCHANGED <<cursor, passed>>
  BY DEF SaveCursor, SaveFails, EndPoll
<1>3. Sent' = Sent /\ SentRemovals' = SentRemovals
  BY <1>2, SentKept DEF IInv
<1>4. ChainInv'
  BY <1>2 DEF IInv, ChainInv, TypeOK, Mined, node
<1>5. BatchInv'
  BY <1>2 DEF BatchInv
<1>6. /\ AllTold(branch[last], Sent)
      /\ AllTold(branch[cursor] \ branch[last], SentRemovals)
  BY <1>2 DEF IInv, BatchInv, AllTold, Told
<1>7. NothingSkipped' /\ ReorgsReported' /\ RemovedAfterReceived'
  BY <1>2, <1>3, <1>6 DEF IInv, NothingSkipped, ReorgsReported, RemovedAfterReceived,
     AllTold, Told, node
<1>8. DepthsInv'
  BY <1>3 DEF IInv, DepthsInv, SaveCursor, SaveFails
<1>9. QED BY <1>1, <1>4, <1>5, <1>7, <1>8 DEF IInv

\* What the consumer takes and what a restart drops has still been sent.
LEMMA TakeInv == IInv /\ (TakeReceipt \/ TakeRemoval \/ Restart) => IInv'
<1> SUFFICES ASSUME IInv, TakeReceipt \/ TakeRemoval \/ Restart PROVE IInv'
  OBVIOUS
<1>1. TypeOK'
  BY NextType DEF IInv, Next
<1>2. /\ UNCHANGED <<node, cursor, passed>>
      /\ \/ UNCHANGED <<polling, todo, todoRemoved, last>>
         \/ ~polling' /\ last' = 0
  BY DEF TakeReceipt, TakeRemoval, Restart, batch
<1>3. Sent' = Sent /\ SentRemovals' = SentRemovals
  BY SentKept DEF IInv
<1>4. ChainInv'
  BY <1>2 DEF IInv, ChainInv, Mined, node
<1>5. BatchInv'
  <2>1. CASE ~polling'
    BY <2>1 DEF BatchInv
  <2>2. CASE UNCHANGED <<polling, todo, todoRemoved, last>>
    BY <1>2, <1>3, <2>2 DEF IInv, BatchInv, AllTold, Told, node
  <2>3. QED BY <1>2, <2>1, <2>2
<1>6. NothingSkipped' /\ ReorgsReported' /\ RemovedAfterReceived'
  BY <1>2, <1>3 DEF IInv, NothingSkipped, ReorgsReported, RemovedAfterReceived,
     AllTold, Told, node
<1>7. DepthsInv'
  BY <1>3 DEF IInv, DepthsInv, TakeReceipt, TakeRemoval, Restart, batch
<1>8. QED BY <1>1, <1>4, <1>5, <1>6, <1>7 DEF IInv

\* Every step keeps the invariant.
LEMMA NextInv == IInv /\ [Next]_vars => IInv'
<1> SUFFICES ASSUME IInv, [Next]_vars PROVE IInv'
  OBVIOUS
<1>1. CASE UNCHANGED vars
  <2>1. Sent' = Sent /\ SentRemovals' = SentRemovals
    BY <1>1, SentKept DEF IInv, vars, watcher
  <2>2. QED BY <1>1, <2>1 DEF vars, node, watcher, batch, channels, taken, dropped,
            IInv, TypeOK, ChainInv, BatchInv, DepthsInv, NothingSkipped, ReorgsReported,
            RemovedAfterReceived, AllTold, Told, Mined
<1>2. CASE Next
  BY <1>2, NodeInv, PollInv, SendInv, SaveInv, TakeInv DEF Next, WatcherStep
<1>3. QED BY <1>1, <1>2

\* The invariant holds in every reachable state.
LEMMA Invariant == Spec => []IInv
BY InitInv, NextInv, PTL DEF Spec

-----------------------------------------------------------------------------
(* Where reports come from.                                                *)

\* A report with confirmations is of a mined block that has the payment; blocks
\* and their payments do not change once they are mined.
MinedReports ==
  \A e \in Sent \cup todo :
    e.conf > 0 => e.block \in Mined /\ e.pay \in pays[e.block]

\* What the node lists is such a report, or has no confirmations.
LEMMA ListedMined ==
  ASSUME IInv
  PROVE  \A e \in Listed(cursor) :
           e.conf > 0 => e.block \in Mined /\ e.pay \in pays[e.block]
<1>1. branch[tip] \subseteq Mined /\ branch[tip] \ branch[cursor] \in SUBSET Block
  BY DEF IInv, TypeOK, ChainInv
<1>2. \A e \in Reports(branch[tip] \ branch[cursor]) :
        e.block \in Mined /\ e.pay \in pays[e.block]
  BY <1>1, ReportsOfBlocks DEF IInv
<1>3. \A e \in Mempool : e.conf = 0
  BY DEF Mempool
<1>4. QED BY <1>2, <1>3 DEF Listed

\* Every step keeps it: a block is mined once, and only polls make reports.
LEMMA MinedReportsStep ==
  ASSUME IInv, MinedReports, [Next]_vars
  PROVE  MinedReports'
<1>1. ASSUME NEW p \in Payment, Broadcast(p) PROVE MinedReports'
  <2>1. UNCHANGED <<channels, taken, dropped>>
    BY <1>1 DEF Broadcast, watcher
  <2>2. Sent' = Sent
    BY <2>1, SentKept DEF IInv
  <2>3. QED BY <1>1, <2>2 DEF MinedReports, Broadcast, Mined, watcher, batch
<1>2. ASSUME NEW b \in Block, NEW onto \in Block \cup {0}, NEW ps \in SUBSET Payment,
             Mine(b, onto, ps)
      PROVE  MinedReports'
  <2>1. UNCHANGED <<channels, taken, dropped, todo>>
    BY <1>2 DEF Mine, watcher, batch
  <2>2. Sent' = Sent
    BY <2>1, SentKept DEF IInv
  <2>3. \A c \in Mined : c # b /\ c \in Mined' /\ pays'[c] = pays[c]
    BY <1>2 DEF Mine, Mined, IInv, TypeOK
  <2>4. QED BY <2>1, <2>2, <2>3 DEF MinedReports
<1>3. CASE Poll
  <2>1. /\ todo' = Listed(cursor)
        /\ UNCHANGED <<channels, taken, dropped, branch, pays>>
    BY <1>3 DEF Poll, node
  <2>2. Sent' = Sent
    BY <2>1, SentKept DEF IInv
  <2>3. QED BY <2>1, <2>2, ListedMined DEF MinedReports, Mined
<1>4. ASSUME NEW e \in todo, SendReceipt(e) PROVE MinedReports'
  <2>1. Sent' = Sent \cup {e}
    BY <1>4, SentReceipt DEF IInv
  <2>2. QED BY <1>4, <2>1 DEF MinedReports, SendReceipt, Mined, node
<1>5. ASSUME NEW e \in todoRemoved, SendRemoval(e) PROVE MinedReports'
  <2>1. Sent' = Sent
    BY <1>5, SentRemoval DEF IInv
  <2>2. QED BY <1>5, <2>1 DEF MinedReports, SendRemoval, Mined, node
<1>6. CASE SaveCursor \/ SaveFails \/ UNCHANGED vars
  <2>1. UNCHANGED <<channels, taken, dropped, todo, branch, pays>>
    BY <1>6 DEF SaveCursor, SaveFails, vars, node, watcher, batch
  <2>2. Sent' = Sent
    BY <2>1, SentKept DEF IInv
  <2>3. QED BY <2>1, <2>2 DEF MinedReports, Mined
<1>7. CASE TakeReceipt \/ TakeRemoval \/ Restart
  <2>1. Sent' = Sent
    BY <1>7, SentKept DEF IInv
  <2>2. todo' \subseteq todo /\ UNCHANGED <<branch, pays>>
    BY <1>7 DEF TakeReceipt, TakeRemoval, Restart, node, batch
  <2>3. QED BY <2>1, <2>2 DEF MinedReports, Mined
<1>8. QED
  BY <1>1, <1>2, <1>3, <1>4, <1>5, <1>6, <1>7 DEF Next, NodeStep, WatcherStep

\* A report with confirmations names a mined block that has the payment.
LEMMA MinedReportsHold == Spec => []MinedReports
<1>1. Init => MinedReports
  <2> SUFFICES ASSUME Init PROVE MinedReports
    OBVIOUS
  <2>1. Elements(notifyCh) = {}
    BY DEF Init, Elements
  <2>2. QED BY <2>1 DEF Init, MinedReports, Sent
<1>2. QED BY <1>1, MinedReportsStep, Invariant, PTL DEF Spec

-----------------------------------------------------------------------------
\* The cursor never passes a mined payment that was not sent to the consumer.
THEOREM NothingSkippedHolds == Spec => []NothingSkipped
<1>1. IInv => NothingSkipped
  BY DEF IInv
<1>2. QED BY <1>1, Invariant, PTL

\* A block the cursor has left is reported as removed, payment by payment.
THEOREM ReorgsReportedHolds == Spec => []ReorgsReported
<1>1. IInv => ReorgsReported
  BY DEF IInv
<1>2. QED BY <1>1, Invariant, PTL

\* A removal is only sent for a payment that was sent as received.
THEOREM RemovedAfterReceivedHolds == Spec => []RemovedAfterReceived
<1>1. IInv => RemovedAfterReceived
  BY DEF IInv
<1>2. QED BY <1>1, Invariant, PTL

=============================================================================
