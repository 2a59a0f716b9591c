---------------------------- MODULE BoardsProofs ----------------------------
(***************************************************************************)
(* Proofs about the relay boards, for any boards, machines, gaps and any   *)
(* number of restarts and failed statements: type correctness, one open    *)
(* alert per board, alerts that tell the last check, and pulses a gap      *)
(* apart.                                                                  *)
(***************************************************************************)
EXTENDS Boards, TLAPS

-----------------------------------------------------------------------------
(* The inductive invariant.                                                *)

\* Between the count and the insertion nobody else opens an alert: the poller
\* is one goroutine.
NoneWhileInserting == hpc = "insert" => open[asked] = 0

\* lastSentAt is no earlier than the last pulse that closed the relay, unless
\* the call that closed it has not returned.
GapKept ==
  /\ pc = "call" => since[cur] >= wanted
  /\ \A m \in Machine : ~ (landed /\ cur = m) => near[m] >= since[m]

AlertInv == OneOpenAlert /\ NoneWhileInserting

BoardsInv == TypeOK /\ AlertInv /\ AlertTellsLastCheck /\ GapKept

-----------------------------------------------------------------------------
(* Each action preserves each part.                                        *)

\* The types; the poller and the dispatcher hold something exactly while they
\* work on it.
LEMMA TypeStep ==
  ASSUME TypeOK, [Next]_vars
  PROVE  TypeOK'
<1> USE BoardsAssumption DEF TypeOK, Channel, tables, poller, dispatcher, checks
<1>1. CASE \E b \in Board : CreateBoard(b)
  BY <1>1 DEF CreateBoard
<1>2. CASE \E b \in Board : SetBoardActive(b)
  BY <1>2 DEF SetBoardActive
<1>3. CASE \E b \in Board : AckAlert(b)
  BY <1>3 DEF AckAlert
<1>4. CASE \E m \in Machine, c \in Channel : Bind(m, c)
  BY <1>4 DEF Bind
<1>5. CASE \E m \in Machine : Unbind(m)
  BY <1>5 DEF Unbind
<1>6. CASE \E m \in Machine : TestFire(m)
  BY <1>6 DEF TestFire, Bound
<1>7. CASE FetchActiveBoards
  BY <1>7 DEF FetchActiveBoards
<1>8. CASE \E b \in Board : CheckBoard(b)
  BY <1>8 DEF CheckBoard
<1>9. CASE CountOpen
  BY <1>9 DEF CountOpen, Checked, NextBoard
<1>10. CASE InsertAlert
  BY <1>10 DEF InsertAlert, Checked, NextBoard
<1>11. CASE AckBoardAlerts
  BY <1>11 DEF AckBoardAlerts, Checked, NextBoard
<1>12. CASE StatementFails
  BY <1>12 DEF StatementFails, Fault, NextBoard
<1>13. CASE \E m \in Machine : Wait(m)
  BY <1>13 DEF Wait
<1>14. CASE \E m \in Machine : StrayEnds(m)
  BY <1>14 DEF StrayEnds
<1>15. CASE Call
  <2>1. cur \in Machine /\ 0 \in 0..MaxGap
    BY <1>15 DEF Call
  <2>2. since' \in [Machine -> 0..MaxGap] /\ channel' \in Channel \cup {NoChannel}
    BY <1>15, <2>1 DEF Call, Idle, Bound
  <2>3. /\ pc' \in {"idle", "wait", "call"} /\ (pc' # "idle" <=> cur' # NoMachine)
        /\ cur' \in Machine \cup {NoMachine}
        /\ landed' \in BOOLEAN /\ (landed' => pc' = "call")
    BY <1>15, <2>1 DEF Call, Idle
  <2> QED BY <1>15, <2>2, <2>3 DEF Call
<1>16. CASE Land
  BY <1>16 DEF Land
<1>17. CASE Return
  <2>1. cur \in Machine /\ 0 \in 0..MaxGap
    BY <1>17 DEF Return
  <2>2. since' \in [Machine -> 0..MaxGap] /\ stray' \subseteq Machine
    BY <1>17, <2>1 DEF Return
  <2> QED BY <1>17, <2>2 DEF Return, Idle
<1>18. CASE Restart
  <2>1. stray' \subseteq Machine
    BY <1>18 DEF Restart
  <2>2. /\ since' \in [Machine -> 0..MaxGap] /\ near' \in [Machine -> 0..MaxGap]
        /\ faults' \in Nat
    BY <1>18 DEF Restart, Fault
  <2> QED BY <1>18, <2>1, <2>2 DEF Restart, Idle
<1>19. CASE \E b \in Board : BoardChanges(b)
  BY <1>19 DEF BoardChanges
<1>20. CASE Tick
  BY <1>20 DEF Tick, Later
<1>21. CASE UNCHANGED vars
  BY <1>21 DEF vars
<1> QED BY <1>1, <1>2, <1>3, <1>4, <1>5, <1>6, <1>7, <1>8, <1>9, <1>10,
           <1>11, <1>12, <1>13, <1>14, <1>15, <1>16, <1>17, <1>18, <1>19,
           <1>20, <1>21
        DEF Next, Poll, Admin, Dispatch

\* Only InsertAlert opens an alert, and only when there was none.
LEMMA AlertStep ==
  ASSUME TypeOK, AlertInv, [Next]_vars
  PROVE  AlertInv'
<1> USE BoardsAssumption DEF TypeOK, AlertInv, OneOpenAlert, NoneWhileInserting, tables, poller, dispatcher, checks
<1>1. CASE \E b \in Board : CreateBoard(b)
  BY <1>1 DEF CreateBoard
<1>2. CASE \E b \in Board : SetBoardActive(b)
  BY <1>2 DEF SetBoardActive
<1>3. CASE \E b \in Board : AckAlert(b)
  BY <1>3 DEF AckAlert
<1>4. CASE \E m \in Machine, c \in Channel : Bind(m, c)
  BY <1>4 DEF Bind
<1>5. CASE \E m \in Machine : Unbind(m)
  BY <1>5 DEF Unbind
<1>6. CASE \E m \in Machine : TestFire(m)
  BY <1>6 DEF TestFire
<1>7. CASE FetchActiveBoards
  BY <1>7 DEF FetchActiveBoards
<1>8. CASE \E b \in Board : CheckBoard(b)
  BY <1>8 DEF CheckBoard
<1>9. CASE CountOpen
  BY <1>9 DEF CountOpen, Checked, NextBoard
<1>10. CASE InsertAlert
  BY <1>10 DEF InsertAlert, Checked, NextBoard
<1>11. CASE AckBoardAlerts
  BY <1>11 DEF AckBoardAlerts, Checked, NextBoard
<1>12. CASE StatementFails
  BY <1>12 DEF StatementFails, Fault, NextBoard
<1>13. CASE \E m \in Machine : Wait(m)
  BY <1>13 DEF Wait
<1>14. CASE \E m \in Machine : StrayEnds(m)
  BY <1>14 DEF StrayEnds
<1>15. CASE Call
  BY <1>15 DEF Call, Idle
<1>16. CASE Land
  BY <1>16 DEF Land
<1>17. CASE Return
  BY <1>17 DEF Return, Idle
<1>18. CASE Restart
  BY <1>18 DEF Restart, Fault, Idle
<1>19. CASE \E b \in Board : BoardChanges(b)
  BY <1>19 DEF BoardChanges
<1>20. CASE Tick
  BY <1>20 DEF Tick, Later
<1>21. CASE UNCHANGED vars
  BY <1>21 DEF vars
<1> QED BY <1>1, <1>2, <1>3, <1>4, <1>5, <1>6, <1>7, <1>8, <1>9, <1>10,
           <1>11, <1>12, <1>13, <1>14, <1>15, <1>16, <1>17, <1>18, <1>19,
           <1>20, <1>21
        DEF Next, Poll, Admin, Dispatch

\* A check ends with its alert opened, found open, or acknowledged.
LEMMA CheckStep ==
  ASSUME TypeOK, AlertTellsLastCheck, [Next]_vars
  PROVE  AlertTellsLastCheck'
<1> USE BoardsAssumption DEF TypeOK, AlertTellsLastCheck, tables, poller, dispatcher, checks
<1>1. CASE \E b \in Board : CreateBoard(b)
  BY <1>1 DEF CreateBoard
<1>2. CASE \E b \in Board : SetBoardActive(b)
  BY <1>2 DEF SetBoardActive
<1>3. CASE \E b \in Board : AckAlert(b)
  BY <1>3 DEF AckAlert
<1>4. CASE \E m \in Machine, c \in Channel : Bind(m, c)
  BY <1>4 DEF Bind
<1>5. CASE \E m \in Machine : Unbind(m)
  BY <1>5 DEF Unbind
<1>6. CASE \E m \in Machine : TestFire(m)
  BY <1>6 DEF TestFire
<1>7. CASE FetchActiveBoards
  BY <1>7 DEF FetchActiveBoards
<1>8. CASE \E b \in Board : CheckBoard(b)
  BY <1>8 DEF CheckBoard
<1>9. CASE CountOpen
  BY <1>9 DEF CountOpen, Checked, NextBoard
<1>10. CASE InsertAlert
  BY <1>10 DEF InsertAlert, Checked, NextBoard
<1>11. CASE AckBoardAlerts
  BY <1>11 DEF AckBoardAlerts, Checked, NextBoard
<1>12. CASE StatementFails
  BY <1>12 DEF StatementFails, Fault, NextBoard
<1>13. CASE \E m \in Machine : Wait(m)
  BY <1>13 DEF Wait
<1>14. CASE \E m \in Machine : StrayEnds(m)
  BY <1>14 DEF StrayEnds
<1>15. CASE Call
  BY <1>15 DEF Call, Idle
<1>16. CASE Land
  BY <1>16 DEF Land
<1>17. CASE Return
  BY <1>17 DEF Return, Idle
<1>18. CASE Restart
  BY <1>18 DEF Restart, Fault, Idle
<1>19. CASE \E b \in Board : BoardChanges(b)
  BY <1>19 DEF BoardChanges
<1>20. CASE Tick
  BY <1>20 DEF Tick, Later
<1>21. CASE UNCHANGED vars
  BY <1>21 DEF vars
<1> QED BY <1>1, <1>2, <1>3, <1>4, <1>5, <1>6, <1>7, <1>8, <1>9, <1>10,
           <1>11, <1>12, <1>13, <1>14, <1>15, <1>16, <1>17, <1>18, <1>19,
           <1>20, <1>21
        DEF Next, Poll, Admin, Dispatch

\* The two clocks of a machine run together; Land resets the one, Return both.
LEMMA GapStep ==
  ASSUME TypeOK, GapKept, [Next]_vars
  PROVE  GapKept'
<1> USE BoardsAssumption DEF TypeOK, GapKept, tables, poller, dispatcher, checks
<1>1. CASE \E b \in Board : CreateBoard(b)
  BY <1>1 DEF CreateBoard
<1>2. CASE \E b \in Board : SetBoardActive(b)
  BY <1>2 DEF SetBoardActive
<1>3. CASE \E b \in Board : AckAlert(b)
  BY <1>3 DEF AckAlert
<1>4. CASE \E m \in Machine, c \in Channel : Bind(m, c)
  BY <1>4 DEF Bind
<1>5. CASE \E m \in Machine : Unbind(m)
  BY <1>5 DEF Unbind
<1>6. CASE \E m \in Machine : TestFire(m)
  BY <1>6 DEF TestFire
<1>7. CASE FetchActiveBoards
  BY <1>7 DEF FetchActiveBoards
<1>8. CASE \E b \in Board : CheckBoard(b)
  BY <1>8 DEF CheckBoard
<1>9. CASE CountOpen
  BY <1>9 DEF CountOpen, Checked, NextBoard
<1>10. CASE InsertAlert
  BY <1>10 DEF InsertAlert, Checked, NextBoard
<1>11. CASE AckBoardAlerts
  BY <1>11 DEF AckBoardAlerts, Checked, NextBoard
<1>12. CASE StatementFails
  BY <1>12 DEF StatementFails, Fault, NextBoard
<1>13. CASE \E m \in Machine : Wait(m)
  BY <1>13 DEF Wait
<1>14. CASE \E m \in Machine : StrayEnds(m)
  BY <1>14 DEF StrayEnds
<1>15. CASE Call
  BY <1>15 DEF Call, Idle
<1>16. CASE Land
  BY <1>16 DEF Land
<1>17. CASE Return
  BY <1>17 DEF Return, Idle
<1>18. CASE Restart
  BY <1>18 DEF Restart, Fault, Idle
<1>19. CASE \E b \in Board : BoardChanges(b)
  BY <1>19 DEF BoardChanges
<1>20. CASE Tick
  BY <1>20 DEF Tick, Later
<1>21. CASE UNCHANGED vars
  BY <1>21 DEF vars
<1> QED BY <1>1, <1>2, <1>3, <1>4, <1>5, <1>6, <1>7, <1>8, <1>9, <1>10,
           <1>11, <1>12, <1>13, <1>14, <1>15, <1>16, <1>17, <1>18, <1>19,
           <1>20, <1>21
        DEF Next, Poll, Admin, Dispatch

\* No board is known when the program is first started.
LEMMA InitInv == Init => BoardsInv
<1> SUFFICES ASSUME Init PROVE BoardsInv
  OBVIOUS
<1>1. /\ MaxGap \in 0..MaxGap /\ 0 \in 0..MaxGap
  BY BoardsAssumption
<1>2. TypeOK
  BY <1>1, BoardsAssumption DEF Init, TypeOK
<1>3. AlertInv /\ AlertTellsLastCheck
  BY DEF Init, AlertInv, OneOpenAlert, NoneWhileInserting, AlertTellsLastCheck
<1>4. GapKept
  BY BoardsAssumption DEF Init, GapKept
<1> QED BY <1>2, <1>3, <1>4 DEF BoardsInv

\* The invariant holds throughout.
THEOREM BoardsInvariant == Spec => []BoardsInv
<1>1. BoardsInv /\ [Next]_vars => BoardsInv'
  BY TypeStep, AlertStep, CheckStep, GapStep DEF BoardsInv
<1> QED BY <1>1, InitInv, PTL DEF Spec

-----------------------------------------------------------------------------
(* The theorems.                                                           *)

\* The tables, the poller and the dispatcher stay well formed.
THEOREM TypeCorrect == Spec => []TypeOK
<1>1. BoardsInv => TypeOK
  BY DEF BoardsInv
<1> QED BY <1>1, BoardsInvariant, PTL

\* InsertAlertIfNotExists opens no second alert for a board.
THEOREM OneAlertPerBoard == Spec => []OneOpenAlert
<1>1. BoardsInv => OneOpenAlert
  BY DEF BoardsInv, AlertInv
<1> QED BY <1>1, BoardsInvariant, PTL

\* The open alerts are what the last check of every board found.
THEOREM AlertsTellTheTruth == Spec => []AlertTellsLastCheck
<1>1. BoardsInv => AlertTellsLastCheck
  BY DEF BoardsInv
<1> QED BY <1>1, BoardsInvariant, PTL

\* The dispatcher's own pulses of a machine are a gap apart: the time it notes
\* after the call is no earlier than the moment the relay closed.
THEOREM PulsesAreSpaced == Spec => PulsesSpaced
<1>1. BoardsInv /\ [Next]_vars =>
        [\A m \in Machine :
           cur = m /\ landed' /\ ~landed => near[m] >= wanted]_vars
  <2> SUFFICES ASSUME BoardsInv, Next, NEW m \in Machine,
                      cur = m, landed', ~landed
               PROVE  near[m] >= wanted
    BY DEF vars
  <2>1. Land
    BY DEF Next, Poll, Admin, Dispatch, CreateBoard, SetBoardActive, AckAlert,
       Bind, Unbind, TestFire, FetchActiveBoards, CheckBoard, CountOpen,
       InsertAlert, AckBoardAlerts, StatementFails, Wait, StrayEnds, Call,
       Return, Restart, BoardChanges, Tick, Idle, dispatcher, BoardsInv, TypeOK
  <2>2. since[m] >= wanted /\ near[m] >= since[m]
    BY <2>1 DEF Land, BoardsInv, GapKept
  <2>3. since[m] \in Nat /\ near[m] \in Nat /\ wanted \in Nat
    BY BoardsAssumption DEF BoardsInv, TypeOK
  <2> QED BY <2>2, <2>3
<1> QED BY <1>1, BoardsInvariant, PTL DEF Spec, PulsesSpaced

=============================================================================
