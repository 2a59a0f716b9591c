------------------------------- MODULE Boards -------------------------------
(***************************************************************************)
(* The relay boards: which board and channel fires which machine           *)
(* (internal/services/relays.go), the health poller that asks every active *)
(* board for its status and raises or acknowledges an alert per board      *)
(* (internal/relay/health.go, internal/services/alerts.go), and the spacing*)
(* of the pulses a machine receives from the dispatcher and from the       *)
(* administrator's test fire (internal/relay/dispatcher.go).  What becomes *)
(* of a pulse and its token is the Relay module's.                         *)
(*                                                                         *)
(* The poller and the dispatcher are one goroutine each; every statement   *)
(* and every call to a board is an action, and the administrator's         *)
(* handlers run between any two of them.  Time is counted in ticks; a gap  *)
(* is a number of ticks, and the counters stop at the longest one.         *)
(*                                                                         *)
(* Left out: last_seen_at, which is only displayed, the texts, and the     *)
(* poll intervals.                                                         *)
(***************************************************************************)
EXTENDS Integers

CONSTANTS
  Board,       \* names relay boards may be created with
  Number,      \* relay numbers of a board
  Machine,     \* machine ids
  NoBoard, NoMachine, NoChannel,
  Gaps,        \* values of relay_pulse_gap_ms, in ticks
  MaxGap,      \* the longest of them, and where the counters stop
  MaxFaults    \* bound: restarts and failed statements in a behaviour

ASSUME BoardsAssumption ==
  /\ NoBoard \notin Board /\ NoMachine \notin Machine
  /\ NoChannel \notin Board \X Number
  /\ MaxGap \in Nat /\ Gaps \subseteq 0..MaxGap
  /\ MaxFaults \in Nat

Channel == Board \X Number

VARIABLES
  boards,      \* relay_boards: the names in use
  active,      \* ... of them, those with is_active = 1
  binding,     \* a machine's machine_relays row with is_active = 1
  up,          \* the boards that answer
  open,        \* unacknowledged alerts relay_board_offline_<id> of a board
  hpc,         \* what the poller does next
  todo,        \* boards of its snapshot it has not come to yet
  asked,       \* the board it works on
  pc,          \* what the dispatcher does next
  cur,         \* the machine whose pulse it works on
  wanted,      \* the gap it read for that pulse
  channel,     \* the relay it called
  landed,      \* history: that relay has closed
  since,       \* ticks since lastSentAt of a machine, MaxGap if there is none
  near,        \* history: ticks since a relay closed while the dispatcher of
               \* this process waited for it
  stray,       \* machines with a call under way that the dispatcher does not
               \* wait for: a test fire, or an attempt it gave up
  verdict,     \* history: the outcome of the last check of a board
  hidden,      \* history: ... whose alert was acknowledged by hand since
  missed,      \* history: ... during which a statement failed
  faults       \* restarts and failed statements so far

tables     == <<boards, active, binding>>
poller     == <<hpc, todo, asked>>
dispatcher == <<pc, cur, wanted, channel, landed, since, near>>
checks     == <<verdict, hidden, missed>>
vars == <<tables, up, open, poller, dispatcher, stray, checks, faults>>

TypeOK ==
  /\ boards \subseteq Board /\ active \subseteq boards
  /\ binding \in [Machine -> Channel \cup {NoChannel}]
  /\ \A m \in Machine : binding[m] # NoChannel => binding[m][1] \in boards
  /\ up \subseteq Board
  /\ open \in [Board -> Nat]
  /\ hpc \in {"idle", "next", "count", "insert", "ack"}
  /\ todo \subseteq boards
  /\ asked \in boards \cup {NoBoard}
  /\ hpc \in {"count", "insert", "ack"} <=> asked # NoBoard
  /\ pc \in {"idle", "wait", "call"}
  /\ cur \in Machine \cup {NoMachine}
  /\ pc # "idle" <=> cur # NoMachine
  /\ wanted \in 0..MaxGap
  /\ channel \in Channel \cup {NoChannel}
  /\ landed \in BOOLEAN /\ (landed => pc = "call")
  /\ since \in [Machine -> 0..MaxGap]
  /\ near \in [Machine -> 0..MaxGap]
  /\ stray \subseteq Machine
  /\ verdict \in [Board -> {"none", "answered", "failed"}]
  /\ hidden \subseteq Board /\ missed \subseteq Board
  /\ faults \in Nat

Init ==
  /\ boards = {} /\ active = {}
  /\ binding = [m \in Machine |-> NoChannel]
  /\ up \in SUBSET Board
  /\ open = [b \in Board |-> 0]
  /\ hpc = "idle" /\ todo = {} /\ asked = NoBoard
  /\ pc = "idle" /\ cur = NoMachine /\ wanted = 0
  /\ channel = NoChannel /\ landed = FALSE
  /\ since = [m \in Machine |-> MaxGap]
  /\ near = [m \in Machine |-> MaxGap]
  /\ stray = {}
  /\ verdict = [b \in Board |-> "none"] /\ hidden = {} /\ missed = {}
  /\ faults = 0

Fault == faults < MaxFaults /\ faults' = faults + 1

-----------------------------------------------------------------------------
(* The administrator.                                                      *)

\* A name that is taken is refused; a new board is active.
CreateBoard(b) ==
  /\ b \notin boards
  /\ boards' = boards \cup {b} /\ active' = active \cup {b}
  /\ UNCHANGED <<binding, up, open, poller, dispatcher, stray, checks, faults>>

SetBoardActive(b) ==
  /\ b \in boards
  /\ active' \in {active \cup {b}, active \ {b}}
  /\ UNCHANGED <<boards, binding, up, open, poller, dispatcher, stray, checks,
                 faults>>

\* The unique index refuses a machine a second active row; nothing refuses a
\* channel a second machine.
Bind(m, c) ==
  /\ binding[m] = NoChannel
  /\ c[1] \in boards
  /\ binding' = [binding EXCEPT ![m] = c]
  /\ UNCHANGED <<boards, active, up, open, poller, dispatcher, stray, checks,
                 faults>>

\* By the id of the row: an old page's row is no longer active.
Unbind(m) ==
  /\ binding' = [binding EXCEPT ![m] = NoChannel]
  /\ UNCHANGED <<boards, active, up, open, poller, dispatcher, stray, checks,
                 faults>>

\* AlertsService.Ack, one alert by its id.
AckAlert(b) ==
  /\ open[b] > 0
  /\ open' = [open EXCEPT ![b] = @ - 1]
  /\ hidden' = hidden \cup {b}
  /\ UNCHANGED <<tables, up, poller, dispatcher, stray, verdict, missed,
                 faults>>

-----------------------------------------------------------------------------
(* The health poller.                                                      *)

\* Faulty: a board known to be offline is not asked again.
FetchKnownGood ==
  /\ hpc = "idle"
  /\ todo' = {b \in active : open[b] = 0}
  /\ hpc' = IF todo' = {} THEN "idle" ELSE "next"
  /\ UNCHANGED <<tables, up, open, asked, dispatcher, stray, checks, faults>>

\* CheckAll reads the active boards once.
FetchActiveBoards ==
  /\ hpc = "idle"
  /\ todo' = active
  /\ hpc' = IF active = {} THEN "idle" ELSE "next"
  /\ UNCHANGED <<tables, up, open, asked, dispatcher, stray, checks, faults>>

\* Faulty: a board that does not answer ends the round.
CheckBoardOrStop(b) ==
  /\ hpc = "next" /\ b \in todo
  /\ todo' = IF b \in up THEN todo \ {b} ELSE {}
  /\ asked' = b
  /\ hpc' = IF b \in up THEN "ack" ELSE "count"
  /\ UNCHANGED <<tables, up, open, dispatcher, stray, checks, faults>>

\* The Status call, also to a board disabled since the snapshot.
CheckBoard(b) ==
  /\ hpc = "next" /\ b \in todo
  /\ todo' = todo \ {b}
  /\ asked' = b
  /\ hpc' = IF b \in up THEN "ack" ELSE "count"
  /\ UNCHANGED <<tables, up, open, dispatcher, stray, checks, faults>>

NextBoard ==
  /\ asked' = NoBoard
  /\ hpc' = IF todo = {} THEN "idle" ELSE "next"
  /\ UNCHANGED todo

\* A check of the asked board ends with this outcome, its statements all done.
Checked(outcome) ==
  /\ verdict' = [verdict EXCEPT ![asked] = outcome]
  /\ hidden' = hidden \ {asked} /\ missed' = missed \ {asked}

\* Faulty: one kind of alert for all the boards.
CountOpenOfAny ==
  /\ hpc = "count"
  /\ \/ /\ \E b \in Board : open[b] > 0
        /\ Checked("failed")
        /\ NextBoard
     \/ /\ \A b \in Board : open[b] = 0
        /\ hpc' = "insert"
        /\ UNCHANGED <<todo, asked, checks>>
  /\ UNCHANGED <<tables, up, open, dispatcher, stray, faults>>

\* Faulty: the alerts already open are not looked for.
CountNothing ==
  /\ hpc = "count"
  /\ hpc' = "insert"
  /\ UNCHANGED <<tables, up, open, todo, asked, dispatcher, stray, checks,
                 faults>>

\* InsertAlertIfNotExists: the open alerts of this kind are counted...
CountOpen ==
  /\ hpc = "count"
  /\ \/ /\ open[asked] > 0
        /\ Checked("failed")
        /\ NextBoard
     \/ /\ open[asked] = 0
        /\ hpc' = "insert"
        /\ UNCHANGED <<todo, asked, checks>>
  /\ UNCHANGED <<tables, up, open, dispatcher, stray, faults>>

\* ... and in a statement of its own one is inserted.
InsertAlert ==
  /\ hpc = "insert"
  /\ open' = [open EXCEPT ![asked] = @ + 1]
  /\ Checked("failed")
  /\ NextBoard
  /\ UNCHANGED <<tables, up, dispatcher, stray, faults>>

\* The board answered: all its open alerts are acknowledged.
AckBoardAlerts ==
  /\ hpc = "ack"
  /\ open' = [open EXCEPT ![asked] = 0]
  /\ Checked("answered")
  /\ NextBoard
  /\ UNCHANGED <<tables, up, dispatcher, stray, faults>>

\* A statement fails; the error is logged and the poller goes on.
StatementFails ==
  /\ hpc \in {"count", "insert", "ack"}
  /\ Fault
  /\ missed' = missed \cup {asked}
  /\ NextBoard
  /\ UNCHANGED <<tables, up, open, dispatcher, stray, verdict, hidden>>

-----------------------------------------------------------------------------
(* The dispatcher and the test fire.                                       *)

\* processPulse: waitForGap reads the gap, the default if that fails.
Wait(m) ==
  /\ pc = "idle"
  /\ pc' = "wait" /\ cur' = m
  /\ wanted' \in Gaps
  /\ UNCHANGED <<tables, up, open, poller, channel, landed, since, near, stray,
                 checks, faults>>

\* resolveBinding: a row, and its board active.
Bound(m) == binding[m] # NoChannel /\ binding[m][1] \in active

Idle ==
  /\ pc' = "idle" /\ cur' = NoMachine
  /\ channel' = NoChannel /\ landed' = FALSE

\* The gap has passed; the relay is looked up and called.  A machine without
\* one counts as an attempt too.
Call ==
  /\ pc = "wait"
  /\ since[cur] >= wanted
  /\ \/ /\ Bound(cur)
        /\ pc' = "call" /\ channel' = binding[cur]
        /\ UNCHANGED <<cur, landed, since>>
     \/ /\ ~Bound(cur)
        /\ since' = [since EXCEPT ![cur] = 0]
        /\ Idle
  /\ UNCHANGED <<tables, up, open, poller, wanted, near, stray, checks, faults>>

\* The relay closes while the dispatcher waits for the answer.
Land ==
  /\ pc = "call" /\ ~landed
  /\ channel[1] \in up
  /\ landed' = TRUE
  /\ near' = [near EXCEPT ![cur] = 0]
  /\ UNCHANGED <<tables, up, open, poller, pc, cur, wanted, channel, since,
                 stray, checks, faults>>

\* Faulty: only a pulse that was answered is recorded.
ReturnIfAnswered ==
  /\ pc = "call"
  /\ since' \in IF landed THEN {since, [since EXCEPT ![cur] = 0]} ELSE {since}
  /\ stray' \in IF landed THEN {stray} ELSE {stray, stray \cup {cur}}
  /\ Idle
  /\ UNCHANGED <<tables, up, open, poller, wanted, near, checks, faults>>

\* The call returns with an answer or an error, or is given up after its
\* timeout, when the board may still act on it; recordAttempt notes the time.
Return ==
  /\ pc = "call"
  /\ since' = [since EXCEPT ![cur] = 0]
  /\ stray' \in IF landed THEN {stray} ELSE {stray, stray \cup {cur}}
  /\ Idle
  /\ UNCHANGED <<tables, up, open, poller, wanted, near, checks, faults>>

\* TestFire neither waits for the gap nor records its pulse.
TestFire(m) ==
  /\ Bound(m)
  /\ stray' = stray \cup {m}
  /\ UNCHANGED <<tables, up, open, poller, dispatcher, checks, faults>>

\* A call nobody of the dispatcher waits for closes the relay, or is lost.
StrayEnds(m) ==
  /\ m \in stray
  /\ stray' = stray \ {m}
  /\ UNCHANGED <<tables, up, open, poller, dispatcher, checks, faults>>

\* The process stops and is started again: the snapshot and lastSentAt are
\* gone, a call under way may still reach its board.
Restart ==
  /\ Fault
  /\ hpc' = "idle" /\ todo' = {} /\ asked' = NoBoard
  /\ Idle
  /\ since' = [m \in Machine |-> MaxGap] /\ near' = [m \in Machine |-> MaxGap]
  /\ stray' \in IF pc = "call" /\ ~landed THEN {stray, stray \cup {cur}}
                                          ELSE {stray}
  /\ UNCHANGED <<tables, up, open, wanted, checks>>

-----------------------------------------------------------------------------
(* The boards and the clock.                                               *)

\* Powered off and on, out of reach and back.
BoardChanges(b) ==
  /\ up' \in {up \cup {b}, up \ {b}}
  /\ UNCHANGED <<tables, open, poller, dispatcher, stray, checks, faults>>

Later(t) == [m \in Machine |-> IF t[m] < MaxGap THEN t[m] + 1 ELSE MaxGap]

Tick ==
  /\ since' = Later(since) /\ near' = Later(near)
  /\ UNCHANGED <<tables, up, open, poller, pc, cur, wanted, channel, landed,
                 stray, checks, faults>>

-----------------------------------------------------------------------------
Poll ==
  \/ FetchActiveBoards
  \/ \E b \in Board : CheckBoard(b)
  \/ CountOpen \/ InsertAlert \/ AckBoardAlerts

Admin ==
  \/ \E b \in Board : CreateBoard(b) \/ SetBoardActive(b) \/ AckAlert(b)
  \/ \E m \in Machine : Unbind(m) \/ TestFire(m) \/ \E c \in Channel : Bind(m, c)

Dispatch ==
  \/ \E m \in Machine : Wait(m) \/ StrayEnds(m)
  \/ Call \/ Land \/ Return

Next ==
  \/ Poll \/ StatementFails \/ Restart
  \/ Admin \/ Dispatch
  \/ \E b \in Board : BoardChanges(b)
  \/ Tick

Spec == Init /\ [][Next]_vars

\* The poller's goroutine is scheduled and its ticker fires.
FairSpec == Spec /\ WF_vars(Poll)

-----------------------------------------------------------------------------
(* Properties.                                                             *)

\* The runbook's deduplication, for the boards: a board has one open alert at
\* most, through acknowledgements by hand and by the poller, failed
\* statements and restarts between the count and the insertion.
OneOpenAlert == \A b \in Board : open[b] <= 1

\* The dashboard shows what the last check of a board found, whatever it
\* found of the other boards: an alert is open after a failed one unless
\* somebody acknowledged it, and none is after an answer.
AlertTellsLastCheck ==
  \A b \in Board \ missed :
    /\ verdict[b] = "failed" /\ b \notin hidden => open[b] > 0
    /\ verdict[b] \in {"none", "answered"} => open[b] = 0

\* Two pulses of a machine that closed its relay while the dispatcher waited
\* for them are a gap apart, however long the boards take to answer; a test
\* fire, a call given up and a restart are not seen by the dispatcher.
PulsesSpaced ==
  [][\A m \in Machine : cur = m /\ landed' /\ ~landed => near[m] >= wanted]_vars

\* A board that is active and stays out of reach is reported, again after
\* every acknowledgement.
OfflineIsReported ==
  \A b \in Board :
    <>[](b \in active /\ b \notin up) => []<>(open[b] > 0)

\* The alert of an active board that answers for good is taken back.
AnswerClearsAlert ==
  \A b \in Board :
    <>[](b \in active /\ b \in up) => <>[](open[b] = 0)

=============================================================================
