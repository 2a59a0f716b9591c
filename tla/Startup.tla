------------------------------ MODULE Startup ------------------------------
(***************************************************************************)
(* Start-up and the settings: the migrations every process that opens the  *)
(* database runs (internal/store/store.go), the node settings the server   *)
(* then seeds from its environment (SeedFromEnv in internal/services/      *)
(* settings.go), and the two forms on which administrators edit settings   *)
(* while it serves (internal/web/admin_routes.go).                         *)
(*                                                                         *)
(* One process is the server; the others are the commands of               *)
(* cmd/dogecade, which open the same file and exit.  Every SQL statement   *)
(* is an action, a migration with its record is one transaction.  Requests *)
(* run concurrently and may be abandoned between any two statements, when  *)
(* their context is cancelled or a statement fails.                        *)
(*                                                                         *)
(* Left out: the texts, and parsing.  A number that is not set reads as    *)
(* its default, a node setting that is not set as empty.                   *)
(***************************************************************************)
EXTENDS Integers

CONSTANTS
  Process, Server,  \* the processes, and the one that serves
  Last,             \* the embedded migrations are 1..Last
  Settings,         \* the form's numeric settings are 1..Settings
  Default, Least,   \* a setting's default, and the least value it may have
  Input,            \* numbers an administrator may enter
  NodeSettings,     \* the node's settings are 1..NodeSettings
  Pass,             \* ... and this one is node_rpc_pass
  Value, Empty,     \* what a node setting may be, and the empty text
  Request,          \* requests served at a time
  MaxSaves,         \* bound: forms sent in a behaviour
  MaxFaults         \* bound: crashes in a behaviour

Setting == 1..Settings
NodeSetting == 1..NodeSettings
Text == Value \cup {Empty}

ASSUME StartupAssumption ==
  /\ Server \in Process
  /\ Last \in Nat /\ Settings \in Nat /\ NodeSettings \in Nat
  /\ Default \in [Setting -> Int] /\ Least \in [Setting -> Int]
  /\ \A s \in Setting : Default[s] >= Least[s]
  /\ Input \subseteq Int
  /\ Pass \in NodeSetting
  /\ Empty \notin Value
  /\ MaxSaves \in Nat /\ MaxFaults \in Nat

VARIABLES
  applied,   \* versions in schema_migrations
  executed,  \* history: times the statements of a migration were committed
  pc,        \* what a process does next
  at,        \* ... and for which migration, or node setting
  number,    \* the numeric settings
  node,      \* the node's settings
  stage,     \* what a request does next
  place,     \* ... and for which setting
  form,      \* the numbers it was sent
  shown,     \* the numbers it has read back for its page
  texts,     \* the node's settings it was sent
  edited,    \* history: the last text an administrator saved, if any
  since,     \* history: the numbers other requests wrote over a request's own
  blank,     \* history: requests sent without a password
  stale,     \* history: ... of those that read it, where it changed since
  saves,     \* forms sent so far
  faults     \* crashes so far

schema   == <<applied, executed>>
process  == <<pc, at>>
settings == <<number, node, edited>>
requests == <<stage, place, form, shown, texts>>
history  == <<since, blank, stale>>
vars == <<schema, process, settings, requests, history, saves, faults>>

TypeOK ==
  /\ applied \subseteq 1..Last
  /\ executed \in [1..Last -> Nat]
  /\ pc \in [Process -> {"down", "check", "apply", "seed", "run"}]
  /\ at \in [Process -> Nat]
  /\ \A p \in Process :
       /\ pc[p] = "check" => at[p] \in 1..Last + 1
       /\ pc[p] = "apply" => at[p] \in 1..Last
       /\ pc[p] = "seed" => p = Server /\ at[p] \in 1..NodeSettings + 1
  /\ number \in [Setting -> Int]
  /\ node \in [NodeSetting -> Text]
  /\ edited \in [NodeSetting -> Text]
  /\ stage \in [Request -> {"none", "write", "load", "read", "node"}]
  /\ place \in [Request -> Nat]
  /\ \A r \in Request :
       /\ stage[r] \in {"write", "load"} => place[r] \in 1..Settings + 1
       /\ stage[r] = "node" => place[r] \in 1..NodeSettings + 1
  /\ form \in [Request -> [Setting -> Int]]
  /\ shown \in [Request -> [Setting -> Int]]
  /\ texts \in [Request -> [NodeSetting -> Text]]
  /\ since \in [Request -> SUBSET (Setting \X Int)]
  /\ blank \subseteq Request /\ stale \subseteq Request
  /\ saves \in Nat /\ faults \in Nat

Blank == [k \in NodeSetting |-> Empty]

Init ==
  /\ applied = {} /\ executed = [v \in 1..Last |-> 0]
  /\ pc = [p \in Process |-> "down"] /\ at = [p \in Process |-> 1]
  /\ number = Default
  /\ node = Blank /\ edited = Blank
  /\ stage = [r \in Request |-> "none"] /\ place = [r \in Request |-> 1]
  /\ form = [r \in Request |-> Default] /\ shown = form
  /\ texts = [r \in Request |-> Blank]
  /\ since = [r \in Request |-> {}] /\ blank = {} /\ stale = {}
  /\ saves = 0 /\ faults = 0

-----------------------------------------------------------------------------
(* Opening the database.                                                   *)

GoTo(p, step, n) ==
  /\ pc' = [pc EXCEPT ![p] = step] /\ at' = [at EXCEPT ![p] = n]

\* store.Open; schema_migrations is created unless it exists.
Open(p) ==
  /\ pc[p] = "down"
  /\ GoTo(p, "check", 1)
  /\ UNCHANGED <<schema, settings, requests, history, saves, faults>>

\* Faulty: what was applied is not looked up.
CheckNothing(p) ==
  /\ pc[p] = "check"
  /\ IF at[p] <= Last THEN GoTo(p, "apply", at[p])
     ELSE GoTo(p, IF p = Server THEN "seed" ELSE "run", 1)
  /\ UNCHANGED <<schema, settings, requests, history, saves, faults>>

\* runMigrations: whether the next version is recorded.
CheckMigration(p) ==
  /\ pc[p] = "check"
  /\ CASE at[p] \in applied -> GoTo(p, "check", at[p] + 1)
       [] at[p] \in (1..Last) \ applied -> GoTo(p, "apply", at[p])
       [] OTHER -> GoTo(p, IF p = Server THEN "seed" ELSE "run", 1)
  /\ UNCHANGED <<schema, settings, requests, history, saves, faults>>

\* Faulty: the statements and the record are committed apart, and the process
\* may stop between the two.
ApplyUnrecorded(p) ==
  /\ pc[p] = "apply" /\ at[p] \notin applied
  /\ executed' = [executed EXCEPT ![at[p]] = @ + 1]
  /\ \/ applied' = applied \cup {at[p]} /\ GoTo(p, "check", at[p] + 1)
     \/ applied' = applied /\ GoTo(p, "down", 1)
  /\ UNCHANGED <<settings, requests, history, saves, faults>>

\* One transaction.  If another process has committed this version since the
\* check, its tables exist, or the record is refused: the transaction is rolled
\* back, Open fails and the process exits.
ApplyMigration(p) ==
  /\ pc[p] = "apply"
  /\ \/ /\ at[p] \notin applied
        /\ applied' = applied \cup {at[p]}
        /\ executed' = [executed EXCEPT ![at[p]] = @ + 1]
        /\ GoTo(p, "check", at[p] + 1)
     \/ /\ at[p] \in applied
        /\ GoTo(p, "down", 1)
        /\ UNCHANGED schema
  /\ UNCHANGED <<settings, requests, history, saves, faults>>

\* Faulty: the environment wins.
SeedAlways ==
  /\ pc[Server] = "seed"
  /\ IF at[Server] \in NodeSetting
     THEN /\ node' \in {[node EXCEPT ![at[Server]] = v] : v \in Value}
          /\ GoTo(Server, "seed", at[Server] + 1)
     ELSE GoTo(Server, "run", 1) /\ UNCHANGED node
  /\ UNCHANGED <<schema, number, edited, requests, history, saves, faults>>

\* SeedFromEnv, one setting at a time: a text of the environment, which may be
\* another one at every boot, goes where there is none.  (The read and the
\* write are one action: nobody else writes settings before the server runs.)
Seed ==
  /\ pc[Server] = "seed"
  /\ IF at[Server] \in NodeSetting
     THEN /\ \/ UNCHANGED node
             \/ /\ node[at[Server]] = Empty
                /\ \E v \in Value : node' = [node EXCEPT ![at[Server]] = v]
          /\ GoTo(Server, "seed", at[Server] + 1)
     ELSE GoTo(Server, "run", 1) /\ UNCHANGED node
  /\ UNCHANGED <<schema, number, edited, requests, history, saves, faults>>

\* A command is done; or a process stops anywhere, with the requests it serves.
Exit(p) ==
  /\ p # Server /\ pc[p] = "run"
  /\ GoTo(p, "down", 1)
  /\ UNCHANGED <<schema, settings, requests, history, saves, faults>>

Crash(p) ==
  /\ pc[p] # "down"
  /\ faults < MaxFaults /\ faults' = faults + 1
  /\ GoTo(p, "down", 1)
  /\ IF p = Server
     THEN /\ stage' = [r \in Request |-> "none"]
          /\ place' = [r \in Request |-> 1]
          /\ form' = [r \in Request |-> Default] /\ shown' = form'
          /\ texts' = [r \in Request |-> Blank]
          /\ since' = [r \in Request |-> {}] /\ blank' = {} /\ stale' = {}
     ELSE UNCHANGED <<requests, history>>
  /\ UNCHANGED <<schema, settings, saves>>

-----------------------------------------------------------------------------
(* The forms.                                                              *)

Arrive(r) ==
  /\ pc[Server] = "run" /\ stage[r] = "none"
  /\ saves < MaxSaves /\ saves' = saves + 1

\* A request ends, with its page or with an error at any of its statements:
\* what it has written stays.
Forget(r) ==
  /\ stage' = [stage EXCEPT ![r] = "none"] /\ place' = [place EXCEPT ![r] = 1]
  /\ form' = [form EXCEPT ![r] = Default]
  /\ shown' = [shown EXCEPT ![r] = Default]
  /\ texts' = [texts EXCEPT ![r] = Blank]
  /\ since' = [since EXCEPT ![r] = {}]
  /\ blank' = blank \ {r} /\ stale' = stale \ {r}

RequestEnds(r) ==
  /\ stage[r] # "none"
  /\ Forget(r)
  /\ UNCHANGED <<schema, process, settings, saves, faults>>

\* The form's checks: a price, a limit of attempts or of credits is positive.
Valid(f) == \A s \in Setting : f[s] >= Least[s]

\* handleAdminSettingsSave: a form is refused as a whole, before any write.
SaveSettings(r) ==
  /\ Arrive(r)
  /\ \E f \in [Setting -> Input] :
       Valid(f) /\ form' = [form EXCEPT ![r] = f]
  /\ stage' = [stage EXCEPT ![r] = "write"]
  /\ UNCHANGED <<schema, process, settings, place, shown, texts, history,
                 faults>>

\* The form of request r has written setting s.
Written(r, s) == stage[r] = "load" \/ (stage[r] = "write" /\ s < place[r])

\* Request r writes a number that other requests have written.
Overwritten(r, s) ==
  since' = [q \in Request |->
    IF q # r /\ Written(q, s) THEN since[q] \cup {<<s, form[r][s]>>} ELSE since[q]]

\* Faulty: the page is read while the last number is still to be written.
WriteAllButOne(r) ==
  /\ stage[r] = "write"
  /\ IF place[r] < Settings
     THEN /\ number' = [number EXCEPT ![place[r]] = form[r][place[r]]]
          /\ place' = [place EXCEPT ![r] = @ + 1]
          /\ Overwritten(r, place[r])
          /\ UNCHANGED stage
     ELSE /\ stage' = [stage EXCEPT ![r] = "load"]
          /\ place' = [place EXCEPT ![r] = 1]
          /\ UNCHANGED <<number, since>>
  /\ UNCHANGED <<schema, process, node, edited, form, shown, texts, blank,
                 stale, saves, faults>>

\* The setters in turn, each an upsert of its own.
WriteSetting(r) ==
  /\ stage[r] = "write"
  /\ IF place[r] \in Setting
     THEN /\ number' = [number EXCEPT ![place[r]] = form[r][place[r]]]
          /\ place' = [place EXCEPT ![r] = @ + 1]
          /\ Overwritten(r, place[r])
          /\ UNCHANGED stage
     ELSE /\ stage' = [stage EXCEPT ![r] = "load"]
          /\ place' = [place EXCEPT ![r] = 1]
          /\ UNCHANGED <<number, since>>
  /\ UNCHANGED <<schema, process, node, edited, form, shown, texts, blank,
                 stale, saves, faults>>

\* loadAdminSettingsData, a query for each number of the page "Saved".
LoadSetting(r) ==
  /\ stage[r] = "load" /\ place[r] \in Setting
  /\ shown' = [shown EXCEPT ![r][place[r]] = number[place[r]]]
  /\ place' = [place EXCEPT ![r] = @ + 1]
  /\ UNCHANGED <<schema, process, settings, stage, form, texts, history, saves,
                 faults>>

\* handleAdminNodeSettingsSave.
SaveNode(r) ==
  /\ Arrive(r)
  /\ \E t \in [NodeSetting -> Text] :
       /\ texts' = [texts EXCEPT ![r] = t]
       /\ blank' = IF t[Pass] = Empty THEN blank \cup {r} ELSE blank
  /\ stage' = [stage EXCEPT ![r] = "read"]
  /\ UNCHANGED <<schema, process, settings, place, form, shown, since, stale,
                 faults>>

\* Faulty: no password means no password.
ReadNothing(r) ==
  /\ stage[r] = "read"
  /\ stage' = [stage EXCEPT ![r] = "node"]
  /\ UNCHANGED <<schema, process, settings, place, form, shown, texts, history,
                 saves, faults>>

\* nodeConfigFromForm: without a password the saved one is taken.
ReadPassword(r) ==
  /\ stage[r] = "read"
  /\ texts' = IF texts[r][Pass] = Empty
              THEN [texts EXCEPT ![r][Pass] = node[Pass]] ELSE texts
  /\ stage' = [stage EXCEPT ![r] = "node"]
  /\ UNCHANGED <<schema, process, settings, place, form, shown, history, saves,
                 faults>>

\* SetNodeRPCConfig, each text an upsert of its own, the password's too.
WriteNode(r) ==
  /\ stage[r] = "node" /\ place[r] \in NodeSetting
  /\ node' = [node EXCEPT ![place[r]] = texts[r][place[r]]]
  /\ edited' = [edited EXCEPT ![place[r]] = texts[r][place[r]]]
  /\ place' = [place EXCEPT ![r] = @ + 1]
  /\ stale' = IF node'[Pass] # node[Pass]
              THEN stale \cup {q \in Request : stage[q] = "node"} ELSE stale
  /\ UNCHANGED <<schema, process, number, stage, form, shown, texts, since,
                 blank, saves, faults>>

-----------------------------------------------------------------------------
\* What a process does to get from its start to its work.
Boot(p) ==
  Open(p) \/ CheckMigration(p) \/ ApplyMigration(p) \/ (p = Server /\ Seed)

Serve(r) ==
  \/ SaveSettings(r) \/ WriteSetting(r) \/ LoadSetting(r)
  \/ SaveNode(r) \/ ReadPassword(r) \/ WriteNode(r)
  \/ RequestEnds(r)

Next ==
  \/ \E p \in Process : Boot(p) \/ Exit(p) \/ Crash(p)
  \/ \E r \in Request : Serve(r)

Spec == Init /\ [][Next]_vars

\* The server is started again whenever it has stopped (docker-compose.yml:15,
\* restart: unless-stopped), and its start-up makes progress.
FairSpec == Spec /\ WF_vars(Boot(Server))

-----------------------------------------------------------------------------
(* Properties.                                                             *)

\* A migration is executed once whatever processes open the database at the
\* same time and wherever they stop, in order, and all of them before a process
\* works on the data.
MigratedOnce ==
  /\ \A v \in 1..Last : executed[v] = IF v \in applied THEN 1 ELSE 0
  /\ \A v \in applied : 1..v \subseteq applied
  /\ \A p \in Process : pc[p] \in {"seed", "run"} => applied = 1..Last

\* The credit hook divides by the token price and the dispatcher counts to
\* relay_max_attempts: through forms that overlap or are cut short, no number is
\* ever less than it may be.
NumbersUsable == \A s \in Setting : number[s] >= Least[s]

\* The page "Saved" shows the numbers that were sent: through any overlap of
\* forms, a number it shows is its own or one that another form wrote over it,
\* never one from before or one that was about to be replaced.
SavedPageIsTrue ==
  \A r \in Request : stage[r] = "load" =>
    \A s \in Setting : s < place[r] =>
      shown[r][s] = form[r][s] \/ <<s, shown[r][s]>> \in since[r]

\* Seeding never clobbers what an administrator saved, at no later boot and
\* with no other environment (an emptied setting is seeded anew).
EditsSurviveBoots ==
  \A k \in NodeSetting : edited[k] # Empty => node[k] = edited[k]

\* A form sent without a password leaves the password as it is, unless another
\* one changed it between this one's read and its write.
PasswordKept ==
  [][\A r \in Request :
       /\ stage[r] = "node" /\ place[r] = Pass /\ place'[r] = Pass + 1
       /\ r \in blank \ stale
       => node'[Pass] = node[Pass]]_vars

\* The server serves in the end, however often a command ran the migrations
\* first and its own start failed.
ServerServes == <>[](pc[Server] = "run")

=============================================================================
