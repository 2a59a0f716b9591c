---------------------------- MODULE StartupProofs ----------------------------
(***************************************************************************)
(* Proofs about start-up and the settings, for any processes, migrations,  *)
(* settings and requests and any number of crashes: type correctness, each *)
(* migration once and in order, numbers that can be used, a page that shows*)
(* what was saved, edits that survive boots, and passwords that are kept.  *)
(***************************************************************************)
EXTENDS Startup, TLAPS

-----------------------------------------------------------------------------
(* The inductive invariant.                                                *)

\* A process that has come to a migration has seen the earlier ones recorded.
EarlierApplied ==
  \A p \in Process :
    pc[p] \in {"check", "apply"} => \A v \in 1..Last : v < at[p] => v \in applied

SchemaInv == MigratedOnce /\ EarlierApplied

\* Requests are served by a running server; a form that is written was valid.
RequestsOK ==
  \A r \in Request :
    /\ stage[r] # "none" => pc[Server] = "run"
    /\ stage[r] \in {"none", "read"} => place[r] = 1
    /\ stage[r] = "none" => r \notin blank
    /\ stage[r] = "write" => Valid(form[r])

\* What a request has written is still there, or what was written over it.
WrittenStays ==
  \A r \in Request, s \in Setting :
    Written(r, s) => number[s] = form[r][s] \/ <<s, number[s]>> \in since[r]

PageInv == WrittenStays /\ SavedPageIsTrue

\* A request without a password holds the one that is saved, from its read to
\* its write.
PasswordHeld ==
  \A r \in blank \ stale :
    /\ stage[r] = "read" => texts[r][Pass] = Empty
    /\ stage[r] = "node" /\ place[r] <= Pass => texts[r][Pass] = node[Pass]

StartupInv ==
  /\ TypeOK /\ SchemaInv /\ RequestsOK /\ NumbersUsable /\ PageInv
  /\ EditsSurviveBoots /\ PasswordHeld

-----------------------------------------------------------------------------
(* Each action preserves each part.                                        *)

\* The parts of TypeOK that the processes and the requests change.
ProcessTypes ==
  /\ pc \in [Process -> {"down", "check", "apply", "seed", "run"}]
  /\ at \in [Process -> Nat]
  /\ \A p \in Process :
       /\ pc[p] = "check" => at[p] \in 1..Last + 1
       /\ pc[p] = "apply" => at[p] \in 1..Last
       /\ pc[p] = "seed" => p = Server /\ at[p] \in 1..NodeSettings + 1

RequestTypes ==
  /\ stage \in [Request -> {"none", "write", "load", "read", "node"}]
  /\ place \in [Request -> Nat]
  /\ \A r \in Request :
       /\ stage[r] \in {"write", "load"} => place[r] \in 1..Settings + 1
       /\ stage[r] = "node" => place[r] \in 1..NodeSettings + 1
  /\ form \in [Request -> [Setting -> Int]]
  /\ shown \in [Request -> [Setting -> Int]]
  /\ texts \in [Request -> [NodeSetting -> Text]]
  /\ since \in [Request -> SUBSET (Setting \X Int)]
  /\ blank \subseteq Request /\ stale \subseteq Request

\* A process goes to a migration or a setting there is.
LEMMA GoToTypes ==
  ASSUME TypeOK, NEW p \in Process, NEW n \in Nat,
         NEW step \in {"down", "check", "apply", "seed", "run"},
         GoTo(p, step, n),
         step = "check" => n \in 1..Last + 1,
         step = "apply" => n \in 1..Last,
         step = "seed" => p = Server /\ n \in 1..NodeSettings + 1
  PROVE  ProcessTypes'
  BY DEF TypeOK, GoTo, ProcessTypes

\* The parts, and when they are left alone.
OtherTypes ==
  /\ applied \subseteq 1..Last /\ executed \in [1..Last -> Nat]
  /\ number \in [Setting -> Int]
  /\ node \in [NodeSetting -> Text] /\ edited \in [NodeSetting -> Text]
  /\ saves \in Nat /\ faults \in Nat

others == <<schema, settings, saves, faults>>

\* The types are those of the processes, of the requests and of the rest.
LEMMA TypeParts == /\ TypeOK <=> ProcessTypes /\ RequestTypes /\ OtherTypes
                   /\ TypeOK' <=> ProcessTypes' /\ RequestTypes' /\ OtherTypes'
  BY DEF TypeOK, ProcessTypes, RequestTypes, OtherTypes

\* Where no process moves its types hold,
LEMMA ProcessesKept == TypeOK /\ UNCHANGED process => ProcessTypes'
  BY DEF TypeOK, ProcessTypes, process

\* ... where no request moves the requests',
LEMMA RequestsKept == TypeOK /\ UNCHANGED <<requests, history>> => RequestTypes'
  BY DEF TypeOK, RequestTypes, requests, history

\* ... and likewise for the rest.
LEMMA OthersKept == TypeOK /\ UNCHANGED others => OtherTypes'
  BY DEF TypeOK, OtherTypes, others, schema, settings

\* A form that was not sent is empty.
LEMMA BlankType == Blank \in [NodeSetting -> Text]
  BY DEF Blank, Text

\* The types; a process is at a migration or a setting there is.
LEMMA TypeStep ==
  ASSUME TypeOK, RequestsOK, [Next]_vars
  PROVE  TypeOK'
<1>1. ASSUME NEW p \in Process, Open(p) PROVE TypeOK'
  BY <1>1, StartupAssumption
     DEF Open, GoTo, TypeOK, Setting, NodeSetting, schema, process, settings,
         requests, history
<1>2. ASSUME NEW p \in Process, CheckMigration(p) PROVE TypeOK'
  <2>1. \/ at[p] \in applied /\ GoTo(p, "check", at[p] + 1)
        \/ at[p] \in (1..Last) \ applied /\ GoTo(p, "apply", at[p])
        \/ GoTo(p, IF p = Server THEN "seed" ELSE "run", 1)
    BY <1>2 DEF CheckMigration
  <2>2. /\ at[p] \in Nat /\ 1 \in 1..NodeSettings + 1
        /\ at[p] \in applied => at[p] + 1 \in 1..Last + 1
    BY StartupAssumption DEF TypeOK
  <2>3. ProcessTypes'
    BY <2>1, <2>2, GoToTypes
  <2>4. UNCHANGED <<others, requests, history>>
    BY <1>2 DEF CheckMigration, schema, settings, others
  <2> QED BY <2>3, <2>4, TypeParts, RequestsKept, OthersKept
<1>3. ASSUME NEW p \in Process, ApplyMigration(p) PROVE TypeOK'
  <2>1. at[p] \in 1..Last /\ at[p] + 1 \in 1..Last + 1 /\ at[p] + 1 \in Nat
    BY <1>3, StartupAssumption DEF ApplyMigration, TypeOK
  <2>2. GoTo(p, "check", at[p] + 1) \/ GoTo(p, "down", 1)
    BY <1>3 DEF ApplyMigration
  <2>3. ProcessTypes'
    BY <2>1, <2>2, GoToTypes
  <2>4. applied' \subseteq 1..Last /\ executed' \in [1..Last -> Nat]
    <3>1. CASE at[p] \notin applied
      <4>1. /\ applied' = applied \cup {at[p]}
            /\ executed' = [executed EXCEPT ![at[p]] = @ + 1]
        BY <1>3, <3>1 DEF ApplyMigration
      <4>2. at[p] \in 1..Last /\ executed[at[p]] + 1 \in Nat
        BY <2>1 DEF TypeOK
      <4>3. executed' \in [1..Last -> Nat]
        BY <4>1, <4>2 DEF TypeOK
      <4>4. applied' \subseteq 1..Last
        BY <4>1, <4>2 DEF TypeOK
      <4> QED BY <4>3, <4>4
    <3>2. CASE at[p] \in applied
      <4>1. applied' = applied /\ executed' = executed
        BY <1>3, <3>2 DEF ApplyMigration, schema
      <4> QED BY <4>1 DEF TypeOK
    <3> QED BY <3>1, <3>2
  <2>5. UNCHANGED <<number, node, edited, requests, history, saves, faults>>
    BY <1>3 DEF ApplyMigration, settings
  <2>6. OtherTypes'
    BY <2>4, <2>5 DEF OtherTypes, TypeOK
  <2> QED BY <2>3, <2>5, <2>6, TypeParts, RequestsKept
<1>4. ASSUME Seed PROVE TypeOK'
  <2>1. \/ /\ at[Server] \in 1..NodeSettings
           /\ GoTo(Server, "seed", at[Server] + 1)
        \/ GoTo(Server, "run", 1)
    BY <1>4 DEF Seed, NodeSetting
  <2>2. /\ Server \in Process /\ at[Server] + 1 \in Nat
        /\ at[Server] \in 1..NodeSettings =>
             at[Server] + 1 \in 1..NodeSettings + 1
    BY StartupAssumption DEF TypeOK
  <2>3. ProcessTypes'
    BY <2>1, <2>2, GoToTypes
  <2>4. node' \in [NodeSetting -> Text]
    BY <1>4 DEF Seed, Text, TypeOK
  <2>5. UNCHANGED <<schema, number, edited, requests, history, saves, faults>>
    BY <1>4 DEF Seed
  <2>6. OtherTypes'
    BY <2>4, <2>5 DEF OtherTypes, TypeOK, schema
  <2> QED BY <2>3, <2>5, <2>6, TypeParts, RequestsKept
<1>5. ASSUME NEW p \in Process, Exit(p) PROVE TypeOK'
  BY <1>5, StartupAssumption
     DEF Exit, GoTo, TypeOK, Setting, NodeSetting, schema, process, settings,
         requests, history
<1>6. ASSUME NEW p \in Process, Crash(p) PROVE TypeOK'
  <2>1. ProcessTypes'
    BY <1>6, GoToTypes DEF Crash
  <2>2. RequestTypes'
    <3>1. CASE p = Server
      <4>1. /\ stage' = [r \in Request |-> "none"]
            /\ place' = [r \in Request |-> 1]
            /\ form' = [r \in Request |-> Default] /\ shown' = form'
            /\ texts' = [r \in Request |-> Blank]
            /\ since' = [r \in Request |-> {}] /\ blank' = {} /\ stale' = {}
        BY <1>6, <3>1 DEF Crash
      <4> QED BY <4>1, BlankType, StartupAssumption DEF RequestTypes
    <3>2. CASE p # Server
      BY <1>6, <3>2, RequestsKept DEF Crash
    <3> QED BY <3>1, <3>2
  <2>3. OtherTypes'
    BY <1>6 DEF Crash, OtherTypes, TypeOK, schema, settings
  <2> QED BY <2>1, <2>2, <2>3, TypeParts
<1>7. ASSUME NEW r \in Request, SaveSettings(r) PROVE TypeOK'
  <2>1. form' \in [Request -> [Setting -> Int]]
    <3>1. PICK f \in [Setting -> Input] : form' = [form EXCEPT ![r] = f]
      BY <1>7 DEF SaveSettings
    <3>2. f \in [Setting -> Int]
      BY StartupAssumption
    <3> QED BY <3>1, <3>2 DEF TypeOK
  <2>2. /\ stage' = [stage EXCEPT ![r] = "write"] /\ place[r] = 1
        /\ 1 \in 1..Settings + 1
        /\ UNCHANGED <<place, shown, texts, since, blank, stale>>
    BY <1>7, StartupAssumption DEF SaveSettings, Arrive, RequestsOK, history
  <2>3. RequestTypes'
    BY <2>1, <2>2, TypeParts DEF RequestTypes
  <2>4. OtherTypes' /\ UNCHANGED process
    BY <1>7 DEF SaveSettings, Arrive, OtherTypes, TypeOK, schema, settings
  <2> QED BY <2>3, <2>4, TypeParts, ProcessesKept
<1>8. ASSUME NEW r \in Request, WriteSetting(r) PROVE TypeOK'
  <2>1. number' \in [Setting -> Int]
    BY <1>8 DEF WriteSetting, TypeOK
  <2>2. /\ UNCHANGED <<form, shown, texts, blank, stale>>
        /\ since' \in [Request -> SUBSET (Setting \X Int)]
    <3>1. CASE place[r] \in Setting
      <4>1. <<place[r], form[r][place[r]]>> \in Setting \X Int
        BY <3>1 DEF TypeOK
      <4>2. Overwritten(r, place[r])
        BY <1>8, <3>1 DEF WriteSetting
      <4>3. since' \in [Request -> SUBSET (Setting \X Int)]
        BY <4>1, <4>2 DEF Overwritten, TypeOK
      <4> QED BY <1>8, <4>3 DEF WriteSetting
    <3>2. CASE place[r] \notin Setting
      BY <1>8, <3>2 DEF WriteSetting, TypeOK
    <3> QED BY <3>1, <3>2
  <2>3. ASSUME place[r] \in Setting PROVE RequestTypes'
    <3>1. /\ stage[r] = "write" /\ UNCHANGED stage
          /\ place' = [place EXCEPT ![r] = @ + 1]
          /\ place[r] + 1 \in 1..Settings + 1 /\ place[r] + 1 \in Nat
      BY <1>8, <2>3, StartupAssumption DEF WriteSetting, Setting
    <3> QED BY <2>2, <3>1, TypeParts DEF RequestTypes
  <2>4. ASSUME place[r] \notin Setting PROVE RequestTypes'
    <3>1. /\ stage' = [stage EXCEPT ![r] = "load"]
          /\ place' = [place EXCEPT ![r] = 1] /\ 1 \in 1..Settings + 1
      BY <1>8, <2>4, StartupAssumption DEF WriteSetting
    <3> QED BY <2>2, <3>1, TypeParts DEF RequestTypes
  <2>5. RequestTypes'
    BY <2>3, <2>4
  <2>6. OtherTypes' /\ UNCHANGED process
    BY <1>8, <2>1 DEF WriteSetting, OtherTypes, TypeOK, schema
  <2> QED BY <2>5, <2>6, TypeParts, ProcessesKept
<1>9. ASSUME NEW r \in Request, LoadSetting(r) PROVE TypeOK'
  <2>1. shown' \in [Request -> [Setting -> Int]]
    BY <1>9 DEF LoadSetting, TypeOK
  <2>2. /\ stage[r] = "load"
        /\ place' = [place EXCEPT ![r] = @ + 1]
        /\ place[r] + 1 \in 1..Settings + 1 /\ place[r] + 1 \in Nat
        /\ UNCHANGED <<stage, form, texts, since, blank, stale>>
    BY <1>9, StartupAssumption DEF LoadSetting, Setting, history
  <2>3. RequestTypes'
    BY <2>1, <2>2, TypeParts DEF RequestTypes
  <2>4. OtherTypes' /\ UNCHANGED process
    BY <1>9 DEF LoadSetting, OtherTypes, TypeOK, schema, settings
  <2> QED BY <2>3, <2>4, TypeParts, ProcessesKept
<1>10. ASSUME NEW r \in Request, SaveNode(r) PROVE TypeOK'
  <2>1. PICK t \in [NodeSetting -> Text] :
          /\ texts' = [texts EXCEPT ![r] = t]
          /\ blank' = IF t[Pass] = Empty THEN blank \cup {r} ELSE blank
    BY <1>10 DEF SaveNode
  <2>2. /\ stage' = [stage EXCEPT ![r] = "read"]
        /\ UNCHANGED <<place, form, shown, since, stale>>
    BY <1>10 DEF SaveNode
  <2>3. RequestTypes'
    BY <2>1, <2>2, TypeParts DEF RequestTypes
  <2>4. OtherTypes' /\ UNCHANGED process
    BY <1>10 DEF SaveNode, Arrive, OtherTypes, TypeOK, schema, settings
  <2> QED BY <2>3, <2>4, TypeParts, ProcessesKept
<1>11. ASSUME NEW r \in Request, ReadPassword(r) PROVE TypeOK'
  <2>1. texts' \in [Request -> [NodeSetting -> Text]]
    BY <1>11, StartupAssumption DEF ReadPassword, TypeOK
  <2>2. /\ stage' = [stage EXCEPT ![r] = "node"] /\ place[r] = 1
        /\ 1 \in 1..NodeSettings + 1
        /\ UNCHANGED <<place, form, shown, since, blank, stale>>
    BY <1>11, StartupAssumption DEF ReadPassword, RequestsOK, history
  <2>3. RequestTypes'
    BY <2>1, <2>2, TypeParts DEF RequestTypes
  <2>4. OtherTypes' /\ UNCHANGED process
    BY <1>11 DEF ReadPassword, OtherTypes, TypeOK, schema, settings
  <2> QED BY <2>3, <2>4, TypeParts, ProcessesKept
<1>12. ASSUME NEW r \in Request, WriteNode(r) PROVE TypeOK'
  <2>1. node' \in [NodeSetting -> Text] /\ edited' \in [NodeSetting -> Text]
    BY <1>12 DEF WriteNode, TypeOK
  <2>2. /\ stage[r] = "node"
        /\ place' = [place EXCEPT ![r] = @ + 1]
        /\ place[r] + 1 \in 1..NodeSettings + 1 /\ place[r] + 1 \in Nat
        /\ UNCHANGED <<stage, form, shown, texts, since, blank>>
        /\ stale' \subseteq Request
    BY <1>12, StartupAssumption DEF WriteNode, NodeSetting, TypeOK
  <2>3. RequestTypes'
    BY <2>2, TypeParts DEF RequestTypes
  <2>4. OtherTypes' /\ UNCHANGED process
    BY <1>12, <2>1 DEF WriteNode, OtherTypes, TypeOK, schema
  <2> QED BY <2>3, <2>4, TypeParts, ProcessesKept
<1>13. ASSUME NEW r \in Request, RequestEnds(r) PROVE TypeOK'
  <2>1. RequestTypes'
    BY <1>13, BlankType, StartupAssumption, TypeParts
       DEF RequestEnds, Forget, RequestTypes
  <2>2. OtherTypes' /\ UNCHANGED process
    BY <1>13 DEF RequestEnds, OtherTypes, TypeOK, schema, settings
  <2> QED BY <2>1, <2>2, TypeParts, ProcessesKept
<1>14. CASE UNCHANGED vars
  BY <1>14 DEF vars, TypeOK, schema, process, settings, requests, history
<1> QED BY <1>1, <1>2, <1>3, <1>4, <1>5, <1>6, <1>7, <1>8, <1>9, <1>10, <1>11,
           <1>12, <1>13, <1>14
        DEF Next, Boot, Serve

\* A migration is committed with its record, by the first process to come.
LEMMA SchemaStep ==
  ASSUME TypeOK, SchemaInv, [Next]_vars
  PROVE  SchemaInv'
<1>1. ASSUME NEW p \in Process, Open(p) PROVE SchemaInv'
  BY <1>1, StartupAssumption
     DEF Open, GoTo, TypeOK, SchemaInv, MigratedOnce, EarlierApplied, Setting,
         NodeSetting, schema, process, settings, requests, history
<1>2. ASSUME NEW p \in Process, CheckMigration(p) PROVE SchemaInv'
  <2>1. \/ at[p] \in applied /\ GoTo(p, "check", at[p] + 1)
        \/ at[p] \in (1..Last) \ applied /\ GoTo(p, "apply", at[p])
        \/ /\ at[p] \notin 1..Last
           /\ GoTo(p, IF p = Server THEN "seed" ELSE "run", 1)
    BY <1>2 DEF CheckMigration, TypeOK
  <2>2. pc[p] = "check" /\ UNCHANGED <<applied, executed>>
    BY <1>2 DEF CheckMigration, schema
  <2>3. /\ at[p] \in 1..Last + 1 /\ applied \subseteq 1..Last
        /\ \A v \in 1..Last : v < at[p] => v \in applied
    BY <2>2 DEF TypeOK, SchemaInv, EarlierApplied
  <2>4. at[p] \notin 1..Last => applied = 1..Last
    <3>1. SUFFICES ASSUME at[p] \notin 1..Last, NEW v \in 1..Last
                   PROVE  v \in applied
      BY <2>3
    <3>2. v < at[p]
      BY <2>3, <3>1, StartupAssumption
    <3> QED BY <2>3, <3>2
  <2>5. MigratedOnce'
    BY <2>1, <2>2, <2>4 DEF GoTo, SchemaInv, MigratedOnce, TypeOK
  <2>6. EarlierApplied'
    <3>1. SUFFICES ASSUME NEW q \in Process, pc'[q] \in {"check", "apply"},
                          NEW v \in 1..Last, v < at'[q]
                   PROVE  v \in applied
      BY <2>2 DEF EarlierApplied
    <3>2. CASE q # p
      BY <2>1, <3>1, <3>2 DEF GoTo, SchemaInv, EarlierApplied, TypeOK
    <3>3. CASE q = p
      BY <2>1, <2>3, <3>1, <3>3 DEF GoTo, TypeOK
    <3> QED BY <3>2, <3>3
  <2> QED BY <2>5, <2>6 DEF SchemaInv
<1>3. ASSUME NEW p \in Process, ApplyMigration(p) PROVE SchemaInv'
  <2>1. /\ pc[p] = "apply" /\ at[p] \in 1..Last
        /\ \A v \in 1..Last : v < at[p] => v \in applied
    BY <1>3 DEF ApplyMigration, TypeOK, SchemaInv, EarlierApplied
  <2>2. CASE at[p] \notin applied
    <3>1. /\ applied' = applied \cup {at[p]}
          /\ executed' = [executed EXCEPT ![at[p]] = @ + 1]
          /\ pc' = [pc EXCEPT ![p] = "check"]
          /\ at' = [at EXCEPT ![p] = at[p] + 1]
      BY <1>3, <2>2 DEF ApplyMigration, GoTo
    <3>2. \A v \in 1..Last : executed'[v] = IF v \in applied' THEN 1 ELSE 0
      BY <2>1, <2>2, <3>1 DEF SchemaInv, MigratedOnce, TypeOK
    <3>3. ASSUME NEW v \in applied', NEW w \in 1..v PROVE w \in applied'
      <4>1. CASE v \in applied
        BY <3>1, <3>3, <4>1 DEF SchemaInv, MigratedOnce
      <4>2. CASE v = at[p]
        <5>1. w = at[p] \/ (w \in 1..Last /\ w < at[p])
          BY <2>1, <3>3, <4>2, StartupAssumption
        <5> QED BY <2>1, <3>1, <5>1
      <4> QED BY <3>1, <4>1, <4>2
    <3>4. \A q \in Process : pc'[q] \in {"seed", "run"} => applied' = 1..Last
      BY <2>1, <2>2, <3>1 DEF SchemaInv, MigratedOnce, TypeOK
    <3>5. ASSUME NEW q \in Process, pc'[q] \in {"check", "apply"},
                 NEW v \in 1..Last, v < at'[q]
          PROVE  v \in applied'
      <4>1. CASE q # p
        BY <3>1, <3>5, <4>1 DEF SchemaInv, EarlierApplied, TypeOK
      <4>2. CASE q = p
        <5>1. v < at[p] \/ v = at[p]
          BY <2>1, <3>1, <3>5, <4>2 DEF TypeOK
        <5> QED BY <2>1, <3>1, <5>1
      <4> QED BY <4>1, <4>2
    <3> QED BY <3>2, <3>3, <3>4, <3>5 DEF SchemaInv, MigratedOnce, EarlierApplied
  <2>3. CASE at[p] \in applied
    <3>1. /\ UNCHANGED <<applied, executed>>
          /\ pc' = [pc EXCEPT ![p] = "down"] /\ at' = [at EXCEPT ![p] = 1]
      BY <1>3, <2>3 DEF ApplyMigration, GoTo, schema
    <3> QED BY <3>1 DEF SchemaInv, MigratedOnce, EarlierApplied, TypeOK
  <2> QED BY <2>2, <2>3
<1>4. ASSUME Seed PROVE SchemaInv'
  BY <1>4, StartupAssumption
     DEF Seed, GoTo, TypeOK, SchemaInv, MigratedOnce, EarlierApplied, Setting,
         NodeSetting, schema, process, settings, requests, history
<1>5. ASSUME NEW p \in Process, Exit(p) PROVE SchemaInv'
  BY <1>5, StartupAssumption
     DEF Exit, GoTo, TypeOK, SchemaInv, MigratedOnce, EarlierApplied, Setting,
         NodeSetting, schema, process, settings, requests, history
<1>6. ASSUME NEW p \in Process, Crash(p) PROVE SchemaInv'
  BY <1>6, StartupAssumption
     DEF Crash, GoTo, TypeOK, SchemaInv, MigratedOnce, EarlierApplied, Setting,
         NodeSetting, schema, process, settings, requests, history
<1>7. ASSUME NEW r \in Request, SaveSettings(r) PROVE SchemaInv'
  BY <1>7, StartupAssumption
     DEF SaveSettings, Arrive, TypeOK, SchemaInv, MigratedOnce, EarlierApplied,
         Setting, NodeSetting, schema, process, settings, requests, history
<1>8. ASSUME NEW r \in Request, WriteSetting(r) PROVE SchemaInv'
  BY <1>8, StartupAssumption
     DEF WriteSetting, TypeOK, SchemaInv, MigratedOnce, EarlierApplied,
         Setting, NodeSetting, schema, process, settings, requests, history
<1>9. ASSUME NEW r \in Request, LoadSetting(r) PROVE SchemaInv'
  BY <1>9, StartupAssumption
     DEF LoadSetting, TypeOK, SchemaInv, MigratedOnce, EarlierApplied, Setting,
         NodeSetting, schema, process, settings, requests, history
<1>10. ASSUME NEW r \in Request, SaveNode(r) PROVE SchemaInv'
  BY <1>10, StartupAssumption
     DEF SaveNode, Arrive, TypeOK, SchemaInv, MigratedOnce, EarlierApplied,
         Setting, NodeSetting, schema, process, settings, requests, history
<1>11. ASSUME NEW r \in Request, ReadPassword(r) PROVE SchemaInv'
  BY <1>11, StartupAssumption
     DEF ReadPassword, TypeOK, SchemaInv, MigratedOnce, EarlierApplied,
         Setting, NodeSetting, schema, process, settings, requests, history
<1>12. ASSUME NEW r \in Request, WriteNode(r) PROVE SchemaInv'
  BY <1>12, StartupAssumption
     DEF WriteNode, TypeOK, SchemaInv, MigratedOnce, EarlierApplied, Setting,
         NodeSetting, schema, process, settings, requests, history
<1>13. ASSUME NEW r \in Request, RequestEnds(r) PROVE SchemaInv'
  BY <1>13, StartupAssumption
     DEF RequestEnds, Forget, TypeOK, SchemaInv, MigratedOnce, EarlierApplied,
         Setting, NodeSetting, schema, process, settings, requests, history
<1>14. CASE UNCHANGED vars
  BY <1>14 DEF vars, TypeOK, SchemaInv, MigratedOnce, EarlierApplied, schema,
          process, settings, requests, history
<1> QED BY <1>1, <1>2, <1>3, <1>4, <1>5, <1>6, <1>7, <1>8, <1>9, <1>10, <1>11,
           <1>12, <1>13, <1>14
        DEF Next, Boot, Serve

\* A request begins at its first setting and is gone when the server stops.
LEMMA RequestStep ==
  ASSUME TypeOK, RequestsOK, [Next]_vars
  PROVE  RequestsOK'
<1>1. ASSUME NEW p \in Process, Open(p) PROVE RequestsOK'
  BY <1>1, StartupAssumption
     DEF Open, GoTo, TypeOK, RequestsOK, Setting, NodeSetting, schema, process,
         settings, requests, history
<1>2. ASSUME NEW p \in Process, CheckMigration(p) PROVE RequestsOK'
  BY <1>2, StartupAssumption
     DEF CheckMigration, GoTo, TypeOK, RequestsOK, Setting, NodeSetting,
         schema, process, settings, requests, history
<1>3. ASSUME NEW p \in Process, ApplyMigration(p) PROVE RequestsOK'
  BY <1>3, StartupAssumption
     DEF ApplyMigration, GoTo, TypeOK, RequestsOK, Setting, NodeSetting,
         schema, process, settings, requests, history
<1>4. ASSUME Seed PROVE RequestsOK'
  BY <1>4, StartupAssumption
     DEF Seed, GoTo, TypeOK, RequestsOK, Setting, NodeSetting, schema, process,
         settings, requests, history
<1>5. ASSUME NEW p \in Process, Exit(p) PROVE RequestsOK'
  BY <1>5, StartupAssumption
     DEF Exit, GoTo, TypeOK, RequestsOK, Setting, NodeSetting, schema, process,
         settings, requests, history
<1>6. ASSUME NEW p \in Process, Crash(p) PROVE RequestsOK'
  BY <1>6, StartupAssumption
     DEF Crash, GoTo, TypeOK, RequestsOK, Setting, NodeSetting, schema,
         process, settings, requests, history
<1>7. ASSUME NEW r \in Request, SaveSettings(r) PROVE RequestsOK'
  BY <1>7, StartupAssumption
     DEF SaveSettings, Arrive, TypeOK, RequestsOK, Setting, NodeSetting,
         schema, process, settings, requests, history
<1>8. ASSUME NEW r \in Request, WriteSetting(r) PROVE RequestsOK'
  BY <1>8, StartupAssumption
     DEF WriteSetting, TypeOK, RequestsOK, Setting, NodeSetting, schema,
         process, settings, requests, history
<1>9. ASSUME NEW r \in Request, LoadSetting(r) PROVE RequestsOK'
  BY <1>9, StartupAssumption
     DEF LoadSetting, TypeOK, RequestsOK, Setting, NodeSetting, schema,
         process, settings, requests, history
<1>10. ASSUME NEW r \in Request, SaveNode(r) PROVE RequestsOK'
  BY <1>10, StartupAssumption
     DEF SaveNode, Arrive, TypeOK, RequestsOK, Setting, NodeSetting, schema,
         process, settings, requests, history
<1>11. ASSUME NEW r \in Request, ReadPassword(r) PROVE RequestsOK'
  BY <1>11, StartupAssumption
     DEF ReadPassword, TypeOK, RequestsOK, Setting, NodeSetting, schema,
         process, settings, requests, history
<1>12. ASSUME NEW r \in Request, WriteNode(r) PROVE RequestsOK'
  BY <1>12, StartupAssumption
     DEF WriteNode, TypeOK, RequestsOK, Setting, NodeSetting, schema, process,
         settings, requests, history
<1>13. ASSUME NEW r \in Request, RequestEnds(r) PROVE RequestsOK'
  BY <1>13, StartupAssumption
     DEF RequestEnds, Forget, TypeOK, RequestsOK, Setting, NodeSetting, schema,
         process, settings, requests, history
<1>14. CASE UNCHANGED vars
  BY <1>14 DEF vars, TypeOK, RequestsOK, schema, process, settings, requests,
          history
<1> QED BY <1>1, <1>2, <1>3, <1>4, <1>5, <1>6, <1>7, <1>8, <1>9, <1>10, <1>11,
           <1>12, <1>13, <1>14
        DEF Next, Boot, Serve

\* Only numbers of a valid form are written.
LEMMA NumberStep ==
  ASSUME TypeOK, RequestsOK, NumbersUsable, [Next]_vars
  PROVE  NumbersUsable'
<1>1. ASSUME NEW p \in Process, Open(p) PROVE NumbersUsable'
  BY <1>1, StartupAssumption
     DEF Open, GoTo, TypeOK, RequestsOK, NumbersUsable, Setting, NodeSetting,
         schema, process, settings, requests, history
<1>2. ASSUME NEW p \in Process, CheckMigration(p) PROVE NumbersUsable'
  BY <1>2, StartupAssumption
     DEF CheckMigration, GoTo, TypeOK, RequestsOK, NumbersUsable, Setting,
         NodeSetting, schema, process, settings, requests, history
<1>3. ASSUME NEW p \in Process, ApplyMigration(p) PROVE NumbersUsable'
  BY <1>3, StartupAssumption
     DEF ApplyMigration, GoTo, TypeOK, RequestsOK, NumbersUsable, Setting,
         NodeSetting, schema, process, settings, requests, history
<1>4. ASSUME Seed PROVE NumbersUsable'
  BY <1>4, StartupAssumption
     DEF Seed, GoTo, TypeOK, RequestsOK, NumbersUsable, Setting, NodeSetting,
         schema, process, settings, requests, history
<1>5. ASSUME NEW p \in Process, Exit(p) PROVE NumbersUsable'
  BY <1>5, StartupAssumption
     DEF Exit, GoTo, TypeOK, RequestsOK, NumbersUsable, Setting, NodeSetting,
         schema, process, settings, requests, history
<1>6. ASSUME NEW p \in Process, Crash(p) PROVE NumbersUsable'
  BY <1>6, StartupAssumption
     DEF Crash, GoTo, TypeOK, RequestsOK, NumbersUsable, Setting, NodeSetting,
         schema, process, settings, requests, history
<1>7. ASSUME NEW r \in Request, SaveSettings(r) PROVE NumbersUsable'
  BY <1>7, StartupAssumption
     DEF SaveSettings, Arrive, TypeOK, RequestsOK, NumbersUsable, Setting,
         NodeSetting, schema, process, settings, requests, history
<1>8. ASSUME NEW r \in Request, WriteSetting(r) PROVE NumbersUsable'
  BY <1>8, StartupAssumption
     DEF WriteSetting, Valid, TypeOK, RequestsOK, NumbersUsable, Setting,
         NodeSetting, schema, process, settings, requests, history
<1>9. ASSUME NEW r \in Request, LoadSetting(r) PROVE NumbersUsable'
  BY <1>9, StartupAssumption
     DEF LoadSetting, TypeOK, RequestsOK, NumbersUsable, Setting, NodeSetting,
         schema, process, settings, requests, history
<1>10. ASSUME NEW r \in Request, SaveNode(r) PROVE NumbersUsable'
  BY <1>10, StartupAssumption
     DEF SaveNode, Arrive, TypeOK, RequestsOK, NumbersUsable, Setting,
         NodeSetting, schema, process, settings, requests, history
<1>11. ASSUME NEW r \in Request, ReadPassword(r) PROVE NumbersUsable'
  BY <1>11, StartupAssumption
     DEF ReadPassword, TypeOK, RequestsOK, NumbersUsable, Setting, NodeSetting,
         schema, process, settings, requests, history
<1>12. ASSUME NEW r \in Request, WriteNode(r) PROVE NumbersUsable'
  BY <1>12, StartupAssumption
     DEF WriteNode, TypeOK, RequestsOK, NumbersUsable, Setting, NodeSetting,
         schema, process, settings, requests, history
<1>13. ASSUME NEW r \in Request, RequestEnds(r) PROVE NumbersUsable'
  BY <1>13, StartupAssumption
     DEF RequestEnds, Forget, TypeOK, RequestsOK, NumbersUsable, Setting,
         NodeSetting, schema, process, settings, requests, history
<1>14. CASE UNCHANGED vars
  BY <1>14 DEF vars, TypeOK, RequestsOK, NumbersUsable, schema, process,
          settings, requests, history
<1> QED BY <1>1, <1>2, <1>3, <1>4, <1>5, <1>6, <1>7, <1>8, <1>9, <1>10, <1>11,
           <1>12, <1>13, <1>14
        DEF Next, Boot, Serve

\* Whoever writes a number marks the other requests of its form.
LEMMA PageStep ==
  ASSUME TypeOK, RequestsOK, PageInv, [Next]_vars
  PROVE  PageInv'
<1>1. ASSUME NEW p \in Process, Open(p) PROVE PageInv'
  BY <1>1, StartupAssumption
     DEF Open, GoTo, TypeOK, RequestsOK, PageInv, WrittenStays, Written,
         SavedPageIsTrue, Setting, NodeSetting, schema, process, settings,
         requests, history
<1>2. ASSUME NEW p \in Process, CheckMigration(p) PROVE PageInv'
  BY <1>2, StartupAssumption
     DEF CheckMigration, GoTo, TypeOK, RequestsOK, PageInv, WrittenStays, Written,
         SavedPageIsTrue, Setting, NodeSetting, schema, process, settings,
         requests, history
<1>3. ASSUME NEW p \in Process, ApplyMigration(p) PROVE PageInv'
  BY <1>3, StartupAssumption
     DEF ApplyMigration, GoTo, TypeOK, RequestsOK, PageInv, WrittenStays, Written,
         SavedPageIsTrue, Setting, NodeSetting, schema, process, settings,
         requests, history
<1>4. ASSUME Seed PROVE PageInv'
  BY <1>4, StartupAssumption
     DEF Seed, GoTo, TypeOK, RequestsOK, PageInv, WrittenStays, Written,
         SavedPageIsTrue, Setting, NodeSetting, schema, process, settings,
         requests, history
<1>5. ASSUME NEW p \in Process, Exit(p) PROVE PageInv'
  BY <1>5, StartupAssumption
     DEF Exit, GoTo, TypeOK, RequestsOK, PageInv, WrittenStays, Written,
         SavedPageIsTrue, Setting, NodeSetting, schema, process, settings,
         requests, history
<1>6. ASSUME NEW p \in Process, Crash(p) PROVE PageInv'
  <2>1. CASE p = Server
    <3>1. stage' = [r \in Request |-> "none"]
      BY <1>6, <2>1 DEF Crash
    <3> QED BY <3>1 DEF PageInv, WrittenStays, Written, SavedPageIsTrue
  <2>2. CASE p # Server
    BY <1>6, <2>2 DEF Crash, PageInv, WrittenStays, Written, SavedPageIsTrue, requests,
                   history, settings
  <2> QED BY <2>1, <2>2
<1>7. ASSUME NEW r \in Request, SaveSettings(r) PROVE PageInv'
  <2>1. /\ stage' = [stage EXCEPT ![r] = "write"]
        /\ place[r] = 1 /\ UNCHANGED <<place, shown, number, since>>
    BY <1>7 DEF SaveSettings, Arrive, RequestsOK, settings, history
  <2>2. \A q \in Request \ {r} : form'[q] = form[q] /\ stage'[q] = stage[q]
    BY <1>7 DEF SaveSettings, TypeOK
  <2>3. stage'[r] = "write" /\ \A s \in Setting : ~ (s < 1)
    BY <2>1 DEF TypeOK, Setting
  <2>4. WrittenStays'
    BY <2>1, <2>2, <2>3 DEF PageInv, WrittenStays, Written
  <2>5. SavedPageIsTrue'
    BY <2>1, <2>2, <2>3 DEF PageInv, SavedPageIsTrue
  <2> QED BY <2>4, <2>5 DEF PageInv
<1>8. ASSUME NEW r \in Request, WriteSetting(r) PROVE PageInv'
  <2>1. stage[r] = "write" /\ UNCHANGED <<form, shown>> /\ place[r] \in Nat
    BY <1>8 DEF WriteSetting, TypeOK
  <2>2. CASE place[r] \in Setting
    <3>1. /\ number' = [number EXCEPT ![place[r]] = form[r][place[r]]]
          /\ place' = [place EXCEPT ![r] = @ + 1] /\ UNCHANGED stage
          /\ Overwritten(r, place[r])
      BY <1>8, <2>2 DEF WriteSetting
    <3>2. \A q \in Request : since[q] \subseteq since'[q]
      BY <3>1 DEF Overwritten
    <3>3. ASSUME NEW q \in Request, NEW s \in Setting, Written(q, s)'
          PROVE  number'[s] = form[q][s] \/ <<s, number'[s]>> \in since'[q]
      <4>1. CASE q = r /\ s = place[r]
        BY <3>1, <4>1 DEF TypeOK
      <4>2. CASE ~ (q = r /\ s = place[r])
        <5>1. Written(q, s)
          BY <2>1, <3>1, <3>3, <4>2 DEF Written, TypeOK, Setting
        <5>2. CASE s = place[r]
          <6>1. number'[s] = form[r][s] /\ <<s, form[r][s]>> \in since'[q]
            BY <2>2, <3>1, <4>2, <5>1, <5>2 DEF Overwritten, TypeOK
          <6> QED BY <6>1
        <5>3. CASE s # place[r]
          <6>1. number'[s] = number[s]
            BY <3>1, <5>3 DEF TypeOK
          <6> QED BY <3>2, <5>1, <6>1 DEF PageInv, WrittenStays
        <5> QED BY <5>2, <5>3
      <4> QED BY <4>1, <4>2
    <3>4. WrittenStays'
      BY <2>1, <3>3 DEF WrittenStays
    <3>5. \A q \in Request : stage[q] = "load" => place'[q] = place[q]
      BY <2>1, <3>1 DEF TypeOK
    <3>6. SavedPageIsTrue'
      BY <2>1, <3>1, <3>2, <3>5 DEF PageInv, SavedPageIsTrue
    <3> QED BY <3>4, <3>6 DEF PageInv
  <2>3. CASE place[r] \notin Setting
    <3>1. /\ stage' = [stage EXCEPT ![r] = "load"]
          /\ place' = [place EXCEPT ![r] = 1]
          /\ UNCHANGED <<number, since>>
      BY <1>8, <2>3 DEF WriteSetting
    <3>2. \A s \in Setting : s < place[r] /\ ~ (s < 1)
      BY <2>1, <2>3, StartupAssumption DEF TypeOK, Setting
    <3>3. /\ \A q \in Request \ {r} : stage'[q] = stage[q] /\ place'[q] = place[q]
          /\ stage'[r] = "load" /\ place'[r] = 1
      BY <3>1 DEF TypeOK
    <3>4. WrittenStays'
      BY <2>1, <3>1, <3>2, <3>3 DEF PageInv, WrittenStays, Written
    <3>5. SavedPageIsTrue'
      BY <2>1, <3>1, <3>2, <3>3 DEF PageInv, SavedPageIsTrue
    <3> QED BY <3>4, <3>5 DEF PageInv
  <2> QED BY <2>2, <2>3
<1>9. ASSUME NEW r \in Request, LoadSetting(r) PROVE PageInv'
  <2>1. /\ stage[r] = "load" /\ place[r] \in Setting
        /\ shown' = [shown EXCEPT ![r][place[r]] = number[place[r]]]
        /\ place' = [place EXCEPT ![r] = @ + 1]
        /\ UNCHANGED <<stage, form, number, since>>
    BY <1>9 DEF LoadSetting, settings, history
  <2>2. WrittenStays'
    <3>1. \A q \in Request : stage[q] = "write" => place'[q] = place[q]
      BY <2>1 DEF TypeOK
    <3> QED BY <2>1, <3>1 DEF PageInv, WrittenStays, Written
  <2>3. ASSUME NEW q \in Request, stage[q] = "load",
               NEW t \in Setting, t < place'[q]
        PROVE  shown'[q][t] = form[q][t] \/ <<t, shown'[q][t]>> \in since[q]
    <3>1. number[t] = form[q][t] \/ <<t, number[t]>> \in since[q]
      BY <2>3 DEF PageInv, WrittenStays, Written
    <3>2. CASE q = r /\ t = place[r]
      BY <2>1, <3>1, <3>2 DEF TypeOK
    <3>3. CASE q = r /\ t # place[r]
      <4>1. t < place[r] /\ shown'[q][t] = shown[q][t]
        BY <2>1, <2>3, <3>3 DEF TypeOK, Setting
      <4> QED BY <2>3, <3>3, <4>1 DEF PageInv, SavedPageIsTrue
    <3>4. CASE q # r
      <4>1. place'[q] = place[q] /\ shown'[q] = shown[q]
        BY <2>1, <3>4 DEF TypeOK
      <4> QED BY <2>3, <4>1 DEF PageInv, SavedPageIsTrue
    <3> QED BY <3>2, <3>3, <3>4
  <2>4. SavedPageIsTrue'
    BY <2>1, <2>3 DEF SavedPageIsTrue
  <2> QED BY <2>2, <2>4 DEF PageInv
<1>10. ASSUME NEW r \in Request, SaveNode(r) PROVE PageInv'
  <2>1. /\ stage' = [stage EXCEPT ![r] = "read"]
        /\ UNCHANGED <<number, place, form, shown, since>>
    BY <1>10 DEF SaveNode, settings
  <2>2. \A q \in Request : stage'[q] \in {"write", "load"} =>
                             stage[q] = stage'[q]
    BY <2>1 DEF TypeOK
  <2> QED BY <2>1, <2>2 DEF PageInv, WrittenStays, Written, SavedPageIsTrue
<1>11. ASSUME NEW r \in Request, ReadPassword(r) PROVE PageInv'
  BY <1>11, StartupAssumption
     DEF ReadPassword, TypeOK, RequestsOK, PageInv, WrittenStays, Written,
         SavedPageIsTrue, Setting, NodeSetting, schema, process, settings,
         requests, history
<1>12. ASSUME NEW r \in Request, WriteNode(r) PROVE PageInv'
  BY <1>12, StartupAssumption
     DEF WriteNode, TypeOK, RequestsOK, PageInv, WrittenStays, Written, SavedPageIsTrue,
         Setting, NodeSetting, schema, process, settings, requests, history
<1>13. ASSUME NEW r \in Request, RequestEnds(r) PROVE PageInv'
  BY <1>13, StartupAssumption
     DEF RequestEnds, Forget, TypeOK, RequestsOK, PageInv, WrittenStays, Written,
         SavedPageIsTrue, Setting, NodeSetting, schema, process, settings,
         requests, history
<1>14. CASE UNCHANGED vars
  BY <1>14 DEF vars, TypeOK, RequestsOK, PageInv, WrittenStays, Written,
          SavedPageIsTrue, schema, process, settings, requests, history
<1> QED BY <1>1, <1>2, <1>3, <1>4, <1>5, <1>6, <1>7, <1>8, <1>9, <1>10, <1>11,
           <1>12, <1>13, <1>14
        DEF Next, Boot, Serve

\* Seeding fills what is empty; an edit is not.
LEMMA EditStep ==
  ASSUME TypeOK, EditsSurviveBoots, [Next]_vars
  PROVE  EditsSurviveBoots'
<1>1. ASSUME NEW p \in Process, Open(p) PROVE EditsSurviveBoots'
  BY <1>1, StartupAssumption
     DEF Open, GoTo, TypeOK, EditsSurviveBoots, Setting, NodeSetting, schema,
         process, settings, requests, history
<1>2. ASSUME NEW p \in Process, CheckMigration(p) PROVE EditsSurviveBoots'
  BY <1>2, StartupAssumption
     DEF CheckMigration, GoTo, TypeOK, EditsSurviveBoots, Setting, NodeSetting,
         schema, process, settings, requests, history
<1>3. ASSUME NEW p \in Process, ApplyMigration(p) PROVE EditsSurviveBoots'
  BY <1>3, StartupAssumption
     DEF ApplyMigration, GoTo, TypeOK, EditsSurviveBoots, Setting, NodeSetting,
         schema, process, settings, requests, history
<1>4. ASSUME Seed PROVE EditsSurviveBoots'
  BY <1>4, StartupAssumption
     DEF Seed, GoTo, TypeOK, EditsSurviveBoots, Setting, NodeSetting, schema,
         process, settings, requests, history
<1>5. ASSUME NEW p \in Process, Exit(p) PROVE EditsSurviveBoots'
  BY <1>5, StartupAssumption
     DEF Exit, GoTo, TypeOK, EditsSurviveBoots, Setting, NodeSetting, schema,
         process, settings, requests, history
<1>6. ASSUME NEW p \in Process, Crash(p) PROVE EditsSurviveBoots'
  BY <1>6, StartupAssumption
     DEF Crash, GoTo, TypeOK, EditsSurviveBoots, Setting, NodeSetting, schema,
         process, settings, requests, history
<1>7. ASSUME NEW r \in Request, SaveSettings(r) PROVE EditsSurviveBoots'
  BY <1>7, StartupAssumption
     DEF SaveSettings, Arrive, TypeOK, EditsSurviveBoots, Setting, NodeSetting,
         schema, process, settings, requests, history
<1>8. ASSUME NEW r \in Request, WriteSetting(r) PROVE EditsSurviveBoots'
  BY <1>8, StartupAssumption
     DEF WriteSetting, TypeOK, EditsSurviveBoots, Setting, NodeSetting, schema,
         process, settings, requests, history
<1>9. ASSUME NEW r \in Request, LoadSetting(r) PROVE EditsSurviveBoots'
  BY <1>9, StartupAssumption
     DEF LoadSetting, TypeOK, EditsSurviveBoots, Setting, NodeSetting, schema,
         process, settings, requests, history
<1>10. ASSUME NEW r \in Request, SaveNode(r) PROVE EditsSurviveBoots'
  BY <1>10, StartupAssumption
     DEF SaveNode, Arrive, TypeOK, EditsSurviveBoots, Setting, NodeSetting,
         schema, process, settings, requests, history
<1>11. ASSUME NEW r \in Request, ReadPassword(r) PROVE EditsSurviveBoots'
  BY <1>11, StartupAssumption
     DEF ReadPassword, TypeOK, EditsSurviveBoots, Setting, NodeSetting, schema,
         process, settings, requests, history
<1>12. ASSUME NEW r \in Request, WriteNode(r) PROVE EditsSurviveBoots'
  BY <1>12, StartupAssumption
     DEF WriteNode, TypeOK, EditsSurviveBoots, Setting, NodeSetting, schema,
         process, settings, requests, history
<1>13. ASSUME NEW r \in Request, RequestEnds(r) PROVE EditsSurviveBoots'
  BY <1>13, StartupAssumption
     DEF RequestEnds, Forget, TypeOK, EditsSurviveBoots, Setting, NodeSetting,
         schema, process, settings, requests, history
<1>14. CASE UNCHANGED vars
  BY <1>14 DEF vars, TypeOK, EditsSurviveBoots, schema, process, settings,
          requests, history
<1> QED BY <1>1, <1>2, <1>3, <1>4, <1>5, <1>6, <1>7, <1>8, <1>9, <1>10, <1>11,
           <1>12, <1>13, <1>14
        DEF Next, Boot, Serve

\* Whoever changes the password marks the requests that hold it.
LEMMA PasswordStep ==
  ASSUME TypeOK, RequestsOK, PasswordHeld, [Next]_vars
  PROVE  PasswordHeld'
<1>1. ASSUME NEW p \in Process, Open(p) PROVE PasswordHeld'
  BY <1>1, StartupAssumption
     DEF Open, GoTo, TypeOK, RequestsOK, PasswordHeld, Setting, NodeSetting,
         schema, process, settings, requests, history
<1>2. ASSUME NEW p \in Process, CheckMigration(p) PROVE PasswordHeld'
  BY <1>2, StartupAssumption
     DEF CheckMigration, GoTo, TypeOK, RequestsOK, PasswordHeld, Setting,
         NodeSetting, schema, process, settings, requests, history
<1>3. ASSUME NEW p \in Process, ApplyMigration(p) PROVE PasswordHeld'
  BY <1>3, StartupAssumption
     DEF ApplyMigration, GoTo, TypeOK, RequestsOK, PasswordHeld, Setting,
         NodeSetting, schema, process, settings, requests, history
<1>4. ASSUME Seed PROVE PasswordHeld'
  BY <1>4, StartupAssumption
     DEF Seed, GoTo, TypeOK, RequestsOK, PasswordHeld, Setting, NodeSetting,
         schema, process, settings, requests, history
<1>5. ASSUME NEW p \in Process, Exit(p) PROVE PasswordHeld'
  BY <1>5, StartupAssumption
     DEF Exit, GoTo, TypeOK, RequestsOK, PasswordHeld, Setting, NodeSetting,
         schema, process, settings, requests, history
<1>6. ASSUME NEW p \in Process, Crash(p) PROVE PasswordHeld'
  BY <1>6, StartupAssumption
     DEF Crash, GoTo, TypeOK, RequestsOK, PasswordHeld, Setting, NodeSetting,
         schema, process, settings, requests, history
<1>7. ASSUME NEW r \in Request, SaveSettings(r) PROVE PasswordHeld'
  BY <1>7, StartupAssumption
     DEF SaveSettings, Arrive, TypeOK, RequestsOK, PasswordHeld, Setting,
         NodeSetting, schema, process, settings, requests, history
<1>8. ASSUME NEW r \in Request, WriteSetting(r) PROVE PasswordHeld'
  BY <1>8, StartupAssumption
     DEF WriteSetting, TypeOK, RequestsOK, PasswordHeld, Setting, NodeSetting,
         schema, process, settings, requests, history
<1>9. ASSUME NEW r \in Request, LoadSetting(r) PROVE PasswordHeld'
  BY <1>9, StartupAssumption
     DEF LoadSetting, TypeOK, RequestsOK, PasswordHeld, Setting, NodeSetting,
         schema, process, settings, requests, history
<1>10. ASSUME NEW r \in Request, SaveNode(r) PROVE PasswordHeld'
  BY <1>10, StartupAssumption
     DEF SaveNode, Arrive, TypeOK, RequestsOK, PasswordHeld, Setting,
         NodeSetting, schema, process, settings, requests, history
<1>11. ASSUME NEW r \in Request, ReadPassword(r) PROVE PasswordHeld'
  BY <1>11, StartupAssumption
     DEF ReadPassword, TypeOK, RequestsOK, PasswordHeld, Setting, NodeSetting,
         schema, process, settings, requests, history
<1>12. ASSUME NEW r \in Request, WriteNode(r) PROVE PasswordHeld'
  <2>1. /\ stage[r] = "node" /\ place[r] \in NodeSetting
        /\ node' = [node EXCEPT ![place[r]] = texts[r][place[r]]]
        /\ place' = [place EXCEPT ![r] = @ + 1]
        /\ UNCHANGED <<stage, texts, blank>>
        /\ stale \subseteq stale'
        /\ node'[Pass] # node[Pass] =>
             \A q \in Request : stage[q] = "node" => q \in stale'
    BY <1>12 DEF WriteNode
  <2>2. ASSUME NEW q \in blank \ stale', stage[q] = "node", place'[q] <= Pass
        PROVE  texts[q][Pass] = node'[Pass]
    <3>1. place[q] \in Nat /\ Pass \in Nat /\ q \in Request
      BY StartupAssumption DEF TypeOK, NodeSetting
    <3>2. place'[q] = IF q = r THEN place[q] + 1 ELSE place[q]
      BY <2>1, <3>1 DEF TypeOK
    <3>3. q \in blank \ stale /\ place[q] <= Pass
      BY <2>1, <2>2, <3>1, <3>2
    <3>4. node'[Pass] = node[Pass]
      BY <2>1, <2>2, <3>1
    <3> QED BY <2>2, <3>3, <3>4 DEF PasswordHeld
  <2>3. ASSUME NEW q \in blank \ stale', stage[q] = "read"
        PROVE  texts[q][Pass] = Empty
    BY <2>1, <2>3 DEF PasswordHeld
  <2> QED BY <2>1, <2>2, <2>3 DEF PasswordHeld
<1>13. ASSUME NEW r \in Request, RequestEnds(r) PROVE PasswordHeld'
  BY <1>13, StartupAssumption
     DEF RequestEnds, Forget, TypeOK, RequestsOK, PasswordHeld, Setting,
         NodeSetting, schema, process, settings, requests, history
<1>14. CASE UNCHANGED vars
  BY <1>14 DEF vars, TypeOK, RequestsOK, PasswordHeld, schema, process,
          settings, requests, history
<1> QED BY <1>1, <1>2, <1>3, <1>4, <1>5, <1>6, <1>7, <1>8, <1>9, <1>10, <1>11,
           <1>12, <1>13, <1>14
        DEF Next, Boot, Serve

\* The invariant holds before the first start.
LEMMA InitInv == Init => StartupInv
<1> SUFFICES ASSUME Init PROVE StartupInv
  OBVIOUS
<1>1. TypeOK
  BY StartupAssumption DEF Init, TypeOK, Blank, Setting, NodeSetting, Text
<1>2. SchemaInv /\ RequestsOK
  BY DEF Init, SchemaInv, MigratedOnce, EarlierApplied, RequestsOK
<1>3. NumbersUsable
  BY StartupAssumption DEF Init, NumbersUsable
<1>4. PageInv /\ EditsSurviveBoots /\ PasswordHeld
  BY DEF Init, PageInv, WrittenStays, SavedPageIsTrue, EditsSurviveBoots,
         PasswordHeld, Blank
<1> QED BY <1>1, <1>2, <1>3, <1>4 DEF StartupInv

\* The invariant holds throughout.
THEOREM StartupInvariant == Spec => []StartupInv
<1>1. StartupInv /\ [Next]_vars => StartupInv'
  BY TypeStep, SchemaStep, RequestStep, NumberStep, PageStep, EditStep,
     PasswordStep DEF StartupInv
<1> QED BY <1>1, InitInv, PTL DEF Spec

-----------------------------------------------------------------------------
(* The theorems.                                                           *)

\* The processes, the settings and the requests stay well formed.
THEOREM TypeCorrect == Spec => []TypeOK
<1>1. StartupInv => TypeOK
  BY DEF StartupInv
<1> QED BY <1>1, StartupInvariant, PTL

\* Any processes that open the database together execute each migration once,
\* in order.
THEOREM MigrationsOnce == Spec => []MigratedOnce
<1>1. StartupInv => MigratedOnce
  BY DEF StartupInv, SchemaInv
<1> QED BY <1>1, StartupInvariant, PTL

\* The price of a token and the other numbers never leave their range.
THEOREM NumbersStayUsable == Spec => []NumbersUsable
<1>1. StartupInv => NumbersUsable
  BY DEF StartupInv
<1> QED BY <1>1, StartupInvariant, PTL

\* The page that reports a form as saved shows it, unless forms overlapped.
THEOREM PagesAreTrue == Spec => []SavedPageIsTrue
<1>1. StartupInv => SavedPageIsTrue
  BY DEF StartupInv, PageInv
<1> QED BY <1>1, StartupInvariant, PTL

\* No boot takes back what an administrator saved.
THEOREM EditsSurvive == Spec => []EditsSurviveBoots
<1>1. StartupInv => EditsSurviveBoots
  BY DEF StartupInv
<1> QED BY <1>1, StartupInvariant, PTL

\* A form without a password keeps the password, unless another form changed it
\* since it was read.
THEOREM PasswordsKept == Spec => PasswordKept
<1>1. StartupInv /\ [Next]_vars =>
        [\A r \in Request :
           /\ stage[r] = "node" /\ place[r] = Pass /\ place'[r] = Pass + 1
           /\ r \in blank \ stale
           => node'[Pass] = node[Pass]]_vars
  <2> SUFFICES ASSUME StartupInv, Next, NEW r \in Request,
                      stage[r] = "node", place[r] = Pass, place'[r] = Pass + 1,
                      r \in blank \ stale
               PROVE  node'[Pass] = node[Pass]
    BY DEF vars
  <2>1. Pass \in Nat /\ Pass # Pass + 1
    BY StartupAssumption DEF NodeSetting
  <2>2. CASE WriteNode(r)
    <3>1. node'[Pass] = texts[r][Pass]
      BY <2>2, StartupAssumption DEF WriteNode, StartupInv, TypeOK
    <3>2. texts[r][Pass] = node[Pass]
      BY <2>1 DEF StartupInv, PasswordHeld
    <3> QED BY <3>1, <3>2
  <2>3. CASE ~ WriteNode(r)
    <3>1. place'[r] # place[r]
      BY <2>1
    <3>2. \/ \E q \in Request \ {r} :
               \/ WriteSetting(q) \/ LoadSetting(q) \/ WriteNode(q)
               \/ RequestEnds(q)
          \/ RequestEnds(r)
          \/ \E p \in Process : Crash(p)
      BY <2>3, <3>1
         DEF Next, Boot, Serve, Open, CheckMigration, ApplyMigration, Seed, Exit,
             SaveSettings, WriteSetting, LoadSetting, SaveNode, ReadPassword,
             requests
    <3>3. place'[r] \in {place[r], 1}
      BY <3>2 DEF WriteSetting, LoadSetting, WriteNode, RequestEnds, Forget,
                  Crash, requests, StartupInv, TypeOK
    <3> QED BY <2>1, <3>3, StartupAssumption DEF NodeSetting
  <2> QED BY <2>2, <2>3
<1> QED BY <1>1, StartupInvariant, PTL DEF Spec, PasswordKept

=============================================================================
