------------------------- MODULE AddressPoolProofs --------------------------
(***************************************************************************)
(* The safety properties of AddressPool, for any number of addresses,      *)
(* machines, users and requests.                                           *)
(***************************************************************************)
EXTENDS AddressPool, TLAPS

\* An address that was never handed out belongs to nobody, and one that an
\* administrator retired stays retired.
Unbound ==
  /\ \A a \in Address : status[a] \in {"none", "pool"} =>
                          machine[a] = NoMachine /\ user[a] = NoUser
  /\ \A a \in byHand : status[a] = "retired"

SafeInv == TypeOK /\ Unbound /\ RotationReplaces /\ EnabledHasAddress

\* A claimed address comes from the pool.
LEMMA OldestInPool ==
  ASSUME NEW for, NEW a \in Oldest(for)
  PROVE  a \in Address /\ status[a] = "pool" /\ purpose[a] = for
  BY DEF Oldest, Pool

\* What giving an address to a machine does to the rows, address by address.
LEMMA GiveRows ==
  ASSUME TypeOK, Unbound, NEW m \in Machine, NEW a \in Oldest("machine_direct"),
         NEW replaced, replaced \subseteq Active(m), Give(a, m, replaced)
  PROVE  /\ a \in Address /\ status[a] = "pool" /\ machine[a] = NoMachine
         /\ a \notin replaced /\ a \notin byHand
         /\ status'[a] = "assigned" /\ machine'[a] = m
         /\ \A b \in Address \ {a} : machine'[b] = machine[b]
         /\ \A b \in replaced : status'[b] = "retired"
         /\ \A b \in Address \ replaced : b # a => status'[b] = status[b]
         /\ user' = user
<1>1. a \in Address /\ status[a] = "pool"
  BY OldestInPool
<1>2. a \notin replaced
  BY <1>1 DEF Active
<1>3. machine[a] = NoMachine /\ a \notin byHand
  BY <1>1 DEF Unbound
<1>4. status'[a] = "assigned" /\ user' = user
  BY <1>1 DEF Give
<1>5. machine'[a] = m /\ \A b \in Address \ {a} : machine'[b] = machine[b]
  BY <1>1 DEF Give, TypeOK
<1>6. \A b \in replaced : status'[b] = "retired"
  BY <1>2 DEF Give, Active
<1>7. \A b \in Address \ replaced : b # a => status'[b] = status[b]
  BY DEF Give
<1> QED
  BY <1>1, <1>2, <1>3, <1>4, <1>5, <1>6, <1>7

\* Giving keeps the rows well typed.
LEMMA GiveTypes ==
  ASSUME TypeOK, NEW m \in Machine, NEW a \in Address, NEW replaced, Give(a, m, replaced)
  PROVE  /\ batches' \in Nat
         /\ status' \in [Address -> Statuses]
         /\ purpose' \in [Address -> Purposes \cup {"none"}]
         /\ batch' \in [Address -> Nat]
         /\ user' \in [Address -> User \cup {NoUser}]
         /\ machine' \in [Address -> Machine \cup {NoMachine}]
         /\ uses' \in [Address -> Nat]
<1>1. status' \in [Address -> Statuses]
  BY DEF Give, TypeOK, Statuses
<1>2. machine' \in [Address -> Machine \cup {NoMachine}]
  BY DEF Give, TypeOK
<1>3. uses' \in [Address -> Nat]
  BY DEF Give, TypeOK
<1> QED
  BY <1>1, <1>2, <1>3 DEF Give, TypeOK

\* Giving an address keeps the three facts about the rows, whatever the
\* machine had before: it replaces all of it.
LEMMA GiveKeeps ==
  ASSUME SafeInv, NEW m \in Machine, NEW a \in Oldest("machine_direct"),
         Give(a, m, Active(m)), UNCHANGED byHand
  PROVE  /\ Unbound' /\ RotationReplaces'
         /\ Active(m)' # {}
         /\ \A k \in Machine : Active(k) # {} => Active(k)' # {}
<1> USE DEF SafeInv
<1>1. /\ a \in Address /\ status[a] = "pool" /\ machine[a] = NoMachine
      /\ a \notin Active(m) /\ a \notin byHand
      /\ status'[a] = "assigned" /\ machine'[a] = m
      /\ \A b \in Address \ {a} : machine'[b] = machine[b]
      /\ \A b \in Active(m) : status'[b] = "retired"
      /\ \A b \in Address \ Active(m) : b # a => status'[b] = status[b]
      /\ user' = user
  BY GiveRows
<1>2. Unbound'
  <2>1. ASSUME NEW b \in Address, status'[b] \in {"none", "pool"}
        PROVE  machine'[b] = NoMachine /\ user'[b] = NoUser
    BY <1>1, <2>1 DEF Unbound
  <2>2. ASSUME NEW b \in byHand
        PROVE  status'[b] = "retired"
    BY <1>1, <2>2 DEF Unbound, TypeOK
  <2> QED
    BY <2>1, <2>2 DEF Unbound
<1>3. RotationReplaces'
  <2> SUFFICES ASSUME NEW b \in Address, status'[b] = "retired",
                      machine'[b] # NoMachine, b \notin byHand
               PROVE  \E c \in Address : machine'[c] = machine'[b]
                                         /\ (status'[c] = "assigned" \/ c \in byHand)
    BY DEF RotationReplaces
  <2>1. b # a /\ machine'[b] = machine[b]
    BY <1>1
  <2>2. CASE machine[b] = m
    BY <1>1, <2>1, <2>2
  <2>3. CASE machine[b] # m
    <3>1. b \notin Active(m) /\ status[b] = "retired"
      BY <1>1, <2>1, <2>3 DEF Active
    <3>2. PICK c \in Address : machine[c] = machine[b]
                               /\ (status[c] = "assigned" \/ c \in byHand)
      BY <2>1, <3>1 DEF RotationReplaces
    <3>3. c # a /\ c \notin Active(m)
      BY <1>1, <2>1, <2>3, <3>2 DEF Active
    <3> QED
      BY <1>1, <2>1, <3>2, <3>3
  <2> QED
    BY <2>2, <2>3
<1>4. Active(m)' # {}
  BY <1>1 DEF Active
<1>5. ASSUME NEW k \in Machine, Active(k) # {}
      PROVE  Active(k)' # {}
  <2>1. CASE k = m
    BY <1>4, <2>1
  <2>2. CASE k # m
    <3>1. PICK b \in Address : status[b] = "assigned" /\ machine[b] = k
      BY <1>5 DEF Active
    <3>2. b # a /\ b \notin Active(m)
      BY <1>1, <2>2, <3>1 DEF Active
    <3> QED
      BY <1>1, <3>1, <3>2 DEF Active
  <2> QED
    BY <2>1, <2>2
<1> QED
  BY <1>2, <1>3, <1>4, <1>5

-----------------------------------------------------------------------------
(* Every action preserves the invariant.                                   *)

RowTypes ==
  /\ batches \in Nat
  /\ status \in [Address -> Statuses]
  /\ purpose \in [Address -> Purposes \cup {"none"}]
  /\ batch \in [Address -> Nat]
  /\ user \in [Address -> User \cup {NoUser}]
  /\ machine \in [Address -> Machine \cup {NoMachine}]
  /\ uses \in [Address -> Nat]

HandlerTypes ==
  /\ step \in [Handler -> {"idle", "check", "activate"}]
  /\ at \in [Handler -> Machine \cup {NoMachine}]
  /\ \A h \in Handler : step[h] # "idle" => at[h] \in Machine

\* A handler that is done is idle, and the others are where they were.
LEMMA DoneHandlers ==
  ASSUME TypeOK, NEW h \in Handler, Done(h)
  PROVE  /\ HandlerTypes'
         /\ \A m \in Machine : InFlight(m) /\ m # at[h] => InFlight(m)'
<1>1. /\ step' \in [Handler -> {"idle", "check", "activate"}]
      /\ at' \in [Handler -> Machine \cup {NoMachine}]
      /\ step'[h] = "idle"
      /\ \A i \in Handler \ {h} : step'[i] = step[i] /\ at'[i] = at[i]
  BY DEF TypeOK, Done
<1>2. \A i \in Handler : step'[i] # "idle" => at'[i] \in Machine
  BY <1>1 DEF TypeOK
<1>3. \A m \in Machine : InFlight(m) /\ m # at[h] => InFlight(m)'
  BY <1>1 DEF InFlight
<1> QED
  BY <1>1, <1>2, <1>3 DEF HandlerTypes

\* A rotation keeps the rows typed, what is unbound unbound, and machines supplied.
LEMMA RotateKeeps ==
  ASSUME SafeInv, NEW m \in Machine, Rotate(m),
         UNCHANGED <<enabled, excused, handlers, byHand>>
  PROVE  /\ RowTypes' /\ Unbound' /\ RotationReplaces' /\ EnabledHasAddress'
         /\ emptyAlert' \in BOOLEAN
<1>1. CASE \E a \in Oldest("machine_direct") : Give(a, m, Active(m)) /\ UNCHANGED emptyAlert
  <2>1. PICK a \in Oldest("machine_direct") : Give(a, m, Active(m)) /\ UNCHANGED emptyAlert
    BY <1>1
  <2>2. a \in Address
    BY OldestInPool
  <2>3. RowTypes'
    BY <2>1, <2>2, GiveTypes DEF SafeInv, RowTypes
  <2>4. Unbound' /\ RotationReplaces' /\ \A k \in Machine : Active(k) # {} => Active(k)' # {}
    BY <2>1, GiveKeeps
  <2>5. \A k \in Machine : InFlight(k) => InFlight(k)'
    BY DEF InFlight, handlers
  <2>6. EnabledHasAddress'
    BY <2>4, <2>5 DEF EnabledHasAddress, SafeInv, TypeOK
  <2> QED
    BY <2>1, <2>3, <2>4, <2>6 DEF SafeInv, TypeOK
<1>2. CASE Oldest("machine_direct") = {} /\ emptyAlert' = TRUE /\ UNCHANGED rows
  <2>1. RowTypes'
    BY <1>2 DEF SafeInv, TypeOK, RowTypes, rows
  <2>2. Unbound' /\ RotationReplaces'
    BY <1>2 DEF SafeInv, Unbound, RotationReplaces, rows
  <2>3. EnabledHasAddress'
    BY <1>2 DEF SafeInv, EnabledHasAddress, InFlight, Active, rows, handlers
  <2> QED
    BY <1>2, <2>1, <2>2, <2>3
<1> QED
  BY <1>1, <1>2 DEF Rotate

\* Actions that leave the rows alone, but for who bought an address and how
\* often it was used, can disturb neither of the facts about machines.
LEMMA SameRows ==
  ASSUME SafeInv, UNCHANGED <<status, machine, byHand>>
  PROVE  RotationReplaces' /\ \A m : Active(m)' = Active(m)
<1>1. RotationReplaces'
  BY DEF SafeInv, RotationReplaces
<1> QED
  BY <1>1 DEF Active

\* Nothing changes for the machines while rows, switches and requests stay.
LEMMA SameEnabled ==
  ASSUME SafeInv, UNCHANGED <<status, machine, enabled, excused, handlers>>
  PROVE  EnabledHasAddress'
BY DEF SafeInv, EnabledHasAddress, InFlight, Active, handlers

\* An import, and telling the node, keep the invariant.
LEMMA ImportKeeps ==
  ASSUME SafeInv, Import
  PROVE  SafeInv'
<1>1. ASSUME NEW new \in SUBSET Address, NEW for \in Purposes, ImportBatch(new, for)
      PROVE  SafeInv'
  <2>1. /\ status' \in [Address -> Statuses]
        /\ purpose' \in [Address -> Purposes \cup {"none"}]
        /\ batches' \in Nat
        /\ batch' \in [Address -> Nat]
    BY <1>1 DEF ImportBatch, SafeInv, TypeOK, Statuses
  <2>2. TypeOK'
    BY <1>1, <2>1 DEF ImportBatch, SafeInv, TypeOK, handlers, jobVars
  <2>3. /\ \A a \in Address : status'[a] = IF a \in new THEN "pool" ELSE status[a]
        /\ \A a \in new : status[a] = "none"
        /\ UNCHANGED <<machine, user, byHand, enabled, excused, step, at>>
    BY <1>1 DEF ImportBatch, handlers
  <2>4. Unbound'
    <3>1. \A a \in Address : status'[a] \in {"none", "pool"} =>
                               machine'[a] = NoMachine /\ user'[a] = NoUser
      BY <2>3 DEF SafeInv, Unbound
    <3>2. \A a \in byHand' : status'[a] = "retired"
      BY <2>3 DEF SafeInv, Unbound, TypeOK
    <3> QED
      BY <3>1, <3>2 DEF Unbound
  <2>5. RotationReplaces'
    <3> SUFFICES ASSUME NEW a \in Address, status'[a] = "retired",
                        machine[a] # NoMachine, a \notin byHand
                 PROVE  \E b \in Address : machine[b] = machine[a]
                                           /\ (status'[b] = "assigned" \/ b \in byHand)
      BY <2>3 DEF RotationReplaces
    <3>1. PICK b \in Address : machine[b] = machine[a]
                               /\ (status[b] = "assigned" \/ b \in byHand)
      BY <2>3 DEF SafeInv, RotationReplaces
    <3> QED
      BY <2>3, <3>1
  <2>6. EnabledHasAddress'
    <3>1. \A m : Active(m)' = Active(m)
      BY <2>3 DEF Active
    <3> QED
      BY <2>3, <3>1 DEF SafeInv, EnabledHasAddress, InFlight
  <2> QED
    BY <2>2, <2>4, <2>5, <2>6 DEF SafeInv
<1>2. ASSUME NEW a \in Address, Register(a)
      PROVE  SafeInv'
  <2>1. TypeOK' /\ Unbound'
    BY <1>2 DEF Register, SafeInv, TypeOK, Unbound, rows, handlers, jobVars
  <2> QED
    BY <1>2, <2>1, SameRows, SameEnabled DEF Register, SafeInv, rows
<1> QED
  BY <1>1, <1>2 DEF Import

\* A request that saves the direct-pay settings keeps it at each statement.
LEMMA SaveKeeps ==
  ASSUME SafeInv, Save
  PROVE  SafeInv'
<1>1. ASSUME NEW m \in Machine, Disable(m)
      PROVE  SafeInv'
  <2>1. TypeOK' /\ Unbound'
    BY <1>1 DEF Disable, SafeInv, TypeOK, Unbound, rows, node, handlers, jobVars
  <2>2. EnabledHasAddress'
    BY <1>1 DEF Disable, SafeInv, EnabledHasAddress, InFlight, Active, rows, handlers
  <2> QED
    BY <1>1, <2>1, <2>2, SameRows DEF Disable, SafeInv, rows
<1>2. ASSUME NEW h \in Handler, CheckActive(h)
      PROVE  SafeInv'
  <2>1. CASE Active(at[h]) # {} /\ Done(h)
    <3>1. TypeOK' /\ Unbound'
      BY <1>2, <2>1, DoneHandlers
         DEF CheckActive, SafeInv, TypeOK, Unbound, HandlerTypes, rows, node, jobVars
    <3>2. EnabledHasAddress'
      <4>1. \A m \in Machine : InFlight(m) /\ m # at[h] => InFlight(m)'
        BY <2>1, DoneHandlers DEF SafeInv
      <4>2. \A m : Active(m)' = Active(m)
        BY <1>2 DEF CheckActive, Active, rows
      <4> QED
        BY <1>2, <2>1, <4>1, <4>2 DEF CheckActive, SafeInv, EnabledHasAddress, TypeOK
    <3> QED
      BY <1>2, <3>1, <3>2, SameRows DEF CheckActive, SafeInv, rows
  <2>2. CASE step' = [step EXCEPT ![h] = "activate"] /\ UNCHANGED at
    <3>1. /\ step' \in [Handler -> {"idle", "check", "activate"}]
          /\ \A i \in Handler : step'[i] # "idle" <=> step[i] # "idle"
      BY <1>2, <2>2 DEF CheckActive, SafeInv, TypeOK
    <3>2. TypeOK' /\ Unbound'
      BY <1>2, <2>2, <3>1 DEF CheckActive, SafeInv, TypeOK, Unbound, rows, node, jobVars
    <3>3. EnabledHasAddress'
      <4>1. \A m : InFlight(m)' <=> InFlight(m)
        BY <2>2, <3>1 DEF InFlight
      <4>2. \A m : Active(m)' = Active(m)
        BY <1>2 DEF CheckActive, Active, rows
      <4> QED
        BY <1>2, <4>1, <4>2 DEF CheckActive, SafeInv, EnabledHasAddress
    <3> QED
      BY <1>2, <3>2, <3>3, SameRows DEF CheckActive, SafeInv, rows
  <2> QED
    BY <1>2, <2>1, <2>2 DEF CheckActive
<1>3. ASSUME NEW h \in Handler, Activate(h)
      PROVE  SafeInv'
  <2>0. PICK m \in Machine : m = at[h]
    BY <1>3 DEF Activate, SafeInv, TypeOK
  <2>1. HandlerTypes' /\ \A k \in Machine : InFlight(k) /\ k # m => InFlight(k)'
    BY <1>3, <2>0, DoneHandlers DEF Activate, SafeInv
  <2>2. UNCHANGED <<node, enabled, rotateAfterUses, jobVars, emptyAlert, byHand, faults>>
    BY <1>3 DEF Activate
  <2>3. CASE Active(m) = {} /\ (\E a \in Oldest("machine_direct") : Give(a, m, {}))
             /\ UNCHANGED excused
    <3>1. PICK a \in Oldest("machine_direct") : Give(a, m, {})
      BY <2>3
    <3>2. Unbound' /\ RotationReplaces' /\ Active(m)' # {}
          /\ \A k \in Machine : Active(k) # {} => Active(k)' # {}
      <4>1. Give(a, m, Active(m))
        BY <2>3, <3>1
      <4> QED
        BY <2>2, <4>1, GiveKeeps
    <3>3. RowTypes'
      <4>1. a \in Address
        BY OldestInPool
      <4> QED
        BY <3>1, <4>1, GiveTypes DEF SafeInv, RowTypes
    <3>4. TypeOK'
      BY <2>1, <2>2, <2>3, <3>3
         DEF SafeInv, TypeOK, RowTypes, HandlerTypes, node, jobVars
    <3>5. EnabledHasAddress'
      BY <2>1, <2>2, <2>3, <3>2 DEF SafeInv, EnabledHasAddress, TypeOK
    <3> QED
      BY <3>2, <3>4, <3>5 DEF SafeInv
  <2>4. CASE UNCHANGED rows /\ ((excused' = excused \cup {m})
                                \/ (Active(m) # {} /\ UNCHANGED excused))
    <3>1. TypeOK' /\ Unbound'
      <4>1. RowTypes' /\ Unbound'
        BY <2>2, <2>4 DEF SafeInv, TypeOK, Unbound, RowTypes, rows
      <4>2. excused' \subseteq Machine
        BY <2>1, <2>4 DEF SafeInv, TypeOK
      <4> QED
        BY <2>1, <2>2, <4>1, <4>2
           DEF SafeInv, TypeOK, RowTypes, HandlerTypes, node, jobVars
    <3>2. EnabledHasAddress'
      <4>1. \A k : Active(k)' = Active(k)
        BY <2>4 DEF Active, rows
      <4> QED
        BY <2>1, <2>2, <2>4, <4>1 DEF SafeInv, EnabledHasAddress, TypeOK
    <3> QED
      BY <2>2, <2>4, <3>1, <3>2, SameRows DEF SafeInv, rows
  <2> QED
    BY <1>3, <2>0, <2>3, <2>4 DEF Activate
<1>4. ASSUME NEW h \in Handler, NEW m \in Machine, Enable(h, m)
      PROVE  SafeInv'
  <2>1. /\ step' \in [Handler -> {"idle", "check", "activate"}]
        /\ at' \in [Handler -> Machine \cup {NoMachine}]
        /\ step'[h] = "check" /\ at'[h] = m /\ step[h] = "idle"
        /\ \A i \in Handler \ {h} : step'[i] = step[i] /\ at'[i] = at[i]
    BY <1>4 DEF Enable, SafeInv, TypeOK
  <2>2. HandlerTypes'
    BY <2>1 DEF HandlerTypes, SafeInv, TypeOK
  <2>3. TypeOK' /\ Unbound'
    BY <1>4, <2>2 DEF Enable, SafeInv, TypeOK, Unbound, HandlerTypes, rows, node, jobVars
  <2>4. EnabledHasAddress'
    <3>1. InFlight(m)' /\ \A k : InFlight(k) => InFlight(k)'
      BY <2>1 DEF InFlight
    <3>2. \A k : Active(k)' = Active(k)
      BY <1>4 DEF Enable, Active, rows
    <3> QED
      BY <1>4, <3>1, <3>2 DEF Enable, SafeInv, EnabledHasAddress
  <2> QED
    BY <1>4, <2>3, <2>4, SameRows DEF Enable, SafeInv, rows
<1> QED
  BY <1>1, <1>2, <1>3, <1>4 DEF Save

JobTypes ==
  /\ job \in {"idle", "readUses", "list", "rotate"}
  /\ read \in Rotation /\ candidates \subseteq Candidate

\* Everything but the job, and perhaps the rotation setting, is as it was.
LEMMA JobReads ==
  ASSUME SafeInv, JobTypes',
         UNCHANGED <<rows, node, enabled, rotateAfterUses, handlers,
                     emptyAlert, byHand, excused>>, faults' \in Nat
  PROVE  SafeInv'
<1>1. TypeOK' /\ Unbound'
  BY DEF SafeInv, TypeOK, Unbound, JobTypes, rows, node, handlers
<1> QED
  BY <1>1, SameRows, SameEnabled DEF SafeInv, rows

\* The rotation job keeps it, whatever became of the list it read.
LEMMA JobKeeps ==
  ASSUME SafeInv, Job
  PROVE  SafeInv'
<1>1. CASE ReadInterval
  <2>1. JobTypes'
    BY <1>1, PoolAssumption
       DEF ReadInterval, SafeInv, TypeOK, JobTypes, PoolAssumption, Rotation
  <2> QED
    BY <1>1, <2>1, JobReads DEF ReadInterval, jobUnchanged, SafeInv, TypeOK
<1>2. CASE ReadUses
  <2>1. JobTypes'
    BY <1>2 DEF ReadUses, SafeInv, TypeOK, JobTypes, Rotation, NoRotation
  <2> QED
    BY <1>2, <2>1, JobReads DEF ReadUses, jobUnchanged, SafeInv, TypeOK
<1>3. CASE ListCandidates
  <2>1. JobTypes'
    BY <1>3 DEF ListCandidates, SafeInv, TypeOK, JobTypes, Candidate
  <2> QED
    BY <1>3, <2>1, JobReads DEF ListCandidates, jobUnchanged, SafeInv, TypeOK
<1>4. CASE FinishCheck
  <2>1. JobTypes'
    BY <1>4 DEF FinishCheck, SafeInv, TypeOK, JobTypes, Rotation, NoRotation
  <2> QED
    BY <1>4, <2>1, JobReads DEF FinishCheck, jobUnchanged, SafeInv, TypeOK
<1>5. ASSUME NEW c \in candidates, RotateCandidate(c)
      PROVE  SafeInv'
  <2>1. JobTypes' /\ c.machine \in Machine
    BY <1>5 DEF RotateCandidate, SafeInv, TypeOK, JobTypes, Candidate
  <2>2. UNCHANGED <<jobUnchanged, faults>>
    BY <1>5 DEF RotateCandidate
  <2>3. CASE Rotate(c.machine)
    <3>1. /\ RowTypes' /\ Unbound' /\ RotationReplaces' /\ EnabledHasAddress'
          /\ emptyAlert' \in BOOLEAN
      BY <2>1, <2>2, <2>3, RotateKeeps DEF jobUnchanged
    <3>2. TypeOK'
      BY <2>1, <2>2, <3>1
         DEF SafeInv, TypeOK, RowTypes, JobTypes, jobUnchanged, node, handlers
    <3> QED
      BY <3>1, <3>2 DEF SafeInv
  <2>4. CASE UNCHANGED <<rows, emptyAlert>>
    BY <2>1, <2>2, <2>4, JobReads DEF jobUnchanged, SafeInv, TypeOK
  <2> QED
    BY <1>5, <2>3, <2>4 DEF RotateCandidate
<1> QED
  BY <1>1, <1>2, <1>3, <1>4, <1>5 DEF Job

\* The administrator's other operations keep it; one retirement excuses a machine.
LEMMA AdminKeeps ==
  ASSUME SafeInv, Admin
  PROVE  SafeInv'
<1>1. CASE SetRotateAfterUses
  <2>1. TypeOK' /\ Unbound'
    BY <1>1, PoolAssumption DEF SetRotateAfterUses, PoolAssumption, SafeInv, TypeOK,
         Unbound, rows, node, handlers, jobVars
  <2> QED
    BY <1>1, <2>1, SameRows, SameEnabled DEF SetRotateAfterUses, SafeInv, rows
<1>2. CASE AckAlert
  <2>1. TypeOK' /\ Unbound'
    BY <1>2 DEF AckAlert, SafeInv, TypeOK, Unbound, rows, node, handlers, jobVars
  <2> QED
    BY <1>2, <2>1, SameRows, SameEnabled DEF AckAlert, SafeInv, rows
<1>3. ASSUME NEW m \in Machine, RotateByHand(m)
      PROVE  SafeInv'
  <2>1. /\ RowTypes' /\ Unbound' /\ RotationReplaces' /\ EnabledHasAddress'
        /\ emptyAlert' \in BOOLEAN
    BY <1>3, RotateKeeps DEF RotateByHand
  <2>2. TypeOK'
    BY <1>3, <2>1 DEF RotateByHand, SafeInv, TypeOK, RowTypes, node, handlers, jobVars
  <2> QED
    BY <2>1, <2>2 DEF SafeInv
<1>4. ASSUME NEW a \in Address, Retire(a)
      PROVE  SafeInv'
  <2>1. /\ status' \in [Address -> Statuses]
        /\ status'[a] = "retired"
        /\ \A b \in Address \ {a} : status'[b] = status[b]
        /\ byHand' \in {byHand, byHand \cup {a}}
        /\ machine[a] # NoMachine => a \in byHand'
        /\ UNCHANGED <<user, machine, enabled, handlers>>
    BY <1>4 DEF Retire, SafeInv, TypeOK, Statuses
  <2>2. TypeOK'
    BY <1>4, <2>1 DEF Retire, SafeInv, TypeOK, node, handlers, jobVars
  <2>3. Unbound'
    BY <2>1 DEF SafeInv, Unbound, TypeOK
  <2>4. RotationReplaces'
    <3> SUFFICES ASSUME NEW b \in Address, status'[b] = "retired",
                        machine[b] # NoMachine, b \notin byHand'
                 PROVE  \E c \in Address : machine[c] = machine[b]
                                           /\ (status'[c] = "assigned" \/ c \in byHand')
      BY <2>1 DEF RotationReplaces
    <3>1. b # a /\ status[b] = "retired" /\ b \notin byHand
      BY <2>1
    <3>2. PICK c \in Address : machine[c] = machine[b]
                               /\ (status[c] = "assigned" \/ c \in byHand)
      BY <3>1 DEF SafeInv, RotationReplaces
    <3> QED
      BY <2>1, <3>2
  <2>5. EnabledHasAddress'
    <3> SUFFICES ASSUME NEW m \in enabled
                 PROVE  InFlight(m)' \/ Active(m)' # {} \/ m \in excused'
      BY <2>1 DEF EnabledHasAddress
    <3>1. m \in Machine /\ excused' = excused \cup {k \in Machine : a \in Active(k)}
      BY <1>4 DEF Retire, SafeInv, TypeOK
    <3>2. CASE a \in Active(m)
      BY <3>1, <3>2
    <3>3. CASE a \notin Active(m)
      <4>1. Active(m) \subseteq Active(m)'
        BY <2>1, <3>3 DEF Active
      <4> QED
        BY <2>1, <3>1, <4>1 DEF SafeInv, EnabledHasAddress, InFlight, handlers
    <3> QED
      BY <3>2, <3>3
  <2> QED
    BY <2>2, <2>3, <2>4, <2>5 DEF SafeInv
<1> QED
  BY <1>1, <1>2, <1>3, <1>4 DEF Admin

\* Purchases, merges and payments keep it.
LEMMA AccountsKeep ==
  ASSUME SafeInv, Accounts \/ Payments
  PROVE  SafeInv'
<1>1. ASSUME NEW u \in User, StartPurchase(u)
      PROVE  SafeInv'
  <2>1. PICK a \in Oldest("token_deposit") :
               /\ status' = [status EXCEPT ![a] = "assigned"]
               /\ user' = [user EXCEPT ![a] = u]
    BY <1>1 DEF StartPurchase
  <2>2. a \in Address /\ status[a] = "pool"
    BY OldestInPool
  <2>3. /\ status' \in [Address -> Statuses] /\ user' \in [Address -> User \cup {NoUser}]
        /\ status'[a] = "assigned"
        /\ \A b \in Address \ {a} : status'[b] = status[b] /\ user'[b] = user[b]
        /\ UNCHANGED <<machine, byHand, enabled, excused, handlers>>
    BY <1>1, <2>1, <2>2 DEF StartPurchase, SafeInv, TypeOK, Statuses
  <2>4. TypeOK'
    BY <1>1, <2>3 DEF StartPurchase, SafeInv, TypeOK, node, handlers, jobVars
  <2>5. Unbound'
    BY <2>2, <2>3 DEF SafeInv, Unbound, TypeOK
  <2>6. RotationReplaces'
    BY <2>2, <2>3 DEF SafeInv, RotationReplaces
  <2>7. EnabledHasAddress'
    <3>1. \A m : Active(m) \subseteq Active(m)'
      BY <2>2, <2>3 DEF Active
    <3> QED
      BY <2>3, <3>1 DEF SafeInv, EnabledHasAddress, InFlight, handlers
  <2> QED
    BY <2>4, <2>5, <2>6, <2>7 DEF SafeInv
<1>2. ASSUME NEW from \in User, NEW to \in User, Merge(from, to)
      PROVE  SafeInv'
  <2>1. user' \in [Address -> User \cup {NoUser}]
        /\ \A a \in Address : user[a] = NoUser => user'[a] = NoUser
    BY <1>2, PoolAssumption DEF Merge, SafeInv, TypeOK, PoolAssumption
  <2>2. TypeOK'
    BY <1>2, <2>1 DEF Merge, SafeInv, TypeOK, node, handlers, jobVars
  <2>3. Unbound'
    BY <1>2, <2>1 DEF Merge, SafeInv, Unbound
  <2> QED
    BY <1>2, <2>2, <2>3, SameRows, SameEnabled DEF Merge, SafeInv
<1>3. ASSUME NEW a \in Address, CountUse(a)
      PROVE  SafeInv'
  <2>1. uses' \in [Address -> Nat]
    BY <1>3 DEF CountUse, SafeInv, TypeOK
  <2>2. TypeOK' /\ Unbound'
    BY <1>3, <2>1 DEF CountUse, SafeInv, TypeOK, Unbound, node, handlers, jobVars
  <2> QED
    BY <1>3, <2>2, SameRows, SameEnabled DEF CountUse, SafeInv
<1> QED
  BY <1>1, <1>2, <1>3 DEF Accounts, Payments

\* A failed statement and a restart keep it.
LEMMA FailureKeeps ==
  ASSUME SafeInv, Failure
  PROVE  SafeInv'
<1> faults' \in Nat
  BY DEF Failure, CheckFails, Restart, RegisterFails, HandlerFails, Fault, SafeInv, TypeOK
<1>1. CASE CheckFails
  <2>1. JobTypes'
    <3>1. NoRotation \in Rotation
      BY DEF Rotation, NoRotation
    <3>2. /\ job' \in {job, "idle"} /\ read' \in {read, NoRotation}
          /\ candidates' \subseteq candidates
      BY <1>1 DEF CheckFails
    <3> QED
      BY <3>1, <3>2 DEF SafeInv, TypeOK, JobTypes
  <2> QED
    BY <1>1, <2>1, JobReads DEF CheckFails, jobUnchanged
<1>2. CASE Restart
  <2>1. /\ HandlerTypes' /\ importing' = {} /\ JobTypes'
        /\ UNCHANGED <<rows, unwatched, enabled, rotateAfterUses, emptyAlert, byHand>>
    <3>1. HandlerTypes'
      BY <1>2 DEF Restart, HandlerTypes
    <3>2. JobTypes'
      BY <1>2 DEF Restart, JobTypes, Rotation, NoRotation
    <3> QED
      BY <1>2, <3>1, <3>2 DEF Restart
  <2>2. excused' = excused \cup {at[h] : h \in {i \in Handler : step[i] # "idle"}}
    BY <1>2 DEF Restart
  <2>3. excused' \subseteq Machine
    BY <2>2 DEF SafeInv, TypeOK
  <2>4. TypeOK' /\ Unbound'
    BY <2>1, <2>3 DEF SafeInv, TypeOK, Unbound, HandlerTypes, JobTypes, rows
  <2>5. EnabledHasAddress'
    <3>1. \A m : InFlight(m) => m \in excused'
      BY <2>2 DEF InFlight
    <3>2. \A m : Active(m)' = Active(m)
      BY <2>1 DEF Active, rows
    <3> QED
      BY <2>1, <2>2, <3>1, <3>2 DEF SafeInv, EnabledHasAddress
  <2> QED
    BY <2>1, <2>4, <2>5, SameRows DEF SafeInv, rows
<1>3. ASSUME NEW a \in Address, RegisterFails(a)
      PROVE  SafeInv'
  <2>1. TypeOK' /\ Unbound'
    BY <1>3 DEF RegisterFails, SafeInv, TypeOK, Unbound, rows, handlers, jobVars
  <2> QED
    BY <1>3, <2>1, SameRows, SameEnabled DEF RegisterFails, SafeInv, rows
<1>4. ASSUME NEW h \in Handler, HandlerFails(h)
      PROVE  SafeInv'
  <2>1. HandlerTypes' /\ \A k \in Machine : InFlight(k) /\ k # at[h] => InFlight(k)'
    BY <1>4, DoneHandlers DEF HandlerFails, SafeInv
  <2>2. TypeOK' /\ Unbound'
    BY <1>4, <2>1 DEF HandlerFails, SafeInv, TypeOK, Unbound, HandlerTypes, rows, node, jobVars
  <2>3. EnabledHasAddress'
    <3>1. \A k : Active(k)' = Active(k)
      BY <1>4 DEF HandlerFails, Active, rows
    <3> QED
      BY <1>4, <2>1, <3>1 DEF HandlerFails, SafeInv, EnabledHasAddress, TypeOK
  <2> QED
    BY <1>4, <2>2, <2>3, SameRows DEF HandlerFails, SafeInv, rows
<1> QED
  BY <1>1, <1>2, <1>3, <1>4 DEF Failure

-----------------------------------------------------------------------------
(* The theorems.                                                           *)

\* The invariant holds of every reachable state.
THEOREM Invariant == Spec => []SafeInv
<1>1. Init => SafeInv
  <2> SUFFICES ASSUME Init PROVE SafeInv
    OBVIOUS
  <2>1. RowTypes
    BY DEF Init, RowTypes, Statuses
  <2>2. HandlerTypes
    BY DEF Init, HandlerTypes
  <2>3. JobTypes
    BY DEF Init, JobTypes, Rotation, NoRotation
  <2>4. TypeOK
    BY <2>1, <2>2, <2>3 DEF Init, TypeOK, RowTypes, HandlerTypes, JobTypes
  <2>5. Unbound /\ RotationReplaces /\ EnabledHasAddress
    BY DEF Init, Unbound, RotationReplaces, EnabledHasAddress
  <2> QED
    BY <2>4, <2>5 DEF SafeInv
<1>2. SafeInv /\ [Next]_vars => SafeInv'
  <2> SUFFICES ASSUME SafeInv, [Next]_vars PROVE SafeInv'
    OBVIOUS
  <2>1. CASE Next
    BY <2>1, ImportKeeps, SaveKeeps, JobKeeps, AdminKeeps, AccountsKeep, FailureKeeps
       DEF Next
  <2>2. CASE UNCHANGED vars
    <3>1. TypeOK' /\ Unbound'
      BY <2>2 DEF vars, SafeInv, TypeOK, Unbound, rows, node, handlers, jobVars
    <3> QED
      BY <2>2, <3>1, SameRows, SameEnabled DEF vars, SafeInv, rows
  <2> QED
    BY <2>1, <2>2
<1> QED
  BY <1>1, <1>2, PTL DEF Spec

\* The rows, the handlers and the job hold values of their types.
THEOREM TypeCorrectness == Spec => []TypeOK
BY Invariant, PTL DEF SafeInv

\* A rotation never leaves a machine without an address, however rotations,
\* activations and an empty pool are interleaved.
THEOREM RotationReplacesHolds == Spec => []RotationReplaces
BY Invariant, PTL DEF SafeInv

\* A machine that takes direct payments has an address to show.
THEOREM EnabledHasAddressHolds == Spec => []EnabledHasAddress
BY Invariant, PTL DEF SafeInv

\* An address that was handed out stays with its user or machine: a late
\* payment is credited to whom the address was shown.
THEOREM BindingKeptHolds == Spec => BindingKept
<1>1. SafeInv /\ [Next]_vars =>
        [\A a \in Address :
           /\ status[a] \in {"assigned", "retired"} => status'[a] \in {"assigned", "retired"}
           /\ machine[a] # NoMachine => machine'[a] = machine[a]
           /\ user[a] # NoUser => /\ user'[a] # NoUser
                                  /\ \A b \in Address : user[b] = user[a] =>
                                                          user'[b] = user'[a]]_vars
  <2> DEFINE StatusKept == \A a \in Address : status[a] \in {"assigned", "retired"} =>
                             status'[a] \in {"assigned", "retired"}
             MachineKept == \A a \in Address : machine[a] # NoMachine =>
                              machine'[a] = machine[a]
             UserKept == \A a \in Address : user[a] # NoUser =>
                           /\ user'[a] # NoUser
                           /\ \A b \in Address : user[b] = user[a] => user'[b] = user'[a]
  <2> SUFFICES ASSUME SafeInv, Next PROVE StatusKept /\ MachineKept /\ UserKept
    OBVIOUS
  <2>1. CASE UNCHANGED <<status, machine, user>>
    BY <2>1
  <2>2. ASSUME NEW new \in SUBSET Address, NEW for \in Purposes, ImportBatch(new, for)
        PROVE  StatusKept /\ MachineKept /\ UserKept
    BY <2>2 DEF ImportBatch
  <2>3. ASSUME NEW m \in Machine, Rotate(m)
        PROVE  StatusKept /\ MachineKept /\ UserKept
    <3>1. ASSUME NEW a \in Oldest("machine_direct"), Give(a, m, Active(m))
          PROVE  StatusKept /\ MachineKept /\ UserKept
      BY <3>1, GiveRows DEF SafeInv
    <3> QED
      BY <2>1, <2>3, <3>1 DEF Rotate, rows
  <2>4. ASSUME NEW h \in Handler, Activate(h)
        PROVE  StatusKept /\ MachineKept /\ UserKept
    <3>1. PICK m \in Machine : m = at[h]
      BY <2>4 DEF Activate, SafeInv, TypeOK
    <3>2. ASSUME NEW a \in Oldest("machine_direct"), Give(a, m, {})
          PROVE  StatusKept /\ MachineKept /\ UserKept
      BY <3>2, GiveRows DEF SafeInv
    <3> QED
      BY <2>1, <2>4, <3>1, <3>2 DEF Activate, rows
  <2>5. ASSUME NEW u \in User, StartPurchase(u)
        PROVE  StatusKept /\ MachineKept /\ UserKept
    <3>1. PICK a \in Oldest("token_deposit") :
                 /\ status' = [status EXCEPT ![a] = "assigned"]
                 /\ user' = [user EXCEPT ![a] = u]
      BY <2>5 DEF StartPurchase
    <3>2. a \in Address /\ status[a] = "pool" /\ user[a] = NoUser
      BY OldestInPool DEF SafeInv, Unbound
    <3> QED
      BY <2>5, <3>1, <3>2 DEF StartPurchase, SafeInv, TypeOK
  <2>6. ASSUME NEW a \in Address, Retire(a)
        PROVE  StatusKept /\ MachineKept /\ UserKept
    BY <2>6 DEF Retire, SafeInv, TypeOK
  <2>7. ASSUME NEW from \in User, NEW to \in User, Merge(from, to)
        PROVE  StatusKept /\ MachineKept /\ UserKept
    BY <2>7, PoolAssumption DEF Merge, PoolAssumption
  <2>8. ASSUME NEW c \in candidates, RotateCandidate(c)
        PROVE  StatusKept /\ MachineKept /\ UserKept
    <3>1. c.machine \in Machine
      BY DEF SafeInv, TypeOK, Candidate
    <3> QED
      BY <2>1, <2>3, <2>8, <3>1 DEF RotateCandidate, rows
  <2>9. CASE Import
    BY <2>1, <2>2, <2>9 DEF Import, Register, rows
  <2>10. CASE Save
    BY <2>1, <2>4, <2>10 DEF Save, Disable, CheckActive, Enable, rows
  <2>11. CASE Job
    BY <2>1, <2>8, <2>11 DEF Job, ReadInterval, ReadUses, ListCandidates, FinishCheck, rows
  <2>12. CASE Admin
    BY <2>1, <2>3, <2>6, <2>12
       DEF Admin, SetRotateAfterUses, AckAlert, RotateByHand, rows
  <2>13. CASE Accounts \/ Payments
    BY <2>1, <2>5, <2>7, <2>13 DEF Accounts, Payments, CountUse
  <2>14. CASE Failure
    BY <2>1, <2>14 DEF Failure, CheckFails, Restart, RegisterFails, HandlerFails, rows
  <2> HIDE DEF StatusKept, MachineKept, UserKept
  <2> QED
    BY <2>9, <2>10, <2>11, <2>12, <2>13, <2>14 DEF Next
<1> QED
  BY <1>1, Invariant, PTL DEF Spec, BindingKept

=============================================================================
