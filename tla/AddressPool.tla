---------------------------- MODULE AddressPool -----------------------------
(***************************************************************************)
(* The deposit addresses: imported in batches, told to the node, bound to a*)
(* user who buys tokens or to a machine that takes direct payments, rotated*)
(* by the rotation job or by hand, retired, and moved when users merge     *)
(* (internal/services: address_batch.go, purchase.go, direct_pay.go,       *)
(* rotation.go, pool.go, users.go, and their handlers in internal/web).    *)
(*                                                                         *)
(* Requests, the rotation job and importers interleave between any two     *)
(* statements.  Each transaction is one action.  PoolService.Assign,       *)
(* Release and CheckLowWater have no caller in the program.                *)
(***************************************************************************)
EXTENDS Integers

CONSTANTS
  Address,
  Machine,
  User,          \* ids in session cookies and rows; nothing here looks a user up
  NoMachine, NoUser,
  Handler,       \* requests that save a machine's direct-pay settings
  RotateUses,    \* values of direct_pay_rotate_after_uses, 0 for never
  RotateByAge,   \* whether direct_pay_rotate_interval_hours is positive
  MaxUses,       \* bound: payments counted for an address
  MaxFaults      \* bound: failures and restarts in a behaviour

ASSUME PoolAssumption ==
  /\ NoMachine \notin Machine /\ NoUser \notin User
  /\ RotateUses \subseteq Nat /\ RotateByAge \subseteq BOOLEAN
  /\ MaxUses \in Nat /\ MaxFaults \in Nat

VARIABLES
  batches,     \* rows of address_batches so far
  status, purpose, batch, user, machine, uses,   \* the rows of addresses
  unwatched,   \* rows whose address the node's wallet does not know
  importing,   \* addresses an importer has yet to tell the node
  enabled,     \* machines with direct_pay_enabled
  rotateAfterUses,   \* the setting direct_pay_rotate_after_uses
  step, at,    \* each handler's next statement, and its machine
  job, read, candidates,   \* the rotation job: next statement, what it has read
  emptyAlert,  \* whether an alert direct_pay_pool_empty is open
  byHand,      \* history: machines' addresses that an administrator retired
  excused,     \* history: machines whose last save could not give an address,
               \* or whose address was retired by hand since
  faults

rows     == <<batches, status, purpose, batch, user, machine, uses>>
node     == <<unwatched, importing>>
handlers == <<step, at>>
jobVars  == <<job, read, candidates>>
vars == <<rows, node, enabled, rotateAfterUses, handlers, jobVars,
          emptyAlert, byHand, excused, faults>>

Purposes == {"token_deposit", "machine_direct"}
Statuses == {"none", "pool", "assigned", "retired"}
Rotation == [byAge : BOOLEAN, uses : Nat]
Candidate == [machine : Machine, uses : Nat]

TypeOK ==
  /\ batches \in Nat
  /\ status \in [Address -> Statuses]
  /\ purpose \in [Address -> Purposes \cup {"none"}]
  /\ batch \in [Address -> Nat]
  /\ user \in [Address -> User \cup {NoUser}]
  /\ machine \in [Address -> Machine \cup {NoMachine}]
  /\ uses \in [Address -> Nat]
  /\ unwatched \subseteq Address /\ importing \subseteq Address
  /\ enabled \subseteq Machine
  /\ rotateAfterUses \in Nat
  /\ step \in [Handler -> {"idle", "check", "activate"}]
  /\ at \in [Handler -> Machine \cup {NoMachine}]
  /\ \A h \in Handler : step[h] # "idle" => at[h] \in Machine
  /\ job \in {"idle", "readUses", "list", "rotate"}
  /\ read \in Rotation /\ candidates \subseteq Candidate
  /\ emptyAlert \in BOOLEAN
  /\ byHand \subseteq Address /\ excused \subseteq Machine
  /\ faults \in Nat

NoRotation == [byAge |-> FALSE, uses |-> 0]

\* The tables are empty and the settings have their defaults.
Init ==
  /\ batches = 0
  /\ status = [a \in Address |-> "none"]
  /\ purpose = [a \in Address |-> "none"]
  /\ batch = [a \in Address |-> 0]
  /\ user = [a \in Address |-> NoUser]
  /\ machine = [a \in Address |-> NoMachine]
  /\ uses = [a \in Address |-> 0]
  /\ unwatched = {} /\ importing = {}
  /\ enabled = {}
  /\ rotateAfterUses = 0
  /\ step = [h \in Handler |-> "idle"] /\ at = [h \in Handler |-> NoMachine]
  /\ job = "idle" /\ read = NoRotation /\ candidates = {}
  /\ emptyAlert = FALSE /\ byHand = {} /\ excused = {}
  /\ faults = 0

Fault == faults < MaxFaults /\ faults' = faults + 1

-----------------------------------------------------------------------------
(* Import.                                                                 *)

\* One transaction inserts a batch of one purpose; the unique index rejects a
\* batch with an address that has a row.
ImportBatch(new, for) ==
  /\ new # {}
  /\ \A a \in new : status[a] = "none"
  /\ batches' = batches + 1
  /\ purpose' = [a \in Address |-> IF a \in new THEN for ELSE purpose[a]]
  /\ batch' = [a \in Address |-> IF a \in new THEN batches' ELSE batch[a]]
  /\ status' = [a \in Address |-> IF a \in new THEN "pool" ELSE status[a]]
  /\ unwatched' = unwatched \cup new
  /\ importing' = importing \cup new
  /\ UNCHANGED <<user, machine, uses, enabled, rotateAfterUses, handlers,
                 jobVars, emptyAlert, byHand, excused, faults>>

\* Then the node is told each address.
Register(a) ==
  /\ a \in importing
  /\ importing' = importing \ {a}
  /\ unwatched' = unwatched \ {a}
  /\ UNCHANGED <<rows, enabled, rotateAfterUses, handlers, jobVars,
                 emptyAlert, byHand, excused, faults>>

\* ... or the call fails, or no node is configured, and the import goes on.
RegisterFails(a) ==
  /\ a \in importing /\ Fault
  /\ importing' = importing \ {a}
  /\ UNCHANGED <<rows, unwatched, enabled, rotateAfterUses, handlers,
                 jobVars, emptyAlert, byHand, excused>>

-----------------------------------------------------------------------------
(* Assignment.                                                             *)

\* The rows a claim may take: the lowest id of the purpose.  The ids within a
\* batch follow the iteration of a map, which has no order.
Pool(for) == {a \in Address : status[a] = "pool" /\ purpose[a] = for}
Oldest(for) == {a \in Pool(for) : \A b \in Pool(for) : batch[a] <= batch[b]}

Active(m) == {a \in Address : status[a] = "assigned" /\ machine[a] = m}
Bought(u) == {a \in Address : status[a] = "assigned" /\ user[a] = u}

\* A user taps "buy": an assigned address is shown again, or else the oldest
\* of the pool becomes the user's.  The id comes from the session cookie, and
\* nothing checks that the user still has a row.
StartPurchase(u) ==
  /\ Bought(u) = {}
  /\ \E a \in Oldest("token_deposit") :
        /\ status' = [status EXCEPT ![a] = "assigned"]
        /\ user' = [user EXCEPT ![a] = u]
  /\ UNCHANGED <<batches, purpose, batch, machine, uses, node, enabled, rotateAfterUses,
                 handlers, jobVars, emptyAlert, byHand, excused, faults>>

\* An address becomes a machine's, replacing the one it has.
Give(a, m, replaced) ==
  /\ status' = [b \in Address |->
                 IF b = a THEN "assigned"
                 ELSE IF b \in replaced THEN "retired" ELSE status[b]]
  /\ machine' = [machine EXCEPT ![a] = m]
  /\ uses' = [uses EXCEPT ![a] = 0]
  /\ UNCHANGED <<batches, purpose, batch, user>>

-----------------------------------------------------------------------------
(* A request that saves a machine's direct-pay settings.                   *)

\* Switching direct pay off leaves the address assigned.
Disable(m) ==
  /\ enabled' = enabled \ {m}
  /\ UNCHANGED <<rows, node, rotateAfterUses, handlers, jobVars, emptyAlert,
                 byHand, excused, faults>>

\* The request of a handler is over.
Done(h) == /\ step' = [step EXCEPT ![h] = "idle"]
           /\ at' = [at EXCEPT ![h] = NoMachine]

Enable(h, m) ==
  /\ step[h] = "idle"
  /\ enabled' = enabled \cup {m}
  /\ step' = [step EXCEPT ![h] = "check"] /\ at' = [at EXCEPT ![h] = m]
  /\ excused' = excused \ {m}
  /\ UNCHANGED <<rows, node, rotateAfterUses, jobVars, emptyAlert, byHand, faults>>

\* Faulty: the state of the machine's addresses is not asked for.
CheckActiveAny(h) ==
  /\ step[h] = "check"
  /\ IF \E a \in Address : machine[a] = at[h] THEN Done(h)
     ELSE step' = [step EXCEPT ![h] = "activate"] /\ UNCHANGED at
  /\ UNCHANGED <<rows, node, enabled, rotateAfterUses, jobVars, emptyAlert, byHand,
                 excused, faults>>

\* ActiveAddress: only a machine without an address gets one.
CheckActive(h) ==
  /\ step[h] = "check"
  /\ IF Active(at[h]) # {} THEN Done(h)
     ELSE step' = [step EXCEPT ![h] = "activate"] /\ UNCHANGED at
  /\ UNCHANGED <<rows, node, enabled, rotateAfterUses, jobVars, emptyAlert, byHand,
                 excused, faults>>

\* The claim fails on an empty pool, and the unique index rejects it when the
\* machine has got an address since.
Activate(h) ==
  LET m == at[h] IN
  /\ step[h] = "activate" /\ Done(h)
  /\ \/ /\ Active(m) = {}
        /\ \E a \in Oldest("machine_direct") : Give(a, m, {})
        /\ UNCHANGED excused
     \/ /\ Active(m) = {} /\ Oldest("machine_direct") = {}
        /\ excused' = excused \cup {m}
        /\ UNCHANGED rows
     \/ /\ Active(m) # {}
        /\ UNCHANGED <<rows, excused>>
  /\ UNCHANGED <<node, enabled, rotateAfterUses, jobVars, emptyAlert, byHand, faults>>

\* A statement of the request fails.
HandlerFails(h) ==
  /\ step[h] # "idle" /\ Fault /\ Done(h)
  /\ excused' = excused \cup {at[h]}
  /\ UNCHANGED <<rows, node, enabled, rotateAfterUses, jobVars, emptyAlert, byHand>>

-----------------------------------------------------------------------------
(* Rotation.                                                               *)

\* Faulty: the old address is retired before a new one is looked for.
RotateRetiresFirst(m) ==
  \/ \E a \in Oldest("machine_direct") : Give(a, m, Active(m)) /\ UNCHANGED emptyAlert
  \/ /\ Oldest("machine_direct") = {}
     /\ status' = [a \in Address |-> IF a \in Active(m) THEN "retired" ELSE status[a]]
     /\ emptyAlert' = TRUE
     /\ UNCHANGED <<batches, purpose, batch, user, machine, uses>>

\* One transaction; without a replacement it changes nothing, and an alert is
\* inserted after it.
Rotate(m) ==
  \/ \E a \in Oldest("machine_direct") : Give(a, m, Active(m)) /\ UNCHANGED emptyAlert
  \/ Oldest("machine_direct") = {} /\ emptyAlert' = TRUE /\ UNCHANGED rows

RotateByHand(m) ==
  /\ Rotate(m)
  /\ UNCHANGED <<node, enabled, rotateAfterUses, handlers, jobVars, byHand,
                 excused, faults>>

jobUnchanged == <<node, enabled, rotateAfterUses, handlers, byHand, excused>>

\* CheckAll reads the two settings one by one; the interval, which nothing else
\* reads, may have any value when it does ...
ReadInterval ==
  /\ job = "idle" /\ job' = "readUses"
  /\ \E v \in RotateByAge : read' = [read EXCEPT !.byAge = v]
  /\ UNCHANGED <<rows, jobUnchanged, candidates, emptyAlert, faults>>

ReadUses ==
  /\ job = "readUses"
  /\ LET r == [read EXCEPT !.uses = rotateAfterUses]
     IN  IF r = NoRotation THEN job' = "idle" /\ read' = NoRotation
         ELSE job' = "list" /\ read' = r
  /\ UNCHANGED <<rows, jobUnchanged, candidates, emptyAlert, faults>>

\* ... lists the active addresses of the machines with direct pay ...
ListCandidates ==
  /\ job = "list" /\ job' = "rotate"
  /\ candidates' = {[machine |-> machine[a], uses |-> uses[a]] :
                      a \in {b \in Address : status[b] = "assigned"
                                             /\ machine[b] \in enabled}}
  /\ UNCHANGED <<rows, jobUnchanged, read, emptyAlert, faults>>

\* Faulty: one use more than the setting says is waited for.
RotateCandidateLate(c) ==
  /\ job = "rotate" /\ c \in candidates
  /\ candidates' = candidates \ {c}
  /\ LET worn == read.uses > 0 /\ c.uses > read.uses
     IN  \/ (worn \/ read.byAge) /\ Rotate(c.machine)
         \/ ~worn /\ UNCHANGED <<rows, emptyAlert>>
  /\ UNCHANGED <<jobUnchanged, job, read, faults>>

\* ... and rotates, one after the other, the machines whose address was due
\* then: by its uses, or, with an interval set, by its age, which may be
\* anything here.
RotateCandidate(c) ==
  /\ job = "rotate" /\ c \in candidates
  /\ candidates' = candidates \ {c}
  /\ LET worn == read.uses > 0 /\ c.uses >= read.uses
     IN  \/ (worn \/ read.byAge) /\ Rotate(c.machine)
         \/ ~worn /\ UNCHANGED <<rows, emptyAlert>>
  /\ UNCHANGED <<jobUnchanged, job, read, faults>>

FinishCheck ==
  /\ job = "rotate" /\ candidates = {}
  /\ job' = "idle" /\ read' = NoRotation
  /\ UNCHANGED <<rows, jobUnchanged, candidates, emptyAlert, faults>>

\* A failed read ends the check, a failed rotation is logged.
CheckFails ==
  /\ job # "idle" /\ Fault
  /\ \/ job # "rotate" /\ job' = "idle" /\ read' = NoRotation /\ UNCHANGED candidates
     \/ \E c \in candidates : candidates' = candidates \ {c} /\ UNCHANGED <<job, read>>
  /\ UNCHANGED <<rows, jobUnchanged, emptyAlert>>

-----------------------------------------------------------------------------
(* Administrators, users, the credit hook, time, and restarts.             *)

\* Faulty: the row loses its user and its machine, as with Release.
RetireForgets(a) ==
  /\ status[a] \in {"pool", "assigned"}
  /\ status' = [status EXCEPT ![a] = "retired"]
  /\ user' = [user EXCEPT ![a] = NoUser]
  /\ machine' = [machine EXCEPT ![a] = NoMachine]
  /\ byHand' = IF machine[a] = NoMachine THEN byHand ELSE byHand \cup {a}
  /\ excused' = excused \cup {m \in Machine : a \in Active(m)}
  /\ UNCHANGED <<batches, purpose, batch, uses, node, enabled, rotateAfterUses,
                 handlers, jobVars, emptyAlert, faults>>

\* The page offers the addresses of the pool, as they were when it was loaded;
\* one that has been assigned since is retired like any other.
Retire(a) ==
  /\ status[a] \in {"pool", "assigned"}
  /\ status' = [status EXCEPT ![a] = "retired"]
  /\ byHand' = IF machine[a] = NoMachine THEN byHand ELSE byHand \cup {a}
  /\ excused' = excused \cup {m \in Machine : a \in Active(m)}
  /\ UNCHANGED <<batches, purpose, batch, user, machine, uses, node, enabled,
                 rotateAfterUses, handlers, jobVars, emptyAlert, faults>>

SetRotateAfterUses ==
  /\ rotateAfterUses' \in RotateUses
  /\ UNCHANGED <<rows, node, enabled, handlers, jobVars, emptyAlert,
                 byHand, excused, faults>>

AckAlert ==
  /\ emptyAlert /\ emptyAlert' = FALSE
  /\ UNCHANGED <<rows, node, enabled, rotateAfterUses, handlers, jobVars,
                 byHand, excused, faults>>

\* UsersService.Merge: a user cannot end up with two assigned addresses
\* (idx_addresses_one_assigned_per_user).
Merge(from, to) ==
  /\ from # to
  /\ Bought(from) = {} \/ Bought(to) = {}
  /\ user' = [a \in Address |-> IF user[a] = from THEN to ELSE user[a]]
  /\ UNCHANGED <<batches, status, purpose, batch, machine, uses, node, enabled, rotateAfterUses,
                 handlers, jobVars, emptyAlert, byHand, excused, faults>>

\* CreditDeposit counts a payment, also a late one.
CountUse(a) ==
  /\ machine[a] # NoMachine /\ uses[a] < MaxUses
  /\ uses' = [uses EXCEPT ![a] = @ + 1]
  /\ UNCHANGED <<batches, status, purpose, batch, user, machine, node, enabled,
                 rotateAfterUses, handlers, jobVars, emptyAlert, byHand, excused, faults>>

Restart ==
  /\ Fault
  /\ importing' = {}
  /\ step' = [h \in Handler |-> "idle"] /\ at' = [h \in Handler |-> NoMachine]
  /\ excused' = excused \cup {at[h] : h \in {i \in Handler : step[i] # "idle"}}
  /\ job' = "idle" /\ read' = NoRotation /\ candidates' = {}
  /\ UNCHANGED <<rows, unwatched, enabled, rotateAfterUses, emptyAlert, byHand>>

-----------------------------------------------------------------------------
Job == \/ ReadInterval \/ ReadUses \/ ListCandidates \/ FinishCheck
       \/ \E c \in candidates : RotateCandidate(c)

Import == \/ \E new \in SUBSET Address, for \in Purposes : ImportBatch(new, for)
          \/ \E a \in Address : Register(a)

Save == \/ \E m \in Machine : Disable(m)
        \/ \E h \in Handler : \/ CheckActive(h) \/ Activate(h)
                              \/ \E m \in Machine : Enable(h, m)

Admin == \/ SetRotateAfterUses \/ AckAlert
         \/ \E m \in Machine : RotateByHand(m)
         \/ \E a \in Address : Retire(a)

Accounts == \/ \E u \in User : StartPurchase(u)
            \/ \E from, to \in User : Merge(from, to)

Payments == \E a \in Address : CountUse(a)

Failure == \/ CheckFails \/ Restart
           \/ \E a \in Address : RegisterFails(a)
           \/ \E h \in Handler : HandlerFails(h)

Next == Import \/ Save \/ Job \/ Admin \/ Accounts \/ Payments \/ Failure
Spec == Init /\ [][Next]_vars

\* The job's ticker fires again and again.
FairSpec == Spec /\ WF_vars(Job)

-----------------------------------------------------------------------------
(* Properties.                                                             *)

\* Only an administrator who retires an address by hand can leave a machine
\* without one: an address that was rotated out has a successor, whatever
\* rotations, activations and an empty pool came together.
RotationReplaces ==
  \A a \in Address :
    status[a] = "retired" /\ machine[a] # NoMachine /\ a \notin byHand =>
      \E b \in Address : machine[b] = machine[a]
                        /\ (status[b] = "assigned" \/ b \in byHand)

InFlight(m) == \E h \in Handler : step[h] # "idle" /\ at[h] = m

\* A machine with direct pay switched on has an address to show, once the
\* requests that switched it on are done: unless the pool was empty or a
\* statement failed, or the address was retired by hand afterwards.
EnabledHasAddress ==
  \A m \in enabled : InFlight(m) \/ Active(m) # {} \/ m \in excused

\* An address that was handed out never returns to the pool and stays with
\* its machine, and with its user, or moves with all of that user's addresses:
\* late payments to it are credited to whom it was shown.  Deposits relies on
\* this.
BindingKept ==
  [][\A a \in Address :
       /\ status[a] \in {"assigned", "retired"} => status'[a] \in {"assigned", "retired"}
       /\ machine[a] # NoMachine => machine'[a] = machine[a]
       /\ user[a] # NoUser => /\ user'[a] # NoUser
                              /\ \A b \in Address : user[b] = user[a] =>
                                                      user'[b] = user'[a]]_vars

IsDue(a, n) == /\ n > 0 /\ rotateAfterUses = n /\ uses[a] >= n
               /\ status[a] = "assigned" /\ machine[a] \in enabled

\* An address that was used as often as the setting allows is rotated out, or the
\* administrators are told, again if they acknowledged it, that the pool is empty.
DueIsRotated ==
  \A a \in Address, n \in RotateUses :
    <>[]IsDue(a, n) => []<>(emptyAlert /\ Oldest("machine_direct") = {})

=============================================================================
