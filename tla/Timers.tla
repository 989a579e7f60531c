------------------------------- MODULE Timers -------------------------------
(***************************************************************************)
(* What a timer service promises, whatever thread does the work: a timer    *)
(* that has been set goes off once, not before it is due and not before one *)
(* that is due earlier, unless it is cancelled.                             *)
(***************************************************************************)
EXTENDS Naturals

CONSTANT Ids  \* the timers

VARIABLES
  now,
  status,  \* of each timer: "free", "pending", "fired" or "cancelled"
  due

timers == <<now, status, due>>

Pending == {id \in Ids : status[id] = "pending"}

Init ==
  /\ now = 0
  /\ status = [id \in Ids |-> "free"]
  /\ due = [id \in Ids |-> 0]

\* A timer is set, for any time.
Set(id) ==
  /\ status[id] = "free"
  /\ status' = [status EXCEPT ![id] = "pending"]
  /\ due' = [due EXCEPT ![id] = due'[id]] /\ due'[id] \in Nat
  /\ UNCHANGED now

GoOff(id) ==
  /\ id \in Pending /\ due[id] <= now
  /\ \A other \in Pending : due[id] <= due[other]
  /\ status' = [status EXCEPT ![id] = "fired"]
  /\ UNCHANGED <<now, due>>

\* One timer is cancelled, or all of them.
Cancel(S) ==
  /\ S \subseteq Pending
  /\ status' = [id \in Ids |-> IF id \in S THEN "cancelled" ELSE status[id]]
  /\ UNCHANGED <<now, due>>

Tick == now' = now + 1 /\ UNCHANGED <<status, due>>

Next ==
  \/ \E id \in Ids : Set(id) \/ GoOff(id) \/ Cancel({id})
  \/ Cancel(Pending)
  \/ Tick

Spec == Init /\ [][Next]_timers

=============================================================================
