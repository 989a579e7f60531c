-------------------------- MODULE TimeoutScheduler --------------------------
(***************************************************************************)
(* scapy/contrib/isotp/isotp_soft_socket.py, class TimeoutScheduler: one    *)
(* thread runs the callbacks of all timeouts of the ISO-TP and CoAP sockets.*)
(* It is started by schedule() and ends when there has been nothing to do   *)
(* for GRACE; schedule() wakes it when a timeout gets in front of the one   *)
(* it waits for.                                                           *)
(*                                                                         *)
(* A block under the mutex is one action; what happens before and after it  *)
(* (reading the clock, setting and clearing the event) is another.  The     *)
(* callbacks run on the thread, outside the mutex, and may call schedule(), *)
(* cancel() and clear() like anybody else.                                  *)
(***************************************************************************)
EXTENDS Naturals, FiniteSets

CONSTANTS
  Ids,       \* the handles there are
  Users,     \* threads that use the scheduler
  Threads,   \* threads that may be the scheduler's
  NoThread,  \* None, in cls._thread
  NoHandle,  \* None, as the result of _peek_next
  Timeouts,  \* arguments of schedule()
  Grace,     \* GRACE
  MaxClock,  \* bound: the time of the run
  MaxClears, \* bound: calls of clear()
  MaxKills   \* bound: callbacks that end the thread (SystemExit)

ASSUME ConstantsAssumption ==
  /\ NoThread \notin Threads /\ NoHandle \notin Ids
  /\ Users \cap Threads = {}
  /\ Timeouts \subseteq Nat
  /\ {Grace, MaxClock, MaxClears, MaxKills} \subseteq Nat

\* A local variable of the code that is not read again goes back to its first value.
VARIABLES
  clock,     \* time.monotonic()
  \* the class
  handles,   \* _handles
  thread,    \* _thread
  event,     \* _event
  \* the handles
  cb,        \* _cb: "unused" before there is a handle, "set", "none", "done" (True)
  when,      \* _when
  \* each thread of the scheduler
  pc,        \* where it is in _task()
  peeked,    \* handle
  empty,     \* time_empty: the time plus one, 0 for None
  wakeAt,    \* when its wait ends
  \* calls of schedule() and clear(), by users and by the callbacks
  call,      \* "idle", "push" or "set"
  at,        \* the local variable when of schedule()
  clears, kills

shared == <<handles, thread, event, cb, when>>
locals == <<peeked, empty, wakeAt>>
calls  == <<call, at, clears>>
vars   == <<clock, shared, pc, locals, calls, kills>>

Actors == Users \cup Threads

TypeOK ==
  /\ clock \in 0..MaxClock
  /\ handles \subseteq Ids /\ thread \in Threads \cup {NoThread} /\ event \in BOOLEAN
  /\ cb \in [Ids -> {"unused", "set", "none", "done"}] /\ when \in [Ids -> Nat]
  /\ pc \in [Threads -> {"none", "peek", "die?", "wait", "sleep", "clear", "poll", "callback",
                         "finally", "dead"}]
  /\ peeked \in [Threads -> Ids \cup {NoHandle}]
  /\ empty \in [Threads -> Nat] /\ wakeAt \in [Threads -> Nat]
  /\ call \in [Actors -> {"idle", "push", "set"}] /\ at \in [Actors -> Nat]
  /\ clears \in 0..MaxClears /\ kills \in 0..MaxKills

Init ==
  /\ clock = 0
  /\ handles = {} /\ thread = NoThread /\ event = FALSE
  /\ cb = [id \in Ids |-> "unused"] /\ when = [id \in Ids |-> 0]
  /\ pc = [t \in Threads |-> "none"]
  /\ peeked = [t \in Threads |-> NoHandle]
  /\ empty = [t \in Threads |-> 0] /\ wakeAt = [t \in Threads |-> 0]
  /\ call = [a \in Actors |-> "idle"] /\ at = [a \in Actors |-> 0]
  /\ clears = 0 /\ kills = 0

\* The front of the heap; of handles due at the same time any may be there.
First(id) == id \in handles /\ \A other \in handles : when[id] <= when[other]

\* The thread of the class is alive.
Alive == thread # NoThread /\ pc[thread] # "dead"

-----------------------------------------------------------------------------
(* schedule(), cancel() and clear()                                        *)

\* An actor is free to call: a user always, a thread in a callback.
Free(a) == call[a] = "idle" /\ (a \in Threads => pc[a] = "callback")

\* schedule() reads the clock before it takes the mutex ...
BeginSchedule(a, timeout) ==
  /\ Free(a) /\ clock + timeout <= MaxClock
  /\ Cardinality({b \in Actors : call[b] = "push"}) < Cardinality({id \in Ids : cb[id] = "unused"})
  /\ call' = [call EXCEPT ![a] = "push"]
  /\ at' = [at EXCEPT ![a] = clock + timeout]
  /\ UNCHANGED <<clock, shared, pc, locals, clears, kills>>

\* A new handle gets in front only if it is due before all others.
InFront(a) == \A other \in handles : at[a] < when[other]

\* Mutant: the caller never wakes the thread.
PushQuietly(a, id) ==
  /\ call[a] = "push" /\ cb[id] = "unused"
  /\ cb' = [cb EXCEPT ![id] = "set"]
  /\ when' = [when EXCEPT ![id] = at[a]]
  /\ handles' = handles \cup {id}
  /\ \/ /\ Alive
        /\ UNCHANGED <<thread, event, pc, locals>>
     \/ /\ ~Alive
        /\ \E t \in Threads :
             /\ pc[t] \in {"none", "dead"}
             /\ thread' = t
             /\ pc' = [pc EXCEPT ![t] = "peek"]
             /\ empty' = [empty EXCEPT ![t] = 0]
        /\ event' = FALSE
        /\ UNCHANGED <<peeked, wakeAt>>
  /\ call' = [call EXCEPT ![a] = "idle"]
  /\ at' = [at EXCEPT ![a] = 0]
  /\ UNCHANGED <<clock, clears, kills>>

\* Mutant: the class remembers the caller, not the thread it has started.
PushCaller(a, id) ==
  /\ call[a] = "push" /\ cb[id] = "unused"
  /\ cb' = [cb EXCEPT ![id] = "set"]
  /\ when' = [when EXCEPT ![id] = at[a]]
  /\ handles' = handles \cup {id}
  /\ thread' = a
  /\ \E t \in Threads :
       /\ pc[t] \in {"none", "dead"}
       /\ pc' = [pc EXCEPT ![t] = "peek"]
       /\ empty' = [empty EXCEPT ![t] = 0]
  /\ call' = [call EXCEPT ![a] = "idle"]
  /\ at' = [at EXCEPT ![a] = 0]
  /\ UNCHANGED <<clock, event, peeked, wakeAt, clears, kills>>

\* Mutant: a thread is started for each handle that gets in front.
PushStarting(a, id) ==
  /\ call[a] = "push" /\ cb[id] = "unused"
  /\ cb' = [cb EXCEPT ![id] = "set"]
  /\ when' = [when EXCEPT ![id] = at[a]]
  /\ handles' = handles \cup {id}
  /\ \/ /\ ~InFront(a)
        /\ UNCHANGED <<thread, event, pc, locals>>
     \/ /\ InFront(a)
        /\ \E t \in Threads :
             /\ pc[t] \in {"none", "dead"}
             /\ thread' = t
             /\ pc' = [pc EXCEPT ![t] = "peek"]
             /\ empty' = [empty EXCEPT ![t] = 0]
        /\ event' = FALSE
        /\ UNCHANGED <<peeked, wakeAt>>
  /\ call' = [call EXCEPT ![a] = "idle"]
  /\ at' = [at EXCEPT ![a] = 0]
  /\ UNCHANGED <<clock, clears, kills>>

\* ... adds the handle under it, and starts a thread if there is none alive.
Push(a, id) ==
  /\ call[a] = "push" /\ cb[id] = "unused"
  /\ cb' = [cb EXCEPT ![id] = "set"]
  /\ when' = [when EXCEPT ![id] = at[a]]
  /\ handles' = handles \cup {id}
  /\ \/ /\ Alive
        /\ call' = [call EXCEPT ![a] = IF InFront(a) THEN "set" ELSE "idle"]
        /\ UNCHANGED <<thread, event, pc, locals>>
     \/ /\ ~Alive
        /\ \E t \in Threads :
             /\ pc[t] \in {"none", "dead"}
             /\ thread' = t
             /\ pc' = [pc EXCEPT ![t] = "peek"]
             /\ empty' = [empty EXCEPT ![t] = 0]
        /\ event' = FALSE
        /\ call' = [call EXCEPT ![a] = "idle"]
        /\ UNCHANGED <<peeked, wakeAt>>
  /\ at' = [at EXCEPT ![a] = 0]
  /\ UNCHANGED <<clock, clears, kills>>

\* After the mutex, for schedule() and for clear().
SetEvent(a) ==
  /\ call[a] = "set"
  /\ event' = TRUE
  /\ call' = [call EXCEPT ![a] = "idle"]
  /\ UNCHANGED <<clock, handles, thread, cb, when, pc, locals, at, clears, kills>>

\* Handle.cancel() of a handle that has not run; one that has been cleared is not
\* found, which raises after _cb is None.
CancelHandle(a, id) ==
  /\ Free(a) /\ cb[id] = "set"
  /\ cb' = [cb EXCEPT ![id] = "none"]
  /\ handles' = handles \ {id}
  /\ event' = (event \/ handles = {id})
  /\ UNCHANGED <<clock, thread, when, pc, locals, calls, kills>>

ClearHandles(a) ==
  /\ Free(a) /\ clears < MaxClears
  /\ clears' = clears + 1
  /\ handles' = {}
  /\ call' = [call EXCEPT ![a] = "set"]
  /\ UNCHANGED <<clock, thread, event, cb, when, pc, locals, at, kills>>

-----------------------------------------------------------------------------
(* The thread: _task(), _wait() and _poll()                                *)

\* _peek_next(), and the decision to end after GRACE without a handle.
Peek(t) ==
  /\ pc[t] = "peek"
  /\ \/ /\ handles = {}
        /\ peeked' = [peeked EXCEPT ![t] = NoHandle]
        /\ empty' = [empty EXCEPT ![t] = IF @ = 0 THEN clock + 1 ELSE @]
        /\ pc' = [pc EXCEPT ![t] = IF empty'[t] - 1 + Grace < clock THEN "die?" ELSE "wait"]
     \/ /\ \E id \in Ids : First(id) /\ peeked' = [peeked EXCEPT ![t] = id]
        /\ empty' = [empty EXCEPT ![t] = 0]
        /\ pc' = [pc EXCEPT ![t] = "wait"]
  /\ UNCHANGED <<clock, shared, wakeAt, calls, kills>>

\* Mutant: the thread ends without looking again.
DieBlindly(t) ==
  /\ pc[t] = "die?"
  /\ thread' = NoThread
  /\ pc' = [pc EXCEPT ![t] = "finally"]
  /\ UNCHANGED <<clock, handles, event, cb, when, locals, calls, kills>>

\* Under the mutex: the thread ends only if no handle has come meanwhile.
Die(t) ==
  /\ pc[t] = "die?"
  /\ \/ /\ handles = {}
        /\ thread' = NoThread
        /\ pc' = [pc EXCEPT ![t] = "finally"]
        /\ UNCHANGED empty
     \/ /\ handles # {}
        /\ empty' = [empty EXCEPT ![t] = 0]
        /\ pc' = [pc EXCEPT ![t] = "peek"]
        /\ UNCHANGED thread
  /\ UNCHANGED <<clock, handles, event, cb, when, peeked, wakeAt, calls, kills>>

\* _wait() up to event.wait(): how long, from the handle seen before.
BeginWait(t) ==
  /\ pc[t] = "wait"
  /\ wakeAt' = [wakeAt EXCEPT ![t] =
                  IF peeked[t] = NoHandle THEN clock + Grace ELSE when[peeked[t]]]
  /\ pc' = [pc EXCEPT ![t] = IF clock < wakeAt'[t] THEN "sleep" ELSE "clear"]
  /\ peeked' = [peeked EXCEPT ![t] = NoHandle]
  /\ UNCHANGED <<clock, shared, empty, calls, kills>>

WakeUp(t) ==
  /\ pc[t] = "sleep"
  /\ event \/ wakeAt[t] <= clock
  /\ pc' = [pc EXCEPT ![t] = "clear"]
  /\ UNCHANGED <<clock, shared, locals, calls, kills>>

ClearEvent(t) ==
  /\ pc[t] = "clear"
  /\ event' = FALSE
  /\ wakeAt' = [wakeAt EXCEPT ![t] = 0]
  /\ pc' = [pc EXCEPT ![t] = "poll"]
  /\ UNCHANGED <<clock, handles, thread, cb, when, peeked, empty, calls, kills>>

\* Mutant: a callback runs one tick early.
PollEarly(t) ==
  /\ pc[t] = "poll"
  /\ \/ /\ \A id \in handles : when[id] > clock + 1
        /\ pc' = [pc EXCEPT ![t] = "peek"]
        /\ UNCHANGED <<handles, cb>>
     \/ /\ \E id \in Ids :
             /\ First(id) /\ when[id] <= clock + 1
             /\ handles' = handles \ {id}
             /\ cb' = [cb EXCEPT ![id] = "done"]
        /\ pc' = [pc EXCEPT ![t] = "callback"]
  /\ UNCHANGED <<clock, thread, event, when, locals, calls, kills>>

\* One pass of _poll(): nothing is due, or the first handle is taken.
Poll(t) ==
  /\ pc[t] = "poll"
  /\ \/ /\ \A id \in handles : when[id] > clock
        /\ pc' = [pc EXCEPT ![t] = "peek"]
        /\ UNCHANGED <<handles, cb>>
     \/ /\ \E id \in Ids :
             /\ First(id) /\ when[id] <= clock
             /\ handles' = handles \ {id}
             /\ cb' = [cb EXCEPT ![id] = "done"]
        /\ pc' = [pc EXCEPT ![t] = "callback"]
  /\ UNCHANGED <<clock, thread, event, when, locals, calls, kills>>

\* The callback returns, or raises an Exception, which is printed.
CallbackEnds(t) ==
  /\ pc[t] = "callback" /\ call[t] = "idle"
  /\ pc' = [pc EXCEPT ![t] = "poll"]
  /\ UNCHANGED <<clock, shared, locals, calls, kills>>

\* It raises what is no Exception: the loop is left.
CallbackKills(t) ==
  /\ pc[t] = "callback" /\ call[t] = "idle" /\ kills < MaxKills
  /\ kills' = kills + 1
  /\ pc' = [pc EXCEPT ![t] = "finally"]
  /\ UNCHANGED <<clock, shared, locals, calls>>

\* Mutant: the reference is cleared in any case.
FinallyAny(t) ==
  /\ pc[t] = "finally"
  /\ thread' = NoThread
  /\ pc' = [pc EXCEPT ![t] = "dead"]
  /\ UNCHANGED <<clock, handles, event, cb, when, locals, calls, kills>>

Finally(t) ==
  /\ pc[t] = "finally"
  /\ thread' = IF thread = t THEN NoThread ELSE thread
  /\ pc' = [pc EXCEPT ![t] = "dead"]
  /\ UNCHANGED <<clock, handles, event, cb, when, locals, calls, kills>>

Task(t) ==
  \/ Peek(t) \/ Die(t) \/ BeginWait(t) \/ WakeUp(t) \/ ClearEvent(t) \/ Poll(t)
  \/ CallbackEnds(t) \/ CallbackKills(t) \/ Finally(t)

Tick ==
  /\ clock < MaxClock
  /\ clock' = clock + 1
  /\ UNCHANGED <<shared, pc, locals, calls, kills>>

CallStep(a) == SetEvent(a) \/ \E id \in Ids : Push(a, id)

Next ==
  \/ \E a \in Actors :
       \/ \E timeout \in Timeouts : BeginSchedule(a, timeout)
       \/ CallStep(a)
       \/ \E id \in Ids : CancelHandle(a, id)
       \/ ClearHandles(a)
  \/ \E t \in Threads : Task(t)
  \/ Tick

Spec == Init /\ [][Next]_vars

\* All threads run, callbacks return, the clock advances.
FairSpec ==
  /\ Spec /\ WF_vars(Tick)
  /\ \A a \in Actors : WF_vars(CallStep(a))
  /\ \A t \in Threads : WF_vars(Task(t))

-----------------------------------------------------------------------------
(* Properties                                                              *)

\* The timer service it implements.
StatusOf(id) ==
  CASE cb[id] = "unused" -> "free"
    [] id \in handles    -> "pending"
    [] cb[id] = "done"   -> "fired"
    [] OTHER             -> "cancelled"

Service == INSTANCE Timers WITH
  now <- clock, status <- [id \in Ids |-> StatusOf(id)], due <- when

\* A timeout goes off once, in time and in order, unless it is cancelled or
\* cleared, however calls and callbacks interleave.
ImplementsTimers == Service!Spec

Running == {"peek", "die?", "wait", "sleep", "clear", "poll", "callback"}

\* The callbacks of the sockets take no lock: no two run at a time.
OneThread == \A t, u \in Threads : pc[t] \in Running /\ pc[u] \in Running => t = u

\* While a handle is pending the scheduler has a thread that will look at it, not
\* one that has just decided to end.
NeverStranded == kills = 0 /\ handles # {} => thread # NoThread /\ pc[thread] \in Running

\* A thread asleep beyond the time of a pending handle will be woken: the event is
\* set, or about to be by whoever scheduled it.
NoLostWakeup ==
  \A t \in Threads, id \in handles :
    pc[t] = "sleep" /\ when[id] < wakeAt[t] => event \/ \E a \in Actors : call[a] = "set"

\* A pending timeout is run or cancelled in the end, unless a callback has ended the
\* thread and nobody has scheduled since.
EventuallyHandled ==
  \A id \in Ids : id \in handles ~> id \notin handles \/ (kills > 0 /\ ~Alive)

=============================================================================
