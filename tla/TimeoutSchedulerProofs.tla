----------------------- MODULE TimeoutSchedulerProofs -----------------------
(***************************************************************************)
(* TimeoutScheduler has one thread at a time, never leaves a timeout        *)
(* without one, loses no wake-up and is a timer service, for any number of  *)
(* handles, users and threads.                                             *)
(***************************************************************************)
EXTENDS TimeoutScheduler, TLAPS

\* Only handles that are neither run nor cancelled are in the heap, and the
\* thread looks only at handles that exist.
HandlesLive ==
  /\ \A id \in handles : cb[id] = "set"
  /\ \A t \in Threads : peeked[t] # NoHandle => cb[peeked[t]] # "unused"

\* A thread that is not ending is the thread of the class.
Sole == \A t \in Threads : pc[t] \in Running => thread = t

\* As long as no callback has ended a thread, the thread of the class is not
\* ending, and there is one if there is anything to do.
Staffed ==
  kills = 0 =>
    /\ thread # NoThread => pc[thread] \in Running
    /\ handles # {} => thread # NoThread

\* The event is set, or about to be.
Called == event \/ \E a \in Actors : call[a] = "set"

\* A handle that got in front of the one seen has not gone unnoticed before the
\* thread sleeps ...
HeardBefore ==
  \A t \in Threads :
    /\ pc[t] = "wait"
    /\ \E id \in handles : peeked[t] = NoHandle \/ when[id] < when[peeked[t]]
    => Called

\* ... or while it does.
HeardAsleep ==
  \A t \in Threads :
    pc[t] = "sleep" /\ (\E id \in handles : when[id] < wakeAt[t]) => Called

SchedulerInv == TypeOK /\ HandlesLive /\ Sole /\ Staffed /\ HeardBefore /\ HeardAsleep

-----------------------------------------------------------------------------

\* Every value keeps its type.
LEMMA TypeStep == TypeOK /\ [Next]_vars => TypeOK'
<1> SUFFICES ASSUME TypeOK, [Next]_vars PROVE TypeOK'
  OBVIOUS
<1> USE ConstantsAssumption DEF ConstantsAssumption, Actors, shared, locals, calls
<1>1. ASSUME NEW a \in Actors, NEW timeout \in Timeouts, BeginSchedule(a, timeout) PROVE TypeOK'
  BY <1>1 DEF TypeOK, BeginSchedule
<1>2. ASSUME NEW a \in Actors, NEW id \in Ids, Push(a, id) PROVE TypeOK'
  <2>1. /\ cb' \in [Ids -> {"unused", "set", "none", "done"}] /\ when' \in [Ids -> Nat]
        /\ handles' \subseteq Ids /\ at' \in [Actors -> Nat]
    BY <1>2 DEF TypeOK, Push
  <2>2. CASE Alive
    BY <1>2, <2>1, <2>2 DEF TypeOK, Push
  <2>3. CASE ~Alive
    BY ZenonT(30), <1>2, <2>1, <2>3 DEF TypeOK, Push
  <2> QED
    BY <2>2, <2>3
<1>3. ASSUME NEW a \in Actors, SetEvent(a) PROVE TypeOK'
  BY <1>3 DEF TypeOK, SetEvent
<1>4. ASSUME NEW a \in Actors, NEW id \in Ids, CancelHandle(a, id) PROVE TypeOK'
  BY <1>4 DEF TypeOK, CancelHandle
<1>5. ASSUME NEW a \in Actors, ClearHandles(a) PROVE TypeOK'
  BY <1>5 DEF TypeOK, ClearHandles
<1>6. ASSUME NEW t \in Threads, Task(t) PROVE TypeOK'
  <2>1. CASE Peek(t)
    BY <2>1 DEF TypeOK, Peek, First
  <2>2. CASE Die(t)
    BY <2>2 DEF TypeOK, Die
  <2>3. CASE BeginWait(t)
    BY <2>3 DEF TypeOK, BeginWait
  <2>4. CASE WakeUp(t)
    BY <2>4 DEF TypeOK, WakeUp
  <2>5. CASE ClearEvent(t)
    BY <2>5 DEF TypeOK, ClearEvent
  <2>6. CASE Poll(t)
    BY <2>6 DEF TypeOK, Poll
  <2>7. CASE CallbackEnds(t)
    BY <2>7 DEF TypeOK, CallbackEnds
  <2>8. CASE CallbackKills(t)
    BY <2>8 DEF TypeOK, CallbackKills
  <2>9. CASE Finally(t)
    BY <2>9 DEF TypeOK, Finally
  <2> QED
    BY <1>6, <2>1, <2>2, <2>3, <2>4, <2>5, <2>6, <2>7, <2>8, <2>9 DEF Task
<1>7. CASE Tick
  BY <1>7 DEF TypeOK, Tick
<1>8. CASE UNCHANGED vars
  BY <1>8 DEF TypeOK, vars
<1> HIDE DEF Actors
<1> QED
  BY <1>1, <1>2, <1>3, <1>4, <1>5, <1>6, <1>7, <1>8 DEF Next, CallStep

\* The heap and what the thread has seen of it.
LEMMA HandlesLiveStep == TypeOK /\ HandlesLive /\ [Next]_vars => HandlesLive'
<1> SUFFICES ASSUME TypeOK, HandlesLive, [Next]_vars PROVE HandlesLive'
  OBVIOUS
<1> USE ConstantsAssumption DEF ConstantsAssumption, shared, locals, calls, TypeOK
<1>1. ASSUME NEW a \in Actors, NEW timeout \in Timeouts, BeginSchedule(a, timeout)
      PROVE  HandlesLive'
  BY <1>1 DEF HandlesLive, BeginSchedule
<1>2. ASSUME NEW a \in Actors, NEW id \in Ids, Push(a, id) PROVE HandlesLive'
  <2>1. peeked' = peeked /\ cb' = [cb EXCEPT ![id] = "set"] /\ handles' = handles \cup {id}
    BY <1>2 DEF Push
  <2> QED
    BY <2>1 DEF HandlesLive
<1>3. ASSUME NEW a \in Actors, SetEvent(a) PROVE HandlesLive'
  BY <1>3 DEF HandlesLive, SetEvent
<1>4. ASSUME NEW a \in Actors, NEW id \in Ids, CancelHandle(a, id) PROVE HandlesLive'
  BY <1>4 DEF HandlesLive, CancelHandle
<1>5. ASSUME NEW a \in Actors, ClearHandles(a) PROVE HandlesLive'
  BY <1>5 DEF HandlesLive, ClearHandles
<1>6. ASSUME NEW t \in Threads, Task(t) PROVE HandlesLive'
  <2>1. CASE Peek(t)
    BY <2>1 DEF HandlesLive, Peek, First
  <2>2. CASE Die(t) \/ WakeUp(t) \/ ClearEvent(t) \/ CallbackEnds(t) \/ CallbackKills(t) \/ Finally(t)
    BY <2>2 DEF HandlesLive, Die, WakeUp, ClearEvent, CallbackEnds, CallbackKills, Finally
  <2>3. CASE BeginWait(t)
    BY <2>3 DEF HandlesLive, BeginWait
  <2>4. CASE Poll(t)
    BY <2>4 DEF HandlesLive, Poll
  <2> QED
    BY <1>6, <2>1, <2>2, <2>3, <2>4 DEF Task
<1>7. CASE Tick \/ UNCHANGED vars
  BY <1>7 DEF HandlesLive, Tick, vars
<1> QED
  BY <1>1, <1>2, <1>3, <1>4, <1>5, <1>6, <1>7 DEF Next, CallStep

\* One thread: schedule() starts one only if that of the class is dead or gone.
LEMMA SoleStep == TypeOK /\ Sole /\ [Next]_vars => Sole'
<1> SUFFICES ASSUME TypeOK, Sole, [Next]_vars PROVE Sole'
  OBVIOUS
<1> USE ConstantsAssumption DEF ConstantsAssumption, shared, locals, calls, TypeOK, Running
<1>1. ASSUME NEW a \in Actors, NEW timeout \in Timeouts, BeginSchedule(a, timeout) PROVE Sole'
  BY <1>1 DEF Sole, BeginSchedule
<1>2. ASSUME NEW a \in Actors, NEW id \in Ids, Push(a, id) PROVE Sole'
  <2>1. CASE Alive
    BY <1>2, <2>1 DEF Sole, Push
  <2>2. CASE ~Alive
    <3>1. PICK t \in Threads : thread' = t /\ pc' = [pc EXCEPT ![t] = "peek"]
      BY <1>2, <2>2 DEF Push
    <3>2. \A u \in Threads : pc[u] \notin Running
      BY <2>2 DEF Alive, Sole
    <3> QED
      BY <3>1, <3>2 DEF Sole
  <2> QED
    BY <2>1, <2>2
<1>3. ASSUME NEW a \in Actors, SetEvent(a) PROVE Sole'
  BY <1>3 DEF Sole, SetEvent
<1>4. ASSUME NEW a \in Actors, NEW id \in Ids, CancelHandle(a, id) PROVE Sole'
  BY <1>4 DEF Sole, CancelHandle
<1>5. ASSUME NEW a \in Actors, ClearHandles(a) PROVE Sole'
  BY <1>5 DEF Sole, ClearHandles
<1>6. ASSUME NEW t \in Threads, Task(t) PROVE Sole'
  <2>1. CASE Peek(t)
    BY <2>1 DEF Sole, Peek
  <2>2. CASE Die(t)
    BY <2>2 DEF Sole, Die
  <2>3. CASE BeginWait(t) \/ WakeUp(t) \/ ClearEvent(t)
    BY <2>3 DEF Sole, BeginWait, WakeUp, ClearEvent
  <2>4. CASE Poll(t) \/ CallbackEnds(t) \/ CallbackKills(t)
    BY <2>4 DEF Sole, Poll, CallbackEnds, CallbackKills
  <2>5. CASE Finally(t)
    BY <2>5 DEF Sole, Finally
  <2> QED
    BY <1>6, <2>1, <2>2, <2>3, <2>4, <2>5 DEF Task
<1>7. CASE Tick \/ UNCHANGED vars
  BY <1>7 DEF Sole, Tick, vars
<1> QED
  BY <1>1, <1>2, <1>3, <1>4, <1>5, <1>6, <1>7 DEF Next, CallStep

\* There is a thread if there is anything to do.
LEMMA StaffedStep == TypeOK /\ Sole /\ Staffed /\ [Next]_vars => Staffed'
<1> SUFFICES ASSUME TypeOK, Sole, Staffed, [Next]_vars PROVE Staffed'
  OBVIOUS
<1> USE ConstantsAssumption DEF ConstantsAssumption, shared, locals, calls, TypeOK, Running
<1>1. ASSUME NEW a \in Actors, NEW timeout \in Timeouts, BeginSchedule(a, timeout)
      PROVE  Staffed'
  BY <1>1 DEF Staffed, BeginSchedule
<1>2. ASSUME NEW a \in Actors, NEW id \in Ids, Push(a, id) PROVE Staffed'
  <2>1. CASE Alive
    BY <1>2, <2>1 DEF Staffed, Push, Alive
  <2>2. CASE ~Alive
    <3>1. PICK t \in Threads : thread' = t /\ pc' = [pc EXCEPT ![t] = "peek"]
      BY <1>2, <2>2 DEF Push
    <3> QED
      BY <3>1 DEF Staffed
  <2> QED
    BY <2>1, <2>2
<1>3. ASSUME NEW a \in Actors, SetEvent(a) PROVE Staffed'
  BY <1>3 DEF Staffed, SetEvent
<1>4. ASSUME NEW a \in Actors, NEW id \in Ids, CancelHandle(a, id) PROVE Staffed'
  BY <1>4 DEF Staffed, CancelHandle
<1>5. ASSUME NEW a \in Actors, ClearHandles(a) PROVE Staffed'
  BY <1>5 DEF Staffed, ClearHandles
<1>6. ASSUME NEW t \in Threads, Task(t) PROVE Staffed'
  <2>1. CASE Peek(t)
    BY <2>1 DEF Staffed, Peek
  <2>2. CASE Die(t)
    BY <2>2 DEF Staffed, Die
  <2>3. CASE BeginWait(t) \/ WakeUp(t) \/ ClearEvent(t)
    BY <2>3 DEF Staffed, BeginWait, WakeUp, ClearEvent
  <2>4. CASE Poll(t) \/ CallbackEnds(t)
    BY <2>4 DEF Staffed, Poll, CallbackEnds
  <2>5. CASE CallbackKills(t)
    BY <2>5 DEF Staffed, CallbackKills
  <2>6. CASE Finally(t)
    BY <2>6 DEF Staffed, Finally
  <2> QED
    BY <1>6, <2>1, <2>2, <2>3, <2>4, <2>5, <2>6 DEF Task
<1>7. CASE Tick \/ UNCHANGED vars
  BY <1>7 DEF Staffed, Tick, vars
<1> QED
  BY <1>1, <1>2, <1>3, <1>4, <1>5, <1>6, <1>7 DEF Next, CallStep

\* schedule() calls the thread if its handle gets in front; a handle that does not is
\* behind one that the thread has seen or has been called for.
LEMMA PushHeard ==
  ASSUME TypeOK, HandlesLive, HeardBefore, HeardAsleep,
         NEW a \in Actors, NEW id \in Ids, Push(a, id), Alive
  PROVE  HeardBefore' /\ HeardAsleep'
<1> USE ConstantsAssumption DEF ConstantsAssumption, locals, TypeOK
<1>1. /\ UNCHANGED <<event, pc, peeked, wakeAt>>
      /\ handles' = handles \cup {id} /\ id \notin handles
      /\ when' = [when EXCEPT ![id] = at[a]]
      /\ call[a] = "push" /\ cb[id] = "unused"
      /\ call' = [call EXCEPT ![a] = IF InFront(a) THEN "set" ELSE "idle"]
  BY DEF Push, HandlesLive
<1>2. Called => Called'
  BY <1>1 DEF Called
<1>3. InFront(a) => Called'
  BY <1>1 DEF Called
<1>4. \A h \in handles : when'[h] = when[h]
  BY <1>1
<1>5. ~InFront(a) => \E h \in handles : when[h] <= when'[id]
  BY <1>1 DEF InFront
<1>6. HeardBefore'
  <2> SUFFICES ASSUME NEW t \in Threads, pc[t] = "wait", ~InFront(a),
                      \E h \in handles' : peeked[t] = NoHandle \/ when'[h] < when'[peeked[t]]
               PROVE  Called
    BY <1>1, <1>2, <1>3 DEF HeardBefore
  <2>1. peeked[t] # NoHandle => when'[peeked[t]] = when[peeked[t]] /\ when[peeked[t]] \in Nat
    BY <1>1 DEF HandlesLive
  <2>2. \E h \in handles : peeked[t] = NoHandle \/ when[h] < when[peeked[t]]
    <3>1. PICK h \in handles' : peeked[t] = NoHandle \/ when'[h] < when'[peeked[t]]
      OBVIOUS
    <3>2. CASE h = id
      <4>1. PICK g \in handles : when[g] <= when'[id]
        BY <1>5
      <4>2. when[g] \in Nat /\ when'[id] \in Nat
        BY <1>1
      <4> QED
        BY <2>1, <3>1, <3>2, <4>1, <4>2
    <3>3. CASE h # id
      BY <1>1, <1>4, <2>1, <3>1, <3>3
    <3> QED
      BY <3>2, <3>3
  <2> QED
    BY <2>2 DEF HeardBefore
<1>7. HeardAsleep'
  <2> SUFFICES ASSUME NEW t \in Threads, pc[t] = "sleep", ~InFront(a),
                      NEW h \in handles', when'[h] < wakeAt[t]
               PROVE  Called
    BY <1>1, <1>2, <1>3 DEF HeardAsleep
  <2>1. \E g \in handles : when[g] < wakeAt[t]
    <3>1. CASE h = id
      <4>1. PICK g \in handles : when[g] <= when'[id]
        BY <1>5
      <4>2. when[g] \in Nat /\ when'[id] \in Nat /\ wakeAt[t] \in Nat
        BY <1>1
      <4> QED
        BY <3>1, <4>1, <4>2
    <3>2. CASE h # id
      BY <1>1, <1>4, <3>2
    <3> QED
      BY <3>1, <3>2
  <2> QED
    BY <2>1 DEF HeardAsleep
<1> QED
  BY <1>6, <1>7

\* No handle gets in front unheard.
LEMMA HeardStep ==
  TypeOK /\ HandlesLive /\ Sole /\ HeardBefore /\ HeardAsleep /\ [Next]_vars
  => HeardBefore' /\ HeardAsleep'
<1> SUFFICES ASSUME TypeOK, HandlesLive, Sole, HeardBefore, HeardAsleep, [Next]_vars
             PROVE  HeardBefore' /\ HeardAsleep'
  OBVIOUS
<1> USE ConstantsAssumption DEF ConstantsAssumption, shared, locals, calls, TypeOK
<1>1. ASSUME NEW a \in Actors, NEW timeout \in Timeouts, BeginSchedule(a, timeout)
      PROVE  HeardBefore' /\ HeardAsleep'
  <2>1. Called => Called'
    BY <1>1 DEF BeginSchedule, Called, Free
  <2> QED
    BY <1>1, <2>1 DEF BeginSchedule, HeardBefore, HeardAsleep
<1>2. ASSUME NEW a \in Actors, NEW id \in Ids, Push(a, id)
      PROVE  HeardBefore' /\ HeardAsleep'
  <2>1. CASE ~Alive
    <3>1. \A u \in Threads : pc[u] \notin {"wait", "sleep"}
      BY <2>1 DEF Alive, Sole, Running
    <3>2. \A u \in Threads : pc'[u] \notin {"wait", "sleep"}
      BY <1>2, <2>1, <3>1 DEF Push
    <3> QED
      BY <3>2 DEF HeardBefore, HeardAsleep
  <2> QED
    BY <1>2, <2>1, PushHeard
<1>3. ASSUME NEW a \in Actors, SetEvent(a) PROVE HeardBefore' /\ HeardAsleep'
  BY <1>3 DEF SetEvent, HeardBefore, HeardAsleep, Called
<1>4. ASSUME NEW a \in Actors, NEW id \in Ids, CancelHandle(a, id)
      PROVE  HeardBefore' /\ HeardAsleep'
  <2>1. Called => Called'
    BY <1>4 DEF CancelHandle, Called
  <2> QED
    BY <1>4, <2>1 DEF CancelHandle, HeardBefore, HeardAsleep
<1>5. ASSUME NEW a \in Actors, ClearHandles(a) PROVE HeardBefore' /\ HeardAsleep'
  BY <1>5 DEF ClearHandles, HeardBefore, HeardAsleep
<1>6. ASSUME NEW t \in Threads, Task(t) PROVE HeardBefore' /\ HeardAsleep'
  <2>1. CASE Peek(t)
    <3>1. Called' <=> Called
      BY <2>1 DEF Peek, Called
    <3>2. HeardAsleep'
      BY <2>1, <3>1 DEF Peek, HeardAsleep
    <3>3. pc'[t] = "wait" =>
            ~\E h \in handles : peeked'[t] = NoHandle \/ when[h] < when[peeked'[t]]
      <4>1. CASE handles = {}
        BY <4>1
      <4>2. CASE handles # {}
        <5>1. PICK id \in Ids : First(id) /\ peeked' = [peeked EXCEPT ![t] = id]
          BY <2>1, <4>2 DEF Peek
        <5>2. peeked'[t] = id /\ id # NoHandle /\ \A h \in handles : when[id] <= when[h]
          BY <5>1 DEF First
        <5>3. \A h \in handles : when[h] \in Nat /\ when[id] \in Nat
          OBVIOUS
        <5> QED
          BY <5>2, <5>3
      <4> QED
        BY <4>1, <4>2
    <3>4. /\ handles' = handles /\ when' = when
          /\ \A u \in Threads \ {t} : pc'[u] = pc[u] /\ peeked'[u] = peeked[u]
      BY <2>1 DEF Peek
    <3>5. HeardBefore'
      BY <3>1, <3>3, <3>4 DEF HeardBefore
    <3> QED
      BY <3>2, <3>5
  <2>2. CASE Die(t)
    <3>1. Called' <=> Called
      BY <2>2 DEF Die, Called
    <3> QED
      BY <2>2, <3>1 DEF Die, HeardBefore, HeardAsleep
  <2>3. CASE BeginWait(t)
    BY <2>3 DEF BeginWait, HeardBefore, HeardAsleep, Called
  <2>4. CASE WakeUp(t)
    BY <2>4 DEF WakeUp, HeardBefore, HeardAsleep, Called
  <2>5. CASE ClearEvent(t)
    <3>1. \A u \in Threads : pc'[u] \notin {"wait", "sleep"}
      BY <2>5 DEF ClearEvent, Sole, Running
    <3> QED
      BY <3>1 DEF HeardBefore, HeardAsleep
  <2>6. CASE Poll(t)
    BY <2>6 DEF Poll, HeardBefore, HeardAsleep, Called
  <2>7. CASE CallbackEnds(t) \/ CallbackKills(t) \/ Finally(t)
    BY <2>7 DEF CallbackEnds, CallbackKills, Finally, HeardBefore, HeardAsleep, Called
  <2> QED
    BY <1>6, <2>1, <2>2, <2>3, <2>4, <2>5, <2>6, <2>7 DEF Task
<1>7. CASE Tick \/ UNCHANGED vars
  BY <1>7 DEF HeardBefore, HeardAsleep, Called, Tick, vars
<1> QED
  BY <1>1, <1>2, <1>3, <1>4, <1>5, <1>6, <1>7 DEF Next, CallStep

\* The invariant of the scheduler.
THEOREM SchedulerInvariant == Spec => []SchedulerInv
<1>1. Init => SchedulerInv
  <2> SUFFICES ASSUME Init PROVE SchedulerInv
    OBVIOUS
  <2>1. TypeOK
    <3>1. MaxClock \in Nat /\ MaxClears \in Nat /\ MaxKills \in Nat
      BY ConstantsAssumption DEF ConstantsAssumption
    <3>2. clock \in 0..MaxClock /\ clears \in 0..MaxClears /\ kills \in 0..MaxKills
      BY <3>1 DEF Init
    <3>3. /\ handles \subseteq Ids /\ thread \in Threads \cup {NoThread} /\ event \in BOOLEAN
          /\ cb \in [Ids -> {"unused", "set", "none", "done"}] /\ when \in [Ids -> Nat]
      BY DEF Init
    <3> QED
      BY <3>2, <3>3 DEF Init, TypeOK
  <2>2. HandlesLive /\ Sole /\ Staffed
    BY DEF Init, HandlesLive, Sole, Staffed, Running
  <2>3. HeardBefore /\ HeardAsleep
    BY DEF Init, HeardBefore, HeardAsleep
  <2> QED
    BY <2>1, <2>2, <2>3 DEF SchedulerInv
<1>2. SchedulerInv /\ [Next]_vars => SchedulerInv'
  BY TypeStep, HandlesLiveStep, SoleStep, StaffedStep, HeardStep DEF SchedulerInv
<1> QED
  BY <1>1, <1>2, PTL DEF Spec

\* Every variable keeps its type.
THEOREM SchedulerTyped == Spec => []TypeOK
BY SchedulerInvariant, PTL DEF SchedulerInv

\* At any time at most one thread runs callbacks: schedule() starts one only if
\* that of the class is dead or gone, and one that ends takes back no reference
\* but its own.
THEOREM CallbacksAlone == Spec => []OneThread
<1>1. SchedulerInv => OneThread
  BY DEF SchedulerInv, Sole, OneThread
<1> QED
  BY <1>1, SchedulerInvariant, PTL

\* A pending timeout has a thread that will look at it, as long as no callback has
\* ended one.
THEOREM TimeoutsAttended == Spec => []NeverStranded
<1>1. SchedulerInv => NeverStranded
  BY DEF SchedulerInv, Staffed, NeverStranded
<1> QED
  BY <1>1, SchedulerInvariant, PTL

\* A thread does not sleep beyond the time of a pending timeout without being called.
THEOREM WakeUpsKept == Spec => []NoLostWakeup
<1>1. SchedulerInv => NoLostWakeup
  BY DEF SchedulerInv, HeardAsleep, Called, NoLostWakeup
<1> QED
  BY <1>1, SchedulerInvariant, PTL

-----------------------------------------------------------------------------
(* The timer service                                                       *)

\* What leaves the clock and the handles alone is not seen.
LEMMA Unseen ==
  ASSUME UNCHANGED <<clock, handles, cb, when>>
  PROVE  UNCHANGED Service!timers
<1>1. UNCHANGED [id \in Ids |-> StatusOf(id)]
  BY DEF StatusOf
<1> QED
  BY <1>1 DEF Service!timers

\* A push sets a timer.
LEMMA PushSets ==
  ASSUME TypeOK, HandlesLive, NEW a \in Actors, NEW id \in Ids, Push(a, id)
  PROVE  Service!Set(id)
<1>1. /\ cb[id] = "unused" /\ id \notin handles
      /\ cb' = [cb EXCEPT ![id] = "set"] /\ handles' = handles \cup {id}
      /\ when' = [when EXCEPT ![id] = at[a]] /\ clock' = clock
      /\ cb \in [Ids -> {"unused", "set", "none", "done"}]
      /\ when \in [Ids -> Nat] /\ at[a] \in Nat
  BY DEF Push, HandlesLive, TypeOK
<1>2. [i \in Ids |-> StatusOf(i)]' =
        [[i \in Ids |-> StatusOf(i)] EXCEPT ![id] = "pending"]
  <2>1. \A i \in Ids : StatusOf(i)' = IF i = id THEN "pending" ELSE StatusOf(i)
    BY <1>1 DEF StatusOf
  <2> QED
    BY <2>1
<1>3. StatusOf(id) = "free"
  BY <1>1 DEF StatusOf
<1>4. when' = [when EXCEPT ![id] = when'[id]] /\ when'[id] \in Nat
  BY <1>1
<1> QED
  BY <1>1, <1>2, <1>3, <1>4 DEF Service!Set

\* A handle that is taken from the heap goes off.
LEMMA PollGoesOff ==
  ASSUME TypeOK, HandlesLive, NEW id \in Ids, First(id), when[id] <= clock,
         handles' = handles \ {id}, cb' = [cb EXCEPT ![id] = "done"],
         UNCHANGED <<clock, when>>
  PROVE  Service!GoOff(id)
<1>1. id \in handles /\ \A other \in handles : when[id] <= when[other]
  BY DEF First
<1>2. cb \in [Ids -> {"unused", "set", "none", "done"}]
  BY DEF TypeOK
<1>3. \A i \in Ids : StatusOf(i) = "pending" <=> i \in handles
  BY DEF StatusOf, HandlesLive
<1>4. \A i \in Ids : StatusOf(i)' = IF i = id THEN "fired" ELSE StatusOf(i)
  BY <1>1, <1>2 DEF StatusOf
<1>5. [i \in Ids |-> StatusOf(i)]' =
        [[i \in Ids |-> StatusOf(i)] EXCEPT ![id] = "fired"]
  BY <1>4
<1> QED
  BY <1>1, <1>3, <1>5 DEF Service!GoOff, Service!Pending

\* Handles that leave the heap without being run are cancelled.
LEMMA RemovedCancelled ==
  ASSUME TypeOK, HandlesLive, NEW S \in SUBSET handles, handles' = handles \ S,
         \A id \in Ids : /\ cb'[id] = "unused" <=> cb[id] = "unused"
                         /\ cb'[id] = "done" <=> cb[id] = "done",
         UNCHANGED <<clock, when>>
  PROVE  Service!Cancel(S)
<1>1. \A i \in Ids : StatusOf(i) = "pending" <=> i \in handles
  BY DEF StatusOf, HandlesLive
<1>2. \A i \in Ids : StatusOf(i)' = IF i \in S THEN "cancelled" ELSE StatusOf(i)
  BY DEF StatusOf, HandlesLive
<1>3. S \subseteq Ids
  BY DEF TypeOK
<1>4. [i \in Ids |-> StatusOf(i)]' =
        [i \in Ids |-> IF i \in S THEN "cancelled" ELSE [j \in Ids |-> StatusOf(j)][i]]
  BY <1>2
<1> QED
  BY <1>1, <1>3, <1>4 DEF Service!Cancel, Service!Pending

\* Every step of the scheduler is one of the timer service, or not seen.
LEMMA StepServes == SchedulerInv /\ [Next]_vars => [Service!Next]_(Service!timers)
<1> SUFFICES ASSUME TypeOK, HandlesLive, [Next]_vars
             PROVE  Service!Next \/ UNCHANGED Service!timers
  BY DEF SchedulerInv
<1> DEFINE Served == Service!Next \/ UNCHANGED Service!timers
<1>1. ASSUME NEW a \in Actors, NEW timeout \in Timeouts, BeginSchedule(a, timeout) PROVE Served
  BY <1>1, Unseen DEF BeginSchedule, shared
<1>2. ASSUME NEW a \in Actors, NEW id \in Ids, Push(a, id) PROVE Served
  BY <1>2, PushSets DEF Service!Next
<1>3. ASSUME NEW a \in Actors, SetEvent(a) PROVE Served
  BY <1>3, Unseen DEF SetEvent
<1>4. ASSUME NEW a \in Actors, NEW id \in Ids, CancelHandle(a, id) PROVE Served
  <2>1. /\ cb[id] = "set" /\ cb' = [cb EXCEPT ![id] = "none"] /\ handles' = handles \ {id}
        /\ UNCHANGED <<clock, when>> /\ cb \in [Ids -> {"unused", "set", "none", "done"}]
    BY <1>4 DEF CancelHandle, TypeOK
  <2>2. \A i \in Ids : /\ cb'[i] = "unused" <=> cb[i] = "unused"
                       /\ cb'[i] = "done" <=> cb[i] = "done"
    BY <2>1
  <2>3. CASE id \in handles
    BY <2>1, <2>2, <2>3, RemovedCancelled DEF Service!Next
  <2>4. CASE id \notin handles
    <3>1. \A i \in Ids : StatusOf(i)' = StatusOf(i)
      BY <2>1, <2>2, <2>4 DEF StatusOf
    <3> QED
      BY <2>1, <3>1 DEF Service!timers
  <2> QED
    BY <2>3, <2>4
<1>5. ASSUME NEW a \in Actors, ClearHandles(a) PROVE Served
  <2>1. Service!Cancel(handles)
    BY <1>5, RemovedCancelled DEF ClearHandles
  <2>2. Service!Pending = handles
    BY DEF Service!Pending, StatusOf, HandlesLive, TypeOK
  <2> QED
    BY <2>1, <2>2 DEF Service!Next
<1>6. ASSUME NEW t \in Threads, Task(t) PROVE Served
  <2>1. CASE Poll(t)
    <3>1. CASE \E id \in Ids : /\ First(id) /\ when[id] <= clock
                               /\ handles' = handles \ {id} /\ cb' = [cb EXCEPT ![id] = "done"]
      BY <2>1, <3>1, PollGoesOff DEF Poll, Service!Next
    <3>2. CASE UNCHANGED <<handles, cb>>
      BY <2>1, <3>2, Unseen DEF Poll
    <3> QED
      BY <2>1, <3>1, <3>2 DEF Poll
  <2>2. CASE \/ Peek(t) \/ Die(t) \/ BeginWait(t) \/ WakeUp(t) \/ ClearEvent(t)
             \/ CallbackEnds(t) \/ CallbackKills(t) \/ Finally(t)
    <3>1. UNCHANGED <<clock, handles, cb, when>>
      BY <2>2 DEF Peek, Die, BeginWait, WakeUp, ClearEvent, CallbackEnds, CallbackKills, Finally,
         shared
    <3> QED
      BY <3>1, Unseen
  <2> QED
    BY <1>6, <2>1, <2>2 DEF Task
<1>7. CASE Tick
  <2>1. UNCHANGED [i \in Ids |-> StatusOf(i)]
    BY <1>7 DEF Tick, shared, StatusOf
  <2> QED
    BY <1>7, <2>1 DEF Tick, shared, Service!Next, Service!Tick
<1>8. CASE UNCHANGED vars
  BY <1>8, Unseen DEF vars, shared
<1> QED
  BY <1>1, <1>2, <1>3, <1>4, <1>5, <1>6, <1>7, <1>8 DEF Next, CallStep

\* The scheduler is a timer service: a timeout goes off once, not before its time,
\* not before one that is due earlier, and not after it has been cancelled.
THEOREM ServesTimers == Spec => ImplementsTimers
<1>1. Init => Service!Init
  BY DEF Init, Service!Init, StatusOf
<1> QED
  BY <1>1, StepServes, SchedulerInvariant, PTL DEF Spec, ImplementsTimers, Service!Spec

=============================================================================
