----------------------------- MODULE Automaton ------------------------------
(***************************************************************************)
(* scapy/automaton.py, class Automaton: a thread of control runs a state    *)
(* machine and takes commands from the threads that use it through cmdin,  *)
(* and answers through cmdout.  `started' is a lock that the thread holds   *)
(* for as long as it lives.                                                *)
(*                                                                         *)
(* What a subclass decorates is the record cls: for each state, the states *)
(* that its conditions, its receive conditions and I/O events (here one     *)
(* source of input), its timeout and its eof transition may raise; None     *)
(* among them if the transition may be declined.  The function of a state  *)
(* computes nothing but may send one packet; it and the transitions of the  *)
(* state may raise the exceptions that cls.raises gives.                    *)
(***************************************************************************)
EXTENDS Naturals, Sequences

CONSTANTS
  Users,      \* the threads that hold the object
  Classes,    \* the automata
  None,
  MaxPackets, \* bound: packets that arrive
  MaxCalls,   \* bound: calls that put a command in cmdin
  MaxStarts   \* bound: calls of start(), the one of __init__ included

Commands == {"RUN", "NEXT", "FREEZE", "STOP", "FORCESTOP", "ACCEPT", "REJECT"}
Answers == {"END", "EXCEPTION", "SINGLESTEP", "BREAKPOINT", "INTERCEPT"}
Exceptions == {"error", "runtime"}  \* of user code: "runtime" is a RuntimeError

ClassAssumption ==
  \A c \in Classes :
    LET S == DOMAIN c.cond
    IN  /\ None \notin S /\ c.initial \in S /\ c.stop \in S \cup {None}
        /\ \A f \in {c.cond, c.recv, c.timeout} :
             DOMAIN f = S /\ \A s \in S : f[s] \subseteq S \cup {None}
        /\ DOMAIN c.eof = S /\ \A s \in S : c.eof[s] \in S \cup {None}
        /\ c.raises \in [S -> SUBSET Exceptions]
        /\ \A X \in {c.final, c.error, c.periodic, c.breakpoints, c.intercepted} :
             X \subseteq S

ASSUME ConstantsAssumption ==
  /\ ClassAssumption /\ Users \cap {"free", "control"} = {}
  /\ {MaxPackets, MaxCalls, MaxStarts} \subseteq Nat

VARIABLES
  cls,
  \* attributes of the object
  started,    \* the lock: "free", "control" or the user that holds it
  cmdin,
  cmdout,     \* messages, each with the thread that sent it
  state, breakpointed,
  output,     \* final_state_output has a value
  timer,      \* the timer of the state: "idle", "armed" or "expired"
  sock,       \* listen_sock: "none", "open", "ended" by the peer, or "gone"
  packets,    \* packets that wait in it
  \* the thread of control
  ctl,        \* where it is
  singlestep,
  iterator,   \* where the generator goes on when next() is called
  ready,      \* what select returned and is still to be looked at
  \* the users
  upc,
  got,        \* the last message run() received
  \* counters and history
  arrived, calls, starts,
  thread,     \* how many threads of control there have been
  flushed,    \* stop() cleared the pipes before the present thread, or since the last
  told,       \* the state for which this thread has announced a breakpoint
  skipped,    \* the conditions were not run in this visit of the state
  crashed,    \* a thread has died without a message since run() was called
  misread,    \* a STOP was taken for the verdict on a packet
  orderly     \* runs were called one at a time, of a thread that lived, and the
              \* thread was not killed nor its answers cleared away

vars == <<cls, started, cmdin, cmdout, state, breakpointed, timer, sock, packets, ctl,
          singlestep, iterator, ready, upc, got, arrived, calls, starts, thread,
          flushed, told, output, skipped, crashed, misread, orderly>>

gen == <<state, breakpointed, timer, singlestep, iterator, ready, told>>
users == <<upc, got, calls, starts, flushed, orderly>>
net == <<sock, packets, arrived>>
past == <<output, skipped, crashed, misread>>

States == DOMAIN cls.cond
Nothing == <<None, 0>>

TypeOK ==
  /\ cls \in Classes
  /\ started \in {"free", "control"} \cup Users
  /\ cmdin \in Seq(Commands) /\ cmdout \in Seq(Answers \X (1..thread))
  /\ state \in States /\ {breakpointed, told} \subseteq States \cup {None}
  /\ timer \in {"idle", "armed", "expired"}
  /\ sock \in {"none", "open", "ended", "gone"}
  /\ arrived \in Nat /\ packets \in 0..arrived
  /\ ctl \in {"off", "cmd", "enter", "run", "verdict", "ran", "conds", "loop", "due",
              "select", "block", "look", "closing"}
  /\ iterator \in {"enter", "run", "look"} /\ ready \subseteq {"cmd", "sock"}
  /\ upc \in [Users -> {"idle", "waiting", "stopping", "forcing", "clearing", "reading",
                       "ready"}]
  /\ got \in [Users -> (Answers \X (1..thread)) \cup {Nothing}]
  /\ calls \in Nat /\ starts \in Nat /\ thread \in Nat \ {0}
  /\ {singlestep, flushed, output, skipped, crashed, misread, orderly} \subseteq BOOLEAN
  /\ (started = "control") <=> (ctl # "off")

\* __init__ ends with a start() of its own: nobody has the object before the
\* first thread runs.
Init ==
  /\ cls \in Classes
  /\ started = "control" /\ cmdin = <<>> /\ cmdout = <<>>
  /\ state = cls.initial /\ breakpointed = None /\ timer = "idle"
  /\ sock = "open" /\ packets = 0
  /\ ctl = "cmd" /\ singlestep = TRUE /\ iterator = "enter" /\ ready = {}
  /\ upc = [u \in Users |-> "idle"]
  /\ got = [u \in Users |-> Nothing]
  /\ arrived = 0 /\ calls = 0 /\ starts = 1 /\ thread = 1
  /\ flushed = TRUE /\ told = None /\ orderly = TRUE
  /\ output = FALSE /\ skipped = FALSE /\ crashed = FALSE /\ misread = FALSE

-----------------------------------------------------------------------------
(* The users                                                               *)

Become(u, p) == upc' = [upc EXCEPT ![u] = p]

Ask(c) ==
  /\ calls < MaxCalls
  /\ calls' = calls + 1
  /\ cmdin' = Append(cmdin, c)

\* The thread is gone, or nothing but its last message is to come from it.
Over == \/ ctl \in {"off", "closing"}
        \/ \E i \in DOMAIN cmdout : cmdout[i][1] \in {"END", "EXCEPTION"}

\* run(), runbg(), next(), accept_packet() and reject_packet(): the last two
\* are called by a user who was shown a packet.
RunCall(u, c, wait) ==
  /\ upc[u] = "idle"
  /\ c \in {"RUN", "NEXT", "ACCEPT", "REJECT"}
  /\ c = "NEXT" => wait
  /\ c \in {"ACCEPT", "REJECT"} => got[u][1] = "INTERCEPT"
  /\ Ask(c)
  /\ Become(u, IF wait THEN "waiting" ELSE "idle")
  /\ got' = [got EXCEPT ![u] = Nothing]
  /\ crashed' = FALSE
  /\ orderly' = (orderly /\ ~Over /\ \A v \in Users : upc[v] # "waiting")
  /\ UNCHANGED <<cls, started, cmdout, gen, output, skipped, misread, ctl, net, starts, thread,
                 flushed>>

\* run() waits for a message and returns, or raises what it says.
RunReturn(u) ==
  /\ upc[u] = "waiting" /\ cmdout # <<>>
  /\ got' = [got EXCEPT ![u] = Head(cmdout)]
  /\ cmdout' = Tail(cmdout)
  /\ Become(u, "idle")
  /\ UNCHANGED <<cls, started, cmdin, gen, past, ctl, net, calls, starts, thread, flushed, orderly>>

\* KeyboardInterrupt in run().
Interrupt(u) ==
  /\ upc[u] = "waiting"
  /\ Ask("FREEZE")
  /\ Become(u, "idle")
  /\ UNCHANGED <<cls, started, cmdout, gen, past, ctl, net, got, starts, thread, flushed, orderly>>

\* stop() and forcestop().
StopCall(u, c, wait) ==
  /\ upc[u] = "idle"
  /\ c \in {"STOP", "FORCESTOP"}
  /\ Ask(c)
  /\ Become(u, IF ~wait THEN "idle" ELSE IF c = "STOP" THEN "stopping" ELSE "forcing")
  /\ orderly' = (orderly /\ c = "STOP" /\ cls.stop # None /\ ~wait)
  /\ UNCHANGED <<cls, started, cmdout, gen, past, ctl, net, got, starts, thread, flushed>>

\* with self.started: _flush_inout().  cmdin is cleared without a rival, but a
\* run() may be reading cmdout, which clear() tests before it reads.
Flush(u) ==
  /\ upc[u] \in {"stopping", "forcing"} /\ started = "free"
  /\ started' = u
  /\ cmdin' = <<>>
  /\ Become(u, "clearing")
  /\ UNCHANGED <<cls, cmdout, gen, past, ctl, net, got, calls, starts, thread, flushed, orderly>>

ClearTest(u) ==
  /\ upc[u] = "clearing" /\ cmdout # <<>>
  /\ Become(u, "reading")
  /\ UNCHANGED <<cls, started, cmdin, cmdout, gen, past, ctl, net, got, calls, starts, thread,
                 flushed, orderly>>

ClearRead(u) ==
  /\ upc[u] = "reading" /\ cmdout # <<>>
  /\ cmdout' = Tail(cmdout)
  /\ Become(u, "clearing")
  /\ UNCHANGED <<cls, started, cmdin, gen, past, ctl, net, got, calls, starts, thread, flushed,
                 orderly>>

\* Mutant: cmdout is not cleared.
ClearedEarly(u) ==
  /\ upc[u] = "clearing"
  /\ started' = "free" /\ flushed' = TRUE
  /\ Become(u, "idle")
  /\ UNCHANGED <<cls, cmdin, cmdout, gen, past, ctl, net, got, calls, starts, thread, orderly>>

Cleared(u) ==
  /\ upc[u] = "clearing" /\ cmdout = <<>>
  /\ started' = "free" /\ flushed' = TRUE
  /\ Become(u, "idle")
  /\ UNCHANGED <<cls, cmdin, cmdout, gen, past, ctl, net, got, calls, starts, thread, orderly>>

\* start() raises ValueError if the lock is taken; else it creates a thread
\* and waits until that is ready.  restart() is stop() and start().
Start(u) ==
  /\ upc[u] = "idle" /\ started = "free"
  /\ starts < MaxStarts
  /\ starts' = starts + 1
  /\ Become(u, "ready")
  /\ UNCHANGED <<cls, started, cmdin, cmdout, gen, past, ctl, net, got, calls, thread, flushed,
                 orderly>>

-----------------------------------------------------------------------------
(* _do_control                                                             *)

\* Mutant: the thread does not take the lock.
BeginUnlocked(u) ==
  /\ upc[u] = "ready" /\ ctl = "off"
  /\ Become(u, "idle")
  /\ thread' = thread + 1
  /\ state' = cls.initial /\ sock' = "open" /\ packets' = 0
  /\ singlestep' = TRUE /\ iterator' = "enter" /\ ctl' = "cmd"
  /\ told' = None /\ skipped' = FALSE /\ misread' = FALSE
  /\ UNCHANGED <<cls, started, cmdin, cmdout, breakpointed, output, timer, ready, got, arrived,
                 calls, starts, flushed, crashed, orderly>>

\* The thread created by u gets the lock.
Begin(u) ==
  /\ upc[u] = "ready" /\ started = "free"
  /\ started' = "control"
  /\ Become(u, "idle")
  /\ thread' = thread + 1
  /\ state' = cls.initial /\ sock' = "open" /\ packets' = 0
  /\ singlestep' = TRUE /\ iterator' = "enter" /\ ctl' = "cmd"
  /\ told' = None /\ skipped' = FALSE /\ misread' = FALSE
  /\ UNCHANGED <<cls, cmdin, cmdout, breakpointed, output, timer, ready, got, arrived, calls,
                 starts, flushed, crashed, orderly>>

Tell(m) == cmdout' = Append(cmdout, <<m, thread>>)

\* self.cmdin.recv(): a command, and next(iterator) where it was left.
Command(c) ==
  /\ ctl = "cmd" /\ cmdin # <<>> /\ c = Head(cmdin)
  /\ cmdin' = Tail(cmdin)
  /\ UNCHANGED <<cls, started, cmdout, breakpointed, timer, ready, told, net, users, past,
                 thread>>

Resume ==
  /\ \E c \in {"RUN", "NEXT", "ACCEPT", "REJECT"} :
       /\ Command(c)
       /\ singlestep' = (c = "NEXT" \/ (c # "RUN" /\ singlestep))
  /\ ctl' = iterator
  /\ UNCHANGED <<state, iterator>>

Freeze == Command("FREEZE") /\ UNCHANGED <<ctl, state, singlestep, iterator>>

MoveToStop ==
  /\ Command("STOP") /\ cls.stop # None
  /\ state' = cls.stop
  /\ iterator' = "enter" /\ ctl' = "enter"
  /\ UNCHANGED singlestep

Kill ==
  /\ \/ Command("STOP") /\ cls.stop = None
     \/ Command("FORCESTOP")
  /\ ctl' = "closing"
  /\ UNCHANGED <<state, singlestep, iterator>>

\* The end of the thread, with a message unless it was killed.
Finish(m) ==
  /\ Tell(m)
  /\ ctl' = "closing"
  /\ UNCHANGED <<cmdin, gen>>

Close ==
  /\ ctl = "closing"
  /\ ctl' = "off" /\ started' = "free" /\ sock' = "none"
  /\ flushed' = FALSE
  /\ UNCHANGED <<cls, cmdin, cmdout, gen, packets, arrived, upc, got, calls, starts, thread, past,
                 orderly>>

-----------------------------------------------------------------------------
(* _do_iter                                                                *)

\* What its steps do not change but in the end.
Outer == UNCHANGED <<cls, started, thread, users>>

\* Mutant: the generator stops at a breakpoint and nobody is told.
EnterSilently ==
  /\ ctl = "enter"
  /\ IF state \in cls.breakpoints /\ state # breakpointed
     THEN /\ breakpointed' = state /\ told' = state
          /\ iterator' = "run" /\ ctl' = "cmd"
     ELSE /\ ctl' = "run"
          /\ UNCHANGED <<breakpointed, told, iterator>>
  /\ UNCHANGED <<cmdin, cmdout, state, timer, singlestep, ready, net, past>> /\ Outer

\* A breakpoint is announced once, before the state's function is run.
Enter ==
  /\ ctl = "enter"
  /\ IF state \in cls.breakpoints /\ state # breakpointed
     THEN /\ breakpointed' = state /\ told' = state
          /\ Tell("BREAKPOINT")
          /\ iterator' = "run" /\ ctl' = "cmd"
     ELSE /\ ctl' = "run"
          /\ UNCHANGED <<breakpointed, told, cmdout, iterator>>
  /\ UNCHANGED <<cmdin, state, timer, singlestep, ready, net, past>> /\ Outer

\* Mutant: breakpointed is not reset.
RunStateBreakpointed ==
  /\ ctl = "run"
  /\ told' = None /\ skipped' = FALSE
  /\ IF state \in cls.intercepted
     THEN Tell("INTERCEPT") /\ ctl' = "verdict"
     ELSE ctl' = "ran" /\ UNCHANGED cmdout
  /\ UNCHANGED <<cmdin, state, breakpointed, timer, singlestep, iterator, ready, net, output,
                 crashed, misread>> /\ Outer

\* self.state.run(), which may call send() with a packet to be intercepted.
RunState ==
  /\ ctl = "run"
  /\ breakpointed' = None /\ told' = None /\ skipped' = FALSE
  /\ IF state \in cls.intercepted
     THEN Tell("INTERCEPT") /\ ctl' = "verdict"
     ELSE ctl' = "ran" /\ UNCHANGED cmdout
  /\ UNCHANGED <<cmdin, state, timer, singlestep, iterator, ready, net, output, crashed,
                 misread>> /\ Outer

\* send() takes the next command for the verdict; any other is an AutomatonError.
Verdict ==
  /\ ctl = "verdict" /\ cmdin # <<>>
  /\ cmdin' = Tail(cmdin)
  /\ IF Head(cmdin) \in {"ACCEPT", "REJECT"}
     THEN ctl' = "ran" /\ UNCHANGED cmdout
     ELSE Tell("EXCEPTION") /\ ctl' = "closing"
  /\ misread' = (misread \/ Head(cmdin) = "STOP")
  /\ UNCHANGED <<gen, net, output, skipped, crashed>> /\ Outer

\* The output of a final state is kept, for this thread and the next.
Ran ==
  /\ ctl = "ran"
  /\ \/ state \in cls.error /\ Finish("EXCEPTION") /\ UNCHANGED output
     \/ state \notin cls.error /\ state \in cls.final /\ Finish("END") /\ output' = TRUE
     \/ /\ state \notin cls.error \cup cls.final
        /\ ctl' = "conds"
        /\ UNCHANGED <<cmdin, cmdout, gen, output>>
  /\ UNCHANGED <<net, skipped, crashed, misread>> /\ Outer

\* NewStateRequested was raised: the caller of next() sees the new state.
NewState(t) ==
  /\ t # None
  /\ state' = t /\ iterator' = "enter"
  /\ IF singlestep THEN Tell("SINGLESTEP") /\ ctl' = "cmd"
                   ELSE ctl' = "enter" /\ UNCHANGED cmdout
  /\ UNCHANGED <<cmdin, breakpointed, singlestep, told>>

Declined(T) == T = {} \/ None \in T

ResetTimer == timer' = IF cls.timeout[state] = {} THEN "idle" ELSE "armed"

\* The conditions are run unless a command waits.
Listen ==
  /\ ctl' = "loop"
  /\ ResetTimer
  /\ UNCHANGED <<cmdin, cmdout, state, breakpointed, singlestep, iterator, ready, told>>

\* Mutant: the conditions are run though a command waits.
CondsAlways ==
  /\ ctl = "conds"
  /\ \/ \E t \in cls.cond[state] : NewState(t) /\ UNCHANGED <<timer, ready>>
     \/ /\ Declined(cls.cond[state])
        /\ cls.recv[state] = {} /\ cls.timeout[state] = {}
        /\ Finish("EXCEPTION")
     \/ /\ Declined(cls.cond[state])
        /\ cls.recv[state] # {} \/ cls.timeout[state] # {}
        /\ Listen
  /\ UNCHANGED <<net, past>> /\ Outer

Conds ==
  /\ ctl = "conds"
  /\ \/ cmdin # <<>> /\ Listen /\ skipped' = TRUE
     \/ /\ cmdin = <<>> /\ UNCHANGED skipped
        /\ \/ \E t \in cls.cond[state] : NewState(t) /\ UNCHANGED <<timer, ready>>
           \/ /\ Declined(cls.cond[state])
              /\ cls.recv[state] = {} /\ cls.timeout[state] = {}
              /\ Finish("EXCEPTION")     \* Stuck
           \/ /\ Declined(cls.cond[state])
              /\ cls.recv[state] # {} \/ cls.timeout[state] # {}
              /\ Listen
  /\ UNCHANGED <<net, output, crashed, misread>> /\ Outer

\* timers.expired() reloads a periodic timer.
Expire == timer' = IF state \in cls.periodic THEN "armed" ELSE "expired"

\* timers.decrement(), timers.expired() and timers.until_next(): the time may
\* be over, and is ("due") if select has waited for it.  Without a timer that
\* runs, select will block.
ToSelect ==
  /\ ctl' = IF timer' = "armed" THEN "select" ELSE "block"
  /\ UNCHANGED <<cmdin, cmdout, state, breakpointed, singlestep, iterator, ready, told>>

Timers ==
  /\ ctl \in {"loop", "due"}
  /\ \/ /\ timer = "armed"
        /\ Expire
        /\ \/ \E t \in cls.timeout[state] : NewState(t) /\ UNCHANGED ready
           \/ None \in cls.timeout[state] /\ ToSelect
     \/ /\ ~(ctl = "due" /\ timer = "armed")
        /\ UNCHANGED timer
        /\ ToSelect
  /\ UNCHANGED <<net, past>> /\ Outer

Readable == /\ cls.recv[state] # {}
            /\ sock = "ended" \/ (sock = "open" /\ packets > 0)

Select ==
  /\ ctl \in {"select", "block"}
  /\ LET r == {f \in {"cmd", "sock"} : \/ f = "cmd" /\ cmdin # <<>>
                                       \/ f = "sock" /\ Readable}
     IN  r # {} /\ ready' = r
  /\ ctl' = "look"
  /\ UNCHANGED <<cmdin, cmdout, state, breakpointed, timer, singlestep, iterator, told, net,
                 past>> /\ Outer

SelectTimeout ==
  /\ ctl = "select" /\ cmdin = <<>> /\ ~Readable
  /\ ctl' = "due" /\ ready' = {}
  /\ UNCHANGED <<cmdin, cmdout, state, breakpointed, timer, singlestep, iterator, told, net,
                 past>> /\ Outer

\* for fd in r: a command first; the generator goes on here afterwards.
LookCommand ==
  /\ ctl = "look" /\ "cmd" \in ready
  /\ ready' = ready \ {"cmd"}
  /\ iterator' = "look" /\ ctl' = "cmd"
  /\ UNCHANGED <<cmdin, cmdout, state, breakpointed, timer, singlestep, told, net, past>>
  /\ Outer

LookPacket ==
  /\ ctl = "look" /\ ready = {"sock"} /\ packets > 0
  /\ packets' = packets - 1
  /\ ready' = {}
  /\ \/ \E t \in cls.recv[state] : NewState(t)
     \/ /\ None \in cls.recv[state]
        /\ ctl' = "loop"
        /\ UNCHANGED <<cmdin, cmdout, state, breakpointed, singlestep, iterator, told>>
  /\ UNCHANGED <<timer, sock, arrived, past>> /\ Outer

\* EOFError: the eof transition of the state, or the end.
LookEof ==
  /\ ctl = "look" /\ ready = {"sock"} /\ packets = 0
  /\ sock' = "gone"
  /\ \/ NewState(cls.eof[state]) /\ UNCHANGED <<timer, ready>>
     \/ /\ cls.eof[state] = None
        /\ Finish("EXCEPTION")
  /\ UNCHANGED <<packets, arrived, past>> /\ Outer

LookNext ==
  /\ ctl = "look" /\ ready = {}
  /\ ctl' = "loop"
  /\ UNCHANGED <<cmdin, cmdout, gen, net, past>> /\ Outer

\* The function of the state, one of its conditions, the one of its timeout or one
\* of its receive conditions raises an exception.  A RuntimeError is taken for
\* the end of the generator, and if no thread of this object has been in a final
\* state final_state_output is missing: the thread dies, and tells nobody.
Raise ==
  /\ \/ ctl = "ran" /\ UNCHANGED <<timer, packets>>
     \/ ctl = "conds" /\ cmdin = <<>> /\ cls.cond[state] # {} /\ UNCHANGED <<timer, packets>>
     \/ ctl \in {"loop", "due"} /\ timer = "armed" /\ Expire /\ UNCHANGED packets
     \/ /\ ctl = "look" /\ ready = {"sock"} /\ packets > 0
        /\ packets' = packets - 1 /\ UNCHANGED timer
  /\ \/ \E m \in {"EXCEPTION", "END"} :
          /\ IF m = "EXCEPTION" THEN "error" \in cls.raises[state]
                                ELSE "runtime" \in cls.raises[state] /\ output
          /\ Tell(m)
          /\ ctl' = "closing" /\ UNCHANGED <<started, flushed, crashed>>
     \/ /\ "runtime" \in cls.raises[state] /\ ~output
        /\ ctl' = "off" /\ started' = "free" /\ flushed' = FALSE /\ crashed' = TRUE
        /\ UNCHANGED cmdout
  /\ UNCHANGED <<cls, cmdin, state, breakpointed, singlestep, iterator, ready, told, sock,
                 arrived, upc, got, calls, starts, thread, output, skipped, misread, orderly>>

-----------------------------------------------------------------------------
(* The network                                                             *)

Arrive ==
  /\ sock = "open" /\ arrived < MaxPackets
  /\ arrived' = arrived + 1 /\ packets' = packets + 1
  /\ UNCHANGED <<cls, started, cmdin, cmdout, gen, ctl, sock, users, past, thread>>

PeerCloses ==
  /\ sock = "open"
  /\ sock' = "ended"
  /\ UNCHANGED <<cls, started, cmdin, cmdout, gen, ctl, packets, arrived, users, past, thread>>

-----------------------------------------------------------------------------
User(u) ==
  \/ \E c \in Commands, wait \in BOOLEAN : RunCall(u, c, wait) \/ StopCall(u, c, wait)
  \/ Interrupt(u) \/ Start(u)

UserGoesOn(u) ==
  RunReturn(u) \/ Flush(u) \/ ClearTest(u) \/ ClearRead(u) \/ Cleared(u) \/ Begin(u)

Control ==
  \/ Resume \/ Freeze \/ MoveToStop \/ Kill \/ Close
  \/ Enter \/ RunState \/ Verdict \/ Ran \/ Conds \/ Timers \/ Select \/ SelectTimeout
  \/ LookCommand \/ LookPacket \/ LookEof \/ LookNext \/ Raise

\* The thread sleeps and nothing but a command can wake it.
Deaf == ctl = "block" /\ ~(cls.recv[state] # {} /\ sock \in {"open", "ended"})

\* A run() and the thread wait for each other: no message is on its way and no
\* command.
MutualWait(u) ==
  /\ upc[u] = "waiting" /\ cmdout = <<>> /\ cmdin = <<>>
  /\ ctl \in {"off", "cmd", "verdict"} \/ Deaf
  /\ \A v \in Users : upc[v] \in {"idle", "waiting"}

Next == (\E u \in Users : User(u) \/ UserGoesOn(u)) \/ Control \/ Arrive \/ PeerCloses

Spec == Init /\ [][Next]_vars

\* Threads that can go on do, and time passes; nobody has to call or to send.
FairSpec == Spec /\ WF_vars(Control) /\ \A u \in Users : WF_vars(UserGoesOn(u))

-----------------------------------------------------------------------------
(* Properties                                                              *)

\* A run() and the thread of control do not wait for one another, if runs are
\* called one at a time, of a thread that has not sent its last message, and
\* it is not killed: each stop of the thread in front of cmdin is announced
\* in cmdout, be it for a step, a breakpoint, an intercepted packet, an
\* exception or the end.  What the code does not prevent is named: a RuntimeError
\* of user code before there was an output; a state whose conditions a command
\* made the generator skip, whose timeout was declined or whose socket is
\* closed, and that has nothing else to wait for.
NoMutualWait ==
  orderly => \A u \in Users : MutualWait(u) =>
    IF Deaf THEN skipped \/ timer = "expired" \/ cls.recv[state] # {} ELSE crashed

\* "First, right after the state's method returns", the conditions of the state
\* are run (doc/scapy/advanced_usage/automaton.rst:243): no run() waits for
\* a thread that sleeps in a state whose conditions were not.
ConditionsRun == orderly => \A u \in Users : MutualWait(u) /\ Deaf => ~skipped

\* After stop() has cleared the pipes and start() was called, as restart()
\* does, no run() returns with what the thread before had to say.
NoStaleAnswer ==
  [][\A u \in Users :
       got'[u] # got[u] /\ got'[u] # Nothing /\ flushed => got'[u][2] = thread]_vars

\* A state with a breakpoint is not run, in the first thread, before run() was
\* told of this visit.
BreakpointHonoured ==
  [][ctl = "run" /\ ctl' # "run" /\ state \in cls.breakpoints /\ thread = 1
       => told = state]_vars

\* Between the test and the read of clear() a run() took the last message: the
\* stop() that clears waits for another, and holds the lock.
Overtaken == \E v \in Users : upc[v] = "reading" /\ cmdout = <<>>

Asked(c) == c \in {cmdin[i] : i \in DOMAIN cmdin}

\* forcestop() ends the thread, whatever the automaton is at - conditions that
\* lead from state to state without end, too.  stop() moves it to the stop state,
\* or ends it if there is none, unless the thread ends before it reads the
\* command, or takes it for the verdict on a packet: that is the exception to
\* "whatever its current state is" (doc/scapy/advanced_usage/automaton.rst:201).
\* And what stop() does with the lock comes to an end unless a run() overtakes it.
StopIsHeard ==
  /\ Asked("FORCESTOP") ~> started # "control"
  /\ Asked("STOP") ~> \/ state = cls.stop
                      \/ started # "control" /\ (cls.stop = None \/ Asked("STOP"))
                      \/ misread
  /\ \A u \in Users : upc[u] = "clearing" ~> upc[u] = "idle" \/ Overtaken

=============================================================================
