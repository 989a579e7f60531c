---------------------------- MODULE AsyncSniffer ----------------------------
(***************************************************************************)
(* scapy/sendrecv.py, class AsyncSniffer: the capture engine behind        *)
(* sniff(), sndrcv() and the live mode of the packet dispatcher.           *)
(*                                                                         *)
(* Two threads share one object without a lock: the sniffing thread, which *)
(* executes _run(), and the user's thread, which calls start() and stop(). *)
(* Every action below is the code between two accesses to an attribute     *)
(* both threads use (running, stop_cb, continue_sniff, the control pipe),  *)
(* so that all their interleavings are explored.                           *)
(*                                                                         *)
(* The environment delivers packets to the sockets, ends their streams and *)
(* lets the time limit pass.  A pass handles the ready sockets in any       *)
(* order and meets the control pipe last, as select() does on POSIX, which *)
(* keeps the order of its argument: the pipe is the last socket added.     *)
(***************************************************************************)
EXTENDS Naturals, Sequences, FiniteSets

CONSTANTS
  Sockets,   \* the sockets there are
  Options,   \* the arguments a sniffer may be constructed with
  MaxPkts,   \* bound: packets the network delivers on one socket in a run
  MaxRuns,   \* bound: calls to start()
  MaxStops   \* bound: calls to stop()

\* sockets: those to sniff on; count: 0 for no limit; blocking: the select() of
\* the sockets blocks (nonblocking_socket is False); own: opened_socket is
\* None, so that _run opens the sockets itself.
ConstructorOptions ==
  [sockets : (SUBSET Sockets) \ {{}}, count : Nat, timeout : BOOLEAN, stopFilter : BOOLEAN,
   blocking : BOOLEAN, own : BOOLEAN]

ASSUME ConstantsAssumption ==
  /\ IsFiniteSet(Sockets)
  /\ Options \subseteq ConstructorOptions
  /\ {MaxPkts, MaxRuns, MaxStops} \subseteq Nat

VARIABLES
  opt,         \* self.args, self.kwargs
  \* attributes of the object
  running,     \* self.running
  contSniff,   \* self.continue_sniff: "unset" until _run first assigns it
  stopCb,      \* self.stop_cb: "noop", or the closure of this or an older run
  exception,   \* self.exception is not None
  results,     \* self.results
  count,       \* self.count
  \* the sniffing thread
  pc,          \* where the thread of the latest start() is
  socks,       \* sniff_sockets without the control pipe
  pipe,        \* close_pipe: is it in sniff_sockets, open, and how many writes
  oldPipeOpen, \* the control pipe of the run before was never closed
  todo,        \* sockets of select()'s answer still to be handled
  dead,        \* dead_sockets
  lst,         \* packets kept so far
  expired,     \* stoptime has passed
  \* the network
  sent, read, eof,
  \* the user
  upc,         \* where the user's thread is in stop()
  wantJoin,    \* argument join of the call
  armed,       \* the call found the sniffer past `self.continue_sniff = True`
  outcome,     \* how the last call of stop() ended
  runs, stops

attrs == <<running, contSniff, stopCb, exception, results, count>>
local == <<pc, socks, pipe, oldPipeOpen, todo, dead, lst, expired>>
env   == <<opt, sent, read, eof>>
user  == <<upc, wantJoin, armed, outcome, runs, stops>>
vars  == <<attrs, local, env, user>>

Packets == Sockets \X (1..MaxPkts)

ThreadAt == {"none", "begin", "setup", "setcb", "arm", "loop", "select",
             "pass", "finish", "close", "results", "done", "crashed"}
Ended    == {"none", "done", "crashed"}
Armed    == {"loop", "select", "pass", "finish", "close", "results", "done"}
Capturing == {"loop", "select", "pass"}
UserAt   == {"idle", "cb", "send", "send old", "clear", "check", "join"}
Outcomes == {"none", "not running", "never started", "raised", "unsupported",
             "pipe closed", "stopped", "requested"}

AttrsTyped ==
  /\ running \in BOOLEAN
  /\ contSniff \in {"unset", "true", "false"}
  /\ stopCb \in {"noop", "current", "stale"}
  /\ exception \in BOOLEAN
  /\ results \in Seq(Packets)
  /\ count \in Nat

ThreadTyped ==
  /\ pc \in ThreadAt
  /\ socks \subseteq Sockets
  /\ pipe \in [watched : BOOLEAN, open : BOOLEAN, written : Nat]
  /\ oldPipeOpen \in BOOLEAN
  /\ todo \subseteq Sockets
  /\ dead \subseteq Sockets
  /\ lst \in Seq(Packets)
  /\ expired \in BOOLEAN

EnvTyped ==
  /\ opt \in Options
  /\ sent \in [Sockets -> 0..MaxPkts]
  /\ read \in [Sockets -> 0..MaxPkts]
  /\ eof \in [Sockets -> BOOLEAN]

UserTyped ==
  /\ upc \in UserAt
  /\ wantJoin \in BOOLEAN
  /\ armed \in BOOLEAN
  /\ outcome \in Outcomes
  /\ runs \in 0..MaxRuns
  /\ stops \in 0..MaxStops

TypeOK == AttrsTyped /\ ThreadTyped /\ EnvTyped /\ UserTyped

NoPipe == [watched |-> FALSE, open |-> FALSE, written |-> 0]

Init ==
  /\ opt \in Options
  /\ running = FALSE /\ contSniff = "unset" /\ stopCb = "noop"
  /\ exception = FALSE /\ results = <<>> /\ count = 0
  /\ pc = "none" /\ socks = {} /\ pipe = NoPipe /\ oldPipeOpen = FALSE
  /\ todo = {} /\ dead = {} /\ lst = <<>> /\ expired = FALSE
  /\ sent = [s \in Sockets |-> 0]
  /\ read = [s \in Sockets |-> 0]
  /\ eof = [s \in Sockets |-> FALSE]
  /\ upc = "idle" /\ wantJoin = FALSE /\ armed = FALSE /\ outcome = "none"
  /\ runs = 0 /\ stops = 0

-----------------------------------------------------------------------------
(* The sniffing thread: _run()                                             *)

\* Mutant: running is not raised.
BeginQuietly ==
  /\ pc = "begin"
  /\ count' = 0 /\ lst' = <<>>
  /\ pc' = "setup"
  /\ UNCHANGED <<running, contSniff, stopCb, exception, results, socks, pipe,
                 oldPipeOpen, todo, dead, expired, env, user>>

\* Mutant: the counter starts one too low.
BeginUncounted ==
  /\ pc = "begin"
  /\ running' = TRUE /\ count' = 0 - 1 /\ lst' = <<>>
  /\ pc' = "setup"
  /\ UNCHANGED <<contSniff, stopCb, exception, results, socks, pipe, oldPipeOpen, todo,
                 dead, expired, env, user>>

\* _run starts: running is raised, the packet list and the counter are new.
Begin ==
  /\ pc = "begin"
  /\ running' = TRUE
  /\ count' = 0
  /\ lst' = <<>>
  /\ pc' = "setup"
  /\ UNCHANGED <<contSniff, stopCb, exception, results, socks, pipe, oldPipeOpen, todo,
                 dead, expired, env, user>>

\* The sockets are opened; a session and the select function are chosen.
OpenSockets ==
  /\ pc = "setup"
  /\ socks' = opt.sockets
  /\ todo' = {} /\ dead' = {} /\ expired' = FALSE
  /\ sent' = [s \in Sockets |-> 0]
  /\ read' = [s \in Sockets |-> 0]
  /\ eof' = [s \in Sockets |-> FALSE]
  /\ pc' = "setcb"
  /\ UNCHANGED <<opt, attrs, pipe, oldPipeOpen, lst, user>>

\* Opening a socket raises (no such interface, no permission): _run_catch
\* keeps the exception.  Nothing lowers running again.
OpenFails ==
  /\ pc = "setup"
  /\ opt.own
  /\ exception' = TRUE
  /\ pc' = "crashed"
  /\ UNCHANGED <<running, contSniff, stopCb, results, count, socks, pipe, oldPipeOpen,
                 todo, dead, lst, expired, env, user>>

\* stop_cb becomes the closure of this run; with blocking sockets it closes
\* over a control pipe that joins the sockets select() watches.
InstallStopCb ==
  /\ pc = "setcb"
  /\ pipe' = [watched |-> opt.blocking, open |-> opt.blocking, written |-> 0]
  /\ stopCb' = "current"
  /\ pc' = "arm"
  /\ UNCHANGED <<running, contSniff, exception, results, count, oldPipeOpen, socks,
                 todo, dead, lst, expired, env, user>>

\* continue_sniff is raised, started_callback is called, the time limit runs.
Arm ==
  /\ pc = "arm"
  /\ contSniff' = "true"
  /\ pc' = "loop"
  /\ UNCHANGED <<running, stopCb, exception, results, count, socks, pipe, oldPipeOpen,
                 todo, dead, lst, expired, env, user>>

\* Mutant: the test of the loop raises continue_sniff again.
LoopTestRaising ==
  /\ pc = "loop"
  /\ contSniff' = "true"
  /\ pc' = IF (socks # {} \/ pipe.watched) /\ contSniff = "true" /\ ~expired
             THEN "select" ELSE "finish"
  /\ UNCHANGED <<running, stopCb, exception, results, count, socks, pipe,
                 oldPipeOpen, todo, dead, lst, expired, env, user>>

\* The loop condition and the test of the time limit.
LoopTest ==
  /\ pc = "loop"
  /\ pc' = IF (socks # {} \/ pipe.watched) /\ contSniff = "true" /\ ~expired
             THEN "select" ELSE "finish"
  /\ UNCHANGED <<attrs, socks, pipe, oldPipeOpen, todo, dead, lst, expired, env, user>>

\* select() reports a socket with data or at the end of its stream; the
\* select() of non-blocking sockets reports all of them.
Ready(s) == read[s] < sent[s] \/ eof[s]
Answer == IF opt.blocking THEN {s \in socks : Ready(s)} ELSE socks
PipeReady == pipe.watched /\ pipe.written > 0

\* Mutant: remain is not passed to select().
SelectForever ==
  /\ pc = "select"
  /\ Answer # {} \/ PipeReady
  /\ todo' = Answer /\ dead' = {}
  /\ pc' = "pass"
  /\ UNCHANGED <<attrs, socks, pipe, oldPipeOpen, lst, expired, env, user>>

Select ==
  /\ pc = "select"
  /\ Answer # {} \/ PipeReady \/ expired
  /\ todo' = Answer
  /\ dead' = {}
  /\ pc' = "pass"
  /\ UNCHANGED <<attrs, socks, pipe, oldPipeOpen, lst, expired, env, user>>

\* Mutant: the limit is noticed one packet late.
LimitReachedLate(n) == 0 < opt.count /\ opt.count < n

\* The limit on the number of packets, tested after each packet handled.
LimitReached(n) == 0 < opt.count /\ opt.count <= n

\* A packet is read from s and passes lfilter: it is counted and kept, and prn
\* is called.  If prn raises, s is closed as if reading it had failed, and the
\* tests that follow prn are not made.
RecvPacket(s) ==
  /\ pc = "pass" /\ s \in todo
  /\ read[s] < sent[s]
  /\ read' = [read EXCEPT ![s] = @ + 1]
  /\ count' = count + 1
  /\ lst' = Append(lst, <<s, read'[s]>>)
  /\ todo' = todo \ {s}
  /\ \/ /\ \/ LimitReached(count')
           \/ opt.stopFilter
        /\ contSniff' = "false"
        /\ UNCHANGED dead
     \/ /\ ~LimitReached(count')
        /\ UNCHANGED <<contSniff, dead>>
     \/ /\ dead' = dead \cup {s}
        /\ UNCHANGED contSniff
  /\ UNCHANGED <<running, stopCb, exception, results, pc, socks, pipe, oldPipeOpen,
                 expired, opt, sent, eof, user>>

\* A packet the session keeps back (part of a larger one) or lfilter rejects.
RecvNothing(s) ==
  /\ pc = "pass" /\ s \in todo
  /\ read[s] < sent[s]
  /\ read' = [read EXCEPT ![s] = @ + 1]
  /\ todo' = todo \ {s}
  /\ UNCHANGED <<attrs, pc, socks, pipe, oldPipeOpen, dead, lst, expired, opt, sent, eof, user>>

\* A non-blocking socket with nothing to read: recv() returns None.
RecvEmpty(s) ==
  /\ pc = "pass" /\ s \in todo
  /\ read[s] = sent[s] /\ ~eof[s]
  /\ todo' = todo \ {s}
  /\ UNCHANGED <<attrs, pc, socks, pipe, oldPipeOpen, dead, lst, expired, env, user>>

\* recv() raises EOFError at the end of the stream, or any other exception: s is
\* closed and will be removed.
RecvEnd(s) ==
  /\ pc = "pass" /\ s \in todo
  /\ read[s] = sent[s] /\ eof[s]
  /\ dead' = dead \cup {s}
  /\ todo' = todo \ {s}
  /\ UNCHANGED <<attrs, pc, socks, pipe, oldPipeOpen, lst, expired, env, user>>

\* Mutant: the message that ended the pass is taken out of the pipe.
EndPassDraining ==
  /\ pc = "pass"
  /\ todo = {}
  /\ socks' = socks \ dead
  /\ pipe' = [pipe EXCEPT !.watched = @ /\ ~(dead # {} /\ socks' = {}),
                          !.written = 0]
  /\ pc' = "loop"
  /\ UNCHANGED <<attrs, oldPipeOpen, todo, dead, lst, expired, env, user>>

\* Mutant: the control pipe stays among the sockets when the last one dies.
EndPassKeepingPipe ==
  /\ pc = "pass"
  /\ todo = {}
  /\ socks' = socks \ dead
  /\ pc' = "loop"
  /\ UNCHANGED <<attrs, pipe, oldPipeOpen, todo, dead, lst, expired, env, user>>

\* The pass is over: all ready sockets handled, then the control pipe met, if
\* it is ready (`break`, without reading the pipe).  Dead sockets are removed,
\* and the control pipe with the last of them.
EndPass ==
  /\ pc = "pass"
  /\ todo = {}
  /\ socks' = socks \ dead
  /\ pipe' = IF dead # {} /\ socks' = {}
               THEN [pipe EXCEPT !.watched = FALSE] ELSE pipe
  /\ pc' = "loop"
  /\ UNCHANGED <<attrs, oldPipeOpen, todo, dead, lst, expired, env, user>>

\* After the loop: running is lowered first ...
LowerRunning ==
  /\ pc = "finish"
  /\ running' = FALSE
  /\ pc' = "close"
  /\ UNCHANGED <<contSniff, stopCb, exception, results, count, socks, pipe, oldPipeOpen,
                 todo, dead, lst, expired, env, user>>

\* Mutant: nothing is closed for a caller who opened the sockets.
CloseOwnOnly ==
  /\ pc = "close"
  /\ pipe' = IF opt.own /\ pipe.watched THEN [pipe EXCEPT !.open = FALSE] ELSE pipe
  /\ pc' = "results"
  /\ UNCHANGED <<attrs, socks, oldPipeOpen, todo, dead, lst, expired, env, user>>

\* ... then _run closes what it opened (every entry of sniff_sockets, the pipe
\* among them if it still is one), or only the pipe of opened sockets ...
CloseAll ==
  /\ pc = "close"
  /\ pipe' = IF opt.own /\ ~pipe.watched
               THEN pipe ELSE [pipe EXCEPT !.open = FALSE]
  /\ pc' = "results"
  /\ UNCHANGED <<attrs, socks, oldPipeOpen, todo, dead, lst, expired, env, user>>

\* ... and the list becomes the results.
PublishResults ==
  /\ pc = "results"
  /\ results' = lst
  /\ pc' = "done"
  /\ UNCHANGED <<running, contSniff, stopCb, exception, count, socks, pipe, oldPipeOpen,
                 todo, dead, lst, expired, env, user>>

Recv == \E s \in Sockets :
          RecvPacket(s) \/ RecvNothing(s) \/ RecvEmpty(s) \/ RecvEnd(s)

Thread ==
  \/ Begin \/ OpenSockets \/ OpenFails \/ InstallStopCb \/ Arm
  \/ LoopTest \/ Select \/ Recv \/ EndPass
  \/ LowerRunning \/ CloseAll \/ PublishResults

-----------------------------------------------------------------------------
(* The user's thread: start() and stop()                                   *)

\* start() makes a new thread.  The user does not start a sniffer again before
\* the thread of the last start() has ended; the code does not check it.  Nor
\* does he start it again on sockets of his own, which may have been closed.
Start ==
  /\ upc = "idle" /\ pc \in Ended /\ runs < MaxRuns /\ (runs > 0 => opt.own)
  /\ runs' = runs + 1
  /\ pc' = "begin"
  /\ stopCb' = IF stopCb = "current" THEN "stale" ELSE stopCb
  /\ oldPipeOpen' = IF stopCb = "current" THEN pipe.open ELSE oldPipeOpen
  /\ pipe' = NoPipe
  /\ armed' = FALSE /\ outcome' = "none"
  /\ UNCHANGED <<running, contSniff, exception, results, count, socks, todo,
                 dead, lst, expired, env, upc, wantJoin, stops>>

\* stop() looks at self.running before anything else.
Stop(join) ==
  /\ upc = "idle" /\ runs > 0 /\ stops < MaxStops
  /\ stops' = stops + 1
  /\ wantJoin' = join
  /\ armed' = (pc \in Armed)
  /\ IF running THEN upc' = "cb" /\ outcome' = "none"
                ELSE upc' = "idle" /\ outcome' = "not running"
  /\ UNCHANGED <<attrs, local, env, runs>>

\* self.stop_cb is called: the placeholder of the constructor does nothing, a
\* closure over a control pipe looks at self.running again.
CallStopCb ==
  /\ upc = "cb"
  /\ upc' = CASE stopCb = "noop" -> "check"
              [] stopCb = "current" /\ opt.blocking /\ running -> "send"
              [] stopCb = "stale" /\ opt.blocking /\ running -> "send old"
              [] OTHER -> "clear"
  /\ UNCHANGED <<attrs, local, env, wantJoin, armed, outcome, runs, stops>>

\* close_pipe.send(None).  The pipe may have been closed in between, or be the
\* one of an older run: then os.write raises, and so does stop(), or the number
\* of the closed descriptor is in use again and the byte goes elsewhere.
PipeSend ==
  /\ upc \in {"send", "send old"}
  /\ LET open == IF upc = "send" THEN pipe.open ELSE oldPipeOpen IN
     \/ /\ upc' = "clear"
        /\ pipe' = IF upc = "send" /\ open
                     THEN [pipe EXCEPT !.written = @ + 1] ELSE pipe
        /\ UNCHANGED outcome
     \/ /\ ~open
        /\ upc' = "idle"
        /\ outcome' = "pipe closed"
        /\ UNCHANGED pipe
  /\ UNCHANGED <<attrs, pc, socks, oldPipeOpen, todo, dead, lst, expired,
                 env, wantJoin, armed, runs, stops>>

ClearContSniff ==
  /\ upc = "clear"
  /\ contSniff' = "false"
  /\ upc' = "check"
  /\ UNCHANGED <<running, stopCb, exception, results, count, local, env,
                 wantJoin, armed, outcome, runs, stops>>

\* What stop() makes of continue_sniff after the callback.
CheckContSniff ==
  /\ upc = "check"
  /\ IF contSniff = "false" /\ wantJoin
       THEN upc' = "join" /\ UNCHANGED outcome
       ELSE /\ upc' = "idle"
            /\ outcome' = CASE contSniff = "unset" /\ exception -> "raised"
                            [] contSniff = "unset" /\ ~exception -> "never started"
                            [] contSniff = "true" -> "unsupported"
                            [] OTHER -> "requested"
  /\ UNCHANGED <<attrs, local, env, wantJoin, armed, runs, stops>>

\* join(): wait for the thread, raise what it died of, return the results.
Join ==
  /\ upc = "join" /\ pc \in Ended
  /\ upc' = "idle"
  /\ outcome' = IF exception THEN "raised" ELSE "stopped"
  /\ UNCHANGED <<attrs, local, env, wantJoin, armed, runs, stops>>

StopSteps == CallStopCb \/ PipeSend \/ ClearContSniff \/ CheckContSniff \/ Join

-----------------------------------------------------------------------------
(* The environment                                                         *)

Deliver(s) ==
  /\ pc \in Capturing /\ s \in opt.sockets
  /\ sent[s] < MaxPkts /\ ~eof[s]
  /\ sent' = [sent EXCEPT ![s] = @ + 1]
  /\ UNCHANGED <<attrs, local, opt, read, eof, user>>

EndStream(s) ==
  /\ pc \in Capturing /\ s \in opt.sockets
  /\ ~eof[s]
  /\ eof' = [eof EXCEPT ![s] = TRUE]
  /\ UNCHANGED <<attrs, local, opt, sent, read, user>>

Expire ==
  /\ opt.timeout /\ pc \in Capturing /\ ~expired
  /\ expired' = TRUE
  /\ UNCHANGED <<attrs, pc, socks, pipe, oldPipeOpen, todo, dead, lst, env, user>>

\* A user who never calls again, and a capture that waits for packets nobody
\* sends, are legitimate ends.
Next ==
  \/ Thread
  \/ Start
  \/ \E join \in BOOLEAN : Stop(join)
  \/ StopSteps
  \/ \E s \in Sockets : Deliver(s) \/ EndStream(s)
  \/ Expire

Spec == Init /\ [][Next]_vars

\* The scheduler runs both threads and the clock advances; nobody has to send
\* packets or to call stop().
Fairness == WF_vars(Thread) /\ WF_vars(StopSteps) /\ WF_vars(Expire)

FairSpec == Spec /\ Fairness

-----------------------------------------------------------------------------
(* Properties                                                              *)

\* A stop() that found the sniffer armed cannot be undone: from the moment it
\* has lowered continue_sniff nothing the sniffing thread does raises it again.
StopSticks == armed /\ upc \in {"check", "join"} => contSniff = "false"

\* When a stop() of an armed sniffer fails ("Not running !", a write to a closed
\* pipe) the capture was over anyway; it never ends in "Unsupported" and is
\* never taken for a sniffer that was not started.
FailedStopIsHarmless ==
  armed /\ upc = "idle" =>
    /\ outcome \notin {"unsupported", "never started"}
    /\ outcome \in {"not running", "pipe closed"} => pc \notin Capturing

\* The limit `count` is tested per packet but only ends the pass over the ready
\* sockets early when that pass is over: what is kept beyond the limit is at
\* most one packet per further socket.  (usage.rst takes count for a limit.)
OvershootBounded == opt.count > 0 => Len(lst) < opt.count + Cardinality(opt.sockets)

\* The control pipe of a finished capture is closed, except the one taken out
\* of sniff_sockets when the last socket died.
PipeLeakOnlyAfterLastSocket ==
  pc = "done" /\ pipe.open => opt.own /\ socks = {}

\* stop() of an armed sniffer ends the capture, even when no packet ever comes.
ArmedStopEnds == (armed /\ upc # "idle") ~> (pc \in Ended)

\* What the documentation says of stop() (usage.rst: start() and stop() one
\* after the other): once it has accepted to stop the sniffer, the capture ends.
StopEnds == (upc = "cb") ~> (pc \in Ended)

\* The time limit ends the capture.
TimeLimitEnds == (opt.timeout /\ pc \in Capturing) ~> (pc \in Ended)

\* When all the streams have ended, so does the capture: the control pipe alone
\* does not keep it waiting.
StreamsEndCapture ==
  (pc \in Capturing /\ \A s \in opt.sockets : eof[s]) ~> (pc \in Ended)

=============================================================================
