# Verification of the capture and analysis core

The repository is a fork of Scapy (`src/scapy`) with an application on top of it, `src/ai_pcap_analyst`, that looks
for BGP hijacks, beacons and DNS tunnels in captures, puts the findings into one report and discusses it with a
language model. This directory holds TLA+ models of the parts whose correctness depends on the order of events, on
limits and on state kept between calls, the TLC runs that check them, and TLAPS proofs of what matters most.

Contents: [Inventory](#inventory) · [Modules](#modules) · [Runs](#runs) · [Fairness](#fairness) · [Proofs](#proofs) ·
[What the runs found](#what-the-runs-found) · [Not modelled](#not-modelled) · [Plan](#plan)

## Inventory

| Part | Source | State it keeps | Operations | What is hard |
|---|---|---|---|---|
| Capture engine | `scapy/sendrecv.py`, `AsyncSniffer` | `running`, `continue_sniff`, `stop_cb`, `exception`, `results`, the control pipe | `start`, `stop`, `join`, the capture loop in a thread | two threads share attributes without a lock; the loop may be blocked in `select()` |
| Send and receive | `scapy/sendrecv.py`, `SndRcvHandler` | `hsent`, `ans`, `notans`, `noans`, `_send_done`, `breakout`, `tobesent` | the sending thread, the packet callback on the receiving thread, rounds of retries | the last of two threads must end the round; late, lost and doubled answers; `send()` that raises |
| Stream reassembly | `scapy/sessions.py`, `TCPSession`, `StringBuffer` | the buffer, `seq`, `relative_seq`, `next_seq` | `process` one segment | reordered and retransmitted segments, several messages in one, numbers that wrap, ports that are used again |
| BGP hijacks | `ai_pcap_analyst/bgp_hijack.py` | `RPKI_CACHE`, the findings | `analyze_pcap`, `analyze_bgp_update`, `validate_rpki` | stale answers, a service that fails in the middle of an UPDATE |
| Report | `ai_pcap_analyst/aggregator.py` | the ordered findings, counts | `aggregate`, `to_dict` | limits and order decide what is ever shown |
| Agent | `ai_pcap_analyst/langchain_agent.py` | the report, the history of the dialogue | tools, `run_threat_agent`, `run_agent_repl` | keys of a dict agreed between two files |
| Timers | `scapy/contrib/isotp/isotp_soft_socket.py`, `TimeoutScheduler` | `_handles`, `_thread`, `_event` | `schedule`, `cancel`, `clear`, the thread | lost wake-ups; a thread that ends while work arrives; callbacks that call back |
| ISO-TP sockets | the same file, `ISOTPSocketImplementation` | `tx_state`, `rx_state`, indices and sequence numbers, queues, timers | `send`, `begin_send`, `can_recv`, `_recv_sf/ff/cf/fc`, the two timer handlers, `close` | timeouts racing frames; lost frames; a CAN socket that raises in the middle of a transfer |
| Automaton | `scapy/automaton.py` | the lock `started`, `cmdin`, `cmdout`, `state`, `breakpointed`, the generator of the control thread | `start`, `run`, `runbg`, `next`, `stop`, `forcestop`, `restart`, `accept_packet`, `reject_packet` | the thread and its users wait for each other; pipes that outlive a thread; breakpoints met again |
| PipeEngine | `scapy/pipetool.py` | the engine thread, the graph of pipes | start, stop, exhaustion | stop while starting, sources that end |
| IP defragmentation | `scapy/sessions.py` (`IPSession`), `scapy/layers/inet.py` | fragments per datagram | process one fragment | lost, repeated, overlapping fragments |
| Dispatcher | `ai_pcap_analyst/dispatcher.py` | the buckets of the detectors, counters | dispatch one packet | sequential |
| Detectors of beacons and tunnels, LLM prompts | `ai_pcap_analyst/{beaconing,dns_exfil,ai_analyzer}.py` | none between calls | statistics, HTTP requests | numeric |
| Formats and codecs | most of `scapy/` | none | dissect, build | large, but pure |

How they interact. `AsyncSniffer` is the loop below `sniff()`, below `SndRcvHandler` (which starts one, gets every
packet through its callback `prn` and stops it from either thread) and below the live mode of the dispatcher. It hands
each packet to a session (`TCPSession`, `IPSession`) before the callback. `TimeoutScheduler` drives the state machines
of ISO-TP and CoAP by callbacks on its thread. `Automaton` is the base of the clients and servers in `layers` and
`contrib` and does its own waiting in `select()`. In the application, the dispatcher distributes packets to the
detectors, whose findings the aggregator puts in order; the agent reads the resulting dict.

What makes each part correct: a stop takes effect and never does harm, limits are kept as far as the code keeps them,
every capture that should end does; every request is answered at most once and accounted for, a round ends when all is
answered and not before; the bytes of a stream come out as they were sent; a known hijack is reported, a legitimate
announcement is not, the service is spared, and what is found reaches the narrative; a timer goes off once, in time,
in order; a message is put together from its own frames, and no socket waits without a timer; an automaton and its
users never wait for one another, and hear only the thread they started.

## Modules

| Module | Models |
|---|---|
| `AsyncSniffer` | the capture engine |
| `SndRcv` | `SndRcvHandler`, with the capture reduced to what `stop()` and the time limit do to it |
| `TcpSession` | `TCPSession.process` and `StringBuffer` |
| `BgpHijack` | the detector with its cache |
| `ThreatReport` | the aggregator and what the agent reads from its report; extends `BgpHijack` |
| `Timers` | abstract: what a timer service promises |
| `TimeoutScheduler` | the scheduler's class and thread; refines `Timers` |
| `Automaton` | the control thread of `Automaton`, its users and the pipes between them |
| `IsoTp` | two or more ISO-TP sockets and the CAN bus between them |
| `MC*` | the arguments of the instances TLC checks |
| `*Proofs` | theorems and their proofs: `AsyncSnifferProofs`, `SndRcvProofs`, `TcpSessionProofs`, `BgpHijackProofs`, `ThreatReportProofs`, `TimeoutSchedulerProofs`, `AutomatonProofs`, `IsoTpProofs` |

Definitions named "Mutant" in a comment are faulty variants of the definition that follows them. They are no part of a
specification; each shows that a property would notice such a fault.

**AsyncSniffer.** An action is the code between two accesses to an attribute that both threads use. The thread goes
through `Begin` (running raised), `OpenSockets`/`OpenFails`, `InstallStopCb`, `Arm` (`continue_sniff` raised), the
loop `LoopTest`–`Select`–`Recv…`–`EndPass`, then `LowerRunning`, `CloseAll`, `PublishResults`. The user's `stop()`
goes through `Stop` (the test of `running`), `CallStopCb`, `PipeSend`, `ClearContSniff`, `CheckContSniff` and `Join`.
`pc` and `upc` say where the two are. Packets are pairs of a socket and a number. A write to a pipe that has been
closed either raises or hits a descriptor that has been opened since: both are allowed. `armed` is history: the call
found the thread past `self.continue_sniff = True`.

**SndRcv.** `spc` is the sending thread, `rpc` the thread that called `sndrcv()`, which runs the capture loop and the
callback. A packet is reduced to its *kind*, what `hashret()` and `answers()` compare: two requests of the same kind
are told apart by their position only, so that an answer to one may be taken for an answer to the other, also in
another round. `why`, `sentNow`, `rounds`, `before` and `fruitless` are history.

**TcpSession.** One direction of a connection, and the simplest protocol `tcp_reassemble` is made for: a length byte
and as many bytes. The sender cuts the stream anywhere; segments are captured in any order, one may be transmitted
again, and sequence numbers wrap at `SeqMod`. When it is closed another connection may use the same ports
(`Reconnect`): it finds whatever the first has left in `tcp_frags`. `trouble` is history: which of the situations
occurred whose outcome is not the stream that was sent; `Reassembled` is about the others.

**BgpHijack.** `UseCached` and `AskService` are the two ways through `validate_rpki`. The request blocks: between
`AskService` and `StoreAnswer` the clock goes on and the registry may change, before the service makes its answer
(`ServiceDecides`) or after; the entry is stamped when the answer has come. An answer may be readable, an error (cached
like an answer) or unreadable (`AnswerUnreadable`: the whole UPDATE is given up, as the caller's `except` does). Scores
are computed as in the code. An UPDATE is what Scapy's dissector makes of it; paths with AS numbers of two bytes are
walked with four, as the code does (`Misread`). Any key of `Changing` may change its answer while the analysis runs;
`since`, `asked`, `sent`, `slowest`, `began` and `unknown` are history.

**ThreatReport.** `Aggregate` builds the report from any findings of the other detectors and those of `BgpHijack`; the
tools are operators over it.

**TimeoutScheduler.** A block under the mutex is one action; setting the event after it, reading the clock before it,
and everything `_wait()` does outside it are actions of their own. Callbacks run on the thread and may call
`schedule()`, `cancel()` and `clear()`; one may end the thread. The heap is a set with a least element (of handles due
at the same time any may come first). Any actor may cancel a handle as soon as it exists, a little earlier than
`schedule()` hands it out.

**Automaton.** What a subclass decorates is data: the record `cls` says which states the conditions, receive
conditions, timeout and eof transition of each state may raise, which states have a breakpoint or send a packet that
is intercepted, and which exceptions their code raises (`Raise`: a `RuntimeError` is taken for the end, and kills the
thread if there is no output to report). `ctl` is where the thread of control stands: `Begin` (`_do_start`), `Command`, `Resume`,
`Freeze`, `MoveToStop` and `Kill` (`_do_control`), then the generator `_do_iter` through `Enter`, `RunState`,
`Verdict`, `Ran`, `Conds`, `Timers`, `Select` and `Look…`; `iterator` is where the generator goes on at the next
`next()`. A user's `run()` is `RunCall` and `RunReturn`, his `stop()` is `StopCall`, `Flush`, `ClearTest`, `ClearRead`
and `Cleared`; the lock `started` is a variable, because `stop()` and the thread both take it. Each message in
`cmdout` carries the number of the thread that sent it, which only `NoStaleAnswer` looks at. `flushed`, `told`,
`skipped`, `crashed`, `misread` and `orderly` are history.

**IsoTp.** All methods of a socket but `send()` and `close()` run as callbacks on the one thread of `TimeoutScheduler`
(`OneThread`, proved of it, is why each is one action). A message is a number and a length in frames, a frame carries
a piece of a message. `Send`, `BeginSend`, `SendFrames` (`_tx_timer_handler` in `ISOTP_SENDING`), `TxTimeout`,
`RecvSf`, `RecvFf`, `RecvCf`, `RecvFc`, `RxTimer` and `Close` are the code; `LoseFrame` and `Foreign` are the bus. `Foreign` is
another node or a peer that is not this program: flow control of any kind, out of place, wait frames without end, and
consecutive frames of the wrong size; not a second sender of data, since a CAN identifier belongs to one node. A timer
may be over at any time; `hasty` records that it was while the awaited frame was on its way. An action whose
frame cannot be sent has the effects the code has reached when `can_send()` raises.

## Runs

| Run | Checks | States |
|---|---|---|
| `sniffer` | no stop is undone, a failing stop is harmless, the packet limit is exceeded by at most one packet per further socket, no pipe is left open but one; `stop()`, the time limit or the end of all streams ends a capture that may sleep in `select()` | 710 000 |
| `sniffer_early` | violation: a `stop()` right after `start()` | |
| `sndrcv_calls` | an answer at most per request, counts and lists that agree, retries as documented, rounds and calls that end | 153 000 |
| `sndrcv_failure` | violation: a round ended as complete with answers outstanding | |
| `tcp_pass` | the content length is right whatever the order, streams come out as sent, on the second connection over the same ports too | 673 000 |
| `tcp_streams`, `tcp_retransmitted` | violations: zero bytes as data; data returned twice | |
| `report_hijack` | hijacks are reported and reach the narrative, the baseline is not flagged, the service is spared | 2.8 million |
| `scheduler` | the scheduler is a timer service, one thread runs callbacks, no timeout is stranded or slept over, all are handled | 563 000 |
| `automaton` | nobody waits for nothing but where the code gives up, no old answer after a restart, no breakpoint passed unannounced, a stop is heard | 493 000 |
| `automaton_conditions` | violation: a `run()` waits for a thread that sleeps in a state whose conditions were skipped | |
| `isotp` | messages arrive whole, once and in order, nobody waits without a timer, queues are emptied unless the peer says wait for ever, an undisturbed message arrives | 172 000 |

Bounds, and why they are enough to meet the interesting cases:

- *sniffer*: two sockets (one may be ready while the other dies; the overshoot needs two), a packet per socket, or two
  where the sniffer opened the socket and counts (`PacketsWhereCounted`), two captures of one object (the second meets
  the callback, flag and pipe of the first) and two calls of `stop()`. `Mixed` lists the captures: over one socket
  opened by the sniffer, with packet limit and time limit, with time limit only, with neither; over two sockets of the
  caller, not blocking with a packet limit and a stop filter, and blocking with none.
- *sndrcv*: two requests and one retry make a late answer of the first round meet a request of the second; the six
  calls cover a timeout or none, `multi`, a negative retry, `first` with a stop filter, and an unthreaded call with
  `chainEX`. One reply per transmission and one trouble (a stray packet or a failing `send()`) per call.
- *tcp*: streams of six and seven bytes with messages of one to four bytes, cut everywhere; a modulus of 21, in which
  14 as the first number makes the longer stream wrap and is above every number of a connection that began with 1, so
  that a second connection meets a number of the first both above and below its own; two segments on their way, one
  retransmission, two connections.
  A second connection is followed (`FollowedWhileCalm`) only while all the trouble so far is what the first one left:
  after any other trouble the properties claim nothing of the stream, and `BufferLengthAgrees` is checked on the first
  connection.
- *report*: an UPDATE with two prefixes, one whose path ends in a set and that has an entry without prefix, and two
  with AS numbers of two bytes: in one segment, which gives no origin, and in two, which give the number of nobody
  (65793 = 1 and the head of the second segment). Two UPDATEs, a lifetime of two ticks in a time of two, requests that
  take up to that time, one change of the registry for an origin of the UPDATEs. The limits of the tools, 10 and 15 in the code, are 1, so that they bite.
- *automaton*: a client with a stop state, a breakpoint, a timeout and an eof transition, and a server whose
  conditions go in a circle, with a periodic timer, an intercepted packet, an error state and no stop state; a state
  function that raises a `RuntimeError`, and conditions that raise another exception. Two users
  with three commands between them (a breakpoint, going on and a stop; or two commands at once), one packet, two
  threads of control.
- *isotp*: two sockets and two messages of one or four frames: with sequence numbers modulo 2 they wrap twice in one
  message, and block sizes of 2 need two flow control frames. The receiver asks for no limits, a block size, a
  separation time, or only listens. One fault: a frame lost or from another node, an exception of `can_send()`, or a
  `close()` of the receiver; timers run out at any time on top of it, and once a foreign frame has come a peer may say
  wait any number of times to a socket that waits.
- *scheduler*: two users and two threads (one to replace the other), two timeouts of 0 or 2 ticks with a grace of 1 in
  a time of 3: enough for a thread to end and to be replaced. One `clear()` and one callback that ends its thread.

Deadlock is not checked anywhere: a capture nobody sends packets to, a finished call, a finished analysis, an idle
scheduler, an automaton that ended or waits for a command, and sockets with nothing to send are legitimate ends, as
are the bounds.

## Fairness

Weak fairness only, of each thread as a whole (the operating system runs it while it can run), of the user's progress
*within* a call of `stop()` or `schedule()`, and of the clock. Nobody has to send packets, to deliver replies or to
call anything. In `TimeoutScheduler` callbacks return (no timer service could promise anything otherwise), but may end
the thread; `EventuallyHandled` names the exception. `select()` and `event.wait()` with a timeout return when it has
passed, which weak fairness of their threads expresses. In `Automaton` the thread of control goes on while it can and
so does each user within a call; nobody has to call or to send. In `IsoTp` the callbacks of each socket go on
(`WF(Callback(s))`), timers included: that is what `EventuallyHandled` gives for `TimeoutScheduler`. The runs of
`TcpSession` and of the report check safety only, under the specification without fairness.

## Proofs

All theorems hold for every value of the constants that satisfies the assumptions in the module: finite sets of
sockets, bounds that are natural numbers, an AS number that is positive, a lifetime that is positive, names of nobody
(`NoThread`, `NoHandle`, `NoPrefix`, `None`) that are none of the named, automata whose transitions lead to their own
states, streams of bytes that are natural numbers and first sequence numbers below the modulus, scores between 0 and
100, a `SnMod` of at least 2 and sockets that are each other's peers.

| Module | Theorems |
|---|---|
| `AsyncSnifferProofs` | `TypeCorrect`, `StopNeverUndone` (`StopSticks`), `FailureIsHarmless` (`FailedStopIsHarmless`), `LimitExceededLittle` (`OvershootBounded`), `OnlyTheLastSocketLeaks` (`PipeLeakOnlyAfterLastSocket`) |
| `SndRcvProofs` | `CallTyped`, `OneAnswerEach` (`AnsweredOnce`), `CountIsTrue` (`AnswersCounted`), `DoneIsDone` (`DoneWhenUndisturbed`), `NothingForgotten` (`AllAccounted`), `RetriesRight` (`RetriesAsDocumented`) |
| `TcpSessionProofs` | `TypeCorrect`, `LengthRight` (`BufferLengthAgrees`), `ReassemblyRight` (`Reassembled`) |
| `BgpHijackProofs` | `DetectorTyped`, `HijacksReported` (`HijackReported`), `BaselineSilent` (`BaselineNotFlagged`), `CacheSpares` (`ServiceSpared`) |
| `ThreatReportProofs` | `HijacksReach` (`HijackReachesNarrative`), `ReportKeepsDetector` (the refinement `SpecReport => Spec`) |
| `TimeoutSchedulerProofs` | `SchedulerTyped`, `CallbacksAlone` (`OneThread`), `TimeoutsAttended` (`NeverStranded`), `WakeUpsKept` (`NoLostWakeup`), `ServesTimers` (`ImplementsTimers`) |
| `AutomatonProofs` | `AutomatonTyped`, `NobodyWaits` (`NoMutualWait`), `AnswersFresh` (`NoStaleAnswer`), `BreakpointsHold` (`BreakpointHonoured`) |
| `IsoTpProofs` | `IsoTpTyped`, `WaitsEnd` (`NeverUnattended`), `MessagesWhole` (`Integrity`) |

- *A stop sticks.* `IInv` adds to the property where the thread may be: once armed it has installed its own callback
  and its pipe is open until `CloseAll` (`ThreadReady`), and a call that found it armed never uses the pipe of an
  older run (`StopEffective`). Without these facts `PipeSend` could fail in the middle of a capture.
- *The pipe.* `PipeKnown` follows the control pipe through the capture: it is in `sniff_sockets` until the last socket
  dies; at the end a capture that opened its sockets closes what is in `sniff_sockets`, any other the pipe itself.
- *The limit.* `OvershootBounded` says nothing of the sockets still to be handled in a pass. `LimitInv` keeps `Room`:
  when a pass begins under the limit there is room for one packet from each living socket, and each packet uses one of
  them. A packet whose callback raises is not tested against the limit; its socket is gone for the next pass, which
  makes up for it.
- *Hijacks.* A verdict may come from the cache. `CacheTrue`: what is cached and was asked for after the last change of
  the registry is what the registry says, and an entry is stamped no later after its request than the slowest request
  has taken; `AnswerTrue`, the same of the answer on its way. `Settled` adds that time to `CACHE_TTL`: nothing bounds
  it, since `timeout=10` limits each wait for the socket and a request has several. `Judged`: the reasons found so far do justice to the prefixes seen so far. Both
  are about the middle of an analysis, where the properties, which speak of its end, are silent. That the origin found
  by the walk over the path is the last AS of the last sequence is `OriginFound`.
- *Answers.* `Fresh`: what is listed in `hsent`, what the round is still to send and what the next round will send has
  no answer, and what is listed is not sent again. `RoomToCount` bounds what the sender counts by what it has left to
  send. That `noans` stays in its range follows from the fact that it counts a set of requests.
- *Rounds.* `CalmInv` is about calls in which `send()` does not raise and nobody asks for an early end. `Listed`: what
  has no answer is in `hsent` or still to be sent, at every point of a round. `Complete`: no thread leaves a round
  before its requests have been sent. For this `FirstRound` has to know that until `notans` is set, and `_send_done`
  after it, the capture goes on; `Calm`, that no exception is under way. `RetriesCounted` and `Restarting` tie the
  rounds, fruitless or all, to what is left of `retry`.
- *The scheduler.* `Sole`: a thread that is not ending is the one in `_thread`. It gives `OneThread`, because
  `schedule()` starts a thread only if that one is dead or gone. `Staffed` is `NeverStranded` together with the fact
  that the thread of the class is not ending. `HeardAsleep`, which is `NoLostWakeup`, needs `HeardBefore`, the same
  for the moment between `_peek_next()` and `event.wait()`: a handle pushed there has either called, or is due no
  earlier than one that has. The refinement needs `HandlesLive` (what is in the heap has neither run nor been
  cancelled) and maps a push to a timer being set, a pass of `_poll()` to one going off, `cancel()` and `clear()` to
  cancelling, and everything else to a stutter.
- *The automaton.* `Attended` is the heart of `NobodyWaits`: for a user who waits there is a message, a command before
  the thread that will bring one, or a thread that goes on or listens, unless it crashed. `Listens`: where the thread
  listens to more than commands its state has an input or a timer, or its conditions were skipped. It needs that in an orderly use the last command is not to
  go on waiting (`NotFrozen`), that the generator was told of a command nobody else can take (`Heard`), and that one
  user waits at a time (`OneWaits`). `OneVoice` (cleared pipes carry one thread's messages only) gives `AnswersFresh`,
  by `Locked`: who clears the pipes holds the lock, so that no thread starts meanwhile. `Announced` gives
  `BreakpointsHold`.
- *ISO-TP.* `TimersRight` adds what the callbacks rely on: an idle sender has no timer, one that waits for flow
  control has frames left, and one whose timer runs is within its block. Without it `SendFrames` could leave the last
  frame behind with no timer.
- *Messages over ISO-TP.* `Integrity` needs an invariant of the channel from a socket to its peer, `Channel`, which
  relates the frames on the bus, the receiver's record, the sender's record and queue, and what was delivered.
  `Sequenced` holds come what may: pieces are queued, sent, taken and delivered in one order, which is why no message
  comes twice. `Chained` holds while nothing is lost: each consecutive frame on the bus has the piece before it on the
  bus or as the last one taken. `Orderly` holds while no timeout overtakes a frame and no foreign frame comes, whatever
  is lost: an answer on its way finds the sender waiting, of the message the receiver is putting together, and both
  ends count the block alike, so that no frame of the next message can be let loose. Either of the two gives
  `Gathered`: the buffer holds pieces of one message and no more of them than the index of the last, so that a buffer
  that is full has no gap. The sequence numbers are not needed for any of this: what a missing frame leaves behind
  never gets full.
- *Reassembly.* `BufferLengthAgrees` is inductive with the types, which say that the offset of the buffer is never
  positive and that `relative_seq` is a number or -1. `Reassembled` needs more than the content of the buffer. `Well`
  says where its origin lies in the stream, that neither `seq` nor `next_seq` is above the number to come (`Fine`),
  and how far below they may be (`NextKnown`, `OwnNumber`): a segment transmitted again is recognised by them. Where the messages of a stream are cut is a recursive function (`Cuts`); what is
  true of it for streams of any length (it finds the one chain of messages from a place; the cuts of a beginning are
  those of the whole as far as it goes; cutting at a cut commutes with concatenation) is proved from its defining
  equation by least counterexample, without an induction theorem.
- *The report.* `RankedOrders`: enumerating a finite set by the number of members before each one loses nothing and
  keeps the order, by the pigeonhole principle, if the order is linear. It makes `aggregate()` a stable sort and the
  tools' comprehensions what they are. `HijackScored` (a hijack in the findings has its points) and `Made` (a report is
  made of the findings there are) carry `HijackReachesNarrative`.

Every invariant and every action property that a run checks is proved, and so is the refinement of `Timers`. Only
model-checked is what is beyond the prover, liveness under fairness: `ArmedStopEnds`, `StreamsEndCapture`,
`TimeLimitEnds`, `DoneEndsRound`, `CallReturns`, `EventuallyHandled`, `StopIsHeard`, `QueueEmptied` and `Delivered`.
The five properties that the code violates are refuted by runs.

Some theorems name what the code does not do. `HijacksReported` and `BaselineSilent` speak of a verdict that has been
the same for `CACHE_TTL` and the slowest request; the first of paths with AS numbers of four bytes, the second of all
but those with several segments of two-byte AS numbers, which `bgp_hijack.py:132-141` misreads: a registered
announcement is then flagged. `NobodyWaits` allows a `run()` to wait for ever after a `RuntimeError` of user code before
there was an output (`automaton.py:1357`), and in a state whose conditions were skipped (the run
`automaton_conditions`), whose timeout was declined or whose socket is closed. `WaitsEnd` allows a reception without a
timer after a consecutive frame of the wrong size (`isotp_soft_socket.py:1037`), and any wait but that for flow
control after an exception of `can_send()`. Of the properties that are only model-checked, `StopIsHeard` names the
`stop()` that is taken for the verdict on an intercepted packet: it ends the automaton with an error, in spite of
`automaton.rst:201` (`misread`); and `QueueEmptied` supposes that the peer says wait only finitely often, because
`_recv_fc` starts its timer anew each time, without a limit.

## What the runs found

| Run | What happens |
|---|---|
| `sniffer_early` | `stop()` between `self.running = True` and `self.continue_sniff = True` (`sendrecv.py:1286`) is overwritten, or takes the sniffer for one never started; the capture goes on. The documentation shows `start()` followed by `stop()`. |
| `sndrcv_failure` | When `send()` raises, `notans` keeps the number of requests sent so far for good; the next round is ended at once although an answer is expected, against the docstring of `_stop_sniffer_if_done`. |
| `tcp_streams` | Of several messages completed by one segment only the last moves `relative_seq`; the next segment, in order and sent once, lands too far to the right and the gap of zeros is returned as data. |
| `tcp_retransmitted` | `next_seq` is stored in metadata that have just been deleted, so that a retransmission is returned again. |
| `automaton_conditions` | A `run()` just after a `runbg()`: the second command makes the generator skip the conditions of the state (`automaton.py:1401`), is taken, and leaves the thread asleep in `select()`, `run()` waiting for it. The documentation promises the conditions right after the state's method (`automaton.rst:243`). |

Met while reading, and not given a run of their own: `count` is exceeded with several sockets (`usage.rst:769-774`;
the excess is what `OvershootBounded` bounds); with `first` the requests not yet sent are in neither list
(`usage.rst:371`); with `chainEX` an exception in the sending thread of a threaded call reaches nobody
(`sendrecv.py:97`); `get_investigation_summary` reads `report["summary"]`, which the aggregator does not write, and
tells of no findings (`langchain_agent.py:116`); only the first UPDATE of a packet is looked at; a finding's `announced_prefix` is the last prefix
of its UPDATE, not the one flagged; an error of the service is cached for as long as an answer; a prefix of length 24
is flagged when the service fails; `run_agent_repl` trims its history by a name it does not know (`memory_k`,
`langchain_agent.py:650`), so that each answer ends in a `NameError` that is caught and the history grows; the package
imports `thehive_export`, which the repository does not have. A connection that reuses the ports of one that has ended
finds its entry if FIN made a new one: when its numbers are lower its data counts as retransmitted once a message is
complete, and is lost (`sessions.py:316`, the case `Reassembled` excuses as "stale number"). When its numbers are
higher `next_seq`, computed from the old number, is too low, and a first segment that is transmitted again is not
recognised: `Reassembled` excuses a retransmission of the first segment of a later connection. Sequence numbers are
compared without their modulus: past 2^32 what is returned is wrong (`sessions.py:322`, excused as "wrapped"). A
`Timer` belongs to the
class, so that two instances reset each other's (`automaton.py:611`); a `run()` beside a `stop()` may take the message
that `clear()` has seen, and `stop()` waits with the lock in its hands (`automaton.py:239`). An ISO-TP socket whose
`can_send()` raises after `tx_state` was set never sends again (`isotp_soft_socket.py:1126`); `send()` returns when
the message is queued, and a `close()` that follows drops it (`:1164`); `close()` sleeps 5 ms rather than wait for a
callback that is reading (`:663`).

## Not modelled

- The dissection and building of packets, ASN.1 and CBOR, the formats in `layers` and `contrib`: pure, large, without
  interleaving. The models take dissected packets as given.
- Beaconing and DNS tunnels: floating-point statistics over one capture.
- Language models and the HTTP requests to them: outside the program.
- Operating-system backends, configuration, the shell, libraries, tools.
- Within the modelled parts: KeyboardInterrupt; flooding; the offline sources of the sniffer (sockets whose stream
  ends); sessions that return several packets for one `recv()`; TCPSession's application mode and connections with
  other ports; the lists of ATT&CK techniques in the report; the dialogue with its history; of Automaton `destroy()`,
  `spawn()`, its supersockets, actions, and timers shared by instances; of the ISO-TP sockets extended addresses and
  padding, and a callback that `close()` overtakes.
- The dispatcher: one packet at a time to the tests of its handlers, so that a property would restate them.
- PipeEngine, IP defragmentation, and the CoAP sockets have state worth a model; see the plan.

## Plan

What would come next, in order of importance. Runs are merged, or give way, as modules are added.

1. `PipeEngine`: sources that are exhausted, and a stop while the engine starts.
2. `IpDefrag`: fragments lost, repeated and overlapping, against the datagram that was sent.
3. The CoAP socket on `Timers`, as `IsoTp` is; and `IsoTp` against an abstract exchange of whole messages.
4. `Capture`, an abstract capture that `AsyncSniffer` implements, in whose terms `SndRcv` can be stated; its
   refinement would be the next theorem, since the invariants of the present modules are proved.
