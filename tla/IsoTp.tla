------------------------------- MODULE IsoTp --------------------------------
(***************************************************************************)
(* scapy/contrib/isotp/isotp_soft_socket.py, ISOTPSocketImplementation:     *)
(* sockets that carry messages in frames over a CAN bus.  A message that    *)
(* fits goes in a single frame (SF), a longer one in a first frame (FF) and  *)
(* consecutive frames (CF), whose sender waits for flow control frames (FC). *)
(* All the methods but send() and close() are callbacks of the one thread of *)
(* TimeoutScheduler, hence each is one step.                               *)
(*                                                                         *)
(* A message is <<number, length>>, its length in frames; what a frame      *)
(* carries of it is a piece <<message, index>>.  Frames for a socket arrive  *)
(* in order, late, or not at all.  Timers may be over at any time: how late  *)
(* a frame is and how long a second are not related.                       *)
(***************************************************************************)
EXTENDS Naturals, Sequences, FiniteSets, Functions

CONSTANTS
  Peer,        \* for each socket, the one with its identifiers swapped
  Options,     \* for each socket, a set of [bs, gap, listen]: the block size,
               \* whether stmin is positive, and listen_only
  SnMod,       \* sequence numbers are counted modulo 16
  Lengths,     \* lengths of messages
  RxPatience,  \* a reception is given up after 10 times cf_timeout
  MaxSent,     \* bound: messages sent, by all sockets
  MaxFaults,   \* bound: frames lost, frames of other nodes, exceptions of
               \* can_send() and sockets closed, together
  MayClose     \* the sockets that may be closed

Sockets == DOMAIN Peer

ASSUME ConstantsAssumption ==
  /\ \A s \in Sockets : /\ Peer[s] \in Sockets \ {s} /\ Peer[Peer[s]] = s
                        /\ \A o \in Options[s] : o.bs \in Nat /\ {o.gap, o.listen} \subseteq BOOLEAN
  /\ SnMod \in Nat \ {0, 1} /\ Lengths \subseteq Nat \ {0} /\ RxPatience \in Nat \ {0}
  /\ {MaxSent, MaxFaults} \subseteq Nat /\ MayClose \subseteq Sockets

VARIABLES
  opt,       \* the options of each socket
  bus,       \* the frames on their way to each socket
  tx,        \* [state, msg, idx, sn, bs, fcbs, gap, timer] of each socket
  rx,        \* [state, buf, len, sn, bs, wait, timer] of each socket; wait is the
             \* time since the first frame, in cf_timeouts
  txQueue, rxQueue,
  closed,
  sent,      \* messages handed to send() so far
  lost, foreign, failed, \* how often each has happened
  hasty      \* a timer was over though what it waited for was on its way

vars == <<opt, bus, tx, rx, txQueue, rxQueue, closed, sent, lost, foreign, failed, hasty>>

Piece(m, i) == <<m, i>>
Payload(m) == [i \in 1..m[2] |-> Piece(m, i)]

Sf(m) == [pci |-> "SF", piece |-> Piece(m, 1)]
Ff(m) == [pci |-> "FF", piece |-> Piece(m, 1), len |-> m[2]]
Cf(m, i, n) == [pci |-> "CF", piece |-> Piece(m, i), sn |-> n, odd |-> FALSE]
Fc(flow, o) == [pci |-> "FC", flow |-> flow, bs |-> o.bs, gap |-> o.gap]

TxStates == {"idle", "wait_first_fc", "wait_fc", "sending"}
Messages == (Nat \ {0}) \X Lengths
Nobody == <<0, 0>>
Pieces == (Messages \cup {Nobody}) \X Nat

\* Frames of another size than the first come from other nodes only.
Frames ==
  [pci : {"SF"}, piece : Pieces]
  \cup [pci : {"FF"}, piece : Pieces, len : Nat \ {0, 1}]
  \cup [pci : {"CF"}, piece : Pieces, sn : 0..SnMod - 1,
        odd : IF foreign > 0 THEN BOOLEAN ELSE {FALSE}]
  \cup [pci : {"FC"}, flow : {"cts", "wt", "ovflw"}, bs : Nat, gap : BOOLEAN]

TypeOK ==
  /\ DOMAIN opt = Sockets /\ \A s \in Sockets : opt[s] \in Options[s]
  /\ bus \in [Sockets -> Seq(Frames)]
  /\ tx \in [Sockets -> [state : TxStates, msg : Messages \cup {Nobody}, idx : Nat,
                         sn : 0..SnMod - 1, bs : Nat, fcbs : Nat, gap : BOOLEAN,
                         timer : BOOLEAN]]
  /\ rx \in [Sockets -> [state : {"idle", "wait_data"}, buf : Seq(Pieces), len : Nat,
                         sn : 0..SnMod - 1, bs : Nat, wait : 0..RxPatience - 1,
                         timer : BOOLEAN]]
  /\ \A s \in Sockets :
       /\ tx[s].idx <= tx[s].msg[2]
       /\ tx[s].state = "sending" /\ tx[s].timer => tx[s].idx < tx[s].msg[2]
       /\ rx[s].state = "wait_data" => Len(rx[s].buf) < rx[s].len
  /\ txQueue \in [Sockets -> Seq(Messages)] /\ rxQueue \in [Sockets -> Seq(Seq(Pieces))]
  /\ closed \subseteq MayClose
  /\ sent \in [Sockets -> Nat] /\ {lost, foreign, failed} \subseteq Nat
  /\ hasty \in BOOLEAN

Init ==
  /\ opt \in [Sockets -> UNION {Options[s] : s \in Sockets}]
  /\ \A s \in Sockets : opt[s] \in Options[s]
  /\ bus = [s \in Sockets |-> <<>>]
  /\ tx = [s \in Sockets |-> [state |-> "idle", msg |-> Nobody, idx |-> 0, sn |-> 0, bs |-> 0,
                              fcbs |-> 0, gap |-> FALSE, timer |-> FALSE]]
  /\ rx = [s \in Sockets |-> [state |-> "idle", buf |-> <<>>, len |-> 0, sn |-> 0, bs |-> 0,
                              wait |-> 0, timer |-> FALSE]]
  /\ txQueue = [s \in Sockets |-> <<>>] /\ rxQueue = [s \in Sockets |-> <<>>]
  /\ closed = {} /\ sent = [s \in Sockets |-> 0]
  /\ lost = 0 /\ foreign = 0 /\ failed = 0 /\ hasty = FALSE

Fault == lost + foreign + failed + Cardinality(closed) < MaxFaults

-----------------------------------------------------------------------------
(* The program that uses the sockets                                       *)

\* send() puts the message in a queue.
Send(s) ==
  /\ s \notin closed /\ FoldFunction(+, 0, sent) < MaxSent
  /\ sent' = [sent EXCEPT ![s] = @ + 1]
  /\ \E n \in Lengths : txQueue' = [txQueue EXCEPT ![s] = Append(@, <<sent'[s], n>>)]
  /\ UNCHANGED <<opt, bus, tx, rx, rxQueue, closed, lost, foreign, failed, hasty>>

\* close() lowers the flag that every callback tests, and cancels the timers.
Close(s) ==
  /\ s \in MayClose \ closed /\ Fault
  /\ closed' = closed \cup {s}
  /\ tx' = [tx EXCEPT ![s].timer = FALSE] /\ rx' = [rx EXCEPT ![s].timer = FALSE]
  /\ UNCHANGED <<opt, bus, txQueue, rxQueue, sent, lost, foreign, failed, hasty>>

-----------------------------------------------------------------------------
(* Sending                                                                 *)

Put(s, frames) == bus' = [bus EXCEPT ![Peer[s]] = @ \o frames]

Raises == Fault /\ failed' = failed + 1

\* What a callback on s leaves alone.
Others == UNCHANGED <<opt, closed, sent, lost, foreign>>

\* _send() and begin_send().  If can_send() raises, a first frame leaves the
\* state that was set before it, without a timer.
BeginSend(s) ==
  /\ s \notin closed /\ tx[s].state = "idle" /\ txQueue[s] # <<>>
  /\ LET m == Head(txQueue[s])
     IN  \/ /\ Put(s, <<IF m[2] = 1 THEN Sf(m) ELSE Ff(m)>>)
            /\ tx' = IF m[2] = 1 THEN tx
                     ELSE [tx EXCEPT ![s].state = "wait_first_fc", ![s].msg = m, ![s].idx = 1,
                                     ![s].sn = 1, ![s].bs = 0, ![s].timer = TRUE]
            /\ UNCHANGED failed
         \/ /\ Raises
            /\ tx' = IF m[2] = 1 THEN tx ELSE [tx EXCEPT ![s].state = "sending"]
            /\ UNCHANGED bus
  /\ txQueue' = [txQueue EXCEPT ![s] = Tail(@)]
  /\ UNCHANGED <<rx, rxQueue, hasty>> /\ Others

\* Consecutive frames until the message, its block or one frame is sent.
BurstLength(s) ==
  LET t == tx[s]
      rest == t.msg[2] - t.idx
      block == IF t.fcbs = 0 THEN rest ELSE t.fcbs - t.bs
  IN  IF t.gap THEN 1 ELSE IF rest < block THEN rest ELSE block

Burst(s, n) ==
  [i \in 1..n |-> Cf(tx[s].msg, tx[s].idx + i, (tx[s].sn + i - 1) % SnMod)]

\* Mutant: the sequence number does not wrap.
AdvancedFar(s, n) == [tx[s] EXCEPT !.idx = @ + n, !.sn = @ + n, !.bs = @ + n, !.timer = FALSE]

\* tx after n of them.
Advanced(s, n) ==
  [tx[s] EXCEPT !.idx = @ + n, !.sn = (@ + n) % SnMod, !.bs = @ + n, !.timer = FALSE]

\* _tx_timer_handler() when the separation time is over.
SendFrames(s) ==
  /\ s \notin closed /\ tx[s].timer /\ tx[s].state = "sending"
  /\ LET n == BurstLength(s)
         t == Advanced(s, n)
     IN  \/ /\ Put(s, Burst(s, n))
            /\ tx' = [tx EXCEPT ![s] =
                        IF t.idx >= t.msg[2] THEN [t EXCEPT !.state = "idle"]
                        ELSE IF t.fcbs # 0 /\ t.bs >= t.fcbs
                             THEN [t EXCEPT !.state = "wait_fc", !.timer = TRUE]
                             ELSE [t EXCEPT !.timer = TRUE]]
            /\ UNCHANGED failed
         \/ \E k \in 0..n - 1 :
              /\ Raises
              /\ Put(s, Burst(s, k))
              /\ tx' = [tx EXCEPT ![s] = Advanced(s, k)]
  /\ UNCHANGED <<rx, txQueue, rxQueue, hasty>> /\ Others

\* The frames a timeout of s may overtake: flow control on its way to s, or
\* what the peer has still to read, in order to answer or to receive.
OnTheWay(s) == bus[s] # <<>> \/ bus[Peer[s]] # <<>>

\* Mutant: only the wait for the first flow control frame is given up.
TxTimeoutFirst(s) ==
  /\ s \notin closed /\ tx[s].timer /\ tx[s].state = "wait_first_fc"
  /\ tx' = [tx EXCEPT ![s].state = "idle", ![s].timer = FALSE]
  /\ hasty' = (hasty \/ OnTheWay(s))
  /\ UNCHANGED <<bus, rx, txQueue, rxQueue, failed>> /\ Others

\* _tx_timer_handler() when no flow control frame has come.
TxTimeout(s) ==
  /\ s \notin closed /\ tx[s].timer /\ tx[s].state \in {"wait_first_fc", "wait_fc"}
  /\ tx' = [tx EXCEPT ![s].state = "idle", ![s].timer = FALSE]
  /\ hasty' = (hasty \/ OnTheWay(s))
  /\ UNCHANGED <<bus, rx, txQueue, rxQueue, failed>> /\ Others

-----------------------------------------------------------------------------
(* Receiving                                                               *)

\* can_recv() and on_recv(): the next frame.
Receive(s, pci) ==
  /\ s \notin closed /\ bus[s] # <<>> /\ Head(bus[s]).pci = pci
  /\ UNCHANGED <<txQueue, hasty>> /\ Others

Consume(s) == bus' = [bus EXCEPT ![s] = Tail(@)]
ConsumeAndPut(s, frame) ==
  bus' = [bus EXCEPT ![s] = Tail(@), ![Peer[s]] = Append(@, frame)]

\* Mutant: no timer is started when the peer says wait.
RecvFcWaiting(s) ==
  /\ Receive(s, "FC")
  /\ LET f == Head(bus[s])
         t == [tx[s] EXCEPT !.gap = f.gap, !.timer = FALSE,
                            !.fcbs = IF tx[s].state = "wait_first_fc" THEN f.bs ELSE @]
     IN  tx' = [tx EXCEPT ![s] =
                  IF @.state \notin {"wait_first_fc", "wait_fc"} THEN @
                  ELSE CASE f.flow = "cts" ->
                                [t EXCEPT !.state = "sending", !.bs = 0, !.timer = TRUE]
                         [] f.flow = "wt" -> [t EXCEPT !.state = "wait_fc"]
                         [] f.flow = "ovflw" -> [t EXCEPT !.state = "idle"]]
  /\ Consume(s)
  /\ UNCHANGED <<rx, rxQueue, failed>>

\* The block size is taken from the answer to the first frame.  A frame that
\* says wait, too, is such an answer.
RecvFc(s) ==
  /\ Receive(s, "FC")
  /\ LET f == Head(bus[s])
         t == [tx[s] EXCEPT !.gap = f.gap, !.timer = FALSE,
                            !.fcbs = IF tx[s].state = "wait_first_fc" THEN f.bs ELSE @]
     IN  tx' = [tx EXCEPT ![s] =
                  IF @.state \notin {"wait_first_fc", "wait_fc"} THEN @
                  ELSE CASE f.flow = "cts" ->
                                [t EXCEPT !.state = "sending", !.bs = 0, !.timer = TRUE]
                         [] f.flow = "wt" -> [t EXCEPT !.state = "wait_fc", !.timer = TRUE]
                         [] f.flow = "ovflw" -> [t EXCEPT !.state = "idle"]]
  /\ Consume(s)
  /\ UNCHANGED <<rx, rxQueue, failed>>

Deliver(s, pieces) == rxQueue' = [rxQueue EXCEPT ![s] = Append(@, pieces)]

RecvSf(s) ==
  /\ Receive(s, "SF")
  /\ rx' = [rx EXCEPT ![s].state = "idle", ![s].timer = FALSE]
  /\ Deliver(s, <<Head(bus[s]).piece>>)
  /\ Consume(s)
  /\ UNCHANGED <<tx, failed>>

\* Mutant: what was received of an earlier message stays in the buffer.
RecvFfAppending(s) ==
  /\ Receive(s, "FF")
  /\ LET f == Head(bus[s])
         r == [rx[s] EXCEPT !.state = "wait_data", !.buf = Append(@, f.piece), !.len = f.len,
                            !.sn = 1, !.wait = 0]
     IN  \/ /\ IF opt[s].listen THEN Consume(s) ELSE ConsumeAndPut(s, Fc("cts", opt[s]))
            /\ rx' = [rx EXCEPT ![s] = [r EXCEPT !.bs = 0, !.timer = TRUE]]
            /\ UNCHANGED failed
         \/ /\ ~opt[s].listen /\ Raises
            /\ rx' = [rx EXCEPT ![s] = [r EXCEPT !.timer = FALSE]]
            /\ Consume(s)
  /\ UNCHANGED <<tx, rxQueue>>

\* A flow control frame that cannot be sent leaves the reception without a
\* timer.
RecvFf(s) ==
  /\ Receive(s, "FF")
  /\ LET f == Head(bus[s])
         r == [rx[s] EXCEPT !.state = "wait_data", !.buf = <<f.piece>>, !.len = f.len, !.sn = 1,
                            !.wait = 0]
     IN  \/ /\ IF opt[s].listen THEN Consume(s) ELSE ConsumeAndPut(s, Fc("cts", opt[s]))
            /\ rx' = [rx EXCEPT ![s] = [r EXCEPT !.bs = 0, !.timer = TRUE]]
            /\ UNCHANGED failed
         \/ /\ ~opt[s].listen /\ Raises
            /\ rx' = [rx EXCEPT ![s] = [r EXCEPT !.timer = FALSE]]
            /\ Consume(s)
  /\ UNCHANGED <<tx, rxQueue>>

\* A consecutive frame of another size than the first is not taken, but the
\* timer is gone.
CfDropped(s) ==
  /\ Receive(s, "CF")
  /\ LET f == Head(bus[s])
     IN  \/ rx[s].state = "idle" /\ UNCHANGED rx
         \/ /\ rx[s].state = "wait_data" /\ f.odd
            /\ rx' = [rx EXCEPT ![s].timer = FALSE]
         \/ /\ rx[s].state = "wait_data" /\ ~f.odd /\ f.sn # rx[s].sn
            /\ rx' = [rx EXCEPT ![s].timer = FALSE, ![s].state = "idle"]
  /\ Consume(s)
  /\ UNCHANGED <<tx, rxQueue, failed>>

\* Mutant: one frame too late.
BlockEndsLate(s) == opt[s].bs # 0 /\ rx[s].bs + 1 > opt[s].bs /\ ~opt[s].listen

\* The block this frame belongs to is complete with it.
BlockEnds(s) == opt[s].bs # 0 /\ rx[s].bs + 1 >= opt[s].bs /\ ~opt[s].listen

RecvCf(s) ==
  /\ Receive(s, "CF")
  /\ \E w \in {rx[s].wait, rx[s].wait + 1} \cap 0..RxPatience - 1 :
     LET f == Head(bus[s])
         b == Append(rx[s].buf, f.piece)
         r == [rx[s] EXCEPT !.buf = b, !.sn = (@ + 1) % SnMod, !.wait = w, !.timer = TRUE]
         block == BlockEnds(s)
     IN  /\ rx[s].state = "wait_data" /\ ~f.odd /\ f.sn = rx[s].sn
         /\ \/ /\ Len(b) >= rx[s].len
               /\ rx' = [rx EXCEPT ![s] = [r EXCEPT !.buf = <<>>, !.state = "idle",
                                                    !.timer = FALSE]]
               /\ Deliver(s, b)
               /\ Consume(s) /\ UNCHANGED failed
            \/ /\ Len(b) < rx[s].len /\ ~block
               /\ rx' = [rx EXCEPT ![s] = IF opt[s].bs = 0 THEN r ELSE [r EXCEPT !.bs = r.bs + 1]]
               /\ Consume(s) /\ UNCHANGED <<rxQueue, failed>>
            \/ /\ Len(b) < rx[s].len /\ block
               /\ rx' = [rx EXCEPT ![s] = [r EXCEPT !.bs = 0]]
               /\ ConsumeAndPut(s, Fc("cts", opt[s])) /\ UNCHANGED <<rxQueue, failed>>
            \/ /\ Len(b) < rx[s].len /\ block /\ Raises
               /\ rx' = [rx EXCEPT ![s] = [r EXCEPT !.bs = 0, !.timer = FALSE]]
               /\ Consume(s) /\ UNCHANGED rxQueue
  /\ UNCHANGED tx

\* _rx_timer_handler() waits on until 10 times cf_timeout have passed since
\* the first frame.
RxTimer(s) ==
  /\ s \notin closed /\ rx[s].timer
  /\ rx' = [rx EXCEPT ![s] = IF @.wait + 1 < RxPatience
                             THEN [@ EXCEPT !.wait = rx[s].wait + 1]
                             ELSE [@ EXCEPT !.state = "idle", !.timer = FALSE]]
  /\ hasty' = (hasty \/ OnTheWay(s) \/ tx[Peer[s]].state # "idle")
  /\ UNCHANGED <<bus, tx, txQueue, rxQueue, failed>> /\ Others

-----------------------------------------------------------------------------
(* The bus                                                                 *)

LoseFrame(s) ==
  /\ bus[s] # <<>> /\ Fault
  /\ lost' = lost + 1
  /\ Consume(s)
  /\ UNCHANGED <<opt, tx, rx, txQueue, rxQueue, closed, sent, foreign, failed, hasty>>

\* A flow control frame of another node, or of a peer that is not this program,
\* or a consecutive frame that such a peer does not pad.  Who has once said wait
\* may say so again and again (bound: to a socket that waits, with nothing else
\* on the bus).  Frames with the data of a second sender are left out: on a CAN
\* bus an identifier belongs to one node.
Foreign(s) ==
  /\ \/ /\ Fault
        /\ foreign' = foreign + 1
        /\ \E f \in {Fc("cts", opt[Peer[s]]), Fc("wt", opt[Peer[s]]), Fc("ovflw", opt[Peer[s]]),
                     [Cf(Nobody, 0, 0) EXCEPT !.odd = TRUE]} :
             bus' = [bus EXCEPT ![s] = Append(@, f)]
     \/ /\ foreign > 0 /\ tx[s].state = "wait_fc" /\ bus[s] = <<>>
        /\ bus' = [bus EXCEPT ![s] = Append(@, Fc("wt", opt[Peer[s]]))]
        /\ UNCHANGED foreign
  /\ UNCHANGED <<opt, tx, rx, txQueue, rxQueue, closed, sent, lost, failed, hasty>>

-----------------------------------------------------------------------------
Callback(s) ==
  \/ BeginSend(s) \/ SendFrames(s) \/ TxTimeout(s)
  \/ RecvFc(s) \/ RecvSf(s) \/ RecvFf(s) \/ CfDropped(s) \/ RecvCf(s) \/ RxTimer(s)

Next == \E s \in Sockets : Send(s) \/ Close(s) \/ Callback(s) \/ LoseFrame(s) \/ Foreign(s)

Spec == Init /\ [][Next]_vars

\* The scheduler runs the callbacks that are due: TimeoutScheduler promises it.
FairSpec == Spec /\ \A s \in Sockets : WF_vars(Callback(s))

-----------------------------------------------------------------------------
(* Properties                                                              *)

\* What recv() returns is a message the peer has sent, whole and unmixed - unless
\* a frame was lost and a transfer was given up before its answer came as well:
\* then the flow control frame of one message may let the frames of the next
\* loose on a reception of the first.  No message comes twice or before an
\* earlier one, come what may.
Integrity ==
  \A s \in Sockets :
    /\ lost = 0 \/ (foreign = 0 /\ ~hasty) =>
         \A i \in DOMAIN rxQueue[s] :
           LET m == rxQueue[s][i][1][1]
           IN  rxQueue[s][i] = Payload(m) /\ m[1] \in 1..sent[Peer[s]]
    /\ \A i, j \in DOMAIN rxQueue[s] : i < j => rxQueue[s][i][1][1][1] < rxQueue[s][j][1][1][1]

\* Who waits has a timer that ends the wait, be it for flow control, for the
\* separation time or for consecutive frames: but for an exception of
\* can_send(), and for a consecutive frame of the wrong size.
NeverUnattended ==
  \A s \in Sockets \ closed :
    /\ tx[s].state \in {"wait_first_fc", "wait_fc"} => tx[s].timer
    /\ tx[s].state = "sending" => tx[s].timer \/ failed > 0
    /\ rx[s].state = "wait_data" => rx[s].timer \/ failed > 0 \/ foreign > 0

ToldToWait(s) == \E i \in DOMAIN bus[s] : bus[s][i].pci = "FC" /\ bus[s][i].flow = "wt"

\* A socket gets to the end of its queue if it is not closed and can_send() does
\* not raise, whatever the peer and the bus do - but say wait again and again: no
\* limit is set to the frames that do, and a peer that says wait once a second
\* holds the queue for ever.
QueueEmptied ==
  \A s \in Sockets :
    <>[]~ToldToWait(s) =>
      (txQueue[s] # <<>>
        ~> (txQueue[s] = <<>> /\ tx[s].state = "idle") \/ s \in closed \/ failed > 0)

Disturbed == lost > 0 \/ foreign > 0 \/ failed > 0 \/ hasty \/ closed # {}

\* If nothing is lost and no timer outruns a frame, every message arrives at a
\* peer that answers with flow control frames.
Delivered ==
  \A s \in Sockets :
    sent[s] > 0 /\ ~opt[Peer[s]].listen ~> Disturbed \/ Len(rxQueue[Peer[s]]) = sent[s]

=============================================================================
