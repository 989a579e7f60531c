------------------------------- MODULE SndRcv -------------------------------
(***************************************************************************)
(* scapy/sendrecv.py, class SndRcvHandler: sr(), srp() and sr1() send the  *)
(* requests in one thread, receive in another with an AsyncSniffer, match  *)
(* answers to requests, and do it again for what stays unanswered.         *)
(*                                                                         *)
(* The receiving side is the thread that called sndrcv(): it runs the      *)
(* capture loop (reduced to what stop() and the time limit do to it, see   *)
(* AsyncSniffer) and, through prn, _process_packet.  The two threads share *)
(* hsent, noans, notans, _send_done, breakout and the sniffer's flags.     *)
(*                                                                         *)
(* A packet is reduced to its kind: what hashret() and answers() compare.  *)
(* Requests of one kind are told apart by nothing but their position.      *)
(***************************************************************************)
EXTENDS Naturals, Sequences, FiniteSets

CONSTANTS
  Options,        \* the arguments of the calls
  MaxReplies,     \* bound: replies to one transmission
  MaxTrouble      \* bound: packets that answer nothing and calls of send() that raise

\* kinds: what the answers to each request look like; retry: its absolute
\* value, negative if it is.
CallOptions ==
  [kinds : Seq(Nat) \ {<<>>}, timeout : BOOLEAN, threaded : BOOLEAN, multi : BOOLEAN,
   first : BOOLEAN, stopFilter : BOOLEAN, chainEX : BOOLEAN, retry : Nat,
   negative : BOOLEAN]

ASSUME ConstantsAssumption ==
  /\ Options \subseteq CallOptions
  /\ {MaxReplies, MaxTrouble} \subseteq Nat

VARIABLES
  opt,        \* the arguments of the call
  \* attributes of the handler
  tobesent,   \* self.tobesent, as the set of its requests
  hsent,      \* the requests listed in self.hsent
  ans,        \* how many answers self.ans holds for each request
  noans, notans, sendDone, breakout,
  retry,      \* the local variable of the loop over the rounds
  unans,      \* the local variable remain
  \* the sniffer of the round
  running, contSniff, pipeByte,
  \* the sending thread
  spc, unsent, cur, i,
  raising,    \* an exception of send() is to be raised again
  lastStop,   \* the stop() under way is the one after the timeout
  \* the receiving thread
  rpc, expired,
  \* the network
  owed,       \* replies that may still come, per kind
  pending,    \* packets that wait in the receiving socket, per kind
  strays,     \* packets that answer nothing and wait in the socket
  strayed,    \* how many of them there have been
  failures,   \* how many calls of send() have raised
  \* history
  sentNow,    \* the requests transmitted in this round
  why,        \* what ended the capture of this round
  rounds,     \* rounds so far
  before,     \* the requests that had an answer when this round began
  fruitless   \* the last so many rounds brought no answer

handler == <<tobesent, hsent, ans, noans, notans, sendDone, breakout, retry, unans>>
sniffer == <<opt, running, contSniff, pipeByte>>
sender  == <<spc, unsent, cur, i, raising, lastStop>>
network == <<owed, pending, strays, strayed, failures>>
history == <<sentNow, why, rounds, before, fruitless>>
vars == <<handler, sniffer, sender, rpc, expired, network, history>>

SenderAt == {"none", "next", "send", "sent", "count", "done", "check", "stop?",
             "stop", "wait?", "wait", "ended", "crashed"}
Gone == {"none", "ended", "crashed"}
ReceiverAt == {"round", "sending", "loop", "select", "recv", "after", "finish",
               "break", "tally", "returned", "raised"}
\* The capture of the round is under way.
Capturing == {"sending", "loop", "select", "recv", "after", "finish"}

\* The requests, by their position, and the kinds of packets that answer them.
Requests == DOMAIN opt.kinds
Kinds == {opt.kinds[p] : p \in Requests}
Answered == {p \in Requests : ans[p] > 0}

TypeOK ==
  /\ opt \in Options
  /\ tobesent \subseteq Requests /\ hsent \subseteq Requests
  /\ unans \subseteq Requests /\ unsent \subseteq Requests
  /\ sentNow \subseteq Requests /\ before \subseteq Requests
  /\ ans \in [Requests -> Nat]
  /\ noans \in 0..Len(opt.kinds) /\ notans \in 0..Len(opt.kinds) /\ i \in 0..Len(opt.kinds) /\ cur \in 0..Len(opt.kinds)
  /\ {sendDone, breakout, running, contSniff, pipeByte, raising, lastStop, expired}
       \subseteq BOOLEAN
  /\ retry \in 0..opt.retry
  /\ spc \in SenderAt /\ rpc \in ReceiverAt
  /\ owed \in [Kinds -> Nat] /\ pending \in [Kinds -> Nat]
  /\ strays \in 0..strayed /\ strayed \in Nat /\ failures \in Nat
  /\ strayed + failures <= MaxTrouble
  /\ why \in {"", "done", "first", "timeout", "filter"}
  /\ rounds \in Nat /\ fruitless \in Nat

Init ==
  /\ opt \in Options
  /\ tobesent = Requests /\ hsent = {} /\ ans = [p \in Requests |-> 0]
  /\ noans = 0 /\ notans = 0 /\ sendDone = FALSE /\ breakout = FALSE
  /\ retry = opt.retry /\ unans = {}
  /\ running = FALSE /\ contSniff = FALSE /\ pipeByte = FALSE
  /\ spc = "none" /\ unsent = {} /\ cur = 0 /\ i = 0
  /\ raising = FALSE /\ lastStop = FALSE
  /\ rpc = "round" /\ expired = FALSE
  /\ owed = [k \in Kinds |-> 0] /\ pending = [k \in Kinds |-> 0]
  /\ strays = 0 /\ strayed = 0 /\ failures = 0
  /\ sentNow = {} /\ why = "" /\ rounds = 0 /\ before = {} /\ fruitless = 0

-----------------------------------------------------------------------------
(* The sending thread: _sndrcv_snd()                                       *)

Twins(p) == {q \in Requests : opt.kinds[q] = opt.kinds[p]}
Least(S) == CHOOSE p \in S : \A q \in S : p <= q

\* The next request is listed in hsent before it is sent.  Requests of one
\* kind keep their order in every round; that of the kinds is left open.
NextRequest ==
  /\ spc = "next" /\ unsent # {}
  /\ \E p \in unsent :
       /\ p = Least(unsent \cap Twins(p))
       /\ hsent' = hsent \cup {p}
       /\ unsent' = unsent \ {p}
       /\ cur' = p
  /\ spc' = "send"
  /\ UNCHANGED <<tobesent, ans, noans, notans, sendDone, breakout, retry, unans,
                 sniffer, i, raising, lastStop, rpc, expired, network, history>>

SendOK ==
  /\ spc = "send"
  /\ owed' = [owed EXCEPT ![opt.kinds[cur]] = @ + MaxReplies]
  /\ sentNow' = sentNow \cup {cur}
  /\ spc' = "sent"
  /\ UNCHANGED <<handler, sniffer, unsent, cur, i, raising, lastStop, rpc, expired,
                 pending, strays, strayed, failures, why, rounds, before, fruitless>>

\* send() raises: the loop over the requests is left, for good.
SendFails ==
  /\ spc = "send" /\ strayed + failures < MaxTrouble
  /\ failures' = failures + 1
  /\ raising' = opt.chainEX
  /\ spc' = "count"
  /\ UNCHANGED <<handler, sniffer, unsent, cur, i, lastStop, rpc, expired,
                 owed, pending, strays, strayed, history>>

\* After the pause: the receiver may have told the sender to give up.  Then
\* this request, though sent, is not counted.
AfterSend ==
  /\ spc = "sent"
  /\ IF breakout THEN spc' = "count" /\ UNCHANGED i
                 ELSE spc' = "next" /\ i' = i + 1
  /\ UNCHANGED <<handler, sniffer, unsent, cur, raising, lastStop, rpc, expired,
                 network, history>>

AllSent ==
  /\ spc = "next" /\ unsent = {}
  /\ spc' = "count"
  /\ UNCHANGED <<handler, sniffer, unsent, cur, i, raising, lastStop, rpc, expired,
                 network, history>>

\* Mutant: the flag is raised before the number of requests is known.
CountRequestsLate ==
  /\ spc = "count"
  /\ sendDone' = TRUE
  /\ spc' = "done"
  /\ UNCHANGED <<tobesent, hsent, ans, noans, notans, breakout, retry, unans, sniffer,
                 unsent, cur, i, raising, lastStop, rpc, expired, network, history>>

\* finally: the number of requests sent is kept, by the first round only.
CountRequests ==
  /\ spc = "count"
  /\ notans' = IF sendDone THEN notans ELSE i
  /\ spc' = "done"
  /\ UNCHANGED <<tobesent, hsent, ans, noans, sendDone, breakout, retry, unans, sniffer,
                 unsent, cur, i, raising, lastStop, rpc, expired, network, history>>

\* ... then _send_done is raised.  An exception to be forwarded ends the
\* thread here, or the whole call when the requests are not sent in a thread.
RaiseSendDone ==
  /\ spc = "done"
  /\ sendDone' = TRUE
  /\ spc' = IF raising THEN "crashed" ELSE "check"
  /\ rpc' = IF raising /\ ~opt.threaded THEN "raised" ELSE rpc
  /\ UNCHANGED <<tobesent, hsent, ans, noans, notans, breakout, retry, unans, sniffer,
                 unsent, cur, i, raising, lastStop, expired, network, history>>

\* _stop_sniffer_if_done: all expected answers have been received.
IsDone == sendDone /\ noans >= notans /\ ~opt.multi
IsFirst == opt.first /\ noans > 0

\* Mutant: the sender leaves it to the receiver to notice the end.
CheckDoneBlind ==
  /\ spc = "check"
  /\ spc' = "wait?"
  /\ lastStop' = FALSE
  /\ UNCHANGED <<handler, sniffer, unsent, cur, i, raising, rpc, expired, network, history>>

CheckDone ==
  /\ spc = "check"
  /\ spc' = IF IsDone \/ IsFirst THEN "stop?" ELSE "wait?"
  /\ lastStop' = FALSE
  /\ UNCHANGED <<handler, sniffer, unsent, cur, i, raising, rpc, expired, network, history>>

\* `if self.sniffer.running` and the test of running in stop() are two reads.
LookRunning ==
  /\ spc = "stop?"
  /\ spc' = IF running THEN "stop" ELSE IF lastStop THEN "ended" ELSE "wait?"
  /\ UNCHANGED <<handler, sniffer, unsent, cur, i, raising, lastStop, rpc, expired,
                 network, history>>

Reason == IF lastStop THEN "timeout" ELSE IF IsDone THEN "done" ELSE "first"

\* AsyncSniffer.stop(): raises in the sending thread when the capture ended
\* in between, else lowers continue_sniff and wakes select().
StopSniffer ==
  /\ spc = "stop"
  /\ IF running
       THEN /\ contSniff' = FALSE /\ pipeByte' = TRUE
            /\ why' = IF contSniff THEN Reason ELSE why
            /\ spc' = IF lastStop THEN "ended" ELSE "wait?"
       ELSE spc' = "crashed" /\ UNCHANGED <<contSniff, pipeByte, why>>
  /\ UNCHANGED <<handler, opt, running, unsent, cur, i, raising, lastStop, rpc, expired,
                 network,
                 sentNow, rounds, before, fruitless>>

\* In threaded mode the sending thread is the timer of the round.
BeginWait ==
  /\ spc = "wait?"
  /\ spc' = IF opt.threaded /\ opt.timeout /\ ~breakout THEN "wait" ELSE "ended"
  /\ UNCHANGED <<handler, sniffer, unsent, cur, i, raising, lastStop, rpc, expired,
                 network, history>>

\* Mutant: the timer ends without stopping the sniffer.
EndWaitQuietly ==
  /\ spc = "wait"
  /\ spc' = "ended"
  /\ lastStop' = TRUE
  /\ UNCHANGED <<handler, sniffer, unsent, cur, i, raising, rpc, expired, network, history>>

\* breakout.wait(timeout) returns: breakout has been set, or the time is over.
EndWait ==
  /\ spc = "wait"
  /\ spc' = "stop?"
  /\ lastStop' = TRUE
  /\ UNCHANGED <<handler, sniffer, unsent, cur, i, raising, rpc, expired, network, history>>

Sender ==
  \/ NextRequest \/ SendOK \/ SendFails \/ AfterSend \/ AllSent \/ CountRequests
  \/ RaiseSendDone \/ CheckDone \/ LookRunning \/ StopSniffer \/ BeginWait \/ EndWait

-----------------------------------------------------------------------------
(* The receiving thread: the rounds, _sndrcv_rcv() and _process_packet()    *)

\* A round begins: breakout is cleared, hsent is new, the sniffer is armed
\* and its started_callback starts the sending thread, or does the sending.
BeginRound ==
  /\ rpc = "round"
  /\ breakout' = FALSE /\ hsent' = {}
  /\ running' = TRUE /\ contSniff' = TRUE /\ pipeByte' = FALSE
  /\ spc' = "next" /\ unsent' = tobesent /\ i' = 0 /\ cur' = 0
  /\ raising' = FALSE /\ lastStop' = FALSE
  /\ rpc' = IF opt.threaded THEN "loop" ELSE "sending"
  /\ expired' = FALSE
  /\ sentNow' = {} /\ why' = "" /\ rounds' = rounds + 1
  /\ before' = Answered
  /\ UNCHANGED <<opt, tobesent, ans, noans, notans, sendDone, retry, unans, network,
                 fruitless>>

\* Not threaded: the capture starts when everything has been sent.
CallbackReturns ==
  /\ rpc = "sending" /\ spc = "ended"
  /\ rpc' = "loop"
  /\ UNCHANGED <<handler, sniffer, sender, expired, network, history>>

\* The time limit of the sniffer, which only an unthreaded call sets.
Expire ==
  /\ ~opt.threaded /\ opt.timeout /\ rpc \in {"loop", "select"} /\ ~expired
  /\ expired' = TRUE
  /\ UNCHANGED <<handler, sniffer, sender, rpc, network, history>>

LoopTest ==
  /\ rpc = "loop"
  /\ rpc' = IF contSniff /\ ~expired THEN "select" ELSE "finish"
  /\ why' = IF contSniff /\ expired THEN "timeout" ELSE why
  /\ UNCHANGED <<handler, sniffer, sender, expired, network,
                 sentNow, rounds, before, fruitless>>

Arrived == strays > 0 \/ \E k \in Kinds : pending[k] > 0

Select ==
  /\ rpc = "select"
  /\ Arrived \/ pipeByte \/ expired
  /\ rpc' = IF Arrived THEN "recv" ELSE "loop"
  /\ UNCHANGED <<handler, sniffer, sender, expired, network, history>>

\* Mutant: an answered request stays in hsent.
MatchKeeping(p) ==
  /\ ans' = [ans EXCEPT ![p] = @ + 1]
  /\ hsent' = hsent
  /\ noans' = IF opt.multi /\ ans[p] > 0 THEN noans ELSE noans + 1

\* Mutant: with multi, every answer is counted.
MatchCountingAll(p) ==
  /\ ans' = [ans EXCEPT ![p] = @ + 1]
  /\ hsent' = IF opt.multi THEN hsent ELSE hsent \ {p}
  /\ noans' = noans + 1

\* The answer is listed; with multi the request may be answered again.
Match(p) ==
  /\ ans' = [ans EXCEPT ![p] = @ + 1]
  /\ hsent' = IF opt.multi THEN hsent ELSE hsent \ {p}
  /\ noans' = IF opt.multi /\ ans[p] > 0 THEN noans ELSE noans + 1

\* A packet of kind k is read: it answers the first request of its kind that
\* is listed, if there is one.
RecvReply(k) ==
  /\ rpc = "recv" /\ pending[k] > 0
  /\ pending' = [pending EXCEPT ![k] = @ - 1]
  /\ LET listed == {p \in hsent : opt.kinds[p] = k} IN
       IF listed = {} THEN UNCHANGED <<ans, hsent, noans>> ELSE Match(Least(listed))
  /\ rpc' = "after"
  /\ UNCHANGED <<tobesent, notans, sendDone, breakout, retry, unans, sniffer, sender,
                 expired, owed, strays, strayed, failures, history>>

RecvStray ==
  /\ rpc = "recv" /\ strays > 0
  /\ strays' = strays - 1
  /\ rpc' = "after"
  /\ UNCHANGED <<handler, sniffer, sender, expired, owed, pending, strayed, failures,
                 history>>

\* After each packet: _stop_sniffer_if_done, then the stop filter of the sniffer.
AfterPacket ==
  /\ rpc = "after"
  /\ \E filtered \in {FALSE, opt.stopFilter} :
       LET done == IsDone \/ IsFirst IN
         /\ contSniff' = (contSniff /\ ~done /\ ~filtered)
         /\ pipeByte' = (pipeByte \/ done)
         /\ why' = CASE ~contSniff -> why
                     [] contSniff /\ IsDone -> "done"
                     [] contSniff /\ ~IsDone /\ IsFirst -> "first"
                     [] contSniff /\ ~done /\ filtered -> "filter"
                     [] OTHER -> why
  /\ rpc' = "loop"
  /\ UNCHANGED <<handler, opt, running, sender, expired, network,
                 sentNow, rounds, before, fruitless>>

LowerRunning ==
  /\ rpc = "finish"
  /\ running' = FALSE
  /\ rpc' = "break"
  /\ UNCHANGED <<handler, opt, contSniff, pipeByte, sender, expired, network, history>>

SetBreakout ==
  /\ rpc = "break"
  /\ breakout' = opt.threaded
  /\ rpc' = "tally"
  /\ UNCHANGED <<tobesent, hsent, ans, noans, notans, sendDone, retry, unans, sniffer,
                 sender, expired, network, history>>

\* Mutant: a positive retry, too, starts counting again.
RetriesLeftDespite(remain) ==
  IF remain # {} /\ Cardinality(remain) # Cardinality(tobesent) THEN opt.retry ELSE retry

\* A negative retry starts counting again when a round brought an answer.
RetriesLeft(remain) ==
  IF opt.negative /\ remain # {} /\ Cardinality(remain) # Cardinality(tobesent)
    THEN opt.retry ELSE retry

\* Mutant: with multi, too, what hsent lists is unanswered.
RemainListed == hsent

Remain == IF opt.multi THEN hsent \ Answered ELSE hsent

\* The sender has been joined: what is listed and unanswered is sent again.
Tally ==
  /\ rpc = "tally" /\ spc \in Gone
  /\ unans' = Remain
  /\ tobesent' = Remain
  /\ fruitless' = IF Answered = before THEN fruitless + 1 ELSE 0
  /\ IF Remain = {} \/ RetriesLeft(Remain) = 0
       THEN rpc' = "returned" /\ UNCHANGED retry
       ELSE rpc' = "round" /\ retry' = RetriesLeft(Remain) - 1
  /\ UNCHANGED <<hsent, ans, noans, notans, sendDone, breakout, sniffer, sender, expired,
                 network, sentNow, why, rounds, before>>

Receiver ==
  \/ BeginRound \/ CallbackReturns \/ LoopTest \/ Select
  \/ \E k \in Kinds : RecvReply(k)
  \/ RecvStray \/ AfterPacket \/ LowerRunning \/ SetBreakout \/ Tally

-----------------------------------------------------------------------------
(* The network: replies come late, more than once, or never.               *)

Deliver(k) ==
  /\ owed[k] > 0 /\ rpc \notin {"returned", "raised"}
  /\ owed' = [owed EXCEPT ![k] = @ - 1]
  /\ pending' = [pending EXCEPT ![k] = @ + 1]
  /\ UNCHANGED <<handler, sniffer, sender, rpc, expired, strays, strayed, failures, history>>

DeliverStray ==
  /\ strayed + failures < MaxTrouble /\ rpc \notin {"returned", "raised"}
  /\ strays' = strays + 1 /\ strayed' = strayed + 1
  /\ UNCHANGED <<handler, sniffer, sender, rpc, expired, owed, pending, failures, history>>

Next ==
  \/ Sender \/ Receiver \/ Expire
  \/ \E k \in Kinds : Deliver(k)
  \/ DeliverStray

Spec == Init /\ [][Next]_vars

\* Both threads run and the clock advances; nobody has to reply.
FairSpec == Spec /\ WF_vars(Sender) /\ WF_vars(Receiver) /\ WF_vars(Expire)

-----------------------------------------------------------------------------
(* Properties                                                              *)

\* However late or often a reply comes, and in whatever round, a request is
\* answered at most once unless multi is given.
AnsweredOnce == ~opt.multi => \A p \in Requests : ans[p] <= 1

\* noans counts the requests that have an answer, over all rounds: the test
\* for the end relies on it.
AnswersCounted == noans = Cardinality(Answered)

\* What the docstring of _stop_sniffer_if_done says ("Close the sniffer if all
\* expected answers have been received"): a round that ended for this reason
\* leaves no request it has transmitted without an answer.
DoneMeansAnswered == why = "done" => sentNow \subseteq Answered

\* Nothing ends a round before all the requests have been sent.
Undisturbed == failures = 0 /\ ~opt.first /\ ~opt.stopFilter

\* The code keeps to it as long as no round was cut short while it was sending:
\* notans is that of the first round.
DoneWhenUndisturbed == Undisturbed => DoneMeansAnswered

\* The two lists sndrcv() returns are disjoint and, unless a round ended before
\* everything was sent, complete: what has no answer is listed as unanswered.
AllAccounted ==
  rpc = "returned" =>
    /\ unans \cap Answered = {}
    /\ Undisturbed => unans = Requests \ Answered

\* usage.rst on retry: "If retry is 3, Scapy will try to resend unanswered
\* packets 3 times.  If retry is -3, Scapy will resend unanswered packets until
\* no more answer is given for the same set of unanswered packets 3 times in a
\* row."  No more than that, and no less while something is unanswered.
FruitlessLimit == IF Answered = {} THEN opt.retry + 1 ELSE opt.retry
RetriesAsDocumented ==
  /\ ~opt.negative => rounds <= opt.retry + 1
  /\ opt.negative /\ Undisturbed => fruitless <= FruitlessLimit
  /\ rpc = "returned" /\ unans # {} /\ Undisturbed =>
       IF opt.negative THEN fruitless = FruitlessLimit ELSE rounds = opt.retry + 1

\* When all requests are sent and answered the round ends, whichever of the
\* two threads comes last and even if there is no timeout: the receiver counts
\* and then looks at _send_done, the sender raises it and then looks at noans.
DoneEndsRound == (rpc \in Capturing /\ IsDone /\ ~raising) ~> (rpc \notin Capturing)

\* With a timeout the call returns, unless an exception of send() has ended the
\* sending thread, which is its timer.
CallReturns ==
  (opt.timeout /\ ~(opt.threaded /\ opt.chainEX)) ~> (rpc \in {"returned", "raised"})

=============================================================================
