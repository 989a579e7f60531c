---------------------------- MODULE SndRcvProofs ----------------------------
(***************************************************************************)
(* sndrcv() answers each request at most once and counts the answers, loses *)
(* none of them and repeats its rounds as documented, for any number of    *)
(* requests, any arguments, and replies that come late, twice or in another *)
(* round.                                                                  *)
(***************************************************************************)
EXTENDS SndRcv, Integers, FiniteSetTheorems, WellFoundedInduction, TLAPS

Places == 0..Len(opt.kinds)

SetsTyped ==
  /\ tobesent \subseteq Requests /\ hsent \subseteq Requests
  /\ unans \subseteq Requests /\ unsent \subseteq Requests
  /\ sentNow \subseteq Requests /\ before \subseteq Requests
  /\ ans \in [Requests -> Nat]

CountsTyped ==
  /\ noans \in Places /\ notans \in Places /\ i \in Places /\ cur \in Places
  /\ retry \in 0..opt.retry
  /\ strays \in 0..strayed /\ strayed \in Nat /\ failures \in Nat
  /\ strayed + failures <= MaxTrouble
  /\ rounds \in Nat /\ fruitless \in Nat

FlagsTyped ==
  /\ {sendDone, breakout, running, contSniff, pipeByte, raising, lastStop, expired}
       \subseteq BOOLEAN
  /\ spc \in SenderAt /\ rpc \in ReceiverAt
  /\ why \in {"", "done", "first", "timeout", "filter"}

NetworkTyped == owed \in [Kinds -> Nat] /\ pending \in [Kinds -> Nat]

\* What may still be matched has no answer: what is listed, what this round is
\* still to send, and what the next one will.  A request is listed once.
Fresh ==
  /\ hsent \cap unsent = {}
  /\ ~opt.multi =>
       \A p \in Requests :
         p \in hsent \/ p \in unsent \/ (p \in tobesent /\ rpc = "round") => ans[p] = 0

\* There are requests left for what the sender still has to count.
Sending == {"send", "sent"}
RoomToCount ==
  /\ spc \in Sending => i + Cardinality(unsent) < Len(opt.kinds)
  /\ i + Cardinality(unsent) <= Len(opt.kinds)
  /\ spc \in Sending => cur \in Requests

\* While the sender works there is a round.
Paired == rpc = "round" => spc \in Gone

AnswersInv == TypeOK /\ Fresh /\ RoomToCount /\ Paired /\ AnsweredOnce /\ AnswersCounted

-----------------------------------------------------------------------------
\* The natural numbers are well-founded.
LEMMA LeastNumber ==
  ASSUME NEW S \in SUBSET Nat, S # {}
  PROVE  \E m \in S : \A k \in S : m <= k
<1>1. PICK x \in S : \A y \in S : ~ (<<y, x>> \in OpToRel(<, Nat))
  BY NatLessThanWellFounded, WFMin
<1>2. \A y \in S : ~ (y < x)
  BY <1>1 DEF OpToRel
<1> QED
  BY <1>2

\* What the type invariant is made of.
LEMMA TypeParts ==
  TypeOK <=> opt \in Options /\ SetsTyped /\ CountsTyped /\ FlagsTyped /\ NetworkTyped
BY DEF TypeOK, SetsTyped, CountsTyped, FlagsTyped, NetworkTyped, Places

\* What the assumptions say of the arguments.
LEMMA ArgumentsTyped ==
  ASSUME opt \in Options
  PROVE  /\ opt.kinds \in Seq(Nat) /\ Requests = 1..Len(opt.kinds) /\ Len(opt.kinds) \in Nat
         /\ opt.retry \in Nat /\ MaxReplies \in Nat /\ MaxTrouble \in Nat
         /\ {opt.threaded, opt.multi, opt.first, opt.stopFilter, opt.chainEX} \subseteq BOOLEAN
         /\ \A p \in Requests : opt.kinds[p] \in Kinds
<1>1. opt \in CallOptions /\ {MaxReplies, MaxTrouble} \subseteq Nat
  BY ConstantsAssumption DEF ConstantsAssumption
<1>2. opt.kinds \in Seq(Nat) /\ opt.retry \in Nat
  BY <1>1 DEF CallOptions
<1>3. {opt.threaded, opt.multi, opt.first, opt.stopFilter, opt.chainEX} \subseteq BOOLEAN
  BY <1>1 DEF CallOptions
<1>4. Requests = 1..Len(opt.kinds) /\ Len(opt.kinds) \in Nat
  BY <1>2 DEF Requests
<1> QED
  BY <1>1, <1>2, <1>3, <1>4 DEF Kinds

\* Sets of requests are finite, and not larger than the number of requests.
LEMMA RequestSets ==
  ASSUME opt \in Options, NEW S \in SUBSET Requests
  PROVE  IsFiniteSet(S) /\ Cardinality(S) \in Nat /\ Cardinality(S) <= Len(opt.kinds)
<1>1. Requests = 1..Len(opt.kinds) /\ Len(opt.kinds) \in Nat
  BY ArgumentsTyped
<1>2. IsFiniteSet(Requests) /\ Cardinality(Requests) = Len(opt.kinds)
  <2>1. \A n \in Nat : IsFiniteSet(1..n) /\ Cardinality(1..n) = n
    BY FS_Interval
  <2> QED
    BY <1>1, <2>1
<1>3. IsFiniteSet(S) /\ Cardinality(S) <= Cardinality(Requests)
  BY <1>2, FS_Subset
<1> QED
  BY <1>2, <1>3, FS_CardinalityType

\* The arguments do not change.
LEMMA SameArguments == [Next]_vars => opt' = opt
BY DEF Next, Sender, Receiver, vars, handler, sniffer, sender, network, history,
   NextRequest, SendOK, SendFails, AfterSend, AllSent, CountRequests, RaiseSendDone, CheckDone,
   LookRunning, StopSniffer, BeginWait, EndWait, BeginRound, CallbackReturns, LoopTest, Select,
   RecvReply, RecvStray, AfterPacket, LowerRunning, SetBreakout, Tally, Expire, Deliver,
   DeliverStray

\* What a packet that answers does: one listed request more has an answer, or, with
\* multi, an answer more.
LEMMA MatchEffect ==
  ASSUME opt \in Options, SetsTyped, NEW k, RecvReply(k)
  PROVE  \/ UNCHANGED <<ans, hsent, noans>>
         \/ \E p \in hsent : Match(p)
<1> DEFINE listed == {p \in hsent : opt.kinds[p] = k}
<1>1. CASE listed = {}
  BY <1>1 DEF RecvReply
<1>2. CASE listed # {}
  <2>1. listed \in SUBSET Nat
    BY ArgumentsTyped DEF SetsTyped
  <2>2. Least(listed) \in listed
    BY <1>2, <2>1, LeastNumber DEF Least
  <2>3. Match(Least(listed))
    BY <1>2 DEF RecvReply
  <2> QED
    BY <2>2, <2>3
<1> QED
  BY <1>1, <1>2

-----------------------------------------------------------------------------
(* Every value keeps its type                                              *)

LEMMA SetsStep == TypeOK /\ RoomToCount /\ [Next]_vars => SetsTyped'
<1> SUFFICES ASSUME TypeOK, RoomToCount, [Next]_vars PROVE SetsTyped'
  OBVIOUS
<1>1. opt \in Options /\ SetsTyped /\ opt' = opt
  BY TypeParts, SameArguments
<1>2. Requests' = Requests
  BY <1>1 DEF Requests
<1> USE <1>1, <1>2 DEF SetsTyped, handler, sender, history
<1>3. CASE NextRequest \/ AfterSend \/ AllSent \/ SendFails \/ CountRequests \/ RaiseSendDone
  BY <1>3 DEF NextRequest, AfterSend, AllSent, SendFails, CountRequests, RaiseSendDone
<1>4. CASE SendOK
  BY <1>4 DEF SendOK, RoomToCount, Sending
<1>5. CASE CheckDone \/ LookRunning \/ StopSniffer \/ BeginWait \/ EndWait
  BY <1>5 DEF CheckDone, LookRunning, StopSniffer, BeginWait, EndWait
<1>6. CASE BeginRound
  BY <1>6 DEF BeginRound, Answered
<1>7. CASE CallbackReturns \/ LoopTest \/ Select \/ RecvStray \/ AfterPacket \/ LowerRunning \/ SetBreakout
  BY <1>7 DEF CallbackReturns, LoopTest, Select, RecvStray, AfterPacket, LowerRunning, SetBreakout
<1>8. ASSUME NEW k \in Kinds, RecvReply(k) PROVE SetsTyped'
  <2>1. UNCHANGED <<tobesent, unans, unsent, sentNow, before>>
    BY <1>8 DEF RecvReply
  <2>2. ans' \in [Requests -> Nat] /\ hsent' \subseteq Requests
    BY <1>8, MatchEffect DEF Match
  <2> QED
    BY <2>1, <2>2
<1>9. CASE Tally
  BY <1>9 DEF Tally, Remain
<1>10. CASE Expire \/ DeliverStray \/ (\E k \in Kinds : Deliver(k)) \/ UNCHANGED vars
  BY <1>10 DEF Expire, DeliverStray, Deliver, vars
<1> QED
  BY <1>3, <1>4, <1>5, <1>6, <1>7, <1>8, <1>9, <1>10 DEF Next, Sender, Receiver

\* The sender counts no more requests than there are.
LEMMA RoomStep == TypeOK /\ RoomToCount /\ Paired /\ [Next]_vars => RoomToCount'
<1> SUFFICES ASSUME TypeOK, RoomToCount, Paired, [Next]_vars PROVE RoomToCount'
  OBVIOUS
<1>1. /\ opt \in Options /\ SetsTyped /\ opt' = opt /\ Requests' = Requests
      /\ Len(opt.kinds) \in Nat /\ i \in 0..Len(opt.kinds)
  BY TypeParts, SameArguments, ArgumentsTyped DEF Requests, CountsTyped, Places
<1>2. IsFiniteSet(unsent) /\ Cardinality(unsent) \in Nat
  BY <1>1, RequestSets DEF SetsTyped
<1> USE <1>1, <1>2 DEF RoomToCount, Sending, handler, sender
<1>3. CASE NextRequest
  <2>1. PICK p \in unsent : unsent' = unsent \ {p} /\ cur' = p
    BY <1>3 DEF NextRequest
  <2>2. Cardinality(unsent') = Cardinality(unsent) - 1
    BY <2>1, FS_RemoveElement
  <2>3. i' = i /\ cur' \in Requests
    BY <1>3, <2>1 DEF NextRequest, SetsTyped
  <2> QED
    BY <2>2, <2>3
<1>4. CASE SendOK \/ SendFails \/ AfterSend \/ AllSent
  BY <1>4 DEF SendOK, SendFails, AfterSend, AllSent
<1>5. CASE CountRequests \/ RaiseSendDone \/ CheckDone \/ LookRunning \/ StopSniffer \/ BeginWait \/ EndWait
  BY <1>5 DEF CountRequests, RaiseSendDone, CheckDone, LookRunning, StopSniffer, BeginWait, EndWait
<1>6. CASE BeginRound
  <2>1. Cardinality(tobesent) \in Nat /\ Cardinality(tobesent) <= Len(opt.kinds)
    <3>1. tobesent \in SUBSET Requests
      BY DEF SetsTyped
    <3> QED
      BY <3>1, RequestSets
  <2>2. spc' = "next" /\ i' = 0 /\ unsent' = tobesent
    BY <1>6 DEF BeginRound
  <2> QED
    BY <2>1, <2>2
<1>7. CASE UNCHANGED <<spc, unsent, cur, i>>
  BY <1>7
<1>8. \/ NextRequest \/ SendOK \/ SendFails \/ AfterSend \/ AllSent \/ CountRequests
      \/ RaiseSendDone \/ CheckDone \/ LookRunning \/ StopSniffer \/ BeginWait \/ EndWait
      \/ BeginRound \/ UNCHANGED <<spc, unsent, cur, i>>
  BY DEF Next, Sender, Receiver, vars, CallbackReturns, LoopTest, Select, RecvReply, RecvStray,
     AfterPacket, LowerRunning, SetBreakout, Tally, Expire, Deliver, DeliverStray
<1> QED
  BY <1>3, <1>4, <1>5, <1>6, <1>7, <1>8

\* Between two rounds the sender is at rest.
LEMMA PairedStep == TypeOK /\ Paired /\ [Next]_vars => Paired'
<1> SUFFICES ASSUME TypeOK, Paired, [Next]_vars PROVE Paired'
  OBVIOUS
<1> USE DEF Paired, Gone, sender, handler
<1>1. CASE BeginRound \/ Tally
  BY <1>1 DEF BeginRound, Tally
<1>2. CASE Sender
  BY <1>2 DEF Sender, NextRequest, SendOK, SendFails, AfterSend, AllSent, CountRequests, RaiseSendDone,
     CheckDone, LookRunning, StopSniffer, BeginWait, EndWait
<1>3. CASE CallbackReturns \/ LoopTest \/ Select \/ RecvStray \/ AfterPacket \/ LowerRunning
           \/ SetBreakout \/ (\E k \in Kinds : RecvReply(k))
  BY <1>3 DEF CallbackReturns, LoopTest, Select, RecvReply, RecvStray, AfterPacket, LowerRunning,
     SetBreakout
<1>4. CASE Expire \/ DeliverStray \/ (\E k \in Kinds : Deliver(k)) \/ UNCHANGED vars
  BY <1>4 DEF Expire, Deliver, DeliverStray, vars
<1> QED
  BY <1>1, <1>2, <1>3, <1>4 DEF Next, Receiver

\* Counters stay within their bounds; that of the answers, because it counts them.
LEMMA CountsStep ==
  TypeOK /\ RoomToCount /\ SetsTyped' /\ AnswersCounted' /\ [Next]_vars => CountsTyped'
<1> SUFFICES ASSUME TypeOK, RoomToCount, SetsTyped', AnswersCounted', [Next]_vars
             PROVE  CountsTyped'
  OBVIOUS
<1>1. /\ opt \in Options /\ opt' = opt /\ Requests' = Requests /\ Places' = Places
      /\ Requests = 1..Len(opt.kinds) /\ Len(opt.kinds) \in Nat
      /\ opt.retry \in Nat /\ MaxTrouble \in Nat /\ SetsTyped /\ CountsTyped
  BY TypeParts, SameArguments, ArgumentsTyped DEF Requests, Places
<1>2. noans' \in Places
  <2>1. Answered' \in SUBSET Requests
    BY <1>1 DEF Answered
  <2>2. Cardinality(Answered') \in Nat /\ Cardinality(Answered') <= Len(opt.kinds)
    BY <1>1, <2>1, RequestSets
  <2> QED
    BY <1>1, <2>2 DEF AnswersCounted, Places
<1>3. i' \in Places
  <2>1. CASE AfterSend
    <3>1. Cardinality(unsent) \in Nat
      BY <1>1, RequestSets DEF SetsTyped
    <3> QED
      BY <1>1, <2>1, <3>1 DEF AfterSend, RoomToCount, Sending, CountsTyped, Places
  <2>2. CASE BeginRound
    <3>1. i' = 0
      BY <2>2 DEF BeginRound
    <3> QED
      BY <1>1, <3>1 DEF Places
  <2>3. AfterSend \/ BeginRound \/ i' = i
    BY DEF Next, Sender, Receiver, vars, sender, NextRequest, SendOK, SendFails, AllSent,
       CountRequests, RaiseSendDone, CheckDone, LookRunning, StopSniffer, BeginWait, EndWait,
       CallbackReturns, LoopTest, Select, RecvReply, RecvStray, AfterPacket, LowerRunning,
       SetBreakout, Tally, Expire, Deliver, DeliverStray
  <2> QED
    BY <1>1, <2>1, <2>2, <2>3 DEF CountsTyped
<1>4. notans' \in Places /\ cur' \in Places
  <2>1. CASE NextRequest
    BY <1>1, <2>1 DEF NextRequest, handler, SetsTyped, CountsTyped, Places
  <2>2. CASE BeginRound
    <3>1. notans' = notans /\ cur' = 0
      BY <2>2 DEF BeginRound
    <3> QED
      BY <1>1, <3>1 DEF CountsTyped, Places
  <2>3. CASE CountRequests
    BY <1>1, <2>3 DEF CountRequests, CountsTyped
  <2>4. NextRequest \/ BeginRound \/ CountRequests \/ UNCHANGED <<notans, cur>>
    BY DEF Next, Sender, Receiver, vars, handler, sender, SendOK, SendFails, AfterSend, AllSent,
       RaiseSendDone, CheckDone, LookRunning, StopSniffer, BeginWait, EndWait, CallbackReturns,
       LoopTest, Select, RecvReply, RecvStray, AfterPacket, LowerRunning, SetBreakout, Tally,
       Expire, Deliver, DeliverStray
  <2> QED
    BY <1>1, <2>1, <2>2, <2>3, <2>4 DEF CountsTyped
<1>5. retry' \in 0..opt.retry
  <2>1. CASE Tally
    <3>1. RetriesLeft(Remain) \in 0..opt.retry
      BY <1>1 DEF RetriesLeft, CountsTyped
    <3>2. retry' = retry \/ (RetriesLeft(Remain) # 0 /\ retry' = RetriesLeft(Remain) - 1)
      BY <2>1 DEF Tally
    <3> HIDE DEF RetriesLeft
    <3> QED
      BY <1>1, <3>1, <3>2 DEF CountsTyped
  <2>2. Tally \/ retry' = retry
    BY DEF Next, Sender, Receiver, vars, handler, NextRequest, SendOK, SendFails, AfterSend, AllSent,
       CountRequests, RaiseSendDone, CheckDone, LookRunning, StopSniffer, BeginWait, EndWait,
       BeginRound, CallbackReturns, LoopTest, Select, RecvReply, RecvStray, AfterPacket,
       LowerRunning, SetBreakout, Expire, Deliver, DeliverStray
  <2> QED
    BY <1>1, <2>1, <2>2 DEF CountsTyped
<1>6. /\ strays' \in 0..strayed' /\ strayed' \in Nat /\ failures' \in Nat
      /\ strayed' + failures' <= MaxTrouble
  <2>1. CASE SendFails \/ DeliverStray \/ RecvStray
    <3>1. \/ /\ strayed + failures < MaxTrouble /\ failures' = failures + 1
             /\ UNCHANGED <<strays, strayed>>
          \/ /\ strayed + failures < MaxTrouble /\ strayed' = strayed + 1
             /\ strays' = strays + 1 /\ UNCHANGED failures
          \/ strays > 0 /\ strays' = strays - 1 /\ UNCHANGED <<strayed, failures>>
      BY <2>1 DEF SendFails, DeliverStray, RecvStray
    <3>2. strayed \in Nat /\ failures \in Nat /\ strays \in 0..strayed
      BY <1>1 DEF CountsTyped
    <3>3. MaxTrouble \in Nat /\ strayed + failures <= MaxTrouble
      BY <1>1 DEF CountsTyped
    <3> QED
      BY ONLY <3>1, <3>2, <3>3
  <2>2. SendFails \/ DeliverStray \/ RecvStray \/ UNCHANGED <<strays, strayed, failures>>
    BY DEF Next, Sender, Receiver, vars, network, NextRequest, SendOK, AfterSend, AllSent,
       CountRequests, RaiseSendDone, CheckDone, LookRunning, StopSniffer, BeginWait, EndWait,
       BeginRound, CallbackReturns, LoopTest, Select, RecvReply, AfterPacket,
       LowerRunning, SetBreakout, Tally, Expire, Deliver
  <2> QED
    BY <1>1, <2>1, <2>2 DEF CountsTyped
<1>7. rounds' \in Nat /\ fruitless' \in Nat
  <2>1. CASE BeginRound
    <3>1. rounds' = rounds + 1 /\ fruitless' = fruitless
      BY <2>1 DEF BeginRound
    <3> QED
      BY <1>1, <3>1 DEF CountsTyped
  <2>2. CASE Tally
    BY <1>1, <2>2 DEF Tally, CountsTyped
  <2>3. BeginRound \/ Tally \/ UNCHANGED <<rounds, fruitless>>
    BY DEF Next, Sender, Receiver, vars, history, NextRequest, SendOK, SendFails, AfterSend, AllSent,
       CountRequests, RaiseSendDone, CheckDone, LookRunning, StopSniffer, BeginWait, EndWait,
       CallbackReturns, LoopTest, Select, RecvReply, RecvStray, AfterPacket,
       LowerRunning, SetBreakout, Expire, Deliver, DeliverStray
  <2> QED
    BY <1>1, <2>1, <2>2, <2>3 DEF CountsTyped
<1> QED
  BY <1>1, <1>2, <1>3, <1>4, <1>5, <1>6, <1>7 DEF CountsTyped

\* Flags are flags, and both threads are somewhere in their code.
LEMMA FlagsStep == TypeOK /\ [Next]_vars => FlagsTyped'
<1> SUFFICES ASSUME TypeOK, [Next]_vars PROVE FlagsTyped'
  OBVIOUS
<1>1. /\ opt \in Options /\ FlagsTyped /\ opt' = opt
      /\ {opt.threaded, opt.multi, opt.first, opt.stopFilter, opt.chainEX} \subseteq BOOLEAN
  BY TypeParts, SameArguments, ArgumentsTyped
<1> USE <1>1 DEF FlagsTyped, SenderAt, ReceiverAt, handler, sniffer, sender, history
<1>2. CASE NextRequest \/ SendOK \/ AfterSend \/ AllSent
  BY <1>2 DEF NextRequest, SendOK, AfterSend, AllSent
<1>3. CASE SendFails \/ CountRequests \/ RaiseSendDone
  BY <1>3 DEF SendFails, CountRequests, RaiseSendDone
<1>4. CASE CheckDone \/ LookRunning \/ BeginWait \/ EndWait
  BY <1>4 DEF CheckDone, LookRunning, BeginWait, EndWait
<1>5. CASE StopSniffer
  BY <1>5 DEF StopSniffer, Reason
<1>6. CASE BeginRound
  BY <1>6 DEF BeginRound
<1>7. CASE CallbackReturns \/ LoopTest \/ Select \/ RecvStray \/ (\E k \in Kinds : RecvReply(k))
  BY <1>7 DEF CallbackReturns, LoopTest, Select, RecvStray, RecvReply
<1>8. CASE AfterPacket
  <2>1. UNCHANGED <<sendDone, breakout, running, raising, lastStop, expired, spc>> /\ rpc' = "loop"
    BY <1>8 DEF AfterPacket
  <2>2. contSniff' \in BOOLEAN /\ pipeByte' \in BOOLEAN
    BY <1>8 DEF AfterPacket
  <2>3. why' \in {"", "done", "first", "timeout", "filter"}
    BY <1>8 DEF AfterPacket
  <2> QED
    BY <2>1, <2>2, <2>3
<1>9. CASE LowerRunning \/ SetBreakout \/ Tally
  BY <1>9 DEF LowerRunning, SetBreakout, Tally
<1>10. CASE Expire \/ DeliverStray \/ (\E k \in Kinds : Deliver(k)) \/ UNCHANGED vars
  BY <1>10 DEF Expire, DeliverStray, Deliver, vars
<1> QED
  BY <1>2, <1>3, <1>4, <1>5, <1>6, <1>7, <1>8, <1>9, <1>10 DEF Next, Sender, Receiver

\* Replies are counted per kind.
LEMMA NetworkStep == TypeOK /\ RoomToCount /\ [Next]_vars => NetworkTyped'
<1> SUFFICES ASSUME TypeOK, RoomToCount, [Next]_vars PROVE NetworkTyped'
  OBVIOUS
<1>1. /\ opt \in Options /\ NetworkTyped /\ opt' = opt /\ Kinds' = Kinds
      /\ MaxReplies \in Nat /\ \A p \in Requests : opt.kinds[p] \in Kinds
  BY TypeParts, SameArguments, ArgumentsTyped DEF Kinds, Requests
<1> USE <1>1 DEF NetworkTyped
<1>2. CASE SendOK
  BY <1>2 DEF SendOK, RoomToCount, Sending
<1>3. ASSUME NEW k \in Kinds, RecvReply(k) \/ Deliver(k) PROVE NetworkTyped'
  BY <1>3 DEF RecvReply, Deliver
<1>4. CASE UNCHANGED <<owed, pending>>
  BY <1>4
<1>5. SendOK \/ (\E k \in Kinds : RecvReply(k) \/ Deliver(k)) \/ UNCHANGED <<owed, pending>>
  BY DEF Next, Sender, Receiver, vars, network, NextRequest, SendFails, AfterSend, AllSent,
     CountRequests, RaiseSendDone, CheckDone, LookRunning, StopSniffer, BeginWait, EndWait,
     BeginRound, CallbackReturns, LoopTest, Select, RecvStray, AfterPacket,
     LowerRunning, SetBreakout, Tally, Expire, DeliverStray
<1> QED
  BY <1>2, <1>3, <1>4, <1>5

-----------------------------------------------------------------------------
(* The answers                                                             *)

\* What may still be matched has no answer yet.
LEMMA FreshStep == TypeOK /\ Fresh /\ Paired /\ [Next]_vars => Fresh'
<1> SUFFICES ASSUME TypeOK, Fresh, Paired, [Next]_vars PROVE Fresh'
  OBVIOUS
<1>1. /\ opt \in Options /\ SetsTyped /\ opt' = opt /\ Requests' = Requests
  BY TypeParts, SameArguments DEF Requests
<1> USE <1>1 DEF Fresh, SetsTyped, handler, sender
<1>2. CASE NextRequest
  <2>1. PICK p \in unsent : unsent' = unsent \ {p} /\ hsent' = hsent \cup {p}
    BY <1>2 DEF NextRequest
  <2>2. UNCHANGED <<ans, tobesent, rpc>>
    BY <1>2 DEF NextRequest
  <2> QED
    BY <2>1, <2>2
<1>3. CASE BeginRound
  BY <1>3 DEF BeginRound
<1>4. ASSUME NEW k \in Kinds, RecvReply(k) PROVE Fresh'
  <2>1. rpc = "recv" /\ rpc' = "after" /\ UNCHANGED <<tobesent, unsent>>
    BY <1>4 DEF RecvReply
  <2>2. CASE UNCHANGED <<ans, hsent, noans>>
    BY <2>1, <2>2
  <2>3. ASSUME NEW p \in hsent, Match(p) PROVE Fresh'
    <3>1. /\ ans' = [ans EXCEPT ![p] = @ + 1]
          /\ hsent' = IF opt.multi THEN hsent ELSE hsent \ {p}
      BY <2>3 DEF Match
    <3>2. p \notin unsent
      OBVIOUS
    <3> QED
      BY <2>1, <3>1, <3>2
  <2> QED
    BY <1>4, <2>2, <2>3, MatchEffect
<1>5. CASE Tally
  BY <1>5 DEF Tally, Remain
<1>6. CASE UNCHANGED <<tobesent, hsent, ans, unsent>> /\ (rpc' = "round" => rpc = "round")
  BY <1>6
<1>7. \/ NextRequest \/ BeginRound \/ (\E k \in Kinds : RecvReply(k)) \/ Tally
      \/ UNCHANGED <<tobesent, hsent, ans, unsent>> /\ (rpc' = "round" => rpc = "round")
  BY DEF Next, Sender, Receiver, vars, SendOK, SendFails, AfterSend, AllSent, CountRequests,
     RaiseSendDone, CheckDone, LookRunning, StopSniffer, BeginWait, EndWait, CallbackReturns,
     LoopTest, Select, RecvStray, AfterPacket, LowerRunning, SetBreakout, Expire, Deliver,
     DeliverStray
<1> QED
  BY <1>2, <1>3, <1>4, <1>5, <1>6, <1>7

\* A request is matched at most once, and counted when it gets its first answer.
LEMMA AnswersStep ==
  TypeOK /\ Fresh /\ AnsweredOnce /\ AnswersCounted /\ [Next]_vars
  => AnsweredOnce' /\ AnswersCounted'
<1> SUFFICES ASSUME TypeOK, Fresh, AnsweredOnce, AnswersCounted, [Next]_vars
             PROVE  AnsweredOnce' /\ AnswersCounted'
  OBVIOUS
<1>1. /\ opt \in Options /\ SetsTyped /\ opt' = opt /\ Requests' = Requests
  BY TypeParts, SameArguments DEF Requests
<1> USE <1>1 DEF SetsTyped
<1>2. CASE UNCHANGED <<ans, noans>>
  BY <1>2 DEF AnsweredOnce, AnswersCounted, Answered
<1>3. ASSUME NEW p \in hsent, Match(p) PROVE AnsweredOnce' /\ AnswersCounted'
  <2>1. /\ ans' = [ans EXCEPT ![p] = ans[p] + 1] /\ p \in Requests
        /\ noans' = IF opt.multi /\ ans[p] > 0 THEN noans ELSE noans + 1
    BY <1>3 DEF Match
  <2>2. AnsweredOnce'
    BY <2>1 DEF AnsweredOnce, Fresh
  <2>3. Answered' = Answered \cup {p}
    BY <2>1 DEF Answered
  <2>4. CASE ans[p] > 0
    <3>1. opt.multi
      BY <2>4 DEF Fresh
    <3>2. p \in Answered
      BY <2>1, <2>4 DEF Answered
    <3>3. Answered' = Answered
      BY <2>3, <3>2
    <3>4. noans' = noans
      BY <2>1, <2>4, <3>1
    <3> QED
      BY <2>2, <3>3, <3>4 DEF AnswersCounted
  <2>5. CASE ~(ans[p] > 0)
    <3>1. p \notin Answered
      BY <2>5 DEF Answered
    <3>2. Answered \in SUBSET Requests
      BY DEF Answered
    <3>3. Cardinality(Answered') = Cardinality(Answered) + 1
      BY <2>3, <3>1, <3>2, RequestSets, FS_AddElement
    <3>4. noans' = noans + 1
      BY <2>1, <2>5
    <3> QED
      BY <2>2, <3>3, <3>4 DEF AnswersCounted
  <2> QED
    BY <2>4, <2>5
<1>4. UNCHANGED <<ans, noans>> \/ \E p \in hsent : Match(p)
  <2>1. UNCHANGED <<ans, noans>> \/ \E k \in Kinds : RecvReply(k)
    BY DEF Next, Sender, Receiver, vars, handler, NextRequest, SendOK, SendFails, AfterSend, AllSent,
       CountRequests, RaiseSendDone, CheckDone, LookRunning, StopSniffer, BeginWait, EndWait,
       BeginRound, CallbackReturns, LoopTest, Select, RecvStray, AfterPacket, LowerRunning,
       SetBreakout, Tally, Expire, Deliver, DeliverStray
  <2> QED
    BY <2>1, MatchEffect
<1> QED
  BY <1>2, <1>3, <1>4

-----------------------------------------------------------------------------
\* The invariant of a call.
THEOREM CallInvariant == Spec => []AnswersInv
<1>1. Init => AnswersInv
  <2> SUFFICES ASSUME Init PROVE AnswersInv
    OBVIOUS
  <2>1. /\ opt \in Options /\ Requests = 1..Len(opt.kinds) /\ Len(opt.kinds) \in Nat
        /\ opt.retry \in Nat /\ MaxTrouble \in Nat
    BY ArgumentsTyped DEF Init
  <2>2. Cardinality({}) = 0
    BY FS_EmptySet
  <2>3. SetsTyped /\ CountsTyped /\ NetworkTyped
    <3>1. SetsTyped
      BY DEF Init, SetsTyped
    <3>2. NetworkTyped
      BY DEF Init, NetworkTyped
    <3>3. /\ noans = 0 /\ notans = 0 /\ i = 0 /\ cur = 0 /\ retry = opt.retry
          /\ strays = 0 /\ strayed = 0 /\ failures = 0 /\ rounds = 0 /\ fruitless = 0
      BY DEF Init
    <3>4. CountsTyped
      BY <2>1, <3>3 DEF CountsTyped, Places
    <3> QED
      BY <3>1, <3>2, <3>4
  <2>4. FlagsTyped
    BY DEF Init, FlagsTyped, SenderAt, ReceiverAt
  <2>5. Fresh /\ RoomToCount /\ Paired
    <3>1. /\ hsent = {} /\ unsent = {} /\ spc = "none" /\ i = 0
          /\ \A p \in Requests : ans[p] = 0
      BY DEF Init
    <3> QED
      BY <2>1, <2>2, <3>1 DEF Fresh, RoomToCount, Sending, Paired, Gone
  <2>6. (\A p \in Requests : ans[p] = 0) /\ noans = 0
    BY DEF Init
  <2>7. AnsweredOnce /\ AnswersCounted
    <3>1. Answered = {}
      BY <2>6 DEF Answered
    <3> QED
      BY <2>2, <2>6, <3>1 DEF AnsweredOnce, AnswersCounted
  <2> QED
    BY <2>1, <2>3, <2>4, <2>5, <2>7, TypeParts DEF AnswersInv
<1>2. AnswersInv /\ [Next]_vars => AnswersInv'
  <2> SUFFICES ASSUME AnswersInv, [Next]_vars PROVE AnswersInv'
    OBVIOUS
  <2>1. SetsTyped' /\ FlagsTyped' /\ NetworkTyped' /\ RoomToCount' /\ Paired' /\ Fresh'
    BY SetsStep, FlagsStep, NetworkStep, RoomStep, PairedStep, FreshStep DEF AnswersInv
  <2>2. AnsweredOnce' /\ AnswersCounted'
    BY AnswersStep DEF AnswersInv
  <2>3. CountsTyped'
    BY <2>1, <2>2, CountsStep DEF AnswersInv
  <2>4. opt' \in Options
    BY SameArguments, TypeParts DEF AnswersInv
  <2>5. TypeOK'
    BY <2>1, <2>3, <2>4 DEF TypeOK, SetsTyped, CountsTyped, FlagsTyped, NetworkTyped, Places
  <2> QED
    BY <2>1, <2>2, <2>5 DEF AnswersInv
<1> QED
  BY <1>1, <1>2, PTL DEF Spec

\* Every variable keeps its type; in particular no more answers are counted and no
\* more requests sent in a round than there are requests.
THEOREM CallTyped == Spec => []TypeOK
BY CallInvariant, PTL DEF AnswersInv

\* Unless multi is given no request gets two answers: when it is answered it leaves
\* hsent, and neither the rest of the round nor a later one lists it again.
THEOREM OneAnswerEach == Spec => []AnsweredOnce
BY CallInvariant, PTL DEF AnswersInv

\* noans is the number of requests that have an answer, over all rounds.
THEOREM CountIsTrue == Spec => []AnswersCounted
BY CallInvariant, PTL DEF AnswersInv

-----------------------------------------------------------------------------
(* The rounds: a call in which send() does not raise and nobody asks for an *)
(* early end lists every request as answered or not, ends a round because   *)
(* all is answered only when it is, and sends again as often as usage.rst   *)
(* says.                                                                   *)

EveryAnswered == Answered = Requests

\* What is still to be sent, now or in this round.
NoneLeft == unsent = {} \/ EveryAnswered
Over == {"count", "done", "check", "stop?", "stop", "wait?", "wait", "ended", "crashed"}
Leaving == {"finish", "break", "tally", "returned"}
InRound == rpc \notin {"round", "returned", "raised"}

\* Every request without an answer is listed, or is to be sent.
Listed ==
  /\ rpc = "round" => tobesent = Requests \ Answered
  /\ rpc # "round" => Requests \ Answered \subseteq hsent \cup unsent
  /\ InRound => tobesent = Requests \ before

\* No thread leaves a round before its requests have been sent.
Complete ==
  /\ rpc # "round" /\ spc \in Over => NoneLeft
  /\ rpc # "round" /\ (~contSniff \/ expired \/ breakout \/ rpc \in Leaving) => NoneLeft

\* Nobody is interrupted.
Calm ==
  /\ ~raising /\ rpc # "raised"
  /\ ~opt.threaded /\ rpc \in {"loop", "select", "recv", "after"} => spc = "ended"

\* The first round counts the requests before it raises _send_done; up to then
\* the capture goes on.
FirstRound ==
  IF sendDone THEN notans = Len(opt.kinds)
  ELSE /\ spc \in {"none", "next", "send", "sent", "count", "done"}
       /\ rpc \in {"round", "sending", "loop", "select", "recv", "after"}
       /\ tobesent = Requests
       /\ rpc = "round" => spc = "none"
       /\ rpc # "round" =>
            /\ contSniff /\ ~breakout /\ ~expired /\ spc # "none"
            /\ i + Cardinality(unsent) + (IF spc \in Sending THEN 1 ELSE 0) = Len(opt.kinds)
       /\ spc \in {"count", "done"} => unsent = {}
       /\ spc = "done" => notans = Len(opt.kinds)

\* Who stops the capture because all is answered is right.
DoneIsRight == why = "done" => EveryAnswered

Returned == rpc = "returned" => unans = Requests \ Answered

\* What is left of the retries, when an answer starts the count again.
Limit(S) == IF S = {} THEN opt.retry + 1 ELSE opt.retry
Restarting ==
  /\ before \subseteq Answered
  /\ rpc = "round" => fruitless + retry + 1 = Limit(Answered)
  /\ InRound => fruitless + retry + 1 = Limit(before)
  /\ rpc = "returned" =>
       fruitless <= Limit(Answered) /\ (unans # {} => fruitless = Limit(Answered))

CalmInv ==
  Undisturbed =>
    /\ Listed /\ Complete /\ Calm /\ FirstRound /\ DoneIsRight /\ Returned
    /\ opt.negative => Restarting

\* Whatever happens.
RetriesCounted ==
  /\ ~opt.negative =>
       /\ rounds + retry = opt.retry + (IF rpc = "round" THEN 0 ELSE 1)
       /\ rpc = "returned" /\ unans # {} => retry = 0
  /\ rpc = "returned" => unans \cap Answered = {}

Parts == Listed /\ Complete /\ Calm /\ FirstRound /\ DoneIsRight /\ Returned

-----------------------------------------------------------------------------
\* A call that is undisturbed after a step was so before it.
LEMMA Quiet ==
  ASSUME TypeOK, [Next]_vars, Undisturbed'
  PROVE  Undisturbed /\ ~SendFails /\ ~opt.first /\ ~opt.stopFilter
<1>1. opt' = opt /\ failures \in Nat
  BY SameArguments, TypeParts DEF CountsTyped
<1>2. SendFails \/ failures' = failures
  BY DEF Next, Sender, Receiver, vars, network, NextRequest, SendOK, AfterSend, AllSent,
     CountRequests, RaiseSendDone, CheckDone, LookRunning, StopSniffer, BeginWait, EndWait,
     BeginRound, CallbackReturns, LoopTest, Select, RecvReply, RecvStray, AfterPacket,
     LowerRunning, SetBreakout, Tally, Expire, Deliver, DeliverStray
<1>3. SendFails => failures' = failures + 1
  BY DEF SendFails
<1>4. failures' = 0
  BY DEF Undisturbed
<1>5. failures' # failures + 1
  BY <1>1, <1>4
<1> QED
  BY <1>1, <1>2, <1>3, <1>4, <1>5 DEF Undisturbed

\* Answers are kept, and only a packet brings one.
LEMMA AnswersKept ==
  ASSUME TypeOK, [Next]_vars
  PROVE  /\ Requests' = Requests /\ Answered \subseteq Answered' /\ Answered' \subseteq Requests
         /\ EveryAnswered => EveryAnswered'
         /\ ans' = ans => Answered' = Answered
<1>1. opt \in Options /\ SetsTyped /\ opt' = opt /\ Requests' = Requests
  BY SameArguments, TypeParts DEF Requests
<1>2. ans' = ans => Answered' = Answered
  BY <1>1 DEF Answered
<1>3. CASE ans' = ans
  BY <1>1, <1>2, <1>3 DEF EveryAnswered, Answered
<1>4. ASSUME NEW p \in hsent, Match(p) PROVE Answered \subseteq Answered' /\ Answered' \subseteq Requests
  <2>1. ans' = [ans EXCEPT ![p] = ans[p] + 1] /\ p \in Requests /\ ans \in [Requests -> Nat]
    BY <1>1, <1>4 DEF Match, SetsTyped
  <2> QED
    BY <1>1, <2>1 DEF Answered
<1>5. ans' = ans \/ \E p \in hsent : Match(p)
  <2>1. ans' = ans \/ \E k \in Kinds : RecvReply(k)
    BY DEF Next, Sender, Receiver, vars, handler, NextRequest, SendOK, SendFails, AfterSend, AllSent,
       CountRequests, RaiseSendDone, CheckDone, LookRunning, StopSniffer, BeginWait, EndWait,
       BeginRound, CallbackReturns, LoopTest, Select, RecvStray, AfterPacket, LowerRunning,
       SetBreakout, Tally, Expire, Deliver, DeliverStray
  <2> QED
    BY <1>1, <2>1, MatchEffect
<1>6. Answered \subseteq Answered' /\ Answered' \subseteq Requests
  BY <1>3, <1>4, <1>5
<1> QED
  BY <1>1, <1>2, <1>6 DEF EveryAnswered

\* When as many answers are counted as requests, every request has one.
LEMMA DoneIsEvery ==
  ASSUME TypeOK, AnswersCounted, FirstRound, IsDone
  PROVE  EveryAnswered
<1>1. /\ opt \in Options /\ Requests = 1..Len(opt.kinds) /\ Len(opt.kinds) \in Nat
      /\ noans \in Nat
  BY TypeParts, ArgumentsTyped DEF CountsTyped, Places
<1>2. notans = Len(opt.kinds) /\ noans >= notans
  BY DEF IsDone, FirstRound
<1>3. IsFiniteSet(Requests) /\ Cardinality(Requests) = Len(opt.kinds)
  <2>1. \A n \in Nat : IsFiniteSet(1..n) /\ Cardinality(1..n) = n
    BY FS_Interval
  <2> QED
    BY <1>1, <2>1
<1>4. Answered \in SUBSET Requests
  BY DEF Answered
<1>5. Cardinality(Answered) <= Cardinality(Requests)
  BY <1>3, <1>4, FS_Subset
<1>6. Cardinality(Requests) = Cardinality(Answered)
  BY <1>1, <1>2, <1>3, <1>5 DEF AnswersCounted
<1> QED
  BY <1>3, <1>4, <1>6, FS_Subset DEF EveryAnswered

-----------------------------------------------------------------------------
(* The parts of the invariant, one by one                                  *)

LEMMA ListedStep ==
  ASSUME TypeOK, Fresh, [Next]_vars, Parts, Undisturbed, ~SendFails
  PROVE  Listed'
<1>1. /\ opt \in Options /\ SetsTyped /\ opt' = opt
      /\ Requests' = Requests /\ Answered \subseteq Answered' /\ Answered' \subseteq Requests
      /\ ans' = ans => Answered' = Answered
  BY AnswersKept, SameArguments, TypeParts
<1> USE DEF Listed, InRound, handler, sender, history
<1>2. CASE NextRequest
  <2>1. PICK p \in unsent : unsent' = unsent \ {p} /\ hsent' = hsent \cup {p}
    BY <1>2 DEF NextRequest
  <2>2. UNCHANGED <<ans, tobesent, rpc, before>>
    BY <1>2 DEF NextRequest
  <2> QED
    BY <1>1, <2>1, <2>2 DEF Parts
<1>3. CASE BeginRound
  <2>1. /\ unsent' = tobesent /\ hsent' = {} /\ before' = Answered
        /\ UNCHANGED <<ans, tobesent>> /\ rpc = "round" /\ rpc' \in {"loop", "sending"}
    BY <1>3 DEF BeginRound
  <2> QED
    BY <1>1, <2>1 DEF Parts
<1>4. ASSUME NEW k \in Kinds, RecvReply(k) PROVE Listed'
  <2>1. rpc = "recv" /\ rpc' = "after" /\ UNCHANGED <<tobesent, unsent, before>>
    BY <1>4 DEF RecvReply
  <2>2. CASE UNCHANGED <<ans, hsent, noans>>
    BY <1>1, <2>1, <2>2 DEF Parts
  <2>3. ASSUME NEW p \in hsent, Match(p) PROVE Listed'
    <3>1. hsent \subseteq hsent' \cup {p} /\ p \in Answered'
      BY <1>1, <2>3 DEF Match, Answered, SetsTyped
    <3> QED
      BY <1>1, <2>1, <3>1 DEF Parts
  <2> QED
    BY <1>1, <1>4, <2>2, <2>3, MatchEffect
<1>5. CASE Tally
  <2>1. /\ rpc = "tally" /\ UNCHANGED <<ans, hsent, unsent, before>> /\ tobesent' = Remain
        /\ rpc' \in {"returned", "round"}
    BY <1>5 DEF Tally
  <2>2. NoneLeft
    BY <2>1 DEF Parts, Complete, Leaving
  <2>3. Requests \ Answered \subseteq hsent
    BY <2>1, <2>2 DEF Parts, NoneLeft, EveryAnswered
  <2>4. Remain = Requests \ Answered
    <3>1. ~opt.multi => hsent \cap Answered = {}
      BY <1>1 DEF Fresh, Answered, SetsTyped
    <3> QED
      BY <1>1, <2>3, <3>1 DEF Remain, SetsTyped
  <2> QED
    BY <1>1, <2>1, <2>3, <2>4
<1>6. CASE /\ UNCHANGED <<tobesent, hsent, ans, unsent, before>>
           /\ rpc' = rpc \/ (InRound /\ rpc' \notin {"round", "returned"})
  BY <1>1, <1>6 DEF Parts
<1>7. \/ NextRequest \/ BeginRound \/ (\E k \in Kinds : RecvReply(k)) \/ Tally
      \/ /\ UNCHANGED <<tobesent, hsent, ans, unsent, before>>
         /\ rpc' = rpc \/ (InRound /\ rpc' \notin {"round", "returned"})
  BY DEF Next, Sender, Receiver, vars, SendOK, AfterSend, AllSent, CountRequests,
     RaiseSendDone, CheckDone, LookRunning, StopSniffer, BeginWait, EndWait, CallbackReturns,
     LoopTest, Select, RecvStray, AfterPacket, LowerRunning, SetBreakout, Expire, Deliver,
     DeliverStray, Parts, Calm
<1> QED
  BY <1>2, <1>3, <1>4, <1>5, <1>6, <1>7

LEMMA CompleteStep ==
  ASSUME TypeOK, AnswersCounted, RoomToCount, [Next]_vars, Parts, Undisturbed, ~SendFails,
         ~opt.first, ~opt.stopFilter
  PROVE  Complete'
<1>1. /\ Answered \subseteq Answered' /\ (EveryAnswered => EveryAnswered') /\ opt' = opt
      /\ {sendDone, contSniff, expired, breakout} \subseteq BOOLEAN
  BY AnswersKept, SameArguments, TypeParts DEF FlagsTyped
<1>2. NoneLeft /\ unsent' \subseteq unsent => NoneLeft'
  BY <1>1 DEF NoneLeft
<1> USE DEF Complete, Over, Leaving, handler, sender, sniffer
<1>3. CASE NextRequest \/ SendOK \/ AllSent
  <2>1. /\ UNCHANGED <<rpc, contSniff, expired, breakout>>
        /\ unsent' \subseteq unsent /\ (spc' \in Over => unsent' = {})
    BY <1>3 DEF NextRequest, SendOK, AllSent
  <2> QED
    BY <1>2, <2>1 DEF Parts, NoneLeft
<1>4. CASE AfterSend
  <2>1. /\ UNCHANGED <<rpc, contSniff, expired, breakout, unsent>>
        /\ (spc' \in Over => breakout)
    BY <1>1, <1>4 DEF AfterSend
  <2> QED
    BY <1>2, <2>1 DEF Parts
<1>5. CASE CountRequests \/ RaiseSendDone \/ CheckDone \/ LookRunning \/ BeginWait \/ EndWait
  <2>1. /\ UNCHANGED <<contSniff, expired, breakout, unsent, rpc>> /\ spc \in Over
    BY <1>5 DEF CountRequests, RaiseSendDone, CheckDone, LookRunning, BeginWait, EndWait, Parts, Calm
  <2> QED
    BY <1>2, <2>1 DEF Parts
<1>6. CASE StopSniffer
  <2>1. UNCHANGED <<expired, breakout, unsent, rpc>> /\ spc \in Over
    BY <1>6 DEF StopSniffer
  <2> QED
    BY <1>2, <2>1 DEF Parts
<1>7. CASE BeginRound
  <2>1. ~breakout' /\ contSniff' /\ ~expired' /\ spc' = "next" /\ rpc' \in {"loop", "sending"}
    BY <1>7 DEF BeginRound
  <2> QED
    BY <2>1
<1>8. CASE LoopTest \/ LowerRunning \/ SetBreakout \/ Tally
  <2>1. /\ UNCHANGED <<contSniff, expired, unsent, spc>> /\ rpc # "round"
        /\ rpc \in Leaving \/ (breakout' = breakout /\ (rpc' \in Leaving => ~contSniff \/ expired))
    BY <1>8 DEF LoopTest, LowerRunning, SetBreakout, Tally
  <2> QED
    BY <1>2, <2>1 DEF Parts
<1>9. CASE CallbackReturns \/ Select \/ RecvStray
  <2>1. /\ UNCHANGED <<contSniff, expired, unsent, spc, breakout>> /\ rpc # "round"
        /\ rpc' \notin Leaving
    BY <1>9 DEF CallbackReturns, Select, RecvStray
  <2> QED
    BY <1>2, <2>1 DEF Parts
<1>10. ASSUME NEW k \in Kinds, RecvReply(k) PROVE Complete'
  <2>1. /\ UNCHANGED <<contSniff, expired, unsent, spc, breakout>> /\ rpc # "round"
        /\ rpc' \notin Leaving
    BY <1>10 DEF RecvReply
  <2> QED
    BY <1>2, <2>1 DEF Parts
<1>11. CASE AfterPacket
  <2>1. /\ UNCHANGED <<expired, unsent, spc, breakout>> /\ rpc # "round" /\ rpc' = "loop"
        /\ ~contSniff' => ~contSniff \/ IsDone
    BY <1>11, <1>1 DEF AfterPacket, IsFirst
  <2>2. IsDone => NoneLeft
    BY DoneIsEvery DEF Parts, NoneLeft
  <2> QED
    BY <1>2, <2>1, <2>2 DEF Parts
<1>12. CASE Expire
  <2>1. /\ UNCHANGED <<contSniff, unsent, spc, breakout, rpc>> /\ spc = "ended" /\ rpc # "round"
    BY <1>12 DEF Expire, Parts, Calm
  <2> QED
    BY <1>2, <2>1 DEF Parts
<1>13. CASE DeliverStray \/ (\E k \in Kinds : Deliver(k)) \/ UNCHANGED vars
  <2>1. UNCHANGED <<contSniff, expired, unsent, spc, breakout, rpc>>
    BY <1>13 DEF DeliverStray, Deliver, vars
  <2> QED
    BY <1>2, <2>1 DEF Parts
<1> QED
  BY <1>3, <1>4, <1>5, <1>6, <1>7, <1>8, <1>9, <1>10, <1>11, <1>12, <1>13
     DEF Next, Sender, Receiver

LEMMA CalmStep ==
  ASSUME TypeOK, [Next]_vars, Parts, ~SendFails
  PROVE  Calm'
<1>1. opt' = opt /\ {raising, breakout} \subseteq BOOLEAN
  BY SameArguments, TypeParts DEF FlagsTyped
<1> USE <1>1 DEF Calm, Parts, handler, sender
<1>2. CASE Sender
  <2>1. UNCHANGED <<rpc, raising>> /\ spc # "ended"
    BY <1>2 DEF Sender, NextRequest, SendOK, AfterSend, AllSent, CountRequests, RaiseSendDone,
       CheckDone, LookRunning, StopSniffer, BeginWait, EndWait
  <2> QED
    BY <2>1
<1>3. CASE BeginRound
  BY <1>3 DEF BeginRound
<1>4. CASE CallbackReturns \/ LoopTest \/ Select \/ RecvStray \/ AfterPacket \/ LowerRunning
           \/ SetBreakout \/ Tally \/ (\E k \in Kinds : RecvReply(k))
  <2>1. /\ UNCHANGED <<spc, raising>> /\ rpc' # "raised"
        /\ rpc' \in {"loop", "select", "recv", "after"} =>
             rpc \in {"loop", "select", "recv", "after"} \/ spc = "ended"
    BY <1>4 DEF CallbackReturns, LoopTest, Select, RecvReply, RecvStray, AfterPacket, LowerRunning,
       SetBreakout, Tally
  <2> QED
    BY <2>1
<1>5. CASE Expire \/ DeliverStray \/ (\E k \in Kinds : Deliver(k)) \/ UNCHANGED vars
  BY <1>5 DEF Expire, DeliverStray, Deliver, vars
<1> QED
  BY <1>2, <1>3, <1>4, <1>5 DEF Next, Receiver

\* The number of requests, less those still to be counted.
Uncounted == i + Cardinality(unsent) + (IF spc \in Sending THEN 1 ELSE 0)

LEMMA FirstRoundStep ==
  ASSUME TypeOK, [Next]_vars, Parts, Undisturbed, ~SendFails, ~opt.first, ~opt.stopFilter
  PROVE  FirstRound'
<1>1. /\ opt \in Options /\ opt' = opt /\ Requests' = Requests /\ SetsTyped
      /\ Len(opt.kinds) \in Nat /\ i \in Nat /\ Requests = 1..Len(opt.kinds)
      /\ {sendDone, contSniff, expired, breakout, raising} \subseteq BOOLEAN
  <2>1. /\ opt \in Options /\ opt' = opt /\ Requests' = Requests /\ SetsTyped
        /\ {sendDone, contSniff, expired, breakout, raising} \subseteq BOOLEAN
    BY SameArguments, AnswersKept, TypeParts DEF FlagsTyped
  <2>2. Len(opt.kinds) \in Nat /\ Requests = 1..Len(opt.kinds)
    BY <2>1, ArgumentsTyped
  <2>3. i \in 0..Len(opt.kinds)
    BY TypeParts DEF CountsTyped, Places
  <2> QED
    BY <2>1, <2>2, <2>3
<1>2. IsFiniteSet(unsent) /\ Cardinality(unsent) \in Nat
  BY <1>1, RequestSets DEF SetsTyped
<1>3. CASE sendDone
  <2>1. sendDone' /\ notans' = notans
    BY <1>3 DEF Next, Sender, Receiver, vars, handler, NextRequest, SendOK, AfterSend, AllSent,
       CountRequests, RaiseSendDone, CheckDone, LookRunning, StopSniffer, BeginWait, EndWait,
       BeginRound, CallbackReturns, LoopTest, Select, RecvReply, RecvStray, AfterPacket,
       LowerRunning, SetBreakout, Tally, Expire, Deliver, DeliverStray
  <2> QED
    BY <1>1, <1>3, <2>1 DEF FirstRound, Parts
<1>4. CASE ~sendDone
  <2>1. /\ spc \in {"none", "next", "send", "sent", "count", "done"}
        /\ rpc \in {"round", "sending", "loop", "select", "recv", "after"}
        /\ tobesent = Requests
        /\ rpc = "round" => spc = "none"
        /\ rpc # "round" => /\ contSniff /\ ~breakout /\ ~expired /\ spc # "none"
                            /\ Uncounted = Len(opt.kinds)
        /\ spc \in {"count", "done"} => unsent = {}
        /\ spc = "done" => notans = Len(opt.kinds)
    BY <1>4 DEF FirstRound, Parts, Uncounted
  <2>2. SUFFICES ASSUME ~sendDone'
                 PROVE  /\ spc' \in {"none", "next", "send", "sent", "count", "done"}
                        /\ rpc' \in {"round", "sending", "loop", "select", "recv", "after"}
                        /\ tobesent' = Requests
                        /\ rpc' = "round" => spc' = "none"
                        /\ rpc' # "round" => /\ contSniff' /\ ~breakout' /\ ~expired' /\ spc' # "none"
                                             /\ Uncounted' = Len(opt.kinds)
                        /\ spc' \in {"count", "done"} => unsent' = {}
                        /\ spc' = "done" => notans' = Len(opt.kinds)
    <3>1. CASE sendDone'
      <4>1. RaiseSendDone
        BY <1>4, <3>1 DEF Next, Sender, Receiver, vars, handler, NextRequest, SendOK, AfterSend,
           AllSent, CountRequests, CheckDone, LookRunning, StopSniffer, BeginWait, EndWait,
           BeginRound, CallbackReturns, LoopTest, Select, RecvReply, RecvStray, AfterPacket,
           LowerRunning, SetBreakout, Tally, Expire, Deliver, DeliverStray
      <4>2. notans' = notans /\ spc = "done"
        BY <4>1 DEF RaiseSendDone
      <4> QED
        BY <1>1, <2>1, <3>1, <4>2 DEF FirstRound
    <3> QED
      BY <1>1, <3>1 DEF FirstRound, Uncounted
  <2> USE <1>1 DEF handler, sender, sniffer
  <2>3. CASE NextRequest
    <3>1. PICK p \in unsent : unsent' = unsent \ {p}
      BY <2>3 DEF NextRequest
    <3>2. Cardinality(unsent') = Cardinality(unsent) - 1
      BY <1>2, <3>1, FS_RemoveElement
    <3>3. UNCHANGED <<contSniff, breakout, expired, rpc, tobesent, i>> /\ spc = "next" /\ spc' = "send"
      BY <2>3 DEF NextRequest
    <3>4. Uncounted' = Uncounted
      BY <1>2, <3>2, <3>3 DEF Uncounted, Sending
    <3> QED
      BY <2>1, <3>3, <3>4
  <2>4. CASE SendOK
    <3>1. /\ UNCHANGED <<contSniff, breakout, expired, rpc, tobesent, i, unsent>>
          /\ spc = "send" /\ spc' = "sent"
      BY <2>4 DEF SendOK
    <3>2. Uncounted' = Uncounted
      BY <3>1 DEF Uncounted, Sending
    <3> QED
      BY <2>1, <3>1, <3>2
  <2>5. CASE AfterSend
    <3>1. /\ UNCHANGED <<contSniff, breakout, expired, rpc, tobesent, unsent>> /\ spc = "sent"
      BY <2>5 DEF AfterSend
    <3>2. ~breakout
      BY <2>1, <3>1
    <3>3. spc' = "next" /\ i' = i + 1
      BY <2>5, <3>2 DEF AfterSend
    <3>4. Uncounted' = Uncounted
      BY <1>2, <3>1, <3>3 DEF Uncounted, Sending
    <3> QED
      BY <2>1, <3>1, <3>3, <3>4
  <2>6. CASE AllSent \/ CountRequests
    <3>1. /\ UNCHANGED <<contSniff, breakout, expired, rpc, tobesent, unsent, i>>
          /\ spc \in {"next", "count"} /\ spc' \in {"count", "done"} /\ unsent = {}
          /\ spc' = "done" => notans' = i /\ spc = "count"
      BY <2>1, <2>6, <1>4 DEF AllSent, CountRequests
    <3>2. Uncounted' = Uncounted
      BY <3>1 DEF Uncounted, Sending
    <3>3. spc' = "done" => Uncounted = i
      BY <3>1, FS_EmptySet DEF Uncounted, Sending
    <3>4. rpc # "round"
      BY <2>1, <3>1
    <3> QED
      BY <2>1, <3>1, <3>2, <3>3, <3>4
  <2>7. CASE RaiseSendDone
    BY <2>2, <2>7 DEF RaiseSendDone
  <2>8. CASE BeginRound
    <3>1. /\ unsent' = tobesent /\ i' = 0 /\ spc' = "next" /\ tobesent' = tobesent
          /\ contSniff' /\ ~breakout' /\ ~expired' /\ rpc' \in {"loop", "sending"}
      BY <2>8 DEF BeginRound
    <3>2. Cardinality(Requests) = Len(opt.kinds)
      <4>1. \A n \in Nat : IsFiniteSet(1..n) /\ Cardinality(1..n) = n
        BY FS_Interval
      <4> QED
        BY <4>1
    <3>3. Uncounted' = Len(opt.kinds)
      BY <2>1, <3>1, <3>2 DEF Uncounted, Sending
    <3> QED
      BY <2>1, <3>1, <3>3
  <2>9. CASE LoopTest \/ Select \/ RecvStray \/ AfterPacket \/ (\E k \in Kinds : RecvReply(k))
    <3>1. /\ UNCHANGED <<breakout, expired, tobesent, unsent, i, spc, notans>>
          /\ rpc' \in {"loop", "select", "recv", "after"} /\ rpc # "round" /\ contSniff'
      BY <2>9, <2>1, <1>4 DEF LoopTest, Select, RecvStray, AfterPacket, RecvReply, IsDone, IsFirst
    <3>2. Uncounted' = Uncounted
      BY <3>1 DEF Uncounted
    <3> QED
      BY <2>1, <3>1, <3>2
  <2>10. CASE Expire
    <3>1. FALSE
      BY <2>10, <2>1 DEF Expire, Calm, Parts
    <3> QED
      BY <3>1
  <2>11. CASE DeliverStray \/ (\E k \in Kinds : Deliver(k)) \/ UNCHANGED vars
    <3>1. UNCHANGED <<breakout, expired, contSniff, tobesent, unsent, i, spc, rpc, notans>>
      BY <2>11 DEF DeliverStray, Deliver, vars
    <3>2. Uncounted' = Uncounted
      BY <3>1 DEF Uncounted
    <3> QED
      BY <2>1, <3>1, <3>2
  \* Elsewhere neither thread is yet.
  <2>12. ~(CheckDone \/ LookRunning \/ StopSniffer \/ BeginWait \/ EndWait \/ CallbackReturns
           \/ LowerRunning \/ SetBreakout \/ Tally)
    BY <2>1 DEF CheckDone, LookRunning, StopSniffer, BeginWait, EndWait, CallbackReturns,
       LowerRunning, SetBreakout, Tally
  <2> QED
    BY <2>3, <2>4, <2>5, <2>6, <2>7, <2>8, <2>9, <2>10, <2>11, <2>12 DEF Next, Sender, Receiver
<1> QED
  BY <1>1, <1>3, <1>4

LEMMA DoneStep ==
  ASSUME TypeOK, AnswersCounted, [Next]_vars, Parts, ~opt.first
  PROVE  DoneIsRight'
<1>1. EveryAnswered => EveryAnswered'
  BY AnswersKept
<1>2. IsDone => EveryAnswered
  BY DoneIsEvery DEF Parts
<1>3. why' = "done" => why = "done" \/ IsDone
  BY DEF Next, Sender, Receiver, vars, history, NextRequest, SendOK, SendFails, AfterSend, AllSent,
     CountRequests, RaiseSendDone, CheckDone, LookRunning, StopSniffer, BeginWait, EndWait,
     BeginRound, CallbackReturns, LoopTest, Select, RecvReply, RecvStray, AfterPacket,
     LowerRunning, SetBreakout, Tally, Expire, Deliver, DeliverStray, Reason, IsFirst
<1> QED
  BY <1>1, <1>2, <1>3 DEF DoneIsRight, Parts

LEMMA ReturnedStep ==
  ASSUME TypeOK, Fresh, [Next]_vars, Parts, Undisturbed, ~SendFails
  PROVE  Returned'
<1>1. /\ Requests' = Requests /\ (ans' = ans => Answered' = Answered)
  BY AnswersKept
<1>2. CASE Tally
  <2>1. unans' = Remain /\ tobesent' = Remain /\ UNCHANGED ans /\ rpc = "tally"
    BY <1>2 DEF Tally, handler
  <2>2. Requests \ Answered \subseteq hsent
    BY <2>1 DEF Parts, Complete, Leaving, Listed, NoneLeft, EveryAnswered
  <2>3. hsent \subseteq Requests /\ (~opt.multi => hsent \cap Answered = {})
    BY TypeParts DEF Fresh, Answered, SetsTyped
  <2> QED
    BY <1>1, <2>1, <2>2, <2>3 DEF Returned, Remain
<1>3. CASE ~Tally
  <2>1. rpc' = "returned" => rpc = "returned"
    BY <1>3 DEF Next, Sender, Receiver, vars, NextRequest, SendOK, SendFails, AfterSend, AllSent,
       CountRequests, RaiseSendDone, CheckDone, LookRunning, StopSniffer, BeginWait, EndWait,
       BeginRound, CallbackReturns, LoopTest, Select, RecvReply, RecvStray, AfterPacket,
       LowerRunning, SetBreakout, Expire, Deliver, DeliverStray
  <2>2. rpc = "returned" => UNCHANGED <<ans, unans>>
    BY <1>3 DEF Next, Sender, Receiver, vars, handler, NextRequest, SendOK, SendFails, AfterSend,
       AllSent, CountRequests, RaiseSendDone, CheckDone, LookRunning, StopSniffer, BeginWait,
       EndWait, BeginRound, CallbackReturns, LoopTest, Select, RecvReply, RecvStray, AfterPacket,
       LowerRunning, SetBreakout, Expire, Deliver, DeliverStray
  <2> QED
    BY <1>1, <2>1, <2>2 DEF Returned, Parts
<1> QED
  BY <1>2, <1>3

\* The requests of a call without an answer become fewer with every answer.
LEMMA Progress ==
  ASSUME TypeOK, before \subseteq Answered
  PROVE  Cardinality(Requests \ Answered) # Cardinality(Requests \ before) <=> Answered # before
<1>1. opt \in Options /\ before \subseteq Requests /\ Answered \subseteq Requests
  BY TypeParts DEF SetsTyped, Answered
<1>2. (Requests \ before) \in SUBSET Requests
  OBVIOUS
<1>3. IsFiniteSet(Requests \ before)
  BY <1>1, <1>2, RequestSets
<1>4. (Requests \ Answered) \in SUBSET (Requests \ before)
  OBVIOUS
<1>5. Cardinality(Requests \ before) = Cardinality(Requests \ Answered)
        => Requests \ before = Requests \ Answered
  BY <1>3, <1>4, FS_Subset
<1>6. Requests \ before = Requests \ Answered => before = Answered
  BY <1>1
<1> QED
  BY <1>5, <1>6

LEMMA RestartingStep ==
  ASSUME TypeOK, [Next]_vars, Parts, Listed', Returned', Undisturbed, ~SendFails,
         opt.negative, Restarting
  PROVE  Restarting'
<1>1. /\ opt' = opt /\ Requests' = Requests /\ Answered \subseteq Answered'
      /\ ans' = ans => Answered' = Answered
  BY AnswersKept, SameArguments
<1>2. opt.retry \in Nat /\ retry \in Nat /\ fruitless \in Nat
  BY ArgumentsTyped, TypeParts DEF CountsTyped
<1>3. \A S : Limit(S)' = Limit(S)
  BY <1>1 DEF Limit
<1>4. CASE BeginRound
  <2>1. /\ before' = Answered /\ UNCHANGED <<ans, fruitless, retry>>
        /\ rpc = "round" /\ rpc' \in {"loop", "sending"}
    BY <1>4 DEF BeginRound
  <2> QED
    BY <1>1, <1>3, <2>1 DEF Restarting, Limit
<1>5. CASE Tally
  <2>1. /\ rpc = "tally" /\ UNCHANGED <<ans, before>> /\ unans' = Remain /\ tobesent' = Remain
        /\ fruitless' = IF Answered = before THEN fruitless + 1 ELSE 0
        /\ IF Remain = {} \/ RetriesLeft(Remain) = 0 THEN rpc' = "returned" /\ retry' = retry
           ELSE rpc' = "round" /\ retry' = RetriesLeft(Remain) - 1
    BY <1>5 DEF Tally
  <2>2. /\ fruitless + retry + 1 = Limit(before) /\ tobesent = Requests \ before
        /\ before \subseteq Answered /\ Answered' = Answered
    BY <1>1, <2>1 DEF Restarting, Listed, Parts, InRound
  <2>3. Remain = Requests \ Answered
    BY <1>1, <2>1, <2>2 DEF Listed, Returned
  <2>4. RetriesLeft(Remain) = IF Remain # {} /\ Answered # before THEN opt.retry ELSE retry
    BY <2>2, <2>3, Progress DEF RetriesLeft
  <2>5. Limit(Answered) \in Nat /\ Limit(before) \in Nat /\ Limit(before) <= opt.retry + 1
    BY <1>2 DEF Limit
  <2>6. CASE Answered = before
    BY <1>1, <1>2, <1>3, <2>1, <2>2, <2>4, <2>5, <2>6 DEF Restarting, InRound
  <2>7. CASE Answered # before
    <3>1. Limit(Answered) = opt.retry /\ fruitless' = 0
      BY <2>1, <2>2, <2>7 DEF Limit
    <3> QED
      BY <1>1, <1>2, <1>3, <2>1, <2>2, <2>4, <2>5, <2>7, <3>1 DEF Restarting, InRound
  <2> QED
    BY <2>6, <2>7
<1>6. CASE ~BeginRound /\ ~Tally
  <2>1. /\ UNCHANGED <<fruitless, retry, before, unans>>
        /\ (rpc' = rpc /\ (InRound \/ ans' = ans)) \/ (InRound /\ InRound')
    BY <1>6 DEF Next, Sender, Receiver, vars, handler, history, NextRequest, SendOK, AfterSend,
       AllSent, CountRequests, RaiseSendDone, CheckDone, LookRunning, StopSniffer, BeginWait,
       EndWait, CallbackReturns, LoopTest, Select, RecvReply, RecvStray, AfterPacket,
       LowerRunning, SetBreakout, Expire, Deliver, DeliverStray, Parts, Calm, InRound
  <2> QED
    BY <1>1, <1>3, <2>1 DEF Restarting, InRound, Limit
<1> QED
  BY <1>4, <1>5, <1>6

LEMMA RetriesStep == ASSUME TypeOK, Fresh, Paired, [Next]_vars, RetriesCounted PROVE RetriesCounted'
<1>1. /\ opt' = opt /\ Requests' = Requests /\ (ans' = ans => Answered' = Answered)
  BY AnswersKept, SameArguments
<1>2. opt.retry \in Nat /\ retry \in Nat /\ rounds \in Nat
  BY ArgumentsTyped, TypeParts DEF CountsTyped
<1>3. CASE BeginRound
  <2>1. rpc = "round" /\ rpc' \in {"loop", "sending"} /\ rounds' = rounds + 1 /\ retry' = retry
    BY <1>3 DEF BeginRound
  <2> QED
    BY <1>1, <1>2, <2>1 DEF RetriesCounted
<1>4. CASE Tally
  <2>1. /\ rpc = "tally" /\ UNCHANGED <<ans, rounds>> /\ unans' = Remain
        /\ IF Remain = {} \/ RetriesLeft(Remain) = 0 THEN rpc' = "returned" /\ retry' = retry
           ELSE rpc' = "round" /\ retry' = RetriesLeft(Remain) - 1
    BY <1>4 DEF Tally
  <2>2. Remain \cap Answered = {}
    BY TypeParts DEF Remain, Fresh, Answered, SetsTyped
  <2>3. ~opt.negative => RetriesLeft(Remain) = retry
    BY DEF RetriesLeft
  <2> QED
    BY <1>1, <1>2, <2>1, <2>2, <2>3 DEF RetriesCounted
<1>5. CASE ~BeginRound /\ ~Tally
  <2>1. /\ UNCHANGED <<rounds, retry, unans>>
        /\ rpc' = "round" <=> rpc = "round"
        /\ rpc' = "returned" => rpc = "returned" /\ ans' = ans
    BY <1>5 DEF Paired, Gone, Next, Sender, Receiver, vars, handler, history, NextRequest, SendOK, SendFails,
       AfterSend, AllSent, CountRequests, RaiseSendDone, CheckDone, LookRunning, StopSniffer,
       BeginWait, EndWait, CallbackReturns, LoopTest, Select, RecvReply, RecvStray, AfterPacket,
       LowerRunning, SetBreakout, Expire, Deliver, DeliverStray
  <2> QED
    BY <1>1, <2>1 DEF RetriesCounted
<1> QED
  BY <1>3, <1>4, <1>5

-----------------------------------------------------------------------------
RoundsInv == CalmInv /\ RetriesCounted

LEMMA RoundsInit == Init => RoundsInv
<1> SUFFICES ASSUME Init PROVE RoundsInv
  OBVIOUS
<1>1. opt.retry \in Nat
  BY ArgumentsTyped DEF Init
<1>2. Answered = {} /\ before = {} /\ unans = {}
  <2>1. \A p \in Requests : ans[p] = 0
    BY DEF Init
  <2>2. Answered = {}
    BY <2>1 DEF Answered
  <2> QED
    BY <2>2 DEF Init
<1>3. /\ rpc = "round" /\ spc = "none" /\ tobesent = Requests /\ ~raising /\ ~sendDone
      /\ why = "" /\ retry = opt.retry /\ rounds = 0 /\ fruitless = 0
  BY DEF Init
<1>4. Parts
  BY <1>2, <1>3 DEF Parts, Listed, Complete, Calm, FirstRound, DoneIsRight, Returned, InRound,
     Leaving, Sending
<1>5. /\ rounds + retry = opt.retry + (IF rpc = "round" THEN 0 ELSE 1)
      /\ fruitless + retry + 1 = Limit(Answered)
  <2>1. retry \in Nat /\ rounds = 0 /\ fruitless = 0
    BY <1>1, <1>3
  <2>2. rounds + retry = retry + 0 /\ fruitless + retry + 1 = retry + 1
    BY ONLY <2>1
  <2>3. Limit(Answered) = opt.retry + 1
    BY <1>2 DEF Limit
  <2> QED
    BY ONLY <1>3, <2>2, <2>3, Zenon
<1>6. rpc # "returned" /\ rpc = "round" /\ ~InRound /\ before \subseteq Answered
  BY <1>2, <1>3 DEF InRound
<1>7. Restarting
  BY <1>5, <1>6 DEF Restarting
<1>8. RetriesCounted
  BY <1>5, <1>6 DEF RetriesCounted
<1> QED
  BY <1>4, <1>7, <1>8 DEF RoundsInv, CalmInv, Parts

LEMMA RoundsStep == AnswersInv /\ RoundsInv /\ [Next]_vars => RoundsInv'
<1> SUFFICES ASSUME AnswersInv, RoundsInv, [Next]_vars PROVE RoundsInv'
  OBVIOUS
<1>1. TypeOK /\ Fresh /\ Paired /\ RoomToCount /\ AnswersCounted
  BY DEF AnswersInv
<1>2. RetriesCounted'
  BY <1>1, RetriesStep DEF RoundsInv
<1>3. ASSUME Undisturbed'
      PROVE  Parts' /\ (opt'.negative => Restarting')
  <2>1. Undisturbed /\ ~SendFails /\ ~opt.first /\ ~opt.stopFilter /\ opt' = opt
    BY <1>1, <1>3, Quiet, SameArguments
  <2>2. Parts /\ (opt.negative => Restarting)
    BY <2>1 DEF RoundsInv, CalmInv, Parts
  <2>3. Listed' /\ Complete' /\ Calm' /\ FirstRound' /\ DoneIsRight' /\ Returned'
    BY <1>1, <2>1, <2>2, ListedStep, CompleteStep, CalmStep, FirstRoundStep, DoneStep, ReturnedStep
  <2>4. opt.negative => Restarting'
    BY <1>1, <2>1, <2>2, <2>3, RestartingStep
  <2> QED
    BY <2>1, <2>3, <2>4 DEF Parts
<1> QED
  BY <1>2, <1>3 DEF RoundsInv, CalmInv, Parts

\* The invariant of the rounds.
THEOREM RoundsInvariant == Spec => [](AnswersInv /\ RoundsInv)
<1>1. Init => RoundsInv
  BY RoundsInit
<1>2. AnswersInv /\ RoundsInv /\ [Next]_vars => RoundsInv'
  BY RoundsStep
<1> QED
  BY <1>1, <1>2, CallInvariant, PTL DEF Spec

\* A round of an undisturbed call that ended because all was answered leaves no
\* request it has sent without an answer, in whatever order the two threads count
\* and look.
THEOREM DoneIsDone == Spec => []DoneWhenUndisturbed
<1>1. AnswersInv /\ RoundsInv => DoneWhenUndisturbed
  <2>1. TypeOK => sentNow \subseteq Requests
    BY TypeParts DEF SetsTyped
  <2> QED
    BY <2>1 DEF AnswersInv, RoundsInv, CalmInv, DoneIsRight, EveryAnswered, DoneWhenUndisturbed,
       DoneMeansAnswered
<1> QED
  BY <1>1, RoundsInvariant, PTL

\* The two lists a call returns are disjoint and, if it is undisturbed, complete.
THEOREM NothingForgotten == Spec => []AllAccounted
<1>1. RoundsInv => AllAccounted
  BY DEF RoundsInv, CalmInv, RetriesCounted, Returned, AllAccounted
<1> QED
  BY <1>1, RoundsInvariant, PTL

\* Positive or negative, retry means as many more rounds as usage.rst says.
THEOREM RetriesRight == Spec => []RetriesAsDocumented
<1>1. AnswersInv /\ RoundsInv => RetriesAsDocumented
  <2> SUFFICES ASSUME AnswersInv, RoundsInv PROVE RetriesAsDocumented
    OBVIOUS
  <2>1. TypeOK
    BY DEF AnswersInv
  <2>2. opt.retry \in Nat /\ retry \in Nat /\ rounds \in Nat /\ fruitless \in Nat
    BY <2>1, ArgumentsTyped, TypeParts DEF CountsTyped
  <2>3. ~opt.negative => rounds <= opt.retry + 1
    BY <2>2 DEF RoundsInv, RetriesCounted
  <2>4. ~opt.negative /\ rpc = "returned" /\ unans # {} => rounds = opt.retry + 1
    BY <2>2 DEF RoundsInv, RetriesCounted
  <2>5. FruitlessLimit = Limit(Answered) /\ Limit(Answered) \in {opt.retry, opt.retry + 1}
        /\ Limit(before) \in {opt.retry, opt.retry + 1}
    BY DEF FruitlessLimit, Limit
  <2>6. ASSUME opt.negative, Undisturbed
        PROVE  /\ fruitless <= FruitlessLimit
               /\ rpc = "returned" /\ unans # {} => fruitless = FruitlessLimit
    <3>1. Restarting /\ rpc # "raised"
      BY <2>6 DEF RoundsInv, CalmInv, Calm
    <3>2. CASE rpc = "round"
      BY <2>2, <2>5, <3>1, <3>2 DEF Restarting
    <3>3. CASE rpc = "returned"
      BY <2>2, <2>5, <3>1, <3>3 DEF Restarting
    <3>4. CASE InRound
      BY <2>2, <2>5, <3>1, <3>4 DEF Restarting, InRound
    <3> QED
      BY <3>1, <3>2, <3>3, <3>4 DEF InRound
  <2> QED
    BY <2>3, <2>4, <2>6 DEF RetriesAsDocumented
<1> QED
  BY <1>1, RoundsInvariant, PTL

=============================================================================
