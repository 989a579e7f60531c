----------------------------- MODULE IsoTpProofs -----------------------------
(***************************************************************************)
(* Sequence numbers and indices stay in range, nobody waits without a      *)
(* timer and messages arrive whole, for any number of sockets, messages of *)
(* any length, any flow control they ask for and any number of faults.     *)
(*                                                                         *)
(* Integrity is proved with an invariant of the channel between a socket   *)
(* and its peer, Channel: what always holds (Sequenced: pieces are sent,   *)
(* travel and are taken in order), what holds while nothing is lost        *)
(* (Chained: the piece before that of a consecutive frame is under way     *)
(* too, or the last one taken), and what holds while no timeout is hasty   *)
(* and no foreign frame comes (Orderly: both ends count the frames of a    *)
(* block alike, and an answer finds its sender waiting).  Either of the    *)
(* last two makes every buffer a beginning of one message (Gathered).      *)
(***************************************************************************)
EXTENDS IsoTp, TLAPS

\* A sender whose timer runs has something to send, in a block that is not over;
\* an idle one has no timer.
TimersRight ==
  \A s \in Sockets :
    /\ tx[s].state = "idle" => ~tx[s].timer
    /\ tx[s].state \in {"wait_first_fc", "wait_fc"} => tx[s].idx < tx[s].msg[2]
    /\ tx[s].state = "sending" /\ tx[s].timer => tx[s].fcbs = 0 \/ tx[s].bs < tx[s].fcbs

IsoTpInv == TypeOK /\ TimersRight /\ NeverUnattended

-----------------------------------------------------------------------------

LEMMA SeqAppend == ASSUME NEW S, NEW q \in Seq(S), NEW x \in S PROVE Append(q, x) \in Seq(S)
  OBVIOUS
LEMMA SeqTake == ASSUME NEW S, NEW q \in Seq(S), q # <<>>
                 PROVE  Head(q) \in S /\ Tail(q) \in Seq(S)
  OBVIOUS
LEMMA SeqConcat == ASSUME NEW S, NEW q \in Seq(S), NEW r \in Seq(S) PROVE q \o r \in Seq(S)
  OBVIOUS
LEMMA SeqMore == ASSUME NEW S, NEW T, S \subseteq T, NEW q \in Seq(S) PROVE q \in Seq(T)
  OBVIOUS

\* The peer of a socket is another socket.
LEMMA Peers == \A s \in Sockets : Peer[s] \in Sockets /\ Peer[s] # s
  BY ConstantsAssumption DEF ConstantsAssumption

\* What a socket asks for.
LEMMA OptionsTyped ==
  ASSUME TypeOK, NEW s \in Sockets
  PROVE  opt[s].bs \in Nat /\ opt[s].gap \in BOOLEAN /\ opt[s].listen \in BOOLEAN
  BY ConstantsAssumption DEF ConstantsAssumption, TypeOK

\* The frames the code builds.
LEMMA FramesBuilt ==
  ASSUME NEW m \in Messages, NEW i \in Nat, NEW n \in 0..SnMod - 1
  PROVE  /\ Sf(m) \in Frames /\ Cf(m, i, n) \in Frames
         /\ m[2] # 1 => Ff(m) \in Frames
<1>1. m[2] \in Nat \ {0} /\ Piece(m, 1) \in Pieces /\ Piece(m, i) \in Pieces
  BY ConstantsAssumption DEF ConstantsAssumption, Messages, Pieces, Piece
<1> QED
  BY <1>1 DEF Sf, Ff, Cf, Frames

LEMMA FcBuilt ==
  ASSUME TypeOK, NEW s \in Sockets, NEW flow \in {"cts", "wt", "ovflw"}
  PROVE  Fc(flow, opt[s]) \in Frames
  BY OptionsTyped DEF Fc, Frames

\* A sequence number counted on is one.
LEMMA Modulo == ASSUME NEW a \in Nat PROVE a % SnMod \in 0..SnMod - 1
<1>1. SnMod \in Nat \ {0}
  BY ConstantsAssumption DEF ConstantsAssumption
<1> QED
  BY <1>1

\* The frames of a burst, and what is left of the message after it.
LEMMA BurstTyped ==
  ASSUME TypeOK, TimersRight, NEW s \in Sockets, tx[s].state = "sending", tx[s].timer
  PROVE  /\ BurstLength(s) \in 1..tx[s].msg[2] - tx[s].idx
         /\ \A k \in 0..BurstLength(s) : Burst(s, k) \in Seq(Frames)
<1>1. /\ tx[s].msg[2] \in Nat /\ tx[s].idx \in Nat /\ tx[s].idx < tx[s].msg[2]
      /\ tx[s].bs \in Nat /\ tx[s].fcbs \in Nat /\ tx[s].sn \in Nat
      /\ tx[s].msg \in Messages
  <2>1. tx[s] \in [state : TxStates, msg : Messages \cup {Nobody}, idx : Nat, sn : 0..SnMod - 1,
                   bs : Nat, fcbs : Nat, gap : BOOLEAN, timer : BOOLEAN]
    BY DEF TypeOK
  <2>2. tx[s].idx < tx[s].msg[2]
    BY DEF TypeOK
  <2>3. Nobody[2] = 0 /\ \A m \in Messages : m[2] \in Nat
    BY ConstantsAssumption DEF ConstantsAssumption, Messages, Nobody
  <2>4. tx[s].msg \in Messages
    BY <2>1, <2>2, <2>3
  <2> QED
    BY <2>1, <2>2, <2>3, <2>4, ConstantsAssumption DEF ConstantsAssumption
<1>2. BurstLength(s) \in 1..tx[s].msg[2] - tx[s].idx
  BY <1>1 DEF BurstLength, TimersRight
<1>3. ASSUME NEW k \in 0..BurstLength(s) PROVE Burst(s, k) \in Seq(Frames)
  <2>1. k \in Nat
    BY <1>2
  <2>2. ASSUME NEW i \in 1..k
        PROVE  Cf(tx[s].msg, tx[s].idx + i, (tx[s].sn + i - 1) % SnMod) \in Frames
    <3>1. tx[s].idx + i \in Nat /\ tx[s].sn + i - 1 \in Nat
      BY <1>1, <2>1
    <3> QED
      BY <1>1, <3>1, Modulo, FramesBuilt
  <2> QED
    BY <2>1, <2>2 DEF Burst
<1> QED
  BY <1>2, <1>3

-----------------------------------------------------------------------------
(* The invariant, action by action                                         *)

TxRecords == [state : TxStates, msg : Messages \cup {Nobody}, idx : Nat, sn : 0..SnMod - 1,
              bs : Nat, fcbs : Nat, gap : BOOLEAN, timer : BOOLEAN]
RxRecords == [state : {"idle", "wait_data"}, buf : Seq(Pieces), len : Nat, sn : 0..SnMod - 1,
              bs : Nat, wait : 0..RxPatience - 1, timer : BOOLEAN]

\* What holds of the two records of a socket, closed or not.
TxRight(t) ==
  /\ t \in TxRecords /\ t.idx <= t.msg[2]
  /\ t.state = "sending" /\ t.timer => t.idx < t.msg[2] /\ (t.fcbs = 0 \/ t.bs < t.fcbs)
  /\ t.state = "idle" => ~t.timer
  /\ t.state \in {"wait_first_fc", "wait_fc"} => t.idx < t.msg[2]
RxRight(r) == r \in RxRecords /\ (r.state = "wait_data" => Len(r.buf) < r.len)

\* Who waits has a timer.
TxAttended(t, errors) ==
  /\ t.state \in {"wait_first_fc", "wait_fc"} => t.timer
  /\ t.state = "sending" => t.timer \/ errors > 0
RxAttended(r, errors) == r.state = "wait_data" => r.timer \/ errors > 0

\* The invariant, one socket at a time.
Local ==
  /\ DOMAIN opt = Sockets /\ \A s \in Sockets : opt[s] \in Options[s]
  /\ bus \in [Sockets -> Seq(Frames)]
  /\ tx \in [Sockets -> TxRecords] /\ rx \in [Sockets -> RxRecords]
  /\ txQueue \in [Sockets -> Seq(Messages)] /\ rxQueue \in [Sockets -> Seq(Seq(Pieces))]
  /\ closed \subseteq MayClose
  /\ sent \in [Sockets -> Nat] /\ {lost, foreign, failed} \subseteq Nat
  /\ hasty \in BOOLEAN
  /\ \A s \in Sockets :
       /\ TxRight(tx[s]) /\ RxRight(rx[s])
       /\ s \notin closed => TxAttended(tx[s], failed) /\ RxAttended(rx[s], failed + foreign)

LEMMA InvIsLocal == IsoTpInv <=> Local
<1>1. ASSUME IsoTpInv PROVE Local
  BY SMTT(30), <1>1 DEF IsoTpInv, TypeOK, TimersRight, NeverUnattended, Local, TxRight, RxRight,
       TxAttended, RxAttended, TxRecords, RxRecords
<1>2. ASSUME Local PROVE IsoTpInv
  BY SMTT(30), <1>2 DEF IsoTpInv, TypeOK, TimersRight, NeverUnattended, Local, TxRight, RxRight,
       TxAttended, RxAttended, TxRecords, RxRecords
<1> QED
  BY <1>1, <1>2

LEMMA MoreErrors ==
  ASSUME NEW a \in Nat, NEW b \in Nat, NEW c \in Nat, a <= b
  PROVE  (a > 0 => b > 0) /\ (a + c > 0 => b + c > 0) /\ (c > 0 => b + c > 0)
  OBVIOUS

\* A callback on s changes the records of s and leaves the faults of others.
LEMMA CallbackKeeps ==
  ASSUME Local, NEW s \in Sockets \ closed, NEW t, NEW r,
         tx' = [tx EXCEPT ![s] = t], TxRight(t), TxAttended(t, failed'),
         rx' = [rx EXCEPT ![s] = r], RxRight(r), RxAttended(r, failed' + foreign),
         bus' \in [Sockets -> Seq(Frames)],
         txQueue' \in [Sockets -> Seq(Messages)], rxQueue' \in [Sockets -> Seq(Seq(Pieces))],
         failed' \in Nat, failed <= failed', hasty' \in BOOLEAN, Others
  PROVE  Local'
<1>1. UNCHANGED <<opt, closed, sent, lost, foreign>> /\ Frames' = Frames
  BY DEF Others, Frames
<1>2. tx' \in [Sockets -> TxRecords] /\ rx' \in [Sockets -> RxRecords]
  BY DEF Local, TxRight, RxRight
<1>3. ASSUME NEW o \in Sockets
      PROVE  /\ TxRight(tx'[o]) /\ RxRight(rx'[o])
             /\ o \notin closed => TxAttended(tx'[o], failed') /\ RxAttended(rx'[o], failed' + foreign)
  <2>1. CASE o = s
    BY <2>1 DEF Local
  <2>2. CASE o # s
    <3>1. tx'[o] = tx[o] /\ rx'[o] = rx[o]
      BY <2>2 DEF Local
    <3>2. /\ TxRight(tx[o]) /\ RxRight(rx[o])
          /\ o \notin closed => TxAttended(tx[o], failed) /\ RxAttended(rx[o], failed + foreign)
      BY DEF Local
    <3>3. failed \in Nat /\ foreign \in Nat
      BY DEF Local
    <3>4. (failed > 0 => failed' > 0) /\ (failed + foreign > 0 => failed' + foreign > 0)
      BY <3>3, MoreErrors
    <3>5. o \notin closed => TxAttended(tx'[o], failed') /\ RxAttended(rx'[o], failed' + foreign)
      BY <3>1, <3>2, <3>4 DEF TxAttended, RxAttended
    <3>6. TxRight(tx'[o]) /\ RxRight(rx'[o])
      BY <3>1, <3>2 DEF TxRight, RxRight
    <3> QED
      BY <3>5, <3>6
  <2> QED
    BY <2>1, <2>2
<1> QED
  BY <1>1, <1>2, <1>3 DEF Local

\* What a frame adds to the bus.
LEMMA PutTyped ==
  ASSUME Local, NEW s \in Sockets, NEW q \in Seq(Frames), Put(s, q)
  PROVE  bus' \in [Sockets -> Seq(Frames)]
<1>1. bus[Peer[s]] \o q \in Seq(Frames)
  BY Peers, SeqConcat DEF Local
<1> QED
  BY <1>1, Peers DEF Local, Put

LEMMA ConsumeTyped ==
  ASSUME Local, NEW s \in Sockets, bus[s] # <<>>, Consume(s)
  PROVE  bus' \in [Sockets -> Seq(Frames)] /\ Head(bus[s]) \in Frames
<1>1. Tail(bus[s]) \in Seq(Frames) /\ Head(bus[s]) \in Frames
  BY SeqTake DEF Local
<1> QED
  BY <1>1 DEF Local, Consume

LEMMA ConsumeAndPutTyped ==
  ASSUME Local, NEW s \in Sockets, bus[s] # <<>>, NEW f \in Frames, ConsumeAndPut(s, f)
  PROVE  bus' \in [Sockets -> Seq(Frames)] /\ Head(bus[s]) \in Frames
<1>1. Tail(bus[s]) \in Seq(Frames) /\ Head(bus[s]) \in Frames
  BY SeqTake DEF Local
<1>2. Append(bus[Peer[s]], f) \in Seq(Frames)
  BY Peers, SeqAppend DEF Local
<1> QED
  BY <1>1, <1>2, Peers DEF Local, ConsumeAndPut

\* A message has a length, and there is more than one sequence number.
LEMMA LengthsTyped ==
  /\ \A m \in Messages : m[2] \in Nat \ {0}
  /\ 0 \in 0..SnMod - 1 /\ 1 \in 0..SnMod - 1
<1>1. SnMod \in Nat /\ SnMod # 0 /\ SnMod # 1 /\ Lengths \subseteq Nat \ {0}
  BY ConstantsAssumption DEF ConstantsAssumption
<1>2. \A m \in Messages : m[2] \in Nat \ {0}
  BY <1>1 DEF Messages
<1>3. 0 \in 0..SnMod - 1 /\ 1 \in 0..SnMod - 1
  BY <1>1
<1> QED
  BY <1>2, <1>3

\* What a frame carries, by its kind.
LEMMA FrameFields ==
  ASSUME NEW f \in Frames
  PROVE  /\ f.pci = "SF" => f.piece \in Pieces
         /\ f.pci = "FF" => f.piece \in Pieces /\ f.len \in Nat \ {0, 1}
         /\ f.pci = "CF" => f.piece \in Pieces /\ f.sn \in 0..SnMod - 1 /\ (f.odd => foreign > 0)
         /\ f.pci = "FC" => f.flow \in {"cts", "wt", "ovflw"} /\ f.bs \in Nat /\ f.gap \in BOOLEAN
  BY DEF Frames

\* Exceptions are counted.
LEMMA FailedMore ==
  ASSUME Local, UNCHANGED failed \/ Raises
  PROVE  /\ failed' \in Nat /\ failed <= failed'
         /\ Raises => failed' > 0 /\ failed' + foreign > 0
<1>1. failed \in Nat /\ foreign \in Nat
  BY DEF Local
<1> QED
  BY <1>1 DEF Raises

\* A record that a callback on s leaves alone.
LEMMA Kept ==
  ASSUME Local, NEW s \in Sockets \ closed, failed' \in Nat, failed <= failed'
  PROVE  /\ tx = [tx EXCEPT ![s] = tx[s]] /\ TxRight(tx[s]) /\ TxAttended(tx[s], failed')
         /\ rx = [rx EXCEPT ![s] = rx[s]] /\ RxRight(rx[s]) /\ RxAttended(rx[s], failed' + foreign)
<1>1. failed \in Nat /\ foreign \in Nat
  BY DEF Local
<1>2. (failed > 0 => failed' > 0) /\ (failed + foreign > 0 => failed' + foreign > 0)
  BY <1>1, MoreErrors
<1>3. TxAttended(tx[s], failed) /\ RxAttended(rx[s], failed + foreign)
  BY DEF Local
<1>4. TxAttended(tx[s], failed') /\ RxAttended(rx[s], failed' + foreign)
  BY <1>2, <1>3 DEF TxAttended, RxAttended
<1>5. tx = [tx EXCEPT ![s] = tx[s]] /\ rx = [rx EXCEPT ![s] = rx[s]]
  BY DEF Local
<1> QED
  BY <1>4, <1>5 DEF Local

LEMMA BeginSendKeeps == ASSUME Local, NEW s \in Sockets, BeginSend(s) PROVE Local'
<1> DEFINE m == Head(txQueue[s])
<1>1. s \in Sockets \ closed /\ tx[s].state = "idle" /\ txQueue[s] # <<>>
  BY DEF BeginSend
<1>2. m \in Messages /\ Tail(txQueue[s]) \in Seq(Messages)
  BY <1>1, SeqTake DEF Local
<1>3. txQueue' \in [Sockets -> Seq(Messages)]
  BY <1>2 DEF BeginSend, Local
<1>4. /\ UNCHANGED <<rx, rxQueue, hasty>> /\ Others
      /\ rxQueue' \in [Sockets -> Seq(Seq(Pieces))] /\ hasty' \in BOOLEAN
  BY DEF BeginSend, Local
<1>5. tx[s] \in TxRecords /\ ~tx[s].timer
  BY <1>1 DEF Local, TxRight
<1>6. CASE Put(s, <<IF m[2] = 1 THEN Sf(m) ELSE Ff(m)>>) /\ UNCHANGED failed
           /\ tx' = IF m[2] = 1 THEN tx
                    ELSE [tx EXCEPT ![s].state = "wait_first_fc", ![s].msg = m, ![s].idx = 1,
                                    ![s].sn = 1, ![s].bs = 0, ![s].timer = TRUE]
  <2>1. failed' \in Nat /\ failed <= failed'
    BY <1>6, FailedMore
  <2>2. <<IF m[2] = 1 THEN Sf(m) ELSE Ff(m)>> \in Seq(Frames)
    <3>1. 0 \in Nat /\ 0 \in 0..SnMod - 1
      BY LengthsTyped
    <3>2. Sf(m) \in Frames /\ (m[2] # 1 => Ff(m) \in Frames)
      BY <3>1, <1>2, FramesBuilt
    <3> QED
      BY <3>2
  <2>3. bus' \in [Sockets -> Seq(Frames)]
    BY <1>6, <2>2, PutTyped
  <2>4. CASE m[2] = 1
    <3>1. tx' = [tx EXCEPT ![s] = tx[s]]
      BY <1>6, <1>1, <2>1, <2>4, Kept
    <3>2. rx' = [rx EXCEPT ![s] = rx[s]]
      BY <1>1, <1>4, <2>1, Kept
    <3> QED
      BY <3>1, <3>2, <1>1, <1>3, <1>4, <2>1, <2>3, Kept, CallbackKeeps
  <2>5. CASE m[2] # 1
    <3> DEFINE t == [tx[s] EXCEPT !.state = "wait_first_fc", !.msg = m, !.idx = 1, !.sn = 1,
                                  !.bs = 0, !.timer = TRUE]
    <3>1. tx' = [tx EXCEPT ![s] = t]
      BY <1>6, <2>5 DEF Local
    <3>2. m[2] \in Nat \ {0, 1} /\ 1 \in 0..SnMod - 1
      BY <1>2, <2>5, LengthsTyped
    <3>3. t \in TxRecords
      BY <1>2, <1>5, <3>2 DEF TxRecords, TxStates
    <3>4. TxRight(t) /\ TxAttended(t, failed')
      BY <1>5, <3>2, <3>3 DEF TxRight, TxAttended, TxRecords
    <3>5. rx' = [rx EXCEPT ![s] = rx[s]]
      BY <1>1, <1>4, <2>1, Kept
    <3> HIDE DEF t
    <3> QED
      BY <3>1, <3>4, <3>5, <1>1, <1>3, <1>4, <2>1, <2>3, Kept, CallbackKeeps
  <2> QED
    BY <2>4, <2>5
<1>7. CASE Raises /\ UNCHANGED bus
           /\ tx' = IF m[2] = 1 THEN tx ELSE [tx EXCEPT ![s].state = "sending"]
  <2>1. failed' \in Nat /\ failed <= failed' /\ failed' > 0
    BY <1>7, FailedMore
  <2>2. bus' \in [Sockets -> Seq(Frames)]
    BY <1>7 DEF Local
  <2> DEFINE t == IF m[2] = 1 THEN tx[s] ELSE [tx[s] EXCEPT !.state = "sending"]
  <2>3. tx' = [tx EXCEPT ![s] = t]
    BY <1>7 DEF Local
  <2>4. TxRight(t) /\ TxAttended(t, failed')
    <3>1. TxRight(tx[s]) /\ TxAttended(tx[s], failed')
      BY <1>1, <2>1, Kept
    <3> QED
      BY <3>1, <1>5, <2>1 DEF TxRight, TxAttended, TxRecords, TxStates
  <2>5. rx' = [rx EXCEPT ![s] = rx[s]]
    BY <1>1, <1>4, <2>1, Kept
  <2> HIDE DEF t
  <2> QED
    BY <2>1, <2>2, <2>3, <2>4, <2>5, <1>1, <1>3, <1>4, Kept, CallbackKeeps
<1> QED
  BY <1>6, <1>7 DEF BeginSend

LEMMA SendFramesKeeps == ASSUME Local, NEW s \in Sockets, SendFrames(s) PROVE Local'
<1> DEFINE n == BurstLength(s)
<1>1. s \in Sockets \ closed /\ tx[s].state = "sending" /\ tx[s].timer
  BY DEF SendFrames
<1>2. /\ UNCHANGED <<rx, txQueue, rxQueue, hasty>> /\ Others
      /\ rxQueue' \in [Sockets -> Seq(Seq(Pieces))] /\ txQueue' \in [Sockets -> Seq(Messages)]
      /\ hasty' \in BOOLEAN
  BY DEF SendFrames, Local
<1>3. TypeOK /\ TimersRight
  BY InvIsLocal DEF IsoTpInv
<1>4. /\ n \in 1..tx[s].msg[2] - tx[s].idx
      /\ \A k \in 0..n : Burst(s, k) \in Seq(Frames)
  BY <1>1, <1>3, BurstTyped
<1>5. /\ tx[s] \in TxRecords /\ tx[s].idx \in Nat /\ tx[s].sn \in Nat /\ tx[s].bs \in Nat
      /\ tx[s].fcbs \in Nat /\ tx[s].msg[2] \in Nat
  <2>1. tx[s] \in TxRecords
    BY DEF Local
  <2>2. Nobody[2] = 0 /\ \A m \in Messages : m[2] \in Nat
    BY ConstantsAssumption DEF ConstantsAssumption, Messages, Nobody
  <2> QED
    BY <2>1, <2>2, ConstantsAssumption DEF ConstantsAssumption, TxRecords
<1> HIDE DEF n
\* The record after k frames.
<1>6. ASSUME NEW k \in 0..n
      PROVE  /\ Advanced(s, k) \in TxRecords /\ Advanced(s, k).msg = tx[s].msg
             /\ Advanced(s, k).idx \in Nat /\ Advanced(s, k).idx <= tx[s].msg[2]
             /\ Advanced(s, k).state = "sending" /\ ~Advanced(s, k).timer
             /\ Advanced(s, k).bs \in Nat /\ Advanced(s, k).fcbs \in Nat
  <2>1. /\ k \in Nat /\ tx[s].idx + k \in Nat /\ tx[s].idx + k <= tx[s].msg[2]
        /\ tx[s].bs + k \in Nat /\ tx[s].sn + k \in Nat
    <3>1. n \in 1..tx[s].msg[2] - tx[s].idx
      BY <1>4
    <3> QED
      BY <3>1, <1>5
  <2>2. (tx[s].sn + k) % SnMod \in 0..SnMod - 1
    BY <2>1, Modulo
  <2> QED
    BY <1>1, <1>5, <2>1, <2>2 DEF Advanced, TxRecords
<1>7. rx' = [rx EXCEPT ![s] = rx[s]] \/ ~(failed' \in Nat /\ failed <= failed')
  BY <1>1, <1>2, Kept
<1>8. ASSUME Put(s, Burst(s, n)), UNCHANGED failed,
             tx' = [tx EXCEPT ![s] =
                      IF Advanced(s, n).idx >= Advanced(s, n).msg[2]
                      THEN [Advanced(s, n) EXCEPT !.state = "idle"]
                      ELSE IF Advanced(s, n).fcbs # 0 /\ Advanced(s, n).bs >= Advanced(s, n).fcbs
                           THEN [Advanced(s, n) EXCEPT !.state = "wait_fc", !.timer = TRUE]
                           ELSE [Advanced(s, n) EXCEPT !.timer = TRUE]]
      PROVE  Local'
  <2>1. failed' \in Nat /\ failed <= failed'
    BY <1>8, FailedMore
  <2>2. bus' \in [Sockets -> Seq(Frames)]
    BY <1>8, <1>4, PutTyped
  <2> DEFINE a == Advanced(s, n)
             t == IF a.idx >= a.msg[2] THEN [a EXCEPT !.state = "idle"]
                  ELSE IF a.fcbs # 0 /\ a.bs >= a.fcbs
                       THEN [a EXCEPT !.state = "wait_fc", !.timer = TRUE]
                       ELSE [a EXCEPT !.timer = TRUE]
  <2>3. tx' = [tx EXCEPT ![s] = t]
    BY <1>8
  <2>4. /\ a \in TxRecords /\ a.idx \in Nat /\ a.msg[2] \in Nat /\ a.idx <= a.msg[2]
        /\ a.state = "sending" /\ ~a.timer /\ a.bs \in Nat /\ a.fcbs \in Nat
    BY <1>4, <1>5, <1>6
  <2> HIDE DEF a
  <2>5. TxRight(t) /\ TxAttended(t, failed')
    <3>1. CASE a.idx >= a.msg[2]
      BY <3>1, <2>4 DEF TxRight, TxAttended, TxRecords, TxStates
    <3>2. CASE a.idx < a.msg[2] /\ a.fcbs # 0 /\ a.bs >= a.fcbs
      BY <3>2, <2>4 DEF TxRight, TxAttended, TxRecords, TxStates
    <3>3. CASE a.idx < a.msg[2] /\ ~(a.fcbs # 0 /\ a.bs >= a.fcbs)
      <4>1. a.idx < a.msg[2] /\ (a.fcbs = 0 \/ a.bs < a.fcbs)
        BY <3>3, <2>4
      <4>2. t = [a EXCEPT !.timer = TRUE]
        BY <3>3, <2>4
      <4> HIDE DEF t
      <4> QED
        BY <4>1, <4>2, <2>4 DEF TxRight, TxAttended, TxRecords, TxStates
    <3> QED
      BY <3>1, <3>2, <3>3, <2>4
  <2> HIDE DEF t
  <2> QED
    BY <2>1, <2>2, <2>3, <2>5, <1>1, <1>2, <1>7, Kept, CallbackKeeps
<1>9. ASSUME NEW k \in 0..n - 1, Raises, Put(s, Burst(s, k)),
             tx' = [tx EXCEPT ![s] = Advanced(s, k)]
      PROVE  Local'
  <2>1. failed' \in Nat /\ failed <= failed' /\ failed' > 0
    BY <1>9, FailedMore
  <2>2. k \in 0..n
    BY <1>4
  <2>3. bus' \in [Sockets -> Seq(Frames)]
    BY <1>9, <2>2, <1>4, PutTyped
  <2>4. TxRight(Advanced(s, k)) /\ TxAttended(Advanced(s, k), failed')
    BY <2>1, <2>2, <1>6 DEF TxRight, TxAttended
  <2> QED
    BY <2>1, <2>3, <2>4, <1>9, <1>1, <1>2, <1>7, Kept, CallbackKeeps
<1> QED
  BY <1>8, <1>9 DEF SendFrames, n

LEMMA TxTimeoutKeeps == ASSUME Local, NEW s \in Sockets, TxTimeout(s) PROVE Local'
<1> DEFINE t == [tx[s] EXCEPT !.state = "idle", !.timer = FALSE]
<1>1. s \in Sockets \ closed /\ UNCHANGED failed
  BY DEF TxTimeout
<1>2. failed' \in Nat /\ failed <= failed'
  BY <1>1, FailedMore
<1>3. tx' = [tx EXCEPT ![s] = t] /\ rx' = [rx EXCEPT ![s] = rx[s]]
  BY <1>1, <1>2, Kept DEF TxTimeout, Local
<1>4. TxRight(tx[s])
  BY DEF Local
<1>5. TxRight(t) /\ TxAttended(t, failed')
  BY <1>4 DEF TxRight, TxAttended, TxRecords, TxStates
<1>6. /\ bus' \in [Sockets -> Seq(Frames)] /\ rxQueue' \in [Sockets -> Seq(Seq(Pieces))]
      /\ txQueue' \in [Sockets -> Seq(Messages)] /\ hasty' \in BOOLEAN /\ Others
  BY DEF TxTimeout, Local, OnTheWay
<1> HIDE DEF t
<1> QED
  BY <1>1, <1>2, <1>3, <1>5, <1>6, Kept, CallbackKeeps

LEMMA RecvFcKeeps == ASSUME Local, NEW s \in Sockets, RecvFc(s) PROVE Local'
<1> DEFINE f == Head(bus[s])
           u == [tx[s] EXCEPT !.gap = f.gap, !.timer = FALSE,
                              !.fcbs = IF tx[s].state = "wait_first_fc" THEN f.bs ELSE @]
           t == IF tx[s].state \notin {"wait_first_fc", "wait_fc"} THEN tx[s]
                ELSE CASE f.flow = "cts" ->
                            [u EXCEPT !.state = "sending", !.bs = 0, !.timer = TRUE]
                       [] f.flow = "wt" -> [u EXCEPT !.state = "wait_fc", !.timer = TRUE]
                       [] f.flow = "ovflw" -> [u EXCEPT !.state = "idle"]
<1>1. /\ s \in Sockets \ closed /\ UNCHANGED <<rx, rxQueue, failed>>
      /\ bus[s] # <<>> /\ f.pci = "FC" /\ Consume(s)
  BY DEF RecvFc, Receive
<1>2. failed' \in Nat /\ failed <= failed'
  BY <1>1, FailedMore
<1>3. bus' \in [Sockets -> Seq(Frames)] /\ f \in Frames
  BY <1>1, ConsumeTyped
<1>4. f.flow \in {"cts", "wt", "ovflw"} /\ f.bs \in Nat /\ f.gap \in BOOLEAN
  BY <1>1, <1>3, FrameFields
<1>5. /\ rxQueue' \in [Sockets -> Seq(Seq(Pieces))] /\ txQueue' \in [Sockets -> Seq(Messages)]
      /\ hasty' \in BOOLEAN /\ Others
  BY DEF RecvFc, Receive, Local
<1>6. TxRight(tx[s]) /\ TxAttended(tx[s], failed') /\ tx \in [Sockets -> TxRecords]
  BY <1>1, <1>2, Kept DEF Local
<1>7. tx' = [tx EXCEPT ![s] = t]
  BY <1>6 DEF RecvFc
<1>8. rx' = [rx EXCEPT ![s] = rx[s]]
  BY <1>1, <1>2, Kept
<1> HIDE DEF f
<1>9. TxRight(t) /\ TxAttended(t, failed')
  <2>1. CASE tx[s].state \notin {"wait_first_fc", "wait_fc"}
    BY <2>1, <1>6
  <2>2. CASE tx[s].state \in {"wait_first_fc", "wait_fc"}
    <3>1. u \in TxRecords /\ u.idx = tx[s].idx /\ u.msg = tx[s].msg /\ u.fcbs \in Nat /\ ~u.timer
      BY <1>4, <1>6 DEF TxRight, TxRecords
    <3>2. u.idx < u.msg[2] /\ u.idx <= u.msg[2]
      BY <2>2, <3>1, <1>6 DEF TxRight
    <3>3. t = IF f.flow = "cts" THEN [u EXCEPT !.state = "sending", !.bs = 0, !.timer = TRUE]
              ELSE IF f.flow = "wt" THEN [u EXCEPT !.state = "wait_fc", !.timer = TRUE]
              ELSE [u EXCEPT !.state = "idle"]
      BY <2>2, <1>4
    <3> HIDE DEF t, u
    <3>4. CASE f.flow = "cts"
      <4>1. u.fcbs = 0 \/ 0 < u.fcbs
        BY <3>1
      <4>2. t = [u EXCEPT !.state = "sending", !.bs = 0, !.timer = TRUE]
        BY <3>3, <3>4
      <4> QED
        BY <3>1, <3>2, <4>1, <4>2 DEF TxRight, TxAttended, TxRecords, TxStates
    <3>5. CASE f.flow = "wt"
      BY <3>1, <3>2, <3>3, <3>5 DEF TxRight, TxAttended, TxRecords, TxStates
    <3>6. CASE f.flow = "ovflw"
      BY <3>1, <3>2, <3>3, <3>6 DEF TxRight, TxAttended, TxRecords, TxStates
    <3> QED
      BY <3>4, <3>5, <3>6, <1>4
  <2> QED
    BY <2>1, <2>2
<1> HIDE DEF t
<1> QED
  BY <1>1, <1>2, <1>3, <1>5, <1>7, <1>8, <1>9, Kept, CallbackKeeps

LEMMA RecvSfKeeps == ASSUME Local, NEW s \in Sockets, RecvSf(s) PROVE Local'
<1> DEFINE r == [rx[s] EXCEPT !.state = "idle", !.timer = FALSE]
<1>1. /\ s \in Sockets \ closed /\ UNCHANGED <<tx, failed>>
      /\ bus[s] # <<>> /\ Head(bus[s]).pci = "SF" /\ Consume(s)
  BY DEF RecvSf, Receive
<1>2. failed' \in Nat /\ failed <= failed'
  BY <1>1, FailedMore
<1>3. bus' \in [Sockets -> Seq(Frames)] /\ Head(bus[s]) \in Frames
  BY <1>1, ConsumeTyped
<1>4. <<Head(bus[s]).piece>> \in Seq(Pieces)
  BY <1>1, <1>3, FrameFields
<1>5. Append(rxQueue[s], <<Head(bus[s]).piece>>) \in Seq(Seq(Pieces))
  BY <1>4, SeqAppend DEF Local
<1>6. /\ rxQueue' \in [Sockets -> Seq(Seq(Pieces))] /\ txQueue' \in [Sockets -> Seq(Messages)]
      /\ hasty' \in BOOLEAN /\ Others
  BY <1>5 DEF RecvSf, Receive, Deliver, Local
<1>7. rx' = [rx EXCEPT ![s] = r] /\ tx' = [tx EXCEPT ![s] = tx[s]]
  BY <1>1, <1>2, Kept DEF RecvSf, Local
<1>8. RxRight(rx[s])
  BY DEF Local
<1>9. RxRight(r) /\ RxAttended(r, failed' + foreign)
  BY <1>8 DEF RxRight, RxAttended, RxRecords
<1> HIDE DEF r
<1> QED
  BY <1>1, <1>2, <1>3, <1>6, <1>7, <1>9, Kept, CallbackKeeps

LEMMA RecvFfKeeps == ASSUME Local, NEW s \in Sockets, RecvFf(s) PROVE Local'
<1> DEFINE f == Head(bus[s])
           u == [rx[s] EXCEPT !.state = "wait_data", !.buf = <<f.piece>>, !.len = f.len, !.sn = 1,
                              !.wait = 0]
           with == [u EXCEPT !.bs = 0, !.timer = TRUE]
           without == [u EXCEPT !.timer = FALSE]
<1>1. /\ s \in Sockets \ closed /\ UNCHANGED <<tx, rxQueue>>
      /\ bus[s] # <<>> /\ f.pci = "FF"
  BY DEF RecvFf, Receive
<1>2. Head(bus[s]) \in Frames /\ Fc("cts", opt[s]) \in Frames
  <2>1. TypeOK
    BY InvIsLocal DEF IsoTpInv
  <2> QED
    BY <2>1, <1>1, SeqTake, FcBuilt DEF Local
<1>3. f.piece \in Pieces /\ f.len \in Nat \ {0, 1}
  BY <1>1, <1>2, FrameFields
<1>4. /\ rxQueue' \in [Sockets -> Seq(Seq(Pieces))] /\ txQueue' \in [Sockets -> Seq(Messages)]
      /\ hasty' \in BOOLEAN /\ Others
  BY DEF RecvFf, Receive, Local
<1>5. rx[s] \in RxRecords /\ rx \in [Sockets -> RxRecords]
  BY DEF Local, RxRight
<1>6. \/ /\ UNCHANGED failed /\ (Consume(s) \/ ConsumeAndPut(s, Fc("cts", opt[s])))
         /\ rx' = [rx EXCEPT ![s] = with]
      \/ Raises /\ Consume(s) /\ rx' = [rx EXCEPT ![s] = without]
  BY DEF RecvFf
<1> HIDE DEF f
<1>7. u \in RxRecords /\ Len(u.buf) < u.len
  <2>1. <<f.piece>> \in Seq(Pieces) /\ Len(<<f.piece>>) < f.len
    BY <1>3
  <2>2. 1 \in 0..SnMod - 1 /\ 0 \in 0..RxPatience - 1
    BY LengthsTyped, ConstantsAssumption DEF ConstantsAssumption
  <2> QED
    BY <2>1, <2>2, <1>3, <1>5 DEF RxRecords
<1> HIDE DEF u
<1>8. RxRight(with) /\ with.timer /\ RxRight(without)
  BY <1>7 DEF RxRight, RxRecords
<1> HIDE DEF with, without
<1>9. bus' \in [Sockets -> Seq(Frames)]
  BY <1>1, <1>2, <1>6, ConsumeTyped, ConsumeAndPutTyped
<1>10. /\ failed' \in Nat /\ failed <= failed'
       /\ Raises => failed' + foreign > 0
  BY <1>6, FailedMore
<1>11. tx' = [tx EXCEPT ![s] = tx[s]]
  BY <1>1, <1>10, Kept
<1>12. CASE rx' = [rx EXCEPT ![s] = with]
  <2>1. RxAttended(with, failed' + foreign)
    BY <1>8 DEF RxAttended
  <2> QED
    BY <2>1, <1>1, <1>4, <1>8, <1>9, <1>10, <1>11, <1>12, Kept, CallbackKeeps
<1>13. CASE Raises /\ rx' = [rx EXCEPT ![s] = without]
  <2>1. RxAttended(without, failed' + foreign)
    BY <1>10, <1>13 DEF RxAttended
  <2> QED
    BY <2>1, <1>1, <1>4, <1>8, <1>9, <1>10, <1>11, <1>13, Kept, CallbackKeeps
<1> QED
  BY <1>6, <1>12, <1>13

LEMMA CfDroppedKeeps == ASSUME Local, NEW s \in Sockets, CfDropped(s) PROVE Local'
<1>1. /\ s \in Sockets \ closed /\ UNCHANGED <<tx, rxQueue, failed>>
      /\ bus[s] # <<>> /\ Head(bus[s]).pci = "CF" /\ Consume(s)
  BY DEF CfDropped, Receive
<1>2. failed' \in Nat /\ failed <= failed'
  BY <1>1, FailedMore
<1>3. bus' \in [Sockets -> Seq(Frames)] /\ Head(bus[s]) \in Frames
  BY <1>1, ConsumeTyped
<1>4. Head(bus[s]).odd => failed' + foreign > 0
  <2>1. Head(bus[s]).odd => foreign > 0
    BY <1>1, <1>3, FrameFields
  <2>2. foreign \in Nat /\ failed \in Nat
    BY DEF Local
  <2> QED
    BY <2>1, <2>2, <1>2, MoreErrors
<1>5. /\ rxQueue' \in [Sockets -> Seq(Seq(Pieces))] /\ txQueue' \in [Sockets -> Seq(Messages)]
      /\ hasty' \in BOOLEAN /\ Others
  BY DEF CfDropped, Receive, Local
<1>6. /\ rx = [rx EXCEPT ![s] = rx[s]] /\ RxRight(rx[s]) /\ RxAttended(rx[s], failed' + foreign)
      /\ rx \in [Sockets -> RxRecords] /\ tx' = [tx EXCEPT ![s] = tx[s]]
  BY <1>1, <1>2, Kept DEF Local
<1>7. PICK r : /\ rx' = [rx EXCEPT ![s] = r]
               /\ \/ r = rx[s]
                  \/ Head(bus[s]).odd /\ r = [rx[s] EXCEPT !.timer = FALSE]
                  \/ r = [rx[s] EXCEPT !.timer = FALSE, !.state = "idle"]
  <2>1. CASE UNCHANGED rx
    BY <2>1, <1>6
  <2>2. CASE Head(bus[s]).odd /\ rx' = [rx EXCEPT ![s].timer = FALSE]
    BY <2>2, <1>6
  <2>3. CASE rx' = [rx EXCEPT ![s].timer = FALSE, ![s].state = "idle"]
    <3>1. rx' = [rx EXCEPT ![s] = [rx[s] EXCEPT !.timer = FALSE, !.state = "idle"]]
      BY <2>3, <1>6
    <3> QED
      BY <3>1
  <2> QED
    BY <2>1, <2>2, <2>3 DEF CfDropped
<1>8. RxRight(r) /\ RxAttended(r, failed' + foreign)
  BY <1>4, <1>6, <1>7 DEF RxRight, RxAttended, RxRecords
<1> QED
  BY <1>1, <1>2, <1>3, <1>5, <1>6, <1>7, <1>8, Kept, CallbackKeeps

LEMMA RecvCfKeeps == ASSUME Local, NEW s \in Sockets, RecvCf(s) PROVE Local'
<1> DEFINE f == Head(bus[s])
           b == Append(rx[s].buf, f.piece)
<1>1. /\ s \in Sockets \ closed /\ UNCHANGED tx
      /\ bus[s] # <<>> /\ f.pci = "CF" /\ rx[s].state = "wait_data"
  BY DEF RecvCf, Receive
<1>2. f \in Frames /\ Fc("cts", opt[s]) \in Frames
  <2>1. TypeOK
    BY InvIsLocal DEF IsoTpInv
  <2> QED
    BY <2>1, <1>1, SeqTake, FcBuilt DEF Local
<1>3. rx[s] \in RxRecords /\ rx \in [Sockets -> RxRecords]
  BY DEF Local, RxRight
<1>4. b \in Seq(Pieces)
  <2>1. f.piece \in Pieces /\ rx[s].buf \in Seq(Pieces)
    BY <1>1, <1>2, <1>3, FrameFields DEF RxRecords
  <2> QED
    BY <2>1, SeqAppend
<1>5. Append(rxQueue[s], b) \in Seq(Seq(Pieces))
  BY <1>4, SeqAppend DEF Local
\* The record when the frame is taken.
<1>6. PICK w \in 0..RxPatience - 1 :
        LET r == [rx[s] EXCEPT !.buf = b, !.sn = (@ + 1) % SnMod, !.wait = w, !.timer = TRUE]
        IN  \/ /\ rx' = [rx EXCEPT ![s] = [r EXCEPT !.buf = <<>>, !.state = "idle",
                                                    !.timer = FALSE]]
               /\ Deliver(s, b) /\ Consume(s) /\ UNCHANGED failed
            \/ /\ Len(b) < rx[s].len
               /\ rx' = [rx EXCEPT ![s] = IF opt[s].bs = 0 THEN r ELSE [r EXCEPT !.bs = r.bs + 1]]
               /\ Consume(s) /\ UNCHANGED <<rxQueue, failed>>
            \/ /\ Len(b) < rx[s].len
               /\ rx' = [rx EXCEPT ![s] = [r EXCEPT !.bs = 0]]
               /\ ConsumeAndPut(s, Fc("cts", opt[s])) /\ UNCHANGED <<rxQueue, failed>>
            \/ /\ Len(b) < rx[s].len /\ Raises
               /\ rx' = [rx EXCEPT ![s] = [r EXCEPT !.bs = 0, !.timer = FALSE]]
               /\ Consume(s) /\ UNCHANGED rxQueue
  BY DEF RecvCf
<1> DEFINE r == [rx[s] EXCEPT !.buf = b, !.sn = (@ + 1) % SnMod, !.wait = w, !.timer = TRUE]
<1> HIDE DEF b
<1>7. r \in RxRecords /\ r.buf = b /\ r.len = rx[s].len /\ r.timer /\ r.bs \in Nat
  <2>1. (rx[s].sn + 1) % SnMod \in 0..SnMod - 1
    <3>1. rx[s].sn \in 0..SnMod - 1 /\ SnMod \in Nat
      BY <1>3, ConstantsAssumption DEF ConstantsAssumption, RxRecords
    <3>2. rx[s].sn + 1 \in Nat
      BY <3>1
    <3> QED
      BY <3>2, Modulo
  <2> QED
    BY <2>1, <1>3, <1>4 DEF RxRecords
<1>8. \/ /\ rx' = [rx EXCEPT ![s] = [r EXCEPT !.buf = <<>>, !.state = "idle", !.timer = FALSE]]
         /\ Deliver(s, b) /\ Consume(s) /\ UNCHANGED failed
      \/ /\ Len(b) < rx[s].len
         /\ rx' = [rx EXCEPT ![s] = IF opt[s].bs = 0 THEN r ELSE [r EXCEPT !.bs = r.bs + 1]]
         /\ Consume(s) /\ UNCHANGED <<rxQueue, failed>>
      \/ /\ Len(b) < rx[s].len
         /\ rx' = [rx EXCEPT ![s] = [r EXCEPT !.bs = 0]]
         /\ ConsumeAndPut(s, Fc("cts", opt[s])) /\ UNCHANGED <<rxQueue, failed>>
      \/ /\ Len(b) < rx[s].len /\ Raises
         /\ rx' = [rx EXCEPT ![s] = [r EXCEPT !.bs = 0, !.timer = FALSE]]
         /\ Consume(s) /\ UNCHANGED rxQueue
  BY <1>6
<1> HIDE DEF r, f
<1>9. bus' \in [Sockets -> Seq(Frames)]
  BY <1>1, <1>2, <1>8, ConsumeTyped, ConsumeAndPutTyped
<1>10. /\ failed' \in Nat /\ failed <= failed'
       /\ Raises => failed' + foreign > 0
  BY <1>8, FailedMore
<1>11. tx' = [tx EXCEPT ![s] = tx[s]]
  BY <1>1, <1>10, Kept
<1>12. /\ txQueue' \in [Sockets -> Seq(Messages)] /\ hasty' \in BOOLEAN /\ Others
       /\ rxQueue \in [Sockets -> Seq(Seq(Pieces))]
  BY DEF RecvCf, Receive, Local
<1>13. rxQueue' \in [Sockets -> Seq(Seq(Pieces))]
  BY <1>5, <1>8, <1>12 DEF Deliver
<1>14. PICK q : rx' = [rx EXCEPT ![s] = q] /\ RxRight(q) /\ RxAttended(q, failed' + foreign)
  <2>1. CASE rx' = [rx EXCEPT ![s] = [r EXCEPT !.buf = <<>>, !.state = "idle", !.timer = FALSE]]
    <3> DEFINE q == [r EXCEPT !.buf = <<>>, !.state = "idle", !.timer = FALSE]
    <3>1. <<>> \in Seq(Pieces)
      OBVIOUS
    <3>2. q \in RxRecords /\ q.state = "idle"
      BY <1>7, <3>1 DEF RxRecords
    <3>3. RxRight(q) /\ RxAttended(q, failed' + foreign)
      BY <3>2 DEF RxRight, RxAttended
    <3> QED
      BY <3>3, <2>1
  <2>2. CASE /\ Len(b) < rx[s].len
             /\ rx' = [rx EXCEPT ![s] = IF opt[s].bs = 0 THEN r ELSE [r EXCEPT !.bs = r.bs + 1]]
    <3> DEFINE q == IF opt[s].bs = 0 THEN r ELSE [r EXCEPT !.bs = r.bs + 1]
    <3>1. r.bs + 1 \in Nat
      BY <1>7
    <3>2. RxRight(q) /\ RxAttended(q, failed' + foreign)
      BY <1>7, <2>2, <3>1 DEF RxRight, RxAttended, RxRecords
    <3> QED
      BY <3>2, <2>2
  <2>3. CASE Len(b) < rx[s].len /\ rx' = [rx EXCEPT ![s] = [r EXCEPT !.bs = 0]]
    <3> DEFINE q == [r EXCEPT !.bs = 0]
    <3>1. RxRight(q) /\ RxAttended(q, failed' + foreign)
      BY <1>7, <2>3 DEF RxRight, RxAttended, RxRecords
    <3> QED
      BY <3>1, <2>3
  <2>4. CASE /\ Len(b) < rx[s].len /\ Raises
             /\ rx' = [rx EXCEPT ![s] = [r EXCEPT !.bs = 0, !.timer = FALSE]]
    <3> DEFINE q == [r EXCEPT !.bs = 0, !.timer = FALSE]
    <3>1. RxRight(q) /\ RxAttended(q, failed' + foreign)
      BY <1>7, <1>10, <2>4 DEF RxRight, RxAttended, RxRecords
    <3> QED
      BY <3>1, <2>4
  <2> QED
    BY <1>8, <2>1, <2>2, <2>3, <2>4
<1> QED
  BY <1>1, <1>9, <1>10, <1>11, <1>12, <1>13, <1>14, Kept, CallbackKeeps

LEMMA RxTimerKeeps == ASSUME Local, NEW s \in Sockets, RxTimer(s) PROVE Local'
<1> DEFINE r == IF rx[s].wait + 1 < RxPatience THEN [rx[s] EXCEPT !.wait = @ + 1]
                ELSE [rx[s] EXCEPT !.state = "idle", !.timer = FALSE]
<1>1. s \in Sockets \ closed /\ UNCHANGED <<tx, failed>> /\ rx[s].timer
  BY DEF RxTimer
<1>2. failed' \in Nat /\ failed <= failed'
  BY <1>1, FailedMore
<1>3. rx' = [rx EXCEPT ![s] = r] /\ tx' = [tx EXCEPT ![s] = tx[s]]
  <2>1. rx' = [rx EXCEPT ![s] = r]
    BY DEF RxTimer
  <2> QED
    BY <1>1, <1>2, <2>1, Kept
<1>4. RxRight(rx[s])
  BY DEF Local
<1>5. RxRight(r) /\ RxAttended(r, failed' + foreign)
  <2>1. CASE rx[s].wait + 1 < RxPatience
    <3>1. rx[s].wait + 1 \in 0..RxPatience - 1
      BY <2>1, <1>4, ConstantsAssumption DEF ConstantsAssumption, RxRight, RxRecords
    <3> QED
      BY <1>1, <1>4, <2>1, <3>1 DEF RxRight, RxAttended, RxRecords
  <2>2. CASE ~(rx[s].wait + 1 < RxPatience)
    BY <1>4, <2>2 DEF RxRight, RxAttended, RxRecords
  <2> QED
    BY <2>1, <2>2
<1>6. /\ bus' \in [Sockets -> Seq(Frames)] /\ rxQueue' \in [Sockets -> Seq(Seq(Pieces))]
      /\ txQueue' \in [Sockets -> Seq(Messages)] /\ hasty' \in BOOLEAN /\ Others
  BY DEF RxTimer, Local, OnTheWay
<1> HIDE DEF r
<1> QED
  BY <1>1, <1>2, <1>3, <1>5, <1>6, Kept, CallbackKeeps

\* What is no callback leaves the invariant, too.
LEMMA SendKeeps == ASSUME Local, NEW s \in Sockets, Send(s) PROVE Local'
<1>1. PICK n \in Lengths : /\ sent' = [sent EXCEPT ![s] = @ + 1]
                           /\ txQueue' = [txQueue EXCEPT ![s] = Append(@, <<sent'[s], n>>)]
                           /\ UNCHANGED <<opt, bus, tx, rx, rxQueue, closed, lost, foreign,
                                          failed, hasty>>
  BY DEF Send
<1>2. sent \in [Sockets -> Nat] /\ txQueue \in [Sockets -> Seq(Messages)]
  BY DEF Local
<1>3. sent' \in [Sockets -> Nat] /\ sent'[s] \in Nat \ {0}
  BY <1>1, <1>2
<1>4. <<sent'[s], n>> \in Messages
  BY <1>3 DEF Messages
<1>5. Append(txQueue[s], <<sent'[s], n>>) \in Seq(Messages)
  BY <1>2, <1>4, SeqAppend
<1>6. txQueue' \in [Sockets -> Seq(Messages)]
  BY <1>1, <1>2, <1>5
<1>7. Frames' = Frames
  BY <1>1 DEF Frames
<1> QED
  BY <1>1, <1>3, <1>6, <1>7 DEF Local

LEMMA CloseKeeps == ASSUME Local, NEW s \in Sockets, Close(s) PROVE Local'
<1> DEFINE t == [tx[s] EXCEPT !.timer = FALSE]
           r == [rx[s] EXCEPT !.timer = FALSE]
<1>1. /\ closed' = closed \cup {s} /\ s \in MayClose
      /\ UNCHANGED <<opt, bus, txQueue, rxQueue, sent, lost, foreign, failed, hasty>>
  BY DEF Close
<1>2. tx' = [tx EXCEPT ![s] = t] /\ rx' = [rx EXCEPT ![s] = r]
  BY DEF Close, Local
<1>3. TxRight(tx[s]) /\ RxRight(rx[s])
  BY DEF Local
<1>4. TxRight(t) /\ RxRight(r)
  BY <1>3 DEF TxRight, RxRight, TxRecords, RxRecords
<1>5. t \in TxRecords /\ r \in RxRecords
  BY <1>4 DEF TxRight, RxRight
<1> HIDE DEF t, r
<1>6. tx' \in [Sockets -> TxRecords] /\ rx' \in [Sockets -> RxRecords]
  BY <1>2, <1>5 DEF Local
<1>7. ASSUME NEW o \in Sockets
      PROVE  /\ TxRight(tx'[o]) /\ RxRight(rx'[o])
             /\ o \notin closed' =>
                  TxAttended(tx'[o], failed) /\ RxAttended(rx'[o], failed + foreign)
  <2>1. CASE o = s
    BY <2>1, <1>1, <1>2, <1>4 DEF Local
  <2>2. CASE o # s
    BY <2>2, <1>1, <1>2 DEF Local
  <2> QED
    BY <2>1, <2>2
<1>8. Frames' = Frames
  BY <1>1 DEF Frames
<1> QED
  BY <1>1, <1>6, <1>7, <1>8 DEF Local

LEMMA LoseFrameKeeps == ASSUME Local, NEW s \in Sockets, LoseFrame(s) PROVE Local'
<1>1. /\ bus[s] # <<>> /\ Consume(s) /\ lost' = lost + 1
      /\ UNCHANGED <<opt, tx, rx, txQueue, rxQueue, closed, sent, foreign, failed, hasty>>
  BY DEF LoseFrame
<1>2. bus' \in [Sockets -> Seq(Frames)]
  BY <1>1, ConsumeTyped
<1>3. lost' \in Nat
  BY <1>1 DEF Local
<1>4. Frames' = Frames
  BY <1>1 DEF Frames
<1> QED
  BY <1>1, <1>2, <1>3, <1>4 DEF Local

LEMMA ForeignKeeps == ASSUME Local, NEW s \in Sockets, Foreign(s) PROVE Local'
<1> DEFINE Odd == [Cf(Nobody, 0, 0) EXCEPT !.odd = TRUE]
<1>1. PICK f \in {Fc("cts", opt[Peer[s]]), Fc("wt", opt[Peer[s]]), Fc("ovflw", opt[Peer[s]]), Odd} :
        bus' = [bus EXCEPT ![s] = Append(@, f)]
  BY DEF Foreign
<1>2. UNCHANGED <<opt, tx, rx, txQueue, rxQueue, closed, sent, lost, failed, hasty>>
  BY DEF Foreign
<1>3. foreign \in Nat /\ failed \in Nat
  BY DEF Local
<1>4. foreign' \in Nat /\ foreign' > 0 /\ failed + foreign' > 0
  BY <1>3 DEF Foreign
\* More frames are possible than before, and f is one of them.
<1>5. Frames \subseteq Frames'
  BY <1>4 DEF Frames
<1>6. f \in Frames'
  <2>1. TypeOK
    BY InvIsLocal DEF IsoTpInv
  <2>2. Odd \in Frames'
    <3>1. Piece(Nobody, 0) \in Pieces /\ 0 \in 0..SnMod - 1
      BY LengthsTyped DEF Piece, Pieces
    <3> QED
      BY <3>1, <1>4 DEF Cf, Frames
  <2> QED
    BY <2>1, <2>2, <1>5, Peers, FcBuilt
<1>7. bus' \in [Sockets -> Seq(Frames')]
  <2>1. \A o \in Sockets : bus[o] \in Seq(Frames')
    BY <1>5, SeqMore DEF Local
  <2>2. Append(bus[s], f) \in Seq(Frames')
    BY <2>1, <1>6, SeqAppend
  <2>3. bus \in [Sockets -> Seq(Frames')]
    BY <2>1 DEF Local
  <2> QED
    BY <1>1, <2>2, <2>3
<1>8. ASSUME NEW o \in Sockets \ closed
      PROVE  TxAttended(tx[o], failed) /\ RxAttended(rx[o], failed + foreign')
  BY <1>4 DEF Local, RxAttended
<1> QED
  BY <1>2, <1>4, <1>7, <1>8 DEF Local

-----------------------------------------------------------------------------

LEMMA InvInit == Init => Local
<1> SUFFICES ASSUME Init PROVE Local
  OBVIOUS
<1>1. 0 \in 0..SnMod - 1 /\ 0 \in 0..RxPatience - 1
  BY LengthsTyped, ConstantsAssumption DEF ConstantsAssumption
<1> DEFINE t == [state |-> "idle", msg |-> Nobody, idx |-> 0, sn |-> 0, bs |-> 0,
                 fcbs |-> 0, gap |-> FALSE, timer |-> FALSE]
           r == [state |-> "idle", buf |-> <<>>, len |-> 0, sn |-> 0, bs |-> 0,
                 wait |-> 0, timer |-> FALSE]
<1>2. t \in TxRecords /\ r \in RxRecords
  BY <1>1 DEF TxRecords, RxRecords, TxStates
<1>3. TxRight(t) /\ RxRight(r) /\ TxAttended(t, failed) /\ RxAttended(r, failed + foreign)
  BY <1>2 DEF TxRight, RxRight, TxAttended, RxAttended, Nobody
<1>4. tx = [s \in Sockets |-> t] /\ rx = [s \in Sockets |-> r]
  BY DEF Init
<1> HIDE DEF t, r
<1>5. <<>> \in Seq(Frames) /\ <<>> \in Seq(Messages) /\ <<>> \in Seq(Seq(Pieces))
  OBVIOUS
<1>6. /\ DOMAIN opt = Sockets /\ \A s \in Sockets : opt[s] \in Options[s]
      /\ bus \in [Sockets -> Seq(Frames)]
      /\ txQueue \in [Sockets -> Seq(Messages)] /\ rxQueue \in [Sockets -> Seq(Seq(Pieces))]
      /\ closed \subseteq MayClose
      /\ sent \in [Sockets -> Nat] /\ {lost, foreign, failed} \subseteq Nat
      /\ hasty \in BOOLEAN
  <2>1. DOMAIN opt = Sockets /\ \A s \in Sockets : opt[s] \in Options[s]
    BY DEF Init
  <2>2. /\ bus \in [Sockets -> Seq(Frames)]
        /\ txQueue \in [Sockets -> Seq(Messages)] /\ rxQueue \in [Sockets -> Seq(Seq(Pieces))]
    BY <1>5 DEF Init
  <2>3. closed \subseteq MayClose /\ sent \in [Sockets -> Nat] /\ hasty \in BOOLEAN
    BY DEF Init
  <2>4. lost = 0 /\ foreign = 0 /\ failed = 0
    BY DEF Init
  <2> QED
    BY <2>1, <2>2, <2>3, <2>4
<1> QED
  BY <1>2, <1>3, <1>4, <1>6 DEF Local

LEMMA InvStep == Local /\ [Next]_vars => Local'
<1> SUFFICES ASSUME Local, [Next]_vars PROVE Local'
  OBVIOUS
<1>1. ASSUME NEW s \in Sockets, Callback(s) PROVE Local'
  BY <1>1, BeginSendKeeps, SendFramesKeeps, TxTimeoutKeeps, RecvFcKeeps, RecvSfKeeps,
     RecvFfKeeps, CfDroppedKeeps, RecvCfKeeps, RxTimerKeeps DEF Callback
<1>2. CASE UNCHANGED vars
  <2>1. Frames' = Frames
    BY <1>2 DEF Frames, vars
  <2> QED
    BY <1>2, <2>1 DEF Local, vars
<1> QED
  BY <1>1, <1>2, SendKeeps, CloseKeeps, LoseFrameKeeps, ForeignKeeps DEF Next

\* The invariant of the proofs.
THEOREM Invariant == Spec => []IsoTpInv
  BY InvInit, InvStep, InvIsLocal, PTL DEF Spec

\* Sequence numbers stay below the modulus, no index exceeds the length of its
\* message and no buffer the announced length, however many messages are sent.
THEOREM IsoTpTyped == Spec => []TypeOK
<1>1. IsoTpInv => TypeOK
  BY DEF IsoTpInv
<1> QED
  BY <1>1, Invariant, PTL

\* A socket that waits for flow control has a timer, whatever happens; one that
\* waits for the separation time has, unless can_send() raised; and one that
\* waits for consecutive frames, unless can_send() raised or a foreign frame came,
\* since one of the wrong size takes the timer away.
THEOREM WaitsEnd == Spec => []NeverUnattended
<1>1. IsoTpInv => NeverUnattended
  BY DEF IsoTpInv
<1> QED
  BY <1>1, Invariant, PTL

-----------------------------------------------------------------------------
(* Integrity: a socket and its peer as a channel, the frames with pieces on *)
(* their way along it, X, and the flow control frames on their way back.    *)

Data(f) == f.pci \in {"SF", "FF"} \/ (f.pci = "CF" /\ ~f.odd)
Opens(f) == f.pci \in {"SF", "FF"}
Underway(q) == {f \in Range(q) : Data(f)}

\* One piece is sent before another.
Before(x, y) == x[1][1] < y[1][1] \/ (x[1] = y[1] /\ x[2] < y[2])
NotAfter(x, y) == x = y \/ Before(x, y)
Placed(x) == x[1][1] \in Nat /\ x[2] \in Nat
InOrder(q) ==
  \A i, j \in DOMAIN q : i < j /\ Data(q[i]) /\ Data(q[j]) => Before(q[i].piece, q[j].piece)

\* The flow control frames on a bus.
Answer(f) == f.pci = "FC"
Answered(a) == \E f \in Range(a) : Answer(f)
OneAnswer(a) == \A i, j \in DOMAIN a : Answer(a[i]) /\ Answer(a[j]) => i = j
AnswersOf(a, bs) == \A f \in Range(a) : Answer(f) => f.flow = "cts" /\ f.bs = bs

Waiting(r) == r.state = "wait_data"
First(r) == r.buf[1][1]
Latest(r) == r.buf[Len(r.buf)]
Waits(t) == t.state \in {"wait_first_fc", "wait_fc"}
Active(t) == Waits(t) \/ (t.state = "sending" /\ t.timer)
Stuck(t) == t.state = "sending" /\ ~t.timer

PieceOf(x, n) == x[1] \in Messages /\ x[1][1] <= n /\ x[2] \in 1..x[1][2]
FrameOf(f, n) ==
  /\ Data(f) /\ PieceOf(f.piece, n)
  /\ f.pci = "SF" => f.piece[1][2] = 1
  /\ f.pci = "FF" => f.piece[2] = 1 /\ f.len = f.piece[1][2] /\ f.len # 1
  /\ f.pci = "CF" => f.piece[2] # 1

-----------------------------------------------------------------------------

LEMMA BeforeTrans ==
  ASSUME NEW x, NEW y, NEW z, Placed(x), Placed(y), Placed(z), Before(x, y), Before(y, z)
  PROVE  Before(x, z)
  BY DEF Placed, Before
LEMMA BeforeAsym ==
  ASSUME NEW x, NEW y, Placed(x), Placed(y), Before(x, y) PROVE ~NotAfter(y, x) /\ x # y
  BY DEF Placed, Before, NotAfter
LEMMA NotAfterBefore ==
  ASSUME NEW x, NEW y, NEW z, Placed(x), Placed(y), Placed(z), NotAfter(x, y), Before(y, z)
  PROVE  Before(x, z)
  BY BeforeTrans DEF NotAfter

LEMMA PiecesPlaced ==
  ASSUME NEW n, NEW x, PieceOf(x, n)
  PROVE  Placed(x) /\ x[1] \in Messages /\ x[1][1] \in Nat \ {0} /\ x[1][2] \in Nat \ {0}
<1>1. x[1] \in Messages /\ x[1][1] \in Nat \ {0} /\ x[1][2] \in Nat \ {0}
  BY ConstantsAssumption DEF ConstantsAssumption, PieceOf, Messages
<1>2. x[2] \in Nat
  BY <1>1 DEF PieceOf
<1> QED
  BY <1>1, <1>2 DEF Placed

-----------------------------------------------------------------------------
(* What a step does to the frames on a bus                                 *)

LEMMA TailRange ==
  ASSUME NEW S, NEW q \in Seq(S), q # <<>>
  PROVE  /\ Tail(q) \in Seq(S) /\ Head(q) \in Range(q) /\ Head(q) = q[1] /\ 1 \in DOMAIN q
         /\ Len(Tail(q)) = Len(q) - 1
         /\ \A i \in DOMAIN Tail(q) : i + 1 \in DOMAIN q /\ Tail(q)[i] = q[i + 1]
         /\ Range(Tail(q)) \subseteq Range(q)
         /\ \A f \in Range(q) : f = Head(q) \/ f \in Range(Tail(q))
<1>1. /\ Tail(q) \in Seq(S) /\ Head(q) = q[1] /\ Len(Tail(q)) = Len(q) - 1 /\ Len(q) \in Nat
      /\ Len(q) >= 1 /\ DOMAIN q = 1..Len(q) /\ DOMAIN Tail(q) = 1..Len(q) - 1
  OBVIOUS
<1>2. \A i \in DOMAIN Tail(q) : i + 1 \in DOMAIN q /\ Tail(q)[i] = q[i + 1]
  OBVIOUS
<1>3. ASSUME NEW f \in Range(q), f # Head(q) PROVE f \in Range(Tail(q))
  <2>1. PICK i \in DOMAIN q : f = q[i]
    BY DEF Range
  <2>2. i - 1 \in DOMAIN Tail(q) /\ Tail(q)[i - 1] = q[i]
    BY <1>1, <1>3, <2>1
  <2> QED
    BY <2>1, <2>2 DEF Range
<1>4. 1 \in DOMAIN q /\ Head(q) \in Range(q)
  BY <1>1 DEF Range
<1>5. Range(Tail(q)) \subseteq Range(q)
  BY <1>2 DEF Range
<1> QED
  BY <1>1, <1>2, <1>3, <1>4, <1>5

LEMMA ConcatRange ==
  ASSUME NEW S, NEW q \in Seq(S), NEW p \in Seq(S)
  PROVE  /\ Range(q \o p) = Range(q) \cup Range(p)
         /\ Len(q \o p) = Len(q) + Len(p)
         /\ \A i \in DOMAIN (q \o p) : \/ i \in DOMAIN q /\ (q \o p)[i] = q[i]
                                       \/ /\ i > Len(q) /\ i - Len(q) \in DOMAIN p
                                          /\ (q \o p)[i] = p[i - Len(q)]
<1>1. /\ Len(q) \in Nat /\ Len(p) \in Nat /\ DOMAIN q = 1..Len(q) /\ DOMAIN p = 1..Len(p)
      /\ Len(q \o p) = Len(q) + Len(p) /\ DOMAIN (q \o p) = 1..Len(q) + Len(p)
  OBVIOUS
<1>2. \A i \in DOMAIN (q \o p) : \/ i \in DOMAIN q /\ (q \o p)[i] = q[i]
                                 \/ /\ i > Len(q) /\ i - Len(q) \in DOMAIN p
                                    /\ (q \o p)[i] = p[i - Len(q)]
  OBVIOUS
<1>3. Range(q \o p) \subseteq Range(q) \cup Range(p)
  BY <1>2 DEF Range
<1>4. ASSUME NEW i \in DOMAIN q PROVE i \in DOMAIN (q \o p) /\ (q \o p)[i] = q[i]
  BY <1>1
<1>5. ASSUME NEW i \in DOMAIN p
      PROVE  Len(q) + i \in DOMAIN (q \o p) /\ (q \o p)[Len(q) + i] = p[i]
  BY <1>1
<1>6. Range(q) \cup Range(p) \subseteq Range(q \o p)
  BY <1>4, <1>5 DEF Range
<1> QED
  BY <1>1, <1>2, <1>3, <1>6

\* The head of a bus, read or lost.
LEMMA HeadGone ==
  ASSUME NEW S, NEW q \in Seq(S), q # <<>>, InOrder(q)
  PROVE  /\ InOrder(Tail(q)) /\ Underway(Tail(q)) \subseteq Underway(q)
         /\ ~Data(Head(q)) => Underway(Tail(q)) = Underway(q)
         /\ Data(Head(q)) =>
              /\ Head(q) \in Underway(q)
              /\ \A f \in Underway(Tail(q)) : Before(Head(q).piece, f.piece)
              /\ \A f \in Underway(q) : f = Head(q) \/ f \in Underway(Tail(q))
         /\ Answered(Tail(q)) => Answered(q)
         /\ OneAnswer(q) => OneAnswer(Tail(q)) /\ (Answer(Head(q)) => ~Answered(Tail(q)))
         /\ \A bs : AnswersOf(q, bs) => AnswersOf(Tail(q), bs)
<1>1. /\ Head(q) \in Range(q) /\ Head(q) = q[1] /\ 1 \in DOMAIN q
      /\ \A i \in DOMAIN Tail(q) : i + 1 \in DOMAIN q /\ Tail(q)[i] = q[i + 1]
      /\ Range(Tail(q)) \subseteq Range(q)
      /\ \A f \in Range(q) : f = Head(q) \/ f \in Range(Tail(q))
  BY TailRange
<1>2. \A i \in DOMAIN Tail(q) : i \in Nat /\ 1 < i + 1 /\ 1 # i + 1
  OBVIOUS
<1>3. InOrder(Tail(q))
  <2> SUFFICES ASSUME NEW i \in DOMAIN Tail(q), NEW j \in DOMAIN Tail(q), i < j,
                      Data(Tail(q)[i]), Data(Tail(q)[j])
               PROVE  Before(Tail(q)[i].piece, Tail(q)[j].piece)
    BY DEF InOrder
  <2>1. i + 1 < j + 1
    BY <1>2
  <2> QED
    BY <1>1, <2>1 DEF InOrder
<1>4. ASSUME Data(Head(q)), NEW f \in Underway(Tail(q)) PROVE Before(Head(q).piece, f.piece)
  <2>1. PICK i \in DOMAIN Tail(q) : f = Tail(q)[i] /\ Data(f)
    BY DEF Underway, Range
  <2> QED
    BY <1>1, <1>2, <1>4, <2>1 DEF InOrder
<1>5. ASSUME OneAnswer(q) PROVE OneAnswer(Tail(q)) /\ (Answer(Head(q)) => ~Answered(Tail(q)))
  <2>1. OneAnswer(Tail(q))
    <3> SUFFICES ASSUME NEW i \in DOMAIN Tail(q), NEW j \in DOMAIN Tail(q),
                        Answer(Tail(q)[i]), Answer(Tail(q)[j])
                 PROVE  i = j
      BY DEF OneAnswer
    <3>1. i + 1 = j + 1
      BY <1>1, <1>5 DEF OneAnswer
    <3> QED
      BY <1>2, <3>1
  <2>2. ASSUME Answer(Head(q)), NEW f \in Range(Tail(q)), Answer(f) PROVE FALSE
    <3>1. PICK i \in DOMAIN Tail(q) : f = Tail(q)[i]
      BY DEF Range
    <3> QED
      BY <1>1, <1>2, <1>5, <2>2, <3>1 DEF OneAnswer
  <2> QED
    BY <2>1, <2>2 DEF Answered
<1>6. /\ Answered(Tail(q)) => Answered(q)
      /\ \A bs : AnswersOf(q, bs) => AnswersOf(Tail(q), bs)
  BY <1>1 DEF Answered, AnswersOf
<1> QED
  BY <1>1, <1>3, <1>4, <1>5, <1>6 DEF Underway

\* Frames put on a bus behind the others.
LEMMA FramesPut ==
  ASSUME NEW S, NEW q \in Seq(S), NEW p \in Seq(S), InOrder(q), InOrder(p),
         \A f \in Underway(q), g \in Underway(p) : Before(f.piece, g.piece)
  PROVE  InOrder(q \o p) /\ Underway(q \o p) = Underway(q) \cup Underway(p)
<1>1. /\ Range(q \o p) = Range(q) \cup Range(p)
      /\ \A i \in DOMAIN (q \o p) : \/ i \in DOMAIN q /\ (q \o p)[i] = q[i]
                                    \/ /\ i > Len(q) /\ i - Len(q) \in DOMAIN p
                                       /\ (q \o p)[i] = p[i - Len(q)]
  BY ConcatRange
<1>2. Underway(q \o p) = Underway(q) \cup Underway(p)
  BY <1>1 DEF Underway
<1>3. ASSUME NEW i \in DOMAIN (q \o p), NEW j \in DOMAIN (q \o p), i < j,
             Data((q \o p)[i]), Data((q \o p)[j])
      PROVE  Before((q \o p)[i].piece, (q \o p)[j].piece)
  <2>1. i \in Nat /\ j \in Nat /\ Len(q) \in Nat /\ \A k \in DOMAIN q : k <= Len(q)
    OBVIOUS
  <2>2. CASE i \in DOMAIN q /\ (q \o p)[i] = q[i] /\ j \in DOMAIN q /\ (q \o p)[j] = q[j]
    BY <1>3, <2>2 DEF InOrder
  <2>3. CASE /\ i \in DOMAIN q /\ (q \o p)[i] = q[i]
             /\ j - Len(q) \in DOMAIN p /\ (q \o p)[j] = p[j - Len(q)]
    BY <1>3, <2>3 DEF Underway, Range
  <2>4. CASE /\ i > Len(q) /\ i - Len(q) \in DOMAIN p /\ (q \o p)[i] = p[i - Len(q)]
             /\ j - Len(q) \in DOMAIN p /\ (q \o p)[j] = p[j - Len(q)]
    <3>1. i - Len(q) < j - Len(q)
      BY <1>3, <2>1
    <3> QED
      BY <1>3, <2>4, <3>1 DEF InOrder
  <2>5. ~(i > Len(q) /\ j \in DOMAIN q)
    BY <1>3, <2>1
  <2> QED
    BY <1>1, <2>2, <2>3, <2>4, <2>5
<1> QED
  BY <1>2, <1>3 DEF InOrder

\* A frame without a piece put on a bus, and a frame that is no answer.
LEMMA FramePut ==
  ASSUME NEW S, NEW q \in Seq(S), NEW f \in S
  PROVE  /\ Append(q, f) \in Seq(S) /\ Range(Append(q, f)) = Range(q) \cup {f}
         /\ ~Data(f) => /\ Underway(Append(q, f)) = Underway(q)
                        /\ InOrder(q) => InOrder(Append(q, f))
         /\ ~Answered(q) => OneAnswer(Append(q, f))
<1>1. /\ Append(q, f) \in Seq(S) /\ DOMAIN q = 1..Len(q) /\ Len(q) \in Nat
      /\ DOMAIN Append(q, f) = 1..Len(q) + 1
      /\ \A i \in DOMAIN Append(q, f) : \/ i \in DOMAIN q /\ Append(q, f)[i] = q[i]
                                        \/ i = Len(q) + 1 /\ Append(q, f)[i] = f
      /\ \A i \in DOMAIN q : i \in DOMAIN Append(q, f) /\ Append(q, f)[i] = q[i]
      /\ Len(q) + 1 \in DOMAIN Append(q, f) /\ Append(q, f)[Len(q) + 1] = f
  OBVIOUS
<1>2. Range(Append(q, f)) = Range(q) \cup {f}
  BY <1>1 DEF Range
<1>3. ASSUME ~Data(f), InOrder(q) PROVE InOrder(Append(q, f))
  BY <1>1, <1>3 DEF InOrder
<1>4. ASSUME ~Answered(q) PROVE OneAnswer(Append(q, f))
  <2>1. \A i \in DOMAIN q : ~Answer(q[i])
    BY <1>4 DEF Answered, Range
  <2> QED
    BY <1>1, <2>1 DEF OneAnswer
<1> QED
  BY <1>1, <1>2, <1>3, <1>4 DEF Underway

\* Frames that are no answers leave the answers as they are.
LEMMA AnswersKept ==
  ASSUME NEW S, NEW q \in Seq(S), NEW p \in Seq(S), ~Answered(p)
  PROVE  /\ Answered(q \o p) => Answered(q)
         /\ OneAnswer(q) => OneAnswer(q \o p)
         /\ \A bs : AnswersOf(q, bs) => AnswersOf(q \o p, bs)
<1>1. /\ Range(q \o p) = Range(q) \cup Range(p)
      /\ \A i \in DOMAIN (q \o p) : \/ i \in DOMAIN q /\ (q \o p)[i] = q[i]
                                    \/ /\ i > Len(q) /\ i - Len(q) \in DOMAIN p
                                       /\ (q \o p)[i] = p[i - Len(q)]
  BY ConcatRange
<1>2. \A i \in DOMAIN p : ~Answer(p[i])
  BY DEF Answered, Range
<1> QED
  BY <1>1, <1>2 DEF Answered, OneAnswer, AnswersOf

-----------------------------------------------------------------------------
(* What always holds of a channel: X are the frames on their way to the     *)
(* receiver, r its record, t the one of the sender, w the queue of the       *)
(* sender, d what was delivered, n how many messages were sent.             *)

StreamRight(X, r, n) ==
  /\ \A f \in X : FrameOf(f, n)
  /\ Waiting(r) =>
       /\ PieceOf(Latest(r), n) /\ First(r) \in Messages /\ First(r)[1] <= n
       /\ r.buf # <<>> /\ r.len = First(r)[2]
       /\ \A f \in X : Before(Latest(r), f.piece) /\ (Opens(f) => First(r)[1] < f.piece[1][1])

QueueRight(X, r, w, n) ==
  /\ \A i, j \in DOMAIN w : i < j => w[i][1] < w[j][1]
  /\ \A j \in DOMAIN w :
       /\ w[j][1] <= n
       /\ \A f \in X : f.piece[1][1] < w[j][1]
       /\ Waiting(r) => Latest(r)[1][1] < w[j][1] /\ First(r)[1] < w[j][1]

SenderRight(X, r, t, w, n) ==
  Active(t) =>
    /\ PieceOf(Piece(t.msg, t.idx), n)
    /\ t.state = "wait_first_fc" => t.idx = 1
    /\ \A j \in DOMAIN w : t.msg[1] < w[j][1]
    /\ \A f \in X : NotAfter(f.piece, Piece(t.msg, t.idx))
    /\ Waiting(r) => NotAfter(Latest(r), Piece(t.msg, t.idx))

Number(b) == b[1][1][1]

PastRight(X, r, w, d, n) ==
  /\ \A i, j \in DOMAIN d : i < j => Number(d[i]) < Number(d[j])
  /\ \A i \in DOMAIN d :
       /\ Number(d[i]) \in 1..n
       /\ \A j \in DOMAIN w : Number(d[i]) < w[j][1]
       /\ \A f \in X : Opens(f) => Number(d[i]) < f.piece[1][1]
       /\ Waiting(r) => Number(d[i]) < First(r)[1]

Sequenced(X, r, t, w, d, n) ==
  /\ StreamRight(X, r, n) /\ QueueRight(X, r, w, n) /\ SenderRight(X, r, t, w, n)
  /\ PastRight(X, r, w, d, n)

\* A receiver that goes on as it was, or gives up; a sender that does.
Alike(r, s) == r.state = s.state /\ r.buf = s.buf /\ r.len = s.len /\ r.bs = s.bs
Remains(r, s) == ~Waiting(r) \/ Alike(r, s)
Follows(t, u) ==
  Active(t) => /\ Active(u) /\ t.msg = u.msg /\ t.idx = u.idx
               /\ t.state = "wait_first_fc" => u.state = "wait_first_fc"

LEMMA SequencedShrinks ==
  ASSUME NEW X, NEW r, NEW t, NEW w, NEW d, NEW n, Sequenced(X, r, t, w, d, n),
         NEW Y \in SUBSET X, NEW r1, Remains(r1, r), NEW t1, Follows(t1, t)
  PROVE  Sequenced(Y, r1, t1, w, d, n)
<1>1. Waiting(r1) => Waiting(r) /\ Latest(r1) = Latest(r) /\ First(r1) = First(r)
                     /\ r1.buf = r.buf /\ r1.len = r.len
  BY DEF Remains, Alike, Waiting, Latest, First
<1>2. StreamRight(Y, r1, n)
  BY <1>1 DEF Sequenced, StreamRight
<1>3. QueueRight(Y, r1, w, n)
  BY <1>1 DEF Sequenced, QueueRight
<1>4. SenderRight(Y, r1, t1, w, n)
  BY <1>1 DEF Sequenced, SenderRight, Follows
<1>5. PastRight(Y, r1, w, d, n)
  BY <1>1 DEF Sequenced, PastRight
<1> QED
  BY <1>2, <1>3, <1>4, <1>5 DEF Sequenced

\* The next message of the queue comes after everything.
Newest(m, X, r, t, w, d, n) ==
  /\ m \in Messages /\ m[1] <= n
  /\ \A f \in X : f.piece[1][1] < m[1]
  /\ Waiting(r) => Latest(r)[1][1] < m[1] /\ First(r)[1] < m[1]
  /\ Active(t) => t.msg[1] < m[1]
  /\ \A j \in DOMAIN w : m[1] < w[j][1]
  /\ \A i \in DOMAIN d : Number(d[i]) < m[1]

LEMMA QueueTaken ==
  ASSUME NEW X, NEW r, NEW t, NEW w \in Seq(Messages), NEW d, NEW n,
         Sequenced(X, r, t, w, d, n), w # <<>>
  PROVE  /\ Sequenced(X, r, t, Tail(w), d, n)
         /\ Newest(Head(w), X, r, t, Tail(w), d, n)
<1> DEFINE v == Tail(w)
           m == Head(w)
<1>1. /\ m = w[1] /\ 1 \in DOMAIN w /\ m \in Messages
      /\ \A j \in DOMAIN v : j + 1 \in DOMAIN w /\ v[j] = w[j + 1]
  BY TailRange
<1>2. \A j \in DOMAIN v : j \in Nat /\ 1 < j + 1
  OBVIOUS
<1> HIDE DEF v, m
<1>3. \A i, j \in DOMAIN v : i < j => v[i][1] < v[j][1]
  <2> SUFFICES ASSUME NEW i \in DOMAIN v, NEW j \in DOMAIN v, i < j PROVE v[i][1] < v[j][1]
    OBVIOUS
  <2>1. i + 1 < j + 1
    BY <1>2
  <2> QED
    BY <1>1, <2>1 DEF Sequenced, QueueRight
<1>4. QueueRight(X, r, v, n)
  BY <1>1, <1>3 DEF Sequenced, QueueRight
<1>5. SenderRight(X, r, t, v, n)
  BY <1>1 DEF Sequenced, SenderRight
<1>6. PastRight(X, r, v, d, n)
  BY <1>1 DEF Sequenced, PastRight
<1>7. Sequenced(X, r, t, v, d, n)
  BY <1>4, <1>5, <1>6 DEF Sequenced
<1>8. \A j \in DOMAIN v : m[1] < v[j][1]
  BY <1>1, <1>2 DEF Sequenced, QueueRight
<1>9. /\ m[1] <= n /\ \A f \in X : f.piece[1][1] < m[1]
      /\ Waiting(r) => Latest(r)[1][1] < m[1] /\ First(r)[1] < m[1]
  BY <1>1 DEF Sequenced, QueueRight
<1>10. Active(t) => t.msg[1] < m[1]
  BY <1>1 DEF Sequenced, SenderRight
<1>11. \A i \in DOMAIN d : Number(d[i]) < m[1]
  BY <1>1 DEF Sequenced, PastRight
<1>12. Newest(m, X, r, t, v, d, n)
  BY <1>1, <1>8, <1>9, <1>10, <1>11 DEF Newest
<1> QED
  BY <1>7, <1>12 DEF v, m

\* A message joins the queue.
LEMMA QueueJoined ==
  ASSUME NEW X, NEW r, NEW t, NEW w \in Seq(Messages), NEW d, NEW n \in Nat,
         Sequenced(X, r, t, w, d, n), NEW m \in Messages, m[1] = n + 1
  PROVE  Sequenced(X, r, t, Append(w, m), d, n + 1)
<1> DEFINE v == Append(w, m)
           o == n + 1
<1>1. \A j \in DOMAIN v : (j \in DOMAIN w /\ v[j] = w[j]) \/ (j = Len(w) + 1 /\ v[j] = m)
  OBVIOUS
<1>2. \A j \in DOMAIN w : j \in Nat /\ j <= Len(w) /\ w[j] \in Messages /\ w[j][1] \in Nat
  BY DEF Messages
<1>3. Len(w) \in Nat /\ o \in Nat /\ \A k \in Nat : k <= n => k <= o /\ k < o
  OBVIOUS
<1> HIDE DEF v, o
<1>4. m[1] = o
  BY DEF o
<1>5. \A x : PieceOf(x, n) => PieceOf(x, o) /\ x[1][1] < o /\ x[1][1] \in Nat
  <2> SUFFICES ASSUME NEW x, PieceOf(x, n) PROVE PieceOf(x, o) /\ x[1][1] < o /\ x[1][1] \in Nat
    OBVIOUS
  <2>1. x[1][1] \in Nat /\ x[1][1] <= n
    BY PiecesPlaced DEF PieceOf
  <2> QED
    BY <1>3, <2>1 DEF PieceOf
<1>6. \A f \in X : FrameOf(f, n) /\ PieceOf(f.piece, n) /\ FrameOf(f, o)
  BY <1>5 DEF Sequenced, StreamRight, FrameOf
<1>7. Waiting(r) => /\ PieceOf(Latest(r), n) /\ First(r)[1] \in Nat /\ First(r)[1] <= o
                    /\ First(r)[1] < o
  BY <1>3 DEF Sequenced, StreamRight, Messages
<1>8. StreamRight(X, r, o)
  BY <1>5, <1>6, <1>7 DEF Sequenced, StreamRight
<1>9. QueueRight(X, r, v, o)
  <2>1. ASSUME NEW i \in DOMAIN v, NEW j \in DOMAIN v, i < j PROVE v[i][1] < v[j][1]
    <3>1. i \in DOMAIN w /\ v[i] = w[i]
      BY <1>1, <1>2, <1>3, <2>1
    <3>2. w[i][1] <= n /\ w[i][1] < o
      BY <1>2, <1>3, <3>1 DEF Sequenced, QueueRight
    <3> QED
      BY <1>1, <1>4, <2>1, <3>1, <3>2 DEF Sequenced, QueueRight
  <2>2. ASSUME NEW j \in DOMAIN v
        PROVE  /\ v[j][1] <= o /\ \A f \in X : f.piece[1][1] < v[j][1]
               /\ Waiting(r) => Latest(r)[1][1] < v[j][1] /\ First(r)[1] < v[j][1]
    <3>1. CASE j \in DOMAIN w /\ v[j] = w[j]
      <4>1. w[j][1] <= o
        BY <1>2, <1>3, <3>1 DEF Sequenced, QueueRight
      <4> QED
        BY <3>1, <4>1 DEF Sequenced, QueueRight
    <3>2. CASE v[j] = m
      BY <1>3, <1>4, <1>5, <1>6, <1>7, <3>2
    <3> QED
      BY <1>1, <3>1, <3>2
  <2> QED
    BY <2>1, <2>2 DEF QueueRight
<1>10. SenderRight(X, r, t, v, o)
  <2> SUFFICES ASSUME Active(t) PROVE SenderRight(X, r, t, v, o)
    BY DEF SenderRight
  <2>1. PieceOf(Piece(t.msg, t.idx), o) /\ t.msg[1] < o
    <3>1. PieceOf(Piece(t.msg, t.idx), n) /\ Piece(t.msg, t.idx)[1] = t.msg
      BY DEF Sequenced, SenderRight, Piece
    <3> QED
      BY <1>5, <3>1
  <2>2. \A j \in DOMAIN v : t.msg[1] < v[j][1]
    BY <1>1, <1>4, <2>1 DEF Sequenced, SenderRight
  <2> QED
    BY <2>1, <2>2 DEF Sequenced, SenderRight
<1>11. PastRight(X, r, v, d, o)
  <2>1. ASSUME NEW i \in DOMAIN d
        PROVE  Number(d[i]) \in 1..o /\ \A j \in DOMAIN v : Number(d[i]) < v[j][1]
    <3>1. Number(d[i]) \in 1..n
      BY DEF Sequenced, PastRight
    <3>2. Number(d[i]) \in 1..o /\ Number(d[i]) < o
      BY <3>1 DEF o
    <3> QED
      BY <1>1, <1>4, <3>2 DEF Sequenced, PastRight
  <2> QED
    BY <2>1 DEF Sequenced, PastRight
<1>12. Sequenced(X, r, t, v, d, o)
  BY <1>8, <1>9, <1>10, <1>11 DEF Sequenced
<1> QED
  BY <1>12 DEF v, o

\* What is delivered has the number of a message that came after all others.
LEMMA Delivers ==
  ASSUME NEW X, NEW r, NEW t, NEW w, NEW d \in Seq(Seq(Pieces)), NEW n,
         Sequenced(X, r, t, w, d, n), ~Waiting(r),
         NEW b \in Seq(Pieces), Number(b) \in 1..n,
         \A i \in DOMAIN d : Number(d[i]) < Number(b),
         \A j \in DOMAIN w : Number(b) < w[j][1],
         \A f \in X : Opens(f) => Number(b) < f.piece[1][1]
  PROVE  Sequenced(X, r, t, w, Append(d, b), n)
<1> DEFINE e == Append(d, b)
<1>1. \A i \in DOMAIN e : (i \in DOMAIN d /\ e[i] = d[i]) \/ (i = Len(d) + 1 /\ e[i] = b)
  OBVIOUS
<1>2. \A i \in DOMAIN d : i \in Nat /\ i <= Len(d)
  OBVIOUS
<1>3. Len(d) \in Nat
  OBVIOUS
<1> HIDE DEF e
<1>4. \A i, j \in DOMAIN e : i < j => Number(e[i]) < Number(e[j])
  <2> SUFFICES ASSUME NEW i \in DOMAIN e, NEW j \in DOMAIN e, i < j
               PROVE  Number(e[i]) < Number(e[j])
    OBVIOUS
  <2>1. i \in DOMAIN d /\ e[i] = d[i]
    BY <1>1, <1>2, <1>3
  <2> QED
    BY <1>1, <2>1 DEF Sequenced, PastRight
<1>5. PastRight(X, r, w, e, n)
  BY <1>1, <1>4 DEF Sequenced, PastRight
<1>6. Sequenced(X, r, t, w, e, n)
  BY <1>5 DEF Sequenced
<1> QED
  BY <1>6 DEF e

\* A first frame opens a reception: h is the frame, X what comes behind it.
LEMMA Opened ==
  ASSUME NEW X, NEW r, NEW t, NEW w, NEW d, NEW n \in Nat, Sequenced(X, r, t, w, d, n),
         NEW h \in X, h.pci = "FF", NEW Y \in SUBSET X,
         \A f \in Y : Before(h.piece, f.piece),
         NEW r1, Waiting(r1), r1.buf = <<h.piece>>, r1.len = h.len
  PROVE  Sequenced(Y, r1, t, w, d, n)
<1>1. /\ Latest(r1) = h.piece /\ First(r1) = h.piece[1] /\ r1.buf # <<>>
      /\ h.piece[1][1] = Number(r1.buf)
  BY DEF Latest, First, Number
<1>2. FrameOf(h, n) /\ PieceOf(h.piece, n) /\ Opens(h)
  BY DEF Sequenced, StreamRight, FrameOf, Opens
<1>3. h.piece[1] \in Messages /\ h.piece[1][1] <= n /\ r1.len = h.piece[1][2] /\ h.piece[2] = 1
  BY <1>2 DEF FrameOf, PieceOf
<1>4. ASSUME NEW f \in Y, Opens(f) PROVE h.piece[1][1] < f.piece[1][1]
  <2>1. FrameOf(f, n) /\ PieceOf(f.piece, n) /\ Before(h.piece, f.piece)
    BY DEF Sequenced, StreamRight, FrameOf
  <2>2. f.piece[2] = 1
    <3>1. f.pci = "FF" => f.piece[2] = 1
      BY <2>1 DEF FrameOf
    <3>2. f.pci = "SF" => f.piece[2] \in 1..f.piece[1][2] /\ f.piece[1][2] = 1
      BY <2>1 DEF FrameOf, PieceOf
    <3> QED
      BY <1>4, <3>1, <3>2 DEF Opens
  <2> QED
    BY <1>3, <2>1, <2>2 DEF Before
<1>5. StreamRight(Y, r1, n)
  BY <1>1, <1>2, <1>3, <1>4 DEF Sequenced, StreamRight
<1>6. QueueRight(Y, r1, w, n)
  BY <1>1 DEF Sequenced, QueueRight
<1>7. SenderRight(Y, r1, t, w, n)
  BY <1>1 DEF Sequenced, SenderRight
<1>8. PastRight(Y, r1, w, d, n)
  BY <1>1, <1>2 DEF Sequenced, PastRight
<1> QED
  BY <1>5, <1>6, <1>7, <1>8 DEF Sequenced

\* A consecutive frame is taken.
LEMMA Taken ==
  ASSUME NEW X, NEW r, NEW t, NEW w, NEW d, NEW n, Sequenced(X, r, t, w, d, n),
         NEW h \in X, NEW Y \in SUBSET X, \A f \in Y : Before(h.piece, f.piece),
         Waiting(r), r.buf \in Seq(Pieces), h.piece \in Pieces,
         NEW r1, Waiting(r1), r1.buf = Append(r.buf, h.piece), r1.len = r.len
  PROVE  Sequenced(Y, r1, t, w, d, n)
<1>1. r.buf # <<>>
  BY DEF Sequenced, StreamRight
<1>2. Latest(r1) = h.piece /\ First(r1) = First(r) /\ r1.buf # <<>>
  BY <1>1 DEF Latest, First
<1>3. StreamRight(Y, r1, n)
  BY <1>2 DEF Sequenced, StreamRight, FrameOf
<1>4. QueueRight(Y, r1, w, n)
  BY <1>2 DEF Sequenced, QueueRight
<1>5. SenderRight(Y, r1, t, w, n)
  BY <1>2 DEF Sequenced, SenderRight
<1>6. PastRight(Y, r1, w, d, n)
  BY <1>2 DEF Sequenced, PastRight
<1> QED
  BY <1>3, <1>4, <1>5, <1>6 DEF Sequenced

\* The newest message is begun: h is its single or first frame.
LEMMA Begun ==
  ASSUME NEW X, NEW r, NEW t, NEW w, NEW d, NEW n \in Nat, Sequenced(X, r, t, w, d, n),
         NEW m, Newest(m, X, r, t, w, d, n), NEW h, FrameOf(h, n), h.piece = Piece(m, 1),
         NEW t1, Active(t1) => t1.msg = m /\ t1.idx = 1
  PROVE  /\ Sequenced(X \cup {h}, r, t1, w, d, n)
         /\ \A f \in X : Before(f.piece, h.piece)
<1>1. /\ m \in Messages /\ m[1] <= n /\ h.piece[1] = m /\ h.piece[2] = 1 /\ PieceOf(h.piece, n)
      /\ \A f \in X : f.piece[1][1] < m[1]
      /\ Waiting(r) => Latest(r)[1][1] < m[1] /\ First(r)[1] < m[1]
      /\ \A j \in DOMAIN w : m[1] < w[j][1]
      /\ \A i \in DOMAIN d : Number(d[i]) < m[1]
  BY DEF Newest, Piece, FrameOf
<1>2. /\ \A f \in X : Before(f.piece, h.piece)
      /\ Waiting(r) => Before(Latest(r), h.piece)
  BY <1>1 DEF Before
<1>3. StreamRight(X \cup {h}, r, n)
  BY <1>1, <1>2 DEF Sequenced, StreamRight
<1>4. QueueRight(X \cup {h}, r, w, n)
  BY <1>1 DEF Sequenced, QueueRight
<1>5. SenderRight(X \cup {h}, r, t1, w, n)
  BY <1>1, <1>2 DEF Sequenced, SenderRight, NotAfter
<1>6. PastRight(X \cup {h}, r, w, d, n)
  BY <1>1 DEF Sequenced, PastRight
<1> QED
  BY <1>2, <1>3, <1>4, <1>5, <1>6 DEF Sequenced

\* Consecutive frames are sent: Z are the frames, t1 the sender after them.
FramesOf(Z, t, t1, n) ==
  /\ t1.msg = t.msg /\ PieceOf(Piece(t.msg, t1.idx), n) /\ t.idx <= t1.idx
  /\ \A f \in Z : /\ FrameOf(f, n) /\ f.pci = "CF" /\ f.piece = Piece(t.msg, f.piece[2])
                  /\ t.idx < f.piece[2] /\ f.piece[2] <= t1.idx

LEMMA Sent ==
  ASSUME NEW X, NEW r, NEW t, NEW w, NEW d, NEW n \in Nat, Sequenced(X, r, t, w, d, n),
         Active(t), NEW t1, t1.state # "wait_first_fc", NEW Z, FramesOf(Z, t, t1, n)
  PROVE  /\ Sequenced(X \cup Z, r, t1, w, d, n)
         /\ \A f \in X, g \in Z : Before(f.piece, g.piece)
<1> DEFINE x == Piece(t.msg, t.idx)
           y == Piece(t.msg, t1.idx)
<1>1. x[1] = t.msg /\ x[2] = t.idx /\ y[1] = t.msg /\ y[2] = t1.idx
  BY DEF Piece
<1>2. /\ PieceOf(x, n) /\ \A j \in DOMAIN w : t.msg[1] < w[j][1]
      /\ \A f \in X : NotAfter(f.piece, x)
      /\ Waiting(r) => NotAfter(Latest(r), x)
  BY DEF Sequenced, SenderRight
<1>3. PieceOf(y, n) /\ Placed(x) /\ Placed(y) /\ t1.msg = t.msg /\ NotAfter(x, y)
  <2>1. PieceOf(y, n) /\ Placed(x) /\ Placed(y)
    BY <1>2, PiecesPlaced DEF FramesOf
  <2>2. x[1] = y[1] /\ x[2] <= y[2] /\ x[2] \in Nat /\ y[2] \in Nat
    BY <1>1, <2>1 DEF FramesOf, Placed
  <2>3. x[2] = y[2] => x = y
    BY <1>1 DEF Piece
  <2> QED
    BY <2>1, <2>2, <2>3 DEF NotAfter, Before, FramesOf
<1>4. \A f \in X : FrameOf(f, n) /\ Placed(f.piece)
  BY PiecesPlaced DEF Sequenced, StreamRight, FrameOf
<1>5. Waiting(r) => Placed(Latest(r))
  BY PiecesPlaced DEF Sequenced, StreamRight
<1>6. \A g \in Z : /\ FrameOf(g, n) /\ Placed(g.piece) /\ Before(x, g.piece)
                   /\ NotAfter(g.piece, y) /\ ~Opens(g) /\ g.piece[1] = t.msg
  <2> SUFFICES ASSUME NEW g \in Z
               PROVE  /\ FrameOf(g, n) /\ Placed(g.piece) /\ Before(x, g.piece)
                      /\ NotAfter(g.piece, y) /\ ~Opens(g) /\ g.piece[1] = t.msg
    OBVIOUS
  <2>1. /\ FrameOf(g, n) /\ Placed(g.piece) /\ ~Opens(g) /\ g.piece[1] = t.msg
        /\ t.idx < g.piece[2] /\ g.piece[2] <= t1.idx /\ g.piece = Piece(t.msg, g.piece[2])
    BY PiecesPlaced DEF FramesOf, FrameOf, Opens, Piece
  <2>2. Before(x, g.piece)
    BY <1>1, <2>1 DEF Before
  <2>3. CASE g.piece[2] < t1.idx
    BY <1>1, <2>1, <2>3 DEF Before, NotAfter
  <2>4. CASE g.piece[2] = t1.idx
    <3>1. g.piece = Piece(t.msg, g.piece[2])
      BY <2>1
    <3>2. g.piece = y
      BY <2>4, <3>1
    <3> QED
      BY <2>1, <2>2, <3>2 DEF NotAfter
  <2>5. g.piece[2] \in Nat /\ t1.idx \in Nat
    BY <1>1, <1>3, <2>1 DEF Placed
  <2> QED
    BY <2>1, <2>2, <2>3, <2>4, <2>5
<1> HIDE DEF x, y
<1>7. \A f \in X, g \in Z : Before(f.piece, g.piece)
  BY <1>2, <1>3, <1>4, <1>6, NotAfterBefore
<1>8. Waiting(r) => \A g \in Z : Before(Latest(r), g.piece)
  BY <1>2, <1>3, <1>5, <1>6, NotAfterBefore
<1>9. \A f \in X : NotAfter(f.piece, y)
  BY <1>2, <1>3, <1>4, NotAfterBefore DEF NotAfter
<1>10. Waiting(r) => NotAfter(Latest(r), y)
  BY <1>2, <1>3, <1>5, NotAfterBefore DEF NotAfter
<1>11. StreamRight(X \cup Z, r, n)
  BY <1>6, <1>8 DEF Sequenced, StreamRight
<1>12. QueueRight(X \cup Z, r, w, n)
  BY <1>2, <1>6 DEF Sequenced, QueueRight
<1>13. SenderRight(X \cup Z, r, t1, w, n)
  <2>1. Active(t1) => /\ PieceOf(y, n) /\ \A j \in DOMAIN w : t.msg[1] < w[j][1]
                      /\ \A f \in X \cup Z : NotAfter(f.piece, y)
                      /\ Waiting(r) => NotAfter(Latest(r), y)
    BY <1>2, <1>3, <1>6, <1>9, <1>10
  <2> QED
    BY <1>3, <2>1 DEF SenderRight, y
<1>14. PastRight(X \cup Z, r, w, d, n)
  BY <1>6 DEF Sequenced, PastRight
<1> QED
  BY <1>7, <1>11, <1>12, <1>13, <1>14 DEF Sequenced

-----------------------------------------------------------------------------
(* Whole messages: the pieces in the buffer grow; there are as many as the   *)
(* last one counts only if none is missing.                                *)

WholeSoFar(b) ==
  /\ \A i \in DOMAIN b : b[i][1] = b[1][1]
  /\ Len(b) <= b[Len(b)][2]
  /\ Len(b) = b[Len(b)][2] => \A i \in DOMAIN b : b[i] = Piece(b[1][1], i)

Gathered(r, d) ==
  /\ Waiting(r) => WholeSoFar(r.buf)
  /\ \A i \in DOMAIN d : d[i] = Payload(d[i][1][1])

LEMMA PieceSplit ==
  /\ \A x \in Pieces : x = Piece(x[1], x[2]) /\ x[2] \in Nat
  /\ \A m, i : Piece(m, i)[1] = m /\ Piece(m, i)[2] = i
  BY DEF Pieces, Piece

LEMMA FirstPiece ==
  ASSUME NEW x \in Pieces, x[2] = 1 PROVE WholeSoFar(<<x>>)
  BY PieceSplit DEF WholeSoFar

LEMMA Grows ==
  ASSUME NEW b \in Seq(Pieces), b # <<>>, WholeSoFar(b), NEW x \in Pieces, x[1] = b[1][1],
         b[Len(b)][1] = b[1][1] => b[Len(b)][2] < x[2]
  PROVE  WholeSoFar(Append(b, x))
<1> DEFINE c == Append(b, x)
           k == b[Len(b)][2]
<1>1. /\ Len(b) \in Nat /\ Len(b) >= 1 /\ Len(c) = Len(b) + 1 /\ DOMAIN b = 1..Len(b)
      /\ c[Len(c)] = x /\ c[1] = b[1]
      /\ \A i \in DOMAIN c : (i \in DOMAIN b /\ c[i] = b[i]) \/ (i = Len(c) /\ c[i] = x)
  OBVIOUS
<1> HIDE DEF c
<1>2. Len(b) \in DOMAIN b /\ b[Len(b)] \in Pieces /\ k \in Nat /\ x[2] \in Nat
  BY <1>1, PieceSplit
<1>3. Len(b) <= k /\ k < x[2]
  BY <1>2 DEF WholeSoFar
<1>4. \A i \in DOMAIN c : c[i][1] = c[1][1]
  BY <1>1 DEF WholeSoFar
<1> HIDE DEF k
<1>5. Len(c) <= x[2]
  BY <1>1, <1>2, <1>3
<1>6. ASSUME Len(c) = x[2] PROVE \A i \in DOMAIN c : c[i] = Piece(c[1][1], i)
  <2>1. Len(b) = k
    <3>1. Len(b) \in Nat /\ k \in Nat /\ Len(b) <= k /\ k < Len(b) + 1
      BY <1>1, <1>2, <1>3, <1>6
    <3> QED
      BY <3>1
  <2>2. \A i \in DOMAIN b : b[i] = Piece(b[1][1], i)
    BY <2>1 DEF WholeSoFar, k
  <2>3. x = Piece(b[1][1], Len(c))
    BY <1>6, PieceSplit
  <2> QED
    BY <1>1, <2>2, <2>3
<1>7. WholeSoFar(c)
  BY <1>1, <1>4, <1>5, <1>6 DEF WholeSoFar
<1> QED
  BY <1>7 DEF c

LEMMA Complete ==
  ASSUME NEW b \in Seq(Pieces), b # <<>>, WholeSoFar(b), NEW n, PieceOf(b[Len(b)], n),
         b[1][1][2] <= Len(b)
  PROVE  b = Payload(b[1][1])
<1> DEFINE m == b[1][1]
<1>1. Len(b) \in Nat /\ Len(b) >= 1 /\ DOMAIN b = 1..Len(b) /\ Len(b) \in DOMAIN b
  OBVIOUS
<1>2. b[Len(b)][1] = m
  BY <1>1 DEF WholeSoFar
<1>3. b[Len(b)][2] \in 1..m[2] /\ m[2] \in Nat
  BY <1>2, PiecesPlaced DEF PieceOf
<1>4. Len(b) = b[Len(b)][2] /\ Len(b) = m[2]
  BY <1>1, <1>3 DEF WholeSoFar
<1>5. \A i \in 1..m[2] : b[i] = Piece(m, i)
  BY <1>1, <1>4 DEF WholeSoFar
<1> QED
  BY <1>1, <1>4, <1>5 DEF Payload

LEMMA Single ==
  ASSUME NEW x \in Pieces, x[2] = 1, x[1][2] = 1 PROVE <<x>> = Payload(x[1])
<1>1. x = Piece(x[1], 1)
  BY PieceSplit
<1> QED
  BY <1>1 DEF Payload

LEMMA GatheredDelivers ==
  ASSUME NEW r, NEW d \in Seq(Seq(Pieces)), Gathered(r, d), NEW b, b = Payload(b[1][1]),
         NEW r1, ~Waiting(r1)
  PROVE  Gathered(r1, Append(d, b))
<1> DEFINE e == Append(d, b)
<1>1. \A i \in DOMAIN e : (i \in DOMAIN d /\ e[i] = d[i]) \/ e[i] = b
  OBVIOUS
<1> HIDE DEF e
<1>2. Gathered(r1, e)
  BY <1>1 DEF Gathered
<1> QED
  BY <1>2 DEF e

-----------------------------------------------------------------------------
(* Nothing is lost: what comes is what follows on what came.               *)

Preceding(x) == Piece(x[1], x[2] - 1)

Chained(X, r, t) ==
  /\ \A f \in X :
       f.pci = "CF" =>
         \/ \E g \in X : g.piece = Preceding(f.piece)
         \/ /\ \A g \in X : ~Before(g.piece, f.piece)
            /\ Waiting(r) => Latest(r) = Preceding(f.piece)
  /\ Active(t) => \/ \E g \in X : g.piece = Piece(t.msg, t.idx)
                  \/ X = {} /\ (Waiting(r) => Latest(r) = Piece(t.msg, t.idx))

LEMMA ChainedKept ==
  ASSUME NEW X, NEW r, NEW t, Chained(X, r, t), NEW r1, Remains(r1, r), NEW t1, Follows(t1, t)
  PROVE  Chained(X, r1, t1)
<1>1. Waiting(r1) => Waiting(r) /\ Latest(r1) = Latest(r)
  BY DEF Remains, Alike, Waiting, Latest
<1> QED
  BY <1>1 DEF Chained, Follows

\* Nothing comes between a piece and the one before it.
LEMMA PrecedingPlaced ==
  ASSUME NEW n, NEW x, PieceOf(x, n), x[2] # 1
  PROVE  /\ Placed(Preceding(x)) /\ Before(Preceding(x), x)
         /\ \A z : Placed(z) /\ Before(Preceding(x), z) => ~Before(z, x)
<1>1. Placed(x) /\ x[2] - 1 \in Nat
  BY PiecesPlaced DEF PieceOf
<1>2. Preceding(x)[1] = x[1] /\ Preceding(x)[2] = x[2] - 1
  BY DEF Preceding, Piece
<1> QED
  BY <1>1, <1>2 DEF Placed, Before

LEMMA ChainedTaken ==
  ASSUME NEW X, NEW r, NEW t, NEW w, NEW d, NEW n, Sequenced(X, r, t, w, d, n),
         Chained(X, r, t), NEW h \in X, NEW Y \in SUBSET X, \A f \in Y : Before(h.piece, f.piece),
         \A f \in X : f = h \/ f \in Y,
         NEW r1, ~Waiting(r1) \/ Latest(r1) = h.piece
  PROVE  Chained(Y, r1, t)
<1>1. \A f \in X : FrameOf(f, n) /\ PieceOf(f.piece, n) /\ Placed(f.piece)
  BY PiecesPlaced DEF Sequenced, StreamRight, FrameOf
<1>2. ASSUME NEW f \in Y, f.pci = "CF"
      PROVE  \/ \E g \in Y : g.piece = Preceding(f.piece)
             \/ /\ \A g \in Y : ~Before(g.piece, f.piece)
                /\ h.piece = Preceding(f.piece)
  <2>1. PieceOf(f.piece, n) /\ f.piece[2] # 1 /\ Before(h.piece, f.piece)
    BY <1>1, <1>2 DEF FrameOf
  <2>2. PICK g \in X : g.piece = Preceding(f.piece)
    BY <1>2, <2>1 DEF Chained
  <2>3. CASE g \in Y
    BY <2>2, <2>3
  <2>4. CASE g = h
    BY <1>1, <2>1, <2>2, <2>4, PrecedingPlaced
  <2> QED
    BY <2>3, <2>4
<1>3. ASSUME Active(t)
      PROVE  \/ \E g \in Y : g.piece = Piece(t.msg, t.idx)
             \/ Y = {} /\ h.piece = Piece(t.msg, t.idx)
  <2>1. PICK g \in X : g.piece = Piece(t.msg, t.idx)
    BY <1>3 DEF Chained
  <2>2. CASE g = h
    <3>1. ASSUME NEW f \in Y PROVE FALSE
      <4>1. NotAfter(f.piece, h.piece) /\ Before(h.piece, f.piece)
        BY <1>3, <2>1, <2>2 DEF Sequenced, SenderRight
      <4> QED
        BY <1>1, <4>1, BeforeAsym
    <3> QED
      BY <2>1, <2>2, <3>1
  <2> QED
    BY <2>1, <2>2
<1> QED
  BY <1>2, <1>3 DEF Chained

\* The next consecutive frame follows on what the receiver took last.
LEMMA ChainedNext ==
  ASSUME NEW X, NEW r, NEW t, NEW w, NEW d, NEW n, Sequenced(X, r, t, w, d, n),
         Chained(X, r, t), NEW h \in X, \A f \in X : f = h \/ Before(h.piece, f.piece),
         Waiting(r), h.pci = "CF"
  PROVE  Latest(r)[1] = h.piece[1]
<1>1. \A f \in X : FrameOf(f, n) /\ PieceOf(f.piece, n) /\ Placed(f.piece)
  BY PiecesPlaced DEF Sequenced, StreamRight, FrameOf
<1>2. /\ Before(Preceding(h.piece), h.piece)
      /\ Placed(Preceding(h.piece))
  BY <1>1, PrecedingPlaced DEF FrameOf
<1>3. ASSUME NEW g \in X, g.piece = Preceding(h.piece) PROVE FALSE
  <2>1. Before(g.piece, h.piece) /\ ~NotAfter(h.piece, g.piece) /\ g # h
    BY <1>1, <1>2, <1>3, BeforeAsym
  <2> QED
    BY <2>1 DEF NotAfter
<1>4. Latest(r) = Preceding(h.piece)
  BY <1>3 DEF Chained
<1> QED
  BY <1>4, PieceSplit DEF Preceding

LEMMA ChainedBegun ==
  ASSUME NEW X, NEW r, NEW t, NEW w, NEW d, NEW n, Sequenced(X, r, t, w, d, n),
         Chained(X, r, t), NEW h, FrameOf(h, n), h.pci # "CF",
         \A f \in X : Before(f.piece, h.piece),
         NEW t1, Active(t1) => h.piece = Piece(t1.msg, t1.idx)
  PROVE  Chained(X \cup {h}, r, t1)
<1>1. \A f \in X \cup {h} : FrameOf(f, n) /\ PieceOf(f.piece, n) /\ Placed(f.piece)
  BY PiecesPlaced DEF Sequenced, StreamRight, FrameOf
<1>2. \A f \in X : ~Before(h.piece, f.piece)
  BY <1>1, BeforeAsym DEF NotAfter
<1> QED
  BY <1>2 DEF Chained

LEMMA ChainedSent ==
  ASSUME NEW X, NEW r, NEW t, NEW w, NEW d, NEW n \in Nat, Sequenced(X, r, t, w, d, n),
         Chained(X, r, t), Active(t),
         NEW t1, t1.state # "wait_first_fc", NEW Z, FramesOf(Z, t, t1, n),
         \A i \in t.idx + 1..t1.idx : \E f \in Z : f.piece = Piece(t.msg, i)
  PROVE  Chained(X \cup Z, r, t1)
<1>1. \A f \in X, g \in Z : Before(f.piece, g.piece)
  BY Sent
<1>2. \A f \in X \cup Z : FrameOf(f, n) /\ PieceOf(f.piece, n) /\ Placed(f.piece)
  BY PiecesPlaced DEF Sequenced, StreamRight, FramesOf, FrameOf
<1>3. \A f \in X, g \in Z : ~Before(g.piece, f.piece)
  BY <1>1, <1>2, BeforeAsym DEF NotAfter
<1>4. PieceOf(Piece(t.msg, t.idx), n) /\ PieceOf(Piece(t.msg, t1.idx), n)
  BY DEF Sequenced, SenderRight, FramesOf
<1>5. t.idx \in Nat /\ t1.idx \in Nat /\ t.idx <= t1.idx /\ t1.msg = t.msg
  BY <1>4, PiecesPlaced, PieceSplit DEF Placed, FramesOf
<1>6. ASSUME NEW f \in Z
      PROVE  \/ \E g \in X \cup Z : g.piece = Preceding(f.piece)
             \/ /\ \A g \in X \cup Z : ~Before(g.piece, f.piece)
                /\ Waiting(r) => Latest(r) = Preceding(f.piece)
  <2> DEFINE i == f.piece[2]
  <2>1. /\ f.piece = Piece(t.msg, i) /\ t.idx < i /\ i <= t1.idx /\ i \in Nat /\ f.piece[1] = t.msg
        /\ Preceding(f.piece) = Piece(t.msg, i - 1)
    BY <1>2, PieceSplit DEF FramesOf, Placed, Preceding
  <2> HIDE DEF i
  <2>2. CASE i - 1 > t.idx
    <3>1. i - 1 \in t.idx + 1..t1.idx
      BY <1>5, <2>1, <2>2
    <3> QED
      BY <2>1, <3>1
  <2>3. CASE i - 1 = t.idx
    <3>1. CASE \E g \in X : g.piece = Piece(t.msg, t.idx)
      BY <2>1, <2>3, <3>1
    <3>2. CASE X = {} /\ (Waiting(r) => Latest(r) = Piece(t.msg, t.idx))
      <4>1. ASSUME NEW g \in Z PROVE ~Before(g.piece, f.piece)
        <5>1. t.idx < g.piece[2] /\ g.piece[1] = t.msg /\ Placed(g.piece)
          BY <1>2, PieceSplit DEF FramesOf
        <5>2. i <= g.piece[2] /\ f.piece[2] = i
          BY <1>5, <2>1, <2>3, <5>1 DEF Placed, i
        <5>3. t.msg[1] \in Nat
          BY <5>1 DEF Placed
        <5> QED
          BY <2>1, <5>1, <5>2, <5>3 DEF Before, Placed
      <4> QED
        BY <2>1, <2>3, <3>2, <4>1
    <3> QED
      BY <3>1, <3>2 DEF Chained
  <2> QED
    BY <1>5, <2>1, <2>2, <2>3
<1>7. \/ \E g \in X \cup Z : g.piece = Piece(t.msg, t1.idx)
      \/ X \cup Z = {} /\ (Waiting(r) => Latest(r) = Piece(t.msg, t1.idx))
  <2>1. CASE t.idx = t1.idx
    <3>1. Z = {}
      BY <1>2, <1>5, <2>1 DEF FramesOf, Placed
    <3> QED
      BY <2>1, <3>1 DEF Chained
  <2>2. CASE t.idx < t1.idx
    <3>1. t1.idx \in t.idx + 1..t1.idx
      BY <1>5, <2>2
    <3> QED
      BY <3>1
  <2> QED
    BY <1>5, <2>1, <2>2
<1> QED
  BY <1>3, <1>5, <1>6, <1>7 DEF Chained

-----------------------------------------------------------------------------
(* No foreign frame, no hasty timer: sender and receiver count the frames of *)
(* a block alike, whatever is lost, and an answer finds the sender waiting   *)
(* for it.  bs is the block size of the receiver.                          *)

FirstWaits(X, t) ==
  \A f \in X : f.pci = "FF" => t.state = "wait_first_fc" /\ t.msg = f.piece[1]

AnswerDue(X, a, r, t, bs) ==
  Answered(a) =>
    \/ Stuck(t)
    \/ /\ Waits(t) /\ X = {} /\ OneAnswer(a) /\ Waiting(r) /\ First(r) = t.msg
       /\ bs # 0 => r.bs = 0 /\ Len(r.buf) = t.idx

InBlock(X, r, t, bs) ==
  Active(t) /\ t.state # "wait_first_fc" =>
    /\ t.fcbs = bs
    /\ Waiting(r) =>
         /\ First(r) = t.msg
         /\ bs # 0 => t.bs <= bs /\ (\/ t.idx + r.bs = Len(r.buf) + t.bs
                                     \/ X = {} /\ t.state = "wait_fc")

Room(X, r, bs) ==
  Waiting(r) =>
    \A f \in X : f.pci = "CF" => /\ f.piece[1] = First(r)
                                 /\ bs # 0 => f.piece[2] + r.bs <= Len(r.buf) + bs

LastPiece(m) == Piece(m, m[2])

Continues(X, t) ==
  \A f \in X : f.pci = "CF" => \/ Stuck(t)
                               \/ t.msg = f.piece[1] /\ t.state \in {"sending", "wait_fc"}
                               \/ \E g \in X : g.piece = LastPiece(f.piece[1])

Orderly(X, a, r, t, bs) ==
  /\ FirstWaits(X, t) /\ AnswersOf(a, bs) /\ AnswerDue(X, a, r, t, bs) /\ InBlock(X, r, t, bs)
  /\ Room(X, r, bs) /\ Continues(X, t)

\* What is left of X when its first frames are gone.
Rest(Y, X) ==
  /\ Y \subseteq X
  /\ \A g \in X, f \in Y : g \in Y \/ Before(g.piece, f.piece)

\* What comes back, or is left of it.
NoMoreAnswers(b, a) ==
  /\ Answered(b) => Answered(a)
  /\ OneAnswer(a) => OneAnswer(b)
  /\ \A bs : AnswersOf(a, bs) => AnswersOf(b, bs)

\* Only the timer of a sender is changed: it is cancelled.
Slower(t, u) ==
  /\ t.state = u.state /\ t.msg = u.msg /\ t.idx = u.idx /\ t.bs = u.bs /\ t.fcbs = u.fcbs
  /\ t.timer => u.timer

LEMMA NothingAfterLast ==
  ASSUME NEW n, NEW x, PieceOf(x, n), NEW y, y = LastPiece(x[1]) PROVE ~Before(y, x)
<1>1. x[1][1] \in Nat /\ x[1][2] \in Nat /\ x[2] \in Nat /\ x[2] <= x[1][2]
  BY PiecesPlaced DEF PieceOf, Placed
<1>2. y[1] = x[1] /\ y[2] = x[1][2]
  BY PieceSplit DEF LastPiece
<1> QED
  BY <1>1, <1>2 DEF Before

LEMMA ContinuesRest ==
  ASSUME NEW X, NEW t, Continues(X, t), NEW n, \A f \in X : FrameOf(f, n),
         NEW Y, Rest(Y, X), NEW t1, Slower(t1, t)
  PROVE  Continues(Y, t1)
<1>1. ASSUME NEW f \in Y, f.pci = "CF"
      PROVE  \/ Stuck(t1)
             \/ t1.msg = f.piece[1] /\ t1.state \in {"sending", "wait_fc"}
             \/ \E g \in Y : g.piece = LastPiece(f.piece[1])
  <2>1. f \in X /\ PieceOf(f.piece, n)
    BY DEF Rest, FrameOf
  <2>2. CASE \E g \in X : g.piece = LastPiece(f.piece[1])
    <3>1. PICK g \in X : g.piece = LastPiece(f.piece[1])
      BY <2>2
    <3>2. ~Before(g.piece, f.piece)
      BY <2>1, <3>1, NothingAfterLast
    <3> QED
      BY <3>1, <3>2 DEF Rest
  <2> QED
    BY <1>1, <2>1, <2>2 DEF Continues, Stuck, Slower
<1> QED
  BY <1>1 DEF Continues

LEMMA OrderlyKept ==
  ASSUME NEW X, NEW a, NEW r, NEW t, NEW bs, Orderly(X, a, r, t, bs),
         NEW n, \A f \in X : FrameOf(f, n), NEW Y, Rest(Y, X), NEW b, NoMoreAnswers(b, a),
         NEW t1, Slower(t1, t),
         NEW r1, Alike(r1, r) \/ (~Waiting(r1) /\ (X # {} \/ ~Answered(a)))
  PROVE  Orderly(Y, b, r1, t1, bs)
<1>1. Y \subseteq X
  BY DEF Rest
<1>2. /\ t1.state = t.state /\ t1.msg = t.msg /\ t1.idx = t.idx /\ t1.bs = t.bs
      /\ t1.fcbs = t.fcbs /\ (Active(t1) => Active(t)) /\ (Waits(t) => Waits(t1))
      /\ (Stuck(t) => Stuck(t1))
  BY DEF Slower, Active, Waits, Stuck
<1>3. Waiting(r1) => /\ Waiting(r) /\ First(r1) = First(r) /\ r1.bs = r.bs
                     /\ Len(r1.buf) = Len(r.buf)
  BY DEF Alike, Waiting, First
<1>4. Alike(r1, r) => (Waiting(r) => Waiting(r1))
  BY DEF Alike, Waiting
<1>5. FirstWaits(Y, t1)
  BY <1>1, <1>2 DEF Orderly, FirstWaits
<1>6. AnswersOf(b, bs)
  BY DEF Orderly, NoMoreAnswers
<1>7. AnswerDue(Y, b, r1, t1, bs)
  BY <1>1, <1>2, <1>3, <1>4 DEF Orderly, AnswerDue, NoMoreAnswers
<1>8. InBlock(Y, r1, t1, bs)
  BY <1>1, <1>2, <1>3 DEF Orderly, InBlock
<1>9. Room(Y, r1, bs)
  BY <1>1, <1>3 DEF Orderly, Room
<1>10. Continues(Y, t1)
  BY ContinuesRest DEF Orderly
<1> QED
  BY <1>5, <1>6, <1>7, <1>8, <1>9, <1>10 DEF Orderly

\* The sender sends nothing behind a first frame and is answered once.
LEMMA FirstAlone ==
  ASSUME NEW X, NEW a, NEW r, NEW t, NEW w, NEW d, NEW n, NEW bs, Sequenced(X, r, t, w, d, n),
         Orderly(X, a, r, t, bs), NEW h \in X, h.pci = "FF", h.piece \in Pieces, NEW Y \in SUBSET X,
         \A f \in Y : Before(h.piece, f.piece)
  PROVE  Y = {} /\ ~Answered(a) /\ t.state = "wait_first_fc" /\ t.msg = h.piece[1] /\ t.idx = 1
<1>1. t.state = "wait_first_fc" /\ t.msg = h.piece[1]
  BY DEF Orderly, FirstWaits
<1>2. Active(t) /\ ~Stuck(t)
  BY <1>1 DEF Active, Waits, Stuck
<1>3. t.idx = 1 /\ \A f \in X : NotAfter(f.piece, Piece(t.msg, 1)) /\ FrameOf(f, n)
  BY <1>1, <1>2 DEF Sequenced, SenderRight, StreamRight
<1>4. h.piece = Piece(t.msg, 1)
  BY <1>1, <1>3, PieceSplit DEF FrameOf
<1>5. ASSUME NEW f \in Y PROVE FALSE
  <2>1. Placed(f.piece) /\ Placed(h.piece)
    BY <1>3, PiecesPlaced DEF FrameOf
  <2> QED
    BY <1>3, <1>4, <2>1, BeforeAsym
<1>6. ~Answered(a)
  BY <1>2 DEF Orderly, AnswerDue
<1> QED
  BY <1>1, <1>3, <1>5, <1>6

\* The answer to a first frame, if there is one.
LEMMA OrderlyOpened ==
  ASSUME NEW X, NEW a, NEW r, NEW t, NEW w, NEW d, NEW n, NEW bs, Sequenced(X, r, t, w, d, n),
         Orderly(X, a, r, t, bs), NEW h \in X, h.pci = "FF", h.piece \in Pieces, NEW Y \in SUBSET X,
         \A f \in Y : Before(h.piece, f.piece),
         NEW r1, Waiting(r1), r1.buf = <<h.piece>>,
         NEW b, NoMoreAnswers(b, a) \/ (OneAnswer(b) /\ AnswersOf(b, bs) /\ r1.bs = 0)
  PROVE  Orderly(Y, b, r1, t, bs)
<1>1. Y = {} /\ ~Answered(a) /\ t.state = "wait_first_fc" /\ t.msg = h.piece[1] /\ t.idx = 1
  BY FirstAlone
<1>2. Waits(t) /\ First(r1) = t.msg /\ Len(r1.buf) = t.idx
  BY <1>1 DEF Waits, First
<1>3. AnswersOf(b, bs)
  BY DEF Orderly, NoMoreAnswers
<1>4. AnswerDue(Y, b, r1, t, bs)
  BY <1>1, <1>2 DEF AnswerDue, NoMoreAnswers
<1> QED
  BY <1>1, <1>3, <1>4 DEF Orderly, FirstWaits, InBlock, Room, Continues

\* A consecutive frame is the next of the message at the earliest.
LEMMA NextPiece ==
  ASSUME NEW X, NEW r, NEW t, NEW w, NEW d, NEW n, Sequenced(X, r, t, w, d, n), Gathered(r, d),
         Waiting(r), r.buf \in Seq(Pieces), NEW h \in X, h.piece[1] = First(r)
  PROVE  /\ Len(r.buf) \in Nat /\ h.piece[2] \in Nat /\ Len(r.buf) + 1 <= h.piece[2]
         /\ Latest(r)[1] = First(r) /\ Latest(r)[2] < h.piece[2]
<1>1. /\ PieceOf(Latest(r), n) /\ Before(Latest(r), h.piece) /\ PieceOf(h.piece, n)
      /\ r.buf # <<>>
  BY DEF Sequenced, StreamRight, FrameOf
<1>2. Len(r.buf) \in Nat /\ Len(r.buf) \in DOMAIN r.buf
  BY <1>1
<1>3. Latest(r)[1] = First(r) /\ Len(r.buf) <= Latest(r)[2]
  BY <1>2 DEF Gathered, WholeSoFar, Latest, First
<1>4. Placed(Latest(r)) /\ Placed(h.piece)
  BY <1>1, PiecesPlaced
<1>5. Latest(r)[2] < h.piece[2]
  BY <1>1, <1>3, <1>4 DEF Before, Placed
<1> QED
  BY <1>2, <1>3, <1>4, <1>5 DEF Placed

Balanced(i, j, k, l) == i + j = k + l
Within(i, j, k, l) == i + j <= k + l
LEMMA OneMore == \A i, j, k, l \in Nat : Balanced(i, j, k, l) => Balanced(i, j + 1, k + 1, l)
  BY DEF Balanced
LEMMA SomeMore ==
  \A i, j, k, l, m \in Nat : Balanced(i, j, k, l) => Balanced(i + m, j, k, l + m)
  BY DEF Balanced
LEMMA AtMost ==
  \A h, i, j, k, l, m \in Nat : Balanced(i, j, k, l) /\ h <= i /\ l <= m => Within(h, j, k, m)
  BY DEF Balanced, Within

\* A frame is taken within a block.
LEMMA OrderlyTaken ==
  ASSUME NEW X, NEW a, NEW r, NEW t, NEW n, NEW bs \in Nat,
         Orderly(X, a, r, t, bs), \A f \in X : FrameOf(f, n),
         NEW Y, Rest(Y, X), X # {}, Waiting(r), r.buf \in Seq(Pieces), r.buf # <<>>, r.bs \in Nat,
         NEW x \in Pieces, NEW r1, Waiting(r1), r1.buf = Append(r.buf, x),
         r1.bs = IF bs = 0 THEN r.bs ELSE r.bs + 1, t.idx \in Nat, t.bs \in Nat
  PROVE  Orderly(Y, a, r1, t, bs)
<1>1. Y \subseteq X
  BY DEF Rest
<1>2. First(r1) = First(r) /\ Len(r1.buf) = Len(r.buf) + 1 /\ Len(r.buf) \in Nat
  BY DEF First
<1> DEFINE l == Len(r.buf)
           l1 == Len(r1.buf)
<1>3. l \in Nat /\ l1 = l + 1
  BY <1>2
<1> HIDE DEF l, l1
<1>4. FirstWaits(Y, t) /\ AnswersOf(a, bs)
  BY <1>1 DEF Orderly, FirstWaits
<1>5. AnswerDue(Y, a, r1, t, bs)
  BY DEF Orderly, AnswerDue
<1>6. InBlock(Y, r1, t, bs)
  <2> SUFFICES ASSUME Active(t), t.state # "wait_first_fc", bs # 0
               PROVE  t.bs <= bs /\ (\/ t.idx + r1.bs = l1 + t.bs
                                     \/ Y = {} /\ t.state = "wait_fc")
    BY <1>2 DEF Orderly, InBlock, l1
  <2>1. t.bs <= bs /\ t.idx + r.bs = l + t.bs
    BY DEF Orderly, InBlock, l
  <2>2. t.idx + r1.bs = l1 + t.bs
    <3>1. r1.bs = r.bs + 1
      OBVIOUS
    <3>2. /\ l \in Nat /\ l1 = l + 1 /\ t.idx \in Nat /\ t.bs \in Nat /\ r.bs \in Nat
          /\ t.idx + r.bs = l + t.bs
      BY <1>3, <2>1
    <3>3. Balanced(t.idx, r.bs, l, t.bs)
      BY <3>2 DEF Balanced
    <3>4. Balanced(t.idx, r.bs + 1, l + 1, t.bs)
      BY <3>2, <3>3, OneMore
    <3>5. Balanced(t.idx, r1.bs, l1, t.bs)
      BY <3>1, <3>2, <3>4
    <3> QED
      BY <3>5 DEF Balanced
  <2> QED
    BY <2>1, <2>2
<1>7. Room(Y, r1, bs)
  <2> SUFFICES ASSUME NEW f \in Y, f.pci = "CF"
               PROVE  f.piece[1] = First(r) /\ (bs # 0 => f.piece[2] + r1.bs <= l1 + bs)
    BY <1>2 DEF Room, l1
  <2>1. f.piece[1] = First(r) /\ (bs # 0 => f.piece[2] + r.bs <= l + bs) /\ f.piece[2] \in Nat
    BY <1>1, PiecesPlaced DEF Orderly, Room, l, FrameOf, Placed
  <2> QED
    BY <1>3, <2>1
<1>8. Continues(Y, t)
  BY ContinuesRest DEF Orderly, Slower
<1> QED
  BY <1>4, <1>5, <1>6, <1>7, <1>8 DEF Orderly

\* A frame is taken that ends a block: the sender waits for the answer.
BlockFull(r, bs) == bs # 0 /\ r.bs + 1 >= bs
Unfinished(r) == Len(r.buf) + 1 < r.len
AllTaken(t, r) == t.state = "wait_fc" /\ t.msg = First(r) /\ t.idx = Len(r.buf) + 1

LEMMA BlockOver ==
  ASSUME NEW X, NEW a, NEW r, NEW t, NEW w, NEW d, NEW n, NEW bs \in Nat,
         Sequenced(X, r, t, w, d, n), Gathered(r, d), Orderly(X, a, r, t, bs),
         Waiting(r), r.buf \in Seq(Pieces), r.bs \in Nat, t.idx \in Nat, t.bs \in Nat,
         t.fcbs = 0 \/ t.bs < t.fcbs \/ t.state # "sending" \/ ~t.timer,
         NEW h \in X, h.pci = "CF", h.piece \in Pieces, NEW Y \in SUBSET X, \A f \in Y : Before(h.piece, f.piece),
         BlockFull(r, bs), Unfinished(r)
  PROVE  /\ \A f \in Y : f.pci # "CF" /\ f.pci # "FF"
         /\ ~Answered(a) \/ Stuck(t)
         /\ Stuck(t) \/ (Y = {} /\ AllTaken(t, r))
<1> DEFINE l == Len(r.buf)
           m == First(r)
<1>0. bs # 0 /\ r.bs + 1 >= bs /\ l + 1 < r.len
  BY DEF BlockFull, Unfinished
<1>1. /\ h.piece[1] = m /\ h.piece[2] + r.bs <= l + bs /\ r.len = m[2]
      /\ \A f \in X : FrameOf(f, n) /\ PieceOf(f.piece, n) /\ Placed(f.piece)
  BY <1>0, PiecesPlaced DEF Orderly, Room, Sequenced, StreamRight, FrameOf
<1>2. l \in Nat /\ h.piece[2] \in Nat /\ l + 1 <= h.piece[2]
  BY <1>1, NextPiece
<1>3. m[2] \in Nat /\ m[1] \in Nat
  BY <1>1, PiecesPlaced
<1> HIDE DEF l, m
<1>4. h.piece[2] = l + 1 /\ l + 1 < m[2]
  <2>1. l + 1 < m[2]
    BY <1>0, <1>1
  <2>2. h.piece[2] <= l + 1
    BY <1>0, <1>1, <1>2
  <2> QED
    BY <1>2, <2>1, <2>2
<1>5. ASSUME NEW f \in Y, f.pci = "CF" PROVE FALSE
  <2>1. f.piece[1] = m /\ f.piece[2] + r.bs <= l + bs /\ f.piece[2] \in Nat /\ Before(h.piece, f.piece)
    BY <1>0, <1>1, <1>5 DEF Orderly, Room, Placed, m, l
  <2>2. h.piece[2] < f.piece[2]
    BY <1>1, <1>3, <2>1 DEF Before
  <2>3. f.piece[2] <= l + 1
    BY <1>0, <1>2, <2>1
  <2> QED
    BY <1>2, <1>4, <2>1, <2>2, <2>3
\* The last frame of the message has not been sent.
<1>6. ASSUME NEW g \in X, g.piece = LastPiece(m) PROVE FALSE
  <2>1. g.piece[1] = m /\ g.piece[2] = m[2] /\ FrameOf(g, n)
    BY <1>1, <1>6, PieceSplit DEF LastPiece
  <2>2. g # h /\ Before(h.piece, g.piece)
    BY <1>1, <1>2, <1>3, <1>4, <2>1 DEF Before
  <2>3. ~Opens(g)
    BY <2>1, <1>1, <1>3, <1>4, <1>2 DEF FrameOf, Opens, Sequenced, StreamRight, m
  <2>4. g.pci = "CF"
    BY <2>1, <2>3 DEF FrameOf, Data, Opens
  <2>5. g.piece[2] + r.bs <= l + bs
    BY <1>0, <2>4 DEF Orderly, Room, l
  <2> QED
    BY <1>0, <1>2, <1>3, <1>4, <2>1, <2>5
<1>7. Stuck(t) \/ (t.msg = m /\ t.state \in {"sending", "wait_fc"})
  BY <1>1, <1>6 DEF Orderly, Continues
<1>8. ~Answered(a) \/ Stuck(t)
  BY DEF Orderly, AnswerDue
<1>9. \A f \in Y : f.pci # "FF"
  BY <1>7 DEF Orderly, FirstWaits, Stuck
<1>10. ASSUME ~Stuck(t)
       PROVE  Y = {} /\ t.state = "wait_fc" /\ t.msg = m /\ t.idx = l + 1
  <2>1. Active(t) /\ t.msg = m /\ t.state \in {"sending", "wait_fc"}
    BY <1>7, <1>10 DEF Stuck, Active, Waits
  <2>2. t.fcbs = bs /\ t.bs <= bs /\ t.idx + r.bs = l + t.bs
    BY <1>0, <2>1 DEF Orderly, InBlock, l
  <2>3. \A f \in X : NotAfter(f.piece, Piece(t.msg, t.idx))
    BY <2>1 DEF Sequenced, SenderRight
  <2>4. h.piece[2] <= t.idx
    <3>1. NotAfter(h.piece, Piece(m, t.idx)) /\ Piece(m, t.idx)[1] = m /\ Piece(m, t.idx)[2] = t.idx
      BY <2>1, <2>3, PieceSplit
    <3> QED
      BY <1>1, <1>2, <1>3, <3>1 DEF NotAfter, Before
  <2>5. t.idx = l + 1 /\ t.bs = bs
    BY <1>0, <1>2, <1>4, <2>2, <2>4
  <2>6. t.state = "wait_fc"
    BY <1>0, <1>10, <2>1, <2>2, <2>5 DEF Stuck
  <2>7. ASSUME NEW f \in Y PROVE FALSE
    <3>1. NotAfter(f.piece, Piece(m, t.idx)) /\ h.piece = Piece(m, t.idx)
      <4>1. h.piece[1] = m /\ h.piece[2] = t.idx
        BY <1>1, <1>4, <2>5
      <4> QED
        BY <2>1, <2>3, <4>1, PieceSplit
    <3> QED
      BY <1>1, <3>1, BeforeAsym
  <2> QED
    BY <2>1, <2>5, <2>6, <2>7
<1> QED
  BY <1>5, <1>8, <1>9, <1>10 DEF l, m, AllTaken

LEMMA OrderlyBlock ==
  ASSUME NEW X, NEW a, NEW r, NEW t, NEW n, NEW bs \in Nat, Orderly(X, a, r, t, bs),
         \A f \in X : FrameOf(f, n), NEW Y, Rest(Y, X),
         \A f \in Y : f.pci # "CF" /\ f.pci # "FF",
         ~Answered(a) \/ Stuck(t), Waiting(r), r.buf \in Seq(Pieces), r.buf # <<>>,
         Stuck(t) \/ (Y = {} /\ AllTaken(t, r)),
         NEW x \in Pieces, NEW r1, Waiting(r1), r1.buf = Append(r.buf, x), r1.bs = 0,
         NEW b, NoMoreAnswers(b, a) \/ (AnswersOf(b, bs) /\ (~Answered(a) => OneAnswer(b))),
         bs # 0
  PROVE  Orderly(Y, b, r1, t, bs)
<1>1. Y \subseteq X
  BY DEF Rest
<1>2. First(r1) = First(r) /\ Len(r1.buf) = Len(r.buf) + 1
  BY DEF First
<1>3. FirstWaits(Y, t) /\ Room(Y, r1, bs) /\ Continues(Y, t)
  BY DEF FirstWaits, Room, Continues
<1>4. AnswersOf(b, bs)
  BY DEF Orderly, NoMoreAnswers
<1>5. CASE Stuck(t)
  <2>1. ~Active(t)
    BY <1>5 DEF Stuck, Active, Waits
  <2> QED
    BY <1>3, <1>4, <1>5, <2>1 DEF Orderly, AnswerDue, InBlock
<1>6. CASE /\ ~Stuck(t) /\ Y = {} /\ AllTaken(t, r)
  <2>1. AnswerDue(Y, b, r1, t, bs)
    BY <1>2, <1>6 DEF AnswerDue, Waits, NoMoreAnswers, AllTaken
  <2>2. InBlock(Y, r1, t, bs)
    BY <1>2, <1>6 DEF Orderly, InBlock, AllTaken
  <2> QED
    BY <1>3, <1>4, <2>1, <2>2 DEF Orderly
<1> QED
  BY <1>5, <1>6

\* The sender begins with a message, or can_send() raises and it is stuck.
LEMMA OrderlyBegun ==
  ASSUME NEW X, NEW a, NEW r, NEW t, NEW bs, Orderly(X, a, r, t, bs),
         t.state = "idle", NEW t1, NEW Z,
         \/ Z = {} /\ (t1 = t \/ Stuck(t1))
         \/ \E h : Z = {h} /\ h.pci = "SF" /\ t1 = t
         \/ \E h : Z = {h} /\ h.pci = "FF" /\ t1.state = "wait_first_fc" /\ t1.msg = h.piece[1]
  PROVE  Orderly(X \cup Z, a, r, t1, bs)
<1>1. ~Active(t) /\ ~Stuck(t) /\ ~Waits(t)
  BY DEF Active, Stuck, Waits
<1>2. ~Answered(a) /\ \A f \in X : f.pci # "FF"
  BY <1>1 DEF Orderly, AnswerDue, FirstWaits
<1>3. \A h \in Z : h.pci # "CF"
  OBVIOUS
<1>4. FirstWaits(X \cup Z, t1)
  BY <1>2 DEF FirstWaits
<1>5. AnswerDue(X \cup Z, a, r, t1, bs)
  BY <1>2 DEF AnswerDue
<1>6. InBlock(X \cup Z, r, t1, bs)
  BY <1>1 DEF InBlock, Stuck, Active, Waits
<1>7. Room(X \cup Z, r, bs)
  BY <1>3 DEF Orderly, Room
<1>8. Continues(X \cup Z, t1)
  <2>1. ASSUME NEW f \in X, f.pci = "CF" PROVE \E g \in X : g.piece = LastPiece(f.piece[1])
    BY <1>1, <2>1 DEF Orderly, Continues
  <2> QED
    BY <1>3, <2>1 DEF Continues
<1> QED
  BY <1>4, <1>5, <1>6, <1>7, <1>8 DEF Orderly

\* Consecutive frames are sent, up to the end of the message or the block, or
\* until can_send() raises.
LEMMA OrderlySent ==
  ASSUME NEW X, NEW a, NEW r, NEW t, NEW n, NEW bs \in Nat, Orderly(X, a, r, t, bs),
         t.state = "sending", t.timer, NEW t1, NEW Z, FramesOf(Z, t, t1, n),
         NEW k \in Nat, t1.idx = t.idx + k, t1.bs = t.bs + k, t1.fcbs = t.fcbs,
         t.idx \in Nat, t.bs \in Nat, Waiting(r) => r.bs \in Nat /\ Len(r.buf) \in Nat,
         t.fcbs # 0 => t.bs + k <= t.fcbs,
         \/ Stuck(t1)
         \/ t1.state \in {"sending", "wait_fc"}
         \/ t1.state = "idle" /\ \E g \in Z : g.piece = LastPiece(t.msg)
  PROVE  Orderly(X \cup Z, a, r, t1, bs)
<1>1. Active(t) /\ ~Stuck(t) /\ ~Waits(t) /\ t.state # "wait_first_fc" /\ t.state # "wait_fc"
  BY DEF Active, Stuck, Waits
<1>2. ~Answered(a) /\ \A f \in X : f.pci # "FF"
  BY <1>1 DEF Orderly, AnswerDue, FirstWaits
<1>3. \A h \in Z : h.pci = "CF" /\ h.piece = Piece(t.msg, h.piece[2]) /\ t1.msg = t.msg
                   /\ h.piece[1] = t.msg /\ h.piece[2] <= t1.idx /\ h.piece[2] \in Nat
  BY PieceSplit, PiecesPlaced DEF FramesOf, FrameOf, Placed
<1>4. t1.msg = t.msg
  BY DEF FramesOf
<1>5. FirstWaits(X \cup Z, t1)
  BY <1>2, <1>3 DEF FirstWaits
<1>6. AnswerDue(X \cup Z, a, r, t1, bs)
  BY <1>2 DEF AnswerDue
<1>7. t.fcbs = bs /\ (Waiting(r) => First(r) = t.msg)
  BY <1>1 DEF Orderly, InBlock
<1>8. ASSUME Waiting(r), bs # 0
      PROVE  t1.bs <= bs /\ t1.idx + r.bs = Len(r.buf) + t1.bs
  <2>1. t.idx + r.bs = Len(r.buf) + t.bs
    BY <1>1, <1>8 DEF Orderly, InBlock
  <2>2. t1.bs <= bs
    BY <1>7, <1>8
  <2>3. Balanced(t.idx, r.bs, Len(r.buf), t.bs) /\ r.bs \in Nat /\ Len(r.buf) \in Nat
    BY <1>8, <2>1 DEF Balanced
  <2>4. Balanced(t.idx + k, r.bs, Len(r.buf), t.bs + k)
    BY <2>3, SomeMore
  <2>5. Balanced(t1.idx, r.bs, Len(r.buf), t1.bs)
    BY <2>4
  <2> QED
    BY <2>2, <2>5 DEF Balanced
<1>9. InBlock(X \cup Z, r, t1, bs)
  BY <1>4, <1>7, <1>8 DEF InBlock
<1>10. Room(X \cup Z, r, bs)
  <2> SUFFICES ASSUME Waiting(r), NEW f \in Z, bs # 0
               PROVE  f.piece[2] + r.bs <= Len(r.buf) + bs
    BY <1>3, <1>7 DEF Orderly, Room
  <2>1. /\ f.piece[2] <= t1.idx /\ t1.bs <= bs /\ Balanced(t1.idx, r.bs, Len(r.buf), t1.bs)
        /\ f.piece[2] \in Nat /\ t1.idx \in Nat /\ t1.bs \in Nat
        /\ r.bs \in Nat /\ Len(r.buf) \in Nat
    BY SMTT(30), <1>3, <1>8 DEF Balanced
  <2>2. Within(f.piece[2], r.bs, Len(r.buf), bs)
    BY <2>1, AtMost
  <2> QED
    BY <2>2 DEF Within
<1>11. Continues(X \cup Z, t1)
  <2>1. ASSUME NEW f \in X \cup Z, f.pci = "CF"
        PROVE  f.piece[1] = t.msg \/ \E g \in X : g.piece = LastPiece(f.piece[1])
    BY <1>1, <1>3, <2>1 DEF Orderly, Continues
  <2>2. ASSUME NEW f \in X \cup Z, f.pci = "CF"
        PROVE  \/ Stuck(t1)
               \/ t1.msg = f.piece[1] /\ t1.state \in {"sending", "wait_fc"}
               \/ \E g \in X \cup Z : g.piece = LastPiece(f.piece[1])
    BY <1>4, <2>1, <2>2
  <2> QED
    BY <2>2 DEF Continues
<1> QED
  BY <1>5, <1>6, <1>7, <1>9, <1>10, <1>11 DEF Orderly

\* The sender gives up, and nothing was on its way.
LEMMA OrderlyGivenUp ==
  ASSUME NEW X, NEW a, NEW r, NEW t, NEW bs, Orderly(X, a, r, t, bs), X = {}, ~Answered(a),
         NEW t1, t1.state = "idle"
  PROVE  Orderly(X, a, r, t1, bs)
  BY DEF Orderly, FirstWaits, AnswerDue, InBlock, Room, Continues, Active, Waits

\* The sender takes an answer.
LEMMA OrderlyAnswered ==
  ASSUME NEW X, NEW a, NEW r, NEW t, NEW bs \in Nat, Orderly(X, a, r, t, bs), Answered(a),
         NEW b, NoMoreAnswers(b, a), OneAnswer(a) => ~Answered(b), NEW t1,
         \/ ~Waits(t) /\ t1 = t
         \/ /\ Waits(t) /\ t1.state = "sending" /\ t1.bs = 0 /\ t1.msg = t.msg /\ t1.idx = t.idx
            /\ t1.fcbs = IF t.state = "wait_first_fc" THEN bs ELSE t.fcbs,
         t.idx \in Nat
  PROVE  Orderly(X, b, r, t1, bs)
<1>1. AnswersOf(b, bs)
  BY DEF Orderly, NoMoreAnswers
<1>2. CASE ~Waits(t) /\ t1 = t
  <2>1. Stuck(t)
    BY <1>2 DEF Orderly, AnswerDue
  <2> QED
    BY <1>1, <1>2, <2>1 DEF Orderly, AnswerDue
<1>3. CASE /\ Waits(t) /\ t1.state = "sending" /\ t1.bs = 0 /\ t1.msg = t.msg /\ t1.idx = t.idx
           /\ t1.fcbs = IF t.state = "wait_first_fc" THEN bs ELSE t.fcbs
  <2>1. ~Stuck(t) /\ Active(t)
    BY <1>3 DEF Stuck, Waits, Active
  <2>2. /\ X = {} /\ Waiting(r) /\ First(r) = t.msg /\ ~Answered(b)
        /\ bs # 0 => r.bs = 0 /\ Len(r.buf) = t.idx
    BY <2>1 DEF Orderly, AnswerDue
  <2>3. t1.fcbs = bs
    BY <1>3, <2>1 DEF Orderly, InBlock
  <2>4. bs # 0 => t1.bs <= bs /\ t1.idx + r.bs = Len(r.buf) + t1.bs
    BY <1>3, <2>2
  <2>5. InBlock(X, r, t1, bs)
    BY <1>3, <2>2, <2>3, <2>4 DEF InBlock
  <2> QED
    BY <1>1, <2>2, <2>5 DEF Orderly, FirstWaits, AnswerDue, Room, Continues
<1> QED
  BY <1>2, <1>3

-----------------------------------------------------------------------------
(* The invariant of a channel, step by step: q is the bus to the receiver, a *)
(* the bus back, l, g and h what was lost, foreign and hasty.               *)

Channel(q, a, r, t, w, d, n, bs, l, g, h) ==
  /\ InOrder(q) /\ Sequenced(Underway(q), r, t, w, d, n)
  /\ l = 0 => Chained(Underway(q), r, t)
  /\ g = 0 /\ ~h => Orderly(Underway(q), a, r, t, bs)
  /\ l = 0 \/ (g = 0 /\ ~h) => Gathered(r, d)

\* Faults add up.
Worse(l1, g1, h1, l, g, h) == (l1 = 0 => l = 0) /\ (g1 = 0 /\ ~h1 => g = 0 /\ ~h)

LEMMA SlowerFollows == ASSUME NEW t, NEW t1, Slower(t1, t) PROVE Follows(t1, t)
  BY DEF Slower, Follows, Active, Waits

LEMMA StreamTyped ==
  ASSUME NEW X, NEW r, NEW t, NEW w, NEW d, NEW n, Sequenced(X, r, t, w, d, n)
  PROVE  \A f \in X : FrameOf(f, n)
  BY DEF Sequenced, StreamRight

\* Frames with pieces stay where they are.
LEMMA ChannelQuiet ==
  ASSUME NEW q, NEW a, NEW r, NEW t, NEW w, NEW d, NEW n, NEW bs, NEW l, NEW g, NEW h,
         Channel(q, a, r, t, w, d, n, bs, l, g, h),
         NEW p, InOrder(p), Underway(p) = Underway(q),
         NEW t1, Slower(t1, t), NEW l1, NEW g1, NEW h1, Worse(l1, g1, h1, l, g, h),
         NEW b, g1 = 0 /\ ~h1 => NoMoreAnswers(b, a),
         NEW r1, Alike(r1, r) \/ (~Waiting(r1) /\ (g1 = 0 /\ ~h1 => ~Answered(a)))
  PROVE  Channel(p, b, r1, t1, w, d, n, bs, l1, g1, h1)
<1> DEFINE X == Underway(q)
<1>1. Follows(t1, t) /\ Remains(r1, r)
  BY SlowerFollows DEF Remains
<1>2. Sequenced(X, r, t, w, d, n) /\ X \in SUBSET X /\ Rest(X, X)
  BY DEF Channel, Rest
<1>3. \A f \in X : FrameOf(f, n)
  BY <1>2, StreamTyped
<1> HIDE DEF X
<1>4. Sequenced(X, r1, t1, w, d, n)
  BY <1>1, <1>2, SequencedShrinks
<1>5. l1 = 0 => Chained(X, r1, t1)
  BY <1>1, ChainedKept DEF Channel, Worse, X
<1>6. g1 = 0 /\ ~h1 => Orderly(X, b, r1, t1, bs)
  <2> SUFFICES ASSUME g1 = 0, ~h1 PROVE Orderly(X, b, r1, t1, bs)
    OBVIOUS
  <2>1. Orderly(X, a, r, t, bs)
    BY DEF Channel, Worse, X
  <2> QED
    BY <1>2, <1>3, <2>1, OrderlyKept
<1>7. l1 = 0 \/ (g1 = 0 /\ ~h1) => Gathered(r1, d)
  <2>1. Waiting(r1) => Waiting(r) /\ r1.buf = r.buf
    BY <1>1 DEF Remains, Alike, Waiting
  <2> QED
    BY <2>1 DEF Channel, Worse, Gathered
<1> QED
  BY <1>4, <1>5, <1>6, <1>7 DEF Channel, X

\* What is known when the first frame on the bus has a piece.
LEMMA HeadData ==
  ASSUME NEW q \in Seq(Frames), q # <<>>, NEW a, NEW r, NEW t, NEW w, NEW d, NEW n, NEW bs,
         NEW l, NEW g, NEW h, Channel(q, a, r, t, w, d, n, bs, l, g, h), Data(Head(q))
  PROVE  /\ InOrder(Tail(q)) /\ Head(q) \in Underway(q) /\ FrameOf(Head(q), n)
         /\ Rest(Underway(Tail(q)), Underway(q))
         /\ Underway(Tail(q)) \in SUBSET Underway(q)
         /\ \A f \in Underway(Tail(q)) : Before(Head(q).piece, f.piece)
         /\ \A f \in Underway(q) : f = Head(q) \/ f \in Underway(Tail(q))
         /\ \A f \in Underway(q) : FrameOf(f, n)
         /\ Head(q).piece \in Pieces
<1>1. InOrder(q)
  BY DEF Channel
<1>2. /\ InOrder(Tail(q)) /\ Head(q) \in Underway(q)
      /\ Underway(Tail(q)) \subseteq Underway(q)
      /\ \A f \in Underway(Tail(q)) : Before(Head(q).piece, f.piece)
      /\ \A f \in Underway(q) : f = Head(q) \/ f \in Underway(Tail(q))
  BY <1>1, HeadGone
<1>3. Rest(Underway(Tail(q)), Underway(q))
  BY <1>2 DEF Rest
<1>4. \A f \in Underway(q) : FrameOf(f, n)
  BY StreamTyped DEF Channel
<1>5. Head(q).piece \in Pieces
  BY SeqTake, FrameFields DEF Data
<1> QED
  BY <1>2, <1>3, <1>4, <1>5

LEMMA SameRemains ==
  /\ \A r : Alike(r, r) /\ Remains(r, r)
  /\ \A t : Slower(t, t) /\ Follows(t, t)
  /\ \A a : NoMoreAnswers(a, a)
  BY DEF Alike, Remains, Slower, Follows, NoMoreAnswers

\* The frame is lost.
LEMMA ChannelLost ==
  ASSUME NEW q \in Seq(Frames), q # <<>>, NEW a, NEW r, NEW t, NEW w, NEW d, NEW n, NEW bs,
         NEW l, NEW g, NEW h, Channel(q, a, r, t, w, d, n, bs, l, g, h), Data(Head(q)),
         NEW l1, l1 # 0
  PROVE  Channel(Tail(q), a, r, t, w, d, n, bs, l1, g, h)
<1>1. /\ InOrder(Tail(q)) /\ Rest(Underway(Tail(q)), Underway(q))
      /\ Underway(Tail(q)) \in SUBSET Underway(q)
      /\ \A f \in Underway(q) : FrameOf(f, n)
  BY HeadData
<1>2. Sequenced(Underway(Tail(q)), r, t, w, d, n)
  BY <1>1, SameRemains, SequencedShrinks DEF Channel
<1>3. g = 0 /\ ~h => Orderly(Underway(Tail(q)), a, r, t, bs)
  BY <1>1, SameRemains, OrderlyKept DEF Channel
<1> QED
  BY <1>1, <1>2, <1>3 DEF Channel

\* The frame is read, and no reception goes on after it.
LEMMA ChannelIdle ==
  ASSUME NEW q \in Seq(Frames), q # <<>>, NEW a, NEW r, NEW t, NEW w, NEW d, NEW n, NEW bs,
         NEW l, NEW g, NEW h, Channel(q, a, r, t, w, d, n, bs, l, g, h), Data(Head(q)),
         NEW r1, ~Waiting(r1)
  PROVE  Channel(Tail(q), a, r1, t, w, d, n, bs, l, g, h)
<1>1. /\ InOrder(Tail(q)) /\ Rest(Underway(Tail(q)), Underway(q)) /\ Head(q) \in Underway(q)
      /\ Underway(Tail(q)) \in SUBSET Underway(q)
      /\ \A f \in Underway(Tail(q)) : Before(Head(q).piece, f.piece)
      /\ \A f \in Underway(q) : f = Head(q) \/ f \in Underway(Tail(q))
      /\ \A f \in Underway(q) : FrameOf(f, n)
  BY HeadData
<1>2. Remains(r1, r) /\ Underway(q) # {}
  BY <1>1 DEF Remains
<1>3. Sequenced(Underway(q), r, t, w, d, n)
  BY DEF Channel
<1>4. Sequenced(Underway(Tail(q)), r1, t, w, d, n)
  BY <1>1, <1>2, <1>3, SameRemains, SequencedShrinks
<1>5. l = 0 => Chained(Underway(Tail(q)), r1, t)
  BY <1>1, <1>3, ChainedTaken DEF Channel
<1>6. g = 0 /\ ~h => Orderly(Underway(Tail(q)), a, r1, t, bs)
  BY <1>1, <1>2, SameRemains, OrderlyKept DEF Channel
<1>7. l = 0 \/ (g = 0 /\ ~h) => Gathered(r1, d)
  BY DEF Channel, Gathered
<1> QED
  BY <1>1, <1>4, <1>5, <1>6, <1>7 DEF Channel

\* What is delivered then, whole if the channel is good.
LEMMA ChannelDelivers ==
  ASSUME NEW q, NEW a, NEW r, NEW t, NEW w, NEW d \in Seq(Seq(Pieces)), NEW n, NEW bs,
         NEW l, NEW g, NEW h, Channel(q, a, r, t, w, d, n, bs, l, g, h), ~Waiting(r),
         NEW b \in Seq(Pieces), Number(b) \in 1..n,
         \A i \in DOMAIN d : Number(d[i]) < Number(b),
         \A j \in DOMAIN w : Number(b) < w[j][1],
         \A f \in Underway(q) : Opens(f) => Number(b) < f.piece[1][1],
         l = 0 \/ (g = 0 /\ ~h) => b = Payload(b[1][1])
  PROVE  Channel(q, a, r, t, w, Append(d, b), n, bs, l, g, h)
<1>1. Sequenced(Underway(q), r, t, w, Append(d, b), n)
  BY Delivers DEF Channel
<1>2. l = 0 \/ (g = 0 /\ ~h) => Gathered(r, Append(d, b))
  BY GatheredDelivers DEF Channel
<1> QED
  BY <1>1, <1>2 DEF Channel

LEMMA ChannelSf ==
  ASSUME NEW q \in Seq(Frames), q # <<>>, NEW a, NEW r, NEW t, NEW w,
         NEW d \in Seq(Seq(Pieces)), NEW n \in Nat, NEW bs, NEW l, NEW g, NEW h,
         Channel(q, a, r, t, w, d, n, bs, l, g, h), Head(q).pci = "SF", NEW r1, ~Waiting(r1)
  PROVE  Channel(Tail(q), a, r1, t, w, Append(d, <<Head(q).piece>>), n, bs, l, g, h)
<1> DEFINE x == Head(q).piece
           b == <<x>>
           Y == Underway(Tail(q))
<1>1. /\ Head(q) \in Underway(q) /\ FrameOf(Head(q), n) /\ x \in Pieces
      /\ \A f \in Y : Before(x, f.piece) /\ FrameOf(f, n)
  BY HeadData DEF Data
<1>2. PieceOf(x, n) /\ x[1][2] = 1
  BY <1>1 DEF FrameOf
<1>3. x[2] = 1 /\ x[1][1] \in 1..n /\ x[1][1] \in Nat
  BY <1>2, PiecesPlaced DEF PieceOf
<1>4. b \in Seq(Pieces) /\ Number(b) = x[1][1] /\ b[1][1] = x[1]
  BY <1>1 DEF Number
<1>5. b = Payload(b[1][1])
  BY <1>1, <1>2, <1>3, <1>4, Single
<1>6. Channel(Tail(q), a, r1, t, w, d, n, bs, l, g, h)
  BY ChannelIdle DEF Data
<1>7. \A i \in DOMAIN d : Number(d[i]) < x[1][1]
  BY <1>1 DEF Channel, Sequenced, PastRight, Opens
<1>8. \A j \in DOMAIN w : x[1][1] < w[j][1]
  BY <1>1 DEF Channel, Sequenced, QueueRight
<1>9. ASSUME NEW f \in Y, Opens(f) PROVE x[1][1] < f.piece[1][1]
  <2>1. Before(x, f.piece) /\ FrameOf(f, n) /\ PieceOf(f.piece, n)
    BY <1>1 DEF FrameOf
  <2>2. ~(x[1] = f.piece[1] /\ x[2] < f.piece[2])
    <3>1. f.piece[2] \in Nat /\ f.piece[2] <= f.piece[1][2]
      BY <2>1, PiecesPlaced DEF PieceOf, Placed
    <3> QED
      BY <1>2, <1>3, <3>1
  <2> QED
    BY <2>1, <2>2 DEF Before
<1> HIDE DEF x, b, Y
<1>10. Channel(Tail(q), a, r1, t, w, Append(d, b), n, bs, l, g, h)
  BY <1>3, <1>4, <1>5, <1>6, <1>7, <1>8, <1>9, ChannelDelivers DEF Y
<1> QED
  BY <1>10 DEF b, x

\* What comes back after a first frame or a frame that ends a block.
MayAnswer(b, a, bs) ==
  \/ NoMoreAnswers(b, a)
  \/ (AnswersOf(a, bs) => AnswersOf(b, bs)) /\ (~Answered(a) => OneAnswer(b))

LEMMA SameAnswers == ASSUME NEW a, NEW bs PROVE MayAnswer(a, a, bs)
  BY SameRemains DEF MayAnswer

LEMMA ChannelFf ==
  ASSUME NEW q \in Seq(Frames), q # <<>>, NEW a, NEW r, NEW t, NEW w, NEW d, NEW n \in Nat,
         NEW bs, NEW l, NEW g, NEW h, Channel(q, a, r, t, w, d, n, bs, l, g, h),
         Head(q).pci = "FF", NEW r1, Waiting(r1), r1.buf = <<Head(q).piece>>,
         r1.len = Head(q).len, NEW b, NoMoreAnswers(b, a) \/ (MayAnswer(b, a, bs) /\ r1.bs = 0)
  PROVE  Channel(Tail(q), b, r1, t, w, d, n, bs, l, g, h)
<1> DEFINE f == Head(q)
           X == Underway(q)
           Y == Underway(Tail(q))
<1>1. /\ InOrder(Tail(q)) /\ f \in X /\ FrameOf(f, n) /\ Y \in SUBSET X
      /\ \A k \in Y : Before(f.piece, k.piece)
      /\ \A k \in X : k = f \/ k \in Y
      /\ f.piece \in Pieces
  BY HeadData DEF Data
<1>2. Sequenced(X, r, t, w, d, n)
  BY DEF Channel
<1>3. f.pci = "FF" /\ r1.buf = <<f.piece>> /\ r1.len = f.len /\ f.piece[2] = 1
  BY <1>1 DEF FrameOf
<1>4. Latest(r1) = f.piece
  BY <1>3 DEF Latest
<1>5. (l = 0 => Chained(X, r, t)) /\ (g = 0 /\ ~h => Orderly(X, a, r, t, bs))
  BY DEF Channel
<1> HIDE DEF f, X, Y
<1>6. Sequenced(Y, r1, t, w, d, n)
  BY <1>1, <1>2, <1>3, Opened
<1>7. l = 0 => Chained(Y, r1, t)
  BY <1>1, <1>2, <1>4, <1>5, ChainedTaken
<1>8. ASSUME g = 0, ~h PROVE Orderly(Y, b, r1, t, bs)
  <2>1. Orderly(X, a, r, t, bs)
    BY <1>5, <1>8
  <2>2. ~Answered(a) /\ AnswersOf(a, bs)
    BY <1>1, <1>2, <1>3, <2>1, FirstAlone DEF Orderly
  <2>3. NoMoreAnswers(b, a) \/ (OneAnswer(b) /\ AnswersOf(b, bs) /\ r1.bs = 0)
    BY <2>2 DEF MayAnswer, NoMoreAnswers
  <2> QED
    BY <1>1, <1>2, <1>3, <2>1, <2>3, OrderlyOpened
<1>9. WholeSoFar(r1.buf)
  BY <1>1, <1>3, FirstPiece
<1>10. l = 0 \/ (g = 0 /\ ~h) => Gathered(r1, d)
  BY <1>9 DEF Channel, Gathered
<1> QED
  BY <1>1, <1>6, <1>7, <1>8, <1>10 DEF Channel, Y

\* A consecutive frame belongs to the message that is received.
LEMMA CfMatches ==
  ASSUME NEW q \in Seq(Frames), q # <<>>, NEW a, NEW r, NEW t, NEW w, NEW d, NEW n, NEW bs,
         NEW l, NEW g, NEW h, Channel(q, a, r, t, w, d, n, bs, l, g, h),
         Head(q).pci = "CF", ~Head(q).odd, Waiting(r), r.buf \in Seq(Pieces),
         l = 0 \/ (g = 0 /\ ~h)
  PROVE  /\ r.buf # <<>> /\ WholeSoFar(r.buf) /\ Head(q).piece[1] = r.buf[1][1]
         /\ WholeSoFar(Append(r.buf, Head(q).piece))
<1> DEFINE f == Head(q)
           X == Underway(q)
<1>1. /\ f \in X /\ f.piece \in Pieces
      /\ \A k \in X : k = f \/ Before(f.piece, k.piece)
  BY HeadData DEF Data
<1>2. Sequenced(X, r, t, w, d, n) /\ Gathered(r, d)
  BY DEF Channel
<1>3. r.buf # <<>> /\ WholeSoFar(r.buf)
  BY <1>2 DEF Sequenced, StreamRight, Gathered
<1>4. Latest(r)[1] = First(r)
  BY <1>3 DEF WholeSoFar, Latest, First
<1>5. f.pci = "CF"
  OBVIOUS
<1>6. (l = 0 => Chained(X, r, t)) /\ (g = 0 /\ ~h => Orderly(X, a, r, t, bs))
  BY DEF Channel
<1> HIDE DEF f, X
<1>7. f.piece[1] = First(r)
  <2>1. CASE l = 0
    BY <1>1, <1>2, <1>4, <1>5, <1>6, <2>1, ChainedNext
  <2>2. CASE g = 0 /\ ~h
    BY <1>1, <1>5, <1>6, <2>2 DEF Orderly, Room
  <2> QED
    BY <2>1, <2>2
<1>8. Latest(r)[2] < f.piece[2]
  BY <1>1, <1>2, <1>7, NextPiece
<1>9. WholeSoFar(Append(r.buf, f.piece))
  BY <1>1, <1>3, <1>7, <1>8, Grows DEF Latest, First
<1> QED
  BY <1>3, <1>7, <1>9 DEF f, First

LEMMA ChannelCfLast ==
  ASSUME NEW q \in Seq(Frames), q # <<>>, NEW a, NEW r, NEW t, NEW w,
         NEW d \in Seq(Seq(Pieces)), NEW n \in Nat, NEW bs, NEW l, NEW g, NEW h,
         Channel(q, a, r, t, w, d, n, bs, l, g, h),
         Head(q).pci = "CF", ~Head(q).odd, Waiting(r), r.buf \in Seq(Pieces),
         NEW b, b = Append(r.buf, Head(q).piece), Len(b) >= r.len, NEW r1, ~Waiting(r1)
  PROVE  Channel(Tail(q), a, r1, t, w, Append(d, b), n, bs, l, g, h)
<1>1. /\ Head(q).piece \in Pieces /\ FrameOf(Head(q), n)
      /\ Underway(Tail(q)) \in SUBSET Underway(q)
  BY HeadData DEF Data
<1>2. /\ r.buf # <<>> /\ First(r) \in Messages /\ First(r)[1] <= n /\ r.len = First(r)[2]
      /\ \A f \in Underway(q) : Opens(f) => First(r)[1] < f.piece[1][1]
  BY DEF Channel, Sequenced, StreamRight
<1>3. b \in Seq(Pieces) /\ b # <<>> /\ b[1] = r.buf[1] /\ b[Len(b)] = Head(q).piece
  BY <1>1, <1>2
<1>4. Number(b) = First(r)[1] /\ b[1][1] = First(r)
  BY <1>3 DEF Number, First
<1>5. Number(b) \in 1..n
  BY <1>2, <1>4 DEF Messages
<1>6. ASSUME l = 0 \/ (g = 0 /\ ~h) PROVE b = Payload(b[1][1])
  <2>1. WholeSoFar(b)
    BY <1>6, CfMatches
  <2>2. PieceOf(b[Len(b)], n)
    BY <1>1, <1>3 DEF FrameOf
  <2>3. b[1][1][2] <= Len(b)
    <3>1. r.len \in Nat /\ Len(b) \in Nat /\ b[1][1][2] = r.len
      BY <1>2, <1>3, <1>4, LengthsTyped
    <3> QED
      BY <3>1
  <2> QED
    BY <1>3, <2>1, <2>2, <2>3, Complete
<1>7. Channel(Tail(q), a, r1, t, w, d, n, bs, l, g, h)
  BY ChannelIdle DEF Data
<1>8. \A i \in DOMAIN d : Number(d[i]) < Number(b)
  BY <1>4 DEF Channel, Sequenced, PastRight
<1>9. \A j \in DOMAIN w : Number(b) < w[j][1]
  BY <1>4 DEF Channel, Sequenced, QueueRight
<1>10. \A f \in Underway(Tail(q)) : Opens(f) => Number(b) < f.piece[1][1]
  BY <1>1, <1>2, <1>4
<1> QED
  BY <1>3, <1>5, <1>6, <1>7, <1>8, <1>9, <1>10, ChannelDelivers

\* The frame is taken and the reception goes on, in the block or after it.
LEMMA ChannelCf ==
  ASSUME NEW q \in Seq(Frames), q # <<>>, NEW a, NEW r, NEW t, NEW w, NEW d, NEW n,
         NEW bs \in Nat, NEW l, NEW g, NEW h, Channel(q, a, r, t, w, d, n, bs, l, g, h),
         Head(q).pci = "CF", ~Head(q).odd, Waiting(r), r.buf \in Seq(Pieces), r.bs \in Nat,
         Unfinished(r), t.idx \in Nat, t.bs \in Nat,
         t.fcbs = 0 \/ t.bs < t.fcbs \/ t.state # "sending" \/ ~t.timer,
         NEW r1, Waiting(r1), r1.buf = Append(r.buf, Head(q).piece), r1.len = r.len, NEW b,
         \/ b = a /\ r1.bs = IF bs = 0 THEN r.bs ELSE r.bs + 1
         \/ BlockFull(r, bs) /\ r1.bs = 0 /\ MayAnswer(b, a, bs)
  PROVE  Channel(Tail(q), b, r1, t, w, d, n, bs, l, g, h)
<1> DEFINE f == Head(q)
           X == Underway(q)
           Y == Underway(Tail(q))
<1>1. /\ InOrder(Tail(q)) /\ f \in X /\ FrameOf(f, n) /\ Y \in SUBSET X /\ X # {}
      /\ \A k \in Y : Before(f.piece, k.piece)
      /\ \A k \in X : k = f \/ k \in Y
      /\ \A k \in X : FrameOf(k, n)
      /\ f.piece \in Pieces /\ Rest(Y, X)
  BY HeadData DEF Data
<1>2. Sequenced(X, r, t, w, d, n)
  BY DEF Channel
<1>3. f.pci = "CF" /\ r1.buf = Append(r.buf, f.piece) /\ r.buf # <<>>
  BY <1>2 DEF Sequenced, StreamRight
<1>4. Latest(r1) = f.piece
  BY <1>1, <1>3 DEF Latest
<1>5. (l = 0 => Chained(X, r, t)) /\ (g = 0 /\ ~h => Orderly(X, a, r, t, bs))
  BY DEF Channel
<1>6. l = 0 \/ (g = 0 /\ ~h) => Gathered(r, d) /\ Gathered(r1, d)
  <2>1. l = 0 \/ (g = 0 /\ ~h) => WholeSoFar(r1.buf)
    BY CfMatches
  <2> QED
    BY <2>1 DEF Channel, Gathered
<1> HIDE DEF f, X, Y
<1>7. Sequenced(Y, r1, t, w, d, n)
  BY <1>1, <1>2, <1>3, Taken
<1>8. l = 0 => Chained(Y, r1, t)
  BY <1>1, <1>2, <1>4, <1>5, ChainedTaken
<1>9. ASSUME g = 0, ~h PROVE Orderly(Y, b, r1, t, bs)
  <2>1. Orderly(X, a, r, t, bs) /\ Gathered(r, d)
    BY <1>5, <1>6, <1>9
  <2>2. CASE b = a /\ r1.bs = IF bs = 0 THEN r.bs ELSE r.bs + 1
    BY <1>1, <1>3, <2>1, <2>2, OrderlyTaken
  <2>3. CASE BlockFull(r, bs) /\ r1.bs = 0 /\ MayAnswer(b, a, bs)
    <3>1. /\ \A k \in Y : k.pci # "CF" /\ k.pci # "FF"
          /\ ~Answered(a) \/ Stuck(t)
          /\ Stuck(t) \/ (Y = {} /\ AllTaken(t, r))
      BY <1>1, <1>2, <1>3, <2>1, <2>3, BlockOver
    <3>2. NoMoreAnswers(b, a) \/ (AnswersOf(b, bs) /\ (~Answered(a) => OneAnswer(b)))
      BY <2>1, <2>3 DEF MayAnswer, Orderly
    <3> QED
      BY <1>1, <1>3, <2>1, <2>3, <3>1, <3>2, OrderlyBlock DEF BlockFull
  <2> QED
    BY <2>2, <2>3
<1> QED
  BY <1>1, <1>6, <1>7, <1>8, <1>9 DEF Channel, Y

-----------------------------------------------------------------------------
(* The same for what the sender does                                       *)

LEMMA ChannelJoined ==
  ASSUME NEW q, NEW a, NEW r, NEW t, NEW w \in Seq(Messages), NEW d, NEW n \in Nat, NEW bs,
         NEW l, NEW g, NEW h, Channel(q, a, r, t, w, d, n, bs, l, g, h),
         NEW m \in Messages, m[1] = n + 1
  PROVE  Channel(q, a, r, t, Append(w, m), d, n + 1, bs, l, g, h)
<1>1. Sequenced(Underway(q), r, t, Append(w, m), d, n + 1)
  BY QueueJoined DEF Channel
<1> QED
  BY <1>1 DEF Channel

\* The next message is begun with its single or first frame.
LEMMA ChannelBegun ==
  ASSUME NEW q \in Seq(Frames), NEW a, NEW r, NEW t, NEW w \in Seq(Messages), w # <<>>, NEW d,
         NEW n \in Nat, NEW bs, NEW l, NEW g, NEW h, Channel(q, a, r, t, w, d, n, bs, l, g, h),
         t.state = "idle", NEW f \in Frames, NEW t1,
         \/ Head(w)[2] = 1 /\ f = Sf(Head(w)) /\ t1 = t
         \/ /\ Head(w)[2] # 1 /\ f = Ff(Head(w)) /\ t1.state = "wait_first_fc"
            /\ t1.msg = Head(w) /\ t1.idx = 1
  PROVE  Channel(q \o <<f>>, a, r, t1, Tail(w), d, n, bs, l, g, h)
<1> DEFINE m == Head(w)
           X == Underway(q)
           Z == Underway(<<f>>)
           v == Tail(w)
<1>1. m \in Messages /\ m[2] \in Nat \ {0} /\ 1 \in 1..m[2]
  <2>1. m \in Messages
    BY SeqTake
  <2> QED
    BY <2>1, LengthsTyped
<1>2. Sequenced(X, r, t, v, d, n) /\ Newest(m, X, r, t, v, d, n)
  BY QueueTaken DEF Channel
<1>3. /\ f.piece = Piece(m, 1) /\ Data(f) /\ f.pci # "CF" /\ f.piece[1] = m /\ f.piece[2] = 1
      /\ f.pci = "SF" => m[2] = 1 /\ t1 = t
      /\ f.pci = "FF" => m[2] # 1 /\ f.len = m[2] /\ t1.state = "wait_first_fc" /\ t1.msg = m
  BY PieceSplit DEF Sf, Ff, Data
<1>4. FrameOf(f, n)
  BY <1>1, <1>2, <1>3 DEF FrameOf, PieceOf, Newest
<1>5. ~Active(t)
  BY DEF Active, Waits
<1>6. Active(t1) => t1.msg = m /\ t1.idx = 1
  BY <1>5
<1>7. Range(<<f>>) = {f}
  BY DEF Range
<1>8. Z = {f}
  BY <1>3, <1>7 DEF Underway
<1>9. InOrder(q) /\ <<f>> \in Seq(Frames)
  BY DEF Channel
<1>10. InOrder(<<f>>)
  BY DEF InOrder
<1> HIDE DEF m, X, v
<1>11. Sequenced(X \cup {f}, r, t1, v, d, n) /\ \A k \in X : Before(k.piece, f.piece)
  BY ZenonT(30), <1>2, <1>3, <1>4, <1>6, Begun
<1>12. InOrder(q \o <<f>>) /\ Underway(q \o <<f>>) = X \cup {f}
  <2>1. \A k \in Underway(q), j \in Underway(<<f>>) : Before(k.piece, j.piece)
    BY <1>8, <1>11 DEF X
  <2> DEFINE p == <<f>>
  <2>2. p \in Seq(Frames) /\ InOrder(p) /\ \A k \in Underway(q), j \in Underway(p) : Before(k.piece, j.piece)
    BY <1>9, <1>10, <2>1
  <2> HIDE DEF p
  <2>3. InOrder(q \o p) /\ Underway(q \o p) = Underway(q) \cup Underway(p)
    BY <1>9, <2>2, FramesPut
  <2>4. InOrder(q \o <<f>>) /\ Underway(q \o <<f>>) = Underway(q) \cup Underway(<<f>>)
    BY <2>3 DEF p
  <2> QED
    BY <1>8, <2>4 DEF X
<1>13. l = 0 => Chained(X \cup {f}, r, t1)
  <2>1. Active(t1) => f.piece = Piece(t1.msg, t1.idx)
    BY <1>3, <1>6
  <2>2. l = 0 => Chained(X, r, t)
    BY DEF Channel, X
  <2> QED
    BY <1>2, <1>3, <1>4, <1>11, <2>1, <2>2, ChainedBegun
<1>14. g = 0 /\ ~h => Orderly(X \cup {f}, a, r, t1, bs)
  <2>1. g = 0 /\ ~h => Orderly(X, a, r, t, bs)
    BY DEF Channel, X
  <2>2. \/ f.pci = "SF" /\ t1 = t
        \/ f.pci = "FF" /\ t1.state = "wait_first_fc" /\ t1.msg = f.piece[1]
    BY <1>3 DEF Data
  <2> QED
    BY <2>1, <2>2, OrderlyBegun
<1> QED
  BY <1>11, <1>12, <1>13, <1>14 DEF Channel, v

\* can_send() raises before that.
LEMMA ChannelNotBegun ==
  ASSUME NEW q, NEW a, NEW r, NEW t, NEW w \in Seq(Messages), w # <<>>, NEW d, NEW n,
         NEW bs, NEW l, NEW g, NEW h, Channel(q, a, r, t, w, d, n, bs, l, g, h),
         t.state = "idle", NEW t1, t1 = t \/ Stuck(t1)
  PROVE  Channel(q, a, r, t1, Tail(w), d, n, bs, l, g, h)
<1> DEFINE X == Underway(q)
<1>1. Sequenced(X, r, t, Tail(w), d, n)
  BY QueueTaken DEF Channel
<1>2. Follows(t1, t)
  BY SameRemains DEF Follows, Stuck, Active, Waits
<1> HIDE DEF X
<1>3. Sequenced(X, r, t1, Tail(w), d, n)
  BY <1>1, <1>2, SameRemains, SequencedShrinks
<1>4. l = 0 => Chained(X, r, t1)
  BY <1>2, SameRemains, ChainedKept DEF Channel, X
<1>5. g = 0 /\ ~h => Orderly(X \cup {}, a, r, t1, bs)
  BY OrderlyBegun DEF Channel, X
<1>6. X \cup {} = X
  OBVIOUS
<1> QED
  BY <1>3, <1>4, <1>5, <1>6 DEF Channel, X

\* The sender gives up.
LEMMA ChannelGivenUp ==
  ASSUME NEW q, NEW a, NEW r, NEW t, NEW w, NEW d, NEW n, NEW bs, NEW l, NEW g, NEW h,
         Channel(q, a, r, t, w, d, n, bs, l, g, h), NEW t1, t1.state = "idle",
         NEW h1, ~h1 => ~h /\ Underway(q) = {} /\ ~Answered(a)
  PROVE  Channel(q, a, r, t1, w, d, n, bs, l, g, h1)
<1>1. Follows(t1, t)
  BY DEF Follows, Active, Waits
<1>2. Sequenced(Underway(q), r, t1, w, d, n)
  BY <1>1, SameRemains, SequencedShrinks DEF Channel
<1>3. l = 0 => Chained(Underway(q), r, t1)
  BY <1>1, SameRemains, ChainedKept DEF Channel
<1>4. g = 0 /\ ~h1 => Orderly(Underway(q), a, r, t1, bs)
  BY OrderlyGivenUp DEF Channel
<1> QED
  BY <1>2, <1>3, <1>4 DEF Channel

\* The sender takes an answer; in an orderly channel it may go on.
LEMMA ChannelAnswered ==
  ASSUME NEW q, NEW a \in Seq(Frames), a # <<>>, Answer(Head(a)), NEW r, NEW t, NEW w, NEW d,
         NEW n, NEW bs \in Nat, NEW l, NEW g, NEW h, Channel(q, a, r, t, w, d, n, bs, l, g, h),
         InOrder(a), t.idx \in Nat, NEW t1, Follows(t1, t),
         \/ ~Waits(t) /\ t1 = t
         \/ /\ Waits(t)
            /\ Head(a).flow = "cts" =>
                 /\ t1.state = "sending" /\ t1.bs = 0 /\ t1.msg = t.msg /\ t1.idx = t.idx
                 /\ t1.fcbs = IF t.state = "wait_first_fc" THEN Head(a).bs ELSE t.fcbs
  PROVE  Channel(q, Tail(a), r, t1, w, d, n, bs, l, g, h)
<1>1. Sequenced(Underway(q), r, t1, w, d, n)
  BY SameRemains, SequencedShrinks DEF Channel
<1>2. l = 0 => Chained(Underway(q), r, t1)
  BY SameRemains, ChainedKept DEF Channel
<1>3. /\ Head(a) \in Range(a) /\ Answered(a) /\ NoMoreAnswers(Tail(a), a)
      /\ OneAnswer(a) => ~Answered(Tail(a))
  BY HeadGone, TailRange DEF Answered, NoMoreAnswers
<1>4. ASSUME g = 0, ~h PROVE Orderly(Underway(q), Tail(a), r, t1, bs)
  <2>1. Orderly(Underway(q), a, r, t, bs)
    BY <1>4 DEF Channel
  <2>2. Head(a).flow = "cts" /\ Head(a).bs = bs
    BY <1>3, <2>1 DEF Orderly, AnswersOf
  <2> QED
    BY <1>3, <2>1, <2>2, OrderlyAnswered
<1> QED
  BY <1>1, <1>2, <1>4 DEF Channel

\* Consecutive frames are sent.
BurstOf(t, k) == [i \in 1..k |-> Cf(t.msg, t.idx + i, (t.sn + i - 1) % SnMod)]

Gapless(Z, t, t1) == \A i \in t.idx + 1..t1.idx : \E f \in Z : f.piece = Piece(t.msg, i)

LEMMA BurstFrames ==
  ASSUME NEW t, NEW k \in Nat, t.idx \in Nat, NEW n, PieceOf(Piece(t.msg, t.idx), n),
         t.idx + k <= t.msg[2], NEW t1, t1.msg = t.msg, t1.idx = t.idx + k
  PROVE  /\ InOrder(BurstOf(t, k)) /\ ~Answered(BurstOf(t, k))
         /\ FramesOf(Underway(BurstOf(t, k)), t, t1, n)
         /\ Gapless(Underway(BurstOf(t, k)), t, t1)
<1> DEFINE p == BurstOf(t, k)
           m == t.msg
           j == t.idx
<1>1. /\ DOMAIN p = 1..k
      /\ \A i \in 1..k : p[i].pci = "CF" /\ ~p[i].odd /\ p[i].piece = Piece(m, j + i)
  BY DEF BurstOf, Cf
<1>2. m \in Messages /\ m[1] <= n /\ j \in 1..m[2] /\ m[1] \in Nat /\ m[2] \in Nat
  BY PieceSplit, LengthsTyped DEF PieceOf, Messages
<1>3. j + k <= m[2] /\ t1.idx = j + k /\ t1.msg = m
  OBVIOUS
<1> HIDE DEF p, m, j
<1>4. \A i \in 1..k : /\ p[i].pci = "CF" /\ Data(p[i]) /\ ~Answer(p[i]) /\ p[i].piece[1] = m
                      /\ p[i].piece[2] = j + i /\ p[i].piece = Piece(m, j + i)
  BY <1>1, PieceSplit DEF Data, Answer
<1>5. InOrder(p)
  <2> SUFFICES ASSUME NEW i \in 1..k, NEW o \in 1..k, i < o
               PROVE  Before(p[i].piece, p[o].piece)
    BY <1>1 DEF InOrder
  <2>1. j + i < j + o
    BY <1>2
  <2> QED
    BY <1>4, <2>1 DEF Before
<1>6. ~Answered(p)
  BY <1>1, <1>4 DEF Answered, Range
<1>7. FramesOf(Underway(p), t, t1, n)
  <2>1. ASSUME NEW f \in Underway(p)
        PROVE  /\ FrameOf(f, n) /\ f.pci = "CF" /\ f.piece = Piece(m, f.piece[2])
               /\ j < f.piece[2] /\ f.piece[2] <= t1.idx
    <3>1. PICK i \in 1..k : f = p[i]
      BY <1>1 DEF Underway, Range
    <3>2. /\ j + i \in 1..m[2] /\ j + i # 1 /\ j < j + i /\ j + i <= t1.idx
      BY <1>2, <1>3
    <3>3. PieceOf(f.piece, n)
      BY <1>2, <1>4, <3>1, <3>2 DEF PieceOf
    <3>4. FrameOf(f, n)
      BY <1>4, <3>1, <3>2, <3>3 DEF FrameOf
    <3> QED
      BY <1>4, <3>1, <3>2, <3>4
  <2>2. t1.idx \in 1..m[2] /\ j <= t1.idx
    BY <1>2, <1>3
  <2>3. PieceOf(Piece(m, t1.idx), n)
    BY <1>2, <2>2, PieceSplit DEF PieceOf
  <2> QED
    BY <2>1, <2>2, <2>3 DEF FramesOf, m, j
<1>8. ASSUME NEW i \in j + 1..t1.idx PROVE \E f \in Underway(p) : f.piece = Piece(m, i)
  <2>1. i - j \in 1..k /\ j + (i - j) = i
    BY <1>2, <1>3
  <2>2. p[i - j] \in Underway(p) /\ p[i - j].piece = Piece(m, i)
    BY <1>1, <1>4, <2>1 DEF Underway, Range
  <2> QED
    BY <2>2
<1> QED
  BY <1>5, <1>6, <1>7, <1>8 DEF p, m, j, Gapless

LEMMA ChannelSent ==
  ASSUME NEW q \in Seq(Frames), NEW a, NEW r, NEW t, NEW w, NEW d, NEW n \in Nat,
         NEW bs \in Nat, NEW l, NEW g, NEW h, Channel(q, a, r, t, w, d, n, bs, l, g, h),
         t.state = "sending", t.timer, t.idx \in Nat, t.bs \in Nat, NEW k \in Nat,
         t.idx + k <= t.msg[2], t.fcbs # 0 => t.bs + k <= t.fcbs,
         Waiting(r) => r.bs \in Nat /\ Len(r.buf) \in Nat, BurstOf(t, k) \in Seq(Frames),
         NEW t1, t1.msg = t.msg, t1.idx = t.idx + k, t1.bs = t.bs + k, t1.fcbs = t.fcbs,
         \/ Stuck(t1)
         \/ t1.state \in {"sending", "wait_fc"}
         \/ t1.state = "idle" /\ k # 0 /\ t1.idx = t.msg[2]
  PROVE  Channel(q \o BurstOf(t, k), a, r, t1, w, d, n, bs, l, g, h)
<1> DEFINE p == BurstOf(t, k)
           Z == Underway(p)
           X == Underway(q)
<1>1. Active(t) /\ t1.state # "wait_first_fc"
  BY DEF Active, Stuck
<1>2. Sequenced(X, r, t, w, d, n) /\ InOrder(q)
  BY DEF Channel
<1>3. PieceOf(Piece(t.msg, t.idx), n)
  BY <1>1, <1>2 DEF Sequenced, SenderRight
<1>4. InOrder(p) /\ FramesOf(Z, t, t1, n)
  BY <1>3, BurstFrames
<1>5. \A i \in t.idx + 1..t1.idx : \E f \in Z : f.piece = Piece(t.msg, i)
  <2>1. Gapless(Z, t, t1)
    BY <1>3, BurstFrames
  <2> QED
    BY <2>1 DEF Gapless
<1>6. p \in Seq(Frames)
  OBVIOUS
<1>7. t1.state = "idle" => Stuck(t1) \/ \E f \in Z : f.piece = LastPiece(t.msg)
  <2> SUFFICES ASSUME t1.state = "idle", ~Stuck(t1) PROVE \E f \in Z : f.piece = LastPiece(t.msg)
    OBVIOUS
  <2>1. t1.idx \in t.idx + 1..t1.idx /\ t1.idx = t.msg[2]
    OBVIOUS
  <2> QED
    BY <1>5, <2>1 DEF LastPiece
<1> HIDE DEF p, Z, X
<1>8. Sequenced(X \cup Z, r, t1, w, d, n) /\ \A f \in X, e \in Z : Before(f.piece, e.piece)
  BY <1>1, <1>2, <1>4, Sent
<1>9. InOrder(q \o p) /\ Underway(q \o p) = X \cup Z
  BY <1>2, <1>4, <1>6, <1>8, FramesPut DEF X, Z
<1>10. l = 0 => Chained(X \cup Z, r, t1)
  <2>1. l = 0 => Chained(X, r, t)
    BY DEF Channel, X
  <2> QED
    BY <1>1, <1>2, <1>4, <1>5, <2>1, ChainedSent
<1>11. g = 0 /\ ~h => Orderly(X \cup Z, a, r, t1, bs)
  <2>1. g = 0 /\ ~h => Orderly(X, a, r, t, bs)
    BY DEF Channel, X
  <2>2. \/ Stuck(t1)
        \/ t1.state \in {"sending", "wait_fc"}
        \/ t1.state = "idle" /\ \E f \in Z : f.piece = LastPiece(t.msg)
    BY <1>7
  <2> QED
    BY <1>4, <2>1, <2>2, OrderlySent
<1>12. Channel(q \o p, a, r, t1, w, d, n, bs, l, g, h)
  BY <1>8, <1>9, <1>10, <1>11 DEF Channel
<1> QED
  BY <1>12 DEF p

-----------------------------------------------------------------------------
(* Every socket is the receiver of a channel and the sender of another.     *)

Receiving(s) ==
  Channel(bus[s], bus[Peer[s]], rx[s], tx[Peer[s]], txQueue[Peer[s]], rxQueue[s],
          sent[Peer[s]], opt[s].bs, lost, foreign, hasty)
Sending(s) ==
  Channel(bus[Peer[s]], bus[s], rx[Peer[s]], tx[s], txQueue[s], rxQueue[Peer[s]],
          sent[s], opt[Peer[s]].bs, lost, foreign, hasty)
Channels == \A s \in Sockets : Receiving(s)

LEMMA Pairs ==
  \A s \in Sockets : /\ Peer[s] \in Sockets /\ Peer[s] # s /\ Peer[Peer[s]] = s
                     /\ \A o \in Sockets : Peer[o] = s => o = Peer[s]
  BY ConstantsAssumption DEF ConstantsAssumption

LEMMA BothWays == ASSUME Channels, NEW s \in Sockets PROVE Receiving(s) /\ Sending(s)
  BY Pairs DEF Channels, Receiving, Sending

\* What a step on s leaves alone.
Elsewhere(s) ==
  /\ opt' = opt /\ Worse(lost', foreign', hasty', lost, foreign, hasty)
  /\ \A o \in Sockets :
       o # s => /\ tx'[o] = tx[o] /\ rx'[o] = rx[o] /\ txQueue'[o] = txQueue[o]
                /\ rxQueue'[o] = rxQueue[o] /\ sent'[o] = sent[o]
                /\ o # Peer[s] => bus'[o] = bus[o]

LEMMA ChannelsKept ==
  ASSUME Channels, NEW s \in Sockets, Elsewhere(s),
         Channel(bus'[s], bus'[Peer[s]], rx'[s], tx[Peer[s]], txQueue[Peer[s]], rxQueue'[s],
                 sent[Peer[s]], opt[s].bs, lost', foreign', hasty'),
         Channel(bus'[Peer[s]], bus'[s], rx[Peer[s]], tx'[s], txQueue'[s], rxQueue[Peer[s]],
                 sent'[s], opt[Peer[s]].bs, lost', foreign', hasty')
  PROVE  Channels'
<1> SUFFICES ASSUME NEW o \in Sockets PROVE Receiving(o)'
  BY DEF Channels
<1>1. CASE o = s
  <2>1. /\ tx'[Peer[s]] = tx[Peer[s]] /\ txQueue'[Peer[s]] = txQueue[Peer[s]]
        /\ sent'[Peer[s]] = sent[Peer[s]] /\ opt' = opt
    BY Pairs DEF Elsewhere
  <2> QED
    BY <1>1, <2>1 DEF Receiving
<1>2. CASE o = Peer[s]
  <2>1. /\ rx'[o] = rx[o] /\ rxQueue'[o] = rxQueue[o] /\ Peer[o] = s /\ opt' = opt
    BY <1>2, Pairs DEF Elsewhere
  <2> QED
    BY <1>2, <2>1 DEF Receiving
<1>3. CASE o # s /\ o # Peer[s]
  <2>1. /\ Peer[o] \in Sockets /\ Peer[o] # s /\ Peer[o] # Peer[s]
    BY <1>3, Pairs
  <2>2. /\ bus'[o] = bus[o] /\ bus'[Peer[o]] = bus[Peer[o]] /\ rx'[o] = rx[o]
        /\ tx'[Peer[o]] = tx[Peer[o]] /\ txQueue'[Peer[o]] = txQueue[Peer[o]]
        /\ rxQueue'[o] = rxQueue[o] /\ sent'[Peer[o]] = sent[Peer[o]] /\ opt' = opt
        /\ Worse(lost', foreign', hasty', lost, foreign, hasty)
    BY <1>3, <2>1 DEF Elsewhere
  <2>3. Receiving(o)
    BY DEF Channels
  <2>4. Channel(bus[o], bus[Peer[o]], rx[o], tx[Peer[o]], txQueue[Peer[o]], rxQueue[o],
                sent[Peer[o]], opt[o].bs, lost', foreign', hasty')
    <3>1. InOrder(bus[o])
      BY <2>3 DEF Receiving, Channel
    <3> QED
      BY <2>2, <2>3, <3>1, SameRemains, ChannelQuiet DEF Receiving
  <2> QED
    BY <2>2, <2>4 DEF Receiving
<1> QED
  BY <1>1, <1>2, <1>3

\* Types of what a channel is made of.
LEMMA ChannelTypes ==
  ASSUME Local, NEW s \in Sockets
  PROVE  /\ bus[s] \in Seq(Frames) /\ txQueue[s] \in Seq(Messages)
         /\ rxQueue[s] \in Seq(Seq(Pieces)) /\ sent[s] \in Nat /\ opt[s].bs \in Nat
         /\ tx[s] \in TxRecords /\ tx[s].idx \in Nat /\ tx[s].bs \in Nat /\ tx[s].fcbs \in Nat
         /\ rx[s] \in RxRecords /\ rx[s].buf \in Seq(Pieces) /\ rx[s].bs \in Nat
         /\ Len(rx[s].buf) \in Nat /\ rx[s].len \in Nat
<1>1. TypeOK
  BY InvIsLocal DEF IsoTpInv
<1>2. tx[s] \in TxRecords /\ rx[s] \in RxRecords
  BY DEF Local
<1>3. tx[s].idx \in Nat /\ tx[s].bs \in Nat /\ tx[s].fcbs \in Nat
  BY <1>2 DEF TxRecords
<1>4. rx[s].buf \in Seq(Pieces) /\ rx[s].bs \in Nat /\ rx[s].len \in Nat
  BY <1>2 DEF RxRecords
<1>5. Len(rx[s].buf) \in Nat
  BY <1>4
<1> QED
  BY <1>1, <1>2, <1>3, <1>4, <1>5, OptionsTyped DEF Local

LEMMA NoWorse ==
  /\ UNCHANGED <<lost, foreign, hasty>> => Worse(lost', foreign', hasty', lost, foreign, hasty)
  /\ \A l, g, h : Worse(l, g, h, l, g, h)
  BY DEF Worse

\* The head of a bus is gone.
LEMMA BusRead ==
  ASSUME Local, Channels, NEW s \in Sockets, bus[s] # <<>>
  PROVE  /\ InOrder(bus[s]) /\ InOrder(Tail(bus[s])) /\ NoMoreAnswers(Tail(bus[s]), bus[s])
         /\ ~Data(Head(bus[s])) => Underway(Tail(bus[s])) = Underway(bus[s])
         /\ Head(bus[s]) \in Frames
<1>1. InOrder(bus[s]) /\ bus[s] \in Seq(Frames)
  BY ChannelTypes DEF Channels, Receiving, Channel
<1> QED
  BY <1>1, HeadGone, SeqTake DEF NoMoreAnswers

LEMMA SendChannels == ASSUME Local, Channels, NEW s \in Sockets, Send(s) PROVE Channels'
<1>1. PICK k \in Lengths : /\ sent' = [sent EXCEPT ![s] = @ + 1]
                           /\ txQueue' = [txQueue EXCEPT ![s] = Append(@, <<sent'[s], k>>)]
                           /\ UNCHANGED <<opt, bus, tx, rx, rxQueue, lost, foreign, hasty>>
  BY DEF Send
<1> DEFINE m == <<sent[s] + 1, k>>
<1>2. /\ sent'[s] = sent[s] + 1 /\ txQueue'[s] = Append(txQueue[s], m)
      /\ \A o \in Sockets : o # s => txQueue'[o] = txQueue[o] /\ sent'[o] = sent[o]
  BY <1>1 DEF Local
<1>3. m \in Messages /\ m[1] = sent[s] + 1
  BY ChannelTypes DEF Messages
<1>4. Elsewhere(s)
  BY <1>1, <1>2, NoWorse DEF Elsewhere
<1> HIDE DEF m
<1>5. Channel(bus[Peer[s]], bus[s], rx[Peer[s]], tx[s], Append(txQueue[s], m), rxQueue[Peer[s]],
              sent[s] + 1, opt[Peer[s]].bs, lost, foreign, hasty)
  BY <1>3, BothWays, ChannelTypes, ChannelJoined DEF Sending
<1>6. Receiving(s)
  BY DEF Channels
<1> QED
  BY <1>1, <1>2, <1>4, <1>5, <1>6, ChannelsKept DEF Receiving

LEMMA CloseChannels == ASSUME Local, Channels, NEW s \in Sockets, Close(s) PROVE Channels'
<1>1. /\ tx' = [tx EXCEPT ![s].timer = FALSE] /\ rx' = [rx EXCEPT ![s].timer = FALSE]
      /\ UNCHANGED <<opt, bus, txQueue, rxQueue, sent, lost, foreign, hasty>>
  BY DEF Close
<1>2. /\ tx'[s] = [tx[s] EXCEPT !.timer = FALSE] /\ rx'[s] = [rx[s] EXCEPT !.timer = FALSE]
      /\ \A o \in Sockets : o # s => tx'[o] = tx[o] /\ rx'[o] = rx[o]
  BY <1>1 DEF Local
<1>3. Slower(tx'[s], tx[s]) /\ Alike(rx'[s], rx[s])
  BY <1>2, ChannelTypes DEF Slower, Alike, TxRecords, RxRecords
<1>4. Elsewhere(s)
  BY <1>1, <1>2, NoWorse DEF Elsewhere
<1>5. Receiving(s) /\ Sending(s)
  BY BothWays
<1>6. InOrder(bus[s]) /\ InOrder(bus[Peer[s]])
  BY <1>5 DEF Receiving, Sending, Channel
<1>7. Channel(bus[s], bus[Peer[s]], rx'[s], tx[Peer[s]], txQueue[Peer[s]], rxQueue[s],
              sent[Peer[s]], opt[s].bs, lost, foreign, hasty)
  BY <1>3, <1>5, <1>6, NoWorse, SameRemains, ChannelQuiet DEF Receiving
<1>8. Channel(bus[Peer[s]], bus[s], rx[Peer[s]], tx'[s], txQueue[s], rxQueue[Peer[s]],
              sent[s], opt[Peer[s]].bs, lost, foreign, hasty)
  BY <1>3, <1>5, <1>6, NoWorse, SameRemains, ChannelQuiet DEF Sending
<1> QED
  BY <1>1, <1>4, <1>7, <1>8, ChannelsKept

LEMMA BeginSendChannels == ASSUME Local, Channels, NEW s \in Sockets, BeginSend(s) PROVE Channels'
<1> DEFINE m == Head(txQueue[s])
           p == Peer[s]
<1>1. /\ tx[s].state = "idle" /\ txQueue[s] # <<>> /\ p \in Sockets /\ p # s
      /\ UNCHANGED <<opt, rx, rxQueue, sent, lost, foreign, hasty>>
      /\ txQueue' = [txQueue EXCEPT ![s] = Tail(@)]
  BY Pairs DEF BeginSend, Others
<1>2. /\ txQueue'[s] = Tail(txQueue[s])
      /\ \A o \in Sockets : o # s => txQueue'[o] = txQueue[o]
  BY <1>1 DEF Local
<1>3. Receiving(s) /\ Sending(s) /\ InOrder(bus[s])
  BY BothWays DEF Receiving, Channel
<1>4. m \in Messages
  BY <1>1, SeqTake, ChannelTypes
<1>5. CASE Put(s, <<IF m[2] = 1 THEN Sf(m) ELSE Ff(m)>>)
           /\ tx' = IF m[2] = 1 THEN tx
                    ELSE [tx EXCEPT ![s].state = "wait_first_fc", ![s].msg = m, ![s].idx = 1,
                                    ![s].sn = 1, ![s].bs = 0, ![s].timer = TRUE]
  <2> DEFINE f == IF m[2] = 1 THEN Sf(m) ELSE Ff(m)
  <2>1. bus'[p] = bus[p] \o <<f>> /\ \A o \in Sockets : o # p => bus'[o] = bus[o]
    BY <1>1, <1>5 DEF Local, Put
  <2>2. f \in Frames /\ f.pci \in {"SF", "FF"}
    BY <1>4, LengthsTyped, FramesBuilt DEF Sf, Ff
  <2>3. \A o \in Sockets : o # s => tx'[o] = tx[o]
    BY <1>5 DEF Local
  <2>4. \/ m[2] = 1 /\ f = Sf(m) /\ tx'[s] = tx[s]
        \/ /\ m[2] # 1 /\ f = Ff(m) /\ tx'[s].state = "wait_first_fc"
           /\ tx'[s].msg = m /\ tx'[s].idx = 1
    BY <1>5, ChannelTypes DEF Local, TxRecords
  <2> HIDE DEF f
  <2>5. Channel(bus[p] \o <<f>>, bus[s], rx[p], tx'[s], Tail(txQueue[s]), rxQueue[p],
                sent[s], opt[p].bs, lost, foreign, hasty)
    BY <1>1, <1>3, <2>2, <2>4, ChannelTypes, ChannelBegun DEF Sending
  <2>6. <<f>> \in Seq(Frames) /\ ~Answered(<<f>>)
    BY <2>2 DEF Answered, Answer, Range
  <2>7. NoMoreAnswers(bus[p] \o <<f>>, bus[p])
    BY <1>1, <2>6, ChannelTypes, AnswersKept DEF NoMoreAnswers
  <2>8. Channel(bus[s], bus[p] \o <<f>>, rx[s], tx[p], txQueue[p], rxQueue[s],
                sent[p], opt[s].bs, lost, foreign, hasty)
    BY <1>3, <2>7, NoWorse, SameRemains, ChannelQuiet DEF Receiving
  <2>9. Elsewhere(s)
    BY <1>1, <1>2, <2>1, <2>3, NoWorse DEF Elsewhere
  <2> QED
    BY <1>1, <1>2, <2>1, <2>5, <2>8, <2>9, ChannelsKept
<1>6. CASE UNCHANGED bus /\ tx' = IF m[2] = 1 THEN tx ELSE [tx EXCEPT ![s].state = "sending"]
  <2>1. \A o \in Sockets : o # s => tx'[o] = tx[o]
    BY <1>6 DEF Local
  <2>2. ~tx[s].timer
    BY <1>1 DEF Local, TxRight
  <2>3. tx'[s] = tx[s] \/ Stuck(tx'[s])
    BY <1>6, <2>2, ChannelTypes DEF Local, TxRecords, Stuck
  <2>4. Channel(bus[p], bus[s], rx[p], tx'[s], Tail(txQueue[s]), rxQueue[p],
                sent[s], opt[p].bs, lost, foreign, hasty)
    BY <1>1, <1>3, <2>3, ChannelTypes, ChannelNotBegun DEF Sending
  <2>5. Elsewhere(s)
    BY <1>1, <1>2, <1>6, <2>1, NoWorse DEF Elsewhere
  <2> QED
    BY <1>1, <1>2, <1>3, <1>6, <2>4, <2>5, ChannelsKept DEF Receiving
<1> QED
  BY <1>5, <1>6 DEF BeginSend

LEMMA SendFramesChannels ==
  ASSUME Local, Channels, NEW s \in Sockets, SendFrames(s) PROVE Channels'
<1> DEFINE p == Peer[s]
           n == BurstLength(s)
           t == tx[s]
<1>1. /\ t.state = "sending" /\ t.timer /\ p \in Sockets /\ p # s
      /\ UNCHANGED <<opt, rx, txQueue, rxQueue, sent, lost, foreign, hasty>>
  BY Pairs DEF SendFrames, Others
<1>2. TypeOK /\ TimersRight
  BY InvIsLocal DEF IsoTpInv
<1>3. n \in 1..t.msg[2] - t.idx /\ \A k \in 0..n : Burst(s, k) \in Seq(Frames)
  BY <1>1, <1>2, BurstTyped
<1>4. Sending(s) /\ Receiving(s) /\ InOrder(bus[s])
  BY BothWays DEF Receiving, Channel
<1>5. PieceOf(Piece(t.msg, t.idx), sent[s])
  <2>1. Active(t)
    BY <1>1 DEF Active
  <2> QED
    BY <1>4, <2>1 DEF Sending, Channel, Sequenced, SenderRight
<1>6. /\ t.msg[2] \in Nat /\ t.idx \in Nat /\ t.bs \in Nat /\ t.fcbs \in Nat
      /\ t \in TxRecords
  BY <1>5, PieceSplit, PiecesPlaced, ChannelTypes
<1>7. t.fcbs # 0 => t.bs + n <= t.fcbs
  <2>1. t.fcbs # 0 => t.bs < t.fcbs
    BY <1>1, <1>2 DEF TimersRight
  <2> HIDE DEF t
  <2>2. t = tx[s]
    BY DEF t
  <2> QED
    BY <1>6, <2>1, <2>2 DEF BurstLength
\* What the cases have in common: k frames are sent.
<1>8. ASSUME NEW k \in 0..n, Put(s, Burst(s, k)), NEW t1, tx' = [tx EXCEPT ![s] = t1],
             t1.msg = t.msg, t1.idx = t.idx + k, t1.bs = t.bs + k, t1.fcbs = t.fcbs,
             \/ Stuck(t1)
             \/ t1.state \in {"sending", "wait_fc"}
             \/ t1.state = "idle" /\ k # 0 /\ t1.idx = t.msg[2]
      PROVE  Channels'
  <2>1. k \in Nat /\ n \in Nat /\ k <= n
    BY <1>3
  <2>2. t.idx + k <= t.msg[2]
    BY SMTT(30), <1>3, <1>6, <2>1
  <2>3. t.fcbs # 0 => t.bs + k <= t.fcbs
    BY <1>6, <1>7, <2>1
  <2> HIDE DEF n
  <2>4. Burst(s, k) = BurstOf(t, k)
    BY DEF Burst, BurstOf
  <2> DEFINE b == BurstOf(t, k)
  <2>5. b \in Seq(Frames)
    BY <1>3, <1>8, <2>4
  <2>6. ~Answered(b)
    BY <1>5, <1>6, <1>8, <2>1, <2>2, BurstFrames
  <2> HIDE DEF b
  <2>7. bus'[p] = bus[p] \o b /\ \A o \in Sockets : o # p => bus'[o] = bus[o]
    BY <1>1, <1>8, <2>4 DEF Local, Put, b
  <2>8. tx'[s] = t1 /\ \A o \in Sockets : o # s => tx'[o] = tx[o]
    BY <1>8 DEF Local
  <2>9. Channel(bus[p] \o b, bus[s], rx[p], t1, txQueue[s], rxQueue[p], sent[s], opt[p].bs,
                lost, foreign, hasty)
    <3>1. BurstOf(t, k) \in Seq(Frames)
      BY <2>5 DEF b
    <3>2. /\ bus[p] \in Seq(Frames) /\ sent[s] \in Nat /\ opt[p].bs \in Nat
          /\ rx[p].bs \in Nat /\ Len(rx[p].buf) \in Nat
      BY <1>1, ChannelTypes
    <3>3. Channel(bus[p], bus[s], rx[p], t, txQueue[s], rxQueue[p], sent[s], opt[p].bs,
                  lost, foreign, hasty)
      BY <1>4 DEF Sending
    <3> HIDE DEF t, p
    <3>4. Channel(bus[p] \o BurstOf(t, k), bus[s], rx[p], t1, txQueue[s], rxQueue[p], sent[s],
                  opt[p].bs, lost, foreign, hasty)
      BY <1>1, <1>6, <1>8, <2>1, <2>2, <2>3, <3>1, <3>2, <3>3, ChannelSent
    <3> QED
      BY <3>4 DEF b
  <2>10. NoMoreAnswers(bus[p] \o b, bus[p])
    BY <1>1, <2>5, <2>6, ChannelTypes, AnswersKept DEF NoMoreAnswers
  <2>11. Channel(bus[s], bus[p] \o b, rx[s], tx[p], txQueue[p], rxQueue[s],
                 sent[p], opt[s].bs, lost, foreign, hasty)
    BY <1>4, <2>10, NoWorse, SameRemains, ChannelQuiet DEF Receiving
  <2>12. Elsewhere(s)
    BY <1>1, <2>7, <2>8, NoWorse DEF Elsewhere
  <2> QED
    BY <1>1, <2>7, <2>8, <2>9, <2>11, <2>12, ChannelsKept
<1>9. ASSUME NEW k \in 0..n
      PROVE  LET u == Advanced(s, k)
             IN  /\ u.msg = t.msg /\ u.idx = t.idx + k /\ u.bs = t.bs + k /\ u.fcbs = t.fcbs
                 /\ u.state = "sending" /\ ~u.timer /\ u \in [DOMAIN t -> {u[e] : e \in DOMAIN t}]
                 /\ DOMAIN u = DOMAIN t
  BY <1>1, <1>6 DEF Advanced, TxRecords
<1>10. CASE \E k \in 0..n - 1 : /\ Raises
                               /\ Put(s, Burst(s, k))
                               /\ tx' = [tx EXCEPT ![s] = Advanced(s, k)]
  <2>1. PICK k \in 0..n - 1 : /\ Put(s, Burst(s, k))
                              /\ tx' = [tx EXCEPT ![s] = Advanced(s, k)]
    BY <1>10
  <2>2. k \in 0..n
    BY <1>3
  <2>3. Stuck(Advanced(s, k))
    BY <1>9, <2>2 DEF Stuck
  <2> QED
    BY <1>8, <1>9, <2>1, <2>2, <2>3
<1>11. CASE /\ Put(s, Burst(s, n))
            /\ tx' = [tx EXCEPT ![s] =
                        LET u == Advanced(s, n)
                        IN  IF u.idx >= u.msg[2] THEN [u EXCEPT !.state = "idle"]
                            ELSE IF u.fcbs # 0 /\ u.bs >= u.fcbs
                                 THEN [u EXCEPT !.state = "wait_fc", !.timer = TRUE]
                                 ELSE [u EXCEPT !.timer = TRUE]]
  <2>1. n \in 0..n /\ n # 0
    BY <1>3
  <2> DEFINE u == Advanced(s, n)
             t1 == IF u.idx >= u.msg[2] THEN [u EXCEPT !.state = "idle"]
                   ELSE IF u.fcbs # 0 /\ u.bs >= u.fcbs
                        THEN [u EXCEPT !.state = "wait_fc", !.timer = TRUE]
                        ELSE [u EXCEPT !.timer = TRUE]
  <2>2. /\ u.msg = t.msg /\ u.idx = t.idx + n /\ u.bs = t.bs + n /\ u.fcbs = t.fcbs
        /\ u.state = "sending" /\ ~u.timer /\ DOMAIN u = DOMAIN t
    BY <1>9, <2>1
  <2>3. DOMAIN u = {"state", "msg", "idx", "sn", "bs", "fcbs", "gap", "timer"}
    BY <1>6, <2>2 DEF TxRecords
  <2>4. t.idx + n <= t.msg[2]
    BY <1>3, <1>6
  <2>5. tx' = [tx EXCEPT ![s] = t1]
    BY <1>11
  <2> HIDE DEF u
  <2>6. /\ t1.msg = u.msg /\ t1.idx = u.idx /\ t1.bs = u.bs /\ t1.fcbs = u.fcbs
        /\ \/ t1.state \in {"sending", "wait_fc"}
           \/ t1.state = "idle" /\ u.idx >= u.msg[2]
    BY <2>2, <2>3
  <2> HIDE DEF t1
  <2>7. u.idx >= u.msg[2] => u.idx = t.msg[2]
    <3>1. n \in Nat /\ t.idx + n \in Nat
      BY <1>3, <1>6
    <3> HIDE DEF n, t
    <3> QED
      BY <1>6, <2>2, <2>4, <3>1
  <2>8. /\ t1.msg = t.msg /\ t1.idx = t.idx + n /\ t1.bs = t.bs + n /\ t1.fcbs = t.fcbs
        /\ \/ Stuck(t1)
           \/ t1.state \in {"sending", "wait_fc"}
           \/ t1.state = "idle" /\ n # 0 /\ t1.idx = t.msg[2]
    BY <2>1, <2>2, <2>6, <2>7
  <2>9. Put(s, Burst(s, n))
    BY <1>11
  <2> HIDE DEF n
  <2> QED
    BY <1>8, <2>1, <2>5, <2>8, <2>9
<1> QED
  BY <1>10, <1>11 DEF SendFrames

LEMMA NothingThere == Underway(<<>>) = {} /\ ~Answered(<<>>)
  BY DEF Underway, Answered, Range

LEMMA TxTimeoutChannels == ASSUME Local, Channels, NEW s \in Sockets, TxTimeout(s) PROVE Channels'
<1> DEFINE p == Peer[s]
<1>1. /\ tx' = [tx EXCEPT ![s].state = "idle", ![s].timer = FALSE] /\ p \in Sockets /\ p # s
      /\ hasty' = (hasty \/ OnTheWay(s))
      /\ UNCHANGED <<opt, bus, rx, txQueue, rxQueue, sent, lost, foreign>>
  BY Pairs DEF TxTimeout, Others
<1>2. tx'[s].state = "idle" /\ \A o \in Sockets : o # s => tx'[o] = tx[o]
  BY <1>1, ChannelTypes DEF Local, TxRecords
<1>3. Worse(lost', foreign', hasty', lost, foreign, hasty)
  BY <1>1 DEF Worse
<1>4. Receiving(s) /\ Sending(s) /\ InOrder(bus[s])
  BY BothWays DEF Receiving, Channel
<1>5. ~hasty' => ~hasty /\ Underway(bus[p]) = {} /\ ~Answered(bus[s])
  <2>1. ~hasty' => ~hasty /\ bus[p] = <<>> /\ bus[s] = <<>>
    BY <1>1 DEF OnTheWay
  <2> QED
    BY <2>1, NothingThere
<1>6. Channel(bus[p], bus[s], rx[p], tx'[s], txQueue[s], rxQueue[p], sent[s], opt[p].bs,
              lost, foreign, hasty')
  BY <1>2, <1>4, <1>5, ChannelGivenUp DEF Sending
<1>7. Channel(bus[s], bus[p], rx[s], tx[p], txQueue[p], rxQueue[s], sent[p], opt[s].bs,
              lost', foreign', hasty')
  BY <1>3, <1>4, SameRemains, ChannelQuiet DEF Receiving
<1>8. Elsewhere(s)
  BY <1>1, <1>2, <1>3 DEF Elsewhere
<1> QED
  BY <1>1, <1>6, <1>7, <1>8, ChannelsKept

-----------------------------------------------------------------------------
(* What reading a frame has in common                                      *)

LEMMA BusChanges ==
  ASSUME Local, NEW s \in Sockets
  PROVE  /\ Consume(s) => /\ bus'[s] = Tail(bus[s])
                          /\ \A o \in Sockets : o # s => bus'[o] = bus[o]
         /\ \A f : ConsumeAndPut(s, f) =>
              /\ bus'[s] = Tail(bus[s]) /\ bus'[Peer[s]] = Append(bus[Peer[s]], f)
              /\ \A o \in Sockets : o # s /\ o # Peer[s] => bus'[o] = bus[o]
  BY Pairs DEF Local, Consume, ConsumeAndPut

\* Flow control for the sender of the frame.
LEMMA AnswerPut ==
  ASSUME Local, NEW s \in Sockets, NEW f, f = Fc("cts", opt[s])
  PROVE  /\ f \in Frames /\ ~Data(f)
         /\ MayAnswer(Append(bus[Peer[s]], f), bus[Peer[s]], opt[s].bs)
<1> DEFINE a == bus[Peer[s]]
<1>1. a \in Seq(Frames)
  BY Pairs, ChannelTypes
<1>2. f \in Frames /\ f.pci = "FC" /\ f.flow = "cts" /\ f.bs = opt[s].bs
  <2>1. TypeOK
    BY InvIsLocal DEF IsoTpInv
  <2>2. f \in Frames
    BY <2>1, FcBuilt
  <2> QED
    BY <2>2 DEF Fc
<1>3. ~Data(f)
  BY <1>2 DEF Data
<1> HIDE DEF a
<1>4. Range(Append(a, f)) = Range(a) \cup {f} /\ (~Answered(a) => OneAnswer(Append(a, f)))
  BY <1>1, <1>2, FramePut
<1>5. AnswersOf(a, opt[s].bs) => AnswersOf(Append(a, f), opt[s].bs)
  BY <1>2, <1>4 DEF AnswersOf
<1>6. MayAnswer(Append(a, f), a, opt[s].bs)
  BY <1>4, <1>5 DEF MayAnswer
<1> QED
  BY <1>2, <1>3, <1>6 DEF a

\* The socket that reads is a sender, too: that goes on as it was.
LEMMA ReadKeeps ==
  ASSUME Local, Channels, NEW s \in Sockets, bus[s] # <<>>,
         Consume(s) \/ ConsumeAndPut(s, Fc("cts", opt[s])),
         UNCHANGED <<opt, tx, txQueue, sent, lost, foreign, hasty>>,
         \A o \in Sockets : o # s => rx'[o] = rx[o] /\ rxQueue'[o] = rxQueue[o],
         Channel(Tail(bus[s]), bus'[Peer[s]], rx'[s], tx[Peer[s]], txQueue[Peer[s]], rxQueue'[s],
                 sent[Peer[s]], opt[s].bs, lost, foreign, hasty)
  PROVE  Channels'
<1> DEFINE p == Peer[s]
           q == bus'[p]
           f == Fc("cts", opt[s])
<1>1. p \in Sockets /\ p # s /\ bus[p] \in Seq(Frames) /\ Sending(s) /\ InOrder(bus[p])
  BY Pairs, BothWays, ChannelTypes DEF Sending, Channel
<1>2. f \in Frames /\ ~Data(f)
  BY AnswerPut
<1> HIDE DEF f
<1>3. InOrder(Append(bus[p], f)) /\ Underway(Append(bus[p], f)) = Underway(bus[p])
  BY <1>1, <1>2, FramePut
<1>4. /\ bus'[s] = Tail(bus[s]) /\ q \in {bus[p], Append(bus[p], f)}
      /\ \A o \in Sockets : o # s /\ o # p => bus'[o] = bus[o]
  BY <1>1, BusChanges DEF f
<1>5. InOrder(q) /\ Underway(q) = Underway(bus[p])
  BY <1>1, <1>3, <1>4
<1>6. NoMoreAnswers(Tail(bus[s]), bus[s])
  BY BusRead
<1>7. Channel(bus[p], bus[s], rx[p], tx[s], txQueue[s], rxQueue[p], sent[s], opt[p].bs,
              lost, foreign, hasty)
  BY <1>1 DEF Sending
<1> HIDE DEF q, p
<1>8. Channel(q, Tail(bus[s]), rx[p], tx[s], txQueue[s], rxQueue[p], sent[s], opt[p].bs,
              lost, foreign, hasty)
  BY <1>5, <1>6, <1>7, NoWorse, SameRemains, ChannelQuiet
<1>9. Elsewhere(s)
  BY <1>4, NoWorse DEF Elsewhere, p
<1> QED
  BY <1>4, <1>8, <1>9, ChannelsKept DEF q, p

LEMMA RecvSfChannels == ASSUME Local, Channels, NEW s \in Sockets, RecvSf(s) PROVE Channels'
<1>1. /\ bus[s] # <<>> /\ Head(bus[s]).pci = "SF" /\ Consume(s)
      /\ rx' = [rx EXCEPT ![s].state = "idle", ![s].timer = FALSE]
      /\ rxQueue' = [rxQueue EXCEPT ![s] = Append(@, <<Head(bus[s]).piece>>)]
      /\ UNCHANGED <<opt, tx, txQueue, sent, lost, foreign, hasty>>
  BY DEF RecvSf, Receive, Others, Deliver
<1>2. /\ ~Waiting(rx'[s]) /\ rxQueue'[s] = Append(rxQueue[s], <<Head(bus[s]).piece>>)
      /\ \A o \in Sockets : o # s => rx'[o] = rx[o] /\ rxQueue'[o] = rxQueue[o]
  BY <1>1, ChannelTypes DEF Local, RxRecords, Waiting
<1>3. bus'[Peer[s]] = bus[Peer[s]]
  BY <1>1, BusChanges, Pairs
<1>4. Receiving(s) /\ bus[s] \in Seq(Frames) /\ rxQueue[s] \in Seq(Seq(Pieces))
      /\ sent[Peer[s]] \in Nat
  BY BothWays, ChannelTypes, Pairs
<1>5. Channel(Tail(bus[s]), bus[Peer[s]], rx'[s], tx[Peer[s]], txQueue[Peer[s]],
              Append(rxQueue[s], <<Head(bus[s]).piece>>), sent[Peer[s]], opt[s].bs,
              lost, foreign, hasty)
  BY <1>1, <1>2, <1>4, ChannelSf DEF Receiving
<1> QED
  BY <1>1, <1>2, <1>3, <1>5, ReadKeeps

LEMMA RecvFfChannels == ASSUME Local, Channels, NEW s \in Sockets, RecvFf(s) PROVE Channels'
<1> DEFINE p == Peer[s]
           f == Head(bus[s])
<1>1. /\ bus[s] # <<>> /\ f.pci = "FF" /\ p \in Sockets /\ p # s
      /\ UNCHANGED <<opt, tx, txQueue, rxQueue, sent, lost, foreign, hasty>>
  BY Pairs DEF RecvFf, Receive, Others
<1>2. PICK r : /\ rx' = [rx EXCEPT ![s] = r]
               /\ r.state = "wait_data" /\ r.buf = <<f.piece>> /\ r.len = f.len
               /\ \/ r.bs = 0 /\ (Consume(s) \/ ConsumeAndPut(s, Fc("cts", opt[s])))
                  \/ Consume(s)
  <2> DEFINE r0 == [rx[s] EXCEPT !.state = "wait_data", !.buf = <<f.piece>>, !.len = f.len,
                                 !.sn = 1, !.wait = 0]
  <2>1. /\ r0.state = "wait_data" /\ r0.buf = <<f.piece>> /\ r0.len = f.len
        /\ DOMAIN r0 = {"state", "buf", "len", "sn", "bs", "wait", "timer"}
    BY ChannelTypes DEF RxRecords
  <2>2. \/ /\ Consume(s) \/ ConsumeAndPut(s, Fc("cts", opt[s]))
           /\ rx' = [rx EXCEPT ![s] = [r0 EXCEPT !.bs = 0, !.timer = TRUE]]
        \/ /\ Consume(s)
           /\ rx' = [rx EXCEPT ![s] = [r0 EXCEPT !.timer = FALSE]]
    BY DEF RecvFf
  <2>3. /\ [r0 EXCEPT !.bs = 0, !.timer = TRUE].bs = 0
        /\ \A r \in {[r0 EXCEPT !.bs = 0, !.timer = TRUE], [r0 EXCEPT !.timer = FALSE]} :
             r.state = "wait_data" /\ r.buf = <<f.piece>> /\ r.len = f.len
    BY <2>1
  <2> HIDE DEF r0, f
  <2>4. CASE /\ Consume(s) \/ ConsumeAndPut(s, Fc("cts", opt[s]))
             /\ rx' = [rx EXCEPT ![s] = [r0 EXCEPT !.bs = 0, !.timer = TRUE]]
    BY <2>3, <2>4
  <2>5. CASE Consume(s) /\ rx' = [rx EXCEPT ![s] = [r0 EXCEPT !.timer = FALSE]]
    BY <2>3, <2>5
  <2> QED
    BY <2>2, <2>4, <2>5
<1>3. rx'[s] = r /\ \A o \in Sockets : o # s => rx'[o] = rx[o]
  BY <1>2 DEF Local
<1>4. Channel(bus[s], bus[p], rx[s], tx[p], txQueue[p], rxQueue[s], sent[p], opt[s].bs,
              lost, foreign, hasty)
  BY BothWays DEF Receiving
<1>5. bus[s] \in Seq(Frames) /\ sent[p] \in Nat
  BY <1>1, ChannelTypes
<1>6. NoMoreAnswers(bus'[p], bus[p]) \/ (MayAnswer(bus'[p], bus[p], opt[s].bs) /\ r.bs = 0)
  <2>1. CASE Consume(s)
    <3>1. bus'[p] = bus[p]
      BY <1>1, <2>1, BusChanges
    <3> QED
      BY <3>1, SameRemains
  <2>2. CASE r.bs = 0 /\ ConsumeAndPut(s, Fc("cts", opt[s]))
    <3>1. bus'[p] = Append(bus[p], Fc("cts", opt[s]))
      BY <1>1, <2>2, BusChanges
    <3> QED
      BY <2>2, <3>1, AnswerPut
  <2> QED
    BY <1>2, <2>1, <2>2
<1>7. Waiting(r)
  BY <1>2 DEF Waiting
<1> DEFINE b == bus'[p]
<1>8. NoMoreAnswers(b, bus[p]) \/ (MayAnswer(b, bus[p], opt[s].bs) /\ r.bs = 0)
  BY <1>6
<1> HIDE DEF b, p, f
<1>9. Channel(Tail(bus[s]), b, r, tx[p], txQueue[p], rxQueue[s], sent[p], opt[s].bs,
              lost, foreign, hasty)
  BY <1>1, <1>2, <1>4, <1>5, <1>7, <1>8, ChannelFf DEF f
<1> QED
  BY <1>1, <1>2, <1>3, <1>9, ReadKeeps DEF b, p

LEMMA CfDroppedChannels ==
  ASSUME Local, Channels, NEW s \in Sockets, CfDropped(s) PROVE Channels'
<1> DEFINE p == Peer[s]
           f == Head(bus[s])
<1>1. /\ bus[s] # <<>> /\ f.pci = "CF" /\ p \in Sockets /\ p # s /\ Consume(s)
      /\ UNCHANGED <<opt, tx, txQueue, rxQueue, sent, lost, foreign, hasty>>
  BY Pairs DEF CfDropped, Receive, Others
<1>2. \A o \in Sockets : o # s => rx'[o] = rx[o]
  BY DEF Local, CfDropped
<1>3. \/ Alike(rx'[s], rx[s]) /\ (f.odd \/ ~Waiting(rx'[s]))
      \/ ~f.odd /\ ~Waiting(rx'[s])
  <2> DEFINE r == rx[s]
  <2>1. r \in RxRecords /\ rx \in [Sockets -> RxRecords]
    BY DEF Local
  <2>2. CASE r.state = "idle" /\ rx' = rx
    BY <2>2 DEF Alike, Waiting
  <2>3. CASE f.odd /\ rx' = [rx EXCEPT ![s].timer = FALSE]
    <3>1. rx'[s] = [r EXCEPT !.timer = FALSE]
      BY <2>1, <2>3
    <3> QED
      BY <2>1, <2>3, <3>1 DEF RxRecords, Alike
  <2>4. CASE ~f.odd /\ rx' = [rx EXCEPT ![s].timer = FALSE, ![s].state = "idle"]
    <3>1. rx'[s].state = "idle"
      BY <2>1, <2>4 DEF RxRecords
    <3> QED
      BY <2>4, <3>1 DEF Waiting
  <2> QED
    BY <2>2, <2>3, <2>4 DEF CfDropped
<1>4. Channel(bus[s], bus[p], rx[s], tx[p], txQueue[p], rxQueue[s], sent[p], opt[s].bs,
              lost, foreign, hasty)
  BY BothWays DEF Receiving
<1>5. bus[s] \in Seq(Frames)
  BY ChannelTypes
<1>6. bus'[p] = bus[p]
  BY <1>1, BusChanges
<1> DEFINE r == rx'[s]
<1>7. (Alike(r, rx[s]) /\ f.odd) \/ (~f.odd /\ ~Waiting(r))
  BY <1>3
<1> HIDE DEF r, p
<1>8. CASE Alike(r, rx[s]) /\ f.odd
  <2>1. ~Data(f)
    BY <1>1, <1>8 DEF Data
  <2>2. InOrder(Tail(bus[s])) /\ Underway(Tail(bus[s])) = Underway(bus[s])
    BY <1>1, <2>1, BusRead
  <2>3. Channel(Tail(bus[s]), bus[p], r, tx[p], txQueue[p], rxQueue[s], sent[p], opt[s].bs,
                lost, foreign, hasty)
    BY <1>4, <1>8, <2>2, NoWorse, SameRemains, ChannelQuiet
  <2> QED
    BY <1>1, <1>2, <1>6, <2>3, ReadKeeps DEF r, p
<1>9. CASE ~f.odd /\ ~Waiting(r)
  <2>1. Data(f)
    BY <1>1, <1>9 DEF Data
  <2>2. Channel(Tail(bus[s]), bus[p], r, tx[p], txQueue[p], rxQueue[s], sent[p], opt[s].bs,
                lost, foreign, hasty)
    BY <1>1, <1>4, <1>5, <1>9, <2>1, ChannelIdle
  <2> QED
    BY <1>1, <1>2, <1>6, <2>2, ReadKeeps DEF r, p
<1> QED
  BY <1>7, <1>8, <1>9

LEMMA RecvFcChannels == ASSUME Local, Channels, NEW s \in Sockets, RecvFc(s) PROVE Channels'
<1> DEFINE p == Peer[s]
           f == Head(bus[s])
           t == tx[s]
           t1 == tx'[s]
<1>1. /\ bus[s] # <<>> /\ f.pci = "FC" /\ p \in Sockets /\ p # s /\ Consume(s)
      /\ UNCHANGED <<opt, rx, txQueue, rxQueue, sent, lost, foreign, hasty>>
  BY Pairs DEF RecvFc, Receive, Others
<1>2. /\ \A o \in Sockets : o # s => tx'[o] = tx[o]
      /\ bus'[s] = Tail(bus[s]) /\ \A o \in Sockets : o # s => bus'[o] = bus[o]
  BY <1>1, BusChanges DEF Local, RecvFc
<1>3. /\ Follows(t1, t)
      /\ \/ ~Waits(t) /\ t1 = t
         \/ /\ Waits(t)
            /\ f.flow = "cts" =>
                 /\ t1.state = "sending" /\ t1.bs = 0 /\ t1.msg = t.msg /\ t1.idx = t.idx
                 /\ t1.fcbs = IF t.state = "wait_first_fc" THEN f.bs ELSE t.fcbs
  <2> DEFINE u == [t EXCEPT !.gap = f.gap, !.timer = FALSE,
                            !.fcbs = IF t.state = "wait_first_fc" THEN f.bs ELSE @]
  <2>1. t \in TxRecords /\ tx \in [Sockets -> TxRecords]
    BY DEF Local
  <2>2. t1 = IF t.state \notin {"wait_first_fc", "wait_fc"} THEN t
             ELSE CASE f.flow = "cts" -> [u EXCEPT !.state = "sending", !.bs = 0, !.timer = TRUE]
                    [] f.flow = "wt" -> [u EXCEPT !.state = "wait_fc", !.timer = TRUE]
                    [] f.flow = "ovflw" -> [u EXCEPT !.state = "idle"]
    BY <2>1 DEF RecvFc
  <2>3. /\ u.msg = t.msg /\ u.idx = t.idx
        /\ u.fcbs = IF t.state = "wait_first_fc" THEN f.bs ELSE t.fcbs
        /\ DOMAIN u = {"state", "msg", "idx", "sn", "bs", "fcbs", "gap", "timer"}
    BY <2>1 DEF TxRecords
  <2>4. f.flow \in {"cts", "wt", "ovflw"}
    BY <1>1, BusRead, FrameFields
  <2> HIDE DEF u, t1, t, f
  <2>5. CASE ~Waits(t)
    BY <2>2, <2>5, SameRemains DEF Waits
  <2>6. CASE Waits(t)
    <3>1. \/ f.flow = "cts" /\ t1 = [u EXCEPT !.state = "sending", !.bs = 0, !.timer = TRUE]
          \/ f.flow = "wt" /\ t1 = [u EXCEPT !.state = "wait_fc", !.timer = TRUE]
          \/ f.flow = "ovflw" /\ t1 = [u EXCEPT !.state = "idle"]
      BY <2>2, <2>4, <2>6 DEF Waits
    <3>2. /\ t1.msg = t.msg /\ t1.idx = t.idx
          /\ t1.fcbs = IF t.state = "wait_first_fc" THEN f.bs ELSE t.fcbs
          /\ \/ f.flow = "cts" /\ t1.state = "sending" /\ t1.bs = 0
             \/ f.flow \in {"wt", "ovflw"} /\ t1.state \in {"wait_fc", "idle"}
      BY <2>3, <3>1
    <3>3. Follows(t1, t)
      BY <2>6, <3>2 DEF Follows, Active
    <3> QED
      BY <2>6, <3>2, <3>3
  <2> QED
    BY <2>5, <2>6
<1>4. Receiving(s) /\ Sending(s) /\ InOrder(bus[s]) /\ InOrder(Tail(bus[s]))
  BY <1>1, BothWays, BusRead
<1>5. /\ bus[s] \in Seq(Frames) /\ t.idx \in Nat /\ opt[p].bs \in Nat /\ Answer(f)
      /\ Underway(Tail(bus[s])) = Underway(bus[s])
  BY <1>1, BusRead, ChannelTypes DEF Data, Answer
<1>6. Channel(Tail(bus[s]), bus[p], rx[s], tx[p], txQueue[p], rxQueue[s], sent[p], opt[s].bs,
              lost, foreign, hasty)
  BY <1>4, <1>5, NoWorse, SameRemains, ChannelQuiet DEF Receiving
<1>7. Elsewhere(s)
  BY <1>1, <1>2, NoWorse DEF Elsewhere
<1>8. Channel(bus[p], bus[s], rx[p], t, txQueue[s], rxQueue[p], sent[s], opt[p].bs,
              lost, foreign, hasty)
  BY <1>4 DEF Sending
<1> HIDE DEF t1, t, f, p
<1>9. Channel(bus[p], Tail(bus[s]), rx[p], t1, txQueue[s], rxQueue[p], sent[s], opt[p].bs,
              lost, foreign, hasty)
  BY <1>1, <1>3, <1>4, <1>5, <1>8, ChannelAnswered DEF f
<1> QED
  BY <1>1, <1>2, <1>6, <1>7, <1>9, ChannelsKept DEF t1, p

LEMMA RxTimerChannels == ASSUME Local, Channels, NEW s \in Sockets, RxTimer(s) PROVE Channels'
<1> DEFINE p == Peer[s]
<1>1. /\ p \in Sockets /\ p # s /\ UNCHANGED <<opt, bus, tx, txQueue, rxQueue, sent, lost, foreign>>
      /\ hasty' = (hasty \/ OnTheWay(s) \/ tx[p].state # "idle")
      /\ rx' = [rx EXCEPT ![s] = IF @.wait + 1 < RxPatience
                                 THEN [@ EXCEPT !.wait = rx[s].wait + 1]
                                 ELSE [@ EXCEPT !.state = "idle", !.timer = FALSE]]
  BY Pairs DEF RxTimer, Others
<1>2. /\ Alike(rx'[s], rx[s]) \/ ~Waiting(rx'[s])
      /\ \A o \in Sockets : o # s => rx'[o] = rx[o]
  <2>1. rx \in [Sockets -> RxRecords] /\ rx[s] \in RxRecords
    BY DEF Local
  <2>2. \/ rx'[s] = [rx[s] EXCEPT !.wait = rx[s].wait + 1]
        \/ rx'[s] = [rx[s] EXCEPT !.state = "idle", !.timer = FALSE]
    BY <1>1, <2>1
  <2>3. Alike(rx'[s], rx[s]) \/ ~Waiting(rx'[s])
    BY <2>1, <2>2 DEF RxRecords, Alike, Waiting
  <2> QED
    BY <1>1, <2>1, <2>3
<1>3. Worse(lost', foreign', hasty', lost, foreign, hasty)
  BY <1>1 DEF Worse
<1>4. Receiving(s) /\ Sending(s) /\ InOrder(bus[s]) /\ InOrder(bus[p])
  BY BothWays DEF Receiving, Sending, Channel
<1>5. ~hasty' => ~Answered(bus[p])
  <2>1. ~hasty' => bus[p] = <<>>
    BY <1>1 DEF OnTheWay
  <2> QED
    BY <2>1, NothingThere
<1>6. Channel(bus[s], bus[p], rx[s], tx[p], txQueue[p], rxQueue[s], sent[p], opt[s].bs,
              lost, foreign, hasty)
  BY <1>4 DEF Receiving
<1>7. Channel(bus[p], bus[s], rx[p], tx[s], txQueue[s], rxQueue[p], sent[s], opt[p].bs,
              lost', foreign', hasty')
  BY <1>3, <1>4, SameRemains, ChannelQuiet DEF Sending
<1>8. Elsewhere(s)
  BY <1>1, <1>2, <1>3 DEF Elsewhere
<1> DEFINE r == rx'[s]
           h == hasty'
           g == foreign'
           l == lost'
<1>9. /\ Alike(r, rx[s]) \/ (~Waiting(r) /\ (g = 0 /\ ~h => ~Answered(bus[p])))
      /\ Worse(l, g, h, lost, foreign, hasty)
  BY <1>2, <1>3, <1>5
<1> HIDE DEF r, h, g, l, p
<1>10. Channel(bus[s], bus[p], r, tx[p], txQueue[p], rxQueue[s], sent[p], opt[s].bs, l, g, h)
  BY <1>4, <1>6, <1>9, SameRemains, ChannelQuiet
<1> QED
  BY <1>1, <1>7, <1>8, <1>10, ChannelsKept DEF r, h, g, l, p

LEMMA LoseFrameChannels ==
  ASSUME Local, Channels, NEW s \in Sockets, LoseFrame(s) PROVE Channels'
<1> DEFINE p == Peer[s]
<1>1. /\ bus[s] # <<>> /\ p \in Sockets /\ p # s /\ Consume(s) /\ lost' = lost + 1
      /\ UNCHANGED <<opt, tx, rx, txQueue, rxQueue, sent, foreign, hasty>>
  BY Pairs DEF LoseFrame
<1>2. bus'[s] = Tail(bus[s]) /\ \A o \in Sockets : o # s => bus'[o] = bus[o]
  BY <1>1, BusChanges
<1>3. lost' # 0 /\ Worse(lost', foreign, hasty, lost, foreign, hasty)
  BY <1>1 DEF Local, Worse
<1>4. /\ Receiving(s) /\ Sending(s) /\ InOrder(bus[p]) /\ InOrder(Tail(bus[s]))
      /\ NoMoreAnswers(Tail(bus[s]), bus[s])
  BY <1>1, BothWays, BusRead DEF Sending, Channel
<1>5. bus[s] \in Seq(Frames)
  BY ChannelTypes
<1>6. Channel(bus[p], Tail(bus[s]), rx[p], tx[s], txQueue[s], rxQueue[p], sent[s], opt[p].bs,
              lost', foreign, hasty)
  BY <1>3, <1>4, SameRemains, ChannelQuiet DEF Sending
<1>7. Elsewhere(s)
  BY <1>1, <1>2, <1>3 DEF Elsewhere
<1>8. Channel(bus[s], bus[p], rx[s], tx[p], txQueue[p], rxQueue[s], sent[p], opt[s].bs,
              lost, foreign, hasty)
  BY <1>4 DEF Receiving
<1> DEFINE l == lost'
<1>9. l # 0 /\ Worse(l, foreign, hasty, lost, foreign, hasty)
  BY <1>3
<1> HIDE DEF l, p
<1>10. CASE Data(Head(bus[s]))
  <2>1. Channel(Tail(bus[s]), bus[p], rx[s], tx[p], txQueue[p], rxQueue[s], sent[p], opt[s].bs,
                l, foreign, hasty)
    BY <1>1, <1>5, <1>8, <1>9, <1>10, ChannelLost
  <2> QED
    BY <1>1, <1>2, <1>6, <1>7, <2>1, ChannelsKept DEF l, p
<1>11. CASE ~Data(Head(bus[s]))
  <2>1. Underway(Tail(bus[s])) = Underway(bus[s])
    BY <1>1, <1>11, BusRead
  <2>2. Channel(Tail(bus[s]), bus[p], rx[s], tx[p], txQueue[p], rxQueue[s], sent[p], opt[s].bs,
                l, foreign, hasty)
    BY <1>4, <1>8, <1>9, <2>1, SameRemains, ChannelQuiet
  <2> QED
    BY <1>1, <1>2, <1>6, <1>7, <2>2, ChannelsKept DEF l, p
<1> QED
  BY <1>10, <1>11

\* The frame of another node has no piece, and excuses what it does as an answer.
LEMMA ForeignChannels == ASSUME Local, Channels, NEW s \in Sockets, Foreign(s) PROVE Channels'
<1> DEFINE p == Peer[s]
<1>1. PICK f \in {Fc("cts", opt[Peer[s]]), Fc("wt", opt[Peer[s]]), Fc("ovflw", opt[Peer[s]]),
                 [Cf(Nobody, 0, 0) EXCEPT !.odd = TRUE]} :
        bus' = [bus EXCEPT ![s] = Append(@, f)]
  BY DEF Foreign
<1>2. /\ p \in Sockets /\ p # s
      /\ foreign' # 0 /\ foreign' \in {foreign, foreign + 1}
      /\ UNCHANGED <<opt, tx, rx, txQueue, rxQueue, sent, lost, hasty>>
  BY Pairs DEF Foreign, Local
<1>3. bus'[s] = Append(bus[s], f) /\ \A o \in Sockets : o # s => bus'[o] = bus[o]
  BY <1>1 DEF Local
<1>4. ~Data(f)
  BY DEF Data, Fc, Cf
<1>5. foreign' # 0 /\ Worse(lost, foreign', hasty, lost, foreign, hasty)
  BY <1>2 DEF Local, Worse
<1>6. Receiving(s) /\ Sending(s) /\ InOrder(bus[s]) /\ InOrder(bus[p])
  BY BothWays DEF Receiving, Sending, Channel
<1> DEFINE S == Frames \cup {f}
           q == Append(bus[s], f)
           g == foreign'
<1>7. bus[s] \in Seq(S) /\ f \in S
  BY ChannelTypes, SeqMore
<1> HIDE DEF S
<1>8. InOrder(q) /\ Underway(q) = Underway(bus[s])
  BY <1>4, <1>6, <1>7, FramePut
<1>9. Elsewhere(s)
  BY <1>2, <1>3, <1>5 DEF Elsewhere
<1>10. g # 0 /\ Worse(lost, g, hasty, lost, foreign, hasty)
  BY <1>5
<1>11. /\ Channel(bus[s], bus[p], rx[s], tx[p], txQueue[p], rxQueue[s], sent[p], opt[s].bs,
                  lost, foreign, hasty)
       /\ Channel(bus[p], bus[s], rx[p], tx[s], txQueue[s], rxQueue[p], sent[s], opt[p].bs,
                  lost, foreign, hasty)
  BY <1>6 DEF Receiving, Sending
<1> HIDE DEF q, g, p
<1>12. g = 0 /\ ~hasty => NoMoreAnswers(q, bus[s])
  BY <1>10
<1>13. Channel(q, bus[p], rx[s], tx[p], txQueue[p], rxQueue[s], sent[p], opt[s].bs,
               lost, g, hasty)
  BY <1>8, <1>10, <1>11, SameRemains, ChannelQuiet
<1>14. Channel(bus[p], q, rx[p], tx[s], txQueue[s], rxQueue[p], sent[s], opt[p].bs,
               lost, g, hasty)
  BY <1>6, <1>10, <1>11, <1>12, SameRemains, ChannelQuiet
<1> QED
  BY <1>2, <1>3, <1>9, <1>13, <1>14, ChannelsKept DEF q, g, p

LEMMA RecvCfChannels == ASSUME Local, Channels, NEW s \in Sockets, RecvCf(s) PROVE Channels'
<1> DEFINE p == Peer[s]
           f == Head(bus[s])
           b == Append(rx[s].buf, f.piece)
           bs == opt[s].bs
           fc == Fc("cts", opt[s])
<1>1. /\ bus[s] # <<>> /\ f.pci = "CF" /\ ~f.odd /\ Waiting(rx[s]) /\ p \in Sockets /\ p # s
      /\ UNCHANGED <<opt, tx, txQueue, sent, lost, foreign, hasty>>
  BY Pairs DEF RecvCf, Receive, Others, Waiting
<1>2. rx \in [Sockets -> RxRecords] /\ rx[s] \in RxRecords
  BY DEF Local
\* The record when the frame is taken.
<1>3. PICK w \in 0..RxPatience - 1 :
        LET r == [rx[s] EXCEPT !.buf = b, !.sn = (@ + 1) % SnMod, !.wait = w, !.timer = TRUE]
        IN  \/ /\ Len(b) >= rx[s].len
               /\ rx' = [rx EXCEPT ![s] = [r EXCEPT !.buf = <<>>, !.state = "idle",
                                                    !.timer = FALSE]]
               /\ Deliver(s, b) /\ Consume(s)
            \/ /\ Len(b) < rx[s].len /\ UNCHANGED rxQueue
               /\ \/ /\ rx' = [rx EXCEPT ![s] = IF bs = 0 THEN r ELSE [r EXCEPT !.bs = r.bs + 1]]
                     /\ Consume(s)
                  \/ /\ BlockEnds(s)
                     /\ rx' \in {[rx EXCEPT ![s] = [r EXCEPT !.bs = 0]],
                                 [rx EXCEPT ![s] = [r EXCEPT !.bs = 0, !.timer = FALSE]]}
                     /\ Consume(s) \/ ConsumeAndPut(s, fc)
  <2>1. PICK w \in 0..RxPatience - 1 :
          LET r == [rx[s] EXCEPT !.buf = b, !.sn = (@ + 1) % SnMod, !.wait = w, !.timer = TRUE]
          IN  \/ /\ Len(b) >= rx[s].len
                 /\ rx' = [rx EXCEPT ![s] = [r EXCEPT !.buf = <<>>, !.state = "idle",
                                                      !.timer = FALSE]]
                 /\ Deliver(s, b) /\ Consume(s)
              \/ /\ Len(b) < rx[s].len /\ UNCHANGED rxQueue
                 /\ rx' = [rx EXCEPT ![s] = IF bs = 0 THEN r ELSE [r EXCEPT !.bs = r.bs + 1]]
                 /\ Consume(s)
              \/ /\ Len(b) < rx[s].len /\ BlockEnds(s) /\ UNCHANGED rxQueue
                 /\ rx' = [rx EXCEPT ![s] = [r EXCEPT !.bs = 0]]
                 /\ ConsumeAndPut(s, fc)
              \/ /\ Len(b) < rx[s].len /\ BlockEnds(s) /\ UNCHANGED rxQueue
                 /\ rx' = [rx EXCEPT ![s] = [r EXCEPT !.bs = 0, !.timer = FALSE]]
                 /\ Consume(s)
    BY DEF RecvCf
  <2> HIDE DEF b, fc, bs
  <2> WITNESS w \in 0..RxPatience - 1
  <2> QED
    BY <2>1
<1> DEFINE r == [rx[s] EXCEPT !.buf = b, !.sn = (@ + 1) % SnMod, !.wait = w, !.timer = TRUE]
<1>4. /\ Len(rx[s].buf) \in Nat /\ Len(b) = Len(rx[s].buf) + 1 /\ rx[s].len \in Nat
      /\ rx[s].buf \in Seq(Pieces) /\ rx[s].bs \in Nat
  BY ChannelTypes
<1>5. \/ /\ Len(b) >= rx[s].len
         /\ rx' = [rx EXCEPT ![s] = [r EXCEPT !.buf = <<>>, !.state = "idle", !.timer = FALSE]]
         /\ Deliver(s, b) /\ Consume(s)
      \/ /\ Len(b) < rx[s].len /\ UNCHANGED rxQueue
         /\ \/ /\ rx' = [rx EXCEPT ![s] = IF bs = 0 THEN r ELSE [r EXCEPT !.bs = r.bs + 1]]
               /\ Consume(s)
            \/ /\ BlockEnds(s)
               /\ rx' \in {[rx EXCEPT ![s] = [r EXCEPT !.bs = 0]],
                           [rx EXCEPT ![s] = [r EXCEPT !.bs = 0, !.timer = FALSE]]}
               /\ Consume(s) \/ ConsumeAndPut(s, fc)
  BY <1>3
<1> HIDE DEF b
<1>6. /\ r.buf = b /\ r.len = rx[s].len /\ r.state = rx[s].state /\ r.bs = rx[s].bs
      /\ DOMAIN r = {"state", "buf", "len", "sn", "bs", "wait", "timer"}
  BY <1>2 DEF RxRecords
<1> HIDE DEF r
<1>7. \A o \in Sockets : o # s => rx'[o] = rx[o] /\ rxQueue'[o] = rxQueue[o]
  <2>1. \A o \in Sockets : o # s => rx'[o] = rx[o]
    BY <1>2, <1>5
  <2>2. \A o \in Sockets : o # s => rxQueue'[o] = rxQueue[o]
    BY <1>5 DEF Local, Deliver
  <2> QED
    BY <2>1, <2>2
<1>8. /\ Channel(bus[s], bus[p], rx[s], tx[p], txQueue[p], rxQueue[s], sent[p], bs,
                 lost, foreign, hasty)
      /\ bus[s] \in Seq(Frames) /\ rxQueue[s] \in Seq(Seq(Pieces)) /\ sent[p] \in Nat
      /\ tx[p].idx \in Nat /\ tx[p].bs \in Nat /\ bs \in Nat
  BY <1>1, BothWays, ChannelTypes DEF Receiving
<1>9. CASE /\ Len(b) >= rx[s].len
           /\ rx' = [rx EXCEPT ![s] = [r EXCEPT !.buf = <<>>, !.state = "idle", !.timer = FALSE]]
           /\ Deliver(s, b) /\ Consume(s)
  <2> DEFINE r1 == rx'[s]
  <2>1. ~Waiting(r1)
    BY <1>2, <1>6, <1>9 DEF Waiting
  <2>2. rxQueue'[s] = Append(rxQueue[s], b) /\ bus'[p] = bus[p]
    BY <1>1, <1>9, BusChanges DEF Local, Deliver
  <2> HIDE DEF r1, p, bs, f
  <2>3. b = Append(rx[s].buf, Head(bus[s]).piece)
    BY DEF b, f
  <2>4. Channel(Tail(bus[s]), bus[p], r1, tx[p], txQueue[p], Append(rxQueue[s], b), sent[p], bs,
                lost, foreign, hasty)
    BY <1>1, <1>4, <1>8, <1>9, <2>1, <2>3, ChannelCfLast DEF f
  <2> QED
    BY <1>1, <1>7, <1>9, <2>2, <2>4, ReadKeeps DEF r1, p, bs
\* Otherwise the reception goes on.
<1>10. ASSUME NEW r1, rx' = [rx EXCEPT ![s] = r1], UNCHANGED rxQueue, Len(b) < rx[s].len,
              r1.buf = b, r1.len = rx[s].len, r1.state = rx[s].state,
              Consume(s) \/ ConsumeAndPut(s, fc),
              \/ bus'[p] = bus[p] /\ r1.bs = IF bs = 0 THEN rx[s].bs ELSE rx[s].bs + 1
              \/ BlockFull(rx[s], bs) /\ r1.bs = 0
       PROVE  Channels'
  <2> DEFINE a == bus'[p]
             t == tx[p]
  <2>1. MayAnswer(a, bus[p], bs)
    <3>1. a = bus[p] \/ a = Append(bus[p], fc)
      BY <1>1, <1>10, BusChanges
    <3>2. MayAnswer(bus[p], bus[p], bs)
      BY SameAnswers
    <3>3. MayAnswer(Append(bus[p], fc), bus[p], bs)
      BY AnswerPut
    <3> QED
      BY <3>1, <3>2, <3>3
  <2>2. \/ a = bus[p] /\ r1.bs = IF bs = 0 THEN rx[s].bs ELSE rx[s].bs + 1
        \/ BlockFull(rx[s], bs) /\ r1.bs = 0 /\ MayAnswer(a, bus[p], bs)
    BY <1>10, <2>1
  <2>3. t.fcbs = 0 \/ t.bs < t.fcbs \/ t.state # "sending" \/ ~t.timer
    BY <1>1 DEF Local, TxRight
  <2>4. rx'[s] = r1
    BY <1>2, <1>10
  <2>5. Unfinished(rx[s])
    BY <1>4, <1>10 DEF Unfinished
  <2>6. Waiting(r1)
    BY <1>1, <1>10 DEF Waiting
  <2>7. r1.buf = Append(rx[s].buf, Head(bus[s]).piece)
    BY <1>10 DEF b
  <2> HIDE DEF a, p, t, bs, b
  <2>8. Channel(Tail(bus[s]), a, r1, t, txQueue[p], rxQueue[s], sent[p], bs, lost, foreign, hasty)
    BY <1>1, <1>4, <1>8, <1>10, <2>2, <2>3, <2>5, <2>6, <2>7, ChannelCf DEF t, f
  <2> QED
    BY <1>1, <1>7, <1>10, <2>4, <2>8, ReadKeeps DEF a, p, t, bs
<1>11. CASE /\ Len(b) < rx[s].len /\ UNCHANGED rxQueue /\ Consume(s)
            /\ rx' = [rx EXCEPT ![s] = IF bs = 0 THEN r ELSE [r EXCEPT !.bs = r.bs + 1]]
  <2> DEFINE r1 == IF bs = 0 THEN r ELSE [r EXCEPT !.bs = r.bs + 1]
  <2>1. /\ r1.buf = b /\ r1.len = rx[s].len /\ r1.state = rx[s].state
        /\ r1.bs = IF bs = 0 THEN rx[s].bs ELSE rx[s].bs + 1
    BY <1>6
  <2>2. bus'[p] = bus[p]
    BY <1>1, <1>11, BusChanges
  <2>3. rx' = [rx EXCEPT ![s] = r1]
    BY <1>11
  <2> HIDE DEF r1, bs
  <2> QED
    BY <1>10, <1>11, <2>1, <2>2, <2>3
<1>12. CASE /\ Len(b) < rx[s].len /\ UNCHANGED rxQueue /\ BlockEnds(s)
            /\ rx' \in {[rx EXCEPT ![s] = [r EXCEPT !.bs = 0]],
                        [rx EXCEPT ![s] = [r EXCEPT !.bs = 0, !.timer = FALSE]]}
            /\ Consume(s) \/ ConsumeAndPut(s, fc)
  <2>1. PICK r1 \in {[r EXCEPT !.bs = 0], [r EXCEPT !.bs = 0, !.timer = FALSE]} :
          rx' = [rx EXCEPT ![s] = r1]
    BY <1>12
  <2>2. r1.buf = b /\ r1.len = rx[s].len /\ r1.state = rx[s].state /\ r1.bs = 0
    BY <1>6, <2>1
  <2>3. BlockFull(rx[s], bs)
    BY <1>12 DEF BlockEnds, BlockFull
  <2> HIDE DEF bs
  <2> QED
    BY <1>10, <1>12, <2>1, <2>2, <2>3
<1> QED
  BY <1>5, <1>9, <1>11, <1>12

-----------------------------------------------------------------------------

LEMMA ChannelsInit == Init => Channels
<1> SUFFICES ASSUME Init, NEW s \in Sockets PROVE Receiving(s)
  BY DEF Channels
<1> DEFINE p == Peer[s]
<1>1. p \in Sockets
  BY Pairs
<1>2. /\ bus[s] = <<>> /\ bus[p] = <<>> /\ rx[s].state = "idle" /\ tx[p].state = "idle"
      /\ txQueue[p] = <<>> /\ rxQueue[s] = <<>> /\ lost = 0 /\ foreign = 0 /\ hasty = FALSE
  BY <1>1 DEF Init
<1> DEFINE r == rx[s]
           t == tx[p]
           n == sent[p]
           bs == opt[s].bs
<1>3. ~Waiting(r) /\ ~Active(t)
  BY <1>2 DEF Waiting, Active, Waits
<1>4. DOMAIN <<>> = {} /\ Range(<<>>) = {}
  BY DEF Range
<1> HIDE DEF r, t, n, bs
<1>5. Sequenced({}, r, t, <<>>, <<>>, n)
  BY <1>3, <1>4 DEF Sequenced, StreamRight, QueueRight, SenderRight, PastRight
<1>6. Chained({}, r, t)
  BY <1>3 DEF Chained
<1>7. Orderly({}, <<>>, r, t, bs)
  BY <1>3, <1>4, NothingThere
     DEF Orderly, FirstWaits, AnswersOf, AnswerDue, InBlock, Room, Continues
<1>8. Gathered(r, <<>>)
  BY <1>3, <1>4 DEF Gathered
<1>9. InOrder(<<>>)
  BY <1>4 DEF InOrder
<1>10. Channel(<<>>, <<>>, r, t, <<>>, <<>>, n, bs, 0, 0, FALSE)
  BY <1>5, <1>6, <1>7, <1>8, <1>9, NothingThere DEF Channel
<1> QED
  BY <1>2, <1>10 DEF Receiving, r, t, n, bs

LEMMA ChannelsStep == Local /\ Channels /\ [Next]_vars => Channels'
<1> SUFFICES ASSUME Local, Channels, [Next]_vars PROVE Channels'
  OBVIOUS
<1>1. ASSUME NEW s \in Sockets, Callback(s) PROVE Channels'
  BY <1>1, BeginSendChannels, SendFramesChannels, TxTimeoutChannels, RecvFcChannels,
     RecvSfChannels, RecvFfChannels, CfDroppedChannels, RecvCfChannels, RxTimerChannels
     DEF Callback
<1>2. CASE UNCHANGED vars
  BY <1>2 DEF Channels, Receiving, vars
<1> QED
  BY <1>1, <1>2, SendChannels, CloseChannels, LoseFrameChannels, ForeignChannels DEF Next

LEMMA ChannelsGood == Channels => Integrity
<1> SUFFICES ASSUME Channels, NEW s \in Sockets
             PROVE  /\ lost = 0 \/ (foreign = 0 /\ ~hasty) =>
                         \A i \in DOMAIN rxQueue[s] :
                           LET m == rxQueue[s][i][1][1]
                           IN  rxQueue[s][i] = Payload(m) /\ m[1] \in 1..sent[Peer[s]]
                    /\ \A i, j \in DOMAIN rxQueue[s] :
                         i < j => rxQueue[s][i][1][1][1] < rxQueue[s][j][1][1][1]
  BY DEF Integrity
<1>1. Receiving(s)
  BY DEF Channels
<1>2. /\ \A i, j \in DOMAIN rxQueue[s] : i < j => rxQueue[s][i][1][1][1] < rxQueue[s][j][1][1][1]
      /\ \A i \in DOMAIN rxQueue[s] : rxQueue[s][i][1][1][1] \in 1..sent[Peer[s]]
  BY <1>1 DEF Receiving, Channel, Sequenced, PastRight, Number
<1>3. lost = 0 \/ (foreign = 0 /\ ~hasty) =>
        \A i \in DOMAIN rxQueue[s] : rxQueue[s][i] = Payload(rxQueue[s][i][1][1])
  BY <1>1 DEF Receiving, Channel, Gathered
<1> QED
  BY <1>2, <1>3

\* What recv() returns is a message of the peer, whole and unmixed, unless a frame
\* was lost and a timeout overtook a frame or a foreign one came; whatever
\* happens, no message is returned twice or after a later one.
THEOREM MessagesWhole == Spec => []Integrity
<1>1. Spec => [](Local /\ Channels)
  BY InvInit, InvStep, ChannelsInit, ChannelsStep, PTL DEF Spec
<1> QED
  BY <1>1, ChannelsGood, PTL

=============================================================================
