------------------------- MODULE AsyncSnifferProofs -------------------------
(***************************************************************************)
(* Proofs about AsyncSniffer: type correctness, what a stop() that found   *)
(* the sniffer armed may rely on, and how far the limit on packets may be  *)
(* exceeded, for any number of sockets, packets, captures and calls.       *)
(***************************************************************************)
EXTENDS AsyncSniffer, FiniteSetTheorems, Integers, TLAPS

\* Reading one more packet from a socket keeps the counters in range.
LEMMA ReadTyped ==
  ASSUME EnvTyped, NEW s \in Sockets, read[s] < sent[s],
         read' = [read EXCEPT ![s] = @ + 1]
  PROVE  read' \in [Sockets -> 0..MaxPkts] /\ read'[s] \in 1..MaxPkts
<1>1. MaxPkts \in Nat /\ read[s] \in 0..MaxPkts /\ sent[s] \in 0..MaxPkts
  BY ConstantsAssumption DEF ConstantsAssumption, EnvTyped
<1>2. read[s] + 1 \in 1..MaxPkts /\ read[s] + 1 \in 0..MaxPkts
  BY <1>1
<1> QED
  BY <1>2 DEF EnvTyped

\* The arguments are those of the constructor.
LEMMA OptionsTyped == EnvTyped => opt \in ConstructorOptions
BY ConstantsAssumption DEF ConstantsAssumption, EnvTyped

LEMMA InitTyped == Init => TypeOK
<1> SUFFICES ASSUME Init PROVE TypeOK
  OBVIOUS
<1>1. 0 \in 0..MaxPkts /\ 0 \in 0..MaxRuns /\ 0 \in 0..MaxStops
  BY ConstantsAssumption DEF ConstantsAssumption
<1>2. AttrsTyped
  <2>1. results = <<>>
    BY DEF Init
  <2>2. results \in Seq(Packets)
    BY <2>1
  <2> QED
    BY <2>2 DEF Init, AttrsTyped
<1>3. ThreadTyped
  <2>1. lst = <<>>
    BY DEF Init
  <2>2. lst \in Seq(Packets)
    BY <2>1
  <2>3. pipe \in [watched : BOOLEAN, open : BOOLEAN, written : Nat]
    BY DEF Init, NoPipe
  <2> QED
    BY <2>2, <2>3 DEF Init, ThreadTyped, ThreadAt
<1>4. EnvTyped
  BY <1>1 DEF Init, EnvTyped
<1>5. UserTyped
  BY <1>1 DEF Init, UserTyped, UserAt, Outcomes
<1> QED
  BY <1>2, <1>3, <1>4, <1>5 DEF TypeOK

LEMMA NextTyped == TypeOK /\ [Next]_vars => TypeOK'
<1> SUFFICES ASSUME TypeOK, [Next]_vars PROVE TypeOK'
  OBVIOUS
<1> USE DEF TypeOK
<1>1. CASE Begin
  <2>1. AttrsTyped'
    BY <1>1 DEF Begin, AttrsTyped
  <2>2. ThreadTyped'
    BY <1>1 DEF Begin, ThreadTyped, ThreadAt
  <2>3. EnvTyped'
    BY <1>1 DEF Begin, env, EnvTyped
  <2>4. UserTyped'
    BY <1>1 DEF Begin, user, UserTyped
  <2> QED
    BY <2>1, <2>2, <2>3, <2>4
<1>2. CASE OpenSockets
  <2>1. AttrsTyped'
    BY <1>2 DEF OpenSockets, attrs, AttrsTyped
  <2>2. ThreadTyped'
    <3>1. opt.sockets \subseteq Sockets
      BY OptionsTyped DEF ConstructorOptions
    <3> QED
      BY <1>2, <3>1 DEF OpenSockets, ThreadTyped, ThreadAt
  <2>3. EnvTyped'
    <3>1. 0 \in 0..MaxPkts
      BY ConstantsAssumption DEF ConstantsAssumption
    <3> QED
      BY <1>2, <3>1 DEF OpenSockets, EnvTyped
  <2>4. UserTyped'
    BY <1>2 DEF OpenSockets, user, UserTyped
  <2> QED
    BY <2>1, <2>2, <2>3, <2>4
<1>3. CASE OpenFails
  <2>1. AttrsTyped'
    BY <1>3 DEF OpenFails, AttrsTyped
  <2>2. ThreadTyped'
    BY <1>3 DEF OpenFails, ThreadTyped, ThreadAt
  <2>3. EnvTyped'
    BY <1>3 DEF OpenFails, env, EnvTyped
  <2>4. UserTyped'
    BY <1>3 DEF OpenFails, user, UserTyped
  <2> QED
    BY <2>1, <2>2, <2>3, <2>4
<1>4. CASE InstallStopCb
  <2>1. AttrsTyped'
    BY <1>4 DEF InstallStopCb, AttrsTyped
  <2>2. ThreadTyped'
    <3>1. opt.blocking \in BOOLEAN
      BY OptionsTyped DEF ConstructorOptions
    <3>2. pipe' \in [watched : BOOLEAN, open : BOOLEAN, written : Nat]
      BY <1>4, <3>1 DEF InstallStopCb
    <3> QED
      BY <1>4, <3>2 DEF InstallStopCb, ThreadTyped, ThreadAt
  <2>3. EnvTyped'
    BY <1>4 DEF InstallStopCb, env, EnvTyped
  <2>4. UserTyped'
    BY <1>4 DEF InstallStopCb, user, UserTyped
  <2> QED
    BY <2>1, <2>2, <2>3, <2>4
<1>5. CASE Arm
  <2>1. AttrsTyped'
    BY <1>5 DEF Arm, AttrsTyped
  <2>2. ThreadTyped'
    BY <1>5 DEF Arm, ThreadTyped, ThreadAt
  <2>3. EnvTyped'
    BY <1>5 DEF Arm, env, EnvTyped
  <2>4. UserTyped'
    BY <1>5 DEF Arm, user, UserTyped
  <2> QED
    BY <2>1, <2>2, <2>3, <2>4
<1>6. CASE LoopTest
  <2>1. AttrsTyped'
    BY <1>6 DEF LoopTest, attrs, AttrsTyped
  <2>2. ThreadTyped'
    BY <1>6 DEF LoopTest, ThreadTyped, ThreadAt
  <2>3. EnvTyped'
    BY <1>6 DEF LoopTest, env, EnvTyped
  <2>4. UserTyped'
    BY <1>6 DEF LoopTest, user, UserTyped
  <2> QED
    BY <2>1, <2>2, <2>3, <2>4
<1>7. CASE Select
  <2>1. AttrsTyped'
    BY <1>7 DEF Select, attrs, AttrsTyped
  <2>2. ThreadTyped'
    BY <1>7 DEF Select, ThreadTyped, ThreadAt, Answer
  <2>3. EnvTyped'
    BY <1>7 DEF Select, env, EnvTyped
  <2>4. UserTyped'
    BY <1>7 DEF Select, user, UserTyped
  <2> QED
    BY <2>1, <2>2, <2>3, <2>4
<1>8. CASE EndPass
  <2>1. AttrsTyped'
    BY <1>8 DEF EndPass, attrs, AttrsTyped
  <2>2. ThreadTyped'
    BY <1>8 DEF EndPass, ThreadTyped, ThreadAt
  <2>3. EnvTyped'
    BY <1>8 DEF EndPass, env, EnvTyped
  <2>4. UserTyped'
    BY <1>8 DEF EndPass, user, UserTyped
  <2> QED
    BY <2>1, <2>2, <2>3, <2>4
<1>9. CASE LowerRunning
  <2>1. AttrsTyped'
    BY <1>9 DEF LowerRunning, AttrsTyped
  <2>2. ThreadTyped'
    BY <1>9 DEF LowerRunning, ThreadTyped, ThreadAt
  <2>3. EnvTyped'
    BY <1>9 DEF LowerRunning, env, EnvTyped
  <2>4. UserTyped'
    BY <1>9 DEF LowerRunning, user, UserTyped
  <2> QED
    BY <2>1, <2>2, <2>3, <2>4
<1>10. CASE CloseAll
  <2>1. AttrsTyped'
    BY <1>10 DEF CloseAll, attrs, AttrsTyped
  <2>2. ThreadTyped'
    BY <1>10 DEF CloseAll, ThreadTyped, ThreadAt
  <2>3. EnvTyped'
    BY <1>10 DEF CloseAll, env, EnvTyped
  <2>4. UserTyped'
    BY <1>10 DEF CloseAll, user, UserTyped
  <2> QED
    BY <2>1, <2>2, <2>3, <2>4
<1>11. CASE PublishResults
  <2>1. AttrsTyped'
    BY <1>11 DEF PublishResults, AttrsTyped, ThreadTyped
  <2>2. ThreadTyped'
    BY <1>11 DEF PublishResults, ThreadTyped, ThreadAt
  <2>3. EnvTyped'
    BY <1>11 DEF PublishResults, env, EnvTyped
  <2>4. UserTyped'
    BY <1>11 DEF PublishResults, user, UserTyped
  <2> QED
    BY <2>1, <2>2, <2>3, <2>4
<1>12. CASE Start
  <2>1. AttrsTyped'
    BY <1>12 DEF Start, AttrsTyped
  <2>2. ThreadTyped'
    BY <1>12 DEF Start, ThreadTyped, ThreadAt, NoPipe
  <2>3. EnvTyped'
    BY <1>12 DEF Start, env, EnvTyped
  <2>4. UserTyped'
    <3>1. MaxRuns \in Nat
      BY ConstantsAssumption DEF ConstantsAssumption
    <3>2. runs' \in 0..MaxRuns
      BY <1>12, <3>1 DEF Start, UserTyped
    <3> QED
      BY <1>12, <3>2 DEF Start, UserTyped, Outcomes
  <2> QED
    BY <2>1, <2>2, <2>3, <2>4
<1>13. ASSUME NEW join \in BOOLEAN, Stop(join)
      PROVE  TypeOK'
  <2>1. AttrsTyped'
    BY <1>13 DEF Stop, attrs, AttrsTyped
  <2>2. ThreadTyped'
    BY <1>13 DEF Stop, local, ThreadTyped
  <2>3. EnvTyped'
    BY <1>13 DEF Stop, env, EnvTyped
  <2>4. UserTyped'
    <3>1. MaxStops \in Nat
      BY ConstantsAssumption DEF ConstantsAssumption
    <3>2. stops < MaxStops /\ stops' = stops + 1
      BY <1>13, Zenon DEF Stop
    <3>3. stops' \in 0..MaxStops
      BY <3>1, <3>2 DEF UserTyped
    <3>4. armed' \in BOOLEAN
      <4>1. armed' = (pc \in Armed)
        BY <1>13, Zenon DEF Stop
      <4> QED
        BY <4>1
    <3>5. /\ upc' \in {"cb", "idle"}
          /\ outcome' \in {"none", "not running"}
          /\ wantJoin' = join /\ runs' = runs
      BY <1>13, Zenon DEF Stop
    <3> QED
      BY <3>3, <3>4, <3>5 DEF UserTyped, UserAt, Outcomes
  <2> QED
    BY <2>1, <2>2, <2>3, <2>4
<1>14. CASE CallStopCb
  <2>1. AttrsTyped'
    BY <1>14 DEF CallStopCb, attrs, AttrsTyped
  <2>2. ThreadTyped'
    BY <1>14 DEF CallStopCb, local, ThreadTyped
  <2>3. EnvTyped'
    BY <1>14 DEF CallStopCb, env, EnvTyped
  <2>4. UserTyped'
    BY <1>14, ConstantsAssumption DEF CallStopCb, UserTyped, UserAt, Outcomes, ConstantsAssumption
  <2> QED
    BY <2>1, <2>2, <2>3, <2>4
<1>15. CASE PipeSend
  <2>1. AttrsTyped'
    BY <1>15 DEF PipeSend, attrs, AttrsTyped
  <2>2. ThreadTyped'
    <3>1. pipe' = pipe \/ pipe' = [pipe EXCEPT !.written = @ + 1]
      BY <1>15 DEF PipeSend
    <3>2. pipe' \in [watched : BOOLEAN, open : BOOLEAN, written : Nat]
      BY <3>1 DEF ThreadTyped
    <3> QED
      BY <1>15, <3>2 DEF PipeSend, ThreadTyped
  <2>3. EnvTyped'
    BY <1>15 DEF PipeSend, env, EnvTyped
  <2>4. UserTyped'
    BY <1>15, ConstantsAssumption DEF PipeSend, UserTyped, UserAt, Outcomes, ConstantsAssumption
  <2> QED
    BY <2>1, <2>2, <2>3, <2>4
<1>16. CASE ClearContSniff
  <2>1. AttrsTyped'
    BY <1>16 DEF ClearContSniff, AttrsTyped
  <2>2. ThreadTyped'
    BY <1>16 DEF ClearContSniff, local, ThreadTyped
  <2>3. EnvTyped'
    BY <1>16 DEF ClearContSniff, env, EnvTyped
  <2>4. UserTyped'
    BY <1>16, ConstantsAssumption DEF ClearContSniff, UserTyped, UserAt, Outcomes, ConstantsAssumption
  <2> QED
    BY <2>1, <2>2, <2>3, <2>4
<1>17. CASE CheckContSniff
  <2>1. AttrsTyped'
    BY <1>17 DEF CheckContSniff, attrs, AttrsTyped
  <2>2. ThreadTyped'
    BY <1>17 DEF CheckContSniff, local, ThreadTyped
  <2>3. EnvTyped'
    BY <1>17 DEF CheckContSniff, env, EnvTyped
  <2>4. UserTyped'
    BY <1>17, ConstantsAssumption DEF CheckContSniff, UserTyped, UserAt, Outcomes, ConstantsAssumption
  <2> QED
    BY <2>1, <2>2, <2>3, <2>4
<1>18. CASE Join
  <2>1. AttrsTyped'
    BY <1>18 DEF Join, attrs, AttrsTyped
  <2>2. ThreadTyped'
    BY <1>18 DEF Join, local, ThreadTyped
  <2>3. EnvTyped'
    BY <1>18 DEF Join, env, EnvTyped
  <2>4. UserTyped'
    BY <1>18, ConstantsAssumption DEF Join, UserTyped, UserAt, Outcomes, ConstantsAssumption
  <2> QED
    BY <2>1, <2>2, <2>3, <2>4
<1>19. ASSUME NEW s \in Sockets, Deliver(s)
      PROVE  TypeOK'
  <2>1. AttrsTyped'
    BY <1>19 DEF Deliver, attrs, AttrsTyped
  <2>2. ThreadTyped'
    BY <1>19 DEF Deliver, local, ThreadTyped
  <2>3. EnvTyped'
    BY <1>19, ConstantsAssumption DEF Deliver, EnvTyped, ConstantsAssumption
  <2>4. UserTyped'
    BY <1>19 DEF Deliver, user, UserTyped
  <2> QED
    BY <2>1, <2>2, <2>3, <2>4
<1>20. ASSUME NEW s \in Sockets, EndStream(s)
      PROVE  TypeOK'
  <2>1. AttrsTyped'
    BY <1>20 DEF EndStream, attrs, AttrsTyped
  <2>2. ThreadTyped'
    BY <1>20 DEF EndStream, local, ThreadTyped
  <2>3. EnvTyped'
    BY <1>20, ConstantsAssumption DEF EndStream, EnvTyped, ConstantsAssumption
  <2>4. UserTyped'
    BY <1>20 DEF EndStream, user, UserTyped
  <2> QED
    BY <2>1, <2>2, <2>3, <2>4
<1>21. CASE Expire
  <2>1. AttrsTyped'
    BY <1>21 DEF Expire, attrs, AttrsTyped
  <2>2. ThreadTyped'
    BY <1>21 DEF Expire, ThreadTyped, ThreadAt
  <2>3. EnvTyped'
    BY <1>21 DEF Expire, env, EnvTyped
  <2>4. UserTyped'
    BY <1>21 DEF Expire, user, UserTyped
  <2> QED
    BY <2>1, <2>2, <2>3, <2>4
<1>22. CASE Recv
  <2> PICK s \in Sockets :
        RecvPacket(s) \/ RecvNothing(s) \/ RecvEmpty(s) \/ RecvEnd(s)
    BY <1>22 DEF Recv
  <2>1. CASE RecvPacket(s)
    <3>1. AttrsTyped'
      BY <2>1 DEF RecvPacket, AttrsTyped
    <3>2. ThreadTyped'
      <4>1. <<s, read'[s]>> \in Packets
        BY <2>1, ReadTyped DEF RecvPacket, Packets
      <4>2. lst' \in Seq(Packets)
        BY <2>1, <4>1 DEF RecvPacket, ThreadTyped
      <4>3. dead' \subseteq Sockets /\ todo' \subseteq Sockets
        BY <2>1 DEF RecvPacket, ThreadTyped
      <4> QED
        BY <2>1, <4>2, <4>3 DEF RecvPacket, ThreadTyped
    <3>3. EnvTyped'
      BY <2>1, ReadTyped DEF RecvPacket, EnvTyped
    <3>4. UserTyped'
      BY <2>1 DEF RecvPacket, user, UserTyped
    <3> QED
      BY <3>1, <3>2, <3>3, <3>4
  <2>2. CASE RecvNothing(s)
    <3>1. AttrsTyped'
      BY <2>2 DEF RecvNothing, attrs, AttrsTyped
    <3>2. ThreadTyped'
      BY <2>2 DEF RecvNothing, ThreadTyped, ThreadAt
    <3>3. EnvTyped'
      BY <2>2, ReadTyped DEF RecvNothing, EnvTyped
    <3>4. UserTyped'
      BY <2>2 DEF RecvNothing, user, UserTyped
    <3> QED
      BY <3>1, <3>2, <3>3, <3>4
  <2>3. CASE RecvEmpty(s)
    <3>1. AttrsTyped'
      BY <2>3 DEF RecvEmpty, attrs, AttrsTyped
    <3>2. ThreadTyped'
      BY <2>3 DEF RecvEmpty, ThreadTyped, ThreadAt
    <3>3. EnvTyped'
      BY <2>3 DEF RecvEmpty, env, EnvTyped
    <3>4. UserTyped'
      BY <2>3 DEF RecvEmpty, user, UserTyped
    <3> QED
      BY <3>1, <3>2, <3>3, <3>4
  <2>4. CASE RecvEnd(s)
    <3>1. AttrsTyped'
      BY <2>4 DEF RecvEnd, attrs, AttrsTyped
    <3>2. ThreadTyped'
      BY <2>4 DEF RecvEnd, ThreadTyped, ThreadAt
    <3>3. EnvTyped'
      BY <2>4 DEF RecvEnd, env, EnvTyped
    <3>4. UserTyped'
      BY <2>4 DEF RecvEnd, user, UserTyped
    <3> QED
      BY <3>1, <3>2, <3>3, <3>4
  <2> QED
    BY <2>1, <2>2, <2>3, <2>4
<1>23. CASE UNCHANGED vars
  BY <1>23 DEF vars, attrs, local, env, user, AttrsTyped, ThreadTyped, EnvTyped,
           UserTyped
<1> QED
  BY <1>1, <1>2, <1>3, <1>4, <1>5, <1>6, <1>7, <1>8, <1>9, <1>10, <1>11, <1>12, <1>13, <1>14, <1>15, <1>16, <1>17, <1>18, <1>19, <1>20, <1>21, <1>22, <1>23
  DEF Next, Thread, StopSteps

\* Every variable keeps its type: in particular self.count stays a natural
\* number and only packets of the sniffed sockets are kept and published.
THEOREM TypeCorrect == Spec => []TypeOK
<1> QED
  BY InitTyped, NextTyped, PTL DEF Spec

-----------------------------------------------------------------------------
(* stop() of an armed sniffer.  What makes it work is the order in which    *)
(* _run arms itself: by the time continue_sniff is raised, stop_cb is the   *)
(* closure of this run and its control pipe is open, and both stay so while *)
(* the capture lasts.  The invariant below says so for every point at which *)
(* stop() can be overtaken.                                                 *)

\* While the thread is past Arm the callback is its own, running is raised
\* until the loop is left, and the pipe is open until running is lowered.
ThreadReady ==
  /\ pc \in Armed => stopCb = "current"
  /\ pc \in {"arm", "loop", "select", "pass", "finish"} => running /\ stopCb = "current"
  /\ pc = "setup" \/ pc = "setcb" => running
  /\ opt.blocking /\ pc \in {"arm", "loop", "select", "pass", "finish", "close"}
       => pipe.open

\* A call that found the sniffer armed works on the pipe of this run and
\* leaves continue_sniff lowered.
StopEffective ==
  /\ armed => pc \in Armed
  /\ armed => upc # "send old"
  /\ upc = "send" => opt.blocking
  /\ StopSticks
  /\ FailedStopIsHarmless

IInv == TypeOK /\ ThreadReady /\ StopEffective

LEMMA InitIInv == Init => IInv
<1> SUFFICES ASSUME Init PROVE IInv
  OBVIOUS
<1>1. TypeOK
  BY InitTyped
<1>2. pc = "none" /\ upc = "idle" /\ armed = FALSE
  BY DEF Init
<1> QED
  BY <1>1, <1>2
  DEF IInv, ThreadReady, StopEffective, StopSticks, FailedStopIsHarmless, Armed

LEMMA NextIInv == IInv /\ [Next]_vars => IInv'
<1> SUFFICES ASSUME IInv, [Next]_vars PROVE IInv'
  OBVIOUS
<1>1. TypeOK /\ TypeOK' /\ ThreadReady /\ StopEffective
  BY NextTyped DEF IInv
<1> SUFFICES ThreadReady' /\ StopEffective'
  BY <1>1 DEF IInv
<1>2. CASE Begin
  <2>1. ThreadReady'
    BY <1>1, <1>2 DEF Begin, env, user, ThreadReady, Armed, TypeOK, ThreadTyped
  <2>2. StopEffective'
    BY <1>1, <1>2 DEF Begin, env, user, ThreadReady, StopEffective, StopSticks,
       FailedStopIsHarmless, Armed, Capturing
  <2> QED
    BY <2>1, <2>2
<1>3. CASE OpenSockets
  <2>1. ThreadReady'
    BY <1>1, <1>3 DEF OpenSockets, attrs, user, ThreadReady, Armed, TypeOK, ThreadTyped
  <2>2. StopEffective'
    BY <1>1, <1>3 DEF OpenSockets, attrs, user, ThreadReady, StopEffective, StopSticks,
       FailedStopIsHarmless, Armed, Capturing
  <2> QED
    BY <2>1, <2>2
<1>4. CASE OpenFails
  <2>1. ThreadReady'
    BY <1>1, <1>4 DEF OpenFails, env, user, ThreadReady, Armed, TypeOK, ThreadTyped
  <2>2. StopEffective'
    BY <1>1, <1>4 DEF OpenFails, env, user, ThreadReady, StopEffective, StopSticks,
       FailedStopIsHarmless, Armed, Capturing
  <2> QED
    BY <2>1, <2>2
<1>5. CASE InstallStopCb
  <2>1. ThreadReady'
    BY <1>1, <1>5 DEF InstallStopCb, env, user, ThreadReady, Armed, TypeOK, ThreadTyped
  <2>2. StopEffective'
    BY <1>1, <1>5 DEF InstallStopCb, env, user, ThreadReady, StopEffective, StopSticks,
       FailedStopIsHarmless, Armed, Capturing
  <2> QED
    BY <2>1, <2>2
<1>6. CASE Arm
  <2>1. ThreadReady'
    BY <1>1, <1>6 DEF Arm, env, user, ThreadReady, Armed, TypeOK, ThreadTyped
  <2>2. StopEffective'
    BY <1>1, <1>6 DEF Arm, env, user, ThreadReady, StopEffective, StopSticks,
       FailedStopIsHarmless, Armed, Capturing
  <2> QED
    BY <2>1, <2>2
<1>7. CASE LoopTest
  <2>1. ThreadReady'
    BY <1>1, <1>7 DEF LoopTest, attrs, env, user, ThreadReady, Armed, TypeOK, ThreadTyped
  <2>2. StopEffective'
    BY <1>1, <1>7 DEF LoopTest, attrs, env, user, ThreadReady, StopEffective, StopSticks,
       FailedStopIsHarmless, Armed, Capturing
  <2> QED
    BY <2>1, <2>2
<1>8. CASE Select
  <2>1. ThreadReady'
    BY <1>1, <1>8 DEF Select, attrs, env, user, ThreadReady, Armed, TypeOK, ThreadTyped
  <2>2. StopEffective'
    BY <1>1, <1>8 DEF Select, attrs, env, user, ThreadReady, StopEffective, StopSticks,
       FailedStopIsHarmless, Armed, Capturing
  <2> QED
    BY <2>1, <2>2
<1>9. CASE EndPass
  <2>1. ThreadReady'
    BY <1>1, <1>9 DEF EndPass, attrs, env, user, ThreadReady, Armed, TypeOK, ThreadTyped
  <2>2. StopEffective'
    BY <1>1, <1>9 DEF EndPass, attrs, env, user, ThreadReady, StopEffective, StopSticks,
       FailedStopIsHarmless, Armed, Capturing
  <2> QED
    BY <2>1, <2>2
<1>10. CASE LowerRunning
  <2>1. ThreadReady'
    BY <1>1, <1>10 DEF LowerRunning, env, user, ThreadReady, Armed, TypeOK, ThreadTyped
  <2>2. StopEffective'
    BY <1>1, <1>10 DEF LowerRunning, env, user, ThreadReady, StopEffective, StopSticks,
       FailedStopIsHarmless, Armed, Capturing
  <2> QED
    BY <2>1, <2>2
<1>11. CASE CloseAll
  <2>1. ThreadReady'
    BY <1>1, <1>11 DEF CloseAll, attrs, env, user, ThreadReady, Armed, TypeOK, ThreadTyped
  <2>2. StopEffective'
    BY <1>1, <1>11 DEF CloseAll, attrs, env, user, ThreadReady, StopEffective, StopSticks,
       FailedStopIsHarmless, Armed, Capturing
  <2> QED
    BY <2>1, <2>2
<1>12. CASE PublishResults
  <2>1. ThreadReady'
    BY <1>1, <1>12 DEF PublishResults, env, user, ThreadReady, Armed, TypeOK, ThreadTyped
  <2>2. StopEffective'
    BY <1>1, <1>12 DEF PublishResults, env, user, ThreadReady, StopEffective, StopSticks,
       FailedStopIsHarmless, Armed, Capturing
  <2> QED
    BY <2>1, <2>2
<1>13. CASE Start
  <2>1. ThreadReady'
    BY <1>1, <1>13 DEF Start, env, ThreadReady, Armed, TypeOK, ThreadTyped
  <2>2. StopEffective'
    BY <1>1, <1>13 DEF Start, env, ThreadReady, StopEffective, StopSticks,
       FailedStopIsHarmless, Armed, Capturing
  <2> QED
    BY <2>1, <2>2
<1>14. ASSUME NEW join \in BOOLEAN, Stop(join)
      PROVE  ThreadReady' /\ StopEffective'
  <2>1. ThreadReady'
    BY <1>1, <1>14 DEF Stop, attrs, local, env, ThreadReady, Armed, TypeOK, ThreadTyped
  <2>2. StopEffective'
    BY <1>1, <1>14 DEF Stop, attrs, local, env, ThreadReady, StopEffective, StopSticks,
       FailedStopIsHarmless, Armed, Capturing
  <2> QED
    BY <2>1, <2>2
<1>15. CASE CallStopCb
  <2>1. ThreadReady'
    BY <1>1, <1>15 DEF CallStopCb, attrs, local, env, ThreadReady, Armed, TypeOK, ThreadTyped
  <2>2. StopEffective'
    BY <1>1, <1>15 DEF CallStopCb, attrs, local, env, ThreadReady, StopEffective, StopSticks,
       FailedStopIsHarmless, Armed, Capturing
  <2> QED
    BY <2>1, <2>2
<1>16. CASE PipeSend
  <2>1. ThreadReady'
    BY <1>1, <1>16 DEF PipeSend, attrs, env, ThreadReady, Armed, TypeOK, ThreadTyped
  <2>2. StopEffective'
    BY <1>1, <1>16 DEF PipeSend, attrs, env, ThreadReady, StopEffective, StopSticks,
       FailedStopIsHarmless, Armed, Capturing
  <2> QED
    BY <2>1, <2>2
<1>17. CASE ClearContSniff
  <2>1. ThreadReady'
    BY <1>1, <1>17 DEF ClearContSniff, local, env, ThreadReady, Armed, TypeOK, ThreadTyped
  <2>2. StopEffective'
    BY <1>1, <1>17 DEF ClearContSniff, local, env, ThreadReady, StopEffective, StopSticks,
       FailedStopIsHarmless, Armed, Capturing
  <2> QED
    BY <2>1, <2>2
<1>18. CASE CheckContSniff
  <2>1. ThreadReady'
    BY <1>1, <1>18 DEF CheckContSniff, attrs, local, env, ThreadReady, Armed, TypeOK, ThreadTyped
  <2>2. StopEffective'
    BY <1>1, <1>18 DEF CheckContSniff, attrs, local, env, ThreadReady, StopEffective, StopSticks,
       FailedStopIsHarmless, Armed, Capturing
  <2> QED
    BY <2>1, <2>2
<1>19. CASE Join
  <2>1. ThreadReady'
    BY <1>1, <1>19 DEF Join, attrs, local, env, ThreadReady, Armed, TypeOK, ThreadTyped
  <2>2. StopEffective'
    BY <1>1, <1>19 DEF Join, attrs, local, env, ThreadReady, StopEffective, StopSticks,
       FailedStopIsHarmless, Armed, Capturing
  <2> QED
    BY <2>1, <2>2
<1>20. ASSUME NEW s \in Sockets, Deliver(s)
      PROVE  ThreadReady' /\ StopEffective'
  <2>1. ThreadReady'
    BY <1>1, <1>20 DEF Deliver, attrs, local, user, ThreadReady, Armed, TypeOK, ThreadTyped
  <2>2. StopEffective'
    BY <1>1, <1>20 DEF Deliver, attrs, local, user, ThreadReady, StopEffective, StopSticks,
       FailedStopIsHarmless, Armed, Capturing
  <2> QED
    BY <2>1, <2>2
<1>21. ASSUME NEW s \in Sockets, EndStream(s)
      PROVE  ThreadReady' /\ StopEffective'
  <2>1. ThreadReady'
    BY <1>1, <1>21 DEF EndStream, attrs, local, user, ThreadReady, Armed, TypeOK, ThreadTyped
  <2>2. StopEffective'
    BY <1>1, <1>21 DEF EndStream, attrs, local, user, ThreadReady, StopEffective, StopSticks,
       FailedStopIsHarmless, Armed, Capturing
  <2> QED
    BY <2>1, <2>2
<1>22. CASE Expire
  <2>1. ThreadReady'
    BY <1>1, <1>22 DEF Expire, attrs, env, user, ThreadReady, Armed, TypeOK, ThreadTyped
  <2>2. StopEffective'
    BY <1>1, <1>22 DEF Expire, attrs, env, user, ThreadReady, StopEffective, StopSticks,
       FailedStopIsHarmless, Armed, Capturing
  <2> QED
    BY <2>1, <2>2
<1>23. CASE Recv
  <2>1. /\ pc = "pass" /\ pc' = pc
        /\ UNCHANGED <<opt, running, stopCb, pipe, user>>
        /\ contSniff' = contSniff \/ contSniff' = "false"
    BY <1>23 DEF Recv, RecvPacket, RecvNothing, RecvEmpty, RecvEnd, attrs, env
  <2> QED
    BY <1>1, <2>1 DEF ThreadReady, StopEffective, StopSticks, FailedStopIsHarmless,
       Armed, Capturing, user
<1>24. CASE UNCHANGED vars
  BY <1>1, <1>24 DEF vars, attrs, local, env, user, ThreadReady, StopEffective, StopSticks,
     FailedStopIsHarmless, Armed, Capturing
<1> QED
  BY <1>2, <1>3, <1>4, <1>5, <1>6, <1>7, <1>8, <1>9, <1>10, <1>11, <1>12, <1>13, <1>14, <1>15, <1>16, <1>17, <1>18, <1>19, <1>20, <1>21, <1>22, <1>23, <1>24
  DEF Next, Thread, StopSteps

\* Nothing undoes a stop() that found the sniffer past
\* `self.continue_sniff = True`, whatever the two threads do.
THEOREM StopNeverUndone == Spec => []StopSticks
<1>1. IInv => StopSticks
  BY DEF IInv, StopEffective
<1> QED
  BY InitIInv, NextIInv, <1>1, PTL DEF Spec

\* A stop() of an armed sniffer fails only once the capture is over.
THEOREM FailureIsHarmless == Spec => []FailedStopIsHarmless
<1>1. IInv => FailedStopIsHarmless
  BY DEF IInv, StopEffective
<1> QED
  BY InitIInv, NextIInv, <1>1, PTL DEF Spec

-----------------------------------------------------------------------------
(* The control pipe.  While the capture lasts it is watched as long as it   *)
(* is open, unless the last socket died; what is watched is closed.         *)

PipeKnown ==
  /\ pc \in {"arm", "loop", "select", "pass", "finish", "close"} /\ pipe.open /\ ~pipe.watched
       => socks = {}
  /\ pc \in {"results", "done"} /\ pipe.open => opt.own /\ socks = {}

LEMMA PipeStep == TypeOK /\ PipeKnown /\ [Next]_vars => PipeKnown'
<1> SUFFICES ASSUME TypeOK, PipeKnown, [Next]_vars PROVE PipeKnown'
  OBVIOUS
<1>1. pipe \in [watched : BOOLEAN, open : BOOLEAN, written : Nat]
  BY DEF TypeOK, ThreadTyped
<1> USE DEF PipeKnown
<1>2. CASE Begin \/ OpenSockets \/ OpenFails \/ Start
  <2>1. pc' \in {"setup", "setcb", "crashed", "begin"}
    BY <1>2 DEF Begin, OpenSockets, OpenFails, Start
  <2> QED
    BY <2>1
<1>3. CASE InstallStopCb
  <2>1. pc' = "arm" /\ pipe' = [watched |-> opt.blocking, open |-> opt.blocking, written |-> 0]
    BY <1>3 DEF InstallStopCb
  <2> QED
    BY <2>1
<1>4. CASE EndPass
  <2>1. /\ pc = "pass" /\ pc' = "loop" /\ socks' = socks \ dead
        /\ pipe' = IF dead # {} /\ socks' = {} THEN [pipe EXCEPT !.watched = FALSE] ELSE pipe
    BY <1>4 DEF EndPass
  <2> QED
    BY <1>1, <2>1
<1>5. CASE CloseAll
  <2>1. /\ pc = "close" /\ pc' = "results" /\ UNCHANGED <<socks, opt>>
        /\ pipe' = IF opt.own /\ ~pipe.watched THEN pipe ELSE [pipe EXCEPT !.open = FALSE]
    BY <1>5 DEF CloseAll, env
  <2> QED
    BY <1>1, <2>1
<1>6. CASE PipeSend
  <2>1. /\ UNCHANGED <<pc, socks, opt>>
        /\ pipe' = pipe \/ pipe' = [pipe EXCEPT !.written = @ + 1]
    BY <1>6 DEF PipeSend, env
  <2> QED
    BY <1>1, <2>1
<1>7. CASE PublishResults
  <2>1. pc = "results" /\ pc' = "done" /\ UNCHANGED <<socks, opt, pipe>>
    BY <1>7 DEF PublishResults, env
  <2> QED
    BY <2>1
<1>8. CASE Arm \/ LoopTest \/ Select \/ LowerRunning
  <2>1. /\ pc \in {"arm", "loop", "select", "finish"} /\ UNCHANGED <<socks, opt, pipe>>
        /\ pc' \in {"loop", "select", "finish", "pass", "close"}
    BY <1>8 DEF Arm, LoopTest, Select, LowerRunning, env
  <2> QED
    BY <2>1
<1>9. CASE UNCHANGED <<pc, socks, opt, pipe>>
  BY <1>9
<1>10. \/ Begin \/ OpenSockets \/ OpenFails \/ Start \/ InstallStopCb \/ EndPass \/ CloseAll
       \/ PipeSend \/ PublishResults \/ Arm \/ LoopTest \/ Select \/ LowerRunning
       \/ UNCHANGED <<pc, socks, opt, pipe>>
  BY DEF Next, Thread, Recv, RecvPacket, RecvNothing, RecvEmpty, RecvEnd, Stop, StopSteps, CallStopCb,
     ClearContSniff, CheckContSniff, Join, Deliver, EndStream, Expire, vars, local, env
<1> QED
  BY <1>2, <1>3, <1>4, <1>5, <1>6, <1>7, <1>8, <1>9, <1>10

\* A capture leaves its control pipe open only when it opened the sockets itself and
\* the last of them died, in whatever order streams end and stop() is called.
THEOREM OnlyTheLastSocketLeaks == Spec => []PipeLeakOnlyAfterLastSocket
<1>1. Init => PipeKnown
  BY DEF Init, PipeKnown
<1>2. PipeKnown => PipeLeakOnlyAfterLastSocket
  BY DEF PipeKnown, PipeLeakOnlyAfterLastSocket
<1> QED
  BY <1>1, <1>2, PipeStep, TypeCorrect, PTL DEF Spec

-----------------------------------------------------------------------------
(* How far a capture may exceed its limit on packets: by one packet per     *)
(* socket but one.  A pass over the ready sockets goes on when the limit is *)
(* reached, so that the bound needs room, when a pass begins, for a packet  *)
(* from each socket still there.  After a packet that leaves the limit      *)
(* unreached there is such room; a packet whose callback raises is not      *)
(* tested against the limit, but its socket is gone for the next pass.      *)

\* The most that is kept.
Most == opt.count - 1 + Cardinality(opt.sockets)

\* The sockets of a capture: those that died in a pass are gone after it, and
\* in a pass only living ones are still to be handled.
SocketsKept ==
  /\ pc \in {"setcb", "arm", "loop", "select", "pass"} => socks \subseteq opt.sockets
  /\ pc = "pass" => todo \subseteq socks \ dead

\* Room for a packet from each socket the next pass may handle, unless there
\* will be none.
Room ==
  opt.count > 0 =>
    /\ Len(lst) <= Most
    /\ pc = "setup" => lst = <<>>
    /\ pc \in {"setcb", "arm", "select"} => Len(lst) + Cardinality(socks) <= Most
    /\ pc = "loop" /\ contSniff # "false" => Len(lst) + Cardinality(socks) <= Most
    /\ pc = "pass" => Len(lst) + Cardinality(todo) <= Most
    /\ pc = "pass" /\ contSniff # "false" => Len(lst) + Cardinality(socks \ dead) <= Most

LimitInv == TypeOK /\ count = Len(lst) /\ SocketsKept /\ Room

\* Sets of sockets are finite.
LEMMA SocketSets ==
  ASSUME NEW S \in SUBSET Sockets, NEW T \in SUBSET S
  PROVE  /\ Cardinality(S) \in Nat
         /\ Cardinality(T) \in Nat
         /\ Cardinality(T) <= Cardinality(S)
<1>1. IsFiniteSet(S)
  BY ConstantsAssumption, FS_Subset DEF ConstantsAssumption
<1>2. IsFiniteSet(T)
  BY <1>1, FS_Subset
<1> QED
  BY <1>1, <1>2, FS_Subset, FS_CardinalityType

\* Taking a socket out of a set makes it smaller by one.
LEMMA SocketRemoved ==
  ASSUME NEW S \in SUBSET Sockets, NEW s \in S
  PROVE  Cardinality(S \ {s}) = Cardinality(S) - 1
<1>1. IsFiniteSet(S)
  BY ConstantsAssumption, FS_Subset DEF ConstantsAssumption
<1> QED
  BY <1>1, FS_RemoveElement

\* The sizes the bound is made of are numbers, and the sets those of sockets.
LEMMA Sizes ==
  ASSUME TypeOK
  PROVE  /\ opt.count \in Nat /\ opt.sockets \subseteq Sockets /\ opt.sockets # {}
         /\ Cardinality(opt.sockets) \in Nat /\ Most \in Int
         /\ Len(lst) \in Nat
         /\ Cardinality(socks) \in Nat
         /\ Cardinality(todo) \in Nat
         /\ Cardinality(socks \ dead) \in Nat
         /\ Cardinality(socks \ dead) <= Cardinality(socks)
<1>1. opt.count \in Nat /\ opt.sockets \subseteq Sockets /\ opt.sockets # {}
  BY OptionsTyped DEF TypeOK, ConstructorOptions
<1>2. Cardinality(opt.sockets) \in Nat
  BY <1>1, SocketSets
<1>3. socks \subseteq Sockets /\ todo \subseteq Sockets /\ Len(lst) \in Nat
  BY DEF TypeOK, ThreadTyped
<1>4. Cardinality(socks) \in Nat /\ Cardinality(todo) \in Nat
  BY <1>3, SocketSets
<1>5. socks \ dead \in SUBSET socks
  OBVIOUS
<1>6. Cardinality(socks \ dead) \in Nat /\ Cardinality(socks \ dead) <= Cardinality(socks)
  BY <1>3, <1>5, SocketSets
<1> QED
  BY <1>1, <1>2, <1>3, <1>4, <1>6 DEF Most

\* A set of at least one socket has at least one element.
LEMMA SocketsCounted == ASSUME TypeOK PROVE Cardinality(opt.sockets) >= 1
<1>1. opt.sockets \subseteq Sockets /\ opt.sockets # {}
  BY Sizes
<1>2. PICK s \in opt.sockets : TRUE
  BY <1>1
<1>3. Cardinality(opt.sockets \ {s}) = Cardinality(opt.sockets) - 1
  BY <1>1, SocketRemoved
<1>4. Cardinality(opt.sockets \ {s}) \in Nat /\ Cardinality(opt.sockets) \in Nat
  BY <1>1, SocketSets
<1> QED
  BY <1>3, <1>4

\* Steps that move no packet and no socket leave the bound alone, if the thread
\* stays where it is or is where the bound says nothing.
LEMMA QuietStep ==
  ASSUME LimitInv, UNCHANGED <<opt, lst, count, socks, todo, dead>>,
         contSniff' = contSniff \/ contSniff' = "false",
         pc' = pc \/ pc' \notin {"setup", "setcb", "arm", "loop", "select", "pass"}
  PROVE  count' = Len(lst)' /\ SocketsKept' /\ Room'
<1>1. count' = Len(lst)'
  BY DEF LimitInv
<1>2. SocketsKept'
  BY DEF LimitInv, SocketsKept
<1>3. Room'
  BY DEF LimitInv, Room, Most
<1> QED
  BY <1>1, <1>2, <1>3

LEMMA InitLimitInv == Init => LimitInv
<1> SUFFICES ASSUME Init PROVE LimitInv
  OBVIOUS
<1>1. TypeOK
  BY InitTyped
<1>2. pc = "none" /\ lst = <<>> /\ count = 0 /\ Len(lst) = 0
  BY DEF Init
<1>3. Room
  <2>1. 0 <= Most \/ opt.count = 0
    BY <1>1, Sizes, SocketsCounted DEF Most
  <2> QED
    BY <1>1, <1>2, <2>1, Sizes DEF Room
<1> QED
  BY <1>1, <1>2, <1>3 DEF LimitInv, SocketsKept

LEMMA RecvLimitInv ==
  ASSUME LimitInv, TypeOK', NEW s \in Sockets,
         RecvPacket(s) \/ RecvNothing(s) \/ RecvEmpty(s) \/ RecvEnd(s)
  PROVE  count' = Len(lst)' /\ SocketsKept' /\ Room'
<1>1. /\ pc = "pass" /\ pc' = "pass" /\ s \in todo /\ todo' = todo \ {s}
      /\ UNCHANGED <<opt, socks>>
      /\ dead' = dead \/ dead' = dead \cup {s}
  BY DEF RecvPacket, RecvNothing, RecvEmpty, RecvEnd, env
<1>2. /\ todo \subseteq socks \ dead /\ socks \subseteq opt.sockets
      /\ socks \subseteq Sockets /\ todo \subseteq Sockets /\ TypeOK
  BY <1>1 DEF LimitInv, SocketsKept, TypeOK, ThreadTyped
<1>3. SocketsKept'
  BY <1>1, <1>2 DEF SocketsKept
<1>4. Cardinality(todo') = Cardinality(todo) - 1
  BY <1>1, <1>2, SocketRemoved
<1>5. Cardinality(socks \ dead') <= Cardinality(socks \ dead)
  <2>1. socks \ dead' \in SUBSET (socks \ dead) /\ socks \ dead \in SUBSET Sockets
    BY <1>1, <1>2
  <2> QED
    BY <2>1, SocketSets
<1>6. CASE RecvPacket(s)
  <2>1. count' = count + 1 /\ Len(lst') = Len(lst) + 1
    BY <1>2, <1>6 DEF RecvPacket, TypeOK, ThreadTyped
  <2>2. count' = Len(lst')
    BY <2>1 DEF LimitInv
  <2>3. ASSUME opt.count > 0 PROVE Len(lst') + Cardinality(todo') <= Most
    BY <1>1, <1>2, <1>4, <2>1, <2>3, Sizes DEF LimitInv, Room
  <2>4. ASSUME opt.count > 0, contSniff' # "false"
        PROVE  Len(lst') + Cardinality(socks \ dead') <= Most
    <3>1. CASE ~LimitReached(count') /\ dead' = dead
      <4>1. Len(lst') <= opt.count - 1
        BY <1>2, <2>1, <2>2, <2>4, <3>1, Sizes DEF LimitReached
      <4>2. Cardinality(socks) <= Cardinality(opt.sockets)
        BY <1>2, Sizes, SocketSets
      <4> QED
        BY <1>2, <2>1, <3>1, <4>1, <4>2, Sizes DEF Most
    <3>2. CASE dead' = dead \cup {s} /\ contSniff' = contSniff
      <4>1. s \in socks \ dead /\ socks \ dead \in SUBSET Sockets
        BY <1>1, <1>2
      <4>2. socks \ dead' = (socks \ dead) \ {s}
        BY <3>2
      <4>3. Cardinality(socks \ dead') = Cardinality(socks \ dead) - 1
        BY <4>1, <4>2, SocketRemoved
      <4>4. Len(lst) + Cardinality(socks \ dead) <= Most
        BY <1>1, <2>4, <3>2 DEF LimitInv, Room
      <4> QED
        BY <1>2, <2>1, <4>3, <4>4, Sizes
    <3> QED
      BY <1>6, <2>4, <3>1, <3>2 DEF RecvPacket
  <2>5. ASSUME opt.count > 0 PROVE Len(lst') <= Most
    <3>1. todo' \in SUBSET Sockets
      BY <1>1, <1>2
    <3>2. Cardinality(todo') \in Nat
      BY <3>1, SocketSets
    <3>3. Len(lst') \in Nat /\ Most \in Int
      BY <1>2, <2>1, Sizes
    <3> QED
      BY <2>3, <2>5, <3>2, <3>3
  <2>6. Room'
    BY <1>1, <2>3, <2>4, <2>5 DEF Room, Most
  <2> QED
    BY <1>3, <2>2, <2>6
<1>7. CASE ~RecvPacket(s)
  <2>1. UNCHANGED <<lst, count, contSniff>>
    BY <1>7 DEF RecvNothing, RecvEmpty, RecvEnd, attrs
  <2>2. ASSUME opt.count > 0
        PROVE  /\ Len(lst) <= Most
               /\ Len(lst) + Cardinality(todo') <= Most
               /\ contSniff # "false" => Len(lst) + Cardinality(socks \ dead') <= Most
    <3>1. Cardinality(socks \ dead') \in Nat
      <4>1. socks \ dead' \in SUBSET Sockets
        BY <1>2
      <4> QED
        BY <4>1, SocketSets
    <3> QED
      BY <1>1, <1>2, <1>4, <1>5, <2>2, <3>1, Sizes DEF LimitInv, Room
  <2>3. Room'
    BY <1>1, <2>1, <2>2 DEF Room, Most
  <2> QED
    BY <1>3, <2>1, <2>3 DEF LimitInv
<1> QED
  BY <1>6, <1>7

LEMMA NextLimitInv == LimitInv /\ [Next]_vars => LimitInv'
<1> SUFFICES ASSUME LimitInv, [Next]_vars PROVE LimitInv'
  OBVIOUS
<1>1. TypeOK /\ TypeOK'
  BY NextTyped DEF LimitInv
<1> SUFFICES count' = Len(lst)' /\ SocketsKept' /\ Room'
  BY <1>1 DEF LimitInv
<1>2. CASE Begin
  <2>1. /\ pc' = "setup" /\ lst' = <<>> /\ count' = 0 /\ Len(lst') = 0 /\ opt' = opt
    BY <1>2 DEF Begin, env
  <2>2. opt.count > 0 => 0 <= Most
    BY <1>1, Sizes, SocketsCounted DEF Most
  <2> QED
    BY <2>1, <2>2 DEF SocketsKept, Room, Most
<1>3. CASE OpenSockets
  <2>1. /\ pc = "setup" /\ pc' = "setcb" /\ socks' = opt.sockets
        /\ UNCHANGED <<opt, lst, count>>
    BY <1>3 DEF OpenSockets, attrs
  <2>2. opt.count > 0 => Len(lst) = 0 /\ Len(lst) + Cardinality(opt.sockets) <= Most
    <3>1. opt.count > 0 => lst = <<>>
      BY <2>1 DEF LimitInv, Room
    <3>2. opt.count > 0 => Len(lst) = 0
      BY <3>1
    <3> QED
      BY <1>1, <3>2, Sizes DEF Most
  <2>3. opt.count > 0 => Len(lst) <= Most
    BY DEF LimitInv, Room
  <2>4. Room'
    BY <2>1, <2>2, <2>3 DEF Room, Most
  <2> QED
    BY <2>1, <2>4 DEF LimitInv, SocketsKept
<1>4. CASE InstallStopCb
  BY <1>4 DEF InstallStopCb, env, LimitInv, SocketsKept, Room, Most
<1>5. CASE Arm
  BY <1>5 DEF Arm, env, LimitInv, SocketsKept, Room, Most
<1>6. CASE LoopTest
  BY <1>6 DEF LoopTest, env, attrs, LimitInv, SocketsKept, Room, Most
<1>7. CASE Select
  <2>1. /\ pc = "select" /\ pc' = "pass" /\ todo' = Answer /\ dead' = {}
        /\ UNCHANGED <<opt, lst, count, contSniff, socks>>
    BY <1>7 DEF Select, attrs, env
  <2>2. Answer \subseteq socks /\ socks \subseteq Sockets /\ socks \ {} = socks
    BY <1>1 DEF Answer, TypeOK, ThreadTyped
  <2>3. Cardinality(Answer) <= Cardinality(socks) /\ Cardinality(Answer) \in Nat
    BY <2>2, SocketSets
  <2>4. opt.count > 0 => /\ Len(lst) <= Most /\ Len(lst) + Cardinality(socks) <= Most
                         /\ Len(lst) + Cardinality(Answer) <= Most
    BY <1>1, <2>1, <2>3, Sizes DEF LimitInv, Room
  <2>5. Room'
    BY <2>1, <2>2, <2>4 DEF Room, Most
  <2> QED
    BY <2>1, <2>2, <2>5 DEF LimitInv, SocketsKept
<1>8. CASE Recv
  BY <1>1, <1>8, RecvLimitInv DEF Recv
<1>9. CASE EndPass
  <2>1. /\ pc = "pass" /\ pc' = "loop" /\ socks' = socks \ dead
        /\ UNCHANGED <<opt, lst, count, contSniff>>
    BY <1>9 DEF EndPass, attrs, env
  <2>2. Room'
    BY <2>1 DEF LimitInv, Room, Most
  <2> QED
    BY <2>1, <2>2 DEF LimitInv, SocketsKept
<1>10. CASE OpenFails \/ LowerRunning \/ CloseAll \/ PublishResults
  BY <1>10, QuietStep DEF OpenFails, LowerRunning, CloseAll, PublishResults, attrs, env
<1>11. CASE Start \/ (\E join \in BOOLEAN : Stop(join))
  BY <1>11, QuietStep DEF Start, Stop, attrs, local, env
<1>12. CASE StopSteps
  BY <1>12, QuietStep
  DEF StopSteps, CallStopCb, PipeSend, ClearContSniff, CheckContSniff, Join, attrs, local, env
<1>13. CASE (\E s \in Sockets : Deliver(s) \/ EndStream(s)) \/ Expire
  BY <1>13, QuietStep DEF Deliver, EndStream, Expire, attrs, local, env
<1>14. CASE UNCHANGED vars
  BY <1>14, QuietStep DEF vars, attrs, local, env
<1> QED
  BY <1>2, <1>3, <1>4, <1>5, <1>6, <1>7, <1>8, <1>9, <1>10, <1>11, <1>12, <1>13, <1>14
  DEF Next, Thread

\* A capture limited to `count` packets keeps fewer than count packets plus one
\* per socket, however many sockets there are and whatever happens to them.
THEOREM LimitExceededLittle == Spec => []OvershootBounded
<1>1. LimitInv => OvershootBounded
  BY Sizes DEF LimitInv, Room, OvershootBounded, Most
<1> QED
  BY InitLimitInv, NextLimitInv, <1>1, PTL DEF Spec

=============================================================================
