-------------------------- MODULE AutomatonProofs ---------------------------
(***************************************************************************)
(* The thread of control and its users do not wait for one another but      *)
(* where the code gives up, restart() leaves no old answer and no           *)
(* breakpoint is passed in silence, for any classes, any number of users    *)
(* and any number of commands.                                              *)
(***************************************************************************)
EXTENDS Automaton, TLAPS

\* Appending and taking keep the type of a sequence.
LEMMA SeqAppend == ASSUME NEW S, NEW q \in Seq(S), NEW x \in S PROVE Append(q, x) \in Seq(S)
  OBVIOUS
LEMMA SeqTake == ASSUME NEW S, NEW q \in Seq(S), q # <<>>
                 PROVE  Head(q) \in S /\ Tail(q) \in Seq(S)
  OBVIOUS

\* What is said by a thread is still well typed when there are more threads.
LEMMA MoreThreads ==
  ASSUME NEW t \in Nat, NEW q \in Seq(Answers \X (1..t))
  PROVE  q \in Seq(Answers \X (1..t + 1))
<1>1. Answers \X (1..t) \subseteq Answers \X (1..t + 1)
  OBVIOUS
<1> QED
  BY <1>1

\* The states a transition may lead to are states of the class.
LEMMA ClassStates ==
  ASSUME TypeOK
  PROVE  /\ cls.initial \in States /\ (cls.stop # None => cls.stop \in States)
         /\ None \notin States
         /\ cls.cond[state] \subseteq States \cup {None}
         /\ cls.recv[state] \subseteq States \cup {None}
         /\ cls.timeout[state] \subseteq States \cup {None}
         /\ cls.eof[state] \in States \cup {None}
<1>1. cls \in Classes /\ state \in DOMAIN cls.cond
  BY DEF TypeOK, States
<1> QED
  BY <1>1, ConstantsAssumption DEF ConstantsAssumption, ClassAssumption, States

\* What a message adds to cmdout.
LEMMA TellTyped ==
  ASSUME TypeOK, NEW m \in Answers, Tell(m)
  PROVE  cmdout' \in Seq(Answers \X (1..thread))
<1>1. <<m, thread>> \in Answers \X (1..thread)
  BY DEF TypeOK
<1> QED
  BY <1>1, SeqAppend DEF TypeOK, Tell

\* A user who clears the pipes holds the lock.
Locked == \A u \in Users : upc[u] \in {"clearing", "reading"} <=> started = u

\* The generator was told of a command that nobody else can take.
Heard == "cmd" \in ready => ctl = "look" /\ cmdin # <<>>

\* Once the pipes have been cleared they carry messages of one thread only.
OneVoice ==
  flushed => /\ \A i \in DOMAIN cmdout : cmdout[i][2] = thread
             /\ ctl = "off" => cmdout = <<>>

\* The first thread runs a state with a breakpoint where it was told of it, and
\* waits for a command in between.
Announced ==
  thread = 1 =>
    /\ breakpointed = told
    /\ ctl = "cmd" /\ iterator = "run" => told = state
    /\ ctl = "run" /\ state \in cls.breakpoints => told = state

\* Where the thread of control does not wait and will not end without a message.
Busy == {"enter", "run", "ran", "conds", "loop", "due", "select", "block", "look"}

\* Where it listens to more than commands there is something to listen to, unless
\* the conditions were skipped; and it sleeps without end only if no timer runs.
Listens ==
  /\ ctl \in {"loop", "due", "select", "block", "look"} \/ (ctl = "cmd" /\ iterator = "look")
       => skipped \/ cls.recv[state] # {} \/ timer # "idle"
  /\ ctl = "block" => timer # "armed"

\* In an orderly use no command kills the thread ...
NoKill ==
  orderly => \A i \in DOMAIN cmdin : /\ cmdin[i] # "FORCESTOP"
                                     /\ cmdin[i] = "STOP" => cls.stop # None

\* ... one user waits at a time, and none clears the pipes ...
OneWaits ==
  orderly => /\ \A u \in Users : upc[u] \in {"idle", "waiting", "ready"}
             /\ \A u, v \in Users : upc[u] = "waiting" /\ upc[v] = "waiting" => u = v

\* ... the last command is not to go on waiting ...
NotFrozen ==
  orderly => \A u \in Users :
    upc[u] = "waiting" /\ cmdin # <<>> => cmdin[Len(cmdin)] # "FREEZE"

\* ... and for who waits there is a message, a command that will bring one, or a
\* thread that goes on or listens, unless it has crashed.
Attended ==
  orderly => \A u \in Users : upc[u] = "waiting" =>
    \/ cmdout # <<>>
    \/ ctl \in {"cmd", "verdict"} /\ cmdin # <<>>
    \/ ctl \in Busy \/ crashed

AutomatonInv ==
  TypeOK /\ Locked /\ Heard /\ OneVoice /\ Announced /\ Listens /\ NoKill /\ OneWaits
  /\ NotFrozen /\ Attended

-----------------------------------------------------------------------------

\* Every variable keeps its type.
LEMMA TypeStep == TypeOK /\ Locked /\ [Next]_vars => TypeOK'
<1> SUFFICES ASSUME TypeOK, Locked, [Next]_vars PROVE TypeOK'
  OBVIOUS
<1> USE DEF gen, users, net, past, Become
<1>1. ASSUME NEW u \in Users, NEW c \in Commands, NEW wait \in BOOLEAN, RunCall(u, c, wait)
      PROVE  TypeOK'
  <2>1. cmdin' \in Seq(Commands)
    BY <1>1, SeqAppend DEF TypeOK, RunCall, Ask
  <2> QED
    <3>1. /\ calls' \in Nat
          /\ upc' \in [Users -> {"idle", "waiting", "stopping", "forcing", "clearing",
                                 "reading", "ready"}]
          /\ got' \in [Users -> (Answers \X (1..thread)) \cup {Nothing}]
      BY <1>1 DEF TypeOK, RunCall, Ask
    <3>2. {singlestep', flushed', output', skipped', crashed', misread', orderly'} \subseteq BOOLEAN
      BY <1>1 DEF TypeOK, RunCall
    <3>3. UNCHANGED <<cls, started, cmdout, gen, ctl, net, starts, thread, flushed>>
      BY <1>1 DEF RunCall
    <3> QED
      BY <2>1, <3>1, <3>2, <3>3 DEF TypeOK, States
<1>2. ASSUME NEW u \in Users, NEW c \in Commands, NEW wait \in BOOLEAN, StopCall(u, c, wait)
      PROVE  TypeOK'
  <2>1. cmdin' \in Seq(Commands)
    BY <1>2, SeqAppend DEF TypeOK, StopCall, Ask
  <2> QED
    BY <1>2, <2>1 DEF TypeOK, StopCall, Ask, States
<1>3. ASSUME NEW u \in Users, Interrupt(u) PROVE TypeOK'
  <2>1. cmdin' \in Seq(Commands)
    BY <1>3, SeqAppend DEF TypeOK, Interrupt, Ask, Commands
  <2> QED
    BY <1>3, <2>1 DEF TypeOK, Interrupt, Ask, States
<1>4. ASSUME NEW u \in Users, Start(u) PROVE TypeOK'
  BY <1>4 DEF TypeOK, Start, States
<1>5. ASSUME NEW u \in Users, RunReturn(u) PROVE TypeOK'
  <2>1. Head(cmdout) \in Answers \X (1..thread) /\ cmdout' \in Seq(Answers \X (1..thread))
    BY <1>5, SeqTake DEF TypeOK, RunReturn
  <2> QED
    BY <1>5, <2>1 DEF TypeOK, RunReturn, States
<1>6. ASSUME NEW u \in Users, Flush(u) PROVE TypeOK'
  BY <1>6, ConstantsAssumption DEF TypeOK, Flush, States, ConstantsAssumption
<1>7. ASSUME NEW u \in Users, ClearTest(u) PROVE TypeOK'
  BY <1>7 DEF TypeOK, ClearTest, States
<1>8. ASSUME NEW u \in Users, ClearRead(u) PROVE TypeOK'
  <2>1. cmdout' \in Seq(Answers \X (1..thread))
    BY <1>8, SeqTake DEF TypeOK, ClearRead
  <2> QED
    BY <1>8, <2>1 DEF TypeOK, ClearRead, States
<1>9. ASSUME NEW u \in Users, Cleared(u) PROVE TypeOK'
  <2>1. started = u /\ u # "control"
    BY <1>9, ConstantsAssumption DEF TypeOK, Cleared, Locked, ConstantsAssumption
  <2> QED
    BY <1>9, <2>1 DEF TypeOK, Cleared, States
<1>10. ASSUME NEW u \in Users, Begin(u) PROVE TypeOK'
  <2>1. cmdout' \in Seq(Answers \X (1..thread'))
    BY <1>10, MoreThreads DEF TypeOK, Begin
  <2>2. got' \in [Users -> (Answers \X (1..thread')) \cup {Nothing}]
    BY <1>10 DEF TypeOK, Begin
  <2>3. state' \in States' /\ breakpointed' \in States' \cup {None}
    BY <1>10, ClassStates DEF TypeOK, Begin, States
  <2> QED
    <3>1. /\ thread' \in Nat \ {0} /\ told' \in States' \cup {None}
          /\ upc' \in [Users -> {"idle", "waiting", "stopping", "forcing", "clearing",
                                 "reading", "ready"}]
      BY <1>10 DEF TypeOK, Begin
    <3>2. {singlestep', flushed', output', skipped', crashed', misread', orderly'} \subseteq BOOLEAN
      BY <1>10 DEF TypeOK, Begin
    <3> QED
      BY <1>10, <2>1, <2>2, <2>3, <3>1, <3>2 DEF TypeOK, Begin
<1>11. CASE Resume \/ Freeze \/ MoveToStop \/ Kill
  <2>1. cmdin' \in Seq(Commands)
    <3>1. cmdin # <<>> /\ cmdin' = Tail(cmdin)
      BY <1>11 DEF Resume, Freeze, MoveToStop, Kill, Command
    <3> QED
      BY <3>1, SeqTake DEF TypeOK
  <2>2. CASE Resume
    BY <2>1, <2>2 DEF TypeOK, Resume, Command, States
  <2>3. CASE Freeze
    BY <2>1, <2>3 DEF TypeOK, Freeze, Command, States
  <2>4. CASE MoveToStop
    BY <2>1, <2>4, ClassStates DEF TypeOK, MoveToStop, Command, States
  <2>5. CASE Kill
    BY <2>1, <2>5 DEF TypeOK, Kill, Command, States
  <2> QED
    BY <1>11, <2>2, <2>3, <2>4, <2>5
<1>12. CASE Close
  BY <1>12, ConstantsAssumption DEF TypeOK, Close, States, ConstantsAssumption
<1>13. CASE Enter
  <2>1. CASE Tell("BREAKPOINT")
    <3>1. cmdout' \in Seq(Answers \X (1..thread))
      BY <2>1, TellTyped DEF Answers
    <3> QED
      BY <1>13, <3>1 DEF TypeOK, Enter, Outer, States
  <2>2. CASE ~Tell("BREAKPOINT")
    BY <1>13, <2>2 DEF TypeOK, Enter, Outer, States
  <2> QED
    BY <2>1, <2>2
<1>14. CASE RunState
  <2>1. cmdout' \in Seq(Answers \X (1..thread))
    BY <1>14, TellTyped DEF RunState, Answers, TypeOK
  <2> QED
    BY <1>14, <2>1 DEF TypeOK, RunState, Outer, States
<1>15. CASE Verdict
  <2>1. cmdout' \in Seq(Answers \X (1..thread))
    BY <1>15, TellTyped DEF Verdict, Answers, TypeOK
  <2>2. cmdin' \in Seq(Commands)
    BY <1>15, SeqTake DEF Verdict, TypeOK
  <2> QED
    BY <1>15, <2>1, <2>2 DEF TypeOK, Verdict, Outer, States
<1>16. ASSUME NEW m \in Answers, Finish(m), Outer, ctl # "off",
              sock' \in {"none", "open", "ended", "gone"}, UNCHANGED <<packets, arrived>>,
              {output', skipped'} \subseteq BOOLEAN, UNCHANGED <<crashed, misread>>
       PROVE  TypeOK'
  <2>1. cmdout' \in Seq(Answers \X (1..thread))
    BY <1>16, TellTyped DEF Finish
  <2> QED
    BY <1>16, <2>1 DEF TypeOK, Finish, Outer, States
<1>17. ASSUME NEW t \in States \cup {None}, NewState(t), Outer, ctl # "off",
              timer' \in {"idle", "armed", "expired"}, ready' \subseteq {"cmd", "sock"},
              sock' \in {"none", "open", "ended", "gone"}, packets' \in 0..arrived,
              arrived' = arrived, skipped' \in BOOLEAN, UNCHANGED <<output, crashed, misread>>
       PROVE  TypeOK'
  <2>1. cmdout' \in Seq(Answers \X (1..thread))
    BY <1>17, TellTyped DEF NewState, Answers, TypeOK
  <2> QED
    BY <1>17, <2>1 DEF TypeOK, NewState, Outer, States
<1>18. CASE Ran
  <2>1. CASE ctl' = "conds"
    BY <1>18, <2>1 DEF TypeOK, Ran, Outer, Finish, States
  <2>2. CASE ctl' # "conds"
    <3>1. \E m \in Answers : Finish(m)
      BY <1>18, <2>2 DEF Ran, Answers
    <3> QED
      BY <1>16, <1>18, <3>1 DEF Ran, TypeOK
  <2> QED
    BY <2>1, <2>2
<1>19. CASE Conds
  <2> skipped' \in BOOLEAN
    BY <1>19 DEF Conds, TypeOK
  <2>1. CASE Listen
    BY <1>19, <2>1 DEF TypeOK, Conds, Outer, Listen, ResetTimer, States
  <2>2. ASSUME NEW t \in cls.cond[state], NewState(t), UNCHANGED <<timer, ready>> PROVE TypeOK'
    BY <1>17, <1>19, <2>2, ClassStates DEF Conds, TypeOK
  <2>3. CASE Finish("EXCEPTION")
    BY <1>16, <1>19, <2>3 DEF Conds, TypeOK, Answers
  <2> QED
    BY <1>19, <2>1, <2>2, <2>3 DEF Conds
<1>20. CASE Timers
  <2>1. ASSUME NEW t \in cls.timeout[state], NewState(t), timer' \in {"armed", "expired"},
               UNCHANGED ready
        PROVE  TypeOK'
    BY <1>17, <1>20, <2>1, ClassStates DEF Timers, TypeOK
  <2>2. ASSUME ToSelect, timer' \in {"idle", "armed", "expired"} PROVE TypeOK'
    BY <1>20, <2>2 DEF TypeOK, Timers, Outer, ToSelect, States
  <2> QED
    BY <1>20, <2>1, <2>2 DEF Timers, Expire, TypeOK
<1>21. CASE Select \/ SelectTimeout \/ LookCommand \/ LookNext
  <2>1. CASE Select
    BY <2>1 DEF TypeOK, Select, Outer, States
  <2>2. CASE SelectTimeout
    BY <2>2 DEF TypeOK, SelectTimeout, Outer, States
  <2>3. CASE LookCommand
    BY <2>3 DEF TypeOK, LookCommand, Outer, States
  <2>4. CASE LookNext
    BY <2>4 DEF TypeOK, LookNext, Outer, States
  <2> QED
    BY <1>21, <2>1, <2>2, <2>3, <2>4
<1>22. CASE LookPacket
  <2>1. ASSUME NEW t \in cls.recv[state], NewState(t) PROVE TypeOK'
    BY <1>17, <1>22, <2>1, ClassStates DEF LookPacket, TypeOK
  <2>2. CASE ctl' = "loop" /\ UNCHANGED <<cmdin, cmdout, state, breakpointed, singlestep, iterator, told>>
    BY <1>22, <2>2 DEF TypeOK, LookPacket, Outer, States
  <2> QED
    BY <1>22, <2>1, <2>2 DEF LookPacket
<1>23. CASE LookEof
  <2>1. CASE NewState(cls.eof[state]) /\ UNCHANGED <<timer, ready>>
    BY <1>17, <1>23, <2>1, ClassStates DEF LookEof, TypeOK
  <2>2. CASE Finish("EXCEPTION")
    BY <1>16, <1>23, <2>2 DEF LookEof, TypeOK, Answers
  <2> QED
    BY <1>23, <2>1, <2>2 DEF LookEof
<1>24. CASE Arrive \/ PeerCloses
  <2>1. CASE Arrive
    <3>1. arrived' \in Nat /\ packets' \in 0..arrived'
      BY <2>1 DEF TypeOK, Arrive
    <3> QED
      BY <2>1, <3>1 DEF TypeOK, Arrive, States
  <2>2. CASE PeerCloses
    BY <2>2 DEF TypeOK, PeerCloses, States
  <2> QED
    BY <1>24, <2>1, <2>2
<1>25. CASE UNCHANGED vars
  BY <1>25 DEF TypeOK, vars, States
<1>26. CASE Raise
  <2>1. cmdout' \in Seq(Answers \X (1..thread))
    <3>1. ASSUME NEW m \in {"EXCEPTION", "END"}, Tell(m) PROVE cmdout' \in Seq(Answers \X (1..thread))
      BY <3>1, TellTyped DEF Answers
    <3> QED
      BY <1>26, <3>1 DEF Raise, TypeOK
  <2>2. timer' \in {"idle", "armed", "expired"} /\ packets' \in 0..arrived
    BY <1>26 DEF Raise, Expire, TypeOK
  <2> QED
    BY <1>26, <2>1, <2>2 DEF TypeOK, Raise, States
<1> QED
  BY <1>1, <1>2, <1>3, <1>4, <1>5, <1>6, <1>7, <1>8, <1>9, <1>10, <1>11, <1>12, <1>13, <1>14,
     <1>15, <1>18, <1>19, <1>20, <1>21, <1>22, <1>23, <1>24, <1>25, <1>26
     DEF Next, User, UserGoesOn, Control

\* The lock is taken and given back by those who clear, and by the thread.
LEMMA LockedStep == TypeOK /\ Locked /\ [Next]_vars => Locked'
<1> SUFFICES ASSUME TypeOK, Locked, [Next]_vars PROVE Locked'
  OBVIOUS
<1> USE ConstantsAssumption DEF ConstantsAssumption, gen, users, net, Become, TypeOK
<1>1. ASSUME NEW u \in Users, NEW c \in Commands, NEW wait \in BOOLEAN,
             RunCall(u, c, wait) \/ StopCall(u, c, wait)
      PROVE  Locked'
  BY <1>1 DEF Locked, RunCall, StopCall
<1>2. ASSUME NEW u \in Users, Interrupt(u) \/ Start(u) \/ RunReturn(u) PROVE Locked'
  BY <1>2 DEF Locked, Interrupt, Start, RunReturn
<1>3. ASSUME NEW u \in Users, Flush(u) PROVE Locked'
  BY <1>3 DEF Locked, Flush
<1>4. ASSUME NEW u \in Users, ClearTest(u) \/ ClearRead(u) PROVE Locked'
  BY <1>4 DEF Locked, ClearTest, ClearRead
<1>5. ASSUME NEW u \in Users, Cleared(u) PROVE Locked'
  BY <1>5 DEF Locked, Cleared
<1>6. ASSUME NEW u \in Users, Begin(u) PROVE Locked'
  BY <1>6 DEF Locked, Begin
<1>7. CASE Close \/ Raise
  BY <1>7 DEF Locked, Close, Raise
<1>8. CASE UNCHANGED <<started, upc>>
  BY <1>8 DEF Locked
<1>9. ASSUME Control, ~Close, ~Raise PROVE UNCHANGED <<started, upc>>
  BY <1>9 DEF Control, Resume, Freeze, MoveToStop, Kill, Command, Enter, RunState, Verdict, Ran,
       Conds, Timers, Select, SelectTimeout, LookCommand, LookPacket, LookEof, LookNext, Outer
<1>10. CASE Arrive \/ PeerCloses \/ UNCHANGED vars
  BY <1>8, <1>10 DEF Arrive, PeerCloses, vars
<1> QED
  BY <1>1, <1>2, <1>3, <1>4, <1>5, <1>6, <1>7, <1>8, <1>9, <1>10 DEF Next, User, UserGoesOn

\* What the generator heard stays in cmdin.
LEMMA HeardStep == TypeOK /\ Heard /\ [Next]_vars => Heard'
<1> SUFFICES ASSUME TypeOK, Heard, [Next]_vars PROVE Heard'
  OBVIOUS
<1> USE DEF gen, users, net, past, Heard
<1>1. ASSUME NEW u \in Users, NEW c \in Commands, NEW wait \in BOOLEAN,
             RunCall(u, c, wait) \/ StopCall(u, c, wait)
      PROVE  Heard'
  BY <1>1 DEF RunCall, StopCall, Ask, TypeOK
<1>2. ASSUME NEW u \in Users, Interrupt(u) PROVE Heard'
  BY SMTT(30), <1>2 DEF Interrupt, Ask, TypeOK
<1>3. ASSUME NEW u \in Users,
             \/ Start(u) \/ RunReturn(u) \/ ClearTest(u) \/ ClearRead(u) \/ Cleared(u)
      PROVE  Heard'
  BY <1>3 DEF Start, RunReturn, ClearTest, ClearRead, Cleared
<1>4. ASSUME NEW u \in Users, Flush(u) \/ Begin(u) PROVE Heard'
  BY <1>4 DEF Flush, Begin, TypeOK
<1>5. CASE Select
  BY <1>5 DEF Select
<1>6. CASE Resume \/ Freeze \/ MoveToStop \/ Kill
  BY <1>6 DEF Resume, Freeze, MoveToStop, Kill, Command
<1>7. ASSUME Control, ~Select, ~Resume, ~Freeze, ~MoveToStop, ~Kill PROVE "cmd" \notin ready'
  BY <1>7 DEF Control, Close, Enter, RunState, Verdict, Ran, Finish, Listen, ToSelect,
       Conds, Timers, SelectTimeout, LookCommand, LookPacket, LookEof, LookNext, Raise
<1>8. CASE Arrive \/ PeerCloses \/ UNCHANGED vars
  BY <1>8 DEF Arrive, PeerCloses, vars
<1> QED
  BY <1>1, <1>2, <1>3, <1>4, <1>5, <1>6, <1>7, <1>8 DEF Next, User, UserGoesOn

\* Only a thread that lives speaks, and the next one begins with empty pipes or
\* with flushed lowered.
LEMMA OneVoiceStep == TypeOK /\ Locked /\ OneVoice /\ [Next]_vars => OneVoice'
<1> SUFFICES ASSUME TypeOK, Locked, OneVoice, [Next]_vars PROVE OneVoice'
  OBVIOUS
<1> USE ConstantsAssumption DEF ConstantsAssumption, gen, users, net, OneVoice, TypeOK
<1>1. ASSUME NEW u \in Users, NEW c \in Commands, NEW wait \in BOOLEAN,
             RunCall(u, c, wait) \/ StopCall(u, c, wait)
      PROVE  OneVoice'
  BY <1>1 DEF RunCall, StopCall
<1>2. ASSUME NEW u \in Users, Interrupt(u) \/ Start(u) \/ Flush(u) \/ ClearTest(u)
      PROVE  OneVoice'
  BY <1>2 DEF Interrupt, Start, Flush, ClearTest
<1>3. ASSUME NEW u \in Users, RunReturn(u) \/ ClearRead(u) PROVE OneVoice'
  <2>1. /\ cmdout # <<>> /\ cmdout' = Tail(cmdout)
        /\ UNCHANGED <<flushed, thread, ctl>>
    BY <1>3 DEF RunReturn, ClearRead
  <2>2. \A i \in DOMAIN cmdout' : i + 1 \in DOMAIN cmdout /\ cmdout'[i] = cmdout[i + 1]
    BY <2>1
  <2> QED
    BY <2>1, <2>2
<1>4. ASSUME NEW u \in Users, Cleared(u) PROVE OneVoice'
  BY <1>4 DEF Cleared
<1>5. ASSUME NEW u \in Users, Begin(u) PROVE OneVoice'
  BY <1>5 DEF Begin
<1>6. CASE Close
  BY <1>6 DEF Close
<1>7. ASSUME Control, ~Close, ~Raise
      PROVE  /\ ctl # "off" /\ ctl' # "off" /\ UNCHANGED <<flushed, thread>>
             /\ UNCHANGED cmdout \/ \E m \in Answers : Tell(m)
  <2>1. CASE Resume \/ Freeze \/ MoveToStop \/ Kill
    BY <2>1 DEF Resume, Freeze, MoveToStop, Kill, Command
  <2>2. CASE Enter \/ RunState
    BY <2>2 DEF Enter, RunState, Outer, Answers
  <2>3. CASE Verdict \/ Ran
    BY <2>3 DEF Verdict, Ran, Outer, Finish, Answers
  <2>4. CASE Conds \/ Timers
    BY <2>4 DEF Conds, Timers, Outer, Finish, NewState, Listen, ToSelect, Answers
  <2>5. CASE Select \/ SelectTimeout \/ LookCommand \/ LookNext
    BY <2>5 DEF Select, SelectTimeout, LookCommand, LookNext, Outer
  <2>6. CASE LookPacket \/ LookEof
    BY <2>6 DEF LookPacket, LookEof, Outer, Finish, NewState, Answers
  <2> QED
    BY <1>7, <2>1, <2>2, <2>3, <2>4, <2>5, <2>6 DEF Control
<1>8. ASSUME NEW m \in Answers, Tell(m), ctl' # "off", UNCHANGED <<flushed, thread>>
      PROVE  OneVoice'
  <2>1. /\ DOMAIN cmdout' = 1..Len(cmdout) + 1 /\ cmdout'[Len(cmdout) + 1] = <<m, thread>>
        /\ \A i \in DOMAIN cmdout : cmdout'[i] = cmdout[i]
    BY <1>8 DEF Tell
  <2>2. ASSUME NEW i \in DOMAIN cmdout', flushed PROVE cmdout'[i][2] = thread
    BY SMTT(30), <2>1, <2>2
  <2> QED
    BY <1>8, <2>2
<1>9. CASE Arrive \/ PeerCloses \/ UNCHANGED vars
  BY <1>9 DEF Arrive, PeerCloses, vars
<1>11. CASE Raise
  <2>1. CASE UNCHANGED flushed
    <3>1. \E m \in Answers : Tell(m) \/ ~flushed
      BY <1>11, <2>1 DEF Raise, Answers
    <3>2. ctl' # "off" \/ ~flushed'
      BY <1>11, <2>1 DEF Raise
    <3> QED
      BY <1>8, <1>11, <2>1, <3>1, <3>2 DEF Raise
  <2>2. CASE ~flushed'
    BY <2>2
  <2> QED
    BY <1>11, <2>1, <2>2 DEF Raise
<1>10. CASE Control
  <2>1. ASSUME UNCHANGED <<cmdout, flushed, thread>>, ctl' # "off", ctl # "off" PROVE OneVoice'
    BY <2>1
  <2> QED
    BY <1>6, <1>7, <1>8, <1>10, <1>11, <2>1
<1> HIDE DEF OneVoice
<1> QED
  BY <1>1, <1>2, <1>3, <1>4, <1>5, <1>9, <1>10 DEF Next, User, UserGoesOn

\* Breakpoints and their announcements go together in the first thread.
LEMMA AnnouncedStep == TypeOK /\ Announced /\ [Next]_vars => Announced'
<1> SUFFICES ASSUME TypeOK, Announced, [Next]_vars PROVE Announced'
  OBVIOUS
<1> USE DEF gen, users, net, past, Announced
<1>1. ASSUME NEW u \in Users, NEW c \in Commands, NEW wait \in BOOLEAN,
             RunCall(u, c, wait) \/ StopCall(u, c, wait)
      PROVE  Announced'
  BY <1>1 DEF RunCall, StopCall
<1>2. ASSUME NEW u \in Users,
             \/ Interrupt(u) \/ Start(u) \/ RunReturn(u) \/ Flush(u) \/ ClearTest(u)
             \/ ClearRead(u) \/ Cleared(u)
      PROVE  Announced'
  BY <1>2 DEF Interrupt, Start, RunReturn, Flush, ClearTest, ClearRead, Cleared
<1>3. ASSUME NEW u \in Users, Begin(u) PROVE Announced'
  BY <1>3 DEF Begin, TypeOK
<1>4. CASE Resume
  BY <1>4 DEF Resume, Command
<1>5. CASE Freeze \/ MoveToStop \/ Kill \/ Close
  BY <1>5 DEF Freeze, MoveToStop, Kill, Command, Close
<1>6. CASE Enter \/ RunState \/ Verdict
  BY <1>6 DEF Enter, RunState, Verdict, Outer
<1>7. CASE Ran \/ Conds
  BY <1>7 DEF Ran, Conds, Finish, NewState, Listen, Outer
<1>8. CASE Timers \/ Select \/ SelectTimeout
  BY <1>8 DEF Timers, Select, SelectTimeout, NewState, ToSelect, Outer
<1>9. CASE LookCommand \/ LookPacket \/ LookEof \/ LookNext \/ Raise
  BY <1>9 DEF LookCommand, LookPacket, LookEof, LookNext, Raise, Finish, NewState, Outer
<1>10. CASE Arrive \/ PeerCloses \/ UNCHANGED vars
  BY <1>10 DEF Arrive, PeerCloses, vars
<1> QED
  BY <1>1, <1>2, <1>3, <1>4, <1>5, <1>6, <1>7, <1>8, <1>9, <1>10 DEF Next, User, UserGoesOn, Control

\* What a command taken from the pipe leaves in it, and what one more adds.
LEMMA Taken ==
  ASSUME cmdin # <<>>, cmdin' = Tail(cmdin), TypeOK
  PROVE  /\ \A i \in DOMAIN cmdin' : i + 1 \in DOMAIN cmdin /\ cmdin'[i] = cmdin[i + 1]
         /\ cmdin' # <<>> => cmdin'[Len(cmdin')] = cmdin[Len(cmdin)]
         /\ Head(cmdin) = cmdin[1] /\ 1 \in DOMAIN cmdin
         /\ cmdin' = <<>> => Len(cmdin) = 1
<1>1. cmdin \in Seq(Commands) /\ Len(cmdin) \in Nat \ {0} /\ Len(cmdin') = Len(cmdin) - 1
  BY DEF TypeOK
<1>2. \A i \in 1..Len(cmdin) - 1 : cmdin'[i] = cmdin[i + 1]
  BY <1>1
<1>3. cmdin' \in Seq(Commands)
  BY <1>1
<1> QED
  BY <1>1, <1>2, <1>3

LEMMA Added ==
  ASSUME NEW c \in Commands, cmdin' = Append(cmdin, c), TypeOK
  PROVE  /\ cmdin' # <<>> /\ cmdin'[Len(cmdin')] = c
         /\ \A i \in DOMAIN cmdin' : cmdin'[i] = c \/ (i \in DOMAIN cmdin /\ cmdin'[i] = cmdin[i])
<1>1. cmdin \in Seq(Commands)
  BY DEF TypeOK
<1>2. Len(cmdin') = Len(cmdin) + 1 /\ Len(cmdin) \in Nat /\ cmdin' \in Seq(Commands)
  BY <1>1, SeqAppend
<1>3. \A i \in 1..Len(cmdin) + 1 : cmdin'[i] = IF i <= Len(cmdin) THEN cmdin[i] ELSE c
  BY <1>1
<1> QED
  BY <1>1, <1>2, <1>3

\* Who kills the thread is not orderly.
LEMMA NoKillStep == TypeOK /\ NoKill /\ [Next]_vars => NoKill'
<1> SUFFICES ASSUME TypeOK, NoKill, [Next]_vars PROVE NoKill'
  OBVIOUS
<1> USE DEF gen, users, net, past, NoKill
<1>1. ASSUME NEW u \in Users, NEW c \in Commands, NEW wait \in BOOLEAN, RunCall(u, c, wait)
      PROVE  NoKill'
  <2>1. cmdin' = Append(cmdin, c) /\ c \notin {"FORCESTOP", "STOP"} /\ (orderly' => orderly) /\ cls' = cls
    BY <1>1 DEF RunCall, Ask
  <2> QED
    BY <2>1, Added
<1>2. ASSUME NEW u \in Users, NEW c \in Commands, NEW wait \in BOOLEAN, StopCall(u, c, wait)
      PROVE  NoKill'
  <2>1. /\ cmdin' = Append(cmdin, c) /\ cls' = cls
        /\ orderly' => orderly /\ c = "STOP" /\ cls.stop # None
    BY <1>2 DEF StopCall, Ask
  <2> QED
    BY <2>1, Added
<1>3. ASSUME NEW u \in Users, Interrupt(u) PROVE NoKill'
  <2>1. cmdin' = Append(cmdin, "FREEZE") /\ orderly' = orderly /\ cls' = cls
    BY <1>3 DEF Interrupt, Ask
  <2> QED
    BY <2>1, Added DEF Commands
<1>4. ASSUME NEW u \in Users,
             \/ Start(u) \/ RunReturn(u) \/ ClearTest(u) \/ ClearRead(u) \/ Cleared(u) \/ Begin(u)
      PROVE  NoKill'
  BY <1>4 DEF Start, RunReturn, ClearTest, ClearRead, Cleared, Begin
<1>5. ASSUME NEW u \in Users, Flush(u) PROVE NoKill'
  <2>1. DOMAIN cmdin' = {}
    BY <1>5 DEF Flush
  <2> QED
    BY <2>1
<1>6. CASE Resume \/ Freeze \/ MoveToStop \/ Kill \/ Verdict
  <2>1. cmdin # <<>> /\ cmdin' = Tail(cmdin) /\ UNCHANGED <<orderly, cls>>
    BY <1>6 DEF Resume, Freeze, MoveToStop, Kill, Command, Verdict, Outer
  <2> QED
    BY <2>1, Taken
<1>7. ASSUME Control, ~Resume, ~Freeze, ~MoveToStop, ~Kill, ~Verdict
      PROVE  UNCHANGED <<cmdin, orderly, cls>>
  BY <1>7 DEF Control, Close, Enter, RunState, Ran, Conds, Timers, Select, SelectTimeout,
       LookCommand, LookPacket, LookEof, LookNext, Raise, Finish, NewState, Listen, ToSelect, Outer
<1>8. CASE Arrive \/ PeerCloses \/ UNCHANGED vars
  BY <1>8 DEF Arrive, PeerCloses, vars
<1> QED
  BY <1>1, <1>2, <1>3, <1>4, <1>5, <1>6, <1>7, <1>8 DEF Next, User, UserGoesOn

\* Orderly users wait one at a time.
LEMMA OneWaitsStep == TypeOK /\ OneWaits /\ [Next]_vars => OneWaits'
<1> SUFFICES ASSUME TypeOK, OneWaits, [Next]_vars PROVE OneWaits'
  OBVIOUS
<1> USE DEF gen, users, net, past, Become, OneWaits, TypeOK
<1>1. ASSUME NEW u \in Users, NEW c \in Commands, NEW wait \in BOOLEAN, RunCall(u, c, wait)
      PROVE  OneWaits'
  BY <1>1 DEF RunCall
<1>2. ASSUME NEW u \in Users, NEW c \in Commands, NEW wait \in BOOLEAN, StopCall(u, c, wait)
      PROVE  OneWaits'
  BY <1>2 DEF StopCall
<1>3. ASSUME NEW u \in Users, Interrupt(u) \/ Start(u) \/ RunReturn(u) \/ Begin(u) PROVE OneWaits'
  <2>1. orderly' = orderly
    BY <1>3 DEF Interrupt, Start, RunReturn, Begin
  <2>2. \A v \in Users : upc'[v] = upc[v] \/ upc'[v] \in {"idle", "ready"}
    BY <1>3 DEF Interrupt, Start, RunReturn, Begin
  <2> QED
    BY <2>1, <2>2
<1>4. ASSUME NEW u \in Users, Flush(u) \/ ClearTest(u) \/ ClearRead(u) \/ Cleared(u)
      PROVE  OneWaits'
  BY <1>4 DEF Flush, ClearTest, ClearRead, Cleared
<1>5. CASE Control
  <2>1. UNCHANGED <<upc, orderly>>
    BY <1>5 DEF Control, Resume, Freeze, MoveToStop, Kill, Command, Close, Enter, RunState,
         Verdict, Ran, Conds, Timers, Select, SelectTimeout, LookCommand, LookPacket, LookEof,
         LookNext, Raise, Outer
  <2> QED
    BY <2>1
<1>6. CASE Arrive \/ PeerCloses \/ UNCHANGED vars
  BY <1>6 DEF Arrive, PeerCloses, vars
<1> QED
  BY <1>1, <1>2, <1>3, <1>4, <1>5, <1>6 DEF Next, User, UserGoesOn

\* Only who stops waiting asks the thread to go on waiting.
LEMMA NotFrozenStep == TypeOK /\ OneWaits /\ NotFrozen /\ [Next]_vars => NotFrozen'
<1> SUFFICES ASSUME TypeOK, OneWaits, NotFrozen, [Next]_vars PROVE NotFrozen'
  OBVIOUS
<1> USE DEF gen, users, net, past, Become, NotFrozen
<1>1. ASSUME NEW u \in Users, NEW c \in Commands, NEW wait \in BOOLEAN,
             RunCall(u, c, wait) \/ StopCall(u, c, wait)
      PROVE  NotFrozen'
  <2>1. cmdin' # <<>> /\ cmdin'[Len(cmdin')] = c /\ c # "FREEZE"
    BY <1>1, Added DEF RunCall, StopCall, Ask
  <2> QED
    BY <2>1
<1>2. ASSUME NEW u \in Users, Interrupt(u) \/ RunReturn(u) PROVE NotFrozen'
  <2>1. orderly' => \A v \in Users : upc'[v] # "waiting"
    BY <1>2 DEF Interrupt, RunReturn, OneWaits, TypeOK
  <2> QED
    BY <2>1
<1>3. ASSUME NEW u \in Users, Start(u) \/ Begin(u) PROVE NotFrozen'
  BY <1>3 DEF Start, Begin, TypeOK
<1>4. ASSUME NEW u \in Users, Flush(u) \/ ClearTest(u) \/ ClearRead(u) \/ Cleared(u)
      PROVE  NotFrozen'
  BY <1>4 DEF Flush, ClearTest, ClearRead, Cleared, OneWaits
<1>5. CASE Resume \/ Freeze \/ MoveToStop \/ Kill \/ Verdict
  <2>1. cmdin # <<>> /\ cmdin' = Tail(cmdin) /\ UNCHANGED <<orderly, upc>>
    BY <1>5 DEF Resume, Freeze, MoveToStop, Kill, Command, Verdict, Outer
  <2>2. cmdin' # <<>> => cmdin'[Len(cmdin')] = cmdin[Len(cmdin)]
    BY <2>1, Taken
  <2> QED
    BY <2>1, <2>2
<1>6. ASSUME Control, ~Resume, ~Freeze, ~MoveToStop, ~Kill, ~Verdict
      PROVE  UNCHANGED <<cmdin, orderly, upc>>
  BY <1>6 DEF Control, Close, Enter, RunState, Ran, Conds, Timers, Select, SelectTimeout,
       LookCommand, LookPacket, LookEof, LookNext, Raise, Finish, NewState, Listen, ToSelect, Outer
<1>7. CASE Arrive \/ PeerCloses \/ UNCHANGED vars
  BY <1>7 DEF Arrive, PeerCloses, vars
<1> QED
  BY <1>1, <1>2, <1>3, <1>4, <1>5, <1>6, <1>7 DEF Next, User, UserGoesOn

\* Nothing is taken from who waits.
LEMMA AttendedStep ==
  TypeOK /\ Heard /\ NoKill /\ OneWaits /\ NotFrozen /\ Attended /\ [Next]_vars => Attended'
<1> SUFFICES ASSUME TypeOK, Heard, NoKill, OneWaits, NotFrozen, Attended, [Next]_vars
             PROVE  Attended'
  OBVIOUS
<1> USE DEF gen, users, net, past, Become, Attended
<1>1. ASSUME NEW u \in Users, NEW c \in Commands, NEW wait \in BOOLEAN, RunCall(u, c, wait)
      PROVE  Attended'
  <2>1. /\ cmdin' # <<>> /\ UNCHANGED <<cmdout, ctl>>
        /\ orderly' => ctl \notin {"off", "closing"}
    BY <1>1, Added DEF RunCall, Ask, Over
  <2> QED
    BY <2>1 DEF Busy, TypeOK
<1>2. ASSUME NEW u \in Users, NEW c \in Commands, NEW wait \in BOOLEAN, StopCall(u, c, wait)
      PROVE  Attended'
  <2>1. /\ cmdin' # <<>> /\ UNCHANGED <<cmdout, ctl, crashed>>
        /\ orderly' => orderly
    BY <1>2, Added DEF StopCall, Ask
  <2>2. \A v \in Users : upc'[v] = "waiting" => upc[v] = "waiting"
    BY <1>2 DEF StopCall, TypeOK
  <2> QED
    BY <2>1, <2>2
<1>3. ASSUME NEW u \in Users, Interrupt(u) \/ RunReturn(u) PROVE Attended'
  <2>1. orderly' => \A v \in Users : upc'[v] # "waiting"
    BY <1>3 DEF Interrupt, RunReturn, OneWaits, TypeOK
  <2> QED
    BY <2>1
<1>4. ASSUME NEW u \in Users, Start(u) \/ Begin(u) PROVE Attended'
  <2>1. /\ UNCHANGED <<cmdin, cmdout, orderly, crashed>>
        /\ UNCHANGED ctl \/ (ctl' = "cmd" /\ ctl = "off")
    BY <1>4 DEF Start, Begin, TypeOK
  <2>2. \A v \in Users : upc'[v] = "waiting" => upc[v] = "waiting"
    BY <1>4 DEF Start, Begin, TypeOK
  <2> QED
    BY <2>1, <2>2 DEF Busy
<1>5. ASSUME NEW u \in Users, Flush(u) \/ ClearTest(u) \/ ClearRead(u) \/ Cleared(u)
      PROVE  Attended'
  BY <1>5 DEF Flush, ClearTest, ClearRead, Cleared, OneWaits
<1>6. ASSUME ctl' \in Busy PROVE Attended'
  BY <1>6
<1>7. ASSUME NEW m \in Answers, Tell(m) PROVE Attended'
  BY <1>7 DEF Tell, TypeOK
<1>8. CASE Resume \/ MoveToStop
  <2>1. ctl' \in Busy
    BY <1>8 DEF Resume, MoveToStop, Command, Busy, TypeOK
  <2> QED
    BY <1>6, <2>1
<1>9. CASE Freeze
  <2>1. /\ cmdin # <<>> /\ cmdin' = Tail(cmdin) /\ Head(cmdin) = "FREEZE" /\ ctl = "cmd"
        /\ UNCHANGED <<ctl, cmdout, orderly, upc, crashed>>
    BY <1>9 DEF Freeze, Command
  <2>2. cmdin[Len(cmdin)] # "FREEZE" => cmdin' # <<>>
    BY <2>1, Taken
  <2> QED
    BY <2>1, <2>2 DEF NotFrozen
<1>10. CASE Kill
  <2>1. cmdin # <<>> /\ cmdin' = Tail(cmdin) /\ orderly' = orderly
    BY <1>10 DEF Kill, Command
  <2>2. 1 \in DOMAIN cmdin /\ Head(cmdin) = cmdin[1]
    BY <2>1, Taken
  <2>3. ~orderly'
    BY <1>10, <2>1, <2>2 DEF Kill, Command, NoKill
  <2> QED
    BY <2>3
<1>11. CASE Close
  BY <1>11 DEF Close, Busy
<1>12. CASE LookCommand
  BY <1>12 DEF LookCommand, Heard, Outer
<1>13. CASE Enter \/ RunState \/ Verdict \/ Ran
  <2>1. ctl' \in Busy \/ \E m \in Answers : Tell(m)
    BY <1>13 DEF Enter, RunState, Verdict, Ran, Finish, Answers, Busy
  <2> QED
    BY <1>6, <1>7, <2>1
<1>14. CASE Conds \/ Timers \/ Select \/ SelectTimeout \/ LookPacket \/ LookEof \/ LookNext
  <2>1. ctl' \in Busy \/ \E m \in Answers : Tell(m)
    BY <1>14 DEF Conds, Timers, Select, SelectTimeout, LookPacket, LookEof, LookNext, Finish,
         NewState, Listen, ToSelect, Answers, Busy
  <2> QED
    BY <1>6, <1>7, <2>1
<1>15. CASE Arrive \/ PeerCloses \/ UNCHANGED vars
  <2>1. UNCHANGED <<cmdin, cmdout, ctl, upc, orderly, crashed>>
    BY <1>15 DEF Arrive, PeerCloses, vars
  <2> QED
    BY <2>1
<1>16. CASE Raise
  <2>1. crashed' \/ \E m \in Answers : Tell(m)
    BY <1>16 DEF Raise, Answers
  <2> QED
    BY <1>7, <2>1
<1> QED
  BY <1>1, <1>2, <1>3, <1>4, <1>5, <1>8, <1>9, <1>10, <1>11, <1>12, <1>13, <1>14, <1>15, <1>16
     DEF Next, User, UserGoesOn, Control

\* The generator comes to select() by way of Listen, or with the conditions skipped.
LEMMA ListensStep == TypeOK /\ Listens /\ [Next]_vars => Listens'
<1> SUFFICES ASSUME TypeOK, Listens, [Next]_vars PROVE Listens'
  OBVIOUS
<1> USE DEF gen, users, net, past, Listens
<1>1. CASE UNCHANGED <<cls, ctl, iterator, skipped, state, timer>>
  BY <1>1
<1>2. ASSUME NEW u \in Users, NEW c \in Commands, NEW wait \in BOOLEAN,
             RunCall(u, c, wait) \/ StopCall(u, c, wait)
      PROVE  Listens'
  BY <1>1, <1>2 DEF RunCall, StopCall
<1>3. ASSUME NEW u \in Users,
             \/ Interrupt(u) \/ Start(u) \/ RunReturn(u) \/ Flush(u) \/ ClearTest(u)
             \/ ClearRead(u) \/ Cleared(u)
      PROVE  Listens'
  BY <1>1, <1>3 DEF Interrupt, Start, RunReturn, Flush, ClearTest, ClearRead, Cleared
<1>4. ASSUME NEW u \in Users, Begin(u) PROVE Listens'
  BY <1>4 DEF Begin
<1>5. CASE Resume \/ Freeze
  BY <1>5 DEF Resume, Freeze, Command, TypeOK
<1>6. CASE MoveToStop \/ Kill \/ Close \/ Enter \/ RunState \/ Verdict \/ Ran \/ Raise
  BY <1>6 DEF MoveToStop, Kill, Close, Enter, RunState, Verdict, Ran, Raise, Finish
<1>7. ASSUME NEW t, NewState(t) PROVE Listens'
  BY <1>7 DEF NewState
<1>8. CASE Conds
  <2>1. CASE Listen
    BY <1>8, <2>1 DEF Conds, Listen, ResetTimer, Outer, NewState, Finish
  <2>2. CASE Finish("EXCEPTION")
    BY <2>2 DEF Finish
  <2> QED
    BY <1>7, <1>8, <2>1, <2>2 DEF Conds
<1>9. CASE Timers
  <2>1. CASE ToSelect
    BY <1>9, <2>1 DEF Timers, ToSelect, Expire, Outer, NewState
  <2> QED
    BY <1>7, <1>9, <2>1 DEF Timers
<1>10. CASE Select \/ SelectTimeout \/ LookCommand \/ LookNext
  BY <1>10 DEF Select, SelectTimeout, LookCommand, LookNext, Outer
<1>11. CASE LookPacket \/ LookEof
  <2>1. CASE LookPacket /\ ctl' = "loop" /\ UNCHANGED <<state, iterator>>
    BY <2>1 DEF LookPacket, Outer
  <2>2. CASE Finish("EXCEPTION")
    BY <2>2 DEF Finish
  <2> QED
    BY <1>7, <1>11, <2>1, <2>2 DEF LookPacket, LookEof
<1>12. CASE Arrive \/ PeerCloses \/ UNCHANGED vars
  BY <1>1, <1>12 DEF Arrive, PeerCloses, vars
<1> QED
  BY <1>2, <1>3, <1>4, <1>5, <1>6, <1>8, <1>9, <1>10, <1>11, <1>12
     DEF Next, User, UserGoesOn, Control

-----------------------------------------------------------------------------

LEMMA InvInit == Init => AutomatonInv
<1> SUFFICES ASSUME Init PROVE AutomatonInv
  OBVIOUS
<1>1. TypeOK
  <2>1. cls.initial \in DOMAIN cls.cond
    BY ConstantsAssumption DEF Init, ConstantsAssumption, ClassAssumption
  <2> QED
    <3>1. /\ cmdin \in Seq(Commands) /\ cmdout \in Seq(Answers \X (1..thread))
          /\ thread \in Nat \ {0} /\ packets \in 0..arrived /\ arrived \in Nat
          /\ upc \in [Users -> {"idle", "waiting", "stopping", "forcing", "clearing",
                                "reading", "ready"}]
          /\ got \in [Users -> (Answers \X (1..thread)) \cup {Nothing}]
      BY DEF Init
    <3> QED
      BY <2>1, <3>1 DEF Init, TypeOK, States
<1>2. Locked
  BY ConstantsAssumption DEF Init, Locked, ConstantsAssumption
<1>3. /\ Heard /\ OneVoice /\ Announced /\ Listens /\ NoKill /\ OneWaits /\ NotFrozen
      /\ Attended
  BY DEF Init, Heard, OneVoice, Announced, Listens, NoKill, OneWaits, NotFrozen, Attended
<1> QED
  BY <1>1, <1>2, <1>3 DEF AutomatonInv

LEMMA InvStep == AutomatonInv /\ [Next]_vars => AutomatonInv'
  BY TypeStep, LockedStep, HeardStep, OneVoiceStep, AnnouncedStep, ListensStep, NoKillStep,
     OneWaitsStep, NotFrozenStep, AttendedStep DEF AutomatonInv

\* The invariant of the proofs.
THEOREM Invariant == Spec => []AutomatonInv
  BY InvInit, InvStep, PTL DEF Spec

\* Every variable keeps its type; the lock is the thread's as long as it lives.
THEOREM AutomatonTyped == Spec => []TypeOK
<1>1. AutomatonInv => TypeOK
  BY DEF AutomatonInv
<1> QED
  BY <1>1, Invariant, PTL

\* In an orderly use of any automaton by any number of threads, a run() and the
\* thread of control wait for one another only where the thread died of a
\* RuntimeError before there was an output, or sleeps in a state with conditions
\* that were skipped, a timeout that was declined or a socket that is closed.
THEOREM NobodyWaits == Spec => []NoMutualWait
<1>1. ASSUME AutomatonInv, orderly, NEW u \in Users, MutualWait(u), Deaf
      PROVE  skipped \/ timer = "expired" \/ cls.recv[state] # {}
  BY <1>1 DEF AutomatonInv, TypeOK, Listens, Deaf
<1>2. ASSUME AutomatonInv, orderly, NEW u \in Users, MutualWait(u), ~Deaf
      PROVE  crashed
  BY <1>2 DEF AutomatonInv, Attended, MutualWait, Busy
<1>3. AutomatonInv => NoMutualWait
  BY <1>1, <1>2 DEF NoMutualWait
<1> QED
  BY <1>3, Invariant, PTL

\* After the pipes were cleared run() returns with what the present thread says:
\* only RunReturn changes what a user was told, and the message is the first.
THEOREM AnswersFresh == Spec => NoStaleAnswer
<1>1. ASSUME AutomatonInv, [Next]_vars, NEW u \in Users,
             got'[u] # got[u], got'[u] # Nothing, flushed
      PROVE  got'[u][2] = thread
  <2>1. PICK v \in Users : RunReturn(v)
    <3>1. CASE \E v \in Users, c \in Commands, wait \in BOOLEAN : RunCall(v, c, wait)
      BY <1>1, <3>1 DEF RunCall, AutomatonInv, TypeOK
    <3>2. CASE \E v \in Users, c \in Commands, wait \in BOOLEAN : StopCall(v, c, wait)
      BY <1>1, <3>2 DEF StopCall
    <3>3. CASE \E v \in Users : \/ Interrupt(v) \/ Start(v) \/ Flush(v) \/ ClearTest(v)
                                \/ ClearRead(v) \/ Cleared(v) \/ Begin(v)
      BY <1>1, <3>3 DEF Interrupt, Start, Flush, ClearTest, ClearRead, Cleared, Begin
    <3>4. CASE Control
      BY <1>1, <3>4 DEF Control, Resume, Freeze, MoveToStop, Kill, Command, Close, Enter,
           RunState, Verdict, Ran, Conds, Timers, Select, SelectTimeout, LookCommand,
           LookPacket, LookEof, LookNext, Raise, Outer, users
    <3>5. CASE Arrive \/ PeerCloses \/ UNCHANGED vars
      BY <1>1, <3>5 DEF Arrive, PeerCloses, vars, users
    <3> QED
      BY <1>1, <3>1, <3>2, <3>3, <3>4, <3>5 DEF Next, User, UserGoesOn
  <2>2. cmdout # <<>> /\ got' = [got EXCEPT ![v] = Head(cmdout)]
    BY <2>1 DEF RunReturn
  <2>3. Head(cmdout)[2] = thread
    <3>1. Head(cmdout) = cmdout[1] /\ 1 \in DOMAIN cmdout
      BY <1>1, <2>2 DEF AutomatonInv, TypeOK
    <3> QED
      BY <1>1, <3>1 DEF AutomatonInv, OneVoice
  <2>4. got'[u] = Head(cmdout)
    BY <1>1, <2>2 DEF AutomatonInv, TypeOK
  <2> QED
    BY <2>3, <2>4
<1>2. AutomatonInv /\ [Next]_vars =>
        [\A u \in Users :
           got'[u] # got[u] /\ got'[u] # Nothing /\ flushed => got'[u][2] = thread]_vars
  BY <1>1
<1> QED
  BY <1>2, Invariant, PTL DEF Spec, NoStaleAnswer

\* The first thread does not run the function of a state with a breakpoint that
\* it has not announced.
THEOREM BreakpointsHold == Spec => BreakpointHonoured
<1>1. AutomatonInv =>
        (ctl = "run" /\ ctl' # "run" /\ state \in cls.breakpoints /\ thread = 1 => told = state)
  BY DEF AutomatonInv, Announced
<1> QED
  BY <1>1, Invariant, PTL DEF BreakpointHonoured

=============================================================================
