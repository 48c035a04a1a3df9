------------------------- MODULE LocalServerProofs -------------------------
(***************************************************************************)
(* What is proved of the child processes of the extension, for any number  *)
(* of start commands.                                                      *)
(***************************************************************************)
EXTENDS LocalServer, TLAPS

(***************************************************************************)
(* The inductive invariant says of each server s what its fields, its      *)
(* timers and its process have to do with each other.                      *)
(***************************************************************************)

\* Nothing exists of a server whose command waits for a port.
Fresh(s) ==
  call[s] \in {"unused", "asking"} =>
    /\ process[s] = "none" /\ events[s] = {} /\ signal[s] = "none"
    /\ s \notin child /\ s \notin stopping

\* Only the end of a process is told as its end.
DeadIsTold(s) == "exit" \in events[s] \/ "close" \in events[s] => ~Alive(s)

\* A start that waits has a child to stop, and no child was ever signalled.
ChildIsThere(s)     == call[s] = "starting" => s \in child
ChildIsUntouched(s) == s \in child => signal[s] = "none"

\* A stop that waits for a process has the escalation before it or behind it, and
\* an escalation is only due where the first signal was sent.
EscalationIsDue(s)   ==
  s \in stopping /\ Alive(s) => "escalate" \in timers[s] \/ signal[s] = "KILL"
EscalationIsMeant(s) == "escalate" \in timers[s] /\ Alive(s) => signal[s] # "none"

\* Without overlapping commands one start at a time is under way, and none while
\* there is a server.
StartsAlone ==
  \A s \in UnderWay : localServer = NoServer /\ \A t \in UnderWay : t = s

\* The starts that go on after the end of the extension were under way then.
LateStarts == disposed => UnderWay \subseteq abandoned

Good(s) == /\ Fresh(s) /\ DeadIsTold(s) /\ ChildIsThere(s) /\ ChildIsUntouched(s)
           /\ EscalationIsDue(s) /\ EscalationIsMeant(s)

IInv == /\ TypeOK
        /\ \A s \in Server : Good(s)
        /\ KeptServerIsUntouched
        /\ StopMeansIt
        /\ ~Overlap => StartsAlone /\ LateStarts /\ NoServerIsForgotten

-----------------------------------------------------------------------------
(* Every action keeps the invariant.                                        *)

\* A command that asks for a port changes nothing else.
LEMMA StartCommandKeeps == ASSUME IInv, NEW s \in Server, StartCommand(s) PROVE IInv'
<1> USE DEF IInv, callVars, serverVars, processVars
<1>1. TypeOK'
  BY DEF TypeOK, StartCommand
<1>2. \A t \in Server : Good(t)'
  BY DEF Good, Fresh, DeadIsTold, ChildIsThere, ChildIsUntouched, EscalationIsDue,
         EscalationIsMeant, Alive, StartCommand
<1>3. KeptServerIsUntouched'
  BY DEF KeptServerIsUntouched, StartCommand
<1>4. StopMeansIt'
  BY DEF StopMeansIt, Alive, StartCommand
<1>5. ~Overlap => StartsAlone' /\ LateStarts' /\ NoServerIsForgotten'
  BY DEF StartsAlone, LateStarts, UnderWay, NoServerIsForgotten, MayStart, Alive, StartCommand
<1> QED BY <1>1, <1>2, <1>3, <1>4, <1>5

\* A new process is that of a server of which nothing exists yet.
LEMMA GivePortKeeps == ASSUME IInv, NEW s \in Server, GivePort(s) PROVE IInv'
<1> USE DEF IInv, callVars, serverVars, processVars
<1>1. TypeOK'
  BY DEF TypeOK, GivePort, Spawn, TimersAfterSpawn, Good, Fresh
<1>2. \A t \in Server : Good(t)'
  BY DEF TypeOK, Good, Fresh, DeadIsTold, ChildIsThere, ChildIsUntouched,
         EscalationIsDue, EscalationIsMeant, Alive, GivePort, Spawn, TimersAfterSpawn
<1>3. KeptServerIsUntouched'
  BY DEF KeptServerIsUntouched, GivePort, Spawn
<1>4. StopMeansIt'
  BY DEF TypeOK, Good, StopMeansIt, Alive, GivePort, Spawn, Fresh
<1>5. ~Overlap => StartsAlone' /\ LateStarts' /\ NoServerIsForgotten'
  BY DEF TypeOK, StartsAlone, LateStarts, UnderWay, NoServerIsForgotten, Alive, GivePort, Spawn
<1> QED BY <1>1, <1>2, <1>3, <1>4, <1>5

\* The timeout stops the child that the start has.
LEMMA StartupTimeoutKeeps == ASSUME IInv, NEW s \in Server, StartupTimeout(s) PROVE IInv'
<1> USE DEF IInv, callVars, serverVars, processVars
<1>1. TypeOK'
  BY DEF TypeOK, StartupTimeout, Stop
<1>2. \A t \in Server : Good(t)'
  BY DEF TypeOK, Good, Fresh, DeadIsTold, ChildIsThere, ChildIsUntouched,
         EscalationIsDue, EscalationIsMeant, Alive, StartupTimeout, Stop
<1>3. KeptServerIsUntouched'
  BY DEF TypeOK, KeptServerIsUntouched, StartupTimeout, Stop
<1>4. StopMeansIt'
  BY DEF TypeOK, StopMeansIt, Alive, StartupTimeout, Stop
<1>5. ~Overlap => StartsAlone' /\ LateStarts' /\ NoServerIsForgotten'
  BY DEF TypeOK, Good, ChildIsThere, StartsAlone, LateStarts, UnderWay, NoServerIsForgotten,
         Alive, StartupTimeout, Stop, ExitCodeSet
<1> QED BY <1>1, <1>2, <1>3, <1>4, <1>5

\* The server that is kept takes the place of none.
LEMMA ReadLineKeeps == ASSUME IInv, NEW s \in Server, ReadLine(s) PROVE IInv'
<1> USE DEF IInv, callVars, serverVars, processVars
<1>1. TypeOK'
  BY DEF TypeOK, ReadLine
<1>2. \A t \in Server : Good(t)'
  BY DEF TypeOK, Good, Fresh, DeadIsTold, ChildIsThere, ChildIsUntouched,
         EscalationIsDue, EscalationIsMeant, Alive, ReadLine, Unsettled
<1>3. KeptServerIsUntouched'
  BY DEF Good, ChildIsUntouched, ChildIsThere, KeptServerIsUntouched, ReadLine,
         Unsettled
<1>4. StopMeansIt'
  BY DEF StopMeansIt, Alive, ReadLine
<1>5. ~Overlap => StartsAlone' /\ LateStarts' /\ NoServerIsForgotten'
  BY ServerAssumption DEF TypeOK, StartsAlone, LateStarts, UnderWay, NoServerIsForgotten, Alive,
                          ReadLine, Unsettled
<1> QED BY <1>1, <1>2, <1>3, <1>4, <1>5

\* The exit of a child in its start stops it, and every other exit is of a dead process.
LEMMA HandleExitKeeps == ASSUME IInv, NEW s \in Server, HandleExit(s) PROVE IInv'
<1> USE DEF IInv, callVars, serverVars, processVars
<1>1. TypeOK'
  BY DEF TypeOK, HandleExit, Stop, Finish, CallAfterFinish
<1>2. \A t \in Server : Good(t)'
  BY DEF TypeOK, Good, Fresh, DeadIsTold, ChildIsThere, ChildIsUntouched,
         EscalationIsDue, EscalationIsMeant, Alive, HandleExit, Stop, Finish,
         CallAfterFinish
<1>3. KeptServerIsUntouched'
  BY DEF TypeOK, KeptServerIsUntouched, HandleExit, Stop
<1>4. StopMeansIt'
  BY DEF TypeOK, Good, DeadIsTold, StopMeansIt, Alive, HandleExit, Stop, Finish
<1>5. ~Overlap => StartsAlone' /\ LateStarts' /\ NoServerIsForgotten'
  BY DEF TypeOK, Good, ChildIsThere, StartsAlone, LateStarts, UnderWay, NoServerIsForgotten,
         Alive, HandleExit, Stop, Finish, CallAfterFinish
<1> QED BY <1>1, <1>2, <1>3, <1>4, <1>5

\* A process whose pipes are closed is dead.
LEMMA HandleCloseKeeps == ASSUME IInv, NEW s \in Server, HandleClose(s) PROVE IInv'
<1> USE DEF IInv, callVars, serverVars, processVars
<1>1. TypeOK'
  BY DEF TypeOK, HandleClose, Finish, CallAfterFinish
<1>2. \A t \in Server : Good(t)'
  BY DEF Good, Fresh, DeadIsTold, ChildIsThere, ChildIsUntouched, EscalationIsDue,
         EscalationIsMeant, Alive, HandleClose, Finish, CallAfterFinish
<1>3. KeptServerIsUntouched'
  BY DEF KeptServerIsUntouched, HandleClose
<1>4. StopMeansIt'
  BY DEF Good, DeadIsTold, StopMeansIt, Alive, HandleClose, Finish
<1>5. ~Overlap => StartsAlone' /\ LateStarts' /\ NoServerIsForgotten'
  BY DEF StartsAlone, LateStarts, UnderWay, NoServerIsForgotten, Alive, HandleClose, Finish,
         CallAfterFinish
<1> QED BY <1>1, <1>2, <1>3, <1>4, <1>5

\* The escalation is of a process that was told to stop.
LEMMA EscalateKeeps == ASSUME IInv, NEW s \in Server, Escalate(s) PROVE IInv'
<1> USE DEF IInv, callVars, serverVars, processVars
<1>1. TypeOK'
  BY DEF TypeOK, Escalate
<1>2. \A t \in Server : Good(t)'
  BY DEF TypeOK, Good, Fresh, DeadIsTold, ChildIsThere, ChildIsUntouched,
         EscalationIsDue, EscalationIsMeant, Alive, Escalate
<1>3. KeptServerIsUntouched'
  BY DEF Good, EscalationIsMeant, KeptServerIsUntouched, Escalate
<1>4. StopMeansIt'
  BY DEF StopMeansIt, Alive, Escalate
<1>5. ~Overlap => StartsAlone' /\ LateStarts' /\ NoServerIsForgotten'
  BY DEF StartsAlone, LateStarts, UnderWay, NoServerIsForgotten, Alive, Escalate
<1> QED BY <1>1, <1>2, <1>3, <1>4, <1>5

\* A stop whose time is over has the escalation behind it.
LEMMA StopTimeoutKeeps == ASSUME IInv, NEW s \in Server, StopTimeout(s) PROVE IInv'
<1> USE DEF IInv, callVars, serverVars, processVars
<1>1. TypeOK'
  BY DEF TypeOK, StopTimeout, Finish, CallAfterFinish
<1>2. \A t \in Server : Good(t)'
  BY DEF Good, Fresh, DeadIsTold, ChildIsThere, ChildIsUntouched, EscalationIsDue,
         EscalationIsMeant, Alive, StopTimeout, Finish, CallAfterFinish
<1>3. KeptServerIsUntouched'
  BY DEF KeptServerIsUntouched, StopTimeout
<1>4. StopMeansIt'
  BY DEF Good, EscalationIsDue, StopMeansIt, Alive, StopTimeout, StopTimeoutIsDue,
         Finish
<1>5. ~Overlap => StartsAlone' /\ LateStarts' /\ NoServerIsForgotten'
  BY DEF StartsAlone, LateStarts, UnderWay, NoServerIsForgotten, Alive, StopTimeout, Finish,
         CallAfterFinish
<1> QED BY <1>1, <1>2, <1>3, <1>4, <1>5

\* A process that listens was alive before.
LEMMA ListensKeeps == ASSUME IInv, NEW s \in Server, Listens(s) PROVE IInv'
<1> USE DEF IInv, callVars, serverVars, processVars
<1>1. TypeOK'
  BY DEF TypeOK, Listens
<1>2. \A t \in Server : Good(t)'
  BY DEF Good, Fresh, DeadIsTold, ChildIsThere, ChildIsUntouched, EscalationIsDue,
         EscalationIsMeant, Alive, Listens
<1>3. KeptServerIsUntouched'
  BY DEF KeptServerIsUntouched, Listens
<1>4. StopMeansIt'
  BY DEF StopMeansIt, Alive, Listens
<1>5. ~Overlap => StartsAlone' /\ LateStarts' /\ NoServerIsForgotten'
  BY DEF StartsAlone, LateStarts, UnderWay, NoServerIsForgotten, Alive, Listens
<1> QED BY <1>1, <1>2, <1>3, <1>4, <1>5

\* A process that ends leaves less to show.
LEMMA EndsKeeps == ASSUME IInv, NEW s \in Server, Ends(s) PROVE IInv'
<1> USE DEF IInv, callVars, serverVars, processVars
<1>1. TypeOK'
  BY DEF TypeOK, Ends
<1>2. \A t \in Server : Good(t)'
  BY DEF TypeOK, Good, Fresh, DeadIsTold, ChildIsThere, ChildIsUntouched,
         EscalationIsDue, EscalationIsMeant, Alive, Ends
<1>3. KeptServerIsUntouched'
  BY DEF KeptServerIsUntouched, Ends
<1>4. StopMeansIt'
  BY DEF StopMeansIt, Alive, Ends
<1>5. ~Overlap => StartsAlone' /\ LateStarts' /\ NoServerIsForgotten'
  BY DEF StartsAlone, LateStarts, UnderWay, NoServerIsForgotten, Alive, Ends
<1> QED BY <1>1, <1>2, <1>3, <1>4, <1>5

\* Only the server that is kept is stopped, and it has its child.
LEMMA ForceShutdownKeeps == ASSUME IInv, ForceShutdown PROVE IInv'
<1> USE DEF IInv, callVars, serverVars, processVars
<1>1. TypeOK'
  BY DEF TypeOK, ForceShutdown, Stop
<1>2. \A t \in Server : Good(t)'
  BY DEF TypeOK, Good, Fresh, DeadIsTold, ChildIsThere, ChildIsUntouched,
         EscalationIsDue, EscalationIsMeant, Alive, ForceShutdown, Stop
<1>3. KeptServerIsUntouched'
  BY DEF KeptServerIsUntouched, ForceShutdown
<1>4. StopMeansIt'
  BY DEF TypeOK, StopMeansIt, Alive, ForceShutdown, Stop
<1>5. ~Overlap => StartsAlone' /\ LateStarts' /\ NoServerIsForgotten'
  BY DEF TypeOK, StartsAlone, LateStarts, UnderWay, NoServerIsForgotten, KeptServerIsUntouched,
         Alive, ForceShutdown, Stop, ExitCodeSet
<1> QED BY <1>1, <1>2, <1>3, <1>4, <1>5

\* The end of the extension stops the server that is kept.
LEMMA DisposeKeeps == ASSUME IInv, Dispose PROVE IInv'
<1> USE DEF IInv, callVars, serverVars, processVars
<1>1. TypeOK'
  BY DEF TypeOK, Dispose, Stop, UnderWay
<1>2. \A t \in Server : Good(t)'
  BY DEF TypeOK, Good, Fresh, DeadIsTold, ChildIsThere, ChildIsUntouched,
         EscalationIsDue, EscalationIsMeant, Alive, Dispose, Stop
<1>3. KeptServerIsUntouched'
  BY DEF KeptServerIsUntouched, Dispose
<1>4. StopMeansIt'
  BY DEF TypeOK, StopMeansIt, Alive, Dispose, Stop
<1>5. ASSUME ~Overlap PROVE StartsAlone' /\ LateStarts'
  BY <1>5 DEF TypeOK, StartsAlone, LateStarts, UnderWay, Dispose
<1>6. ASSUME ~Overlap PROVE NoServerIsForgotten'
  <2> SUFFICES ASSUME NEW s \in Server, Alive(s)', signal'[s] = "none"
               PROVE  s \in UnderWay
    BY DEF NoServerIsForgotten, Dispose
  <2>1. Alive(s) /\ signal[s] = "none" /\ ~disposed
    BY DEF TypeOK, Alive, Dispose, Stop
  <2>2. CASE call[s] = "starting"
    BY <2>2 DEF UnderWay
  <2>3. CASE localServer = s
    BY <2>1, <2>3, ServerAssumption
       DEF TypeOK, KeptServerIsUntouched, Alive, Dispose, Stop, ExitCodeSet
  <2> QED BY <1>6, <2>1, <2>2, <2>3 DEF NoServerIsForgotten
<1> QED BY <1>1, <1>2, <1>3, <1>4, <1>5, <1>6

-----------------------------------------------------------------------------
(* The theorems.                                                           *)

LEMMA IInvInit == Init => IInv
<1> SUFFICES ASSUME Init PROVE IInv
  OBVIOUS
<1>1. TypeOK
  BY DEF Init, TypeOK
<1>2. \A s \in Server : Good(s)
  BY DEF Init, Good, Fresh, DeadIsTold, ChildIsThere, ChildIsUntouched, EscalationIsDue,
         EscalationIsMeant, Alive
<1>3. KeptServerIsUntouched /\ StopMeansIt
  BY DEF Init, KeptServerIsUntouched, StopMeansIt
<1>4. StartsAlone /\ LateStarts /\ NoServerIsForgotten
  BY DEF Init, StartsAlone, LateStarts, UnderWay, NoServerIsForgotten, Alive
<1> QED BY <1>1, <1>2, <1>3, <1>4 DEF IInv

LEMMA IInvStep == IInv /\ [Next]_vars => IInv'
<1> SUFFICES ASSUME IInv, [Next]_vars PROVE IInv'
  OBVIOUS
<1>1. ASSUME NEW s \in Server, NodeStep(s) PROVE IInv'
  BY <1>1, StartupTimeoutKeeps, EscalateKeeps, StopTimeoutKeeps, ReadLineKeeps,
     HandleExitKeeps, HandleCloseKeeps DEF NodeStep
<1>2. ASSUME NEW s \in Server,
             StartCommand(s) \/ GivePort(s) \/ Listens(s) \/ Ends(s)
      PROVE  IInv'
  BY <1>2, StartCommandKeeps, GivePortKeeps, ListensKeeps, EndsKeeps
<1>3. CASE UNCHANGED vars
  BY <1>3 DEF vars, callVars, serverVars, processVars, IInv, TypeOK, Good, Fresh, DeadIsTold,
              ChildIsThere, ChildIsUntouched, EscalationIsDue, EscalationIsMeant, Alive,
              KeptServerIsUntouched, StopMeansIt, StartsAlone, LateStarts, UnderWay, NoServerIsForgotten
<1> QED BY <1>1, <1>2, <1>3, ForceShutdownKeeps, DisposeKeeps DEF Next

LEMMA IInvHolds == Spec => []IInv
  BY IInvInit, IInvStep, PTL DEF Spec

\* Calls, fields, timers and processes keep their types, and the server that is
\* kept is one whose start has succeeded.
THEOREM ServerTypeCorrect == Spec => []TypeOK
<1>1. IInv => TypeOK
  BY DEF IInv
<1> QED BY <1>1, IInvHolds, PTL

\* Neither the startup timeout nor the exit of a child stops the server that the
\* session manager keeps, also where start commands overlap.
THEOREM KeptServerStaysUntouched == Spec => []KeptServerIsUntouched
<1>1. IInv => KeptServerIsUntouched
  BY DEF IInv
<1> QED BY <1>1, IInvHolds, PTL

\* A stop() that has resolved leaves no process that may go on.
THEOREM StopsMeanIt == Spec => []StopMeansIt
<1>1. IInv => StopMeansIt
  BY DEF IInv
<1> QED BY <1>1, IInvHolds, PTL

\* While start commands do not overlap, every process that runs and was not told
\* to stop is the one that is kept or that is being started, and after the end of
\* the extension the one that was being started then.
THEOREM NoServerGetsLost == ASSUME ~Overlap PROVE Spec => []NoServerIsForgotten
<1>1. IInv => NoServerIsForgotten
  BY DEF IInv
<1> QED BY <1>1, IInvHolds, PTL
=============================================================================
