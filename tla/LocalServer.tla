----------------------------- MODULE LocalServer -----------------------------
(***************************************************************************)
(* The servers that the extension starts as child processes: the start     *)
(* commands, the shutdown and the end of the extension in SessionManager,  *)
(* and LocalRustServer.  Every start command that gets a port makes one    *)
(* LocalRustServer, which spawns one process; all three share a name here. *)
(* A process may end at any time, by its own exit or by a signal; what the *)
(* extension learns of it comes later, as events.                          *)
(***************************************************************************)
EXTENDS Naturals

CONSTANTS Server,    \* bound: the start commands of one extension host
          NoServer,
          Overlap    \* the user may start a server while a start is under way

ASSUME ServerAssumption == NoServer \notin Server /\ Overlap \in BOOLEAN

VARIABLES call,         \* startLocalRustServer, by its current await
          localServer,  \* localServer of the session manager
          child,        \* servers whose field child is set
          stopping,     \* servers with a stop() that has not resolved
          timers,       \* the timers of a server that are set
          process,      \* the process itself
          events,       \* what node has not yet told about it
          signal,       \* the last signal sent to it
          disposed,
          abandoned     \* history: the starts under way when the extension ended

callVars    == <<call, localServer, disposed, abandoned>>
serverVars  == <<child, stopping, timers>>
processVars == <<process, events, signal>>
vars        == <<callVars, serverVars, processVars>>

Alive(s)   == process[s] \in {"booting", "listening"}
UnderWay   == {s \in Server : call[s] \in {"asking", "starting", "failing"}}
MayStart   == ~disposed /\ (Overlap \/ UnderWay = {})

-----------------------------------------------------------------------------
(* LocalRustServer.                                                        *)

Stop_NoSignal(s, exited, rest) ==   \* mutant: only the field is cleared
  /\ child' = child \ {s}
  /\ timers' = [timers EXCEPT ![s] = rest]
  /\ UNCHANGED <<stopping, signal>>

Stop_KeepsChild(s, exited, rest) ==   \* mutant: the field is not cleared
  /\ child' = child
  /\ stopping' = stopping \cup {s}
  /\ timers' = [timers EXCEPT ![s] = rest \cup {"stop", "escalate"}]
  /\ signal' = [signal EXCEPT ![s] = IF Alive(s) THEN "TERM" ELSE @]

\* stop(), when exitCode is set (exited) or not; rest are the other timers.  A
\* signal that killed the process leaves no exitCode: such a stop waits.
Stop(s, exited, rest) ==
  /\ child' = child \ {s}
  /\ IF s \in child /\ ~exited
     THEN /\ stopping' = stopping \cup {s}
          /\ timers' = [timers EXCEPT ![s] = rest \cup {"stop", "escalate"}]
          /\ signal' = [signal EXCEPT ![s] = IF Alive(s) THEN "TERM" ELSE @]
     ELSE /\ timers' = [timers EXCEPT ![s] = rest]
          /\ UNCHANGED <<stopping, signal>>

ExitCodeSet(s) == process[s] = "exited" /\ "exit" \notin events[s]

\* The failed start that awaits the stop goes on.
CallAfterFinish(s) == [call EXCEPT ![s] = IF @ = "failing" THEN "done" ELSE @]

\* finish(): the first time, stop() resolves.  escalate goes on where finish was
\* registered before it was redefined; it finds a dead process.
Finish(s) ==
  /\ stopping' = stopping \ {s}
  /\ timers' = [timers EXCEPT ![s] = @ \ {"stop"}]
  /\ call' = CallAfterFinish(s)

TimersAfterSpawn_None == {}   \* mutant: no startup timeout

TimersAfterSpawn == {"startup"}

\* start() up to its promise: the process boots or cannot be spawned.
Spawn(s) ==
  /\ child' = child \cup {s}
  /\ timers' = [timers EXCEPT ![s] = TimersAfterSpawn]
  /\ \/ process' = [process EXCEPT ![s] = "booting"] /\ UNCHANGED events
     \/ /\ process' = [process EXCEPT ![s] = "exited"]
        /\ events' = [events EXCEPT ![s] = {"exit"}]
  /\ UNCHANGED <<stopping, signal>>

\* No listening line in time: stop() is called and not awaited, start() rejects,
\* and the stop() of its caller finds no child any more.
StartupTimeout(s) ==
  /\ "startup" \in timers[s]
  /\ call[s] = "starting"
  /\ Stop(s, ExitCodeSet(s), {})
  /\ call' = [call EXCEPT ![s] = "done"]
  /\ UNCHANGED <<localServer, disposed, abandoned, process, events>>

Unsettled_Always(s) == TRUE   \* mutant: a late line counts

Unsettled(s) == call[s] = "starting"

\* The listening line reaches onLine: start() resolves, unless it was settled
\* before, and startLocalRustServer keeps the server.
ReadLine(s) ==
  /\ "line" \in events[s]
  /\ events' = [events EXCEPT ![s] = @ \ {"line"}]
  /\ IF Unsettled(s)
     THEN /\ timers' = [timers EXCEPT ![s] = {}]
          /\ call' = [call EXCEPT ![s] = "done"]
          /\ localServer' = s
     ELSE UNCHANGED <<timers, call, localServer>>
  /\ UNCHANGED <<disposed, abandoned, child, stopping, process, signal>>

\* error or exit: a start() that waits rejects, and its caller awaits stop();
\* a stop() that waits resolves.
HandleExit(s) ==
  /\ "exit" \in events[s]
  /\ events' = [events EXCEPT ![s] = (@ \ {"exit"}) \cup {"close"}]
  /\ IF call[s] = "starting"
     THEN /\ Stop(s, process[s] = "exited", {})
          /\ call' = [call EXCEPT ![s] = IF process[s] = "exited" THEN "done" ELSE "failing"]
     ELSE Finish(s) /\ UNCHANGED <<child, signal>>
  /\ UNCHANGED <<localServer, disposed, abandoned, process>>

\* close comes when the pipes have been read as well.
HandleClose(s) ==
  /\ "close" \in events[s]
  /\ "line" \notin events[s]
  /\ events' = [events EXCEPT ![s] = @ \ {"close"}]
  /\ Finish(s)
  /\ UNCHANGED <<localServer, disposed, abandoned, child, process, signal>>

\* 1500 ms after the SIGTERM.
Escalate(s) ==
  /\ "escalate" \in timers[s]
  /\ timers' = [timers EXCEPT ![s] = @ \ {"escalate"}]
  /\ signal' = [signal EXCEPT ![s] = IF Alive(s) THEN "KILL" ELSE @]
  /\ UNCHANGED <<callVars, child, stopping, process, events>>

StopTimeoutIsDue_Early(s) == "stop" \in timers[s]   \* mutant: a shorter timeout

\* 2000 ms after the SIGTERM, so after escalate.
StopTimeoutIsDue(s) == "stop" \in timers[s] /\ "escalate" \notin timers[s]

StopTimeout(s) ==
  /\ StopTimeoutIsDue(s)
  /\ Finish(s)
  /\ UNCHANGED <<localServer, disposed, abandoned, child, processVars>>

-----------------------------------------------------------------------------
(* SessionManager.                                                         *)

\* startLocalRustServer up to the input box; with a server it only says so.
StartCommand(s) ==
  /\ MayStart
  /\ localServer = NoServer
  /\ call[s] = "unused"
  /\ call' = [call EXCEPT ![s] = "asking"]
  /\ UNCHANGED <<localServer, disposed, abandoned, serverVars, processVars>>

\* The input box: a port, or nothing.
GivePort(s) ==
  /\ call[s] = "asking"
  /\ \/ call' = [call EXCEPT ![s] = "starting"] /\ Spawn(s)
     \/ call' = [call EXCEPT ![s] = "done"] /\ UNCHANGED <<serverVars, processVars>>
  /\ UNCHANGED <<localServer, disposed, abandoned>>

\* forceShutdown, after leaveSession; a start that is under way goes on.
ForceShutdown ==
  /\ ~disposed
  /\ localServer # NoServer
  /\ localServer' = NoServer
  /\ Stop(localServer, ExitCodeSet(localServer), timers[localServer])
  /\ UNCHANGED <<call, disposed, abandoned, process, events>>

\* dispose, after leaveSession, when the extension is deactivated; nothing waits
\* for the stop, and a start that is under way is not stopped.
Dispose ==
  /\ ~disposed
  /\ disposed' = TRUE
  /\ abandoned' = UnderWay
  /\ IF localServer = NoServer
     THEN UNCHANGED <<serverVars, signal>>
     ELSE Stop(localServer, ExitCodeSet(localServer), timers[localServer])
  /\ UNCHANGED <<call, localServer, process, events>>

-----------------------------------------------------------------------------
(* The process.                                                            *)

Listens(s) ==
  /\ process[s] = "booting"
  /\ process' = [process EXCEPT ![s] = "listening"]
  /\ events' = [events EXCEPT ![s] = @ \cup {"line"}]
  /\ UNCHANGED <<callVars, serverVars, signal>>

Ends(s) ==
  /\ Alive(s)
  /\ \E how \in {"exited", "killed"} : process' = [process EXCEPT ![s] = how]
  /\ events' = [events EXCEPT ![s] = @ \cup {"exit"}]
  /\ UNCHANGED <<callVars, serverVars, signal>>

\* Nothing outlives a SIGKILL.
IsKilled(s) == signal[s] = "KILL" /\ Ends(s)

-----------------------------------------------------------------------------
Init ==
  /\ call        = [s \in Server |-> "unused"]
  /\ localServer = NoServer
  /\ child       = {}
  /\ stopping    = {}
  /\ timers      = [s \in Server |-> {}]
  /\ process     = [s \in Server |-> "none"]
  /\ events      = [s \in Server |-> {}]
  /\ signal      = [s \in Server |-> "none"]
  /\ disposed    = FALSE
  /\ abandoned   = {}

\* What node does by itself: timers fire, events are handled.
NodeStep(s) == \/ StartupTimeout(s) \/ Escalate(s) \/ StopTimeout(s)
               \/ ReadLine(s) \/ HandleExit(s) \/ HandleClose(s)

Next ==
  \/ \E s \in Server : \/ StartCommand(s) \/ GivePort(s)
                       \/ Listens(s) \/ Ends(s)
                       \/ NodeStep(s)
  \/ ForceShutdown
  \/ Dispose

Spec == Init /\ [][Next]_vars

\* Node's steps are fair while the extension is there: deactivate does not keep
\* the host alive, which may end at any time after Dispose.
FairSpec == Spec /\ \A s \in Server : WF_vars(~disposed /\ NodeStep(s)) /\ WF_vars(IsKilled(s))

-----------------------------------------------------------------------------
(* Properties.                                                             *)

\* Calls, fields, timers and processes have the types of the code, and the
\* server that is kept is one whose start has succeeded.
TypeOK ==
  /\ call \in [Server -> {"unused", "asking", "starting", "failing", "done"}]
  /\ localServer \in Server \cup {NoServer}
  /\ localServer # NoServer => call[localServer] = "done"
  /\ child \subseteq Server
  /\ stopping \subseteq Server \ child
  /\ timers \in [Server -> SUBSET {"startup", "stop", "escalate"}]
  /\ process \in [Server -> {"none", "booting", "listening", "exited", "killed"}]
  /\ events \in [Server -> SUBSET {"line", "exit", "close"}]
  /\ signal \in [Server -> {"none", "TERM", "KILL"}]
  /\ disposed \in BOOLEAN
  /\ abandoned \subseteq Server

\* A process that runs and was not told to stop is the server the extension
\* keeps, or one being started: no failed start, timeout, exit or shutdown leaves
\* one behind that nobody can stop any more; and the end of the extension leaves
\* none but that of a start under way.
NoServerIsForgotten ==
  \A s \in Server : Alive(s) /\ signal[s] = "none" =>
    IF disposed THEN s \in abandoned ELSE (localServer = s \/ call[s] = "starting")

\* The server that is kept is not one whose start has timed out or failed before
\* its listening line came: it can be stopped and nothing has stopped it.
KeptServerIsUntouched ==
  localServer # NoServer /\ ~disposed =>
    signal[localServer] = "none" /\ localServer \in child

\* When stop() has resolved, the process has ended or was sent the signal that
\* it cannot ignore: the timeout of stop() never precedes the escalation.
StopMeansIt ==
  \A s \in Server : signal[s] # "none" /\ s \notin stopping => ~Alive(s) \/ signal[s] = "KILL"

\* While the extension is there, every start that was given a port ends, with a
\* server or an error, though its process may say nothing, die, or not exist; and
\* every stop ends, and with it the process, though it may ignore SIGTERM or be
\* dead already.
StartsAndStopsEnd ==
  \A s \in Server :
    /\ call[s] \in {"starting", "failing"} ~> (disposed \/ call[s] = "done")
    /\ (signal[s] # "none" \/ s \in stopping) ~> (disposed \/ (~Alive(s) /\ s \notin stopping))
=============================================================================
