------------------------------- MODULE Daemon -------------------------------
(***************************************************************************)
(* integration/example: the agent from main to its exit.  The daemon reads *)
(* its configuration, sets up logging and usage metrics, reports STARTED,  *)
(* starts its services under Recovery, reports RUNNING from time to time,  *)
(* and on a signal cancels the services, reports STOPPED and returns.      *)
(*                                                                         *)
(* Usage metrics are the standard logger of integration/common: nothing is *)
(* reported before SetProperties, and each service holds a copy of the     *)
(* logger as it was when the service was started.  A report is a request   *)
(* to the compute API.  Nobody reads the answer, so the model counts the   *)
(* requests; but who reports waits for it, and the HTTP client has no      *)
(* timeout.                                                                *)
(*                                                                         *)
(* The client of Cloud Logging buffers lines until it sends them by        *)
(* itself, or is closed.  The model keeps the lines of the main goroutine. *)
(* Services may log until the process ends, after the client was closed    *)
(* too, and nothing promises that those lines are sent.                    *)
(***************************************************************************)
EXTENDS Recovery

CONSTANT MaxReports  \* bound on the reports of each status that are counted

Statuses == {"STARTED", "RUNNING", "ERROR", "STOPPED"}

ASSUME DaemonAssumption == MaxReports \in [Statuses -> Nat \ {0}]

Clients == {"none", "main", "config"}

\* Where the main goroutine is: with the signals of the process not asked for yet, after
\* that, and at the end.
Early == {"main", "reading", "configured", "reportingStarted", "started"}
Shutdown == {"stopping", "reportingStopped", "stopped", "closing", "closed"}
Places == Early \cup {"starting", "serving"} \cup Shutdown \cup {"exited", "crashed", "killed"}

VARIABLES
  at,          \* where the main goroutine is
  zone,        \* whether the metadata server told the zone of the VM
  client,      \* lp.CloudLoggingClient
  logsToCloud, \* whether log.Logger writes to that client
  unsent,      \* clients with lines of the main goroutine in their buffer
  agentProps,  \* whether SetProperties was called
  copied,      \* of each service: whether its copy of the logger has properties
  signalled,   \* a signal is in shutdownch
  cancelled,   \* the context of the services is done
  daily,       \* LogRunningDaily runs
  reports,     \* requests made for each status
  unreported   \* the services that panicked without a request for that panic so far

daemonVars == <<at, zone, client, logsToCloud, unsent, agentProps, copied,
                signalled, cancelled, daily, reports, unreported>>
logVars == <<client, logsToCloud, unsent>>
usageVars == <<agentProps, copied, daily, reports, unreported>>
vars == <<recoveryVars, daemonVars>>

Init ==
  /\ RecoveryInit
  /\ at = "main"
  /\ zone \in BOOLEAN
  /\ client \in {"none", "main"}
  /\ logsToCloud = FALSE
  /\ unsent = {}
  /\ agentProps = FALSE
  /\ copied = [r \in Routines |-> FALSE]
  /\ signalled = FALSE
  /\ cancelled = FALSE
  /\ daily = FALSE
  /\ reports = [s \in Statuses |-> 0]
  /\ unreported = {}

Alive == at \notin {"exited", "crashed", "killed"}

-----------------------------------------------------------------------------
(* Logging and usage metrics *)

\* What is unsent after a line was logged.
Logged == IF logsToCloud THEN unsent \cup {client} ELSE unsent

\* The request of LogStatus is made.
Counted(s) == [reports EXCEPT ![s] = Least(@ + 1, MaxReports[s])]

\* LogStatus: without properties it is silent, without a zone there is no request.
Report(s) == IF agentProps /\ zone THEN Counted(s) ELSE reports

-----------------------------------------------------------------------------
(* The main goroutine *)

\* main and Execute: logging as main has set it up.
Execute ==
  /\ at = "main"
  /\ at' = "reading"
  /\ logsToCloud' = (client # "none")
  /\ UNCHANGED <<recoveryVars, zone, client, unsent, usageVars, signalled, cancelled>>

\* Read fails: the error is logged, and reported to a logger that is silent so far.
\* Execute drops the error, and main exits with 0.
ReadFails ==
  /\ at = "reading"
  /\ at' = "exited"
  /\ unsent' = Logged
  /\ UNCHANGED <<recoveryVars, zone, client, logsToCloud, usageVars, signalled, cancelled>>

\* An empty file reads as no configuration and no error: the type assertion panics.
ReadEmpty ==
  /\ at = "reading"
  /\ at' = "crashed"
  /\ unsent' = Logged
  /\ UNCHANGED <<recoveryVars, zone, client, logsToCloud, usageVars, signalled, cancelled>>

\* The client of the project that the configuration names, or none if a ping fails.
\* Without a project it stays the one of main.
ConfiguredClients(ownProject) == IF ownProject THEN {"none", "config"} ELSE {client}

\* Logging as configured.
SetupLogging ==
  /\ at = "reading"
  /\ at' = "configured"
  /\ \E ownProject, toCloud \in BOOLEAN : \E c \in ConfiguredClients(ownProject) :
       /\ client' = c
       /\ logsToCloud' = (toCloud /\ c # "none")
  /\ unsent' = Logged
  /\ UNCHANGED <<recoveryVars, zone, usageVars, signalled, cancelled>>

\* Slip: STARTED is reported before there are properties.
StartedFirst ==
  /\ at = "configured"
  /\ at' = "started"
  /\ agentProps' = TRUE
  /\ reports' = Report("STARTED")
  /\ UNCHANGED <<recoveryVars, zone, logVars, copied, daily, unreported, signalled, cancelled>>

\* SetProperties, then Started makes its request.
Started ==
  /\ at = "configured"
  /\ at' = IF zone THEN "reportingStarted" ELSE "started"
  /\ agentProps' = TRUE
  /\ reports' = IF zone THEN Counted("STARTED") ELSE reports
  /\ unsent' = Logged
  /\ UNCHANGED <<recoveryVars, zone, client, logsToCloud, copied, daily, unreported,
                 signalled, cancelled>>

StartedAnswered ==
  /\ at = "reportingStarted"
  /\ at' = "started"
  /\ unsent' = Logged
  /\ UNCHANGED <<recoveryVars, zone, client, logsToCloud, usageVars, signalled, cancelled>>

\* From here on a signal does not end the process.
Notify ==
  /\ at = "started"
  /\ at' = "starting"
  /\ UNCHANGED <<recoveryVars, zone, logVars, usageVars, signalled, cancelled>>

\* Slip: the copy is older than SetProperties.
StartServiceOldLogger(r) ==
  /\ at = "starting"
  /\ StartRoutine(r)
  /\ unsent' = Logged
  /\ UNCHANGED <<at, zone, client, logsToCloud, usageVars, signalled, cancelled>>

StartService(r) ==
  /\ at = "starting"
  /\ StartRoutine(r)
  /\ copied' = [copied EXCEPT ![r] = agentProps]
  /\ unsent' = Logged
  /\ UNCHANGED <<at, zone, client, logsToCloud, agentProps, daily, reports, unreported,
                 signalled, cancelled>>

Serve ==
  /\ at = "starting"
  /\ \A r \in Routines : phase[r] # "idle"
  /\ at' = "serving"
  /\ daily' = TRUE
  /\ UNCHANGED <<recoveryVars, zone, logVars, agentProps, copied, reports, unreported,
                 signalled, cancelled>>

\* Slip: the services are not cancelled.
SeeSignalOnly ==
  /\ at = "serving"
  /\ signalled
  /\ at' = "stopping"
  /\ unsent' = Logged
  /\ UNCHANGED <<recoveryVars, zone, client, logsToCloud, usageVars, signalled, cancelled>>

SeeSignal ==
  /\ at = "serving"
  /\ signalled
  /\ at' = "stopping"
  /\ cancelled' = TRUE
  /\ unsent' = Logged
  /\ UNCHANGED <<recoveryVars, zone, client, logsToCloud, usageVars, signalled>>

Stopped ==
  /\ at = "stopping"
  /\ at' = IF agentProps /\ zone THEN "reportingStopped" ELSE "stopped"
  /\ reports' = Report("STOPPED")
  /\ unsent' = Logged
  /\ UNCHANGED <<recoveryVars, zone, client, logsToCloud, agentProps, copied, daily, unreported,
                 signalled, cancelled>>

\* A request that fails is logged.
StoppedAnswered ==
  /\ at = "reportingStopped"
  /\ at' = "stopped"
  /\ unsent' \in {unsent, Logged}
  /\ UNCHANGED <<recoveryVars, zone, client, logsToCloud, usageVars, signalled, cancelled>>

\* After its sleep the daemon logs a last line, and closes its client if there is one.
LogLastLine ==
  /\ at = "stopped"
  /\ at' = IF client = "none" THEN "closed" ELSE "closing"
  /\ unsent' = Logged
  /\ UNCHANGED <<recoveryVars, zone, client, logsToCloud, usageVars, signalled, cancelled>>

\* Slip: the client to close is looked up before the configuration is applied.
ClosedMain ==
  /\ at = "closing"
  /\ at' = "closed"
  /\ unsent' = unsent \ {"main"}
  /\ UNCHANGED <<recoveryVars, zone, client, logsToCloud, usageVars, signalled, cancelled>>

\* Close has waited for the requests that empty the buffer.
Closed ==
  /\ at = "closing"
  /\ at' = "closed"
  /\ unsent' = unsent \ {client}
  /\ UNCHANGED <<recoveryVars, zone, client, logsToCloud, usageVars, signalled, cancelled>>

\* The flush that main defers never runs, for os.Exit runs no deferred calls.
Exit ==
  /\ at = "closed"
  /\ at' = "exited"
  /\ UNCHANGED <<recoveryVars, zone, logVars, usageVars, signalled, cancelled>>

\* The steps of the main goroutine for which it waits for nobody, and those for which it
\* waits for the network: the ping of a client, two reports and a flush.
Alone ==
  \/ Execute \/ ReadFails \/ ReadEmpty \/ Started \/ Notify
  \/ \E r \in Routines : StartService(r)
  \/ Serve \/ SeeSignal \/ Stopped \/ LogLastLine \/ Exit

Answered == SetupLogging \/ StartedAnswered \/ StoppedAnswered \/ Closed

-----------------------------------------------------------------------------
(* The services and LogRunningDaily *)

ServicePanics(r) ==
  /\ Alive
  /\ Panic(r)
  /\ unreported' = unreported \cup {r}
  /\ UNCHANGED <<at, zone, logVars, agentProps, copied, daily, reports, signalled, cancelled>>

\* The deferred function of the recovery library makes the request with the routine's own
\* copy of the logger.
ServiceReports(r) ==
  /\ Alive
  /\ ReportPanic(r)
  /\ IF copied[r] /\ zone
       THEN /\ reports' = Counted("ERROR")
            /\ unreported' = unreported \ {r}
       ELSE UNCHANGED <<reports, unreported>>
  /\ UNCHANGED <<at, zone, logVars, agentProps, copied, daily, signalled, cancelled>>

\* Its request was answered.
ServiceWaits(r, w) ==
  /\ Alive
  /\ AskPolicy(r, w)
  /\ UNCHANGED daemonVars

ServiceReturns(r) ==
  /\ Alive
  /\ cancelled
  /\ Return(r)
  /\ UNCHANGED daemonVars

ServiceRestarts(r) ==
  /\ Alive
  /\ Restart(r)
  /\ UNCHANGED daemonVars

ReportRunning ==
  /\ Alive
  /\ daily
  /\ reports' = Report("RUNNING")
  /\ UNCHANGED <<recoveryVars, at, zone, logVars, agentProps, copied, daily, unreported,
                 signalled, cancelled>>

-----------------------------------------------------------------------------
(* The environment *)

\* Before Notify a signal ends the process.
Signal ==
  /\ Alive
  /\ ~signalled
  /\ IF at \in Early
       THEN at' = "killed" /\ UNCHANGED signalled
       ELSE signalled' = TRUE /\ UNCHANGED at
  /\ UNCHANGED <<recoveryVars, zone, logVars, usageVars, cancelled>>

\* The client sends its buffer by itself.
SendBuffer ==
  /\ Alive
  /\ \E c \in unsent : unsent' = unsent \ {c}
  /\ UNCHANGED <<recoveryVars, at, zone, client, logsToCloud, usageVars,
                 signalled, cancelled>>

Time == Alive /\ Tick /\ UNCHANGED daemonVars

Gone == ~Alive /\ UNCHANGED vars

Next ==
  \/ Alone
  \/ Answered
  \/ \E r \in Routines :
       \/ ServicePanics(r)
       \/ ServiceReports(r)
       \/ \E w \in 1 .. 2 * MaxInterval : ServiceWaits(r, w)
       \/ ServiceReturns(r)
       \/ ServiceRestarts(r)
  \/ ReportRunning
  \/ Signal
  \/ SendBuffer
  \/ Time
  \/ Gone

Spec == Init /\ [][Next]_vars

\* The main goroutine goes on where it waits for nobody.  Nothing is asked of the services
\* or of time, and no request has to be answered.
FairSpec == Spec /\ WF_vars(Alone)

-----------------------------------------------------------------------------
(* Properties *)

TypeOK ==
  /\ RecoveryTypeOK
  /\ at \in Places
  /\ client \in Clients
  /\ unsent \subseteq Clients \ {"none"}
  /\ agentProps \in BOOLEAN
  /\ copied \in [Routines -> BOOLEAN]
  /\ reports \in [Statuses -> Nat]
  /\ \A s \in Statuses : reports[s] <= MaxReports[s]
  /\ unreported \subseteq Routines

\* Every panic of a service is reported before the service goes on in any way, although each
\* service reports through a copy of the logger that later changes of its properties do not
\* reach.  Only a process that ends in between takes one panic of each service with it.
PanicsAreReported == zone => unreported = {r \in Routines : phase[r] = "panicked"}

\* STARTED comes before everything else that is reported, with the services, the daily
\* log and the shutdown running side by side; STOPPED is reported once at most.
StartedComesFirst ==
  /\ (\E s \in Statuses : reports[s] > 0) => reports["STARTED"] = 1
  /\ reports["STOPPED"] <= 1

\* An agent that was shut down leaves no line of its main goroutine in the buffer of the
\* client that it logs to, the last line and the complaint about a failed report included.
\* A configuration that names its own project replaces that client on the way.
ShutdownIsLogged == at = "exited" /\ cancelled => client \notin unsent

\* The requests that the shutdown waits for are answered, or fail.
NetworkAnswers == []<>(at \notin {"reportingStopped", "closing"})

\* A signal that the daemon has asked for cancels its services, whatever the network does.
\* It ends the agent, whatever the services do, with STOPPED reported if anything is, as
\* long as the requests of the shutdown itself come back.
SignalEndsDaemon ==
  /\ signalled ~> cancelled
  /\ NetworkAnswers => (signalled ~> at = "exited" /\ (zone => reports["STOPPED"] = 1))
=============================================================================
