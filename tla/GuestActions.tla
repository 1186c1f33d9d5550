---------------------------- MODULE GuestActions ----------------------------
(***************************************************************************)
(* sharedlibraries/guestactions: the dispatcher for commands that a GCP    *)
(* service sends over the Agent Communication Service (ACS).               *)
(*                                                                         *)
(* One listener goroutine (Start, communication.Listen, connectionHandler) *)
(* receives requests, takes the time-limited locks a request asks for,     *)
(* reports "running" for a long-running operation (LRO), and hands the     *)
(* request to a goroutine of its own (executeAndSendDone), which runs the  *)
(* commands, reports "done" and releases the locks.  Any send may fail,    *)
(* and the clock may pass the expiry of a lock whose holder is still busy. *)
(*                                                                         *)
(* An operation is one delivered request.  A request is a sequence of      *)
(* commands [kind, key, timeout]; `kind' is "shell", "agent" (a handler in *)
(* Options.Handlers), "lro" (a handler in Options.LROHandlers) or          *)
(* "unknown"; `key' and `timeout' are what Options.CommandConcurrencyKey   *)
(* returns for the command, key = NoKey standing for ok = false.           *)
(***************************************************************************)
EXTENDS Integers, Sequences, FiniteSetsExt

CONSTANTS
  Ops,                 \* deliveries the service may make
  Keys,                \* resource keys
  NoKey,               \* CommandConcurrencyKey returned ok = false
  Requests,            \* the requests the service may send
  MaxDuration,         \* the longest time.Duration
  DefaultLockTimeout,  \* defaultLockTimeout
  MaxTime,             \* bound on the clock
  MaxRestarts          \* bound on the restarts of Start after a panic

Command == [kind : {"shell", "agent", "lro", "unknown"},
            key : Keys \cup {NoKey}, timeout : -MaxDuration .. MaxDuration]

ASSUME ConstantsAssumption ==
  /\ NoKey \notin Keys
  /\ Requests \subseteq Seq(Command)
  /\ MaxDuration \in Nat
  /\ DefaultLockTimeout \in 1 .. MaxDuration
  /\ MaxTime \in Nat
  /\ MaxRestarts \in Nat

VARIABLES
  now,        \* time.Now(), shared by every goroutine
  listener,   \* where the goroutine that runs Start is
  cancelled,  \* ctx.Done() is closed
  epoch,      \* which locker Start installed last: 0 before the first call
  locks,      \* g.locker.locks: key -> expiry, 0 where the map has no entry
  lapsed,     \* keys re-acquired after expiry since this locker was installed
  phase,      \* where each operation is
  request,    \* the request each operation carries
  lease,      \* keysToRelease of each operation, each key with its expiry
  era,        \* the locker each operation took its locks from
  ran,        \* commands each operation has finished
  outcome,    \* statusMsg of executeAndSendDone
  reports     \* status messages ACS accepted for each operation, in order

opVars == <<phase, request, lease, era, ran, outcome, reports>>
lockVars == <<locks, lapsed>>
vars == <<now, listener, cancelled, epoch, locks, lapsed, phase, request,
          lease, era, ran, outcome, reports>>

ListenerStates ==
  {"starting", "checking", "receiving", "replying", "stopped"}
Phases ==
  {"unseen", "refused", "locked", "executing", "reporting", "releasing", "closed"}
Statuses == {"running", "succeeded", "failed"}

\* Phases in which an operation was granted its locks and has not released them.
Holding == {"locked", "executing", "reporting", "releasing"}

-----------------------------------------------------------------------------
(* Requests *)

\* Slip: a timeout that is not positive is taken as it is.
TimeoutAsGiven(c) == c.timeout

LockTimeout(c) == IF c.timeout <= 0 THEN DefaultLockTimeout ELSE c.timeout

KeysOf(req) == {req[i].key : i \in DOMAIN req} \ {NoKey}

\* Slip: the default timeout never comes in.
TimeoutsWithoutDefault(req, k) == {req[i].timeout : i \in {j \in DOMAIN req : req[j].key = k}}

TimeoutsFor(req, k) ==
  {LockTimeout(req[i]) : i \in {j \in DOMAIN req : req[j].key = k}}

LongestTimeout(req, k) == Max(TimeoutsFor(req, k))

IsLRORequest(req) == \E i \in DOMAIN req : req[i].kind = "lro"

\* handleAgentCommand and processCommands fail a command that has no handler.
MayReturn(c, ok) == c.kind = "unknown" => ~ok

-----------------------------------------------------------------------------
(* The lock table *)

Leases(req) ==
  [k \in Keys |-> IF k \in KeysOf(req) THEN now + LongestTimeout(req, k) ELSE 0]

\* Slip: a request is refused only when every key it asks for is taken.
EveryKeyBusy(req) == KeysOf(req) # {} /\ \A k \in KeysOf(req) : now < locks[k]

Busy(req) == \E k \in KeysOf(req) : now < locks[k]

Acquire(req) ==
  /\ locks' = [k \in Keys |-> IF k \in KeysOf(req) THEN Leases(req)[k] ELSE locks[k]]
  /\ lapsed' = lapsed \cup {k \in KeysOf(req) : locks[k] # 0 /\ locks[k] <= now}

\* Slip: the keys are deleted from whatever locker Start installed last.
ReleaseIntoTheNewLocker(o) ==
  /\ locks' = [k \in Keys |-> IF lease[o][k] # 0 THEN 0 ELSE locks[k]]
  /\ lease' = [lease EXCEPT ![o] = [k \in Keys |-> 0]]
  /\ UNCHANGED lapsed

\* Slip: only one of the keys is deleted.
ReleaseOneKey(o) ==
  /\ \E k \in Keys : locks' = [locks EXCEPT ![k] = IF era[o] = epoch /\ lease[o][k] # 0
                                                      THEN 0 ELSE @]
  /\ lease' = [lease EXCEPT ![o] = [k \in Keys |-> 0]]
  /\ UNCHANGED lapsed

\* locker.release deletes by key, whoever holds the entry by now.  An operation
\* that outlived a restart of Start releases into its own, abandoned locker.
Release(o) ==
  /\ locks' = [k \in Keys |-> IF era[o] = epoch /\ lease[o][k] # 0
                                THEN 0 ELSE locks[k]]
  /\ lease' = [lease EXCEPT ![o] = [k \in Keys |-> 0]]
  /\ UNCHANGED lapsed

-----------------------------------------------------------------------------
Init ==
  /\ now = 0
  /\ listener = "starting"
  /\ cancelled = FALSE
  /\ epoch = 0
  /\ locks = [k \in Keys |-> 0]
  /\ lapsed = {}
  /\ phase = [o \in Ops |-> "unseen"]
  /\ request = [o \in Ops |-> <<>>]
  /\ lease = [o \in Ops |-> [k \in Keys |-> 0]]
  /\ era = [o \in Ops |-> 0]
  /\ ran = [o \in Ops |-> 0]
  /\ outcome = [o \in Ops |-> "succeeded"]
  /\ reports = [o \in Ops |-> <<>>]

-----------------------------------------------------------------------------
(* The listener goroutine *)

\* Start installs a fresh locker, then connects to ACS.
StartListening ==
  /\ listener = "starting"
  /\ epoch' = epoch + 1
  /\ locks' = [k \in Keys |-> 0]
  /\ lapsed' = {}
  /\ listener' \in {"checking", "stopped"}
  /\ UNCHANGED <<now, cancelled, opVars>>

\* The select at the top of the loop of Listen.
CheckContext ==
  /\ listener = "checking"
  /\ listener' = IF cancelled THEN "stopped" ELSE "receiving"
  /\ UNCHANGED <<now, cancelled, epoch, lockVars, opVars>>

\* receive returns an error, or the message has no labels, no operation_id or
\* a body that does not parse: Listen returns, and Start with it.
ReceiveUnusable ==
  /\ listener = "receiving"
  /\ listener' = "stopped"
  /\ UNCHANGED <<now, cancelled, epoch, lockVars, opVars>>

\* CommandConcurrencyKey panics in the listener goroutine: the routine that runs
\* Start is recovered by recovery.StartRoutine and Start is called again.
Panic ==
  /\ listener = "receiving"
  /\ epoch <= MaxRestarts
  /\ listener' = "starting"
  /\ UNCHANGED <<now, cancelled, epoch, lockVars, opVars>>

Refuse(o, req) ==
  /\ listener = "receiving"
  /\ phase[o] = "unseen"
  /\ Busy(req)
  /\ request' = [request EXCEPT ![o] = req]
  /\ phase' = [phase EXCEPT ![o] = "refused"]
  /\ listener' = "replying"
  /\ UNCHANGED <<now, cancelled, epoch, lockVars, lease, era, ran, outcome, reports>>

\* Hand the request to executeAndSendDone: with no command left it goes on to
\* report at once.  The goroutine notes g.locker in its first statement; it gets
\* there before Start can be called again, which takes a backoff of half a second.
Launch(o, req) ==
  /\ phase' = [phase EXCEPT ![o] = IF req = <<>> THEN "reporting" ELSE "executing"]
  /\ listener' = "checking"

Admit(o, req) ==
  /\ listener = "receiving"
  /\ phase[o] = "unseen"
  /\ ~Busy(req)
  /\ Acquire(req)
  /\ request' = [request EXCEPT ![o] = req]
  /\ lease' = [lease EXCEPT ![o] = Leases(req)]
  /\ era' = [era EXCEPT ![o] = epoch]
  /\ IF IsLRORequest(req)
       THEN /\ phase' = [phase EXCEPT ![o] = "locked"]
            /\ listener' = "replying"
       ELSE Launch(o, req)
  /\ UNCHANGED <<now, cancelled, epoch, ran, outcome, reports>>

ReportRefusal(o, delivered) ==
  /\ listener = "replying"
  /\ phase[o] = "refused"
  /\ phase' = [phase EXCEPT ![o] = "closed"]
  /\ IF delivered
       THEN /\ reports' = [reports EXCEPT ![o] = Append(@, "failed")]
            /\ listener' = "checking"
       ELSE /\ listener' = "stopped"
            /\ UNCHANGED reports
  /\ UNCHANGED <<now, cancelled, epoch, lockVars, request, lease, era, ran, outcome>>

\* Slip: the request runs although the service was not told.
ReportRunningRegardless(o, delivered) ==
  /\ listener = "replying"
  /\ phase[o] = "locked"
  /\ reports' = IF delivered THEN [reports EXCEPT ![o] = Append(@, "running")] ELSE reports
  /\ Launch(o, request[o])
  /\ UNCHANGED <<now, cancelled, epoch, lockVars, request, lease, era, ran, outcome>>

\* Slip: when the send fails the listener stops and leaves the operation as it is.
ReportRunningGivesUp(o, delivered) ==
  /\ listener = "replying"
  /\ phase[o] = "locked"
  /\ IF delivered
       THEN /\ reports' = [reports EXCEPT ![o] = Append(@, "running")]
            /\ Launch(o, request[o])
       ELSE listener' = "stopped" /\ UNCHANGED <<phase, reports>>
  /\ UNCHANGED <<now, cancelled, epoch, lockVars, request, lease, era, ran, outcome>>

ReportRunning(o, delivered) ==
  /\ listener = "replying"
  /\ phase[o] = "locked"
  /\ IF delivered
       THEN /\ reports' = [reports EXCEPT ![o] = Append(@, "running")]
            /\ Launch(o, request[o])
            /\ UNCHANGED <<lockVars, lease>>
       ELSE /\ Release(o)
            /\ phase' = [phase EXCEPT ![o] = "closed"]
            /\ listener' = "stopped"
            /\ UNCHANGED reports
  /\ UNCHANGED <<now, cancelled, epoch, request, era, ran, outcome>>

-----------------------------------------------------------------------------
(* The goroutine of one operation *)

\* processCommands runs one command; it stops at the first that fails.
RunCommand(o, ok) ==
  /\ phase[o] = "executing"
  /\ MayReturn(request[o][ran[o] + 1], ok)
  /\ ran' = [ran EXCEPT ![o] = @ + 1]
  /\ outcome' = [outcome EXCEPT ![o] = IF ok THEN "succeeded" ELSE "failed"]
  /\ phase' = [phase EXCEPT ![o] = IF ok /\ ran[o] + 1 < Len(request[o])
                                     THEN "executing" ELSE "reporting"]
  /\ UNCHANGED <<now, listener, cancelled, epoch, lockVars, request, lease, era, reports>>

\* A send that fails is logged and forgotten.
SendDone(o, delivered) ==
  /\ phase[o] = "reporting"
  /\ phase' = [phase EXCEPT ![o] = "releasing"]
  /\ reports' = IF delivered THEN [reports EXCEPT ![o] = Append(@, outcome[o])]
                             ELSE reports
  /\ UNCHANGED <<now, listener, cancelled, epoch, lockVars, request, lease, era, ran,
                 outcome>>

\* The deferred release of executeAndSendDone.
ReleaseLocks(o) ==
  /\ phase[o] = "releasing"
  /\ Release(o)
  /\ phase' = [phase EXCEPT ![o] = "closed"]
  /\ UNCHANGED <<now, listener, cancelled, epoch, request, era, ran, outcome, reports>>

-----------------------------------------------------------------------------
(* The environment *)

Tick ==
  /\ now < MaxTime
  /\ now' = now + 1
  /\ UNCHANGED <<listener, cancelled, epoch, lockVars, opVars>>

Cancel ==
  /\ ~cancelled
  /\ cancelled' = TRUE
  /\ UNCHANGED <<now, listener, epoch, lockVars, opVars>>

Listening ==
  \/ StartListening
  \/ CheckContext
  \/ ReceiveUnusable
  \/ Panic
  \/ \E o \in Ops, req \in Requests : Refuse(o, req) \/ Admit(o, req)
  \/ \E o \in Ops, delivered \in BOOLEAN :
       ReportRefusal(o, delivered) \/ ReportRunning(o, delivered)

Executing(o) ==
  \/ \E ok \in BOOLEAN : RunCommand(o, ok)
  \/ \E delivered \in BOOLEAN : SendDone(o, delivered)
  \/ ReleaseLocks(o)

Next ==
  \/ Listening
  \/ \E o \in Ops : Executing(o)
  \/ Tick
  \/ Cancel

Spec == Init /\ [][Next]_vars

\* Goroutines are scheduled, handlers return and sends end, one way or the
\* other.  Nothing obliges the service to send anything, nor the clock to move.
Replying == \E o \in Ops, delivered \in BOOLEAN :
              ReportRefusal(o, delivered) \/ ReportRunning(o, delivered)
FairSpec ==
  /\ Spec
  /\ WF_vars(Replying)
  /\ \A o \in Ops : WF_vars(Executing(o))

-----------------------------------------------------------------------------
(* Properties *)

TypeOK ==
  /\ now \in Nat
  /\ listener \in ListenerStates
  /\ cancelled \in BOOLEAN
  /\ epoch \in Nat
  /\ locks \in [Keys -> Nat]
  /\ lapsed \subseteq Keys
  /\ phase \in [Ops -> Phases]
  /\ request \in [Ops -> Seq(Command)]
  /\ lease \in [Ops -> [Keys -> Nat]]
  /\ era \in [Ops -> Nat]
  /\ ran \in [Ops -> Nat]
  /\ outcome \in [Ops -> {"succeeded", "failed"}]
  /\ reports \in [Ops -> Seq(Statuses)]

\* Operation o took key k from the locker in use and has not released it.
Holds(o, k) ==
  /\ phase[o] \in Holding
  /\ era[o] = epoch
  /\ lease[o][k] # 0

\* Every entry of the lock table belongs to an operation that will still release
\* it: no path of connectionHandler or executeAndSendDone leaks a lock, the
\* failed send of "running" included.
NoLeakedLock ==
  \A k \in Keys : locks[k] # 0 =>
    \E o \in Ops : Holds(o, k) /\ lease[o][k] = locks[k]

\* As long as no lock on a key was taken over after it expired, one operation at
\* most holds the key, and what it holds is the entry in the table (acquire is
\* all-or-nothing, release frees nothing that belongs to another).
MutualExclusion ==
  \A k \in Keys \ lapsed : \A a, b \in Ops :
    Holds(a, k) /\ Holds(b, k) => a = b

\* Two operations never both run under a lock on the same key that neither has
\* outlived (Options.CommandConcurrencyKey: "to prevent concurrent operations on
\* the same resource").
UnexpiredLocksExclude ==
  \A k \in Keys : \A a, b \in Ops :
    Holds(a, k) /\ Holds(b, k) /\ now < lease[a][k] /\ now < lease[b][k] => a = b

\* What an operation that runs was announced with.
Announcement(req) == IF IsLRORequest(req) THEN <<"running">> ELSE <<>>

\* What the service was told about an operation agrees with where it is: an LRO
\* that runs was announced, "running" comes first, "done" at most once and only
\* when no command is left to run, and "succeeded" only if every command was run.
ReportsFollowExecution ==
  \A o \in Ops :
    LET told == reports[o]
        announced == Announcement(request[o])
    IN  /\ phase[o] \in {"unseen", "refused", "locked"} => told = <<>>
        /\ phase[o] \in {"executing", "reporting"} => told = announced
        /\ phase[o] = "releasing" => told \in {announced, Append(announced, outcome[o])}
        /\ phase[o] = "closed" =>
             told \in {<<>>, <<"failed">>, announced, Append(announced, outcome[o])}
        /\ told # <<>> /\ told[Len(told)] = "succeeded" => ran[o] = Len(request[o])

\* A lock that has not expired disappears only with the step in which the
\* operation that owns it releases it, unless its key lapsed before or Start
\* replaces the whole locker.
OnlyOwnerReleases ==
  [][\A k \in Keys \ lapsed :
       epoch' = epoch /\ now < locks[k] /\ locks'[k] # locks[k] =>
         \E o \in Ops : Holds(o, k) /\ lease[o][k] = locks[k] /\ phase'[o] = "closed"]_vars

\* Every operation that took locks gives them up again, also after the listener
\* has stopped, was cancelled or was restarted.
EveryOperationCloses ==
  \A o \in Ops : phase[o] # "unseen" ~> phase[o] = "closed"

\* "For asynchronous commands (LROs), it manages the lifecycle by sending
\* intermediate "running" status updates followed by a final "done" status."
RunningIsFollowedByDone ==
  \A o \in Ops :
    reports[o] = <<"running">> ~> Len(reports[o]) = 2
=============================================================================
