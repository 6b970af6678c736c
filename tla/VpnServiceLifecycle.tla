------------------------- MODULE VpnServiceLifecycle -------------------------
(***************************************************************************)
(* The life of OpenVPNService: start requests, the replacement of one      *)
(* session by the next, stop, revocation, the end of a session and the     *)
(* keep-alive job.  A session is one pass through startOpenVPN: a thread   *)
(* that serves the management socket, a thread that reads the output of    *)
(* the OpenVPN process, the process, and a DeviceStateReceiver.            *)
(*                                                                         *)
(* Five kinds of threads run here: the looper (start requests, exchange of *)
(* receivers, onDestroy, the job), the command thread (startOpenVPN), a    *)
(* management thread and a process thread per session, and the threads of  *)
(* the binder (stop, revocation).  mProcessLock is the only lock they      *)
(* share: it is held by the command thread while it sleeps in              *)
(* forceStopOpenVpnProcess, elsewhere only within one action.              *)
(*                                                                         *)
(* Time is left out: a sleep ends at any time, and a process that is told  *)
(* to end does so at any time.  One instance of the service is modelled; a *)
(* start after onDestroy would make another one.                           *)
(***************************************************************************)
EXTENDS Naturals, Sequences

CONSTANTS
    Profiles,      \* the VPN profiles
    NoProfile,     \* no profile: null
    MaxSessions,   \* bound on the sessions that are opened
    MaxEvents,     \* bound on start requests, revocations and crashes
    AlwaysOn,      \* isVpnAlwaysOnEnabled or isAlwaysActiveEnabled
    AlwaysVisible  \* mNotificationAlwaysVisible

ASSUME LifecycleAssumption ==
    /\ NoProfile \notin Profiles
    /\ MaxSessions \in Nat \ {0}
    /\ MaxEvents \in Nat
    /\ AlwaysOn \in BOOLEAN
    /\ AlwaysVisible \in BOOLEAN

Sessions == 1..MaxSessions
None == 0                          \* null, for a field that names a session

\* The threads that run endVpnService: the process thread of a session, named as
\* the session, the command thread, the binder thread of onRevoke
Command == 0
Revoker == MaxSessions + 1
Enders == 0..Revoker

VARIABLES
    commands,      \* messages of mCommandHandler: starts, the stop of onRevoke
    starter,       \* where the command thread is in startOpenVPN
    session,       \* the last session opened
    swaps,         \* exchanges of receivers posted to guiHandler: <<old, new>>
    mProfile,
    mStarting,
    mManagement,          \* the session of the management thread, or None
    mProcessThread,       \* the session of the process thread, or None
    mDeviceStateReceiver, \* the session of the receiver, or None
    registered,    \* the receivers Android has, by their sessions
    ender,         \* where each thread is in endVpnService
    thread,        \* process thread: "none", "running", "ending", "done"
    process,       \* OpenVPN: "none", "boot", "configured", "connected", "dead"
    manager,       \* "none", "new", "accepting", "reading", "gone": management thread
    active,        \* the static list of management threads, as a set
    socket,        \* mSocket: "none", "open", "closed" after SIGINT was sent
    peer,          \* the process at the other end
    job,           \* the profile of the scheduled keep-alive job
    remembered,    \* LAST_CONNECTED_PROFILE
    started,       \* Android: a start of the service is in force
    destroyed,     \* onDestroy has run
    turnedAway,    \* a start was turned away since the service last stopped
    events         \* counts what MaxEvents bounds

fieldVars == <<mProfile, mStarting, mManagement, mProcessThread>>
receiverVars == <<swaps, mDeviceStateReceiver, registered>>
processVars == <<thread, process>>
socketVars == <<manager, active, socket, peer>>
keptVars == <<job, remembered>>
androidVars == <<started, destroyed, turnedAway, events>>
commandVars == <<commands, starter, session>>
vars == <<commandVars, fieldVars, receiverVars, ender, processVars,
          socketVars, keptVars, androidVars>>


Start(p, keep) == [type |-> "start", profile |-> p, keep |-> keep]
Restart == [type |-> "restart"]                      \* a null intent
Stop == [type |-> "stop"]                            \* posted by onRevoke
Messages == [type : {"start"}, profile : Profiles, keep : BOOLEAN]
            \cup [type : {"restart", "stop"}]
IsRequest(c) == c.type \in {"start", "restart"}

LockFree == starter # "forced"
Alive(s) == process[s] \in {"boot", "configured", "connected"}

Init ==
    /\ commands = <<>> /\ starter = "idle" /\ session = None
    /\ mProfile = NoProfile /\ mStarting = FALSE
    /\ mManagement = None /\ mProcessThread = None
    /\ swaps = <<>> /\ mDeviceStateReceiver = None /\ registered = {}
    /\ ender = [e \in Enders |-> "no"]
    /\ thread = [s \in Sessions |-> "none"]
    /\ process = [s \in Sessions |-> "none"]
    /\ manager = [s \in Sessions |-> "none"] /\ active = {}
    /\ socket = [s \in Sessions |-> "none"] /\ peer = [s \in Sessions |-> None]
    /\ job = NoProfile /\ remembered = NoProfile
    /\ started = FALSE /\ destroyed = FALSE /\ turnedAway = FALSE
    /\ events = 0

-----------------------------------------------------------------------------
\* What several handlers call

Event == events < MaxEvents /\ events' = events + 1

\* OpenVpnManagementThread.stopVPN: stopOpenVPN signals the process behind
\* every thread of the list and closes its socket. The result only decides
\* whether startOpenVPN sleeps one second.
StopVPN ==
    /\ socket' = [a \in Sessions |-> IF a \in active /\ socket[a] = "open"
                                    THEN "closed" ELSE socket[a]]
    /\ UNCHANGED <<manager, active, peer>>

\* endVpnService up to mProcessLock, on thread e
BeginEnd(e) ==
    /\ ender' = [ender EXCEPT ![e] = "locking"]
    /\ job' = IF AlwaysOn THEN job ELSE NoProfile
    /\ UNCHANGED remembered

\* unregisterDeviceStateReceiver tests the field, not its parameter
AfterUnregister(r) ==
    IF mDeviceStateReceiver # None THEN registered \ {r} ELSE registered

-----------------------------------------------------------------------------
\* The looper

\* onStartCommand with a start intent. The intents that pause and resume the VPN
\* belong to PauseControl; those that only start the service change nothing here.
OnStartCommand(c) ==
    /\ ~destroyed
    /\ Event
    /\ started' = TRUE
    /\ commands' = Append(commands, c)
    /\ UNCHANGED <<starter, session, fieldVars, receiverVars, ender,
                   processVars, socketVars, keptVars, destroyed, turnedAway>>

UserStart(p, keep) == OnStartCommand(Start(p, keep))

\* keepVPNAlive.onStartJob when the level it was told last is "not connected",
\* which it may be at any time: a session that ends says so while another runs.
JobFires ==
    /\ job # NoProfile
    /\ OnStartCommand(Start(job, TRUE))

\* The profile the job has been given is gone.
JobGivesUp ==
    /\ job # NoProfile /\ ~destroyed
    /\ job' = NoProfile
    /\ UNCHANGED <<commandVars, fieldVars, receiverVars, ender, processVars,
                   socketVars, remembered, androidVars>>

\* Mutant: registers the old receiver and gives the new one up.
MutantSwapReceivers ==
    /\ swaps # <<>>
    /\ LET old == Head(swaps)[1]
           new == Head(swaps)[2]
       IN  /\ registered' = {old} \cup AfterUnregister(new)
           /\ mDeviceStateReceiver' = new
    /\ swaps' = Tail(swaps)
    /\ UNCHANGED <<commandVars, fieldVars, ender, processVars, socketVars,
                   keptVars, androidVars>>

\* The runnable startOpenVPN posts at its end
SwapReceivers ==
    /\ swaps # <<>>
    /\ LET old == Head(swaps)[1]
           new == Head(swaps)[2]
       IN  /\ registered' = {new} \cup AfterUnregister(old)
           /\ mDeviceStateReceiver' = new
    /\ swaps' = Tail(swaps)
    /\ UNCHANGED <<commandVars, fieldVars, ender, processVars, socketVars,
                   keptVars, androidVars>>

\* Android ends a service that is not started, unless somebody is bound to it
OnDestroy ==
    /\ ~started /\ ~destroyed
    /\ LockFree
    /\ IF mProcessThread = None THEN UNCHANGED socketVars ELSE StopVPN
    /\ registered' = AfterUnregister(mDeviceStateReceiver)
    /\ mDeviceStateReceiver' = None
    /\ destroyed' = TRUE
    /\ UNCHANGED <<commandVars, fieldVars, swaps, ender, processVars, keptVars,
                   started, turnedAway, events>>

-----------------------------------------------------------------------------
\* The binder's threads

UserStop ==
    /\ mManagement # None /\ ~destroyed
    /\ StopVPN
    /\ UNCHANGED <<commandVars, fieldVars, receiverVars, ender, processVars,
                   keptVars, androidVars>>

\* onRevoke: Android has taken the permission to be a VPN away
OnRevoke ==
    /\ mManagement # None /\ ~destroyed
    /\ ender[Revoker] = "no"
    /\ Event
    /\ commands' = Append(commands, Stop)
    /\ BeginEnd(Revoker)
    /\ UNCHANGED <<starter, session, fieldVars, receiverVars, processVars,
                   socketVars, started, destroyed, turnedAway>>

-----------------------------------------------------------------------------
\* The command thread: startOpenVPN

\* What fetchVPNProfile may return: the profile asked for, null if it is gone;
\* for a null intent the last connected one, or else that of the always-on
\* preference.
Fetched(c) ==
    IF c.type = "start" THEN {c.profile, NoProfile}
    ELSE IF remembered # NoProfile THEN {remembered}
    ELSE Profiles \cup {NoProfile}

\* A start is at the head of the queue and the command thread takes it.
TakeRequest ==
    /\ starter = "idle"
    /\ commands # <<>> /\ IsRequest(Head(commands))
    /\ commands' = Tail(commands)

\* fetchVPNProfile returns null: stopSelf(startId), which has an effect only
\* if no start came later
StartWithoutProfile ==
    /\ TakeRequest
    /\ NoProfile \in Fetched(Head(commands))
    /\ IF \E i \in DOMAIN commands' : IsRequest(commands'[i])
       THEN UNCHANGED <<started, turnedAway>>
       ELSE started' = FALSE /\ turnedAway' = FALSE
    /\ UNCHANGED <<starter, session, fieldVars, receiverVars, ender,
                   processVars, socketVars, keptVars, destroyed, events>>

\* checkVPNPermission asks the user and the request is over
StartWithoutPermission ==
    /\ TakeRequest
    /\ turnedAway' = TRUE
    /\ UNCHANGED <<starter, session, fieldVars, receiverVars, ender,
                   processVars, socketVars, keptVars, started, destroyed,
                   events>>

\* The request must not replace a running VPN
Ignores(p) ==
    /\ mProfile = p
    /\ Head(commands).type = "restart" \/ Head(commands).keep

StartIgnored ==
    /\ TakeRequest
    /\ \E p \in Fetched(Head(commands)) \ {NoProfile} : Ignores(p)
    /\ turnedAway' = TRUE
    /\ UNCHANGED <<starter, session, fieldVars, receiverVars, ender,
                   processVars, socketVars, keptVars, started, destroyed,
                   events>>

StartAccepted ==
    /\ TakeRequest
    /\ session < MaxSessions
    /\ \E p \in Fetched(Head(commands)) \ {NoProfile} :
         /\ ~Ignores(p)
         /\ mProfile' = p
         /\ remembered' = p
         /\ job' = p
    /\ mStarting' = TRUE
    /\ starter' = "signal"
    /\ UNCHANGED <<session, mManagement, mProcessThread, receiverVars, ender,
                   processVars, socketVars, androidVars>>

\* stopOldOpenVPNProcess; mOpenVPNThread is never assigned, so the old thread
\* is not told that it is replaced
SignalOld ==
    /\ starter = "signal"
    /\ starter' = "force"
    /\ IF mManagement = None THEN UNCHANGED socketVars ELSE StopVPN
    /\ UNCHANGED <<commands, session, fieldVars, receiverVars, ender,
                   processVars, keptVars, androidVars>>

\* forceStopOpenVpnProcess: a process thread is interrupted, which makes it
\* destroy the process when it reads the next line; then it sleeps, holding the
\* lock.
ForceStop ==
    /\ starter = "force"
    /\ IF mProcessThread = None
       THEN starter' = "open" /\ mStarting' = FALSE
       ELSE /\ starter' = "forced"
            /\ UNCHANGED mStarting
    /\ UNCHANGED <<commands, session, mProfile, mManagement, mProcessThread,
                   receiverVars, ender, thread, process, socketVars, keptVars,
                   androidVars>>

\* Mutant: startOpenVPN leaves mStarting set.
MutantForceStopOver ==
    /\ starter = "forced"
    /\ starter' = "open"
    /\ UNCHANGED <<commands, session, fieldVars, receiverVars, ender,
                   processVars, socketVars, keptVars, androidVars>>

ForceStopOver ==
    /\ starter = "forced"
    /\ starter' = "open"
    /\ mStarting' = FALSE
    /\ UNCHANGED <<commands, session, mProfile, mManagement, mProcessThread,
                   receiverVars, ender, processVars, socketVars, keptVars,
                   androidVars>>

\* openManagementInterface: the socket has one path, the last bind gets the
\* connections
OpenManagement ==
    /\ starter = "open"
    /\ session' = session + 1
    /\ manager' = [manager EXCEPT ![session'] = "new"]
    /\ mManagement' = session'
    /\ starter' = "launch"
    /\ UNCHANGED <<commands, mProfile, mStarting, mProcessThread, receiverVars,
                   ender, processVars, active, socket, peer, keptVars,
                   androidVars>>

OpenManagementFails ==
    /\ starter = "open"
    /\ starter' = "failed"
    /\ BeginEnd(Command)
    /\ UNCHANGED <<commands, session, fieldVars, receiverVars, processVars,
                   socketVars, androidVars>>

\* The process thread is assigned and started under the lock
Launch ==
    /\ starter = "launch"
    /\ mProcessThread' = session
    /\ thread' = [thread EXCEPT ![session] = "running"]
    /\ process' = [process EXCEPT ![session] = "boot"]
    /\ starter' = "configure"
    /\ UNCHANGED <<commands, session, mProfile, mStarting, mManagement,
                   receiverVars, ender, socketVars, keptVars, androidVars>>

\* writeConfigFileOutput, then the exchange of receivers is posted
Configure ==
    /\ starter = "configure"
    /\ process[session] = "boot"
    /\ process' = [process EXCEPT ![session] = "configured"]
    /\ swaps' = Append(swaps, <<mDeviceStateReceiver, session>>)
    /\ starter' = "idle"
    /\ UNCHANGED <<commands, session, fieldVars, mDeviceStateReceiver,
                   registered, ender, thread, socketVars, keptVars,
                   androidVars>>

\* The profile cannot be written, or the process is gone
ConfigureFails ==
    /\ starter = "configure"
    /\ starter' = "failed"
    /\ BeginEnd(Command)
    /\ UNCHANGED <<commands, session, fieldVars, receiverVars, processVars,
                   socketVars, androidVars>>

\* The stop that onRevoke posted
StopAfterRevoke ==
    /\ starter = "idle"
    /\ commands # <<>> /\ ~IsRequest(Head(commands))
    /\ commands' = Tail(commands)
    /\ StopVPN
    /\ UNCHANGED <<starter, session, fieldVars, receiverVars, ender,
                   processVars, keptVars, androidVars>>

-----------------------------------------------------------------------------
\* endVpnService, on the thread of a session, of a failed start, of onRevoke

\* Mutant: endVpnService leaves mProcessThread as it is.
MutantEndProcess(e) ==
    /\ ender[e] = "locking"
    /\ LockFree
    /\ ender' = [ender EXCEPT ![e] = "unregister"]
    /\ UNCHANGED <<commandVars, fieldVars, receiverVars, processVars,
                   socketVars, keptVars, androidVars>>

EndProcess(e) ==
    /\ ender[e] = "locking"
    /\ LockFree
    /\ mProcessThread' = None
    /\ ender' = [ender EXCEPT ![e] = "unregister"]
    /\ UNCHANGED <<commandVars, mProfile, mStarting, mManagement, receiverVars,
                   processVars, socketVars, keptVars, androidVars>>

EndReceiver(e) ==
    /\ ender[e] = "unregister"
    /\ registered' = AfterUnregister(mDeviceStateReceiver)
    /\ ender' = [ender EXCEPT ![e] = "forget"]
    /\ UNCHANGED <<commandVars, fieldVars, swaps, mDeviceStateReceiver,
                   processVars, socketVars, keptVars, androidVars>>

EndForgets(e) ==
    /\ ender[e] = "forget"
    /\ mDeviceStateReceiver' = None
    /\ remembered' = NoProfile
    /\ ender' = [ender EXCEPT ![e] = "stop"]
    /\ UNCHANGED <<commandVars, fieldVars, swaps, registered, processVars,
                   socketVars, job, androidVars>>

\* A service that is starting another session, or whose notification is always
\* visible, stays
EndStops(e) ==
    /\ ender[e] = "stop"
    /\ IF mStarting \/ AlwaysVisible
       THEN UNCHANGED <<started, turnedAway>>
       ELSE started' = FALSE /\ turnedAway' = FALSE
    /\ ender' = [ender EXCEPT ![e] = "no"]
    /\ starter' = IF e = Command THEN "idle" ELSE starter
    /\ thread' = [s \in Sessions |-> IF s = e THEN "done" ELSE thread[s]]
    /\ UNCHANGED <<commands, session, fieldVars, receiverVars, process,
                   socketVars, keptVars, destroyed, events>>

-----------------------------------------------------------------------------
\* A session's process thread and OpenVPN

\* OpenVPN ends because it was told to, because its thread was interrupted and
\* destroys it at the next line it reads, or for a reason of its own
ProcessDies(s) ==
    /\ Alive(s)
    /\ process' = [process EXCEPT ![s] = "dead"]
    /\ UNCHANGED <<commandVars, fieldVars, receiverVars, ender, thread,
                   socketVars, keptVars, androidVars>>

\* Nobody sets mNoProcessExitStatus: every thread reports NOPROCESS and calls
\* openvpnStopped
ThreadEnds(s) ==
    /\ thread[s] = "running" /\ process[s] = "dead"
    /\ thread' = [thread EXCEPT ![s] = "ending"]
    /\ BeginEnd(s)
    /\ UNCHANGED <<commandVars, fieldVars, receiverVars, process, socketVars,
                   androidVars>>

\* OpenVPN connects to the management socket of the last session, or gives up
Connects(s) ==
    /\ process[s] = "configured"
    /\ IF manager[session] \in {"new", "accepting"} /\ peer[session] = None
       THEN /\ peer' = [peer EXCEPT ![session] = s]
            /\ process' = [process EXCEPT ![s] = "connected"]
       ELSE /\ process' = [process EXCEPT ![s] = "dead"]
            /\ UNCHANGED peer
    /\ UNCHANGED <<commandVars, fieldVars, receiverVars, ender, thread,
                   manager, active, socket, keptVars, androidVars>>

-----------------------------------------------------------------------------
\* A session's management thread: run

\* Mutant: one management thread is remembered, not a list of them.
MutantEntersList(m) ==
    /\ manager[m] = "new"
    /\ manager' = [manager EXCEPT ![m] = "accepting"]
    /\ active' = {m}
    /\ UNCHANGED <<commandVars, fieldVars, receiverVars, ender, processVars,
                   socket, peer, keptVars, androidVars>>

EntersList(m) ==
    /\ manager[m] = "new"
    /\ manager' = [manager EXCEPT ![m] = "accepting"]
    /\ active' = active \cup {m}
    /\ UNCHANGED <<commandVars, fieldVars, receiverVars, ender, processVars,
                   socket, peer, keptVars, androidVars>>

Accepts(m) ==
    /\ manager[m] = "accepting" /\ peer[m] # None
    /\ manager' = [manager EXCEPT ![m] = "reading"]
    /\ socket' = [socket EXCEPT ![m] = "open"]
    /\ UNCHANGED <<commandVars, fieldVars, receiverVars, ender, processVars,
                   active, peer, keptVars, androidVars>>

\* End of the stream: run returns without leaving the list
ReadsEnd(m) ==
    /\ manager[m] = "reading"
    /\ socket[m] = "open" /\ process[peer[m]] = "dead"
    /\ manager' = [manager EXCEPT ![m] = "gone"]
    /\ UNCHANGED <<commandVars, fieldVars, receiverVars, ender, processVars,
                   active, socket, peer, keptVars, androidVars>>

\* An exception, because the socket was closed here or reset by OpenVPN
ReadFails(m) ==
    /\ manager[m] = "reading"
    /\ socket[m] = "closed" \/ process[peer[m]] = "dead"
    /\ manager' = [manager EXCEPT ![m] = "gone"]
    /\ active' = active \ {m}
    /\ UNCHANGED <<commandVars, fieldVars, receiverVars, ender, processVars,
                   socket, peer, keptVars, androidVars>>

-----------------------------------------------------------------------------
\* The process of the service dies, and OpenVPN with it. Job and preferences
\* stay; Android starts a started service again, without an intent.
Crash ==
    /\ ~destroyed
    /\ Event
    /\ commands' = IF started THEN <<Restart>> ELSE <<>>
    /\ starter' = "idle"
    /\ mProfile' = NoProfile /\ mStarting' = FALSE
    /\ mManagement' = None /\ mProcessThread' = None
    /\ swaps' = <<>> /\ mDeviceStateReceiver' = None /\ registered' = {}
    /\ ender' = [e \in Enders |-> "no"]
    /\ thread' = [s \in Sessions |-> IF s <= session THEN "done" ELSE "none"]
    /\ process' = [s \in Sessions |-> IF s <= session THEN "dead" ELSE "none"]
    /\ manager' = [s \in Sessions |-> IF s <= session THEN "gone" ELSE "none"]
    /\ active' = {}
    /\ socket' = [s \in Sessions |-> "none"]
    /\ peer' = [s \in Sessions |-> None]
    /\ turnedAway' = FALSE
    /\ UNCHANGED <<session, keptVars, started, destroyed>>

Next ==
    \/ \E p \in Profiles, keep \in BOOLEAN : UserStart(p, keep)
    \/ JobFires \/ JobGivesUp \/ SwapReceivers \/ OnDestroy \/ UserStop \/ OnRevoke
    \/ StartWithoutProfile \/ StartWithoutPermission \/ StartIgnored
    \/ StartAccepted \/ SignalOld \/ ForceStop \/ ForceStopOver
    \/ OpenManagement \/ OpenManagementFails \/ Launch
    \/ Configure \/ ConfigureFails \/ StopAfterRevoke
    \/ \E e \in Enders :
         EndProcess(e) \/ EndReceiver(e) \/ EndForgets(e) \/ EndStops(e)
    \/ \E s \in Sessions : ProcessDies(s) \/ ThreadEnds(s) \/ Connects(s)
    \/ \E m \in Sessions :
         EntersList(m) \/ Accepts(m) \/ ReadsEnd(m) \/ ReadFails(m)
    \/ Crash

Spec == Init /\ [][Next]_vars

-----------------------------------------------------------------------------
\* Every variable has a value of its kind.
FlagsOK ==
    /\ mStarting \in BOOLEAN
    /\ started \in BOOLEAN
    /\ destroyed \in BOOLEAN
    /\ turnedAway \in BOOLEAN

TypeOK ==
    /\ commands \in Seq(Messages)
    /\ starter \in {"idle", "signal", "force", "forced", "open", "launch",
                    "configure", "failed"}
    /\ session \in 0..MaxSessions
    /\ swaps \in Seq((Sessions \cup {None}) \X Sessions)
    /\ mProfile \in Profiles \cup {NoProfile}
    /\ mManagement \in Sessions \cup {None}
    /\ mProcessThread \in Sessions \cup {None}
    /\ mDeviceStateReceiver \in Sessions \cup {None}
    /\ FlagsOK
    /\ registered \subseteq Sessions
    /\ ender \in [Enders -> {"no", "locking", "unregister", "forget", "stop"}]
    /\ thread \in [Sessions -> {"none", "running", "ending", "done"}]
    /\ process \in [Sessions -> {"none", "boot", "configured", "connected", "dead"}]
    /\ manager \in [Sessions -> {"none", "new", "accepting", "reading", "gone"}]
    /\ active \subseteq Sessions
    /\ socket \in [Sessions -> {"none", "open", "closed"}]
    /\ peer \in [Sessions -> Sessions \cup {None}]
    /\ job \in Profiles \cup {NoProfile}
    /\ remembered \in Profiles \cup {NoProfile}
    /\ events \in 0..MaxEvents

\* mProcessThread never names a thread that has already given it up: the thread
\* is assigned and started under the lock that its end takes to reset the field
\* (startOpenVPN, endVpnService), so forceStopOpenVpnProcess interrupts a live
\* thread and onDestroy stops a live session, and one whose management is set.
ProcessThreadLive ==
    mProcessThread # None =>
        /\ mManagement # None
        /\ \/ thread[mProcessThread] = "running"
           \/ thread[mProcessThread] = "ending" /\ ender[mProcessThread] = "locking"

\* The next stop reaches every connected OpenVPN whose connection its management
\* thread has accepted and which no stop has reached yet: the thread reads, is in
\* the list and its socket is open (stopOpenVPN, run). So a thread never leaves
\* the list, nor ends, while the process it has accepted may run, however many
\* sessions come after it. Until the thread has accepted, mSocket is null: a stop
\* between the connect and the accept reaches nothing and is lost.
Accepted(m) == manager[m] \in {"reading", "gone"} /\ peer[m] # None

Reachable ==
    \A m \in Sessions :
        Accepted(m) /\ process[peer[m]] = "connected" /\ socket[m] # "closed" =>
            manager[m] = "reading" /\ m \in active /\ socket[m] = "open"

\* When nothing runs, ends or waits any more, the service has stopped itself,
\* whichever of the paths through startOpenVPN and endVpnService was taken, and
\* although a session that ends while another starts does not stop it. A start
\* that was turned away keeps it, and so does a notification always visible.
AllOver ==
    /\ commands = <<>> /\ starter = "idle"
    /\ \A e \in Enders : ender[e] = "no"
    /\ \A s \in Sessions : thread[s] \in {"none", "done"}

StopsAtTheEnd == AllOver /\ ~turnedAway /\ ~AlwaysVisible => ~started

=============================================================================
