---------------------------- MODULE PauseControl ----------------------------
(***************************************************************************)
(* DeviceStateReceiver: it watches the network, the screen and the user's  *)
(* pause button and pauses or resumes the VPN through the management       *)
(* thread (HoldProtocol), whose pause callback it is.  Broadcasts and the  *)
(* disconnect timer run on the main looper, userPause on the looper or on  *)
(* a binder thread, updateByteCount and the callback on the management     *)
(* thread, with nothing to exclude one another: a handler is as many steps *)
(* as it has accesses to a field that another thread writes.  As long as   *)
(* the looper is the only caller that field is screen alone, and a step    *)
(* that reads all three fields (shouldBeConnected, getPauseReason) reads   *)
(* it once.                                                                *)
(***************************************************************************)
EXTENDS HoldProtocol

CONSTANTS
    Nets,                \* networks a CONNECTIVITY broadcast may report connected
    NoNet,               \* no active network; also "never connected yet"
    IgnoreNetState,      \* values the preference "ignorenetstate" may have
    ScreenOffPause,      \* values of "screenoff"
    NetChangeReconnect,  \* values of "netchangereconnect"
    RedundantResume,     \* may a resume come when the user has not paused?
    MaxDisconnect        \* bound: posted copies of mDelayDisconnectRunnable

ASSUME NetAssumption  == NoNet \notin Nets
ASSUME PrefAssumption ==
    /\ {IgnoreNetState, ScreenOffPause, NetChangeReconnect} \subseteq SUBSET BOOLEAN
    /\ RedundantResume \in BOOLEAN
ASSUME DisconnectAssumption == MaxDisconnect \in Nat

VARIABLES
    network, screen, userpause,  \* the three connectState fields
    lastConnectedNetwork,        \* lastConnectedNetwork
    disconnectTimers,            \* posted copies of mDelayDisconnectRunnable
    registered,                  \* registerDeviceStateReceiver has run
    display,                     \* whether the screen really is on
    task                         \* where each thread is in a handler, and the
                                 \* value of shouldBeConnected it has stored

deviceVars == <<network, screen, userpause, lastConnectedNetwork,
                disconnectTimers, registered, display, task>>
vars == <<holdVars, deviceVars>>

connectState == {"SHOULDBECONNECTED", "PENDINGDISCONNECT", "DISCONNECTED"}

Places == {"none", "reason",        \* any handler: at rest; about to pause
           "clear", "test",         \* userPause(false)
           "off",                   \* ACTION_SCREEN_OFF
           "on", "compare", "still",  \* ACTION_SCREEN_ON
           "traffic",               \* updateByteCount
           "user", "network"}       \* shouldBeRunning

NoTask == [at |-> "none", were |-> FALSE]

TypeOK ==
    /\ HoldTypeOK
    /\ network \in connectState
    /\ screen \in connectState
    /\ userpause \in connectState \ {"PENDINGDISCONNECT"}
    /\ lastConnectedNetwork \in Nets \cup {NoNet}
    /\ disconnectTimers \in 0..MaxDisconnect
    /\ registered \in BOOLEAN
    /\ display \in BOOLEAN
    /\ task \in [Threads -> [at : Places, were : BOOLEAN]]

Init ==
    /\ HoldInit
    /\ network = "DISCONNECTED"
    /\ screen = "SHOULDBECONNECTED"
    /\ userpause = "SHOULDBECONNECTED"
    /\ lastConnectedNetwork = NoNet
    /\ disconnectTimers = 0
    /\ registered = FALSE
    /\ display \in BOOLEAN
    /\ task = [t \in Threads |-> NoTask]

\* shouldBeConnected, of given values of the three fields.
ShouldBe(net, scr, user) == {net, scr, user} = {"SHOULDBECONNECTED"}

shouldBeConnected == ShouldBe(network, screen, userpause)

\* Mutants of getPauseReason: the network is looked at first; no last resort.
getPauseReasonNetworkFirst(net, scr, user) ==
    IF net = "DISCONNECTED" THEN "noNetwork"
    ELSE IF user = "DISCONNECTED" THEN "userPause"
    ELSE IF scr = "DISCONNECTED" THEN "screenOff"
    ELSE "userPause"

getPauseReasonOrNull(net, scr, user) ==
    IF user = "DISCONNECTED" THEN "userPause"
    ELSE IF scr = "DISCONNECTED" THEN "screenOff"
    ELSE IF net = "DISCONNECTED" THEN "noNetwork"
    ELSE "null"

\* getPauseReason.  Its last resort is userPause, whoever is to blame.
getPauseReason(net, scr, user) ==
    IF user = "DISCONNECTED" THEN "userPause"
    ELSE IF scr = "DISCONNECTED" THEN "screenOff"
    ELSE IF net = "DISCONNECTED" THEN "noNetwork"
    ELSE "userPause"

\* A thread has nothing of this receiver to finish.
AtRest(t) == Free(t) /\ task[t].at = "none"

\* A handler of this receiver may begin on thread t.
Handler(t) == registered /\ AtRest(t) /\ Room

\* The thread goes on to another line of its handler, or leaves it.
Goto(t, at) == task' = [task EXCEPT ![t] = [at |-> at, were |-> task[t].were]]
Leave(t) == task' = [task EXCEPT ![t] = NoTask]

\* Every handler that pauses does so with a reason it has just computed.
PauseWithReason(t) ==
    /\ task[t].at = "reason"
    /\ Pause(t, getPauseReason(network, screen, userpause))
    /\ Leave(t)
    /\ UNCHANGED <<network, screen, userpause, lastConnectedNetwork,
                   disconnectTimers, registered, display>>

-----------------------------------------------------------------------------
(***************************************************************************)
(* networkStateChange.  Of the fields it reads only screen may change      *)
(* under it, and the management thread makes of PENDINGDISCONNECT what     *)
(* the handler makes of it: one step, up to the operation it calls.        *)
(***************************************************************************)

\* Mutant of NetworkConnected: only changes of the network reconnect.
NetworkConnectedNoResume(n) ==
    LET pending == network = "PENDINGDISCONNECT"
        same    == n = lastConnectedNetwork
        scr     == IF screen = "PENDINGDISCONNECT" THEN "DISCONNECTED" ELSE screen
        should  == ShouldBe("SHOULDBECONNECTED", scr, userpause)
    IN  /\ network' = "SHOULDBECONNECTED"
        /\ screen' = scr
        /\ lastConnectedNetwork' = n
        /\ disconnectTimers' = IF should THEN 0 ELSE disconnectTimers
        /\ IF should /\ (pending \/ ~same) THEN NetworkChange(Main, same)
                                            ELSE UNCHANGED holdVars

\* A connected network n.  A pending disconnect from the very same network
\* is called off; otherwise the connection is (re)established if it should.
NetworkConnected(n) ==
    LET pending == network = "PENDINGDISCONNECT"
        same    == n = lastConnectedNetwork
        scr     == IF screen = "PENDINGDISCONNECT" THEN "DISCONNECTED" ELSE screen
        should  == ShouldBe("SHOULDBECONNECTED", scr, userpause)
    IN  /\ network' = "SHOULDBECONNECTED"
        /\ \/ /\ pending /\ same
              /\ disconnectTimers' = 0
              /\ NetworkChange(Main, TRUE)
              /\ UNCHANGED <<screen, lastConnectedNetwork>>
           \/ /\ ~(pending /\ same)
              /\ screen' = scr
              /\ lastConnectedNetwork' = n
              /\ disconnectTimers' = IF should THEN 0 ELSE disconnectTimers
              /\ CASE ~should                     -> UNCHANGED holdVars
                   [] should /\ (pending \/ ~same) -> NetworkChange(Main, same)
                   [] OTHER                        -> Resume(Main)

\* No network: a disconnect is due in DISCONNECT_WAIT seconds, unless the
\* user does not want a reconnect on network changes.
NetworkLost ==
    /\ TRUE \in NetChangeReconnect
    /\ disconnectTimers < MaxDisconnect
    /\ network' = "PENDINGDISCONNECT"
    /\ disconnectTimers' = disconnectTimers + 1
    /\ UNCHANGED <<holdVars, screen, lastConnectedNetwork>>

NetworkIgnored ==
    /\ TRUE \in IgnoreNetState
    /\ network' = "SHOULDBECONNECTED"
    /\ UNCHANGED <<holdVars, screen, lastConnectedNetwork, disconnectTimers>>

\* A network that is there but not connected, or no network when the user
\* wants no reconnect.
NetworkUnaffected ==
    UNCHANGED <<holdVars, network, screen, lastConnectedNetwork, disconnectTimers>>

networkStateChange ==
    /\ AtRest(Main)
    /\ Room
    /\ \/ NetworkIgnored
       \/ /\ FALSE \in IgnoreNetState
          /\ (\E n \in Nets : NetworkConnected(n)) \/ NetworkLost \/ NetworkUnaffected
    /\ UNCHANGED <<userpause, display, task>>

\* registerDeviceStateReceiver: the first call, before any broadcast.
Register ==
    /\ ~registered
    /\ registered' = TRUE
    /\ networkStateChange

Connectivity == registered /\ networkStateChange /\ UNCHANGED registered

-----------------------------------------------------------------------------
(***************************************************************************)
(* The disconnect timer and the user's pause button.                       *)
(***************************************************************************)

\* mDelayDisconnectRunnable; what follows is PauseWithReason.
DelayDisconnect ==
    /\ Handler(Main)
    /\ disconnectTimers > 0
    /\ disconnectTimers' = disconnectTimers - 1
    /\ IF network # "PENDINGDISCONNECT"
         THEN UNCHANGED <<network, screen, task>>
         ELSE /\ network' = "DISCONNECTED"
              /\ screen' = IF screen = "PENDINGDISCONNECT" THEN "DISCONNECTED" ELSE screen
              /\ Goto(Main, "reason")
    /\ UNCHANGED <<holdVars, userpause, lastConnectedNetwork, registered, display>>

\* userPause(true), on thread t; what follows is PauseWithReason.
UserPauses(t) ==
    /\ Handler(t)
    /\ userpause' = "DISCONNECTED"
    /\ Goto(t, "reason")
    /\ UNCHANGED <<holdVars, network, screen, lastConnectedNetwork, disconnectTimers,
                   registered, display>>

\* userPause(false), on thread t: wereConnected is read, the field written,
\* and the field read again; it resumes, or updates the reason of the pause.
UserResumes(t) ==
    /\ Handler(t)
    /\ RedundantResume \/ userpause = "DISCONNECTED"
    /\ task' = [task EXCEPT ![t] = [at |-> "clear", were |-> shouldBeConnected]]
    /\ UNCHANGED <<holdVars, network, screen, userpause, lastConnectedNetwork,
                   disconnectTimers, registered, display>>

UserCleared(t) ==
    /\ task[t].at = "clear"
    /\ userpause' = "SHOULDBECONNECTED"
    /\ Goto(t, "test")
    /\ UNCHANGED <<holdVars, network, screen, lastConnectedNetwork, disconnectTimers,
                   registered, display>>

TestResume(t) ==
    /\ task[t].at = "test"
    /\ IF shouldBeConnected /\ ~task[t].were
         THEN Resume(t) /\ Leave(t)
         ELSE Goto(t, "reason") /\ UNCHANGED holdVars
    /\ UNCHANGED <<network, screen, userpause, lastConnectedNetwork, disconnectTimers,
                   registered, display>>

-----------------------------------------------------------------------------
(***************************************************************************)
(* The screen, on the looper, and the traffic, on the management thread.   *)
(***************************************************************************)

\* ACTION_SCREEN_OFF: the screen is pending at once ...
ScreenOff ==
    /\ Handler(Main)
    /\ display
    /\ display' = FALSE
    /\ \/ /\ TRUE \in ScreenOffPause
          /\ screen' = "PENDINGDISCONNECT"
          /\ Goto(Main, "off")
       \/ /\ FALSE \in ScreenOffPause
          /\ UNCHANGED <<screen, task>>
    /\ UNCHANGED <<holdVars, network, userpause, lastConnectedNetwork, disconnectTimers, registered>>

\* ... and disconnected if the VPN is paused already.
ScreenOffPaused ==
    /\ task[Main].at = "off"
    /\ screen' = IF "DISCONNECTED" \in {network, userpause} THEN "DISCONNECTED" ELSE screen
    /\ Leave(Main)
    /\ UNCHANGED <<holdVars, network, userpause, lastConnectedNetwork, disconnectTimers,
                   registered, display>>

\* ACTION_SCREEN_ON: "connected" is read, screen written and the disconnect
\* timer called off whatever the network is ...
ScreenOn ==
    /\ Handler(Main)
    /\ ~display
    /\ display' = TRUE
    /\ task' = [task EXCEPT ![Main] = [at |-> "on", were |-> shouldBeConnected]]
    /\ UNCHANGED <<holdVars, network, screen, userpause, lastConnectedNetwork,
                   disconnectTimers, registered>>

ScreenIsOn ==
    /\ task[Main].at = "on"
    /\ screen' = "SHOULDBECONNECTED"
    /\ disconnectTimers' = 0
    /\ Goto(Main, "compare")
    /\ UNCHANGED <<holdVars, network, userpause, lastConnectedNetwork, registered, display>>

\* ... and shouldBeConnected asked twice: has it changed, is it false?
ScreenCompare ==
    /\ task[Main].at = "compare"
    /\ IF shouldBeConnected # task[Main].were
         THEN Resume(Main) /\ Leave(Main)
         ELSE Goto(Main, "still") /\ UNCHANGED holdVars
    /\ UNCHANGED <<network, screen, userpause, lastConnectedNetwork, disconnectTimers,
                   registered, display>>

ScreenStill ==
    /\ task[Main].at = "still"
    /\ IF shouldBeConnected THEN Leave(Main) ELSE Goto(Main, "reason")
    /\ UNCHANGED <<holdVars, network, screen, userpause, lastConnectedNetwork,
                   disconnectTimers, registered, display>>

\* updateByteCount: the test of screen, with every traffic count there can
\* be: below the limit the screen is written and the reason computed (at
\* once, although the looper may write userpause and network between the
\* reads: nothing is claimed of the reason where there is this pause).
LowTraffic ==
    /\ registered
    /\ task[Reader].at = "none"
    /\ screen = "PENDINGDISCONNECT"
    /\ ReadByteCount
    /\ Goto(Reader, "traffic")
    /\ UNCHANGED <<network, screen, userpause, lastConnectedNetwork, disconnectTimers,
                   registered, display>>

TrafficScreenOff ==
    /\ task[Reader].at = "traffic"
    /\ screen' = "DISCONNECTED"
    /\ Goto(Reader, "reason")
    /\ UNCHANGED <<holdVars, network, userpause, lastConnectedNetwork, disconnectTimers,
                   registered, display>>

PauseOnLowTraffic ==
    /\ task[Reader].at = "reason"
    /\ PauseFromByteCount(getPauseReason(network, screen, userpause))
    /\ Leave(Reader)
    /\ UNCHANGED <<network, screen, userpause, lastConnectedNetwork, disconnectTimers,
                   registered, display>>

\* shouldBeRunning, asked by handleHold: the management thread reads screen,
\* userpause and network one after the other, and stops at the first that
\* says no.
AskScreen ==
    /\ mgmt = "held"
    /\ task[Reader].at = "none"
    /\ IF screen = "SHOULDBECONNECTED"
         THEN Goto(Reader, "user") /\ UNCHANGED holdVars
         ELSE AskCallback(FALSE) /\ UNCHANGED task
    /\ UNCHANGED <<network, screen, userpause, lastConnectedNetwork, disconnectTimers,
                   registered, display>>

AskUser ==
    /\ task[Reader].at = "user"
    /\ IF userpause = "SHOULDBECONNECTED"
         THEN Goto(Reader, "network") /\ UNCHANGED holdVars
         ELSE AskCallback(FALSE) /\ Leave(Reader)
    /\ UNCHANGED <<network, screen, userpause, lastConnectedNetwork, disconnectTimers,
                   registered, display>>

AskNetwork ==
    /\ task[Reader].at = "network"
    /\ AskCallback(network = "SHOULDBECONNECTED")
    /\ Leave(Reader)
    /\ UNCHANGED <<network, screen, userpause, lastConnectedNetwork, disconnectTimers,
                   registered, display>>

-----------------------------------------------------------------------------

\* The looper asks shouldBeRunning when a retry timer is due.
ResumeHoldFires ==
    /\ AtRest(Main)
    /\ ResumeHold(shouldBeConnected)
    /\ UNCHANGED deviceVars

\* The steps of a handler that has begun, on each kind of thread.
CallerGoesOn(t) ==
    \/ PauseWithReason(t) \/ UserCleared(t) \/ TestResume(t)
    \/ CallStep(t) /\ UNCHANGED deviceVars

LooperGoesOn == ScreenOffPaused \/ ScreenIsOn \/ ScreenCompare \/ ScreenStill

ReaderGoesOn ==
    \/ TrafficScreenOff \/ PauseOnLowTraffic
    \/ AskScreen \/ AskUser \/ AskNetwork
    \/ (ReadHold \/ ReadState \/ PostResumeHold \/ CallStep(Reader)) /\ UNCHANGED deviceVars

Next ==
    \/ Register
    \/ Connectivity
    \/ DelayDisconnect
    \/ \E t \in Callers : UserPauses(t) \/ UserResumes(t) \/ CallerGoesOn(t)
    \/ ScreenOff
    \/ ScreenOn
    \/ LooperGoesOn
    \/ LowTraffic
    \/ ReaderGoesOn
    \/ ResumeHoldFires
    \/ (Ovpn \/ OvpnReconnects) /\ UNCHANGED deviceVars

Spec == Init /\ [][Next]_vars

\* The looper, the binder threads, the management thread and OpenVPN go on
\* with what they have begun; the looper runs every runnable that is due,
\* between whatever broadcasts arrive (strong fairness: it is a queue).
\* Nobody has to change the network, touch the screen or press a button.
Fairness ==
    /\ \A t \in Callers : WF_vars(CallerGoesOn(t))
    /\ WF_vars(LooperGoesOn)
    /\ WF_vars(ReaderGoesOn)
    /\ SF_vars(ResumeHoldFires)
    /\ SF_vars(DelayDisconnect)
    /\ WF_vars(Ovpn /\ UNCHANGED deviceVars)
    /\ WF_vars(Register)

FairSpec == Spec /\ Fairness

-----------------------------------------------------------------------------

\* The main looper is the only thread that calls userPause (binder threads
\* exist too: IOpenVPNServiceInternal offers it to the user interface).
LooperOnly == Callers = {Main}

\* The thread is about to find, in userPause(false) or ACTION_SCREEN_ON, that
\* the VPN should be connected and was not.
Deciding(t) == task[t].at \in {"test", "compare"} /\ ~task[t].were

\* The release of a hold is under way: its HOLD line is unread or being
\* handled, a retry is posted, a thread is about to release it or does so,
\* or the release is written.
ReleaseUnderWay ==
    \/ InFlight("HOLD", inbox)
    \/ mgmt \in {"held", "retry"}
    \/ resumeTimers > 0
    \/ \E t \in Callers : call[t].at \in Releasing \/ Deciding(t)
    \/ InFlight("holdRelease", outbox)

\* Whenever the VPN should be connected and OpenVPN holds, its release is
\* under way.  It needs the flag to be set before the callback is asked
\* (handleHold) and the connectState fields written before the flag is
\* looked at (every handler): the other order on either side leaves a VPN on
\* hold that every part believes to be somebody else's business.  Claimed
\* with the looper as the only caller: a userPause(false) on a binder thread
\* that finds the network down may write its pause() after the looper has
\* seen the network come back, and remove the retry timer of a VPN that
\* should run.
ReleasePending == (shouldBeConnected /\ ovpn = "hold") => ReleaseUnderWay

\* The looper is about to write the user's reason.
UserReasonUnderWay ==
    \/ task[Main].at = "reason"
    \/ call[Main].at = "pause" /\ call[Main].why = "userPause"

\* lastPauseReason is what is shown when OpenVPN comes to its hold: while the
\* user pauses the VPN it is not overwritten by another reason.  Claimed
\* with the looper as the only caller and without pauses from the screen:
\* the management thread pauses on low traffic with a reason it may have
\* computed before the user paused.
UserReasonKept ==
    userpause = "DISCONNECTED" => lastPauseReason = "userPause" \/ UserReasonUnderWay

\* A connection that should be up for good is up again and again: after
\* every hold OpenVPN is released.
Reconnects == <>[]shouldBeConnected => []<>(ovpn = "up")

\* "holdRelease" is written only while the VPN should be connected, though
\* the decision was taken seconds before, at the other end of the sleep in
\* releaseHoldCmd.  (The return of the same network is left out here:
\* EstablishedOnSameNetwork is about it.)
ReleasedOnlyIfWanted ==
    [][\A t \in Callers :
          (call[t].at = "sending" /\ call'[t].at # "sending" /\ call[t].why # "sameNetwork")
             => shouldBeConnected]_vars

-----------------------------------------------------------------------------
(***************************************************************************)
(* What comments and texts of the program say and the code does not do;    *)
(* the runs named in the comments find the counterexamples.                *)
(***************************************************************************)

\* "Same network, connection still 'established'": the network that returns
\* within the grace period finds an established connection, which is only
\* told to rebind; networkChange never releases a hold there.  (Run
\* pause_same_network: a VPN the user has paused is released.)
EstablishedOnSameNetwork ==
    [][\A t \in Callers :
          (call'[t].at = "remove" /\ call'[t].why = "sameNetwork")
             => userpause # "DISCONNECTED"]_vars

=============================================================================
