---------------------------- MODULE HoldProtocol ----------------------------
(***************************************************************************)
(* The hold handshake between OpenVpnManagementThread and the OpenVPN      *)
(* process it manages.  OpenVPN stops in a "hold" whenever it (re)starts   *)
(* and writes a >HOLD line; it goes on when somebody sends "holdRelease".  *)
(* Three kinds of threads of the service meet here without a common lock:  *)
(* the main looper (broadcasts, timers), the binder threads (userPause     *)
(* through IOpenVPNServiceInternal) and the thread reading the management  *)
(* socket, so every access to a shared field is a step of its own.         *)
(* Whether the VPN should run is decided by a callback                     *)
(* (PausedStateCallback); here it may answer anything, PauseControl        *)
(* supplies the real one.  What is shown of the state is StatusMirror's    *)
(* subject and left out here.                                              *)
(***************************************************************************)
EXTENDS Naturals, Sequences

CONSTANTS
    Callers,        \* threads that call pause, resume and networkChange
    Main,           \* the one of them that runs the main looper's messages
    Reader,         \* the management thread; its byte count listener may pause
    MaxInFlight,    \* bound: lines and commands in flight when a new cause of one occurs
    MaxResume       \* bound: posted copies of mResumeHoldRunnable

ASSUME CallersAssumption == Main \in Callers /\ Reader \notin Callers
ASSUME BoundsAssumption  == {MaxInFlight, MaxResume} \subseteq Nat

VARIABLES
    waiting,          \* mWaitingForRelease
    lastPauseReason,  \* lastPauseReason
    resumeTimers,     \* copies of mResumeHoldRunnable posted to mResumeHandler
    mgmt,             \* where the management thread is in the line it handles
    call,             \* where each thread is in pause, resume or networkChange, and why
    ovpn,             \* the OpenVPN process: holding, or running past the hold
    inbox,            \* lines from OpenVPN not yet read
    outbox            \* commands to OpenVPN not yet read

holdVars == <<waiting, lastPauseReason, resumeTimers, mgmt, call, ovpn, inbox, outbox>>

Threads  == Callers \cup {Reader}
Reasons  == {"noNetwork", "userPause", "screenOff"}
Causes   == {"timer", "resume", "newNetwork", "sameNetwork"}
Lines    == {"HOLD", "STATE"}
Commands == {"SIGUSR1", "holdRelease", "networkChange"}

\* The next line of a thread inside pause, or inside one of the operations
\* that may release the hold.
Pausing   == {"pause", "cancel", "signal", "usr1"}
Releasing == {"change", "release", "remove", "asleep", "sending"}
Calls     == [at : Pausing, why : Reasons]
             \cup [at : {"idle", "rebind", "reset"} \cup Releasing, why : Causes]

Idle == [at |-> "idle", why |-> "timer"]

HoldTypeOK ==
    /\ waiting \in BOOLEAN
    /\ lastPauseReason \in Reasons
    /\ resumeTimers \in 0..MaxResume
    /\ mgmt \in {"idle", "held", "retry", "traffic"}
    /\ call \in [Threads -> Calls]
    /\ ovpn \in {"hold", "up"}
    /\ inbox \in Seq(Lines)
    /\ outbox \in Seq(Commands)

\* OpenVPN has started and stopped in its first hold.
HoldInit ==
    /\ waiting = FALSE
    /\ lastPauseReason = "noNetwork"
    /\ resumeTimers = 0
    /\ mgmt = "idle"
    /\ call = [t \in Threads |-> Idle]
    /\ ovpn = "hold"
    /\ inbox = <<"HOLD">>
    /\ outbox = <<>>

\* Only what the environment starts waits for room; the answers never do.
Room == Len(inbox) + Len(outbox) < MaxInFlight

Free(t) == call[t].at = "idle"

-----------------------------------------------------------------------------
(***************************************************************************)
(* pause, resume and networkChange, line by line.                          *)
(***************************************************************************)

\* The thread calls an operation, and finds itself before its first line.
Begin(t, at, why) ==
    /\ Free(t)
    /\ call' = [call EXCEPT ![t] = [at |-> at, why |-> why]]
    /\ UNCHANGED <<waiting, lastPauseReason, resumeTimers, mgmt, ovpn, inbox, outbox>>

Pause(t, reason) == Begin(t, "pause", reason)
Resume(t) == Begin(t, "release", "resume")
NetworkChange(t, same) == Begin(t, "change", IF same THEN "sameNetwork" ELSE "newNetwork")

\* The thread goes on from one line to another, or returns.
Go(t, from, to) ==
    /\ call[t].at = from
    /\ call' = [call EXCEPT ![t] = [at |-> to, why |-> call[t].why]]

Return(t, from) ==
    /\ call[t].at = from
    /\ call' = [call EXCEPT ![t] = Idle]

\* releaseHoldCmd is over, or not needed: resume() has a line left.
Done(t, from) == IF call[t].why = "resume" THEN Go(t, from, "reset") ELSE Return(t, from)

\* managmentCommand: append to the socket.
Command(c) == outbox' = Append(outbox, c)

\* pause: the reason is written, then signalusr1 ...
WriteReason(t) ==
    /\ Go(t, "pause", "cancel")
    /\ lastPauseReason' = call[t].why
    /\ UNCHANGED <<waiting, resumeTimers, mgmt, ovpn, inbox, outbox>>

\* ... removes the retry timers ...
CancelResume(t) ==
    /\ Go(t, "cancel", "signal")
    /\ resumeTimers' = 0
    /\ UNCHANGED <<waiting, lastPauseReason, mgmt, ovpn, inbox, outbox>>

\* ... and restarts OpenVPN, unless it holds already as far as the flag says.
TestSignal(t) ==
    /\ IF waiting THEN Return(t, "signal") ELSE Go(t, "signal", "usr1")
    /\ UNCHANGED <<waiting, lastPauseReason, resumeTimers, mgmt, ovpn, inbox, outbox>>

WriteUsr1(t) ==
    /\ Return(t, "usr1")
    /\ Command("SIGUSR1")
    /\ UNCHANGED <<waiting, lastPauseReason, resumeTimers, mgmt, ovpn, inbox>>

\* networkChange looks at the flag, and releaseHold looks again.
TestChange(t) ==
    /\ Go(t, "change", IF waiting THEN "release" ELSE "rebind")
    /\ UNCHANGED <<waiting, lastPauseReason, resumeTimers, mgmt, ovpn, inbox, outbox>>

WriteRebind(t) ==
    /\ Return(t, "rebind")
    /\ Command("networkChange")
    /\ UNCHANGED <<waiting, lastPauseReason, resumeTimers, mgmt, ovpn, inbox>>

TestRelease(t) ==
    /\ IF waiting THEN Go(t, "release", "remove") ELSE Done(t, "release")
    /\ UNCHANGED <<waiting, lastPauseReason, resumeTimers, mgmt, ovpn, inbox, outbox>>

\* releaseHoldCmd: the retry timers are removed before the sleep, the flag
\* is cleared after it, and then "holdRelease" is written.
RemoveTimers(t) ==
    /\ Go(t, "remove", "asleep")
    /\ resumeTimers' = 0
    /\ UNCHANGED <<waiting, lastPauseReason, mgmt, ovpn, inbox, outbox>>

Wake(t) ==
    /\ Go(t, "asleep", "sending")
    /\ waiting' = FALSE
    /\ UNCHANGED <<lastPauseReason, resumeTimers, mgmt, ovpn, inbox, outbox>>

\* Mutant of Send: no release if the user has paused meanwhile.
SendUnlessPaused(t) ==
    /\ Done(t, "sending")
    /\ IF lastPauseReason = "userPause" THEN UNCHANGED outbox ELSE Command("holdRelease")
    /\ UNCHANGED <<waiting, lastPauseReason, resumeTimers, mgmt, ovpn, inbox>>

Send(t) ==
    /\ Done(t, "sending")
    /\ Command("holdRelease")
    /\ UNCHANGED <<waiting, lastPauseReason, resumeTimers, mgmt, ovpn, inbox>>

\* The last line of resume().
ResetReason(t) ==
    /\ Return(t, "reset")
    /\ lastPauseReason' = "noNetwork"
    /\ UNCHANGED <<waiting, resumeTimers, mgmt, ovpn, inbox, outbox>>

CallStep(t) ==
    \/ WriteReason(t) \/ CancelResume(t) \/ TestSignal(t) \/ WriteUsr1(t)
    \/ TestChange(t) \/ WriteRebind(t) \/ TestRelease(t)
    \/ RemoveTimers(t) \/ Wake(t) \/ Send(t) \/ ResetReason(t)

\* Mutant of ResumeHold: the callback is not asked a second time.
ResumeHoldAnyway(should) ==
    /\ resumeTimers > 0
    /\ Free(Main)
    /\ resumeTimers' = resumeTimers - 1
    /\ call' = [call EXCEPT ![Main] = [at |-> "remove", why |-> "timer"]]
    /\ UNCHANGED <<waiting, lastPauseReason, mgmt, ovpn, inbox, outbox>>

\* mResumeHoldRunnable, run by the main looper when its delay is over: it
\* calls releaseHoldCmd without a look at the flag.
ResumeHold(should) ==
    /\ resumeTimers > 0
    /\ Free(Main)
    /\ resumeTimers' = resumeTimers - 1
    /\ IF should THEN call' = [call EXCEPT ![Main] = [at |-> "remove", why |-> "timer"]]
                 ELSE UNCHANGED call
    /\ UNCHANGED <<waiting, lastPauseReason, mgmt, ovpn, inbox, outbox>>

-----------------------------------------------------------------------------
(***************************************************************************)
(* The management thread, one line of OpenVPN at a time.                   *)
(***************************************************************************)

\* Between two lines, having left what the last one called.
AtLine == mgmt = "idle" /\ Free(Reader)

ReadLine(line) ==
    /\ AtLine
    /\ inbox # <<>>
    /\ Head(inbox) = line
    /\ inbox' = Tail(inbox)

\* handleHold: first the flag is set ...
ReadHold ==
    /\ ReadLine("HOLD")
    /\ waiting' = TRUE
    /\ mgmt' = "held"
    /\ UNCHANGED <<lastPauseReason, resumeTimers, call, ovpn, outbox>>

\* ... then the callback is asked ...
AskCallback(should) ==
    /\ mgmt = "held"
    /\ mgmt' = IF should THEN "retry" ELSE "idle"
    /\ UNCHANGED <<waiting, lastPauseReason, resumeTimers, call, ovpn, inbox, outbox>>

\* Mutant of PostResumeHold: nothing is posted.
PostNoResumeHold ==
    /\ mgmt = "retry"
    /\ mgmt' = "idle"
    /\ UNCHANGED <<waiting, lastPauseReason, resumeTimers, call, ovpn, inbox, outbox>>

\* ... and if it says yes the resume runnable is posted.
PostResumeHold ==
    /\ mgmt = "retry"
    /\ resumeTimers < MaxResume
    /\ resumeTimers' = resumeTimers + 1
    /\ mgmt' = "idle"
    /\ UNCHANGED <<waiting, lastPauseReason, call, ovpn, inbox, outbox>>

\* processState: a state line of a running OpenVPN, for VpnStatus only.
ReadState ==
    /\ ReadLine("STATE")
    /\ UNCHANGED <<waiting, lastPauseReason, resumeTimers, mgmt, call, ovpn, outbox>>

\* processByteCount calls the listener.  OpenVPN writes BYTECOUNT lines only
\* while it runs; one not yet read stands before the HOLD of the restart.
ReadByteCount ==
    /\ AtLine
    /\ Room
    /\ ovpn = "up" \/ inbox # <<>>
    /\ mgmt' = "traffic"
    /\ UNCHANGED <<waiting, lastPauseReason, resumeTimers, call, ovpn, inbox, outbox>>

\* The listener pauses, on this thread.
PauseFromByteCount(reason) ==
    /\ mgmt = "traffic"
    /\ mgmt' = "idle"
    /\ Free(Reader)
    /\ call' = [call EXCEPT ![Reader] = [at |-> "pause", why |-> reason]]
    /\ UNCHANGED <<waiting, lastPauseReason, resumeTimers, ovpn, inbox, outbox>>

-----------------------------------------------------------------------------
(***************************************************************************)
(* The OpenVPN process, as the service uses it.                            *)
(***************************************************************************)

OvpnTakes(c) ==
    /\ outbox # <<>>
    /\ Head(outbox) = c
    /\ outbox' = Tail(outbox)
    /\ UNCHANGED <<waiting, lastPauseReason, resumeTimers, mgmt, call>>

OvpnHolds ==
    /\ ovpn' = "hold"
    /\ inbox' = Append(inbox, "HOLD")

\* SIGUSR1 restarts the connection: OpenVPN holds again and says so, even
\* if it was holding already.
OvpnRestarts == OvpnTakes("SIGUSR1") /\ OvpnHolds

\* A release that finds no hold is ignored.
OvpnReleased ==
    /\ OvpnTakes("holdRelease")
    /\ ovpn' = "up"
    /\ IF ovpn = "hold" THEN inbox' = Append(inbox, "STATE")
                        ELSE UNCHANGED inbox

OvpnRebinds == OvpnTakes("networkChange") /\ UNCHANGED <<ovpn, inbox>>

\* The connection fails: OpenVPN restarts by itself.
OvpnReconnects ==
    /\ ovpn = "up"
    /\ Room
    /\ OvpnHolds
    /\ UNCHANGED <<waiting, lastPauseReason, resumeTimers, mgmt, call, outbox>>

Ovpn == OvpnRestarts \/ OvpnReleased \/ OvpnRebinds

-----------------------------------------------------------------------------

CallerBegins(t) ==
    \/ \E r \in Reasons : Pause(t, r)
    \/ Resume(t)
    \/ \E same \in BOOLEAN : NetworkChange(t, same)

ManagementStep ==
    \/ ReadHold
    \/ \E should \in BOOLEAN : AskCallback(should)
    \/ PostResumeHold
    \/ ReadState
    \/ ReadByteCount
    \/ \E r \in Reasons : PauseFromByteCount(r)

HoldNext ==
    \/ \E t \in Callers : CallerBegins(t)
    \/ \E t \in Threads : CallStep(t)
    \/ \E should \in BOOLEAN : ResumeHold(should)
    \/ ManagementStep
    \/ Ovpn
    \/ OvpnReconnects

HoldSpec == HoldInit /\ [][HoldNext]_holdVars

-----------------------------------------------------------------------------

InFlight(m, channel) == \E i \in 1..Len(channel) : channel[i] = m

\* A hold of OpenVPN is never forgotten: as long as OpenVPN holds, its HOLD
\* line is unread, or mWaitingForRelease is set, or the release is being
\* written or on its way.  Otherwise resume() and networkChange() would do
\* nothing for ever, since both look at the flag only.  It rests on
\* releaseHoldCmd clearing the flag before it writes, with handleHold
\* setting it on another thread.
NoLostHold ==
    ovpn = "hold" =>
        \/ waiting
        \/ InFlight("HOLD", inbox)
        \/ \E t \in Threads : call[t].at = "sending"
        \/ InFlight("holdRelease", outbox)

=============================================================================
