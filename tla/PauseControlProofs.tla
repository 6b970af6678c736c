------------------------- MODULE PauseControlProofs -------------------------
(***************************************************************************)
(* What PauseControl and HoldProtocol guarantee for any set of threads,    *)
(* any networks and any bounds.                                            *)
(***************************************************************************)
EXTENDS PauseControl, TLAPS

-----------------------------------------------------------------------------
(***************************************************************************)
(* Messages in a channel.                                                  *)
(***************************************************************************)

\* What an append adds is in flight, and what was in flight stays so.
LEMMA InFlightAppend ==
    ASSUME NEW S, NEW s \in Seq(S), NEW m \in S, NEW x \in S
    PROVE  InFlight(m, Append(s, x)) <=> InFlight(m, s) \/ m = x
<1>1. Len(Append(s, x)) = Len(s) + 1 /\ Len(s) \in Nat
  OBVIOUS
<1>2. \A i \in 1..Len(s) : Append(s, x)[i] = s[i]
  OBVIOUS
<1>3. Append(s, x)[Len(s) + 1] = x
  OBVIOUS
<1> QED
  BY <1>1, <1>2, <1>3 DEF InFlight

\* In particular a message just written is in flight.
LEMMA InFlightNew ==
    \A s \in Seq(Lines) \cup Seq(Commands), m \in Lines \cup Commands :
        InFlight(m, Append(s, m))
<1> SUFFICES ASSUME NEW s \in Seq(Lines) \cup Seq(Commands), NEW m \in Lines \cup Commands
             PROVE  InFlight(m, Append(s, m))
  OBVIOUS
<1>1. Len(s) \in Nat /\ Len(Append(s, m)) = Len(s) + 1 /\ Append(s, m)[Len(s) + 1] = m
  OBVIOUS
<1>2. Len(s) + 1 \in 1..Len(Append(s, m))
  BY <1>1
<1> QED
  BY <1>1, <1>2 DEF InFlight

\* Taking the head loses that message only.
LEMMA InFlightTail ==
    ASSUME NEW S, NEW s \in Seq(S), s # <<>>, NEW m \in S, InFlight(m, s)
    PROVE  m = Head(s) \/ InFlight(m, Tail(s))
<1>1. PICK i \in 1..Len(s) : s[i] = m
  BY DEF InFlight
<1>2. CASE i = 1
  BY <1>1, <1>2
<1>3. CASE i # 1
  <2>1. i - 1 \in 1..Len(Tail(s)) /\ Tail(s)[i - 1] = s[i]
    BY <1>3
  <2> QED
    BY <2>1, <1>1 DEF InFlight
<1> QED
  BY <1>2, <1>3

-----------------------------------------------------------------------------
(***************************************************************************)
(* HoldProtocol: types, and no hold is lost.                               *)
(***************************************************************************)

\* A thread in pause has a reason to write, a thread in one of the other
\* operations a cause.
LEMMA PlaceTypes ==
    ASSUME HoldTypeOK, NEW t \in Threads
    PROVE  /\ call[t].at \in Pausing \cup Releasing \cup {"idle", "rebind", "reset"}
           /\ call[t].at \in Pausing => call[t].why \in Reasons
           /\ call[t].at \notin Pausing => call[t].why \in Causes
<1>1. call[t] \in Calls
  BY DEF HoldTypeOK
<1> QED
  BY <1>1 DEF Calls, Pausing, Releasing

\* What becomes of the places of the threads when one of them goes on ...
LEMMA GoPlaces ==
    ASSUME HoldTypeOK, NEW t \in Threads, NEW from, NEW to, Go(t, from, to),
           \/ call[t].at \in Pausing /\ to \in Pausing
           \/ call[t].at \notin Pausing /\ to \in {"rebind", "reset"} \cup Releasing
    PROVE  /\ call' \in [Threads -> Calls]
           /\ call'[t] = [at |-> to, why |-> call[t].why]
           /\ \A u \in Threads : u # t => call'[u] = call[u]
<1>1. [at |-> to, why |-> call[t].why] \in Calls
  BY PlaceTypes DEF Calls
<1> QED
  BY <1>1 DEF Go, HoldTypeOK

\* ... and when it returns, or finds a line of resume() left.
LEMMA ReturnPlaces ==
    ASSUME HoldTypeOK, NEW t \in Threads, NEW from, Return(t, from)
    PROVE  /\ call' \in [Threads -> Calls]
           /\ call'[t] = Idle
           /\ \A u \in Threads : u # t => call'[u] = call[u]
<1>1. Idle \in Calls
  BY DEF Idle, Calls, Causes
<1> QED
  BY <1>1 DEF Return, HoldTypeOK

LEMMA DonePlaces ==
    ASSUME HoldTypeOK, NEW t \in Threads, NEW from, Done(t, from), from \in Releasing
    PROVE  /\ call' \in [Threads -> Calls]
           /\ call'[t] = Idle \/ call'[t] = [at |-> "reset", why |-> "resume"]
           /\ \A u \in Threads : u # t => call'[u] = call[u]
<1>1. CASE call[t].why = "resume"
  <2>1. Go(t, from, "reset")
    BY <1>1 DEF Done
  <2>2. call[t].at \notin Pausing
    BY <2>1 DEF Go, Releasing, Pausing
  <2> QED
    BY <1>1, <2>1, <2>2, GoPlaces
<1>2. CASE call[t].why # "resume"
  BY <1>2, ReturnPlaces DEF Done
<1> QED
  BY <1>1, <1>2

\* Where a thread stands when it begins an operation.
LEMMA BeginPlaces ==
    ASSUME HoldTypeOK, NEW t \in Threads, NEW c \in Calls, call' = [call EXCEPT ![t] = c]
    PROVE  /\ call' \in [Threads -> Calls]
           /\ call'[t] = c
           /\ \A u \in Threads : u # t => call'[u] = call[u]
  BY DEF HoldTypeOK

\* Every line of pause, resume and networkChange keeps the types.
LEMMA CallTypes ==
    ASSUME HoldTypeOK, NEW t \in Threads, CallStep(t)
    PROVE  HoldTypeOK'
<1> USE DEF HoldTypeOK
<1>1. CASE WriteReason(t)
  <2>1. call' \in [Threads -> Calls]
    BY <1>1, GoPlaces DEF WriteReason, Pausing, Go
  <2>2. lastPauseReason' \in Reasons
    BY <1>1, PlaceTypes DEF WriteReason, Pausing, Go
  <2> QED
    BY <1>1, <2>1, <2>2 DEF WriteReason
<1>2. CASE CancelResume(t)
  <2>1. call' \in [Threads -> Calls]
    BY <1>2, GoPlaces DEF CancelResume, Pausing, Go
  <2> QED
    BY <1>2, <2>1, BoundsAssumption DEF CancelResume
<1>3. CASE TestSignal(t)
  <2>1. call' \in [Threads -> Calls]
    BY <1>3, GoPlaces, ReturnPlaces DEF TestSignal, Pausing, Go
  <2> QED
    BY <1>3, <2>1 DEF TestSignal
<1>4. CASE WriteUsr1(t)
  <2>1. call' \in [Threads -> Calls]
    BY <1>4, ReturnPlaces DEF WriteUsr1
  <2> QED
    BY <1>4, <2>1 DEF WriteUsr1, Command, Commands
<1>5. CASE TestChange(t)
  <2>1. call' \in [Threads -> Calls]
    BY <1>5, GoPlaces DEF TestChange, Pausing, Releasing, Go
  <2> QED
    BY <1>5, <2>1 DEF TestChange
<1>6. CASE WriteRebind(t)
  <2>1. call' \in [Threads -> Calls]
    BY <1>6, ReturnPlaces DEF WriteRebind
  <2> QED
    BY <1>6, <2>1 DEF WriteRebind, Command, Commands
<1>7. CASE TestRelease(t)
  <2>1. call' \in [Threads -> Calls]
    BY <1>7, GoPlaces, DonePlaces DEF TestRelease, Pausing, Releasing, Go
  <2> QED
    BY <1>7, <2>1 DEF TestRelease
<1>8. CASE RemoveTimers(t)
  <2>1. call' \in [Threads -> Calls]
    BY <1>8, GoPlaces DEF RemoveTimers, Pausing, Releasing, Go
  <2> QED
    BY <1>8, <2>1, BoundsAssumption DEF RemoveTimers
<1>9. CASE Wake(t)
  <2>1. call' \in [Threads -> Calls]
    BY <1>9, GoPlaces DEF Wake, Pausing, Releasing, Go
  <2> QED
    BY <1>9, <2>1 DEF Wake
<1>10. CASE Send(t)
  <2>1. call' \in [Threads -> Calls]
    BY <1>10, DonePlaces DEF Send, Releasing
  <2> QED
    BY <1>10, <2>1 DEF Send, Command, Commands
<1>11. CASE ResetReason(t)
  <2>1. call' \in [Threads -> Calls]
    BY <1>11, ReturnPlaces DEF ResetReason
  <2> QED
    BY <1>11, <2>1 DEF ResetReason, Reasons
<1> QED
  BY <1>1, <1>2, <1>3, <1>4, <1>5, <1>6, <1>7, <1>8, <1>9, <1>10, <1>11 DEF CallStep

\* So does the beginning of an operation ...
LEMMA BeginTypes ==
    ASSUME HoldTypeOK, NEW t \in Callers, CallerBegins(t)
    PROVE  HoldTypeOK'
<1>1. PICK c \in Calls : /\ call' = [call EXCEPT ![t] = c]
                         /\ UNCHANGED <<waiting, lastPauseReason, resumeTimers, mgmt,
                                        ovpn, inbox, outbox>>
  <2>1. \A r \in Reasons : [at |-> "pause", why |-> r] \in Calls
    BY DEF Calls, Pausing
  <2>2. \A w \in Causes : /\ [at |-> "release", why |-> w] \in Calls
                          /\ [at |-> "change", why |-> w] \in Calls
    BY DEF Calls, Releasing
  <2> QED
    BY <2>1, <2>2 DEF CallerBegins, Pause, Resume, NetworkChange, Begin, Causes
<1> QED
  BY <1>1, BeginPlaces DEF HoldTypeOK, Threads

\* ... the runnable of the looper ...
LEMMA ResumeHoldTypes ==
    ASSUME HoldTypeOK, NEW should \in BOOLEAN, ResumeHold(should)
    PROVE  HoldTypeOK'
<1>1. [at |-> "remove", why |-> "timer"] \in Calls
  BY DEF Calls, Causes, Releasing
<1>2. call' \in [Threads -> Calls]
  BY <1>1, BeginPlaces, CallersAssumption DEF ResumeHold, HoldTypeOK, Threads
<1>3. resumeTimers' \in 0..MaxResume
  BY BoundsAssumption DEF ResumeHold, HoldTypeOK
<1> QED
  BY <1>2, <1>3 DEF ResumeHold, HoldTypeOK

\* ... the management thread ...
LEMMA ManagementTypes ==
    ASSUME HoldTypeOK, ManagementStep
    PROVE  HoldTypeOK'
<1> USE DEF HoldTypeOK
<1>1. CASE ReadHold
  BY <1>1 DEF ReadHold, ReadLine
<1>2. ASSUME NEW should \in BOOLEAN, AskCallback(should) PROVE HoldTypeOK'
  BY <1>2 DEF AskCallback
<1>3. CASE PostResumeHold
  BY <1>3, BoundsAssumption DEF PostResumeHold
<1>4. CASE ReadState
  BY <1>4 DEF ReadState, ReadLine
<1>5. CASE ReadByteCount
  BY <1>5 DEF ReadByteCount
<1>6. ASSUME NEW r \in Reasons, PauseFromByteCount(r) PROVE HoldTypeOK'
  <2>1. [at |-> "pause", why |-> r] \in Calls
    BY DEF Calls, Pausing
  <2>2. call' \in [Threads -> Calls]
    BY <1>6, <2>1, BeginPlaces DEF PauseFromByteCount, Threads
  <2> QED
    BY <1>6, <2>2 DEF PauseFromByteCount
<1> QED
  BY <1>1, <1>2, <1>3, <1>4, <1>5, <1>6 DEF ManagementStep

\* ... and OpenVPN.
LEMMA OvpnTypes ==
    ASSUME HoldTypeOK, Ovpn \/ OvpnReconnects
    PROVE  HoldTypeOK'
<1> USE DEF HoldTypeOK, Lines, Commands
<1>1. CASE OvpnRestarts
  BY <1>1 DEF OvpnRestarts, OvpnTakes, OvpnHolds
<1>2. CASE OvpnReleased
  <2>1. outbox' \in Seq(Commands)
    BY <1>2 DEF OvpnReleased, OvpnTakes
  <2>2. inbox' = inbox \/ inbox' = Append(inbox, "STATE")
    BY <1>2 DEF OvpnReleased
  <2>3. inbox' \in Seq(Lines)
    BY <2>2
  <2> QED
    BY <1>2, <2>1, <2>3 DEF OvpnReleased, OvpnTakes
<1>3. CASE OvpnRebinds
  BY <1>3 DEF OvpnRebinds, OvpnTakes
<1>4. CASE OvpnReconnects
  BY <1>4 DEF OvpnReconnects, OvpnHolds
<1> QED
  BY <1>1, <1>2, <1>3, <1>4 DEF Ovpn

\* The types hold at first.
LEMMA HoldTypesAtFirst == HoldInit => HoldTypeOK
<1> SUFFICES ASSUME HoldInit PROVE HoldTypeOK
  OBVIOUS
<1>1. inbox \in Seq(Lines) /\ outbox \in Seq(Commands)
  BY DEF HoldInit, Lines, Commands
<1>2. resumeTimers \in 0..MaxResume
  BY BoundsAssumption DEF HoldInit
<1>3. Idle \in Calls
  BY DEF Idle, Calls, Causes
<1>4. call \in [Threads -> Calls]
  BY <1>3 DEF HoldInit
<1> QED
  BY <1>1, <1>2, <1>4 DEF HoldInit, HoldTypeOK, Reasons

\* HoldProtocol is type-correct for every set of callers.
THEOREM HoldTypeCorrect == HoldSpec => []HoldTypeOK
<1>1. HoldTypeOK /\ [HoldNext]_holdVars => HoldTypeOK'
  <2> SUFFICES ASSUME HoldTypeOK, [HoldNext]_holdVars PROVE HoldTypeOK'
    OBVIOUS
  <2>1. ASSUME NEW t \in Callers, CallerBegins(t) PROVE HoldTypeOK'
    BY <2>1, BeginTypes
  <2>2. ASSUME NEW t \in Threads, CallStep(t) PROVE HoldTypeOK'
    BY <2>2, CallTypes
  <2>3. ASSUME NEW should \in BOOLEAN, ResumeHold(should) PROVE HoldTypeOK'
    BY <2>3, ResumeHoldTypes
  <2>4. CASE ManagementStep
    BY <2>4, ManagementTypes
  <2>5. CASE Ovpn \/ OvpnReconnects
    BY <2>5, OvpnTypes
  <2>6. CASE UNCHANGED holdVars
    BY <2>6 DEF holdVars, HoldTypeOK
  <2> QED
    BY <2>1, <2>2, <2>3, <2>4, <2>5, <2>6 DEF HoldNext
<1> QED
  BY <1>1, HoldTypesAtFirst, PTL DEF HoldSpec

\* A command more in the outbox, or the same outbox, loses no command.
LEMMA OutboxGrows ==
    ASSUME HoldTypeOK, UNCHANGED outbox \/ (\E c \in Commands : outbox' = Append(outbox, c)),
           NEW m \in Commands, InFlight(m, outbox)
    PROVE  InFlight(m, outbox)'
<1>1. outbox \in Seq(Commands)
  BY DEF HoldTypeOK
<1>2. \A c \in Commands : InFlight(m, Append(outbox, c))
  BY <1>1, InFlightAppend
<1>3. InFlight(m, outbox')
  BY <1>2
<1> QED
  BY <1>3 DEF InFlight

\* A step that leaves OpenVPN, the flag and the unread lines alone and only
\* adds commands keeps the hold known, if it moves no caller past sending.
LEMMA HoldFrame ==
    ASSUME HoldTypeOK, NoLostHold, UNCHANGED <<ovpn, waiting, inbox>>,
           \A t \in Threads : call[t].at = "sending" => call'[t].at = "sending",
           UNCHANGED outbox \/ (\E c \in Commands : outbox' = Append(outbox, c))
    PROVE  NoLostHold'
<1>1. InFlight("holdRelease", outbox) => InFlight("holdRelease", outbox)'
  BY OutboxGrows DEF Commands
<1>2. InFlight("HOLD", inbox)' <=> InFlight("HOLD", inbox)
  BY DEF InFlight
<1> QED
  BY <1>1, <1>2 DEF NoLostHold

\* No line of the operations loses a hold: the flag goes down only on the
\* way to writing the release.
LEMMA CallKeepsHold ==
    ASSUME HoldTypeOK, NoLostHold, NEW t \in Threads, CallStep(t)
    PROVE  NoLostHold'
<1>1. CASE Wake(t)
  <2>1. call'[t].at = "sending"
    BY <1>1, GoPlaces DEF Wake, Go, Pausing, Releasing
  <2> QED
    BY <2>1 DEF NoLostHold
<1>2. CASE Send(t)
  <2>1. InFlight("holdRelease", outbox')
    <3>1. outbox \in Seq(Commands) /\ "holdRelease" \in Commands
      BY DEF HoldTypeOK, Commands
    <3>2. outbox' = Append(outbox, "holdRelease")
      BY <1>2 DEF Send, Command
    <3> QED
      BY <3>1, <3>2, InFlightNew
  <2> QED
    BY <2>1 DEF NoLostHold, InFlight
<1>3. CASE \/ WriteReason(t) \/ CancelResume(t) \/ TestSignal(t) \/ WriteUsr1(t)
           \/ TestChange(t) \/ WriteRebind(t) \/ TestRelease(t)
           \/ RemoveTimers(t) \/ ResetReason(t)
  <2>1. UNCHANGED <<ovpn, waiting, inbox>>
    BY <1>3 DEF WriteReason, CancelResume, TestSignal, WriteUsr1, TestChange,
                WriteRebind, TestRelease, RemoveTimers, ResetReason
  <2>2. UNCHANGED outbox \/ (\E c \in Commands : outbox' = Append(outbox, c))
    BY <1>3 DEF WriteReason, CancelResume, TestSignal, WriteUsr1, TestChange,
                WriteRebind, TestRelease, RemoveTimers, ResetReason, Command, Commands
  <2>3. call[t].at # "sending"
    BY <1>3 DEF WriteReason, CancelResume, TestSignal, WriteUsr1, TestChange,
                WriteRebind, TestRelease, RemoveTimers, ResetReason, Go, Return, Done
  <2>4. \A u \in Threads : u # t => call'[u] = call[u]
    BY <1>3 DEF WriteReason, CancelResume, TestSignal, WriteUsr1, TestChange,
                WriteRebind, TestRelease, RemoveTimers, ResetReason, Go, Return, Done,
                HoldTypeOK
  <2> QED
    BY <2>1, <2>2, <2>3, <2>4, HoldFrame
<1> QED
  BY <1>1, <1>2, <1>3 DEF CallStep

\* Nor does the beginning of an operation, or a retry.
LEMMA BeginKeepsHold ==
    ASSUME HoldTypeOK, NoLostHold,
           \/ \E t \in Callers : CallerBegins(t)
           \/ \E should \in BOOLEAN : ResumeHold(should)
    PROVE  NoLostHold'
<1>1. UNCHANGED <<ovpn, waiting, inbox, outbox>>
  BY DEF CallerBegins, Pause, Resume, NetworkChange, Begin, ResumeHold
<1>2. \A u \in Threads : call[u].at = "sending" => call'[u].at = "sending"
  <2>1. PICK t \in Threads : Free(t) /\ \A u \in Threads : u # t => call'[u] = call[u]
    BY CallersAssumption
       DEF CallerBegins, Pause, Resume, NetworkChange, Begin, ResumeHold, Threads, HoldTypeOK
  <2> QED
    BY <2>1 DEF Free
<1> QED
  BY <1>1, <1>2, HoldFrame

\* Nor does the management thread: a HOLD line is replaced by the flag.
LEMMA ManagementKeepsHold ==
    ASSUME HoldTypeOK, NoLostHold, ManagementStep
    PROVE  NoLostHold'
<1>1. CASE ReadHold
  BY <1>1 DEF ReadHold, NoLostHold
<1>2. ASSUME NEW should \in BOOLEAN, AskCallback(should) PROVE NoLostHold'
  BY <1>2, HoldFrame DEF AskCallback
<1>3. CASE PostResumeHold
  BY <1>3, HoldFrame DEF PostResumeHold
<1>4. CASE ReadState
  <2>1. InFlight("HOLD", inbox) => InFlight("HOLD", inbox')
    BY <1>4, InFlightTail DEF ReadState, ReadLine, HoldTypeOK, Lines
  <2> QED
    BY <1>4, <2>1 DEF ReadState, NoLostHold, InFlight
<1>5. CASE ReadByteCount
  BY <1>5, HoldFrame DEF ReadByteCount
<1>6. ASSUME NEW r \in Reasons, PauseFromByteCount(r) PROVE NoLostHold'
  <2>1. \A u \in Threads : call[u].at = "sending" => call'[u].at = "sending"
    BY <1>6 DEF PauseFromByteCount, Free, HoldTypeOK
  <2> QED
    BY <1>6, <2>1, HoldFrame DEF PauseFromByteCount
<1> QED
  BY <1>1, <1>2, <1>3, <1>4, <1>5, <1>6 DEF ManagementStep

\* Nor does OpenVPN: it holds with a HOLD line and takes a release by going up.
LEMMA OvpnKeepsHold ==
    ASSUME HoldTypeOK, NoLostHold, Ovpn \/ OvpnReconnects
    PROVE  NoLostHold'
<1>1. ASSUME OvpnHolds PROVE NoLostHold'
  <2>1. InFlight("HOLD", inbox')
    <3>1. inbox \in Seq(Lines) /\ "HOLD" \in Lines
      BY DEF HoldTypeOK, Lines
    <3>2. inbox' = Append(inbox, "HOLD")
      BY <1>1 DEF OvpnHolds
    <3> QED
      BY <3>1, <3>2, InFlightNew
  <2> QED
    BY <2>1 DEF NoLostHold, InFlight
<1>2. CASE OvpnReleased
  BY <1>2 DEF OvpnReleased, NoLostHold
<1>3. CASE OvpnRebinds
  <2>1. InFlight("holdRelease", outbox) => InFlight("holdRelease", outbox')
    BY <1>3, InFlightTail DEF OvpnRebinds, OvpnTakes, HoldTypeOK, Commands
  <2> QED
    BY <1>3, <2>1 DEF OvpnRebinds, OvpnTakes, NoLostHold, InFlight
<1> QED
  BY <1>1, <1>2, <1>3 DEF Ovpn, OvpnRestarts, OvpnReconnects

\* Whatever the pause callback answers and however many threads call pause,
\* resume and networkChange, line by line in any order, a hold of OpenVPN is
\* never forgotten.
THEOREM HoldNeverLost == HoldSpec => []NoLostHold
<1>1. HoldInit => NoLostHold
  BY DEF HoldInit, NoLostHold, InFlight
<1>2. HoldTypeOK /\ NoLostHold /\ [HoldNext]_holdVars => NoLostHold'
  <2> SUFFICES ASSUME HoldTypeOK, NoLostHold, [HoldNext]_holdVars PROVE NoLostHold'
    OBVIOUS
  <2>1. CASE (\E t \in Callers : CallerBegins(t)) \/ (\E should \in BOOLEAN : ResumeHold(should))
    BY <2>1, BeginKeepsHold
  <2>2. ASSUME NEW t \in Threads, CallStep(t) PROVE NoLostHold'
    BY <2>2, CallKeepsHold
  <2>3. CASE ManagementStep
    BY <2>3, ManagementKeepsHold
  <2>4. CASE Ovpn \/ OvpnReconnects
    BY <2>4, OvpnKeepsHold
  <2>5. CASE UNCHANGED holdVars
    BY <2>5, HoldFrame DEF holdVars
  <2> QED
    BY <2>1, <2>2, <2>3, <2>4, <2>5 DEF HoldNext
<1> QED
  BY <1>1, <1>2, HoldTypeCorrect, PTL DEF HoldSpec

-----------------------------------------------------------------------------
(***************************************************************************)
(* PauseControl implements HoldProtocol: every step of a handler is one of *)
(* its steps, or leaves it alone.                                          *)
(***************************************************************************)

\* getPauseReason gives one of the three reasons, whatever the state.
LEMMA ReasonsGiven ==
    \A net, scr, user : getPauseReason(net, scr, user) \in Reasons
  BY DEF getPauseReason, Reasons

\* Pause, resume and networkChange by the receiver are caller steps.
LEMMA OperationIsHoldStep ==
    ASSUME NEW t \in Callers,
           \/ \E r \in Reasons : Pause(t, r)
           \/ Resume(t)
           \/ \E same \in BOOLEAN : NetworkChange(t, same)
    PROVE  HoldNext
  BY DEF CallerBegins, HoldNext

\* networkStateChange begins one operation on the management thread, or none.
LEMMA NetworkStep ==
    ASSUME networkStateChange
    PROVE  [HoldNext]_holdVars
<1>1. ASSUME NEW n \in Nets, NetworkConnected(n) PROVE [HoldNext]_holdVars
  <2>1. \/ NetworkChange(Main, TRUE)
        \/ UNCHANGED holdVars
        \/ NetworkChange(Main, n = lastConnectedNetwork)
        \/ Resume(Main)
    BY <1>1 DEF NetworkConnected
  <2>2. (n = lastConnectedNetwork) \in BOOLEAN
    OBVIOUS
  <2> QED
    BY <2>1, <2>2, CallersAssumption, OperationIsHoldStep
<1>2. CASE NetworkLost \/ NetworkIgnored \/ NetworkUnaffected
  BY <1>2 DEF NetworkLost, NetworkIgnored, NetworkUnaffected, holdVars
<1> QED
  BY <1>1, <1>2 DEF networkStateChange

\* Every step of the receiver is a step of HoldProtocol or none.
LEMMA StepImplements ==
    ASSUME [Next]_vars
    PROVE  [HoldNext]_holdVars
<1>1. CASE Register \/ Connectivity
  BY <1>1, NetworkStep DEF Register, Connectivity
<1>2. CASE DelayDisconnect \/ ScreenOff \/ ScreenOn
  BY <1>2 DEF DelayDisconnect, ScreenOff, ScreenOn, holdVars
<1>3. ASSUME NEW t \in Callers, UserPauses(t) \/ UserResumes(t) \/ UserCleared(t)
      PROVE [HoldNext]_holdVars
  BY <1>3 DEF UserPauses, UserResumes, UserCleared, holdVars
<1>4. ASSUME NEW t \in Callers, PauseWithReason(t) \/ TestResume(t) PROVE [HoldNext]_holdVars
  <2>1. \/ Pause(t, getPauseReason(network, screen, userpause))
        \/ Resume(t)
        \/ UNCHANGED holdVars
    BY <1>4 DEF PauseWithReason, TestResume
  <2> QED
    BY <2>1, ReasonsGiven, OperationIsHoldStep
<1>5. ASSUME NEW t \in Threads, CallStep(t) PROVE [HoldNext]_holdVars
  BY <1>5 DEF HoldNext
<1>6. CASE LooperGoesOn
  BY <1>6, CallersAssumption, OperationIsHoldStep
     DEF LooperGoesOn, ScreenOffPaused, ScreenIsOn, ScreenCompare, ScreenStill, holdVars
<1>7. CASE LowTraffic
  BY <1>7 DEF LowTraffic, HoldNext, ManagementStep
<1>8. CASE ReaderGoesOn
  <2>1. CASE TrafficScreenOff
    BY <2>1 DEF TrafficScreenOff, holdVars
  <2>2. CASE PauseOnLowTraffic
    BY <2>2, ReasonsGiven DEF PauseOnLowTraffic, HoldNext, ManagementStep
  <2>3. CASE AskScreen \/ AskUser \/ AskNetwork
    <3>1. (network = "SHOULDBECONNECTED") \in BOOLEAN
      OBVIOUS
    <3> QED
      BY <2>3, <3>1 DEF AskScreen, AskUser, AskNetwork, HoldNext, ManagementStep
  <2>4. CASE ReadHold \/ ReadState \/ PostResumeHold
    BY <2>4 DEF HoldNext, ManagementStep
  <2>5. CASE CallStep(Reader)
    BY <2>5, <1>5 DEF Threads
  <2> QED
    BY <1>8, <2>1, <2>2, <2>3, <2>4, <2>5 DEF ReaderGoesOn
<1>9. CASE ResumeHoldFires
  <2>1. shouldBeConnected \in BOOLEAN
    BY DEF shouldBeConnected, ShouldBe
  <2> QED
    BY <1>9, <2>1 DEF ResumeHoldFires, HoldNext
<1>10. CASE Ovpn \/ OvpnReconnects
  BY <1>10 DEF HoldNext
<1>11. CASE UNCHANGED vars
  BY <1>11 DEF vars, holdVars
<1> QED
  BY <1>1, <1>2, <1>3, <1>4, <1>5, <1>6, <1>7, <1>8, <1>9, <1>10, <1>11
     DEF Next, CallerGoesOn, Threads

\* The device receiver uses the management thread only through the protocol:
\* PauseControl implements HoldProtocol, so what holds of the protocol under
\* any callback holds under this one.
THEOREM Implements == Spec => HoldSpec
<1>1. Init => HoldInit
  BY DEF Init
<1> QED
  BY <1>1, StepImplements, PTL DEF Spec, HoldSpec

\* No hold is lost under DeviceStateReceiver, for any binder threads, networks,
\* preferences and bounds.
THEOREM PauseNeverLosesHold == Spec => []NoLostHold
  BY Implements, HoldNeverLost, PTL

-----------------------------------------------------------------------------
(***************************************************************************)
(* PauseControl: types.                                                    *)
(***************************************************************************)

Tasks == [Threads -> [at : Places, were : BOOLEAN]]

\* The part of TypeOK that is about the receiver alone.
DeviceTypeOK ==
    /\ network \in connectState
    /\ screen \in connectState
    /\ userpause \in connectState \ {"PENDINGDISCONNECT"}
    /\ lastConnectedNetwork \in Nets \cup {NoNet}
    /\ disconnectTimers \in 0..MaxDisconnect
    /\ registered \in BOOLEAN
    /\ display \in BOOLEAN
    /\ task \in Tasks

\* Where the threads are when one of them goes on in its handler, leaves it,
\* or begins it.
LEMMA GotoPlaces ==
    ASSUME task \in Tasks, NEW t \in Threads, NEW at \in Places, Goto(t, at)
    PROVE  /\ task' \in Tasks
           /\ task'[t] = [at |-> at, were |-> task[t].were]
           /\ \A u \in Threads : u # t => task'[u] = task[u]
  BY DEF Goto, Tasks

LEMMA LeavePlaces ==
    ASSUME task \in Tasks, NEW t \in Threads, Leave(t)
    PROVE  /\ task' \in Tasks
           /\ task'[t] = NoTask
           /\ \A u \in Threads : u # t => task'[u] = task[u]
  BY DEF Leave, Tasks, NoTask, Places

LEMMA WerePlaces ==
    ASSUME task \in Tasks, NEW t \in Threads, NEW at \in Places,
           task' = [task EXCEPT ![t] = [at |-> at, were |-> shouldBeConnected]]
    PROVE  /\ task' \in Tasks
           /\ task'[t] = [at |-> at, were |-> shouldBeConnected]
           /\ \A u \in Threads : u # t => task'[u] = task[u]
  BY DEF Tasks, shouldBeConnected, ShouldBe

\* networkStateChange keeps the types of the receiver's own state ...
LEMMA NetworkTypes ==
    ASSUME DeviceTypeOK, networkStateChange, registered' \in BOOLEAN
    PROVE  DeviceTypeOK'
<1> USE DisconnectAssumption DEF DeviceTypeOK, connectState
<1>1. ASSUME NEW n \in Nets, NetworkConnected(n) PROVE DeviceTypeOK'
  <2>1. network' \in connectState /\ screen' \in connectState
    BY <1>1 DEF NetworkConnected
  <2>2. lastConnectedNetwork' \in Nets \cup {NoNet}
    BY <1>1 DEF NetworkConnected
  <2>3. disconnectTimers' \in {0, disconnectTimers}
    BY <1>1 DEF NetworkConnected
  <2> QED
    BY <2>1, <2>2, <2>3 DEF networkStateChange, Tasks
<1>2. CASE NetworkLost
  BY <1>2 DEF NetworkLost, networkStateChange, Tasks
<1>3. CASE NetworkIgnored \/ NetworkUnaffected
  BY <1>3 DEF NetworkIgnored, NetworkUnaffected, networkStateChange, Tasks
<1> QED
  BY <1>1, <1>2, <1>3 DEF networkStateChange

\* ... and so does every other step.
LEMMA DeviceTypes ==
    ASSUME DeviceTypeOK, [Next]_vars
    PROVE  DeviceTypeOK'
<1> USE DisconnectAssumption DEF DeviceTypeOK, connectState
<1> Main \in Threads /\ Reader \in Threads /\ Callers \subseteq Threads
  BY CallersAssumption DEF Threads
<1>a. \A t \in Threads : Leave(t) => task' \in Tasks
  BY LeavePlaces
<1>b. \A t \in Threads, at \in Places : Goto(t, at) => task' \in Tasks
  BY GotoPlaces
<1>c. Places = {"none", "reason", "clear", "test", "off", "on", "compare", "still",
                "traffic", "user", "network"}
  BY DEF Places
<1>d. UNCHANGED task => task' \in Tasks
  OBVIOUS
<1>1. CASE Register \/ Connectivity
  BY <1>1, NetworkTypes DEF Register, Connectivity
<1>2. CASE DelayDisconnect
  <2>1. task' \in Tasks
    BY <1>2, <1>a, <1>b, <1>c, <1>d DEF DelayDisconnect
  <2> QED
    BY <1>2, <2>1 DEF DelayDisconnect
<1>3. ASSUME NEW t \in Callers, UserPauses(t) \/ UserCleared(t) PROVE DeviceTypeOK'
  <2>1. task' \in Tasks
    BY <1>3, <1>a, <1>b, <1>c, <1>d DEF UserPauses, UserCleared
  <2> QED
    BY <1>3, <2>1 DEF UserPauses, UserCleared
<1>4. ASSUME NEW t \in Callers, UserResumes(t) PROVE DeviceTypeOK'
  <2>1. task' \in Tasks
    BY <1>4, <1>c, WerePlaces DEF UserResumes
  <2> QED
    BY <1>4, <2>1 DEF UserResumes
<1>5. ASSUME NEW t \in Callers, TestResume(t) \/ PauseWithReason(t) PROVE DeviceTypeOK'
  <2>1. task' \in Tasks
    BY <1>5, <1>a, <1>b, <1>c, <1>d DEF TestResume, PauseWithReason
  <2> QED
    BY <1>5, <2>1 DEF TestResume, PauseWithReason
<1>6. CASE ScreenOff
  <2>1. task' \in Tasks
    BY <1>6, <1>a, <1>b, <1>c, <1>d DEF ScreenOff
  <2> QED
    BY <1>6, <2>1 DEF ScreenOff
<1>7. CASE ScreenOn
  <2>1. task' \in Tasks
    BY <1>7, <1>c, WerePlaces DEF ScreenOn
  <2> QED
    BY <1>7, <2>1 DEF ScreenOn
<1>8. CASE ScreenOffPaused \/ ScreenIsOn
  <2>1. task' \in Tasks
    BY <1>8, <1>a, <1>b, <1>c, <1>d DEF ScreenOffPaused, ScreenIsOn
  <2> QED
    BY <1>8, <2>1 DEF ScreenOffPaused, ScreenIsOn
<1>9. CASE ScreenCompare \/ ScreenStill
  <2>1. task' \in Tasks
    BY <1>9, <1>a, <1>b, <1>c, <1>d DEF ScreenCompare, ScreenStill
  <2> QED
    BY <1>9, <2>1 DEF ScreenCompare, ScreenStill
<1>10. CASE LowTraffic \/ TrafficScreenOff \/ PauseOnLowTraffic
  <2>1. task' \in Tasks
    BY <1>10, <1>a, <1>b, <1>c, <1>d DEF LowTraffic, TrafficScreenOff, PauseOnLowTraffic
  <2> QED
    BY <1>10, <2>1 DEF LowTraffic, TrafficScreenOff, PauseOnLowTraffic
<1>11. CASE AskScreen \/ AskUser \/ AskNetwork
  <2>1. task' \in Tasks
    BY <1>11, <1>a, <1>b, <1>c, <1>d DEF AskScreen, AskUser, AskNetwork
  <2> QED
    BY <1>11, <2>1 DEF AskScreen, AskUser, AskNetwork
<1>12. CASE UNCHANGED deviceVars
  BY <1>12 DEF deviceVars
<1> QED
  BY <1>1, <1>2, <1>3, <1>4, <1>5, <1>6, <1>7, <1>8, <1>9, <1>10, <1>11, <1>12
     DEF Next, CallerGoesOn, LooperGoesOn, ReaderGoesOn, ResumeHoldFires, vars

LEMMA DeviceTypesAtFirst == Init => DeviceTypeOK
<1>1. 0 \in 0..MaxDisconnect
  BY DisconnectAssumption
<1>2. Init => task \in Tasks
  BY DEF Init, Tasks, NoTask, Places
<1> QED
  BY <1>1, <1>2 DEF Init, DeviceTypeOK, connectState

\* PauseControl is type-correct, with any number of binder threads.
THEOREM TypeCorrect == Spec => []TypeOK
<1>1. DeviceTypeOK /\ HoldTypeOK => TypeOK
  BY DEF DeviceTypeOK, TypeOK, Tasks
<1>2. DeviceTypeOK /\ [Next]_vars => DeviceTypeOK'
  BY DeviceTypes
<1> QED
  BY <1>1, <1>2, DeviceTypesAtFirst, Implements, HoldTypeCorrect, PTL DEF Spec

-----------------------------------------------------------------------------
(***************************************************************************)
(* PauseControl: the looper and the management thread, when the looper is  *)
(* the only caller.                                                        *)
(***************************************************************************)

\* The steps there are, with the looper as the only caller: those that touch
\* the receiver's fields, one by one, ...
LooperBegins ==
    \/ Register \/ Connectivity \/ DelayDisconnect
    \/ UserPauses(Main) \/ UserResumes(Main) \/ ScreenOff \/ ScreenOn

LooperContinues ==
    \/ PauseWithReason(Main) \/ UserCleared(Main) \/ TestResume(Main)
    \/ LooperGoesOn

ReaderHandles ==
    \/ LowTraffic \/ TrafficScreenOff \/ PauseOnLowTraffic
    \/ AskScreen \/ AskUser \/ AskNetwork

\* ... and those that are the protocol's alone.
ProtocolStep ==
    /\ UNCHANGED deviceVars
    /\ \/ CallStep(Main) \/ CallStep(Reader)
       \/ AtRest(Main) /\ ResumeHold(shouldBeConnected)
       \/ ReadHold \/ ReadState \/ PostResumeHold
       \/ Ovpn \/ OvpnReconnects

LEMMA LooperSteps ==
    ASSUME LooperOnly, [Next]_vars
    PROVE  \/ LooperBegins \/ LooperContinues \/ ReaderHandles \/ ProtocolStep
           \/ UNCHANGED vars
  BY DEF LooperOnly, Next, CallerGoesOn, ReaderGoesOn, ResumeHoldFires,
         LooperBegins, LooperContinues, ReaderHandles, ProtocolStep

LEMMA TwoThreads ==
    ASSUME LooperOnly
    PROVE  /\ Threads = {Main, Reader}
           /\ Main # Reader
           /\ Callers = {Main}
  BY CallersAssumption DEF LooperOnly, Threads

\* shouldBeConnected, field by field.
LEMMA ShouldMeans ==
    /\ shouldBeConnected <=> /\ network = "SHOULDBECONNECTED"
                             /\ screen = "SHOULDBECONNECTED"
                             /\ userpause = "SHOULDBECONNECTED"
    /\ shouldBeConnected' <=> /\ network' = "SHOULDBECONNECTED"
                              /\ screen' = "SHOULDBECONNECTED"
                              /\ userpause' = "SHOULDBECONNECTED"
    /\ shouldBeConnected \in BOOLEAN
  BY DEF shouldBeConnected, ShouldBe

\* What a line of an operation does to the places of the threads.
LEMMA CallPlaces ==
    ASSUME HoldTypeOK, NEW t \in Threads, CallStep(t)
    PROVE  /\ ~Free(t)
           /\ \A u \in Threads : u # t => call'[u] = call[u]
           /\ call[t].at \in Pausing => call'[t].at \in Pausing \cup {"idle"}
           /\ call'[t].at \in Pausing => call[t].at \in Pausing
           /\ call'[t].at \in Releasing => call[t].at \in Releasing
           /\ call'[t] = Idle \/ call'[t].why = call[t].why
           /\ call'[t].at # "pause" /\ (call'[t].at = "idle" => call'[t] = Idle)
           /\ call'[t].at = "reset" => call'[t].why = "resume"
           /\ UNCHANGED <<mgmt, ovpn, inbox>>
           /\ UNCHANGED outbox \/ (\E c \in Commands : outbox' = Append(outbox, c))
<1> USE DEF Pausing, Releasing, Free, Idle, Commands
<1>1. CASE WriteReason(t) \/ CancelResume(t)
  BY <1>1 DEF WriteReason, CancelResume, Go, HoldTypeOK
<1>2. CASE TestSignal(t)
  BY <1>2 DEF TestSignal, Go, Return, HoldTypeOK
<1>3. CASE WriteUsr1(t) \/ WriteRebind(t) \/ ResetReason(t)
  BY <1>3 DEF WriteUsr1, WriteRebind, ResetReason, Return, Command, HoldTypeOK
<1>4. CASE TestChange(t)
  BY <1>4 DEF TestChange, Go, HoldTypeOK
<1>5. CASE TestRelease(t)
  BY <1>5 DEF TestRelease, Go, Done, Return, HoldTypeOK
<1>6. CASE RemoveTimers(t) \/ Wake(t)
  BY <1>6 DEF RemoveTimers, Wake, Go, HoldTypeOK
<1>7. CASE Send(t)
  BY <1>7 DEF Send, Done, Go, Return, Command, HoldTypeOK
<1> QED
  BY <1>1, <1>2, <1>3, <1>4, <1>5, <1>6, <1>7 DEF CallStep

\* What the beginning of an operation does.
LEMMA BeginFacts ==
    ASSUME HoldTypeOK, NEW t \in Threads, NEW at, NEW why, Begin(t, at, why)
    PROVE  /\ Free(t)
           /\ call'[t] = [at |-> at, why |-> why]
           /\ \A u \in Threads : u # t => call'[u] = call[u]
           /\ UNCHANGED <<waiting, lastPauseReason, resumeTimers, mgmt, ovpn, inbox, outbox>>
  BY DEF Begin, HoldTypeOK

\* networkStateChange on the looper: either nothing is asked of the
\* management thread, or an operation begins.
LEMMA NetworkFacts ==
    ASSUME HoldTypeOK, networkStateChange
    PROVE  /\ AtRest(Main)
           /\ UNCHANGED <<userpause, display, task>>
           /\ UNCHANGED <<waiting, lastPauseReason, resumeTimers, mgmt, ovpn, inbox, outbox>>
           /\ \A u \in Threads : u # Main => call'[u] = call[u]
           /\ \/ UNCHANGED call
              \/ call'[Main].at \in {"change", "release"} /\ call'[Main].why \in Causes
           /\ screen' = screen \/ (screen = "PENDINGDISCONNECT" /\ screen' = "DISCONNECTED")
<1> USE DEF networkStateChange
<1>1. Main \in Threads
  BY CallersAssumption DEF Threads
<1>2. ASSUME NEW n \in Nets, NetworkConnected(n)
      PROVE  /\ UNCHANGED <<waiting, lastPauseReason, resumeTimers, mgmt, ovpn, inbox, outbox>>
             /\ \A u \in Threads : u # Main => call'[u] = call[u]
             /\ \/ UNCHANGED call
                \/ call'[Main].at \in {"change", "release"} /\ call'[Main].why \in Causes
             /\ screen' = screen \/ (screen = "PENDINGDISCONNECT" /\ screen' = "DISCONNECTED")
  <2>1. \/ UNCHANGED holdVars
        \/ \E at \in {"change", "release"}, why \in Causes : Begin(Main, at, why)
    BY <1>2 DEF NetworkConnected, NetworkChange, Resume, Causes
  <2>2. screen' = screen \/ (screen = "PENDINGDISCONNECT" /\ screen' = "DISCONNECTED")
    BY <1>2 DEF NetworkConnected
  <2>3. CASE UNCHANGED holdVars
    BY <2>2, <2>3 DEF holdVars
  <2>4. ASSUME NEW at \in {"change", "release"}, NEW why \in Causes, Begin(Main, at, why)
        PROVE  /\ UNCHANGED <<waiting, lastPauseReason, resumeTimers, mgmt, ovpn, inbox, outbox>>
               /\ \A u \in Threads : u # Main => call'[u] = call[u]
               /\ call'[Main].at \in {"change", "release"} /\ call'[Main].why \in Causes
    <3>1. /\ UNCHANGED <<waiting, lastPauseReason, resumeTimers, mgmt, ovpn, inbox, outbox>>
          /\ call'[Main] = [at |-> at, why |-> why]
          /\ \A u \in Threads : u # Main => call'[u] = call[u]
      BY <1>1, <2>4, BeginFacts
    <3> QED
      BY <3>1
  <2> QED
    BY <2>1, <2>2, <2>3, <2>4
<1>3. CASE NetworkLost \/ NetworkIgnored \/ NetworkUnaffected
  BY <1>3 DEF NetworkLost, NetworkIgnored, NetworkUnaffected, holdVars
<1> QED
  BY <1>2, <1>3

-----------------------------------------------------------------------------
(***************************************************************************)
(* PauseControl: a release is always pending when it is needed.            *)
(***************************************************************************)

\* What ReleasePending is claimed under: the looper is the only caller; the
\* preference "ignorenetstate" is off; resume is only offered to a user who
\* has paused; "screenoff" does not change while the VPN runs.  Without the
\* second, a HOLD handled before the receiver is registered is answered by
\* nobody; without the third, userPause(false) takes away a timer that is
\* needed (run pause_redundant_resume); without the last, a low-traffic
\* pause begun under the old value may fall between the two lines of
\* ACTION_SCREEN_ON that read shouldBeConnected and write screen.
CertainResume ==
    /\ LooperOnly
    /\ IgnoreNetState = {FALSE}
    /\ RedundantResume = FALSE
    /\ ~(BOOLEAN \subseteq ScreenOffPause)

\* Handlers and operations follow one another on a thread.
PositionsInv ==
    /\ call[Reader].at \in Pausing \cup {"idle"}
    /\ task[Main].at # "none" => Free(Main)

\* userPause(false) begins when the VPN should not be connected.
CertainInv == task[Main].at \in {"clear", "test"} => ~task[Main].were

\* updateByteCount never has its test of screen behind it while the looper,
\* in ACTION_SCREEN_ON, has found the VPN as it should be.
ScreenInv ==
    /\ TRUE \notin ScreenOffPause =>
          /\ screen = "SHOULDBECONNECTED"
          /\ task[Reader].at # "traffic" /\ task[Main].at # "off"
    /\ (~display /\ screen = "SHOULDBECONNECTED") => task[Reader].at # "traffic"
    /\ task[Main].at = "on" =>
          display /\ (task[Main].were => shouldBeConnected /\ task[Reader].at # "traffic")

\* The looper pauses only a VPN that should not be connected, and nobody
\* else can make it one that should.
UnwantedInv ==
    (task[Main].at = "reason" \/ call[Main].at \in Pausing) => ~shouldBeConnected

\* OpenVPN says nothing after a HOLD, so when the management thread pauses
\* OpenVPN has not stopped, or its HOLD is still to be read.
InboxInv ==
    /\ (ovpn = "hold" /\ inbox # <<>>) => inbox[Len(inbox)] = "HOLD"
    /\ (mgmt = "traffic" \/ call[Reader].at \in Pausing)
          => (ovpn = "hold" => InFlight("HOLD", inbox))

ReleaseInv ==
    /\ HoldTypeOK /\ DeviceTypeOK /\ NoLostHold
    /\ PositionsInv /\ CertainInv /\ ScreenInv /\ UnwantedInv /\ InboxInv
    /\ ReleasePending

\* Positions, for the looper as the only caller.
LEMMA PositionsKept ==
    ASSUME LooperOnly, HoldTypeOK, DeviceTypeOK, PositionsInv, [Next]_vars
    PROVE  PositionsInv'
<1> USE TwoThreads
<1>0. call \in [Threads -> Calls] /\ task \in Tasks
  BY DEF HoldTypeOK, DeviceTypeOK
<1>1. CASE LooperBegins
  <2>1. CASE Register \/ Connectivity
    BY <2>1, NetworkFacts DEF Register, Connectivity, AtRest, PositionsInv
  <2>2. CASE DelayDisconnect \/ UserPauses(Main) \/ UserResumes(Main) \/ ScreenOff \/ ScreenOn
    BY <2>2 DEF DelayDisconnect, UserPauses, UserResumes, ScreenOff, ScreenOn, Handler,
                AtRest, Free, holdVars, PositionsInv
  <2> QED
    BY <1>1, <2>1, <2>2 DEF LooperBegins
<1>2. CASE LooperContinues
  <2>1. CASE PauseWithReason(Main)
    <3>1. call'[Reader] = call[Reader]
      BY <2>1, BeginFacts DEF PauseWithReason, Pause
    <3>2. task'[Main].at = "none"
      BY <1>0, <2>1, LeavePlaces DEF PauseWithReason, NoTask
    <3> QED
      BY <3>1, <3>2 DEF PositionsInv
  <2>2. CASE TestResume(Main) \/ ScreenCompare
    <3>1. CASE Resume(Main) /\ Leave(Main)
      <4>1. call'[Reader] = call[Reader]
        BY <3>1, BeginFacts DEF Resume
      <4>2. task'[Main].at = "none"
        BY <1>0, <3>1, LeavePlaces DEF NoTask
      <4> QED
        BY <4>1, <4>2 DEF PositionsInv
    <3>2. CASE UNCHANGED holdVars /\ task[Main].at # "none"
      BY <3>2 DEF PositionsInv, holdVars, Free
    <3> QED
      BY <2>2, <3>1, <3>2 DEF TestResume, ScreenCompare
  <2>3. CASE UserCleared(Main) \/ ScreenOffPaused \/ ScreenIsOn \/ ScreenStill
    BY <2>3 DEF UserCleared, ScreenOffPaused, ScreenIsOn, ScreenStill, holdVars,
                PositionsInv, Free
  <2> QED
    BY <1>2, <2>1, <2>2, <2>3 DEF LooperContinues, LooperGoesOn
<1>3. CASE ReaderHandles
  <2>1. task'[Main] = task[Main]
    BY <1>0, <1>3 DEF ReaderHandles, LowTraffic, TrafficScreenOff, PauseOnLowTraffic,
                AskScreen, AskUser, AskNetwork, Goto, Leave, Tasks
  <2>2. call'[Main] = call[Main] /\ call'[Reader].at \in {call[Reader].at, "pause"}
    BY <1>0, <1>3 DEF ReaderHandles, LowTraffic, TrafficScreenOff, PauseOnLowTraffic,
                AskScreen, AskUser, AskNetwork, ReadByteCount, PauseFromByteCount,
                AskCallback, holdVars
  <2> QED
    BY <2>1, <2>2 DEF PositionsInv, Pausing, Free
<1>4. CASE ProtocolStep
  <2>1. UNCHANGED task
    BY <1>4 DEF ProtocolStep, deviceVars
  <2>2. CASE CallStep(Main)
    BY <2>1, <2>2, CallPlaces DEF PositionsInv
  <2>3. CASE CallStep(Reader)
    BY <2>1, <2>3, CallPlaces DEF PositionsInv, Free
  <2>4. CASE AtRest(Main) /\ ResumeHold(shouldBeConnected)
    BY <1>0, <2>1, <2>4 DEF AtRest, ResumeHold, PositionsInv, Free
  <2>5. CASE ReadHold \/ ReadState \/ PostResumeHold \/ Ovpn \/ OvpnReconnects
    BY <2>1, <2>5 DEF ReadHold, ReadState, PostResumeHold, Ovpn, OvpnReconnects,
             OvpnRestarts, OvpnReleased, OvpnRebinds, OvpnTakes, PositionsInv, Free
  <2> QED
    BY <1>4, <2>2, <2>3, <2>4, <2>5 DEF ProtocolStep
<1>5. CASE UNCHANGED vars
  BY <1>5 DEF vars, holdVars, deviceVars, PositionsInv, Free
<1> QED
  BY <1>1, <1>2, <1>3, <1>4, <1>5, LooperSteps

\* userPause(false) begins when the user has paused, and then the VPN should
\* not be connected.
LEMMA CertainKept ==
    ASSUME CertainResume, HoldTypeOK, DeviceTypeOK, CertainInv, [Next]_vars
    PROVE  CertainInv'
<1> USE DEF CertainInv
<1> /\ LooperOnly /\ Threads = {Main, Reader} /\ Main # Reader
    /\ task \in Tasks /\ call \in [Threads -> Calls]
    /\ display \in BOOLEAN /\ registered \in BOOLEAN
  BY TwoThreads DEF DeviceTypeOK, CertainResume, HoldTypeOK
<1>1. CASE UserResumes(Main)
  <2>1. userpause = "DISCONNECTED"
    BY <1>1 DEF UserResumes, CertainResume
  <2>2. shouldBeConnected = FALSE
    BY <2>1, ShouldMeans
  <2>3. task'[Main].were = shouldBeConnected
    BY <1>1 DEF UserResumes, Tasks
  <2> QED
    BY <2>2, <2>3
<1>2. CASE UserCleared(Main)
  BY <1>2, GotoPlaces DEF UserCleared, Places
<1>3. CASE Register \/ Connectivity
  BY <1>3 DEF Register, Connectivity, networkStateChange
<1>6. CASE DelayDisconnect \/ UserPauses(Main) \/ ScreenOff \/ ScreenOn
  <2>1. CASE ScreenOff
    <3>1. task[Main].at = "none" /\ (Goto(Main, "off") \/ UNCHANGED task)
      BY <2>1 DEF ScreenOff, Handler, AtRest
    <3> QED
      BY <3>1 DEF Goto, Tasks
  <2>2. CASE DelayDisconnect \/ UserPauses(Main) \/ ScreenOn
    <3>1. task'[Main].at \in {"none", "reason", "on"}
      BY <2>2 DEF DelayDisconnect, UserPauses, ScreenOn, Handler, AtRest, Goto, Tasks
    <3> QED
      BY <3>1
  <2> QED
    BY <1>6, <2>1, <2>2
<1>7. CASE PauseWithReason(Main) \/ TestResume(Main) \/ LooperGoesOn
  <2>1. task'[Main].at \in {"none", "reason", "compare", "still"}
    BY <1>7 DEF PauseWithReason, TestResume, LooperGoesOn, ScreenOffPaused, ScreenIsOn,
       ScreenCompare, ScreenStill, Goto, Leave, NoTask, Tasks
  <2> QED
    BY <2>1
<1>4. CASE ReaderHandles
  BY <1>4 DEF ReaderHandles, LowTraffic, TrafficScreenOff, PauseOnLowTraffic,
     AskScreen, AskUser, AskNetwork, Goto, Leave, Tasks
<1>5. CASE UNCHANGED deviceVars
  BY <1>5 DEF deviceVars
<1> QED
  BY <1>1, <1>2, <1>3, <1>4, <1>5, <1>6, <1>7, LooperSteps
     DEF LooperBegins, LooperContinues, ProtocolStep, vars

\* The looper's reading of shouldBeConnected in ACTION_SCREEN_ON stays good
\* until it has written screen.
LEMMA ScreenKept ==
    ASSUME CertainResume, HoldTypeOK, DeviceTypeOK, ScreenInv, [Next]_vars
    PROVE  ScreenInv'
<1> USE ShouldMeans DEF ScreenInv
<1> /\ LooperOnly /\ Threads = {Main, Reader} /\ Main # Reader
    /\ task \in Tasks /\ call \in [Threads -> Calls]
    /\ display \in BOOLEAN /\ registered \in BOOLEAN
  BY TwoThreads DEF DeviceTypeOK, CertainResume, HoldTypeOK
<1>1. CASE Register \/ Connectivity
  BY <1>1, NetworkFacts DEF Register, Connectivity, AtRest
<1>2. CASE DelayDisconnect \/ UserPauses(Main) \/ UserResumes(Main)
  <2>1. screen' = screen \/ (screen = "PENDINGDISCONNECT" /\ screen' = "DISCONNECTED")
    BY <1>2 DEF DelayDisconnect, UserPauses, UserResumes
  <2>2. task'[Main].at \notin {"on", "off"} /\ task'[Reader] = task[Reader]
    BY <1>2 DEF DelayDisconnect, UserPauses, UserResumes, Handler, AtRest, Goto, Tasks
  <2>3. UNCHANGED display
    BY <1>2 DEF DelayDisconnect, UserPauses, UserResumes
  <2> QED
    BY <2>1, <2>2, <2>3
<1>3. CASE ScreenOff
  <2>0. task[Main].at = "none" /\ (Goto(Main, "off") \/ UNCHANGED task)
    BY <1>3 DEF ScreenOff, Handler, AtRest
  <2>1. task'[Main].at # "on" /\ task'[Reader] = task[Reader]
    BY <2>0 DEF Goto, Tasks
  <2>2. \/ TRUE \in ScreenOffPause /\ screen' = "PENDINGDISCONNECT"
        \/ FALSE \in ScreenOffPause /\ UNCHANGED <<screen, task>>
    BY <1>3 DEF ScreenOff
  <2>3. ~(TRUE \in ScreenOffPause /\ FALSE \in ScreenOffPause)
    BY DEF CertainResume
  <2> QED
    BY <2>1, <2>2, <2>3
<1>4. CASE ScreenOn
  <2>1. task'[Main] = [at |-> "on", were |-> shouldBeConnected] /\ task'[Reader] = task[Reader]
    BY <1>4 DEF ScreenOn, Tasks
  <2>2. ~display /\ display' /\ UNCHANGED <<network, screen, userpause>>
    BY <1>4 DEF ScreenOn
  <2>3. (shouldBeConnected' <=> shouldBeConnected) /\ task'[Reader].at = task[Reader].at
    BY <2>1, <2>2
  <2>4. shouldBeConnected => task[Reader].at # "traffic"
    BY <2>2
  <2>5. task'[Main].at = "on" /\ task'[Main].were = shouldBeConnected
    BY <2>1
  <2> QED
    BY <2>2, <2>3, <2>4, <2>5
<1>5. CASE LooperContinues
  <2>1. /\ task'[Main].at \notin {"on", "off"} /\ task'[Reader] = task[Reader]
        /\ UNCHANGED display
    BY <1>5 DEF LooperContinues, PauseWithReason, UserCleared, TestResume,
       LooperGoesOn, ScreenOffPaused, ScreenIsOn, ScreenCompare, ScreenStill, Goto, Leave,
       NoTask, Tasks
  <2>2. CASE ScreenIsOn
    <3>1. task[Main].at = "on" /\ screen' = "SHOULDBECONNECTED"
      BY <2>2 DEF ScreenIsOn
    <3>2. display /\ display' = display
      BY <2>1, <3>1
    <3>3. display'
      BY <3>2
    <3> QED
      BY <2>1, <3>1, <3>3
  <2>3. CASE ScreenOffPaused
    <3>1. screen' = screen \/ (screen' = "DISCONNECTED" /\ task[Main].at = "off")
      BY <2>3 DEF ScreenOffPaused
    <3> QED
      BY <2>1, <3>1
  <2>4. CASE UNCHANGED screen
    BY <2>1, <2>4
  <2> QED
    BY <1>5, <2>2, <2>3, <2>4 DEF LooperContinues, PauseWithReason, UserCleared, TestResume,
       LooperGoesOn, ScreenCompare, ScreenStill
<1>6. CASE ReaderHandles
  <2>1. task'[Main] = task[Main] /\ UNCHANGED <<display, network, userpause>>
    BY <1>6 DEF ReaderHandles, LowTraffic, TrafficScreenOff, PauseOnLowTraffic,
       AskScreen, AskUser, AskNetwork, Goto, Leave, Tasks
  <2>2. CASE LowTraffic
    <3>1. screen = "PENDINGDISCONNECT" /\ UNCHANGED screen
      BY <2>2 DEF LowTraffic
    <3> QED
      BY <2>1, <3>1
  <2>3. CASE TrafficScreenOff
    <3>1. task[Reader].at = "traffic" /\ screen' = "DISCONNECTED"
      BY <2>3 DEF TrafficScreenOff
    <3> QED
      BY <2>1, <3>1
  <2>4. CASE PauseOnLowTraffic \/ AskScreen \/ AskUser \/ AskNetwork
    <3>1. task'[Reader].at \in {task[Reader].at, "none", "user", "network"} /\ UNCHANGED screen
      BY <2>4 DEF PauseOnLowTraffic, AskScreen, AskUser, AskNetwork, AskCallback, Goto,
         Leave, NoTask, Tasks
    <3> QED
      BY <2>1, <3>1
  <2> QED
    BY <1>6, <2>2, <2>3, <2>4 DEF ReaderHandles
<1>7. CASE UNCHANGED deviceVars
  BY <1>7 DEF deviceVars
<1> QED
  BY <1>1, <1>2, <1>3, <1>4, <1>5, <1>6, <1>7, LooperSteps
     DEF LooperBegins, ProtocolStep, vars

\* Only the looper makes the VPN one that should be connected.
LEMMA OnlyWorse ==
    ASSUME ReaderHandles \/ ProtocolStep \/ UNCHANGED vars
    PROVE  shouldBeConnected' => shouldBeConnected
  BY DEF ReaderHandles, LowTraffic, TrafficScreenOff, PauseOnLowTraffic, AskScreen, AskUser,
         AskNetwork, ProtocolStep, vars, deviceVars, shouldBeConnected, ShouldBe

\* The looper pauses only a VPN that should not be connected.
LEMMA UnwantedKept ==
    ASSUME CertainResume, HoldTypeOK, DeviceTypeOK, PositionsInv, CertainInv, UnwantedInv,
           [Next]_vars
    PROVE  UnwantedInv'
<1> USE DEF UnwantedInv
<1> /\ LooperOnly /\ Threads = {Main, Reader} /\ Main # Reader
    /\ task \in Tasks /\ call \in [Threads -> Calls]
    /\ display \in BOOLEAN /\ registered \in BOOLEAN
  BY TwoThreads DEF DeviceTypeOK, CertainResume, HoldTypeOK
<1>1. CASE Register \/ Connectivity
  BY <1>1, NetworkFacts DEF Register, Connectivity, AtRest, Free, Pausing
<1>2. CASE DelayDisconnect
  <2>1. Free(Main) /\ UNCHANGED call
    BY <1>2 DEF DelayDisconnect, Handler, AtRest, holdVars
  <2>2. CASE network # "PENDINGDISCONNECT"
    BY <1>2, <2>1, <2>2 DEF DelayDisconnect, Handler, AtRest, Free, Pausing
  <2>3. CASE network = "PENDINGDISCONNECT"
    BY <1>2, <2>3 DEF DelayDisconnect, shouldBeConnected, ShouldBe
  <2> QED
    BY <2>2, <2>3
<1>3. CASE UserPauses(Main)
  BY <1>3 DEF UserPauses, shouldBeConnected, ShouldBe
<1>4. CASE UserResumes(Main) \/ ScreenOff \/ ScreenOn
  <2>1. Free(Main) /\ UNCHANGED call
    BY <1>4 DEF UserResumes, ScreenOff, ScreenOn, Handler, AtRest, holdVars
  <2>2. task'[Main].at # "reason"
    <3>1. CASE ScreenOff
      <4>1. task[Main].at = "none" /\ (Goto(Main, "off") \/ UNCHANGED task)
        BY <3>1 DEF ScreenOff, Handler, AtRest
      <4> QED
        BY <4>1 DEF Goto, Tasks
    <3>2. CASE UserResumes(Main) \/ ScreenOn
      BY <3>2 DEF UserResumes, ScreenOn, Tasks
    <3> QED
      BY <1>4, <3>1, <3>2
  <2> QED
    BY <2>1, <2>2 DEF Free, Pausing
<1>5. CASE PauseWithReason(Main)
  BY <1>5 DEF PauseWithReason, shouldBeConnected
<1>6. CASE TestResume(Main) \/ ScreenCompare
  <2>1. CASE Resume(Main) /\ Leave(Main)
    <3>1. call'[Main].at = "release"
      BY <2>1 DEF Resume, Begin
    <3>2. task'[Main].at = "none"
      BY <2>1, LeavePlaces DEF NoTask
    <3> QED
      BY <3>1, <3>2 DEF Pausing
  <2>2. CASE ~shouldBeConnected /\ UNCHANGED <<network, screen, userpause>>
    BY <2>2 DEF shouldBeConnected
  <2>3. CASE task[Main].at = "compare" /\ Goto(Main, "still") /\ UNCHANGED holdVars
    <3>1. task'[Main].at = "still"
      BY <2>3 DEF Goto, Tasks
    <3>2. call'[Main].at = "idle"
      BY <2>3 DEF PositionsInv, Free, holdVars
    <3> QED
      BY <3>1, <3>2 DEF Pausing
  <2> QED
    BY <1>6, <2>1, <2>2, <2>3 DEF TestResume, ScreenCompare, CertainInv
<1>7. CASE UserCleared(Main) \/ ScreenOffPaused \/ ScreenIsOn
  <2>1. call'[Main].at = "idle"
    BY <1>7 DEF UserCleared, ScreenOffPaused, ScreenIsOn, holdVars, PositionsInv, Free
  <2>2. task'[Main].at # "reason"
    BY <1>7 DEF UserCleared, ScreenOffPaused, ScreenIsOn, Goto, Leave, NoTask, Tasks
  <2> QED
    BY <2>1, <2>2 DEF Pausing
<1>8. CASE ScreenStill
  <2>1. call'[Main].at = "idle" /\ UNCHANGED <<network, screen, userpause>>
    BY <1>8 DEF ScreenStill, holdVars, PositionsInv, Free
  <2>2. shouldBeConnected => task'[Main].at = "none"
    BY <1>8 DEF ScreenStill, Leave, NoTask, Tasks
  <2> QED
    BY <2>1, <2>2 DEF Pausing, shouldBeConnected
<1>9. CASE ReaderHandles
  <2>1. task'[Main] = task[Main]
    BY <1>9 DEF ReaderHandles, LowTraffic, TrafficScreenOff, PauseOnLowTraffic,
                AskScreen, AskUser, AskNetwork, Goto, Leave, Tasks
  <2>2. call'[Main] = call[Main]
    BY <1>9 DEF ReaderHandles, LowTraffic, TrafficScreenOff, PauseOnLowTraffic,
                AskScreen, AskUser, AskNetwork, ReadByteCount, PauseFromByteCount,
                AskCallback, holdVars
  <2> QED
    BY <1>9, <2>1, <2>2, OnlyWorse
<1>10. CASE ProtocolStep
  <2>1. UNCHANGED task
    BY <1>10 DEF ProtocolStep, deviceVars
  <2>2. call'[Main].at \in Pausing => call[Main].at \in Pausing
    <3>1. CASE CallStep(Main) \/ CallStep(Reader)
      BY <3>1, CallPlaces
    <3>2. CASE ResumeHold(shouldBeConnected)
      BY <3>2 DEF ResumeHold, Pausing
    <3>3. CASE ReadHold \/ ReadState \/ PostResumeHold \/ Ovpn \/ OvpnReconnects
      BY <3>3 DEF ReadHold, ReadState, PostResumeHold, Ovpn, OvpnReconnects,
             OvpnRestarts, OvpnReleased, OvpnRebinds, OvpnTakes
    <3> QED
      BY <1>10, <3>1, <3>2, <3>3 DEF ProtocolStep
  <2> QED
    BY <1>10, <2>1, <2>2, OnlyWorse
<1>11. CASE UNCHANGED vars
  BY <1>11, OnlyWorse DEF vars, holdVars, deviceVars
<1> QED
  BY <1>1, <1>2, <1>3, <1>4, <1>5, <1>6, <1>7, <1>8, <1>9, <1>10, <1>11, LooperSteps
     DEF LooperBegins, LooperContinues, LooperGoesOn

\* The receiver's own steps on the looper leave OpenVPN, the channels, the
\* management thread and the timers alone.
LEMMA LooperFrame ==
    ASSUME LooperOnly, HoldTypeOK, LooperBegins \/ LooperContinues
    PROVE  /\ UNCHANGED <<waiting, resumeTimers, mgmt, ovpn, inbox, outbox>>
           /\ call'[Reader] = call[Reader]
<1> LooperOnly /\ Threads = {Main, Reader} /\ Main # Reader
  BY TwoThreads
<1>1. CASE Register \/ Connectivity
  BY <1>1, NetworkFacts DEF Register, Connectivity
<1>2. CASE UNCHANGED holdVars
  BY <1>2 DEF holdVars
<1>3. CASE \/ \E r : Pause(Main, r)
           \/ Resume(Main)
  BY <1>3 DEF Pause, Resume, Begin, HoldTypeOK
<1> QED
  BY <1>1, <1>2, <1>3 DEF LooperBegins, LooperContinues, DelayDisconnect, UserPauses,
     UserResumes, ScreenOff, ScreenOn, PauseWithReason, UserCleared, TestResume,
     LooperGoesOn, ScreenOffPaused, ScreenIsOn, ScreenCompare, ScreenStill

\* OpenVPN says nothing after a HOLD.
LEMMA InboxKept ==
    ASSUME LooperOnly, HoldTypeOK, DeviceTypeOK, InboxInv, [Next]_vars
    PROVE  InboxInv'
<1> LooperOnly /\ Threads = {Main, Reader} /\ Main # Reader
  BY TwoThreads
<1> inbox \in Seq(Lines) /\ call \in [Threads -> Calls]
  BY DEF HoldTypeOK
<1>a. InFlight("HOLD", inbox)' <=> InFlight("HOLD", inbox')
  BY DEF InFlight
<1>1. CASE LooperBegins \/ LooperContinues
  BY <1>1, <1>a, LooperFrame DEF InboxInv
<1>2. CASE LowTraffic
  <2>1. ReadByteCount
    BY <1>2 DEF LowTraffic
  <2>2. UNCHANGED <<ovpn, inbox, call>> /\ (ovpn = "up" \/ inbox # <<>>)
    BY <2>1 DEF ReadByteCount
  <2>3. inbox # <<>> => Len(inbox) \in 1..Len(inbox)
    OBVIOUS
  <2>4. ovpn = "hold" => InFlight("HOLD", inbox)
    BY <2>2, <2>3 DEF InboxInv, InFlight
  <2> QED
    BY <1>a, <2>2, <2>4 DEF InboxInv
<1>3. CASE PauseOnLowTraffic
  BY <1>3, <1>a DEF PauseOnLowTraffic, PauseFromByteCount, InboxInv
<1>4. CASE TrafficScreenOff \/ AskScreen \/ AskUser \/ AskNetwork
  <2>1. UNCHANGED <<ovpn, inbox, call>> /\ (mgmt' = "traffic" => mgmt = "traffic")
    BY <1>4 DEF TrafficScreenOff, AskScreen, AskUser, AskNetwork, AskCallback, holdVars
  <2> QED
    BY <1>a, <2>1 DEF InboxInv
<1>5. CASE CallStep(Main) \/ CallStep(Reader)
  <2>1. UNCHANGED <<mgmt, ovpn, inbox>> /\ (call'[Reader].at \in Pausing => call[Reader].at \in Pausing)
    BY <1>5, CallPlaces
  <2> QED
    BY <1>a, <2>1 DEF InboxInv
<1>6. CASE AtRest(Main) /\ ResumeHold(shouldBeConnected)
  <2>1. UNCHANGED <<mgmt, ovpn, inbox>> /\ call'[Reader] = call[Reader]
    BY <1>6 DEF ResumeHold
  <2> QED
    BY <1>a, <2>1 DEF InboxInv
<1>7. CASE ReadHold \/ ReadState
  <2>1. inbox # <<>> /\ inbox' = Tail(inbox) /\ UNCHANGED <<ovpn, call>>
    BY <1>7 DEF ReadHold, ReadState, ReadLine
  <2>2. mgmt' # "traffic" /\ Free(Reader)
    BY <1>7 DEF ReadHold, ReadState, ReadLine, AtLine
  <2>3. Tail(inbox) # <<>> => Tail(inbox)[Len(Tail(inbox))] = inbox[Len(inbox)]
    BY <2>1
  <2> QED
    BY <2>1, <2>2, <2>3 DEF InboxInv, Free, Pausing
<1>8. CASE PostResumeHold
  BY <1>8, <1>a DEF PostResumeHold, InboxInv
<1>9. CASE OvpnRestarts \/ OvpnReconnects
  <2>1. inbox' = Append(inbox, "HOLD")
    BY <1>9 DEF OvpnRestarts, OvpnReconnects, OvpnHolds
  <2>2. inbox'[Len(inbox')] = "HOLD" /\ InFlight("HOLD", inbox')
    BY <2>1, InFlightNew DEF Lines
  <2> QED
    BY <1>a, <2>2 DEF InboxInv
<1>10. CASE OvpnReleased
  BY <1>10 DEF OvpnReleased, InboxInv
<1>11. CASE OvpnRebinds
  BY <1>11, <1>a DEF OvpnRebinds, OvpnTakes, InboxInv
<1>12. CASE UNCHANGED vars
  BY <1>12, <1>a DEF vars, holdVars, InboxInv
<1> QED
  BY <1>1, <1>2, <1>3, <1>4, <1>5, <1>6, <1>7, <1>8, <1>9, <1>10, <1>11, <1>12, LooperSteps
     DEF ReaderHandles, ProtocolStep, Ovpn

\* A release that is under way stays so when nothing of it is taken away.
LEMMA UnderWayFrame ==
    ASSUME LooperOnly, HoldTypeOK, ReleaseUnderWay,
           inbox' = inbox,
           UNCHANGED outbox \/ (\E c \in Commands : outbox' = Append(outbox, c)),
           mgmt \in {"held", "retry"} => mgmt' \in {"held", "retry"},
           resumeTimers > 0 => resumeTimers' > 0,
           (call[Main].at \in Releasing \/ Deciding(Main))
              => (call'[Main].at \in Releasing \/ Deciding(Main)')
    PROVE  ReleaseUnderWay'
<1> LooperOnly /\ Threads = {Main, Reader} /\ Main # Reader /\ Callers = {Main}
  BY TwoThreads
<1>1. InFlight("HOLD", inbox) => InFlight("HOLD", inbox)'
  BY DEF InFlight
<1>2. InFlight("holdRelease", outbox) => InFlight("holdRelease", outbox)'
  BY OutboxGrows DEF Commands
<1> QED
  BY <1>1, <1>2 DEF ReleaseUnderWay

\* Nothing more is needed when the VPN should not be connected, or the
\* release is under way.
LEMMA PendingIf ==
    ASSUME LooperOnly, \/ ~shouldBeConnected'
                       \/ ovpn' # "hold"
                       \/ call'[Main].at \in Releasing
                       \/ Deciding(Main)'
                       \/ InFlight("HOLD", inbox')
                       \/ mgmt' \in {"held", "retry"}
                       \/ resumeTimers' > 0
                       \/ InFlight("holdRelease", outbox')
                       \/ ReleaseUnderWay'
    PROVE  ReleasePending'
<1>1. Callers = {Main}
  BY TwoThreads
<1>2. InFlight("HOLD", inbox') => InFlight("HOLD", inbox)'
  BY DEF InFlight
<1>3. InFlight("holdRelease", outbox') => InFlight("holdRelease", outbox)'
  BY DEF InFlight
<1>4. (call'[Main].at \in Releasing \/ Deciding(Main)')
        => (\E t \in Callers : call[t].at \in Releasing \/ Deciding(t))'
  BY <1>1 DEF Deciding
<1>5. ReleaseUnderWay' => ReleasePending'
  BY DEF ReleasePending
<1>6. \/ InFlight("HOLD", inbox)' \/ mgmt' \in {"held", "retry"} \/ resumeTimers' > 0
      \/ (\E t \in Callers : call[t].at \in Releasing \/ Deciding(t))'
      \/ InFlight("holdRelease", outbox)'
      => ReleaseUnderWay'
  BY DEF ReleaseUnderWay
<1>7. ~shouldBeConnected' \/ ovpn' # "hold" => ReleasePending'
  BY DEF ReleasePending
<1> QED
  BY <1>2, <1>3, <1>4, <1>5, <1>6, <1>7

\* A handler of the looper that makes the VPN one that should be connected
\* goes on to release its hold.
LEMMA LooperBeginsPending ==
    ASSUME CertainResume, HoldTypeOK, DeviceTypeOK, ReleasePending, LooperBegins
    PROVE  ReleasePending'
<1> /\ LooperOnly /\ Threads = {Main, Reader} /\ Main # Reader
    /\ task \in Tasks /\ call \in [Threads -> Calls]
  BY TwoThreads DEF DeviceTypeOK, CertainResume, HoldTypeOK
<1>0. AtRest(Main)
  BY NetworkFacts DEF LooperBegins, Register, Connectivity, DelayDisconnect, UserPauses,
     UserResumes, ScreenOff, ScreenOn, Handler
<1>1. ~(call[Main].at \in Releasing) /\ ~Deciding(Main)
  BY <1>0 DEF AtRest, Free, Releasing, Deciding
<1>2. UNCHANGED <<resumeTimers, mgmt, ovpn, inbox, outbox>>
  BY LooperFrame
<1>3. (shouldBeConnected' => shouldBeConnected) => ReleasePending'
  BY <1>1, <1>2, UnderWayFrame, PendingIf DEF ReleasePending
<1>4. CASE Register \/ Connectivity
  <2>1. networkStateChange
    BY <1>4 DEF Register, Connectivity
  <2>2. ASSUME NEW n \in Nets, NetworkConnected(n) PROVE ReleasePending'
    <3>1. CASE UNCHANGED holdVars /\ ~shouldBeConnected'
      BY <3>1, PendingIf
    <3>2. CASE \E same \in BOOLEAN : NetworkChange(Main, same)
      <4>1. call'[Main].at = "change"
        BY <3>2 DEF NetworkChange, Begin
      <4> QED
        BY <4>1, PendingIf DEF Releasing
    <3>3. CASE Resume(Main)
      <4>1. call'[Main].at = "release"
        BY <3>3 DEF Resume, Begin
      <4> QED
        BY <4>1, PendingIf DEF Releasing
    <3>4. UNCHANGED userpause
      BY <2>1 DEF networkStateChange
    <3>5. \/ UNCHANGED holdVars /\ ~ShouldBe("SHOULDBECONNECTED", screen', userpause)
          \/ NetworkChange(Main, TRUE)
          \/ NetworkChange(Main, n = lastConnectedNetwork)
          \/ Resume(Main)
      BY <2>2 DEF NetworkConnected
    <3>6. (n = lastConnectedNetwork) \in BOOLEAN
      OBVIOUS
    <3>7. network' = "SHOULDBECONNECTED"
      BY <2>2 DEF NetworkConnected
    <3> QED
      BY <3>1, <3>2, <3>3, <3>4, <3>5, <3>6, <3>7 DEF shouldBeConnected
  <2>3. CASE NetworkLost
    BY <2>3, ShouldMeans, PendingIf DEF NetworkLost
  <2>4. CASE NetworkUnaffected
    <3>1. UNCHANGED <<network, screen, userpause>>
      BY <2>1, <2>4 DEF networkStateChange, NetworkUnaffected
    <3> QED
      BY <1>3, <3>1, ShouldMeans
  <2>5. ~NetworkIgnored
    BY DEF NetworkIgnored, CertainResume
  <2> QED
    BY <2>1, <2>2, <2>3, <2>4, <2>5 DEF networkStateChange
<1>5. CASE DelayDisconnect
  <2>1. network' = "DISCONNECTED" \/ UNCHANGED <<network, screen, userpause>>
    BY <1>5 DEF DelayDisconnect
  <2> QED
    BY <1>3, <2>1, ShouldMeans
<1>6. CASE UserPauses(Main)
  <2>1. userpause' = "DISCONNECTED"
    BY <1>6 DEF UserPauses
  <2> QED
    BY <1>3, <2>1, ShouldMeans
<1>7. CASE ScreenOff
  <2>1. screen' = "PENDINGDISCONNECT" \/ UNCHANGED <<network, screen, userpause>>
    BY <1>7 DEF ScreenOff
  <2> QED
    BY <1>3, <2>1, ShouldMeans
<1>8. CASE UserResumes(Main) \/ ScreenOn
  <2>1. UNCHANGED <<network, screen, userpause>>
    BY <1>8 DEF UserResumes, ScreenOn
  <2> QED
    BY <1>3, <2>1, ShouldMeans
<1> QED
  BY <1>4, <1>5, <1>6, <1>7, <1>8 DEF LooperBegins

LEMMA LooperContinuesPending ==
    ASSUME CertainResume, HoldTypeOK, DeviceTypeOK, PositionsInv, CertainInv, ScreenInv,
           UnwantedInv, ReleasePending, LooperContinues
    PROVE  ReleasePending'
<1> /\ LooperOnly /\ Threads = {Main, Reader} /\ Main # Reader
    /\ task \in Tasks /\ call \in [Threads -> Calls]
  BY TwoThreads DEF DeviceTypeOK, CertainResume, HoldTypeOK
<1>0. task[Main].at # "none"
  BY DEF LooperContinues, PauseWithReason, UserCleared, TestResume, LooperGoesOn,
     ScreenOffPaused, ScreenIsOn, ScreenCompare, ScreenStill
<1>1. call[Main].at \notin Releasing
  BY <1>0 DEF PositionsInv, Free, Releasing
<1>2. UNCHANGED <<resumeTimers, mgmt, ovpn, inbox, outbox>>
  BY LooperFrame
<1>3. (shouldBeConnected' => shouldBeConnected) /\ ~Deciding(Main) => ReleasePending'
  BY <1>1, <1>2, UnderWayFrame, PendingIf DEF ReleasePending
<1>4. CASE PauseWithReason(Main)
  <2>1. UNCHANGED <<network, screen, userpause>> /\ task[Main].at = "reason"
    BY <1>4 DEF PauseWithReason
  <2> QED
    BY <2>1, ShouldMeans, PendingIf DEF UnwantedInv
<1>5. CASE UserCleared(Main)
  <2>1. task[Main].at = "clear" /\ task'[Main] = [at |-> "test", were |-> task[Main].were]
    BY <1>5 DEF UserCleared, Goto, Tasks
  <2>2. Deciding(Main)'
    BY <2>1 DEF CertainInv, Deciding
  <2> QED
    BY <2>2, PendingIf
<1>6. ASSUME Resume(Main) PROVE ReleasePending'
  <2>1. call'[Main].at = "release"
    BY <1>6 DEF Resume, Begin
  <2> QED
    BY <2>1, PendingIf DEF Releasing
<1>7. CASE TestResume(Main)
  <2>1. task[Main].at = "test" /\ UNCHANGED <<network, screen, userpause>>
    BY <1>7 DEF TestResume
  <2>2. Resume(Main) \/ ~(shouldBeConnected /\ ~task[Main].were)
    BY <1>7 DEF TestResume
  <2>3. ~shouldBeConnected' \/ Resume(Main)
    BY <2>1, <2>2, ShouldMeans DEF CertainInv
  <2> QED
    BY <1>6, <2>3, PendingIf
<1>8. CASE ScreenOffPaused \/ ScreenStill
  <2>1. ~Deciding(Main)
    BY <1>8 DEF ScreenOffPaused, ScreenStill, Deciding
  <2>2. screen' \in {screen, "DISCONNECTED"} /\ UNCHANGED <<network, userpause>>
    BY <1>8 DEF ScreenOffPaused, ScreenStill
  <2> QED
    BY <1>3, <2>1, <2>2, ShouldMeans
<1>9. CASE ScreenIsOn
  <2>1. task[Main].at = "on" /\ task'[Main] = [at |-> "compare", were |-> task[Main].were]
    BY <1>9 DEF ScreenIsOn, Goto, Tasks
  <2>2. CASE task[Main].were
    BY <1>3, <2>1, <2>2 DEF ScreenInv, Deciding
  <2>3. CASE ~task[Main].were
    <3>1. Deciding(Main)'
      BY <2>1, <2>3 DEF Deciding
    <3> QED
      BY <3>1, PendingIf
  <2> QED
    BY <2>2, <2>3
<1>10. CASE ScreenCompare
  <2>1. UNCHANGED <<network, screen, userpause>> /\ task[Main].were \in BOOLEAN
    BY <1>10 DEF ScreenCompare, Tasks
  <2>2. CASE shouldBeConnected # task[Main].were
    BY <1>6, <1>10, <2>2 DEF ScreenCompare
  <2>3. CASE shouldBeConnected = task[Main].were
    BY <1>3, <2>1, <2>3, ShouldMeans, PendingIf DEF Deciding
  <2> QED
    BY <2>2, <2>3
<1> QED
  BY <1>4, <1>5, <1>7, <1>8, <1>9, <1>10 DEF LooperContinues, LooperGoesOn

\* The management thread asks the callback with the flag set, and posts the
\* retry if it says yes.
LEMMA ReaderPending ==
    ASSUME LooperOnly, HoldTypeOK, DeviceTypeOK, ReleasePending, ReaderHandles
    PROVE  ReleasePending'
<1> /\ LooperOnly /\ Threads = {Main, Reader} /\ Main # Reader
    /\ task \in Tasks /\ call \in [Threads -> Calls]
  BY TwoThreads DEF DeviceTypeOK, HoldTypeOK
<1>1. /\ UNCHANGED <<resumeTimers, ovpn, inbox, outbox>>
      /\ call'[Main] = call[Main]
  BY DEF ReaderHandles, LowTraffic, TrafficScreenOff, PauseOnLowTraffic, AskScreen, AskUser,
         AskNetwork, ReadByteCount, PauseFromByteCount, AskCallback, holdVars
<1>2. task'[Main] = task[Main]
  BY DEF ReaderHandles, LowTraffic, TrafficScreenOff, PauseOnLowTraffic, AskScreen, AskUser,
         AskNetwork, Goto, Leave, Tasks
<1>3. Deciding(Main) => Deciding(Main)'
  BY <1>2 DEF Deciding
<1>4. (mgmt \in {"held", "retry"} => mgmt' \in {"held", "retry"}) => ReleasePending'
  BY <1>1, <1>3, OnlyWorse, UnderWayFrame, PendingIf DEF ReleasePending
<1>5. CASE LowTraffic \/ PauseOnLowTraffic
  BY <1>4, <1>5 DEF LowTraffic, PauseOnLowTraffic, ReadByteCount, PauseFromByteCount, AtLine
<1>6. CASE TrafficScreenOff
  BY <1>4, <1>6 DEF TrafficScreenOff, holdVars
<1>7. CASE AskScreen \/ AskUser \/ AskNetwork
  <2>1. mgmt' = mgmt \/ mgmt' = "retry" \/ ~shouldBeConnected
    BY <1>7, ShouldMeans DEF AskScreen, AskUser, AskNetwork, AskCallback, holdVars
  <2> QED
    BY <1>4, <2>1, OnlyWorse, PendingIf
<1> QED
  BY <1>5, <1>6, <1>7 DEF ReaderHandles

\* The lines of the protocol: those that take a timer or the flag away are
\* on the way to the release, or the VPN should not be connected, or a HOLD
\* is still to be read.
LEMMA ProtocolPending ==
    ASSUME LooperOnly, HoldTypeOK, DeviceTypeOK, NoLostHold, PositionsInv, UnwantedInv,
           InboxInv, ReleasePending, ProtocolStep
    PROVE  ReleasePending'
<1> /\ LooperOnly /\ Threads = {Main, Reader} /\ Main # Reader
    /\ call \in [Threads -> Calls] /\ inbox \in Seq(Lines) /\ outbox \in Seq(Commands)
  BY TwoThreads DEF HoldTypeOK
<1>0. /\ shouldBeConnected' => shouldBeConnected
      /\ Deciding(Main) => Deciding(Main)'
  BY OnlyWorse DEF ProtocolStep, deviceVars, Deciding
<1>f. ASSUME UNCHANGED <<ovpn, inbox>>,
             UNCHANGED outbox \/ (\E c \in Commands : outbox' = Append(outbox, c)),
             mgmt \in {"held", "retry"} => mgmt' \in {"held", "retry"},
             resumeTimers > 0 => resumeTimers' > 0,
             call[Main].at \in Releasing => call'[Main].at \in Releasing
      PROVE  ReleasePending'
  BY <1>0, <1>f, UnderWayFrame, PendingIf DEF ReleasePending
<1>1. CASE CallStep(Main)
  <2>1. CASE WriteReason(Main) \/ CancelResume(Main) \/ TestSignal(Main) \/ WriteUsr1(Main)
    <3>1. call[Main].at \in Pausing
      BY <2>1 DEF WriteReason, CancelResume, TestSignal, WriteUsr1, Go, Return, Pausing
    <3> QED
      BY <1>0, <3>1, PendingIf DEF UnwantedInv
  <2>2. CASE TestChange(Main) \/ TestRelease(Main)
    <3>1. CASE waiting
      <4>1. call'[Main].at \in {"release", "remove"}
        <5>1. CASE TestChange(Main)
          <6>1. Go(Main, "change", "release")
            BY <3>1, <5>1 DEF TestChange
          <6> QED
            BY <6>1 DEF Go
        <5>2. CASE TestRelease(Main)
          <6>1. Go(Main, "release", "remove")
            BY <3>1, <5>2 DEF TestRelease
          <6> QED
            BY <6>1 DEF Go
        <5> QED
          BY <2>2, <5>1, <5>2
      <4> QED
        BY <4>1, PendingIf DEF Releasing
    <3>2. CASE ~waiting
      <4>1. UNCHANGED <<ovpn, inbox, outbox>> /\ call[Main].at \in {"change", "release"}
        BY <2>2 DEF TestChange, TestRelease, Go, Done, Return
      <4>2. call[Reader].at # "sending"
        BY DEF PositionsInv, Pausing
      <4>3. ovpn = "hold" => InFlight("HOLD", inbox) \/ InFlight("holdRelease", outbox)
        BY <3>2, <4>1, <4>2 DEF NoLostHold
      <4> QED
        BY <4>1, <4>3, PendingIf
    <3> QED
      BY <3>1, <3>2
  <2>3. CASE RemoveTimers(Main) \/ Wake(Main)
    <3>1. call'[Main].at \in {"asleep", "sending"}
      BY <2>3 DEF RemoveTimers, Wake, Go
    <3> QED
      BY <3>1, PendingIf DEF Releasing
  <2>4. CASE Send(Main)
    <3>1. outbox' = Append(outbox, "holdRelease")
      BY <2>4 DEF Send, Command
    <3>2. InFlight("holdRelease", outbox')
      BY <3>1, InFlightNew DEF Commands
    <3> QED
      BY <3>2, PendingIf
  <2>5. CASE WriteRebind(Main) \/ ResetReason(Main)
    <3>1. call[Main].at \notin Releasing
      BY <2>5 DEF WriteRebind, ResetReason, Return, Releasing
    <3>2. UNCHANGED resumeTimers
      BY <2>5 DEF WriteRebind, ResetReason
    <3> QED
      BY <1>1, <1>f, <3>1, <3>2, CallPlaces
  <2> QED
    BY <1>1, <2>1, <2>2, <2>3, <2>4, <2>5 DEF CallStep
<1>2. CASE CallStep(Reader)
  <2>1. call'[Main] = call[Main] /\ UNCHANGED <<mgmt, ovpn, inbox>>
        /\ (UNCHANGED outbox \/ (\E c \in Commands : outbox' = Append(outbox, c)))
        /\ call[Reader].at \in Pausing
    BY <1>2, CallPlaces DEF PositionsInv, Free
  <2>2. CASE CancelResume(Reader)
    BY <2>1, PendingIf DEF InboxInv
  <2>3. CASE ~CancelResume(Reader)
    <3>1. UNCHANGED resumeTimers
      BY <1>2, <2>1, <2>3 DEF CallStep, WriteReason, TestSignal, WriteUsr1, TestChange,
         WriteRebind, TestRelease, RemoveTimers, Wake, Send, ResetReason, Go, Pausing
    <3> QED
      BY <1>f, <2>1, <3>1
  <2> QED
    BY <2>2, <2>3
<1>3. CASE AtRest(Main) /\ ResumeHold(shouldBeConnected)
  <2>1. shouldBeConnected => call'[Main].at = "remove"
    BY <1>3 DEF ResumeHold
  <2> QED
    BY <1>0, <2>1, PendingIf DEF Releasing
<1>4. CASE ReadHold
  BY <1>4, PendingIf DEF ReadHold
<1>5. CASE PostResumeHold
  <2>1. resumeTimers' > 0
    BY <1>5 DEF PostResumeHold, HoldTypeOK
  <2> QED
    BY <2>1, PendingIf
<1>6. CASE ReadState
  <2>1. inbox # <<>> /\ inbox' = Tail(inbox) /\ Head(inbox) = "STATE"
    BY <1>6 DEF ReadState, ReadLine
  <2>2. InFlight("HOLD", inbox) => InFlight("HOLD", inbox')
    BY <2>1, InFlightTail DEF Lines
  <2>3. UNCHANGED <<mgmt, resumeTimers, call, ovpn, outbox, task>>
    BY <1>6 DEF ReadState, ProtocolStep, deviceVars
  <2>4. InFlight("holdRelease", outbox) => InFlight("holdRelease", outbox')
    BY <2>3
  <2> QED
    BY <1>0, <2>2, <2>3, <2>4, PendingIf, TwoThreads DEF ReleasePending, ReleaseUnderWay
<1>7. CASE OvpnRestarts \/ OvpnReconnects
  <2>1. inbox' = Append(inbox, "HOLD")
    BY <1>7 DEF OvpnRestarts, OvpnReconnects, OvpnHolds
  <2>2. InFlight("HOLD", inbox')
    BY <2>1, InFlightNew DEF Lines
  <2> QED
    BY <2>2, PendingIf
<1>8. CASE OvpnReleased
  BY <1>8, PendingIf DEF OvpnReleased
<1>9. CASE OvpnRebinds
  <2>1. outbox # <<>> /\ outbox' = Tail(outbox) /\ Head(outbox) = "networkChange"
    BY <1>9 DEF OvpnRebinds, OvpnTakes
  <2>2. InFlight("holdRelease", outbox) => InFlight("holdRelease", outbox')
    BY <2>1, InFlightTail DEF Commands
  <2>3. UNCHANGED <<mgmt, resumeTimers, call, ovpn, inbox, task>>
    BY <1>9 DEF OvpnRebinds, OvpnTakes, ProtocolStep, deviceVars
  <2>4. InFlight("HOLD", inbox) => InFlight("HOLD", inbox')
    BY <2>3
  <2> QED
    BY <1>0, <2>2, <2>3, <2>4, PendingIf, TwoThreads DEF ReleasePending, ReleaseUnderWay
<1> QED
  BY <1>1, <1>2, <1>3, <1>4, <1>5, <1>6, <1>7, <1>8, <1>9 DEF ProtocolStep, Ovpn

\* A VPN that should run and is on hold always has its release under way,
\* whatever the looper, the management thread, the timers and OpenVPN do
\* between two lines of each other.
THEOREM ReleaseAlwaysPending ==
    ASSUME CertainResume
    PROVE  Spec => []ReleasePending
<1> USE DEF ReleaseInv
<1>1. Init => ReleaseInv
  <2> SUFFICES ASSUME Init PROVE ReleaseInv
    OBVIOUS
  <2>1. HoldTypeOK /\ DeviceTypeOK
    BY HoldTypesAtFirst, DeviceTypesAtFirst DEF Init
  <2>2. /\ call[Main] = Idle /\ call[Reader] = Idle /\ task[Main] = NoTask
        /\ task[Reader] = NoTask
    BY CallersAssumption DEF Init, HoldInit, Threads
  <2>3. inbox = <<"HOLD">> /\ mgmt = "idle" /\ ovpn = "hold"
    BY DEF Init, HoldInit
  <2>4. InFlight("HOLD", inbox)
    BY <2>3 DEF InFlight
  <2>5. NoLostHold /\ ReleasePending
    BY <2>4 DEF NoLostHold, ReleasePending, ReleaseUnderWay
  <2>6. PositionsInv /\ CertainInv /\ UnwantedInv
    BY <2>2 DEF PositionsInv, CertainInv, UnwantedInv, Idle, NoTask, Free, Pausing
  <2>7. ScreenInv
    <3>1. screen = "SHOULDBECONNECTED"
      BY DEF Init
    <3>2. task[Main].at = "none" /\ task[Reader].at = "none"
      BY <2>2 DEF NoTask
    <3> QED
      BY <3>1, <3>2 DEF ScreenInv
  <2>8. InboxInv
    BY <2>3, <2>4 DEF InboxInv
  <2> QED
    BY <2>1, <2>5, <2>6, <2>7, <2>8
<1>2. ReleaseInv /\ NoLostHold' /\ HoldTypeOK' /\ [Next]_vars => ReleaseInv'
  <2> SUFFICES ASSUME ReleaseInv, NoLostHold', HoldTypeOK', [Next]_vars PROVE ReleaseInv'
    OBVIOUS
  <2>0. LooperOnly
    BY DEF CertainResume
  <2>1. DeviceTypeOK' /\ PositionsInv' /\ CertainInv' /\ ScreenInv' /\ UnwantedInv' /\ InboxInv'
    BY <2>0, DeviceTypes, PositionsKept, CertainKept, ScreenKept, UnwantedKept, InboxKept
  <2>2. ASSUME LooperBegins PROVE ReleasePending'
    BY <2>2, LooperBeginsPending
  <2>3. ASSUME LooperContinues PROVE ReleasePending'
    BY <2>3, LooperContinuesPending
  <2>4. ASSUME ReaderHandles PROVE ReleasePending'
    BY <2>0, <2>4, ReaderPending
  <2>5. ASSUME ProtocolStep PROVE ReleasePending'
    BY <2>0, <2>5, ProtocolPending
  <2>6. ASSUME UNCHANGED vars PROVE ReleasePending'
    BY <2>6 DEF vars, holdVars, deviceVars, ReleasePending, ReleaseUnderWay, InFlight,
                Deciding, shouldBeConnected
  <2>7. ReleasePending'
    BY <2>0, <2>2, <2>3, <2>4, <2>5, <2>6, LooperSteps
  <2> QED
    BY <2>1, <2>7
<1>3. ReleaseInv => ReleasePending
  OBVIOUS
<1> QED
  BY <1>1, <1>2, <1>3, Implements, HoldTypeCorrect, PauseNeverLosesHold, PTL DEF Spec

-----------------------------------------------------------------------------
(***************************************************************************)
(* PauseControl: the reason of the user, and releases that are wanted.     *)
(***************************************************************************)

\* What both are claimed under: the looper is the only caller, and the
\* preference "screenoff" is off, so the management thread pauses nothing.
Quiet == LooperOnly /\ TRUE \notin ScreenOffPause

\* The management thread pauses nothing, and what the looper reads in
\* ACTION_SCREEN_ON does not change.
QuietInv ==
    /\ screen = "SHOULDBECONNECTED"
    /\ task[Reader].at \notin {"traffic", "reason"}
    /\ mgmt # "traffic" /\ Free(Reader)
    /\ task[Main].at # "none" => Free(Main)
    /\ task[Main].at # "off"
    /\ task[Main].at \in {"on", "compare"} => (task[Main].were <=> shouldBeConnected)

\* The looper pauses a VPN the user has paused with the user's reason, and
\* resumes no such VPN.
ReasonInv ==
    /\ (call[Main].at = "pause" /\ userpause = "DISCONNECTED") => call[Main].why = "userPause"
    /\ (call[Main].at \notin Pausing \cup {"idle"} /\ call[Main].why = "resume")
          => userpause # "DISCONNECTED"
    /\ call[Main].at = "reset" => call[Main].why = "resume"

\* The looper is on its way to release a hold only of a VPN that should be
\* connected, but for the return of the same network.
WantedInv ==
    (call[Main].at \in Releasing /\ call[Main].why # "sameNetwork") => shouldBeConnected

LooperInv == HoldTypeOK /\ DeviceTypeOK /\ QuietInv /\ ReasonInv /\ WantedInv /\ UserReasonKept

\* The operation networkStateChange begins.
LEMMA NetworkOperation ==
    ASSUME HoldTypeOK, networkStateChange
    PROVE  \/ UNCHANGED call
           \/ call'[Main] = [at |-> "change", why |-> "sameNetwork"]
           \/ /\ \/ call'[Main] = [at |-> "change", why |-> "newNetwork"]
                 \/ call'[Main] = [at |-> "release", why |-> "resume"]
              /\ shouldBeConnected'
<1> Main \in Threads
  BY CallersAssumption DEF Threads
<1>1. ASSUME NEW n \in Nets, NetworkConnected(n)
      PROVE  \/ UNCHANGED call
             \/ call'[Main] = [at |-> "change", why |-> "sameNetwork"]
             \/ /\ \/ call'[Main] = [at |-> "change", why |-> "newNetwork"]
                   \/ call'[Main] = [at |-> "release", why |-> "resume"]
                /\ shouldBeConnected'
  <2>1. \/ UNCHANGED holdVars
        \/ NetworkChange(Main, TRUE)
        \/ NetworkChange(Main, n = lastConnectedNetwork)
           /\ ShouldBe("SHOULDBECONNECTED", screen', userpause)
        \/ Resume(Main) /\ ShouldBe("SHOULDBECONNECTED", screen', userpause)
    BY <1>1 DEF NetworkConnected
  <2>2. network' = "SHOULDBECONNECTED" /\ UNCHANGED userpause
    BY <1>1 DEF NetworkConnected, networkStateChange
  <2>3. ASSUME NEW at, NEW why, Begin(Main, at, why) PROVE call'[Main] = [at |-> at, why |-> why]
    BY <2>3, BeginFacts
  <2>4. CASE NetworkChange(Main, TRUE)
    BY <2>3, <2>4 DEF NetworkChange
  <2>5. CASE NetworkChange(Main, n = lastConnectedNetwork)
             /\ ShouldBe("SHOULDBECONNECTED", screen', userpause)
    <3>1. CASE n = lastConnectedNetwork
      BY <2>3, <2>5, <3>1 DEF NetworkChange
    <3>2. CASE n # lastConnectedNetwork
      BY <2>2, <2>3, <2>5, <3>2 DEF NetworkChange, shouldBeConnected
    <3> QED
      BY <3>1, <3>2
  <2>6. CASE Resume(Main) /\ ShouldBe("SHOULDBECONNECTED", screen', userpause)
    BY <2>2, <2>3, <2>6 DEF Resume, shouldBeConnected
  <2>7. CASE UNCHANGED holdVars
    BY <2>7 DEF holdVars
  <2> QED
    BY <2>1, <2>4, <2>5, <2>6, <2>7
<1>2. CASE NetworkLost \/ NetworkIgnored \/ NetworkUnaffected
  BY <1>2 DEF NetworkLost, NetworkIgnored, NetworkUnaffected, holdVars
<1> QED
  BY <1>1, <1>2 DEF networkStateChange

\* What a handler that begins on the looper leaves.
LEMMA QuietBegins ==
    ASSUME Quiet, LooperInv, LooperBegins
    PROVE  /\ Free(Main)
           /\ screen' = "SHOULDBECONNECTED"
           /\ UNCHANGED lastPauseReason
           /\ task'[Reader] = task[Reader]
           /\ \/ task'[Main].at = "none"
              \/ UNCHANGED call /\ task'[Main].at \in {"reason", "clear"}
              \/ /\ UNCHANGED call
                 /\ task'[Main] = [at |-> "on", were |-> shouldBeConnected]
                 /\ shouldBeConnected' = shouldBeConnected
           /\ userpause' = userpause
              \/ (userpause' = "DISCONNECTED" /\ task'[Main].at = "reason" /\ UNCHANGED call)
           /\ \/ UNCHANGED call
              \/ call'[Main] = [at |-> "change", why |-> "sameNetwork"]
              \/ /\ \/ call'[Main] = [at |-> "change", why |-> "newNetwork"]
                    \/ call'[Main] = [at |-> "release", why |-> "resume"]
                 /\ shouldBeConnected'
<1> /\ LooperOnly /\ Threads = {Main, Reader} /\ Main # Reader
    /\ task \in Tasks /\ call \in [Threads -> Calls] /\ HoldTypeOK
    /\ screen = "SHOULDBECONNECTED"
  BY TwoThreads DEF Quiet, LooperInv, DeviceTypeOK, HoldTypeOK, QuietInv
<1>1. CASE Register \/ Connectivity
  <2>1. networkStateChange
    BY <1>1 DEF Register, Connectivity
  <2>2. task[Main].at = "none" /\ UNCHANGED task
    BY <2>1, NetworkFacts DEF AtRest
  <2> QED
    BY <2>1, <2>2, NetworkFacts, NetworkOperation DEF AtRest
<1>2. CASE DelayDisconnect
  <2>1. AtRest(Main) /\ UNCHANGED <<call, lastPauseReason, userpause>>
        /\ (UNCHANGED task \/ Goto(Main, "reason"))
    BY <1>2 DEF DelayDisconnect, Handler, holdVars
  <2>2. screen' = "SHOULDBECONNECTED"
    BY <1>2 DEF DelayDisconnect
  <2> QED
    BY <2>1, <2>2 DEF AtRest, Goto, Tasks
<1>3. CASE UserPauses(Main)
  <2>1. AtRest(Main) /\ UNCHANGED <<call, lastPauseReason, screen>>
        /\ userpause' = "DISCONNECTED" /\ Goto(Main, "reason")
    BY <1>3 DEF UserPauses, Handler, holdVars
  <2> QED
    BY <2>1 DEF AtRest, Goto, Tasks
<1>4. CASE UserResumes(Main)
  <2>1. AtRest(Main) /\ UNCHANGED <<call, lastPauseReason, screen, userpause>>
    BY <1>4 DEF UserResumes, Handler, holdVars
  <2>2. task'[Main].at = "clear" /\ task'[Reader] = task[Reader]
    BY <1>4 DEF UserResumes, Tasks
  <2> QED
    BY <2>1, <2>2 DEF AtRest
<1>5. CASE ScreenOff
  <2>1. AtRest(Main) /\ UNCHANGED <<call, lastPauseReason, userpause>>
        /\ (TRUE \in ScreenOffPause \/ UNCHANGED <<screen, task>>)
    BY <1>5 DEF ScreenOff, Handler, holdVars
  <2> QED
    BY <2>1 DEF AtRest, Quiet
<1>6. CASE ScreenOn
  <2>1. AtRest(Main) /\ UNCHANGED <<call, lastPauseReason, network, screen, userpause>>
    BY <1>6 DEF ScreenOn, Handler, holdVars
  <2>2. task'[Main] = [at |-> "on", were |-> shouldBeConnected] /\ task'[Reader] = task[Reader]
    BY <1>6 DEF ScreenOn, Tasks
  <2> QED
    BY <2>1, <2>2 DEF AtRest, shouldBeConnected
<1> QED
  BY <1>1, <1>2, <1>3, <1>4, <1>5, <1>6 DEF LooperBegins

\* What a step of a handler that has begun leaves.
LEMMA QuietContinues ==
    ASSUME Quiet, LooperInv, LooperContinues
    PROVE  /\ Free(Main) /\ task[Main].at # "none"
           /\ screen' = "SHOULDBECONNECTED"
           /\ UNCHANGED <<lastPauseReason, network>>
           /\ task'[Reader] = task[Reader]
           /\ \/ /\ UNCHANGED <<call, userpause>>
                 /\ task'[Main].at \in {"none", "reason", "compare", "still"}
                 /\ task'[Main].at = "compare" => task'[Main].were = task[Main].were
                                                  /\ task[Main].at = "on"
                 /\ task[Main].at # "reason"
              \/ /\ UNCHANGED call /\ userpause' = "SHOULDBECONNECTED"
                 /\ task'[Main].at = "test"
              \/ /\ UNCHANGED userpause /\ task'[Main].at = "none"
                 /\ \/ /\ call'[Main].at = "pause"
                       /\ userpause = "DISCONNECTED" => call'[Main].why = "userPause"
                    \/ call'[Main] = [at |-> "release", why |-> "resume"] /\ shouldBeConnected
<1> /\ LooperOnly /\ Threads = {Main, Reader} /\ Main # Reader
    /\ task \in Tasks /\ call \in [Threads -> Calls] /\ HoldTypeOK /\ QuietInv
    /\ screen = "SHOULDBECONNECTED"
  BY TwoThreads DEF Quiet, LooperInv, DeviceTypeOK, HoldTypeOK, QuietInv
<1>0. task[Main].at # "none"
  BY DEF LooperContinues, PauseWithReason, UserCleared, TestResume, LooperGoesOn,
     ScreenOffPaused, ScreenIsOn, ScreenCompare, ScreenStill
<1>1. Free(Main)
  BY <1>0 DEF QuietInv
<1>2. CASE PauseWithReason(Main)
  <2>1. Pause(Main, getPauseReason(network, screen, userpause)) /\ Leave(Main)
        /\ UNCHANGED <<network, screen, userpause>>
    BY <1>2 DEF PauseWithReason
  <2>2. call'[Main] = [at |-> "pause", why |-> getPauseReason(network, screen, userpause)]
        /\ UNCHANGED lastPauseReason
    BY <2>1, BeginFacts DEF Pause
  <2>3. task'[Main].at = "none" /\ task'[Reader] = task[Reader]
    BY <2>1, LeavePlaces DEF NoTask
  <2> QED
    BY <1>0, <1>1, <2>1, <2>2, <2>3 DEF getPauseReason
<1>3. CASE UserCleared(Main)
  <2>1. Goto(Main, "test") /\ UNCHANGED <<call, lastPauseReason, network, screen>>
        /\ userpause' = "SHOULDBECONNECTED"
    BY <1>3 DEF UserCleared, holdVars
  <2> QED
    BY <1>0, <1>1, <2>1 DEF Goto, Tasks
<1>4. ASSUME Resume(Main), Leave(Main)
      PROVE  /\ call'[Main] = [at |-> "release", why |-> "resume"] /\ task'[Main].at = "none"
             /\ task'[Reader] = task[Reader] /\ UNCHANGED lastPauseReason
  BY <1>4, BeginFacts, LeavePlaces DEF Resume, NoTask
<1>5. ASSUME NEW at \in {"reason", "still"}, Goto(Main, at), UNCHANGED holdVars
      PROVE  /\ task'[Main].at = at /\ task'[Reader] = task[Reader]
             /\ UNCHANGED <<call, lastPauseReason>>
  BY <1>5 DEF Goto, Tasks, holdVars
<1>6. CASE TestResume(Main)
  <2>1. task[Main].at = "test" /\ UNCHANGED <<network, screen, userpause>>
    BY <1>6 DEF TestResume
  <2>2. \/ Resume(Main) /\ Leave(Main) /\ shouldBeConnected
        \/ Goto(Main, "reason") /\ UNCHANGED holdVars
    BY <1>6 DEF TestResume
  <2> QED
    BY <1>0, <1>1, <1>4, <1>5, <2>1, <2>2
<1>7. CASE ScreenCompare
  <2>1. task[Main].at = "compare" /\ UNCHANGED <<network, screen, userpause>>
    BY <1>7 DEF ScreenCompare
  <2>2. task[Main].were = shouldBeConnected
    BY <2>1, ShouldMeans DEF QuietInv, Tasks
  <2>3. Goto(Main, "still") /\ UNCHANGED holdVars
    BY <1>7, <2>2 DEF ScreenCompare
  <2> QED
    BY <1>0, <1>1, <1>5, <2>1, <2>3
<1>8. CASE ScreenOffPaused
  BY <1>8 DEF ScreenOffPaused, QuietInv
<1>9. CASE ScreenIsOn
  <2>1. /\ task[Main].at = "on" /\ Goto(Main, "compare") /\ screen' = "SHOULDBECONNECTED"
        /\ UNCHANGED <<call, lastPauseReason, network, userpause>>
    BY <1>9 DEF ScreenIsOn, holdVars
  <2> QED
    BY <1>0, <1>1, <2>1 DEF Goto, Tasks
<1>10. CASE ScreenStill
  <2>1. /\ task[Main].at = "still" /\ (Leave(Main) \/ Goto(Main, "reason"))
        /\ UNCHANGED <<call, lastPauseReason, network, screen, userpause>>
    BY <1>10 DEF ScreenStill, holdVars
  <2> QED
    BY <1>0, <1>1, <2>1 DEF Goto, Leave, NoTask, Tasks
<1> QED
  BY <1>2, <1>3, <1>6, <1>7, <1>8, <1>9, <1>10 DEF LooperContinues, LooperGoesOn

\* The management thread and the protocol leave the fields alone; a line of
\* resume() or pause writes the reason.
LEMMA QuietOthers ==
    ASSUME Quiet, LooperInv, ReaderHandles \/ ProtocolStep
    PROVE  /\ UNCHANGED <<network, screen, userpause>> /\ task'[Main] = task[Main]
           /\ task'[Reader].at \notin {"traffic", "reason"}
           /\ mgmt' # "traffic" /\ call'[Reader] = call[Reader]
           /\ \/ UNCHANGED <<lastPauseReason>> /\ call'[Main] = call[Main]
              \/ CallStep(Main)
              \/ /\ UNCHANGED lastPauseReason /\ AtRest(Main) /\ shouldBeConnected
                 /\ call'[Main] = [at |-> "remove", why |-> "timer"]
<1> /\ LooperOnly /\ Threads = {Main, Reader} /\ Main # Reader
    /\ task \in Tasks /\ call \in [Threads -> Calls] /\ HoldTypeOK /\ QuietInv
  BY TwoThreads DEF Quiet, LooperInv, DeviceTypeOK, HoldTypeOK, QuietInv
<1>1. CASE ReaderHandles
  <2>1. AskScreen \/ AskUser \/ AskNetwork
    BY <1>1 DEF ReaderHandles, LowTraffic, TrafficScreenOff, PauseOnLowTraffic, QuietInv
  <2>2. UNCHANGED <<call, lastPauseReason, network, screen, userpause>>
        /\ mgmt' \in {mgmt, "idle", "retry"}
    BY <2>1 DEF AskScreen, AskUser, AskNetwork, AskCallback, holdVars
  <2>3. UNCHANGED task \/ Leave(Reader) \/ Goto(Reader, "user") \/ Goto(Reader, "network")
    BY <2>1 DEF AskScreen, AskUser, AskNetwork
  <2>4. task'[Main] = task[Main] /\ task'[Reader].at \notin {"traffic", "reason"}
    BY <2>3 DEF Goto, Leave, NoTask, Tasks, QuietInv
  <2> QED
    BY <2>2, <2>4 DEF QuietInv
<1>2. CASE ProtocolStep
  <2>1. UNCHANGED <<network, screen, userpause, task>>
    BY <1>2 DEF ProtocolStep, deviceVars
  <2>2. CASE CallStep(Main)
    <3>1. call'[Reader] = call[Reader] /\ UNCHANGED mgmt
      BY <2>2, CallPlaces
    <3> QED
      BY <2>1, <2>2, <3>1 DEF QuietInv
  <2>3. ~CallStep(Reader)
    BY CallPlaces DEF QuietInv
  <2>4. CASE AtRest(Main) /\ ResumeHold(shouldBeConnected)
    <3>1. UNCHANGED <<mgmt, lastPauseReason>>
          /\ (UNCHANGED call \/ (shouldBeConnected /\ call' =
                 [call EXCEPT ![Main] = [at |-> "remove", why |-> "timer"]]))
      BY <2>4 DEF ResumeHold
    <3> QED
      BY <2>1, <2>4, <3>1 DEF QuietInv
  <2>5. CASE ReadHold \/ ReadState \/ PostResumeHold \/ Ovpn \/ OvpnReconnects
    <3>1. UNCHANGED <<call, lastPauseReason>> /\ mgmt' \in {mgmt, "held", "idle"}
      BY <2>5 DEF ReadHold, ReadState, PostResumeHold, Ovpn, OvpnReconnects, OvpnRestarts,
         OvpnReleased, OvpnRebinds, OvpnTakes
    <3> QED
      BY <2>1, <3>1 DEF QuietInv
  <2> QED
    BY <1>2, <2>2, <2>3, <2>4, <2>5 DEF ProtocolStep
<1> QED
  BY <1>1, <1>2

\* What a line of an operation does to lastPauseReason.
LEMMA CallReason ==
    ASSUME NEW t \in Threads, CallStep(t)
    PROVE  \/ call[t].at = "pause" /\ lastPauseReason' = call[t].why
           \/ call[t].at # "pause" /\ UNCHANGED lastPauseReason
           \/ call[t].at = "reset"
  BY DEF CallStep, WriteReason, CancelResume, TestSignal, WriteUsr1, TestChange, WriteRebind,
         TestRelease, RemoveTimers, Wake, Send, ResetReason, Go, Return, Done

\* The four parts of the invariant, kept by what begins on the looper ...
LEMMA LooperInvBegins ==
    ASSUME Quiet, LooperInv, LooperBegins
    PROVE  QuietInv' /\ ReasonInv' /\ WantedInv' /\ UserReasonKept'
<1>1. Free(Main) /\ QuietInv /\ UserReasonKept
  BY QuietBegins DEF LooperInv
<1>2. UNCHANGED mgmt /\ call'[Reader] = call[Reader]
  BY LooperFrame DEF Quiet, LooperInv
<1>3. QuietInv'
  BY <1>1, <1>2, QuietBegins DEF QuietInv, Free
<1>4. call'[Main].at \in {"change", "release"} \/ UNCHANGED call
  BY QuietBegins
<1>5. ReasonInv'
  <2>1. CASE UNCHANGED call
    BY <1>1, <2>1 DEF ReasonInv, Free, Pausing
  <2>2. CASE call'[Main] = [at |-> "change", why |-> "sameNetwork"]
             \/ call'[Main] = [at |-> "change", why |-> "newNetwork"]
    BY <2>2 DEF ReasonInv, Pausing
  <2>3. CASE call'[Main] = [at |-> "release", why |-> "resume"] /\ shouldBeConnected'
    BY <2>3, ShouldMeans DEF ReasonInv, Pausing
  <2> QED
    BY <2>1, <2>2, <2>3, QuietBegins
<1>6. WantedInv'
  BY <1>1, QuietBegins DEF WantedInv, Free, Releasing
<1>7. UserReasonKept'
  <2>1. CASE UNCHANGED userpause
    <3>1. UserReasonUnderWay => UserReasonUnderWay' \/ task[Main].at = "reason"
      BY <1>1 DEF UserReasonUnderWay, Free
    <3>2. task[Main].at = "none"
      BY DEF LooperBegins, Register, Connectivity, networkStateChange, DelayDisconnect,
         UserPauses, UserResumes, ScreenOff, ScreenOn, Handler, AtRest
    <3> QED
      BY <1>1, <2>1, <3>1, <3>2, QuietBegins DEF UserReasonKept
  <2>2. CASE task'[Main].at = "reason"
    BY <2>2 DEF UserReasonKept, UserReasonUnderWay
  <2> QED
    BY <2>1, <2>2, QuietBegins
<1> QED
  BY <1>3, <1>5, <1>6, <1>7

\* ... by what goes on there ...
LEMMA LooperInvContinues ==
    ASSUME Quiet, LooperInv, LooperContinues
    PROVE  QuietInv' /\ ReasonInv' /\ WantedInv' /\ UserReasonKept'
<1>1. Free(Main) /\ QuietInv /\ UserReasonKept /\ task[Main].at # "none"
  BY QuietContinues DEF LooperInv
<1>2. UNCHANGED mgmt /\ call'[Reader] = call[Reader]
  BY LooperFrame DEF Quiet, LooperInv
<1>3. CASE /\ UNCHANGED <<call, userpause>>
           /\ task'[Main].at \in {"none", "reason", "compare", "still"}
           /\ task'[Main].at = "compare" => task'[Main].were = task[Main].were
                                            /\ task[Main].at = "on"
           /\ task[Main].at # "reason"
  <2>1. UNCHANGED <<screen, network, lastPauseReason>> /\ task'[Reader] = task[Reader]
    BY <1>1, QuietContinues DEF QuietInv
  <2>2. shouldBeConnected' = shouldBeConnected
    BY <1>3, <2>1 DEF shouldBeConnected
  <2>3. QuietInv'
    BY <1>1, <1>2, <1>3, <2>1, <2>2 DEF QuietInv, Free
  <2>4. ReasonInv' /\ WantedInv' /\ UserReasonKept'
    BY <1>1, <1>3, <2>1 DEF ReasonInv, WantedInv, UserReasonKept, UserReasonUnderWay, Free,
       Pausing, Releasing
  <2> QED
    BY <2>3, <2>4
<1>4. CASE UNCHANGED call /\ userpause' = "SHOULDBECONNECTED" /\ task'[Main].at = "test"
  <2>1. QuietInv'
    BY <1>1, <1>2, <1>4, QuietContinues DEF QuietInv, Free
  <2>2. ReasonInv' /\ WantedInv' /\ UserReasonKept'
    BY <1>1, <1>4 DEF ReasonInv, WantedInv, UserReasonKept, Free, Pausing, Releasing
  <2> QED
    BY <2>1, <2>2
<1>5. CASE /\ UNCHANGED userpause /\ task'[Main].at = "none"
           /\ call'[Main].at = "pause"
           /\ userpause = "DISCONNECTED" => call'[Main].why = "userPause"
  <2>1. QuietInv'
    BY <1>1, <1>2, <1>5, QuietContinues DEF QuietInv, Free
  <2>2. ReasonInv' /\ WantedInv' /\ UserReasonKept'
    BY <1>1, <1>5 DEF ReasonInv, WantedInv, UserReasonKept, UserReasonUnderWay, Pausing,
       Releasing
  <2> QED
    BY <2>1, <2>2
<1>6. CASE /\ UNCHANGED userpause /\ task'[Main].at = "none"
           /\ call'[Main] = [at |-> "release", why |-> "resume"]
           /\ shouldBeConnected
  <2>1. QuietInv'
    BY <1>1, <1>2, <1>6, QuietContinues DEF QuietInv, Free
  <2>2. UNCHANGED <<network, screen>>
    BY <1>1, QuietContinues DEF QuietInv
  <2>3. ReasonInv' /\ WantedInv' /\ UserReasonKept'
    BY <1>6, <2>2, ShouldMeans DEF ReasonInv, WantedInv, UserReasonKept, Pausing
  <2> QED
    BY <2>1, <2>3
<1> QED
  BY <1>3, <1>4, <1>5, <1>6, QuietContinues

\* ... and by the management thread, the operations and OpenVPN.
LEMMA LooperInvOthers ==
    ASSUME Quiet, LooperInv, ReaderHandles \/ ProtocolStep
    PROVE  QuietInv' /\ ReasonInv' /\ WantedInv' /\ UserReasonKept'
<1>0. /\ QuietInv /\ ReasonInv /\ WantedInv /\ UserReasonKept /\ HoldTypeOK
      /\ Main \in Threads /\ call \in [Threads -> Calls]
  BY CallersAssumption DEF LooperInv, HoldTypeOK, Threads
<1>1. /\ UNCHANGED <<network, screen, userpause>> /\ task'[Main] = task[Main]
      /\ task'[Reader].at \notin {"traffic", "reason"}
      /\ mgmt' # "traffic" /\ call'[Reader] = call[Reader]
  BY QuietOthers
<1>2. shouldBeConnected' = shouldBeConnected
  BY <1>1 DEF shouldBeConnected
<1>3. ASSUME task[Main].at # "none" => Free(Main)' PROVE QuietInv'
  BY <1>0, <1>1, <1>2, <1>3 DEF QuietInv, Free
<1>4. CASE UNCHANGED lastPauseReason /\ call'[Main] = call[Main]
  <2>1. Free(Main)' = Free(Main)
    BY <1>4 DEF Free
  <2>2. QuietInv'
    BY <1>0, <1>3, <2>1 DEF QuietInv
  <2>3. ReasonInv' /\ WantedInv' /\ UserReasonKept'
    BY <1>0, <1>1, <1>2, <1>4 DEF ReasonInv, WantedInv, UserReasonKept, UserReasonUnderWay
  <2> QED
    BY <2>2, <2>3
<1>5. CASE UNCHANGED lastPauseReason /\ AtRest(Main) /\ shouldBeConnected
           /\ call'[Main] = [at |-> "remove", why |-> "timer"]
  <2>1. QuietInv'
    BY <1>3, <1>5 DEF AtRest
  <2>2. ReasonInv' /\ WantedInv' /\ UserReasonKept'
    BY <1>1, <1>2, <1>5, ShouldMeans DEF ReasonInv, WantedInv, UserReasonKept, Pausing
  <2> QED
    BY <2>1, <2>2
<1>6. CASE CallStep(Main)
  <2>1. /\ ~Free(Main)
        /\ call[Main].at \in Pausing => call'[Main].at \in Pausing \cup {"idle"}
        /\ call'[Main].at \in Pausing => call[Main].at \in Pausing
        /\ call'[Main].at \in Releasing => call[Main].at \in Releasing
        /\ call'[Main] = Idle \/ call'[Main].why = call[Main].why
        /\ call'[Main].at # "pause" /\ (call'[Main].at = "idle" => call'[Main] = Idle)
        /\ call'[Main].at = "reset" => call'[Main].why = "resume"
    BY <1>0, <1>6, CallPlaces
  <2>2. QuietInv'
    BY <1>0, <1>3, <2>1 DEF QuietInv
  <2>3. ReasonInv'
    BY <1>0, <1>1, <2>1 DEF ReasonInv, Free, Idle
  <2>4. WantedInv'
    BY <1>0, <1>2, <2>1 DEF WantedInv, Idle, Releasing
  <2>5. UserReasonKept'
    <3>1. CASE call[Main].at = "pause" /\ lastPauseReason' = call[Main].why
      BY <1>0, <1>1, <3>1 DEF UserReasonKept, ReasonInv
    <3>2. CASE call[Main].at # "pause" /\ UNCHANGED lastPauseReason
      BY <1>0, <1>1, <3>2 DEF UserReasonKept, UserReasonUnderWay
    <3>3. CASE call[Main].at = "reset"
      BY <1>0, <1>1, <3>3 DEF UserReasonKept, ReasonInv, Pausing
    <3> QED
      BY <1>0, <1>6, <3>1, <3>2, <3>3, CallReason
  <2> QED
    BY <2>2, <2>3, <2>4, <2>5
<1> QED
  BY <1>4, <1>5, <1>6, QuietOthers

LEMMA LooperInvAtFirst == Init => LooperInv
<1> SUFFICES ASSUME Init PROVE LooperInv
  OBVIOUS
<1>1. HoldTypeOK /\ DeviceTypeOK
  BY HoldTypesAtFirst, DeviceTypesAtFirst DEF Init
<1>2. /\ call[Main] = Idle /\ call[Reader] = Idle /\ task[Main] = NoTask
      /\ task[Reader] = NoTask
  BY CallersAssumption DEF Init, HoldInit, Threads
<1>3. mgmt = "idle" /\ screen = "SHOULDBECONNECTED" /\ userpause = "SHOULDBECONNECTED"
  BY DEF Init, HoldInit
<1>4. QuietInv
  BY <1>2, <1>3 DEF QuietInv, NoTask, Idle, Free
<1>5. ReasonInv /\ WantedInv /\ UserReasonKept
  BY <1>2, <1>3 DEF ReasonInv, WantedInv, UserReasonKept, Idle, Pausing, Releasing
<1> QED
  BY <1>1, <1>4, <1>5 DEF LooperInv

LEMMA LooperInvKept ==
    ASSUME Quiet
    PROVE  LooperInv /\ HoldTypeOK' /\ [Next]_vars => LooperInv'
<1> SUFFICES ASSUME LooperInv, HoldTypeOK', [Next]_vars PROVE LooperInv'
  OBVIOUS
<1>1. DeviceTypeOK'
  BY DeviceTypes DEF LooperInv
<1>2. CASE UNCHANGED vars
  BY <1>2 DEF LooperInv, HoldTypeOK, DeviceTypeOK, QuietInv, ReasonInv, WantedInv,
     UserReasonKept, UserReasonUnderWay, shouldBeConnected, Free, vars, holdVars, deviceVars
<1>3. LooperBegins \/ LooperContinues \/ ReaderHandles \/ ProtocolStep
      => QuietInv' /\ ReasonInv' /\ WantedInv' /\ UserReasonKept'
  BY LooperInvBegins, LooperInvContinues, LooperInvOthers
<1> QED
  BY <1>1, <1>2, <1>3, LooperSteps DEF LooperInv, Quiet

\* While the user pauses the VPN, the reason that will be shown is the
\* user's, whatever timers and broadcasts pause it again.
THEOREM UserReasonAlwaysKept ==
    ASSUME Quiet
    PROVE  Spec => []UserReasonKept
<1>1. LooperInv => UserReasonKept
  BY DEF LooperInv
<1> QED
  BY <1>1, LooperInvAtFirst, LooperInvKept, HoldTypeCorrect, Implements, PTL DEF Spec

\* "holdRelease" is written only while the VPN should be connected, though
\* it was decided before the sleep, but for the return of the same network.
THEOREM ReleasedAsWanted ==
    ASSUME Quiet
    PROVE  Spec => ReleasedOnlyIfWanted
<1>1. ASSUME LooperInv, [Next]_vars
      PROVE  [\A t \in Callers :
                (call[t].at = "sending" /\ call'[t].at # "sending" /\ call[t].why # "sameNetwork")
                   => shouldBeConnected]_vars
  BY <1>1 DEF LooperInv, WantedInv, Releasing, Quiet, LooperOnly
<1>2. ASSUME LooperInv /\ [Next]_vars
      PROVE  [\A t \in Callers :
                (call[t].at = "sending" /\ call'[t].at # "sending" /\ call[t].why # "sameNetwork")
                   => shouldBeConnected]_vars
  BY <1>1, <1>2
<1> QED
  BY <1>2, LooperInvAtFirst, LooperInvKept, HoldTypeCorrect, Implements, PTL
     DEF Spec, ReleasedOnlyIfWanted

=============================================================================
