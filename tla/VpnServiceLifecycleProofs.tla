---------------------- MODULE VpnServiceLifecycleProofs ----------------------
(* Theorems about VpnServiceLifecycle, for any profiles and any bounds. *)
EXTENDS VpnServiceLifecycle, TLAPS

-----------------------------------------------------------------------------
\* Types

\* The messages of the command thread are built from their parts.
LEMMA MessageTypes ==
    /\ \A p \in Profiles, keep \in BOOLEAN : Start(p, keep) \in Messages
    /\ Restart \in Messages
    /\ Stop \in Messages
  BY DEF Start, Restart, Stop, Messages

\* A stop changes sockets only.
LEMMA StopVPNKeeps ==
    ASSUME socket \in [Sessions -> {"none", "open", "closed"}], StopVPN
    PROVE  /\ socket' \in [Sessions -> {"none", "open", "closed"}]
           /\ UNCHANGED <<manager, active, peer>>
  BY DEF StopVPN

\* A session is opened only below the bound, and used once it is opened.
StartInv ==
    /\ starter \in {"signal", "force", "forced", "open"} => session < MaxSessions
    /\ starter \in {"launch", "configure"} => session \in Sessions

TypeInv == TypeOK /\ StartInv

LEMMA TypesHold == Spec => []TypeInv
<1>1. Init => TypeInv
  BY LifecycleAssumption DEF Init, TypeInv, TypeOK, FlagsOK, StartInv, Sessions,
     None, Enders, Revoker, Command
<1>2. TypeInv /\ [Next]_vars => TypeInv'
  <2> SUFFICES ASSUME TypeInv, [Next]_vars PROVE TypeInv'
    OBVIOUS
  <2>1. ASSUME NEW p \in Profiles, NEW keep \in BOOLEAN, UserStart(p, keep) PROVE TypeInv'
    BY <2>1, MessageTypes, LifecycleAssumption DEF UserStart,
       OnStartCommand, Event, TypeInv, StartInv, TypeOK, FlagsOK,
       commandVars, fieldVars, receiverVars, processVars, socketVars,
       keptVars, androidVars, Sessions, None, Enders, Command, Revoker
  <2>2. CASE JobFires
    <3>1. job \in Profiles /\ TRUE \in BOOLEAN
      BY <2>2 DEF JobFires, TypeInv, TypeOK
    <3>2. Start(job, TRUE) \in Messages
      BY <3>1, MessageTypes
    <3>3. PICK c \in Messages : OnStartCommand(c)
      BY <2>2, <3>2, Zenon DEF JobFires
    <3>. QED
      BY <3>3, LifecycleAssumption DEF OnStartCommand, Event, TypeInv,
         StartInv, TypeOK, FlagsOK, commandVars, fieldVars, receiverVars,
         processVars, socketVars, keptVars, androidVars, Sessions, None,
         Enders, Command, Revoker
  <2>34. CASE JobGivesUp
    BY <2>34, LifecycleAssumption DEF JobGivesUp, TypeInv, StartInv, TypeOK,
       FlagsOK, commandVars, fieldVars, receiverVars, processVars, socketVars,
       androidVars
  <2>3. CASE SwapReceivers
    <3>1. Head(swaps) \in (Sessions \cup {None}) \X Sessions /\ Tail(swaps) \in Seq((Sessions \cup {None}) \X Sessions)
      BY <2>3 DEF SwapReceivers, TypeInv, TypeOK
    <3>2. mDeviceStateReceiver' \in Sessions /\ registered' \subseteq Sessions
      BY <2>3, <3>1 DEF SwapReceivers, AfterUnregister, TypeInv, TypeOK
    <3>3. swaps' \in Seq((Sessions \cup {None}) \X Sessions)
      BY <2>3, <3>1 DEF SwapReceivers
    <3>. QED
      BY <2>3, <3>2, <3>3 DEF SwapReceivers, TypeInv, StartInv, TypeOK,
         FlagsOK, commandVars, fieldVars, receiverVars, processVars,
         socketVars, keptVars, androidVars, Sessions, None, Enders,
         Command, Revoker
  <2>4. CASE OnDestroy
    <3>1. socket' \in [Sessions -> {"none", "open", "closed"}] /\ UNCHANGED <<manager, active, peer>>
      BY <2>4, StopVPNKeeps DEF OnDestroy, TypeInv, TypeOK, socketVars
    <3>. QED
      BY <2>4, <3>1 DEF OnDestroy, AfterUnregister, TypeInv, StartInv,
         TypeOK, FlagsOK, commandVars, fieldVars, receiverVars,
         processVars, socketVars, keptVars, androidVars, Sessions, None,
         Enders, Command, Revoker
  <2>5. CASE UserStop
    BY <2>5, MessageTypes, LifecycleAssumption DEF UserStop, StopVPN,
       TypeInv, StartInv, TypeOK, FlagsOK, commandVars, fieldVars,
       receiverVars, processVars, socketVars, keptVars, androidVars,
       Sessions, None, Enders, Command, Revoker
  <2>6. CASE OnRevoke
    BY <2>6, MessageTypes, LifecycleAssumption DEF OnRevoke, BeginEnd,
       Event, TypeInv, StartInv, TypeOK, FlagsOK, commandVars, fieldVars,
       receiverVars, processVars, socketVars, keptVars, androidVars,
       Sessions, None, Enders, Command, Revoker
  <2>7. CASE StartWithoutProfile
    <3>1. FlagsOK'
      BY <2>7 DEF StartWithoutProfile, fieldVars, TypeInv, TypeOK, FlagsOK
    <3>2. commands' \in Seq(Messages)
      BY <2>7 DEF StartWithoutProfile, TakeRequest, TypeInv, TypeOK
    <3>. QED
      BY <2>7, <3>1, <3>2 DEF StartWithoutProfile, TakeRequest, TypeInv,
         StartInv, TypeOK, commandVars, fieldVars, receiverVars,
         processVars, socketVars, keptVars, androidVars, Sessions, None,
         Enders, Command, Revoker
  <2>8. CASE StartWithoutPermission
    BY <2>8, MessageTypes, LifecycleAssumption DEF StartWithoutPermission,
       TakeRequest, TypeInv, StartInv, TypeOK, FlagsOK, commandVars,
       fieldVars, receiverVars, processVars, socketVars, keptVars,
       androidVars, Sessions, None, Enders, Command, Revoker
  <2>9. CASE StartIgnored
    BY <2>9, MessageTypes, LifecycleAssumption DEF StartIgnored,
       TakeRequest, TypeInv, StartInv, TypeOK, FlagsOK, commandVars,
       fieldVars, receiverVars, processVars, socketVars, keptVars,
       androidVars, Sessions, None, Enders, Command, Revoker
  <2>10. CASE StartAccepted
    <3>1. Head(commands) \in Messages /\ Tail(commands) \in Seq(Messages)
      BY <2>10 DEF StartAccepted, TakeRequest, TypeInv, TypeOK
    <3>2. Fetched(Head(commands)) \ {NoProfile} \subseteq Profiles
      BY <3>1 DEF Fetched, Messages, TypeInv, TypeOK
    <3>3. {mProfile', remembered', job'} \subseteq Profiles
      BY <2>10, <3>2 DEF StartAccepted
    <3>4. commands' \in Seq(Messages)
      BY <2>10, <3>1 DEF StartAccepted, TakeRequest
    <3>5. FlagsOK'
      BY <2>10 DEF StartAccepted, androidVars, TypeInv, TypeOK, FlagsOK
    <3>. QED
      BY <2>10, <3>3, <3>4, <3>5 DEF StartAccepted, TakeRequest, TypeInv,
         StartInv, TypeOK, commandVars, fieldVars, receiverVars,
         processVars, socketVars, keptVars, androidVars, Sessions, None,
         Enders, Command, Revoker
  <2>11. CASE SignalOld
    <3>1. socket' \in [Sessions -> {"none", "open", "closed"}] /\ UNCHANGED <<manager, active, peer>>
      BY <2>11, StopVPNKeeps DEF SignalOld, TypeInv, TypeOK, socketVars
    <3>. QED
      BY <2>11, <3>1 DEF SignalOld, TypeInv, StartInv, TypeOK, FlagsOK,
         commandVars, fieldVars, receiverVars, processVars, socketVars,
         keptVars, androidVars, Sessions, None, Enders, Command, Revoker
  <2>12. CASE ForceStop
    BY <2>12, MessageTypes, LifecycleAssumption DEF ForceStop, TypeInv,
       StartInv, TypeOK, FlagsOK, commandVars, fieldVars, receiverVars,
       processVars, socketVars, keptVars, androidVars, Sessions, None,
       Enders, Command, Revoker
  <2>13. CASE ForceStopOver
    BY <2>13, MessageTypes, LifecycleAssumption DEF ForceStopOver, TypeInv,
       StartInv, TypeOK, FlagsOK, commandVars, fieldVars, receiverVars,
       processVars, socketVars, keptVars, androidVars, Sessions, None,
       Enders, Command, Revoker
  <2>14. CASE OpenManagement
    BY <2>14, MessageTypes, LifecycleAssumption DEF OpenManagement, TypeInv,
       StartInv, TypeOK, FlagsOK, commandVars, fieldVars, receiverVars,
       processVars, socketVars, keptVars, androidVars, Sessions, None,
       Enders, Command, Revoker
  <2>15. CASE OpenManagementFails
    BY <2>15, MessageTypes, LifecycleAssumption DEF OpenManagementFails,
       BeginEnd, TypeInv, StartInv, TypeOK, FlagsOK, commandVars, fieldVars,
       receiverVars, processVars, socketVars, keptVars, androidVars,
       Sessions, None, Enders, Command, Revoker
  <2>16. CASE Launch
    BY <2>16, MessageTypes, LifecycleAssumption DEF Launch, TypeInv,
       StartInv, TypeOK, FlagsOK, commandVars, fieldVars, receiverVars,
       processVars, socketVars, keptVars, androidVars, Sessions, None,
       Enders, Command, Revoker
  <2>17. CASE Configure
    BY <2>17, MessageTypes, LifecycleAssumption DEF Configure, TypeInv,
       StartInv, TypeOK, FlagsOK, commandVars, fieldVars, receiverVars,
       processVars, socketVars, keptVars, androidVars, Sessions, None,
       Enders, Command, Revoker
  <2>18. CASE ConfigureFails
    BY <2>18, MessageTypes, LifecycleAssumption DEF ConfigureFails,
       BeginEnd, TypeInv, StartInv, TypeOK, FlagsOK, commandVars, fieldVars,
       receiverVars, processVars, socketVars, keptVars, androidVars,
       Sessions, None, Enders, Command, Revoker
  <2>19. CASE StopAfterRevoke
    BY <2>19, MessageTypes, LifecycleAssumption DEF StopAfterRevoke,
       StopVPN, TypeInv, StartInv, TypeOK, FlagsOK, commandVars, fieldVars,
       receiverVars, processVars, socketVars, keptVars, androidVars,
       Sessions, None, Enders, Command, Revoker
  <2>20. ASSUME NEW e \in Enders, EndProcess(e) PROVE TypeInv'
    BY <2>20, MessageTypes, LifecycleAssumption DEF EndProcess, TypeInv,
       StartInv, TypeOK, FlagsOK, commandVars, fieldVars, receiverVars,
       processVars, socketVars, keptVars, androidVars, Sessions, None,
       Enders, Command, Revoker
  <2>21. ASSUME NEW e \in Enders, EndReceiver(e) PROVE TypeInv'
    BY <2>21, MessageTypes, LifecycleAssumption DEF EndReceiver,
       AfterUnregister, TypeInv, StartInv, TypeOK, FlagsOK, commandVars,
       fieldVars, receiverVars, processVars, socketVars, keptVars,
       androidVars, Sessions, None, Enders, Command, Revoker
  <2>22. ASSUME NEW e \in Enders, EndForgets(e) PROVE TypeInv'
    BY <2>22, MessageTypes, LifecycleAssumption DEF EndForgets, TypeInv,
       StartInv, TypeOK, FlagsOK, commandVars, fieldVars, receiverVars,
       processVars, socketVars, keptVars, androidVars, Sessions, None,
       Enders, Command, Revoker
  <2>23. ASSUME NEW e \in Enders, EndStops(e) PROVE TypeInv'
    <3>1. FlagsOK'
      BY <2>23 DEF EndStops, fieldVars, TypeInv, TypeOK, FlagsOK
    <3>. QED
      BY <2>23, <3>1 DEF EndStops, TypeInv, StartInv, TypeOK, commandVars,
         fieldVars, receiverVars, processVars, socketVars, keptVars,
         androidVars, Sessions, None, Enders, Command, Revoker
  <2>24. ASSUME NEW s \in Sessions, ProcessDies(s) PROVE TypeInv'
    BY <2>24, MessageTypes, LifecycleAssumption DEF ProcessDies, Alive,
       TypeInv, StartInv, TypeOK, FlagsOK, commandVars, fieldVars,
       receiverVars, processVars, socketVars, keptVars, androidVars,
       Sessions, None, Enders, Command, Revoker
  <2>25. ASSUME NEW s \in Sessions, ThreadEnds(s) PROVE TypeInv'
    BY <2>25, MessageTypes, LifecycleAssumption DEF ThreadEnds, BeginEnd,
       TypeInv, StartInv, TypeOK, FlagsOK, commandVars, fieldVars,
       receiverVars, processVars, socketVars, keptVars, androidVars,
       Sessions, None, Enders, Command, Revoker
  <2>26. ASSUME NEW s \in Sessions, Connects(s) PROVE TypeInv'
    <3>1. peer' \in [Sessions -> Sessions \cup {None}]
      BY <2>26 DEF Connects, TypeInv, TypeOK
    <3>2. process' \in [Sessions -> {"none", "boot", "configured", "connected", "dead"}]
      <4>. DEFINE Kinds == {"none", "boot", "configured", "connected", "dead"}
      <4>1. process \in [Sessions -> Kinds] /\ "connected" \in Kinds /\ "dead" \in Kinds
        BY DEF TypeInv, TypeOK
      <4>2. \/ process' = [process EXCEPT ![s] = "connected"]
            \/ process' = [process EXCEPT ![s] = "dead"]
        BY <2>26 DEF Connects
      <4>. HIDE DEF Kinds
      <4>3. process' \in [Sessions -> Kinds]
        BY <4>1, <4>2
      <4>. QED
        BY <4>3 DEF Kinds
    <3>. QED
      BY <2>26, <3>1, <3>2 DEF Connects, TypeInv, StartInv, TypeOK, FlagsOK,
         commandVars, fieldVars, receiverVars, processVars, socketVars,
         keptVars, androidVars, Sessions, None, Enders, Command, Revoker
  <2>27. ASSUME NEW m \in Sessions, EntersList(m) PROVE TypeInv'
    BY <2>27, MessageTypes, LifecycleAssumption DEF EntersList, TypeInv,
       StartInv, TypeOK, FlagsOK, commandVars, fieldVars, receiverVars,
       processVars, socketVars, keptVars, androidVars, Sessions, None,
       Enders, Command, Revoker
  <2>28. ASSUME NEW m \in Sessions, Accepts(m) PROVE TypeInv'
    BY <2>28, MessageTypes, LifecycleAssumption DEF Accepts, TypeInv,
       StartInv, TypeOK, FlagsOK, commandVars, fieldVars, receiverVars,
       processVars, socketVars, keptVars, androidVars, Sessions, None,
       Enders, Command, Revoker
  <2>29. ASSUME NEW m \in Sessions, ReadsEnd(m) PROVE TypeInv'
    BY <2>29, MessageTypes, LifecycleAssumption DEF ReadsEnd, TypeInv,
       StartInv, TypeOK, FlagsOK, commandVars, fieldVars, receiverVars,
       processVars, socketVars, keptVars, androidVars, Sessions, None,
       Enders, Command, Revoker
  <2>30. ASSUME NEW m \in Sessions, ReadFails(m) PROVE TypeInv'
    BY <2>30, MessageTypes, LifecycleAssumption DEF ReadFails, TypeInv,
       StartInv, TypeOK, FlagsOK, commandVars, fieldVars, receiverVars,
       processVars, socketVars, keptVars, androidVars, Sessions, None,
       Enders, Command, Revoker
  <2>31. CASE Crash
    <3>1. FlagsOK'
      BY <2>31 DEF Crash, TypeInv, TypeOK, FlagsOK
    <3>2. commands' \in Seq(Messages)
      BY <2>31, MessageTypes DEF Crash
    <3>3. events' \in 0..MaxEvents
      BY <2>31, LifecycleAssumption DEF Crash, Event, TypeInv, TypeOK
    <3>. QED
      BY <2>31, <3>1, <3>2, <3>3, LifecycleAssumption DEF Crash, TypeInv,
         StartInv, TypeOK, commandVars, fieldVars, receiverVars,
         processVars, socketVars, keptVars, androidVars, Sessions, None,
         Enders, Command, Revoker
  <2>32. CASE UNCHANGED vars
    BY <2>32, MessageTypes, LifecycleAssumption DEF vars, TypeInv, StartInv,
       TypeOK, FlagsOK, commandVars, fieldVars, receiverVars, processVars,
       socketVars, keptVars, androidVars, Sessions, None, Enders, Command,
       Revoker
  <2>33. QED
    BY <2>1, <2>2, <2>3, <2>4, <2>5, <2>6, <2>7, <2>8, <2>9, <2>10, <2>11,
       <2>12, <2>13, <2>14, <2>15, <2>16, <2>17, <2>18, <2>19, <2>20, <2>21,
       <2>22, <2>23, <2>24, <2>25, <2>26, <2>27, <2>28, <2>29, <2>30, <2>31, <2>34,
       <2>32 DEF Next
<1>. QED
  BY <1>1, <1>2, PTL DEF Spec

\* Every variable keeps a value of its kind, in every reachable state.
THEOREM TypeCorrect == Spec => []TypeOK
  BY TypesHold, PTL DEF TypeInv

-----------------------------------------------------------------------------
\* The threads of the sessions

\* A process thread is in endVpnService exactly while it is "ending".
EndersAgree == \A s \in Sessions : ender[s] # "no" <=> thread[s] = "ending"

\* What is not opened yet has no thread and no process.
NotYet == \A s \in Sessions :
    s > session => thread[s] = "none" /\ process[s] = "none"

Launching ==
    starter = "launch" =>
        /\ mManagement # None
        /\ thread[session] = "none" /\ process[session] = "none"

AliveRuns == \A s \in Sessions : Alive(s) => thread[s] = "running"

FailedStart == ender[Command] # "no" <=> starter = "failed"

\* mStarting is set from the acceptance of a request to the end of forceStop.
StartingSteps == mStarting => starter \in {"signal", "force", "forced"}

ThreadInv ==
    /\ EndersAgree
    /\ NotYet
    /\ Launching
    /\ AliveRuns
    /\ FailedStart
    /\ StartingSteps
    /\ ProcessThreadLive

\* The invariant speaks of these variables only.
LEMMA ThreadFrame ==
    ASSUME ThreadInv, 
           UNCHANGED <<starter, session, mStarting, mManagement,
                       mProcessThread, ender, thread, process>>
    PROVE  ThreadInv'
  BY DEF ThreadInv, EndersAgree, NotYet, Launching, AliveRuns, FailedStart,
     StartingSteps, ProcessThreadLive, Alive

\* Over every reachable state, the fields of the service agree with its threads.
LEMMA ThreadsAgree == Spec => []ThreadInv
<1>1. Init => ThreadInv
  BY LifecycleAssumption DEF Init, ThreadInv, EndersAgree, NotYet, Launching,
     AliveRuns, FailedStart, StartingSteps, ProcessThreadLive, Alive, Sessions,
     None, Enders, Command, Revoker
<1>2. TypeInv /\ ThreadInv /\ [Next]_vars => ThreadInv'
  <2> SUFFICES ASSUME TypeInv, ThreadInv, [Next]_vars PROVE ThreadInv'
    OBVIOUS
  <2>1. ASSUME NEW p \in Profiles, NEW keep \in BOOLEAN, UserStart(p, keep) PROVE ThreadInv'
    BY <2>1, ThreadFrame DEF UserStart, OnStartCommand, commandVars,
         fieldVars, receiverVars, processVars, socketVars, keptVars,
         androidVars
  <2>2. CASE JobFires
    BY <2>2, ThreadFrame DEF JobFires, OnStartCommand, commandVars,
         fieldVars, receiverVars, processVars, socketVars, keptVars,
         androidVars
  <2>34. CASE JobGivesUp
    BY <2>34, ThreadFrame DEF JobGivesUp, commandVars,
       fieldVars, receiverVars, processVars, socketVars, keptVars, androidVars
  <2>3. CASE SwapReceivers
    BY <2>3, ThreadFrame DEF SwapReceivers, commandVars, fieldVars,
         receiverVars, processVars, socketVars, keptVars, androidVars
  <2>4. CASE OnDestroy
    BY <2>4, ThreadFrame DEF OnDestroy, commandVars, fieldVars,
         receiverVars, processVars, socketVars, keptVars, androidVars
  <2>5. CASE UserStop
    BY <2>5, ThreadFrame DEF UserStop, commandVars, fieldVars,
         receiverVars, processVars, socketVars, keptVars, androidVars
  <2>6. CASE OnRevoke
    BY <2>6, LifecycleAssumption DEF OnRevoke, BeginEnd, Event, ThreadInv,
       EndersAgree, NotYet, Launching, AliveRuns, FailedStart,
       StartingSteps, ProcessThreadLive, Alive, TypeInv, StartInv, TypeOK,
       commandVars, fieldVars, receiverVars, processVars, socketVars,
       keptVars, androidVars, Sessions, None, Enders, Command, Revoker
  <2>7. CASE StartWithoutProfile
    BY <2>7, ThreadFrame DEF StartWithoutProfile, TakeRequest,
         commandVars, fieldVars, receiverVars, processVars, socketVars,
         keptVars, androidVars
  <2>8. CASE StartWithoutPermission
    BY <2>8, ThreadFrame DEF StartWithoutPermission, TakeRequest,
         commandVars, fieldVars, receiverVars, processVars, socketVars,
         keptVars, androidVars
  <2>9. CASE StartIgnored
    BY <2>9, ThreadFrame DEF StartIgnored, TakeRequest, commandVars,
         fieldVars, receiverVars, processVars, socketVars, keptVars,
         androidVars
  <2>10. CASE StartAccepted
    BY <2>10, LifecycleAssumption DEF StartAccepted, TakeRequest, Fetched,
       Ignores, ThreadInv, EndersAgree, NotYet, Launching, AliveRuns,
       FailedStart, StartingSteps, ProcessThreadLive, Alive, TypeInv,
       StartInv, TypeOK, commandVars, fieldVars, receiverVars, processVars,
       socketVars, keptVars, androidVars, Sessions, None, Enders, Command,
       Revoker
  <2>11. CASE SignalOld
    BY <2>11, LifecycleAssumption DEF SignalOld, StopVPN, ThreadInv,
       EndersAgree, NotYet, Launching, AliveRuns, FailedStart,
       StartingSteps, ProcessThreadLive, Alive, TypeInv, StartInv, TypeOK,
       commandVars, fieldVars, receiverVars, processVars, socketVars,
       keptVars, androidVars, Sessions, None, Enders, Command, Revoker
  <2>12. CASE ForceStop
    BY <2>12, LifecycleAssumption DEF ForceStop, ThreadInv, EndersAgree,
       NotYet, Launching, AliveRuns, FailedStart, StartingSteps,
       ProcessThreadLive, Alive, TypeInv, StartInv, TypeOK, commandVars,
       fieldVars, receiverVars, processVars, socketVars, keptVars,
       androidVars, Sessions, None, Enders, Command, Revoker
  <2>13. CASE ForceStopOver
    BY <2>13, LifecycleAssumption DEF ForceStopOver, ThreadInv, EndersAgree,
       NotYet, Launching, AliveRuns, FailedStart, StartingSteps,
       ProcessThreadLive, Alive, TypeInv, StartInv, TypeOK, commandVars,
       fieldVars, receiverVars, processVars, socketVars, keptVars,
       androidVars, Sessions, None, Enders, Command, Revoker
  <2>14. CASE OpenManagement
    BY <2>14, LifecycleAssumption DEF OpenManagement, ThreadInv,
       EndersAgree, NotYet, Launching, AliveRuns, FailedStart,
       StartingSteps, ProcessThreadLive, Alive, TypeInv, StartInv, TypeOK,
       commandVars, fieldVars, receiverVars, processVars, socketVars,
       keptVars, androidVars, Sessions, None, Enders, Command, Revoker
  <2>15. CASE OpenManagementFails
    BY <2>15, LifecycleAssumption DEF OpenManagementFails, BeginEnd,
       ThreadInv, EndersAgree, NotYet, Launching, AliveRuns, FailedStart,
       StartingSteps, ProcessThreadLive, Alive, TypeInv, StartInv, TypeOK,
       commandVars, fieldVars, receiverVars, processVars, socketVars,
       keptVars, androidVars, Sessions, None, Enders, Command, Revoker
  <2>16. CASE Launch
    BY <2>16, LifecycleAssumption DEF Launch, ThreadInv, EndersAgree,
       NotYet, Launching, AliveRuns, FailedStart, StartingSteps,
       ProcessThreadLive, Alive, TypeInv, StartInv, TypeOK, commandVars,
       fieldVars, receiverVars, processVars, socketVars, keptVars,
       androidVars, Sessions, None, Enders, Command, Revoker
  <2>17. CASE Configure
    BY <2>17, LifecycleAssumption DEF Configure, ThreadInv, EndersAgree,
       NotYet, Launching, AliveRuns, FailedStart, StartingSteps,
       ProcessThreadLive, Alive, TypeInv, StartInv, TypeOK, commandVars,
       fieldVars, receiverVars, processVars, socketVars, keptVars,
       androidVars, Sessions, None, Enders, Command, Revoker
  <2>18. CASE ConfigureFails
    BY <2>18, LifecycleAssumption DEF ConfigureFails, BeginEnd, ThreadInv,
       EndersAgree, NotYet, Launching, AliveRuns, FailedStart,
       StartingSteps, ProcessThreadLive, Alive, TypeInv, StartInv, TypeOK,
       commandVars, fieldVars, receiverVars, processVars, socketVars,
       keptVars, androidVars, Sessions, None, Enders, Command, Revoker
  <2>19. CASE StopAfterRevoke
    BY <2>19, ThreadFrame DEF StopAfterRevoke, commandVars, fieldVars,
         receiverVars, processVars, socketVars, keptVars, androidVars
  <2>20. ASSUME NEW e \in Enders, EndProcess(e) PROVE ThreadInv'
    BY <2>20, LifecycleAssumption DEF EndProcess, ThreadInv, EndersAgree,
       NotYet, Launching, AliveRuns, FailedStart, StartingSteps,
       ProcessThreadLive, Alive, TypeInv, StartInv, TypeOK, commandVars,
       fieldVars, receiverVars, processVars, socketVars, keptVars,
       androidVars, Sessions, None, Enders, Command, Revoker
  <2>21. ASSUME NEW e \in Enders, EndReceiver(e) PROVE ThreadInv'
    BY <2>21, LifecycleAssumption DEF EndReceiver, AfterUnregister,
       ThreadInv, EndersAgree, NotYet, Launching, AliveRuns, FailedStart,
       StartingSteps, ProcessThreadLive, Alive, TypeInv, StartInv, TypeOK,
       commandVars, fieldVars, receiverVars, processVars, socketVars,
       keptVars, androidVars, Sessions, None, Enders, Command, Revoker
  <2>22. ASSUME NEW e \in Enders, EndForgets(e) PROVE ThreadInv'
    BY <2>22, LifecycleAssumption DEF EndForgets, ThreadInv, EndersAgree,
       NotYet, Launching, AliveRuns, FailedStart, StartingSteps,
       ProcessThreadLive, Alive, TypeInv, StartInv, TypeOK, commandVars,
       fieldVars, receiverVars, processVars, socketVars, keptVars,
       androidVars, Sessions, None, Enders, Command, Revoker
  <2>23. ASSUME NEW e \in Enders, EndStops(e) PROVE ThreadInv'
    BY <2>23, LifecycleAssumption DEF EndStops, ThreadInv, EndersAgree,
       NotYet, Launching, AliveRuns, FailedStart, StartingSteps,
       ProcessThreadLive, Alive, TypeInv, StartInv, TypeOK, commandVars,
       fieldVars, receiverVars, processVars, socketVars, keptVars,
       androidVars, Sessions, None, Enders, Command, Revoker
  <2>24. ASSUME NEW s \in Sessions, ProcessDies(s) PROVE ThreadInv'
    BY <2>24, LifecycleAssumption DEF ProcessDies, Alive, ThreadInv,
       EndersAgree, NotYet, Launching, AliveRuns, FailedStart,
       StartingSteps, ProcessThreadLive, Alive, TypeInv, StartInv, TypeOK,
       commandVars, fieldVars, receiverVars, processVars, socketVars,
       keptVars, androidVars, Sessions, None, Enders, Command, Revoker
  <2>25. ASSUME NEW s \in Sessions, ThreadEnds(s) PROVE ThreadInv'
    BY <2>25, LifecycleAssumption DEF ThreadEnds, BeginEnd, ThreadInv,
       EndersAgree, NotYet, Launching, AliveRuns, FailedStart,
       StartingSteps, ProcessThreadLive, Alive, TypeInv, StartInv, TypeOK,
       commandVars, fieldVars, receiverVars, processVars, socketVars,
       keptVars, androidVars, Sessions, None, Enders, Command, Revoker
  <2>26. ASSUME NEW s \in Sessions, Connects(s) PROVE ThreadInv'
    BY <2>26, LifecycleAssumption DEF Connects, ThreadInv, EndersAgree,
       NotYet, Launching, AliveRuns, FailedStart, StartingSteps,
       ProcessThreadLive, Alive, TypeInv, StartInv, TypeOK, commandVars,
       fieldVars, receiverVars, processVars, socketVars, keptVars,
       androidVars, Sessions, None, Enders, Command, Revoker
  <2>27. ASSUME NEW m \in Sessions, EntersList(m) PROVE ThreadInv'
    BY <2>27, ThreadFrame DEF EntersList, commandVars, fieldVars,
         receiverVars, processVars, socketVars, keptVars, androidVars
  <2>28. ASSUME NEW m \in Sessions, Accepts(m) PROVE ThreadInv'
    BY <2>28, ThreadFrame DEF Accepts, commandVars, fieldVars,
         receiverVars, processVars, socketVars, keptVars, androidVars
  <2>29. ASSUME NEW m \in Sessions, ReadsEnd(m) PROVE ThreadInv'
    BY <2>29, ThreadFrame DEF ReadsEnd, commandVars, fieldVars,
         receiverVars, processVars, socketVars, keptVars, androidVars
  <2>30. ASSUME NEW m \in Sessions, ReadFails(m) PROVE ThreadInv'
    BY <2>30, ThreadFrame DEF ReadFails, commandVars, fieldVars,
         receiverVars, processVars, socketVars, keptVars, androidVars
  <2>31. CASE Crash
    BY <2>31, LifecycleAssumption DEF Crash, Event, ThreadInv, EndersAgree,
       NotYet, Launching, AliveRuns, FailedStart, StartingSteps,
       ProcessThreadLive, Alive, TypeInv, StartInv, TypeOK, commandVars,
       fieldVars, receiverVars, processVars, socketVars, keptVars,
       androidVars, Sessions, None, Enders, Command, Revoker
  <2>32. CASE UNCHANGED vars
    BY <2>32, LifecycleAssumption DEF vars, ThreadInv, EndersAgree, NotYet,
       Launching, AliveRuns, FailedStart, StartingSteps, ProcessThreadLive,
       Alive, TypeInv, StartInv, TypeOK, commandVars, fieldVars,
       receiverVars, processVars, socketVars, keptVars, androidVars,
       Sessions, None, Enders, Command, Revoker
  <2>33. QED
    BY <2>1, <2>2, <2>3, <2>4, <2>5, <2>6, <2>7, <2>8, <2>9, <2>10, <2>11,
       <2>12, <2>13, <2>14, <2>15, <2>16, <2>17, <2>18, <2>19, <2>20, <2>21,
       <2>22, <2>23, <2>24, <2>25, <2>26, <2>27, <2>28, <2>29, <2>30, <2>31, <2>34,
       <2>32 DEF Next
<1>. QED
  BY <1>1, <1>2, TypesHold, PTL DEF Spec

\* mProcessThread never names a thread that has given it up (ProcessThreadLive).
THEOREM ProcessThreadAlwaysLive == Spec => []ProcessThreadLive
  BY ThreadsAgree, PTL DEF ThreadInv

-----------------------------------------------------------------------------
\* The management threads and the list of them

\* A thread in the middle of run is in the list; one that is gone has no live
\* OpenVPN behind it that was not told to end.
ManagerInv == \A m \in Sessions :
    /\ manager[m] = "none" => peer[m] = None
    /\ manager[m] \in {"accepting", "reading"} => m \in active
    /\ manager[m] = "reading" => socket[m] # "none" /\ peer[m] # None
    /\ manager[m] = "gone" => \/ peer[m] = None
                              \/ process[peer[m]] = "dead"
                              \/ socket[m] = "closed"

PeerInv == \A m \in Sessions :
    peer[m] # None => process[peer[m]] \in {"connected", "dead"}

ListInv == ManagerInv /\ PeerInv

\* The invariant speaks of these variables only.
LEMMA ListFrame ==
    ASSUME ListInv, UNCHANGED <<process, manager, active, socket, peer>>
    PROVE  ListInv'
  BY DEF ListInv, ManagerInv, PeerInv

\* A stop closes open sockets and changes nothing else.
LEMMA ListStop ==
    ASSUME TypeInv, ListInv, StopVPN, UNCHANGED process
    PROVE  ListInv'
<1>1. \A m \in Sessions :
        /\ socket[m] # "none" => socket'[m] # "none"
        /\ socket[m] = "closed" => socket'[m] = "closed"
  BY DEF StopVPN
<1>2. UNCHANGED <<manager, active, peer>>
  BY DEF StopVPN
<1>. QED
  BY <1>1, <1>2 DEF ListInv, ManagerInv, PeerInv

\* Every management thread is where a stop finds it.
LEMMA ListHolds == Spec => []ListInv
<1>1. Init => ListInv
  BY DEF Init, ListInv, ManagerInv, PeerInv, None
<1>2. TypeInv /\ ThreadInv /\ ListInv /\ [Next]_vars => ListInv'
  <2> SUFFICES ASSUME TypeInv, ThreadInv, ListInv, [Next]_vars PROVE ListInv'
    OBVIOUS
  <2>1. ASSUME NEW p \in Profiles, NEW keep \in BOOLEAN, UserStart(p, keep) PROVE ListInv'
    BY <2>1, ListFrame DEF UserStart, OnStartCommand, commandVars,
       fieldVars, receiverVars, processVars, socketVars, keptVars,
       androidVars
  <2>2. CASE JobFires
    BY <2>2, ListFrame DEF JobFires, OnStartCommand, commandVars,
       fieldVars, receiverVars, processVars, socketVars, keptVars,
       androidVars
  <2>34. CASE JobGivesUp
    BY <2>34, ListFrame DEF JobGivesUp, commandVars,
       fieldVars, receiverVars, processVars, socketVars, keptVars, androidVars
  <2>3. CASE SwapReceivers
    BY <2>3, ListFrame DEF SwapReceivers, commandVars, fieldVars,
       receiverVars, processVars, socketVars, keptVars, androidVars
  <2>4. CASE OnDestroy
    BY <2>4, ListStop, ListFrame DEF OnDestroy, processVars, socketVars
  <2>5. CASE UserStop
    BY <2>5, ListStop DEF UserStop, processVars
  <2>6. CASE OnRevoke
    BY <2>6, ListFrame DEF OnRevoke, commandVars, fieldVars,
       receiverVars, processVars, socketVars, keptVars, androidVars
  <2>7. CASE StartWithoutProfile
    BY <2>7, ListFrame DEF StartWithoutProfile, commandVars, fieldVars,
       receiverVars, processVars, socketVars, keptVars, androidVars
  <2>8. CASE StartWithoutPermission
    BY <2>8, ListFrame DEF StartWithoutPermission, commandVars,
       fieldVars, receiverVars, processVars, socketVars, keptVars,
       androidVars
  <2>9. CASE StartIgnored
    BY <2>9, ListFrame DEF StartIgnored, commandVars, fieldVars,
       receiverVars, processVars, socketVars, keptVars, androidVars
  <2>10. CASE StartAccepted
    BY <2>10, ListFrame DEF StartAccepted, commandVars, fieldVars,
       receiverVars, processVars, socketVars, keptVars, androidVars
  <2>11. CASE SignalOld
    BY <2>11, ListStop, ListFrame DEF SignalOld, processVars, socketVars
  <2>12. CASE ForceStop
    BY <2>12, ListFrame DEF ForceStop, commandVars, fieldVars,
       receiverVars, processVars, socketVars, keptVars, androidVars
  <2>13. CASE ForceStopOver
    BY <2>13, ListFrame DEF ForceStopOver, commandVars, fieldVars,
       receiverVars, processVars, socketVars, keptVars, androidVars
  <2>14. CASE OpenManagement
    BY <2>14, LifecycleAssumption DEF OpenManagement, ListInv, ManagerInv,
       PeerInv, TypeInv, TypeOK, commandVars, fieldVars, receiverVars,
       processVars, socketVars, keptVars, androidVars, Sessions, None,
       ThreadInv, Launching
  <2>15. CASE OpenManagementFails
    BY <2>15, ListFrame DEF OpenManagementFails, commandVars, fieldVars,
       receiverVars, processVars, socketVars, keptVars, androidVars
  <2>16. CASE Launch
    BY <2>16, LifecycleAssumption DEF Launch, ListInv, ManagerInv, PeerInv,
       TypeInv, TypeOK, commandVars, fieldVars, receiverVars, processVars,
       socketVars, keptVars, androidVars, Sessions, None, ThreadInv,
       Launching
  <2>17. CASE Configure
    BY <2>17, LifecycleAssumption DEF Configure, ListInv, ManagerInv,
       PeerInv, TypeInv, TypeOK, commandVars, fieldVars, receiverVars,
       processVars, socketVars, keptVars, androidVars, Sessions, None,
       ThreadInv, Launching
  <2>18. CASE ConfigureFails
    BY <2>18, ListFrame DEF ConfigureFails, commandVars, fieldVars,
       receiverVars, processVars, socketVars, keptVars, androidVars
  <2>19. CASE StopAfterRevoke
    BY <2>19, ListStop DEF StopAfterRevoke, processVars
  <2>20. ASSUME NEW e \in Enders, EndProcess(e) PROVE ListInv'
    BY <2>20, ListFrame DEF EndProcess, commandVars, fieldVars,
       receiverVars, processVars, socketVars, keptVars, androidVars
  <2>21. ASSUME NEW e \in Enders, EndReceiver(e) PROVE ListInv'
    BY <2>21, ListFrame DEF EndReceiver, commandVars, fieldVars,
       receiverVars, processVars, socketVars, keptVars, androidVars
  <2>22. ASSUME NEW e \in Enders, EndForgets(e) PROVE ListInv'
    BY <2>22, ListFrame DEF EndForgets, commandVars, fieldVars,
       receiverVars, processVars, socketVars, keptVars, androidVars
  <2>23. ASSUME NEW e \in Enders, EndStops(e) PROVE ListInv'
    BY <2>23, ListFrame DEF EndStops, commandVars, fieldVars,
       receiverVars, processVars, socketVars, keptVars, androidVars
  <2>24. ASSUME NEW s \in Sessions, ProcessDies(s) PROVE ListInv'
    BY <2>24, LifecycleAssumption DEF ProcessDies, Alive, ListInv,
       ManagerInv, PeerInv, TypeInv, TypeOK, commandVars, fieldVars,
       receiverVars, processVars, socketVars, keptVars, androidVars,
       Sessions, None, ThreadInv, Launching
  <2>25. ASSUME NEW s \in Sessions, ThreadEnds(s) PROVE ListInv'
    BY <2>25, ListFrame DEF ThreadEnds, commandVars, fieldVars,
       receiverVars, processVars, socketVars, keptVars, androidVars
  <2>26. ASSUME NEW s \in Sessions, Connects(s) PROVE ListInv'
    <3>1. CASE manager[session] \in {"new", "accepting"} /\ peer[session] = None
      <4>1. peer' = [peer EXCEPT ![session] = s]
            /\ process' = [process EXCEPT ![s] = "connected"]
        BY <2>26, <3>1 DEF Connects
      <4>2. UNCHANGED <<manager, active, socket>>
        BY <2>26 DEF Connects
      <4>3. PeerInv'
        BY <4>1, <2>26 DEF Connects, ListInv, PeerInv, TypeInv, TypeOK, Sessions, None
      <4>4. \A m \in Sessions : peer[m] = s => FALSE
        BY <2>26 DEF Connects, ListInv, PeerInv, Sessions, None
      <4>5. ManagerInv'
        BY <3>1, <4>1, <4>2, <4>4 DEF ListInv, ManagerInv, TypeInv, TypeOK, Sessions,
           None
      <4>. QED
        BY <4>3, <4>5 DEF ListInv
    <3>2. CASE ~(manager[session] \in {"new", "accepting"} /\ peer[session] = None)
      <4>1. process' = [process EXCEPT ![s] = "dead"] /\ UNCHANGED peer
        BY <2>26, <3>2 DEF Connects
      <4>2. UNCHANGED <<manager, active, socket>>
        BY <2>26 DEF Connects
      <4>. QED
        BY <4>1, <4>2 DEF ListInv, ManagerInv, PeerInv, TypeInv, TypeOK, Sessions,
           None
    <3>. QED
      BY <3>1, <3>2
  <2>27. ASSUME NEW m \in Sessions, EntersList(m) PROVE ListInv'
    BY <2>27, LifecycleAssumption DEF EntersList, ListInv, ManagerInv,
       PeerInv, TypeInv, TypeOK, commandVars, fieldVars, receiverVars,
       processVars, socketVars, keptVars, androidVars, Sessions, None,
       ThreadInv, Launching
  <2>28. ASSUME NEW m \in Sessions, Accepts(m) PROVE ListInv'
    BY <2>28, LifecycleAssumption DEF Accepts, ListInv, ManagerInv, PeerInv,
       TypeInv, TypeOK, commandVars, fieldVars, receiverVars, processVars,
       socketVars, keptVars, androidVars, Sessions, None, ThreadInv,
       Launching
  <2>29. ASSUME NEW m \in Sessions, ReadsEnd(m) PROVE ListInv'
    BY <2>29, LifecycleAssumption DEF ReadsEnd, ListInv, ManagerInv,
       PeerInv, TypeInv, TypeOK, commandVars, fieldVars, receiverVars,
       processVars, socketVars, keptVars, androidVars, Sessions, None,
       ThreadInv, Launching
  <2>30. ASSUME NEW m \in Sessions, ReadFails(m) PROVE ListInv'
    BY <2>30, LifecycleAssumption DEF ReadFails, ListInv, ManagerInv,
       PeerInv, TypeInv, TypeOK, commandVars, fieldVars, receiverVars,
       processVars, socketVars, keptVars, androidVars, Sessions, None,
       ThreadInv, Launching
  <2>31. CASE Crash
    BY <2>31, LifecycleAssumption DEF Crash, Event, ListInv, ManagerInv,
       PeerInv, TypeInv, TypeOK, commandVars, fieldVars, receiverVars,
       processVars, socketVars, keptVars, androidVars, Sessions, None,
       ThreadInv, Launching
  <2>32. CASE UNCHANGED vars
    BY <2>32, LifecycleAssumption DEF vars, ListInv, ManagerInv, PeerInv,
       TypeInv, TypeOK, commandVars, fieldVars, receiverVars, processVars,
       socketVars, keptVars, androidVars, Sessions, None, ThreadInv,
       Launching
  <2>33. QED
    BY <2>1, <2>2, <2>3, <2>4, <2>5, <2>6, <2>7, <2>8, <2>9, <2>10, <2>11,
       <2>12, <2>13, <2>14, <2>15, <2>16, <2>17, <2>18, <2>19, <2>20, <2>21,
       <2>22, <2>23, <2>24, <2>25, <2>26, <2>27, <2>28, <2>29, <2>30, <2>31, <2>34,
       <2>32 DEF Next
<1>. QED
  BY <1>1, <1>2, TypesHold, ThreadsAgree, PTL DEF Spec

\* Every connected OpenVPN whose connection has been accepted is reached by the
\* next stop (Reachable).
THEOREM StopReachesAll == Spec => []Reachable
<1>1. TypeInv /\ ListInv => Reachable
  BY DEF TypeInv, TypeOK, ListInv, ManagerInv, Accepted, Reachable
<1>. QED
  BY <1>1, TypesHold, ListHolds, PTL

-----------------------------------------------------------------------------
\* The service that stays although nothing runs

Requested(queue) == \E i \in DOMAIN queue : IsRequest(queue[i])

Busy ==
    \/ Requested(commands)
    \/ starter # "idle"
    \/ \E e \in Enders : ender[e] # "no"
    \/ \E s \in Sessions : thread[s] = "running"

\* Android keeps the service for somebody who will see to its end.
BusyInv == started /\ ~turnedAway /\ ~AlwaysVisible => Busy

\* A message at the end of the queue keeps the requests before it.
LEMMA RequestAppended ==
    ASSUME NEW queue \in Seq(Messages), NEW c \in Messages
    PROVE  /\ Requested(queue) => Requested(Append(queue, c))
           /\ IsRequest(c) => Requested(Append(queue, c))
<1>1. Append(queue, c) \in Seq(Messages) /\ Len(Append(queue, c)) = Len(queue) + 1
  OBVIOUS
<1>2. \A i \in 1..Len(queue) : Append(queue, c)[i] = queue[i]
  OBVIOUS
<1>3. Append(queue, c)[Len(queue) + 1] = c
  OBVIOUS
<1>. QED
  BY <1>1, <1>2, <1>3 DEF Requested

\* A message that is no request leaves the queue, the requests stay.
LEMMA RequestKept ==
    ASSUME NEW queue \in Seq(Messages), queue # <<>>, ~IsRequest(Head(queue)),
           Requested(queue)
    PROVE  Requested(Tail(queue))
<1>1. PICK i \in 1..Len(queue) : IsRequest(queue[i])
  BY DEF Requested
<1>2. i # 1
  BY <1>1
<1>3. i - 1 \in DOMAIN Tail(queue) /\ Tail(queue)[i - 1] = queue[i]
  BY <1>2
<1>. QED
  BY <1>1, <1>3 DEF Requested

\* The invariant speaks of these variables only.
LEMMA BusyFrame ==
    ASSUME BusyInv,
           UNCHANGED <<commands, starter, ender, thread, started, turnedAway>>
    PROVE  BusyInv'
  BY DEF BusyInv, Busy

\* A service that is started is seen to.
LEMMA BusyHolds == Spec => []BusyInv
<1>1. Init => BusyInv
  BY DEF Init, BusyInv
<1>2. TypeInv /\ ThreadInv /\ BusyInv /\ [Next]_vars => BusyInv'
  <2> SUFFICES ASSUME TypeInv, ThreadInv, BusyInv, [Next]_vars PROVE BusyInv'
    OBVIOUS
  <2>1. ASSUME NEW p \in Profiles, NEW keep \in BOOLEAN, UserStart(p, keep) PROVE BusyInv'
    <3>1. Start(p, keep) \in Messages /\ IsRequest(Start(p, keep))
      BY MessageTypes DEF IsRequest, Start
    <3>2. commands' = Append(commands, Start(p, keep))
      BY <2>1 DEF UserStart, OnStartCommand
    <3>3. Requested(commands')
      BY <3>1, <3>2, RequestAppended DEF TypeInv, TypeOK
    <3>. QED
      BY <3>3 DEF BusyInv, Busy
  <2>2. CASE JobFires
    <3>1. job \in Profiles /\ TRUE \in BOOLEAN
      BY <2>2 DEF JobFires, TypeInv, TypeOK
    <3>2. Start(job, TRUE) \in Messages /\ IsRequest(Start(job, TRUE))
      BY <3>1, MessageTypes DEF IsRequest, Start
    <3>3. commands' = Append(commands, Start(job, TRUE))
      BY <2>2, Zenon DEF JobFires, OnStartCommand
    <3>4. Requested(commands')
      BY <3>2, <3>3, RequestAppended DEF TypeInv, TypeOK
    <3>. QED
      BY <3>4 DEF BusyInv, Busy
  <2>34. CASE JobGivesUp
    BY <2>34, BusyFrame DEF JobGivesUp, commandVars,
       fieldVars, receiverVars, processVars, socketVars, keptVars, androidVars
  <2>3. CASE SwapReceivers
    BY <2>3, BusyFrame DEF SwapReceivers, commandVars, fieldVars,
       receiverVars, processVars, socketVars, keptVars, androidVars
  <2>4. CASE OnDestroy
    BY <2>4, BusyFrame DEF OnDestroy, commandVars, fieldVars,
       receiverVars, processVars, socketVars, keptVars, androidVars
  <2>5. CASE UserStop
    BY <2>5, BusyFrame DEF UserStop, commandVars, fieldVars,
       receiverVars, processVars, socketVars, keptVars, androidVars
  <2>6. CASE OnRevoke
    <3>1. Revoker \in Enders /\ ender'[Revoker] = "locking"
      BY <2>6, LifecycleAssumption DEF OnRevoke, BeginEnd, Enders, Revoker, TypeInv,
         TypeOK
    <3>. QED
      BY <3>1 DEF BusyInv, Busy
  <2>7. CASE StartWithoutProfile
    <3>1. CASE \E i \in DOMAIN commands' : IsRequest(commands'[i])
      BY <3>1 DEF BusyInv, Busy, Requested
    <3>2. CASE ~\E i \in DOMAIN commands' : IsRequest(commands'[i])
      BY <2>7, <3>2 DEF StartWithoutProfile, BusyInv
    <3>. QED
      BY <3>1, <3>2
  <2>8. CASE StartWithoutPermission
    BY <2>8 DEF StartWithoutPermission, TakeRequest, BusyInv, Busy, TypeInv,
       TypeOK, commandVars, fieldVars, receiverVars, processVars,
       socketVars, keptVars, androidVars, Sessions, Enders, Command, Revoker
  <2>9. CASE StartIgnored
    BY <2>9 DEF StartIgnored, TakeRequest, BusyInv, Busy, TypeInv, TypeOK,
       commandVars, fieldVars, receiverVars, processVars, socketVars,
       keptVars, androidVars, Sessions, Enders, Command, Revoker
  <2>10. CASE StartAccepted
    BY <2>10 DEF StartAccepted, TakeRequest, Fetched, Ignores, BusyInv,
       Busy, TypeInv, TypeOK, commandVars, fieldVars, receiverVars,
       processVars, socketVars, keptVars, androidVars, Sessions, Enders,
       Command, Revoker
  <2>11. CASE SignalOld
    BY <2>11 DEF SignalOld, StopVPN, BusyInv, Busy, TypeInv, TypeOK,
       commandVars, fieldVars, receiverVars, processVars, socketVars,
       keptVars, androidVars, Sessions, Enders, Command, Revoker
  <2>12. CASE ForceStop
    BY <2>12 DEF ForceStop, BusyInv, Busy, TypeInv, TypeOK, commandVars,
       fieldVars, receiverVars, processVars, socketVars, keptVars,
       androidVars, Sessions, Enders, Command, Revoker
  <2>13. CASE ForceStopOver
    BY <2>13 DEF ForceStopOver, BusyInv, Busy, TypeInv, TypeOK, commandVars,
       fieldVars, receiverVars, processVars, socketVars, keptVars,
       androidVars, Sessions, Enders, Command, Revoker
  <2>14. CASE OpenManagement
    BY <2>14 DEF OpenManagement, BusyInv, Busy, TypeInv, TypeOK,
       commandVars, fieldVars, receiverVars, processVars, socketVars,
       keptVars, androidVars, Sessions, Enders, Command, Revoker
  <2>15. CASE OpenManagementFails
    BY <2>15 DEF OpenManagementFails, BeginEnd, BusyInv, Busy, TypeInv,
       TypeOK, commandVars, fieldVars, receiverVars, processVars,
       socketVars, keptVars, androidVars, Sessions, Enders, Command, Revoker
  <2>16. CASE Launch
    BY <2>16 DEF Launch, BusyInv, Busy, TypeInv, TypeOK, commandVars,
       fieldVars, receiverVars, processVars, socketVars, keptVars,
       androidVars, Sessions, Enders, Command, Revoker
  <2>17. CASE Configure
    <3>1. session \in Sessions /\ thread[session] = "running"
      BY <2>17 DEF Configure, TypeInv, StartInv, ThreadInv, AliveRuns, Alive
    <3>. QED
      BY <2>17, <3>1 DEF Configure, BusyInv, Busy
  <2>18. CASE ConfigureFails
    BY <2>18 DEF ConfigureFails, BeginEnd, BusyInv, Busy, TypeInv, TypeOK,
       commandVars, fieldVars, receiverVars, processVars, socketVars,
       keptVars, androidVars, Sessions, Enders, Command, Revoker
  <2>19. CASE StopAfterRevoke
    <3>1. Requested(commands) => Requested(commands')
      BY <2>19, RequestKept DEF StopAfterRevoke, TypeInv, TypeOK
    <3>. QED
      BY <2>19, <3>1 DEF StopAfterRevoke, BusyInv, Busy, fieldVars, processVars,
         androidVars
  <2>20. ASSUME NEW e \in Enders, EndProcess(e) PROVE BusyInv'
    BY <2>20 DEF EndProcess, BusyInv, Busy, TypeInv, TypeOK, commandVars,
       fieldVars, receiverVars, processVars, socketVars, keptVars,
       androidVars, Sessions, Enders, Command, Revoker
  <2>21. ASSUME NEW e \in Enders, EndReceiver(e) PROVE BusyInv'
    BY <2>21 DEF EndReceiver, AfterUnregister, BusyInv, Busy, TypeInv,
       TypeOK, commandVars, fieldVars, receiverVars, processVars,
       socketVars, keptVars, androidVars, Sessions, Enders, Command, Revoker
  <2>22. ASSUME NEW e \in Enders, EndForgets(e) PROVE BusyInv'
    BY <2>22 DEF EndForgets, BusyInv, Busy, TypeInv, TypeOK, commandVars,
       fieldVars, receiverVars, processVars, socketVars, keptVars,
       androidVars, Sessions, Enders, Command, Revoker
  <2>23. ASSUME NEW e \in Enders, EndStops(e) PROVE BusyInv'
    <3>1. CASE mStarting \/ AlwaysVisible
      <4>1. AlwaysVisible \/ starter \in {"signal", "force", "forced"}
        BY <3>1 DEF ThreadInv, StartingSteps
      <4>2. starter = "failed" \/ e # Command
        BY <2>23 DEF EndStops, ThreadInv, FailedStart
      <4>. QED
        BY <2>23, <4>1, <4>2 DEF EndStops, BusyInv, Busy
    <3>2. CASE ~(mStarting \/ AlwaysVisible)
      BY <2>23, <3>2 DEF EndStops, BusyInv
    <3>. QED
      BY <3>1, <3>2
  <2>24. ASSUME NEW s \in Sessions, ProcessDies(s) PROVE BusyInv'
    BY <2>24, BusyFrame DEF ProcessDies, commandVars, fieldVars,
       receiverVars, processVars, socketVars, keptVars, androidVars
  <2>25. ASSUME NEW s \in Sessions, ThreadEnds(s) PROVE BusyInv'
    <3>1. s \in Enders /\ ender'[s] = "locking"
      BY <2>25, LifecycleAssumption DEF ThreadEnds, BeginEnd, Enders, Revoker,
         Sessions, TypeInv, TypeOK
    <3>. QED
      BY <3>1 DEF BusyInv, Busy
  <2>26. ASSUME NEW s \in Sessions, Connects(s) PROVE BusyInv'
    BY <2>26, BusyFrame DEF Connects, commandVars, fieldVars,
       receiverVars, processVars, socketVars, keptVars, androidVars
  <2>27. ASSUME NEW m \in Sessions, EntersList(m) PROVE BusyInv'
    BY <2>27, BusyFrame DEF EntersList, commandVars, fieldVars,
       receiverVars, processVars, socketVars, keptVars, androidVars
  <2>28. ASSUME NEW m \in Sessions, Accepts(m) PROVE BusyInv'
    BY <2>28, BusyFrame DEF Accepts, commandVars, fieldVars, receiverVars,
       processVars, socketVars, keptVars, androidVars
  <2>29. ASSUME NEW m \in Sessions, ReadsEnd(m) PROVE BusyInv'
    BY <2>29, BusyFrame DEF ReadsEnd, commandVars, fieldVars,
       receiverVars, processVars, socketVars, keptVars, androidVars
  <2>30. ASSUME NEW m \in Sessions, ReadFails(m) PROVE BusyInv'
    BY <2>30, BusyFrame DEF ReadFails, commandVars, fieldVars,
       receiverVars, processVars, socketVars, keptVars, androidVars
  <2>31. CASE Crash
    <3>1. CASE started
      <4>1. commands' = <<Restart>>
        BY <2>31, <3>1 DEF Crash
      <4>2. Requested(<<Restart>>)
        BY DEF Requested, Restart, IsRequest
      <4>. QED
        BY <4>1, <4>2 DEF BusyInv, Busy
    <3>2. CASE ~started
      BY <2>31, <3>2 DEF Crash, BusyInv
    <3>. QED
      BY <3>1, <3>2
  <2>32. CASE UNCHANGED vars
    BY <2>32 DEF vars, BusyInv, Busy, TypeInv, TypeOK, commandVars,
       fieldVars, receiverVars, processVars, socketVars, keptVars,
       androidVars, Sessions, Enders, Command, Revoker
  <2>33. QED
    BY <2>1, <2>2, <2>3, <2>4, <2>5, <2>6, <2>7, <2>8, <2>9, <2>10, <2>11,
       <2>12, <2>13, <2>14, <2>15, <2>16, <2>17, <2>18, <2>19, <2>20, <2>21,
       <2>22, <2>23, <2>24, <2>25, <2>26, <2>27, <2>28, <2>29, <2>30, <2>31, <2>34,
       <2>32 DEF Next
<1>. QED
  BY <1>1, <1>2, TypesHold, ThreadsAgree, PTL DEF Spec

\* When all is over the service has stopped itself (StopsAtTheEnd).
THEOREM ServiceStopsAtTheEnd == Spec => []StopsAtTheEnd
<1>1. ThreadInv /\ BusyInv => StopsAtTheEnd
  BY DEF BusyInv, Busy, StopsAtTheEnd, AllOver, Requested
<1>. QED
  BY <1>1, ThreadsAgree, BusyHolds, PTL
=============================================================================
