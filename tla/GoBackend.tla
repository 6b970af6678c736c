----------------------------- MODULE GoBackend -----------------------------
(***************************************************************************)
(* The userspace WireGuard backend: setState on a caller's thread against  *)
(* the callbacks of its VpnService on the main looper, over wireguard-go's *)
(* table of native tunnels.  No lock guards the fields of GoBackend, so    *)
(* every access to one of them is a step of its own, and the two threads   *)
(* take their steps in any order.                                          *)
(***************************************************************************)
EXTENDS Integers

CONSTANTS
    Tunnels,    \* the tunnels setState may be called with
    NoTunnel,   \* null
    Configs,    \* their configurations
    NoConfig,   \* null
    MaxHandle   \* bound: native tunnels at the same time, less one

ASSUME TunnelAssumption == NoTunnel \notin Tunnels /\ NoConfig \notin Configs
ASSUME HandleAssumption == MaxHandle \in Nat

VARIABLES
    currentTunnel, currentConfig, currentTunnelHandle,  \* fields of GoBackend
    native,     \* tunnelHandles of wireguard-go: the tunnel behind each handle
    told,       \* the last onStateChange of each tunnel
    call,       \* where the caller is in setState, with its local variables
    service,    \* the instance of VpnService, as Android sees it
    owned,      \* its owner is set
    held,       \* it is the instance that setState has got
    started,    \* it is to run: somebody started it and it has not stopped itself
    bound,      \* the system is bound to it, for an established interface
    looper,     \* where onDestroy is, with its local variables
    crossed     \* history: a tunnel came up across an onDestroy, that is, setState
                \* stood between wgTurnOn and onStateChange(UP) while onDestroy
                \* held a tunnel it had found current

fields  == <<currentTunnel, currentConfig, currentTunnelHandle>>
android == <<service, owned, held, started, bound>>
vars    == <<fields, native, told, call, android, looper, crossed>>

Handles   == 0..MaxHandle
Nullable  == Tunnels \cup {NoTunnel}
NullableC == Configs \cup {NoConfig}

\* The lines of setState: which tunnel was up before; setStateInternal(DOWN);
\* setStateInternal(UP) up to wgTurnOn, and from there.
Originals == {"original", "test", "pick"}
Downs     == {"down", "read", "noTunnel", "noHandle", "noConfig", "close", "stop", "tell"}
Preparing == {"up", "start", "wait", "owner", "check", "build"}
Assigning == {"assign", "active", "tunnel", "config", "notify"}

Calls == [at : {"idle"} \cup Originals \cup Downs \cup Preparing \cup Assigning,
          op : {"UP", "DOWN"}, tunnel : Nullable, config : NullableC,
          oldTunnel : Nullable, oldConfig : NullableC, closing : Nullable,
          restoring : BOOLEAN, handle : Handles \cup {-1}]

NoCall == [at |-> "idle", op |-> "DOWN", tunnel |-> NoTunnel, config |-> NoConfig,
           oldTunnel |-> NoTunnel, oldConfig |-> NoConfig, closing |-> NoTunnel,
           restoring |-> FALSE, handle |-> -1]

\* The lines of onDestroy: the first ones hold a tunnel it has read.
Destroying == {"test", "read", "off", "noTunnel", "noHandle", "noConfig", "tell"}

Destroys == [at : {"idle", "renew"} \cup Destroying,
             tunnel : Nullable, handle : Handles \cup {-1}]

NoDestroy == [at |-> "idle", tunnel |-> NoTunnel, handle |-> -1]

AndroidTypeOK ==
    /\ service \in {"none", "alive", "dying"}
    /\ {owned, held, started, bound} \subseteq BOOLEAN

TypeOK ==
    /\ currentTunnel \in Nullable
    /\ currentConfig \in NullableC
    /\ currentTunnelHandle \in Handles \cup {-1}
    /\ native \in [Handles -> Nullable]
    /\ told \in [Tunnels -> {"UP", "DOWN"}]
    /\ call \in Calls
    /\ AndroidTypeOK
    /\ looper \in Destroys
    /\ crossed \in BOOLEAN
    /\ call.at \in (Assigning \cup Preparing) \ {"up"} => call.config \in Configs

Init ==
    /\ currentTunnel = NoTunnel
    /\ currentConfig = NoConfig
    /\ currentTunnelHandle = -1
    /\ native = [h \in Handles |-> NoTunnel]
    /\ told = [t \in Tunnels |-> "DOWN"]
    /\ call = NoCall
    /\ service = "none"
    /\ owned = FALSE
    /\ held = FALSE
    /\ started = FALSE
    /\ bound = FALSE
    /\ looper = NoDestroy
    /\ crossed = FALSE

\* The future vpnService is complete: onCreate completes it, onDestroy renews it.
isDone == service # "none"

\* The caller goes on from one line of setState to another, the looper in onDestroy.
Line(from, to) == call.at = from /\ call' = [call EXCEPT !.at = to]
DestroyLine(from, to) == looper.at = from /\ looper' = [looper EXCEPT !.at = to]

\* One field is written.
WriteTunnel(t) == currentTunnel' = t /\ UNCHANGED <<currentConfig, currentTunnelHandle>>
WriteHandle(h) == currentTunnelHandle' = h /\ UNCHANGED <<currentTunnel, currentConfig>>
WriteConfig(c) == currentConfig' = c /\ UNCHANGED <<currentTunnel, currentTunnelHandle>>

-----------------------------------------------------------------------------
(***************************************************************************)
(* wireguard-go.                                                           *)
(***************************************************************************)

free == {h \in Handles : native[h] = NoTunnel}

\* wgTurnOn takes the lowest number that is free.
wgTurnOn(t, h) ==
    /\ h \in free
    /\ \A i \in free : h <= i
    /\ native' = [native EXCEPT ![h] = t]

\* wgTurnOff of an unknown handle does nothing.
wgTurnOff(h) == native' = [i \in Handles |-> IF i = h THEN NoTunnel ELSE native[i]]

-----------------------------------------------------------------------------
(***************************************************************************)
(* setState.                                                               *)
(***************************************************************************)

\* setState(UP), also by TOGGLE, unless it is up with that configuration;
\* originalConfig is read ...
SetUp(t, c) ==
    /\ call.at = "idle"
    /\ ~(currentTunnel = t /\ currentConfig = c)
    /\ call' = [NoCall EXCEPT !.at = "original", !.op = "UP", !.tunnel = t, !.config = c,
                              !.oldConfig = currentConfig]
    /\ UNCHANGED <<fields, native, told, android, looper, crossed>>

\* ... then originalTunnel ...
ReadOriginal ==
    /\ call.at = "original"
    /\ call' = [call EXCEPT !.at = "test", !.oldTunnel = currentTunnel]
    /\ UNCHANGED <<fields, native, told, android, looper, crossed>>

\* ... and if there is a current tunnel, it is read again ...
TestCurrent ==
    /\ Line("test", IF currentTunnel = NoTunnel THEN "up" ELSE "pick")
    /\ UNCHANGED <<fields, native, told, android, looper, crossed>>

\* ... and goes down first.  If it is gone by now, a null is dereferenced.
PickCurrent ==
    /\ call.at = "pick"
    /\ call' = IF currentTunnel = NoTunnel
                 THEN NoCall
                 ELSE [call EXCEPT !.at = "down", !.closing = currentTunnel]
    /\ UNCHANGED <<fields, native, told, android, looper, crossed>>

\* setState(DOWN), also by TOGGLE, of the current tunnel; of another tunnel it
\* does nothing.
SetDown ==
    /\ call.at = "idle"
    /\ currentTunnel # NoTunnel
    /\ call' = [NoCall EXCEPT !.at = "down", !.tunnel = currentTunnel, !.closing = currentTunnel]
    /\ UNCHANGED <<fields, native, told, android, looper, crossed>>

\* After setStateInternal(DOWN): done, or up with the new tunnel.
AfterDown == call' = IF call.op = "UP" THEN [call EXCEPT !.at = "up", !.handle = -1] ELSE NoCall

\* Mutant of TakeDown: without its service the tunnel is taken to be down.
TakeDownWithService ==
    /\ call.at = "down"
    /\ IF currentTunnelHandle = -1 \/ ~isDone THEN AfterDown ELSE Line("down", "read")
    /\ UNCHANGED <<fields, native, told, android, looper, crossed>>

\* setStateInternal(DOWN): without a handle the tunnel is down already.
TakeDown ==
    /\ call.at = "down"
    /\ IF currentTunnelHandle = -1 THEN AfterDown ELSE Line("down", "read")
    /\ UNCHANGED <<fields, native, told, android, looper, crossed>>

ReadHandle ==
    /\ call.at = "read"
    /\ call' = [call EXCEPT !.at = "noTunnel", !.handle = currentTunnelHandle]
    /\ UNCHANGED <<fields, native, told, android, looper, crossed>>

Forget ==
    /\ \/ Line("noTunnel", "noHandle") /\ WriteTunnel(NoTunnel)
       \/ Line("noHandle", "noConfig") /\ WriteHandle(-1)
       \/ Line("noConfig", "close") /\ WriteConfig(NoConfig)
    /\ UNCHANGED <<native, told, android, looper, crossed>>

\* Mutant of Close: the field is closed, which is reset by now.
CloseTheField ==
    /\ Line("close", "stop")
    /\ wgTurnOff(currentTunnelHandle)
    /\ UNCHANGED <<fields, told, android, looper, crossed>>

Close ==
    /\ Line("close", "stop")
    /\ wgTurnOff(call.handle)
    /\ UNCHANGED <<fields, told, android, looper, crossed>>

\* stopSelf of the service, if it is there and has not been given up ...
Stop ==
    /\ Line("stop", "tell")
    /\ started' = (started /\ service # "alive")
    /\ UNCHANGED <<fields, native, told, service, owned, held, bound, looper, crossed>>

\* ... and onStateChange(DOWN).
TellDown ==
    /\ call.at = "tell"
    /\ told' = [told EXCEPT ![call.closing] = "DOWN"]
    /\ AfterDown
    /\ UNCHANGED <<fields, native, android, looper, crossed>>

\* setStateInternal(UP) throws: the tunnel that was up before is brought up
\* again, once, and the exception goes to the caller.
Throw ==
    call' = IF call.restoring \/ call.oldTunnel = NoTunnel
              THEN NoCall
              ELSE [call EXCEPT !.at = "up", !.tunnel = call.oldTunnel, !.config = call.oldConfig,
                                !.restoring = TRUE, !.handle = -1]

\* Mutant of BringUp: a missing configuration is not noticed.
BringUpAnything ==
    /\ call.at = "up"
    /\ Throw \/ Line("up", IF isDone THEN "wait" ELSE "start")
    /\ UNCHANGED <<fields, native, told, android, looper, crossed>>

\* No configuration, no permission, or on with a service that is there or
\* has to be started.
BringUp ==
    /\ call.at = "up"
    /\ \/ Throw
       \/ call.config # NoConfig /\ Line("up", IF isDone THEN "wait" ELSE "start")
    /\ UNCHANGED <<fields, native, told, android, looper, crossed>>

StartService ==
    /\ Line("start", "wait")
    /\ started' = TRUE
    /\ UNCHANGED <<fields, native, told, service, owned, held, bound, looper, crossed>>

\* The service is there in time, or not.
GetService ==
    /\ isDone
    /\ Line("wait", "owner")
    /\ held' = TRUE
    /\ UNCHANGED <<fields, native, told, service, owned, started, bound, looper, crossed>>

NoService ==
    /\ call.at = "wait"
    /\ ~isDone
    /\ Throw
    /\ UNCHANGED <<fields, native, told, android, looper, crossed>>

\* setOwner of the service setState has got, which may be history by now.
SetOwner ==
    /\ Line("owner", "check")
    /\ owned' = (owned \/ held)
    /\ held' = FALSE
    /\ UNCHANGED <<fields, native, told, service, started, bound, looper, crossed>>

\* "Tunnel already up": the call returns.
CheckHandle ==
    /\ call.at = "check"
    /\ IF currentTunnelHandle # -1 THEN call' = NoCall ELSE Line("check", "build")
    /\ UNCHANGED <<fields, native, told, android, looper, crossed>>

\* Addresses resolved, interface established, native tunnel turned on, or one
\* of the three failed, wgTurnOn with -1 ...
Build ==
    /\ call.at = "build"
    /\ \/ Throw /\ UNCHANGED <<native, bound, crossed>>
       \/ /\ bound' = TRUE
          /\ crossed' = (crossed \/ looper.at \in Destroying)
          /\ \E h \in Handles \cup {-1} :
               /\ IF h = -1 THEN UNCHANGED native ELSE wgTurnOn(call.tunnel, h)
               /\ call' = [call EXCEPT !.at = "assign", !.handle = h]
    /\ UNCHANGED <<fields, told, service, owned, held, started, looper>>

\* ... its result assigned ...
Assign ==
    /\ Line("assign", "active")
    /\ WriteHandle(call.handle)
    /\ UNCHANGED <<native, told, android, looper, crossed>>

\* ... and the field read again.
CheckActive ==
    /\ call.at = "active"
    /\ IF currentTunnelHandle < 0 THEN Throw ELSE Line("active", "tunnel")
    /\ UNCHANGED <<fields, native, told, android, looper, crossed>>

Publish ==
    /\ \/ Line("tunnel", "config") /\ WriteTunnel(call.tunnel)
       \/ Line("config", "notify") /\ WriteConfig(call.config)
    /\ UNCHANGED <<native, told, android, looper, crossed>>

Notify ==
    /\ call.at = "notify"
    /\ told' = [told EXCEPT ![call.tunnel] = "UP"]
    /\ call' = NoCall
    /\ UNCHANGED <<fields, native, android, looper, crossed>>

setState ==
    \/ \E t \in Tunnels, c \in NullableC : SetUp(t, c)
    \/ ReadOriginal \/ TestCurrent \/ PickCurrent \/ SetDown
    \/ TakeDown \/ ReadHandle \/ Forget \/ Close \/ Stop \/ TellDown
    \/ BringUp \/ StartService \/ GetService \/ NoService \/ SetOwner \/ CheckHandle
    \/ Build \/ Assign \/ CheckActive \/ Publish \/ Notify

-----------------------------------------------------------------------------
(***************************************************************************)
(* VpnService on the main looper, and Android behind it.                   *)
(***************************************************************************)

\* Android starts the service for its Always-on feature.  What onStartCommand
\* completes is complete since onCreate.
AlwaysOn ==
    /\ ~started
    /\ started' = TRUE
    /\ UNCHANGED <<fields, native, told, call, service, owned, held, bound, looper, crossed>>

\* Android creates the service that is started or bound to.
onCreate ==
    /\ looper.at = "idle"
    /\ service = "none"
    /\ started \/ bound
    /\ service' = "alive"
    /\ owned' = FALSE
    /\ UNCHANGED <<fields, native, told, call, held, started, bound, looper, crossed>>

\* Android gives up a service neither started nor bound.  Its onDestroy comes
\* later, and what is started or bound meanwhile is another instance.
Dies ==
    /\ service = "alive"
    /\ ~started /\ ~bound
    /\ service' = "dying"
    /\ UNCHANGED <<fields, native, told, call, owned, held, started, bound, looper, crossed>>

\* onDestroy: owner.currentTunnel is read ...
DestroyReads ==
    /\ looper.at = "idle"
    /\ service = "dying"
    /\ IF owned /\ currentTunnel # NoTunnel
         THEN /\ looper' = [looper EXCEPT !.at = "test", !.tunnel = currentTunnel]
              /\ crossed' = (crossed \/ call.at \in Assigning)
         ELSE /\ looper' = [looper EXCEPT !.at = "renew"]
              /\ UNCHANGED crossed
    /\ UNCHANGED <<fields, native, told, call, android>>

\* ... the handle, if there is one, read again ...
DestroyTests ==
    /\ DestroyLine("test", IF currentTunnelHandle = -1 THEN "noTunnel" ELSE "read")
    /\ UNCHANGED <<fields, native, told, call, android, crossed>>

DestroyReadsHandle ==
    /\ looper.at = "read"
    /\ looper' = [looper EXCEPT !.at = "off", !.handle = currentTunnelHandle]
    /\ UNCHANGED <<fields, native, told, call, android, crossed>>

\* ... turned off ...
DestroyTurnsOff ==
    /\ DestroyLine("off", "noTunnel")
    /\ wgTurnOff(looper.handle)
    /\ UNCHANGED <<fields, told, call, android, crossed>>

\* Mutant of DestroyClears: the handle is not reset.
DestroyKeepsHandle ==
    /\ \/ DestroyLine("noTunnel", "noHandle") /\ WriteTunnel(NoTunnel)
       \/ DestroyLine("noHandle", "noConfig") /\ UNCHANGED fields
       \/ DestroyLine("noConfig", "tell") /\ WriteConfig(NoConfig)
    /\ UNCHANGED <<native, told, call, android, crossed>>

\* ... the fields cleared ...
DestroyClears ==
    /\ \/ DestroyLine("noTunnel", "noHandle") /\ WriteTunnel(NoTunnel)
       \/ DestroyLine("noHandle", "noConfig") /\ WriteHandle(-1)
       \/ DestroyLine("noConfig", "tell") /\ WriteConfig(NoConfig)
    /\ UNCHANGED <<native, told, call, android, crossed>>

\* ... the tunnel told ...
DestroyTells ==
    /\ looper.at = "tell"
    /\ told' = [told EXCEPT ![looper.tunnel] = "DOWN"]
    /\ looper' = [NoDestroy EXCEPT !.at = "renew"]
    /\ UNCHANGED <<fields, native, call, android, crossed>>

\* ... and the future renewed for the next instance.
DestroyRenews ==
    /\ looper.at = "renew"
    /\ looper' = NoDestroy
    /\ service' = "none"
    /\ held' = FALSE
    /\ UNCHANGED <<fields, native, told, call, owned, started, bound, crossed>>

onDestroy ==
    \/ DestroyReads \/ DestroyTests \/ DestroyReadsHandle \/ DestroyTurnsOff
    \/ DestroyClears \/ DestroyTells \/ DestroyRenews

\* The interface goes with the native tunnel that held it, and with it the
\* binding.
Unbind ==
    /\ bound
    /\ free = Handles
    /\ bound' = FALSE
    /\ UNCHANGED <<fields, native, told, call, service, owned, held, started, looper, crossed>>

\* The user turns to another VPN: onRevoke stops the service
\* that is alive.
Revoke ==
    /\ bound
    /\ bound' = FALSE
    /\ started' = (started /\ service # "alive")
    /\ UNCHANGED <<fields, native, told, call, service, owned, held, looper, crossed>>

VpnService == AlwaysOn \/ onCreate \/ Dies \/ onDestroy \/ Unbind \/ Revoke

Next == setState \/ VpnService

Spec == Init /\ [][Next]_vars

-----------------------------------------------------------------------------

Rest == call.at = "idle" /\ looper.at = "idle"

\* No native tunnel runs without a reference that will close it: every entry of
\* wireguard-go's table is the current handle, or in the hands of a setState
\* that is about to close or assign it.  It holds until a tunnel comes up
\* across an onDestroy, which may then reset the handle of the new tunnel.
NativeOwned ==
    ~crossed => \A h \in Handles : native[h] # NoTunnel =>
        \/ h = currentTunnelHandle
        \/ call.at \in {"noTunnel", "noHandle", "noConfig", "close", "assign"} /\ h = call.handle

\* Between calls the views agree: the backend's three fields, the native tunnel
\* behind the handle, and what each tunnel was told last, in both directions.
\* It holds until a tunnel comes up across an onDestroy.
AtRest ==
    Rest /\ ~crossed =>
        /\ currentTunnel = NoTunnel <=> currentTunnelHandle = -1
        /\ currentTunnel = NoTunnel <=> currentConfig = NoConfig
        /\ currentTunnel # NoTunnel => native[currentTunnelHandle] = currentTunnel
        /\ \A t \in Tunnels : told[t] = "UP" <=> currentTunnel = t

\* setState returns from DOWN, and its tunnel is still the current one.
DownInVain ==
    /\ call.op = "DOWN" /\ call.at # "idle" /\ call'.at = "idle"
    /\ currentTunnel' = call.tunnel

\* "Change the state of a given Tunnel": when setState(DOWN) of the current tunnel
\* returns, it is not the current tunnel any more, wherever onDestroy came in.
\* (Run go_overlap: it is, after a tunnel came up across an onDestroy.)
DownMeansDown == [][~DownInVain]_vars

\* That is the only way: before it, a DOWN is a DOWN, whatever lines of
\* onDestroy fall between the lines of setState.
DownUnlessCrossed == [][DownInVain => crossed]_vars

=============================================================================
