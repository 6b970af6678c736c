-------------------------- MODULE GoBackendProofs --------------------------
(***************************************************************************)
(* Proofs about GoBackend, for all tunnels, configurations and bounds on   *)
(* the handles, with the lines of onDestroy anywhere between the lines of  *)
(* setState.  Types hold throughout; the rest until a tunnel comes up      *)
(* across an onDestroy (crossed).                                          *)
(***************************************************************************)
EXTENDS GoBackend, TLAPS

\* The calling thread: a call has its tunnel, only a setState(UP) brings
\* anything up, and crossed is what it says.
CallInv ==
    /\ call.at # "idle" => call.tunnel \in Tunnels
    /\ call.op = "DOWN" => call.at \in {"idle"} \cup Downs
    /\ (call.at \in Assigning /\ looper.at \in Destroying) => crossed

\* Whoever stands behind a line that writes null has left its field null.
\* The tunnel is the first to go and comes after the handle, so a current
\* tunnel has a handle, and a handle or configuration without a tunnel is
\* about to go, or about to get its tunnel.
TunnelGone == \/ call.at \in {"noHandle", "noConfig", "close", "stop", "tell"}
              \/ call.at \in Preparing \cup {"assign", "active", "tunnel"}
              \/ looper.at \in {"noHandle", "noConfig", "tell"}

HandleGone == \/ call.at \in {"noConfig", "close", "stop", "tell", "build", "assign"}
              \/ looper.at \in {"noConfig", "tell"}

FieldInv ==
    /\ TunnelGone => currentTunnel = NoTunnel
    /\ HandleGone => currentTunnelHandle = -1
    /\ currentTunnel # NoTunnel => currentTunnelHandle # -1
    /\ (currentTunnel # NoTunnel /\ call.at # "config") => currentConfig # NoConfig
    /\ (currentTunnel = NoTunnel /\ currentTunnelHandle # -1) =>
          call.at \in {"noHandle", "active", "tunnel"} \/ looper.at = "noHandle"
    /\ (currentTunnel = NoTunnel /\ currentConfig # NoConfig) =>
          call.at \in {"noHandle", "noConfig"} \/ looper.at \in {"noHandle", "noConfig"}

\* What the two threads have read is what the fields hold, or has been
\* cleared; what the caller has assigned is still there.
ReadInv ==
    /\ (call.at \in {"down", "read", "noTunnel"} /\ currentTunnel # NoTunnel) =>
          call.closing = currentTunnel
    /\ (call.at \in {"noTunnel", "noHandle"} /\ currentTunnelHandle # -1) =>
          call.handle = currentTunnelHandle
    /\ (looper.at \in {"test", "read", "off", "noTunnel"} /\ currentTunnel # NoTunnel) =>
          looper.tunnel = currentTunnel
    /\ (looper.at = "off" /\ currentTunnelHandle # -1) => looper.handle = currentTunnelHandle
    /\ call.at \in {"active", "tunnel"} => currentTunnelHandle = call.handle
    /\ call.at = "tunnel" => call.handle # -1
    /\ call.at \in {"config", "notify"} => currentTunnel = call.tunnel

\* wireguard-go: who will close the native tunnels there are, and which
\* tunnel is behind the handle.
Owned(h) ==
    \/ h = currentTunnelHandle
    \/ call.at \in {"noTunnel", "noHandle", "noConfig", "close", "assign"} /\ h = call.handle

NativeInv ==
    /\ \A h \in Handles : native[h] # NoTunnel => Owned(h)
    /\ (looper.at \in {"noTunnel", "noHandle"} /\ currentTunnelHandle # -1) =>
          native[currentTunnelHandle] = NoTunnel
    /\ (currentTunnel # NoTunnel /\ looper.at # "noTunnel") =>
          native[currentTunnelHandle] = currentTunnel
    /\ (call.at \in {"assign", "active", "tunnel"} /\ call.handle # -1) =>
          native[call.handle] = call.tunnel

\* The listener: what was told UP is current, or somebody will tell it DOWN.
ToldInv ==
    /\ \A t \in Tunnels : told[t] = "UP" =>
          \/ t = currentTunnel
          \/ looper.at \in Destroying /\ t = looper.tunnel
          \/ call.at \in {"noHandle", "noConfig", "close", "stop", "tell"} /\ t = call.closing
    /\ (currentTunnel # NoTunnel /\ call.at \notin {"config", "notify"}) =>
          told[currentTunnel] = "UP"

Agree == FieldInv /\ ReadInv /\ NativeInv /\ ToldInv

\* The inductive invariant.
Inv == TypeOK /\ CallInv /\ (~crossed => Agree)

-----------------------------------------------------------------------------
(***************************************************************************)
(* The local variables after each kind of step.                            *)
(***************************************************************************)

Places == {"idle"} \cup Originals \cup Downs \cup Preparing \cup Assigning

\* From one line to the next nothing but the place changes.
LEMMA LineKeeps ==
    ASSUME TypeOK, NEW from, NEW to \in Places, Line(from, to)
    PROVE  /\ call' \in Calls
           /\ call.at = from /\ call'.at = to
           /\ call'.op = call.op
           /\ call'.tunnel = call.tunnel
           /\ call'.config = call.config
           /\ call'.closing = call.closing
           /\ call'.handle = call.handle
BY DEF Line, TypeOK, Calls, Places

LEMMA DestroyLineKeeps ==
    ASSUME TypeOK, NEW from, NEW to \in {"idle", "renew"} \cup Destroying, DestroyLine(from, to)
    PROVE  /\ looper' \in Destroys
           /\ looper.at = from /\ looper'.at = to
           /\ looper'.tunnel = looper.tunnel
           /\ looper'.handle = looper.handle
BY DEF DestroyLine, TypeOK, Destroys

\* The types of the local variables that reach the fields.
LEMMA LocalTypes ==
    ASSUME TypeOK
    PROVE  call.config \in NullableC /\ call.handle \in Handles \cup {-1}
BY DEF TypeOK, Calls

\* No call is under way.
LEMMA NoCallType == NoCall \in Calls /\ NoCall.at = "idle"
BY DEF NoCall, Calls, Nullable, NullableC

\* After DOWN the call is over, or goes on with UP.
LEMMA AfterDownReturns ==
    ASSUME TypeOK, AfterDown
    PROVE  /\ call' \in Calls
           /\ \/ call'.at = "idle"
              \/ /\ call'.at = "up" /\ call'.op = "UP"
                 /\ call'.tunnel = call.tunnel
<1>1. CASE call.op = "UP"
  <2>1. call' = [call EXCEPT !.at = "up", !.handle = -1]
    BY <1>1 DEF AfterDown
  <2> QED
    BY <2>1, <1>1 DEF TypeOK, Calls, Preparing
<1>2. CASE call.op # "UP"
  BY <1>2, NoCallType DEF AfterDown
<1> QED
  BY <1>1, <1>2

\* After an exception it is over, or goes back to the tunnel that was up.
LEMMA ThrowReturns ==
    ASSUME TypeOK, Throw
    PROVE  /\ call' \in Calls
           /\ \/ call'.at = "idle"
              \/ /\ call'.at = "up" /\ call'.op = call.op
                 /\ call'.tunnel \in Tunnels
<1>1. CASE call.restoring \/ call.oldTunnel = NoTunnel
  BY <1>1, NoCallType DEF Throw
<1>2. CASE ~(call.restoring \/ call.oldTunnel = NoTunnel)
  <2>1. call' = [call EXCEPT !.at = "up", !.tunnel = call.oldTunnel, !.config = call.oldConfig,
                             !.restoring = TRUE, !.handle = -1]
    BY <1>2 DEF Throw
  <2>2. call.oldTunnel \in Tunnels
    BY <1>2 DEF TypeOK, Calls, Nullable
  <2> QED
    BY <2>1, <2>2 DEF TypeOK, Calls, Nullable, Preparing
<1> QED
  BY <1>1, <1>2

-----------------------------------------------------------------------------
(***************************************************************************)
(* The invariant.                                                          *)
(***************************************************************************)

\* The program starts in it.
LEMMA InitInv == Init => Inv
<1> SUFFICES ASSUME Init PROVE Inv
  OBVIOUS
<1> USE DEF Init
<1>1. TypeOK
  <2>1. call \in Calls /\ looper \in Destroys
    BY DEF NoCall, Calls, NoDestroy, Destroys, Nullable, NullableC
  <2>2. AndroidTypeOK
    BY DEF AndroidTypeOK
  <2>3. call.at = "idle"
    BY DEF NoCall
  <2> QED
    BY <2>1, <2>2, <2>3 DEF TypeOK, Nullable, NullableC, Handles, Assigning, Preparing
<1>2. call.at = "idle" /\ looper.at = "idle"
  BY DEF NoCall, NoDestroy
<1> QED
  BY <1>1, <1>2 DEF Inv, CallInv, Agree, FieldInv, TunnelGone, HandleGone, ReadInv, NativeInv,
     Owned, ToldInv, Assigning, Preparing, Destroying

\* Every step keeps it.
LEMMA NextInv == Inv /\ [Next]_vars => Inv'
<1> SUFFICES ASSUME Inv, [Next]_vars PROVE Inv'
  OBVIOUS
<1> USE TunnelAssumption, HandleAssumption
        DEF Inv, TypeOK, CallInv, Agree, FieldInv, TunnelGone, HandleGone, ReadInv, NativeInv,
            Owned, ToldInv, Nullable, NullableC, Handles,
            Originals, Downs, Preparing, Assigning, Destroying
<1>1. ASSUME NEW t \in Tunnels, NEW c \in NullableC, SetUp(t, c) PROVE Inv'
  <2>1. /\ call' \in Calls
        /\ call.at = "idle" /\ call'.at = "original" /\ call'.op = "UP" /\ call'.tunnel \in Tunnels
    BY <1>1 DEF SetUp, NoCall, Calls, Originals, Nullable, NullableC
  <2>2. UNCHANGED <<currentTunnel, currentConfig, currentTunnelHandle, native, told, looper, crossed>>
    BY <1>1 DEF SetUp, fields
  <2>3. AndroidTypeOK'
    BY <1>1 DEF SetUp, android, AndroidTypeOK
  <2> QED
    BY <2>1, <2>2, <2>3
<1>2. CASE ReadOriginal
  <2>1. /\ call' \in Calls
        /\ call.at = "original" /\ call'.at = "test" /\ call'.op = call.op
        /\ call'.tunnel = call.tunnel
    BY <1>2 DEF ReadOriginal, Calls, Originals, Nullable
  <2>2. UNCHANGED <<currentTunnel, currentConfig, currentTunnelHandle, native, told, looper, crossed>>
    BY <1>2 DEF ReadOriginal, fields
  <2>3. AndroidTypeOK'
    BY <1>2 DEF ReadOriginal, android, AndroidTypeOK
  <2> QED
    BY <2>1, <2>2, <2>3
<1>3. CASE TestCurrent
  <2>1. /\ call' \in Calls
        /\ call.at = "test" /\ call'.op = call.op /\ call'.tunnel = call.tunnel
        /\ \/ call'.at = "up" /\ currentTunnel = NoTunnel
           \/ call'.at = "pick"
    BY <1>3, LineKeeps DEF TestCurrent, Places, Originals, Preparing
  <2>2. UNCHANGED <<currentTunnel, currentConfig, currentTunnelHandle, native, told, looper, crossed>>
    BY <1>3 DEF TestCurrent, fields
  <2>3. AndroidTypeOK'
    BY <1>3 DEF TestCurrent, android, AndroidTypeOK
  <2> QED
    BY <2>1, <2>2, <2>3
<1>4. CASE PickCurrent
  <2>1. /\ call' \in Calls
        /\ call.at = "pick"
        /\ \/ call'.at = "idle"
           \/ /\ call'.at = "down" /\ call'.closing = currentTunnel
              /\ call'.op = call.op /\ call'.tunnel = call.tunnel
    BY <1>4, NoCallType DEF PickCurrent, Calls, Downs, Nullable
  <2>2. UNCHANGED <<currentTunnel, currentConfig, currentTunnelHandle, native, told, looper, crossed>>
    BY <1>4 DEF PickCurrent, fields
  <2>3. AndroidTypeOK'
    BY <1>4 DEF PickCurrent, android, AndroidTypeOK
  <2> QED
    BY <2>1, <2>2, <2>3
<1>5. CASE SetDown
  <2>1. /\ call' \in Calls
        /\ call.at = "idle" /\ call'.at = "down" /\ call'.closing = currentTunnel
        /\ call'.tunnel \in Tunnels
    BY <1>5 DEF SetDown, NoCall, Calls, Downs, Nullable
  <2>2. UNCHANGED <<currentTunnel, currentConfig, currentTunnelHandle, native, told, looper, crossed>>
    BY <1>5 DEF SetDown, fields
  <2>3. AndroidTypeOK'
    BY <1>5 DEF SetDown, android, AndroidTypeOK
  <2> QED
    BY <2>1, <2>2, <2>3
<1>6. CASE TakeDown
  <2>1. /\ call' \in Calls
        /\ call.at = "down"
        /\ \/ call'.at = "idle" /\ currentTunnelHandle = -1
           \/ /\ call'.at = "up" /\ call'.op = "UP" /\ call'.tunnel = call.tunnel
              /\ currentTunnelHandle = -1
           \/ /\ call'.at = "read" /\ call'.op = call.op /\ call'.tunnel = call.tunnel
              /\ call'.closing = call.closing
    BY <1>6, LineKeeps, AfterDownReturns DEF TakeDown, Places, Downs
  <2>2. UNCHANGED <<currentTunnel, currentConfig, currentTunnelHandle, native, told, looper, crossed>>
    BY <1>6 DEF TakeDown, fields
  <2>3. AndroidTypeOK'
    BY <1>6 DEF TakeDown, android, AndroidTypeOK
  <2> QED
    BY <2>1, <2>2, <2>3
<1>7. CASE ReadHandle
  <2>1. /\ call' \in Calls
        /\ call.at = "read" /\ call'.at = "noTunnel" /\ call'.handle = currentTunnelHandle
        /\ call'.op = call.op /\ call'.tunnel = call.tunnel /\ call'.closing = call.closing
    BY <1>7 DEF ReadHandle, Calls, Downs
  <2>2. UNCHANGED <<currentTunnel, currentConfig, currentTunnelHandle, native, told, looper, crossed>>
    BY <1>7 DEF ReadHandle, fields
  <2>3. AndroidTypeOK'
    BY <1>7 DEF ReadHandle, android, AndroidTypeOK
  <2> QED
    BY <2>1, <2>2, <2>3
<1>8. CASE Stop
  <2>1. /\ call' \in Calls
        /\ call.at = "stop" /\ call'.at = "tell"
        /\ call'.op = call.op /\ call'.tunnel = call.tunnel /\ call'.config = call.config
        /\ call'.closing = call.closing /\ call'.handle = call.handle
    BY <1>8, LineKeeps DEF Stop, Places, Downs
  <2>2. UNCHANGED <<currentTunnel, currentConfig, currentTunnelHandle, native, told, looper, crossed>>
    BY <1>8 DEF Stop, fields
  <2>3. AndroidTypeOK'
    BY <1>8 DEF Stop, android, AndroidTypeOK
  <2> QED
    BY <2>1, <2>2, <2>3
<1>9. CASE BringUp
  <2>1. /\ call' \in Calls
        /\ call.at = "up"
        /\ \/ call'.at = "idle"
           \/ call'.at = "up" /\ call'.op = call.op /\ call'.tunnel \in Tunnels
           \/ /\ call'.at \in {"start", "wait"} /\ call'.op = call.op
              /\ call'.tunnel = call.tunnel /\ call'.config = call.config
              /\ call.config # NoConfig /\ call.config \in NullableC
    BY <1>9, LineKeeps, ThrowReturns, LocalTypes DEF BringUp, Places, Preparing
  <2>2. UNCHANGED <<currentTunnel, currentConfig, currentTunnelHandle, native, told, looper, crossed>>
    BY <1>9 DEF BringUp, fields
  <2>3. AndroidTypeOK'
    BY <1>9 DEF BringUp, android, AndroidTypeOK
  <2> QED
    BY <2>1, <2>2, <2>3
<1>10. CASE StartService
  <2>1. /\ call' \in Calls
        /\ call.at = "start" /\ call'.at = "wait"
        /\ call'.op = call.op /\ call'.tunnel = call.tunnel /\ call'.config = call.config
        /\ call'.closing = call.closing /\ call'.handle = call.handle
    BY <1>10, LineKeeps DEF StartService, Places, Preparing
  <2>2. UNCHANGED <<currentTunnel, currentConfig, currentTunnelHandle, native, told, looper, crossed>>
    BY <1>10 DEF StartService, fields
  <2>3. AndroidTypeOK'
    BY <1>10 DEF StartService, android, AndroidTypeOK
  <2> QED
    BY <2>1, <2>2, <2>3
<1>11. CASE GetService
  <2>1. /\ call' \in Calls
        /\ call.at = "wait" /\ call'.at = "owner"
        /\ call'.op = call.op /\ call'.tunnel = call.tunnel /\ call'.config = call.config
        /\ call'.closing = call.closing /\ call'.handle = call.handle
    BY <1>11, LineKeeps DEF GetService, Places, Preparing
  <2>2. UNCHANGED <<currentTunnel, currentConfig, currentTunnelHandle, native, told, looper, crossed>>
    BY <1>11 DEF GetService, fields
  <2>3. AndroidTypeOK'
    BY <1>11 DEF GetService, android, AndroidTypeOK
  <2> QED
    BY <2>1, <2>2, <2>3
<1>12. CASE NoService
  <2>1. /\ call' \in Calls
        /\ call.at = "wait"
        /\ \/ call'.at = "idle"
           \/ call'.at = "up" /\ call'.op = call.op /\ call'.tunnel \in Tunnels
    BY <1>12, ThrowReturns DEF NoService
  <2>2. UNCHANGED <<currentTunnel, currentConfig, currentTunnelHandle, native, told, looper, crossed>>
    BY <1>12 DEF NoService, fields
  <2>3. AndroidTypeOK'
    BY <1>12 DEF NoService, android, AndroidTypeOK
  <2> QED
    BY <2>1, <2>2, <2>3
<1>13. CASE SetOwner
  <2>1. /\ call' \in Calls
        /\ call.at = "owner" /\ call'.at = "check"
        /\ call'.op = call.op /\ call'.tunnel = call.tunnel /\ call'.config = call.config
        /\ call'.closing = call.closing /\ call'.handle = call.handle
    BY <1>13, LineKeeps DEF SetOwner, Places, Preparing
  <2>2. UNCHANGED <<currentTunnel, currentConfig, currentTunnelHandle, native, told, looper, crossed>>
    BY <1>13 DEF SetOwner, fields
  <2>3. AndroidTypeOK'
    BY <1>13 DEF SetOwner, android, AndroidTypeOK
  <2> QED
    BY <2>1, <2>2, <2>3
<1>14. CASE CheckHandle
  <2>1. /\ call' \in Calls
        /\ call.at = "check"
        /\ \/ call'.at = "idle"
           \/ /\ call'.at = "build" /\ currentTunnelHandle = -1 /\ call'.op = call.op
              /\ call'.tunnel = call.tunnel /\ call'.config = call.config
    BY <1>14, LineKeeps, NoCallType DEF CheckHandle, Places, Preparing
  <2>2. UNCHANGED <<currentTunnel, currentConfig, currentTunnelHandle, native, told, looper, crossed>>
    BY <1>14 DEF CheckHandle, fields
  <2>3. AndroidTypeOK'
    BY <1>14 DEF CheckHandle, android, AndroidTypeOK
  <2> QED
    BY <2>1, <2>2, <2>3
<1>15. CASE CheckActive
  <2>1. /\ call' \in Calls
        /\ call.at = "active"
        /\ \/ call'.at = "idle" /\ currentTunnelHandle = -1
           \/ /\ call'.at = "up" /\ call'.op = call.op /\ call'.tunnel \in Tunnels
              /\ currentTunnelHandle = -1
           \/ /\ call'.at = "tunnel" /\ currentTunnelHandle # -1 /\ call'.op = call.op
              /\ call'.tunnel = call.tunnel /\ call'.config = call.config
              /\ call'.handle = call.handle
    BY <1>15, LineKeeps, ThrowReturns DEF CheckActive, Places, Assigning
  <2>2. UNCHANGED <<currentTunnel, currentConfig, currentTunnelHandle, native, told, looper, crossed>>
    BY <1>15 DEF CheckActive, fields
  <2>3. AndroidTypeOK'
    BY <1>15 DEF CheckActive, android, AndroidTypeOK
  <2> QED
    BY <2>1, <2>2, <2>3
<1>16. CASE Forget
  <2>0. AndroidTypeOK' /\ UNCHANGED <<native, told, looper, crossed>>
    BY <1>16 DEF Forget, android, AndroidTypeOK
  <2>1. CASE Line("noTunnel", "noHandle") /\ WriteTunnel(NoTunnel)
    <3>1. call' \in Calls /\ call.at = "noTunnel" /\ call'.at = "noHandle"
          /\ call'.op = call.op /\ call'.tunnel = call.tunnel /\ call'.config = call.config
          /\ call'.closing = call.closing /\ call'.handle = call.handle
      BY <2>1, LineKeeps DEF Places, Downs
    <3>2. currentTunnel' = NoTunnel /\ UNCHANGED <<currentTunnelHandle, currentConfig>>
      BY <2>1 DEF WriteTunnel
    <3> QED
      BY <2>0, <3>1, <3>2
  <2>2. CASE Line("noHandle", "noConfig") /\ WriteHandle(-1)
    <3>1. call' \in Calls /\ call.at = "noHandle" /\ call'.at = "noConfig"
          /\ call'.op = call.op /\ call'.tunnel = call.tunnel /\ call'.config = call.config
          /\ call'.closing = call.closing /\ call'.handle = call.handle
      BY <2>2, LineKeeps DEF Places, Downs
    <3>2. currentTunnelHandle' = -1 /\ UNCHANGED <<currentTunnel, currentConfig>>
      BY <2>2 DEF WriteHandle
    <3> QED
      BY <2>0, <3>1, <3>2
  <2>3. CASE Line("noConfig", "close") /\ WriteConfig(NoConfig)
    <3>1. call' \in Calls /\ call.at = "noConfig" /\ call'.at = "close"
          /\ call'.op = call.op /\ call'.tunnel = call.tunnel /\ call'.config = call.config
          /\ call'.closing = call.closing /\ call'.handle = call.handle
      BY <2>3, LineKeeps DEF Places, Downs
    <3>2. currentConfig' = NoConfig /\ UNCHANGED <<currentTunnel, currentTunnelHandle>>
      BY <2>3 DEF WriteConfig
    <3> QED
      BY <2>0, <3>1, <3>2
  <2> QED
    BY <1>16, <2>1, <2>2, <2>3 DEF Forget
<1>17. CASE Close
  <2>1. /\ call' \in Calls
        /\ call.at = "close" /\ call'.at = "stop"
        /\ call'.op = call.op /\ call'.tunnel = call.tunnel /\ call'.config = call.config
        /\ call'.closing = call.closing /\ call'.handle = call.handle
        /\ native' \in [Handles -> Nullable]
        /\ \A h \in Handles : native'[h] = IF h = call.handle THEN NoTunnel ELSE native[h]
    BY <1>17, LineKeeps DEF Close, wgTurnOff, Places, Downs
  <2>2. UNCHANGED <<currentTunnel, currentConfig, currentTunnelHandle, told, looper, crossed>>
    BY <1>17 DEF Close, fields
  <2>3. AndroidTypeOK'
    BY <1>17 DEF Close, android, AndroidTypeOK
  <2> QED
    BY <2>1, <2>2, <2>3
<1>18. CASE TellDown
  <2>1. /\ call' \in Calls
        /\ call.at = "tell"
        /\ \/ call'.at = "idle"
           \/ call'.at = "up" /\ call'.op = "UP" /\ call'.tunnel = call.tunnel
        /\ told' \in [Tunnels -> {"UP", "DOWN"}]
        /\ \A t \in Tunnels : told'[t] = IF t = call.closing THEN "DOWN" ELSE told[t]
    BY <1>18, AfterDownReturns DEF TellDown
  <2>2. UNCHANGED <<currentTunnel, currentConfig, currentTunnelHandle, native, looper, crossed>>
    BY <1>18 DEF TellDown, fields
  <2>3. AndroidTypeOK'
    BY <1>18 DEF TellDown, android, AndroidTypeOK
  <2> QED
    BY <2>1, <2>2, <2>3
<1>19. CASE Build
  <2>0. AndroidTypeOK' /\ UNCHANGED <<currentTunnel, currentConfig, currentTunnelHandle, told, looper>>
    BY <1>19 DEF Build, AndroidTypeOK, fields
  <2>1. CASE Throw /\ UNCHANGED <<native, bound, crossed>>
    <3>1. /\ call' \in Calls /\ call.at = "build"
          /\ \/ call'.at = "idle"
             \/ call'.at = "up" /\ call'.op = call.op /\ call'.tunnel \in Tunnels
      BY <1>19, <2>1, ThrowReturns DEF Build
    <3> QED
      BY <2>0, <2>1, <3>1
  <2>2. ASSUME NEW h \in Handles \cup {-1},
               IF h = -1 THEN UNCHANGED native ELSE wgTurnOn(call.tunnel, h),
               call' = [call EXCEPT !.at = "assign", !.handle = h],
               crossed' = (crossed \/ looper.at \in Destroying)
        PROVE  Inv'
    <3>1. /\ call' \in Calls /\ call.at = "build"
          /\ call'.at = "assign" /\ call'.handle = h /\ call'.op = call.op
          /\ call'.tunnel = call.tunnel /\ call'.config = call.config
      BY <1>19, <2>2 DEF Calls, Build, Assigning
    <3>2. /\ native' \in [Handles -> Nullable]
          /\ h # -1 => native'[h] = call.tunnel
          /\ \A i \in Handles : i # h => native'[i] = native[i]
      BY <2>2, <1>19 DEF wgTurnOn, Build, Calls
    <3>3. crossed' = (crossed \/ looper.at \in Destroying) /\ crossed' \in BOOLEAN
      BY <2>2
    <3>4. TypeOK' /\ CallInv'
      BY <2>0, <3>1, <3>2, <3>3
    <3>5. ASSUME ~crossed' PROVE Agree'
      <4>1. ~crossed /\ looper.at \notin Destroying /\ Agree
        BY <3>3, <3>5
      <4>2. currentTunnelHandle = -1 /\ currentTunnel = NoTunnel
        BY <3>1, <4>1
      <4>3. \A i \in Handles : native[i] = NoTunnel
        BY <3>1, <4>1, <4>2
      <4>4. FieldInv' /\ ReadInv' /\ ToldInv'
        BY <2>0, <3>1, <4>1, <4>2
      <4>5. NativeInv'
        BY <2>0, <3>1, <3>2, <4>1, <4>2, <4>3
      <4> QED
        BY <4>4, <4>5
    <3> QED
      BY <3>4, <3>5
  <2> QED
    BY <1>19, <2>1, <2>2 DEF Build
<1>20. CASE Assign
  <2>0. AndroidTypeOK' /\ UNCHANGED <<native, told, looper, crossed>>
    BY <1>20 DEF Assign, android, AndroidTypeOK
  <2>1. CASE Line("assign", "active") /\ WriteHandle(call.handle)
    <3>1. call' \in Calls /\ call.at = "assign" /\ call'.at = "active"
          /\ call'.op = call.op /\ call'.tunnel = call.tunnel /\ call'.config = call.config
          /\ call'.closing = call.closing /\ call'.handle = call.handle
      BY <2>1, LineKeeps DEF Places, Assigning
    <3>2. currentTunnelHandle' = call.handle /\ UNCHANGED <<currentTunnel, currentConfig>>
      BY <2>1 DEF WriteHandle
    <3> QED
      BY <2>0, <3>1, <3>2, LocalTypes
  <2> QED
    BY <1>20, <2>1 DEF Assign
<1>21. CASE Publish
  <2>0. AndroidTypeOK' /\ UNCHANGED <<native, told, looper, crossed>>
    BY <1>21 DEF Publish, android, AndroidTypeOK
  <2>1. CASE Line("tunnel", "config") /\ WriteTunnel(call.tunnel)
    <3>1. call' \in Calls /\ call.at = "tunnel" /\ call'.at = "config"
          /\ call'.op = call.op /\ call'.tunnel = call.tunnel /\ call'.config = call.config
          /\ call'.closing = call.closing /\ call'.handle = call.handle
      BY <2>1, LineKeeps DEF Places, Assigning
    <3>2. currentTunnel' = call.tunnel /\ UNCHANGED <<currentTunnelHandle, currentConfig>>
      BY <2>1 DEF WriteTunnel
    <3> QED
      BY <2>0, <3>1, <3>2
  <2>2. CASE Line("config", "notify") /\ WriteConfig(call.config)
    <3>1. call' \in Calls /\ call.at = "config" /\ call'.at = "notify"
          /\ call'.op = call.op /\ call'.tunnel = call.tunnel /\ call'.config = call.config
          /\ call'.closing = call.closing /\ call'.handle = call.handle
      BY <2>2, LineKeeps DEF Places, Assigning
    <3>2. currentConfig' = call.config /\ UNCHANGED <<currentTunnel, currentTunnelHandle>>
      BY <2>2 DEF WriteConfig
    <3> QED
      BY <2>0, <3>1, <3>2
  <2> QED
    BY <1>21, <2>1, <2>2 DEF Publish
<1>22. CASE Notify
  <2>1. /\ call' \in Calls
        /\ call.at = "notify" /\ call'.at = "idle"
        /\ told' \in [Tunnels -> {"UP", "DOWN"}]
        /\ \A t \in Tunnels : told'[t] = IF t = call.tunnel THEN "UP" ELSE told[t]
    BY <1>22, NoCallType DEF Notify
  <2>2. UNCHANGED <<currentTunnel, currentConfig, currentTunnelHandle, native, looper, crossed>>
    BY <1>22 DEF Notify, fields
  <2>3. AndroidTypeOK'
    BY <1>22 DEF Notify, android, AndroidTypeOK
  <2> QED
    BY <2>1, <2>2, <2>3
<1>23. CASE AlwaysOn \/ onCreate \/ Dies \/ Unbind \/ Revoke
  <2>1. UNCHANGED <<currentTunnel, currentConfig, currentTunnelHandle, native, told, call, looper, crossed>>
    BY <1>23 DEF AlwaysOn, onCreate, Dies, Unbind, Revoke, fields
  <2>2. AndroidTypeOK'
    BY <1>23 DEF AlwaysOn, onCreate, Dies, Unbind, Revoke, AndroidTypeOK
  <2> QED
    BY <2>1, <2>2
<1>24. CASE DestroyReads
  <2>1. /\ looper.at = "idle"
        /\ UNCHANGED <<currentTunnel, currentConfig, currentTunnelHandle, native, told, call>>
        /\ AndroidTypeOK'
    BY <1>24 DEF DestroyReads, fields, android, AndroidTypeOK
  <2>2. CASE owned /\ currentTunnel # NoTunnel
    <3>1. /\ looper' \in Destroys /\ looper'.at = "test" /\ looper'.tunnel = currentTunnel
      <4>1. looper' = [looper EXCEPT !.at = "test", !.tunnel = currentTunnel]
        BY <1>24, <2>2 DEF DestroyReads
      <4>2. looper \in Destroys /\ currentTunnel \in Nullable
        OBVIOUS
      <4> HIDE DEF Inv, TypeOK, Nullable
      <4> QED
        BY <4>1, <4>2 DEF Destroys
    <3>2. crossed' = (crossed \/ call.at \in Assigning)
      BY <1>24, <2>2 DEF DestroyReads
    <3> QED
      BY <2>1, <3>1, <3>2
  <2>3. CASE ~(owned /\ currentTunnel # NoTunnel)
    <3>1. looper' \in Destroys /\ looper'.at = "renew" /\ UNCHANGED crossed
      BY <1>24, <2>3 DEF DestroyReads, Destroys
    <3> QED
      BY <2>1, <3>1
  <2> QED
    BY <2>2, <2>3
<1>25. CASE DestroyTests
  <2>1. /\ looper' \in Destroys
        /\ looper.at = "test"
        /\ \/ looper'.at = "read"
           \/ looper'.at = "noTunnel" /\ currentTunnelHandle = -1
        /\ looper'.tunnel = looper.tunnel
    BY <1>25, DestroyLineKeeps DEF DestroyTests, Destroying
  <2>2. UNCHANGED <<currentTunnel, currentConfig, currentTunnelHandle, native, told, call, crossed>>
    BY <1>25 DEF DestroyTests, fields
  <2>3. AndroidTypeOK'
    BY <1>25 DEF DestroyTests, android, AndroidTypeOK
  <2> QED
    BY <2>1, <2>2, <2>3
<1>26. CASE DestroyReadsHandle
  <2>1. /\ looper' \in Destroys
        /\ looper.at = "read" /\ looper'.at = "off"
        /\ looper'.handle = currentTunnelHandle /\ looper'.tunnel = looper.tunnel
    BY <1>26 DEF DestroyReadsHandle, Destroys, Destroying
  <2>2. UNCHANGED <<currentTunnel, currentConfig, currentTunnelHandle, native, told, call, crossed>>
    BY <1>26 DEF DestroyReadsHandle, fields
  <2>3. AndroidTypeOK'
    BY <1>26 DEF DestroyReadsHandle, android, AndroidTypeOK
  <2> QED
    BY <2>1, <2>2, <2>3
<1>27. CASE DestroyTurnsOff
  <2>1. /\ looper' \in Destroys
        /\ looper.at = "off" /\ looper'.at = "noTunnel" /\ looper'.tunnel = looper.tunnel
        /\ native' \in [Handles -> Nullable]
        /\ \A h \in Handles : native'[h] = IF h = looper.handle THEN NoTunnel ELSE native[h]
    BY <1>27, DestroyLineKeeps DEF DestroyTurnsOff, wgTurnOff, Destroying
  <2>2. UNCHANGED <<currentTunnel, currentConfig, currentTunnelHandle, told, call, crossed>>
    BY <1>27 DEF DestroyTurnsOff, fields
  <2>3. AndroidTypeOK'
    BY <1>27 DEF DestroyTurnsOff, android, AndroidTypeOK
  <2> QED
    BY <2>1, <2>2, <2>3
<1>28. CASE DestroyClears
  <2>0. AndroidTypeOK' /\ UNCHANGED <<native, told, call, crossed>>
    BY <1>28 DEF DestroyClears, android, AndroidTypeOK
  <2>1. CASE DestroyLine("noTunnel", "noHandle") /\ WriteTunnel(NoTunnel)
    <3>1. looper' \in Destroys /\ looper.at = "noTunnel" /\ looper'.at = "noHandle"
          /\ looper'.tunnel = looper.tunnel /\ looper'.handle = looper.handle
      BY <2>1, DestroyLineKeeps DEF Destroying
    <3>2. currentTunnel' = NoTunnel /\ UNCHANGED <<currentTunnelHandle, currentConfig>>
      BY <2>1 DEF WriteTunnel
    <3> QED
      BY <2>0, <3>1, <3>2
  <2>2. CASE DestroyLine("noHandle", "noConfig") /\ WriteHandle(-1)
    <3>1. looper' \in Destroys /\ looper.at = "noHandle" /\ looper'.at = "noConfig"
          /\ looper'.tunnel = looper.tunnel /\ looper'.handle = looper.handle
      BY <2>2, DestroyLineKeeps DEF Destroying
    <3>2. currentTunnelHandle' = -1 /\ UNCHANGED <<currentTunnel, currentConfig>>
      BY <2>2 DEF WriteHandle
    <3> QED
      BY <2>0, <3>1, <3>2
  <2>3. CASE DestroyLine("noConfig", "tell") /\ WriteConfig(NoConfig)
    <3>1. looper' \in Destroys /\ looper.at = "noConfig" /\ looper'.at = "tell"
          /\ looper'.tunnel = looper.tunnel /\ looper'.handle = looper.handle
      BY <2>3, DestroyLineKeeps DEF Destroying
    <3>2. currentConfig' = NoConfig /\ UNCHANGED <<currentTunnel, currentTunnelHandle>>
      BY <2>3 DEF WriteConfig
    <3> QED
      BY <2>0, <3>1, <3>2
  <2> QED
    BY <1>28, <2>1, <2>2, <2>3 DEF DestroyClears
<1>29. CASE DestroyTells
  <2>1. /\ looper' \in Destroys
        /\ looper.at = "tell" /\ looper'.at = "renew"
        /\ told' \in [Tunnels -> {"UP", "DOWN"}]
        /\ \A t \in Tunnels : told'[t] = IF t = looper.tunnel THEN "DOWN" ELSE told[t]
    BY <1>29 DEF DestroyTells, NoDestroy, Destroys, Nullable
  <2>2. UNCHANGED <<currentTunnel, currentConfig, currentTunnelHandle, native, call, crossed>>
    BY <1>29 DEF DestroyTells, fields
  <2>3. AndroidTypeOK'
    BY <1>29 DEF DestroyTells, android, AndroidTypeOK
  <2> QED
    BY <2>1, <2>2, <2>3
<1>30. CASE DestroyRenews
  <2>1. /\ looper' \in Destroys
        /\ looper.at = "renew" /\ looper'.at = "idle"
    BY <1>30 DEF DestroyRenews, NoDestroy, Destroys, Nullable
  <2>2. UNCHANGED <<currentTunnel, currentConfig, currentTunnelHandle, native, told, call, crossed>>
    BY <1>30 DEF DestroyRenews, fields
  <2>3. AndroidTypeOK'
    BY <1>30 DEF DestroyRenews, android, AndroidTypeOK
  <2> QED
    BY <2>1, <2>2, <2>3
<1>31. CASE UNCHANGED vars
  <2>1. UNCHANGED <<currentTunnel, currentConfig, currentTunnelHandle, native, told, call, looper, crossed>> /\ AndroidTypeOK'
    BY <1>31 DEF vars, fields, android, AndroidTypeOK
  <2> QED
    BY <2>1
<1> QED
  BY <1>1, <1>2, <1>3, <1>4, <1>5, <1>6, <1>7, <1>8, <1>9, <1>10, <1>11, <1>12, <1>13, <1>14,
     <1>15, <1>16, <1>17, <1>18, <1>19, <1>20, <1>21, <1>22, <1>23, <1>24, <1>25, <1>26, <1>27,
     <1>28, <1>29, <1>30, <1>31
  DEF Next, setState, VpnService, onDestroy

LEMMA Invariance == Spec => []Inv
<1>1. Inv /\ [Next]_vars => Inv'
  BY NextInv
<1> QED
  BY <1>1, InitInv, PTL DEF Spec

-----------------------------------------------------------------------------
(***************************************************************************)
(* The theorems.                                                           *)
(***************************************************************************)

\* GoBackend, its caller and its service keep their types.
THEOREM TypeCorrect == Spec => []TypeOK
<1>1. Inv => TypeOK
  BY DEF Inv
<1> QED
  BY <1>1, Invariance, PTL

\* No native tunnel is left running without a reference that will close it,
\* until a tunnel comes up across an onDestroy.
THEOREM NativeAlwaysOwned == Spec => []NativeOwned
<1>1. Inv => NativeOwned
  BY DEF Inv, Agree, NativeInv, Owned, NativeOwned
<1> QED
  BY <1>1, Invariance, PTL

\* Between calls fields, wireguard-go and listener agree on the current tunnel,
\* until a tunnel comes up across an onDestroy.
THEOREM AtRestConsistent == Spec => []AtRest
<1>1. Inv => AtRest
  <2> SUFFICES ASSUME Inv, Rest, ~crossed
               PROVE  /\ currentTunnel = NoTunnel <=> currentTunnelHandle = -1
                      /\ currentTunnel = NoTunnel <=> currentConfig = NoConfig
                      /\ currentTunnel # NoTunnel => native[currentTunnelHandle] = currentTunnel
                      /\ \A t \in Tunnels : told[t] = "UP" <=> currentTunnel = t
    BY DEF AtRest
  <2>1. Agree /\ call.at = "idle" /\ looper.at = "idle"
    BY DEF Inv, Rest
  <2> QED
    BY <2>1, TunnelAssumption DEF Agree, FieldInv, NativeInv, ToldInv, Destroying
<1> QED
  BY <1>1, Invariance, PTL

\* A tunnel set DOWN is not current when the call returns, until a tunnel
\* comes up across an onDestroy.
THEOREM DownIsDown == Spec => DownUnlessCrossed
<1>1. Inv /\ [Next]_vars => [DownInVain => crossed]_vars
  <2> SUFFICES ASSUME Inv, [Next]_vars, DownInVain, ~crossed PROVE FALSE
    OBVIOUS
  <2>1. /\ call.op = "DOWN" /\ call.at \in Downs /\ call'.at = "idle"
        /\ currentTunnel' = call.tunnel /\ currentTunnel' # NoTunnel
    BY TunnelAssumption DEF Inv, CallInv, DownInVain
  <2>2. TypeOK /\ FieldInv
    BY DEF Inv, Agree
  <2>3. CASE setState
    <3>1. TakeDown \/ TellDown
      BY <2>1, <2>2, <2>3, LineKeeps DEF setState, SetUp, ReadOriginal, TestCurrent, PickCurrent,
         SetDown, ReadHandle, Forget, Close, Stop, BringUp, StartService, GetService, NoService,
         SetOwner, CheckHandle, Build, Assign, CheckActive, Publish, Notify, Downs, Line, TypeOK, Calls
    <3>2. CASE TakeDown
      <4>1. currentTunnelHandle = -1
        BY <2>1, <2>2, <3>2, LineKeeps DEF TakeDown, Places, Downs
      <4> QED
        BY <2>1, <2>2, <3>2, <4>1 DEF TakeDown, fields, FieldInv
    <3>3. CASE TellDown
      BY <2>1, <2>2, <3>3 DEF TellDown, fields, FieldInv, TunnelGone
    <3> QED
      BY <3>1, <3>2, <3>3
  <2>4. CASE call' = call
    BY <2>1, <2>4 DEF Downs
  <2> QED
    BY <2>3, <2>4 DEF Next, VpnService, onCreate, AlwaysOn, Dies, onDestroy, DestroyReads,
       DestroyTests, DestroyReadsHandle, DestroyTurnsOff, DestroyClears, DestroyTells,
       DestroyRenews, Unbind, Revoke, vars
<1> QED
  BY <1>1, Invariance, PTL DEF Spec, DownUnlessCrossed

=============================================================================
