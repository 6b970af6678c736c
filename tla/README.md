# Formal models of Tunnexa Android

Tunnexa is an Android VPN client: a Compose user interface on top of two tunnel
engines, the OpenVPN service of *OpenVPN for Android* (`de.blinkt.openvpn`) and
the WireGuard backends (`com.wireguard.android`). The modules here model the
parts of it in which several threads or processes must agree, check them with
TLC on small instances, and prove the central facts with TLAPS for all
instances.

Paths below are relative to `src/app/src/main/java/`; `core/` stands for
`de/blinkt/openvpn/core/`.

## 1. Inventory

| Part | State | Operations | Who calls it | What is hard | What makes it correct |
|---|---|---|---|---|---|
| Hold handshake (`core/OpenVpnManagementThread`) | `mWaitingForRelease`, `lastPauseReason`, posted `mResumeHoldRunnable` | pause, resume, networkChange, handleHold, releaseHoldCmd | looper, binder threads, management thread, no common lock | interleavings around a flag, a sleep between decision and write, commands and lines in flight | no hold is forgotten; a release follows when it is wanted |
| Pause control (`core/DeviceStateReceiver`) | `network`, `screen`, `userpause`, last network, disconnect timers | broadcasts, disconnect timer, userPause, updateByteCount | looper, binder, management thread | three reasons to pause with grace periods, stale tests | runs when all three agree, tells the right reason |
| Management interface, the rest | list `active`, `mShuttingDown`, socket | openManagementInterface, stopOpenVPN, NEED-OK and password requests, proxy, signing | service threads | a list of live and dead threads, result of the last one only, a socket that is null until the accept | a stop reaches every process that has been accepted |
| Service lifecycle (`core/OpenVPNService`, `OpenVPNThread`, `keepVPNAlive`, `LaunchVPN`) | `mProcessThread`, `mManagement`, `mDeviceStateReceiver`, `mStarting`, `mProfile`, alive job | onStartCommand, startOpenVPN, stopVPN, onRevoke, endVpnService, onDestroy | looper, command thread, one process thread per session, binder | a session ends while its successor starts | one session at a time; its end cleans up itself only |
| Status (`core/VpnStatus`, `OpenVPNStatusService`, `StatusListener`) | last state and level, listeners, log, byte counts | updateStateString, addStateListener, registerStatusCallback | every thread; mirrored into other processes | snapshot followed by registration, callbacks, reconnects | a mirror ends up with the last state |
| Profiles (`core/ProfileManager`) | files `.vp` (`.cp` only with encryption, which this build has off), versions | saveProfile, get, notifyProfileVersionChanged | two processes | crash after the file is truncated and before it is written | a complete version survives |
| Routes (`core/NetworkSpace`, `CIDRIP`) | none (an algorithm) | getPositiveIPList | openTun | boundaries of address ranges | included minus excluded addresses, no overlap |
| Traffic history (`core/TrafficHistory`) | second, minute and hour lists | add | status | pruning at two scales | no traffic is counted twice or lost |
| WireGuard userspace (`com/wireguard/android/backend/GoBackend`, `cpp/libwg-go`) | current tunnel, handle and config, service future, native handles | setState, VpnService onCreate/onStartCommand/onDestroy, wgTurnOn/Off | callers, looper | a service destroyed late, reuse of handles, failure half way | no native tunnel without an owner |
| WireGuard wg-quick (`WgQuickBackend`, `RootShell`) | running configurations, shell | setState, run | callers | several tunnels, roll-back | roll-back restores what ran |
| Server list (`com/tunnexa/android/data`, `ServerViewModel`) | cache with expiry, UI state | getServers, refresh, clear | coroutines | cached and fresh answers in flight together | the newest list wins |
| Registration (`SplashViewModel`, `SecurePreferencesManager`) | token, device id | register, verify | coroutine | failure half way | no screen without a valid token |
| Screens, configuration text, remote API | - | - | - | layout, text, permission dialogs | not modelled |
| LZO1X codec (`cpp/lzo/minilzo`) | none between packets | lzo1x_1_compress, lzo1x_decompress_safe | OpenVPN, once per packet | several forms of instructions with overlapping fields, boundaries of lengths and offsets, unchecked output | what is written is read back, within the promised size |
| Other LZO algorithms, OpenVPN glue, keys and parsers | - | - | - | third-party | not modelled |

The home screen's connect button changes its own `isConnected` only; neither
engine is started from it. The engines are therefore modelled with the callers
their own interfaces allow (intents, broadcasts, binder).

## 2. Plan

The modules, in the order in which they were written:

1. `HoldProtocol`, `PauseControl`: the pause and resume of OpenVPN, the most
   concurrent part, with the refinement between the two.
2. `GoBackend`: the WireGuard userspace backend.
3. `VpnServiceLifecycle`: the threads of OpenVPNService, the list `active`,
   replacement, revocation, the keep-alive job. It meets the hold handshake
   only in start and stop, so the two are not composed.
4. `StatusFeed`, `StatusMirror`: what clients may rely on, and VpnStatus with
   OpenVPNStatusService and StatusListener implementing it.
5. `Lzo1x`: the codec the native part of the program runs on every packet.
6. `NetworkSpace`: the algorithm that makes the list of routes.

Each has an MC module, and the first five have a module of theorems. What is
left is in section 6.

## 3. Modules

* **HoldProtocol** - OpenVpnManagementThread and the OpenVPN process. OpenVPN
  stops in a *hold* at each (re)start, writes `>HOLD` and waits for
  `hold release`. `waiting`, `lastPauseReason`, `resumeTimers` are the fields
  and the posted runnables; `inbox` and `outbox` the two directions of the
  socket; `mgmt` is where the management thread is inside `handleHold` or
  `updateByteCount`; `call[t]` is the next line of thread `t` in `pause`
  (WriteReason, CancelResume, TestSignal, WriteUsr1), in `networkChange`
  (TestChange, WriteRebind), in `releaseHold` and `releaseHoldCmd` (TestRelease,
  RemoveTimers, Wake after the sleep, Send) or in `resume` (ResetReason). There is
  no lock, so each access to a shared field is an action: another thread may
  come in between a test and the write that follows it. What the pause callback
  answers is a parameter. OpenVPN itself (`Ovpn...`) is external, modelled from
  the way it is used: SIGUSR1 leads to a hold, a release to a running state, it
  restarts by itself, and a release without a hold is ignored. What `VpnStatus`
  shows of it belongs to StatusMirror.
* **PauseControl** extends it with DeviceStateReceiver: the three connectState
  fields, the disconnect timers, the broadcasts, `userPause`, the traffic
  callback, and `shouldBeRunning`, which the management thread asks field by
  field. `task[t]` is where thread `t` is inside a handler, with the value of
  `wereConnected` or `connected` it has stored: userPause(false) is UserResumes,
  UserCleared, TestResume, PauseWithReason and then the lines of `pause` or
  `resume`; SCREEN_ON is ScreenOn, ScreenIsOn, ScreenCompare, ScreenStill; the
  low-traffic pause LowTraffic, TrafficScreenOff, PauseOnLowTraffic. `Callers` are
  the threads: `Main` runs the looper's messages, the others call userPause
  through the binder; `Reader` is the management thread. Up to the operation it
  calls, `networkStateChange` is one action: of the fields it reads, only
  `screen` is written by the management thread, and what that makes of it the
  handler makes of it too. A binder thread could come in there, but what is
  claimed with binder threads (`NoLostHold`) does not depend on the fields. The
  preferences are sets of the values they may have, because they are read anew at
  each broadcast. The byte counts are abstracted to "below the limit or not".
* **MCPauseControl** - constants and symmetry for TLC.
* **PauseControlProofs** - the theorems, section 5.

* **GoBackend** - the WireGuard userspace backend. `call` is where the caller is
  in `setState` and `setStateInternal` with their local variables: SetUp (with
  ReadOriginal, TestCurrent, PickCurrent) or SetDown, then TakeDown, ReadHandle,
  Forget (one field at a time), Close, Stop, TellDown for the tunnel that is up,
  then BringUp, StartService, GetService, SetOwner, CheckHandle, Build, Assign,
  CheckActive, Publish (one field at a time), Notify for the new one; an exception
  (`Throw`) brings the earlier tunnel back once. `looper` is where `onDestroy` is,
  in as many steps. There is no lock, and none is assumed: the steps of the two
  interleave freely. `isDone` is the static future through which the service
  reaches the caller; `service`, `owned`, `held`, `started`, `bound` are Android's
  view: a service is created when started or bound, given up (`Dies`) when
  neither, and its `onDestroy` comes later, when a new tunnel may already be up.
  `native` is wireguard-go's table, which hands out the lowest free number again.
  `told` is the last `onStateChange`. There is one caller (the interface names no
  concurrent ones) on a thread of its own: it waits for the looper. `crossed` is
  history: a tunnel came up across an `onDestroy`, that is, setState stood
  between wgTurnOn and onStateChange(UP) while `onDestroy` held a tunnel it had
  found current.
* **MCGoBackend**, **GoBackendProofs** - its constants for TLC, its theorems.

* **VpnServiceLifecycle** - OpenVPNService from the start request to
  `onDestroy`. A *session* is one pass through `startOpenVPN`: a process, a
  thread that reads its output, a thread that serves its management socket, a
  receiver. `commands` is the queue of the command thread and `starter` its
  place in `startOpenVPN` (SignalOld, ForceStop, ForceStopOver, OpenManagement,
  Launch, Configure); `swaps` are the exchanges of receivers it posts to the
  looper. `ender[e]` is the place of a thread in `endVpnService`, which the
  thread of a session, a failed start and `onRevoke` run (EndProcess,
  EndReceiver, EndForgets, EndStops). `thread`, `process`, `manager`, `socket`,
  `peer` are a session's threads, process and connection, `active` the static
  list of management threads. `mProcessLock` is modelled by `LockFree`: it is
  held across steps only by the command thread that sleeps in
  `forceStopOpenVpnProcess`. Android's side is `started`, `destroyed` and
  `Crash`. Time is left out: a sleep ends and a process dies at any time, so
  what `stopVPN` returns, which decides one sleep, is not modelled. The intents of
  `onStartCommand` that pause and resume are PauseControl's. Left out are also
  levels, the notification, OpenVPN3 and a second instance of the service.
* **VpnServiceLifecycleProofs** - its theorems.

* **StatusFeed** - an abstract specification: updates are published in order; a
  client joins at some place, may be greeted with some state, and then is shown
  every update that follows, except that a client that has not taken one yet
  passes over what its own state hides.
* **StatusMirror** - the code. `updateStateString` (with the filter that hides
  WAIT and AUTH from a VPN that is connected) calls the service's `updateState`,
  which keeps the message and posts it to the looper; `handleMessage` calls every
  client in `mCallbacks`; `registerStatusCallback` is two actions, SendsLast
  and Registers, because the looper may run between them. `inbox` holds calls
  on their way, `shown` is the VpnStatus of a client. Service and clients may
  die; the list is static, so `killed` outlives the service in a process that
  goes on. `feed`, `heard` and `agrees` are history: they say at which place of
  the feed each client is. The refinement is
  `INSTANCE StatusFeed WITH place <- heard, member <- Member`.
* **StatusMirrorProofs** - its theorems.

* **Lzo1x** - `lzo1x_1_compress` and `lzo1x_decompress_safe`. The compressor
  takes its input in chunks (`Chunk`, 49 152 bytes, the reach of a 16-bit
  dictionary); in a chunk a `Match` is some literals and a length and offset to
  copy. `out` is the stream, byte by byte but for literals: n of them are one cell
  -n. `MatchCode` and `LiteralCode` are the bytes written, `Instruction`
  (M1 to M4) what the decompressor reads from them; `left` and `room` are what
  NEED_IP and NEED_OP test. `Deliver` passes the stream on, perhaps without its
  last bytes, to a decompressor whose buffer is perhaps too small. Where the
  search finds a match is a choice over `Gaps`, `Lengths` and `Offsets`, a
  superset of what the hash table gives. The same code is in `lzo1x_c.ch` and
  `lzo1x_d.ch`, from which the linked library is built. M1 instructions, which
  this compressor never writes, are read all the same. The results
  LZO_E_LOOKBEHIND_OVERRUN and LZO_E_INPUT_NOT_CONSUMED need a damaged stream
  and do not occur here; the tests for lengths near the end of an integer and
  the copying by words are left out.
* **Lzo1xProofs** - the size of the stream and the reading back of one match.
* **Lzo1xRoundTrip** - the reading back of the whole stream, its bounds and types.

* **NetworkSpace** - `generateIPList`, one iteration of its loop per step:
  `networks` is the priority queue as a bag (equal elements come in any order,
  as the library says), `currentNet` and `ipsDone` are the local variables. The
  branches of the loop are Done, Forget, SplitNext, Ignore and SplitCurrent;
  an assertion that fails in a debug build is Throws. An address has `BITS`
  bits, a mask that is longer than the address leaves one address, as
  `getMaskedAddress` has it; `Pow2` is the value of one bit. `twins` is history.
* **NetworkSpaceProofs** - its theorems.

Definitions whose comment begins with "Mutant" restate one definition with a
mistake in it. No specification uses them; they are there to see each property fail.

## 4. Runs

| Run | Instance | Shows |
|---|---|---|
| `pause_binder` | looper and one binder thread, screen pauses, both values of ignorenetstate, resume at any time, 1 network and 1 copy of each timer, 4.6 million states | `TypeOK`, `NoLostHold` hold with two threads and the management thread racing line by line |
| `pause_looper` | looper only, screen pauses, 2 networks, 2 copies of each timer, 2.0 million states | `ReleasePending`: a VPN that should run and is on hold has its release under way |
| `pause_reconnects` | looper only, no screen pauses, fair, 0.44 million states | `UserReasonKept`, `ReleasedOnlyIfWanted`, and `Reconnects`: a VPN that should run comes up after every hold |
| `pause_same_network` | looper only | the comment on `networkChange(true)` does not hold: a paused VPN is released |
| `pause_redundant_resume` | looper only, resume at any time | a resume of a running VPN removes its retry timer: on hold for ever |
| `go_states` | 2 tunnels, 2 configurations, 0.66 million states | `NativeOwned`, `AtRest`, `DownUnlessCrossed`: until a tunnel comes up across an `onDestroy`, no native tunnel is orphaned, backend, wireguard-go and listener agree in both directions, and a DOWN is a DOWN |
| `go_overlap` | the same | `DownMeansDown`, which makes no exception, fails: a tunnel can end up current with handle -1, and can never be taken down |
| `life_session` | 1 profile, 2 sessions, 3 starts, revocations or crashes, 4.8 million states | `ProcessThreadLive`, `Reachable`, `StopsAtTheEnd`: a session that ends while its successor starts leaves no ended thread in `mProcessThread`, hides no accepted OpenVPN process from a stop, and the service stops in the end |
| `status_mirror` | 1 client, 3 updates, 1 death, 0.27 million states | `MirrorsStatus`, and `ImplementsFeed`: the service implements StatusFeed, its liveness included |
| `lzo_stream` | sizes, lengths and offsets at both sides of each boundary, 1.4 million states | `WorstCase`, `RoundTrip`, `InBounds` |
| `routes_list` | all sets of up to 4 networks of 3-bit addresses, 0.4 million states | `Covers` (but for `Sandwich` and `twins`, below), `Separate`, `AssertsHold`, `Terminates` |
| `routes_asserts` | up to 3 networks, a debug build | an assertion of `generateIPList` fails |

Bounds. `MaxInFlight` = 3 limits what callers and OpenVPN add to the socket on
their own account (answers are never limited, nor is a handler that has begun):
enough for two signals and a line to cross, from which stale HOLD lines and a
flag without a hold arise. `MaxResume` = 2 and `MaxDisconnect` = 2 copies of a
runnable are the least for an older copy to fire in the place of a newer one. Two
networks are the least for "same" and "different"; they are only compared, hence
the symmetry, which the liveness run does not use. `pause_binder` trades these
bounds for its second caller: with 1, a handler begins on an empty socket, but
three threads may be inside handlers at once; `HoldNeverLost` is proved for any
bounds.

For GoBackend two tunnels and two configurations are the least for "another
one"; `MaxHandle` = 1 gives wireguard-go two numbers, and at most two native
tunnels can exist at a time (one being closed or leaked, one coming up).

For the lifecycle two sessions are the least for one to replace another, and
three events let a start, a start and a revocation or a crash meet. Profiles are
only compared; one is enough for a request that must not replace the running VPN.
The rest (`AlwaysOn`, `AlwaysVisible`) are settings, off in the run; the theorems
hold for all of it. The mirror has one client, because the service treats each
by itself (the theorems are for any number); three updates let one fall before,
between and after the two steps of a registration, and one death is that of the
service or of the client. In the codec the sets hold lengths and offsets at both
sides of the limits of M2, M3 and M4 (8, 33, 9; 2048, 16384) and one with a zero
byte, the longest match a search at the end of its range can return (12 bytes, of
which 11 lie behind the range), runs of literals of each form, and inputs of none,
of a few bytes, at the limit for a short first run (238) and of two chunks. Routes
need three networks for each of the two mistakes below and get four; 3 bits give
every network a parent, halves and neighbours, and the two ends of the space.

`CHECK_DEADLOCK FALSE` is set where the program ends: a service that is
destroyed, a stream that is read, a list that is made.

What the code does and no property denies. The models made the following
visible; where a property has to except it, it does so by name.

* SCREEN_ON while a disconnect is pending pauses with the user's reason
  (`getPauseReason` falls through to it).
* A tunnel that comes up across an `onDestroy` (`crossed`) may lose its handle, may
  be turned off while it stays current, or may leave the listener with UP for a
  tunnel that is down. `go_overlap` shows the first.
* A userPause(false) on a binder thread that finds the network down goes on to
  `pause()`. If the looper sees the network come back first, and the management
  thread posts the retry, that `pause()` removes it and sends nothing: on hold,
  with nothing pending.
* A pause on another thread during the sleep of `releaseHoldCmd` is overtaken by
  the release, and its reason by the last line of `resume()`.
* `updateByteCount` tests `screen` lines before it writes it: a SCREEN_ON in between
  is lost and the VPN stays paused. If the user has switched the preference
  `screenoff` meanwhile, the write can also fall between lines 155 and 156 of
  SCREEN_ON, which then sees no change and releases nothing. Its reason may have
  been computed before the user paused, and is then shown in the place of his.
* A stop between OpenVPN's connect and the management thread's accept finds no
  `mSocket`: nothing is sent, and that stop is lost.
* The thread of a replaced session runs `endVpnService` after its successor was
  launched, because `mOpenVPNThread` is never assigned and nobody sets
  `mNoProcessExitStatus`: it takes the new session's thread out of
  `mProcessThread`, its receiver out of `mDeviceStateReceiver` and its keep-alive
  job out of the scheduler. `onDestroy` then leaves that session running, and a
  VPN that dies is not restarted. An exchange of receivers between EndReceiver and
  EndForgets leaves a receiver registered for good.
* `mProfile` survives the end of its session, so a start that must not replace
  a running VPN is ignored when none runs; the service stays started
  (`turnedAway`).
* If the process cannot be started at all, the future through which
  `startOpenVPN` waits for its input throws an exception nobody catches; this
  is `Crash`.
* A status client may miss the update between SendsLast and Registers. One that
  was left CONNECTED by a service that died passes over WAIT and AUTH. Both
  end with the next update it takes. A list of clients that was killed with the
  service, in a process that lives on, calls nobody again.
* The list of routes is wrong on two kinds of input. `Sandwich`: a network with
  the first address of its parent, inside a third network of its own type, is
  ignored as a part of the third (0.0.0.0/0 included, 10.0.0.0/8 excluded,
  10.0.0.0/24 included: the last is lost). `twins`: a half that was split off is
  queued beside an equal network of the other type (`SplitCurrent` does not look,
  `SplitNext` does); with 0.0.0.0/0 included and 64.0.0.0/2, 128.0.0.0/1 and
  128.0.0.0/2 excluded the order of equal elements decides, and a debug build
  throws. `Covers` and `AssertsHold` say that nothing else goes wrong.

Preconditions, and why. `ReleasePending` is claimed with the looper as the only
caller (the notification's buttons; see the race with a binder thread above), with
`ignorenetstate` off (with it on, a HOLD handled before the receiver is registered
is answered by nobody), with a `screenoff` that does not change, and with resume
offered to a paused user only (`pause_redundant_resume` shows what happens
otherwise). `UserReasonKept` and `ReleasedOnlyIfWanted` need the looper as the only
caller and the screen preference off; `Reconnects` is checked with all of these.
`NoLostHold` needs nothing. `NativeOwned`, `AtRest` and `DownUnlessCrossed` hold until a tunnel comes
up across an `onDestroy`; this is a condition on the history of a run, not on
the scheduling: all interleavings are in the model, and every one that is short
of it is covered. `Reachable` speaks of connections that were accepted. `Covers`
excepts `Sandwich` and `twins`.

Fairness. The threads go on with a call they are in, the management thread
reads on, OpenVPN answers (weak fairness). The looper runs runnables that are
due between broadcasts that keep coming (strong fairness, as its queue
guarantees). Broadcasts, pauses, the first registration aside, and failures of
the connection are never required to happen. For the mirror the looper handles
what was posted and the binder delivers the calls that were made (weak fairness
of `handleMessage` and `Takes`); updates, registrations and deaths are free. The
loop of `generateIPList` goes on.

## 5. Proofs

All of `PauseControlProofs` is checked by TLAPS, from the assumptions on the
constants only (`Main` is a caller, bounds are natural numbers, `NoNet` is no
network), for any set of threads and networks and any bounds:

* `HoldTypeCorrect`, `TypeCorrect`: types.
* `HoldNeverLost`: `HoldSpec => []NoLostHold`. With the types, the invariant is
  inductive: a hold is recorded by a HOLD line, by the flag that replaces it,
  by the caller that has cleared the flag, by the command it has written; each
  action hands it from one to the next. No step relies on two lines being
  executed together.
* `Implements`: `Spec => HoldSpec`, every step of a handler is a step of one
  operation of the protocol or none; `PauseNeverLosesHold` follows.
* `ReleaseAlwaysPending`, assuming `CertainResume` (the preconditions above).
  Inductive together with `NoLostHold`, which is needed where a caller finds the
  flag down and does nothing: then somebody else has the hold in hand. The
  rest says what a thread between two lines may rely on: the looper pauses
  only a VPN that should not be connected (`UnwantedInv`), the management thread
  has no test of `screen` behind it while SCREEN_ON has found the VPN as it should
  be (`ScreenInv`), and when it pauses, a hold still has its HOLD unread
  (`InboxInv`).
* `UserReasonAlwaysKept`, assuming `Quiet` (the looper alone, the screen
  preference off): strengthened by "no resume() is under way while the user
  pauses", up to the lines that have begun.
* `ReleasedAsWanted`, assuming `Quiet`: strengthened by "a release under way is
  wanted".

`GoBackendProofs`, for any tunnels, configurations and number of handles and every
interleaving: `TypeCorrect`, `NativeAlwaysOwned`, `AtRestConsistent` and the action
property `DownIsDown` (`DownUnlessCrossed`), all from one invariant `Inv`. Between calls
`AtRest` is what is wanted, but it says nothing of a call under way, so `Inv`
adds what is known at each line of setState and of `onDestroy`, for both at once,
as long as no tunnel has crossed (`Agree`): which of the three fields are set
when both may be half way through clearing them (`FieldInv`), that what each has
read is what it will find or is gone (`ReadInv`), who holds each native tunnel
(`NativeInv`), and what each tunnel was told or is about to be told (`ToldInv`). That
a setState(DOWN) never gets to the lines that bring a tunnel up holds without the
exception (`CallInv`).

`VpnServiceLifecycleProofs`, for any profiles, numbers of sessions and events, and
for both values of the settings:

* `TypeCorrect`.
* `ProcessThreadAlwaysLive`. Inductive only with what is known of the threads
  (`ThreadInv`): a session's thread is "ending" exactly while it is in
  `endVpnService`, and nothing of a session exists before it is launched.
* `StopReachesAll`, for connections that were accepted. The invariant behind it says
  where a connected process is:
  with a management thread that is new, or in the list while it accepts or reads;
  one that is gone has no live process behind it that was not told to end
  (`ManagerInv`).
* `ServiceStopsAtTheEnd`. Added to it: while the service is started and no start
  was turned away, somebody is left who will stop it: a request in the queue, the
  command thread, a thread that runs or ends.

`StatusMirrorProofs`, for any clients and bounds: `TypeCorrect`; `MirrorIsTrue`;
`ImplementsFeedSafely`, that `StatusMirror` implements StatusFeed but for its
fairness. The central invariant is that what is in a client's `inbox` and in
`posted` are exactly the places of `feed` after the one it heard, in order,
preceded at most by the greeting; the state a client has after the greeting and
the filter of VpnStatus then make the two filters hide the same updates.

`Lzo1xProofs`, for any sizes, gaps, lengths and offsets:

* `StreamIsBounded`, the bound of LZO.FAQ. 16 times the bytes written never
  exceed 17 times the bytes read, with a constant for the pending literals and
  the end (`SizeInv`); the lemmas bound each form of instruction.
* `MatchIsReadBack`: every match that may be written is read back with its length,
  offset and number of bytes, is not taken for the end marker, and the literals
  announced in its low bits are read back too, whatever its form. It rests on
  lemmas on quotients and remainders.

`Lzo1xRoundTrip`, for any sizes, gaps, lengths and offsets and any loss at the end:
`RoundTripHolds`, `StaysInBounds` and `CodecIsTyped`, from one invariant,
`CodecInv`. `RoundTrip` compares two lists of tokens and says nothing of the bytes
between them, so the invariant states the layout of the stream: for each token
the cell where its code begins and the bytes and the output before it (`Layout`).
While the compressor runs, the stream is exactly the code of the tokens so far.
The delicate step is a match with 1 to 3 literals before it: it alters a byte that
was written before, and the lemmas `FoundBefore`, `AnnouncedIsLow` and
`PutAdds` show that this changes the announcement of the previous token and
nothing else. While the decompressor runs, it stands at the code of the token
after those it has carried out, has read and written as many bytes as the layout
says, and `t` or `run` is the number of literals announced for it (`ReadsAt`);
NEED_IP and NEED_OP then fail exactly at the first token that does not fit. One
lemma per action (`MatchKeeps`, `FirstKeeps`, ..., `ReadMatchKeeps`) keeps `CodecInv`.

`NetworkSpaceProofs`, for addresses of any length, any number of networks and debug
builds or not:

* `NetworkSpaceIsTyped` and `DoneIsSeparate`, from `SweepInv`: the loop sweeps the
  addresses upwards. No queued network begins before the current one, what is done
  lies before it, and an overlong network (half of a single address, which only
  two equal networks of different types lead to) begins after it and is therefore
  never split. That needs the networks to be nodes of a binary tree: two that
  share an address lie one in the other (`Laminar`).
* `AssertionsHold`, from `TidyInv`: until a half was queued beside an equal network
  of the other type, no two networks that are left have the same range, and the
  current one is the first of them in the order of the queue. `SplitNext` keeps
  this because it asks whether a half is there already; `SplitCurrent` does not
  ask, and `twins` records the very case in which it matters.
* `ListCovers`, for inputs without a sandwich and as long as there are no twins, from
  both and `SandwichInv`: a step makes no sandwich (a network
  of one type, whose beginning and whose surroundings are networks of the other)
  that the input did not have. The smallest network around an address stays the same,
  is replaced by its half, or is dropped for one of the same type
  (`ForgottenSame`, `IgnoredSame`, `HalvedSame`).

The powers of two are a recursive function there. That its equation has a solution
(`Pow2Rule`) and what follows from it is proved by induction in the form of sets,
`EveryNatural`, which follows from the library's theorem that a well-founded
order has minima: the induction theorems that take an operator cannot be used.

Only model-checked: `Reconnects`, `Terminates` and the liveness in `ImplementsFeed`
(liveness under fairness is beyond the prover). Every invariant and every action
property of the passing runs is proved. In particular the bounds of `lzo_stream`
and `routes_list` limit only these runs and the liveness they check.

## 6. Not modelled

* Profiles on disk (ProfileManager truncates the only copy before it writes the new
  one), the server list and its cache, registration and token,
  traffic history, the log cache file, the Orbot helper, WgQuickBackend and
  RootShell: state machines that could be modelled next, in this order.
* Generated configuration text and its parser, certificate and password dialogs,
  the remote API's permission database, keys, notifications, layout.
* The other LZO algorithms (lzo1, lzo1a, ... lzo2a), the test programs, headers
  for compilers and platforms, and OpenVPN's configuration headers. They are most
  of the C in the repository, none of it is run by the tunnel, and a model of them
  would be one of the LZO library. Hence the share of C lines the map covers is
  small: the program's own logic is in Java, Kotlin and Go.
* In the modelled parts: the contents of log lines, the lengths of periods (timers
  fire in any order and at any time), levels and listeners of VpnStatus, the
  test for GET_CONFIG it makes outside its lock, the parsing of masks and the use
  openTun makes of the routes, and what section 3 names.
