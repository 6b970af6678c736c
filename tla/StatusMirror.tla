----------------------------- MODULE StatusMirror -----------------------------
(***************************************************************************)
(* The status of the VPN (VpnStatus) and its mirror in other processes:     *)
(* OpenVPNStatusService listens to the VpnStatus of its process and calls   *)
(* the clients back; a client (StatusListener) feeds the calls to the       *)
(* VpnStatus of its own process.                                            *)
(*                                                                         *)
(* Every update of VpnStatus holds its lock.  The calls to the clients are  *)
(* made on the main looper from messages posted under the lock; they are    *)
(* "oneway": they arrive later, in the order they were made.  A client is   *)
(* registered on a thread of the binder, which sends it the last update and *)
(* then enters it into the list.                                            *)
(*                                                                         *)
(* An update is named by its state: CONNECTED; WAIT for WAIT and AUTH;      *)
(* NOPROCESS for all others.  Log lines, byte counts and profiles take the  *)
(* same way and are left out, and so are updates LaunchVPN makes in the     *)
(* process of a client and the test that keeps GET_CONFIG from following a  *)
(* request for the user's input.                                            *)
(***************************************************************************)
EXTENDS Naturals, Sequences

CONSTANTS
    Clients,       \* processes with a StatusListener
    MaxUpdates,    \* bound on the updates published while the process lives
    MaxFaults      \* bound on the deaths of processes

ASSUME MirrorAssumption == MaxUpdates \in Nat /\ MaxFaults \in Nat

States == {"NOPROCESS", "WAIT", "CONNECTED"}

VARIABLES
    mLaststate,    \* of VpnStatus in the process of the service
    running,       \* the service exists: it is a listener of VpnStatus
    killed,        \* mCallbacks was killed: the list is static
    mLastUpdateMessage,  \* its place in the feed, 0 for null
    posted,        \* messages of mHandler, by their places in the feed
    callbacks,     \* the clients in mCallbacks
    client,        \* "away", "bound", "sent", "registered"
    inbox,         \* calls on their way to a client: [state, at]
    shown,         \* mLaststate of each client
    feed,          \* history: the calls of updateState in this process
    heard,         \* history: the place of the last broadcast a client took
    agrees,        \* history: clients that show what they heard since they joined
    faults

serviceVars == <<running, killed, mLastUpdateMessage, posted, callbacks>>
clientVars == <<client, inbox, shown>>
historyVars == <<feed, heard, agrees>>
vars == <<mLaststate, serviceVars, clientVars, historyVars, faults>>

\* A VpnStatus that is connected ignores WAIT and AUTH.
Hides(old, new) == old = "CONNECTED" /\ new = "WAIT"

\* at is 0 for the update a client is greeted with
Call(state, at) == [state |-> state, at |-> at]
Calls == [state : States, at : Nat]

Init ==
    /\ mLaststate = "NOPROCESS"
    /\ running = FALSE /\ killed = FALSE /\ mLastUpdateMessage = 0
    /\ posted = <<>> /\ callbacks = {}
    /\ client = [c \in Clients |-> "away"]
    /\ inbox = [c \in Clients |-> <<>>]
    /\ shown = [c \in Clients |-> "NOPROCESS"]
    /\ feed = <<>> /\ heard = [c \in Clients |-> 0] /\ agrees = {}
    /\ faults = 0

-----------------------------------------------------------------------------
\* VpnStatus in the process of the service

\* Mutant: the message is posted before it is made.
MutantUpdateState(u) ==
    /\ Len(feed) < MaxUpdates
    /\ feed' = Append(feed, u)
    /\ mLastUpdateMessage' = Len(feed')
    /\ posted' = Append(posted, mLastUpdateMessage)

\* OpenVPNStatusService.updateState
updateState(u) ==
    /\ Len(feed) < MaxUpdates
    /\ feed' = Append(feed, u)
    /\ mLastUpdateMessage' = Len(feed')
    /\ posted' = Append(posted, Len(feed'))

\* Mutant: every update is published, and a client ignores what it likes.
MutantUpdateStateString(u) ==
    /\ mLaststate' = u
    /\ IF running THEN updateState(u)
       ELSE UNCHANGED <<mLastUpdateMessage, posted, feed>>

\* VpnStatus.updateStateString with a level
updateStateString(u) ==
    IF Hides(mLaststate, u)
    THEN UNCHANGED <<mLaststate, mLastUpdateMessage, posted, feed>>
    ELSE /\ mLaststate' = u
         /\ IF running THEN updateState(u)
            ELSE UNCHANGED <<mLastUpdateMessage, posted, feed>>

\* Any thread: a state line of OpenVPN, a pause, the end of the process
Update(u) ==
    /\ updateStateString(u)
    /\ UNCHANGED <<running, killed, callbacks, clientVars, heard,
                   agrees, faults>>

-----------------------------------------------------------------------------
\* The service

\* addStateListener calls the new listener with the present state.
onCreate ==
    /\ ~running
    /\ running' = TRUE
    /\ updateState(mLaststate)
    /\ UNCHANGED <<mLaststate, killed, callbacks, clientVars, heard, agrees,
                   faults>>

\* Nobody is bound any more. The process may go on.
onDestroy ==
    /\ running
    /\ \A c \in Clients : client[c] = "away"
    /\ running' = FALSE
    /\ killed' = TRUE
    /\ callbacks' = {}
    /\ UNCHANGED <<mLaststate, mLastUpdateMessage, posted, clientVars,
                   historyVars, faults>>

\* Mutant: only the latest of the messages that wait is broadcast.
MutantHandleMessage ==
    /\ posted # <<>>
    /\ LET i == posted[Len(posted)]
       IN  inbox' = [c \in Clients |-> IF c \in callbacks
                                       THEN Append(inbox[c], Call(feed[i], i))
                                       ELSE inbox[c]]
    /\ posted' = <<>>
    /\ UNCHANGED <<mLaststate, running, killed, mLastUpdateMessage, callbacks,
                   client, shown, historyVars, faults>>

\* mHandler calls every client of the list.
handleMessage ==
    /\ posted # <<>>
    /\ LET i == Head(posted)
       IN  inbox' = [c \in Clients |-> IF c \in callbacks
                                       THEN Append(inbox[c], Call(feed[i], i))
                                       ELSE inbox[c]]
    /\ posted' = Tail(posted)
    /\ UNCHANGED <<mLaststate, running, killed, mLastUpdateMessage, callbacks,
                   client, shown, historyVars, faults>>

-----------------------------------------------------------------------------
\* A client and its registration

Binds(c) ==
    /\ client[c] = "away" /\ running
    /\ client' = [client EXCEPT ![c] = "bound"]
    /\ UNCHANGED <<mLaststate, serviceVars, inbox, shown, historyVars, faults>>

\* registerStatusCallback sends the last update
SendsLast(c) ==
    /\ client[c] = "bound"
    /\ client' = [client EXCEPT ![c] = "sent"]
    /\ inbox' = IF mLastUpdateMessage = 0 THEN inbox
                ELSE [inbox EXCEPT ![c] =
                        Append(@, Call(feed[mLastUpdateMessage], 0))]
    /\ UNCHANGED <<mLaststate, serviceVars, shown, historyVars, faults>>

\* and then registers the client, which a list that was killed refuses.
Registers(c) ==
    /\ client[c] = "sent"
    /\ client' = [client EXCEPT ![c] = "registered"]
    /\ IF killed THEN UNCHANGED <<callbacks, heard>>
       ELSE /\ callbacks' = callbacks \cup {c}
            /\ heard' = [heard EXCEPT ![c] = Len(feed) - Len(posted)]
    /\ UNCHANGED <<mLaststate, running, killed, mLastUpdateMessage, posted,
                   inbox, shown, feed, agrees, faults>>

\* StatusListener.updateStateString, into the VpnStatus of the client
Takes(c) ==
    /\ inbox[c] # <<>>
    /\ LET call == Head(inbox[c])
           hidden == Hides(shown[c], call.state)
       IN  /\ shown' = IF hidden THEN shown
                       ELSE [shown EXCEPT ![c] = call.state]
           /\ heard' = IF call.at = 0 THEN heard
                       ELSE [heard EXCEPT ![c] = call.at]
           /\ agrees' = IF call.at = 0 \/ hidden THEN agrees
                        ELSE agrees \cup {c}
    /\ inbox' = [inbox EXCEPT ![c] = Tail(@)]
    /\ UNCHANGED <<mLaststate, serviceVars, client, feed, faults>>

-----------------------------------------------------------------------------
\* Deaths

Fault == faults < MaxFaults /\ faults' = faults + 1

\* RemoteCallbackList is told of the death of a client.
ClientDies(c) ==
    /\ Fault
    /\ client[c] # "away"
    /\ client' = [client EXCEPT ![c] = "away"]
    /\ inbox' = [inbox EXCEPT ![c] = <<>>]
    /\ shown' = [shown EXCEPT ![c] = "NOPROCESS"]
    /\ callbacks' = callbacks \ {c}
    /\ heard' = [heard EXCEPT ![c] = 0]
    /\ agrees' = agrees \ {c}
    /\ UNCHANGED <<mLaststate, running, killed, mLastUpdateMessage, posted, feed>>

\* The process of the service dies. Calls that were made still arrive, and the
\* clients keep their state (onServiceDisconnected).
ServiceDies ==
    /\ Fault
    /\ mLaststate' = "NOPROCESS"
    /\ running' = FALSE /\ killed' = FALSE /\ mLastUpdateMessage' = 0
    /\ posted' = <<>> /\ callbacks' = {}
    /\ client' = [c \in Clients |-> "away"]
    /\ inbox' = [c \in Clients |->
                   [i \in 1..Len(inbox[c]) |-> Call(inbox[c][i].state, 0)]]
    /\ feed' = <<>> /\ heard' = [c \in Clients |-> 0] /\ agrees' = {}
    /\ UNCHANGED shown

Next ==
    \/ \E u \in States : Update(u)
    \/ onCreate \/ onDestroy \/ handleMessage
    \/ \E c \in Clients :
         Binds(c) \/ SendsLast(c) \/ Registers(c) \/ Takes(c) \/ ClientDies(c)
    \/ ServiceDies

\* The main looper and the binder deliver what they have.
Spec ==
    /\ Init /\ [][Next]_vars
    /\ WF_vars(handleMessage)
    /\ \A c \in Clients : WF_vars(Takes(c))

-----------------------------------------------------------------------------
\* Every variable has a value of its kind.
FlagsOK == running \in BOOLEAN /\ killed \in BOOLEAN

TypeOK ==
    /\ mLaststate \in States
    /\ FlagsOK
    /\ mLastUpdateMessage \in 0..Len(feed)
    /\ posted \in Seq(Nat \ {0})
    /\ callbacks \subseteq Clients
    /\ client \in [Clients -> {"away", "bound", "sent", "registered"}]
    /\ inbox \in [Clients -> Seq(Calls)]
    /\ shown \in [Clients -> States]
    /\ feed \in Seq(States)
    /\ heard \in [Clients -> Nat]
    /\ agrees \subseteq Clients
    /\ faults \in 0..MaxFaults

\* When nothing is on its way, a client that took an update since it was
\* registered shows the state VpnStatus has (updateStateString, handleMessage,
\* registerStatusCallback): the two filters hide the same updates, and an update
\* from before the registration does not come last.
MirrorsStatus ==
    \A c \in agrees :
        posted = <<>> /\ inbox[c] = <<>> => running /\ shown[c] = mLaststate

\* What each client is to the feed
Member == [c \in Clients |-> IF c \notin callbacks THEN "out"
                             ELSE IF c \in agrees THEN "agrees" ELSE "joined"]

\* The service keeps the promise of StatusFeed: a client gets every update after
\* the place at which it joined, in order, and in the end the last one.
Feed == INSTANCE StatusFeed WITH place <- heard, member <- Member

ImplementsFeed == Feed!FeedSpec
=============================================================================
