-------------------------- MODULE StatusMirrorProofs --------------------------
(* Theorems about StatusMirror, for any clients and any bounds. *)
EXTENDS StatusMirror, Integers, TLAPS

\* How many messages mHandler has handled
Broadcast == Len(feed) - Len(posted)

-----------------------------------------------------------------------------
\* Types

\* The messages that wait are the last ones of the feed, in order.
PostedInv ==
    /\ Len(posted) <= Len(feed)
    /\ \A k \in 1..Len(posted) : posted[k] = Broadcast + k

TypeInv == TypeOK /\ PostedInv

\* An update is appended to the feed and to the messages.
LEMMA UpdateTypes ==
    ASSUME TypeInv, NEW u \in States, updateState(u)
    PROVE  /\ feed' \in Seq(States) /\ posted' \in Seq(Nat \ {0})
           /\ Len(feed') = Len(feed) + 1 /\ Len(posted') = Len(posted) + 1
           /\ mLastUpdateMessage' = Len(feed')
           /\ Broadcast' = Broadcast
           /\ \A k \in 1..Len(feed) : feed'[k] = feed[k]
           /\ feed'[Len(feed')] = u
           /\ PostedInv'
<1>1. /\ feed' = Append(feed, u) /\ posted' = Append(posted, Len(feed'))
      /\ mLastUpdateMessage' = Len(feed')
  BY DEF updateState
<1>2. feed \in Seq(States) /\ posted \in Seq(Nat \ {0})
  BY DEF TypeInv, TypeOK
<1>3. /\ feed' \in Seq(States) /\ Len(feed') = Len(feed) + 1
      /\ \A k \in 1..Len(feed) : feed'[k] = feed[k]
      /\ feed'[Len(feed')] = u
  BY <1>1, <1>2
<1>4. /\ posted' \in Seq(Nat \ {0}) /\ Len(posted') = Len(posted) + 1
      /\ \A k \in 1..Len(posted) : posted'[k] = posted[k]
      /\ posted'[Len(posted')] = Len(feed')
  BY <1>1, <1>2, <1>3
<1>5. Broadcast' = Broadcast
  BY <1>2, <1>3, <1>4 DEF Broadcast
<1>6. PostedInv'
  <2>1. Len(posted') <= Len(feed')
    BY <1>2, <1>3, <1>4 DEF PostedInv, TypeInv
  <2>2. ASSUME NEW k \in 1..Len(posted') PROVE posted'[k] = Broadcast' + k
    <3>1. CASE k \in 1..Len(posted)
      BY <3>1, <1>4, <1>5 DEF PostedInv, TypeInv
    <3>2. CASE k = Len(posted')
      BY <3>2, <1>2, <1>3, <1>4 DEF Broadcast
    <3>. QED
      BY <3>1, <3>2, <1>2, <1>4
  <2>. QED
    BY <2>1, <2>2 DEF PostedInv
<1>. QED
  BY <1>1, <1>3, <1>4, <1>5, <1>6

\* The message at the head names an update of the feed.
LEMMA HeadInFeed ==
    ASSUME TypeInv, posted # <<>>
    PROVE  /\ Head(posted) = Broadcast + 1
           /\ Head(posted) \in 1..Len(feed) /\ feed[Head(posted)] \in States
           /\ Tail(posted) \in Seq(Nat \ {0})
           /\ Len(Tail(posted)) = Len(posted) - 1
           /\ \A k \in 1..Len(Tail(posted)) : Tail(posted)[k] = posted[k + 1]
<1>1. posted \in Seq(Nat \ {0}) /\ feed \in Seq(States) /\ Len(posted) >= 1
  BY DEF TypeInv, TypeOK
<1>2. Head(posted) = posted[1] /\ posted[1] = Broadcast + 1
  BY <1>1 DEF TypeInv, PostedInv
<1>3. Broadcast + 1 \in 1..Len(feed)
  BY <1>1 DEF TypeInv, PostedInv, Broadcast
<1>. QED
  BY <1>1, <1>2, <1>3

\* Every variable keeps a value of its kind.
LEMMA TypesHold == Spec => []TypeInv
<1>1. Init => TypeInv
  <2> SUFFICES ASSUME Init PROVE TypeInv
    OBVIOUS
  <2>1. /\ posted = <<>> /\ posted \in Seq(Nat \ {0}) /\ Len(posted) = 0
        /\ feed = <<>> /\ feed \in Seq(States) /\ Len(feed) = 0
        /\ <<>> \in Seq(Calls)
    BY DEF Init
  <2>2. FlagsOK
    BY DEF Init, FlagsOK
  <2>3. PostedInv
    BY <2>1 DEF PostedInv
  <2>. QED
    BY <2>1, <2>2, <2>3, MirrorAssumption DEF Init, TypeInv, TypeOK, States
<1>2. TypeInv /\ [Next]_vars => TypeInv'
  <2> SUFFICES ASSUME TypeInv, [Next]_vars PROVE TypeInv'
    OBVIOUS
  <2>1. ASSUME NEW u \in States, Update(u) PROVE TypeInv'
    <3>1. CASE running /\ ~Hides(mLaststate, u)
      <4>1. updateState(u) /\ mLaststate' = u
        BY <2>1, <3>1 DEF Update, updateStateString
      <4>2. FlagsOK'
        BY <2>1 DEF Update, TypeInv, TypeOK, FlagsOK
      <4>3. mLastUpdateMessage' \in 0..Len(feed')
        BY <4>1, UpdateTypes DEF TypeInv, TypeOK
      <4>. QED
        BY <4>1, <4>2, <4>3, <2>1, UpdateTypes DEF Update, clientVars, TypeInv,
           TypeOK
    <3>2. CASE ~(running /\ ~Hides(mLaststate, u))
      <4>1. mLaststate' \in States /\ UNCHANGED <<mLastUpdateMessage, posted, feed>>
        BY <2>1, <3>2 DEF Update, updateStateString, TypeInv, TypeOK
      <4>. QED
        BY <4>1, <2>1 DEF Update, clientVars, TypeInv, TypeOK, FlagsOK, PostedInv, Broadcast
    <3>. QED
      BY <3>1, <3>2
  <2>2. CASE onCreate
    <3>1. updateState(mLaststate) /\ mLaststate \in States /\ running' = TRUE
      BY <2>2 DEF onCreate, TypeInv, TypeOK
    <3>2. FlagsOK'
      BY <2>2 DEF onCreate, TypeInv, TypeOK, FlagsOK
    <3>3. mLastUpdateMessage' \in 0..Len(feed')
      BY <3>1, UpdateTypes DEF TypeInv, TypeOK
    <3>. QED
      BY <3>1, <3>2, <3>3, <2>2, UpdateTypes DEF onCreate, clientVars, TypeInv,
         TypeOK
  <2>3. CASE onDestroy
    BY <2>3 DEF onDestroy, clientVars, historyVars, TypeInv, TypeOK, FlagsOK, PostedInv,
       Broadcast
  <2>4. CASE handleMessage
    <3>1. posted # <<>> /\ posted' = Tail(posted) /\ UNCHANGED feed
      BY <2>4 DEF handleMessage, historyVars
    <3>2. Call(feed[Head(posted)], Head(posted)) \in Calls
      BY <3>1, HeadInFeed DEF Calls, Call
    <3>3. inbox' \in [Clients -> Seq(Calls)]
      BY <2>4, <3>2 DEF handleMessage, TypeInv, TypeOK
    <3>4. PostedInv' /\ posted' \in Seq(Nat \ {0})
      BY <3>1, HeadInFeed DEF TypeInv, TypeOK, FlagsOK, PostedInv, Broadcast
    <3>. QED
      BY <2>4, <3>1, <3>3, <3>4 DEF handleMessage, historyVars, TypeInv, TypeOK,
         FlagsOK
  <2>5. ASSUME NEW c \in Clients, Binds(c) PROVE TypeInv'
    BY <2>5 DEF Binds, serviceVars, historyVars, TypeInv, TypeOK, FlagsOK, PostedInv,
       Broadcast
  <2>6. ASSUME NEW c \in Clients, SendsLast(c) PROVE TypeInv'
    <3>1. mLastUpdateMessage # 0 => Call(feed[mLastUpdateMessage], 0) \in Calls
      BY DEF Calls, Call, TypeInv, TypeOK
    <3>2. inbox' \in [Clients -> Seq(Calls)]
      BY <2>6, <3>1 DEF SendsLast, TypeInv, TypeOK
    <3>. QED
      BY <2>6, <3>2 DEF SendsLast, serviceVars, historyVars, TypeInv, TypeOK, FlagsOK,
         PostedInv, Broadcast
  <2>7. ASSUME NEW c \in Clients, Registers(c) PROVE TypeInv'
    <3>1. Len(feed) - Len(posted) \in Nat
      BY DEF TypeInv, TypeOK, FlagsOK, PostedInv
    <3>. QED
      BY <2>7, <3>1 DEF Registers, TypeInv, TypeOK, FlagsOK, PostedInv, Broadcast
  <2>8. ASSUME NEW c \in Clients, Takes(c) PROVE TypeInv'
    <3>1. Head(inbox[c]) \in Calls /\ Tail(inbox[c]) \in Seq(Calls)
      BY <2>8 DEF Takes, TypeInv, TypeOK
    <3>2. inbox' \in [Clients -> Seq(Calls)]
      BY <2>8, <3>1 DEF Takes, TypeInv, TypeOK
    <3>3. shown' \in [Clients -> States] /\ heard' \in [Clients -> Nat] /\ agrees' \subseteq Clients
      BY <2>8, <3>1 DEF Takes, TypeInv, TypeOK, Calls
    <3>. QED
      BY <2>8, <3>2, <3>3 DEF Takes, serviceVars, TypeInv, TypeOK, FlagsOK, PostedInv,
         Broadcast
  <2>9. ASSUME NEW c \in Clients, ClientDies(c) PROVE TypeInv'
    BY <2>9, MirrorAssumption DEF ClientDies, Fault, TypeInv, TypeOK, FlagsOK, PostedInv,
       Broadcast, States
  <2>10. CASE ServiceDies
    <3>1. ASSUME NEW c \in Clients
          PROVE  [i \in 1..Len(inbox[c]) |-> Call(inbox[c][i].state, 0)]
                   \in Seq(Calls)
      <4>1. inbox[c] \in Seq(Calls) /\ Len(inbox[c]) \in Nat
        BY DEF TypeInv, TypeOK
      <4>2. ASSUME NEW i \in 1..Len(inbox[c])
            PROVE  Call(inbox[c][i].state, 0) \in Calls
        <5>1. inbox[c][i] \in Calls
          BY <4>1
        <5>. QED
          BY <5>1 DEF Call, Calls
      <4>. QED
        BY <4>1, <4>2
    <3>2. inbox' \in [Clients -> Seq(Calls)]
      BY <2>10, <3>1 DEF ServiceDies
    <3>. QED
      <4>1. /\ posted' \in Seq(Nat \ {0}) /\ Len(posted') = 0
            /\ feed' \in Seq(States) /\ Len(feed') = 0
        BY <2>10 DEF ServiceDies
      <4>2. FlagsOK'
        BY <2>10 DEF ServiceDies, FlagsOK
      <4>3. PostedInv'
        BY <4>1 DEF PostedInv
      <4>. QED
        BY <2>10, <3>2, <4>1, <4>2, <4>3, MirrorAssumption DEF ServiceDies, Fault,
           TypeInv, TypeOK, States
  <2>11. CASE UNCHANGED vars
    BY <2>11 DEF vars, serviceVars, clientVars, historyVars, TypeInv, TypeOK, FlagsOK,
       PostedInv, Broadcast
  <2>. QED
    BY <2>1, <2>2, <2>3, <2>4, <2>5, <2>6, <2>7, <2>8, <2>9, <2>10, <2>11
       DEF Next
<1>. QED
  BY <1>1, <1>2, PTL DEF Spec

\* Every variable keeps a value of its kind, in every reachable state.
THEOREM TypeCorrect == Spec => []TypeOK
  BY TypesHold, PTL DEF TypeInv

-----------------------------------------------------------------------------
\* The feed and the state of VpnStatus

\* While the service runs its last update is the state of VpnStatus, and until
\* its list is killed no update follows one that hides it.
FeedInv ==
    /\ running => Len(feed) > 0 /\ feed[Len(feed)] = mLaststate
    /\ ~running /\ ~killed => Len(feed) = 0
    /\ ~killed => \A k \in 1..Len(feed) - 1 : ~Hides(feed[k], feed[k + 1])

LEMMA FeedFrame ==
    ASSUME FeedInv, UNCHANGED <<running, killed, feed, mLaststate>>
    PROVE  FeedInv'
  BY DEF FeedInv

\* The filter of updateStateString keeps hidden updates out of the feed.
LEMMA FeedHolds == Spec => []FeedInv
<1>1. Init => FeedInv
  BY DEF Init, FeedInv
<1>2. TypeInv /\ FeedInv /\ [Next]_vars => FeedInv'
  <2> SUFFICES ASSUME TypeInv, FeedInv, [Next]_vars PROVE FeedInv'
    OBVIOUS
  <2>. Len(feed) \in Nat
    BY DEF TypeInv, TypeOK
  <2>1. ASSUME NEW u \in States, Update(u) PROVE FeedInv'
    <3>1. CASE running /\ ~Hides(mLaststate, u)
      <4>1. updateState(u) /\ mLaststate' = u /\ UNCHANGED <<running, killed>>
        BY <2>1, <3>1 DEF Update, updateStateString
      <4>2. /\ Len(feed') = Len(feed) + 1 /\ feed'[Len(feed')] = u
            /\ \A k \in 1..Len(feed) : feed'[k] = feed[k]
        BY <4>1, UpdateTypes
      <4>3. Len(feed) > 0 /\ ~Hides(feed[Len(feed)], u)
        BY <3>1 DEF FeedInv
      <4>4. ASSUME ~killed, NEW k \in 1..Len(feed') - 1
            PROVE  ~Hides(feed'[k], feed'[k + 1])
        <5>1. CASE k = Len(feed)
          BY <5>1, <4>2, <4>3
        <5>2. CASE k # Len(feed)
          BY <5>2, <4>2, <4>4 DEF FeedInv
        <5>. QED
          BY <5>1, <5>2
      <4>. QED
        BY <3>1, <4>1, <4>2, <4>4 DEF FeedInv
    <3>2. CASE ~running
      BY <2>1, <3>2 DEF Update, updateStateString, FeedInv
    <3>3. CASE Hides(mLaststate, u)
      BY <2>1, <3>3, FeedFrame DEF Update, updateStateString
    <3>. QED
      BY <3>1, <3>2, <3>3
  <2>2. CASE onCreate
    <3>1. /\ updateState(mLaststate) /\ mLaststate \in States
          /\ ~running /\ running' = TRUE /\ UNCHANGED <<mLaststate, killed>>
      BY <2>2 DEF onCreate, TypeInv, TypeOK
    <3>2. Len(feed') = Len(feed) + 1 /\ feed'[Len(feed')] = mLaststate
      BY <3>1, UpdateTypes
    <3>3. ~killed => Len(feed') = 1
      BY <3>1, <3>2 DEF FeedInv
    <3>. QED
      BY <3>1, <3>2, <3>3 DEF FeedInv
  <2>3. CASE onDestroy
    BY <2>3 DEF onDestroy, historyVars, FeedInv
  <2>4. CASE handleMessage
    BY <2>4, FeedFrame DEF handleMessage, historyVars
  <2>5. ASSUME NEW c \in Clients, Binds(c) PROVE FeedInv'
    BY <2>5, FeedFrame DEF Binds, serviceVars, historyVars
  <2>6. ASSUME NEW c \in Clients, SendsLast(c) PROVE FeedInv'
    BY <2>6, FeedFrame DEF SendsLast, serviceVars, historyVars
  <2>7. ASSUME NEW c \in Clients, Registers(c) PROVE FeedInv'
    BY <2>7, FeedFrame DEF Registers
  <2>8. ASSUME NEW c \in Clients, Takes(c) PROVE FeedInv'
    BY <2>8, FeedFrame DEF Takes, serviceVars
  <2>9. ASSUME NEW c \in Clients, ClientDies(c) PROVE FeedInv'
    BY <2>9, FeedFrame DEF ClientDies
  <2>10. CASE ServiceDies
    <3>1. Len(feed') = 0 /\ ~running' /\ ~killed'
      BY <2>10 DEF ServiceDies
    <3>. QED
      BY <3>1 DEF FeedInv
  <2>11. CASE UNCHANGED vars
    BY <2>11, FeedFrame DEF vars, serviceVars, historyVars
  <2>. QED
    BY <2>1, <2>2, <2>3, <2>4, <2>5, <2>6, <2>7, <2>8, <2>9, <2>10, <2>11
       DEF Next
<1>. QED
  BY <1>1, <1>2, TypesHold, PTL DEF Spec

-----------------------------------------------------------------------------
\* The calls on their way

\* A client in the list is registered with a service that runs.
BoundInv ==
    /\ \A c \in Clients : client[c] # "away" => running
    /\ \A c \in callbacks : client[c] = "registered" /\ ~killed
    /\ agrees \subseteq callbacks

\* How many broadcasts are on their way to a client
Pending(c) == Broadcast - heard[c]

IsBroadcast(c, k) == c \in callbacks /\ k > Len(inbox[c]) - Pending(c)

\* The calls to a client are greetings, followed by what was broadcast since
\* the last update it took; to a client that is not in the list, greetings.
CallsInv(c) ==
    /\ c \in callbacks => /\ Pending(c) \in 0..Len(inbox[c])
                          /\ heard[c] \in 0..Len(feed)
                          /\ Broadcast \in 0..Len(feed)
    /\ c \notin callbacks => heard[c] = 0
    /\ \A k \in 1..Len(inbox[c]) :
         /\ IsBroadcast(c, k) =>
              /\ inbox[c][k].at = Broadcast - (Len(inbox[c]) - k)
              /\ inbox[c][k].state = feed[inbox[c][k].at]
         /\ ~IsBroadcast(c, k) => inbox[c][k].at = 0

\* A client that agrees has no greeting before it, and shows what it took last.
AgreesInv(c) ==
    c \in agrees =>
        /\ Pending(c) = Len(inbox[c])
        /\ heard[c] >= 1 /\ shown[c] = feed[heard[c]]

DeliveryInv ==
    /\ BoundInv
    /\ \A c \in Clients : CallsInv(c) /\ AgreesInv(c)

\* A step that leaves a client alone and at most adds to the feed.
LEMMA DeliveryFrame ==
    ASSUME TypeInv, DeliveryInv, NEW c \in Clients,
           inbox'[c] = inbox[c], heard'[c] = heard[c], shown'[c] = shown[c],
           c \in callbacks' <=> c \in callbacks, c \in agrees' <=> c \in agrees,
           Broadcast' = Broadcast,
           Len(feed') \in Nat, Len(feed') >= Len(feed),
           \A k \in 1..Len(feed) : feed'[k] = feed[k]
    PROVE  CallsInv(c)' /\ AgreesInv(c)'
<1>1. /\ CallsInv(c) /\ AgreesInv(c) /\ (c \in agrees => c \in callbacks)
      /\ Len(feed) \in Nat /\ heard[c] \in Nat
      /\ Len(inbox[c]) \in Nat /\ Broadcast \in Int
  BY DEF TypeInv, TypeOK, DeliveryInv, BoundInv, Broadcast
<1>2. CallsInv(c)'
  <2>1. /\ c \in callbacks' => /\ Pending(c)' \in 0..Len(inbox[c]')
                               /\ heard'[c] \in 0..Len(feed')
                               /\ Broadcast' \in 0..Len(feed')
        /\ c \notin callbacks' => heard'[c] = 0
    BY <1>1 DEF CallsInv, Pending
  <2>2. ASSUME NEW k \in 1..Len(inbox[c]), IsBroadcast(c, k)
        PROVE  /\ inbox[c][k].at = Broadcast - (Len(inbox[c]) - k)
               /\ inbox[c][k].state = feed'[inbox[c][k].at]
    <3>1. /\ inbox[c][k].at = Broadcast - (Len(inbox[c]) - k)
          /\ inbox[c][k].state = feed[inbox[c][k].at]
      BY <2>2, <1>1 DEF CallsInv
    <3>2. inbox[c][k].at \in 1..Len(feed)
      BY <3>1, <2>2, <1>1 DEF CallsInv, Pending, IsBroadcast
    <3>. QED
      BY <3>1, <3>2
  <2>3. ASSUME NEW k \in 1..Len(inbox[c]), ~IsBroadcast(c, k)
        PROVE  inbox[c][k].at = 0
    BY <2>3, <1>1 DEF CallsInv
  <2>4. Pending(c)' = Pending(c)
    BY DEF Pending
  <2>. QED
    BY <2>1, <2>2, <2>3, <2>4 DEF CallsInv, IsBroadcast
<1>3. AgreesInv(c)'
  BY <1>1 DEF AgreesInv, CallsInv, Pending
<1>. QED
  BY <1>2, <1>3

\* A call that is added to the end of an inbox.
LEMMA Appended ==
    ASSUME TypeInv, NEW c \in Clients, NEW x \in Calls
    PROVE  /\ Len(Append(inbox[c], x)) = Len(inbox[c]) + 1
           /\ Append(inbox[c], x)[Len(inbox[c]) + 1] = x
           /\ \A k \in 1..Len(inbox[c]) : Append(inbox[c], x)[k] = inbox[c][k]
<1>1. inbox[c] \in Seq(Calls)
  BY DEF TypeInv, TypeOK
<1>. QED
  BY <1>1

\* What is left of n calls before b when the first has been taken.
LEMMA Rest ==
    ASSUME NEW b \in Int, NEW h \in Int, NEW n \in Int, b - h = n
    PROVE  h + 1 = b - (n - 1)
  OBVIOUS

\* What a client takes: a greeting, or the broadcast that follows the last one.
LEMMA NextCall ==
    ASSUME TypeInv, DeliveryInv, NEW c \in Clients, inbox[c] # <<>>
    PROVE  LET call == Head(inbox[c]) IN
           /\ call \in Calls /\ call = inbox[c][1]
           /\ Len(Tail(inbox[c])) = Len(inbox[c]) - 1
           /\ \A k \in 1..Len(Tail(inbox[c])) : Tail(inbox[c])[k] = inbox[c][k + 1]
           /\ call.at # 0 => /\ c \in callbacks /\ call.at = heard[c] + 1
                             /\ Pending(c) = Len(inbox[c])
                             /\ call.at \in 1..Len(feed)
                             /\ call.state = feed[call.at]
           /\ call.at = 0 => /\ c \notin agrees
                             /\ c \in callbacks => Pending(c) < Len(inbox[c])
<1>1. inbox[c] \in Seq(Calls) /\ Len(inbox[c]) \in Nat \ {0} /\ heard[c] \in Nat
      /\ Broadcast \in Int /\ Len(feed) \in Nat
  BY DEF TypeInv, TypeOK, Broadcast
<1>2. Head(inbox[c]) = inbox[c][1] /\ inbox[c][1] \in Calls
      /\ Len(Tail(inbox[c])) = Len(inbox[c]) - 1
      /\ \A k \in 1..Len(Tail(inbox[c])) : Tail(inbox[c])[k] = inbox[c][k + 1]
  BY <1>1
<1>3. CallsInv(c) /\ AgreesInv(c) /\ (c \in agrees => c \in callbacks)
  BY DEF DeliveryInv, BoundInv
<1>4. CASE IsBroadcast(c, 1)
  <2>1. /\ inbox[c][1].at = Broadcast - (Len(inbox[c]) - 1)
        /\ inbox[c][1].state = feed[inbox[c][1].at]
        /\ Pending(c) \in 0..Len(inbox[c]) /\ Broadcast \in 0..Len(feed)
    <3>1. 1 \in 1..Len(inbox[c])
      BY <1>1
    <3>2. c \in callbacks
      BY <1>4 DEF IsBroadcast
    <3>. QED
      BY <3>1, <3>2, <1>3, <1>4 DEF CallsInv
  <2>2. Pending(c) = Len(inbox[c])
    BY <2>1, <1>1, <1>4 DEF IsBroadcast
  <2>4. inbox[c][1].at = heard[c] + 1
    <3>1. Broadcast - heard[c] = Len(inbox[c])
      BY <2>2 DEF Pending
    <3>2. heard[c] \in Int /\ Len(inbox[c]) \in Int /\ Broadcast \in Int
      BY <1>1
    <3>3. heard[c] + 1 = Broadcast - (Len(inbox[c]) - 1)
      BY <3>1, <3>2, Rest
    <3>. QED
      BY <3>3, <2>1
  <2>3. heard[c] + 1 \in 1..Len(feed)
    BY <2>1, <2>2, <1>1 DEF Pending
  <2>5. c \in callbacks /\ heard[c] + 1 # 0
    BY <1>1, <1>4 DEF IsBroadcast
  <2>6. inbox[c][1].state = feed[inbox[c][1].at]
    BY <2>1
  <2>. QED
    BY <2>2, <2>3, <2>4, <2>5, <2>6, <1>2
<1>5. CASE ~IsBroadcast(c, 1)
  <2>1. inbox[c][1].at = 0
    <3>1. 1 \in 1..Len(inbox[c])
      BY <1>1
    <3>. QED
      BY <3>1, <1>3, <1>5 DEF CallsInv, IsBroadcast
  <2>2. c \in callbacks => Pending(c) < Len(inbox[c])
    BY <1>1, <1>3, <1>5 DEF CallsInv, Pending, IsBroadcast
  <2>3. c \notin agrees
    BY <1>1, <1>3, <1>5 DEF AgreesInv, IsBroadcast
  <2>. QED
    BY <2>1, <2>2, <2>3, <1>2
<1>. QED
  BY <1>4, <1>5

\* A client that agrees hides nothing: it shows the update before.
LEMMA AgreedShows ==
    ASSUME TypeInv, FeedInv, DeliveryInv, NEW c \in agrees,
           heard[c] + 1 \in 1..Len(feed)
    PROVE  ~Hides(shown[c], feed[heard[c] + 1])
<1>1. c \in Clients /\ c \in callbacks /\ ~killed /\ AgreesInv(c)
      /\ heard[c] \in Nat /\ Len(feed) \in Nat
  BY DEF DeliveryInv, BoundInv, TypeInv, TypeOK
<1>2. heard[c] \in 1..Len(feed) - 1
  BY <1>1 DEF AgreesInv
<1>. QED
  BY <1>1, <1>2 DEF FeedInv, AgreesInv

LEMMA TakesKeeps ==
    ASSUME TypeInv, FeedInv, DeliveryInv, NEW d \in Clients, Takes(d)
    PROVE  DeliveryInv'
<1>. DEFINE call == Head(inbox[d])
<1>1. inbox[d] # <<>> /\ inbox' = [inbox EXCEPT ![d] = Tail(@)]
      /\ UNCHANGED <<running, killed, posted, callbacks, client, feed>>
  BY DEF Takes, serviceVars
<1>2. Broadcast' = Broadcast /\ Broadcast \in Int /\ Len(feed) \in Nat
      /\ heard[d] \in Nat /\ Len(inbox[d]) \in Nat
  BY <1>1 DEF Broadcast, TypeInv, TypeOK
<1>3. inbox'[d] = Tail(inbox[d])
  BY <1>1 DEF TypeInv, TypeOK
<1>4. ASSUME NEW c \in Clients, c # d PROVE CallsInv(c)' /\ AgreesInv(c)'
  <2>1. /\ heard'[c] = heard[c] /\ inbox'[c] = inbox[c] /\ shown'[c] = shown[c]
        /\ (c \in agrees' <=> c \in agrees)
    BY <1>4 DEF Takes, TypeInv, TypeOK
  <2>. QED
    BY <2>1, <1>1, <1>2, DeliveryFrame
<1>5. CASE call.at = 0
  <2>1. heard' = heard /\ agrees' = agrees
    BY <1>5 DEF Takes
  <2>2. d \notin agrees
    BY <1>1, <1>5, NextCall
  <2>3. Pending(d)' = Pending(d)
    BY <1>2, <2>1 DEF Pending
  <2>4. CallsInv(d)'
    <3>1. Len(inbox'[d]) = Len(inbox[d]) - 1
      BY <1>1, <1>3, NextCall
    <3>2. d \in callbacks => Pending(d) \in 0..Len(inbox'[d])
      <4>1. d \in callbacks => Pending(d) < Len(inbox[d])
        BY <1>1, <1>5, NextCall
      <4>2. d \in callbacks => Pending(d) \in 0..Len(inbox[d])
        BY DEF DeliveryInv, CallsInv
      <4>. QED
        BY <4>1, <4>2, <3>1, <1>2
    <3>3. ASSUME NEW k \in 1..Len(inbox'[d])
          PROVE  /\ IsBroadcast(d, k)' =>
                      /\ inbox'[d][k].at = Broadcast - (Len(inbox'[d]) - k)
                      /\ inbox'[d][k].state = feed[inbox'[d][k].at]
                 /\ ~IsBroadcast(d, k)' => inbox'[d][k].at = 0
      <4>1. inbox'[d][k] = inbox[d][k + 1] /\ k + 1 \in 1..Len(inbox[d])
        BY <1>1, <1>2, <1>3, <3>1, NextCall
      <4>2. /\ IsBroadcast(d, k + 1) =>
                 /\ inbox[d][k + 1].at = Broadcast - (Len(inbox[d]) - (k + 1))
                 /\ inbox[d][k + 1].state = feed[inbox[d][k + 1].at]
            /\ ~IsBroadcast(d, k + 1) => inbox[d][k + 1].at = 0
        BY <4>1 DEF DeliveryInv, CallsInv
      <4>3. IsBroadcast(d, k)' <=> IsBroadcast(d, k + 1)
        <5>1. Pending(d) \in Int
          BY <1>2 DEF Pending
        <5>. QED
          BY <5>1, <3>1, <2>3, <1>1, <1>2 DEF IsBroadcast
      <4>4. Broadcast - (Len(inbox[d]) - (k + 1)) = Broadcast - (Len(inbox'[d]) - k)
        BY <3>1, <1>2
      <4>5. CASE IsBroadcast(d, k + 1)
        BY <4>1, <4>2, <4>3, <4>4, <4>5
      <4>6. CASE ~IsBroadcast(d, k + 1)
        BY <4>1, <4>2, <4>3, <4>6
      <4>. QED
        BY <4>5, <4>6
    <3>4. d \in callbacks' => heard'[d] \in 0..Len(feed') /\ Broadcast' \in 0..Len(feed')
      BY <2>1, <1>1, <1>2 DEF DeliveryInv, CallsInv
    <3>5. d \notin callbacks' => heard'[d] = 0
      BY <2>1, <1>1 DEF DeliveryInv, CallsInv
    <3>. QED
      BY <3>2, <3>3, <3>4, <3>5, <2>3, <1>1, <1>2 DEF CallsInv
  <2>. QED
    BY <1>1, <1>4, <2>1, <2>2, <2>4 DEF DeliveryInv, BoundInv, AgreesInv
<1>6. CASE call.at # 0
  <2>1. /\ d \in callbacks /\ call.at = heard[d] + 1
        /\ Pending(d) = Len(inbox[d]) /\ call.at \in 1..Len(feed)
        /\ call.state = feed[call.at] /\ Len(inbox'[d]) = Len(inbox[d]) - 1
        /\ \A k \in 1..Len(inbox'[d]) : inbox'[d][k] = inbox[d][k + 1]
    BY <1>1, <1>3, <1>6, NextCall
  <2>2. heard'[d] = heard[d] + 1
    BY <1>6, <2>1 DEF Takes, TypeInv, TypeOK
  <2>3. Pending(d)' = Len(inbox'[d]) /\ Len(inbox'[d]) \in Nat
    BY <1>2, <2>1, <2>2, NextCall, <1>1 DEF Pending, TypeInv, TypeOK
  <2>4. CallsInv(d)'
    <3>1. ASSUME NEW k \in 1..Len(inbox'[d])
          PROVE  /\ inbox'[d][k].at = Broadcast - (Len(inbox'[d]) - k)
                 /\ inbox'[d][k].state = feed[inbox'[d][k].at]
      <4>1. inbox'[d][k] = inbox[d][k + 1] /\ k + 1 \in 1..Len(inbox[d])
        BY <2>1, <1>2
      <4>2. /\ inbox[d][k + 1].at = Broadcast - (Len(inbox[d]) - (k + 1))
            /\ inbox[d][k + 1].state = feed[inbox[d][k + 1].at]
        <5>1. IsBroadcast(d, k + 1)
          BY <4>1, <2>1, <1>2 DEF IsBroadcast
        <5>. QED
          BY <5>1, <4>1 DEF DeliveryInv, CallsInv
      <4>. QED
        BY <4>1, <4>2, <2>1, <1>2
    <3>2. \A k \in 1..Len(inbox'[d]) : IsBroadcast(d, k)'
      BY <2>1, <2>3, <1>1 DEF IsBroadcast
    <3>3. heard'[d] \in 0..Len(feed)
      BY <2>1, <2>2, <1>2
    <3>4. Broadcast \in 0..Len(feed)
      BY <2>1 DEF DeliveryInv, CallsInv
    <3>5. UNCHANGED <<callbacks, feed>> /\ Broadcast' = Broadcast
          /\ d \in callbacks /\ Pending(d)' \in 0..Len(inbox'[d])
      BY <2>1, <2>3, <1>1, <1>2
    <3>. QED
      BY <3>1, <3>2, <3>3, <3>4, <3>5 DEF CallsInv
  <2>5. AgreesInv(d)'
    <3>1. CASE Hides(shown[d], call.state)
      <4>1. d \notin agrees
        BY <3>1, <2>1, AgreedShows
      <4>2. d \notin agrees'
        BY <4>1, <3>1 DEF Takes
      <4>. QED
        BY <4>2 DEF AgreesInv
    <3>2. CASE ~Hides(shown[d], call.state)
      <4>1. shown'[d] = feed[heard'[d]]
        BY <3>2, <2>1, <2>2 DEF Takes, TypeInv, TypeOK
      <4>. QED
        BY <4>1, <2>2, <2>3, <1>1, <1>2 DEF AgreesInv
    <3>. QED
      BY <3>1, <3>2
  <2>6. agrees' \subseteq callbacks
    BY <2>1 DEF Takes, DeliveryInv, BoundInv
  <2>. QED
    BY <1>1, <1>4, <2>4, <2>5, <2>6 DEF DeliveryInv, BoundInv
<1>. QED
  BY <1>5, <1>6

\* Every broadcast reaches every client of the list, once and in order.
LEMMA DeliveryHolds == Spec => []DeliveryInv
<1>1. Init => DeliveryInv
  BY DEF Init, DeliveryInv, BoundInv, CallsInv, IsBroadcast, AgreesInv
<1>2. TypeInv /\ FeedInv /\ DeliveryInv /\ [Next]_vars => DeliveryInv'
  <2> SUFFICES ASSUME TypeInv, FeedInv, DeliveryInv, [Next]_vars
               PROVE  DeliveryInv'
    OBVIOUS
  <2>. /\ Len(feed) \in Nat /\ Len(posted) \in Nat /\ Broadcast \in 0..Len(feed)
       /\ \A c \in Clients : heard[c] \in Nat /\ Len(inbox[c]) \in Nat
    BY DEF TypeInv, TypeOK, PostedInv, Broadcast
  <2>1. ASSUME NEW u \in States, Update(u) PROVE DeliveryInv'
    <3>1. /\ Broadcast' = Broadcast /\ Len(feed') \in Nat /\ Len(feed') >= Len(feed)
          /\ \A k \in 1..Len(feed) : feed'[k] = feed[k]
      <4>1. CASE updateState(u)
        BY <4>1, UpdateTypes
      <4>2. CASE UNCHANGED <<posted, feed>>
        BY <4>2 DEF Broadcast
      <4>. QED
        BY <2>1, <4>1, <4>2 DEF Update, updateStateString
    <3>2. UNCHANGED <<running, killed, callbacks, client, inbox, shown, heard, agrees>>
      BY <2>1 DEF Update, clientVars
    <3>. QED
      BY <3>1, <3>2, DeliveryFrame DEF DeliveryInv, BoundInv
  <2>2. CASE onCreate
    <3>1. /\ Broadcast' = Broadcast /\ Len(feed') \in Nat /\ Len(feed') >= Len(feed)
          /\ \A k \in 1..Len(feed) : feed'[k] = feed[k]
      <4>1. updateState(mLaststate) /\ mLaststate \in States
        BY <2>2 DEF onCreate, TypeInv, TypeOK
      <4>. QED
        BY <4>1, UpdateTypes
    <3>2. /\ UNCHANGED <<killed, callbacks, client, inbox, shown, heard, agrees>>
          /\ running'
      BY <2>2 DEF onCreate, clientVars
    <3>. QED
      BY <3>1, <3>2, DeliveryFrame DEF DeliveryInv, BoundInv
  <2>3. CASE onDestroy
    <3>1. \A c \in Clients : c \notin callbacks /\ c \notin agrees
      BY <2>3 DEF onDestroy, DeliveryInv, BoundInv
    <3>2. /\ callbacks' = {} /\ agrees' = agrees
          /\ UNCHANGED <<client, inbox, shown, heard, feed, posted>>
          /\ \A c \in Clients : client[c] = "away"
      BY <2>3 DEF onDestroy, clientVars, historyVars
    <3>3. Broadcast' = Broadcast
      BY <3>2 DEF Broadcast
    <3>4. BoundInv'
      BY <3>1, <3>2 DEF BoundInv, TypeInv, TypeOK
    <3>. QED
      BY <3>1, <3>2, <3>3, <3>4, DeliveryFrame DEF DeliveryInv
  <2>4. CASE handleMessage
    <3>1. posted # <<>> /\ posted' = Tail(posted)
          /\ UNCHANGED <<running, killed, callbacks, client, shown, feed, heard, agrees>>
      BY <2>4 DEF handleMessage, historyVars
    <3>2. /\ Head(posted) = Broadcast + 1 /\ Head(posted) \in 1..Len(feed)
          /\ feed[Head(posted)] \in States
          /\ Broadcast' = Broadcast + 1
      BY <3>1, HeadInFeed DEF Broadcast
    <3>. DEFINE x == Call(feed[Head(posted)], Head(posted))
    <3>3. x \in Calls /\ x.at = Broadcast + 1 /\ x.state = feed[x.at]
      BY <3>2 DEF Call, Calls
    <3>4. ASSUME NEW c \in Clients PROVE CallsInv(c)' /\ AgreesInv(c)'
      <4>1. CASE c \in callbacks
        <5>1. inbox'[c] = Append(inbox[c], x)
          BY <2>4, <4>1 DEF handleMessage, TypeInv, TypeOK
        <5>2. /\ Len(inbox'[c]) = Len(inbox[c]) + 1
              /\ inbox'[c][Len(inbox[c]) + 1] = x
              /\ \A k \in 1..Len(inbox[c]) : inbox'[c][k] = inbox[c][k]
          BY <5>1, <3>3, Appended
        <5>3. Pending(c)' = Pending(c) + 1
          BY <3>1, <3>2 DEF Pending
        <5>7. /\ Pending(c) \in 0..Len(inbox[c]) /\ heard[c] \in 0..Len(feed)
              /\ Broadcast \in 0..Len(feed)
          BY <4>1 DEF DeliveryInv, CallsInv
        <5>4. ASSUME NEW k \in 1..Len(inbox'[c])
              PROVE  /\ IsBroadcast(c, k)' =>
                          /\ inbox'[c][k].at = Broadcast' - (Len(inbox'[c]) - k)
                          /\ inbox'[c][k].state = feed[inbox'[c][k].at]
                     /\ ~IsBroadcast(c, k)' => inbox'[c][k].at = 0
          <6>1. CASE k = Len(inbox[c]) + 1
            <7>1. IsBroadcast(c, k)'
              BY <6>1, <5>2, <5>3, <5>7, <4>1, <3>1 DEF IsBroadcast
            <7>. QED
              BY <7>1, <6>1, <5>2, <3>2, <3>3
          <6>2. CASE k \in 1..Len(inbox[c])
            <7>1. IsBroadcast(c, k)' <=> IsBroadcast(c, k)
              BY <6>2, <5>2, <5>3, <5>7, <3>1 DEF IsBroadcast
            <7>2. /\ IsBroadcast(c, k) =>
                       /\ inbox[c][k].at = Broadcast - (Len(inbox[c]) - k)
                       /\ inbox[c][k].state = feed[inbox[c][k].at]
                  /\ ~IsBroadcast(c, k) => inbox[c][k].at = 0
              BY <6>2 DEF DeliveryInv, CallsInv
            <7>. QED
              <8>1. Broadcast' - (Len(inbox'[c]) - k) = Broadcast - (Len(inbox[c]) - k)
                BY <6>2, <5>2, <3>2
              <8>. QED
                BY <8>1, <7>1, <7>2, <6>2, <5>2, Zenon
          <6>. QED
            BY <6>1, <6>2, <5>2
        <5>5. CallsInv(c)'
          <6>1. Pending(c)' \in 0..Len(inbox'[c])
            BY <5>2, <5>3, <5>7
          <6>2. heard'[c] \in 0..Len(feed') /\ Broadcast' \in 0..Len(feed')
            BY <5>7, <3>1, <3>2
          <6>. QED
            BY <5>4, <6>1, <6>2, <4>1, <3>1 DEF CallsInv, IsBroadcast
        <5>6. AgreesInv(c)'
          BY <5>2, <5>3, <3>1 DEF AgreesInv, DeliveryInv
        <5>. QED
          BY <5>5, <5>6
      <4>2. CASE c \notin callbacks
        <5>1. inbox'[c] = inbox[c]
          BY <2>4, <4>2 DEF handleMessage, TypeInv, TypeOK
        <5>2. c \notin agrees
          BY <4>2 DEF DeliveryInv, BoundInv
        <5>. QED
          <6>1. CallsInv(c)
            BY DEF DeliveryInv
          <6>2. CallsInv(c)'
            BY <6>1, <5>1, <4>2, <3>1 DEF CallsInv, IsBroadcast
          <6>. QED
            BY <6>2, <5>2, <3>1 DEF AgreesInv
      <4>. QED
        BY <4>1, <4>2
    <3>. QED
      BY <3>1, <3>4 DEF DeliveryInv, BoundInv
  <2>5. ASSUME NEW d \in Clients, Binds(d) PROVE DeliveryInv'
    <3>1. /\ client[d] = "away" /\ running /\ client' = [client EXCEPT ![d] = "bound"]
          /\ UNCHANGED <<running, killed, posted, callbacks, inbox, shown, feed, heard, agrees>>
      BY <2>5 DEF Binds, serviceVars, historyVars
    <3>2. Broadcast' = Broadcast
      BY <3>1 DEF Broadcast
    <3>3. BoundInv'
      BY <3>1 DEF DeliveryInv, BoundInv, TypeInv, TypeOK
    <3>. QED
      BY <3>1, <3>2, <3>3, DeliveryFrame DEF DeliveryInv
  <2>6. ASSUME NEW d \in Clients, SendsLast(d) PROVE DeliveryInv'
    <3>1. /\ client[d] = "bound" /\ client' = [client EXCEPT ![d] = "sent"]
          /\ UNCHANGED <<running, killed, posted, callbacks, shown, feed, heard, agrees>>
      BY <2>6 DEF SendsLast, serviceVars, historyVars
    <3>2. Broadcast' = Broadcast
      BY <3>1 DEF Broadcast
    <3>3. BoundInv'
      BY <3>1 DEF DeliveryInv, BoundInv, TypeInv, TypeOK
    <3>4. d \notin callbacks /\ d \notin agrees
      BY <3>1 DEF DeliveryInv, BoundInv
    <3>5. ASSUME NEW c \in Clients PROVE CallsInv(c)' /\ AgreesInv(c)'
      <4>1. CASE inbox'[c] = inbox[c]
        BY <4>1, <3>1, <3>2, DeliveryFrame
      <4>2. CASE c = d /\ mLastUpdateMessage # 0
        <5>. DEFINE x == Call(feed[mLastUpdateMessage], 0)
        <5>1. x \in Calls /\ x.at = 0
          BY <4>2 DEF Call, Calls, TypeInv, TypeOK
        <5>2. inbox'[c] = Append(inbox[c], x)
          BY <2>6, <4>2 DEF SendsLast, TypeInv, TypeOK
        <5>3. \A k \in 1..Len(inbox'[c]) : inbox'[c][k].at = 0
          <6>1. \A k \in 1..Len(inbox[c]) : inbox[c][k].at = 0
            BY <4>2, <3>4 DEF DeliveryInv, CallsInv, IsBroadcast
          <6>. QED
            BY <6>1, <5>1, <5>2, Appended
        <5>. QED
          BY <5>3, <4>2, <3>1, <3>4 DEF DeliveryInv, CallsInv, IsBroadcast, AgreesInv
      <4>. QED
        BY <2>6, <4>1, <4>2 DEF SendsLast, TypeInv, TypeOK
    <3>. QED
      BY <3>3, <3>5 DEF DeliveryInv
  <2>7. ASSUME NEW d \in Clients, Registers(d) PROVE DeliveryInv'
    <3>1. /\ client[d] = "sent" /\ client' = [client EXCEPT ![d] = "registered"]
          /\ UNCHANGED <<running, killed, posted, inbox, shown, feed, agrees>>
      BY <2>7 DEF Registers
    <3>2. Broadcast' = Broadcast
      BY <3>1 DEF Broadcast
    <3>3. d \notin callbacks /\ d \notin agrees
      BY <3>1 DEF DeliveryInv, BoundInv
    <3>4. CASE killed
      <4>1. UNCHANGED <<callbacks, heard>>
        BY <2>7, <3>4 DEF Registers
      <4>2. BoundInv'
        BY <3>1, <4>1 DEF DeliveryInv, BoundInv, TypeInv, TypeOK
      <4>. QED
        BY <3>1, <3>2, <4>1, <4>2, DeliveryFrame DEF DeliveryInv
    <3>5. CASE ~killed
      <4>1. /\ callbacks' = callbacks \cup {d}
            /\ heard' = [heard EXCEPT ![d] = Broadcast]
        BY <2>7, <3>5 DEF Registers, Broadcast
      <4>2. BoundInv'
        BY <3>1, <3>5, <4>1 DEF DeliveryInv, BoundInv, TypeInv, TypeOK
      <4>3. ASSUME NEW c \in Clients, c # d PROVE CallsInv(c)' /\ AgreesInv(c)'
        <5>1. heard'[c] = heard[c] /\ (c \in callbacks' <=> c \in callbacks)
          BY <4>1, <4>3 DEF TypeInv, TypeOK
        <5>. QED
          BY <5>1, <3>1, <3>2, DeliveryFrame
      <4>4. CallsInv(d)' /\ AgreesInv(d)'
        <5>1. d \in callbacks' /\ heard'[d] = Broadcast /\ Pending(d)' = 0
          BY <4>1, <3>2 DEF Pending, TypeInv, TypeOK
        <5>2. \A k \in 1..Len(inbox[d]) : inbox[d][k].at = 0
          BY <3>3 DEF DeliveryInv, CallsInv, IsBroadcast
        <5>3. \A k \in 1..Len(inbox[d]) : ~IsBroadcast(d, k)'
          BY <5>1, <3>1 DEF IsBroadcast
        <5>4. d \notin agrees'
          BY <3>1, <3>3
        <5>5. Broadcast \in 0..Len(feed) /\ Len(inbox[d]) \in Nat
          BY DEF TypeInv, TypeOK, PostedInv, Broadcast
        <5>6. AgreesInv(d)'
          BY <5>4 DEF AgreesInv
        <5>7. Broadcast' \in 0..Len(feed') /\ Pending(d)' \in 0..Len(inbox'[d])
          BY <5>1, <5>5, <3>1, <3>2
        <5>8. \A k \in 1..Len(inbox'[d]) : inbox'[d][k].at = 0 /\ ~IsBroadcast(d, k)'
          BY <5>2, <5>3, <3>1
        <5>9. CallsInv(d)'
          BY <5>1, <5>7, <5>8, <3>2 DEF CallsInv
        <5>. QED
          BY <5>6, <5>9
      <4>. QED
        BY <4>2, <4>3, <4>4 DEF DeliveryInv
    <3>. QED
      BY <3>4, <3>5
  <2>8. ASSUME NEW d \in Clients, Takes(d) PROVE DeliveryInv'
    BY <2>8, TakesKeeps
  <2>9. ASSUME NEW d \in Clients, ClientDies(d) PROVE DeliveryInv'
    <3>1. /\ client' = [client EXCEPT ![d] = "away"] /\ callbacks' = callbacks \ {d}
          /\ agrees' = agrees \ {d} /\ inbox' = [inbox EXCEPT ![d] = <<>>]
          /\ shown' = [shown EXCEPT ![d] = "NOPROCESS"]
          /\ heard' = [heard EXCEPT ![d] = 0]
          /\ UNCHANGED <<running, killed, posted, feed>>
      BY <2>9 DEF ClientDies
    <3>2. Broadcast' = Broadcast
      BY <3>1 DEF Broadcast
    <3>3. BoundInv'
      BY <3>1 DEF DeliveryInv, BoundInv, TypeInv, TypeOK
    <3>4. ASSUME NEW c \in Clients, c # d PROVE CallsInv(c)' /\ AgreesInv(c)'
      <4>1. /\ heard'[c] = heard[c] /\ inbox'[c] = inbox[c] /\ shown'[c] = shown[c]
            /\ (c \in callbacks' <=> c \in callbacks)
            /\ (c \in agrees' <=> c \in agrees)
        BY <3>1, <3>4 DEF TypeInv, TypeOK
      <4>. QED
        BY <4>1, <3>1, <3>2, DeliveryFrame
    <3>5. CallsInv(d)' /\ AgreesInv(d)'
      <4>1. d \notin callbacks' /\ d \notin agrees' /\ inbox'[d] = <<>> /\ heard'[d] = 0
        BY <3>1 DEF TypeInv, TypeOK
      <4>. QED
        BY <4>1 DEF CallsInv, AgreesInv, IsBroadcast
    <3>. QED
      BY <3>3, <3>4, <3>5 DEF DeliveryInv
  <2>10. CASE ServiceDies
    <3>1. /\ callbacks' = {} /\ agrees' = {} /\ heard' = [c \in Clients |-> 0]
          /\ client' = [c \in Clients |-> "away"]
          /\ inbox' = [c \in Clients |->
                [i \in 1..Len(inbox[c]) |-> Call(inbox[c][i].state, 0)]]
      BY <2>10 DEF ServiceDies
    <3>2. BoundInv'
      BY <3>1 DEF BoundInv
    <3>3. ASSUME NEW c \in Clients PROVE CallsInv(c)' /\ AgreesInv(c)'
      <4>1. Len(inbox'[c]) = Len(inbox[c])
        BY <3>1
      <4>2. \A k \in 1..Len(inbox[c]) : inbox'[c][k].at = 0
        BY <3>1 DEF Call
      <4>. QED
        BY <3>1, <4>1, <4>2 DEF CallsInv, AgreesInv, IsBroadcast
    <3>. QED
      BY <3>2, <3>3 DEF DeliveryInv
  <2>11. CASE UNCHANGED vars
    <3>1. UNCHANGED <<running, killed, posted, callbacks, client, inbox, shown, feed, heard, agrees>>
      BY <2>11 DEF vars, serviceVars, clientVars, historyVars
    <3>. QED
      BY <3>1, DeliveryFrame DEF DeliveryInv, BoundInv, Broadcast
  <2>. QED
    BY <2>1, <2>2, <2>3, <2>4, <2>5, <2>6, <2>7, <2>8, <2>9, <2>10, <2>11
       DEF Next
<1>. QED
  BY <1>1, <1>2, TypesHold, FeedHolds, PTL DEF Spec

\* When nothing is on its way a client shows the state of VpnStatus
\* (MirrorsStatus).
THEOREM MirrorIsTrue == Spec => []MirrorsStatus
<1>1. TypeInv /\ FeedInv /\ DeliveryInv => MirrorsStatus
  <2> SUFFICES ASSUME TypeInv, FeedInv, DeliveryInv, NEW c \in agrees,
                      posted = <<>>, inbox[c] = <<>>
               PROVE  running /\ shown[c] = mLaststate
    BY DEF MirrorsStatus
  <2>1. c \in Clients /\ client[c] = "registered" /\ AgreesInv(c) /\ running
    BY DEF DeliveryInv, BoundInv, TypeInv, TypeOK
  <2>2. Broadcast = Len(feed) /\ heard[c] \in Nat /\ Len(feed) \in Nat
    BY <2>1 DEF Broadcast, TypeInv, TypeOK
  <2>3. heard[c] = Len(feed) /\ shown[c] = feed[heard[c]]
    BY <2>1, <2>2 DEF AgreesInv, Pending
  <2>. QED
    BY <2>1, <2>3 DEF FeedInv
<1>. QED
  BY <1>1, TypesHold, FeedHolds, DeliveryHolds, PTL

-----------------------------------------------------------------------------
\* The refinement

\* A step that changes nothing the feed knows of.
LEMMA FeedStutter ==
    ASSUME UNCHANGED <<feed, heard, callbacks, agrees, shown>>
    PROVE  UNCHANGED Feed!feedVars
  BY DEF Feed!feedVars, Member

\* An update is published, or nothing the feed knows of changes.
LEMMA UpdatePublishes ==
    ASSUME TypeInv, NEW u \in States, updateState(u),
           UNCHANGED <<heard, callbacks, agrees, shown>>
    PROVE  Feed!Publish(u)
  BY DEF updateState, Feed!Publish, Member

\* Every step of the service and its clients is a step of the feed.
LEMMA StepImplements ==
    ASSUME TypeInv, FeedInv, DeliveryInv, [Next]_vars
    PROVE  [Feed!FeedNext]_(Feed!feedVars)
<1>1. ASSUME NEW u \in States, Update(u) PROVE [Feed!FeedNext]_(Feed!feedVars)
  <2>1. UNCHANGED <<heard, callbacks, agrees, shown>>
    BY <1>1 DEF Update, clientVars
  <2>2. CASE updateState(u)
    BY <2>1, <2>2, UpdatePublishes DEF Feed!FeedNext
  <2>3. CASE UNCHANGED feed
    BY <2>1, <2>3, FeedStutter
  <2>. QED
    BY <1>1, <2>2, <2>3 DEF Update, updateStateString
<1>2. CASE onCreate
  <2>1. /\ updateState(mLaststate) /\ mLaststate \in States
        /\ UNCHANGED <<heard, callbacks, agrees, shown>>
    BY <1>2 DEF onCreate, clientVars, TypeInv, TypeOK
  <2>. QED
    BY <2>1, UpdatePublishes DEF Feed!FeedNext
<1>3. CASE onDestroy
  <2>1. callbacks = {} /\ callbacks' = {}
    BY <1>3 DEF onDestroy, DeliveryInv, BoundInv, TypeInv, TypeOK
  <2>. QED
    BY <1>3, <2>1, FeedStutter DEF onDestroy, clientVars, historyVars
<1>4. CASE handleMessage
  BY <1>4, FeedStutter DEF handleMessage, historyVars
<1>5. ASSUME NEW c \in Clients, Binds(c) PROVE [Feed!FeedNext]_(Feed!feedVars)
  BY <1>5, FeedStutter DEF Binds, serviceVars, historyVars
<1>6. ASSUME NEW c \in Clients, SendsLast(c) PROVE [Feed!FeedNext]_(Feed!feedVars)
  BY <1>6, FeedStutter DEF SendsLast, serviceVars, historyVars
<1>7. ASSUME NEW c \in Clients, Registers(c) PROVE [Feed!FeedNext]_(Feed!feedVars)
  <2>1. CASE killed
    BY <1>7, <2>1, FeedStutter DEF Registers
  <2>2. CASE ~killed
    <3>1. /\ callbacks' = callbacks \cup {c}
          /\ heard' = [heard EXCEPT ![c] = Broadcast]
          /\ UNCHANGED <<feed, shown, agrees>>
      BY <1>7, <2>2 DEF Registers, Broadcast
    <3>2. c \notin callbacks /\ c \notin agrees
      BY <1>7 DEF Registers, DeliveryInv, BoundInv
    <3>3. Member[c] = "out" /\ Member' = [Member EXCEPT ![c] = "joined"]
      BY <3>1, <3>2 DEF Member
    <3>4. Broadcast \in 0..Len(feed)
      BY DEF TypeInv, TypeOK, PostedInv, Broadcast
    <3>. QED
      BY <3>1, <3>3, <3>4 DEF Feed!Join, Feed!FeedNext
  <2>. QED
    BY <2>1, <2>2
<1>8. ASSUME NEW c \in Clients, Takes(c) PROVE [Feed!FeedNext]_(Feed!feedVars)
  <2>. DEFINE call == Head(inbox[c])
  <2>1. inbox[c] # <<>> /\ UNCHANGED <<feed, callbacks>>
    BY <1>8 DEF Takes, serviceVars
  <2>2. call.state \in States
    BY <2>1, NextCall DEF Calls
  <2>3. CASE call.at = 0
    <3>1. heard' = heard /\ agrees' = agrees /\ c \notin agrees
      BY <1>8, <2>1, <2>3, NextCall DEF Takes
    <3>2. Member' = Member /\ Member[c] # "agrees"
      BY <2>1, <3>1 DEF Member
    <3>3. CASE Hides(shown[c], call.state)
      BY <1>8, <2>1, <3>1, <3>3, FeedStutter DEF Takes
    <3>4. CASE ~Hides(shown[c], call.state)
      <4>1. shown' = [shown EXCEPT ![c] = call.state]
        BY <1>8, <3>4 DEF Takes
      <4>2. Feed!Greet(c)
        BY <2>1, <2>2, <3>1, <3>2, <4>1 DEF Feed!Greet
      <4>. QED
        BY <4>2 DEF Feed!FeedNext
    <3>. QED
      BY <3>3, <3>4
  <2>4. CASE call.at # 0
    <3>1. /\ c \in callbacks /\ call.at = heard[c] + 1
          /\ heard[c] + 1 \in 1..Len(feed) /\ call.state = feed[heard[c] + 1]
      BY <2>1, <2>4, NextCall
    <3>2. heard' = [heard EXCEPT ![c] = heard[c] + 1]
      BY <1>8, <2>4, <3>1 DEF Takes
    <3>3. Member[c] # "out" /\ heard[c] < Len(feed)
      BY <3>1 DEF Member, TypeInv, TypeOK
    <3>4. CASE Hides(shown[c], call.state)
      <4>1. shown' = shown /\ agrees' = agrees
        BY <1>8, <3>4 DEF Takes
      <4>2. c \notin agrees
        BY <3>1, <3>4, AgreedShows
      <4>3. Member[c] = "joined" /\ Member' = Member
        BY <2>1, <3>1, <4>1, <4>2 DEF Member
      <4>4. Hides(shown[c], feed[heard[c] + 1])
        BY <3>1, <3>4
      <4>5. Feed!Show(c)
        BY <2>1, <3>2, <3>3, <4>1, <4>3, <4>4 DEF Feed!Show
      <4>. QED
        BY <4>5 DEF Feed!FeedNext
    <3>5. CASE ~Hides(shown[c], call.state)
      <4>1. /\ shown' = [shown EXCEPT ![c] = feed[heard[c] + 1]]
            /\ agrees' = agrees \cup {c}
        BY <1>8, <2>4, <3>1, <3>5 DEF Takes
      <4>2. Member' = [Member EXCEPT ![c] = "agrees"]
        BY <2>1, <3>1, <4>1 DEF Member
      <4>3. Feed!Show(c)
        BY <2>1, <3>2, <3>3, <4>1, <4>2 DEF Feed!Show
      <4>. QED
        BY <4>3 DEF Feed!FeedNext
    <3>. QED
      BY <3>4, <3>5
  <2>. QED
    BY <2>3, <2>4
<1>9. ASSUME NEW c \in Clients, ClientDies(c) PROVE [Feed!FeedNext]_(Feed!feedVars)
  <2>1. /\ callbacks' = callbacks \ {c} /\ agrees' = agrees \ {c} /\ feed' = feed
        /\ heard' = [heard EXCEPT ![c] = 0]
        /\ shown' = [shown EXCEPT ![c] = "NOPROCESS"]
    BY <1>9 DEF ClientDies
  <2>2. Member' = [Member EXCEPT ![c] = "out"]
    BY <2>1 DEF Member
  <2>3. Feed!Leave(c)
    BY <2>1, <2>2 DEF Feed!Leave, States
  <2>. QED
    BY <2>3 DEF Feed!FeedNext
<1>10. CASE ServiceDies
  <2>1. Feed!Restart
    BY <1>10 DEF ServiceDies, Feed!Restart, Member
  <2>. QED
    BY <2>1 DEF Feed!FeedNext
<1>11. CASE UNCHANGED vars
  BY <1>11, FeedStutter DEF vars, serviceVars, clientVars, historyVars
<1>. QED
  BY <1>1, <1>2, <1>3, <1>4, <1>5, <1>6, <1>7, <1>8, <1>9, <1>10, <1>11 DEF Next

\* The status service implements the feed, up to the liveness that only TLC
\* checks (ImplementsFeed): nothing is lost or reordered for a client in the
\* list.
THEOREM ImplementsFeedSafely ==
    Spec => Feed!FeedInit /\ [][Feed!FeedNext]_(Feed!feedVars)
<1>1. Init => Feed!FeedInit
  BY DEF Init, Feed!FeedInit, Member, States
<1>2. TypeInv /\ FeedInv /\ DeliveryInv /\ [Next]_vars
        => [Feed!FeedNext]_(Feed!feedVars)
  BY StepImplements
<1>. QED
  BY <1>1, <1>2, TypesHold, FeedHolds, DeliveryHolds, PTL DEF Spec
=============================================================================
