------------------------------ MODULE StatusFeed ------------------------------
(***************************************************************************)
(* What the clients of a status service may rely on: a feed of updates, and *)
(* clients that join it at some place and are shown what follows, in order  *)
(* and without a gap.  StatusMirror is the code that does this for the      *)
(* status of the VPN.                                                       *)
(*                                                                         *)
(* A client that has joined agrees with the feed from the first update it   *)
(* shows.  Before that it may be greeted with some state, and it may pass   *)
(* over updates that its own state hides.                                   *)
(***************************************************************************)
EXTENDS Naturals, Sequences

CONSTANTS
    States,        \* the states that are published
    Clients,
    Hides(_, _)    \* Hides(old, new): a client in state old passes over new

VARIABLES
    feed,          \* what was published since the service started
    place,         \* the last update of the feed a client has taken
    member,        \* "out", "joined", "agrees"
    shown          \* the state each client shows

feedVars == <<feed, place, member, shown>>

FeedInit ==
    /\ feed = <<>>
    /\ place = [c \in Clients |-> 0]
    /\ member = [c \in Clients |-> "out"]
    /\ shown \in [Clients -> States]

Publish(u) ==
    /\ feed' = Append(feed, u)
    /\ UNCHANGED <<place, member, shown>>

Join(c) ==
    /\ member[c] = "out"
    /\ member' = [member EXCEPT ![c] = "joined"]
    /\ \E i \in 0..Len(feed) : place' = [place EXCEPT ![c] = i]
    /\ UNCHANGED <<feed, shown>>

\* A client that does not agree yet is told some state
Greet(c) ==
    /\ member[c] # "agrees"
    /\ \E s \in States : shown' = [shown EXCEPT ![c] = s]
    /\ UNCHANGED <<feed, place, member>>

Show(c) ==
    /\ member[c] # "out" /\ place[c] < Len(feed)
    /\ place' = [place EXCEPT ![c] = @ + 1]
    /\ \/ /\ shown' = [shown EXCEPT ![c] = feed[place[c] + 1]]
          /\ member' = [member EXCEPT ![c] = "agrees"]
       \/ /\ member[c] = "joined" /\ Hides(shown[c], feed[place[c] + 1])
          /\ UNCHANGED <<shown, member>>
    /\ UNCHANGED feed

\* The client is gone; another in its place starts in some state
Leave(c) ==
    /\ member' = [member EXCEPT ![c] = "out"]
    /\ place' = [place EXCEPT ![c] = 0]
    /\ \E s \in States : shown' = [shown EXCEPT ![c] = s]
    /\ UNCHANGED feed

\* The service is gone and starts anew
Restart ==
    /\ feed' = <<>>
    /\ place' = [c \in Clients |-> 0]
    /\ member' = [c \in Clients |-> "out"]
    /\ UNCHANGED shown

FeedNext ==
    \/ \E u \in States : Publish(u)
    \/ \E c \in Clients : Join(c) \/ Greet(c) \/ Show(c) \/ Leave(c)
    \/ Restart

FeedSpec ==
    /\ FeedInit /\ [][FeedNext]_feedVars
    /\ \A c \in Clients : WF_feedVars(Show(c))
=============================================================================
