----------------------------- MODULE NetworkSpace -----------------------------
(***************************************************************************)
(* NetworkSpace.generateIPList: from the networks a tunnel should take and  *)
(* those it should not, the list of networks that do not overlap and hold   *)
(* for each address what the smallest network around it says.               *)
(*                                                                         *)
(* The loop compares the current network with the next of a priority queue, *)
(* and splits the larger of two that differ.  Addresses have BITS bits (32  *)
(* and 128 in the program).  The queue keeps equal elements, in an order    *)
(* that is not specified; the sets mIpAddresses and ipsDone and the test    *)
(* "contains" know a network by its range alone, whatever its type.         *)
(* Assertions are evaluated if BuildConfig.DEBUG is set.                    *)
(***************************************************************************)
EXTENDS Integers, FiniteSets, Bags

CONSTANTS
    BITS,          \* the length of an address
    MaxNetworks,   \* bound on the networks of the input
    DebugBuilds    \* values of BuildConfig.DEBUG

ASSUME NetworkSpaceAssumption ==
    BITS \in Nat \ {0} /\ MaxNetworks \in Nat /\ DebugBuilds \subseteq BOOLEAN

VARIABLES
    debug,         \* BuildConfig.DEBUG
    mIpAddresses,  \* the input
    networks,      \* the priority queue: a bag
    currentNet,    \* a set with the current network, empty for null
    ipsDone,       \* the output
    pc,            \* "start", "loop", "done", "thrown"
    twins          \* history: a half was queued beside an equal network of the
                   \* other type

vars == <<debug, mIpAddresses, networks, currentNet, ipsDone, pc, twins>>

\* The value of bit n of an address
Pow2[n \in Nat] == IF n = 0 THEN 1 ELSE 2 * Pow2[n - 1]

Addresses == 0..(Pow2[BITS] - 1)

IpAddress(first, mask, included) ==
    [first |-> first, mask |-> mask, included |-> included]

Ranges == {r \in [first : Addresses, mask : 0..BITS] :
             r.first % Pow2[BITS - r.mask] = 0}

\* A mask that is longer than the address leaves one address.
Last(n) == IF n.mask < BITS THEN n.first + Pow2[BITS - n.mask] - 1 ELSE n.first

SameRange(n, k) == n.first = k.first /\ n.mask = k.mask

\* compareTo: by the first address, and the smaller network first
Precedes(n, k) == n.first < k.first \/ (n.first = k.first /\ n.mask > k.mask)

FirstHalf(n) == IpAddress(n.first, n.mask + 1, n.included)
SecondHalf(n) == IpAddress(Last(FirstHalf(n)) + 1, n.mask + 1, n.included)

\* The assertion of split()
SplitsEvenly(n) == Last(SecondHalf(n)) = Last(n)

contains(queue, n) == \E k \in BagToSet(queue) : SameRange(n, k)

\* add() of a TreeSet
With(tree, n) == IF \E k \in tree : SameRange(n, k) THEN tree ELSE tree \cup {n}

Queue(queue, n) == queue (+) SetToBag({n})

\* A network of the same range and the other type is in the queue.
Twin(queue, n) == \E k \in BagToSet(queue) : SameRange(n, k) /\ n.included # k.included

\* poll: one of the least elements
Least(queue) ==
    {n \in BagToSet(queue) : \A k \in BagToSet(queue) : ~Precedes(k, n)}

Init ==
    /\ debug \in DebugBuilds
    /\ \E R \in SUBSET Ranges :
         /\ Cardinality(R) <= MaxNetworks
         /\ \E type \in [R -> BOOLEAN] :
              mIpAddresses = {IpAddress(r.first, r.mask, type[r]) : r \in R}
    /\ networks = SetToBag(mIpAddresses)
    /\ currentNet = {} /\ ipsDone = {} /\ pc = "start" /\ twins = FALSE

-----------------------------------------------------------------------------
\* The first network, if there is one
Start ==
    /\ pc = "start"
    /\ IF Least(networks) = {}
       THEN /\ pc' = "done"
            /\ UNCHANGED <<networks, currentNet>>
       ELSE /\ pc' = "loop"
            /\ \E n \in Least(networks) :
                 /\ currentNet' = {n}
                 /\ networks' = networks (-) SetToBag({n})
    /\ UNCHANGED <<debug, mIpAddresses, ipsDone, twins>>

\* No network follows.
LastOne(cur) ==
    /\ Least(networks) = {}
    /\ ipsDone' = With(ipsDone, cur)
    /\ currentNet' = {}
    /\ pc' = "done"
    /\ UNCHANGED <<debug, mIpAddresses, networks, twins>>

\* Mutant: networks that touch in one address do not overlap.
MutantApart(cur, n) == Last(cur) <= n.first

Apart(cur, n) == Last(cur) < n.first

\* Mutant: the sizes are not compared.
MutantBegins(cur, n) == cur.first = n.first

\* cur is n or its beginning
Begins(cur, n) == cur.first = n.first /\ cur.mask >= n.mask

\* The networks do not overlap: the current one is done.
Done(cur, n) ==
    /\ Apart(cur, n)
    /\ ipsDone' = With(ipsDone, cur)
    /\ currentNet' = {n}
    /\ networks' = networks (-) SetToBag({n})
    /\ UNCHANGED <<debug, mIpAddresses, pc, twins>>

\* The current network is the beginning of the next, of the same type.
Forget(cur, n) ==
    /\ ~Apart(cur, n) /\ Begins(cur, n)
    /\ cur.included = n.included
    /\ currentNet' = {n}
    /\ networks' = networks (-) SetToBag({n})
    /\ UNCHANGED <<debug, mIpAddresses, ipsDone, pc, twins>>

\* Assertions of the branch that splits the next network
NextAsserts(cur, n) ==
    /\ SplitsEvenly(n)
    /\ Last(FirstHalf(n)) = Last(cur) => FirstHalf(n).mask = cur.mask

\* Mutant: the lower half is queued even if it is the current network.
MutantSplitNext(cur, n) ==
    /\ ~Apart(cur, n) /\ Begins(cur, n)
    /\ cur.included # n.included
    /\ LET rest == networks (-) SetToBag({n})
       IN  networks' = Queue(Queue(rest, SecondHalf(n)), FirstHalf(n))
    /\ UNCHANGED <<debug, mIpAddresses, currentNet, ipsDone, pc, twins>>

\* It is, of another type: the halves of the next take its place, except one
\* that is the current network.
SplitNext(cur, n) ==
    /\ ~Apart(cur, n) /\ Begins(cur, n)
    /\ cur.included # n.included
    /\ debug => NextAsserts(cur, n)
    /\ LET rest == networks (-) SetToBag({n})
           upper == IF contains(rest, SecondHalf(n)) THEN rest
                    ELSE Queue(rest, SecondHalf(n))
       IN  networks' = IF \/ Last(FirstHalf(n)) = Last(cur)
                          \/ contains(upper, FirstHalf(n))
                       THEN upper
                       ELSE Queue(upper, FirstHalf(n))
    /\ UNCHANGED <<debug, mIpAddresses, currentNet, ipsDone, pc, twins>>

\* Mutant: the next network has to end before the current one.
MutantInsideAsserts(cur, n) ==
    /\ cur.mask < n.mask
    /\ n.first > cur.first
    /\ Last(cur) > Last(n)

\* Assertions of the branch for a next network inside the current one
InsideAsserts(cur, n) ==
    /\ cur.mask < n.mask
    /\ n.first > cur.first
    /\ Last(cur) >= Last(n)

\* Mutant: the next network is queued again.
MutantIgnore(cur, n) ==
    /\ ~Apart(cur, n) /\ ~Begins(cur, n)
    /\ cur.included = n.included
    /\ debug => InsideAsserts(cur, n)
    /\ UNCHANGED <<debug, mIpAddresses, networks, currentNet, ipsDone, pc, twins>>

\* The next network lies in the current one, of the same type.
Ignore(cur, n) ==
    /\ ~Apart(cur, n) /\ ~Begins(cur, n)
    /\ cur.included = n.included
    /\ debug => InsideAsserts(cur, n)
    /\ networks' = networks (-) SetToBag({n})
    /\ UNCHANGED <<debug, mIpAddresses, currentNet, ipsDone, pc, twins>>

\* Assertions of the branch that splits the current network
CurrentAsserts(cur, n) ==
    /\ InsideAsserts(cur, n)
    /\ SplitsEvenly(cur)
    /\ SecondHalf(cur).mask = n.mask =>
         /\ SecondHalf(cur).first = n.first
         /\ Last(SecondHalf(cur)) = Last(cur)

\* It is of another type: the first half is the current network, the second is
\* queued unless it is the next network. The next network is queued again.
SplitCurrent(cur, n) ==
    /\ ~Apart(cur, n) /\ ~Begins(cur, n)
    /\ cur.included # n.included
    /\ debug => CurrentAsserts(cur, n)
    /\ IF SecondHalf(cur).mask = n.mask
       THEN UNCHANGED <<networks, twins>>
       ELSE /\ networks' = Queue(networks, SecondHalf(cur))
            /\ twins' = (twins \/ Twin(networks, SecondHalf(cur)))
    /\ currentNet' = {FirstHalf(cur)}
    /\ UNCHANGED <<debug, mIpAddresses, ipsDone, pc>>

\* An assertion fails.
Throws(cur, n) ==
    /\ debug /\ ~Apart(cur, n)
    /\ IF Begins(cur, n)
       THEN cur.included # n.included /\ ~NextAsserts(cur, n)
       ELSE IF cur.included = n.included THEN ~InsideAsserts(cur, n)
            ELSE ~CurrentAsserts(cur, n)
    /\ pc' = "thrown"
    /\ networks' = networks (-) SetToBag({n})
    /\ UNCHANGED <<debug, mIpAddresses, currentNet, ipsDone, twins>>

Iterate ==
    /\ pc = "loop"
    /\ \E cur \in currentNet :
         \/ LastOne(cur)
         \/ \E n \in Least(networks) :
              \/ Done(cur, n) \/ Forget(cur, n) \/ SplitNext(cur, n)
              \/ Ignore(cur, n) \/ SplitCurrent(cur, n) \/ Throws(cur, n)

Next == Start \/ Iterate

Spec == Init /\ [][Next]_vars /\ WF_vars(Next)

-----------------------------------------------------------------------------
\* Every variable has a value of its kind.
Nets == [first : 0..Pow2[BITS], mask : 0..(BITS + 1), included : BOOLEAN]

TypeOK ==
    /\ debug \in BOOLEAN
    /\ mIpAddresses \subseteq Nets
    /\ BagToSet(networks) \subseteq Nets /\ IsABag(networks)
    /\ currentNet \subseteq Nets /\ Cardinality(currentNet) <= 1
    /\ ipsDone \subseteq Nets
    /\ pc \in {"start", "loop", "done", "thrown"}
    /\ twins \in BOOLEAN

\* What a set of networks says of an address: the type of the smallest network
\* around it
Around(S, a) == {n \in S : n.first <= a /\ a <= Last(n)}

Says(S, a) ==
    \E n \in Around(S, a) : n.included /\ \A k \in Around(S, a) : k.mask <= n.mask

\* A network begins with a smaller one of the other type, and lies in a larger
\* one of that type.  The loop meets the smallest first, and while the largest
\* is the current network it takes it for a part of that.
Within(n, k) == k.first <= n.first /\ Last(n) <= Last(k) /\ k.mask < n.mask

Sandwich ==
    \E n, k, l \in mIpAddresses :
        /\ Within(n, k) /\ Within(k, l) /\ n.first = k.first
        /\ n.included # k.included /\ l.included = n.included

\* The networks that are left to go through, and those that are done, say of
\* every address what the input says of it, and leave no address out: at every
\* moment of the loop (generateIPList), except on two kinds of input: one with
\* a Sandwich, and one for which the loop has queued a half beside an equal
\* network of the other type.
Covers ==
    pc # "thrown" /\ ~twins /\ ~Sandwich =>
        LET now == ipsDone \cup currentNet \cup BagToSet(networks)
        IN  \A a \in Addresses :
              /\ (Around(now, a) = {}) = (Around(mIpAddresses, a) = {})
              /\ Says(now, a) = Says(mIpAddresses, a)

\* Networks that are done overlap with no other and with nothing that is left.
Separate ==
    /\ \A n, k \in ipsDone : n # k => Last(n) < k.first \/ Last(k) < n.first
    /\ \A n \in ipsDone, k \in currentNet \cup BagToSet(networks) : Last(n) < k.first

\* No assertion fails before that has happened.
AssertsHold == pc = "thrown" => twins

\* The loop ends, whatever was queued.
Terminates == <>(pc \in {"done", "thrown"})

\* What the assertions of the branch for networks inside the current one say:
\* none of them ever fails.
NoAssertFails == pc # "thrown"
=============================================================================
