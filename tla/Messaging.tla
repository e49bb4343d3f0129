----------------------------- MODULE Messaging -----------------------------
(***************************************************************************)
(* The registry of messaging channels (messaging/registry.rs) with the     *)
(* peer-to-peer channels it holds (messaging/platforms/p2p.rs).  The map   *)
(* of the registry and every channel are under a read-write lock of their  *)
(* own; a sender keeps the channel's read guard, and a broadcast the map's *)
(* as well, while it waits for room in the channel's outgoing queue.  The  *)
(* network layer takes messages out of that queue through a receiver that  *)
(* it got from the channel, and needs neither lock.                        *)
(***************************************************************************)
EXTENDS Integers, FiniteSets, Sequences

CONSTANTS
    Link,          \* channel instances
    NameOf,        \* the id an instance is registered under
    User,          \* tasks that call the registry
    max_pending,   \* capacity of an outgoing queue
    MaxCalls       \* bound: calls of the registry

VARIABLES
    channels,      \* the instances in the map, one of a name at most
    connected,     \* P2pChannel::connected
    outgoing,      \* messages queued, by the task that sent them
    sent, taken,   \* stats.messages_sent; what the network layer took
    user,          \* [at, op, link, todo] of each task
    mapGuards,     \* [read, write]: the tasks that hold the map's lock
    linkGuards,    \* the same for each channel
    calls, replaced

messagingVars == <<channels, connected, outgoing, sent, taken, user, mapGuards,
                   linkGuards, calls, replaced>>

NoLink == "none"

ASSUME MessagingAssumption ==
    IsFiniteSet(User) /\ NoLink \notin Link /\ max_pending \in Nat /\ MaxCalls \in Nat

Resting == [at |-> "ready", op |-> "none", link |-> NoLink, todo |-> {}]
Free == [read |-> {}, write |-> {}]
Guards == [read : SUBSET User, write : SUBSET User]
Op == {"send", "broadcast", "connect", "disconnect", "register", "remove"}

MessagingTypeOK ==
    /\ channels \subseteq Link
    /\ connected \in [Link -> BOOLEAN]
    /\ outgoing \in [Link -> Seq(User)]
    /\ \A l \in Link : Len(outgoing[l]) <= max_pending
    /\ sent \in [Link -> Nat] /\ taken \in [Link -> Nat]
    /\ user \in [User -> [at : {"ready", "enter", "next", "queue", "count"},
                          op : Op \cup {"none"}, link : Link \cup {NoLink},
                          todo : SUBSET Link]]
    /\ mapGuards \in Guards
    /\ linkGuards \in [Link -> Guards]
    /\ calls \in 0..MaxCalls /\ replaced \subseteq Link

MessagingInit ==
    /\ channels = {} /\ replaced = {}
    /\ connected = [l \in Link |-> FALSE]
    /\ outgoing = [l \in Link |-> <<>>]
    /\ sent = [l \in Link |-> 0] /\ taken = [l \in Link |-> 0]
    /\ user = [u \in User |-> Resting]
    /\ mapGuards = Free
    /\ linkGuards = [l \in Link |-> Free]
    /\ calls = 0

CanRead(g) == g.write = {}
CanWrite(g) == g.write = {} /\ g.read = {}
Reading(g, u) == [g EXCEPT !.read = @ \cup {u}]
Writing(g, u) == [g EXCEPT !.write = {u}]
Released(g, u) == [read |-> g.read \ {u}, write |-> g.write \ {u}]

links == <<connected, outgoing, sent, taken>>

Called(u) == user[u].at = "ready" /\ calls < MaxCalls /\ calls' = calls + 1

-----------------------------------------------------------------------------
\* register: an instance under the same name is replaced, as it is.
RegisterLink(u, l) ==
    /\ Called(u) /\ CanRead(mapGuards) /\ CanWrite(mapGuards) /\ l \notin channels \cup replaced
    /\ LET old == {k \in channels : NameOf[k] = NameOf[l]} IN
       /\ channels' = (channels \ old) \cup {l}
       /\ replaced' = replaced \cup old
    /\ UNCHANGED <<links, user, mapGuards, linkGuards>>

\* get, then ChannelHandle::send on the handle.
Send(u, l) ==
    /\ Called(u) /\ CanRead(mapGuards) /\ l \in channels
    /\ user' = [user EXCEPT ![u] = [at |-> "enter", op |-> "send", link |-> l, todo |-> {}]]
    /\ UNCHANGED <<channels, links, mapGuards, linkGuards, replaced>>

\* Mutant: connect_all and disconnect_all work on a copy of the map.
BeginOnCopy(u, op) ==
    /\ Called(u) /\ CanRead(mapGuards)
    /\ mapGuards' = IF op = "broadcast" THEN Reading(mapGuards, u) ELSE mapGuards
    /\ user' = [user EXCEPT ![u] = [at |-> "next", op |-> op, link |-> NoLink, todo |-> channels]]
    /\ UNCHANGED <<channels, links, linkGuards, replaced>>

\* broadcast, connect_all, disconnect_all: the map's read guard is kept
\* to the end.
Begin(u, op) ==
    /\ Called(u) /\ CanRead(mapGuards)
    /\ mapGuards' = Reading(mapGuards, u)
    /\ user' = [user EXCEPT ![u] = [at |-> "next", op |-> op, link |-> NoLink, todo |-> channels]]
    /\ UNCHANGED <<channels, links, linkGuards, replaced>>

\* remove: the map's write guard is kept while the channel is disconnected.
Remove(u, l) ==
    /\ Called(u) /\ CanWrite(mapGuards) /\ l \in channels
    /\ mapGuards' = Writing(mapGuards, u)
    /\ channels' = channels \ {l}
    /\ user' = [user EXCEPT ![u] = [at |-> "next", op |-> "remove", link |-> NoLink, todo |-> {l}]]
    /\ UNCHANGED <<links, linkGuards, replaced>>

\* The next channel of the loop; those of a broadcast that are not enabled
\* are not in todo.
NextLink(u) ==
    /\ user[u].at = "next"
    /\ \E l \in user[u].todo :
         user' = [user EXCEPT ![u].at = "enter", ![u].link = l, ![u].todo = @ \ {l}]
    /\ UNCHANGED <<channels, links, mapGuards, linkGuards, calls, replaced>>

EndLoop(u) ==
    /\ user[u].at = "next" /\ user[u].todo = {}
    /\ user' = [user EXCEPT ![u] = Resting]
    /\ mapGuards' = Released(mapGuards, u)
    /\ UNCHANGED <<channels, links, linkGuards, calls, replaced>>

\* connect and disconnect under the channel's write guard.
SetConnected(u) ==
    LET l == user[u].link IN
    /\ user[u].at = "enter" /\ user[u].op \in {"connect", "disconnect", "remove"}
    /\ CanWrite(linkGuards[l])
    /\ connected' = [connected EXCEPT ![l] = user[u].op = "connect"]
    /\ user' = [user EXCEPT ![u].at = "next", ![u].link = NoLink]
    /\ UNCHANGED <<channels, outgoing, sent, taken, mapGuards, linkGuards, calls, replaced>>

\* Where a send goes on: out of ChannelHandle::send, or with the broadcast.
AfterSend(u) ==
    IF user[u].op = "send" THEN Resting
    ELSE [user[u] EXCEPT !.at = "next", !.link = NoLink]

\* Mutant: the guard is given back before the wait for room.
EnterUnguarded(u) ==
    LET l == user[u].link IN
    /\ user[u].at = "enter" /\ user[u].op \in {"send", "broadcast"}
    /\ CanRead(linkGuards[l])
    /\ user' = [user EXCEPT ![u] = IF connected[l] THEN [@ EXCEPT !.at = "queue"] ELSE AfterSend(u)]
    /\ UNCHANGED <<channels, links, mapGuards, linkGuards, calls, replaced>>

\* P2pChannel::send: not connected is an error, at once.
Enter(u) ==
    LET l == user[u].link IN
    /\ user[u].at = "enter" /\ user[u].op \in {"send", "broadcast"}
    /\ CanRead(linkGuards[l])
    /\ IF connected[l]
       THEN /\ linkGuards' = [linkGuards EXCEPT ![l] = Reading(@, u)]
            /\ user' = [user EXCEPT ![u].at = "queue"]
       ELSE /\ user' = [user EXCEPT ![u] = AfterSend(u)]
            /\ UNCHANGED linkGuards
    /\ UNCHANGED <<channels, links, mapGuards, calls, replaced>>

\* outgoing_tx.send, once there is room.
Queue(u) ==
    LET l == user[u].link IN
    /\ user[u].at = "queue" /\ Len(outgoing[l]) < max_pending
    /\ outgoing' = [outgoing EXCEPT ![l] = Append(@, u)]
    /\ user' = [user EXCEPT ![u].at = "count"]
    /\ UNCHANGED <<channels, connected, sent, taken, mapGuards, linkGuards, calls, replaced>>

\* Mutant: the second of two senders overwrites the first one's count.
CountLost(u) ==
    LET l == user[u].link IN
    /\ user[u].at = "count"
    /\ sent' = [sent EXCEPT ![l] = taken[l] + 1]
    /\ linkGuards' = [linkGuards EXCEPT ![l] = Released(@, u)]
    /\ user' = [user EXCEPT ![u] = AfterSend(u)]
    /\ UNCHANGED <<channels, connected, outgoing, taken, mapGuards, calls, replaced>>

Count(u) ==
    LET l == user[u].link IN
    /\ user[u].at = "count"
    /\ sent' = [sent EXCEPT ![l] = @ + 1]
    /\ linkGuards' = [linkGuards EXCEPT ![l] = Released(@, u)]
    /\ user' = [user EXCEPT ![u] = AfterSend(u)]
    /\ UNCHANGED <<channels, connected, outgoing, taken, mapGuards, calls, replaced>>

\* Mutant: the queue is emptied through receive, which wants the channel alone.
DrainAlone(l) ==
    /\ outgoing[l] # <<>> /\ CanWrite(linkGuards[l])
    /\ outgoing' = [outgoing EXCEPT ![l] = Tail(@)]
    /\ taken' = [taken EXCEPT ![l] = @ + 1]
    /\ UNCHANGED <<channels, connected, sent, user, mapGuards, linkGuards, calls, replaced>>

\* The network layer, with outgoing_receiver.
Drain(l) ==
    /\ outgoing[l] # <<>>
    /\ outgoing' = [outgoing EXCEPT ![l] = Tail(@)]
    /\ taken' = [taken EXCEPT ![l] = @ + 1]
    /\ UNCHANGED <<channels, connected, sent, user, mapGuards, linkGuards, calls, replaced>>

Step(u) ==
    NextLink(u) \/ EndLoop(u) \/ SetConnected(u) \/ Enter(u) \/ Queue(u) \/ Count(u)

MessagingNext ==
    \/ \E u \in User :
        \/ \E l \in Link : RegisterLink(u, l) \/ Send(u, l) \/ Remove(u, l)
        \/ \E op \in {"broadcast", "connect", "disconnect"} : Begin(u, op)
        \/ Step(u)
    \/ \E l \in Link : Drain(l)

MessagingSpec == MessagingInit /\ [][MessagingNext]_messagingVars

\* A task whose guard is free runs on, and the network layer empties the queues.
MessagingFairSpec ==
    MessagingSpec /\ \A u \in User : WF_messagingVars(Step(u)) /\ \A l \in Link : WF_messagingVars(Drain(l))

-----------------------------------------------------------------------------
\* Properties.

\* A sender checks the connection and then waits, for as long as the queue is
\* full; nothing is queued on a channel that was disconnected meanwhile.
QueuedWhileConnected ==
    [][\A l \in Link : Len(outgoing'[l]) > Len(outgoing[l]) => connected[l]]_messagingVars

\* The senders between the queue of a channel and its count.
Uncounted(l) == {u \in User : user[u].at = "count" /\ user[u].link = l}

\* messages_sent is counted after the message was queued and may lag behind
\* what the network layer already took, by the sends under way and no more.
SentAccounted ==
    \A l \in Link : sent[l] + Cardinality(Uncounted(l)) = taken[l] + Len(outgoing[l])

\* A channel taken out of the registry stays disconnected although connect_all
\* may be running; one that another instance replaced is never disconnected.
RemovedStaysDisconnected ==
    \A l \in Link \ (channels \cup replaced) :
        connected[l] => \E u \in User : user[u].op = "remove" /\
                            (l \in user[u].todo \/ user[u].link = l)

\* A message is queued on a link only while that is connected, the counts of
\* a link are what was sent on it, and one that was removed stays disconnected
\* (messaging/registry.rs, messaging/platforms/p2p.rs).
LinksSound == QueuedWhileConnected /\ [](SentAccounted /\ RemovedStaysDisconnected)

\* Senders wait for room with one or two guards in their hands, others wait for
\* those guards; as long as the network layer takes messages all come through.
EveryCallEnds == \A u \in User : user[u].at # "ready" ~> user[u].at = "ready"

=============================================================================
