---------------------------- MODULE P2pNetwork ----------------------------
(***************************************************************************)
(* The network controller (p2p/mod.rs).  libp2p opens and closes           *)
(* connections, several to one peer when both ends dial, and queues one    *)
(* event for each; handle_swarm_event_internal keeps connected_peers from  *)
(* those events and translates them into NetworkEvents for its caller.     *)
(***************************************************************************)
EXTENDS Integers, SequencesExt

CONSTANTS
    Peer,
    MaxConnections,   \* bound: connections open to one peer at a time
    MaxSwarmQueue     \* bound: libp2p events not yet polled

VARIABLES
    connections,      \* connections libp2p has open to each peer
    swarmQueue,       \* libp2p's events, in order
    connected_peers,  \* Network::connected_peers
    cutOff            \* history: peers whose last event was the end of a
                      \* connection, with another one open

netVars == <<connections, swarmQueue, connected_peers, cutOff>>

Event(kind, p) == [kind |-> kind, peer |-> p]

NoEvent == [kind |-> "none"]

SwarmEvents == {Event(k, p) : k \in {"established", "closed", "message"}, p \in Peer}

NetworkEvents == {NoEvent} \cup
    {Event(k, p) : k \in {"connected", "disconnected", "message"}, p \in Peer}

NetTypeOK ==
    /\ connections \in [Peer -> 0..MaxConnections]
    /\ swarmQueue \in Seq(SwarmEvents) /\ Len(swarmQueue) <= MaxSwarmQueue
    /\ connected_peers \subseteq Peer /\ cutOff \subseteq Peer

NetInit ==
    /\ connections = [p \in Peer |-> 0]
    /\ swarmQueue = <<>>
    /\ connected_peers = {} /\ cutOff = {}

-----------------------------------------------------------------------------
(* What libp2p does on its own. *)

Announce(e) ==
    /\ Len(swarmQueue) < MaxSwarmQueue
    /\ swarmQueue' = Append(swarmQueue, e)
    /\ UNCHANGED <<connected_peers, cutOff>>

Connect(p) ==
    /\ connections[p] < MaxConnections
    /\ connections' = [connections EXCEPT ![p] = @ + 1]
    /\ Announce(Event("established", p))

Disconnect(p) ==
    /\ connections[p] > 0
    /\ connections' = [connections EXCEPT ![p] = @ - 1]
    /\ Announce(Event("closed", p))

\* mDNS finds a peer, or a gossip message arrives.
Receive(p) ==
    /\ Announce(Event("message", p))
    /\ UNCHANGED connections

Libp2p == \E p \in Peer : Connect(p) \/ Disconnect(p) \/ Receive(p)

-----------------------------------------------------------------------------
(* handle_swarm_event_internal: each event changes the set of peers and is *)
(* returned, translated. *)

Translate(e) ==
    CASE e.kind = "established" -> Event("connected", e.peer)
      [] e.kind = "closed" -> Event("disconnected", e.peer)
      [] OTHER -> e

\* Mutant: the handler of ConnectionClosed forgets the set.
PeersAfterKeepsClosed(e) ==
    IF e.kind = "established" THEN connected_peers \cup {e.peer} ELSE connected_peers

PeersAfter(e) ==
    CASE e.kind = "established" -> connected_peers \cup {e.peer}
      [] e.kind = "closed" -> connected_peers \ {e.peer}
      [] OTHER -> connected_peers

-----------------------------------------------------------------------------
\* The connections to p as the events handled so far tell them.
Told(p, handling) ==
    LET untold == handling \o swarmQueue
        Count(kind) == Len(SelectSeq(untold, LAMBDA e : e = Event(kind, p)))
    IN  connections[p] - Count("established") + Count("closed")

CutOffAfter(e) ==
    CASE e.kind = "established" -> cutOff \ {e.peer}
      [] e.kind = "closed" /\ Told(e.peer, <<>>) > 0 -> cutOff \cup {e.peer}
      [] e.kind = "closed" -> cutOff \ {e.peer}
      [] OTHER -> cutOff

=============================================================================
