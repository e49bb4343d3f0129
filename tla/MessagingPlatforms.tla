------------------------- MODULE MessagingPlatforms -------------------------
(* Three platforms of the messaging registry (messaging/platforms/): the   *)
(* console, the webhook link, and the incoming side of the peer-to-peer    *)
(* channel.                                                                *)
EXTENDS Naturals, Sequences, Integers, SequencesExt, FiniteSets

CONSTANTS
  Line, Quit, Blank,  \* what may be typed: text, a quit command, an empty line
  QueueSize,          \* of the queue of messages
  MaxLines, MaxConnections, \* bounds on the lines typed and on the connections
    Post,          \* payloads posted to the incoming path, one each
    Outgoing,      \* messages to send
    Shape,         \* what a payload may have under each name
    outgoing_url,  \* whether there is a URL to send to
    QueueCapacity, \* capacity of the queue (256)
    MaxConnects,    \* bound on the connections followed
    Peer,
    Message, SenderOf,   \* messages, and the peer each is from
    max_pending,         \* capacity of the queue
    MaxInboxConnects          \* bound

VARIABLES
  typed,     \* how many of the lines typed a thread has taken
  entered,   \* all the lines typed
  replConnected, \* ReplChannel::connected, the number of the connection, 0 if none
  readers,   \* connections made so far, each with a task
  replAt,        \* of each task
  line,      \* what its thread read
  replTold,      \* tasks with a message in their shutdown channel
  threads,   \* tasks whose thread waits for a line
  queue,     \* of each task
  received,  \* positions of the lines returned by receive
  lost,       \* positions of lines that nobody will get
    hookConnected, client,  \* the link
    hookIncoming,           \* its queue
    post, payload,      \* where each post is, and what it says
    hookReceiving,          \* whether a receive waits, with the link for itself
    send, sendTold,         \* where each send is, and what it returned
    server,             \* the messages the other side took
    taken,              \* history: the posts that were received
    accepted,           \* history: the posts that got into the queue
    hookConnects,            \* connections so far
    blocked_peers, allowed_peers, accept_unknown_peers,
    inboxConnected, inboxConnects,
    inboxQueue,    \* the queue
    messageAt,          \* where each message is
    direct,      \* those that came through the sender
    stats,
    inboxReceiving    \* whether somebody waits in receive, with the write guard

-----------------------------------------------------------------------------
(* The console as a channel (messaging/platforms/repl.rs).  Every connection  *)
(* starts a task that reads stdin, a line at a time on a thread of its own,   *)
(* and queues what it reads; a disconnection tells the task to end, but the   *)
(* thread goes on to take one more line, which nobody gets.                   *)

replVars == <<typed, entered, replConnected, readers, replAt, line, replTold, threads, queue, received, lost>>
Task == 1..MaxConnections
Position == 1..MaxLines

ReplTypeOK ==
  /\ entered \in Seq(Line \cup {Quit, Blank}) /\ Len(entered) <= MaxLines
  /\ typed \in 0..MaxLines
  /\ replConnected \in 0..MaxConnections /\ readers \in 0..MaxConnections
  /\ replAt \in [Task -> {"none", "reading", "sending", "ended"}]
  /\ line \in [Task -> 0..MaxLines] /\ replTold \subseteq Task /\ threads \subseteq Task
  /\ queue \in [Task -> Seq(Position)]
  /\ received \in Seq(Position) /\ lost \subseteq Position

ReplInit ==
  /\ typed = 0 /\ entered = <<>> /\ replConnected = 0 /\ readers = 0
  /\ replAt = [r \in Task |-> "none"] /\ line = [r \in Task |-> 0]
  /\ replTold = {} /\ threads = {} /\ queue = [r \in Task |-> <<>>]
  /\ received = <<>> /\ lost = {}

Goes(r, step) == replAt' = [replAt EXCEPT ![r] = step]

\* The user; typed counts the lines that a thread has taken.
Type ==
  /\ Len(entered) < MaxLines
  /\ \E l \in Line \cup {Quit, Blank} : entered' = Append(entered, l)
  /\ UNCHANGED <<typed, replConnected, readers, replAt, line, replTold, threads, queue, received, lost>>

ReplConnect ==
  /\ replConnected = 0 /\ readers < MaxConnections
  /\ readers' = readers + 1 /\ replConnected' = readers'
  /\ Goes(readers', "reading") /\ threads' = threads \cup {readers'}
  /\ UNCHANGED <<typed, entered, line, replTold, queue, received, lost>>

\* The shutdown channel has room for its one message; the queue is dropped.
ReplDisconnect ==
  /\ replConnected # 0 /\ replConnected' = 0
  /\ replTold' = replTold \cup {replConnected}
  /\ lost' = lost \cup {queue[replConnected][i] : i \in DOMAIN queue[replConnected]}
  /\ queue' = [queue EXCEPT ![replConnected] = <<>>]
  /\ UNCHANGED <<typed, entered, readers, replAt, line, threads, received>>

\* A thread takes the next line: stdin is locked by the first that asked.
TakeLine(r) ==
  /\ r \in threads /\ \A s \in threads : r <= s
  /\ typed < Len(entered)
  /\ typed' = typed + 1 /\ threads' = threads \ {r}
  /\ IF replAt[r] = "ended" THEN lost' = lost \cup {typed'} /\ UNCHANGED line
     ELSE line' = [line EXCEPT ![r] = typed'] /\ UNCHANGED lost
  /\ UNCHANGED <<entered, replConnected, readers, replAt, replTold, queue, received>>

\* The select takes the line, or the shutdown if that is there too.
HandleLine(r) ==
  /\ replAt[r] = "reading" /\ r \notin threads
  /\ LET text == entered[line[r]] IN
       \/ text = Blank /\ threads' = threads \cup {r} /\ UNCHANGED replAt
       \/ text = Quit /\ Goes(r, "ended") /\ UNCHANGED threads
       \/ text \in Line /\ Goes(r, "sending") /\ UNCHANGED threads
  /\ UNCHANGED <<typed, entered, replConnected, readers, line, replTold, queue, received, lost>>

Shutdown(r) ==
  /\ replAt[r] = "reading" /\ r \in replTold
  /\ Goes(r, "ended") /\ replTold' = replTold \ {r}
  /\ lost' = lost \cup (IF r \in threads THEN {} ELSE {line[r]})
  /\ UNCHANGED <<typed, entered, replConnected, readers, line, threads, queue, received>>

\* Mutant: a line that finds the queue full is dropped.
SendLineTries(r) ==
  /\ replAt[r] = "sending"
  /\ IF replConnected = r /\ Len(queue[r]) < QueueSize
     THEN queue' = [queue EXCEPT ![r] = Append(@, line[r])] ELSE UNCHANGED queue
  /\ Goes(r, "reading") /\ threads' = threads \cup {r}
  /\ UNCHANGED <<typed, entered, replConnected, readers, line, replTold, received, lost>>

\* The task waits for room; without a receiver it ends.
SendLine(r) ==
  /\ replAt[r] = "sending"
  /\ \/ /\ replConnected = r /\ Len(queue[r]) < QueueSize
        /\ queue' = [queue EXCEPT ![r] = Append(@, line[r])]
        /\ Goes(r, "reading") /\ threads' = threads \cup {r} /\ UNCHANGED lost
     \/ /\ replConnected # r
        /\ Goes(r, "ended") /\ lost' = lost \cup {line[r]}
        /\ UNCHANGED <<queue, threads>>
  /\ UNCHANGED <<typed, entered, replConnected, readers, line, replTold, received>>

ReplReceive ==
  /\ replConnected # 0 /\ queue[replConnected] # <<>>
  /\ received' = Append(received, Head(queue[replConnected]))
  /\ queue' = [queue EXCEPT ![replConnected] = Tail(@)]
  /\ UNCHANGED <<typed, entered, replConnected, readers, replAt, line, replTold, threads, lost>>

ReplNext ==
  \/ Type \/ ReplConnect \/ ReplDisconnect \/ ReplReceive
  \/ \E r \in Task : TakeLine(r) \/ HandleLine(r) \/ Shutdown(r) \/ SendLine(r)
-----------------------------------------------------------------------------
InHand == {line[r] : r \in {q \in Task : replAt[q] = "sending" \/ (replAt[q] = "reading" /\ q \notin threads)}}
Queued == UNION {{queue[r][i] : i \in DOMAIN queue[r]} : r \in Task}
Got == {received[i] : i \in DOMAIN received}

\* The lines received come in the order they were typed, each once, and one
\* that a thread took is received, on its way, no message, or lost with a
\* disconnection: those in the queue, the one in hand and the one the old
\* thread takes (messaging/platforms/repl.rs:94).
LinesAccounted ==
  /\ \A i, j \in DOMAIN received : i < j => received[i] < received[j]
  /\ \A p \in 1..typed :
       \/ p \in Got \cup InHand \cup Queued \cup lost
       \/ entered[p] \in {Quit, Blank}
  /\ lost # {} => readers > (IF replConnected = 0 THEN 0 ELSE 1)

-----------------------------------------------------------------------------
(***************************************************************************)
(* The webhook link of the messaging registry                              *)
(* (messaging/platforms/webhook.rs).  An HTTP handler puts what is posted  *)
(* into a bounded queue, which outlives the connections; calls that change *)
(* the link have it alone, sends share it.                                 *)
(***************************************************************************)

hookVars == <<hookConnected, client, hookIncoming, post, payload, hookReceiving, send, sendTold, server, taken,
          accepted, hookConnects>>

linkVars == <<hookConnected, client, hookConnects>>
postVars == <<hookIncoming, post, payload, taken, accepted>>
sendVars == <<send, sendTold, server>>

Field == {"message", "text", "content"}
Value == {"absent", "string", "other"}

HookTypeOK ==
    /\ hookConnected \in BOOLEAN /\ client \in BOOLEAN /\ hookReceiving \in BOOLEAN
    /\ Range(hookIncoming) \subseteq Post /\ Len(hookIncoming) <= QueueCapacity
    /\ post \in [Post -> {"new", "sending", "queued", "refused"}]
    /\ payload \in [Post -> [Field -> Value]]
    /\ send \in [Outgoing -> {"new", "posting", "done"}]
    /\ sendTold \in [Outgoing -> {"none", "sent", "not connected", "error"}]
    /\ server \subseteq Outgoing
    /\ Range(taken) \cup Range(accepted) \subseteq Post
    /\ hookConnects \in 0..MaxConnects

HookInit ==
    /\ hookConnected = FALSE /\ client = FALSE /\ hookReceiving = FALSE
    /\ hookIncoming = <<>> /\ taken = <<>> /\ accepted = <<>>
    /\ post = [p \in Post |-> "new"]
    /\ payload = [p \in Post |-> [f \in Field |-> "absent"]]
    /\ send = [m \in Outgoing |-> "new"] /\ sendTold = [m \in Outgoing |-> "none"]
    /\ server = {} /\ hookConnects = 0

-----------------------------------------------------------------------------
(* The link. *)

\* No call of the link is under way that would keep &mut self out.
Alone == ~hookReceiving /\ \A m \in Outgoing : send[m] # "posting"

HookConnect ==
    /\ Alone /\ ~hookConnected /\ hookConnects < MaxConnects
    /\ hookConnected' = TRUE /\ client' = TRUE
    /\ hookConnects' = hookConnects + 1
    /\ UNCHANGED <<hookReceiving, postVars, sendVars>>

\* Mutant: what came in meanwhile is thrown away with the connection.
QueueDropped ==
    /\ Alone /\ hookConnected
    /\ hookConnected' = FALSE /\ client' = FALSE
    /\ hookIncoming' = <<>>
    /\ UNCHANGED <<post, payload, taken, accepted, hookReceiving, sendVars, hookConnects>>

\* disconnect: the client goes, the queue stays.
HookDisconnect ==
    /\ Alone /\ hookConnected
    /\ hookConnected' = FALSE /\ client' = FALSE
    /\ UNCHANGED <<hookConnects, hookReceiving, postVars, sendVars>>

-----------------------------------------------------------------------------
(* Incoming messages. *)

\* Mutant: only the first name is looked for.
OnlyMessage(fields) == fields["message"] = "string"

\* parse_payload: the first of the names that is there has to be a string.
HasContent(fields) ==
    \/ fields["message"] = "string"
    \/ fields["message"] = "absent" /\ fields["text"] = "string"
    \/ fields["message"] = "absent" /\ fields["text"] = "absent"
       /\ fields["content"] = "string"

\* The HTTP handler parses the payload.
Parse(p) ==
    /\ post[p] = "new"
    /\ \E fields \in Shape :
        /\ payload' = [payload EXCEPT ![p] = fields]
        /\ post' = [post EXCEPT ![p] = IF HasContent(fields) THEN "sending" ELSE "refused"]
    /\ UNCHANGED <<linkVars, hookIncoming, taken, accepted, hookReceiving, sendVars>>

\* incoming_tx.send waits for a place.
HookEnqueue(p) ==
    /\ post[p] = "sending" /\ Len(hookIncoming) < QueueCapacity
    /\ hookIncoming' = Append(hookIncoming, p)
    /\ accepted' = Append(accepted, p)
    /\ post' = [post EXCEPT ![p] = "queued"]
    /\ UNCHANGED <<linkVars, payload, taken, hookReceiving, sendVars>>

\* receive: an error while not connected, else a wait with the link held.
HookReceive ==
    /\ Alone /\ hookConnected
    /\ hookReceiving' = TRUE
    /\ UNCHANGED <<linkVars, postVars, sendVars>>

\* The wait of receive ends, or try_receive finds a message.
HookTake ==
    /\ hookReceiving \/ (Alone /\ hookConnected)
    /\ hookIncoming # <<>>
    /\ taken' = Append(taken, Head(hookIncoming))
    /\ hookIncoming' = Tail(hookIncoming)
    /\ hookReceiving' = FALSE
    /\ UNCHANGED <<linkVars, post, payload, accepted, sendVars>>

-----------------------------------------------------------------------------
(* Outgoing messages. *)

Return(m, result) ==
    /\ send' = [send EXCEPT ![m] = "done"]
    /\ sendTold' = [sendTold EXCEPT ![m] = result]

Send(m) ==
    /\ send[m] = "new" /\ ~hookReceiving
    /\ CASE ~hookConnected -> Return(m, "not connected")
         [] hookConnected /\ ~outgoing_url -> Return(m, "sent")
         [] hookConnected /\ outgoing_url /\ ~client -> Return(m, "not connected")
         [] OTHER -> send' = [send EXCEPT ![m] = "posting"] /\ UNCHANGED sendTold
    /\ UNCHANGED <<linkVars, postVars, hookReceiving, server>>

\* Mutant: a response counts as success, whatever its status.
AnyResponse(m) ==
    /\ send[m] = "posting"
    /\ \/ server' = server \cup {m} /\ (Return(m, "sent") \/ Return(m, "error"))
       \/ UNCHANGED server /\ Return(m, "sent")
    /\ UNCHANGED <<linkVars, postVars, hookReceiving>>

\* The POST ends: taken with a status of success, taken and the answer lost
\* or late, or not taken.
Posted(m) ==
    /\ send[m] = "posting"
    /\ \/ server' = server \cup {m} /\ (Return(m, "sent") \/ Return(m, "error"))
       \/ UNCHANGED server /\ Return(m, "error")
    /\ UNCHANGED <<linkVars, postVars, hookReceiving>>

HookNext ==
    \/ HookConnect \/ HookDisconnect \/ HookReceive \/ HookTake
    \/ \E p \in Post : Parse(p) \/ HookEnqueue(p)
    \/ \E m \in Outgoing : Send(m) \/ Posted(m)

-----------------------------------------------------------------------------
\* Properties.

\* What got into the queue is received once and in order, however often the
\* link is disconnected meanwhile; and a payload that has its text under one of
\* the three names and no other gets there.
PostedIsReceived ==
    /\ taken \o hookIncoming = accepted
    /\ \A p \in Post :
        post[p] = "refused" =>
            ~\E f \in Field : /\ payload[p][f] = "string"
                              /\ \A g \in Field \ {f} : payload[p][g] = "absent"

\* A message reported as sent was taken by the other side if there is one, and
\* one sent over a link that was never connected reached nobody.
SentIsTaken ==
    /\ \A m \in Outgoing : sendTold[m] = "sent" => m \in server \/ ~outgoing_url
    /\ hookConnects = 0 => server = {} /\ \A m \in Outgoing : sendTold[m] # "sent"

-----------------------------------------------------------------------------
(***************************************************************************)
(* The incoming side of a peer-to-peer message channel                     *)
(* (messaging/platforms/p2p.rs), under the read-write lock of the handle   *)
(* it is registered with.  The network layer hands messages over with a    *)
(* read guard, through receive_from_network, or with none, through the     *)
(* sender it got from the channel; whoever receives holds the write guard  *)
(* until a message is there.  The outgoing side is in module Messaging.    *)
(***************************************************************************)

config == <<blocked_peers, allowed_peers, accept_unknown_peers>>
inboxVars == <<config, inboxConnected, inboxConnects, inboxQueue, messageAt, direct, stats, inboxReceiving>>

Place == {"new", "sending", "queued", "received", "rejected", "refused"}
In(places) == {m \in Message : messageAt[m] \in places}

InboxTypeOK ==
    /\ blocked_peers \subseteq Peer /\ allowed_peers \subseteq Peer
    /\ accept_unknown_peers \in BOOLEAN
    /\ inboxConnected \in BOOLEAN /\ inboxConnects \in 0..MaxInboxConnects
    /\ inboxQueue \in Seq(Message) /\ Len(inboxQueue) <= max_pending
    /\ messageAt \in [Message -> Place] /\ direct \subseteq Message
    /\ stats \in [messages_received : 0..Cardinality(Message),
                  messages_rejected : 0..Cardinality(Message), unique_peers : SUBSET Peer]
    /\ inboxReceiving \in BOOLEAN

InboxInit ==
    /\ blocked_peers \in SUBSET Peer /\ allowed_peers \in SUBSET Peer
    /\ accept_unknown_peers \in BOOLEAN
    /\ inboxConnected = FALSE /\ inboxConnects = 0
    /\ inboxQueue = <<>> /\ messageAt = [m \in Message |-> "new"] /\ direct = {}
    /\ stats = [messages_received |-> 0, messages_rejected |-> 0, unique_peers |-> {}]
    /\ inboxReceiving = FALSE

\* Mutant: the list of allowed peers comes first.
AllowedFirst(p) ==
    \/ p \in allowed_peers
    \/ allowed_peers = {} /\ p \notin blocked_peers /\ accept_unknown_peers

is_peer_allowed(p) ==
    /\ p \notin blocked_peers
    /\ IF allowed_peers = {} THEN accept_unknown_peers ELSE p \in allowed_peers

\* A message waiting for room holds the read guard, one who receives the write
\* guard.
CanRead == ~inboxReceiving
CanWrite == ~inboxReceiving /\ In({"sending"}) = {}

Moves(m, place) == messageAt' = [messageAt EXCEPT ![m] = place]

\* receive_from_network, up to the wait for room: the message is counted first.
ReceiveFromNetwork(m) ==
    /\ messageAt[m] = "new" /\ CanRead
    /\ LET p == SenderOf[m] IN
       CASE ~inboxConnected -> Moves(m, "refused") /\ UNCHANGED stats
         [] inboxConnected /\ ~is_peer_allowed(p) ->
              Moves(m, "rejected") /\ stats' = [stats EXCEPT !.messages_rejected = @ + 1]
         [] OTHER ->
              /\ Moves(m, "sending")
              /\ stats' = [stats EXCEPT !.messages_received = @ + 1, !.unique_peers = @ \cup {p}]
    /\ UNCHANGED <<config, inboxConnected, inboxConnects, inboxQueue, direct, inboxReceiving>>

InboxEnqueue(m) ==
    /\ messageAt[m] = "sending" /\ Len(inboxQueue) < max_pending
    /\ inboxQueue' = Append(inboxQueue, m) /\ Moves(m, "queued")
    /\ UNCHANGED <<config, inboxConnected, inboxConnects, direct, stats, inboxReceiving>>

\* incoming_sender: past the connection, the lists and the counts.
SendDirectly(m) ==
    /\ messageAt[m] = "new" /\ Len(inboxQueue) < max_pending
    /\ inboxQueue' = Append(inboxQueue, m) /\ Moves(m, "queued")
    /\ direct' = direct \cup {m}
    /\ UNCHANGED <<config, inboxConnected, inboxConnects, stats, inboxReceiving>>

InboxConnect ==
    /\ CanWrite /\ ~inboxConnected /\ inboxConnects < MaxInboxConnects
    /\ inboxConnected' = TRUE /\ inboxConnects' = inboxConnects + 1
    /\ UNCHANGED <<config, inboxQueue, messageAt, direct, stats, inboxReceiving>>

\* What is queued stays.
InboxDisconnect ==
    /\ CanWrite /\ inboxConnected
    /\ inboxConnected' = FALSE
    /\ UNCHANGED <<config, inboxConnects, inboxQueue, messageAt, direct, stats, inboxReceiving>>

\* try_receive is a receive that finds a message.
InboxReceive ==
    /\ CanWrite /\ inboxConnected
    /\ inboxReceiving' = TRUE
    /\ UNCHANGED <<config, inboxConnected, inboxConnects, inboxQueue, messageAt, direct, stats>>

InboxTake ==
    /\ inboxReceiving /\ inboxQueue # <<>>
    /\ inboxQueue' = Tail(inboxQueue) /\ Moves(Head(inboxQueue), "received")
    /\ inboxReceiving' = FALSE
    /\ UNCHANGED <<config, inboxConnected, inboxConnects, direct, stats>>

InboxNext ==
    \/ \E m \in Message : ReceiveFromNetwork(m) \/ InboxEnqueue(m) \/ SendDirectly(m)
    \/ InboxConnect \/ InboxDisconnect \/ InboxReceive \/ InboxTake

-----------------------------------------------------------------------------
\* A peer on the list of blocked ones, or missing on a list of allowed ones,
\* gets nothing through, however often the channel reconnects, but for what the
\* network layer puts into the queue itself (p2p.rs:136-150).
ListsObeyed ==
    \A m \in In({"sending", "queued", "received"}) \ direct :
        /\ SenderOf[m] \notin blocked_peers
        /\ allowed_peers # {} => SenderOf[m] \in allowed_peers

\* The counts are of the messages that passed the lists and of those that did
\* not; one that was counted is waiting, queued or received, also after a
\* disconnection, and its peer is among the peers met.
InboxAccounted ==
    LET passed == In({"sending", "queued", "received"}) \ direct IN
    /\ stats.messages_received = Cardinality(passed)
    /\ stats.messages_rejected = Cardinality(In({"rejected"}))
    /\ stats.unique_peers = {SenderOf[m] : m \in passed}
    /\ {inboxQueue[i] : i \in DOMAIN inboxQueue} = In({"queued"})

-----------------------------------------------------------------------------
\* The parts share no state and move one at a time.
vars == <<replVars, hookVars, inboxVars>>

Init == ReplInit /\ HookInit /\ InboxInit

TypeOK == ReplTypeOK /\ HookTypeOK /\ InboxTypeOK

Next ==
    \/ ReplNext /\ UNCHANGED <<hookVars, inboxVars>>
    \/ HookNext /\ UNCHANGED <<replVars, inboxVars>>
    \/ InboxNext /\ UNCHANGED <<replVars, hookVars>>

Spec == Init /\ [][Next]_vars
=============================================================================
