-------------------------------- MODULE Mcp ---------------------------------
(* Tool servers (mcp/): the client of one server, and the manager of them  *)
(* all.                                                                    *)
EXTENDS Integers, Sequences, FiniteSets, SequencesExt, Naturals

CONSTANTS
  Caller,
  Capacity,    \* of the channel to the writer
  MaxId,       \* bound: requests ever made
  MaxAnswers,   \* bound: answers on their way
  Server, Tool,
  Inner,       \* pairs <<s, u>>: the name of u begins with that of s and a colon
  Connector,   \* tasks in connect_all or connect
  Closer,      \* tasks in disconnect_all or disconnect
  NoClient, MaxClients

VARIABLES
  request_id, pending, queue,
  running,       \* the flag of the client
  writer,        \* the writer task still receives
  reader,        \* the reader task is in its loop
  server,        \* the process is there
  answers,       \* lines on its stdout, oldest first: the id each answers
  caller,         \* [at, id, got]: where each call is, its id, the id it was woken with
  clients,     \* by server: the number of its client
  tools,       \* the keys of the table of tools, as <<server, tool>>
  resources,   \* the servers with entries in the table of resources
  offered,     \* by client: the tools its server listed
  connectAt, todo, target, mine, \* of each task: its step, the servers it goes on to,
                          \* the server and the client at hand
  left,        \* servers an error left entries of
  bared        \* clients whose entries another call removed

-----------------------------------------------------------------------------
(* A stdio client of the Model Context Protocol (mcp/client.rs): callers, the *)
(* task that writes their requests to the server process, and the task that   *)
(* reads the answers and wakes the caller with the answer's id.  The server   *)
(* is another program: it answers in any order, late, twice, with ids nobody  *)
(* asked for, stops reading, or exits.                                        *)

clientVars == <<request_id, pending, queue, running, writer, reader, server, answers, caller>>

Id == 1..MaxId
NoCall == [at |-> "idle", id |-> 0, got |-> 0]

ClientTypeOK ==
  /\ request_id \in 1..(MaxId + 1)
  /\ pending \subseteq Id
  /\ queue \in Seq(Id) /\ Len(queue) <= Capacity
  /\ {running, writer, reader, server} \subseteq BOOLEAN
  /\ answers \in Seq(Id) /\ Len(answers) <= MaxAnswers
  /\ caller \in [Caller -> [at: {"idle", "inserted", "waiting", "woken", "failed"},
                            id: 0..MaxId, got: 0..MaxId]]

\* connect_stdio, up to the spawned tasks.
ClientInit ==
  /\ request_id = 1 /\ pending = {} /\ queue = <<>>
  /\ running = TRUE /\ writer = TRUE /\ reader = TRUE /\ server = TRUE
  /\ answers = <<>> /\ caller = [c \in Caller |-> NoCall]

\* Mutant: the id is not incremented.
RequestSharesId(c) ==
  /\ caller[c].at = "idle" /\ request_id <= MaxId
  /\ UNCHANGED request_id
  /\ pending' = pending \cup {request_id}
  /\ caller' = [caller EXCEPT ![c] = [at |-> "inserted", id |-> request_id, got |-> 0]]
  /\ UNCHANGED <<queue, running, writer, reader, server, answers>>

\* request: the id and the entry in pending.
Request(c) ==
  /\ caller[c].at = "idle" /\ request_id <= MaxId
  /\ request_id' = request_id + 1
  /\ pending' = pending \cup {request_id}
  /\ caller' = [caller EXCEPT ![c] = [at |-> "inserted", id |-> request_id, got |-> 0]]
  /\ UNCHANGED <<queue, running, writer, reader, server, answers>>

\* Mutant: a closed channel is taken for a full one.
SendRequestWaits(c) ==
  /\ caller[c].at = "inserted" /\ writer /\ Len(queue) < Capacity
  /\ queue' = Append(queue, caller[c].id)
  /\ caller' = [caller EXCEPT ![c].at = "waiting"]
  /\ UNCHANGED <<request_id, pending, running, writer, reader, server, answers>>

\* tx.send: waits while the channel is full, fails when the writer is gone;
\* the entry in pending stays behind.
SendRequest(c) ==
  /\ caller[c].at = "inserted"
  /\ IF writer
     THEN /\ Len(queue) < Capacity
          /\ queue' = Append(queue, caller[c].id)
          /\ caller' = [caller EXCEPT ![c].at = "waiting"]
     ELSE /\ caller' = [caller EXCEPT ![c].at = "failed"]
          /\ UNCHANGED queue
  /\ UNCHANGED <<request_id, pending, running, writer, reader, server, answers>>

\* The 30 s timeout drops the receiver, not the entry in pending.
Timeout(c) ==
  /\ caller[c].at = "waiting"
  /\ caller' = [caller EXCEPT ![c].at = "failed"]
  /\ UNCHANGED <<request_id, pending, queue, running, writer, reader, server, answers>>

Return(c) ==
  /\ caller[c].at \in {"woken", "failed"}
  /\ caller' = [caller EXCEPT ![c] = NoCall]
  /\ UNCHANGED <<request_id, pending, queue, running, writer, reader, server, answers>>

\* A write to a process that is gone fails: the task ends and the queue with it.
Write ==
  /\ writer /\ queue # <<>>
  /\ IF server THEN queue' = Tail(queue) /\ UNCHANGED <<running, writer>>
               ELSE queue' = <<>> /\ writer' = FALSE /\ running' = FALSE
  /\ UNCHANGED <<request_id, pending, reader, server, answers, caller>>

\* Mutant: the answer wakes the oldest call.
ReadOldest ==
  /\ reader /\ answers # <<>>
  /\ LET id == Head(answers)
         oldest == Head(SetToSortSeq(pending \cup {MaxId + 1}, <)) IN
       /\ pending' = pending \ {oldest}
       /\ caller' = [c \in Caller |->
            IF caller[c].id = oldest /\ caller[c].at \in {"inserted", "waiting"}
            THEN [caller[c] EXCEPT !.got = id] ELSE caller[c]]
  /\ answers' = Tail(answers)
  /\ reader' = running
  /\ UNCHANGED <<request_id, queue, running, writer, server>>

\* A line answers the entry with its id, if there is one; the caller may be gone.
Read ==
  /\ reader /\ answers # <<>>
  /\ LET id == Head(answers) IN
       /\ pending' = pending \ {id}
       /\ caller' = [c \in Caller |->
            IF id \in pending /\ caller[c].id = id /\ caller[c].at \in {"inserted", "waiting"}
            THEN [caller[c] EXCEPT !.got = id] ELSE caller[c]]
  /\ answers' = Tail(answers)
  /\ reader' = running
  /\ UNCHANGED <<request_id, queue, running, writer, server>>

\* The receiver has its answer: only a caller that waits looks.
Wake(c) ==
  /\ caller[c].at = "waiting" /\ caller[c].got # 0
  /\ caller' = [caller EXCEPT ![c].at = "woken"]
  /\ UNCHANGED <<request_id, pending, queue, running, writer, reader, server, answers>>

ReadEof ==
  /\ reader /\ answers = <<>> /\ ~server
  /\ reader' = FALSE /\ running' = FALSE
  /\ UNCHANGED <<request_id, pending, queue, writer, server, answers, caller>>

\* disconnect only lowers the flag: the reader sees it after its next line.
disconnect ==
  /\ running' = FALSE
  /\ UNCHANGED <<request_id, pending, queue, writer, reader, server, answers, caller>>

ServerAnswers ==
  /\ server /\ Len(answers) < MaxAnswers
  /\ \E id \in Id : answers' = Append(answers, id)
  /\ UNCHANGED <<request_id, pending, queue, running, writer, reader, server, caller>>

ServerExits ==
  /\ server /\ server' = FALSE
  /\ UNCHANGED <<request_id, pending, queue, running, writer, reader, answers, caller>>

ClientNext ==
  \/ \E c \in Caller : Request(c) \/ SendRequest(c) \/ Timeout(c) \/ Wake(c) \/ Return(c)
  \/ Write \/ Read \/ ReadEof \/ disconnect \/ ServerAnswers \/ ServerExits

ClientSpec == ClientInit /\ [][ClientNext]_clientVars

\* tokio runs the callers, their timers and the two tasks; that the writer gets on
\* assumes a server that reads its stdin, which is all a server owes.
FairSpec ==
  /\ ClientSpec
  /\ WF_clientVars(Write) /\ WF_clientVars(Read) /\ WF_clientVars(ReadEof)
  /\ \A c \in Caller :
       WF_clientVars(SendRequest(c)) /\ WF_clientVars(Timeout(c) \/ Wake(c)) /\ WF_clientVars(Return(c))

-----------------------------------------------------------------------------
\* A caller is woken with the answer to its own request, never with one to a
\* request that timed out before it: whatever ids the server sends.
OwnAnswer == \A c \in Caller : caller[c].got \in {0, caller[c].id}

\* Every entry of pending has a caller that still waits for it or waited until
\* its time ran out or its send failed, and no two callers share one; so what
\* the map keeps for ever is exactly the calls that failed unanswered.
PendingAccounted ==
  /\ \A c \in Caller : caller[c].at \in {"inserted", "waiting"} /\ caller[c].got = 0 =>
        caller[c].id \in pending
  /\ \A c, d \in Caller : caller[c].id = caller[d].id /\ caller[c].id # 0 => c = d
  /\ \A id \in pending : id < request_id
  /\ Cardinality({c \in Caller : caller[c].at = "waiting" /\ caller[c].got = 0})
       <= Cardinality(pending)

\* Every request comes back to its caller, answered or failed: the timer covers
\* the wait, and the channel drains as long as the writer runs.
EveryRequestReturns ==
  \A c \in Caller : caller[c].at # "idle" ~> caller[c].at = "idle"

-----------------------------------------------------------------------------
(* The manager of several tool servers (mcp/mod.rs): three tables, of         *)
(* clients, tools and resources, each under a lock of its own, filled by      *)
(* connect and emptied by disconnect, with awaits between.  A tool is listed  *)
(* under "server:tool"; the name of a server may itself hold a colon.         *)

managerVars == <<clients, tools, resources, offered, connectAt, todo, target, mine, left, bared>>
Client == 1..MaxClients
Task == Connector \cup Closer
made == Client \ {n \in Client : offered[n] = {} /\ \A k \in Task : mine[k] # n}

ManagerTypeOK ==
  /\ clients \in [Server -> Client \cup {NoClient}]
  /\ tools \subseteq Server \X Tool /\ resources \subseteq Server
  /\ offered \in [Client -> SUBSET Tool]
  /\ connectAt \in [Task -> {"idle", "tools", "resources", "client", "close", "drop tools",
                      "drop resources"}]
  /\ todo \in [Task -> SUBSET Server]
  /\ target \in [Task -> Server] /\ mine \in [Task -> Client \cup {NoClient}]
  /\ left \subseteq Server /\ bared \subseteq Client

ManagerInit ==
  /\ clients = [s \in Server |-> NoClient]
  /\ tools = {} /\ resources = {}
  /\ offered = [n \in Client |-> {}]
  /\ connectAt = [k \in Task |-> "idle"] /\ todo = [k \in Task |-> {}]
  /\ target = [k \in Task |-> CHOOSE s \in Server : TRUE]
  /\ mine = [k \in Task |-> NoClient]
  /\ left = {} /\ bared = {}

Go(k, step) == connectAt' = [connectAt EXCEPT ![k] = step]

\* connect_all goes through the configured servers; a failed one is logged.
Begin(k) ==
  /\ connectAt[k] = "idle" /\ todo[k] = {}
  /\ \E some \in SUBSET Server :
       /\ k \in Closer => some = {s \in Server : clients[s] # NoClient}
       /\ some # {} /\ todo' = [todo EXCEPT ![k] = some]
  /\ UNCHANGED <<clients, tools, resources, offered, connectAt, target, mine, left, bared>>

\* McpClient::connect; one that fails ends the call.
Connect(k) ==
  /\ connectAt[k] = "idle"
  /\ \E s \in todo[k] :
       /\ todo' = [todo EXCEPT ![k] = @ \ {s}] /\ target' = [target EXCEPT ![k] = s]
       /\ \/ Go(k, "idle") /\ UNCHANGED mine
          \/ \E n \in Client \ made :
               /\ \A m \in Client \ made : n <= m
               /\ mine' = [mine EXCEPT ![k] = n] /\ Go(k, "tools")
  /\ UNCHANGED <<clients, tools, resources, offered, left, bared>>

Fail(k) == Go(k, "idle") /\ mine' = [mine EXCEPT ![k] = NoClient]

ListTools(k) ==
  /\ connectAt[k] = "tools"
  /\ \/ Fail(k) /\ UNCHANGED <<tools, offered>>
     \/ \E some \in SUBSET Tool \ {{}} :
          /\ tools' = tools \cup ({target[k]} \X some)
          /\ offered' = [offered EXCEPT ![mine[k]] = some]
          /\ Go(k, "resources") /\ UNCHANGED mine
  /\ UNCHANGED <<clients, resources, todo, target, left, bared>>

\* The tools are in the table already when this request fails.
ListResources(k) ==
  /\ connectAt[k] = "resources"
  /\ \/ Fail(k) /\ left' = left \cup {target[k]} /\ UNCHANGED resources
     \/ resources' = resources \cup {target[k]} /\ Go(k, "client") /\ UNCHANGED <<left, mine>>
  /\ UNCHANGED <<clients, tools, offered, todo, target, bared>>

\* A client that was there is dropped, not disconnected.
StoreClient(k) ==
  /\ connectAt[k] = "client"
  /\ clients' = [clients EXCEPT ![target[k]] = mine[k]]
  /\ Fail(k)
  /\ UNCHANGED <<tools, resources, offered, todo, target, left, bared>>

RemoveClient(k) ==
  /\ connectAt[k] = "idle"
  /\ \E s \in todo[k] :
       /\ todo' = [todo EXCEPT ![k] = @ \ {s}] /\ target' = [target EXCEPT ![k] = s]
       /\ clients' = [clients EXCEPT ![s] = NoClient]
       /\ IF clients[s] = NoClient THEN UNCHANGED <<connectAt, mine>>
          ELSE Go(k, "close") /\ mine' = [mine EXCEPT ![k] = clients[s]]
  /\ UNCHANGED <<tools, resources, offered, left, bared>>

\* An error of the client leaves its entries.
CloseClient(k) ==
  /\ connectAt[k] = "close"
  /\ \/ Fail(k) /\ left' = left \cup {target[k]}
     \/ Go(k, "drop tools") /\ UNCHANGED <<left, mine>>
  /\ UNCHANGED <<clients, tools, resources, offered, todo, target, bared>>

\* The servers whose keys begin with "s:".
Under(s) == {s} \cup {u \in Server : <<s, u>> \in Inner}

\* Mutant: the keys with the prefix are kept instead.
RetainedWrong(s) == {key \in tools : key[1] \in Under(s)}

\* retain: the keys without the prefix.
Retained(s) == {key \in tools : key[1] \notin Under(s)}

Bare(k) ==
  bared' = bared \cup {n \in Client : \/ \E u \in Under(target[k]) : clients[u] = n
                                     \/ \E j \in Connector : /\ mine[j] = n
                                                             /\ target[j] \in Under(target[k])}

\* Mutant: the tools stay.
ToolsNotDropped(k) ==
  /\ connectAt[k] = "drop tools" /\ Bare(k) /\ Go(k, "drop resources")
  /\ UNCHANGED <<clients, tools, resources, offered, todo, target, mine, left>>

DropTools(k) ==
  /\ connectAt[k] = "drop tools"
  /\ tools' = Retained(target[k])
  /\ Bare(k) /\ Go(k, "drop resources")
  /\ UNCHANGED <<clients, resources, offered, todo, target, mine, left>>

DropResources(k) ==
  /\ connectAt[k] = "drop resources"
  /\ resources' = resources \ Under(target[k])
  /\ Bare(k) /\ Fail(k)
  /\ UNCHANGED <<clients, tools, offered, todo, target, left>>

ManagerNext ==
  \/ \E k \in Task : Begin(k)
  \/ \E k \in Connector : Connect(k) \/ ListTools(k) \/ ListResources(k) \/ StoreClient(k)
  \/ \E k \in Closer : RemoveClient(k) \/ CloseClient(k) \/ DropTools(k) \/ DropResources(k)

Listed == {key[1] : key \in tools} \cup resources

\* A tool or resource on the list belongs to a server that is connected, that a
\* call is connecting or disconnecting just now, or of which such a call failed
\* half way (mod.rs:121, 147).
ListedIsServed ==
  \A s \in Listed :
    \/ clients[s] # NoClient \/ s \in left
    \/ \E k \in Task : target[k] = s /\ connectAt[k] \notin {"idle", "tools"}

\* The tools a connected server offered are on the list, unless a disconnect of
\* its last client, or of a server whose name its own begins with, was under way
\* while it connected or since.
ServedIsListed ==
  \A s \in Server :
    clients[s] # NoClient /\ clients[s] \notin bared =>
      {s} \X offered[clients[s]] \subseteq tools

-----------------------------------------------------------------------------
\* The parts share no state and move one at a time.
vars == <<clientVars, managerVars>>

Init == ClientInit /\ ManagerInit

TypeOK == ClientTypeOK /\ ManagerTypeOK

Next ==
    \/ ClientNext /\ UNCHANGED managerVars
    \/ ManagerNext /\ UNCHANGED clientVars

Spec == Init /\ [][Next]_vars
=============================================================================
