--------------------------- MODULE SwarmManager ---------------------------
(***************************************************************************)
(* The agents of the swarm (swarm/manager.rs, swarm/agent.rs) and what the *)
(* web pages show of them (web/mod.rs).  One task, the bridge of node.rs,  *)
(* hands over network events; others change agent states and record jobs.  *)
(* The maps have a lock each, and the guard of peer_to_agent is held       *)
(* across calls, so its readers are part of the state.  remove_agent and   *)
(* add_connection have no caller and are left out.                         *)
(***************************************************************************)
EXTENDS Integers, FiniteSetsExt, SequencesExt

CONSTANTS
    RemotePeer,
    Recorder,            \* tasks that record jobs
    MaxJobs,             \* bound: jobs and other actions recorded
    max_action_history

VARIABLES
    agents,          \* in the order of their insertion
    peer_to_agent,   \* the index of a peer's agent, 0 without one
    bridge,          \* where the bridge task is: [at, peer, agent]
    recorder,        \* where each recording task is: [at, agent]
    stats,           \* total_actions, total_jobs
    history          \* action_history: the agents that acted

vars == <<agents, peer_to_agent, bridge, recorder, stats, history>>

\* Waiting and failed agents are "Idle", thinking ones "Working": the code
\* tells the busy and the offline ones from the others.
State == {"Idle", "Working", "Offline"}

is_busy(agent) == agent.state = "Working"

Local == "local"

IsLocal(agent) == agent.peer = Local

NewAgent(p) ==
    [peer |-> p, state |-> "Idle", actions |-> 0, completed |-> 0, failed |-> 0]

\* record_job_result.
CountResult(agent, success) ==
    IF success THEN [agent EXCEPT !.completed = @ + 1] ELSE [agent EXCEPT !.failed = @ + 1]

\* "offline": inside the if-let, with the read guard; "build", "index": in
\* register_peer_agent, called with or without it.
BridgeStep == {"ready", "build", "index", "offline", "profile", "ended"}

ReadyRecorder == [at |-> "ready", agent |-> 0, success |-> FALSE]
ReadyBridge == [at |-> "ready", peer |-> Local, agent |-> 0, guard |-> FALSE]

TypeOK ==
    /\ agents \in Seq([peer : RemotePeer \cup {Local}, state : State,
                       actions : 0..MaxJobs, completed : 0..MaxJobs, failed : 0..MaxJobs])
    /\ peer_to_agent \in [RemotePeer -> 0..Len(agents)]
    /\ bridge \in [at : BridgeStep, peer : RemotePeer \cup {Local},
                   agent : 0..Len(agents), guard : BOOLEAN]
    /\ recorder \in [Recorder -> [at : {"ready", "result", "action", "total", "history"},
                                  agent : 0..Len(agents), success : BOOLEAN]]
    /\ stats \in [total_actions : 0..MaxJobs, total_jobs : 0..MaxJobs]
    /\ history \in Seq(1..Len(agents)) /\ Len(history) <= max_action_history

\* The node registers itself before it serves events.
Init ==
    /\ agents = <<NewAgent(Local)>>
    /\ peer_to_agent = [p \in RemotePeer |-> 0]
    /\ bridge = ReadyBridge
    /\ recorder = [t \in Recorder |-> ReadyRecorder]
    /\ stats = [total_actions |-> 0, total_jobs |-> 0]
    /\ history = <<>>

recVars == <<recorder, stats, history>>

-----------------------------------------------------------------------------
(* handle_network_event, one event after the other. *)

\* register_peer_agent returns the agent it finds.
LookUpOrBuild(p, guard) ==
    bridge' = IF peer_to_agent[p] # 0 THEN ReadyBridge
              ELSE [at |-> "build", peer |-> p, agent |-> 0, guard |-> guard]

PeerConnected(p) ==
    /\ bridge.at = "ready"
    /\ LookUpOrBuild(p, FALSE)
    /\ UNCHANGED <<agents, peer_to_agent, recVars>>

\* recv fails for a bridge that fell behind the events, and ends the node's loop.
BridgeLags ==
    /\ bridge.at = "ready"
    /\ bridge' = [ReadyBridge EXCEPT !.at = "ended"]
    /\ UNCHANGED <<agents, peer_to_agent, recVars>>

\* The guard of the if-let is alive while update_agent_state runs.
PeerDisconnected(p) ==
    /\ bridge.at = "ready" /\ peer_to_agent[p] # 0
    /\ bridge' = [at |-> "offline", peer |-> p, agent |-> peer_to_agent[p], guard |-> TRUE]
    /\ UNCHANGED <<agents, peer_to_agent, recVars>>

\* Mutant: the peer is taken out of the index as well.
GoOfflineForgets ==
    /\ bridge.at = "offline"
    /\ agents' = [agents EXCEPT ![bridge.agent].state = "Offline"]
    /\ peer_to_agent' = [peer_to_agent EXCEPT ![bridge.peer] = 0]
    /\ bridge' = ReadyBridge
    /\ UNCHANGED recVars

GoOffline ==
    /\ bridge.at = "offline"
    /\ agents' = [agents EXCEPT ![bridge.agent].state = "Offline"]
    /\ bridge' = ReadyBridge
    /\ UNCHANGED <<peer_to_agent, recVars>>

\* A known peer's profile is updated without the guard; for an unknown one
\* register_peer_agent is called inside the else branch, with it.
ResourceAdvertised(p) ==
    /\ bridge.at = "ready"
    /\ IF peer_to_agent[p] # 0
       THEN bridge' = [at |-> "profile", peer |-> p, agent |-> peer_to_agent[p], guard |-> FALSE]
       ELSE LookUpOrBuild(p, TRUE)
    /\ UNCHANGED <<agents, peer_to_agent, recVars>>

\* Mutant: the known peer is registered again under the guard.
UpdateProfileReindexes ==
    /\ bridge.at = "profile"
    /\ bridge' = [bridge EXCEPT !.at = "index", !.guard = TRUE]
    /\ UNCHANGED <<agents, peer_to_agent, recVars>>

UpdateProfile ==
    /\ bridge.at = "profile"
    /\ bridge' = ReadyBridge
    /\ UNCHANGED <<agents, peer_to_agent, recVars>>

InsertAgent ==
    /\ bridge.at = "build"
    /\ agents' = Append(agents, NewAgent(bridge.peer))
    /\ bridge' = [bridge EXCEPT !.at = "index", !.agent = Len(agents) + 1]
    /\ UNCHANGED <<peer_to_agent, recVars>>

\* The write lock waits for the read guard, the task's own one too.
IndexAgent ==
    /\ bridge.at = "index" /\ ~bridge.guard
    /\ peer_to_agent' = [peer_to_agent EXCEPT ![bridge.peer] = bridge.agent]
    /\ bridge' = ReadyBridge
    /\ UNCHANGED <<agents, recVars>>

-----------------------------------------------------------------------------
\* serve --agent, before the node serves: a spec that is missing or cannot be
\* read registers nothing, one that cannot be parsed an "unnamed" agent.
LoadAgent(spec) ==
    /\ spec \in {"unparsed", "good"}
    /\ agents = <<NewAgent(Local)>> /\ bridge = ReadyBridge /\ stats.total_jobs = 0
    /\ agents' = Append(agents, NewAgent(Local))
    /\ UNCHANGED <<peer_to_agent, bridge, recVars>>

\* update_agent_state for a local agent.
UpdateAgentState(a, s) ==
    /\ IsLocal(agents[a])
    /\ agents' = [agents EXCEPT ![a].state = s]
    /\ UNCHANGED <<peer_to_agent, bridge, recVars>>

Recording(steps) == Quantify(Recorder, LAMBDA t : recorder[t].at \in steps)

MayRecord(t) ==
    /\ recorder[t].at = "ready"
    /\ stats.total_actions + Recording({"result", "action", "total"}) < MaxJobs

\* record_job_action for a finished job: the totals and the agent's figures
\* are under locks of their own, taken one after the other.
RecordJob(t, a, success) ==
    /\ MayRecord(t)
    /\ stats' = [stats EXCEPT !.total_jobs = @ + 1]
    /\ recorder' = [recorder EXCEPT ![t] = [at |-> "result", agent |-> a, success |-> success]]
    /\ UNCHANGED <<agents, peer_to_agent, bridge, history>>

\* record_job_action for another action, or record_action itself: no job counted.
RecordAction(t, a) ==
    /\ MayRecord(t)
    /\ recorder' = [recorder EXCEPT ![t] = [at |-> "action", agent |-> a, success |-> FALSE]]
    /\ UNCHANGED <<agents, peer_to_agent, bridge, stats, history>>

RecordResult(t) ==
    /\ recorder[t].at = "result"
    /\ agents' = [agents EXCEPT ![recorder[t].agent] = CountResult(@, recorder[t].success)]
    /\ recorder' = [recorder EXCEPT ![t].at = "action", ![t].success = FALSE]
    /\ UNCHANGED <<peer_to_agent, bridge, stats, history>>

\* record_action.
CountAction(t) ==
    /\ recorder[t].at = "action"
    /\ agents' = [agents EXCEPT ![recorder[t].agent].actions = @ + 1]
    /\ recorder' = [recorder EXCEPT ![t].at = "total"]
    /\ UNCHANGED <<peer_to_agent, bridge, stats, history>>

CountTotal(t) ==
    /\ recorder[t].at = "total"
    /\ stats' = [stats EXCEPT !.total_actions = @ + 1]
    /\ recorder' = [recorder EXCEPT ![t].at = "history"]
    /\ UNCHANGED <<agents, peer_to_agent, bridge, history>>

\* Mutant: off by one at the limit.
PushHistoryEarly(h, a) ==
    LET longer == Append(h, a)
    IN  IF Len(longer) >= max_action_history THEN Tail(longer) ELSE longer

PushHistory(h, a) ==
    LET longer == Append(h, a)
    IN  IF Len(longer) > max_action_history THEN Tail(longer) ELSE longer

AppendHistory(t) ==
    /\ recorder[t].at = "history"
    /\ history' = PushHistory(history, recorder[t].agent)
    /\ recorder' = [recorder EXCEPT ![t] = ReadyRecorder]
    /\ UNCHANGED <<agents, peer_to_agent, bridge, stats>>

BridgeStepNext == GoOffline \/ UpdateProfile \/ InsertAgent \/ IndexAgent

Next ==
    \/ \E p \in RemotePeer : PeerConnected(p) \/ PeerDisconnected(p) \/ ResourceAdvertised(p)
    \/ BridgeStepNext \/ BridgeLags
    \/ \E spec \in {"missing", "unreadable", "unparsed", "good"} : LoadAgent(spec)
    \/ \E a \in DOMAIN agents, s \in State \ {"Offline"} : UpdateAgentState(a, s)
    \/ \E t \in Recorder :
        \/ \E a \in DOMAIN agents :
              (\E success \in BOOLEAN : RecordJob(t, a, success)) \/ RecordAction(t, a)
        \/ RecordResult(t) \/ CountAction(t) \/ CountTotal(t) \/ AppendHistory(t)

Spec == Init /\ [][Next]_vars

FairSpec == Spec /\ WF_vars(BridgeStepNext)

-----------------------------------------------------------------------------
(* What the pages ask for. *)

\* get_agents: an agent without finished jobs has a perfect rate.
AgentsShown ==
    [a \in DOMAIN agents |->
       LET total == agents[a].completed + agents[a].failed
       IN  [is_local |-> IsLocal(agents[a]), state |-> agents[a].state,
            rate |-> IF total = 0 THEN <<1, 1>> ELSE <<agents[a].completed, total>>]]

\* api_swarm_topology: an edge from every local agent to every remote one.
Edges ==
    LET shown == AgentsShown
    IN  {e \in (DOMAIN shown) \X (DOMAIN shown) : shown[e[1]].is_local /\ ~shown[e[2]].is_local}

get_stats ==
    [total_agents |-> Len(agents), active_agents |-> Cardinality({a \in DOMAIN agents : is_busy(agents[a])}),
     total_actions |-> stats.total_actions, total_jobs |-> stats.total_jobs]

SaturatingSub(a, b) == IF a > b THEN a - b ELSE 0

\* Mutant: the page ends where the history does.
GetActionsToTheEnd(limit, offset) ==
    IF offset >= Len(history) THEN <<>>
    ELSE SubSeq(history, SaturatingSub(Len(history), offset + limit) + 1, Len(history))

\* get_actions.
GetActions(limit, offset) ==
    IF offset >= Len(history) THEN <<>>
    ELSE SubSeq(history, SaturatingSub(Len(history), offset + limit) + 1,
                SaturatingSub(Len(history), offset))

\* api_swarm_timeline: the page never says that there is more.
Timeline ==
    LET actions == GetActions(50, 0)
    IN  [actions |-> actions, total |-> Len(actions), has_more |-> FALSE]

-----------------------------------------------------------------------------
\* Properties.

\* A peer has one agent however often it connects, advertises or comes back,
\* so the page draws one edge from a local agent to it, and the index leads to
\* the agent of that peer: lookup, insertion into agents and insertion into
\* peer_to_agent are under separate locks.
OneAgentPerPeer ==
    LET edges == Edges
    IN  \A p \in RemotePeer :
            /\ peer_to_agent[p] # 0 => agents[peer_to_agent[p]].peer = p
            /\ \A l \in DOMAIN agents :
                Cardinality({e \in edges : e[1] = l /\ agents[e[2]].peer = p}) <= 1

\* The pages of the timeline make up the history, whatever their size.
PagesMakeHistory ==
    \A limit \in 1..max_action_history :
        LET Page(i) == GetActions(limit, (max_action_history - i) * limit)
        IN  FlattenSeq([i \in 1..max_action_history |-> Page(i)]) = history

SumOver(f(_)) == MapThenSumSet(f, DOMAIN agents)

\* get_stats and the agents' own figures are kept apart; no agent's actions
\* are lost, the totals differ by the recordings under way only, an agent's jobs
\* are among its actions but for the one being recorded, and the page of the
\* timeline has the latest of the actions counted.
FiguresAgree ==
    LET At(s) == Recording({s})
        Jobs(a) == agents[a].completed + agents[a].failed
        Actions(a) == agents[a].actions
        told == get_stats
    IN  /\ told.total_jobs = SumOver(Jobs) + At("result")
        /\ told.total_actions = SumOver(Actions) - At("total")
        /\ \A a \in DOMAIN agents :
              Jobs(a) <= Actions(a) + Quantify(Recorder, LAMBDA t :
                             recorder[t].at = "action" /\ recorder[t].agent = a)
        /\ told.active_agents <= told.total_agents
        /\ Timeline.total =
             Min({max_action_history, stats.total_actions - At("history")})

\* The bridge comes back for the next event, whoever else takes the locks, with
\* one exception: the handler of an advertisement of a peer without an agent
\* waits for the lock its own if-let holds, and so for ever, with all events
\* after it (manager.rs:309-312).
SelfBlocked == bridge.at = "index" /\ bridge.guard
EventHandled ==
    \A p \in RemotePeer :
        LET Handling == bridge.at # "ready" /\ bridge.peer = p
            InsideGuard == bridge.guard /\ peer_to_agent[p] = 0
        IN  /\ Handling /\ ~InsideGuard ~> bridge.at = "ready"
            /\ Handling /\ InsideGuard ~> []SelfBlocked

=============================================================================
